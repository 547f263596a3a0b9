--------------------------- MODULE MC_MeshTaskACL ---------------------------
(* MC_ACLController's cluster with the mesh-init of task a2 (family f1)    *)
(* followed, and no failed calls.                                          *)
EXTENDS MeshTaskACL, MC_ACLController

MCMeshTask == a2
MCNoFaults == 0
MCOneFault == 1
=============================================================================
