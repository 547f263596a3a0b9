---------------------------- MODULE TaskBootstrap ----------------------------
(***************************************************************************)
(* What one mesh-init run promises the task's sidecar, whichever variant   *)
(* runs it (catalog-based MeshInit or agent-based AgentMeshInit).  The run *)
(* has a set of items its configuration calls for (registrations with      *)
(* Consul, files on the shared volume); it produces them one at a time,    *)
(* never one the configuration does not call for, and never undoes one;   *)
(* it exits once, with 0 only when every item is produced, or with 1 at    *)
(* any point, leaving behind what it produced (spec 4.2: the sidecar       *)
(* depends on a successful exit).  MeshInit and AgentMeshInit implement    *)
(* this specification (see MeshInitProofs and AgentMeshInitProofs).       *)
(***************************************************************************)
EXTENDS TLAPS

CONSTANT Items   \* registrations and files a run can produce

VARIABLES
    need,        \* the items the run's configuration calls for
    done,        \* the items produced so far
    status       \* "running", or how the run exited: "succeeded", "failed"

bootVars == <<need, done, status>>

Init ==
    /\ need \in SUBSET Items
    /\ done = {}
    /\ status = "running"

\* A registration or a write the configuration calls for succeeds.
Produce ==
    /\ status = "running"
    /\ \E i \in need : done' = done \cup {i}
    /\ UNCHANGED <<need, status>>

\* The run returns 0, its last items produced in the same step, only once
\* everything the configuration calls for is there.
Succeed ==
    /\ status = "running"
    /\ \E S \in SUBSET need : done' = done \cup S
    /\ need \subseteq done'
    /\ status' = "succeeded"
    /\ UNCHANGED need

\* The run returns 1 and leaves behind what it produced.
Fail ==
    /\ status = "running"
    /\ status' = "failed"
    /\ UNCHANGED <<need, done>>

Next == Produce \/ Succeed \/ Fail

Spec == Init /\ [][Next]_bootVars

-----------------------------------------------------------------------------

\* A run that exited with 0 has produced everything its configuration
\* calls for, and no run produces anything else.
Delivered ==
    /\ status = "succeeded" => need \subseteq done
    /\ done \subseteq need

\* Delivered is inductive: a run produces only needed items, and the step
\* that succeeds checks that all of them are there; nothing happens after
\* the exit.
LEMMA DeliveredInductive == Delivered /\ [Next]_bootVars => Delivered'
<1> SUFFICES ASSUME Delivered, [Next]_bootVars PROVE Delivered'
  OBVIOUS
<1>1. CASE Produce
  BY <1>1 DEF Produce, Delivered
<1>2. CASE Succeed
  BY <1>2 DEF Succeed, Delivered
<1>3. CASE Fail
  BY <1>3 DEF Fail, Delivered
<1>4. CASE UNCHANGED bootVars
  BY <1>4 DEF bootVars, Delivered
<1>5. QED
  BY <1>1, <1>2, <1>3, <1>4 DEF Next

\* Whatever the items, a run that exits with 0 has produced all of them
\* and none that its configuration does not call for.
THEOREM BootstrapSafe == Spec => []Delivered
<1>1. Init => Delivered
  BY DEF Init, Delivered
<1>2. QED
  BY <1>1, DeliveredInductive, PTL DEF Spec
=============================================================================
