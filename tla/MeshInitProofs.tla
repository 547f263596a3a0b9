---------------------------- MODULE MeshInitProofs ----------------------------
(***************************************************************************)
(* Theorems about MeshInit, checked by TLAPS for every bound on rejected   *)
(* registrations.                                                          *)
(***************************************************************************)
EXTENDS MeshInit, TLAPS

\* What the sidecar needs on start, as SidecarStartsOnlyWhenReady states it.
Ready ==
    /\ "proxy" \in catalog
    /\ "gateway" \notin cfg => "service" \in catalog
    /\ {"binary", "dataplane"} \subseteq files
    /\ "tls" \in cfg => dataplaneCA # NoCACert
    /\ dataplaneCA = WrittenCACert => "caCert" \in files

(***************************************************************************)
(* SidecarStartsOnlyWhenReady is not inductive: it speaks of the sidecar   *)
(* only, and a step of realRun that ends the run with 0 must find the      *)
(* earlier steps done.  The strengthening records, for each point realRun *)
(* can be at, what the steps before it left behind, and that the sidecar   *)
(* runs only after a successful exit.                                      *)
(***************************************************************************)
\* the deferred watcher.Stop: once Run has returned the watcher is stopped
WatcherStoppedOnExit ==
    pc = "exited" => watcher # "running"
WatcherAfterMeta ==
    pc \in {"start", "meta"} => watcher = "none"
ServiceBeforeProxy ==
    pc = "registerProxy" => ("gateway" \notin cfg => "service" \in catalog)
RegisteredBeforeCopy ==
    pc \in {"copyBinary", "caCert", "dataplane"} =>
        /\ "proxy" \in catalog
        /\ "gateway" \notin cfg => "service" \in catalog
BinaryBeforeCACert ==
    pc \in {"caCert", "dataplane"} => "binary" \in files
CACertBeforeDataplane ==
    pc = "dataplane" =>
        /\ "tls" \in cfg => caPath # NoCACert
        /\ caPath = WrittenCACert => "caCert" \in files
ReadyOnSuccess ==
    pc = "exited" /\ exitCode = 0 => Ready
SidecarAfterSuccess ==
    sidecar = "running" => pc = "exited" /\ exitCode = 0

IInv ==
    /\ TypeOK
    /\ WatcherStoppedOnExit
    /\ WatcherAfterMeta
    /\ ServiceBeforeProxy
    /\ RegisteredBeforeCopy
    /\ BinaryBeforeCACert
    /\ CACertBeforeDataplane
    /\ ReadyOnSuccess
    /\ SidecarAfterSuccess

-----------------------------------------------------------------------------

LEMMA InitIInv == Init => IInv
BY RejectsAssumption
   DEF Init, IInv, TypeOK, Configs, WatcherStoppedOnExit, WatcherAfterMeta,
       ServiceBeforeProxy, RegisteredBeforeCopy, BinaryBeforeCACert, CACertBeforeDataplane,
       ReadyOnSuccess, SidecarAfterSuccess, NoCACert, WrittenCACert,
       ConfiguredCACert

\* Every step of realRun, and the start of the sidecar by ECS, keeps the
\* strengthened invariant.
LEMMA NextIInv == IInv /\ [Next]_vars => IInv'
<1> SUFFICES ASSUME IInv, [Next]_vars PROVE IInv'
  OBVIOUS
<1> USE DEF IInv, NoCACert, WrittenCACert, ConfiguredCACert
<1>1. CASE Run
  <2>1. UNCHANGED <<cfg, watcher, catalog, files, caPath, dataplaneCA, rejects,
                    sidecar>>
    BY <1>1 DEF Run
  <2>2. pc = "start"
    BY <1>1 DEF Run
  <2>3. CASE pc' = "meta" /\ UNCHANGED exitCode
    BY <2>1, <2>2, <2>3 DEF TypeOK, WatcherStoppedOnExit, WatcherAfterMeta,
       ServiceBeforeProxy, RegisteredBeforeCopy, BinaryBeforeCACert,
       CACertBeforeDataplane, ReadyOnSuccess, Ready, SidecarAfterSuccess
  <2>4. CASE pc' = "exited" /\ exitCode' = 1
    BY <2>1, <2>2, <2>4 DEF TypeOK, WatcherStoppedOnExit, WatcherAfterMeta,
       ServiceBeforeProxy, RegisteredBeforeCopy, BinaryBeforeCACert,
       CACertBeforeDataplane, ReadyOnSuccess, Ready, SidecarAfterSuccess
  <2>5. QED
    BY <1>1, <2>3, <2>4 DEF Run
<1>2. CASE StartWatcher
  BY <1>2 DEF StartWatcher, Fail, StopWatcher, TypeOK, WatcherStoppedOnExit,
     WatcherAfterMeta, ServiceBeforeProxy, RegisteredBeforeCopy,
     BinaryBeforeCACert, CACertBeforeDataplane, ReadyOnSuccess, Ready,
     SidecarAfterSuccess
<1>3. CASE WatcherState
  BY <1>3 DEF WatcherState, Fail, StopWatcher, TypeOK, WatcherStoppedOnExit,
     WatcherAfterMeta, ServiceBeforeProxy, RegisteredBeforeCopy,
     BinaryBeforeCACert, CACertBeforeDataplane, ReadyOnSuccess, Ready,
     SidecarAfterSuccess
<1>4. CASE RegisterService
  <2>1. UNCHANGED <<cfg, exitCode, watcher, files, caPath, dataplaneCA, sidecar>>
    BY <1>4 DEF RegisterService
  <2>2. pc = "registerService"
    BY <1>4 DEF RegisterService
  <2>3. CASE catalog' = catalog \cup {"service"} /\ pc' = "registerProxy"
              /\ UNCHANGED rejects
    BY <2>1, <2>2, <2>3 DEF TypeOK, WatcherStoppedOnExit, WatcherAfterMeta,
       ServiceBeforeProxy, RegisteredBeforeCopy, BinaryBeforeCACert,
       CACertBeforeDataplane, ReadyOnSuccess, Ready, SidecarAfterSuccess
  <2>4. CASE rejects < MaxRejects /\ rejects' = rejects + 1
              /\ UNCHANGED <<catalog, pc>>
    <3>1. rejects' \in 0..MaxRejects
      BY <2>4, RejectsAssumption DEF TypeOK
    <3>2. UNCHANGED <<catalog, pc>>
      BY <2>4
    <3>3. QED
      BY <2>1, <3>1, <3>2 DEF TypeOK, WatcherStoppedOnExit, WatcherAfterMeta,
         ServiceBeforeProxy, RegisteredBeforeCopy, BinaryBeforeCACert,
         CACertBeforeDataplane, ReadyOnSuccess, Ready, SidecarAfterSuccess
  <2>5. QED
    BY <1>4, <2>3, <2>4 DEF RegisterService, Register
<1>5. CASE RegisterProxy
  <2>1. UNCHANGED <<cfg, exitCode, watcher, files, caPath, dataplaneCA, sidecar>>
    BY <1>5 DEF RegisterProxy
  <2>2. pc = "registerProxy"
    BY <1>5 DEF RegisterProxy
  <2>3. CASE catalog' = catalog \cup {"proxy"} /\ pc' = "copyBinary"
              /\ UNCHANGED rejects
    BY <2>1, <2>2, <2>3 DEF TypeOK, WatcherStoppedOnExit, WatcherAfterMeta,
       ServiceBeforeProxy, RegisteredBeforeCopy, BinaryBeforeCACert,
       CACertBeforeDataplane, ReadyOnSuccess, Ready, SidecarAfterSuccess
  <2>4. CASE rejects < MaxRejects /\ rejects' = rejects + 1
              /\ UNCHANGED <<catalog, pc>>
    <3>1. rejects' \in 0..MaxRejects
      BY <2>4, RejectsAssumption DEF TypeOK
    <3>2. UNCHANGED <<catalog, pc>>
      BY <2>4
    <3>3. QED
      BY <2>1, <3>1, <3>2 DEF TypeOK, WatcherStoppedOnExit, WatcherAfterMeta,
         ServiceBeforeProxy, RegisteredBeforeCopy, BinaryBeforeCACert,
         CACertBeforeDataplane, ReadyOnSuccess, Ready, SidecarAfterSuccess
  <2>5. QED
    BY <1>5, <2>3, <2>4 DEF RegisterProxy, Register
<1>6. CASE CopyECSBinaryToSharedVolume
  <2>1. UNCHANGED <<cfg, catalog, caPath, dataplaneCA, rejects, sidecar>>
    BY <1>6 DEF CopyECSBinaryToSharedVolume
  <2>2. pc = "copyBinary"
    BY <1>6 DEF CopyECSBinaryToSharedVolume
  <2>3. CASE files' = files \cup {"binary"} /\ pc' = "caCert"
              /\ UNCHANGED <<exitCode, watcher>>
    BY <2>1, <2>2, <2>3 DEF TypeOK, WatcherStoppedOnExit, WatcherAfterMeta,
       ServiceBeforeProxy, RegisteredBeforeCopy, BinaryBeforeCACert,
       CACertBeforeDataplane, ReadyOnSuccess, Ready, SidecarAfterSuccess
  <2>4. CASE Fail /\ UNCHANGED files
    BY <2>1, <2>2, <2>4 DEF Fail, StopWatcher, TypeOK, WatcherStoppedOnExit,
       WatcherAfterMeta, ServiceBeforeProxy, RegisteredBeforeCopy,
       BinaryBeforeCACert, CACertBeforeDataplane, ReadyOnSuccess, Ready,
       SidecarAfterSuccess
  <2>5. QED
    BY <1>6, <2>3, <2>4 DEF CopyECSBinaryToSharedVolume
<1>7. CASE WriteRPCCACertToSharedVolume
  <2>1. UNCHANGED <<cfg, catalog, dataplaneCA, rejects, sidecar>>
    BY <1>7 DEF WriteRPCCACertToSharedVolume
  <2>2. pc = "caCert"
    BY <1>7 DEF WriteRPCCACertToSharedVolume
  <2>3. CASE pc' = "dataplane" /\ UNCHANGED <<exitCode, watcher>>
              /\ \/ "tls" \notin cfg /\ caPath' = NoCACert /\ files' = files
                 \/ "tls" \in cfg /\ caPath' = ConfiguredCACert /\ files' = files
                 \/ caPath' = WrittenCACert /\ files' = files \cup {"caCert"}
    BY <2>1, <2>2, <2>3 DEF TypeOK, WatcherStoppedOnExit, WatcherAfterMeta,
       ServiceBeforeProxy, RegisteredBeforeCopy, BinaryBeforeCACert,
       CACertBeforeDataplane, ReadyOnSuccess, Ready, SidecarAfterSuccess
  <2>4. CASE Fail /\ UNCHANGED <<files, caPath>>
    BY <2>1, <2>2, <2>4 DEF Fail, StopWatcher, TypeOK, WatcherStoppedOnExit,
       WatcherAfterMeta, ServiceBeforeProxy, RegisteredBeforeCopy,
       BinaryBeforeCACert, CACertBeforeDataplane, ReadyOnSuccess, Ready,
       SidecarAfterSuccess
  <2>5. QED
    BY <1>7, <2>3, <2>4 DEF WriteRPCCACertToSharedVolume
<1>8. CASE GenerateAndWriteDataplaneConfig
  <2>1. UNCHANGED <<cfg, catalog, caPath, rejects, sidecar>>
    BY <1>8 DEF GenerateAndWriteDataplaneConfig
  <2>2. pc = "dataplane"
    BY <1>8 DEF GenerateAndWriteDataplaneConfig
  <2>3. CASE /\ files' = files \cup {"dataplane"}
             /\ dataplaneCA' = caPath
             /\ pc' = "exited"
             /\ exitCode' = 0
             /\ watcher' = StopWatcher
    BY <2>1, <2>2, <2>3 DEF StopWatcher, TypeOK, WatcherStoppedOnExit,
       WatcherAfterMeta, ServiceBeforeProxy, RegisteredBeforeCopy,
       BinaryBeforeCACert, CACertBeforeDataplane, ReadyOnSuccess, Ready,
       SidecarAfterSuccess
  <2>4. CASE Fail /\ UNCHANGED <<files, dataplaneCA>>
    BY <2>1, <2>2, <2>4 DEF Fail, StopWatcher, TypeOK, WatcherStoppedOnExit,
       WatcherAfterMeta, ServiceBeforeProxy, RegisteredBeforeCopy,
       BinaryBeforeCACert, CACertBeforeDataplane, ReadyOnSuccess, Ready,
       SidecarAfterSuccess
  <2>5. QED
    BY <1>8, <2>3, <2>4 DEF GenerateAndWriteDataplaneConfig
<1>9. CASE StartSidecar
  BY <1>9 DEF StartSidecar, TypeOK, WatcherStoppedOnExit, WatcherAfterMeta,
     ServiceBeforeProxy, RegisteredBeforeCopy, BinaryBeforeCACert,
     CACertBeforeDataplane, ReadyOnSuccess, Ready, SidecarAfterSuccess
<1>10. CASE UNCHANGED vars
  BY <1>10 DEF vars, TypeOK, WatcherStoppedOnExit, WatcherAfterMeta,
     ServiceBeforeProxy, RegisteredBeforeCopy, BinaryBeforeCACert,
     CACertBeforeDataplane, ReadyOnSuccess, Ready, SidecarAfterSuccess
<1>11. QED
  BY <1>1, <1>2, <1>3, <1>4, <1>5, <1>6, <1>7, <1>8, <1>9, <1>10
     DEF Next, MeshInitStep

\* realRun's steps keep the state well typed.
THEOREM TypeCorrect == Spec => []TypeOK
<1>1. IInv => TypeOK
  BY DEF IInv
<1>2. QED
  BY <1>1, InitIInv, NextIInv, PTL DEF Spec

\* The sidecar never starts against an incomplete bootstrap: mesh-init
\* exits with 0 only after both registrations and every artifact write of
\* realRun succeeded.
THEOREM SidecarReady == Spec => []SidecarStartsOnlyWhenReady
<1>1. IInv => SidecarStartsOnlyWhenReady
  BY DEF IInv, SidecarAfterSuccess, ReadyOnSuccess, Ready,
     SidecarStartsOnlyWhenReady
<1>2. QED
  BY <1>1, InitIInv, NextIInv, PTL DEF Spec


-----------------------------------------------------------------------------
(***************************************************************************)
(* MeshInit implements TaskBootstrap under the mapping Contract.  Two more *)
(* facts than IInv are needed: realRun registers a service only for a      *)
(* config that is not a gateway's (so the service is a needed item), and  *)
(* with TLS and the PEM in the environment the dataplane step finds the   *)
(* CA file written (so the success step finds every needed item).         *)
(***************************************************************************)
NoServiceForGateway ==
    pc = "registerService" => "gateway" \notin cfg
PemCAWritten ==
    pc = "dataplane" /\ {"tls", "pem"} \subseteq cfg => caPath = WrittenCACert

RInv == IInv /\ NoServiceForGateway /\ PemCAWritten

LEMMA InitRInv == Init => RInv
BY InitIInv DEF Init, RInv, NoServiceForGateway, PemCAWritten

LEMMA NextRInv == RInv /\ [Next]_vars => RInv'
<1> SUFFICES ASSUME RInv, [Next]_vars PROVE RInv'
  OBVIOUS
<1>0. IInv'
  BY NextIInv DEF RInv
<1> SUFFICES NoServiceForGateway' /\ PemCAWritten'
  BY <1>0 DEF RInv
<1> USE DEF RInv, NoServiceForGateway, PemCAWritten
<1>1. CASE Run \/ StartWatcher \/ RegisterService \/ RegisterProxy
           \/ CopyECSBinaryToSharedVolume \/ StartSidecar
  BY <1>1 DEF Run, StartWatcher, RegisterService, RegisterProxy, Register,
     CopyECSBinaryToSharedVolume, StartSidecar, Fail
<1>2. CASE WatcherState
  BY <1>2 DEF WatcherState, Fail
<1>3. CASE WriteRPCCACertToSharedVolume
  BY <1>3 DEF WriteRPCCACertToSharedVolume, Fail
<1>4. CASE GenerateAndWriteDataplaneConfig
  BY <1>4 DEF GenerateAndWriteDataplaneConfig, Fail
<1>5. CASE UNCHANGED vars
  BY <1>5 DEF vars
<1>6. QED
  BY <1>1, <1>2, <1>3, <1>4, <1>5 DEF Next, MeshInitStep

\* A step of mesh-init that ends the run with 1 is the contract's Fail.
LEMMA FailRefines ==
    ASSUME pc # "exited", pc' = "exited", exitCode' = 1,
           UNCHANGED <<cfg, catalog, files>>
    PROVE  Contract!Fail
BY DEF Contract!Fail, RunStatus

\* A step that adds needed item i to the catalog or the volume, and goes on
\* running, is the contract's Produce.
LEMMA ProduceRefines ==
    ASSUME NEW i \in Needed(cfg), pc # "exited", pc' # "exited",
           catalog' \cup files' = catalog \cup files \cup {i},
           UNCHANGED cfg
    PROVE  Contract!Produce
BY DEF Contract!Produce, RunStatus

\* A step that changes neither the items nor the run's status is a stutter
\* of the contract.
LEMMA StutterRefines ==
    ASSUME pc # "exited", pc' # "exited",
           UNCHANGED <<cfg, catalog, files>>
    PROVE  UNCHANGED Contract!bootVars
BY DEF Contract!bootVars, RunStatus

\* Every step of mesh-init, and the start of the sidecar, is a step of
\* the contract or leaves its variables unchanged.
LEMMA StepRefines == RInv /\ [Next]_vars => [Contract!Next]_(Contract!bootVars)
<1> SUFFICES ASSUME RInv, [Next]_vars
             PROVE  [Contract!Next]_(Contract!bootVars)
  OBVIOUS
<1>1. CASE Run \/ StartWatcher \/ WatcherState
  <2>1. pc \in {"start", "meta", "state"} /\ UNCHANGED <<cfg, catalog, files>>
    BY <1>1 DEF Run, StartWatcher, WatcherState
  <2>2. CASE pc' = "exited"
    <3>1. exitCode' = 1
      BY <1>1, <2>2 DEF Run, StartWatcher, WatcherState, Fail
    <3>2. QED
      BY <2>1, <2>2, <3>1, FailRefines DEF Contract!Next, Fail
  <2>3. CASE pc' # "exited"
    BY <2>1, <2>3, StutterRefines
  <2>4. QED
    BY <2>2, <2>3
<1>2. CASE RegisterService
  <2>1. pc = "registerService" /\ UNCHANGED <<cfg, files>>
    BY <1>2 DEF RegisterService
  <2>2. "service" \in Needed(cfg)
    BY <2>1 DEF RInv, NoServiceForGateway, Needed
  <2>3. CASE catalog' = catalog \cup {"service"} /\ pc' = "registerProxy"
    BY <2>1, <2>2, <2>3, ProduceRefines DEF Contract!Next
  <2>4. CASE UNCHANGED <<catalog, pc>>
    BY <2>1, <2>4, StutterRefines
  <2>5. QED
    BY <1>2, <2>3, <2>4 DEF RegisterService, Register
<1>3. CASE RegisterProxy
  <2>1. pc = "registerProxy" /\ UNCHANGED <<cfg, files>>
    BY <1>3 DEF RegisterProxy
  <2>2. "proxy" \in Needed(cfg)
    BY DEF Needed
  <2>3. CASE catalog' = catalog \cup {"proxy"} /\ pc' = "copyBinary"
    BY <2>1, <2>2, <2>3, ProduceRefines DEF Contract!Next
  <2>4. CASE UNCHANGED <<catalog, pc>>
    BY <2>1, <2>4, StutterRefines
  <2>5. QED
    BY <1>3, <2>3, <2>4 DEF RegisterProxy, Register
<1>4. CASE CopyECSBinaryToSharedVolume
  <2>1. pc = "copyBinary" /\ UNCHANGED <<cfg, catalog>>
    BY <1>4 DEF CopyECSBinaryToSharedVolume
  <2>2. CASE files' = files \cup {"binary"} /\ pc' = "caCert"
    <3>1. "binary" \in Needed(cfg)
      BY DEF Needed
    <3>2. QED
      BY <2>1, <2>2, <3>1, ProduceRefines DEF Contract!Next
  <2>3. CASE Fail /\ UNCHANGED files
    BY <2>1, <2>3, FailRefines DEF Contract!Next, Fail
  <2>4. QED
    BY <1>4, <2>2, <2>3 DEF CopyECSBinaryToSharedVolume
<1>5. CASE WriteRPCCACertToSharedVolume
  <2>1. pc = "caCert" /\ UNCHANGED <<cfg, catalog>>
    BY <1>5 DEF WriteRPCCACertToSharedVolume
  <2>2. CASE pc' = "dataplane" /\ UNCHANGED files
    BY <2>1, <2>2, StutterRefines
  <2>3. CASE /\ {"tls", "pem"} \subseteq cfg /\ pc' = "dataplane"
             /\ files' = files \cup {"caCert"}
    <3>1. "caCert" \in Needed(cfg)
      BY <2>3 DEF Needed
    <3>2. QED
      BY <2>1, <2>3, <3>1, ProduceRefines DEF Contract!Next
  <2>4. CASE Fail /\ UNCHANGED files
    BY <2>1, <2>4, FailRefines DEF Contract!Next, Fail
  <2>5. QED
    BY <1>5, <2>2, <2>3, <2>4 DEF WriteRPCCACertToSharedVolume
<1>6. CASE GenerateAndWriteDataplaneConfig
  <2>1. pc = "dataplane" /\ UNCHANGED <<cfg, catalog>>
    BY <1>6 DEF GenerateAndWriteDataplaneConfig
  <2>2. CASE files' = files \cup {"dataplane"} /\ pc' = "exited"
             /\ exitCode' = 0
    <3>1. Needed(cfg) \subseteq catalog \cup files \cup {"dataplane"}
      BY <2>1 DEF RInv, IInv, RegisteredBeforeCopy, BinaryBeforeCACert,
         CACertBeforeDataplane, PemCAWritten, Needed
    <3>2. "dataplane" \in Needed(cfg)
      BY DEF Needed
    <3>3. Contract!Succeed
      BY <2>1, <2>2, <3>1, <3>2 DEF Contract!Succeed, RunStatus
    <3>4. QED
      BY <3>3 DEF Contract!Next
  <2>3. CASE Fail /\ UNCHANGED files
    BY <2>1, <2>3, FailRefines DEF Contract!Next, Fail
  <2>4. QED
    BY <1>6, <2>2, <2>3 DEF GenerateAndWriteDataplaneConfig
<1>7. CASE StartSidecar
  BY <1>7 DEF StartSidecar, Contract!bootVars, RunStatus
<1>8. CASE UNCHANGED vars
  BY <1>8 DEF vars, Contract!bootVars, RunStatus
<1>9. QED
  BY <1>1, <1>2, <1>3, <1>4, <1>5, <1>6, <1>7, <1>8 DEF Next, MeshInitStep

\* mesh-init implements the contract of a mesh-init run (BootstrapSpec):
\* what the catalog and the volume hold only grows, by items the config
\* calls for, and Run returns 0 only with all of them in place.
THEOREM Refinement == Spec => BootstrapSpec
<1>1. Init => Contract!Init
  BY DEF Init, Contract!Init, Needed, RunStatus
<1>2. QED
  BY <1>1, InitRInv, NextRInv, StepRefines, PTL
     DEF Spec, BootstrapSpec, Contract!Spec

\* Through the contract: a run of mesh-init never registers or writes an
\* item its config does not call for (no service for a gateway, no CA file
\* unless TLS is on with the PEM in the environment), and a run that
\* returns 0 has produced every item its config calls for.
THEOREM ProducesOnlyNeeded == Spec => []Contract!Delivered
BY Refinement, Contract!BootstrapSafe, PTL DEF BootstrapSpec

=============================================================================
