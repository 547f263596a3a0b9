-------------------------- MODULE MeshTaskACLProofs --------------------------
(***************************************************************************)
(* Theorems about the ACL controller composed with one task's mesh-init,  *)
(* for every cluster, token set and bound.  The controller part rests on  *)
(* ACLControllerProofs: its inductive invariant, and its refinement of     *)
(* ACLTokenStore, whose steps never change an issued token's identities.  *)
(***************************************************************************)
EXTENDS MeshTaskACL, ACLControllerProofs, TLAPS

\* The task's token is an accessor ID already handed out (or none), and it
\* belongs to the task's family alone.
TaskInv ==
    /\ mtoken \in 0..(nextToken - 1)
    /\ TaskTokenOwnedByFamily

SysInv == IInv /\ TaskInv

\* Every step of the composition is, for the controller's variables, a
\* step of ACLController or a stutter.
LEMMA SysNextIsNext == [SysNext]_allVars => [Next]_vars
<1>1. ASSUME StartMeshTask \/ StopMeshTask PROVE Environment
  BY <1>1, MeshTaskAssumption, TasksAssumption
  DEF StartMeshTask, StopMeshTask, Environment
<1>2. QED
  BY <1>1 DEF SysNext, MeshInitStep, OtherTask, Next, Environment, allVars

\* An accessor ID handed out before a step is still handed out after it.
LEMMA AccessorStaysIssued ==
    ASSUME NEW m, NEW a \in Nat, NEW b \in Nat \ {0},
           m \in 0..(a - 1), m # 0 => m \in 1..(b - 1)
    PROVE  m \in 0..(b - 1)
  OBVIOUS

LEMMA SysInitInv == SysInit => SysInv
<1> SUFFICES ASSUME SysInit PROVE SysInv
  OBVIOUS
<1>1. IInv
  BY InitIInv DEF SysInit
<1>2. nextToken \in Nat \ {0} /\ mtoken = NoAccessor
  BY BoundsAssumption DEF SysInit, Init
<1>3. QED
  BY <1>1, <1>2 DEF SysInv, TaskInv, TaskTokenOwnedByFamily, NoAccessor

LEMMA SysNextInv == SysInv /\ [SysNext]_allVars => SysInv'
<1> SUFFICES ASSUME SysInv, [SysNext]_allVars PROVE SysInv'
  OBVIOUS
<1>1. IInv'
  BY SysNextIsNext, NextIInv DEF SysInv
<1>2. /\ 1..(nextToken - 1) \subseteq 1..(nextToken' - 1)
      /\ \A t \in 1..(nextToken - 1) : idents'[t] = idents[t]
  <2>1. [TS!Next]_(TS!storeVars)
    BY SysNextIsNext, StepRefines DEF SysInv
  <2>2. 1..(nextToken - 1) \subseteq DOMAIN idents
    BY BoundsAssumption DEF SysInv, IInv, TypeOK, TokenIds
  <2>3. QED
    BY <2>1, <2>2, TS!IdentsFixed
<1>3. nextToken \in Nat /\ nextToken' \in Nat \ {0}
  BY <1>1, BoundsAssumption DEF SysInv, IInv, TypeOK
<1>4. CASE StartMeshTask
  <2>1. mtoken' = secret[TaskFamily[MeshTask]]
        /\ UNCHANGED <<idents, nextToken, secret>>
    BY <1>4 DEF StartMeshTask, StartTask
  <2>2. TaskFamily[MeshTask] \in Families
    BY MeshTaskAssumption, TasksAssumption
  <2>3. secret[TaskFamily[MeshTask]] \in 0..(nextToken - 1)
    BY <2>2 DEF SysInv, IInv, TypeOK
  <2>4. secret[TaskFamily[MeshTask]] # NoAccessor =>
            idents[secret[TaskFamily[MeshTask]]] = {TaskFamily[MeshTask]}
    BY <2>2 DEF SysInv, IInv, SecretsOwned
  <2>5. QED
    BY <1>1, <2>1, <2>3, <2>4 DEF SysInv, TaskInv, TaskTokenOwnedByFamily
<1>5. CASE ~StartMeshTask
  <2>1. mtoken' = mtoken
    BY <1>5 DEF SysNext, MeshInitStep, StopMeshTask, OtherTask, allVars,
               meshInitVars
  <2>2. mtoken \in 0..(nextToken' - 1)
    <3> DEFINE n == nextToken  n2 == nextToken'
    <3>1. n \in Nat /\ n2 \in Nat \ {0}
      BY <1>3
    <3>2. mtoken \in 0..(n - 1)
      BY DEF SysInv, TaskInv
    <3>3. mtoken # 0 => mtoken \in 1..(n2 - 1)
      BY <3>2, <1>2
    <3>4. QED
      BY <3>1, <3>2, <3>3, AccessorStaysIssued
  <2>3. mtoken # NoAccessor => idents'[mtoken] = idents[mtoken]
    BY <1>2 DEF SysInv, TaskInv, NoAccessor
  <2>4. QED
    BY <1>1, <2>1, <2>2, <2>3 DEF SysInv, TaskInv, TaskTokenOwnedByFamily
<1>6. QED
  BY <1>4, <1>5

\* The token ECS injects into the mesh task, taken from its family's
\* secret when the task starts, is never a token of another family or one
\* with several identities, for as long as the task keeps it, whatever
\* the controller's passes do meanwhile (Upsert publishes only a token it
\* created for the family, and tokens keep their identities).
THEOREM TaskTokenOwned == SysSpec => []TaskTokenOwnedByFamily
<1>1. SysInit => SysInv
  BY SysInitInv
<1>2. SysInv /\ [SysNext]_allVars => SysInv'
  BY SysNextInv
<1>3. SysInv => TaskTokenOwnedByFamily
  BY DEF SysInv, TaskInv
<1>4. QED
  BY <1>1, <1>2, <1>3, PTL DEF SysSpec
=============================================================================
