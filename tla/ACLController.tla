---------------------------- MODULE ACLController ----------------------------
(***************************************************************************)
(* The ACL token controller of consul-ecs (package controller).            *)
(*                                                                         *)
(* One reconcile pass lists the running mesh tasks of the ECS cluster      *)
(* (TaskDefinitionLister.List), lists the Consul ACL tokens that carry     *)
(* exactly one service identity (TaskDefinitionLister.TokenList), upserts  *)
(* a token for every task family found (TaskFamily.Upsert), and deletes    *)
(* the tokens of every family that has tokens but no running task          *)
(* (TaskDefinitionLister.DeleteTokenInfo).  The per-family token is        *)
(* published in an AWS Secrets Manager secret whose accessor_id points at  *)
(* the token.                                                              *)
(*                                                                         *)
(* Data is abstracted to what the properties distinguish: a token is its   *)
(* accessor ID (a number, never reused, as Consul's UUIDs are) and its set *)
(* of service identities; a secret is the accessor_id it holds (NoAccessor *)
(* for "{}"); a task is a model value with a family and a mesh tag.        *)
(* Every call to ECS, Consul or Secrets Manager may fail; a failure is a   *)
(* Fault, limited to MaxFaults per behaviour.  ECS starts and stops tasks  *)
(* concurrently with the controller, at most MaxTaskChanges times.        *)
(***************************************************************************)
EXTENDS Naturals, FiniteSets

CONSTANTS
    Families,        \* task definition families (= service identity names)
    Tasks,           \* ECS tasks that may run in the cluster
    TaskFamily,      \* TaskFamily[t]: family parsed from t's task definition ARN
    MeshTasks,       \* tasks tagged consul.hashicorp.com/mesh = "true"
    InitTokens,      \* number of tokens that exist in Consul when the controller starts
    InitIdents,      \* InitIdents[i]: service identities of pre-existing token i
    MaxTokens,       \* bound on the accessor IDs Consul hands out
    MaxFaults,       \* bound on failed calls to AWS or Consul
    MaxTaskChanges   \* bound on tasks started or stopped by ECS

ASSUME TasksAssumption ==
    /\ TaskFamily \in [Tasks -> Families]
    /\ MeshTasks \subseteq Tasks

ASSUME BoundsAssumption ==
    /\ InitTokens \in Nat
    /\ MaxTokens \in Nat
    /\ InitTokens <= MaxTokens
    /\ MaxFaults \in Nat
    /\ MaxTaskChanges \in Nat

ASSUME InitIdentsAssumption ==
    InitIdents \in [1..InitTokens -> SUBSET Families]

\* Accessor IDs; 0 stands for the empty accessor_id of the secret "{}".
TokenIds == 1..MaxTokens
NoAccessor == 0

VARIABLES
    running,      \* ECS: tasks currently running in the cluster
    live,         \* Consul: accessor IDs of the tokens that exist
    idents,       \* Consul: service identities of every token ever created
    nextToken,    \* Consul: the accessor ID the next TokenCreate returns
    secret,       \* Secrets Manager: accessor_id of each family's secret
    pc,           \* phase of the reconcile pass; "start" before the first
    want,         \* families returned by List in this (or the last) pass
    have,         \* tokens per family returned by TokenList in this pass
    pending,      \* families the current loop has still to process
    errors,       \* errors aggregated by the current (or the last) pass
    faults,       \* failed calls so far
    taskChanges   \* task starts and stops so far

vars == <<running, live, idents, nextToken, secret, pc, want, have, pending,
          errors, faults, taskChanges>>

-----------------------------------------------------------------------------
(* Helpers translated from the package.                                    *)

\* isMeshTask and parseFamilyNameFromTaskDefinitionARN over the running
\* tasks, deduplicated through the taskFamilies map.
MeshFamilies(ts) == {TaskFamily[t] : t \in ts \cap MeshTasks}

\* TokenList keeps a token only when it has exactly one service identity,
\* and groups it under that identity's service name.
OwnedTokens(f) == {t \in live : idents[t] = {f}}

\* A call to AWS or Consul fails: the pass records the error.
Fault ==
    /\ faults < MaxFaults
    /\ faults' = faults + 1
    /\ errors' = errors + 1

NoFault == UNCHANGED <<faults, errors>>

-----------------------------------------------------------------------------
(* Initial state: what an earlier controller run that ended without      *)
(* errors leaves behind.  The pre-existing tokens are InitIdents; a family *)
(* with a token of its own has exactly one, and its secret names it; the   *)
(* secret of any other family is "{}".                                     *)

Init ==
    /\ running \in SUBSET Tasks
    /\ live = 1..InitTokens
    /\ idents = [t \in TokenIds |-> IF t <= InitTokens THEN InitIdents[t] ELSE {}]
    /\ nextToken = InitTokens + 1
    /\ secret \in {s \in [Families -> {NoAccessor} \cup 1..InitTokens] :
                     \A f \in Families :
                        {t \in live : idents[t] = {f}} =
                            IF s[f] = NoAccessor THEN {} ELSE {s[f]}}
    /\ pc = "start"
    /\ want = {}
    /\ have = [f \in Families |-> {}]
    /\ pending = {}
    /\ errors = 0
    /\ faults = 0
    /\ taskChanges = 0

-----------------------------------------------------------------------------
(* Reconcile pass.                                                         *)

\* TaskDefinitionLister.List: page through ListTasks / DescribeTasks and
\* collect the families of the mesh tasks.  A failed ECS call, or an ARN
\* that does not parse, ends the pass.
List ==
    /\ pc \in {"start", "idle"}
    /\ \/ /\ want' = MeshFamilies(running)
          /\ pc' = "tokens"
          /\ errors' = 0
          /\ UNCHANGED faults
       \/ /\ Fault
          /\ UNCHANGED <<want, pc>>
    /\ UNCHANGED <<running, live, idents, nextToken, secret, have, pending,
                   taskChanges>>

\* Mutant: TokenList groups a token under every service identity it has.
TokenListAnyIdentity ==
    /\ pc = "tokens"
    /\ \/ /\ have' = [f \in Families |-> {t \in live : f \in idents[t]}]
          /\ pending' = want
          /\ pc' = "upsert"
          /\ NoFault
       \/ /\ Fault
          /\ pc' = "idle"
          /\ UNCHANGED <<have, pending>>
    /\ UNCHANGED <<running, live, idents, nextToken, secret, want, taskChanges>>

\* TaskDefinitionLister.TokenList: TokenList then TokenRead of every token;
\* either call failing ends the pass.
TokenList ==
    /\ pc = "tokens"
    /\ \/ /\ have' = [f \in Families |-> OwnedTokens(f)]
          /\ pending' = want
          /\ pc' = "upsert"
          /\ NoFault
       \/ /\ Fault
          /\ pc' = "idle"
          /\ UNCHANGED <<have, pending>>
    /\ UNCHANGED <<running, live, idents, nextToken, secret, want, taskChanges>>

\* Mutant: the secret is written with the accessor ID before TokenCreate
\* returns, so a failed TokenCreate leaves it naming a token never issued.
UpdateServiceTokenSecretFirst(f) ==
    \/ /\ Fault
       /\ secret' = [secret EXCEPT ![f] = nextToken]
       /\ UNCHANGED <<live, idents, nextToken>>
    \/ /\ nextToken <= MaxTokens
       /\ live' = live \cup {nextToken}
       /\ idents' = [idents EXCEPT ![nextToken] = {f}]
       /\ nextToken' = nextToken + 1
       /\ secret' = [secret EXCEPT ![f] = nextToken]
       /\ NoFault

\* updateServiceToken: TokenCreate with one service identity for f, then
\* UpdateSecret with its accessor ID.  TokenCreate may fail (nothing
\* changes); UpdateSecret may fail after the token was created.
UpdateServiceToken(f) ==
    \/ /\ Fault
       /\ UNCHANGED <<live, idents, nextToken, secret>>
    \/ /\ nextToken <= MaxTokens
       /\ live' = live \cup {nextToken}
       /\ idents' = [idents EXCEPT ![nextToken] = {f}]
       /\ nextToken' = nextToken + 1
       /\ \/ /\ secret' = [secret EXCEPT ![f] = nextToken]
             /\ NoFault
          \/ /\ Fault
             /\ UNCHANGED secret

\* Mutant: Upsert trusts a non-empty accessor_id without TokenRead.
UpsertTrustingAccessor(f) ==
    /\ pc = "upsert"
    /\ f \in pending
    /\ pending' = pending \ {f}
    /\ \/ /\ Fault
          /\ UNCHANGED <<live, idents, nextToken, secret>>
       \/ /\ secret[f] # NoAccessor
          /\ NoFault
          /\ UNCHANGED <<live, idents, nextToken, secret>>
       \/ /\ secret[f] = NoAccessor
          /\ UpdateServiceToken(f)
    /\ UNCHANGED <<running, pc, want, have, taskChanges>>

\* Mutant: isACLNotFoundError does not recognise Consul's reply, so a
\* secret naming a deleted token is an error on every pass.
UpsertNotFoundIsError(f) ==
    /\ pc = "upsert"
    /\ f \in pending
    /\ pending' = pending \ {f}
    /\ \/ /\ Fault
          /\ UNCHANGED <<live, idents, nextToken, secret>>
       \/ /\ secret[f] \in live
          /\ NoFault
          /\ UNCHANGED <<live, idents, nextToken, secret>>
       \/ /\ secret[f] \notin live
          /\ secret[f] # NoAccessor
          /\ errors' = errors + 1
          /\ UNCHANGED <<faults, live, idents, nextToken, secret>>
       \/ /\ secret[f] = NoAccessor
          /\ UpdateServiceToken(f)
    /\ UNCHANGED <<running, pc, want, have, taskChanges>>

\* TaskFamily.Upsert: GetSecretValue and unmarshal the secret; if it has an
\* accessor_id, TokenRead it.  A token that is found means there is
\* nothing to do; "ACL not found" (or an empty accessor_id) leads to
\* updateServiceToken; any other failure is an error for this family.
Upsert(f) ==
    /\ pc = "upsert"
    /\ f \in pending
    /\ pending' = pending \ {f}
    /\ \/ /\ Fault
          /\ UNCHANGED <<live, idents, nextToken, secret>>
       \/ /\ secret[f] \in live
          /\ NoFault
          /\ UNCHANGED <<live, idents, nextToken, secret>>
       \/ /\ secret[f] \notin live
          /\ UpdateServiceToken(f)
    /\ UNCHANGED <<running, pc, want, have, taskChanges>>

\* The upsert loop is done: every family with tokens but no running mesh
\* task is an orphan to delete.
EndUpserts ==
    /\ pc = "upsert"
    /\ pending = {}
    /\ pc' = "delete"
    /\ pending' = {f \in Families : have[f] # {}} \ want
    /\ UNCHANGED <<running, live, idents, nextToken, secret, want, have,
                   errors, faults, taskChanges>>

\* TaskDefinitionLister.DeleteTokenInfo: TokenDelete every listed token of
\* f, stopping at the first failure; then UpdateSecret to "{}", which may
\* fail too.
DeleteTokenInfo(f) ==
    /\ pc = "delete"
    /\ f \in pending
    /\ pending' = pending \ {f}
    /\ \/ /\ live' = live \ have[f]
          /\ \/ /\ secret' = [secret EXCEPT ![f] = NoAccessor]
                /\ NoFault
             \/ /\ Fault
                /\ UNCHANGED secret
       \/ \E deleted \in SUBSET have[f] :
             /\ deleted # have[f]
             /\ live' = live \ deleted
             /\ Fault
             /\ UNCHANGED secret
    /\ UNCHANGED <<running, idents, nextToken, pc, want, have, taskChanges>>

\* The delete loop is done; the controller waits for its next tick.
EndDeletes ==
    /\ pc = "delete"
    /\ pending = {}
    /\ pc' = "idle"
    /\ UNCHANGED <<running, live, idents, nextToken, secret, want, have,
                   pending, errors, faults, taskChanges>>

-----------------------------------------------------------------------------
(* Environment: ECS starts and stops tasks at any time.                    *)

StartTask(t) ==
    /\ taskChanges < MaxTaskChanges
    /\ t \notin running
    /\ running' = running \cup {t}
    /\ taskChanges' = taskChanges + 1
    /\ UNCHANGED <<live, idents, nextToken, secret, pc, want, have, pending,
                   errors, faults>>

StopTask(t) ==
    /\ taskChanges < MaxTaskChanges
    /\ t \in running
    /\ running' = running \ {t}
    /\ taskChanges' = taskChanges + 1
    /\ UNCHANGED <<live, idents, nextToken, secret, pc, want, have, pending,
                   errors, faults>>

-----------------------------------------------------------------------------

Controller ==
    \/ List
    \/ TokenList
    \/ \E f \in Families : Upsert(f)
    \/ EndUpserts
    \/ \E f \in Families : DeleteTokenInfo(f)
    \/ EndDeletes

Environment == \E t \in Tasks : StartTask(t) \/ StopTask(t)

Next == Controller \/ Environment

\* The controller's loop reconciles on every polling tick for as long as
\* it runs, so each of its steps that stays enabled is eventually taken.
Spec == Init /\ [][Next]_vars /\ WF_vars(Controller)

-----------------------------------------------------------------------------
(* Properties.                                                             *)

TypeOK ==
    /\ running \subseteq Tasks
    /\ live \subseteq TokenIds
    /\ idents \in [TokenIds -> SUBSET Families]
    /\ nextToken \in 1..(MaxTokens + 1)
    /\ live \subseteq 1..(nextToken - 1)
    \* a secret only ever names an accessor ID Consul has handed out
    /\ secret \in [Families -> 0..(nextToken - 1)]
    /\ pc \in {"start", "idle", "tokens", "upsert", "delete"}
    /\ want \subseteq Families
    /\ have \in [Families -> SUBSET TokenIds]
    /\ pending \subseteq Families
    /\ faults \in 0..MaxFaults
    \* a pass aggregates at most as many errors as calls failed
    /\ errors \in 0..faults
    /\ taskChanges \in 0..MaxTaskChanges

\* The secret of f publishes a live token that carries f's identity alone.
Serves(f) == secret[f] \in live /\ idents[secret[f]] = {f}

\* After a pass in which no call failed, the external state matches the
\* pass's snapshot: every family List returned has a secret naming a live
\* token of its own, no live controller-owned token belongs to a family
\* List did not return, and every orphaned family's secret is "{}"
\* (Upsert's liveness check and DeleteTokenInfo's order of calls).
CleanPassConverges ==
    (pc = "idle" /\ errors = 0) =>
        /\ \A f \in want : Serves(f)
        /\ \A f \in Families \ want : OwnedTokens(f) = {}
        /\ \A f \in Families : (have[f] # {} /\ f \notin want) =>
                                   secret[f] = NoAccessor

\* The controller deletes only tokens TokenList counts as its own (exactly
\* one service identity) and only those of a family that List did not
\* return in the same pass: tokens with zero or several identities, and
\* tokens of running families, are never touched.
DeletesOnlyOrphanedOwnedTokens ==
    [][\A t \in live \ live' :
          \E f \in Families \ want : idents[t] = {f}]_vars

\* Families with a running mesh task.
RunningFamilies == MeshFamilies(running)

\* Once ECS stops changing tasks and calls stop failing, the controller
\* converges: every running family is served by its secret, and no
\* controller-owned token of a family without running tasks is left.
Converges ==
    <>[](/\ \A f \in RunningFamilies : Serves(f)
         /\ \A f \in Families \ RunningFamilies : OwnedTokens(f) = {})


\* The controller implements ACLTokenStore: the accessor IDs it has handed
\* out are those below nextToken, and Consul's tokens and the secrets are
\* the same state in both specifications.
TS == INSTANCE ACLTokenStore WITH issued <- 1..(nextToken - 1)

\* Every change the controller makes to Consul and Secrets Manager is one
\* the token store allows: TokenCreate hands out a fresh accessor ID with
\* a single identity and UpdateSecret publishes only that token, and
\* TokenDelete removes only tokens owned by the family being cleaned up,
\* before its secret is emptied.
TokenStoreSpec == TS!Spec

\* Spec section 3 and 4.1: at most one live controller-owned token exists
\* per family; after a failed UpdateSecret the next pass is said to treat
\* the orphaned live token as the family's and issue no second one.
AtMostOneTokenPerFamily ==
    \A f \in Families : Cardinality(OwnedTokens(f)) <= 1

\* Spec section 3 and 4.1 step 4: a secret's accessor_id, if not empty,
\* names a live token, and a secret whose overwrite failed after its tokens
\* were deleted is cleaned up by the next pass; so after a pass in which
\* no call failed no secret names a deleted token.
CleanPassNoDanglingSecret ==
    (pc = "idle" /\ errors = 0) =>
        \A f \in Families : secret[f] # NoAccessor => secret[f] \in live

=============================================================================
