------------------------- MODULE ACLControllerProofs -------------------------
(***************************************************************************)
(* Theorems about ACLController, checked by TLAPS for every value of the   *)
(* constants that satisfies its assumptions.                           *)
(***************************************************************************)
EXTENDS ACLController, TLAPS

(***************************************************************************)
(* Type correctness.  TypeOK is inductive as it stands: it also says that  *)
(* live tokens and secrets only name accessor IDs below nextToken, which   *)
(* is what lets a created token's ID be fresh.                             *)
(***************************************************************************)

\* A call that fails, or one that does not, keeps the error bookkeeping
\* well typed: failures are bounded by MaxFaults, and a pass aggregates
\* no more errors than there were failures.
LEMMA FaultTypeOK ==
    ASSUME faults \in 0..MaxFaults, errors \in 0..faults, Fault \/ NoFault
    PROVE  faults' \in 0..MaxFaults /\ errors' \in 0..faults'
BY BoundsAssumption DEF Fault, NoFault

LEMMA InitTypeOK == Init => TypeOK
<1> SUFFICES ASSUME Init PROVE TypeOK
  OBVIOUS
<1>1. idents \in [TokenIds -> SUBSET Families]
  BY InitIdentsAssumption, BoundsAssumption DEF Init, TokenIds
<1>2. secret \in [Families -> {NoAccessor} \cup 1..InitTokens]
  BY DEF Init
<1>3. secret \in [Families -> 0..(nextToken - 1)]
  BY <1>2, BoundsAssumption DEF Init, NoAccessor
<1>4. /\ live \subseteq TokenIds
      /\ nextToken \in 1..(MaxTokens + 1)
      /\ live \subseteq 1..(nextToken - 1)
  BY BoundsAssumption DEF Init, TokenIds
<1>5. /\ faults \in 0..MaxFaults
      /\ errors \in 0..faults
      /\ taskChanges \in 0..MaxTaskChanges
  BY BoundsAssumption DEF Init
<1>6. have \in [Families -> SUBSET TokenIds]
  BY DEF Init
<1>7. QED
  BY <1>1, <1>3, <1>4, <1>5, <1>6 DEF Init, TypeOK

\* Every step of the controller's reconcile pass, and every task start or
\* stop by ECS, keeps the state well typed.
LEMMA NextTypeOK == TypeOK /\ [Next]_vars => TypeOK'
<1> SUFFICES ASSUME TypeOK, [Next]_vars PROVE TypeOK'
  OBVIOUS
<1>1. CASE List
  <2>1. want' \subseteq Families
    BY <1>1, TasksAssumption DEF List, MeshFamilies, TypeOK
  <2>2. faults' \in 0..MaxFaults /\ errors' \in 0..faults'
    BY <1>1, BoundsAssumption DEF List, Fault, TypeOK
  <2>3. pc' \in {"start", "idle", "tokens", "upsert", "delete"}
    BY <1>1 DEF List, TypeOK
  <2>4. UNCHANGED <<running, live, idents, nextToken, secret, have,
                    pending, taskChanges>>
    BY <1>1 DEF List
  <2>5. QED
    BY <2>1, <2>2, <2>3, <2>4 DEF TypeOK
<1>2. CASE TokenList
  <2>1. have' \in [Families -> SUBSET TokenIds]
    BY <1>2 DEF TokenList, OwnedTokens, TypeOK
  <2>2. pending' \subseteq Families /\ pc' \in {"idle", "upsert"}
    BY <1>2 DEF TokenList, TypeOK
  <2>3. faults' \in 0..MaxFaults /\ errors' \in 0..faults'
    BY <1>2, FaultTypeOK DEF TokenList, TypeOK
  <2>4. UNCHANGED <<running, live, idents, nextToken, secret, want,
                    taskChanges>>
    BY <1>2 DEF TokenList
  <2>5. QED
    BY <2>1, <2>2, <2>3, <2>4 DEF TypeOK
<1>3. ASSUME NEW f \in Families, Upsert(f) PROVE TypeOK'
  <2>1. pending' \subseteq Families
    BY <1>3 DEF Upsert, TypeOK
  <2>2. UNCHANGED <<running, pc, want, have, taskChanges>>
    BY <1>3 DEF Upsert
  <2>3. Fault \/ NoFault
    BY <1>3 DEF Upsert, UpdateServiceToken
  <2>4. faults' \in 0..MaxFaults /\ errors' \in 0..faults'
    BY <2>3, FaultTypeOK DEF TypeOK
  <2>5. CASE /\ nextToken <= MaxTokens
             /\ live' = live \cup {nextToken}
             /\ idents' = [idents EXCEPT ![nextToken] = {f}]
             /\ nextToken' = nextToken + 1
             /\ secret' \in {secret, [secret EXCEPT ![f] = nextToken]}
    <3>1. /\ live' \subseteq TokenIds
          /\ nextToken' \in 1..(MaxTokens + 1)
          /\ live' \subseteq 1..(nextToken' - 1)
      BY <2>5, BoundsAssumption DEF TypeOK, TokenIds
    <3>2. idents' \in [TokenIds -> SUBSET Families]
      BY <2>5 DEF TypeOK
    <3>3. secret' \in [Families -> 0..(nextToken' - 1)]
      BY <2>5, BoundsAssumption DEF TypeOK
    <3>4. QED
      BY <2>1, <2>2, <2>4, <3>1, <3>2, <3>3 DEF TypeOK
  <2>6. CASE UNCHANGED <<live, idents, nextToken, secret>>
    BY <2>1, <2>2, <2>4, <2>6 DEF TypeOK
  <2>7. QED
    BY <1>3, <2>5, <2>6 DEF Upsert, UpdateServiceToken
<1>4. CASE EndUpserts
  BY <1>4 DEF EndUpserts, TypeOK
<1>5. ASSUME NEW f \in Families, DeleteTokenInfo(f) PROVE TypeOK'
  <2>1. live' \subseteq live
    BY <1>5 DEF DeleteTokenInfo
  <2>2. secret' \in [Families -> 0..(nextToken - 1)]
    BY <1>5 DEF DeleteTokenInfo, TypeOK, NoAccessor
  <2>3. faults' \in 0..MaxFaults /\ errors' \in 0..faults'
    <3>1. Fault \/ NoFault
      BY <1>5 DEF DeleteTokenInfo
    <3>2. QED
      BY <3>1, FaultTypeOK DEF TypeOK
  <2>4. pending' \subseteq Families
    BY <1>5 DEF DeleteTokenInfo, TypeOK
  <2>5. UNCHANGED <<running, idents, nextToken, pc, want, have, taskChanges>>
    BY <1>5 DEF DeleteTokenInfo
  <2>6. QED
    BY <2>1, <2>2, <2>3, <2>4, <2>5 DEF TypeOK
<1>6. CASE EndDeletes
  BY <1>6 DEF EndDeletes, TypeOK
<1>7. ASSUME NEW t \in Tasks, StartTask(t) \/ StopTask(t) PROVE TypeOK'
  <2>1. running' \subseteq Tasks /\ taskChanges' \in 0..MaxTaskChanges
    BY <1>7, BoundsAssumption DEF StartTask, StopTask, TypeOK
  <2>2. UNCHANGED <<live, idents, nextToken, secret, pc, want, have, pending,
                    errors, faults>>
    BY <1>7 DEF StartTask, StopTask
  <2>3. QED
    BY <2>1, <2>2 DEF TypeOK
<1>8. CASE UNCHANGED vars
  BY <1>8 DEF vars, TypeOK
<1>9. QED
  BY <1>1, <1>2, <1>3, <1>4, <1>5, <1>6, <1>7, <1>8
     DEF Next, Controller, Environment

\* The controller's state is well typed in every reachable state.
THEOREM TypeCorrect == Spec => []TypeOK
<1>1. Init => TypeOK
  BY InitTypeOK
<1>2. TypeOK /\ [Next]_vars => TypeOK'
  BY NextTypeOK
<1>3. QED
  BY <1>1, <1>2, PTL DEF Spec

(***************************************************************************)
(* The inductive invariant behind the controller's safety properties.     *)
(* CleanPassConverges speaks only of the end of a pass; what makes it true *)
(* is what each phase of a pass without errors has achieved so far.      *)
(***************************************************************************)

\* TokenList's grouping stays true while the pass uses it: a token grouped
\* under f has f as its only identity, and was issued before the listing,
\* so a later TokenCreate (which sets the identities of nextToken) cannot
\* change it.
HaveOwned ==
    \A f \in Families : \A t \in have[f] : t < nextToken /\ idents[t] = {f}

\* A secret only ever names a token created for its own family: Upsert's
\* TokenRead checks that the token exists, not whose it is.
SecretsOwned ==
    \A f \in Families : secret[f] # NoAccessor => idents[secret[f]] = {f}

\* The upsert loop works on families List returned; the delete loop on
\* families it did not.
PendingPhase ==
    /\ pc = "upsert" => pending \subseteq want
    /\ pc = "delete" => pending \cap want = {}

\* Without an error so far, the upsert loop has served every family it has
\* processed, and has neither created nor deleted a token of an unlisted
\* family.
CleanUpsert ==
    (pc = "upsert" /\ errors = 0) =>
        /\ \A f \in want \ pending : secret[f] \in live
        /\ \A f \in Families \ want : OwnedTokens(f) = have[f]

\* Without an error so far, the delete loop has left every listed family
\* served, and has deleted all the tokens and emptied the secret of every
\* orphan it has processed.
CleanDelete ==
    (pc = "delete" /\ errors = 0) =>
        /\ \A f \in want : secret[f] \in live
        /\ \A f \in Families \ want :
              OwnedTokens(f) = IF f \in pending THEN have[f] ELSE {}
        /\ \A f \in Families \ pending :
              (have[f] # {} /\ f \notin want) => secret[f] = NoAccessor

IInv ==
    /\ TypeOK
    /\ HaveOwned
    /\ SecretsOwned
    /\ PendingPhase
    /\ CleanUpsert
    /\ CleanDelete
    /\ CleanPassConverges

\* The state a clean earlier run leaves behind satisfies the invariant.
LEMMA InitIInv == Init => IInv
<1> SUFFICES ASSUME Init PROVE IInv
  OBVIOUS
<1>1. SecretsOwned
  <2> SUFFICES ASSUME NEW f \in Families, secret[f] # NoAccessor
               PROVE  idents[secret[f]] = {f}
    BY DEF SecretsOwned
  <2>1. secret[f] \in {t \in live : idents[t] = {f}}
    BY DEF Init, NoAccessor
  <2>2. QED
    BY <2>1
<1>2. pc = "start" /\ have = [f \in Families |-> {}]
  BY DEF Init
<1>3. QED
  BY <1>1, <1>2, InitTypeOK
  DEF IInv, HaveOwned, PendingPhase, CleanUpsert, CleanDelete,
      CleanPassConverges

\* A step that leaves the tokens, the secrets and the grouping alone keeps
\* the two ownership conjuncts.
LEMMA OwnershipUnchanged ==
    ASSUME HaveOwned, SecretsOwned,
           UNCHANGED <<idents, nextToken, secret, have>>
    PROVE  HaveOwned' /\ SecretsOwned'
BY DEF HaveOwned, SecretsOwned

\* A failed call leaves a non-zero error count, which makes every
\* conjunct about a clean pass vacuous.
LEMMA FaultLeavesErrors ==
    ASSUME errors \in Nat, Fault
    PROVE  errors' # 0
BY DEF Fault

\* List only starts a pass (or fails at its start).
LEMMA ListIInv == IInv /\ List => IInv'
<1> SUFFICES ASSUME IInv, List PROVE IInv'
  OBVIOUS
<1>1. TypeOK'
  BY NextTypeOK DEF IInv, Next, Controller
<1>2. HaveOwned' /\ SecretsOwned'
  BY OwnershipUnchanged DEF IInv, List
<1>3. pc' \in {"start", "idle", "tokens"}
  BY DEF IInv, TypeOK, List
<1>4. pc' = "tokens" \/ errors' # 0
  BY FaultLeavesErrors DEF IInv, TypeOK, List
<1>5. QED
  BY <1>1, <1>2, <1>3, <1>4
  DEF IInv, PendingPhase, CleanUpsert, CleanDelete, CleanPassConverges

\* TokenList starts the upsert loop with a grouping that is exactly the
\* owned tokens of every family.
LEMMA TokenListIInv == IInv /\ TokenList => IInv'
<1> SUFFICES ASSUME IInv, TokenList PROVE IInv'
  OBVIOUS
<1>1. TypeOK'
  BY NextTypeOK DEF IInv, Next, Controller
<1>2. SecretsOwned'
  BY DEF IInv, SecretsOwned, TokenList
<1>3. CASE /\ have' = [f \in Families |-> OwnedTokens(f)]
           /\ pending' = want
           /\ pc' = "upsert"
  <2>1. HaveOwned'
    BY <1>3 DEF IInv, TypeOK, HaveOwned, TokenList, OwnedTokens
  <2>2. \A f \in Families \ want : OwnedTokens(f)' = have'[f]
    BY <1>3 DEF TokenList, OwnedTokens
  <2>3. want' = want
    BY DEF TokenList
  <2>4. QED
    BY <1>1, <1>2, <1>3, <2>1, <2>2, <2>3
    DEF IInv, PendingPhase, CleanUpsert, CleanDelete, CleanPassConverges
<1>4. CASE /\ Fault
           /\ pc' = "idle"
           /\ UNCHANGED <<have, pending>>
  <2>1. errors' # 0
    BY <1>4, FaultLeavesErrors DEF IInv, TypeOK
  <2>2. HaveOwned'
    BY <1>4 DEF IInv, HaveOwned, TokenList
  <2>3. QED
    BY <1>1, <1>2, <1>4, <2>1, <2>2
    DEF IInv, PendingPhase, CleanUpsert, CleanDelete, CleanPassConverges
<1>5. QED
  BY <1>3, <1>4 DEF TokenList, NoFault

\* ECS starting or stopping a task changes nothing the controller's
\* invariant speaks of.
LEMMA EnvironmentIInv == IInv /\ Environment => IInv'
<1> SUFFICES ASSUME IInv, Environment PROVE IInv'
  OBVIOUS
<1>1. TypeOK'
  BY NextTypeOK DEF IInv, Next
<1>2. UNCHANGED <<live, idents, nextToken, secret, pc, want, have, pending,
                  errors>>
  BY DEF Environment, StartTask, StopTask
<1>3. QED
  BY <1>1, <1>2
  DEF IInv, HaveOwned, SecretsOwned, PendingPhase, CleanUpsert, CleanDelete,
      CleanPassConverges, Serves, OwnedTokens

\* Upsert serves the family it processes and touches no token of a family
\* List did not return: a token it creates is fresh and has the processed
\* (listed) family as its only identity.
LEMMA UpsertIInv ==
    ASSUME IInv, NEW f \in Families, Upsert(f)
    PROVE  IInv'
<1>1. TypeOK'
  BY NextTypeOK DEF IInv, Next, Controller
<1>2. /\ UNCHANGED <<pc, want, have>>
      /\ pc = "upsert"
      /\ f \in pending
      /\ pending' = pending \ {f}
  BY DEF Upsert
<1>3. f \in want
  BY <1>2 DEF IInv, PendingPhase
<1>4. PendingPhase'
  BY <1>2 DEF IInv, PendingPhase
<1>5. CleanDelete' /\ CleanPassConverges'
  BY <1>2 DEF CleanDelete, CleanPassConverges
<1>6. CASE Fault /\ UNCHANGED <<live, idents, nextToken, secret>>
  <2>1. HaveOwned' /\ SecretsOwned'
    BY <1>2, <1>6, OwnershipUnchanged DEF IInv
  <2>2. errors' # 0
    BY <1>6, FaultLeavesErrors DEF IInv, TypeOK
  <2>3. QED
    BY <1>1, <1>4, <1>5, <2>1, <2>2 DEF IInv, CleanUpsert
<1>7. CASE secret[f] \in live /\ NoFault
           /\ UNCHANGED <<live, idents, nextToken, secret>>
  <2>1. HaveOwned' /\ SecretsOwned'
    BY <1>2, <1>7, OwnershipUnchanged DEF IInv
  <2>2. CleanUpsert'
    BY <1>2, <1>7 DEF IInv, CleanUpsert, NoFault, OwnedTokens
  <2>3. QED
    BY <1>1, <1>4, <1>5, <2>1, <2>2 DEF IInv
<1>8. CASE /\ nextToken <= MaxTokens
           /\ live' = live \cup {nextToken}
           /\ idents' = [idents EXCEPT ![nextToken] = {f}]
           /\ nextToken' = nextToken + 1
           /\ \/ secret' = [secret EXCEPT ![f] = nextToken] /\ NoFault
              \/ Fault /\ UNCHANGED secret
  <2> DEFINE n == nextToken
  <2>1. /\ n \in TokenIds
        /\ \A t \in live : t < n
        /\ \A g \in Families : secret[g] < n
        /\ n \in Nat
    BY <1>8, BoundsAssumption DEF IInv, TypeOK, TokenIds
  <2>0. /\ secret \in [Families -> 0..(n - 1)]
        /\ live \subseteq 1..(n - 1)
        /\ want \subseteq Families
    BY DEF IInv, TypeOK
  <2>2. /\ \A t \in TokenIds : t # n => idents'[t] = idents[t]
        /\ idents'[n] = {f}
    BY <1>8, <2>1 DEF IInv, TypeOK
  <2>3. HaveOwned'
    BY <1>2, <1>8, <2>1, <2>2 DEF IInv, TypeOK, HaveOwned
  <2>4. SecretsOwned'
    <3> SUFFICES ASSUME NEW g \in Families, secret'[g] # NoAccessor
                 PROVE  idents'[secret'[g]] = {g}
      BY DEF SecretsOwned
    <3>1. CASE secret' = [secret EXCEPT ![f] = n] /\ g = f
      BY <3>1, <2>2 DEF IInv, TypeOK
    <3>2. CASE secret'[g] = secret[g]
      <4>1. secret[g] \in TokenIds /\ secret[g] # n
        BY <1>8, <3>2, <2>0, <2>1, BoundsAssumption DEF TokenIds, NoAccessor
      <4>2. QED
        BY <3>2, <4>1, <2>2 DEF IInv, SecretsOwned
    <3>3. QED
      BY <1>8, <3>1, <3>2 DEF IInv, TypeOK
  <2>5. ASSUME NEW h \in Families \ want
        PROVE  OwnedTokens(h)' = OwnedTokens(h)
    <3>1. {f} # {h}
      BY <1>3
    <3>2. QED
      BY <1>8, <2>1, <2>2, <3>1 DEF IInv, TypeOK, OwnedTokens
  <2>6. CleanUpsert'
    <3> SUFFICES ASSUME errors' = 0
                 PROVE  /\ \A g \in want \ pending' : secret'[g] \in live'
                        /\ \A h \in Families \ want : OwnedTokens(h)' = have[h]
      BY <1>2 DEF CleanUpsert
    <3>1. secret' = [secret EXCEPT ![f] = n] /\ errors = 0
      BY <1>8, FaultLeavesErrors DEF IInv, TypeOK, NoFault
    <3>2. ASSUME NEW g \in want \ pending' PROVE secret'[g] \in live'
      <4>1. CASE g = f
        BY <1>8, <2>0, <3>1, <4>1
      <4>2. CASE g # f
        <5>1. g \in want \ pending /\ g \in Families
          BY <1>2, <2>0, <4>2
        <5>2. secret[g] \in live
          BY <1>2, <3>1, <5>1 DEF IInv, CleanUpsert
        <5>3. QED
          BY <1>8, <3>1, <4>2, <5>1, <5>2
      <4>3. QED
        BY <4>1, <4>2
    <3>3. QED
      BY <1>2, <2>5, <3>1, <3>2 DEF IInv, CleanUpsert
  <2>7. QED
    BY <1>1, <1>4, <1>5, <2>3, <2>4, <2>6 DEF IInv
<1>9. QED
  BY <1>6, <1>7, <1>8 DEF Upsert, UpdateServiceToken

\* The end of the upsert loop: every listed family is served, and the
\* orphans to delete are the unlisted families with tokens.
LEMMA EndUpsertsIInv == IInv /\ EndUpserts => IInv'
<1> SUFFICES ASSUME IInv, EndUpserts PROVE IInv'
  OBVIOUS
<1>1. TypeOK'
  BY NextTypeOK DEF IInv, Next, Controller
<1>2. /\ UNCHANGED <<live, idents, nextToken, secret, want, have, errors>>
      /\ pc = "upsert" /\ pending = {}
      /\ pc' = "delete"
      /\ pending' = {f \in Families : have[f] # {}} \ want
  BY DEF EndUpserts
<1>3. HaveOwned' /\ SecretsOwned'
  BY <1>2, OwnershipUnchanged DEF IInv
<1>4. PendingPhase' /\ CleanUpsert' /\ CleanPassConverges'
  BY <1>2 DEF PendingPhase, CleanUpsert, CleanPassConverges
<1>5. CleanDelete'
  <2> SUFFICES ASSUME errors = 0
               PROVE  /\ \A f \in want : secret[f] \in live
                      /\ \A f \in Families \ want :
                            OwnedTokens(f) = IF f \in pending' THEN have[f] ELSE {}
                      /\ \A f \in Families \ pending' :
                            (have[f] # {} /\ f \notin want) => secret[f] = NoAccessor
    BY <1>2 DEF CleanDelete, OwnedTokens
  <2>1. \A f \in want : secret[f] \in live
    BY <1>2 DEF IInv, CleanUpsert
  <2>2. \A f \in Families \ want : OwnedTokens(f) = have[f]
    BY <1>2 DEF IInv, CleanUpsert
  <2>3. QED
    BY <1>2, <2>1, <2>2
<1>6. QED
  BY <1>1, <1>3, <1>4, <1>5 DEF IInv

\* DeleteTokenInfo removes exactly the grouped tokens of one orphan; they
\* carry that orphan's identity alone, so no listed family loses the token
\* its secret names and no other family loses a token.
LEMMA DeleteTokenInfoIInv ==
    ASSUME IInv, NEW g \in Families, DeleteTokenInfo(g)
    PROVE  IInv'
<1>1. TypeOK'
  BY NextTypeOK DEF IInv, Next, Controller
<1>2. /\ pc = "delete" /\ g \in pending
      /\ pending' = pending \ {g}
      /\ UNCHANGED <<idents, nextToken, pc, want, have>>
  BY DEF DeleteTokenInfo
<1>3. g \notin want
  BY <1>2 DEF IInv, PendingPhase
<1>4. PendingPhase' /\ CleanUpsert' /\ CleanPassConverges'
  BY <1>2 DEF IInv, PendingPhase, CleanUpsert, CleanPassConverges
<1>5. HaveOwned'
  BY <1>2 DEF IInv, HaveOwned
<1>6. SecretsOwned'
  <2>1. secret' = secret \/ secret' = [secret EXCEPT ![g] = NoAccessor]
    BY DEF DeleteTokenInfo
  <2>2. QED
    BY <1>2, <2>1 DEF IInv, TypeOK, SecretsOwned
<1>7. CASE /\ live' = live \ have[g]
           /\ secret' = [secret EXCEPT ![g] = NoAccessor]
           /\ NoFault
  <2> SUFFICES ASSUME errors' = 0 PROVE CleanDelete'
    BY <1>1, <1>4, <1>5, <1>6 DEF IInv, CleanDelete
  <2>0. /\ errors = 0
        /\ secret \in [Families -> 0..(nextToken - 1)]
        /\ live \subseteq 1..(nextToken - 1)
        /\ want \subseteq Families
        /\ \A t \in have[g] : idents[t] = {g}
    BY <1>7 DEF NoFault, IInv, TypeOK, HaveOwned
  <2>1. ASSUME NEW f \in want PROVE secret'[f] \in live'
    <3>1. f # g /\ f \in Families
      BY <1>3, <2>0
    <3>2. secret[f] \in live /\ idents[secret[f]] = {f}
      BY <1>2, <2>0, <3>1 DEF IInv, CleanDelete, SecretsOwned, NoAccessor
    <3>3. secret[f] \notin have[g]
      BY <2>0, <3>1, <3>2
    <3>4. QED
      BY <1>7, <2>0, <3>1, <3>2, <3>3
  <2>2. ASSUME NEW h \in Families \ want
        PROVE  OwnedTokens(h)' = IF h \in pending' THEN have[h] ELSE {}
    <3>1. OwnedTokens(h) = IF h \in pending THEN have[h] ELSE {}
      BY <1>2, <2>0 DEF IInv, CleanDelete
    <3>2. CASE h = g
      BY <1>2, <1>7, <3>1, <3>2 DEF OwnedTokens
    <3>3. CASE h # g
      <4>1. \A t \in have[g] : idents[t] # {h}
        BY <2>0, <3>3
      <4>2. OwnedTokens(h)' = OwnedTokens(h)
        BY <1>2, <1>7, <4>1 DEF OwnedTokens
      <4>3. QED
        BY <1>2, <3>1, <3>3, <4>2
    <3>4. QED
      BY <3>2, <3>3
  <2>3. ASSUME NEW h \in Families \ pending', have[h] # {}, h \notin want
        PROVE  secret'[h] = NoAccessor
    <3>1. CASE h = g
      BY <1>7, <2>0, <3>1
    <3>2. CASE h # g
      <4>1. h \in Families \ pending
        BY <1>2, <2>3, <3>2
      <4>2. secret[h] = NoAccessor
        BY <1>2, <2>0, <2>3, <4>1 DEF IInv, CleanDelete
      <4>3. QED
        BY <1>7, <2>0, <3>2, <4>1, <4>2
    <3>3. QED
      BY <3>1, <3>2
  <2>4. QED
    BY <1>2, <2>1, <2>2, <2>3 DEF CleanDelete
<1>8. CASE Fault
  <2>1. errors' # 0
    BY <1>8, FaultLeavesErrors DEF IInv, TypeOK
  <2>2. QED
    BY <1>1, <1>4, <1>5, <1>6, <2>1 DEF IInv, CleanDelete
<1>9. QED
  BY <1>7, <1>8 DEF DeleteTokenInfo

\* The end of the delete loop: a pass without errors has reached the state
\* CleanPassConverges describes.
LEMMA EndDeletesIInv == IInv /\ EndDeletes => IInv'
<1> SUFFICES ASSUME IInv, EndDeletes PROVE IInv'
  OBVIOUS
<1>1. TypeOK'
  BY NextTypeOK DEF IInv, Next, Controller
<1>2. /\ UNCHANGED <<live, idents, nextToken, secret, want, have, pending,
                     errors>>
      /\ pc = "delete" /\ pending = {} /\ pc' = "idle"
  BY DEF EndDeletes
<1>3. HaveOwned' /\ SecretsOwned'
  BY <1>2, OwnershipUnchanged DEF IInv
<1>4. PendingPhase' /\ CleanUpsert' /\ CleanDelete'
  BY <1>2 DEF PendingPhase, CleanUpsert, CleanDelete
<1>5. CleanPassConverges'
  <2> SUFFICES ASSUME errors = 0
               PROVE  /\ \A f \in want : Serves(f)
                      /\ \A f \in Families \ want : OwnedTokens(f) = {}
                      /\ \A f \in Families : (have[f] # {} /\ f \notin want) =>
                                                 secret[f] = NoAccessor
    BY <1>2 DEF CleanPassConverges, Serves, OwnedTokens
  <2>1. ASSUME NEW f \in want PROVE Serves(f)
    <3>1. secret[f] \in live /\ f \in Families
      BY <1>2 DEF IInv, CleanDelete, TypeOK
    <3>2. secret[f] # NoAccessor
      BY <3>1 DEF IInv, TypeOK, NoAccessor
    <3>3. QED
      BY <3>1, <3>2 DEF IInv, SecretsOwned, Serves
  <2>2. QED
    BY <1>2, <2>1 DEF IInv, CleanDelete
<1>6. QED
  BY <1>1, <1>3, <1>4, <1>5 DEF IInv

\* IInv is inductive.
LEMMA NextIInv == IInv /\ [Next]_vars => IInv'
<1> SUFFICES ASSUME IInv, [Next]_vars PROVE IInv'
  OBVIOUS
<1>1. CASE UNCHANGED vars
  BY <1>1 DEF vars, IInv, TypeOK, HaveOwned, SecretsOwned, PendingPhase,
             CleanUpsert, CleanDelete, CleanPassConverges, Serves, OwnedTokens
<1>2. QED
  BY <1>1, ListIInv, TokenListIInv, UpsertIInv, EndUpsertsIInv,
     DeleteTokenInfoIInv, EndDeletesIInv, EnvironmentIInv
  DEF Next, Controller

\* Every reachable state satisfies the inductive invariant.
THEOREM Invariance == Spec => []IInv
<1>1. Init => IInv
  BY InitIInv
<1>2. IInv /\ [Next]_vars => IInv'
  BY NextIInv
<1>3. QED
  BY <1>1, <1>2, PTL DEF Spec

\* After a reconcile pass in which no call failed, every family List
\* returned is served by its secret, no unlisted family owns a token, and
\* the secret of every orphan whose tokens were deleted is "{}"
\* (Upsert's liveness check followed by DeleteTokenInfo's delete-then-
\* overwrite), for every cluster, token set and bound.
THEOREM CleanPassSafe == Spec => []CleanPassConverges
BY Invariance, PTL DEF IInv

\* One step of the controller deletes only tokens with a single service
\* identity, of a family the same pass's List did not return.
DeletesOrphans ==
    \A t \in live \ live' : \E f \in Families \ want : idents[t] = {f}

LEMMA StepDeletesOrphans == IInv /\ [Next]_vars => DeletesOrphans
<1> SUFFICES ASSUME IInv, [Next]_vars PROVE DeletesOrphans
  OBVIOUS
<1>1. ASSUME NEW g \in Families, DeleteTokenInfo(g) PROVE DeletesOrphans
  <2>1. live \ live' \subseteq have[g]
    BY <1>1 DEF DeleteTokenInfo
  <2>2. g \notin want
    BY <1>1 DEF DeleteTokenInfo, IInv, PendingPhase
  <2>3. \A t \in have[g] : idents[t] = {g}
    BY DEF IInv, HaveOwned
  <2>4. QED
    BY <2>1, <2>2, <2>3 DEF DeletesOrphans
<1>2. CASE ~ \E g \in Families : DeleteTokenInfo(g)
  <2>1. live \subseteq live'
    BY <1>2 DEF Next, Controller, vars, List, TokenList, Upsert,
               UpdateServiceToken, EndUpserts, EndDeletes, Environment,
               StartTask, StopTask
  <2>2. QED
    BY <2>1 DEF DeletesOrphans
<1>3. QED
  BY <1>1, <1>2

\* The controller never deletes a token that has zero or several service
\* identities, nor one of a family its List returned in the same pass
\* (TokenList's grouping and the orphan computation of the delete loop),
\* for every value of the constants.
THEOREM DeletesOnlyOrphans == Spec => DeletesOnlyOrphanedOwnedTokens
<1>1. IInv /\ [Next]_vars => [DeletesOrphans]_vars
  BY StepDeletesOrphans
<1>2. QED
  BY <1>1, Invariance, PTL DEF Spec, DeletesOnlyOrphanedOwnedTokens, DeletesOrphans

(***************************************************************************)
(* Refinement: ACLController implements ACLTokenStore under the mapping   *)
(* issued <- 1..(nextToken - 1).                                           *)
(***************************************************************************)

\* The state an earlier clean run leaves is a state of the token store.
LEMMA InitRefines == Init => TS!Init
<1> SUFFICES ASSUME Init PROVE TS!Init
  OBVIOUS
<1>1. /\ 1..(nextToken - 1) \subseteq TokenIds
      /\ live \subseteq 1..(nextToken - 1)
      /\ idents \in [TokenIds -> SUBSET Families]
      /\ secret \in [Families -> {NoAccessor} \cup 1..(nextToken - 1)]
  BY InitTypeOK, BoundsAssumption DEF TypeOK, TokenIds, NoAccessor
<1>2. \A t \in TokenIds \ 1..(nextToken - 1) : idents[t] = {}
  BY BoundsAssumption DEF Init, TokenIds
<1>3. SecretsOwned
  BY InitIInv DEF IInv
<1>4. QED
  BY <1>1, <1>2, <1>3 DEF TS!Init, SecretsOwned, TS!SecretsNameOwnTokens

\* Every controller step is an Issue, a Revoke or leaves the store alone:
\* a successful TokenCreate is Issue of the fresh ID nextToken, and
\* DeleteTokenInfo is Revoke of (part of) TokenList's grouping.
LEMMA StepRefines == IInv /\ [Next]_vars => [TS!Next]_(TS!storeVars)
<1> SUFFICES ASSUME IInv, [Next]_vars PROVE [TS!Next]_(TS!storeVars)
  OBVIOUS
<1>1. CASE UNCHANGED <<nextToken, live, idents, secret>>
  BY <1>1 DEF TS!storeVars
<1>2. ASSUME NEW f \in Families, Upsert(f),
             /\ nextToken <= MaxTokens
             /\ live' = live \cup {nextToken}
             /\ idents' = [idents EXCEPT ![nextToken] = {f}]
             /\ nextToken' = nextToken + 1
             /\ secret' \in {secret, [secret EXCEPT ![f] = nextToken]}
      PROVE  TS!Issue(f)
  <2>1. nextToken \in TokenIds \ 1..(nextToken - 1) /\ nextToken \in Nat
    BY <1>2, BoundsAssumption DEF IInv, TypeOK, TokenIds
  <2>2. 1..(nextToken' - 1) = 1..(nextToken - 1) \cup {nextToken}
    BY <1>2, <2>1 DEF TokenIds
  <2>3. QED
    BY <1>2, <2>1, <2>2 DEF TS!Issue
<1>3. ASSUME NEW g \in Families, DeleteTokenInfo(g) PROVE TS!Revoke(g)
  <2>1. /\ \A t \in have[g] : t < nextToken /\ idents[t] = {g}
        /\ nextToken \in Nat
        /\ have[g] \subseteq 1..MaxTokens
    BY DEF IInv, HaveOwned, TypeOK, TokenIds
  <2>2. have[g] \subseteq TS!OwnedBy(g)
    BY <2>1 DEF TS!OwnedBy
  <2>3. PICK S \in SUBSET have[g] : live' = live \ S
    BY <1>3 DEF DeleteTokenInfo
  <2>4. /\ secret' \in {secret, [secret EXCEPT ![g] = NoAccessor]}
        /\ UNCHANGED <<nextToken, idents>>
    BY <1>3 DEF DeleteTokenInfo
  <2>5. QED
    BY <2>2, <2>3, <2>4 DEF TS!Revoke
<1>4. QED
  <2>1. CASE \E f \in Families : Upsert(f)
    <3>1. PICK f \in Families : Upsert(f)
      BY <2>1
    <3>2. CASE UNCHANGED <<live, idents, nextToken, secret>>
      BY <3>2, <1>1
    <3>3. CASE /\ nextToken <= MaxTokens
               /\ live' = live \cup {nextToken}
               /\ idents' = [idents EXCEPT ![nextToken] = {f}]
               /\ nextToken' = nextToken + 1
               /\ secret' \in {secret, [secret EXCEPT ![f] = nextToken]}
      BY <3>1, <3>3, <1>2 DEF TS!Next
    <3>4. QED
      BY <3>1, <3>2, <3>3 DEF Upsert, UpdateServiceToken
  <2>2. CASE \E g \in Families : DeleteTokenInfo(g)
    BY <2>2, <1>3 DEF TS!Next
  <2>3. CASE List \/ TokenList \/ EndUpserts \/ EndDeletes \/ Environment
    <3>1. UNCHANGED <<nextToken, live, idents, secret>>
      BY <2>3 DEF List, TokenList, EndUpserts, EndDeletes, Environment,
                 StartTask, StopTask
    <3>2. QED
      BY <3>1, <1>1
  <2>4. CASE UNCHANGED vars
    BY <2>4, <1>1 DEF vars
  <2>5. QED
    BY <2>1, <2>2, <2>3, <2>4 DEF Next, Controller

\* The controller changes Consul's tokens and the families' secrets only
\* in the ways ACLTokenStore allows, for every value of the constants:
\* TokenCreate and UpdateSecret in Upsert issue and publish a fresh
\* single-identity token, and DeleteTokenInfo revokes only tokens owned by
\* the orphaned family before emptying its secret.
THEOREM Refinement == Spec => TokenStoreSpec
<1>1. Init => TS!Init
  BY InitRefines
<1>2. IInv /\ [Next]_vars => [TS!Next]_(TS!storeVars)
  BY StepRefines
<1>3. QED
  BY <1>1, <1>2, Invariance, PTL DEF Spec, TokenStoreSpec, TS!Spec

=============================================================================
