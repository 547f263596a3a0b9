---------------------------- MODULE ACLTokenStore ----------------------------
(***************************************************************************)
(* What the ACL controller may do to Consul's tokens and to the families'  *)
(* Secrets Manager secrets, stated without the reconcile pass.  A token's  *)
(* accessor ID is never reused and its service identities are fixed when   *)
(* it is created; the controller creates a token for one family at a time *)
(* and may publish it in that family's secret; it deletes only tokens     *)
(* whose single identity is the family it cleans up, and may then empty   *)
(* that family's secret.  ACLController implements this specification     *)
(* (see ACLControllerProofs).                                             *)
(***************************************************************************)
EXTENDS Naturals, TLAPS

CONSTANTS
    Families,    \* service identity names
    TokenIds,    \* accessor IDs Consul can issue
    NoAccessor   \* the accessor_id of the empty secret "{}"

VARIABLES
    issued,      \* accessor IDs handed out so far
    live,        \* tokens that exist
    idents,      \* service identities of every accessor ID
    secret       \* accessor_id held by each family's secret

storeVars == <<issued, live, idents, secret>>

\* Tokens whose only service identity is f.
OwnedBy(f) == {t \in issued : idents[t] = {f}}

\* A secret names nothing, or a token issued for its own family alone.
SecretsNameOwnTokens ==
    \A f \in Families : secret[f] # NoAccessor => idents[secret[f]] = {f}

Init ==
    /\ issued \subseteq TokenIds
    /\ live \subseteq issued
    /\ idents \in [TokenIds -> SUBSET Families]
    /\ \A t \in TokenIds \ issued : idents[t] = {}
    /\ secret \in [Families -> {NoAccessor} \cup issued]
    /\ SecretsNameOwnTokens

\* TokenCreate of a fresh token with the single identity f; the secret of
\* f may or may not be updated to name it.
Issue(f) ==
    \E t \in TokenIds \ issued :
        /\ issued' = issued \cup {t}
        /\ live' = live \cup {t}
        /\ idents' = [idents EXCEPT ![t] = {f}]
        /\ secret' \in {secret, [secret EXCEPT ![f] = t]}

\* TokenDelete of some of f's own tokens; the secret of f may be emptied.
Revoke(f) ==
    \E S \in SUBSET OwnedBy(f) :
        /\ live' = live \ S
        /\ secret' \in {secret, [secret EXCEPT ![f] = NoAccessor]}
        /\ UNCHANGED <<issued, idents>>

Next == \E f \in Families : Issue(f) \/ Revoke(f)

Spec == Init /\ [][Next]_storeVars

-----------------------------------------------------------------------------
(* Safety of the token store, for every set of families and accessor IDs  *)
(* whose empty accessor_id is not itself an ID.                            *)

\* The store's inductive invariant: its state is well typed, and every
\* secret names its own family's token.
StoreInv ==
    /\ issued \subseteq TokenIds
    /\ idents \in [TokenIds -> SUBSET Families]
    /\ secret \in [Families -> {NoAccessor} \cup issued]
    /\ SecretsNameOwnTokens

LEMMA StoreInvInductive ==
    ASSUME NoAccessor \notin TokenIds
    PROVE  StoreInv /\ [Next]_storeVars => StoreInv'
<1> SUFFICES ASSUME StoreInv, [Next]_storeVars PROVE StoreInv'
  OBVIOUS
<1>1. ASSUME NEW f \in Families, Issue(f) PROVE StoreInv'
  <2>1. PICK t \in TokenIds \ issued :
              /\ issued' = issued \cup {t}
              /\ live' = live \cup {t}
              /\ idents' = [idents EXCEPT ![t] = {f}]
              /\ secret' \in {secret, [secret EXCEPT ![f] = t]}
    BY <1>1 DEF Issue
  <2>2. /\ issued' \subseteq TokenIds
        /\ idents' \in [TokenIds -> SUBSET Families]
        /\ secret' \in [Families -> {NoAccessor} \cup issued']
    BY <2>1 DEF StoreInv
  <2>3. ASSUME NEW g \in Families, secret'[g] # NoAccessor
        PROVE  idents'[secret'[g]] = {g}
    <3>1. CASE secret'[g] = t
      <4>1. g = f
        BY <2>1, <3>1, <2>3 DEF StoreInv
      <4>2. QED
        BY <2>1, <3>1, <4>1 DEF StoreInv
    <3>2. CASE secret'[g] # t
      <4>1. secret'[g] = secret[g] /\ secret[g] \in issued
        BY <2>1, <2>3, <3>2 DEF StoreInv
      <4>2. secret[g] \in TokenIds /\ secret[g] # t
        BY <2>1, <4>1 DEF StoreInv
      <4>3. idents[secret[g]] = {g}
        BY <2>3, <4>1 DEF StoreInv, SecretsNameOwnTokens
      <4>4. QED
        BY <2>1, <4>1, <4>2, <4>3 DEF StoreInv
    <3>3. QED
      BY <3>1, <3>2
  <2>4. QED
    BY <2>2, <2>3 DEF StoreInv, SecretsNameOwnTokens
<1>2. ASSUME NEW f \in Families, Revoke(f) PROVE StoreInv'
  <2>1. /\ UNCHANGED <<issued, idents>>
        /\ secret' \in {secret, [secret EXCEPT ![f] = NoAccessor]}
    BY <1>2 DEF Revoke
  <2>2. QED
    BY <2>1 DEF StoreInv, SecretsNameOwnTokens
<1>3. CASE UNCHANGED storeVars
  BY <1>3 DEF storeVars, StoreInv, SecretsNameOwnTokens
<1>4. QED
  BY <1>1, <1>2, <1>3 DEF Next

\* No step of the store takes back an accessor ID or changes the service
\* identities of a token already issued.
LEMMA IdentsFixed ==
    ASSUME issued \subseteq DOMAIN idents, [Next]_storeVars
    PROVE  /\ issued \subseteq issued'
           /\ \A t \in issued : idents'[t] = idents[t]
<1>1. ASSUME NEW f \in Families, Issue(f)
      PROVE  /\ issued \subseteq issued'
             /\ \A t \in issued : idents'[t] = idents[t]
  BY <1>1 DEF Issue
<1>2. ASSUME NEW f \in Families, Revoke(f)
      PROVE  /\ issued \subseteq issued'
             /\ \A t \in issued : idents'[t] = idents[t]
  BY <1>2 DEF Revoke
<1>3. QED
  BY <1>1, <1>2 DEF Next, storeVars

\* In every behaviour of the store, each family's secret is empty or names
\* a token whose single service identity is that family: no operation the
\* controller is allowed can make a task log in with another family's
\* token.
THEOREM StoreSafe ==
    ASSUME NoAccessor \notin TokenIds
    PROVE  Spec => []SecretsNameOwnTokens
<1>1. Init => StoreInv
  BY DEF Init, StoreInv
<1>2. StoreInv /\ [Next]_storeVars => StoreInv'
  BY StoreInvInductive
<1>3. StoreInv => SecretsNameOwnTokens
  BY DEF StoreInv
<1>4. QED
  BY <1>1, <1>2, <1>3, PTL DEF Spec

=============================================================================
