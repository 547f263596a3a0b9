-------------------------- MODULE MC_ACLController --------------------------
(***************************************************************************)
(* Small instance of ACLController for TLC: two families, four tasks (two  *)
(* of family f1, one mesh and one untagged task of family f2), and two     *)
(* three tokens that exist before the controller starts: one without     *)
(* service identities (like the client token), one with two identities,   *)
(* and one left for f1 by an earlier controller run, which f1's secret may *)
(* name.  The accessor-ID bound is large enough never to bind.             *)
(***************************************************************************)
EXTENDS ACLController, TLC

CONSTANTS f1, f2, a1, a2, b1, b2

MCFamilies == {f1, f2}
MCTasks == {a1, a2, b1, b2}
MCTaskFamily == [t \in MCTasks |-> IF t \in {a1, a2} THEN f1 ELSE f2]
MCMeshTasks == {a1, a2, b1}
MCInitTokens == 3
MCInitIdents == (1 :> {} @@ 2 :> {f1, f2} @@ 3 :> {f1})
MCMaxFaults == 2
MCMaxTaskChanges == 3
\* Each token creation needs a fresh orphan-free start, a task change or a
\* fault, so this bound is never reached.
MCMaxTokens == MCInitTokens + Cardinality(MCFamilies) + MCMaxTaskChanges + MCMaxFaults
=============================================================================
