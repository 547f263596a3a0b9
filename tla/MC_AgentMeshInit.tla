--------------------------- MODULE MC_AgentMeshInit ---------------------------
(* One task of family fam; a config may name the service web, list check   *)
(* c1 or health-sync container app, and set metadata that overrides        *)
(* task-id or adds team.                                                   *)
EXTENDS AgentMeshInit

CONSTANTS fam, tid, arn, web, none, c1, app, v1, tok

MCConfigNames == {web}
MCCheckIds == {c1}
MCContainers == {app}
MCMetaKeys == {"task-id", "team"}
MCMetaValues == {v1}
MCTokens == {tok}
MCMaxRejects == 1
=============================================================================
