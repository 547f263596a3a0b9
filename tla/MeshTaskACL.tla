----------------------------- MODULE MeshTaskACL -----------------------------
(***************************************************************************)
(* The ACL controller together with the agent-based mesh-init of one mesh  *)
(* task MeshTask.  When ECS starts the task it injects the accessor the    *)
(* family's secret names at that moment as the task's CONSUL_HTTP_TOKEN;   *)
(* mesh-init reads it once (api.DefaultConfig) and registers with it,      *)
(* while the controller keeps reconciling tokens against the running       *)
(* tasks.  Consul accepts a token for a service name when the token is     *)
(* live and one of its service identities is that name.                    *)
(***************************************************************************)
EXTENDS ACLController

CONSTANT MeshTask   \* the mesh task whose container runs mesh-init

ASSUME MeshTaskAssumption == MeshTask \in MeshTasks

VARIABLES mconf, mtoken, mpc, mexit, mchecks, mmeta, magent, mfiles, mrejects

meshInitVars == <<mconf, mtoken, mpc, mexit, mchecks, mmeta, magent, mfiles,
                  mrejects>>
allVars == <<vars, meshInitVars>>

\* What Consul's ACL system allows: a live token may register the services
\* its service identities name.
Grants == {g \in live \X Families : g[2] \in idents[g[1]]}

\* The task's mesh-init with the family's name as its service name (no
\* mesh.service.name) and no checks or metadata of its own.
M == INSTANCE AgentMeshInit
        WITH Family <- TaskFamily[MeshTask], TaskId <- MeshTask,
             TaskARN <- <<"arn", MeshTask>>, ConfigNames <- {}, NoName <- "",
             CheckIds <- {}, Containers <- {}, MetaKeys <- {}, MetaValues <- {},
             Tokens <- {NoAccessor} \cup TokenIds, MaxRejects <- 0,
             conf <- mconf, token <- mtoken, grants <- Grants, pc <- mpc,
             exitCode <- mexit, checks <- mchecks, fullMeta <- mmeta,
             agent <- magent, files <- mfiles, rejects <- mrejects

\* The task is not running yet; its mesh-init has not started.
SysInit ==
    /\ Init
    /\ MeshTask \notin running
    /\ mconf \in M!Configs
    /\ mtoken = NoAccessor
    /\ mpc = "notStarted"
    /\ mexit = 0
    /\ mchecks = {}
    /\ mmeta = <<>>
    /\ magent = {}
    /\ mfiles = {}
    /\ mrejects = 0

\* ECS starts the task: the secret's accessor becomes its token, and a
\* fresh mesh-init (with a fresh local agent and volume) starts.
StartMeshTask ==
    /\ StartTask(MeshTask)
    /\ mtoken' = secret[TaskFamily[MeshTask]]
    /\ mpc' = "start"
    /\ mexit' = 0
    /\ mchecks' = {}
    /\ mmeta' = <<>>
    /\ magent' = {}
    /\ mfiles' = {}
    /\ mrejects' = 0
    /\ UNCHANGED mconf

\* ECS stops the task, and its mesh-init with it.
StopMeshTask ==
    /\ StopTask(MeshTask)
    /\ mpc' = "stopped"
    /\ UNCHANGED <<mconf, mtoken, mexit, mchecks, mmeta, magent, mfiles,
                   mrejects>>

\* A step of the task's mesh-init; the controller and ECS stand still.
MeshInitStep ==
    /\ M!Step
    /\ UNCHANGED <<mconf, mtoken>>
    /\ UNCHANGED vars

OtherTask ==
    /\ \E t \in Tasks \ {MeshTask} : StartTask(t) \/ StopTask(t)
    /\ UNCHANGED meshInitVars

SysNext ==
    \/ Controller /\ UNCHANGED meshInitVars
    \/ MeshInitStep
    \/ StartMeshTask
    \/ StopMeshTask
    \/ OtherTask

SysSpec ==
    SysInit /\ [][SysNext]_allVars
    /\ WF_allVars(Controller /\ UNCHANGED meshInitVars)
    /\ WF_allVars(MeshInitStep)

-----------------------------------------------------------------------------

\* The token a mesh task was started with, if any, has the task's family as
\* its only service identity, whatever the controller did before and does
\* after: Upsert publishes only a token it created for the family, and
\* Consul never changes a token's identities.  So the agent accepts the
\* task's registration under its family name exactly while the token is
\* live.
TaskTokenOwnedByFamily ==
    mtoken # NoAccessor => idents[mtoken] = {TaskFamily[MeshTask]}

\* The token a running mesh task was started with is never deleted while
\* the task runs: the controller only revokes tokens of families without
\* running tasks (spec 1: credentials consistent with the workloads
\* actually running; 4.1 step 4).
RunningTaskTokenLive ==
    (MeshTask \in running /\ mtoken # NoAccessor) => mtoken \in live

=============================================================================
