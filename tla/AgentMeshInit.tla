---------------------------- MODULE AgentMeshInit ----------------------------
(***************************************************************************)
(* The agent-based mesh-init command of consul-ecs                         *)
(* (src/subcommand/mesh-init/command.go), run once per ECS task before its *)
(* Envoy sidecar starts.                                                   *)
(*                                                                         *)
(* Run loads the config; realRun builds a Consul client from the          *)
(* environment (api.DefaultConfig: the ACL token is CONSUL_HTTP_TOKEN,     *)
(* read once), fetches the task metadata, builds the health checks         *)
(* (constructChecks) and the service metadata (mergeMeta), registers the   *)
(* service and then its sidecar proxy with the local Consul agent, each    *)
(* retried forever with a constant backoff, runs                           *)
(* "consul connect envoy -bootstrap" for the proxy, writes its output and  *)
(* copies its own binary to the bootstrap directory.                       *)
(*                                                                         *)
(* The agent accepts a registration only when the token grants            *)
(* service:write on the service name (a service identity grants its name   *)
(* and its sidecar proxy's).  A denied registration is retried like any   *)
(* other error: RetryNotify with a constant backoff never gives up.        *)
(*                                                                         *)
(* Names, IDs, checks and metadata are model values and tuples: a          *)
(* fmt.Sprintf("%s-%s", a, b) ID is the pair <<a, b>>.                     *)
(***************************************************************************)
EXTENDS Naturals, Sequences, FiniteSets

CONSTANTS
    Family,         \* taskMeta.Family
    TaskId,         \* taskMeta.TaskID()
    TaskARN,        \* taskMeta.TaskARN
    ConfigNames,    \* values of mesh.service.name other than ""
    NoName,         \* the empty mesh.service.name
    CheckIds,       \* health checks that mesh.service.checks may list
    Containers,     \* containers mesh.healthSyncContainers may list
    MetaKeys,       \* keys mesh.service.meta may set
    MetaValues,     \* values mesh.service.meta may give them
    Tokens,         \* ACL tokens CONSUL_HTTP_TOKEN may hold
    MaxRejects      \* bound on transient registration failures

ASSUME AgentMeshInitAssumption ==
    /\ Family \notin ConfigNames \cup {NoName}
    /\ NoName \notin ConfigNames
    /\ MaxRejects \in Nat
    \* an ECS task ID is hex, never the suffix of the proxy's ID
    /\ TaskId # "sidecar-proxy"

\* The mesh config as far as realRun reads it.  bootstrapDir is the set of
\* values of mesh.bootstrapDir that matter: "" or some directory.
Configs ==
    [bootstrapDir : {"", "dir"},
     name         : ConfigNames \cup {NoName},
     checks       : SUBSET CheckIds,
     healthSync   : UNION {{s \in [1..n -> Containers] :
                               \A i, j \in 1..n : i # j => s[i] # s[j]} :
                             n \in 0..Cardinality(Containers)},
     meta         : UNION {[K -> MetaValues] : K \in SUBSET MetaKeys}]

VARIABLES
    conf,       \* c.config (never changes)
    token,      \* the ACL token of the Consul client (never changes)
    grants,     \* <<token, service name>> pairs Consul's ACLs allow to register
    pc,         \* the statement realRun is at; "exited" once Run returned
    exitCode,   \* Run's return value, meaningful once pc = "exited"
    checks,     \* realRun's local checks
    fullMeta,   \* realRun's local fullMeta
    agent,      \* the services registered with the local Consul agent
    files,      \* files written to the bootstrap directory
    rejects     \* transient registration failures so far

meshVars == <<pc, exitCode, checks, fullMeta, agent, files, rejects>>
vars == <<conf, token, grants, meshVars>>

-----------------------------------------------------------------------------
(* Helpers of the package.                                                 *)

\* constructServiceName: mesh.service.name, or the task family.
ConstructServiceName(c) == IF c.name = NoName THEN Family ELSE c.name

ServiceID(c) == <<ConstructServiceName(c), TaskId>>
ProxyID(c) == <<ServiceID(c), "sidecar-proxy">>

\* The check constructChecks appends for a health-synced container.
SyncedCheck(sid, container) == <<sid, container, "consul-ecs">>

\* constructChecks: checks and healthSyncContainers are exclusive; each
\* container appends a TTL check to checks.
ConflictingChecks(c) == c.checks # {} /\ c.healthSync # <<>>

\* Mutant: the synced checks are built into a fresh slice that replaces
\* the configured ones.
ConstructChecksOverwrites(sid, cs, hs) ==
    {SyncedCheck(sid, hs[i]) : i \in 1..Len(hs)}

ConstructChecks(sid, cs, hs) ==
    cs \cup {SyncedCheck(sid, hs[i]) : i \in 1..Len(hs)}

\* An iteration order of a Go map with key set S.
Orders(S) == {o \in [1..Cardinality(S) -> S] :
                \A i, j \in 1..Cardinality(S) : i # j => o[i] # o[j]}

\* result[k] = v for a map result.
Write(m, k, v) == [x \in DOMAIN m \cup {k} |-> IF x = k THEN v ELSE m[x]]

\* "for k, v := range src { result[k] = v }" in the order o.
CopyInto(result, src, o) ==
    LET loop[i \in 0..Len(o)] ==
            IF i = 0 THEN result ELSE Write(loop[i - 1], o[i], src[o[i]])
    IN  loop[Len(o)]

\* Mutant: the two copy loops of mergeMeta swapped, so the defaults win.
MergeMetaDefaultsWin(m1, m2, o1, o2) ==
    CopyInto(CopyInto(<<>>, m2, o2), m1, o1)

\* mergeMeta: copy m1, then m2, into an empty map, each in map order.
MergeMeta(m1, m2, o1, o2) ==
    CopyInto(CopyInto(<<>>, m1, o1), m2, o2)

\* The metadata realRun passes as m1.
TaskMeta == [k \in {"task-id", "task-arn", "source"} |->
                CASE k = "task-id"  -> TaskId
                  [] k = "task-arn" -> TaskARN
                  [] k = "source"   -> "consul-ecs"]

\* The two registrations of realRun.
ServiceRegistration(c, cs, meta) ==
    [id |-> ServiceID(c), name |-> ConstructServiceName(c),
     kind |-> "typical", checks |-> cs, meta |-> meta]
ProxyRegistration(c, meta) ==
    [id |-> ProxyID(c), name |-> <<ConstructServiceName(c), "sidecar-proxy">>,
     kind |-> "connect-proxy",
     checks |-> {"Proxy Public Listener", <<"Destination Alias", ServiceID(c)>>},
     meta |-> meta]

\* The token may register the service (and, through the same service
\* identity, its sidecar proxy).
Authorized == <<token, ConstructServiceName(conf)>> \in grants

-----------------------------------------------------------------------------

\* The token is the controller's token for the task's family, as ECS
\* injects it from the family's secret.
Init ==
    /\ conf \in Configs
    /\ token \in Tokens
    /\ grants = {<<token, Family>>}
    /\ pc = "start"
    /\ exitCode = 0
    /\ checks = {}
    /\ fullMeta = <<>>
    /\ agent = {}
    /\ files = {}
    /\ rejects = 0

\* realRun returns an error: Run logs it and returns 1.
Fail ==
    /\ pc' = "exited"
    /\ exitCode' = 1

\* Run: config.FromEnv may fail; an empty mesh.bootstrapDir is refused.
Run ==
    /\ pc = "start"
    /\ \/ Fail
       \/ /\ conf.bootstrapDir = ""
          /\ Fail
       \/ /\ conf.bootstrapDir # ""
          /\ pc' = "realRun"
          /\ UNCHANGED exitCode
    /\ UNCHANGED <<checks, fullMeta, agent, files, rejects>>

\* realRun up to the first registration: api.NewClient and
\* ECSTaskMetadata may fail, constructChecks refuses both kinds of checks,
\* mergeMeta iterates its maps in an unspecified order.
PrepareRegistration ==
    /\ pc = "realRun"
    /\ \/ /\ Fail
          /\ UNCHANGED <<checks, fullMeta>>
       \/ /\ ConflictingChecks(conf)
          /\ Fail
          /\ UNCHANGED <<checks, fullMeta>>
       \/ /\ ~ConflictingChecks(conf)
          /\ checks' = ConstructChecks(ServiceID(conf), conf.checks,
                                       conf.healthSync)
          /\ \E o1 \in Orders(DOMAIN TaskMeta),
                o2 \in Orders(DOMAIN conf.meta) :
                fullMeta' = MergeMeta(TaskMeta, conf.meta, o1, o2)
          /\ pc' = "registerService"
          /\ UNCHANGED exitCode
    /\ UNCHANGED <<agent, files, rejects>>

\* backoff.RetryNotify around Agent().ServiceRegister (retryLogger logs
\* each failure): the agent replaces a registration with the same ID.  A
\* transient failure is retried; a denied one is retried forever, which
\* leaves no step to take.
Register(reg, next) ==
    \/ /\ Authorized
       /\ agent' = {r \in agent : r.id # reg.id} \cup {reg}
       /\ pc' = next
       /\ UNCHANGED rejects
    \/ /\ rejects < MaxRejects
       /\ rejects' = rejects + 1
       /\ UNCHANGED <<agent, pc>>

RegisterService ==
    /\ pc = "registerService"
    /\ Register(ServiceRegistration(conf, checks, fullMeta), "registerProxy")
    /\ UNCHANGED <<exitCode, checks, fullMeta, files>>

RegisterProxy ==
    /\ pc = "registerProxy"
    /\ Register(ProxyRegistration(conf, fullMeta), "bootstrap")
    /\ UNCHANGED <<exitCode, checks, fullMeta, files>>

\* "consul connect envoy -proxy-id <proxyID> -bootstrap" reads the proxy's
\* registration from the agent; its output is written with mode 0444.
WriteEnvoyBootstrap ==
    /\ pc = "bootstrap"
    /\ \/ /\ Fail
          /\ UNCHANGED files
       \/ /\ \E r \in agent : r.id = ProxyID(conf)
          /\ files' = files \cup {"envoy-bootstrap.json"}
          /\ pc' = "copyBinary"
          /\ UNCHANGED exitCode
    /\ UNCHANGED <<checks, fullMeta, agent, rejects>>

\* os.Executable, ReadFile and WriteFile 0755 of the consul-ecs binary;
\* then realRun returns nil and Run returns 0.
CopyBinary ==
    /\ pc = "copyBinary"
    /\ \/ /\ Fail
          /\ UNCHANGED files
       \/ /\ files' = files \cup {"consul-ecs"}
          /\ pc' = "exited"
          /\ exitCode' = 0
    /\ UNCHANGED <<checks, fullMeta, agent, rejects>>

-----------------------------------------------------------------------------

Step ==
    \/ Run
    \/ PrepareRegistration
    \/ RegisterService
    \/ RegisterProxy
    \/ WriteEnvoyBootstrap
    \/ CopyBinary

Next == Step /\ UNCHANGED <<conf, token, grants>>

\* mesh-init runs to completion on its own; only the agent's answers are
\* outside it, and MaxRejects bounds the transient ones.
Spec == Init /\ [][Next]_vars /\ WF_vars(Next)

-----------------------------------------------------------------------------
(* Properties.                                                             *)

TypeOK ==
    /\ conf \in Configs
    /\ pc \in {"start", "realRun", "registerService", "registerProxy",
               "bootstrap", "copyBinary", "exited"}
    /\ exitCode \in {0, 1}
    /\ files \subseteq {"envoy-bootstrap.json", "consul-ecs"}
    /\ rejects \in 0..MaxRejects

\* The metadata mergeMeta must produce in any map order: the task's
\* entries, each overridden by mesh.service.meta.
ExpectedMeta(c) ==
    [k \in DOMAIN TaskMeta \cup DOMAIN c.meta |->
        IF k \in DOMAIN c.meta THEN c.meta[k] ELSE TaskMeta[k]]

\* The checks the service must carry: the configured ones, or one TTL
\* check per health-synced container.
ExpectedChecks(c) ==
    IF c.healthSync = <<>> THEN c.checks
    ELSE {SyncedCheck(ServiceID(c), c.healthSync[i]) :
            i \in 1..Len(c.healthSync)}

\* A run that returns 0 has registered, with the agent, the service under
\* its ID with the configured checks and realRun's metadata, and the
\* proxy for that service (whose later registration must not replace the
\* service's), and written the Envoy bootstrap and the binary; a config
\* with both kinds of checks registers nothing (constructChecks, realRun).
RunRegistersAsConfigured ==
    /\ (pc = "exited" /\ exitCode = 0) =>
          /\ ServiceRegistration(conf, ExpectedChecks(conf), fullMeta) \in agent
          /\ ProxyRegistration(conf, fullMeta) \in agent
          /\ files = {"envoy-bootstrap.json", "consul-ecs"}
    /\ ConflictingChecks(conf) => agent = {}

\* A run that returns 0 registered the task's metadata overridden by
\* mesh.service.meta, whatever order Go iterated the two maps in
\* (mergeMeta's copy loops).
MetaMergedAsConfigured ==
    (pc = "exited" /\ exitCode = 0) => fullMeta = ExpectedMeta(conf)

\* The registrations the run must leave with the agent: the service with
\* the configured checks and realRun's metadata, and its proxy.
ExpectedRegistrations ==
    [i \in {"service", "proxy"} |->
        IF i = "service"
        THEN ServiceRegistration(conf, ExpectedChecks(conf), fullMeta)
        ELSE ProxyRegistration(conf, fullMeta)]

\* What the run has produced: the expected registrations the agent holds,
\* and the files in the bootstrap directory.
Produced ==
    {i \in {"service", "proxy"} : ExpectedRegistrations[i] \in agent} \cup files

\* How the run stands: running until Run returns, then its exit code.
RunStatus ==
    IF pc # "exited" THEN "running"
    ELSE IF exitCode = 0 THEN "succeeded" ELSE "failed"

\* The refinement mapping: every run calls for both registrations and both
\* files.
Contract == INSTANCE TaskBootstrap
              WITH Items <- {"service", "proxy", "envoy-bootstrap.json",
                             "consul-ecs"},
                   need <- {"service", "proxy", "envoy-bootstrap.json",
                            "consul-ecs"},
                   done <- Produced, status <- RunStatus

\* The agent-API mesh-init keeps the contract of every mesh-init run: a
\* registration or file it produced stays (the proxy's registration does
\* not replace the service's), and Run returns 0 only once the service with
\* its configured checks, the proxy, the Envoy bootstrap and the binary are
\* all in place (realRun's statements and their error returns).
BootstrapSpec == Contract!Spec

\* mesh-init always exits: a registration the agent refuses is not
\* retried forever (spec 4.2 and 7: the retry is for transient errors).
Terminates ==
    <>(pc = "exited")

=============================================================================
