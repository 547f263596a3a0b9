------------------------------ MODULE MeshInit ------------------------------
(***************************************************************************)
(* The mesh-init command of consul-ecs (package meshinit, Command.Run and  *)
(* Command.realRun), run once per ECS task before its sidecar starts.      *)
(*                                                                         *)
(* It reads the config, fetches the task metadata, starts the Consul       *)
(* server watcher in the background and waits for its first state, builds *)
(* the service and proxy registrations (only a proxy registration for a    *)
(* gateway), registers them with Consul's catalog, retrying each forever   *)
(* with a constant backoff, then copies its own binary, the gRPC CA        *)
(* certificate and the consul-dataplane config to the shared volume.  Any  *)
(* error other than a rejected registration ends the run with exit code  *)
(* 1; the deferred watcher.Stop runs on every return of realRun.           *)
(*                                                                         *)
(* The sidecar (consul-dataplane) container depends on mesh-init with the *)
(* ECS condition SUCCESS: it starts only once mesh-init exited with 0, and *)
(* reads the dataplane config and the CA certificate file it names.        *)
(*                                                                         *)
(* The registrations and the files are abstracted to their names; the      *)
(* config to the three settings that change the control flow.              *)
(***************************************************************************)
EXTENDS Naturals

CONSTANTS
    MaxRejects   \* bound on registrations Consul rejects (e.g. while the
                 \* ACL token from the login is not yet replicated)

ASSUME RejectsAssumption == MaxRejects \in Nat

\* A config is the set of the settings, among those that select a branch of
\* realRun, that are on:
\*   "gateway"  - c.config.Gateway != nil && c.config.Gateway.Kind != ""
\*   "tls"      - GetGRPCTLSSettings().Enabled
\*   "pem"      - CONSUL_GRPC_CACERT_PEM is set
\* (ConsulLogin.Enabled only selects the credentials the dataplane config
\* carries, which no property here is about.)
Configs == SUBSET {"gateway", "tls", "pem"}

\* Where the dataplane config points for the CA certificate.
NoCACert == "none"           \* TLS disabled: empty path
WrittenCACert == "written"   \* caCertFileName on the shared volume
ConfiguredCACert == "config" \* the caCertFile from the config

VARIABLES
    cfg,        \* the parsed config (never changes)
    pc,         \* the step realRun is at; "exited" once Run returned
    exitCode,   \* Run's return value, meaningful once pc = "exited"
    watcher,    \* the server watcher goroutine: "none", "running", "stopped"
    catalog,    \* Consul catalog: registrations of this task that exist
    files,      \* files written to the shared volume (BootstrapDir)
    caPath,     \* path returned by writeRPCCACertToSharedVolume
    dataplaneCA,\* CA certificate path recorded in the dataplane config
    rejects,    \* registrations rejected so far
    sidecar     \* the consul-dataplane container: "waiting" or "running"

vars == <<cfg, pc, exitCode, watcher, catalog, files, caPath, dataplaneCA,
          rejects, sidecar>>

Init ==
    /\ cfg \in Configs
    /\ pc = "start"
    /\ exitCode = 0
    /\ watcher = "none"
    /\ catalog = {}
    /\ files = {}
    /\ caPath = NoCACert
    /\ dataplaneCA = NoCACert
    /\ rejects = 0
    /\ sidecar = "waiting"

-----------------------------------------------------------------------------
(* realRun returns an error: Run logs it and returns 1; the deferred       *)
(* watcher.Stop and cancelFunc run first.                                  *)

StopWatcher == IF watcher = "running" THEN "stopped" ELSE watcher

Fail ==
    /\ pc' = "exited"
    /\ exitCode' = 1
    /\ watcher' = StopWatcher

\* Run: an argument, or a config that does not load, ends the run before
\* realRun.
Run ==
    /\ pc = "start"
    /\ \/ /\ pc' = "meta"
          /\ UNCHANGED exitCode
       \/ /\ pc' = "exited"
          /\ exitCode' = 1
    /\ UNCHANGED <<cfg, watcher, catalog, files, caPath, dataplaneCA, rejects,
                   sidecar>>

\* realRun up to "go watcher.Run()": ECSTaskMetadata, ClusterARN,
\* ConsulServerConnMgrConfig and NewWatcher, each of which may fail.
StartWatcher ==
    /\ pc = "meta"
    /\ \/ /\ pc' = "state"
          /\ watcher' = "running"
          /\ UNCHANGED exitCode
       \/ Fail
    /\ UNCHANGED <<cfg, catalog, files, caPath, dataplaneCA, rejects, sidecar>>

\* watcher.State() blocks for the first server address and token;
\* setupConsulAPIClient builds the client; then the registrations are
\* constructed: a gateway has no service registration.
WatcherState ==
    /\ pc = "state"
    /\ \/ /\ pc' = IF "gateway" \in cfg THEN "registerProxy"
                                      ELSE "registerService"
          /\ UNCHANGED <<exitCode, watcher>>
       \/ Fail
    /\ UNCHANGED <<cfg, catalog, files, caPath, dataplaneCA, rejects, sidecar>>

\* backoff.RetryNotify around Catalog().Register: a rejected attempt is
\* logged by retryLogger and retried after a second; the constant backoff
\* never gives up.
Register(entry, next) ==
    \/ /\ catalog' = catalog \cup {entry}
       /\ pc' = next
       /\ UNCHANGED rejects
    \/ /\ rejects < MaxRejects
       /\ rejects' = rejects + 1
       /\ UNCHANGED <<catalog, pc>>

RegisterService ==
    /\ pc = "registerService"
    /\ Register("service", "registerProxy")
    /\ UNCHANGED <<cfg, exitCode, watcher, files, caPath, dataplaneCA, sidecar>>

RegisterProxy ==
    /\ pc = "registerProxy"
    /\ Register("proxy", "copyBinary")
    /\ UNCHANGED <<cfg, exitCode, watcher, files, caPath, dataplaneCA, sidecar>>

\* copyECSBinaryToSharedVolume: os.Executable, ReadFile, WriteFile 0755.
CopyECSBinaryToSharedVolume ==
    /\ pc = "copyBinary"
    /\ \/ /\ files' = files \cup {"binary"}
          /\ pc' = "caCert"
          /\ UNCHANGED <<exitCode, watcher>>
       \/ /\ Fail
          /\ UNCHANGED files
    /\ UNCHANGED <<cfg, catalog, caPath, dataplaneCA, rejects, sidecar>>

\* Mutant: the error of WriteFile is dropped and caCertPath returned.
WriteRPCCACertIgnoringError ==
    /\ pc = "caCert"
    /\ \/ /\ "tls" \notin cfg
          /\ caPath' = NoCACert
          /\ pc' = "dataplane"
          /\ UNCHANGED <<files, exitCode, watcher>>
       \/ /\ "tls" \in cfg /\ "pem" \notin cfg
          /\ caPath' = ConfiguredCACert
          /\ pc' = "dataplane"
          /\ UNCHANGED <<files, exitCode, watcher>>
       \/ /\ "tls" \in cfg /\ "pem" \in cfg
          /\ files' \in {files \cup {"caCert"}, files}
          /\ caPath' = WrittenCACert
          /\ pc' = "dataplane"
          /\ UNCHANGED <<exitCode, watcher>>
    /\ UNCHANGED <<cfg, catalog, dataplaneCA, rejects, sidecar>>

\* writeRPCCACertToSharedVolume: nothing to write without TLS or without
\* the PEM in the environment; otherwise WriteFile 0444, which may fail.
WriteRPCCACertToSharedVolume ==
    /\ pc = "caCert"
    /\ \/ /\ "tls" \notin cfg
          /\ caPath' = NoCACert
          /\ pc' = "dataplane"
          /\ UNCHANGED <<files, exitCode, watcher>>
       \/ /\ "tls" \in cfg /\ "pem" \notin cfg
          /\ caPath' = ConfiguredCACert
          /\ pc' = "dataplane"
          /\ UNCHANGED <<files, exitCode, watcher>>
       \/ /\ "tls" \in cfg /\ "pem" \in cfg
          /\ files' = files \cup {"caCert"}
          /\ caPath' = WrittenCACert
          /\ pc' = "dataplane"
          /\ UNCHANGED <<exitCode, watcher>>
       \/ /\ "tls" \in cfg /\ "pem" \in cfg
          /\ Fail
          /\ UNCHANGED <<files, caPath>>
    /\ UNCHANGED <<cfg, catalog, dataplaneCA, rejects, sidecar>>

\* generateAndWriteDataplaneConfig (GetDataplaneConfigJSON, WriteFile
\* 0444), then realRun returns nil: the watcher is stopped and Run
\* returns 0.
GenerateAndWriteDataplaneConfig ==
    /\ pc = "dataplane"
    /\ \/ /\ files' = files \cup {"dataplane"}
          /\ dataplaneCA' = caPath
          /\ pc' = "exited"
          /\ exitCode' = 0
          /\ watcher' = StopWatcher
       \/ /\ Fail
          /\ UNCHANGED <<files, dataplaneCA>>
    /\ UNCHANGED <<cfg, catalog, caPath, rejects, sidecar>>

\* ECS starts the sidecar once mesh-init exited with 0.
StartSidecar ==
    /\ pc = "exited"
    /\ exitCode = 0
    /\ sidecar = "waiting"
    /\ sidecar' = "running"
    /\ UNCHANGED <<cfg, pc, exitCode, watcher, catalog, files, caPath,
                   dataplaneCA, rejects>>

-----------------------------------------------------------------------------

MeshInitStep ==
    \/ Run
    \/ StartWatcher
    \/ WatcherState
    \/ RegisterService
    \/ RegisterProxy
    \/ CopyECSBinaryToSharedVolume
    \/ WriteRPCCACertToSharedVolume
    \/ GenerateAndWriteDataplaneConfig

Next == MeshInitStep \/ StartSidecar

\* No property of this module is about progress: the only unbounded wait,
\* the registration retry, is bounded by MaxRejects here (its unbounded
\* form is examined in AgentMeshInit).
Spec == Init /\ [][Next]_vars

-----------------------------------------------------------------------------
(* Properties.                                                             *)

\* The type invariant (proved in MeshInitProofs).
TypeOK ==
    /\ cfg \in Configs
    /\ pc \in {"start", "meta", "state", "registerService", "registerProxy",
               "copyBinary", "caCert", "dataplane", "exited"}
    /\ exitCode \in {0, 1}
    /\ watcher \in {"none", "running", "stopped"}
    /\ catalog \subseteq {"service", "proxy"}
    /\ files \subseteq {"binary", "caCert", "dataplane"}
    /\ caPath \in {NoCACert, WrittenCACert, ConfiguredCACert}
    /\ dataplaneCA \in {NoCACert, WrittenCACert, ConfiguredCACert}
    /\ rejects \in 0..MaxRejects
    /\ sidecar \in {"waiting", "running"}

\* The sidecar only ever starts against a complete bootstrap: the proxy is
\* registered (and, unless this is a gateway, the service it fronts), the
\* binary and the dataplane config are on the shared volume, and the CA
\* certificate the dataplane config names exists whenever TLS is on
\* (spec 4.2: the artifact writes are fatal because the sidecar cannot
\* start without them).
SidecarStartsOnlyWhenReady ==
    sidecar = "running" =>
        /\ "proxy" \in catalog
        /\ "gateway" \notin cfg => "service" \in catalog
        /\ {"binary", "dataplane"} \subseteq files
        /\ "tls" \in cfg => dataplaneCA # NoCACert
        /\ dataplaneCA = WrittenCACert => "caCert" \in files

\* What the sidecar needs of a run with config c: the proxy registration
\* and, unless c is a gateway, the service's; the binary and the dataplane
\* config; and, when TLS is on with the CA in the environment, the CA file.
Needed(c) ==
    {"proxy", "binary", "dataplane"}
        \cup (IF "gateway" \in c THEN {} ELSE {"service"})
        \cup (IF {"tls", "pem"} \subseteq c THEN {"caCert"} ELSE {})

\* How the run stands: running until Run returns, then its exit code.
RunStatus ==
    IF pc # "exited" THEN "running"
    ELSE IF exitCode = 0 THEN "succeeded" ELSE "failed"

\* The refinement mapping: the produced items are the registrations in the
\* catalog and the files on the volume.
Contract == INSTANCE TaskBootstrap
              WITH Items <- {"service", "proxy", "binary", "caCert", "dataplane"},
                   need <- Needed(cfg), done <- catalog \cup files,
                   status <- RunStatus

\* mesh-init keeps the contract of every mesh-init run: it registers and
\* writes only what its config calls for, never undoes it, exits once, and
\* with 0 only when every registration and artifact the sidecar needs is
\* in place (realRun's steps, the CA write's branches, Fail).
BootstrapSpec == Contract!Spec

=============================================================================
