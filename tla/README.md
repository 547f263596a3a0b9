# Formal models of consul-ecs

TLA+ models of the stateful parts of consul-ecs: the ACL controller
(`src/unnamed/part_003`), the mesh-init command (`src/unnamed/part_001`),
and the agent-API mesh-init (`src/subcommand/mesh-init/command.go`). The
agent-API mesh-init is modelled both on its own and composed with the
controller. TLC checks the models on small instances. TLAPS proves, for
every value of the constants, every safety invariant and action property the
passing runs check except one (`MetaMergedAsConfigured`, see section 4). It
also proves that the controller implements an abstract token-store
specification, and that both mesh-init variants implement one abstract
contract of a mesh-init run.

## 1. The system

**ACL controller** (package `controller`). It runs in its own ECS service and
repeats a reconcile pass over the cluster:

* `TaskDefinitionLister.List` pages through `ListTasks`/`DescribeTasks`.
  It keeps tasks tagged as mesh tasks (`isMeshTask`) and collects their
  families (`parseFamilyNameFromTaskDefinitionARN`, deduplicated). Any
  error aborts the list.
* `TaskDefinitionLister.TokenList` lists every ACL token and reads each one.
  It groups the tokens that carry exactly one service identity by that
  identity's service name. A failed read aborts the scan.
* `TaskFamily.Upsert`, once per listed family, does the following:
  * It reads the family's Secrets Manager secret.
  * If the secret names an accessor ID, it reads that token. "ACL not found"
    counts as absent; any other error aborts.
  * If the token exists, it does nothing.
  * Otherwise it calls `updateServiceToken`: `TokenCreate` followed by
    `UpdateSecret`.
* `DeleteTokenInfo`, for every family that has tokens but is no longer
  listed, deletes the tokens one by one (stopping at the first error). It
  then overwrites the secret with `{}`.

The loop that calls these steps is not under `src/`, so it is modelled from
spec section 4.1: list, upsert each family, then delete the orphans. Errors
are aggregated and the loop repeats. Concurrently, ECS starts and stops
tasks.

**mesh-init** (package `meshinit`). It runs once per task before the sidecar
starts:

1. `Run` loads the config.
2. `realRun` fetches the task metadata and starts the Consul server watcher
   (`go watcher.Run()`, `defer watcher.Stop()`), then waits for its first
   state.
3. It registers the service (not for a gateway) and then the proxy in the
   Consul catalog. Each registration is retried forever with a 1-second
   constant backoff.
4. It copies its binary to the shared volume.
5. It writes the gRPC CA certificate when TLS is on and a PEM is in the
   environment.
6. It writes the consul-dataplane config.

Every other error returns exit code 1. The sidecar container depends on
mesh-init with the ECS condition SUCCESS.

**How the parts interact.** The controller stores a token in the family's
secret. ECS injects that secret into the task, and mesh-init's
login/registration then uses it.

**Agent-API mesh-init** (`src/subcommand/mesh-init/command.go`). This is the
older variant. It runs once per task:

1. It loads the config and requires `mesh.bootstrapDir`.
2. It reads the task metadata.
3. It builds the checks (`constructChecks`). Setting both `checks` and
   `healthSyncContainers` is an error.
4. It merges the task metadata with the user's meta (`mergeMeta`).
5. It registers the service and then the proxy with the local Consul agent.
   Each registration is retried forever with a constant backoff.
6. It writes the `consul connect envoy -bootstrap` output and copies its
   binary.

Its Consul client takes its token from the environment (`api.DefaultConfig`).
That token is the family's secret, which ECS injected when the task started.

## 2. Modules

| Module | Models | Source |
|---|---|---|
| `ACLController` | controller state, one action per step of a pass, ECS task starts/stops | part_003 64-272 |
| `MC_ACLController` | 2 families, 4 tasks (3 mesh), 3 pre-existing tokens | |
| `ACLTokenStore` | abstract spec: what the controller may do to tokens and secrets; TLAPS: `StoreSafe` | part_003 137-146, 219-272 |
| `ACLControllerProofs` | TLAPS: `TypeCorrect`, `Invariance`, `CleanPassSafe`, `DeletesOnlyOrphans`, `Refinement` | |
| `MeshInit` | one action per step of Run/realRun, the sidecar start | part_001 38-168, 327-404 |
| `MC_MeshInit` | at most 2 rejected registrations | |
| `MeshInitProofs` | TLAPS: `TypeCorrect`, `SidecarReady`, `Refinement`, `ProducesOnlyNeeded` | |
| `TaskBootstrap` | abstract contract of one mesh-init run, either variant (spec 4.2); TLAPS: `BootstrapSafe` | spec 4.2 |
| `AgentMeshInit` | agent-API mesh-init: one action per step of Run/realRun | command.go 35-230 |
| `MC_AgentMeshInit` | one config name, one check, one container, two meta keys, one rejection | |
| `AgentMeshInitProofs` | TLAPS: `TypeCorrect`, `RegistersAsConfigured`, `Refinement` | |
| `MeshTaskACL` | `ACLController` composed with one task running `AgentMeshInit` | command.go 58-176, part_003 |
| `MC_MeshTaskACL` | the controller instance with task a2 running mesh-init | |
| `MeshTaskACLProofs` | TLAPS: `TaskTokenOwned` | |

### ACLController

**State.**

* `running`: the tasks ECS runs.
* `live` and `idents`: Consul's tokens and the service identities of each.
* `nextToken`: the next accessor ID Consul will issue.
* `secret[f]`: the accessor ID stored in family `f`'s secret, or 0 for
  `{}`.
* `pc`: the step of the pass.
* `want`: the families `List` returned.
* `have`: `TokenList`'s grouping.
* `pending`: the families still to upsert or delete.
* `errors`: the errors the current pass has aggregated.
* `faults` and `taskChanges`: bounded counters.

**Actions.**

* `List`, `TokenList`, `Upsert(f)` (which includes `UpdateServiceToken(f)`)
  and `DeleteTokenInfo(f)` model the code.
* `EndUpserts` and `EndDeletes` model the loop's phase changes.
* `StartTask` and `StopTask` model ECS.

**How failures are modelled.** Every remote call may fail (`Fault`, at most
`MaxFaults` times). A failure ends the step at the point where the code
returns:

* a failed `UpdateSecret` after `TokenCreate` keeps the token;
* a failed `TokenDelete` keeps the tokens not yet deleted and leaves the
  secret untouched.

**Abstractions.**

* Pagination is folded into one `List` step, because its only effects are the
  resulting family set or an error.
* Secrets, token secret IDs and names are abstracted to accessor numbers and
  families.

`Init` is a state a clean earlier run leaves behind: some tokens exist, and
every family's secret names its only token or is empty. It includes a token
with two identities and a token with none.

### ACLTokenStore (abstract specification)

The store has four variables: `issued`, `live`, `idents` and `secret`. Its
two actions say what the controller may do, leaving the reconcile pass out:

* `Issue(f)`: create a fresh accessor ID with the single identity `f`, and
  maybe publish it in `f`'s secret (`updateServiceToken`; the
  `UpdateSecret` may fail).
* `Revoke(f)`: delete some of the tokens whose single identity is `f`, and
  maybe empty `f`'s secret (`DeleteTokenInfo`, which stops at the first
  failed call).

`ACLController` instantiates it as `TS` with `issued <- 1..(nextToken - 1)`.
`TokenStoreSpec` (= `TS!Spec`) is checked by TLC in `acl_safety` and proved
by `ACLControllerProofs!Refinement`. The store never reuses an accessor ID
and never changes an issued token's identities (lemma `IdentsFixed`), which
is what the composition proof relies on.

### MeshInit

**State.**

* `cfg`: the settings that select a branch (`gateway`, `tls`, `pem`).
* `pc`: the step of realRun.
* `exitCode`.
* `watcher`: none, running or stopped.
* `catalog`: the registrations made.
* `files`: what is on the shared volume.
* `caPath`: what `writeRPCCACertToSharedVolume` returned.
* `dataplaneCA`: the CA path in the dataplane config.
* `rejects`: the registrations Consul rejected so far.
* `sidecar`: waiting or running.

**Actions.** Every fallible call is a disjunct ending in `Fail`. `Fail`
returns 1 and runs the deferred `watcher.Stop`. `Register` is the
RetryNotify loop: an attempt either succeeds, or is rejected and retried.

**Abstractions.** The registration payloads (`construct*Registration`,
`getLocalityParams`, `mergeMeta`) are pure data and appear only as the
entries "service" and "proxy".

### AgentMeshInit

**State.**

* `conf`: the config. It has these fields:
  * `bootstrapDir`: empty or set;
  * `name`: a configured service name, or none;
  * `checks`: the configured checks;
  * `healthSync`: the health-sync containers, as a sequence;
  * `meta`: the user's meta, as a function.
* `token` and `grants`: the task's token, and which names each token may
  register.
* `pc` and `exitCode`: the step of Run/realRun and the exit code.
* `checks` and `fullMeta`: the values realRun computed.
* `agent`: the registrations the agent holds, keyed by ID.
* `files`: what is in the bootstrap directory.
* `rejects`: the transient rejections so far.

**Actions.** `Run`, `PrepareRegistration` (metadata, `constructChecks`,
`mergeMeta`), `RegisterService`, `RegisterProxy`, `WriteEnvoyBootstrap` and
`CopyBinary`. Every fallible call has a disjunct that ends in `Fail` (exit 1).

`Register` is one attempt of the RetryNotify loop:

* an authorised attempt replaces the registration with the same ID;
* a transient error (at most `MaxRejects`) is retried;
* a denied attempt has no step, because the code retries it forever and
  changes nothing.

**Abstractions.** `mergeMeta` is the loop `CopyInto` over an iteration order
chosen by `\E` from `Orders`, because Go map order is unspecified. Check
IDs and registration IDs are tuples of the parts the code formats into a
string.

### TaskBootstrap (abstract contract of a mesh-init run)

The contract has three variables:

* `need`: the items the run's configuration calls for (registrations and
  files);
* `done`: the items produced so far;
* `status`: running, succeeded or failed.

It has three actions:

* `Produce`: one needed item is produced;
* `Succeed`: exit 0, possibly producing the last items in the same step,
  allowed only when every needed item is done;
* `Fail`: exit 1, leaving the produced items behind.

Nothing happens after the exit. Each variant instantiates the contract as
`Contract`, and `BootstrapSpec` (= `Contract!Spec`) is its refinement
property:

* **`MeshInit`.**
  * `need` is `Needed(cfg)`: the proxy, the binary and the dataplane config,
    plus the service unless the task is a gateway, plus the CA file when TLS
    is on and the PEM is in the environment.
  * `done` is `catalog \cup files`.
* **`AgentMeshInit`.**
  * `need` is both registrations and both files.
  * `done` holds the expected service registration (with
    `ExpectedChecks(conf)` and realRun's `fullMeta`) and the expected proxy
    registration, as far as the agent holds them, plus the files.

In both, `status` is derived from `pc` and `exitCode` (`RunStatus`).

### MeshTaskACL (composition)

`MeshTaskACL` extends `ACLController` and instantiates `AgentMeshInit` for
one task `MeshTask` with these substitutions:

* `grants` is `Grants`, the names the live tokens' service identities
  grant;
* the family is the task's family, and the config names no service (so the
  registered name is the family).

The actions are:

* `StartMeshTask`: ECS starts the task, and mesh-init's token is the
  accessor the family's secret holds at that moment.
* `MeshInitStep`: a mesh-init step, with the controller's state unchanged.
* `StopMeshTask` and `OtherTask`: the other task changes.

`MeshTaskAssumption` requires `MeshTask` to be a mesh task. The agent-API
module assumes `TaskId # "sidecar-proxy"`: an ECS task ID is hex, so the
service ID never equals the proxy's ID suffix.
* The controller's steps, with mesh-init's state unchanged.

## 3. Runs

| Run | Checks | Result |
|---|---|---|
| `acl_safety` | `TypeOK`, `CleanPassConverges`, `DeletesOnlyOrphanedOwnedTokens`, `TokenStoreSpec` | pass (about 113K states) |
| `acl_liveness` | `Converges` | pass |
| `acl_two_tokens` | `AtMostOneTokenPerFamily` | violation (finding) |
| `acl_dangling_secret` | `CleanPassNoDanglingSecret` | violation (finding) |
| `meshinit` | `SidecarStartsOnlyWhenReady`, `BootstrapSpec` | pass (250 states) |
| `agent_meshinit` | `RunRegistersAsConfigured`, `MetaMergedAsConfigured`, `BootstrapSpec` | pass (352 states) |
| `agent_meshinit_denied` | `Terminates` | violation (finding) |
| `task_token_owned` | `TaskTokenOwnedByFamily` | pass (about 340K states) |
| `task_token_revoked` | `RunningTaskTokenLive` | violation (finding) |

### The controller properties

* **CleanPassConverges.** After a pass that aggregated no error:
  * every listed family's secret names a live token whose only identity is
    that family;
  * no unlisted family owns a token;
  * every family that had tokens and is not listed has an empty secret.
* **DeletesOnlyOrphanedOwnedTokens** (an action property). A step only
  deletes tokens owned by a single family that the pass did not list. A
  wrong grouping of tokens by identity breaks it. A stale listing does not:
  the property is measured against the pass's own listing, and what a stale
  listing does to a task that started meanwhile is the finding
  `RunningTaskTokenLive`.
* **TokenStoreSpec** (refinement). Every controller step is an `Issue`,
  a `Revoke` or a stutter of `ACLTokenStore`.
* **Converges** (liveness). Once tasks stop changing and faults run out,
  the state is eventually and forever one where every running mesh family
  is served and no other family owns a token.

### Findings (violation runs)

Both findings are divergences between spec section 4.1 and the code.

* **AtMostOneTokenPerFamily.** If `UpdateSecret` fails after `TokenCreate`,
  the next pass creates a second token for the same family. Spec 4.1 says the
  next pass detects the orphan. Nothing deletes it while the family keeps
  running.
* **CleanPassNoDanglingSecret.** If the secret overwrite in
  `DeleteTokenInfo` fails after the tokens were deleted, the family drops out
  of every later pass. Its secret then names a deleted token until the family runs again.

### The mesh-init properties

* **SidecarStartsOnlyWhenReady.** When the sidecar runs:
  * the proxy is registered, and the service too unless this is a gateway;
  * the binary and the dataplane config are on the volume;
  * the dataplane config names a CA when TLS is on;
  * a CA file it names is on the volume.
* **BootstrapSpec** (refinement). mesh-init keeps the run contract:
  * it registers and writes only items its config calls for;
  * nothing it produced disappears;
  * it exits once, and with 0 only when every needed item is in place.

### The agent-API mesh-init properties

* **RunRegistersAsConfigured.** If mesh-init exits 0:
  * the agent holds the service with the checks the config asks for;
  * the agent holds the proxy;
  * both files are written.

  Also, a config with conflicting checks registers nothing.
* **MetaMergedAsConfigured.** If mesh-init exits 0, the registered metadata
  is the task metadata overridden by the user's meta. The iteration order
  within each map cannot change the result, as the keys of one map are
  distinct; what the property tells apart is which map is copied last.
* **BootstrapSpec** (refinement). The agent-API mesh-init keeps the run
  contract: the proxy's registration never replaces the service's, and a
  failed bootstrap or copy after the registrations exits 1 (hazard at
  command.go:146).

### The composition property

* **TaskTokenOwnedByFamily** (`task_token_owned`). The token ECS injected
  into the mesh task has the task's family as its only service identity,
  across controller passes (with one fault), task stops and restarts.

### Findings of the composition and the agent-API variant

* **Terminates** (`agent_meshinit_denied`). The controller gives a family's
  token a service identity for the family. mesh-init, however, registers
  under `mesh.service.name` when that is set. The agent denies that
  registration, and the constant-backoff retry has no limit, so mesh-init
  never exits and the sidecar never starts.
* **RunningTaskTokenLive** (`task_token_revoked`). The controller decides
  the orphans from one `List`. TLC finds this trace:
  1. `List` sees no f1 task;
  2. ECS starts a2 (family f1), and a2 reads token 3 from the secret;
  3. the same pass's `DeleteTokenInfo(f1)` deletes token 3 while a2 runs.

  The next pass creates a new token, but a2 keeps the deleted one in its
  environment.

### Mutants

Each property of a passing run is broken by a plausible bug in the action it
is about. The mutant operators are defined next to their targets:

| Mutant | Breaks |
|---|---|
| secret written before the token is created | TypeOK |
| Upsert trusting the stored accessor | CleanPassConverges |
| TokenList grouping by any identity | DeletesOnlyOrphanedOwnedTokens |
| not-found treated as an error | Converges |
| CA write error dropped | SidecarStartsOnlyWhenReady |
| CA write error dropped | BootstrapSpec (`meshinit`) |
| `constructChecks` keeping only the health-sync checks | BootstrapSpec (`agent_meshinit`) |
| `mergeMeta` with the defaults copied last | MetaMergedAsConfigured |
| `constructChecks` keeping only the health-sync checks | RunRegistersAsConfigured |
| TokenList grouping by any identity | TokenStoreSpec |
| secret written before the token is created | TaskTokenOwnedByFamily |

### Bounds

**Controller instance.**

* Two families, so that one can be served while the other is orphaned.
* Four tasks: two of family f1 (so a family survives one stop), one mesh
  task of f2, and one non-mesh task of f2.
* Three initial tokens: one without identity, one with two identities, and
  one owned by f1.
* Two faults, enough for a failure in one pass followed by a failure in the
  retry.
* Three task changes, enough to start a family and stop it again.
* `MaxTokens` is large enough that token creation never runs out.

**mesh-init instance.** Every config is enumerated. Two rejections make a
retry happen after a retry.

**Agent-API instance.** One configured name besides the family, so both
branches of `constructServiceName` occur. One check and one container, so
that the conflicting and each single configuration occur. Two meta keys:
`task-id`, which the user's meta can override, and `team`, which it adds.
Meta has one value, so an override is visible against the task ID. One
rejection gives one retry. Bigger sets only repeat these cases.

**Composition.** The controller instance above and a2 as the mesh-init
task. `task_token_revoked` runs without faults (the finding needs none);
`task_token_owned` allows one fault, so a token can be created without its
secret being updated.

### Fairness

**Controller.** `WF_vars(Controller)`: the reconcile loop runs forever on
its own goroutine. ECS task changes get no fairness.

**mesh-init.** No fairness: its properties are safety properties. Its
registration retry is bounded by `MaxRejects`, so a termination property
would only restate that bound; the unbounded retry is examined in the
agent-API variant.

**Agent-API mesh-init.** `WF_vars(Next)`: Run is sequential and runs to
completion unless it waits in a retry loop. This fairness is what makes the
`agent_meshinit_denied` violation a real non-termination rather than a
stutter. In the composition, the controller loop and the task's steps
are each weakly fair.

## 4. Proofs

All theorems hold for every value of the constants that satisfies the
modules' `ASSUME`s (`TasksAssumption`, `BoundsAssumption`,
`InitIdentsAssumption`, `MeshTaskAssumption`, `AgentMeshInitAssumption`).
Each invariant was TLC-checked as an invariant of a run before its proof
was written.

* **`ACLControllerProofs`.**
  * `TypeCorrect`: `TypeOK` is inductive; lemma `FaultTypeOK` covers the
    error bookkeeping.
  * `Invariance`: `Spec => []IInv`. `CleanPassConverges` is not inductive,
    because it speaks only of the end of a pass, and the end must find the
    work of the earlier phases done. `IInv` adds:
    * `HaveOwned`: `TokenList`'s grouping only holds issued tokens owned by
      the family they are grouped under;
    * `SecretsOwned`: a non-empty secret names a token owned by its family;
    * `PendingPhase`: during upserts the pending families are listed ones,
      during deletes unlisted ones;
    * `CleanUpsert` and `CleanDelete`: while the pass has no error, the
      families already handled are served (upsert phase) or emptied
      (delete phase), and the unlisted families' tokens are exactly the
      grouping.
    One lemma per action (`UpsertIInv`, `DeleteTokenInfoIInv`, ...)
    proves it preserved.
  * `CleanPassSafe`: `Spec => []CleanPassConverges`, from `IInv`.
  * `DeletesOnlyOrphans`: `Spec => DeletesOnlyOrphanedOwnedTokens`. Lemma
    `StepDeletesOrphans` shows from `HaveOwned` and `PendingPhase` that a
    step deletes only tokens of an unlisted family.
  * `Refinement`: `Spec => TokenStoreSpec`. `Init` maps to `TS!Init`, and
    under `IInv` every step maps to an `Issue`, a `Revoke` or a stutter
    (lemma `StepRefines`): `UpdateServiceToken` takes the fresh ID
    `nextToken`, and `DeleteTokenInfo` deletes only `have[f]`, which
    `HaveOwned` shows to be owned by `f`.
* **`ACLTokenStore!StoreSafe`.** In the abstract store every secret names
  a token owned by its own family (inductive invariant `StoreInv`, given
  that the empty accessor is not an ID). Lemma `IdentsFixed`: a step never
  changes the identities of an issued ID.
* **`MeshTaskACLProofs!TaskTokenOwned`.** `SysSpec => []TaskTokenOwnedByFamily`.
  The invariant adds that the task's token is an ID already issued. Every
  composed step is a controller step or a stutter (`SysNextIsNext`), so
  `IInv` is preserved. `StartMeshTask` copies a secret, which `SecretsOwned`
  shows is owned by the family. Every other step keeps the token, and by
  `StepRefines` and `IdentsFixed` keeps its identities.
* **`MeshInitProofs`.** `SidecarReady` and `TypeCorrect`
  follow from the inductive invariant `IInv`. `IInv` states, for each
  point realRun can be at, what the earlier steps left behind (the watcher
  is not started before `"state"`, the service is registered before the
  proxy, both before the copy, and so on).
  * `Refinement`: `Spec => BootstrapSpec`. The refinement needs `RInv`,
    which is `IInv` plus two facts:
    * a gateway never reaches `registerService`, so a registered service is
      a needed item;
    * with TLS and the PEM, the dataplane step finds the CA written, so the
      success step finds every needed item.

    Every realRun step maps to a `Produce`, a `Fail` or a stutter (lemmas
    `ProduceRefines`, `FailRefines`, `StutterRefines`), and the dataplane
    write to `Succeed`.
  * `ProducesOnlyNeeded`: `Spec => []Contract!Delivered`, from
    `Refinement` and the abstract `TaskBootstrap!BootstrapSafe`. It follows
    that no service is registered for a gateway, and no CA file is written
    without TLS and the PEM.
* **`AgentMeshInitProofs`.** `TypeCorrect` (lemma `RejectsTypeOK` bounds the
  retry counter), and `RegistersAsConfigured`: `Spec => []RunRegistersAsConfigured`.
  Its `IInv` records, per step, that the checks were built by
  `ConstructChecks` and that the service and proxy registrations are held.
  Lemma `ServiceNotProxy` uses `TaskId # "sidecar-proxy"`, so that
  registering the proxy never replaces the service.
  * `Refinement`: `Spec => BootstrapSpec`, from `RInv`, which is `IInv`
    plus one fact: nothing is registered before `fullMeta` is computed
    (the expected registrations carry it). Lemma `ExpectedIds` gives the
    two expected registrations distinct IDs, so registering one leaves the
    other's membership unchanged.
* **`TaskBootstrap!BootstrapSafe`.** In the contract, a succeeded run has
  produced every needed item, and no run produces anything else. Its
  invariant `Delivered` is inductive as it stands.

The following stay with TLC only:

* liveness (`Converges`, and the violated `Terminates`), because
  TLAPS does not reason about fairness or `ENABLED`;
* `MetaMergedAsConfigured`. `mergeMeta` is modelled as the recursive
  function `CopyInto` over an iteration order. That it computes the same map
  for every order is a statement by induction over the order. The
  library's induction theorems take an operator parameter, which the
  installed provers cannot instantiate.

## 5. Not modelled, and the plan

* **Agent-API mesh-init.** `MetaMergedAsConfigured` is not proved (see
  section 4). The `consul connect
  envoy` output is an opaque file.
* **Payload builders** (`constructGatewayProxyRegistration`,
  `getLocalityParams`, `constructServiceName`). Next: pure operators checked
  against the examples in the spec.
* **List pagination and dedupe.** Next: an operator over page sequences,
  checked against the set comprehension `MeshFamilies`.
* **Later proofs.**
  * mesh-init's own invariants inside the composition. There, a task
    restart begins a fresh run, so the single-run contract applies to each
    run between two `StartMeshTask` steps rather than to the whole
    behaviour.
* **Out of scope.**
  * the documentation generator (part_002), which has no state;
  * terraform, the Makefile and go.mod, which are build and infrastructure;
  * the tests (part_000, `config/validate_test.go`), which were read for the
    expected behaviour.
