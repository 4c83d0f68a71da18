# A formal model of pytest-inmanta-lsm

pytest-inmanta-lsm tests inmanta modules that define services. It does so in
two ways: against a mocked service inventory in the test's own process
(`LsmProject`), and against a real orchestrator (`RemoteOrchestrator` and the
clients built on it). The modules here are TLA+ models of that code, checked
with TLC on small instances; the properties that matter most are proved with
TLAPS for every value of the constants. Paths below are relative to
`src/src/pytest_inmanta_lsm/`.

## 1. Inventory

### The mocked side (one thread, no network)

| Component | State | Operations | What makes it correct |
|---|---|---|---|
| Service lifecycle driver, `lsm_project.py:842-1057` | the inventory `services` (state, version, desired state version, three attribute sets), `partial_compile` | `create_service`, `update_service`, `auto_transfer`, `exporting_compile` | only validated attributes become active; every change of desired state is exported, or its export failed; a call in which a compile failed raises; a call ends, and one that returns has nothing left to follow |
| Ownership and resource sets, `lsm_project.py:759-840` | none (reads the inventory) | `get_owner`, `get_owner_root`, `get_resource_set` | one root per tree, found from every member; a cycle and a relation that holds no uuid are reported, a root never taken for one; the walk ends |
| Attribute sets behind the mocked api, `lsm_project.py:56-131, 479-552` | three dicts of a service | promote, rollback, clear, `update_attributes`, `update_attributes_v2` | only candidate attributes change in place, whatever of an update is applied |
| Validation of exports, `lsm_project.py:134-262, 1239-1349` | `shared_resource_set` (what was ever exported as shared) | `post_partial_compile_validation` | a shared resource never changes and never becomes owned; the emitted sets are those of the exporting services |
| Service catalog, `lsm_project.py:554-757` | `service_entities`, `service_entity_versions`, `model` | export, create, update, `get_service_entity` | the catalog shows one model, never a mixture of two; a service that was accepted stays resolvable until the next export |
| Compile cache, `compile_cache.py` | the cached program and its key, the compiler's global state | `do_compile` (cold or warm), reset | a warm compile gives what a cold one would |

### The remote side (asyncio, an orchestrator that moves on its own)

| Component | State | Operations | What makes it correct |
|---|---|---|---|
| Service instance client, `remote_service_instance_async.py` | the instance id; in a wait, the last version looked at | `create`, `update`, `delete`, `set_state`, `wait_for_state` | a wait reports the first version that decides, skips none, ends |
| Order client, `remote_order_async.py` | items, order id, created flag | `add_*`, `create`, `wait_for_state` | a bad or late order is reported as such, with its report |
| Legacy client, `managed_service_instance.py`, `wait_for_state.py` | the previous state of the poll | the same operations, synchronous | as above; it has weaker waits |
| Scenario runner, `util.py` | a semaphore, one task per scenario | `execute_scenarios` | every scenario runs, at most n at once, all failures are raised |
| Project folder on the orchestrator, `remote_orchestrator.py:673-960` | the remote project folder and its cache | sync, cache and restore libs, soft and hard clear, install | a clear never loses the project or leaves half of it |
| Environment, `remote_orchestrator.py:57-179` | none (the orchestrator's environments and projects) | `configure_environment` | an environment gets its name and project at once, or keeps those it had |
| Deployment waits, `remote_orchestrator.py:962-1128`, and `retry_limited`, `__init__.py` | none (polls the orchestrator's versions) | waits for released, scheduled, deployed | a wait that returns is about the version it was asked for; it ends |
| Container, `orchestrator_container.py` | a temporary folder with the compose file, the containers | up, down, context manager | the containers are removed unless asked otherwise, and never lose their compose file |
| Fixtures, `plugin.py` | one shared orchestrator per session | setup and teardown | every test starts from a clean environment; a session without errors leaves what its options ask for |
| Load generator, `load_generator.py` | a thread and its `running` flag | start, stop, `create_load` | stops when asked, its failure is reported |

### Interaction

A test drives `LsmProject`, whose transfers run compiles of the module under
test; the compile calls back into the mocked api (`monkeypatch_client`) to read
the inventory and to allocate attributes. Against a real orchestrator, several
scenarios run concurrently in one event loop; each one sends requests and polls,
while the orchestrator moves every service on its own between any two requests.
Scenarios share nothing but the orchestrator, its project folder and a
semaphore.

### What is hard here

* exceptions: a compile raises anything, at several points of a transfer, and
  handlers do state changes of their own;
* the callback of a compile into the inventory that triggered it;
* attribute sets that are edited in place, one edit after the other;
* polling: short-lived states between two polls, answers that are outdated when
  used, a timeout that races with the answer;
* failure reports that themselves send requests, inside exception handlers;
* partial failures of operations made of several commands or requests: the
  remote project folder, the configuration of an environment, the containers,
  the export of a catalog;
* other developers, who use the same orchestrator between two requests;
* a thread that is told to stop between its check and its request.

Every such place is listed with its line under "hazards" in `PROJECT.json`.

## 2. Modules

One module per component, written from the code with the code's names, one
action per step that the code does without letting anything else happen: a
method up to its next request, compile or `await`. `PROJECT.json` maps each
definition to the lines it stands for; definitions marked external are the
orchestrator, the compiler or the test, as far as the code relies on them.
`update_service` gives a service a new state without a new version
(`lsm_project.py:1034-1039`), and so does the model, also when `add_defaults` then
raises (`UpdateServiceFails`).
Definitions under a comment `Mutant:` are wrong on purpose. No behaviour uses
them; they show, put in place of the definition next to them, that a property
notices the mistake.

| Module | Code | State and actions |
|---|---|---|
| `LsmProject` | `lsm_project.py:842-1237`, attribute operations at 56-131 | `services` is the inventory. `call` and `pc` are the Python stack of a running call: the transfer in hand, the branch it is on, the exception its handler holds. Actions are the calls a test makes, the turns of the loop, the outcomes of a validating or exporting compile, and `UpdateAttributes` and `UpdateAttributesV2`, the callbacks from inside a compile, the second of which may fail after none or some of its edits. |
| `OwnerWalk` | `lsm_project.py:759-831` | `root` and `visited` as in the code; from the call on, one action per turn of the `while` and one per way out. `uuid.UUID(str(...))` is `ToUuid`: it fails for `NoIds`, as what the walk is called for or as the value of a relation. |
| `SharedResources` | `lsm_project.py:134-262, 1239-1349` | `sharedSet` is `shared_resource_set`; `pc` says which of the two validations of `post_partial_compile_validation` is running. |
| `CompileCache` | `compile_cache.py` | The cache (`states`, `warmSchedulers`), and what a compile leaves in the process (current project, typed and used programs, dataclass pairing, loaded modules). |
| `ServiceWait` | `remote_service_instance_async.py` | `log` is the service on the orchestrator, which moves in `ServerMoves`. The others are the locals of one operation: one action per request, one for each outcome of the handling of a reply. |
| `LegacyWait` | `managed_service_instance.py`, `wait_for_state.py` | Extends `ServiceWait`, whose requests it makes, with the loop of the older client: other lookups, another order of checks. |
| `ServiceClients` | the two clients of one service | One service, and a test that uses one client or the other on it. |
| `WaitVerdict` | none: the promise | What a wait for a state may report, whatever its polls; `ServiceWait` implements it, and so does `LegacyWait` where it has a start version. |
| `RemoteOrder` | `remote_order_async.py` | `items`, `orderId` and `created` are the order object, shared by the tasks; `pc` and `wait` the locals of each task's call. |
| `Scenarios` | `util.py` | The state of each scenario's task, the semaphore with its queue, the shared timer. |
| `ProjectFolder` | `remote_orchestrator.py:673-960`, `plugin.py:415-598` | `disk` is the remote project, its cache and the temporary folder. A task is a `script` of shell commands, run one part at a time by `Step`, or cut short by `StepFails` or `Crash`. |
| `ServiceCatalog` | `lsm_project.py:327-340, 554-757, 924-998, 1059-1080` | `model`, `entities` and `versions` are the attributes of `LsmProject`; `pending` is what the lsm module's exporter has still to send; `services` the inventory, with what a service names. |
| `DeploymentWait` | `remote_orchestrator.py:962-1128`, `__init__.py` | `exported`, `released`, `active` and `status` are the orchestrator's versions. `pc` is what is polled for, `Retry` the loop of `retry_limited`. |
| `OrchestratorContainer` | `orchestrator_container.py:190-439` | The temporary folder, the containers, and where the `with` statement is. |
| `Environment` | `remote_orchestrator.py:57-179` | The environment and the projects on the orchestrator, and the locals of `configure_environment`, request by request. |
| `LoadGenerator` | `load_generator.py` | `running`, `exception` and the thread; the `with` statement of the test. |
| `Session` | `plugin.py:148-598` but for the project folder | Composes the three above: `stage` is the fixture that runs. `Container` and `Generator` are instances that share its variables, `Environment` it extends. |
| `ScenarioPromises`, `DeploymentPromises`, `FolderPromises` | none: promises | The properties of `Scenarios`, `DeploymentWait` and `ProjectFolder`, and the assumptions on their constants. The component is an instance there (`Runner`, `Deployment`, `Folder`), so that proofs can take several components together although each has its own `Init`, `Next` and `Spec`. |
| `LsmProjectProofs`, `OwnerWalkProofs`, `SharedResourcesProofs`, `CompileCacheProofs`, `ServiceCatalogProofs` | | Theorems about the module each is named for. |
| `ServiceWaitProofs` | | Theorems about `ServiceWait`, `LegacyWait` and `WaitVerdict`, in `ServiceClients`. |
| `ScenarioProofs` | | Theorems about `RemoteOrder` and `Scenarios`. |
| `OrchestratorProofs` | | Theorems about `Session` (with `OrchestratorContainer`, `Environment`, `LoadGenerator`), `DeploymentWait` and `ProjectFolder`. |
| `MC*` | | The instances for TLC. |

`WaitVerdict` is the abstract specification: a service only gets new versions,
a waiter learns longer prefixes of its log, and its verdict is that of the
first version after its start that decides. `ServiceWait!ImplementsVerdict`
instantiates it with a mapping (`Waiting`, `known`, `outcome`): a poll is a
`Learn`, the request that changes the service and starts the wait is one
`Start`, `Decide` is `Report`, for a bad state only once `ReportFailure` has
ended the diagnosis, whose requests may still fail (`Fail`).
`LegacyImplementsVerdict` is the same for `LegacyWait`, for waits with a start
version, without a target version and for a state that is none of the bad ones:
the legacy loop looks at the newest state
first, keeps quiet while that is the start version, and goes over a version
again that it already knows, and still reaches the same verdict. A wait without
a start version (`create`, or a plain `wait_for_state`) and one for a given
version (whose mismatch it raises) promise less, and so does one for a
bad state: of a version in a state that is both, the older client says that it
is reached, the newer one that it is bad.

### Assumptions about what is outside

* A compile (of the model under test) ends. It may raise anything, and may
  update candidate attributes through the mocked api; its only other effect on
  the inventory is what `auto_transfer` does with its outcome.
* The orchestrator takes an update for the current version of a service only,
  answers `history` with the versions since the one given, inclusive, and never
  rewrites a version.
* An order ends once all its items have: `success` if all completed, `failed`
  if all failed, `partial` otherwise. An order id is accepted once.
* State changes made by a test itself (`MoveByHand`) are those of
  `examples/quickstart/tests/test_quickstart.py`; the service version grows,
  the desired state version does not.
* `environment_clear` deletes the project folder and no other place.
* A sync of modules, which is one rsync per module in the code, has happened or
  not: it is one part of a command.
* A cancelled scenario ends, with or without an exception.
* The lsm module's exporter sends each binding once, in any order, and may fail
  between two calls; `ServiceCatalog` has its calls, not its code.
* Versions are exported in order; the newest released one gets active; a
  resource that a version does not change keeps its status.
* pytest tears down the fixtures that were set up, whatever failed; a fixture
  that has not yielded is not torn down.
* `docker compose down` on a lab leaves nothing if it succeeds, and anything if
  it fails; `pull` and `ps` change nothing.
* The other developers rename environments, move them, protect them and add
  projects; they delete nothing.

## 3. Runs

"Pass" runs have to finish without error; each of their properties has a mutant
of the code that breaks it. The "violation" run refutes a sentence of the
repository about the code.

| Run | Instance | What it shows |
|---|---|---|
| `lsm_project` | two services, two values, five calls of the test; the lifecycle of `MCLsmProject`: creation and update validated and promoted, a rollback | `ActiveWasValidated`, `SettledOnReturn`, `ExportFollowsInventory`, `NoSilentFailure`, `CallEnds` |
| `lsm_project_key_error` | one service, two calls, compiles may raise `KeyError` | **violation** of `SettledOnReturn` |
| `owner_walk` | every inventory of three ids, and a value that is no id | the root found is the only one reachable; `ValueError` only if a cycle or a value that is no uuid is in the way; the walk ends |
| `service_wait` | one service of up to three versions, three states, two targets of which one is a bad state too, two clients | no bad state is skipped or reported late, own transitions are never missed, the waits of both clients implement `WaitVerdict`, every operation ends |
| `remote_order` | two tasks, two calls, two orders of two items together | success means all items are done; the reports explain the verdict although they look at a newer order; every call ends |
| `project_folder` | two versions of a project, two modules | an export or a clear that succeeds leaves the right project, whatever earlier tasks left half done; sessions start clean; libs are cached |
| `scenarios` | three scenarios, no limit, one or two at a time, sequential or not | slots are never lost or wasted, the execution ends, also by its timeout |
| `shared_resources` | two resources, two sets, two hashes | a shared resource accepted once never changes and is never accepted as owned |
| `compile_cache` | two models with two texts each, five programs, two scheduler ids | a warm execution starts as a cold one; nothing is typed twice |
| `service_catalog` | two names, two versions, two services, ten models | the catalog is that of one model, whatever failed; an accepted service resolves until the next export; nothing but an export takes its entity away |
| `deployment_wait` | two versions, two resources, both apis | a wait that returns saw all resources of its version done, unless another version got active meanwhile; a wait for a version that was superseded before it got active does not return; a wait ends |
| `session` | an environment with or without each of the two names, every option, one test, one edit by another developer, two tries to reach the server | the containers keep their compose file; an environment is configured at once or not at all; a session without errors leaves what was asked for; the load stops; the session ends |

The type invariants are proved (section 4) and need no run. `OrchestratorContainer`,
`Environment` and `LoadGenerator` have none of their own: the types of their
variables are part of the invariant of the session.

### Bounds, and why they are enough

* `lsm_project`: `MaxCalls = 5` covers create, update, failed update, rollback
  and another update of one service, or the same spread over two services with
  a partial export in between. Two ids tell "my service" from "the others", two
  values tell two updates apart. No cycle of AUTO transfers is in the
  lifecycle, so `version` and `desired` stay bounded by the calls.
* `owner_walk`: three ids give paths of length two, cycles of one, two and
  three, a tail into a cycle and two services under one owner. No other bound.
  An id of `Ids` need not be in the inventory: dangling relations are included.
* `service_wait`: `MaxVersion = 3`, from a start version 1: a short-lived state
  and the decisive version, or that one and another after it, within one poll or
  split over two. Operations follow one another without a bound. Longer logs are
  the theorems' (section 4), but for `EitherOperationEnds`; with `MaxVersion = 4`
  the run passes as well, it only takes minutes.
* `remote_order`: `MaxCalls = 2` is a create and a wait at the same time, two
  creates, or one call after the other. `MaxOrdered = 2`: one order of two items,
  which can end in `partial`, or two orders of one item each. The second order is
  that of a create after a lost reply, or of two tasks that create at the same
  time. `Batches`: one item, or two, are added or given to `create` at a time.
  `ChosenIds`: the scenario chooses the id, or leaves it to the orchestrator.
* `project_folder` has no bound on sessions, tasks or failures: its state space
  is finite. Two versions tell the local project from an older one, two modules
  leave a lib that the local project no longer has.
* `scenarios`: three scenarios and up to two slots: one runs, one ends, one
  waits.
* `shared_resources` and `compile_cache` have no bound on the number of exports
  and compiles. Five programs are all that can be in use for four keys at a
  time, plus one that is loading; ids of schedulers are reused as soon as their
  scheduler is gone.

* `service_catalog` has no bound on exports, failures and calls. Its models drop
  versions, drop names and change defaults.
* `deployment_wait`: `MaxVersions = 2`, the version one waits for and a newer
  one, which is exported, released and scheduled at any time in between. Waits
  follow one another without a bound.
* `session`: `MaxEdits = 1`, one edit by the others is enough to come between
  any two requests. `MaxTests = 1`: a test leaves nothing behind for another
  but the inventory and the load, which the properties look at when the session
  ends. `MaxTries = 2` for the ten tries of the code: one that fails, and the
  last one. Two names: the default one and another; what is asked for is the
  other one or nothing.

`CHECK_DEADLOCK FALSE` stands where the system really stops: after the last
call allowed (`lsm_project`, `remote_order`), at the end of a walk, of an
execution of scenarios or of a session, or when the service has its last version.
Symmetry is used without liveness properties only.

### Fairness

* `LsmProject`: weak fairness of `CallStep`, a call runs in the thread of the
  test and a compile ends. None on the test or the callback.
* `OwnerWalk`: weak fairness of `Next`, it is a loop without a wait.
* `ServiceWait`: weak fairness of `ClientStep` and `TimeElapses`. The coroutine
  is scheduled, each request is answered or fails (the code awaits them without a
  timeout of its own and relies on that of the http client), time goes by. None
  on the orchestrator: a service that never moves is the case the timeout is for.
* `RemoteOrder`: the same for each task. Failures are left out of the fair
  step, so that no call ends only because a request had to fail at last (but
  for those the orchestrator refuses: a create with an id in use, a wait for an
  order that does not exist).
* `Scenarios`: weak fairness of the event loop (`Step`) and of the timer. That
  scenarios end by themselves is not assumed, but the premise of
  `ExecutionEnds`; `EndsAfterTimeout` does without.

* `DeploymentWait`: weak fairness of the client and of its timer; nothing has to
  happen on the orchestrator.
* `ServiceClients`: as `ServiceWait`, for the client in use.
* `Session`: weak fairness of `FixtureStep` (pytest goes on, commands and
  requests end, well or not; a test that is not left to the load generator ends)
  and of `LoadRuns` (the thread gets its turns). `LoadBreaks` is part of
  `LoadRuns`, but never the only step there is while the thread runs. None on
  the other developers, the developer who interrupts, or what a test does.

The other modules state no liveness.

## 4. Proofs

TLAPS checks the theorems below for any values of the constants that satisfy
the named assumptions of the modules. The properties they are about are those
of the runs above, with two exceptions: the type invariants, which no run lists,
and `PathSharesTheRoot`, which comes with the proof of `RootIsTheOnlyOwnerless`.

### `OwnerWalkProofs`

`TypeCorrect`, `RootCorrect` (`RootIsTheOnlyOwnerless` and `PathSharesTheRoot`)
and `ValueErrorCorrect` (`ValueErrorIsReal`), for any set of ids, any values that
are none, and any inventory. `Reach`, the set of ids one reaches by following
owners, is defined without the walk, as the smallest closed set.
`RootIsTheOnlyOwnerless` is not inductive: it says nothing before the walk has
ended. `PathInv` says what the walk has so far: everything visited is reachable
from the start, every visited id but the current one has a visited owner, and
the current one is reachable from all of them. At the end `VisitedIsReach`
closes the gap: if the last id has no owner, or one already visited, then the
visited ids are closed, hence all that is reachable.

### `LsmProjectProofs`

| Theorem | Property | Assumes | Argument |
|---|---|---|---|
| `TypeCorrect` | `TypeOK` | nothing | one step per action |
| `OnlyValidatedIsActive` | `ActiveWasValidated` | `GuardedLifecycle` | `ValidatedInv`: the active and the rollback attributes are approved, and the candidate ones are when the service is in a state that promotes without validating |
| `ReturnsWhenSettled` | `SettledOnReturn` | no compile raises `KeyError` | `SettledInv`: a running call has no result yet, and no `KeyError` is in flight during an export, so the one that ends the loop is that of `NoTransferLeft` |
| `FailureIsRaised` | `NoSilentFailure` | no compile raises `KeyError` | `FailedInv`: once a compile has failed, the call is between calls and has raised, or it runs the export of an error branch, with that failure as the exception it will raise |
| `ExportIsUpToDate` | `ExportFollowsInventory` | `HonestLifecycle` | `ExportInv`: the last export shows a service, or it has missed one, or its export is running; and nothing is emitted for a service not yet created |

`TransferInv` supports two of them: the transfer a handler uses is the one the
validation was started for.

The assumptions are about the lifecycle, which the module under test gives, not
about `LsmProject`:

* `GuardedLifecycle`: a state that promotes without validation is only entered
  through a validating transfer. Otherwise the lifecycle itself activates
  attributes nobody validated.
* `HonestLifecycle`: a transfer marked as keeping the desired state changes
  nothing that an export shows. The code trusts the marks.
* No `KeyError` from a compile: without it `lsm_project_key_error` is the
  counterexample.

`MCLsmProject` has TLC evaluate the first two for the lifecycle of the runs.

### `SharedResourcesProofs`

`TypeCorrect`, `SharedIsStable` and `SharedIsUnowned`, for any resources, sets
and hashes. `MemoryInv`: whatever was accepted is in the memory with the same
hash, and after a validation that passed no owned resource is. The memory also
holds resources of exports that were rejected, so it is not equal to what was
accepted, and needs not be.

### `CompileCacheProofs`

`TypeCorrect`, `WarmIsCold` and `NeverTypedAgain`, for any models, programs and
scheduler ids. `ExecutesAsCold` only speaks of the moment an execution starts.
`RegistryInv` says that the registry holds the scheduler of the running warm
compile and no other, so that an id reused by a cold compile is not found in
it; `CacheInv` that each program is kept under the model it was loaded for and
that all compiled ones are; `CurrentInv` that the current project is that of
the running compile, compiled already if and only if the compile is warm;
`CleanInv` that its graph and modules are clean from the reset or the load on.

### `ServiceCatalogProofs`

`TypeCorrect`, `CatalogShowsTheModel`, `AcceptedResolve` and
`OnlyExportsUnresolve`, for any names, versions, models and services.
`CatalogIsTheModels` says nothing of what the exporter has still to send; the
inductive invariant `CatalogInv` adds two parts. `Progress`: while the exporter
runs, a name of the model is in the catalog or pending, and no service is
accepted. `FreshAreDefined`: the entity and the version that a service accepted
since the last export asked for are in the catalog. With them
`FreshServicesResolve` follows. `OnlyAnExportUnresolves` is an action property,
by the same argument for one step.

### `ServiceWaitProofs`

For any states, targets, bad states and number of versions. Two waits are in
`ServiceClients`, and the proofs take each one alone: a step of the other client,
or of the orchestrator, appends at most one version to the log and leaves the
locals of the wait as they are (`Elsewhere`, `LegacyElsewhere`).

| Theorem | Property |
|---|---|
| `TypeCorrect` | `TypeOK` |
| `BadStatesAreReported` | `BadStateNeverHidden` |
| `OwnTransitionIsSeen` | `OwnTransitionSeen` |
| `AsyncImplementsVerdict` | `ImplementsVerdict` |
| `LegacyClientImplementsVerdict` | `LegacyImplementsVerdict` |

`BadStateNeverHidden` speaks of the verdict only, which says nothing while the
wait goes on. `WaitInv` adds `NothingMissed` (the versions from the start to
`lastVersion` decide nothing), `VerdictIsNext` (the verdict is that of the next
one, or the timeout's, when all that was seen has been gone through) and
`OwnTransitionThere` (the version after the start of a `set_state` is the one it
made, and every reply has it). The refinement follows step by step: a poll is a
`Learn`, the verdict of `VerdictIsNext` is what `Report` gives.

The legacy loop looks at its newest version first, and at one it already knows
again, so `NothingMissed` is not enough. `LegacyInv` says that what a state
means is the same in whatever version it comes, and that the verdict is that of
the first version that means anything. `FirstToDecide` names that version, and
the refinement maps the verdict to it. `DefaultAssumption` is needed: the loop
starts with the string `"default"` as the last state it knows, which must be no
state that is waited for, nor a bad one.

### `ScenarioProofs`

For any tasks, items, order ids and number of calls, `TypeCorrect` proves the types
of `RemoteOrder`, and `SuccessIsDone`, `BadStateHasItsItem` and `TimeoutHasItsItems`
its three invariants. What a task was told must stay true while the orchestrator
and the other tasks go on, tasks that create the order at the same time included.
`TypeInv` adds to the types that a report is about an order that exists
(`Reported`). `OrderInv` says what an order tells (`OrdersTell`: the status
`success` or a bad one tells of its items), and for each task what its call has
established so far (`Underway`, `Reporting`, `Told`). The invariants are about
tasks whose order id was not replaced by another create's answer (`OwnOrder`); a
replaced id never comes back, as it is that of an order that exists (`Underway`),
and the one that replaces it is new (`IdMoves`). `Progress` is the one fact about
everybody else's steps: an order stays, with its items, and an item that has
ended does not change. A report is about a newer state than the verdict, so
`Reporting` says that whatever had failed then has still failed now.

For any number of scenarios and any limits (`CountAssumption`,
`LimitsAssumption`), `RunnerTypeCorrect`, `RunnerKeepsTheLimit` (`SlotsAccounted`) and
`NobodyWaitsInVain` (`NoSlotWasted`) are about `Scenarios`, by `ScenarioPromises`.
`RunnerInv`: the queue has scenarios that wait, each once, and only until the
timeout cancels them (`QueueInv`); of a sequential run a scenario starts after
those before it (`TurnInv`); running scenarios and free slots add up to the limit
(`SlotsInv`).

### `OrchestratorProofs`

| Theorem | Property | Assumes |
|---|---|---|
| `LabKeepsItsFolder`, `OneStepConfigures`, `SessionEndsAsAsked`, `LoadStops` | `LabHasItsFolder`, `ConfiguredAtOnce`, `EndsAsAsked`, `LoadIsBounded` | `NamesAssumption`, `NothingAssumption` of `Environment` |
| `DeploymentTypeCorrect`, `ReturnedIsDeployed` | `TypeOK`, `ReturnedMeansDeployed` | `MaxVersionsAssumption`, `UnsetAssumption`: None is neither a version nor a state |
| `SupersededIsNotReturned` | `SupersededNeverReturns` | as above, and at least one resource |
| `FolderTypeCorrect`, `ExportLeavesTheLocal`, `SoftClearRestores`, `SessionsDoNotMix`, `SessionEndCachesLibs` | `TypeOK`, `ExportIsLocal`, `SoftClearKeepsProject`, `SessionStartsClean`, `LibsAreCached` | `NoFolderAssumption`: None is neither a version nor a folder |

* `SessionInv`: `ContainerInv` says where in the `with` statement the folder and
  the containers are; `LoadInv` that a request that is about to be sent is the
  first since the flag was reset, and that a thread joined in time has ended;
  `EnvironmentInv` that what was read is still there if nobody else changed it
  (`Configuring`), and that the update makes of it what is wanted; `StageInv`
  what the session has cleaned up at each stage, if nothing failed so far.
* `DeploymentInv`: a version's resources have no status before it gets active
  (`VersionsInv`); each kind of wait goes through its own phases (`PhaseInv`),
  each of which leaves something to the next (`PastInv`): in the last phase the
  version was active, and if it still is, its resources have ended. `ReturnInv`
  keeps what was established after the wait, while versions go on. The lemmas of
  the orchestrator's steps say what it never undoes: a version that was scheduled
  stays so, and the newest scheduled one is the active one.
* `FolderInv`: the script is what is left of the task's commands from some
  position, and the disk fits that position (`ScriptInv`, `Fits`). Failures and
  crashes end the task anywhere, so at position 1 `Fits` knows nothing of the disk
  but what holds always: no folder is nested in another (`TidyDisk`), and the
  libs of the last session that ended well stay in the cache until the next one
  moves them (`CachedInv`).

The hypothesis of at least one resource is real. With the old api the wait polls
`is_deployment_finished`, which compares the number of resources that are done
with their total (`remote_orchestrator.py:1082`): a version without any is
finished before it is released.

TLC has checked each of these invariants, as an invariant of the instance of its
module, before it was proved.

### Only model-checked

Every invariant and action property of the passing runs, and both refinements,
are stated by a theorem. What is left to TLC is liveness (`CallEnds`, `WalkEnds`,
`EitherOperationEnds`, `CallsEnd`, `ExecutionEnds`, `EndsAfterTimeout`,
`WaitEnds`, `SessionEnds`): it rests on fairness and `ENABLED`, which the prover
does not reason about.

## 5. Where the code and what is said of it differ

The first one has a run that shows it.

1. **A `KeyError` ends the loop of transfers** (`lsm_project.py:1005`,
   `lsm_project_key_error`). `create_service` and `update_service` take any
   `KeyError` for "No more auto transfer to follow", one raised by a compile
   included. The failed validation is hidden, and the service is returned with
   a transfer left.

The others were met while modelling. The models do what the code does there, no
run is about them.

2. **A task is told of the success of another's order**
   (`remote_order_async.py:716-739`). `create` checks `_created` before its
   request and sets it after the answer. Two tasks that create the order at the
   same time both pass the check ("The order has already been created"), the
   second id replaces the first, and the first task waits for the wrong order
   ("Create the order and wait for it to go into `wait_for_state`"). In
   `RemoteOrder` that is `KeepCreated` while another task polls; `OwnOrder`
   leaves the case out of the three invariants.
3. **A report can shadow its failure** (`remote_order_async.py:676`, comments at
   460-461 and 633-634). `log_failures` starts with a request of its own that
   nothing guards, before the failure is raised. In `RemoteOrder` that is
   `RequestFails` in a report.
4. **A soft clear that fails loses the project at the next one**
   (`remote_orchestrator.py:882`, promise at 877). The project is moved to the
   cache, `environment_clear` fails, the project stays there, and the next soft
   clear begins with the removal of the cache. In `ProjectFolder` that is
   `StepFails` at `ClearApi` in a `SoftClear`, then another `SoftClear`.
5. **A failure that is no `Exception` is not raised** (`util.py:86`, docstring
   at 36-38). What `pytest.fail` raises is filtered out of the results of
   `gather`; see `Return` in `Scenarios`.
6. **`create` of the legacy client skips short states**
   (`managed_service_instance.py:126`, promise at 301-302). It waits without a
   start version, and only the newest state of each poll is looked at.
   `LegacyWait` shows it as soon as `Promised` is widened to such waits.
7. **A deployment is reported on that is not the one asked for**
   (`remote_orchestrator.py:1104-1128`, "Version number which will be checked"
   at 1058). With the new api, the last phase and the check of the states are
   about whatever version is active: a version that becomes active after the
   asked one was scheduled is the one checked. `ReturnedMeansDeployed` leaves
   that case out.
8. **`environment_modify` may undo another developer's rename**
   (`remote_orchestrator.py:169`, "the name won't be enforced" at 62). Without a
   name asked for, the name that was read at the start is written back with the
   new project.
9. **A lab is kept although nothing failed** (`plugin.py:207-208`; "shouldn't be
   cleaned up after a failure" at 225). With `--lsm-no-clean` the containers
   stay after every session, as `EndsAsAsked` has it.
10. **An interrupt while the lab comes up leaves it there**
    (`orchestrator_container.py:411`): `KeyboardInterrupt` is no
    `CalledProcessError`. Nor is an `OSError`, from the copies into the temporary
    folder or of a command that cannot be started, which leaves what there is as
    well. `Interrupt`, `PrepareFolder` and `CannotStart` do that.
11. **A load generator makes no load the second time** (`load_generator.py:50`):
    `running` is only set when it is made.
12. A validating transfer whose exporting compile fails applies its target and
    then its error branch, both with their attribute operation
    (`lsm_project.py:908-916`). The properties of `lsm_project` hold
    nevertheless.
13. An item added to an order by another task while `create` awaits its answer
    is accepted and never ordered (`remote_order_async.py:728-739`).
14. `shared_resource_set_validation` formats the variable of an earlier loop in
    its message (`lsm_project.py:260-262`): without shared resources in the
    export it raises `UnboundLocalError` instead of `AssertionError`. The model
    has both outcomes.
15. The legacy client returns from a wait for a state that is among the bad ones
    when it is reached (`wait_for_state.py:170-174` compares first); the
    asyncio client raises (`LegacyIsDone`, `IsDone`). `Promised` leaves such waits out.
16. The legacy loop begins with a previous state named `"default"`
    (`wait_for_state.py:129-132`) at the start version, and looks at it among the
    others: a wait for a state of that name ends before the service has moved.
    `DefaultAssumption` excludes it.
17. A version without resources counts as deployed at once
    (`remote_orchestrator.py:1074-1082`, old api): none of its zero resources is
    left to do, whether the version was released or not.
18. With `max_concurrency=0` nothing runs (`util.py:67`, `Semaphore(0)`), and
    without a timeout the execution never ends. `Limits` has 0 for None and leaves
    this one out.

## 6. What is not modelled, and the plan

Left out for good: the synchronous proxies (each method runs the coroutine of
the same name), options, exceptions and log formatting, the project setup
script. Abstracted: what a model computes, the content of attributes beyond two
updates and one allocation, what a diagnosis contains, regular expressions
beyond whether they match.

Left out of components that are modelled in part:

* `setup_config` and the choice of options, hosts and compose files
  (`plugin.py`, `parameters.py`): decisions made once, from values that do not
  change, with no state that is read back.
* The support archive after a failed test (`plugin.py:565-598`): one request,
  the answer of which is written to a file.
* `unittest_lsm`: a handler that stores resources in a dict.
* Attribute sets as references to dicts: promote and rollback move a dict from
  one set to another and let go of it in the first, and a new candidate set is a
  deep copy, so no two sets share a dict an edit could reach through both.
  Whether the dict of a service is the one the test passed is decided by
  `add_defaults` of the orchestrator's library.
* The orchestrator's own use of the project folder while a sync runs.

What is left to model is small: an environment that is deleted by another
developer between two requests; the diagnosis behind a failure report.

To be stated and proved next, the most important first:

1. `Scenarios` as an implementation of a counting semaphore: an abstract module
   with the scenarios that run and those that wait, in which a slot is taken and
   given back, and the step refinement from `RunnerInv`.
2. `DeploymentWait` as an implementation of what a wait promises over the phases
   of a version (exported, released, scheduled, done), as `WaitVerdict` is for a
   service; `DeploymentInv` has what the step refinement needs.
3. Action properties, where they say more than the invariants: that a project
   leaves its place only in a soft clear, a start of a session or a sync by
   another user, and what a task is told about an order is never undone
   (`Progress` has the second one).
