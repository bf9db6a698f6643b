# TLA+ models of consul-k8s control-plane code

This directory holds TLA+ models of the control-plane code under `src/control-plane`, the TLC configurations that check them, and TLAPS proofs. The code under `src/` consists of four files:

| file | what it is |
|---|---|
| `api/v1alpha1/terminatinggatewayservice_webhook.go` | admission webhook that keeps a TerminatingGatewayService's service name unique in its namespace |
| `connect-inject/webhook/container_init.go` | builds the `consul-connect-inject-init` container that the mesh webhook adds to an injected pod |
| `subcommand/inject-connect/command.go` | the `inject-connect` command: flags, clients, Consul server watcher, controller manager, mesh webhook, shutdown |
| `subcommand/controller/command.go` | the `controller` command: config-entry controllers and their webhooks |

## How the parts interact

Both commands build a controller-runtime manager, which serves the admission webhooks.
- The `inject-connect` command registers the mesh webhook. The mesh webhook calls `containerInit` for each pod it injects: once, or once per service of a multi-port pod. The configuration `containerInit` reads (auth method, TLS, namespaces, partition, transparent proxy, CNI) is the `MeshWebhook` literal that `Run` fills in from its flags.
- The `controller` command registers the config-entry webhooks. The TerminatingGatewayService webhook is registered elsewhere: nothing under `src/` does it, so the client its `Handle` lists objects through (`v.Client`) is not known here. `Handle` runs on its own goroutine for every admission request. The Kubernetes API server persists the object only after every webhook has allowed it.

## Modules

| module | models | state | actions |
|---|---|---|---|
| `TGSWebhook` | `Handle` (34-64) composed with the API server store, the copy of it that `List` reads, and concurrent requests | `store`, `cache`, `req` (phase, decoded object, reason per request), `history` (every key/service pair ever stored, a ghost variable for the proofs) | `Submit`, `Handle` (invalid / List error / duplicate / allowed), `Persist` (write, or AlreadyExists / NotFound), `Delete`, `CacheSync` |
| `TGSWebhook_proofs` | TLAPS proofs about `TGSWebhook` | | |
| `ContainerInit` | `containerInit` (43-254), `consulDNSEnabled`, `splitCommaSeparatedItemsFromAnnotation`, the command template | `w` (webhook config), `ns`, `pod`, `out` (the init containers built) | `Admit` (builds them once) |
| `ContainerInit_proofs` | TLAPS proofs about `ContainerInit` | | |
| `InjectConnect` | `Command.Run` (233-546), `validateFlags`, `parseAndValidateResourceFlags`, `updateWebhookCABundle` | `flags`, `pc`, `exitCode`, `ctx` (signal context), `watcher`, `gotState`, `mgr`, `handlers`, `sigs` (signals delivered) | `CheckFlags`, `MakeClients`, `StartWatcher`, `WaitState`, `Wire`, `UpdateCABundle`, `StartManager`, `ManagerStops`, `ManagerFails`; environment: `WatcherReady`, `WatcherExits`, `Signal` |
| `InjectConnect_proofs` | TLAPS proofs about `InjectConnect` | | |
| `ControllerCommand` | controller `Command.Run` (108-370), `validateFlags`, `updateWebhookCABundle` | as `InjectConnect`, plus `mgrCtx` (the context of `ctrl.SetupSignalHandler()`) | `CheckFlags`, `StartWatcher`, `WaitState`, `Wire`, `UpdateCABundle`, `StartManager`, `ManagerStops`, `ManagerFails`; environment: `WatcherReady`, `WatcherExits`, `Signal` |
| `ControllerCommand_proofs` | TLAPS proofs about `ControllerCommand` | | |
| `Lifecycle` | the abstract promise of both commands: discover the Consul servers, serve, let go of the watcher, exit | `phase`, `discovered`, `released`, `signalled`, `code` | `Discover`, `Serve`, `Signal`, `Release`, `Exit(c)` |
| `MC_*` | TLC instances: model values, small input sets, symmetry | | |

### Abstractions
- **TGSWebhook.**
  - An object is its key `<<namespace, name>>` and its service name.
  - A request that fails to decode or to validate is `valid = FALSE`.
  - A failed List is a nondeterministic outcome of every create.
  - `CacheLag` chooses what `List` reads: the store itself, or a copy that follows the store one key at a time (as a manager's cached client would). The client is chosen where the webhook is registered, outside `src/`, so the model allows both; a property that holds with lag holds for either client.
- **ContainerInit.**
  - An environment variable is its name. A flag of the rendered command is a `[flag, val]` record.
  - A string made of a fixed prefix and a service name is a pair of the two, which is injective.
  - Annotation values are strings over `{a, b, ","}`. `Split` is modelled by what `strings.Split` does: `Split("")` is `<<"">>`, and empty pieces are kept.
  - `strconv.ParseBool` is reduced to the four cases "absent", "true", "false" and unparsable.
- **InjectConnect.**
  - Quantities are integers in milli-units. `Value()` rounds away from zero (`-400m` is `-1`, `400m` is `1`), as `resource.Quantity.Value` does, and `Cmp` compares exactly.
  - A flag-parse error (line 235) returns 1 like any other failed check.
  - `ctrl.GetConfigOrDie()` (line 394) ends the process with `os.Exit(1)` when there is no Kubernetes config: `pc = "killed"`, and no defer runs.
  - A call to the outside that can fail (the in-cluster config, the loggers, NewWatcher, NewManager, a SetupWithManager, the CA update, mgr.Start) is a nondeterministic return 1 of the step that makes it.
  - Every return runs the defers that are registered at that point: `cancelFunc` from line 369 and `watcher.Stop` from line 384.
  - Error messages are not modelled.
  - `Signal` models SIGINT/SIGTERM once `signal.NotifyContext` has registered. It cancels the signal context. The watcher goroutine then returns (`WatcherExits`). At most `MaxSignals` signals are delivered.
  - The watcher goroutine finds the servers (`WatcherReady`) only while its context is live and the process runs, and `watcher.State()` returns a state only while the context is not cancelled.
- **ControllerCommand.**
  - The flags are every combination of the ones that steer control: parse error, extra args, webhooks, cert dir, datacenter, API timeout, log level, CA update.
  - `Wire` registers one controller per config-entry kind and, with `-enable-webhooks`, one webhook per kind, plus the readiness check. The reconcilers' fields are data.
  - `ctrl.GetConfigOrDie()` (line 159) may `os.Exit(1)` as in `InjectConnect`.
  - `ctrl.SetupSignalHandler()` is called only in `StartManager`, and only then does `mgrCtx` exist. Until then a signal goes to the `NotifyContext` of line 136 alone. Once it exists, a first signal cancels it, and a second calls `os.Exit(1)` without running the defers (`pc = "killed"`).
- **Lifecycle and the refinement.** `LC == INSTANCE Lifecycle WITH ...` maps a command's state to the abstract one:
  - `phase` is `"exited"` once Run has returned or the process was killed, `"serving"` while the manager runs, and `"starting"` otherwise;
  - `discovered` is `gotState`, `released` is `watcher = "stopped"`, `signalled` is `sigs > 0`, and `code` is the exit code.
  - `Lifecycle`'s `Exit(0)` requires serving, a signal and a released watcher: a success exit that skips the deferred `watcher.Stop()` is not a Lifecycle step. `Exit(1)` may leave the watcher as it is, which is what an `os.Exit(1)` does.

## Runs

| run | expect | shows |
|---|---|---|
| `TGSWebhook_serial` | pass (11337 states) | with one request at a time, `List` reading the store and creates only, `UniqueServiceNames` holds: the check does what it is for when nothing races it |
| `TGSWebhook_full` | pass (558145 states) | with 2 concurrent requests, updates, deletes and a lagging read, every duplicate rejection still cites an object that really existed in the same namespace with the same service (`RejectionCitesRealConflict`) |
| `TGSWebhook_race` | violation | two concurrent creates of the same service both pass the List check (line 50) before either is persisted |
| `TGSWebhook_update` | violation | an update may rename the service to a duplicate, because the check runs on Create only |
| `ContainerInit` | pass (655360 states) | over every configuration, label, annotation up to 3 characters, token and iptables state: the env follows the layer order and the command names the service once exactly when login or multi-port needs it |
| `ContainerInit_dup` | violation | the annotation `","` splits into two empty names; neither is multi-port, so both init containers are named `consul-connect-inject-init` (line 102); `"a,a"` gives two containers `consul-connect-inject-init-a` (line 104) with one proxy-id file |
| `InjectConnect` | pass (13220 states) | the manager starts only after the watcher's state; a signal always ends Run; the command implements `Lifecycle` with its fairness (`LifecycleSpec`), so it exits 0 only after serving, a signal and the watcher's Stop |
| `ControllerCommand` | pass (833 states) | over all flag combinations the controller serves only with the watcher's state, and every step, the `os.Exit(1)` of `GetConfigOrDie` and of a second signal included, is a Lifecycle step (`LifecycleSafe`) |
| `ControllerCommand_hang` | violation | `ShutdownOnSignal` fails: a SIGTERM after `watcher.State()` returns and before `mgr.Start(ctrl.SetupSignalHandler())` cancels only the watcher's context, and the manager then runs on a fresh context that no signal cancels (line 366) |

Each property of each passing run has a mutant in `PROJECT.json`: a plausible bug in the mapped code, which TLC must catch. For example:
- `Duplicates` that ignores the namespace breaks `RejectionCitesRealConflict`;
- a `WaitState` that does not block breaks `ServesOnlyWithConsulState`;
- a `WaitState` that ignores the context breaks `ShutdownOnSignal`;
- a failing manager that returns 0 breaks `LifecycleSpec` and `LifecycleSafe`, since the Lifecycle exits 0 only after serving and a signal.

### Finding of the controller run
`ControllerCommand_hang` shows a shutdown hang. After `watcher.State()` returns, the controller spends lines 159-363 building the manager, its controllers and webhooks, and possibly updating the CA bundle. A SIGTERM in that window goes to the `NotifyContext` handler. That handler cancels only the watcher's context, so the watcher stops. Line 366 then installs a new handler with a new context that has seen no signal. The manager runs, the kubelet's SIGTERM has been spent, and the pod stays up until SIGKILL, reconciling against a stopped watcher. `inject-connect` passes its signal context to `mgr.Start` (line 540) and is not exposed to this.

### Bounds
- **TGSWebhook.**
  - 2 names, 2 namespaces, 2 services and 3 requests, with at most 2 in flight. This is the smallest instance where two objects of one namespace can clash while a third request is running, and where an object in the other namespace names the same service.
  - Names and requests are symmetric, so the serial run uses symmetry.
- **ContainerInit.** All 64 configurations, all label and annotation settings, and every annotation string of up to 3 characters: the empty string, one service (`"a"`, `"ab"`), two different ones (`"a,b"`), one repeated (`"a,a"`), and empty pieces (`","`, `"a,"`, `",a"`, `",,"`).
- **InjectConnect.**
  - The input set changes the passing defaults in one place at a time: a flag, or one request/limit pair over all values. Peering and the CA update are on or off with each.
  - The quantities 0, 400m, 1500m and -400m: no limit, a fraction, more than a unit, and a negative fraction, where `Value()` and `Cmp` part.
  - `MaxSignals = 2`. A second signal is the first that can change anything after a first one: in the controller it is what calls `os.Exit(1)`.
- **ControllerCommand.** Every flag combination, with `MaxSignals = 2`.

### Fairness
- **TGSWebhook.** None: its properties are safety properties.
- **InjectConnect and ControllerCommand.**
  - Weak fairness on `Progress`: the steps of Run's goroutine that it always takes. That is every Run step except `ManagerFails`, because the manager need not fail.
  - No fairness on `ManagerFails`, on `WatcherReady` (the Consul servers may stay unreachable), on `WatcherExits`, or on `Signal`.
  - The abstract `ASpec` has weak fairness on `ExitOnSignal`: once signalled, the command exits. The controller does not meet it, so `ControllerCommand` checks only `LC!SafeSpec`.

`ShutdownOnSignal` therefore holds even when the servers are never found.

## Proofs (TLAPS)

`TGSWebhook_proofs.tla`:
- `TypeCorrect`: `Spec => []TypeOK` for all constants satisfying `ConstAssumption`. It rests on `TypeStep`, which shows that `TypeOK` is preserved by each action, and on `NoObjType`.
- `RejectionSound`: `Spec => []RejectionCitesRealConflict`. The invariant alone is not inductive: a rejection depends on what `List` read, and the invariant says nothing about the copy it reads. The inductive strengthening is `IInv == TypeOK /\ StoreInHistory /\ CacheInHistory /\ RejectionCitesRealConflict`:
  - every stored pair and every pair of the copy `List` reads is in `history`;
  - `history` only grows.
  
  Lemma `DuplicateInHistory` turns a non-empty `Duplicates(o)` into a history entry with the same namespace and service. `IInvInductive` has one case per action.

`InjectConnect_proofs.tla`, under `MaxSignalsAssumption` and `InputsAssumption`:
- `IInvariant`: `Spec => []IInv`. `IInv` holds the type invariant together with the following facts relating the program counter to the other variables:
  - the exit code is set exactly when the process has ended (`pc \in Ended`: Run returned, or `GetConfigOrDie` killed it);
  - when Run has returned, the watcher is stopped or never started, and the context is not live;
  - before the watcher starts, nothing is started, no state has been read and no signal has been delivered;
  - the state has been read exactly in the steps after `WaitState`, while the process runs;
  - the manager runs exactly while serving;
  - a cancelled context of a Run that has not returned comes from a signal;
  - with a state and a live context, the watcher is ready.

  `ServesOnlyWithConsulState` is not inductive on its own: a `StartManager` step keeps it only if `gotState` and a ready watcher are already known at `"run"`, and that needs the last conjunct, which needs `WatcherReady` and `State()` to be guarded by the context. Lemma `ReturnStep` covers every `Return(code)`. `IInvStep` has one case per action, and one per outcome of `Wire`.
- `ServesWithConsulState` follows from `IInvariant`.
- `Refinement`: `Spec => LC!SafeSpec`. `Init` maps to `AInit`. Under `IInv`, each step maps as follows:
  - `WaitState` success is `Discover`;
  - `StartManager` is `Serve`;
  - the first `Signal` is the abstract `Signal`, and later ones stutter;
  - `WatcherExits` is `Release`;
  - every return, and the `os.Exit(1)` of `Wire`, is `Exit(c)`, by lemmas `ExitStep` and `ReturnRefines`. A `Return(0)` comes only from `ManagerStops`, while serving and after a signal, and stops the watcher, which `Exit(0)` requires;
  - every other step stutters.

  `Discover` requires that no state has been read yet. This is why `IInv` states the "exactly after `WaitState`" conjunct both ways.

`ControllerCommand_proofs.tla`, under `MaxSignalsAssumption` and `InputsAssumption`, follows the `InjectConnect` argument:
- `IInvariant` proves an `IInv` with the same conjuncts, plus the ones for `mgrCtx`, the context of `ctrl.SetupSignalHandler()`:
  - it exists only while serving or after the process ended;
  - it is cancelled only after a signal;
  - the manager runs while serving, or in a process that its handler killed; a process killed with `mgrCtx` set has both contexts cancelled; a killed process has exit code 1.
- `ServesWithConsulState` follows from `IInvariant`.
- `Refinement`: `Spec => LifecycleSafe` (`LC!SafeSpec`). It maps steps like the `InjectConnect` one. In addition, a `Signal` that finds the manager's context cancelled, and so kills the process, maps to the abstract `Exit(1)`, as does the `os.Exit(1)` of `GetConfigOrDie`.

`ContainerInit_proofs.tla` proves two properties of every container that `containerInit` builds, for every configuration, namespace and pod. The step is a pure function: `AdmitInv` says that `out` is empty or is `PodInitContainers` of the unchanged inputs, and `BuiltShape` and `PodContainers` say that every container built without error is `ContainerInitOf` for some multi-port service.
- `CommandNamesService` (`CommandNamesServiceOnce`) rests on `RenderedFlags`. `RenderedFlags` computes the rendered template for each of the four combinations of `authMethod` and `multiPort`, and the positions of `-service-name` and `-proxy-id-file` in it:
  - the lemmas `Cat52`, `Cat72`, `Cat21` and `Cat53` give each concatenation as an explicit tuple;
  - the flags are named by opaque definitions (`PodNameFlag`, ...), because the SMT backend does not instantiate a lemma with a tuple that holds string literals.
- `EnvPrecedence` (`EnvFollowsPrecedence`) rests on `EnvOrdered`: for every configuration and redirect flag, `InitEnv` sets each variable once and in layer order. `Ordered(s)` says that the entries of `s` are distinct and their `LayerOf` never decreases; `Within(s, lo, hi)` bounds their layers. The argument:
  - `GroupValues` gives each group of `EnvGroups` as a tuple, and `LayersDisjoint` shows that no name is in two layers. `LayerOfLayer` then evaluates the CHOOSE in `LayerOf` for every entry of layer `i`, by existence and uniqueness, without listing the 17 names;
  - `LayerOrdered` and `OptionalLayer` make each layer, present or left out, an ordered sequence within its own layer number;
  - `OrderedConcat` says that `s \o t` is ordered and within `a..b` when `s` is ordered within `a..m` and `t` within `m+1..b`. `EnvOrdered` applies it five times, from the identity layer to the redirect layer (`LoginOrdered` does the login layers).
  The lemmas are cited with Zenon and their numeric side conditions given as steps of their own, because the SMT backend does not instantiate them with numerals and IF-expressions.

The following is only model-checked:
- The liveness properties (`ShutdownOnSignal`, the fairness part of `LifecycleSpec`). TLAPS does not handle liveness under fairness or ENABLED.
- `ContainerInit`'s `TypeOK`. It needs every piece that `Split` returns to be free of separators. `Split` cuts at positions chosen by CHOOSE, so that fact is an induction over the annotation string. It also needs string literals to be members of `STRING`, which the SMT backend does not prove.
- `UniqueServiceNames` in the serial run. It holds there only because one request is in flight, `List` reads the store and every request is a create; outside those conditions it is violated (the race and update findings), so it says nothing about the code that a proof for every constant would add.
- `InitContainersDistinct`. It is a violation run, and there is nothing to prove.

## Not modelled
- **Partition handling of the controller** (line 170). It derives `PartitionsEnabled` from `-partition != ""` and passes it into `consulMeta`. That is data for the reconcilers, which are not under `src/`, and no control decision of `Run` depends on it.
- **`mesh_webhook.go`** (`Handle`, `shouldInject`, `consulNamespace`, `overwriteProbes`, the patches), the config-entry, endpoints and peering controllers, and `server-acl-init`. None of them is under `src/`. `PodInitContainers` and `Admit` are the only spec-modelled parts of the mesh webhook.
- **The flag parsing library, the Consul server watcher, controller-runtime's signal handler and the API server's other admission stages.** The environment actions stand for them.

## Plan for later work
1. A spec-modelled policy module for `shouldInject`, `consulNamespace` and `overwriteProbes`, with a run against reference definitions.
2. `ContainerInit`'s `TypeOK`, once `Split` is rewritten as a recursive function over positions, so that its pieces can be shown free of separators by induction on a natural number.
