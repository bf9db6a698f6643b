--------------------------- MODULE InjectConnect ---------------------------
(***************************************************************************)
(* The start-up and shutdown of the inject-connect command                *)
(* (subcommand/inject-connect/command.go, Command.Run): flag checks, the   *)
(* Kubernetes clients, the Consul server watcher that runs on its own      *)
(* goroutine, the controller manager with the endpoints controller, the    *)
(* peering controllers and the mesh webhook, and the shutdown on SIGINT or *)
(* SIGTERM through the signal context.                                     *)
(*                                                                         *)
(* The flags are an input chosen in Init. A resource quantity is kept as  *)
(* an integer number of milli-units; Value() rounds it away from zero to  *)
(* whole units and Cmp compares it exactly.                               *)
(* Calls to the outside (the in-cluster config, the Consul servers, the   *)
(* API server) may fail at any time: each is a nondeterministic choice.   *)
(***************************************************************************)
EXTENDS Integers

CONSTANTS
    Millis,     \* the quantities (in milli-units) a resource flag may give
    Inputs,     \* the command lines Run is started with
    MaxSignals  \* bound on the SIGINT/SIGTERM signals delivered

ASSUME MillisAssumption == Millis \subseteq Int

ASSUME MaxSignalsAssumption == MaxSignals \in Nat \ {0}

\* A resource flag: unset (""), a value ParseQuantity rejects, or a quantity.
Unset == -1
Bad == -2
Quantity == Millis \cup {Unset, Bad}

\* The flags Run reads. parseOk: the flag set parses the arguments; images: -consul-k8s-image, -consul-image and
\* -consul-dataplane-image are all set; portsOk: both metrics ports pass
\* ValidateUnprivilegedPort; listen: "-listen" has a port Atoi reads ("ok"),
\* no ":" ("noPort") or a port that is not a number ("badPort"); caFile:
\* the Consul CA cert file is not given, readable or unreadable.
Flags ==
    [parseOk : BOOLEAN, images : BOOLEAN, enablePartitions : BOOLEAN, partitionSet : BOOLEAN,
     concurrency : {-1, 0, 2},
     sidecarCPURequest : Quantity, sidecarCPULimit : Quantity,
     sidecarMemRequest : Quantity, sidecarMemLimit : Quantity,
     portsOk : BOOLEAN,
     initCPURequest : Quantity \ {Unset}, initCPULimit : Quantity \ {Unset},
     initMemRequest : Quantity \ {Unset}, initMemLimit : Quantity \ {Unset},
     listen : {"ok", "noPort", "badPort"}, caFile : {"none", "readable", "unreadable"},
     enablePeering : BOOLEAN, enableCAUpdate : BOOLEAN]

ASSUME InputsAssumption == Inputs \subseteq Flags

-----------------------------------------------------------------------------
(* resource.Quantity.                                                      *)

\* Value(): the quantity in whole units, rounded away from zero.
Value(q) == IF q >= 0 THEN (q + 999) \div 1000 ELSE -((999 - q) \div 1000)

\* A flag's quantity once parsed: an unset flag leaves the zero Quantity.
Parsed(q) == IF q = Unset THEN 0 ELSE q

\* "limit.Value() != 0 && request.Cmp(limit) > 0" is an error: a zero limit
\* means no limit.
LimitRespected(req, lim) ==
    Value(Parsed(lim)) # 0 => Parsed(req) <= Parsed(lim)

\* Command.validateFlags.
ValidFlags(f) ==
    /\ f.images
    /\ f.enablePartitions => f.partitionSet
    /\ f.partitionSet => f.enablePartitions
    /\ f.concurrency >= 0

\* Run's checks up to parseAndValidateResourceFlags: validateFlags, the
\* sidecar proxy resources, the metrics ports and the init container
\* resources, each a return 1 when it fails.
FlagsAccepted(f) ==
    /\ ValidFlags(f)
    /\ Bad \notin {f.sidecarCPURequest, f.sidecarCPULimit,
                     f.sidecarMemRequest, f.sidecarMemLimit}
    /\ LimitRespected(f.sidecarCPURequest, f.sidecarCPULimit)
    /\ LimitRespected(f.sidecarMemRequest, f.sidecarMemLimit)
    /\ f.portsOk
    /\ Bad \notin {f.initCPURequest, f.initCPULimit, f.initMemRequest, f.initMemLimit}
    /\ LimitRespected(f.initCPURequest, f.initCPULimit)
    /\ LimitRespected(f.initMemRequest, f.initMemLimit)

-----------------------------------------------------------------------------
VARIABLES
    flags,     \* the command line
    pc,        \* where Run is; "killed" once os.Exit has ended the process
    exitCode,  \* the exit code, NoExit while the process runs
    ctx,       \* the signal context: "none" before NotifyContext, "live", "cancelled"
    watcher,   \* the Consul server watcher: "none", "running", "ready", "stopped"
    gotState,  \* watcher.State() returned a state to Run
    mgr,       \* the manager: "none", "created", "running", "stopped"
    handlers,  \* what is registered with the manager
    sigs       \* the number of signals delivered

vars == <<flags, pc, exitCode, ctx, watcher, gotState, mgr, handlers, sigs>>

\* The process has not ended.
NoExit == -1

Steps == {"start", "clients", "watch", "state", "wire", "caBundle", "run", "serving",
          "done", "killed"}

Handlers == {"endpoints", "readyz", "peeringAcceptor", "peeringDialer",
             "peeringWebhooks", "meshWebhook"}

TypeOK ==
    /\ flags \in Flags
    /\ pc \in Steps
    /\ exitCode \in {NoExit, 0, 1}
    /\ ctx \in {"none", "live", "cancelled"}
    /\ watcher \in {"none", "running", "ready", "stopped"}
    /\ gotState \in BOOLEAN
    /\ mgr \in {"none", "created", "running", "stopped"}
    /\ handlers \subseteq Handlers
    /\ sigs \in 0..MaxSignals

Init ==
    /\ flags \in Inputs
    /\ pc = "start"
    /\ exitCode = NoExit
    /\ ctx = "none"
    /\ watcher = "none"
    /\ gotState = FALSE
    /\ mgr = "none"
    /\ handlers = {}
    /\ sigs = 0

\* return code: the deferred watcher.Stop() and cancelFunc() run when the
\* watcher and the context exist.
Return(code) ==
    /\ pc' = "done"
    /\ exitCode' = code
    /\ watcher' = IF watcher = "none" THEN "none" ELSE "stopped"
    /\ ctx' = IF ctx = "none" THEN "none" ELSE "cancelled"
    /\ mgr' = IF mgr = "running" THEN "stopped" ELSE mgr

-----------------------------------------------------------------------------
(* Run, one action per stretch between two calls that may fail.            *)

\* Parsing the flags and the flag checks, lines 235-308.
CheckFlags ==
    /\ pc = "start"
    /\ IF flags.parseOk /\ FlagsAccepted(flags)
         THEN /\ pc' = "clients"
              /\ UNCHANGED <<exitCode, ctx, watcher, mgr>>
         ELSE Return(1)
    /\ UNCHANGED <<flags, sigs, gotState, handlers>>

\* The K8s clientset, the loggers, the listen address and the CA cert file.
MakeClients ==
    /\ pc = "clients"
    /\ \/ /\ flags.listen = "ok"
          /\ flags.caFile # "unreadable"
          /\ pc' = "watch"
          /\ UNCHANGED <<exitCode, ctx, watcher, mgr>>
       \/ Return(1)   \* also the one of the calls to the outside that fails
    /\ UNCHANGED <<flags, sigs, gotState, handlers>>

\* signal.NotifyContext, the watcher's config and discovery.NewWatcher; on
\* success `go watcher.Run()` and the deferred watcher.Stop().
StartWatcher ==
    /\ pc = "watch"
    /\ \/ /\ pc' = "state"
          /\ ctx' = "live"
          /\ watcher' = "running"
          /\ UNCHANGED <<exitCode, mgr>>
       \/ /\ pc' = "done"    \* the config or NewWatcher fails: return 1,
          /\ exitCode' = 1        \* and the deferred cancelFunc runs
          /\ ctx' = "cancelled"
          /\ UNCHANGED <<watcher, mgr>>
    /\ UNCHANGED <<flags, sigs, gotState, handlers>>

\* Variant of WaitState that returns at once, whatever the watcher's state.
WaitStateNoBlock ==
    /\ pc = "state"
    /\ IF ctx = "cancelled"
         THEN /\ Return(1)
              /\ UNCHANGED gotState
         ELSE /\ pc' = "wire"
              /\ gotState' = TRUE
              /\ UNCHANGED <<exitCode, ctx, watcher, mgr>>
    /\ UNCHANGED <<flags, sigs, handlers>>

\* Variant of WaitState that waits for a state and ignores the context.
WaitStateIgnoringCtx ==
    /\ pc = "state"
    /\ watcher = "ready"
    /\ pc' = "wire"
    /\ gotState' = TRUE
    /\ UNCHANGED <<flags, sigs, exitCode, ctx, watcher, mgr, handlers>>

\* watcher.State() blocks until the watcher has found the Consul servers, or
\* fails once the context is cancelled.
WaitState ==
    /\ pc = "state"
    /\ \/ /\ watcher = "ready"
          /\ ctx # "cancelled"
          /\ pc' = "wire"
          /\ gotState' = TRUE
          /\ UNCHANGED <<exitCode, ctx, watcher, mgr>>
       \/ /\ ctx = "cancelled"
          /\ Return(1)
          /\ UNCHANGED gotState
    /\ UNCHANGED <<flags, sigs, handlers>>

\* ctrl.NewManager, the endpoints controller, the readiness check, the
\* peering controllers and webhooks when enabled, the mesh webhook.
\* ctrl.GetConfigOrDie() ends the process with os.Exit(1) when there is no
\* Kubernetes config, and the defers do not run.
Wire ==
    LET peering == IF flags.enablePeering
                     THEN {"peeringAcceptor", "peeringDialer", "peeringWebhooks"}
                     ELSE {}
    IN  /\ pc = "wire"
        /\ \/ /\ mgr' = "created"
              /\ handlers' = {"endpoints", "readyz", "meshWebhook"} \cup peering
              /\ pc' = "caBundle"
              /\ UNCHANGED <<exitCode, ctx, watcher>>
           \/ /\ Return(1)   \* one of the set-up calls fails
              /\ UNCHANGED handlers
           \/ /\ pc' = "killed"
              /\ exitCode' = 1
              /\ UNCHANGED <<ctx, watcher, mgr, handlers>>
        /\ UNCHANGED <<flags, sigs, gotState>>

\* updateWebhookCABundle when -enable-webhook-ca-update is set.
UpdateCABundle ==
    /\ pc = "caBundle"
    /\ \/ /\ pc' = "run"
          /\ UNCHANGED <<exitCode, ctx, watcher, mgr>>
       \/ /\ flags.enableCAUpdate   \* reading ca.crt or the update fails
          /\ Return(1)
    /\ UNCHANGED <<flags, sigs, gotState, handlers>>

\* mgr.Start(ctx): the manager runs the controllers and the webhook server.
StartManager ==
    /\ pc = "run"
    /\ pc' = "serving"
    /\ mgr' = "running"
    /\ UNCHANGED <<flags, sigs, exitCode, ctx, watcher, gotState, handlers>>

\* mgr.Start returns nil once its context is cancelled: "shutting down",
\* return 0.
ManagerStops ==
    /\ pc = "serving"
    /\ ctx = "cancelled"
    /\ Return(0)
    /\ UNCHANGED <<flags, sigs, gotState, handlers>>

\* Variant of ManagerFails that returns 0 on the manager's error.
ManagerFailsWithZero ==
    /\ pc = "serving"
    /\ Return(0)
    /\ UNCHANGED <<flags, sigs, gotState, handlers>>

\* mgr.Start returns an error: return 1.
ManagerFails ==
    /\ pc = "serving"
    /\ Return(1)
    /\ UNCHANGED <<flags, sigs, gotState, handlers>>

-----------------------------------------------------------------------------
(* The environment.                                                        *)

\* The watcher's goroutine finds the Consul servers, while its context is
\* live and the process runs.
WatcherReady ==
    /\ pc # "killed"
    /\ ctx = "live"
    /\ watcher = "running"
    /\ watcher' = "ready"
    /\ UNCHANGED <<flags, sigs, pc, exitCode, ctx, gotState, mgr, handlers>>

\* The watcher's goroutine returns once its context (the signal context)
\* is cancelled.
WatcherExits ==
    /\ pc # "killed"
    /\ ctx = "cancelled"
    /\ watcher \in {"running", "ready"}
    /\ watcher' = "stopped"
    /\ UNCHANGED <<flags, sigs, pc, exitCode, ctx, gotState, mgr, handlers>>

\* SIGINT or SIGTERM while Run runs, once NotifyContext has registered for
\* them (before that the default handler ends the process): it cancels the
\* signal context; later ones are caught and change nothing more.
Signal ==
    /\ exitCode = NoExit
    /\ ctx # "none"
    /\ sigs < MaxSignals
    /\ sigs' = sigs + 1
    /\ ctx' = "cancelled"
    /\ UNCHANGED <<flags, pc, exitCode, watcher, gotState, mgr, handlers>>

\* The steps Run always goes on to take: all but the manager failing.
Progress ==
    \/ CheckFlags \/ MakeClients \/ StartWatcher \/ WaitState \/ Wire
    \/ UpdateCABundle \/ StartManager \/ ManagerStops

Next == Progress \/ ManagerFails \/ WatcherReady \/ WatcherExits \/ Signal

\* Run is one goroutine that always takes its next step, and a healthy
\* manager keeps running; the Consul servers may stay unreachable, and no
\* signal need ever come.
Spec == Init /\ [][Next]_vars /\ WF_vars(Progress)

-----------------------------------------------------------------------------
(* Properties.                                                             *)

\* The webhook server runs only once Run has a state from the Consul
\* server watcher: injected pods are never admitted before the Consul
\* servers are known, nor with a stopped watcher before shutdown begins.
ServesOnlyWithConsulState ==
    mgr = "running" /\ ctx = "live" => gotState /\ watcher = "ready"

\* A signal always ends Run, wherever it is blocked.
ShutdownOnSignal == sigs > 0 ~> exitCode # NoExit

\* The command as the abstract Lifecycle sees it.
LC == INSTANCE Lifecycle WITH
        phase      <- IF pc \in {"done", "killed"} THEN "exited"
                      ELSE IF mgr = "running" THEN "serving" ELSE "starting",
        discovered <- gotState,
        released   <- watcher = "stopped",
        signalled  <- sigs > 0,
        code       <- exitCode

\* inject-connect implements the Lifecycle: it serves only with a state from
\* the watcher, stops the watcher only on a signal or an exit, exits 0 only
\* after serving, a signal and the watcher's Stop, and exits after a signal.
LifecycleSpec == LC!ASpec

=============================================================================
