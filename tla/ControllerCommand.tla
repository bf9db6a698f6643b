------------------------- MODULE ControllerCommand -------------------------
(***************************************************************************)
(* The start-up and shutdown of the controller command                    *)
(* (subcommand/controller/command.go, Command.Run): flag checks, the      *)
(* loggers, the signal context and the Consul server watcher on its own   *)
(* goroutine, the controller manager with the ten config-entry            *)
(* controllers, their webhooks and the readiness check, the CA bundle     *)
(* update, and mgr.Start with the context of ctrl.SetupSignalHandler().   *)
(*                                                                         *)
(* Unlike inject-connect, the manager does not run on the signal context  *)
(* that the watcher runs on: SetupSignalHandler registers a second        *)
(* handler for SIGINT and SIGTERM when mgr.Start is called, whose context *)
(* is cancelled by the first signal it receives, and whose second signal  *)
(* ends the process with os.Exit(1).                                      *)
(***************************************************************************)
EXTENDS Integers

CONSTANTS
    Inputs,     \* the command lines Run is started with
    MaxSignals  \* bound on the SIGINT/SIGTERM signals delivered

\* The flags Run reads: parseOk: the flag set parses; extraArgs: non-flag
\* arguments are given; certDirSet: -webhook-tls-cert-dir; datacenterSet:
\* -datacenter; apiTimeout: -consul-api-timeout in seconds; logLevelOk:
\* -log-level names a zap level.
Flags ==
    [parseOk : BOOLEAN, extraArgs : BOOLEAN, enableWebhooks : BOOLEAN,
     certDirSet : BOOLEAN, datacenterSet : BOOLEAN, apiTimeout : {0, 5},
     logLevelOk : BOOLEAN, enableCAUpdate : BOOLEAN]

ASSUME InputsAssumption == Inputs \subseteq Flags

ASSUME MaxSignalsAssumption == MaxSignals \in Nat \ {0}

\* The config-entry kinds, each with a controller and a webhook.
Kinds == {"ServiceDefaults", "ServiceResolver", "ProxyDefaults", "Mesh",
          "ExportedServices", "ServiceRouter", "ServiceSplitter",
          "ServiceIntentions", "IngressGateway", "TerminatingGateway"}

Handlers == ({"controller", "webhook"} \X Kinds) \cup {<<"readyz", "ready">>}

\* Command.validateFlags.
ValidFlags(f) ==
    /\ ~f.extraArgs
    /\ f.enableWebhooks => f.certDirSet
    /\ f.datacenterSet
    /\ f.apiTimeout > 0

-----------------------------------------------------------------------------
VARIABLES
    flags,     \* the command line
    pc,        \* where Run is; "killed" once os.Exit has ended the process
    exitCode,  \* the exit code, NoExit while the process runs
    ctx,       \* the signal context of NotifyContext: "none", "live", "cancelled"
    mgrCtx,    \* the context of SetupSignalHandler: "none", "live", "cancelled"
    watcher,   \* the Consul server watcher: "none", "running", "ready", "stopped"
    gotState,  \* watcher.State() returned a state to Run
    mgr,       \* the manager: "none", "created", "running", "stopped"
    handlers,  \* what is registered with the manager
    sigs       \* the number of signals delivered

vars == <<flags, pc, exitCode, ctx, mgrCtx, watcher, gotState, mgr, handlers, sigs>>

NoExit == -1

Steps == {"start", "watch", "state", "wire", "caBundle", "run", "serving",
          "done", "killed"}

Contexts == {"none", "live", "cancelled"}

TypeOK ==
    /\ flags \in Flags
    /\ pc \in Steps
    /\ exitCode \in {NoExit, 0, 1}
    /\ ctx \in Contexts
    /\ mgrCtx \in Contexts
    /\ watcher \in {"none", "running", "ready", "stopped"}
    /\ gotState \in BOOLEAN
    /\ mgr \in {"none", "created", "running", "stopped"}
    /\ handlers \subseteq Handlers
    /\ sigs \in 0..MaxSignals

Init ==
    /\ flags \in Inputs
    /\ pc = "start"
    /\ exitCode = NoExit
    /\ ctx = "none"
    /\ mgrCtx = "none"
    /\ watcher = "none"
    /\ gotState = FALSE
    /\ mgr = "none"
    /\ handlers = {}
    /\ sigs = 0

\* return code: the deferred watcher.Stop() and cancelFunc() run when the
\* watcher and the context exist.
Return(code) ==
    /\ pc' = "done"
    /\ exitCode' = code
    /\ watcher' = IF watcher = "none" THEN "none" ELSE "stopped"
    /\ ctx' = IF ctx = "none" THEN "none" ELSE "cancelled"
    /\ mgr' = IF mgr = "running" THEN "stopped" ELSE mgr

-----------------------------------------------------------------------------
(* Run, one action per stretch between two calls that may fail.            *)

\* Parsing the flags, validateFlags and the two loggers.
CheckFlags ==
    /\ pc = "start"
    /\ IF flags.parseOk /\ ValidFlags(flags) /\ flags.logLevelOk
         THEN /\ pc' = "watch"
              /\ UNCHANGED <<exitCode, ctx, watcher, mgr>>
         ELSE Return(1)
    /\ UNCHANGED <<flags, mgrCtx, gotState, handlers, sigs>>

\* signal.NotifyContext, the watcher's config and discovery.NewWatcher; on
\* success `go watcher.Run()` and the deferred watcher.Stop().
StartWatcher ==
    /\ pc = "watch"
    /\ \/ /\ pc' = "state"
          /\ ctx' = "live"
          /\ watcher' = "running"
          /\ UNCHANGED <<exitCode, mgr>>
       \/ /\ pc' = "done"    \* the config or NewWatcher fails: return 1,
          /\ exitCode' = 1        \* and the deferred cancelFunc runs
          /\ ctx' = "cancelled"
          /\ UNCHANGED <<watcher, mgr>>
    /\ UNCHANGED <<flags, mgrCtx, gotState, handlers, sigs>>

\* Variant of WaitState that returns at once, whatever the watcher's state.
WaitStateNoBlock ==
    /\ pc = "state"
    /\ IF ctx = "cancelled"
         THEN /\ Return(1)
              /\ UNCHANGED gotState
         ELSE /\ pc' = "wire"
              /\ gotState' = TRUE
              /\ UNCHANGED <<exitCode, ctx, watcher, mgr>>
    /\ UNCHANGED <<flags, mgrCtx, handlers, sigs>>

\* watcher.State() blocks until the watcher has found the Consul servers, or
\* fails once the signal context is cancelled.
WaitState ==
    /\ pc = "state"
    /\ \/ /\ watcher = "ready"
          /\ ctx # "cancelled"
          /\ pc' = "wire"
          /\ gotState' = TRUE
          /\ UNCHANGED <<exitCode, ctx, watcher, mgr>>
       \/ /\ ctx = "cancelled"
          /\ Return(1)
          /\ UNCHANGED gotState
    /\ UNCHANGED <<flags, mgrCtx, handlers, sigs>>

\* ctrl.NewManager, the ten config-entry controllers (their SetupWithManager
\* may fail), the webhooks when -enable-webhooks is set, the readiness check.
\* ctrl.GetConfigOrDie() ends the process with os.Exit(1) when there is no
\* Kubernetes config, and the defers do not run.
Wire ==
    /\ pc = "wire"
    /\ \/ /\ mgr' = "created"
          /\ handlers' = ({"controller"} \X Kinds)
                           \cup (IF flags.enableWebhooks THEN {"webhook"} \X Kinds ELSE {})
                           \cup {<<"readyz", "ready">>}
          /\ pc' = "caBundle"
          /\ UNCHANGED <<exitCode, ctx, watcher>>
       \/ /\ Return(1)   \* NewManager, a controller or the readiness check fails
          /\ UNCHANGED handlers
       \/ /\ pc' = "killed"
          /\ exitCode' = 1
          /\ UNCHANGED <<ctx, watcher, mgr, handlers>>
    /\ UNCHANGED <<flags, mgrCtx, gotState, sigs>>

\* updateWebhookCABundle when -enable-webhook-ca-update is set: its own
\* clientset, ca.crt from the cert dir, the update.
UpdateCABundle ==
    /\ pc = "caBundle"
    /\ \/ /\ pc' = "run"
          /\ UNCHANGED <<exitCode, ctx, watcher, mgr>>
       \/ /\ flags.enableCAUpdate
          /\ Return(1)
    /\ UNCHANGED <<flags, mgrCtx, gotState, handlers, sigs>>

\* mgr.Start(ctrl.SetupSignalHandler()): a second handler for SIGINT and
\* SIGTERM is registered now, with a fresh context, and the manager runs.
StartManager ==
    /\ pc = "run"
    /\ pc' = "serving"
    /\ mgrCtx' = "live"
    /\ mgr' = "running"
    /\ UNCHANGED <<flags, exitCode, ctx, watcher, gotState, handlers, sigs>>

\* Variant of ManagerFails that returns 0 on the manager's error.
ManagerFailsWithZero ==
    /\ pc = "serving"
    /\ Return(0)
    /\ UNCHANGED <<flags, mgrCtx, gotState, handlers, sigs>>

\* mgr.Start returns nil once its context is cancelled: return 0.
ManagerStops ==
    /\ pc = "serving"
    /\ mgrCtx = "cancelled"
    /\ Return(0)
    /\ UNCHANGED <<flags, mgrCtx, gotState, handlers, sigs>>

\* mgr.Start returns an error: return 1.
ManagerFails ==
    /\ pc = "serving"
    /\ Return(1)
    /\ UNCHANGED <<flags, mgrCtx, gotState, handlers, sigs>>

-----------------------------------------------------------------------------
(* The environment.                                                        *)

\* The watcher's goroutine finds the Consul servers, while its context is
\* live and the process runs.
WatcherReady ==
    /\ pc # "killed"
    /\ ctx = "live"
    /\ watcher = "running"
    /\ watcher' = "ready"
    /\ UNCHANGED <<flags, pc, exitCode, ctx, mgrCtx, gotState, mgr, handlers, sigs>>

\* The watcher's goroutine returns once the signal context is cancelled.
WatcherExits ==
    /\ pc # "killed"
    /\ ctx = "cancelled"
    /\ watcher \in {"running", "ready"}
    /\ watcher' = "stopped"
    /\ UNCHANGED <<flags, pc, exitCode, ctx, mgrCtx, gotState, mgr, handlers, sigs>>

\* SIGINT or SIGTERM, once NotifyContext has registered for them. Every
\* registered handler gets it: it cancels the signal context; the handler
\* of SetupSignalHandler, if registered, cancels its context on the first
\* signal it gets and calls os.Exit(1) on the second.
Signal ==
    /\ exitCode = NoExit
    /\ ctx # "none"
    /\ sigs < MaxSignals
    /\ sigs' = sigs + 1
    /\ ctx' = "cancelled"
    /\ IF mgrCtx = "cancelled"
         THEN /\ pc' = "killed"
              /\ exitCode' = 1
              /\ UNCHANGED mgrCtx
         ELSE /\ mgrCtx' = IF mgrCtx = "live" THEN "cancelled" ELSE "none"
              /\ UNCHANGED <<pc, exitCode>>
    /\ UNCHANGED <<flags, watcher, gotState, mgr, handlers>>

\* The steps Run always goes on to take: all but the manager failing.
Progress ==
    \/ CheckFlags \/ StartWatcher \/ WaitState \/ Wire \/ UpdateCABundle
    \/ StartManager \/ ManagerStops

Next == Progress \/ ManagerFails \/ WatcherReady \/ WatcherExits \/ Signal

\* Run is one goroutine that always takes its next step, and a healthy
\* manager keeps running; the Consul servers may stay unreachable, and no
\* signal need ever come.
Spec == Init /\ [][Next]_vars /\ WF_vars(Progress)

-----------------------------------------------------------------------------
(* Properties.                                                             *)

\* The config-entry controllers and webhooks run only once Run has a state
\* from the Consul server watcher they use, and never with a stopped
\* watcher before shutdown begins.
ServesOnlyWithConsulState ==
    mgr = "running" /\ ctx = "live" => gotState /\ watcher = "ready"

\* A signal always ends the process, wherever Run is.
ShutdownOnSignal == sigs > 0 ~> pc \in {"done", "killed"}

\* The command as the abstract Lifecycle sees it.
LC == INSTANCE Lifecycle WITH
        phase      <- IF pc \in {"done", "killed"} THEN "exited"
                      ELSE IF mgr = "running" THEN "serving" ELSE "starting",
        discovered <- gotState,
        released   <- watcher = "stopped",
        signalled  <- sigs > 0,
        code       <- exitCode

\* Every step of the controller command is a step of the Lifecycle: it
\* serves only with a state from the watcher, stops the watcher only on a
\* signal or an exit, and exits 0 only after serving, a signal and the
\* watcher's Stop.
LifecycleSafe == LC!SafeSpec

=============================================================================
