---------------------- MODULE ControllerCommand_proofs ----------------------
(***************************************************************************)
(* Proofs about the controller command's start-up and shutdown            *)
(* (ControllerCommand), for every set of command lines and every signal   *)
(* bound: its safety invariants, and that it implements the safety part   *)
(* of the Lifecycle.                                                      *)
(***************************************************************************)
EXTENDS ControllerCommand, TLAPS

USE MaxSignalsAssumption, InputsAssumption

\* Run's position determines which parts of it have happened.
Early == {"start", "watch"}
Started == {"state", "wire", "caBundle", "run", "serving"}
PastState == {"wire", "caBundle", "run", "serving"}
Ended == {"done", "killed"}

\* The inductive invariant: how pc, the exit code, the two contexts, the
\* watcher and the manager go together. The manager's context exists only
\* from mgr.Start on; it is cancelled only by a signal. The process is
\* killed either by GetConfigOrDie, before the manager exists, or by the
\* manager's signal handler, while the manager runs.
IInv ==
    /\ TypeOK
    /\ (exitCode # NoExit) <=> (pc \in Ended)
    /\ pc = "done" => watcher \in {"none", "stopped"} /\ ctx # "live"
    /\ pc \in Early => /\ ctx = "none" /\ mgrCtx = "none" /\ watcher = "none"
                       /\ mgr = "none" /\ ~gotState /\ sigs = 0
    /\ pc \in Started => ctx # "none" /\ watcher # "none"
    /\ pc \in PastState <=> gotState /\ pc \notin Ended
    /\ (mgr = "running") <=> (pc = "serving" \/ (pc = "killed" /\ mgrCtx # "none"))
    /\ pc = "serving" => mgrCtx # "none"
    /\ mgrCtx # "none" => pc \in {"serving"} \cup Ended
    /\ pc = "killed" => exitCode = 1
    /\ pc = "killed" /\ mgrCtx # "none" => mgrCtx = "cancelled" /\ ctx = "cancelled"
    /\ mgrCtx = "cancelled" => sigs > 0
    /\ ctx = "cancelled" /\ pc # "done" => sigs > 0
    /\ gotState /\ ctx = "live" => watcher = "ready"

-----------------------------------------------------------------------------
LEMMA InitIInv == Init => IInv
  <1> SUFFICES ASSUME Init PROVE IInv
    OBVIOUS
  <1>1. flags \in Flags
    BY DEF Init
  <1>2. sigs \in 0..MaxSignals
    BY DEF Init
  <1>3. TypeOK
    BY <1>1, <1>2 DEF Init, TypeOK, Steps, Contexts
  <1>4. QED
    BY <1>3 DEF Init, IInv, Early, Started, PastState, Ended, NoExit

\* Return(code) from a running Run re-establishes the conjuncts it touches.
LEMMA ReturnStep ==
  ASSUME IInv, pc \notin Ended, NEW code \in {0, 1}, Return(code),
         UNCHANGED <<flags, mgrCtx, gotState, handlers, sigs>>
  PROVE  IInv'
  BY DEF IInv, TypeOK, Early, Started, PastState, Ended, NoExit, Steps, Contexts, Return

LEMMA IInvStep == IInv /\ [Next]_vars => IInv'
  <1> SUFFICES ASSUME IInv, [Next]_vars PROVE IInv'
    OBVIOUS
  <1>1. CASE CheckFlags
    <2>1. CASE flags.parseOk /\ ValidFlags(flags) /\ flags.logLevelOk
      BY <1>1, <2>1 DEF CheckFlags, IInv, TypeOK, Early, Started, PastState, Ended, NoExit, Steps, Contexts
    <2>2. CASE ~(flags.parseOk /\ ValidFlags(flags) /\ flags.logLevelOk)
      BY <1>1, <2>2, ReturnStep DEF CheckFlags, IInv, Ended
    <2>3. QED
      BY <2>1, <2>2
  <1>2. CASE StartWatcher
    BY <1>2 DEF StartWatcher, IInv, TypeOK, Early, Started, PastState, Ended, NoExit, Steps, Contexts
  <1>3. CASE WaitState
    <2>1. CASE watcher = "ready" /\ pc' = "wire" /\ gotState' = TRUE
               /\ UNCHANGED <<exitCode, ctx, watcher, mgr>>
      BY <1>3, <2>1 DEF WaitState, IInv, TypeOK, Early, Started, PastState, Ended, NoExit, Steps, Contexts
    <2>2. CASE Return(1) /\ UNCHANGED gotState
      BY <1>3, <2>2, ReturnStep DEF WaitState, IInv, Ended
    <2>3. QED
      BY <1>3, <2>1, <2>2 DEF WaitState
  <1>4. CASE Wire
    <2>1. CASE mgr' = "created" /\ pc' = "caBundle"
               /\ handlers' = ({"controller"} \X Kinds)
                               \cup (IF flags.enableWebhooks THEN {"webhook"} \X Kinds ELSE {})
                               \cup {<<"readyz", "ready">>}
               /\ UNCHANGED <<exitCode, ctx, watcher>>
      BY <1>4, <2>1 DEF Wire, IInv, TypeOK, Early, Started, PastState, Ended, NoExit, Steps, Contexts, Handlers
    <2>2. CASE Return(1) /\ UNCHANGED handlers
      BY <1>4, <2>2, ReturnStep DEF Wire, IInv, Ended
    <2>3. CASE pc' = "killed" /\ exitCode' = 1 /\ UNCHANGED <<ctx, watcher, mgr, handlers>>
      BY <1>4, <2>3 DEF Wire, IInv, TypeOK, Early, Started, PastState, Ended, NoExit, Steps, Contexts
    <2>4. QED
      BY <1>4, <2>1, <2>2, <2>3 DEF Wire
  <1>5. CASE UpdateCABundle
    <2>1. CASE pc' = "run" /\ UNCHANGED <<exitCode, ctx, watcher, mgr>>
      BY <1>5, <2>1 DEF UpdateCABundle, IInv, TypeOK, Early, Started, PastState, Ended, NoExit, Steps, Contexts
    <2>2. CASE Return(1)
      BY <1>5, <2>2, ReturnStep DEF UpdateCABundle, IInv, Ended
    <2>3. QED
      BY <1>5, <2>1, <2>2 DEF UpdateCABundle
  <1>6. CASE StartManager
    BY <1>6 DEF StartManager, IInv, TypeOK, Early, Started, PastState, Ended, NoExit, Steps, Contexts
  <1>7. CASE ManagerStops
    BY <1>7, ReturnStep DEF ManagerStops, IInv, Ended
  <1>8. CASE ManagerFails
    BY <1>8, ReturnStep DEF ManagerFails, IInv, Ended
  <1>9. CASE WatcherReady
    BY <1>9 DEF WatcherReady, IInv, TypeOK, Early, Started, PastState, Ended, NoExit, Steps, Contexts
  <1>10. CASE WatcherExits
    BY <1>10 DEF WatcherExits, IInv, TypeOK, Early, Started, PastState, Ended, NoExit, Steps, Contexts
  <1>11. CASE Signal
    <2>1. CASE mgrCtx = "cancelled"
      BY <1>11, <2>1 DEF Signal, IInv, TypeOK, Early, Started, PastState, Ended, NoExit, Steps, Contexts
    <2>2. CASE mgrCtx # "cancelled"
      BY <1>11, <2>2 DEF Signal, IInv, TypeOK, Early, Started, PastState, Ended, NoExit, Steps, Contexts
    <2>3. QED
      BY <2>1, <2>2
  <1>12. CASE UNCHANGED vars
    BY <1>12 DEF vars, IInv, TypeOK, Early, Started, PastState, Ended, NoExit, Steps, Contexts
  <1>13. QED
    BY <1>1, <1>2, <1>3, <1>4, <1>5, <1>6, <1>7, <1>8, <1>9, <1>10, <1>11,
       <1>12 DEF Next, Progress

THEOREM IInvariant == Spec => []IInv
  BY InitIInv, IInvStep, PTL DEF Spec

-----------------------------------------------------------------------------
(* The invariants the ControllerCommand run checks.                        *)

\* The config-entry controllers and webhooks run on a live signal context
\* only with a state from a watcher that has found the servers
\* (watcher.State() at line 153 blocks).
THEOREM ServesWithConsulState == Spec => []ServesOnlyWithConsulState
  <1>1. IInv => ServesOnlyWithConsulState
    BY DEF IInv, ServesOnlyWithConsulState, PastState, Ended
  <1>2. QED
    BY <1>1, IInvariant, PTL

-----------------------------------------------------------------------------
(* The controller command implements the safety part of the Lifecycle.    *)

\* A step from a running command to an ended one with code c, that leaves
\* the state and whether a signal came alone and stops the watcher or
\* leaves it, is an exit of the Lifecycle.
LEMMA ExitStep ==
  ASSUME NEW c \in {0, 1}, pc \notin Ended, pc' \in Ended, exitCode' = c,
         gotState' = gotState, (sigs' > 0) = (sigs > 0),
         watcher' = watcher \/ watcher' = "stopped",
         c = 0 => mgr = "running" /\ sigs > 0 /\ watcher' = "stopped"
  PROVE  LC!Exit(c)
  <1>1. (watcher' = "stopped") \in {watcher = "stopped", TRUE}
    OBVIOUS
  <1>2. c = 0 => (IF pc \in {"done", "killed"} THEN "exited"
                  ELSE IF mgr = "running" THEN "serving" ELSE "starting")
                 = "serving" /\ sigs > 0
    BY DEF Ended
  <1>3. (IF pc' \in {"done", "killed"} THEN "exited"
         ELSE IF mgr' = "running" THEN "serving" ELSE "starting") = "exited"
    BY DEF Ended
  <1>4. (IF pc \in {"done", "killed"} THEN "exited"
         ELSE IF mgr = "running" THEN "serving" ELSE "starting") # "exited"
    BY DEF Ended
  <1>5. QED
    BY <1>1, <1>2, <1>3, <1>4 DEF LC!Exit

\* A return of a running Run is an exit of the Lifecycle.
LEMMA ReturnRefines ==
  ASSUME IInv, pc \notin Ended, NEW code \in {0, 1}, Return(code),
         UNCHANGED <<gotState, sigs>>,
         code = 0 => pc = "serving" /\ mgrCtx = "cancelled"
  PROVE  [LC!ANext]_LC!avars
  <1>1. pc' \in Ended /\ exitCode' = code
    BY DEF Return, Ended
  <1>2. watcher' = watcher \/ watcher' = "stopped"
    BY DEF Return
  <1>3. code = 0 => mgr = "running" /\ sigs > 0 /\ watcher' = "stopped"
    BY DEF IInv, Return, Started
  <1>4. LC!Exit(code)
    BY <1>1, <1>2, <1>3, ExitStep
  <1>5. QED
    BY <1>4 DEF LC!ANext

LEMMA RefinementStep == IInv /\ [Next]_vars => [LC!ANext]_LC!avars
  <1> SUFFICES ASSUME IInv, [Next]_vars PROVE [LC!ANext]_LC!avars
    OBVIOUS
  <1>0. pc \in Steps /\ sigs \in 0..MaxSignals
    BY DEF IInv, TypeOK
  <1>1. CASE CheckFlags
    <2>1. CASE flags.parseOk /\ ValidFlags(flags) /\ flags.logLevelOk
      BY <1>1, <2>1 DEF LC!avars, CheckFlags, IInv, Early
    <2>2. CASE ~(flags.parseOk /\ ValidFlags(flags) /\ flags.logLevelOk)
      BY <1>1, <2>2, ReturnRefines DEF CheckFlags, Ended
    <2>3. QED
      BY <2>1, <2>2
  <1>2. CASE StartWatcher
    <2>1. CASE pc' = "state"
      BY <1>2, <2>1 DEF LC!avars, StartWatcher, IInv, Early
    <2>2. CASE pc' = "done"
      <3>1. LC!Exit(1)
        BY <1>2, <2>2, ExitStep DEF StartWatcher, Ended
      <3>2. QED
        BY <3>1 DEF LC!ANext
    <2>3. QED
      BY <1>2, <2>1, <2>2 DEF StartWatcher
  <1>3. CASE WaitState
    <2>1. CASE watcher = "ready" /\ pc' = "wire" /\ gotState' = TRUE
               /\ UNCHANGED <<exitCode, ctx, watcher, mgr>>
      <3>1. LC!Discover
        BY <1>3, <2>1 DEF WaitState, IInv, Started, PastState, Ended, LC!Discover
      <3>2. QED
        BY <3>1 DEF LC!ANext
    <2>2. CASE Return(1) /\ UNCHANGED gotState
      BY <1>3, <2>2, ReturnRefines DEF WaitState, Ended
    <2>3. QED
      BY <1>3, <2>1, <2>2 DEF WaitState
  <1>4. CASE Wire
    <2>1. CASE pc' = "caBundle" /\ mgr' = "created"
               /\ UNCHANGED <<exitCode, ctx, watcher>>
      BY <1>4, <2>1 DEF LC!avars, Wire, IInv, Started, Ended
    <2>2. CASE Return(1)
      BY <1>4, <2>2, ReturnRefines DEF Wire, Ended
    <2>3. CASE pc' = "killed" /\ exitCode' = 1 /\ UNCHANGED <<ctx, watcher, mgr, handlers>>
      \* GetConfigOrDie's os.Exit(1): the watcher is left as it is
      <3>1. LC!Exit(1)
        BY <1>4, <2>3, ExitStep DEF Wire, Ended
      <3>2. QED
        BY <3>1 DEF LC!ANext
    <2>4. QED
      BY <1>4, <2>1, <2>2, <2>3 DEF Wire
  <1>5. CASE UpdateCABundle
    <2>1. CASE pc' = "run" /\ UNCHANGED <<exitCode, ctx, watcher, mgr>>
      BY <1>5, <2>1 DEF LC!avars, UpdateCABundle, IInv, Ended
    <2>2. CASE Return(1)
      BY <1>5, <2>2, ReturnRefines DEF UpdateCABundle, Ended
    <2>3. QED
      BY <1>5, <2>1, <2>2 DEF UpdateCABundle
  <1>6. CASE StartManager
    <2>1. LC!Serve
      BY <1>6 DEF StartManager, IInv, PastState, Ended, LC!Serve
    <2>2. QED
      BY <2>1 DEF LC!ANext
  <1>7. CASE ManagerStops
    BY <1>7, ReturnRefines DEF ManagerStops, Ended
  <1>8. CASE ManagerFails
    BY <1>8, ReturnRefines DEF ManagerFails, Ended
  <1>9. CASE WatcherReady
    BY <1>9 DEF WatcherReady, LC!avars
  <1>10. CASE WatcherExits
    <2>1. LC!Release
      BY <1>10 DEF WatcherExits, IInv, Ended, LC!Release
    <2>2. QED
      BY <2>1 DEF LC!ANext
  <1>11. CASE Signal
    <2>1. CASE mgrCtx = "cancelled"
      \* the second signal to the manager's handler: os.Exit(1)
      <3>1. pc = "serving" /\ sigs > 0
        BY <1>11, <2>1 DEF Signal, IInv, Ended
      <3>2. LC!Exit(1)
        BY <1>0, <1>11, <2>1, <3>1, ExitStep DEF Signal, Ended
      <3>3. QED
        BY <3>2 DEF LC!ANext
    <2>2. CASE mgrCtx # "cancelled" /\ sigs = 0
      <3>1. LC!Signal
        BY <1>11, <2>2 DEF Signal, IInv, NoExit, Ended, LC!Signal
      <3>2. QED
        BY <3>1 DEF LC!ANext
    <2>3. CASE mgrCtx # "cancelled" /\ sigs # 0
      BY <1>0, <1>11, <2>3 DEF Signal, LC!avars
    <2>4. QED
      BY <2>1, <2>2, <2>3
  <1>12. CASE UNCHANGED vars
    BY <1>12 DEF vars, LC!avars
  <1>13. QED
    BY <1>1, <1>2, <1>3, <1>4, <1>5, <1>6, <1>7, <1>8, <1>9, <1>10, <1>11,
       <1>12 DEF Next, Progress

\* Every behaviour of the controller command is one of the Lifecycle's
\* safety part: it serves only after learning the servers, stops the
\* watcher only on a signal or an exit, and exits 0 only after serving, a
\* signal and the watcher's Stop; the os.Exit(1) of GetConfigOrDie and of
\* the second signal are exits with code 1.
THEOREM Refinement == Spec => LifecycleSafe
  <1>1. Init => LC!AInit
    BY DEF Init, LC!AInit, NoExit
  <1>2. QED
    BY <1>1, RefinementStep, IInvariant, PTL DEF Spec, LifecycleSafe, LC!SafeSpec

=============================================================================
