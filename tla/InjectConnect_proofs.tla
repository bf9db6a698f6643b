------------------------ MODULE InjectConnect_proofs ------------------------
(***************************************************************************)
(* Proofs about the inject-connect start-up (InjectConnect), for every    *)
(* set of quantities, every set of command lines and every signal bound.  *)
(* The process ends either by Run's return ("done") or by the os.Exit(1)  *)
(* of ctrl.GetConfigOrDie ("killed"), which skips the defers.              *)
(***************************************************************************)
EXTENDS InjectConnect, TLAPS

USE MaxSignalsAssumption, InputsAssumption

\* Run's position determines which parts of it have happened.
Early == {"start", "clients", "watch"}
Started == {"state", "wire", "caBundle", "run", "serving"}
PastState == {"wire", "caBundle", "run", "serving"}
Ended == {"done", "killed"}

\* The inductive invariant: how pc, the return value, the contexts, the
\* watcher and the manager go together.
IInv ==
    /\ TypeOK
    /\ (exitCode # NoExit) <=> (pc \in Ended)
    /\ pc = "done" => watcher \in {"none", "stopped"} /\ ctx # "live"
    /\ pc \in Early => ctx = "none" /\ watcher = "none" /\ mgr = "none"
                       /\ ~gotState /\ sigs = 0
    /\ pc \in Started => ctx # "none" /\ watcher # "none"
    /\ pc \in PastState <=> gotState /\ pc \notin Ended
    /\ (mgr = "running") <=> (pc = "serving")
    /\ ctx = "cancelled" /\ pc # "done" => sigs > 0
    /\ gotState /\ ctx = "live" => watcher = "ready"

-----------------------------------------------------------------------------
LEMMA InitIInv == Init => IInv
  <1> SUFFICES ASSUME Init PROVE IInv
    OBVIOUS
  <1>1. flags \in Flags
    BY DEF Init
  <1>2. sigs \in 0..MaxSignals
    BY DEF Init
  <1>3. TypeOK
    BY <1>1, <1>2 DEF Init, TypeOK, Steps
  <1>4. QED
    BY <1>3 DEF Init, IInv, Early, Started, PastState, Ended, NoExit

\* Return(code) from a running Run re-establishes the conjuncts it touches.
LEMMA ReturnStep ==
  ASSUME IInv, pc \notin Ended, NEW code \in {0, 1}, Return(code),
         UNCHANGED <<flags, sigs, gotState, handlers>>
  PROVE  IInv'
  BY DEF IInv, Return, TypeOK, Early, Started, PastState, Ended, NoExit, Steps

LEMMA IInvStep == IInv /\ [Next]_vars => IInv'
  <1> SUFFICES ASSUME IInv, [Next]_vars PROVE IInv'
    OBVIOUS
  <1>1. CASE CheckFlags
    <2>1. CASE flags.parseOk /\ FlagsAccepted(flags)
      BY <1>1, <2>1 DEF CheckFlags, IInv, TypeOK, Early, Started, PastState, Ended, NoExit, Steps
    <2>2. CASE ~(flags.parseOk /\ FlagsAccepted(flags))
      BY <1>1, <2>2, ReturnStep DEF CheckFlags, IInv, Ended
    <2>3. QED
      BY <2>1, <2>2
  <1>2. CASE MakeClients
    <2>1. CASE pc' = "watch"
      BY <1>2, <2>1 DEF MakeClients, Return, IInv, TypeOK, Early, Started, PastState, Ended, NoExit, Steps
    <2>2. CASE pc' # "watch"
      BY <1>2, <2>2, ReturnStep DEF MakeClients, IInv, Return, Ended
    <2>3. QED
      BY <2>1, <2>2
  <1>3. CASE StartWatcher
    BY <1>3 DEF StartWatcher, IInv, TypeOK, Early, Started, PastState, Ended, NoExit, Steps
  <1>4. CASE WaitState
    <2>1. CASE watcher = "ready" /\ pc' = "wire"
      BY <1>4, <2>1 DEF WaitState, Return, IInv, TypeOK, Early, Started, PastState, Ended, NoExit, Steps
    <2>2. CASE ~(watcher = "ready" /\ pc' = "wire")
      BY <1>4, <2>2, ReturnStep DEF WaitState, IInv, Return, Started, Ended
    <2>3. QED
      BY <2>1, <2>2
  <1>5. CASE Wire
    <2>1. CASE pc' = "caBundle"
      BY <1>5, <2>1 DEF Wire, Return, IInv, TypeOK, Early, Started, PastState, Ended, NoExit, Steps, Handlers
    <2>2. CASE pc' = "done"
      BY <1>5, <2>2, ReturnStep DEF Wire, IInv, Return, Ended
    <2>3. CASE pc' = "killed"
      BY <1>5, <2>3 DEF Wire, Return, IInv, TypeOK, Early, Started, PastState, Ended, NoExit, Steps
    <2>4. QED
      BY <1>5, <2>1, <2>2, <2>3 DEF Wire, Return
  <1>6. CASE UpdateCABundle
    <2>1. CASE pc' = "run"
      BY <1>6, <2>1 DEF UpdateCABundle, Return, IInv, TypeOK, Early, Started, PastState, Ended, NoExit, Steps
    <2>2. CASE pc' # "run"
      BY <1>6, <2>2, ReturnStep DEF UpdateCABundle, IInv, Return, Ended
    <2>3. QED
      BY <2>1, <2>2
  <1>7. CASE StartManager
    BY <1>7 DEF StartManager, IInv, TypeOK, Early, Started, PastState, Ended, NoExit, Steps
  <1>8. CASE ManagerStops
    BY <1>8, ReturnStep DEF ManagerStops, IInv, Ended
  <1>9. CASE ManagerFails
    BY <1>9, ReturnStep DEF ManagerFails, IInv, Ended
  <1>10. CASE WatcherReady
    BY <1>10 DEF WatcherReady, IInv, TypeOK, Early, Started, PastState, Ended, NoExit, Steps
  <1>11. CASE WatcherExits
    BY <1>11 DEF WatcherExits, IInv, TypeOK, Early, Started, PastState, Ended, NoExit, Steps
  <1>12. CASE Signal
    BY <1>12 DEF Signal, IInv, TypeOK, Early, Started, PastState, Ended, NoExit, Steps
  <1>13. CASE UNCHANGED vars
    BY <1>13 DEF vars, IInv, TypeOK, Early, Started, PastState, Ended, NoExit, Steps
  <1>14. QED
    BY <1>1, <1>2, <1>3, <1>4, <1>5, <1>6, <1>7, <1>8, <1>9, <1>10, <1>11,
       <1>12, <1>13 DEF Next, Progress

THEOREM IInvariant == Spec => []IInv
  BY InitIInv, IInvStep, PTL DEF Spec

-----------------------------------------------------------------------------
(* The invariants the InjectConnect run checks.                            *)

\* The webhook server runs only with a state from a watcher still running,
\* until shutdown begins (watcher.State() at line 388 blocks).
THEOREM ServesWithConsulState == Spec => []ServesOnlyWithConsulState
  <1>1. IInv => ServesOnlyWithConsulState
    BY DEF IInv, ServesOnlyWithConsulState, PastState
  <1>2. QED
    BY <1>1, IInvariant, PTL

-----------------------------------------------------------------------------
(* inject-connect implements the Lifecycle.                                *)

\* A step that ends a running process with code c, leaves the state and the
\* signals alone and stops the watcher or leaves it, stopping it when c is
\* 0, is an exit of the Lifecycle.
LEMMA ExitStep ==
  ASSUME NEW c \in {0, 1}, pc \notin Ended, pc' \in Ended, exitCode' = c,
         UNCHANGED <<gotState, sigs>>,
         watcher' = watcher \/ watcher' = "stopped",
         c = 0 => mgr = "running" /\ sigs > 0 /\ watcher' = "stopped"
  PROVE  LC!Exit(c)
  <1>1. (watcher' = "stopped") \in {watcher = "stopped", TRUE}
    OBVIOUS
  <1>2. c = 0 => (IF pc \in {"done", "killed"} THEN "exited"
                  ELSE IF mgr = "running" THEN "serving" ELSE "starting")
                 = "serving" /\ sigs > 0
    BY DEF Ended
  <1>3. (IF pc \in {"done", "killed"} THEN "exited"
         ELSE IF mgr = "running" THEN "serving" ELSE "starting") # "exited"
    BY DEF Ended
  <1>4. (IF pc' \in {"done", "killed"} THEN "exited"
         ELSE IF mgr' = "running" THEN "serving" ELSE "starting") = "exited"
    BY DEF Ended
  <1>5. QED
    BY <1>1, <1>2, <1>3, <1>4 DEF LC!Exit

\* A return of a running Run is an exit of the Lifecycle.
LEMMA ReturnRefines ==
  ASSUME IInv, pc \notin Ended, NEW code \in {0, 1}, Return(code),
         UNCHANGED <<gotState, sigs>>,
         code = 0 => pc = "serving" /\ ctx = "cancelled"
  PROVE  [LC!ANext]_LC!avars
  <1>1. pc' \in Ended /\ exitCode' = code
    BY DEF Return, Ended
  <1>2. watcher' = watcher \/ watcher' = "stopped"
    BY DEF Return
  <1>3. code = 0 => mgr = "running" /\ sigs > 0 /\ watcher' = "stopped"
    BY DEF IInv, Return, Started
  <1>4. LC!Exit(code)
    BY <1>1, <1>2, <1>3, ExitStep
  <1>5. QED
    BY <1>4 DEF LC!ANext

LEMMA RefinementStep == IInv /\ [Next]_vars => [LC!ANext]_LC!avars
  <1> SUFFICES ASSUME IInv, [Next]_vars PROVE [LC!ANext]_LC!avars
    OBVIOUS
  <1>0. pc \in Steps /\ mgr \in {"none", "created", "running", "stopped"}
        /\ sigs \in 0..MaxSignals
    BY DEF IInv, TypeOK
  <1>1. CASE CheckFlags
    <2>1. CASE flags.parseOk /\ FlagsAccepted(flags)
      BY <1>1, <2>1 DEF LC!avars, CheckFlags, IInv, Early
    <2>2. CASE ~(flags.parseOk /\ FlagsAccepted(flags))
      BY <1>1, <2>2, ReturnRefines DEF CheckFlags, Ended
    <2>3. QED
      BY <2>1, <2>2
  <1>2. CASE MakeClients
    <2>1. CASE pc' = "watch"
      BY <1>2, <2>1 DEF LC!avars, MakeClients, Return, IInv, Early
    <2>2. CASE Return(1)
      BY <1>2, <2>2, ReturnRefines DEF MakeClients, Ended
    <2>3. QED
      BY <1>2, <2>1, <2>2 DEF MakeClients
  <1>3. CASE StartWatcher
    <2>1. CASE pc' = "state"
      BY <1>3, <2>1 DEF LC!avars, StartWatcher, IInv, Early
    <2>2. CASE pc' = "done"
      <3>1. LC!Exit(1)
        BY <1>3, <2>2, ExitStep DEF StartWatcher, Ended
      <3>2. QED
        BY <3>1 DEF LC!ANext
    <2>3. QED
      BY <1>3, <2>1, <2>2 DEF StartWatcher
  <1>4. CASE WaitState
    <2>1. CASE watcher = "ready" /\ pc' = "wire" /\ gotState' = TRUE
               /\ UNCHANGED <<exitCode, ctx, watcher, mgr>>
      <3>1. LC!Discover
        BY <1>4, <2>1 DEF WaitState, IInv, Started, PastState, Ended, LC!Discover
      <3>2. QED
        BY <3>1 DEF LC!ANext
    <2>2. CASE Return(1) /\ UNCHANGED gotState
      BY <1>4, <2>2, ReturnRefines DEF WaitState, Ended
    <2>3. QED
      BY <1>4, <2>1, <2>2 DEF WaitState
  <1>5. CASE Wire
    <2>1. CASE pc' = "caBundle" /\ mgr' = "created"
               /\ UNCHANGED <<exitCode, ctx, watcher>>
      BY <1>5, <2>1 DEF LC!avars, Wire, IInv, Started
    <2>2. CASE Return(1)
      BY <1>5, <2>2, ReturnRefines DEF Wire, Ended
    <2>3. CASE pc' = "killed" /\ exitCode' = 1 /\ UNCHANGED <<ctx, watcher, mgr, handlers>>
      <3>1. LC!Exit(1)
        BY <1>5, <2>3, ExitStep DEF Wire, Ended
      <3>2. QED
        BY <3>1 DEF LC!ANext
    <2>4. QED
      BY <1>5, <2>1, <2>2, <2>3 DEF Wire
  <1>6. CASE UpdateCABundle
    <2>1. CASE pc' = "run" /\ UNCHANGED <<exitCode, ctx, watcher, mgr>>
      BY <1>6, <2>1 DEF LC!avars, UpdateCABundle, IInv
    <2>2. CASE Return(1)
      BY <1>6, <2>2, ReturnRefines DEF UpdateCABundle, Ended
    <2>3. QED
      BY <1>6, <2>1, <2>2 DEF UpdateCABundle
  <1>7. CASE StartManager
    <2>1. LC!Serve
      BY <1>7 DEF StartManager, IInv, PastState, LC!Serve
    <2>2. QED
      BY <2>1 DEF LC!ANext
  <1>8. CASE ManagerStops
    BY <1>8, ReturnRefines DEF ManagerStops, Ended
  <1>9. CASE ManagerFails
    BY <1>9, ReturnRefines DEF ManagerFails, Ended
  <1>10. CASE WatcherReady
    BY <1>10 DEF WatcherReady, LC!avars
  <1>11. CASE WatcherExits
    <2>1. LC!Release
      BY <1>11 DEF WatcherExits, IInv, Ended, LC!Release
    <2>2. QED
      BY <2>1 DEF LC!ANext
  <1>12. CASE Signal
    <2>1. CASE sigs = 0
      <3>1. LC!Signal
        BY <1>12, <2>1 DEF Signal, IInv, Ended, NoExit, LC!Signal
      <3>2. QED
        BY <3>1 DEF LC!ANext
    <2>2. CASE sigs # 0
      BY <1>0, <1>12, <2>2 DEF Signal, LC!avars
    <2>3. QED
      BY <2>1, <2>2
  <1>13. CASE UNCHANGED vars
    BY <1>13 DEF vars, LC!avars
  <1>14. QED
    BY <1>1, <1>2, <1>3, <1>4, <1>5, <1>6, <1>7, <1>8, <1>9, <1>10, <1>11,
       <1>12, <1>13 DEF Next, Progress

\* Every behaviour of inject-connect is a behaviour of the Lifecycle's safety
\* part: it learns the servers before it serves, releases the watcher only
\* on a signal or a return, and returns 0 only after serving and a signal.
THEOREM Refinement == Spec => LC!SafeSpec
  <1>1. Init => LC!AInit
    BY DEF Init, LC!AInit, NoExit
  <1>2. QED
    BY <1>1, RefinementStep, IInvariant, PTL DEF Spec, LC!SafeSpec

=============================================================================
