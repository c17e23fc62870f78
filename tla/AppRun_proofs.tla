---------------------------- MODULE AppRun_proofs ----------------------------
(***************************************************************************)
(* Proofs about AppRun for any tasks, hooks, events and observers.  IInv   *)
(* ties three races together: the registration of a task with the start    *)
(* of the runtime (RegistrationExact), the failure of a task with the end  *)
(* of the adapter and the caller's cancellation (FailureExact), and the    *)
(* handlers of observers with the end of Run (ObserversExact).             *)
(***************************************************************************)
EXTENDS AppRun, FiniteSetTheorems, TLAPS

\* The handlers that hold a slot.
Holding == {j \in Jobs : job[j] \in {"running", "reporting"}}

LEMMA HoldingFinite == IsFiniteSet(Holding)
BY AppAssumption, FS_Subset DEF Holding

-----------------------------------------------------------------------------
\* The initial states satisfy the invariant.
LEMMA InitIInv == Init => IInv
<1>1. SUFFICES ASSUME Init PROVE IInv
  OBVIOUS
<1>2. TypeOK
  <2>1. /\ 0 \in 0..Hooks /\ 0 \in Nat /\ <<>> \in Seq(Tasks)
        /\ starts \in [Tasks -> Nat]
        /\ tasks \in SUBSET Tasks
    BY <1>1, AppAssumption DEF Init
  <2>2. /\ adding \in [Tasks -> {"out", "runner", "norunner", "added"}]
        /\ task \in [Tasks -> {"none", "launched", "gated", "asleep", "called",
                               "failing", "cancelling", "ended"}]
        /\ job \in [Jobs -> {"none", "running", "reporting", "recovered", "ended",
                             "dropped"}]
        /\ jobCtx \in [Jobs -> {"none", "run"}]
    BY <1>1 DEF Init
  <2>3. QED
    BY <1>1, <2>1, <2>2 DEF Init, TypeOK
<1>3. RegistrationExact
  BY <1>1, AppAssumption DEF Init, RegistrationExact
<1>4. FailureExact
  BY <1>1, AppAssumption DEF Init, FailureExact
<1>5. ObserversExact
  <2>1. {j \in Jobs : job[j] \in {"running", "reporting"}} = {}
    BY <1>1 DEF Init
  <2>2. QED
    BY <1>1, <2>1, FS_EmptySet DEF Init, ObserversExact
<1>6. FirstFatalReturned /\ ShutdownAfterTasks
  BY <1>1, AppAssumption DEF Init, FirstFatalReturned, ShutdownAfterTasks
<1>7. QED
  BY <1>2, <1>3, <1>4, <1>5, <1>6 DEF IInv

-----------------------------------------------------------------------------
\* Registration and start stay in step.
LEMMA RegistrationKept == IInv /\ [Next]_vars => RegistrationExact'
<1> SUFFICES ASSUME IInv, [Next]_vars PROVE RegistrationExact'
  OBVIOUS
<1>1. TypeOK /\ RegistrationExact
  BY DEF IInv
<1>2. CASE \/ Enter \/ HookReturns \/ HookFails \/ StartHooksDone \/ CallStart
           \/ StartReturns \/ Decide \/ CancelTasks \/ JoinTasks
           \/ ShutdownHooksDone \/ StopState \/ ForgetContext \/ Leave
           \/ CallerCancels \/ Report
  <2>1. UNCHANGED <<regVars, taskVars>>
    BY <1>2
    DEF Enter, HookReturns, HookFails, StartHooksDone, CallStart, StartReturns,
        Decide, CancelTasks, JoinTasks, ShutdownHooksDone, StopState, ForgetContext,
        Leave, CallerCancels, Report, RunFrame
  <2>2. /\ run' \in {"launch", "serve", "drain", "cancel", "clear"}
             <=> run \in {"launch", "serve", "drain", "cancel", "clear"}
        /\ run = "launch" /\ run' # "launch" => toStart = {}
        /\ run' = "launch" => run = "launch"
        /\ run' = "serve" => run \in {"launch", "serve"}
        /\ run' \in {"new", "start", "ready"} => run \in {"new", "start", "ready"}
    BY <1>1, <1>2
    DEF Enter, HookReturns, HookFails, StartHooksDone, CallStart, StartReturns,
        Decide, CancelTasks, JoinTasks, ShutdownHooksDone, StopState, ForgetContext,
        Leave, CallerCancels, Report, RunFrame, Goto, TypeOK, runVars
  <2>3. QED
    BY <1>1, <2>1, <2>2 DEF RegistrationExact, regVars, taskVars
<1>3. CASE StartTasks
  BY <1>1, <1>3 DEF StartTasks, Goto, RegistrationExact, taskVars, TypeOK
<1>4. CASE ClearRunner
  BY <1>1, <1>4 DEF ClearRunner, Goto, RegistrationExact, taskVars, TypeOK
<1>5. ASSUME NEW t \in Tasks, LaunchNext(t)
      PROVE  RegistrationExact'
  BY <1>1, <1>5 DEF LaunchNext, Launch, RegistrationExact, runVars, TypeOK
<1>6. ASSUME NEW t \in Tasks, Add(t)
      PROVE  RegistrationExact'
  BY <1>1, <1>6 DEF Add, RegistrationExact, runVars, taskVars, TypeOK
<1>7. ASSUME NEW t \in Tasks, FinishAdd(t)
      PROVE  RegistrationExact'
  <2>1. CASE adding[t] = "runner"
    BY <1>1, <1>7, <2>1 DEF FinishAdd, Launch, RegistrationExact, runVars, TypeOK
  <2>2. CASE adding[t] = "norunner"
    BY <1>1, <1>7, <2>2 DEF FinishAdd, RegistrationExact, runVars, taskVars, TypeOK
  <2>3. QED
    BY <1>7, <2>1, <2>2 DEF FinishAdd
<1>8. ASSUME NEW t \in Tasks, TaskStep(t)
      PROVE  RegistrationExact'
  <2>1. /\ UNCHANGED <<runVars, regVars, starts>>
        /\ task[t] # "none" /\ task'[t] # "none"
        /\ \A u \in Tasks \ {t} : task'[u] = task[u]
    BY <1>1, <1>8
    DEF TaskStep, BeginTask, Wake, EndPeriodic, PassGate, TaskReturns, TaskFails,
        SetFatal, CancelRun, At, AfterCall, TaskFrame, TypeOK
  <2>2. QED
    BY <1>1, <2>1 DEF RegistrationExact, runVars, regVars
<1>9. CASE (\E j \in Jobs : JobStep(j)) \/ UNCHANGED vars
  <2>1. UNCHANGED <<runVars, regVars, taskVars>>
    BY <1>9
    DEF JobStep, Observe, DropEvent, ObserverReturns, ObserverFails, ReportReturns,
        ObserverPanics, RecoveryReturns, JobFrame, vars
  <2>2. QED
    BY <1>1, <2>1 DEF RegistrationExact, runVars, regVars, taskVars
<1>10. QED
  BY <1>2, <1>3, <1>4, <1>5, <1>6, <1>7, <1>8, <1>9 DEF Next, RunStep

\* The first failure stays the one Run returns.
LEMMA FailureKept ==
  IInv /\ [Next]_vars => FailureExact' /\ FirstFatalReturned'
<1> SUFFICES ASSUME IInv, [Next]_vars PROVE FailureExact' /\ FirstFatalReturned'
  OBVIOUS
<1>1. TypeOK /\ FailureExact /\ FirstFatalReturned
  BY DEF IInv
<1>2. CASE RunStep
  <2>1. UNCHANGED <<ctxDone, fatal, failures>>
    BY <1>2
    DEF RunStep, Enter, HookReturns, HookFails, StartHooksDone, StartTasks,
        LaunchNext, Launch, CallStart, StartReturns, Decide, CancelTasks,
        ClearRunner, JoinTasks, ShutdownHooksDone, StopState, ForgetContext, Leave,
        RunFrame, ctxVars, taskVars
  <2>2. \A t \in Tasks : task'[t] = "cancelling" => task[t] = "cancelling"
    BY <1>1, <1>2
    DEF RunStep, Enter, HookReturns, HookFails, StartHooksDone, StartTasks,
        LaunchNext, Launch, CallStart, StartReturns, Decide, CancelTasks,
        ClearRunner, JoinTasks, ShutdownHooksDone, StopState, ForgetContext, Leave,
        RunFrame, taskVars, TypeOK
  <2>3. runDone' /\ run' \in {"new", "start", "ready", "launch", "serve", "drain", "cancel"}
          => runDone /\ run \in {"new", "start", "ready", "launch", "serve", "drain", "cancel"}
    BY <1>1, <1>2
    DEF RunStep, Enter, HookReturns, HookFails, StartHooksDone, StartTasks,
        LaunchNext, Launch, CallStart, StartReturns, Decide, CancelTasks,
        ClearRunner, JoinTasks, ShutdownHooksDone, StopState, ForgetContext, Leave,
        RunFrame, Goto, ctxVars, runVars, TypeOK
  <2>4. endedBy' = "task" => endedBy = "task" \/ (run = "serve" /\ runDone /\ ~ctxDone)
    BY <1>1, <1>2
    DEF RunStep, Enter, HookReturns, HookFails, StartHooksDone, StartTasks,
        LaunchNext, Launch, CallStart, StartReturns, Decide, CancelTasks,
        ClearRunner, JoinTasks, ShutdownHooksDone, StopState, ForgetContext, Leave,
        RunFrame, runVars, TypeOK
  <2>5. /\ result' \in Tasks => result' = result \/ (fatal # NoTask /\ result' = fatal)
        /\ result' = "adapter" => result = "adapter" \/ fatal = NoTask \/ ctxDone
    BY <1>1, <1>2, AppAssumption
    DEF RunStep, Enter, HookReturns, HookFails, StartHooksDone, StartTasks,
        LaunchNext, Launch, CallStart, StartReturns, Decide, CancelTasks,
        ClearRunner, JoinTasks, ShutdownHooksDone, StopState, ForgetContext, Leave,
        RunFrame, runVars, TypeOK
  <2>6. run' \in {"new", "start", "ready", "launch", "serve", "drain"} => result' = "none"
    BY <1>1, <1>2
    DEF RunStep, Enter, HookReturns, HookFails, StartHooksDone, StartTasks,
        LaunchNext, Launch, CallStart, StartReturns, Decide, CancelTasks,
        ClearRunner, JoinTasks, ShutdownHooksDone, StopState, ForgetContext, Leave,
        RunFrame, Goto, runVars, TypeOK, FailureExact
  <2>7. FailureExact'
    BY <1>1, <2>1, <2>2, <2>3, <2>4, <2>6 DEF FailureExact
  <2>8. result' = "adapter" => endedBy' = endedBy
    BY <1>1, <1>2
    DEF RunStep, Enter, HookReturns, HookFails, StartHooksDone, StartTasks,
        LaunchNext, Launch, CallStart, StartReturns, Decide, CancelTasks,
        ClearRunner, JoinTasks, ShutdownHooksDone, StopState, ForgetContext, Leave,
        RunFrame, Goto, runVars, TypeOK, FailureExact
  <2>9. FirstFatalReturned'
    BY <1>1, <2>1, <2>5, <2>8 DEF FirstFatalReturned, FailureExact
  <2>10. QED
    BY <2>7, <2>9
<1>3. CASE CallerCancels
  BY <1>1, <1>3
  DEF CallerCancels, FailureExact, FirstFatalReturned, runVars, taskVars
<1>4. CASE Report
  BY <1>1, <1>4
  DEF Report, FailureExact, FirstFatalReturned, runVars, ctxVars, taskVars
<1>5. ASSUME NEW t \in Tasks, Add(t) \/ FinishAdd(t)
      PROVE  FailureExact' /\ FirstFatalReturned'
  <2>1. /\ UNCHANGED <<runVars, ctxVars, fatal, failures>>
        /\ \A u \in Tasks : task'[u] = "cancelling" => task[u] = "cancelling"
    BY <1>1, <1>5 DEF Add, FinishAdd, Launch, taskVars, TypeOK
  <2>2. QED
    BY <1>1, <2>1 DEF FailureExact, FirstFatalReturned, runVars, ctxVars
<1>6. ASSUME NEW t \in Tasks, TaskStep(t), ~SetFatal(t)
      PROVE  FailureExact' /\ FirstFatalReturned'
  <2>1. /\ UNCHANGED <<runVars, ctxDone, fatal, failures>>
        /\ \A u \in Tasks : task'[u] = "cancelling" => task[u] = "cancelling"
        /\ runDone' => runDone \/ task[t] = "cancelling"
    BY <1>1, <1>6
    DEF TaskStep, BeginTask, Wake, EndPeriodic, PassGate, TaskReturns, TaskFails,
        CancelRun, At, AfterCall, TaskFrame, ctxVars, TypeOK
  <2>2. QED
    BY <1>1, <2>1 DEF FailureExact, FirstFatalReturned, runVars
<1>7. ASSUME NEW t \in Tasks, SetFatal(t)
      PROVE  FailureExact' /\ FirstFatalReturned'
  <2>1. /\ UNCHANGED <<runVars, ctxVars>>
        /\ fatal' = IF fatal = NoTask THEN t ELSE fatal
        /\ failures \in Seq(Tasks) /\ failures' = Append(failures, t)
        /\ t # NoTask
    BY <1>1, <1>7, AppAssumption DEF SetFatal, TaskFrame, TypeOK
  <2>2. /\ failures' # <<>>
        /\ Head(failures') = IF failures = <<>> THEN t ELSE Head(failures)
    BY <2>1
  <2>3. fatal' # NoTask /\ fatal' = Head(failures')
    BY <1>1, <2>1, <2>2 DEF FailureExact
  <2>4. QED
    BY <1>1, <2>1, <2>2, <2>3 DEF FailureExact, FirstFatalReturned, runVars, ctxVars
<1>8. CASE (\E j \in Jobs : JobStep(j)) \/ UNCHANGED vars
  <2>1. UNCHANGED <<runVars, ctxVars, taskVars>>
    BY <1>8
    DEF JobStep, Observe, DropEvent, ObserverReturns, ObserverFails, ReportReturns,
        ObserverPanics, RecoveryReturns, JobFrame, vars
  <2>2. QED
    BY <1>1, <2>1 DEF FailureExact, FirstFatalReturned, runVars, ctxVars, taskVars
<1>9. QED
  BY <1>2, <1>3, <1>4, <1>5, <1>6, <1>7, <1>8 DEF Next

\* A handler of an observer takes and gives back a slot, or moves on.
LEMMA SlotSteps ==
  ASSUME TypeOK, NEW j \in Jobs, JobStep(j)
  PROVE  \/ /\ Observe(j)
            /\ j \notin Holding /\ Holding' = Holding \cup {j}
            /\ slots' = slots + 1
         \/ /\ job[j] \in {"running", "reporting"} /\ job'[j] \in {"ended", "recovered"}
            /\ j \in Holding /\ Holding' = Holding \ {j}
            /\ slots' = slots - 1 /\ jobCtx' = jobCtx
         \/ /\ Holding' = Holding
            /\ slots' = slots /\ jobCtx' = jobCtx
            /\ job[j] = "none" => job'[j] \in {"none", "dropped"}
<1>1. \A i \in Jobs \ {j} : job'[i] = job[i]
  BY DEF TypeOK, JobStep, Observe, DropEvent, ObserverReturns, ObserverFails,
         ReportReturns, ObserverPanics, RecoveryReturns
<1>2. CASE Observe(j)
  <2>1. job[j] = "none" /\ job'[j] = "running" /\ slots' = slots + 1
    BY <1>2 DEF TypeOK, Observe
  <2>2. j \notin Holding /\ Holding' = Holding \cup {j}
    BY <1>1, <2>1 DEF Holding
  <2>3. QED
    BY <1>2, <2>1, <2>2
<1>3. CASE ObserverReturns(j) \/ ReportReturns(j) \/ ObserverPanics(j)
  <2>1. /\ job[j] \in {"running", "reporting"} /\ job'[j] \in {"ended", "recovered"}
        /\ slots' = slots - 1 /\ jobCtx' = jobCtx
    BY <1>3 DEF TypeOK, ObserverReturns, ReportReturns, ObserverPanics
  <2>2. j \in Holding /\ Holding' = Holding \ {j}
    BY <1>1, <2>1 DEF Holding
  <2>3. QED
    BY <2>1, <2>2
<1>4. CASE DropEvent(j) \/ ObserverFails(j) \/ RecoveryReturns(j)
  <2>1. /\ slots' = slots /\ jobCtx' = jobCtx
        /\ job[j] = "none" => job'[j] \in {"none", "dropped"}
        /\ job[j] \in {"running", "reporting"} <=> job'[j] \in {"running", "reporting"}
    BY <1>4 DEF TypeOK, DropEvent, ObserverFails, RecoveryReturns
  <2>2. Holding' = Holding
    BY <1>1, <2>1 DEF Holding
  <2>3. QED
    BY <2>1, <2>2
<1>5. QED
  BY <1>2, <1>3, <1>4 DEF JobStep

\* Slots are held by handlers, and Run's handlers have its context.
LEMMA ObserversKept == IInv /\ [Next]_vars => ObserversExact'
<1> SUFFICES ASSUME IInv, [Next]_vars PROVE ObserversExact'
  OBVIOUS
<1>1. TypeOK /\ ObserversExact /\ slots = Cardinality(Holding)
  BY DEF IInv, ObserversExact, Holding
<1>2. CASE RunStep \/ CallerCancels \/ Report
  <2>1. UNCHANGED <<config, jobVars>>
    BY <1>2
    DEF RunStep, Enter, HookReturns, HookFails, StartHooksDone, StartTasks,
        LaunchNext, Launch, CallStart, StartReturns, Decide, CancelTasks,
        ClearRunner, JoinTasks, ShutdownHooksDone, StopState, ForgetContext, Leave,
        RunFrame, CallerCancels, Report
  <2>2. /\ observerCtx' = "run" <=> run' \notin {"new", "leave", "done"}
        /\ run' = "done" => runDone'
    BY <1>1, <1>2
    DEF RunStep, Enter, HookReturns, HookFails, StartHooksDone, StartTasks,
        LaunchNext, Launch, CallStart, StartReturns, Decide, CancelTasks,
        ClearRunner, JoinTasks, ShutdownHooksDone, StopState, ForgetContext, Leave,
        RunFrame, CallerCancels, Report, Goto, runVars, ctxVars, TypeOK,
        ObserversExact
  <2>3. QED
    BY <1>1, <2>1, <2>2 DEF ObserversExact, config, jobVars
<1>3. ASSUME NEW t \in Tasks, Add(t) \/ FinishAdd(t) \/ TaskStep(t)
      PROVE  ObserversExact'
  <2>1. UNCHANGED <<config, jobVars, observerCtx, run>> /\ (runDone => runDone')
    BY <1>3
    DEF Add, FinishAdd, TaskStep, BeginTask, Wake, EndPeriodic, PassGate,
        TaskReturns, TaskFails, SetFatal, CancelRun, TaskFrame, runVars, ctxVars
  <2>2. QED
    BY <1>1, <2>1 DEF ObserversExact, config, jobVars
<1>4. ASSUME NEW j \in Jobs, JobStep(j)
      PROVE  ObserversExact'
  <2>1. /\ UNCHANGED <<config, run, runDone, observerCtx>>
        /\ \A i \in Jobs \ {j} : job'[i] = job[i] /\ jobCtx'[i] = jobCtx[i]
    BY <1>1, <1>4
    DEF JobStep, Observe, DropEvent, ObserverReturns, ObserverFails, ReportReturns,
        ObserverPanics, RecoveryReturns, JobFrame, runVars, ctxVars, TypeOK
  <2>2. IsFiniteSet(Holding) /\ Cardinality(Holding) \in Nat
    BY HoldingFinite, FS_CardinalityType
  <2>3. CASE /\ Observe(j)
             /\ j \notin Holding /\ Holding' = Holding \cup {j}
             /\ slots' = slots + 1
    <3>1. slots' = Cardinality(Holding')
      BY <1>1, <2>2, <2>3, FS_AddElement
    <3>2. ~outside => jobCtx'[j] = "run"
      BY <1>1, <2>3 DEF Observe, Dispatching, ObserversExact, TypeOK
    <3>3. QED
      BY <1>1, <2>1, <3>1, <3>2 DEF ObserversExact, config, Holding
  <2>4. CASE /\ job[j] \in {"running", "reporting"} /\ job'[j] \in {"ended", "recovered"}
             /\ j \in Holding /\ Holding' = Holding \ {j}
             /\ slots' = slots - 1 /\ jobCtx' = jobCtx
    <3>1. slots' = Cardinality(Holding')
      BY <1>1, <2>2, <2>4, FS_RemoveElement
    <3>2. QED
      BY <1>1, <2>1, <2>4, <3>1 DEF ObserversExact, config, Holding
  <2>5. CASE /\ Holding' = Holding
             /\ slots' = slots /\ jobCtx' = jobCtx
             /\ job[j] = "none" => job'[j] \in {"none", "dropped"}
    <3>1. job[j] = "dropped" => job'[j] = "dropped"
      BY <1>1, <1>4
      DEF JobStep, Observe, DropEvent, ObserverReturns, ObserverFails, ReportReturns,
          ObserverPanics, RecoveryReturns, TypeOK
    <3>2. slots' = Cardinality(Holding')
      BY <1>1, <2>5
    <3>3. QED
      BY <1>1, <2>1, <2>5, <3>1, <3>2 DEF ObserversExact, config, Holding
  <2>6. QED
    BY <1>1, <1>4, <2>3, <2>4, <2>5, SlotSteps
<1>5. CASE UNCHANGED vars
  BY <1>1, <1>5
  DEF vars, config, runVars, ctxVars, jobVars, ObserversExact
<1>6. QED
  BY <1>2, <1>3, <1>4, <1>5 DEF Next

\* No task runs beside the shutdown hooks unless it was overtaken by the join.
LEMMA ShutdownKept == IInv /\ [Next]_vars => ShutdownAfterTasks'
<1> SUFFICES ASSUME IInv, [Next]_vars PROVE ShutdownAfterTasks'
  OBVIOUS
<1>1. TypeOK /\ RegistrationExact /\ ShutdownAfterTasks
  BY DEF IInv
<1>2. CASE \/ Enter \/ HookReturns \/ HookFails \/ StartHooksDone \/ StartTasks
           \/ CallStart \/ StartReturns \/ Decide \/ CancelTasks \/ ClearRunner
           \/ ShutdownHooksDone \/ StopState \/ ForgetContext \/ Leave
           \/ CallerCancels \/ Report
  <2>1. UNCHANGED taskVars
    BY <1>2
    DEF Enter, HookReturns, HookFails, StartHooksDone, StartTasks, CallStart,
        StartReturns, Decide, CancelTasks, ClearRunner, ShutdownHooksDone, StopState,
        ForgetContext, Leave, CallerCancels, Report, RunFrame
  <2>2. run' \in {"shutdown", "stop", "unobserve", "leave", "done"}
          => run \in {"start", "ready", "shutdown", "stop", "unobserve", "leave", "done"}
    BY <1>1, <1>2
    DEF Enter, HookReturns, HookFails, StartHooksDone, StartTasks, CallStart,
        StartReturns, Decide, CancelTasks, ClearRunner, ShutdownHooksDone, StopState,
        ForgetContext, Leave, CallerCancels, Report, RunFrame, Goto, runVars, TypeOK
  <2>3. QED
    BY <1>1, <2>1, <2>2 DEF ShutdownAfterTasks, RegistrationExact, Alive, taskVars
<1>3. CASE JoinTasks
  BY <1>3 DEF JoinTasks, RunFrame, ShutdownAfterTasks, Alive, taskVars
<1>4. ASSUME NEW t \in Tasks, LaunchNext(t)
      PROVE  ShutdownAfterTasks'
  BY <1>4 DEF LaunchNext, runVars, ShutdownAfterTasks
<1>5. ASSUME NEW t \in Tasks, Add(t) \/ FinishAdd(t)
      PROVE  ShutdownAfterTasks'
  <2>1. CASE UNCHANGED taskVars
    BY <1>1, <1>5, <2>1 DEF Add, FinishAdd, runVars, taskVars, ShutdownAfterTasks, Alive
  <2>2. CASE Launch(t)
    BY <1>1, <1>5, <2>2
    DEF Add, FinishAdd, Launch, runVars, ShutdownAfterTasks, Alive, TypeOK
  <2>3. QED
    BY <1>5, <2>1, <2>2 DEF Add, FinishAdd
<1>6. ASSUME NEW t \in Tasks, TaskStep(t)
      PROVE  ShutdownAfterTasks'
  <2>1. /\ UNCHANGED <<run, late>>
        /\ task[t] \notin {"none", "ended"}
        /\ \A u \in Tasks \ {t} : task'[u] = task[u]
    BY <1>1, <1>6
    DEF TaskStep, BeginTask, Wake, EndPeriodic, PassGate, TaskReturns, TaskFails,
        SetFatal, CancelRun, At, TaskFrame, runVars, TypeOK
  <2>2. QED
    BY <1>1, <2>1 DEF ShutdownAfterTasks, Alive
<1>7. CASE (\E j \in Jobs : JobStep(j)) \/ UNCHANGED vars
  <2>1. UNCHANGED <<runVars, taskVars>>
    BY <1>7
    DEF JobStep, Observe, DropEvent, ObserverReturns, ObserverFails, ReportReturns,
        ObserverPanics, RecoveryReturns, JobFrame, vars
  <2>2. QED
    BY <1>1, <2>1 DEF ShutdownAfterTasks, Alive, runVars, taskVars
<1>8. QED
  BY <1>2, <1>3, <1>4, <1>5, <1>6, <1>7 DEF Next, RunStep

-----------------------------------------------------------------------------
\* A task that is started keeps the types.
LEMMA LaunchTypes ==
  ASSUME TypeOK, NEW t \in Tasks, Launch(t)
  PROVE  /\ task' \in [Tasks -> {"none", "launched", "gated", "asleep", "called",
                                 "failing", "cancelling", "ended"}]
         /\ starts' \in [Tasks -> Nat] /\ late' \in SUBSET Tasks
         /\ UNCHANGED <<fatal, failures>>
BY DEF Launch, TypeOK

\* Every variable keeps its type; the slots never become fewer than none.
LEMMA TypeKept == IInv /\ [Next]_vars => TypeOK'
<1> SUFFICES ASSUME IInv, [Next]_vars PROVE TypeOK'
  OBVIOUS
<1>1. TypeOK
  BY DEF IInv
<1>2. CASE RunStep
  <2>1. UNCHANGED <<config, ctxDone, tasks, adding, fatal, failures, jobVars>>
    BY <1>2
    DEF RunStep, Enter, HookReturns, HookFails, StartHooksDone, StartTasks,
        LaunchNext, Launch, CallStart, StartReturns, Decide, CancelTasks,
        ClearRunner, JoinTasks, ShutdownHooksDone, StopState, ForgetContext, Leave,
        RunFrame, ctxVars, regVars, taskVars
  <2>2. /\ run' \in {"new", "start", "ready", "launch", "serve", "drain", "cancel",
                     "clear", "join", "shutdown", "stop", "unobserve", "leave", "done"}
        /\ endedBy' \in {"none", "itself", "task", "caller"}
    BY <1>1, <1>2
    DEF RunStep, Enter, HookReturns, HookFails, StartHooksDone, StartTasks,
        LaunchNext, CallStart, StartReturns, Decide, CancelTasks, ClearRunner,
        JoinTasks, ShutdownHooksDone, StopState, ForgetContext, Leave, Goto,
        runVars, TypeOK
  <2> /\ adapter' \in {"starting", "ready", "stopped"}
      /\ observerCtx' \in {"none", "run"}
      /\ runDone' \in BOOLEAN
    BY <1>1, <1>2
    DEF RunStep, Enter, HookReturns, HookFails, StartHooksDone, StartTasks,
        LaunchNext, CallStart, StartReturns, Decide, CancelTasks, ClearRunner,
        JoinTasks, ShutdownHooksDone, StopState, ForgetContext, Leave, RunFrame,
        ctxVars, TypeOK
  <2> runner' \in BOOLEAN /\ toStart' \in SUBSET Tasks
    BY <1>1, <1>2
    DEF RunStep, Enter, HookReturns, HookFails, StartHooksDone, StartTasks,
        LaunchNext, CallStart, StartReturns, Decide, CancelTasks, ClearRunner,
        JoinTasks, ShutdownHooksDone, StopState, ForgetContext, Leave, RunFrame,
        regVars, TypeOK
  <2>3. hook' \in 0..Hooks
    <3>1. CASE HookReturns
      BY <1>1, <3>1, AppAssumption DEF HookReturns, TypeOK
    <3>2. CASE ~HookReturns
      BY <1>1, <1>2, <3>2, AppAssumption
      DEF RunStep, Enter, HookFails, StartHooksDone, StartTasks, LaunchNext,
          CallStart, StartReturns, Decide, CancelTasks, ClearRunner, JoinTasks,
          ShutdownHooksDone, StopState, ForgetContext, Leave, Goto, runVars, TypeOK
    <3>3. QED
      BY <3>1, <3>2
  <2>4. result' \in {"none", "hook", "adapter"} \cup Tasks
    BY <1>1, <1>2
    DEF RunStep, Enter, HookReturns, HookFails, StartHooksDone, StartTasks,
        LaunchNext, CallStart, StartReturns, Decide, CancelTasks, ClearRunner,
        JoinTasks, ShutdownHooksDone, StopState, ForgetContext, Leave, RunFrame,
        runVars, TypeOK
  <2>5. /\ task' \in [Tasks -> {"none", "launched", "gated", "asleep", "called",
                                "failing", "cancelling", "ended"}]
        /\ starts' \in [Tasks -> Nat] /\ late' \in SUBSET Tasks
    <3>1. UNCHANGED taskVars \/ \E t \in Tasks : Launch(t)
      BY <1>2
      DEF RunStep, Enter, HookReturns, HookFails, StartHooksDone, StartTasks,
          LaunchNext, CallStart, StartReturns, Decide, CancelTasks, ClearRunner,
          JoinTasks, ShutdownHooksDone, StopState, ForgetContext, Leave, RunFrame
    <3>2. CASE UNCHANGED taskVars
      BY <1>1, <3>2 DEF taskVars, TypeOK
    <3>3. QED
      BY <1>1, <3>1, <3>2, LaunchTypes
  <2>6. QED
    BY <1>1, <2>1, <2>2, <2>3, <2>4, <2>5 DEF TypeOK, config, jobVars
<1>3. CASE CallerCancels \/ Report
  <2>1. /\ UNCHANGED <<config, runVars, regVars, taskVars, observerCtx, jobVars>>
        /\ adapter' \in {"starting", "ready", "stopped"}
        /\ ctxDone' \in BOOLEAN /\ runDone' \in BOOLEAN
    BY <1>1, <1>3 DEF CallerCancels, Report, ctxVars, TypeOK
  <2>2. QED
    BY <1>1, <2>1 DEF TypeOK, config, runVars, regVars, taskVars, jobVars
<1>4. ASSUME NEW t \in Tasks, Add(t) \/ FinishAdd(t)
      PROVE  TypeOK'
  <2>1. UNCHANGED <<config, runVars, ctxVars, runner, toStart, fatal, failures,
                    adapter, observerCtx, jobVars>>
    BY <1>4 DEF Add, FinishAdd, Launch, taskVars
  <2>2. tasks' \in SUBSET Tasks
        /\ adding' \in [Tasks -> {"out", "runner", "norunner", "added"}]
    BY <1>1, <1>4 DEF Add, FinishAdd, TypeOK
  <2>3. /\ task' \in [Tasks -> {"none", "launched", "gated", "asleep", "called",
                                "failing", "cancelling", "ended"}]
        /\ starts' \in [Tasks -> Nat] /\ late' \in SUBSET Tasks
    <3>1. CASE UNCHANGED taskVars
      BY <1>1, <3>1 DEF taskVars, TypeOK
    <3>2. CASE Launch(t)
      BY <1>1, <3>2, LaunchTypes
    <3>3. QED
      BY <1>4, <3>1, <3>2 DEF Add, FinishAdd
  <2>4. QED
    BY <1>1, <2>1, <2>2, <2>3 DEF TypeOK, config, runVars, ctxVars, jobVars
<1>5. ASSUME NEW t \in Tasks, TaskStep(t)
      PROVE  TypeOK'
  <2>1. UNCHANGED <<config, runVars, regVars, starts, late, ctxDone, adapter,
                    observerCtx, jobVars>>
    BY <1>5
    DEF TaskStep, BeginTask, Wake, EndPeriodic, PassGate, TaskReturns, TaskFails,
        SetFatal, CancelRun, At, TaskFrame, ctxVars
  <2>2. task' \in [Tasks -> {"none", "launched", "gated", "asleep", "called",
                             "failing", "cancelling", "ended"}]
    BY <1>1, <1>5
    DEF TaskStep, BeginTask, Wake, EndPeriodic, PassGate, TaskReturns, TaskFails,
        SetFatal, CancelRun, At, AfterCall, TypeOK
  <2>3. /\ runDone' \in BOOLEAN /\ fatal' \in Tasks \cup {NoTask}
    BY <1>1, <1>5
    DEF TaskStep, BeginTask, Wake, EndPeriodic, PassGate, TaskReturns, TaskFails,
        SetFatal, CancelRun, ctxVars, TypeOK
  <2>4. failures' \in Seq(Tasks)
    <3>1. failures \in Seq(Tasks) /\ Append(failures, t) \in Seq(Tasks)
      BY <1>1 DEF TypeOK
    <3>2. QED
      BY <1>5, <3>1
      DEF TaskStep, BeginTask, Wake, EndPeriodic, PassGate, TaskReturns, TaskFails,
          SetFatal, CancelRun
  <2>5. QED
    BY <1>1, <2>1, <2>2, <2>3, <2>4 DEF TypeOK, config, runVars, regVars, jobVars
<1>6. ASSUME NEW j \in Jobs, JobStep(j)
      PROVE  TypeOK'
  <2>1. UNCHANGED <<config, runVars, ctxVars, regVars, taskVars, adapter, observerCtx>>
    BY <1>6
    DEF JobStep, Observe, DropEvent, ObserverReturns, ObserverFails, ReportReturns,
        ObserverPanics, RecoveryReturns, JobFrame
  <2>2. /\ job' \in [Jobs -> {"none", "running", "reporting", "recovered", "ended",
                              "dropped"}]
        /\ jobCtx' \in [Jobs -> {"none", "run"}]
    BY <1>1, <1>6
    DEF JobStep, Observe, DropEvent, ObserverReturns, ObserverFails, ReportReturns,
        ObserverPanics, RecoveryReturns, TypeOK
  <2>3. slots' \in Nat
    <3>1. /\ slots = Cardinality(Holding) /\ slots \in Nat
          /\ IsFiniteSet(Holding)
      BY <1>1, HoldingFinite DEF IInv, ObserversExact, Holding, TypeOK
    <3>2. IsFiniteSet(Holding \ {j}) /\ Cardinality(Holding \ {j}) \in Nat
      BY <3>1, FS_RemoveElement, FS_CardinalityType
    <3>3. j \in Holding => slots - 1 \in Nat
      BY <3>1, <3>2, FS_RemoveElement
    <3>4. QED
      BY <1>1, <1>6, <3>1, <3>3, SlotSteps
  <2>4. QED
    BY <1>1, <2>1, <2>2, <2>3
    DEF TypeOK, config, runVars, ctxVars, regVars, taskVars
<1>7. CASE UNCHANGED vars
  BY <1>1, <1>7
  DEF vars, config, runVars, ctxVars, regVars, taskVars, jobVars, TypeOK
<1>8. QED
  BY <1>2, <1>3, <1>4, <1>5, <1>6, <1>7 DEF Next

LEMMA StepIInv == IInv /\ [Next]_vars => IInv'
BY TypeKept, RegistrationKept, FailureKept, ObserversKept, ShutdownKept DEF IInv

-----------------------------------------------------------------------------
\* The inductive invariant holds in every reachable state.
THEOREM Invariance == Spec => []IInv
BY InitIInv, StepIInv, PTL DEF Spec

\* Every variable keeps its type; no release of a slot is one too many
\* (core/observer.go).
THEOREM TypeCorrect == Spec => []TypeOK
<1>1. IInv => TypeOK
  BY DEF IInv
<1>2. QED
  BY <1>1, Invariance, PTL

\* Whatever the order of a call of Go or Every and of the start of the runtime, a
\* task is started once (core/task.go:82-102).
THEOREM TasksStartOnce == Spec => []StartedOnce
<1>1. IInv => StartedOnce
  BY DEF IInv, TypeOK, RegistrationExact, StartedOnce
<1>2. QED
  BY <1>1, Invariance, PTL

\* Run returns the error of the first critical task that failed
\* (core/task.go:23, core/app.go:130).
THEOREM FirstFailureWins == Spec => []FirstFatalReturned
<1>1. IInv => FirstFatalReturned
  BY DEF IInv
<1>2. QED
  BY <1>1, Invariance, PTL

\* The shutdown hooks have the runtime for themselves, up to a registration that
\* the join has overtaken (core/app.go:160-165).
THEOREM HooksAfterTasks == Spec => []ShutdownAfterTasks
<1>1. IInv => ShutdownAfterTasks
  BY DEF IInv
<1>2. QED
  BY <1>1, Invariance, PTL

\* No observer of Run's events keeps a context that lives on after Run
\* (core/observer.go:124-136).
THEOREM ObserversEnd == Spec => []ObserversCancelled
<1>1. IInv => ObserversCancelled
  BY DEF IInv, ObserversExact, ObserversCancelled
<1>2. QED
  BY <1>1, Invariance, PTL
===============================================================================
