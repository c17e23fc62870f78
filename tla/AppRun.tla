------------------------------- MODULE AppRun -------------------------------
(***************************************************************************)
(* core/lifecycle.go, core/task.go, core/observer.go and the frame of      *)
(* App.Run in core/app.go: hooks, background tasks and observers around    *)
(* the event pump.                                                         *)
(*                                                                         *)
(* Run's progress is `run`, in this order:                                 *)
(*   "new"       before the call                                           *)
(*   "start"     start hooks                                               *)
(*   "ready"     ready hooks                                               *)
(*   "launch"    startTasks has made its runner and starts its tasks       *)
(*   "serve"     adapter.Start                                             *)
(*   "drain"     Start has returned; the workers finish (EventPump)        *)
(*   "cancel", "clear", "join"   the deferred end of the tasks             *)
(*   "shutdown"  shutdown hooks                                            *)
(*   "stop"      stopAdapterState                                          *)
(*   "unobserve" setObserverContext(nil)                                   *)
(*   "leave"     the first deferred function, cancelRun                    *)
(*   "done"      Run has returned                                          *)
(* A task's goroutine is at task[t], a call of Go or Every at adding[t],   *)
(* an observer's goroutine at job[j].                                      *)
(***************************************************************************)
EXTENDS Naturals, Sequences, FiniteSets

CONSTANTS
  Tasks,      \* background tasks, each registered once
  Early,      \* those registered before Run
  Critical,   \* registered with TaskCritical
  Periodic,   \* registered with Every, the others with Go
  Immediate,  \* registered with TaskImmediate
  Gated,      \* registered with GoWhenActionReady
  Jobs,       \* pairs of an event and an observer that matches it
  Slots,      \* capacity of observerSlots
  Casts,      \* the sets of tasks and jobs to consider
  Hooks,      \* number of hooks of each kind
  NoTask

ASSUME AppAssumption ==
  /\ Early \subseteq Tasks /\ Critical \subseteq Tasks
  /\ Periodic \subseteq Tasks /\ Immediate \subseteq Periodic
  /\ Gated \subseteq Tasks \ Periodic
  /\ IsFiniteSet(Jobs) /\ Casts \subseteq SUBSET (Tasks \cup Jobs)
  /\ Slots \in Nat /\ Hooks \in Nat
  /\ NoTask \notin Tasks /\ {"none", "hook", "adapter"} \cap Tasks = {}

VARIABLES
  cast,        \* the tasks and jobs that come up in this behaviour (fixed)
  outside,     \* events are also dispatched outside Run: App.Dispatch, or
               \* adapter goroutines that outlive Start (fixed)
  run,         \* see above
  hook,        \* hooks of this phase that have run
  ctxDone,     \* the caller's context is cancelled
  runDone,     \* runCtx is cancelled
  endedBy,     \* what made Start return: "itself", "task" or "caller"
  result,      \* what Run returns: "none" yet, "hook", "adapter" or a task
  tasks,       \* App.tasks
  runner,      \* App.taskRunner is set
  toStart,     \* the copy of App.tasks that startTasks goes through
  adding,      \* adding[t]: "out", "runner", "norunner" or "added"
  task,        \* task[t]: see TypeOK
  starts,      \* history: how often each task has been started
  late,        \* history: tasks started after Run had waited for the tasks
  fatal,       \* taskRunner.err
  failures,    \* history: the order in which setFatal was called
  adapter,     \* App.adapterState: "starting", "ready" or "stopped"
  observerCtx, \* App.observerContext: "run" or "none"
  job, jobCtx, \* an observer's goroutine and its context's lifecycle
  slots        \* len(observerSlots)

config == <<cast, outside>>
runVars == <<run, hook, endedBy, result>>
ctxVars == <<ctxDone, runDone>>
regVars == <<tasks, runner, toStart, adding>>
taskVars == <<task, starts, late, fatal, failures>>
jobVars == <<job, jobCtx, slots>>
vars == <<config, runVars, ctxVars, regVars, taskVars, adapter, observerCtx,
          jobVars>>

Init ==
  /\ cast \in Casts /\ outside \in BOOLEAN
  /\ run = "new" /\ hook = 0 /\ endedBy = "none" /\ result = "none"
  /\ ctxDone = FALSE /\ runDone = FALSE
  /\ tasks = Early \cap cast /\ runner = FALSE /\ toStart = {}
  /\ adding = [t \in Tasks |-> IF t \in Early \cap cast THEN "added" ELSE "out"]
  /\ task = [t \in Tasks |-> "none"]
  /\ starts = [t \in Tasks |-> 0]
  /\ late = {} /\ fatal = NoTask /\ failures = <<>>
  /\ adapter = "starting"
  /\ observerCtx = "none"
  /\ job = [j \in Jobs |-> "none"]
  /\ jobCtx = [j \in Jobs |-> "none"]
  /\ slots = 0

-----------------------------------------------------------------------------
\* The frame of Run.

Goto(place) == run' = place /\ hook' = 0

\* A step of Run that changes nothing but Run's progress.
RunFrame ==
  UNCHANGED <<config, ctxVars, regVars, taskVars, adapter, observerCtx, jobVars>>

\* Run begins: setObserverContext, bindAdapterState.
Enter ==
  /\ run = "new"
  /\ observerCtx' = "run"
  /\ adapter' = "starting"
  /\ Goto("start")
  /\ UNCHANGED <<config, endedBy, result, ctxVars, regVars, taskVars, jobVars>>

\* runHooks calls the next hook of the phase, and it succeeds.
HookReturns ==
  /\ run \in {"start", "ready", "shutdown"}
  /\ hook < Hooks
  /\ hook' = hook + 1
  /\ UNCHANGED <<run, endedBy, result>> /\ RunFrame

\* The hook fails and the phase ends with it.  A start hook's failure skips the
\* shutdown hooks, whose defer has not been reached; a shutdown hook's is
\* logged.
HookFails ==
  /\ run \in {"start", "ready", "shutdown"}
  /\ hook < Hooks
  /\ Goto(IF run = "ready" THEN "shutdown" ELSE "stop")
  /\ result' = IF run = "shutdown" THEN result ELSE "hook"
  /\ UNCHANGED endedBy /\ RunFrame

StartHooksDone ==
  /\ run = "start" /\ hook = Hooks
  /\ Goto("ready")
  /\ UNCHANGED <<endedBy, result>> /\ RunFrame

\* Faulty: the tasks are copied in one section, the runner published in another.
CopyThenPublish ==
  /\ run = "ready" /\ hook = Hooks
  /\ \/ toStart' = tasks /\ UNCHANGED <<runner, run, hook>>
     \/ toStart # {} /\ toStart' = toStart /\ runner' = TRUE /\ Goto("launch")
  /\ UNCHANGED <<config, endedBy, result, ctxVars, tasks, adding, taskVars,
                 adapter, observerCtx, jobVars>>

\* startTasks: publish the runner and copy the tasks in one section.
StartTasks ==
  /\ run = "ready" /\ hook = Hooks
  /\ runner' = TRUE
  /\ toStart' = tasks
  /\ Goto("launch")
  /\ UNCHANGED <<config, endedBy, result, ctxVars, tasks, adding, taskVars,
                 adapter, observerCtx, jobVars>>

\* taskRunner.start: count the task and start its goroutine.
Launch(t) ==
  /\ task' = [task EXCEPT ![t] = "launched"]
  /\ starts' = [starts EXCEPT ![t] = @ + 1]
  /\ late' = IF run \in {"shutdown", "stop", "unobserve", "leave", "done"}
               THEN late \cup {t} ELSE late
  /\ UNCHANGED <<fatal, failures>>

LaunchNext(t) ==
  /\ run = "launch"
  /\ t \in toStart
  /\ toStart' = toStart \ {t}
  /\ Launch(t)
  /\ UNCHANGED <<config, runVars, ctxVars, tasks, runner, adding, adapter,
                 observerCtx, jobVars>>

CallStart ==
  /\ run = "launch" /\ toStart = {}
  /\ Goto("serve")
  /\ UNCHANGED <<endedBy, result>> /\ RunFrame

\* The adapter's reports (AdapterStates).
Report ==
  /\ run = "serve"
  /\ adapter' \in {"starting", "ready"} \ {adapter}
  /\ UNCHANGED <<config, runVars, ctxVars, regVars, taskVars, observerCtx,
                 jobVars>>

\* Faulty: the observers' context is forgotten with the adapter's end.
StartReturnsForgetting ==
  /\ run = "serve"
  /\ endedBy' = IF ~runDone THEN "itself" ELSE IF ctxDone THEN "caller" ELSE "task"
  /\ observerCtx' = "none"
  /\ Goto("drain")
  /\ UNCHANGED <<config, result, ctxVars, regVars, taskVars, adapter, jobVars>>

\* adapter.Start returns, because runCtx is done or for reasons of its own.
StartReturns ==
  /\ run = "serve"
  /\ endedBy' = IF ~runDone THEN "itself" ELSE IF ctxDone THEN "caller" ELSE "task"
  /\ Goto("drain")
  /\ UNCHANGED result /\ RunFrame

\* The workers are joined, and Run decides what to return.
Decide ==
  /\ run = "drain"
  /\ result' = IF fatal # NoTask /\ ~ctxDone THEN fatal ELSE "adapter"
  /\ Goto("cancel")
  /\ UNCHANGED endedBy /\ RunFrame

\* The deferred end of the tasks: cancelRun ...
CancelTasks ==
  /\ run = "cancel"
  /\ runDone' = TRUE
  /\ Goto("clear")
  /\ UNCHANGED <<config, endedBy, result, ctxDone, regVars, taskVars, adapter,
                 observerCtx, jobVars>>

\* ... clearTaskRunner ...
ClearRunner ==
  /\ run = "clear"
  /\ runner' = FALSE
  /\ Goto("join")
  /\ UNCHANGED <<config, endedBy, result, ctxVars, tasks, toStart, adding,
                 taskVars, adapter, observerCtx, jobVars>>

Alive(t) == task[t] \notin {"none", "ended"}

\* Faulty: the shutdown hooks do not wait for the tasks.
JoinNobody ==
  /\ run = "join"
  /\ Goto("shutdown")
  /\ UNCHANGED <<endedBy, result>> /\ RunFrame

\* ... and stop, which waits for them.
JoinTasks ==
  /\ run = "join"
  /\ \A t \in Tasks : ~Alive(t)
  /\ Goto("shutdown")
  /\ UNCHANGED <<endedBy, result>> /\ RunFrame

ShutdownHooksDone ==
  /\ run = "shutdown" /\ hook = Hooks
  /\ Goto("stop")
  /\ UNCHANGED <<endedBy, result>> /\ RunFrame

StopState ==
  /\ run = "stop"
  /\ adapter' = "stopped"
  /\ Goto("unobserve")
  /\ UNCHANGED <<config, endedBy, result, ctxVars, regVars, taskVars,
                 observerCtx, jobVars>>

ForgetContext ==
  /\ run = "unobserve"
  /\ observerCtx' = "none"
  /\ Goto("leave")
  /\ UNCHANGED <<config, endedBy, result, ctxVars, regVars, taskVars, adapter,
                 jobVars>>

Leave ==
  /\ run = "leave"
  /\ runDone' = TRUE
  /\ Goto("done")
  /\ UNCHANGED <<config, endedBy, result, ctxDone, regVars, taskVars, adapter,
                 observerCtx, jobVars>>

\* The caller cancels its context, and with it runCtx.
CallerCancels ==
  /\ ~ctxDone
  /\ ctxDone' = TRUE
  /\ runDone' = TRUE
  /\ UNCHANGED <<config, runVars, regVars, taskVars, adapter, observerCtx,
                 jobVars>>

RunStep ==
  \/ Enter \/ HookReturns \/ HookFails \/ StartHooksDone \/ StartTasks
  \/ (\E t \in Tasks : LaunchNext(t)) \/ CallStart \/ StartReturns \/ Decide
  \/ CancelTasks \/ ClearRunner \/ JoinTasks \/ ShutdownHooksDone
  \/ StopState \/ ForgetContext \/ Leave

-----------------------------------------------------------------------------
\* Registration, by any goroutine at any time.

\* addTask: append the task and look for a runner in one section ...
Add(t) ==
  /\ t \in cast /\ adding[t] = "out"
  /\ tasks' = tasks \cup {t}
  /\ adding' = [adding EXCEPT ![t] = IF runner THEN "runner" ELSE "norunner"]
  /\ UNCHANGED <<config, runVars, ctxVars, runner, toStart, taskVars, adapter,
                 observerCtx, jobVars>>

\* ... then start it if there was one, whatever has become of it.
FinishAdd(t) ==
  /\ adding[t] \in {"runner", "norunner"}
  /\ adding' = [adding EXCEPT ![t] = "added"]
  /\ IF adding[t] = "runner" THEN Launch(t) ELSE UNCHANGED taskVars
  /\ UNCHANGED <<config, runVars, ctxVars, tasks, runner, toStart, adapter,
                 observerCtx, jobVars>>

-----------------------------------------------------------------------------
\* A task's goroutine.

At(t, place) == task' = [task EXCEPT ![t] = place] /\ UNCHANGED <<starts, late>>

TaskFrame == UNCHANGED <<config, runVars, regVars, adapter, observerCtx, jobVars>>

\* runOnce calls the task at once, runEvery if it is immediate.
BeginTask(t) ==
  /\ task[t] = "launched"
  /\ At(t, IF t \in Gated THEN "gated"
           ELSE IF t \in Periodic \ Immediate THEN "asleep" ELSE "called")
  /\ UNCHANGED <<ctxVars, fatal, failures>>
  /\ TaskFrame

\* The timer fires.
Wake(t) ==
  /\ task[t] = "asleep"
  /\ At(t, "called")
  /\ UNCHANGED <<ctxVars, fatal, failures>>
  /\ TaskFrame

\* runEvery's select takes ctx.Done.
EndPeriodic(t) ==
  /\ task[t] = "asleep"
  /\ runDone
  /\ At(t, "ended")
  /\ UNCHANGED <<ctxVars, fatal, failures>>
  /\ TaskFrame

\* WaitActionReady succeeds.
PassGate(t) ==
  /\ task[t] = "gated"
  /\ adapter = "ready"
  /\ At(t, "called")
  /\ UNCHANGED <<ctxVars, fatal, failures>>
  /\ TaskFrame

\* What the goroutine does after a call that needs no action.
AfterCall(t) == IF t \in Periodic THEN "asleep" ELSE "ended"

\* The task returns nil, or an error of its context when that is done
\* (taskContextDone), or an error that is only logged.
TaskReturns(t) ==
  /\ task[t] = "called" \/ (task[t] = "gated" /\ runDone)
  /\ At(t, AfterCall(t))
  /\ UNCHANGED <<ctxVars, fatal, failures>>
  /\ TaskFrame

\* The task fails or panics, and it is critical.  A gated one also fails when
\* the runtime has stopped (ErrActionUnavailable).
TaskFails(t) ==
  /\ t \in Critical
  /\ task[t] = "called" \/ (task[t] = "gated" /\ adapter = "stopped")
  /\ At(t, "failing")
  /\ UNCHANGED <<ctxVars, fatal, failures>>
  /\ TaskFrame

\* Faulty: the last failure wins.
SetFatalLast(t) ==
  /\ task[t] = "failing"
  /\ fatal' = t
  /\ failures' = Append(failures, t)
  /\ At(t, "cancelling")
  /\ UNCHANGED ctxVars
  /\ TaskFrame

\* setFatal: the first failure is kept ...
SetFatal(t) ==
  /\ task[t] = "failing"
  /\ fatal' = IF fatal = NoTask THEN t ELSE fatal
  /\ failures' = Append(failures, t)
  /\ At(t, "cancelling")
  /\ UNCHANGED ctxVars
  /\ TaskFrame

\* Faulty: the failure is only noted.
CancelNothing(t) ==
  /\ task[t] = "cancelling"
  /\ At(t, "ended")
  /\ UNCHANGED <<ctxVars, fatal, failures>>
  /\ TaskFrame

\* ... and runCtx is cancelled.
CancelRun(t) ==
  /\ task[t] = "cancelling"
  /\ runDone' = TRUE
  /\ At(t, "ended")
  /\ UNCHANGED <<ctxDone, fatal, failures>>
  /\ TaskFrame

TaskStep(t) ==
  \/ BeginTask(t) \/ Wake(t) \/ EndPeriodic(t) \/ PassGate(t)
  \/ TaskReturns(t) \/ TaskFails(t) \/ SetFatal(t) \/ CancelRun(t)

-----------------------------------------------------------------------------
\* Observers.

JobFrame ==
  UNCHANGED <<config, runVars, ctxVars, regVars, taskVars, adapter, observerCtx>>

\* An event is being dispatched.
Dispatching == outside \/ run \in {"serve", "drain"}

\* enqueueObserver gets a slot; the handler's context ends with the Run that is
\* going on, if there is one (observerHandlerContext).
Observe(j) ==
  /\ Dispatching
  /\ j \in cast /\ job[j] = "none"
  /\ slots < Slots
  /\ slots' = slots + 1
  /\ job' = [job EXCEPT ![j] = "running"]
  /\ jobCtx' = [jobCtx EXCEPT ![j] = observerCtx]
  /\ JobFrame

\* enqueueObserver gets none and drops the event.
DropEvent(j) ==
  /\ Dispatching
  /\ j \in cast /\ job[j] = "none"
  /\ slots = Slots
  /\ job' = [job EXCEPT ![j] = "dropped"]
  /\ UNCHANGED <<jobCtx, slots>>
  /\ JobFrame

\* The handler succeeds and the slot is given back.
ObserverReturns(j) ==
  /\ job[j] = "running"
  /\ job' = [job EXCEPT ![j] = "ended"]
  /\ slots' = slots - 1
  /\ UNCHANGED jobCtx
  /\ JobFrame

\* It fails: the error handlers run before the deferred release ...
ObserverFails(j) ==
  /\ job[j] = "running"
  /\ job' = [job EXCEPT ![j] = "reporting"]
  /\ UNCHANGED <<jobCtx, slots>>
  /\ JobFrame

\* ... which comes after them.
ReportReturns(j) ==
  /\ job[j] = "reporting"
  /\ job' = [job EXCEPT ![j] = "ended"]
  /\ slots' = slots - 1
  /\ UNCHANGED jobCtx
  /\ JobFrame

\* The handler, or an error handler, panics: the slot is released first and the
\* error handlers run without it.
ObserverPanics(j) ==
  /\ job[j] \in {"running", "reporting"}
  /\ job' = [job EXCEPT ![j] = "recovered"]
  /\ slots' = slots - 1
  /\ UNCHANGED jobCtx
  /\ JobFrame

\* The error handlers called with the panic return.
RecoveryReturns(j) ==
  /\ job[j] = "recovered"
  /\ job' = [job EXCEPT ![j] = "ended"]
  /\ UNCHANGED <<jobCtx, slots>>
  /\ JobFrame

JobStep(j) ==
  \/ Observe(j) \/ DropEvent(j) \/ ObserverReturns(j) \/ ObserverFails(j)
  \/ ReportReturns(j) \/ ObserverPanics(j) \/ RecoveryReturns(j)

-----------------------------------------------------------------------------
Next ==
  \/ RunStep \/ CallerCancels \/ Report
  \/ \E t \in Tasks : Add(t) \/ FinishAdd(t) \/ TaskStep(t)
  \/ \E j \in Jobs : JobStep(j)

Spec == Init /\ [][Next]_vars

(***************************************************************************)
(* Fairness.  Run's own steps, hooks included, end; Start returns once its *)
(* context is done; a task returns once its context is done, and a         *)
(* periodic one whose timer and context are both ready does not get the    *)
(* timer for ever, since select chooses at random.  A task that ignores    *)
(* its context keeps Run from returning.                                   *)
(***************************************************************************)
Fairness ==
  /\ WF_vars(RunStep /\ (run = "serve" => runDone))
  /\ \A t \in Tasks :
       /\ WF_vars(FinishAdd(t))
       /\ WF_vars(BeginTask(t)) /\ SF_vars(EndPeriodic(t))
       /\ WF_vars(runDone /\ (TaskReturns(t) \/ TaskFails(t)))
       /\ WF_vars(SetFatal(t)) /\ WF_vars(CancelRun(t))

FairSpec == Spec /\ Fairness

-----------------------------------------------------------------------------
TypeOK ==
  /\ cast \in Casts /\ outside \in BOOLEAN
  /\ run \in {"new", "start", "ready", "launch", "serve", "drain", "cancel",
              "clear", "join", "shutdown", "stop", "unobserve", "leave", "done"}
  /\ hook \in 0..Hooks
  /\ ctxDone \in BOOLEAN /\ runDone \in BOOLEAN
  /\ endedBy \in {"none", "itself", "task", "caller"}
  /\ result \in {"none", "hook", "adapter"} \cup Tasks
  /\ tasks \in SUBSET Tasks /\ runner \in BOOLEAN /\ toStart \in SUBSET Tasks
  /\ adding \in [Tasks -> {"out", "runner", "norunner", "added"}]
  /\ task \in [Tasks -> {"none", "launched", "gated", "asleep", "called",
                         "failing", "cancelling", "ended"}]
  /\ starts \in [Tasks -> Nat]
  /\ late \in SUBSET Tasks
  /\ fatal \in Tasks \cup {NoTask}
  /\ failures \in Seq(Tasks)
  /\ adapter \in {"starting", "ready", "stopped"}
  /\ observerCtx \in {"none", "run"}
  /\ job \in [Jobs -> {"none", "running", "reporting", "recovered", "ended",
                       "dropped"}]
  /\ jobCtx \in [Jobs -> {"none", "run"}]
  /\ slots \in Nat

\* A task is started once, however its registration races with the start of the
\* runtime; and while the adapter serves every task whose registration is
\* complete has been (task.go:82-102).
StartedOnce ==
  /\ \A t \in Tasks : starts[t] <= 1
  /\ run = "serve" => \A t \in Tasks : adding[t] = "added" => starts[t] = 1

\* When a critical task has ended the run, Run returns the error of the first
\* one that failed, unless its caller has cancelled as well (task.go:23,
\* app.go:130).
FirstFatalReturned ==
  /\ result \in Tasks => failures # <<>> /\ result = Head(failures)
  /\ endedBy = "task" /\ result = "adapter" => ctxDone

\* While the shutdown hooks run and after, no task runs any more, whether
\* startTasks or a late call of Go has started it (app.go:160-165); except for
\* one whose registration had found the runner but was overtaken by the join.
ShutdownAfterTasks ==
  run \in {"shutdown", "stop", "unobserve", "leave", "done"}
    => \A t \in Tasks : Alive(t) => t \in late

\* Observers may outlive Run, but those of Run's own events get a context that
\* is done when Run has returned (observer.go:124-136).
ObserversCancelled ==
  run = "done" /\ ~outside
    => /\ runDone
       /\ \A j \in Jobs : job[j] \in {"running", "reporting"} => jobCtx[j] = "run"

\* How far the registration of a task and the start of the runtime have come
\* together: a registration that finds no runner is in the list startTasks copies,
\* one that finds it starts its task itself.
RegistrationExact ==
  /\ runner <=> run \in {"launch", "serve", "drain", "cancel", "clear"}
  /\ toStart # {} => run = "launch"
  /\ \A t \in Tasks :
       /\ starts[t] \in {0, 1}
       /\ starts[t] = 0 <=> task[t] = "none"
       /\ adding[t] = "out" <=> t \notin tasks
       /\ adding[t] \in {"out", "runner"} => starts[t] = 0
       /\ t \in toStart => starts[t] = 0 /\ adding[t] \in {"norunner", "added"}
       /\ run \in {"new", "start", "ready"} => starts[t] = 0 /\ adding[t] # "runner"
       /\ run \in {"launch", "serve"} /\ adding[t] \in {"norunner", "added"}
            => starts[t] = 1 \/ t \in toStart

\* taskRunner.err is the first failure, and nothing but a failure or the caller
\* cancels runCtx before Run does it itself.
FailureExact ==
  /\ fatal = NoTask <=> failures = <<>>
  /\ failures # <<>> => fatal = Head(failures)
  /\ \A t \in Tasks : task[t] = "cancelling" => fatal # NoTask
  /\ runDone /\ ~ctxDone
       /\ run \in {"new", "start", "ready", "launch", "serve", "drain", "cancel"}
       => fatal # NoTask
  /\ endedBy = "task" => fatal # NoTask
  /\ run \in {"new", "start", "ready", "launch", "serve", "drain"} => result = "none"

\* A slot is taken by each handler that runs or reports, and Run's own events are
\* observed with Run's context.
ObserversExact ==
  /\ slots = Cardinality({j \in Jobs : job[j] \in {"running", "reporting"}})
  /\ observerCtx = "run" <=> run \notin {"new", "leave", "done"}
  /\ ~outside => \A j \in Jobs : job[j] \notin {"none", "dropped"} => jobCtx[j] = "run"
  /\ run = "done" => runDone

\* The inductive invariant the proofs in AppRun_proofs use.
IInv ==
  /\ TypeOK /\ RegistrationExact /\ FailureExact /\ ObserversExact
  /\ FirstFatalReturned /\ ShutdownAfterTasks

\* A cancelled context or a failed critical task ends Run.
RunEnds == run # "new" /\ (ctxDone \/ fatal # NoTask) ~> run = "done"
=============================================================================
