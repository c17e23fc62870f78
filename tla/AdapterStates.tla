---------------------------- MODULE AdapterStates ----------------------------
(***************************************************************************)
(* core/state.go and adapters/onebot11/state.go: how a state reported by   *)
(* an adapter's goroutine reaches App.adapterState and the goroutines in   *)
(* WaitActionReady.                                                        *)
(*                                                                         *)
(* adapterState.Set stores the state under its lock and calls the sink     *)
(* after the unlock, so a report is two steps (SetLocal, CallSink) and     *)
(* other reports may come in between.  The sink is App.updateAdapterState: *)
(* one section under stateMu that stores the state and takes all waiters,  *)
(* whose channels are then closed.  A state is represented by its Kind;    *)
(* ActionReady is Kind = "ready" (an http adapter without an apiURL, which *)
(* reports ready without ActionReady, is left out).                        *)
(***************************************************************************)
CONSTANTS
  Reporters,  \* adapter goroutines that report states
  Waiters     \* goroutines that call WaitActionReady

Kinds == {"unknown", "starting", "ready", "disconnected", "stopped"}

VARIABLES
  detached, \* the reporters are the connections of a reverse_ws server, which
            \* may outlive adapter.Start; otherwise one goroutine reports,
            \* the one that runs Start (fixed)
  life,     \* App.Run's progress through bindAdapterState, stopAdapterState
  local,    \* adapterState.state
  sink,     \* adapterState.sink is set
  report,   \* report[r]: the state Set still has to pass to the sink
  app,      \* App.adapterState
  waiters,  \* App.stateWaiters: whose channel is registered
  waiter    \* waiter[w]: where WaitActionReady is

stateVars == <<detached, life, local, sink, report, app, waiters, waiter>>

Nothing == "nothing"

Init ==
  /\ detached \in BOOLEAN
  /\ life = "new"
  /\ local \in {"unknown", "disconnected", "ready"}  \* left by an earlier Run
  /\ app \in IF local = "unknown" THEN {"unknown"}
             ELSE IF detached THEN {"stopped", local} ELSE {"stopped"}
  /\ sink = FALSE
  /\ report = [r \in Reporters |-> Nothing]
  /\ waiters = {}
  /\ waiter = [w \in Waiters |-> "out"]

\* Faulty: only "ready" wakes the waiters.
UpdateWakesOnReady(k) ==
  /\ app' = k
  /\ waiter' = [w \in Waiters |->
                  IF k = "ready" /\ w \in waiters /\ waiter[w] = "parked"
                    THEN "check" ELSE waiter[w]]
  /\ waiters' = IF k = "ready" THEN {} ELSE waiters

\* updateAdapterState: store, take every waiter, close their channels.
Update(k) ==
  /\ app' = k
  /\ waiter' = [w \in Waiters |->
                  IF w \in waiters /\ waiter[w] = "parked" THEN "check"
                                                           ELSE waiter[w]]
  /\ waiters' = {}

-----------------------------------------------------------------------------
\* bindAdapterState reports that the adapter is starting ...
BindStarting ==
  /\ life = "new"
  /\ Update("starting")
  /\ life' = "binding"
  /\ UNCHANGED <<detached, local, sink, report>>

\* Faulty: the new sink does not learn the state the adapter already has.
BindSinkWithoutReplay ==
  /\ life = "binding"
  /\ sink' = TRUE
  /\ life' = "running"
  /\ UNCHANGED <<detached, local, report, app, waiters, waiter>>

\* ... and sets the sink, which replays a state the adapter already has.
BindSink ==
  /\ life = "binding"
  /\ sink' = TRUE
  /\ life' = IF local = "unknown" THEN "running" ELSE "replaying"
  /\ UNCHANGED <<detached, local, report, app, waiters, waiter>>

\* SetSink passes the state it read under the lock to the new sink.
Replay ==
  /\ life = "replaying"
  /\ Update(local)
  /\ life' = "running"
  /\ UNCHANGED <<detached, local, sink, report>>

\* Faulty: "stopped" is reported while the adapter may still report.
StopUpdateEarly ==
  /\ life = "running"
  /\ Update("stopped")
  /\ life' = "stopping"
  /\ UNCHANGED <<detached, local, sink, report>>

\* The deferred stopAdapterState reports "stopped" ...
StopUpdate ==
  /\ life = "running"
  /\ detached \/ \A r \in Reporters : report[r] = Nothing
  /\ Update("stopped")
  /\ life' = "stopping"
  /\ UNCHANGED <<detached, local, sink, report>>

\* ... and clears the sink.
StopSink ==
  /\ life = "stopping"
  /\ sink' = FALSE
  /\ life' = "stopped"
  /\ UNCHANGED <<detached, local, report, app, waiters, waiter>>

\* adapterState.Set up to the unlock: store the state, read the sink.
SetLocal(r, k) ==
  /\ report[r] = Nothing
  /\ life = "running" \/ (detached /\ life \in {"stopping", "stopped"})
  /\ detached \/ \A q \in Reporters : report[q] = Nothing
  /\ local' = k
  /\ report' = [report EXCEPT ![r] = IF sink THEN k ELSE Nothing]
  /\ UNCHANGED <<detached, life, sink, app, waiters, waiter>>

\* adapterState.Set calls the sink it has read.
CallSink(r) ==
  /\ report[r] # Nothing
  /\ Update(report[r])
  /\ report' = [report EXCEPT ![r] = Nothing]
  /\ UNCHANGED <<detached, life, local, sink>>

-----------------------------------------------------------------------------
\* A goroutine calls WaitActionReady.
EnterWait(w) ==
  /\ waiter[w] = "out"
  /\ waiter' = [waiter EXCEPT ![w] = "check"]
  /\ UNCHANGED <<detached, life, local, sink, report, app, waiters>>

\* waitAdapterStateChange reads the state and registers in one section; the
\* caller returns on ready and on stopped and blocks on anything else.
CheckState(w) ==
  /\ waiter[w] = "check"
  /\ waiters' = IF app = "ready" THEN waiters ELSE waiters \cup {w}
  /\ waiter' = [waiter EXCEPT ![w] = CASE app = "ready" -> "ready"
                                       [] app = "stopped" -> "unavailable"
                                       [] OTHER -> "parked"]
  /\ UNCHANGED <<detached, life, local, sink, report, app>>

\* The waiter's context ends; its channel stays registered.
ExpireWait(w) ==
  /\ waiter[w] = "parked"
  /\ waiter' = [waiter EXCEPT ![w] = "expired"]
  /\ UNCHANGED <<detached, life, local, sink, report, app, waiters>>

AppStep == BindStarting \/ BindSink \/ Replay \/ StopUpdate \/ StopSink

WaiterStep(w) == EnterWait(w) \/ CheckState(w) \/ ExpireWait(w)

ReporterStep(r) ==
  (\E k \in {"ready", "disconnected"} : SetLocal(r, k)) \/ CallSink(r)

Next ==
  \/ AppStep
  \/ \E r \in Reporters : ReporterStep(r)
  \/ \E w \in Waiters : WaiterStep(w)

Spec == Init /\ [][Next]_stateVars

\* A waiter that can run, runs, and a report that is under way is delivered.
\* Nothing is assumed of deadlines, of the adapter or of Run's caller.
Fairness ==
  /\ \A w \in Waiters : WF_stateVars(CheckState(w))
  /\ \A r \in Reporters : WF_stateVars(CallSink(r))
  /\ WF_stateVars(BindSink) /\ WF_stateVars(Replay) /\ WF_stateVars(StopSink)

FairSpec == Spec /\ Fairness

-----------------------------------------------------------------------------
TypeOK ==
  /\ detached \in BOOLEAN
  /\ life \in {"new", "binding", "replaying", "running", "stopping", "stopped"}
  /\ local \in Kinds
  /\ sink \in BOOLEAN
  /\ report \in [Reporters -> Kinds \cup {Nothing}]
  /\ app \in Kinds
  /\ waiters \in SUBSET Waiters
  /\ waiter \in [Waiters -> {"out", "check", "parked", "ready", "unavailable",
                             "expired"}]

\* Nobody sleeps through a change: a blocked WaitActionReady is registered for
\* the next one, and the state it slept on is still neither ready nor stopped
\* (state.go:81-93, 136-145, 159-169).
NoLostWakeup ==
  \A w \in Waiters :
    waiter[w] = "parked" => w \in waiters /\ app \notin {"ready", "stopped"}

\* With no report under way the runtime's state is the adapter's, as long as
\* one goroutine reports: AdapterState returns the last state known
\* (state.go:62).
AppIsLatest ==
  ~detached /\ life = "running" /\ (\A r \in Reporters : report[r] = Nothing)
    => app = IF local = "unknown" THEN "starting" ELSE local

\* Once the runtime has reported "stopped", no report of an adapter whose
\* goroutines end with Start replaces it (state.go:20).
StoppedIsFinal ==
  ~detached /\ life \in {"stopping", "stopped"} => app = "stopped"

\* With one reporting goroutine a report under way is the adapter's latest
\* state and exists only while the runtime runs, when the sink is set.
ReportIsLocal ==
  ~detached =>
    /\ life \in {"replaying", "running"} => sink
    /\ life = "binding" => app = "starting"
    /\ life = "replaying" => local # "unknown"
    /\ \A r \in Reporters : report[r] # Nothing =>
         life = "running" /\ report[r] = local /\ local # "unknown"

\* The inductive invariant the proofs in AdapterStates_proofs use.
IInv == TypeOK /\ NoLostWakeup /\ ReportIsLocal /\ AppIsLatest /\ StoppedIsFinal

\* Once the runtime has stopped for good nobody stays in WaitActionReady.
StopReleasesWaiters ==
  \A w \in Waiters :
    ~detached /\ life = "stopped" /\ waiter[w] \in {"check", "parked"}
      ~> waiter[w] \in {"ready", "unavailable", "expired"}
=============================================================================
