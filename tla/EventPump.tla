------------------------------ MODULE EventPump ------------------------------
(***************************************************************************)
(* core/app.go: the part of App.Run that carries events from the adapter   *)
(* to the handlers, and App.dispatch's use of the per-key locks.           *)
(*                                                                         *)
(* Sources are the adapter's goroutines that call emit (the read loop of   *)
(* a connection, a webhook request), each with its own sequence of events. *)
(* Workers started by Run (crew) take the events from the bounded channel  *)
(* `events`; with WithWorkers(n), n <= 0, the crew is empty, there is no   *)
(* channel and the sources run dispatch themselves.  The locks are those   *)
(* of KeyedLocks, whose actions are conjoined here.  Observers and routes  *)
(* run inside the handler step and are left out, and so is a ready hook    *)
(* that fails, after which Run ends before any event exists.               *)
(***************************************************************************)
EXTENDS Naturals, Sequences, FiniteSets

CONSTANTS
  Workers,   \* goroutines Run may start
  Crews,     \* the crews to consider, {} for the synchronous configuration
  Sources,   \* the adapter's goroutines
  Buffer,    \* capacity of the channel
  Events,    \* event identities
  Script,    \* Script[s]: the events source s reads, in order
  Keys,      \* non-empty serial keys
  KeyOf,     \* KeyOf[e]: the event's key, NoKey for ""
  Items, NoThread, NoKey, NoItem,  \* see KeyedLocks
  NoEvent

ASSUME PumpAssumption ==
  /\ Crews \subseteq SUBSET Workers
  /\ Workers \cap Sources = {}
  /\ IsFiniteSet(Workers) /\ IsFiniteSet(Sources)
  /\ Buffer \in Nat \ {0}
  /\ Script \in [Sources -> Seq(Events)]
  /\ KeyOf \in [Events -> Keys \cup {NoKey}]

\* Every frame is an event of its own.
ASSUME FramesDiffer ==
  \A s, t \in Sources :
    \A i \in DOMAIN Script[s], j \in DOMAIN Script[t] :
      Script[s][i] = Script[t][j] => s = t /\ i = j

ASSUME PumpNulls ==
  /\ NoThread \notin Sources \cup Workers
  /\ NoKey \notin Keys
  /\ NoItem \notin Items
  /\ NoEvent \notin Events

Dispatchers == Sources \cup Workers

VARIABLES
  crew,      \* the workers Run starts (fixed)
  detached,  \* sources may outlive adapter.Start (fixed): connections of a
             \* reverse_ws server always may, webhook requests when they are
             \* still running five seconds after the server's shutdown began
  run,       \* "serving" until Start returns, "returned", "closed", "done"
  ctxDone,   \* runCtx is cancelled (by the caller or by a fatal task)
  read,      \* read[s]: how many events source s has read
  emitting,  \* emitting[s]: source s is inside emit with event read[s]
  queue,     \* the channel's content
  stage,     \* stage[d]: where dispatcher d is
  work,      \* work[d]: the event it dispatches
  accepted,  \* history: events whose emit returned nil (Sync: was called)
  begun,     \* history: events in the order their routes started to run
  finished,  \* events whose dispatch returned
  panicked,  \* sources that sent on the closed channel
  pc, key, item, locks, refs, owner  \* App.locks

lockVars == <<pc, key, item, locks, refs, owner>>
history == <<accepted, begun, finished, panicked>>
config == <<crew, detached>>
vars == <<config, run, ctxDone, read, emitting, queue, stage, work, history,
          lockVars>>

Lock == INSTANCE KeyedLocks WITH Threads <- Dispatchers

RangeOf(seq) == {seq[i] : i \in DOMAIN seq}

\* The sources run dispatch themselves.
Sync == crew = {}

Current(s) == Script[s][read[s]]

Init ==
  /\ crew \in Crews
  /\ detached \in BOOLEAN
  /\ run = "serving"
  /\ ctxDone = FALSE
  /\ read = [s \in Sources |-> 0]
  /\ emitting = [s \in Sources |-> FALSE]
  /\ queue = <<>>
  /\ stage = [d \in Dispatchers |-> "idle"]
  /\ work = [d \in Dispatchers |-> NoEvent]
  /\ accepted = <<>>
  /\ begun = <<>>
  /\ finished = {}
  /\ panicked = {}
  /\ Lock!Init

-----------------------------------------------------------------------------
\* Source s reads its next frame and calls emit.  After Start has returned only
\* goroutines that Start does not wait for still read.
ReadEvent(s) ==
  /\ ~emitting[s]
  /\ s \notin panicked
  /\ read[s] < Len(Script[s])
  /\ run = "serving" \/ detached
  /\ read' = [read EXCEPT ![s] = @ + 1]
  /\ emitting' = [emitting EXCEPT ![s] = TRUE]
  /\ UNCHANGED <<config, run, ctxDone, queue, stage, work, history, lockVars>>

\* emit's select takes the channel send.
Send(s) ==
  /\ ~Sync
  /\ emitting[s]
  /\ run \in {"serving", "returned"}
  /\ Len(queue) < Buffer
  /\ queue' = Append(queue, Current(s))
  /\ accepted' = Append(accepted, Current(s))
  /\ emitting' = [emitting EXCEPT ![s] = FALSE]
  /\ UNCHANGED <<config, run, ctxDone, read, stage, work, begun, finished,
                 panicked, lockVars>>

\* emit's select takes runCtx.Done or eventCtx.Done: the event is not taken.
\* A forward connection's events carry runCtx; a webhook's context ends whenever
\* its client goes away.
Refuse(s) ==
  /\ ~Sync
  /\ emitting[s]
  /\ ctxDone \/ detached
  /\ emitting' = [emitting EXCEPT ![s] = FALSE]
  /\ UNCHANGED <<config, run, ctxDone, read, queue, stage, work, history,
                 lockVars>>

\* emit's select finds the channel closed and takes the send case: a panic that
\* ends the source (net/http recovers it).
SendOnClosed(s) ==
  /\ ~Sync
  /\ emitting[s]
  /\ run \in {"closed", "done"}
  /\ panicked' = panicked \cup {s}
  /\ emitting' = [emitting EXCEPT ![s] = FALSE]
  /\ UNCHANGED <<config, run, ctxDone, read, queue, stage, work, accepted, begun,
                 finished, lockVars>>

\* Faulty: the event stays in the channel.
TakeCopy(w) ==
  /\ w \in crew
  /\ stage[w] = "idle"
  /\ queue # <<>>
  /\ work' = [work EXCEPT ![w] = Head(queue)]
  /\ stage' = [stage EXCEPT ![w] = "called"]
  /\ UNCHANGED <<config, run, ctxDone, read, emitting, queue, history, lockVars>>

\* Faulty: the newest event is taken first.
TakeNewest(w) ==
  /\ w \in crew
  /\ stage[w] = "idle"
  /\ queue # <<>>
  /\ work' = [work EXCEPT ![w] = queue[Len(queue)]]
  /\ queue' = SubSeq(queue, 1, Len(queue) - 1)
  /\ stage' = [stage EXCEPT ![w] = "called"]
  /\ UNCHANGED <<config, run, ctxDone, read, emitting, history, lockVars>>

\* A worker receives the oldest event of the channel.
Take(w) ==
  /\ w \in crew
  /\ stage[w] = "idle"
  /\ queue # <<>>
  /\ work' = [work EXCEPT ![w] = Head(queue)]
  /\ queue' = Tail(queue)
  /\ stage' = [stage EXCEPT ![w] = "called"]
  /\ UNCHANGED <<config, run, ctxDone, read, emitting, history, lockVars>>

\* Sync: emit is App.dispatch itself, called with the source's event.
CallDispatch(s) ==
  /\ Sync
  /\ emitting[s]
  /\ stage[s] = "idle"
  /\ work' = [work EXCEPT ![s] = Current(s)]
  /\ stage' = [stage EXCEPT ![s] = "called"]
  /\ accepted' = Append(accepted, Current(s))
  /\ UNCHANGED <<config, run, ctxDone, read, emitting, queue, begun, finished,
                 panicked, lockVars>>

\* lockEvent with a non-empty key: up to the blocking item.mu.Lock().
EnterLock(d) ==
  /\ stage[d] = "called"
  /\ KeyOf[work[d]] # NoKey
  /\ Lock!AcquireEntry(d, KeyOf[work[d]])
  /\ stage' = [stage EXCEPT ![d] = "locking"]
  /\ UNCHANGED <<config, run, ctxDone, read, emitting, queue, work, history>>

\* Faulty: the routes run without waiting for the lock.
BeginWithoutWaiting(d) ==
  /\ stage[d] = "locking"
  /\ owner' = [owner EXCEPT ![item[d]] = d]
  /\ pc' = [pc EXCEPT ![d] = "holding"]
  /\ stage' = [stage EXCEPT ![d] = "handling"]
  /\ begun' = Append(begun, work[d])
  /\ UNCHANGED <<config, run, ctxDone, read, emitting, queue, work, accepted,
                 finished, panicked, key, item, locks, refs>>

\* The lock is ours: observers and routes start to run.
BeginSerial(d) ==
  /\ stage[d] = "locking"
  /\ Lock!LockItem(d)
  /\ stage' = [stage EXCEPT ![d] = "handling"]
  /\ begun' = Append(begun, work[d])
  /\ UNCHANGED <<config, run, ctxDone, read, emitting, queue, work, accepted,
                 finished, panicked>>

\* lockEvent returned nil (empty key): nothing to wait for.
BeginFree(d) ==
  /\ stage[d] = "called"
  /\ KeyOf[work[d]] = NoKey
  /\ stage' = [stage EXCEPT ![d] = "handling"]
  /\ begun' = Append(begun, work[d])
  /\ UNCHANGED <<config, run, ctxDone, read, emitting, queue, work, accepted,
                 finished, panicked, lockVars>>

\* dispatch returns to its caller: the worker's loop, or emit when Sync.
ReturnFromDispatch(d) ==
  /\ stage' = [stage EXCEPT ![d] = "idle"]
  /\ work' = [work EXCEPT ![d] = NoEvent]
  /\ finished' = finished \cup {work[d]}
  /\ emitting' = IF Sync THEN [emitting EXCEPT ![d] = FALSE] ELSE emitting

\* The routes are done and there is no lock to give back.
EndFree(d) ==
  /\ stage[d] = "handling"
  /\ KeyOf[work[d]] = NoKey
  /\ ReturnFromDispatch(d)
  /\ UNCHANGED <<config, run, ctxDone, read, queue, accepted, begun, panicked,
                 lockVars>>

\* The routes are done: the deferred unlock releases the key's mutex ...
EndSerial(d) ==
  /\ stage[d] = "handling"
  /\ KeyOf[work[d]] # NoKey
  /\ Lock!UnlockItem(d)
  /\ stage' = [stage EXCEPT ![d] = "unlocking"]
  /\ UNCHANGED <<config, run, ctxDone, read, emitting, queue, work, history>>

\* ... and then drops its reference.
LeaveLock(d) ==
  /\ stage[d] = "unlocking"
  /\ Lock!DropEntry(d)
  /\ ReturnFromDispatch(d)
  /\ UNCHANGED <<config, run, ctxDone, read, queue, accepted, begun, panicked>>

-----------------------------------------------------------------------------
\* The caller cancels Run's context, or a critical task fails.
Cancel ==
  /\ ~ctxDone
  /\ run = "serving"
  /\ ctxDone' = TRUE
  /\ UNCHANGED <<config, run, read, emitting, queue, stage, work, history,
                 lockVars>>

\* Faulty: Start does not wait for its read loop.
StartReturnsAtOnce ==
  /\ run = "serving"
  /\ run' = IF Sync THEN "done" ELSE "returned"
  /\ ctxDone' = (ctxDone \/ Sync)
  /\ UNCHANGED <<config, read, emitting, queue, stage, work, history, lockVars>>

\* adapter.Start returns, because of runCtx or an error of its own.  Goroutines
\* that Start runs or waits for are not inside emit then.  Without workers this
\* is the end of Run, whose deferred cancelRun cancels runCtx.
StartReturns ==
  /\ run = "serving"
  /\ detached \/ \A s \in Sources : ~emitting[s]
  /\ run' = IF Sync THEN "done" ELSE "returned"
  /\ ctxDone' = (ctxDone \/ Sync)
  /\ UNCHANGED <<config, read, emitting, queue, stage, work, history,
                 lockVars>>

\* Faulty: what is queued is thrown away.
CloseAndDiscard ==
  /\ run = "returned"
  /\ run' = "closed"
  /\ queue' = <<>>
  /\ UNCHANGED <<config, ctxDone, read, emitting, stage, work, history, lockVars>>

\* Faulty: the channel is closed after the workers have been joined.
CloseAfterJoin ==
  /\ run = "returned"
  /\ \A w \in crew : stage[w] = "exited"
  /\ run' = "closed"
  /\ UNCHANGED <<config, ctxDone, read, emitting, queue, stage, work, history,
                 lockVars>>

\* close(events).
CloseEvents ==
  /\ run = "returned"
  /\ run' = "closed"
  /\ UNCHANGED <<config, ctxDone, read, emitting, queue, stage, work, history,
                 lockVars>>

\* Faulty: the worker leaves as soon as the channel is closed.
WorkerExitEarly(w) ==
  /\ w \in crew
  /\ stage[w] = "idle"
  /\ run = "closed"
  /\ stage' = [stage EXCEPT ![w] = "exited"]
  /\ UNCHANGED <<config, run, ctxDone, read, emitting, queue, work, history,
                 lockVars>>

\* The worker's range loop ends: the channel is closed and drained.
WorkerExit(w) ==
  /\ w \in crew
  /\ stage[w] = "idle"
  /\ run = "closed"
  /\ queue = <<>>
  /\ stage' = [stage EXCEPT ![w] = "exited"]
  /\ UNCHANGED <<config, run, ctxDone, read, emitting, queue, work, history,
                 lockVars>>

\* wg.Wait() returns and Run with it, cancelling runCtx.
WorkersJoined ==
  /\ run = "closed"
  /\ \A w \in crew : stage[w] = "exited"
  /\ run' = "done"
  /\ ctxDone' = TRUE
  /\ UNCHANGED <<config, read, emitting, queue, stage, work, history,
                 lockVars>>

\* After Run nothing has to happen any more.
Terminated == run = "done" /\ UNCHANGED vars

SourceStep(s) ==
  ReadEvent(s) \/ Send(s) \/ Refuse(s) \/ SendOnClosed(s)

DispatchStep(d) ==
  \/ EnterLock(d) \/ BeginSerial(d) \/ BeginFree(d)
  \/ EndFree(d) \/ EndSerial(d) \/ LeaveLock(d)

Shutdown == Cancel \/ StartReturns \/ CloseEvents \/ WorkersJoined

Next ==
  \/ \E s \in Sources : SourceStep(s)
  \/ \E s \in Sources : CallDispatch(s)
  \/ \E w \in Workers : Take(w) \/ WorkerExit(w)
  \/ \E d \in Dispatchers : DispatchStep(d)
  \/ Shutdown
  \/ Terminated

Spec == Init /\ [][Next]_vars

(***************************************************************************)
(* Fairness.  Goroutines that can run, run; the mutex and the channel      *)
(* queue their waiters, so a waiting dispatcher is not overtaken for ever; *)
(* handlers return (EndFree, EndSerial); adapter.Start returns once its    *)
(* context is done.  Nothing is assumed of the peer (ReadEvent), of        *)
(* Cancel, or of an adapter that stops by itself.                          *)
(***************************************************************************)
Fairness ==
  /\ \A s \in Sources :
       /\ WF_vars(Send(s) \/ Refuse(s) \/ SendOnClosed(s))
       /\ WF_vars(CallDispatch(s))
  /\ \A w \in Workers : WF_vars(Take(w)) /\ WF_vars(WorkerExit(w))
  /\ \A d \in Dispatchers :
       /\ WF_vars(EnterLock(d)) /\ SF_vars(BeginSerial(d))
       /\ WF_vars(BeginFree(d)) /\ WF_vars(EndFree(d))
       /\ WF_vars(EndSerial(d)) /\ WF_vars(LeaveLock(d))
  /\ WF_vars(ctxDone /\ StartReturns)
  /\ WF_vars(CloseEvents) /\ WF_vars(WorkersJoined)

FairSpec == Spec /\ Fairness

-----------------------------------------------------------------------------
TypeOK ==
  /\ crew \in Crews /\ detached \in BOOLEAN
  /\ run \in {"serving", "returned", "closed", "done"}
  /\ ctxDone \in BOOLEAN
  /\ read \in [Sources -> Nat]
  /\ emitting \in [Sources -> BOOLEAN]
  /\ queue \in Seq(Events) /\ Len(queue) <= Buffer
  /\ stage \in [Dispatchers -> {"idle", "called", "locking", "handling",
                               "unlocking", "exited"}]
  /\ work \in [Dispatchers -> Events \cup {NoEvent}]
  /\ accepted \in Seq(Events)
  /\ begun \in Seq(Events)
  /\ finished \in SUBSET Events
  /\ panicked \in SUBSET Sources
  /\ Lock!TypeOK

\* A source inside emit carries an event of its script.
ReadInScript ==
  \A s \in Sources :
    /\ read[s] <= Len(Script[s])
    /\ emitting[s] => read[s] > 0

\* Where a dispatcher is decides where it is in the lock of its event's key.
StageMatchesLock ==
  \A d \in Dispatchers :
    /\ (work[d] = NoEvent) <=> (stage[d] \in {"idle", "exited"})
    /\ stage[d] = "locking" \/ stage[d] = "unlocking" => KeyOf[work[d]] # NoKey
    /\ pc[d] = CASE stage[d] = "locking" -> "waiting"
                 [] stage[d] = "handling" /\ KeyOf[work[d]] # NoKey -> "holding"
                 [] stage[d] = "unlocking" -> "releasing"
                 [] OTHER -> "idle"
    /\ pc[d] # "idle" => key[d] = KeyOf[work[d]]

\* Nobody that Start waits for is in emit once Start has returned.
QuietAfterStart ==
  ~detached /\ run # "serving" => \A s \in Sources : ~emitting[s]

\* The routes of two events with one non-empty key never run at the same time
\* (WithSerialBy, options.go:83: events of one key are handled serially).
SerialByKey ==
  \A c, d \in Dispatchers :
    /\ stage[c] = "handling" /\ stage[d] = "handling"
    /\ KeyOf[work[c]] = KeyOf[work[d]] /\ KeyOf[work[c]] # NoKey
    => c = d

InHand == {work[d] : d \in {c \in Dispatchers : work[c] # NoEvent}}

\* An event emit has taken is in exactly one place: the channel, one
\* dispatcher's hands, or among the finished; nothing is lost, dispatched
\* twice or dispatched without having been emitted (app.go:142-176).
ExactlyOnce ==
  /\ \A i, j \in DOMAIN accepted : accepted[i] = accepted[j] => i = j
  /\ \A i, j \in DOMAIN begun : begun[i] = begun[j] => i = j
  /\ RangeOf(accepted) = RangeOf(queue) \cup InHand \cup finished
  /\ RangeOf(queue) \cap (InHand \cup finished) = {}
  /\ InHand \cap finished = {}
  /\ \A c, d \in Dispatchers :
       work[c] = work[d] /\ work[c] # NoEvent => c = d

\* When Run returns, every event it has taken has been dispatched to the end:
\* the channel is drained and no handler is running (app.go:177-178).  With
\* Sync this needs an adapter that waits for its read loops.
DrainedAtReturn ==
  run = "done" /\ ~(Sync /\ detached)
    => queue = <<>> /\ RangeOf(accepted) = finished

\* With an adapter whose Start waits for its read loop nobody sends on the
\* closed channel (app.go:167-177).
NoSendOnClosed == ~detached => panicked = {}

PositionIn(seq, e) == CHOOSE i \in DOMAIN seq : seq[i] = e

\* The routes of events with one key start in the order in which emit took the
\* events ...
InOrder ==
  \A i, j \in DOMAIN begun :
    /\ i < j
    /\ KeyOf[begun[i]] = KeyOf[begun[j]] /\ KeyOf[begun[i]] # NoKey
    => PositionIn(accepted, begun[i]) < PositionIn(accepted, begun[j])

\* ... which WithSerialByConversation promises in general (options.go:93), and
\* which a single worker keeps.
SingleInOrder == Cardinality(crew) = 1 => InOrder

\* The inductive invariant the proofs in EventPump_proofs use.
IInv ==
  /\ TypeOK /\ ReadInScript /\ StageMatchesLock /\ QuietAfterStart
  /\ NoSendOnClosed /\ Lock!IInv

\* An event that was taken has been read, and its source's emit has returned or is
\* in dispatch with it.
AcceptedRead ==
  \A e \in RangeOf(accepted) :
    \E s \in Sources : \E i \in 1..read[s] :
      /\ e = Script[s][i]
      /\ i = read[s] => ~emitting[s] \/ (Sync /\ stage[s] # "idle")

\* Who has an event in its hands: a source in emit without workers, a worker of the
\* crew otherwise.
HandsExact ==
  /\ \A d \in Dispatchers :
       work[d] # NoEvent =>
         IF Sync THEN d \in Sources /\ emitting[d] /\ work[d] = Current(d)
                 ELSE d \in crew
  /\ Sync => queue = <<>>

\* A worker ends when no event is left and none can come any more.
ExitExact ==
  /\ \A d \in Dispatchers :
       stage[d] = "exited" => run \in {"closed", "done"} /\ queue = <<>>
  /\ run = "done" /\ ~Sync => \A w \in crew : stage[w] = "exited"
  /\ run = "done" /\ Sync /\ ~detached => \A s \in Sources : ~emitting[s]

\* ExactlyOnce, for the channel and the beginning of the routes as well.
OnceExact ==
  /\ ExactlyOnce
  /\ \A i, j \in DOMAIN queue : queue[i] = queue[j] => i = j
  /\ RangeOf(begun) =
       {work[d] : d \in {c \in Dispatchers : stage[c] \in {"handling", "unlocking"}}}
         \cup finished

\* With a single worker what emit has taken is what has begun, then what the worker
\* is about to begin, then the channel.
SingleFlow ==
  \A w \in Workers :
    crew = {w} =>
      LET next == IF stage[w] \in {"called", "locking"} THEN 1 ELSE 0
      IN  /\ Len(accepted) = Len(begun) + next + Len(queue)
          /\ \A i \in 1..Len(begun) : accepted[i] = begun[i]
          /\ next = 1 => accepted[Len(begun) + 1] = work[w]
          /\ \A i \in 1..Len(queue) : accepted[Len(begun) + next + i] = queue[i]

\* The inductive invariant for the way of the events, on top of IInv.
FlowInv == AcceptedRead /\ HandsExact /\ ExitExact /\ OnceExact /\ SingleFlow

\* The dispatchers use the per-key locks exactly as KeyedLocks says a caller
\* does, so all that is shown of KeyedLocks holds of App.locks.
UsesKeyedLocks == Lock!Spec

\* Every event that was taken is dispatched to the end, before or after a
\* cancellation.
AcceptedFinish ==
  \A e \in Events : e \in RangeOf(accepted) ~> e \in finished

\* After its context is cancelled Run returns, whatever is queued, locked or
\* blocked in emit (Run, app.go:90).
CancelStops == ctxDone ~> run = "done"
=============================================================================
