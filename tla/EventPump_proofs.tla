-------------------------- MODULE EventPump_proofs --------------------------
(***************************************************************************)
(* Proofs about EventPump, and about Webhooks in front of it, for any      *)
(* crew, any adapter goroutines, any events and any capacity of the        *)
(* channel.                                                                *)
(*                                                                         *)
(* The locks: where a dispatcher is fixes where it is in the lock of its   *)
(* event's key (StageMatchesLock), so every step of App.Run is a step of   *)
(* KeyedLocks or leaves the locks alone, and what KeyedLocks_proofs shows  *)
(* of the locks holds here: two events of one key are never handled at     *)
(* the same time.                                                          *)
(*                                                                         *)
(* The events: FlowInv follows an event from its source's script through   *)
(* the channel and a dispatcher's hands to its end.  It is inductive on    *)
(* top of IInv, and gives that nothing is lost or done twice, that Run     *)
(* leaves nothing behind and that a single worker keeps the order.         *)
(*                                                                         *)
(* HTTP: WebSpec implements Spec, and WebInv adds to FlowInv what a        *)
(* request was told of its event.                                          *)
(***************************************************************************)
EXTENDS Webhooks, FiniteSetTheorems, TLAPS

KL == INSTANCE KeyedLocks_proofs WITH Threads <- Dispatchers

\* The assumptions under which the results about the locks hold.
LEMMA LockAssumptions ==
  /\ IsFiniteSet(Dispatchers)
  /\ NoThread \notin Dispatchers
  /\ NoKey \notin Keys
  /\ NoItem \notin Items
BY PumpAssumption, PumpNulls, FS_Union DEF Dispatchers

\* The inductive step of the locks, for the dispatchers.
LEMMA LockStep == Lock!IInv /\ [Lock!Next]_lockVars => Lock!IInv'
<1>1. KL!IsFiniteSet(Dispatchers)
  BY LockAssumptions DEF IsFiniteSet, KL!IsFiniteSet
<1>2. KL!IInv /\ [KL!Next]_(KL!lockVars) => KL!IInv'
  BY <1>1, KL!StepIInv, LockAssumptions
<1>3. QED
  BY <1>2
  DEF lockVars, Lock!IInv, Lock!TypeOK, Lock!EntryInUse, Lock!RefsExact,
      Lock!EntriesDistinct, Lock!OwnerExact, Lock!Engaged, Lock!Users,
      Lock!Next, Lock!AcquireEntry, Lock!ShareEntry, Lock!CreateEntry,
      Lock!FreshItems, Lock!LockItem, Lock!UnlockItem, Lock!DropEntry,
      KL!lockVars, KL!IInv, KL!TypeOK, KL!EntryInUse, KL!RefsExact,
      KL!EntriesDistinct, KL!OwnerExact, KL!Engaged, KL!Users,
      KL!Next, KL!AcquireEntry, KL!ShareEntry, KL!CreateEntry,
      KL!FreshItems, KL!LockItem, KL!UnlockItem, KL!DropEntry, KL!Cardinality, Lock!Cardinality

\* The invariant of the locks excludes two holders of one key.
LEMMA LockMutex == Lock!IInv => Lock!MutualExclusion
<1>1. KL!IsFiniteSet(Dispatchers)
  BY LockAssumptions DEF IsFiniteSet, KL!IsFiniteSet
<1>2. KL!IInv => KL!MutualExclusion
  BY <1>1, KL!IInvMutex, LockAssumptions
<1>3. QED
  BY <1>2
  DEF Lock!IInv, Lock!TypeOK, Lock!EntryInUse, Lock!RefsExact,
      Lock!EntriesDistinct, Lock!OwnerExact, Lock!Engaged, Lock!Users,
      Lock!MutualExclusion, Lock!Cardinality,
      KL!IInv, KL!TypeOK, KL!EntryInUse, KL!RefsExact, KL!EntriesDistinct,
      KL!OwnerExact, KL!Engaged, KL!Users, KL!MutualExclusion, KL!Cardinality

\* The locks start free.
LEMMA LockInit == Lock!Init => Lock!IInv
<1>1. KL!IsFiniteSet(Dispatchers)
  BY LockAssumptions DEF IsFiniteSet, KL!IsFiniteSet
<1>2. KL!Init => KL!IInv
  BY <1>1, KL!InitIInv, LockAssumptions
<1>3. QED
  BY <1>2
  DEF Lock!IInv, Lock!TypeOK, Lock!EntryInUse, Lock!RefsExact,
      Lock!EntriesDistinct, Lock!OwnerExact, Lock!Engaged, Lock!Users,
      Lock!Init, Lock!Cardinality,
      KL!IInv, KL!TypeOK, KL!EntryInUse, KL!RefsExact, KL!EntriesDistinct,
      KL!OwnerExact, KL!Engaged, KL!Users, KL!Init, KL!Cardinality

-----------------------------------------------------------------------------
\* The event a source is about to emit is one of its script.
LEMMA CurrentIsEvent ==
  ASSUME IInv, NEW s \in Sources, emitting[s]
  PROVE  Current(s) \in Events
<1>1. read[s] \in 1..Len(Script[s])
  BY DEF IInv, TypeOK, ReadInScript
<1>2. Script[s] \in Seq(Events)
  BY PumpAssumption
<1>3. QED
  BY <1>1, <1>2 DEF Current

\* Every initial state satisfies the inductive invariant.
LEMMA InitIInv == Init => IInv
<1>1. SUFFICES ASSUME Init PROVE IInv
  OBVIOUS
<1>2. Lock!IInv
  BY <1>1, LockInit DEF Init
<1>3. TypeOK
  <2>1. Lock!TypeOK
    BY <1>2 DEF Lock!IInv
  <2>2. Len(queue) <= Buffer /\ queue \in Seq(Events)
    BY <1>1, PumpAssumption DEF Init
  <2>3. QED
    BY <1>1, <2>1, <2>2 DEF Init, TypeOK
<1>4. ReadInScript
  BY <1>1, PumpAssumption DEF Init, ReadInScript
<1>5. StageMatchesLock
  BY <1>1 DEF Init, StageMatchesLock, Lock!Init
<1>6. QuietAfterStart /\ NoSendOnClosed
  BY <1>1 DEF Init, QuietAfterStart, NoSendOnClosed
<1>7. QED
  BY <1>2, <1>3, <1>4, <1>5, <1>6 DEF IInv

\* A step of a dispatcher takes at most one step of the locks, and one that
\* KeyedLocks allows there.
LEMMA StepUsesLocks == IInv /\ [Next]_vars => [Lock!Next]_lockVars
<1> SUFFICES ASSUME IInv, [Next]_vars PROVE [Lock!Next]_lockVars
  OBVIOUS
<1>1. ASSUME NEW d \in Dispatchers, EnterLock(d)
      PROVE  Lock!Next
  <2>1. work[d] \in Events
    BY <1>1 DEF EnterLock, IInv, TypeOK, StageMatchesLock
  <2>2. KeyOf[work[d]] \in Keys
    BY <1>1, <2>1, PumpAssumption DEF EnterLock
  <2>3. QED
    BY <1>1, <2>2 DEF EnterLock, Lock!Next
<1>2. ASSUME NEW d \in Dispatchers, DispatchStep(d)
      PROVE  [Lock!Next]_lockVars
  BY <1>1, <1>2
  DEF DispatchStep, BeginSerial, BeginFree, EndFree, EndSerial, LeaveLock,
      Lock!Next, lockVars
<1>3. ASSUME NEW s \in Sources, SourceStep(s) \/ CallDispatch(s)
      PROVE  UNCHANGED lockVars
  BY <1>3
  DEF SourceStep, ReadEvent, Send, Refuse, SendOnClosed, CallDispatch, lockVars
<1>4. ASSUME NEW w \in Workers, Take(w) \/ WorkerExit(w)
      PROVE  UNCHANGED lockVars
  BY <1>4 DEF Take, WorkerExit, lockVars
<1>5. CASE Shutdown
  BY <1>5
  DEF Shutdown, Cancel, StartReturns, CloseEvents, WorkersJoined, lockVars
<1>6. CASE Terminated \/ UNCHANGED vars
  BY <1>6 DEF Terminated, vars, lockVars
<1>7. QED
  BY <1>2, <1>3, <1>4, <1>5, <1>6 DEF Next

\* A step of a source outside dispatch preserves the invariant.
LEMMA SourceStepIInv ==
  ASSUME IInv, Lock!IInv', NEW s \in Sources, SourceStep(s)
  PROVE  IInv'
<1> USE DEF IInv
<1>1. /\ UNCHANGED <<config, run, ctxDone, stage, work, begun, finished, lockVars>>
      /\ Lock!TypeOK'
  BY DEF SourceStep, ReadEvent, Send, Refuse, SendOnClosed, history, Lock!IInv
<1>2. StageMatchesLock'
  BY <1>1 DEF StageMatchesLock, lockVars
<1>3. CASE ReadEvent(s)
  <2>1. TypeOK'
    BY <1>1, <1>3 DEF ReadEvent, TypeOK, config, history
  <2>2. ReadInScript'
    <3>1. Len(Script[s]) \in Nat
      BY PumpAssumption
    <3>2. QED
      BY <1>3, <3>1 DEF ReadEvent, ReadInScript, TypeOK
  <2>3. QuietAfterStart' /\ NoSendOnClosed'
    BY <1>1, <1>3
    DEF ReadEvent, QuietAfterStart, NoSendOnClosed, config, history
  <2>4. QED
    BY <1>2, <2>1, <2>2, <2>3
<1>4. CASE Send(s)
  <2>1. /\ Current(s) \in Events
        /\ Len(queue) < Buffer
        /\ queue' = Append(queue, Current(s))
        /\ accepted' = Append(accepted, Current(s))
    BY <1>4, CurrentIsEvent DEF Send
  <2>2. queue' \in Seq(Events) /\ Len(queue') <= Buffer
    BY <2>1, PumpAssumption DEF TypeOK
  <2>3. accepted' \in Seq(Events)
    BY <2>1 DEF TypeOK
  <2>4. TypeOK'
    BY <1>1, <1>4, <2>2, <2>3 DEF Send, TypeOK, config
  <2>5. ReadInScript' /\ QuietAfterStart' /\ NoSendOnClosed'
    BY <1>1, <1>4
    DEF Send, TypeOK, ReadInScript, QuietAfterStart, NoSendOnClosed, config
  <2>6. QED
    BY <1>2, <2>4, <2>5
<1>5. CASE Refuse(s)
  <2>1. TypeOK'
    BY <1>1, <1>5 DEF Refuse, TypeOK, config, history
  <2>2. ReadInScript' /\ QuietAfterStart' /\ NoSendOnClosed'
    BY <1>1, <1>5
    DEF Refuse, TypeOK, ReadInScript, QuietAfterStart, NoSendOnClosed, config,
        history
  <2>3. QED
    BY <1>2, <2>1, <2>2
<1>6. CASE SendOnClosed(s)
  <2>1. TypeOK'
    BY <1>1, <1>6 DEF SendOnClosed, TypeOK, config
  <2>2. ReadInScript' /\ QuietAfterStart'
    BY <1>1, <1>6
    DEF SendOnClosed, TypeOK, ReadInScript, QuietAfterStart, config
  <2>3. NoSendOnClosed'
    BY <1>1, <1>6 DEF SendOnClosed, QuietAfterStart, NoSendOnClosed, config
  <2>4. QED
    BY <1>2, <2>1, <2>2, <2>3
<1>7. QED
  BY <1>3, <1>4, <1>5, <1>6 DEF SourceStep

\* A dispatcher that gets an event, and a worker that ends, preserve the
\* invariant.
LEMMA TakeStepIInv ==
  ASSUME IInv, Lock!IInv',
         \/ \E s \in Sources : CallDispatch(s)
         \/ \E w \in Workers : Take(w) \/ WorkerExit(w)
  PROVE  IInv'
<1> USE DEF IInv
<1>1. Lock!TypeOK'
  BY DEF Lock!IInv
<1>2. ASSUME NEW s \in Sources, CallDispatch(s)
      PROVE  IInv'
  <2>1. /\ s \in Dispatchers
        /\ Current(s) \in Events
        /\ Current(s) # NoEvent
    BY <1>2, CurrentIsEvent, PumpNulls DEF CallDispatch, Dispatchers
  <2>2. accepted' \in Seq(Events)
    BY <1>2, <2>1 DEF CallDispatch, TypeOK
  <2>3. TypeOK'
    BY <1>1, <1>2, <2>1, <2>2 DEF CallDispatch, TypeOK, config
  <2>4. StageMatchesLock'
    BY <1>2, <2>1 DEF CallDispatch, TypeOK, StageMatchesLock, lockVars
  <2>5. ReadInScript' /\ QuietAfterStart' /\ NoSendOnClosed'
    BY <1>2
    DEF CallDispatch, ReadInScript, QuietAfterStart, NoSendOnClosed, config
  <2>6. QED
    BY <2>3, <2>4, <2>5
<1>3. ASSUME NEW w \in Workers, Take(w)
      PROVE  IInv'
  <2>1. /\ w \in Dispatchers
        /\ Head(queue) \in Events
        /\ Head(queue) # NoEvent
        /\ Tail(queue) \in Seq(Events)
        /\ Len(Tail(queue)) <= Buffer
    BY <1>3, PumpNulls, PumpAssumption DEF Take, Dispatchers, TypeOK
  <2>2. TypeOK'
    BY <1>1, <1>3, <2>1 DEF Take, TypeOK, config, history
  <2>3. StageMatchesLock'
    BY <1>3, <2>1 DEF Take, TypeOK, StageMatchesLock, lockVars
  <2>4. ReadInScript' /\ QuietAfterStart' /\ NoSendOnClosed'
    BY <1>3
    DEF Take, ReadInScript, QuietAfterStart, NoSendOnClosed, config, history
  <2>5. QED
    BY <2>2, <2>3, <2>4
<1>4. ASSUME NEW w \in Workers, WorkerExit(w)
      PROVE  IInv'
  <2>1. w \in Dispatchers
    BY DEF Dispatchers
  <2>2. TypeOK'
    BY <1>1, <1>4, <2>1 DEF WorkerExit, TypeOK, config, history
  <2>3. StageMatchesLock'
    BY <1>4, <2>1 DEF WorkerExit, TypeOK, StageMatchesLock, lockVars
  <2>4. ReadInScript' /\ QuietAfterStart' /\ NoSendOnClosed'
    BY <1>4
    DEF WorkerExit, ReadInScript, QuietAfterStart, NoSendOnClosed, config,
        history
  <2>5. QED
    BY <2>2, <2>3, <2>4
<1>5. QED
  BY <1>2, <1>3, <1>4

\* A dispatcher that enters or leaves its event's lock preserves the invariant.
LEMMA DispatchStepIInv ==
  ASSUME IInv, Lock!IInv', NEW d \in Dispatchers, DispatchStep(d)
  PROVE  IInv'
<1> USE DEF IInv
<1>1. /\ Lock!TypeOK'
      /\ pc \in [Dispatchers -> {"idle", "waiting", "holding", "releasing"}]
      /\ key \in [Dispatchers -> Keys \cup {NoKey}]
  BY DEF Lock!IInv, Lock!TypeOK
<1>2. /\ UNCHANGED <<config, run, ctxDone, read, queue, accepted, panicked>>
      /\ \A s \in Sources : emitting'[s] => emitting[s]
      /\ emitting' \in [Sources -> BOOLEAN]
  BY DEF DispatchStep, EnterLock, BeginSerial, BeginFree, EndFree, EndSerial,
         LeaveLock, ReturnFromDispatch, history, TypeOK
<1>3. ReadInScript' /\ QuietAfterStart' /\ NoSendOnClosed'
  BY <1>2 DEF ReadInScript, QuietAfterStart, NoSendOnClosed, config
<1>4. work[d] \in Events
  BY DEF DispatchStep, EnterLock, BeginSerial, BeginFree, EndFree, EndSerial,
         LeaveLock, StageMatchesLock, TypeOK
<1>5. Append(begun, work[d]) \in Seq(Events)
  BY <1>4 DEF TypeOK
<1>6. CASE EnterLock(d)
  <2>1. TypeOK'
    BY <1>1, <1>2, <1>6 DEF EnterLock, TypeOK, config, history
  <2>2. StageMatchesLock'
    BY <1>1, <1>6 DEF EnterLock, Lock!AcquireEntry, StageMatchesLock, TypeOK
  <2>3. QED
    BY <1>3, <2>1, <2>2
<1>7. CASE BeginSerial(d)
  <2>1. TypeOK'
    BY <1>1, <1>2, <1>5, <1>7 DEF BeginSerial, TypeOK, config
  <2>2. StageMatchesLock'
    BY <1>1, <1>7 DEF BeginSerial, Lock!LockItem, StageMatchesLock, TypeOK
  <2>3. QED
    BY <1>3, <2>1, <2>2
<1>8. CASE BeginFree(d)
  <2>1. TypeOK'
    BY <1>1, <1>2, <1>5, <1>8 DEF BeginFree, TypeOK, config
  <2>2. StageMatchesLock'
    BY <1>1, <1>8 DEF BeginFree, StageMatchesLock, TypeOK, lockVars
  <2>3. QED
    BY <1>3, <2>1, <2>2
<1>9. CASE EndFree(d)
  <2>1. TypeOK'
    BY <1>1, <1>2, <1>4, <1>9 DEF EndFree, ReturnFromDispatch, TypeOK, config
  <2>2. StageMatchesLock'
    BY <1>1, <1>9
    DEF EndFree, ReturnFromDispatch, StageMatchesLock, TypeOK, lockVars
  <2>3. QED
    BY <1>3, <2>1, <2>2
<1>10. CASE EndSerial(d)
  <2>1. TypeOK'
    BY <1>1, <1>2, <1>10 DEF EndSerial, TypeOK, config, history
  <2>2. StageMatchesLock'
    BY <1>1, <1>10 DEF EndSerial, Lock!UnlockItem, StageMatchesLock, TypeOK
  <2>3. QED
    BY <1>3, <2>1, <2>2
<1>11. CASE LeaveLock(d)
  <2>1. TypeOK'
    BY <1>1, <1>2, <1>4, <1>11 DEF LeaveLock, ReturnFromDispatch, TypeOK, config
  <2>2. StageMatchesLock'
    BY <1>1, <1>11
    DEF LeaveLock, ReturnFromDispatch, Lock!DropEntry, StageMatchesLock, TypeOK
  <2>3. QED
    BY <1>3, <2>1, <2>2
<1>12. QED
  BY <1>6, <1>7, <1>8, <1>9, <1>10, <1>11 DEF DispatchStep

\* A step of the shutdown preserves the invariant.
LEMMA ShutdownIInv ==
  ASSUME IInv, Lock!IInv', Shutdown
  PROVE  IInv'
<1> USE DEF IInv
<1>1. /\ UNCHANGED <<config, read, emitting, queue, stage, work, history, lockVars>>
      /\ run' \in {"serving", "returned", "closed", "done"}
      /\ ctxDone' \in BOOLEAN
  BY DEF Shutdown, Cancel, StartReturns, CloseEvents, WorkersJoined, TypeOK
<1>2. TypeOK'
  BY <1>1 DEF TypeOK, Lock!IInv, config, history
<1>3. ReadInScript' /\ StageMatchesLock' /\ NoSendOnClosed'
  BY <1>1
  DEF ReadInScript, StageMatchesLock, NoSendOnClosed, config, history, lockVars
<1>4. QuietAfterStart'
  <2>1. CASE Cancel
    BY <1>1, <2>1 DEF Cancel, QuietAfterStart, config
  <2>2. CASE StartReturns
    BY <1>1, <2>2 DEF StartReturns, QuietAfterStart, config
  <2>3. CASE CloseEvents \/ WorkersJoined
    BY <1>1, <2>3 DEF CloseEvents, WorkersJoined, QuietAfterStart, config
  <2>4. QED
    BY <2>1, <2>2, <2>3 DEF Shutdown
<1>5. QED
  BY <1>2, <1>3, <1>4

\* The invariant is inductive.
LEMMA StepIInv == IInv /\ [Next]_vars => IInv'
<1> SUFFICES ASSUME IInv, [Next]_vars PROVE IInv'
  OBVIOUS
<1>1. Lock!IInv'
  BY StepUsesLocks, LockStep DEF IInv
<1>2. CASE Next
  <2>1. CASE \E s \in Sources : SourceStep(s)
    BY <1>1, <2>1, SourceStepIInv
  <2>2. CASE \/ \E s \in Sources : CallDispatch(s)
             \/ \E w \in Workers : Take(w) \/ WorkerExit(w)
    BY <1>1, <2>2, TakeStepIInv
  <2>3. CASE \E d \in Dispatchers : DispatchStep(d)
    BY <1>1, <2>3, DispatchStepIInv
  <2>4. CASE Shutdown
    BY <1>1, <2>4, ShutdownIInv
  <2>5. CASE UNCHANGED vars
    BY <1>1, <2>5
    DEF IInv, TypeOK, ReadInScript, StageMatchesLock, QuietAfterStart,
        NoSendOnClosed, Lock!IInv, vars, config, history, lockVars
  <2>6. QED
    BY <1>2, <2>1, <2>2, <2>3, <2>4, <2>5 DEF Next, Terminated
<1>3. CASE UNCHANGED vars
  BY <1>1, <1>3
  DEF IInv, TypeOK, ReadInScript, StageMatchesLock, QuietAfterStart,
      NoSendOnClosed, Lock!IInv, vars, config, history, lockVars
<1>4. QED
  BY <1>2, <1>3

-----------------------------------------------------------------------------
\* The inductive invariant holds in every reachable state.
THEOREM Invariance == Spec => []IInv
BY InitIInv, StepIInv, PTL DEF Spec

\* Every variable keeps its type; in particular the channel never holds more
\* than its capacity (core/app.go:134).
THEOREM TypeCorrect == Spec => []TypeOK
<1>1. IInv => TypeOK
  BY DEF IInv
<1>2. QED
  BY <1>1, Invariance, PTL

\* App.dispatch and its callers use the per-key locks as a caller of lock and
\* of the closure it returns may (core/app.go:182-209, core/scheduler.go).
THEOREM LocksRefined == Spec => UsesKeyedLocks
<1>1. Init => Lock!Init
  BY DEF Init
<1>2. IInv /\ [Next]_vars => [Lock!Next]_(Lock!lockVars)
  BY StepUsesLocks DEF lockVars, Lock!lockVars
<1>3. QED
  BY <1>1, <1>2, Invariance, PTL DEF Spec, UsesKeyedLocks, Lock!Spec

\* The routes of two events of one key never run at the same time, for any
\* number of workers and any adapter (core/options.go:83).
THEOREM Serial == Spec => []SerialByKey
<1>1. IInv => SerialByKey
  <2>1. SUFFICES ASSUME IInv, NEW c \in Dispatchers, NEW d \in Dispatchers,
                        stage[c] = "handling", stage[d] = "handling",
                        KeyOf[work[c]] = KeyOf[work[d]],
                        KeyOf[work[c]] # NoKey
                 PROVE  c = d
    BY DEF SerialByKey
  <2>2. /\ pc[c] = "holding" /\ pc[d] = "holding"
        /\ key[c] = key[d]
    BY <2>1 DEF IInv, StageMatchesLock
  <2>3. Lock!MutualExclusion
    BY <2>1, LockMutex DEF IInv
  <2>4. QED
    BY <2>2, <2>3 DEF Lock!MutualExclusion
<1>2. QED
  BY <1>1, Invariance, PTL

\* An adapter whose Start waits for its read loop never sends on the closed
\* channel, however the shutdown falls (core/app.go:167-178).
THEOREM NoPanic == Spec => []NoSendOnClosed
<1>1. IInv => NoSendOnClosed
  BY DEF IInv
<1>2. QED
  BY <1>1, Invariance, PTL

-----------------------------------------------------------------------------
(* The way of the events through Run. *)

\* No event occurs twice in q.
Distinct(q) == \A i, j \in DOMAIN q : q[i] = q[j] => i = j

\* What Append does to a sequence of different events.
LEMMA AppendFacts ==
  ASSUME NEW S, NEW q \in Seq(S), NEW e \in S
  PROVE  /\ Append(q, e) \in Seq(S)
         /\ Len(Append(q, e)) = Len(q) + 1
         /\ \A i \in 1..Len(q) : Append(q, e)[i] = q[i]
         /\ Append(q, e)[Len(q) + 1] = e
         /\ RangeOf(Append(q, e)) = RangeOf(q) \cup {e}
         /\ Distinct(q) /\ e \notin RangeOf(q) => Distinct(Append(q, e))
<1>1. /\ Append(q, e) \in Seq(S)
      /\ Len(Append(q, e)) = Len(q) + 1
      /\ \A i \in 1..Len(q) : Append(q, e)[i] = q[i]
      /\ Append(q, e)[Len(q) + 1] = e
  OBVIOUS
<1>2. /\ DOMAIN q = 1..Len(q) /\ Len(q) \in Nat
      /\ DOMAIN Append(q, e) = 1..(Len(q) + 1)
  BY <1>1
<1>3. RangeOf(Append(q, e)) = RangeOf(q) \cup {e}
  <2>1. ASSUME NEW x, x \in RangeOf(Append(q, e)) PROVE x \in RangeOf(q) \cup {e}
    BY <1>1, <1>2, <2>1 DEF RangeOf
  <2>2. RangeOf(q) \subseteq RangeOf(Append(q, e))
    BY <1>1, <1>2 DEF RangeOf
  <2>3. e \in RangeOf(Append(q, e))
    BY <1>1, <1>2 DEF RangeOf
  <2>4. QED
    BY <2>1, <2>2, <2>3
<1>4. ASSUME Distinct(q), e \notin RangeOf(q) PROVE Distinct(Append(q, e))
  BY <1>1, <1>2, <1>4 DEF RangeOf, Distinct
<1>5. QED
  BY <1>1, <1>3, <1>4

\* What taking the oldest event leaves of a sequence of different events.
LEMMA TailFacts ==
  ASSUME NEW S, NEW q \in Seq(S), q # <<>>, Distinct(q)
  PROVE  /\ Tail(q) \in Seq(S)
         /\ Len(Tail(q)) = Len(q) - 1 /\ Len(q) \in Nat \ {0}
         /\ q[1] = Head(q)
         /\ \A i \in 1..Len(Tail(q)) : Tail(q)[i] = q[i + 1]
         /\ RangeOf(q) = RangeOf(Tail(q)) \cup {Head(q)}
         /\ Head(q) \notin RangeOf(Tail(q))
         /\ Distinct(Tail(q))
<1>1. /\ Tail(q) \in Seq(S)
      /\ Len(Tail(q)) = Len(q) - 1 /\ Len(q) \in Nat \ {0}
      /\ q[1] = Head(q)
      /\ \A i \in 1..Len(Tail(q)) : Tail(q)[i] = q[i + 1]
  OBVIOUS
<1>2. /\ DOMAIN q = 1..Len(q)
      /\ DOMAIN Tail(q) = 1..(Len(q) - 1)
  BY <1>1
<1>3. RangeOf(q) \subseteq RangeOf(Tail(q)) \cup {Head(q)}
  <2>1. SUFFICES ASSUME NEW i \in 1..Len(q), i # 1
                 PROVE  q[i] \in RangeOf(Tail(q))
    BY <1>1, <1>2 DEF RangeOf
  <2>2. i - 1 \in 1..Len(Tail(q)) /\ Tail(q)[i - 1] = q[i]
    BY <1>1, <2>1
  <2>3. QED
    BY <1>1, <1>2, <2>2 DEF RangeOf
<1>4. RangeOf(Tail(q)) \cup {Head(q)} \subseteq RangeOf(q)
  BY <1>1, <1>2 DEF RangeOf
<1>5. Head(q) \notin RangeOf(Tail(q)) /\ Distinct(Tail(q))
  BY <1>1, <1>2 DEF RangeOf, Distinct
<1>6. QED
  BY <1>1, <1>3, <1>4, <1>5

\* What the steps below need of the types.
FlowTypes ==
  /\ crew \subseteq Workers
  /\ read \in [Sources -> Nat] /\ emitting \in [Sources -> BOOLEAN]
  /\ stage \in [Dispatchers -> {"idle", "called", "locking", "handling",
                               "unlocking", "exited"}]
  /\ work \in [Dispatchers -> Events \cup {NoEvent}]
  /\ queue \in Seq(Events) /\ accepted \in Seq(Events) /\ begun \in Seq(Events)
  /\ \A d \in Dispatchers : work[d] = NoEvent <=> stage[d] \in {"idle", "exited"}
  /\ Sources \subseteq Dispatchers /\ Workers \subseteq Dispatchers
  /\ Workers \cap Sources = {} /\ NoEvent \notin Events

LEMMA FlowTypesHold == IInv => FlowTypes
BY PumpAssumption, PumpNulls
DEF IInv, TypeOK, StageMatchesLock, FlowTypes, Dispatchers

\* A step of a dispatcher moves on with its event, begins it or ends it.
Moves(d) ==
  /\ \/ stage[d] = "called" /\ stage' = [stage EXCEPT ![d] = "locking"]
     \/ stage[d] = "handling" /\ stage' = [stage EXCEPT ![d] = "unlocking"]
  /\ UNCHANGED <<emitting, work, begun, finished>>

Begins(d) ==
  /\ stage[d] \in {"called", "locking"}
  /\ stage' = [stage EXCEPT ![d] = "handling"]
  /\ begun' = Append(begun, work[d])
  /\ UNCHANGED <<emitting, work, finished>>

Ends(d) ==
  /\ stage[d] \in {"handling", "unlocking"}
  /\ ReturnFromDispatch(d)
  /\ UNCHANGED begun

LEMMA DispatchEffects ==
  ASSUME NEW d \in Dispatchers, DispatchStep(d)
  PROVE  /\ Moves(d) \/ Begins(d) \/ Ends(d)
         /\ UNCHANGED <<config, run, ctxDone, read, queue, accepted, panicked>>
BY DEF DispatchStep, EnterLock, BeginSerial, BeginFree, EndFree, EndSerial,
       LeaveLock, Moves, Begins, Ends, history

\* A step that does not touch what has been taken and where it is.
Aside ==
  UNCHANGED <<crew, queue, stage, work, accepted, begun, finished>>

LEMMA AsideSteps ==
  ASSUME IInv,
         \/ \E s \in Sources : ReadEvent(s) \/ Refuse(s) \/ SendOnClosed(s)
         \/ Shutdown
         \/ UNCHANGED vars
  PROVE  Aside
BY DEF ReadEvent, Refuse, SendOnClosed, Shutdown, Cancel, StartReturns,
       CloseEvents, WorkersJoined, vars, Aside, config, history

\* The steps a FlowInv lemma distinguishes.
LEMMA FlowCases ==
  ASSUME IInv, [Next]_vars
  PROVE  \/ Aside
         \/ \E s \in Sources : Send(s) \/ CallDispatch(s)
         \/ \E w \in Workers : Take(w) \/ WorkerExit(w)
         \/ \E d \in Dispatchers : DispatchStep(d)
<1>1. CASE Next
  BY <1>1, AsideSteps DEF Next, SourceStep, Terminated
<1>2. CASE UNCHANGED vars
  BY <1>2, AsideSteps
<1>3. QED
  BY <1>1, <1>2

\* Every event that was taken had been read before.
LEMMA InitAccepted == Init => AcceptedRead
BY DEF Init, AcceptedRead, RangeOf

LEMMA AcceptedKept ==
  ASSUME IInv, AcceptedRead, HandsExact, [Next]_vars
  PROVE  AcceptedRead'
<1>1. FlowTypes
  BY FlowTypesHold
<1>2. ASSUME RangeOf(accepted') \subseteq RangeOf(accepted),
             \A s \in Sources :
               /\ read'[s] \in Nat /\ read'[s] >= read[s]
               /\ /\ read'[s] = read[s]
                  /\ ~emitting[s] \/ (Sync /\ stage[s] # "idle")
                  => ~emitting'[s] \/ (Sync' /\ stage'[s] # "idle")
      PROVE  AcceptedRead'
  <2>1. SUFFICES ASSUME NEW e \in RangeOf(accepted')
                 PROVE  \E s \in Sources : \E i \in 1..read'[s] :
                          /\ e = Script[s][i]
                          /\ i = read'[s] => ~emitting'[s] \/ (Sync' /\ stage'[s] # "idle")
    BY DEF AcceptedRead, RangeOf, Sync
  <2>2. PICK s \in Sources : \E i \in 1..read[s] :
               /\ e = Script[s][i]
               /\ i = read[s] => ~emitting[s] \/ (Sync /\ stage[s] # "idle")
    BY <1>2, <2>1 DEF AcceptedRead
  <2>3. PICK i \in 1..read[s] :
               /\ e = Script[s][i]
               /\ i = read[s] => ~emitting[s] \/ (Sync /\ stage[s] # "idle")
    BY <2>2
  <2>4. i \in 1..read'[s]
    BY <1>1, <1>2 DEF FlowTypes
  <2>5. i = read'[s] => i = read[s] /\ read'[s] = read[s]
    BY <1>1, <1>2 DEF FlowTypes
  <2>6. QED
    BY <1>2, <2>3, <2>4, <2>5
<1>3. ASSUME NEW s \in Sources, SourceStep(s), ~Send(s) PROVE AcceptedRead'
  <2>1. /\ RangeOf(accepted') = RangeOf(accepted)
        /\ Sync' = Sync /\ stage' = stage
    BY <1>3
    DEF SourceStep, ReadEvent, Refuse, SendOnClosed, config, history, RangeOf, Sync
  <2>2. ASSUME NEW t \in Sources
        PROVE  /\ read'[t] \in Nat /\ read'[t] >= read[t]
               /\ read'[t] = read[t] => (emitting'[t] => emitting[t])
    BY <1>1, <1>3
    DEF SourceStep, ReadEvent, Refuse, SendOnClosed, FlowTypes
  <2>3. QED
    BY <1>2, <2>1, <2>2
<1>4. ASSUME NEW s \in Sources, Send(s) PROVE AcceptedRead'
  <2>1. Current(s) \in Events /\ read[s] \in 1..read[s]
    BY <1>1, <1>4, CurrentIsEvent DEF Send, IInv, ReadInScript, FlowTypes
  <2>2. RangeOf(accepted') = RangeOf(accepted) \cup {Current(s)}
    BY <1>1, <1>4, <2>1, AppendFacts DEF Send, FlowTypes
  <2>3. /\ read' = read /\ stage' = stage /\ Sync' = Sync
        /\ ~emitting'[s]
        /\ \A t \in Sources : emitting'[t] => emitting[t]
    BY <1>1, <1>4 DEF Send, FlowTypes, config, Sync
  <2>4. ASSUME NEW e \in RangeOf(accepted)
        PROVE  \E t \in Sources : \E i \in 1..read'[t] :
                 /\ e = Script[t][i]
                 /\ i = read'[t] => ~emitting'[t] \/ (Sync' /\ stage'[t] # "idle")
    BY <2>3 DEF AcceptedRead
  <2>5. Current(s) = Script[s][read'[s]] /\ read'[s] \in 1..read'[s]
    BY <2>1, <2>3 DEF Current
  <2>6. ASSUME NEW e \in RangeOf(accepted')
        PROVE  \E t \in Sources : \E i \in 1..read'[t] :
                 /\ e = Script[t][i]
                 /\ i = read'[t] => ~emitting'[t] \/ (Sync' /\ stage'[t] # "idle")
    BY <2>2, <2>3, <2>4, <2>5
  <2>7. QED
    BY <2>6 DEF AcceptedRead, RangeOf, Sync
<1>5. ASSUME NEW s \in Sources, CallDispatch(s) PROVE AcceptedRead'
  <2>1. Current(s) \in Events /\ read[s] \in 1..read[s]
    BY <1>1, <1>5, CurrentIsEvent DEF CallDispatch, IInv, ReadInScript, FlowTypes
  <2>2. RangeOf(accepted') = RangeOf(accepted) \cup {Current(s)}
    BY <1>1, <1>5, <2>1, AppendFacts DEF CallDispatch, FlowTypes
  <2>3. /\ read' = read /\ emitting' = emitting /\ Sync /\ Sync'
        /\ stage'[s] # "idle"
        /\ \A t \in Sources : stage'[t] = "idle" => stage[t] = "idle"
    BY <1>1, <1>5 DEF CallDispatch, FlowTypes, config, Sync
  <2>4. ASSUME NEW e \in RangeOf(accepted)
        PROVE  \E t \in Sources : \E i \in 1..read'[t] :
                 /\ e = Script[t][i]
                 /\ i = read'[t] => ~emitting'[t] \/ (Sync' /\ stage'[t] # "idle")
    BY <2>3 DEF AcceptedRead
  <2>5. Current(s) = Script[s][read'[s]] /\ read'[s] \in 1..read'[s]
    BY <2>1, <2>3 DEF Current
  <2>6. ASSUME NEW e \in RangeOf(accepted')
        PROVE  \E t \in Sources : \E i \in 1..read'[t] :
                 /\ e = Script[t][i]
                 /\ i = read'[t] => ~emitting'[t] \/ (Sync' /\ stage'[t] # "idle")
    BY <2>2, <2>3, <2>4, <2>5
  <2>7. QED
    BY <2>6 DEF AcceptedRead, RangeOf, Sync
<1>6. ASSUME NEW w \in Workers, Take(w) \/ WorkerExit(w) PROVE AcceptedRead'
  <2>1. /\ accepted' = accepted /\ read' = read /\ emitting' = emitting
        /\ ~Sync /\ ~Sync'
    BY <1>6 DEF Take, WorkerExit, config, history, Sync
  <2>2. QED
    BY <1>1, <1>2, <2>1 DEF FlowTypes, RangeOf
<1>7. ASSUME NEW d \in Dispatchers, DispatchStep(d) PROVE AcceptedRead'
  <2>1. accepted' = accepted /\ read' = read /\ Sync' = Sync
    BY <1>7, DispatchEffects DEF config, Sync
  <2>2. ASSUME NEW s \in Sources,
               ~emitting[s] \/ (Sync /\ stage[s] # "idle")
        PROVE  ~emitting'[s] \/ (Sync' /\ stage'[s] # "idle")
    <3>1. CASE Moves(d) \/ Begins(d)
      BY <1>1, <2>1, <2>2, <3>1 DEF Moves, Begins, FlowTypes
    <3>2. CASE Ends(d)
      BY <1>1, <2>1, <2>2, <3>2 DEF Ends, ReturnFromDispatch, FlowTypes
    <3>3. QED
      BY <1>7, <3>1, <3>2, DispatchEffects
  <2>3. QED
    BY <1>1, <1>2, <2>1, <2>2 DEF FlowTypes, RangeOf
<1>8. ASSUME Shutdown \/ UNCHANGED vars PROVE AcceptedRead'
  <2>1. UNCHANGED <<accepted, read, emitting, stage, crew>>
    BY <1>8
    DEF Shutdown, Cancel, StartReturns, CloseEvents, WorkersJoined, vars, config,
        history
  <2>2. QED
    BY <2>1 DEF AcceptedRead, RangeOf, Sync
<1>9. QED
  BY <1>3, <1>4, <1>5, <1>6, <1>7, <1>8 DEF Next, Terminated, SourceStep

\* Only a source in emit, or a worker of the crew, has an event in its hands.
LEMMA InitHands == Init => HandsExact
BY DEF Init, HandsExact, Sync

LEMMA HandsKept ==
  ASSUME IInv, HandsExact, [Next]_vars
  PROVE  HandsExact'
<1>1. FlowTypes
  BY FlowTypesHold
<1>2. ASSUME NEW s \in Sources, SourceStep(s) PROVE HandsExact'
  <2>1. /\ UNCHANGED <<crew, work, stage>> /\ Sync' = Sync
        /\ Sync => queue' = queue
        /\ \A t \in Sources : Sync /\ emitting[t] => emitting'[t] /\ read'[t] = read[t]
    BY <1>1, <1>2
    DEF SourceStep, ReadEvent, Send, Refuse, SendOnClosed, config, history, Sync,
        FlowTypes
  <2>2. QED
    BY <2>1 DEF HandsExact, Current
<1>3. ASSUME NEW s \in Sources, CallDispatch(s) PROVE HandsExact'
  BY <1>1, <1>3 DEF CallDispatch, HandsExact, Current, config, Sync, FlowTypes
<1>4. ASSUME NEW w \in Workers, Take(w) \/ WorkerExit(w) PROVE HandsExact'
  BY <1>1, <1>4
  DEF Take, WorkerExit, HandsExact, Current, config, history, Sync, FlowTypes
<1>5. ASSUME NEW d \in Dispatchers, DispatchStep(d) PROVE HandsExact'
  <2>1. /\ UNCHANGED <<crew, read, queue>> /\ Sync' = Sync
    BY <1>5, DispatchEffects DEF config, Sync
  <2>2. CASE Moves(d) \/ Begins(d)
    BY <2>1, <2>2 DEF Moves, Begins, HandsExact, Current
  <2>3. CASE Ends(d)
    <3>1. /\ work'[d] = NoEvent
          /\ \A c \in Dispatchers \ {d} : work'[c] = work[c]
          /\ \A s \in Sources \ {d} : emitting'[s] = emitting[s]
      BY <1>1, <2>3 DEF Ends, ReturnFromDispatch, FlowTypes
    <3>2. QED
      BY <2>1, <3>1 DEF HandsExact, Current
  <2>4. QED
    BY <1>5, <2>2, <2>3, DispatchEffects
<1>6. ASSUME Shutdown \/ UNCHANGED vars PROVE HandsExact'
  <2>1. UNCHANGED <<crew, work, emitting, read, queue>>
    BY <1>6
    DEF Shutdown, Cancel, StartReturns, CloseEvents, WorkersJoined, vars, config
  <2>2. QED
    BY <2>1 DEF HandsExact, Current, Sync
<1>7. QED
  BY <1>2, <1>3, <1>4, <1>5, <1>6 DEF Next, Terminated

\* No worker ends while an event is left or can still come.
LEMMA InitExit == Init => ExitExact
BY DEF Init, ExitExact

LEMMA ExitKept ==
  ASSUME IInv, ExitExact, HandsExact, [Next]_vars
  PROVE  ExitExact'
<1>1. FlowTypes
  BY FlowTypesHold
<1>2. ASSUME NEW s \in Sources, SourceStep(s) PROVE ExitExact'
  BY <1>1, <1>2
  DEF SourceStep, ReadEvent, Send, Refuse, SendOnClosed, ExitExact, Sync, config,
      history, FlowTypes
<1>3. ASSUME NEW s \in Sources, CallDispatch(s) PROVE ExitExact'
  BY <1>1, <1>3 DEF CallDispatch, ExitExact, Sync, config, FlowTypes
<1>4. ASSUME NEW w \in Workers, Take(w) \/ WorkerExit(w) PROVE ExitExact'
  BY <1>1, <1>4
  DEF Take, WorkerExit, ExitExact, Sync, config, history, FlowTypes
<1>5. ASSUME NEW d \in Dispatchers, DispatchStep(d) PROVE ExitExact'
  <2>1. /\ UNCHANGED <<config, run, queue>> /\ Sync' = Sync
        /\ stage[d] # "exited" /\ stage'[d] # "exited"
        /\ \A c \in Dispatchers \ {d} : stage'[c] = stage[c]
        /\ \A s \in Sources : emitting'[s] => emitting[s]
    <3>1. UNCHANGED <<config, run, queue>> /\ Sync' = Sync
      BY <1>5, DispatchEffects DEF config, Sync
    <3>2. CASE Moves(d) \/ Begins(d)
      BY <1>1, <3>1, <3>2 DEF Moves, Begins, FlowTypes
    <3>3. CASE Ends(d)
      BY <1>1, <3>1, <3>3 DEF Ends, ReturnFromDispatch, FlowTypes
    <3>4. QED
      BY <1>5, <3>2, <3>3, DispatchEffects
  <2>2. QED
    BY <1>1, <2>1 DEF ExitExact, config, FlowTypes
<1>6. CASE Shutdown
  <2>1. UNCHANGED <<config, emitting, queue, stage>> /\ Sync' = Sync
    BY <1>6
    DEF Shutdown, Cancel, StartReturns, CloseEvents, WorkersJoined, config, Sync
  <2>2. QuietAfterStart
    BY DEF IInv
  <2>3. QED
    BY <1>1, <1>6, <2>1, <2>2
    DEF Shutdown, Cancel, StartReturns, CloseEvents, WorkersJoined, ExitExact,
        QuietAfterStart, Sync, config, FlowTypes
<1>7. CASE UNCHANGED vars
  BY <1>7 DEF vars, config, ExitExact, Sync
<1>8. QED
  BY <1>2, <1>3, <1>4, <1>5, <1>6, <1>7 DEF Next, Terminated

-----------------------------------------------------------------------------
\* The events a dispatcher has begun and not ended.
Handling ==
  {work[d] : d \in {c \in Dispatchers : stage[c] \in {"handling", "unlocking"}}}

LEMMA HandlingFacts ==
  ASSUME FlowTypes, OnceExact
  PROVE  /\ RangeOf(begun) = Handling \cup finished
         /\ Handling \subseteq InHand
         /\ RangeOf(begun) \subseteq RangeOf(accepted)
BY DEF OnceExact, ExactlyOnce, Handling, InHand, FlowTypes

\* An event in emit has not been taken.
LEMMA NotYetTaken ==
  ASSUME IInv, AcceptedRead, NEW s \in Sources, emitting[s],
         ~Sync \/ stage[s] = "idle"
  PROVE  Current(s) \notin RangeOf(accepted)
<1>1. SUFFICES ASSUME Current(s) \in RangeOf(accepted) PROVE FALSE
  OBVIOUS
<1>2. PICK t \in Sources :
        \E i \in 1..read[t] :
          /\ Current(s) = Script[t][i]
          /\ i = read[t] => ~emitting[t] \/ (Sync /\ stage[t] # "idle")
  BY <1>1 DEF AcceptedRead
<1>3. PICK i \in 1..read[t] :
             /\ Current(s) = Script[t][i]
             /\ i = read[t] => ~emitting[t] \/ (Sync /\ stage[t] # "idle")
  BY <1>2
<1>4. /\ read[s] \in DOMAIN Script[s]
      /\ i \in DOMAIN Script[t]
  BY PumpAssumption DEF IInv, TypeOK, ReadInScript
<1>5. s = t /\ read[s] = i
  BY <1>3, <1>4, FramesDiffer DEF Current
<1>6. QED
  BY <1>3, <1>5

\* Every event is in one place.
LEMMA InitOnce == Init => OnceExact
<1>1. SUFFICES ASSUME Init PROVE OnceExact
  OBVIOUS
<1>2. /\ queue = <<>> /\ accepted = <<>> /\ begun = <<>> /\ finished = {}
      /\ \A d \in Dispatchers : work[d] = NoEvent /\ stage[d] = "idle"
  BY <1>1 DEF Init
<1>3. InHand = {}
      /\ {work[d] : d \in {c \in Dispatchers : stage[c] \in {"handling", "unlocking"}}} = {}
  BY <1>2 DEF InHand
<1>4. RangeOf(<<>>) = {}
  BY DEF RangeOf
<1>5. QED
  BY <1>2, <1>3, <1>4 DEF OnceExact, ExactlyOnce

LEMMA OnceKept ==
  ASSUME IInv, AcceptedRead, HandsExact, OnceExact, [Next]_vars
  PROVE  OnceExact'
<1>1. FlowTypes
  BY FlowTypesHold
<1>2. /\ Distinct(accepted) /\ Distinct(begun) /\ Distinct(queue)
      /\ RangeOf(accepted) = RangeOf(queue) \cup InHand \cup finished
      /\ RangeOf(queue) \cap (InHand \cup finished) = {}
      /\ InHand \cap finished = {}
      /\ \A c, d \in Dispatchers : work[c] = work[d] /\ work[c] # NoEvent => c = d
      /\ RangeOf(begun) = Handling \cup finished
      /\ Handling \subseteq InHand
  BY <1>1, HandlingFacts DEF OnceExact, ExactlyOnce, Distinct
<1>3. ASSUME /\ Distinct(accepted)' /\ Distinct(begun)' /\ Distinct(queue)'
             /\ RangeOf(accepted') = RangeOf(queue') \cup InHand' \cup finished'
             /\ RangeOf(queue') \cap (InHand' \cup finished') = {}
             /\ InHand' \cap finished' = {}
             /\ \A c, d \in Dispatchers :
                  work'[c] = work'[d] /\ work'[c] # NoEvent => c = d
             /\ RangeOf(begun') = Handling' \cup finished'
      PROVE  OnceExact'
  BY <1>3 DEF OnceExact, ExactlyOnce, Distinct, Handling, RangeOf
<1>4. CASE Aside
  BY <1>2, <1>3, <1>4 DEF Aside, Distinct, InHand, Handling
<1>5. ASSUME NEW s \in Sources, Send(s)
      PROVE  OnceExact'
  <2>1. Current(s) \in Events /\ Current(s) \notin RangeOf(accepted)
    BY <1>5, CurrentIsEvent, NotYetTaken DEF Send
  <2>2. /\ Distinct(accepted)' /\ Distinct(queue)'
        /\ RangeOf(accepted') = RangeOf(accepted) \cup {Current(s)}
        /\ RangeOf(queue') = RangeOf(queue) \cup {Current(s)}
    <3>1. /\ accepted \in Seq(Events) /\ accepted' = Append(accepted, Current(s))
          /\ queue \in Seq(Events) /\ queue' = Append(queue, Current(s))
      BY <1>1, <1>5 DEF Send, FlowTypes
    <3>2. Current(s) \notin RangeOf(queue)
      BY <1>2, <2>1
    <3>3. /\ Distinct(Append(accepted, Current(s)))
          /\ Distinct(Append(queue, Current(s)))
          /\ RangeOf(Append(accepted, Current(s))) = RangeOf(accepted) \cup {Current(s)}
          /\ RangeOf(Append(queue, Current(s))) = RangeOf(queue) \cup {Current(s)}
      BY <1>2, <2>1, <3>1, <3>2, AppendFacts
    <3>4. QED
      BY <3>1, <3>3 DEF Distinct
  <2>3. /\ InHand' = InHand /\ Handling' = Handling
        /\ finished' = finished /\ begun' = begun /\ work' = work
        /\ Distinct(begun)'
    BY <1>2, <1>5 DEF Send, InHand, Handling, Distinct
  <2>4. QED
    BY <1>2, <1>3, <2>1, <2>2, <2>3
<1>6. ASSUME NEW s \in Sources, CallDispatch(s)
      PROVE  OnceExact'
  <2>1. Current(s) \in Events /\ Current(s) \notin RangeOf(accepted)
    BY <1>6, CurrentIsEvent, NotYetTaken DEF CallDispatch
  <2>2. /\ Distinct(accepted)'
        /\ RangeOf(accepted') = RangeOf(accepted) \cup {Current(s)}
    <3>1. accepted \in Seq(Events) /\ accepted' = Append(accepted, Current(s))
      BY <1>1, <1>6 DEF CallDispatch, FlowTypes
    <3>2. /\ Distinct(Append(accepted, Current(s)))
          /\ RangeOf(Append(accepted, Current(s))) = RangeOf(accepted) \cup {Current(s)}
      BY <1>2, <2>1, <3>1, AppendFacts
    <3>3. QED
      BY <3>1, <3>2 DEF Distinct
  <2>3. /\ finished' = finished /\ begun' = begun /\ queue' = queue
        /\ Distinct(begun)' /\ Distinct(queue)'
    BY <1>2, <1>6 DEF CallDispatch, Distinct
  <2>4. /\ s \in Dispatchers /\ work[s] = NoEvent
        /\ work'[s] = Current(s) /\ Current(s) # NoEvent
        /\ \A d \in Dispatchers \ {s} : work'[d] = work[d] /\ stage'[d] = stage[d]
        /\ stage[s] = "idle" /\ stage'[s] = "called"
    BY <1>1, <1>6, <2>1 DEF CallDispatch, FlowTypes
  <2>5. InHand' = InHand \cup {Current(s)} /\ Handling' = Handling
    BY <2>4 DEF InHand, Handling
  <2>6. \A c, d \in Dispatchers : work'[c] = work'[d] /\ work'[c] # NoEvent => c = d
    BY <1>2, <2>1, <2>4 DEF InHand
  <2>7. QED
    BY <1>2, <1>3, <2>1, <2>2, <2>3, <2>5, <2>6
<1>7. ASSUME NEW w \in Workers, Take(w)
      PROVE  OnceExact'
  <2>1. /\ Distinct(queue)'
        /\ RangeOf(queue) = RangeOf(queue') \cup {Head(queue)}
        /\ Head(queue) \notin RangeOf(queue')
    BY <1>1, <1>2, <1>7, TailFacts DEF Take, FlowTypes, Distinct
  <2>2. /\ finished' = finished /\ begun' = begun /\ accepted' = accepted
        /\ Distinct(begun)' /\ Distinct(accepted)'
    BY <1>2, <1>7 DEF Take, Distinct, history
  <2>3. Head(queue) \in Events
    BY <1>1, <1>7 DEF Take, FlowTypes
  <2>4. /\ w \in Dispatchers /\ work[w] = NoEvent
        /\ work'[w] = Head(queue) /\ Head(queue) # NoEvent
        /\ \A d \in Dispatchers \ {w} : work'[d] = work[d] /\ stage'[d] = stage[d]
        /\ stage[w] = "idle" /\ stage'[w] = "called"
    BY <1>1, <1>7, <2>3 DEF Take, FlowTypes
  <2>5. InHand' = InHand \cup {Head(queue)} /\ Handling' = Handling
    BY <2>4 DEF InHand, Handling
  <2>6. \A c, d \in Dispatchers : work'[c] = work'[d] /\ work'[c] # NoEvent => c = d
    BY <1>2, <2>1, <2>4 DEF InHand
  <2>7. QED
    BY <1>2, <1>3, <2>1, <2>2, <2>5, <2>6
<1>8. ASSUME NEW w \in Workers, WorkerExit(w)
      PROVE  OnceExact'
  <2>1. UNCHANGED <<queue, work, accepted, begun, finished>>
    BY <1>8 DEF WorkerExit, history
  <2>2. \A c \in Dispatchers :
          stage'[c] \in {"handling", "unlocking"} <=> stage[c] \in {"handling", "unlocking"}
    BY <1>1, <1>8 DEF WorkerExit, FlowTypes
  <2>3. InHand' = InHand /\ Handling' = Handling
    BY <2>1, <2>2 DEF InHand, Handling
  <2>4. QED
    BY <1>2, <1>3, <2>1, <2>3 DEF Distinct
<1>9. ASSUME NEW d \in Dispatchers, DispatchStep(d)
      PROVE  OnceExact'
  <2>1. UNCHANGED <<queue, accepted>>
    BY <1>9, DispatchEffects
  <2>2. CASE Moves(d)
    <3>1. \A c \in Dispatchers :
            stage'[c] \in {"handling", "unlocking"} <=> stage[c] \in {"handling", "unlocking"}
      BY <1>1, <2>2 DEF Moves, FlowTypes
    <3>2. InHand' = InHand /\ Handling' = Handling /\ UNCHANGED <<begun, finished, work>>
      BY <2>2, <3>1 DEF Moves, InHand, Handling
    <3>3. QED
      BY <1>2, <1>3, <2>1, <3>2 DEF Distinct
  <2>3. CASE Begins(d)
    <3>1. /\ work[d] \in Events /\ work[d] \in InHand
          /\ stage'[d] = "handling"
          /\ \A c \in Dispatchers \ {d} : stage'[c] = stage[c]
          /\ UNCHANGED <<work, finished>>
      BY <1>1, <2>3 DEF Begins, FlowTypes, InHand
    <3>2. work[d] \notin RangeOf(begun)
      <4>1. work[d] \notin Handling
        BY <1>1, <1>2, <2>3, <3>1 DEF Begins, Handling, FlowTypes
      <4>2. QED
        BY <1>2, <3>1, <4>1
    <3>3. /\ Distinct(begun)'
          /\ RangeOf(begun') = RangeOf(begun) \cup {work[d]}
      <4>1. begun \in Seq(Events) /\ begun' = Append(begun, work[d])
        BY <1>1, <2>3 DEF Begins, FlowTypes
      <4>2. /\ Distinct(Append(begun, work[d]))
            /\ RangeOf(Append(begun, work[d])) = RangeOf(begun) \cup {work[d]}
        BY <1>2, <3>1, <3>2, <4>1, AppendFacts
      <4>3. QED
        BY <4>1, <4>2 DEF Distinct
    <3>4. InHand' = InHand /\ Handling' = Handling \cup {work[d]}
      BY <3>1, <2>3 DEF InHand, Handling, Begins
    <3>5. QED
      BY <1>2, <1>3, <2>1, <3>1, <3>3, <3>4 DEF Distinct
  <2>4. CASE Ends(d)
    <3>1. /\ work[d] # NoEvent /\ work[d] \in Handling
          /\ work'[d] = NoEvent /\ stage'[d] = "idle"
          /\ \A c \in Dispatchers \ {d} : work'[c] = work[c] /\ stage'[c] = stage[c]
          /\ finished' = finished \cup {work[d]} /\ begun' = begun
      BY <1>1, <2>4 DEF Ends, ReturnFromDispatch, FlowTypes, Handling
    <3>2. InHand' = InHand \ {work[d]}
      BY <1>2, <3>1 DEF InHand
    <3>3. Handling' = Handling \ {work[d]}
      <4>1. \A c \in Dispatchers \ {d} :
              stage[c] \in {"handling", "unlocking"} => work[c] # work[d]
        BY <1>2, <3>1
      <4>2. QED
        BY <3>1, <4>1 DEF Handling
    <3>4. QED
      BY <1>2, <1>3, <2>1, <3>1, <3>2, <3>3 DEF Distinct
  <2>5. QED
    BY <1>9, <2>2, <2>3, <2>4, DispatchEffects
<1>10. QED
  BY <1>4, <1>5, <1>6, <1>7, <1>8, <1>9, FlowCases

-----------------------------------------------------------------------------
\* The event the only worker has taken and not begun.
Next1(w) == IF stage[w] \in {"called", "locking"} THEN 1 ELSE 0

\* SingleFlow, for one worker.
Flows(w) ==
  /\ Len(accepted) = Len(begun) + Next1(w) + Len(queue)
  /\ \A i \in 1..Len(begun) : accepted[i] = begun[i]
  /\ Next1(w) = 1 => accepted[Len(begun) + 1] = work[w]
  /\ \A i \in 1..Len(queue) : accepted[Len(begun) + Next1(w) + i] = queue[i]

LEMMA FlowsIsSingle == SingleFlow <=> \A w \in Workers : crew = {w} => Flows(w)
BY DEF SingleFlow, Flows, Next1

\* What a single worker has taken comes before what the channel holds.
LEMMA InitSingle == Init => SingleFlow
BY DEF Init, SingleFlow, Dispatchers

LEMMA SingleKept ==
  ASSUME IInv, HandsExact, OnceExact, SingleFlow, [Next]_vars
  PROVE  SingleFlow'
<1>1. FlowTypes
  BY FlowTypesHold
<1>2. crew' = crew
  BY DEF Next, SourceStep, ReadEvent, Send, Refuse, SendOnClosed, CallDispatch,
         Take, WorkerExit, DispatchStep, EnterLock, BeginSerial, BeginFree,
         EndFree, EndSerial, LeaveLock, Shutdown, Cancel, StartReturns,
         CloseEvents, WorkersJoined, Terminated, config, vars
<1>3. SUFFICES ASSUME NEW w \in Workers, crew = {w}
               PROVE  Flows(w)'
  BY <1>2 DEF SingleFlow, Flows, Next1
<1>4. /\ Flows(w) /\ ~Sync /\ w \in Dispatchers
      /\ accepted \in Seq(Events) /\ begun \in Seq(Events) /\ queue \in Seq(Events)
      /\ Len(accepted) \in Nat /\ Len(begun) \in Nat /\ Len(queue) \in Nat
      /\ Next1(w) \in {0, 1}
  BY <1>1, <1>3, FlowsIsSingle DEF Sync, FlowTypes, Next1
<1>5. CASE Aside
  BY <1>4, <1>5 DEF Aside, Flows, Next1
<1>6. ASSUME NEW s \in Sources, Send(s)
      PROVE  Flows(w)'
  <2>1. /\ Current(s) \in Events
        /\ accepted' = Append(accepted, Current(s))
        /\ queue' = Append(queue, Current(s))
        /\ UNCHANGED <<begun, stage, work>>
    BY <1>6, CurrentIsEvent DEF Send
  <2>2. /\ Len(accepted') = Len(accepted) + 1
        /\ \A i \in 1..Len(accepted) : accepted'[i] = accepted[i]
        /\ accepted'[Len(accepted) + 1] = Current(s)
        /\ Len(queue') = Len(queue) + 1
        /\ \A i \in 1..Len(queue) : queue'[i] = queue[i]
        /\ queue'[Len(queue) + 1] = Current(s)
    BY <1>4, <2>1
  <2>3. Next1(w)' = Next1(w)
    BY <2>1 DEF Next1
  <2>4. /\ Len(accepted) = Len(begun) + Next1(w) + Len(queue)
        /\ \A i \in 1..Len(begun) : accepted[i] = begun[i]
        /\ Next1(w) = 1 => accepted[Len(begun) + 1] = work[w]
        /\ \A i \in 1..Len(queue) : accepted[Len(begun) + Next1(w) + i] = queue[i]
    BY <1>4 DEF Flows
  <2> Next1(w) \in Nat
    BY <1>4
  <2>5. Len(accepted') = Len(begun) + Next1(w) + Len(queue')
    BY <1>4, <2>2, <2>4
  <2>6. /\ \A i \in 1..Len(begun) : accepted'[i] = begun[i]
        /\ Next1(w) = 1 => accepted'[Len(begun) + 1] = work[w]
    BY <1>4, <2>2, <2>4
  <2>7. ASSUME NEW i \in 1..Len(queue')
        PROVE  accepted'[Len(begun) + Next1(w) + i] = queue'[i]
    <3>1. CASE i \in 1..Len(queue)
      <4>1. Len(begun) + Next1(w) + i \in 1..Len(accepted)
        BY <1>4, <2>4, <3>1
      <4>2. QED
        BY <2>2, <2>4, <3>1, <4>1
    <3>2. CASE i = Len(queue) + 1
      <4>1. Len(begun) + Next1(w) + i = Len(accepted) + 1
        BY <1>4, <2>4, <3>2
      <4>2. QED
        BY <2>2, <3>2, <4>1
    <3>3. QED
      BY <1>4, <2>2, <3>1, <3>2
  <2>8. QED
    BY <2>1, <2>3, <2>5, <2>6, <2>7 DEF Flows
<1>7. ASSUME NEW s \in Sources, CallDispatch(s)
      PROVE  Flows(w)'
  BY <1>4, <1>7 DEF CallDispatch
<1>8. ASSUME NEW v \in Workers, Take(v)
      PROVE  Flows(w)'
  <2>1. /\ v = w /\ queue # <<>> /\ stage[w] = "idle" /\ stage'[w] = "called"
        /\ queue' = Tail(queue) /\ work'[w] = Head(queue)
        /\ UNCHANGED <<accepted, begun>>
    BY <1>1, <1>3, <1>4, <1>8 DEF Take, history, FlowTypes
  <2>2. /\ Len(queue') = Len(queue) - 1 /\ Len(queue) > 0
        /\ queue[1] = Head(queue)
        /\ \A i \in 1..Len(queue') : queue'[i] = queue[i + 1]
    BY <1>4, <2>1
  <2>3. Next1(w) = 0 /\ Next1(w)' = 1
    BY <2>1 DEF Next1
  <2>4. /\ Len(accepted) = Len(begun) + Len(queue)
        /\ \A i \in 1..Len(begun) : accepted[i] = begun[i]
        /\ \A i \in 1..Len(queue) : accepted[Len(begun) + i] = queue[i]
    BY <1>4, <2>3 DEF Flows
  <2>5. Len(accepted) = Len(begun) + 1 + Len(queue')
    BY <1>4, <2>2, <2>4
  <2>6. accepted[Len(begun) + 1] = Head(queue)
    BY <1>4, <2>2, <2>4
  <2>7. ASSUME NEW i \in 1..Len(queue')
        PROVE  accepted[Len(begun) + 1 + i] = queue'[i]
    <3>1. /\ i + 1 \in 1..Len(queue)
          /\ Len(begun) + 1 + i = Len(begun) + (i + 1)
      BY <1>4, <2>2
    <3>2. QED
      BY <2>2, <2>4, <3>1
  <2>8. QED
    BY <2>1, <2>3, <2>4, <2>5, <2>6, <2>7 DEF Flows
<1>9. ASSUME NEW v \in Workers, WorkerExit(v)
      PROVE  Flows(w)'
  BY <1>1, <1>3, <1>4, <1>9 DEF WorkerExit, history, FlowTypes, Flows, Next1
<1>10. ASSUME NEW d \in Dispatchers, DispatchStep(d)
       PROVE  Flows(w)'
  <2>1. UNCHANGED <<queue, accepted>>
    BY <1>10, DispatchEffects
  <2>2. d = w
    <3>1. work[d] # NoEvent
      BY <1>1, <1>10, DispatchEffects DEF Moves, Begins, Ends, FlowTypes
    <3>2. QED
      BY <1>3, <1>4, <3>1 DEF HandsExact
  <2>3. CASE Moves(d)
    <3>1. Next1(w)' = Next1(w)
      BY <1>1, <1>4, <2>2, <2>3 DEF Moves, Next1, FlowTypes
    <3>2. QED
      BY <1>4, <2>1, <2>3, <3>1 DEF Flows, Moves
  <2>4. CASE Begins(d)
    <3>1. /\ Next1(w) = 1 /\ Next1(w)' = 0
          /\ work[w] \in Events /\ begun' = Append(begun, work[w])
      BY <1>1, <1>4, <2>2, <2>4 DEF Begins, Next1, FlowTypes
    <3>2. /\ Len(begun') = Len(begun) + 1
          /\ \A i \in 1..Len(begun) : begun'[i] = begun[i]
          /\ begun'[Len(begun) + 1] = work[w]
      BY <1>4, <3>1
    <3>3. QED
      BY <1>4, <2>1, <3>1, <3>2 DEF Flows
  <2>5. CASE Ends(d)
    <3>1. /\ Next1(w) = 0 /\ Next1(w)' = 0
          /\ begun' = begun
      BY <1>1, <1>4, <2>2, <2>5 DEF Ends, ReturnFromDispatch, Next1, FlowTypes
    <3>2. QED
      BY <1>4, <2>1, <3>1 DEF Flows
  <2>6. QED
    BY <1>10, <2>3, <2>4, <2>5, DispatchEffects
<1>11. QED
  BY <1>5, <1>6, <1>7, <1>8, <1>9, <1>10, FlowCases

-----------------------------------------------------------------------------
\* The invariant of the way of the events is inductive, together with that of the
\* dispatchers.
LEMMA InitFlow == Init => FlowInv
BY InitAccepted, InitHands, InitExit, InitOnce, InitSingle DEF FlowInv

LEMMA StepFlow == IInv /\ FlowInv /\ [Next]_vars => FlowInv'
BY AcceptedKept, HandsKept, ExitKept, OnceKept, SingleKept DEF FlowInv

THEOREM FlowInvariance == Spec => [](IInv /\ FlowInv)
<1>1. Init => IInv /\ FlowInv
  BY InitIInv, InitFlow
<1>2. (IInv /\ FlowInv) /\ [Next]_vars => (IInv /\ FlowInv)'
  BY StepIInv, StepFlow
<1>3. QED
  BY <1>1, <1>2, PTL DEF Spec

\* An event that emit took is in one place, for any crew, any adapter and any
\* capacity: it is neither lost nor dispatched twice (core/app.go:142-176).
THEOREM TakenOnce == Spec => []ExactlyOnce
<1>1. FlowInv => ExactlyOnce
  BY DEF FlowInv, OnceExact
<1>2. QED
  BY <1>1, FlowInvariance, PTL

\* A Run that returns leaves nothing it took undone (core/app.go:177-178).
THEOREM NothingLeft == Spec => []DrainedAtReturn
<1>1. IInv /\ FlowInv => DrainedAtReturn
  <2>1. SUFFICES ASSUME IInv, FlowInv, run = "done", ~(Sync /\ detached)
                 PROVE  queue = <<>> /\ RangeOf(accepted) = finished
    BY DEF DrainedAtReturn
  <2>2. FlowTypes /\ HandsExact /\ ExitExact /\ ExactlyOnce
    BY <2>1, FlowTypesHold DEF FlowInv, OnceExact
  <2>3. queue = <<>>
    BY <2>1, <2>2 DEF HandsExact, ExitExact, Sync, FlowTypes
  <2>4. \A d \in Dispatchers : work[d] = NoEvent
    BY <2>1, <2>2 DEF HandsExact, ExitExact, FlowTypes, IInv, TypeOK
  <2>5. RangeOf(queue) = {} /\ InHand = {}
    BY <2>3, <2>4 DEF RangeOf, InHand
  <2>6. QED
    BY <2>2, <2>3, <2>5 DEF ExactlyOnce
<1>2. QED
  BY <1>1, FlowInvariance, PTL

\* With one worker the routes of a conversation's events start in the order in which
\* emit took them (core/options.go:93).
THEOREM SingleOrder == Spec => []SingleInOrder
<1>1. IInv /\ FlowInv => SingleInOrder
  <2>1. SUFFICES ASSUME IInv, FlowInv, Cardinality(crew) = 1,
                        NEW i \in DOMAIN begun, NEW j \in DOMAIN begun, i < j
                 PROVE  PositionIn(accepted, begun[i]) < PositionIn(accepted, begun[j])
    BY DEF SingleInOrder, InOrder
  <2>2. FlowTypes /\ SingleFlow /\ Distinct(accepted)
    BY <2>1, FlowTypesHold DEF FlowInv, OnceExact, ExactlyOnce, Distinct
  <2>3. PICK w \in Workers : crew = {w}
    <3>1. IsFiniteSet(crew)
      BY <2>2, PumpAssumption, FS_Subset DEF FlowTypes
    <3>2. QED
      BY <2>1, <2>2, <3>1, FS_Singleton DEF FlowTypes
  <2>4. /\ Flows(w)
        /\ Len(accepted) \in Nat /\ Len(begun) \in Nat /\ Len(queue) \in Nat
        /\ Next1(w) \in {0, 1}
        /\ DOMAIN accepted = 1..Len(accepted) /\ DOMAIN begun = 1..Len(begun)
    BY <2>2, <2>3, FlowsIsSingle DEF FlowTypes, Next1
  <2>5. ASSUME NEW k \in DOMAIN begun
        PROVE  PositionIn(accepted, begun[k]) = k
    <3>1. k \in DOMAIN accepted /\ accepted[k] = begun[k]
      BY <2>4 DEF Flows
    <3>2. \A l \in DOMAIN accepted : accepted[l] = begun[k] => l = k
      BY <2>2, <3>1 DEF Distinct
    <3>3. QED
      BY <3>1, <3>2 DEF PositionIn
  <2>6. QED
    BY <2>1, <2>5
<1>2. QED
  BY <1>1, FlowInvariance, PTL

-----------------------------------------------------------------------------
(* The HTTP transport in front of the pump. *)

\* What the transport adds leaves the pump as it is.
LEMMA WebStepsPump == [WebNext]_allVars => [Next]_vars
<1>1. CASE \E s \in Sources : Receive(s) \/ SendAccepted(s) \/ SendRefused(s)
  BY <1>1 DEF Receive, SendAccepted, SendRefused, Next, SourceStep
<1>2. CASE \E s \in Sources : SendOnClosed(s) \/ CallDispatch(s)
  BY <1>2 DEF Next, SourceStep
<1>3. CASE \E s \in Sources : Answer(s) \/ ClientGone(s)
  BY <1>3 DEF Answer, ClientGone
<1>4. CASE \E d \in Dispatchers : Dispatch(d) \/ Call(d)
  BY <1>4 DEF Dispatch, Call, Next, DispatchStep
<1>5. CASE (\E w \in Workers : Take(w) \/ WorkerExit(w)) \/ Shutdown \/ Terminated
  BY <1>5 DEF Next
<1>6. QED
  BY <1>1, <1>2, <1>3, <1>4, <1>5 DEF WebNext, allVars

\* A run with HTTP is a run of the pump, so all that is shown of the pump holds
\* there as well (adapters/onebot11/http.go hands its events to emit and adds no
\* way to the handlers of its own).
THEOREM WebIsPump == WebSpec => Spec
<1>1. WebInit => Init
  BY DEF WebInit
<1>2. QED
  BY <1>1, WebStepsPump, PTL DEF WebSpec, Spec

\* What was taken, begun or finished stays so.
LEMMA HistoryGrows ==
  ASSUME IInv, FlowInv, [Next]_vars
  PROVE  /\ RangeOf(accepted) \subseteq RangeOf(accepted')
         /\ RangeOf(begun) \subseteq RangeOf(begun')
         /\ finished \subseteq finished'
<1>1. FlowTypes
  BY FlowTypesHold
<1>2. CASE Aside
  BY <1>2 DEF Aside
<1>3. ASSUME NEW s \in Sources, Send(s) \/ CallDispatch(s)
      PROVE  RangeOf(accepted) \subseteq RangeOf(accepted') /\ UNCHANGED <<begun, finished>>
  <2>1. /\ Current(s) \in Events /\ accepted \in Seq(Events)
        /\ accepted' = Append(accepted, Current(s)) /\ UNCHANGED <<begun, finished>>
    BY <1>1, <1>3, CurrentIsEvent DEF Send, CallDispatch, FlowTypes
  <2>2. QED
    BY <2>1, AppendFacts
<1>4. ASSUME NEW w \in Workers, Take(w) \/ WorkerExit(w)
      PROVE  UNCHANGED <<accepted, begun, finished>>
  BY <1>4 DEF Take, WorkerExit, history
<1>5. ASSUME NEW d \in Dispatchers, DispatchStep(d)
      PROVE  /\ accepted' = accepted /\ finished \subseteq finished'
             /\ RangeOf(begun) \subseteq RangeOf(begun')
  <2>1. accepted' = accepted
    BY <1>5, DispatchEffects
  <2>2. CASE Moves(d) \/ Ends(d)
    BY <2>1, <2>2 DEF Moves, Ends, ReturnFromDispatch
  <2>3. CASE Begins(d)
    <3>1. /\ work[d] \in Events /\ begun \in Seq(Events)
          /\ begun' = Append(begun, work[d]) /\ finished' = finished
      BY <1>1, <2>3 DEF Begins, FlowTypes
    <3>2. QED
      BY <2>1, <3>1, AppendFacts
  <2>4. QED
    BY <1>5, <2>2, <2>3, DispatchEffects
<1>6. QED
  BY <1>2, <1>3, <1>4, <1>5, FlowCases

\* RequestExact, for one request.
Exact(s) ==
  /\ read[s] <= 1
  /\ told[s] # "nothing" => read[s] = 1 /\ ~emitting[s]
  /\ told[s] = "error" => ~Sync /\ Current(s) \notin RangeOf(accepted)
  /\ told[s] = "nil" => /\ Current(s) \in RangeOf(accepted)
                        /\ Sync => Current(s) \in finished
  /\ s \in served => told[s] # "nothing"
  /\ Sync /\ read[s] = 1 /\ calls[Current(s)] = "cancelled" => s \in gone

\* Two requests that have read have not read the same event.
LEMMA RequestsDiffer ==
  ASSUME IInv, NEW s \in Sources, NEW t \in Sources, read[s] >= 1, read[t] >= 1,
         Current(s) = Current(t)
  PROVE  s = t
<1>1. read[s] \in DOMAIN Script[s] /\ read[t] \in DOMAIN Script[t]
  BY PumpAssumption DEF IInv, TypeOK, ReadInScript
<1>2. QED
  BY <1>1, FramesDiffer DEF Current

\* Nothing is known of the event of a request that has not been read.
LEMMA UnreadIsNew ==
  ASSUME IInv, FlowInv, NEW s \in Sources, read[s] = 0, Len(Script[s]) > 0
  PROVE  /\ Script[s][1] \in Events
         /\ Script[s][1] \notin RangeOf(accepted) \cup RangeOf(begun)
<1>1. FlowTypes
  BY FlowTypesHold
<1>2. /\ Script[s][1] \in Events /\ 1 \in DOMAIN Script[s]
  BY PumpAssumption
<1>3. Script[s][1] \notin RangeOf(accepted)
  <2>1. SUFFICES ASSUME NEW t \in Sources, NEW i \in 1..read[t],
                        Script[s][1] = Script[t][i]
                 PROVE  FALSE
    BY DEF FlowInv, AcceptedRead
  <2>2. i \in DOMAIN Script[t]
    BY PumpAssumption DEF IInv, TypeOK, ReadInScript
  <2>3. s = t /\ i = 1
    BY <1>2, <2>1, <2>2, FramesDiffer
  <2>4. QED
    BY <2>3
<1>4. QED
  BY <1>1, <1>2, <1>3, HandlingFacts DEF FlowInv

\* A handler's event has begun and is its source's when there are no workers.
LEMMA HandlerFacts ==
  ASSUME IInv, FlowInv, NEW d \in Dispatchers, stage[d] \in {"handling", "unlocking"}
  PROVE  /\ work[d] \in Events
         /\ work[d] \in RangeOf(begun) /\ work[d] \in RangeOf(accepted)
         /\ Sync => d \in Sources /\ emitting[d] /\ work[d] = Current(d)
<1>1. FlowTypes
  BY FlowTypesHold
<1>2. work[d] \in Handling /\ work[d] # NoEvent /\ work[d] \in Events
  BY <1>1 DEF Handling, FlowTypes
<1>3. QED
  BY <1>1, <1>2, HandlingFacts DEF FlowInv, HandsExact

-----------------------------------------------------------------------------
\* A request starts untold and without calls.
LEMMA InitWeb == WebInit => WebInv
<1>1. SUFFICES ASSUME WebInit PROVE WebInv
  OBVIOUS
<1>2. WebTypeOK
  BY <1>1, InitIInv DEF WebInit, WebTypeOK, IInv
<1>3. CallsOfBegun
  BY <1>1 DEF WebInit, CallsOfBegun
<1>4. RequestExact
  BY <1>1 DEF WebInit, Init, RequestExact
<1>5. QED
  BY <1>2, <1>3, <1>4 DEF WebInv

LEMMA WebTypesKept ==
  ASSUME IInv, IInv', FlowInv, WebInv, [WebNext]_allVars
  PROVE  WebTypeOK'
<1>1. TypeOK'
  BY DEF IInv
<1>2. /\ web \in BOOLEAN
      /\ told \in [Sources -> {"nothing", "nil", "error"}]
      /\ served \subseteq Sources /\ gone \subseteq Sources
      /\ calls \in [Events -> {"none", "made", "cancelled"}]
  BY DEF WebInv, WebTypeOK
<1>3. ASSUME NEW s \in Sources,
             Receive(s) \/ SendAccepted(s) \/ SendRefused(s) \/ Answer(s) \/ ClientGone(s)
      PROVE  WebTypeOK'
  BY <1>1, <1>2, <1>3
  DEF Receive, SendAccepted, SendRefused, Answer, ClientGone, EmitReturns, webVars,
      WebTypeOK
<1>4. ASSUME NEW d \in Dispatchers, Dispatch(d)
      PROVE  WebTypeOK'
  BY <1>1, <1>2, <1>4 DEF Dispatch, EmitReturns, webVars, WebTypeOK
<1>5. ASSUME NEW d \in Dispatchers, Call(d)
      PROVE  WebTypeOK'
  BY <1>1, <1>2, <1>5 DEF Call, WebTypeOK
<1>6. CASE UNCHANGED webVars
  BY <1>1, <1>2, <1>6 DEF webVars, WebTypeOK
<1>7. QED
  BY <1>3, <1>4, <1>5, <1>6 DEF WebNext, allVars

LEMMA CallsKept ==
  ASSUME IInv, FlowInv, WebInv, [WebNext]_allVars
  PROVE  CallsOfBegun'
<1>1. RangeOf(begun) \subseteq RangeOf(begun')
  BY HistoryGrows, WebStepsPump
<1>2. CallsOfBegun /\ calls \in [Events -> {"none", "made", "cancelled"}]
  BY DEF WebInv, WebTypeOK
<1>3. ASSUME NEW d \in Dispatchers, Call(d)
      PROVE  CallsOfBegun'
  <2>1. work[d] \in RangeOf(begun) /\ work[d] \in Events
    BY <1>3, HandlerFacts DEF Call
  <2>2. \A e \in Events \ {work[d]} : calls'[e] = calls[e]
    BY <1>2, <1>3, <2>1 DEF Call
  <2>3. QED
    BY <1>1, <1>2, <2>1, <2>2 DEF CallsOfBegun, RangeOf
<1>4. CASE calls' = calls
  BY <1>1, <1>2, <1>4 DEF CallsOfBegun, RangeOf
<1>5. QED
  BY <1>3, <1>4
  DEF WebNext, Receive, SendAccepted, SendRefused, Answer, ClientGone, Dispatch,
      EmitReturns, webVars, allVars

\* A step that neither reads, takes, answers nor calls for request t keeps what was
\* told of it true.
LEMMA ExactStays ==
  ASSUME IInv, NEW t \in Sources, Exact(t),
         Sync' = Sync, read'[t] = read[t], told'[t] = told[t],
         emitting'[t] => emitting[t],
         RangeOf(accepted) \subseteq RangeOf(accepted'),
         told[t] = "error" => Current(t) \notin RangeOf(accepted'),
         finished \subseteq finished',
         t \in served' => t \in served \/ told[t] # "nothing",
         read[t] = 1 /\ calls'[Current(t)] = "cancelled" /\ Sync
           => calls[Current(t)] = "cancelled" \/ t \in gone',
         gone \subseteq gone'
  PROVE  Exact(t)'
BY DEF Exact, Current, RangeOf

LEMMA RequestKept ==
  ASSUME IInv, FlowInv, WebInv, [WebNext]_allVars
  PROVE  RequestExact'
<1>1. FlowTypes
  BY FlowTypesHold
<1>2. /\ [Next]_vars
      /\ RangeOf(accepted) \subseteq RangeOf(accepted')
      /\ finished \subseteq finished'
  BY WebStepsPump, HistoryGrows
<1>3. web' = web /\ Sync' = Sync
  <2>1. web' = web
    BY DEF WebNext, Receive, SendAccepted, SendRefused, Answer, ClientGone, Dispatch,
           Call, EmitReturns, webVars, allVars
  <2>2. crew' = crew
    BY <1>2
    DEF Next, SourceStep, ReadEvent, Send, Refuse, SendOnClosed, CallDispatch,
        Take, WorkerExit, DispatchStep, EnterLock, BeginSerial, BeginFree,
        EndFree, EndSerial, LeaveLock, Shutdown, Cancel, StartReturns,
        CloseEvents, WorkersJoined, Terminated, config, vars
  <2>3. QED
    BY <2>1, <2>2 DEF Sync
<1>4. SUFFICES ASSUME web, NEW t \in Sources
               PROVE  Exact(t)'
  BY <1>3 DEF RequestExact, Exact
<1>5. /\ Exact(t)
      /\ told \in [Sources -> {"nothing", "nil", "error"}]
      /\ calls \in [Events -> {"none", "made", "cancelled"}]
      /\ CallsOfBegun /\ AcceptedRead /\ HandsExact /\ OnceExact
      /\ \A s \in Sources : emitting[s] => read[s] >= 1
  <2>1. Exact(t)
    BY <1>4 DEF WebInv, RequestExact, Exact
  <2>2. \A s \in Sources : emitting[s] => read[s] >= 1
    BY <1>1 DEF IInv, ReadInScript, FlowTypes
  <2>3. QED
    BY <2>1, <2>2 DEF WebInv, WebTypeOK, FlowInv
<1>6. told[t] = "error" /\ UNCHANGED accepted => Current(t) \notin RangeOf(accepted')
  BY <1>5 DEF Exact
<1>7. ASSUME NEW s \in Sources, Receive(s) PROVE Exact(t)'
  <2>1. /\ read[s] = 0 /\ read' = [read EXCEPT ![s] = 1]
        /\ emitting' = [emitting EXCEPT ![s] = TRUE]
        /\ UNCHANGED <<accepted, finished, begun, told, served, gone, calls>>
        /\ Len(Script[s]) > 0
    BY <1>1, <1>4, <1>7 DEF Receive, ReadEvent, history, webVars, FlowTypes
  <2>2. CASE t = s
    <3>1. /\ read'[t] = 1 /\ told'[t] = "nothing" /\ t \notin served'
      BY <1>1, <1>5, <2>1, <2>2 DEF Exact, FlowTypes
    <3>2. Current(t)' = Script[s][1]
      BY <1>1, <2>1, <2>2 DEF Current, FlowTypes
    <3>3. calls'[Script[s][1]] = "none"
      BY <1>5, <2>1, UnreadIsNew DEF CallsOfBegun
    <3>4. QED
      BY <3>1, <3>2, <3>3 DEF Exact
  <2>3. CASE t # s
    <3>1. read'[t] = read[t] /\ emitting'[t] = emitting[t]
      BY <1>1, <2>1, <2>3 DEF FlowTypes
    <3>2. QED
      BY <1>2, <1>3, <1>5, <1>6, <2>1, <3>1, ExactStays
  <2>4. QED
    BY <2>2, <2>3
<1>8. ASSUME NEW s \in Sources, SendAccepted(s) PROVE Exact(t)'
  <2>1. /\ ~Sync /\ emitting[s] /\ accepted' = Append(accepted, Current(s))
        /\ emitting' = [emitting EXCEPT ![s] = FALSE]
        /\ told' = [told EXCEPT ![s] = "nil"]
        /\ UNCHANGED <<read, finished, served, gone, calls>>
    BY <1>4, <1>8 DEF SendAccepted, Send, EmitReturns
  <2>2. RangeOf(accepted') = RangeOf(accepted) \cup {Current(s)}
    BY <1>1, <2>1, CurrentIsEvent, AppendFacts DEF FlowTypes
  <2>3. CASE t = s
    <3>1. /\ read[t] = 1 /\ told'[t] = "nil" /\ ~emitting'[t]
      BY <1>1, <1>5, <2>1, <2>3 DEF Exact, FlowTypes
    <3>2. Current(t)' = Current(s)
      BY <2>1, <2>3 DEF Current
    <3>3. QED
      BY <1>3, <2>1, <2>2, <3>1, <3>2 DEF Exact, RangeOf
  <2>4. CASE t # s
    <3>1. /\ told'[t] = told[t] /\ emitting'[t] = emitting[t]
      BY <1>1, <1>5, <2>1, <2>4 DEF FlowTypes
    <3>2. told[t] = "error" => Current(t) \notin RangeOf(accepted')
      BY <1>5, <2>1, <2>2, <2>4, RequestsDiffer DEF Exact
    <3>3. QED
      BY <1>2, <1>3, <1>5, <2>1, <3>1, <3>2, ExactStays
  <2>5. QED
    BY <2>3, <2>4
<1>9. ASSUME NEW s \in Sources, SendRefused(s) PROVE Exact(t)'
  <2>1. /\ ~Sync /\ emitting[s]
        /\ emitting' = [emitting EXCEPT ![s] = FALSE]
        /\ told' = [told EXCEPT ![s] = "error"]
        /\ UNCHANGED <<read, accepted, finished, served, calls>>
        /\ gone \subseteq gone'
    BY <1>4, <1>9 DEF SendRefused, Refuse, EmitReturns, history
  <2>2. CASE t = s
    <3>1. /\ read[t] = 1 /\ told'[t] = "error" /\ ~emitting'[t]
      BY <1>1, <1>5, <2>1, <2>2 DEF Exact, FlowTypes
    <3>2. Current(t)' = Current(s) /\ Current(s) \notin RangeOf(accepted')
      BY <1>5, <2>1, <2>2, NotYetTaken DEF Current
    <3>3. QED
      BY <1>3, <2>1, <3>1, <3>2 DEF Exact, RangeOf
  <2>3. CASE t # s
    <3>1. /\ told'[t] = told[t] /\ emitting'[t] = emitting[t]
      BY <1>1, <1>5, <2>1, <2>3 DEF FlowTypes
    <3>2. QED
      BY <1>2, <1>3, <1>5, <1>6, <2>1, <3>1, ExactStays
  <2>4. QED
    BY <2>2, <2>3
<1>10. ASSUME NEW s \in Sources, (SendOnClosed(s) \/ CallDispatch(s)) /\ UNCHANGED webVars
       PROVE  Exact(t)'
  <2>1. /\ emitting'[t] => emitting[t]
        /\ UNCHANGED <<read, finished, told, served, gone, calls>>
        /\ accepted' = accepted \/ Sync
    BY <1>1, <1>10 DEF SendOnClosed, CallDispatch, webVars, FlowTypes
  <2>2. told[t] = "error" => Current(t) \notin RangeOf(accepted')
    BY <1>5, <1>6, <2>1 DEF Exact
  <2>3. QED
    BY <1>2, <1>3, <1>5, <2>1, <2>2, ExactStays
<1>11. ASSUME NEW s \in Sources, Answer(s) PROVE Exact(t)'
  <2>1. /\ UNCHANGED <<read, emitting, accepted, finished, told, gone, calls>>
        /\ told[s] # "nothing" /\ served' = served \cup {s}
    BY <1>11 DEF Answer, vars, history
  <2>2. QED
    BY <1>2, <1>3, <1>5, <1>6, <2>1, ExactStays
<1>12. ASSUME NEW s \in Sources, ClientGone(s) PROVE Exact(t)'
  <2>1. /\ UNCHANGED <<read, emitting, accepted, finished, told, served, calls>>
        /\ gone \subseteq gone'
    BY <1>12 DEF ClientGone, vars, history
  <2>2. QED
    BY <1>2, <1>3, <1>5, <1>6, <2>1, ExactStays
<1>13. ASSUME NEW d \in Dispatchers, Call(d) PROVE Exact(t)'
  <2>1. /\ UNCHANGED <<read, emitting, accepted, finished, told, served, gone>>
        /\ stage[d] = "handling"
    BY <1>13 DEF Call, vars, history
  <2>2. PICK s \in Sources :
          /\ read[s] = 1 /\ Current(s) = work[d]
          /\ calls' = [calls EXCEPT ![work[d]] =
                         IF Ended(s) THEN "cancelled" ELSE "made"]
    BY <1>13 DEF Call
  <2>3. work[d] \in Events
    BY <2>1, HandlerFacts
  <2>4. ASSUME Sync, read[t] = 1, calls'[Current(t)] = "cancelled"
        PROVE  calls[Current(t)] = "cancelled" \/ t \in gone'
    <3>1. CASE Current(t) # work[d]
      <4>1. calls'[Current(t)] = calls[Current(t)]
        BY <1>5, <2>2, <2>3, <3>1
      <4>2. QED
        BY <2>4, <4>1
    <3>2. CASE Current(t) = work[d]
      <4>1. t = s
        BY <2>2, <2>4, <3>2, RequestsDiffer
      <4>2. d \in Sources /\ emitting[d] /\ work[d] = Current(d)
        BY <2>1, <2>4, HandlerFacts
      <4>3. t = d
        BY <1>5, <2>4, <3>2, <4>2, RequestsDiffer
      <4>4. t \notin served
        BY <1>5, <4>2, <4>3 DEF Exact
      <4>5. Ended(s)
        BY <1>5, <2>2, <2>3, <2>4, <3>2
      <4>6. QED
        BY <2>1, <4>1, <4>4, <4>5 DEF Ended
    <3>3. QED
      BY <3>1, <3>2
  <2>5. QED
    BY <1>2, <1>3, <1>5, <1>6, <2>1, <2>4, ExactStays
<1>14. ASSUME NEW d \in Dispatchers, Dispatch(d) PROVE Exact(t)'
  <2>1. UNCHANGED <<read, accepted, served, gone, calls>>
    BY <1>14
    DEF Dispatch, EnterLock, BeginSerial, BeginFree, EndFree, EndSerial, LeaveLock,
        EmitReturns, history, webVars
  <2>2. ASSUME told' = told, emitting'[t] => emitting[t] PROVE Exact(t)'
    BY <1>2, <1>3, <1>5, <1>6, <2>1, <2>2, ExactStays
  <2>3. CASE EnterLock(d) \/ BeginSerial(d) \/ BeginFree(d) \/ EndSerial(d)
    <3>1. emitting' = emitting /\ told' = told
      BY <1>14, <2>3
      DEF Dispatch, EnterLock, BeginSerial, BeginFree, EndSerial, EndFree, LeaveLock, webVars
    <3>2. QED
      BY <2>2, <3>1
  <2>4. CASE /\ EndFree(d) \/ LeaveLock(d)
             /\ IF Sync THEN EmitReturns(d, "nil") /\ UNCHANGED gone
                        ELSE UNCHANGED webVars
    <3>1. ReturnFromDispatch(d) /\ stage[d] \in {"handling", "unlocking"}
      BY <2>4 DEF EndFree, LeaveLock
    <3>2. CASE ~Sync
      BY <2>2, <2>4, <3>1, <3>2 DEF ReturnFromDispatch, webVars
    <3>3. CASE Sync
      <4>1. /\ d \in Sources /\ emitting[d] /\ work[d] = Current(d)
            /\ work[d] \in RangeOf(accepted)
        BY <3>1, <3>3, HandlerFacts
      <4>2. /\ told' = [told EXCEPT ![d] = "nil"]
            /\ emitting' = [emitting EXCEPT ![d] = FALSE]
            /\ finished' = finished \cup {work[d]}
        BY <1>4, <2>4, <3>1, <3>3 DEF EmitReturns, ReturnFromDispatch
      <4>3. CASE t = d
        <5>1. /\ read[t] = 1 /\ told'[t] = "nil" /\ ~emitting'[t]
          BY <1>1, <1>5, <4>1, <4>2, <4>3 DEF Exact, FlowTypes
        <5>2. Current(t)' = work[d]
          BY <2>1, <4>1, <4>3 DEF Current
        <5>3. Current(t) = work[d]
          BY <4>1, <4>3
        <5>4. Sync /\ read[t] = 1 /\ calls[Current(t)] = "cancelled" => t \in gone
          BY <1>5 DEF Exact
        <5>5. /\ work[d] \in RangeOf(accepted)' /\ work[d] \in finished'
              /\ read'[t] = 1
              /\ calls'[work[d]] = "cancelled" => t \in gone'
          BY <2>1, <3>3, <4>1, <4>2, <5>1, <5>3, <5>4 DEF RangeOf
        <5>6. QED
          BY <5>1, <5>2, <5>5 DEF Exact
      <4>4. CASE t # d
        <5>1. told'[t] = told[t] /\ emitting'[t] = emitting[t]
          BY <1>1, <1>5, <4>2, <4>4 DEF FlowTypes
        <5>2. QED
          BY <1>2, <1>3, <1>5, <1>6, <2>1, <5>1, ExactStays
      <4>5. QED
        BY <4>3, <4>4
    <3>4. QED
      BY <3>2, <3>3
  <2>5. QED
    BY <1>14, <2>3, <2>4 DEF Dispatch
<1>15. ASSUME \/ (\E w \in Workers : Take(w) \/ WorkerExit(w)) \/ Shutdown \/ Terminated
              \/ UNCHANGED vars,
              UNCHANGED webVars
       PROVE  Exact(t)'
  <2>1. UNCHANGED <<read, emitting, accepted, finished, told, served, gone, calls>>
    BY <1>15
    DEF Take, WorkerExit, Shutdown, Cancel, StartReturns, CloseEvents, WorkersJoined,
        Terminated, vars, history, webVars
  <2>2. QED
    BY <1>2, <1>3, <1>5, <1>6, <2>1, ExactStays
<1>16. QED
  BY <1>7, <1>8, <1>9, <1>10, <1>11, <1>12, <1>13, <1>14, <1>15 DEF WebNext, allVars

\* With HTTP too the invariants hold together.
THEOREM WebInvariance == WebSpec => [](IInv /\ FlowInv /\ WebInv)
<1>1. WebInit => IInv /\ FlowInv /\ WebInv
  BY InitIInv, InitFlow, InitWeb DEF WebInit
<1>2. (IInv /\ FlowInv /\ WebInv) /\ [WebNext]_allVars => (IInv /\ FlowInv /\ WebInv)'
  <2>1. SUFFICES ASSUME IInv, FlowInv, WebInv, [WebNext]_allVars
                 PROVE  (IInv /\ FlowInv /\ WebInv)'
    OBVIOUS
  <2>2. IInv' /\ FlowInv'
    BY <2>1, StepIInv, StepFlow, WebStepsPump
  <2>3. WebTypeOK' /\ CallsOfBegun' /\ RequestExact'
    BY <2>1, <2>2, WebTypesKept, CallsKept, RequestKept
  <2>4. QED
    BY <2>2, <2>3 DEF WebInv
<1>3. QED
  BY <1>1, <1>2, PTL DEF WebSpec

\* What a client was told of its event stays true: one answered with an error is
\* never dispatched, one answered with "ok" was taken (adapters/onebot11/http.go:95).
THEOREM AnswersKept == WebSpec => []AnswersHold
<1>1. IInv /\ FlowInv /\ WebInv => AnswersHold
  <2>1. SUFFICES ASSUME IInv, FlowInv, WebInv, web, NEW s \in served
                 PROVE  /\ told[s] = "error" =>
                             Current(s) \notin RangeOf(accepted) \cup RangeOf(begun)
                        /\ told[s] = "nil" => Current(s) \in RangeOf(accepted)
                        /\ Sync => /\ Current(s) \in finished
                                   /\ calls[Current(s)] = "cancelled" => s \in gone
    BY DEF AnswersHold
  <2>2. /\ s \in Sources /\ Exact(s)
        /\ told[s] \in {"nothing", "nil", "error"}
    BY <2>1 DEF WebInv, WebTypeOK, RequestExact, Exact
  <2>3. RangeOf(begun) \subseteq RangeOf(accepted)
    BY <2>1, FlowTypesHold, HandlingFacts DEF FlowInv
  <2>4. QED
    BY <2>2, <2>3 DEF Exact
<1>2. QED
  BY <1>1, WebInvariance, PTL
===============================================================================
