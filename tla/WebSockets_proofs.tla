------------------------- MODULE WebSockets_proofs --------------------------
(***************************************************************************)
(* Proofs about WebSockets for any connections and any calls, forward and  *)
(* reverse.  A call is in pending or has its one result (EchoOwned), so    *)
(* who empties pending answers everybody; a connection that is no longer   *)
(* the current one has emptied it since a call could last pick it, or      *)
(* somebody is about to (LossTold); and what reports do to the runtime's   *)
(* state is taken from AdapterStates_proofs.                               *)
(***************************************************************************)
EXTENDS WebSockets, TLAPS

ST == INSTANCE AdapterStates_proofs
  WITH Reporters <- Conns \cup {Server}, Waiters <- {}, waiters <- {},
       waiter <- <<>>, detached <- (mode = "reverse")

-----------------------------------------------------------------------------
\* A step that does not report leaves what AdapterStates is about alone; any other
\* step is one of it.
LEMMA StepStates == [Next]_allVars => [State!Next]_(State!stateVars)
<1> SUFFICES ASSUME [Next]_allVars PROVE [State!Next]_(State!stateVars)
  OBVIOUS
<1>1. ASSUME UNCHANGED <<mode, reportVars>>
      PROVE  UNCHANGED State!stateVars
  BY <1>1 DEF State!stateVars, reportVars
<1>2. ASSUME NEW r \in Conns \cup {Server}, NEW k \in {"ready", "disconnected"},
             State!SetLocal(r, k)
      PROVE  State!Next
  BY <1>2 DEF State!Next, State!ReporterStep
<1>3. CASE ForwardNext
  <2>1. CASE DialFails
    BY <1>1, <1>2, <2>1 DEF DialFails
  <2>2. CASE Redial \/ EndStart \/ \E n \in Conns : Dial(n) \/ ForwardConnStep(n)
    BY <1>1, <2>2 DEF Redial, EndStart, Dial, ForwardConnStep, ClearConn,
                      CloseLost, FailLost
  <2>3. QED
    BY <1>3, <2>1, <2>2 DEF ForwardNext
<1>4. CASE ReverseNext
  <2>1. CASE Open
    BY <1>2, <2>1 DEF Open
  <2>2. CASE \/ CloseCurrent \/ ServerDown
             \/ \E n \in Conns : Accept(n) \/ ReverseConnStep(n)
    BY <1>1, <2>2 DEF CloseCurrent, ServerDown, Accept, ReverseConnStep,
                      FailReplaced, CloseReplaced, Leave, FailLeft, CloseLeft
  <2>3. QED
    BY <1>4, <2>1, <2>2 DEF ReverseNext
<1>5. ASSUME NEW n \in Conns, ConnStep(n)
      PROVE  [State!Next]_(State!stateVars)
  <2>1. CASE Announce(n) \/ Retire(n)
    BY <1>2, <2>1 DEF Announce, Retire
  <2>2. CASE ReadFails(n) \/ LoseConn(n) \/ \E c \in Calls : ReadAnswer(n, c)
    BY <1>1, <2>2 DEF ReadFails, LoseConn, ReadAnswer
  <2>3. QED
    BY <1>5, <2>1, <2>2 DEF ConnStep
<1>6. ASSUME NEW r \in Conns \cup {Server}, Deliver(r)
      PROVE  State!Next
  BY <1>6 DEF Deliver, State!Next, State!ReporterStep
<1>7. CASE (\E c \in Calls : CallStep(c)) \/ Cancel
  BY <1>1, <1>7 DEF CallStep, Cancel
<1>8. CASE StopStates
  BY <1>8 DEF StopStates, State!Next, State!AppStep
<1>9. CASE UNCHANGED allVars
  BY <1>1, <1>9 DEF allVars
<1>10. QED
  BY <1>3, <1>4, <1>5, <1>6, <1>7, <1>8, <1>9 DEF Next

\* The invariant of AdapterStates holds of the adapter's reports.
LEMMA StatesKept == State!IInv /\ [State!Next]_(State!stateVars) => State!IInv'
BY ST!StepIInv
DEF State!IInv, State!TypeOK, State!NoLostWakeup, State!ReportIsLocal,
    State!AppIsLatest, State!StoppedIsFinal, State!Kinds, State!Nothing,
    State!stateVars, State!Next, State!AppStep, State!ReporterStep,
    State!WaiterStep, State!BindStarting, State!BindSink, State!Replay,
    State!StopUpdate, State!StopSink, State!SetLocal, State!CallSink,
    State!EnterWait, State!CheckState, State!ExpireWait, State!Update,
    ST!IInv, ST!TypeOK, ST!NoLostWakeup, ST!ReportIsLocal,
    ST!AppIsLatest, ST!StoppedIsFinal, ST!Kinds, ST!Nothing,
    ST!stateVars, ST!Next, ST!AppStep, ST!ReporterStep,
    ST!WaiterStep, ST!BindStarting, ST!BindSink, ST!Replay,
    ST!StopUpdate, ST!StopSink, ST!SetLocal, ST!CallSink,
    ST!EnterWait, ST!CheckState, ST!ExpireWait, ST!Update

LEMMA StatesInit == InitConnections => State!IInv
<1>1. ASSUME InitConnections PROVE State!TypeOK
  BY <1>1 DEF InitConnections, State!TypeOK, State!Kinds, State!Nothing, Nothing
<1>2. QED
  BY <1>1 DEF InitConnections, State!IInv, State!NoLostWakeup, State!ReportIsLocal,
     State!AppIsLatest, State!StoppedIsFinal, State!Nothing, Nothing

-----------------------------------------------------------------------------
\* What a step may do to the calls: a step of a caller, an answer, the failure of
\* all that is pending, or nothing.
CallsKept == UNCHANGED <<pending, results, callerVars>>

LEMMA StepOfCalls ==
  ASSUME [Next]_allVars
  PROVE  \/ \E c \in Calls : CallerStep(c)
         \/ \E n \in Conns, c \in Calls : Answer(n, c)
         \/ \E n : FailPending(n) /\ n \in {m : m \in Conns} \cup {old[m] : m \in Conns}
         \/ CallsKept
<1>1. CASE ForwardNext
  <2>1. CASE \E n \in Conns : FailLost(n)
    BY <2>1 DEF FailLost
  <2>2. CASE DialFails \/ Redial \/ EndStart
             \/ \E n \in Conns : Dial(n) \/ ClearConn(n) \/ CloseLost(n)
    BY <2>2 DEF DialFails, Redial, EndStart, Dial, ClearConn, CloseLost,
                CallsKept, peerVars
  <2>3. QED
    BY <1>1, <2>1, <2>2 DEF ForwardNext, ForwardConnStep
<1>2. CASE ReverseNext
  <2>1. CASE \E n \in Conns : FailReplaced(n) \/ FailLeft(n)
    BY <2>1 DEF FailReplaced, FailLeft
  <2>2. CASE Open \/ CloseCurrent \/ ServerDown
             \/ \E n \in Conns : Accept(n) \/ CloseReplaced(n) \/ Leave(n)
                                   \/ CloseLeft(n)
    BY <2>2 DEF Open, CloseCurrent, ServerDown, Accept, CloseReplaced, Leave,
                CloseLeft, CallsKept, peerVars
  <2>3. QED
    BY <1>2, <2>1, <2>2 DEF ReverseNext, ReverseConnStep
<1>3. ASSUME NEW n \in Conns, ConnStep(n)
      PROVE  (\E c \in Calls : Answer(n, c)) \/ CallsKept
  BY <1>3 DEF ConnStep, Announce, Retire, ReadFails, LoseConn, ReadAnswer,
              PeerCloses, CallsKept, peerVars
<1>4. CASE (\E r \in Conns \cup {Server} : Deliver(r)) \/ Cancel \/ StopStates
           \/ UNCHANGED allVars
  BY <1>4 DEF Deliver, Cancel, StopStates, CallsKept, peerVars, allVars
<1>5. CASE \E c \in Calls : CallStep(c)
  BY <1>5 DEF CallStep
<1>6. QED
  BY <1>1, <1>2, <1>3, <1>4, <1>5 DEF Next

\* Results come to who is in pending, and take it out.
LEMMA EchoKept ==
  ASSUME PeerTypeOK, EchoOwned, [Next]_allVars
  PROVE  EchoOwned'
<1> USE DEF PeerTypeOK
<1>1. ASSUME NEW c \in Calls, CallerStep(c)
      PROVE  EchoOwned'
  <2>1. CASE Register(c)
    BY <2>1 DEF Register, Goto, EchoOwned
  <2>2. CASE PickConn(c) \/ Abort(c)
    BY <2>2 DEF PickConn, Abort, Goto, EchoOwned
  <2>3. CASE LockWrite(c) \/ WriteOk(c) \/ WriteFails(c) \/ GiveUp(c)
    BY <2>3 DEF LockWrite, WriteOk, WriteFails, GiveUp, Goto, EchoOwned
  <2>4. CASE Receive(c)
    BY <2>4 DEF Receive, Goto, EchoOwned
  <2>5. CASE Forget(c)
    BY <2>5 DEF Forget, Goto, EchoOwned
  <2>6. QED
    BY <1>1, <2>1, <2>2, <2>3, <2>4, <2>5 DEF CallerStep
<1>2. ASSUME NEW x, Len(Append(<<>>, x)) <= 1, Append(<<>>, x) # <<>>,
             pending' \subseteq pending, UNCHANGED callerVars,
             \A c \in Calls : results'[c] =
               IF c \in pending \ pending' THEN Append(results[c], x) ELSE results[c]
      PROVE  EchoOwned'
  <2>1. SUFFICES ASSUME NEW c \in Calls
                 PROVE  /\ Len(results'[c]) <= 1
                        /\ c \in pending' => results'[c] = <<>>
                        /\ results[c] # <<>> => results'[c] # <<>>
                        /\ c \in pending \ pending' => results'[c] # <<>>
                        /\ c \notin pending => results'[c] = results[c]
    BY <1>2, <2>1 DEF EchoOwned, callerVars
  <2>2. CASE c \in pending \ pending'
    <3>1. results[c] = <<>> /\ results'[c] = Append(<<>>, x)
      BY <1>2, <2>2 DEF EchoOwned
    <3>2. QED
      BY <1>2, <2>2, <3>1
  <2>3. CASE c \notin pending \ pending'
    BY <1>2, <2>3 DEF EchoOwned
  <2>4. QED
    BY <2>2, <2>3
<1>3. ASSUME NEW x
      PROVE  Len(Append(<<>>, x)) <= 1 /\ Append(<<>>, x) # <<>>
  <2>1. <<>> \in Seq({x}) /\ x \in {x}
    OBVIOUS
  <2>2. QED
    BY <2>1
<1>4. ASSUME NEW n \in Conns, NEW c \in Calls, Answer(n, c)
      PROVE  EchoOwned'
  BY <1>2, <1>3, <1>4 DEF Answer
<1>5. ASSUME NEW n, FailPending(n)
      PROVE  EchoOwned'
  BY <1>2, <1>3, <1>5 DEF FailPending
<1>6. CASE CallsKept
  BY <1>6 DEF CallsKept, callerVars, EchoOwned
<1>7. QED
  BY <1>1, <1>4, <1>5, <1>6, StepOfCalls

-----------------------------------------------------------------------------
\* Every variable keeps its type.
LEMMA TypeKept ==
  ASSUME IInv, State!IInv', [Next]_allVars
  PROVE  TypeOK'
<1> USE DEF TypeOK, PeerTypeOK, IInv
<1>1. State!TypeOK'
  BY DEF State!IInv
<1>2. CASE ForwardNext
  <2>1. CASE DialFails \/ Redial \/ EndStart
    BY <1>1, <2>1 DEF DialFails, Redial, EndStart, peerVars, callerVars, readerVars
  <2>2. ASSUME NEW n \in Conns, Dial(n) \/ ClearConn(n) \/ CloseLost(n)
        PROVE  TypeOK'
    BY <1>1, <2>2 DEF Dial, ClearConn, CloseLost, CloseLink, Then, callerVars
  <2>3. ASSUME NEW n \in Conns, FailLost(n)
        PROVE  TypeOK'
    BY <1>1, <2>3 DEF FailLost, FailPending, Then, callerVars
  <2>4. QED
    BY <1>2, <2>1, <2>2, <2>3 DEF ForwardNext, ForwardConnStep
<1>3. CASE ReverseNext
  <2>1. CASE Open \/ CloseCurrent \/ ServerDown
    BY <1>1, <2>1 DEF Open, CloseCurrent, ServerDown, CloseLink, peerVars, callerVars,
                      readerVars
  <2>2. ASSUME NEW n \in Conns, Accept(n) \/ CloseReplaced(n) \/ Leave(n) \/ CloseLeft(n)
        PROVE  TypeOK'
    <3>1. CASE Accept(n)
      BY <1>1, <3>1 DEF Accept, callerVars
    <3>2. CASE Leave(n)
      BY <1>1, <3>2 DEF Leave, Then, callerVars
    <3>3. CASE CloseReplaced(n) \/ CloseLeft(n)
      BY <1>1, <3>3 DEF CloseReplaced, CloseLeft, CloseLink, Then, callerVars
    <3>4. QED
      BY <2>2, <3>1, <3>2, <3>3
  <2>3. ASSUME NEW n \in Conns, FailReplaced(n)
        PROVE  TypeOK'
    <3>1. old[n] \in Conns
      BY <2>3 DEF FailReplaced, At, ReaderExact
    <3>2. QED
      BY <1>1, <2>3, <3>1 DEF FailReplaced, FailPending, Then, callerVars
  <2>4. ASSUME NEW n \in Conns, FailLeft(n)
        PROVE  TypeOK'
    BY <1>1, <2>4 DEF FailLeft, FailPending, Then, callerVars
  <2>5. QED
    BY <1>3, <2>1, <2>2, <2>3, <2>4 DEF ReverseNext, ReverseConnStep
<1>4. ASSUME NEW n \in Conns, ConnStep(n)
      PROVE  TypeOK'
  <2>1. CASE \E c \in Calls : ReadAnswer(n, c)
    BY <1>1, <2>1 DEF ReadAnswer, Answer, callerVars, readerVars
  <2>2. CASE Announce(n) \/ Retire(n) \/ ReadFails(n) \/ LoseConn(n)
    BY <1>1, <2>2 DEF Announce, Retire, ReadFails, LoseConn, PeerCloses, CloseLink,
                      Then, peerVars, callerVars, readerVars
  <2>3. QED
    BY <1>4, <2>1, <2>2 DEF ConnStep
<1>5. CASE (\E r \in Conns \cup {Server} : Deliver(r)) \/ Cancel \/ StopStates
           \/ UNCHANGED allVars
  BY <1>1, <1>5 DEF Deliver, Cancel, StopStates, peerVars, callerVars, readerVars, allVars
<1>6. ASSUME NEW c \in Calls, CallStep(c)
      PROVE  TypeOK'
  <2>1. UNCHANGED <<conn, mode, start, ctxDone, readerVars>>
    BY <1>6 DEF CallStep, CallerStep, Register, PickConn, Abort, LockWrite, WriteOk,
                WriteFails, Receive, GiveUp, Forget
  <2>2. CASE Register(c) \/ PickConn(c) \/ Abort(c) \/ LockWrite(c) \/ GiveUp(c)
             \/ Forget(c)
    BY <1>1, <2>1, <2>2 DEF Register, PickConn, Abort, LockWrite, GiveUp, Forget,
                            Goto, readerVars
  <2>3. CASE WriteOk(c) \/ WriteFails(c)
    <3>1. on[c] \in Conns
      BY <2>3 DEF WriteOk, WriteFails, EchoOwned
    <3>2. link' \in [Conns -> {"unused", "open", "closed"}]
      BY <2>3 DEF WriteOk, WriteFails
    <3>3. asked' \in SUBSET (Conns \X Calls) /\ writer' \in Calls \cup {NoCall}
      BY <2>3, <3>1 DEF WriteOk, WriteFails
    <3>4. UNCHANGED <<pending, on, results, returned>>
      BY <2>3 DEF WriteOk, WriteFails
    <3>5. call' \in [Calls -> {"idle", "registered", "picked", "writing", "awaiting",
                              "forgetting", "returned"}]
      BY <2>3 DEF WriteOk, WriteFails, Goto
    <3>6. QED
      BY <1>1, <2>1, <3>2, <3>3, <3>4, <3>5 DEF readerVars
  <2>4. CASE Receive(c)
    <3>1. Head(results[c]) \in Conns \cup {"response"}
      BY <2>4 DEF Receive
    <3>2. QED
      BY <1>1, <2>1, <2>4, <3>1 DEF Receive, Goto, readerVars
  <2>5. QED
    BY <1>6, <2>2, <2>3, <2>4 DEF CallStep, CallerStep
<1>7. QED
  BY <1>2, <1>3, <1>4, <1>5, <1>6 DEF Next

-----------------------------------------------------------------------------
\* What a goroutine's place says of its connection stays true.
LEMMA ReaderKept ==
  ASSUME IInv, [Next]_allVars
  PROVE  ReaderExact'
<1> USE DEF IInv, TypeOK, PeerTypeOK, State!TypeOK
<1>1. CASE ForwardNext
  <2>1. CASE DialFails
    BY <2>1, ServerAssumption DEF DialFails, ReaderExact, State!SetLocal, peerVars,
       callerVars, readerVars, reportVars
  <2>2. CASE Redial \/ EndStart
    BY <2>2 DEF Redial, EndStart, ReaderExact, peerVars, callerVars, readerVars, reportVars
  <2>3. ASSUME NEW n \in Conns, Dial(n)
        PROVE  ReaderExact'
    BY <2>3 DEF Dial, Fresh, Then, ReaderExact, callerVars, reportVars
  <2>4. ASSUME NEW n \in Conns, ClearConn(n)
        PROVE  ReaderExact'
    BY <2>4, PeerNulls DEF ClearConn, At, Free, Then, ReaderExact, callerVars, reportVars, Nothing
  <2>5. ASSUME NEW n \in Conns, CloseLost(n)
        PROVE  ReaderExact'
    BY <2>5 DEF CloseLost, At, Free, Then, CloseLink, ReaderExact, callerVars, reportVars, Nothing
  <2>6. ASSUME NEW n \in Conns, FailLost(n)
        PROVE  ReaderExact'
    BY <2>6 DEF FailLost, FailPending, At, Free, Then, ReaderExact, callerVars, reportVars,
       Nothing
  <2>7. QED
    BY <1>1, <2>1, <2>2, <2>3, <2>4, <2>5, <2>6 DEF ForwardNext, ForwardConnStep
<1>2. CASE ReverseNext
  <2>1. CASE Open
    BY <2>1, ServerAssumption DEF Open, ReaderExact, State!SetLocal, peerVars,
       callerVars, readerVars, reportVars
  <2>2. CASE CloseCurrent
    BY <2>2, PeerNulls DEF CloseCurrent, CloseLink, ReaderExact, callerVars, readerVars,
       reportVars
  <2>3. CASE ServerDown
    BY <2>3 DEF ServerDown, ReaderExact, peerVars, callerVars, readerVars, reportVars
  <2>4. ASSUME NEW n \in Conns, Accept(n)
        PROVE  ReaderExact'
    BY <2>4, PeerNulls DEF Accept, Fresh, ReaderExact, callerVars, reportVars
  <2>5. ASSUME NEW n \in Conns, FailReplaced(n)
        PROVE  ReaderExact'
    BY <2>5 DEF FailReplaced, FailPending, At, Free, Then, ReaderExact, callerVars,
       reportVars, Nothing
  <2>6. ASSUME NEW n \in Conns, CloseReplaced(n)
        PROVE  ReaderExact'
    <3>1. old[n] \in Conns /\ reader[old[n]] # "none"
      BY <2>6 DEF CloseReplaced, At, ReaderExact
    <3>2. QED
      BY <2>6, <3>1 DEF CloseReplaced, At, Free, Then, CloseLink, ReaderExact, callerVars,
         reportVars, Nothing
  <2>7. ASSUME NEW n \in Conns, Leave(n)
        PROVE  ReaderExact'
    BY <2>7, PeerNulls DEF Leave, At, Free, Then, ReaderExact, callerVars, reportVars, Nothing
  <2>8. ASSUME NEW n \in Conns, FailLeft(n)
        PROVE  ReaderExact'
    BY <2>8 DEF FailLeft, FailPending, At, Free, Then, ReaderExact, callerVars, reportVars,
       Nothing
  <2>9. ASSUME NEW n \in Conns, CloseLeft(n)
        PROVE  ReaderExact'
    BY <2>9 DEF CloseLeft, At, Free, Then, CloseLink, ReaderExact, callerVars, reportVars,
       Nothing
  <2>10. QED
    BY <1>2, <2>1, <2>2, <2>3, <2>4, <2>5, <2>6, <2>7, <2>8, <2>9
    DEF ReverseNext, ReverseConnStep
<1>3. ASSUME NEW n \in Conns, Announce(n)
      PROVE  ReaderExact'
  BY <1>3, ServerAssumption DEF Announce, At, Free, Then, ReaderExact, State!SetLocal, State!Nothing,
     peerVars, callerVars, Nothing
<1>4. ASSUME NEW n \in Conns, Retire(n)
      PROVE  ReaderExact'
  BY <1>4, ServerAssumption DEF Retire, At, Free, Then, ReaderExact, State!SetLocal, State!Nothing,
     peerVars, callerVars, Nothing
<1>5. ASSUME NEW n \in Conns, ReadFails(n)
      PROVE  ReaderExact'
  BY <1>5 DEF ReadFails, At, Free, Then, CloseLink, ReaderExact, callerVars, reportVars,
     Nothing
<1>6. ASSUME NEW n \in Conns, LoseConn(n)
      PROVE  ReaderExact'
  BY <1>6 DEF LoseConn, PeerCloses, ReaderExact, callerVars, readerVars, reportVars
<1>7. ASSUME NEW n \in Conns, NEW c \in Calls, ReadAnswer(n, c)
      PROVE  ReaderExact'
  BY <1>7 DEF ReadAnswer, Answer, ReaderExact, callerVars, readerVars, reportVars
<1>8. ASSUME NEW r \in Conns \cup {Server}, Deliver(r)
      PROVE  ReaderExact'
  BY <1>8 DEF Deliver, State!CallSink, State!Nothing, ReaderExact, peerVars, callerVars,
     readerVars
<1>9. ASSUME NEW c \in Calls, CallStep(c)
      PROVE  ReaderExact'
  <2>1. UNCHANGED <<conn, readerVars, reportVars>>
    BY <1>9 DEF CallStep, CallerStep, Register, PickConn, Abort, LockWrite, WriteOk,
                WriteFails, Receive, GiveUp, Forget
  <2>2. CASE PickConn(c)
    BY <2>1, <2>2 DEF PickConn, ReaderExact, readerVars, reportVars
  <2>3. CASE WriteFails(c)
    <3>1. on[c] \in Conns /\ link[on[c]] # "unused"
      BY <2>3 DEF WriteFails, EchoOwned, ReaderExact
    <3>2. UNCHANGED on /\ \A n \in Conns : link'[n] = link[n] \/ (n = on[c] /\ link'[n] = "closed")
      BY <2>3 DEF WriteFails
    <3>3. QED
      BY <2>1, <3>1, <3>2 DEF ReaderExact, readerVars, reportVars
  <2>4. CASE UNCHANGED <<on, link>>
    BY <2>1, <2>4 DEF ReaderExact, readerVars, reportVars
  <2>5. QED
    BY <1>9, <2>2, <2>3, <2>4
    DEF CallStep, CallerStep, Register, Abort, LockWrite, WriteOk, Receive, GiveUp, Forget
<1>10. CASE Cancel \/ UNCHANGED allVars
  BY <1>10 DEF Cancel, ReaderExact, peerVars, callerVars, readerVars, reportVars, allVars
<1>11. CASE StopStates
  BY <1>11 DEF StopStates, State!StopUpdate, State!StopSink, ReaderExact, peerVars,
     callerVars, readerVars
<1>12. QED
  BY <1>1, <1>2, <1>3, <1>4, <1>5, <1>6, <1>7, <1>8, <1>9, <1>10, <1>11 DEF Next, ConnStep

-----------------------------------------------------------------------------
\* failPending gives every call that waits its result, unless it has one ...
LEMMA FailedNow ==
  ASSUME PeerTypeOK, EchoOwned, NEW m, FailPending(m), NEW n \in Conns
  PROVE  Failed(n)'
<1>1. SUFFICES ASSUME NEW c \in Calls, call[c] \in {"picked", "writing", "awaiting"}
               PROVE  results'[c] # <<>>
  BY DEF Failed, FailPending, callerVars
<1>2. CASE c \in pending
  <2>1. results'[c] = Append(<<>>, m)
    BY <1>2 DEF FailPending, EchoOwned
  <2>2. <<>> \in Seq({m}) /\ m \in {m}
    OBVIOUS
  <2>3. QED
    BY <2>1, <2>2
<1>3. CASE c \notin pending
  BY <1>1, <1>3 DEF FailPending, EchoOwned
<1>4. QED
  BY <1>2, <1>3

\* ... after which no call takes up a connection that is not the current one.
LEMMA FailedKept ==
  ASSUME PeerTypeOK, EchoOwned, [Next]_allVars, NEW n \in Conns, conn # n, Failed(n)
  PROVE  Failed(n)'
<1> USE DEF PeerTypeOK
<1>1. ASSUME NEW c \in Calls, CallerStep(c)
      PROVE  Failed(n)'
  <2>1. CASE PickConn(c)
    BY <2>1 DEF PickConn, Goto, Failed
  <2>2. CASE UNCHANGED <<on, results>>
    <3>1. \A d \in Calls : call'[d] \in {"picked", "writing", "awaiting"}
            => call[d] \in {"picked", "writing", "awaiting"} \/ PickConn(d)
      BY <1>1 DEF CallerStep, Register, Abort, LockWrite, WriteOk, WriteFails, Receive,
                  GiveUp, Forget, PickConn, Goto
    <3>2. ~ \E d \in Calls : PickConn(d) /\ on[d] # conn
      BY <2>2 DEF PickConn
    <3>3. QED
      BY <2>2, <3>1, <3>2 DEF Failed, PickConn
  <2>3. QED
    BY <1>1, <2>1, <2>2 DEF CallerStep, Register, Abort, LockWrite, WriteOk, WriteFails,
                            Receive, GiveUp, Forget
<1>2. ASSUME NEW m \in Conns, NEW c \in Calls, Answer(m, c)
      PROVE  Failed(n)'
  <2>1. ASSUME NEW d \in Calls, results[d] # <<>>
        PROVE  results'[d] # <<>>
    BY <1>2, <2>1 DEF Answer, EchoOwned
  <2>2. QED
    BY <1>2, <2>1 DEF Answer, Failed, callerVars
<1>3. CASE CallsKept
  BY <1>3 DEF CallsKept, callerVars, Failed
<1>4. QED
  BY <1>1, <1>2, <1>3, StepOfCalls, FailedNow

\* A connection that was replaced or lost has told its calls, or somebody will.
LEMMA LossKept ==
  ASSUME IInv, [Next]_allVars
  PROVE  LossTold'
<1> USE DEF IInv, TypeOK, PeerTypeOK
<1>3. CASE UNCHANGED <<conn, mode, readerVars>>
  BY <1>3, FailedKept DEF LossTold, readerVars
<1>4. ASSUME NEW m \in Conns, Then(m, "done") \/ Then(m, "read") \/ Then(m, "retire")
                              \/ Then(m, "leave") \/ Then(m, "announce")
                              \/ Then(m, "close") \/ Then(m, "closeOld"),
             reader[m] \notin {"none", "replace", "fail"},
             mode = "forward" => reader[m] # "close", UNCHANGED <<conn, mode>>
      PROVE  LossTold'
  BY <1>4, FailedKept DEF Then, LossTold
<1>5. CASE ForwardNext
  <2>1. ASSUME NEW m \in Conns, Dial(m)
        PROVE  LossTold'
    <3>1. \A k \in Conns : conn # k
      BY <1>5, <2>1 DEF Dial, ForwardNext, ForwardAlone, Busy, ReaderExact
    <3>2. /\ reader[m] = "none" /\ conn' = m /\ UNCHANGED <<old, mode>>
          /\ reader' = [reader EXCEPT ![m] = "announce"]
      BY <2>1 DEF Dial, Fresh, Then
    <3>3. \A n \in Conns : Failed(n) => Failed(n)'
      BY <3>1, FailedKept
    <3>4. QED
      BY <3>1, <3>2, <3>3 DEF LossTold
  <2>2. ASSUME NEW m \in Conns, ClearConn(m)
        PROVE  LossTold'
    BY <1>5, <2>2, FailedKept DEF ClearConn, At, Then, LossTold, ForwardNext, ForwardAlone
  <2>3. ASSUME NEW m \in Conns, CloseLost(m)
        PROVE  LossTold'
    BY <1>5, <2>3, FailedKept DEF CloseLost, At, Then, LossTold, ForwardNext
  <2>4. ASSUME NEW m \in Conns, FailLost(m)
        PROVE  LossTold'
    BY <2>4, FailedNow DEF FailLost, LossTold
  <2>5. QED
    BY <1>3, <1>5, <2>1, <2>2, <2>3, <2>4
    DEF ForwardNext, ForwardConnStep, DialFails, Redial, EndStart, peerVars
<1>6. CASE ReverseNext
  <2>1. ASSUME NEW m \in Conns, Accept(m)
        PROVE  LossTold'
    <3>1. /\ reader[m] = "none" /\ conn' = m /\ UNCHANGED mode
          /\ old' = [old EXCEPT ![m] = conn]
          /\ reader' = [reader EXCEPT ![m] = IF conn = NoConn THEN "announce"
                                                              ELSE "replace"]
      BY <2>1 DEF Accept, Fresh
    <3>2. ASSUME NEW n \in Conns, conn # n, Failed(n)
          PROVE  Failed(n)'
      BY <3>2, FailedKept
    <3>3. ASSUME NEW n \in Conns, conn = n
          PROVE  old'[m] = n /\ reader'[m] = "replace"
      BY <3>1, <3>3, PeerNulls
    <3>4. \A k \in Conns : k # m => old'[k] = old[k] /\ reader'[k] = reader[k]
      BY <3>1
    <3>5. QED
      BY <3>1, <3>2, <3>3, <3>4 DEF LossTold
  <2>2. ASSUME NEW m \in Conns, FailReplaced(m) \/ FailLeft(m)
        PROVE  LossTold'
    BY <2>2, FailedNow DEF FailReplaced, FailLeft, LossTold
  <2>3. ASSUME NEW m \in Conns, CloseReplaced(m)
        PROVE  LossTold'
    BY <1>6, <2>3, <1>4 DEF CloseReplaced, At, ReverseNext
  <2>4. ASSUME NEW m \in Conns, Leave(m)
        PROVE  LossTold'
    <3>1. /\ reader[m] = "leave" /\ UNCHANGED <<old, mode>>
          /\ \A k \in Conns : k # m => reader'[k] = reader[k] /\ (conn = k => conn' = k)
          /\ conn = m => reader'[m] = "fail"
      BY <2>4 DEF Leave, At, Then
    <3>2. ASSUME NEW n \in Conns, conn # n, Failed(n)
          PROVE  Failed(n)'
      BY <3>2, FailedKept
    <3>3. ASSUME NEW n \in Conns, NEW k \in Conns, old[k] = n, reader[k] = "replace"
          PROVE  old'[k] = n /\ reader'[k] = "replace"
      BY <3>1, <3>3
    <3>4. SUFFICES ASSUME NEW n \in Conns
                   PROVE  \/ reader'[n] = "none" \/ conn' = n
                          \/ reader'[n] = "fail"
                          \/ mode' = "forward" /\ reader'[n] = "close"
                          \/ \E k \in Conns : old'[k] = n /\ reader'[k] = "replace"
                          \/ Failed(n)'
      BY DEF LossTold
    <3>5. CASE conn = n
      BY <3>1, <3>5
    <3>6. CASE conn # n /\ n = m
      BY <3>1, <3>2, <3>3, <3>6 DEF LossTold
    <3>7. CASE conn # n /\ n # m
      BY <3>1, <3>2, <3>3, <3>7 DEF LossTold
    <3>8. QED
      BY <3>5, <3>6, <3>7
  <2>5. ASSUME NEW m \in Conns, CloseLeft(m)
        PROVE  LossTold'
    BY <1>6, <2>5, <1>4 DEF CloseLeft, At, ReverseNext
  <2>6. QED
    BY <1>3, <1>6, <2>1, <2>2, <2>3, <2>4, <2>5
    DEF ReverseNext, ReverseConnStep, Open, CloseCurrent, ServerDown, peerVars
<1>7. ASSUME NEW m \in Conns, ConnStep(m)
      PROVE  LossTold'
  <2>1. CASE Announce(m) \/ Retire(m) \/ ReadFails(m)
    BY <1>4, <2>1 DEF Announce, Retire, ReadFails, At, peerVars
  <2>2. CASE LoseConn(m) \/ \E c \in Calls : ReadAnswer(m, c)
    BY <1>3, <2>2 DEF LoseConn, PeerCloses, ReadAnswer, Answer
  <2>3. QED
    BY <1>7, <2>1, <2>2 DEF ConnStep
<1>8. ASSUME NEW c \in Calls, CallStep(c)
      PROVE  UNCHANGED <<conn, mode, readerVars>>
  BY <1>8 DEF CallStep, CallerStep, Register, PickConn, Abort, LockWrite, WriteOk,
              WriteFails, Receive, GiveUp, Forget
<1>9. CASE (\E r \in Conns \cup {Server} : Deliver(r)) \/ Cancel \/ StopStates
           \/ UNCHANGED allVars
  BY <1>3, <1>9 DEF Deliver, Cancel, StopStates, peerVars, allVars
<1>10. QED
  BY <1>3, <1>5, <1>6, <1>7, <1>8, <1>9 DEF Next, LossTold

\* An open connection is the current one or about to be closed.
LEMMA OpenKept ==
  ASSUME IInv, [Next]_allVars
  PROVE  OpenIsCurrent'
<1> USE DEF IInv, TypeOK, PeerTypeOK
<1>1. ASSUME UNCHANGED <<conn, old>>,
             \A n \in Conns : link'[n] = "open" => link[n] = "open",
             \A m \in Conns : reader[m] \in {"replace", "closeOld"}
               => reader'[m] \in {"replace", "closeOld"}
      PROVE  OpenIsCurrent'
  BY <1>1 DEF OpenIsCurrent
<1>2. ASSUME NEW m \in Conns, NEW place, Then(m, place),
             reader[m] \notin {"replace", "closeOld"} \/ place = "closeOld",
             UNCHANGED conn, link' = link \/ \E n : CloseLink(n)
      PROVE  OpenIsCurrent'
  BY <1>1, <1>2 DEF Then, CloseLink
<1>3. CASE ForwardNext
  <2>1. ASSUME NEW m \in Conns, Dial(m)
        PROVE  OpenIsCurrent'
    <3>1. \A n \in Conns : link[n] # "open"
      BY <1>3, <2>1
      DEF Dial, ForwardNext, ForwardAlone, Busy, ReaderExact, OpenIsCurrent
    <3>2. QED
      BY <2>1, <3>1 DEF Dial, OpenIsCurrent
  <2>2. ASSUME NEW m \in Conns, ClearConn(m)
        PROVE  OpenIsCurrent'
    BY <1>3, <2>2
    DEF ClearConn, At, Then, OpenIsCurrent, ReaderExact, ForwardNext, ForwardAlone
  <2>3. ASSUME NEW m \in Conns, CloseLost(m) \/ FailLost(m)
        PROVE  OpenIsCurrent'
    BY <1>2, <2>3 DEF CloseLost, FailLost, FailPending, At
  <2>4. QED
    BY <1>1, <1>3, <2>1, <2>2, <2>3
    DEF ForwardNext, ForwardConnStep, DialFails, Redial, EndStart, peerVars, readerVars
<1>4. CASE ReverseNext
  <2>1. ASSUME NEW m \in Conns, Accept(m)
        PROVE  OpenIsCurrent'
    <3>1. /\ reader[m] = "none" /\ conn' = m
          /\ old' = [old EXCEPT ![m] = conn]
          /\ reader' = [reader EXCEPT ![m] = IF conn = NoConn THEN "announce"
                                                              ELSE "replace"]
          /\ link' = [link EXCEPT ![m] = "open"]
      BY <2>1 DEF Accept, Fresh
    <3>2. ASSUME NEW n \in Conns, conn = n
          PROVE  old'[m] = n /\ reader'[m] = "replace"
      BY <3>1, <3>2, PeerNulls
    <3>3. \A k \in Conns : k # m => old'[k] = old[k] /\ reader'[k] = reader[k]
                                     /\ link'[k] = link[k]
      BY <3>1
    <3>4. QED
      BY <3>1, <3>2, <3>3 DEF OpenIsCurrent
  <2>2. ASSUME NEW m \in Conns, FailReplaced(m) \/ FailLeft(m) \/ CloseLeft(m)
        PROVE  OpenIsCurrent'
    BY <1>2, <2>2 DEF FailReplaced, FailLeft, CloseLeft, FailPending, At
  <2>3. ASSUME NEW m \in Conns, CloseReplaced(m)
        PROVE  OpenIsCurrent'
    <3>1. old[m] \in Conns
      BY <2>3 DEF CloseReplaced, At, ReaderExact
    <3>2. QED
      BY <2>3, <3>1 DEF CloseReplaced, At, Then, CloseLink, OpenIsCurrent
  <2>4. ASSUME NEW m \in Conns, Leave(m)
        PROVE  OpenIsCurrent'
    <3>1. /\ reader[m] = "leave" /\ link[m] = "closed" /\ UNCHANGED <<old, link>>
          /\ \A k \in Conns : k # m => reader'[k] = reader[k] /\ (conn = k => conn' = k)
      BY <2>4 DEF Leave, At, Then, ReaderExact
    <3>2. QED
      BY <3>1 DEF OpenIsCurrent
  <2>5. CASE Open \/ CloseCurrent \/ ServerDown
    BY <1>1, <2>5, PeerNulls DEF Open, CloseCurrent, ServerDown, CloseLink, peerVars, readerVars
  <2>6. QED
    BY <1>4, <2>1, <2>2, <2>3, <2>4, <2>5 DEF ReverseNext, ReverseConnStep
<1>5. ASSUME NEW m \in Conns, ConnStep(m)
      PROVE  OpenIsCurrent'
  <2>1. CASE Announce(m) \/ Retire(m) \/ ReadFails(m)
    BY <1>2, <2>1 DEF Announce, Retire, ReadFails, At, peerVars
  <2>2. CASE LoseConn(m) \/ \E c \in Calls : ReadAnswer(m, c)
    BY <1>1, <2>2 DEF LoseConn, PeerCloses, ReadAnswer, Answer, readerVars
  <2>3. QED
    BY <1>5, <2>1, <2>2 DEF ConnStep
<1>6. ASSUME NEW c \in Calls, CallStep(c)
      PROVE  OpenIsCurrent'
  <2>1. UNCHANGED <<conn, readerVars>>
    BY <1>6 DEF CallStep, CallerStep, Register, PickConn, Abort, LockWrite, WriteOk,
                WriteFails, Receive, GiveUp, Forget
  <2>2. \A n \in Conns : link'[n] = "open" => link[n] = "open"
    BY <1>6 DEF CallStep, CallerStep, Register, PickConn, Abort, LockWrite, WriteOk,
                WriteFails, Receive, GiveUp, Forget
  <2>3. QED
    BY <1>1, <2>1, <2>2 DEF readerVars
<1>7. CASE (\E r \in Conns \cup {Server} : Deliver(r)) \/ Cancel \/ StopStates
           \/ UNCHANGED allVars
  BY <1>1, <1>7 DEF Deliver, Cancel, StopStates, peerVars, readerVars, allVars
<1>8. QED
  BY <1>3, <1>4, <1>5, <1>6, <1>7 DEF Next

\* A forward client stays with one connection and one goroutine.
LEMMA ForwardKept ==
  ASSUME IInv, [Next]_allVars
  PROVE  ForwardAlone'
<1> USE DEF IInv, TypeOK, PeerTypeOK, State!TypeOK
<1>1. CASE UNCHANGED <<mode, start, conn, readerVars, local>>
  BY <1>1 DEF ForwardAlone, Busy, readerVars
<1>2. CASE mode = "reverse"
  <2>1. mode' = "reverse"
    BY <1>2 DEF Next, ForwardNext, ReverseNext, ReverseConnStep, Open, CloseCurrent,
       ServerDown, Accept, FailReplaced, CloseReplaced, Leave, FailLeft, CloseLeft,
       ConnStep, Announce, Retire, ReadFails, LoseConn, ReadAnswer, Deliver, CallStep,
       Cancel, StopStates, allVars
  <2>2. QED
    BY <2>1 DEF ForwardAlone
<1>3. CASE mode = "forward"
  <2>1. CASE DialFails
    BY <1>3, <2>1 DEF DialFails, State!SetLocal, ForwardAlone, Busy, peerVars, readerVars,
       reportVars
  <2>2. CASE Redial \/ EndStart
    BY <1>3, <2>2 DEF Redial, EndStart, ForwardAlone, Busy, peerVars, readerVars, reportVars
  <2>3. ASSUME NEW n \in Conns, Dial(n)
        PROVE  ForwardAlone'
    BY <1>3, <2>3 DEF Dial, Then, Fresh, ForwardAlone, Busy, reportVars
  <2>4. ASSUME NEW n \in Conns, ClearConn(n)
        PROVE  ForwardAlone'
    BY <1>3, <2>4 DEF ClearConn, At, Then, ForwardAlone, Busy, reportVars
  <2>5. ASSUME NEW n \in Conns, CloseLost(n)
        PROVE  ForwardAlone'
    BY <1>3, <2>5 DEF CloseLost, At, Then, ForwardAlone, Busy, reportVars
  <2>6. ASSUME NEW n \in Conns, FailLost(n)
        PROVE  ForwardAlone'
    BY <1>3, <2>6 DEF FailLost, FailPending, At, Then, ForwardAlone, Busy, reportVars
  <2>7. ASSUME NEW n \in Conns, Announce(n)
        PROVE  ForwardAlone'
    BY <1>3, <2>7 DEF Announce, At, Then, ForwardAlone, Busy, State!SetLocal, peerVars
  <2>8. ASSUME NEW n \in Conns, Retire(n)
        PROVE  ForwardAlone'
    BY <1>3, <2>8 DEF Retire, At, Then, ForwardAlone, Busy, State!SetLocal, peerVars
  <2>9. ASSUME NEW n \in Conns, ReadFails(n)
        PROVE  ForwardAlone'
    BY <1>3, <2>9 DEF ReadFails, At, Then, ForwardAlone, Busy, reportVars
  <2>10. ASSUME NEW n \in Conns, LoseConn(n) \/ \E c \in Calls : ReadAnswer(n, c)
         PROVE  ForwardAlone'
    BY <1>1, <2>10 DEF LoseConn, PeerCloses, ReadAnswer, Answer, reportVars
  <2>11. ASSUME NEW c \in Calls, CallStep(c)
         PROVE  ForwardAlone'
    BY <1>1, <2>11 DEF CallStep, CallerStep, Register, PickConn, Abort, LockWrite, WriteOk,
       WriteFails, Receive, GiveUp, Forget, reportVars
  <2>12. CASE (\E r \in Conns \cup {Server} : Deliver(r)) \/ Cancel \/ StopStates
              \/ UNCHANGED allVars
    BY <1>1, <2>12 DEF Deliver, Cancel, StopStates, State!CallSink, State!StopUpdate,
       State!StopSink, peerVars, reportVars, allVars
  <2>13. QED
    BY <1>3, <2>1, <2>2, <2>3, <2>4, <2>5, <2>6, <2>7, <2>8, <2>9, <2>10, <2>11, <2>12
    DEF Next, ForwardNext, ForwardConnStep, ReverseNext, ConnStep
<1>4. QED
  BY <1>2, <1>3

\* A forward client's goroutine waits for its reports, and stops with Start.
LEMMA ReporterKept ==
  ASSUME IInv, [Next]_allVars
  PROVE  OneReporter'
<1> USE DEF IInv, TypeOK, PeerTypeOK, State!TypeOK
<1>1. CASE UNCHANGED <<mode, start, life, report, reader>>
  BY <1>1 DEF OneReporter, Free
<1>2. CASE mode = "reverse"
  <2>1. mode' = "reverse"
    BY <1>2 DEF Next, ForwardNext, ReverseNext, ReverseConnStep, Open, CloseCurrent,
       ServerDown, Accept, FailReplaced, CloseReplaced, Leave, FailLeft, CloseLeft,
       ConnStep, Announce, Retire, ReadFails, LoseConn, ReadAnswer, Deliver, CallStep,
       Cancel, StopStates, allVars
  <2>2. QED
    BY <2>1 DEF OneReporter
<1>3. CASE mode = "forward"
  <2>1. CASE DialFails
    BY <1>3, <2>1, ServerAssumption
    DEF DialFails, State!SetLocal, OneReporter, Free, readerVars, reportVars
  <2>2. CASE Redial \/ EndStart
    BY <1>3, <2>2 DEF Redial, EndStart, OneReporter, Free, readerVars, reportVars
  <2>3. ASSUME NEW n \in Conns, Dial(n)
        PROVE  OneReporter'
    BY <1>3, <2>3 DEF Dial, Then, Fresh, OneReporter, Free, reportVars
  <2>4. ASSUME NEW n \in Conns, ForwardConnStep(n)
        PROVE  OneReporter'
    BY <1>3, <2>4
    DEF ForwardConnStep, ClearConn, CloseLost, FailLost, At, Then, OneReporter, Free,
        ForwardAlone, Busy, reportVars
  <2>5. ASSUME NEW n \in Conns, Announce(n) \/ Retire(n)
        PROVE  OneReporter'
    BY <1>3, <2>5, ServerAssumption
    DEF Announce, Retire, At, Then, State!SetLocal, OneReporter, Free
  <2>6. ASSUME NEW n \in Conns, ReadFails(n)
        PROVE  OneReporter'
    BY <1>3, <2>6 DEF ReadFails, At, Then, OneReporter, Free, reportVars
  <2>7. ASSUME NEW n \in Conns, LoseConn(n) \/ \E c \in Calls : ReadAnswer(n, c)
        PROVE  OneReporter'
    BY <1>1, <2>7 DEF LoseConn, ReadAnswer, readerVars, reportVars
  <2>8. ASSUME NEW r \in Conns \cup {Server}, Deliver(r)
        PROVE  OneReporter'
    BY <1>3, <2>8
    DEF Deliver, State!CallSink, State!Nothing, Nothing, OneReporter, Free, readerVars
  <2>9. CASE StopStates
    BY <1>3, <2>9 DEF StopStates, State!StopUpdate, State!StopSink, OneReporter, Free,
       readerVars
  <2>10. CASE (\E c \in Calls : CallStep(c)) \/ Cancel \/ UNCHANGED allVars
    BY <1>1, <2>10 DEF CallStep, Cancel, readerVars, reportVars, allVars
  <2>11. QED
    BY <1>3, <2>1, <2>2, <2>3, <2>4, <2>5, <2>6, <2>7, <2>8, <2>9, <2>10
    DEF Next, ForwardNext, ReverseNext, ConnStep
<1>4. QED
  BY <1>2, <1>3

\* A connection that was reported ready is, or has still to report its end.
LEMMA ReadyKept ==
  ASSUME IInv, [Next]_allVars
  PROVE  ReadyHasReader'
<1> USE DEF IInv, TypeOK, PeerTypeOK, State!TypeOK
<1>1. CASE UNCHANGED <<life, sink, app, report, reader>>
  BY <1>1 DEF ReadyHasReader, Free
<1>2. ASSUME NEW n \in Conns, NEW place, Then(n, place), At(n, reader[n]),
             reader[n] = "read" => place = "retire", reader[n] # "retire",
             UNCHANGED reportVars
      PROVE  ReadyHasReader'
  BY <1>2 DEF ReadyHasReader, Then, At, Free, reportVars
<1>3. CASE ForwardNext
  <2>1. CASE DialFails
    <3>1. /\ UNCHANGED <<life, sink, app, reader>>
          /\ \A n \in Conns : report'[n] = report[n]
      BY <2>1, ServerAssumption DEF DialFails, State!SetLocal, readerVars, reportVars
    <3>2. QED
      BY <3>1 DEF ReadyHasReader, Free
  <2>2. ASSUME NEW n \in Conns, Dial(n)
        PROVE  ReadyHasReader'
    BY <2>2 DEF Dial, Fresh, Then, ReadyHasReader, Free, reportVars
  <2>3. ASSUME NEW n \in Conns, ForwardConnStep(n)
        PROVE  ReadyHasReader'
    BY <1>2, <2>3 DEF ForwardConnStep, ClearConn, CloseLost, FailLost, At
  <2>4. QED
    BY <1>1, <1>3, <2>1, <2>2, <2>3 DEF ForwardNext, Redial, EndStart, readerVars, reportVars
<1>4. CASE ReverseNext
  <2>1. CASE Open
    <3>1. /\ UNCHANGED <<life, sink, app, reader>>
          /\ \A n \in Conns : report'[n] = report[n]
      BY <2>1, ServerAssumption DEF Open, State!SetLocal, readerVars, reportVars
    <3>2. QED
      BY <3>1 DEF ReadyHasReader, Free
  <2>2. ASSUME NEW n \in Conns, Accept(n)
        PROVE  ReadyHasReader'
    BY <2>2 DEF Accept, Fresh, ReadyHasReader, Free, reportVars
  <2>3. ASSUME NEW n \in Conns, Leave(n)
        PROVE  ReadyHasReader'
    <3>1. CASE conn = n
      BY <1>2, <2>3, <3>1 DEF Leave, At
    <3>2. CASE conn # n
      BY <1>2, <2>3, <3>2 DEF Leave, At
    <3>3. QED
      BY <3>1, <3>2
  <2>4. ASSUME NEW n \in Conns,
               FailReplaced(n) \/ CloseReplaced(n) \/ FailLeft(n) \/ CloseLeft(n)
        PROVE  ReadyHasReader'
    BY <1>2, <2>4 DEF FailReplaced, CloseReplaced, FailLeft, CloseLeft, At
  <2>5. QED
    BY <1>1, <1>4, <2>1, <2>2, <2>3, <2>4
    DEF ReverseNext, ReverseConnStep, CloseCurrent, ServerDown, readerVars, reportVars
<1>5. ASSUME NEW n \in Conns, Announce(n)
      PROVE  ReadyHasReader'
  BY <1>5 DEF Announce, At, Free, Then, State!SetLocal, ReadyHasReader
<1>6. ASSUME NEW n \in Conns, Retire(n)
      PROVE  ReadyHasReader'
  BY <1>6 DEF Retire, At, Free, Then, State!SetLocal, State!Nothing, Nothing, ReadyHasReader
<1>7. ASSUME NEW n \in Conns, ReadFails(n)
      PROVE  ReadyHasReader'
  BY <1>2, <1>7 DEF ReadFails, At
<1>8. ASSUME NEW n \in Conns, LoseConn(n) \/ \E c \in Calls : ReadAnswer(n, c)
      PROVE  ReadyHasReader'
  BY <1>1, <1>8 DEF LoseConn, ReadAnswer, readerVars, reportVars
<1>9. ASSUME NEW r \in Conns \cup {Server}, Deliver(r)
      PROVE  ReadyHasReader'
  <2>1. /\ UNCHANGED <<life, sink, reader>>
        /\ app' = report[r] /\ report[r] # Nothing
        /\ \A n \in Conns : n # r => report'[n] = report[n]
    BY <1>9 DEF Deliver, State!CallSink, State!Update, State!Nothing, Nothing, readerVars
  <2>2. CASE report[r] = "ready" /\ r \in Conns
    BY <2>1, <2>2 DEF ReaderExact, ReadyHasReader
  <2>3. CASE report[r] # "ready"
    BY <2>1, <2>3 DEF ReadyHasReader
  <2>4. QED
    BY <2>1, <2>2, <2>3 DEF ReaderExact
<1>10. ASSUME NEW c \in Calls, CallStep(c)
       PROVE  ReadyHasReader'
  BY <1>1, <1>10 DEF CallStep, readerVars, reportVars
<1>11. CASE Cancel \/ UNCHANGED allVars
  BY <1>1, <1>11 DEF Cancel, readerVars, reportVars, allVars
<1>12. CASE StopStates
  BY <1>12 DEF StopStates, State!StopUpdate, State!StopSink, ReadyHasReader
<1>13. QED
  BY <1>3, <1>4, <1>5, <1>6, <1>7, <1>8, <1>9, <1>10, <1>11, <1>12 DEF Next, ConnStep

-----------------------------------------------------------------------------
\* Every initial state satisfies the inductive invariant.
LEMMA InitIInv == Init => IInv
<1> SUFFICES ASSUME Init PROVE IInv
  OBVIOUS
<1>1. InitConnections /\ InitPeer
  BY DEF Init, ForwardInit, ReverseInit, InitConnections
<1>2. State!IInv
  BY <1>1, StatesInit
<1>3. PeerTypeOK /\ EchoOwned
  BY <1>1 DEF InitPeer, PeerTypeOK, EchoOwned, Nothing
<1>4. TypeOK
  BY <1>2, <1>3 DEF Init, ForwardInit, ReverseInit, InitConnections, TypeOK, State!IInv
<1>5. ReaderExact /\ LossTold /\ OpenIsCurrent
  BY <1>1, PeerNulls DEF InitConnections, InitPeer, ReaderExact, LossTold, OpenIsCurrent,
     Nothing
<1>6. ForwardAlone /\ OneReporter /\ ReadyHasReader
  BY <1>1 DEF Init, ForwardInit, ReverseInit, InitConnections, ForwardAlone, Busy,
     OneReporter, Free, ReadyHasReader
<1>7. QED
  BY <1>2, <1>3, <1>4, <1>5, <1>6 DEF IInv

\* The invariant is inductive.
LEMMA StepIInv == IInv /\ [Next]_allVars => IInv'
<1> SUFFICES ASSUME IInv, [Next]_allVars PROVE IInv'
  OBVIOUS
<1>1. State!IInv'
  BY StepStates, StatesKept DEF IInv
<1>2. EchoOwned'
  BY EchoKept DEF IInv, TypeOK
<1>3. QED
  BY <1>1, <1>2, TypeKept, ReaderKept, LossKept, OpenKept, ForwardKept, ReporterKept,
     ReadyKept DEF IInv

-----------------------------------------------------------------------------
\* The inductive invariant holds in every reachable state.
THEOREM Invariance == Spec => []IInv
BY InitIInv, StepIInv, PTL DEF Spec

\* Both transports report their states as AdapterStates says an adapter does, and
\* what it asks of an adapter with one goroutine never holds a forward client up:
\* its assumption follows from the transport's own order (ws_client.go,
\* adapters/onebot11/state.go).
THEOREM StatesRefined == Spec => UsesAdapterStates /\ []ReportsUnhindered
<1>1. IInv => ReportsUnhindered
  <2>1. SUFFICES ASSUME IInv, mode = "forward",
                        start = "dial"
                          \/ \E n \in Conns : At(n, "announce") \/ At(n, "retire")
                 PROVE  life = "running" /\ \A r \in Conns \cup {Server} : Free(r)
    BY DEF ReportsUnhindered
  <2>2. start \in {"dial", "connected"}
    BY <2>1 DEF IInv, ForwardAlone, Busy, At
  <2>3. \A n \in Conns : ~Free(n) => reader[n] \in {"read", "leave"} /\ Busy(n)
    BY <2>1 DEF IInv, OneReporter, Busy
  <2>4. \A n \in Conns : Free(n)
    BY <2>1, <2>3 DEF IInv, ForwardAlone, Busy, At
  <2>5. QED
    BY <2>1, <2>2, <2>4 DEF IInv, OneReporter
<1>2. QED
  BY <1>1, StepStates, Invariance, PTL DEF Spec, UsesAdapterStates

\* A call gets at most one result, whichever of answer, loss and replacement come
\* first and however often (socket.go:127-178).
THEOREM AnsweredOnce == Spec => []OneResult
<1>1. IInv => OneResult
  BY DEF IInv, EchoOwned, OneResult
<1>2. QED
  BY <1>1, Invariance, PTL

\* A call that waits is in pending or has its result, and one that has returned has
\* left nothing behind (socket.go:48-81).
THEOREM NothingKept == Spec => []PendingExact
<1>1. IInv => PendingExact
  BY DEF IInv, EchoOwned, PendingExact
<1>2. QED
  BY <1>1, Invariance, PTL

\* Once the connections' goroutines have come to rest no call waits on a lost
\* connection, for any chain of replacements (reverse_ws.go:85-133, socket.go:127).
THEOREM LostCallsEnd == Spec => []LossEndsCall
<1>1. IInv => LossEndsCall
  <2>1. SUFFICES ASSUME IInv PROVE LossEndsCall
    OBVIOUS
  <2>2. ASSUME \A n \in Conns : Settled(n) /\ Free(n),
               NEW c \in Calls, call[c] = "awaiting", link[on[c]] = "closed"
        PROVE  results[c] # <<>>
    <3>1. on[c] \in Conns /\ reader[on[c]] # "none"
      BY <2>1, <2>2 DEF IInv, TypeOK, PeerTypeOK, EchoOwned, ReaderExact
    <3>2. reader[on[c]] = "done" /\ conn # on[c]
      BY <2>1, <2>2, <3>1 DEF Settled, IInv, ReaderExact
    <3>3. \A m \in Conns : reader[m] # "replace"
      BY <2>2 DEF Settled, At
    <3>4. Failed(on[c])
      BY <2>1, <3>1, <3>2, <3>3 DEF IInv, LossTold
    <3>5. QED
      BY <2>2, <3>4 DEF Failed
  <2>3. ASSUME mode = "forward", start = "returned", NEW n \in Conns
        PROVE  link[n] # "open"
    BY <2>1, <2>3 DEF IInv, ForwardAlone, Busy, ReaderExact
  <2>4. QED
    BY <2>2, <2>3 DEF LossEndsCall
<1>2. QED
  BY <1>1, Invariance, PTL

\* When nothing is under way the runtime believes the client ready only with a
\* connection, however reports of several connections have overtaken each other, and a
\* forward client with a connection ready (core/state.go:16, ws_client.go).
THEOREM StatesSettle == Spec => []StateSettles
<1>1. IInv => StateSettles
  <2>1. SUFFICES ASSUME IInv, Quiet PROVE StateSettles
    BY DEF StateSettles
  <2>2. \A n \in Conns : reader[n] \in {"none", "done"}
                         \/ (reader[n] = "read" /\ link[n] = "open")
    BY <2>1 DEF Quiet, Settled, At
  <2>3. app = "ready" => conn # NoConn
    <3>1. SUFFICES ASSUME app = "ready" PROVE conn # NoConn
      OBVIOUS
    <3>2. PICK n \in Conns : link[n] = "open"
      BY <2>1, <2>2, <3>1 DEF Quiet, IInv, ReadyHasReader
    <3>3. conn = n
      BY <2>1, <2>2, <3>2 DEF IInv, OpenIsCurrent
    <3>4. QED
      BY <3>3, PeerNulls
  <2>4. ASSUME mode = "forward", conn # NoConn
        PROVE  app = "ready"
    <3>1. conn \in Conns /\ reader[conn] = "read"
      BY <2>1, <2>2, <2>4 DEF IInv, TypeOK, PeerTypeOK, ReaderExact
    <3>2. local = "ready"
      BY <2>1, <2>4, <3>1 DEF IInv, ForwardAlone
    <3>3. \A r \in Conns \cup {Server} : report[r] = State!Nothing
      BY <2>1 DEF Quiet, Free, Nothing, State!Nothing
    <3>4. QED
      BY <2>1, <2>4, <3>2, <3>3 DEF Quiet, IInv, State!IInv, State!AppIsLatest
  <2>5. QED
    BY <2>3, <2>4 DEF StateSettles
<1>2. QED
  BY <1>1, Invariance, PTL
=============================================================================
