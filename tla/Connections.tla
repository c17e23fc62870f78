---------------------------- MODULE Connections -----------------------------
(***************************************************************************)
(* What the forward and the reverse WebSocket transports of                *)
(* adapters/onebot11 have in common: the life of a connection, from the    *)
(* moment it becomes peer.conn to its end, its read loop, and the reports  *)
(* on it that go through AdapterStates to the runtime.                     *)
(*                                                                         *)
(* reader[n] is the next thing the goroutine of connection n does:         *)
(*   "none"     the connection does not exist yet                          *)
(*   "replace"  (reverse) fail the pending calls: it replaced another      *)
(*   "closeOld" (reverse) close the connection it replaced                 *)
(*   "announce" report that it is connected                                *)
(*   "read"     run the read loop                                          *)
(*   "retire"   report that it is disconnected                             *)
(*   "leave"    give up peer.conn                                          *)
(*   "fail"     fail the pending calls                                     *)
(*   "close"    close the connection                                       *)
(*   "done"     nothing                                                    *)
(* A goroutine that reports does nothing else until the sink has returned. *)
(***************************************************************************)
EXTENDS SocketPeer

CONSTANT Server  \* the goroutine of adapter.Start, as a reporter of states

ASSUME ServerAssumption == Server \notin Conns

VARIABLES
  mode,    \* "forward" or "reverse" (fixed)
  start,   \* where transport.Start is
  ctxDone, \* its context is cancelled
  reader,  \* see above
  old,     \* old[n]: the connection n replaced
  life, local, sink, report, app  \* see AdapterStates

readerVars == <<reader, old>>
reportVars == <<life, local, sink, report, app>>
allVars == <<peerVars, mode, start, ctxDone, readerVars, reportVars>>

\* Nobody is in WaitActionReady here.
State == INSTANCE AdapterStates
  WITH Reporters <- Conns \cup {Server}, Waiters <- {}, waiters <- {},
       waiter <- <<>>, detached <- (mode = "reverse")

\* The runtime has bound the adapter's states and called adapter.Start.
InitConnections ==
  /\ InitPeer
  /\ ctxDone = FALSE
  /\ reader = [n \in Conns |-> "none"]
  /\ old = [n \in Conns |-> NoConn]
  /\ life = "running"
  /\ local = "unknown"
  /\ sink = TRUE
  /\ report = [r \in Conns \cup {Server} |-> Nothing]
  /\ app = "starting"

\* Reporter r is not inside a call of the sink.
Free(r) == report[r] = Nothing

\* Connection n's goroutine is at `place` and can go on.
At(n, place) == reader[n] = place /\ Free(n)

Then(n, place) == reader' = [reader EXCEPT ![n] = place] /\ UNCHANGED old

Fresh == {n \in Conns : reader[n] = "none"}

\* emitConnection: the state reaches the adapter's state, then the sink.
Announce(n) ==
  /\ At(n, "announce")
  /\ UNCHANGED <<peerVars, mode, start, ctxDone>>
  /\ State!SetLocal(n, "ready")
  /\ Then(n, "read")

\* Faulty: the loss is not reported.
RetireSilently(n) ==
  /\ At(n, "retire")
  /\ Then(n, "leave")
  /\ UNCHANGED <<peerVars, mode, start, ctxDone, reportVars>>

Retire(n) ==
  /\ At(n, "retire")
  /\ UNCHANGED <<peerVars, mode, start, ctxDone>>
  /\ State!SetLocal(n, "disconnected")
  /\ Then(n, "leave")

Deliver(r) ==
  /\ UNCHANGED <<peerVars, mode, start, ctxDone, readerVars>>
  /\ State!CallSink(r)

\* The read loop gets an answer frame.
ReadAnswer(n, c) ==
  /\ At(n, "read")
  /\ Answer(n, c)
  /\ UNCHANGED <<mode, start, ctxDone, readerVars, reportVars>>

LoseConn(n) ==
  /\ PeerCloses(n)
  /\ UNCHANGED <<mode, start, ctxDone, readerVars, reportVars>>

CloseLink(n) == link' = [link EXCEPT ![n] = "closed"]

\* The read loop ends: the connection is closed, or its context is done, which
\* makes the library close it.  A reverse connection's context never is.
ReadFails(n) ==
  /\ At(n, "read")
  /\ link[n] = "closed" \/ (mode = "forward" /\ ctxDone)
  /\ CloseLink(n)
  /\ Then(n, "retire")
  /\ UNCHANGED <<conn, pending, results, asked, callerVars, mode, start,
                 ctxDone, reportVars>>

CallStep(c) ==
  /\ CallerStep(c)
  /\ UNCHANGED <<mode, start, ctxDone, readerVars, reportVars>>

Cancel ==
  /\ ~ctxDone
  /\ ctxDone' = TRUE
  /\ UNCHANGED <<peerVars, mode, start, readerVars, reportVars>>

\* Run's deferred stopAdapterState, after Start has returned.
StopStates ==
  /\ start = "returned"
  /\ Free(Server)
  /\ UNCHANGED <<peerVars, mode, start, ctxDone, readerVars>>
  /\ State!StopUpdate \/ State!StopSink
=============================================================================
