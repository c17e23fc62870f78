----------------------------- MODULE SocketPeer -----------------------------
(***************************************************************************)
(* adapters/onebot11/socket.go: socketPeer, the current WebSocket          *)
(* connection of a transport and the action calls that wait for an answer. *)
(*                                                                         *)
(* A call registers its echo in `pending`, then reads the current          *)
(* connection, writes its request under writeMu and waits on its channel.  *)
(* Whoever takes an echo out of `pending` under pendingMu - the read loop  *)
(* for an answer (completePending), a transport that lost a connection     *)
(* (failPending) - sends one result to the channel; the caller takes it    *)
(* out itself when it gives up (removePending).                            *)
(*                                                                         *)
(* The websocket library is modelled by `link` (a connection is open until *)
(* somebody closes it) and by `asked` (requests the other side has got).   *)
(* This module has the steps of the callers and of the library; the        *)
(* transports ReverseWS and ForwardWS have the others.                     *)
(***************************************************************************)
EXTENDS Naturals, Sequences

CONSTANTS
  Conns,   \* connections, each used once
  Calls,   \* calls of callRaw, each made once
  NoConn,  \* a nil *websocket.Conn
  NoCall   \* "writeMu is free"

ASSUME PeerNulls == NoConn \notin Conns /\ NoCall \notin Calls

VARIABLES
  conn,     \* peer.conn
  pending,  \* the keys of peer.pending (an echo is its call)
  writer,   \* the call that holds writeMu
  call,     \* call[c]: where callRaw is
  on,       \* on[c]: its local variable conn
  results,  \* results[c]: what has been sent to its channel
  returned, \* returned[c]: what callRaw has returned
  asked,    \* <<n, c>>: the peer of connection n has received call c
  link      \* link[n]: "unused", "open" or "closed"

callerVars == <<writer, call, on, returned>>
peerVars == <<conn, pending, results, asked, link, callerVars>>

Nothing == "nothing"

InitPeer ==
  /\ conn = NoConn
  /\ pending = {}
  /\ writer = NoCall
  /\ call = [c \in Calls |-> "idle"]
  /\ on = [c \in Calls |-> NoConn]
  /\ results = [c \in Calls |-> <<>>]
  /\ returned = [c \in Calls |-> Nothing]
  /\ asked = {}
  /\ link = [n \in Conns |-> "unused"]

Goto(c, place) == call' = [call EXCEPT ![c] = place]

-----------------------------------------------------------------------------
\* The call enters its echo in pending ...
Register(c) ==
  /\ call[c] = "idle"
  /\ pending' = pending \cup {c}
  /\ Goto(c, "registered")
  /\ UNCHANGED <<conn, writer, on, results, returned, asked, link>>

\* ... and reads the current connection.
PickConn(c) ==
  /\ call[c] = "registered"
  /\ conn # NoConn
  /\ on' = [on EXCEPT ![c] = conn]
  /\ Goto(c, "picked")
  /\ UNCHANGED <<conn, pending, writer, results, returned, asked, link>>

\* There is none, or the parameters cannot be encoded: the call gives up.
Abort(c) ==
  /\ call[c] = "registered"
  /\ Goto(c, "forgetting")
  /\ UNCHANGED <<conn, pending, writer, on, results, returned, asked, link>>

LockWrite(c) ==
  /\ call[c] = "picked"
  /\ writer = NoCall
  /\ writer' = c
  /\ Goto(c, "writing")
  /\ UNCHANGED <<conn, pending, on, results, returned, asked, link>>

\* conn.Write succeeds: the other side gets the request.
WriteOk(c) ==
  /\ call[c] = "writing"
  /\ link[on[c]] = "open"
  /\ asked' = asked \cup {<<on[c], c>>}
  /\ writer' = NoCall
  /\ Goto(c, "awaiting")
  /\ UNCHANGED <<conn, pending, on, results, returned, link>>

\* conn.Write fails: the connection is closed, or the call's context ends, which
\* makes the library close the connection if part of the frame has been written.
WriteFails(c) ==
  /\ call[c] = "writing"
  /\ link' \in {link, [link EXCEPT ![on[c]] = "closed"]}
  /\ writer' = NoCall
  /\ Goto(c, "forgetting")
  /\ UNCHANGED <<conn, pending, on, results, returned, asked>>

\* The select takes the result.
Receive(c) ==
  /\ call[c] = "awaiting"
  /\ results[c] # <<>>
  /\ returned' = [returned EXCEPT ![c] = Head(results[c])]
  /\ Goto(c, "returned")
  /\ UNCHANGED <<conn, pending, writer, on, results, asked, link>>

\* The select takes ctx.Done: the call's context (client.go gives it
\* actionTimeout) may end at any time.
GiveUp(c) ==
  /\ call[c] = "awaiting"
  /\ Goto(c, "forgetting")
  /\ UNCHANGED <<conn, pending, writer, on, results, returned, asked, link>>

\* Faulty: the error path forgets removePending.
ForgetNothing(c) ==
  /\ call[c] = "forgetting"
  /\ returned' = [returned EXCEPT ![c] = "error"]
  /\ Goto(c, "returned")
  /\ UNCHANGED <<conn, pending, writer, on, results, asked, link>>

\* removePending, and callRaw returns its error.
Forget(c) ==
  /\ call[c] = "forgetting"
  /\ pending' = pending \ {c}
  /\ returned' = [returned EXCEPT ![c] = "error"]
  /\ Goto(c, "returned")
  /\ UNCHANGED <<conn, writer, on, results, asked, link>>

CallerStep(c) ==
  \/ Register(c) \/ PickConn(c) \/ Abort(c) \/ LockWrite(c)
  \/ WriteOk(c) \/ WriteFails(c)
  \/ Receive(c) \/ GiveUp(c) \/ Forget(c)

-----------------------------------------------------------------------------
\* Faulty: the answered call stays in pending.
AnswerKept(n, c) ==
  /\ <<n, c>> \in asked
  /\ link[n] = "open"
  /\ results' = IF c \in pending
                  THEN [results EXCEPT ![c] = Append(@, "response")]
                  ELSE results
  /\ UNCHANGED <<conn, pending, asked, link, callerVars>>

\* completePending, called by connection n's read loop for an answer frame: the
\* other side answers a request it has got, possibly twice.
Answer(n, c) ==
  /\ <<n, c>> \in asked
  /\ link[n] = "open"
  /\ pending' = pending \ {c}
  /\ results' = IF c \in pending
                  THEN [results EXCEPT ![c] = Append(@, "response")]
                  ELSE results
  /\ UNCHANGED <<conn, asked, link, callerVars>>

\* failPending: everybody in pending is told that connection n was lost.
FailPending(n) ==
  /\ pending' = {}
  /\ results' = [c \in Calls |-> IF c \in pending THEN Append(results[c], n)
                                                  ELSE results[c]]
  /\ UNCHANGED <<conn, asked, link, callerVars>>

\* The other side or the network closes an open connection.
PeerCloses(n) ==
  /\ link[n] = "open"
  /\ link' = [link EXCEPT ![n] = "closed"]
  /\ UNCHANGED <<conn, pending, results, asked, callerVars>>

-----------------------------------------------------------------------------
PeerTypeOK ==
  /\ conn \in Conns \cup {NoConn}
  /\ pending \in SUBSET Calls
  /\ writer \in Calls \cup {NoCall}
  /\ call \in [Calls -> {"idle", "registered", "picked", "writing", "awaiting",
                         "forgetting", "returned"}]
  /\ on \in [Calls -> Conns \cup {NoConn}]
  /\ results \in [Calls -> Seq(Conns \cup {"response"})]
  /\ returned \in [Calls -> Conns \cup {"response", "error", Nothing}]
  /\ asked \in SUBSET (Conns \X Calls)
  /\ link \in [Conns -> {"unused", "open", "closed"}]
=============================================================================
