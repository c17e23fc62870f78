----------------------------- MODULE WebSockets -----------------------------
(***************************************************************************)
(* A WebSocket adapter of adapters/onebot11 under the runtime: the forward *)
(* or the reverse transport, its connections, the action calls made        *)
(* through it, and the adapter state the runtime derives from its reports. *)
(***************************************************************************)
EXTENDS ForwardWS, ReverseWS

Init == ForwardInit \/ ReverseInit

ConnStep(n) ==
  \/ Announce(n) \/ Retire(n) \/ ReadFails(n) \/ LoseConn(n)
  \/ \E c \in Calls : ReadAnswer(n, c)

Next ==
  \/ ForwardNext
  \/ ReverseNext
  \/ \E n \in Conns : ConnStep(n)
  \/ \E r \in Conns \cup {Server} : Deliver(r)
  \/ \E c \in Calls : CallStep(c)
  \/ Cancel
  \/ StopStates

Spec == Init /\ [][Next]_allVars

-----------------------------------------------------------------------------
TypeOK ==
  /\ PeerTypeOK
  /\ mode \in {"forward", "reverse"}
  /\ start \in {"dial", "connected", "wait", "opening", "listening",
                "stopping", "returned"}
  /\ ctxDone \in BOOLEAN
  /\ reader \in [Conns -> {"none", "replace", "closeOld", "announce", "read",
                           "retire", "leave", "fail", "close", "done"}]
  /\ old \in [Conns -> Conns \cup {NoConn}]
  /\ State!TypeOK

\* A call's channel, which has room for one, is sent to at most once, although
\* an answer, a lost connection and the caller itself race for the call
\* (socket.go:127-178): no read loop ever blocks on it.
OneResult == \A c \in Calls : Len(results[c]) <= 1

\* Who has returned has left nothing in pending, and who waits is in pending or
\* has its result: no answer is lost and none is kept for nobody.
PendingExact ==
  \A c \in Calls :
    /\ call[c] = "returned" => c \notin pending
    /\ call[c] = "awaiting" => c \in pending \/ results[c] # <<>>
    /\ c \in pending => results[c] = <<>>

\* The connections that are part of no change under way.
Settled(n) ==
  \/ reader[n] \in {"none", "done"}
  \/ At(n, "read") /\ link[n] = "open"

Quiet ==
  /\ life = "running"
  /\ Free(Server)
  /\ \A n \in Conns : Settled(n) /\ Free(n)

\* When nothing is under way the runtime believes the action client ready only
\* if there is a connection (state.go:16); and, as one goroutine reports for a
\* forward client, believes that client disconnected only if there is none.
StateSettles ==
  Quiet => /\ app = "ready" => conn # NoConn
           /\ mode = "forward" /\ conn # NoConn => app = "ready"

\* When nothing is under way the runtime believes the action client disconnected
\* only if there is no connection (state.go:18).
ConnectedMeansReady == Quiet /\ conn # NoConn => app = "ready"

\* A call that was written to a connection which is then lost does not need its
\* deadline, wherever the loss comes between registering, reading peer.conn and
\* writing (socket.go:48-81): when the connections' goroutines have come to rest, no
\* such call waits without a result.  A forward client that has returned leaves no
\* connection open on which one could.
LossEndsCall ==
  /\ (\A n \in Conns : Settled(n) /\ Free(n)) =>
       \A c \in Calls : call[c] = "awaiting" /\ link[on[c]] = "closed"
                         => results[c] # <<>>
  /\ mode = "forward" /\ start = "returned" => \A n \in Conns : link[n] # "open"

-----------------------------------------------------------------------------
(***************************************************************************)
(* The inductive invariant the proofs in WebSockets_proofs use.            *)
(***************************************************************************)

\* Who takes an echo out of pending sends one result; until then there is none.
EchoOwned ==
  \A c \in Calls :
    /\ Len(results[c]) <= 1
    /\ c \in pending => results[c] = <<>>
    /\ call[c] = "idle" => c \notin pending /\ results[c] = <<>>
    /\ call[c] = "returned" => c \notin pending
    /\ call[c] \in {"registered", "picked", "writing", "awaiting", "forgetting"}
         => c \in pending \/ results[c] # <<>>
    /\ call[c] \in {"idle", "registered"} => on[c] = NoConn
    /\ call[c] \in {"picked", "writing", "awaiting"} => on[c] # NoConn

\* What the place of its goroutine says of a connection.
ReaderExact ==
  /\ \A n \in Conns :
       /\ reader[n] = "none" <=> link[n] = "unused"
       /\ reader[n] = "none" => conn # n
       /\ reader[n] \in {"retire", "leave", "fail", "close", "done"}
            => link[n] = "closed"
       /\ reader[n] \in {"fail", "close", "done"} => conn # n
       /\ old[n] # NoConn => old[n] # n /\ reader[old[n]] # "none"
       /\ reader[n] \in {"replace", "closeOld"} => old[n] # NoConn
       /\ report[n] = "ready" => reader[n] = "read"
       /\ reader[n] = "none" => old[n] = NoConn
  /\ \A c \in Calls : on[c] # NoConn => reader[on[c]] # "none"
  /\ report[Server] # "ready"

\* The calls that may wait on connection n have their results.
Failed(n) ==
  \A c \in Calls :
    on[c] = n /\ call[c] \in {"picked", "writing", "awaiting"}
      => results[c] # <<>>

\* A connection that is no longer the current one has told its calls, or is
\* about to, or the one that replaced it is.
LossTold ==
  \A n \in Conns :
    \/ reader[n] = "none" \/ conn = n
    \/ reader[n] = "fail" \/ (mode = "forward" /\ reader[n] = "close")
    \/ \E m \in Conns : old[m] = n /\ reader[m] = "replace"
    \/ Failed(n)

\* An open connection is the current one or about to be closed by its successor.
OpenIsCurrent ==
  \A n \in Conns :
    link[n] = "open" =>
      conn = n \/ \E m \in Conns : old[m] = n /\ reader[m] \in {"replace", "closeOld"}

Busy(n) == reader[n] \notin {"none", "done"}

\* A forward client has one connection at a time, and its last report says
\* whether it has one that has been announced and not retired.
ForwardAlone ==
  mode = "forward" =>
    /\ start \in {"dial", "connected", "wait", "returned"}
    /\ \A n \in Conns : reader[n] \notin {"replace", "closeOld"}
    /\ \A n \in Conns : Busy(n) => start = "connected"
    /\ \A m, n \in Conns : Busy(m) /\ Busy(n) => m = n
    /\ \A n \in Conns :
         reader[n] \in {"announce", "read", "retire", "leave"} => conn = n
    /\ local = "ready" <=> \E n \in Conns : reader[n] \in {"read", "retire"}

\* The runtime believes the client ready only if a connection has still to report
\* its end, however reports have overtaken each other.
ReadyHasReader ==
  life = "running" =>
    /\ sink
    /\ app = "ready" =>
         \E n \in Conns :
           \/ reader[n] \in {"read", "retire"}
           \/ reader[n] = "leave" /\ ~Free(n)

\* A forward client's reports come from one goroutine, which waits for each of them,
\* and none comes after Start has returned.
OneReporter ==
  mode = "forward" =>
    /\ life = "running" \/ start = "returned"
    /\ ~Free(Server) => start = "wait"
    /\ \A n \in Conns : ~Free(n) => reader[n] \in {"read", "leave"}

IInv ==
  /\ TypeOK /\ EchoOwned /\ ReaderExact /\ LossTold /\ OpenIsCurrent
  /\ ForwardAlone /\ OneReporter /\ ReadyHasReader /\ State!IInv

\* Where a forward client reports, AdapterStates lets one goroutine report: what it
\* asks of the adapter holds there and holds nobody up.
ReportsUnhindered ==
  /\ mode = "forward"
  /\ start = "dial" \/ \E n \in Conns : At(n, "announce") \/ At(n, "retire")
  => life = "running" /\ \A r \in Conns \cup {Server} : Free(r)

\* The adapter reports its states as AdapterStates says an adapter does, so all
\* that is shown there holds of its reports.
UsesAdapterStates == [][State!Next]_(State!stateVars)
=============================================================================
