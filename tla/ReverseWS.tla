----------------------------- MODULE ReverseWS ------------------------------
(***************************************************************************)
(* adapters/onebot11/reverse_ws.go: the server the OneBot side connects    *)
(* to.  Every accepted connection has a goroutine of its own (handleConn)  *)
(* that replaces the previous connection; nobody waits for these           *)
(* goroutines, since http.Server.Shutdown does not know of connections     *)
(* that have become WebSockets.                                            *)
(*                                                                         *)
(* start: "opening" (report, then listen), "listening", "stopping"         *)
(* (closeCurrentConn is done, Shutdown is not), "returned".                *)
(***************************************************************************)
EXTENDS Connections

ReverseInit == mode = "reverse" /\ start = "opening" /\ InitConnections

\* Start reports that it waits for a connection and begins to listen.
Open ==
  /\ start = "opening"
  /\ UNCHANGED <<peerVars, mode, ctxDone, readerVars>>
  /\ State!SetLocal(Server, "disconnected")
  /\ start' = "listening"

Listening == start \in {"listening", "stopping"} /\ Free(Server)

\* websocket.Accept succeeds; replaceConn makes the connection the current one.
Accept(n) ==
  /\ Listening
  /\ n \in Fresh
  /\ link' = [link EXCEPT ![n] = "open"]
  /\ conn' = n
  /\ old' = [old EXCEPT ![n] = conn]
  /\ reader' = [reader EXCEPT ![n] = IF conn = NoConn THEN "announce"
                                                      ELSE "replace"]
  /\ UNCHANGED <<pending, results, asked, callerVars, mode, start, ctxDone,
                 reportVars>>

\* replaceConn fails what was pending on the old connection.
FailReplaced(n) ==
  /\ At(n, "replace")
  /\ FailPending(old[n])
  /\ Then(n, "closeOld")
  /\ UNCHANGED <<mode, start, ctxDone, reportVars>>

\* old.Close.
CloseReplaced(n) ==
  /\ At(n, "closeOld")
  /\ CloseLink(old[n])
  /\ Then(n, "announce")
  /\ UNCHANGED <<conn, pending, results, asked, callerVars, mode, start,
                 ctxDone, reportVars>>

\* Faulty: the pending calls are not failed when the connection goes.
LeaveQuietly(n) ==
  /\ At(n, "leave")
  /\ conn' = IF conn = n THEN NoConn ELSE conn
  /\ Then(n, "close")
  /\ UNCHANGED <<pending, results, asked, link, callerVars, mode, start,
                 ctxDone, reportVars>>

\* disconnectConn: only the current connection clears peer.conn and then fails
\* what is pending; one that has been replaced just closes.
Leave(n) ==
  /\ At(n, "leave")
  /\ IF conn = n THEN conn' = NoConn /\ Then(n, "fail")
                 ELSE conn' = conn /\ Then(n, "close")
  /\ UNCHANGED <<pending, results, asked, link, callerVars, mode, start,
                 ctxDone, reportVars>>

FailLeft(n) ==
  /\ At(n, "fail")
  /\ FailPending(n)
  /\ Then(n, "close")
  /\ UNCHANGED <<mode, start, ctxDone, reportVars>>

CloseLeft(n) ==
  /\ At(n, "close")
  /\ CloseLink(n)
  /\ Then(n, "done")
  /\ UNCHANGED <<conn, pending, results, asked, callerVars, mode, start,
                 ctxDone, reportVars>>

\* Start sees its context done: closeCurrentConn ...
CloseCurrent ==
  /\ start = "listening"
  /\ Free(Server)
  /\ ctxDone
  /\ IF conn = NoConn THEN UNCHANGED link ELSE CloseLink(conn)
  /\ start' = "stopping"
  /\ UNCHANGED <<conn, pending, results, asked, callerVars, mode, ctxDone,
                 readerVars, reportVars>>

\* ... then Shutdown, after which nothing is accepted, and Start returns; or
\* ListenAndServe fails and Start returns at once.
ServerDown ==
  /\ start = "stopping" \/ (start = "listening" /\ Free(Server))
  /\ start' = "returned"
  /\ UNCHANGED <<peerVars, mode, ctxDone, readerVars, reportVars>>

ReverseConnStep(n) ==
  \/ FailReplaced(n) \/ CloseReplaced(n)
  \/ Leave(n) \/ FailLeft(n) \/ CloseLeft(n)

ReverseNext ==
  /\ mode = "reverse"
  /\ \/ Open \/ CloseCurrent \/ ServerDown
     \/ \E n \in Conns : Accept(n) \/ ReverseConnStep(n)
=============================================================================
