----------------------------- MODULE ForwardWS ------------------------------
(***************************************************************************)
(* adapters/onebot11/ws_client.go: the client that dials the OneBot side   *)
(* and dials again after a while when the connection is lost.  One         *)
(* goroutine, the one that called Start, does everything, so there is      *)
(* never more than one connection.  How long it waits (the backoff) is     *)
(* left out.                                                               *)
(*                                                                         *)
(* start: "dial" (about to call connectOnce), "connected" (inside it, at   *)
(* reader[n]), "wait" (for the backoff timer), "returned".                 *)
(***************************************************************************)
EXTENDS Connections

ForwardInit == mode = "forward" /\ start = "dial" /\ InitConnections

\* Dial succeeds, and setConn.
Dial(n) ==
  /\ start = "dial"
  /\ ~ctxDone
  /\ n \in Fresh
  /\ link' = [link EXCEPT ![n] = "open"]
  /\ conn' = n
  /\ Then(n, "announce")
  /\ start' = "connected"
  /\ UNCHANGED <<pending, results, asked, callerVars, mode, ctxDone, reportVars>>

\* Dial fails and says so, unless it fails because the context is done.
DialFails ==
  /\ start = "dial"
  /\ UNCHANGED <<peerVars, mode, ctxDone, readerVars>>
  /\ IF ctxDone THEN UNCHANGED reportVars
                ELSE State!SetLocal(Server, "disconnected")
  /\ start' = "wait"

\* connectOnce's deferred function: setConn(nil) ...
ClearConn(n) ==
  /\ At(n, "leave")
  /\ conn' = NoConn
  /\ Then(n, "close")
  /\ UNCHANGED <<pending, results, asked, link, callerVars, mode, start,
                 ctxDone, reportVars>>

\* ... conn.Close ...
CloseLost(n) ==
  /\ At(n, "close")
  /\ CloseLink(n)
  /\ Then(n, "fail")
  /\ UNCHANGED <<conn, pending, results, asked, callerVars, mode, start,
                 ctxDone, reportVars>>

\* ... and failPending; connectOnce returns.
FailLost(n) ==
  /\ At(n, "fail")
  /\ FailPending(n)
  /\ Then(n, "done")
  /\ start' = "wait"
  /\ UNCHANGED <<mode, ctxDone, reportVars>>

\* The timer fires: dial again.
Redial ==
  /\ start = "wait"
  /\ Free(Server)
  /\ start' = "dial"
  /\ UNCHANGED <<peerVars, mode, ctxDone, readerVars, reportVars>>

\* The context is done: Start returns.
EndStart ==
  /\ start = "wait"
  /\ Free(Server)
  /\ ctxDone
  /\ start' = "returned"
  /\ UNCHANGED <<peerVars, mode, ctxDone, readerVars, reportVars>>

ForwardConnStep(n) == ClearConn(n) \/ CloseLost(n) \/ FailLost(n)

ForwardNext ==
  /\ mode = "forward"
  /\ \/ DialFails \/ Redial \/ EndStart
     \/ \E n \in Conns : Dial(n) \/ ForwardConnStep(n)
=============================================================================
