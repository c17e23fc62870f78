------------------------------ MODULE Webhooks ------------------------------
(***************************************************************************)
(* The HTTP transport (adapters/onebot11/http.go) in front of EventPump:   *)
(* every event is the body of a request, which net/http serves on a        *)
(* goroutine of its own.  The request's context is that of the event and   *)
(* of all its handlers do, and net/http ends it as soon as the request has *)
(* been served.  Requests that are no events (another method, no token,    *)
(* too large, not JSON) are answered without any of this.                  *)
(***************************************************************************)
EXTENDS EventPump

CONSTANT WebCrews  \* the crews to consider with HTTP

VARIABLES
  web,     \* the adapter is HTTP with a listener (fixed), or a WebSocket
  told,    \* told[s]: what emit has returned to request s
  served,  \* requests whose ServeHTTP has returned
  gone,    \* requests whose client did not wait for that
  calls    \* calls[e]: what became of a call e's handler made with its context

webVars == <<web, told, served, gone, calls>>
allVars == <<vars, webVars>>

\* Shutdown gives up on requests after five seconds (server.go:35).
WebInit ==
  /\ Init
  /\ web \in BOOLEAN /\ (web => detached /\ crew \in WebCrews)
  /\ told = [s \in Sources |-> "nothing"]
  /\ served = {} /\ gone = {}
  /\ calls = [e \in Events |-> "none"]

\* A request carries one event.
Receive(s) ==
  /\ web => read[s] = 0
  /\ ReadEvent(s)
  /\ UNCHANGED webVars

EmitReturns(s, result) ==
  /\ told' = IF web THEN [told EXCEPT ![s] = result] ELSE told
  /\ UNCHANGED <<web, served, calls>>

SendAccepted(s) == Send(s) /\ EmitReturns(s, "nil") /\ UNCHANGED gone

\* Either context is done.
SendRefused(s) ==
  /\ Refuse(s)
  /\ EmitReturns(s, "error")
  /\ gone' = IF web /\ ~ctxDone THEN gone \cup {s} ELSE gone

Dispatch(d) ==
  \/ /\ EnterLock(d) \/ BeginSerial(d) \/ BeginFree(d) \/ EndSerial(d)
     /\ UNCHANGED webVars
  \/ /\ EndFree(d) \/ LeaveLock(d)
     /\ IF Sync THEN EmitReturns(d, "nil") /\ UNCHANGED gone
                ELSE UNCHANGED webVars

\* Faulty: the request is answered before its event has been emitted.
AnswerAtOnce(s) ==
  /\ web /\ s \notin served
  /\ read[s] = 1
  /\ served' = served \cup {s}
  /\ UNCHANGED <<vars, web, told, gone, calls>>

\* Status 200 or 500, by what emit has returned, and the end of ServeHTTP.
Answer(s) ==
  /\ told[s] # "nothing" /\ s \notin served
  /\ served' = served \cup {s}
  /\ UNCHANGED <<vars, web, told, gone, calls>>

\* The client closes its connection before it has its answer.
ClientGone(s) ==
  /\ web /\ read[s] = 1 /\ s \notin served \cup gone
  /\ gone' = gone \cup {s}
  /\ UNCHANGED <<vars, web, told, served, calls>>

Ended(s) == s \in served \cup gone

\* A handler replies, or calls the store, with the context it was given: both give
\* up at once if it is done.
Call(d) ==
  /\ web /\ stage[d] = "handling"
  /\ calls[work[d]] = "none"
  /\ \E s \in Sources :
       /\ read[s] = 1 /\ Current(s) = work[d]
       /\ calls' = [calls EXCEPT ![work[d]] =
                      IF Ended(s) THEN "cancelled" ELSE "made"]
  /\ UNCHANGED <<vars, web, told, served, gone>>

WebNext ==
  \/ \E s \in Sources :
       \/ Receive(s) \/ SendAccepted(s) \/ SendRefused(s)
       \/ (SendOnClosed(s) \/ CallDispatch(s)) /\ UNCHANGED webVars
       \/ Answer(s) \/ ClientGone(s)
  \/ \E d \in Dispatchers : Dispatch(d) \/ Call(d)
  \/ /\ (\E w \in Workers : Take(w) \/ WorkerExit(w)) \/ Shutdown \/ Terminated
     /\ UNCHANGED webVars

\* The fairness of the pump; none of a request's client.
WebSpec == WebInit /\ [][WebNext]_allVars /\ Fairness

-----------------------------------------------------------------------------
WebTypeOK ==
  /\ TypeOK
  /\ web \in BOOLEAN
  /\ told \in [Sources -> {"nothing", "nil", "error"}]
  /\ served \subseteq Sources /\ gone \subseteq Sources
  /\ calls \in [Events -> {"none", "made", "cancelled"}]

\* The other side may send again what was answered with an error, and need not
\* what was answered with "ok": the event of the one is never dispatched, that of
\* the other was taken, and without workers it has been dispatched, by handlers
\* whose context was alive unless the client had gone (http.go:95-101).
AnswersHold ==
  web => \A s \in served :
    /\ told[s] = "error" => Current(s) \notin RangeOf(accepted) \cup RangeOf(begun)
    /\ told[s] = "nil" => Current(s) \in RangeOf(accepted)
    /\ Sync => /\ Current(s) \in finished
               /\ calls[Current(s)] = "cancelled" => s \in gone

\* A handler can do with its context what handlers do, reply above all
\* (core/context.go:322), unless the client has given up on its request.
HandlersCanReply ==
  \A s \in Sources :
    web /\ read[s] = 1 /\ calls[Current(s)] = "cancelled" => s \in gone

\* Calls are made by handlers that have begun.
CallsOfBegun == \A e \in Events : calls[e] # "none" => e \in RangeOf(begun)

\* A request reads one event, and what it was told of it stays true.
RequestExact ==
  web => \A s \in Sources :
    /\ read[s] <= 1
    /\ told[s] # "nothing" => read[s] = 1 /\ ~emitting[s]
    /\ told[s] = "error" => ~Sync /\ Current(s) \notin RangeOf(accepted)
    /\ told[s] = "nil" => /\ Current(s) \in RangeOf(accepted)
                          /\ Sync => Current(s) \in finished
    /\ s \in served => told[s] # "nothing"
    /\ Sync /\ read[s] = 1 /\ calls[Current(s)] = "cancelled" => s \in gone

\* The inductive invariant the proofs in EventPump_proofs use.
WebInv == WebTypeOK /\ CallsOfBegun /\ RequestExact
=============================================================================
