-------------------------------- MODULE Bot ---------------------------------
(***************************************************************************)
(* A bot: the routes of its plugins (Routing) whose handlers are limited   *)
(* (RateLimits) and keep dialogues and counters (Dialogues).  Each event   *)
(* is dispatched by a goroutine of its own, under the mutex of its         *)
(* conversation if the bot is serial; KeyedLocks shows that App.locks is   *)
(* such a mutex, EventPump where the goroutines come from.                 *)
(***************************************************************************)
EXTENDS Routing, RateLimits, Dialogues, CommandTexts

CONSTANTS
  Kind,              \* Kind[r]: what r's handler does
  Names,             \* Names[r]: those of a command
  Conv, User, Group, \* of an event; Group may be NoPlace
  LimitKey,          \* what rateLimitKey returns for an event
  Setups             \* [before, beside : Seq(Routes), events : SUBSET Events,
                     \*  serial : BOOLEAN, begun, scope, ends, typed,
                     \*  limit, later : of the limiter before, or given to Use
                     \*  beside (0: none)]

ASSUME BotAssumption ==
  /\ Kind \in [Routes -> {"plain", "dialogue", "begin", "counter",
                         "command"}]
  /\ Conv \in [Events -> Places] /\ LimitKey \in [Events -> LimitKeys]
  /\ User \in [Events -> Places] /\ Group \in [Events -> Places \cup {NoPlace}]
  /\ \A s \in Setups :
       /\ s.before \in Seq(Routes) /\ s.beside \in Seq(Routes)
       /\ s.events \subseteq Events /\ s.serial \in BOOLEAN
       /\ s.begun \in Places \cup {NoPlace}
       /\ s.scope \in {"conversation", "user", "group"}
       /\ s.limit \in Nat /\ s.later \in Nat /\ s.ends \in 0..MaxNow
       /\ s.typed.prefix \in Marks /\ s.typed.name \in Seq(Characters \ {Blank}) \ {<<>>}
       /\ s.typed.words \in Seq(Seq(Characters)) /\ s.typed.style \in Quotes \cup {Bare}
       /\ Typable(s.typed.words, s.typed.style)

vars == <<setup, routerVars, eventVars, rateVars, stateVars>>

Init ==
  /\ setup \in Setups
  /\ RoutingInit
  /\ RateInit(Events, setup.limit)
  /\ DialoguesInit(Events, setup.begun)

-----------------------------------------------------------------------------
\* Registration beside everything else, and time.

Install ==
  /\ \/ \E r \in Routes : Register(r) /\ UNCHANGED rateVars
     \/ /\ setup.later > 0
        /\ StartLimiting(setup.later) /\ UNCHANGED routerVars
  /\ UNCHANGED <<setup, eventVars, stateVars>>

TimePasses ==
  /\ now < setup.ends
  /\ Tick
  /\ UNCHANGED <<setup, routerVars, eventVars, stateVars>>

\* Faulty: the mutex of the conversation is not taken.
LockNothing(e) == TRUE

\* lockEvent: the mutex is held to the end of dispatch.
Lock(e) ==
  setup.serial =>
    \A f \in Events \ {e} : Conv[f] = Conv[e] => phase[f] \in {"new", "done"}

Begin(e) ==
  /\ e \in setup.events /\ Lock(e)
  /\ BeginDispatch(e)
  /\ UNCHANGED <<setup, routerVars, rateVars, stateVars>>

Snapshot(e) ==
  /\ CopySorted(e) \/ FindDirty(e) \/ Sort(e)
  /\ UNCHANGED <<setup, rateVars, stateVars>>

-----------------------------------------------------------------------------
\* Rules.

Place(e) ==
  IF setup.scope = "conversation" THEN Conv[e]
  ELSE IF setup.scope = "user" THEN User[e] ELSE Group[e]

\* No record, no message, or another rule of the route (DialogueWithRules) says no.
TryDialogue(e, r) ==
  /\ Kind[r] = "dialogue"
  /\ \/ LoadRecord(e, Place(e), now) /\ Test(e, r, TRUE)
     \/ LoadFails(e, Place(e)) /\ Test(e, r, TRUE)
     \/ Test(e, r, FALSE) /\ UNCHANGED stateVars

\* What is typed is the text of every event.
TryCommand(e, r) ==
  /\ Kind[r] = "command"
  /\ Test(e, r, Calls(Names[r], Text(setup.typed)))
  /\ UNCHANGED stateVars

TryOther(e, r) ==
  /\ Kind[r] \notin {"dialogue", "command"}
  /\ \E matches \in BOOLEAN : Test(e, r, matches)
  /\ UNCHANGED stateVars

Try(e) ==
  /\ phase[e] = "routes"
  /\ \E r \in Routes :
       \/ Skip(e, r) /\ UNCHANGED stateVars
       \/ TryDialogue(e, r) \/ TryCommand(e, r) \/ TryOther(e, r)
  /\ UNCHANGED <<setup, routerVars, rateVars>>

Finish(e) ==
  /\ Exhausted(e)
  /\ UNCHANGED <<setup, routerVars, rateVars, stateVars>>

-----------------------------------------------------------------------------
\* The chain: the limiter, if the root router has one by now, and the handler.

Chain(e) ==
  /\ phase[e] = "matched"
  /\ \/ ReadClock(e) /\ Goto(e, "limit")
     \/ limit = 0 /\ Goto(e, "handler") /\ UNCHANGED rateVars
  /\ UNCHANGED <<setup, routerVars, list, pos, cur, stopped, owed, tested, stateVars>>

Refused == [err |-> "other", stop |-> TRUE]

CountIn(e) ==
  /\ phase[e] = "limit"
  /\ \/ Count(e, LimitKey[e], TRUE) /\ Leave(e, Refused)
     \/ /\ Count(e, LimitKey[e], FALSE) /\ Goto(e, "handler")
        /\ UNCHANGED <<list, pos, cur, stopped, owed, tested>>
  /\ UNCHANGED <<setup, routerVars, stateVars>>

In(e, kind) == phase[e] = "handler" /\ Kind[cur[e]] = kind

Plain(e) ==
  /\ In(e, "plain") \/ In(e, "command")
  /\ \E outcome \in Outcomes : Leave(e, outcome)
  /\ UNCHANGED stateVars

\* Dialogue.handle: without ErrPass a turn always stops the event.
TurnEnds(e) ==
  \E outcome \in Outcomes :
    Leave(e, IF outcome.err = "pass" THEN outcome
             ELSE [outcome EXCEPT !.stop = TRUE])

TakeTurn(e) ==
  /\ In(e, "dialogue")
  /\ \/ matched[e] = Failed /\ Leave(e, Refused) /\ UNCHANGED stateVars
     \/ /\ matched[e] # Failed
        /\ TurnEnds(e)
        /\ \/ Advance(e, Place(e), now)
           \/ EndDialogue(e, Place(e))
           \/ UNCHANGED stateVars
           \/ StoreFails

Unsaved == [err |-> "other", stop |-> FALSE]

BeginOne(e) ==
  /\ In(e, "begin")
  /\ \/ /\ BeginDialogue(Place(e), now)
        /\ \E outcome \in Outcomes : outcome.stop /\ Leave(e, outcome)
     \/ StoreFails /\ Leave(e, Unsaved)
     \/ Place(e) = NoPlace /\ Leave(e, Unsaved) /\ UNCHANGED stateVars

Load(e) ==
  /\ In(e, "counter")
  /\ \/ /\ LoadValue(e, Place(e)) /\ Goto(e, "update")
        /\ UNCHANGED <<list, pos, cur, stopped, owed, tested>>
     \/ StoreFails /\ Leave(e, Unsaved)
     \/ Place(e) = NoPlace /\ Leave(e, Unsaved) /\ UNCHANGED stateVars

Update(e) ==
  /\ phase[e] = "update"
  /\ \/ /\ SaveValue(e, Place(e))
        /\ \E outcome \in Outcomes : Leave(e, outcome)
     \/ StoreFails /\ Leave(e, Unsaved)

Handler(e) ==
  /\ Plain(e) \/ TakeTurn(e) \/ BeginOne(e) \/ Load(e) \/ Update(e)
  /\ UNCHANGED <<setup, routerVars, rateVars>>

Dispatch(e) ==
  Begin(e) \/ Snapshot(e) \/ Try(e) \/ Finish(e) \/ Chain(e) \/ CountIn(e)
  \/ Handler(e)

Next == Install \/ TimePasses \/ \E e \in Events : Dispatch(e)

Spec == Init /\ [][Next]_vars

-----------------------------------------------------------------------------
TypeOK ==
  /\ setup \in Setups
  /\ phase \in [Events -> {"new", "snapshot", "sort", "routes", "matched",
                           "limit", "handler", "update", "done"}]
  /\ RoutingTypeOK /\ RateTypeOK(Events) /\ DialoguesTypeOK(Events)

\* What the documentation asks for where state must not be lost: events of one
\* conversation one after the other, and state that belongs to the conversation.
Guarded == setup.serial /\ setup.scope = "conversation"

\* A record of a dialogue is replaced or deleted by at most one of the turns that
\* have matched it: no answer of a user is taken for two steps, and no two
\* answers for one (dialogue.go:196-251), whatever fails or expires meanwhile.
AdvancedOnce ==
  Guarded => \A p, q \in advanced : p[2] = q[2] => p = q

\* State.Update loses no update (state.go:115-133).
UpdatesKept == Guarded => value = updates

\* A command's handler is called when a name of it was typed, or any if it has none,
\* and gets the words that were typed: what was quoted or escaped comes as it was
\* meant (rules.go:311).
CommandsAsTyped ==
  \A e \in Events : \A r \in tested[e] : Kind[r] = "command" =>
    /\ Calls(Names[r], Text(setup.typed))
         <=> Names[r] = {} \/ setup.typed.name \in Names[r]
    /\ Argv(Text(setup.typed)) = setup.typed.words
=============================================================================
