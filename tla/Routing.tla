------------------------------ MODULE Routing -------------------------------
(***************************************************************************)
(* The routes of an App (core/route.go) and the loop of App.dispatch over  *)
(* them (core/app.go).  One goroutine registers routes, before the first   *)
(* event or beside the dispatch of events; every event is dispatched by a  *)
(* goroutine of its own.  What a handler does is left to Bot, which        *)
(* composes this module with rate limits and dialogues.                    *)
(***************************************************************************)
EXTENDS Integers, Sequences, FiniteSets

CONSTANTS
  Routes, Events,
  Rank,        \* Rank[r]: the argument of r.Priority
  NoRoute

ASSUME RoutingAssumption == Rank \in [Routes -> Int] /\ NoRoute \notin Routes

VARIABLES
  setup,       \* what the bot is made of and which events reach it
  \* root Router; the position in routes is order, 0 before On
  order, priority, ranked, handler, dirty, sorted,
  \* one per event: where its dispatch is, the snapshot it goes through ...
  phase, list, pos, cur, stopped,
  \* ... and, to state properties, what it must see and what it has tried
  owed, tested

routerVars == <<order, priority, ranked, handler, dirty, sorted>>
eventVars == <<phase, list, pos, cur, stopped, owed, tested>>

RangeOf(s) == {s[i] : i \in DOMAIN s}

RoutingInit ==
  /\ order = [r \in Routes |-> 0]
  /\ priority = [r \in Routes |-> 0]
  /\ ranked = {}
  /\ handler = [r \in Routes |-> "nil"]
  /\ dirty = FALSE /\ sorted = <<>>
  /\ phase = [e \in Events |-> "new"]
  /\ list = [e \in Events |-> <<>>]
  /\ pos = [e \in Events |-> 1]
  /\ cur = [e \in Events |-> NoRoute]
  /\ stopped = [e \in Events |-> FALSE]
  /\ owed = [e \in Events |-> {}]
  /\ tested = [e \in Events |-> {}]

-----------------------------------------------------------------------------
\* Registration: On, then Priority and Handle in either order.  Handle writes
\* without the lock, so the others need not see it ("set") before its goroutine
\* has next used the lock ("visible").

Registered == {r \in Routes : order[r] > 0}
Complete(r) == r \in ranked /\ handler[r] # "nil"

Publish == handler' = [r \in Routes |->
                         IF handler[r] = "set" THEN "visible" ELSE handler[r]]

\* The routes of plugins in the order of their ids, or as a program lists them.
Program == setup.before \o setup.beside

\* A route for which nothing has been called yet after those before it.
Turn(r) ==
  \E i \in DOMAIN Program :
    Program[i] = r /\ \A j \in 1..(i - 1) : Complete(Program[j])

On(r) ==
  /\ order[r] = 0 /\ Turn(r)
  /\ order' = [order EXCEPT ![r] = Cardinality(Registered) + 1]
  /\ dirty' = TRUE
  /\ Publish
  /\ UNCHANGED <<priority, ranked, sorted>>

\* Faulty: the snapshot stays as it is.
SetPriorityQuietly(r) ==
  /\ order[r] > 0 /\ r \notin ranked
  /\ priority' = [priority EXCEPT ![r] = Rank[r]]
  /\ ranked' = ranked \cup {r}
  /\ Publish
  /\ UNCHANGED <<order, dirty, sorted>>

SetPriority(r) ==
  /\ order[r] > 0 /\ r \notin ranked
  /\ priority' = [priority EXCEPT ![r] = Rank[r]]
  /\ ranked' = ranked \cup {r}
  /\ dirty' = TRUE
  /\ Publish
  /\ UNCHANGED <<order, sorted>>

Handle(r) ==
  /\ order[r] > 0 /\ handler[r] = "nil"
  /\ handler' = [handler EXCEPT ![r] = "set"]
  /\ UNCHANGED <<order, priority, ranked, dirty, sorted>>

Register(r) == On(r) \/ SetPriority(r) \/ Handle(r)

\* What was registered before Run is visible to the goroutines Run starts.
Installed == \A i \in DOMAIN setup.before : Complete(setup.before[i])
Visible(r) == handler[r] = "visible" \/ r \in RangeOf(setup.before)

-----------------------------------------------------------------------------
\* Router.snapshot.

Precedes(r, q) ==
  \/ priority[r] > priority[q]
  \/ priority[r] = priority[q] /\ order[r] < order[q]

Arrangements ==
  {s \in [1..Cardinality(Registered) -> Registered] :
     /\ \A i, j \in DOMAIN s : i < j => Precedes(s[i], s[j])
     /\ \A r \in Registered : \E i \in DOMAIN s : s[i] = r}

Goto(e, p) == phase' = [phase EXCEPT ![e] = p]

Copy(e, routes) ==
  /\ list' = [list EXCEPT ![e] = routes]
  /\ owed' = [owed EXCEPT ![e] =
                {r \in Registered : Complete(r) /\ Visible(r)}]
  /\ Goto(e, "routes")
  /\ UNCHANGED <<pos, cur, stopped, tested>>

\* Under the read lock: the sorted routes are still good, or they are not and
\* the lock is given back.
CopySorted(e) ==
  /\ phase[e] = "snapshot" /\ ~dirty
  /\ Copy(e, sorted)
  /\ UNCHANGED routerVars

FindDirty(e) ==
  /\ phase[e] = "snapshot" /\ dirty
  /\ Goto(e, "sort")
  /\ UNCHANGED <<routerVars, list, pos, cur, stopped, owed, tested>>

\* Under the write lock, after another look.
Sort(e) ==
  /\ phase[e] = "sort"
  /\ IF dirty THEN sorted' \in Arrangements ELSE UNCHANGED sorted
  /\ dirty' = FALSE
  /\ Copy(e, sorted')
  /\ UNCHANGED <<order, priority, ranked, handler>>

-----------------------------------------------------------------------------
\* The loop of dispatch.

BeginDispatch(e) ==
  /\ phase[e] = "new" /\ Installed
  /\ Goto(e, "snapshot")
  /\ UNCHANGED <<list, pos, cur, stopped, owed, tested>>

Trying(e, r) ==
  /\ phase[e] = "routes" /\ pos[e] \in DOMAIN list[e]
  /\ r = list[e][pos[e]]

\* No handler yet, or none that this goroutine must see.
Skip(e, r) ==
  /\ Trying(e, r) /\ r \notin owed[e]
  /\ pos' = [pos EXCEPT ![e] = @ + 1]
  /\ UNCHANGED <<phase, list, cur, stopped, owed, tested>>

\* The route's rules are evaluated; clearMatch, then applyMatch.
Test(e, r, matches) ==
  /\ Trying(e, r) /\ handler[r] # "nil"
  /\ tested' = [tested EXCEPT ![e] = @ \cup {r}]
  /\ pos' = [pos EXCEPT ![e] = @ + 1]
  /\ IF matches
     THEN /\ cur' = [cur EXCEPT ![e] = r]
          /\ stopped' = [stopped EXCEPT ![e] = FALSE]
          /\ Goto(e, "matched")
     ELSE UNCHANGED <<phase, cur, stopped>>
  /\ UNCHANGED <<list, owed>>

\* What a chain may end with: its error and whether it has called Stop.  A panic
\* is a stop and an error, as Recover is the outermost middleware.
Outcomes == [err : {"nil", "pass", "stop", "other"}, stop : BOOLEAN]

Ends(outcome) ==
  \/ outcome.err = "stop"
  \/ outcome.err # "pass" /\ outcome.stop

Leave(e, outcome) ==
  /\ cur' = [cur EXCEPT ![e] = NoRoute]
  /\ stopped' = [stopped EXCEPT ![e] = Ends(outcome)]
  /\ Goto(e, IF Ends(outcome) THEN "done" ELSE "routes")
  /\ UNCHANGED <<list, pos, owed, tested>>

Exhausted(e) ==
  /\ phase[e] = "routes" /\ pos[e] \notin DOMAIN list[e]
  /\ stopped' = [stopped EXCEPT ![e] = FALSE]
  /\ Goto(e, "done")
  /\ UNCHANGED <<list, pos, cur, owed, tested>>

-----------------------------------------------------------------------------
RoutingTypeOK ==
  /\ order \in [Routes -> Nat] /\ priority \in [Routes -> Int]
  /\ ranked \subseteq Routes
  /\ handler \in [Routes -> {"nil", "set", "visible"}]
  /\ dirty \in BOOLEAN /\ sorted \in Seq(Routes)
  /\ list \in [Events -> Seq(Routes)] /\ pos \in [Events -> Nat \ {0}]
  /\ cur \in [Events -> Routes \cup {NoRoute}]
  /\ stopped \in [Events -> BOOLEAN]
  /\ owed \in [Events -> SUBSET Routes] /\ tested \in [Events -> SUBSET Routes]

\* A route that was registered, ranked and given its handler before an event's
\* snapshot is tried for the event, after every such route of higher priority or
\* of the same and registered earlier, unless one of those has stopped the event
\* (Route.Priority, route.go:177); registration may go on meanwhile.
EveryRouteInTurn ==
  \A e \in Events :
    /\ \A r \in owed[e] \cap tested[e] : \A q \in owed[e] :
         Precedes(q, r) => q \in tested[e]
    /\ phase[e] = "done" /\ ~stopped[e] => owed[e] \subseteq tested[e]
=============================================================================
