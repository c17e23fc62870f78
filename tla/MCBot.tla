------------------------------- MODULE MCBot --------------------------------
\* Five kinds of setups at once: routes registered beside the dispatch of two events,
\* limiters under a moving clock, dialogues with a counter, a counter alone, and
\* commands of at most two words of at most two characters.
EXTENDS Bot, TLC

CONSTANTS
  plain1, plain2, plain3, ask, begin, count, command,   \* routes
  e1, e2, e3, e4, alice, bob, club,                     \* events, places
  lx, ly, slash, dq, sq                                 \* characters

MCRank ==
  [r \in Routes |-> IF r \in {plain2, plain3} THEN 1 ELSE IF r = ask THEN 2 ELSE 0]
MCKind ==
  (ask :> "dialogue") @@ (begin :> "begin") @@ (count :> "counter")
  @@ (command :> "command") @@ [r \in Routes |-> "plain"]
MCNames == [r \in Routes |-> IF r = command THEN {<<lx>>} ELSE {}]

\* Two conversations of one user, one of them in a group.
MCConv == (e1 :> alice) @@ (e2 :> alice) @@ (e3 :> bob) @@ (e4 :> alice)
MCUser == [e \in Events |-> alice]
MCLimitKey == [e \in Events |-> alice]
MCGroup == (e1 :> club) @@ (e2 :> club) @@ (e3 :> NoPlace) @@ (e4 :> NoPlace)

Basic ==
  [before |-> <<>>, beside |-> <<>>, events |-> Events, serial |-> FALSE,
   begun |-> NoPlace, scope |-> "conversation", limit |-> 0, later |-> 0,
   ends |-> 0,
   typed |-> [prefix |-> slash, name |-> <<lx>>, words |-> <<>>, style |-> Bare]]

Registering ==
  {[Basic EXCEPT !.before = <<plain1>>, !.beside = <<plain2, plain3>>,
                 !.events = {e1, e2}, !.serial = s,
                 !.later = IF s THEN 0 ELSE 1] :
     s \in BOOLEAN}

\* Three events at once and a limit of 1; a limit of 2 and four events, of which
\* three belong to one conversation.
Limited ==
  {[Basic EXCEPT !.before = <<command>>, !.events = {e1, e2, e3}, !.limit = 1,
                 !.ends = MaxNow],
   [Basic EXCEPT !.before = <<command>>, !.serial = TRUE, !.limit = 2, !.ends = 2]}

Talk(begun, events, serial, scope) ==
  [Basic EXCEPT !.before = <<ask, begin, count>>, !.begun = begun,
                !.events = events, !.serial = serial, !.scope = scope, !.ends = 2]

Talking ==
  {Talk(alice, {e1, e2}, TRUE, "conversation"),
   Talk(NoPlace, {e1, e3}, TRUE, "user"),
   Talk(club, {e1, e3}, FALSE, "group")}

Counting ==
  {[Basic EXCEPT !.before = <<count>>, !.events = {e1, e2, e3}, !.serial = TRUE]}

WordsOf(len) == BoundedSeq({ly, Blank, Backslash} \cup Quotes, len)

TypedWords ==
  {<<>>} \cup {<<w>> : w \in WordsOf(2)}
  \cup {<<v, w>> : v \in WordsOf(1), w \in WordsOf(2)}

Commanding ==
  {[Basic EXCEPT !.before = <<command>>, !.events = {e1}, !.typed = t] :
     t \in {u \in [prefix : Marks, name : {<<lx>>}, words : TypedWords,
                   style : Quotes \cup {Bare}] : Typable(u.words, u.style)}
           \cup [prefix : Marks, name : {<<ly>>}, words : {<<>>}, style : {Bare}]}

MCSetups ==
  Registering \cup Limited \cup Talking \cup Counting \cup Commanding
=============================================================================
