------------------------------ MODULE Bot_proofs ------------------------------
(***************************************************************************)
(* Proofs about Bot for any routes, events, conversations, limits and      *)
(* setups: the limiter's bound, what serial dispatch keeps, the turn of    *)
(* routes, and what commands are read as.                                  *)
(***************************************************************************)
EXTENDS Bot, FiniteSetTheorems, SequenceTheorems, TLAPS

-----------------------------------------------------------------------------
\* Numbers.  Induction is by a least number that fails, for sets in place of
\* predicates.

Founded == INSTANCE WellFoundedInduction

\* A set of numbers has a least one.
LEMMA LeastNumber ==
  ASSUME NEW S, S \subseteq Nat, S # {}
  PROVE  \E x \in S : \A y \in S : x <= y
<1> DEFINE R == {ss \in Nat \X Nat : ss[1] < ss[2]}
<1>1. Founded!IsWellFoundedOn(R, Nat)
  BY Founded!NatLessThanWellFounded DEF Founded!OpToRel
<1>2. \A x, y \in Nat : <<y, x>> \in R <=> y < x
  OBVIOUS
<1> HIDE DEF R
<1>3. PICK x \in S : \A y \in S : ~(<<y, x>> \in R)
  BY <1>1, Founded!WFMin
<1>4. \A y \in S : y \in Nat
  OBVIOUS
<1>5. \A y \in S : ~(y < x)
  BY <1>2, <1>3, <1>4
<1>6. \A y \in S : x <= y
  BY <1>4, <1>5
<1> QED BY <1>6

\* So a set of numbers that holds 0 and, below n, with a number the next one,
\* holds all up to n.
LEMMA UpTo ==
  ASSUME NEW n \in Nat, NEW S, 0 \in S, \A i \in 0..(n - 1) : i \in S => i + 1 \in S
  PROVE  \A i \in 0..n : i \in S
<1> DEFINE Out == {i \in 0..n : i \notin S}
<1> SUFFICES ASSUME Out # {} PROVE FALSE
  OBVIOUS
<1>0. Out \subseteq Nat
  OBVIOUS
<1>1. PICK x \in Out : \A y \in Out : x <= y
  <2> HIDE DEF Out
  <2> QED BY <1>0, LeastNumber
<1>2. x \in 0..n /\ x # 0 /\ x - 1 \notin Out
  BY <1>1
<1> QED BY <1>2

\* A number below m * w lies in one of the m blocks of w numbers from 0 on.
LEMMA InABlock ==
  ASSUME NEW x \in Nat, NEW w \in Nat \ {0}, NEW m \in Nat, x < (m + 1) * w
  PROVE  \E j \in 0..m : j * w <= x /\ x < (j + 1) * w
<1> SUFFICES ASSUME \A j \in 0..m : j * w <= x => ~(x < (j + 1) * w)
             PROVE  FALSE
  OBVIOUS
<1> DEFINE S == {j \in 0..(m + 1) : j * w <= x}
<1>1. 0 \in S
  BY SMT
<1>2. ASSUME NEW j \in 0..m, j \in S
      PROVE  j + 1 \in S
  <2>1. (j + 1) * w \in Int
    OBVIOUS
  <2>2. j * w <= x /\ ~(x < (j + 1) * w)
    BY <1>2
  <2> QED
    BY <2>1, <2>2
<1>3. m + 1 \in S
  <2> HIDE DEF S
  <2>1. m + 1 \in Nat /\ 0..((m + 1) - 1) = 0..m /\ m + 1 \in 0..(m + 1)
    OBVIOUS
  <2>2. \A i \in 0..(m + 1) : i \in S
    BY <1>1, <1>2, <2>1, UpTo
  <2> QED
    BY <2>1, <2>2
<1>4. (m + 1) * w \in Int /\ (m + 1) * w <= x
  BY <1>3
<1> QED
  BY <1>4

-----------------------------------------------------------------------------
\* The limiter.

\* Where a bucket's start lies, counted from n + 1 windows before t, if it has let
\* something through in the window from t on that was counted at most n late.
LEMMA StartWithin ==
  ASSUME RateTypeOK(Events), RateInv, NEW k \in LimitKeys, NEW t \in Nat, NEW n \in Nat,
         NEW p \in Within(k, t, n)
  PROVE  /\ p \in passes /\ p.key = k /\ p.start \in Nat /\ p.no \in 1..limit
         /\ p.start - t + n * Window + Window \in Nat
         /\ p.start - t + n * Window + Window < (n + 1 + 1) * Window
         /\ p.no = 1 => Window <= p.start - t + n * Window + Window
<1>0. Window \in Nat \ {0} /\ n * Window \in Nat
  BY RateAssumption, SMT
<1>1. /\ p \in passes /\ p.key = k /\ t <= p.passed /\ p.passed < t + Window
      /\ p.passed - p.at <= n * Window
  BY DEF Within
<1>2. p.start \in Nat /\ p.at \in Nat /\ p.passed \in Nat
  BY <1>1 DEF RateTypeOK, Passes
<1>3. /\ p.start <= p.passed /\ p.at < p.start + Window
      /\ p.no \in 1..limit /\ (p.no = 1 => p.at = p.start)
  BY <1>1 DEF RateInv
<1>4. (n + 1 + 1) * Window = n * Window + Window + Window
  BY <1>0, SMT
<1> DEFINE a == n * Window
           b == (n + 1 + 1) * Window
<1>5. a \in Nat /\ b = a + Window + Window /\ p.passed - p.at <= a
  BY <1>0, <1>1, <1>4
<1> HIDE DEF a, b
<1>6. /\ p.start - t + a + Window \in Nat
      /\ p.start - t + a + Window < b
      /\ p.no = 1 => Window <= p.start - t + a + Window
  BY <1>0, <1>1, <1>2, <1>3, <1>5
<1> QED
  BY <1>1, <1>2, <1>3, <1>6 DEF a, b

\* Those n + 2 windows hold a bucket each at most, each of them lets through at most
\* limit events, and the first of the earliest came too soon to be counted late.
LEMMA BoundFromBuckets ==
  ASSUME RateTypeOK(Events), RateInv
  PROVE  RateBounded
<1> SUFFICES ASSUME limit > 0, NEW k \in LimitKeys, NEW t \in 0..MaxNow, NEW n \in 0..MaxNow
             PROVE  Cardinality(Within(k, t, n)) <= (n + 2) * limit - 1
  BY DEF RateBounded
<1> DEFINE x(p) == p.start - t + n * Window + Window
           Holds(p, j) == j * Window <= x(p) /\ x(p) < (j + 1) * Window
           block(p) == CHOOSE j \in 0..(n + 1) : Holds(p, j)
           f == [p \in Within(k, t, n) |-> <<block(p), p.no>>]
           T == ((0..(n + 1)) \X (1..limit)) \ {<<0, 1>>}
<1>0. /\ limit \in Nat \ {0} /\ Window \in Nat \ {0} /\ MaxNow \in Nat
      /\ t \in Nat /\ n \in Nat
  BY RateAssumption DEF RateTypeOK
<1>1. ASSUME NEW p \in Within(k, t, n)
      PROVE  /\ p \in passes /\ p.key = k /\ p.start \in Nat /\ p.no \in 1..limit
             /\ x(p) \in Nat /\ x(p) < (n + 1 + 1) * Window
             /\ p.no = 1 => Window <= x(p)
  BY <1>0, StartWithin
<1>2. ASSUME NEW p \in Within(k, t, n)
      PROVE  block(p) \in 0..(n + 1) /\ Holds(p, block(p))
  <2> DEFINE y == x(p)
             m == n + 1
  <2>1. y \in Nat /\ m \in Nat /\ y < (m + 1) * Window
    BY <1>0, <1>1
  <2> HIDE DEF x, y, m
  <2>2. \E j \in 0..m : j * Window <= y /\ y < (j + 1) * Window
    BY <1>0, <2>1, InABlock
  <2> QED
    BY <2>2 DEF y, m
<1>3. \A p \in Within(k, t, n) : <<block(p), p.no>> \in T
  <2> SUFFICES ASSUME NEW p \in Within(k, t, n) PROVE <<block(p), p.no>> \in T
    OBVIOUS
  <2>1. p.no = 1 => block(p) # 0
    <3> SUFFICES ASSUME p.no = 1, block(p) = 0 PROVE FALSE
      OBVIOUS
    <3>1. x(p) < (0 + 1) * Window
      BY <1>2
    <3>2. (0 + 1) * Window = Window
      BY <1>0
    <3> HIDE DEF x
    <3> QED
      BY <1>0, <1>1, <3>1, <3>2
  <2> HIDE DEF block
  <2> QED
    BY <1>1, <1>2, <2>1
<1>4. ASSUME NEW p \in Within(k, t, n), NEW q \in Within(k, t, n),
             block(p) = block(q), p.no = q.no
      PROVE  p = q
  <2>1. PICK j \in 0..(n + 1) : Holds(p, j) /\ Holds(q, j)
    BY <1>2, <1>4
  <2>2. (j + 1) * Window = j * Window + Window /\ j * Window \in Nat
    BY <1>0, SMT
  <2>3. x(p) < x(q) + Window /\ x(q) < x(p) + Window
    <3> HIDE DEF x
    <3> QED
      BY <1>0, <1>1, <2>1, <2>2
  <2>4. p.start < q.start + Window /\ q.start < p.start + Window
    <3> DEFINE a == n * Window
    <3>1. a \in Nat /\ p.start \in Nat /\ q.start \in Nat
      BY <1>0, <1>1, SMT
    <3>2. /\ p.start - t + a + Window < (q.start - t + a + Window) + Window
          /\ q.start - t + a + Window < (p.start - t + a + Window) + Window
      BY <2>3
    <3> HIDE DEF a
    <3> QED
      BY <1>0, <3>1, <3>2
  <2>5. p.start = q.start
    <3>1. \/ p.start = q.start \/ p.start + Window <= q.start
          \/ q.start + Window <= p.start
      BY <1>1 DEF RateInv
    <3> QED
      BY <1>0, <1>1, <2>4, <3>1
  <2> QED
    BY <1>1, <1>4, <2>5 DEF RateInv
<1> HIDE DEF block, T
<1>5. f \in Injection(Within(k, t, n), T)
  <2>1. f \in [Within(k, t, n) -> T]
    BY <1>3
  <2>2. ASSUME NEW p \in Within(k, t, n), NEW q \in Within(k, t, n), f[p] = f[q]
        PROVE  p = q
    BY <1>4, <2>2
  <2> QED
    BY <2>1, <2>2 DEF Injection, IsInjective
<1>6. IsFiniteSet(T) /\ Cardinality(T) = (n + 2) * limit - 1
  <2>1. /\ IsFiniteSet(0..(n + 1)) /\ Cardinality(0..(n + 1)) = n + 2
        /\ IsFiniteSet(1..limit) /\ Cardinality(1..limit) = limit
    BY <1>0, FS_Interval
  <2>2. /\ IsFiniteSet((0..(n + 1)) \X (1..limit))
        /\ Cardinality((0..(n + 1)) \X (1..limit)) = (n + 2) * limit
    BY <2>1, FS_Product
  <2>3. <<0, 1>> \in (0..(n + 1)) \X (1..limit)
    BY <1>0
  <2> DEFINE places == (0..(n + 1)) \X (1..limit)
             many == (n + 2) * limit
  <2>4. IsFiniteSet(places) /\ <<0, 1>> \in places /\ Cardinality(places) = many
    BY <2>2, <2>3
  <2> HIDE DEF places, many
  <2>5. IsFiniteSet(places \ {<<0, 1>>}) /\ Cardinality(places \ {<<0, 1>>}) = many - 1
    BY <2>4, FS_RemoveElement
  <2> QED
    BY <2>5 DEF T, places, many
<1> QED
  BY <1>5, <1>6, FS_Injection

LimiterInv == RateTypeOK(Events) /\ RateInv

\* Counting an event keeps the buckets a window apart.
LEMMA CountKeeps ==
  ASSUME LimiterInv, NEW e \in Events, NEW k \in LimitKeys, NEW refused \in BOOLEAN,
         Count(e, k, refused)
  PROVE  LimiterInv'
<1> DEFINE b == Counted(bucket[k], reading[e])
           new == [key |-> k, start |-> b.start, at |-> reading[e], passed |-> now,
                   no |-> b.count, by |-> e]
<1>0. Window \in Nat \ {0} /\ Never \notin Int
  BY RateAssumption
<1>1. /\ now \in Nat /\ limit \in Nat /\ reading \in [Events -> Nat]
      /\ bucket \in [LimitKeys -> [start : Nat \cup {Never}, count : Nat]]
      /\ passes \subseteq Passes(Events)
      /\ DOMAIN reading = Events /\ \A p \in Events : reading[p] <= now
      /\ \A j \in LimitKeys :
           bucket[j].start # Never => bucket[j].start <= now /\ bucket[j].count > 0
  BY DEF LimiterInv, RateTypeOK, RateInv
<1>2. /\ b \in [start : Nat, count : Nat] /\ b.count > 0 /\ b.start <= now
      /\ \/ /\ b.start = bucket[k].start /\ b.count = bucket[k].count + 1
            /\ b.count > 1
         \/ /\ b.count = 1 /\ b.start = reading[e]
            /\ bucket[k].start # Never => bucket[k].start + Window <= b.start
      /\ reading[e] < b.start + Window
  <2>1. CASE Over(bucket[k], reading[e])
    BY <1>0, <1>1, <2>1 DEF Counted, Over
  <2>2. CASE ~Over(bucket[k], reading[e])
    BY <1>0, <1>1, <2>2 DEF Counted, Over
  <2> QED
    BY <2>1, <2>2
<1>3. /\ bucket' = [bucket EXCEPT ![k] = b]
      /\ passes' = IF refused THEN passes ELSE passes \cup {new}
      /\ refused = (b.count > limit)
      /\ reading' = [reading EXCEPT ![e] = 0]
      /\ UNCHANGED <<now, limit>>
  BY DEF Count
<1> HIDE DEF b
<1>3a. ~refused => b.count \in 1..limit
  <2>1. b.count \in Nat /\ b.count >= 1
    BY <1>1, <1>2
  <2>2. ~refused => ~(b.count > limit)
    BY <1>3
  <2> QED
    BY <1>1, <2>1, <2>2
<1>4. new \in Passes(Events)
  BY <1>1, <1>2 DEF Passes
<1>5. RateTypeOK(Events)'
  BY <1>1, <1>2, <1>3, <1>4 DEF RateTypeOK
<1>6. bucket'[k] = b /\ \A j \in LimitKeys : j # k => bucket'[j] = bucket[j]
  BY <1>1, <1>3
<1>7. \A p \in passes :
        /\ p.key \in LimitKeys /\ p.start \in Nat /\ p.at \in Nat /\ p.passed \in Nat
        /\ p.start <= p.passed /\ p.at <= p.passed /\ p.passed <= now
        /\ p.at < p.start + Window
        /\ p.no \in 1..limit /\ (p.no = 1 => p.at = p.start)
        /\ bucket[p.key].start \in Nat
        /\ \/ p.start = bucket[p.key].start /\ p.no <= bucket[p.key].count
           \/ p.start + Window <= bucket[p.key].start
  BY <1>1 DEF LimiterInv, RateInv, Passes
\* An earlier event of k's is in the same bucket and counted before, or in one
\* that ended before b's began.
<1>8. \A p \in passes : p.key = k =>
        \/ p.start = b.start /\ p.no < b.count
        \/ p.start + Window <= b.start
  BY <1>0, <1>1, <1>2, <1>7
<1>9. RateInv'
  <2>1. \A p \in DOMAIN reading' : reading'[p] <= now'
    BY <1>1, <1>3
  <2>2. \A j \in LimitKeys :
          bucket'[j].start # Never => bucket'[j].start <= now' /\ bucket'[j].count > 0
    BY <1>1, <1>2, <1>3, <1>6
  <2>3. \A p \in passes' :
          /\ p.start <= p.passed /\ p.at <= p.passed /\ p.passed <= now'
          /\ p.at < p.start + Window
          /\ p.no \in 1..limit' /\ (p.no = 1 => p.at = p.start)
    <3>1. ~refused => /\ new.start <= new.passed /\ new.at <= new.passed
                      /\ new.passed <= now
                      /\ new.at < new.start + Window
                      /\ new.no \in 1..limit /\ (new.no = 1 => new.at = new.start)
      BY <1>0, <1>1, <1>2, <1>3a
    <3> HIDE DEF new
    <3> QED
      BY <1>3, <1>7, <3>1
  <2>4. \A p \in passes' :
          /\ bucket'[p.key].start # Never
          /\ \/ p.start = bucket'[p.key].start /\ p.no <= bucket'[p.key].count
             \/ p.start + Window <= bucket'[p.key].start
    <3>1. ASSUME NEW p \in passes
          PROVE  /\ bucket'[p.key].start # Never
                 /\ \/ p.start = bucket'[p.key].start /\ p.no <= bucket'[p.key].count
                    \/ p.start + Window <= bucket'[p.key].start
      BY <1>0, <1>2, <1>6, <1>7, <1>8
    <3>2. ~refused => /\ bucket'[new.key].start # Never
                      /\ new.start = bucket'[new.key].start
                      /\ new.no <= bucket'[new.key].count
      BY <1>0, <1>2, <1>3, <1>6
    <3> HIDE DEF new
    <3> QED
      BY <1>3, <3>1, <3>2
  <2>5. \A p, q \in passes' :
          p.key = q.key => \/ p.start = q.start
                           \/ p.start + Window <= q.start
                           \/ q.start + Window <= p.start
    BY <1>3, <1>8 DEF LimiterInv, RateInv
  <2>6. \A p, q \in passes' :
          p.key = q.key /\ p.start = q.start /\ p.no = q.no => p = q
    BY <1>0, <1>2, <1>3, <1>7, <1>8 DEF LimiterInv, RateInv
  <2> QED
    BY <2>1, <2>2, <2>3, <2>4, <2>5, <2>6 DEF RateInv
<1> QED
  BY <1>5, <1>9 DEF LimiterInv

\* Nothing else counts.
LEMMA LimiterStep ==
  ASSUME setup \in Setups, LimiterInv, [Next]_vars
  PROVE  LimiterInv'
<1>1. CASE UNCHANGED rateVars
  BY <1>1 DEF LimiterInv, RateTypeOK, RateInv, rateVars
<1>2. CASE \E e \in Events : CountIn(e)
  BY <1>2, CountKeeps, BotAssumption DEF CountIn
<1>3. ASSUME NEW e \in Events, ReadClock(e)
      PROVE  LimiterInv'
  BY <1>3 DEF ReadClock, LimiterInv, RateTypeOK, RateInv
<1>4. ASSUME NEW most \in Nat, StartLimiting(most)
      PROVE  LimiterInv'
  <2>1. passes = {}
    BY <1>4 DEF StartLimiting, LimiterInv, RateInv
  <2> QED
    BY <1>4, <2>1 DEF StartLimiting, LimiterInv, RateTypeOK, RateInv
<1>4a. CASE Tick
  <2>1. now \in Nat /\ now' = now + 1 /\ reading \in [Events -> Nat]
    BY <1>4a DEF Tick, LimiterInv, RateTypeOK
  <2>2. RateTypeOK(Events)'
    BY <1>4a, <2>1 DEF Tick, LimiterInv, RateTypeOK, Passes
  <2>3. \A i \in Nat : i <= now => i <= now'
    BY <2>1
  <2>4. \A k \in LimitKeys : bucket[k].start # Never => bucket[k].start \in Nat
    BY DEF LimiterInv, RateTypeOK
  <2>5. \A p \in passes : p.passed \in Nat
    BY DEF LimiterInv, RateTypeOK, Passes
  <2> QED
    BY <1>4a, <2>1, <2>2, <2>3, <2>4, <2>5 DEF Tick, LimiterInv, RateInv
<1>5. Next \/ UNCHANGED rateVars
  BY DEF vars
<1>6. ASSUME NEW e \in Events, Dispatch(e)
      PROVE  LimiterInv'
  BY <1>1, <1>2, <1>3, <1>6 DEF Dispatch, Begin, Snapshot, Try, Finish, Chain, Handler
<1>7. CASE Install
  <2>1. ASSUME setup.later > 0, StartLimiting(setup.later)
        PROVE  LimiterInv'
    <3>1. setup.later \in Nat
      BY BotAssumption
    <3> QED
      BY <1>4, <2>1, <3>1
  <2> QED
    BY <1>1, <1>7, <2>1 DEF Install
<1>8. CASE TimePasses
  BY <1>4a, <1>8 DEF TimePasses
<1> QED
  BY <1>1, <1>5, <1>6, <1>7, <1>8 DEF Next

LEMMA LimiterInit ==
  Init => LimiterInv
<1> SUFFICES ASSUME Init
             PROVE  LimiterInv
  OBVIOUS
<1>1. setup.limit \in Nat
  BY BotAssumption DEF Init
<1> QED
  BY <1>1 DEF Init, RateInit, LimiterInv, RateTypeOK, RateInv

LEMMA SetupStays ==
  Spec => [](setup \in Setups)
<1>1. Init => setup \in Setups
  BY DEF Init
<1>2. setup \in Setups /\ [Next]_vars => (setup \in Setups)'
  BY DEF Next, Install, TimePasses, Dispatch, Begin, Snapshot, Try, Finish, Chain,
         CountIn, Handler, vars
<1> QED
  BY <1>1, <1>2, PTL DEF Spec

\* The limiter's invariant.
LEMMA LimiterKept ==
  Spec => []LimiterInv
<1> QED
  BY LimiterInit, LimiterStep, SetupStays, PTL DEF Spec

\* In a stretch of time as long as its window, a limiter lets less than twice its
\* limit through for a key of the events counted as soon as their clock was read,
\* and at most the limit once more for every window that events may be counted
\* late; the time of a passage is when it was counted (middleware.go:140-169).
THEOREM LimiterBounded == Spec => []RateBounded
<1>1. Spec => []LimiterInv
  BY LimiterKept
<1>2. LimiterInv => RateBounded
  BY BoundFromBuckets DEF LimiterInv
<1> QED
  BY <1>1, <1>2, PTL

-----------------------------------------------------------------------------
\* Types.

Phases == {"new", "snapshot", "sort", "routes", "matched", "limit", "handler",
           "update", "done"}

\* TypeOK without the limiter's part, in two halves.
RouterTypes ==
  /\ order \in [Routes -> Nat] /\ priority \in [Routes -> Int]
  /\ ranked \subseteq Routes
  /\ handler \in [Routes -> {"nil", "set", "visible"}]
  /\ dirty \in BOOLEAN /\ sorted \in Seq(Routes)
  /\ IsFiniteSet(Registered)

EventTypes ==
  /\ phase \in [Events -> Phases]
  /\ list \in [Events -> Seq(Routes)] /\ pos \in [Events -> Nat \ {0}]
  /\ cur \in [Events -> Routes \cup {NoRoute}]
  /\ stopped \in [Events -> BOOLEAN]
  /\ owed \in [Events -> SUBSET Routes] /\ tested \in [Events -> SUBSET Routes]

LEMMA RegisterKeepsTypes ==
  ASSUME RouterTypes, NEW r \in Routes, Register(r)
  PROVE  RouterTypes'
<1>1. CASE On(r)
  <2>1. Cardinality(Registered) \in Nat
    BY FS_CardinalityType DEF RouterTypes
  <2>2. PICK n \in Nat : order' = [order EXCEPT ![r] = n + 1]
    BY <1>1, <2>1 DEF On
  <2>3. Registered' = Registered \cup {r}
    BY <2>2 DEF Registered, RouterTypes
  <2>4. IsFiniteSet(Registered')
    BY <2>3, FS_AddElement DEF RouterTypes
  <2> QED
    BY <1>1, <2>2, <2>4 DEF On, Publish, RouterTypes
<1>2. CASE SetPriority(r) \/ Handle(r)
  BY <1>2, RoutingAssumption DEF SetPriority, Handle, Publish, RouterTypes, Registered
<1> QED
  BY <1>1, <1>2 DEF Register

LEMMA SnapshotKeepsTypes ==
  ASSUME RouterTypes, EventTypes, NEW e \in Events,
         CopySorted(e) \/ FindDirty(e) \/ Sort(e)
  PROVE  RouterTypes' /\ EventTypes'
<1>1. ASSUME NEW s \in Seq(Routes), Copy(e, s)
      PROVE  EventTypes'
  BY <1>1 DEF Copy, Goto, EventTypes, Registered, Phases
<1>2. CASE CopySorted(e)
  BY <1>1, <1>2 DEF CopySorted, RouterTypes, Registered, routerVars
<1>3. CASE FindDirty(e)
  BY <1>3 DEF FindDirty, Goto, EventTypes, RouterTypes, Registered, routerVars, Phases
<1>4. CASE Sort(e)
  <2>1. Cardinality(Registered) \in Nat
    BY FS_CardinalityType DEF RouterTypes
  <2>2. sorted' \in Seq(Routes)
    <3>1. CASE dirty
      <4>1. PICK n \in Nat : sorted' \in [1..n -> Registered]
        BY <1>4, <2>1, <3>1 DEF Sort, Arrangements
      <4>2. Registered \subseteq Routes
        BY DEF Registered
      <4> QED
        BY <4>1, <4>2
    <3>2. CASE ~dirty
      BY <1>4, <3>2 DEF Sort, RouterTypes
    <3> QED
      BY <3>1, <3>2
  <2> QED
    BY <1>1, <1>4, <2>2 DEF Sort, RouterTypes, Registered
<1> QED
  BY <1>2, <1>3, <1>4

LEMMA EventStepsKeepTypes ==
  ASSUME EventTypes, NEW e \in Events
  PROVE  /\ BeginDispatch(e) => EventTypes'
         /\ \A r \in Routes : Skip(e, r) => EventTypes'
         /\ \A r \in Routes, matches \in BOOLEAN : Test(e, r, matches) => EventTypes'
         /\ \A outcome \in Outcomes : Leave(e, outcome) => EventTypes'
         /\ Exhausted(e) => EventTypes'
         /\ \A p \in Phases :
              Goto(e, p) /\ UNCHANGED <<list, pos, cur, stopped, owed, tested>>
                => EventTypes'
<1>1. BeginDispatch(e) => EventTypes'
  BY DEF BeginDispatch, Goto, EventTypes, Phases
<1>2. ASSUME NEW r \in Routes, Skip(e, r)
      PROVE  EventTypes'
  BY <1>2 DEF Skip, EventTypes
<1>3. ASSUME NEW r \in Routes, NEW matches \in BOOLEAN, Test(e, r, matches)
      PROVE  EventTypes'
  <2>1. CASE matches
    <3>1. phase' \in [Events -> Phases] /\ cur' \in [Events -> Routes \cup {NoRoute}]
      BY <1>3, <2>1, ZenonT(60) DEF Test, Goto, EventTypes, Phases
    <3>2. stopped' \in [Events -> BOOLEAN]
      BY <1>3, <2>1 DEF Test, EventTypes
    <3> QED
      BY <1>3, <2>1, <3>1, <3>2 DEF Test, EventTypes
  <2>2. CASE ~matches
    BY <1>3, <2>2 DEF Test, EventTypes
  <2> QED
    BY <2>1, <2>2
<1>4. ASSUME NEW outcome \in Outcomes, Leave(e, outcome)
      PROVE  EventTypes'
  <2>1. Ends(outcome) \in BOOLEAN
    BY DEF Ends, Outcomes
  <2> QED
    BY <1>4, <2>1 DEF Leave, Goto, EventTypes, Phases
<1>5. Exhausted(e) => EventTypes'
  BY DEF Exhausted, Goto, EventTypes, Phases
<1>6. ASSUME NEW p \in Phases, Goto(e, p),
             UNCHANGED <<list, pos, cur, stopped, owed, tested>>
      PROVE  EventTypes'
  BY <1>6 DEF Goto, EventTypes
<1> QED
  BY <1>1, <1>2, <1>3, <1>4, <1>5, <1>6

LEMMA StateKeepsTypes ==
  ASSUME DialoguesTypeOK(Events), now \in Nat, NEW e \in Events,
         NEW k \in Places \cup {NoPlace}
  PROVE  /\ LoadRecord(e, k, now) => DialoguesTypeOK(Events)'
         /\ LoadFails(e, k) => DialoguesTypeOK(Events)'
         /\ matched[e] # Failed /\ Advance(e, k, now) => DialoguesTypeOK(Events)'
         /\ matched[e] # Failed /\ EndDialogue(e, k) => DialoguesTypeOK(Events)'
         /\ BeginDialogue(k, now) => DialoguesTypeOK(Events)'
         /\ LoadValue(e, k) => DialoguesTypeOK(Events)'
         /\ SaveValue(e, k) => DialoguesTypeOK(Events)'
         /\ StoreFails => DialoguesTypeOK(Events)'
<1> USE DialogueAssumption DEF DialoguesTypeOK, Failed
<1>1. LoadRecord(e, k, now) => DialoguesTypeOK(Events)'
  BY DEF LoadRecord, Active
<1>2. LoadFails(e, k) => DialoguesTypeOK(Events)'
  BY DEF LoadFails, CallFails
<1>3. ASSUME Save(k, now)
      PROVE  record' \in [Places -> [id : Nat, until : Nat]] /\ ids' \in Nat
  <2>1. PICK new : record' = [record EXCEPT ![k] = new]
                   /\ new = [id |-> ids + 1, until |-> IF TTL = 0 THEN 0 ELSE now + TTL]
    BY <1>3 DEF Save
  <2>2. new \in [id : Nat, until : Nat]
    BY <2>1
  <2>3. record' \in [Places -> [id : Nat, until : Nat]]
    BY <2>1, <2>2
  <2> QED
    BY <1>3, <2>3 DEF Save
<1>4. matched[e] # Failed /\ Advance(e, k, now) => DialoguesTypeOK(Events)'
  BY <1>3 DEF Advance, Save
<1>5. ASSUME matched[e] # Failed, EndDialogue(e, k)
      PROVE  DialoguesTypeOK(Events)'
  <2>1. record' = [record EXCEPT ![k] = NoRecord] /\ NoRecord \in [id : Nat, until : Nat]
    BY <1>5 DEF EndDialogue, NoRecord
  <2>2. record' \in [Places -> [id : Nat, until : Nat]]
    BY <2>1
  <2> QED
    BY <1>5, <2>2 DEF EndDialogue
<1>6. BeginDialogue(k, now) => DialoguesTypeOK(Events)'
  BY <1>3 DEF BeginDialogue, Save
<1>7. LoadValue(e, k) => DialoguesTypeOK(Events)'
  BY DEF LoadValue
<1>8. ASSUME SaveValue(e, k)
      PROVE  DialoguesTypeOK(Events)'
  <2>1. loaded[e] + 1 \in Nat /\ value' = [value EXCEPT ![k] = loaded[e] + 1]
    BY <1>8 DEF SaveValue
  <2>2. value' \in [Places -> Nat]
    BY <2>1
  <2>3. updates' \in [Places -> Nat]
    <3>1. updates' = [j \in Places |-> IF j = k THEN updates[k] + 1 ELSE updates[j]]
      BY <1>8 DEF SaveValue
    <3> QED
      BY <3>1
  <2> QED
    BY <1>8, <2>2, <2>3 DEF SaveValue
<1>9. StoreFails => DialoguesTypeOK(Events)'
  BY DEF StoreFails, CallFails
<1> QED
  BY <1>1, <1>2, <1>4, <1>5, <1>6, <1>7, <1>8, <1>9

TypeInv ==
  /\ setup \in Setups /\ RouterTypes /\ EventTypes /\ DialoguesTypeOK(Events)
  /\ now \in Nat

LEMMA PlaceType ==
  ASSUME setup \in Setups, NEW e \in Events
  PROVE  Place(e) \in Places \cup {NoPlace}
BY BotAssumption DEF Place

LEMMA RateKeepsNow ==
  ASSUME now \in Nat, NEW e \in Events
  PROVE  /\ Tick \/ ReadClock(e) => now' \in Nat
         /\ \A most \in Nat : StartLimiting(most) => now' \in Nat
         /\ \A k \in LimitKeys, refused \in BOOLEAN : Count(e, k, refused) => now' \in Nat
BY DEF Tick, StartLimiting, ReadClock, Count

\* One of an event's steps keeps the types.
LEMMA DispatchKeepsTypes ==
  ASSUME TypeInv, NEW e \in Events, Dispatch(e)
  PROVE  TypeInv'
<1>0. /\ setup \in Setups /\ RouterTypes /\ EventTypes /\ DialoguesTypeOK(Events)
      /\ now \in Nat /\ Place(e) \in Places \cup {NoPlace} /\ LimitKey[e] \in LimitKeys
  BY PlaceType, BotAssumption DEF TypeInv
<1>1. UNCHANGED routerVars => RouterTypes'
  BY <1>0 DEF RouterTypes, routerVars, Registered
<1>2. UNCHANGED stateVars => DialoguesTypeOK(Events)'
  BY <1>0 DEF DialoguesTypeOK, stateVars
<1>3. UNCHANGED rateVars => now' \in Nat
  BY <1>0 DEF rateVars
<1>4. CASE Begin(e)
  BY <1>0, <1>1, <1>2, <1>3, <1>4, EventStepsKeepTypes DEF Begin, TypeInv
<1>5. CASE Snapshot(e)
  BY <1>0, <1>2, <1>3, <1>5, SnapshotKeepsTypes DEF Snapshot, TypeInv
<1>6. CASE Try(e)
  <2>1. PICK r \in Routes :
          \/ Skip(e, r) /\ UNCHANGED stateVars
          \/ TryDialogue(e, r) \/ TryCommand(e, r) \/ TryOther(e, r)
    BY <1>6 DEF Try
  <2>2. Calls(Names[r], Text(setup.typed)) \in BOOLEAN
    BY DEF Calls
  <2>3. EventTypes'
    BY <1>0, <2>1, <2>2, EventStepsKeepTypes DEF TryDialogue, TryCommand, TryOther
  <2>4. DialoguesTypeOK(Events)'
    BY <1>0, <1>2, <2>1, StateKeepsTypes DEF TryDialogue, TryCommand, TryOther
  <2> QED
    BY <1>0, <1>1, <1>3, <1>6, <2>3, <2>4 DEF Try, TypeInv
<1>7. CASE Finish(e)
  BY <1>0, <1>1, <1>2, <1>3, <1>7, EventStepsKeepTypes DEF Finish, TypeInv
<1>8. CASE Chain(e)
  <2>1. EventTypes'
    BY <1>0, <1>8, EventStepsKeepTypes DEF Chain, Phases
  <2> QED
    BY <1>0, <1>1, <1>2, <1>3, <1>8, <2>1, RateKeepsNow DEF Chain, TypeInv
<1>9. CASE CountIn(e)
  <2>1. Refused \in Outcomes
    BY DEF Refused, Outcomes
  <2>2. EventTypes'
    BY <1>0, <1>9, <2>1, EventStepsKeepTypes DEF CountIn, Phases
  <2> QED
    BY <1>0, <1>1, <1>2, <1>9, <2>2, RateKeepsNow DEF CountIn, TypeInv
<1>10. CASE Handler(e)
  <2>1. Refused \in Outcomes /\ Unsaved \in Outcomes
    BY DEF Refused, Unsaved, Outcomes
  <2>2. EventTypes'
    <3>1. TurnEnds(e) => \E outcome \in Outcomes : Leave(e, outcome)
      BY DEF TurnEnds, Outcomes
    <3> QED
      BY <1>0, <1>10, <2>1, <3>1, EventStepsKeepTypes
      DEF Handler, Plain, TakeTurn, BeginOne, Load, Update, Phases
  <2>3. DialoguesTypeOK(Events)'
    BY <1>0, <1>2, <1>10, StateKeepsTypes
    DEF Handler, Plain, TakeTurn, BeginOne, Load, Update
  <2> QED
    BY <1>0, <1>1, <1>3, <1>10, <2>2, <2>3 DEF Handler, TypeInv
<1> QED
  BY <1>4, <1>5, <1>6, <1>7, <1>8, <1>9, <1>10 DEF Dispatch

LEMMA TypeStep ==
  ASSUME TypeInv, [Next]_vars
  PROVE  TypeInv'
<1>1. UNCHANGED routerVars => RouterTypes'
  BY DEF TypeInv, RouterTypes, routerVars, Registered
<1>2. UNCHANGED eventVars => EventTypes'
  BY DEF TypeInv, EventTypes, eventVars
<1>3. UNCHANGED stateVars => DialoguesTypeOK(Events)'
  BY DEF TypeInv, DialoguesTypeOK, stateVars
<1>4. CASE Install
  <2>1. RouterTypes'
    BY <1>1, <1>4, RegisterKeepsTypes DEF Install, TypeInv
  <2>2. now' \in Nat
    BY <1>4 DEF Install, StartLimiting, TypeInv, rateVars
  <2> QED
    BY <1>2, <1>3, <1>4, <2>1, <2>2 DEF Install, TypeInv
<1>5. CASE TimePasses
  <2>1. now' \in Nat
    BY <1>5 DEF TimePasses, Tick, TypeInv
  <2> QED
    BY <1>1, <1>2, <1>3, <1>5, <2>1 DEF TimePasses, TypeInv
<1>6. CASE UNCHANGED vars
  BY <1>1, <1>2, <1>3, <1>6 DEF vars, TypeInv, rateVars
<1> QED
  BY <1>4, <1>5, <1>6, DispatchKeepsTypes DEF Next

LEMMA TypeInit ==
  Init => TypeInv
<1> SUFFICES ASSUME Init
             PROVE  TypeInv
  OBVIOUS
<1>1. setup \in Setups /\ now \in Nat
  BY DEF Init, RateInit
<1>2. RouterTypes
  <2>1. Registered = {}
    BY DEF Init, RoutingInit, Registered
  <2>2. sorted \in Seq(Routes)
    <3>1. sorted = <<>>
      BY DEF Init, RoutingInit
    <3> QED
      BY <3>1
  <2>3. IsFiniteSet(Registered)
    BY <2>1, FS_EmptySet
  <2>4. dirty \in BOOLEAN /\ ranked \subseteq Routes
    BY DEF Init, RoutingInit
  <2>5. /\ order \in [Routes -> Nat] /\ priority \in [Routes -> Int]
        /\ handler \in [Routes -> {"nil", "set", "visible"}]
    BY DEF Init, RoutingInit
  <2> QED
    BY <2>2, <2>3, <2>4, <2>5 DEF RouterTypes
<1>3. EventTypes
  BY DEF Init, RoutingInit, EventTypes, Phases
<1>4. DialoguesTypeOK(Events)
  BY DialogueAssumption DEF Init, DialoguesInit, DialoguesTypeOK, NoRecord
<1> QED
  BY <1>1, <1>2, <1>3, <1>4 DEF TypeInv

\* Every variable of a bot keeps its type (core/route.go, core/middleware.go,
\* sdk/dialogue.go).
THEOREM TypeCorrect == Spec => []TypeOK
<1>1. Spec => []TypeInv
  BY TypeInit, TypeStep, PTL DEF Spec
<1>2. Spec => []LimiterInv
  BY LimiterKept
<1>3. TypeInv /\ LimiterInv => TypeOK
  BY DEF TypeInv, LimiterInv, TypeOK, RouterTypes, EventTypes, RoutingTypeOK, Phases
<1> QED
  BY <1>1, <1>2, <1>3, PTL

-----------------------------------------------------------------------------
\* Serial dispatch.

Busy(e) == phase[e] \notin {"new", "done"}

\* Events of one conversation are dispatched one after the other.
Alone ==
  setup.serial =>
    \A e, f \in Events : e # f /\ Conv[e] = Conv[f] => ~Busy(e) \/ ~Busy(f)

\* A step of an event leaves what the others keep alone, and begins the event
\* only under the mutex of its conversation.
LEMMA StepIsOwn ==
  ASSUME TypeInv, NEW e \in Events, Dispatch(e)
  PROVE  /\ setup' = setup
         /\ \A f \in Events \ {e} :
              /\ phase'[f] = phase[f] /\ cur'[f] = cur[f]
              /\ matched'[f] = matched[f] /\ loaded'[f] = loaded[f]
         /\ Busy(e) \/ Lock(e)
<1> USE DEF TypeInv, EventTypes, DialoguesTypeOK
<1>1. CASE Begin(e)
  BY <1>1 DEF Begin, BeginDispatch, Goto, stateVars
<1>2. CASE Snapshot(e)
  BY <1>2 DEF Snapshot, CopySorted, FindDirty, Sort, Copy, Goto, Busy, stateVars
<1>3. CASE Try(e)
  <2>1. Busy(e) /\ setup' = setup
    BY <1>3 DEF Try, Busy
  <2>2. PICK r \in Routes :
          \/ Skip(e, r) /\ UNCHANGED stateVars
          \/ TryDialogue(e, r) \/ TryCommand(e, r) \/ TryOther(e, r)
    BY <1>3 DEF Try
  <2>3. Skip(e, r) \/ \E matches \in BOOLEAN : Test(e, r, matches)
    <3>1. Calls(Names[r], Text(setup.typed)) \in BOOLEAN
      BY DEF Calls
    <3> QED
      BY <2>2, <3>1 DEF TryDialogue, TryCommand, TryOther
  <2>4. \A f \in Events \ {e} : phase'[f] = phase[f] /\ cur'[f] = cur[f]
    BY <2>3 DEF Skip, Test, Goto
  <2>5. \A f \in Events \ {e} : matched'[f] = matched[f] /\ loaded'[f] = loaded[f]
    BY <2>2 DEF TryDialogue, TryCommand, TryOther, LoadRecord, LoadFails, CallFails,
                stateVars
  <2> QED
    BY <2>1, <2>4, <2>5
<1>4. CASE Finish(e)
  BY <1>4 DEF Finish, Exhausted, Goto, Busy, stateVars
<1>5. CASE Chain(e)
  BY <1>5 DEF Chain, Goto, Busy, stateVars
<1>6. CASE CountIn(e)
  BY <1>6 DEF CountIn, Leave, Goto, Busy, stateVars
<1>7. CASE Handler(e)
  <2>1. Busy(e) /\ setup' = setup
    BY <1>7 DEF Handler, Plain, TakeTurn, BeginOne, Load, Update, In, Busy
  <2>2. \/ \E outcome : Leave(e, outcome)
        \/ Goto(e, "update") /\ UNCHANGED cur
    BY <1>7 DEF Handler, Plain, TakeTurn, TurnEnds, BeginOne, Load, Update
  <2>3. \A f \in Events \ {e} : phase'[f] = phase[f] /\ cur'[f] = cur[f]
    BY <2>2 DEF Leave, Goto
  <2>4. \A f \in Events \ {e} : matched'[f] = matched[f] /\ loaded'[f] = loaded[f]
    BY <1>7
    DEF Handler, Plain, TakeTurn, BeginOne, Load, Update, Advance, Save, EndDialogue,
        BeginDialogue, LoadValue, SaveValue, StoreFails, CallFails, stateVars
  <2> QED
    BY <2>1, <2>3, <2>4
<1> QED
  BY <1>1, <1>2, <1>3, <1>4, <1>5, <1>6, <1>7 DEF Dispatch

LEMMA AloneStep ==
  ASSUME TypeInv, Alone, NEW e \in Events, Dispatch(e)
  PROVE  Alone'
<1>1. /\ setup' = setup
      /\ \A f \in Events \ {e} : phase'[f] = phase[f]
      /\ Busy(e) \/ Lock(e)
  BY StepIsOwn
<1> QED
  BY <1>1 DEF Alone, Busy, Lock

\* No counter has missed an update, and what an event has loaded is still true.
CounterInv ==
  Guarded =>
    /\ value = updates
    /\ \A e \in Events : phase[e] = "update" => loaded[e] = value[Conv[e]]

LEMMA CounterStep ==
  ASSUME TypeInv, Alone, CounterInv, NEW e \in Events, Dispatch(e)
  PROVE  CounterInv'
<1> SUFFICES ASSUME Guarded'
             PROVE  /\ value' = updates'
                    /\ \A f \in Events :
                         phase'[f] = "update" => loaded'[f] = value'[Conv[f]]
  BY DEF CounterInv
<1>1. /\ Guarded /\ setup' = setup
      /\ \A f \in Events \ {e} : phase'[f] = phase[f] /\ loaded'[f] = loaded[f]
  BY StepIsOwn DEF Guarded
<1>2. /\ value = updates
      /\ \A f \in Events : phase[f] = "update" => loaded[f] = value[Conv[f]]
      /\ Place(e) = Conv[e] /\ Conv \in [Events -> Places]
      /\ value \in [Places -> Nat] /\ updates \in [Places -> Nat]
      /\ phase \in [Events -> Phases] /\ loaded \in [Events -> Nat]
  BY <1>1, BotAssumption DEF Guarded, CounterInv, Place, TypeInv, EventTypes, DialoguesTypeOK
<1>3. CASE phase'[e] # "update" /\ UNCHANGED <<value, updates>>
  BY <1>1, <1>2, <1>3
<1>4. CASE Update(e) /\ SaveValue(e, Place(e))
  <2>1. value' = [value EXCEPT ![Conv[e]] = loaded[e] + 1]
        /\ updates' = [updates EXCEPT ![Conv[e]] = @ + 1]
    BY <1>2, <1>4 DEF SaveValue
  <2>2. phase[e] = "update" /\ phase'[e] # "update"
    BY <1>2, <1>4 DEF Update, Leave, Goto, SaveValue, StoreFails, CallFails
  <2>3. \A f \in Events : phase'[f] = "update" => Conv[f] # Conv[e]
    BY <1>1, <1>2, <2>2 DEF Alone, Busy, Guarded
  <2> QED
    BY <1>1, <1>2, <2>1, <2>2, <2>3
<1>5. CASE Load(e) /\ LoadValue(e, Place(e))
  <2>1. loaded' = [loaded EXCEPT ![e] = value[Conv[e]]] /\ UNCHANGED <<value, updates>>
    BY <1>2, <1>5 DEF LoadValue
  <2> QED
    BY <1>1, <1>2, <2>1
<1>6. CASE Begin(e) \/ Snapshot(e) \/ Finish(e) \/ Chain(e) \/ CountIn(e)
  BY <1>2, <1>3, <1>6
  DEF Begin, BeginDispatch, Snapshot, CopySorted, FindDirty, Sort, Copy, Finish, Exhausted,
      Chain, CountIn, Leave, Goto, stateVars
<1>7. CASE Try(e)
  <2>1. PICK r \in Routes :
          \/ Skip(e, r) /\ UNCHANGED stateVars
          \/ TryDialogue(e, r) \/ TryCommand(e, r) \/ TryOther(e, r)
    BY <1>7 DEF Try
  <2>2. UNCHANGED <<value, updates>>
    BY <2>1 DEF TryDialogue, TryCommand, TryOther, LoadRecord, LoadFails, CallFails,
                stateVars
  <2>3. Skip(e, r) \/ \E matches : Test(e, r, matches)
    BY <2>1 DEF TryDialogue, TryCommand, TryOther
  <2>4. phase[e] = "routes" /\ phase'[e] # "update"
    BY <1>2, <1>7, <2>3 DEF Try, Skip, Test, Goto
  <2> QED
    BY <1>3, <2>2, <2>4
<1>8. CASE Handler(e)
  <2>1. \/ Load(e) /\ LoadValue(e, Place(e))
        \/ Update(e) /\ SaveValue(e, Place(e))
        \/ /\ \E outcome : Leave(e, outcome)
           /\ UNCHANGED <<value, updates>>
    BY <1>8
    DEF Handler, Plain, TakeTurn, TurnEnds, BeginOne, Load, Update, Advance, Save,
        EndDialogue, BeginDialogue, StoreFails, CallFails, stateVars
  <2>2. (\E outcome : Leave(e, outcome)) => phase'[e] # "update"
    BY <1>2 DEF Leave, Goto
  <2> QED
    BY <1>3, <1>4, <1>5, <2>1, <2>2
<1> QED
  BY <1>6, <1>7, <1>8 DEF Dispatch

\* What is not a step of an event changes neither phases nor state.
LEMMA SerialStep ==
  ASSUME TypeInv, Alone, CounterInv, [Next]_vars
  PROVE  Alone' /\ CounterInv'
<1>1. CASE UNCHANGED <<setup, eventVars, stateVars>>
  BY <1>1 DEF Alone, Busy, CounterInv, Guarded, eventVars, stateVars
<1>2. Install \/ TimePasses \/ UNCHANGED vars => UNCHANGED <<setup, eventVars, stateVars>>
  BY DEF Install, TimePasses, vars
<1> QED
  BY <1>1, <1>2, AloneStep, CounterStep DEF Next

LEMMA SerialInit ==
  Init => Alone /\ CounterInv
BY DEF Init, RoutingInit, DialoguesInit, Alone, Busy, CounterInv

\* With serial dispatch and state of the conversation State.Update loses no
\* update, whatever fails (sdk/state.go:115-133).
THEOREM NoUpdateLost == Spec => []UpdatesKept
<1>1. Spec => []TypeInv
  BY TypeInit, TypeStep, PTL DEF Spec
<1>2. TypeInv /\ Alone /\ CounterInv /\ [Next]_vars => Alone' /\ CounterInv'
  BY SerialStep
<1>3. Spec => [](Alone /\ CounterInv)
  BY <1>1, <1>2, SerialInit, PTL DEF Spec
<1>4. CounterInv => UpdatesKept
  BY DEF CounterInv, UpdatesKept
<1> QED
  BY <1>3, <1>4, PTL

-----------------------------------------------------------------------------
\* An event on its way to a turn of a dialogue.
Turning(e) ==
  /\ phase[e] \in {"matched", "limit", "handler"}
  /\ Kind[cur[e]] = "dialogue" /\ matched[e] # Failed

\* The records that lie in the store are of different ids, none of which has been
\* replaced or deleted; an event that has matched one still finds it.
TurnInv ==
  /\ \A p \in advanced : p[2] <= ids
  /\ \A k \in Places : record[k].id <= ids
  /\ \A k \in Places : record[k].id # 0 =>
       /\ \A p \in advanced : p[2] # record[k].id
       /\ \A j \in Places : record[j].id = record[k].id => j = k
  /\ \A e \in Events : Turning(e) =>
       record[Conv[e]].id # 0 /\ matched[e] = record[Conv[e]].id
  /\ \A p, q \in advanced : p[2] = q[2] => p = q

DialogueInv == Guarded => TurnInv

\* A record is saved in one place.
LEMMA SaveKeeps ==
  ASSUME TypeInv, TurnInv, NEW k \in Places, Save(k, now),
         \/ advanced' = advanced
         \/ \E e \in Events : /\ advanced' = advanced \cup {<<e, record[k].id>>}
                              /\ record[k].id # 0
  PROVE  /\ \A p \in advanced' : p[2] <= ids'
         /\ \A j \in Places : record'[j].id <= ids'
         /\ \A j \in Places : record'[j].id # 0 =>
              /\ \A p \in advanced' : p[2] # record'[j].id
              /\ \A i \in Places : record'[i].id = record'[j].id => i = j
         /\ \A p, q \in advanced' : p[2] = q[2] => p = q
<1>1. /\ ids \in Nat /\ record \in [Places -> [id : Nat, until : Nat]]
      /\ advanced \subseteq Events \X Nat
  BY DEF TypeInv, DialoguesTypeOK
<1>2. /\ ids' = ids + 1 /\ record'[k].id = ids + 1
      /\ \A j \in Places : j # k => record'[j] = record[j]
  BY <1>1 DEF Save
<1>3. \A p \in advanced : p[2] \in Nat
  BY <1>1
<1>4. \A p \in advanced' : p[2] <= ids /\ p[2] \in Nat
  BY <1>1, <1>3 DEF TurnInv
<1>5. \A j \in Places : record[j].id \in Nat /\ record[j].id <= ids
  BY <1>1 DEF TurnInv
<1>6. \A p, q \in advanced' : p[2] = q[2] => p = q
  BY DEF TurnInv
<1>7. \A p \in advanced' : p[2] <= ids'
  BY <1>1, <1>2, <1>4
<1>8. \A j \in Places : record'[j].id <= ids'
  BY <1>1, <1>2, <1>5
<1>9. ASSUME NEW j \in Places, record'[j].id # 0
      PROVE  /\ \A p \in advanced' : p[2] # record'[j].id
             /\ \A i \in Places : record'[i].id = record'[j].id => i = j
  <2>1. CASE j = k
    BY <1>1, <1>2, <1>4, <1>5, <2>1
  <2>2. CASE j # k
    <3>1. record'[j] = record[j] /\ record[j].id # 0 /\ record[j].id <= ids
          /\ record[j].id \in Nat
      BY <1>2, <1>5, <1>9, <2>2
    <3>2. \A p \in advanced' : p[2] # record[j].id
      BY <2>2, <3>1 DEF TurnInv
    <3>3. \A i \in Places : record'[i].id = record[j].id => i = j
      BY <1>1, <1>2, <3>1 DEF TurnInv
    <3> QED
      BY <3>1, <3>2, <3>3
  <2> QED
    BY <2>1, <2>2
<1> QED
  BY <1>6, <1>7, <1>8, <1>9

LEMMA TurnStep ==
  ASSUME TypeInv, Alone, DialogueInv, NEW e \in Events, Dispatch(e)
  PROVE  DialogueInv'
<1> SUFFICES ASSUME Guarded'
             PROVE  TurnInv'
  BY DEF DialogueInv
<1>1. /\ Guarded /\ setup' = setup
      /\ \A f \in Events \ {e} :
           phase'[f] = phase[f] /\ cur'[f] = cur[f] /\ matched'[f] = matched[f]
  BY StepIsOwn DEF Guarded
<1>2. /\ TurnInv
      /\ Place(e) = Conv[e] /\ Conv \in [Events -> Places] /\ Conv[e] \in Places
      /\ ids \in Nat /\ record \in [Places -> [id : Nat, until : Nat]]
      /\ advanced \subseteq Events \X Nat
      /\ phase \in [Events -> Phases] /\ cur \in [Events -> Routes \cup {NoRoute}]
      /\ matched \in [Events -> Nat \cup {Failed}]
  BY <1>1, BotAssumption
  DEF Guarded, DialogueInv, Place, TypeInv, EventTypes, DialoguesTypeOK
\* Nothing is saved; e has matched what is there, or is no nearer to a turn.
<1>3. ASSUME UNCHANGED <<record, ids, advanced>>,
             Turning(e)' => \/ Turning(e) /\ matched'[e] = matched[e]
                            \/ /\ record[Conv[e]].id # 0
                               /\ matched'[e] = record[Conv[e]].id
      PROVE  TurnInv'
  <2>1. \A f \in Events : Turning(f)' =>
          record'[Conv[f]].id # 0 /\ matched'[f] = record'[Conv[f]].id
    BY <1>1, <1>2, <1>3 DEF Turning, TurnInv
  <2> QED
    BY <1>2, <1>3, <2>1 DEF TurnInv
\* e's own record changes, which no other event has matched.
<1>4. ASSUME \A k \in Places : k # Conv[e] => record'[k] = record[k],
             ~Turning(e)', Busy(e)
      PROVE  \A f \in Events : Turning(f)' =>
               record'[Conv[f]].id # 0 /\ matched'[f] = record'[Conv[f]].id
  <2> SUFFICES ASSUME NEW f \in Events, Turning(f)'
               PROVE  record'[Conv[f]].id # 0 /\ matched'[f] = record'[Conv[f]].id
    OBVIOUS
  <2>1. f # e /\ Turning(f)
    BY <1>1, <1>4 DEF Turning
  <2>2. Conv[f] # Conv[e]
    BY <1>1, <1>4, <2>1 DEF Alone, Busy, Turning, Guarded
  <2> QED
    BY <1>1, <1>2, <1>4, <2>1, <2>2 DEF TurnInv
<1>5. CASE Begin(e) \/ Snapshot(e) \/ Finish(e)
  <2>1. UNCHANGED <<record, ids, advanced>> /\ phase'[e] \in {"snapshot", "sort", "routes", "done"}
    BY <1>2, <1>5
    DEF Begin, BeginDispatch, Snapshot, CopySorted, FindDirty, Sort, Copy, Finish,
        Exhausted, Goto, stateVars
  <2> QED
    BY <1>3, <2>1 DEF Turning
<1>6. CASE Try(e)
  <2>1. PICK r \in Routes :
          \/ Skip(e, r) /\ UNCHANGED stateVars
          \/ TryDialogue(e, r) \/ TryCommand(e, r) \/ TryOther(e, r)
    BY <1>6 DEF Try
  <2>2. UNCHANGED <<record, ids, advanced>>
    BY <2>1 DEF TryDialogue, TryCommand, TryOther, LoadRecord, LoadFails, CallFails,
                stateVars
  <2>3. phase[e] = "routes"
    BY <1>6 DEF Try
  <2>4. CASE Skip(e, r) \/ Test(e, r, FALSE)
    BY <1>3, <2>2, <2>3, <2>4 DEF Skip, Test, Turning
  <2>5. CASE Kind[r] # "dialogue" /\ \E matches : Test(e, r, matches)
    BY <1>2, <1>3, <2>2, <2>3, <2>5 DEF Test, Turning
  <2>6. CASE LoadRecord(e, Place(e), now)
    BY <1>2, <1>3, <2>2, <2>6 DEF LoadRecord, Active
  <2>7. CASE LoadFails(e, Place(e))
    BY <1>2, <1>3, <2>2, <2>7 DEF LoadFails, Turning
  <2> QED
    BY <2>1, <2>4, <2>5, <2>6, <2>7 DEF TryDialogue, TryCommand, TryOther
<1>7. CASE Chain(e) \/ CountIn(e)
  <2>1. UNCHANGED <<record, ids, advanced, matched>>
    BY <1>7 DEF Chain, CountIn, stateVars
  <2>2. \/ phase'[e] \in {"routes", "done"}
        \/ phase[e] \in {"matched", "limit"} /\ cur'[e] = cur[e]
    BY <1>2, <1>7 DEF Chain, CountIn, Leave, Goto
  <2> QED
    BY <1>3, <2>1, <2>2 DEF Turning
<1>8. CASE Handler(e)
  <2>1. Busy(e)
    BY <1>8 DEF Handler, Plain, TakeTurn, BeginOne, Load, Update, In, Busy
  <2>2. ~Turning(e)'
    <3>1. \/ \E outcome : Leave(e, outcome)
          \/ Goto(e, "update")
      BY <1>8 DEF Handler, Plain, TakeTurn, TurnEnds, BeginOne, Load, Update
    <3>2. phase'[e] \in {"routes", "done", "update"}
      BY <1>2, <3>1 DEF Leave, Goto
    <3> QED
      BY <3>2 DEF Turning
  <2>3. CASE UNCHANGED <<record, ids, advanced>>
    BY <1>3, <2>2, <2>3
  <2>4. CASE /\ Save(Conv[e], now)
             /\ \/ advanced' = advanced
                \/ /\ advanced' = advanced \cup {<<e, record[Conv[e]].id>>}
                   /\ record[Conv[e]].id # 0
    <3>1. \A k \in Places : k # Conv[e] => record'[k] = record[k]
      BY <1>2, <2>4 DEF Save
    <3> QED
      BY <1>2, <1>4, <2>1, <2>2, <2>4, <3>1, SaveKeeps DEF TurnInv
  <2>5. CASE /\ record' = [record EXCEPT ![Conv[e]] = NoRecord]
             /\ advanced' = advanced \cup {<<e, record[Conv[e]].id>>}
             /\ record[Conv[e]].id # 0 /\ ids' = ids
    <3>1. /\ record'[Conv[e]].id = 0
          /\ \A k \in Places : k # Conv[e] => record'[k] = record[k]
      BY <1>2, <2>5 DEF NoRecord
    <3>2. \A p \in advanced' : p[2] <= ids'
      BY <1>2, <2>5 DEF TurnInv
    <3>3. \A k \in Places : record'[k].id <= ids'
      BY <1>2, <2>5, <3>1 DEF TurnInv
    <3>4. \A k \in Places : record'[k].id # 0 =>
            /\ \A p \in advanced' : p[2] # record'[k].id
            /\ \A j \in Places : record'[j].id = record'[k].id => j = k
      BY <1>2, <2>5, <3>1 DEF TurnInv
    <3>5. \A p, q \in advanced' : p[2] = q[2] => p = q
      BY <1>2, <2>5 DEF TurnInv
    <3> QED
      BY <1>4, <2>1, <2>2, <3>1, <3>2, <3>3, <3>4, <3>5 DEF TurnInv
  <2>6. CASE TakeTurn(e)
    <3>1. CASE matched[e] = Failed \/ UNCHANGED stateVars \/ StoreFails
      BY <2>3, <2>6, <3>1 DEF TakeTurn, StoreFails, CallFails, stateVars
    <3>2. CASE /\ matched[e] # Failed
               /\ Advance(e, Place(e), now) \/ EndDialogue(e, Place(e))
      <4>1. matched[e] = record[Conv[e]].id /\ record[Conv[e]].id # 0
        BY <1>2, <2>6, <3>2 DEF TakeTurn, In, Turning, TurnInv
      <4> QED
        BY <1>2, <2>4, <2>5, <3>2, <4>1 DEF Advance, EndDialogue
    <3> QED
      BY <2>6, <3>1, <3>2 DEF TakeTurn
  <2>7. CASE BeginOne(e)
    BY <1>2, <2>3, <2>4, <2>7
    DEF BeginOne, BeginDialogue, StoreFails, CallFails, stateVars
  <2>8. CASE Plain(e) \/ Load(e) \/ Update(e)
    BY <2>3, <2>8
    DEF Plain, Load, Update, LoadValue, SaveValue, StoreFails, CallFails, stateVars
  <2> QED
    BY <1>8, <2>6, <2>7, <2>8 DEF Handler
<1> QED
  BY <1>5, <1>6, <1>7, <1>8 DEF Dispatch

LEMMA DialogueInit ==
  Init => DialogueInv
<1> SUFFICES ASSUME Init
             PROVE  TurnInv
  BY DEF DialogueInv
<1>1. /\ advanced = {} /\ ids = 1
      /\ \A k \in Places : record[k].id = IF k = setup.begun THEN 1 ELSE 0
  BY DEF Init, DialoguesInit, NoRecord
<1>2. \A e \in Events : ~Turning(e)
  BY DEF Init, RoutingInit, Turning
<1> QED
  BY <1>1, <1>2 DEF TurnInv

\* With serial dispatch and dialogues of the conversation no record of a dialogue
\* is replaced or deleted by two turns, whatever fails or expires, and whichever
\* handlers begin dialogues anew (sdk/dialogue.go:196-251).
THEOREM StepsTakenOnce == Spec => []AdvancedOnce
<1>1. Spec => []TypeInv
  BY TypeInit, TypeStep, PTL DEF Spec
<1>2. TypeInv /\ Alone /\ CounterInv /\ [Next]_vars => Alone' /\ CounterInv'
  BY SerialStep
<1>3. TypeInv /\ Alone /\ DialogueInv /\ [Next]_vars => DialogueInv'
  <2> SUFFICES ASSUME TypeInv, Alone, DialogueInv, [Next]_vars
               PROVE  DialogueInv'
    OBVIOUS
  <2>1. CASE UNCHANGED <<setup, eventVars, stateVars>>
    BY <2>1 DEF DialogueInv, TurnInv, Turning, Guarded, eventVars, stateVars
  <2>2. Install \/ TimePasses \/ UNCHANGED vars => UNCHANGED <<setup, eventVars, stateVars>>
    BY DEF Install, TimePasses, vars
  <2> QED
    BY <2>1, <2>2, TurnStep DEF Next
<1>4. Spec => [](Alone /\ CounterInv)
  BY <1>1, <1>2, SerialInit, PTL DEF Spec
<1>5. Spec => []DialogueInv
  BY <1>1, <1>3, <1>4, DialogueInit, PTL DEF Spec
<1>6. DialogueInv => AdvancedOnce
  BY DEF DialogueInv, TurnInv, AdvancedOnce
<1> QED
  BY <1>5, <1>6, PTL

-----------------------------------------------------------------------------
\* Routes in turn.

Arranged(s) ==
  /\ \A r \in Registered : \E i \in DOMAIN s : s[i] = r
  /\ \A i, j \in DOMAIN s : i < j => Precedes(s[i], s[j])

\* An event's snapshot has all the routes that it owes in their order, and those
\* of them that it has tried are those before its position.
InTurn(e) ==
  /\ phase[e] \in {"new", "snapshot", "sort"}
       => owed[e] = {} /\ tested[e] = {} /\ pos[e] = 1
  /\ owed[e] \subseteq Registered \cap ranked
  /\ \A r \in owed[e] : \E i \in DOMAIN list[e] : list[e][i] = r
  /\ \A i, j \in DOMAIN list[e] :
       i < j /\ list[e][i] \in owed[e] /\ list[e][j] \in owed[e]
         => Precedes(list[e][i], list[e][j])
  /\ \A i \in DOMAIN list[e] :
       list[e][i] \in owed[e] => (list[e][i] \in tested[e] <=> i < pos[e])
  /\ phase[e] = "done" /\ ~stopped[e] => pos[e] \notin DOMAIN list[e]

RouteInv ==
  /\ ~dirty => Arranged(sorted)
  /\ \A e \in Events : InTurn(e)

\* A route never comes before itself, nor two before each other.
LEMMA PrecedesIsStrict ==
  ASSUME RouterTypes, NEW r \in Routes, NEW q \in Routes, Precedes(r, q)
  PROVE  ~Precedes(q, r)
<1>1. /\ order[r] \in Nat /\ order[q] \in Nat
      /\ priority[r] \in Int /\ priority[q] \in Int
  BY DEF RouterTypes
<1> QED
  BY <1>1 DEF Precedes

LEMMA InTurnSuffices ==
  ASSUME TypeInv, RouteInv
  PROVE  EveryRouteInTurn
<1> SUFFICES ASSUME NEW e \in Events
             PROVE  /\ \A r \in owed[e] \cap tested[e] : \A q \in owed[e] :
                         Precedes(q, r) => q \in tested[e]
                    /\ phase[e] = "done" /\ ~stopped[e] => owed[e] \subseteq tested[e]
  BY DEF EveryRouteInTurn
<1>1. /\ RouterTypes /\ list[e] \in Seq(Routes) /\ pos[e] \in Nat \ {0}
      /\ owed[e] \subseteq Routes /\ InTurn(e)
  BY DEF TypeInv, EventTypes, RouteInv
<1>2. ASSUME NEW r \in owed[e] \cap tested[e], NEW q \in owed[e], Precedes(q, r)
      PROVE  q \in tested[e]
  <2>1. PICK i \in DOMAIN list[e] : list[e][i] = r
    BY <1>1 DEF InTurn
  <2>2. PICK j \in DOMAIN list[e] : list[e][j] = q
    BY <1>1 DEF InTurn
  <2>3. i < pos[e] /\ i \in Nat /\ j \in Nat
    BY <1>1, <2>1, <2>2 DEF InTurn
  <2>4. ~(i < j) /\ i # j
    BY <1>1, <1>2, <2>1, <2>2, PrecedesIsStrict DEF InTurn
  <2>5. j < pos[e]
    BY <1>1, <2>3, <2>4
  <2> QED
    BY <1>1, <2>2, <2>5 DEF InTurn
<1>3. ASSUME phase[e] = "done", ~stopped[e], NEW r \in owed[e]
      PROVE  r \in tested[e]
  <2>1. PICK i \in DOMAIN list[e] : list[e][i] = r
    BY <1>1 DEF InTurn
  <2>2. pos[e] \notin DOMAIN list[e]
    BY <1>1, <1>3 DEF InTurn
  <2>3. i < pos[e]
    BY <1>1, <2>2
  <2> QED
    BY <1>1, <2>1, <2>3 DEF InTurn
<1> QED
  BY <1>2, <1>3

\* Registration leaves the routes that an event owes where they are.
LEMMA RegisterKeepsTurns ==
  ASSUME TypeInv, RouteInv, NEW r \in Routes, Register(r), UNCHANGED eventVars
  PROVE  RouteInv'
<1>1. \/ On(r) \/ SetPriority(r) \/ Handle(r)
  BY DEF Register
<1>2. RouterTypes
  BY DEF TypeInv
<1>3. ~dirty' => Arranged(sorted)'
  <2>1. CASE On(r) \/ SetPriority(r)
    BY <2>1 DEF On, SetPriority
  <2>2. CASE Handle(r)
    BY <2>2 DEF Handle, RouteInv, Arranged, Registered, Precedes
  <2> QED
    BY <1>1, <2>1, <2>2
<1>4. ASSUME NEW q \in Registered \cap ranked
      PROVE  q \in (Registered \cap ranked)' /\ order'[q] = order[q] /\ priority'[q] = priority[q]
  <2>1. CASE On(r)
    BY <1>2, <1>4, <2>1 DEF On, Registered, RouterTypes
  <2>2. CASE SetPriority(r)
    BY <1>2, <1>4, <2>2 DEF SetPriority, Registered, RouterTypes
  <2>3. CASE Handle(r)
    BY <1>4, <2>3 DEF Handle, Registered
  <2> QED
    BY <1>1, <2>1, <2>2, <2>3
<1>5. ASSUME NEW e \in Events
      PROVE  InTurn(e)'
  <2>1. InTurn(e) /\ UNCHANGED <<phase, list, pos, stopped, owed, tested>>
    BY DEF RouteInv, eventVars
  <2>2. owed[e] \subseteq Registered \cap ranked
    BY <2>1 DEF InTurn
  <2>3. \A q, p \in owed[e] : Precedes(q, p) => Precedes(q, p)'
    BY <1>4, <2>2 DEF Precedes
  <2> QED
    BY <1>4, <2>1, <2>2, <2>3 DEF InTurn
<1> QED
  BY <1>3, <1>5 DEF RouteInv

\* So does anything that leaves the router alone, if the event itself does right.
LEMMA OwnTurn ==
  ASSUME RouteInv, UNCHANGED routerVars, NEW e \in Events,
         \A f \in Events \ {e} :
           /\ phase'[f] = phase[f] /\ list'[f] = list[f] /\ pos'[f] = pos[f]
           /\ stopped'[f] = stopped[f] /\ owed'[f] = owed[f] /\ tested'[f] = tested[f],
         InTurn(e)'
  PROVE  RouteInv'
<1>1. ~dirty' => Arranged(sorted)'
  BY DEF RouteInv, Arranged, Registered, Precedes, routerVars
<1>2. ASSUME NEW f \in Events \ {e}
      PROVE  InTurn(f)'
  BY <1>2 DEF RouteInv, InTurn, Registered, Precedes, routerVars
<1> QED
  BY <1>1, <1>2 DEF RouteInv

\* A snapshot is taken in order.
LEMMA CopyInTurn ==
  ASSUME TypeInv, NEW e \in Events, InTurn(e), phase[e] \in {"snapshot", "sort"},
         NEW s \in Seq(Routes), Arranged(s), Copy(e, s),
         UNCHANGED <<order, priority, ranked>>
  PROVE  InTurn(e)'
<1>1. /\ list'[e] = s /\ phase'[e] = "routes"
      /\ owed'[e] \subseteq Registered \cap ranked
      /\ tested'[e] = {} /\ pos'[e] = 1
  BY DEF Copy, Goto, Complete, InTurn, TypeInv, EventTypes
<1>2. Registered' = Registered /\ \A q, p : Precedes(q, p) => Precedes(q, p)'
  BY DEF Registered, Precedes
<1>3. \A i \in DOMAIN list'[e] : ~(i < 1)
  BY <1>1
<1> QED
  BY <1>1, <1>2, <1>3 DEF InTurn, Arranged

LEMMA SnapshotKeepsTurns ==
  ASSUME TypeInv, RouteInv, NEW e \in Events,
         CopySorted(e) \/ FindDirty(e) \/ Sort(e)
  PROVE  RouteInv'
<1>1. /\ InTurn(e) /\ RouterTypes /\ EventTypes
      /\ phase \in [Events -> Phases] /\ list \in [Events -> Seq(Routes)]
      /\ owed \in [Events -> SUBSET Routes]
  BY DEF TypeInv, RouteInv, EventTypes
<1>2. ASSUME NEW s, Copy(e, s)
      PROVE  \A f \in Events \ {e} :
               /\ phase'[f] = phase[f] /\ list'[f] = list[f] /\ pos'[f] = pos[f]
               /\ stopped'[f] = stopped[f] /\ owed'[f] = owed[f] /\ tested'[f] = tested[f]
  BY <1>1, <1>2 DEF Copy, Goto
<1>3. CASE CopySorted(e)
  <2>1. Copy(e, sorted) /\ UNCHANGED routerVars /\ phase[e] = "snapshot" /\ Arranged(sorted)
    BY <1>3 DEF CopySorted, RouteInv
  <2>2. InTurn(e)'
    BY <1>1, <2>1, CopyInTurn DEF RouterTypes, routerVars
  <2> QED
    BY <1>2, <2>1, <2>2, OwnTurn
<1>4. CASE FindDirty(e)
  <2>1. InTurn(e)'
    BY <1>1, <1>4 DEF FindDirty, Goto, InTurn, routerVars, Registered, Precedes
  <2> QED
    BY <1>1, <1>4, <2>1, OwnTurn DEF FindDirty, Goto
<1>5. CASE Sort(e)
  <2>1. Arranged(sorted') /\ sorted' \in Seq(Routes)
    <3>1. CASE dirty
      <4>1. Cardinality(Registered) \in Nat
        BY <1>1, FS_CardinalityType DEF RouterTypes
      <4>2. sorted' \in Arrangements
        BY <1>5, <3>1 DEF Sort
      <4>3. PICK n \in Nat : sorted' \in [1..n -> Registered]
        BY <4>1, <4>2 DEF Arrangements
      <4>4. Registered \subseteq Routes
        BY DEF Registered
      <4>5. sorted' \in Seq(Routes)
        BY <4>3, <4>4
      <4> QED
        BY <4>2, <4>5 DEF Arrangements, Arranged
    <3>2. CASE ~dirty
      BY <1>1, <1>5, <3>2 DEF Sort, RouteInv, RouterTypes
    <3> QED
      BY <3>1, <3>2
  <2>2. /\ Copy(e, sorted') /\ phase[e] = "sort"
        /\ UNCHANGED <<order, priority, ranked, handler>>
    BY <1>5 DEF Sort
  <2>3. InTurn(e)'
    BY <1>1, <2>1, <2>2, CopyInTurn
  <2>4. Arranged(sorted)'
    BY <2>1, <2>2 DEF Arranged, Registered, Precedes
  <2>5. ASSUME NEW f \in Events \ {e}
        PROVE  InTurn(f)'
    BY <1>2, <2>2, <2>5 DEF RouteInv, InTurn, Registered, Precedes
  <2> QED
    BY <2>3, <2>4, <2>5 DEF RouteInv
<1> QED
  BY <1>3, <1>4, <1>5

\* What the loop does with the route at its position.
LEMMA LoopKeepsTurns ==
  ASSUME TypeInv, RouteInv, UNCHANGED routerVars, NEW e \in Events, NEW r \in Routes,
         Skip(e, r) \/ \E matches \in BOOLEAN : Test(e, r, matches)
  PROVE  RouteInv'
<1>1. /\ InTurn(e) /\ RouterTypes /\ list \in [Events -> Seq(Routes)]
      /\ pos \in [Events -> Nat \ {0}] /\ owed \in [Events -> SUBSET Routes]
      /\ tested \in [Events -> SUBSET Routes] /\ phase \in [Events -> Phases]
      /\ stopped \in [Events -> BOOLEAN]
  BY DEF TypeInv, RouteInv, EventTypes
<1>2. /\ phase[e] = "routes" /\ pos[e] \in DOMAIN list[e] /\ list[e][pos[e]] = r
      /\ pos' = [pos EXCEPT ![e] = @ + 1] /\ UNCHANGED <<list, owed>>
      /\ \/ r \notin owed[e] /\ UNCHANGED <<phase, stopped, tested>>
         \/ /\ tested' = [tested EXCEPT ![e] = @ \cup {r}]
            /\ \/ UNCHANGED <<phase, stopped>>
               \/ /\ phase' = [phase EXCEPT ![e] = "matched"]
                  /\ stopped' = [stopped EXCEPT ![e] = FALSE]
  BY DEF Skip, Test, Trying, Goto
<1>3. \A q, p : Precedes(q, p) <=> Precedes(q, p)'
  BY DEF Precedes, routerVars
<1>4. Registered' = Registered /\ ranked' = ranked
  BY DEF Registered, routerVars
<1>5. pos'[e] = pos[e] + 1 /\ list'[e] = list[e] /\ owed'[e] = owed[e]
  BY <1>1, <1>2
<1>6. ASSUME NEW i \in DOMAIN list[e], list[e][i] \in owed[e]
      PROVE  list[e][i] \in tested'[e] <=> i < pos[e] + 1
  <2>1. i \in Nat /\ pos[e] \in Nat
    BY <1>1
  <2>2. list[e][i] \in tested[e] <=> i < pos[e]
    BY <1>1, <1>6 DEF InTurn
  <2>3. CASE r \notin owed[e]
    <3>1. i # pos[e] /\ list[e][i] # r
      BY <1>2, <1>6, <2>3
    <3>2. list[e][i] \in tested'[e] <=> list[e][i] \in tested[e]
      BY <1>1, <1>2, <3>1
    <3> QED
      BY <2>1, <2>2, <3>1, <3>2
  <2>4. CASE r \in owed[e]
    <3>1. tested'[e] = tested[e] \cup {r}
      BY <1>1, <1>2, <2>4
    <3>2. list[e][i] = r => i = pos[e]
      <4>1. ~Precedes(r, r)
        BY <1>1, PrecedesIsStrict
      <4>2. list[e][i] = r => ~(i < pos[e]) /\ ~(pos[e] < i)
        BY <1>1, <1>2, <2>4, <4>1 DEF InTurn
      <4> QED
        BY <2>1, <4>2
    <3> QED
      BY <1>2, <2>1, <2>2, <3>1, <3>2
  <2> QED
    BY <2>3, <2>4
<1>7. phase'[e] \in {"routes", "matched"}
  BY <1>1, <1>2
<1>8. InTurn(e)'
  BY <1>1, <1>3, <1>4, <1>5, <1>6, <1>7 DEF InTurn
<1>9. \A f \in Events \ {e} :
        /\ phase'[f] = phase[f] /\ list'[f] = list[f] /\ pos'[f] = pos[f]
        /\ stopped'[f] = stopped[f] /\ owed'[f] = owed[f] /\ tested'[f] = tested[f]
  BY <1>1, <1>2
<1> QED
  BY <1>8, <1>9, OwnTurn

\* What else moves an event on.
LEMMA MovesKeepTurns ==
  ASSUME TypeInv, RouteInv, UNCHANGED routerVars, NEW e \in Events,
         \/ BeginDispatch(e) \/ Exhausted(e)
         \/ \E outcome \in Outcomes : phase[e] \notin {"new", "snapshot", "sort"}
                                      /\ Leave(e, outcome)
         \/ /\ phase[e] \notin {"new", "snapshot", "sort"}
            /\ \E p \in {"limit", "handler", "update"} : Goto(e, p)
            /\ UNCHANGED <<list, pos, cur, stopped, owed, tested>>
  PROVE  RouteInv'
<1>1. /\ InTurn(e) /\ phase \in [Events -> Phases] /\ stopped \in [Events -> BOOLEAN]
  BY DEF TypeInv, RouteInv, EventTypes
<1>2. UNCHANGED <<list, pos, owed, tested>>
  BY DEF BeginDispatch, Exhausted, Leave
<1>3. \A f \in Events \ {e} : phase'[f] = phase[f] /\ stopped'[f] = stopped[f]
  BY <1>1 DEF BeginDispatch, Exhausted, Leave, Goto
<1>4. /\ phase'[e] \in {"new", "snapshot", "sort"} => phase[e] = "new"
      /\ phase'[e] = "done" /\ ~stopped'[e] => pos[e] \notin DOMAIN list[e]
  <2>1. CASE BeginDispatch(e) \/ Exhausted(e)
    BY <1>1, <2>1 DEF BeginDispatch, Exhausted, Goto
  <2>2. ASSUME NEW outcome \in Outcomes, Leave(e, outcome)
        PROVE  /\ phase'[e] \in {"routes", "done"}
               /\ phase'[e] = "done" => stopped'[e]
    <3>1. CASE Ends(outcome)
      BY <1>1, <2>2, <3>1 DEF Leave, Goto
    <3>2. CASE ~Ends(outcome)
      BY <1>1, <2>2, <3>2 DEF Leave, Goto
    <3> QED
      BY <3>1, <3>2
  <2>3. ASSUME NEW p \in {"limit", "handler", "update"}, Goto(e, p)
        PROVE  phase'[e] \in {"limit", "handler", "update"}
    BY <1>1, <2>3 DEF Goto
  <2> QED
    BY <2>1, <2>2, <2>3
<1>5. InTurn(e)'
  BY <1>1, <1>2, <1>4 DEF InTurn, Registered, Precedes, routerVars
<1> QED
  BY <1>2, <1>3, <1>5, OwnTurn

LEMMA RouteStep ==
  ASSUME TypeInv, RouteInv, [Next]_vars
  PROVE  RouteInv'
<1>1. CASE UNCHANGED <<routerVars, eventVars>>
  BY <1>1 DEF RouteInv, InTurn, Arranged, Registered, Precedes, routerVars, eventVars
<1>2. CASE Install
  BY <1>1, <1>2, RegisterKeepsTurns DEF Install
<1>3. TimePasses \/ UNCHANGED vars => UNCHANGED <<routerVars, eventVars>>
  BY DEF TimePasses, vars
<1>4. ASSUME NEW e \in Events, Dispatch(e)
      PROVE  RouteInv'
  <2>1. CASE Snapshot(e)
    BY <2>1, SnapshotKeepsTurns DEF Snapshot
  <2>2. CASE Try(e)
    <3>1. UNCHANGED routerVars
      BY <2>2 DEF Try
    <3>2. PICK r \in Routes :
            \/ Skip(e, r) /\ UNCHANGED stateVars
            \/ TryDialogue(e, r) \/ TryCommand(e, r) \/ TryOther(e, r)
      BY <2>2 DEF Try
    <3>3. Skip(e, r) \/ \E matches \in BOOLEAN : Test(e, r, matches)
      <4>1. Calls(Names[r], Text(setup.typed)) \in BOOLEAN
        BY DEF Calls
      <4> QED
        BY <3>2, <4>1 DEF TryDialogue, TryCommand, TryOther
    <3> QED
      BY <3>1, <3>3, LoopKeepsTurns
  <2>3. CASE Begin(e) \/ Finish(e)
    BY <2>3, MovesKeepTurns DEF Begin, Finish
  <2>4. CASE Chain(e)
    BY <2>4, MovesKeepTurns DEF Chain
  <2>5. CASE CountIn(e)
    <3>1. Refused \in Outcomes
      BY DEF Refused, Outcomes
    <3> QED
      BY <2>5, <3>1, MovesKeepTurns DEF CountIn
  <2>6. CASE Handler(e)
    <3>1. phase[e] \in {"handler", "update"} /\ UNCHANGED routerVars
      BY <2>6 DEF Handler, Plain, TakeTurn, BeginOne, Load, Update, In
    <3>2. Refused \in Outcomes /\ Unsaved \in Outcomes
      BY DEF Refused, Unsaved, Outcomes
    <3>3. TurnEnds(e) => \E outcome \in Outcomes : Leave(e, outcome)
      BY DEF TurnEnds, Outcomes
    <3>4. \/ \E outcome \in Outcomes : Leave(e, outcome)
          \/ Goto(e, "update") /\ UNCHANGED <<list, pos, cur, stopped, owed, tested>>
      BY <2>6, <3>2, <3>3 DEF Handler, Plain, TakeTurn, BeginOne, Load, Update
    <3> QED
      BY <3>1, <3>4, MovesKeepTurns
  <2> QED
    BY <1>4, <2>1, <2>2, <2>3, <2>4, <2>5, <2>6 DEF Dispatch
<1> QED
  BY <1>1, <1>2, <1>3, <1>4 DEF Next

LEMMA RouteInit ==
  Init => RouteInv
BY DEF Init, RoutingInit, RouteInv, InTurn, Arranged, Registered

\* No complete route is missed or tried out of turn, whatever is registered
\* beside the dispatch and whenever the order is sorted anew (route.go:134-173).
THEOREM RoutesInTurn == Spec => []EveryRouteInTurn
<1>1. Spec => []TypeInv
  BY TypeInit, TypeStep, PTL DEF Spec
<1>2. Spec => []RouteInv
  BY <1>1, RouteInit, RouteStep, PTL DEF Spec
<1>3. TypeInv /\ RouteInv => EveryRouteInTurn
  BY InTurnSuffices
<1> QED
  BY <1>1, <1>2, <1>3, PTL

-----------------------------------------------------------------------------
(***************************************************************************)
(* CommandsAsTyped.  FoldLeft and FlattenSeq are recursive functions, so   *)
(* what they do is shown by induction on the length; the induction comes   *)
(* from a least number that fails (LeastNumber).                           *)
(***************************************************************************)

LEMMA MaxIn ==
  ASSUME NEW n \in Nat, NEW t, t \subseteq 1..n, t # {}
  PROVE  Max(t) \in t
<1> DEFINE D == {n - x : x \in t}
<1>1. D \subseteq Nat /\ D # {}
  <2>1. \A x \in t : n - x \in Nat
    OBVIOUS
  <2> QED BY <2>1
<1>2. PICK d \in D : \A e \in D : d <= e
  <2> HIDE DEF D
  <2> QED BY <1>1, LeastNumber
<1>3. PICK m \in t : d = n - m
  BY <1>2
<1>4. \A x \in t : m >= x
  <2> SUFFICES ASSUME NEW x \in t PROVE m >= x
    OBVIOUS
  <2>1. n - m <= n - x
    BY <1>2, <1>3
  <2> QED BY <2>1
<1> QED BY <1>4, Zenon DEF Max

LEMMA MaxIs ==
  ASSUME NEW t, t \subseteq Nat, NEW m \in t, \A x \in t : m >= x
  PROVE  Max(t) = m
<1>1. \E x \in t : \A y \in t : x >= y
  OBVIOUS
<1>2. Max(t) \in t /\ \A y \in t : Max(t) >= y
  BY <1>1, Zenon DEF Max
<1>3. Max(t) \in Nat /\ m \in Nat /\ Max(t) >= m /\ m >= Max(t)
  BY <1>2
<1> QED BY <1>3

\* The ways to fold the first n of a sequence q.
FoldsTo(n, X, step, b, q) ==
  {iter \in [SUBSET (1..n) -> X] : \A t \in SUBSET (1..n) :
     iter[t] = IF t = {} THEN b ELSE step[<<iter[t \ {Max(t)}], q[Max(t)]>>]}

LEMMA FoldExists ==
  ASSUME NEW X, NEW C, NEW step \in [X \X C -> X], NEW b \in X, NEW q \in Seq(C)
  PROVE  FoldsTo(Len(q), X, step, b, q) # {}
<1> DEFINE Folds(n) == FoldsTo(n, X, step, b, q)
           S == {n \in 0..Len(q) : Folds(n) # {}}
<1>0. Len(q) \in Nat /\ DOMAIN q = 1..Len(q) /\ q \in [1..Len(q) -> C]
  OBVIOUS
<1>1. 0 \in S
  <2>1. SUBSET (1..0) = {{}}
    OBVIOUS
  <2>2. [t \in SUBSET (1..0) |-> b] \in Folds(0)
    BY <2>1 DEF FoldsTo
  <2> HIDE DEF Folds
  <2> QED BY <1>0, <2>2
<1>2. ASSUME NEW n \in 0..(Len(q) - 1), n \in S
      PROVE  n + 1 \in S
  <2>1. PICK iter \in Folds(n) : TRUE
    BY <1>2
  <2> DEFINE new == [t \in SUBSET (1..(n + 1)) |->
                       IF n + 1 \in t THEN step[<<iter[t \ {n + 1}], q[n + 1]>>] ELSE iter[t]]
  <2>2. n \in Nat /\ n + 1 \in 1..Len(q) /\ q[n + 1] \in C
    BY <1>0
  <2>3. ASSUME NEW t \in SUBSET (1..(n + 1))
        PROVE  /\ new[t] \in X
               /\ new[t] = IF t = {} THEN b ELSE step[<<new[t \ {Max(t)}], q[Max(t)]>>]
    <3>1. CASE n + 1 \in t
      <4>1. \A x \in t : n + 1 >= x
        BY <2>2
      <4>2. Max(t) = n + 1
        <5>1. t \subseteq Nat
          BY <2>2
        <5> QED BY <3>1, <4>1, <5>1, MaxIs
      <4>3. t \ {n + 1} \in SUBSET (1..n) /\ t \ {n + 1} \in SUBSET (1..(n + 1))
        BY <2>2
      <4>4. iter[t \ {n + 1}] \in X /\ new[t \ {n + 1}] = iter[t \ {n + 1}]
        BY <4>3, <2>1 DEF FoldsTo
      <4> QED BY <3>1, <4>2, <4>4, <2>2
    <3>2. CASE n + 1 \notin t
      <4>0. \A x \in t : x \in 1..n
        BY <3>2, <2>2
      <4>1. t \in SUBSET (1..n) /\ t \ {Max(t)} \in SUBSET (1..n)
            /\ t \ {Max(t)} \in SUBSET (1..(n + 1)) /\ n + 1 \notin t \ {Max(t)}
        BY <4>0, <3>2, <2>2
      <4>2. new[t] = iter[t] /\ new[t \ {Max(t)}] = iter[t \ {Max(t)}] /\ iter[t] \in X
        BY <3>2, <4>1, <2>1 DEF FoldsTo
      <4> QED BY <4>1, <4>2, <2>1 DEF FoldsTo
    <3> QED BY <3>1, <3>2
  <2>4. new \in Folds(n + 1)
    <3> HIDE DEF new
    <3>1. DOMAIN new = SUBSET (1..(n + 1)) /\ new = [t \in SUBSET (1..(n + 1)) |-> new[t]]
      BY DEF new
    <3> QED BY <2>3, <3>1 DEF FoldsTo
  <2> HIDE DEF Folds, new
  <2> QED BY <1>0, <2>2, <2>4
<1>3. \A n \in 0..Len(q) : n \in S
  <2> HIDE DEF S
  <2> QED BY <1>0, <1>1, <1>2, UpTo
<1>4. Len(q) \in S
  <2> HIDE DEF S
  <2> QED BY <1>0, <1>3
<1> QED BY <1>0, <1>4

States == [out : Seq(Seq(Characters)), word : Seq(Characters), seen : BOOLEAN,
           quote : Quotes \cup {Bare}, escaped : BOOLEAN]

\* What a state of the splitter is.
Is(at, o, w, s, q, e) ==
  /\ at \in States
  /\ at.out = o /\ at.word = w /\ at.quote = q
  /\ at.seen <=> s
  /\ at.escaped <=> e

LEMMA GrowMeans ==
  ASSUME NEW at \in States, NEW c \in Characters
  PROVE  Is(Grow(at, c), at.out, Append(at.word, c), TRUE, at.quote, FALSE)
<1>1. Append(at.word, c) \in Seq(Characters)
  BY DEF States
<1> QED BY <1>1 DEF Grow, Is, States

LEMMA FlushMeans ==
  ASSUME NEW at \in States
  PROVE  /\ at.seen => Is(Flush(at), Append(at.out, at.word), <<>>, FALSE, at.quote, at.escaped)
         /\ ~at.seen => Flush(at) = at
<1>1. Append(at.out, at.word) \in Seq(Seq(Characters)) /\ <<>> \in Seq(Characters)
  BY DEF States
<1> QED BY <1>1 DEF Flush, Is, States

LEMMA ReadMeans ==
  ASSUME NEW at \in States, NEW c \in Characters
  PROVE  /\ at.escaped => Read(at, c) = Grow(at, c)
         /\ ~at.escaped =>
              /\ c = Backslash => Is(Read(at, c), at.out, at.word, TRUE, at.quote, TRUE)
              /\ c # Backslash /\ c = at.quote =>
                   Is(Read(at, c), at.out, at.word, TRUE, Bare, FALSE)
              /\ c # Backslash /\ c # at.quote /\ at.quote # Bare => Read(at, c) = Grow(at, c)
              /\ c # Backslash /\ at.quote = Bare =>
                   /\ c \in Quotes => Is(Read(at, c), at.out, at.word, TRUE, c, FALSE)
                   /\ c = Blank => Read(at, c) = Flush(at)
                   /\ c \notin Quotes \cup {Blank} => Read(at, c) = Grow(at, c)
<1>1. /\ Is([at EXCEPT !.escaped = TRUE, !.seen = TRUE], at.out, at.word, TRUE, at.quote, TRUE)
      /\ ~at.escaped => Is([at EXCEPT !.quote = Bare, !.seen = TRUE], at.out, at.word, TRUE, Bare, FALSE)
      /\ ~at.escaped /\ c \in Quotes =>
            Is([at EXCEPT !.quote = c, !.seen = TRUE], at.out, at.word, TRUE, c, FALSE)
  BY DEF States, Is
<1>2. c # Bare /\ Blank \notin Quotes
  BY CommandTextsAssumption
<1> QED BY <1>1, <1>2 DEF Read

LEMMA ReadType ==
  ASSUME NEW at \in States, NEW c \in Characters
  PROVE  Read(at, c) \in States
<1>1. Grow(at, c) \in States /\ Flush(at) \in States
  BY GrowMeans, FlushMeans DEF Is
<1> QED BY <1>1, ReadMeans DEF Is, States

\* What the splitter has after each character.
LEMMA ReadSteps ==
  ASSUME NEW b \in States, NEW q \in Seq(Characters)
  PROVE  \E f : /\ f[0] = b /\ f[Len(q)] = FoldLeft(Read, b, q)
                /\ \A i \in 1..Len(q) : f[i] = Read(f[i - 1], q[i])
<1> DEFINE step == [p \in States \X Characters |-> Read(p[1], p[2])]
           Solves(iter) == iter = [t \in SUBSET DOMAIN q |->
             IF t = {} THEN b ELSE Read(iter[t \ {Max(t)}], q[Max(t)])]
           fold == CHOOSE iter : Solves(iter)
<1>0. Len(q) \in Nat /\ DOMAIN q = 1..Len(q) /\ q \in [1..Len(q) -> Characters]
  OBVIOUS
<1>1. step \in [States \X Characters -> States]
  BY ReadType
<1>2. PICK iter \in FoldsTo(Len(q), States, step, b, q) : TRUE
  <2> HIDE DEF step
  <2> QED BY <1>1, FoldExists
<1>3. Solves(iter)
  <2>1. ASSUME NEW t \in SUBSET DOMAIN q, t # {}
        PROVE  step[<<iter[t \ {Max(t)}], q[Max(t)]>>] = Read(iter[t \ {Max(t)}], q[Max(t)])
    <3>1. iter[t \ {Max(t)}] \in States
      BY <1>0, <1>2 DEF FoldsTo
    <3>2. Max(t) \in t
      BY <1>0, <2>1, MaxIn
    <3> QED BY <3>1, <3>2, <1>0
  <2> QED BY <1>0, <1>2, <2>1 DEF FoldsTo
<1>4. Solves(fold)
  <2> HIDE DEF Solves
  <2> QED BY <1>3
<1>5. FoldLeft(Read, b, q) = fold[DOMAIN q]
  BY DEF FoldLeft, MapThenFoldSet
<1> DEFINE f == [i \in 0..Len(q) |-> fold[1..i]]
<1>6. f[0] = b /\ f[Len(q)] = FoldLeft(Read, b, q)
  <2>1. 1..0 = {}
    OBVIOUS
  <2> HIDE DEF fold
  <2> QED BY <1>0, <1>4, <1>5, <2>1
<1>7. ASSUME NEW i \in 1..Len(q)
      PROVE  f[i] = Read(f[i - 1], q[i])
  <2>0. i \in Nat /\ 1 <= i /\ i <= Len(q)
    BY <1>0
  <2>1. 1..i \in SUBSET DOMAIN q /\ 1..i # {} /\ (1..i) \ {i} = 1..(i - 1)
    <3>1. \A x \in 1..i : x \in 1..Len(q)
      BY <1>0, <2>0
    <3>2. i \in 1..i
      BY <2>0
    <3>3. \A x : x \in (1..i) \ {i} <=> x \in 1..(i - 1)
      BY <2>0
    <3>4. (1..i) \ {i} = 1..(i - 1)
      BY <3>3, Zenon
    <3> QED BY <1>0, <3>1, <3>2, <3>4, Zenon
  <2>2. Max(1..i) = i
    <3>1. 1..i \subseteq Nat /\ i \in 1..i /\ \A x \in 1..i : i >= x
      BY <2>0
    <3> QED BY <3>1, MaxIs
  <2>3. fold[1..i] = Read(fold[1..(i - 1)], q[i])
    <3> HIDE DEF fold
    <3> QED BY <1>0, <1>4, <2>1, <2>2
  <2>4. i \in 0..Len(q) /\ i - 1 \in 0..Len(q)
    BY <1>0
  <2> HIDE DEF fold
  <2> QED BY <2>3, <2>4
<1> HIDE DEF f
<1> QED BY <1>6, <1>7

\* A set of sequences that holds the empty one, and with a sequence all that are one
\* longer, holds all.
LEMMA AllSequences ==
  ASSUME NEW S, NEW P, <<>> \in P, \A s \in Seq(S) : s \in P => \A e \in S : Append(s, e) \in P
  PROVE  \A s \in Seq(S) : s \in P
<1> SUFFICES ASSUME NEW s \in Seq(S) PROVE s \in P
  OBVIOUS
<1> DEFINE F(i) == SubSeq(s, 1, i)
           L == {i \in 0..Len(s) : F(i) \in P}
<1>0. Len(s) \in Nat
  OBVIOUS
<1>1. 0 \in L
  <2>1. F(0) = <<>>
    OBVIOUS
  <2> HIDE DEF F
  <2> QED BY <1>0, <2>1
<1>2. ASSUME NEW i \in 0..(Len(s) - 1), i \in L
      PROVE  i + 1 \in L
  <2>1. F(i) \in Seq(S) /\ s[i + 1] \in S
    BY <1>0
  <2>2. F(i + 1) = Append(F(i), s[i + 1])
    BY <1>0
  <2> HIDE DEF F
  <2>3. F(i) \in P
    BY <1>2
  <2>4. F(i + 1) \in P
    BY <2>1, <2>2, <2>3
  <2> QED BY <1>0, <2>4
<1>3. Len(s) \in L
  <2> HIDE DEF L
  <2>1. \A i \in 0..Len(s) : i \in L
    BY <1>0, <1>1, <1>2, UpTo
  <2> QED BY <1>0, <2>1
<1>4. SubSeq(s, 1, Len(s)) = s
  OBVIOUS
<1> QED BY <1>3, <1>4

\* The splitter reads one character after the other.
LEMMA ReadAppend ==
  ASSUME NEW b \in States, NEW q \in Seq(Characters), NEW c \in Characters
  PROVE  /\ FoldLeft(Read, b, <<>>) = b
         /\ FoldLeft(Read, b, Append(q, c)) = Read(FoldLeft(Read, b, q), c)
<1> DEFINE p == Append(q, c)
<1>0. /\ Len(q) \in Nat /\ p \in Seq(Characters) /\ Len(p) = Len(q) + 1
      /\ \A i \in 1..Len(q) : p[i] = q[i]
      /\ p[Len(q) + 1] = c
  OBVIOUS
<1>1. PICK f : /\ f[0] = b /\ f[Len(q)] = FoldLeft(Read, b, q)
               /\ \A i \in 1..Len(q) : f[i] = Read(f[i - 1], q[i])
  BY ReadSteps
<1>2. PICK g : /\ g[0] = b /\ g[Len(p)] = FoldLeft(Read, b, p)
               /\ \A i \in 1..Len(p) : g[i] = Read(g[i - 1], p[i])
  <2> HIDE DEF p
  <2> QED BY <1>0, ReadSteps
<1> HIDE DEF p
<1> DEFINE S == {i \in 0..Len(q) : f[i] = g[i]}
<1>3. 0 \in S
  BY <1>0, <1>1, <1>2
<1>4. ASSUME NEW i \in 0..(Len(q) - 1), i \in S
      PROVE  i + 1 \in S
  <2>1. i + 1 \in 1..Len(q) /\ i + 1 \in 1..Len(p) /\ i + 1 - 1 = i
    BY <1>0
  <2>2. f[i + 1] = Read(f[i], q[i + 1]) /\ g[i + 1] = Read(g[i], p[i + 1])
    BY <1>1, <1>2, <2>1
  <2>3. p[i + 1] = q[i + 1] /\ f[i] = g[i]
    BY <1>0, <1>4, <2>1
  <2> QED BY <1>0, <2>1, <2>2, <2>3
<1>5. Len(q) \in S
  <2> HIDE DEF S
  <2>1. \A i \in 0..Len(q) : i \in S
    BY <1>0, <1>3, <1>4, UpTo
  <2> QED BY <1>0, <2>1
<1>6. FoldLeft(Read, b, p) = Read(FoldLeft(Read, b, q), c)
  <2>1. Len(q) + 1 \in 1..Len(p) /\ Len(q) + 1 - 1 = Len(q)
    BY <1>0
  <2>2. g[Len(q) + 1] = Read(g[Len(q)], p[Len(q) + 1])
    BY <1>2, <2>1
  <2>3. g[Len(q)] = f[Len(q)]
    BY <1>5
  <2> QED BY <1>0, <1>1, <1>2, <2>2, <2>3
<1>7. FoldLeft(Read, b, <<>>) = b
  <2>1. ASSUME NEW z \in Seq(Characters), Len(z) = 0
        PROVE  FoldLeft(Read, b, z) = b
    <3>1. PICK h : h[0] = b /\ h[Len(z)] = FoldLeft(Read, b, z)
      BY ReadSteps
    <3> QED BY <2>1, <3>1
  <2>2. <<>> \in Seq(Characters) /\ Len(<<>>) = 0
    OBVIOUS
  <2> QED BY <2>1, <2>2
<1> QED BY <1>6, <1>7 DEF p

\* What a sequence of sequences comes to after each of them.
LEMMA FlattenSteps ==
  ASSUME NEW C, NEW q \in Seq(Seq(C)), q # <<>>
  PROVE  \E f \in [1..Len(q) -> Seq(C)] :
           /\ f[1] = q[1] /\ f[Len(q)] = FlattenSeq(q)
           /\ \A i \in 1..(Len(q) - 1) : f[i + 1] = f[i] \o q[i + 1]
<1> DEFINE Solves(f) == f = [i \in 1..Len(q) |-> IF i = 1 THEN q[i] ELSE f[i - 1] \o q[i]]
           Upto(n) == {f \in [1..n -> Seq(C)] : \A i \in 1..n :
                         f[i] = IF i = 1 THEN q[i] ELSE f[i - 1] \o q[i]}
           S == {n \in 0..Len(q) : Upto(n) # {}}
           flatten == CHOOSE f : Solves(f)
<1>0. /\ Len(q) \in Nat \ {0} /\ DOMAIN q = 1..Len(q) /\ q \in [1..Len(q) -> Seq(C)]
  OBVIOUS
<1>1. 0 \in S
  <2>1. [i \in 1..0 |-> <<>>] \in Upto(0)
    OBVIOUS
  <2> HIDE DEF Upto
  <2> QED BY <1>0, <2>1
<1>2. ASSUME NEW n \in 0..(Len(q) - 1), n \in S
      PROVE  n + 1 \in S
  <2>1. PICK f \in Upto(n) : TRUE
    BY <1>2
  <2> DEFINE g == [i \in 1..(n + 1) |-> IF i = 1 THEN q[i] ELSE f[i - 1] \o q[i]]
  <2>2. n \in Nat /\ n + 1 \in 1..Len(q)
    BY <1>0
  <2>3. \A i \in 1..n : g[i] = f[i]
    <3>1. \A i \in 1..n : f[i] = IF i = 1 THEN q[i] ELSE f[i - 1] \o q[i]
      BY <2>1
    <3>2. \A i \in 1..n : i \in 1..(n + 1)
      BY <2>2
    <3> QED BY <3>1, <3>2
  <2>4. ASSUME NEW i \in 1..(n + 1)
        PROVE  g[i] \in Seq(C) /\ g[i] = IF i = 1 THEN q[i] ELSE g[i - 1] \o q[i]
    <3>1. CASE i = 1
      BY <1>0, <2>2, <3>1
    <3>2. CASE i # 1
      <4>1. i - 1 \in 1..n /\ i \in 1..Len(q)
        BY <2>2, <3>2
      <4>2. f[i - 1] \in Seq(C) /\ q[i] \in Seq(C) /\ g[i - 1] = f[i - 1]
        BY <1>0, <2>1, <2>3, <4>1
      <4>3. f[i - 1] \o q[i] \in Seq(C)
        BY <4>2
      <4> QED BY <3>2, <4>2, <4>3
    <3> QED BY <3>1, <3>2
  <2>5. g \in Upto(n + 1)
    <3>1. g = [i \in 1..(n + 1) |-> g[i]]
      OBVIOUS
    <3> HIDE DEF g
    <3> QED BY <2>4, <3>1
  <2> HIDE DEF Upto, g
  <2> QED BY <1>0, <2>2, <2>5
<1>3. Upto(Len(q)) # {}
  <2> HIDE DEF Upto
  <2> DEFINE T == S
  <2> HIDE DEF T
  <2>1. \A n \in 0..Len(q) : n \in T
    BY <1>0, <1>1, <1>2, UpTo DEF T
  <2>2. Len(q) \in S
    BY <1>0, <2>1 DEF T
  <2> QED BY <2>2
<1>4. PICK f \in Upto(Len(q)) : TRUE
  BY <1>3
<1>5. Solves(f)
  BY <1>4
<1>6. Solves(flatten)
  <2> HIDE DEF Solves
  <2> QED BY <1>5
<1>7. FlattenSeq(q) = flatten[Len(q)]
  BY <1>0 DEF FlattenSeq
<1>8. \A i \in 1..Len(q) : flatten[i] = IF i = 1 THEN q[i] ELSE flatten[i - 1] \o q[i]
  <2> HIDE DEF flatten
  <2> QED BY <1>6
<1> HIDE DEF flatten
<1> DEFINE W == {i \in 0..Len(q) : i # 0 => flatten[i] \in Seq(C)}
<1>9. \A i \in 1..Len(q) : flatten[i] \in Seq(C)
  <2>1. 0 \in W
    BY <1>0
  <2>2. ASSUME NEW i \in 0..(Len(q) - 1), i \in W
        PROVE  i + 1 \in W
    <3>1. i + 1 \in 1..Len(q) /\ q[i + 1] \in Seq(C)
      BY <1>0
    <3>2. flatten[i + 1] = IF i + 1 = 1 THEN q[i + 1] ELSE flatten[i] \o q[i + 1]
      BY <1>8, <3>1
    <3>3. CASE i = 0
      BY <3>1, <3>2, <3>3
    <3>4. CASE i # 0
      <4>1. flatten[i] \in Seq(C)
        BY <2>2, <3>4
      <4>2. flatten[i] \o q[i + 1] \in Seq(C)
        BY <3>1, <4>1
      <4>3. i + 1 # 1
        BY <1>0, <3>4
      <4>4. flatten[i + 1] \in Seq(C)
        BY <3>2, <4>2, <4>3
      <4> QED BY <3>1, <4>4
    <3> QED BY <3>3, <3>4
  <2>3. \A i \in 0..Len(q) : i \in W
    <3> HIDE DEF W
    <3> QED BY <1>0, <2>1, <2>2, UpTo
  <2> QED BY <2>3
<1> DEFINE h == [i \in 1..Len(q) |-> flatten[i]]
<1>10. h \in [1..Len(q) -> Seq(C)] /\ h[1] = q[1] /\ h[Len(q)] = FlattenSeq(q)
  BY <1>0, <1>7, <1>8, <1>9
<1>11. ASSUME NEW i \in 1..(Len(q) - 1)
       PROVE  h[i + 1] = h[i] \o q[i + 1]
  <2>1. i \in 1..Len(q) /\ i + 1 \in 1..Len(q) /\ i + 1 - 1 = i /\ i + 1 # 1
    BY <1>0
  <2>2. flatten[i + 1] = flatten[i] \o q[i + 1]
    <3>1. PICK j \in 1..Len(q) : j = i + 1
      BY <2>1
    <3>2. flatten[j] = flatten[j - 1] \o q[j]
      BY <1>8, <2>1, <3>1
    <3>3. j - 1 = i
      BY <3>1
    <3> QED BY <3>1, <3>2, <3>3
  <2> QED BY <2>1, <2>2
<1> HIDE DEF h
<1> QED BY <1>10, <1>11

LEMMA FlattenAppend ==
  ASSUME NEW C, NEW q \in Seq(Seq(C)), NEW e \in Seq(C)
  PROVE  /\ FlattenSeq(<<>>) = <<>>
         /\ FlattenSeq(q) \in Seq(C)
         /\ FlattenSeq(Append(q, e)) = FlattenSeq(q) \o e
<1> DEFINE p == Append(q, e)
<1>0. /\ Len(q) \in Nat /\ p \in Seq(Seq(C)) /\ Len(p) = Len(q) + 1 /\ p # <<>>
      /\ \A i \in 1..Len(q) : p[i] = q[i]
      /\ p[Len(q) + 1] = e
  BY AppendProperties, LenProperties
<1>1. PICK g \in [1..Len(p) -> Seq(C)] :
           /\ g[1] = p[1] /\ g[Len(p)] = FlattenSeq(p)
           /\ \A i \in 1..(Len(p) - 1) : g[i + 1] = g[i] \o p[i + 1]
  <2> HIDE DEF p
  <2> QED BY <1>0, FlattenSteps
<1>2. FlattenSeq(<<>>) = <<>>
  BY DEF FlattenSeq
<1>3. CASE q = <<>>
  <2>1. Len(q) = 0 /\ FlattenSeq(p) = e
    <3>1. Len(q) = 0
      BY <1>3
    <3> HIDE DEF p
    <3> QED BY <1>0, <1>1, <3>1
  <2>2. <<>> \o e = e /\ <<>> \in Seq(C)
    OBVIOUS
  <2> QED BY <1>2, <1>3, <2>1, <2>2
<1>4. CASE q # <<>>
  <2>1. PICK f \in [1..Len(q) -> Seq(C)] :
           /\ f[1] = q[1] /\ f[Len(q)] = FlattenSeq(q)
           /\ \A i \in 1..(Len(q) - 1) : f[i + 1] = f[i] \o q[i + 1]
    BY <1>4, FlattenSteps
  <2> HIDE DEF p
  <2>2. Len(q) \in Nat \ {0}
    BY <1>4
  <2> DEFINE S == {i \in 0..Len(q) : i # 0 => f[i] = g[i]}
  <2>3. 0 \in S
    BY <2>2
  <2>4. ASSUME NEW i \in 0..(Len(q) - 1), i \in S
        PROVE  i + 1 \in S
    <3>1. CASE i = 0
      BY <1>0, <1>1, <2>1, <2>2, <3>1
    <3>2. CASE i # 0
      <4>1. i \in 1..(Len(q) - 1) /\ i \in 1..(Len(p) - 1) /\ i + 1 \in 1..Len(q)
        BY <1>0, <2>2, <3>2
      <4>2. f[i] = g[i] /\ p[i + 1] = q[i + 1]
        BY <1>0, <2>4, <3>2, <4>1
      <4>3. f[i + 1] = f[i] \o q[i + 1] /\ g[i + 1] = g[i] \o p[i + 1]
        BY <1>1, <2>1, <4>1
      <4>4. f[i + 1] = g[i + 1]
        BY <4>2, <4>3
      <4> QED BY <4>1, <4>4
    <3> QED BY <3>1, <3>2
  <2>5. f[Len(q)] = g[Len(q)]
    <3>1. \A i \in 0..Len(q) : i \in S
      <4>1. Len(q) \in Nat
        BY <1>0
      <4> HIDE DEF S
      <4> QED BY <2>3, <2>4, <4>1, UpTo
    <3>2. Len(q) \in 0..Len(q)
      BY <2>2
    <3>3. Len(q) \in S
      BY <3>1, <3>2
    <3> QED BY <2>2, <3>3
  <2>6. Len(q) \in 1..(Len(p) - 1)
    BY <1>0, <2>2
  <2>7. FlattenSeq(p) = g[Len(q)] \o e
    BY <1>0, <1>1, <2>6
  <2>8. FlattenSeq(q) \in Seq(C)
    <3>1. Len(q) \in 1..Len(q)
      BY <2>2
    <3> QED BY <2>1, <3>1
  <2> QED BY <1>2, <2>1, <2>5, <2>7, <2>8 DEF p
<1> QED BY <1>3, <1>4

-----------------------------------------------------------------------------
\* The pieces that F makes of the elements of s, in their order.
Pieces(F, s) == [i \in DOMAIN s |-> F[s[i]]]

LEMMA PiecesAppend ==
  ASSUME NEW D, NEW F \in [D -> Seq(Characters)], NEW s \in Seq(D), NEW d \in D
  PROVE  /\ FlattenSeq(Pieces(F, <<>>)) = <<>>
         /\ FlattenSeq(Pieces(F, s)) \in Seq(Characters)
         /\ FlattenSeq(Pieces(F, Append(s, d))) = FlattenSeq(Pieces(F, s)) \o F[d]
<1>1. \A t \in Seq(D) : /\ Pieces(F, t) \in Seq(Seq(Characters)) /\ Len(Pieces(F, t)) = Len(t)
                        /\ \A i \in 1..Len(t) : Pieces(F, t)[i] = F[t[i]]
  <2> SUFFICES ASSUME NEW t \in Seq(D)
               PROVE  /\ Pieces(F, t) \in Seq(Seq(Characters)) /\ Len(Pieces(F, t)) = Len(t)
                      /\ \A i \in 1..Len(t) : Pieces(F, t)[i] = F[t[i]]
    OBVIOUS
  <2>1. DOMAIN t = 1..Len(t) /\ Len(t) \in Nat /\ \A i \in 1..Len(t) : t[i] \in D
    OBVIOUS
  <2>2. Pieces(F, t) \in [1..Len(t) -> Seq(Characters)]
    BY <2>1 DEF Pieces
  <2>3. Pieces(F, t) \in Seq(Seq(Characters))
    <3>1. Seq(Seq(Characters)) = UNION {[1..n -> Seq(Characters)] : n \in Nat}
      BY SeqDef
    <3> QED BY <2>1, <2>2, <3>1
  <2> QED BY <2>1, <2>2, <2>3, LenProperties DEF Pieces
<1> DEFINE a == Pieces(F, Append(s, d))
           b == Append(Pieces(F, s), F[d])
<1>2. /\ Len(s) \in Nat /\ Append(s, d) \in Seq(D) /\ Len(Append(s, d)) = Len(s) + 1
      /\ \A i \in 1..Len(s) : Append(s, d)[i] = s[i]
      /\ Append(s, d)[Len(s) + 1] = d
  OBVIOUS
<1>3. F[d] \in Seq(Characters) /\ Pieces(F, s) \in Seq(Seq(Characters)) /\ Len(Pieces(F, s)) = Len(s)
  BY <1>1
<1>4. /\ b \in Seq(Seq(Characters)) /\ Len(b) = Len(s) + 1
      /\ \A i \in 1..Len(s) : b[i] = Pieces(F, s)[i]
      /\ b[Len(s) + 1] = F[d]
  BY <1>3, AppendProperties
<1>5. \A i \in 1..(Len(s) + 1) : a[i] = b[i]
  <2>1. \A i \in 1..(Len(s) + 1) : a[i] = F[Append(s, d)[i]]
    BY <1>1, <1>2
  <2>2. \A i \in 1..Len(s) : b[i] = F[s[i]]
    BY <1>1, <1>4
  <2>3. a[Len(s) + 1] = b[Len(s) + 1]
    BY <1>2, <1>4, <2>1
  <2>4. \A i \in 1..Len(s) : a[i] = b[i]
    <3> HIDE DEF a, b
    <3>1. \A i \in 1..Len(s) : i \in 1..(Len(s) + 1)
      BY <1>2
    <3> QED BY <1>2, <2>1, <2>2, <3>1
  <2>5. \A i \in 1..(Len(s) + 1) : i \in 1..Len(s) \/ i = Len(s) + 1
    BY <1>2
  <2> HIDE DEF a, b
  <2> QED BY <2>3, <2>4, <2>5
<1>6. a = b
  <2> HIDE DEF b
  <2> QED BY <1>1, <1>2, <1>4, <1>5, SeqEqual, ZenonT(60)
<1>7. Pieces(F, <<>>) = <<>>
  BY DEF Pieces
<1> HIDE DEF a, b
<1>8. FlattenSeq(b) = FlattenSeq(Pieces(F, s)) \o F[d]
  BY <1>3, FlattenAppend DEF b
<1> QED BY <1>3, <1>6, <1>7, <1>8, FlattenAppend DEF a

Piece(c, style) == IF Special(c, style) THEN <<Backslash, c>> ELSE <<c>>

\* What is typed for a word grows with the word.
LEMMA EscapedAppend ==
  ASSUME NEW style, NEW w \in Seq(Characters), NEW c \in Characters
  PROVE  /\ Escaped(<<>>, style) = <<>>
         /\ Escaped(w, style) \in Seq(Characters)
         /\ Escaped(Append(w, c), style) = Escaped(w, style) \o Piece(c, style)
<1> DEFINE F == [d \in Characters |-> Piece(d, style)]
<1>1. F \in [Characters -> Seq(Characters)]
  <2>1. Backslash \in Characters
    BY DEF Characters
  <2>2. \A d \in Characters : <<Backslash, d>> \in Seq(Characters) /\ <<d>> \in Seq(Characters)
    BY <2>1
  <2>3. \A d \in Characters : Piece(d, style) \in Seq(Characters)
    BY <2>2 DEF Piece
  <2> QED BY <2>3
<1>2. ASSUME NEW s \in Seq(Characters)
      PROVE  Escaped(s, style) = FlattenSeq(Pieces(F, s))
  <2>1. \A i \in DOMAIN s : s[i] \in Characters
    OBVIOUS
  <2>2. Pieces(F, s) = [i \in DOMAIN s |-> Piece(s[i], style)]
    BY <2>1 DEF Pieces
  <2> HIDE DEF F
  <2> QED BY <2>2 DEF Escaped, Piece
<1>3. <<>> \in Seq(Characters) /\ Append(w, c) \in Seq(Characters) /\ F[c] = Piece(c, style)
  OBVIOUS
<1> HIDE DEF F
<1>4. /\ FlattenSeq(Pieces(F, <<>>)) = <<>>
      /\ FlattenSeq(Pieces(F, w)) \in Seq(Characters)
      /\ FlattenSeq(Pieces(F, Append(w, c))) = FlattenSeq(Pieces(F, w)) \o F[c]
  BY <1>1, PiecesAppend
<1> QED BY <1>2, <1>3, <1>4

\* The same for words.
LEMMA RestAppend ==
  ASSUME NEW style \in Quotes \cup {Bare}, NEW ws \in Seq(Seq(Characters)),
         NEW w \in Seq(Characters)
  PROVE  /\ Rest(<<>>, style) = <<>>
         /\ Rest(ws, style) \in Seq(Characters)
         /\ Typed(w, style) \in Seq(Characters)
         /\ Rest(Append(ws, w), style) = Rest(ws, style) \o (<<Blank>> \o Typed(w, style))
<1> DEFINE F == [v \in Seq(Characters) |-> <<Blank>> \o Typed(v, style)]
<1>0. Blank \in Characters /\ (style # Bare => style \in Characters)
  BY DEF Characters
<1>1. \A v \in Seq(Characters) : Typed(v, style) \in Seq(Characters)
  <2> SUFFICES ASSUME NEW v \in Seq(Characters) PROVE Typed(v, style) \in Seq(Characters)
    OBVIOUS
  <2>1. Escaped(v, style) \in Seq(Characters)
    BY <1>0, EscapedAppend
  <2> QED BY <1>0, <2>1 DEF Typed
<1>2. F \in [Seq(Characters) -> Seq(Characters)]
  BY <1>0, <1>1
<1>3. ASSUME NEW s \in Seq(Seq(Characters))
      PROVE  Rest(s, style) = FlattenSeq(Pieces(F, s))
  <2>1. \A i \in DOMAIN s : s[i] \in Seq(Characters)
    OBVIOUS
  <2>2. Pieces(F, s) = [i \in DOMAIN s |-> <<Blank>> \o Typed(s[i], style)]
    BY <2>1 DEF Pieces
  <2> HIDE DEF F
  <2> QED BY <2>2 DEF Rest
<1>4. /\ <<>> \in Seq(Seq(Characters)) /\ Append(ws, w) \in Seq(Seq(Characters))
      /\ F[w] = <<Blank>> \o Typed(w, style)
  OBVIOUS
<1> HIDE DEF F
<1>5. /\ FlattenSeq(Pieces(F, <<>>)) = <<>>
      /\ FlattenSeq(Pieces(F, ws)) \in Seq(Characters)
      /\ FlattenSeq(Pieces(F, Append(ws, w))) = FlattenSeq(Pieces(F, ws)) \o F[w]
  BY <1>2, PiecesAppend
<1> QED BY <1>1, <1>3, <1>4, <1>5

-----------------------------------------------------------------------------
\* A word that is being read, within its quotes if it has some.
LEMMA ConcatAppend ==
  ASSUME NEW x \in Seq(Characters), NEW y \in Seq(Characters), NEW c \in Characters
  PROVE  /\ x \o Append(y, c) = Append(x \o y, c)
         /\ x \o y \in Seq(Characters) /\ Append(y, c) \in Seq(Characters)
<1>1. <<c>> \in Seq(Characters) /\ x \o y \in Seq(Characters) /\ Append(y, c) \in Seq(Characters)
  OBVIOUS
<1>2. x \o Append(y, c) = x \o (y \o <<c>>)
  BY AppendIsConcat
<1>3. Append(x \o y, c) = (x \o y) \o <<c>>
  BY <1>1, AppendIsConcat
<1>4. (x \o y) \o <<c>> = x \o (y \o <<c>>)
  BY <1>1, ConcatAssociative
<1> QED BY <1>1, <1>2, <1>3, <1>4

LEMMA AroundBlank ==
  ASSUME NEW x \in Seq(Characters), NEW y \in Seq(Characters), NEW c \in Characters
  PROVE  (<<c>> \o x) \o (<<c>> \o y) = <<c>> \o (Append(x, c) \o y)
<1> DEFINE z == <<c>>
<1>1. z \in Seq(Characters) /\ z \o y \in Seq(Characters) /\ x \o z \in Seq(Characters)
  OBVIOUS
<1>2. x \o z = Append(x, c)
  BY AppendIsConcat
<1> HIDE DEF z
<1>3. (z \o x) \o (z \o y) = z \o (x \o (z \o y))
  <2> DEFINE zy == z \o y
  <2>1. zy \in Seq(Characters)
    BY <1>1
  <2> HIDE DEF zy
  <2>2. (z \o x) \o zy = z \o (x \o zy)
    BY <1>1, <2>1, ConcatAssociative
  <2> QED BY <2>2 DEF zy
<1>4. x \o (z \o y) = (x \o z) \o y
  BY <1>1, ConcatAssociative
<1>5. (z \o x) \o (z \o y) = z \o (Append(x, c) \o y)
  BY <1>2, <1>3, <1>4
<1> QED BY <1>5 DEF z

LEMMA EscapedRead ==
  ASSUME NEW at0 \in Seq(Characters), NEW o \in Seq(Seq(Characters)), NEW s \in BOOLEAN,
         NEW style \in Quotes \cup {Bare},
         Is(FoldLeft(Read, Start, at0), o, <<>>, s, style, FALSE)
  PROVE  \A w \in Seq(Characters) :
           Is(FoldLeft(Read, Start, at0 \o Escaped(w, style)), o, w, s \/ w # <<>>, style, FALSE)
<1> DEFINE After(w) == FoldLeft(Read, Start, at0 \o Escaped(w, style))
           P == {w \in Seq(Characters) : Is(After(w), o, w, s \/ w # <<>>, style, FALSE)}
<1>0. Start \in States
  BY DEF Start, States
<1>1. <<>> \in P
  <2>1. Escaped(<<>>, style) = <<>>
    <3>1. Blank \in Characters /\ <<>> \in Seq(Characters)
      BY DEF Characters
    <3> QED BY <3>1, EscapedAppend
  <2>2. at0 \o <<>> = at0
    OBVIOUS
  <2>3. After(<<>>) = FoldLeft(Read, Start, at0)
    BY <2>1, <2>2
  <2>4. <<>> \in Seq(Characters)
    OBVIOUS
  <2> HIDE DEF After
  <2> QED BY <2>3, <2>4 DEF Is
<1>2. ASSUME NEW w \in Seq(Characters), w \in P, NEW c \in Characters
      PROVE  Append(w, c) \in P
  <2> DEFINE e == Escaped(w, style)
             q == at0 \o e
  <2>1. e \in Seq(Characters) /\ Escaped(Append(w, c), style) = e \o Piece(c, style)
    BY EscapedAppend
  <2>2. q \in Seq(Characters) /\ Backslash \in Characters
    BY <2>1 DEF Characters
  <2>3. Is(FoldLeft(Read, Start, q), o, w, s \/ w # <<>>, style, FALSE)
    BY <1>2
  <2> DEFINE at == FoldLeft(Read, Start, q)
  <2> SUFFICES Is(After(Append(w, c)), o, Append(w, c), TRUE, style, FALSE)
    <3>1. Append(w, c) \in Seq(Characters) /\ Append(w, c) # <<>>
      OBVIOUS
    <3> HIDE DEF After
    <3> QED BY <3>1 DEF Is
  <2>4. at \in States /\ at.out = o /\ at.word = w /\ at.quote = style /\ ~at.escaped
    BY <2>3 DEF Is
  <2>5. CASE Special(c, style)
    <3>1. at0 \o Escaped(Append(w, c), style) = Append(Append(q, Backslash), c)
      <4>1. Escaped(Append(w, c), style) = e \o <<Backslash, c>>
        BY <2>1, <2>5 DEF Piece
      <4> HIDE DEF e
      <4>2. e \o <<Backslash, c>> = Append(Append(e, Backslash), c)
        BY <2>1, <2>2
      <4>3. at0 \o Append(Append(e, Backslash), c) = Append(Append(at0 \o e, Backslash), c)
        <5>1. /\ at0 \o Append(e, Backslash) = Append(at0 \o e, Backslash)
              /\ Append(e, Backslash) \in Seq(Characters)
          BY <2>1, <2>2, ConcatAppend
        <5>2. at0 \o Append(Append(e, Backslash), c) = Append(at0 \o Append(e, Backslash), c)
          BY <5>1, ConcatAppend
        <5> QED BY <5>1, <5>2
      <4> QED BY <4>1, <4>2, <4>3
    <3> DEFINE mid == FoldLeft(Read, Start, Append(q, Backslash))
    <3>2. mid = Read(at, Backslash)
      BY <1>0, <2>2, ReadAppend
    <3>3. After(Append(w, c)) = Read(mid, c)
      <4>1. Append(q, Backslash) \in Seq(Characters)
        BY <2>2
      <4>2. FoldLeft(Read, Start, Append(Append(q, Backslash), c)) = Read(mid, c)
        <5> HIDE DEF q
        <5> QED BY <1>0, <4>1, ReadAppend
      <4> QED BY <3>1, <4>2
    <3> HIDE DEF at, mid, After
    <3>4. Is(mid, o, w, TRUE, style, TRUE)
      BY <2>2, <2>4, <3>2, ReadMeans
    <3>5. After(Append(w, c)) = Grow(mid, c)
      BY <3>3, <3>4, ReadMeans DEF Is
    <3>6. Is(Grow(mid, c), mid.out, Append(mid.word, c), TRUE, mid.quote, FALSE)
      BY <3>4, GrowMeans DEF Is
    <3>7. mid.out = o /\ mid.word = w /\ mid.quote = style
      BY <3>4 DEF Is
    <3> QED BY <3>5, <3>6, <3>7
  <2>6. CASE ~Special(c, style)
    <3>1. at0 \o Escaped(Append(w, c), style) = Append(q, c)
      BY <2>1, <2>2, <2>6 DEF Piece
    <3>2. After(Append(w, c)) = Read(at, c)
      <4>1. FoldLeft(Read, Start, Append(q, c)) = Read(at, c)
        <5> HIDE DEF q
        <5> QED BY <1>0, <2>2, ReadAppend
      <4> QED BY <3>1, <4>1
    <3>3. /\ c # Backslash
          /\ style = Bare => c \notin Quotes \cup {Blank}
          /\ style # Bare => c # style
      BY <2>6 DEF Special
    <3> HIDE DEF at, After
    <3>4. After(Append(w, c)) = Grow(at, c)
      BY <2>4, <3>2, <3>3, ReadMeans
    <3>5. Is(Grow(at, c), at.out, Append(at.word, c), TRUE, at.quote, FALSE)
      BY <2>4, GrowMeans
    <3> QED BY <2>4, <3>4, <3>5
  <2> QED BY <2>5, <2>6
<1> HIDE DEF P
<1>3. \A w \in Seq(Characters) : w \in P
  BY <1>1, <1>2, AllSequences
<1> QED BY <1>3 DEF P

\* A word that is read with its quotes.
LEMMA TypedRead ==
  ASSUME NEW at0 \in Seq(Characters), NEW o \in Seq(Seq(Characters)),
         NEW style \in Quotes \cup {Bare}, NEW w \in Seq(Characters),
         style = Bare => w # <<>>,
         Is(FoldLeft(Read, Start, at0), o, <<>>, FALSE, Bare, FALSE)
  PROVE  Is(FoldLeft(Read, Start, at0 \o Typed(w, style)), o, w, TRUE, Bare, FALSE)
<1>0. Start \in States
  BY DEF Start, States
<1>1. CASE style = Bare
  <2>1. Is(FoldLeft(Read, Start, at0), o, <<>>, FALSE, style, FALSE)
    BY <1>1
  <2>2. Is(FoldLeft(Read, Start, at0 \o Escaped(w, style)), o, w, FALSE \/ w # <<>>, style, FALSE)
    BY <2>1, EscapedRead
  <2> QED BY <1>1, <2>2 DEF Typed, Is
<1>2. CASE style # Bare
  <2> DEFINE at1 == Append(at0, style)
             e == Escaped(w, style)
             q == at1 \o e
             a == FoldLeft(Read, Start, at0)
             b == FoldLeft(Read, Start, at1)
             c == FoldLeft(Read, Start, q)
  <2>1. style \in Quotes /\ style \in Characters /\ style # Backslash
    BY <1>2, CommandTextsAssumption DEF Characters
  <2>2. e \in Seq(Characters)
    BY <2>1, EscapedAppend
  <2>3. at1 \in Seq(Characters) /\ q \in Seq(Characters)
    BY <2>1, <2>2
  <2>4. at0 \o Typed(w, style) = Append(q, style)
    <3>1. Typed(w, style) = (<<style>> \o e) \o <<style>>
      BY <1>2 DEF Typed
    <3>2. <<style>> \in Seq(Characters) /\ <<style>> \o e \in Seq(Characters)
      BY <2>1, <2>2
    <3> HIDE DEF e
    <3>3. (<<style>> \o e) \o <<style>> = Append(<<style>> \o e, style)
      BY <2>1, <3>2, AppendIsConcat
    <3>4. at0 \o Append(<<style>> \o e, style) = Append(at0 \o (<<style>> \o e), style)
      BY <2>1, <3>2, ConcatAppend
    <3>5. at0 \o (<<style>> \o e) = (at0 \o <<style>>) \o e
      BY <2>2, <3>2, ConcatAssociative, SMTT(30)
    <3>6. at0 \o <<style>> = at1
      BY <2>1, AppendIsConcat
    <3> QED BY <3>1, <3>3, <3>4, <3>5, <3>6
  <2>5. b = Read(a, style)
    BY <1>0, <2>1, ReadAppend
  <2>6. Is(b, o, <<>>, TRUE, style, FALSE)
    <3> HIDE DEF a, b
    <3>1. a \in States /\ a.out = o /\ a.word = <<>> /\ a.quote = Bare /\ ~a.escaped
      BY DEF a, Is
    <3> QED BY <2>1, <2>5, <3>1, ReadMeans
  <2>7. Is(c, o, w, TRUE, style, FALSE)
    <3>1. Is(FoldLeft(Read, Start, at1), o, <<>>, TRUE, style, FALSE)
      BY <2>6
    <3> HIDE DEF at1
    <3>2. Is(FoldLeft(Read, Start, at1 \o Escaped(w, style)), o, w, TRUE \/ w # <<>>, style, FALSE)
      BY <2>3, <3>1, EscapedRead
    <3> QED BY <3>2
  <2>8. FoldLeft(Read, Start, Append(q, style)) = Read(c, style)
    <3> HIDE DEF q
    <3> QED BY <1>0, <2>1, <2>3, ReadAppend
  <2>9. Is(Read(c, style), o, w, TRUE, Bare, FALSE)
    <3> HIDE DEF c
    <3>1. c \in States /\ c.out = o /\ c.word = w /\ c.quote = style /\ ~c.escaped
      BY <2>7 DEF Is
    <3> QED BY <2>1, <3>1, ReadMeans
  <2> QED BY <2>4, <2>8, <2>9
<1> QED BY <1>1, <1>2

\* It begins with no blank, and ends with none unless a bare word does.
LEMMA TypedEnds ==
  ASSUME NEW style \in Quotes \cup {Bare}, NEW w \in Seq(Characters),
         style = Bare => w # <<>>
  PROVE  /\ Typed(w, style) \in Seq(Characters) /\ Typed(w, style) # <<>>
         /\ Typed(w, style)[1] # Blank
         /\ (style = Bare => Last(w) # Blank) =>
              Typed(w, style)[Len(Typed(w, style))] # Blank
<1>0. /\ Blank \in Characters /\ Backslash \in Characters /\ Blank # Backslash
      /\ Blank \notin Quotes
      /\ style # Bare => style \in Quotes /\ style \in Characters /\ style # Blank
  BY CommandTextsAssumption DEF Characters
<1>1. \A v \in Seq(Characters) : Escaped(v, style) \in Seq(Characters)
  BY <1>0, EscapedAppend
<1>2. CASE style = Bare
  <2> DEFINE P == {v \in Seq(Characters) : v # <<>> =>
                     /\ Len(Escaped(v, Bare)) > 0
                     /\ Escaped(v, Bare)[1] # Blank
                     /\ Last(v) # Blank => Escaped(v, Bare)[Len(Escaped(v, Bare))] # Blank}
  <2>1. <<>> \in P
    OBVIOUS
  <2>2. ASSUME NEW v \in Seq(Characters), v \in P, NEW c \in Characters
        PROVE  Append(v, c) \in P
    <3> DEFINE e == Escaped(v, Bare)
               p == Piece(c, Bare)
    <3>1. e \in Seq(Characters) /\ Escaped(Append(v, c), Bare) = e \o p
      BY <1>2, EscapedAppend
    <3>2. /\ p \in Seq(Characters) /\ Len(p) > 0 /\ p[1] # Blank
          /\ p[Len(p)] = c
      BY <1>0 DEF Piece, Special
    <3>3. Append(v, c) \in Seq(Characters) /\ Last(Append(v, c)) = c
      BY DEF Last
    <3>4. v = <<>> => e = <<>>
      BY <1>0, <1>2, EscapedAppend
    <3> HIDE DEF p
    <3>5. v # <<>> => Len(e) > 0 /\ e[1] # Blank
      BY <2>2
    <3> HIDE DEF e
    <3>6. Len(e \o p) > 0 /\ (e \o p)[1] # Blank
      <4>1. CASE v = <<>>
        BY <3>1, <3>2, <3>4, <4>1
      <4>2. CASE v # <<>>
        BY <3>1, <3>2, <3>5, <4>2
      <4> QED BY <4>1, <4>2
    <3>7. (e \o p)[Len(e \o p)] = c
      BY <3>1, <3>2
    <3> QED BY <3>1, <3>3, <3>6, <3>7
  <2>3. \A v \in Seq(Characters) : v \in P
    <3> HIDE DEF P
    <3> QED BY <2>1, <2>2, AllSequences
  <2>4. Typed(w, style) = Escaped(w, Bare)
    BY <1>2 DEF Typed
  <2>5. Escaped(w, Bare) # <<>>
    BY <1>2, <2>3
  <2> QED BY <1>1, <1>2, <2>3, <2>4, <2>5
<1>3. CASE style # Bare
  <2> DEFINE e == Escaped(w, style)
  <2>1. Typed(w, style) = <<style>> \o e \o <<style>> /\ e \in Seq(Characters)
    BY <1>1, <1>3 DEF Typed
  <2> HIDE DEF e
  <2>2. style \in Characters
    BY <1>0, <1>3
  <2> DEFINE t == <<style>> \o e \o <<style>>
  <2>3. t \in Seq(Characters) /\ Len(t) = Len(e) + 2 /\ t[1] = style /\ t[Len(e) + 2] = style
    BY <2>1, <2>2
  <2> HIDE DEF t
  <2>4. t # <<>>
    BY <2>1, <2>3
  <2> QED BY <1>0, <1>3, <2>1, <2>3, <2>4 DEF t
<1> QED BY <1>2, <1>3

\* What is typed for words, after its leading blank, and what the splitter has then.
Spells(a, words, style) ==
  /\ a \in Seq(Characters) /\ a # <<>> /\ a[1] # Blank
  /\ (style = Bare => Last(Last(words)) # Blank) => a[Len(a)] # Blank
  /\ \E o \in Seq(Seq(Characters)), w \in Seq(Characters) :
       /\ Is(FoldLeft(Read, Start, a), o, w, TRUE, Bare, FALSE)
       /\ Append(o, w) = words

LEMMA RestRead ==
  ASSUME NEW style \in Quotes \cup {Bare}, NEW words \in Seq(Seq(Characters)),
         words # <<>>, style = Bare => \A i \in DOMAIN words : words[i] # <<>>
  PROVE  \E a : Rest(words, style) = <<Blank>> \o a /\ Spells(a, words, style)
<1> DEFINE W == {w \in Seq(Characters) : style = Bare => w # <<>>}
           P == {ws \in Seq(W) : ws # <<>> =>
                   \E a : Rest(ws, style) = <<Blank>> \o a /\ Spells(a, ws, style)}
<1>0. /\ Blank \in Characters /\ Blank # Backslash /\ Blank \notin Quotes /\ Blank # Bare
      /\ Start \in States /\ <<>> \in Seq(Characters)
      /\ Is(Start, <<>>, <<>>, FALSE, Bare, FALSE)
  BY CommandTextsAssumption DEF Characters, Start, States, Is
<1>1. \A ws \in Seq(W) : ws \in Seq(Seq(Characters))
  <2>1. W \subseteq Seq(Characters)
    OBVIOUS
  <2> HIDE DEF W
  <2> QED BY <2>1, SeqMonotonic
<1>2. <<>> \in P
  OBVIOUS
<1>3. ASSUME NEW ws \in Seq(W), ws \in P, NEW w \in W
      PROVE  Append(ws, w) \in P
  <2> DEFINE t == Typed(w, style)
  <2>1. ws \in Seq(Seq(Characters)) /\ w \in Seq(Characters) /\ (style = Bare => w # <<>>)
    BY <1>1
  <2>2. /\ t \in Seq(Characters) /\ t # <<>> /\ t[1] # Blank
        /\ (style = Bare => Last(w) # Blank) => t[Len(t)] # Blank
    BY <2>1, TypedEnds
  <2>3. Rest(Append(ws, w), style) = Rest(ws, style) \o (<<Blank>> \o t) /\ Rest(<<>>, style) = <<>>
    BY <2>1, RestAppend
  <2>4. Append(ws, w) \in Seq(W) /\ Last(Append(ws, w)) = w
    <3>1. Append(ws, w) \in Seq(W) /\ Append(ws, w)[Len(ws) + 1] = w /\ Len(Append(ws, w)) = Len(ws) + 1
      BY AppendProperties
    <3> QED BY <3>1 DEF Last
  <2> SUFFICES \E a : Rest(Append(ws, w), style) = <<Blank>> \o a /\ Spells(a, Append(ws, w), style)
    <3> HIDE DEF W
    <3> QED BY <2>4
  <2>5. CASE ws = <<>>
    <3>1. Rest(Append(ws, w), style) = <<Blank>> \o t
      <4>1. <<Blank>> \o t \in Seq(Characters)
        BY <1>0, <2>2
      <4> HIDE DEF t
      <4> QED BY <2>3, <2>5, <4>1, ConcatEmptySeq
    <3>2. Is(FoldLeft(Read, Start, <<>>), <<>>, <<>>, FALSE, Bare, FALSE)
      BY <1>0, ReadAppend
    <3>3. Is(FoldLeft(Read, Start, <<>> \o t), <<>>, w, TRUE, Bare, FALSE)
      <4>1. <<>> \in Seq(Seq(Characters))
        OBVIOUS
      <4> QED BY <1>0, <2>1, <3>2, <4>1, TypedRead
    <3>4. <<>> \o t = t
      BY <2>2, ConcatEmptySeq
    <3> HIDE DEF t
    <3>5. Spells(t, Append(ws, w), style)
      BY <2>1, <2>2, <2>4, <2>5, <3>3, <3>4 DEF Spells
    <3> QED BY <3>1, <3>5
  <2>6. CASE ws # <<>>
    <3>1. PICK a : Rest(ws, style) = <<Blank>> \o a /\ Spells(a, ws, style)
      BY <1>3, <2>6
    <3> DEFINE b == Append(a, Blank)
    <3>2. a \in Seq(Characters) /\ a # <<>> /\ a[1] # Blank
      BY <3>1 DEF Spells
    <3>3. PICK o \in Seq(Seq(Characters)), v \in Seq(Characters) :
             /\ Is(FoldLeft(Read, Start, a), o, v, TRUE, Bare, FALSE)
             /\ Append(o, v) = ws
      BY <3>1 DEF Spells
    <3> DEFINE at == FoldLeft(Read, Start, a)
    <3>4. FoldLeft(Read, Start, b) = Read(at, Blank)
      BY <1>0, <3>2, ReadAppend
    <3>5. Is(Read(at, Blank), ws, <<>>, FALSE, Bare, FALSE)
      <4> HIDE DEF at
      <4>1. /\ at \in States /\ at.out = o /\ at.word = v /\ at.quote = Bare /\ ~at.escaped
            /\ at.seen
        BY <3>3 DEF Is, at
      <4>2. Read(at, Blank) = Flush(at)
        BY <1>0, <4>1, ReadMeans
      <4>3. Is(Flush(at), Append(at.out, at.word), <<>>, FALSE, at.quote, at.escaped)
        BY <4>1, FlushMeans
      <4> QED BY <3>3, <4>1, <4>2, <4>3 DEF Is
    <3>6. b \in Seq(Characters) /\ Is(FoldLeft(Read, Start, b), ws, <<>>, FALSE, Bare, FALSE)
      <4>1. b \in Seq(Characters)
        BY <1>0, <3>2
      <4> HIDE DEF b, at
      <4> QED BY <3>4, <3>5, <4>1
    <3>7. Is(FoldLeft(Read, Start, b \o t), ws, w, TRUE, Bare, FALSE)
      <4> HIDE DEF b
      <4> QED BY <2>1, <3>6, TypedRead
    <3>8. Rest(Append(ws, w), style) = <<Blank>> \o (b \o t)
      <4> HIDE DEF t
      <4>1. a \in Seq(Characters) /\ t \in Seq(Characters) /\ Blank \in Characters
        BY <1>0, <2>2, <3>2
      <4>2. (<<Blank>> \o a) \o (<<Blank>> \o t) = <<Blank>> \o (b \o t)
        BY <4>1, AroundBlank
      <4> HIDE DEF b
      <4> QED BY <2>3, <3>1, <4>2
    <3>9. /\ b \o t \in Seq(Characters) /\ b \o t # <<>> /\ (b \o t)[1] # Blank
          /\ (b \o t)[Len(b \o t)] = t[Len(t)]
      <4> HIDE DEF t
      <4>1. Len(b) \in Nat \ {0} /\ b[1] = a[1] /\ Len(t) \in Nat \ {0} /\ b \in Seq(Characters)
        BY <1>0, <2>2, <3>2
      <4> HIDE DEF b
      <4> QED BY <2>2, <3>2, <4>1, SMTT(30)
    <3> HIDE DEF b, t
    <3>10. Spells(b \o t, Append(ws, w), style)
      BY <2>1, <2>2, <2>4, <3>7, <3>9 DEF Spells
    <3> QED BY <3>8, <3>10
  <2> QED BY <2>5, <2>6
<1>4. words \in Seq(W)
  <2>1. /\ Len(words) \in Nat /\ DOMAIN words = 1..Len(words)
        /\ \A i \in 1..Len(words) : words[i] \in Seq(Characters)
        /\ words = [i \in 1..Len(words) |-> words[i]]
    OBVIOUS
  <2>2. \A i \in 1..Len(words) : words[i] \in W
    BY <2>1
  <2>3. words \in [1..Len(words) -> W]
    <3> HIDE DEF W
    <3> QED BY <2>1, <2>2
  <2>4. Seq(W) = UNION {[1..n -> W] : n \in Nat}
    BY SeqDef
  <2> HIDE DEF W
  <2> QED BY <2>1, <2>3, <2>4
<1>5. \A ws \in Seq(W) : ws \in P
  <2> HIDE DEF P, W
  <2> QED BY <1>2, <1>3, AllSequences
<1> HIDE DEF W
<1> QED BY <1>4, <1>5

-----------------------------------------------------------------------------
LEMMA MinIs ==
  ASSUME NEW t, t \subseteq Nat, NEW m \in t, \A x \in t : m <= x
  PROVE  Min(t) = m
<1>1. \E x \in t : \A y \in t : x <= y
  OBVIOUS
<1>2. Min(t) \in t /\ \A y \in t : Min(t) <= y
  BY <1>1, Zenon DEF Min
<1>3. Min(t) \in Nat /\ m \in Nat /\ Min(t) <= m /\ m <= Min(t)
  BY <1>2
<1> QED BY <1>3

\* What is between the first and the last character that is no blank.
LEMMA TrimCuts ==
  ASSUME NEW q \in Seq(Characters), NEW i \in 1..Len(q), NEW j \in i..Len(q),
         q[i] # Blank, q[j] # Blank,
         \A k \in 1..Len(q) : k < i \/ j < k => q[k] = Blank
  PROVE  Trim(q) = SubSeq(q, i, j)
<1> DEFINE ink == {k \in DOMAIN q : q[k] # Blank}
<1>1. Len(q) \in Nat /\ DOMAIN q = 1..Len(q) /\ i \in Nat /\ j \in Nat
  OBVIOUS
<1>2. ink \subseteq Nat /\ i \in ink /\ j \in ink /\ ink # {}
  BY <1>1
<1>3. \A k \in ink : i <= k /\ k <= j
  BY <1>1
<1>4. Min(ink) = i /\ Max(ink) = j
  <2> HIDE DEF ink
  <2>1. \A k \in ink : j >= k
    BY <1>1, <1>2, <1>3
  <2> QED BY <1>2, <1>3, <2>1, MinIs, MaxIs
<1> QED BY <1>2, <1>4 DEF Trim

LEMMA TrimKeeps ==
  ASSUME NEW q \in Seq(Characters), q # <<>>, q[1] # Blank, q[Len(q)] # Blank
  PROVE  Trim(q) = q /\ Trim(<<Blank>> \o q) = q
<1>0. Len(q) \in Nat \ {0} /\ Blank \in Characters
  BY DEF Characters
<1>1. Trim(q) = SubSeq(q, 1, Len(q))
  BY <1>0, TrimCuts
<1>2. SubSeq(q, 1, Len(q)) = q
  BY SubSeqFull
<1> DEFINE p == <<Blank>> \o q
<1>3. /\ p \in Seq(Characters) /\ Len(p) = Len(q) + 1 /\ p[1] = Blank
      /\ \A k \in 1..Len(q) : p[k + 1] = q[k]
  BY <1>0
<1>4. SubSeq(p, 2, Len(p)) = q
  <2>1. SubSeq(p, 2, Len(p)) = Tail(p)
    BY <1>0, <1>3
  <2> QED BY <1>0
<1> HIDE DEF p
<1>5. Trim(p) = SubSeq(p, 2, Len(p))
  <2>1. 2 \in 1..Len(p) /\ Len(p) \in 2..Len(p) /\ p[2] # Blank /\ p[Len(p)] # Blank
    BY <1>0, <1>3
  <2>2. \A k \in 1..Len(p) : k < 2 \/ Len(p) < k => p[k] = Blank
    BY <1>0, <1>3
  <2> QED BY <1>3, <2>1, <2>2, TrimCuts
<1> QED BY <1>1, <1>2, <1>4, <1>5 DEF p

LEMMA TrimNothing == Trim(<<>>) = <<>>
BY DEF Trim

LEMMA CutIs ==
  ASSUME NEW q, NEW m,
         m = IF {i \in DOMAIN q : q[i] = Blank} = {} THEN Len(q) + 1
             ELSE Min({i \in DOMAIN q : q[i] = Blank})
  PROVE  /\ Cut(q).name = SubSeq(q, 1, m - 1)
         /\ Cut(q).args = Trim(SubSeq(q, m, Len(q)))
<1>1. Cut(q) = [name |-> SubSeq(q, 1, m - 1), args |-> Trim(SubSeq(q, m, Len(q)))]
  BY Zenon DEF Cut
<1> DEFINE x == SubSeq(q, 1, m - 1)
           y == Trim(SubSeq(q, m, Len(q)))
<1> HIDE DEF x, y
<1>2. Cut(q) = [name |-> x, args |-> y]
  BY <1>1 DEF x, y
<1>3. Cut(q).name = x /\ Cut(q).args = y
  BY <1>2
<1> QED BY <1>3 DEF x, y

\* A name of no blanks, alone or before a blank and more.
LEMMA CutAlone ==
  ASSUME NEW name \in Seq(Characters \ {Blank})
  PROVE  Cut(name).name = name /\ Cut(name).args = <<>>
<1>0. /\ Len(name) \in Nat /\ DOMAIN name = 1..Len(name) /\ Blank \in Characters
      /\ \A i \in 1..Len(name) : name[i] # Blank
      /\ name \in Seq(Characters)
  <2>1. Characters \ {Blank} \subseteq Characters
    OBVIOUS
  <2>2. name \in Seq(Characters)
    BY <2>1, SeqMonotonic
  <2> QED BY <2>2 DEF Characters
<1>1. {i \in DOMAIN name : name[i] = Blank} = {}
  BY <1>0
<1> DEFINE m == Len(name) + 1
<1>2. SubSeq(name, 1, m - 1) = name /\ SubSeq(name, m, Len(name)) = <<>>
  BY <1>0
<1> HIDE DEF m
<1>3. Cut(name).name = SubSeq(name, 1, m - 1) /\ Cut(name).args = Trim(SubSeq(name, m, Len(name)))
  BY <1>1, CutIs DEF m
<1>4. Trim(SubSeq(name, m, Len(name))) = <<>>
  BY <1>2, TrimNothing, Zenon
<1> QED BY <1>2, <1>3, <1>4, Zenon

LEMMA CutParts ==
  ASSUME NEW name \in Seq(Characters \ {Blank}), NEW a \in Seq(Characters),
         a # <<>>, a[1] # Blank, a[Len(a)] # Blank
  PROVE  /\ Cut(name \o (<<Blank>> \o a)).name = name
         /\ Cut(name \o (<<Blank>> \o a)).args = a
<1>0. /\ Len(name) \in Nat /\ DOMAIN name = 1..Len(name) /\ Blank \in Characters
      /\ \A i \in 1..Len(name) : name[i] # Blank
      /\ name \in Seq(Characters)
  <2>1. Characters \ {Blank} \subseteq Characters
    OBVIOUS
  <2>2. name \in Seq(Characters)
    BY <2>1, SeqMonotonic
  <2> QED BY <2>2 DEF Characters
<1> DEFINE b == <<Blank>> \o a
           q == name \o b
           blanks == {i \in DOMAIN q : q[i] = Blank}
<1>2. b \in Seq(Characters) /\ Len(b) \in Nat \ {0} /\ b[1] = Blank
  BY <1>0
<1>3. Trim(b) = a
  BY TrimKeeps
<1> HIDE DEF b
<1>4. /\ q \in Seq(Characters) /\ Len(q) = Len(name) + Len(b) /\ DOMAIN q = 1..Len(q)
      /\ \A i \in 1..Len(name) : q[i] = name[i]
      /\ q[Len(name) + 1] = Blank
  BY <1>0, <1>2
<1>5. SubSeq(q, 1, Len(name) + 1 - 1) = name /\ SubSeq(q, Len(name) + 1, Len(q)) = b
  <2>1. SubSeq(q, 1, Len(name)) = name
    BY <1>0, <1>2
  <2>2. SubSeq(q, Len(name) + 1, Len(q)) = b
    BY <1>0, <1>2
  <2> QED BY <1>0, <2>1, <2>2
<1> HIDE DEF q
<1>6. blanks # {} /\ Min(blanks) = Len(name) + 1
  <2>1. blanks \subseteq Nat /\ Len(name) + 1 \in blanks
    BY <1>0, <1>2, <1>4
  <2>2. \A i \in blanks : Len(name) + 1 <= i
    BY <1>0, <1>2, <1>4
  <2> HIDE DEF blanks
  <2> QED BY <2>1, <2>2, MinIs
<1>7. Cut(q).name = name /\ Cut(q).args = a
  <2> DEFINE m == Len(name) + 1
  <2>1. m = IF blanks = {} THEN Len(q) + 1 ELSE Min(blanks)
    <3> HIDE DEF blanks
    <3> QED BY <1>6
  <2>2. SubSeq(q, 1, m - 1) = name /\ SubSeq(q, m, Len(q)) = b
    BY <1>5
  <2> HIDE DEF m
  <2>3. Cut(q).name = SubSeq(q, 1, m - 1) /\ Cut(q).args = Trim(SubSeq(q, m, Len(q)))
    BY <2>1, CutIs
  <2>4. Trim(SubSeq(q, m, Len(q))) = a
    BY <1>3, <2>2, Zenon
  <2> QED BY <2>2, <2>3, <2>4, Zenon
<1> QED BY <1>7 DEF q, b

\* Commands are read as they were typed.
LEMMA LineRead ==
  ASSUME NEW prefix \in Marks, NEW line \in Seq(Characters),
         line # <<>>, line[1] # Blank, line[Len(line)] # Blank
  PROVE  /\ Marked(<<prefix>> \o line)
         /\ Command(<<prefix>> \o line) = Cut(line)
<1> DEFINE text == <<prefix>> \o line
<1>1. prefix \in Characters /\ prefix # Blank
  BY CommandTextsAssumption DEF Characters
<1>2. /\ text \in Seq(Characters) /\ text # <<>> /\ Head(text) = prefix
      /\ text[1] = prefix /\ text[Len(text)] = line[Len(line)]
  <2>1. Len(line) \in Nat \ {0}
    OBVIOUS
  <2> QED BY <1>1, <2>1
<1>3. Tail(text) = line
  BY <1>1
<1> HIDE DEF text
<1>4. Trim(text) = text /\ Trim(line) = line
  <2>1. text[1] # Blank /\ text[Len(text)] # Blank
    BY <1>1, <1>2
  <2>2. Trim(text) = text
    BY <1>2, <2>1, TrimKeeps
  <2> QED BY <2>2, TrimKeeps
<1>5. Marked(text) /\ Command(text) = Cut(line)
  BY <1>2, <1>3, <1>4 DEF Command, Marked
<1> QED BY <1>5 DEF text

LEMMA LineParts ==
  ASSUME NEW name \in Seq(Characters \ {Blank}), name # <<>>,
         NEW style \in Quotes \cup {Bare}, NEW words \in Seq(Seq(Characters)),
         Typable(words, style)
  PROVE  \E line \in Seq(Characters) :
           /\ line = name \o Rest(words, style)
           /\ line # <<>> /\ line[1] # Blank /\ line[Len(line)] # Blank
           /\ Cut(line).name = name /\ SplitArgv(Cut(line).args) = words
<1> DEFINE rest == Rest(words, style)
<1>0. /\ Len(name) \in Nat \ {0} /\ name[1] # Blank /\ name[Len(name)] # Blank
      /\ name \in Seq(Characters)
  <2>1. Characters \ {Blank} \subseteq Characters
    OBVIOUS
  <2>2. name \in Seq(Characters)
    BY <2>1, SeqMonotonic
  <2> QED BY <2>2
<1>1. CASE words = <<>>
  <2>1. rest = <<>>
    <3>1. <<>> \in Seq(Characters)
      OBVIOUS
    <3> QED BY <1>1, <3>1, RestAppend
  <2>2. name \o rest = name
    BY <1>0, <2>1, ConcatEmptySeq
  <2>3. Cut(name).name = name /\ Cut(name).args = <<>>
    BY CutAlone
  <2>4. SplitArgv(<<>>) = <<>>
    <3>1. FoldLeft(Read, Start, <<>>) = Start
      <4>1. <<>> \in Seq(Characters) /\ Blank \in Characters /\ Start \in States
        BY DEF Characters, Start, States
      <4> QED BY <4>1, ReadAppend
    <3>2. ~Start.escaped /\ Flush(Start) = Start /\ Start.out = <<>>
      BY DEF Start, Flush
    <3> QED BY <3>1, <3>2, TrimNothing DEF SplitArgv
  <2>5. SplitArgv(Cut(name).args) = words
    BY <1>1, <2>3, <2>4, Zenon
  <2>6. name = name \o Rest(words, style)
    BY <2>2
  <2> QED BY <1>0, <2>3, <2>5, <2>6, Zenon
<1>2. CASE words # <<>>
  <2>1. PICK a : rest = <<Blank>> \o a /\ Spells(a, words, style)
    BY <1>2, RestRead DEF Typable
  <2>2. a \in Seq(Characters) /\ a # <<>> /\ a[1] # Blank /\ a[Len(a)] # Blank
    BY <1>2, <2>1 DEF Spells, Typable
  <2> DEFINE line == name \o rest
  <2>3. Cut(line).name = name /\ Cut(line).args = a
    <3> HIDE DEF rest
    <3>1. /\ Cut(name \o (<<Blank>> \o a)).name = name
          /\ Cut(name \o (<<Blank>> \o a)).args = a
      BY <2>2, CutParts
    <3> QED BY <2>1, <3>1
  <2>4. SplitArgv(a) = words
    <3>1. PICK o \in Seq(Seq(Characters)), w \in Seq(Characters) :
             /\ Is(FoldLeft(Read, Start, a), o, w, TRUE, Bare, FALSE)
             /\ Append(o, w) = words
      BY <2>1 DEF Spells
    <3>2. Trim(a) = a
      BY <2>2, TrimKeeps
    <3> DEFINE at == FoldLeft(Read, Start, a)
    <3>3. /\ at \in States /\ at.out = o /\ at.word = w /\ at.quote = Bare /\ ~at.escaped
          /\ at.seen
      BY <3>1 DEF Is
    <3>4. SplitArgv(a) = Flush(at).out
      BY <3>2, <3>3 DEF SplitArgv
    <3> HIDE DEF at
    <3>5. Flush(at).out = Append(o, w)
      BY <3>3, FlushMeans DEF Is
    <3> QED BY <3>1, <3>4, <3>5
  <2>5. line \in Seq(Characters) /\ line # <<>> /\ line[1] # Blank /\ line[Len(line)] # Blank
    <3> DEFINE b == <<Blank>> \o a
    <3>1. b \in Seq(Characters) /\ Len(b) = Len(a) + 1 /\ b[Len(b)] = a[Len(a)] /\ Len(a) \in Nat
      BY <2>2 DEF Characters
    <3>2. rest = b
      BY <2>1
    <3> HIDE DEF b, rest
    <3> QED BY <1>0, <2>2, <3>1, <3>2
  <2>6. SplitArgv(Cut(line).args) = words
    BY <2>3, <2>4
  <2>7. line = name \o Rest(words, style)
    OBVIOUS
  <2> HIDE DEF line
  <2> QED BY <2>3, <2>5, <2>6, <2>7
<1> QED BY <1>1, <1>2

LEMMA TextIs ==
  ASSUME NEW prefix \in Characters, NEW name \in Seq(Characters),
         NEW rest \in Seq(Characters)
  PROVE  (<<prefix>> \o name) \o rest = <<prefix>> \o (name \o rest)
<1> DEFINE p == <<prefix>>
<1>1. p \in Seq(Characters)
  OBVIOUS
<1> HIDE DEF p
<1>2. (p \o name) \o rest = p \o (name \o rest)
  BY <1>1, ConcatAssociative
<1> QED BY <1>2 DEF p

LEMMA CommandRead ==
  ASSUME NEW typed, typed.prefix \in Marks, typed.name \in Seq(Characters \ {Blank}) \ {<<>>},
         typed.words \in Seq(Seq(Characters)), typed.style \in Quotes \cup {Bare},
         Typable(typed.words, typed.style)
  PROVE  /\ \A names : Calls(names, Text(typed)) <=> names = {} \/ typed.name \in names
         /\ Argv(Text(typed)) = typed.words
<1>1. PICK line \in Seq(Characters) :
        /\ line = typed.name \o Rest(typed.words, typed.style)
        /\ line # <<>> /\ line[1] # Blank /\ line[Len(line)] # Blank
        /\ Cut(line).name = typed.name /\ SplitArgv(Cut(line).args) = typed.words
  <2> DEFINE name == typed.name
             words == typed.words
             style == typed.style
  <2>1. /\ name \in Seq(Characters \ {Blank}) /\ name # <<>>
        /\ style \in Quotes \cup {Bare} /\ words \in Seq(Seq(Characters))
        /\ Typable(words, style)
    <3>1. name \notin {<<>>} /\ name \in Seq(Characters \ {Blank})
      OBVIOUS
    <3>2. name # <<>>
      BY <3>1
    <3> QED BY <3>1, <3>2
  <2> HIDE DEF name, words, style
  <2>2. \E line \in Seq(Characters) :
           /\ line = name \o Rest(words, style)
           /\ line # <<>> /\ line[1] # Blank /\ line[Len(line)] # Blank
           /\ Cut(line).name = name /\ SplitArgv(Cut(line).args) = words
    BY <2>1, LineParts, ZenonT(60)
  <2> QED BY <2>2 DEF name, words, style
<1>2. Text(typed) = <<typed.prefix>> \o line
  <2>1. Characters \ {Blank} \subseteq Characters /\ Marks \subseteq Characters
    BY DEF Characters
  <2>2. typed.name \in Seq(Characters)
    BY <2>1, SeqMonotonic
  <2>3. typed.prefix \in Characters
    BY <2>1
  <2>4. Rest(typed.words, typed.style) \in Seq(Characters)
    <3>1. <<>> \in Seq(Characters)
      OBVIOUS
    <3> QED BY <3>1, RestAppend
  <2>5. /\ Text(typed) = (<<typed.prefix>> \o typed.name) \o Rest(typed.words, typed.style)
    BY DEF Text
  <2>6. (<<typed.prefix>> \o typed.name) \o Rest(typed.words, typed.style)
          = <<typed.prefix>> \o (typed.name \o Rest(typed.words, typed.style))
    BY <2>2, <2>3, <2>4, TextIs
  <2> QED BY <1>1, <2>5, <2>6
<1>3. Marked(Text(typed)) /\ Command(Text(typed)) = Cut(line)
  <2>1. Marked(<<typed.prefix>> \o line) /\ Command(<<typed.prefix>> \o line) = Cut(line)
    BY <1>1, LineRead
  <2> QED BY <1>2, <2>1
<1>4. Argv(Text(typed)) = typed.words
  BY <1>1, <1>3 DEF Argv
<1> QED BY <1>1, <1>3, <1>4 DEF Calls

\* Whatever is typed between quotes or with backslashes, a command of the name or of
\* no name is called, and no other, and with the words that were meant: splitArgv and
\* cutCommand undo what the user did (rules.go:302-355).
THEOREM CommandsKept == Spec => []CommandsAsTyped
<1>1. TypeOK => setup \in Setups
  BY DEF TypeOK
<1>2. setup \in Setups => CommandsAsTyped
  <2> SUFFICES ASSUME setup \in Setups PROVE CommandsAsTyped
    OBVIOUS
  <2> DEFINE typed == setup.typed
  <2>1. /\ typed.prefix \in Marks /\ typed.name \in Seq(Characters \ {Blank}) \ {<<>>}
        /\ typed.words \in Seq(Seq(Characters)) /\ typed.style \in Quotes \cup {Bare}
        /\ Typable(typed.words, typed.style)
    BY BotAssumption
  <2> HIDE DEF typed
  <2>2. /\ \A names : Calls(names, Text(typed)) <=> names = {} \/ typed.name \in names
        /\ Argv(Text(typed)) = typed.words
    BY <2>1, CommandRead
  <2> QED BY <2>2 DEF CommandsAsTyped, typed
<1> QED BY <1>1, <1>2, TypeCorrect, PTL
===============================================================================
