----------------------------- MODULE RateLimits -----------------------------
(***************************************************************************)
(* The RateLimitBy middleware (core/middleware.go): a bucket per key that  *)
(* starts with the first event and is started again by the first event     *)
(* after its window.  The clock is read before the mutex is taken, so a    *)
(* goroutine may count by a time that others have left behind.             *)
(***************************************************************************)
EXTENDS Integers, FiniteSets

CONSTANTS
  LimitKeys,   \* what rateLimitKey may return
  Window,
  MaxNow,      \* bound of the clock
  Never        \* the zero time

ASSUME RateAssumption ==
  Window \in Nat \ {0} /\ MaxNow \in Nat /\ Never \notin Int

VARIABLES
  now,         \* time.Now()
  limit,       \* of the middleware given to Use; 0: none, or one that limits nothing
  bucket,      \* [LimitKeys -> [start, count]]
  reading,     \* one per goroutine: the clock it has read and not counted by yet
  passes       \* to state properties: what has been let through, read when and when

rateVars == <<now, limit, bucket, reading, passes>>

RateInit(processes, most) ==
  /\ now = 0
  /\ limit = most
  /\ bucket = [k \in LimitKeys |-> [start |-> Never, count |-> 0]]
  /\ reading = [p \in processes |-> 0]
  /\ passes = {}

\* Time goes on in steps of which a window has Window.
Tick ==
  /\ now < MaxNow
  /\ now' = now + 1
  /\ UNCHANGED <<limit, bucket, reading, passes>>

\* Use, on the root router: from now on chains are built with it.
StartLimiting(most) ==
  /\ limit = 0 /\ limit' = most
  /\ UNCHANGED <<now, bucket, reading, passes>>

ReadClock(p) ==
  /\ limit > 0
  /\ reading' = [reading EXCEPT ![p] = now]
  /\ UNCHANGED <<now, limit, bucket, passes>>

\* Faulty: a clock read before the bucket's start begins the bucket anew.
OverOrBefore(b, t) == b.start = Never \/ t - b.start >= Window \/ t < b.start

Over(b, t) == b.start = Never \/ t - b.start >= Window

Counted(b, t) ==
  IF Over(b, t) THEN [start |-> t, count |-> 1]
  ELSE [b EXCEPT !.count = @ + 1]

\* Under the mutex; refused says what the caller is told.
Count(p, k, refused) ==
  LET b == Counted(bucket[k], reading[p]) IN
  /\ refused = (b.count > limit)
  /\ bucket' = [bucket EXCEPT ![k] = b]
  /\ passes' = IF refused THEN passes
               ELSE passes \cup {[key |-> k, start |-> b.start, at |-> reading[p],
                                  passed |-> now, no |-> b.count, by |-> p]}
  /\ reading' = [reading EXCEPT ![p] = 0]
  /\ UNCHANGED <<now, limit>>

-----------------------------------------------------------------------------
Passes(processes) ==
  [key : LimitKeys, start : Nat, at : Nat, passed : Nat, no : Nat, by : processes]

RateTypeOK(processes) ==
  /\ now \in Nat /\ limit \in Nat
  /\ bucket \in [LimitKeys -> [start : Nat \cup {Never}, count : Nat]]
  /\ reading \in [processes -> Nat]
  /\ passes \subseteq Passes(processes)

\* What key k was let through in the window that begins with t, counted at most n
\* windows after its clock was read.  There is an n that leaves nothing out.
Within(k, t, n) ==
  {p \in passes : /\ p.key = k
                  /\ t <= p.passed /\ p.passed < t + Window
                  /\ p.passed - p.at <= n * Window}

\* How much gets through in any stretch as long as the window depends on how late
\* events are counted: less than twice the limit of those counted at once, because
\* buckets are not aligned with anything, and the limit once more for every window
\* of delay between reading the clock and taking the mutex (RateLimitBy,
\* middleware.go:151-160).
RateBounded ==
  limit > 0 =>
    \A k \in LimitKeys : \A t, n \in 0..MaxNow :
      Cardinality(Within(k, t, n)) <= (n + 2) * limit - 1

\* Why it holds: the buckets of a key are a window apart, each has let through no
\* more than it has counted, and its first event has its start for a reading.
RateInv ==
  /\ \A p \in DOMAIN reading : reading[p] <= now
  /\ \A k \in LimitKeys :
       bucket[k].start # Never => bucket[k].start <= now /\ bucket[k].count > 0
  /\ \A p \in passes :
       /\ p.start <= p.passed /\ p.at <= p.passed /\ p.passed <= now
       /\ p.at < p.start + Window
       /\ p.no \in 1..limit /\ (p.no = 1 => p.at = p.start)
       /\ bucket[p.key].start # Never
       /\ \/ p.start = bucket[p.key].start /\ p.no <= bucket[p.key].count
          \/ p.start + Window <= bucket[p.key].start
  /\ \A p, q \in passes :
       p.key = q.key => \/ p.start = q.start
                        \/ p.start + Window <= q.start
                        \/ q.start + Window <= p.start
  /\ \A p, q \in passes :
       p.key = q.key /\ p.start = q.start /\ p.no = q.no => p = q
=============================================================================
