----------------------------- MODULE KeyedMutex -----------------------------
(***************************************************************************)
(* What core/scheduler.go promises its caller: one mutex per key.  A       *)
(* goroutine asks for a key, is granted it when nobody holds that key, and *)
(* gives it back; different keys never wait for each other.  There is no   *)
(* map, no reference count and no lock object here: those are how          *)
(* KeyedLocks provides this.                                               *)
(***************************************************************************)

CONSTANTS
  Threads,   \* goroutines that call keyedLocks.lock
  Keys,      \* keys they ask for
  NoThread,  \* "nobody holds this key"
  NoKey      \* "this goroutine waits for no key"

VARIABLES
  holder,    \* holder[k]: the goroutine that holds key k
  waits      \* waits[t]: the key goroutine t is blocked on

vars == <<holder, waits>>

Init ==
  /\ holder = [k \in Keys |-> NoThread]
  /\ waits = [t \in Threads |-> NoKey]

\* A goroutine that neither holds nor awaits a key asks for one.
Request(t, k) ==
  /\ waits[t] = NoKey
  /\ \A j \in Keys : holder[j] # t
  /\ waits' = [waits EXCEPT ![t] = k]
  /\ UNCHANGED holder

\* The key it waits for is free: the goroutine gets it.
Grant(t) ==
  /\ waits[t] # NoKey
  /\ holder[waits[t]] = NoThread
  /\ holder' = [holder EXCEPT ![waits[t]] = t]
  /\ waits' = [waits EXCEPT ![t] = NoKey]

\* The holder gives its key back.
Return(k) ==
  /\ holder[k] # NoThread
  /\ holder' = [holder EXCEPT ![k] = NoThread]
  /\ UNCHANGED waits

Next ==
  \/ \E t \in Threads, k \in Keys : Request(t, k)
  \/ \E t \in Threads : Grant(t)
  \/ \E k \in Keys : Return(k)

Spec == Init /\ [][Next]_vars

\* Nobody is overtaken for ever on a key that keeps being returned, and a
\* holder returns its key.
FairSpec ==
  /\ Spec
  /\ \A t \in Threads : SF_vars(Grant(t))
  /\ \A k \in Keys : WF_vars(Return(k))
=============================================================================
