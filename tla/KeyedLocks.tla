----------------------------- MODULE KeyedLocks -----------------------------
(***************************************************************************)
(* core/scheduler.go: keyedLocks, the map of reference-counted per-key     *)
(* mutexes behind App.lockEvent.                                           *)
(*                                                                         *)
(* l.locks and every item.refs are only touched while l.mu is held and     *)
(* nothing blocks under l.mu, so each section under l.mu is one action;    *)
(* taking and releasing item.mu happen outside l.mu and are actions of     *)
(* their own.  A goroutine therefore goes through                          *)
(*                                                                         *)
(*   idle --AcquireEntry--> waiting --LockItem--> holding                  *)
(*        <--DropEntry-- releasing <--UnlockItem--                         *)
(*                                                                         *)
(* and every other goroutine may run between two of these steps.  The      *)
(* mutex objects are members of Items: a deleted object lives on while     *)
(* somebody still points to it, and an object nobody points to may be      *)
(* allocated again.                                                        *)
(***************************************************************************)
EXTENDS Naturals, FiniteSets

CONSTANTS
  Threads,   \* goroutines that call lock(key)
  Keys,      \* keys they call it with
  Items,     \* heap addresses of *keyedLock objects
  NoThread,  \* "item.mu is free"
  NoKey,     \* "this goroutine is in no call of lock"
  NoItem     \* "no entry for this key" (a nil *keyedLock)

ASSUME ThreadsFinite == IsFiniteSet(Threads)

ASSUME NullsAssumption ==
  /\ NoThread \notin Threads
  /\ NoKey \notin Keys
  /\ NoItem \notin Items

VARIABLES
  pc,        \* where each goroutine is in lock / the unlock closure
  key,       \* the key of its call
  item,      \* the local variable item of its call
  locks,     \* l.locks, a map from key to item (NoItem: no entry)
  refs,      \* refs[i]: item i's reference count
  owner      \* owner[i]: the goroutine that holds item i's mutex

lockVars == <<pc, key, item, locks, refs, owner>>

\* A goroutine refers to its item until it has dropped its reference.
Engaged(t) == pc[t] # "idle"

\* Objects neither the map nor a goroutine refers to: the allocator may
\* return any of them for &keyedLock{}.
FreshItems ==
  {i \in Items : /\ \A k \in Keys : locks[k] # i
                 /\ \A t \in Threads : item[t] # i}

Init ==
  /\ pc = [t \in Threads |-> "idle"]
  /\ key = [t \in Threads |-> NoKey]
  /\ item = [t \in Threads |-> NoItem]
  /\ locks = [k \in Keys |-> NoItem]
  /\ refs = [i \in Items |-> 0]
  /\ owner = [i \in Items |-> NoThread]

\* The key has an entry: count one more user of it.
ShareEntry(t, k) ==
  /\ locks[k] # NoItem
  /\ item' = [item EXCEPT ![t] = locks[k]]
  /\ refs' = [refs EXCEPT ![locks[k]] = @ + 1]
  /\ UNCHANGED <<locks, owner>>

\* The key has none: allocate one (refs 0, mutex unlocked), enter it, count.
CreateEntry(t, k) ==
  /\ locks[k] = NoItem
  /\ \E i \in FreshItems :
       /\ item' = [item EXCEPT ![t] = i]
       /\ locks' = [locks EXCEPT ![k] = i]
       /\ refs' = [refs EXCEPT ![i] = 1]
       /\ owner' = [owner EXCEPT ![i] = NoThread]

\* lock(key) up to l.mu.Unlock().
AcquireEntry(t, k) ==
  /\ pc[t] = "idle"
  /\ ShareEntry(t, k) \/ CreateEntry(t, k)
  /\ pc' = [pc EXCEPT ![t] = "waiting"]
  /\ key' = [key EXCEPT ![t] = k]

\* Faulty: of those who wait for a mutex the same one always comes first.
LockItemByRank(t) ==
  /\ pc[t] = "waiting"
  /\ owner[item[t]] = NoThread
  /\ t = CHOOSE s \in Threads : pc[s] = "waiting" /\ item[s] = item[t]
  /\ owner' = [owner EXCEPT ![item[t]] = t]
  /\ pc' = [pc EXCEPT ![t] = "holding"]
  /\ UNCHANGED <<key, item, locks, refs>>

\* item.mu.Lock() returns; lock returns the unlock closure.
LockItem(t) ==
  /\ pc[t] = "waiting"
  /\ owner[item[t]] = NoThread
  /\ owner' = [owner EXCEPT ![item[t]] = t]
  /\ pc' = [pc EXCEPT ![t] = "holding"]
  /\ UNCHANGED <<key, item, locks, refs>>

\* The closure's item.mu.Unlock().
UnlockItem(t) ==
  /\ pc[t] = "holding"
  /\ owner' = [owner EXCEPT ![item[t]] = NoThread]
  /\ pc' = [pc EXCEPT ![t] = "releasing"]
  /\ UNCHANGED <<key, item, locks, refs>>

\* Faulty: the entry is deleted whoever else still uses it.
DropEntryAlways(t) ==
  /\ pc[t] = "releasing"
  /\ refs' = [refs EXCEPT ![item[t]] = @ - 1]
  /\ locks' = [locks EXCEPT ![key[t]] = NoItem]
  /\ pc' = [pc EXCEPT ![t] = "idle"]
  /\ key' = [key EXCEPT ![t] = NoKey]
  /\ item' = [item EXCEPT ![t] = NoItem]
  /\ UNCHANGED owner

\* The closure's section under l.mu: the last user deletes the key's entry.
DropEntry(t) ==
  /\ pc[t] = "releasing"
  /\ refs' = [refs EXCEPT ![item[t]] = @ - 1]
  /\ locks' = IF refs[item[t]] = 1
                THEN [locks EXCEPT ![key[t]] = NoItem]
                ELSE locks
  /\ pc' = [pc EXCEPT ![t] = "idle"]
  /\ key' = [key EXCEPT ![t] = NoKey]
  /\ item' = [item EXCEPT ![t] = NoItem]
  /\ UNCHANGED owner

Next ==
  \E t \in Threads :
    \/ \E k \in Keys : AcquireEntry(t, k)
    \/ LockItem(t)
    \/ UnlockItem(t)
    \/ DropEntry(t)

Spec == Init /\ [][Next]_lockVars

(***************************************************************************)
(* Fairness.  A goroutine that can run, runs.  sync.Mutex hands a mutex to *)
(* its longest waiter once that one has waited a millisecond, so a waiter  *)
(* is not overtaken for ever: LockItem is strongly fair.  That a holder    *)
(* comes to UnlockItem says that event handlers return; a handler that     *)
(* never does keeps its key for ever.                                      *)
(***************************************************************************)
Fairness ==
  \A t \in Threads :
    /\ SF_lockVars(LockItem(t))
    /\ WF_lockVars(UnlockItem(t))
    /\ WF_lockVars(DropEntry(t))

FairSpec == Spec /\ Fairness

-----------------------------------------------------------------------------
TypeOK ==
  /\ pc \in [Threads -> {"idle", "waiting", "holding", "releasing"}]
  /\ key \in [Threads -> Keys \cup {NoKey}]
  /\ item \in [Threads -> Items \cup {NoItem}]
  /\ locks \in [Keys -> Items \cup {NoItem}]
  /\ refs \in [Items -> Nat]
  /\ owner \in [Items -> Threads \cup {NoThread}]

\* Two goroutines never hold the same key at once, although they found their
\* mutex objects through a map whose entries come and go (scheduler.go:19-40).
MutualExclusion ==
  \A s, t \in Threads :
    pc[s] = "holding" /\ pc[t] = "holding" /\ key[s] = key[t] => s = t

\* As long as a goroutine waits for, holds or is about to drop a mutex, the map
\* still leads to that very object under its key: nobody deletes it early and
\* nobody puts a second object beside it.
EntryInUse ==
  \A t \in Threads :
    Engaged(t) =>
      /\ key[t] \in Keys
      /\ item[t] \in Items
      /\ locks[key[t]] = item[t]

\* The goroutines that refer to item i.
Users(i) == {t \in Threads : Engaged(t) /\ item[t] = i}

\* An entry's count is exactly the number of goroutines that refer to it, and
\* there is at least one: the map holds no entry that nobody uses, so it does
\* not grow with the number of conversations ever seen.
RefsExact ==
  \A k \in Keys :
    locks[k] # NoItem =>
      /\ refs[locks[k]] = Cardinality(Users(locks[k]))
      /\ refs[locks[k]] > 0

\* Two keys never share a mutex object.
EntriesDistinct ==
  \A j, k \in Keys : locks[j] = locks[k] /\ locks[j] # NoItem => j = k

\* The mutex of an item is held by exactly the goroutine that is in its
\* critical section.
OwnerExact ==
  /\ \A t \in Threads : pc[t] = "holding" => owner[item[t]] = t
  /\ \A i \in Items :
       owner[i] # NoThread => pc[owner[i]] = "holding" /\ item[owner[i]] = i

\* The inductive invariant the proofs in KeyedLocks_proofs use.
IInv == TypeOK /\ EntryInUse /\ RefsExact /\ EntriesDistinct /\ OwnerExact

(***************************************************************************)
(* Refinement: the abstract holder of a key is the goroutine in the        *)
(* critical section for it; a goroutine that still has to drop its         *)
(* reference has already given the key back.                               *)
(***************************************************************************)
Holders(k) == {t \in Threads : pc[t] = "holding" /\ key[t] = k}

TheHolder(S) == IF S = {} THEN NoThread ELSE CHOOSE t \in S : TRUE

holderBar == [k \in Keys |-> TheHolder(Holders(k))]

waitsBar == [t \in Threads |-> IF pc[t] = "waiting" THEN key[t] ELSE NoKey]

Abstract == INSTANCE KeyedMutex WITH holder <- holderBar, waits <- waitsBar

\* Every step of the reference-counted map is a step of a per-key mutex, or
\* invisible to its callers.
ImplementsKeyedMutex == Abstract!Spec

\* The same with the progress the mutex promises: whoever calls lock(key) gets
\* the key, whatever keys the others ask for.
ImplementsFairKeyedMutex == Abstract!FairSpec
=============================================================================
