-------------------------- MODULE KeyedLocks_proofs --------------------------
(***************************************************************************)
(* Proofs about KeyedLocks for any finite set of goroutines, any keys and  *)
(* any heap.  The argument: an entry's count is the number of goroutines   *)
(* that refer to it (RefsExact), so the goroutine that finds the count at  *)
(* one is the only one left and its delete hurts nobody (EntryInUse);      *)
(* hence two goroutines with one key always meet at one mutex object       *)
(* (OwnerExact), and hold it one at a time.                                *)
(***************************************************************************)
EXTENDS KeyedLocks, FiniteSetTheorems, TLAPS

\* The users of an item are a finite set, and their number a natural.
LEMMA UsersFinite ==
  ASSUME NEW i
  PROVE  IsFiniteSet(Users(i)) /\ Cardinality(Users(i)) \in Nat
<1>1. Users(i) \in SUBSET Threads
  BY DEF Users
<1>2. IsFiniteSet(Users(i))
  BY <1>1, ThreadsFinite, FS_Subset
<1>3. QED
  BY <1>2, FS_CardinalityType

\* The program starts in a state that satisfies the inductive invariant.
LEMMA InitIInv == Init => IInv
<1>1. SUFFICES ASSUME Init PROVE IInv
  OBVIOUS
<1>2. TypeOK
  BY <1>1 DEF Init, TypeOK
<1>3. EntryInUse
  BY <1>1 DEF Init, EntryInUse, Engaged
<1>4. RefsExact
  BY <1>1 DEF Init, RefsExact
<1>5. EntriesDistinct
  BY <1>1 DEF Init, EntriesDistinct
<1>6. OwnerExact
  BY <1>1 DEF Init, OwnerExact
<1>7. QED
  BY <1>2, <1>3, <1>4, <1>5, <1>6 DEF IInv

\* lock(key) finding the key's entry preserves the invariant.
LEMMA ShareStep ==
  ASSUME IInv, NEW t \in Threads, NEW k \in Keys,
         pc[t] = "idle", ShareEntry(t, k),
         pc' = [pc EXCEPT ![t] = "waiting"],
         key' = [key EXCEPT ![t] = k]
  PROVE  IInv'
<1> USE DEF IInv
<1> DEFINE i == locks[k]
<1>1. /\ i \in Items
      /\ i # NoItem
      /\ item' = [item EXCEPT ![t] = i]
      /\ refs' = [refs EXCEPT ![i] = @ + 1]
      /\ locks' = locks
      /\ owner' = owner
  BY NullsAssumption DEF ShareEntry, TypeOK
<1>2. TypeOK'
  BY <1>1 DEF TypeOK
<1>3. EntryInUse'
  BY <1>1 DEF EntryInUse, Engaged, TypeOK
<1>4. RefsExact'
  <2>1. SUFFICES ASSUME NEW j \in Keys, locks[j] # NoItem
                 PROVE  /\ refs'[locks[j]] = Cardinality(Users(locks[j]))'
                        /\ refs'[locks[j]] > 0
    BY <1>1 DEF RefsExact
  <2>2. /\ refs[locks[j]] = Cardinality(Users(locks[j]))
        /\ refs[locks[j]] > 0
        /\ locks[j] \in Items
    BY <2>1 DEF RefsExact, TypeOK
  <2>3. CASE locks[j] = i
    <3>1. Users(locks[j])' = Users(i) \cup {t}
      BY <1>1, <2>3 DEF Users, Engaged, TypeOK
    <3>2. t \notin Users(i)
      BY DEF Users, Engaged
    <3>3. Cardinality(Users(i) \cup {t}) = Cardinality(Users(i)) + 1
      BY <3>2, UsersFinite, FS_AddElement
    <3>4. refs'[locks[j]] = refs[i] + 1
      BY <1>1, <2>3 DEF TypeOK
    <3>5. QED
      BY <3>1, <3>3, <3>4, <2>2, <2>3, UsersFinite
  <2>4. CASE locks[j] # i
    <3>1. Users(locks[j])' = Users(locks[j])
      BY <1>1, <2>4 DEF Users, Engaged, TypeOK
    <3>2. refs'[locks[j]] = refs[locks[j]]
      BY <1>1, <2>2, <2>4 DEF TypeOK
    <3>3. QED
      BY <3>1, <3>2, <2>2
  <2>5. QED
    BY <2>3, <2>4
<1>5. EntriesDistinct'
  BY <1>1 DEF EntriesDistinct
<1>6. OwnerExact'
  BY <1>1, NullsAssumption DEF OwnerExact, TypeOK
<1>7. QED
  BY <1>2, <1>3, <1>4, <1>5, <1>6

\* lock(key) creating the key's entry preserves the invariant.
LEMMA CreateStep ==
  ASSUME IInv, NEW t \in Threads, NEW k \in Keys,
         pc[t] = "idle", CreateEntry(t, k),
         pc' = [pc EXCEPT ![t] = "waiting"],
         key' = [key EXCEPT ![t] = k]
  PROVE  IInv'
<1> USE DEF IInv
<1>1. PICK i \in FreshItems :
        /\ locks[k] = NoItem
        /\ item' = [item EXCEPT ![t] = i]
        /\ locks' = [locks EXCEPT ![k] = i]
        /\ refs' = [refs EXCEPT ![i] = 1]
        /\ owner' = [owner EXCEPT ![i] = NoThread]
  BY DEF CreateEntry
<1>2. /\ i \in Items
      /\ i # NoItem
      /\ \A j \in Keys : locks[j] # i
      /\ \A s \in Threads : item[s] # i
  BY NullsAssumption DEF FreshItems
<1>3. TypeOK'
  BY <1>1, <1>2 DEF TypeOK
<1>4. EntryInUse'
  <2>1. SUFFICES ASSUME NEW s \in Threads, pc'[s] # "idle"
                 PROVE  /\ key'[s] \in Keys
                        /\ item'[s] \in Items
                        /\ locks'[key'[s]] = item'[s]
    BY DEF EntryInUse, Engaged
  <2>2. CASE s = t
    BY <1>1, <1>2, <2>2 DEF TypeOK
  <2>3. CASE s # t
    <3>1. /\ key'[s] = key[s]
          /\ item'[s] = item[s]
          /\ pc[s] # "idle"
      BY <1>1, <2>1, <2>3 DEF TypeOK
    <3>2. /\ key[s] \in Keys
          /\ item[s] \in Items
          /\ locks[key[s]] = item[s]
      BY <3>1 DEF EntryInUse, Engaged
    <3>3. key[s] # k
      BY <1>1, <3>2, NullsAssumption
    <3>4. QED
      BY <1>1, <3>1, <3>2, <3>3 DEF TypeOK
  <2>4. QED
    BY <2>2, <2>3
<1>5. RefsExact'
  <2>1. SUFFICES ASSUME NEW j \in Keys, locks'[j] # NoItem
                 PROVE  /\ refs'[locks'[j]] = Cardinality(Users(locks[j]))'
                        /\ refs'[locks'[j]] > 0
    BY DEF RefsExact
  <2>2. CASE j = k
    <3>1. locks'[j] = i
      BY <1>1, <2>2 DEF TypeOK
    <3>2. Users(locks[j])' = {t}
      BY <1>1, <1>2, <3>1 DEF Users, Engaged, TypeOK
    <3>3. refs'[i] = 1
      BY <1>1, <1>2 DEF TypeOK
    <3>4. QED
      BY <3>1, <3>2, <3>3, FS_Singleton
  <2>3. CASE j # k
    <3>1. /\ locks'[j] = locks[j]
          /\ locks[j] # i
          /\ locks[j] \in Items
      BY <1>1, <1>2, <2>1, <2>3 DEF TypeOK
    <3>2. Users(locks[j])' = Users(locks[j])
      BY <1>1, <3>1 DEF Users, Engaged, TypeOK
    <3>3. refs'[locks[j]] = refs[locks[j]]
      BY <1>1, <3>1 DEF TypeOK
    <3>4. QED
      BY <2>1, <3>1, <3>2, <3>3 DEF RefsExact
  <2>4. QED
    BY <2>2, <2>3
<1>6. EntriesDistinct'
  BY <1>1, <1>2 DEF EntriesDistinct, TypeOK
<1>7. OwnerExact'
  <2>1. ASSUME NEW s \in Threads, pc'[s] = "holding"
        PROVE  owner'[item'[s]] = s
    <3>1. s # t /\ pc[s] = "holding"
      BY <2>1 DEF TypeOK
    <3>2. /\ item'[s] = item[s]
          /\ item[s] # i
          /\ item[s] \in Items
          /\ owner[item[s]] = s
      BY <1>1, <1>2, <3>1 DEF EntryInUse, Engaged, OwnerExact, TypeOK
    <3>3. QED
      BY <1>1, <3>2 DEF TypeOK
  <2>2. ASSUME NEW j \in Items, owner'[j] # NoThread
        PROVE  pc'[owner'[j]] = "holding" /\ item'[owner'[j]] = j
    <3>1. j # i /\ owner'[j] = owner[j]
      BY <1>1, <1>2, <2>2 DEF TypeOK
    <3>2. pc[owner[j]] = "holding" /\ item[owner[j]] = j
      BY <2>2, <3>1 DEF OwnerExact
    <3>3. owner[j] # t /\ owner[j] \in Threads
      BY <2>2, <3>1, <3>2 DEF TypeOK
    <3>4. QED
      BY <1>1, <3>1, <3>2, <3>3 DEF TypeOK
  <2>3. QED
    BY <2>1, <2>2 DEF OwnerExact
<1>8. QED
  BY <1>3, <1>4, <1>5, <1>6, <1>7

\* Taking the mutex preserves the invariant.
LEMMA LockStep ==
  ASSUME IInv, NEW t \in Threads, LockItem(t)
  PROVE  IInv'
<1> USE DEF IInv
<1>1. /\ pc[t] = "waiting"
      /\ owner[item[t]] = NoThread
      /\ owner' = [owner EXCEPT ![item[t]] = t]
      /\ pc' = [pc EXCEPT ![t] = "holding"]
      /\ UNCHANGED <<key, item, locks, refs>>
      /\ item[t] \in Items
  BY DEF LockItem, EntryInUse, Engaged
<1>2. TypeOK'
  BY <1>1 DEF TypeOK
<1>3. EntryInUse'
  BY <1>1 DEF EntryInUse, Engaged, TypeOK
<1>4. RefsExact'
  <2>1. \A i : Users(i)' = Users(i)
    BY <1>1 DEF Users, Engaged, TypeOK
  <2>2. QED
    BY <1>1, <2>1 DEF RefsExact
<1>5. EntriesDistinct'
  BY <1>1 DEF EntriesDistinct
<1>6. OwnerExact'
  <2>1. ASSUME NEW s \in Threads, pc'[s] = "holding"
        PROVE  owner'[item'[s]] = s
    BY <1>1, <2>1, NullsAssumption DEF OwnerExact, EntryInUse, Engaged, TypeOK
  <2>2. ASSUME NEW j \in Items, owner'[j] # NoThread
        PROVE  pc'[owner'[j]] = "holding" /\ item'[owner'[j]] = j
    BY <1>1, <2>2 DEF OwnerExact, TypeOK
  <2>3. QED
    BY <2>1, <2>2 DEF OwnerExact
<1>7. QED
  BY <1>2, <1>3, <1>4, <1>5, <1>6

\* Releasing the mutex preserves the invariant.
LEMMA UnlockStep ==
  ASSUME IInv, NEW t \in Threads, UnlockItem(t)
  PROVE  IInv'
<1> USE DEF IInv
<1>1. /\ pc[t] = "holding"
      /\ owner[item[t]] = t
      /\ owner' = [owner EXCEPT ![item[t]] = NoThread]
      /\ pc' = [pc EXCEPT ![t] = "releasing"]
      /\ UNCHANGED <<key, item, locks, refs>>
      /\ item[t] \in Items
  BY DEF UnlockItem, EntryInUse, Engaged, OwnerExact
<1>2. TypeOK'
  BY <1>1 DEF TypeOK
<1>3. EntryInUse'
  BY <1>1 DEF EntryInUse, Engaged, TypeOK
<1>4. RefsExact'
  <2>1. \A i : Users(i)' = Users(i)
    BY <1>1 DEF Users, Engaged, TypeOK
  <2>2. QED
    BY <1>1, <2>1 DEF RefsExact
<1>5. EntriesDistinct'
  BY <1>1 DEF EntriesDistinct
<1>6. OwnerExact'
  <2>1. ASSUME NEW s \in Threads, pc'[s] = "holding"
        PROVE  owner'[item'[s]] = s
    <3>1. s # t /\ pc[s] = "holding" /\ item[s] \in Items /\ owner[item[s]] = s
      BY <1>1, <2>1 DEF OwnerExact, EntryInUse, Engaged, TypeOK
    <3>2. item[s] # item[t]
      BY <1>1, <3>1
    <3>3. QED
      BY <1>1, <3>1, <3>2 DEF TypeOK
  <2>2. ASSUME NEW j \in Items, owner'[j] # NoThread
        PROVE  pc'[owner'[j]] = "holding" /\ item'[owner'[j]] = j
    <3>1. j # item[t] /\ owner'[j] = owner[j]
      BY <1>1, <2>2 DEF TypeOK
    <3>2. pc[owner[j]] = "holding" /\ item[owner[j]] = j
      BY <2>2, <3>1 DEF OwnerExact
    <3>3. owner[j] # t /\ owner[j] \in Threads
      BY <2>2, <3>1, <3>2 DEF TypeOK
    <3>4. QED
      BY <1>1, <3>1, <3>2, <3>3 DEF TypeOK
  <2>3. QED
    BY <2>1, <2>2 DEF OwnerExact
<1>7. QED
  BY <1>2, <1>3, <1>4, <1>5, <1>6

\* Dropping the reference preserves the invariant: the entry that is deleted
\* has no other user.
LEMMA DropStep ==
  ASSUME IInv, NEW t \in Threads, DropEntry(t)
  PROVE  IInv'
<1> USE DEF IInv
<1>0. PICK i \in Items, k \in Keys : item[t] = i /\ key[t] = k
  BY DEF DropEntry, EntryInUse, Engaged
<1>1. /\ pc[t] = "releasing"
      /\ refs' = [refs EXCEPT ![i] = @ - 1]
      /\ locks' = IF refs[i] = 1 THEN [locks EXCEPT ![k] = NoItem] ELSE locks
      /\ pc' = [pc EXCEPT ![t] = "idle"]
      /\ key' = [key EXCEPT ![t] = NoKey]
      /\ item' = [item EXCEPT ![t] = NoItem]
      /\ owner' = owner
  BY <1>0 DEF DropEntry
<1>2. locks[k] = i /\ i # NoItem
  BY <1>0, <1>1, NullsAssumption DEF EntryInUse, Engaged
<1>3. refs[i] = Cardinality(Users(i)) /\ refs[i] > 0 /\ refs[i] \in Nat
  BY <1>2 DEF RefsExact, TypeOK
<1>4. t \in Users(i)
  BY <1>0, <1>1 DEF Users, Engaged
<1>5. Cardinality(Users(i) \ {t}) = refs[i] - 1
  BY <1>3, <1>4, UsersFinite, FS_RemoveElement
<1>6. Users(i)' = Users(i) \ {t}
  BY <1>0, <1>1, <1>2, NullsAssumption DEF Users, Engaged, TypeOK
<1>7. TypeOK'
  BY <1>1, <1>2, <1>3 DEF TypeOK
<1>8. EntryInUse'
  <2>1. SUFFICES ASSUME NEW s \in Threads, pc'[s] # "idle"
                 PROVE  /\ key'[s] \in Keys
                        /\ item'[s] \in Items
                        /\ locks'[key'[s]] = item'[s]
    BY DEF EntryInUse, Engaged
  <2>2. /\ s # t
        /\ pc[s] # "idle"
        /\ key'[s] = key[s]
        /\ item'[s] = item[s]
    BY <1>1, <2>1 DEF TypeOK
  <2>3. key[s] \in Keys /\ item[s] \in Items /\ locks[key[s]] = item[s]
    BY <2>2 DEF EntryInUse, Engaged
  <2>4. CASE refs[i] # 1
    BY <1>1, <2>2, <2>3, <2>4
  <2>5. CASE refs[i] = 1
    <3>1. Users(i) \ {t} = {}
      <4>1. IsFiniteSet(Users(i) \ {t})
        BY UsersFinite, FS_RemoveElement
      <4>2. Cardinality(Users(i) \ {t}) = 0
        BY <1>5, <2>5
      <4>3. QED
        BY <4>1, <4>2, FS_EmptySet
    <3>2. s \notin Users(i)
      BY <2>2, <3>1
    <3>3. item[s] # i
      BY <2>2, <3>2 DEF Users, Engaged
    <3>4. key[s] # k
      BY <1>2, <2>3, <3>3
    <3>5. QED
      BY <1>1, <2>2, <2>3, <2>5, <3>4 DEF TypeOK
  <2>6. QED
    BY <2>4, <2>5
<1>9. RefsExact'
  <2>1. SUFFICES ASSUME NEW j \in Keys, locks'[j] # NoItem
                 PROVE  /\ refs'[locks'[j]] = Cardinality(Users(locks[j]))'
                        /\ refs'[locks'[j]] > 0
    BY DEF RefsExact
  <2>2. locks'[j] = locks[j] /\ locks[j] \in Items
    BY <1>1, <1>2, <2>1 DEF TypeOK
  <2>3. CASE j = k
    <3>1. refs[i] # 1
      BY <1>1, <1>2, <2>1, <2>3 DEF TypeOK
    <3>2. refs'[i] = refs[i] - 1
      BY <1>1, <1>2 DEF TypeOK
    <3>3. Users(locks[j])' = Users(i) \ {t}
      BY <1>2, <1>6, <2>2, <2>3
    <3>4. QED
      BY <1>2, <1>3, <1>5, <2>2, <2>3, <3>1, <3>2, <3>3
  <2>4. CASE j # k
    <3>1. locks[j] # i
      BY <1>2, <2>4 DEF EntriesDistinct
    <3>2. Users(locks[j])' = Users(locks[j])
      BY <1>0, <1>1, <2>2, <3>1 DEF Users, Engaged, TypeOK
    <3>3. refs'[locks[j]] = refs[locks[j]]
      BY <1>1, <2>2, <3>1 DEF TypeOK
    <3>4. QED
      BY <2>1, <2>2, <3>2, <3>3 DEF RefsExact
  <2>5. QED
    BY <2>3, <2>4
<1>10. EntriesDistinct'
  BY <1>1, <1>2 DEF EntriesDistinct, TypeOK
<1>11. OwnerExact'
  BY <1>0, <1>1, <1>2 DEF OwnerExact, EntryInUse, Engaged, TypeOK
<1>12. QED
  BY <1>7, <1>8, <1>9, <1>10, <1>11

\* Every step of the program preserves the invariant.
LEMMA StepIInv == IInv /\ [Next]_lockVars => IInv'
<1>1. SUFFICES ASSUME IInv, [Next]_lockVars PROVE IInv'
  OBVIOUS
<1>2. CASE UNCHANGED lockVars
  BY <1>1, <1>2 DEF lockVars, IInv, TypeOK, EntryInUse, RefsExact, Users,
                    EntriesDistinct, OwnerExact, Engaged
<1>3. ASSUME NEW t \in Threads, NEW k \in Keys, AcquireEntry(t, k)
      PROVE  IInv'
  BY <1>1, <1>3, ShareStep, CreateStep DEF AcquireEntry
<1>4. ASSUME NEW t \in Threads, LockItem(t)
      PROVE  IInv'
  BY <1>1, <1>4, LockStep
<1>5. ASSUME NEW t \in Threads, UnlockItem(t)
      PROVE  IInv'
  BY <1>1, <1>5, UnlockStep
<1>6. ASSUME NEW t \in Threads, DropEntry(t)
      PROVE  IInv'
  BY <1>1, <1>6, DropStep
<1>7. QED
  BY <1>1, <1>2, <1>3, <1>4, <1>5, <1>6 DEF Next

\* The reference counting of scheduler.go:19-40 is right in every reachable
\* state: entries in use stay in the map, counts are exact, owners are exact.
THEOREM Invariance == Spec => []IInv
<1>1. QED
  BY InitIInv, StepIInv, PTL DEF Spec

\* Type correctness of the map and its mutexes (scheduler.go:5-13).
THEOREM TypeCorrect == Spec => []TypeOK
<1>1. IInv => TypeOK
  BY DEF IInv
<1>2. QED
  BY <1>1, Invariance, PTL

\* The map holds no unused entry and every count is exact (scheduler.go:26,34).
THEOREM CountsExact == Spec => []RefsExact
<1>1. IInv => RefsExact
  BY DEF IInv
<1>2. QED
  BY <1>1, Invariance, PTL

\* In an invariant state two holders of one key are the same goroutine.
LEMMA IInvMutex == IInv => MutualExclusion
<1>1. SUFFICES ASSUME IInv, NEW s \in Threads, NEW t \in Threads,
                      pc[s] = "holding", pc[t] = "holding", key[s] = key[t]
               PROVE  s = t
  BY DEF MutualExclusion
<1>2. item[s] = locks[key[s]] /\ item[t] = locks[key[t]]
  BY <1>1 DEF IInv, EntryInUse, Engaged
<1>3. owner[item[s]] = s /\ owner[item[t]] = t
  BY <1>1 DEF IInv, OwnerExact
<1>4. QED
  BY <1>1, <1>2, <1>3

\* Two goroutines never run their critical sections for one key at once, for
\* any number of goroutines and keys (scheduler.go:19-40, app.go:224-233).
THEOREM Mutex == Spec => []MutualExclusion
<1>1. QED
  BY Invariance, IInvMutex, PTL

-----------------------------------------------------------------------------
\* A set of one holder has that holder; an empty set has none.
LEMMA OneHolder ==
  /\ \A t : TheHolder({t}) = t
  /\ TheHolder({}) = NoThread
BY DEF TheHolder

\* What the refinement needs to know of a state: who holds a key.
LEMMA HolderFacts ==
  ASSUME IInv
  PROVE  /\ \A t \in Threads : pc[t] = "holding" => Holders(key[t]) = {t}
         /\ \A t \in Threads : pc[t] # "idle" => key[t] \in Keys
         /\ \A t \in Threads :
              pc[t] = "waiting" /\ owner[item[t]] = NoThread
                => Holders(key[t]) = {}
<1>1. \A s, t \in Threads :
        pc[s] = "holding" /\ pc[t] = "holding" /\ key[s] = key[t] => s = t
  BY IInvMutex DEF MutualExclusion
<1>2. ASSUME NEW t \in Threads, NEW s \in Threads,
             pc[t] = "waiting", owner[item[t]] = NoThread,
             pc[s] = "holding", key[s] = key[t]
      PROVE  FALSE
  <2>1. item[s] = locks[key[s]] /\ item[t] = locks[key[t]]
    BY <1>2 DEF IInv, EntryInUse, Engaged
  <2>2. owner[item[s]] = s
    BY <1>2 DEF IInv, OwnerExact
  <2>3. QED
    BY <1>2, <2>1, <2>2, NullsAssumption
<1>3. QED
  BY <1>1, <1>2 DEF Holders, IInv, EntryInUse, Engaged

\* The first state maps to the first state of the mutex.
LEMMA InitRefines == Init => Abstract!Init
<1>1. SUFFICES ASSUME Init PROVE Abstract!Init
  OBVIOUS
<1>2. \A k : Holders(k) = {}
  BY <1>1 DEF Init, Holders
<1>3. holderBar = [k \in Keys |-> NoThread]
  BY <1>2, OneHolder DEF holderBar
<1>4. waitsBar = [t \in Threads |-> NoKey]
  BY <1>1 DEF Init, waitsBar
<1>5. QED
  BY <1>3, <1>4 DEF Abstract!Init

\* Entering lock(key) is the mutex's Request.
LEMMA AcquireRefines ==
  ASSUME IInv, NEW t \in Threads, NEW k \in Keys, AcquireEntry(t, k)
  PROVE  Abstract!Request(t, k)
<1>1. /\ pc[t] = "idle"
      /\ pc' = [pc EXCEPT ![t] = "waiting"]
      /\ key' = [key EXCEPT ![t] = k]
      /\ pc \in [Threads -> {"idle", "waiting", "holding", "releasing"}]
      /\ key \in [Threads -> Keys \cup {NoKey}]
  BY DEF AcquireEntry, IInv, TypeOK
<1>2. \A j : Holders(j)' = Holders(j) /\ t \notin Holders(j)
  BY <1>1 DEF Holders
<1>3. holderBar' = holderBar
  BY <1>2 DEF holderBar
<1>4. \A j \in Keys : holderBar[j] # t
  <2>1. ASSUME NEW j \in Keys PROVE TheHolder(Holders(j)) # t
    BY <1>2, NullsAssumption DEF TheHolder
  <2>2. QED
    BY <2>1 DEF holderBar
<1>5. waitsBar' = [waitsBar EXCEPT ![t] = k]
  BY <1>1 DEF waitsBar
<1>6. waitsBar[t] = NoKey
  BY <1>1 DEF waitsBar
<1>7. QED
  BY <1>3, <1>4, <1>5, <1>6 DEF Abstract!Request

\* Taking the item's mutex is the mutex's Grant.
LEMMA LockRefines ==
  ASSUME IInv, NEW t \in Threads, LockItem(t)
  PROVE  Abstract!Grant(t)
<1>1. /\ pc[t] = "waiting"
      /\ owner[item[t]] = NoThread
      /\ pc' = [pc EXCEPT ![t] = "holding"]
      /\ key' = key
      /\ pc \in [Threads -> {"idle", "waiting", "holding", "releasing"}]
      /\ key \in [Threads -> Keys \cup {NoKey}]
  BY DEF LockItem, IInv, TypeOK
<1>2. key[t] \in Keys /\ Holders(key[t]) = {}
  BY <1>1, HolderFacts
<1>3. \A j : Holders(j)' = IF j = key[t] THEN {t} ELSE Holders(j)
  BY <1>1, <1>2 DEF Holders
<1>4. holderBar' = [holderBar EXCEPT ![key[t]] = t]
  BY <1>2, <1>3, OneHolder DEF holderBar
<1>5. holderBar[key[t]] = NoThread
  BY <1>2, OneHolder DEF holderBar
<1>6. waitsBar' = [waitsBar EXCEPT ![t] = NoKey]
  BY <1>1 DEF waitsBar
<1>7. waitsBar[t] = key[t] /\ key[t] # NoKey
  BY <1>1, <1>2, NullsAssumption DEF waitsBar
<1>8. QED
  BY <1>4, <1>5, <1>6, <1>7 DEF Abstract!Grant

\* Releasing the item's mutex is the mutex's Return.
LEMMA UnlockRefines ==
  ASSUME IInv, NEW t \in Threads, UnlockItem(t)
  PROVE  Abstract!Return(key[t]) /\ key[t] \in Keys
<1>1. /\ pc[t] = "holding"
      /\ pc' = [pc EXCEPT ![t] = "releasing"]
      /\ key' = key
      /\ pc \in [Threads -> {"idle", "waiting", "holding", "releasing"}]
  BY DEF UnlockItem, IInv, TypeOK
<1>2. key[t] \in Keys /\ Holders(key[t]) = {t}
  BY <1>1, HolderFacts
<1>3. \A j : Holders(j)' = IF j = key[t] THEN {} ELSE Holders(j)
  BY <1>1, <1>2 DEF Holders
<1>4. holderBar' = [holderBar EXCEPT ![key[t]] = NoThread]
  BY <1>2, <1>3, OneHolder DEF holderBar
<1>5. holderBar[key[t]] # NoThread
  BY <1>2, OneHolder, NullsAssumption DEF holderBar
<1>6. waitsBar' = waitsBar
  BY <1>1 DEF waitsBar
<1>7. QED
  BY <1>2, <1>4, <1>5, <1>6 DEF Abstract!Return

\* Dropping the reference is invisible to the mutex's callers.
LEMMA DropRefines ==
  ASSUME IInv, NEW t \in Threads, DropEntry(t)
  PROVE  UNCHANGED Abstract!vars
<1>1. /\ pc[t] = "releasing"
      /\ pc' = [pc EXCEPT ![t] = "idle"]
      /\ key' = [key EXCEPT ![t] = NoKey]
      /\ pc \in [Threads -> {"idle", "waiting", "holding", "releasing"}]
      /\ key \in [Threads -> Keys \cup {NoKey}]
  BY DEF DropEntry, IInv, TypeOK
<1>2. \A j : Holders(j)' = Holders(j)
  BY <1>1 DEF Holders
<1>3. holderBar' = holderBar
  BY <1>2 DEF holderBar
<1>4. waitsBar' = waitsBar
  BY <1>1 DEF waitsBar
<1>5. QED
  BY <1>3, <1>4 DEF Abstract!vars

\* Every step of the program is a step of the mutex or a stutter.
LEMMA StepRefines == IInv /\ [Next]_lockVars => [Abstract!Next]_(Abstract!vars)
<1>1. SUFFICES ASSUME IInv, [Next]_lockVars
               PROVE  [Abstract!Next]_(Abstract!vars)
  OBVIOUS
<1>2. CASE UNCHANGED lockVars
  BY <1>2 DEF lockVars, Abstract!vars, holderBar, Holders, waitsBar
<1>3. ASSUME NEW t \in Threads, NEW k \in Keys, AcquireEntry(t, k)
      PROVE  Abstract!Next
  BY <1>1, <1>3, AcquireRefines DEF Abstract!Next
<1>4. ASSUME NEW t \in Threads, LockItem(t)
      PROVE  Abstract!Next
  BY <1>1, <1>4, LockRefines DEF Abstract!Next
<1>5. ASSUME NEW t \in Threads, UnlockItem(t)
      PROVE  Abstract!Next
  BY <1>1, <1>5, UnlockRefines DEF Abstract!Next
<1>6. ASSUME NEW t \in Threads, DropEntry(t)
      PROVE  UNCHANGED Abstract!vars
  BY <1>1, <1>6, DropRefines
<1>7. QED
  BY <1>1, <1>2, <1>3, <1>4, <1>5, <1>6 DEF Next

\* The reference-counted map implements one plain mutex per key, whatever the
\* number of goroutines, keys and objects (scheduler.go:19-40).
THEOREM Refinement == Spec => ImplementsKeyedMutex
<1>1. QED
  BY InitRefines, StepRefines, Invariance, PTL
     DEF Spec, ImplementsKeyedMutex, Abstract!Spec
=============================================================================
