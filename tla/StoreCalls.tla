----------------------------- MODULE StoreCalls -----------------------------
(***************************************************************************)
(* What MemoryStore (core/store.go) and FileStore (core/file_store.go)     *)
(* have in common: the map of items with their expiry, the clock, and the  *)
(* calls of the Store interface with the context each is made under.  A    *)
(* call does its first lines here -- the context check and, in Set, the    *)
(* computation of the item and its expiry before the lock is taken -- and  *)
(* is then carried on by the store it was made to.                         *)
(*                                                                         *)
(* A key that is not in the map is mapped to Nil.                          *)
(***************************************************************************)
EXTENDS Integers

CONSTANTS
  Callers,   \* goroutines that use the store
  Keys,      \* session keys
  Values,    \* payloads
  TTLs,      \* time-to-live arguments; 0 is "never expires"
  MaxNow,    \* bound of the clock
  Nil        \* no item, no answer

ASSUME StoreAssumption ==
  /\ TTLs \subseteq Nat
  /\ MaxNow \in Nat \ {0}

VARIABLES
  now,       \* the clock the store reads
  items,     \* the store's map
  calls      \* calls[c]: the call goroutine c is in, or its last answer

callVars == <<now, items, calls>>

\* expires = 0 is the zero time (MemoryStore) or the nil pointer (FileStore).
Items == [value : Values, expires : Nat]
Stored == Items \cup {Nil}
NoItems == [k \in Keys |-> Nil]

Answers == Values \cup {Nil, "error"}

Idle(answer) ==
  [pc |-> "idle", op |-> "none", key |-> Nil, item |-> Nil, answer |-> answer]

Calls ==
  [pc : {"idle", "ready", "read", "delete", "save", "rename", "sync"},
   op : {"none", "Get", "Set", "Delete", "Sweep"},
   key : Keys \cup {Nil}, item : Stored, answer : Answers]

\* The calls a goroutine can make at time t, with what Set computes before
\* it asks for the lock.
Requests(t) ==
  LET Call(op, key, item) ==
        [pc |-> "ready", op |-> op, key |-> key, item |-> item, answer |-> Nil]
      Item(v, ttl) ==
        [value |-> v, expires |-> IF ttl > 0 THEN t + ttl ELSE 0]
  IN  { Call(op, k, Nil) : op \in {"Get", "Delete"}, k \in Keys }
        \cup { Call("Set", k, Item(v, ttl)) : k \in Keys, v \in Values, ttl \in TTLs }
        \cup { Call("Sweep", Nil, Nil) }

Expired(item, t) == item # Nil /\ item.expires # 0 /\ t > item.expires
Live(item, t) == item # Nil /\ ~Expired(item, t)

\* Faulty: an item goes at its expiry, not after it.
SweptEarly(map, keys, t) ==
  [k \in Keys |-> IF k \in keys /\ map[k] # Nil /\ map[k].expires # 0 /\ t >= map[k].expires
                   THEN Nil ELSE map[k]]

\* The map without those of the keys that have expired at time t.
Swept(map, keys, t) ==
  [k \in Keys |-> IF k \in keys /\ Expired(map[k], t) THEN Nil ELSE map[k]]

InitCalls ==
  /\ now = 1
  /\ items = NoItems
  /\ calls = [c \in Callers |-> Idle(Nil)]

At(c, pc) == calls[c].pc = pc
Goto(c, pc) == calls' = [calls EXCEPT ![c].pc = pc]

Answer(c, answer) == calls' = [calls EXCEPT ![c] = Idle(answer)]

\* A call under a live context.
Call(c) ==
  /\ At(c, "idle")
  /\ \E r \in Requests(now) : calls' = [calls EXCEPT ![c] = r]
  /\ UNCHANGED <<now, items>>

\* A call under a context that is done already: an error, and nothing else.
CallRefused(c) ==
  /\ At(c, "idle")
  /\ Answer(c, "error")
  /\ UNCHANGED <<now, items>>

Tick ==
  /\ now < MaxNow
  /\ now' = now + 1
  /\ UNCHANGED <<items, calls>>

TypeOKCalls ==
  /\ now \in 1 .. MaxNow
  /\ items \in [Keys -> Stored]
  /\ calls \in [Callers -> Calls]
=============================================================================
