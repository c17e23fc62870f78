---------------------------- MODULE MemoryStore -----------------------------
(***************************************************************************)
(* MemoryStore (core/store.go): a map under a read-write lock.  Get reads  *)
(* the item and gives the lock back before it looks at the expiry, and     *)
(* deletes an expired key in a second critical section.  Set reads the     *)
(* clock before it takes the lock, and once in a while sweeps what had     *)
(* expired at that time.                                                   *)
(***************************************************************************)
EXTENDS StoreCalls

CONSTANT SweepEvery  \* least time between two sweeps by Set; 0: Set never sweeps

VARIABLES
  asOf,       \* asOf[c]: the clock as c's Set read it
  lastSwept   \* the clock of the last sweep, 0 before the first

vars == <<callVars, asOf, lastSwept>>

Init ==
  /\ InitCalls
  /\ asOf = [c \in Callers |-> 0]
  /\ lastSwept = 0

Ask(c) ==
  /\ Call(c) \/ CallRefused(c)
  /\ asOf' = [asOf EXCEPT ![c] = IF calls'[c].op = "Set" THEN now ELSE 0]
  /\ UNCHANGED lastSwept

Done(c, answer) ==
  /\ Answer(c, answer)
  /\ asOf' = [asOf EXCEPT ![c] = 0]

\* Get, under the read lock: the item, if there is one.
ReadItem(c) ==
  /\ At(c, "ready") /\ calls[c].op = "Get"
  /\ \/ /\ items[calls[c].key] = Nil
        /\ Done(c, Nil)
     \/ /\ items[calls[c].key] # Nil
        /\ calls' = [calls EXCEPT ![c].pc = "read", ![c].item = items[calls[c].key]]
        /\ UNCHANGED asOf
  /\ UNCHANGED <<now, items, lastSwept>>

\* Get, outside the lock: is what it read still valid?
JudgeItem(c) ==
  /\ At(c, "read")
  /\ \/ /\ Expired(calls[c].item, now)
        /\ Goto(c, "delete")
        /\ UNCHANGED asOf
     \/ /\ Live(calls[c].item, now)
        /\ Done(c, calls[c].item.value)
  /\ UNCHANGED <<now, items, lastSwept>>

\* Delete, or Get deleting the key whose item it found expired.
DeleteItem(c) ==
  /\ At(c, "delete") \/ (At(c, "ready") /\ calls[c].op = "Delete")
  /\ items' = [items EXCEPT ![calls[c].key] = Nil]
  /\ Done(c, Nil)
  /\ UNCHANGED <<now, lastSwept>>

\* Set sweeps unless it is too early.
SweepDue(t) == SweepEvery > 0 /\ (lastSwept = 0 \/ t - lastSwept >= SweepEvery)

PutItem(c) ==
  LET t == asOf[c]
      map == [items EXCEPT ![calls[c].key] = calls[c].item]
  IN  /\ At(c, "ready") /\ calls[c].op = "Set"
      /\ IF SweepDue(t) THEN /\ items' = Swept(map, Keys, t)
                             /\ lastSwept' = t
                        ELSE /\ items' = map
                             /\ UNCHANGED lastSwept
      /\ Done(c, Nil)
      /\ UNCHANGED now

SweepItems(c) ==
  /\ At(c, "ready") /\ calls[c].op = "Sweep"
  /\ items' = Swept(items, Keys, now)
  /\ lastSwept' = now
  /\ Done(c, Nil)
  /\ UNCHANGED now

Next ==
  \/ \E c \in Callers :
       Ask(c) \/ ReadItem(c) \/ JudgeItem(c) \/ DeleteItem(c) \/ PutItem(c) \/ SweepItems(c)
  \/ Tick /\ UNCHANGED <<asOf, lastSwept>>

Spec == Init /\ [][Next]_vars

------------------------------------------------------------------------------
(* Properties *)

\* The item a Get has read, before it has judged it and after.
ReadsExact ==
  \A c \in Callers :
    /\ calls[c].pc \in {"read", "delete"} =>
         calls[c].op = "Get" /\ calls[c].key \in Keys /\ calls[c].item \in Items
    /\ At(c, "delete") => Expired(calls[c].item, now)

\* What has been asked for, and when Set has read the clock.
AskedExact ==
  \A c \in Callers : At(c, "ready") =>
    /\ calls[c].op # "none"
    /\ calls[c].op # "Sweep" => calls[c].key \in Keys
    /\ calls[c].op = "Set" => calls[c].item \in Items

\* Types, with no clock ahead of the store's; and the two above.  From it
\* follows what a live item is lost to.
IInv ==
  /\ TypeOKCalls
  /\ \A c \in Callers : calls[c].pc \in {"idle", "ready", "read", "delete"}
  /\ asOf \in [Callers -> 0 .. now]
  /\ lastSwept \in 0 .. now
  /\ ReadsExact
  /\ AskedExact

\* What Set says of a value ("it goes when its time to live is over") and
\* the type of itself ("safe for goroutines"): an item that has not expired
\* leaves the map only through a Delete, or makes room for a Set, of its key.
ValueStays ==
  [][\A k \in Keys :
       Live(items[k], now) /\ items'[k] # items[k] =>
         \E c \in Callers : calls[c].key = k /\ calls[c].op \in {"Set", "Delete"}
                            /\ calls'[c].pc = "idle"]_vars

\* What does hold: sweeps, with a clock read before the lock or after it,
\* spare every live item, and a live item is lost only to a Get that had
\* read an expired item of the same key.
OnlyStaleGetLoses ==
  [][\A k \in Keys :
       Live(items[k], now) /\ items'[k] # items[k] =>
         \E c \in Callers :
           /\ calls[c].key = k
           /\ calls'[c].pc = "idle"
           /\ \/ calls[c].op \in {"Set", "Delete"}
              \/ calls[c].op = "Get" /\ Expired(calls[c].item, now)]_vars
=============================================================================
