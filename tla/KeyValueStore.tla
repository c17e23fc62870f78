--------------------------- MODULE KeyValueStore ----------------------------
(***************************************************************************)
(* What a persistent Store promises its callers (the Store interface of    *)
(* core/store.go, with the durability FileStore adds): a map that calls    *)
(* change one at a time.  Each call is asked, carried out at one moment    *)
(* and answered, or answered with an error and not carried out.  Expired   *)
(* items may go whenever a call is carried out.  No lock, no memory image, *)
(* no temporary file: those are how FileStore provides this.               *)
(***************************************************************************)
EXTENDS Integers

CONSTANTS
  Callers,  \* goroutines
  Keys,     \* keys of the map
  Values,   \* payloads
  Nil       \* no item, no answer

VARIABLES
  now,     \* the clock
  kept,    \* the map
  leaves,  \* the maps a crash may bring back: the last ones, until one is durable
  asked    \* asked[c]: the call of c, asked or done, or its last answer

vars == <<now, kept, leaves, asked>>

Quiet(answer) ==
  [state |-> "idle", op |-> "none", key |-> Nil, item |-> Nil, answer |-> answer]

Init ==
  /\ now = 1
  /\ kept = [k \in Keys |-> Nil]
  /\ leaves = {kept}
  /\ asked = [c \in Callers |-> Quiet(Nil)]

Stale(item) == item # Nil /\ item.expires # 0 /\ now > item.expires

\* What the call does to the map, were nothing expired.
Effect(call) ==
  IF call.op = "Set" THEN [kept EXCEPT ![call.key] = call.item]
  ELSE IF call.op = "Delete" THEN [kept EXCEPT ![call.key] = Nil]
  ELSE kept

\* ... and with any expired items gone too.
Carried(call) ==
  LET map == Effect(call)
  IN  { [k \in Keys |-> IF k \in gone THEN Nil ELSE map[k]] :
          gone \in SUBSET { k \in Keys : Stale(map[k]) } }

Questions ==
  [state : {"asked"}, op : {"Get", "Set", "Delete", "Sweep"}, key : Keys \cup {Nil},
   item : [value : Values, expires : Nat] \cup {Nil}, answer : {Nil}]

\* A goroutine asks; what it asks is its own business.
Ask(c) ==
  /\ asked[c].state = "idle"
  /\ asked'[c] \in Questions
  /\ asked' = [asked EXCEPT ![c] = asked'[c]]
  /\ UNCHANGED <<now, kept, leaves>>

\* A call that changes nothing is carried out and answered at once; a Get
\* answers what is in the map and has not expired.
Read(c) ==
  LET call == asked[c]
      found == IF call.op = "Get" /\ kept[call.key] # Nil /\ ~Stale(kept[call.key])
               THEN kept[call.key].value ELSE Nil
  IN  /\ call.state = "asked"
      /\ kept \in Carried(call)
      /\ asked' = [asked EXCEPT ![c] = Quiet(found)]
      /\ UNCHANGED <<now, kept, leaves>>

\* A call is carried out.  A crash may still undo it.
CarryOut(c) ==
  /\ asked[c].state = "asked"
  /\ kept' \in Carried(asked[c])
  /\ asked[c].op = "Get" => kept'[asked[c].key] = Nil
  /\ leaves' = leaves \cup {kept'}
  /\ asked' = [asked EXCEPT ![c].state = "done"]
  /\ UNCHANGED now

\* The answer to it.  The file system is asked to make it durable first and
\* may fail to.
Reply(c) ==
  /\ asked[c].state = "done"
  /\ asked' = [asked EXCEPT ![c] = Quiet(Nil)]
  /\ leaves' \in {leaves, {kept}}
  /\ UNCHANGED <<now, kept>>

\* An error: the call has done nothing and will do nothing.
Refuse(c) ==
  /\ asked[c].state \in {"idle", "asked"}
  /\ asked' = [asked EXCEPT ![c] = Quiet("error")]
  /\ UNCHANGED <<now, kept, leaves>>

Crash ==
  /\ kept' \in {kept} \cup leaves
  /\ leaves' = IF kept' = kept THEN leaves ELSE {kept'}
  /\ asked' = [c \in Callers |-> Quiet(Nil)]
  /\ UNCHANGED now

Tick ==
  /\ now' = now + 1
  /\ UNCHANGED <<kept, leaves, asked>>

Next ==
  \/ \E c \in Callers : Ask(c) \/ Read(c) \/ CarryOut(c) \/ Reply(c) \/ Refuse(c)
  \/ Crash
  \/ Tick

Spec == Init /\ [][Next]_vars
=============================================================================
