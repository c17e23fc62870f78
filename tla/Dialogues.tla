----------------------------- MODULE Dialogues ------------------------------
(***************************************************************************)
(* What handlers keep between events (sdk/dialogue.go, sdk/state.go): the  *)
(* record of a dialogue, which a rule loads and the handler of its route   *)
(* replaces or deletes, and a counter changed with State.Update.  Both lie *)
(* in the bot's store under a place: a conversation, a user or a group.    *)
(* A call to the store takes effect at once or fails without effect, as    *)
(* KeyValueStore promises.                                                 *)
(***************************************************************************)
EXTENDS Integers, FiniteSets

CONSTANTS
  Places,
  NoPlace,     \* the group of an event outside groups
  TTL,         \* of a dialogue's record; 0: for ever
  MaxFaults    \* bound on the calls that fail

ASSUME DialogueAssumption ==
  NoPlace \notin Places /\ TTL \in Nat /\ MaxFaults \in Nat

VARIABLES
  record,      \* [Places -> [id, until]]: id 0 for none, until 0 for ever
  value,       \* [Places -> Nat]
  \* one per event: the record its rule has loaded, the counter its handler has
  matched, loaded,
  \* to state properties: records there have been, who has replaced or deleted
  \* which, updates that have succeeded; and the failures so far
  ids, advanced, updates, faults

stateVars ==
  <<record, value, matched, loaded, ids, advanced, updates, faults>>

NoRecord == [id |-> 0, until |-> 0]

DialoguesInit(events, begun) ==
  /\ record = [k \in Places |->
                 IF k = begun THEN [id |-> 1, until |-> TTL] ELSE NoRecord]
  /\ ids = 1
  /\ value = [k \in Places |-> 0]
  /\ matched = [e \in events |-> 0]
  /\ loaded = [e \in events |-> 0]
  /\ advanced = {}
  /\ updates = [k \in Places |-> 0]
  /\ faults = 0

Active(k, now) ==
  k # NoPlace /\ record[k].id # 0 /\ (record[k].until = 0 \/ now <= record[k].until)

CallFails ==
  /\ faults < MaxFaults
  /\ faults' = faults + 1
  /\ UNCHANGED <<record, value, loaded, ids, advanced, updates>>

-----------------------------------------------------------------------------
\* The rule of a dialogue's route.  An error matches too: the handler returns it.

Failed == -1

LoadRecord(e, k, now) ==
  /\ Active(k, now)
  /\ matched' = [matched EXCEPT ![e] = record[k].id]
  /\ UNCHANGED <<record, value, loaded, ids, advanced, updates, faults>>

LoadFails(e, k) ==
  /\ k # NoPlace
  /\ CallFails
  /\ matched' = [matched EXCEPT ![e] = Failed]

Save(k, now) ==
  /\ ids' = ids + 1
  /\ record' = [record EXCEPT
                  ![k] = [id |-> ids + 1, until |-> IF TTL = 0 THEN 0 ELSE now + TTL]]
  /\ UNCHANGED <<value, loaded, updates, faults>>

\* DialogueTurn.Next, whatever has become of the record meanwhile.
Advance(e, k, now) ==
  /\ Save(k, now)
  /\ advanced' = advanced \cup {<<e, matched[e]>>}
  /\ matched' = [matched EXCEPT ![e] = ids + 1]

\* DialogueTurn.End.
EndDialogue(e, k) ==
  /\ record' = [record EXCEPT ![k] = NoRecord]
  /\ advanced' = advanced \cup {<<e, matched[e]>>}
  /\ UNCHANGED <<value, matched, loaded, ids, updates, faults>>

\* Dialogue.Begin in the handler of another route: an older record is lost.
BeginDialogue(k, now) ==
  /\ k # NoPlace
  /\ Save(k, now)
  /\ UNCHANGED <<matched, advanced>>

-----------------------------------------------------------------------------
\* State.Update: Load, the change, Save.

LoadValue(e, k) ==
  /\ k # NoPlace
  /\ loaded' = [loaded EXCEPT ![e] = value[k]]
  /\ UNCHANGED <<record, value, matched, ids, advanced, updates, faults>>

SaveValue(e, k) ==
  /\ value' = [value EXCEPT ![k] = loaded[e] + 1]
  /\ updates' = [updates EXCEPT ![k] = @ + 1]
  /\ UNCHANGED <<record, matched, loaded, ids, advanced, faults>>

StoreFails == CallFails /\ UNCHANGED matched

-----------------------------------------------------------------------------
DialoguesTypeOK(events) ==
  /\ record \in [Places -> [id : Nat, until : Nat]]
  /\ value \in [Places -> Nat]
  /\ matched \in [events -> Nat \cup {Failed}] /\ loaded \in [events -> Nat]
  /\ ids \in Nat /\ advanced \subseteq events \X Nat
  /\ updates \in [Places -> Nat] /\ faults \in 0..MaxFaults
=============================================================================
