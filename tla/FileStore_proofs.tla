-------------------------- MODULE FileStore_proofs --------------------------
(***************************************************************************)
(* Proofs about FileStore and MemoryStore for any callers, keys, values,   *)
(* times to live and any number of failing file operations and crashes.    *)
(* MemoryInStep is not inductive: that an idle store agrees with its file  *)
(* depends on what the holder of the mutex has done so far, which IInv     *)
(* says for each stage of a save.  What a live item of a memory store is   *)
(* lost to follows from what Get and Set know when they change the map     *)
(* (Memory!IInv).                                                          *)
(***************************************************************************)
EXTENDS Stores, TLAPS

Maps == [Keys -> Stored]
Saving(c) == calls[c].pc \in {"save", "rename"}
Inside(c) == calls[c].pc \in {"save", "rename", "sync"}

\* A call in progress is one that Requests can make.
Asked(call) ==
  /\ call.pc # "idle" => call.op # "none"
  /\ call.pc = "idle" => call.op = "none" /\ call.key = Nil /\ call.item = Nil
  /\ call.op \in {"Get", "Set", "Delete"} => call.key \in Keys
  /\ call.op = "Set" => call.item \in Items
  /\ call.pc \notin {"read", "delete"}

\* Who holds the mutex, and when.
HolderInside ==
  /\ \A c \in Callers : Inside(c) <=> mu = c
  /\ ~up => \A c \in Callers : calls[c].pc = "idle"

\* What file, clone and map are to each other at each stage.
StageOfSave ==
  /\ up /\ mu = Nobody => disk = items
  /\ \A c \in Callers : Saving(c) => disk = before
  /\ \A c \in Callers : At(c, "sync") => disk = items

\* The temporary file is whole before it takes the name, so that no file
\* that a crash can leave is torn.
NothingTorn ==
  /\ \A c \in Callers : At(c, "rename") => temp = "synced"
  /\ disk \in Maps
  /\ leaves \subseteq Maps
  /\ disk \in leaves

\* What a call may make of a map at time t: its own change, and any expired
\* items gone.
Put(call, map) ==
  IF call.op = "Set" THEN [map EXCEPT ![call.key] = call.item]
  ELSE IF call.op = "Delete" THEN [map EXCEPT ![call.key] = Nil]
  ELSE map

Outcomes(call, map, t) ==
  { [k \in Keys |-> IF k \in gone THEN Nil ELSE Put(call, map)[k]] :
      gone \in SUBSET { k \in Keys : Expired(Put(call, map)[k], t) } }

\* What is about to be renamed is an outcome of the holder's call, for the
\* map that is still on disk.
ReadyToCommit ==
  \A c \in Callers : Saving(c) =>
    /\ items \in Outcomes(calls[c], disk, now)
    /\ calls[c].op = "Get" => items[calls[c].key] = Nil

IInv ==
  /\ TypeOK
  /\ \A c \in Callers : Asked(calls[c])
  /\ HolderInside
  /\ StageOfSave
  /\ NothingTorn
  /\ ReadyToCommit

------------------------------------------------------------------------------

\* Carrying a call out yields a map.
LEMMA AfterMap ==
  ASSUME NEW map \in Maps, NEW t, NEW call \in Calls, Asked(call)
  PROVE  After(call, map, t) \in Maps
<1> DEFINE put == IF call.op = "Set" THEN [map EXCEPT ![call.key] = call.item]
                  ELSE IF call.op = "Delete" THEN [map EXCEPT ![call.key] = Nil]
                  ELSE map
<1>1. put \in Maps
  BY DEF Maps, Asked, Stored
<1>2. Swept(put, Examined(call), t) \in Maps
  <2> HIDE DEF put
  <2> QED BY <1>1 DEF Maps, Swept, Stored
<1> QED BY <1>2 DEF After

\* What a request is.
LEMMA RequestsAreCalls ==
  ASSUME NEW t \in Nat, NEW r \in Requests(t)
  PROVE  r \in Calls /\ Asked(r) /\ r.pc = "ready" /\ r.answer = Nil
BY StoreAssumption DEF Requests, Calls, Asked, Stored, Items, Answers

\* An idle record is a call.
LEMMA IdleIsCall ==
  ASSUME NEW a \in Answers PROVE Idle(a) \in Calls /\ Asked(Idle(a))
BY DEF Idle, Calls, Asked, Stored

------------------------------------------------------------------------------

LEMMA InitIInv == Init => IInv
<1> SUFFICES ASSUME Init PROVE IInv
  OBVIOUS
<1> USE DEF Init, InitCalls, InitFile
<1>1. Idle(Nil) \in Calls /\ Asked(Idle(Nil))
  BY IdleIsCall DEF Answers
<1>2. NoItems \in Maps
  BY DEF NoItems, Maps, Stored
<1>3. TypeOK
  BY <1>1, <1>2, StoreAssumption, FileAssumption DEF TypeOK, TypeOKCalls, Maps
<1>4. \A c \in Callers : calls[c].pc = "idle"
  BY DEF Idle
<1> QED
  BY <1>1, <1>2, <1>3, <1>4, FileAssumption
  DEF IInv, HolderInside, StageOfSave, NothingTorn, ReadyToCommit, Inside, Saving, At

\* What Set, Get, Delete and Sweep make of the map is an outcome ...
LEMMA AfterIsOutcome ==
  ASSUME NEW call, NEW map, NEW t
  PROVE  After(call, map, t) \in Outcomes(call, map, t)
<1> DEFINE gone == { k \in Examined(call) \cap Keys : Expired(Put(call, map)[k], t) }
<1>1. gone \in SUBSET { k \in Keys : Expired(Put(call, map)[k], t) }
  OBVIOUS
<1>2. After(call, map, t) = Swept(Put(call, map), Examined(call), t)
  BY DEF After, Put
<1>3. Swept(Put(call, map), Examined(call), t)
        = [k \in Keys |-> IF k \in gone THEN Nil ELSE Put(call, map)[k]]
  BY DEF Swept
<1> QED BY <1>1, <1>2, <1>3 DEF Outcomes

\* ... and stays one while the clock goes on.
LEMMA OutcomeStays ==
  ASSUME NEW call \in Calls, Asked(call), NEW map \in Maps, NEW t \in Nat, NEW u \in Nat,
         t <= u, NEW m \in Outcomes(call, map, t)
  PROVE  m \in Outcomes(call, map, u)
<1>1. Put(call, map) \in Maps
  BY DEF Maps, Put, Asked, Stored
<1>2. ASSUME NEW k \in Keys, Expired(Put(call, map)[k], t)
      PROVE  Expired(Put(call, map)[k], u)
  <2>1. Put(call, map)[k] \in Items
    BY <1>1, <1>2 DEF Maps, Stored, Expired
  <2>2. Put(call, map)[k].expires \in Nat
    BY <2>1 DEF Items
  <2> QED BY <1>2, <2>2 DEF Expired
<1> QED BY <1>2 DEF Outcomes

------------------------------------------------------------------------------
\* One lemma for each action: it keeps the invariant.

USE DEF At, Goto, Answer, Inside, Saving

LEMMA CallKeeps ==
  ASSUME IInv, up, NEW c \in Callers, Call(c), UNCHANGED fileVars PROVE IInv'
<1> USE DEF IInv, Call, callVars, fileVars
<1>1. PICK r \in Requests(now) : calls' = [calls EXCEPT ![c] = r]
  OBVIOUS
<1>2. now \in Nat
  BY StoreAssumption DEF TypeOK, TypeOKCalls
<1>3. r \in Calls /\ Asked(r) /\ r.pc = "ready"
  BY <1>1, <1>2, RequestsAreCalls
<1>4. TypeOK'
  BY <1>1, <1>3 DEF TypeOK, TypeOKCalls
<1>5. \A d \in Callers : calls'[d] = IF d = c THEN r ELSE calls[d]
  BY <1>1 DEF TypeOK, TypeOKCalls
<1>6. (\A d \in Callers : Asked(calls[d]))'
  BY <1>3, <1>5
<1>7. HolderInside'
  BY <1>3, <1>5 DEF HolderInside
<1>8. StageOfSave' /\ NothingTorn' /\ ReadyToCommit'
  BY <1>3, <1>5 DEF StageOfSave, NothingTorn, ReadyToCommit
<1> QED BY <1>4, <1>6, <1>7, <1>8

\* What Answer leaves: nobody else's call changed.
LEMMA AnswerCalls ==
  ASSUME TypeOK, \A d \in Callers : Asked(calls[d]), NEW c \in Callers, NEW a \in Answers,
         Answer(c, a)
  PROVE  /\ calls' \in [Callers -> Calls]
         /\ (\A d \in Callers : Asked(calls[d]))'
         /\ calls'[c].pc = "idle"
         /\ \A d \in Callers : d # c => calls'[d] = calls[d]
<1>1. Idle(a) \in Calls /\ Asked(Idle(a)) /\ Idle(a).pc = "idle"
  BY IdleIsCall DEF Idle
<1>2. calls \in [Callers -> Calls]
  BY DEF TypeOK, TypeOKCalls
<1> QED BY <1>1, <1>2

\* What Goto leaves.
LEMMA GotoCalls ==
  ASSUME TypeOK, \A d \in Callers : Asked(calls[d]), NEW c \in Callers,
         calls[c].pc # "idle",
         NEW pc \in {"save", "rename", "sync"}, Goto(c, pc)
  PROVE  /\ calls' \in [Callers -> Calls]
         /\ (\A d \in Callers : Asked(calls[d]))'
         /\ calls'[c].pc = pc /\ calls'[c].op = calls[c].op
         /\ calls'[c].key = calls[c].key /\ calls'[c].item = calls[c].item
         /\ \A d \in Callers : d # c => calls'[d] = calls[d]
<1>1. calls \in [Callers -> Calls]
  BY DEF TypeOK, TypeOKCalls
<1>2. calls' = [calls EXCEPT ![c] = [calls[c] EXCEPT !.pc = pc]]
  BY <1>1
<1>3. [calls[c] EXCEPT !.pc = pc] \in Calls
  BY <1>1 DEF Calls
<1> QED BY <1>1, <1>2, <1>3 DEF Asked, Calls

LEMMA AnswersSet == Nil \in Answers /\ "error" \in Answers
BY DEF Answers

LEMMA CallRefusedKeeps ==
  ASSUME IInv, up, NEW c \in Callers, CallRefused(c), UNCHANGED fileVars PROVE IInv'
<1> USE DEF IInv, CallRefused, fileVars
<1>1. /\ calls' \in [Callers -> Calls]
      /\ (\A d \in Callers : Asked(calls[d]))'
      /\ calls'[c].pc = "idle"
      /\ \A d \in Callers : d # c => calls'[d] = calls[d]
  BY AnswerCalls, AnswersSet
<1>2. TypeOK'
  BY <1>1 DEF TypeOK, TypeOKCalls
<1>3. HolderInside' /\ StageOfSave' /\ NothingTorn' /\ ReadyToCommit'
  BY <1>1 DEF HolderInside, StageOfSave, NothingTorn, ReadyToCommit
<1> QED BY <1>1, <1>2, <1>3

LEMMA TickKeeps == ASSUME IInv, Tick, UNCHANGED fileVars PROVE IInv'
<1> USE DEF IInv, Tick, fileVars
<1>1. now \in Nat /\ now' \in Nat /\ now <= now' /\ now' \in 1 .. MaxNow
  BY StoreAssumption DEF TypeOK, TypeOKCalls
<1>2. TypeOK'
  BY <1>1 DEF TypeOK, TypeOKCalls
<1>3. HolderInside' /\ StageOfSave' /\ NothingTorn'
  BY DEF HolderInside, StageOfSave, NothingTorn
<1>4. ReadyToCommit'
  BY <1>1, OutcomeStays DEF ReadyToCommit, NothingTorn, TypeOK, TypeOKCalls
<1> QED BY <1>2, <1>3, <1>4

LEMMA AnswerLockedKeeps ==
  ASSUME IInv, up, NEW c \in Callers, AnswerLocked(c) PROVE IInv'
<1> USE DEF IInv, AnswerLocked, fileVars
<1>1. Found(calls[c], items) \in Answers
  <2>1. calls[c] \in Calls /\ items \in Maps /\ Asked(calls[c])
    BY DEF TypeOK, TypeOKCalls, Maps
  <2>2. CASE calls[c].op = "Get" /\ items[calls[c].key] # Nil
    <3>1. items[calls[c].key] \in Items
      BY <2>1, <2>2 DEF Asked, Maps, Stored
    <3> QED BY <2>2, <3>1 DEF Found, Items, Answers
  <2>3. CASE ~(calls[c].op = "Get" /\ items[calls[c].key] # Nil)
    BY <2>3 DEF Found, Answers
  <2> QED BY <2>2, <2>3
<1>2. /\ calls' \in [Callers -> Calls]
      /\ (\A d \in Callers : Asked(calls[d]))'
      /\ calls'[c].pc = "idle"
      /\ \A d \in Callers : d # c => calls'[d] = calls[d]
  <2>1. Answer(c, Found(calls[c], items))
    BY DEF AnswerLocked
  <2> QED BY <1>1, <2>1, AnswerCalls
<1>3. TypeOK'
  BY <1>2 DEF TypeOK, TypeOKCalls
<1>4. HolderInside' /\ StageOfSave' /\ NothingTorn' /\ ReadyToCommit'
  BY <1>2 DEF HolderInside, StageOfSave, NothingTorn, ReadyToCommit
<1> QED BY <1>2, <1>3, <1>4

LEMMA ChangeLockedKeeps ==
  ASSUME IInv, up, NEW c \in Callers, ChangeLocked(c) PROVE IInv'
<1> USE DEF IInv, ChangeLocked
<1>1. /\ calls' \in [Callers -> Calls]
      /\ (\A d \in Callers : Asked(calls[d]))'
      /\ calls'[c].pc = "save" /\ calls'[c].op = calls[c].op
      /\ calls'[c].key = calls[c].key /\ calls'[c].item = calls[c].item
      /\ \A d \in Callers : d # c => calls'[d] = calls[d]
  BY GotoCalls
<1>2. calls[c] \in Calls /\ Asked(calls[c]) /\ items \in Maps
  BY DEF TypeOK, TypeOKCalls, Maps
<1>3. items' \in Maps
  BY <1>2, AfterMap
<1>4. TypeOK'
  BY <1>1, <1>3 DEF TypeOK, TypeOKCalls, Maps
<1>5. \A d \in Callers : ~Inside(d)
  BY FileAssumption DEF HolderInside
<1>6. HolderInside' /\ StageOfSave' /\ NothingTorn'
  BY <1>1, <1>5, FileAssumption DEF HolderInside, StageOfSave, NothingTorn
<1>7. disk = items
  BY DEF StageOfSave
<1>8. items' \in Outcomes(calls'[c], disk, now)
  <2>1. items' \in Outcomes(calls[c], disk, now)
    BY <1>7, AfterIsOutcome
  <2>2. Outcomes(calls'[c], disk, now) = Outcomes(calls[c], disk, now)
    BY <1>1 DEF Outcomes, Put
  <2> QED BY <2>1, <2>2
<1>9. calls[c].op = "Get" => items'[calls[c].key] = Nil
  <2> SUFFICES ASSUME calls[c].op = "Get" PROVE items'[calls[c].key] = Nil
    OBVIOUS
  <2>1. calls[c].key \in Keys
    BY <1>2 DEF Asked
  <2>2. items' = [k \in Keys |-> IF k \in {calls[c].key} /\ Expired(items[k], now)
                                THEN Nil ELSE items[k]]
    BY DEF After, Examined, Swept
  <2>3. items' # items
    BY DEF Saves
  <2>4. CASE Expired(items[calls[c].key], now)
    BY <2>1, <2>2, <2>4
  <2>5. CASE ~Expired(items[calls[c].key], now)
    <3>1. items' = items
      BY <1>2, <2>2, <2>5 DEF Maps
    <3> QED BY <3>1, <2>3
  <2> QED BY <2>4, <2>5
<1>10. ReadyToCommit'
  BY <1>1, <1>5, <1>8, <1>9 DEF ReadyToCommit
<1> QED BY <1>1, <1>4, <1>6, <1>10

\* The clone that is put back is what the file holds.
LEMMA RollbackKeeps ==
  ASSUME IInv, up, NEW c \in Callers, Saving(c), Rollback(c), faults' \in 0 .. MaxFaults
  PROVE  IInv'
<1> USE DEF IInv, Rollback
<1>1. /\ calls' \in [Callers -> Calls]
      /\ (\A d \in Callers : Asked(calls[d]))'
      /\ calls'[c].pc = "idle"
      /\ \A d \in Callers : d # c => calls'[d] = calls[d]
  BY AnswerCalls, AnswersSet
<1>2. TypeOK'
  BY <1>1 DEF TypeOK, TypeOKCalls, NoItems, Stored
<1>3. mu = c /\ \A d \in Callers : d # c => ~Inside(d)
  BY DEF HolderInside
<1>4. disk = before
  BY DEF StageOfSave
<1>5. HolderInside' /\ StageOfSave' /\ NothingTorn' /\ ReadyToCommit'
  BY <1>1, <1>3, <1>4, FileAssumption
  DEF HolderInside, StageOfSave, NothingTorn, ReadyToCommit
<1> QED BY <1>1, <1>2, <1>5

LEMMA SaveFailureKeeps ==
  ASSUME IInv, up, NEW c \in Callers, SaveCancelled(c) \/ SaveFails(c) PROVE IInv'
<1>1. CASE SaveCancelled(c)
  BY <1>1, RollbackKeeps DEF SaveCancelled, IInv, TypeOK
<1>2. CASE SaveFails(c)
  <2>1. faults' \in 0 .. MaxFaults
    BY <1>2, FileAssumption DEF SaveFails, Fault, IInv, TypeOK
  <2> QED BY <1>2, <2>1, RollbackKeeps DEF SaveFails
<1> QED BY <1>1, <1>2

LEMMA WriteTempKeeps ==
  ASSUME IInv, up, NEW c \in Callers, WriteTemp(c) PROVE IInv'
<1> USE DEF IInv, WriteTemp, callVars
<1>1. TypeOK'
  BY DEF TypeOK, TypeOKCalls
<1>2. \A d \in Callers : d # c => ~Inside(d)
  BY DEF HolderInside
<1>3. HolderInside' /\ StageOfSave' /\ NothingTorn' /\ ReadyToCommit'
  BY <1>2 DEF HolderInside, StageOfSave, NothingTorn, ReadyToCommit
<1> QED BY <1>1, <1>3

LEMMA SyncTempKeeps ==
  ASSUME IInv, up, NEW c \in Callers, SyncTemp(c) PROVE IInv'
<1> USE DEF IInv, SyncTemp
<1>1. /\ calls' \in [Callers -> Calls]
      /\ (\A d \in Callers : Asked(calls[d]))'
      /\ calls'[c].pc = "rename" /\ calls'[c].op = calls[c].op
      /\ calls'[c].key = calls[c].key /\ calls'[c].item = calls[c].item
      /\ \A d \in Callers : d # c => calls'[d] = calls[d]
  BY GotoCalls
<1>2. TypeOK'
  BY <1>1 DEF TypeOK, TypeOKCalls
<1>3. mu = c /\ \A d \in Callers : d # c => ~Inside(d)
  BY DEF HolderInside
<1>4. HolderInside' /\ StageOfSave' /\ NothingTorn'
  BY <1>1, <1>3 DEF HolderInside, StageOfSave, NothingTorn
<1>5. Outcomes(calls'[c], disk, now) = Outcomes(calls[c], disk, now)
  BY <1>1 DEF Outcomes, Put
<1>6. ReadyToCommit'
  BY <1>1, <1>3, <1>5 DEF ReadyToCommit
<1> QED BY <1>1, <1>2, <1>4, <1>6

LEMMA RenameTempKeeps ==
  ASSUME IInv, up, NEW c \in Callers, RenameTemp(c) PROVE IInv'
<1> USE DEF IInv, RenameTemp
<1>1. /\ calls' \in [Callers -> Calls]
      /\ (\A d \in Callers : Asked(calls[d]))'
      /\ calls'[c].pc = "sync"
      /\ \A d \in Callers : d # c => calls'[d] = calls[d]
  BY GotoCalls
<1>2. mu = c /\ \A d \in Callers : d # c => ~Inside(d)
  BY DEF HolderInside
<1>3. temp = "synced"
  BY DEF NothingTorn
<1>4. items \in Maps /\ leaves' = leaves \cup {items}
  BY <1>3 DEF TypeOK, TypeOKCalls, Maps
<1>5. TypeOK'
  BY <1>1, <1>4 DEF TypeOK, TypeOKCalls, Maps
<1>6. HolderInside' /\ StageOfSave' /\ NothingTorn' /\ ReadyToCommit'
  BY <1>1, <1>2, <1>4, FileAssumption
  DEF HolderInside, StageOfSave, NothingTorn, ReadyToCommit, TypeOK
<1> QED BY <1>1, <1>5, <1>6

LEMMA SyncDirKeeps ==
  ASSUME IInv, up, NEW c \in Callers, SyncDir(c) PROVE IInv'
<1> USE DEF IInv, SyncDir
<1>1. /\ calls' \in [Callers -> Calls]
      /\ (\A d \in Callers : Asked(calls[d]))'
      /\ calls'[c].pc = "idle"
      /\ \A d \in Callers : d # c => calls'[d] = calls[d]
  BY AnswerCalls, AnswersSet
<1>2. mu = c /\ \A d \in Callers : d # c => ~Inside(d)
  BY DEF HolderInside
<1>3. disk \in Maps /\ disk = items
  BY DEF NothingTorn, StageOfSave
<1>4. leaves' \subseteq Maps /\ disk \in leaves'
  BY <1>3 DEF NothingTorn
<1>5. faults' \in 0 .. MaxFaults
  BY FileAssumption DEF TypeOK, Fault
<1>6. TypeOK'
  BY <1>1, <1>4, <1>5 DEF TypeOK, TypeOKCalls, NoItems, Stored, Maps
<1>7. HolderInside' /\ StageOfSave' /\ NothingTorn' /\ ReadyToCommit'
  BY <1>1, <1>2, <1>3, <1>4, FileAssumption
  DEF HolderInside, StageOfSave, NothingTorn, ReadyToCommit
<1> QED BY <1>1, <1>6, <1>7

LEMMA CrashKeeps == ASSUME IInv, Crash PROVE IInv'
<1> USE DEF IInv, Crash
<1>1. Idle(Nil) \in Calls /\ Asked(Idle(Nil)) /\ Idle(Nil).pc = "idle"
  BY IdleIsCall, AnswersSet DEF Idle
<1>2. disk' \in Maps /\ leaves' \subseteq Maps /\ disk' \in leaves'
  BY DEF NothingTorn
<1>3. NoItems \in Maps
  BY DEF NoItems, Maps, Stored
<1>4. TypeOK'
  <2>1. crashes' \in 0 .. MaxCrashes
    BY FileAssumption DEF TypeOK
  <2> QED BY <1>1, <1>2, <1>3, <2>1 DEF TypeOK, TypeOKCalls, Maps
<1>5. HolderInside' /\ StageOfSave' /\ NothingTorn' /\ ReadyToCommit'
  BY <1>1, <1>2, FileAssumption DEF HolderInside, StageOfSave, NothingTorn, ReadyToCommit
<1> QED BY <1>1, <1>4, <1>5

LEMMA LoadKeeps == ASSUME IInv, Load PROVE IInv'
<1> USE DEF IInv, Load
<1>1. disk \in Maps
  BY DEF NothingTorn
<1>2. \A c \in Callers : calls[c].pc = "idle"
  BY DEF HolderInside
<1>3. TypeOK'
  BY <1>1 DEF TypeOK, TypeOKCalls, Maps
<1>4. HolderInside' /\ StageOfSave' /\ NothingTorn' /\ ReadyToCommit'
  BY <1>1, <1>2 DEF HolderInside, StageOfSave, NothingTorn, ReadyToCommit
<1> QED BY <1>3, <1>4

\* Every step keeps the invariant.
LEMMA NextIInv == IInv /\ [Next]_<<callVars, fileVars>> => IInv'
<1> SUFFICES ASSUME IInv, [Next]_<<callVars, fileVars>> PROVE IInv'
  OBVIOUS
<1>1. CASE up /\ \E c \in Callers : CallStep(c) \/ FileStep(c)
  <2>1. PICK c \in Callers : CallStep(c) \/ FileStep(c)
    BY <1>1
  <2>2. CASE CallStep(c)
    BY <1>1, <2>2, CallKeeps, CallRefusedKeeps DEF CallStep
  <2>3. CASE FileStep(c)
    BY <1>1, <2>3, AnswerLockedKeeps, ChangeLockedKeeps, SaveFailureKeeps, WriteTempKeeps,
       SyncTempKeeps, RenameTempKeeps, SyncDirKeeps
    DEF FileStep
  <2> QED BY <2>1, <2>2, <2>3
<1>2. CASE Tick /\ UNCHANGED fileVars
  BY <1>2, TickKeeps
<1>3. CASE Crash
  BY <1>3, CrashKeeps
<1>4. CASE Load
  BY <1>4, LoadKeeps
<1>5. CASE UNCHANGED <<callVars, fileVars>>
  BY <1>5 DEF callVars, fileVars, IInv, TypeOK, TypeOKCalls, HolderInside, StageOfSave,
              NothingTorn, ReadyToCommit, Outcomes, Put
<1> QED BY <1>1, <1>2, <1>3, <1>4, <1>5 DEF Next

\* The invariant of the file store, in every state.
THEOREM Invariance == Spec => []IInv
BY InitIInv, NextIInv, PTL DEF Spec

\* Its variables keep their types.
THEOREM TypeCorrect == Spec => []TypeOK
BY Invariance, PTL DEF IInv

\* Memory and file agree whenever nobody is inside an operation, and the file
\* can always be loaded: after any errors, cancelled contexts and crashes.
THEOREM InStep == Spec => []MemoryInStep
<1>1. IInv => MemoryInStep
  BY FileAssumption DEF IInv, StageOfSave, NothingTorn, MemoryInStep, Maps
<1> QED BY <1>1, Invariance, PTL

------------------------------------------------------------------------------
\* The refinement: what each action is to the abstract store.

Asking == [c \in Callers |-> Seen(c)]

\* An answer is an answer there.
LEMMA SeenAnswer ==
  ASSUME TypeOK, NEW c \in Callers, NEW a, Answer(c, a)
  PROVE  Asking' = [Asking EXCEPT ![c] = KV!Quiet(a)]
<1>1. calls \in [Callers -> Calls]
  BY DEF TypeOK, TypeOKCalls
<1>2. Seen(c)' = KV!Quiet(a)
  BY <1>1 DEF Seen, Idle, KV!Quiet
<1>3. \A d \in Callers : d # c => Seen(d)' = Seen(d)
  BY <1>1 DEF Seen
<1> QED BY <1>2, <1>3 DEF Asking

\* Between the question and the rename the abstract store sees no change.
LEMMA SeenGoto ==
  ASSUME IInv, NEW c \in Callers, calls[c].pc \notin {"idle", "sync"},
         NEW pc \in {"save", "rename"}, Goto(c, pc)
  PROVE  Asking' = Asking
<1>1. \A d \in Callers : Seen(d)' = Seen(d)
  BY GotoCalls DEF Seen, IInv
<1> QED BY <1>1 DEF Asking

LEMMA CallRefines ==
  ASSUME IInv, NEW c \in Callers, CallStep(c) PROVE KV!Ask(c) \/ KV!Refuse(c)
<1>1. calls \in [Callers -> Calls] /\ now \in Nat
  BY StoreAssumption DEF IInv, TypeOK, TypeOKCalls
<1>2. CASE Call(c)
  <2>1. PICK r \in Requests(now) : calls' = [calls EXCEPT ![c] = r]
    BY <1>2 DEF Call
  <2>2. r \in Calls /\ Asked(r) /\ r.pc = "ready" /\ r.answer = Nil
    BY <1>1, <2>1, RequestsAreCalls
  <2>3. Seen(c)' \in KV!Questions
    BY <1>1, <2>1, <2>2 DEF Seen, KV!Questions, Calls, Asked, Stored, Items
  <2>4. \A d \in Callers : d # c => Seen(d)' = Seen(d)
    BY <1>1, <2>1 DEF Seen
  <2>5. Asking' = [Asking EXCEPT ![c] = Asking'[c]]
    BY <2>4 DEF Asking
  <2>6. Asking[c].state = "idle"
    BY <1>2 DEF Asking, Seen, Call
  <2>7. UNCHANGED <<now, disk, leaves>>
    BY <1>2 DEF Call, CallStep, fileVars
  <2> QED BY <2>3, <2>5, <2>6, <2>7 DEF KV!Ask, Asking
<1>3. CASE CallRefused(c)
  <2>1. Asking' = [Asking EXCEPT ![c] = KV!Quiet("error")]
    BY <1>3, SeenAnswer DEF CallRefused, IInv
  <2>2. Asking[c].state = "idle"
    BY <1>3 DEF Asking, Seen, CallRefused
  <2> QED BY <1>3, <2>1, <2>2 DEF KV!Refuse, Asking, CallRefused, CallStep, fileVars
<1> QED BY <1>2, <1>3 DEF CallStep

LEMMA AnswerLockedRefines ==
  ASSUME IInv, up, NEW c \in Callers, AnswerLocked(c) PROVE KV!Read(c)
<1>1. calls[c] \in Calls /\ items \in Maps /\ Asked(calls[c]) /\ disk = items
  BY DEF IInv, TypeOK, TypeOKCalls, Maps, StageOfSave, AnswerLocked
<1>2. Asking' = [Asking EXCEPT ![c] = KV!Quiet(Found(calls[c], items))]
  BY SeenAnswer DEF AnswerLocked, IInv
<1>3. Asking[c].state = "asked" /\ Asking[c].op = calls[c].op /\ Asking[c].key = calls[c].key
      /\ Asking[c].item = calls[c].item
  BY DEF Asking, Seen, AnswerLocked
<1>4. calls[c].op # "Set" /\ After(calls[c], items, now) = items
  BY DEF AnswerLocked, Saves
<1>5. disk \in KV!Carried(Asking[c])
  <2>1. disk \in Outcomes(calls[c], disk, now)
    BY <1>1, <1>4, AfterIsOutcome
  <2> QED BY <2>1, <1>3 DEF Outcomes, Put, KV!Carried, KV!Effect, KV!Stale, Expired
<1>6. ASSUME calls[c].op = "Get", disk[calls[c].key] # Nil
      PROVE  ~KV!Stale(disk[calls[c].key])
  <2>1. calls[c].key \in Keys
    BY <1>1, <1>6 DEF Asked
  <2>2. ~Expired(items[calls[c].key], now)
    BY <1>1, <1>4, <1>6, <2>1 DEF After, Swept, Examined
  <2> QED BY <1>1, <2>2 DEF KV!Stale, Expired
<1>7. UNCHANGED <<now, disk, leaves>>
  BY DEF AnswerLocked, fileVars
<1> QED BY <1>1, <1>2, <1>3, <1>5, <1>6, <1>7 DEF KV!Read, Asking, Found

LEMMA RenameRefines ==
  ASSUME IInv, up, NEW c \in Callers, RenameTemp(c) PROVE KV!CarryOut(c)
<1>1. calls \in [Callers -> Calls]
  BY DEF IInv, TypeOK, TypeOKCalls
<1>2. Asking[c].state = "asked" /\ Asking[c].op = calls[c].op /\ Asking[c].key = calls[c].key
      /\ Asking[c].item = calls[c].item
  BY DEF Asking, Seen, RenameTemp
<1>3. items \in Outcomes(calls[c], disk, now)
      /\ (calls[c].op = "Get" => items[calls[c].key] = Nil)
  BY DEF IInv, ReadyToCommit, RenameTemp
<1>4. items \in KV!Carried(Asking[c])
  BY <1>2, <1>3 DEF Outcomes, Put, KV!Carried, KV!Effect, KV!Stale, Expired
<1>5. Asking' = [Asking EXCEPT ![c].state = "done"]
  <2>1. Seen(c)' = [Seen(c) EXCEPT !.state = "done"]
    BY <1>1, GotoCalls DEF Seen, RenameTemp, Calls, IInv
  <2>2. \A d \in Callers : d # c => Seen(d)' = Seen(d)
    BY <1>1 DEF Seen, RenameTemp
  <2> QED BY <2>1, <2>2 DEF Asking
<1>6. leaves' = leaves \cup {disk'} /\ disk' = items /\ UNCHANGED now
  BY DEF RenameTemp, IInv, NothingTorn
<1> QED BY <1>2, <1>3, <1>4, <1>5, <1>6 DEF KV!CarryOut, Asking

\* Every step of the file store is a step of the abstract one, or none.
LEMMA StepRefines ==
  ASSUME IInv, [Next]_<<callVars, fileVars>> PROVE [KV!Next]_KV!vars
<1>1. ASSUME up, NEW c \in Callers, CallStep(c) \/ FileStep(c) PROVE [KV!Next]_KV!vars
  <2>1. CASE CallStep(c)
    BY <2>1, CallRefines DEF KV!Next
  <2>2. CASE AnswerLocked(c)
    BY <1>1, <2>2, AnswerLockedRefines DEF KV!Next
  <2>3. CASE ChangeLocked(c)
    BY <2>3, SeenGoto DEF ChangeLocked, KV!vars, Asking
  <2>4. CASE SaveCancelled(c) \/ SaveFails(c)
    <3>1. Rollback(c) /\ Saving(c)
      BY <2>4 DEF SaveCancelled, SaveFails
    <3>2. Asking' = [Asking EXCEPT ![c] = KV!Quiet("error")]
      BY <3>1, SeenAnswer DEF Rollback, IInv
    <3>3. Asking[c].state = "asked"
      BY <3>1 DEF Asking, Seen
    <3>4. KV!Refuse(c)
      BY <3>1, <3>2, <3>3 DEF KV!Refuse, Asking, Rollback
    <3> QED BY <3>4 DEF KV!Next
  <2>5. CASE WriteTemp(c)
    BY <2>5 DEF WriteTemp, KV!vars, callVars, Seen
  <2>6. CASE SyncTemp(c)
    BY <2>6, SeenGoto DEF SyncTemp, KV!vars, Asking
  <2>7. CASE RenameTemp(c)
    BY <1>1, <2>7, RenameRefines DEF KV!Next
  <2>8. CASE SyncDir(c)
    <3>1. Asking' = [Asking EXCEPT ![c] = KV!Quiet(Nil)]
      BY <2>8, SeenAnswer DEF SyncDir, IInv
    <3>2. Asking[c].state = "done"
      BY <2>8 DEF Asking, Seen, SyncDir
    <3>3. KV!Reply(c)
      BY <2>8, <3>1, <3>2 DEF KV!Reply, Asking, SyncDir
    <3> QED BY <3>3 DEF KV!Next
  <2> QED BY <1>1, <2>1, <2>2, <2>3, <2>4, <2>5, <2>6, <2>7, <2>8 DEF FileStep
<1>2. CASE Tick /\ UNCHANGED fileVars
  BY <1>2 DEF Tick, fileVars, KV!Next, KV!Tick, Seen
<1>3. CASE Crash
  <2>1. \A c \in Callers : Seen(c)' = KV!Quiet(Nil)
    BY <1>3 DEF Crash, Seen, Idle, KV!Quiet
  <2>2. KV!Crash
    BY <1>3, <2>1 DEF Crash, KV!Crash
  <2> QED BY <2>2 DEF KV!Next
<1>4. CASE Load
  BY <1>4 DEF Load, KV!vars, Seen
<1>5. CASE UNCHANGED <<callVars, fileVars>>
  BY <1>5 DEF callVars, fileVars, KV!vars, Seen
<1> QED BY <1>1, <1>2, <1>3, <1>4, <1>5 DEF Next

\* The file store is a key-value store with crashes.
THEOREM FileStoreImplements == Spec => ImplementsKeyValueStore
<1>1. Init => KV!Init
  BY DEF Init, InitCalls, InitFile, KV!Init, NoItems, Seen, Idle, KV!Quiet
<1>2. IInv /\ [Next]_<<callVars, fileVars>> => [KV!Next]_KV!vars
  BY StepRefines
<1> QED BY <1>1, <1>2, Invariance, PTL DEF Spec, KV!Spec, ImplementsKeyValueStore
------------------------------------------------------------------------------
\* Either store under one application.

\* A step of the memory store is a tick, or nothing, to the file store.
LEMMA MemoryIsTick == MemoryNext => [Next]_<<callVars, fileVars>>
<1> SUFFICES ASSUME MemoryNext PROVE [Next]_<<callVars, fileVars>>
  OBVIOUS
<1>1. ASSUME NEW c \in Callers,
             Memory!Ask(c) \/ Memory!ReadItem(c) \/ Memory!JudgeItem(c) \/ Memory!DeleteItem(c)
               \/ Memory!PutItem(c) \/ Memory!SweepItems(c)
      PROVE  now' = now
  BY <1>1 DEF Memory!Ask, Memory!Call, Memory!CallRefused, Memory!ReadItem, Memory!JudgeItem,
              Memory!DeleteItem, Memory!PutItem, Memory!SweepItems
<1>2. CASE Memory!Tick
  BY <1>2 DEF MemoryNext, Memory!Tick, Next, Tick
<1> QED BY <1>1, <1>2 DEF MemoryNext, Memory!Next, callVars

\* An application's file store takes only its own steps, so that whatever
\* has been proved of it holds of the application.
THEOREM StoresAreFileStores == StoresSpec => Spec
<1>1. StoresInit => Init
  BY DEF StoresInit
<1>2. [StoresNext]_<<callVars, fileVars, kind, memItems, memCalls, asOf, lastSwept>>
        => [Next]_<<callVars, fileVars>>
  BY MemoryIsTick DEF StoresNext, FileNext
<1> QED BY <1>1, <1>2, PTL DEF Spec, StoresSpec

------------------------------------------------------------------------------
\* The memory store.

MemInv == kind = "memory" => Memory!IInv

\* It begins with an empty map and nobody in a call.
LEMMA MemInit == StoresInit => MemInv
<1> SUFFICES ASSUME StoresInit PROVE Memory!IInv
  BY DEF MemInv
<1> USE DEF StoresInit, Memory!Init, Memory!InitCalls
<1>1. Memory!Idle(Nil) \in Memory!Calls
  BY DEF Memory!Idle, Memory!Calls, Memory!Answers, Memory!Stored
<1>2. Memory!TypeOKCalls
  BY <1>1, StoreAssumption DEF Memory!TypeOKCalls, Memory!NoItems, Memory!Stored
<1>3. \A c \in Callers : memCalls[c].pc = "idle"
  BY DEF Memory!Idle
<1> QED BY <1>2, <1>3 DEF Memory!IInv, Memory!ReadsExact, Memory!AskedExact, Memory!At

\* What a request is.
LEMMA MemRequests ==
  ASSUME NEW t \in Nat, NEW r \in Memory!Requests(t)
  PROVE  /\ r \in Memory!Calls
         /\ r.pc = "ready" /\ r.op # "none"
         /\ r.op # "Sweep" => r.key \in Keys
         /\ r.op = "Set" => r.item \in Memory!Items
BY StoreAssumption DEF Memory!Requests, Memory!Calls, Memory!Stored, Memory!Items, Memory!Answers

\* A call that ends leaves the others as they are.
LEMMA MemDone ==
  ASSUME Memory!IInv, NEW c \in Callers, NEW a \in Memory!Answers, Memory!Done(c, a)
  PROVE  /\ memCalls' \in [Callers -> Memory!Calls]
         /\ asOf' \in [Callers -> 0 .. now]
         /\ memCalls'[c].pc = "idle"
         /\ \A d \in Callers \ {c} : memCalls'[d] = memCalls[d]
<1>1. Memory!Idle(a) \in Memory!Calls
  BY DEF Memory!Idle, Memory!Calls, Memory!Stored
<1>2. now \in Nat
  BY StoreAssumption DEF Memory!IInv, Memory!TypeOKCalls
<1> QED BY <1>1, <1>2 DEF Memory!IInv, Memory!TypeOKCalls, Memory!Done, Memory!Answer, Memory!Idle

\* Sweeps leave items behind.
LEMMA MemSwept ==
  ASSUME NEW map \in [Keys -> Memory!Stored], NEW t
  PROVE  Memory!Swept(map, Keys, t) \in [Keys -> Memory!Stored]
BY DEF Memory!Swept, Memory!Stored

\* An item that has expired stays so.
LEMMA MemExpiredStays ==
  ASSUME NEW item \in Memory!Stored, NEW t \in Nat, NEW u \in Nat, t <= u, Memory!Expired(item, t)
  PROVE  Memory!Expired(item, u)
BY DEF Memory!Stored, Memory!Items, Memory!Expired

\* Calls that end, with the map still of its type, keep what the others know.
LEMMA MemDoneKeeps ==
  ASSUME Memory!IInv, NEW c \in Callers, NEW a \in Memory!Answers, Memory!Done(c, a),
         memItems' \in [Keys -> Memory!Stored], now' = now, lastSwept' \in 0 .. now
  PROVE  Memory!IInv'
<1>1. /\ memCalls' \in [Callers -> Memory!Calls]
      /\ asOf' \in [Callers -> 0 .. now]
      /\ memCalls'[c].pc = "idle"
      /\ \A d \in Callers \ {c} : memCalls'[d] = memCalls[d]
  BY MemDone
<1>2. Memory!TypeOKCalls'
  BY <1>1 DEF Memory!IInv, Memory!TypeOKCalls
<1>3. Memory!ReadsExact' /\ Memory!AskedExact'
  BY <1>1 DEF Memory!IInv, Memory!ReadsExact, Memory!AskedExact, Memory!At
<1> QED BY <1>1, <1>2, <1>3 DEF Memory!IInv

LEMMA AskKeeps ==
  ASSUME Memory!IInv, NEW c \in Callers, Memory!Ask(c) PROVE Memory!IInv'
<1> USE DEF Memory!IInv, Memory!TypeOKCalls
<1>0. now \in Nat
  BY StoreAssumption
<1>1. PICK r : /\ r \in Memory!Calls /\ r.pc \in {"idle", "ready"}
               /\ r.pc = "ready" => /\ r.op # "none"
                                    /\ r.op # "Sweep" => r.key \in Keys
                                    /\ r.op = "Set" => r.item \in Memory!Items
               /\ memCalls' = [memCalls EXCEPT ![c] = r]
  <2>1. CASE Memory!Call(c)
    BY <1>0, <2>1, MemRequests DEF Memory!Call
  <2>2. CASE Memory!CallRefused(c)
    <3>1. Memory!Idle("error") \in Memory!Calls /\ Memory!Idle("error").pc = "idle"
      BY DEF Memory!Idle, Memory!Calls, Memory!Stored, Memory!Answers
    <3> QED BY <2>2, <3>1 DEF Memory!CallRefused, Memory!Answer
  <2> QED BY <2>1, <2>2 DEF Memory!Ask
<1>2. now' = now /\ memItems' = memItems /\ lastSwept' = lastSwept
  BY DEF Memory!Ask, Memory!Call, Memory!CallRefused
<1>3. asOf' \in [Callers -> 0 .. now]
  BY <1>0 DEF Memory!Ask
<1>4. Memory!TypeOKCalls'
  BY <1>1, <1>2
<1>5. memCalls'[c] = r /\ \A d \in Callers \ {c} : memCalls'[d] = memCalls[d]
  BY <1>1
<1>6. Memory!ReadsExact' /\ Memory!AskedExact'
  BY <1>1, <1>2, <1>5 DEF Memory!ReadsExact, Memory!AskedExact, Memory!At
<1> QED BY <1>1, <1>2, <1>3, <1>4, <1>5, <1>6

LEMMA ReadItemKeeps ==
  ASSUME Memory!IInv, NEW c \in Callers, Memory!ReadItem(c) PROVE Memory!IInv'
<1>1. CASE memItems[memCalls[c].key] = Nil
  <2>1. Memory!Done(c, Nil) /\ memItems' = memItems /\ now' = now /\ lastSwept' = lastSwept
    BY <1>1 DEF Memory!ReadItem
  <2> QED BY <2>1, MemDoneKeeps DEF Memory!IInv, Memory!TypeOKCalls, Memory!Answers
<1>2. CASE memItems[memCalls[c].key] # Nil
  <2> DEFINE r == [memCalls[c] EXCEPT !.pc = "read", !.item = memItems[memCalls[c].key]]
  <2>1. memCalls' = [memCalls EXCEPT ![c] = r] /\ UNCHANGED <<asOf, now, memItems, lastSwept>>
    BY <1>2 DEF Memory!ReadItem, Memory!IInv, Memory!TypeOKCalls
  <2>2. memCalls[c].key \in Keys /\ memCalls[c] \in Memory!Calls
    BY DEF Memory!ReadItem, Memory!IInv, Memory!TypeOKCalls, Memory!AskedExact, Memory!At
  <2>3. memItems[memCalls[c].key] \in Memory!Items
    BY <1>2, <2>2 DEF Memory!IInv, Memory!TypeOKCalls, Memory!Stored
  <2>4. r \in Memory!Calls /\ r.pc = "read" /\ r.op = "Get" /\ r.key \in Keys /\ r.item \in Memory!Items
    BY <2>2, <2>3 DEF Memory!ReadItem, Memory!Calls, Memory!Stored
  <2>5. memCalls'[c] = r /\ \A d \in Callers \ {c} : memCalls'[d] = memCalls[d]
    BY <2>1 DEF Memory!IInv, Memory!TypeOKCalls
  <2> HIDE DEF r
  <2>6. Memory!TypeOKCalls'
    BY <2>1, <2>4 DEF Memory!IInv, Memory!TypeOKCalls
  <2>7. Memory!ReadsExact' /\ Memory!AskedExact'
    BY <2>1, <2>4, <2>5 DEF Memory!IInv, Memory!ReadsExact, Memory!AskedExact, Memory!At
  <2> QED BY <2>1, <2>4, <2>5, <2>6, <2>7 DEF Memory!IInv
<1> QED BY <1>1, <1>2

LEMMA JudgeItemKeeps ==
  ASSUME Memory!IInv, NEW c \in Callers, Memory!JudgeItem(c) PROVE Memory!IInv'
<1>1. memCalls[c].op = "Get" /\ memCalls[c].key \in Keys /\ memCalls[c].item \in Memory!Items
      /\ memCalls[c] \in Memory!Calls
  BY DEF Memory!JudgeItem, Memory!IInv, Memory!TypeOKCalls, Memory!ReadsExact, Memory!At
<1>2. CASE Memory!Expired(memCalls[c].item, now) /\ Memory!Goto(c, "delete") /\ UNCHANGED asOf
  <2> DEFINE r == [memCalls[c] EXCEPT !.pc = "delete"]
  <2>1. memCalls' = [memCalls EXCEPT ![c] = r] /\ UNCHANGED <<asOf, now, memItems, lastSwept>>
    BY <1>2 DEF Memory!JudgeItem, Memory!Goto, Memory!IInv, Memory!TypeOKCalls
  <2>2. r \in Memory!Calls /\ r.pc = "delete" /\ r.op = "Get" /\ r.key \in Keys
        /\ r.item = memCalls[c].item
    BY <1>1 DEF Memory!Calls
  <2>3. memCalls'[c] = r /\ \A d \in Callers \ {c} : memCalls'[d] = memCalls[d]
    BY <2>1 DEF Memory!IInv, Memory!TypeOKCalls
  <2> HIDE DEF r
  <2>4. Memory!TypeOKCalls'
    BY <2>1, <2>2 DEF Memory!IInv, Memory!TypeOKCalls
  <2>5. Memory!ReadsExact' /\ Memory!AskedExact'
    BY <1>1, <1>2, <2>1, <2>2, <2>3 DEF Memory!IInv, Memory!ReadsExact, Memory!AskedExact, Memory!At
  <2> QED BY <2>1, <2>2, <2>3, <2>4, <2>5 DEF Memory!IInv
<1>3. CASE Memory!Done(c, memCalls[c].item.value)
  <2>1. memCalls[c].item.value \in Memory!Answers
    BY <1>1 DEF Memory!Items, Memory!Answers
  <2> QED
    BY <1>3, <2>1, MemDoneKeeps DEF Memory!JudgeItem, Memory!IInv, Memory!TypeOKCalls
<1> QED BY <1>2, <1>3 DEF Memory!JudgeItem

LEMMA DeleteItemKeeps ==
  ASSUME Memory!IInv, NEW c \in Callers, Memory!DeleteItem(c) PROVE Memory!IInv'
<1>1. memItems' \in [Keys -> Memory!Stored]
  BY DEF Memory!DeleteItem, Memory!IInv, Memory!TypeOKCalls, Memory!Stored
<1> QED BY <1>1, MemDoneKeeps DEF Memory!DeleteItem, Memory!IInv, Memory!Answers

LEMMA PutItemKeeps ==
  ASSUME Memory!IInv, NEW c \in Callers, Memory!PutItem(c) PROVE Memory!IInv'
<1> DEFINE map == [memItems EXCEPT ![memCalls[c].key] = memCalls[c].item]
<1>1. map \in [Keys -> Memory!Stored]
  BY DEF Memory!PutItem, Memory!IInv, Memory!TypeOKCalls, Memory!AskedExact, Memory!Stored
<1>2. memItems' = map \/ memItems' = Memory!Swept(map, Keys, asOf[c])
  BY DEF Memory!PutItem
<1>3. memItems' \in [Keys -> Memory!Stored]
  BY <1>1, <1>2, MemSwept
<1>4. lastSwept' \in 0 .. now
  BY DEF Memory!PutItem, Memory!IInv
<1> QED BY <1>3, <1>4, MemDoneKeeps DEF Memory!PutItem, Memory!Answers

LEMMA SweepItemsKeeps ==
  ASSUME Memory!IInv, NEW c \in Callers, Memory!SweepItems(c) PROVE Memory!IInv'
<1>1. memItems' \in [Keys -> Memory!Stored]
  BY MemSwept DEF Memory!SweepItems, Memory!IInv, Memory!TypeOKCalls
<1>2. lastSwept' \in 0 .. now
  BY StoreAssumption DEF Memory!SweepItems, Memory!IInv, Memory!TypeOKCalls
<1> QED BY <1>1, <1>2, MemDoneKeeps DEF Memory!SweepItems, Memory!Answers

LEMMA MemTickKeeps ==
  ASSUME Memory!IInv, Memory!Tick, UNCHANGED <<asOf, lastSwept>> PROVE Memory!IInv'
<1>1. now \in Nat /\ now' = now + 1 /\ now' \in 1 .. MaxNow
  BY StoreAssumption DEF Memory!IInv, Memory!TypeOKCalls, Memory!Tick
<1>2. \A c \in Callers : memCalls[c].item \in Memory!Stored
  BY DEF Memory!IInv, Memory!TypeOKCalls, Memory!Calls
<1>3. Memory!ReadsExact'
  BY <1>1, <1>2, MemExpiredStays DEF Memory!IInv, Memory!Tick, Memory!ReadsExact, Memory!At
<1>4. asOf' \in [Callers -> 0 .. now'] /\ lastSwept' \in 0 .. now'
  BY <1>1 DEF Memory!IInv
<1> QED
  BY <1>1, <1>3, <1>4 DEF Memory!IInv, Memory!TypeOKCalls, Memory!Tick, Memory!AskedExact, Memory!At

LEMMA MemNextKeeps == Memory!IInv /\ Memory!Next => Memory!IInv'
BY AskKeeps, ReadItemKeeps, JudgeItemKeeps, DeleteItemKeeps, PutItemKeeps, SweepItemsKeeps,
   MemTickKeeps
DEF Memory!Next

\* The invariant of the memory store, in every state of an application that
\* runs with it.
THEOREM MemoryInvariance == StoresSpec => []MemInv
<1>1. ASSUME MemInv,
             [StoresNext]_<<callVars, fileVars, kind, memItems, memCalls, asOf, lastSwept>>
      PROVE  MemInv'
  <2>1. CASE FileNext /\ UNCHANGED kind
    BY <2>1 DEF FileNext, MemInv
  <2>2. CASE MemoryNext /\ UNCHANGED kind
    BY <1>1, <2>2, MemNextKeeps DEF MemoryNext, MemInv
  <2>3. CASE UNCHANGED <<callVars, fileVars, kind, memItems, memCalls, asOf, lastSwept>>
    BY <1>1, <2>3 DEF callVars, MemInv, Memory!IInv, Memory!TypeOKCalls, Memory!ReadsExact,
                      Memory!AskedExact, Memory!At
  <2> QED BY <1>1, <2>1, <2>2, <2>3 DEF StoresNext
<1> QED BY <1>1, MemInit, PTL DEF StoresSpec

\* How an item may leave the map.
Taken(k) ==
  Memory!Live(memItems[k], now) /\ memItems'[k] # memItems[k] =>
    \E c \in Callers :
      /\ memCalls[c].key = k
      /\ memCalls'[c].pc = "idle"
      /\ \/ memCalls[c].op \in {"Set", "Delete"}
         \/ memCalls[c].op = "Get" /\ Memory!Expired(memCalls[c].item, now)

\* A Delete takes its key, a Get the key whose item it found expired.
LEMMA DeleteTakes ==
  ASSUME Memory!IInv, NEW c \in Callers, Memory!DeleteItem(c), NEW k \in Keys PROVE Taken(k)
<1>1. memCalls'[c].pc = "idle"
  BY MemDone DEF Memory!DeleteItem, Memory!Answers
<1>2. memItems'[k] # memItems[k] => memCalls[c].key = k
  BY DEF Memory!DeleteItem, Memory!IInv, Memory!TypeOKCalls
<1>3. memCalls[c].op = "Delete" \/ (memCalls[c].op = "Get" /\ Memory!Expired(memCalls[c].item, now))
  BY DEF Memory!DeleteItem, Memory!IInv, Memory!ReadsExact, Memory!At
<1> QED BY <1>1, <1>2, <1>3 DEF Taken

\* A sweep spares what is live, by a clock that is not ahead.
LEMMA SweepSpares ==
  ASSUME NEW map \in [Keys -> Memory!Stored], NEW t \in Nat, NEW u \in Nat, t <= u,
         NEW k \in Keys, Memory!Live(map[k], u)
  PROVE  Memory!Swept(map, Keys, t)[k] = map[k]
BY DEF Memory!Swept, Memory!Expired, Memory!Live, Memory!Stored, Memory!Items

LEMMA PutTakes ==
  ASSUME Memory!IInv, NEW c \in Callers, Memory!PutItem(c), NEW k \in Keys PROVE Taken(k)
<1> DEFINE map == [memItems EXCEPT ![memCalls[c].key] = memCalls[c].item]
<1>1. memCalls'[c].pc = "idle" /\ memCalls[c].op = "Set"
  BY MemDone DEF Memory!PutItem, Memory!Answers
<1>2. SUFFICES ASSUME memCalls[c].key # k, Memory!Live(memItems[k], now) PROVE memItems'[k] = memItems[k]
  BY <1>1 DEF Taken
<1>3. map \in [Keys -> Memory!Stored] /\ map[k] = memItems[k]
  BY <1>2 DEF Memory!PutItem, Memory!IInv, Memory!TypeOKCalls, Memory!AskedExact, Memory!Stored
<1>4. memItems' = map \/ memItems' = Memory!Swept(map, Keys, asOf[c])
  BY DEF Memory!PutItem
<1>5. now \in Nat /\ asOf[c] \in Nat /\ asOf[c] <= now
  BY StoreAssumption DEF Memory!IInv, Memory!TypeOKCalls
<1> HIDE DEF map
<1>6. Memory!Swept(map, Keys, asOf[c])[k] = map[k]
  BY <1>2, <1>3, <1>5, SweepSpares
<1> QED BY <1>3, <1>4, <1>6

LEMMA SweepTakes ==
  ASSUME Memory!IInv, NEW c \in Callers, Memory!SweepItems(c), NEW k \in Keys PROVE Taken(k)
<1>1. now \in Nat /\ memItems \in [Keys -> Memory!Stored]
  BY StoreAssumption DEF Memory!IInv, Memory!TypeOKCalls
<1>2. Memory!Live(memItems[k], now) => memItems'[k] = memItems[k]
  BY <1>1, SweepSpares DEF Memory!SweepItems
<1> QED BY <1>2 DEF Taken

\* A live item leaves a memory store through a Delete or for a Set of its key,
\* or through a Get that had found an expired item there and deletes without
\* another look; no sweep, whichever clock it goes by, takes one.
THEOREM LiveItemsKept == StoresSpec => MemoryKeepsLive
<1>1. ASSUME MemInv,
             [StoresNext]_<<callVars, fileVars, kind, memItems, memCalls, asOf, lastSwept>>
      PROVE  (\A k \in Keys : Taken(k)) \/ UNCHANGED Memory!vars
  <2>1. CASE FileNext \/ UNCHANGED <<callVars, fileVars, kind, memItems, memCalls, asOf, lastSwept>>
    <3>1. memItems' = memItems
      BY <2>1 DEF FileNext
    <3> QED BY <3>1 DEF Taken
  <2>2. ASSUME kind = "memory", Memory!Next
        PROVE  \A k \in Keys : Taken(k)
    <3> SUFFICES ASSUME NEW k \in Keys PROVE Taken(k)
      OBVIOUS
    <3>1. Memory!IInv
      BY <1>1, <2>2 DEF MemInv
    <3>2. CASE memItems' = memItems
      BY <3>2 DEF Taken
    <3>3. ASSUME NEW c \in Callers,
                 Memory!Ask(c) \/ Memory!ReadItem(c) \/ Memory!JudgeItem(c)
          PROVE  memItems' = memItems
      BY <3>3 DEF Memory!Ask, Memory!Call, Memory!CallRefused, Memory!ReadItem, Memory!JudgeItem
    <3>4. Memory!Tick => memItems' = memItems
      BY DEF Memory!Tick
    <3> QED
      BY <2>2, <3>1, <3>2, <3>3, <3>4, DeleteTakes, PutTakes, SweepTakes DEF Memory!Next
  <2> QED BY <1>1, <2>1, <2>2 DEF StoresNext, MemoryNext
<1> QED
  BY <1>1, MemoryInvariance, PTL
  DEF Taken, StoresSpec, MemoryKeepsLive, Memory!OnlyStaleGetLoses
=============================================================================
