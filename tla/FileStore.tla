----------------------------- MODULE FileStore ------------------------------
(***************************************************************************)
(* FileStore (core/file_store.go): the map is kept in a JSON file.  Every  *)
(* operation runs under one mutex; one that changes the map first clones   *)
(* it, changes it, saves it -- a temporary file written, synced and        *)
(* renamed over the old one -- and puts the clone back when the save       *)
(* fails.  The process may be killed, or the machine lose power, at any    *)
(* step; a new process loads the file.                                     *)
(*                                                                         *)
(* A missing file and a file with no items load alike and are both         *)
(* NoItems.                                                                *)
(***************************************************************************)
EXTENDS StoreCalls

CONSTANTS
  Nobody,     \* the mutex is free
  Torn,       \* a file without its data: load reports an error
  MaxFaults,  \* bound of failing file operations
  MaxCrashes  \* bound of crashes

ASSUME FileAssumption ==
  /\ MaxFaults \in Nat /\ MaxCrashes \in Nat
  /\ Nobody \notin Callers
  /\ Torn \notin [Keys -> Stored]

VARIABLES
  up,        \* the process runs and has opened the store
  mu,        \* holder of the mutex
  before,    \* the clone the holder rolls back to
  temp,      \* the temporary file: "none", "written" or "synced"
  disk,      \* the file
  leaves,    \* what a loss of power may leave in place of the file
  faults,    \* file operations that failed so far
  crashes    \* crashes so far

fileVars == <<up, mu, before, temp, disk, leaves, faults, crashes>>

InitFile ==
  /\ up = TRUE
  /\ mu = Nobody
  /\ before = NoItems
  /\ temp = "none"
  /\ disk = NoItems
  /\ leaves = {NoItems}
  /\ faults = 0
  /\ crashes = 0

Fault == faults < MaxFaults /\ faults' = faults + 1

\* The keys whose expiry a call looks at.
Examined(call) ==
  IF call.op = "Get" THEN {call.key} ELSE IF call.op = "Delete" THEN {} ELSE Keys

\* The map a call leaves behind when it has been carried out at time t.
After(call, map, t) ==
  LET put == IF call.op = "Set" THEN [map EXCEPT ![call.key] = call.item]
             ELSE IF call.op = "Delete" THEN [map EXCEPT ![call.key] = Nil]
             ELSE map
  IN  Swept(put, Examined(call), t)

\* Set saves whatever it did; the others only when the map changed.
Saves(call, map, t) == call.op = "Set" \/ After(call, map, t) # map

\* What a call that saves nothing answers.
Found(call, map) ==
  IF call.op = "Get" /\ map[call.key] # Nil THEN map[call.key].value ELSE Nil

\* Lock, and nothing to save: answer and unlock.
AnswerLocked(c) ==
  /\ At(c, "ready") /\ mu = Nobody
  /\ ~Saves(calls[c], items, now)
  /\ Answer(c, Found(calls[c], items))
  /\ UNCHANGED <<now, items, fileVars>>

\* Lock, clone the map, change it.
ChangeLocked(c) ==
  /\ At(c, "ready") /\ mu = Nobody
  /\ Saves(calls[c], items, now)
  /\ mu' = c
  /\ before' = items
  /\ items' = After(calls[c], items, now)
  /\ Goto(c, "save")
  /\ UNCHANGED <<now, up, temp, disk, leaves, faults, crashes>>

\* Faulty: the error is reported but the clone forgotten.
RollbackNothing(c) ==
  /\ before' = NoItems
  /\ temp' = "none"
  /\ mu' = Nobody
  /\ Answer(c, "error")
  /\ UNCHANGED <<now, items, up, disk, leaves, crashes>>

\* The save failed: the clone is put back, the temporary file removed.
Rollback(c) ==
  /\ items' = before
  /\ before' = NoItems
  /\ temp' = "none"
  /\ mu' = Nobody
  /\ Answer(c, "error")
  /\ UNCHANGED <<now, up, disk, leaves, crashes>>

\* saveLocked asks the context once more before it touches a file: it ended
\* in the meantime.
SaveCancelled(c) ==
  /\ At(c, "save") /\ temp = "none"
  /\ Rollback(c)
  /\ UNCHANGED faults

\* The temporary file is created and written ...
WriteTemp(c) ==
  /\ At(c, "save") /\ temp = "none"
  /\ temp' = "written"
  /\ UNCHANGED <<callVars, up, mu, before, disk, leaves, faults, crashes>>

\* ... and its data forced to the medium.
SyncTemp(c) ==
  /\ At(c, "save") /\ temp = "written"
  /\ temp' = "synced"
  /\ Goto(c, "rename")
  /\ UNCHANGED <<now, items, up, mu, before, disk, leaves, faults, crashes>>

\* Creating, writing, syncing, closing or renaming fails.
SaveFails(c) ==
  /\ At(c, "save") \/ At(c, "rename")
  /\ Fault
  /\ Rollback(c)

\* The new file takes the name.  Until the directory is synced a loss of
\* power may leave the old file or the new one, and the new one without its
\* data had they not been forced out.
RenameTemp(c) ==
  /\ At(c, "rename")
  /\ disk' = items
  /\ leaves' = leaves \cup {items} \cup (IF temp = "synced" THEN {} ELSE {Torn})
  /\ temp' = "none"
  /\ Goto(c, "sync")
  /\ UNCHANGED <<now, items, up, mu, before, faults, crashes>>

\* Faulty: a failure to sync the directory is reported like any other.
SyncDirReported(c) ==
  /\ At(c, "sync")
  /\ \/ /\ leaves' = {disk}
        /\ Answer(c, Nil)
        /\ before' = NoItems
        /\ mu' = Nobody
        /\ UNCHANGED <<now, items, up, temp, disk, crashes, faults>>
     \/ Fault /\ Rollback(c)

\* The directory is synced; a failure to do so is ignored.
SyncDir(c) ==
  /\ At(c, "sync")
  /\ \/ leaves' = {disk} /\ UNCHANGED faults
     \/ Fault /\ UNCHANGED leaves
  /\ Answer(c, Nil)
  /\ before' = NoItems
  /\ mu' = Nobody
  /\ UNCHANGED <<now, items, up, temp, disk, crashes>>

\* Kill leaves the file as it is; a loss of power leaves one of "leaves".
Crash ==
  /\ up /\ crashes < MaxCrashes
  /\ crashes' = crashes + 1
  /\ up' = FALSE
  /\ disk' \in {disk} \cup leaves
  /\ leaves' = IF disk' = disk THEN leaves ELSE {disk'}
  /\ items' = NoItems
  /\ calls' = [c \in Callers |-> Idle(Nil)]
  /\ mu' = Nobody
  /\ before' = NoItems
  /\ temp' = "none"
  /\ UNCHANGED <<now, faults>>

\* NewFileStore in the next process.  It refuses a file it cannot read.
Load ==
  /\ ~up
  /\ disk # Torn
  /\ up' = TRUE
  /\ items' = disk
  /\ UNCHANGED <<now, calls, mu, before, temp, disk, leaves, faults, crashes>>

FileStep(c) ==
  \/ AnswerLocked(c)
  \/ ChangeLocked(c)
  \/ SaveCancelled(c)
  \/ WriteTemp(c)
  \/ SyncTemp(c)
  \/ SaveFails(c)
  \/ RenameTemp(c)
  \/ SyncDir(c)

CallStep(c) ==
  /\ Call(c) \/ CallRefused(c)
  /\ UNCHANGED fileVars

Init == InitCalls /\ InitFile

Next ==
  \/ up /\ \E c \in Callers : CallStep(c) \/ FileStep(c)
  \/ Tick /\ UNCHANGED fileVars
  \/ Crash
  \/ Load

Spec == Init /\ [][Next]_<<callVars, fileVars>>

------------------------------------------------------------------------------
(* Properties *)

\* The type invariant of the file store.
TypeOK ==
  /\ TypeOKCalls
  /\ up \in BOOLEAN
  /\ mu \in Callers \cup {Nobody}
  /\ before \in [Keys -> Stored]
  /\ temp \in {"none", "written", "synced"}
  /\ disk \in [Keys -> Stored] \cup {Torn}
  /\ leaves \subseteq [Keys -> Stored] \cup {Torn}
  /\ faults \in 0 .. MaxFaults
  /\ crashes \in 0 .. MaxCrashes

\* Memory and file agree whenever nobody is inside an operation, whatever
\* contexts ended, whatever file operation failed and wherever a process
\* died ("keep memory in step with the file", writeFileAtomic), and the file
\* can always be loaded.
MemoryInStep ==
  /\ up /\ mu = Nobody => disk = items
  /\ disk # Torn

\* The calls as the abstract store sees them: one in which the rename has
\* happened has been carried out.
Seen(c) ==
  LET call == calls[c]
  IN  [state |-> IF call.pc = "idle" THEN "idle"
                 ELSE IF call.pc = "sync" THEN "done" ELSE "asked",
       op |-> call.op, key |-> call.key, item |-> call.item, answer |-> call.answer]

KV == INSTANCE KeyValueStore WITH
        kept <- disk, asked <- [c \in Callers |-> Seen(c)]

\* The file is a key-value store: every call that answers without an error
\* took effect once, between its question and its answer; one that answers
\* an error had no effect; a reader never sees what is not on disk; and
\* nothing acknowledged is lost in a crash but what the file system had not
\* made durable.
ImplementsKeyValueStore == KV!Spec
=============================================================================
