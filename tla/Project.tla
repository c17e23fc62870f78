------------------------------ MODULE Project -------------------------------
(***************************************************************************)
(* One directory of a bot with everybody who writes to it: commands that   *)
(* change which plugins there are, commands that change how they are       *)
(* configured, and the host that is running.                               *)
(***************************************************************************)
EXTENDS PluginCommands, HostStart

CONSTANTS
  Locks0,      \* locks that the directory may start with
  Entries0     \* what the plugins' entries may start with

ASSUME ProjectAssumption ==
  /\ Commands \cap Editors = {} /\ Nil \notin Processes
  /\ Locks0 \subseteq {l \in Locks : ValidLock(l)}
  /\ Entries0 \subseteq [Ids -> Documents \cup {Empty}]

vars == <<disk, alone, tasks, commandVars, configVars>>

Init ==
  /\ disk \in {Directory(l, e) : l \in Locks0, e \in Entries0}
              \cup {EmptyDirectory(Nil), EmptyDirectory(Foreign)}
  /\ alone = [c \in Processes |-> FALSE]
  /\ tasks = 0
  /\ CommandsInit /\ ConfigsInit

\* An entry a command has written is no longer as the host has left it.
Command(c) ==
  /\ CommandStep(c)
  /\ kept' = {f \in kept : disk'[f.id] = disk[f.id]}
  /\ UNCHANGED <<stage, edit, op, unread, changed, blind, holder>>

Editor(e) == EditorStep(e) /\ UNCHANGED commandVars

Next == (\E c \in Commands : Command(c)) \/ (\E e \in Editors : Editor(e))

Spec == Init /\ [][Next]_vars

TypeOK ==
  /\ DOMAIN disk = Files /\ \A f \in Files : disk[f] \in Contents(f)
  /\ alone \in [Processes -> BOOLEAN] /\ tasks \in 0..MaxTasks
  /\ CommandsTypeOK /\ ConfigsTypeOK

\* Whoever reads the files while nobody writes to them is told the truth about the
\* start (ReportsAgree); a crash leaves each of the states in between behind.
ReportsForetellStart ==
  (\A c \in Commands : phase[c] = "idle") /\ (\A e \in Editors : stage[e] = "idle")
    => ReportsAgree(disk)

\* A plugin command that reports success leaves a bot that can be built and
\* started as it could before, if nobody else has written meanwhile: no enabled
\* entry is left of a plugin that is gone, and none is switched on
\* (config_update.go:136, plugin_lock.go:180).
StartsAsBefore ==
  [][\A c \in Commands :
       Committed(c) /\ task[c].kind # "build" /\ alone[c]
       /\ Starts(snap[c], BuiltFrom(snap[c]))
         => Starts(disk', BuiltFrom(disk'))]_commandsDisk

-----------------------------------------------------------------------------
\* Why LockValid holds: no lock that is read, planned or remembered is invalid.

LockFile(file) == DOMAIN Load(file) = Ids /\ ValidLock(Load(file))

Shape ==
  /\ DOMAIN disk = Files
  /\ DOMAIN phase = Commands /\ DOMAIN task = Commands
  /\ DOMAIN plan = Commands /\ DOMAIN snap = Commands
  /\ DOMAIN left = Commands /\ DOMAIN clean = Commands
  /\ DOMAIN alone = Processes

\* A command past its start, and one that has remembered the files.
Ongoing(c) == phase[c] # "idle" /\ task[c].kind # "build"
Remembers(c) == Ongoing(c) /\ phase[c] # "snapshot"

LocksInHand(c) ==
  /\ DOMAIN plan[c] = Ids /\ ValidLock(plan[c])
  /\ phase[c] \in {"snapshot", "remember", "rollback", "refill"} => Ongoing(c)
  /\ Ongoing(c) => task[c].id \in Ids
  /\ Remembers(c) => DOMAIN snap[c] = Files /\ LockFile(snap[c]["lock"])

LockInv ==
  /\ Shape /\ LockFile(disk["lock"]) /\ \A c \in Commands : LocksInHand(c)
=============================================================================
