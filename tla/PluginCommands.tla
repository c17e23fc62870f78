--------------------------- MODULE PluginCommands ---------------------------
(***************************************************************************)
(* The commands "plugin add", "plugin update", "plugin remove" and "build" *)
(* (cmd/anybot/plugin.go, build.go over app/host/plugin_lock*.go).  A      *)
(* command is a process of its own; nothing keeps two of them apart.  It   *)
(* remembers the files it may touch, changes one after the other, each by  *)
(* an atomic replacement or by "go mod edit", and puts all of them back    *)
(* when a step fails.  A crash leaves what is there.                       *)
(***************************************************************************)
EXTENDS PluginFiles, Integers, Sequences

CONSTANTS
  Commands,    \* processes that run one of these commands after the other
  Keep,        \* an option that was not given
  Idle,        \* the task of a process that does nothing
  MaxFaults,   \* steps that fail although nothing is wrong
  MaxCrashes

ASSUME CommandsAssumption ==
  /\ Commands \subseteq Processes
  /\ Keep \notin Versions \cup Paths \cup {Nil}
  /\ Idle # Nil
  /\ MaxFaults \in Nat /\ MaxCrashes \in Nat

VARIABLES
  phase,    \* the step a process comes to next
  task,     \* what it was asked to do
  plan,     \* the lock it has read, or that it is going to write
  item,     \* the record whose module it edits in go.mod
  todo,     \* plugins whose modules a build has not edited yet
  snap,     \* the files as they were when it remembered them
  left,     \* how many of the touched files are still to be read or put back
  clean,    \* nothing has failed while putting files back
  result,   \* how the process's last command ended
  faults, crashes

bounds == <<tasks, faults, crashes>>
commandVars ==
  <<phase, task, plan, item, todo, snap, left, clean, result, faults, crashes>>
commandsDisk == <<disk, alone, tasks, commandVars>>

Tasks == [kind : {"add", "update", "remove", "build"}, id : Ids \cup {Nil},
          version : Versions \cup {Nil, Keep}, replace : Paths \cup {Nil, Keep},
          module : Modules \cup {Nil}]

\* Faulty: the snapshot forgets go.mod.
TouchedNoGoMod(c) ==
  IF task[c].kind = "update" THEN <<"lock", "gen", "main">>
  ELSE <<"lock", "gen", "main", "config", task[c].id>>

\* pluginAddTouchedFiles, pluginHostTouchedFiles: in the order of the snapshot.
Touched(c) ==
  IF task[c].kind = "update" THEN <<"lock", "gen", "main", "gomod">>
  ELSE <<"lock", "gen", "main", "gomod", "config", task[c].id>>

Goto(c, p) == phase' = [phase EXCEPT ![c] = p]

\* What a command leaves behind is its files; its variables go with it.
End(c, r) ==
  /\ Goto(c, "idle")
  /\ result' = [result EXCEPT ![c] = r]
  /\ task' = [task EXCEPT ![c] = Idle]
  /\ plan' = [plan EXCEPT ![c] = NoPlugins]
  /\ item' = [item EXCEPT ![c] = Nil]
  /\ todo' = [todo EXCEPT ![c] = {}]
  /\ snap' = [snap EXCEPT ![c] = Nil]
  /\ left' = [left EXCEPT ![c] = 0]
  /\ clean' = [clean EXCEPT ![c] = TRUE]

locals == <<task, plan, item, todo, snap, left, clean>>

CommandsInit ==
  /\ phase = [c \in Commands |-> "idle"]
  /\ task = [c \in Commands |-> Idle]
  /\ plan = [c \in Commands |-> NoPlugins]
  /\ item = [c \in Commands |-> Nil]
  /\ todo = [c \in Commands |-> {}]
  /\ snap = [c \in Commands |-> Nil]
  /\ left = [c \in Commands |-> 0]
  /\ clean = [c \in Commands |-> TRUE]
  /\ result = [c \in Commands |-> "none"]
  /\ faults = 0 /\ crashes = 0

-----------------------------------------------------------------------------
\* The start of a command: arguments, a first look at the lock, the version, and
\* the files it may touch.  One that is refused here has changed nothing and is left
\* out.

Ready(c) == phase[c] = "idle" /\ tasks < MaxTasks

Start(c, t, p) ==
  /\ tasks' = tasks + 1
  /\ task' = [task EXCEPT ![c] = t]
  /\ result' = [result EXCEPT ![c] = "none"]
  /\ Goto(c, p)
  /\ UNCHANGED <<disk, plan, item, todo, snap, left, clean, alone, faults, crashes>>

\* A random id that nobody has.
Fresh(i) == /\ \A f \in {"lock", "gen"} : Load(disk[f])[i] = Nil
            /\ disk[i] = Nil
            /\ \A c \in Commands : phase[c] # "idle" => task[c].id # i

\* A module that is there already lends its source to what was not given.
Lent(m) ==
  LET lock == Load(disk["lock"]) IN
  IF OfModule(lock, m) = {} THEN [version |-> Nil, replace |-> Nil]
  ELSE LET i == CHOOSE j \in OfModule(lock, m) : TRUE
       IN [version |-> lock[i].version, replace |-> lock[i].replace]

StartAdd(c) ==
  /\ Ready(c)
  /\ \E i \in Ids, m \in Modules, v \in Versions \cup {Nil, Keep},
       r \in Paths \cup {Nil, Keep} :
      /\ Fresh(i)
      /\ LET replace == Kept(r, Lent(m).replace, Keep) IN
         \E pinned \in Pinned(Kept(v, Lent(m).version, Keep), replace) :
           Start(c, [kind |-> "add", id |-> i, module |-> m,
                     version |-> pinned, replace |-> replace], "snapshot")

StartUpdate(c) ==
  /\ Ready(c)
  /\ \E i \in Externals(Load(disk["lock"])), v \in Versions \cup {Nil, Keep},
       r \in Paths \cup {Nil, Keep} :
      LET old == Load(disk["lock"])[i]
          wanted == Kept(v, old.version, Keep) IN
      \E pinned \in Pinned(wanted, Kept(r, old.replace, Keep)) :
        Start(c, [kind |-> "update", id |-> i, module |-> Nil,
                  version |-> IF pinned = wanted THEN v ELSE pinned,
                  replace |-> r], "snapshot")

StartRemove(c) ==
  /\ Ready(c)
  /\ \E i \in Ids :
      /\ Load(disk["lock"])[i] # Nil
      /\ Start(c, [kind |-> "remove", id |-> i, module |-> Nil,
                   version |-> Keep, replace |-> Keep], "snapshot")

StartBuild(c) ==
  /\ Ready(c)
  /\ Start(c, [kind |-> "build", id |-> Nil, module |-> Nil,
               version |-> Keep, replace |-> Keep], "load")

\* snapshotFiles reads one file after the other.  What the properties say of the
\* files it does not read is what they were when it began.
Snapshot(c) ==
  /\ phase[c] = "snapshot"
  /\ snap' = [snap EXCEPT ![c] = disk]
  /\ left' = [left EXCEPT ![c] = Len(Touched(c)) - 1]
  /\ alone' = [alone EXCEPT ![c] = TRUE]
  /\ Goto(c, "remember")
  /\ UNCHANGED <<disk, task, plan, item, todo, clean, result, bounds>>

Remember(c) ==
  LET f == Touched(c)[Len(Touched(c)) - left[c] + 1] IN
  /\ phase[c] = "remember"
  /\ snap' = [snap EXCEPT ![c][f] = disk[f]]
  /\ left' = [left EXCEPT ![c] = @ - 1]
  /\ Goto(c, IF left[c] = 1 THEN "load" ELSE "remember")
  /\ UNCHANGED <<disk, task, plan, item, todo, clean, alone, result, bounds>>

-----------------------------------------------------------------------------
\* AddPluginInstall, UpdatePluginInstall, RemovePluginInstall and
\* EnsurePluginHost: they read the lock again and work out the new one.

NewRecord(c) == [module |-> task[c].module, version |-> task[c].version,
                 replace |-> task[c].replace]

\* lock.add.
Addable(c, lock) ==
  /\ lock[task[c].id] = Nil
  /\ \A j \in Ids : lock[j] # Nil => SharesSource(lock[j], NewRecord(c))

Loaded(c, lock, record, p) ==
  /\ plan' = [plan EXCEPT ![c] = lock]
  /\ item' = [item EXCEPT ![c] = record]
  /\ Goto(c, p)
  /\ alone' = [alone EXCEPT ![c] = @ \/ task[c].kind = "build"]
  /\ UNCHANGED <<disk, task, todo, snap, left, clean, result, bounds>>

LoadForAdd(c, lock) ==
  /\ task[c].kind = "add"
  /\ Addable(c, lock) /\ Writable(disk)
  /\ Loaded(c, [lock EXCEPT ![task[c].id] = NewRecord(c)], NewRecord(c), "lock")

LoadForUpdate(c, lock) ==
  LET i == task[c].id
      new == Updated(lock, i, task[c].version, task[c].replace, Keep) IN
  /\ task[c].kind = "update"
  /\ i \in Externals(lock)
  /\ \/ new = lock /\ Loaded(c, new, new[i], "require")
     \/ new # lock /\ Writable(disk) /\ Loaded(c, new, new[i], "lock")

LoadForRemove(c, lock) ==
  /\ task[c].kind = "remove"
  /\ lock[task[c].id] # Nil /\ Writable(disk)
  /\ Loaded(c, [lock EXCEPT ![task[c].id] = Nil], lock[task[c].id], "lock")

LoadForBuild(c, lock) ==
  /\ task[c].kind = "build" /\ Writable(disk)
  /\ Loaded(c, lock, Nil, IF disk["lock"] = Nil THEN "lock" ELSE "gen")

LoadLock(c) ==
  /\ phase[c] = "load"
  /\ LET lock == Load(disk["lock"]) IN
     \/ LoadForAdd(c, lock) \/ LoadForUpdate(c, lock)
     \/ LoadForRemove(c, lock) \/ LoadForBuild(c, lock)

-----------------------------------------------------------------------------
\* The writes, in the order of the code.

\* SavePluginLock validates the lock once more.
SaveLock(c) ==
  /\ phase[c] = "lock" /\ ValidLock(plan[c])
  /\ Write(c, "lock", plan[c])
  /\ Goto(c, "gen")
  /\ UNCHANGED <<task, plan, item, todo, snap, left, clean, result, bounds>>

RenderGen(c) ==
  /\ phase[c] = "gen"
  /\ Write(c, "gen", Gen(plan[c]))
  /\ Goto(c, "main")
  /\ UNCHANGED <<task, plan, item, todo, snap, left, clean, result, bounds>>

RenderMain(c) ==
  /\ phase[c] = "main" /\ disk["main"] \notin {Foreign, Empty}
  /\ Write(c, "main", "generated")
  /\ Goto(c, "gomod")
  /\ UNCHANGED <<task, plan, item, todo, snap, left, clean, result, bounds>>

\* Faulty: the module goes with any of its plugins.
UnusedAnyway(c) == item[c].module # Builtin

\* dropPluginGoModIfUnused: no plugin left in the lock has the removed module.
Unused(c) == item[c].module # Builtin /\ OfModule(plan[c], item[c].module) = {}

RenderGoMod(c) ==
  /\ phase[c] = "gomod" /\ disk["gomod"] # Empty
  /\ IF disk["gomod"] = Nil THEN Write(c, "gomod", FreshGoMod)
     ELSE UNCHANGED <<disk, alone>>
  /\ todo' = [todo EXCEPT ![c] =
                IF task[c].kind = "build" THEN Externals(plan[c]) ELSE {}]
  /\ \/ task[c].kind \in {"add", "update"} /\ Goto(c, "require")
     \/ task[c].kind = "remove"
        /\ Goto(c, IF Unused(c) THEN "droprequire" ELSE "entry")
     \/ task[c].kind = "build" /\ Goto(c, "framework")
  /\ UNCHANGED <<task, plan, item, snap, left, clean, result, bounds>>

\* "go mod edit" needs a go.mod; it changes one line about one module.
EditGoMod(c, field, m, value) ==
  /\ disk["gomod"] \notin {Nil, Empty}
  /\ Write(c, "gomod", [disk["gomod"] EXCEPT ![field][m] = value])

\* syncPluginGoMod: first the version, should there be something to say about it,
\* then the replacement or its removal.
EditRequire(c) ==
  /\ phase[c] = "require"
  /\ IF Sourced(item[c])
     THEN EditGoMod(c, "require", item[c].module, Required(item[c]))
     ELSE UNCHANGED <<disk, alone>>
  /\ Goto(c, "replace")
  /\ UNCHANGED <<task, plan, item, todo, snap, left, clean, result, bounds>>

AfterReplace(c) ==
  \/ task[c].kind = "update" /\ End(c, "ok")
  \/ task[c].kind = "add" /\ Goto(c, "config") /\ UNCHANGED <<locals, result>>
  \/ task[c].kind = "build" /\ Goto(c, "modules") /\ UNCHANGED <<locals, result>>

\* Faulty: a replacement that is gone from the lock stays in go.mod.
EditReplaceOnly(c) ==
  /\ phase[c] = "replace"
  /\ EditGoMod(c, "replace", item[c].module,
       IF item[c].replace = Nil THEN disk["gomod"].replace[item[c].module]
       ELSE item[c].replace)
  /\ AfterReplace(c)
  /\ UNCHANGED bounds

EditReplace(c) ==
  /\ phase[c] = "replace"
  /\ EditGoMod(c, "replace", item[c].module, item[c].replace)
  /\ AfterReplace(c)
  /\ UNCHANGED bounds

DropRequire(c) ==
  /\ phase[c] = "droprequire"
  /\ EditGoMod(c, "require", item[c].module, Nil)
  /\ Goto(c, "dropreplace")
  /\ UNCHANGED <<task, plan, item, todo, snap, left, clean, result, bounds>>

DropReplace(c) ==
  /\ phase[c] = "dropreplace"
  /\ EditGoMod(c, "replace", item[c].module, Nil)
  /\ Goto(c, "entry")
  /\ UNCHANGED <<task, plan, item, todo, snap, left, clean, result, bounds>>

\* add: config/anybot.yaml, should there be none, by os.WriteFile: an empty file,
\* which is then filled.
CreateConfig(c) ==
  /\ phase[c] = "config"
  /\ IF disk["config"] = Nil THEN Write(c, "config", Empty) /\ Goto(c, "fill")
     ELSE UNCHANGED <<disk, alone>> /\ Goto(c, "entry")
  /\ UNCHANGED <<task, plan, item, todo, snap, left, clean, result, bounds>>

FillConfig(c) ==
  /\ phase[c] = "fill"
  /\ Write(c, "config", "default")
  /\ Goto(c, "entry")
  /\ UNCHANGED <<task, plan, item, todo, snap, left, clean, result, bounds>>

\* EnsurePluginConfigEntry: a new plugin is disabled.
EnsureEntry(c) ==
  LET i == task[c].id IN
  /\ phase[c] = "entry" /\ task[c].kind = "add"
  /\ IF disk[i] = Nil THEN Write(c, i, FreshDocument) ELSE UNCHANGED <<disk, alone>>
  /\ End(c, "ok")
  /\ UNCHANGED bounds

\* Faulty: an entry that was written to by its user stays.
RemoveFreshEntry(c) ==
  LET i == task[c].id IN
  /\ phase[c] = "entry" /\ task[c].kind = "remove"
  /\ IF disk["config"] # Nil /\ disk[i] = FreshDocument
     THEN Write(c, i, Nil) ELSE UNCHANGED <<disk, alone>>
  /\ End(c, "ok")
  /\ UNCHANGED bounds

\* RemovePluginConfigEntry; without config/anybot.yaml entries are not looked at.
RemoveEntry(c) ==
  LET i == task[c].id IN
  /\ phase[c] = "entry" /\ task[c].kind = "remove"
  /\ IF disk["config"] # Nil /\ disk[i] # Nil
     THEN Write(c, i, Nil) ELSE UNCHANGED <<disk, alone>>
  /\ End(c, "ok")
  /\ UNCHANGED bounds

-----------------------------------------------------------------------------
\* The rest of a build: the framework's own module, which is not looked at
\* here, every plugin's, "go mod tidy" and the compiler.

SyncFramework(c) ==
  /\ phase[c] = "framework" /\ disk["gomod"] \notin {Nil, Empty}
  /\ Goto(c, "modules")
  /\ UNCHANGED <<disk, task, plan, item, todo, snap, left, clean, alone, result, bounds>>

NextModule(c) ==
  /\ phase[c] = "modules"
  /\ IF todo[c] = {} THEN Goto(c, "tidy") /\ UNCHANGED <<item, todo>>
     ELSE \E i \in todo[c] :
            /\ todo' = [todo EXCEPT ![c] = @ \ {i}]
            /\ item' = [item EXCEPT ![c] = plan[c][i]]
            /\ Goto(c, "require")
  /\ UNCHANGED <<disk, task, plan, snap, left, clean, alone, result, bounds>>

\* The go command keeps the requirements of what plugins.gen.go imports, and finds a
\* version for what has none.
Tidied(gomod, imported, found) ==
  [gomod EXCEPT !.require = [m \in Modules |->
     IF m \notin imported THEN Nil ELSE IF @[m] = Nil THEN found[m] ELSE @[m]]]

Tidy(c) ==
  /\ phase[c] = "tidy" /\ disk["gomod"] \notin {Nil, Empty}
  /\ \E found \in [Modules -> Versions \cup {Placeholder}] :
       Write(c, "gomod",
         Tidied(disk["gomod"], {Load(disk["gen"])[i] : i \in Ids}, found))
  /\ Goto(c, "compile")
  /\ UNCHANGED <<task, plan, item, todo, snap, left, clean, result, bounds>>

Compile(c) ==
  /\ phase[c] = "compile"
  /\ End(c, "ok")
  /\ UNCHANGED <<disk, alone, bounds>>

-----------------------------------------------------------------------------
Writing == {"load", "lock", "gen", "main", "gomod", "require", "replace",
            "droprequire", "dropreplace", "config", "fill", "entry",
            "framework", "modules", "tidy", "compile"}

\* A step fails: joinRollbackError puts the files back; a build just ends.
Fails(c) ==
  /\ \/ task[c].kind = "build" /\ End(c, "failed")
     \/ /\ task[c].kind # "build"
        /\ Goto(c, "rollback")
        /\ left' = [left EXCEPT ![c] = Len(Touched(c))]
        /\ UNCHANGED <<task, plan, item, todo, snap, clean, result>>
  /\ UNCHANGED <<disk, alone, tasks, crashes>>

\* It cannot go on: what it has read does not allow it ...
Refused(c) ==
  LET lock == Load(disk["lock"])
      i == task[c].id IN
  \/ phase[c] = "load" /\ task[c].kind = "add"
     /\ ~(Addable(c, lock) /\ Writable(disk))
  \/ phase[c] = "load" /\ task[c].kind = "update"
     /\ \/ i \notin Externals(lock)
        \/ /\ Updated(lock, i, task[c].version, task[c].replace, Keep) # lock
           /\ ~Writable(disk)
  \/ phase[c] = "load" /\ task[c].kind = "remove"
     /\ ~(lock[i] # Nil /\ Writable(disk))
  \/ phase[c] = "load" /\ task[c].kind = "build" /\ ~Writable(disk)
  \/ phase[c] = "lock" /\ ~ValidLock(plan[c])
  \/ phase[c] = "main" /\ disk["main"] \in {Foreign, Empty}
  \/ phase[c] = "gomod" /\ disk["gomod"] = Empty
  \/ phase[c] = "require" /\ Sourced(item[c]) /\ disk["gomod"] \in {Nil, Empty}
  \/ phase[c] \in {"replace", "droprequire", "dropreplace", "framework", "tidy"}
     /\ disk["gomod"] \in {Nil, Empty}

Refuse(c) == Refused(c) /\ Fails(c) /\ UNCHANGED faults

\* ... or the file system, the go command or the compiler fails.
Break(c) ==
  /\ phase[c] \in Writing \ {"modules"} /\ faults < MaxFaults
  /\ faults' = faults + 1
  /\ Fails(c)

\* snapshotFiles' closure, from the last file to the first.  A file that was not
\* there is removed; os.WriteFile first empties the others, then fills them.
Restoring(c) == Touched(c)[left[c]]

RemoveCreated(c) ==
  /\ phase[c] = "rollback" /\ left[c] > 0 /\ snap[c][Restoring(c)] = Nil
  /\ Write(c, Restoring(c), Nil)
  /\ left' = [left EXCEPT ![c] = @ - 1]
  /\ UNCHANGED <<phase, task, plan, item, todo, snap, clean, result, bounds>>

Truncate(c) ==
  /\ phase[c] = "rollback" /\ left[c] > 0 /\ snap[c][Restoring(c)] # Nil
  /\ Write(c, Restoring(c), Empty)
  /\ Goto(c, "refill")
  /\ UNCHANGED <<task, plan, item, todo, snap, left, clean, result, bounds>>

Refill(c) ==
  /\ phase[c] = "refill"
  /\ Write(c, Restoring(c), snap[c][Restoring(c)])
  /\ left' = [left EXCEPT ![c] = @ - 1]
  /\ Goto(c, "rollback")
  /\ UNCHANGED <<task, plan, item, todo, snap, clean, result, bounds>>

\* A file that cannot be put back does not keep the others from it.
RestoreBreaks(c) ==
  /\ phase[c] \in {"rollback", "refill"} /\ left[c] > 0 /\ faults < MaxFaults
  /\ faults' = faults + 1
  /\ clean' = [clean EXCEPT ![c] = FALSE]
  /\ left' = [left EXCEPT ![c] = @ - 1]
  /\ Goto(c, "rollback")
  /\ UNCHANGED <<disk, task, plan, item, todo, snap, alone, result, tasks, crashes>>

RolledBack(c) ==
  /\ phase[c] = "rollback" /\ left[c] = 0
  /\ End(c, "failed")
  /\ UNCHANGED <<disk, alone, bounds>>

\* The process is killed, or the machine stops: nobody puts anything back.
Crash(c) ==
  /\ phase[c] # "idle" /\ crashes < MaxCrashes
  /\ crashes' = crashes + 1
  /\ End(c, "crashed")
  /\ UNCHANGED <<disk, alone, tasks, faults>>

-----------------------------------------------------------------------------
HostStep(c) == SaveLock(c) \/ RenderGen(c) \/ RenderMain(c) \/ RenderGoMod(c)
GoModStep(c) ==
  EditRequire(c) \/ EditReplace(c) \/ DropRequire(c) \/ DropReplace(c)
EntryStep(c) ==
  CreateConfig(c) \/ FillConfig(c) \/ EnsureEntry(c) \/ RemoveEntry(c)
BuildStep(c) == SyncFramework(c) \/ NextModule(c) \/ Tidy(c) \/ Compile(c)
Restore(c) == RemoveCreated(c) \/ Truncate(c) \/ Refill(c) \/ RestoreBreaks(c)

CommandStep(c) ==
  \/ StartAdd(c) \/ StartUpdate(c) \/ StartRemove(c) \/ StartBuild(c)
  \/ Snapshot(c) \/ Remember(c) \/ LoadLock(c)
  \/ HostStep(c) \/ GoModStep(c) \/ EntryStep(c) \/ BuildStep(c)
  \/ Refuse(c) \/ Break(c) \/ Restore(c) \/ RolledBack(c) \/ Crash(c)

-----------------------------------------------------------------------------
Phases == {"idle", "snapshot", "remember", "rollback", "refill"} \cup Writing

CommandsTypeOK ==
  /\ phase \in [Commands -> Phases]
  /\ task \in [Commands -> Tasks \cup {Idle}]
  /\ plan \in [Commands -> Locks]
  /\ item \in [Commands -> Record \cup {Nil}]
  /\ todo \in [Commands -> SUBSET Ids]
  /\ left \in [Commands -> 0..6]
  /\ clean \in [Commands -> BOOLEAN]
  /\ result \in [Commands -> {"none", "ok", "failed", "crashed"}]

\* Whatever commands run at the same time, fail or crash, plugins.lock never
\* names two sources of one module, which no build could satisfy and no command
\* would load again, and a command that was accepted never works out such a lock
\* only to be refused when it saves it (plugin_lock_io.go:31, 42).
LockValid ==
  /\ ValidLock(Load(disk["lock"]))
  /\ \A c \in Commands : phase[c] = "lock" => ValidLock(plan[c])

Committed(c) == phase[c] # "idle" /\ phase'[c] = "idle" /\ result'[c] = "ok"
Failed(c) == phase[c] # "idle" /\ phase'[c] = "idle" /\ result'[c] = "failed"

\* A command that reports an error has changed nothing, wherever it failed, if
\* nobody else has written and every file could be put back (plugin.go:118).
AllOrNothing ==
  [][\A c \in Commands :
       Failed(c) /\ task[c].kind # "build" /\ alone[c] /\ clean[c]
         => disk' = snap[c]]_commandsDisk

\* A command that reports success in a directory whose files agreed, and that no
\* other has written to meanwhile, leaves files that agree: plugins.gen.go and
\* go.mod say what the lock says, and no entry is left without its plugin.
CommitAgrees ==
  [][\A c \in Commands :
       Committed(c) /\ task[c].kind # "build" /\ alone[c]
       /\ Consistent(snap[c]) /\ snap[c]["config"] # Nil
         => Consistent(disk')]_commandsDisk

\* Whatever crashes, failures and other commands have left behind: a build that
\* gets through leaves plugins.gen.go and go.mod as the lock says, should nobody
\* write while it runs (build.go:121-132).
BuildHeals ==
  [][\A c \in Commands :
       Committed(c) /\ task[c].kind = "build" /\ alone[c]
         => LET lock == Load(disk'["lock"]) IN
            disk'["gen"] = Gen(lock) /\ Synced(disk'["gomod"], lock)]_commandsDisk
=============================================================================
