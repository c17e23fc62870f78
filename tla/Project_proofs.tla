--------------------------- MODULE Project_proofs ---------------------------
(***************************************************************************)
(* Proofs about Project for any plugins, modules, sources and processes,   *)
(* and any number of tasks, faults and crashes: the lock stays valid, the  *)
(* host's updates are kept, reports foretell the start, a failed command   *)
(* is undone, a command or a build that gets through leaves files that     *)
(* agree, and a configuration task does what it was asked for and no more. *)
(***************************************************************************)
EXTENDS Project, TLAPS
LOCAL INSTANCE SequencesExt

\* The files of a directory, with nothing beside them.
Whole(files) == files = [f \in Files |-> files[f]]

\* A lock without plugins, which a missing or empty file reads as, is valid.
LEMMA NoPluginsValid ==
  DOMAIN NoPlugins = Ids /\ ValidLock(NoPlugins)
BY DEF NoPlugins, ValidLock

\* A file with no lock, or with a valid one, is a valid lock's.
LEMMA LoadValid ==
  /\ LockFile(Nil) /\ LockFile(Empty)
  /\ \A l : DOMAIN l = Ids /\ ValidLock(l) => LockFile(l)
BY NoPluginsValid DEF LockFile, Load

\* lock.add keeps a lock valid.
LEMMA AddValid ==
  ASSUME NEW lock, DOMAIN lock = Ids, ValidLock(lock), NEW i \in Ids, NEW r,
         lock[i] = Nil, \A j \in Ids : lock[j] # Nil => SharesSource(lock[j], r)
  PROVE  LET new == [lock EXCEPT ![i] = r] IN DOMAIN new = Ids /\ ValidLock(new)
BY DEF ValidLock, SharesSource, SameSource

\* So does taking a plugin out of it ...
LEMMA RemoveValid ==
  ASSUME NEW lock, DOMAIN lock = Ids, ValidLock(lock), NEW i \in Ids
  PROVE  LET new == [lock EXCEPT ![i] = Nil] IN DOMAIN new = Ids /\ ValidLock(new)
BY DEF ValidLock

\* ... and giving all plugins of a module the same new source.
LEMMA UpdateValid ==
  ASSUME NEW lock, DOMAIN lock = Ids, ValidLock(lock), NEW i \in Ids,
         lock[i] # Nil, NEW version, NEW replace
  PROVE  LET new == Updated(lock, i, version, replace, Keep)
         IN DOMAIN new = Ids /\ ValidLock(new)
<1> DEFINE new == Updated(lock, i, version, replace, Keep)
           r == [module  |-> lock[i].module,
                 version |-> Kept(version, lock[i].version, Keep),
                 replace |-> Kept(replace, lock[i].replace, Keep)]
<1>1. new = [j \in Ids |-> IF lock[j] # Nil /\ lock[j].module = lock[i].module
                           THEN r ELSE lock[j]]
  BY DEF Updated
<1>2. r.module = lock[i].module
  OBVIOUS
<1> HIDE DEF new, r
<1>3. ASSUME NEW j \in Ids, NEW k \in Ids, new[j] # Nil, new[k] # Nil
      PROVE  SharesSource(new[j], new[k])
  <2>1. CASE lock[j] # Nil /\ lock[j].module = lock[i].module
    BY <1>1, <1>2, <1>3, <2>1 DEF SharesSource, SameSource
  <2>2. CASE ~(lock[j] # Nil /\ lock[j].module = lock[i].module)
    <3>1. new[j] = lock[j]
      BY <1>1, <2>2
    <3>2. lock[j].module # lock[i].module
      BY <1>3, <2>2, <3>1
    <3>3. CASE lock[k] # Nil /\ lock[k].module = lock[i].module
      BY <1>1, <1>2, <3>1, <3>2, <3>3 DEF SharesSource
    <3>4. CASE ~(lock[k] # Nil /\ lock[k].module = lock[i].module)
      BY <1>1, <1>3, <3>1, <3>4 DEF ValidLock
    <3>5. QED
      BY <3>3, <3>4
  <2>3. QED
    BY <2>1, <2>2
<1>4. DOMAIN new = Ids /\ ValidLock(new)
  BY <1>1, <1>3 DEF ValidLock
<1>5. QED
  BY <1>4 DEF new

\* What a write does to the lock.
LEMMA WriteLock ==
  ASSUME Shape, NEW c, NEW f, NEW content, Write(c, f, content)
  PROVE  /\ DOMAIN disk' = Files /\ DOMAIN alone' = Processes
         /\ f # "lock" => disk'["lock"] = disk["lock"]
         /\ f = "lock" => disk'["lock"] = content
BY DEF Shape, Write, Files, HostFiles

\* A step of c that leaves what it has read and remembered alone.
LEMMA Onward ==
  ASSUME LockInv, NEW c \in Commands, NEW p \in Writing \cup {"rollback", "refill"},
         phase[c] \in Writing \cup {"rollback", "refill"}, Goto(c, p),
         p \in {"rollback", "refill"} => Ongoing(c),
         UNCHANGED <<task, plan, snap>>
  PROVE  /\ DOMAIN phase' = Commands
         /\ \A d \in Commands : LocksInHand(d)'
<1>1. DOMAIN phase' = Commands /\ phase'[c] = p
      /\ \A d \in Commands \ {c} : phase'[d] = phase[d]
  BY DEF LockInv, Shape, Goto
<1>2. ASSUME NEW d \in Commands \ {c} PROVE LocksInHand(d)'
  BY <1>1, <1>2 DEF LockInv, LocksInHand, Ongoing, Remembers, LockFile, Load,
                    ValidLock, NoPlugins
<1>3. LocksInHand(c)'
  BY <1>1 DEF LockInv, LocksInHand, Ongoing, Remembers, LockFile, Load,
              ValidLock, NoPlugins, Writing
<1>4. QED
  BY <1>1, <1>2, <1>3

\* The end of a command.
LEMMA Ending ==
  ASSUME LockInv, NEW c \in Commands, NEW r, End(c, r)
  PROVE  /\ DOMAIN phase' = Commands /\ DOMAIN task' = Commands
         /\ DOMAIN plan' = Commands /\ DOMAIN snap' = Commands
         /\ DOMAIN left' = Commands /\ DOMAIN clean' = Commands
         /\ \A d \in Commands : LocksInHand(d)'
<1>1. /\ DOMAIN phase' = Commands /\ DOMAIN task' = Commands
      /\ DOMAIN plan' = Commands /\ DOMAIN snap' = Commands
      /\ DOMAIN left' = Commands /\ DOMAIN clean' = Commands
  BY DEF LockInv, Shape, End, Goto
<1>2. ASSUME NEW d \in Commands \ {c} PROVE LocksInHand(d)'
  <2>1. /\ phase'[d] = phase[d] /\ task'[d] = task[d]
        /\ plan'[d] = plan[d] /\ snap'[d] = snap[d]
    BY <1>2 DEF LockInv, Shape, End, Goto
  <2>2. QED
    BY <2>1 DEF LockInv, LocksInHand, Ongoing, Remembers, LockFile, Load,
                ValidLock, NoPlugins
<1>3. LocksInHand(c)'
  <2>1. phase'[c] = "idle" /\ plan'[c] = NoPlugins
    BY DEF LockInv, Shape, End, Goto
  <2>2. QED
    BY <2>1, NoPluginsValid DEF LocksInHand, Ongoing, Remembers, ValidLock, NoPlugins
<1>4. QED
  BY <1>1, <1>2, <1>3

\* The start of a command.
LEMMA Starting ==
  ASSUME LockInv, NEW c \in Commands, phase[c] = "idle", NEW t, NEW p, Start(c, t, p),
         \/ t.kind # "build" /\ t.id \in Ids /\ p = "snapshot"
         \/ t.kind = "build" /\ p = "load"
  PROVE  LockInv'
<1>1. /\ phase'[c] = p /\ task'[c] = t
      /\ plan' = plan /\ snap' = snap /\ disk' = disk
  BY DEF LockInv, Shape, Start, Goto
<1>2. Shape'
  BY DEF LockInv, Shape, Start, Goto
<1>3. ASSUME NEW d \in Commands \ {c} PROVE LocksInHand(d)'
  <2>1. phase'[d] = phase[d] /\ task'[d] = task[d]
    BY <1>3 DEF LockInv, Shape, Start, Goto
  <2>2. QED
    BY <1>1, <2>1 DEF LockInv, LocksInHand, Ongoing, Remembers, LockFile, Load,
                      ValidLock, NoPlugins
<1>4. LocksInHand(c)'
  BY <1>1 DEF LockInv, LocksInHand, Ongoing, Remembers, ValidLock
<1>5. LockFile(disk["lock"])'
  BY <1>1 DEF LockInv, LockFile, Load, ValidLock, NoPlugins
<1>6. QED
  BY <1>2, <1>3, <1>4, <1>5 DEF LockInv

\* Remembering the files: all of them as they are, ...
LEMMA SnapshotKeeps ==
  ASSUME LockInv, NEW c \in Commands, Snapshot(c)
  PROVE  LockInv'
<1>1. /\ phase'[c] = "remember" /\ snap'[c] = disk /\ phase[c] = "snapshot"
      /\ plan' = plan /\ task' = task /\ disk' = disk
  BY DEF LockInv, Shape, Snapshot, Goto
<1>2. Shape'
  BY DEF LockInv, Shape, Snapshot, Goto
<1>3. ASSUME NEW d \in Commands \ {c} PROVE LocksInHand(d)'
  <2>1. phase'[d] = phase[d] /\ snap'[d] = snap[d]
    BY <1>3 DEF LockInv, Shape, Snapshot, Goto
  <2>2. QED
    BY <1>1, <2>1 DEF LockInv, LocksInHand, Ongoing, Remembers, LockFile, Load,
                      ValidLock, NoPlugins
<1>4. LocksInHand(c)'
  BY <1>1 DEF LockInv, Shape, LocksInHand, Ongoing, Remembers, LockFile, Load,
              ValidLock, NoPlugins
<1>5. LockFile(disk["lock"])'
  BY <1>1 DEF LockInv, LockFile, Load, ValidLock, NoPlugins
<1>6. QED
  BY <1>2, <1>3, <1>4, <1>5 DEF LockInv

\* ... and then one after the other again.
LEMMA Remembering ==
  ASSUME Shape, NEW c \in Commands, Remember(c), DOMAIN snap[c] = Files
  PROVE  /\ phase[c] = "remember" /\ phase'[c] \in {"remember", "load"}
         /\ UNCHANGED <<disk, task, plan, alone>>
         /\ DOMAIN snap'[c] = Files /\ (Whole(snap[c]) => Whole(snap'[c]))
         /\ \A g \in Files : snap'[c][g] = snap[c][g] \/ snap'[c][g] = disk[g]
         /\ \A d \in Commands \ {c} : snap'[d] = snap[d] /\ phase'[d] = phase[d]
<1>1. PICK f : snap' = [snap EXCEPT ![c][f] = disk[f]]
  BY DEF Remember
<1>2. /\ snap'[c] = [snap[c] EXCEPT ![f] = disk[f]]
      /\ \A d \in Commands \ {c} : snap'[d] = snap[d]
  BY <1>1 DEF Shape
<1>3. snap'[c] = [g \in Files |-> IF g = f THEN disk[f] ELSE snap[c][g]]
  BY <1>2
<1>4. Whole(snap'[c])
  BY <1>3 DEF Whole
<1> QED BY <1>2, <1>3, <1>4 DEF Remember, Shape, Goto

LEMMA RememberKeeps ==
  ASSUME LockInv, NEW c \in Commands, Remember(c)
  PROVE  LockInv'
<1>1. phase[c] = "remember" /\ Remembers(c) /\ DOMAIN snap[c] = Files
  BY DEF Remember, LockInv, LocksInHand, Remembers
<1>2. /\ phase'[c] \in {"remember", "load"} /\ UNCHANGED <<disk, task, plan>>
      /\ DOMAIN snap'[c] = Files
      /\ \A g \in Files : snap'[c][g] = snap[c][g] \/ snap'[c][g] = disk[g]
      /\ \A d \in Commands \ {c} : snap'[d] = snap[d] /\ phase'[d] = phase[d]
  BY <1>1, Remembering DEF LockInv
<1>3. Shape'
  BY DEF LockInv, Shape, Remember, Goto
<1>4. ASSUME NEW d \in Commands \ {c} PROVE LocksInHand(d)'
  BY <1>2, <1>4 DEF LockInv, LocksInHand, Ongoing, Remembers, LockFile, Load,
                    ValidLock, NoPlugins
<1>5. LockFile(disk["lock"])'
  BY <1>2 DEF LockInv, LockFile, Load, ValidLock, NoPlugins
<1>6. LockFile(snap'[c]["lock"])
  <2>1. "lock" \in Files
    BY DEF Files, HostFiles
  <2> QED BY <1>1, <1>2, <2>1 DEF LockInv, LocksInHand
<1>7. LocksInHand(c)'
  BY <1>1, <1>2, <1>6 DEF LockInv, LocksInHand, Ongoing, Remembers, LockFile, Load,
                          ValidLock, NoPlugins
<1>8. QED
  BY <1>3, <1>4, <1>5, <1>7 DEF LockInv

\* A lock that is planned is valid.
LEMMA PlannedValid ==
  ASSUME LockInv, NEW c \in Commands, phase[c] = "load", LoadLock(c)
  PROVE  \E lock, record, p :
           /\ DOMAIN lock = Ids /\ ValidLock(lock) /\ p \in Writing
           /\ Loaded(c, lock, record, p)
<1> DEFINE old == Load(disk["lock"])
<1>1. DOMAIN old = Ids /\ ValidLock(old)
  BY DEF LockInv, LockFile
<1>2. task[c].kind # "build" => task[c].id \in Ids
  BY DEF LockInv, LocksInHand, Ongoing
<1> HIDE DEF old
<1>3. CASE LoadForAdd(c, old)
  <2> DEFINE new == [old EXCEPT ![task[c].id] = NewRecord(c)]
  <2>1. DOMAIN new = Ids /\ ValidLock(new)
    BY <1>1, <1>2, <1>3, AddValid DEF LoadForAdd, Addable
  <2>2. Loaded(c, new, NewRecord(c), "lock")
    BY <1>3 DEF LoadForAdd
  <2>3. QED
    BY <2>1, <2>2 DEF Writing
<1>4. CASE LoadForUpdate(c, old)
  <2> DEFINE new == Updated(old, task[c].id, task[c].version, task[c].replace, Keep)
  <2>1. task[c].id \in Ids /\ old[task[c].id] # Nil
    BY <1>2, <1>4 DEF LoadForUpdate, Externals
  <2>2. DOMAIN new = Ids /\ ValidLock(new)
    BY <1>1, <2>1, UpdateValid
  <2>3. \E record, p : p \in Writing /\ Loaded(c, new, record, p)
    BY <1>4 DEF LoadForUpdate, Writing
  <2>4. QED
    BY <2>2, <2>3
<1>5. CASE LoadForRemove(c, old)
  <2> DEFINE new == [old EXCEPT ![task[c].id] = Nil]
  <2>1. DOMAIN new = Ids /\ ValidLock(new)
    BY <1>1, <1>2, <1>5, RemoveValid DEF LoadForRemove
  <2>2. \E record : Loaded(c, new, record, "lock")
    BY <1>5 DEF LoadForRemove
  <2>3. QED
    BY <2>1, <2>2 DEF Writing
<1>6. CASE LoadForBuild(c, old)
  <2>1. \E record, p : p \in Writing /\ Loaded(c, old, record, p)
    BY <1>6 DEF LoadForBuild, Writing
  <2>2. QED
    BY <1>1, <2>1
<1>7. QED
  BY <1>3, <1>4, <1>5, <1>6 DEF LoadLock, old

\* Reading the lock.
LEMMA LoadKeeps ==
  ASSUME LockInv, NEW c \in Commands, LoadLock(c)
  PROVE  LockInv'
<1>1. phase[c] = "load"
  BY DEF LoadLock
<1>2. PICK lock, record, p :
        /\ DOMAIN lock = Ids /\ ValidLock(lock) /\ p \in Writing
        /\ Loaded(c, lock, record, p)
  BY <1>1, PlannedValid
<1>3. /\ phase'[c] = p /\ plan'[c] = lock
      /\ snap' = snap /\ task' = task /\ disk' = disk
  BY <1>2 DEF LockInv, Shape, Loaded, Goto
<1>4. Shape'
  BY <1>2 DEF LockInv, Shape, Loaded, Goto
<1>5. ASSUME NEW d \in Commands \ {c} PROVE LocksInHand(d)'
  <2>1. phase'[d] = phase[d] /\ plan'[d] = plan[d]
    BY <1>2, <1>5 DEF LockInv, Shape, Loaded, Goto
  <2>2. QED
    BY <1>3, <2>1 DEF LockInv, LocksInHand, Ongoing, Remembers, LockFile, Load,
                      ValidLock, NoPlugins
<1>6. LocksInHand(c)'
  BY <1>1, <1>2, <1>3 DEF LockInv, LocksInHand, Ongoing, Remembers, LockFile, Load,
                          ValidLock, NoPlugins, Writing
<1>7. LockFile(disk["lock"])'
  BY <1>3 DEF LockInv, LockFile, Load, ValidLock, NoPlugins
<1>8. QED
  BY <1>4, <1>5, <1>6, <1>7 DEF LockInv

\* What a step of c has to do with the files.
DiskSafe ==
  DOMAIN disk' = Files /\ DOMAIN alone' = Processes /\ LockFile(disk'["lock"])

\* Writing anything but the lock is safe, as is writing a valid lock, or nothing.
LEMMA SafeWrite ==
  ASSUME LockInv, NEW c, NEW f, NEW content,
         Write(c, f, content) \/ UNCHANGED <<disk, alone>>,
         f = "lock" => LockFile(content)
  PROVE  DiskSafe
<1>1. Shape /\ LockFile(disk["lock"])
  BY DEF LockInv
<1>2. CASE Write(c, f, content)
  BY <1>1, <1>2, WriteLock DEF DiskSafe
<1>3. CASE UNCHANGED <<disk, alone>>
  BY <1>1, <1>3 DEF DiskSafe, Shape
<1>4. QED
  BY <1>2, <1>3

\* A step of c from one writing phase to another.
LEMMA Moving ==
  ASSUME LockInv, NEW c \in Commands, phase[c] \in Writing, NEW p \in Writing,
         Goto(c, p), UNCHANGED <<task, plan, snap, left, clean>>, DiskSafe
  PROVE  LockInv'
<1>1. DOMAIN phase' = Commands /\ \A d \in Commands : LocksInHand(d)'
  BY Onward DEF Writing
<1>2. Shape'
  BY <1>1 DEF LockInv, Shape, DiskSafe
<1>3. QED
  BY <1>1, <1>2 DEF LockInv, DiskSafe, LockFile, Load, ValidLock, NoPlugins

\* A step that ends c's command.
LEMMA EndingKeeps ==
  ASSUME LockInv, NEW c \in Commands, NEW r, End(c, r), DiskSafe
  PROVE  LockInv'
<1>1. Shape'
  BY Ending DEF Shape, DiskSafe
<1>2. QED
  BY <1>1, Ending DEF LockInv, DiskSafe, LockFile, Load, ValidLock, NoPlugins

LEMMA HostKeeps ==
  ASSUME LockInv, NEW c \in Commands, HostStep(c)
  PROVE  LockInv'
<1>1. CASE SaveLock(c)
  <2>1. LockFile(plan[c])
    BY LoadValid DEF LockInv, LocksInHand
  <2>2. DiskSafe
    BY <1>1, <2>1, SafeWrite DEF SaveLock
  <2>3. QED
    BY <1>1, <2>2, Moving DEF SaveLock, Writing
<1>2. CASE RenderGen(c)
  <2>1. DiskSafe
    BY <1>2, SafeWrite DEF RenderGen
  <2>2. QED
    BY <1>2, <2>1, Moving DEF RenderGen, Writing
<1>3. CASE RenderMain(c)
  <2>1. DiskSafe
    BY <1>3, SafeWrite DEF RenderMain
  <2>2. QED
    BY <1>3, <2>1, Moving DEF RenderMain, Writing
<1>4. CASE RenderGoMod(c)
  <2>1. DiskSafe
    BY <1>4, SafeWrite DEF RenderGoMod
  <2>2. PICK p \in Writing : Goto(c, p)
    BY <1>4 DEF RenderGoMod, Writing
  <2>3. QED
    BY <1>4, <2>1, <2>2, Moving DEF RenderGoMod, Writing
<1>5. QED
  BY <1>1, <1>2, <1>3, <1>4 DEF HostStep

LEMMA GoModKeeps ==
  ASSUME LockInv, NEW c \in Commands, GoModStep(c)
  PROVE  LockInv'
<1>1. CASE EditRequire(c)
  <2>1. DiskSafe
    BY <1>1, SafeWrite DEF EditRequire, EditGoMod
  <2>2. QED
    BY <1>1, <2>1, Moving DEF EditRequire, Writing
<1>2. CASE EditReplace(c)
  <2>1. DiskSafe
    BY <1>2, SafeWrite DEF EditReplace, EditGoMod
  <2>2. CASE End(c, "ok")
    BY <2>1, <2>2, EndingKeeps
  <2>3. CASE ~End(c, "ok")
    <3>1. PICK p \in Writing : Goto(c, p) /\ UNCHANGED <<task, plan, snap, left, clean>>
      BY <1>2, <2>3 DEF EditReplace, AfterReplace, Writing, locals
    <3>2. QED
      BY <1>2, <2>1, <3>1, Moving DEF EditReplace, Writing
  <2>4. QED
    BY <2>2, <2>3
<1>3. CASE DropRequire(c)
  <2>1. DiskSafe
    BY <1>3, SafeWrite DEF DropRequire, EditGoMod
  <2>2. QED
    BY <1>3, <2>1, Moving DEF DropRequire, Writing
<1>4. CASE DropReplace(c)
  <2>1. DiskSafe
    BY <1>4, SafeWrite DEF DropReplace, EditGoMod
  <2>2. QED
    BY <1>4, <2>1, Moving DEF DropReplace, Writing
<1>5. QED
  BY <1>1, <1>2, <1>3, <1>4 DEF GoModStep

LEMMA EntryKeeps ==
  ASSUME LockInv, NEW c \in Commands, EntryStep(c)
  PROVE  LockInv'
<1>1. CASE CreateConfig(c) \/ FillConfig(c)
  <2>1. DiskSafe
    BY <1>1, SafeWrite DEF CreateConfig, FillConfig
  <2>2. PICK p \in Writing : Goto(c, p)
    BY <1>1 DEF CreateConfig, FillConfig, Writing
  <2>3. QED
    BY <1>1, <2>1, <2>2, Moving DEF CreateConfig, FillConfig, Writing
<1>2. phase[c] = "entry" /\ task[c].kind \in {"add", "remove"} => task[c].id # "lock"
  BY FilesAssumption DEF LockInv, LocksInHand, Ongoing, HostFiles
<1>3. CASE EnsureEntry(c)
  <2>1. DiskSafe
    BY <1>2, <1>3, SafeWrite DEF EnsureEntry
  <2>2. QED
    BY <1>3, <2>1, EndingKeeps DEF EnsureEntry
<1>4. CASE RemoveEntry(c)
  <2>1. DiskSafe
    BY <1>2, <1>4, SafeWrite DEF RemoveEntry
  <2>2. QED
    BY <1>4, <2>1, EndingKeeps DEF RemoveEntry
<1>5. QED
  BY <1>1, <1>3, <1>4 DEF EntryStep

LEMMA BuildKeeps ==
  ASSUME LockInv, NEW c \in Commands, BuildStep(c)
  PROVE  LockInv'
<1>1. CASE SyncFramework(c)
  <2>1. DiskSafe
    BY <1>1 DEF SyncFramework, DiskSafe, LockInv, Shape
  <2>2. QED
    BY <1>1, <2>1, Moving DEF SyncFramework, Writing
<1>2. CASE NextModule(c)
  <2>1. DiskSafe
    BY <1>2 DEF NextModule, DiskSafe, LockInv, Shape
  <2>2. PICK p \in Writing : Goto(c, p)
    BY <1>2 DEF NextModule, Writing
  <2>3. QED
    BY <1>2, <2>1, <2>2, Moving DEF NextModule, Writing
<1>3. CASE Tidy(c)
  <2>1. DiskSafe
    BY <1>3, SafeWrite DEF Tidy
  <2>2. QED
    BY <1>3, <2>1, Moving DEF Tidy, Writing
<1>4. CASE Compile(c)
  <2>1. DiskSafe
    BY <1>4 DEF Compile, DiskSafe, LockInv, Shape
  <2>2. QED
    BY <1>4, <2>1, EndingKeeps DEF Compile
<1>5. QED
  BY <1>1, <1>2, <1>3, <1>4 DEF BuildStep

\* A step that fails starts the roll back of what has been remembered.
LEMMA FailsKeeps ==
  ASSUME LockInv, NEW c \in Commands, phase[c] \in Writing, Fails(c)
  PROVE  LockInv'
<1>1. DiskSafe
  BY DEF Fails, DiskSafe, LockInv, Shape
<1>2. CASE End(c, "failed")
  BY <1>1, <1>2, EndingKeeps
<1>3. CASE ~End(c, "failed")
  <2>1. /\ task[c].kind # "build" /\ Goto(c, "rollback")
        /\ UNCHANGED <<task, plan, snap, clean>> /\ DOMAIN left' = Commands
    BY <1>3 DEF Fails, LockInv, Shape
  <2>2. Ongoing(c)
    BY <2>1 DEF Ongoing, Writing
  <2>3. DOMAIN phase' = Commands /\ \A d \in Commands : LocksInHand(d)'
    BY <2>1, <2>2, Onward
  <2>4. Shape'
    BY <1>1, <2>1, <2>3 DEF LockInv, Shape, DiskSafe
  <2>5. QED
    BY <1>1, <2>3, <2>4 DEF LockInv, DiskSafe, LockFile, Load, ValidLock, NoPlugins
<1>4. QED
  BY <1>2, <1>3

\* Putting files back: the lock that comes back was valid when it was remembered.
LEMMA RestoreKeeps ==
  ASSUME LockInv, NEW c \in Commands, Restore(c)
  PROVE  LockInv'
<1>1. phase[c] \in {"rollback", "refill"} /\ Ongoing(c)
  BY DEF Restore, RemoveCreated, Truncate, Refill, RestoreBreaks, LockInv, LocksInHand
<1>2. LockFile(snap[c]["lock"])
  BY <1>1 DEF LockInv, LocksInHand, Remembers
<1>3. DiskSafe
  <2>1. CASE RemoveCreated(c)
    BY <2>1, LoadValid, SafeWrite DEF RemoveCreated
  <2>2. CASE Truncate(c)
    BY <2>2, LoadValid, SafeWrite DEF Truncate
  <2>3. CASE Refill(c)
    BY <2>3, <1>2, SafeWrite DEF Refill
  <2>4. CASE RestoreBreaks(c)
    BY <2>4 DEF RestoreBreaks, DiskSafe, LockInv, Shape
  <2>5. QED
    BY <2>1, <2>2, <2>3, <2>4 DEF Restore
<1>4. DOMAIN left' = Commands /\ DOMAIN clean' = Commands
      /\ UNCHANGED <<task, plan, snap>>
  BY DEF Restore, RemoveCreated, Truncate, Refill, RestoreBreaks, LockInv, Shape
<1>5. DOMAIN phase' = Commands /\ \A d \in Commands : LocksInHand(d)'
  <2>1. CASE RemoveCreated(c)
    BY <2>1 DEF RemoveCreated, LockInv, Shape, LocksInHand, Ongoing, Remembers,
                LockFile, Load, ValidLock, NoPlugins
  <2>2. CASE ~RemoveCreated(c)
    <3>1. PICK p \in {"rollback", "refill"} : Goto(c, p)
      BY <2>2 DEF Restore, Truncate, Refill, RestoreBreaks
    <3>2. QED
      BY <1>1, <1>4, <3>1, Onward
  <2>3. QED
    BY <2>1, <2>2
<1>6. Shape'
  BY <1>3, <1>4, <1>5 DEF LockInv, Shape, DiskSafe
<1>7. QED
  BY <1>3, <1>5, <1>6 DEF LockInv, DiskSafe, LockFile, Load, ValidLock, NoPlugins

\* Every step of a command.
LEMMA CommandKeeps ==
  ASSUME LockInv, NEW c \in Commands, CommandStep(c)
  PROVE  LockInv'
<1>1. CASE StartAdd(c) \/ StartUpdate(c) \/ StartRemove(c) \/ StartBuild(c)
  <2>1. phase[c] = "idle"
    BY <1>1 DEF StartAdd, StartUpdate, StartRemove, StartBuild, Ready
  <2>2. \E t, p : /\ Start(c, t, p)
                  /\ \/ t.kind # "build" /\ t.id \in Ids /\ p = "snapshot"
                     \/ t.kind = "build" /\ p = "load"
    <3>1. CASE StartAdd(c)
      BY <3>1 DEF StartAdd
    <3>2. CASE StartUpdate(c)
      BY <3>2 DEF StartUpdate, Externals
    <3>3. CASE StartRemove(c)
      BY <3>3 DEF StartRemove
    <3>4. CASE StartBuild(c)
      BY <3>4 DEF StartBuild
    <3>5. QED
      BY <1>1, <3>1, <3>2, <3>3, <3>4
  <2>3. QED
    BY <2>1, <2>2, Starting
<1>2. CASE Refuse(c) \/ Break(c)
  <2>1. phase[c] \in Writing /\ Fails(c)
    BY <1>2 DEF Refuse, Refused, Break, Writing
  <2>2. QED
    BY <2>1, FailsKeeps
<1>3. CASE RolledBack(c) \/ Crash(c)
  <2>1. DiskSafe /\ \E r : End(c, r)
    BY <1>3 DEF RolledBack, Crash, DiskSafe, LockInv, Shape
  <2>2. QED
    BY <2>1, EndingKeeps
<1>4. QED
  BY <1>1, <1>2, <1>3, SnapshotKeeps, RememberKeeps, LoadKeeps, HostKeeps, GoModKeeps,
     EntryKeeps, BuildKeeps, RestoreKeeps DEF CommandStep

\* Editors only write entries.
LEMMA EditorKeeps ==
  ASSUME LockInv, NEW e \in Editors, Editor(e)
  PROVE  LockInv'
<1>1. UNCHANGED <<phase, task, plan, snap, left, clean>>
  BY DEF Editor, commandVars
<1>2. DiskSafe
  <2>1. CASE SaveEntry(e)
    <3>1. PICK i \in Ids : Write(e, i, changed[e][i])
      BY <2>1 DEF SaveEntry
    <3>2. i # "lock"
      BY FilesAssumption DEF HostFiles
    <3>3. QED
      BY <3>1, <3>2, SafeWrite
  <2>2. CASE ~SaveEntry(e)
    <3>1. disk' = disk /\ DOMAIN alone' = Processes
      BY <2>2 DEF Editor, EditorStep, AskHost, AskConfig, AskEnabled, AskSync, Ask,
                  Acquire, ReadEntry, ReadFails, ReadAll, SaveFails, Saved, Finish,
                  LockInv, Shape
    <3>2. QED
      BY <3>1 DEF DiskSafe, LockInv, Shape
  <2>3. QED
    BY <2>1, <2>2
<1>3. Shape'
  BY <1>1, <1>2 DEF DiskSafe, LockInv, Shape
<1>4. QED
  BY <1>1, <1>2, <1>3 DEF LockInv, DiskSafe, LocksInHand, Ongoing, Remembers, LockFile,
                          Load, ValidLock, NoPlugins

\* The directory starts with a valid lock, or with none.
LEMMA InitLockInv == Init => LockInv
<1> SUFFICES ASSUME Init PROVE LockInv
  OBVIOUS
<1>1. DOMAIN disk = Files /\ LockFile(disk["lock"])
  <2>1. CASE \E l \in Locks0, e \in Entries0 : disk = Directory(l, e)
    <3>1. PICK l \in Locks0, e \in Entries0 : disk = Directory(l, e)
      BY <2>1
    <3>2. DOMAIN l = Ids /\ ValidLock(l)
      BY ProjectAssumption DEF Locks
    <3>3. DOMAIN disk = Files /\ disk["lock"] = l
      BY <3>1 DEF Directory, Files, HostFiles
    <3>4. QED
      BY <3>2, <3>3, LoadValid
  <2>2. CASE \E x : disk = EmptyDirectory(x)
    BY <2>2, LoadValid DEF EmptyDirectory, Files, HostFiles
  <2>3. QED
    BY <2>1, <2>2 DEF Init
<1>2. Shape
  BY <1>1 DEF Init, CommandsInit, Shape
<1>3. ASSUME NEW c \in Commands PROVE LocksInHand(c)
  BY NoPluginsValid DEF Init, CommandsInit, LocksInHand, Ongoing, Remembers
<1>4. QED
  BY <1>1, <1>2, <1>3 DEF LockInv

\* Every step keeps the invariant.
LEMMA NextLockInv == LockInv /\ [Next]_vars => LockInv'
<1> SUFFICES ASSUME LockInv, [Next]_vars PROVE LockInv'
  OBVIOUS
<1>1. CASE Next
  BY <1>1, CommandKeeps, EditorKeeps DEF Next, Command
<1>2. CASE UNCHANGED vars
  BY <1>2 DEF vars, commandVars, LockInv, Shape, LocksInHand, Ongoing, Remembers,
              LockFile, Load, ValidLock, NoPlugins
<1>3. QED
  BY <1>1, <1>2

\* plugins.lock never names two sources of one module, whatever commands run at
\* the same time, fail, are rolled back or crash, and no command is refused when it
\* saves a lock it has worked out (plugin_lock_io.go:31, 42).
THEOREM LockAlwaysValid == Spec => []LockValid
<1>1. LockInv => LockValid
  BY DEF LockInv, LockFile, LocksInHand, LockValid
<1>2. QED
  BY <1>1, InitLockInv, NextLockInv, PTL DEF Spec

-----------------------------------------------------------------------------
(* Why HostUpdatesKept holds. *)

\* What an entry's file can hold.
EntryFiles == Documents \cup {Nil, Empty}

\* On disk, among the files a command remembers, and in an editor's hands.
EntriesSound ==
  /\ \A i \in Ids : disk[i] \in EntryFiles
  /\ \A c \in Commands : Remembers(c) => \A i \in Ids : snap[c][i] \in EntryFiles
  /\ \A e \in Editors : DOMAIN changed[e] = Ids /\ \A i \in Ids : changed[e][i] \in Documents \cup {Nil}

EditorShape ==
  /\ DOMAIN stage = Editors /\ DOMAIN edit = Editors /\ DOMAIN op = Editors
  /\ DOMAIN unread = Editors /\ DOMAIN changed = Editors /\ DOMAIN blind = Editors

\* An editor has something in its hands only at work.
InHand(e) ==
  /\ edit[e].value \in Nodes /\ edit[e].path \in KeyPaths
  /\ stage[e] \in {"idle", "wait", "read", "save"}
  /\ stage[e] \in {"idle", "wait"} => ~blind[e] /\ \A i \in Ids : changed[e][i] = Nil
  /\ stage[e] = "idle" => ~edit[e].host

\* A goroutine of the host has one entry to read and to write, and the mutex
\* from before the one until after the other.
HostAlone(e) ==
  edit[e].host =>
    /\ op[e] = edit[e].kind /\ edit[e].kind \in {"set", "reset"}
    /\ edit[e].id \in Ids /\ edit[e].path \in KeyPaths
    /\ unread[e] \subseteq {edit[e].id}
    /\ \A i \in Ids : changed[e][i] # Nil => i = edit[e].id
    /\ unread[e] # {} => \A i \in Ids : changed[e][i] = Nil
    /\ stage[e] = "save" => unread[e] = {}
    /\ stage[e] \in {"read", "save"} => holder = e

\* The document it is going to write has what it was asked for, and everything
\* that the host has set elsewhere in the entry.
DraftHolds(e) ==
  edit[e].host => \A i \in Ids : changed[e][i] # Nil =>
    /\ \A f \in kept : f.id = i /\ ~Comparable(f.path, edit[e].path) =>
         changed[e][i].config[f.path] = f.value
    /\ edit[e].kind = "set" /\ ~blind[e] =>
         changed[e][i].config[edit[e].path] = edit[e].value

KeptSound == \A f \in kept : f.id \in Ids /\ f.path \in KeyPaths

HostInv ==
  /\ EntriesSound /\ EditorShape /\ KeptSound /\ HostUpdatesKept
  /\ \A e \in Editors : InHand(e) /\ HostAlone(e) /\ DraftHolds(e)

\* The nodes above a node: shorter paths, which begin as its path does.
LEMMA AboveMeans ==
  ASSUME NEW q \in KeyPaths, NEW p \in KeyPaths
  PROVE  q \in Above[p] <=>
           q # p /\ Len(q) <= Len(p) /\ \A k \in 1 .. Len(q) : q[k] = p[k]
<1>1. q \in Above[p] <=>
        q # p /\ Len(q) <= Len(p) /\ SubSeq(q, 1, Len(q)) = SubSeq(p, 1, Len(q))
  BY DEF Above, IsStrictPrefix, IsPrefix
<1>2. q \in Seq(STRING) /\ p \in Seq(STRING)
  BY ConfigDocsAssumption
<1> QED BY <1>1, <1>2

LEMMA AboveShorter ==
  ASSUME NEW p \in KeyPaths, NEW q \in Above[p]
  PROVE  q \in KeyPaths /\ Len(q) \in Nat /\ Len(p) \in Nat /\ Len(q) < Len(p)
<1>1. q \in KeyPaths
  BY DEF Above
<1>2. q \in Seq(STRING) /\ p \in Seq(STRING)
  BY <1>1, ConfigDocsAssumption
<1>3. Len(q) = Len(p) => q = p
  BY <1>1, <1>2, AboveMeans
<1> QED BY <1>1, <1>2, <1>3, AboveMeans

\* They are a chain: what is above a node above p is above p, ...
LEMMA AboveTrans ==
  ASSUME NEW p \in KeyPaths, NEW q \in Above[p], NEW r \in Above[q]
  PROVE  r \in Above[p]
<1>1. q \in KeyPaths /\ r \in KeyPaths
  BY AboveShorter
<1>2. /\ Len(r) \in Nat /\ Len(q) \in Nat /\ Len(p) \in Nat
      /\ Len(r) < Len(q) /\ Len(q) < Len(p)
  BY <1>1, AboveShorter
<1>3. /\ \A k \in 1 .. Len(r) : r[k] = q[k]
      /\ \A k \in 1 .. Len(q) : q[k] = p[k]
  BY <1>1, AboveMeans
<1>4. \A k \in 1 .. Len(r) : r[k] = p[k]
  BY <1>2, <1>3
<1>5. r # p
  BY <1>2
<1> QED BY <1>1, <1>2, <1>4, <1>5, AboveMeans

\* ... and of two nodes above p one is above the other.
LEMMA AboveLinear ==
  ASSUME NEW p \in KeyPaths, NEW q \in Above[p], NEW r \in Above[p], q # r
  PROVE  q \in Above[r] \/ r \in Above[q]
<1>1. q \in KeyPaths /\ r \in KeyPaths
  BY AboveShorter
<1>2. /\ Len(r) \in Nat /\ Len(q) \in Nat /\ Len(p) \in Nat
      /\ Len(r) < Len(p) /\ Len(q) < Len(p)
  BY <1>1, AboveShorter
<1>3. /\ \A k \in 1 .. Len(r) : r[k] = p[k]
      /\ \A k \in 1 .. Len(q) : q[k] = p[k]
  BY <1>1, AboveMeans
<1>4. CASE Len(q) <= Len(r)
  <2>1. \A k \in 1 .. Len(q) : q[k] = r[k]
    BY <1>2, <1>3, <1>4
  <2> QED BY <1>1, <1>4, <2>1, AboveMeans
<1>5. CASE Len(r) <= Len(q)
  <2>1. \A k \in 1 .. Len(r) : r[k] = q[k]
    BY <1>2, <1>3, <1>5
  <2> QED BY <1>1, <1>5, <2>1, AboveMeans
<1> QED BY <1>2, <1>4, <1>5

LEMMA RootAbove == Above[<<>>] = {} /\ \A p \in KeyPaths : p # <<>> => <<>> \in Above[p]
<1>1. <<>> \in KeyPaths /\ Len(<<>>) = 0
  BY ConfigDocsAssumption
<1>2. ASSUME NEW q \in Above[<<>>] PROVE FALSE
  BY <1>1, AboveShorter
<1>3. ASSUME NEW p \in KeyPaths, p # <<>> PROVE <<>> \in Above[p]
  <2>1. Len(p) \in Nat
    BY ConfigDocsAssumption
  <2> QED BY <1>1, <1>3, <2>1, AboveMeans
<1> QED BY <1>2, <1>3

\* Below is the other direction, and no node is above itself.
LEMMA BelowMeans ==
  ASSUME NEW p \in KeyPaths, NEW q \in KeyPaths
  PROVE  (q \in Below[p] <=> p \in Above[q]) /\ p \notin Above[p]
BY DEF Above, Below, IsStrictPrefix

\* A tree by its nodes.
LEMMA TreeMeans ==
  \A t : t \in Trees <=>
    /\ t \in [KeyPaths -> Nodes]
    /\ \A q \in KeyPaths : \A a \in Above[q] : t[q] # Missing => t[a] = Map
BY DEF Trees

\* Setting, removing and filling in make trees of trees.
LEMMA PutTree ==
  ASSUME NEW t \in Trees, NEW p \in KeyPaths, NEW v \in Nodes
  PROVE  Put(t, p, v) \in Trees
<1> DEFINE n == Put(t, p, v)
<1>1. t \in [KeyPaths -> Nodes]
      /\ \A q \in KeyPaths : \A a \in Above[q] : t[q] # Missing => t[a] = Map
  BY TreeMeans
<1>2. n \in [KeyPaths -> Nodes]
  BY <1>1 DEF Put, Nodes
<1>3. ASSUME NEW q \in KeyPaths, NEW a \in Above[q], n[q] # Missing PROVE n[a] = Map
  <2>1. a \in KeyPaths /\ a # q
    BY AboveShorter, BelowMeans
  <2>2. n[q] = IF q = p THEN v ELSE IF q \in Above[p] THEN Map
               ELSE IF q \in Below[p] THEN Missing ELSE t[q]
    BY DEF Put
  <2>3. n[a] = IF a = p THEN v ELSE IF a \in Above[p] THEN Map
               ELSE IF a \in Below[p] THEN Missing ELSE t[a]
    BY <2>1 DEF Put
  <2>4. a = p => q \in Below[p]
    BY BelowMeans
  <2>5. q \in Above[p] => a \in Above[p]
    BY AboveTrans
  <2>6. a \in Below[p] => q \in Below[p]
    BY <2>1, AboveTrans, BelowMeans
  <2>7. q \in Below[p] => q \notin Above[p] /\ q # p
    BY AboveTrans, BelowMeans
  <2> HIDE DEF n
  <2> QED BY <1>1, <1>3, <2>1, <2>2, <2>3, <2>4, <2>5, <2>6, <2>7
<1> HIDE DEF n
<1>4. n \in Trees
  BY <1>2, <1>3, TreeMeans
<1> QED BY <1>4 DEF n

LEMMA CutTree ==
  ASSUME NEW t \in Trees, NEW p \in KeyPaths
  PROVE  Cut(t, p) \in Trees
<1> DEFINE n == Cut(t, p)
           kin == {p} \cup Above[p] \cup Below[p]
           others(q) == \E r \in Below[q] \ kin : t[r] # Missing
<1>1. t \in [KeyPaths -> Nodes]
      /\ \A q \in KeyPaths : \A a \in Above[q] : t[q] # Missing => t[a] = Map
  BY TreeMeans
<1>2. n \in [KeyPaths -> Nodes]
  BY <1>1 DEF Cut, Nodes
<1>3. \A q \in KeyPaths :
        n[q] = IF q = p \/ q \in Below[p] THEN Missing
               ELSE IF q \in Above[p] \ {<<>>} /\ ~others(q) THEN Missing
               ELSE t[q]
  BY DEF Cut
<1>4. ASSUME NEW q \in KeyPaths, NEW a \in Above[q], n[q] # Missing PROVE n[a] = Map
  <2> HIDE DEF n, others
  <2>1. a \in KeyPaths /\ q \in Below[a]
    BY AboveShorter, BelowMeans
  <2>2. q # p /\ q \notin Below[p] /\ n[q] = t[q] /\ t[a] = Map
    BY <1>1, <1>3, <1>4
  <2>3. a # p /\ a \notin Below[p]
    BY <2>1, <2>2, AboveTrans, BelowMeans
  <2>4. ASSUME a \in Above[p] PROVE others(a)
    <3>1. CASE q \in Above[p]
      <4>1. q # <<>>
        BY RootAbove
      <4>2. others(q)
        BY <1>3, <1>4, <2>2, <3>1, <4>1
      <4>3. PICK r \in Below[q] \ kin : t[r] # Missing
        BY <4>2 DEF others
      <4>4. r \in KeyPaths
        BY DEF Below
      <4>5. q \in Above[r]
        BY <4>3, <4>4, BelowMeans
      <4>6. a \in Above[r]
        BY <4>4, <4>5, AboveTrans
      <4>7. r \in Below[a]
        BY <2>1, <4>4, <4>6, BelowMeans
      <4> QED BY <4>3, <4>7 DEF others
    <3>2. CASE q \notin Above[p]
      BY <1>4, <2>1, <2>2, <3>2 DEF others
    <3> QED BY <3>1, <3>2
  <2> QED BY <1>3, <2>1, <2>2, <2>3, <2>4
<1> HIDE DEF n
<1>5. n \in Trees
  BY <1>2, <1>4, TreeMeans
<1> QED BY <1>5 DEF n

LEMMA MergeTree ==
  ASSUME NEW t \in Trees, NEW d \in Trees
  PROVE  Merge(t, d) \in Trees
<1> DEFINE n == Merge(t, d)
           filled(q) == \E r \in Above[q] \cup {q} : Fills(t, d, r)
<1>1. /\ t \in [KeyPaths -> Nodes] /\ d \in [KeyPaths -> Nodes]
      /\ \A q \in KeyPaths : \A a \in Above[q] : t[q] # Missing => t[a] = Map
      /\ \A q \in KeyPaths : \A a \in Above[q] : d[q] # Missing => d[a] = Map
  BY TreeMeans
<1>2. n \in [KeyPaths -> Nodes]
  BY <1>1 DEF Merge
<1>3. \A q \in KeyPaths : n[q] = IF filled(q) THEN d[q] ELSE t[q]
  BY DEF Merge
<1>4. ASSUME NEW q \in KeyPaths, NEW a \in Above[q], n[q] # Missing PROVE n[a] = Map
  <2> HIDE DEF n
  <2>1. a \in KeyPaths
    BY AboveShorter
  <2>2. n[a] = IF filled(a) THEN d[a] ELSE t[a]
    BY <1>3, <2>1
  <2>3. filled(a) => filled(q)
    BY AboveTrans
  <2>4. CASE filled(q)
    <3>1. d[a] = Map
      BY <1>1, <1>3, <1>4, <2>4
    <3>2. ASSUME ~filled(a) PROVE t[a] = Map
      <4>1. PICK r \in Above[q] \cup {q} : Fills(t, d, r)
        BY <2>4
      <4>2. r # a /\ r \notin Above[a]
        BY <3>2, <4>1
      <4>3. a \in Above[r]
        BY <4>2, AboveLinear
      <4> QED BY <4>1, <4>3 DEF Fills
    <3> QED BY <2>2, <3>1, <3>2
  <2>5. CASE ~filled(q)
    BY <1>1, <1>3, <1>4, <2>2, <2>3, <2>5
  <2> QED BY <2>4, <2>5
<1> HIDE DEF n
<1>5. n \in Trees
  BY <1>2, <1>4, TreeMeans
<1> QED BY <1>5 DEF n

LEMMA NewDocuments == FreshDocument \in Documents /\ Braces \in Documents
<1>1. Hollow \in Trees
  BY TreeMeans DEF Hollow, Nodes
<1>2. EmptyConfig \in Trees
  <2>1. EmptyConfig = [q \in KeyPaths |-> IF q = <<>> THEN Map ELSE Missing]
    BY ConfigDocsAssumption DEF EmptyConfig, Hollow
  <2>2. \A q \in KeyPaths : \A a \in Above[q] : EmptyConfig[q] # Missing => EmptyConfig[a] = Map
    BY <2>1, RootAbove
  <2> QED BY <2>1, <2>2, TreeMeans DEF Nodes
<1> QED BY <1>1, <1>2 DEF FreshDocument, Braces, Documents

LEMMA DocumentRead ==
  ASSUME NEW file \in EntryFiles PROVE Document(file) \in Documents
BY NewDocuments DEF Document, EntryFiles

LEMMA ChangeDocument ==
  ASSUME NEW e \in Editors, edit[e].value \in Nodes, edit[e].path \in KeyPaths,
         NEW i \in Ids, NEW file \in EntryFiles
  PROVE  Change(e, i, file) \in Documents \cup {Nil}
<1> DEFINE doc == Document(file)
<1>1. doc \in Documents
  BY DocumentRead
<1> HIDE DEF doc
<1>2. WithPath(e, doc) \in Documents
  BY <1>1, PutTree, CutTree DEF WithPath, Documents
<1>3. WithEnabled(e, doc) \in Documents
  BY <1>1 DEF WithEnabled, Documents
<1>4. Default[i] \in Trees
  BY EditorsAssumption
<1>5. Filled(doc, Default[i]) \in Documents
  BY <1>1, <1>4, MergeTree DEF Filled, FillEnabled, Documents
<1>6. \A new \in Documents : Reached(file, new) \in Documents
  BY NewDocuments DEF Reached
<1> QED
  BY <1>2, <1>3, <1>5, <1>6 DEF Change, doc

\* Such a document is one: neither no file nor an empty one.
LEMMA DocumentsAreWritten == \A d \in Documents : Written(d)
BY FilesAssumption DEF Documents, Trees, Written

\* What lies elsewhere in a document stays when a path is set or removed.
LEMMA ElsewhereStays ==
  ASSUME NEW t, NEW q, NEW v, NEW r \in KeyPaths, ~Comparable(r, q)
  PROVE  Put(t, q, v)[r] = t[r] /\ Cut(t, q)[r] = t[r]
BY DEF Comparable, Put, Cut

\* A write of a file that is no entry's leaves the entries alone.
LEMMA HostFileWrite ==
  ASSUME Shape, NEW c, NEW f \in HostFiles, NEW content, Write(c, f, content)
  PROVE  \A i \in Ids : disk'[i] = disk[i]
BY FilesAssumption DEF Shape, Write, Files, HostFiles

\* ... and one of any file changes no other.
LEMMA AnyWrite ==
  ASSUME Shape, NEW c, NEW f, NEW content, Write(c, f, content)
  PROVE  \A i \in Ids : disk'[i] = disk[i] \/ disk'[i] = content
BY DEF Shape, Write, Files

\* What a command makes of an entry: it deletes it, empties it, begins a new one
\* or puts back what it remembers.
LEMMA CommandEntries ==
  ASSUME LockInv, NEW c \in Commands, CommandStep(c), NEW i \in Ids
  PROVE  \/ disk'[i] \in {disk[i], Nil, Empty, FreshDocument}
         \/ Remembers(c) /\ disk'[i] = snap[c][i]
<1> USE DEF LockInv
<1>1. CASE HostStep(c)
  BY <1>1, HostFileWrite DEF HostStep, SaveLock, RenderGen, RenderMain, RenderGoMod, HostFiles
<1>2. CASE GoModStep(c) \/ Tidy(c)
  BY <1>2, HostFileWrite
  DEF GoModStep, EditRequire, EditReplace, DropRequire, DropReplace, EditGoMod, Tidy, HostFiles
<1>3. CASE CreateConfig(c) \/ FillConfig(c)
  BY <1>3, HostFileWrite DEF CreateConfig, FillConfig, HostFiles
<1>4. CASE EnsureEntry(c) \/ RemoveEntry(c)
  BY <1>4, AnyWrite DEF EnsureEntry, RemoveEntry
<1>5. CASE RemoveCreated(c) \/ Truncate(c)
  BY <1>5, AnyWrite DEF RemoveCreated, Truncate
<1>6. CASE Refill(c)
  <2>1. Remembers(c)
    BY <1>6 DEF Refill, LocksInHand, Remembers
  <2>2. Write(c, Restoring(c), snap[c][Restoring(c)])
    BY <1>6 DEF Refill
  <2>3. disk'[i] = disk[i] \/ disk'[i] = snap[c][i]
    BY <2>2 DEF Shape, Write, Files
  <2> QED BY <2>1, <2>3
<1>7. CASE disk' = disk
  BY <1>7
<1>8. ASSUME StartAdd(c) \/ StartUpdate(c) \/ StartRemove(c) \/ StartBuild(c) \/ Snapshot(c)
             \/ Remember(c) \/ LoadLock(c) \/ SyncFramework(c) \/ NextModule(c) \/ Compile(c)
             \/ Refuse(c) \/ Break(c) \/ RestoreBreaks(c) \/ RolledBack(c) \/ Crash(c)
      PROVE  disk' = disk
  BY <1>8 DEF StartAdd, StartUpdate, StartRemove, StartBuild, Start, Snapshot, Remember, LoadLock,
              LoadForAdd, LoadForUpdate, LoadForRemove, LoadForBuild, Loaded, SyncFramework,
              NextModule, Compile, Refuse, Break, Fails, RestoreBreaks, RolledBack, Crash
<1> QED
  BY <1>1, <1>2, <1>3, <1>4, <1>5, <1>6, <1>7, <1>8
  DEF CommandStep, EntryStep, BuildStep, Restore

\* What a command remembers: nothing new but the files as they are.
LEMMA CommandMemory ==
  ASSUME LockInv, NEW c \in Commands, CommandStep(c), NEW d \in Commands, Remembers(d)',
         NEW i \in Ids
  PROVE  \/ snap'[d][i] = disk[i]
         \/ Remembers(d) /\ snap'[d][i] = snap[d][i]
<1> USE DEF LockInv, Shape, Goto
<1>1. CASE Snapshot(c)
  BY <1>1 DEF Snapshot, Remembers, Ongoing
<1>0. CASE Remember(c)
  <2>1. phase[c] = "remember" /\ Remembers(c) /\ DOMAIN snap[c] = Files
    BY <1>0 DEF Remember, LocksInHand, Remembers
  <2>2. i \in Files
    BY DEF Files
  <2>3. /\ \A g \in Files : snap'[c][g] = snap[c][g] \/ snap'[c][g] = disk[g]
        /\ \A k \in Commands \ {c} : snap'[k] = snap[k] /\ phase'[k] = phase[k]
        /\ task' = task
    BY <1>0, <2>1, Remembering
  <2> QED BY <2>1, <2>2, <2>3 DEF Remembers, Ongoing
<1>2. CASE StartAdd(c) \/ StartUpdate(c) \/ StartRemove(c) \/ StartBuild(c)
  <2>1. PICK t, p : Start(c, t, p) /\ (p = "snapshot" \/ t.kind = "build")
    <3>1. CASE StartAdd(c)
      BY <3>1 DEF StartAdd
    <3>2. CASE StartUpdate(c)
      BY <3>2 DEF StartUpdate
    <3>3. CASE StartRemove(c)
      BY <3>3 DEF StartRemove
    <3>4. CASE StartBuild(c)
      BY <3>4 DEF StartBuild
    <3> QED BY <1>2, <3>1, <3>2, <3>3, <3>4
  <2> QED BY <2>1 DEF Start, Remembers, Ongoing
<1>3. CASE \E r : End(c, r)
  BY <1>3 DEF End, Remembers, Ongoing
<1>4. ASSUME UNCHANGED <<task, snap>>, phase[c] \notin {"idle", "snapshot"},
             phase' = phase \/ \E p : Goto(c, p)
      PROVE  Remembers(d) /\ snap'[d] = snap[d]
  BY <1>4 DEF Remembers, Ongoing
<1>5. ASSUME ~(\E r : End(c, r)), LoadLock(c) \/ HostStep(c) \/ GoModStep(c)
      PROVE  UNCHANGED <<task, snap>> /\ phase[c] \notin {"idle", "snapshot"}
             /\ (phase' = phase \/ \E p : Goto(c, p))
  BY <1>5
  DEF LoadLock, LoadForAdd, LoadForUpdate, LoadForRemove, LoadForBuild, Loaded, HostStep, SaveLock,
      RenderGen, RenderMain, RenderGoMod, GoModStep, EditRequire, EditReplace, AfterReplace,
      DropRequire, DropReplace, locals
<1>6. ASSUME ~(\E r : End(c, r)), EntryStep(c) \/ BuildStep(c) \/ Refuse(c) \/ Break(c)
      PROVE  UNCHANGED <<task, snap>> /\ phase[c] \notin {"idle", "snapshot"}
             /\ (phase' = phase \/ \E p : Goto(c, p))
  BY <1>6
  DEF EntryStep, CreateConfig, FillConfig, EnsureEntry, RemoveEntry, BuildStep,
      SyncFramework, NextModule, Tidy,
      Compile, Refuse, Refused, Break, Fails, Writing
<1>7. ASSUME Restore(c)
      PROVE  UNCHANGED <<task, snap>> /\ phase[c] \notin {"idle", "snapshot"}
             /\ (phase' = phase \/ \E p : Goto(c, p))
  BY <1>7 DEF Restore, RemoveCreated, Truncate, Refill, RestoreBreaks
<1> QED
  BY <1>0, <1>1, <1>2, <1>3, <1>4, <1>5, <1>6, <1>7 DEF CommandStep, RolledBack, Crash

LEMMA CommandHostKeeps ==
  ASSUME LockInv, HostInv, NEW c \in Commands, Command(c) PROVE HostInv'
<1> USE DEF HostInv
<1>1. CommandStep(c) /\ kept' = {f \in kept : disk'[f.id] = disk[f.id]}
      /\ UNCHANGED <<stage, edit, op, unread, changed, blind, holder>>
  BY DEF Command
<1>2. EntriesSound'
  <2>1. \A i \in Ids : disk'[i] \in EntryFiles
    BY <1>1, CommandEntries, NewDocuments DEF EntriesSound, EntryFiles
  <2>2. \A d \in Commands : Remembers(d)' => \A i \in Ids : snap'[d][i] \in EntryFiles
    BY <1>1, CommandMemory DEF EntriesSound
  <2> QED BY <1>1, <2>1, <2>2 DEF EntriesSound
<1>3. EditorShape' /\ KeptSound' /\ HostUpdatesKept'
  BY <1>1 DEF EditorShape, KeptSound, HostUpdatesKept, Written
<1>4. ASSUME NEW e \in Editors PROVE InHand(e)' /\ HostAlone(e)' /\ DraftHolds(e)'
  BY <1>1, <1>4 DEF InHand, HostAlone, DraftHolds
<1> QED BY <1>2, <1>3, <1>4

\* What is true of an editor stays true while another one moves.
LEMMA OthersHold ==
  ASSUME HostInv, NEW d \in Editors, kept' \subseteq kept,
         stage'[d] = stage[d], edit'[d] = edit[d], op'[d] = op[d], unread'[d] = unread[d],
         changed'[d] = changed[d], blind'[d] = blind[d],
         holder = d => holder' = d
  PROVE  InHand(d)' /\ HostAlone(d)' /\ DraftHolds(d)'
BY DEF HostInv, InHand, HostAlone, DraftHolds

\* An editor that does not write leaves the entries and what is kept of them.
LEMMA SameFiles ==
  ASSUME LockInv, HostInv, NEW e \in Editors, disk' = disk, kept' = kept,
         UNCHANGED commandVars, EditorShape',
         \A d \in Editors \ {e} :
           /\ stage'[d] = stage[d] /\ edit'[d] = edit[d] /\ op'[d] = op[d]
           /\ unread'[d] = unread[d] /\ changed'[d] = changed[d] /\ blind'[d] = blind[d]
           /\ holder = d => holder' = d,
         DOMAIN changed'[e] = Ids, \A i \in Ids : changed'[e][i] \in Documents \cup {Nil},
         InHand(e)', HostAlone(e)', DraftHolds(e)'
  PROVE  HostInv'
<1>1. EntriesSound'
  BY DEF HostInv, EntriesSound, commandVars, Remembers, Ongoing
<1>2. \A d \in Editors \ {e} : InHand(d)' /\ HostAlone(d)' /\ DraftHolds(d)'
  BY OthersHold
<1> QED BY <1>1, <1>2 DEF HostInv, KeptSound, HostUpdatesKept, Written

\* A task is given to an editor that has nothing in its hands.
LEMMA AskKeeps ==
  ASSUME LockInv, HostInv, NEW e \in Editors, UNCHANGED commandVars,
         NEW t, NEW entries, stage[e] = "idle", Ask(e, t, entries), t.value \in Nodes,
         t.path \in KeyPaths,
         t.host => /\ t.kind \in {"set", "reset"} /\ t.id \in Ids /\ t.path \in KeyPaths
                   /\ entries = {t.id}
  PROVE  HostInv'
<1> USE DEF HostInv
<1>1. /\ edit'[e] = t /\ op'[e] = t.kind /\ unread'[e] = entries /\ changed' = changed
      /\ blind' = blind /\ stage'[e] = IF t.host THEN "wait" ELSE "read"
  BY DEF Ask, EditorShape
<1>2. EditorShape'
  BY DEF Ask, EditorShape
<1>3. InHand(e)' /\ HostAlone(e)' /\ DraftHolds(e)'
  BY <1>1 DEF InHand, HostAlone, DraftHolds
<1>4. DOMAIN changed'[e] = Ids /\ \A i \in Ids : changed'[e][i] \in Documents \cup {Nil}
  BY <1>1 DEF EntriesSound
<1> QED BY <1>2, <1>3, <1>4, SameFiles DEF Ask, EditorShape

LEMMA AsksKeep ==
  ASSUME LockInv, HostInv, NEW e \in Editors, UNCHANGED commandVars,
         AskHost(e) \/ AskConfig(e) \/ AskEnabled(e) \/ AskSync(e)
  PROVE  HostInv'
<1> USE EditorsAssumption, ConfigDocsAssumption DEF Task, SettablePaths, Free, Nodes
<1>1. CASE AskHost(e)
  <2>1. PICK i \in Known, q \in SettablePaths :
          \/ \E v \in Values : Ask(e, Task("set", TRUE, i, q, v), {i})
          \/ Ask(e, Task("reset", TRUE, i, q, Missing), {i})
    BY <1>1 DEF AskHost
  <2> QED BY <1>1, <2>1, AskKeeps DEF AskHost
<1>2. CASE AskConfig(e)
  <2>1. PICK i \in Targets("config"), q \in SettablePaths :
          \/ \E v \in Values : Ask(e, Task("set", FALSE, i, q, v), {i})
          \/ Ask(e, Task("reset", FALSE, i, q, Missing), {i})
    BY <1>2 DEF AskConfig
  <2> QED BY <1>2, <2>1, AskKeeps DEF AskConfig
<1>3. CASE AskEnabled(e)
  <2>1. PICK kind \in {"enable", "disable"} : \E i \in Targets(kind) :
          Ask(e, Task(kind, FALSE, i, <<>>, Missing), {i})
    BY <1>3 DEF AskEnabled
  <2> QED BY <1>3, <2>1, AskKeeps DEF AskEnabled
<1>4. CASE AskSync(e)
  BY <1>4, AskKeeps DEF AskSync
<1> QED BY <1>1, <1>2, <1>3, <1>4

LEMMA AcquireKeeps ==
  ASSUME LockInv, HostInv, NEW e \in Editors, UNCHANGED commandVars, Acquire(e)
  PROVE  HostInv'
<1> USE DEF HostInv
<1>1. EditorShape'
  BY DEF Acquire, EditorShape
<1>2. stage'[e] = "read" /\ holder' = e /\ holder = Nil
      /\ UNCHANGED <<edit, op, unread, changed, blind, disk, kept>>
  BY DEF Acquire, EditorShape
<1>3. InHand(e)' /\ HostAlone(e)' /\ DraftHolds(e)'
  BY <1>2 DEF Acquire, InHand, HostAlone, DraftHolds
<1>4. Nil \notin Editors
  BY EditorsAssumption, ProjectAssumption
<1>5. \A d \in Editors \ {e} : stage'[d] = stage[d]
  BY DEF Acquire, EditorShape
<1> QED BY <1>1, <1>2, <1>3, <1>4, <1>5, SameFiles DEF EntriesSound

\* An editor that ends has nothing left in its hands.
LEMMA FinishKeeps ==
  ASSUME LockInv, HostInv, NEW e \in Editors, UNCHANGED commandVars, Finish(e),
         UNCHANGED <<disk, kept>>
  PROVE  HostInv'
<1> USE DEF HostInv
<1>1. /\ stage'[e] = "idle" /\ edit'[e] = NoEdit /\ changed'[e] = NoChange /\ blind'[e] = FALSE
  BY DEF Finish, EditorShape
<1>2. EditorShape'
  BY DEF Finish, EditorShape
<1>3. InHand(e)' /\ HostAlone(e)' /\ DraftHolds(e)'
  BY <1>1, ConfigDocsAssumption DEF InHand, HostAlone, DraftHolds, NoEdit, NoChange, Nodes
<1>4. DOMAIN changed'[e] = Ids /\ \A i \in Ids : changed'[e][i] \in Documents \cup {Nil}
  BY <1>1 DEF NoChange
<1> QED BY <1>2, <1>3, <1>4, SameFiles DEF Finish, EditorShape

\* What a goroutine of the host makes of the entry it has read.
LEMMA HostChange ==
  ASSUME HostInv, NEW e \in Editors, edit[e].host, NEW i \in Ids, Change(e, i, disk[i]) # Nil
  PROVE  LET new == Change(e, i, disk[i]) IN
         /\ \A f \in kept : f.id = i /\ ~Comparable(f.path, edit[e].path) =>
              new.config[f.path] = f.value
         /\ edit[e].kind = "set" /\ disk[i] # Empty =>
              new.config[edit[e].path] = edit[e].value
<1> USE DEF HostInv
<1> DEFINE new == Change(e, i, disk[i])
           doc == Document(disk[i])
<1>1. op[e] = edit[e].kind /\ op[e] \in {"set", "reset"} /\ edit[e].path \in KeyPaths
  BY DEF HostAlone
<1>2. doc \in Documents
  BY DocumentRead DEF EntriesSound
<1>3. disk[i] # Empty => new = WithPath(e, doc) /\ new # doc
  BY <1>1 DEF Change, Reached
<1> HIDE DEF new, doc
<1>4. ASSUME disk[i] # Empty, edit[e].kind = "set"
      PROVE  new.config = Put(doc.config, edit[e].path, edit[e].value)
  BY <1>1, <1>2, <1>3, <1>4 DEF WithPath, Documents
<1>5. ASSUME disk[i] # Empty, edit[e].kind = "reset"
      PROVE  new.config = Cut(doc.config, edit[e].path)
  BY <1>1, <1>2, <1>3, <1>5 DEF WithPath, Documents
<1>6. ASSUME NEW f \in kept, f.id = i, ~Comparable(f.path, edit[e].path)
      PROVE  new.config[f.path] = f.value
  <2>1. Written(disk[i]) /\ disk[i].config[f.path] = f.value /\ f.path \in KeyPaths
    BY <1>6 DEF HostUpdatesKept, KeptSound
  <2>2. doc = disk[i] /\ disk[i] # Empty
    BY <2>1 DEF Written, Document, doc
  <2> QED BY <1>1, <1>4, <1>5, <1>6, <2>1, <2>2, ElsewhereStays
<1>7. ASSUME edit[e].kind = "set", disk[i] # Empty
      PROVE  new.config[edit[e].path] = edit[e].value
  BY <1>1, <1>4, <1>7 DEF Put
<1> QED BY <1>6, <1>7 DEF new

LEMMA ReadEntryKeeps ==
  ASSUME LockInv, HostInv, NEW e \in Editors, UNCHANGED commandVars, ReadEntry(e)
  PROVE  HostInv'
<1> USE DEF HostInv
<1>1. PICK i \in unread[e] :
        /\ changed' = [changed EXCEPT ![e][i] = Change(e, i, disk[i])]
        /\ blind' = [blind EXCEPT ![e] = @ \/ disk[i] = Empty]
        /\ unread' = [unread EXCEPT ![e] = @ \ {i}]
  BY DEF ReadEntry
<1>2. EditorShape'
  BY DEF ReadEntry, EditorShape
<1>3. stage[e] = "read" /\ UNCHANGED <<disk, stage, edit, op, holder, kept>>
  BY DEF ReadEntry
<1>4. DOMAIN changed'[e] = Ids
      /\ \A j \in Ids : changed'[e][j] = IF j = i THEN Change(e, i, disk[i]) ELSE changed[e][j]
  BY <1>1 DEF EditorShape, EntriesSound
<1>5. \A j \in Ids : changed'[e][j] \in Documents \cup {Nil}
  BY <1>4, ChangeDocument DEF EntriesSound, InHand
<1>6. blind'[e] = (blind[e] \/ disk[i] = Empty) /\ unread'[e] = unread[e] \ {i}
  BY <1>1 DEF EditorShape
<1>7. InHand(e)'
  BY <1>3 DEF InHand
<1>8. HostAlone(e)' /\ DraftHolds(e)'
  <2> SUFFICES ASSUME edit[e].host PROVE HostAlone(e)' /\ DraftHolds(e)'
    BY <1>3 DEF HostAlone, DraftHolds
  <2>1. i = edit[e].id /\ i \in Ids /\ unread'[e] = {} /\ \A j \in Ids : changed[e][j] = Nil
    BY <1>6 DEF HostAlone
  <2>2. \A j \in Ids : changed'[e][j] # Nil => j = i
    BY <1>4, <2>1
  <2>3. HostAlone(e)'
    BY <1>3, <2>1, <2>2 DEF HostAlone
  <2>4. DraftHolds(e)'
    <3>1. CASE changed'[e][i] = Nil
      BY <2>2, <3>1 DEF DraftHolds
    <3>2. CASE changed'[e][i] # Nil
      <4>1. Change(e, i, disk[i]) # Nil /\ changed'[e][i] = Change(e, i, disk[i])
        BY <1>4, <2>1, <3>2
      <4>2. /\ \A f \in kept : f.id = i /\ ~Comparable(f.path, edit[e].path) =>
                 changed'[e][i].config[f.path] = f.value
            /\ edit[e].kind = "set" /\ disk[i] # Empty =>
                 changed'[e][i].config[edit[e].path] = edit[e].value
        BY <2>1, <4>1, HostChange
      <4> QED BY <1>3, <1>6, <2>2, <4>2 DEF DraftHolds
    <3> QED BY <3>1, <3>2
  <2> QED BY <2>3, <2>4
<1>9. \A d \in Editors \ {e} : unread'[d] = unread[d] /\ changed'[d] = changed[d]
                               /\ blind'[d] = blind[d]
  BY <1>1 DEF EditorShape
<1> QED BY <1>2, <1>3, <1>4, <1>5, <1>7, <1>8, <1>9, SameFiles

\* The fields of SaveEntry: another's entry changes, and what is kept of it.
LEMMA SaveEntryKeeps ==
  ASSUME LockInv, HostInv, NEW e \in Editors, UNCHANGED commandVars, SaveEntry(e)
  PROVE  HostInv'
<1> USE DEF HostInv
<1>1. PICK i \in Ids : /\ changed[e][i] # Nil
                       /\ Write(e, i, changed[e][i])
                       /\ changed' = [changed EXCEPT ![e][i] = Nil]
                       /\ kept' = KeptAfter(e, i)
  BY DEF SaveEntry
<1>2. stage[e] = "save" /\ UNCHANGED <<stage, edit, op, unread, blind, holder>>
  BY DEF SaveEntry
<1>3. disk'[i] = changed[e][i] /\ \A j \in Ids \ {i} : disk'[j] = disk[j]
  BY <1>1 DEF LockInv, Shape, Write, Files
<1>4. changed[e][i] \in Documents /\ Written(changed[e][i])
  BY <1>1, DocumentsAreWritten DEF EntriesSound
<1>5. DOMAIN changed'[e] = Ids /\ changed'[e][i] = Nil
      /\ \A j \in Ids \ {i} : changed'[e][j] = changed[e][j]
  BY <1>1 DEF EditorShape, EntriesSound
<1>6. \A d \in Editors \ {e} : changed'[d] = changed[d]
  BY <1>1 DEF EditorShape
<1>7. EditorShape'
  BY <1>1, <1>2 DEF EditorShape
<1>8. EntriesSound'
  <2>1. \A j \in Ids : disk'[j] \in EntryFiles
    BY <1>3, <1>4 DEF EntriesSound, EntryFiles
  <2>2. \A c \in Commands : Remembers(c)' => \A j \in Ids : snap'[c][j] \in EntryFiles
    BY DEF EntriesSound, commandVars, Remembers, Ongoing
  <2> QED BY <1>5, <1>6, <2>1, <2>2 DEF EntriesSound
<1>9. CASE ~edit[e].host
  <2>1. kept' = {f \in kept : f.id # i}
    BY <1>1, <1>9 DEF KeptAfter
  <2>2. KeptSound' /\ HostUpdatesKept'
    BY <1>3, <2>1 DEF KeptSound, HostUpdatesKept, Written
  <2>3. \A d \in Editors \ {e} : InHand(d)' /\ HostAlone(d)' /\ DraftHolds(d)'
    BY <1>2, <1>6, <2>1, OthersHold
  <2>4. InHand(e)' /\ HostAlone(e)' /\ DraftHolds(e)'
    BY <1>2, <1>9 DEF InHand, HostAlone, DraftHolds
  <2> QED BY <1>7, <1>8, <2>2, <2>3, <2>4
<1>10. CASE edit[e].host
  <2> DEFINE own == [id |-> i, path |-> edit[e].path, value |-> edit[e].value]
             others == {f \in kept : f.id = i => ~Comparable(f.path, edit[e].path)}
  <2>1. i = edit[e].id /\ edit[e].path \in KeyPaths
    BY <1>1, <1>10 DEF HostAlone
  <2>2. \A f \in kept' : f \in others \/ (f = own /\ edit[e].kind = "set" /\ ~blind[e])
    BY <1>1, <1>10 DEF KeptAfter
  <2>3. KeptSound'
    BY <2>1, <2>2 DEF KeptSound
  <2>4. \A f \in others : Written(disk'[f.id]) /\ disk'[f.id].config[f.path] = f.value
    BY <1>1, <1>3, <1>4, <1>10 DEF HostUpdatesKept, KeptSound, DraftHolds, Written
  <2>5. edit[e].kind = "set" /\ ~blind[e] =>
          Written(disk'[own.id]) /\ disk'[own.id].config[own.path] = own.value
    BY <1>1, <1>3, <1>4, <1>10 DEF DraftHolds, Written
  <2>6. HostUpdatesKept'
    <3>1. \A f \in kept' : Written(disk'[f.id]) /\ disk'[f.id].config[f.path] = f.value
      BY <2>2, <2>4, <2>5
    <3> QED BY <3>1 DEF HostUpdatesKept, Written
  <2>7. ASSUME NEW d \in Editors \ {e} PROVE InHand(d)' /\ HostAlone(d)' /\ DraftHolds(d)'
    <3>1. edit[d].host => \A j \in Ids : changed[d][j] = Nil
      BY <1>2, <1>10 DEF HostAlone, InHand
    <3> QED BY <1>2, <1>6, <3>1 DEF InHand, HostAlone, DraftHolds
  <2>8. \A j \in Ids : changed'[e][j] = Nil
    BY <1>5, <1>10, <2>1 DEF HostAlone
  <2>9. InHand(e)' /\ HostAlone(e)' /\ DraftHolds(e)'
    BY <1>2, <2>8 DEF InHand, HostAlone, DraftHolds
  <2> QED BY <1>7, <1>8, <2>3, <2>6, <2>7, <2>9
<1> QED BY <1>9, <1>10

LEMMA ReadAllKeeps ==
  ASSUME LockInv, HostInv, NEW e \in Editors, UNCHANGED commandVars, ReadAll(e)
  PROVE  HostInv'
<1> USE DEF HostInv
<1>1. EditorShape' /\ stage'[e] = "save" /\ \A d \in Editors \ {e} : stage'[d] = stage[d]
  BY DEF ReadAll, EditorShape
<1>2. stage[e] = "read" /\ unread[e] = {}
      /\ UNCHANGED <<disk, edit, op, unread, changed, blind, holder, kept>>
  BY DEF ReadAll
<1>3. InHand(e)' /\ HostAlone(e)' /\ DraftHolds(e)'
  BY <1>1, <1>2 DEF InHand, HostAlone, DraftHolds
<1> QED BY <1>1, <1>2, <1>3, SameFiles DEF EntriesSound

LEMMA SavedKeeps ==
  ASSUME LockInv, HostInv, NEW e \in Editors, UNCHANGED commandVars, Saved(e)
  PROVE  HostInv'
<1> USE DEF HostInv
<1>1. CASE Finish(e)
  BY <1>1, FinishKeeps DEF Saved
<1>2. CASE ~Finish(e)
  <2>1. /\ Refills(e) /\ stage' = [stage EXCEPT ![e] = "read"]
        /\ UNCHANGED <<edit, changed, blind, holder, disk, kept>>
        /\ op' = [op EXCEPT ![e] = "fill"] /\ unread' = [unread EXCEPT ![e] = {edit[e].id}]
    BY <1>2 DEF Saved
  <2>2. EditorShape' /\ stage'[e] = "read"
        /\ \A d \in Editors \ {e} : /\ stage'[d] = stage[d] /\ op'[d] = op[d]
                                    /\ unread'[d] = unread[d]
    BY <2>1 DEF EditorShape
  <2>3. InHand(e)' /\ HostAlone(e)' /\ DraftHolds(e)'
    BY <2>1, <2>2 DEF Refills, InHand, HostAlone, DraftHolds
  <2> QED BY <2>1, <2>2, <2>3, SameFiles DEF EntriesSound
<1> QED BY <1>1, <1>2

LEMMA EditorHostKeeps ==
  ASSUME LockInv, HostInv, NEW e \in Editors, Editor(e) PROVE HostInv'
<1>1. ASSUME ReadFails(e) \/ SaveFails(e) PROVE Finish(e) /\ UNCHANGED <<disk, kept>>
  BY <1>1 DEF ReadFails, SaveFails
<1> QED
  BY <1>1, AsksKeep, AcquireKeeps, FinishKeeps, ReadEntryKeeps, ReadAllKeeps, SaveEntryKeeps,
     SavedKeeps
  DEF Editor, EditorStep

LEMMA InitHostInv == Init => HostInv
<1> SUFFICES ASSUME Init PROVE HostInv
  OBVIOUS
<1> USE DEF Init, CommandsInit, ConfigsInit
<1>1. \A i \in Ids : disk[i] \in EntryFiles
  <2> SUFFICES ASSUME NEW i \in Ids PROVE disk[i] \in EntryFiles
    OBVIOUS
  <2>1. i \in Files /\ i \notin HostFiles
    BY FilesAssumption DEF Files
  <2>2. CASE \E x : disk = EmptyDirectory(x)
    BY <2>1, <2>2 DEF EmptyDirectory, EntryFiles, HostFiles
  <2>3. CASE \E l \in Locks0, n \in Entries0 : disk = Directory(l, n)
    <3>1. PICK l \in Locks0, n \in Entries0 : disk = Directory(l, n)
      BY <2>3
    <3>2. n[i] \in Documents \cup {Empty}
      BY ProjectAssumption
    <3>3. disk[i] = IF l[i] = Nil THEN Nil ELSE n[i]
      BY <2>1, <3>1 DEF Directory, HostFiles
    <3> QED BY <3>2, <3>3 DEF EntryFiles
  <2> QED BY <2>2, <2>3
<1>2. EntriesSound
  BY <1>1 DEF EntriesSound, Remembers, Ongoing, NoChange
<1>3. EditorShape /\ KeptSound /\ HostUpdatesKept
  BY DEF EditorShape, KeptSound, HostUpdatesKept
<1>4. \A e \in Editors : InHand(e) /\ HostAlone(e) /\ DraftHolds(e)
  BY ConfigDocsAssumption DEF InHand, HostAlone, DraftHolds, NoEdit, NoChange, Nodes
<1> QED BY <1>2, <1>3, <1>4 DEF HostInv

LEMMA NextHostInv == LockInv /\ HostInv /\ [Next]_vars => HostInv'
<1> SUFFICES ASSUME LockInv, HostInv, [Next]_vars PROVE HostInv'
  OBVIOUS
<1>1. CASE Next
  BY <1>1, CommandHostKeeps, EditorHostKeeps DEF Next
<1>2. CASE UNCHANGED vars
  BY <1>2 DEF vars, commandVars, configVars, HostInv, EntriesSound, Remembers, Ongoing,
              EditorShape, KeptSound, HostUpdatesKept, Written, InHand, HostAlone, DraftHolds
<1> QED BY <1>1, <1>2

\* What the host's code has set is in its file until somebody else writes the
\* entry, however many of its goroutines change it at the same time and whatever
\* commands do beside them (config_store.go:38).
THEOREM HostKeepsUpdates == Spec => []HostUpdatesKept
<1>1. HostInv => HostUpdatesKept
  BY DEF HostInv
<1> QED
  BY <1>1, InitLockInv, NextLockInv, InitHostInv, NextHostInv, PTL DEF Spec

-----------------------------------------------------------------------------
(* Why the reports foretell the start: they have their own ways through the
   files, but ask the same of them. *)

\* A check that does not fail has found every enabled plugin loadable.
LEMMA CheckedStarts ==
  ASSUME NEW d, NEW external, LoadsFiles(d), ~CheckFails(d, external)
  PROVE  /\ Starts(d, external)
         /\ Enabled(d) = {i \in DOMAIN Status(d, external) :
                            LET s == Status(d, external)[i]
                            IN s.enabled /\ s.available}
<1>1. ASSUME NEW i \in Enabled(d)
      PROVE  i \in RegistryFor(Load(d["lock"]), external) /\ Builds(i, d[i])
  <2>1. i \in Configured(d) /\ Check(d, i, external) \notin {"unknown", "unavailable", "invalid"}
    BY <1>1 DEF CheckFails, Enabled
  <2> QED BY <1>1, <2>1 DEF Check
<1>2. Enabled(d) = {i \in DOMAIN Status(d, external) :
                      LET s == Status(d, external)[i] IN s.enabled /\ s.available}
  <2> DEFINE st == Status(d, external)
             listed == {j \in Ids : Load(d["lock"])[j] # Nil} \cup Configured(d)
  <2>1. DOMAIN st = listed
        /\ \A i \in listed : /\ st[i].enabled = (i \in Enabled(d))
                             /\ st[i].available = (i \in RegistryFor(Load(d["lock"]), external))
    BY DEF Status
  <2>2. Enabled(d) \subseteq listed
    BY DEF Enabled
  <2> HIDE DEF st, listed
  <2>3. \A i : i \in Enabled(d) <=> i \in DOMAIN st /\ st[i].enabled /\ st[i].available
    BY <1>1, <2>1, <2>2
  <2> QED BY <2>3 DEF st
<1> QED BY <1>1, <1>2 DEF Starts, Loads

\* A doctor that is satisfied knows of every enabled plugin, and the built
\* binary rejects at most the configuration of an external one.
LEMMA DoctorForetells ==
  ASSUME NEW d, DoctorPasses(d)
  PROVE  /\ DoctorLists(d) = Enabled(d)
         /\ RunRuns(d) \/ \E i \in Externals(Load(d["lock"])) :
                            Check(d, i, BuiltFrom(d)) = "invalid"
<1> DEFINE lock == Load(d["lock"])
<1>1. ASSUME NEW i \in Enabled(d), i \notin Externals(lock)
      PROVE  i \in RegistryFor(lock, {}) /\ Builds(i, d[i])
  BY <1>1 DEF DoctorPasses, Validates, Doctored, Loads
<1>2. ASSUME NEW i \in Enabled(d) PROVE lock[i] # Nil
  BY <1>1, <1>2 DEF RegistryFor, Externals
<1>3. DoctorLists(d) = Enabled(d)
  BY <1>2 DEF DoctorLists
<1>4. ASSUME CheckFails(d, BuiltFrom(d))
      PROVE  \E i \in Externals(lock) : Check(d, i, BuiltFrom(d)) = "invalid"
  <2>1. PICK i \in Configured(d) :
          Check(d, i, BuiltFrom(d)) \in {"unknown", "unavailable", "invalid"}
    BY <1>4 DEF CheckFails
  <2>2. i \in Enabled(d) /\ i \in Ids
    BY <2>1 DEF Check, Configured
  <2>3. i \in RegistryFor(lock, BuiltFrom(d))
    BY <1>1, <2>2 DEF RegistryFor, BuiltFrom, Externals
  <2>4. Check(d, i, BuiltFrom(d)) = "invalid" /\ ~Builds(i, d[i])
    BY <2>1, <2>2, <2>3 DEF Check
  <2> QED BY <1>1, <2>2, <2>4
<1>5. ASSUME ~NeedsGeneratedHost(d) PROVE Starts(d, {})
  BY <1>1, <1>5 DEF NeedsGeneratedHost, DoctorPasses, Starts, Loads
<1>6. LoadsFiles(d)
  BY DEF DoctorPasses
<1> QED BY <1>3, <1>4, <1>5, <1>6 DEF RunRuns, UpRuns

\* Whatever is in the files, "plugin check", "plugin status" and the doctor tell
\* the truth about the start that follows (check.go:26, doctor.go:63).
THEOREM ReportsForetell == Spec => []ReportsForetellStart
<1>1. ReportsForetellStart
  BY CheckedStarts, DoctorForetells DEF ReportsForetellStart, ReportsAgree
<1> QED BY <1>1, PTL

-----------------------------------------------------------------------------
(* Why AllOrNothing holds. *)

TouchedFile(c, f) == \E k \in 1 .. Len(Touched(c)) : Touched(c)[k] = f

\* A file that has not been put back yet.
StillOut(c, f) == \E k \in 1 .. left[c] : Touched(c)[k] = f

\* Phases that only "add" and "remove" come to.
Beyond == {"droprequire", "dropreplace", "config", "fill", "entry"}

\* A command that remembers files is about plugins, and comes to the entries
\* only if it has remembered them.
CommandSound(c) ==
  /\ Ongoing(c) => task[c].kind \in {"add", "update", "remove"}
  /\ Ongoing(c) /\ phase[c] \in Beyond => task[c].kind # "update"
  /\ phase[c] = "remember" => left[c] \in 1 .. Len(Touched(c)) - 1
  /\ phase[c] \in {"rollback", "refill"} => left[c] \in 0 .. Len(Touched(c))
  /\ phase[c] = "refill" => left[c] > 0
  /\ Remembers(c) => Whole(snap[c])

\* While nobody else writes, all files, later all but those it may touch, and in
\* the end all but those that it has still to put back, are as it remembers them.
Undoable(c) ==
  alone[c] /\ Remembers(c) => \A f \in Files :
    /\ phase[c] = "remember" => disk[f] = snap[c][f]
    /\ phase[c] \in Writing /\ ~TouchedFile(c, f) => disk[f] = snap[c][f]
    /\ phase[c] \in {"rollback", "refill"} /\ clean[c] /\ ~StillOut(c, f) =>
         disk[f] = snap[c][f]

UndoInv ==
  /\ Whole(disk) /\ DOMAIN result = Commands
  /\ \A c \in Commands : CommandSound(c) /\ Undoable(c)

\* A write by c: nobody else can claim to be alone, and the directory stays one.
LEMMA WriteAlone ==
  ASSUME Shape, Whole(disk), NEW c \in Processes, NEW f, NEW content, Write(c, f, content)
  PROVE  /\ Whole(disk')
         /\ \A g \in Files : disk'[g] = IF g = f THEN content ELSE disk[g]
         /\ alone'[c] => alone[c]
         /\ \A d \in Processes \ {c} : ~alone'[d]
<1>1. disk' = [disk EXCEPT ![f] = content] /\ DOMAIN disk = Files
  BY DEF Shape, Write
<1>2. disk' = [g \in Files |-> IF g = f THEN content ELSE disk[g]]
  BY <1>1
<1>3. Whole(disk')
  BY <1>2 DEF Whole
<1>4. alone' = [d \in Processes |-> d = c /\ alone[c]]
  BY DEF Write
<1>5. \A d \in Processes : alone'[d] => d = c /\ alone[c]
  BY <1>4
<1> QED BY <1>2, <1>3, <1>5

\* A step of c that is not its first look at the files.
Quiet(c) == disk' = disk /\ alone' = alone

\* The parts of a command's step: it writes a file, or leaves them all alone.
LEMMA CommandWrites ==
  ASSUME LockInv, NEW c \in Commands, CommandStep(c)
  PROVE  \/ \E f, content : Write(c, f, content)
         \/ Quiet(c)
         \/ Snapshot(c)
         \/ LoadLock(c)
<1> USE DEF Quiet
<1>1. CASE StartAdd(c) \/ StartUpdate(c) \/ StartRemove(c) \/ StartBuild(c) \/ Remember(c)
  BY <1>1 DEF StartAdd, StartUpdate, StartRemove, StartBuild, Start, Remember
<1>2. CASE HostStep(c)
  BY <1>2 DEF HostStep, SaveLock, RenderGen, RenderMain, RenderGoMod
<1>3. CASE GoModStep(c)
  BY <1>3 DEF GoModStep, EditRequire, EditReplace, DropRequire, DropReplace, EditGoMod
<1>4. CASE EntryStep(c)
  BY <1>4 DEF EntryStep, CreateConfig, FillConfig, EnsureEntry, RemoveEntry
<1>5. CASE BuildStep(c)
  <2>1. CASE Tidy(c)
    BY <2>1 DEF Tidy
  <2> QED BY <1>5, <2>1 DEF BuildStep, SyncFramework, NextModule, Compile
<1>6. CASE Refuse(c) \/ Break(c) \/ RolledBack(c) \/ Crash(c)
  BY <1>6 DEF Refuse, Break, Fails, RolledBack, Crash
<1>7. CASE Restore(c)
  BY <1>7 DEF Restore, RemoveCreated, Truncate, Refill, RestoreBreaks
<1> QED BY <1>1, <1>2, <1>3, <1>4, <1>5, <1>6, <1>7 DEF CommandStep

\* What a command knows of itself no other command changes.
Local(d) ==
  /\ phase'[d] = phase[d] /\ task'[d] = task[d] /\ snap'[d] = snap[d]
  /\ left'[d] = left[d] /\ clean'[d] = clean[d]
  /\ plan'[d] = plan[d]

LEMMA EndLocal ==
  ASSUME Shape, NEW c \in Commands, NEW r, End(c, r), NEW d \in Commands \ {c} PROVE Local(d)
BY DEF Shape, End, Goto, Local

LEMMA CommandLocal ==
  ASSUME LockInv, NEW c \in Commands, CommandStep(c), NEW d \in Commands \ {c} PROVE Local(d)
<1> USE DEF LockInv, Shape, Goto
<1>1. CASE \E r : End(c, r)
  BY <1>1, EndLocal
<1>2. CASE StartAdd(c) \/ StartUpdate(c) \/ StartRemove(c) \/ StartBuild(c)
  BY <1>2 DEF StartAdd, StartUpdate, StartRemove, StartBuild, Start, Local
<1>3. CASE Snapshot(c) \/ Remember(c) \/ LoadLock(c)
  BY <1>3 DEF Snapshot, Remember, LoadLock, LoadForAdd, LoadForUpdate, LoadForRemove,
              LoadForBuild, Loaded, Local
<1>4. CASE HostStep(c)
  BY <1>4 DEF HostStep, SaveLock, RenderGen, RenderMain, RenderGoMod, Local
<1>5. ASSUME ~(\E r : End(c, r)), GoModStep(c) PROVE Local(d)
  BY <1>5 DEF GoModStep, EditRequire, EditReplace, AfterReplace, DropRequire, DropReplace,
              locals, Local
<1>6. ASSUME ~(\E r : End(c, r)), EntryStep(c) \/ BuildStep(c) PROVE Local(d)
  BY <1>6 DEF EntryStep, CreateConfig, FillConfig, EnsureEntry, RemoveEntry, BuildStep, SyncFramework,
              NextModule, Tidy, Compile, Local
<1>7. ASSUME ~(\E r : End(c, r)), Refuse(c) \/ Break(c) PROVE Local(d)
  BY <1>7 DEF Refuse, Break, Fails, Local
<1>8. CASE Restore(c)
  BY <1>8 DEF Restore, RemoveCreated, Truncate, Refill, RestoreBreaks, Local
<1> QED
  BY <1>1, <1>2, <1>3, <1>4, <1>5, <1>6, <1>7, <1>8 DEF CommandStep, RolledBack, Crash

\* Who is alone still has seen no other write.
LEMMA AloneUnseen ==
  ASSUME LockInv, Whole(disk), NEW c \in Commands, CommandStep(c), NEW d \in Commands \ {c}, alone'[d]
  PROVE  alone[d] /\ disk' = disk
<1>1. c \in Processes /\ d \in Processes
  BY CommandsAssumption
<1>2. CASE Snapshot(c) \/ LoadLock(c)
  BY <1>1, <1>2 DEF Snapshot, LoadLock, LoadForAdd, LoadForUpdate, LoadForRemove, LoadForBuild,
                    Loaded, LockInv, Shape
<1> QED
  BY <1>1, <1>2, CommandWrites, WriteAlone DEF Quiet, LockInv

LEMMA OthersUndoable ==
  ASSUME UndoInv, NEW d \in Commands, Local(d), alone'[d] => alone[d] /\ disk' = disk
  PROVE  CommandSound(d)' /\ Undoable(d)'
<1>1. Touched(d)' = Touched(d)
  BY DEF Local, Touched
<1>2. /\ Ongoing(d)' = Ongoing(d) /\ Remembers(d)' = Remembers(d)
      /\ \A f : TouchedFile(d, f)' = TouchedFile(d, f) /\ StillOut(d, f)' = StillOut(d, f)
  BY <1>1 DEF Local, Ongoing, Remembers, TouchedFile, StillOut
<1> QED
  BY <1>1, <1>2 DEF UndoInv, Local, CommandSound, Undoable, Whole

\* The files a command may touch.
LEMMA TouchedFiles ==
  ASSUME NEW c
  PROVE  /\ Len(Touched(c)) \in Nat /\ Len(Touched(c)) > 1
         /\ TouchedFile(c, "lock") /\ TouchedFile(c, "gen")
         /\ TouchedFile(c, "main") /\ TouchedFile(c, "gomod")
         /\ task[c].kind # "update" => TouchedFile(c, "config") /\ TouchedFile(c, task[c].id)
<1>1. CASE task[c].kind = "update"
  <2>1. Touched(c) = <<"lock", "gen", "main", "gomod">>
    BY <1>1 DEF Touched
  <2> QED BY <1>1, <2>1 DEF TouchedFile
<1>2. CASE task[c].kind # "update"
  <2>1. Touched(c) = <<"lock", "gen", "main", "gomod", "config", task[c].id>>
    BY <1>2 DEF Touched
  <2> QED BY <1>2, <2>1 DEF TouchedFile
<1> QED BY <1>1, <1>2

\* A writing command goes on: it writes a file it has remembered, or none.
LEMMA WritingOn ==
  ASSUME LockInv, UndoInv, NEW c \in Commands, phase[c] \in Writing, NEW p \in Writing, Goto(c, p),
         UNCHANGED <<task, snap>>,
         Ongoing(c) /\ p \in Beyond => task[c].kind # "update",
         \/ disk' = disk /\ (Ongoing(c) => (alone'[c] => alone[c]))
         \/ \E f, content : Write(c, f, content) /\ (Ongoing(c) => TouchedFile(c, f))
  PROVE  Whole(disk') /\ CommandSound(c)' /\ Undoable(c)'
<1> USE DEF UndoInv
<1>1. phase'[c] = p /\ p \notin {"idle", "snapshot", "remember", "rollback", "refill"}
  BY DEF LockInv, Shape, Goto, Writing
<1>2. /\ Ongoing(c)' = Ongoing(c) /\ Remembers(c)' = Remembers(c)
      /\ \A f : TouchedFile(c, f)' = TouchedFile(c, f)
  BY <1>1 DEF Ongoing, Remembers, TouchedFile, Touched, Writing
<1>3. CommandSound(c)'
  BY <1>1, <1>2 DEF CommandSound, Whole
<1>4. CASE disk' = disk /\ (Ongoing(c) => (alone'[c] => alone[c]))
  BY <1>1, <1>2, <1>3, <1>4 DEF Undoable, Remembers, Whole
<1>5. ASSUME NEW f, NEW content, Write(c, f, content), Ongoing(c) => TouchedFile(c, f)
      PROVE  Whole(disk') /\ Undoable(c)'
  <2>1. /\ Whole(disk')
        /\ alone'[c] => alone[c]
        /\ \A g \in Files : disk'[g] = IF g = f THEN content ELSE disk[g]
    BY <1>5, WriteAlone, CommandsAssumption DEF LockInv
  <2>2. ASSUME alone'[c], Remembers(c), NEW g \in Files, ~TouchedFile(c, g)
        PROVE  disk'[g] = snap[c][g]
    BY <1>5, <2>1, <2>2 DEF Undoable, Remembers
  <2> QED BY <1>1, <1>2, <2>1, <2>2 DEF Undoable
<1> QED BY <1>3, <1>4, <1>5

\* A command that ends remembers nothing.
LEMMA EndForgets ==
  ASSUME LockInv, NEW c \in Commands, NEW r, End(c, r)
  PROVE  CommandSound(c)' /\ Undoable(c)'
<1>1. phase'[c] = "idle"
  BY DEF LockInv, Shape, End, Goto
<1> QED BY <1>1 DEF CommandSound, Undoable, Ongoing, Remembers

LEMMA StartUndoable ==
  ASSUME LockInv, UndoInv, NEW c \in Commands,
         StartAdd(c) \/ StartUpdate(c) \/ StartRemove(c) \/ StartBuild(c)
  PROVE  Whole(disk') /\ CommandSound(c)' /\ Undoable(c)'
<1>1. \E t, p : /\ Start(c, t, p)
                /\ \/ t.kind \in {"add", "update", "remove"} /\ p = "snapshot"
                   \/ t.kind = "build" /\ p = "load"
  <2>1. CASE StartAdd(c)
    BY <2>1 DEF StartAdd
  <2>2. CASE StartUpdate(c)
    BY <2>2 DEF StartUpdate
  <2>3. CASE StartRemove(c)
    BY <2>3 DEF StartRemove
  <2>4. CASE StartBuild(c)
    BY <2>4 DEF StartBuild
  <2> QED BY <2>1, <2>2, <2>3, <2>4
<1>2. PICK t, p : /\ Start(c, t, p)
                  /\ \/ t.kind \in {"add", "update", "remove"} /\ p = "snapshot"
                     \/ t.kind = "build" /\ p = "load"
  BY <1>1
<1>3. phase'[c] = p /\ task'[c] = t /\ disk' = disk
  BY <1>2 DEF LockInv, Shape, Start, Goto
<1> QED
  BY <1>2, <1>3 DEF UndoInv, CommandSound, Undoable, Ongoing, Remembers, Whole, Beyond

LEMMA SnapshotUndoable ==
  ASSUME LockInv, UndoInv, NEW c \in Commands, Snapshot(c)
  PROVE  Whole(disk') /\ CommandSound(c)' /\ Undoable(c)'
<1>1. /\ phase'[c] = "remember" /\ phase[c] = "snapshot" /\ snap'[c] = disk
      /\ task' = task /\ disk' = disk /\ left'[c] = Len(Touched(c)) - 1
  BY DEF LockInv, Shape, Snapshot, Goto
<1>2. Touched(c)' = Touched(c) /\ Len(Touched(c)) \in Nat /\ Len(Touched(c)) > 1
  BY <1>1, TouchedFiles DEF Touched
<1>3. Whole(disk') /\ (Remembers(c)' => Whole(snap'[c]))
  BY <1>1 DEF UndoInv, Whole
<1>4. Ongoing(c)' => task'[c].kind \in {"add", "update", "remove"}
  BY <1>1 DEF UndoInv, CommandSound, Ongoing
<1>5. CommandSound(c)'
  BY <1>1, <1>2, <1>3, <1>4 DEF CommandSound, Beyond
<1>6. Undoable(c)'
  BY <1>1 DEF Undoable, Writing
<1> QED BY <1>3, <1>5, <1>6

\* While it is alone it remembers what it has remembered already.
LEMMA RememberSame ==
  ASSUME LockInv, UndoInv, NEW c \in Commands, Remember(c)
  PROVE  /\ phase[c] = "remember" /\ phase'[c] \in {"remember", "load"}
         /\ Ongoing(c) /\ Remembers(c)
         /\ UNCHANGED <<disk, task, plan, alone>> /\ Whole(snap'[c])
         /\ alone[c] => disk' = snap'[c]
<1>1. phase[c] = "remember" /\ Ongoing(c) /\ Remembers(c)
      /\ DOMAIN snap[c] = Files /\ Whole(snap[c])
  BY DEF Remember, LockInv, LocksInHand, Remembers, UndoInv, CommandSound
<1>2. /\ phase'[c] \in {"remember", "load"} /\ UNCHANGED <<disk, task, plan, alone>>
      /\ Whole(snap'[c])
      /\ \A g \in Files : snap'[c][g] = snap[c][g] \/ snap'[c][g] = disk[g]
  BY <1>1, Remembering DEF LockInv
<1>3. ASSUME alone[c] PROVE disk' = snap'[c]
  <2>1. \A g \in Files : snap'[c][g] = disk[g]
    BY <1>1, <1>2, <1>3 DEF UndoInv, Undoable
  <2>2. [g \in Files |-> disk[g]] = [g \in Files |-> snap'[c][g]]
    BY <2>1
  <2>3. Whole(disk)
    BY DEF UndoInv
  <2>4. disk = snap'[c]
    BY <1>2, <2>2, <2>3, Zenon DEF Whole
  <2> QED BY <1>2, <2>4
<1> QED BY <1>1, <1>2, <1>3

LEMMA RememberUndoable ==
  ASSUME LockInv, UndoInv, NEW c \in Commands, Remember(c)
  PROVE  Whole(disk') /\ CommandSound(c)' /\ Undoable(c)'
<1>1. /\ phase[c] = "remember" /\ phase'[c] \in {"remember", "load"}
      /\ UNCHANGED <<disk, task, alone>> /\ Whole(snap'[c])
      /\ alone[c] => disk' = snap'[c]
      /\ Ongoing(c)
  BY RememberSame
<1>2. /\ left[c] \in 1 .. Len(Touched(c)) - 1 /\ left'[c] = left[c] - 1
      /\ phase'[c] = IF left[c] = 1 THEN "load" ELSE "remember"
  BY <1>1 DEF UndoInv, CommandSound, Remember, Goto, LockInv, Shape
<1>3. Touched(c)' = Touched(c) /\ Len(Touched(c)) \in Nat
  BY <1>1, TouchedFiles DEF Touched
<1>4. phase'[c] = "remember" => left'[c] \in 1 .. Len(Touched(c)) - 1
  BY <1>2, <1>3
<1>5. CommandSound(c)'
  BY <1>1, <1>3, <1>4 DEF UndoInv, CommandSound, Ongoing, Beyond, Whole
<1>6. Undoable(c)'
  BY <1>1 DEF Undoable
<1>7. Whole(disk')
  BY <1>1 DEF UndoInv, Whole
<1> QED BY <1>5, <1>6, <1>7

LEMMA LoadUndoable ==
  ASSUME LockInv, UndoInv, NEW c \in Commands, LoadLock(c)
  PROVE  Whole(disk') /\ CommandSound(c)' /\ Undoable(c)'
<1> DEFINE old == Load(disk["lock"])
<1>0. \E lock, record, p : p \in {"lock", "require", "gen"} /\ Loaded(c, lock, record, p)
  <2>1. CASE LoadForAdd(c, old)
    BY <2>1 DEF LoadForAdd
  <2>2. CASE LoadForUpdate(c, old)
    BY <2>2 DEF LoadForUpdate
  <2>3. CASE LoadForRemove(c, old)
    BY <2>3 DEF LoadForRemove
  <2>4. CASE LoadForBuild(c, old)
    BY <2>4 DEF LoadForBuild
  <2> QED BY <2>1, <2>2, <2>3, <2>4 DEF LoadLock
<1>1. PICK lock, record, p : p \in {"lock", "require", "gen"} /\ Loaded(c, lock, record, p)
  BY <1>0
<1>2. disk' = disk /\ (Ongoing(c) => (alone'[c] => alone[c])) /\ UNCHANGED <<task, snap>> /\ Goto(c, p)
  BY <1>1, CommandsAssumption DEF Loaded, Ongoing, LockInv, Shape
<1> QED
  BY <1>1, <1>2, WritingOn DEF LoadLock, Writing, Beyond

LEMMA HostUndoable ==
  ASSUME LockInv, UndoInv, NEW c \in Commands, HostStep(c)
  PROVE  Whole(disk') /\ CommandSound(c)' /\ Undoable(c)'
<1>1. CASE SaveLock(c)
  BY <1>1, WritingOn, TouchedFiles DEF SaveLock, Writing, Beyond
<1>2. CASE RenderGen(c)
  BY <1>2, WritingOn, TouchedFiles DEF RenderGen, Writing, Beyond
<1>3. CASE RenderMain(c)
  BY <1>3, WritingOn, TouchedFiles DEF RenderMain, Writing, Beyond
<1>4. CASE RenderGoMod(c)
  <2>1. PICK p \in Writing : Goto(c, p) /\ (p \in Beyond => task[c].kind = "remove")
    BY <1>4 DEF RenderGoMod, Writing, Beyond
  <2>2. UNCHANGED <<disk, alone>> \/ Write(c, "gomod", FreshGoMod)
    BY <1>4 DEF RenderGoMod
  <2> QED BY <1>4, <2>1, <2>2, WritingOn, TouchedFiles DEF RenderGoMod, Writing, Beyond
<1> QED BY <1>1, <1>2, <1>3, <1>4 DEF HostStep

LEMMA GoModUndoable ==
  ASSUME LockInv, UndoInv, NEW c \in Commands, GoModStep(c)
  PROVE  Whole(disk') /\ CommandSound(c)' /\ Undoable(c)'
<1>1. UNCHANGED <<disk, alone>> \/ \E content : Write(c, "gomod", content)
  BY DEF GoModStep, EditRequire, EditReplace, DropRequire, DropReplace, EditGoMod
<1>2. Whole(disk')
  BY <1>1, WriteAlone, CommandsAssumption DEF LockInv, UndoInv, Whole
<1>3. CASE \E r : End(c, r)
  BY <1>2, <1>3, EndForgets
<1>4. CASE ~\E r : End(c, r)
  <2>1. PICK p \in Writing : /\ Goto(c, p) /\ UNCHANGED <<task, snap>>
                             /\ p \in Beyond => task[c].kind = "add" \/ phase[c] \in Beyond
    BY <1>4 DEF GoModStep, EditRequire, EditReplace, AfterReplace, DropRequire, DropReplace, locals,
                Writing, Beyond
  <2>2. phase[c] \in Writing
    BY DEF GoModStep, EditRequire, EditReplace, DropRequire, DropReplace, Writing
  <2>3. Ongoing(c) /\ p \in Beyond => task[c].kind # "update"
    BY <2>1 DEF UndoInv, CommandSound
  <2> QED BY <1>1, <2>1, <2>2, <2>3, WritingOn, TouchedFiles
<1> QED BY <1>3, <1>4

LEMMA EntryUndoable ==
  ASSUME LockInv, UndoInv, NEW c \in Commands, EntryStep(c)
  PROVE  Whole(disk') /\ CommandSound(c)' /\ Undoable(c)'
<1>1. CASE CreateConfig(c) \/ FillConfig(c)
  <2>1. phase[c] \in Writing /\ (Ongoing(c) => task[c].kind # "update")
    BY <1>1 DEF CreateConfig, FillConfig, UndoInv, CommandSound, Beyond, Writing
  <2>2. UNCHANGED <<disk, alone>> \/ \E content : Write(c, "config", content)
    BY <1>1 DEF CreateConfig, FillConfig
  <2>3. PICK p \in Writing : Goto(c, p) /\ UNCHANGED <<task, snap>>
    BY <1>1 DEF CreateConfig, FillConfig, Writing
  <2> QED BY <2>1, <2>2, <2>3, WritingOn, TouchedFiles
<1>2. CASE EnsureEntry(c) \/ RemoveEntry(c)
  <2>1. PICK r : End(c, r)
    BY <1>2 DEF EnsureEntry, RemoveEntry
  <2>2. disk' = disk \/ \E f, content : Write(c, f, content)
    BY <1>2 DEF EnsureEntry, RemoveEntry
  <2>3. Whole(disk')
    BY <2>2, WriteAlone, CommandsAssumption DEF LockInv, UndoInv, Whole
  <2> QED BY <2>1, <2>3, EndForgets
<1> QED BY <1>1, <1>2 DEF EntryStep

LEMMA BuildUndoable ==
  ASSUME LockInv, UndoInv, NEW c \in Commands, BuildStep(c)
  PROVE  Whole(disk') /\ CommandSound(c)' /\ Undoable(c)'
<1>1. CASE SyncFramework(c)
  BY <1>1, WritingOn DEF SyncFramework, Writing, Beyond
<1>2. CASE NextModule(c)
  <2>1. PICK p : p \in {"tidy", "require"} /\ Goto(c, p)
    BY <1>2 DEF NextModule
  <2> QED BY <1>2, <2>1, WritingOn DEF NextModule, Writing, Beyond
<1>3. CASE Tidy(c)
  <2>1. \E content : Write(c, "gomod", content)
    BY <1>3 DEF Tidy
  <2> QED BY <1>3, <2>1, WritingOn, TouchedFiles DEF Tidy, Writing, Beyond
<1>4. CASE Compile(c)
  BY <1>4, EndForgets DEF Compile, UndoInv, Whole
<1> QED BY <1>1, <1>2, <1>3, <1>4 DEF BuildStep

\* When a step fails, all that a command has touched is still to be put back.
LEMMA FailsUndoable ==
  ASSUME LockInv, UndoInv, NEW c \in Commands, phase[c] \in Writing, Fails(c)
  PROVE  Whole(disk') /\ CommandSound(c)' /\ Undoable(c)'
<1>1. disk' = disk /\ alone' = alone
  BY DEF Fails
<1>2. Whole(disk')
  BY <1>1 DEF UndoInv, Whole
<1>3. CASE End(c, "failed")
  BY <1>2, <1>3, EndForgets
<1>4. CASE ~End(c, "failed")
  <2>1. /\ task[c].kind # "build" /\ UNCHANGED <<task, snap>>
        /\ phase'[c] = "rollback" /\ left'[c] = Len(Touched(c))
    BY <1>4 DEF Fails, Goto, LockInv, Shape
  <2>2. Touched(c)' = Touched(c) /\ Remembers(c) = Remembers(c)' /\ Ongoing(c) = Ongoing(c)'
    BY <2>1 DEF Touched, Remembers, Ongoing, Writing
  <2>3. \A f : StillOut(c, f)' = TouchedFile(c, f)
    BY <2>1, <2>2 DEF StillOut, TouchedFile
  <2>4. Len(Touched(c)) \in Nat
    BY TouchedFiles
  <2>5. CommandSound(c)'
    BY <2>1, <2>2, <2>4 DEF UndoInv, CommandSound, Beyond, Whole
  <2>6. Undoable(c)'
    BY <1>1, <2>1, <2>2, <2>3 DEF UndoInv, Undoable, Writing
  <2> QED BY <1>2, <2>5, <2>6
<1> QED BY <1>3, <1>4

\* Putting a file back: one less is out.
LEMMA RestoreUndoable ==
  ASSUME LockInv, UndoInv, NEW c \in Commands, Restore(c)
  PROVE  Whole(disk') /\ CommandSound(c)' /\ Undoable(c)'
<1> DEFINE f == Restoring(c)
<1>1. /\ phase[c] \in {"rollback", "refill"} /\ phase'[c] \in {"rollback", "refill"}
      /\ UNCHANGED <<task, snap>> /\ left[c] \in 0 .. Len(Touched(c)) /\ left[c] > 0
  BY DEF Restore, RemoveCreated, Truncate, Refill, RestoreBreaks, Goto, LockInv, Shape, UndoInv,
         CommandSound
<1>2. Ongoing(c) /\ Remembers(c)
  BY <1>1 DEF LockInv, LocksInHand, Remembers
<1>3. /\ Touched(c)' = Touched(c) /\ Remembers(c)' /\ Ongoing(c)'
      /\ Len(Touched(c)) \in Nat
  BY <1>1, <1>2, TouchedFiles DEF Touched, Remembers, Ongoing
<1>4. ASSUME left'[c] = left[c] - 1, NEW g, ~StillOut(c, g)' PROVE g = f \/ ~StillOut(c, g)
  BY <1>1, <1>3, <1>4 DEF StillOut, Restoring
<1>5. ASSUME left'[c] = left[c], NEW g, ~StillOut(c, g)' PROVE g # f /\ ~StillOut(c, g)
  BY <1>1, <1>3, <1>5 DEF StillOut, Restoring
<1> HIDE DEF f
<1>6. CASE RemoveCreated(c) \/ Refill(c)
  <2>1. Write(c, f, snap[c][f]) /\ left'[c] = left[c] - 1 /\ clean' = clean /\ phase'[c] = "rollback"
    BY <1>6 DEF RemoveCreated, Refill, f, Goto, LockInv, Shape
  <2>2. /\ Whole(disk')
        /\ alone'[c] => alone[c]
        /\ \A g \in Files : disk'[g] = IF g = f THEN snap[c][f] ELSE disk[g]
    BY <2>1, WriteAlone, CommandsAssumption DEF LockInv, UndoInv
  <2>3. ASSUME alone'[c], clean'[c], NEW g \in Files, ~StillOut(c, g)' PROVE disk'[g] = snap[c][g]
    BY <1>1, <1>2, <1>4, <2>1, <2>2, <2>3 DEF UndoInv, Undoable
  <2>4. Undoable(c)'
    BY <1>1, <2>1, <2>3 DEF Undoable, Writing
  <2>5. CommandSound(c)'
    BY <1>1, <1>3, <2>1 DEF UndoInv, CommandSound, Beyond, Whole, Remembers, Ongoing
  <2> QED BY <2>2, <2>4, <2>5
<1>7. CASE Truncate(c)
  <2>1. Write(c, f, Empty) /\ left' = left /\ clean' = clean /\ phase'[c] = "refill"
    BY <1>7 DEF Truncate, f, Goto, LockInv, Shape
  <2>2. /\ Whole(disk')
        /\ alone'[c] => alone[c]
        /\ \A g \in Files : disk'[g] = IF g = f THEN Empty ELSE disk[g]
    BY <2>1, WriteAlone, CommandsAssumption DEF LockInv, UndoInv
  <2>3. ASSUME alone'[c], clean'[c], NEW g \in Files, ~StillOut(c, g)' PROVE disk'[g] = snap[c][g]
    BY <1>1, <1>2, <1>5, <2>1, <2>2, <2>3 DEF UndoInv, Undoable
  <2>4. Undoable(c)'
    BY <1>1, <2>1, <2>3 DEF Undoable, Writing
  <2>5. CommandSound(c)'
    BY <1>1, <1>3, <2>1 DEF UndoInv, CommandSound, Beyond, Whole, Remembers, Ongoing
  <2> QED BY <2>2, <2>4, <2>5
<1>8. CASE RestoreBreaks(c)
  <2>1. disk' = disk /\ left'[c] = left[c] - 1 /\ clean'[c] = FALSE /\ phase'[c] = "rollback"
    BY <1>8 DEF RestoreBreaks, Goto, LockInv, Shape
  <2>2. Undoable(c)'
    BY <2>1 DEF Undoable, Writing
  <2>3. CommandSound(c)'
    BY <1>1, <1>3, <2>1 DEF UndoInv, CommandSound, Beyond, Whole, Remembers, Ongoing
  <2> QED BY <2>1, <2>2, <2>3 DEF UndoInv, Whole
<1> QED BY <1>6, <1>7, <1>8 DEF Restore

\* How a command ends is told by its last step.
LEMMA CommandResult ==
  ASSUME NEW c \in Commands, CommandStep(c)
  PROVE  result' = result \/ \E r : result' = [result EXCEPT ![c] = r]
<1>1. CASE \E r : End(c, r)
  BY <1>1 DEF End
<1>2. CASE StartAdd(c) \/ StartUpdate(c) \/ StartRemove(c) \/ StartBuild(c)
  BY <1>2 DEF StartAdd, StartUpdate, StartRemove, StartBuild, Start
<1>3. CASE Snapshot(c) \/ Remember(c) \/ LoadLock(c) \/ HostStep(c)
  BY <1>3 DEF Snapshot, Remember, LoadLock, LoadForAdd, LoadForUpdate, LoadForRemove, LoadForBuild,
              Loaded, HostStep, SaveLock, RenderGen, RenderMain, RenderGoMod
<1>4. ASSUME ~(\E r : End(c, r)), GoModStep(c) PROVE result' = result
  BY <1>4 DEF GoModStep, EditRequire, EditReplace, AfterReplace, DropRequire, DropReplace
<1>5. ASSUME ~(\E r : End(c, r)), EntryStep(c) \/ BuildStep(c) PROVE result' = result
  BY <1>5 DEF EntryStep, CreateConfig, FillConfig, EnsureEntry, RemoveEntry, BuildStep, SyncFramework,
              NextModule, Tidy, Compile
<1>6. ASSUME ~(\E r : End(c, r)), Refuse(c) \/ Break(c) PROVE result' = result
  BY <1>6 DEF Refuse, Break, Fails
<1>7. CASE Restore(c)
  BY <1>7 DEF Restore, RemoveCreated, Truncate, Refill, RestoreBreaks
<1> QED
  BY <1>1, <1>2, <1>3, <1>4, <1>5, <1>6, <1>7 DEF CommandStep, RolledBack, Crash

LEMMA CommandUndoable ==
  ASSUME LockInv, UndoInv, NEW c \in Commands, CommandStep(c) PROVE UndoInv'
<1>1. Whole(disk') /\ CommandSound(c)' /\ Undoable(c)'
  <2>1. CASE Refuse(c) \/ Break(c)
    <3>1. phase[c] \in Writing /\ Fails(c)
      BY <2>1 DEF Refuse, Refused, Break, Writing
    <3> QED BY <3>1, FailsUndoable
  <2>2. CASE RolledBack(c) \/ Crash(c)
    BY <2>2, EndForgets DEF RolledBack, Crash, UndoInv, Whole
  <2> QED
    BY <2>1, <2>2, StartUndoable, SnapshotUndoable, RememberUndoable, LoadUndoable,
       HostUndoable, GoModUndoable, EntryUndoable, BuildUndoable, RestoreUndoable
    DEF CommandStep
<1>2. \A d \in Commands \ {c} : CommandSound(d)' /\ Undoable(d)'
  BY CommandLocal, AloneUnseen, OthersUndoable DEF UndoInv
<1>3. DOMAIN result' = Commands
  BY CommandResult DEF UndoInv
<1> QED BY <1>1, <1>2, <1>3 DEF UndoInv

\* An editor that does not save an entry leaves the files, and what others know.
LEMMA EditorQuiet ==
  ASSUME NEW e, EditorStep(e), ~SaveEntry(e)
  PROVE  disk' = disk /\ (alone' = alone \/ \E b : alone' = [alone EXCEPT ![e] = b])
<1>1. CASE AskHost(e) \/ AskConfig(e) \/ AskEnabled(e) \/ AskSync(e)
  BY <1>1 DEF AskHost, AskConfig, AskEnabled, AskSync, Ask
<1>2. CASE Acquire(e) \/ ReadEntry(e) \/ ReadFails(e) \/ ReadAll(e)
  BY <1>2 DEF Acquire, ReadEntry, ReadFails, ReadAll, Finish
<1>3. CASE SaveFails(e) \/ Saved(e)
  BY <1>3 DEF SaveFails, Saved, Finish
<1> QED BY <1>1, <1>2, <1>3 DEF EditorStep

\* An editor's step writes an entry, or leaves the files to those who are alone.
LEMMA EditorAlone ==
  ASSUME LockInv, Whole(disk), NEW e \in Editors, Editor(e), NEW d \in Commands, alone'[d]
  PROVE  alone[d] /\ disk' = disk
<1>1. e \in Processes /\ d \in Processes /\ d # e
  BY CommandsAssumption, EditorsAssumption, ProjectAssumption
<1>2. CASE SaveEntry(e)
  <2>1. \E f, content : Write(e, f, content)
    BY <1>2 DEF SaveEntry
  <2> QED BY <1>1, <2>1, WriteAlone DEF LockInv
<1>3. CASE ~SaveEntry(e)
  BY <1>1, <1>3, EditorQuiet DEF Editor, LockInv, Shape
<1> QED BY <1>2, <1>3

LEMMA NextUndoInv == LockInv /\ UndoInv /\ [Next]_vars => UndoInv'
<1> SUFFICES ASSUME LockInv, UndoInv, [Next]_vars PROVE UndoInv'
  OBVIOUS
<1>1. CASE \E c \in Commands : Command(c)
  BY <1>1, CommandUndoable DEF Command
<1>2. CASE \E e \in Editors : Editor(e)
  <2>1. PICK e \in Editors : Editor(e)
    BY <1>2
  <2>2. \A d \in Commands : Local(d)
    BY <2>1 DEF Editor, commandVars, Local
  <2>3. Whole(disk')
    <3>1. CASE SaveEntry(e)
      <4>1. \E f, content : Write(e, f, content)
        BY <3>1 DEF SaveEntry
      <4> QED BY <4>1, WriteAlone, EditorsAssumption DEF LockInv, UndoInv
    <3>2. CASE ~SaveEntry(e)
      BY <2>1, <3>2, EditorQuiet DEF Editor, UndoInv, Whole
    <3> QED BY <3>1, <3>2
  <2>4. DOMAIN result' = Commands
    BY <2>1 DEF Editor, commandVars, UndoInv
  <2> QED BY <2>1, <2>2, <2>3, <2>4, EditorAlone, OthersUndoable DEF UndoInv
<1>3. CASE UNCHANGED vars
  <2>1. /\ Whole(disk') /\ DOMAIN result' = Commands
        /\ \A d \in Commands : Local(d) /\ (alone'[d] => alone[d] /\ disk' = disk)
    BY <1>3 DEF vars, commandVars, Local, UndoInv, Whole
  <2> QED BY <2>1, OthersUndoable DEF UndoInv
<1> QED BY <1>1, <1>2, <1>3 DEF Next

LEMMA InitUndoInv == Init => UndoInv
<1> SUFFICES ASSUME Init PROVE UndoInv
  OBVIOUS
<1>1. Whole(disk)
  BY DEF Init, Directory, EmptyDirectory, Whole
<1>2. DOMAIN result = Commands /\ \A c \in Commands : phase[c] = "idle"
  BY DEF Init, CommandsInit
<1> QED BY <1>1, <1>2 DEF UndoInv, CommandSound, Undoable, Ongoing, Remembers

\* A command of plugins reports an error only once everything is put back.
LEMMA FailedAfterRollback ==
  ASSUME LockInv, UndoInv, NEW c \in Commands, CommandStep(c), Failed(c), task[c].kind # "build"
  PROVE  RolledBack(c)
<1> USE DEF LockInv, Shape, UndoInv, Failed
<1>1. ASSUME NEW r, End(c, r) PROVE r = "failed"
  BY <1>1 DEF End
<1>2. ASSUME NEW p, Goto(c, p) PROVE p = "idle"
  BY <1>2 DEF Goto
<1>3. ASSUME StartAdd(c) \/ StartUpdate(c) \/ StartRemove(c) \/ StartBuild(c) PROVE FALSE
  BY <1>3 DEF StartAdd, StartUpdate, StartRemove, StartBuild, Ready
<1>4. ASSUME Snapshot(c) \/ Remember(c) \/ LoadLock(c) PROVE FALSE
  BY <1>2, <1>4 DEF Snapshot, Remember, LoadLock, LoadForAdd, LoadForUpdate, LoadForRemove, LoadForBuild,
                    Loaded
<1>5. ASSUME HostStep(c) PROVE FALSE
  BY <1>2, <1>5 DEF HostStep, SaveLock, RenderGen, RenderMain, RenderGoMod
<1>6. ASSUME GoModStep(c) PROVE FALSE
  BY <1>1, <1>2, <1>6 DEF GoModStep, EditRequire, EditReplace, AfterReplace, DropRequire, DropReplace
<1>7. ASSUME EntryStep(c) PROVE FALSE
  BY <1>1, <1>2, <1>7 DEF EntryStep, CreateConfig, FillConfig, EnsureEntry, RemoveEntry
<1>8. ASSUME BuildStep(c) PROVE FALSE
  BY <1>1, <1>2, <1>8 DEF BuildStep, SyncFramework, NextModule, Tidy, Compile
<1>9. ASSUME Refuse(c) \/ Break(c) PROVE FALSE
  BY <1>2, <1>9 DEF Refuse, Break, Fails
<1>10. ASSUME Restore(c) PROVE FALSE
  BY <1>2, <1>10 DEF Restore, RemoveCreated, Truncate, Refill, RestoreBreaks
<1>11. ASSUME Crash(c) PROVE FALSE
  BY <1>1, <1>11 DEF Crash
<1> QED
  BY <1>3, <1>4, <1>5, <1>6, <1>7, <1>8, <1>9, <1>10, <1>11 DEF CommandStep

\* A command of plugins that reports an error, that nobody else wrote beside and
\* that could put everything back, has changed no file (plugin.go:118).
THEOREM FailureUndone == Spec => AllOrNothing
<1>1. ASSUME LockInv, UndoInv, [Next]_vars, NEW c \in Commands,
             Failed(c), task[c].kind # "build", alone[c], clean[c]
      PROVE  disk' = snap[c]
  <2>1. CommandStep(c)
    <3>1. ASSUME NEW d \in Commands \ {c}, CommandStep(d) PROVE FALSE
      BY <1>1, <3>1, CommandLocal DEF Failed, Local
    <3>2. ~(UNCHANGED commandVars)
      BY <1>1 DEF Failed, commandVars
    <3> QED BY <1>1, <3>1, <3>2 DEF Next, Command, Editor, vars
  <2>2. RolledBack(c)
    BY <1>1, <2>1, FailedAfterRollback
  <2>3. Remembers(c)
    BY <1>1, <2>2 DEF RolledBack, LockInv, LocksInHand, Remembers
  <2>4. \A f : ~StillOut(c, f)
    BY <2>2 DEF RolledBack, StillOut
  <2>5. \A f \in Files : disk[f] = snap[c][f]
    BY <1>1, <2>2, <2>3, <2>4 DEF RolledBack, UndoInv, Undoable
  <2>6. disk = snap[c]
    <3>1. [f \in Files |-> disk[f]] = [f \in Files |-> snap[c][f]]
      BY <2>5
    <3>2. Whole(disk) /\ Whole(snap[c])
      BY <1>1, <2>3 DEF UndoInv, CommandSound
    <3> QED BY <3>1, <3>2, Zenon DEF Whole
  <2> QED BY <2>2, <2>6 DEF RolledBack
<1>2. LockInv /\ UndoInv /\ [Next]_vars =>
        [\A c \in Commands :
           Failed(c) /\ task[c].kind # "build" /\ alone[c] /\ clean[c] => disk' = snap[c]]_commandsDisk
  BY <1>1
<1> QED
  BY <1>2, InitLockInv, NextLockInv, InitUndoInv, NextUndoInv, PTL DEF Spec, AllOrNothing

-----------------------------------------------------------------------------
(* Why BuildHeals, CommitAgrees and StartsAsBefore hold. *)

FilesTyped(files) ==
  /\ files["lock"] \in LooseLocks \cup {Nil, Empty}
  /\ files["gen"] \in Registries \cup {Nil, Empty}
  /\ files["gomod"] \in GoMods \cup {Nil, Empty}

TaskTyped(t) ==
  /\ t.kind \in {"add", "update", "remove", "build"}
  /\ t.kind # "build" => t.id \in Ids
  /\ t.kind = "add" => /\ t.module \in Modules
                       /\ t.version \in Versions \cup {Nil} /\ t.replace \in Paths \cup {Nil}
  /\ t.kind = "update" => /\ t.version \in Versions \cup {Nil, Keep}
                          /\ t.replace \in Paths \cup {Nil, Keep}

AboutModule == {"require", "replace", "droprequire", "dropreplace"}
HostPhases == {"lock", "gen", "main", "gomod"}

\* Which kinds of commands come to a phase.
Comes(kind, place) ==
  /\ place \in {"droprequire", "dropreplace"} => kind = "remove"
  /\ place \in {"config", "fill"} => kind = "add"
  /\ place = "entry" => kind \in {"add", "remove"}
  /\ place \in {"require", "replace"} => kind \in {"add", "update", "build"}
  /\ place \in {"framework", "modules", "tidy", "compile"} => kind = "build"

ModuleRecord == {r \in LooseRecord : r.module \in Modules}

CommandTyped(c) ==
  /\ plan[c] \in LooseLocks
  /\ Remembers(c) => FilesTyped(snap[c])
  /\ phase[c] # "idle" => TaskTyped(task[c]) /\ Comes(task[c].kind, phase[c])
  /\ \/ phase[c] \in AboutModule
     \/ phase[c] \in HostPhases /\ task[c].kind \in {"add", "update"}
     => item[c] \in ModuleRecord
  /\ phase[c] \in HostPhases /\ task[c].kind = "remove" => item[c] \in LooseRecord
  /\ phase[c] = "framework" => todo[c] = Externals(plan[c])
  /\ phase[c] \in {"modules", "require", "replace"} /\ task[c].kind = "build" =>
       todo[c] \subseteq Externals(plan[c])

TypedInv ==
  /\ FilesTyped(disk)
  /\ DOMAIN item = Commands /\ DOMAIN todo = Commands
  /\ \A c \in Commands : CommandTyped(c)

\* go.mod names the source of a record.
SourceIn(gomod, r) ==
  /\ Sourced(r) => gomod.require[r.module] = Required(r)
  /\ gomod.replace[r.module] = r.replace

\* go.mod with the version of a record.
Needed(g, r) ==
  IF Sourced(r) THEN [g EXCEPT !["require"][r.module] = Required(r)] ELSE g

\* ... and with its replacement, too.
Edited(g, r) == [Needed(g, r) EXCEPT !["replace"][r.module] = r.replace]

\* What a build has done so far, if nobody else has written since it read the lock.
BuildCourse(c) ==
  /\ Load(disk["lock"]) = plan[c]
  /\ phase[c] \notin {"lock", "gen"} => disk["gen"] = Gen(plan[c])
  /\ phase[c] \in {"modules", "require", "replace"} =>
       \A j \in Externals(plan[c]) \ todo[c] :
         \/ SourceIn(disk["gomod"], plan[c][j])
         \/ phase[c] # "modules" /\ plan[c][j].module = item[c].module
  /\ phase[c] \in {"require", "replace"} =>
       \E j \in Externals(plan[c]) : item[c] = plan[c][j]
  /\ phase[c] = "replace" /\ Sourced(item[c]) =>
       disk["gomod"].require[item[c].module] = Required(item[c])
  /\ phase[c] \in {"tidy", "compile"} => Synced(disk["gomod"], plan[c])

\* What a command about plugins makes of the lock it remembers.
Outcome(c) ==
  LET before == Load(snap[c]["lock"])
      i == task[c].id IN
  \/ /\ task[c].kind = "add" /\ before[i] = Nil
     /\ plan[c] = [before EXCEPT ![i] = NewRecord(c)] /\ item[c] = NewRecord(c)
  \/ /\ task[c].kind = "update" /\ i \in Externals(before)
     /\ plan[c] = Updated(before, i, task[c].version, task[c].replace, Keep)
     /\ item[c] = plan[c][i]
  \/ /\ task[c].kind = "remove" /\ before[i] # Nil
     /\ plan[c] = [before EXCEPT ![i] = Nil] /\ item[c] = before[i]

\* How far it has come with go.mod, if the files agreed when it began.
GoModCourse(c) ==
  LET g == snap[c]["gomod"]
      of == item[c].module IN
  /\ phase[c] \in HostPhases \cup {"require", "droprequire"} => disk["gomod"] = g
  /\ phase[c] = "replace" => disk["gomod"] = Needed(g, item[c])
  /\ phase[c] = "dropreplace" => disk["gomod"] = [g EXCEPT !.require[of] = Nil]
  /\ phase[c] \in {"droprequire", "dropreplace"} => Unused(c)
  /\ phase[c] \in {"config", "fill", "entry"} =>
       disk["gomod"] \notin {Nil, Empty} /\ Exact(disk["gomod"], plan[c])

\* What it has done so far, if nobody else has written since it remembered the files.
Course(c) ==
  /\ \A j \in Ids : disk[j] = snap[c][j]
  /\ \/ disk["config"] = snap[c]["config"] /\ phase[c] # "fill"
     \/ /\ task[c].kind = "add" /\ phase[c] \in {"fill", "entry"}
        /\ snap[c]["config"] = Nil
  /\ phase[c] = "load" => disk = snap[c]
  /\ phase[c] # "load" => Outcome(c)
  /\ phase[c] \notin {"load", "lock"} => Load(disk["lock"]) = plan[c]
  /\ Consistent(snap[c]) /\ phase[c] # "load" =>
       /\ phase[c] \notin {"lock", "gen"} => disk["gen"] = Gen(plan[c])
       /\ GoModCourse(c)

CourseAt(c) ==
  alone[c] =>
    /\ phase[c] \in Writing \ {"load"} /\ task[c].kind = "build" => BuildCourse(c)
    /\ phase[c] \in Writing /\ Remembers(c) => Course(c)

CourseInv == \A c \in Commands : CourseAt(c)

\* Reading a file that is written gives what was written.
LEMMA LoadWritten ==
  /\ \A l \in LooseLocks : Load(l) = l /\ l # Nil /\ l # Empty
  /\ \A g \in Registries : Load(g) = g /\ g # Nil /\ g # Empty
  /\ \A g \in GoMods : g # Nil /\ g # Empty
BY ContentsAssumption DEF Load

LEMMA LoadTyped ==
  ASSUME NEW files, FilesTyped(files)
  PROVE  Load(files["lock"]) \in LooseLocks /\ Load(files["gen"]) \in Registries
BY DEF FilesTyped, Load, NoPlugins, LooseLocks, Registries

\* A record is of a module or builtin.
LEMMA RecordKinds ==
  /\ \A r \in LooseRecord : r.module # Builtin => r \in ModuleRecord
  /\ BuiltinRecord \in LooseRecord /\ BuiltinRecord.module = Builtin
  /\ \A r \in ModuleRecord : /\ r \in LooseRecord /\ r.module \in Modules /\ r.module # Builtin
                             /\ r.version \in Versions \cup {Nil}
                             /\ r.replace \in Paths \cup {Nil}
                             /\ Required(r) \in Versions \cup {Placeholder}
BY FilesAssumption DEF LooseRecord, ModuleRecord, BuiltinRecord, Required

LEMMA ExternalRecords ==
  ASSUME NEW lock \in LooseLocks, NEW i \in Externals(lock)
  PROVE  i \in Ids /\ lock[i] \in ModuleRecord
BY RecordKinds, FilesAssumption DEF Externals, LooseLocks

LEMMA GenTyped == \A lock \in LooseLocks : Gen(lock) \in Registries
<1> SUFFICES ASSUME NEW lock \in LooseLocks PROVE Gen(lock) \in Registries
  OBVIOUS
<1>1. \A i \in Externals(lock) : lock[i].module \in Modules
  BY ExternalRecords, RecordKinds
<1> QED BY <1>1 DEF Gen, Registries

LEMMA EditTyped ==
  ASSUME NEW g \in GoMods, NEW of \in Modules
  PROVE  /\ \A v \in Versions \cup {Placeholder, Nil} :
              /\ [g EXCEPT !["require"][of] = v] \in GoMods
              /\ [g EXCEPT !["require"][of] = v].replace = g.replace
              /\ [g EXCEPT !["require"][of] = v].require =
                   [x \in Modules |-> IF x = of THEN v ELSE g.require[x]]
         /\ \A r \in Paths \cup {Nil} :
              /\ [g EXCEPT !["replace"][of] = r] \in GoMods
              /\ [g EXCEPT !["replace"][of] = r].require = g.require
              /\ [g EXCEPT !["replace"][of] = r].replace =
                   [x \in Modules |-> IF x = of THEN r ELSE g.replace[x]]
BY DEF GoMods

LEMMA UpdatedTyped ==
  ASSUME NEW lock \in LooseLocks, NEW i \in Externals(lock),
         NEW v \in Versions \cup {Nil, Keep}, NEW r \in Paths \cup {Nil, Keep}
  PROVE  LET new == Updated(lock, i, v, r, Keep)
         IN  /\ new \in LooseLocks
             /\ new[i] \in ModuleRecord /\ new[i].module = lock[i].module
             /\ i \in Externals(new)
             /\ \A j \in Ids : /\ new[j] = Nil <=> lock[j] = Nil
                               /\ lock[j] # Nil => new[j].module = lock[j].module
<1> DEFINE old == lock[i]
           fresh == [module |-> old.module, version |-> Kept(v, old.version, Keep),
                     replace |-> Kept(r, old.replace, Keep)]
           new == Updated(lock, i, v, r, Keep)
<1>1. old \in ModuleRecord /\ i \in Ids /\ old # Nil
  BY ExternalRecords DEF Externals
<1>2. Kept(v, old.version, Keep) \in Versions \cup {Nil} /\ Kept(r, old.replace, Keep) \in Paths \cup {Nil}
  BY <1>1, RecordKinds DEF Kept
<1>3. fresh \in [module : Modules, version : Versions \cup {Nil}, replace : Paths \cup {Nil}]
  BY <1>1, <1>2, RecordKinds
<1>4. fresh \in ModuleRecord
  BY <1>3 DEF ModuleRecord, LooseRecord
<1>5. new = [j \in Ids |-> IF lock[j] # Nil /\ lock[j].module = old.module THEN fresh ELSE lock[j]]
  BY DEF Updated
<1>6. fresh.module = old.module
  OBVIOUS
<1>7. Nil \notin ModuleRecord
  BY ContentsAssumption DEF ModuleRecord
<1> HIDE DEF old, fresh, new
<1>8. new \in LooseLocks
  BY <1>4, <1>5, RecordKinds DEF LooseLocks
<1>9. new[i] = fresh
  BY <1>1, <1>5 DEF old
<1>10. \A j \in Ids : (new[j] = Nil <=> lock[j] = Nil) /\ (lock[j] # Nil => new[j].module = lock[j].module)
  BY <1>4, <1>5, <1>6, <1>7
<1>11. i \in Externals(new)
  BY <1>1, <1>4, <1>7, <1>9, RecordKinds DEF Externals
<1> QED BY <1>4, <1>6, <1>8, <1>9, <1>10, <1>11 DEF old, fresh, new

\* A write keeps the files' types if its content has the file's.
LEMMA TypedWrite ==
  ASSUME Shape, Whole(disk), FilesTyped(disk), NEW c \in Processes, NEW f, NEW content,
         Write(c, f, content),
         f = "lock" => content \in LooseLocks \cup {Nil, Empty},
         f = "gen" => content \in Registries \cup {Nil, Empty},
         f = "gomod" => content \in GoMods \cup {Nil, Empty}
  PROVE  FilesTyped(disk')
<1>1. \A g \in Files : disk'[g] = IF g = f THEN content ELSE disk[g]
  BY WriteAlone
<1>2. {"lock", "gen", "gomod"} \subseteq Files
  BY DEF Files, HostFiles
<1> QED BY <1>1, <1>2 DEF FilesTyped

\* The rest of what no other command changes.
Untouched(d) == Local(d) /\ item'[d] = item[d] /\ todo'[d] = todo[d]

LEMMA CommandUntouched ==
  ASSUME LockInv, TypedInv, NEW c \in Commands, CommandStep(c)
  PROVE  /\ DOMAIN item' = Commands /\ DOMAIN todo' = Commands
         /\ \A d \in Commands \ {c} : Untouched(d)
<1> DEFINE Rest == /\ DOMAIN item' = Commands /\ DOMAIN todo' = Commands
                   /\ \A d \in Commands \ {c} : item'[d] = item[d] /\ todo'[d] = todo[d]
<1> USE DEF LockInv, Shape, TypedInv
<1>1. ASSUME \E r : End(c, r) PROVE Rest
  BY <1>1 DEF End
<1>2. ASSUME StartAdd(c) \/ StartUpdate(c) \/ StartRemove(c) \/ StartBuild(c) PROVE Rest
  BY <1>2 DEF StartAdd, StartUpdate, StartRemove, StartBuild, Start
<1>3. ASSUME Snapshot(c) \/ Remember(c) \/ LoadLock(c) PROVE Rest
  BY <1>3 DEF Snapshot, Remember, LoadLock, LoadForAdd, LoadForUpdate, LoadForRemove, LoadForBuild, Loaded
<1>4. ASSUME HostStep(c) PROVE Rest
  BY <1>4 DEF HostStep, SaveLock, RenderGen, RenderMain, RenderGoMod
<1>5. ASSUME ~(\E r : End(c, r)), GoModStep(c) PROVE Rest
  BY <1>5 DEF GoModStep, EditRequire, EditReplace, AfterReplace, DropRequire, DropReplace, locals
<1>6. ASSUME ~(\E r : End(c, r)), EntryStep(c) \/ BuildStep(c) PROVE Rest
  BY <1>6 DEF EntryStep, CreateConfig, FillConfig, EnsureEntry, RemoveEntry, BuildStep, SyncFramework,
              NextModule, Tidy, Compile
<1>7. ASSUME ~(\E r : End(c, r)), Refuse(c) \/ Break(c) PROVE Rest
  BY <1>7 DEF Refuse, Break, Fails
<1>8. ASSUME Restore(c) PROVE Rest
  BY <1>8 DEF Restore, RemoveCreated, Truncate, Refill, RestoreBreaks
<1>9. Rest
  BY <1>1, <1>2, <1>3, <1>4, <1>5, <1>6, <1>7, <1>8 DEF CommandStep, RolledBack, Crash
<1> QED BY <1>9, CommandLocal DEF Untouched

LEMMA OthersTyped ==
  ASSUME NEW d \in Commands, CommandTyped(d), Untouched(d)
  PROVE  CommandTyped(d)'
<1>1. Remembers(d)' = Remembers(d)
  BY DEF Untouched, Local, Remembers, Ongoing
<1> QED BY <1>1 DEF CommandTyped, Untouched, Local, FilesTyped

\* A command that has ended.
LEMMA EndTyped ==
  ASSUME LockInv, NEW c \in Commands, NEW r, End(c, r)
  PROVE  CommandTyped(c)'
<1>1. phase'[c] = "idle" /\ plan'[c] = NoPlugins
  BY DEF LockInv, Shape, End, Goto
<1>2. NoPlugins \in LooseLocks
  BY DEF NoPlugins, LooseLocks
<1> QED BY <1>1, <1>2 DEF CommandTyped, Ongoing, Remembers, AboutModule, HostPhases

\* A command that comes to another phase with the same plan.
LEMMA TypedAt ==
  ASSUME LockInv, TypedInv, NEW c \in Commands, phase[c] \in Writing \cup {"rollback", "refill"},
         NEW q \in (Writing \ {"load"}) \cup {"rollback", "refill"}, phase'[c] = q,
         UNCHANGED <<task, plan, snap>>,
         q \in Writing => Comes(task[c].kind, q),
         q \in AboutModule => item'[c] \in ModuleRecord,
         q \in HostPhases => phase[c] \in HostPhases /\ item' = item,
         q = "framework" => todo'[c] = Externals(plan[c]),
         q \in {"modules", "require", "replace"} /\ task[c].kind = "build" =>
           todo'[c] \subseteq Externals(plan[c])
  PROVE  CommandTyped(c)'
<1>1. phase'[c] = q /\ q \notin {"idle", "snapshot"}
  BY DEF Writing
<1>2. phase[c] \notin {"idle", "snapshot"}
  BY DEF Writing
<1>3. Remembers(c)' = Remembers(c)
  BY <1>1, <1>2 DEF Remembers, Ongoing
<1>4. plan'[c] \in LooseLocks /\ (Remembers(c)' => FilesTyped(snap'[c])) /\ TaskTyped(task'[c])
  BY <1>2, <1>3 DEF TypedInv, CommandTyped, FilesTyped
<1>5. Comes(task'[c].kind, q)
  BY DEF Comes
<1>6. HostPhases \cap AboutModule = {} /\ "framework" \notin HostPhases \cup AboutModule
  BY DEF HostPhases, AboutModule
<1> QED BY <1>1, <1>2, <1>4, <1>5, <1>6 DEF TypedInv, CommandTyped, FilesTyped

LEMMA TypedOn ==
  ASSUME LockInv, TypedInv, NEW c \in Commands, phase[c] \in Writing \cup {"rollback", "refill"},
         NEW q \in (Writing \ {"load"}) \cup {"rollback", "refill"}, Goto(c, q),
         UNCHANGED <<task, plan, snap>>,
         q \in Writing => Comes(task[c].kind, q),
         q \in AboutModule => item'[c] \in ModuleRecord,
         q \in HostPhases => phase[c] \in HostPhases /\ item' = item,
         q = "framework" => todo'[c] = Externals(plan[c]),
         q \in {"modules", "require", "replace"} /\ task[c].kind = "build" =>
           todo'[c] \subseteq Externals(plan[c])
  PROVE  CommandTyped(c)'
<1>1. phase'[c] = q
  BY DEF LockInv, Shape, Goto
<1> QED BY <1>1, TypedAt

LEMMA StartTyped ==
  ASSUME LockInv, TypedInv, NEW c \in Commands,
         StartAdd(c) \/ StartUpdate(c) \/ StartRemove(c) \/ StartBuild(c)
  PROVE  CommandTyped(c)'
<1> DEFINE old == Load(disk["lock"])
<1>1. old \in LooseLocks
  BY LoadTyped DEF TypedInv
<1>2. \A m : Lent(m).version \in Versions \cup {Nil} /\ Lent(m).replace \in Paths \cup {Nil}
  <2> SUFFICES ASSUME NEW m, OfModule(old, m) # {}
               PROVE  Lent(m).version \in Versions \cup {Nil} /\ Lent(m).replace \in Paths \cup {Nil}
    BY DEF Lent
  <2>1. PICK i \in OfModule(old, m) : i = CHOOSE j \in OfModule(old, m) : TRUE
    OBVIOUS
  <2>2. old[i] \in LooseRecord
    BY <1>1, <2>1 DEF OfModule, LooseLocks
  <2>3. Lent(m).version = old[i].version /\ Lent(m).replace = old[i].replace
    BY <2>1 DEF Lent
  <2> QED BY <2>2, <2>3 DEF LooseRecord, BuiltinRecord
<1> HIDE DEF old
<1>3. \E t, p : /\ Start(c, t, p) /\ TaskTyped(t)
                /\ p = IF t.kind = "build" THEN "load" ELSE "snapshot"
  <2>1. CASE StartAdd(c)
    <3>1. PICK i \in Ids, m \in Modules, v \in Versions \cup {Nil, Keep}, r \in Paths \cup {Nil, Keep} :
            LET replace == Kept(r, Lent(m).replace, Keep) IN
            \E pinned \in Pinned(Kept(v, Lent(m).version, Keep), replace) :
              Start(c, [kind |-> "add", id |-> i, module |-> m,
                        version |-> pinned, replace |-> replace], "snapshot")
      BY <2>1 DEF StartAdd
    <3>2. /\ Kept(r, Lent(m).replace, Keep) \in Paths \cup {Nil}
          /\ Kept(v, Lent(m).version, Keep) \in Versions \cup {Nil}
      BY <1>2 DEF Kept
    <3>3. Pinned(Kept(v, Lent(m).version, Keep), Kept(r, Lent(m).replace, Keep)) \subseteq Versions \cup {Nil}
      BY <3>2 DEF Pinned
    <3> QED BY <3>1, <3>2, <3>3 DEF TaskTyped
  <2>2. CASE StartUpdate(c)
    <3>1. PICK i \in Externals(old), v \in Versions \cup {Nil, Keep}, r \in Paths \cup {Nil, Keep} :
            LET wanted == Kept(v, old[i].version, Keep) IN
            \E pinned \in Pinned(wanted, Kept(r, old[i].replace, Keep)) :
              Start(c, [kind |-> "update", id |-> i, module |-> Nil,
                        version |-> IF pinned = wanted THEN v ELSE pinned,
                        replace |-> r], "snapshot")
      BY <2>2 DEF StartUpdate, old
    <3>2. i \in Ids /\ old[i].version \in Versions \cup {Nil}
      BY <1>1, ExternalRecords, RecordKinds
    <3>3. \A x : Pinned(Kept(v, old[i].version, Keep), x) \subseteq Versions \cup {Nil}
      BY <3>2 DEF Pinned, Kept
    <3> QED BY <3>1, <3>2, <3>3 DEF TaskTyped
  <2>3. CASE StartRemove(c)
    BY <2>3 DEF StartRemove, TaskTyped
  <2>4. CASE StartBuild(c)
    BY <2>4 DEF StartBuild, TaskTyped
  <2> QED BY <2>1, <2>2, <2>3, <2>4
<1>4. PICK t, p : /\ Start(c, t, p) /\ TaskTyped(t)
                  /\ p = IF t.kind = "build" THEN "load" ELSE "snapshot"
  BY <1>3
<1>5. phase'[c] = p /\ task'[c] = t /\ plan' = plan
  BY <1>4 DEF LockInv, Shape, Start, Goto
<1> QED
  BY <1>4, <1>5 DEF TypedInv, CommandTyped, Ongoing, Remembers, Comes, AboutModule, HostPhases

LEMMA SnapshotTyped ==
  ASSUME LockInv, TypedInv, NEW c \in Commands, Snapshot(c)
  PROVE  FilesTyped(disk') /\ CommandTyped(c)'
<1>1. /\ phase[c] = "snapshot" /\ phase'[c] = "remember" /\ snap'[c] = disk
      /\ disk' = disk /\ task' = task /\ plan' = plan
  BY DEF LockInv, Shape, Snapshot, Goto
<1> QED
  BY <1>1 DEF TypedInv, CommandTyped, FilesTyped, Comes, AboutModule, HostPhases

LEMMA RememberTyped ==
  ASSUME LockInv, TypedInv, NEW c \in Commands, Remember(c)
  PROVE  FilesTyped(disk') /\ CommandTyped(c)'
<1>1. /\ phase[c] = "remember" /\ Remembers(c) /\ DOMAIN snap[c] = Files
  BY DEF Remember, LockInv, LocksInHand, Remembers
<1>2. /\ phase'[c] \in {"remember", "load"} /\ UNCHANGED <<disk, task, plan>>
      /\ \A g \in Files : snap'[c][g] = snap[c][g] \/ snap'[c][g] = disk[g]
  BY <1>1, Remembering DEF LockInv
<1>3. {"lock", "gen", "gomod"} \subseteq Files
  BY DEF Files, HostFiles
<1>4. FilesTyped(snap'[c])
  BY <1>1, <1>2, <1>3 DEF TypedInv, CommandTyped, FilesTyped
<1> QED
  BY <1>1, <1>2, <1>4 DEF TypedInv, CommandTyped, FilesTyped, Comes, AboutModule, HostPhases,
     Remembers, Ongoing

\* The locks that commands work out.
Planned(c, lock, record, q) ==
  /\ Loaded(c, lock, record, q)
  /\ lock \in LooseLocks
  /\ q \in {"lock", "gen", "require"} /\ (q = "gen" => task[c].kind = "build")
  /\ q = "require" => task[c].kind = "update"
  /\ task[c].kind \in {"add", "update"} => record \in ModuleRecord
  /\ task[c].kind = "remove" => record \in LooseRecord

LEMMA PlannedTyped ==
  ASSUME LockInv, TypedInv, NEW c \in Commands, LoadLock(c)
  PROVE  \E lock, record, q : Planned(c, lock, record, q)
<1> DEFINE old == Load(disk["lock"])
           i == task[c].id
<1>1. old \in LooseLocks /\ TaskTyped(task[c])
  BY LoadTyped DEF TypedInv, LoadLock, CommandTyped
<1> HIDE DEF old
<1>2. CASE LoadForAdd(c, old)
  <2> DEFINE new == [old EXCEPT ![i] = NewRecord(c)]
  <2>1. NewRecord(c) \in ModuleRecord /\ i \in Ids
    BY <1>1, <1>2 DEF LoadForAdd, TaskTyped, NewRecord, ModuleRecord, LooseRecord
  <2>2. new \in LooseLocks
    BY <1>1, <2>1, RecordKinds DEF LooseLocks
  <2>3. Loaded(c, new, NewRecord(c), "lock") /\ task[c].kind = "add"
    BY <1>2 DEF LoadForAdd
  <2> HIDE DEF new
  <2>4. Planned(c, new, NewRecord(c), "lock")
    BY <2>1, <2>2, <2>3 DEF Planned
  <2> QED BY <2>4
<1>3. CASE LoadForUpdate(c, old)
  <2> DEFINE new == Updated(old, i, task[c].version, task[c].replace, Keep)
  <2>1. i \in Externals(old) /\ task[c].kind = "update"
    BY <1>3 DEF LoadForUpdate
  <2>2. new \in LooseLocks /\ new[i] \in ModuleRecord
    BY <1>1, <2>1, UpdatedTyped DEF TaskTyped
  <2>3. Loaded(c, new, new[i], "require") \/ Loaded(c, new, new[i], "lock")
    BY <1>3 DEF LoadForUpdate
  <2> HIDE DEF new
  <2>4. Planned(c, new, new[i], "require") \/ Planned(c, new, new[i], "lock")
    BY <2>1, <2>2, <2>3 DEF Planned
  <2> QED BY <2>4
<1>4. CASE LoadForRemove(c, old)
  <2> DEFINE new == [old EXCEPT ![i] = Nil]
  <2>1. old[i] \in LooseRecord /\ i \in Ids
    BY <1>1, <1>4 DEF LoadForRemove, TaskTyped, LooseLocks
  <2>2. new \in LooseLocks
    BY <1>1, <2>1 DEF LooseLocks
  <2>3. Loaded(c, new, old[i], "lock") /\ task[c].kind = "remove"
    BY <1>4 DEF LoadForRemove
  <2> HIDE DEF new
  <2>4. Planned(c, new, old[i], "lock")
    BY <2>1, <2>2, <2>3 DEF Planned
  <2> QED BY <2>4
<1>5. CASE LoadForBuild(c, old)
  <2>1. task[c].kind = "build"
    BY <1>5 DEF LoadForBuild
  <2>2. Loaded(c, old, Nil, "lock") \/ Loaded(c, old, Nil, "gen")
    BY <1>5 DEF LoadForBuild
  <2>3. Planned(c, old, Nil, "lock") \/ Planned(c, old, Nil, "gen")
    BY <1>1, <2>1, <2>2 DEF Planned
  <2> QED BY <2>3
<1> QED BY <1>2, <1>3, <1>4, <1>5 DEF LoadLock, old

LEMMA LoadStepTyped ==
  ASSUME LockInv, TypedInv, NEW c \in Commands, LoadLock(c)
  PROVE  FilesTyped(disk') /\ CommandTyped(c)'
<1>1. PICK lock, record, q : Planned(c, lock, record, q)
  BY PlannedTyped
<1>2. /\ phase[c] = "load" /\ phase'[c] = q /\ plan'[c] = lock /\ item'[c] = record
      /\ disk' = disk /\ task' = task /\ snap' = snap
  BY <1>1 DEF LockInv, Shape, TypedInv, LoadLock, Loaded, Goto, Planned
<1>3. Remembers(c)' = Remembers(c)
  BY <1>1, <1>2 DEF Remembers, Ongoing, Planned
<1> QED
  BY <1>1, <1>2, <1>3 DEF TypedInv, CommandTyped, FilesTyped, Comes, AboutModule, HostPhases, TaskTyped,
     Planned

LEMMA HostTyped ==
  ASSUME LockInv, UndoInv, TypedInv, NEW c \in Commands, HostStep(c)
  PROVE  FilesTyped(disk') /\ CommandTyped(c)'
<1> USE CommandsAssumption DEF LockInv, UndoInv, TypedInv
<1>1. CASE SaveLock(c)
  <2>1. FilesTyped(disk')
    BY <1>1, TypedWrite DEF SaveLock, CommandTyped
  <2> QED BY <1>1, <2>1, TypedOn DEF SaveLock, Writing, Comes, AboutModule, HostPhases
<1>2. CASE RenderGen(c)
  <2>1. FilesTyped(disk')
    BY <1>2, TypedWrite, GenTyped DEF RenderGen, CommandTyped
  <2> QED BY <1>2, <2>1, TypedOn DEF RenderGen, Writing, Comes, AboutModule, HostPhases
<1>3. CASE RenderMain(c)
  <2>1. FilesTyped(disk')
    BY <1>3, TypedWrite DEF RenderMain
  <2> QED BY <1>3, <2>1, TypedOn DEF RenderMain, Writing, Comes, AboutModule, HostPhases
<1>4. CASE RenderGoMod(c)
  <2>1. FreshGoMod \in GoMods
    BY DEF FreshGoMod, GoMods
  <2>2. FilesTyped(disk')
    BY <1>4, <2>1, TypedWrite DEF RenderGoMod, FilesTyped
  <2>3. /\ phase[c] = "gomod" /\ TaskTyped(task[c])
        /\ task[c].kind \in {"add", "update"} => item[c] \in ModuleRecord
        /\ task[c].kind = "remove" => item[c] \in LooseRecord
    BY <1>4 DEF RenderGoMod, CommandTyped, HostPhases
  <2>4. CASE task[c].kind \in {"add", "update"} /\ Goto(c, "require")
    BY <1>4, <2>2, <2>3, <2>4, TypedOn DEF RenderGoMod, Writing, Comes, AboutModule, HostPhases
  <2>5. CASE task[c].kind = "remove" /\ Unused(c) /\ Goto(c, "droprequire")
    <3>1. item[c] \in ModuleRecord
      BY <2>3, <2>5, RecordKinds DEF Unused
    <3> QED BY <1>4, <2>2, <2>5, <3>1, TypedOn DEF RenderGoMod, Writing, Comes, AboutModule, HostPhases
  <2>6. CASE task[c].kind = "remove" /\ Goto(c, "entry")
    BY <1>4, <2>2, <2>6, TypedOn DEF RenderGoMod, Writing, Comes, AboutModule, HostPhases
  <2>7. CASE task[c].kind = "build" /\ Goto(c, "framework")
    <3>1. todo'[c] = Externals(plan[c])
      BY <1>4, <2>7 DEF RenderGoMod
    <3> QED BY <1>4, <2>2, <2>7, <3>1, TypedOn DEF RenderGoMod, Writing, Comes, AboutModule, HostPhases
  <2> QED BY <1>4, <2>4, <2>5, <2>6, <2>7 DEF RenderGoMod
<1> QED BY <1>1, <1>2, <1>3, <1>4 DEF HostStep

\* An edit of go.mod.
LEMMA EditGoModTyped ==
  ASSUME LockInv, UndoInv, TypedInv, NEW c \in Commands, phase[c] \in AboutModule,
         NEW field \in {"require", "replace"}, NEW v, EditGoMod(c, field, item[c].module, v),
         v \in IF field = "require" THEN Versions \cup {Placeholder, Nil} ELSE Paths \cup {Nil}
  PROVE  FilesTyped(disk')
<1>1. disk["gomod"] \in GoMods /\ item[c].module \in Modules
  BY DEF TypedInv, FilesTyped, EditGoMod, CommandTyped, ModuleRecord
<1>2. [disk["gomod"] EXCEPT ![field][item[c].module] = v] \in GoMods
  BY <1>1, EditTyped
<1>3. Write(c, "gomod", [disk["gomod"] EXCEPT ![field][item[c].module] = v])
  BY DEF EditGoMod
<1> QED BY <1>2, <1>3, TypedWrite, CommandsAssumption DEF LockInv, UndoInv, TypedInv

LEMMA GoModTyped ==
  ASSUME LockInv, UndoInv, TypedInv, NEW c \in Commands, GoModStep(c)
  PROVE  FilesTyped(disk') /\ CommandTyped(c)'
<1>1. phase[c] \in AboutModule /\ phase[c] \in Writing
  BY DEF GoModStep, EditRequire, EditReplace, DropRequire, DropReplace, AboutModule, Writing
<1>2. item[c] \in ModuleRecord /\ TaskTyped(task[c]) /\ Comes(task[c].kind, phase[c])
  BY <1>1 DEF TypedInv, CommandTyped, AboutModule
<1>3. Required(item[c]) \in Versions \cup {Placeholder} /\ item[c].replace \in Paths \cup {Nil}
  BY <1>2, RecordKinds
<1>4. FilesTyped(disk')
  <2>1. CASE disk' = disk
    BY <2>1 DEF TypedInv, FilesTyped
  <2> QED
    BY <1>1, <1>3, <2>1, EditGoModTyped
    DEF GoModStep, EditRequire, EditReplace, DropRequire, DropReplace
<1>5. CASE EditRequire(c)
  <2>1. phase[c] = "require" /\ todo' = todo /\ item' = item
    BY <1>5 DEF EditRequire
  <2>2. task[c].kind = "build" => todo[c] \subseteq Externals(plan[c])
    BY <2>1 DEF TypedInv, CommandTyped
  <2>3. Comes(task[c].kind, "replace")
    BY <1>2, <2>1 DEF Comes
  <2> QED BY <1>1, <1>2, <1>4, <1>5, <2>1, <2>2, <2>3, TypedOn
          DEF EditRequire, Writing, AboutModule, HostPhases
<1>6. CASE EditReplace(c)
  <2>1. phase[c] = "replace"
    BY <1>6 DEF EditReplace
  <2>2. task[c].kind = "build" => todo[c] \subseteq Externals(plan[c])
    BY <2>1 DEF TypedInv, CommandTyped
  <2>3. CASE End(c, "ok")
    BY <1>4, <2>3, EndTyped
  <2>4. CASE task[c].kind = "add" /\ Goto(c, "config") /\ UNCHANGED <<locals, result>>
    BY <1>1, <1>4, <2>4, TypedOn DEF Writing, Comes, AboutModule, HostPhases, locals
  <2>5. CASE task[c].kind = "build" /\ Goto(c, "modules") /\ UNCHANGED <<locals, result>>
    BY <1>1, <1>4, <2>2, <2>5, TypedOn DEF Writing, Comes, AboutModule, HostPhases, locals
  <2> QED BY <1>6, <2>3, <2>4, <2>5 DEF EditReplace, AfterReplace
<1>7. CASE DropRequire(c)
  <2>1. task[c].kind = "remove"
    BY <1>2, <1>7 DEF Comes, DropRequire
  <2> QED BY <1>1, <1>2, <1>4, <1>7, <2>1, TypedOn DEF DropRequire, Writing, Comes, AboutModule, HostPhases
<1>8. CASE DropReplace(c)
  <2>1. task[c].kind = "remove"
    BY <1>2, <1>8 DEF Comes, DropReplace
  <2> QED BY <1>1, <1>4, <1>8, <2>1, TypedOn DEF DropReplace, Writing, Comes, AboutModule, HostPhases
<1> QED BY <1>5, <1>6, <1>7, <1>8 DEF GoModStep

LEMMA EntryTyped ==
  ASSUME LockInv, UndoInv, TypedInv, NEW c \in Commands, EntryStep(c)
  PROVE  FilesTyped(disk') /\ CommandTyped(c)'
<1>1. Ids \cap {"lock", "gen", "gomod"} = {}
  BY FilesAssumption DEF HostFiles
<1>2. /\ phase[c] \in {"config", "fill", "entry"}
      /\ task[c].kind \in {"add", "remove"} /\ task[c].id \in Ids
      /\ phase[c] \in {"config", "fill"} => task[c].kind = "add"
  BY DEF EntryStep, CreateConfig, FillConfig, EnsureEntry, RemoveEntry, TypedInv, CommandTyped,
         TaskTyped, Comes
<1>3. UNCHANGED <<disk, alone>> \/ \E f, content : f \in Ids \cup {"config"} /\ Write(c, f, content)
  BY <1>2 DEF EntryStep, CreateConfig, FillConfig, EnsureEntry, RemoveEntry
<1>4. FilesTyped(disk')
  BY <1>1, <1>3, TypedWrite, CommandsAssumption DEF LockInv, UndoInv, TypedInv, FilesTyped
<1>5. CASE CreateConfig(c) \/ FillConfig(c)
  <2>1. PICK q \in {"fill", "entry"} : Goto(c, q) /\ UNCHANGED <<task, plan, snap, item, todo>>
    BY <1>5 DEF CreateConfig, FillConfig
  <2>2. phase[c] \in Writing /\ task[c].kind = "add"
    BY <1>2, <1>5 DEF CreateConfig, FillConfig, Writing
  <2> QED BY <1>4, <2>1, <2>2, TypedOn DEF Writing, Comes, AboutModule, HostPhases
<1>6. CASE EnsureEntry(c) \/ RemoveEntry(c)
  BY <1>4, <1>6, EndTyped DEF EnsureEntry, RemoveEntry
<1> QED BY <1>5, <1>6 DEF EntryStep

\* What "go mod tidy" leaves of go.mod.
LEMMA TidiedKeeps ==
  ASSUME NEW g \in GoMods, NEW imported, NEW found \in [Modules -> Versions \cup {Placeholder}]
  PROVE  LET tidied == Tidied(g, imported, found) IN
         /\ tidied \in GoMods /\ tidied.replace = g.replace
         /\ \A x \in Modules \cap imported :
              g.require[x] # Nil => tidied.require[x] = g.require[x]
<1> DEFINE needed == [x \in Modules |-> IF x \notin imported THEN Nil
                                        ELSE IF g.require[x] = Nil THEN found[x] ELSE g.require[x]]
<1>1. Tidied(g, imported, found) = [g EXCEPT !.require = needed]
  BY DEF Tidied, GoMods
<1>2. needed \in [Modules -> Versions \cup {Placeholder, Nil}]
  BY DEF GoMods
<1>3. \A x \in Modules \cap imported : g.require[x] # Nil => needed[x] = g.require[x]
  OBVIOUS
<1> HIDE DEF needed
<1> QED BY <1>1, <1>2, <1>3 DEF GoMods

LEMMA BuildTyped ==
  ASSUME LockInv, UndoInv, TypedInv, NEW c \in Commands, BuildStep(c)
  PROVE  FilesTyped(disk') /\ CommandTyped(c)'
<1>1. /\ phase[c] \in {"framework", "modules", "tidy", "compile"} /\ phase[c] \in Writing
      /\ task[c].kind = "build" /\ plan[c] \in LooseLocks
      /\ phase[c] \in {"framework", "modules"} => todo[c] \subseteq Externals(plan[c])
  BY DEF BuildStep, SyncFramework, NextModule, Tidy, Compile, TypedInv, CommandTyped, TaskTyped,
         Comes, Writing
<1>2. CASE SyncFramework(c)
  BY <1>1, <1>2, TypedOn
  DEF SyncFramework, Writing, Comes, AboutModule, HostPhases, TypedInv, FilesTyped
<1>3. CASE NextModule(c)
  <2>1. FilesTyped(disk')
    BY <1>3 DEF NextModule, TypedInv, FilesTyped
  <2>2. CASE todo[c] = {}
    BY <1>1, <1>3, <2>1, <2>2, TypedOn DEF NextModule, Writing, Comes, AboutModule, HostPhases
  <2>3. CASE todo[c] # {}
    <3>1. PICK i \in todo[c] : /\ todo' = [todo EXCEPT ![c] = @ \ {i}]
                               /\ item' = [item EXCEPT ![c] = plan[c][i]]
                               /\ Goto(c, "require")
      BY <1>3, <2>3 DEF NextModule
    <3>2. item'[c] \in ModuleRecord /\ todo'[c] \subseteq Externals(plan[c])
      BY <1>1, <1>3, <3>1, ExternalRecords DEF TypedInv, NextModule
    <3> QED BY <1>1, <1>3, <2>1, <3>1, <3>2, TypedOn
            DEF NextModule, Writing, Comes, AboutModule, HostPhases
  <2> QED BY <2>2, <2>3
<1>4. CASE Tidy(c)
  <2> DEFINE g == disk["gomod"]
             imported == {Load(disk["gen"])[i] : i \in Ids}
  <2>1. PICK found \in [Modules -> Versions \cup {Placeholder}] :
          Write(c, "gomod", Tidied(g, imported, found))
    BY <1>4 DEF Tidy
  <2>2. g \in GoMods
    BY <1>4 DEF Tidy, TypedInv, FilesTyped
  <2> HIDE DEF imported
  <2>3. Tidied(g, imported, found) \in GoMods
    BY <2>2, TidiedKeeps
  <2>4. FilesTyped(disk')
    BY <2>1, <2>3, TypedWrite, CommandsAssumption DEF LockInv, UndoInv, TypedInv
  <2> QED BY <1>1, <1>4, <2>4, TypedOn DEF Tidy, Writing, Comes, AboutModule, HostPhases
<1>5. CASE Compile(c)
  BY <1>5, EndTyped DEF Compile, TypedInv, FilesTyped
<1> QED BY <1>2, <1>3, <1>4, <1>5 DEF BuildStep

LEMMA FailsTyped ==
  ASSUME LockInv, TypedInv, NEW c \in Commands, phase[c] \in Writing, Fails(c)
  PROVE  FilesTyped(disk') /\ CommandTyped(c)'
<1>1. FilesTyped(disk')
  BY DEF Fails, TypedInv, FilesTyped
<1>2. CASE End(c, "failed")
  BY <1>1, <1>2, EndTyped
<1>3. CASE ~End(c, "failed")
  BY <1>1, <1>3, TypedOn DEF Fails, Writing, AboutModule, HostPhases
<1> QED BY <1>2, <1>3

LEMMA RestoreTyped ==
  ASSUME LockInv, UndoInv, TypedInv, NEW c \in Commands, Restore(c)
  PROVE  FilesTyped(disk') /\ CommandTyped(c)'
<1>1. /\ phase[c] \in {"rollback", "refill"}
      /\ UNCHANGED <<task, plan, snap>>
      /\ phase'[c] \in {"rollback", "refill"}
  BY DEF Restore, RemoveCreated, Truncate, Refill, RestoreBreaks, Goto, LockInv, Shape
<1>2. CommandTyped(c)'
  BY <1>1, TypedAt DEF Writing, AboutModule, HostPhases
<1>3. FilesTyped(snap[c])
  BY <1>1 DEF LockInv, LocksInHand, TypedInv, CommandTyped, Remembers
<1>4. UNCHANGED <<disk, alone>> \/ \E f : Write(c, f, Empty) \/ Write(c, f, snap[c][f])
  BY DEF Restore, RemoveCreated, Truncate, Refill, RestoreBreaks
<1>5. FilesTyped(disk')
  BY <1>3, <1>4, TypedWrite, CommandsAssumption DEF LockInv, UndoInv, TypedInv, FilesTyped
<1> QED BY <1>2, <1>5

LEMMA CommandKeepsTyped ==
  ASSUME LockInv, UndoInv, TypedInv, NEW c \in Commands, CommandStep(c) PROVE TypedInv'
<1>1. FilesTyped(disk') /\ CommandTyped(c)'
  <2>1. CASE StartAdd(c) \/ StartUpdate(c) \/ StartRemove(c) \/ StartBuild(c)
    <3>1. disk' = disk
      BY <2>1 DEF StartAdd, StartUpdate, StartRemove, StartBuild, Start
    <3> QED BY <2>1, <3>1, StartTyped DEF TypedInv, FilesTyped
  <2>2. CASE Refuse(c) \/ Break(c)
    <3>1. phase[c] \in Writing /\ Fails(c)
      BY <2>2 DEF Refuse, Refused, Break, Writing
    <3> QED BY <3>1, FailsTyped
  <2>3. CASE RolledBack(c) \/ Crash(c)
    BY <2>3, EndTyped DEF RolledBack, Crash, TypedInv, FilesTyped
  <2> QED
    BY <2>1, <2>2, <2>3, SnapshotTyped, RememberTyped, LoadStepTyped, HostTyped, GoModTyped,
       EntryTyped, BuildTyped, RestoreTyped
    DEF CommandStep
<1>2. \A d \in Commands \ {c} : CommandTyped(d)'
  BY CommandUntouched, OthersTyped DEF TypedInv
<1> QED BY <1>1, <1>2, CommandUntouched DEF TypedInv

LEMMA NextTypedInv == LockInv /\ UndoInv /\ TypedInv /\ [Next]_vars => TypedInv'
<1> SUFFICES ASSUME LockInv, UndoInv, TypedInv, [Next]_vars PROVE TypedInv'
  OBVIOUS
<1>1. CASE \E c \in Commands : Command(c)
  BY <1>1, CommandKeepsTyped DEF Command
<1>2. CASE \E e \in Editors : Editor(e)
  <2>1. PICK e \in Editors : Editor(e)
    BY <1>2
  <2>2. UNCHANGED <<item, todo>> /\ \A d \in Commands : Untouched(d)
    BY <2>1 DEF Editor, commandVars, Untouched, Local
  <2>3. FilesTyped(disk')
    <3>1. CASE SaveEntry(e)
      <4>1. \E f \in Ids : \E content : Write(e, f, content)
        BY <3>1 DEF SaveEntry
      <4>2. Ids \cap {"lock", "gen", "gomod"} = {}
        BY FilesAssumption DEF HostFiles
      <4> QED BY <4>1, <4>2, TypedWrite, EditorsAssumption DEF LockInv, UndoInv, TypedInv
    <3>2. CASE ~SaveEntry(e)
      <4>1. disk' = disk
        BY <2>1, <3>2, EditorQuiet DEF Editor
      <4> QED BY <4>1 DEF TypedInv, FilesTyped
    <3> QED BY <3>1, <3>2
  <2> QED BY <2>2, <2>3, OthersTyped DEF TypedInv
<1>3. CASE UNCHANGED vars
  <2>1. UNCHANGED <<disk, item, todo>> /\ \A d \in Commands : Untouched(d)
    BY <1>3 DEF vars, commandVars, Untouched, Local
  <2> QED BY <2>1, OthersTyped DEF TypedInv, FilesTyped
<1> QED BY <1>1, <1>2, <1>3 DEF Next

LEMMA InitTypedInv == Init => TypedInv
<1> SUFFICES ASSUME Init PROVE TypedInv
  OBVIOUS
<1>1. NoPlugins \in LooseLocks
  BY DEF NoPlugins, LooseLocks
<1>2. \A c \in Commands : CommandTyped(c)
  BY <1>1 DEF Init, CommandsInit, CommandTyped, Ongoing, Remembers, AboutModule, HostPhases
<1>3. Ids \cap {"lock", "gen", "main", "gomod", "config"} = {}
  BY FilesAssumption DEF HostFiles
<1>4. ASSUME NEW main, disk = EmptyDirectory(main) PROVE FilesTyped(disk)
  BY <1>4 DEF EmptyDirectory, FilesTyped, Files, HostFiles
<1>5. ASSUME NEW l \in Locks0, NEW e \in Entries0, disk = Directory(l, e) PROVE FilesTyped(disk)
  <2>1. l \in LooseLocks
    BY ProjectAssumption DEF Locks, LooseLocks, Record, External, LooseRecord
  <2>2. GoModOf(l) \in GoMods
    <3>1. ASSUME NEW m \in Modules, OfModule(l, m) # {}
          PROVE  l[CHOOSE i \in OfModule(l, m) : TRUE] \in ModuleRecord
      <4>1. PICK i \in OfModule(l, m) : i = CHOOSE j \in OfModule(l, m) : TRUE
        BY <3>1
      <4> QED BY <2>1, <4>1 DEF OfModule, LooseLocks, ModuleRecord
    <3> DEFINE require == [m \in Modules |->
                  IF OfModule(l, m) = {} THEN Nil
                  ELSE Required(l[CHOOSE i \in OfModule(l, m) : TRUE])]
               replace == [m \in Modules |->
                  IF OfModule(l, m) = {} THEN Nil
                  ELSE l[CHOOSE i \in OfModule(l, m) : TRUE].replace]
    <3>2. require \in [Modules -> Versions \cup {Placeholder, Nil}]
      BY <3>1, RecordKinds
    <3>3. replace \in [Modules -> Paths \cup {Nil}]
      BY <3>1, RecordKinds
    <3>4. GoModOf(l) = [require |-> require, replace |-> replace]
      BY DEF GoModOf
    <3> HIDE DEF require, replace
    <3> QED BY <3>2, <3>3, <3>4 DEF GoMods
  <2>3. disk["lock"] = l /\ disk["gen"] = Gen(l) /\ disk["gomod"] = GoModOf(l)
    BY <1>5 DEF Directory, Files, HostFiles
  <2> QED BY <2>1, <2>2, <2>3, GenTyped DEF FilesTyped
<1> QED BY <1>2, <1>4, <1>5 DEF Init, CommandsInit, TypedInv

LEMMA FileNames ==
  /\ {"lock", "gen", "main", "gomod", "config"} \subseteq Files /\ Ids \subseteq Files
  /\ Ids \cap {"lock", "gen", "main", "gomod", "config"} = {}
BY FilesAssumption DEF Files, HostFiles

\* What a write does to the other files, seen by the one who writes.
LEMMA OwnWrite ==
  ASSUME LockInv, UndoInv, NEW c \in Commands, NEW f, NEW content, Write(c, f, content)
  PROVE  /\ alone'[c] => alone[c]
         /\ \A g \in {"lock", "gen", "main", "gomod", "config"} \cup Ids :
              disk'[g] = IF g = f THEN content ELSE disk[g]
BY WriteAlone, FileNames, CommandsAssumption DEF LockInv, UndoInv

\* Going on changes nothing of what a command has worked out.
LEMMA SameOutcome ==
  ASSUME NEW c, UNCHANGED <<task, plan, snap>>, item'[c] = item[c]
  PROVE  Outcome(c)' = Outcome(c) /\ Unused(c)' = Unused(c)
BY DEF Outcome, NewRecord, Unused, Load, Externals, Updated, OfModule, NoPlugins

LEMMA OthersCourse ==
  ASSUME NEW d \in Commands, CourseAt(d), Untouched(d), alone'[d] => alone[d] /\ disk' = disk
  PROVE  CourseAt(d)'
<1> SUFFICES ASSUME alone'[d] PROVE CourseAt(d)'
  BY DEF CourseAt
<1>1. /\ alone[d] /\ disk' = disk /\ phase'[d] = phase[d] /\ task'[d] = task[d]
      /\ plan'[d] = plan[d] /\ snap'[d] = snap[d] /\ item'[d] = item[d] /\ todo'[d] = todo[d]
  BY DEF Untouched, Local
<1>2. Remembers(d)' = Remembers(d)
  BY <1>1 DEF Remembers, Ongoing
<1>3. ASSUME BuildCourse(d) PROVE BuildCourse(d)'
  BY <1>1, <1>3 DEF BuildCourse, Load, NoPlugins, Gen, Externals, SourceIn, Required, Sourced, Synced
<1>4. Outcome(d)' = Outcome(d) /\ Unused(d)' = Unused(d)
  BY <1>1 DEF Outcome, NewRecord, Unused, Load, Externals, Updated, OfModule, NoPlugins
<1>5. ASSUME GoModCourse(d) PROVE GoModCourse(d)'
  BY <1>1, <1>4, <1>5 DEF GoModCourse, Exact, Synced, Externals, OfModule, Required, Sourced, Needed
<1>6. ASSUME Course(d) PROVE Course(d)'
  <2>1. Consistent(snap[d])' = Consistent(snap[d])
    BY <1>1 DEF Consistent, Load, NoPlugins, Gen, Exact, Synced, Externals, OfModule, Required, Sourced
  <2>2. Load(disk["lock"])' = Load(disk["lock"]) /\ Gen(plan[d])' = Gen(plan[d])
    BY <1>1 DEF Load, NoPlugins, Gen, Externals
  <2> QED BY <1>1, <1>4, <1>5, <1>6, <2>1, <2>2 DEF Course
<1> QED BY <1>1, <1>2, <1>3, <1>6 DEF CourseAt

-----------------------------------------------------------------------------
\* The files of a lock whose module i has got a new source ...
LEMMA EditExact ==
  ASSUME NEW g \in GoMods, NEW before \in LooseLocks, NEW new \in LooseLocks, NEW i \in Externals(new),
         ValidLock(new), Exact(g, before),
         \A j \in Ids : new[j] # Nil /\ new[j].module # new[i].module => before[j] = new[j],
         \A j \in Ids : before[j] # Nil => new[j] # Nil /\ new[j].module = before[j].module
  PROVE  Exact(Edited(g, new[i]), new)
<1> DEFINE of == new[i].module
           required == Needed(g, new[i])
           after == [required EXCEPT !["replace"][of] = new[i].replace]
<1>1. /\ i \in Ids /\ new[i] \in ModuleRecord /\ of \in Modules
      /\ Required(new[i]) \in Versions \cup {Placeholder} /\ new[i].replace \in Paths \cup {Nil}
  BY ExternalRecords, RecordKinds
<1>2. /\ required \in GoMods /\ required.replace = g.replace
      /\ \A x \in Modules :
           required.require[x] = IF x = of /\ Sourced(new[i]) THEN Required(new[i]) ELSE g.require[x]
  <2>1. CASE Sourced(new[i])
    <3>1. required = [g EXCEPT !["require"][of] = Required(new[i])]
      BY <2>1 DEF Needed
    <3> HIDE DEF required
    <3> DEFINE v == Required(new[i])
    <3>2. v \in Versions \cup {Placeholder, Nil}
      BY <1>1
    <3> HIDE DEF v
    <3>3. /\ [g EXCEPT !["require"][of] = v] \in GoMods
          /\ [g EXCEPT !["require"][of] = v].replace = g.replace
          /\ [g EXCEPT !["require"][of] = v].require =
               [x \in Modules |-> IF x = of THEN v ELSE g.require[x]]
      BY <1>1, <3>2 DEF GoMods
    <3>4. required = [g EXCEPT !["require"][of] = v]
      BY <3>1 DEF v
    <3> QED BY <2>1, <3>3, <3>4 DEF v
  <2>2. CASE ~Sourced(new[i])
    BY <2>2 DEF Needed
  <2> QED BY <2>1, <2>2
<1> HIDE DEF required
<1>3. /\ after.require = required.require
      /\ after.replace = [x \in Modules |-> IF x = of THEN new[i].replace ELSE g.replace[x]]
  BY <1>1, <1>2 DEF GoMods
<1> HIDE DEF after, of
<1>4. ASSUME NEW j \in Externals(new)
      PROVE  /\ Sourced(new[j]) => after.require[new[j].module] = Required(new[j])
             /\ after.replace[new[j].module] = new[j].replace
  <2>1. j \in Ids /\ new[j] \in ModuleRecord /\ new[j].module \in Modules /\ new[j] # Nil
    BY <1>4, ExternalRecords, RecordKinds DEF Externals
  <2>2. CASE new[j].module = of
    <3>1. SameSource(new[i], new[j])
      BY <1>1, <2>1, <2>2, RecordKinds, ContentsAssumption DEF ValidLock, SharesSource, of, ModuleRecord
    <3> QED BY <1>2, <1>3, <2>1, <2>2, <3>1 DEF SameSource, Required, Sourced
  <2>3. CASE new[j].module # of
    <3>1. j \in Externals(before) /\ before[j] = new[j]
      BY <1>4, <2>1, <2>3 DEF Externals, of
    <3> QED BY <1>2, <1>3, <2>1, <2>3, <3>1 DEF Exact, Synced
  <2> QED BY <2>2, <2>3
<1>5. ASSUME NEW x \in Modules, OfModule(new, x) = {} PROVE after.require[x] = Nil /\ after.replace[x] = Nil
  <2>1. OfModule(before, x) = {}
    BY <1>5 DEF OfModule
  <2>2. x # of
    BY <1>1, <1>5, ContentsAssumption DEF OfModule, of, ModuleRecord
  <2> QED BY <1>2, <1>3, <1>5, <2>1, <2>2 DEF Exact
<1>6. Exact(after, new)
  BY <1>4, <1>5 DEF Exact, Synced
<1> QED BY <1>6 DEF Edited, after, required, of

\* ... and of one that a record was taken out of.
LEMMA CutExact ==
  ASSUME NEW g \in GoMods, NEW before \in LooseLocks, NEW i \in Ids, before[i] # Nil, Exact(g, before)
  PROVE  LET new == [before EXCEPT ![i] = Nil]
             of == before[i].module
             dropped == [g EXCEPT !["require"][of] = Nil] IN
         /\ of # Builtin /\ OfModule(new, of) = {} =>
              Exact([dropped EXCEPT !["replace"][of] = Nil], new)
         /\ ~(of # Builtin /\ OfModule(new, of) = {}) => Exact(g, new)
<1> DEFINE new == [before EXCEPT ![i] = Nil]
           of == before[i].module
           dropped == [g EXCEPT !["require"][of] = Nil]
           after == [dropped EXCEPT !["replace"][of] = Nil]
<1>1. new = [j \in Ids |-> IF j = i THEN Nil ELSE before[j]]
  BY DEF LooseLocks
<1> HIDE DEF new
<1>2. \A j \in Externals(new) : j \in Externals(before) /\ new[j] = before[j] /\ j # i
  BY <1>1 DEF Externals
<1>3. \A x : OfModule(new, x) = OfModule(before, x) \ {i}
  BY <1>1 DEF OfModule
<1>4. \A j \in Externals(before) : before[j].module \in Modules
  BY ExternalRecords, RecordKinds
<1>5. ASSUME of # Builtin, OfModule(new, of) = {} PROVE Exact(after, new)
  <2>1. of \in Modules
    BY <1>4, <1>5 DEF Externals
  <2>2. /\ dropped \in GoMods /\ dropped.replace = g.replace
        /\ dropped.require = [x \in Modules |-> IF x = of THEN Nil ELSE g.require[x]]
    BY <2>1 DEF GoMods
  <2> HIDE DEF dropped
  <2>3. /\ after.require = dropped.require
        /\ after.replace = [x \in Modules |-> IF x = of THEN Nil ELSE g.replace[x]]
    BY <2>1, <2>2 DEF GoMods
  <2> HIDE DEF after
  <2>4. \A j \in Externals(new) : new[j].module # of
    BY <1>5 DEF OfModule, Externals
  <2>5. Synced(after, new)
    BY <1>2, <1>4, <2>2, <2>3, <2>4 DEF Exact, Synced
  <2>6. \A x \in Modules \ {of} : OfModule(new, x) = {} => OfModule(before, x) = {}
    BY <1>3 DEF OfModule
  <2> QED BY <2>2, <2>3, <2>5, <2>6 DEF Exact
<1>6. ASSUME ~(of # Builtin /\ OfModule(new, of) = {}) PROVE Exact(g, new)
  <2>1. Synced(g, new)
    BY <1>2 DEF Exact, Synced
  <2>2. \A x \in Modules : OfModule(new, x) = {} => OfModule(before, x) = {}
    BY <1>3, <1>6, FilesAssumption DEF OfModule
  <2> QED BY <2>1, <2>2 DEF Exact
<1> QED BY <1>5, <1>6 DEF new, dropped, after

-----------------------------------------------------------------------------
\* A build, step by step.
LEMMA LoadBuild ==
  ASSUME LockInv, TypedInv, NEW c \in Commands, LoadLock(c), task[c].kind = "build"
  PROVE  BuildCourse(c)'
<1> DEFINE old == Load(disk["lock"])
<1>1. \E q \in {"lock", "gen"} : Loaded(c, old, Nil, q)
  BY DEF LoadLock, LoadForAdd, LoadForUpdate, LoadForRemove, LoadForBuild
<1>2. phase'[c] \in {"lock", "gen"} /\ plan'[c] = old /\ disk' = disk
  BY <1>1 DEF Loaded, LockInv, Shape, Goto
<1>3. Load(disk["lock"])' = old
  BY <1>2 DEF Load, NoPlugins
<1> HIDE DEF old
<1> QED BY <1>2, <1>3 DEF BuildCourse

LEMMA HostBuild ==
  ASSUME LockInv, UndoInv, TypedInv, CourseInv, NEW c \in Commands, HostStep(c), alone'[c],
         task[c].kind = "build"
  PROVE  BuildCourse(c)'
<1>1. /\ phase[c] \in HostPhases /\ plan' = plan /\ plan[c] \in LooseLocks
      /\ UNCHANGED <<disk, alone>> \/ \E f \in HostPhases : \E content : Write(c, f, content)
  BY DEF HostStep, SaveLock, RenderGen, RenderMain, RenderGoMod, TypedInv, CommandTyped, HostPhases
<1>2. alone[c]
  BY <1>1, OwnWrite
<1>3. BuildCourse(c)
  BY <1>1, <1>2 DEF CourseInv, CourseAt, HostPhases, Writing
<1>4. /\ SaveLock(c) => phase[c] = "lock" /\ phase'[c] = "gen" /\ disk'["lock"] = plan[c]
      /\ RenderGen(c) => /\ phase[c] = "gen" /\ phase'[c] = "main" /\ disk'["gen"] = Gen(plan[c])
                         /\ disk'["lock"] = disk["lock"]
      /\ RenderMain(c) => /\ phase[c] = "main" /\ phase'[c] = "gomod"
                          /\ disk'["lock"] = disk["lock"] /\ disk'["gen"] = disk["gen"]
      /\ RenderGoMod(c) => /\ phase[c] = "gomod" /\ phase'[c] = "framework"
                           /\ disk'["lock"] = disk["lock"] /\ disk'["gen"] = disk["gen"]
  BY OwnWrite DEF SaveLock, RenderGen, RenderMain, RenderGoMod, Goto, LockInv, Shape
<1>5. Load(plan[c]) = plan[c]
  BY <1>1, LoadWritten
<1>6. /\ Load(disk["lock"])' = Load(disk'["lock"]) /\ Gen(plan[c])' = Gen(plan[c]) /\ plan'[c] = plan[c]
  BY <1>1 DEF Load, NoPlugins, Gen, Externals
<1> QED BY <1>3, <1>4, <1>5, <1>6 DEF HostStep, BuildCourse

LEMMA GoModBuild ==
  ASSUME LockInv, UndoInv, TypedInv, CourseInv, NEW c \in Commands, GoModStep(c), alone'[c],
         task[c].kind = "build"
  PROVE  BuildCourse(c)'
<1> DEFINE g == disk["gomod"]
           of == item[c].module
<1>0. /\ phase[c] \in AboutModule /\ phase[c] \in Writing \ {"load"} /\ phase[c] # "idle"
      /\ UNCHANGED <<disk, alone>> \/ \E content : Write(c, "gomod", content)
  BY DEF GoModStep, EditRequire, EditReplace, DropRequire, DropReplace, EditGoMod, AboutModule, Writing
<1>1. alone[c] /\ disk'["lock"] = disk["lock"] /\ disk'["gen"] = disk["gen"]
  BY <1>0, OwnWrite
<1>2. BuildCourse(c) /\ Comes("build", phase[c]) /\ plan[c] \in LooseLocks
  BY <1>0, <1>1 DEF CourseInv, CourseAt, TypedInv, CommandTyped
<1>3. phase[c] \in {"require", "replace"}
  BY <1>0, <1>2 DEF Comes, AboutModule
<1>4. item[c] \in ModuleRecord /\ of \in Modules /\ Required(item[c]) \in Versions \cup {Placeholder}
  BY <1>0, RecordKinds DEF TypedInv, CommandTyped
<1>5. ASSUME NEW field, NEW v, EditGoMod(c, field, of, v) PROVE g \in GoMods
  BY <1>5 DEF TypedInv, FilesTyped, EditGoMod
<1>6. UNCHANGED <<plan, item, todo>>
  BY DEF GoModStep, EditRequire, EditReplace, AfterReplace, DropRequire, DropReplace, locals
<1>7. /\ Load(disk["lock"])' = plan'[c] /\ disk'["gen"] = Gen(plan[c])'
      /\ Externals(plan[c])' = Externals(plan[c])
  BY <1>1, <1>2, <1>3, <1>6 DEF BuildCourse, Load, NoPlugins, Gen, Externals
<1>8. \A j \in Externals(plan[c]) : plan[c][j].module \in Modules
  BY <1>2, ExternalRecords, RecordKinds
<1>9. CASE EditRequire(c)
  <2>1. phase[c] = "require" /\ phase'[c] = "replace"
    BY <1>9 DEF EditRequire, Goto, LockInv, Shape
  <2>2. Required(item[c])' = Required(item[c]) /\ Sourced(item[c])' = Sourced(item[c])
    BY <1>6 DEF Required, Sourced
  <2>3. CASE Sourced(item[c])
    <3>1. EditGoMod(c, "require", of, Required(item[c]))
      BY <1>9, <2>3 DEF EditRequire
    <3>2. disk'["gomod"] = [g EXCEPT !["require"][of] = Required(item[c])]
      BY <3>1, OwnWrite DEF EditGoMod
    <3>3. /\ disk'["gomod"].replace = g.replace
          /\ disk'["gomod"].require = [x \in Modules |-> IF x = of THEN Required(item[c]) ELSE g.require[x]]
      BY <1>4, <1>5, <3>1, <3>2 DEF GoMods
    <3>4. \A j \in Externals(plan[c]) \ todo[c] :
            \/ SourceIn(disk["gomod"], plan[c][j])' \/ plan[c][j].module = of
      BY <1>2, <1>6, <1>8, <2>1, <3>3 DEF BuildCourse, SourceIn, Required, Sourced
    <3>5. disk'["gomod"].require[of] = Required(item[c])
      BY <1>4, <3>3
    <3> QED BY <1>2, <1>6, <1>7, <2>1, <2>2, <3>4, <3>5 DEF BuildCourse
  <2>4. CASE ~Sourced(item[c])
    <3>1. disk' = disk
      BY <1>9, <2>4 DEF EditRequire
    <3>2. \A j \in Externals(plan[c]) \ todo[c] :
            \/ SourceIn(disk["gomod"], plan[c][j])' \/ plan[c][j].module = of
      BY <1>2, <1>6, <2>1, <3>1 DEF BuildCourse, SourceIn, Required, Sourced
    <3> QED BY <1>2, <1>6, <1>7, <2>1, <2>2, <2>4, <3>2 DEF BuildCourse
  <2> QED BY <2>3, <2>4
<1>10. CASE EditReplace(c)
  <2>1. /\ phase[c] = "replace" /\ phase'[c] = "modules"
        /\ disk'["gomod"] = [g EXCEPT !["replace"][of] = item[c].replace]
    BY <1>10, OwnWrite DEF EditReplace, AfterReplace, EditGoMod, Goto, LockInv, Shape
  <2>2. /\ disk'["gomod"].require = g.require
        /\ disk'["gomod"].replace = [x \in Modules |-> IF x = of THEN item[c].replace ELSE g.replace[x]]
    <3>1. item[c].replace \in Paths \cup {Nil}
      BY <1>4, RecordKinds
    <3>2. g \in GoMods
      BY <1>5, <1>10 DEF EditReplace
    <3> QED BY <1>4, <2>1, <3>1, <3>2 DEF GoMods
  <2>3. PICK k \in Externals(plan[c]) : item[c] = plan[c][k]
    BY <1>2, <2>1 DEF BuildCourse
  <2>4. ASSUME NEW j \in Externals(plan[c]), plan[c][j].module = of
        PROVE  /\ Required(plan[c][j]) = Required(item[c]) /\ plan[c][j].replace = item[c].replace
               /\ Sourced(plan[c][j]) = Sourced(item[c])
    <3>1. SameSource(plan[c][k], plan[c][j])
      BY <2>3, <2>4 DEF LockInv, LocksInHand, ValidLock, SharesSource, Externals
    <3> QED BY <2>3, <3>1 DEF SameSource, Required, Sourced
  <2>5. Sourced(item[c]) => g.require[of] = Required(item[c])
    BY <1>2, <2>1 DEF BuildCourse
  <2>6. \A j \in Externals(plan[c]) \ todo[c] : SourceIn(disk["gomod"], plan[c][j])'
    BY <1>2, <1>6, <1>8, <2>1, <2>2, <2>4, <2>5 DEF BuildCourse, SourceIn, Required, Sourced
  <2> QED BY <1>6, <1>7, <2>1, <2>6 DEF BuildCourse
<1> QED BY <1>3, <1>9, <1>10 DEF GoModStep, DropRequire, DropReplace

LEMMA BuildBuild ==
  ASSUME LockInv, UndoInv, TypedInv, CourseInv, NEW c \in Commands, BuildStep(c), ~Compile(c), alone'[c]
  PROVE  BuildCourse(c)'
<1> DEFINE g == disk["gomod"]
<1>1. /\ phase[c] \in {"framework", "modules", "tidy"} /\ phase[c] \in Writing \ {"load"}
      /\ UNCHANGED <<disk, alone>> \/ \E content : Write(c, "gomod", content)
      /\ plan' = plan
  <2>1. CASE Tidy(c)
    BY <2>1 DEF Tidy, Writing
  <2> QED BY <2>1 DEF BuildStep, SyncFramework, NextModule, Writing
<1>2. alone[c] /\ disk'["lock"] = disk["lock"] /\ disk'["gen"] = disk["gen"]
  BY <1>1, OwnWrite
<1>3. task[c].kind = "build" /\ plan[c] \in LooseLocks
  BY <1>1 DEF TypedInv, CommandTyped, Comes
<1>4. BuildCourse(c)
  BY <1>1, <1>2, <1>3 DEF CourseInv, CourseAt
<1>5. /\ Load(disk["lock"])' = plan'[c] /\ disk["gen"] = Gen(plan[c])
      /\ disk'["gen"] = Gen(plan[c])' /\ Externals(plan[c])' = Externals(plan[c])
  BY <1>1, <1>2, <1>4 DEF BuildCourse, Load, NoPlugins, Gen, Externals
<1>6. CASE SyncFramework(c)
  <2>1. phase'[c] = "modules" /\ todo'[c] = Externals(plan[c])
    BY <1>6 DEF SyncFramework, Goto, LockInv, Shape, TypedInv, CommandTyped
  <2> QED BY <1>1, <1>5, <2>1 DEF BuildCourse
<1>7. CASE NextModule(c)
  <2>1. disk' = disk /\ phase[c] = "modules"
    BY <1>7 DEF NextModule
  <2>2. \A j \in Externals(plan[c]) \ todo[c] : SourceIn(g, plan[c][j])
    BY <1>4, <2>1 DEF BuildCourse
  <2>3. \A j : SourceIn(disk["gomod"], plan[c][j])' = SourceIn(g, plan[c][j])
    BY <1>1, <2>1 DEF SourceIn, Required, Sourced
  <2>4. CASE todo[c] = {}
    <3>1. phase'[c] = "tidy"
      BY <1>7, <2>4 DEF NextModule, Goto, LockInv, Shape
    <3>2. Synced(g, plan[c])
      BY <2>2, <2>4 DEF Synced, SourceIn
    <3>3. Synced(g, plan[c])'
      BY <1>1, <2>1, <3>2 DEF Synced, Externals, Required, Sourced
    <3> QED BY <1>5, <3>1, <3>3 DEF BuildCourse
  <2>5. CASE todo[c] # {}
    <3>1. PICK i \in todo[c] : /\ todo' = [todo EXCEPT ![c] = @ \ {i}]
                               /\ item' = [item EXCEPT ![c] = plan[c][i]]
                               /\ Goto(c, "require")
      BY <1>7, <2>5 DEF NextModule
    <3>2. /\ phase'[c] = "require" /\ todo'[c] = todo[c] \ {i} /\ item'[c] = plan'[c][i]
          /\ i \in Externals(plan[c])
      BY <1>1, <1>3, <2>1, <3>1 DEF Goto, LockInv, Shape, TypedInv, CommandTyped
    <3>3. \A j \in Externals(plan[c]) \ todo'[c] :
             SourceIn(g, plan[c][j]) \/ plan'[c][j].module = item'[c].module
      BY <2>2, <3>2
    <3> QED BY <1>1, <1>5, <2>3, <3>2, <3>3 DEF BuildCourse
  <2> QED BY <2>4, <2>5
<1>8. CASE Tidy(c)
  <2> DEFINE imported == {Load(disk["gen"])[i] : i \in Ids}
  <2>1. /\ phase[c] = "tidy" /\ phase'[c] = "compile" /\ g \in GoMods
    BY <1>8 DEF Tidy, Goto, LockInv, Shape, TypedInv, FilesTyped
  <2>2. PICK found \in [Modules -> Versions \cup {Placeholder}] :
          Write(c, "gomod", Tidied(g, imported, found))
    BY <1>8 DEF Tidy
  <2>3. disk'["gomod"] = Tidied(g, imported, found)
    BY <2>2, OwnWrite
  <2>4. Load(disk["gen"]) = Gen(plan[c])
    BY <1>3, <1>5, GenTyped, LoadWritten
  <2>5. Synced(g, plan[c])
    BY <1>4, <2>1 DEF BuildCourse
  <2>6. \A j \in Externals(plan[c]) : plan[c][j].module \in Modules \cap imported
    <3> SUFFICES ASSUME NEW j \in Externals(plan[c]) PROVE plan[c][j].module \in Modules \cap imported
      OBVIOUS
    <3>1. j \in Ids /\ plan[c][j].module \in Modules
      BY <1>3, ExternalRecords, RecordKinds
    <3>2. Gen(plan[c])[j] = plan[c][j].module
      BY <3>1 DEF Gen
    <3> QED BY <2>4, <3>1, <3>2
  <2>7. ASSUME NEW j \in Externals(plan[c]), Sourced(plan[c][j])
        PROVE  /\ g.require[plan[c][j].module] = Required(plan[c][j])
               /\ g.require[plan[c][j].module] # Nil
    <3>1. Required(plan[c][j]) \in Versions \cup {Placeholder}
      BY <1>3, ExternalRecords, RecordKinds
    <3> QED BY <2>5, <2>7, <3>1, FilesAssumption DEF Synced
  <2> HIDE DEF imported
  <2>8. /\ disk'["gomod"].replace = g.replace
        /\ \A x \in Modules \cap imported : g.require[x] # Nil => disk'["gomod"].require[x] = g.require[x]
    BY <2>1, <2>3, TidiedKeeps
  <2>9. Synced(disk["gomod"], plan[c])'
    BY <1>1, <2>5, <2>6, <2>7, <2>8 DEF Synced, Externals, Required, Sourced
  <2> QED BY <1>5, <2>1, <2>9 DEF BuildCourse
<1> QED BY <1>6, <1>7, <1>8 DEF BuildStep

-----------------------------------------------------------------------------
\* A command about plugins, step by step.
LEMMA RememberCourse ==
  ASSUME LockInv, UndoInv, NEW c \in Commands, Snapshot(c) \/ Remember(c)
  PROVE  CourseAt(c)'
<1>1. CASE phase'[c] \notin Writing
  BY <1>1 DEF CourseAt
<1>2. CASE phase'[c] \in Writing
  <2>1. Remember(c)
    BY <1>2 DEF Snapshot, Goto, LockInv, Shape, Writing
  <2>2. /\ phase'[c] = "load" /\ task' = task /\ task[c].kind # "build" /\ alone' = alone
        /\ alone[c] => disk' = snap'[c]
    BY <1>2, <2>1, RememberSame DEF Writing, Ongoing
  <2>3. alone[c] => Course(c)'
    BY <2>2 DEF Course
  <2> QED BY <2>2, <2>3 DEF CourseAt
<1> QED BY <1>1, <1>2

LEMMA LoadCourse ==
  ASSUME LockInv, UndoInv, TypedInv, CourseInv, NEW c \in Commands, LoadLock(c), alone'[c],
         task[c].kind # "build"
  PROVE  Course(c)'
<1> DEFINE old == Load(disk["lock"])
           i == task[c].id
<1>1. PICK lock, record, q : Planned(c, lock, record, q)
  BY PlannedTyped
<1>2. /\ disk' = disk /\ task' = task /\ snap' = snap /\ alone[c]
      /\ phase[c] = "load" /\ phase'[c] \in {"lock", "require"}
  BY <1>1, CommandsAssumption DEF LockInv, Shape, Loaded, LoadLock, Goto, Planned
<1>3. Course(c) /\ disk = snap[c]
  BY <1>2 DEF CourseInv, CourseAt, Course, Remembers, Ongoing, Writing
<1>4. Load(snap[c]["lock"])' = old /\ Load(disk["lock"])' = old
  BY <1>2, <1>3 DEF Load, NoPlugins
<1>5. /\ Externals(old)' = Externals(old) /\ NewRecord(c)' = NewRecord(c)
      /\ Consistent(snap[c])' = Consistent(snap[c])
  BY <1>2, <1>3 DEF Externals, NewRecord, Consistent, Load, NoPlugins, Gen, Exact, Synced,
                    OfModule, Required, Sourced
<1> DEFINE new == Updated(old, i, task[c].version, task[c].replace, Keep)
<1>6. /\ LoadForAdd(c, old) =>
           /\ task[c].kind = "add" /\ old[i] = Nil /\ phase'[c] = "lock"
           /\ plan'[c] = [old EXCEPT ![i] = NewRecord(c)] /\ item'[c] = NewRecord(c)
      /\ LoadForUpdate(c, old) =>
           /\ task[c].kind = "update" /\ i \in Externals(old)
           /\ plan'[c] = new /\ item'[c] = new[i]
           /\ phase'[c] = "require" => new = old
      /\ LoadForRemove(c, old) =>
           /\ task[c].kind = "remove" /\ old[i] # Nil /\ phase'[c] = "lock"
           /\ plan'[c] = [old EXCEPT ![i] = Nil] /\ item'[c] = old[i]
  <2> HIDE DEF old, new
  <2>1. ASSUME LoadForAdd(c, old)
        PROVE  /\ task[c].kind = "add" /\ old[i] = Nil /\ phase'[c] = "lock"
               /\ plan'[c] = [old EXCEPT ![i] = NewRecord(c)] /\ item'[c] = NewRecord(c)
    BY <2>1 DEF LoadForAdd, Addable, Loaded, Goto, LockInv, Shape, TypedInv
  <2>2. ASSUME LoadForUpdate(c, old)
        PROVE  /\ task[c].kind = "update" /\ i \in Externals(old)
               /\ plan'[c] = new /\ item'[c] = new[i]
               /\ phase'[c] = "require" => new = old
    <3>1. /\ task[c].kind = "update" /\ i \in Externals(old)
          /\ \/ new = old /\ Loaded(c, new, new[i], "require")
             \/ new # old /\ Loaded(c, new, new[i], "lock")
      BY <2>2 DEF LoadForUpdate, new
    <3> QED BY <3>1 DEF Loaded, Goto, LockInv, Shape, TypedInv
  <2>3. ASSUME LoadForRemove(c, old)
        PROVE  /\ task[c].kind = "remove" /\ old[i] # Nil /\ phase'[c] = "lock"
               /\ plan'[c] = [old EXCEPT ![i] = Nil] /\ item'[c] = old[i]
    BY <2>3 DEF LoadForRemove, Loaded, Goto, LockInv, Shape, TypedInv
  <2> QED BY <2>1, <2>2, <2>3
<1>7. LoadForAdd(c, old) \/ LoadForUpdate(c, old) \/ LoadForRemove(c, old)
  BY DEF LoadLock, LoadForBuild
<1>8. Updated(Load(snap[c]["lock"]), task[c].id, task[c].version, task[c].replace, Keep)' = new
  BY <1>2, <1>4 DEF Updated
<1> HIDE DEF old, new
<1>9. Outcome(c)'
  BY <1>2, <1>4, <1>5, <1>6, <1>7, <1>8 DEF Outcome
<1>10. phase'[c] = "require" => plan'[c] = old
  BY <1>6, <1>7
<1>11. Consistent(snap[c]) => disk["gen"] = Gen(old)
  BY <1>3 DEF Consistent, old
<1>12. Gen(plan[c])' = Gen(plan'[c])
  BY DEF Gen, Externals
<1>13. GoModCourse(c)'
  BY <1>2, <1>3 DEF GoModCourse, HostPhases
<1> QED BY <1>2, <1>3, <1>4, <1>5, <1>9, <1>10, <1>11, <1>12, <1>13 DEF Course

\* A command with a plan that comes to another phase.
LEMMA CourseOn ==
  ASSUME LockInv, CourseInv, NEW c \in Commands, alone[c], task[c].kind # "build",
         phase[c] \in Writing \ {"load", "entry"}, phase'[c] \in Writing \ {"load", "lock"},
         UNCHANGED <<task, plan, snap>>, item'[c] = item[c],
         \A j \in Ids : disk'[j] = disk[j],
         \/ disk'["config"] = disk["config"] /\ phase[c] # "fill" /\ phase'[c] # "fill"
         \/ task[c].kind = "add" /\ phase'[c] = "fill" /\ phase[c] = "config" /\ disk["config"] = Nil
         \/ task[c].kind = "add" /\ phase'[c] = "entry" /\ phase[c] = "fill",
         IF phase[c] = "lock" THEN phase'[c] = "gen" /\ Load(disk'["lock"]) = plan[c]
         ELSE disk'["lock"] = disk["lock"] /\ phase'[c] # "gen",
         IF phase[c] = "gen" THEN disk'["gen"] = Gen(plan[c]) ELSE disk'["gen"] = disk["gen"],
         Outcome(c) /\ Consistent(snap[c]) /\ GoModCourse(c) => GoModCourse(c)'
  PROVE  Course(c)'
<1>1. Course(c)
  BY DEF CourseInv, CourseAt, Remembers, Ongoing, Writing
<1>2. Outcome(c)'
  BY <1>1, SameOutcome DEF Course
<1>3. Consistent(snap[c])' = Consistent(snap[c])
  BY DEF Consistent, Load, NoPlugins, Gen, Exact, Synced, Externals, OfModule, Required, Sourced
<1>4. Load(disk["lock"])' = Load(disk'["lock"]) /\ Gen(plan[c])' = Gen(plan[c])
  BY DEF Load, NoPlugins, Gen, Externals
<1>5. Load(disk["lock"])' = plan'[c]
  BY <1>1, <1>4 DEF Course, Load
<1>6. \A j \in Ids : disk'[j] = snap'[c][j]
  BY <1>1 DEF Course
<1>7. \/ disk'["config"] = snap'[c]["config"] /\ phase'[c] # "fill"
      \/ /\ task'[c].kind = "add" /\ phase'[c] \in {"fill", "entry"}
         /\ snap'[c]["config"] = Nil
  BY <1>1 DEF Course
<1>8. Consistent(snap[c]) => (phase'[c] # "gen" => disk'["gen"] = Gen(plan[c])) /\ GoModCourse(c)'
  BY <1>1 DEF Course
<1> QED BY <1>2, <1>3, <1>4, <1>5, <1>6, <1>7, <1>8 DEF Course

LEMMA RestoredSame ==
  ASSUME NEW c \in Commands, TypedInv, Remembers(c)
  PROVE  Load(snap[c]["lock"]) \in LooseLocks
         /\ (Consistent(snap[c]) => snap[c]["gomod"] \in GoMods
                                    /\ Exact(snap[c]["gomod"], Load(snap[c]["lock"])))
<1>1. FilesTyped(snap[c])
  BY DEF TypedInv, CommandTyped
<1> QED BY <1>1, LoadTyped DEF Consistent, FilesTyped

\* What is left in go.mod when the lock has lost a record.
LEMMA CutDone ==
  ASSUME TypedInv, NEW c \in Commands, Remembers(c), Outcome(c), Consistent(snap[c]),
         task[c].kind = "remove"
  PROVE  LET g == snap[c]["gomod"]
             dropped == [g EXCEPT !["require"][item[c].module] = Nil] IN
         /\ Unused(c) => item[c].module \in Modules
                         /\ Exact([dropped EXCEPT !["replace"][item[c].module] = Nil], plan[c])
         /\ ~Unused(c) => Exact(g, plan[c])
<1> DEFINE before == Load(snap[c]["lock"])
           i == task[c].id
<1>1. before \in LooseLocks /\ snap[c]["gomod"] \in GoMods /\ Exact(snap[c]["gomod"], before)
  BY RestoredSame
<1>2. before[i] # Nil /\ plan[c] = [before EXCEPT ![i] = Nil] /\ item[c] = before[i]
  BY DEF Outcome
<1>3. i \in Ids
  BY DEF TypedInv, CommandTyped, TaskTyped, Remembers, Ongoing
<1>4. Unused(c) => item[c].module \in Modules
  BY <1>1, <1>2, <1>3, ExternalRecords, RecordKinds DEF Unused, Externals
<1> DEFINE g == snap[c]["gomod"]
           new == [before EXCEPT ![i] = Nil]
           of == before[i].module
           dropped == [g EXCEPT !["require"][of] = Nil]
           after == [dropped EXCEPT !["replace"][of] = Nil]
<1>5. /\ of # Builtin /\ OfModule(new, of) = {} => Exact(after, new)
      /\ ~(of # Builtin /\ OfModule(new, of) = {}) => Exact(g, new)
  <2> HIDE DEF before, i
  <2> QED BY <1>1, <1>2, <1>3, CutExact
<1>6. Unused(c) <=> of # Builtin /\ OfModule(new, of) = {}
  BY <1>2 DEF Unused
<1>7. plan[c] = new /\ item[c].module = of
  BY <1>2
<1> QED BY <1>4, <1>5, <1>6, <1>7

\* ... or has got or changed one.
LEMMA EditDone ==
  ASSUME LockInv, TypedInv, NEW c \in Commands, Remembers(c), Outcome(c), Consistent(snap[c]),
         task[c].kind \in {"add", "update"}
  PROVE  LET g == snap[c]["gomod"]
             required == Needed(g, item[c]) IN
         Exact([required EXCEPT !["replace"][item[c].module] = item[c].replace], plan[c])
<1> DEFINE before == Load(snap[c]["lock"])
           i == task[c].id
<1>1. before \in LooseLocks /\ snap[c]["gomod"] \in GoMods /\ Exact(snap[c]["gomod"], before)
  BY RestoredSame
<1>2. plan[c] \in LooseLocks /\ ValidLock(plan[c]) /\ TaskTyped(task[c]) /\ i \in Ids
  BY DEF TypedInv, CommandTyped, LockInv, LocksInHand, Remembers, Ongoing, TaskTyped
<1> HIDE DEF before
<1>3. CASE task[c].kind = "add"
  <2>1. before[i] = Nil /\ plan[c] = [before EXCEPT ![i] = NewRecord(c)] /\ item[c] = NewRecord(c)
    BY <1>3 DEF Outcome, before
  <2>2. NewRecord(c) \in ModuleRecord
    BY <1>2, <1>3 DEF TaskTyped, NewRecord, ModuleRecord, LooseRecord
  <2>3. plan[c] = [j \in Ids |-> IF j = i THEN NewRecord(c) ELSE before[j]]
    BY <1>1, <1>2, <2>1 DEF LooseLocks
  <2>4. NewRecord(c) # Nil /\ NewRecord(c).module # Builtin
    BY <2>2, RecordKinds, ContentsAssumption
  <2>5. i \in Externals(plan[c]) /\ plan[c][i] = item[c]
    BY <1>2, <2>1, <2>3, <2>4 DEF Externals
  <2>6. \A j \in Ids : plan[c][j] # Nil /\ plan[c][j].module # plan[c][i].module => before[j] = plan[c][j]
    BY <2>1, <2>3, <2>5
  <2>7. \A j \in Ids : before[j] # Nil => plan[c][j] # Nil /\ plan[c][j].module = before[j].module
    BY <2>1, <2>3
  <2> HIDE DEF i
  <2>8. Exact(Edited(snap[c]["gomod"], plan[c][i]), plan[c])
    BY <1>1, <1>2, <2>5, <2>6, <2>7, EditExact
  <2> QED BY <2>5, <2>8 DEF Edited
<1>4. CASE task[c].kind = "update"
  <2>1. /\ i \in Externals(before) /\ item[c] = plan[c][i]
        /\ plan[c] = Updated(before, i, task[c].version, task[c].replace, Keep)
    BY <1>4 DEF Outcome, before
  <2>2. /\ i \in Externals(plan[c]) /\ plan[c][i].module = before[i].module
        /\ \A j \in Ids : (plan[c][j] = Nil <=> before[j] = Nil)
                          /\ (before[j] # Nil => plan[c][j].module = before[j].module)
    <3>1. /\ task[c].version \in Versions \cup {Nil, Keep}
          /\ task[c].replace \in Paths \cup {Nil, Keep}
      BY <1>2, <1>4 DEF TaskTyped
    <3> HIDE DEF i
    <3> QED BY <1>1, <1>2, <2>1, <3>1, UpdatedTyped
  <2>3. \A j \in Ids : plan[c][j] # Nil /\ plan[c][j].module # plan[c][i].module => before[j] = plan[c][j]
    <3> SUFFICES ASSUME NEW j \in Ids, plan[c][j] # Nil, plan[c][j].module # plan[c][i].module
                 PROVE  before[j] = plan[c][j]
      OBVIOUS
    <3>1. ~(before[j] # Nil /\ before[j].module = before[i].module)
      BY <2>2
    <3>2. plan[c] = Updated(before, i, task[c].version, task[c].replace, Keep)
      BY <2>1
    <3> HIDE DEF i
    <3> QED BY <3>1, <3>2 DEF Updated
  <2> HIDE DEF i
  <2>4. Exact(Edited(snap[c]["gomod"], plan[c][i]), plan[c])
    <3>1. \A j \in Ids : before[j] # Nil => plan[c][j] # Nil /\ plan[c][j].module = before[j].module
      BY <2>2
    <3>2. i \in Externals(plan[c])
      BY <2>2
    <3> QED BY <1>1, <1>2, <2>3, <3>1, <3>2, EditExact
  <2>5. plan[c][i] = item[c]
    BY <2>1
  <2> QED BY <2>4, <2>5 DEF Edited
<1> QED BY <1>3, <1>4

LEMMA HostCourse ==
  ASSUME LockInv, UndoInv, TypedInv, CourseInv, NEW c \in Commands, HostStep(c), alone'[c],
         task[c].kind # "build"
  PROVE  Course(c)'
<1>1. /\ phase[c] \in HostPhases /\ UNCHANGED <<task, plan, snap, item>> /\ plan[c] \in LooseLocks
      /\ UNCHANGED <<disk, alone>> \/ \E f \in HostPhases : \E content : Write(c, f, content)
  BY DEF HostStep, SaveLock, RenderGen, RenderMain, RenderGoMod, TypedInv, CommandTyped, HostPhases
<1>2. /\ alone[c] /\ phase[c] \in Writing \ {"load", "entry"} /\ phase[c] # "idle" /\ Remembers(c)
  BY <1>1, OwnWrite DEF HostPhases, Writing, Remembers, Ongoing
<1>3. /\ disk'["config"] = disk["config"] /\ Load(plan[c]) = plan[c]
      /\ \A j \in Ids : disk'[j] = disk[j]
  <2>1. disk'["config"] = disk["config"]
    BY <1>1, OwnWrite DEF HostPhases
  <2>2. ASSUME NEW j \in Ids PROVE disk'[j] = disk[j]
    <3>1. CASE UNCHANGED disk
      BY <3>1
    <3>2. ASSUME NEW f \in HostPhases, NEW content, Write(c, f, content) PROVE disk'[j] = disk[j]
      <4>1. j # f
        BY FileNames DEF HostPhases
      <4>2. \A g \in {"lock", "gen", "main", "gomod", "config"} \cup Ids :
              disk'[g] = IF g = f THEN content ELSE disk[g]
        BY <3>2, OwnWrite
      <4> QED BY <4>1, <4>2
    <3> QED BY <1>1, <3>1, <3>2
  <2> QED BY <1>1, <1>2, <2>1, <2>2, LoadWritten
<1>4. Course(c) /\ TaskTyped(task[c])
  BY <1>2 DEF CourseInv, CourseAt, TypedInv, CommandTyped
<1>5. Unused(c)' = Unused(c)
  BY <1>1, SameOutcome
<1>6. CASE SaveLock(c) \/ RenderGen(c) \/ RenderMain(c)
  <2>1. /\ SaveLock(c) => phase[c] = "lock" /\ phase'[c] = "gen" /\ disk'["lock"] = plan[c]
                          /\ disk'["gen"] = disk["gen"]
        /\ RenderGen(c) => /\ phase[c] = "gen" /\ phase'[c] = "main" /\ disk'["gen"] = Gen(plan[c])
                           /\ disk'["lock"] = disk["lock"]
        /\ RenderMain(c) => /\ phase[c] = "main" /\ phase'[c] = "gomod"
                            /\ disk'["lock"] = disk["lock"] /\ disk'["gen"] = disk["gen"]
    BY OwnWrite DEF SaveLock, RenderGen, RenderMain, Goto, LockInv, Shape
  <2>2. disk'["gomod"] = disk["gomod"] /\ phase'[c] \in {"gen", "main", "gomod"}
    BY <1>6, <2>1, OwnWrite DEF SaveLock, RenderGen, RenderMain
  <2>3. GoModCourse(c) => GoModCourse(c)'
    BY <1>1, <2>2 DEF GoModCourse, HostPhases
  <2>4. phase'[c] \in Writing \ {"load", "lock"} /\ phase[c] # "fill" /\ phase'[c] # "fill"
    BY <1>1, <2>2 DEF Writing, HostPhases
  <2> QED BY <1>1, <1>2, <1>3, <1>6, <2>1, <2>3, <2>4, CourseOn
<1>7. CASE RenderGoMod(c)
  <2>1. /\ phase[c] = "gomod" /\ disk'["lock"] = disk["lock"] /\ disk'["gen"] = disk["gen"]
        /\ disk["gomod"] # Nil => disk' = disk
        /\ \/ task[c].kind \in {"add", "update"} /\ phase'[c] = "require"
           \/ task[c].kind = "remove"
              /\ phase'[c] = IF Unused(c) THEN "droprequire" ELSE "entry"
    BY <1>7, OwnWrite DEF RenderGoMod, Goto, LockInv, Shape
  <2>2. ASSUME Outcome(c), Consistent(snap[c]), GoModCourse(c) PROVE GoModCourse(c)'
    <3>1. disk["gomod"] = snap[c]["gomod"] /\ snap[c]["gomod"] \notin {Nil, Empty}
      BY <2>1, <2>2 DEF GoModCourse, HostPhases, Consistent
    <3>2. disk' = disk
      BY <2>1, <3>1
    <3>3. CASE phase'[c] \in {"require", "droprequire"}
      <4>1. phase'[c] = "droprequire" => Unused(c)
        BY <2>1, <3>3
      <4> QED BY <1>1, <1>5, <3>1, <3>2, <3>3, <4>1 DEF GoModCourse
    <3>4. CASE phase'[c] = "entry"
      <4>1. Exact(disk["gomod"], plan[c])
        BY <1>2, <2>1, <2>2, <3>1, <3>4, CutDone
      <4>2. Exact(disk["gomod"], plan[c])'
        BY <1>1, <3>2, <4>1 DEF Exact, Synced, Externals, OfModule, Required, Sourced
      <4> QED BY <3>1, <3>2, <3>4, <4>2 DEF GoModCourse, HostPhases
    <3> QED BY <2>1, <3>3, <3>4
  <2>3. phase'[c] \in Writing \ {"load", "lock"} /\ phase'[c] \notin {"gen", "fill"}
    BY <2>1 DEF Writing
  <2> QED BY <1>1, <1>2, <1>3, <2>1, <2>2, <2>3, CourseOn
<1> QED BY <1>6, <1>7 DEF HostStep

LEMMA GoModCourseOn ==
  ASSUME LockInv, UndoInv, TypedInv, CourseInv, NEW c \in Commands, GoModStep(c), alone'[c],
         task[c].kind # "build", phase'[c] # "idle"
  PROVE  Course(c)'
<1> DEFINE of == item[c].module
<1>1. /\ phase[c] \in AboutModule /\ phase[c] \in Writing \ {"load", "entry", "lock", "gen", "fill"}
      /\ phase[c] # "idle"
      /\ UNCHANGED <<disk, alone>> \/ \E content : Write(c, "gomod", content)
  BY DEF GoModStep, EditRequire, EditReplace, DropRequire, DropReplace, EditGoMod, AboutModule, Writing
<1>2. /\ alone[c] /\ disk'["lock"] = disk["lock"] /\ disk'["gen"] = disk["gen"]
      /\ disk'["config"] = disk["config"] /\ Remembers(c)
      /\ \A j \in Ids : disk'[j] = disk[j]
  <2>1. alone[c] /\ \A f \in {"lock", "gen", "config"} \cup Ids : disk'[f] = disk[f]
    BY <1>1, OwnWrite, FileNames
  <2> QED BY <1>1, <2>1 DEF Remembers, Ongoing, AboutModule
<1>3. /\ EditRequire(c) => /\ phase[c] = "require" /\ phase'[c] = "replace"
                           /\ disk'["gomod"] = Needed(disk["gomod"], item[c])
      /\ EditReplace(c) => /\ phase[c] = "replace" /\ phase'[c] = "config" /\ task[c].kind = "add"
                           /\ disk'["gomod"] = [disk["gomod"] EXCEPT !["replace"][of] = item[c].replace]
      /\ DropRequire(c) => /\ phase[c] = "droprequire" /\ phase'[c] = "dropreplace"
                           /\ disk'["gomod"] = [disk["gomod"] EXCEPT !["require"][of] = Nil]
      /\ DropReplace(c) => /\ phase[c] = "dropreplace" /\ phase'[c] = "entry"
                           /\ disk'["gomod"] = [disk["gomod"] EXCEPT !["replace"][of] = Nil]
  BY OwnWrite DEF EditRequire, EditReplace, AfterReplace, End, DropRequire, DropReplace, EditGoMod, Goto,
                  LockInv, Shape, Needed
<1>4. phase'[c] \in Writing \ {"load", "lock", "gen", "fill"}
  BY <1>3 DEF GoModStep, Writing
<1>5. UNCHANGED <<task, plan, snap, item>>
  BY <1>4 DEF GoModStep, EditRequire, EditReplace, AfterReplace, DropRequire, DropReplace, End, Goto,
              Writing, LockInv, Shape, locals
<1>6. Unused(c)' = Unused(c)
  BY <1>5, SameOutcome
<1>7. ASSUME EditReplace(c) \/ DropReplace(c) PROVE disk'["gomod"] \in GoMods
  <2>1. disk["gomod"] \in GoMods
    BY <1>7 DEF TypedInv, FilesTyped, EditReplace, DropReplace, EditGoMod
  <2>2. of \in Modules /\ item[c].replace \in Paths \cup {Nil}
    BY <1>1, RecordKinds DEF TypedInv, CommandTyped
  <2> QED BY <1>3, <1>7, <2>1, <2>2 DEF GoMods
<1>8. ASSUME Outcome(c), Consistent(snap[c]), GoModCourse(c) PROVE GoModCourse(c)'
  <2> DEFINE g == snap[c]["gomod"]
  <2>1. CASE EditRequire(c)
    <3>1. disk["gomod"] = g
      BY <1>3, <1>8, <2>1 DEF GoModCourse
    <3>2. Needed(g, item[c])' = Needed(g, item[c])
      BY <1>5 DEF Required, Sourced, Needed
    <3> QED BY <1>3, <1>5, <2>1, <3>1, <3>2 DEF GoModCourse, HostPhases
  <2>2. CASE EditReplace(c)
    <3>1. disk["gomod"] = Needed(g, item[c])
      BY <1>3, <1>8, <2>2 DEF GoModCourse
    <3>2. Exact(disk'["gomod"], plan[c])
      BY <1>2, <1>3, <1>8, <2>2, <3>1, EditDone
    <3>3. Exact(disk["gomod"], plan[c])'
      BY <1>5, <3>2 DEF Exact, Synced, Externals, OfModule, Required, Sourced
    <3>4. disk'["gomod"] \notin {Nil, Empty}
      BY <1>7, <2>2, LoadWritten
    <3> QED BY <1>3, <2>2, <3>3, <3>4 DEF GoModCourse, HostPhases
  <2>3. CASE DropRequire(c)
    <3>1. disk["gomod"] = g /\ Unused(c)
      BY <1>3, <1>8, <2>3 DEF GoModCourse
    <3> QED BY <1>3, <1>5, <1>6, <2>3, <3>1 DEF GoModCourse, HostPhases
  <2>4. CASE DropReplace(c)
    <3>1. disk["gomod"] = [g EXCEPT !["require"][of] = Nil] /\ Unused(c)
      BY <1>3, <1>8, <2>4 DEF GoModCourse
    <3>2. task[c].kind = "remove"
      BY <1>1, <1>3, <2>4 DEF TypedInv, CommandTyped, Comes
    <3>3. Exact(disk'["gomod"], plan[c])
      BY <1>2, <1>3, <1>8, <2>4, <3>1, <3>2, CutDone
    <3>4. Exact(disk["gomod"], plan[c])'
      BY <1>5, <3>3 DEF Exact, Synced, Externals, OfModule, Required, Sourced
    <3>5. disk'["gomod"] \notin {Nil, Empty}
      BY <1>7, <2>4, LoadWritten
    <3> QED BY <1>3, <2>4, <3>4, <3>5 DEF GoModCourse, HostPhases
  <2> QED BY <2>1, <2>2, <2>3, <2>4 DEF GoModStep
<1> QED BY <1>1, <1>2, <1>4, <1>5, <1>8, CourseOn

LEMMA ConfigCourse ==
  ASSUME LockInv, UndoInv, TypedInv, CourseInv, NEW c \in Commands,
         CreateConfig(c) \/ FillConfig(c), alone'[c]
  PROVE  Course(c)'
<1>1. /\ UNCHANGED <<task, plan, snap, item>>
      /\ \/ /\ phase[c] = "config" /\ phase'[c] = "fill" /\ disk["config"] = Nil
            /\ \E content : Write(c, "config", content)
         \/ /\ phase[c] = "config" /\ phase'[c] = "entry" /\ UNCHANGED <<disk, alone>>
         \/ /\ phase[c] = "fill" /\ phase'[c] = "entry"
            /\ \E content : Write(c, "config", content)
  BY DEF CreateConfig, FillConfig, Goto, LockInv, Shape
<1>2. /\ alone[c] /\ disk'["lock"] = disk["lock"] /\ disk'["gen"] = disk["gen"]
      /\ disk'["gomod"] = disk["gomod"]
      /\ \A j \in Ids : disk'[j] = disk[j]
  <2>1. CASE UNCHANGED <<disk, alone>>
    BY <2>1
  <2>2. ASSUME NEW content, Write(c, "config", content)
        PROVE  /\ alone[c]
               /\ \A f \in {"lock", "gen", "gomod"} \cup Ids : disk'[f] = disk[f]
    BY <2>2, OwnWrite, FileNames
  <2> QED BY <1>1, <2>1, <2>2
<1>3. task[c].kind = "add"
  BY <1>1 DEF TypedInv, CommandTyped, Comes
<1>4. GoModCourse(c) => GoModCourse(c)'
  <2>1. ASSUME Exact(disk["gomod"], plan[c]) PROVE Exact(disk["gomod"], plan[c])'
    BY <1>1, <1>2, <2>1 DEF Exact, Synced, Externals, OfModule, Required, Sourced
  <2> QED BY <1>1, <1>2, <2>1 DEF GoModCourse, HostPhases
<1>5. phase[c] \in Writing \ {"load", "entry"} /\ phase'[c] \in Writing \ {"load", "lock"}
  BY <1>1 DEF Writing
<1> QED BY <1>1, <1>2, <1>3, <1>4, <1>5, CourseOn

\* Steps after which a command has no course to keep.
LEMMA OffCourse ==
  ASSUME LockInv, NEW c \in Commands,
         \/ \E r : End(c, r)
         \/ StartAdd(c) \/ StartUpdate(c) \/ StartRemove(c) \/ StartBuild(c)
         \/ Fails(c) \/ Restore(c)
  PROVE  CourseAt(c)'
<1> SUFFICES \/ phase'[c] \notin Writing
             \/ phase'[c] = "load" /\ task'[c].kind = "build"
  BY DEF CourseAt, Remembers, Ongoing
<1> USE DEF LockInv, Shape, Goto
<1>1. CASE \E r : End(c, r)
  BY <1>1 DEF End, Writing
<1>2. CASE StartAdd(c) \/ StartUpdate(c) \/ StartRemove(c)
  <2>1. phase'[c] = "snapshot"
    BY <1>2 DEF StartAdd, StartUpdate, StartRemove, Start
  <2> QED BY <2>1 DEF Writing
<1>3. CASE StartBuild(c)
  BY <1>3 DEF StartBuild, Start
<1>4. CASE Fails(c)
  BY <1>1, <1>4 DEF Fails, Writing
<1>5. CASE Restore(c)
  BY <1>5 DEF Restore, RemoveCreated, Truncate, Refill, RestoreBreaks, Writing
<1> QED BY <1>1, <1>2, <1>3, <1>4, <1>5

LEMMA OwnCourse ==
  ASSUME LockInv, UndoInv, TypedInv, CourseInv, NEW c \in Commands, CommandStep(c)
  PROVE  CourseAt(c)'
<1>1. ASSUME task'[c] = task[c], task[c].kind = "build", alone'[c] => BuildCourse(c)' PROVE CourseAt(c)'
  BY <1>1 DEF CourseAt, Remembers, Ongoing
<1>2. ASSUME task'[c] = task[c], task[c].kind # "build", alone'[c] => Course(c)' PROVE CourseAt(c)'
  BY <1>2 DEF CourseAt
<1>3. CASE LoadLock(c)
  <2>1. task' = task
    BY <1>3 DEF LoadLock, LoadForAdd, LoadForUpdate, LoadForRemove, LoadForBuild, Loaded
  <2> QED BY <1>1, <1>2, <1>3, <2>1, LoadBuild, LoadCourse
<1>4. CASE HostStep(c)
  <2>1. task' = task
    BY <1>4 DEF HostStep, SaveLock, RenderGen, RenderMain, RenderGoMod
  <2> QED BY <1>1, <1>2, <1>4, <2>1, HostBuild, HostCourse
<1>5. CASE GoModStep(c)
  <2>1. CASE \E r : End(c, r)
    BY <2>1, OffCourse
  <2>2. CASE ~ \E r : End(c, r)
    <3>1. task' = task
      BY <1>5, <2>2 DEF GoModStep, EditRequire, EditReplace, AfterReplace, DropRequire, DropReplace, locals
    <3>2. phase'[c] # "idle"
      BY <1>5, <2>2 DEF GoModStep, EditRequire, EditReplace, AfterReplace, DropRequire, DropReplace,
                        Goto, LockInv, Shape
    <3> QED BY <1>1, <1>2, <1>5, <3>1, <3>2, GoModBuild, GoModCourseOn
  <2> QED BY <2>1, <2>2
<1>6. CASE EntryStep(c)
  <2>1. CASE CreateConfig(c) \/ FillConfig(c)
    <3>1. task' = task /\ phase[c] \in {"config", "fill"}
      BY <2>1 DEF CreateConfig, FillConfig
    <3>2. task[c].kind = "add"
      BY <3>1 DEF TypedInv, CommandTyped, Comes
    <3> QED BY <1>2, <2>1, <3>1, <3>2, ConfigCourse
  <2>2. CASE ~(CreateConfig(c) \/ FillConfig(c))
    BY <1>6, <2>2, OffCourse DEF EntryStep, EnsureEntry, RemoveEntry
  <2> QED BY <2>1, <2>2
<1>7. CASE BuildStep(c)
  <2>1. CASE Compile(c)
    BY <2>1, OffCourse DEF Compile
  <2>2. CASE ~Compile(c)
    <3>1. task' = task /\ phase[c] \in {"framework", "modules", "tidy"}
      BY <1>7, <2>2 DEF BuildStep, SyncFramework, NextModule, Tidy
    <3>2. task[c].kind = "build"
      BY <3>1 DEF TypedInv, CommandTyped, Comes
    <3> QED BY <1>1, <1>7, <2>2, <3>1, <3>2, BuildBuild
  <2> QED BY <2>1, <2>2
<1>8. CASE Snapshot(c) \/ Remember(c)
  BY <1>8, RememberCourse
<1>9. CASE Refuse(c) \/ Break(c) \/ RolledBack(c) \/ Crash(c) \/ Restore(c)
  BY <1>9, OffCourse DEF Refuse, Break, RolledBack, Crash
<1>10. CASE StartAdd(c) \/ StartUpdate(c) \/ StartRemove(c) \/ StartBuild(c)
  BY <1>10, OffCourse
<1> QED BY <1>3, <1>4, <1>5, <1>6, <1>7, <1>8, <1>9, <1>10 DEF CommandStep

LEMMA NextCourseInv == LockInv /\ UndoInv /\ TypedInv /\ CourseInv /\ [Next]_vars => CourseInv'
<1> SUFFICES ASSUME LockInv, UndoInv, TypedInv, CourseInv, [Next]_vars PROVE CourseInv'
  OBVIOUS
<1>1. CASE \E c \in Commands : Command(c)
  <2>1. PICK c \in Commands : CommandStep(c)
    BY <1>1 DEF Command
  <2>2. \A d \in Commands \ {c} : CourseAt(d)'
    BY <2>1, CommandUntouched, AloneUnseen, OthersCourse DEF CourseInv, UndoInv
  <2> QED BY <2>1, <2>2, OwnCourse DEF CourseInv
<1>2. CASE \E e \in Editors : Editor(e)
  <2>1. PICK e \in Editors : Editor(e)
    BY <1>2
  <2>2. \A d \in Commands : Untouched(d)
    BY <2>1 DEF Editor, commandVars, Local, Untouched
  <2> QED BY <2>1, <2>2, EditorAlone, OthersCourse DEF CourseInv, UndoInv
<1>3. CASE UNCHANGED vars
  <2>1. \A d \in Commands : Untouched(d) /\ (alone'[d] => alone[d] /\ disk' = disk)
    BY <1>3 DEF vars, commandVars, Local, Untouched
  <2> QED BY <2>1, OthersCourse DEF CourseInv
<1> QED BY <1>1, <1>2, <1>3 DEF Next

LEMMA InitCourseInv == Init => CourseInv
BY CommandsAssumption DEF Init, CourseInv, CourseAt

\* A command that reports success has come to the last of its steps.
LEMMA CommittedAt ==
  ASSUME LockInv, UndoInv, TypedInv, NEW c \in Commands, CommandStep(c), Committed(c)
  PROVE  \/ EditReplace(c) /\ task[c].kind = "update"
         \/ EnsureEntry(c) \/ RemoveEntry(c) \/ Compile(c)
<1> USE DEF LockInv, Shape, UndoInv, Committed
<1>1. ASSUME NEW r, End(c, r) PROVE r = "ok"
  BY <1>1 DEF End
<1>2. ASSUME NEW p, Goto(c, p) PROVE p = "idle"
  BY <1>2 DEF Goto
<1>3. ASSUME StartAdd(c) \/ StartUpdate(c) \/ StartRemove(c) \/ StartBuild(c) PROVE FALSE
  BY <1>3 DEF StartAdd, StartUpdate, StartRemove, StartBuild, Ready
<1>4. ASSUME Snapshot(c) \/ Remember(c) \/ LoadLock(c) PROVE FALSE
  BY <1>2, <1>4 DEF Snapshot, Remember, LoadLock, LoadForAdd, LoadForUpdate, LoadForRemove, LoadForBuild,
                    Loaded
<1>5. ASSUME HostStep(c) PROVE FALSE
  BY <1>2, <1>5 DEF HostStep, SaveLock, RenderGen, RenderMain, RenderGoMod
<1>6. ASSUME GoModStep(c) PROVE EditReplace(c) /\ task[c].kind = "update"
  BY <1>2, <1>6 DEF GoModStep, EditRequire, EditReplace, AfterReplace, DropRequire, DropReplace
<1>7. ASSUME CreateConfig(c) \/ FillConfig(c) PROVE FALSE
  BY <1>2, <1>7 DEF CreateConfig, FillConfig
<1>8. ASSUME SyncFramework(c) \/ NextModule(c) \/ Tidy(c) PROVE FALSE
  BY <1>2, <1>8 DEF SyncFramework, NextModule, Tidy
<1>9. ASSUME Refuse(c) \/ Break(c) PROVE FALSE
  BY <1>1, <1>2, <1>9 DEF Refuse, Break, Fails
<1>10. ASSUME Restore(c) PROVE FALSE
  BY <1>2, <1>10 DEF Restore, RemoveCreated, Truncate, Refill, RestoreBreaks
<1>11. ASSUME RolledBack(c) \/ Crash(c) PROVE FALSE
  BY <1>1, <1>11 DEF RolledBack, Crash
<1> QED
  BY <1>3, <1>4, <1>5, <1>6, <1>7, <1>8, <1>9, <1>10, <1>11 DEF CommandStep, EntryStep, BuildStep

\* ... which is its own.
LEMMA CommittedItself ==
  ASSUME LockInv, [Next]_vars, NEW c \in Commands, Committed(c)
  PROVE  CommandStep(c)
<1>1. ASSUME NEW d \in Commands \ {c}, CommandStep(d) PROVE FALSE
  BY <1>1, CommandLocal DEF Committed, Local
<1>2. ~(UNCHANGED commandVars)
  BY DEF Committed, commandVars
<1> QED BY <1>1, <1>2 DEF Next, Command, Editor, vars

\* A build that gets through heals plugins.gen.go and go.mod, whatever was there
\* (build.go:121-132).
THEOREM BuildsHeal == Spec => BuildHeals
<1>1. ASSUME LockInv, UndoInv, TypedInv, CourseInv, [Next]_vars, NEW c \in Commands,
             Committed(c), task[c].kind = "build", alone[c]
      PROVE  LET lock == Load(disk'["lock"]) IN
             disk'["gen"] = Gen(lock) /\ Synced(disk'["gomod"], lock)
  <2>1. Compile(c)
    BY <1>1, CommittedItself, CommittedAt DEF EnsureEntry, RemoveEntry
  <2>2. phase[c] = "compile" /\ disk' = disk
    BY <2>1 DEF Compile
  <2>3. BuildCourse(c)
    BY <1>1, <2>2 DEF CourseInv, CourseAt, Writing
  <2> QED BY <2>2, <2>3 DEF BuildCourse
<1>2. LockInv /\ UndoInv /\ TypedInv /\ CourseInv /\ [Next]_vars =>
        [\A c \in Commands :
           Committed(c) /\ task[c].kind = "build" /\ alone[c]
             => LET lock == Load(disk'["lock"]) IN
                disk'["gen"] = Gen(lock) /\ Synced(disk'["gomod"], lock)]_commandsDisk
  BY <1>1
<1> QED
  BY <1>2, InitLockInv, NextLockInv, InitUndoInv, NextUndoInv, InitTypedInv, NextTypedInv,
     InitCourseInv, NextCourseInv, PTL DEF Spec, BuildHeals

\* What a command leaves that reports success in a configured directory.
LEMMA CommitFiles ==
  ASSUME LockInv, UndoInv, TypedInv, CourseInv, NEW c \in Commands, CommandStep(c), Committed(c),
         task[c].kind # "build", alone[c], snap[c]["config"] # Nil
  PROVE  /\ Remembers(c) /\ Course(c)
         /\ disk'["lock"] = disk["lock"] /\ Load(disk["lock"]) = plan[c]
         /\ disk'["gen"] = disk["gen"] /\ disk'["config"] = snap[c]["config"]
         /\ \/ phase[c] = "entry" /\ disk'["gomod"] = disk["gomod"]
            \/ EditReplace(c) /\ task[c].kind = "update"
         /\ \A j \in Ids :
              /\ \/ disk'[j] \in {snap[c][j], Nil}
                 \/ disk'[j] = FreshDocument /\ plan[c][j] # Nil
              /\ plan[c][j] = Nil => Load(snap[c]["lock"])[j] = Nil \/ disk'[j] = Nil
<1> DEFINE before == Load(snap[c]["lock"])
           i == task[c].id
<1>1. \/ EditReplace(c) /\ task[c].kind = "update"
      \/ EnsureEntry(c) \/ RemoveEntry(c)
  BY CommittedAt DEF Compile, TypedInv, CommandTyped, Comes
<1>2. phase[c] \in {"replace", "entry"} /\ phase[c] \in Writing
  BY <1>1 DEF EditReplace, EnsureEntry, RemoveEntry, Writing
<1>3. Remembers(c) /\ Course(c)
  BY <1>2 DEF Remembers, Ongoing, CourseInv, CourseAt
<1>4. before \in LooseLocks /\ TaskTyped(task[c]) /\ i \in Ids /\ plan[c] \in LooseLocks
  BY <1>3, RestoredSame DEF TypedInv, CommandTyped, Remembers, Ongoing, TaskTyped
<1>5. /\ Load(disk["lock"]) = plan[c] /\ Outcome(c) /\ \A j \in Ids : disk[j] = snap[c][j]
      /\ disk["config"] = snap[c]["config"]
  BY <1>2, <1>3 DEF Course
<1> HIDE DEF before
<1>6. CASE EditReplace(c) /\ task[c].kind = "update"
  <2>1. PICK content : Write(c, "gomod", content)
    BY <1>6 DEF EditReplace, EditGoMod
  <2>2. /\ disk'["lock"] = disk["lock"] /\ disk'["gen"] = disk["gen"]
        /\ disk'["config"] = disk["config"] /\ \A j \in Ids : disk'[j] = disk[j]
    <3>1. \A f \in {"lock", "gen", "main", "gomod", "config"} \cup Ids :
            disk'[f] = IF f = "gomod" THEN content ELSE disk[f]
      BY <2>1, OwnWrite
    <3> QED BY <3>1, FileNames
  <2>3. i \in Externals(before) /\ plan[c] = Updated(before, i, task[c].version, task[c].replace, Keep)
    BY <1>5, <1>6 DEF Outcome, before
  <2>4. \A j \in Ids : plan[c][j] = Nil => before[j] = Nil
    <3>1. task[c].version \in Versions \cup {Nil, Keep} /\ task[c].replace \in Paths \cup {Nil, Keep}
      BY <1>4, <1>6 DEF TaskTyped
    <3> HIDE DEF i
    <3> QED BY <1>4, <2>3, <3>1, UpdatedTyped
  <2> QED BY <1>3, <1>5, <1>6, <2>2, <2>4 DEF before
<1>7. CASE EnsureEntry(c)
  <2>1. /\ phase[c] = "entry" /\ task[c].kind = "add"
        /\ \/ disk[i] = Nil /\ Write(c, i, FreshDocument)
           \/ disk' = disk
    BY <1>7 DEF EnsureEntry
  <2>2. /\ \A f \in {"lock", "gen", "gomod", "config"} : disk'[f] = disk[f]
        /\ \A j \in Ids : disk'[j] = disk[j] \/ (j = i /\ disk'[j] = FreshDocument)
    <3>1. ASSUME Write(c, i, FreshDocument)
          PROVE  /\ \A f \in {"lock", "gen", "gomod", "config"} : disk'[f] = disk[f]
                 /\ \A j \in Ids : disk'[j] = IF j = i THEN FreshDocument ELSE disk[j]
      <4>1. \A f \in {"lock", "gen", "main", "gomod", "config"} \cup Ids :
              disk'[f] = IF f = i THEN FreshDocument ELSE disk[f]
        BY <3>1, OwnWrite
      <4>2. i \notin {"lock", "gen", "main", "gomod", "config"}
        BY <1>4, FileNames
      <4> QED BY <4>1, <4>2
    <3> QED BY <2>1, <3>1
  <2>3. plan[c] = [before EXCEPT ![i] = NewRecord(c)]
    BY <1>5, <2>1 DEF Outcome, before
  <2>4. NewRecord(c) # Nil
    BY <1>4, <2>1, ContentsAssumption DEF TaskTyped, NewRecord, LooseRecord
  <2>5. plan[c][i] # Nil /\ \A j \in Ids \ {i} : plan[c][j] = before[j]
    BY <1>4, <2>3, <2>4 DEF LooseLocks
  <2> QED BY <1>3, <1>5, <2>1, <2>2, <2>5 DEF before
<1>8. CASE RemoveEntry(c)
  <2>1. /\ phase[c] = "entry" /\ task[c].kind = "remove"
        /\ IF disk[i] # Nil THEN Write(c, i, Nil) ELSE disk' = disk
    BY <1>5, <1>8 DEF RemoveEntry
  <2>2. /\ \A f \in {"lock", "gen", "gomod", "config"} : disk'[f] = disk[f]
        /\ \A j \in Ids : disk'[j] = IF j = i THEN Nil ELSE disk[j]
    <3>1. ASSUME Write(c, i, Nil)
          PROVE  /\ \A f \in {"lock", "gen", "gomod", "config"} : disk'[f] = disk[f]
                 /\ \A j \in Ids : disk'[j] = IF j = i THEN Nil ELSE disk[j]
      <4>1. \A f \in {"lock", "gen", "main", "gomod", "config"} \cup Ids :
              disk'[f] = IF f = i THEN Nil ELSE disk[f]
        BY <3>1, OwnWrite
      <4>2. i \notin {"lock", "gen", "main", "gomod", "config"}
        BY <1>4, FileNames
      <4> QED BY <4>1, <4>2
    <3> QED BY <2>1, <3>1
  <2>3. plan[c] = [before EXCEPT ![i] = Nil]
    BY <1>5, <2>1 DEF Outcome, before
  <2>4. \A j \in Ids \ {i} : plan[c][j] = before[j]
    BY <1>4, <2>3 DEF LooseLocks
  <2> QED BY <1>3, <1>5, <2>1, <2>2, <2>4 DEF before
<1> QED BY <1>1, <1>6, <1>7, <1>8

\* A command that reports success leaves files that agree if they agreed before and
\* nobody else has written meanwhile (plugin.go:118-186, plugin_lock.go:180).
THEOREM CommitsAgree == Spec => CommitAgrees
<1>1. ASSUME LockInv, UndoInv, TypedInv, CourseInv, [Next]_vars, NEW c \in Commands,
             Committed(c), task[c].kind # "build", alone[c],
             Consistent(snap[c]), snap[c]["config"] # Nil
      PROVE  Consistent(disk')
  <2>1. CommandStep(c)
    BY <1>1, CommittedItself
  <2>2. /\ Remembers(c) /\ Course(c)
        /\ disk'["lock"] = disk["lock"] /\ Load(disk["lock"]) = plan[c] /\ disk'["gen"] = disk["gen"]
        /\ \/ phase[c] = "entry" /\ disk'["gomod"] = disk["gomod"]
           \/ EditReplace(c) /\ task[c].kind = "update"
        /\ \A j \in Ids :
             /\ \/ disk'[j] \in {snap[c][j], Nil}
                \/ disk'[j] = FreshDocument /\ plan[c][j] # Nil
             /\ plan[c][j] = Nil => Load(snap[c]["lock"])[j] = Nil \/ disk'[j] = Nil
    BY <1>1, <2>1, CommitFiles
  <2>3. phase[c] \in {"replace", "entry"} /\ Outcome(c) /\ disk["gen"] = Gen(plan[c]) /\ GoModCourse(c)
    BY <1>1, <2>2 DEF Course, EditReplace
  <2>4. \A j \in Ids : plan[c][j] = Nil => disk'[j] = Nil
    BY <1>1, <2>2 DEF Consistent
  <2>5. disk'["gomod"] \notin {Nil, Empty} /\ Exact(disk'["gomod"], plan[c])
    <3>1. CASE phase[c] = "entry" /\ disk'["gomod"] = disk["gomod"]
      BY <2>3, <3>1 DEF GoModCourse
    <3>2. CASE EditReplace(c) /\ task[c].kind = "update"
      <4> DEFINE of == item[c].module
                 g == snap[c]["gomod"]
      <4>1. /\ phase[c] = "replace"
            /\ disk'["gomod"] = [disk["gomod"] EXCEPT !["replace"][of] = item[c].replace]
        BY <1>1, <3>2, OwnWrite DEF EditReplace, EditGoMod
      <4>2. disk["gomod"] = Needed(g, item[c])
        BY <2>3, <4>1 DEF GoModCourse
      <4>3. Exact(disk'["gomod"], plan[c])
        BY <1>1, <2>2, <2>3, <3>2, <4>1, <4>2, EditDone
      <4>4. disk["gomod"] \in GoMods /\ of \in Modules /\ item[c].replace \in Paths \cup {Nil}
        BY <1>1, <3>2, <4>1, RecordKinds DEF TypedInv, FilesTyped, CommandTyped, AboutModule, EditReplace,
           EditGoMod
      <4>5. disk'["gomod"] \in GoMods
        BY <4>1, <4>4 DEF GoMods
      <4> QED BY <4>3, <4>5, LoadWritten
    <3> QED BY <2>2, <3>1, <3>2
  <2> QED BY <2>2, <2>3, <2>4, <2>5 DEF Consistent
<1>2. LockInv /\ UndoInv /\ TypedInv /\ CourseInv /\ [Next]_vars =>
        [\A c \in Commands :
           Committed(c) /\ task[c].kind # "build" /\ alone[c]
           /\ Consistent(snap[c]) /\ snap[c]["config"] # Nil
             => Consistent(disk')]_commandsDisk
  BY <1>1
<1> QED
  BY <1>2, InitLockInv, NextLockInv, InitUndoInv, NextUndoInv, InitTypedInv, NextTypedInv,
     InitCourseInv, NextCourseInv, PTL DEF Spec, CommitAgrees

\* A host built from a directory's lock starts if every enabled plugin is in the
\* lock and takes its configuration.
LEMMA StartsBuilt ==
  ASSUME NEW d
  PROVE  Starts(d, BuiltFrom(d)) <=>
           /\ d["config"] # Nil /\ ValidLock(Load(d["lock"]))
           /\ \A j \in Enabled(d) : Load(d["lock"])[j] # Nil /\ Builds(j, d[j])
BY DEF Starts, BuiltFrom, LoadsFiles, Loads, RegistryFor, Externals, Enabled, Configured

\* A command that reports success leaves a bot that starts if it did before, should
\* nobody else have written meanwhile (config_update.go:136, plugin_lock.go:180).
THEOREM StartsKept == Spec => StartsAsBefore
<1>1. ASSUME LockInv, UndoInv, TypedInv, CourseInv, [Next]_vars, NEW c \in Commands,
             Committed(c), task[c].kind # "build", alone[c], Starts(snap[c], BuiltFrom(snap[c]))
      PROVE  Starts(disk', BuiltFrom(disk'))
  <2> DEFINE before == Load(snap[c]["lock"])
             lock == Load(disk'["lock"])
  <2>1. /\ snap[c]["config"] # Nil
        /\ \A j \in Enabled(snap[c]) : before[j] # Nil /\ Builds(j, snap[c][j])
    BY <1>1, StartsBuilt
  <2>2. CommandStep(c)
    BY <1>1, CommittedItself
  <2>3. /\ disk'["lock"] = disk["lock"] /\ Load(disk["lock"]) = plan[c]
        /\ disk'["config"] = snap[c]["config"]
        /\ \A j \in Ids :
             /\ \/ disk'[j] \in {snap[c][j], Nil}
                \/ disk'[j] = FreshDocument /\ plan[c][j] # Nil
             /\ plan[c][j] = Nil => before[j] = Nil \/ disk'[j] = Nil
    BY <1>1, <2>1, <2>2, CommitFiles
  <2>4. lock = plan[c] /\ ValidLock(lock)
    BY <1>1, <2>3 DEF LockInv, LockFile
  <2> HIDE DEF before, lock
  <2>5. ASSUME NEW j \in Enabled(disk') PROVE lock[j] # Nil /\ Builds(j, disk'[j])
    <3>1. j \in Ids /\ disk'[j] # Nil /\ ~Disabled(Document(disk'[j]))
      BY <2>5 DEF Enabled, Configured
    <3>2. Disabled(Document(FreshDocument))
      BY NewDocuments, DocumentsAreWritten DEF Written, Document, Disabled, FreshDocument
    <3>3. disk'[j] = snap[c][j] /\ snap[c][j] # Nil
      BY <2>3, <3>1, <3>2
    <3>4. j \in Enabled(snap[c])
      BY <3>1, <3>3 DEF Enabled, Configured
    <3> QED BY <2>1, <2>3, <2>4, <3>1, <3>3, <3>4
  <2>6. disk'["config"] # Nil
    BY <2>1, <2>3
  <2> QED BY <2>4, <2>5, <2>6, StartsBuilt DEF lock
<1>2. LockInv /\ UndoInv /\ TypedInv /\ CourseInv /\ [Next]_vars =>
        [\A c \in Commands :
           Committed(c) /\ task[c].kind # "build" /\ alone[c]
           /\ Starts(snap[c], BuiltFrom(snap[c]))
             => Starts(disk', BuiltFrom(disk'))]_commandsDisk
  BY <1>1
<1> QED
  BY <1>2, InitLockInv, NextLockInv, InitUndoInv, NextUndoInv, InitTypedInv, NextTypedInv,
     InitCourseInv, NextCourseInv, PTL DEF Spec, StartsAsBefore

-----------------------------------------------------------------------------
(* Why DisabledStays holds. *)

\* The documents an editor is going to write are those it has made of what is still
\* there, and it follows what it was asked to do.
EditorFresh(e) ==
  /\ stage[e] # "idle" =>
       /\ edit[e].kind \in {"set", "reset", "enable", "disable", "sync"}
       /\ op[e] = edit[e].kind \/ (op[e] = "fill" /\ edit[e].kind \in {"reset", "enable"})
  /\ stage[e] \in {"read", "save"} /\ alone[e] =>
       \A i \in Ids : changed[e][i] # Nil => changed[e][i] = Change(e, i, disk[i])

EditInv == \A e \in Editors : EditorFresh(e)

\* What an editor knows of itself no other step changes.
Unedited(d) ==
  /\ stage'[d] = stage[d] /\ edit'[d] = edit[d] /\ op'[d] = op[d]
  /\ unread'[d] = unread[d] /\ changed'[d] = changed[d] /\ blind'[d] = blind[d]

LEMMA SameChange ==
  ASSUME NEW e, op'[e] = op[e], edit'[e] = edit[e], NEW i, NEW file
  PROVE  Change(e, i, file)' = Change(e, i, file')
BY DEF Change, WithPath, WithEnabled, Document

LEMMA CommandUnedited ==
  ASSUME LockInv, Whole(disk), NEW c \in Commands, Command(c), NEW d \in Editors
  PROVE  Unedited(d) /\ (alone'[d] => alone[d] /\ disk' = disk)
<1>1. c \in Processes /\ d \in Processes /\ d # c
  BY CommandsAssumption, EditorsAssumption, ProjectAssumption
<1>2. Unedited(d)
  BY DEF Command, Unedited
<1>3. CASE Snapshot(c) \/ LoadLock(c)
  BY <1>1, <1>2, <1>3 DEF Snapshot, LoadLock, LoadForAdd, LoadForUpdate, LoadForRemove, LoadForBuild,
                          Loaded, LockInv, Shape
<1> QED BY <1>1, <1>2, <1>3, CommandWrites, WriteAlone DEF Quiet, LockInv, Command

LEMMA EditorUnedited ==
  ASSUME LockInv, HostInv, Whole(disk), NEW e \in Editors, Editor(e), NEW d \in Editors \ {e}
  PROVE  Unedited(d) /\ (alone'[d] => alone[d] /\ disk' = disk)
<1>1. e \in Processes /\ d \in Processes /\ d # e
  BY EditorsAssumption
<1>2. CASE SaveEntry(e)
  <2>1. PICK i \in Ids : Write(e, i, changed[e][i]) /\ changed' = [changed EXCEPT ![e][i] = Nil]
    BY <1>2 DEF SaveEntry
  <2>2. alone'[d] => alone[d] /\ disk' = disk
    BY <1>1, <2>1, WriteAlone DEF LockInv
  <2> QED BY <1>2, <2>1, <2>2 DEF SaveEntry, Unedited, HostInv, EditorShape
<1>3. CASE ~SaveEntry(e)
  <2>1. alone'[d] => alone[d] /\ disk' = disk
    BY <1>1, <1>3, EditorQuiet DEF Editor, LockInv, Shape
  <2>2. CASE AskHost(e) \/ AskConfig(e) \/ AskEnabled(e) \/ AskSync(e)
    <3>1. \E t, todos : Ask(e, t, todos)
      BY <2>2 DEF AskHost, AskConfig, AskEnabled, AskSync
    <3> QED BY <1>1, <3>1 DEF Ask, Unedited, HostInv, EditorShape
  <2>3. CASE Acquire(e) \/ ReadEntry(e) \/ ReadFails(e) \/ ReadAll(e)
    BY <2>1, <2>3 DEF Acquire, ReadEntry, ReadFails, ReadAll, Finish, Unedited, HostInv, EditorShape
  <2>4. CASE SaveFails(e) \/ Saved(e)
    BY <2>1, <2>4 DEF SaveFails, Saved, Finish, Unedited, HostInv, EditorShape
  <2> QED BY <1>3, <2>2, <2>3, <2>4 DEF Editor, EditorStep
<1> QED BY <1>2, <1>3

LEMMA OthersFresh ==
  ASSUME NEW d, EditorFresh(d), Unedited(d), alone'[d] => alone[d] /\ disk' = disk
  PROVE  EditorFresh(d)'
<1>1. \A i \in Ids : alone'[d] => Change(d, i, disk[i])' = Change(d, i, disk[i])
  BY SameChange DEF Unedited
<1> QED BY <1>1 DEF EditorFresh, Unedited

\* What is asked of an editor.
LEMMA Requests ==
  ASSUME NEW e \in Editors, AskHost(e) \/ AskConfig(e) \/ AskEnabled(e) \/ AskSync(e)
  PROVE  \E t, entries :
           /\ Ask(e, t, entries) /\ stage[e] = "idle"
           /\ t.kind \in {"set", "reset", "enable", "disable", "sync"}
           /\ t.registry \subseteq Ids /\ t.host \in BOOLEAN
           /\ t.kind # "sync" => t.id \in Ids /\ entries = {t.id}
           /\ t.kind = "sync" => entries = Entries
           /\ t.kind \in {"set", "reset"} => t.path \in SettablePaths
           /\ t.kind = "set" => t.value \in Values
           /\ t.kind \in {"enable", "disable", "sync"} => ~t.host
<1> DEFINE Fits(t, entries) ==
             /\ t.kind \in {"set", "reset", "enable", "disable", "sync"}
             /\ t.registry \subseteq Ids /\ t.host \in BOOLEAN
             /\ t.kind # "sync" => t.id \in Ids /\ entries = {t.id}
             /\ t.kind = "sync" => entries = Entries
             /\ t.kind \in {"set", "reset"} => t.path \in SettablePaths
             /\ t.kind = "set" => t.value \in Values
             /\ t.kind \in {"enable", "disable", "sync"} => ~t.host
           Request == \E t, entries : Ask(e, t, entries) /\ Fits(t, entries)
<1>1. Registry \subseteq Ids /\ Known \subseteq Ids
  BY EditorsAssumption DEF Registry, Installed
<1>2. Targets("config") \subseteq Ids /\ Targets("enable") \subseteq Ids
      /\ Targets("disable") \subseteq Ids
  BY <1>1 DEF Targets, Installed, Entries
<1>3. ASSUME NEW kind \in {"set", "reset", "enable", "disable", "sync"}, NEW host \in BOOLEAN,
             NEW i, NEW q, NEW v, NEW entries, Ask(e, Task(kind, host, i, q, v), entries),
             kind # "sync" => i \in Ids /\ entries = {i},
             kind = "sync" => entries = Entries,
             kind \in {"set", "reset"} => q \in SettablePaths,
             kind = "set" => v \in Values, kind \in {"enable", "disable", "sync"} => ~host
      PROVE  Request
  <2>1. Fits(Task(kind, host, i, q, v), entries)
    BY <1>1, <1>3 DEF Task
  <2> QED BY <1>3, <2>1
<1> HIDE DEF Request
<1>4. ASSUME AskHost(e) PROVE Request
  <2>1. PICK i \in Known, q \in SettablePaths :
          \/ \E v \in Values : Ask(e, Task("set", TRUE, i, q, v), {i})
          \/ Ask(e, Task("reset", TRUE, i, q, Missing), {i})
    BY <1>4 DEF AskHost
  <2> QED BY <1>1, <1>3, <2>1
<1>5. ASSUME AskConfig(e) PROVE Request
  <2>1. PICK i \in Targets("config"), q \in SettablePaths :
          \/ \E v \in Values : Ask(e, Task("set", FALSE, i, q, v), {i})
          \/ Ask(e, Task("reset", FALSE, i, q, Missing), {i})
    BY <1>5 DEF AskConfig
  <2> QED BY <1>2, <1>3, <2>1
<1>6. ASSUME AskEnabled(e) PROVE Request
  <2>1. PICK kind \in {"enable", "disable"} : \E i \in Targets(kind) :
          Ask(e, Task(kind, FALSE, i, <<>>, Missing), {i})
    BY <1>6 DEF AskEnabled
  <2> QED BY <1>2, <1>3, <2>1
<1>7. ASSUME AskSync(e) PROVE Request
  BY <1>3, <1>7 DEF AskSync
<1>8. stage[e] = "idle"
  BY DEF AskHost, AskConfig, AskEnabled, AskSync, Free
<1> QED BY <1>4, <1>5, <1>6, <1>7, <1>8 DEF Request

LEMMA OwnFresh ==
  ASSUME LockInv, HostInv, UndoInv, EditInv, NEW e \in Editors, EditorStep(e)
  PROVE  EditorFresh(e)'
<1> USE DEF HostInv, EditorShape
<1>1. CASE Finish(e)
  BY <1>1 DEF Finish, EditorFresh
<1>2. CASE AskHost(e) \/ AskConfig(e) \/ AskEnabled(e) \/ AskSync(e)
  <2>1. PICK t, entries : /\ Ask(e, t, entries)
                          /\ t.kind \in {"set", "reset", "enable", "disable", "sync"}
    BY <1>2, Requests
  <2>2. op'[e] = t.kind /\ edit'[e] = t /\ changed' = changed
    BY <2>1 DEF Ask
  <2>3. \A i \in Ids : changed[e][i] = Nil
    BY <1>2 DEF AskHost, AskConfig, AskEnabled, AskSync, Free, InHand
  <2> QED BY <2>1, <2>2, <2>3 DEF EditorFresh
<1>3. CASE Acquire(e)
  <2>1. \A i \in Ids : changed'[e][i] = Nil
    BY <1>3 DEF Acquire, InHand
  <2> QED BY <1>3, <2>1 DEF Acquire, EditInv, EditorFresh
<1>4. CASE ReadEntry(e)
  <2>1. PICK i \in unread[e] : changed' = [changed EXCEPT ![e][i] = Change(e, i, disk[i])]
    BY <1>4 DEF ReadEntry
  <2>2. UNCHANGED <<disk, alone, stage, edit, op>> /\ stage[e] = "read"
    BY <1>4 DEF ReadEntry
  <2>3. \A j \in Ids : changed'[e][j] = IF j = i THEN Change(e, i, disk[i]) ELSE changed[e][j]
    BY <2>1 DEF EntriesSound
  <2>4. \A j \in Ids : Change(e, j, disk[j])' = Change(e, j, disk[j])
    BY <2>2, SameChange
  <2> QED BY <2>2, <2>3, <2>4 DEF EditInv, EditorFresh
<1>5. CASE ReadAll(e)
  <2>1. UNCHANGED <<disk, alone, edit, op, changed>> /\ stage[e] = "read"
    BY <1>5 DEF ReadAll
  <2>2. \A j \in Ids : Change(e, j, disk[j])' = Change(e, j, disk[j])
    BY <2>1, SameChange
  <2> QED BY <2>1, <2>2 DEF EditInv, EditorFresh
<1>6. CASE SaveEntry(e)
  <2>1. PICK i \in Ids : Write(e, i, changed[e][i]) /\ changed' = [changed EXCEPT ![e][i] = Nil]
    BY <1>6 DEF SaveEntry
  <2>2. UNCHANGED <<stage, edit, op>> /\ stage[e] = "save"
    BY <1>6 DEF SaveEntry
  <2>3. \A j \in Ids : changed'[e][j] = IF j = i THEN Nil ELSE changed[e][j]
    BY <2>1 DEF EntriesSound
  <2>4. (alone'[e] => alone[e]) /\ \A j \in Ids \ {i} : disk'[j] = disk[j]
    BY <2>1, WriteAlone, FileNames, EditorsAssumption DEF LockInv, UndoInv
  <2>5. \A j \in Ids \ {i} : Change(e, j, disk[j])' = Change(e, j, disk[j])
    BY <2>2, <2>4, SameChange
  <2> QED BY <2>2, <2>3, <2>4, <2>5 DEF EditInv, EditorFresh
<1>7. CASE Saved(e)
  <2>1. CASE Refills(e)
    <3>1. op[e] \in {"reset", "enable"} /\ stage[e] = "save" /\ \A i \in Ids : changed[e][i] = Nil
      BY <1>7, <2>1 DEF Saved, Refills, NoChange
    <3>2. op'[e] = "fill" /\ edit' = edit /\ changed' = changed
      BY <1>7, <2>1 DEF Saved
    <3> QED BY <3>1, <3>2 DEF EditInv, EditorFresh
  <2> QED BY <1>1, <1>7, <2>1 DEF Saved
<1> QED
  BY <1>1, <1>2, <1>3, <1>4, <1>5, <1>6, <1>7 DEF EditorStep, ReadFails, SaveFails

LEMMA NextEditInv == LockInv /\ HostInv /\ UndoInv /\ EditInv /\ [Next]_vars => EditInv'
<1> SUFFICES ASSUME LockInv, HostInv, UndoInv, EditInv, [Next]_vars PROVE EditInv'
  OBVIOUS
<1> USE DEF EditInv, UndoInv
<1>1. CASE \E c \in Commands : Command(c)
  BY <1>1, CommandUnedited, OthersFresh
<1>2. CASE \E e \in Editors : Editor(e)
  BY <1>2, EditorUnedited, OthersFresh, OwnFresh DEF Editor
<1>3. CASE UNCHANGED vars
  <2>1. \A d \in Editors : Unedited(d) /\ (alone'[d] => alone[d] /\ disk' = disk)
    BY <1>3 DEF vars, configVars, Unedited
  <2> QED BY <2>1, OthersFresh
<1> QED BY <1>1, <1>2, <1>3 DEF Next

LEMMA InitEditInv == Init => EditInv
BY DEF Init, ConfigsInit, EditInv, EditorFresh

\* Nothing but "enable" makes a disabled plugin's document an enabled one.
LEMMA ChangeDisabled ==
  ASSUME NEW e, NEW i, NEW file \in Documents, Disabled(file),
         op[e] \in {"set", "reset", "disable", "sync", "fill"}, Change(e, i, file) # Nil
  PROVE  Disabled(Change(e, i, file))
<1>1. Document(file) = file /\ file # Empty
  BY DocumentsAreWritten DEF Document, Written
<1>2. Disabled(WithPath(e, file))
  BY DEF WithPath, Documents, Disabled
<1>3. op[e] = "disable" => Disabled(WithEnabled(e, file))
  BY DEF WithEnabled, Documents, Disabled
<1>4. Disabled(Filled(file, Default[i]))
  BY ConfigDocsAssumption DEF Filled, FillEnabled, Disabled
<1> QED BY <1>1, <1>2, <1>3, <1>4 DEF Change, Reached

\* A configuration command, and the host, switch no plugin on that is off, unless it
\* is "enable" (config_update.go:791).
THEOREM DisabledKept == Spec => DisabledStays
<1>1. ASSUME LockInv, HostInv, UndoInv, EditInv, [Next]_vars, NEW e \in Editors, NEW i \in Ids,
             stage[e] = "save", changed[e][i] # Nil, changed'[e][i] = Nil,
             Written(disk[i]), Disabled(disk[i]), alone[e], edit[e].kind # "enable"
      PROVE  Disabled(disk'[i])
  <2>1. EditorStep(e)
    <3>1. ~Unedited(e)
      BY <1>1 DEF Unedited
    <3>2. ~ \E c \in Commands : Command(c)
      BY <1>1, <3>1, CommandUnedited DEF UndoInv
    <3>3. ~(UNCHANGED vars)
      BY <3>1 DEF Unedited, vars, configVars
    <3> QED BY <1>1, <3>1, <3>2, <3>3, EditorUnedited DEF Next, Editor, UndoInv
  <2>2. CASE SaveEntry(e)
    <3>1. PICK j \in Ids : Write(e, j, changed[e][j]) /\ changed' = [changed EXCEPT ![e][j] = Nil]
      BY <2>2 DEF SaveEntry
    <3>2. j = i
      BY <1>1, <3>1 DEF HostInv, EditorShape, EntriesSound
    <3>3. disk'[i] = changed[e][i]
      BY <1>1, <3>1, <3>2, WriteAlone, FileNames, EditorsAssumption DEF LockInv, UndoInv
    <3>4. changed[e][i] = Change(e, i, disk[i])
      BY <1>1 DEF EditInv, EditorFresh
    <3>5. disk[i] \in Documents
      BY <1>1 DEF HostInv, EntriesSound, EntryFiles, Written
    <3>6. op[e] \in {"set", "reset", "disable", "sync", "fill"}
      BY <1>1 DEF EditInv, EditorFresh
    <3> QED BY <1>1, <3>3, <3>4, <3>5, <3>6, ChangeDisabled
  <2>3. CASE ~SaveEntry(e)
    BY <1>1, <2>1, <2>3 DEF EditorStep, AskHost, AskConfig, AskEnabled, AskSync, Free, Acquire, ReadEntry,
       ReadFails, ReadAll, SaveFails, Saved, NoChange
  <2> QED BY <2>2, <2>3
<1>2. LockInv /\ HostInv /\ UndoInv /\ EditInv /\ [Next]_vars =>
        [\A e \in Editors, i \in Ids :
           stage[e] = "save" /\ changed[e][i] # Nil /\ changed'[e][i] = Nil
           /\ Written(disk[i]) /\ Disabled(disk[i])
           /\ alone[e] /\ edit[e].kind # "enable"
             => Disabled(disk'[i])]_configsDisk
  BY <1>1
<1> QED
  BY <1>2, InitLockInv, NextLockInv, InitHostInv, NextHostInv, InitUndoInv, NextUndoInv,
     InitEditInv, NextEditInv, PTL DEF Spec, DisabledStays

-----------------------------------------------------------------------------
(* Why EditsTake holds. *)

Founded == INSTANCE WellFoundedInduction

\* A set of numbers has a least one.
LEMMA LeastNumber ==
  ASSUME NEW S, S \subseteq Nat, S # {}
  PROVE  \E x \in S : \A y \in S : x <= y
<1> DEFINE R == {ss \in Nat \X Nat : ss[1] < ss[2]}
<1>1. Founded!IsWellFoundedOn(R, Nat)
  BY Founded!NatLessThanWellFounded DEF Founded!OpToRel
<1>2. \A x, y \in Nat : <<y, x>> \in R <=> y < x
  OBVIOUS
<1> HIDE DEF R
<1>3. PICK x \in S : \A y \in S : ~(<<y, x>> \in R)
  BY <1>1, Founded!WFMin
<1>4. \A y \in S : y \in Nat
  OBVIOUS
<1>5. \A y \in S : ~(y < x)
  BY <1>2, <1>3, <1>4
<1>6. \A y \in S : x <= y
  BY <1>4, <1>5
<1> QED BY <1>6

\* Nothing is at the path, and what is above it is no value.
Cleared(t, p) == t[p] = Missing /\ \A q \in Above[p] : t[q] \in {Map, Missing, Null}

\* The default of a path that has been cleared is filled in: by the topmost node on
\* the way to it that there is not.
LEMMA ClearedFilled ==
  ASSUME NEW t \in Trees, NEW d \in Trees, NEW p \in KeyPaths, Cleared(t, p)
  PROVE  Merge(t, d)[p] = d[p]
<1>1. \A a \in Above[p] : d[p] # Missing => d[a] = Map
  BY TreeMeans
<1>2. Merge(t, d)[p] = IF \E r \in Above[p] \cup {p} : Fills(t, d, r) THEN d[p] ELSE t[p]
  BY DEF Merge
<1>3. ASSUME d[p] # Missing PROVE \E r \in Above[p] \cup {p} : Fills(t, d, r)
  <2> DEFINE Gap(r) == t[r] \in {Missing, Null} \/ (r = <<>> /\ Bare(t, r))
             S == {Len(r) : r \in {q \in Above[p] \cup {p} : Gap(q)}}
  <2>1. \A r \in Above[p] \cup {p} : r \in KeyPaths /\ Len(r) \in Nat
    BY AboveShorter, ConfigDocsAssumption
  <2>2. S \subseteq Nat /\ Len(p) \in S
    BY <2>1 DEF Cleared
  <2>3. PICK n \in S : \A k \in S : n <= k
    BY <2>2, LeastNumber
  <2>4. PICK r \in Above[p] \cup {p} : Gap(r) /\ n = Len(r)
    BY <2>3
  <2> HIDE DEF Gap
  <2>5. ASSUME NEW q \in Above[r] PROVE q \in Above[p] /\ ~Gap(q)
    <3>1. r \in KeyPaths
      BY <2>1
    <3>2. q \in Above[p]
      BY <2>4, AboveTrans
    <3>3. Len(q) \in Nat /\ Len(r) \in Nat /\ Len(q) < Len(r)
      BY <3>1, AboveShorter
    <3>4. ~Gap(q)
      BY <2>3, <2>4, <3>2, <3>3
    <3> QED BY <3>2, <3>4
  <2>6. \A q \in Above[r] : t[q] = Map /\ d[q] = Map /\ ~(q = <<>> /\ Bare(t, q))
    BY <1>1, <1>3, <2>5 DEF Gap, Cleared
  <2>7. d[r] # Missing
    BY <1>1, <1>3, ConfigDocsAssumption
  <2> QED BY <2>4, <2>6, <2>7 DEF Fills, Gap
<1> QED BY <1>2, <1>3 DEF Cleared

\* Filling in twice is filling in once.
LEMMA MergeTwice ==
  ASSUME NEW t \in Trees, NEW d \in Trees, d[<<>>] = Map
  PROVE  Merge(Merge(t, d), d) = Merge(t, d)
<1> DEFINE n == Merge(t, d)
           filled(q) == \E r \in Above[q] \cup {q} : Fills(t, d, r)
<1>1. /\ t \in [KeyPaths -> Nodes] /\ d \in [KeyPaths -> Nodes]
      /\ \A q \in KeyPaths : \A a \in Above[q] : t[q] # Missing => t[a] = Map
  BY TreeMeans
<1>2. \A q \in KeyPaths : n[q] = IF filled(q) THEN d[q] ELSE t[q]
  BY DEF Merge
<1>3. \A q \in KeyPaths :
        Merge(n, d)[q] = IF \E r \in Above[q] \cup {q} : Fills(n, d, r) THEN d[q] ELSE n[q]
  BY DEF Merge
<1>4. n \in [KeyPaths -> Nodes] /\ Merge(n, d) \in [KeyPaths -> Nodes]
  <2>1. n \in Trees
    BY MergeTree
  <2>2. Merge(n, d) \in Trees
    BY <2>1, MergeTree
  <2> QED BY <2>1, <2>2, TreeMeans
<1>5. <<>> \in KeyPaths /\ Map # Missing /\ Map # Null /\ Above[<<>>] = {}
  BY ConfigDocsAssumption, RootAbove
<1> HIDE DEF n
\* Where a node is not filled in, nothing has changed on the way to it.
<1>6. ASSUME NEW q \in KeyPaths, ~filled(q), NEW r \in Above[q] \cup {q}
      PROVE  r \in KeyPaths /\ n[r] = t[r] /\ ~Fills(t, d, r)
  <2>1. r \in KeyPaths
    BY AboveShorter
  <2>2. ~filled(r)
    BY <1>6, AboveTrans
  <2> QED BY <1>2, <1>6, <2>1, <2>2
\* If there was something in "config" there still is.
<1>7. ASSUME t[<<>>] = Map, ~Bare(t, <<>>), ~Fills(t, d, <<>>) PROVE ~Bare(n, <<>>)
  <2>1. PICK x \in Below[<<>>] : t[x] # Missing
    BY <1>7 DEF Bare
  <2>2. x \in KeyPaths
    BY <1>5 DEF Below
  <2>3. ASSUME filled(x) PROVE n[x] # Missing
    <3>1. PICK s \in Above[x] \cup {x} : Fills(t, d, s)
      BY <2>3
    <3>2. s # <<>>
      BY <1>7, <3>1
    <3>3. s \in Above[x] => t[s] = Map
      BY <1>1, <2>1, <2>2
    <3>4. s = x
      BY <1>5, <3>1, <3>2, <3>3 DEF Fills
    <3> QED BY <1>2, <2>2, <2>3, <3>1, <3>4 DEF Fills
  <2>4. n[x] # Missing
    BY <1>2, <2>1, <2>2, <2>3
  <2>5. n[<<>>] = Map
    <3>1. ~filled(<<>>)
      BY <1>5, <1>7
    <3> QED BY <1>2, <1>5, <1>7, <3>1
  <2> QED BY <1>5, <2>1, <2>4, <2>5 DEF Bare
<1>8. ASSUME NEW q \in KeyPaths PROVE Merge(n, d)[q] = n[q]
  <2>1. CASE filled(q)
    BY <1>2, <1>3, <2>1
  <2>2. CASE ~filled(q)
    <3>1. ASSUME NEW r \in Above[q] \cup {q}, Fills(n, d, r) PROVE FALSE
      <4>1. r \in KeyPaths /\ n[r] = t[r] /\ ~Fills(t, d, r)
        BY <1>6, <2>2
      <4>2. \A a \in Above[r] : a \in Above[q] /\ n[a] = t[a] /\ ~Fills(t, d, a)
        BY <1>6, <2>2, <4>1, AboveTrans
      <4>3. ASSUME <<>> \in Above[r] PROVE t[<<>>] = Map /\ ~Bare(t, <<>>)
        <5>1. n[<<>>] = Map
          BY <3>1, <4>3 DEF Fills
        <5>2. t[<<>>] = Map /\ ~Fills(t, d, <<>>)
          BY <4>2, <4>3, <5>1
        <5> QED BY <1>5, <5>2 DEF Fills
      <4>4. ASSUME r = <<>>, Bare(n, r) PROVE t[r] \in {Missing, Null} \/ Bare(t, r)
        <5>1. t[r] \in {Missing, Null, Map}
          BY <4>1, <4>4 DEF Bare
        <5> QED BY <1>7, <4>1, <4>4, <5>1
      <4> QED BY <3>1, <4>1, <4>2, <4>3, <4>4 DEF Fills
    <3> QED BY <1>3, <2>2, <3>1
  <2> QED BY <2>1, <2>2
<1>9. Merge(n, d) = n
  BY <1>4, <1>8
<1> QED BY <1>9 DEF n

\* Where nothing is missing nothing is filled in.
LEMMA CompleteKeeps ==
  ASSUME NEW doc \in Documents, NEW d \in Trees, ~Incomplete(doc, d)
  PROVE  doc.enabled \in {"true", "false"} /\ Merge(doc.config, d) = doc.config
<1>1. doc.enabled \in {Missing, Null, "true", "false"} /\ doc.config \in Trees
  BY DEF Documents
<1>2. doc.config \in [KeyPaths -> Nodes] /\ Merge(doc.config, d) \in [KeyPaths -> Nodes]
  BY <1>1, MergeTree, TreeMeans
<1>3. \A q \in KeyPaths : \A r \in Above[q] \cup {q} : ~Fills(doc.config, d, r)
  BY AboveShorter DEF Incomplete
<1>4. \A q \in KeyPaths : Merge(doc.config, d)[q] = doc.config[q]
  BY <1>3 DEF Merge
<1>5. Merge(doc.config, d) = doc.config
  BY <1>2, <1>4
<1> QED BY <1>1, <1>5 DEF Incomplete

\* What an editor has been asked to do.
Asked(e) ==
  LET t == edit[e] IN
  /\ t.kind \in {"set", "reset", "enable", "disable", "sync"}
  /\ op[e] = t.kind \/ (op[e] = "fill" /\ t.kind \in {"reset", "enable"} /\ ~t.host)
  /\ t.registry \subseteq Ids /\ (t.kind # "sync" => t.id \in Ids)
  /\ t.kind \in {"set", "reset"} => t.path \in SettablePaths
  /\ t.kind = "set" => t.value \in Values
  /\ t.kind \in {"enable", "disable", "sync"} => ~t.host

\* The entries it is about.
Scope(e) == IF edit[e].kind = "sync" THEN {i \in Ids : disk[i] # Nil} ELSE {edit[e].id}

\* Before defaults are filled in, the first half of the task has been done.
Halfway(e, i, file) ==
  op[e] = "fill" =>
    /\ file \notin {Nil, Empty} /\ i \in edit[e].registry
    /\ edit[e].kind = "reset" => Cleared(file.config, edit[e].path)
    /\ edit[e].kind = "enable" => file.enabled = "true"

\* What has been done to an entry that has been read and needs no writing any more.
Done(e, i, file) ==
  LET t == edit[e] IN
  /\ file # Empty
  /\ op[e] = "set" => file # Nil /\ file.config[t.path] = t.value
  /\ op[e] = "reset" => file = Nil \/ Cleared(file.config, t.path)
  /\ op[e] = "enable" => file # Nil /\ file.enabled = "true"
  /\ op[e] = "disable" => file = Nil \/ file.enabled = "false"
  /\ op[e] = "sync" /\ file # Nil /\ i \in t.registry => HasDefaults(file, i)
  /\ op[e] = "fill" =>
       /\ HasDefaults(file, i) /\ i \in t.registry
       /\ t.kind = "reset" => file.config[t.path] = Default[i][t.path]
       /\ t.kind = "enable" => file.enabled = "true"

EntryInvariant(e, i) ==
  /\ i \in unread[e] \/ changed[e][i] # Nil => Halfway(e, i, disk[i])
  /\ changed[e][i] # Nil => disk[i] # Empty /\ ~Impossible(e, i, Document(disk[i]))
  /\ i \in Scope(e) /\ i \notin unread[e] /\ changed[e][i] = Nil => Done(e, i, disk[i])

Progress(e) ==
  stage[e] # "idle" =>
    /\ Asked(e)
    /\ stage[e] = "wait" => edit[e].id \in unread[e] /\ op[e] # "fill" /\ edit[e].kind # "sync"
    /\ stage[e] = "save" => unread[e] = {}
    /\ stage[e] \in {"read", "save"} /\ alone[e] /\ ~blind[e] =>
         \A i \in Ids : EntryInvariant(e, i)

TakeInv == \A e \in Editors : Progress(e)

\* Cutting clears.
LEMMA CutClears ==
  ASSUME NEW t \in Trees, NEW p \in KeyPaths, Reachable(t, p)
  PROVE  Cleared(Cut(t, p), p) /\ (t[p] = Missing => Cleared(t, p))
<1>1. Cut(t, p)[p] = Missing
  BY DEF Cut
<1>2. \A q \in Above[p] : t[q] \in {Map, Missing, Null}
  BY DEF Reachable, Bare
<1>3. \A q \in Above[p] : q \in KeyPaths /\ Cut(t, p)[q] \in {t[q], Missing}
  BY AboveShorter DEF Cut
<1> QED BY <1>1, <1>2, <1>3 DEF Cleared

\* What a task asks for has been done to a document that need not be changed ...
LEMMA UnchangedDone ==
  ASSUME NEW e \in Editors, Asked(e), NEW i \in Ids, NEW file \in EntryFiles, file # Empty,
         Halfway(e, i, file), ~Impossible(e, i, Document(file)), Change(e, i, file) = Nil
  PROVE  Done(e, i, file)
<1> DEFINE doc == Document(file)
           t == edit[e]
<1>1. doc \in Documents /\ doc.config \in Trees
  BY DocumentRead DEF Documents
<1>2. file # Nil => doc = file /\ Written(file)
  BY DEF Document, Written
<1>3. file = Nil => doc = FreshDocument
  BY DEF Document
<1>4. \A new \in Documents : Reached(file, new) # Nil
  BY FilesAssumption, DocumentsAreWritten DEF Reached, Written
<1>5. CASE op[e] = "set"
  <2>1. t.path \in KeyPaths /\ t.path # <<>> /\ t.value # Missing /\ t.value \in Nodes
    BY <1>5, EditorsAssumption DEF Asked, SettablePaths
  <2>2. WithPath(e, doc) = doc
    <3>1. WithPath(e, doc) \in Documents
      BY <1>1, <1>5, <2>1, PutTree DEF WithPath, Documents
    <3> QED BY <1>4, <1>5, <3>1 DEF Change
  <2>3. doc.config[t.path] = t.value
    <3>1. doc.config = Put(doc.config, t.path, t.value)
      BY <1>1, <1>5, <2>2 DEF WithPath, Documents
    <3>2. Put(doc.config, t.path, t.value)[t.path] = t.value
      BY <2>1 DEF Put
    <3> QED BY <3>1, <3>2
  <2>4. FreshDocument.config[t.path] = Missing
    BY <2>1 DEF FreshDocument, EmptyConfig, Hollow
  <2> QED BY <1>2, <1>3, <1>5, <2>1, <2>3, <2>4 DEF Done
<1>6. CASE op[e] = "reset"
  <2>1. t.path \in KeyPaths /\ Reachable(doc.config, t.path)
    BY <1>6 DEF Asked, SettablePaths, Impossible
  <2>2. CASE file # Nil
    <3>1. WithPath(e, doc) \in Documents
      BY <1>1, <1>6, <2>1, CutTree DEF WithPath, Documents
    <3>2. WithPath(e, doc) = doc
      BY <1>4, <1>6, <2>2, <3>1 DEF Change
    <3>3. doc.config[t.path] = Missing \/ doc.config = Cut(doc.config, t.path)
      BY <1>1, <1>6, <3>2 DEF WithPath, Documents
    <3>4. Cleared(doc.config, t.path)
      BY <1>1, <2>1, <3>3, CutClears
    <3> QED BY <1>2, <1>6, <2>2, <3>4 DEF Done
  <2> QED BY <1>6, <2>2 DEF Done
<1>7. CASE op[e] \in {"enable", "disable"}
  <2>1. WithEnabled(e, doc) \in Documents
    BY <1>1 DEF WithEnabled, Documents
  <2>2. WithEnabled(e, doc) = doc
    BY <1>4, <1>7, <2>1 DEF Change
  <2>3. doc.enabled = IF op[e] = "enable" THEN "true" ELSE "false"
    BY <1>1, <2>2 DEF WithEnabled, Documents
  <2>4. FreshDocument.enabled = "false"
    BY DEF FreshDocument
  <2> QED BY <1>2, <1>3, <1>7, <2>3, <2>4 DEF Done
<1>8. CASE op[e] \in {"sync", "fill"}
  <2>1. Default[i] \in Trees
    BY EditorsAssumption
  <2>2. Filled(doc, Default[i]) \in Documents
    BY <1>1, <2>1, MergeTree DEF Filled, FillEnabled, Documents
  <2>3. ASSUME i \in t.registry, file # Nil PROVE HasDefaults(file, i)
    <3>1. ~Incomplete(doc, Default[i])
      BY <1>4, <1>8, <2>2, <2>3 DEF Change
    <3> QED BY <1>1, <1>2, <2>1, <2>3, <3>1, CompleteKeeps DEF HasDefaults
  <2>4. CASE op[e] = "sync"
    BY <2>3, <2>4 DEF Done
  <2>5. CASE op[e] = "fill"
    <3>1. file # Nil /\ i \in t.registry /\ doc = file /\ HasDefaults(file, i)
      BY <1>2, <2>3, <2>5 DEF Halfway
    <3>2. t.kind = "reset" => file.config[t.path] = Default[i][t.path]
      <4>1. t.kind = "reset" => t.path \in KeyPaths /\ Cleared(file.config, t.path)
        BY <2>5 DEF Asked, SettablePaths, Halfway
      <4> QED BY <1>1, <2>1, <3>1, <4>1, ClearedFilled DEF HasDefaults
    <3> QED BY <2>5, <3>1, <3>2 DEF Done, Halfway
  <2> QED BY <1>8, <2>4, <2>5
<1> QED BY <1>5, <1>6, <1>7, <1>8 DEF Asked

\* ... and to one that has been.
LEMMA ChangedDone ==
  ASSUME NEW e \in Editors, Asked(e), NEW i \in Ids, NEW file \in EntryFiles, file # Empty,
         Halfway(e, i, file), ~Impossible(e, i, Document(file)), Change(e, i, file) # Nil
  PROVE  Done(e, i, Change(e, i, file))
<1> DEFINE doc == Document(file)
           t == edit[e]
           new == Change(e, i, file)
<1> SUFFICES Done(e, i, new)
  OBVIOUS
<1>1. doc \in Documents /\ doc.config \in Trees /\ doc.config \in [KeyPaths -> Nodes]
  BY DocumentRead, TreeMeans DEF Documents
<1>2. file # Nil => doc = file
  BY DEF Document
<1>3. \A d \in Documents : d # Empty /\ d # Nil /\ Written(d)
  BY DocumentsAreWritten DEF Written
<1>4. CASE op[e] = "set"
  <2>1. t.path \in KeyPaths /\ t.value \in Nodes
    BY <1>4, EditorsAssumption DEF Asked, SettablePaths
  <2>2. new = WithPath(e, doc)
    BY <1>4 DEF Change, Reached
  <2>3. new \in Documents /\ new.config = Put(doc.config, t.path, t.value)
    BY <1>1, <1>4, <2>1, <2>2, PutTree DEF WithPath, Documents
  <2>4. new.config[t.path] = t.value
    BY <2>1, <2>3 DEF Put
  <2> HIDE DEF new
  <2> QED BY <1>3, <1>4, <2>3, <2>4 DEF Done
<1>5. CASE op[e] = "reset"
  <2>1. t.path \in KeyPaths /\ Reachable(doc.config, t.path)
    BY <1>5 DEF Asked, SettablePaths, Impossible
  <2>2. new = WithPath(e, doc) /\ new # doc
    BY <1>5 DEF Change, Reached
  <2>3. new \in Documents /\ new.config = Cut(doc.config, t.path)
    BY <1>1, <1>5, <2>1, <2>2, CutTree DEF WithPath, Documents
  <2>4. Cleared(new.config, t.path)
    BY <1>1, <2>1, <2>3, CutClears
  <2> HIDE DEF new
  <2> QED BY <1>3, <1>5, <2>3, <2>4 DEF Done
<1>6. CASE op[e] \in {"enable", "disable"}
  <2>1. new = WithEnabled(e, doc)
    BY <1>6 DEF Change, Reached
  <2>2. new \in Documents /\ new.enabled = IF op[e] = "enable" THEN "true" ELSE "false"
    BY <1>1, <2>1 DEF WithEnabled, Documents
  <2> HIDE DEF new
  <2> QED BY <1>3, <1>6, <2>2 DEF Done
<1>7. CASE op[e] \in {"sync", "fill"}
  <2>1. Default[i] \in Trees /\ Default[i][<<>>] = Map
    BY EditorsAssumption
  <2>2. new = Filled(doc, Default[i])
    BY <1>7 DEF Change, Reached
  <2>3. /\ new \in Documents /\ new.config = Merge(doc.config, Default[i])
        /\ new.enabled = FillEnabled(doc.enabled)
    BY <1>1, <2>1, <2>2, MergeTree DEF Filled, FillEnabled, Documents
  <2>4. new.enabled \in {"true", "false"} /\ (doc.enabled = "true" => new.enabled = "true")
    BY <1>1, <2>3, ConfigDocsAssumption DEF FillEnabled, Documents
  <2>5. Merge(new.config, Default[i]) = new.config
    BY <1>1, <2>1, <2>3, MergeTwice
  <2> HIDE DEF new
  <2>6. HasDefaults(new, i)
    BY <1>3, <2>3, <2>4, <2>5 DEF HasDefaults
  <2>7. CASE op[e] = "sync"
    BY <1>3, <2>3, <2>6, <2>7 DEF Done
  <2>8. CASE op[e] = "fill"
    <3>1. doc = file
      BY <1>2, <2>8 DEF Halfway
    <3>2. t.kind = "reset" => new.config[t.path] = Default[i][t.path]
      <4>1. t.kind = "reset" => t.path \in KeyPaths /\ Cleared(doc.config, t.path)
        BY <2>8, <3>1 DEF Asked, SettablePaths, Halfway
      <4> QED BY <1>1, <2>1, <2>3, <4>1, ClearedFilled
    <3>3. t.kind = "enable" => new.enabled = "true"
      BY <2>4, <2>8, <3>1 DEF Halfway
    <3> QED BY <1>3, <2>3, <2>6, <2>8, <3>2, <3>3 DEF Done, Halfway
  <2> QED BY <1>7, <2>7, <2>8
<1> QED BY <1>4, <1>5, <1>6, <1>7 DEF Asked

\* A step of somebody else leaves an editor's progress as it is.
LEMMA OthersProgress ==
  ASSUME NEW d \in Editors, Progress(d), Unedited(d), alone'[d] => alone[d] /\ disk' = disk
  PROVE  Progress(d)'
<1>1. stage[d] # "idle" => Asked(d)'
  BY DEF Progress, Unedited, Asked
<1>2. ASSUME disk' = disk, NEW i \in Ids, EntryInvariant(d, i) PROVE EntryInvariant(d, i)'
  BY <1>2 DEF Unedited, EntryInvariant, Halfway, Impossible, Scope, Done, Document
<1> QED BY <1>1, <1>2 DEF Progress, Unedited

LEMMA OwnProgress ==
  ASSUME LockInv, HostInv, UndoInv, EditInv, TakeInv, NEW e \in Editors, EditorStep(e)
  PROVE  Progress(e)'
<1> USE DEF HostInv, EditorShape
<1>1. CASE Finish(e)
  BY <1>1 DEF Finish, Progress
<1>2. CASE AskHost(e) \/ AskConfig(e) \/ AskEnabled(e) \/ AskSync(e)
  <2>1. PICK t, entries :
           /\ Ask(e, t, entries) /\ stage[e] = "idle"
           /\ t.kind \in {"set", "reset", "enable", "disable", "sync"}
           /\ t.registry \subseteq Ids /\ t.host \in BOOLEAN
           /\ t.kind # "sync" => t.id \in Ids /\ entries = {t.id}
           /\ t.kind = "sync" => entries = Entries
           /\ t.kind \in {"set", "reset"} => t.path \in SettablePaths
           /\ t.kind = "set" => t.value \in Values
           /\ t.kind \in {"enable", "disable", "sync"} => ~t.host
    BY <1>2, Requests
  <2>2. /\ op'[e] = t.kind /\ edit'[e] = t /\ unread'[e] = entries /\ changed' = changed
        /\ disk' = disk /\ stage'[e] = IF t.host THEN "wait" ELSE "read"
    BY <2>1 DEF Ask
  <2>3. \A i \in Ids : changed[e][i] = Nil
    BY <2>1 DEF InHand
  <2>4. Asked(e)'
    BY <2>1, <2>2 DEF Asked
  <2>5. ASSUME NEW i \in Ids PROVE EntryInvariant(e, i)'
    BY <2>1, <2>2, <2>3, <2>5 DEF EntryInvariant, Halfway, Scope, Entries
  <2> QED BY <2>1, <2>2, <2>4, <2>5 DEF Progress
<1>3. CASE Acquire(e)
  <2>1. /\ stage'[e] = "read" /\ stage[e] = "wait"
        /\ UNCHANGED <<disk, edit, op, unread, changed>>
    BY <1>3 DEF Acquire
  <2>2. \A i \in Ids : changed[e][i] = Nil
    BY <2>1 DEF InHand
  <2>3. Asked(e) /\ edit[e].id \in unread[e] /\ op[e] # "fill" /\ edit[e].kind # "sync"
    BY <2>1 DEF TakeInv, Progress
  <2>4. Asked(e)'
    BY <2>1, <2>3 DEF Asked
  <2>5. ASSUME NEW i \in Ids PROVE EntryInvariant(e, i)'
    BY <2>1, <2>2, <2>3, <2>5 DEF EntryInvariant, Halfway, Scope
  <2> QED BY <2>1, <2>4, <2>5 DEF Progress
<1>4. CASE ReadEntry(e)
  <2>1. PICK i \in unread[e] :
          /\ ~Impossible(e, i, Document(disk[i]))
          /\ changed' = [changed EXCEPT ![e][i] = Change(e, i, disk[i])]
          /\ blind' = [blind EXCEPT ![e] = @ \/ disk[i] = Empty]
          /\ unread' = [unread EXCEPT ![e] = @ \ {i}]
    BY <1>4 DEF ReadEntry
  <2>2. UNCHANGED <<disk, alone, stage, edit, op>> /\ stage[e] = "read"
    BY <1>4 DEF ReadEntry
  <2>3. \A j \in Ids : changed'[e][j] = IF j = i THEN Change(e, i, disk[i]) ELSE changed[e][j]
    BY <2>1 DEF EntriesSound
  <2>4. unread'[e] = unread[e] \ {i} /\ (~blind'[e] => ~blind[e] /\ disk[i] # Empty)
    BY <2>1
  <2>5. Asked(e) /\ Asked(e)'
    BY <2>2 DEF TakeInv, Progress, Asked
  <2>6. ASSUME alone[e], ~blind'[e], NEW j \in Ids PROVE EntryInvariant(e, j)'
    <3>1. \A k \in Ids : EntryInvariant(e, k)
      BY <2>2, <2>4, <2>6 DEF TakeInv, Progress
    <3>2. CASE j # i
      <4>1. EntryInvariant(e, j)
        BY <3>1
      <4> QED BY <2>2, <2>3, <2>4, <3>2, <4>1
            DEF EntryInvariant, Halfway, Impossible, Scope, Done, Document
    <3>3. CASE j = i
      <4>1. Halfway(e, i, disk[i]) /\ disk[i] # Empty /\ disk[i] \in EntryFiles
        BY <2>4, <2>6, <3>1, <3>3 DEF EntryInvariant, EntriesSound
      <4>2. Change(e, i, disk[i]) = Nil => Done(e, i, disk[i])
        BY <2>1, <2>5, <3>3, <4>1, UnchangedDone
      <4> QED BY <2>1, <2>2, <2>3, <2>4, <3>3, <4>1, <4>2
            DEF EntryInvariant, Halfway, Impossible, Scope, Done, Document
    <3> QED BY <3>2, <3>3
  <2> QED BY <2>2, <2>5, <2>6 DEF Progress
<1>5. CASE ReadAll(e)
  <2>1. /\ UNCHANGED <<disk, alone, edit, op, unread, changed, blind>>
        /\ stage[e] = "read" /\ stage'[e] = "save" /\ unread[e] = {}
    BY <1>5 DEF ReadAll
  <2>2. Asked(e)'
    BY <2>1 DEF TakeInv, Progress, Asked
  <2>3. ASSUME NEW i \in Ids, EntryInvariant(e, i) PROVE EntryInvariant(e, i)'
    BY <2>1, <2>3 DEF EntryInvariant, Halfway, Impossible, Scope, Done, Document
  <2> QED BY <2>1, <2>2, <2>3 DEF TakeInv, Progress
<1>6. CASE SaveEntry(e)
  <2>1. PICK i \in Ids : changed[e][i] # Nil /\ Write(e, i, changed[e][i])
                         /\ changed' = [changed EXCEPT ![e][i] = Nil]
    BY <1>6 DEF SaveEntry
  <2>2. UNCHANGED <<stage, edit, op, unread, blind>> /\ stage[e] = "save" /\ unread[e] = {}
    BY <1>6 DEF SaveEntry, TakeInv, Progress
  <2>3. \A j \in Ids : changed'[e][j] = IF j = i THEN Nil ELSE changed[e][j]
    BY <2>1 DEF EntriesSound
  <2>4. (alone'[e] => alone[e]) /\ disk'[i] = changed[e][i] /\ \A j \in Ids \ {i} : disk'[j] = disk[j]
    BY <2>1, WriteAlone, FileNames, EditorsAssumption DEF LockInv, UndoInv
  <2>5. Asked(e) /\ Asked(e)'
    BY <2>2 DEF TakeInv, Progress, Asked
  <2>6. ASSUME alone[e], ~blind[e], NEW j \in Ids PROVE EntryInvariant(e, j)'
    <3>1. \A k \in Ids : EntryInvariant(e, k)
      BY <2>2, <2>6 DEF TakeInv, Progress
    <3>2. CASE j # i
      <4>1. EntryInvariant(e, j)
        BY <3>1
      <4> QED BY <2>2, <2>3, <2>4, <3>2, <4>1
            DEF EntryInvariant, Halfway, Impossible, Scope, Done, Document
    <3>3. CASE j = i
      <4>1. /\ Halfway(e, i, disk[i]) /\ disk[i] # Empty /\ disk[i] \in EntryFiles
            /\ ~Impossible(e, i, Document(disk[i]))
        BY <2>1, <3>1, <3>3 DEF EntryInvariant, EntriesSound
      <4>2. changed[e][i] = Change(e, i, disk[i])
        BY <2>1, <2>2, <2>6 DEF EditInv, EditorFresh
      <4>3. Done(e, i, disk'[i])
        BY <2>1, <2>4, <2>5, <3>3, <4>1, <4>2, ChangedDone
      <4>4. changed'[e][i] = Nil /\ unread'[e] = {}
        BY <2>2, <2>3
      <4> QED BY <2>2, <3>3, <4>3, <4>4 DEF EntryInvariant, Done
    <3> QED BY <3>2, <3>3
  <2> QED BY <2>2, <2>4, <2>5, <2>6 DEF Progress
<1>7. CASE Saved(e)
  <2>1. CASE Refills(e)
    <3>1. /\ stage[e] = "save" /\ \A i \in Ids : changed[e][i] = Nil
          /\ op[e] \in {"reset", "enable"} /\ ~edit[e].host
          /\ edit[e].id \in edit[e].registry /\ disk[edit[e].id] # Nil
      BY <1>7, <2>1 DEF Saved, Refills, NoChange
    <3>2. /\ op'[e] = "fill" /\ stage'[e] = "read" /\ unread'[e] = {edit[e].id}
          /\ UNCHANGED <<disk, alone, edit, changed, blind>>
      BY <1>7, <2>1 DEF Saved
    <3>3. Asked(e) /\ unread[e] = {}
      BY <3>1 DEF TakeInv, Progress
    <3>4. op[e] = edit[e].kind /\ edit[e].id \in Ids
      BY <3>1, <3>3 DEF Asked
    <3>5. Asked(e)'
      BY <3>1, <3>2, <3>3, <3>4 DEF Asked
    <3>6. ASSUME alone[e], ~blind[e], NEW i \in Ids PROVE EntryInvariant(e, i)'
      <4>1. EntryInvariant(e, edit[e].id)
        BY <3>1, <3>4, <3>6 DEF TakeInv, Progress
      <4>2. edit[e].id \in Scope(e)
        BY <3>1, <3>4 DEF Scope
      <4>3. Done(e, edit[e].id, disk[edit[e].id])
        BY <3>1, <3>3, <3>4, <4>1, <4>2 DEF EntryInvariant
      <4>4. CASE i = edit[e].id
        <5>1. Halfway(e, i, disk[i])'
          BY <3>1, <3>2, <3>4, <4>3, <4>4 DEF Halfway, Done
        <5> QED BY <3>1, <3>2, <4>4, <5>1 DEF EntryInvariant
      <4>5. CASE i # edit[e].id
        BY <3>1, <3>2, <3>4, <4>5 DEF EntryInvariant, Scope
      <4> QED BY <4>4, <4>5
    <3> QED BY <3>2, <3>5, <3>6 DEF Progress
  <2> QED BY <1>1, <1>7, <2>1 DEF Saved
<1> QED
  BY <1>1, <1>2, <1>3, <1>4, <1>5, <1>6, <1>7 DEF EditorStep, ReadFails, SaveFails

LEMMA NextTakeInv ==
  LockInv /\ HostInv /\ UndoInv /\ EditInv /\ TakeInv /\ [Next]_vars => TakeInv'
<1> SUFFICES ASSUME LockInv, HostInv, UndoInv, EditInv, TakeInv, [Next]_vars PROVE TakeInv'
  OBVIOUS
<1> USE DEF TakeInv, UndoInv
<1>1. CASE \E c \in Commands : Command(c)
  BY <1>1, CommandUnedited, OthersProgress
<1>2. CASE \E e \in Editors : Editor(e)
  BY <1>2, EditorUnedited, OthersProgress, OwnProgress DEF Editor
<1>3. CASE UNCHANGED vars
  <2>1. \A d \in Editors : Unedited(d) /\ (alone'[d] => alone[d] /\ disk' = disk)
    BY <1>3 DEF vars, configVars, Unedited
  <2> QED BY <2>1, OthersProgress
<1> QED BY <1>1, <1>2, <1>3 DEF Next

LEMMA InitTakeInv == Init => TakeInv
BY DEF Init, ConfigsInit, TakeInv, Progress

\* A configuration task that reports success has had its effect, if nobody else wrote
\* (config_update.go:152): what is set is set, what is reset is the plugin's default,
\* and "sync" leaves every plugin that can be loaded with all its defaults.
THEOREM EditsKept == Spec => EditsTake
<1>1. ASSUME LockInv, HostInv, UndoInv, EditInv, TakeInv, [Next]_vars, NEW e \in Editors,
             Succeeds(e), alone[e], ~blind[e]
      PROVE  Promise(edit[e], disk')
  <2> DEFINE t == edit[e]
  <2>1. EditorStep(e)
    <3>1. ~Unedited(e)
      BY <1>1 DEF Unedited, Succeeds
    <3>2. ~ \E c \in Commands : Command(c)
      BY <1>1, <3>1, CommandUnedited DEF UndoInv
    <3>3. ~(UNCHANGED vars)
      BY <3>1 DEF Unedited, vars, configVars
    <3> QED BY <1>1, <3>1, <3>2, <3>3, EditorUnedited DEF Next, Editor, UndoInv
  <2>2. stage[e] = "save" /\ changed[e] = NoChange /\ stage'[e] = "idle"
    BY <1>1 DEF Succeeds
  <2>3. Saved(e)
    BY <1>1, <2>1, <2>2 DEF EditorStep, AskHost, AskConfig, AskEnabled, AskSync, Free, Acquire,
       ReadEntry, ReadFails, ReadAll, SaveEntry, SaveFails
  <2>4. disk' = disk /\ ~Refills(e)
    BY <1>1, <2>2, <2>3 DEF Saved, HostInv, EditorShape
  <2>5. Asked(e) /\ \A i \in Scope(e) : i \in Ids /\ Done(e, i, disk[i])
    <3>1. Asked(e) /\ unread[e] = {} /\ \A i \in Ids : EntryInvariant(e, i)
      BY <1>1, <2>2 DEF TakeInv, Progress
    <3>2. Scope(e) \subseteq Ids
      BY <3>1 DEF Asked, Scope
    <3>3. \A i \in Ids : changed[e][i] = Nil
      BY <2>2 DEF NoChange
    <3> QED BY <3>1, <3>2, <3>3 DEF EntryInvariant
  <2>6. \A i \in Ids : disk[i] \in EntryFiles
    BY <1>1 DEF HostInv, EntriesSound
  <2>7. CASE t.kind = "sync"
    <3>1. ASSUME NEW i \in t.registry, disk[i] # Nil PROVE HasDefaults(disk[i], i)
      <4>1. i \in Scope(e)
        BY <2>5, <2>7, <3>1 DEF Asked, Scope
      <4> QED BY <2>5, <2>7, <3>1, <4>1 DEF Asked, Done
    <3> QED BY <2>4, <2>7, <3>1 DEF Promise
  <2>8. CASE t.kind # "sync"
    <3>1. t.id \in Ids /\ Done(e, t.id, disk[t.id])
      BY <2>5, <2>8 DEF Scope
    <3>2. CASE t.kind = "set"
      BY <2>4, <2>5, <3>1, <3>2 DEF Asked, Done, Promise, Written
    <3>3. CASE t.kind = "reset"
      <4>1. CASE op[e] = "reset"
        <5>1. t.host \/ t.id \notin t.registry \/ disk[t.id] = Nil
          BY <2>4, <4>1 DEF Refills
        <5> QED BY <2>4, <3>1, <3>3, <4>1, <5>1 DEF Done, Promise, Written, Cleared
      <4>2. CASE op[e] = "fill"
        <5>1. ~t.host /\ t.id \in t.registry /\ disk[t.id].config[t.path] = Default[t.id][t.path]
              /\ Written(disk[t.id])
          BY <2>5, <3>1, <3>3, <4>2 DEF Asked, Done, HasDefaults
        <5> QED BY <2>4, <3>3, <5>1 DEF Promise
      <4> QED BY <2>5, <3>3, <4>1, <4>2 DEF Asked
    <3>4. CASE t.kind = "enable"
      <4>1. CASE op[e] = "enable"
        <5>1. t.id \notin t.registry \/ disk[t.id] = Nil
          BY <2>4, <2>5, <3>4, <4>1 DEF Refills, Asked
        <5> QED BY <2>4, <3>1, <3>4, <4>1, <5>1 DEF Done, Promise, Written
      <4>2. CASE op[e] = "fill"
        BY <2>4, <3>1, <3>4, <4>2 DEF Done, Promise, HasDefaults
      <4> QED BY <2>5, <3>4, <4>1, <4>2 DEF Asked
    <3>5. CASE t.kind = "disable"
      BY <2>4, <2>5, <3>1, <3>5 DEF Asked, Done, Promise, Written
    <3> QED BY <2>5, <2>8, <3>2, <3>3, <3>4, <3>5 DEF Asked
  <2> QED BY <2>7, <2>8
<1>2. LockInv /\ HostInv /\ UndoInv /\ EditInv /\ TakeInv /\ [Next]_vars =>
        [\A e \in Editors :
           Succeeds(e) /\ alone[e] /\ ~blind[e] => Promise(edit[e], disk')]_configsDisk
  BY <1>1
<1> QED
  BY <1>2, InitLockInv, NextLockInv, InitHostInv, NextHostInv, InitUndoInv, NextUndoInv,
     InitEditInv, NextEditInv, InitTakeInv, NextTakeInv, PTL DEF Spec, EditsTake

=============================================================================
