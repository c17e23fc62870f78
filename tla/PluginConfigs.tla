---------------------------- MODULE PluginConfigs ---------------------------
(***************************************************************************)
(* Changes of plugin configuration (app/host/plugin_command.go,            *)
(* config_update.go, config_store.go): "plugin config", "enable",          *)
(* "disable" and "sync" as processes of their own, and the goroutines of    *)
(* one running host, which set and reset values through a ConfigStore.      *)
(* Everybody reads a document, changes it and replaces the file.  A mutex   *)
(* keeps the goroutines of the host apart, nothing does that for processes. *)
(***************************************************************************)
EXTENDS PluginFiles

CONSTANTS
  Editors,    \* those that change configuration: processes, or goroutines
  Known,      \* external plugins in the registry of the binary that runs
  Default,    \* plugin -> tree of its default configuration
  Values      \* what is set

ASSUME EditorsAssumption ==
  /\ Editors \subseteq Processes
  /\ Known \subseteq Ids
  /\ Default \in [Ids -> {t \in Trees : t[<<>>] = Map}]
  /\ Values \subseteq Nodes \ {Missing}

VARIABLES
  stage,      \* where an editor is
  edit,       \* what it was asked to do
  op,         \* what it does to the documents it reads
  unread,     \* the entries it has still to read
  changed,    \* entry -> the document it is going to write
  blind,      \* it has read an empty file
  holder,     \* who has the mutex of the host's ConfigStore
  kept        \* what the host has set and nobody else has touched

configVars ==
  <<stage, edit, op, unread, changed, blind, holder, kept>>
configsDisk == <<disk, alone, tasks, configVars>>

SettablePaths == KeyPaths \ {<<>>}

NoEdit == [kind |-> "none", host |-> FALSE, id |-> Nil, path |-> <<>>,
           value |-> Missing, registry |-> {}, installed |-> {}]
NoChange == [i \in Ids |-> Nil]

ConfigsInit ==
  /\ stage = [e \in Editors |-> "idle"]
  /\ edit = [e \in Editors |-> NoEdit]
  /\ op = [e \in Editors |-> "none"]
  /\ unread = [e \in Editors |-> {}]
  /\ changed = [e \in Editors |-> NoChange]
  /\ blind = [e \in Editors |-> FALSE]
  /\ holder = Nil
  /\ kept = {}

-----------------------------------------------------------------------------
\* The start: RunPluginCommand has loaded the configuration and the lock, and
\* resolved the id; a handler of the host knows its own plugin's id.

Installed == {i \in Ids : Load(disk["lock"])[i] # Nil}

\* RegistryForLock: the builtin plugins of the lock join those of the binary.
Registry == Known \cup
  {i \in Installed : Load(disk["lock"])[i].module = Builtin}

Entries == {i \in Ids : disk[i] # Nil}

\* ResolvePluginID: what cannot be enabled is a plugin only an entry knows of.
Targets(kind) ==
  Installed \cup Registry \cup (IF kind = "enable" THEN {} ELSE Entries)

Free(e) == stage[e] = "idle" /\ tasks < MaxTasks

Ask(e, t, todo) ==
  /\ tasks' = tasks + 1
  /\ edit' = [edit EXCEPT ![e] = t]
  /\ op' = [op EXCEPT ![e] = t.kind]
  /\ unread' = [unread EXCEPT ![e] = todo]
  /\ stage' = [stage EXCEPT ![e] = IF t.host THEN "wait" ELSE "read"]
  /\ alone' = [alone EXCEPT ![e] = ~t.host]
  /\ UNCHANGED <<disk, changed, blind, holder, kept>>

Task(kind, host, i, p, v) ==
  [kind |-> kind, host |-> host, id |-> i, path |-> p, value |-> v,
   registry |-> IF host THEN Known ELSE Registry, installed |-> Installed]

Loadable == disk["config"] # Nil /\ ValidLock(Load(disk["lock"]))

\* A handler calls SetPluginConfig or ResetPluginConfig.
AskHost(e) ==
  /\ Free(e)
  /\ \E i \in Known, p \in SettablePaths :
       \/ \E v \in Values : Ask(e, Task("set", TRUE, i, p, v), {i})
       \/ Ask(e, Task("reset", TRUE, i, p, Missing), {i})

AskConfig(e) ==
  /\ Free(e) /\ Loadable
  /\ \E i \in Targets("config"), p \in SettablePaths :
       \/ \E v \in Values : Ask(e, Task("set", FALSE, i, p, v), {i})
       \/ Ask(e, Task("reset", FALSE, i, p, Missing), {i})

AskEnabled(e) ==
  /\ Free(e) /\ Loadable
  /\ \E kind \in {"enable", "disable"} : \E i \in Targets(kind) :
       Ask(e, Task(kind, FALSE, i, <<>>, Missing), {i})

AskSync(e) ==
  /\ Free(e) /\ Loadable
  /\ Ask(e, Task("sync", FALSE, Nil, <<>>, Missing), Entries)

\* Faulty: the store has no mutex.
AcquireNothing(e) ==
  /\ stage[e] = "wait"
  /\ stage' = [stage EXCEPT ![e] = "read"]
  /\ alone' = [alone EXCEPT ![e] = TRUE]
  /\ UNCHANGED <<disk, tasks, edit, op, unread, changed, blind, holder, kept>>

-----------------------------------------------------------------------------
\* pluginConfigStore's mutex.
Acquire(e) ==
  /\ stage[e] = "wait" /\ holder = Nil
  /\ holder' = e
  /\ stage' = [stage EXCEPT ![e] = "read"]
  /\ alone' = [alone EXCEPT ![e] = TRUE]
  /\ UNCHANGED <<disk, tasks, edit, op, unread, changed, blind, kept>>

Finish(e) ==
  /\ stage' = [stage EXCEPT ![e] = "idle"]
  /\ edit' = [edit EXCEPT ![e] = NoEdit]
  /\ op' = [op EXCEPT ![e] = "none"]
  /\ unread' = [unread EXCEPT ![e] = {}]
  /\ changed' = [changed EXCEPT ![e] = NoChange]
  /\ blind' = [blind EXCEPT ![e] = FALSE]
  /\ alone' = [alone EXCEPT ![e] = FALSE]
  /\ holder' = IF holder = e THEN Nil ELSE holder

\* loadPluginEntryDocument: a file that is not there reads as a new plugin's.
Document(file) ==
  IF file = Nil THEN FreshDocument ELSE IF file = Empty THEN Braces ELSE file

\* ... and of an empty one the caller gets a copy the changes do not reach.
Reached(file, doc) == IF file = Empty THEN Braces ELSE doc

\* What cannot be done to the document, so that nothing is written at all.
Impossible(e, i, doc) ==
  \/ op[e] \in {"set", "reset"} /\ ~Reachable(doc.config, edit[e].path)
  \/ op[e] = "sync" /\ i \notin edit[e].registry \cup edit[e].installed
     /\ ~Disabled(doc)

WithPath(e, doc) ==
  IF op[e] = "set"
  THEN [doc EXCEPT !.config = Put(doc.config, edit[e].path, edit[e].value)]
  ELSE IF doc.config[edit[e].path] = Missing THEN doc
  ELSE [doc EXCEPT !.config = Cut(doc.config, edit[e].path)]

WithEnabled(e, doc) ==
  [doc EXCEPT !.enabled = IF op[e] = "enable" THEN "true" ELSE "false"]

\* The document that is written back, or Nil.
Change(e, i, file) ==
  LET doc == Document(file)
      new == IF op[e] \in {"set", "reset"} THEN WithPath(e, doc)
             ELSE IF op[e] \in {"enable", "disable"} THEN WithEnabled(e, doc)
             ELSE Filled(doc, Default[i])
  IN IF \/ op[e] = "reset" /\ file = Nil
        \/ op[e] \in {"set", "reset", "enable", "disable"} /\ new = doc
        \/ op[e] \in {"sync", "fill"}
           /\ (i \notin edit[e].registry \/ ~Incomplete(doc, Default[i]))
     THEN Nil ELSE Reached(file, new)

ReadEntry(e) ==
  /\ stage[e] = "read"
  /\ \E i \in unread[e] :
       /\ ~Impossible(e, i, Document(disk[i]))
       /\ changed' = [changed EXCEPT ![e][i] = Change(e, i, disk[i])]
       /\ blind' = [blind EXCEPT ![e] = @ \/ disk[i] = Empty]
       /\ unread' = [unread EXCEPT ![e] = @ \ {i}]
  /\ UNCHANGED <<disk, alone, tasks, stage, edit, op, holder, kept>>

ReadFails(e) ==
  /\ stage[e] = "read"
  /\ \E i \in unread[e] : Impossible(e, i, Document(disk[i]))
  /\ Finish(e)
  /\ UNCHANGED <<disk, tasks, kept>>

ReadAll(e) ==
  /\ stage[e] = "read" /\ unread[e] = {}
  /\ stage' = [stage EXCEPT ![e] = "save"]
  /\ UNCHANGED <<disk, alone, tasks, edit, op, unread, changed, blind, holder,
                 kept>>

Comparable(p, q) == p = q \/ p \in Above[q] \cup Below[q]

\* What the host can rely on after entry i has been written for editor e.
KeptAfter(e, i) ==
  IF ~edit[e].host THEN {f \in kept : f.id # i}
  ELSE {f \in kept : f.id = i => ~Comparable(f.path, edit[e].path)}
       \cup IF edit[e].kind = "set" /\ ~blind[e]
            THEN {[id |-> i, path |-> edit[e].path, value |-> edit[e].value]}
            ELSE {}

SaveEntry(e) ==
  /\ stage[e] = "save"
  /\ \E i \in Ids :
       /\ changed[e][i] # Nil
       /\ Write(e, i, changed[e][i])
       /\ changed' = [changed EXCEPT ![e][i] = Nil]
       /\ kept' = KeptAfter(e, i)
  /\ UNCHANGED <<tasks, stage, edit, op, unread, blind, holder>>

\* The file system refuses: what has been written stays.
SaveFails(e) ==
  /\ stage[e] = "save" /\ changed[e] # NoChange
  /\ Finish(e)
  /\ UNCHANGED <<disk, tasks, kept>>

\* Faulty: only "enable" is followed by it.
RefillsEnable(e) ==
  /\ op[e] = "enable" /\ ~edit[e].host
  /\ edit[e].id \in edit[e].registry /\ disk[edit[e].id] # Nil

\* After "reset" and "enable", SyncPluginConfigEntry reads the entry once more.
Refills(e) ==
  /\ op[e] \in {"reset", "enable"} /\ ~edit[e].host
  /\ edit[e].id \in edit[e].registry /\ disk[edit[e].id] # Nil

Saved(e) ==
  /\ stage[e] = "save" /\ changed[e] = NoChange
  /\ IF Refills(e)
     THEN /\ stage' = [stage EXCEPT ![e] = "read"]
          /\ op' = [op EXCEPT ![e] = "fill"]
          /\ unread' = [unread EXCEPT ![e] = {edit[e].id}]
          /\ UNCHANGED <<alone, edit, changed, blind, holder>>
     ELSE Finish(e)
  /\ UNCHANGED <<disk, tasks, kept>>

EditorStep(e) ==
  \/ AskHost(e) \/ AskConfig(e) \/ AskEnabled(e) \/ AskSync(e) \/ Acquire(e)
  \/ ReadEntry(e) \/ ReadFails(e) \/ ReadAll(e)
  \/ SaveEntry(e) \/ SaveFails(e) \/ Saved(e)

-----------------------------------------------------------------------------
ConfigsTypeOK ==
  /\ stage \in [Editors -> {"idle", "wait", "read", "save"}]
  /\ unread \in [Editors -> SUBSET Ids]
  /\ changed \in [Editors -> [Ids -> Documents \cup {Nil}]]
  /\ blind \in [Editors -> BOOLEAN]
  /\ holder \in Editors \cup {Nil}

\* A value that the host's code has set is in the file until somebody else
\* writes it: no goroutine of the host loses another's change to the same
\* document, although each replaces all of it (config_store.go:38).
HostUpdatesKept ==
  \A f \in kept : Written(disk[f.id])
                  /\ disk[f.id].config[f.path] = f.value

\* Configuration commands never switch a plugin on that the user has switched
\* off, unless they are told to: filling in defaults counts a missing "enabled"
\* as true, and false is not missing (config_update.go:791).
DisabledStays ==
  [][\A e \in Editors, i \in Ids :
       stage[e] = "save" /\ changed[e][i] # Nil /\ changed'[e][i] = Nil
       /\ Written(disk[i]) /\ Disabled(disk[i])
       /\ alone[e] /\ edit[e].kind # "enable"
         => Disabled(disk'[i])]_configsDisk

HasDefaults(doc, i) ==
  /\ Written(doc) /\ doc.enabled \in {"true", "false"}
  /\ Merge(doc.config, Default[i]) = doc.config

\* What a task promises of the files it leaves.
Promise(t, d) ==
  \/ t.kind = "set" /\ Written(d[t.id])
     /\ d[t.id].config[t.path] = t.value
  \/ t.kind = "reset" /\ d[t.id] = Nil
  \/ t.kind = "reset" /\ Written(d[t.id])
     /\ d[t.id].config[t.path] =
          IF t.host \/ t.id \notin t.registry THEN Missing
          ELSE Default[t.id][t.path]
  \/ t.kind = "enable" /\ Written(d[t.id]) /\ d[t.id].enabled = "true"
     /\ (t.id \in t.registry => HasDefaults(d[t.id], t.id))
  \/ t.kind = "disable" /\ d[t.id] = Nil
  \/ t.kind = "disable" /\ Written(d[t.id]) /\ d[t.id].enabled = "false"
  \/ t.kind = "sync"
     /\ \A i \in t.registry : d[i] # Nil => HasDefaults(d[i], i)

Succeeds(e) == stage[e] = "save" /\ changed[e] = NoChange /\ stage'[e] = "idle"

\* A task that reports success has had its effect, if nobody else wrote: a value
\* is set, a reset one is the plugin's default, "sync" leaves every plugin that
\* can be loaded with all its defaults.  Empty files are left out (see below).
EditsTake ==
  [][\A e \in Editors :
       Succeeds(e) /\ alone[e] /\ ~blind[e] => Promise(edit[e], disk')]_configsDisk

\* ... and SetPluginEnabled "sets enabled in config/<id>.yaml"
\* (config_update.go:152), whatever the file was.
EnabledIsSet ==
  [][\A e \in Editors :
       Succeeds(e) /\ alone[e] /\ edit[e].kind = "disable"
         => Promise(edit[e], disk')]_configsDisk
=============================================================================
