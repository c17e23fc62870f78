---------------------------- MODULE PluginFiles -----------------------------
(***************************************************************************)
(* What the files of a bot's directory say about its plugins, and how      *)
(* app/host and cmd/anybot compute one from another: plugins.lock, the     *)
(* generated plugins.gen.go and main.go, go.mod, config/anybot.yaml and    *)
(* one config/<id>.yaml per plugin.                                        *)
(*                                                                         *)
(* A file is its name: an entry's name is the plugin's id.  A record of    *)
(* the lock always says where its module comes from: from a version, from  *)
(* a local path, or from a path with the version it stands for.            *)
(***************************************************************************)
EXTENDS ConfigDocs, FiniteSets

CONSTANTS
  Processes,    \* processes of anybot in the directory
  MaxTasks,     \* what they are asked to do, in all
  Ids,          \* PluginIDs
  Modules,      \* Go modules of plugins
  Versions,     \* pinned versions of them
  Paths,        \* local paths that can replace a module
  Placeholder,  \* v0.0.0, required for a module without a version
  Builtin,      \* stands for the module of a builtin plugin
  Foreign,      \* a file anybot has not generated
  Empty,        \* a file truncated to nothing
  Nil           \* no file, no record, no version, no path

HostFiles == {"lock", "gen", "main", "gomod", "config"}
Files == HostFiles \cup Ids

ASSUME FilesAssumption ==
  /\ Ids \cap HostFiles = {}
  /\ Builtin \notin Modules
  /\ MaxTasks \in Nat
  /\ Placeholder \notin Versions \cup {Nil}
  /\ Nil \notin Versions \cup Paths \cup Modules \cup {Builtin, Empty, Foreign}
  /\ {Nil, Empty} \cap
       [enabled : {Missing, Null, "true", "false"}, config : [KeyPaths -> Nodes]] = {}

VARIABLES
  disk,     \* file -> content
  alone,    \* process -> nobody else has changed a file since it read them
  tasks     \* how many tasks have been started

External == {r \in [module : Modules, version : Versions \cup {Nil},
                    replace : Paths \cup {Nil}] :
               r.version # Nil \/ r.replace # Nil}
BuiltinRecord == [module |-> Builtin, version |-> Nil, replace |-> Nil]
Record == External \cup {BuiltinRecord}

\* Only of Locks a file is written; a missing or an empty file reads as NoPlugins.
Locks == [Ids -> Record \cup {Nil}]
NoPlugins == [i \in Ids |-> Nil]

Load(file) == IF file = Nil \/ file = Empty THEN NoPlugins ELSE file

SameSource(a, b) == a.version = b.version /\ a.replace = b.replace

\* validateSharedPluginSource: a Go build has one version of a module.
SharesSource(a, b) ==
  a.module # Builtin /\ a.module = b.module => SameSource(a, b)

ValidLock(lock) ==
  \A i, j \in Ids :
    lock[i] # Nil /\ lock[j] # Nil => SharesSource(lock[i], lock[j])

OfModule(lock, m) == {i \in Ids : lock[i] # Nil /\ lock[i].module = m}
Externals(lock) == {i \in Ids : lock[i] # Nil /\ lock[i].module # Builtin}

\* pinPluginModuleVersion: the versions that may come of a request.  Nil, which
\* is also "latest", is resolved by the go command, or left open for a path.
Pinned(version, replace) ==
  IF version # Nil THEN {version}
  ELSE IF replace # Nil THEN {Nil} ELSE Versions

\* UpdatePluginInstall changes every record of the module; a version or path
\* that is Keep stays.
Kept(new, old, Keep) == IF new = Keep THEN old ELSE new

\* Faulty: the other plugins of the module keep theirs.
UpdatedAlone(lock, id, version, replace, Keep) ==
  [lock EXCEPT ![id].version = Kept(version, @, Keep),
               ![id].replace = Kept(replace, @, Keep)]

Updated(lock, id, version, replace, Keep) ==
  [i \in Ids |->
     IF lock[i] # Nil /\ lock[i].module = lock[id].module
     THEN [module  |-> lock[id].module,
           version |-> Kept(version, lock[id].version, Keep),
           replace |-> Kept(replace, lock[id].replace, Keep)]
     ELSE lock[i]]

\* renderPlugins: the registry in plugins.gen.go.
Gen(lock) ==
  [i \in Ids |-> IF i \in Externals(lock) THEN lock[i].module ELSE Nil]

\* A go.mod, as far as it is about plugins.
GoMods == [require : [Modules -> Versions \cup {Placeholder, Nil}],
           replace : [Modules -> Paths \cup {Nil}]]
\* What overlapping commands can make of the lock: ValidatePluginInstall accepts a
\* record without version and path as well.
LooseRecord == [module : Modules, version : Versions \cup {Nil},
                replace : Paths \cup {Nil}] \cup {BuiltinRecord}
LooseLocks == [Ids -> LooseRecord \cup {Nil}]
Registries == [Ids -> Modules \cup {Nil}]

\* A record is one, and a file with something in it is neither missing nor empty.
ASSUME ContentsAssumption ==
  /\ Nil \notin LooseRecord
  /\ {Nil, Empty} \cap LooseLocks = {}
  /\ {Nil, Empty} \cap Registries = {}
  /\ {Nil, Empty} \cap GoMods = {}

FreshGoMod == [require |-> [m \in Modules |-> Nil],
               replace |-> [m \in Modules |-> Nil]]

Required(record) ==
  IF record.version = Nil THEN Placeholder ELSE record.version

Sourced(record) == record.version # Nil \/ record.replace # Nil

\* go.mod names the source of every module of the lock; a record that has none
\* leaves the version to the go command.
Synced(gomod, lock) ==
  \A i \in Externals(lock) :
    /\ Sourced(lock[i]) => gomod.require[lock[i].module] = Required(lock[i])
    /\ gomod.replace[lock[i].module] = lock[i].replace

\* ... and nothing else.
Exact(gomod, lock) ==
  /\ Synced(gomod, lock)
  /\ \A m \in Modules : OfModule(lock, m) = {} =>
       gomod.require[m] = Nil /\ gomod.replace[m] = Nil

Contents(f) ==
  IF f = "lock" THEN Locks \cup {Nil, Empty}
  ELSE IF f = "gen" THEN Registries \cup {Nil, Empty}
  ELSE IF f = "main" THEN {"generated", Foreign, Nil, Empty}
  ELSE IF f = "gomod" THEN GoMods \cup {Nil, Empty}
  ELSE IF f = "config" THEN {"default", Nil, Empty}
  ELSE Documents \cup {Nil, Empty}

\* CheckGeneratedHostWritable: what is there was generated, or there is nothing.
Writable(d) ==
  /\ d["gen"] # Empty
  /\ d["main"] \notin {Foreign, Empty}
  /\ d["gomod"] # Empty

\* An entry's file has a document in it.
Written(file) == file \notin {Nil, Empty}

\* All files of a directory agree.
Consistent(d) ==
  LET lock == Load(d["lock"]) IN
  /\ d["gen"] = Gen(lock)
  /\ d["gomod"] \notin {Nil, Empty} /\ Exact(d["gomod"], lock)
  /\ \A i \in Ids : lock[i] = Nil => d[i] = Nil

GoModOf(lock) ==
  [require |-> [m \in Modules |->
      IF OfModule(lock, m) = {} THEN Nil
      ELSE Required(lock[CHOOSE i \in OfModule(lock, m) : TRUE])],
   replace |-> [m \in Modules |->
      IF OfModule(lock, m) = {} THEN Nil
      ELSE lock[CHOOSE i \in OfModule(lock, m) : TRUE].replace]]

\* The directory of a bot whose plugins are those of a lock.
Directory(lock, entries) ==
  [f \in Files |->
     IF f = "lock" THEN lock
     ELSE IF f = "gen" THEN Gen(lock)
     ELSE IF f = "main" THEN "generated"
     ELSE IF f = "gomod" THEN GoModOf(lock)
     ELSE IF f = "config" THEN "default"
     ELSE IF lock[f] = Nil THEN Nil ELSE entries[f]]

EmptyDirectory(main) ==
  [f \in Files |-> IF f = "main" THEN main ELSE Nil]

\* Writing file f: what the others have read is no longer the last word.
Write(c, f, content) ==
  /\ disk' = [disk EXCEPT ![f] = content]
  /\ alone' = [d \in Processes |-> d = c /\ alone[c]]
=============================================================================
