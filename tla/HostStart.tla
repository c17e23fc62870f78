----------------------------- MODULE HostStart ------------------------------
(***************************************************************************)
(* What a bot's files mean to those who only read them: the host that      *)
(* starts (app/host/app.go), "plugin check" and "plugin status" (check.go, *)
(* status.go), "anybot run", "anybot doctor" and "anybot up"               *)
(* (cmd/anybot).  Each has its own way through the configuration, the lock *)
(* and a registry; everything here is a function of a directory d and of   *)
(* the external plugins a binary has been built with.  The files are read  *)
(* without anybody writing to them; transport and log level are left out.  *)
(***************************************************************************)
EXTENDS PluginConfigs

\* LoadConfig, which needs config/anybot.yaml, and LoadPluginLock.
LoadsFiles(d) == d["config"] # Nil /\ ValidLock(Load(d["lock"]))

\* Config.Plugins; what an entry does not say counts as enabled.
Configured(d) == {i \in Ids : d[i] # Nil}
Enabled(d) == {i \in Configured(d) : ~Disabled(Document(d[i]))}

\* RegistryForLock.
RegistryFor(lock, external) ==
  {i \in Ids : lock[i] # Nil /\ (lock[i].module = Builtin \/ i \in external)}

\* Factory.Build: null is the default configuration, anything else is decoded into
\* a copy of it, which has the default's type.  Unknown keys are ignored, and the
\* plugin's own Validate is taken to accept what can be decoded.
Decodes(t, default) ==
  \A p \in KeyPaths :
    /\ default[p] = Map => t[p] \in {Missing, Null, Map}
    /\ default[p] \in Scalars => t[p] # Map

Builds(i, file) ==
  LET t == Document(file).config
  IN t[<<>>] \in {Missing, Null} \/ Decodes(t, Default[i])

\* InstallPlugins installs all that is enabled, or the host does not start.
Loads(d, i, registry) == i \in registry /\ Builds(i, d[i])

Starts(d, external) ==
  /\ LoadsFiles(d)
  /\ \A i \in Enabled(d) : Loads(d, i, RegistryFor(Load(d["lock"]), external))

-----------------------------------------------------------------------------
\* PluginConfigChecks, and what makes "plugin check" fail.

Check(d, i, external) ==
  LET lock == Load(d["lock"])
      known == i \in RegistryFor(lock, external) IN
  IF i \notin Enabled(d) THEN "disabled"
  ELSE IF known /\ Builds(i, d[i]) THEN "ok"
  ELSE IF known THEN "invalid"
  ELSE IF i \in Externals(lock) THEN "unavailable" ELSE "unknown"

CheckFails(d, external) ==
  \E i \in Configured(d) :
    Check(d, i, external) \in {"unknown", "unavailable", "invalid"}

\* PluginStatuses: one line for each plugin of the lock or with an entry.
Status(d, external) ==
  LET lock == Load(d["lock"]) IN
  [i \in {j \in Ids : lock[j] # Nil} \cup Configured(d) |->
     [source     |-> IF lock[i] = Nil THEN "config"
                     ELSE IF i \in Externals(lock) THEN "external"
                     ELSE "builtin",
      configured |-> i \in Configured(d),
      enabled    |-> i \in Enabled(d),
      available  |-> i \in RegistryFor(lock, external)]]

-----------------------------------------------------------------------------
\* The anybot command has no external plugins.

\* lockHasEnabledExternalPlugins: "anybot run" hands over to "anybot up".
NeedsGeneratedHost(d) == Externals(Load(d["lock"])) \cap Enabled(d) # {}

\* Faulty: whatever the lock names counts as disabled.
DoctoredAll(d) == {i \in Enabled(d) : Load(d["lock"])[i] = Nil}

\* doctorValidationConfig: external plugins that are enabled count as disabled.
Doctored(d) == Enabled(d) \ Externals(Load(d["lock"]))

\* ValidateConfigWithLock.
Validates(d, enabled, external) ==
  \A i \in enabled : Loads(d, i, RegistryFor(Load(d["lock"]), external))

DoctorPasses(d) == LoadsFiles(d) /\ Validates(d, Doctored(d), {})

\* doctorEnabledPlugins: what the doctor prints.
DoctorLists(d) == {i \in Enabled(d) : Load(d["lock"])[i] # Nil}

\* What a binary has that is built from the directory's lock.
BuiltFrom(d) == Externals(Load(d["lock"]))

\* runGeneratedHost: the host it has built runs if the check says so.
UpRuns(d) == LoadsFiles(d) /\ ~CheckFails(d, BuiltFrom(d))

\* "anybot run", should its build succeed and its sync change nothing.
RunRuns(d) ==
  LoadsFiles(d) /\ IF NeedsGeneratedHost(d) THEN UpRuns(d) ELSE Starts(d, {})

-----------------------------------------------------------------------------
\* The reports foretell the start, whatever commands, edits, failures and crashes
\* have made of the files.  A check that does not fail means that the same binary
\* starts, with the plugins that "plugin status" shows as enabled and loadable;
\* if the doctor is satisfied, "anybot run" starts with the plugins it prints, or
\* the configuration of an external plugin, which only the built binary can check,
\* keeps it from that (doctor.go:63-99, check.go:26).
ReportsAgree(d) ==
  /\ \A external \in {{}, Known, BuiltFrom(d)} :
       LoadsFiles(d) /\ ~CheckFails(d, external) =>
         /\ Starts(d, external)
         /\ Enabled(d) = {i \in DOMAIN Status(d, external) :
                            LET s == Status(d, external)[i]
                            IN s.enabled /\ s.available}
  /\ DoctorPasses(d) =>
       /\ DoctorLists(d) = Enabled(d)
       /\ RunRuns(d)
          \/ \E i \in Externals(Load(d["lock"])) :
               Check(d, i, BuiltFrom(d)) = "invalid"
=============================================================================
