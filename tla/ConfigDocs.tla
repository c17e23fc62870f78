----------------------------- MODULE ConfigDocs -----------------------------
(***************************************************************************)
(* The YAML document in config/<id>.yaml and what app/host/config_update.go *)
(* does to one: set a value, remove one, fill in a plugin's defaults.       *)
(*                                                                         *)
(* The mapping under "config" is a function from paths to nodes.  <<>> is   *)
(* the value of "config" itself; below a node that is no mapping there is   *)
(* nothing, and every node but <<>> is in a mapping.                        *)
(***************************************************************************)
EXTENDS Sequences, Integers
LOCAL INSTANCE SequencesExt

CONSTANTS
  KeyPaths,   \* the paths that are looked at, with all their prefixes
  Scalars,    \* values that are neither null nor a mapping
  Missing,    \* no such node
  Null,       \* an explicit null
  Map         \* a mapping, perhaps an empty one

ASSUME ConfigDocsAssumption ==
  /\ <<>> \in KeyPaths /\ KeyPaths \subseteq Seq(STRING)
  /\ \A p \in KeyPaths : \A q \in Prefixes(p) : q \in KeyPaths
  /\ Map \notin {Missing, Null} /\ Missing # Null
  /\ Scalars \cap {Missing, Null, Map} = {}
  /\ {Missing, Null} \cap {"true", "false"} = {}

Above == [p \in KeyPaths |-> {q \in KeyPaths : IsStrictPrefix(q, p)}]
Below == [p \in KeyPaths |-> {q \in KeyPaths : IsStrictPrefix(p, q)}]

Nodes == Scalars \cup {Missing, Null, Map}

Trees == {t \in [KeyPaths -> Nodes] :
            \A q \in KeyPaths : \A p \in Above[q] :
              t[q] # Missing => t[p] = Map}

Documents == [enabled : {Missing, Null, "true", "false"}, config : Trees]

Hollow == [p \in KeyPaths |-> Missing]
EmptyConfig == [Hollow EXCEPT ![<<>>] = Map]

\* pluginEntryNode: what is written for a plugin that is new.
FreshDocument == [enabled |-> "false", config |-> EmptyConfig]

\* What "{}" reads as.
Braces == [enabled |-> Missing, config |-> Hollow]

Disabled(doc) == doc.enabled = "false"

\* emptyYAMLNode, for the nodes on the way to a path.
Bare(t, p) ==
  \/ t[p] \in {Missing, Null}
  \/ t[p] = Map /\ \A q \in Below[p] : t[q] = Missing

\* setMappingPath, removeMappingPath: a parent is a mapping or nothing at all.
Reachable(t, p) ==
  \A q \in Above[p] : t[q] = Map \/ Bare(t, q)

\* setMappingPath: what is missing on the way becomes a mapping; a value takes
\* the place of all that was below.
Put(t, p, value) ==
  [q \in KeyPaths |->
     IF q = p THEN value
     ELSE IF q \in Above[p] THEN Map
     ELSE IF q \in Below[p] THEN Missing
     ELSE t[q]]

\* removeMappingPath: mappings that become empty go too, "config" itself stays.
Cut(t, p) ==
  LET kin == {p} \cup Above[p] \cup Below[p]
      others(q) == \E r \in Below[q] \ kin : t[r] # Missing
  IN [q \in KeyPaths |->
        IF q = p \/ q \in Below[p] THEN Missing
        ELSE IF q \in Above[p] \ {<<>>} /\ ~others(q) THEN Missing
        ELSE t[q]]

\* fillPluginConfigDefaults: a default fills a place where there is no value of
\* the user's, found by going down as long as both are mappings.
Fills(t, d, r) ==
  /\ d[r] # Missing
  /\ t[r] \in {Missing, Null} \/ (r = <<>> /\ Bare(t, r))
  /\ \A q \in Above[r] :
       t[q] = Map /\ d[q] = Map /\ ~(q = <<>> /\ Bare(t, q))

\* What is written back has changed, or has been empty (which counts as changed).
Incomplete(doc, d) ==
  doc.enabled \in {Missing, Null} \/ \E r \in KeyPaths : Fills(doc.config, d, r)

Merge(t, d) ==
  [q \in KeyPaths |->
     IF \E r \in Above[q] \cup {q} : Fills(t, d, r) THEN d[q] ELSE t[q]]

\* Faulty: false counts as missing.
FillEnabledFalse(enabled) == "true"

\* fillMissingPluginEnabled.
FillEnabled(enabled) ==
  IF enabled \in {Missing, Null} THEN "true" ELSE enabled

\* syncPluginConfigNode.
Filled(doc, d) ==
  [enabled |-> FillEnabled(doc.enabled), config |-> Merge(doc.config, d)]
=============================================================================
