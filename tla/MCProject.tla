----------------------------- MODULE MCProject ------------------------------
\* Two plugins, of one module if both are external.  The binary that runs has one
\* of them, whose default configuration is a mapping in a mapping.
EXTENDS Project, TLC

CONSTANTS a, b, d, u, m, v, p

MCKeyPaths == {<<>>, <<"k">>, <<"k", "x">>, <<"k", "y">>}

MCDefault == [i \in Ids |-> [EmptyConfig EXCEPT ![<<"k">>] = Map,
                                              ![<<"k", "x">>] = d]]

From(version, replace) ==
  [module |-> m, version |-> version, replace |-> replace]

MCLocks0 ==
  {NoPlugins,
   [NoPlugins EXCEPT ![a] = From(v, Nil)],
   [NoPlugins EXCEPT ![a] = From(v, p), ![b] = From(v, p)],
   [NoPlugins EXCEPT ![a] = BuiltinRecord, ![b] = From(Nil, p)]}

\* As its user may have written it: an explicit null, and a value that is no default.
Customised ==
  [enabled |-> Missing,
   config |-> [EmptyConfig EXCEPT ![<<"k">>] = Map, ![<<"k", "x">>] = Null,
                                  ![<<"k", "y">>] = u]]

\* As "plugin add" leaves it, customised, and an empty file.
MCEntries0 ==
  {[i \in Ids |-> IF i = a THEN Customised ELSE FreshDocument],
   [i \in Ids |-> IF i = a THEN FreshDocument ELSE Empty]}

Symmetry == Permutations(Commands) \cup Permutations(Editors)
=============================================================================
