------------------------------- MODULE Stores -------------------------------
(***************************************************************************)
(* The store an application runs with: FileStore or MemoryStore, chosen    *)
(* once (core.WithStore).  The memory store has a map and calls of its     *)
(* own.  Callers and keys are interchangeable and no liveness is checked,  *)
(* so their permutations are symmetries.                                   *)
(***************************************************************************)
EXTENDS FileStore, TLC

CONSTANT SweepEvery

VARIABLES
  kind,       \* "file" or "memory"
  memItems, memCalls, asOf, lastSwept

Memory == INSTANCE MemoryStore WITH items <- memItems, calls <- memCalls

StoresInit ==
  /\ Init
  /\ Memory!Init
  /\ kind \in {"file", "memory"}

FileNext ==
  /\ kind = "file"
  /\ Next
  /\ UNCHANGED <<memItems, memCalls, asOf, lastSwept>>

MemoryNext ==
  /\ kind = "memory"
  /\ Memory!Next
  /\ UNCHANGED <<items, calls, fileVars>>

StoresNext == (FileNext \/ MemoryNext) /\ UNCHANGED kind

StoresSpec ==
  StoresInit /\ [][StoresNext]_<<callVars, fileVars, kind, memItems, memCalls, asOf, lastSwept>>

\* Sweeps spare live items; a live item is lost only to a Get that had read
\* an expired one (MemoryStore.Get deletes after it gave the lock back).
MemoryKeepsLive == Memory!OnlyStaleGetLoses

Symmetry == Permutations(Callers) \cup Permutations(Keys)
=============================================================================
