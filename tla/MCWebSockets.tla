---------------------------- MODULE MCWebSockets ----------------------------
(***************************************************************************)
(* WebSockets with two connections, the fewest of which one replaces       *)
(* another or follows it, and with one or two calls.                       *)
(***************************************************************************)
EXTENDS WebSockets, TLC

\* Connections and calls are interchangeable.
Symmetry == Permutations(Conns) \cup Permutations(Calls)
=============================================================================
