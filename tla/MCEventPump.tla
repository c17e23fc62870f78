---------------------------- MODULE MCEventPump ----------------------------
(***************************************************************************)
(* EventPump on small instances: two sources that read three events        *)
(* between them, two of which share a key while one has none; no, one or   *)
(* two workers (with HTTP, none or one); a channel with room for fewer     *)
(* events than there are, so that it is both full and empty.               *)
(***************************************************************************)
EXTENDS Webhooks, TLC

CONSTANTS s1, s2, e1, e2, e3, k1, w1, w2

TwoWorkers == {w1, w2}

AllCrews == {{}, {w1}, {w1, w2}}
SmallCrews == {{}, {w1}}

OneWorker == {{w1}}

\* Two connections or webhook requests; the shared key spans both.
TwoScript == (s1 :> <<e1, e3>>) @@ (s2 :> <<e2>>)

KeyMap == (e1 :> k1) @@ (e2 :> k1) @@ (e3 :> NoKey)
=============================================================================
