------------------------ MODULE AdapterStates_proofs ------------------------
(***************************************************************************)
(* Proofs about AdapterStates for any set of reporters and any set of      *)
(* waiters.  A change of the runtime's state takes every registered waiter *)
(* (UpdateWakes), so nobody stays parked over it; and as long as one       *)
(* goroutine reports, a report under way is the adapter's latest state     *)
(* (ReportIsLocal), so delivering it makes the runtime agree with the      *)
(* adapter and none can arrive after "stopped".                            *)
(***************************************************************************)
EXTENDS AdapterStates, TLAPS

\* updateAdapterState leaves nobody parked: whoever slept was registered.
LEMMA UpdateWakes ==
  ASSUME TypeOK, NoLostWakeup, NEW k \in Kinds, Update(k)
  PROVE  /\ app' = k
         /\ waiters' \in SUBSET Waiters
         /\ waiter' \in [Waiters -> {"out", "check", "parked", "ready",
                                     "unavailable", "expired"}]
         /\ \A w \in Waiters : waiter'[w] # "parked"
BY DEF TypeOK, NoLostWakeup, Update

\* Every initial state satisfies the inductive invariant.
LEMMA InitIInv == Init => IInv
BY DEF Init, IInv, TypeOK, NoLostWakeup, ReportIsLocal, AppIsLatest,
       StoppedIsFinal, Kinds, Nothing

\* A step of bindAdapterState or stopAdapterState preserves the invariant.
LEMMA AppStepIInv == IInv /\ AppStep => IInv'
<1> SUFFICES ASSUME IInv, AppStep PROVE IInv'
  OBVIOUS
<1> USE DEF IInv
<1>1. CASE BindStarting
  <2>1. "starting" \in Kinds /\ Update("starting")
    BY <1>1 DEF BindStarting, Kinds
  <2>2. TypeOK' /\ NoLostWakeup'
    BY <1>1, <2>1, UpdateWakes DEF BindStarting, TypeOK, NoLostWakeup
  <2>3. ReportIsLocal' /\ AppIsLatest' /\ StoppedIsFinal'
    BY <1>1, <2>1, UpdateWakes
    DEF BindStarting, ReportIsLocal, AppIsLatest, StoppedIsFinal
  <2>4. QED
    BY <2>2, <2>3
<1>2. CASE BindSink
  BY <1>2 DEF BindSink, TypeOK, NoLostWakeup, ReportIsLocal, AppIsLatest,
              StoppedIsFinal
<1>3. CASE Replay
  <2>1. local \in Kinds /\ Update(local)
    BY <1>3 DEF Replay, TypeOK
  <2>2. TypeOK' /\ NoLostWakeup'
    BY <1>3, <2>1, UpdateWakes DEF Replay, TypeOK, NoLostWakeup
  <2>3. ReportIsLocal' /\ AppIsLatest' /\ StoppedIsFinal'
    BY <1>3, <2>1, UpdateWakes
    DEF Replay, ReportIsLocal, AppIsLatest, StoppedIsFinal
  <2>4. QED
    BY <2>2, <2>3
<1>4. CASE StopUpdate
  <2>1. "stopped" \in Kinds /\ Update("stopped")
    BY <1>4 DEF StopUpdate, Kinds
  <2>2. TypeOK' /\ NoLostWakeup'
    BY <1>4, <2>1, UpdateWakes DEF StopUpdate, TypeOK, NoLostWakeup
  <2>3. ReportIsLocal' /\ AppIsLatest' /\ StoppedIsFinal'
    BY <1>4, <2>1, UpdateWakes
    DEF StopUpdate, ReportIsLocal, AppIsLatest, StoppedIsFinal
  <2>4. QED
    BY <2>2, <2>3
<1>5. CASE StopSink
  BY <1>5 DEF StopSink, TypeOK, NoLostWakeup, ReportIsLocal, AppIsLatest,
              StoppedIsFinal
<1>6. QED
  BY <1>1, <1>2, <1>3, <1>4, <1>5 DEF AppStep

\* A step of a reporter preserves the invariant.
LEMMA ReporterStepIInv ==
  ASSUME IInv, NEW r \in Reporters, ReporterStep(r)
  PROVE  IInv'
<1> USE DEF IInv
<1>1. CASE \E k \in {"ready", "disconnected"} : SetLocal(r, k)
  <2>1. PICK k \in {"ready", "disconnected"} : SetLocal(r, k)
    BY <1>1
  <2>2. k \in Kinds /\ k # "unknown"
    BY DEF Kinds
  <2>3. TypeOK' /\ NoLostWakeup'
    BY <2>1, <2>2 DEF SetLocal, TypeOK, NoLostWakeup
  <2>4. ReportIsLocal'
    BY <2>1, <2>2 DEF SetLocal, TypeOK, ReportIsLocal, Nothing
  <2>5. AppIsLatest'
    <3>1. ~detached /\ life = "running" => report'[r] # Nothing
      BY <2>1, <2>2 DEF SetLocal, TypeOK, ReportIsLocal, Nothing
    <3>2. QED
      BY <2>1, <3>1 DEF SetLocal, AppIsLatest
  <2>6. StoppedIsFinal'
    BY <2>1 DEF SetLocal, StoppedIsFinal
  <2>7. QED
    BY <2>3, <2>4, <2>5, <2>6
<1>2. CASE CallSink(r)
  <2>1. report[r] \in Kinds /\ Update(report[r])
    BY <1>2 DEF CallSink, TypeOK
  <2>2. TypeOK' /\ NoLostWakeup'
    BY <1>2, <2>1, UpdateWakes DEF CallSink, TypeOK, NoLostWakeup
  <2>3. ReportIsLocal' /\ AppIsLatest' /\ StoppedIsFinal'
    BY <1>2, <2>1, UpdateWakes
    DEF CallSink, TypeOK, ReportIsLocal, AppIsLatest, StoppedIsFinal
  <2>4. QED
    BY <2>2, <2>3
<1>3. QED
  BY <1>1, <1>2 DEF ReporterStep

\* A step of a waiter preserves the invariant.
LEMMA WaiterStepIInv ==
  ASSUME IInv, NEW w \in Waiters, WaiterStep(w)
  PROVE  IInv'
<1> USE DEF IInv
<1>1. /\ UNCHANGED <<detached, life, local, sink, report, app>>
      /\ waiters' \in SUBSET Waiters
      /\ waiters \subseteq waiters'
  BY DEF WaiterStep, EnterWait, CheckState, ExpireWait, TypeOK
<1>2. TypeOK'
  BY <1>1 DEF WaiterStep, EnterWait, CheckState, ExpireWait, TypeOK
<1>3. NoLostWakeup'
  <2>1. CASE EnterWait(w)
    BY <2>1 DEF EnterWait, TypeOK, NoLostWakeup
  <2>2. CASE CheckState(w)
    BY <2>2 DEF CheckState, TypeOK, NoLostWakeup
  <2>3. CASE ExpireWait(w)
    BY <2>3 DEF ExpireWait, TypeOK, NoLostWakeup
  <2>4. QED
    BY <2>1, <2>2, <2>3 DEF WaiterStep
<1>4. ReportIsLocal' /\ AppIsLatest' /\ StoppedIsFinal'
  BY <1>1 DEF ReportIsLocal, AppIsLatest, StoppedIsFinal
<1>5. QED
  BY <1>2, <1>3, <1>4

\* The invariant is inductive.
LEMMA StepIInv == IInv /\ [Next]_stateVars => IInv'
<1> SUFFICES ASSUME IInv, [Next]_stateVars PROVE IInv'
  OBVIOUS
<1>1. CASE Next
  BY <1>1, AppStepIInv, ReporterStepIInv, WaiterStepIInv DEF Next
<1>2. CASE UNCHANGED stateVars
  BY <1>2 DEF stateVars, IInv, TypeOK, NoLostWakeup, ReportIsLocal,
              AppIsLatest, StoppedIsFinal
<1>3. QED
  BY <1>1, <1>2

\* The inductive invariant holds, with it the types of all variables.
THEOREM Invariance == Spec => []IInv
BY InitIInv, StepIInv, PTL DEF Spec

\* No goroutine in WaitActionReady sleeps through a change of the state, for
\* any number of them and of reporters, with or without detached connections
\* (core/state.go:81-93, 136-169).
THEOREM NobodySleeps == Spec => []NoLostWakeup
<1>1. IInv => NoLostWakeup
  BY DEF IInv
<1>2. QED
  BY <1>1, Invariance, PTL

\* With one reporting goroutine and no report under way the runtime's state is
\* the adapter's (core/state.go:62).
THEOREM Agreement == Spec => []AppIsLatest
<1>1. IInv => AppIsLatest
  BY DEF IInv
<1>2. QED
  BY <1>1, Invariance, PTL

\* "stopped" is the last state of a run: no report of an adapter whose goroutines
\* end with Start comes after it (core/state.go:20).
THEOREM StoppedStays == Spec => []StoppedIsFinal
<1>1. IInv => StoppedIsFinal
  BY DEF IInv
<1>2. QED
  BY <1>1, Invariance, PTL
===============================================================================
