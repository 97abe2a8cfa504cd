------------------------ MODULE CircuitBreakerProofs ------------------------
(***************************************************************************)
(* Proofs about the circuit breaker, for every number of callers,          *)
(* threshold, cooldown and length of the run.                              *)
(***************************************************************************)
EXTENDS CircuitBreaker, TLAPS

LEMMA BreakerInit == Init => BreakerInv
BY BreakerAssumption DEF Init, BreakerInv, TypeOK, PCs, RejectsAtMostACooldown

\* Each step of a caller preserves the invariant: a swap writes a deadline a
\* cooldown after a reading of the clock, never after the future.
LEMMA BreakerStep ==
    ASSUME BreakerInv, NEW p \in Callers, CallerStep(p)
    PROVE  BreakerInv'
<1> USE BreakerAssumption
<1> USE DEF BreakerInv, TypeOK, PCs, Goto, RejectsAtMostACooldown
<1>1. CASE LoadUntil(p)
  BY <1>1 DEF LoadUntil, CircuitOpen, Proceed, Refuse
<1>2. CASE CompareAndSwap(p)
  <2>1. CASE openUntil = seen[p]
    <3>1. /\ openUntil' = at[p] + Cooldown /\ lastProbe' = at[p]
          /\ Proceed(p)
          /\ UNCHANGED <<now, failures, seen, at>>
      BY <1>2, <2>1 DEF CompareAndSwap
    <3>2. at[p] \in Nat /\ at[p] <= now
      OBVIOUS
    <3> QED
      BY <3>1, <3>2 DEF Proceed
  <2>2. CASE openUntil # seen[p]
    BY <1>2, <2>2 DEF CompareAndSwap, Refuse
  <2> QED
    BY <2>1, <2>2
<1>3. CASE WarmSlot(p)
  BY <1>3 DEF WarmSlot, Same
<1>4. CASE DialEnds(p)
  BY <1>4 DEF DialEnds, Same
<1>5. CASE ResetFailures(p)
  BY <1>5 DEF ResetFailures, Same
<1>6. CASE CloseBreaker(p)
  BY <1>6 DEF CloseBreaker, Same
<1>7. CASE CountFailure(p)
  BY <1>7 DEF CountFailure, Same
<1>8. CASE Trip(p)
  BY <1>8 DEF Trip, Same
<1> QED
  BY <1>1, <1>2, <1>3, <1>4, <1>5, <1>6, <1>7, <1>8 DEF CallerStep

LEMMA BreakerNext == BreakerInv /\ [Next]_vars => BreakerInv'
<1> SUFFICES ASSUME BreakerInv, [Next]_vars PROVE BreakerInv'
  OBVIOUS
<1>1. CASE Tick
  BY <1>1, BreakerAssumption
  DEF Tick, BreakerInv, TypeOK, RejectsAtMostACooldown
<1>2. CASE \E p \in Callers : CallerStep(p)
  BY <1>2, BreakerStep
<1>3. CASE UNCHANGED vars
  BY <1>3 DEF vars, BreakerInv, TypeOK, RejectsAtMostACooldown
<1> QED
  BY <1>1, <1>2, <1>3 DEF Next

\* The inductive invariant holds of every behaviour of the breaker.
THEOREM BreakerInvariant == Spec => []BreakerInv
BY BreakerInit, BreakerNext, PTL DEF Spec

\* The words of the breaker and the locals of its callers keep their types.
THEOREM BreakerTypes == Spec => []TypeOK
<1>1. BreakerInv => TypeOK
  BY DEF BreakerInv
<1> QED
  BY <1>1, BreakerInvariant, PTL

\* circuitAllows never rejects for longer than one cooldown from now.
THEOREM RejectionBounded == Spec => []RejectsAtMostACooldown
<1>1. BreakerInv => RejectsAtMostACooldown
  BY DEF BreakerInv
<1> QED
  BY <1>1, BreakerInvariant, PTL

\* While the breaker rejects, no caller gets past circuitAllows: a winner of
\* the compare-and-swap would have to find a deadline that has passed.
LEMMA OpenLetsNobodyThrough ==
    BreakerInv /\ [Next]_vars => (CircuitOpen => LetThrough' \subseteq LetThrough)
<1> SUFFICES ASSUME BreakerInv, [Next]_vars, CircuitOpen
             PROVE  LetThrough' \subseteq LetThrough
  OBVIOUS
<1> USE DEF LetThrough
<1>1. CASE Tick \/ UNCHANGED vars
  BY <1>1 DEF Tick, vars
<1>2. ASSUME NEW p \in Callers, CallerStep(p)
      PROVE  LetThrough' \subseteq LetThrough
  <2> pc \in [Callers -> PCs]
    BY DEF BreakerInv, TypeOK
  <2>1. CASE LoadUntil(p)
    BY <2>1 DEF LoadUntil, CircuitOpen, Refuse, Goto
  <2>2. CASE CompareAndSwap(p)
    <3>1. openUntil # seen[p]
      <4>1. seen[p] <= at[p] /\ at[p] <= now /\ now < openUntil
        BY <2>2 DEF CompareAndSwap, BreakerInv, CircuitOpen
      <4>2. seen[p] \in Nat /\ at[p] \in Nat /\ now \in Nat /\ openUntil \in Nat
        BY DEF BreakerInv, TypeOK
      <4> QED
        BY <4>1, <4>2
    <3> QED
      BY <2>2, <3>1 DEF CompareAndSwap, Refuse, Goto
  <2>3. CASE WarmSlot(p) \/ DialEnds(p) \/ ResetFailures(p) \/ CloseBreaker(p)
             \/ CountFailure(p) \/ Trip(p)
    BY <2>3 DEF WarmSlot, DialEnds, ResetFailures, CloseBreaker, CountFailure, Trip, Goto
  <2> QED
    BY <1>2, <2>1, <2>2, <2>3 DEF CallerStep
<1> QED
  BY <1>1, <1>2 DEF Next

\* No new dial while the breaker is open, whatever the callers have loaded.
THEOREM FailsFast == Spec => NoNewDialWhileOpen
BY BreakerInvariant, OpenLetsNobodyThrough, PTL DEF Spec, NoNewDialWhileOpen

\* The deadline a winner replaces lies a cooldown after the probe before it.
LEMMA NextProbeLater ==
    BreakerInv /\ [Next]_vars =>
        (lastProbe' # lastProbe => lastProbe' >= lastProbe + Cooldown)
<1> SUFFICES ASSUME BreakerInv, [Next]_vars, lastProbe' # lastProbe
             PROVE  lastProbe' >= lastProbe + Cooldown
  OBVIOUS
<1>1. PICK p \in Callers : CompareAndSwap(p) /\ openUntil = seen[p]
  BY DEF Next, vars, Tick, CallerStep, LoadUntil, CompareAndSwap, WarmSlot,
         DialEnds, ResetFailures, CloseBreaker, CountFailure, Trip, Same
<1>2. /\ lastProbe' = at[p] /\ seen[p] <= at[p] /\ seen[p] > 0
      /\ lastProbe + Cooldown <= openUntil
  BY <1>1 DEF CompareAndSwap, BreakerInv, TypeOK
<1>3. /\ lastProbe \in Nat /\ at[p] \in Nat /\ seen[p] \in Nat
      /\ Cooldown \in Nat
  BY BreakerAssumption DEF BreakerInv, TypeOK
<1> QED
  BY <1>1, <1>2, <1>3

\* At most one probe per cooldown, however many callers race for it.
THEOREM OneProbePerCooldown == Spec => ProbesSpaced
BY BreakerInvariant, NextProbeLater, PTL DEF Spec, ProbesSpaced
=============================================================================
