--------------------------- MODULE CircuitBreaker ---------------------------
(***************************************************************************)
(* The circuit breaker of a pool: circuitAllows, circuitRecordSuccess and  *)
(* circuitRecordFailure of src/pool/pool.go, as Acquire and warmUp use     *)
(* them around a dial.                                                     *)
(*                                                                         *)
(* cbOpenUntil and cbFailures are atomics without a lock, so every access  *)
(* is a step of its own.  A reading of the clock belongs to the access it  *)
(* is written next to; a goroutine may be delayed between any two steps,   *)
(* and a dial may take any time.  The pool has a breaker (Threshold > 0):  *)
(* without one none of these steps happens.                                *)
(***************************************************************************)
EXTENDS Integers

CONSTANTS
    Acquirers,      \* goroutines in Acquire, past the idle scan
    Warmers,        \* the warmUp goroutine (a set of at most one)
    Threshold,      \* cbThreshold
    Cooldown,       \* cbCooldown, in ticks of the clock
    MaxTime         \* bound: the last instant of the clock

Callers == Acquirers \cup Warmers

ASSUME BreakerAssumption ==
    /\ Acquirers \cap Warmers = {}
    /\ Threshold \in Nat \ {0} /\ Cooldown \in Nat \ {0} /\ MaxTime \in Nat \ {0}

VARIABLES
    now,            \* the clock
    openUntil,      \* cbOpenUntil: 0 is closed
    failures,       \* cbFailures, counted up to Threshold
    pc,             \* where each caller is
    seen,           \* the cbOpenUntil a caller loaded
    at,             \* the clock it read
    lastProbe       \* history: the clock reading of the last probe let through

vars == <<now, openUntil, failures, pc, seen, at, lastProbe>>

PCs == {"out", "cas", "wsem", "dial", "ok", "okswap", "fail", "trip", "gone"}

Init ==
    /\ now = 1
    /\ openUntil = 0
    /\ failures = 0
    /\ pc = [p \in Callers |-> "out"]
    /\ seen = [p \in Callers |-> 0]
    /\ at = [p \in Callers |-> 0]
    /\ lastProbe = 0

Goto(p, l) == pc' = [pc EXCEPT ![p] = l]

\* CircuitOpen, as the readiness probe and the metrics read it.
CircuitOpen == openUntil # 0 /\ now < openUntil

----------------------------------------------------------------------------
(* circuitAllows.                                                          *)

\* Acquire dials at once; warmUp asks the breaker before it has a slot.
Proceed(p) == Goto(p, IF p \in Warmers THEN "wsem" ELSE "dial")

\* Acquire returns ErrCircuitOpen; warmUp gives up for good.
Refuse(p) == Goto(p, IF p \in Warmers THEN "gone" ELSE "out")

\* The first load of cbOpenUntil, and the comparison with the clock.
LoadUntil(p) ==
    /\ pc[p] = "out"
    /\ \/ openUntil = 0 /\ Proceed(p) /\ UNCHANGED <<seen, at>>
       \/ CircuitOpen /\ Refuse(p) /\ UNCHANGED <<seen, at>>
       \/ /\ openUntil # 0 /\ ~CircuitOpen
          /\ seen' = [seen EXCEPT ![p] = openUntil]
          /\ at' = [at EXCEPT ![p] = now]
          /\ Goto(p, "cas")
    /\ UNCHANGED <<now, openUntil, failures, lastProbe>>

\* Bug form: a plain store, so that every caller that saw the deadline wins.
StoreForCAS(p) ==
    /\ pc[p] = "cas"
    /\ openUntil' = at[p] + Cooldown
    /\ lastProbe' = at[p]
    /\ Proceed(p)
    /\ UNCHANGED <<now, failures, seen, at>>

\* Bug form: the winner does not push the deadline a cooldown ahead.
CASKeepsDeadline(p) ==
    /\ pc[p] = "cas"
    /\ \/ /\ openUntil = seen[p]
          /\ openUntil' = at[p]
          /\ lastProbe' = at[p]
          /\ Proceed(p)
       \/ openUntil # seen[p] /\ Refuse(p) /\ UNCHANGED <<openUntil, lastProbe>>
    /\ UNCHANGED <<now, failures, seen, at>>

\* The compare-and-swap for the half-open probe.
CompareAndSwap(p) ==
    /\ pc[p] = "cas"
    /\ \/ /\ openUntil = seen[p]
          /\ openUntil' = at[p] + Cooldown
          /\ lastProbe' = at[p]
          /\ Proceed(p)
       \/ openUntil # seen[p] /\ Refuse(p) /\ UNCHANGED <<openUntil, lastProbe>>
    /\ UNCHANGED <<now, failures, seen, at>>

----------------------------------------------------------------------------
(* The dial, and what it records.                                          *)

Same == UNCHANGED <<now, seen, at, lastProbe>>

\* warmUp waits for a slot after the breaker let it through, and leaves
\* without a dial when the pool is closed.
WarmSlot(p) ==
    /\ pc[p] = "wsem"
    /\ Goto(p, "dial") \/ Goto(p, "gone")
    /\ UNCHANGED <<openUntil, failures>> /\ Same

DialEnds(p) ==
    /\ pc[p] = "dial"
    /\ Goto(p, "ok") \/ Goto(p, "fail")
    /\ UNCHANGED <<openUntil, failures>> /\ Same

\* circuitRecordSuccess: two stores.
ResetFailures(p) ==
    /\ pc[p] = "ok"
    /\ failures' = 0
    /\ Goto(p, "okswap")
    /\ UNCHANGED openUntil /\ Same

CloseBreaker(p) ==
    /\ pc[p] = "okswap"
    /\ openUntil' = 0
    /\ Goto(p, "out")
    /\ UNCHANGED failures /\ Same

\* circuitRecordFailure: count, and below the threshold return.
CountFailure(p) ==
    /\ pc[p] = "fail"
    /\ failures' = IF failures < Threshold THEN failures + 1 ELSE failures
    /\ Goto(p, IF failures' < Threshold THEN "out" ELSE "trip")
    /\ UNCHANGED openUntil /\ Same

\* Bug form: each failure adds a cooldown to the deadline it finds.
TripAdds(p) ==
    /\ pc[p] = "trip"
    /\ openUntil' = (IF openUntil = 0 THEN now ELSE openUntil) + Cooldown
    /\ Goto(p, "out")
    /\ UNCHANGED failures /\ Same

\* Open the breaker, or restart its cooldown.
Trip(p) ==
    /\ pc[p] = "trip"
    /\ openUntil' = now + Cooldown
    /\ Goto(p, "out")
    /\ UNCHANGED failures /\ Same

Tick ==
    /\ now < MaxTime
    /\ now' = now + 1
    /\ UNCHANGED <<openUntil, failures, pc, seen, at, lastProbe>>

CallerStep(p) ==
    \/ LoadUntil(p) \/ CompareAndSwap(p) \/ WarmSlot(p) \/ DialEnds(p)
    \/ ResetFailures(p) \/ CloseBreaker(p) \/ CountFailure(p) \/ Trip(p)

Next == Tick \/ \E p \in Callers : CallerStep(p)

Spec == Init /\ [][Next]_vars

----------------------------------------------------------------------------
(* Properties.                                                             *)

\* Type correctness of the breaker's words and of each caller's locals.
TypeOK ==
    /\ now \in Nat /\ openUntil \in Nat /\ lastProbe \in Nat
    /\ failures \in 0..Threshold
    /\ pc \in [Callers -> PCs]
    /\ seen \in [Callers -> Nat] /\ at \in [Callers -> Nat]

\* Callers the breaker has let through.
LetThrough == {p \in Callers : pc[p] \in {"wsem", "dial"}}

\* While the breaker rejects, circuitAllows lets nobody through: not a caller
\* that loaded the deadline before it was moved, and not a loser of the race
\* for the probe.
NoNewDialWhileOpen == [][CircuitOpen => LetThrough' \subseteq LetThrough]_vars

\* Two probes are at least a cooldown apart, by the clock each of them read:
\* failing dials and lost races in between do not let another one through
\* early.
ProbesSpaced == [][lastProbe' # lastProbe => lastProbe' >= lastProbe + Cooldown]_vars

\* However failures, probes and delayed goroutines interleave, the breaker
\* never rejects for longer than one cooldown from now.
RejectsAtMostACooldown == openUntil <= now + Cooldown

\* Strengthening: a caller about to swap saw a deadline that had passed, and
\* any deadline lies a cooldown after the last probe.
BreakerInv ==
    /\ TypeOK
    /\ \A p \in Callers : pc[p] = "cas" => 0 < seen[p] /\ seen[p] <= at[p]
    /\ \A p \in Callers : at[p] <= now
    /\ lastProbe <= now
    /\ openUntil # 0 => lastProbe + Cooldown <= openUntil
    /\ RejectsAtMostACooldown
=============================================================================
