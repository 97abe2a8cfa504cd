------------------------------ MODULE PauseGate ------------------------------
(***************************************************************************)
(* PAUSE and RESUME of a pool: the gate at the head of Acquire, and Pause, *)
(* Resume and the signal of Close of src/pool/pool.go.                     *)
(*                                                                         *)
(* A channel is a number: 0 is the channel New installs, and every make in *)
(* Pause and Resume takes the next one.  The flag p.paused is read outside *)
(* pauseMu, the channel under it, so Acquire takes two steps to its        *)
(* snapshot; close(ch) in Resume comes after the unlock.                   *)
(***************************************************************************)
EXTENDS Integers

CONSTANTS
    Acquirers,      \* goroutines that call Acquire
    Pausers,        \* goroutines that call Pause
    Resumers,       \* goroutines that call Resume
    MaxPauses       \* bound: how often Pause takes effect

ASSUME GateAssumption ==
    /\ Acquirers \cap Pausers = {} /\ Acquirers \cap Resumers = {}
    /\ Pausers \cap Resumers = {}
    /\ MaxPauses \in Nat

VARIABLES
    paused,         \* p.paused
    resumeCh,       \* p.resumeCh
    made,           \* the last channel made
    shut,           \* the channels that are closed
    done,           \* the pool is closed: p.closed, and p.done after it
    pc,             \* where each goroutine is
    ch,             \* the channel it holds in a local
    err,            \* what an Acquire that ended at the gate returned
    resumes,        \* history: Resumes that took effect
    due             \* history: Resumes an Acquire has to see before it passes

vars == <<paused, resumeCh, made, shut, done, pc, ch, err, resumes, due>>

Procs == Acquirers \cup Pausers \cup Resumers
PCs == {"out", "gate", "snap", "parked", "past", "closing"}
Errors == {"nil", "ErrPoolClosed", "ctx.Err", "ErrPoolPaused"}

Init ==
    /\ paused = FALSE
    /\ resumeCh = 0
    /\ made = 0
    /\ shut = {0}
    /\ done = "open"
    /\ pc = [p \in Procs |-> "out"]
    /\ ch = [p \in Procs |-> 0]
    /\ err = [p \in Acquirers |-> "nil"]
    /\ resumes = 0
    /\ due = [p \in Acquirers |-> 0]

Goto(p, l) == pc' = [pc EXCEPT ![p] = l]

Fail(p, e) == Goto(p, "out") /\ err' = [err EXCEPT ![p] = e]

\* What an Acquire never touches.
SameGate == UNCHANGED <<paused, resumeCh, made, shut, done, resumes>>

----------------------------------------------------------------------------
(* The head of Acquire.                                                    *)

\* The pre-check of p.closed.  due is set here: an Acquire that begins while
\* the pool is paused has to wait for the next Resume.
Acquire(p) ==
    /\ pc[p] = "out"
    /\ \/ /\ done = "open"
          /\ Goto(p, "gate")
          /\ err' = [err EXCEPT ![p] = "nil"]
          /\ due' = [due EXCEPT ![p] = IF paused THEN resumes + 1 ELSE resumes]
       \/ done # "open" /\ Fail(p, "ErrPoolClosed") /\ UNCHANGED due
    /\ UNCHANGED ch /\ SameGate

LoadPaused(p) ==
    /\ pc[p] = "gate"
    /\ Goto(p, IF paused THEN "snap" ELSE "past")
    /\ UNCHANGED <<ch, err, due>> /\ SameGate

\* Bug form: the channel is read once, when the pool is made.
SnapshotCached(p) ==
    /\ pc[p] = "snap"
    /\ Goto(p, "parked")
    /\ UNCHANGED <<ch, err, due>> /\ SameGate

\* The snapshot of resumeCh under pauseMu.
Snapshot(p) ==
    /\ pc[p] = "snap"
    /\ ch' = [ch EXCEPT ![p] = resumeCh]
    /\ Goto(p, "parked")
    /\ UNCHANGED <<err, due>> /\ SameGate

\* The three cases of the select; with several ready, any of them.
Wake(p) ==
    /\ pc[p] = "parked"
    /\ ch[p] \in shut
    /\ Goto(p, "past")
    /\ UNCHANGED <<ch, err, due>> /\ SameGate

ContextEnds(p) ==
    /\ pc[p] = "parked"
    /\ Fail(p, "ctx.Err")
    /\ UNCHANGED <<ch, due>> /\ SameGate

PoolCloses(p) ==
    /\ pc[p] = "parked"
    /\ done = "done"
    /\ Fail(p, "ErrPoolClosed")
    /\ UNCHANGED <<ch, due>> /\ SameGate

\* The rest of Acquire (module Pool).
Leave(p) ==
    /\ pc[p] = "past"
    /\ Goto(p, "out")
    /\ UNCHANGED <<ch, err, due>> /\ SameGate

----------------------------------------------------------------------------
(* Pause, Resume and Close.                                                *)

SameAcquires == UNCHANGED <<err, due>>

\* Under pauseMu: the flag and a fresh channel together.  A second Pause
\* changes nothing.
Pause(x) ==
    /\ pc[x] = "out"
    /\ \/ /\ ~paused
          /\ made < 2 * MaxPauses
          /\ paused' = TRUE
          /\ made' = made + 1
          /\ resumeCh' = made + 1
       \/ paused /\ UNCHANGED <<paused, made, resumeCh>>
    /\ UNCHANGED <<shut, done, pc, ch, resumes>> /\ SameAcquires

\* Bug form: the local is read after the fresh channel is in place.
ResumeSwapped(x) ==
    /\ pc[x] = "out" /\ paused
    /\ paused' = FALSE
    /\ made' = made + 1
    /\ resumeCh' = made + 1
    /\ shut' = shut \cup {made + 1}
    /\ ch' = [ch EXCEPT ![x] = resumeCh']
    /\ resumes' = resumes + 1
    /\ Goto(x, "closing")
    /\ UNCHANGED done /\ SameAcquires

\* Under pauseMu: the flag, the old channel into a local, and a channel that
\* is already closed in its place.
Resume(x) ==
    /\ pc[x] = "out"
    /\ \/ /\ paused
          /\ paused' = FALSE
          /\ ch' = [ch EXCEPT ![x] = resumeCh]
          /\ made' = made + 1
          /\ resumeCh' = made + 1
          /\ shut' = shut \cup {made + 1}
          /\ resumes' = resumes + 1
          /\ Goto(x, "closing")
       \/ ~paused /\ UNCHANGED <<paused, ch, made, resumeCh, shut, resumes, pc>>
    /\ UNCHANGED done /\ SameAcquires

\* Bug form: the old channel is dropped without a close.
CloseForgotten(x) ==
    /\ pc[x] = "closing"
    /\ Goto(x, "out")
    /\ UNCHANGED <<paused, resumeCh, made, shut, done, ch, resumes>> /\ SameAcquires

\* close(ch), after the unlock.
CloseChannel(x) ==
    /\ pc[x] = "closing"
    /\ shut' = shut \cup {ch[x]}
    /\ Goto(x, "out")
    /\ UNCHANGED <<paused, resumeCh, made, done, ch, resumes>> /\ SameAcquires

\* Close: the flag, then close(p.done).
ClosePool ==
    /\ \/ done = "open" /\ done' = "closed"
       \/ done = "closed" /\ done' = "done"
    /\ UNCHANGED <<paused, resumeCh, made, shut, pc, ch, resumes>> /\ SameAcquires

AcquireStep(p) ==
    \/ Acquire(p) \/ LoadPaused(p) \/ Snapshot(p)
    \/ Wake(p) \/ ContextEnds(p) \/ PoolCloses(p) \/ Leave(p)

Next ==
    \/ \E p \in Acquirers : AcquireStep(p)
    \/ \E x \in Pausers : Pause(x)
    \/ \E x \in Resumers : Resume(x) \/ CloseChannel(x)
    \/ ClosePool

Spec == Init /\ [][Next]_vars

\* A goroutine that can run runs: the scheduler wakes a select with a ready
\* case, a Resume past its unlock reaches close(ch), and Close its close(done).
\* Nobody is obliged to call Acquire, Pause, Resume or Close, and no context
\* has to end.
Fairness ==
    /\ \A p \in Acquirers : WF_vars(LoadPaused(p) \/ Snapshot(p) \/ Wake(p)
                                       \/ PoolCloses(p) \/ Leave(p))
    /\ \A x \in Resumers : WF_vars(CloseChannel(x))
    /\ WF_vars(ClosePool /\ done = "closed")

FairSpec == Spec /\ Fairness

----------------------------------------------------------------------------
(* Properties.                                                             *)

\* Type correctness of the gate.
TypeOK ==
    /\ paused \in BOOLEAN
    /\ made \in Nat /\ resumeCh \in 0..made
    /\ shut \subseteq 0..made
    /\ done \in {"open", "closed", "done"}
    /\ pc \in [Procs -> PCs]
    /\ ch \in [Procs -> 0..made]
    /\ err \in [Acquirers -> Errors]
    /\ resumes \in Nat /\ due \in [Acquirers -> Nat]

Closing == {x \in Resumers : pc[x] = "closing"}

\* close(ch) of Resume never meets a channel that is already closed, or that
\* another Resume is about to close: closing a channel twice panics and takes
\* the proxy down.  The pairing of flag and channel under pauseMu is for this.
NoDoubleClose ==
    \A x \in Closing :
        /\ ch[x] \notin shut
        /\ \A y \in Closing : ch[x] = ch[y] => x = y

\* The invariant Resume's comment states: resumeCh is closed iff not paused.
ClosedIffNotPaused == (resumeCh \in shut) <=> ~paused

\* An Acquire that began while the pool was paused does not get past the gate
\* before a Resume, across any number of Pauses and Resumes by others.
PauseHolds == \A p \in Acquirers : pc[p] = "past" => resumes >= due[p]

\* Every parked Acquire wakes once the pool was resumed, even when it is paused
\* again at once, and once the pool was closed.
ResumeWakes ==
    \A p \in Acquirers :
        (pc[p] = "parked" /\ (~paused \/ done # "open")) ~> (pc[p] # "parked")

\* Strengthening: only the current channel of a paused pool, and the channels
\* Resumes are about to close, are open; an Acquire with a snapshot holds a
\* channel that opens no earlier than it may pass.
GateInv ==
    /\ TypeOK
    /\ NoDoubleClose
    /\ ClosedIffNotPaused
    /\ \A x \in Closing : ch[x] # resumeCh
    /\ \A p \in Acquirers :
         /\ pc[p] \in {"gate", "snap", "parked"}
              => due[p] <= (IF paused THEN resumes + 1 ELSE resumes)
         /\ pc[p] = "parked" /\ due[p] > resumes => ch[p] = resumeCh /\ paused
         /\ pc[p] = "past" => resumes >= due[p]
=============================================================================
