--------------------------- MODULE PauseGateProofs ---------------------------
(***************************************************************************)
(* Proofs about PAUSE and RESUME, for every number of goroutines.          *)
(***************************************************************************)
EXTENDS PauseGate, TLAPS

LEMMA GateInit == Init => GateInv
<1> SUFFICES ASSUME Init PROVE GateInv
  OBVIOUS
<1>1. paused \in BOOLEAN /\ ~paused
  BY DEF Init
<1>2. TypeOK
  BY <1>1 DEF Init, TypeOK, PCs, Errors
<1>3. Closing = {}
  BY DEF Init, Closing, Procs
<1> QED
  BY <1>1, <1>2, <1>3 DEF Init, GateInv, NoDoubleClose, ClosedIffNotPaused, Procs

\* No step of Acquire touches the gate, and a goroutine gets past it only by a
\* channel a Resume has closed.
LEMMA AcquireGate ==
    ASSUME GateInv, NEW p \in Acquirers, AcquireStep(p)
    PROVE  GateInv'
<1> USE GateAssumption
<1>1. p \in Procs /\ p \notin Resumers /\ SameGate
  BY DEF AcquireStep, Acquire, LoadPaused, Snapshot, Wake, ContextEnds,
         PoolCloses, Leave, Procs
<1>2. TypeOK'
  BY <1>1 DEF GateInv, TypeOK, AcquireStep, Acquire, LoadPaused, Snapshot, Wake,
         ContextEnds, PoolCloses, Leave, Fail, Goto, SameGate, PCs, Errors
<1>3. Closing' = Closing /\ \A x \in Resumers : ch'[x] = ch[x]
  BY <1>1 DEF GateInv, TypeOK, Closing, AcquireStep, Acquire, LoadPaused, Snapshot,
         Wake, ContextEnds, PoolCloses, Leave, Fail, Goto, Procs
<1>4. NoDoubleClose' /\ ClosedIffNotPaused' /\ \A x \in Closing' : ch'[x] # resumeCh'
  BY <1>1, <1>3 DEF GateInv, NoDoubleClose, ClosedIffNotPaused, SameGate, Closing
<1>5. ASSUME NEW q \in Acquirers
      PROVE  /\ pc'[q] \in {"gate", "snap", "parked"}
                  => due'[q] <= (IF paused' THEN resumes' + 1 ELSE resumes')
             /\ pc'[q] = "parked" /\ due'[q] > resumes' => ch'[q] = resumeCh' /\ paused'
             /\ pc'[q] = "past" => resumes' >= due'[q]
  <2> USE <1>1 DEF GateInv, TypeOK, SameGate, Goto, Fail, Procs, PCs
  <2>1. CASE Acquire(p)
    BY <2>1 DEF Acquire
  <2>2. CASE LoadPaused(p)
    BY <2>2 DEF LoadPaused
  <2>3. CASE Snapshot(p)
    BY <2>3 DEF Snapshot
  <2>4. CASE Wake(p)
    BY <2>4 DEF Wake, ClosedIffNotPaused
  <2>5. CASE ContextEnds(p) \/ PoolCloses(p) \/ Leave(p)
    BY <2>5 DEF ContextEnds, PoolCloses, Leave
  <2> QED
    BY <2>1, <2>2, <2>3, <2>4, <2>5 DEF AcquireStep
<1> QED
  BY <1>2, <1>4, <1>5 DEF GateInv

LEMMA PauseGateInv ==
    ASSUME GateInv, NEW x \in Pausers, Pause(x)
    PROVE  GateInv'
<1>1. CASE paused
  BY <1>1 DEF Pause, GateInv, TypeOK, NoDoubleClose, ClosedIffNotPaused, Closing,
         SameAcquires
<1>2. CASE ~paused
  <2>1. /\ paused' /\ made' = made + 1 /\ resumeCh' = made + 1
        /\ UNCHANGED <<shut, done, pc, ch, resumes, err, due>>
    BY <1>2 DEF Pause, SameAcquires
  <2>2. TypeOK'
    BY <2>1 DEF GateInv, TypeOK
  <2>3. NoDoubleClose' /\ ClosedIffNotPaused' /\ \A y \in Closing' : ch'[y] # resumeCh'
    <3>1. made + 1 \notin shut /\ \A y \in Closing : ch[y] # made + 1
      BY DEF GateInv, TypeOK, Closing, Procs
    <3> QED
      BY <2>1, <3>1 DEF GateInv, NoDoubleClose, ClosedIffNotPaused, Closing
  <2>4. ASSUME NEW q \in Acquirers
        PROVE  /\ pc'[q] \in {"gate", "snap", "parked"}
                    => due'[q] <= (IF paused' THEN resumes' + 1 ELSE resumes')
               /\ pc'[q] = "parked" /\ due'[q] > resumes' => ch'[q] = resumeCh' /\ paused'
               /\ pc'[q] = "past" => resumes' >= due'[q]
    BY <1>2, <2>1 DEF GateInv, TypeOK
  <2> QED
    BY <2>2, <2>3, <2>4 DEF GateInv
<1> QED
  BY <1>1, <1>2

\* Resume takes a channel nobody else is closing, because the flag it swaps
\* and the channel it takes changed together.
LEMMA ResumeGateInv ==
    ASSUME GateInv, NEW x \in Resumers, Resume(x)
    PROVE  GateInv'
<1> x \in Procs /\ x \notin Acquirers
  BY GateAssumption DEF Procs
<1>1. CASE ~paused
  <2>1. UNCHANGED vars
    BY <1>1 DEF Resume, SameAcquires, vars
  <2> QED
    BY <2>1 DEF vars, GateInv, TypeOK, NoDoubleClose, ClosedIffNotPaused, Closing
<1>2. CASE paused
  <2>1. /\ paused' = FALSE /\ ch' = [ch EXCEPT ![x] = resumeCh]
        /\ made' = made + 1 /\ resumeCh' = made + 1 /\ shut' = shut \cup {made + 1}
        /\ resumes' = resumes + 1 /\ pc' = [pc EXCEPT ![x] = "closing"]
        /\ UNCHANGED <<done, err, due>>
    BY <1>2 DEF Resume, SameAcquires, Goto
  <2>2. TypeOK'
    <3>1. 0..made \subseteq 0..(made + 1) /\ made + 1 \in 0..(made + 1)
      BY DEF GateInv, TypeOK
    <3>2. ch' \in [Procs -> 0..made']
      BY <2>1, <3>1 DEF GateInv, TypeOK
    <3>3. shut' \subseteq 0..made' /\ resumeCh' \in 0..made'
      BY <2>1, <3>1 DEF GateInv, TypeOK
    <3>4. paused' \in BOOLEAN
      BY <2>1
    <3>5. /\ pc' \in [Procs -> PCs] /\ made' \in Nat /\ resumes' \in Nat
          /\ done' \in {"open", "closed", "done"}
          /\ err' \in [Acquirers -> Errors] /\ due' \in [Acquirers -> Nat]
      BY <2>1 DEF GateInv, TypeOK, PCs
    <3> QED
      BY <3>2, <3>3, <3>4, <3>5 DEF TypeOK
  <2>3. Closing' = Closing \cup {x}
    BY <2>1 DEF GateInv, TypeOK, Closing, Procs
  <2>4. ch'[x] = resumeCh /\ \A y \in Closing \ {x} : ch'[y] = ch[y]
    BY <2>1 DEF GateInv, TypeOK, Closing, Procs
  <2>5. resumeCh \notin shut /\ resumeCh # made + 1 /\ made + 1 \notin shut
    BY <1>2 DEF GateInv, ClosedIffNotPaused, TypeOK
  <2>6. \A y \in Closing : ch[y] # resumeCh /\ ch[y] \notin shut /\ ch[y] # made + 1
    BY DEF GateInv, NoDoubleClose, TypeOK, Closing, Procs
  <2>7. NoDoubleClose'
    <3>1. \A y \in Closing' : ch'[y] \notin shut'
      BY <2>1, <2>3, <2>4, <2>5, <2>6
    <3>2. \A y, z \in Closing' : ch'[y] = ch'[z] => y = z
      BY <2>3, <2>4, <2>6 DEF GateInv, NoDoubleClose
    <3> QED
      BY <3>1, <3>2 DEF NoDoubleClose
  <2>8. ClosedIffNotPaused' /\ \A y \in Closing' : ch'[y] # resumeCh'
    BY <2>1, <2>3, <2>4, <2>5, <2>6 DEF ClosedIffNotPaused
  <2>9. ASSUME NEW q \in Acquirers
        PROVE  /\ pc'[q] \in {"gate", "snap", "parked"}
                    => due'[q] <= (IF paused' THEN resumes' + 1 ELSE resumes')
               /\ pc'[q] = "parked" /\ due'[q] > resumes' => ch'[q] = resumeCh' /\ paused'
               /\ pc'[q] = "past" => resumes' >= due'[q]
    <3>1. q # x /\ q \in Procs /\ pc'[q] = pc[q] /\ due'[q] = due[q]
      BY <2>1 DEF GateInv, TypeOK, Procs
    <3>2. due[q] \in Nat /\ resumes \in Nat
      BY DEF GateInv, TypeOK
    <3> QED
      BY <2>1, <3>1, <3>2, <1>2 DEF GateInv
  <2> QED
    BY <2>2, <2>7, <2>8, <2>9 DEF GateInv
<1> QED
  BY <1>1, <1>2

\* The channel that is closed is not the current one, so the gate of a pool
\* paused again meanwhile stays shut.
LEMMA CloseGateInv ==
    ASSUME GateInv, NEW x \in Resumers, CloseChannel(x)
    PROVE  GateInv'
<1> x \in Procs /\ x \notin Acquirers
  BY GateAssumption DEF Procs
<1>1. /\ pc[x] = "closing" /\ shut' = shut \cup {ch[x]}
      /\ pc' = [pc EXCEPT ![x] = "out"]
      /\ UNCHANGED <<paused, resumeCh, made, done, ch, resumes, err, due>>
  BY DEF CloseChannel, SameAcquires, Goto
<1>2. TypeOK'
  BY <1>1 DEF GateInv, TypeOK, PCs
<1>3. x \in Closing /\ Closing' = Closing \ {x}
  BY <1>1 DEF GateInv, TypeOK, Closing, Procs
<1>4. NoDoubleClose'
  BY <1>1, <1>3 DEF GateInv, NoDoubleClose
<1>5. ClosedIffNotPaused' /\ \A y \in Closing' : ch'[y] # resumeCh'
  BY <1>1, <1>3 DEF GateInv, ClosedIffNotPaused
<1>6. \A q \in Acquirers : pc'[q] = pc[q]
  BY <1>1 DEF GateInv, TypeOK, Procs
<1> QED
  BY <1>1, <1>2, <1>4, <1>5, <1>6 DEF GateInv

LEMMA GateNext == GateInv /\ [Next]_vars => GateInv'
<1> SUFFICES ASSUME GateInv, [Next]_vars PROVE GateInv'
  OBVIOUS
<1>1. CASE ClosePool
  BY <1>1 DEF ClosePool, SameAcquires, GateInv, TypeOK, NoDoubleClose,
         ClosedIffNotPaused, Closing
<1>2. CASE UNCHANGED vars
  BY <1>2 DEF vars, GateInv, TypeOK, NoDoubleClose, ClosedIffNotPaused, Closing
<1> QED
  BY <1>1, <1>2, AcquireGate, PauseGateInv, ResumeGateInv, CloseGateInv DEF Next

\* The inductive invariant holds of every behaviour of the gate.
THEOREM GateInvariant == Spec => []GateInv
BY GateInit, GateNext, PTL DEF Spec

\* Type correctness of the gate.
THEOREM GateTypes == Spec => []TypeOK
<1>1. GateInv => TypeOK
  BY DEF GateInv
<1> QED
  BY <1>1, GateInvariant, PTL

\* Resume never closes a channel twice, so PAUSE and RESUME from any number of
\* operators cannot panic the proxy.
THEOREM ResumeNeverPanics == Spec => []NoDoubleClose
<1>1. GateInv => NoDoubleClose
  BY DEF GateInv
<1> QED
  BY <1>1, GateInvariant, PTL

\* The invariant of Resume's comment.
THEOREM FlagAndChannelAgree == Spec => []ClosedIffNotPaused
<1>1. GateInv => ClosedIffNotPaused
  BY DEF GateInv
<1> QED
  BY <1>1, GateInvariant, PTL

\* An Acquire that began during a pause waits for a Resume.
THEOREM GateHolds == Spec => []PauseHolds
<1>1. GateInv => PauseHolds
  BY DEF GateInv, PauseHolds
<1> QED
  BY <1>1, GateInvariant, PTL
=============================================================================
