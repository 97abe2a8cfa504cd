----------------------------- MODULE PoolProofs -----------------------------
(***************************************************************************)
(* Proofs about Pool for every number of clients, connections, drainers,   *)
(* every limit and every warm-up target: slots, Close, the bound on open   *)
(* connections, and the theorems.                                          *)
(***************************************************************************)
EXTENDS PoolOwnershipProofs

----------------------------------------------------------------------------
(* Slots: the semaphore counts the goroutines that own one.                *)

\* Adding an element to, or removing one from, a set of goroutines.
LEMMA ProcSets ==
    ASSUME NEW S \in SUBSET Procs
    PROVE  /\ IsFiniteSet(S) /\ Cardinality(S) \in Nat
           /\ \A q \in Procs \ S : Cardinality(S \cup {q}) = Cardinality(S) + 1
           /\ \A q \in S : Cardinality(S \ {q}) = Cardinality(S) - 1
           /\ \A T \in SUBSET S : Cardinality(T) <= Cardinality(S)
           /\ Cardinality(S) = 0 => S = {}
<1>1. IsFiniteSet(S)  BY ProcsFacts, FS_Subset
<1>2. Cardinality(S) \in Nat  BY <1>1, FS_CardinalityType
<1>3. \A q \in Procs \ S : Cardinality(S \cup {q}) = Cardinality(S) + 1
  BY <1>1, FS_AddElement
<1>4. \A q \in S : Cardinality(S \ {q}) = Cardinality(S) - 1
  BY <1>1, FS_RemoveElement
<1>5. \A T \in SUBSET S : Cardinality(T) <= Cardinality(S)
  BY <1>1, FS_Subset
<1>6. Cardinality(S) = 0 => S = {}
  BY <1>1, FS_EmptySet
<1>. QED  BY <1>1, <1>2, <1>3, <1>4, <1>5, <1>6

\* The step neither takes nor gives a slot.
LEMMA SlotsQuiet ==
    ASSUME SlotsMatchHolders, sem' = sem,
           \A q \in Procs : pc'[q] \in SlotPCs <=> pc[q] \in SlotPCs
    PROVE  SlotsMatchHolders'
<1>1. SlotHolders' = SlotHolders  BY DEF SlotHolders
<1>. QED  BY <1>1 DEF SlotsMatchHolders

\* q sends on the semaphore.
LEMMA SlotTaken ==
    ASSUME TypeOK, SlotsMatchHolders, NEW q \in Procs, pc[q] \notin SlotPCs,
           pc'[q] \in SlotPCs, \A r \in Procs : r # q => pc'[r] = pc[r],
           sem' = sem + 1
    PROVE  SlotsMatchHolders'
<1>1. SlotHolders' = SlotHolders \cup {q} /\ q \notin SlotHolders  BY DEF SlotHolders
<1>2. SlotHolders \in SUBSET Procs  BY DEF SlotHolders
<1>. QED  BY <1>1, <1>2, ProcSets DEF SlotsMatchHolders

\* q gives its own slot back; the semaphore cannot be empty then, so the
\* slot_underflow branch of releaseSlot is not taken.
LEMMA SlotGiven ==
    ASSUME TypeOK, SlotsMatchHolders, NEW q \in Procs, pc[q] \in SlotPCs,
           pc'[q] \notin SlotPCs, \A r \in Procs : r # q => pc'[r] = pc[r],
           releaseSlot
    PROVE  SlotsMatchHolders'
<1>1. SlotHolders' = SlotHolders \ {q} /\ q \in SlotHolders  BY DEF SlotHolders
<1>2. SlotHolders \in SUBSET Procs  BY DEF SlotHolders
<1>3. sem > 0  BY <1>1, <1>2, ProcSets DEF SlotsMatchHolders, TypeOK
<1>4. sem' = sem - 1  BY <1>3 DEF releaseSlot
<1>. QED  BY <1>1, <1>2, <1>4, ProcSets DEF SlotsMatchHolders

LEMMA ClientSlots ==
    ASSUME TypeOK, Ownership, SlotsMatchHolders, NEW p \in Clients, ClientStep(p)
    PROVE  SlotsMatchHolders'
<1>0. p \in Procs /\ pc \in [Procs -> PCs]
  BY ProcsFacts DEF TypeOK
<1>. USE <1>0 DEF Goto, SlotPCs
<1>1. CASE Acquire(p)
  BY <1>1, SlotsQuiet DEF Acquire
<1>2. CASE TakeSlot(p)
  BY <1>2, SlotTaken DEF TakeSlot
<1>3. CASE GiveUp(p)
  BY <1>3, SlotsQuiet DEF GiveUp
<1>4. CASE RecheckClosed(p)
  BY <1>4, SlotsQuiet DEF RecheckClosed
<1>5. CASE PopMiss(p)
  BY <1>5, SlotsQuiet DEF PopMiss
<1>6. CASE PopHit(p)
  BY <1>6, SlotsQuiet DEF PopHit
<1>7. CASE CheckOK(p)
  BY <1>7, SlotsQuiet DEF CheckOK
<1>8. CASE CheckFails(p)
  BY <1>8, SlotsQuiet DEF CheckFails
<1>9. CASE DialFails(p)
  BY <1>9, SlotsQuiet DEF DialFails
<1>10. CASE DialOK(p)
  BY <1>10, SlotsQuiet DEF DialOK
<1>11. CASE ReturnDialed(p)
  BY <1>11, SlotsQuiet DEF ReturnDialed
<1>12. CASE ReleaseStart(p)
  <2>1. conn[p] \in tagged  BY <1>12, HeldIsTagged DEF ReleaseStart, HoldPCs, FreshPCs
  <2>. QED  BY <1>12, <2>1, SlotsQuiet DEF ReleaseStart, rejectForeign, CloseHeld
<1>13. CASE ReleaseGen(p)
  BY <1>13, SlotsQuiet DEF ReleaseGen, CloseHeld
<1>14. CASE ReleasePush(p)
  <2>1. conn[p] \notin Range(idle)  BY <1>14, HeldIsTagged DEF ReleasePush, Push, HoldPCs, FreshPCs
  <2>. QED  BY <1>14, <2>1, SlotsQuiet DEF ReleasePush, Push, CloseHeld
<1>15. CASE Discard(p)
  <2>1. conn[p] \in tagged  BY <1>15, HeldIsTagged DEF Discard, HoldPCs, FreshPCs
  <2>. QED  BY <1>15, <2>1, SlotsQuiet DEF Discard, rejectForeign, CloseHeld
<1>16. CASE FreeSlot(p)
  BY <1>16, SlotGiven DEF FreeSlot
<1>. QED
  BY <1>1, <1>2, <1>3, <1>4, <1>5, <1>6, <1>7, <1>8, <1>9, <1>10, <1>11, <1>12, <1>13,
     <1>14, <1>15, <1>16 DEF ClientStep

LEMMA WarmSlots ==
    ASSUME TypeOK, SlotsMatchHolders, WarmStep
    PROVE  SlotsMatchHolders'
<1>0. Warmer \in Procs /\ pc \in [Procs -> PCs]
  BY ProcsFacts DEF TypeOK
<1>. USE <1>0 DEF Goto, SlotPCs
<1>1. CASE WarmNext  BY <1>1, SlotsQuiet DEF WarmNext
<1>2. CASE WarmSlot  BY <1>2, SlotTaken DEF WarmSlot
<1>3. CASE WarmGiveUp  BY <1>3, SlotsQuiet DEF WarmGiveUp
<1>4. CASE WarmDialFails  BY <1>4, SlotsQuiet DEF WarmDialFails
<1>5. CASE WarmDialOK  BY <1>5, SlotsQuiet DEF WarmDialOK
<1>6. CASE WarmPush  BY <1>6, SlotsQuiet DEF WarmPush
<1>7. CASE WarmFree  BY <1>7, SlotGiven DEF WarmFree
<1>. QED
  BY <1>1, <1>2, <1>3, <1>4, <1>5, <1>6, <1>7 DEF WarmStep

\* No drainer touches a slot or a program counter of Procs.
LEMMA DrainProcs ==
    ASSUME DrainStep
    PROVE  UNCHANGED <<sem, pc, conn, toWarm>>
BY Zenon DEF DrainStep, SameProcs, Reap, Retire, DrainDone, ReconnectStep, ReconnectBump,
       ReconnectDrain, TakeIdle, CloseStep, CloseCAS, CloseDrain, CloseDone,
       CloseReturns, CloseTimesOut

LEMMA DrainSlots ==
    ASSUME SlotsMatchHolders, DrainStep
    PROVE  SlotsMatchHolders'
BY DrainProcs, SlotsQuiet

----------------------------------------------------------------------------
(* Close: what stays true after the stack has been emptied.                *)

CloseInv == DrainersInStep /\ StaysDrained /\ CloseReturnsDrained

\* Clients and warmUp leave the drainers and the flags alone.
LEMMA ProcsAdmin ==
    ASSUME (\E p \in Clients : ClientStep(p)) \/ WarmStep
    PROVE  UNCHANGED <<reconnectGen, closed, done, adm, doomed>>
BY Zenon DEF ClientStep, WarmStep, SameAdmin, Acquire, TakeSlot, GiveUp, RecheckClosed,
   PopMiss, PopHit, CheckOK, CheckFails, DialFails, DialOK, ReturnDialed, ReleaseStart,
   ReleaseGen, ReleasePush, Push, Discard, FreeSlot, WarmNext, WarmSlot, WarmGiveUp,
   WarmDialFails, WarmDialOK, WarmPush, WarmFree

\* They push onto the stack only while the pool is open.
LEMMA NoPushOnceClosed ==
    ASSUME closed, idle = << >>, (\E p \in Clients : ClientStep(p)) \/ WarmStep
    PROVE  idle' = << >>
BY Zenon DEF ClientStep, WarmStep, SameConns, CloseHeld, rejectForeign, Acquire, TakeSlot,
   GiveUp, RecheckClosed, PopMiss, PopHit, CheckOK, CheckFails, DialFails, DialOK,
   ReturnDialed, ReleaseStart, ReleaseGen, ReleasePush, Push, Discard, FreeSlot,
   WarmNext, WarmSlot, WarmGiveUp, WarmDialFails, WarmDialOK, WarmPush, WarmFree

LEMMA ProcsClose ==
    ASSUME TypeOK, CloseInv, (\E p \in Clients : ClientStep(p)) \/ WarmStep
    PROVE  CloseInv'
<1>1. DrainersInStep'
  <2>1. UNCHANGED <<closed, adm, doomed>>  BY ProcsAdmin
  <2>. QED  BY <2>1 DEF CloseInv, DrainersInStep
<1>2. StaysDrained'
  BY ProcsAdmin, NoPushOnceClosed DEF CloseInv, StaysDrained, DrainersInStep
<1>3. CloseReturnsDrained'
  <2>1. SUFFICES ASSUME NEW k \in Closers, adm[k] = "returned", NEW p \in Clients
                 PROVE  pc'[p] \in {"out", "wait", "slot", "free"}
    BY ProcsAdmin DEF CloseReturnsDrained
  <2>2. closed /\ \A q \in Clients : pc[q] \in {"out", "wait", "slot", "free"}
    BY <2>1 DEF CloseInv, DrainersInStep, CloseReturnsDrained
  <2>3. pc \in [Procs -> PCs] /\ p \in Procs /\ p # Warmer
    BY ProcsFacts, PoolAssumption DEF TypeOK
  <2>4. ASSUME NEW q \in Clients, ClientStep(q)
        PROVE  pc'[p] \in {"out", "wait", "slot", "free"}
    BY Zenon, <2>2, <2>3, <2>4 DEF ClientStep, Goto, Acquire, TakeSlot, GiveUp, RecheckClosed,
       PopMiss, PopHit, CheckOK, CheckFails, DialFails, DialOK, ReturnDialed,
       ReleaseStart, ReleaseGen, ReleasePush, Push, Discard, FreeSlot
  <2>5. CASE WarmStep
    BY Zenon, <2>2, <2>3, <2>5 DEF WarmStep, Goto, WarmNext, WarmSlot, WarmGiveUp,
       WarmDialFails, WarmDialOK, WarmPush, WarmFree
  <2>. QED  BY <2>4, <2>5
<1>. QED  BY <1>1, <1>2, <1>3 DEF CloseInv

LEMMA DrainClose ==
    ASSUME TypeOK, SlotsMatchHolders, CloseInv, DrainStep
    PROVE  CloseInv'
<1>. USE ProcsFacts DEF SameProcs, SameConns, AdmGoto
<1>0. adm \in [Drainers -> AdmPCs] /\ doomed \in [Drainers -> SUBSET Conns]
  BY DEF TypeOK
<1>1. DrainersInStep'
  <2>. USE <1>0 DEF CloseInv, DrainersInStep
  <2>1. CASE Reap  BY <2>1 DEF Reap
  <2>2. ASSUME NEW d \in Drainers, Retire(d) \/ DrainDone(d) PROVE DrainersInStep'
    BY <2>2 DEF Retire, DrainDone
  <2>3. ASSUME NEW r \in Reconnectors, ReconnectStep(r) PROVE DrainersInStep'
    BY <2>3 DEF ReconnectStep, ReconnectBump, ReconnectDrain, TakeIdle
  <2>4. ASSUME NEW k \in Closers, CloseStep(k) PROVE DrainersInStep'
    <3>1. CASE CloseCAS(k)  BY <3>1 DEF CloseCAS
    <3>2. CASE CloseDrain(k)  BY <3>2 DEF CloseDrain, TakeIdle
    <3>3. CASE CloseDone(k) \/ CloseReturns(k) \/ CloseTimesOut(k)
      BY <3>3 DEF CloseDone, CloseReturns, CloseTimesOut
    <3>. QED  BY Zenon, <2>4, <3>1, <3>2, <3>3 DEF CloseStep
  <2>. QED  BY Zenon, <2>1, <2>2, <2>3, <2>4 DEF DrainStep
<1>2. StaysDrained'
  BY Zenon, <1>0 DEF CloseInv, DrainersInStep, StaysDrained, DrainStep, Reap, Retire, DrainDone,
       ReconnectStep, ReconnectBump, ReconnectDrain, TakeIdle, CloseStep, CloseCAS, CloseDrain,
       CloseDone, CloseReturns, CloseTimesOut
<1>3. CloseReturnsDrained'
  <2>1. CASE \E k \in Closers : CloseReturns(k)
    <3>1. SlotHolders = {}
      <4>1. sem = 0  BY Zenon, <2>1 DEF CloseReturns
      <4>2. SlotHolders \in SUBSET Procs  BY DEF SlotHolders
      <4>. QED  BY Zenon, <4>1, <4>2, ProcSets DEF SlotsMatchHolders
    <3>2. \A p \in Clients : pc[p] \in {"out", "wait"}
      BY <3>1 DEF SlotHolders, SlotPCs, TypeOK, ClientPCs
    <3>. QED  BY <3>2, DrainProcs DEF CloseReturnsDrained
  <2>2. CASE ~ \E k \in Closers : CloseReturns(k)
    <3>1. \A k \in Closers : adm'[k] = "returned" => adm[k] = "returned"
      BY Zenon, <1>0, <2>2 DEF DrainStep, Reap, Retire, DrainDone, ReconnectStep, ReconnectBump,
         ReconnectDrain, TakeIdle, CloseStep, CloseCAS, CloseDrain, CloseDone,
         CloseTimesOut
    <3>. QED  BY Zenon, <3>1, DrainProcs DEF CloseInv, CloseReturnsDrained
  <2>. QED  BY <2>1, <2>2
<1>. QED  BY <1>1, <1>2, <1>3 DEF CloseInv

----------------------------------------------------------------------------
(* Size: idle connections plus committed goroutines.                       *)

\* Adding a connection to, or removing some from, the set of idle ones.
LEMMA ConnSets ==
    ASSUME NEW S \in SUBSET Conns
    PROVE  /\ Cardinality(S) \in Nat
           /\ \A c \in Conns : Cardinality(S \cup {c}) <= Cardinality(S) + 1
           /\ \A c \in S : Cardinality(S \ {c}) = Cardinality(S) - 1
           /\ \A T \in SUBSET S : Cardinality(T) \in Nat /\ Cardinality(T) <= Cardinality(S)
<1>1. IsFiniteSet(S)  BY PoolAssumption, FS_Subset
<1>2. Cardinality(S) \in Nat  BY <1>1, FS_CardinalityType
<1>3. \A c \in Conns : Cardinality(S \cup {c}) <= Cardinality(S) + 1
  BY <1>1, <1>2, FS_AddElement
<1>4. \A c \in S : Cardinality(S \ {c}) = Cardinality(S) - 1
  BY <1>1, FS_RemoveElement
<1>5. \A T \in SUBSET S : Cardinality(T) \in Nat /\ Cardinality(T) <= Cardinality(S)
  BY <1>1, FS_Subset, FS_CardinalityType
<1>. QED  BY <1>2, <1>3, <1>4, <1>5

LEMMA BoundTypes ==
    ASSUME TypeOK
    PROVE  /\ Range(idle) \in SUBSET Conns /\ Cardinality(Range(idle)) \in Nat
           /\ Committed \in SUBSET Procs /\ Cardinality(Committed) \in Nat
           /\ Committed \subseteq SlotHolders /\ SlotHolders \in SUBSET Procs
           /\ toWarm \in Nat /\ WarmTarget \in Nat /\ Limit \in Nat /\ toWarm <= WarmTarget
<1>1. Range(idle) \in SUBSET Conns
  <2>1. idle \in Seq(Conns)  BY DEF TypeOK
  <2>2. DOMAIN idle = 1..Len(idle) /\ \A i \in 1..Len(idle) : idle[i] \in Conns
    BY <2>1, LenProperties, ElementOfSeq
  <2>. QED  BY <2>2 DEF Range
<1>2. Committed \in SUBSET Procs /\ Committed \subseteq SlotHolders /\ SlotHolders \in SUBSET Procs
  BY DEF Committed, SlotHolders, HoldPCs, SlotPCs
<1>3. Cardinality(Range(idle)) \in Nat /\ Cardinality(Committed) \in Nat
  BY <1>1, <1>2, ConnSets, ProcSets
<1>. QED  BY <1>1, <1>2, <1>3, ProcsFacts DEF TypeOK

\* Nobody joins, nothing is pushed.
LEMMA BoundShrinks ==
    ASSUME TypeOK, TypeOK', BackendsBounded,
           Range(idle') \subseteq Range(idle), Committed' \subseteq Committed, toWarm' <= toWarm
    PROVE  BackendsBounded'
<1>1. Cardinality(Range(idle')) \in Nat /\ Cardinality(Range(idle')) <= Cardinality(Range(idle))
  BY BoundTypes, ConnSets
<1>2. Cardinality(Committed') <= Cardinality(Committed) /\ Cardinality(Committed') \in Nat
  BY BoundTypes, ProcSets
<1>3. toWarm' \in Nat  BY DEF TypeOK
<1>. QED  BY <1>1, <1>2, <1>3, BoundTypes DEF BackendsBounded

\* q finds the stack empty: everybody committed owns a slot.
LEMMA BoundMiss ==
    ASSUME TypeOK, TypeOK', SlotsMatchHolders', idle' = << >>
    PROVE  BackendsBounded'
<1>1. Range(idle') = {}  BY DEF Range
<1>2. Cardinality(Range(idle')) = 0  BY <1>1, FS_EmptySet
<1>3. Committed' \subseteq SlotHolders' /\ SlotHolders' \in SUBSET Procs
  BY DEF Committed, SlotHolders, HoldPCs, SlotPCs
<1>4. Cardinality(Committed') <= Cardinality(SlotHolders') /\ Cardinality(Committed') \in Nat
  BY <1>3, ProcSets
<1>5. Cardinality(SlotHolders') <= Limit /\ Cardinality(SlotHolders') \in Nat
  BY ProcsFacts DEF TypeOK, SlotsMatchHolders
<1>6. toWarm' \in Nat /\ toWarm' <= WarmTarget /\ WarmTarget \in Nat /\ Limit \in Nat
  BY ProcsFacts DEF TypeOK
<1>. QED  BY <1>2, <1>4, <1>5, <1>6 DEF BackendsBounded

\* q joins, and a connection leaves the stack or an iteration of warmUp is spent.
LEMMA BoundJoins ==
    ASSUME TypeOK, TypeOK', BackendsBounded, NEW q \in Procs,
           q \notin Committed, Committed' = Committed \cup {q},
           \/ /\ \E c \in Range(idle) : Range(idle') = Range(idle) \ {c}
              /\ toWarm' = toWarm
           \/ Range(idle') = Range(idle) /\ toWarm' = toWarm - 1
    PROVE  BackendsBounded'
<1>1. Cardinality(Committed') = Cardinality(Committed) + 1
  BY BoundTypes, ProcSets
<1>2. CASE \E c \in Range(idle) : Range(idle') = Range(idle) \ {c}
  <2>1. Cardinality(Range(idle')) = Cardinality(Range(idle)) - 1
    BY <1>2, BoundTypes, ConnSets
  <2>2. toWarm' <= toWarm /\ toWarm' \in Nat  BY BoundTypes DEF TypeOK
  <2>. QED  BY <1>1, <2>1, <2>2, BoundTypes DEF BackendsBounded
<1>3. CASE Range(idle') = Range(idle) /\ toWarm' = toWarm - 1
  BY <1>1, <1>3, BoundTypes DEF BackendsBounded
<1>. QED  BY <1>2, <1>3

\* q leaves and pushes its connection.
LEMMA BoundPush ==
    ASSUME TypeOK, TypeOK', BackendsBounded, NEW q \in Committed,
           Committed' = Committed \ {q},
           \E c \in Conns : Range(idle') = Range(idle) \cup {c},
           toWarm' = toWarm
    PROVE  BackendsBounded'
<1>1. Cardinality(Committed') = Cardinality(Committed) - 1
  BY BoundTypes, ProcSets
<1>2. Cardinality(Range(idle')) <= Cardinality(Range(idle)) + 1
  BY BoundTypes, ConnSets
<1>3. Cardinality(Range(idle')) \in Nat
  <2>1. Range(idle') \in SUBSET Conns  BY BoundTypes
  <2>. QED  BY <2>1, ConnSets
<1>. QED  BY <1>1, <1>2, <1>3, BoundTypes DEF BackendsBounded

LEMMA ClientBound ==
    ASSUME TypeOK, TypeOK', SlotsMatchHolders', Ownership, BackendsBounded,
           NEW p \in Clients, ClientStep(p)
    PROVE  BackendsBounded'
<1>0. p \in Procs /\ pc \in [Procs -> PCs] /\ toWarm \in Nat
  BY ProcsFacts DEF TypeOK
<1>. USE <1>0 DEF Goto, Committed, HoldPCs, SameConns
<1>1. CASE Acquire(p)
  BY <1>1, BoundShrinks DEF Acquire
<1>2. CASE TakeSlot(p)
  BY <1>2, BoundShrinks DEF TakeSlot
<1>3. CASE GiveUp(p)
  BY <1>3, BoundShrinks DEF GiveUp
<1>4. CASE RecheckClosed(p)
  BY <1>4, BoundShrinks DEF RecheckClosed
<1>5. CASE PopMiss(p)
  BY <1>5, BoundMiss DEF PopMiss
<1>6. CASE PopHit(p)
  <2>1. \E c \in Range(idle) : Range(idle') = Range(idle) \ {c}
    BY Zenon, <1>6, RangePop DEF PopHit, TypeOK, Ownership, Exclusive
  <2>. QED  BY <1>6, <2>1, BoundJoins DEF PopHit
<1>7. CASE CheckOK(p)
  BY <1>7, BoundShrinks DEF CheckOK
<1>8. CASE CheckFails(p)
  BY <1>8, BoundShrinks DEF CheckFails
<1>9. CASE DialFails(p)
  BY <1>9, BoundShrinks DEF DialFails
<1>10. CASE DialOK(p)
  BY <1>10, BoundShrinks DEF DialOK
<1>11. CASE ReturnDialed(p)
  BY <1>11, BoundShrinks DEF ReturnDialed
<1>12. CASE ReleaseStart(p)
  BY <1>12, BoundShrinks DEF ReleaseStart, CloseHeld, rejectForeign
<1>13. CASE ReleaseGen(p)
  BY <1>13, BoundShrinks DEF ReleaseGen, CloseHeld, rejectForeign
<1>14. CASE ReleasePush(p)
  <2>1. CASE closed
    BY <1>14, <2>1, BoundShrinks DEF ReleasePush, Push, CloseHeld
  <2>2. CASE ~closed
    <3>1. conn[p] \notin Range(idle) /\ conn[p] \in Conns
      BY <1>14, HeldIsTagged DEF ReleasePush, Push, FreshPCs
    <3>2. Range(idle') = Range(idle) \cup {conn[p]}
      BY Zenon, <1>14, <2>2, <3>1, RangeAppend DEF ReleasePush, Push, TypeOK
    <3>. QED  BY <1>14, <2>2, <3>1, <3>2, BoundPush DEF ReleasePush, Push
  <2>. QED  BY <2>1, <2>2
<1>15. CASE Discard(p)
  BY <1>15, BoundShrinks DEF Discard, CloseHeld, rejectForeign
<1>16. CASE FreeSlot(p)
  BY <1>16, BoundShrinks DEF FreeSlot
<1>. QED
  BY <1>1, <1>2, <1>3, <1>4, <1>5, <1>6, <1>7, <1>8, <1>9, <1>10, <1>11, <1>12, <1>13,
     <1>14, <1>15, <1>16 DEF ClientStep

LEMMA WarmBound ==
    ASSUME TypeOK, TypeOK', BackendsBounded, WarmStep
    PROVE  BackendsBounded'
<1>0. Warmer \in Procs /\ pc \in [Procs -> PCs] /\ toWarm \in Nat
  BY ProcsFacts DEF TypeOK
<1>. USE <1>0 DEF Goto, Committed, HoldPCs, SameConns
<1>1. CASE WarmNext  BY <1>1, BoundShrinks DEF WarmNext
<1>2. CASE WarmSlot  BY <1>2, BoundShrinks DEF WarmSlot
<1>3. CASE WarmGiveUp  BY <1>3, BoundShrinks DEF WarmGiveUp
<1>4. CASE WarmDialFails  BY <1>4, BoundShrinks DEF WarmDialFails
<1>5. CASE WarmDialOK  BY <1>5, BoundJoins DEF WarmDialOK
<1>6. CASE WarmPush
  <2>1. CASE closed  BY <1>6, <2>1, BoundShrinks DEF WarmPush
  <2>2. CASE ~closed
    <3>1. conn[Warmer] \in Conns  BY Zenon, <1>6 DEF WarmPush, TypeOK
    <3>2. Range(idle') = Range(idle) \cup {conn[Warmer]}
      BY Zenon, <1>6, <2>2, <3>1, RangeAppend DEF WarmPush, TypeOK
    <3>. QED  BY <1>6, <2>2, <3>1, <3>2, BoundPush DEF WarmPush
  <2>. QED  BY <2>1, <2>2
<1>7. CASE WarmFree  BY <1>7, BoundShrinks DEF WarmFree
<1>. QED
  BY <1>1, <1>2, <1>3, <1>4, <1>5, <1>6, <1>7 DEF WarmStep

LEMMA DrainBound ==
    ASSUME TypeOK, TypeOK', BackendsBounded, DrainStep
    PROVE  BackendsBounded'
<1>1. Committed' = Committed /\ toWarm' = toWarm
  BY DrainProcs DEF Committed
<1>2. Range(idle') \subseteq Range(idle)
  <2>1. CASE Reap
    BY <2>1, RangeKept DEF Reap, TypeOK
  <2>2. CASE idle' = idle \/ idle' = << >>
    BY <2>2 DEF Range
  <2>. QED
    BY <2>1, <2>2 DEF DrainStep, SameConns, Retire, DrainDone, ReconnectStep, ReconnectBump,
       ReconnectDrain, TakeIdle, CloseStep, CloseCAS, CloseDrain, CloseDone,
       CloseReturns, CloseTimesOut
<1>3. toWarm' <= toWarm  BY <1>1, BoundTypes
<1>. QED  BY <1>1, <1>2, <1>3, BoundShrinks

----------------------------------------------------------------------------
(* The inductive invariant and the theorems.                               *)

LEMMA InitInv == Init => PoolInv
<1>1. SUFFICES ASSUME Init PROVE PoolInv
  OBVIOUS
<1>2. TypeOK  BY <1>1, InitType
<1>3. /\ idle = << >> /\ Range(idle) = {} /\ IsInjective(idle)
      /\ \A p \in Procs : pc[p] \in {"out", "wnext"} /\ conn[p] = NoConn
      /\ \A d \in Drainers : doomed[d] = {} /\ adm[d] = "ready"
      /\ tagged = {} /\ open = {} /\ sem = 0 /\ toWarm = WarmTarget
  BY <1>1 DEF Init, Range, IsInjective
<1>4. SlotHolders = {} /\ Committed = {}
  BY <1>3 DEF SlotHolders, Committed, SlotPCs, HoldPCs
<1>5. Cardinality({}) = 0  BY FS_EmptySet
<1>6. SlotsMatchHolders  BY <1>3, <1>4, <1>5 DEF SlotsMatchHolders
<1>7. BackendsBounded
  <2>1. Cardinality(Range(idle)) = 0 /\ Cardinality(Committed) = 0
    BY <1>3, <1>4, <1>5
  <2>. QED  BY <1>3, <2>1, ProcsFacts DEF BackendsBounded
<1>8. Exclusive /\ NoSocketLeak /\ MetaTracksConns
  BY <1>3, ProcsFacts DEF Exclusive, NoSocketLeak, MetaTracksConns
<1>9. DrainersInStep /\ StaysDrained /\ CloseReturnsDrained
  BY <1>3, ProcsFacts DEF DrainersInStep, StaysDrained, CloseReturnsDrained
<1>. QED  BY <1>2, <1>6, <1>7, <1>8, <1>9 DEF PoolInv

LEMMA NextInv == PoolInv /\ [Next]_vars => PoolInv'
<1>1. SUFFICES ASSUME PoolInv, [Next]_vars PROVE PoolInv'
  OBVIOUS
<1>2. /\ TypeOK /\ SlotsMatchHolders /\ Ownership /\ CloseInv /\ BackendsBounded
      /\ DrainersInStep /\ IsInjective(idle)
  BY <1>1 DEF PoolInv, Ownership, CloseInv, Exclusive
<1>3. ASSUME NEW p \in Clients, ClientStep(p)
      PROVE  TypeOK' /\ SlotsMatchHolders' /\ Ownership' /\ CloseInv' /\ BackendsBounded'
  <2>1. TypeOK'  BY <1>2, <1>3, ClientType
  <2>2. SlotsMatchHolders'  BY <1>2, <1>3, ClientSlots
  <2>3. Ownership'  BY <1>2, <1>3, ClientOwn
  <2>4. CloseInv'  BY <1>2, <1>3, ProcsClose
  <2>5. BackendsBounded'  BY <1>2, <1>3, <2>1, <2>2, ClientBound
  <2>. QED  BY <2>1, <2>2, <2>3, <2>4, <2>5
<1>4. ASSUME WarmStep
      PROVE  TypeOK' /\ SlotsMatchHolders' /\ Ownership' /\ CloseInv' /\ BackendsBounded'
  <2>1. TypeOK'  BY <1>2, <1>4, WarmType
  <2>2. SlotsMatchHolders'  BY <1>2, <1>4, WarmSlots
  <2>3. Ownership'  BY <1>2, <1>4, WarmOwn
  <2>4. CloseInv'  BY <1>2, <1>4, ProcsClose
  <2>5. BackendsBounded'  BY <1>2, <1>4, <2>1, WarmBound
  <2>. QED  BY <2>1, <2>2, <2>3, <2>4, <2>5
<1>5. ASSUME DrainStep
      PROVE  TypeOK' /\ SlotsMatchHolders' /\ Ownership' /\ CloseInv' /\ BackendsBounded'
  <2>1. TypeOK'  BY <1>2, <1>5, DrainType
  <2>2. SlotsMatchHolders'  BY <1>2, <1>5, DrainSlots
  <2>3. Ownership'  BY <1>2, <1>5, DrainOwn
  <2>4. CloseInv'  BY <1>2, <1>5, DrainClose
  <2>5. BackendsBounded'  BY <1>2, <1>5, <2>1, DrainBound
  <2>. QED  BY <2>1, <2>2, <2>3, <2>4, <2>5
<1>6. CASE UNCHANGED vars
  <2>. USE <1>1, <1>6 DEF vars, PoolInv
  <2>1. TypeOK'  BY DEF TypeOK
  <2>2. SlotsMatchHolders'  BY DEF SlotsMatchHolders, SlotHolders
  <2>3. Exclusive'  BY Zenon DEF Exclusive
  <2>4. NoSocketLeak'  BY Zenon DEF NoSocketLeak
  <2>5. MetaTracksConns'  BY DEF MetaTracksConns
  <2>6. DrainersInStep' /\ StaysDrained' /\ CloseReturnsDrained'
    BY DEF DrainersInStep, StaysDrained, CloseReturnsDrained
  <2>7. BackendsBounded'  BY DEF BackendsBounded, Committed
  <2>. QED  BY <2>1, <2>2, <2>3, <2>4, <2>5, <2>6, <2>7
<1>7. CASE Next
  <2>1. TypeOK' /\ SlotsMatchHolders' /\ Ownership' /\ CloseInv' /\ BackendsBounded'
    BY <1>3, <1>4, <1>5, <1>7 DEF Next, DrainStep
  <2>. QED  BY <2>1 DEF PoolInv, Ownership, CloseInv
<1>. QED  BY <1>1, <1>6, <1>7

\* The inductive invariant of pool.go holds in every reachable state.
THEOREM PoolInvariant == Spec => []PoolInv
BY InitInv, NextInv, PTL DEF Spec

\* Every variable keeps its type, and a goroutine has a connection exactly
\* where Acquire, Release and warmUp say it has.
THEOREM PoolTypes == Spec => []TypeOK
<1>1. PoolInv => TypeOK  BY DEF PoolInv
<1>. QED  BY <1>1, PoolInvariant, PTL

\* New's promise, for any limit and any number of clients: never more than
\* limit connections outstanding at once.
THEOREM LimitRespected == Spec => []OutstandingWithinLimit
<1>1. PoolInv => OutstandingWithinLimit
  <2>1. SUFFICES ASSUME TypeOK, SlotsMatchHolders PROVE OutstandingWithinLimit
    BY DEF PoolInv
  <2>2. Holders \subseteq SlotHolders /\ SlotHolders \in SUBSET Procs
    BY DEF Holders, SlotHolders, HoldPCs, SlotPCs
  <2>3. Cardinality(Holders) <= Cardinality(SlotHolders) /\ Cardinality(Holders) \in Nat
    BY <2>2, ProcSets
  <2>. QED  BY <2>1, <2>3, ProcsFacts DEF TypeOK, SlotsMatchHolders, OutstandingWithinLimit
<1>. QED  BY <1>1, PoolInvariant, PTL

\* One connection, one owner, whatever clients, warm-up, reaper, Reconnect and
\* Close do at the same time.
THEOREM OneOwner == Spec => []Exclusive
<1>1. PoolInv => Exclusive  BY DEF PoolInv
<1>. QED  BY <1>1, PoolInvariant, PTL

\* No slot is lost or invented on any path of Acquire, Release, Discard and
\* warmUp.
THEOREM SlotAccounting == Spec => []SlotsMatchHolders
<1>1. PoolInv => SlotsMatchHolders  BY DEF PoolInv
<1>. QED  BY <1>1, PoolInvariant, PTL

\* No socket is leaked, and connMeta never outlives nor misses a connection.
THEOREM NoLeak == Spec => [](NoSocketLeak /\ MetaTracksConns)
<1>1. PoolInv => NoSocketLeak /\ MetaTracksConns  BY DEF PoolInv
<1>. QED  BY <1>1, PoolInvariant, PTL

\* Close: the emptied stack stays empty, and a nil result means that no client
\* has a connection or can still get one.
THEOREM CloseIsFinal == Spec => [](StaysDrained /\ CloseReturnsDrained)
<1>1. PoolInv => StaysDrained /\ CloseReturnsDrained  BY DEF PoolInv
<1>. QED  BY <1>1, PoolInvariant, PTL

\* Towards Postgres the pool exceeds its limit by no more than what warmUp
\* has dialed.
THEOREM SizeBounded == Spec => []BackendsBounded
<1>1. PoolInv => BackendsBounded  BY DEF PoolInv
<1>. QED  BY <1>1, PoolInvariant, PTL

\* Without min_pool_size the pool never owns more than limit backends.
THEOREM LimitWithoutWarmUp ==
    ASSUME MinIdle = 0
    PROVE  Spec => []AtMostLimitBackends
<1>1. PoolInv => AtMostLimitBackends
  <2>1. SUFFICES ASSUME TypeOK, BackendsBounded PROVE AtMostLimitBackends
    BY DEF PoolInv
  <2>2. WarmTarget = 0 /\ toWarm = 0
    BY <2>1, ProcsFacts DEF WarmTarget, TypeOK
  <2>3. Holders \subseteq Committed  BY DEF Holders, Committed
  <2>4. Cardinality(Holders) <= Cardinality(Committed) /\ Cardinality(Holders) \in Nat
    BY <2>1, <2>3, BoundTypes, ProcSets
  <2>. QED
    BY <2>1, <2>2, <2>4, BoundTypes DEF BackendsBounded, AtMostLimitBackends
<1>. QED  BY <1>1, PoolInvariant, PTL

=============================================================================
