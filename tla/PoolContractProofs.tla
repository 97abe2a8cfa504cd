------------------------- MODULE PoolContractProofs -------------------------
(***************************************************************************)
(* Module Pool implements PoolContract, for every number of clients and    *)
(* connections and every limit.  The inductive invariant of PoolProofs     *)
(* says, in each state, who owns what; here every step of the pool is      *)
(* shown to be one step of the contract or none.                           *)
(***************************************************************************)
EXTENDS PoolProofs

\* What the contract sees of a pool in which no client's loan changes.
LEMMA LoansQuiet ==
    ASSUME \A q \in Clients : pc'[q] = "busy" <=> pc[q] = "busy",
           \A q \in Clients : pc[q] = "busy" => conn'[q] = conn[q]
    PROVE  lentTo' = lentTo
BY DEF lentTo

\* The phase depends on closed and on the closers alone.
LEMMA PhaseQuiet ==
    ASSUME closed' = closed, adm' = adm
    PROVE  phaseOf' = phaseOf
BY DEF phaseOf

\* A connection in the hands of a goroutine is open and is lent to no one else.
LEMMA HeldFacts ==
    ASSUME PoolInv, NEW p \in Procs, pc[p] \in HoldPCs
    PROVE  /\ conn[p] \in Conns /\ conn[p] \in open
           /\ \A q \in Clients : lentTo[q] = conn[p] => q = p
<1>1. conn[p] # NoConn /\ conn[p] \in Conns
  BY DEF PoolInv, TypeOK
<1>2. conn[p] \in open
  BY <1>1 DEF PoolInv, NoSocketLeak
<1>3. ASSUME NEW q \in Clients, lentTo[q] = conn[p] PROVE q = p
  <2>1. conn[q] = conn[p] /\ q \in Procs
    BY <1>1, <1>3, ProcsFacts DEF lentTo
  <2>. QED  BY <1>1, <2>1 DEF PoolInv, Exclusive
<1>. QED  BY <1>1, <1>2, <1>3

\* The number of loans is what the contract counts.
LEMMA LentSet ==
    Contract!Lent = {p \in Clients : lentTo[p] # NoConn}
BY DEF Contract!Lent

\* A goroutine that has taken or dialed a connection and returns it: Lend.
LEMMA LendStep ==
    ASSUME PoolInv, NEW p \in Clients, pc[p] \in {"check", "dialed"},
           pc' = [pc EXCEPT ![p] = "busy"], UNCHANGED <<conn, open, closed, adm>>
    PROVE  Contract!Next
<1>1. p \in Procs /\ pc[p] \in HoldPCs /\ pc[p] \in SlotPCs /\ pc \in [Procs -> PCs]
  BY ProcsFacts DEF HoldPCs, SlotPCs, PoolInv, TypeOK
<1>2. conn[p] \in Conns /\ conn[p] \in open /\ lentTo[p] = NoConn
      /\ \A q \in Clients : lentTo[q] # conn[p]
  <2>1. lentTo[p] = NoConn  BY DEF lentTo
  <2>2. conn[p] # NoConn  BY <1>1 DEF PoolInv, TypeOK
  <2>. QED  BY <1>1, <2>1, <2>2, HeldFacts
<1>3. phaseOf # "drained"
  BY DEF phaseOf, PoolInv, CloseReturnsDrained
<1>4. lentTo' = [lentTo EXCEPT ![p] = conn[p]]
  BY <1>1, ProcsFacts DEF lentTo
<1>5. Cardinality(Contract!Lent) < Limit
  <2>. DEFINE L == Contract!Lent
  <2>1. L \subseteq SlotHolders \ {p}
    <3>1. ASSUME NEW q \in L PROVE q \in SlotHolders \ {p}
      <4>1. q \in Clients /\ lentTo[q] # NoConn  BY <3>1, LentSet
      <4>2. pc[q] = "busy"  BY <4>1 DEF lentTo
      <4>. QED  BY <4>1, <4>2, ProcsFacts DEF SlotHolders, SlotPCs
    <3>. QED  BY <3>1
  <2>2. SlotHolders \in SUBSET Procs /\ p \in SlotHolders
    BY <1>1 DEF SlotHolders
  <2>3. /\ SlotHolders \ {p} \in SUBSET Procs
        /\ Cardinality(SlotHolders \ {p}) = Cardinality(SlotHolders) - 1
        /\ IsFiniteSet(SlotHolders \ {p}) /\ Cardinality(SlotHolders) \in Nat
    BY <2>2, ProcSets
  <2>4. Cardinality(L) <= Cardinality(SlotHolders \ {p})
    BY <2>1, <2>3, FS_Subset
  <2>5. Cardinality(SlotHolders) <= Limit
    BY DEF PoolInv, SlotsMatchHolders, TypeOK
  <2>6. Cardinality(L) \in Nat
    BY <2>1, <2>3, FS_Subset, FS_CardinalityType
  <2>. QED  BY <2>3, <2>4, <2>5, <2>6, PoolAssumption
<1>6. phaseOf' = phaseOf  BY PhaseQuiet
<1>7. Contract!Lend(p, conn[p])
  BY <1>2, <1>3, <1>4, <1>5, <1>6 DEF Contract!Lend, Contract!Cardinality, Cardinality
<1>. QED  BY <1>2, <1>7 DEF Contract!Next

\* Release and Discard take the connection from the client: GiveBack.
LEMMA GiveBackStep ==
    ASSUME PoolInv, NEW p \in Clients, pc[p] = "busy", pc'[p] # "busy",
           \A q \in Clients : q # p => pc'[q] = pc[q] /\ conn'[q] = conn[q],
           open' \in {open, open \ {conn[p]}}, UNCHANGED <<closed, adm>>
    PROVE  Contract!Next
<1>1. p \in Procs  BY ProcsFacts
<1>2. lentTo[p] = conn[p] /\ conn[p] # NoConn
  BY <1>1 DEF lentTo, PoolInv, TypeOK, HoldPCs
<1>3. lentTo' = [lentTo EXCEPT ![p] = NoConn]
  BY DEF lentTo
<1>4. phaseOf' = phaseOf  BY PhaseQuiet
<1>5. Contract!GiveBack(p)
  BY <1>2, <1>3, <1>4 DEF Contract!GiveBack
<1>. QED  BY <1>5 DEF Contract!Next

\* A connection that is lent to no client is closed: Closed.
LEMMA ClosedStep ==
    ASSUME NEW c \in Conns, c \in open, \A q \in Clients : lentTo[q] # c,
           open' = open \ {c}, lentTo' = lentTo, phaseOf' = phaseOf
    PROVE  Contract!Next
BY DEF Contract!Next, Contract!Closed

\* A connection is dialed: Dialed.
LEMMA DialedStep ==
    ASSUME NEW c \in Conns \ open, open' = open \cup {c},
           lentTo' = lentTo, phaseOf' = phaseOf
    PROVE  Contract!Next
BY DEF Contract!Next, Contract!Dialed

\* A goroutine that holds a connection it has not lent (p past Acquire's pop,
\* inside Release, or warming up) closes it.
LEMMA HeldClosed ==
    ASSUME PoolInv, NEW p \in Procs, pc[p] \in HoldPCs \ {"busy"},
           open' = open \ {conn[p]}, lentTo' = lentTo, phaseOf' = phaseOf
    PROVE  Contract!Next
<1>1. conn[p] \in Conns /\ conn[p] \in open /\ \A q \in Clients : lentTo[q] = conn[p] => q = p
  BY HeldFacts
<1>2. conn[p] # NoConn  BY DEF PoolInv, TypeOK
<1>3. \A q \in Clients : lentTo[q] # conn[p]
  BY <1>1, <1>2 DEF lentTo
<1>. QED  BY <1>1, <1>3, ClosedStep

\* Every step of a client is a step of the contract or invisible to it.
LEMMA ClientRefines ==
    ASSUME PoolInv, NEW p \in Clients, ClientStep(p)
    PROVE  [Contract!Next]_(Contract!contractVars)
<1>0. /\ p \in Procs /\ pc \in [Procs -> PCs] /\ conn \in [Procs -> Conns \cup {NoConn}]
      /\ Clients \subseteq Procs
  BY ProcsFacts DEF PoolInv, TypeOK
<1>1. phaseOf' = phaseOf /\ UNCHANGED <<closed, adm>>
  BY ProcsAdmin, PhaseQuiet
<1>. USE DEF Goto, Hold, SameConns
<1>2. CASE \/ Acquire(p) \/ TakeSlot(p) \/ GiveUp(p) \/ RecheckClosed(p) \/ PopMiss(p)
           \/ PopHit(p) \/ DialFails(p) \/ FreeSlot(p)
  <2>1. /\ open' = open
        /\ pc[p] # "busy" /\ pc'[p] # "busy"
        /\ \A q \in Clients : q # p => pc'[q] = pc[q] /\ conn'[q] = conn[q]
    BY <1>0, <1>2 DEF Acquire, TakeSlot, GiveUp, RecheckClosed, PopMiss, PopHit, DialFails, FreeSlot
  <2>2. lentTo' = lentTo  BY <2>1, LoansQuiet
  <2>. QED  BY <1>1, <2>1, <2>2 DEF Contract!contractVars
<1>3. CASE CheckOK(p) \/ ReturnDialed(p)
  <2>1. /\ pc[p] \in {"check", "dialed"} /\ pc' = [pc EXCEPT ![p] = "busy"]
        /\ UNCHANGED <<conn, open, closed, adm>>
    BY <1>1, <1>3 DEF CheckOK, ReturnDialed
  <2>. QED  BY <2>1, LendStep
<1>4. CASE CheckFails(p)
  <2>1. /\ pc[p] = "check" /\ open' = open \ {conn[p]} /\ pc'[p] # "busy"
        /\ \A q \in Clients : q # p => pc'[q] = pc[q] /\ conn'[q] = conn[q]
    BY <1>0, <1>4 DEF CheckFails, retire
  <2>2. lentTo' = lentTo  BY <2>1, LoansQuiet
  <2>. QED  BY <1>0, <1>1, <2>1, <2>2, HeldClosed DEF HoldPCs
<1>5. CASE DialOK(p)
  <2>1. PICK c \in Conns \ open : open' = open \cup {c} /\ conn' = [conn EXCEPT ![p] = c]
    BY <1>5 DEF DialOK
  <2>2. /\ pc[p] # "busy" /\ pc'[p] # "busy"
        /\ \A q \in Clients : q # p => pc'[q] = pc[q] /\ conn'[q] = conn[q]
    BY <1>0, <1>5, <2>1 DEF DialOK
  <2>3. lentTo' = lentTo  BY <2>2, LoansQuiet
  <2>. QED  BY <1>1, <2>1, <2>3, DialedStep
<1>6. CASE ReleaseStart(p) \/ Discard(p)
  <2>1. /\ pc[p] = "busy" /\ pc'[p] # "busy" /\ open' \in {open, open \ {conn[p]}}
        /\ \A q \in Clients : q # p => pc'[q] = pc[q] /\ conn'[q] = conn[q]
    BY <1>0, <1>6 DEF ReleaseStart, Discard, rejectForeign, CloseHeld, retire
  <2>. QED  BY <1>1, <2>1, GiveBackStep
<1>7. CASE ReleaseGen(p) \/ ReleasePush(p)
  <2>1. /\ pc[p] \in {"rel", "relgen"} /\ pc'[p] # "busy" /\ open' \in {open, open \ {conn[p]}}
        /\ \A q \in Clients : q # p => pc'[q] = pc[q] /\ conn'[q] = conn[q]
    BY <1>0, <1>7 DEF ReleaseGen, ReleasePush, Push, CloseHeld, retire
  <2>2. lentTo' = lentTo  BY <2>1, LoansQuiet
  <2>3. CASE open' = open
    BY <1>1, <2>2, <2>3 DEF Contract!contractVars
  <2>4. CASE open' = open \ {conn[p]}
    BY <1>0, <1>1, <2>1, <2>2, <2>4, HeldClosed DEF HoldPCs
  <2>. QED  BY <2>1, <2>3, <2>4
<1>. QED  BY <1>2, <1>3, <1>4, <1>5, <1>6, <1>7 DEF ClientStep

\* The warm-up goroutine dials, closes what a closed pool cannot take, and
\* touches no client.
LEMMA WarmRefines ==
    ASSUME PoolInv, WarmStep
    PROVE  [Contract!Next]_(Contract!contractVars)
<1>0. /\ Warmer \in Procs /\ Warmer \notin Clients /\ pc \in [Procs -> PCs]
      /\ conn \in [Procs -> Conns \cup {NoConn}] /\ Clients \subseteq Procs
  BY ProcsFacts, PoolAssumption DEF PoolInv, TypeOK
<1>1. phaseOf' = phaseOf  BY ProcsAdmin, PhaseQuiet
<1>. USE DEF Goto, Hold, SameConns
<1>2. \A q \in Clients : pc'[q] = pc[q] /\ conn'[q] = conn[q]
  BY <1>0 DEF WarmStep, WarmNext, WarmSlot, WarmGiveUp, WarmDialFails, WarmDialOK, WarmPush, WarmFree
<1>3. lentTo' = lentTo  BY <1>2, LoansQuiet
<1>4. CASE WarmNext \/ WarmSlot \/ WarmGiveUp \/ WarmDialFails \/ WarmFree
  <2>1. open' = open
    BY <1>4 DEF WarmNext, WarmSlot, WarmGiveUp, WarmDialFails, WarmFree
  <2>. QED  BY <1>1, <1>3, <2>1 DEF Contract!contractVars
<1>5. CASE WarmDialOK
  <2>1. PICK c \in Conns \ open : open' = open \cup {c}
    BY <1>5 DEF WarmDialOK
  <2>. QED  BY <1>1, <1>3, <2>1, DialedStep
<1>6. CASE WarmPush
  <2>1. pc[Warmer] = "wpush" /\ open' \in {open, open \ {conn[Warmer]}}
    BY <1>6 DEF WarmPush, Tag
  <2>2. CASE open' = open
    BY <1>1, <1>3, <2>2 DEF Contract!contractVars
  <2>3. CASE open' = open \ {conn[Warmer]}
    BY <1>0, <1>1, <1>3, <2>1, <2>3, HeldClosed DEF HoldPCs
  <2>. QED  BY <2>1, <2>2, <2>3
<1>. QED  BY <1>4, <1>5, <1>6 DEF WarmStep

\* The reaper, Reconnect and Close close only what lies on the stack, and
\* Close moves the phase: once when called, once when it returns nil.
LEMMA DrainRefines ==
    ASSUME PoolInv, DrainStep
    PROVE  [Contract!Next]_(Contract!contractVars)
<1>0. /\ adm \in [Drainers -> AdmPCs] /\ doomed \in [Drainers -> SUBSET Conns]
      /\ Closers \subseteq Drainers /\ Reaper \notin Closers /\ Reaper \in Drainers
      /\ Reconnectors \subseteq Drainers /\ \A r \in Reconnectors : r \notin Closers
      /\ Clients \subseteq Procs
  BY ProcsFacts DEF PoolInv, TypeOK
<1>1. lentTo' = lentTo /\ UNCHANGED <<sem, pc, conn>>
  BY DrainProcs, LoansQuiet
<1>. USE DEF AdmGoto, SameConns
<1>2. ASSUME NEW d \in Drainers, Retire(d)
      PROVE  [Contract!Next]_(Contract!contractVars)
  <2>1. PICK c \in doomed[d] : open' = open \ {c}
    BY <1>2 DEF Retire, retire
  <2>2. c \in Conns /\ c \in open
    BY <1>0, <2>1 DEF PoolInv, NoSocketLeak
  <2>3. \A q \in Clients : lentTo[q] # c
    <3>1. \A q \in Procs : conn[q] # c
      BY <2>1 DEF PoolInv, Exclusive
    <3>2. c # NoConn  BY <2>2, PoolAssumption
    <3>. QED  BY <1>0, <3>1, <3>2 DEF lentTo
  <2>4. phaseOf' = phaseOf
    BY <1>2, PhaseQuiet DEF Retire
  <2>. QED  BY <1>1, <2>1, <2>2, <2>3, <2>4, ClosedStep
<1>3. ASSUME UNCHANGED <<open, closed>>, \A k \in Closers : adm'[k] = "returned" <=> adm[k] = "returned"
      PROVE  [Contract!Next]_(Contract!contractVars)
  <2>1. phaseOf' = phaseOf  BY <1>3 DEF phaseOf
  <2>. QED  BY <1>1, <1>3, <2>1 DEF Contract!contractVars
<1>4. ASSUME Reap \/ (\E d \in Drainers : DrainDone(d)) \/ (\E r \in Reconnectors : ReconnectStep(r))
      PROVE  [Contract!Next]_(Contract!contractVars)
  <2>1. CASE Reap  BY <1>0, <1>3, <2>1 DEF Reap
  <2>2. CASE \E d \in Drainers : DrainDone(d)  BY <1>0, <1>3, <2>2 DEF DrainDone
  <2>3. CASE \E r \in Reconnectors : ReconnectStep(r)
    BY <1>0, <1>3, <2>3 DEF ReconnectStep, ReconnectBump, ReconnectDrain, TakeIdle
  <2>. QED  BY <1>4, <2>1, <2>2, <2>3
<1>5. ASSUME NEW k \in Closers, CloseStep(k)
      PROVE  [Contract!Next]_(Contract!contractVars)
  <2>1. CASE CloseDrain(k) \/ CloseDone(k) \/ CloseTimesOut(k)
    <3>1. UNCHANGED <<open, closed>>
      BY <2>1 DEF CloseDrain, CloseDone, CloseTimesOut, TakeIdle
    <3>2. adm[k] # "returned" /\ \E l \in {"drained", "polling", "timedout"} : adm' = [adm EXCEPT ![k] = l]
      BY <2>1 DEF CloseDrain, CloseDone, CloseTimesOut, TakeIdle
    <3>. QED  BY <1>0, <1>3, <3>1, <3>2
  <2>2. CASE CloseCAS(k)
    <3>1. /\ adm[k] = "ready" /\ closed' = TRUE /\ open' = open
          /\ \E l \in {"noop", "closing"} : adm' = [adm EXCEPT ![k] = l]
      BY <2>2 DEF CloseCAS
    <3>2. \A j \in Closers : adm'[j] = "returned" <=> adm[j] = "returned"
      BY <1>0, <3>1
    <3>3. CASE closed
      BY <1>3, <3>1, <3>2, <3>3 DEF PoolInv, TypeOK
    <3>4. CASE ~closed
      <4>1. \A j \in Closers : adm[j] # "returned"
        BY <3>4 DEF PoolInv, DrainersInStep
      <4>2. phaseOf = "open" /\ phaseOf' = "closed"
        BY <3>1, <3>2, <3>4, <4>1 DEF phaseOf
      <4>. QED  BY <1>1, <3>1, <4>2 DEF Contract!Next, Contract!CloseCalled
    <3>. QED  BY <3>3, <3>4
  <2>3. CASE CloseReturns(k)
    <3>1. /\ adm[k] = "polling" /\ sem = 0 /\ UNCHANGED <<open, closed>>
          /\ adm' = [adm EXCEPT ![k] = "returned"] /\ closed
      BY <2>3 DEF CloseReturns, PoolInv, DrainersInStep
    <3>2. phaseOf' = "drained"
      BY <1>0, <3>1 DEF phaseOf
    <3>3. CASE phaseOf = "drained"
      BY <1>1, <3>1, <3>2, <3>3 DEF Contract!contractVars
    <3>4. CASE phaseOf # "drained"
      <4>1. phaseOf = "closed"  BY <3>1, <3>4 DEF phaseOf
      <4>2. Contract!Lent = {}
        <5>1. SlotHolders \in SUBSET Procs /\ Cardinality(SlotHolders) = 0
          BY <3>1 DEF SlotHolders, PoolInv, SlotsMatchHolders
        <5>2. SlotHolders = {}  BY <5>1, ProcSets, FS_EmptySet
        <5>3. \A q \in Clients : pc[q] # "busy"
          BY <1>0, <5>2 DEF SlotHolders, SlotPCs
        <5>. QED  BY <5>3, LentSet DEF lentTo
      <4>. QED  BY <1>1, <3>1, <3>2, <4>1, <4>2 DEF Contract!Next, Contract!CloseReturned
    <3>. QED  BY <3>3, <3>4
  <2>. QED  BY <1>5, <2>1, <2>2, <2>3 DEF CloseStep
<1>. QED  BY <1>2, <1>4, <1>5 DEF DrainStep

\* The initial state of the pool is one of the contract.
LEMMA InitRefines == Init => Contract!Init
<1>1. SUFFICES ASSUME Init PROVE Contract!Init
  OBVIOUS
<1>2. \A p \in Clients : pc[p] # "busy"
  BY <1>1, ProcsFacts DEF Init
<1>3. lentTo = [p \in Clients |-> NoConn]  BY <1>2 DEF lentTo
<1>4. phaseOf = "open"
  BY <1>1, ProcsFacts DEF Init, phaseOf
<1>. QED  BY <1>1, <1>3, <1>4 DEF Init, Contract!Init

\* The pool implements its contract: whatever Acquire, Release, Discard,
\* warmUp, the reaper, Reconnect and Close do together, callers see single
\* loans within the limit, nothing closed in their hands, and nothing lent
\* after Close has returned nil.
THEOREM PoolKeepsContract == Spec => ImplementsContract
<1>1. Init => Contract!Init  BY InitRefines
<1>2. PoolInv /\ [Next]_vars => [Contract!Next]_(Contract!contractVars)
  <2>1. SUFFICES ASSUME PoolInv, [Next]_vars PROVE [Contract!Next]_(Contract!contractVars)
    OBVIOUS
  <2>2. CASE UNCHANGED vars
    BY <2>2 DEF vars, Contract!contractVars, lentTo, phaseOf
  <2>3. CASE Next
    <3>1. (\E p \in Clients : ClientStep(p)) \/ WarmStep \/ DrainStep
      BY <2>3 DEF Next, DrainStep
    <3>. QED  BY <2>1, <3>1, ClientRefines, WarmRefines, DrainRefines
  <2>. QED  BY <2>1, <2>2, <2>3
<1>. QED  BY <1>1, <1>2, PoolInvariant, PTL DEF Spec, ImplementsContract, Contract!Spec

=============================================================================
