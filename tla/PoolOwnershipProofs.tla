------------------------- MODULE PoolOwnershipProofs -------------------------
(***************************************************************************)
(* Type correctness and ownership in Pool, for every number of clients,    *)
(* connections and drainers, every limit and every warm-up target.         *)
(***************************************************************************)
EXTENDS Pool, FiniteSetTheorems, SequenceTheorems, TLAPS

(* Facts about the idle stack as a sequence.                               *)

\* The empty stack.
LEMMA RangeEmpty == Range(<< >>) = {} /\ IsInjective(<< >>)
<1>1. DOMAIN << >> = {}  OBVIOUS
<1>. QED  BY <1>1 DEF Range, IsInjective

\* Pushing a connection adds exactly that connection.
LEMMA RangeAppend ==
    ASSUME NEW s \in Seq(Conns), NEW c \in Conns
    PROVE  /\ Append(s, c) \in Seq(Conns)
           /\ Range(Append(s, c)) = Range(s) \cup {c}
           /\ IsInjective(s) /\ c \notin Range(s) => IsInjective(Append(s, c))
<1>1. /\ Append(s, c) \in Seq(Conns)
      /\ Len(Append(s, c)) = Len(s) + 1
      /\ \A i \in 1..Len(s) : Append(s, c)[i] = s[i]
      /\ Append(s, c)[Len(s) + 1] = c
  BY AppendProperties
<1>2. /\ Len(s) \in Nat /\ DOMAIN s = 1..Len(s)
      /\ DOMAIN Append(s, c) = 1..(Len(s) + 1)
  BY <1>1, LenProperties
<1>3. Range(Append(s, c)) = Range(s) \cup {c}
  BY <1>1, <1>2 DEF Range
<1>4. IsInjective(s) /\ c \notin Range(s) => IsInjective(Append(s, c))
  BY <1>1, <1>2 DEF Range, IsInjective
<1>. QED  BY <1>1, <1>3, <1>4

\* Popping the top of a stack without duplicates removes exactly the top.
LEMMA RangePop ==
    ASSUME NEW s \in Seq(Conns), s # << >>, IsInjective(s)
    PROVE  /\ s[Len(s)] \in Range(s) /\ s[Len(s)] \in Conns
           /\ SubSeq(s, 1, Len(s) - 1) \in Seq(Conns)
           /\ Range(SubSeq(s, 1, Len(s) - 1)) = Range(s) \ {s[Len(s)]}
           /\ IsInjective(SubSeq(s, 1, Len(s) - 1))
<1>. DEFINE t == SubSeq(s, 1, Len(s) - 1)
<1>1. Len(s) \in Nat \ {0} /\ DOMAIN s = 1..Len(s) /\ \A i \in 1..Len(s) : s[i] \in Conns
  BY EmptySeq, LenProperties, ElementOfSeq
<1>2. /\ t \in Seq(Conns)
      /\ Len(t) = Len(s) - 1
      /\ \A i \in 1..(Len(s) - 1) : t[i] = s[i]
  BY <1>1, SubSeqProperties
<1>3. DOMAIN t = 1..(Len(s) - 1)
  BY <1>2, LenProperties
<1>. HIDE DEF t
<1>4. Range(t) = Range(s) \ {s[Len(s)]}
  BY <1>1, <1>2, <1>3 DEF Range, IsInjective
<1>5. IsInjective(t)
  BY <1>1, <1>2, <1>3 DEF IsInjective
<1>6. s[Len(s)] \in Range(s) /\ s[Len(s)] \in Conns
  BY <1>1 DEF Range
<1>. QED  BY <1>2, <1>4, <1>5, <1>6 DEF t

\* Reaping removes exactly the expired connections.
LEMMA RangeKept ==
    ASSUME NEW s \in Seq(Conns), NEW gone, NEW t \in Kept(s, gone)
    PROVE  /\ t \in Seq(Conns)
           /\ Range(t) = Range(s) \ gone
           /\ IsInjective(s) => IsInjective(t)
<1>. DEFINE stay == {i \in DOMAIN s : s[i] \notin gone}
            n == Cardinality(stay)
<1>1. Len(s) \in Nat /\ DOMAIN s = 1..Len(s) /\ \A i \in 1..Len(s) : s[i] \in Conns
  BY LenProperties, ElementOfSeq
<1>2. n \in Nat
  <2>1. IsFiniteSet(1..Len(s))  BY <1>1, FS_Interval
  <2>2. IsFiniteSet(stay)  BY <1>1, <2>1, FS_Subset
  <2>. QED  BY <2>2, FS_CardinalityType
<1>3. PICK f \in [1..n -> stay] :
         /\ \A i, j \in 1..n : i < j => f[i] < f[j]
         /\ \A k \in stay : \E i \in 1..n : f[i] = k
         /\ t = [i \in 1..n |-> s[f[i]]]
  BY Zenon DEF Kept
<1>. HIDE DEF n
<1>4. \A i \in 1..n : f[i] \in DOMAIN s /\ s[f[i]] \notin gone
  BY <1>3
<1>5. t \in Seq(Conns)
  <2>1. t \in [1..n -> Conns]
    BY <1>1, <1>3, <1>4
  <2>. QED  BY <1>2, <2>1, SeqDef
<1>6. DOMAIN t = 1..n /\ \A i \in 1..n : t[i] = s[f[i]]
  BY <1>3
<1>7. Range(t) = Range(s) \ gone
  <2>1. ASSUME NEW x \in Range(t) PROVE x \in Range(s) \ gone
    BY <2>1, <1>4, <1>6 DEF Range
  <2>2. ASSUME NEW x \in Range(s) \ gone PROVE x \in Range(t)
    <3>1. PICK k \in DOMAIN s : s[k] = x  BY <2>2 DEF Range
    <3>2. k \in stay  BY <2>2, <3>1
    <3>3. PICK i \in 1..n : f[i] = k  BY <1>3, <3>2
    <3>. QED  BY <1>6, <3>1, <3>3 DEF Range
  <2>. QED  BY <2>1, <2>2
<1>8. ASSUME IsInjective(s) PROVE IsInjective(t)
  <2>1. SUFFICES ASSUME NEW i \in 1..n, NEW j \in 1..n, t[i] = t[j]
                 PROVE  i = j
    BY <1>6 DEF IsInjective
  <2>2. f[i] = f[j]  BY <1>4, <1>6, <1>8, <2>1 DEF IsInjective
  <2>3. f[i] \in Nat /\ f[j] \in Nat  BY <1>1, <1>4
  <2>. QED  BY <1>2, <1>3, <2>2, <2>3
<1>. QED  BY <1>5, <1>7, <1>8

----------------------------------------------------------------------------
(* The type invariant.                                                     *)

\* Abbreviation of the pieces every step of a client or of warmUp is made of.
LEMMA ProcsFacts ==
    /\ Clients \subseteq Procs /\ Warmer \in Procs
    /\ IsFiniteSet(Procs)
    /\ Reaper \in Drainers /\ Reconnectors \subseteq Drainers /\ Closers \subseteq Drainers
    /\ Reaper \notin Closers /\ \A r \in Reconnectors : r \notin Closers
    /\ WarmTarget \in 0..Limit
    /\ Limit \in Nat \ {0} /\ MaxGen \in Nat /\ NoConn \notin Conns
<1>1. IsFiniteSet(Procs)
  BY PoolAssumption, FS_AddElement DEF Procs
<1>. QED  BY <1>1, PoolAssumption DEF Procs, Drainers, WarmTarget

LEMMA InitType == Init => TypeOK
<1>1. SUFFICES ASSUME Init PROVE TypeOK
  OBVIOUS
<1>2. \A p \in Clients : p \in Procs /\ p # Warmer
  BY PoolAssumption DEF Procs
<1>3. idle \in Seq(Conns)
  BY <1>1, EmptySeq DEF Init
<1>4. /\ pc \in [Procs -> PCs]
      /\ \A p \in Clients : pc[p] = "out"
      /\ pc[Warmer] = "wnext"
      /\ \A p \in Procs : pc[p] \in {"out", "wnext"} /\ conn[p] = NoConn
      /\ conn \in [Procs -> Conns \cup {NoConn}]
  BY <1>1, <1>2, ProcsFacts DEF Init, PCs
<1>5. /\ adm \in [Drainers -> AdmPCs]
      /\ \A d \in Drainers : adm[d] = "ready"
      /\ doomed \in [Drainers -> SUBSET Conns]
  BY <1>1 DEF Init, AdmPCs, DrainPCs
<1>6. /\ sem \in 0..Limit /\ toWarm \in 0..WarmTarget
      /\ gen \in [Conns -> 0..MaxGen] /\ reconnectGen \in 0..MaxGen
      /\ tagged \subseteq Conns /\ open \subseteq Conns
  BY <1>1, ProcsFacts DEF Init
<1>9. closed \in BOOLEAN /\ done \in BOOLEAN
  BY Zenon, <1>1 DEF Init
<1>7. /\ \A d \in Drainers \ Closers : adm[d] \in DrainPCs
      /\ \A k \in Closers : adm[k] \in ClosePCs
  BY <1>5, ProcsFacts DEF DrainPCs, ClosePCs
<1>8. /\ \A p \in Clients : pc[p] \in ClientPCs
      /\ pc[Warmer] \in WarmPCs
      /\ \A p \in Procs : conn[p] # NoConn <=> pc[p] \in HoldPCs
      /\ pc[Warmer] \in {"wsem", "wdial"} => toWarm > 0
  BY <1>4 DEF ClientPCs, WarmPCs, HoldPCs
<1>. QED
  BY <1>3, <1>4, <1>5, <1>6, <1>7, <1>8, <1>9 DEF TypeOK

\* A step of a client goroutine keeps the types.
LEMMA ClientType ==
    ASSUME TypeOK, IsInjective(idle), NEW p \in Clients, ClientStep(p)
    PROVE  TypeOK'
<1>. p \in Procs /\ p # Warmer
  BY ProcsFacts, PoolAssumption
<1>. USE ProcsFacts DEF TypeOK, Goto, Hold, SameConns, SameAdmin, retire,
         releaseSlot, Tag, CloseHeld, rejectForeign, Push, PCs, SlotPCs, ClientPCs, WarmPCs,
         HoldPCs
<1>1. CASE Acquire(p)
  BY <1>1 DEF Acquire
<1>2. CASE TakeSlot(p)
  BY <1>2 DEF TakeSlot
<1>3. CASE GiveUp(p)
  BY <1>3 DEF GiveUp
<1>4. CASE RecheckClosed(p)
  BY <1>4 DEF RecheckClosed
<1>5. CASE PopMiss(p)
  BY <1>5 DEF PopMiss
<1>6. CASE PopHit(p)
  BY <1>6, RangePop DEF PopHit
<1>7. CASE CheckOK(p)
  BY <1>7 DEF CheckOK
<1>8. CASE CheckFails(p)
  BY <1>8 DEF CheckFails
<1>9. CASE DialFails(p)
  BY <1>9 DEF DialFails
<1>10. CASE DialOK(p)
  BY <1>10 DEF DialOK
<1>11. CASE ReturnDialed(p)
  BY <1>11 DEF ReturnDialed
<1>12. CASE ReleaseStart(p)
  <2>1. CASE rejectForeign(p)  BY <1>12, <2>1 DEF ReleaseStart
  <2>2. CASE CloseHeld(p)  BY <1>12, <2>2 DEF ReleaseStart
  <2>3. CASE Goto(p, "rel") /\ UNCHANGED conn /\ SameConns
    BY <1>12, <2>3 DEF ReleaseStart
  <2>. QED  BY <1>12, <2>1, <2>2, <2>3 DEF ReleaseStart
<1>13. CASE ReleaseGen(p)
  <2>1. CASE CloseHeld(p)  BY <1>13, <2>1 DEF ReleaseGen
  <2>2. CASE Goto(p, "relgen") /\ UNCHANGED conn /\ SameConns
    BY <1>13, <2>2 DEF ReleaseGen
  <2>. QED  BY <1>13, <2>1, <2>2, Zenon DEF ReleaseGen
<1>14. CASE ReleasePush(p)
  <2>1. conn[p] \in Conns  BY <1>14 DEF ReleasePush, Push
  <2>2. Append(idle, conn[p]) \in Seq(Conns)  BY <2>1, RangeAppend
  <2>3. CASE CloseHeld(p)  BY <1>14, <2>3 DEF ReleasePush
  <2>4. CASE Hold(p, NoConn) /\ Goto(p, "out") /\ SameConns
    BY <1>14, <2>4 DEF ReleasePush
  <2>5. CASE Push(p)
    <3>1. idle' \in Seq(Conns)  BY <2>2, <2>5
    <3>. QED  BY <1>14, <2>5, <3>1 DEF ReleasePush
  <2>. QED  BY <1>14, <2>3, <2>4, <2>5 DEF ReleasePush
<1>15. CASE Discard(p)
  <2>1. CASE rejectForeign(p)  BY <1>15, <2>1 DEF Discard
  <2>2. CASE CloseHeld(p)  BY <1>15, <2>2 DEF Discard
  <2>. QED  BY <1>15, <2>1, <2>2 DEF Discard
<1>16. CASE FreeSlot(p)
  BY <1>16 DEF FreeSlot
<1>. QED
  BY Zenon, <1>1, <1>2, <1>3, <1>4, <1>5, <1>6, <1>7, <1>8, <1>9, <1>10, <1>11, <1>12, <1>13,
     <1>14, <1>15, <1>16 DEF ClientStep

\* A step of warmUp keeps the types.
LEMMA WarmType ==
    ASSUME TypeOK, WarmStep
    PROVE  TypeOK'
<1>. Warmer \in Procs /\ Warmer \notin Clients
  BY ProcsFacts, PoolAssumption
<1>. USE ProcsFacts DEF TypeOK, Goto, Hold, SameConns, SameAdmin,
         releaseSlot, Tag, PCs, SlotPCs, ClientPCs, WarmPCs, HoldPCs
<1>1. CASE WarmNext
  <2>1. CASE toWarm' = 0 /\ Goto(Warmer, "wnext")
    BY <1>1, <2>1 DEF WarmNext
  <2>2. CASE Goto(Warmer, "wsem") /\ UNCHANGED toWarm
    BY <1>1, <2>2 DEF WarmNext
  <2>. QED  BY <1>1, <2>1, <2>2 DEF WarmNext
<1>2. CASE WarmSlot
  BY <1>2 DEF WarmSlot
<1>3. CASE WarmGiveUp
  BY <1>3 DEF WarmGiveUp
<1>4. CASE WarmDialFails
  BY <1>4 DEF WarmDialFails
<1>5. CASE WarmDialOK
  BY <1>5 DEF WarmDialOK
<1>6. CASE WarmPush
  <2>1. conn[Warmer] \in Conns  BY <1>6 DEF WarmPush
  <2>2. Append(idle, conn[Warmer]) \in Seq(Conns)  BY <2>1, RangeAppend
  <2>3. CASE closed  BY <1>6, <2>1, <2>3 DEF WarmPush
  <2>4. CASE ~closed
    <3>1. idle' \in Seq(Conns)  BY Zenon, <1>6, <2>2, <2>4 DEF WarmPush
    <3>2. /\ tagged' = tagged \cup {conn[Warmer]}
          /\ gen' = [gen EXCEPT ![conn[Warmer]] = reconnectGen]
      BY <1>6, <2>4 DEF WarmPush
    <3>3. gen' \in [Conns -> 0..MaxGen] /\ tagged' \subseteq Conns
      BY <2>1, <3>2
    <3>. QED  BY <1>6, <2>4, <3>1, <3>3 DEF WarmPush
  <2>. QED  BY <2>3, <2>4
<1>7. CASE WarmFree
  BY <1>7 DEF WarmFree
<1>. QED
  BY <1>1, <1>2, <1>3, <1>4, <1>5, <1>6, <1>7 DEF WarmStep

\* A step of the reaper, of Reconnect or of Close keeps the types.
DrainStep ==
    \/ Reap
    \/ \E d \in Drainers : Retire(d) \/ DrainDone(d)
    \/ \E r \in Reconnectors : ReconnectStep(r)
    \/ \E k \in Closers : CloseStep(k)

LEMMA DrainType ==
    ASSUME TypeOK, DrainStep
    PROVE  TypeOK'
<1>. USE ProcsFacts DEF TypeOK, SameProcs, SameConns, AdmGoto, TakeIdle, retire, AdmPCs,
         DrainPCs, ClosePCs
<1>0. Range(idle) \subseteq Conns
  BY LenProperties, ElementOfSeq DEF Range
<1>1. CASE Reap
  BY <1>0, <1>1, RangeKept DEF Reap
<1>2. ASSUME NEW d \in Drainers, Retire(d) PROVE TypeOK'
  BY <1>2 DEF Retire
<1>3. ASSUME NEW d \in Drainers, DrainDone(d) PROVE TypeOK'
  BY <1>3 DEF DrainDone
<1>4. ASSUME NEW r \in Reconnectors, ReconnectBump(r) PROVE TypeOK'
  BY <1>4 DEF ReconnectBump
<1>5. ASSUME NEW r \in Reconnectors, ReconnectDrain(r) PROVE TypeOK'
  BY <1>0, <1>5, EmptySeq DEF ReconnectDrain
<1>6. ASSUME NEW k \in Closers, CloseCAS(k) PROVE TypeOK'
  BY <1>6 DEF CloseCAS
<1>7. ASSUME NEW k \in Closers, CloseDrain(k) PROVE TypeOK'
  BY <1>0, <1>7, EmptySeq DEF CloseDrain
<1>8. ASSUME NEW k \in Closers, CloseDone(k) PROVE TypeOK'
  BY <1>8 DEF CloseDone
<1>9. ASSUME NEW k \in Closers, CloseReturns(k) PROVE TypeOK'
  BY <1>9 DEF CloseReturns
<1>10. ASSUME NEW k \in Closers, CloseTimesOut(k) PROVE TypeOK'
  BY <1>10 DEF CloseTimesOut
<1>. QED
  BY Zenon, <1>1, <1>2, <1>3, <1>4, <1>5, <1>6, <1>7, <1>8, <1>9, <1>10
     DEF DrainStep, ReconnectStep, CloseStep

----------------------------------------------------------------------------
(* Ownership: where a connection can be, and how one moves.  Each lemma is  *)
(* a kind of move; the actions are instances of them.                       *)

FreshPCs == {"dialed", "wpush"}

Ownership == Exclusive /\ NoSocketLeak /\ MetaTracksConns

\* Nothing moves.
LEMMA OwnQuiet ==
    ASSUME Ownership, UNCHANGED <<idle, tagged, open, conn, doomed>>,
           \A q \in Procs : pc'[q] \in FreshPCs <=> pc[q] \in FreshPCs
    PROVE  Ownership'
<1>1. Exclusive'  BY DEF Ownership, Exclusive
<1>2. NoSocketLeak'  BY DEF Ownership, NoSocketLeak
<1>3. MetaTracksConns'  BY DEF Ownership, MetaTracksConns, FreshPCs
<1>. QED  BY <1>1, <1>2, <1>3 DEF Ownership

\* From the top of the stack into the hands of q.
LEMMA OwnPop ==
    ASSUME TypeOK, Ownership, NEW q \in Procs, idle # << >>, conn[q] = NoConn,
           conn' = [conn EXCEPT ![q] = idle[Len(idle)]],
           idle' = SubSeq(idle, 1, Len(idle) - 1),
           UNCHANGED <<tagged, open, doomed>>,
           \A r \in Procs : pc[r] \notin FreshPCs => pc'[r] \notin FreshPCs,
           \A r \in Procs : r # q => pc'[r] = pc[r],
           pc[q] \notin FreshPCs
    PROVE  Ownership'
<1>. DEFINE c == idle[Len(idle)]
<1>1. /\ c \in Range(idle) /\ c \in Conns
      /\ Range(idle') = Range(idle) \ {c}
      /\ IsInjective(idle')
  BY RangePop DEF TypeOK, Ownership, Exclusive
<1>. HIDE DEF c
<1>2. conn' = [conn EXCEPT ![q] = c] /\ c # NoConn
  BY <1>1, ProcsFacts DEF c
<1>3. conn \in [Procs -> Conns \cup {NoConn}]  BY DEF TypeOK
<1>4. Exclusive'
  <2>1. /\ \A r \in Procs : conn[r] \notin Range(idle)
        /\ \A d \in Drainers : doomed[d] \cap Range(idle) = {}
        /\ \A r, t \in Procs : conn[r] # NoConn /\ conn[r] = conn[t] => r = t
        /\ \A d, e \in Drainers : d # e => doomed[d] \cap doomed[e] = {}
        /\ \A r \in Procs, d \in Drainers : conn[r] \notin doomed[d]
    BY Zenon DEF Ownership, Exclusive
  <2>2. conn'[q] = c /\ \A r \in Procs : r # q => conn'[r] = conn[r]
    BY <1>2, <1>3
  <2>3. \A r, t \in Procs : conn'[r] # NoConn /\ conn'[r] = conn'[t] => r = t
    BY <1>1, <2>1, <2>2
  <2>4. \A r \in Procs : conn'[r] \notin Range(idle')
    BY <1>1, <2>1, <2>2
  <2>5. \A r \in Procs, d \in Drainers : conn'[r] \notin doomed'[d]
    BY <1>1, <2>1, <2>2
  <2>6. \A d \in Drainers : doomed'[d] \cap Range(idle') = {}
    BY <1>1, <2>1
  <2>. QED  BY Zenon, <1>1, <2>1, <2>3, <2>4, <2>5, <2>6 DEF Exclusive
<1>5. NoSocketLeak'
  BY <1>1, <1>2, <1>3, ProcsFacts DEF Ownership, NoSocketLeak
<1>6. c \in tagged
  <2>1. c \in open /\ \A r \in Procs : conn[r] # c
    BY <1>1 DEF Ownership, Exclusive, NoSocketLeak
  <2>. QED  BY <1>1, <2>1 DEF Ownership, MetaTracksConns
<1>7. MetaTracksConns'
  BY <1>1, <1>2, <1>3, <1>6, ProcsFacts DEF Ownership, MetaTracksConns, FreshPCs
<1>. QED  BY <1>4, <1>5, <1>7 DEF Ownership

\* Out of the hands of q and closed, its record (if any) deleted.
LEMMA OwnClose ==
    ASSUME TypeOK, Ownership, NEW q \in Procs, conn[q] \in Conns,
           conn' = [conn EXCEPT ![q] = NoConn],
           tagged' = tagged \ {conn[q]}, open' = open \ {conn[q]},
           UNCHANGED <<idle, doomed>>,
           \A r \in Procs : r # q => pc'[r] = pc[r],
           pc'[q] \notin FreshPCs
    PROVE  Ownership'
<1>1. conn \in [Procs -> Conns \cup {NoConn}]  BY DEF TypeOK
<1>2. Exclusive'
  BY <1>1, ProcsFacts DEF TypeOK, Ownership, Exclusive, Range
<1>3. NoSocketLeak'
  BY <1>1, ProcsFacts DEF Ownership, NoSocketLeak, Exclusive
<1>4. MetaTracksConns'
  BY <1>1, ProcsFacts DEF Ownership, MetaTracksConns, Exclusive, FreshPCs
<1>. QED  BY <1>2, <1>3, <1>4 DEF Ownership

\* Out of the hands of q onto the stack, with a record.
LEMMA OwnPush ==
    ASSUME TypeOK, Ownership, NEW q \in Procs, conn[q] \in Conns,
           conn' = [conn EXCEPT ![q] = NoConn],
           tagged' = tagged \cup {conn[q]}, idle' = Append(idle, conn[q]),
           UNCHANGED <<open, doomed>>,
           \A r \in Procs : r # q => pc'[r] = pc[r],
           pc'[q] \notin FreshPCs
    PROVE  Ownership'
<1>1. conn \in [Procs -> Conns \cup {NoConn}]  BY DEF TypeOK
<1>2. /\ Range(idle') = Range(idle) \cup {conn[q]}
      /\ IsInjective(idle')
  BY RangeAppend DEF TypeOK, Ownership, Exclusive
<1>3. NoConn \notin Range(idle)
  <2>1. idle \in Seq(Conns)  BY DEF TypeOK
  <2>2. \A i \in 1..Len(idle) : idle[i] \in Conns  BY <2>1, ElementOfSeq
  <2>3. DOMAIN idle = 1..Len(idle)  BY <2>1, LenProperties
  <2>. QED  BY <2>2, <2>3, ProcsFacts DEF Range
<1>4. \A d \in Drainers : NoConn \notin doomed[d]
  BY ProcsFacts DEF TypeOK
<1>5. Exclusive'
  BY <1>1, <1>2, <1>3, <1>4, ProcsFacts DEF Ownership, Exclusive
<1>6. NoSocketLeak'
  BY <1>1, <1>2, ProcsFacts DEF Ownership, NoSocketLeak
<1>7. MetaTracksConns'
  <2>1. conn[q] \in open  BY DEF Ownership, NoSocketLeak
  <2>. QED
    BY <1>1, <2>1, ProcsFacts DEF Ownership, MetaTracksConns, Exclusive, FreshPCs
<1>. QED  BY <1>5, <1>6, <1>7 DEF Ownership

\* A new connection in the hands of q, not recorded yet.
LEMMA OwnDial ==
    ASSUME TypeOK, Ownership, NEW q \in Procs, conn[q] = NoConn,
           NEW c \in Conns \ open,
           conn' = [conn EXCEPT ![q] = c], open' = open \cup {c},
           UNCHANGED <<idle, tagged, doomed>>,
           \A r \in Procs : r # q => pc'[r] = pc[r],
           pc'[q] \in FreshPCs
    PROVE  Ownership'
<1>1. conn \in [Procs -> Conns \cup {NoConn}]  BY DEF TypeOK
<1>2. Exclusive'
  BY <1>1, ProcsFacts DEF Ownership, Exclusive, NoSocketLeak
<1>3. NoSocketLeak'
  BY <1>1, ProcsFacts DEF Ownership, NoSocketLeak
<1>4. MetaTracksConns'
  BY <1>1, ProcsFacts DEF Ownership, MetaTracksConns, NoSocketLeak, FreshPCs
<1>. QED  BY <1>2, <1>3, <1>4 DEF Ownership

\* The connection in the hands of q is recorded.
LEMMA OwnTag ==
    ASSUME TypeOK, Ownership, NEW q \in Procs, conn[q] \in Conns,
           tagged' = tagged \cup {conn[q]},
           UNCHANGED <<idle, conn, open, doomed>>,
           \A r \in Procs : r # q => pc'[r] = pc[r],
           pc'[q] \notin FreshPCs
    PROVE  Ownership'
<1>1. conn \in [Procs -> Conns \cup {NoConn}]  BY DEF TypeOK
<1>2. Exclusive'  BY DEF Ownership, Exclusive
<1>3. NoSocketLeak'  BY DEF Ownership, NoSocketLeak
<1>4. MetaTracksConns'
  BY <1>1, ProcsFacts DEF Ownership, MetaTracksConns, NoSocketLeak, Exclusive, FreshPCs
<1>. QED  BY <1>2, <1>3, <1>4 DEF Ownership

\* From the stack into the close list of drainer d, whose list was empty.
LEMMA OwnTake ==
    ASSUME TypeOK, Ownership, NEW d \in Drainers, doomed[d] = {},
           NEW S \in SUBSET Range(idle),
           Range(idle') = Range(idle) \ S, IsInjective(idle'),
           doomed' = [doomed EXCEPT ![d] = S],
           UNCHANGED <<tagged, open, conn, pc>>
    PROVE  Ownership'
<1>1. doomed \in [Drainers -> SUBSET Conns]  BY DEF TypeOK
<1>2. Exclusive'
  BY <1>1 DEF Ownership, Exclusive
<1>3. NoSocketLeak'
  BY <1>1 DEF Ownership, NoSocketLeak
<1>4. MetaTracksConns'  BY DEF Ownership, MetaTracksConns
<1>. QED  BY <1>2, <1>3, <1>4 DEF Ownership

\* From the close list of drainer d to closed.
LEMMA OwnRetire ==
    ASSUME TypeOK, Ownership, NEW d \in Drainers, NEW c \in doomed[d],
           doomed' = [doomed EXCEPT ![d] = @ \ {c}],
           tagged' = tagged \ {c}, open' = open \ {c},
           UNCHANGED <<idle, conn, pc>>
    PROVE  Ownership'
<1>1. doomed \in [Drainers -> SUBSET Conns]  BY DEF TypeOK
<1>2. Exclusive'
  BY <1>1 DEF Ownership, Exclusive
<1>3. NoSocketLeak'
  BY <1>1 DEF Ownership, NoSocketLeak, Exclusive
<1>4. MetaTracksConns'
  BY <1>1 DEF Ownership, MetaTracksConns, Exclusive
<1>. QED  BY <1>2, <1>3, <1>4 DEF Ownership

\* In proper use Release and Discard find the record of their connection and
\* do not find the connection on the stack.
LEMMA HeldIsTagged ==
    ASSUME TypeOK, Ownership, NEW p \in Procs, pc[p] \in HoldPCs \ FreshPCs
    PROVE  /\ conn[p] \in Conns /\ conn[p] \in tagged /\ conn[p] \in open
           /\ conn[p] \notin Range(idle)
<1>1. conn[p] \in Conns /\ conn[p] # NoConn  BY DEF TypeOK
<1>2. conn[p] \in open  BY <1>1 DEF Ownership, NoSocketLeak
<1>. QED
  BY <1>1, <1>2 DEF Ownership, Exclusive, MetaTracksConns, FreshPCs

LEMMA ClientOwn ==
    ASSUME TypeOK, Ownership, NEW p \in Clients, ClientStep(p)
    PROVE  Ownership'
<1>0. /\ p \in Procs
      /\ pc \in [Procs -> PCs]
      /\ pc[p] \notin HoldPCs => conn[p] = NoConn
      /\ pc[p] \in HoldPCs => conn[p] \in Conns
  BY ProcsFacts DEF TypeOK
<1>. USE <1>0 DEF Goto, Hold, SameConns, SameAdmin, FreshPCs
<1>1. CASE Acquire(p)
  BY <1>1, OwnQuiet DEF Acquire
<1>2. CASE TakeSlot(p)
  BY <1>2, OwnQuiet DEF TakeSlot
<1>3. CASE GiveUp(p)
  BY <1>3, OwnQuiet DEF GiveUp
<1>4. CASE RecheckClosed(p)
  BY <1>4, OwnQuiet DEF RecheckClosed
<1>5. CASE PopMiss(p)
  BY <1>5, OwnQuiet DEF PopMiss
<1>6. CASE PopHit(p)
  BY Zenon, <1>6, OwnPop DEF PopHit, HoldPCs
<1>7. CASE CheckOK(p)
  BY <1>7, OwnQuiet DEF CheckOK
<1>8. CASE CheckFails(p)
  BY Zenon, <1>8, OwnClose DEF CheckFails, retire, HoldPCs
<1>9. CASE DialFails(p)
  BY <1>9, OwnQuiet DEF DialFails
<1>10. CASE DialOK(p)
  <2>1. PICK c \in Conns \ open : Hold(p, c) /\ open' = open \cup {c}
    BY Zenon, <1>10 DEF DialOK
  <2>. QED  BY Zenon, <1>10, <2>1, OwnDial DEF DialOK, HoldPCs
<1>11. CASE ReturnDialed(p)
  BY <1>11, OwnTag DEF ReturnDialed, Tag, HoldPCs
<1>12. CASE ReleaseStart(p)
  <2>1. conn[p] \in tagged  BY <1>12, HeldIsTagged DEF ReleaseStart, HoldPCs
  <2>2. CASE closed
    BY <1>12, <2>1, <2>2, OwnClose DEF ReleaseStart, rejectForeign, CloseHeld, retire, HoldPCs
  <2>3. CASE ~closed
    BY <1>12, <2>1, <2>3, OwnQuiet DEF ReleaseStart, rejectForeign
  <2>. QED  BY <2>2, <2>3
<1>13. CASE ReleaseGen(p)
  <2>1. CASE CloseHeld(p)
    BY Zenon, <1>13, <2>1, OwnClose DEF ReleaseGen, CloseHeld, retire, HoldPCs
  <2>2. CASE Goto(p, "relgen") /\ UNCHANGED conn /\ SameConns
    BY <1>13, <2>2, OwnQuiet DEF ReleaseGen
  <2>. QED  BY <1>13, <2>1, <2>2 DEF ReleaseGen
<1>14. CASE ReleasePush(p)
  <2>1. conn[p] \notin Range(idle) /\ conn[p] \in tagged
    BY <1>14, HeldIsTagged DEF ReleasePush, Push, HoldPCs
  <2>2. CASE closed
    BY <1>14, <2>2, OwnClose DEF ReleasePush, Push, CloseHeld, retire, HoldPCs
  <2>3. CASE ~closed
    <3>1. tagged' = tagged \cup {conn[p]}  BY <1>14, <2>1, <2>3 DEF ReleasePush, Push
    <3>. QED  BY <1>14, <2>1, <2>3, <3>1, OwnPush DEF ReleasePush, Push, HoldPCs
  <2>. QED  BY <2>2, <2>3
<1>15. CASE Discard(p)
  <2>1. conn[p] \in tagged  BY <1>15, HeldIsTagged DEF Discard, HoldPCs
  <2>. QED  BY <1>15, <2>1, OwnClose DEF Discard, rejectForeign, CloseHeld, retire, HoldPCs
<1>16. CASE FreeSlot(p)
  BY <1>16, OwnQuiet DEF FreeSlot
<1>. QED
  BY <1>1, <1>2, <1>3, <1>4, <1>5, <1>6, <1>7, <1>8, <1>9, <1>10, <1>11, <1>12, <1>13,
     <1>14, <1>15, <1>16 DEF ClientStep

LEMMA WarmOwn ==
    ASSUME TypeOK, Ownership, WarmStep
    PROVE  Ownership'
<1>0. /\ Warmer \in Procs
      /\ pc \in [Procs -> PCs]
      /\ pc[Warmer] \notin HoldPCs => conn[Warmer] = NoConn
      /\ pc[Warmer] \in HoldPCs => conn[Warmer] \in Conns
  BY ProcsFacts DEF TypeOK
<1>. USE <1>0 DEF Goto, Hold, SameConns, SameAdmin, FreshPCs
<1>1. CASE WarmNext  BY <1>1, OwnQuiet DEF WarmNext
<1>2. CASE WarmSlot  BY <1>2, OwnQuiet DEF WarmSlot
<1>3. CASE WarmGiveUp  BY <1>3, OwnQuiet DEF WarmGiveUp
<1>4. CASE WarmDialFails  BY <1>4, OwnQuiet DEF WarmDialFails
<1>5. CASE WarmDialOK
  <2>1. PICK c \in Conns \ open : Hold(Warmer, c) /\ open' = open \cup {c}
    BY Zenon, <1>5 DEF WarmDialOK
  <2>. QED  BY Zenon, <1>5, <2>1, OwnDial DEF WarmDialOK, HoldPCs
<1>6. CASE WarmPush
  <2>1. CASE closed
    <3>1. conn[Warmer] \notin tagged
      BY <1>6 DEF WarmPush, HoldPCs, Ownership, MetaTracksConns
    <3>2. tagged' = tagged \ {conn[Warmer]}
      BY <1>6, <2>1, <3>1 DEF WarmPush
    <3>. QED  BY Zenon, <1>6, <2>1, <3>2, OwnClose DEF WarmPush, HoldPCs
  <2>2. CASE ~closed
    BY Zenon, <1>6, <2>2, OwnPush DEF WarmPush, Tag, HoldPCs
  <2>. QED  BY <2>1, <2>2
<1>7. CASE WarmFree  BY <1>7, OwnQuiet DEF WarmFree
<1>. QED
  BY <1>1, <1>2, <1>3, <1>4, <1>5, <1>6, <1>7 DEF WarmStep

LEMMA DrainOwn ==
    ASSUME TypeOK, Ownership, DrainersInStep, DrainStep
    PROVE  Ownership'
<1>. USE ProcsFacts DEF SameProcs, SameConns, AdmGoto
<1>0. /\ Range(<< >>) = {} /\ IsInjective(<< >>)
      /\ idle \in Seq(Conns) /\ IsInjective(idle)
  <2>1. Range(<< >>) = {} /\ IsInjective(<< >>)  BY RangeEmpty
  <2>2. idle \in Seq(Conns)  BY DEF TypeOK
  <2>3. IsInjective(idle)  BY DEF Ownership, Exclusive
  <2>. QED  BY <2>1, <2>2, <2>3
<1>1. CASE Reap
  <2>1. PICK expired \in SUBSET Range(idle) :
           /\ idle' \in Kept(idle, expired)
           /\ doomed' = [doomed EXCEPT ![Reaper] = expired]
    BY Zenon, <1>1 DEF Reap
  <2>2. Range(idle') = Range(idle) \ expired /\ IsInjective(idle')
    BY <1>0, <2>1, RangeKept
  <2>3. doomed[Reaper] = {}
    BY <1>1 DEF Reap, DrainersInStep
  <2>. QED  BY Zenon, <1>1, <2>1, <2>2, <2>3, OwnTake DEF Reap
<1>2. ASSUME NEW d \in Drainers, Retire(d) PROVE Ownership'
  <2>1. PICK c \in doomed[d] :
           retire(c) /\ doomed' = [doomed EXCEPT ![d] = @ \ {c}]
    BY Zenon, <1>2 DEF Retire
  <2>. QED  BY Zenon, <1>2, <2>1, OwnRetire DEF Retire, retire
<1>3. ASSUME NEW d \in Drainers, DrainDone(d) PROVE Ownership'
  BY Zenon, <1>3, OwnQuiet DEF DrainDone
<1>4. ASSUME NEW d \in Drainers, NEW l, adm[d] \in {"bumped", "closing"}, TakeIdle(d, l)
      PROVE  Ownership'
  <2>1. doomed[d] = {}
    BY <1>4 DEF DrainersInStep
  <2>2. Range(idle') = Range(idle) \ Range(idle) /\ IsInjective(idle')
    BY <1>0, <1>4 DEF TakeIdle
  <2>. QED  BY Zenon, <1>4, <2>1, <2>2, OwnTake DEF TakeIdle
<1>5. ASSUME NEW r \in Reconnectors, ReconnectBump(r) PROVE Ownership'
  BY <1>5, OwnQuiet DEF ReconnectBump
<1>6. ASSUME NEW k \in Closers, CloseCAS(k) PROVE Ownership'
  BY <1>6, OwnQuiet DEF CloseCAS
<1>7. ASSUME NEW k \in Closers, CloseDone(k) PROVE Ownership'
  BY <1>7, OwnQuiet DEF CloseDone
<1>8. ASSUME NEW k \in Closers, CloseReturns(k) PROVE Ownership'
  BY <1>8, OwnQuiet DEF CloseReturns
<1>9. ASSUME NEW k \in Closers, CloseTimesOut(k) PROVE Ownership'
  BY <1>9, OwnQuiet DEF CloseTimesOut
<1>. QED
  BY <1>1, <1>2, <1>3, <1>4, <1>5, <1>6, <1>7, <1>8, <1>9
     DEF DrainStep, ReconnectStep, CloseStep, ReconnectDrain, CloseDrain

==============================================================================
