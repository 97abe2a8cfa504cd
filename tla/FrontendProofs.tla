--------------------------- MODULE FrontendProofs ---------------------------
(***************************************************************************)
(* The caps, the session table and the wait group of module Frontend, for  *)
(* every number of clients and every configuration: FrontendInv holds      *)
(* initially and every step of run, of an accept loop, of a handler and of *)
(* shutdown keeps it.  What the checked properties say of a counter is an  *)
(* equation with a set of handlers; the rest of FrontendInv says where a   *)
(* connection is between Accept and its handler, and what runs and is      *)
(* bound in each phase, which the equations alone do not determine.        *)
(***************************************************************************)
EXTENDS Frontend, FiniteSetTheorems, TLAPS

\* Cardinality of a set of clients, and of one with a client more or less.
LEMMA ClientSets ==
    ASSUME NEW S \in SUBSET Clients
    PROVE  /\ IsFiniteSet(S) /\ Cardinality(S) \in Nat
           /\ \A c \in Clients \ S : Cardinality(S \cup {c}) = Cardinality(S) + 1
           /\ \A c \in S : Cardinality(S \ {c}) = Cardinality(S) - 1
           /\ Cardinality(S) = 0 => S = {}
           /\ \A c \in S : Cardinality(S) > 0
<1>1. IsFiniteSet(S)  BY FrontendAssumption, FS_Subset
<1>2. Cardinality(S) \in Nat  BY <1>1, FS_CardinalityType
<1>3. \A c \in Clients \ S : Cardinality(S \cup {c}) = Cardinality(S) + 1
  BY <1>1, FS_AddElement
<1>4. \A c \in S : Cardinality(S \ {c}) = Cardinality(S) - 1
  BY <1>1, FS_RemoveElement
<1>5. Cardinality(S) = 0 => S = {}  BY <1>1, FS_EmptySet
<1>6. S # {} => Cardinality(S) > 0  BY <1>2, <1>5
<1>. QED  BY <1>1, <1>2, <1>3, <1>4, <1>5, <1>6

\* The same for the accept loops, of which there are one or two.
LEMMA LoopSets ==
    ASSUME NEW S \in SUBSET Loops
    PROVE  /\ IsFiniteSet(S) /\ Cardinality(S) \in Nat
           /\ \A l \in Loops \ S : Cardinality(S \cup {l}) = Cardinality(S) + 1
           /\ \A l \in S : Cardinality(S \ {l}) = Cardinality(S) - 1
           /\ Cardinality(S) = 0 => S = {}
<1>0. IsFiniteSet(Loops)
  <2>1. IsFiniteSet({"tcp"})  BY FS_Singleton
  <2>2. IsFiniteSet({"tcp"} \cup {"unix"})  BY <2>1, FS_AddElement
  <2>3. {"tcp"} \cup {"unix"} = {"tcp", "unix"}  OBVIOUS
  <2>. QED  BY <2>1, <2>2, <2>3, FrontendAssumption
<1>1. IsFiniteSet(S)  BY <1>0, FS_Subset
<1>2. Cardinality(S) \in Nat  BY <1>1, FS_CardinalityType
<1>3. \A l \in Loops \ S : Cardinality(S \cup {l}) = Cardinality(S) + 1
  BY <1>1, FS_AddElement
<1>4. \A l \in S : Cardinality(S \ {l}) = Cardinality(S) - 1
  BY <1>1, FS_RemoveElement
<1>5. Cardinality(S) = 0 => S = {}  BY <1>1, FS_EmptySet
<1>. QED  BY <1>1, <1>2, <1>3, <1>4, <1>5

\* Names for the sets the properties count.
LiveLoops == {l \in Loops : loop[l] \notin {"off", "exited"}}
Handlers == {c \in Clients : Running(c)}
Slotted == {c \in Clients : pc[c] \in SlotPCs}
InDb(d) == {c \in Clients : Reserved(c) /\ who[c].db = d}
OfUser(u) == {c \in Clients : Reserved(c) /\ who[c].user = u}

\* The caps of a configuration are natural numbers.
LEMMA ConfTypes ==
    ASSUME conf \in Configs
    PROVE  conf.client \in Nat /\ conf.db \in Nat /\ conf.user \in Nat
BY FrontendAssumption

\* A handler changes its own place, identity, counters and table entry only.
LEMMA HandlerFrame ==
    ASSUME TypeOK, NEW c \in Clients, HandlerStep(c)
    PROVE  /\ UNCHANGED <<conf, bound, loop, inHand, draining, poolsOpen, sd, waiter>>
           /\ pc[c] \in GoPCs /\ pc'[c] \in GoPCs \cup {"out"}
           /\ pc' = [pc EXCEPT ![c] = pc'[c]]
           /\ pc'[c] = "out" <=> pc[c] = "done"
<1>. USE DEF At, To, SameLoops, SameRun, OnlyMoves, loops, sessions, limits, TypeOK,
             GoPCs, HandlerPCs, ReservedPCs, TablePCs, SessionPCs
<1>1. CASE Startup(c) \/ Authenticate(c) \/ AdminDoor(c) \/ Route(c) \/ FakeAuth(c)
  BY <1>1 DEF Startup, Authenticate, AdminDoor, Route, FakeAuth
<1>2. CASE Reserve(c) \/ Register(c) \/ Deregister(c) \/ Release(c)
  BY <1>2 DEF Reserve, Register, Deregister, Release
<1>3. CASE ClientAsks(c) \/ ClientLeaves(c) \/ Ask(c) \/ Acquired(c) \/ TxEnds(c)
  BY <1>3 DEF ClientAsks, ClientLeaves, Ask, Acquired, TxEnds
<1>4. CASE FreeSlot(c) \/ Done(c)
  BY <1>4 DEF FreeSlot, Done
<1>. QED  BY <1>1, <1>2, <1>3, <1>4 DEF HandlerStep

\* An accept loop changes its own place and that of the connection it took.
LEMMA LoopFrame ==
    ASSUME TypeOK, Handed, NEW l \in Loops, LoopStep(l)
    PROVE  /\ UNCHANGED <<conf, bound, draining, poolsOpen, sd, waiter, who, perDB, perUser,
                          table, sid>>
           /\ loop[l] \notin {"off", "exited"}
           /\ loop' = [loop EXCEPT ![l] = loop'[l]]
           /\ inHand' = [inHand EXCEPT ![l] = inHand'[l]]
           /\ pc' \in [Clients -> GoPCs \cup {"out", "accepted", "counting"}]
           /\ \A c \in Clients : pc'[c] # pc[c] =>
                 /\ pc[c] \in {"out", "accepted", "counting"}
                 /\ pc'[c] \in {"out", "accepted", "counting", "startup"}
<1>. USE DEF SameRun, handlers, TypeOK, GoPCs, HandlerPCs
<1>1. CASE Accept(l)  BY <1>1 DEF Accept
<1>2. CASE LoopEnds(l)  BY <1>2 DEF LoopEnds
<1>3. CASE Admit(l)  BY <1>3 DEF Admit, Handed
<1>4. CASE Spawn(l)  BY <1>4 DEF Spawn, Handed
<1>. QED  BY <1>1, <1>2, <1>3, <1>4 DEF LoopStep

\* run, Signal and shutdown leave the handlers alone; only the start of an
\* accept loop touches one, and that loop was off.
RunStep == Boot \/ Signal \/ Shutdown

\* What a step of run or shutdown never touches, and what it does to wg and
\* the loops.
LEMMA RunFrame ==
    ASSUME TypeOK, Phases, RunStep
    PROVE  /\ UNCHANGED <<conf, pc, who, slots, perDB, perUser, table, sid, inHand>>
           /\ \/ UNCHANGED <<loop, wg>>
              \/ \E l \in Loops : /\ loop[l] = "off" /\ loop' = [loop EXCEPT ![l] = "accept"]
                                  /\ wg' = wg + 1
<1>. USE DEF handlers, loops, SameServing, Goto
<1>1. CASE Configure \/ ListenTCP \/ ListenMetrics \/ ListenAdmin
  BY <1>1, Zenon DEF Configure, ListenTCP, ListenMetrics, ListenAdmin, Listen
<1>2. CASE ServeTCP
  <2>1. "tcp" \in Loops  BY FrontendAssumption
  <2>2. loop["tcp"] = "off"  BY <1>2, <2>1 DEF ServeTCP, Phases
  <2>. QED  BY <1>2, <2>1, <2>2, Zenon DEF ServeTCP, StartLoop
<1>3. CASE ServeUnix
  <2>1. "unix" \in Loops /\ loop["unix"] = "off"  BY <1>3 DEF ServeUnix, Phases
  <2>. QED  BY <1>3, <2>1, Zenon DEF ServeUnix, StartLoop
<1>4. CASE Signal \/ Shutdown
  BY <1>4, Zenon DEF Signal, Shutdown, CloseListener, MarkDraining, ShutdownHTTP, WaitReturns, Drain,
                     ClosePools, Grace
<1>. QED  BY <1>1, <1>2, <1>3, <1>4 DEF RunStep, Boot

----------------------------------------------------------------------------
(* Where a connection is between Accept and its handler.                   *)

\* A handler is past the hand-over from its accept loop.
LEMMA HandlerHanded ==
    ASSUME TypeOK, Handed, NEW c \in Clients, HandlerStep(c)
    PROVE  Handed'
<1>1. /\ UNCHANGED <<loop, inHand>> /\ pc[c] \in GoPCs /\ pc'[c] \in GoPCs \cup {"out"}
      /\ pc' = [pc EXCEPT ![c] = pc'[c]] /\ pc \in [Clients -> GoPCs \cup {"out", "accepted", "counting"}]
  BY HandlerFrame DEF TypeOK
<1>2. "accepted" \notin GoPCs /\ "counting" \notin GoPCs
  BY DEF GoPCs, HandlerPCs, ReservedPCs, TablePCs, SessionPCs
<1>. QED  BY <1>1, <1>2 DEF Handed

\* A loop receives a connection only from outside and lets go of it in the
\* step that spawns or refuses it.
LEMMA LoopHanded ==
    ASSUME TypeOK, Handed, NEW l \in Loops, LoopStep(l)
    PROVE  Handed'
<1>0. /\ pc \in [Clients -> GoPCs \cup {"out", "accepted", "counting"}]
      /\ loop \in [Loops -> LoopPCs] /\ inHand \in [Loops -> Clients \cup {NoClient}]
      /\ NoClient \notin Clients
  BY FrontendAssumption DEF TypeOK
<1>1. CASE Accept(l)
  <2>1. PICK c \in Clients : /\ pc[c] = "out" /\ pc' = [pc EXCEPT ![c] = "accepted"]
                             /\ inHand' = [inHand EXCEPT ![l] = c]
    BY <1>1 DEF Accept
  <2>2. loop[l] = "accept" /\ loop' = [loop EXCEPT ![l] = "got"] /\ inHand[l] = NoClient
    BY <1>1 DEF Accept, Handed
  <2>3. \A m \in Loops : inHand[m] # c
    BY <1>0, <2>1 DEF Handed
  <2>. QED  BY <1>0, <2>1, <2>2, <2>3 DEF Handed
<1>2. CASE LoopEnds(l)
  BY <1>0, <1>2 DEF LoopEnds, handlers, Handed
<1>3. CASE Admit(l)
  <2>1. inHand[l] \in Clients /\ pc[inHand[l]] = "accepted" /\ loop[l] = "got"
    BY <1>3 DEF Admit, Handed
  <2>2. \/ /\ pc' = [pc EXCEPT ![inHand[l]] = "counting"] /\ loop' = [loop EXCEPT ![l] = "slotted"]
           /\ inHand' = inHand
        \/ /\ pc' = [pc EXCEPT ![inHand[l]] = "out"] /\ loop' = [loop EXCEPT ![l] = "accept"]
           /\ inHand' = [inHand EXCEPT ![l] = NoClient]
    BY <1>3 DEF Admit
  <2>3. \A m \in Loops : m # l => inHand[m] # inHand[l]
    BY <1>0, <2>1 DEF Handed
  <2>. QED  BY <1>0, <2>1, <2>2, <2>3 DEF Handed
<1>4. CASE Spawn(l)
  <2>1. inHand[l] \in Clients /\ pc[inHand[l]] = "counting" /\ loop[l] = "slotted"
    BY <1>4 DEF Spawn, Handed
  <2>2. /\ pc' = [pc EXCEPT ![inHand[l]] = "startup"] /\ loop' = [loop EXCEPT ![l] = "accept"]
        /\ inHand' = [inHand EXCEPT ![l] = NoClient]
    BY <1>4 DEF Spawn
  <2>3. \A m \in Loops : m # l => inHand[m] # inHand[l]
    BY <1>0, <2>1 DEF Handed
  <2>. QED  BY <1>0, <2>1, <2>2, <2>3 DEF Handed
<1>. QED  BY <1>1, <1>2, <1>3, <1>4 DEF LoopStep

\* A loop is started with empty hands.
LEMMA RunHanded ==
    ASSUME TypeOK, Phases, Handed, RunStep
    PROVE  Handed'
<1>1. UNCHANGED <<pc, inHand>>  BY RunFrame
<1>2. CASE UNCHANGED loop  BY <1>1, <1>2 DEF Handed
<1>3. CASE \E l \in Loops : loop[l] = "off" /\ loop' = [loop EXCEPT ![l] = "accept"]
  BY <1>1, <1>3 DEF Handed, TypeOK
<1>. QED  BY <1>2, <1>3, RunFrame

----------------------------------------------------------------------------
(* What runs and what is bound in each phase.                              *)

\* A handler changes neither the phase of the process nor its listeners.
LEMMA HandlerPhases ==
    ASSUME TypeOK, Phases, NEW c \in Clients, HandlerStep(c)
    PROVE  Phases'
BY HandlerFrame DEF Phases

\* A loop that ends was told so by its closed listener.
LEMMA LoopPhases ==
    ASSUME TypeOK, Handed, Phases, NEW l \in Loops, LoopStep(l)
    PROVE  Phases'
<1>1. /\ UNCHANGED <<sd, bound, waiter>> /\ loop[l] # "off"
      /\ loop' = [loop EXCEPT ![l] = loop'[l]] /\ loop \in [Loops -> LoopPCs]
  BY LoopFrame DEF TypeOK
<1>2. loop'[l] # "off"
  BY <1>1 DEF LoopStep, Accept, LoopEnds, Admit, Spawn
<1>3. "tcp" \in Loops  BY FrontendAssumption
<1>. QED  BY <1>1, <1>2, <1>3 DEF Phases

\* Startup and shutdown go through their phases in order.
LEMMA RunPhases ==
    ASSUME TypeOK, Phases, RunStep
    PROVE  Phases'
<1>0. /\ loop \in [Loops -> LoopPCs] /\ "tcp" \in Loops /\ Loops \subseteq {"tcp", "unix"}
      /\ bound \subseteq Loops \cup HTTP /\ sd \in RunPCs
  BY FrontendAssumption DEF TypeOK
<1>. USE <1>0 DEF Goto, loops, SameServing, BootPCs, ExitPCs, HTTP
<1>1. CASE Configure  BY <1>1 DEF Configure, Phases
<1>2. CASE ListenTCP  BY <1>2 DEF ListenTCP, Listen, Phases
<1>3. CASE ListenMetrics  BY <1>3 DEF ListenMetrics, Listen, Phases
<1>4. CASE ListenAdmin  BY <1>4 DEF ListenAdmin, Listen, Phases
<1>5. CASE ServeTCP  BY <1>5 DEF ServeTCP, StartLoop, Phases
<1>6. CASE ServeUnix  BY <1>6 DEF ServeUnix, StartLoop, Phases
<1>7. CASE Signal  BY <1>7 DEF Signal, Phases
<1>8. CASE \E l \in Loops : CloseListener(l)  BY <1>8 DEF CloseListener, Phases
<1>9. CASE MarkDraining  BY <1>9 DEF MarkDraining, Phases
<1>10. CASE ShutdownHTTP  BY <1>10 DEF ShutdownHTTP, Phases
<1>11. CASE WaitReturns  BY <1>11 DEF WaitReturns, Phases
<1>12. CASE Drain  BY <1>12 DEF Drain, Phases
<1>13. CASE ClosePools  BY <1>13 DEF ClosePools, Phases
<1>14. CASE Grace  BY <1>14 DEF Grace, Phases
<1>. QED  BY <1>1, <1>2, <1>3, <1>4, <1>5, <1>6, <1>7, <1>8, <1>9, <1>10, <1>11, <1>12, <1>13, <1>14
          DEF RunStep, Boot, Shutdown

----------------------------------------------------------------------------
(* The wait group.                                                         *)

WgExact == wg = Cardinality(LiveLoops) + Cardinality(Handlers)

\* Both sets are finite, and empty when the counter is zero.
LEMMA WgFacts ==
    ASSUME WgExact
    PROVE  /\ LiveLoops \in SUBSET Loops /\ Handlers \in SUBSET Clients
           /\ Cardinality(LiveLoops) \in Nat /\ Cardinality(Handlers) \in Nat /\ wg \in Nat
           /\ wg = 0 => LiveLoops = {} /\ Handlers = {}
<1>1. LiveLoops \in SUBSET Loops /\ Handlers \in SUBSET Clients
  BY DEF LiveLoops, Handlers
<1>2. Cardinality(LiveLoops) \in Nat /\ (Cardinality(LiveLoops) = 0 => LiveLoops = {})
  BY <1>1, LoopSets
<1>3. Cardinality(Handlers) \in Nat /\ (Cardinality(Handlers) = 0 => Handlers = {})
  BY <1>1, ClientSets
<1>. QED  BY <1>1, <1>2, <1>3 DEF WgExact

\* A handler leaves the wait group once, in its last step.
LEMMA HandlerWg ==
    ASSUME TypeOK, WgExact, NEW c \in Clients, HandlerStep(c)
    PROVE  WgExact'
<1>1. /\ loop' = loop /\ pc[c] \in GoPCs /\ pc'[c] \in GoPCs \cup {"out"}
      /\ pc' = [pc EXCEPT ![c] = pc'[c]] /\ pc \in [Clients -> GoPCs \cup {"out", "accepted", "counting"}]
      /\ pc'[c] = "out" <=> pc[c] = "done"
  BY HandlerFrame DEF TypeOK
<1>2. LiveLoops' = LiveLoops  BY <1>1 DEF LiveLoops
<1>3. "out" \notin GoPCs
  BY DEF GoPCs, HandlerPCs, ReservedPCs, TablePCs, SessionPCs
<1>4. CASE pc[c] = "done"
  <2>1. Handlers' = Handlers \ {c} /\ c \in Handlers
    BY <1>1, <1>3, <1>4 DEF Handlers, Running
  <2>2. wg' = wg - 1
    BY <1>4 DEF HandlerStep, Startup, Authenticate, AdminDoor, Route, Reserve, Register, FakeAuth,
       ClientAsks, ClientLeaves, Ask, Acquired, TxEnds, Deregister, Release, FreeSlot, Done, At
  <2>. QED  BY <1>2, <2>1, <2>2, WgFacts, ClientSets DEF WgExact
<1>5. CASE pc[c] # "done"
  <2>1. Handlers' = Handlers
    BY <1>1, <1>3, <1>5 DEF Handlers, Running
  <2>2. wg' = wg
    BY <1>5, Zenon DEF HandlerStep, Startup, Authenticate, AdminDoor, Route, Reserve, Register, FakeAuth,
       ClientAsks, ClientLeaves, Ask, Acquired, TxEnds, Deregister, Release, FreeSlot, Done, At, OnlyMoves
  <2>. QED  BY <1>2, <2>1, <2>2 DEF WgExact
<1>. QED  BY <1>4, <1>5

\* A loop adds a handler in the step that spawns it, and leaves once.
LEMMA LoopWg ==
    ASSUME TypeOK, Handed, WgExact, NEW l \in Loops, LoopStep(l)
    PROVE  WgExact'
<1>0. /\ pc \in [Clients -> GoPCs \cup {"out", "accepted", "counting"}] /\ loop \in [Loops -> LoopPCs]
      /\ l \in LiveLoops
  BY LoopFrame DEF TypeOK, LiveLoops
<1>1. "out" \notin GoPCs /\ "accepted" \notin GoPCs /\ "counting" \notin GoPCs /\ "startup" \in GoPCs
  BY DEF GoPCs, HandlerPCs, ReservedPCs, TablePCs, SessionPCs
<1>2. CASE Accept(l)
  <2>1. LiveLoops' = LiveLoops  BY <1>0, <1>2 DEF Accept, LiveLoops
  <2>2. Handlers' = Handlers  BY <1>0, <1>1, <1>2 DEF Accept, Handlers, Running
  <2>. QED  BY <1>2, <2>1, <2>2 DEF Accept, WgExact
<1>3. CASE LoopEnds(l)
  <2>1. LiveLoops' = LiveLoops \ {l}  BY <1>0, <1>3 DEF LoopEnds, LiveLoops
  <2>2. Handlers' = Handlers  BY <1>3 DEF LoopEnds, Handlers, Running, handlers
  <2>3. wg' = wg - 1  BY <1>3 DEF LoopEnds
  <2>. QED  BY <1>0, <2>1, <2>2, <2>3, WgFacts, LoopSets DEF WgExact
<1>4. CASE Admit(l)
  <2>1. LiveLoops' = LiveLoops  BY <1>0, <1>4 DEF Admit, LiveLoops
  <2>2. Handlers' = Handlers
    BY <1>0, <1>1, <1>4 DEF Admit, Handlers, Running, Handed
  <2>. QED  BY <1>4, <2>1, <2>2 DEF Admit, WgExact
<1>5. CASE Spawn(l)
  <2>1. LiveLoops' = LiveLoops  BY <1>0, <1>5 DEF Spawn, LiveLoops
  <2>2. inHand[l] \in Clients \ Handlers /\ Handlers' = Handlers \cup {inHand[l]}
    BY <1>0, <1>1, <1>5 DEF Spawn, Handlers, Running, Handed
  <2>3. wg' = wg + 1  BY <1>5 DEF Spawn
  <2>. QED  BY <2>1, <2>2, <2>3, WgFacts, ClientSets DEF WgExact
<1>. QED  BY <1>2, <1>3, <1>4, <1>5 DEF LoopStep

\* run adds a loop in the step that starts it.
LEMMA RunWg ==
    ASSUME TypeOK, Phases, WgExact, RunStep
    PROVE  WgExact'
<1>1. Handlers' = Handlers  BY RunFrame DEF Handlers, Running
<1>2. CASE UNCHANGED <<loop, wg>>
  BY <1>1, <1>2 DEF WgExact, LiveLoops
<1>3. CASE \E l \in Loops : loop[l] = "off" /\ loop' = [loop EXCEPT ![l] = "accept"] /\ wg' = wg + 1
  <2>1. PICK l \in Loops : loop[l] = "off" /\ loop' = [loop EXCEPT ![l] = "accept"] /\ wg' = wg + 1
    BY <1>3
  <2>2. l \in Loops \ LiveLoops /\ LiveLoops' = LiveLoops \cup {l}
    BY <2>1 DEF LiveLoops, TypeOK
  <2>. QED  BY <1>1, <2>1, <2>2, WgFacts, LoopSets DEF WgExact
<1>. QED  BY <1>2, <1>3, RunFrame

\* Once Wait has returned nothing runs that could call Add.
Drained ==
    waiter = "drained" => /\ \A l \in Loops : loop[l] = "exited"
                          /\ \A c \in Clients : pc[c] = "out"

\* Once Wait has returned nothing runs that could add to the wait group.
LEMMA StepDrained ==
    ASSUME TypeOK, Handed, Phases, WgExact, Drained,
           \/ RunStep
           \/ \E l \in Loops : LoopStep(l)
           \/ \E c \in Clients : HandlerStep(c)
    PROVE  Drained'
<1>1. ASSUME NEW c \in Clients, HandlerStep(c) PROVE Drained'
  <2>1. waiter' = waiter /\ pc[c] # "out"
    BY <1>1, HandlerFrame DEF GoPCs, HandlerPCs, ReservedPCs, TablePCs, SessionPCs
  <2>. QED  BY <2>1 DEF Drained
<1>2. ASSUME NEW l \in Loops, LoopStep(l) PROVE Drained'
  <2>1. waiter' = waiter /\ loop[l] # "exited"  BY <1>2, LoopFrame
  <2>. QED  BY <2>1 DEF Drained
<1>3. ASSUME RunStep PROVE Drained'
  <2>1. UNCHANGED pc  BY <1>3, RunFrame
  <2>2. CASE WaitReturns
    <3>1. wg = 0 /\ waiter = "waiting" /\ loop' = loop
      BY <2>2 DEF WaitReturns, SameServing, loops
    <3>2. LiveLoops = {} /\ Handlers = {}  BY <3>1, WgFacts
    <3>3. \A l \in Loops : loop[l] # "off"
      BY <3>1 DEF Phases, BootPCs
    <3>4. \A l \in Loops : loop[l] = "exited"
      BY <3>2, <3>3 DEF LiveLoops
    <3>5. \A l \in Loops : inHand[l] = NoClient
      BY <3>4 DEF Handed
    <3>6. \A c \in Clients : pc[c] = "out"
      BY <3>2, <3>5, FrontendAssumption DEF Handlers, Running, Handed, TypeOK
    <3>. QED  BY <2>1, <3>1, <3>4, <3>6 DEF Drained
  <2>3. CASE ~WaitReturns
    <3>1. waiter' = "drained" => waiter = "drained"
      BY <1>3, <2>3, Zenon DEF RunStep, Boot, Configure, ListenTCP, ListenMetrics, ListenAdmin, Listen,
         ServeTCP, ServeUnix, Signal, Shutdown, CloseListener, MarkDraining, ShutdownHTTP, Drain,
         ClosePools, Grace
    <3>2. CASE loop' = loop  BY <2>1, <3>1, <3>2 DEF Drained
    <3>3. CASE \E l \in Loops : loop[l] = "off"
      BY <3>1, <3>3 DEF Drained
    <3>. QED  BY <1>3, <3>2, <3>3, RunFrame
  <2>. QED  BY <2>2, <2>3
<1>. QED  BY <1>1, <1>2, <1>3

----------------------------------------------------------------------------
(* The slots of max_client_conn.                                           *)

\* Adding or removing one connection changes the number of those with a slot
\* by one.
LEMMA SlotFacts ==
    /\ Slotted \in SUBSET Clients /\ Cardinality(Slotted) \in Nat
    /\ \A c \in Slotted : Cardinality(Slotted \ {c}) = Cardinality(Slotted) - 1 /\ Cardinality(Slotted) > 0
    /\ \A c \in Clients \ Slotted : Cardinality(Slotted \cup {c}) = Cardinality(Slotted) + 1
<1>1. Slotted \in SUBSET Clients  BY DEF Slotted
<1>. QED  BY <1>1, ClientSets

\* A handler gives its slot back once, in the deferred step that does so.
LEMMA HandlerSlots ==
    ASSUME TypeOK, SlotsExact, NEW c \in Clients, HandlerStep(c)
    PROVE  SlotsExact' /\ slots' \in Nat
<1>0. /\ conf' = conf /\ pc[c] \in GoPCs /\ pc'[c] \in GoPCs \cup {"out"}
      /\ pc' = [pc EXCEPT ![c] = pc'[c]] /\ pc \in [Clients -> GoPCs \cup {"out", "accepted", "counting"}]
      /\ slots \in Nat /\ conf.client \in Nat
  BY HandlerFrame, ConfTypes DEF TypeOK
<1>1. CASE FreeSlot(c)
  <2>1. c \in Slotted /\ Slotted' = Slotted \ {c}
    BY <1>0, <1>1 DEF FreeSlot, At, To, Slotted, SlotPCs, HandlerPCs, ReservedPCs, TablePCs, SessionPCs
  <2>2. slots' = IF conf.client = 0 THEN slots ELSE slots - 1
    BY <1>1 DEF FreeSlot
  <2>3. CASE conf.client = 0
    BY <1>0, <2>2, <2>3 DEF SlotsExact
  <2>4. CASE conf.client > 0
    <3>1. slots = Cardinality(Slotted) /\ slots <= conf.client
      BY <2>4 DEF SlotsExact, Slotted
    <3>2. slots' = Cardinality(Slotted') /\ slots' <= conf'.client /\ slots' \in Nat
      BY <1>0, <2>1, <2>2, <2>4, <3>1, SlotFacts
    <3>. QED  BY <3>2 DEF SlotsExact, Slotted
  <2>. QED  BY <1>0, <2>3, <2>4
<1>2. CASE ~FreeSlot(c)
  <2>1. slots' = slots
    BY <1>2, Zenon DEF HandlerStep, Startup, Authenticate, AdminDoor, Route, Reserve, Register, FakeAuth,
       ClientAsks, ClientLeaves, Ask, Acquired, TxEnds, Deregister, Release, FreeSlot, Done, OnlyMoves
  <2>2. (pc'[c] \in SlotPCs) <=> (pc[c] \in SlotPCs)
    <3>. USE DEF At, To, OnlyMoves, SlotPCs, HandlerPCs, ReservedPCs, TablePCs, SessionPCs, TypeOK
    <3>1. CASE Startup(c) \/ Authenticate(c) \/ AdminDoor(c) \/ Route(c) \/ FakeAuth(c)
      BY <3>1 DEF Startup, Authenticate, AdminDoor, Route, FakeAuth
    <3>2. CASE Reserve(c) \/ Register(c) \/ Deregister(c) \/ Release(c)
      BY <3>2 DEF Reserve, Register, Deregister, Release
    <3>3. CASE ClientAsks(c) \/ ClientLeaves(c) \/ Ask(c) \/ Acquired(c) \/ TxEnds(c)
      BY <3>3 DEF ClientAsks, ClientLeaves, Ask, Acquired, TxEnds
    <3>4. CASE Done(c)  BY <3>4 DEF Done
    <3>. QED  BY <1>2, <3>1, <3>2, <3>3, <3>4 DEF HandlerStep
  <2>3. Slotted' = Slotted  BY <1>0, <2>2 DEF Slotted
  <2>. QED  BY <1>0, <2>1, <2>3 DEF SlotsExact, Slotted
<1>. QED  BY <1>1, <1>2

\* A loop takes a slot only under max_client_conn.
LEMMA LoopSlots ==
    ASSUME TypeOK, Handed, SlotsExact, NEW l \in Loops, LoopStep(l)
    PROVE  SlotsExact' /\ slots' \in Nat
<1>0. /\ pc \in [Clients -> GoPCs \cup {"out", "accepted", "counting"}] /\ conf' = conf
      /\ slots \in Nat /\ conf.client \in Nat
  BY LoopFrame, ConfTypes DEF TypeOK
<1>1. /\ "out" \notin SlotPCs /\ "accepted" \notin SlotPCs /\ "counting" \in SlotPCs
      /\ "startup" \in SlotPCs
  BY DEF SlotPCs, HandlerPCs, ReservedPCs, TablePCs, SessionPCs
<1>2. CASE Accept(l) \/ LoopEnds(l)
  <2>1. slots' = slots /\ Slotted' = Slotted
    BY <1>0, <1>1, <1>2 DEF Accept, LoopEnds, handlers, Slotted
  <2>. QED  BY <1>0, <2>1 DEF SlotsExact, Slotted
<1>3. CASE Spawn(l)
  <2>1. slots' = slots /\ Slotted' = Slotted
    BY <1>0, <1>1, <1>3 DEF Spawn, Handed, Slotted
  <2>. QED  BY <1>0, <2>1 DEF SlotsExact, Slotted
<1>4. CASE Admit(l)
  <2>1. inHand[l] \in Clients \ Slotted
    BY <1>1, <1>4 DEF Admit, Handed, Slotted
  <2>2. CASE conf.client = 0 \/ slots < conf.client
    <3>1. slots' = IF conf.client = 0 THEN slots ELSE slots + 1
      BY <1>4, <2>2 DEF Admit
    <3>2. Slotted' = Slotted \cup {inHand[l]}
      BY <1>0, <1>1, <1>4, <2>1, <2>2 DEF Admit, Slotted
    <3>3. conf.client > 0 => slots = Cardinality(Slotted)
      BY DEF SlotsExact, Slotted
    <3>4. conf.client > 0 => slots' = Cardinality(Slotted') /\ slots' <= conf'.client
      BY <1>0, <2>1, <2>2, <3>1, <3>2, <3>3, SlotFacts
    <3>. QED  BY <1>0, <3>1, <3>4 DEF SlotsExact, Slotted
  <2>3. CASE ~(conf.client = 0 \/ slots < conf.client)
    <3>1. slots' = slots /\ Slotted' = Slotted
      BY <1>0, <1>1, <1>4, <2>1, <2>3 DEF Admit, Slotted
    <3>. QED  BY <1>0, <3>1 DEF SlotsExact, Slotted
  <2>. QED  BY <2>2, <2>3
<1>. QED  BY <1>2, <1>3, <1>4 DEF LoopStep

\* run and shutdown take no client slot.
LEMMA RunSlots ==
    ASSUME TypeOK, Phases, SlotsExact, RunStep
    PROVE  SlotsExact' /\ slots' \in Nat
BY RunFrame DEF SlotsExact, TypeOK

----------------------------------------------------------------------------
(* The session table.                                                      *)

\* A handler registers under a free id and deletes only its own.
LEMMA HandlerTable ==
    ASSUME TypeOK, TableExact, NEW c \in Clients, HandlerStep(c)
    PROVE  TableExact'
<1>0. /\ pc' = [pc EXCEPT ![c] = pc'[c]] /\ pc \in [Clients -> GoPCs \cup {"out", "accepted", "counting"}]
      /\ table \in [Pids -> Clients \cup {NoClient}] /\ sid \in [Clients -> Pids \cup {0}]
      /\ NoClient \notin Clients
  BY HandlerFrame, FrontendAssumption DEF TypeOK
<1>1. CASE Register(c)
  <2>1. PICK p \in Pids : /\ table[p] = NoClient /\ table' = [table EXCEPT ![p] = c]
                          /\ sid' = [sid EXCEPT ![c] = p]
    BY <1>1 DEF Register
  <2>2. pc[c] = "register" /\ pc'[c] = "fake"
    BY <1>0, <1>1 DEF Register, At, To
  <2>3. \A q \in Pids : table[q] # c
    BY <2>2 DEF TableExact, TablePCs, SessionPCs
  <2>. QED  BY <1>0, <2>1, <2>2, <2>3 DEF TableExact, TablePCs
<1>2. CASE Deregister(c)
  <2>1. /\ pc[c] = "dereg" /\ pc'[c] \in {"exit", "unreserve"}
        /\ table' = [table EXCEPT ![sid[c]] = NoClient] /\ sid' = [sid EXCEPT ![c] = 0]
    BY <1>0, <1>2 DEF Deregister, At, To
  <2>2. \A q \in Pids : table[q] = c <=> q = sid[c]
    BY <2>1 DEF TableExact, TablePCs
  <2>3. "exit" \notin TablePCs /\ "unreserve" \notin TablePCs
    BY DEF TablePCs, SessionPCs
  <2>4. \A q \in Pids : table'[q] # c
    BY <1>0, <2>1, <2>2
  <2>5. ASSUME NEW d \in Clients, d # c
        PROVE  IF pc'[d] \in TablePCs THEN \A p \in Pids : table'[p] = d <=> p = sid'[d]
               ELSE \A p \in Pids : table'[p] # d
    <3>1. pc'[d] = pc[d] /\ sid'[d] = sid[d]  BY <1>0, <2>1, <2>5
    <3>2. \A p \in Pids : table'[p] = d <=> table[p] = d
      BY <1>0, <2>1, <2>2, <2>5
    <3>. QED  BY <3>1, <3>2 DEF TableExact
  <2>. QED  BY <2>1, <2>3, <2>4, <2>5 DEF TableExact
<1>3. CASE ~Register(c) /\ ~Deregister(c)
  <2>1. UNCHANGED <<table, sid>>
    BY <1>3, Zenon DEF sessions, HandlerStep, Startup, Authenticate, AdminDoor, Route, Reserve, FakeAuth,
       ClientAsks, ClientLeaves, Ask, Acquired, TxEnds, Release, FreeSlot, Done, OnlyMoves
  <2>2. (pc'[c] \in TablePCs) <=> (pc[c] \in TablePCs)
    <3>. USE DEF At, To, OnlyMoves, TablePCs, SessionPCs, TypeOK
    <3>1. CASE Startup(c) \/ Authenticate(c) \/ AdminDoor(c) \/ Route(c) \/ FakeAuth(c)
      BY <3>1 DEF Startup, Authenticate, AdminDoor, Route, FakeAuth
    <3>2. CASE Reserve(c) \/ Release(c) \/ FreeSlot(c) \/ Done(c)
      BY <3>2 DEF Reserve, Release, FreeSlot, Done
    <3>3. CASE ClientAsks(c) \/ ClientLeaves(c) \/ Ask(c) \/ Acquired(c) \/ TxEnds(c)
      BY <3>3 DEF ClientAsks, ClientLeaves, Ask, Acquired, TxEnds
    <3>. QED  BY <1>3, <3>1, <3>2, <3>3 DEF HandlerStep
  <2>. QED  BY <1>0, <2>1, <2>2 DEF TableExact
<1>. QED  BY <1>1, <1>2, <1>3

\* A loop does not touch the table.
LEMMA LoopTable ==
    ASSUME TypeOK, Handed, TableExact, NEW l \in Loops, LoopStep(l)
    PROVE  TableExact'
<1>1. UNCHANGED <<table, sid>>  BY LoopFrame
<1>2. \A c \in Clients : pc'[c] \in TablePCs <=> pc[c] \in TablePCs
  BY LoopFrame DEF TablePCs, SessionPCs
<1>. QED  BY <1>1, <1>2 DEF TableExact

\* Neither does run or shutdown.
LEMMA RunTable ==
    ASSUME TypeOK, Phases, TableExact, RunStep
    PROVE  TableExact'
BY RunFrame DEF TableExact

----------------------------------------------------------------------------
(* The console's door and the counters of the ConnLimiter.                 *)

\* A handler passes Reserve and Register with the identity it keeps until it
\* leaves.
LEMMA HandlerDoors ==
    ASSUME TypeOK, Doors, NEW c \in Clients, HandlerStep(c)
    PROVE  Doors'
<1>0. /\ pc' = [pc EXCEPT ![c] = pc'[c]] /\ conf' = conf
      /\ pc \in [Clients -> GoPCs \cup {"out", "accepted", "counting"}] /\ who \in [Clients -> Identity]
  BY HandlerFrame DEF TypeOK
<1>1. \A d \in Clients : d # c => who'[d] = who[d]
  <2>1. CASE Startup(c) \/ Done(c)  BY <1>0, <2>1 DEF Startup, Done
  <2>2. CASE ~Startup(c) /\ ~Done(c)
    BY <2>2, Zenon DEF HandlerStep, Authenticate, AdminDoor, Route, Reserve, Register, FakeAuth,
       ClientAsks, ClientLeaves, Ask, Acquired, TxEnds, Deregister, Release, FreeSlot, OnlyMoves
  <2>. QED  BY <2>1, <2>2
<1>2. /\ pc'[c] \in {"route", "reserve", "unreserve"} => ~ToConsole(c)'
      /\ pc'[c] = "unreserve" => Limited'
  <2>. USE <1>0 DEF At, To, OnlyMoves, ToConsole, Limited, Doors
  <2>1. CASE Startup(c) \/ Authenticate(c) \/ FakeAuth(c) \/ FreeSlot(c) \/ Done(c)
    BY <2>1 DEF Startup, Authenticate, FakeAuth, FreeSlot, Done
  <2>2. CASE AdminDoor(c)  BY <2>2 DEF AdminDoor
  <2>3. CASE Route(c)  BY <2>3 DEF Route
  <2>4. CASE Reserve(c) \/ Register(c) \/ Release(c)
    BY <2>4 DEF Reserve, Register, Release
  <2>5. CASE Deregister(c)  BY <2>5 DEF Deregister
  <2>6. CASE ClientAsks(c) \/ ClientLeaves(c) \/ Ask(c) \/ Acquired(c) \/ TxEnds(c)
    BY <2>6 DEF ClientAsks, ClientLeaves, Ask, Acquired, TxEnds
  <2>. QED  BY <2>1, <2>2, <2>3, <2>4, <2>5, <2>6, ZenonT(30) DEF HandlerStep
<1>. QED  BY <1>0, <1>1, <1>2 DEF Doors, ToConsole, Limited

\* A connection in a loop's hands has passed neither.
LEMMA LoopDoors ==
    ASSUME TypeOK, Handed, Doors, NEW l \in Loops, LoopStep(l)
    PROVE  Doors'
BY LoopFrame DEF Doors, ToConsole, Limited

\* run and shutdown move no handler.
LEMMA RunDoors ==
    ASSUME TypeOK, Phases, Doors, RunStep
    PROVE  Doors'
BY RunFrame DEF Doors, ToConsole, Limited

\* What LimitsExact says when a cap is set.
Counted ==
    /\ \A d \in Dbs : perDB[d] = Cardinality(InDb(d)) /\ (conf.db > 0 => perDB[d] <= conf.db)
    /\ \A u \in Users : perUser[u] = Cardinality(OfUser(u)) /\ (conf.user > 0 => perUser[u] <= conf.user)

\* LimitsExact in terms of the two sets of sessions that are counted.
LEMMA CountedIsLimits == LimitsExact <=> (Limited => Counted)
BY DEF LimitsExact, Counted, InDb, OfUser

\* The same after a step.
LEMMA CountedIsLimitsNext == LimitsExact' <=> (Limited' => Counted')
BY DEF LimitsExact, Counted, InDb, OfUser

\* A client joins the sets of its database and user, or leaves them.
LEMMA Joins ==
    ASSUME TypeOK, NEW c \in Clients, ~Reserved(c), Reserved(c)', who' = who,
           \A e \in Clients : e # c => (Reserved(e)' <=> Reserved(e))
    PROVE  /\ \A d \in Dbs : Cardinality(InDb(d)') =
                 IF d = who[c].db THEN Cardinality(InDb(d)) + 1 ELSE Cardinality(InDb(d))
           /\ \A u \in Users : Cardinality(OfUser(u)') =
                 IF u = who[c].user THEN Cardinality(OfUser(u)) + 1 ELSE Cardinality(OfUser(u))
<1>1. ASSUME NEW d \in Dbs
      PROVE  Cardinality(InDb(d)') =
                 IF d = who[c].db THEN Cardinality(InDb(d)) + 1 ELSE Cardinality(InDb(d))
  <2>1. InDb(d) \in SUBSET Clients /\ c \notin InDb(d)  BY DEF InDb
  <2>2. d = who[c].db => InDb(d)' = InDb(d) \cup {c}  BY DEF InDb
  <2>3. d # who[c].db => InDb(d)' = InDb(d)  BY DEF InDb
  <2>. QED  BY <2>1, <2>2, <2>3, ClientSets
<1>2. ASSUME NEW u \in Users
      PROVE  Cardinality(OfUser(u)') =
                 IF u = who[c].user THEN Cardinality(OfUser(u)) + 1 ELSE Cardinality(OfUser(u))
  <2>1. OfUser(u) \in SUBSET Clients /\ c \notin OfUser(u)  BY DEF OfUser
  <2>2. u = who[c].user => OfUser(u)' = OfUser(u) \cup {c}  BY DEF OfUser
  <2>3. u # who[c].user => OfUser(u)' = OfUser(u)  BY DEF OfUser
  <2>. QED  BY <2>1, <2>2, <2>3, ClientSets
<1>. QED  BY <1>1, <1>2

\* A session that gives its reservation back leaves exactly its own two
\* sets.
LEMMA Leaves ==
    ASSUME TypeOK, NEW c \in Clients, Reserved(c), ~Reserved(c)', who' = who,
           \A e \in Clients : e # c => (Reserved(e)' <=> Reserved(e))
    PROVE  /\ \A d \in Dbs : /\ Cardinality(InDb(d)) \in Nat
                             /\ d = who[c].db => Cardinality(InDb(d)) > 0
                             /\ Cardinality(InDb(d)') = IF d = who[c].db THEN Cardinality(InDb(d)) - 1 ELSE Cardinality(InDb(d))
           /\ \A u \in Users : /\ Cardinality(OfUser(u)) \in Nat
                               /\ u = who[c].user => Cardinality(OfUser(u)) > 0
                               /\ Cardinality(OfUser(u)') = IF u = who[c].user THEN Cardinality(OfUser(u)) - 1 ELSE Cardinality(OfUser(u))
<1>1. ASSUME NEW d \in Dbs
      PROVE  /\ Cardinality(InDb(d)) \in Nat
             /\ d = who[c].db => Cardinality(InDb(d)) > 0
             /\ Cardinality(InDb(d)') = IF d = who[c].db THEN Cardinality(InDb(d)) - 1 ELSE Cardinality(InDb(d))
  <2>1. InDb(d) \in SUBSET Clients  BY DEF InDb
  <2>2. d = who[c].db => c \in InDb(d) /\ InDb(d)' = InDb(d) \ {c}  BY DEF InDb
  <2>3. d # who[c].db => InDb(d)' = InDb(d)  BY DEF InDb
  <2>. QED  BY <2>1, <2>2, <2>3, ClientSets
<1>2. ASSUME NEW u \in Users
      PROVE  /\ Cardinality(OfUser(u)) \in Nat
             /\ u = who[c].user => Cardinality(OfUser(u)) > 0
             /\ Cardinality(OfUser(u)') = IF u = who[c].user THEN Cardinality(OfUser(u)) - 1 ELSE Cardinality(OfUser(u))
  <2>1. OfUser(u) \in SUBSET Clients  BY DEF OfUser
  <2>2. u = who[c].user => c \in OfUser(u) /\ OfUser(u)' = OfUser(u) \ {c}  BY DEF OfUser
  <2>3. u # who[c].user => OfUser(u)' = OfUser(u)  BY DEF OfUser
  <2>. QED  BY <2>1, <2>2, <2>3, ClientSets
<1>. QED  BY <1>1, <1>2

\* Nobody joins or leaves.
LEMMA Stays ==
    ASSUME Counted, UNCHANGED <<conf, perDB, perUser>>,
           \A e \in Clients : Reserved(e)' <=> Reserved(e),
           \A e \in Clients : Reserved(e) => who'[e] = who[e]
    PROVE  Counted'
<1>1. \A d \in Dbs : InDb(d)' = InDb(d)  BY DEF InDb
<1>2. \A u \in Users : OfUser(u)' = OfUser(u)  BY DEF OfUser
<1>. QED  BY <1>1, <1>2 DEF Counted

\* Reserve counts a session in both maps within the caps, Release takes it
\* out of both.
LEMMA HandlerLimits ==
    ASSUME TypeOK, Doors, LimitsExact, NEW c \in Clients, HandlerStep(c)
    PROVE  LimitsExact' /\ perDB' \in [Dbs -> Nat] /\ perUser' \in [Users -> Nat]
<1>0. /\ pc' = [pc EXCEPT ![c] = pc'[c]] /\ conf' = conf /\ (Limited' <=> Limited)
      /\ pc \in [Clients -> GoPCs \cup {"out", "accepted", "counting"}]
      /\ perDB \in [Dbs -> Nat] /\ perUser \in [Users -> Nat]
      /\ who[c].db \in Dbs /\ who[c].user \in Users
      /\ conf.db \in Nat /\ conf.user \in Nat
  BY HandlerFrame, ConfTypes DEF TypeOK, Limited, Identity
<1>1. CASE Reserve(c) /\ UNCHANGED limits
  <2>1. who' = who /\ UNCHANGED <<perDB, perUser>>  BY <1>1 DEF Reserve, limits
  <2>2. ~Limited \/ pc'[c] = "exit"  BY <1>0, <1>1 DEF Reserve, To, Count, limits
  <2>3. pc[c] = "reserve"  BY <1>1 DEF Reserve, At
  <2>4. SUFFICES ASSUME Limited PROVE Counted'  BY <1>0, <2>1, CountedIsLimitsNext
  <2>5. \A e \in Clients : Reserved(e)' <=> Reserved(e)
    BY <1>0, <2>1, <2>2, <2>3, <2>4
       DEF Reserved, ToConsole, ReservedPCs, TablePCs, SessionPCs
  <2>. QED  BY <1>0, <2>1, <2>4, <2>5, Stays, CountedIsLimits
<1>2. CASE Reserve(c) /\ ~UNCHANGED limits
  <2>1. /\ who' = who /\ Limited /\ pc[c] = "reserve" /\ pc'[c] = "register"
        /\ conf.db > 0 => perDB[who[c].db] < conf.db
        /\ conf.user > 0 => perUser[who[c].user] < conf.user
        /\ perDB' = [perDB EXCEPT ![who[c].db] = @ + 1]
        /\ perUser' = [perUser EXCEPT ![who[c].user] = @ + 1]
    BY <1>0, <1>2 DEF Reserve, At, To, Count, limits
  <2>2. ~ToConsole(c)  BY <2>1 DEF Doors
  <2>3. ~Reserved(c) /\ Reserved(c)'
    BY <1>0, <2>1, <2>2 DEF Reserved, ToConsole, ReservedPCs, TablePCs, SessionPCs
  <2>4. \A e \in Clients : e # c => (Reserved(e)' <=> Reserved(e))
    BY <1>0, <2>1 DEF Reserved, ToConsole
  <2>5. Counted  BY <2>1, CountedIsLimits
  <2>6. Counted'
    <3>1. \A d \in Dbs : Cardinality(InDb(d)') =
              IF d = who[c].db THEN Cardinality(InDb(d)) + 1 ELSE Cardinality(InDb(d))
      BY <2>1, <2>3, <2>4, Joins, ZenonT(40)
    <3>2. \A u \in Users : Cardinality(OfUser(u)') =
              IF u = who[c].user THEN Cardinality(OfUser(u)) + 1 ELSE Cardinality(OfUser(u))
      BY <2>1, <2>3, <2>4, Joins, ZenonT(40)
    <3>3. ASSUME NEW d \in Dbs
          PROVE  perDB'[d] = Cardinality(InDb(d)') /\ (conf.db > 0 => perDB'[d] <= conf.db)
      BY <1>0, <2>1, <2>5, <3>1 DEF Counted
    <3>4. ASSUME NEW u \in Users
          PROVE  perUser'[u] = Cardinality(OfUser(u)') /\ (conf.user > 0 => perUser'[u] <= conf.user)
      BY <1>0, <2>1, <2>5, <3>2 DEF Counted
    <3>. QED  BY <1>0, <3>3, <3>4 DEF Counted
  <2>7. perDB' \in [Dbs -> Nat] /\ perUser' \in [Users -> Nat]  BY <1>0, <2>1
  <2>. QED  BY <2>6, <2>7, CountedIsLimitsNext
<1>3. CASE Release(c)
  <2>1. /\ who' = who /\ pc[c] = "unreserve" /\ pc'[c] = "exit"
        /\ perDB' = [perDB EXCEPT ![who[c].db] = IF @ > 0 THEN @ - 1 ELSE @]
        /\ perUser' = [perUser EXCEPT ![who[c].user] = IF @ > 0 THEN @ - 1 ELSE @]
    BY <1>0, <1>3 DEF Release, At, To
  <2>2. ~ToConsole(c) /\ Limited  BY <2>1 DEF Doors
  <2>3. Reserved(c) /\ ~Reserved(c)'
    BY <1>0, <2>1, <2>2 DEF Reserved, ReservedPCs, TablePCs, SessionPCs
  <2>4. \A e \in Clients : e # c => (Reserved(e)' <=> Reserved(e))
    BY <1>0, <2>1 DEF Reserved, ToConsole
  <2>5. Counted  BY <2>2, CountedIsLimits
  <2>6. Counted'
    <3>1. \A d \in Dbs :
             /\ Cardinality(InDb(d)) \in Nat
             /\ d = who[c].db => Cardinality(InDb(d)) > 0
             /\ Cardinality(InDb(d)') = IF d = who[c].db THEN Cardinality(InDb(d)) - 1 ELSE Cardinality(InDb(d))
      BY <2>1, <2>3, <2>4, Leaves, ZenonT(40)
    <3>2. \A u \in Users :
             /\ Cardinality(OfUser(u)) \in Nat
             /\ u = who[c].user => Cardinality(OfUser(u)) > 0
             /\ Cardinality(OfUser(u)') = IF u = who[c].user THEN Cardinality(OfUser(u)) - 1 ELSE Cardinality(OfUser(u))
      BY <2>1, <2>3, <2>4, Leaves, ZenonT(40)
    <3>3. ASSUME NEW d \in Dbs
          PROVE  perDB'[d] = Cardinality(InDb(d)') /\ (conf.db > 0 => perDB'[d] <= conf.db)
      BY <1>0, <2>1, <2>5, <3>1 DEF Counted
    <3>4. ASSUME NEW u \in Users
          PROVE  perUser'[u] = Cardinality(OfUser(u)') /\ (conf.user > 0 => perUser'[u] <= conf.user)
      BY <1>0, <2>1, <2>5, <3>2 DEF Counted
    <3>. QED  BY <1>0, <3>3, <3>4 DEF Counted
  <2>7. perDB' \in [Dbs -> Nat] /\ perUser' \in [Users -> Nat]  BY <1>0, <2>1
  <2>. QED  BY <2>6, <2>7, CountedIsLimitsNext
<1>4. CASE ~Reserve(c) /\ ~Release(c)
  <2>1. UNCHANGED <<perDB, perUser>>
    BY <1>4, Zenon DEF HandlerStep, Startup, Authenticate, AdminDoor, Route, Register, FakeAuth,
       ClientAsks, ClientLeaves, Ask, Acquired, TxEnds, Deregister, FreeSlot, Done, OnlyMoves, limits
  <2>2. \A e \in Clients : Reserved(e) => who'[e] = who[e]
    <3>1. CASE Startup(c) \/ Done(c)
      BY <1>0, <3>1 DEF Startup, Done, At, TypeOK, Reserved, ReservedPCs, TablePCs, SessionPCs
    <3>2. CASE ~Startup(c) /\ ~Done(c)
      BY <1>4, <3>2, Zenon DEF HandlerStep, Authenticate, AdminDoor, Route, Register, FakeAuth,
         ClientAsks, ClientLeaves, Ask, Acquired, TxEnds, Deregister, FreeSlot, OnlyMoves
    <3>. QED  BY <3>1, <3>2
  <2>3. SUFFICES ASSUME Limited PROVE Counted'  BY <1>0, <2>1, CountedIsLimitsNext
  <2>4. Reserved(c)' <=> Reserved(c)
    <3>. USE <1>0, <2>3 DEF At, To, OnlyMoves, Reserved, ReservedPCs, TablePCs, SessionPCs
    <3>1. CASE Startup(c) \/ Authenticate(c) \/ Route(c) \/ FreeSlot(c) \/ Done(c)
      BY <3>1 DEF Startup, Authenticate, Route, FreeSlot, Done
    <3>2. CASE AdminDoor(c)  BY <3>2 DEF AdminDoor, ToConsole
    <3>3. CASE Register(c)  BY <3>3 DEF Register, ToConsole
    <3>4. CASE FakeAuth(c)  BY <3>4 DEF FakeAuth, ToConsole
    <3>5. CASE ClientAsks(c) \/ ClientLeaves(c) \/ Ask(c) \/ Acquired(c) \/ TxEnds(c)
      BY <3>5 DEF ClientAsks, ClientLeaves, Ask, Acquired, TxEnds, ToConsole
    <3>6. CASE Deregister(c)  BY <3>6 DEF Deregister, ToConsole
    <3>. QED  BY <1>4, <3>1, <3>2, <3>3, <3>4, <3>5, <3>6 DEF HandlerStep
  <2>5. \A e \in Clients \ {c} : pc'[e] = pc[e] /\ who'[e] = who[e]
    <3>1. CASE Startup(c) \/ Done(c)
      BY <1>0, <3>1, ZenonT(30) DEF Startup, Done, TypeOK
    <3>2. CASE ~Startup(c) /\ ~Done(c)
      <4>1. who' = who
        BY <1>4, <3>2, Zenon DEF HandlerStep, Authenticate, AdminDoor, Route, Register, FakeAuth,
           ClientAsks, ClientLeaves, Ask, Acquired, TxEnds, Deregister, FreeSlot, OnlyMoves
      <4>. QED  BY <1>0, <4>1
    <3>. QED  BY <3>1, <3>2
  <2>6. \A e \in Clients : Reserved(e)' <=> Reserved(e)
    BY <2>4, <2>5 DEF Reserved, ToConsole
  <2>. QED  BY <1>0, <2>1, <2>2, <2>3, <2>6, Stays, CountedIsLimits
<1>. QED  BY <1>1, <1>2, <1>3, <1>4

\* No other goroutine touches the counters.
LEMMA OthersLimits ==
    ASSUME TypeOK, Handed, Phases, LimitsExact, RunStep \/ \E l \in Loops : LoopStep(l)
    PROVE  LimitsExact' /\ perDB' = perDB /\ perUser' = perUser
<1>1. /\ UNCHANGED <<conf, who, perDB, perUser>>
      /\ \A c \in Clients : pc'[c] = pc[c] \/
            (pc[c] \notin ReservedPCs /\ pc'[c] \notin ReservedPCs)
  <2>1. CASE RunStep  BY <2>1, RunFrame
  <2>2. ASSUME NEW l \in Loops, LoopStep(l)
        PROVE  /\ UNCHANGED <<conf, who, perDB, perUser>>
               /\ \A c \in Clients : pc'[c] = pc[c] \/
                     (pc[c] \notin ReservedPCs /\ pc'[c] \notin ReservedPCs)
    BY <2>2, LoopFrame DEF ReservedPCs, TablePCs, SessionPCs
  <2>. QED  BY <2>1, <2>2
<1>2. \A c \in Clients : Reserved(c)' <=> Reserved(c)  BY <1>1 DEF Reserved, ToConsole
<1>3. Limited' <=> Limited  BY <1>1 DEF Limited
<1>. QED  BY <1>1, <1>2, <1>3, Stays, CountedIsLimits, CountedIsLimitsNext

----------------------------------------------------------------------------
(* Types, and the invariant.                                               *)

\* The wait group's counter stays a natural number because it counts.
LEMMA WgType ==
    ASSUME WgExact'
    PROVE  wg' \in Nat
<1>1. LiveLoops' \in SUBSET Loops /\ Handlers' \in SUBSET Clients
  BY DEF LiveLoops, Handlers
<1>2. Cardinality(LiveLoops') \in Nat  BY <1>1, LoopSets
<1>3. Cardinality(Handlers') \in Nat  BY <1>1, ClientSets
<1>. QED  BY <1>2, <1>3 DEF WgExact

\* The four counters are the business of the lemmas above; this is the rest.
RestTypes ==
    /\ conf \in Configs
    /\ bound \subseteq Loops \cup HTTP
    /\ loop \in [Loops -> LoopPCs]
    /\ inHand \in [Loops -> Clients \cup {NoClient}]
    /\ pc \in [Clients -> GoPCs \cup {"out", "accepted", "counting"}]
    /\ who \in [Clients -> Identity]
    /\ table \in [Pids -> Clients \cup {NoClient}]
    /\ sid \in [Clients -> Pids \cup {0}]
    /\ draining \in BOOLEAN /\ poolsOpen \in BOOLEAN
    /\ sd \in RunPCs /\ waiter \in {"none", "waiting", "drained"}

\* The remaining variables keep their types in a handler's step, ...
LEMMA HandlerTypes ==
    ASSUME TypeOK, NEW c \in Clients, HandlerStep(c)
    PROVE  RestTypes'
<1>1. /\ UNCHANGED <<conf, bound, loop, inHand, draining, poolsOpen, sd, waiter>>
      /\ pc' \in [Clients -> GoPCs \cup {"out", "accepted", "counting"}]
  BY HandlerFrame DEF TypeOK
<1>2. who' \in [Clients -> Identity]
  <2>1. CASE Startup(c)  BY <2>1 DEF Startup, TypeOK
  <2>2. CASE Done(c)
    <3>1. Nobody \in Identity
      <4>1. PICK u \in Users, d \in Dbs : TRUE  BY FrontendAssumption
      <4>2. [user |-> u, db |-> d] \in Identity  BY <4>1 DEF Identity
      <4>. QED  BY <4>2, Zenon DEF Nobody
    <3>. QED  BY <2>2, <3>1 DEF Done, TypeOK
  <2>3. CASE ~Startup(c) /\ ~Done(c)
    <3>1. who' = who
      BY <2>3, Zenon DEF HandlerStep, Authenticate, AdminDoor, Route, Reserve, Register, FakeAuth,
         ClientAsks, ClientLeaves, Ask, Acquired, TxEnds, Deregister, Release, FreeSlot, OnlyMoves
    <3>. QED  BY <3>1 DEF TypeOK
  <2>. QED  BY <2>1, <2>2, <2>3
<1>3. table' \in [Pids -> Clients \cup {NoClient}] /\ sid' \in [Clients -> Pids \cup {0}]
  <2>1. CASE Register(c)  BY <2>1 DEF Register, TypeOK
  <2>2. CASE Deregister(c)  BY <2>2 DEF Deregister, TypeOK
  <2>3. CASE ~Register(c) /\ ~Deregister(c)
    <3>1. table' = table /\ sid' = sid
      BY <2>3, Zenon DEF HandlerStep, Startup, Authenticate, AdminDoor, Route, Reserve, FakeAuth,
         ClientAsks, ClientLeaves, Ask, Acquired, TxEnds, Release, FreeSlot, Done, OnlyMoves, sessions
    <3>. QED  BY <3>1 DEF TypeOK
  <2>. QED  BY <2>1, <2>2, <2>3
<1>. QED  BY <1>1, <1>2, <1>3 DEF RestTypes, TypeOK

\* ... in a loop's, ...
LEMMA LoopTypes ==
    ASSUME TypeOK, Handed, NEW l \in Loops, LoopStep(l)
    PROVE  RestTypes'
<1>1. /\ UNCHANGED <<conf, bound, draining, poolsOpen, sd, waiter, who, table, sid>>
      /\ pc' \in [Clients -> GoPCs \cup {"out", "accepted", "counting"}]
  BY LoopFrame, ZenonT(30)
<1>2. loop' \in [Loops -> LoopPCs] /\ inHand' \in [Loops -> Clients \cup {NoClient}]
  BY DEF LoopStep, Accept, LoopEnds, Admit, Spawn, TypeOK, LoopPCs
<1>. QED  BY <1>1, <1>2 DEF RestTypes, TypeOK

\* ... and in one of run or shutdown.
LEMMA RunTypes ==
    ASSUME TypeOK, Phases, RunStep
    PROVE  RestTypes'
<1>1. UNCHANGED <<conf, pc, who, table, sid, inHand>>  BY RunFrame
<1>2. loop' \in [Loops -> LoopPCs]  BY RunFrame DEF TypeOK, LoopPCs
<1>3. bound' \subseteq Loops \cup HTTP /\ draining' \in BOOLEAN /\ poolsOpen' \in BOOLEAN
  <2>1. CASE Configure \/ ListenTCP \/ ListenMetrics \/ ListenAdmin \/ ServeTCP
    BY <2>1, FrontendAssumption
       DEF Configure, ListenTCP, ListenMetrics, ListenAdmin, Listen, ServeTCP, TypeOK, HTTP
  <2>2. CASE ServeUnix
    <3>1. "unix" \in Loops  BY <2>2 DEF ServeUnix, Phases
    <3>2. bound \subseteq Loops \cup HTTP  BY DEF TypeOK
    <3>3. bound' \subseteq Loops \cup HTTP  BY <2>2, <3>1, <3>2 DEF ServeUnix
    <3>4. UNCHANGED <<draining, poolsOpen>>  BY <2>2, ZenonT(30) DEF ServeUnix
    <3>. QED  BY <3>3, <3>4 DEF TypeOK
  <2>3. CASE Signal \/ Shutdown
    BY <2>3 DEF Signal, Shutdown, CloseListener, MarkDraining, ShutdownHTTP, WaitReturns, Drain,
                ClosePools, Grace, SameServing, TypeOK
  <2>. QED  BY <2>1, <2>2, <2>3 DEF RunStep, Boot
<1>4. sd' \in RunPCs /\ waiter' \in {"none", "waiting", "drained"}
  <2>. USE DEF RunPCs, BootPCs, ExitPCs, Goto, TypeOK
  <2>1. CASE Boot
    BY <2>1 DEF Boot, Configure, ListenTCP, ListenMetrics, ListenAdmin, Listen, ServeTCP, ServeUnix
  <2>2. CASE Signal \/ Shutdown
    BY <2>2 DEF Signal, Shutdown, CloseListener, MarkDraining, ShutdownHTTP, WaitReturns, Drain,
                ClosePools, Grace
  <2>. QED  BY <2>1, <2>2 DEF RunStep
<1>. QED  BY <1>1, <1>2, <1>3, <1>4 DEF RestTypes, TypeOK

\* Before run has started nothing is counted.
LEMMA InitInv == Init => FrontendInv
<1>. SUFFICES ASSUME Init PROVE FrontendInv  OBVIOUS
<1>1. TypeOK
  <2>1. Nobody \in Identity
    <3>1. PICK u \in Users, d \in Dbs : TRUE  BY FrontendAssumption
    <3>2. [user |-> u, db |-> d] \in Identity  BY <3>1 DEF Identity
    <3>. QED  BY <3>2, Zenon DEF Nobody
  <2>. QED  BY <2>1 DEF Init, TypeOK, LoopPCs, RunPCs, BootPCs
<1>2. Handed  BY DEF Init, Handed
<1>3. Phases  BY DEF Init, Phases, BootPCs, ExitPCs
<1>4. Doors  BY DEF Init, Doors
<1>5. Cardinality({}) = 0  BY FS_EmptySet
<1>6. DrainedForGood
  <2>1. {l \in Loops : loop[l] \notin {"off", "exited"}} = {}  BY DEF Init
  <2>2. {c \in Clients : Running(c)} = {}
    BY DEF Init, Running, GoPCs, HandlerPCs, ReservedPCs, TablePCs, SessionPCs
  <2>. QED  BY <1>5, <2>1, <2>2 DEF Init, DrainedForGood
<1>7. SlotsExact
  <2>1. {c \in Clients : pc[c] \in SlotPCs} = {}
    BY DEF Init, SlotPCs, HandlerPCs, ReservedPCs, TablePCs, SessionPCs
  <2>. QED  BY <1>1, <1>5, <2>1, ConfTypes DEF Init, SlotsExact, TypeOK
<1>8. LimitsExact
  <2>1. \A c \in Clients : ~Reserved(c)
    BY DEF Init, Reserved, ReservedPCs, TablePCs, SessionPCs
  <2>2. /\ \A d \in Dbs : InDb(d) = {}
        /\ \A u \in Users : OfUser(u) = {}
    BY <2>1 DEF InDb, OfUser
  <2>3. conf.db \in Nat /\ conf.user \in Nat  BY <1>1, ConfTypes DEF TypeOK
  <2>4. /\ \A d \in Dbs : perDB[d] = 0 /\ Cardinality(InDb(d)) = 0
        /\ \A u \in Users : perUser[u] = 0 /\ Cardinality(OfUser(u)) = 0
    BY <1>5, <2>2 DEF Init
  <2>5. Counted  BY <2>3, <2>4 DEF Counted
  <2>. QED  BY <2>5, CountedIsLimits
<1>9. TableExact
  BY FrontendAssumption DEF Init, TableExact, TablePCs, SessionPCs
<1>. QED  BY <1>1, <1>2, <1>3, <1>4, <1>6, <1>7, <1>8, <1>9 DEF FrontendInv

\* A step that leaves the loops and the handlers alone keeps Handed.
LEMMA HandedKept ==
    ASSUME Handed, UNCHANGED <<loop, inHand, pc>>
    PROVE  Handed'
BY DEF Handed

\* A step that leaves the loops and run alone keeps Phases.
LEMMA PhasesKept ==
    ASSUME Phases, UNCHANGED <<loop, sd, waiter, bound>>
    PROVE  Phases'
BY DEF Phases

\* Every step of every goroutine keeps the invariant.
LEMMA NextInv == FrontendInv /\ [Next]_vars => FrontendInv'
<1>. SUFFICES ASSUME FrontendInv, [Next]_vars PROVE FrontendInv'  OBVIOUS
<1>0. /\ TypeOK /\ Handed /\ Phases /\ Doors /\ SlotsExact /\ LimitsExact /\ TableExact
      /\ WgExact /\ Drained
  BY DEF FrontendInv, DrainedForGood, WgExact, Drained, LiveLoops, Handlers
<1>1. TypeOK' <=> /\ RestTypes' /\ slots' \in Nat /\ wg' \in Nat
                  /\ perDB' \in [Dbs -> Nat] /\ perUser' \in [Users -> Nat]
  BY Zenon DEF TypeOK, RestTypes
<1>2. DrainedForGood' <=> WgExact' /\ Drained'
  BY DEF DrainedForGood, WgExact, Drained, LiveLoops, Handlers
<1>3. perDB \in [Dbs -> Nat] /\ perUser \in [Users -> Nat]  BY <1>0 DEF TypeOK
<1>4. ASSUME NEW c \in Clients, HandlerStep(c) PROVE FrontendInv'
  <2>1. Handed' /\ Phases' /\ Doors'  BY <1>0, <1>4, HandlerHanded, HandlerPhases, HandlerDoors
  <2>2. WgExact' /\ Drained'  BY <1>0, <1>4, HandlerWg, StepDrained
  <2>3. SlotsExact' /\ slots' \in Nat  BY <1>0, <1>4, HandlerSlots
  <2>4. LimitsExact' /\ perDB' \in [Dbs -> Nat] /\ perUser' \in [Users -> Nat]
    BY <1>0, <1>4, HandlerLimits
  <2>5. TableExact' /\ RestTypes'  BY <1>0, <1>4, HandlerTable, HandlerTypes
  <2>. QED  BY <1>1, <1>2, <2>1, <2>2, <2>3, <2>4, <2>5, WgType DEF FrontendInv
<1>5. ASSUME NEW l \in Loops, LoopStep(l) PROVE FrontendInv'
  <2>1. Handed' /\ Phases' /\ Doors'  BY <1>0, <1>5, LoopHanded, LoopPhases, LoopDoors
  <2>2. WgExact' /\ Drained'  BY <1>0, <1>5, LoopWg, StepDrained
  <2>3. SlotsExact' /\ slots' \in Nat  BY <1>0, <1>5, LoopSlots
  <2>4. LimitsExact' /\ perDB' \in [Dbs -> Nat] /\ perUser' \in [Users -> Nat]
    BY <1>0, <1>3, <1>5, OthersLimits
  <2>5. TableExact' /\ RestTypes'  BY <1>0, <1>5, LoopTable, LoopTypes
  <2>. QED  BY <1>1, <1>2, <2>1, <2>2, <2>3, <2>4, <2>5, WgType DEF FrontendInv
<1>6. ASSUME RunStep PROVE FrontendInv'
  <2>1. Handed' /\ Phases' /\ Doors'  BY <1>0, <1>6, RunHanded, RunPhases, RunDoors
  <2>2. WgExact' /\ Drained'  BY <1>0, <1>6, RunWg, StepDrained
  <2>3. SlotsExact' /\ slots' \in Nat  BY <1>0, <1>6, RunSlots
  <2>4. LimitsExact' /\ perDB' \in [Dbs -> Nat] /\ perUser' \in [Users -> Nat]
    BY <1>0, <1>3, <1>6, OthersLimits
  <2>5. TableExact' /\ RestTypes'  BY <1>0, <1>6, RunTable, RunTypes
  <2>. QED  BY <1>1, <1>2, <2>1, <2>2, <2>3, <2>4, <2>5, WgType DEF FrontendInv
<1>7. ASSUME UNCHANGED vars PROVE FrontendInv'
  <2>. USE <1>7 DEF vars
  <2>0. TypeOK'  BY <1>0, Zenon DEF TypeOK
  <2>1. Handed' /\ Phases'
    <3>1. UNCHANGED <<loop, inHand, pc, sd, waiter, bound>>  BY Zenon
    <3>. QED  BY <1>0, <3>1, HandedKept, PhasesKept
  <2>2. Doors' /\ TableExact'  BY <1>0, Zenon DEF Doors, ToConsole, Limited, TableExact
  <2>3. DrainedForGood' /\ SlotsExact'
    BY <1>0, Zenon DEF FrontendInv, DrainedForGood, Running, SlotsExact
  <2>4. LimitsExact'
    <3>1. \A c \in Clients : (Reserved(c)' <=> Reserved(c)) /\ who'[c] = who[c]
      BY Zenon DEF Reserved, ToConsole
    <3>2. Limited' <=> Limited  BY Zenon DEF Limited
    <3>3. UNCHANGED <<conf, perDB, perUser>>  BY Zenon
    <3>. QED  BY <1>0, <3>1, <3>2, <3>3, Stays, CountedIsLimits, CountedIsLimitsNext
  <2>. QED  BY <2>0, <2>1, <2>2, <2>3, <2>4 DEF FrontendInv
<1>. QED  BY <1>4, <1>5, <1>6, <1>7 DEF Next, RunStep

----------------------------------------------------------------------------
\* The inductive invariant holds in every state of every behaviour.
THEOREM FrontendInvariant == Spec => []FrontendInv
<1>1. Init => FrontendInv  BY InitInv
<1>2. FrontendInv /\ [Next]_vars => FrontendInv'  BY NextInv
<1>. QED  BY <1>1, <1>2, PTL DEF Spec

\* wg.Wait in shutdown returns only when no accept loop and no handler is
\* left, and nothing can call wg.Add afterwards.
THEOREM WaitGroupSound == Spec => []DrainedForGood
<1>1. FrontendInv => DrainedForGood  BY DEF FrontendInv
<1>. QED  BY <1>1, FrontendInvariant, PTL

\* max_client_conn holds over all the accept loops and no slot is lost; and in
\* ConnLimiter every Reserve is paired with one Release on every way out of
\* handleConnWithOpts, and the caps per database and per user hold.
THEOREM CapsRespected == Spec => []CapsExact
<1>1. FrontendInv => CapsExact  BY DEF FrontendInv, CapsExact
<1>. QED  BY <1>1, FrontendInvariant, PTL

\* A session is in the table under its id, and only while its handler runs.
THEOREM TableSound == Spec => []TableExact
<1>1. FrontendInv => TableExact  BY DEF FrontendInv
<1>. QED  BY <1>1, FrontendInvariant, PTL

\* Every return of run leaves no listener open, and a drain that is reported
\* as clean cut off no client.
THEOREM ExitsClean == Spec => []ExitClean
<1>1. FrontendInv => ExitClean
  BY DEF FrontendInv, Phases, DrainedForGood, ExitClean, Exited, ExitPCs
<1>. QED  BY <1>1, FrontendInvariant, PTL
=============================================================================
