-------------------------------- MODULE Pool --------------------------------
(***************************************************************************)
(* The bounded LIFO pool of backend connections, src/pool/pool.go.         *)
(*                                                                         *)
(* Every goroutine that runs code of the pool is a process here, and every *)
(* atomic access to shared state (an atomic load or compare-and-swap, a    *)
(* channel operation, a critical section of p.mu) is one step of it:       *)
(*   - a client goroutine calls Acquire, uses the connection, and gives it *)
(*     back with Release or Discard;                                       *)
(*   - the warm-up goroutine runs warmUp once;                             *)
(*   - the reaper runs reapExpired on every tick;                          *)
(*   - reconnectors (the admin API, the DNS watcher) call Reconnect;       *)
(*   - closers (shutdown, reload, the admin API) call Close.               *)
(*                                                                         *)
(* The pause gate and the circuit breaker are modules of their own         *)
(* (PauseGate, CircuitBreaker).  Here a goroutine parked at the gate is    *)
(* one that has not reached the semaphore yet, and the verdict of the      *)
(* breaker is a choice: both can only delay or refuse an Acquire.  Time is *)
(* abstract: whether a connection has expired, is healthy, or a context    *)
(* has ended is a choice.                                                  *)
(***************************************************************************)
EXTENDS Integers, Sequences, FiniteSets, Functions

CONSTANTS
    Clients,        \* goroutines that call Acquire, Release and Discard
    Warmer,         \* the warmUp goroutine
    Reaper,         \* the reaper goroutine
    Reconnectors,   \* goroutines that call Reconnect
    Closers,        \* goroutines that call Close
    Conns,          \* backend connections (net.Conn values)
    NoConn,         \* "no connection" (nil)
    Limit,          \* cap(p.sem)
    MinIdle,        \* min_pool_size, 0 when warm-up is off
    Expiry,         \* whether idle_timeout or max_lifetime is set
    MaxGen          \* bound: how often Reconnect is called

Procs == Clients \cup {Warmer}
Drainers == {Reaper} \cup Reconnectors \cup Closers

ASSUME PoolAssumption ==
    /\ IsFiniteSet(Clients) /\ Warmer \notin Clients
    /\ Reconnectors \cap Closers = {} /\ Reaper \notin Reconnectors \cup Closers
    /\ IsFiniteSet(Conns) /\ NoConn \notin Conns
    /\ Limit \in Nat \ {0} /\ MinIdle \in Nat /\ MaxGen \in Nat
    /\ Expiry \in BOOLEAN

VARIABLES
    sem,            \* len(p.sem): slots taken
    idle,           \* p.idle, the top of the stack last
    tagged,         \* the keys of p.connMeta
    gen,            \* connMeta.gen of a tagged connection
    open,           \* connections whose socket is open
    reconnectGen,   \* p.reconnectGen
    closed,         \* p.closed
    done,           \* p.done is closed
    pc,             \* where each client and the warm-up goroutine is
    conn,           \* the connection in that goroutine's hands
    toWarm,         \* iterations warmUp has left
    adm,            \* where each drainer is
    doomed          \* connections a drainer took off the stack and must close

vars == <<sem, idle, tagged, gen, open, reconnectGen, closed, done,
          pc, conn, toWarm, adm, doomed>>

\* warmUp never asks for more than the pool can hold.
WarmTarget == IF MinIdle > Limit THEN Limit ELSE MinIdle

\* Program points of Procs at which the goroutine owns a slot of the semaphore.
SlotPCs == {"slot", "pop", "check", "dial", "dialed", "busy", "rel", "relgen",
            "free", "wdial", "wpush", "wfree"}
PCs == SlotPCs \cup {"out", "wait", "wnext", "wsem"}
DrainPCs == {"ready", "bumped", "retiring"}
ClosePCs == {"ready", "noop", "closing", "drained", "polling", "returned", "timedout"}
AdmPCs == DrainPCs \cup ClosePCs

Init ==
    /\ sem = 0
    /\ idle = << >>
    /\ tagged = {}
    /\ gen = [c \in Conns |-> 0]
    /\ open = {}
    /\ reconnectGen = 0
    /\ closed = FALSE
    /\ done = FALSE
    /\ pc = [p \in Procs |-> IF p = Warmer THEN "wnext" ELSE "out"]
    /\ conn = [p \in Procs |-> NoConn]
    /\ toWarm = WarmTarget
    /\ adm = [d \in Drainers |-> "ready"]
    /\ doomed = [d \in Drainers |-> {}]

----------------------------------------------------------------------------
(* Building blocks shared by the operations.                               *)

Goto(p, l) == pc' = [pc EXCEPT ![p] = l]

Hold(p, c) == conn' = [conn EXCEPT ![p] = c]

\* A step that touches neither the stack nor the connections of the pool.
SameConns == UNCHANGED <<idle, tagged, gen, open>>

\* What no client or warm-up step changes.
SameAdmin == UNCHANGED <<reconnectGen, closed, done, adm, doomed>>

\* Close the socket of c and forget its metadata (retire; Release inlines it).
retire(c) ==
    /\ tagged' = tagged \ {c}
    /\ open' = open \ {c}
    /\ UNCHANGED gen

\* Give a slot back without blocking; on an empty semaphore nothing happens.
releaseSlot == sem' = IF sem > 0 THEN sem - 1 ELSE sem

\* connMeta.Store: the generation is the one of now, not of the dial.
Tag(c) ==
    /\ tagged' = tagged \cup {c}
    /\ gen' = [gen EXCEPT ![c] = reconnectGen]

\* The stack without the entries of gone, in the order they had: s composed
\* with the increasing enumeration of the positions that stay.
Kept(s, gone) ==
    LET stay == {i \in DOMAIN s : s[i] \notin gone}
        n == Cardinality(stay)
    IN {[i \in 1..n |-> s[f[i]]] :
           f \in {g \in [1..n -> stay] :
                    /\ \A i, j \in 1..n : i < j => g[i] < g[j]
                    /\ \A k \in stay : \E i \in 1..n : g[i] = k}}

----------------------------------------------------------------------------
(* Acquire.                                                                *)

\* The pre-check of closed: a closed pool refuses, and the caller is back
\* where it was.  Past it the goroutine passes the pause gate and parks on
\* the semaphore ("wait").
Acquire(p) ==
    /\ pc[p] = "out" /\ ~closed
    /\ Goto(p, "wait")
    /\ UNCHANGED <<sem, conn, toWarm>> /\ SameConns /\ SameAdmin

\* case p.sem <- struct{}{}.  A select may take this case although done is
\* closed: with several cases ready Go chooses any of them.
TakeSlot(p) ==
    /\ pc[p] = "wait" /\ sem < Limit
    /\ sem' = sem + 1
    /\ Goto(p, "slot")
    /\ UNCHANGED <<conn, toWarm>> /\ SameConns /\ SameAdmin

\* case <-p.done and case <-ctx.Done(), at the gate or at the semaphore.
\* The context may end at any time, so done adds nothing to the guard.
GiveUp(p) ==
    /\ pc[p] = "wait"
    /\ Goto(p, "out")
    /\ UNCHANGED <<sem, conn, toWarm>> /\ SameConns /\ SameAdmin

\* Bug forms: closed is not read again; the early return keeps the slot.
RecheckSkipped(p) ==
    /\ pc[p] = "slot"
    /\ Goto(p, "pop")
    /\ UNCHANGED <<sem, conn, toWarm>> /\ SameConns /\ SameAdmin

RecheckLeaksSlot(p) ==
    /\ pc[p] = "slot"
    /\ Goto(p, IF closed THEN "out" ELSE "pop")
    /\ UNCHANGED <<sem, conn, toWarm>> /\ SameConns /\ SameAdmin

\* closed is read again once the slot is held.
RecheckClosed(p) ==
    /\ pc[p] = "slot"
    /\ Goto(p, IF closed THEN "free" ELSE "pop")
    /\ UNCHANGED <<sem, conn, toWarm>> /\ SameConns /\ SameAdmin

\* Bug form: dial without trying the stack.
PopSkipped(p) ==
    /\ pc[p] = "pop"
    /\ Goto(p, "dial")
    /\ UNCHANGED <<sem, conn, toWarm>> /\ SameConns /\ SameAdmin

\* popIdle found the stack empty: the goroutine is going to dial.
PopMiss(p) ==
    /\ pc[p] = "pop" /\ idle = << >>
    /\ Goto(p, "dial")
    /\ UNCHANGED <<sem, conn, toWarm>> /\ SameConns /\ SameAdmin

\* popIdle takes the connection released last.
PopHit(p) ==
    /\ pc[p] = "pop" /\ idle # << >>
    /\ Hold(p, idle[Len(idle)])
    /\ idle' = SubSeq(idle, 1, Len(idle) - 1)
    /\ Goto(p, "check")
    /\ UNCHANGED <<sem, toWarm, tagged, gen, open>> /\ SameAdmin

\* No health check configured, skipped because the connection is hot, or
\* passed: the connection goes to the caller.
CheckOK(p) ==
    /\ pc[p] = "check"
    /\ Goto(p, "busy")
    /\ UNCHANGED <<sem, conn, toWarm>> /\ SameConns /\ SameAdmin

\* Past max_lifetime or unhealthy: retired, and the stack is tried again.
CheckFails(p) ==
    /\ pc[p] = "check"
    /\ retire(conn[p])
    /\ Hold(p, NoConn)
    /\ Goto(p, "pop")
    /\ UNCHANGED <<sem, toWarm, idle>> /\ SameAdmin

\* The breaker refuses, or dialWithRetry runs out of attempts, of context,
\* or of pool (done closed during a backoff).
DialFails(p) ==
    /\ pc[p] = "dial"
    /\ Goto(p, "free")
    /\ UNCHANGED <<sem, conn, toWarm>> /\ SameConns /\ SameAdmin

\* An attempt of dialWithRetry succeeds.
DialOK(p) ==
    /\ pc[p] = "dial"
    /\ \E c \in Conns \ open :
          /\ Hold(p, c)
          /\ open' = open \cup {c}
    /\ Goto(p, "dialed")
    /\ UNCHANGED <<sem, toWarm, idle, tagged, gen>> /\ SameAdmin

\* The new connection is recorded in connMeta and returned to the caller.
ReturnDialed(p) ==
    /\ pc[p] = "dialed"
    /\ Tag(conn[p])
    /\ Goto(p, "busy")
    /\ UNCHANGED <<sem, conn, toWarm, idle, open>> /\ SameAdmin

----------------------------------------------------------------------------
(* Release and Discard, called by the client that holds the connection.    *)

\* Close the connection in p's hands; the slot is given back next.
CloseHeld(p) ==
    /\ retire(conn[p])
    /\ Hold(p, NoConn)
    /\ Goto(p, "free")
    /\ UNCHANGED idle

\* No record of the connection: it is closed, and no slot is freed.  Unreachable
\* while callers return each connection once, as the relay does.
rejectForeign(p) ==
    /\ conn[p] \notin tagged
    /\ open' = open \ {conn[p]}
    /\ Hold(p, NoConn) /\ Goto(p, "out")
    /\ UNCHANGED <<idle, tagged, gen>>

\* The ownership check, then the fast path on a closed pool.
ReleaseStart(p) ==
    /\ pc[p] = "busy"
    /\ \/ rejectForeign(p)
       \/ conn[p] \in tagged /\ closed /\ CloseHeld(p)
       \/ /\ conn[p] \in tagged /\ ~closed
          /\ Goto(p, "rel") /\ UNCHANGED conn /\ SameConns
    /\ UNCHANGED <<sem, toWarm>> /\ SameAdmin

\* The stale-generation check, made before p.mu is taken.
ReleaseGen(p) ==
    /\ pc[p] = "rel"
    /\ \/ gen[conn[p]] < reconnectGen /\ CloseHeld(p)
       \/ /\ gen[conn[p]] >= reconnectGen
          /\ Goto(p, "relgen") /\ UNCHANGED conn /\ SameConns
    /\ UNCHANGED <<sem, toWarm>> /\ SameAdmin

Push(p) ==
    /\ idle' = Append(idle, conn[p])
    /\ Hold(p, NoConn) /\ Goto(p, "free")
    /\ UNCHANGED <<tagged, gen, open>>

\* Bug form: no second look at closed.
PushUnchecked(p) ==
    /\ pc[p] = "relgen"
    /\ Push(p)
    /\ UNCHANGED <<sem, toWarm>> /\ SameAdmin

\* The critical section: closed is read again, a connection that is idle
\* already (again a caller's mistake) is refused and frees no slot, any other
\* goes on top of the stack.
ReleasePush(p) ==
    /\ pc[p] = "relgen"
    /\ \/ closed /\ CloseHeld(p)
       \/ /\ ~closed /\ conn[p] \in Range(idle)
          /\ Hold(p, NoConn) /\ Goto(p, "out") /\ SameConns
       \/ ~closed /\ conn[p] \notin Range(idle) /\ Push(p)
    /\ UNCHANGED <<sem, toWarm>> /\ SameAdmin

Discard(p) ==
    /\ pc[p] = "busy"
    /\ \/ rejectForeign(p)
       \/ conn[p] \in tagged /\ CloseHeld(p)
    /\ UNCHANGED <<sem, toWarm>> /\ SameAdmin

\* Bug form: a return path without releaseSlot.
SlotKept(p) ==
    /\ pc[p] = "free"
    /\ Goto(p, "out")
    /\ UNCHANGED <<sem, conn, toWarm>> /\ SameConns /\ SameAdmin

\* The releaseSlot that ends Release, Discard and a failed Acquire.
FreeSlot(p) ==
    /\ pc[p] = "free"
    /\ releaseSlot
    /\ Goto(p, "out")
    /\ UNCHANGED <<conn, toWarm>> /\ SameConns /\ SameAdmin

----------------------------------------------------------------------------
(* warmUp.                                                                 *)

\* Loop head: stop when done is closed or the breaker refuses, else go for a
\* slot.  An elapsed loop leaves the goroutine here with toWarm = 0.
WarmNext ==
    /\ pc[Warmer] = "wnext" /\ toWarm > 0
    /\ \/ Goto(Warmer, "wnext") /\ toWarm' = 0
       \/ ~done /\ Goto(Warmer, "wsem") /\ UNCHANGED toWarm
    /\ UNCHANGED <<sem, conn>> /\ SameConns /\ SameAdmin

WarmSlot ==
    /\ pc[Warmer] = "wsem" /\ sem < Limit
    /\ sem' = sem + 1
    /\ Goto(Warmer, "wdial")
    /\ UNCHANGED <<conn, toWarm>> /\ SameConns /\ SameAdmin

WarmGiveUp ==
    /\ pc[Warmer] = "wsem" /\ done
    /\ Goto(Warmer, "wnext") /\ toWarm' = 0
    /\ UNCHANGED <<sem, conn>> /\ SameConns /\ SameAdmin

\* The dial of warmUp does not look at the stack first.
WarmDialFails ==
    /\ pc[Warmer] = "wdial"
    /\ Goto(Warmer, "wfree") /\ toWarm' = toWarm - 1
    /\ UNCHANGED <<sem, conn>> /\ SameConns /\ SameAdmin

WarmDialOK ==
    /\ pc[Warmer] = "wdial"
    /\ \E c \in Conns \ open :
          /\ Hold(Warmer, c)
          /\ open' = open \cup {c}
    /\ Goto(Warmer, "wpush") /\ toWarm' = toWarm - 1
    /\ UNCHANGED <<sem, idle, tagged, gen>> /\ SameAdmin

\* Bug form: on a closed pool warmUp returns without closing what it dialed.
WarmPushLeaks ==
    /\ pc[Warmer] = "wpush"
    /\ \/ closed /\ toWarm' = 0 /\ SameConns
       \/ /\ ~closed
          /\ Tag(conn[Warmer])
          /\ idle' = Append(idle, conn[Warmer])
          /\ UNCHANGED <<toWarm, open>>
    /\ Hold(Warmer, NoConn) /\ Goto(Warmer, "wfree")
    /\ UNCHANGED sem /\ SameAdmin

\* The critical section: a closed pool gets its connection closed and ends
\* warmUp, an open one gets it tagged and pushed.
WarmPush ==
    /\ pc[Warmer] = "wpush"
    /\ \/ /\ closed
          /\ open' = open \ {conn[Warmer]}
          /\ toWarm' = 0 /\ UNCHANGED <<idle, tagged, gen>>
       \/ /\ ~closed
          /\ Tag(conn[Warmer])
          /\ idle' = Append(idle, conn[Warmer])
          /\ UNCHANGED <<toWarm, open>>
    /\ Hold(Warmer, NoConn) /\ Goto(Warmer, "wfree")
    /\ UNCHANGED sem /\ SameAdmin

WarmFree ==
    /\ pc[Warmer] = "wfree"
    /\ releaseSlot
    /\ Goto(Warmer, "wnext")
    /\ UNCHANGED <<conn, toWarm>> /\ SameConns /\ SameAdmin

----------------------------------------------------------------------------
(* The drainers: reaper, Reconnect and Close.                              *)

\* What no drainer step changes.
SameProcs == UNCHANGED <<sem, pc, conn, toWarm>>

AdmGoto(d, l) == adm' = [adm EXCEPT ![d] = l]

\* Bug form: the stack is copied, not taken.
CopyIdle(d, l) ==
    /\ doomed' = [doomed EXCEPT ![d] = Range(idle)]
    /\ AdmGoto(d, l)
    /\ UNCHANGED <<idle, tagged, gen, open, reconnectGen, closed, done>>
    /\ SameProcs

\* Take the whole stack under p.mu; its connections are closed afterwards.
TakeIdle(d, l) ==
    /\ doomed' = [doomed EXCEPT ![d] = Range(idle)]
    /\ idle' = << >>
    /\ AdmGoto(d, l)
    /\ UNCHANGED <<tagged, gen, open, reconnectGen, closed, done>>
    /\ SameProcs

\* Close one of the connections taken off the stack.
Retire(d) ==
    /\ adm[d] \in {"retiring", "polling"}
    /\ \E c \in doomed[d] :
          /\ retire(c)
          /\ doomed' = [doomed EXCEPT ![d] = @ \ {c}]
    /\ UNCHANGED <<idle, reconnectGen, closed, done, adm>> /\ SameProcs

\* reapExpired on an open pool: split the stack into expired and kept.
Reap ==
    /\ Expiry /\ adm[Reaper] = "ready" /\ ~closed
    /\ \E expired \in SUBSET Range(idle) :
          /\ expired # {}
          /\ idle' \in Kept(idle, expired)
          /\ doomed' = [doomed EXCEPT ![Reaper] = expired]
    /\ AdmGoto(Reaper, "retiring")
    /\ UNCHANGED <<tagged, gen, open, reconnectGen, closed, done>>
    /\ SameProcs

\* Back to waiting for the next tick, or Reconnect returns.
DrainDone(d) ==
    /\ adm[d] = "retiring" /\ doomed[d] = {}
    /\ AdmGoto(d, "ready")
    /\ UNCHANGED <<reconnectGen, closed, done, doomed>>
    /\ SameConns /\ SameProcs

\* Reconnect first bumps the generation, then empties the stack.
ReconnectBump(r) ==
    /\ adm[r] = "ready" /\ reconnectGen < MaxGen
    /\ reconnectGen' = reconnectGen + 1
    /\ AdmGoto(r, "bumped")
    /\ UNCHANGED <<closed, done, doomed>> /\ SameConns /\ SameProcs

ReconnectDrain(r) == adm[r] = "bumped" /\ TakeIdle(r, "retiring")

\* The compare-and-swap on closed: only the first Close goes on, any other
\* returns nil at once.
CloseCAS(k) ==
    /\ adm[k] = "ready"
    /\ closed' = TRUE
    /\ AdmGoto(k, IF closed THEN "noop" ELSE "closing")
    /\ UNCHANGED <<reconnectGen, done, doomed>> /\ SameConns /\ SameProcs

CloseDrain(k) == adm[k] = "closing" /\ TakeIdle(k, "drained")

CloseDone(k) ==
    /\ adm[k] = "drained"
    /\ done' = TRUE
    /\ AdmGoto(k, "polling")
    /\ UNCHANGED <<reconnectGen, closed, doomed>> /\ SameConns /\ SameProcs

\* The drained connections are closed and no slot is taken: nil.
CloseReturns(k) ==
    /\ adm[k] = "polling" /\ doomed[k] = {} /\ sem = 0
    /\ AdmGoto(k, "returned")
    /\ UNCHANGED <<reconnectGen, closed, done, doomed>>
    /\ SameConns /\ SameProcs

\* The context of Close ends while slots are taken: an error.
CloseTimesOut(k) ==
    /\ adm[k] = "polling" /\ doomed[k] = {} /\ sem > 0
    /\ AdmGoto(k, "timedout")
    /\ UNCHANGED <<reconnectGen, closed, done, doomed>>
    /\ SameConns /\ SameProcs

----------------------------------------------------------------------------
ClientStep(p) ==
    \/ Acquire(p) \/ TakeSlot(p) \/ GiveUp(p) \/ RecheckClosed(p)
    \/ PopMiss(p) \/ PopHit(p) \/ CheckOK(p) \/ CheckFails(p)
    \/ DialFails(p) \/ DialOK(p) \/ ReturnDialed(p)
    \/ ReleaseStart(p) \/ ReleaseGen(p) \/ ReleasePush(p)
    \/ Discard(p) \/ FreeSlot(p)

WarmStep ==
    \/ WarmNext \/ WarmSlot \/ WarmGiveUp \/ WarmDialFails
    \/ WarmDialOK \/ WarmPush \/ WarmFree

ReconnectStep(r) == ReconnectBump(r) \/ ReconnectDrain(r)

CloseStep(k) ==
    \/ CloseCAS(k) \/ CloseDrain(k) \/ CloseDone(k)
    \/ CloseReturns(k) \/ CloseTimesOut(k)

Next ==
    \/ \E p \in Clients : ClientStep(p)
    \/ WarmStep
    \/ Reap
    \/ \E d \in Drainers : Retire(d) \/ DrainDone(d)
    \/ \E r \in Reconnectors : ReconnectStep(r)
    \/ \E k \in Closers : CloseStep(k)

Spec == Init /\ [][Next]_vars

(***************************************************************************)
(* Fairness.  Goroutines run, dials and health checks end (each has a      *)
(* timeout), and clients return what they hold.  A send on a full channel  *)
(* queues in FIFO order, so a waiter that sees free slots again and again  *)
(* gets one (strong fairness).  Nobody is obliged to call Acquire,         *)
(* Reconnect or Close, and no context is obliged to end.                   *)
(***************************************************************************)
Progress(p) ==
    \/ RecheckClosed(p) \/ PopMiss(p) \/ PopHit(p) \/ CheckOK(p) \/ CheckFails(p)
    \/ DialFails(p) \/ DialOK(p) \/ ReturnDialed(p)
    \/ ReleaseStart(p) \/ ReleaseGen(p) \/ ReleasePush(p)
    \/ Discard(p) \/ FreeSlot(p)

\* Health checks do not fail for ever: see AcquireReturns.
Fairness ==
    /\ \A p \in Clients : /\ WF_vars(Progress(p))
                          /\ SF_vars(TakeSlot(p))
                          /\ SF_vars(CheckOK(p))
    /\ WF_vars(WarmStep) /\ SF_vars(WarmSlot)
    /\ \A d \in Drainers : WF_vars(Retire(d)) /\ WF_vars(DrainDone(d))
    /\ \A r \in Reconnectors : WF_vars(ReconnectDrain(r))
    /\ \A k \in Closers :
          WF_vars(CloseDrain(k) \/ CloseDone(k) \/ CloseReturns(k))

FairSpec == Spec /\ Fairness

----------------------------------------------------------------------------
ClientPCs == {"out", "wait", "slot", "pop", "check", "dial", "dialed", "busy",
              "rel", "relgen", "free"}
WarmPCs == {"wnext", "wsem", "wdial", "wpush", "wfree"}

\* Program points at which a goroutine holds a connection.
HoldPCs == {"check", "dialed", "busy", "rel", "relgen", "wpush"}

\* Type invariant.  A goroutine has a connection exactly at the points of
\* Acquire, Release and warmUp where the code's local variable is one.
TypeOK ==
    /\ sem \in 0..Limit
    /\ idle \in Seq(Conns)
    /\ tagged \subseteq Conns /\ open \subseteq Conns
    /\ gen \in [Conns -> 0..MaxGen] /\ reconnectGen \in 0..MaxGen
    /\ closed \in BOOLEAN /\ done \in BOOLEAN
    /\ pc \in [Procs -> PCs]
    /\ \A p \in Clients : pc[p] \in ClientPCs
    /\ pc[Warmer] \in WarmPCs
    /\ conn \in [Procs -> Conns \cup {NoConn}]
    /\ \A p \in Procs : conn[p] # NoConn <=> pc[p] \in HoldPCs
    /\ toWarm \in 0..WarmTarget
    /\ pc[Warmer] \in {"wsem", "wdial"} => toWarm > 0
    /\ adm \in [Drainers -> AdmPCs]
    /\ \A d \in Drainers \ Closers : adm[d] \in DrainPCs
    /\ \A k \in Closers : adm[k] \in ClosePCs
    /\ doomed \in [Drainers -> SUBSET Conns]

SlotHolders == {p \in Procs : pc[p] \in SlotPCs}
Holders == {p \in Procs : pc[p] \in HoldPCs}

\* Slot accounting: the semaphore counts exactly the goroutines inside the
\* slot-owning part of Acquire, Release, Discard and warmUp.  No path gives
\* a slot back twice (slot_underflow) or forgets to.
SlotsMatchHolders == sem = Cardinality(SlotHolders)

\* New's promise: never more than limit connections outstanding at once.
OutstandingWithinLimit == Cardinality(Holders) <= Limit

\* One connection, one owner: it is in the stack at most once, in the hands
\* of at most one goroutine, in the close list of at most one drainer, and
\* never in two of these places.  (Two owners means two sessions interleave
\* their traffic, or a session has its connection closed under it.)
Exclusive ==
    /\ IsInjective(idle)
    /\ \A p, q \in Procs : conn[p] # NoConn /\ conn[p] = conn[q] => p = q
    /\ \A p \in Procs : conn[p] \notin Range(idle)
    /\ \A d \in Drainers : doomed[d] \cap Range(idle) = {}
    /\ \A d, e \in Drainers : d # e => doomed[d] \cap doomed[e] = {}
    /\ \A p \in Procs, d \in Drainers : conn[p] \notin doomed[d]

\* No socket leak: an open connection is idle, held, or about to be closed,
\* and nobody holds or stacks a closed one.
NoSocketLeak ==
    \A c \in Conns :
        c \in open <=> \/ c \in Range(idle)
                       \/ \E p \in Procs : conn[p] = c
                       \/ \E d \in Drainers : c \in doomed[d]

\* connMeta lives exactly as long as its connection: from the moment Acquire
\* or warmUp publishes it until it is retired.  (A missing record makes
\* Release refuse the connection and keep the slot; a left-over one pins it.)
MetaTracksConns ==
    \A c \in Conns :
        c \in tagged <=> /\ c \in open
                         /\ ~ \E p \in Procs : /\ conn[p] = c
                                              /\ pc[p] \in {"dialed", "wpush"}

\* Once Close has emptied the stack nothing gets onto it again: the re-checks
\* of closed under p.mu in Release and warmUp.
StaysDrained ==
    (\E k \in Closers : adm[k] \in {"drained", "polling", "returned", "timedout"})
        => idle = << >>

\* When Close returns nil from its drain, no client holds a connection and
\* none is past the point where it could still get one.
CloseReturnsDrained ==
    (\E k \in Closers : adm[k] = "returned")
        => \A p \in Clients : pc[p] \in {"out", "wait", "slot", "free"}

\* Goroutines that hold a connection of the pool or have found the stack
\* empty and are dialing one.
Committed == {p \in Procs : pc[p] \in HoldPCs \cup {"dial"}}

\* Size of the pool towards Postgres: idle connections plus those held or
\* being dialed exceed the limit by no more than what warmUp has dialed.
BackendsBounded ==
    Cardinality(Range(idle)) + Cardinality(Committed)
        <= Limit + (WarmTarget - toWarm)

\* What the drainers owe: only one that is closing connections has any left
\* to close, and a closer past its compare-and-swap has closed the pool.
DrainersInStep ==
    /\ \A d \in Drainers :
          doomed[d] # {} => adm[d] \in {"retiring", "drained", "polling"}
    /\ \A k \in Closers : adm[k] # "ready" => closed

\* The inductive invariant of PoolProofs.
PoolInv ==
    /\ TypeOK /\ SlotsMatchHolders /\ Exclusive /\ NoSocketLeak
    /\ MetaTracksConns /\ DrainersInStep /\ StaysDrained
    /\ CloseReturnsDrained /\ BackendsBounded

\* "each one holds up to Limit Postgres backends": the pool never owns more
\* than limit connections.  Holds without warm-up; warmUp dials without
\* looking at the stack, so with min_pool_size set it does not.
AtMostLimitBackends ==
    Cardinality(Range(idle)) + Cardinality(Holders) <= Limit

\* Every Acquire returns, with a connection or with an error: a waiter is
\* never forgotten, also not across Reconnect, reaping and Close.
AcquireReturns ==
    \A p \in Clients : pc[p] = "wait" ~> pc[p] \in {"busy", "out"}

\* After Close every socket of the pool is eventually closed for good, those
\* held by clients, by the warm-up, by the reaper and by Reconnect included.
ClosedPoolEmpties == [](closed => <>[](open = {}))

----------------------------------------------------------------------------
(* The contract, and how the pool's state reads in its terms.              *)

lentTo == [p \in Clients |-> IF pc[p] = "busy" THEN conn[p] ELSE NoConn]

phaseOf ==
    IF \E k \in Closers : adm[k] = "returned" THEN "drained"
    ELSE IF closed THEN "closed" ELSE "open"

Contract == INSTANCE PoolContract WITH lent <- lentTo, live <- open, phase <- phaseOf

\* The pool keeps its contract with the goroutines that use it: what Acquire,
\* Release, Discard, warmUp, the reaper, Reconnect and Close do, step by step
\* and in every interleaving, is a step of PoolContract or invisible to it.
ImplementsContract == Contract!Spec
=============================================================================
