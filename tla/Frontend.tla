------------------------------ MODULE Frontend ------------------------------
(***************************************************************************)
(* The life of the process and of a client connection: run, the accept     *)
(* loops and shutdown (src/main.go), the connection caps                   *)
(* (src/conn_limits.go) and the session table (src/session.go).            *)
(*                                                                         *)
(* Every goroutine is a process: run itself, one accept loop per           *)
(* data-plane listener, one handler per accepted client connection, and    *)
(* the goroutine in which shutdown waits for the wait group.  A handler    *)
(* that ends runs its deferred calls in order, one step each.              *)
(*                                                                         *)
(* Authentication is a choice here and a module of its own (Login), and so *)
(* are routing (Registry) and the relay (Relay), of which only what        *)
(* shutdown depends on is kept: a session waits for its client, asks for a *)
(* backend, or holds one.  Timers may fire at any time.                    *)
(***************************************************************************)
EXTENDS Integers, FiniteSets

CONSTANTS
    Clients,        \* client connections
    NoClient,       \* "no connection"
    Loops,          \* data-plane listeners: "tcp", and "unix" when configured
    Users, Dbs,     \* what a StartupMessage may name
    AdminDb,        \* admin_database
    AdminUsers,     \* admin_users
    Configs,        \* the caps a configuration may set, 0 = no cap
    Pids            \* session ids that registerSession may draw; 0 is none

HTTP == {"metrics", "admin"}

ASSUME FrontendAssumption ==
    /\ IsFiniteSet(Clients) /\ NoClient \notin Clients
    /\ Loops \in {{"tcp"}, {"tcp", "unix"}}
    /\ Configs \subseteq [client : Nat, db : Nat, user : Nat]
    /\ Users # {} /\ Dbs # {} /\ 0 \notin Pids

VARIABLES
    conf,       \* max_client_conn, max_db_connections, max_user_connections
    bound,      \* listeners that are open
    loop,       \* where each accept loop is
    inHand,     \* the connection Accept returned to a loop
    pc,         \* where the handler of each client connection is
    who,        \* user and database of its StartupMessage
    slots,      \* len(clientSlots)
    wg,         \* the counter of the wait group
    perDB,      \* ConnLimiter.perDB, a missing key being 0
    perUser,    \* ConnLimiter.perUser
    table,      \* the session table: pid -> client connection
    sid,        \* the pid a handler got from registerSession
    draining,   \* opts.draining
    poolsOpen,  \* no pool has been closed by shutdown
    sd,         \* where run and shutdown are
    waiter      \* the goroutine that calls wg.Wait

limits == <<perDB, perUser>>
sessions == <<table, sid>>
handlers == <<pc, who, slots, perDB, perUser, table, sid>>
loops == <<loop, inHand>>
vars == <<conf, bound, loop, inHand, pc, who, slots, wg, perDB, perUser, table,
          sid, draining, poolsOpen, sd, waiter>>

Identity == [user : Users, db : Dbs]
Nobody == CHOOSE i \in Identity : TRUE

LoopPCs == {"off", "accept", "got", "slotted", "exited"}
SessionPCs == {"idle", "asking", "acquire", "tx"}
\* Points at which a handler is in the session table, holds a reservation of
\* the ConnLimiter, holds a slot, and is counted by the wait group.
TablePCs == SessionPCs \cup {"fake", "console", "dereg"}
ReservedPCs == TablePCs \cup {"register", "unreserve"}
HandlerPCs == ReservedPCs \cup {"startup", "login", "admitted", "route", "reserve", "exit"}
SlotPCs == HandlerPCs \cup {"counting"}
GoPCs == HandlerPCs \cup {"done"}

BootPCs == {"config", "tcp", "metrics", "admin", "serve", "unix"}
ExitPCs == {"not started", "clean", "incomplete"}
RunPCs == BootPCs \cup ExitPCs \cup
          {"up", "listeners", "flag", "http", "wait", "drained", "late", "grace"}

Exited == sd \in ExitPCs

\* A connection to the console: it is registered without a reservation.
ToConsole(c) == who[c].db = AdminDb /\ who[c].user \in AdminUsers

Init ==
    /\ conf \in Configs
    /\ bound = {}
    /\ loop = [l \in Loops |-> "off"]
    /\ inHand = [l \in Loops |-> NoClient]
    /\ pc = [c \in Clients |-> "out"]
    /\ who = [c \in Clients |-> Nobody]
    /\ slots = 0
    /\ wg = 0
    /\ perDB = [d \in Dbs |-> 0]
    /\ perUser = [u \in Users |-> 0]
    /\ table = [p \in Pids |-> NoClient]
    /\ sid = [c \in Clients |-> 0]
    /\ draining = FALSE
    /\ poolsOpen = TRUE
    /\ sd = "config"
    /\ waiter = "none"

----------------------------------------------------------------------------
(* run: everything is bound before anything is served, and every startup   *)
(* failure closes what is open.                                            *)

Goto(l) == sd' = l

\* Admin server, TLS, audit log, authentication and limits; then listen.
Configure ==
    /\ sd = "config"
    /\ Goto("tcp") \/ Goto("not started")
    /\ UNCHANGED <<conf, bound, wg, draining, poolsOpen, waiter>>
    /\ UNCHANGED loops /\ UNCHANGED handlers

\* Listen on l; when that fails, run returns: already is what the failing
\* branch and the deferred calls close.
Listen(l, next, already) ==
    /\ sd = l
    /\ \/ bound' = bound \cup {l} /\ Goto(next)
       \/ bound' = bound \ already /\ Goto("not started")
    /\ UNCHANGED <<conf, wg, draining, poolsOpen, waiter>>
    /\ UNCHANGED loops /\ UNCHANGED handlers

ListenTCP == Listen("tcp", "metrics", {})
ListenMetrics == Listen("metrics", "admin", {"tcp"})
\* Bug form: the metrics listener stays open.
ListenAdminLeaks == Listen("admin", "serve", {"tcp"})

ListenAdmin == Listen("admin", "serve", {"tcp", "metrics"})

\* The loop holds a token of the wait group for its whole life.
StartLoop(l) ==
    /\ wg' = wg + 1
    /\ loop' = [loop EXCEPT ![l] = "accept"]
    /\ UNCHANGED inHand

ServeTCP ==
    /\ sd = "serve"
    /\ StartLoop("tcp")
    /\ Goto(IF "unix" \in Loops THEN "unix" ELSE "up")     \* unix_socket_dir
    /\ UNCHANGED <<conf, bound, draining, poolsOpen, waiter>> /\ UNCHANGED handlers

\* The TCP loop runs already, so a failure here leaves it to the closed
\* listener.
ServeUnix ==
    /\ sd = "unix"
    /\ \/ /\ bound' = bound \cup {"unix"}
          /\ StartLoop("unix") /\ Goto("up")
       \/ /\ bound' = bound \ {"tcp", "metrics", "admin"}
          /\ Goto("not started") /\ UNCHANGED <<wg, loop, inHand>>
    /\ UNCHANGED <<conf, draining, poolsOpen, waiter>> /\ UNCHANGED handlers

Boot == Configure \/ ListenTCP \/ ListenMetrics \/ ListenAdmin \/ ServeTCP \/ ServeUnix

----------------------------------------------------------------------------
(* acceptLoopWithOpts.                                                     *)

SameRun == UNCHANGED <<conf, bound, draining, poolsOpen, sd, waiter>>

Accept(l) ==
    /\ loop[l] = "accept" /\ l \in bound
    /\ \E c \in Clients :
          /\ pc[c] = "out"
          /\ pc' = [pc EXCEPT ![c] = "accepted"]
          /\ inHand' = [inHand EXCEPT ![l] = c]
    /\ loop' = [loop EXCEPT ![l] = "got"]
    /\ UNCHANGED <<who, slots, wg, perDB, perUser, table, sid>> /\ SameRun

\* net.ErrClosed: the loop returns and its token goes back.
LoopEnds(l) ==
    /\ loop[l] = "accept" /\ l \notin bound
    /\ loop' = [loop EXCEPT ![l] = "exited"]
    /\ wg' = wg - 1
    /\ UNCHANGED inHand /\ UNCHANGED handlers /\ SameRun

\* The non-blocking send on clientSlots, or the rejection.
Admit(l) ==
    /\ loop[l] = "got"
    /\ IF conf.client = 0 \/ slots < conf.client
       THEN /\ slots' = IF conf.client = 0 THEN slots ELSE slots + 1
            /\ pc' = [pc EXCEPT ![inHand[l]] = "counting"]
            /\ loop' = [loop EXCEPT ![l] = "slotted"]
            /\ UNCHANGED inHand
       ELSE /\ pc' = [pc EXCEPT ![inHand[l]] = "out"]
            /\ loop' = [loop EXCEPT ![l] = "accept"]
            /\ inHand' = [inHand EXCEPT ![l] = NoClient]
            /\ UNCHANGED slots
    /\ UNCHANGED <<who, wg, perDB, perUser, table, sid>> /\ SameRun

\* Bug form: the handler is not counted.
SpawnUncounted(l) ==
    /\ loop[l] = "slotted"
    /\ pc' = [pc EXCEPT ![inHand[l]] = "startup"]
    /\ loop' = [loop EXCEPT ![l] = "accept"]
    /\ inHand' = [inHand EXCEPT ![l] = NoClient]
    /\ UNCHANGED <<who, slots, wg, perDB, perUser, table, sid>> /\ SameRun

\* wg.Add(1), then the goroutine of the handler starts.
Spawn(l) ==
    /\ loop[l] = "slotted"
    /\ wg' = wg + 1
    /\ pc' = [pc EXCEPT ![inHand[l]] = "startup"]
    /\ loop' = [loop EXCEPT ![l] = "accept"]
    /\ inHand' = [inHand EXCEPT ![l] = NoClient]
    /\ UNCHANGED <<who, slots, perDB, perUser, table, sid>> /\ SameRun

LoopStep(l) == Accept(l) \/ LoopEnds(l) \/ Admit(l) \/ Spawn(l)

----------------------------------------------------------------------------
(* handleConnWithOpts.                                                     *)

At(c, l) == pc[c] = l
To(c, l) == pc' = [pc EXCEPT ![c] = l]
SameLoops == UNCHANGED loops /\ SameRun
OnlyMoves ==
    UNCHANGED <<who, slots, wg>> /\ UNCHANGED sessions /\ UNCHANGED limits /\ SameLoops

\* The first message: a StartupMessage goes on, a CancelRequest is forwarded
\* and ends the connection, and so does any error.
Startup(c) ==
    /\ At(c, "startup")
    /\ \/ To(c, "login") /\ \E i \in Identity : who' = [who EXCEPT ![c] = i]
       \/ To(c, "exit") /\ UNCHANGED who
    /\ UNCHANGED <<slots, wg>> /\ UNCHANGED sessions /\ UNCHANGED limits /\ SameLoops

\* The failure limiter, authentication and the session rate: see Login.
Authenticate(c) ==
    /\ At(c, "login")
    /\ To(c, "admitted") \/ To(c, "exit")
    /\ OnlyMoves

\* The console takes its users, everybody else goes on to routing.
AdminDoor(c) ==
    /\ At(c, "admitted")
    /\ To(c, IF ToConsole(c) THEN "register" ELSE "route")
    /\ OnlyMoves

Route(c) ==
    /\ At(c, "route")
    /\ To(c, "reserve") \/ To(c, "exit")
    /\ OnlyMoves

Count(c, n) ==
    /\ perDB' = [perDB EXCEPT ![who[c].db] = @ + n]
    /\ perUser' = [perUser EXCEPT ![who[c].user] = @ + n]

Limited == conf.db > 0 \/ conf.user > 0

\* Bug form: the counter of the database is taken before the user's cap is
\* checked, and stays when that check fails.
ReserveInParts(c) ==
    /\ At(c, "reserve")
    /\ IF perDB[who[c].db] < conf.db
       THEN /\ perDB' = [perDB EXCEPT ![who[c].db] = @ + 1]
            /\ IF perUser[who[c].user] < conf.user
               THEN /\ perUser' = [perUser EXCEPT ![who[c].user] = @ + 1]
                    /\ To(c, "register")
               ELSE To(c, "exit") /\ UNCHANGED perUser
       ELSE To(c, "exit") /\ UNCHANGED limits
    /\ UNCHANGED <<who, slots, wg>> /\ UNCHANGED sessions /\ SameLoops

\* Both caps are checked and both counters taken under one lock.
Reserve(c) ==
    /\ At(c, "reserve")
    /\ \/ /\ ~Limited
          /\ To(c, "register") /\ UNCHANGED limits
       \/ /\ Limited
          /\ conf.db > 0 => perDB[who[c].db] < conf.db
          /\ conf.user > 0 => perUser[who[c].user] < conf.user
          /\ To(c, "register") /\ Count(c, 1)
       \/ /\ \/ conf.db > 0 /\ perDB[who[c].db] >= conf.db
             \/ conf.user > 0 /\ perUser[who[c].user] >= conf.user
          /\ To(c, "exit") /\ UNCHANGED limits
    /\ UNCHANGED <<who, slots, wg>> /\ UNCHANGED sessions /\ SameLoops

\* Bug form: the drawn id is not looked up first.
RegisterUnchecked(c) ==
    /\ At(c, "register")
    /\ \E p \in Pids :
          table' = [table EXCEPT ![p] = c] /\ sid' = [sid EXCEPT ![c] = p]
    /\ To(c, "fake")
    /\ UNCHANGED <<who, slots, wg>> /\ UNCHANGED limits /\ SameLoops

\* registerSession draws ids until one is not taken.
Register(c) ==
    /\ At(c, "register")
    /\ \E p \in Pids :
          /\ table[p] = NoClient
          /\ table' = [table EXCEPT ![p] = c]
          /\ sid' = [sid EXCEPT ![c] = p]
    /\ To(c, "fake")
    /\ UNCHANGED <<who, slots, wg>> /\ UNCHANGED limits /\ SameLoops

\* The simulated handshake; the client may be gone.
FakeAuth(c) ==
    /\ At(c, "fake")
    /\ To(c, IF ToConsole(c) THEN "console" ELSE "idle") \/ To(c, "dereg")
    /\ OnlyMoves

\* A message of the client of a session that holds no backend.
ClientAsks(c) ==
    /\ At(c, "idle")
    /\ To(c, "asking")
    /\ OnlyMoves

\* The client leaves, or an idle timeout does it for the client.
ClientLeaves(c) ==
    /\ pc[c] \in {"idle", "tx", "console"}
    /\ To(c, "dereg")
    /\ OnlyMoves

\* The shutdown boundary of the relay, then Acquire.
Ask(c) ==
    /\ At(c, "asking")
    /\ To(c, IF draining THEN "dereg" ELSE "acquire")
    /\ OnlyMoves

\* Acquire gives a backend or a transient error, of which the client is told;
\* a closed pool ends the session, and so does a client that is gone.
Acquired(c) ==
    /\ At(c, "acquire")
    /\ \/ poolsOpen /\ To(c, "tx")
       \/ poolsOpen /\ To(c, "idle")
       \/ To(c, "dereg")
    /\ OnlyMoves

\* The transaction ends and the backend goes back to the pool.
TxEnds(c) ==
    /\ At(c, "tx")
    /\ To(c, "idle")
    /\ OnlyMoves

\* Deferred: deregisterSession deletes the id this handler was given.
Deregister(c) ==
    /\ At(c, "dereg")
    /\ table' = [table EXCEPT ![sid[c]] = NoClient]
    /\ sid' = [sid EXCEPT ![c] = 0]
    /\ To(c, IF ToConsole(c) \/ ~Limited THEN "exit" ELSE "unreserve")
    /\ UNCHANGED <<who, slots, wg>> /\ UNCHANGED limits /\ SameLoops

\* Deferred: ConnLimiter.Release, which never goes below zero.
Release(c) ==
    /\ At(c, "unreserve")
    /\ perDB' = [perDB EXCEPT ![who[c].db] = IF @ > 0 THEN @ - 1 ELSE @]
    /\ perUser' = [perUser EXCEPT ![who[c].user] = IF @ > 0 THEN @ - 1 ELSE @]
    /\ To(c, "exit")
    /\ UNCHANGED <<who, slots, wg>> /\ UNCHANGED sessions /\ SameLoops

\* The socket is closed and the slot goes back.
FreeSlot(c) ==
    /\ At(c, "exit")
    /\ slots' = IF conf.client = 0 THEN slots ELSE slots - 1
    /\ To(c, "done")
    /\ UNCHANGED <<who, wg>> /\ UNCHANGED sessions /\ UNCHANGED limits /\ SameLoops

\* wg.Done, the last deferred call.
Done(c) ==
    /\ At(c, "done")
    /\ wg' = wg - 1
    /\ To(c, "out")
    /\ who' = [who EXCEPT ![c] = Nobody]
    /\ UNCHANGED slots /\ UNCHANGED sessions /\ UNCHANGED limits /\ SameLoops

HandlerStep(c) ==
    \/ Startup(c) \/ Authenticate(c) \/ AdminDoor(c) \/ Route(c) \/ Reserve(c)
    \/ Register(c) \/ FakeAuth(c)
    \/ ClientAsks(c) \/ ClientLeaves(c) \/ Ask(c) \/ Acquired(c) \/ TxEnds(c)
    \/ Deregister(c) \/ Release(c) \/ FreeSlot(c) \/ Done(c)

----------------------------------------------------------------------------
(* shutdown.                                                               *)

SameServing == UNCHANGED <<conf, wg, poolsOpen>> /\ UNCHANGED loops /\ UNCHANGED handlers

\* SIGTERM or SIGINT.
Signal ==
    /\ sd = "up" /\ Goto("listeners")
    /\ UNCHANGED <<bound, draining, waiter>> /\ SameServing

\* Step 1: every data-plane listener.
CloseListener(l) ==
    /\ sd = "listeners" /\ l \in bound \cap Loops
    /\ bound' = bound \ {l}
    /\ Goto(IF bound' \cap Loops = {} THEN "flag" ELSE "listeners")
    /\ UNCHANGED <<draining, waiter>> /\ SameServing

\* Step 2.
MarkDraining ==
    /\ sd = "flag" /\ Goto("http")
    /\ draining' = TRUE
    /\ UNCHANGED <<bound, waiter>> /\ SameServing

\* Step 3: the HTTP servers, within the deadline; then wg.Wait starts.
ShutdownHTTP ==
    /\ sd = "http" /\ Goto("wait")
    /\ bound' = bound \ HTTP
    /\ waiter' = "waiting"
    /\ UNCHANGED draining /\ SameServing

WaitReturns ==
    /\ waiter = "waiting" /\ wg = 0
    /\ waiter' = "drained"
    /\ UNCHANGED <<bound, draining, sd>> /\ SameServing

\* Bug form: no deadline, only a clean drain ends the wait.
DrainOnlyClean ==
    /\ sd = "wait" /\ waiter = "drained" /\ Goto("drained")
    /\ UNCHANGED <<bound, draining, waiter>> /\ SameServing

\* Step 4: drained, or out of time.
Drain ==
    /\ sd = "wait"
    /\ \/ waiter = "drained" /\ Goto("drained")
       \/ Goto("late")
    /\ UNCHANGED <<bound, draining, waiter>> /\ SameServing

\* Step 5: close every pool; a late drain gets a grace period.
ClosePools ==
    /\ sd \in {"drained", "late"}
    /\ poolsOpen' = FALSE
    /\ Goto(IF sd = "drained" THEN "clean" ELSE "grace")
    /\ UNCHANGED <<conf, bound, draining, waiter, wg>>
    /\ UNCHANGED loops /\ UNCHANGED handlers

Grace ==
    /\ sd = "grace" /\ Goto("incomplete")
    /\ UNCHANGED <<bound, draining, waiter>> /\ SameServing

Shutdown ==
    \/ \E l \in Loops : CloseListener(l)
    \/ MarkDraining \/ ShutdownHTTP \/ WaitReturns \/ Drain \/ ClosePools \/ Grace

----------------------------------------------------------------------------
\* When run has returned the process is gone.
Next ==
    /\ ~Exited
    /\ \/ Boot
       \/ \E l \in Loops : LoopStep(l)
       \/ \E c \in Clients : HandlerStep(c)
       \/ Signal
       \/ Shutdown

Spec == Init /\ [][Next]_vars

\* Only shutdown itself is fair: its goroutines run and its timers fire.
\* Nothing is assumed of the accept loops, the handlers or the clients.
FairSpec == Spec /\ WF_vars(~Exited /\ Shutdown)

----------------------------------------------------------------------------
\* Type invariant.
TypeOK ==
    /\ conf \in Configs
    /\ bound \subseteq Loops \cup HTTP
    /\ loop \in [Loops -> LoopPCs]
    /\ inHand \in [Loops -> Clients \cup {NoClient}]
    /\ pc \in [Clients -> GoPCs \cup {"out", "accepted", "counting"}]
    /\ who \in [Clients -> Identity]
    /\ slots \in Nat /\ wg \in Nat
    /\ perDB \in [Dbs -> Nat] /\ perUser \in [Users -> Nat]
    /\ table \in [Pids -> Clients \cup {NoClient}]
    /\ sid \in [Clients -> Pids \cup {0}]
    /\ draining \in BOOLEAN /\ poolsOpen \in BOOLEAN
    /\ sd \in RunPCs /\ waiter \in {"none", "waiting", "drained"}

Running(c) == pc[c] \in GoPCs

\* The wait group counts the accept loops and the handlers that run, and
\* once Wait has returned nothing is left that could call Add: neither a loop
\* nor a handler (the race run's comment on the token describes).
DrainedForGood ==
    /\ wg = Cardinality({l \in Loops : loop[l] \notin {"off", "exited"}})
            + Cardinality({c \in Clients : Running(c)})
    /\ waiter = "drained" =>
          /\ \A l \in Loops : loop[l] = "exited"
          /\ \A c \in Clients : pc[c] = "out"

\* max_client_conn caps the process: over all accept loops, the slots taken
\* are those of connections being served, and no more than the cap.
SlotsExact ==
    conf.client > 0 =>
        /\ slots = Cardinality({c \in Clients : pc[c] \in SlotPCs})
        /\ slots <= conf.client

Reserved(c) == pc[c] \in ReservedPCs /\ ~ToConsole(c)

\* Every successful Reserve is paired with one Release: the counters are the
\* sessions that hold a reservation, whatever way each of them ends, and stay
\* within the caps.
LimitsExact ==
    Limited =>
        /\ \A d \in Dbs :
              /\ perDB[d] = Cardinality({c \in Clients : Reserved(c) /\ who[c].db = d})
              /\ conf.db > 0 => perDB[d] <= conf.db
        /\ \A u \in Users :
              /\ perUser[u] = Cardinality({c \in Clients : Reserved(c) /\ who[c].user = u})
              /\ conf.user > 0 => perUser[u] <= conf.user

\* All caps of the configuration hold at once, and none of their counters
\* drifts: max_client_conn, max_db_connections and max_user_connections.
CapsExact == SlotsExact /\ LimitsExact

\* The session table: a session is found under exactly one id from the moment
\* the client is told it until its handler ends, and no rejected connection
\* is ever in it.
TableExact ==
    \A c \in Clients :
        IF pc[c] \in TablePCs
        THEN \A p \in Pids : table[p] = c <=> p = sid[c]
        ELSE \A p \in Pids : table[p] # c

\* An accepted connection is in the hands of exactly one accept loop until
\* its handler is spawned or it is turned away.
Handed ==
    /\ \A l \in Loops :
          /\ loop[l] = "got" => inHand[l] \in Clients /\ pc[inHand[l]] = "accepted"
          /\ loop[l] = "slotted" => inHand[l] \in Clients /\ pc[inHand[l]] = "counting"
          /\ loop[l] \notin {"got", "slotted"} => inHand[l] = NoClient
    /\ \A l, m \in Loops : inHand[l] = inHand[m] /\ inHand[l] # NoClient => l = m
    /\ \A c \in Clients :
          pc[c] \in {"accepted", "counting"} => \E l \in Loops : inHand[l] = c

\* What is running and what is bound in each phase of run and shutdown.
Phases ==
    /\ sd \in {"config", "tcp", "metrics", "admin", "serve"} => \A l \in Loops : loop[l] = "off"
    /\ sd = "unix" => "unix" \in Loops /\ loop["unix"] = "off" /\ loop["tcp"] # "off"
    /\ sd \notin BootPCs \cup {"not started"} => \A l \in Loops : loop[l] # "off"
    /\ waiter # "none" => sd \in {"wait", "drained", "late", "clean", "grace", "incomplete"}
    /\ sd \in {"drained", "clean"} => waiter = "drained"
    /\ sd \in {"config", "tcp", "wait", "drained", "late", "grace"} \cup ExitPCs => bound = {}
    /\ sd = "metrics" => bound = {"tcp"}
    /\ sd = "admin" => bound = {"tcp", "metrics"}
    /\ sd \in {"serve", "unix"} => bound = {"tcp", "metrics", "admin"}
    /\ sd \in {"flag", "http"} => bound \subseteq HTTP

\* Console sessions never meet the ConnLimiter, the others do if it is on.
Doors ==
    \A c \in Clients :
        /\ pc[c] \in {"route", "reserve", "unreserve"} => ~ToConsole(c)
        /\ pc[c] = "unreserve" => Limited

\* The inductive invariant of FrontendProofs.
FrontendInv ==
    /\ TypeOK /\ Handed /\ Phases /\ Doors
    /\ DrainedForGood /\ SlotsExact /\ LimitsExact /\ TableExact

\* A run that has returned has no listener open, also when startup failed
\* half way; one that reports a clean drain cut nobody off.
ExitClean ==
    Exited => /\ bound = {}
              /\ sd = "clean" => \A c \in Clients : pc[c] = "out"

\* A signal ends the process whatever the clients do: idle sessions, sessions
\* that keep a transaction open and consoles included.
ShutdownReturns == sd = "listeners" ~> Exited
=============================================================================
