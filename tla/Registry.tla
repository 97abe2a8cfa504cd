------------------------------ MODULE Registry ------------------------------
(***************************************************************************)
(* The pool registry (src/registry.go) with the goroutines that share it:  *)
(* sessions that are routed and hold on to the pool they got               *)
(* (src/main.go, src/router.go), the admin panel (src/ui.go), the SIGHUP   *)
(* reload (src/reload.go) and the sweep of idle pass-through pools         *)
(* (src/passthrough_reaper.go).                                            *)
(*                                                                         *)
(* A registry key is <<pool name, backend user>>.  A pool is identified by *)
(* its key and a serial number; of a pool itself only open or closed is    *)
(* kept (module Pool).                                                     *)
(***************************************************************************)
EXTENDS Integers, FiniteSets, Sequences, TLC, Functions

CONSTANTS
    Sessions,
    NameOrder,      \* the pool and database names, sorted
    Databases,      \* database names clients ask for
    Users,          \* client users
    Keyed,          \* users whose ClientKey is in clientKeyStore
    NoUser,         \* the default identity of a pool
    None,           \* nil
    Initial,        \* the configuration at startup
    Files,          \* configurations a reload may read
    AdminAdds,      \* names the admin panel adds
    AdminChanges,   \* names it removes and resizes
    Limits,         \* limits in use
    AdminLimits,    \* limits the admin panel sets
    MaxPools,       \* bound: operations that build pools
    MaxReloads      \* bound: reloads

Names == Range(NameOrder)
Configs == [limit : Limits, aliases : SUBSET Names, users : SUBSET Users, scram : BOOLEAN]
Keys == Names \X (Users \cup {NoUser})
Pools == Keys \X (1..MaxPools)

\* A file maps pool names to configurations in which no database name is
\* claimed twice.
ASSUME RegistryAssumption ==
    /\ NoUser \notin Users /\ Keyed \subseteq Users
    /\ MaxPools \in Nat \ {0} /\ MaxReloads \in Nat
    /\ AdminLimits \subseteq Limits
    /\ Databases \cup AdminAdds \cup AdminChanges \subseteq Names
    /\ \A f \in Files \cup {Initial} :
          /\ DOMAIN f \subseteq Names /\ Range(f) \subseteq Configs
          /\ \A n, m \in DOMAIN f : n # m => f[n].aliases \cap ({m} \cup f[m].aliases) = {}

VARIABLES
    entries,        \* registry key -> entry
    byDatabase,     \* client-visible name -> pool name
    made,           \* how many operations have built pools
    watched,        \* pools whose DNS watcher runs
    toDrain,        \* pools handed to drainInBackground
    closed,         \* pools whose Close has been called
    pc,             \* where a session is
    db, user,       \* what its StartupMessage names
    at,             \* the registry key it was routed to
    ptr,            \* the pool it was handed
    seen,           \* the base configuration it read under the read lock
    sweep,          \* the reaper: "idle", or "sweep" with the active keys
    active,
    reload,         \* the reload: "idle", "apply", "remove" or "done"
    file,           \* the configuration it applies
    current,        \* its snapshot of PoolNames
    todo,           \* names it still has to look at
    reloads,
    disturbed       \* the admin panel acted since the reload began

regVars == <<entries, byDatabase, made, watched, toDrain>>
sessVars == <<pc, db, user, at, ptr, seen>>
sweepVars == <<sweep, active>>
reloadVars == <<reload, file, current, todo, reloads>>
vars == <<regVars, closed, sessVars, sweepVars, reloadVars, disturbed>>

Base(n) == <<n, NoUser>>
PoolOf(k, e) == <<k, e.serial>>
KeysOf(es, n) == {k \in DOMAIN es : k[1] = n}
PoolsOf(es, S) == {PoolOf(k, es[k]) : k \in S}
PoolNames == {k[1] : k \in DOMAIN entries}

newEntry(cfg, serial, passthrough) ==
    [serial |-> serial, cfg |-> cfg, passthrough |-> passthrough, recent |-> TRUE]

----------------------------------------------------------------------------
(* addEntries and takeEntries, the two halves of every change.             *)

\* The database names a pool answers to, and the entries it needs: the default
\* identity and one per backend user.
RoutesFor(n, cfg) == [d \in {n} \cup cfg.aliases |-> n]
EntriesFor(n, cfg, serial) ==
    [k \in {Base(n)} \cup ({n} \X cfg.users) |-> newEntry(cfg, serial, FALSE)]

\* addEntries on the maps es and routes; every new pool gets a DNS watcher.
addEntries(es, routes, running, n, cfg) ==
    /\ made < MaxPools
    /\ made' = made + 1
    /\ entries' = EntriesFor(n, cfg, made + 1) @@ es
    /\ byDatabase' = RoutesFor(n, cfg) @@ routes
    /\ watched' = running \cup PoolsOf(EntriesFor(n, cfg, made + 1), {Base(n)} \cup ({n} \X cfg.users))

\* What takeEntries leaves of the entries, the routes and, with the dnsStop
\* calls that follow it everywhere, of the watchers.
LeftEntries(es, n) == Restrict(es, DOMAIN es \ KeysOf(es, n))
LeftRoutes(routes, n) == Restrict(routes, {d \in DOMAIN routes : routes[d] # n})
LeftWatched(n) == watched \ PoolsOf(entries, KeysOf(entries, n))

Displaced(n) == PoolsOf(entries, KeysOf(entries, n))

\* Bug form: the routes of the old configuration stay.
ReplaceKeepsRoutes(n, cfg) ==
    /\ addEntries(LeftEntries(entries, n), byDatabase, LeftWatched(n), n, cfg)
    /\ toDrain' = toDrain \cup Displaced(n)

\* Reconfigure, Resize: take the entries of n, build new ones from cfg, drain
\* the old pools.
Replace(n, cfg) ==
    /\ addEntries(LeftEntries(entries, n), LeftRoutes(byDatabase, n), LeftWatched(n), n, cfg)
    /\ toDrain' = toDrain \cup Displaced(n)

Add(n, cfg) ==
    /\ Base(n) \notin DOMAIN entries
    /\ addEntries(entries, byDatabase, watched, n, cfg)
    /\ UNCHANGED toDrain

Remove(n) ==
    /\ KeysOf(entries, n) # {}
    /\ entries' = LeftEntries(entries, n)
    /\ byDatabase' = LeftRoutes(byDatabase, n)
    /\ watched' = LeftWatched(n)
    /\ toDrain' = toDrain \cup Displaced(n)
    /\ UNCHANGED made

Init ==
    /\ made = 1
    /\ entries = [k \in UNION {{Base(n)} \cup ({n} \X Initial[n].users) : n \in DOMAIN Initial}
                    |-> newEntry(Initial[k[1]], 1, FALSE)]
    /\ byDatabase = [d \in DOMAIN Initial \cup UNION {Initial[n].aliases : n \in DOMAIN Initial} |->
                       IF d \in DOMAIN Initial THEN d
                       ELSE CHOOSE n \in DOMAIN Initial : d \in Initial[n].aliases]
    /\ watched = PoolsOf(entries, DOMAIN entries)
    /\ toDrain = {} /\ closed = {}
    /\ pc = [s \in Sessions |-> "start"]
    /\ db \in [Sessions -> Databases]
    /\ user \in [Sessions -> Users]
    /\ at = [s \in Sessions |-> None]
    /\ ptr = [s \in Sessions |-> None]
    /\ seen = [s \in Sessions |-> None]
    /\ sweep = "idle" /\ active = {}
    /\ reload = "idle" /\ file = Initial /\ current = {} /\ todo = {}
    /\ reloads = 0 /\ disturbed = FALSE

----------------------------------------------------------------------------
(* Sessions.                                                               *)

Goto(s, l) == pc' = [pc EXCEPT ![s] = l]

Hand(s, k) ==
    /\ at' = [at EXCEPT ![s] = k]
    /\ ptr' = [ptr EXCEPT ![s] = PoolOf(k, entries[k])]

\* backendIdentityFor: the user's own backend role, its own ClientKey, or the
\* default identity.
backendIdentityFor(cfg, u) ==
    IF u \in cfg.users \/ (cfg.scram /\ u \in Keyed) THEN u ELSE NoUser

\* Resolve under the read lock.
Resolve(s) ==
    /\ pc[s] = "start"
    /\ IF \/ db[s] \notin DOMAIN byDatabase
          \/ Base(byDatabase[db[s]]) \notin DOMAIN entries
       THEN Goto(s, "end") /\ UNCHANGED <<at, ptr, seen>>
       ELSE LET n == byDatabase[db[s]]
                cfg == entries[Base(n)].cfg
                k == <<n, backendIdentityFor(cfg, user[s])>>
            IN IF k \in DOMAIN entries
               THEN /\ Hand(s, k) /\ UNCHANGED seen
                    /\ Goto(s, IF entries[k].passthrough THEN "stamp" ELSE "login")
               ELSE /\ at' = [at EXCEPT ![s] = k] /\ seen' = [seen EXCEPT ![s] = cfg]
                    /\ Goto(s, IF user[s] \in cfg.users THEN "end" ELSE "create") /\ UNCHANGED ptr
    /\ UNCHANGED <<db, user, regVars, closed, sweepVars, reloadVars, disturbed>>

\* lastRouted is stored after the lock is released, into the entry that was
\* found, which may have left the map.
Stamp(s) ==
    /\ pc[s] = "stamp"
    /\ entries' = [k \in DOMAIN entries |->
                     IF PoolOf(k, entries[k]) = ptr[s]
                     THEN [entries[k] EXCEPT !.recent = TRUE] ELSE entries[k]]
    /\ Goto(s, "login")
    /\ UNCHANGED <<byDatabase, made, watched, toDrain>>
    /\ UNCHANGED <<db, user, at, ptr, seen, closed, sweepVars, reloadVars, disturbed>>

\* Bug form: only the pool, not the identity, is looked up again.
CreateOverwrites(s) ==
    LET k == at[s]
    IN /\ pc[s] = "create" /\ Base(k[1]) \in DOMAIN entries
       /\ made < MaxPools /\ made' = made + 1
       /\ entries' = (k :> newEntry(seen[s], made + 1, TRUE)) @@ entries
       /\ watched' = watched \cup {<<k, made + 1>>}
       /\ ptr' = [ptr EXCEPT ![s] = <<k, made + 1>>]
       /\ Goto(s, "login")
       /\ UNCHANGED <<byDatabase, toDrain, db, user, at, seen, closed, sweepVars, reloadVars, disturbed>>

\* createPassthroughEntry under the write lock, with the configuration read
\* before it.
createPassthroughEntry(s) ==
    LET k == at[s]
    IN /\ pc[s] = "create"
       /\ \/ /\ k \in DOMAIN entries
             /\ Hand(s, k) /\ Goto(s, "login")
             /\ UNCHANGED <<entries, made, watched>>
          \/ /\ k \notin DOMAIN entries /\ Base(k[1]) \notin DOMAIN entries
             /\ Goto(s, "end") /\ UNCHANGED <<entries, made, watched, at, ptr>>
          \/ /\ k \notin DOMAIN entries /\ Base(k[1]) \in DOMAIN entries
             /\ made < MaxPools /\ made' = made + 1
             /\ entries' = (k :> newEntry(seen[s], made + 1, TRUE)) @@ entries
             /\ watched' = watched \cup {<<k, made + 1>>}
             /\ ptr' = [ptr EXCEPT ![s] = <<k, made + 1>>]
             /\ Goto(s, "login") /\ UNCHANGED at
       /\ UNCHANGED <<byDatabase, toDrain, db, user, seen, closed, sweepVars, reloadVars, disturbed>>

\* The handshake ends and poolName is set, or it fails.
Login(s) ==
    /\ pc[s] = "login"
    /\ Goto(s, "relay") \/ Goto(s, "end")
    /\ UNCHANGED <<db, user, at, ptr, seen, regVars, closed, sweepVars, reloadVars, disturbed>>

\* The next transaction: a closed pool ends the session ("cut", with 57P01).
Acquire(s) ==
    /\ pc[s] = "relay"
    /\ Goto(s, IF ptr[s] \in closed THEN "cut" ELSE "busy")
    /\ UNCHANGED <<db, user, at, ptr, seen, regVars, closed, sweepVars, reloadVars, disturbed>>

\* The transaction ends, or the client leaves between transactions.
Finish(s) ==
    /\ \/ pc[s] = "busy" /\ Goto(s, "relay")
       \/ pc[s] = "relay" /\ Goto(s, "end")
    /\ UNCHANGED <<db, user, at, ptr, seen, regVars, closed, sweepVars, reloadVars, disturbed>>

----------------------------------------------------------------------------
(* The reaper, the background drains and the clock.                        *)

\* activeSessionPoolKeys: the keys of the sessions whose poolName is set.
SweepBegins ==
    /\ sweep = "idle" /\ sweep' = "sweep"
    /\ active' = {at[s] : s \in {s \in Sessions : pc[s] \in {"relay", "busy"}}}
    /\ UNCHANGED <<regVars, closed, sessVars, reloadVars, disturbed>>

InUse(p) == \E s \in Sessions : pc[s] = "busy" /\ ptr[s] = p

Evict(S) ==
    /\ sweep = "sweep" /\ sweep' = "idle" /\ active' = {}
    /\ entries' = Restrict(entries, DOMAIN entries \ S)
    /\ watched' = watched \ PoolsOf(entries, S)
    /\ toDrain' = toDrain \cup PoolsOf(entries, S)
    /\ UNCHANGED <<byDatabase, made, closed, sessVars, reloadVars, disturbed>>

\* Bug form: the sessions between transactions are not asked for.
EvictIgnoresSessions ==
    Evict({k \in DOMAIN entries : /\ entries[k].passthrough /\ ~entries[k].recent
                                  /\ ~InUse(PoolOf(k, entries[k]))})

\* EvictIdlePassthrough under the lock, and the drain of what it took.
EvictIdlePassthrough ==
    Evict({k \in DOMAIN entries : /\ entries[k].passthrough /\ k \notin active
                                  /\ ~entries[k].recent
                                  /\ ~InUse(PoolOf(k, entries[k]))})

\* drainInBackground: Close refuses every later Acquire at once.
Drain(p) ==
    /\ p \in toDrain
    /\ toDrain' = toDrain \ {p} /\ closed' = closed \cup {p}
    /\ UNCHANGED <<entries, byDatabase, made, watched, sessVars, sweepVars, reloadVars, disturbed>>

\* scram_passthrough_idle_timeout passes.  It is longer than a login, which
\* client_login_timeout bounds, and than one sweep.
IdleTimeout ==
    /\ \E k \in DOMAIN entries : entries[k].recent
    /\ \A s \in Sessions : pc[s] \notin {"stamp", "create", "login"}
    /\ sweep = "idle"
    /\ entries' = [k \in DOMAIN entries |-> [entries[k] EXCEPT !.recent = FALSE]]
    /\ UNCHANGED <<byDatabase, made, watched, toDrain, closed, sessVars, sweepVars, reloadVars, disturbed>>

----------------------------------------------------------------------------
(* The admin panel and the reload.                                         *)

AdminStep == disturbed' = TRUE /\ UNCHANGED <<closed, sessVars, sweepVars, reloadVars>>

\* addPoolHandler, resizePoolHandler and removePoolHandler; a call that finds
\* nothing to do changes nothing.
AdminAdd(n, l) ==
    Add(n, [limit |-> l, aliases |-> {}, users |-> {}, scram |-> FALSE]) /\ AdminStep

AdminResize(n, l) ==
    /\ Base(n) \in DOMAIN entries
    /\ Replace(n, [entries[Base(n)].cfg EXCEPT !.limit = l])
    /\ AdminStep

AdminRemove(n) == Remove(n) /\ AdminStep

\* The first of a set of names in the sorted order.
First(S) == NameOrder[CHOOSE i \in DOMAIN NameOrder :
                         /\ NameOrder[i] \in S
                         /\ \A j \in 1..(i - 1) : NameOrder[j] \notin S]

\* applyConfigReload reads the file and the names that run.
ReloadBegins ==
    /\ reload \in {"idle", "done"} /\ reloads < MaxReloads
    /\ reload' = "apply" /\ reloads' = reloads + 1
    /\ \E f \in Files : file' = f /\ todo' = DOMAIN f
    /\ current' = PoolNames
    /\ disturbed' = FALSE
    /\ UNCHANGED <<regVars, closed, sessVars, sweepVars>>

\* One pool of the file: Reconfigure it if it ran at the snapshot, else Add it.
\* A pool that is unchanged, gone, or there by now is passed over.
ReloadApply ==
    LET n == First(todo)
    IN /\ reload = "apply" /\ todo # {}
       /\ todo' = todo \ {n}
       /\ \/ /\ n \in current /\ Base(n) \in DOMAIN entries /\ entries[Base(n)].cfg # file[n]
             /\ Replace(n, file[n])
          \/ n \notin current /\ Add(n, file[n])
          \/ /\ IF n \in current
                THEN Base(n) \in DOMAIN entries => entries[Base(n)].cfg = file[n]
                ELSE Base(n) \in DOMAIN entries
             /\ UNCHANGED regVars
       /\ UNCHANGED <<reload, file, current, reloads, closed, sessVars, sweepVars, disturbed>>

\* The names of the snapshot that the file no longer has.
ReloadSurplus ==
    /\ reload = "apply" /\ todo = {}
    /\ reload' = "remove" /\ todo' = current \ DOMAIN file
    /\ UNCHANGED <<file, current, reloads, regVars, closed, sessVars, sweepVars, disturbed>>

ReloadRemove ==
    LET n == First(todo)
    IN /\ reload = "remove" /\ todo # {}
       /\ todo' = todo \ {n}
       /\ Remove(n) \/ (KeysOf(entries, n) = {} /\ UNCHANGED regVars)
       /\ UNCHANGED <<reload, file, current, reloads, closed, sessVars, sweepVars, disturbed>>

ReloadEnds ==
    /\ reload = "remove" /\ todo = {} /\ reload' = "done"
    /\ UNCHANGED <<file, current, todo, reloads, regVars, closed, sessVars, sweepVars, disturbed>>

Next ==
    \/ \E s \in Sessions :
          \/ Resolve(s) \/ Stamp(s) \/ createPassthroughEntry(s)
          \/ Login(s) \/ Acquire(s) \/ Finish(s)
    \/ SweepBegins \/ EvictIdlePassthrough \/ IdleTimeout
    \/ \E p \in toDrain : Drain(p)
    \/ \E n \in AdminAdds, l \in AdminLimits : AdminAdd(n, l)
    \/ \E n \in AdminChanges : AdminRemove(n) \/ \E l \in AdminLimits : AdminResize(n, l)
    \/ ReloadBegins \/ ReloadApply \/ ReloadSurplus \/ ReloadRemove \/ ReloadEnds

Spec == Init /\ [][Next]_vars

----------------------------------------------------------------------------
(* Properties.                                                             *)

Entries == [serial : 1..MaxPools, cfg : Configs, passthrough : BOOLEAN, recent : BOOLEAN]

TypeOK ==
    /\ DOMAIN entries \subseteq Keys /\ Range(entries) \subseteq Entries
    /\ DOMAIN byDatabase \subseteq Names /\ Range(byDatabase) \subseteq Names
    /\ made \in 1..MaxPools
    /\ watched \subseteq Pools /\ toDrain \subseteq Pools /\ closed \subseteq Pools
    /\ pc \in [Sessions -> {"start", "stamp", "create", "login", "relay", "busy", "cut", "end"}]
    /\ db \in [Sessions -> Databases] /\ user \in [Sessions -> Users]
    /\ at \in [Sessions -> Keys \cup {None}]
    /\ ptr \in [Sessions -> Pools \cup {None}]
    /\ seen \in [Sessions -> Configs \cup {None}]
    /\ sweep \in {"idle", "sweep"} /\ active \subseteq Keys
    /\ reload \in {"idle", "apply", "remove", "done"}
    /\ file \in Files \cup {Initial} /\ current \subseteq Names /\ todo \subseteq Names
    /\ reloads \in 0..MaxReloads /\ disturbed \in BOOLEAN

\* Nothing dangles: every database name leads to a pool that is there, and no
\* identity outlives the default one of its pool, from which Resolve, Resize
\* and Reconfigure start.
RoutesLive ==
    /\ \A d \in DOMAIN byDatabase : Base(byDatabase[d]) \in DOMAIN entries
    /\ \A k \in DOMAIN entries : Base(k[1]) \in DOMAIN entries

\* A pool that is on its way out, or closed, is never found in the registry:
\* no new session is routed to it.
EntriesOpen == PoolsOf(entries, DOMAIN entries) \cap (toDrain \cup closed) = {}

\* A DNS watcher runs for exactly the pools in the registry: none outlives
\* its pool, and no pool falls out of the registry without being stopped.
WatchersMatch == watched = PoolsOf(entries, DOMAIN entries)

\* The registry is coherent between any two critical sections, whichever of
\* Resolve, the panel, the reload and the reaper ran: nothing dangles, nothing
\* that is being closed can be found, no watcher leaks.
Coherent == TypeOK /\ RoutesLive /\ EntriesOpen /\ WatchersMatch

\* The conditions of EvictIdlePassthrough: a sweep takes no pool that a
\* session holds once it has been routed and stamped.
EvictSparesRouted ==
    [][sweep = "sweep" /\ sweep' = "idle" =>
         \A s \in Sessions : pc[s] \in {"login", "relay", "busy"} => ptr[s] \notin toDrain' \ toDrain]_vars

\* "The file is the source of truth": a reload that no admin call disturbed
\* leaves exactly the pools, identities and database names of the file,
\* whatever the panel had done before.
ReloadConverges ==
    reload = "done" /\ ~disturbed =>
        /\ {k \in DOMAIN entries : ~entries[k].passthrough} =
              UNION {{Base(n)} \cup ({n} \X file[n].users) : n \in DOMAIN file}
        /\ \A k \in DOMAIN entries : ~entries[k].passthrough => entries[k].cfg = file[k[1]]
        /\ \A d \in Names, n \in Names :
              (d \in DOMAIN byDatabase /\ byDatabase[d] = n) <=>
              (n \in DOMAIN file /\ d \in {n} \cup file[n].aliases)
=============================================================================
