------------------------------- MODULE Login -------------------------------
(***************************************************************************)
(* How a client logs in: the access rules read at startup (module HBA),    *)
(* the failure limiter per address (src/ratelimit.go), the authentication  *)
(* backends (src/hba.go, src/auth.go), the auth_query cache                *)
(* (src/auth_query.go) and the session-open rate per user                  *)
(* (src/rate_limit.go), in the order in which handleConnWithOpts           *)
(* (src/main.go) calls them.                                               *)
(*                                                                         *)
(* Every attempt is a handler goroutine; each critical section of a        *)
(* limiter or of the cache is one step.  The clock is a variable: steps    *)
(* that wait for nobody take no time, the exchange with a client may take  *)
(* any time, an auth_query at most FetchMax.                               *)
(*                                                                         *)
(* A verifier is the version of the password it was made from; the         *)
(* cryptography of SCRAM is the comparison of versions.                    *)
(***************************************************************************)
EXTENDS HBA

CONSTANTS
    Conns,              \* connections the rules are checked on
    Attempts,           \* handler goroutines that log a client in
    Setups,             \* auth_hba_file, rate and burst of the RateLimiter; who connects
    Static,             \* auth_users: a version per user
    Threshold, Base, LockMax, Capacity,     \* of the authLimiter
    TTL, FetchMax,      \* auth_query_cache_ttl and the timeout of a lookup
    MaxTime, MaxVersion \* bounds of the instance

\* Clients: a connection, plus its certificate, OS user and password.
Profiles == UNION {s.clients : s \in Setups}
Users == {p.user : p \in Profiles}
\* The limiter's key: the host part of the remote address, "" on a Unix socket.
Key(p) == IF p.unix THEN "" ELSE p.ip
Keys == {Key(p) : p \in Profiles}

ASSUME LoginAssumption ==
    /\ Threshold \in Nat \ {0} /\ Base \in Nat \ {0} /\ LockMax \in Nat /\ LockMax >= Base
    /\ Capacity \in Nat \ {0}
    /\ \A s \in Setups : s.rate \in Nat /\ s.burst \in Nat
    /\ TTL \in Nat /\ FetchMax \in Nat /\ MaxTime \in Nat
    /\ Static \in [DOMAIN Static -> Nat]

VARIABLES
    setup,      \* one of Setups
    phase,      \* "loading" the rules, "serving", or "failed" to start
    nline,      \* lines of it read
    rules,      \* the rules read so far
    now,        \* the clock
    entries,    \* authLimiter.state: address -> failures and lockedUntil
    lru,        \* authLimiter.lru, front first
    buckets,    \* RateLimiter.buckets: user -> tokens and lastRefill
    cache,      \* AuthQueryProvider.cache: user -> version and expiresAt
    version,    \* in pg_shadow: the current version per user
    ended,      \* when each earlier version was replaced
    pc,         \* where each attempt is
    prof,       \* whose attempt it is
    creds,      \* the version it resolved, and when
    started,    \* when it began to fetch
    opened      \* when each user opened a session: for OpensBounded only

limiter == <<entries, lru>>
boot == <<setup, phase, nline, rules>>
postgres == <<version, ended>>
attempt == <<pc, prof, creds, started>>
vars == <<setup, phase, nline, rules, now, entries, lru, buckets, cache,
          version, ended, pc, prof, creds, started, opened>>

NoCreds == [version |-> 0, at |-> 0]
Nobody == CHOOSE p \in Profiles : TRUE

Init ==
    /\ setup \in Setups
    /\ phase = "loading" /\ nline = 0 /\ rules = <<>>
    /\ now = 0
    /\ entries = <<>> /\ lru = <<>>
    /\ buckets = <<>> /\ cache = <<>>
    /\ version = [u \in Users |-> 1] /\ ended = [u \in Users |-> <<>>]
    /\ pc = [a \in Attempts |-> "idle"]
    /\ prof = [a \in Attempts |-> Nobody]
    /\ creds = [a \in Attempts |-> NoCreds]
    /\ started = [a \in Attempts |-> 0]
    /\ opened = [u \in Users |-> <<>>]

----------------------------------------------------------------------------
(* LoadHBAFile: a bad line ends the startup.                               *)

ReadLine ==
    /\ phase = "loading" /\ nline < Len(setup.file)
    /\ nline' = nline + 1
    /\ LET line == setup.file[nline'] IN
       IF Ignored(line) THEN UNCHANGED <<phase, rules>>
       ELSE LET r == parseHBALine(line) IN
            IF r.bad THEN phase' = "failed" /\ UNCHANGED rules
            ELSE rules' = Append(rules, r.val) /\ UNCHANGED phase
    /\ UNCHANGED <<setup, now, buckets, cache, opened>>
    /\ UNCHANGED limiter /\ UNCHANGED postgres /\ UNCHANGED attempt

Serve ==
    /\ phase = "loading" /\ nline = Len(setup.file)
    /\ phase' = "serving"
    /\ UNCHANGED <<setup, nline, rules, now, buckets, cache, opened>>
    /\ UNCHANGED limiter /\ UNCHANGED postgres /\ UNCHANGED attempt

----------------------------------------------------------------------------
(* authLimiter.                                                            *)

At(a, l) == phase = "serving" /\ pc[a] = l
To(a, l) == pc' = [pc EXCEPT ![a] = l]
\* handleConnWithOpts goes on, with what it knows; or it is done with the login.
Goes(a, l) == To(a, l) /\ UNCHANGED <<prof, creds, started>>
Leaves(a) ==
    /\ To(a, "idle")
    /\ prof' = [prof EXCEPT ![a] = Nobody]
    /\ creds' = [creds EXCEPT ![a] = NoCreds]
    /\ started' = [started EXCEPT ![a] = 0]

Without(f, k) == [x \in DOMAIN f \ {k} |-> f[x]]
With(f, k, v) == [x \in DOMAIN f \cup {k} |-> IF x = k THEN v ELSE f[x]]
Off(k) == SelectSeq(lru, LAMBDA x : x # k)
ToFront(k) == <<k>> \o Off(k)

Begin(a) ==
    /\ At(a, "idle")
    /\ \E p \in setup.clients : prof' = [prof EXCEPT ![a] = p]
    /\ To(a, "check")
    /\ UNCHANGED <<now, buckets, cache, creds, started, opened>>
    /\ UNCHANGED boot /\ UNCHANGED limiter /\ UNCHANGED postgres

\* Reading is a touch.
Allowed(a) ==
    LET k == Key(prof[a]) IN
    /\ At(a, "check")
    /\ lru' = IF k \in DOMAIN entries THEN ToFront(k) ELSE lru
    /\ IF k \in DOMAIN entries /\ now <= entries[k].until THEN Leaves(a) ELSE Goes(a, "auth")
    /\ UNCHANGED <<now, entries, buckets, cache, opened>>
    /\ UNCHANGED boot /\ UNCHANGED postgres

\* Bug form: the lock is set when the threshold is reached, not beyond it.
BackoffOnce(n) == IF n = 0 THEN Base ELSE 0
\* The first lockout doubles with every failure after it, up to the cap.
Backoff(n) == IF Base * 2^n > LockMax THEN LockMax ELSE Base * 2^n

\* What is over capacity goes out at the back.
evictIfNeeded(order) == IF Len(order) <= Capacity THEN order ELSE SubSeq(order, 1, Capacity)

\* The address goes to the front; a new one may push others out.
RecordFailure(a) ==
    LET k == Key(prof[a])
        known == k \in DOMAIN entries
        order == ToFront(k)
        kept == IF known THEN order ELSE evictIfNeeded(order)
        n == (IF known THEN entries[k].failures ELSE 0) + 1
        e == [failures |-> n,
              until |-> IF n >= Threshold THEN now + Backoff(n - Threshold)
                        ELSE IF known THEN entries[k].until ELSE -1]
        all == With(entries, k, e)
    IN  /\ At(a, "failed")
        /\ lru' = kept
        /\ entries' = [x \in DOMAIN all \cap In(kept) |-> all[x]]
        /\ Leaves(a)
        /\ UNCHANGED <<now, buckets, cache, opened>>
        /\ UNCHANGED boot /\ UNCHANGED postgres

\* The history of the address is forgotten.
RecordSuccess(a) ==
    LET k == Key(prof[a]) IN
    /\ At(a, "proved")
    /\ entries' = Without(entries, k) /\ lru' = Off(k)
    /\ Goes(a, "rate")
    /\ UNCHANGED <<now, buckets, cache, opened>>
    /\ UNCHANGED boot /\ UNCHANGED postgres

----------------------------------------------------------------------------
(* HBAAuth.Authenticate, SCRAMAuth.Authenticate, AuthQueryProvider.Lookup. *)

\* What the rule that matches says, or that there are no rules.
Method(c) ==
    LET k == MatchHBA(rules, c) IN
    IF rules = <<>> THEN "scram-sha-256" ELSE IF k > Len(rules) THEN "reject" ELSE rules[k].method

\* Peer credentials may be unavailable.
Gate(a) ==
    LET p == prof[a]
        m == Method(p)
        static == m = "scram-sha-256" /\ p.user \in DOMAIN Static
        good == \/ m = "trust"
                \/ m = "peer" /\ p.unix /\ p.os = p.user
                \/ m = "cert" /\ p.tls /\ p.cn = p.user
    IN  /\ At(a, "auth")
        /\ \/ m = "scram-sha-256" /\ To(a, IF static THEN "exchange" ELSE "lookup")
           \/ good /\ To(a, "proved")
           \/ (m = "peer" \/ ~good) /\ m # "scram-sha-256" /\ To(a, "failed")
        /\ creds' = [creds EXCEPT ![a] =
              IF static THEN [version |-> Static[p.user], at |-> now] ELSE NoCreds]
        /\ UNCHANGED <<now, buckets, cache, prof, started, opened>>
        /\ UNCHANGED boot /\ UNCHANGED limiter /\ UNCHANGED postgres

\* Bug form: an entry never expires.
LookupForever(a) ==
    LET u == prof[a].user IN
    /\ At(a, "lookup")
    /\ IF u \in DOMAIN cache
       THEN /\ To(a, "exchange")
            /\ creds' = [creds EXCEPT ![a] = [version |-> cache[u].version, at |-> now]]
            /\ UNCHANGED started
       ELSE /\ To(a, "fetch")
            /\ started' = [started EXCEPT ![a] = now]
            /\ UNCHANGED creds
    /\ UNCHANGED <<now, buckets, cache, prof, opened>>
    /\ UNCHANGED boot /\ UNCHANGED limiter /\ UNCHANGED postgres

\* A hit is an entry that has not expired.
Lookup(a) ==
    LET u == prof[a].user IN
    /\ At(a, "lookup")
    /\ IF u \in DOMAIN cache /\ now < cache[u].expires
       THEN /\ To(a, "exchange")
            /\ creds' = [creds EXCEPT ![a] = [version |-> cache[u].version, at |-> now]]
            /\ UNCHANGED started
       ELSE /\ To(a, "fetch")
            /\ started' = [started EXCEPT ![a] = now]
            /\ UNCHANGED creds
    /\ UNCHANGED <<now, buckets, cache, prof, opened>>
    /\ UNCHANGED boot /\ UNCHANGED limiter /\ UNCHANGED postgres

\* The SELECT reads the current row; its answer may be lost to an error or to
\* the timeout.
Select(a) ==
    /\ At(a, "fetch")
    /\ \/ To(a, "answer") /\ creds' = [creds EXCEPT ![a].version = version[prof[a].user]]
       \/ To(a, "failed") /\ UNCHANGED creds
    /\ UNCHANGED <<now, buckets, cache, prof, started, opened>>
    /\ UNCHANGED boot /\ UNCHANGED limiter /\ UNCHANGED postgres

\* The answer arrives, or it is lost.
Store(a) ==
    /\ At(a, "answer")
    /\ \/ /\ cache' = With(cache, prof[a].user,
                           [version |-> creds[a].version, expires |-> now + TTL])
          /\ creds' = [creds EXCEPT ![a].at = now]
          /\ To(a, "exchange")
       \/ To(a, "failed") /\ UNCHANGED <<cache, creds>>
    /\ UNCHANGED <<now, buckets, prof, started, opened>>
    /\ UNCHANGED boot /\ UNCHANGED limiter /\ UNCHANGED postgres

\* The exchange proves that the client knows the password of the verifier.
\* Any message of it may fail to come or to go out.
Exchange(a) ==
    /\ At(a, "exchange")
    /\ \/ creds[a].version = prof[a].knows /\ To(a, "proved")
       \/ To(a, "failed")
    /\ UNCHANGED <<now, buckets, cache, prof, creds, started, opened>>
    /\ UNCHANGED boot /\ UNCHANGED limiter /\ UNCHANGED postgres

----------------------------------------------------------------------------
(* RateLimiter.Allow.                                                      *)

\* Bug form: the time of the refill is not noted.
AllowUnstamped(a) ==
    LET u == prof[a].user
        b == IF u \in DOMAIN buckets THEN buckets[u] ELSE [tokens |-> setup.burst, last |-> now]
        full == b.tokens + (now - b.last) * setup.rate
        t == IF full > setup.burst THEN setup.burst ELSE full
    IN  /\ At(a, "rate")
        /\ IF setup.rate = 0 \/ setup.burst = 0 THEN UNCHANGED <<buckets, opened>>
           ELSE /\ buckets' = With(buckets, u, [tokens |-> IF t < 1 THEN t ELSE t - 1, last |-> b.last])
                /\ opened' = IF t < 1 THEN opened ELSE [opened EXCEPT ![u] = Append(@, now)]
        /\ Leaves(a)
        /\ UNCHANGED <<now, cache>>
        /\ UNCHANGED boot /\ UNCHANGED limiter /\ UNCHANGED postgres

\* No limiter, or a bucket that starts full and is refilled up to its size.
Allow(a) ==
    LET u == prof[a].user
        b == IF u \in DOMAIN buckets THEN buckets[u] ELSE [tokens |-> setup.burst, last |-> now]
        full == b.tokens + (now - b.last) * setup.rate
        t == IF full > setup.burst THEN setup.burst ELSE full
    IN  /\ At(a, "rate")
        /\ IF setup.rate = 0 \/ setup.burst = 0 THEN UNCHANGED <<buckets, opened>>
           ELSE /\ buckets' = With(buckets, u, [tokens |-> IF t < 1 THEN t ELSE t - 1, last |-> now])
                /\ opened' = IF t < 1 THEN opened ELSE [opened EXCEPT ![u] = Append(@, now)]
        /\ Leaves(a)
        /\ UNCHANGED <<now, cache>>
        /\ UNCHANGED boot /\ UNCHANGED limiter /\ UNCHANGED postgres

----------------------------------------------------------------------------
\* The operator changes a password in Postgres.
Rotate(u) ==
    /\ phase = "serving" /\ u \notin DOMAIN Static /\ version[u] < MaxVersion
    /\ version' = [version EXCEPT ![u] = @ + 1]
    /\ ended' = [ended EXCEPT ![u] = Append(@, now)]
    /\ UNCHANGED <<now, buckets, cache, opened>>
    /\ UNCHANGED boot /\ UNCHANGED limiter /\ UNCHANGED attempt

Invalidate(u) ==
    /\ phase = "serving" /\ u \in DOMAIN cache
    /\ cache' = Without(cache, u)
    /\ UNCHANGED <<now, buckets, opened>>
    /\ UNCHANGED boot /\ UNCHANGED limiter /\ UNCHANGED postgres /\ UNCHANGED attempt

\* Time passes only while everybody waits: for a client, for Postgres within
\* the timeout of the lookup, or for nothing.
Tick ==
    /\ phase = "serving" /\ now < MaxTime
    /\ \A a \in Attempts :
          /\ pc[a] \in {"idle", "exchange", "fetch", "answer"}
          /\ pc[a] \in {"fetch", "answer"} => now < started[a] + FetchMax
    /\ now' = now + 1
    /\ UNCHANGED <<buckets, cache, opened>>
    /\ UNCHANGED boot /\ UNCHANGED limiter /\ UNCHANGED postgres /\ UNCHANGED attempt

Step(a) ==
    \/ Begin(a) \/ Allowed(a) \/ Gate(a) \/ Lookup(a) \/ Select(a) \/ Store(a)
    \/ Exchange(a) \/ RecordFailure(a) \/ RecordSuccess(a) \/ Allow(a)

Next ==
    \/ ReadLine \/ Serve
    \/ \E a \in Attempts : Step(a)
    \/ \E u \in Users : Rotate(u) \/ Invalidate(u)
    \/ Tick

Spec == Init /\ [][Next]_vars

----------------------------------------------------------------------------
AttemptPCs == {"idle", "check", "auth", "lookup", "fetch", "answer", "exchange",
               "proved", "failed", "rate"}

\* Type invariant.
TypeOK ==
    /\ phase \in {"loading", "serving", "failed"} /\ nline \in 0..Len(setup.file)
    /\ now \in 0..MaxTime
    /\ pc \in [Attempts -> AttemptPCs]
    /\ prof \in [Attempts -> Profiles]
    /\ \A u \in DOMAIN buckets : buckets[u].tokens \in 0..setup.burst /\ buckets[u].last \in 0..now
    /\ DOMAIN cache \subseteq Users \ DOMAIN Static

Read == SelectSeq(SubSeq(setup.file, 1, nline), LAMBDA l : ~Ignored(l))

\* Commas make lists and blanks make fields, whatever blanks stand around a
\* comma and whatever is quoted: tokenizeHBALine, a scan with five pieces of
\* state, finds the fields that the grammar in its comment describes.
TokenizerMeetsGrammar ==
    phase # "serving" =>
        \A k \in DOMAIN Read : \/ Unclosed \in In(Read[k])
                               \/ tokenizeHBALine(Read[k]) = Good(FieldsAsWritten(Read[k]))

\* The rule of a connection is the first line that is about it as the line is
\* written; quoting, case, lists and the listener are what decides.
FirstRuleWins ==
    phase = "loading" =>
        LET written == [k \in DOMAIN Read |-> FieldsAsWritten(Read[k])]
        IN  \A c \in Conns : MatchHBA(rules, c) = FirstConcerned(written, c)

\* The access rules mean what the file says: each line read so far was taken
\* apart as its grammar has it, and they decide as an administrator reads them.
RulesAsWritten == TokenizerMeetsGrammar /\ FirstRuleWins

\* The list and the map of the authLimiter hold the same addresses, each
\* once, and no more of them than its capacity: also when a success and a
\* failure of one address race.
LimiterConsistent ==
    /\ In(lru) = DOMAIN entries
    /\ Len(lru) = Cardinality(DOMAIN entries)
    /\ Len(lru) <= Capacity

\* Guessing is slow however many attempts of one address run at once: beyond
\* the free failures, every wait of Base lets at most one failure per
\* handler through.
GuessesBounded ==
    \A k \in DOMAIN entries :
        LET n == Cardinality(Attempts)
        IN  (entries[k].failures - (Threshold - 1) - n) * (Base + 1) <= n * now

\* The authLimiter does its work under concurrent attempts: what it remembers
\* is consistent and within its capacity, and an address it remembers cannot
\* have failed more often than the lockouts allow.
FailuresBounded == TypeOK /\ LimiterConsistent /\ GuessesBounded

\* A user opens at most burst sessions, plus rate per unit of time, in any
\* window of time.
OpensBounded ==
    \A u \in Users : \A i, j \in DOMAIN opened[u] :
        i <= j => j - i + 1 <= setup.burst + setup.rate * (opened[u][j] - opened[u][i])

\* A changed password takes effect: no login is checked against a verifier
\* that was replaced longer ago than the TTL of the cache plus the longest
\* lookup, also when a lookup that began before the change stores its result
\* after it.
StaleBounded ==
    \A a \in Attempts :
        LET u == prof[a].user
            v == creds[a].version
        IN  pc[a] \in {"exchange", "proved"} /\ v > 0 /\ u \notin DOMAIN Static
            => v = version[u] \/ creds[a].at <= ended[u][v] + TTL + FetchMax

\* What both invariants of LoginProofs need to know of an attempt.
AttemptTypes ==
    /\ setup \in Setups /\ now \in Nat
    /\ pc \in [Attempts -> AttemptPCs]
    /\ DOMAIN prof = Attempts
    /\ \A a \in Attempts : pc[a] # "idle" => prof[a] \in Profiles

\* The inductive invariant behind OpensBounded: the sessions opened since any
\* one of them, with the tokens that are left, are no more than the window up
\* to the last refill allows.
RateInv ==
    /\ AttemptTypes
    /\ opened \in [Users -> Seq(Nat)]
    /\ \A u \in DOMAIN buckets : buckets[u].tokens \in 0..setup.burst /\ buckets[u].last \in 0..now
    /\ \A u \in Users : \A i \in DOMAIN opened[u] :
          /\ u \in DOMAIN buckets /\ opened[u][i] <= buckets[u].last
          /\ Len(opened[u]) - i + 1 + buckets[u].tokens
                <= setup.burst + setup.rate * (buckets[u].last - opened[u][i])
    /\ OpensBounded

\* A version that u has or had; one that, if it was replaced, was not when a
\* lookup began at t; and one that may be used at t.
Known(u, v) == v \in 1..version[u]
CurrentAt(u, v, t) == v # version[u] => t <= ended[u][v]
UsableAt(u, v, t) == v # version[u] => t <= ended[u][v] + TTL + FetchMax

\* The inductive invariant behind StaleBounded: a version on its way into the
\* cache was current when its lookup began, one in the cache expires soon
\* enough after it was replaced, and so one that is checked is recent enough.
CacheTypes ==
    /\ AttemptTypes
    /\ version \in [Users -> Nat \ {0}] /\ ended \in [Users -> Seq(Nat)]
    /\ \A u \in Users : Len(ended[u]) = version[u] - 1
    /\ started \in [Attempts -> 0..now]
    /\ creds \in [Attempts -> [version : Nat, at : 0..now]]

Expires ==
    /\ DOMAIN cache \subseteq Users
    /\ \A u \in DOMAIN cache :
          /\ Known(u, cache[u].version) /\ cache[u].expires \in 0..(now + TTL)
          /\ UsableAt(u, cache[u].version, cache[u].expires)

Recent(a) ==
    LET u == prof[a].user
        v == creds[a].version
    IN  /\ pc[a] \in {"fetch", "answer"} => now <= started[a] + FetchMax
        /\ pc[a] = "answer" => Known(u, v) /\ CurrentAt(u, v, started[a])
        /\ pc[a] \in {"exchange", "proved"} /\ v > 0 /\ u \notin DOMAIN Static =>
              Known(u, v) /\ UsableAt(u, v, creds[a].at)

CacheInv == CacheTypes /\ Expires /\ \A a \in Attempts : Recent(a)
=============================================================================
