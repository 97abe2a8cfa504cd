---------------------------- MODULE LoginProofs ----------------------------
(***************************************************************************)
(* The session-open rate and the age of a cached verifier in module Login, *)
(* for every number of attempts and users, every setup and every length of *)
(* the run.  Each rests on an invariant of its own: RateInv relates every  *)
(* session opened to the tokens that are left now, CacheInv relates a      *)
(* version to the time it was replaced wherever a lookup carries it.       *)
(***************************************************************************)
EXTENDS Login, TLAPS

\* Rate and burst are natural numbers, and a client of a setup is a profile
\* with a user.
LEMMA SetupTypes ==
    ASSUME setup \in Setups
    PROVE  /\ setup.rate \in Nat /\ setup.burst \in Nat
           /\ setup.clients \subseteq Profiles
           /\ \A p \in Profiles : p.user \in Users
BY LoginAssumption DEF Profiles, Users

\* Every attempt is somewhere and, unless idle, somebody's.
LEMMA AttemptStep == AttemptTypes /\ [Next]_vars => AttemptTypes'
<1>. SUFFICES ASSUME AttemptTypes, [Next]_vars PROVE AttemptTypes'  OBVIOUS
<1>. USE DEF AttemptTypes, AttemptPCs
<1>1. ASSUME NEW a \in Attempts, Step(a) PROVE AttemptTypes'
  <2>0. UNCHANGED <<setup, now>>
    BY <1>1, Zenon DEF Step, Begin, Allowed, Gate, Lookup, Select, Store, Exchange, RecordFailure,
       RecordSuccess, Allow, boot
  <2>1. CASE Begin(a)
    BY <2>0, <2>1, SetupTypes DEF Begin, At, To
  <2>2. CASE Allowed(a) \/ RecordFailure(a) \/ RecordSuccess(a) \/ Allow(a)
    <3>1. Leaves(a) \/ (pc[a] # "idle" /\ UNCHANGED prof /\ (To(a, "auth") \/ To(a, "rate")))
      BY <2>2 DEF Allowed, RecordFailure, RecordSuccess, Allow, Goes, At
    <3>2. CASE Leaves(a)  BY <2>0, <3>2 DEF Leaves, To
    <3>3. CASE ~Leaves(a)  BY <2>0, <3>1, <3>3 DEF To
    <3>. QED  BY <3>2, <3>3
  <2>3. CASE Gate(a) \/ Lookup(a) \/ Select(a) \/ Store(a) \/ Exchange(a)
    <3>1. /\ pc[a] # "idle" /\ UNCHANGED prof
          /\ \E l \in AttemptPCs \ {"idle"} : To(a, l)
      BY <2>3 DEF Gate, Lookup, Select, Store, Exchange, At
    <3>. QED  BY <2>0, <3>1 DEF To
  <2>. QED  BY <1>1, <2>1, <2>2, <2>3 DEF Step
<1>2. CASE \/ ReadLine \/ Serve \/ UNCHANGED vars
           \/ \E u \in Users : Rotate(u) \/ Invalidate(u)
  <2>1. UNCHANGED <<setup, now, pc, prof>>
    BY <1>2, Zenon DEF ReadLine, Serve, Rotate, Invalidate, attempt, boot, vars
  <2>. QED  BY <2>1
<1>3. CASE Tick
  BY <1>3 DEF Tick, attempt, boot
<1>. QED  BY <1>1, <1>2, <1>3 DEF Next

----------------------------------------------------------------------------
(* RateLimiter.                                                            *)

\* A window that grows from last to now grows by what is refilled.
LEMMA Window ==
    ASSUME NEW r \in Nat, NEW x \in Nat, NEW last \in Nat, NEW t \in Nat, x <= last, last <= t
    PROVE  /\ r * (last - x) \in Nat /\ (t - last) * r \in Nat /\ r * (t - x) \in Nat
           /\ r * (last - x) + (t - last) * r = r * (t - x)
<1>1. last - x \in Nat /\ t - last \in Nat /\ t - x \in Nat  OBVIOUS
<1>2. \A m, n \in Nat : m * n \in Nat  OBVIOUS
<1>3. r * (last - x) + (t - last) * r = r * (t - x)  BY SMT
<1>. QED  BY <1>1, <1>2, <1>3

\* Tokens that were left, and what is refilled, pay for one window more.
LEMMA Refill ==
    ASSUME NEW n \in Int, NEW left \in Int, NEW t \in Int, NEW burst \in Int,
           NEW x \in Int, NEW y \in Int, NEW z \in Int,
           n + left <= burst + x, t <= left + y, x + y = z
    PROVE  n + t <= burst + z
OBVIOUS

\* The case of Allow that takes a token or finds none.
LEMMA AllowRate ==
    ASSUME RateInv, NEW a \in Attempts, Allow(a), AttemptTypes'
    PROVE  RateInv'
<1> DEFINE u == prof[a].user
           b == IF u \in DOMAIN buckets THEN buckets[u] ELSE [tokens |-> setup.burst, last |-> now]
           full == b.tokens + (now - b.last) * setup.rate
           t == IF full > setup.burst THEN setup.burst ELSE full
           new == [tokens |-> IF t < 1 THEN t ELSE t - 1, last |-> now]
<1>0. /\ setup' = setup /\ now' = now /\ now \in Nat
      /\ setup.rate \in Nat /\ setup.burst \in Nat /\ u \in Users
      /\ opened \in [Users -> Seq(Nat)] /\ opened[u] \in Seq(Nat)
  BY SetupTypes DEF Allow, At, boot, RateInv, AttemptTypes
<1>1. CASE UNCHANGED <<buckets, opened>>
  BY <1>0, <1>1 DEF RateInv, OpensBounded
<1>2. CASE ~UNCHANGED <<buckets, opened>>
  <2>1. /\ buckets' = With(buckets, u, new)
        /\ opened' = IF t < 1 THEN opened ELSE [opened EXCEPT ![u] = Append(@, now)]
    BY <1>2, Zenon DEF Allow
  <2>2. b.tokens \in 0..setup.burst /\ b.last \in 0..now  BY <1>0 DEF RateInv
  <2>3. (now - b.last) * setup.rate \in Nat
    <3>1. now - b.last \in Nat  BY <1>0, <2>2
    <3>2. \A m, n \in Nat : m * n \in Nat  OBVIOUS
    <3>. QED  BY <1>0, <3>1, <3>2
  <2>4. t \in 0..setup.burst /\ t <= b.tokens + (now - b.last) * setup.rate
    BY <1>0, <2>2, <2>3
  <2>. HIDE DEF b, t, new
  <2>5. \A w \in DOMAIN buckets' : buckets'[w].tokens \in 0..setup'.burst /\ buckets'[w].last \in 0..now'
    <3>1. TAKE w \in DOMAIN buckets'
    <3>2. CASE w = u
      <4>1. buckets'[w] = new  BY <2>1, <3>1, <3>2 DEF With
      <4>. QED  BY <1>0, <2>4, <4>1 DEF new
    <3>3. CASE w # u
      <4>1. w \in DOMAIN buckets /\ buckets'[w] = buckets[w]  BY <2>1, <3>1, <3>3 DEF With
      <4>. QED  BY <1>0, <4>1 DEF RateInv
    <3>. QED  BY <3>2, <3>3
  <2>6. ASSUME NEW i \in DOMAIN opened[u]
        PROVE  /\ opened[u][i] \in Nat /\ opened[u][i] <= now
               /\ Len(opened[u]) - i + 1 + t <= setup.burst + setup.rate * (now - opened[u][i])
               /\ setup.rate * (now - opened[u][i]) \in Nat
    <3>1. /\ opened[u][i] \in Nat /\ i \in Nat /\ Len(opened[u]) \in Nat  BY <1>0
    <3>2. /\ b.last = buckets[u].last /\ b.tokens = buckets[u].tokens
          /\ opened[u][i] <= b.last
          /\ Len(opened[u]) - i + 1 + b.tokens <= setup.burst + setup.rate * (b.last - opened[u][i])
      <4>1. u \in DOMAIN buckets  BY <1>0 DEF RateInv
      <4>2. b = buckets[u]  BY <4>1 DEF b
      <4>. QED  BY <1>0, <4>2, Zenon DEF RateInv
    <3>3. /\ setup.rate * (b.last - opened[u][i]) \in Nat
          /\ setup.rate * (now - opened[u][i]) \in Nat
          /\ setup.rate * (b.last - opened[u][i]) + (now - b.last) * setup.rate
                = setup.rate * (now - opened[u][i])
      <4>1. b.last \in Nat /\ b.last <= now  BY <1>0, <2>2
      <4> DEFINE l == b.last
                 x == opened[u][i]
                 k == setup.rate
      <4>2. k \in Nat /\ x \in Nat /\ l \in Nat /\ now \in Nat /\ x <= l /\ l <= now
        BY <1>0, <3>1, <3>2, <4>1, Zenon
      <4>. HIDE DEF l, x, k
      <4>3. /\ k * (l - x) \in Nat /\ k * (now - x) \in Nat
            /\ k * (l - x) + (now - l) * k = k * (now - x)
        BY <4>2, Window
      <4>. QED  BY <4>3, Zenon DEF l, x, k
    <3>4. b.tokens \in Int /\ t \in Int /\ b.last \in Nat /\ b.last <= now  BY <1>0, <2>2, <2>4
    <3>. HIDE DEF u
    <3>5. opened[u][i] <= now  BY <1>0, <3>1, <3>2, <3>4
    <3>6. Len(opened[u]) - i + 1 + t <= setup.burst + setup.rate * (now - opened[u][i])
      <4>1. Len(opened[u]) - i + 1 \in Int  BY <3>1
      <4>2. \A n \in Nat : n \in Int  OBVIOUS
      <4>3. /\ setup.burst \in Int /\ setup.rate * (b.last - opened[u][i]) \in Int
            /\ (now - b.last) * setup.rate \in Int /\ setup.rate * (now - opened[u][i]) \in Int
        BY <1>0, <2>3, <3>3, <4>2, Zenon
      <4> DEFINE n == Len(opened[u]) - i + 1
                 x == setup.rate * (b.last - opened[u][i])
                 y == (now - b.last) * setup.rate
                 z == setup.rate * (now - opened[u][i])
                 left == b.tokens
                 burst == setup.burst
      <4>4. /\ n \in Int /\ left \in Int /\ t \in Int /\ burst \in Int
            /\ x \in Int /\ y \in Int /\ z \in Int
            /\ n + left <= burst + x /\ t <= left + y /\ x + y = z
        BY <2>4, <3>2, <3>3, <3>4, <4>1, <4>3, Zenon
      <4>. HIDE DEF n, x, y, z, left, burst
      <4>5. n + t <= burst + z  BY <4>4, Refill
      <4>. QED  BY <4>5, Zenon DEF n, z, burst
    <3>. QED  BY <3>1, <3>3, <3>5, <3>6
  <2>7. opened' \in [Users -> Seq(Nat)]  BY <1>0, <2>1
  <2>8. ASSUME NEW w \in Users, w # u
        PROVE  /\ opened'[w] = opened[w]
               /\ w \in DOMAIN buckets => w \in DOMAIN buckets' /\ buckets'[w] = buckets[w]
    BY <1>0, <2>1, <2>8 DEF With
  <2>9. /\ u \in DOMAIN buckets' /\ buckets'[u].last = now
        /\ buckets'[u].tokens = IF t < 1 THEN t ELSE t - 1
    BY <2>1 DEF With, new
  <2>10. CASE t < 1
    <3>1. opened' = opened  BY <2>1, <2>10
    <3>2. ASSUME NEW w \in Users, NEW i \in DOMAIN opened'[w]
          PROVE  /\ w \in DOMAIN buckets' /\ opened'[w][i] <= buckets'[w].last
                 /\ Len(opened'[w]) - i + 1 + buckets'[w].tokens
                       <= setup'.burst + setup'.rate * (buckets'[w].last - opened'[w][i])
      <4>1. CASE w = u
        <5>1. buckets'[u].last = now /\ buckets'[u].tokens = t  BY <2>9, <2>10
        <5>. QED  BY <1>0, <2>6, <2>9, <3>1, <3>2, <4>1, <5>1, Zenon
      <4>2. CASE w # u  BY <1>0, <2>8, <3>1, <3>2, <4>2, Zenon DEF RateInv
      <4>. QED  BY <4>1, <4>2
    <3>3. OpensBounded'  BY <1>0, <3>1 DEF RateInv, OpensBounded
    <3>. QED  BY <2>5, <2>7, <3>2, <3>3 DEF RateInv
  <2>11. CASE ~(t < 1)
    <3>1. /\ opened'[u] = Append(opened[u], now) /\ Len(opened[u]) \in Nat
          /\ Len(opened'[u]) = Len(opened[u]) + 1
          /\ DOMAIN opened'[u] = 1..(Len(opened[u]) + 1) /\ DOMAIN opened[u] = 1..Len(opened[u])
          /\ opened'[u][Len(opened[u]) + 1] = now
          /\ \A i \in DOMAIN opened[u] : opened'[u][i] = opened[u][i]
      BY <1>0, <2>1, <2>11
    <3>2. ASSUME NEW i \in DOMAIN opened'[u]
          PROVE  /\ opened'[u][i] <= now
                 /\ Len(opened'[u]) - i + 1 + (t - 1)
                       <= setup.burst + setup.rate * (now - opened'[u][i])
      <4>0. t \in Nat /\ t <= setup.burst  BY <1>0, <2>4
      <4>1. CASE i = Len(opened[u]) + 1
        <5>1. setup.rate * (now - now) = 0  BY <1>0
        <5>. QED  BY <1>0, <3>1, <4>0, <4>1, <5>1
      <4>2. CASE i # Len(opened[u]) + 1
        <5>1. i \in DOMAIN opened[u] /\ i \in Nat  BY <3>1, <3>2, <4>2
        <5>2. opened'[u][i] = opened[u][i]  BY <3>1, <5>1
        <5>3. /\ opened[u][i] <= now
              /\ Len(opened[u]) - i + 1 + t <= setup.burst + setup.rate * (now - opened[u][i])
              /\ setup.rate * (now - opened[u][i]) \in Nat
          BY <2>6, <5>1
        <5>. HIDE DEF u
        <5> DEFINE m == Len(opened'[u])
                   n == Len(opened[u])
        <5>4. m = n + 1 /\ n \in Nat  BY <3>1, Zenon
        <5>. HIDE DEF m, n
        <5>5. m - i + 1 + (t - 1) = n - i + 1 + t  BY <4>0, <5>1, <5>4
        <5>. QED  BY <5>2, <5>3, <5>5, Zenon DEF m, n
      <4>. QED  BY <4>1, <4>2
    <3>3. ASSUME NEW w \in Users, NEW i \in DOMAIN opened'[w]
          PROVE  /\ w \in DOMAIN buckets' /\ opened'[w][i] <= buckets'[w].last
                 /\ Len(opened'[w]) - i + 1 + buckets'[w].tokens
                       <= setup'.burst + setup'.rate * (buckets'[w].last - opened'[w][i])
      <4>1. CASE w = u
        <5>1. buckets'[u].last = now /\ buckets'[u].tokens = t - 1  BY <2>9, <2>11
        <5>. QED  BY <1>0, <2>9, <3>2, <3>3, <4>1, <5>1
      <4>2. CASE w # u  BY <1>0, <2>8, <3>3, <4>2, Zenon DEF RateInv
      <4>. QED  BY <4>1, <4>2
    <3>4. ASSUME NEW w \in Users, NEW i \in DOMAIN opened'[w], NEW j \in DOMAIN opened'[w], i <= j
          PROVE  j - i + 1 <= setup'.burst + setup'.rate * (opened'[w][j] - opened'[w][i])
      <4>1. CASE w # u  BY <1>0, <2>8, <3>4, <4>1 DEF RateInv, OpensBounded
      <4>2. CASE w = u /\ j # Len(opened[u]) + 1
        <5>1. i \in DOMAIN opened[u] /\ j \in DOMAIN opened[u]  BY <3>1, <3>4, <4>2
        <5>. QED  BY <1>0, <3>1, <3>4, <4>2, <5>1, Zenon DEF RateInv, OpensBounded
      <4>3. CASE w = u /\ j = Len(opened[u]) + 1
        <5>1. /\ opened'[u][j] = now /\ i \in DOMAIN opened'[u] /\ i \in Nat
              /\ Len(opened'[u]) = j /\ j \in Nat
          BY <3>1, <3>4, <4>3
        <5>2. j - i + 1 + (t - 1) <= setup.burst + setup.rate * (now - opened'[u][i])
          BY <3>2, <5>1
        <5>3. t \in Nat /\ t >= 1  BY <1>0, <2>4, <2>11
        <5>4. setup.rate * (now - opened'[u][i]) \in Int
          <6>. HIDE DEF u
          <6>0. opened'[u] \in Seq(Nat)  BY <1>0, <2>7
          <6>1. opened'[u][i] \in Nat  BY <5>1, <6>0
          <6>2. now - opened'[u][i] \in Int  BY <1>0, <6>1
          <6>. QED  BY <1>0, <6>2
        <5>5. j - i + 1 <= setup.burst + setup.rate * (now - opened'[u][i])
          <6>. HIDE DEF u
          <6>. QED  BY <1>0, <5>1, <5>2, <5>3, <5>4
        <5>. QED  BY <1>0, <4>3, <5>1, <5>5
      <4>. QED  BY <4>1, <4>2, <4>3
    <3>5. OpensBounded'  BY <3>4 DEF OpensBounded
    <3>. QED  BY <2>5, <2>7, <3>3, <3>5 DEF RateInv
  <2>. QED  BY <2>10, <2>11
<1>. QED  BY <1>1, <1>2

\* Every step keeps the invariant.
LEMMA RateStep == RateInv /\ [Next]_vars => RateInv'
<1>. SUFFICES ASSUME RateInv, [Next]_vars PROVE RateInv'  OBVIOUS
<1>1. AttemptTypes /\ AttemptTypes'  BY AttemptStep DEF RateInv
<1>2. ASSUME NEW a \in Attempts, Allow(a) PROVE RateInv'
  BY <1>1, <1>2, AllowRate
<1>3. CASE Tick
  <2>1. UNCHANGED <<setup, buckets, opened>> /\ now' = now + 1 /\ now \in Nat
    BY <1>1, <1>3 DEF Tick, boot, AttemptTypes
  <2>2. \A u \in DOMAIN buckets : buckets[u].last \in 0..now => buckets[u].last \in 0..now'
    BY <2>1
  <2>. QED  BY <1>1, <2>1, <2>2 DEF RateInv, OpensBounded
<1>4. ASSUME ~Tick, \A a \in Attempts : ~Allow(a) PROVE RateInv'
  <2>1. UNCHANGED <<setup, now, buckets, opened>>
    BY <1>4, Zenon DEF Next, Step, ReadLine, Serve, Begin, Allowed, Gate, Lookup, Select, Store,
       Exchange, RecordFailure, RecordSuccess, Rotate, Invalidate, boot, vars
  <2>. QED  BY <1>1, <2>1 DEF RateInv, OpensBounded
<1>. QED  BY <1>2, <1>3, <1>4

\* RateLimiter.Allow admits, in any window of time, at most burst sessions of
\* a user plus rate per unit of time, however its callers interleave.
THEOREM SessionRateBounded == Spec => []OpensBounded
<1>1. Init => RateInv
  BY DEF Init, RateInv, AttemptTypes, AttemptPCs, OpensBounded
<1>2. RateInv /\ [Next]_vars => RateInv'  BY RateStep
<1>3. RateInv => OpensBounded  BY DEF RateInv
<1>. QED  BY <1>1, <1>2, <1>3, PTL DEF Spec

----------------------------------------------------------------------------
(* AuthQueryProvider.                                                      *)

\* An earlier version was replaced at a time.
LEMMA EndedAt ==
    ASSUME CacheTypes, NEW w \in Users, NEW v, Known(w, v), v # version[w]
    PROVE  v \in 1..Len(ended[w]) /\ ended[w][v] \in Nat
<1>1. version[w] \in Nat /\ Len(ended[w]) = version[w] - 1 /\ ended[w] \in Seq(Nat)
  BY DEF CacheTypes
<1>2. v \in 1..Len(ended[w])  BY <1>1 DEF Known
<1>. QED  BY <1>1, <1>2

\* The version a user has now is known, was never replaced and may be used.
LEMMA CurrentVersion ==
    ASSUME CacheTypes, NEW w \in Users
    PROVE  Known(w, version[w]) /\ \A t : CurrentAt(w, version[w], t)
<1>1. version[w] \in Nat \ {0}  BY DEF CacheTypes
<1>. QED  BY <1>1 DEF Known, CurrentAt

\* What may be used at t may be used before.
LEMMA UsableBefore ==
    ASSUME CacheTypes, NEW w \in Users, NEW v, Known(w, v),
           NEW t \in Nat, UsableAt(w, v, t), NEW s \in Nat, s <= t
    PROVE  UsableAt(w, v, s)
<1>. SUFFICES ASSUME v # version[w] PROVE s <= ended[w][v] + TTL + FetchMax  BY DEF UsableAt
<1>1. TTL \in Nat /\ FetchMax \in Nat /\ ended[w][v] \in Nat  BY EndedAt, LoginAssumption
<1>2. t <= ended[w][v] + TTL + FetchMax  BY DEF UsableAt
<1>. QED  BY <1>1, <1>2

\* What was current when a lookup began may be used for TTL after the answer.
LEMMA AnswerUsable ==
    ASSUME CacheTypes, NEW w \in Users, NEW v, Known(w, v),
           NEW t \in Nat, CurrentAt(w, v, t), now <= t + FetchMax
    PROVE  UsableAt(w, v, now) /\ UsableAt(w, v, now + TTL)
<1>. SUFFICES ASSUME v # version[w]
              PROVE  /\ now <= ended[w][v] + TTL + FetchMax
                     /\ now + TTL <= ended[w][v] + TTL + FetchMax
  BY DEF UsableAt
<1>1. TTL \in Nat /\ FetchMax \in Nat /\ ended[w][v] \in Nat  BY EndedAt, LoginAssumption
<1>2. now \in Nat  BY DEF CacheTypes, AttemptTypes
<1>3. t <= ended[w][v]  BY DEF CurrentAt
<1>. QED  BY <1>1, <1>2, <1>3

\* A move of an attempt.
LEMMA Moved ==
    ASSUME CacheTypes, NEW a \in Attempts, NEW l, To(a, l)
    PROVE  pc'[a] = l /\ \A c \in Attempts \ {a} : pc'[c] = pc[c]
BY DEF To, CacheTypes, AttemptTypes

\* Steps that only move an attempt, or end it.
LEMMA Quiet ==
    ASSUME NEW a \in Attempts, Allowed(a) \/ RecordFailure(a) \/ RecordSuccess(a) \/ Allow(a)
    PROVE  Leaves(a) \/ Goes(a, "auth") \/ Goes(a, "rate")
BY Zenon DEF Allowed, RecordFailure, RecordSuccess, Allow

\* A step of an attempt leaves the clock and Postgres alone, and every other
\* attempt.
LEMMA StepFrame ==
    ASSUME CacheTypes, NEW a \in Attempts, Step(a)
    PROVE  /\ UNCHANGED <<now, version, ended>>
           /\ \A c \in Attempts \ {a} :
                 pc'[c] = pc[c] /\ prof'[c] = prof[c] /\ creds'[c] = creds[c] /\ started'[c] = started[c]
<1>1. UNCHANGED <<now, version, ended>>
  BY Zenon DEF Step, Begin, Allowed, Gate, Lookup, Select, Store, Exchange, RecordFailure,
     RecordSuccess, Allow, postgres
<1>2. /\ DOMAIN pc = Attempts /\ DOMAIN prof = Attempts
      /\ DOMAIN creds = Attempts /\ DOMAIN started = Attempts
  BY DEF CacheTypes, AttemptTypes
<1>3. CASE Begin(a) \/ Exchange(a)  BY <1>1, <1>2, <1>3 DEF Begin, Exchange, To
<1>4. CASE Allowed(a) \/ RecordFailure(a) \/ RecordSuccess(a) \/ Allow(a)
  <2>1. Leaves(a) \/ Goes(a, "auth") \/ Goes(a, "rate")  BY <1>4, Quiet
  <2>. QED  BY <1>1, <1>2, <2>1 DEF Leaves, Goes, To
<1>5. CASE Gate(a)
  <2>1. /\ \E l \in AttemptPCs : To(a, l)
        /\ \E x : creds' = [creds EXCEPT ![a] = x]
        /\ UNCHANGED <<prof, started>>
    BY <1>5, Zenon DEF Gate, AttemptPCs
  <2>. QED  BY <1>1, <1>2, <2>1 DEF To
<1>6. CASE Lookup(a)  BY <1>1, <1>2, <1>6 DEF Lookup, To
<1>7. CASE Select(a)  BY <1>1, <1>2, <1>7 DEF Select, To
<1>8. CASE Store(a)  BY <1>1, <1>2, <1>8 DEF Store, To
<1>. QED  BY <1>3, <1>4, <1>5, <1>6, <1>7, <1>8, Zenon DEF Step

\* What an attempt notes keeps its type.
LEMMA StepCacheTypes ==
    ASSUME CacheTypes, Expires, AttemptTypes', NEW a \in Attempts, Step(a)
    PROVE  CacheTypes'
<1> DEFINE C == [version : Nat, at : 0..now]
<1>0. UNCHANGED <<now, version, ended>>  BY StepFrame
<1>1. now \in Nat /\ now \in 0..now /\ 0 \in 0..now  BY DEF CacheTypes, AttemptTypes
<1>2. started \in [Attempts -> 0..now] /\ creds \in [Attempts -> C]  BY DEF CacheTypes
<1>3. /\ \A n \in Nat : [version |-> n, at |-> now] \in C
      /\ NoCreds \in C
      /\ \A x \in C : \A n \in Nat : [x EXCEPT !.version = n] \in C
      /\ \A x \in C : [x EXCEPT !.at = now] \in C
  BY <1>1 DEF NoCreds
<1>4. /\ \A t \in 0..now : [started EXCEPT ![a] = t] \in [Attempts -> 0..now]
      /\ \A x \in C : [creds EXCEPT ![a] = x] \in [Attempts -> C]
      /\ creds[a] \in C
  <2>. HIDE DEF C
  <2>. QED  BY <1>2
<1>. HIDE DEF C
<1>5. started' \in [Attempts -> 0..now] /\ creds' \in [Attempts -> C]
  <2>1. CASE Begin(a) \/ Exchange(a)
    BY <1>2, <2>1, Zenon DEF Begin, Exchange
  <2>2. CASE Allowed(a) \/ RecordFailure(a) \/ RecordSuccess(a) \/ Allow(a)
    <3>1. Leaves(a) \/ Goes(a, "auth") \/ Goes(a, "rate")  BY <2>2, Quiet
    <3>2. CASE Leaves(a)
      <4>1. started' = [started EXCEPT ![a] = 0] /\ creds' = [creds EXCEPT ![a] = NoCreds]
        BY <3>2, Zenon DEF Leaves
      <4>2. started' \in [Attempts -> 0..now]  BY <1>1, <1>4, <4>1
      <4>3. creds' \in [Attempts -> C]  BY <1>3, <1>4, <4>1, Zenon
      <4>. QED  BY <4>2, <4>3
    <3>3. CASE ~Leaves(a)  BY <1>2, <3>1, <3>3, Zenon DEF Goes
    <3>. QED  BY <3>2, <3>3
  <2>3. CASE Gate(a)
    <3>1. PICK s \in BOOLEAN :
             /\ s => prof[a].user \in DOMAIN Static
             /\ creds' = [creds EXCEPT ![a] =
                   IF s THEN [version |-> Static[prof[a].user], at |-> now] ELSE NoCreds]
      BY <2>3, Zenon DEF Gate
    <3>2. s => Static[prof[a].user] \in Nat  BY <3>1, LoginAssumption
    <3>3. started' = started  BY <2>3, Zenon DEF Gate
    <3>4. CASE s  BY <1>2, <1>3, <1>4, <3>1, <3>2, <3>3, <3>4, Zenon
    <3>5. CASE ~s  BY <1>2, <1>3, <1>4, <3>1, <3>3, <3>5, Zenon
    <3>. QED  BY <3>4, <3>5
  <2>4. CASE Lookup(a)
    <3>1. ASSUME prof[a].user \in DOMAIN cache PROVE cache[prof[a].user].version \in Nat
      <4>1. Known(prof[a].user, cache[prof[a].user].version)  BY <3>1, Zenon DEF Expires
      <4>2. prof[a].user \in Users  BY <3>1, Zenon DEF Expires
      <4>3. version[prof[a].user] \in Nat  BY <4>2 DEF CacheTypes
      <4>. QED  BY <4>1, <4>3 DEF Known
    <3>2. \/ /\ prof[a].user \in DOMAIN cache /\ started' = started
             /\ creds' = [creds EXCEPT ![a] = [version |-> cache[prof[a].user].version, at |-> now]]
          \/ started' = [started EXCEPT ![a] = now] /\ creds' = creds
      BY <2>4, Zenon DEF Lookup
    <3>. QED  BY <1>1, <1>2, <1>3, <1>4, <3>1, <3>2, Zenon
  <2>5. CASE Select(a)
    <3>1. prof[a].user \in Users
      BY <2>5, SetupTypes DEF Select, At, CacheTypes, AttemptTypes
    <3>2. version[prof[a].user] \in Nat  BY <3>1 DEF CacheTypes
    <3>3. started' = started /\ (creds' = creds \/
             creds' = [creds EXCEPT ![a] = [creds[a] EXCEPT !.version = version[prof[a].user]]])
      BY <1>2, <2>5 DEF Select
    <3>4. [creds[a] EXCEPT !.version = version[prof[a].user]] \in C  BY <1>3, <1>4, <3>2
    <3>. QED  BY <1>2, <1>4, <3>3, <3>4, Zenon
  <2>6. CASE Store(a)
    <3>1. started' = started /\ (creds' = creds \/
             creds' = [creds EXCEPT ![a] = [creds[a] EXCEPT !.at = now]])
      BY <1>2, <2>6 DEF Store
    <3>. QED  BY <1>2, <1>3, <1>4, <3>1, Zenon
  <2>. QED  BY <2>1, <2>2, <2>3, <2>4, <2>5, <2>6, Zenon DEF Step
<1>. QED  BY <1>0, <1>5 DEF CacheTypes, C

\* An attempt that waits for an answer is somebody's.
LEMMA OfUser ==
    ASSUME CacheTypes, NEW a \in Attempts, pc[a] # "idle"
    PROVE  prof[a].user \in Users
BY SetupTypes DEF CacheTypes, AttemptTypes

\* The attempt that steps: Lookup answers from an entry that has not expired,
\* Select reads the current version, and Store comes within FetchMax.
LEMMA StepRecent ==
    ASSUME CacheTypes, Expires, NEW a \in Attempts, Recent(a), Step(a)
    PROVE  Recent(a)'
<1> DEFINE u == prof[a].user
           v == creds[a].version
<1>0. UNCHANGED <<now, version, ended>>  BY StepFrame
<1>1. now \in Nat /\ FetchMax \in Nat /\ TTL \in Nat /\ started[a] \in Nat
  BY LoginAssumption DEF CacheTypes, AttemptTypes
<1>2. DOMAIN creds = Attempts /\ DOMAIN started = Attempts  BY DEF CacheTypes
\* A place at which nothing is asked of an attempt.
<1>3. ASSUME pc'[a] \notin {"fetch", "answer", "exchange", "proved"} PROVE Recent(a)'
  BY <1>3, Zenon DEF Recent
<1>4. ASSUME pc'[a] \in {"exchange", "proved"}, prof'[a] = prof[a],
             creds'[a].version > 0 /\ u \notin DOMAIN Static =>
                Known(u, creds'[a].version) /\ UsableAt(u, creds'[a].version, creds'[a].at)
      PROVE  Recent(a)'
  BY <1>0, <1>4 DEF Recent, Known, UsableAt
<1>5. CASE Begin(a) \/ Leaves(a) \/ Goes(a, "auth") \/ Goes(a, "rate")
  <2>1. To(a, "check") \/ To(a, "idle") \/ To(a, "auth") \/ To(a, "rate")
    BY <1>5, Zenon DEF Begin, Leaves, Goes
  <2>2. pc'[a] \in {"check", "idle", "auth", "rate"}  BY <2>1, Moved, Zenon
  <2>3. pc'[a] \notin {"fetch", "answer", "exchange", "proved"}  BY <2>2
  <2>. QED  BY <1>3, <2>3
<1>6. CASE Gate(a)
  <2>1. PICK s \in BOOLEAN :
           /\ s => u \in DOMAIN Static
           /\ creds' = [creds EXCEPT ![a] =
                 IF s THEN [version |-> Static[u], at |-> now] ELSE NoCreds]
    BY <1>6, Zenon DEF Gate
  <2>2. creds'[a].version > 0 => u \in DOMAIN Static
    <3>1. CASE s  BY <2>1, <3>1
    <3>2. CASE ~s
      <4>1. creds'[a] = NoCreds  BY <1>2, <2>1, <3>2
      <4>. QED  BY <4>1 DEF NoCreds
    <3>. QED  BY <3>1, <3>2
  <2>3. prof' = prof /\ \E l \in {"exchange", "lookup", "proved", "failed"} : To(a, l)
    BY <1>6, Zenon DEF Gate
  <2>4. pc'[a] \in {"exchange", "lookup", "proved", "failed"}  BY <2>3, Moved, Zenon
  <2>5. CASE pc'[a] \in {"exchange", "proved"}  BY <1>4, <2>2, <2>3, <2>5, Zenon
  <2>6. CASE pc'[a] \notin {"exchange", "proved"}
    <3>1. pc'[a] \notin {"fetch", "answer", "exchange", "proved"}  BY <2>4, <2>6
    <3>. QED  BY <1>3, <3>1
  <2>. QED  BY <2>5, <2>6
<1>7. CASE Lookup(a)
  <2>1. prof' = prof  BY <1>7, Zenon DEF Lookup
  <2>2. \/ /\ u \in DOMAIN cache /\ now < cache[u].expires /\ To(a, "exchange")
           /\ creds' = [creds EXCEPT ![a] = [version |-> cache[u].version, at |-> now]]
        \/ To(a, "fetch") /\ started' = [started EXCEPT ![a] = now]
    BY <1>7, Zenon DEF Lookup
  <2>3. CASE /\ u \in DOMAIN cache /\ now < cache[u].expires /\ To(a, "exchange")
             /\ creds' = [creds EXCEPT ![a] = [version |-> cache[u].version, at |-> now]]
    <3>1. creds'[a] = [version |-> cache[u].version, at |-> now]  BY <1>2, <2>3
    <3>2. creds'[a].version = cache[u].version /\ creds'[a].at = now  BY <3>1
    <3>3. /\ u \in Users /\ Known(u, cache[u].version) /\ cache[u].expires \in 0..(now + TTL)
          /\ UsableAt(u, cache[u].version, cache[u].expires)
      BY <2>3, Zenon DEF Expires
    <3>4. cache[u].expires \in Nat /\ now <= cache[u].expires  BY <1>1, <2>3, <3>3
    <3>5. UsableAt(u, cache[u].version, now)
      <4>. HIDE DEF u
      <4>. QED  BY <1>1, <3>3, <3>4, UsableBefore
    <3>6. pc'[a] = "exchange"  BY <2>3, Moved
    <3>. QED  BY <1>4, <2>1, <3>2, <3>3, <3>5, <3>6, Zenon
  <2>4. CASE To(a, "fetch") /\ started' = [started EXCEPT ![a] = now]
    <3>1. pc'[a] = "fetch" /\ started'[a] = now  BY <1>2, <2>4, Moved
    <3>2. now' <= started'[a] + FetchMax  BY <1>0, <1>1, <3>1
    <3>. QED  BY <3>1, <3>2 DEF Recent
  <2>. QED  BY <2>2, <2>3, <2>4
<1>8. CASE Select(a)
  <2>1. pc[a] = "fetch" /\ prof' = prof /\ started' = started  BY <1>8, Zenon DEF Select, At
  <2>2. now <= started[a] + FetchMax  BY <2>1 DEF Recent
  <2>3. u \in Users  BY <2>1, OfUser
  <2>4. \/ To(a, "failed")
        \/ To(a, "answer") /\ creds' = [creds EXCEPT ![a].version = version[u]]
    BY <1>8, Zenon DEF Select
  <2>5. CASE To(a, "failed")
    <3>1. pc'[a] = "failed"  BY <2>5, Moved
    <3>. QED  BY <1>3, <3>1
  <2>6. CASE To(a, "answer") /\ creds' = [creds EXCEPT ![a].version = version[u]]
    <3>1. pc'[a] = "answer"  BY <2>6, Moved
    <3>2. creds'[a].version = version[u]
      <4>1. creds[a] \in [version : Nat, at : 0..now]  BY DEF CacheTypes
      <4>. QED  BY <1>2, <2>6, <4>1
    <3>3. Known(u, version[u]) /\ CurrentAt(u, version[u], started[a])
      <4>. HIDE DEF u
      <4>. QED  BY <2>3, CurrentVersion
    <3>. QED  BY <1>0, <2>1, <2>2, <3>1, <3>2, <3>3 DEF Recent, Known, CurrentAt
  <2>. QED  BY <2>4, <2>5, <2>6
<1>9. CASE Store(a)
  <2>1. pc[a] = "answer" /\ prof' = prof  BY <1>9, Zenon DEF Store, At
  <2>2. u \in Users  BY <2>1, OfUser
  <2>3. Known(u, v) /\ CurrentAt(u, v, started[a]) /\ now <= started[a] + FetchMax
    BY <2>1 DEF Recent
  <2>4. UsableAt(u, v, now)
    <3>. HIDE DEF u, v
    <3>. QED  BY <1>1, <2>2, <2>3, AnswerUsable
  <2>5. To(a, "failed") \/ (To(a, "exchange") /\ creds' = [creds EXCEPT ![a].at = now])
    BY <1>9, Zenon DEF Store
  <2>6. CASE To(a, "failed")
    <3>1. pc'[a] = "failed"  BY <2>6, Moved
    <3>. QED  BY <1>3, <3>1
  <2>7. CASE To(a, "exchange") /\ creds' = [creds EXCEPT ![a].at = now]
    <3>1. pc'[a] = "exchange"  BY <2>7, Moved
    <3>2. creds'[a].version = v /\ creds'[a].at = now
      <4>1. creds[a] \in [version : Nat, at : 0..now]  BY DEF CacheTypes
      <4>. QED  BY <1>2, <2>7, <4>1
    <3>. QED  BY <1>4, <2>1, <2>3, <2>4, <3>1, <3>2, Zenon
  <2>. QED  BY <2>5, <2>6, <2>7
<1>10. CASE Exchange(a)
  <2>1. /\ pc[a] = "exchange" /\ UNCHANGED <<prof, creds, started>>
        /\ To(a, "proved") \/ To(a, "failed")
    BY <1>10, Zenon DEF Exchange, At
  <2>2. pc'[a] \in {"proved", "failed"}  BY <2>1, Moved, Zenon
  <2>3. CASE pc'[a] = "failed"  BY <1>3, <2>3
  <2>4. CASE pc'[a] = "proved"
    <3>1. v > 0 /\ u \notin DOMAIN Static => Known(u, v) /\ UsableAt(u, v, creds[a].at)
      BY <2>1, Zenon DEF Recent
    <3>. QED  BY <1>4, <2>1, <2>4, <3>1, Zenon
  <2>. QED  BY <2>2, <2>3, <2>4
<1>. QED  BY <1>5, <1>6, <1>7, <1>8, <1>9, <1>10, Quiet, Zenon DEF Step

\* Store is the only step of an attempt that writes the cache.
LEMMA StepExpires ==
    ASSUME CacheTypes, Expires, NEW a \in Attempts, Recent(a), Step(a)
    PROVE  Expires'
<1>1. UNCHANGED <<now, version, ended>>  BY StepFrame
<1>2. CASE cache' = cache
  BY <1>1, <1>2, Zenon DEF Expires, Known, UsableAt
<1>3. CASE cache' # cache
  <2> DEFINE u == prof[a].user
             v == creds[a].version
             new == [version |-> v, expires |-> now + TTL]
  <2>1. Store(a)
    BY <1>3, Zenon DEF Step, Begin, Allowed, Gate, Lookup, Select, Exchange, RecordFailure,
       RecordSuccess, Allow
  <2>2. cache' = With(cache, u, new) /\ pc[a] = "answer"
    BY <1>3, <2>1, Zenon DEF Store, At
  <2>3. u \in Users  BY <2>2, OfUser
  <2>4. Known(u, v) /\ CurrentAt(u, v, started[a]) /\ now <= started[a] + FetchMax
    BY <2>2 DEF Recent
  <2>5. now \in Nat /\ TTL \in Nat /\ started[a] \in Nat
    BY LoginAssumption DEF CacheTypes, AttemptTypes
  <2>6. UsableAt(u, v, now + TTL)
    <3>. HIDE DEF u, v
    <3>. QED  BY <2>3, <2>4, <2>5, AnswerUsable
  <2>7. new.version = v /\ new.expires = now + TTL /\ now + TTL \in 0..(now + TTL)  BY <2>5
  <2>8. /\ DOMAIN cache' = DOMAIN cache \cup {u} /\ cache'[u] = new
        /\ \A w \in DOMAIN cache : w # u => cache'[w] = cache[w]
    <3>. HIDE DEF u, new
    <3>. QED  BY <2>2 DEF With
  <2>. HIDE DEF u, v, new
  <2>9. DOMAIN cache' \subseteq Users  BY <2>3, <2>8 DEF Expires
  <2>10. ASSUME NEW w \in DOMAIN cache'
         PROVE  /\ Known(w, cache'[w].version) /\ cache'[w].expires \in 0..(now + TTL)
                /\ UsableAt(w, cache'[w].version, cache'[w].expires)
    <3>1. CASE w = u  BY <2>4, <2>6, <2>7, <2>8, <3>1, Zenon
    <3>2. CASE w # u
      <4>1. w \in DOMAIN cache /\ cache'[w] = cache[w]  BY <2>8, <2>10, <3>2
      <4>. QED  BY <4>1, Zenon DEF Expires
    <3>. QED  BY <3>1, <3>2
  <2>. QED  BY <1>1, <2>9, <2>10, Zenon DEF Expires, Known, UsableAt
<1>. QED  BY <1>2, <1>3

\* A version that is replaced now has not been stored longer than TTL.
LEMMA RotateCache ==
    ASSUME CacheInv, AttemptTypes', NEW w \in Users, Rotate(w)
    PROVE  CacheInv'
<1>0. CacheTypes /\ Expires /\ \A a \in Attempts : Recent(a)  BY DEF CacheInv
<1>1. /\ UNCHANGED <<now, cache, pc, prof, creds, started>>
      /\ version' = [version EXCEPT ![w] = @ + 1] /\ ended' = [ended EXCEPT ![w] = Append(@, now)]
  BY Zenon DEF Rotate, attempt
<1>2. now \in Nat /\ TTL \in Nat /\ FetchMax \in Nat
  BY <1>0, LoginAssumption DEF CacheTypes, AttemptTypes
<1>3. /\ version[w] \in Nat \ {0} /\ ended[w] \in Seq(Nat) /\ Len(ended[w]) = version[w] - 1
      /\ version'[w] = version[w] + 1 /\ ended'[w] = Append(ended[w], now)
      /\ \A u \in Users : u # w => version'[u] = version[u] /\ ended'[u] = ended[u]
  BY <1>0, <1>1 DEF CacheTypes
<1>4. CacheTypes'
  <2>1. Len(ended'[w]) = version'[w] - 1  BY <1>3
  <2>2. \A u \in Users : Len(ended'[u]) = version'[u] - 1
    BY <1>0, <1>3, <2>1, Zenon DEF CacheTypes
  <2>3. version' \in [Users -> Nat \ {0}]  BY <1>0, <1>1, <1>3 DEF CacheTypes
  <2>4. ended' \in [Users -> Seq(Nat)]
    <3>1. Append(ended[w], now) \in Seq(Nat)  BY <1>2, <1>3
    <3>. QED  BY <1>0, <1>1, <3>1 DEF CacheTypes
  <2>. QED  BY <1>0, <1>1, <2>2, <2>3, <2>4 DEF CacheTypes
\* What is old stays as old; what was current becomes old now.
<1>5. ASSUME NEW u \in Users, NEW v, Known(u, v)
      PROVE  /\ Known(u, v)'
             /\ v # version'[u] => \/ v # version[u] /\ ended'[u][v] = ended[u][v]
                                   \/ ended'[u][v] = now
  <2>1. CASE u # w  BY <1>3, <1>5, <2>1 DEF Known
  <2>2. CASE u = w /\ v = version[w]
    <3>1. v = Len(ended[w]) + 1  BY <1>3, <2>2
    <3>2. Append(ended[w], now)[v] = now  BY <1>2, <1>3, <3>1
    <3>3. version[w] \in 1..(version[w] + 1)  BY <1>3
    <3>. QED  BY <1>3, <2>2, <3>2, <3>3, Zenon DEF Known
  <2>3. CASE u = w /\ v # version[w]
    <3>1. v \in 1..Len(ended[w])  BY <1>0, <1>5, <2>3, EndedAt
    <3>2. Append(ended[w], now)[v] = ended[w][v]  BY <1>2, <1>3, <3>1
    <3>3. v \in 1..(version[w] + 1)  BY <1>3, <3>1
    <3>. QED  BY <1>3, <2>3, <3>2, <3>3, Zenon DEF Known
  <2>. QED  BY <2>1, <2>2, <2>3
<1>6. ASSUME NEW u \in Users, NEW v, Known(u, v), NEW t \in Nat, t <= now + TTL, UsableAt(u, v, t)
      PROVE  Known(u, v)' /\ UsableAt(u, v, t)'
  <2>1. /\ Known(u, v)'
        /\ v # version'[u] => \/ v # version[u] /\ ended'[u][v] = ended[u][v]
                              \/ ended'[u][v] = now
    BY <1>5, <1>6, Zenon
  <2>2. t <= now + TTL + FetchMax  BY <1>2, <1>6
  <2>. QED  BY <1>6, <2>1, <2>2, Zenon DEF UsableAt
<1>7. ASSUME NEW u \in Users, NEW v, Known(u, v), NEW t \in Nat, t <= now, CurrentAt(u, v, t)
      PROVE  Known(u, v)' /\ CurrentAt(u, v, t)'
  <2>1. /\ Known(u, v)'
        /\ v # version'[u] => \/ v # version[u] /\ ended'[u][v] = ended[u][v]
                              \/ ended'[u][v] = now
    BY <1>5, <1>7, Zenon
  <2>. QED  BY <1>7, <2>1, Zenon DEF CurrentAt
<1>8. Expires'
  <2>1. ASSUME NEW u \in DOMAIN cache
        PROVE  /\ Known(u, cache[u].version)' /\ cache[u].expires \in 0..(now + TTL)
               /\ UsableAt(u, cache[u].version, cache[u].expires)'
    <3>1. /\ u \in Users /\ Known(u, cache[u].version) /\ cache[u].expires \in 0..(now + TTL)
          /\ UsableAt(u, cache[u].version, cache[u].expires)
      BY <1>0, <2>1, Zenon DEF Expires
    <3>2. cache[u].expires \in Nat /\ cache[u].expires <= now + TTL  BY <1>2, <3>1
    <3>3. Known(u, cache[u].version)' /\ UsableAt(u, cache[u].version, cache[u].expires)'
      <4> DEFINE x == cache[u].version
                 t == cache[u].expires
      <4>1. Known(u, x) /\ UsableAt(u, x, t) /\ t \in Nat /\ t <= now + TTL /\ u \in Users
        BY <3>1, <3>2, Zenon
      <4>2. cache' = cache  BY <1>1
      <4>3. x' = x /\ t' = t  BY <4>2, Zenon
      <4>4. Known(u, x)' /\ UsableAt(u, x, t)'
        <5>1. x \in 1..version'[u] /\ (x # version'[u] => t <= ended'[u][x] + TTL + FetchMax)
          <6>. HIDE DEF x, t
          <6>. QED  BY <1>6, <4>1, Zenon DEF Known, UsableAt
        <5>. QED  BY <4>3, <5>1, Zenon DEF Known, UsableAt
      <4>. QED  BY <4>4, Zenon
    <3>. QED  BY <3>1, <3>3
  <2>2. DOMAIN cache \subseteq Users  BY <1>0 DEF Expires
  <2>. QED  BY <1>1, <2>1, <2>2, Zenon DEF Expires, Known, UsableAt
<1>9. ASSUME NEW a \in Attempts PROVE Recent(a)'
  <2> DEFINE u == prof[a].user
             v == creds[a].version
             t == creds[a].at
  <2>1. /\ u' = u /\ v' = v /\ t' = t /\ pc' = pc /\ started' = started /\ now' = now
    BY <1>1, Zenon
  <2>2. t \in Nat /\ t <= now + TTL /\ started[a] \in Nat /\ started[a] <= now
    <3>1. creds[a] \in [version : Nat, at : 0..now] /\ started[a] \in 0..now
      BY <1>0 DEF CacheTypes
    <3>. QED  BY <1>2, <3>1
  <2>3. pc[a] # "idle" => u \in Users  BY <1>0, OfUser
  <2>4. /\ pc[a] \in {"fetch", "answer"} => now <= started[a] + FetchMax
        /\ pc[a] = "answer" => Known(u, v) /\ CurrentAt(u, v, started[a])
        /\ pc[a] \in {"exchange", "proved"} /\ v > 0 /\ u \notin DOMAIN Static =>
              Known(u, v) /\ UsableAt(u, v, t)
    BY <1>0, Zenon DEF Recent
  <2>5. ASSUME pc[a] = "answer"
        PROVE  v \in 1..version'[u] /\ (v # version'[u] => started[a] <= ended'[u][v])
    <3>. HIDE DEF u, v
    <3>. QED  BY <1>7, <2>2, <2>3, <2>4, <2>5, Zenon DEF Known, CurrentAt
  <2>6. ASSUME pc[a] \in {"exchange", "proved"}, v > 0, u \notin DOMAIN Static
        PROVE  v \in 1..version'[u] /\ (v # version'[u] => t <= ended'[u][v] + TTL + FetchMax)
    <3>1. pc[a] # "idle"  BY <2>6
    <3>. HIDE DEF u, v, t
    <3>. QED  BY <1>6, <2>2, <2>3, <2>4, <2>6, <3>1, Zenon DEF Known, UsableAt
  <2>. QED  BY <1>1, <2>1, <2>4, <2>5, <2>6, Zenon DEF Recent, Known, UsableAt, CurrentAt
<1>. QED  BY <1>4, <1>8, <1>9, Zenon DEF CacheInv

\* Time passes: bounds relative to now get weaker, and a lookup that is under
\* way has not used up its timeout.
LEMMA TickCache ==
    ASSUME CacheInv, AttemptTypes', Tick
    PROVE  CacheInv'
<1>0. CacheTypes /\ Expires /\ \A a \in Attempts : Recent(a)  BY DEF CacheInv
<1>1. /\ UNCHANGED <<version, ended, cache, pc, prof, creds, started>> /\ now' = now + 1
      /\ \A a \in Attempts : pc[a] \in {"fetch", "answer"} => now < started[a] + FetchMax
  BY Zenon DEF Tick, attempt, postgres
<1>2. now \in Nat /\ TTL \in Nat /\ FetchMax \in Nat
  BY <1>0, LoginAssumption DEF CacheTypes, AttemptTypes
<1>3. CacheTypes'
  <2>0. \A n \in 0..now : n \in 0..now'  BY <1>1, <1>2
  <2>1. started' \in [Attempts -> 0..now']  BY <1>0, <1>1, <2>0 DEF CacheTypes
  <2>2. creds' \in [Attempts -> [version : Nat, at : 0..now']]  BY <1>0, <1>1, <2>0 DEF CacheTypes
  <2>. QED  BY <1>0, <1>1, <2>1, <2>2 DEF CacheTypes
<1>4. Expires'
  <2>1. \A n \in 0..(now + TTL) : n \in 0..(now' + TTL)  BY <1>1, <1>2
  <2>. QED  BY <1>0, <1>1, <2>1, Zenon DEF Expires, Known, UsableAt
<1>5. ASSUME NEW a \in Attempts PROVE Recent(a)'
  <2>1. pc[a] \in {"fetch", "answer"} => now' <= started[a] + FetchMax
    <3>1. started[a] \in Nat  BY <1>0 DEF CacheTypes
    <3>. QED  BY <1>1, <1>2, <3>1
  <2>. QED  BY <1>0, <1>1, <2>1, Zenon DEF Recent, Known, UsableAt, CurrentAt
<1>. QED  BY <1>3, <1>4, <1>5, Zenon DEF CacheInv

\* Every step keeps the invariant.
LEMMA CacheStep == CacheInv /\ [Next]_vars => CacheInv'
<1>. SUFFICES ASSUME CacheInv, [Next]_vars PROVE CacheInv'  OBVIOUS
<1>0. CacheTypes /\ Expires /\ \A a \in Attempts : Recent(a)  BY DEF CacheInv
<1>1. AttemptTypes'  BY <1>0, AttemptStep DEF CacheTypes
<1>2. ASSUME NEW a \in Attempts, Step(a) PROVE CacheInv'
  <2>1. CacheTypes'  BY <1>0, <1>1, <1>2, StepCacheTypes
  <2>2. Expires'  BY <1>0, <1>2, StepExpires
  <2>3. Recent(a)'  BY <1>0, <1>2, StepRecent
  <2>4. ASSUME NEW c \in Attempts, c # a PROVE Recent(c)'
    <3>1. UNCHANGED <<now, version, ended>>  BY <1>0, <1>2, StepFrame
    <3>2. pc'[c] = pc[c] /\ prof'[c] = prof[c] /\ creds'[c] = creds[c] /\ started'[c] = started[c]
      BY <1>0, <1>2, <2>4, StepFrame
    <3>. QED  BY <1>0, <3>1, <3>2, Zenon DEF Recent, Known, UsableAt, CurrentAt
  <2>. QED  BY <2>1, <2>2, <2>3, <2>4, Zenon DEF CacheInv
<1>3. ASSUME NEW u \in Users, Rotate(u) PROVE CacheInv'  BY <1>1, <1>3, RotateCache
<1>4. CASE Tick  BY <1>1, <1>4, TickCache
<1>5. ASSUME NEW u \in Users, Invalidate(u) PROVE CacheInv'
  <2>1. /\ UNCHANGED <<now, version, ended, pc, prof, creds, started>>
        /\ cache' = Without(cache, u)
    BY <1>5, Zenon DEF Invalidate, attempt, postgres
  <2>2. DOMAIN cache' \subseteq DOMAIN cache /\ \A w \in DOMAIN cache' : cache'[w] = cache[w]
    BY <2>1 DEF Without
  <2>3. CacheTypes'  BY <1>0, <1>1, <2>1, Zenon DEF CacheTypes
  <2>4. Expires'
    <3>1. DOMAIN cache' \subseteq Users  BY <1>0, <2>2 DEF Expires
    <3>2. \A w \in DOMAIN cache' : w \in DOMAIN cache  BY <2>2
    <3>. QED  BY <1>0, <2>1, <2>2, <3>1, <3>2, Zenon DEF Expires, Known, UsableAt
  <2>5. \A a \in Attempts : Recent(a)'
    BY <1>0, <2>1, Zenon DEF Recent, Known, UsableAt, CurrentAt
  <2>. QED  BY <2>3, <2>4, <2>5, Zenon DEF CacheInv
<1>6. CASE ReadLine \/ Serve \/ UNCHANGED vars
  <2>1. UNCHANGED <<now, version, ended, cache, pc, prof, creds, started>>
    BY <1>6, Zenon DEF ReadLine, Serve, attempt, postgres, vars
  <2>2. CacheTypes'  BY <1>0, <1>1, <2>1, Zenon DEF CacheTypes
  <2>3. Expires'  BY <1>0, <2>1, Zenon DEF Expires, Known, UsableAt
  <2>4. \A a \in Attempts : Recent(a)'
    BY <1>0, <2>1, Zenon DEF Recent, Known, UsableAt, CurrentAt
  <2>. QED  BY <2>2, <2>3, <2>4, Zenon DEF CacheInv
<1>. QED  BY <1>2, <1>3, <1>4, <1>5, <1>6, Zenon DEF Next

\* A password changed in Postgres takes effect within the TTL of the cache
\* plus the timeout of one lookup, also for a lookup that straddles the
\* change.
THEOREM VerifierAgeBounded == Spec => []StaleBounded
<1>1. Init => CacheInv
  <2>. SUFFICES ASSUME Init PROVE CacheInv  OBVIOUS
  <2>1. CacheTypes
    BY DEF Init, CacheTypes, AttemptTypes, AttemptPCs, NoCreds
  <2>2. Expires  BY DEF Init, Expires
  <2>3. \A a \in Attempts : Recent(a)  BY DEF Init, Recent
  <2>. QED  BY <2>1, <2>2, <2>3 DEF CacheInv
<1>2. CacheInv /\ [Next]_vars => CacheInv'  BY CacheStep
<1>3. CacheInv => StaleBounded
  BY Zenon DEF CacheInv, Recent, UsableAt, StaleBounded
<1>. QED  BY <1>1, <1>2, <1>3, PTL DEF Spec
=============================================================================
