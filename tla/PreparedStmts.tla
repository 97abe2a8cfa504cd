---------------------------- MODULE PreparedStmts ----------------------------
(***************************************************************************)
(* Named prepared statements across pooled backends: processClientMsg and  *)
(* what it calls in src/prepared_stmts.go, with the parts of relayImpl and *)
(* adoptBackend (src/relay.go) that move a session between backends and    *)
(* filter the replies.                                                     *)
(*                                                                         *)
(* The client numbers its statements by name and assumes a server of its   *)
(* own; own[s] is that server.  Every batch is answered twice: by the      *)
(* backend the session holds, with the injected messages in the batch and  *)
(* their acknowledgements swallowed (Got), and by own[s] (Due).            *)
(*                                                                         *)
(* A batch is answered in the step that ends it: between the flush and     *)
(* ReadyForQuery nobody else touches the backend.  Failing resets, lost    *)
(* backends and clients that leave inside a batch are in module Relay.     *)
(***************************************************************************)
EXTENDS Integers, FiniteSets, SequencesExt

CONSTANTS
    Sessions, Backends, Names,
    Sqls,           \* texts a client prepares ...
    Bad,            \* ... among them one the server rejects
    Ddl,            \* ... and one isDDL recognises
    None,
    Gone,           \* the id of a session that has ended
    PSLimit,        \* max_prepared_statements; 0 is no limit
    sessionPSCeilingFactor,
    SkipSame,       \* server_reset_query_skip_same_session
    Vocabulary,     \* bound: the names each client uses, with the texts for each
    MaxBatch,       \* bound: client messages between two Syncs
    Habits          \* what the clients do, of AllHabits

\* pipeline: one batch works with several statements.  tail: messages follow
\* one that fails.  reuse: a name is prepared again after a Close.  afterDdl: a
\* statement prepared before a DDL is used after it.
AllHabits == {"pipeline", "tail", "reuse", "afterDdl"}

ASSUME PSAssumption ==
    /\ SkipSame \in BOOLEAN /\ PSLimit \in Nat
    /\ sessionPSCeilingFactor \in Nat \ {0} /\ MaxBatch \in [Sessions -> Nat]
    /\ Vocabulary \in [Sessions -> SUBSET (Names \X Sqls)] /\ Habits \subseteq AllHabits
    /\ None \notin Sqls /\ {None, Gone} \cap (Sessions \cup Backends) = {} /\ None # Gone

VARIABLES
    psCache,        \* sess.psCache: name -> text, None where it has no entry
    preparedStmts,  \* backend.preparedStmts: names, least recently used first
    stateOwner,     \* backend.stateOwner
    held,           \* the backend a session holds
    batch,          \* what the session has sent to it since the last Sync
    stmts,          \* external: the statements the backend's server has
    own,            \* the statements a server of the client's own would have
    used,           \* names the client has prepared at some time
    lost            \* of these, the ones it prepared before its last DDL

vars == <<psCache, preparedStmts, stateOwner, held, batch, stmts, own, used, lost>>

clientVars == <<own, used, lost>>

Nothing == [n \in Names |-> None]

Init ==
    /\ psCache = [s \in Sessions |-> Nothing]
    /\ preparedStmts = [b \in Backends |-> << >>]
    /\ stateOwner = [b \in Backends |-> None]
    /\ held = [s \in Sessions |-> None]
    /\ batch = [s \in Sessions |-> << >>]
    /\ stmts = [b \in Backends |-> Nothing]
    /\ own = [s \in Sessions |-> Nothing]
    /\ used = [s \in Sessions |-> {}]
    /\ lost = [s \in Sessions |-> {}]

NamesOf(map) == {n \in Names : map[n] # None}

----------------------------------------------------------------------------
(* The server.                                                             *)

\* A message of a batch.  A "bind" is a Bind with its Execute, or a Describe
\* of a statement: what matters is the statement they reach.
Msg(kind, n, q, by) == [kind |-> kind, name |-> n, sql |-> q, by |-> by]

Own(msgs) == SelectSeq(msgs, LAMBDA m : m.by = "client")

Fails(a, m) ==
    \/ m.kind = "parse" /\ (a.stmts[m.name] # None \/ m.sql = Bad)
    \/ m.kind = "bind" /\ (a.stmts[m.name] = None \/ m.sql = Bad)

\* After an error the server skips to the Sync.  A Bind's reply shows the text
\* that ran; a Close is confirmed whether or not there was such a statement.
Answer(a, m) ==
    CASE a.skip -> a
      [] ~a.skip /\ Fails(a, m) ->
            [a EXCEPT !.skip = TRUE, !.out = Append(@, <<"ErrorResponse">>)]
      [] ~a.skip /\ ~Fails(a, m) /\ m.kind = "parse" ->
            [a EXCEPT !.stmts[m.name] = m.sql, !.out = Append(@, <<"ParseComplete">>)]
      [] ~a.skip /\ ~Fails(a, m) /\ m.kind = "close" ->
            [a EXCEPT !.stmts[m.name] = None, !.out = Append(@, <<"CloseComplete">>)]
      [] ~a.skip /\ ~Fails(a, m) /\ m.kind = "bind" ->
            [a EXCEPT !.out = Append(@, <<"BindComplete", a.stmts[m.name]>>)]

Serve(map, msgs) == FoldLeft(Answer, [stmts |-> map, skip |-> FALSE, out |-> << >>], msgs)

----------------------------------------------------------------------------
(* Swallowing the replies to injected messages.                            *)

\* Bug form: a flag instead of a counter.
psSwallowOnce(msgs) ==
    [ParseComplete |-> IF \E i \in DOMAIN msgs : msgs[i].by = "proxy" /\ msgs[i].kind = "parse"
                       THEN 1 ELSE 0,
     CloseComplete |-> Len(SelectSeq(msgs, LAMBDA m : m.by = "proxy" /\ m.kind = "close"))]

\* The counts relayImpl has added up when the batch is flushed.
psSwallow(msgs) ==
    LET Injected(kind) == Len(SelectSeq(msgs, LAMBDA m : m.by = "proxy" /\ m.kind = kind))
    IN  [ParseComplete |-> Injected("parse"), CloseComplete |-> Injected("close")]

\* The reply loop: the first replies of a counted kind are dropped.
Forward(a, reply) ==
    LET kind == reply[1]
    IN  IF kind \in DOMAIN a.swallow /\ a.swallow[kind] > 0
        THEN [a EXCEPT !.swallow[kind] = @ - 1]
        ELSE [a EXCEPT !.out = Append(@, reply)]

Got(s) ==
    FoldLeft(Forward, [swallow |-> psSwallow(batch[s]), out |-> << >>],
             Serve(stmts[held[s]], batch[s]).out).out

Due(s) == Serve(own[s], Own(batch[s])).out

----------------------------------------------------------------------------
(* The backend's cache.                                                    *)

Touch(cache, n) == Append(Remove(cache, n), n)

\* markBackendHasStmt, its loop over lruStmt: what has to go to make room.
Victims(cache, n) ==
    IF PSLimit = 0 \/ Contains(cache, n) \/ Len(cache) < PSLimit THEN << >>
    ELSE SubSeq(cache, 1, Len(cache) - PSLimit + 1)

\* Bug form: the victim is forgotten, not closed.
EvictionsForgotten(cache, n) == << >>

\* The Close of every victim.
Evictions(cache, n) ==
    [i \in DOMAIN Victims(cache, n) |-> Msg("close", Victims(cache, n)[i], None, "proxy")]

\* markBackendHasStmt: the cache with n in it as the most recently used.
markBackendHasStmt(cache, n) ==
    Touch(SubSeq(cache, Len(Victims(cache, n)) + 1, Len(cache)), n)

sessionPSCeiling == PSLimit * sessionPSCeilingFactor

----------------------------------------------------------------------------
(* The client.                                                             *)

\* What the client takes to be prepared: every Parse and Close it has sent
\* since the last Sync did what it says.
View(s) ==
    FoldLeft(LAMBDA known, m : IF m.kind = "parse" THEN known \cup {m.name}
                               ELSE IF m.kind = "close" THEN known \ {m.name} ELSE known,
             NamesOf(own[s]), Own(batch[s]))

\* The client sends one more message, about n.
Sends(s, n) ==
    /\ held[s] # None
    /\ Len(Own(batch[s])) < MaxBatch[s]
    /\ "pipeline" \in Habits \/ \A i \in DOMAIN batch[s] :
                                    batch[s][i].by = "client" => batch[s][i].name = n
    /\ "tail" \in Habits \/ \A i \in DOMAIN batch[s] : batch[s][i].sql # Bad

Queue(s, msgs) == batch' = [batch EXCEPT ![s] = @ \o msgs]

Prepares(s, n) ==
    /\ IF "reuse" \in Habits THEN n \notin View(s) ELSE n \notin used[s]
    /\ Sends(s, n)

\* After a DDL the comment of invalidatePSCachesOnDDL expects the client to
\* prepare anew.
Uses(s, n) ==
    /\ n \in used[s] /\ ("afterDdl" \in Habits \/ n \notin lost[s])
    /\ Sends(s, n) /\ n \in View(s)

----------------------------------------------------------------------------
(* Sessions and backends.                                                  *)

Free == Backends \ {held[s] : s \in Sessions}

\* Bug form: the record of the previous session is kept.
adoptBackendKeepsCache(s, b) ==
    /\ stateOwner' = [stateOwner EXCEPT ![b] = s]
    /\ stmts' = [stmts EXCEPT ![b] = IF SkipSame /\ stateOwner[b] = s THEN @ ELSE Nothing]
    /\ UNCHANGED preparedStmts

\* With the option on there is nothing to do for the session that had the
\* backend last; otherwise the reset query (DISCARD ALL) and an empty record.
adoptBackend(s, b) ==
    IF SkipSame /\ stateOwner[b] = s
    THEN UNCHANGED <<stateOwner, stmts, preparedStmts>>
    ELSE /\ stateOwner' = [stateOwner EXCEPT ![b] = s]
         /\ stmts' = [stmts EXCEPT ![b] = Nothing]
         /\ preparedStmts' = [preparedStmts EXCEPT ![b] = << >>]

\* A message arrives and the session takes any idle backend.
Acquire(s, b) ==
    /\ held[s] = None /\ b \in Free
    /\ held' = [held EXCEPT ![s] = b]
    /\ adoptBackend(s, b)
    /\ UNCHANGED <<psCache, batch>> /\ UNCHANGED clientVars

\* release(true), or Discard and a fresh connection in its place.
Release(s) == held' = [held EXCEPT ![s] = None]

Discarded(b) ==
    /\ stmts' = [stmts EXCEPT ![b] = Nothing]
    /\ preparedStmts' = [preparedStmts EXCEPT ![b] = << >>]

\* The session ends, and the next client in its place gets an id of its own.
End(s, reusable) ==
    /\ Release(s)
    /\ stateOwner' = [b \in Backends |->
                        IF b = held[s] /\ ~reusable THEN None
                        ELSE IF stateOwner[b] = s THEN Gone ELSE stateOwner[b]]
    /\ IF held[s] # None /\ ~reusable THEN Discarded(held[s])
       ELSE UNCHANGED <<stmts, preparedStmts>>
    /\ psCache' = [psCache EXCEPT ![s] = Nothing]
    /\ batch' = [batch EXCEPT ![s] = << >>]
    /\ own' = [own EXCEPT ![s] = Nothing]
    /\ used' = [used EXCEPT ![s] = {}]
    /\ lost' = [lost EXCEPT ![s] = {}]

----------------------------------------------------------------------------
(* processClientMsg.                                                       *)

\* invalidatePSCachesOnDDL: both caches are dropped.
invalidatePSCachesOnDDL(s) ==
    /\ psCache' = [psCache EXCEPT ![s] = Nothing]
    /\ preparedStmts' = [preparedStmts EXCEPT ![held[s]] = << >>]

AtCeiling(s, n) ==
    /\ psCache[s][n] = None
    /\ sessionPSCeiling > 0 /\ Cardinality(NamesOf(psCache[s])) >= sessionPSCeiling

\* A named Parse: trackClientParse, then checkSQLSideEffects.
Parse(s, n, q) ==
    LET cache == preparedStmts[held[s]]
    IN  /\ Prepares(s, n) /\ ~AtCeiling(s, n)
        /\ Queue(s, Evictions(cache, n) \o <<Msg("parse", n, q, "client")>>)
        /\ used' = [used EXCEPT ![s] = @ \cup {n}]
        /\ IF q = Ddl
           THEN invalidatePSCachesOnDDL(s) /\ lost' = [lost EXCEPT ![s] = used'[s]]
           ELSE /\ psCache' = [psCache EXCEPT ![s][n] = q]
                /\ preparedStmts' = [preparedStmts EXCEPT ![held[s]] = markBackendHasStmt(@, n)]
                /\ UNCHANGED lost
        /\ UNCHANGED <<stateOwner, held, stmts, own>>

\* A Parse over the ceiling ends the session: between transactions (tx) with
\* nothing sent the backend goes back, otherwise it is discarded.
ParseRefused(s, n, tx) ==
    /\ held[s] # None /\ AtCeiling(s, n) /\ Prepares(s, n)
    /\ End(s, batch[s] = << >> /\ ~tx)

\* Bind, and Describe of a statement: ensureBackendHasStmt.  outcome is Bad if
\* what it runs will fail.
Bind(s, n, outcome) ==
    LET cache == preparedStmts[held[s]]
        bind == Msg("bind", n, outcome, "client")
        parse == Msg("parse", n, psCache[s][n], "proxy")
    IN  /\ Uses(s, n)
        /\ IF psCache[s][n] = None
           THEN Queue(s, <<bind>>) /\ UNCHANGED preparedStmts
           ELSE IF Contains(cache, n)
           THEN /\ Queue(s, <<bind>>)
                /\ preparedStmts' = [preparedStmts EXCEPT ![held[s]] = Touch(@, n)]
           ELSE /\ Queue(s, Evictions(cache, n) \o <<parse, bind>>)
                /\ preparedStmts' = [preparedStmts EXCEPT ![held[s]] = markBackendHasStmt(@, n)]
        /\ UNCHANGED <<psCache, stateOwner, held, stmts, own, used, lost>>

\* Close of a statement: dropped from both caches, and forwarded.
Close(s, n) ==
    /\ n \in used[s] /\ Sends(s, n)
    /\ Queue(s, <<Msg("close", n, None, "client")>>)
    /\ psCache' = [psCache EXCEPT ![s][n] = None]
    /\ preparedStmts' = [preparedStmts EXCEPT ![held[s]] = Remove(@, n)]
    /\ UNCHANGED <<stateOwner, held, stmts, own, used, lost>>

----------------------------------------------------------------------------
(* The end of a cycle.                                                     *)

\* Flush, the reply loop and ReadyForQuery; the backend goes back when no
\* transaction is open (keep).
Sync(s, keep) ==
    /\ held[s] # None
    /\ stmts' = [stmts EXCEPT ![held[s]] = Serve(@, batch[s]).stmts]
    /\ own' = [own EXCEPT ![s] = Serve(@, Own(batch[s])).stmts]
    /\ batch' = [batch EXCEPT ![s] = << >>]
    /\ IF keep THEN UNCHANGED held ELSE Release(s)
    /\ UNCHANGED <<psCache, preparedStmts, stateOwner, used, lost>>

\* A simple Query with a DDL, a cycle of its own.
QueryDdl(s, keep) ==
    /\ held[s] # None /\ batch[s] = << >>
    /\ invalidatePSCachesOnDDL(s)
    /\ lost' = [lost EXCEPT ![s] = used[s]]
    /\ IF keep THEN UNCHANGED held ELSE Release(s)
    /\ UNCHANGED <<batch, stateOwner, stmts, own, used>>

\* The client leaves between two batches.
Leave(s, reusable) == batch[s] = << >> /\ End(s, reusable)

\* An error in the last message of a batch has no effect on anything else.
Outcomes == IF "tail" \in Habits THEN {None, Bad} ELSE {None}

Next ==
    \E s \in Sessions :
        \/ \E b \in Backends : Acquire(s, b)
        \/ \E v \in Vocabulary[s] :
            \/ Parse(s, v[1], v[2])
            \/ \E tx \in BOOLEAN : ParseRefused(s, v[1], tx)
            \/ \E outcome \in Outcomes : Bind(s, v[1], outcome)
            \/ Close(s, v[1])
        \/ \E keep \in BOOLEAN : Sync(s, keep) \/ QueryDdl(s, keep)
        \/ \E reusable \in BOOLEAN : Leave(s, reusable)

Spec == Init /\ [][Next]_vars

----------------------------------------------------------------------------
(* Properties.                                                             *)

Messages ==
    [kind : {"parse", "bind", "close"}, name : Names, sql : Sqls \cup {None},
     by : {"client", "proxy"}]

\* Type correctness; the record of a backend names each statement once and
\* stays within max_prepared_statements.
TypeOK ==
    /\ psCache \in [Sessions -> [Names -> Sqls \cup {None}]]
    /\ \A b \in Backends :
        /\ preparedStmts[b] \in Seq(Names) /\ IsInjective(preparedStmts[b])
        /\ PSLimit > 0 => Len(preparedStmts[b]) <= PSLimit
    /\ stateOwner \in [Backends -> Sessions \cup {None, Gone}]
    /\ held \in [Sessions -> Backends \cup {None}]
    /\ \A s \in Sessions : batch[s] \in Seq(Messages)
    /\ stmts \in [Backends -> [Names -> Sqls \cup {None}]]
    /\ own \in [Sessions -> [Names -> Sqls \cup {None}]]
    /\ used \in [Sessions -> SUBSET Names] /\ lost \in [Sessions -> SUBSET Names]

Acks == {"ParseComplete", "CloseComplete"}
Results(out) == SelectSeq(out, LAMBDA r : r[1] \notin Acks)
Count(out, kind) == Len(SelectSeq(out, LAMBDA r : r[1] = kind))

\* Statements are replayed transparently: whichever backend a session is on,
\* each of its Binds runs the text it prepared under that name, or fails where
\* a server of its own would have failed.
OwnStatements ==
    \A s \in Sessions : batch[s] # << >> => Results(Got(s)) = Results(Due(s))

\* The replies to injected messages stay with the proxy: in any batch the
\* client gets as many acknowledgements of each kind as it sent messages to be
\* acknowledged, and in a batch about one statement exactly the replies it
\* asked for, in order.
RepliesExact ==
    \A s \in Sessions : batch[s] # << >> =>
        /\ \A kind \in Acks : Count(Got(s), kind) = Count(Due(s), kind)
        /\ Cardinality({Own(batch[s])[i].name : i \in DOMAIN Own(batch[s])}) <= 1
              => Got(s) = Due(s)

\* An evicted statement is closed on the server, not forgotten: a backend holds
\* no more than max_prepared_statements of its session's statements, apart from
\* those a DDL made the proxy forget.  (With the types.)
ResidentBounded ==
    /\ TypeOK
    /\ \A b \in Backends : PSLimit > 0 /\ stateOwner[b] \in Sessions =>
          Cardinality(NamesOf(stmts[b]) \ lost[stateOwner[b]]) <= PSLimit
=============================================================================
