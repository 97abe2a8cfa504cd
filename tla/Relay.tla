------------------------------- MODULE Relay -------------------------------
(***************************************************************************)
(* The relay: src/relay.go's relayImpl with adoptBackend, runResetQuery,   *)
(* failQuery and relayCopyIn, one goroutine per client session, and the    *)
(* cancel requests of src/session.go that look into a session from other   *)
(* goroutines.                                                             *)
(*                                                                         *)
(* A backend is a connection with two ends.  pgman's end is the write      *)
(* buffer of its Frontend (wbuf) and stateOwner; the server's end is what  *)
(* PostgreSQL does with the messages (external): it answers each one, ends *)
(* a cycle with ReadyForQuery and its transaction status, and after an     *)
(* error in an extended batch skips everything up to Sync.                 *)
(*                                                                         *)
(* The pool appears as its promise (module Pool): Acquire hands out a      *)
(* connection nobody holds, idle or freshly dialed, or fails.              *)
(***************************************************************************)
EXTENDS Integers, Sequences

CONSTANTS
    Sessions,       \* client sessions
    Backends,       \* backend connections
    Cancellers,     \* goroutines in cancelSession
    None,           \* nil
    Modes,          \* pool modes to consider
    SkipSame,       \* server_reset_query_skip_same_session
    Tracked,        \* sessions with tracked startup parameters
    ExtendedCopy,   \* whether clients run COPY FROM STDIN in extended batches
    MaxMsgs         \* bound: messages a client starts a cycle or a batch part with

ASSUME RelayAssumption ==
    /\ None \notin Sessions \cup Backends
    /\ Modes \subseteq {"transaction", "session", "statement"}
    /\ SkipSame \in BOOLEAN /\ ExtendedCopy \in BOOLEAN /\ Tracked \subseteq Sessions /\ MaxMsgs \in Nat

VARIABLES
    pc,             \* where the relay of each session is
    held,           \* its local variable backend
    lastTx,         \* its local variable lastTxStatus ("?" before the first)
    cur,            \* the message it is about to forward
    sent,           \* how many messages its client has sent
    sessBackend,    \* sess.backend, which cancelSession reads
    draining,       \* opts.draining
    mode,           \* the poolMode of the pool, fixed
    idle,           \* the pool: connections nobody holds
    life,           \* a connection is "new" (not dialed), "up" or "gone"
    stateOwner,     \* backendConn.stateOwner
    wbuf,           \* messages in the Frontend's write buffer
    inq,            \* messages on the way to the server
    outq,           \* replies on the way to pgman
    tx,             \* the server's transaction status: "I", "T" or "E"
    txOf,           \* whose transaction it is
    skipping,       \* the server skips messages up to Sync
    copying,        \* the COPY whose end it waits for: who runs it, in which protocol
    carries,        \* sessions whose session-level state the server holds
    got,            \* history: the senders whose replies a client received
    target          \* the backend a canceller found, and for which session

relayVars == <<pc, held, lastTx, cur, sent, sessBackend, draining, mode, got, target>>
connVars == <<idle, life, stateOwner, wbuf>>
serverVars == <<tx, txOf, skipping, copying, carries>>
vars == <<relayVars, connVars, inq, outq, serverVars>>

Msg(s, t) == [from |-> s, type |-> t]
Reply(s, t, x) == [to |-> s, type |-> t, tx |-> x]
Messages == [from : Sessions, type : {"part", "sync", "query", "copydone",
                                     "reset", "set", "check"}]
Replies == [to : Sessions, type : {"ack", "error", "copyin", "rfq"}, tx : {"", "I", "T", "E"}]

Init ==
    /\ pc = [s \in Sessions |-> "read"]
    /\ held = [s \in Sessions |-> None]
    /\ lastTx = [s \in Sessions |-> "?"]
    /\ cur = [s \in Sessions |-> "query"]
    /\ sent = [s \in Sessions |-> 0]
    /\ sessBackend = [s \in Sessions |-> None]
    /\ draining = FALSE
    /\ mode \in Modes
    /\ idle = {}
    /\ life = [b \in Backends |-> "new"]
    /\ stateOwner = [b \in Backends |-> None]
    /\ wbuf = [b \in Backends |-> << >>]
    /\ inq = [b \in Backends |-> << >>]
    /\ outq = [b \in Backends |-> << >>]
    /\ tx = [b \in Backends |-> "I"]
    /\ txOf = [b \in Backends |-> None]
    /\ skipping = [b \in Backends |-> FALSE]
    /\ copying = [b \in Backends |-> << >>]
    /\ carries = [b \in Backends |-> {}]
    /\ got = [s \in Sessions |-> {}]
    /\ target = [k \in Cancellers |-> <<None, None>>]

Goto(s, l) == pc' = [pc EXCEPT ![s] = l]

----------------------------------------------------------------------------
(* The closure release, and Discard.                                       *)

\* Bug form: a connection that is not reusable is forgotten, not discarded.
ReleaseForgets(s, reusable, l) ==
    /\ held' = [held EXCEPT ![s] = None]
    /\ idle' = IF reusable /\ held[s] # None THEN idle \cup {held[s]} ELSE idle
    /\ stateOwner' = IF held[s] = None THEN stateOwner ELSE [stateOwner EXCEPT ![held[s]] = s]
    /\ UNCHANGED life /\ Goto(s, l)

\* Bug form: the tag is cleared, as if the scrub still ran here.
ReleaseUntags(s, reusable, l) ==
    LET b == held[s]
    IN /\ held' = [held EXCEPT ![s] = None]
       /\ idle' = IF reusable /\ b # None THEN idle \cup {b} ELSE idle
       /\ life' = IF reusable \/ b = None THEN life ELSE [life EXCEPT ![b] = "gone"]
       /\ stateOwner' = IF b = None THEN stateOwner ELSE [stateOwner EXCEPT ![b] = None]
       /\ Goto(s, l)

\* p.Release tagged with the owner, or p.Discard, which closes the socket.
\* sess.backend is cleared afterwards: UnsetBackend, at "unset" when the relay
\* goes on and at "leave" when it returns.
release(s, reusable, l) ==
    LET b == held[s]
    IN /\ held' = [held EXCEPT ![s] = None]
       /\ IF b = None THEN UNCHANGED <<idle, life, stateOwner>>
          ELSE IF reusable
               THEN /\ idle' = idle \cup {b}
                    /\ stateOwner' = [stateOwner EXCEPT ![b] = s]
                    /\ UNCHANGED life
               ELSE /\ life' = [life EXCEPT ![b] = "gone"]
                    /\ UNCHANGED <<idle, stateOwner>>
       /\ Goto(s, l)

\* release(false) and return; its whole effect on a session without a backend
\* is the return.
Abandon(s) ==
    /\ release(s, FALSE, "leave")
    /\ UNCHANGED <<wbuf, inq, outq, serverVars>>
    /\ UNCHANGED <<lastTx, cur, sent, sessBackend, draining, mode, got, target>>

UnsetBackend(s) ==
    /\ pc[s] \in {"unset", "leave"}
    /\ sessBackend' = [sessBackend EXCEPT ![s] = None]
    /\ Goto(s, IF pc[s] = "unset" THEN "read" ELSE "end")
    /\ UNCHANGED <<held, lastTx, cur, sent, draining, mode, got, target>>
    /\ UNCHANGED <<connVars, inq, outq, serverVars>>

\* What only the relay of s sees of a step: nothing of any backend.
SameBackends == UNCHANGED <<connVars, inq, outq, serverVars>>

----------------------------------------------------------------------------
(* Reading from the client between cycles.                                 *)

\* The first message of a cycle.  With no backend held and a shutdown under
\* way the session is told so and ends.
ReadMessage(s) ==
    /\ pc[s] = "read" /\ sent[s] < MaxMsgs
    /\ sent' = [sent EXCEPT ![s] = @ + 1]
    /\ \E t \in {"query", "part"} : cur' = [cur EXCEPT ![s] = t]
    /\ Goto(s, CASE held[s] # None -> "forward"
               [] held[s] = None /\ draining -> "end"
               [] OTHER -> "acquire")
    /\ UNCHANGED <<held, lastTx, sessBackend, draining, mode, got, target>> /\ SameBackends

\* Bug form: the held connection is always taken for a clean one.
LeavesReusable(s) ==
    /\ pc[s] \in {"read", "batch"}
    /\ release(s, TRUE, "leave")
    /\ UNCHANGED <<wbuf, inq, outq, serverVars>>
    /\ UNCHANGED <<lastTx, cur, sent, sessBackend, draining, mode, got, target>>

\* EOF, Terminate or an idle timeout, between cycles or inside a batch.
ClientLeaves(s) ==
    /\ pc[s] \in {"read", "batch"}
    /\ release(s, lastTx[s] = "I", "leave")
    /\ UNCHANGED <<wbuf, inq, outq, serverVars>>
    /\ UNCHANGED <<lastTx, cur, sent, sessBackend, draining, mode, got, target>>

----------------------------------------------------------------------------
(* Acquire and adoptBackend.                                               *)

\* Flush: everything buffered goes to the server, m last.
SendNow(b, m) ==
    /\ inq' = [inq EXCEPT ![b] = @ \o Append(wbuf[b], m)]
    /\ wbuf' = [wbuf EXCEPT ![b] = << >>]

\* p.Acquire takes a connection: one it dials, an idle one as it is, or an
\* idle one it first runs the health check on.
Acquired(s, b) ==
    /\ pc[s] = "acquire"
    /\ b \in idle \/ life[b] = "new"
    /\ idle' = idle \ {b}
    /\ life' = [life EXCEPT ![b] = "up"]
    /\ held' = [held EXCEPT ![s] = b]
    /\ \/ /\ Goto(s, "adopt") /\ sessBackend' = [sessBackend EXCEPT ![s] = b]
          /\ UNCHANGED <<wbuf, inq>>
       \/ /\ b \in idle /\ Goto(s, "checking") /\ SendNow(b, Msg(s, "check"))
          /\ UNCHANGED sessBackend
    /\ UNCHANGED <<stateOwner, outq, serverVars>>
    /\ UNCHANGED <<lastTx, cur, sent, draining, mode, got, target>>

\* healthCheckWithTimeout reads up to ReadyForQuery; on an error reply or its
\* deadline the pool closes the connection and looks for another.
HealthCheck(s) ==
    LET b == held[s]
        r == Head(outq[b])
    IN /\ pc[s] = "checking"
       /\ \/ /\ outq[b] # << >> /\ r.type # "error"
             /\ outq' = [outq EXCEPT ![b] = Tail(@)]
             /\ IF r.type = "rfq"
                THEN Goto(s, "adopt") /\ sessBackend' = [sessBackend EXCEPT ![s] = b]
                ELSE UNCHANGED <<pc, sessBackend>>
             /\ UNCHANGED <<idle, life, stateOwner, held>>
          \/ release(s, FALSE, "acquire") /\ UNCHANGED <<outq, sessBackend>>
       /\ UNCHANGED <<wbuf, inq, serverVars>>
       /\ UNCHANGED <<lastTx, cur, sent, draining, mode, got, target>>

\* Acquire fails.  On a closed pool, or when the client is gone before
\* failQuery has answered, the relay returns; otherwise failQuery has read the
\* batch up to its Sync and the session goes on.
NotAcquired(s) ==
    /\ pc[s] = "acquire"
    /\ Goto(s, "end") \/ Goto(s, "read")
    /\ UNCHANGED <<held, lastTx, cur, sent, sessBackend, draining, mode, got, target>>
    /\ SameBackends

\* Bug form: the scrub is skipped for any connection that has an owner.
AdoptTrusting(s) ==
    /\ pc[s] = "adopt"
    /\ Goto(s, "adopted")
    /\ UNCHANGED <<wbuf, inq>>
    /\ UNCHANGED <<idle, life, stateOwner, outq, serverVars>>
    /\ UNCHANGED <<held, lastTx, cur, sent, sessBackend, draining, mode, got, target>>

\* adoptBackend up to the reset query: our own connection is taken as it is,
\* one that nobody has used needs no scrub.
AdoptReset(s) ==
    LET b == held[s]
    IN /\ pc[s] = "adopt"
       /\ \/ /\ SkipSame /\ stateOwner[b] = s
             /\ Goto(s, "forward") /\ UNCHANGED <<wbuf, inq>>
          \/ /\ ~(SkipSame /\ stateOwner[b] = s) /\ stateOwner[b] = None
             /\ Goto(s, "adopted") /\ UNCHANGED <<wbuf, inq>>
          \/ /\ ~(SkipSame /\ stateOwner[b] = s) /\ stateOwner[b] # None
             /\ Goto(s, "resetting") /\ SendNow(b, Msg(s, "reset"))
       /\ UNCHANGED <<idle, life, stateOwner, outq, serverVars>>
       /\ UNCHANGED <<held, lastTx, cur, sent, sessBackend, draining, mode, got, target>>

\* The tracked parameters of the session, and then the connection is ours.
AdoptParams(s) ==
    LET b == held[s]
    IN /\ pc[s] = "adopted"
       /\ \/ /\ s \in Tracked
             /\ Goto(s, "setting") /\ SendNow(b, Msg(s, "set"))
             /\ UNCHANGED stateOwner
          \/ /\ s \notin Tracked
             /\ Goto(s, "forward") /\ UNCHANGED <<wbuf, inq>>
             /\ stateOwner' = [stateOwner EXCEPT ![b] = s]
       /\ UNCHANGED <<idle, life, outq, serverVars>>
       /\ UNCHANGED <<held, lastTx, cur, sent, sessBackend, draining, mode, got, target>>

\* runResetQuery and applyTrackedParams read up to ReadyForQuery and drop
\* everything in between.
AdoptReads(s) ==
    LET b == held[s]
        r == Head(outq[b])
    IN /\ pc[s] \in {"resetting", "setting"}
       /\ outq[b] # << >> /\ r.type # "error"
       /\ outq' = [outq EXCEPT ![b] = Tail(@)]
       /\ \/ r.type # "rfq" /\ UNCHANGED <<pc, stateOwner>>
          \/ r.type = "rfq" /\ pc[s] = "resetting" /\ Goto(s, "adopted") /\ UNCHANGED stateOwner
          \/ /\ r.type = "rfq" /\ pc[s] = "setting" /\ Goto(s, "forward")
             /\ stateOwner' = [stateOwner EXCEPT ![b] = s]
       /\ UNCHANGED <<idle, life, wbuf, inq, serverVars>>
       /\ UNCHANGED <<held, lastTx, cur, sent, sessBackend, draining, mode, got, target>>

\* An error reply, the deadline of runResetQuery, or a broken connection:
\* Discard, and failQuery as above.
AdoptFails(s) ==
    /\ pc[s] \in {"resetting", "setting"}
    /\ release(s, FALSE, "unset") \/ release(s, FALSE, "leave")
    /\ UNCHANGED <<wbuf, inq, outq, serverVars>>
    /\ UNCHANGED <<lastTx, cur, sent, sessBackend, draining, mode, got, target>>

----------------------------------------------------------------------------
(* Forwarding a cycle and its replies.                                     *)

\* Query is sent at once; a Parse, Bind, Describe or Execute is only buffered.
Forward(s) ==
    LET b == held[s]
    IN /\ pc[s] = "forward"
       /\ \/ /\ cur[s] = "query"
             /\ Goto(s, "reply") /\ SendNow(b, Msg(s, "query"))
          \/ /\ cur[s] = "part"
             /\ Goto(s, "batch") /\ UNCHANGED inq
             /\ wbuf' = [wbuf EXCEPT ![b] = Append(@, Msg(s, "part"))]
       /\ UNCHANGED <<idle, life, stateOwner, outq, serverVars>>
       /\ UNCHANGED <<held, lastTx, cur, sent, sessBackend, draining, mode, got, target>>

\* Bug form: the Sync is buffered like the rest and nothing is flushed.
BatchUnflushed(s) ==
    /\ pc[s] = "batch"
    /\ Goto(s, "reply")
    /\ wbuf' = [wbuf EXCEPT ![held[s]] = Append(@, Msg(s, "sync"))]
    /\ UNCHANGED <<idle, life, stateOwner, inq, outq, serverVars>>
    /\ UNCHANGED <<held, lastTx, cur, sent, sessBackend, draining, mode, got, target>>

\* The batch loop: one more part, or the Sync that sends them all.
BatchMessage(s) ==
    LET b == held[s]
    IN /\ pc[s] = "batch"
       /\ \/ /\ sent[s] < MaxMsgs /\ sent' = [sent EXCEPT ![s] = @ + 1]
             /\ wbuf' = [wbuf EXCEPT ![b] = Append(@, Msg(s, "part"))]
             /\ UNCHANGED <<pc, inq>>
          \/ /\ Goto(s, "reply") /\ SendNow(b, Msg(s, "sync"))
             /\ UNCHANGED sent
       /\ UNCHANGED <<idle, life, stateOwner, outq, serverVars>>
       /\ UNCHANGED <<held, lastTx, cur, sessBackend, draining, mode, got, target>>

\* The prepared-statement ceiling: the first message of a batch leaves the
\* connection as it was, a later one does not.
CeilingReached(s) ==
    /\ \/ pc[s] = "forward" /\ cur[s] = "part" /\ release(s, lastTx[s] = "I", "leave")
       \/ pc[s] = "batch" /\ release(s, FALSE, "leave")
    /\ UNCHANGED <<wbuf, inq, outq, serverVars>>
    /\ UNCHANGED <<lastTx, cur, sent, sessBackend, draining, mode, got, target>>

\* The release decision of each pool mode at ReadyForQuery.
AfterRFQ(s, x) ==
    CASE mode = "statement" -> release(s, x # "E", "unset")
      [] mode = "session" -> Goto(s, "read") /\ UNCHANGED <<held, idle, life, stateOwner>>
      [] OTHER -> IF x = "I" THEN release(s, TRUE, "unset")
                  ELSE Goto(s, "read") /\ UNCHANGED <<held, idle, life, stateOwner>>

\* Bug form: an error reply is taken for the end of the cycle.
RelayErrorEnds(s) ==
    LET b == held[s]
        r == Head(outq[b])
    IN /\ pc[s] = "reply" /\ outq[b] # << >>
       /\ outq' = [outq EXCEPT ![b] = Tail(@)]
       /\ got' = [got EXCEPT ![s] = @ \cup {r.to}]
       /\ CASE r.type = "rfq" -> AfterRFQ(s, r.tx)
            [] r.type = "error" -> release(s, TRUE, "unset")
            [] OTHER -> UNCHANGED <<pc, held, idle, life, stateOwner>>
       /\ UNCHANGED <<lastTx, wbuf, inq, serverVars>>
       /\ UNCHANGED <<cur, sent, sessBackend, draining, mode, target>>

\* One reply is passed to the client; a CopyInResponse hands over to
\* relayCopyIn, ReadyForQuery ends the cycle.
RelayReply(s) ==
    LET b == held[s]
        r == Head(outq[b])
    IN /\ pc[s] = "reply" /\ outq[b] # << >>
       /\ outq' = [outq EXCEPT ![b] = Tail(@)]
       /\ got' = [got EXCEPT ![s] = @ \cup {r.to}]
       /\ CASE r.type = "rfq" -> AfterRFQ(s, r.tx) /\ lastTx' = [lastTx EXCEPT ![s] = r.tx]
            [] r.type = "copyin" -> /\ Goto(s, "copyin")
                                    /\ UNCHANGED <<held, lastTx, idle, life, stateOwner>>
            [] OTHER -> UNCHANGED <<pc, held, lastTx, idle, life, stateOwner>>
       /\ UNCHANGED <<wbuf, inq, serverVars>>
       /\ UNCHANGED <<cur, sent, sessBackend, draining, mode, target>>

\* relayCopyIn: the data and its end, CopyDone, CopyFail or the CopyFail made
\* up for Terminate.
RelayCopyIn(s) ==
    /\ pc[s] = "copyin"
    /\ Goto(s, "reply") /\ SendNow(held[s], Msg(s, "copydone"))
    /\ UNCHANGED <<idle, life, stateOwner, outq, serverVars>>
    /\ UNCHANGED <<held, lastTx, cur, sent, sessBackend, draining, mode, got, target>>

\* query_timeout, a broken backend or a client that is gone while the backend
\* works or a COPY runs.
CycleFails(s) == pc[s] \in {"reply", "copyin"} /\ Abandon(s)

----------------------------------------------------------------------------
(* PostgreSQL.                                                             *)

\* The status after a statement that succeeds.
NextTx(x) == IF x = "E" THEN {"I"} ELSE {"I", "T"}

\* The status after a statement that fails.
FailedTx(x) == IF x = "I" THEN "I" ELSE "E"

\* The server has run the head of b's queue: the replies, the status and
\* whose transaction it is now.
Answer(b, m, replies, x) ==
    /\ inq' = [inq EXCEPT ![b] = Tail(@)]
    /\ outq' = [outq EXCEPT ![b] = @ \o replies]
    /\ tx' = [tx EXCEPT ![b] = x]
    /\ txOf' = [txOf EXCEPT ![b] = IF x = "I" THEN None ELSE IF @ = None THEN m.from ELSE @]

Holds(b, S) == carries' = [carries EXCEPT ![b] = S]

\* Simple queries: the client's, and pgman's reset, SET and health check.
\* DISCARD ALL cannot run inside a transaction.
ServerQuery(b, m) ==
    /\ \/ /\ m.type = "reset" /\ tx[b] = "I" /\ Holds(b, {})
          /\ Answer(b, m, <<Reply(m.from, "rfq", "I")>>, "I")
       \/ /\ m.type = "check" /\ tx[b] # "E" /\ UNCHANGED carries
          /\ Answer(b, m, <<Reply(m.from, "rfq", tx[b])>>, tx[b])
       \/ /\ m.type = "set" /\ tx[b] # "E" /\ Holds(b, carries[b] \cup {m.from})
          /\ Answer(b, m, <<Reply(m.from, "rfq", tx[b])>>, tx[b])
       \/ /\ m.type = "query" /\ Holds(b, carries[b] \cup {m.from})
          /\ \E x \in NextTx(tx[b]) : Answer(b, m, <<Reply(m.from, "rfq", x)>>, x)
       \/ /\ UNCHANGED carries
          /\ Answer(b, m, <<Reply(m.from, "error", ""), Reply(m.from, "rfq", FailedTx(tx[b]))>>,
                    FailedTx(tx[b]))
    /\ UNCHANGED <<skipping, copying>>

\* A message of an extended batch is answered without ReadyForQuery; after an
\* error the rest of the batch is skipped.
ServerPart(b, m) ==
    /\ \/ /\ Holds(b, carries[b] \cup {m.from}) /\ UNCHANGED skipping
          /\ \E x \in NextTx(tx[b]) : Answer(b, m, <<Reply(m.from, "ack", "")>>, x)
       \/ /\ UNCHANGED carries /\ skipping' = [skipping EXCEPT ![b] = TRUE]
          /\ Answer(b, m, <<Reply(m.from, "error", "")>>, FailedTx(tx[b]))
    /\ UNCHANGED copying

\* COPY FROM STDIN starts.
ServerCopy(b, m) ==
    /\ m.type = "query" \/ (m.type = "part" /\ ExtendedCopy)
    /\ tx[b] # "E" /\ Holds(b, carries[b] \cup {m.from})
    /\ copying' = [copying EXCEPT ![b] = <<m.from, m.type>>]
    /\ Answer(b, m, <<Reply(m.from, "copyin", "")>>, tx[b])
    /\ UNCHANGED skipping

\* It ends.  ReadyForQuery follows at once only in the simple protocol; in the
\* extended one the server waits for a Sync after the CopyDone.
ServerCopyEnd(b, m) ==
    /\ m.type = "copydone"
    /\ copying' = [copying EXCEPT ![b] = << >>]
    /\ Answer(b, m, IF copying[b][2] = "query" THEN <<Reply(m.from, "rfq", tx[b])>>
                    ELSE <<Reply(m.from, "ack", "")>>, tx[b])
    /\ UNCHANGED <<skipping, carries>>

\* A COPY fails while the client still sends: its CopyDone will arrive outside
\* a COPY and be ignored.
ServerCopyFails(b) ==
    LET s == copying[b][1]
        simple == copying[b][2] = "query"
        error == <<Reply(s, "error", "")>>
    IN /\ life[b] = "up" /\ copying[b] # << >>
       /\ copying' = [copying EXCEPT ![b] = << >>]
       /\ tx' = [tx EXCEPT ![b] = FailedTx(@)]
       /\ skipping' = [skipping EXCEPT ![b] = ~simple]
       /\ outq' = [outq EXCEPT ![b] = @ \o error \o IF simple THEN <<Reply(s, "rfq", FailedTx(tx[b]))>>
                                                 ELSE << >>]
       /\ UNCHANGED <<inq, txOf, carries, relayVars, connVars>>

ServerSync(b, m) ==
    /\ skipping' = [skipping EXCEPT ![b] = FALSE]
    /\ Answer(b, m, <<Reply(m.from, "rfq", tx[b])>>, tx[b])
    /\ UNCHANGED <<copying, carries>>

ServerIgnores(b, m) == Answer(b, m, << >>, tx[b]) /\ UNCHANGED <<skipping, copying, carries>>

Server(b) ==
    /\ life[b] = "up" /\ inq[b] # << >>
    /\ LET m == Head(inq[b])
       IN IF copying[b] # << >>
          THEN ServerCopyEnd(b, m) \/ (m.type # "copydone" /\ ServerIgnores(b, m))
          ELSE CASE m.type = "sync" -> ServerSync(b, m)
                 [] skipping[b] \/ m.type = "copydone" -> ServerIgnores(b, m)
                 [] m.type = "part" -> ServerPart(b, m) \/ ServerCopy(b, m)
                 [] OTHER -> ServerQuery(b, m) \/ ServerCopy(b, m)
    /\ UNCHANGED <<relayVars, connVars>>

----------------------------------------------------------------------------
(* A cancel request, and a shutdown.                                       *)

\* cancelSession reads sess.backend under the session's mutex ...
CancelLookup(k, s) ==
    /\ target[k] = <<None, None>> /\ sessBackend[s] # None
    /\ target' = [target EXCEPT ![k] = <<s, sessBackend[s]>>]
    /\ UNCHANGED <<pc, held, lastTx, cur, sent, sessBackend, draining, mode, got>> /\ SameBackends

\* ... and sendRealCancelRequest reaches the server later: what runs there
\* fails, which ServerQuery and ServerPart may always do.
CancelArrives(k) ==
    /\ target[k] # <<None, None>>
    /\ target' = [target EXCEPT ![k] = <<None, None>>]
    /\ UNCHANGED <<pc, held, lastTx, cur, sent, sessBackend, draining, mode, got>> /\ SameBackends

StartDraining ==
    /\ ~draining /\ draining' = TRUE
    /\ UNCHANGED <<pc, held, lastTx, cur, sent, sessBackend, mode, got, target>> /\ SameBackends

\* Steps of a relay that wait for nothing but the pool and the server.
Works(s) ==
    \/ \E b \in Backends : Acquired(s, b)
    \/ NotAcquired(s) \/ HealthCheck(s)
    \/ AdoptReset(s) \/ AdoptParams(s) \/ AdoptReads(s)
    \/ Forward(s) \/ RelayReply(s) \/ UnsetBackend(s)

\* Steps of a relay that its client, a timeout or a fault decides.
Driven(s) ==
    \/ ReadMessage(s) \/ ClientLeaves(s) \/ BatchMessage(s) \/ RelayCopyIn(s)
    \/ AdoptFails(s) \/ CeilingReached(s) \/ CycleFails(s)

Next ==
    \/ \E s \in Sessions : Works(s) \/ Driven(s)
    \/ \E b \in Backends : Server(b) \/ ServerCopyFails(b)
    \/ \E k \in Cancellers : CancelArrives(k) \/ \E s \in Sessions : CancelLookup(k, s)
    \/ StartDraining

Spec == Init /\ [][Next]_vars

\* An adoption that is bound to fail: an error reply has been read, or the
\* deadline of the reset query runs.
AdoptMustFail(s) ==
    /\ \/ pc[s] = "resetting"
       \/ /\ pc[s] = "setting" /\ outq[held[s]] # << >>
          /\ Head(outq[held[s]]).type = "error"
    /\ AdoptFails(s)

\* The scheduler runs every relay, and PostgreSQL answers.
FairSpec ==
    /\ Spec
    /\ \A s \in Sessions : WF_vars(Works(s)) /\ WF_vars(AdoptMustFail(s))
    /\ \A b \in Backends : WF_vars(Server(b))

----------------------------------------------------------------------------
(* Properties.                                                             *)

TypeOK ==
    /\ pc \in [Sessions -> {"read", "acquire", "checking", "adopt", "resetting", "adopted",
                           "setting", "forward", "batch", "reply", "copyin", "unset",
                           "leave", "end"}]
    /\ held \in [Sessions -> Backends \cup {None}]
    /\ lastTx \in [Sessions -> {"?", "I", "T", "E"}]
    /\ cur \in [Sessions -> {"query", "part"}]
    /\ sent \in [Sessions -> 0..MaxMsgs]
    /\ sessBackend \in [Sessions -> Backends \cup {None}]
    /\ draining \in BOOLEAN /\ mode \in Modes
    /\ idle \subseteq Backends
    /\ life \in [Backends -> {"new", "up", "gone"}]
    /\ stateOwner \in [Backends -> Sessions \cup {None}]
    /\ wbuf \in [Backends -> Seq(Messages)]
    /\ inq \in [Backends -> Seq(Messages)]
    /\ outq \in [Backends -> Seq(Replies)]
    /\ tx \in [Backends -> {"I", "T", "E"}]
    /\ txOf \in [Backends -> Sessions \cup {None}]
    /\ skipping \in [Backends -> BOOLEAN]
    /\ copying \in [Backends -> {<< >>} \cup (Sessions \X {"query", "part"})]
    /\ carries \in [Backends -> SUBSET Sessions]
    /\ got \in [Sessions -> SUBSET Sessions]
    /\ target \in [Cancellers -> (Sessions \cup {None}) \X (Backends \cup {None})]

\* Every connection that is up is in the pool or held by exactly one relay,
\* and a relay that has returned left nothing behind: no exit path of
\* relayImpl leaks its backend or returns it twice.  (With the types.)
BackendsAccounted ==
    /\ TypeOK
    /\ \A b \in Backends :
          LET holders == {s \in Sessions : held[s] = b}
          IN /\ b \in idle => holders = {} /\ life[b] = "up"
             /\ life[b] = "up" => b \in idle \/ holders # {}
             /\ holders # {} => life[b] = "up"
             /\ \A s, s2 \in holders : s = s2
    /\ \A s \in Sessions : pc[s] = "end" => held[s] = None /\ sessBackend[s] = None

\* A client receives only replies to its own messages: whatever another
\* session left in a connection is consumed by adoptBackend or the connection
\* is discarded.
OwnReplies == \A s \in Sessions : got[s] \subseteq {s}

\* adoptBackend's promise: no statement of a session runs on a connection that
\* carries the session state, or the open transaction, of another one; and
\* stateOwner, on which it relies, tells the truth: a connection in the pool
\* carries at most the state of the session it is tagged with.
NoForeignState ==
    /\ \A b \in Backends :
          LET m == Head(inq[b])
          IN life[b] = "up" /\ inq[b] # << >> /\ m.type \in {"part", "query", "set"} =>
                 /\ carries[b] \subseteq {m.from}
                 /\ txOf[b] \in {None, m.from}
    /\ \A b \in idle : carries[b] \subseteq {stateOwner[b]}

\* A connection goes back to the pool when its cycle is over: the server owes
\* it no reply and has nothing left to do but to ignore the end of a COPY.
IdleQuiet ==
    \A b \in idle :
        /\ outq[b] = << >> /\ copying[b] = << >>
        /\ \A i \in DOMAIN inq[b] : inq[b][i].type = "copydone"

\* What the comment of release says: a connection in the pool has no open
\* transaction, "never let another client inherit open locks".  Statement mode
\* releases whatever has not failed, so there it does not hold.
IdleNotInTx == mode # "statement" => \A b \in idle : tx[b] = "I"

\* Once a message needs the backend, the relay comes back to its client: no
\* wait inside Acquire, adoptBackend or the reply loop lasts for ever while
\* the server answers.
CycleEnds ==
    \A s \in Sessions :
        pc[s] \notin {"read", "batch", "copyin", "end"} ~>
            pc[s] \in {"read", "batch", "copyin", "end"}
=============================================================================
