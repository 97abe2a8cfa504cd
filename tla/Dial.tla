-------------------------------- MODULE Dial --------------------------------
(***************************************************************************)
(* How a pool obtains a backend connection, and how long it stays fit for  *)
(* use: the dialer of a SCRAM pass-through pool (backend_connect.go,       *)
(* scram_passthrough.go), the dialer of every other pool (newDialBackend,  *)
(* main.go), the health check of an idle connection, and the DNS watcher   *)
(* running beside them.  The server is any peer: at each read it may send  *)
(* any message, nothing at all, or close.                                  *)
(***************************************************************************)
EXTENDS DNSWatcher, Sequences

CONSTANTS
    Setups,     \* a pool's configuration: [kind, sslmode, hosts, requireTLS, watched]
                \* and flips, the bound on how often the name's answer changes
    Named,      \* the host of a DSN that is a DNS name; the others are addresses
    None

ASSUME DialAssumption == None \notin Addrs

VARIABLES
    setup,      \* the pool's configuration
    pc,         \* the dialing goroutine
    k,          \* the target being tried
    keyHeld,    \* clientKeyStore holds this user's ClientKey
    ctx,        \* "live" or "done"
    att,        \* the attempt: [ip, tls, deadline, sasl, proved, authed, issuer]
    sockets,    \* targets whose socket this dial opened and has not closed
    gen0,       \* history: the generation when the dial began
    ready,      \* the backendConn being returned, or None
    pooled,     \* the connection the pool stored last, or None
    hc          \* a health check of pooled is waiting for ReadyForQuery

dialVars == <<setup, pc, k, keyHeld, ctx, att, sockets, gen0, ready, pooled, hc>>
vars == <<dialVars, dnsVars>>

(* pgconn.ParseConfig: one target for each host and each transport the     *)
(* sslmode allows, in the order they are tried.                            *)
Transports(sslmode) ==
    CASE sslmode = "disable" -> <<FALSE>>
      [] sslmode = "allow"   -> <<FALSE, TRUE>>
      [] sslmode = "prefer"  -> <<TRUE, FALSE>>
      [] OTHER               -> <<TRUE>>

Targets ==
    LET T == Transports(setup.sslmode)
    IN  [n \in 1..(Len(setup.hosts) * Len(T)) |->
            [host |-> setup.hosts[((n - 1) \div Len(T)) + 1],
             tls  |-> T[((n - 1) % Len(T)) + 1]]]

dsnRequiresTLS ==
    \/ Targets[1].tls /\ Len(Targets) = 1
    \/ setup.sslmode \in {"require", "verify-full"}

ParseFails == setup.requireTLS /\ ~dsnRequiresTLS

(* The address a TCP connect to the host reaches now.                      *)
IP(host) == IF host = Named THEN answer ELSE host

NoAttempt == [ip |-> None, tls |-> FALSE, deadline |-> FALSE, sasl |-> FALSE,
              proved |-> FALSE, authed |-> FALSE, issuer |-> None]

Init ==
    /\ setup \in Setups
    /\ WatcherInit(setup.watched, setup.flips)
    /\ pc = "idle" /\ k = 0 /\ keyHeld = FALSE /\ ctx = "live"
    /\ att = NoAttempt /\ sockets = {} /\ gen0 = 0
    /\ ready = None /\ pooled = None /\ hc = FALSE

(* captureClientKey after a client's SCRAM login: remember overwrites.     *)
(* When recoverClientKey fails the login stands and nothing is stored.     *)
captureClientKey ==
    /\ keyHeld' = TRUE
    /\ UNCHANGED <<setup, pc, k, ctx, att, sockets, gen0, ready, pooled, hc, dnsVars>>

(* The pool calls its dialer, from Acquire or from warm-up.                *)
StartDial ==
    /\ pc = "idle"
    /\ pc' = "lookup" /\ ctx' = "live" /\ gen0' = gen
    /\ UNCHANGED <<setup, k, keyHeld, att, sockets, ready, pooled, hc, dnsVars>>

(* The caller's context is cancelled or its deadline passes.               *)
CtxDone ==
    /\ pc # "idle" /\ ctx = "live"
    /\ ctx' = "done"
    /\ UNCHANGED <<setup, pc, k, keyHeld, att, sockets, gen0, ready, pooled, hc, dnsVars>>

ReturnError == pc' = "idle" /\ k' = 0 /\ att' = NoAttempt /\ ready' = None

(* The head of both dialers: a bad DSN or an unknown user fails at once.   *)
Lookup ==
    /\ pc = "lookup"
    /\ IF ParseFails \/ (setup.kind = "passthrough" /\ ~keyHeld)
       THEN ReturnError
       ELSE /\ k' = 1 /\ UNCHANGED <<att, ready>>
            /\ pc' = IF setup.kind = "passthrough" THEN "connect" ELSE "pgconn"
    /\ UNCHANGED <<setup, keyHeld, ctx, sockets, gen0, pooled, hc, dnsVars>>

-----------------------------------------------------------------------------
(* The pass-through dialer: dialAndHandshake for target k.  Every failure  *)
(* after DialContext goes through the deferred close (AttemptFails).       *)
\* Bug form: DialContext gets no deadline, and is not interrupted.
ConnectNoDeadline ==
    /\ pc = "connect"
    /\ \/ pc' = "failed" /\ UNCHANGED <<att, sockets>>
       \/ /\ ctx = "live"
          /\ sockets' = sockets \cup {k}
          /\ att' = [NoAttempt EXCEPT !.ip = IP(Targets[k].host)]
          /\ pc' \in {IF Targets[k].tls THEN "tls" ELSE "auth", "failed"}
    /\ UNCHANGED <<setup, k, keyHeld, ctx, gen0, ready, pooled, hc, dnsVars>>

(* DialContext, SetDeadline, and in the clear the startup message too.     *)
Connect ==
    /\ pc = "connect"
    /\ \/ pc' = "failed" /\ UNCHANGED <<att, sockets>>
       \/ /\ ctx = "live"
          /\ sockets' = sockets \cup {k}
          /\ att' = [NoAttempt EXCEPT !.ip = IP(Targets[k].host), !.deadline = TRUE]
          /\ pc' \in {IF Targets[k].tls THEN "tls" ELSE "auth", "failed"}
    /\ UNCHANGED <<setup, k, keyHeld, ctx, gen0, ready, pooled, hc, dnsVars>>

(* startBackendTLS: anything but 'S' and a completed handshake is an       *)
(* error; the attempt never goes on in the clear.                          *)
startBackendTLS ==
    /\ pc = "tls"
    /\ \/ pc' = "auth" /\ att' = [att EXCEPT !.tls = TRUE]
       \/ pc' = "failed" /\ UNCHANGED att
    /\ UNCHANGED <<setup, k, keyHeld, ctx, sockets, gen0, ready, pooled, hc, dnsVars>>

(* A read that outlives the handshake deadline.                            *)
TimesOut ==
    /\ pc \in {"tls", "auth", "cont", "final"} /\ att.deadline
    /\ pc' = "failed"
    /\ UNCHANGED <<setup, k, keyHeld, ctx, att, sockets, gen0, ready, pooled, hc, dnsVars>>

Messages == {"sasl", "ok", "key", "status", "ready", "other"}

(* completeBackendHandshake, one message.  "other" is an ErrorResponse, a  *)
(* request for another method, an unknown message or a closed connection;  *)
(* "sasl" without the mechanism SCRAM-SHA-256 fails in scramClientAuth.    *)
completeBackendHandshake ==
    /\ pc = "auth"
    /\ \E m \in Messages :
          \/ /\ m = "sasl"
             /\ pc' \in {"cont", "failed"}
             /\ att' = [att EXCEPT !.sasl = TRUE, !.proved = FALSE]
          \/ m = "ok" /\ pc' = "auth" /\ att' = [att EXCEPT !.authed = TRUE]
          \/ m = "key" /\ pc' = "auth" /\ att' = [att EXCEPT !.issuer = att.ip]
          \/ m = "status" /\ UNCHANGED <<pc, att>>
          \/ /\ m = "ready"
             /\ pc' = IF att.authed THEN "clear" ELSE "failed"
             /\ UNCHANGED att
          \/ m = "other" /\ pc' = "failed" /\ UNCHANGED att
    /\ UNCHANGED <<setup, k, keyHeld, ctx, sockets, gen0, ready, pooled, hc, dnsVars>>

(* scramClientAuth after the initial response: the continue message must   *)
(* extend our nonce and carry the verifier's salt and iteration count.     *)
ScramContinue ==
    /\ pc = "cont"
    /\ pc' \in {"final", "failed"}
    /\ UNCHANGED <<setup, k, keyHeld, ctx, att, sockets, gen0, ready, pooled, hc, dnsVars>>

(* The final message: only a valid server signature lets it go on.         *)
ScramFinal ==
    /\ pc = "final"
    /\ \/ pc' = "auth" /\ att' = [att EXCEPT !.proved = TRUE]
       \/ pc' = "failed" /\ UNCHANGED att
    /\ UNCHANGED <<setup, k, keyHeld, ctx, sockets, gen0, ready, pooled, hc, dnsVars>>

(* cancelTLSConfigFor: the connection says whether, the DSN says how.      *)
cancelTLSConfigFor == att.tls

CancelTLSFails == att.tls /\ ~Targets[1].tls

(* The backendConn a dialer hands over: the address, the cancel key's      *)
(* issuer and the transport a later CancelRequest must use.                *)
Conn(addr, a) ==
    [ip |-> a.ip, addr |-> addr, issuer |-> a.issuer, tls |-> a.tls,
     cancelTLS |-> cancelTLSConfigFor, deadline |-> a.deadline,
     proved |-> a.proved \/ ~a.sasl, authed |-> a.authed]

FinishDial ==
    /\ pc = "clear"
    /\ IF CancelTLSFails
       THEN pc' = "failed" /\ UNCHANGED ready /\ att' = [att EXCEPT !.deadline = FALSE]
       ELSE \/ /\ pc' = "done"
               /\ att' = [att EXCEPT !.deadline = FALSE]
               /\ ready' = Conn(Targets[k].host, att')
            \/ pc' = "failed" /\ UNCHANGED <<ready, att>>    \* SetDeadline fails
    /\ UNCHANGED <<setup, k, keyHeld, ctx, sockets, gen0, pooled, hc, dnsVars>>

\* Bug form: a failed attempt moves on without the deferred close.
NextTargetLeaks ==
    /\ pc = "failed"
    /\ IF ctx = "live" /\ k < Len(Targets)
       THEN k' = k + 1 /\ pc' = "connect" /\ att' = NoAttempt /\ UNCHANGED <<ready, sockets>>
       ELSE ReturnError /\ sockets' = sockets \ {k}
    /\ UNCHANGED <<setup, keyHeld, ctx, gen0, pooled, hc, dnsVars>>

(* The deferred raw.Close, then connectPassthrough's loop: a cancelled     *)
(* caller or the last target ends it with an error.                        *)
NextTarget ==
    /\ pc = "failed"
    /\ sockets' = sockets \ {k}
    /\ IF ctx = "live" /\ k < Len(Targets)
       THEN k' = k + 1 /\ pc' = "connect" /\ att' = NoAttempt /\ UNCHANGED ready
       ELSE ReturnError
    /\ UNCHANGED <<setup, keyHeld, ctx, gen0, pooled, hc, dnsVars>>

-----------------------------------------------------------------------------
(* newDialBackend: pgconn.Connect tries the targets itself and returns a   *)
(* connection that is authenticated and ready, or an error.                *)
pgconnConnect ==
    /\ pc = "pgconn"
    /\ \/ ReturnError /\ UNCHANGED sockets
       \/ \E n \in 1..Len(Targets) :
             /\ ctx = "live"
             /\ k' = n
             /\ sockets' = sockets \cup {n}
             /\ att' = [NoAttempt EXCEPT !.ip = IP(Targets[n].host), !.tls = Targets[n].tls,
                                         !.authed = TRUE, !.issuer = IP(Targets[n].host)]
             /\ pc' = "sync" /\ UNCHANGED ready
    /\ UNCHANGED <<setup, keyHeld, ctx, gen0, pooled, hc, dnsVars>>

(* connectedAddr: the peer's address, which need not be the configured one. *)
connectedAddr == att.ip

(* SyncConn, then Hijack, then the cancel transport.  pgconn hijacks any   *)
(* connection it has just synced; the other two errors close it.           *)
SyncAndHijack ==
    /\ pc = "sync"
    /\ \/ ReturnError /\ sockets' = sockets \ {k}
       \/ /\ ctx = "live" /\ ~CancelTLSFails
          /\ ready' = Conn(connectedAddr, att)
          /\ pc' = "done" /\ UNCHANGED <<sockets, k, att>>
    /\ UNCHANGED <<setup, keyHeld, ctx, gen0, pooled, hc, dnsVars>>

-----------------------------------------------------------------------------
(* dialLocked's tail: the pool tags the connection with the generation as  *)
(* of now, the dial being over, and owns its socket.                       *)
StoreConn ==
    /\ pc = "done" /\ ~hc
    /\ pooled' = [ip |-> ready.ip, deadline |-> ready.deadline, unread |-> FALSE,
                  tag |-> gen, overlapped |-> gen # gen0]
    /\ sockets' = sockets \ {k}
    /\ ReturnError
    /\ UNCHANGED <<setup, keyHeld, ctx, gen0, hc, dnsVars>>

(* The pool lets the connection go: lifetime, idle timeout, shrink.        *)
Discard ==
    /\ pooled # None /\ ~hc
    /\ pooled' = None
    /\ UNCHANGED <<setup, pc, k, keyHeld, ctx, att, sockets, gen0, ready, hc, dnsVars>>

(* healthCheckWithTimeout: a deadline, SELECT 1, and reads up to           *)
(* ReadyForQuery; the deferred call clears the deadline on every path, and *)
(* on an error the pool discards the connection.                           *)
HealthCheck ==
    /\ pooled # None /\ ~hc
    /\ hc' = TRUE
    /\ pooled' = [pooled EXCEPT !.deadline = TRUE, !.unread = TRUE]
    /\ UNCHANGED <<setup, pc, k, keyHeld, ctx, att, sockets, gen0, ready, dnsVars>>

\* Bug form: a probe that failed midway is kept in the pool.
HealthCheckEndsAtError ==
    /\ hc
    /\ hc' = FALSE
    /\ pooled' \in {[pooled EXCEPT !.deadline = FALSE, !.unread = FALSE],
                    [pooled EXCEPT !.deadline = FALSE]}
    /\ UNCHANGED <<setup, pc, k, keyHeld, ctx, att, sockets, gen0, ready, dnsVars>>

HealthCheckEnds ==
    /\ hc
    /\ hc' = FALSE
    /\ pooled' \in {[pooled EXCEPT !.deadline = FALSE, !.unread = FALSE], None}
    /\ UNCHANGED <<setup, pc, k, keyHeld, ctx, att, sockets, gen0, ready, dnsVars>>

(* pool.Reconnect: the idle connection is closed at once, one being        *)
(* checked is discarded when it comes back, whatever dials is not seen.    *)
ReconnectPool ==
    /\ Reconnect
    /\ pooled' = IF hc THEN pooled ELSE None
    /\ UNCHANGED <<setup, pc, k, keyHeld, ctx, att, sockets, gen0, ready, hc>>

Dialer ==
    \/ Lookup \/ Connect \/ startBackendTLS \/ TimesOut \/ completeBackendHandshake
    \/ ScramContinue \/ ScramFinal \/ FinishDial \/ NextTarget
    \/ pgconnConnect \/ SyncAndHijack

Watcher == Seed \/ Tick \/ StopSeen \/ Resolve \/ ResolveFails \/ Compare

Next ==
    \/ captureClientKey \/ StartDial \/ CtxDone \/ Dialer
    \/ StoreConn \/ Discard \/ HealthCheck \/ HealthCheckEnds
    \/ ReconnectPool
    \/ (Watcher \/ CloseStop \/ StopReturns \/ Flip) /\ UNCHANGED dialVars

Spec == Init /\ [][Next]_vars

(* Fairness.  A running goroutine goes on, a deadline that is set fires, a *)
(* TCP connect ends, the ticker ticks; a lookup that is retried for ever   *)
(* succeeds in the end.  Nothing is assumed of what the server sends.      *)
FairSpec ==
    /\ Spec
    /\ WF_vars(Lookup) /\ WF_vars(Connect) /\ WF_vars(TimesOut)
    /\ WF_vars(FinishDial) /\ WF_vars(NextTarget)
    /\ WF_vars((Seed \/ Tick \/ Compare \/ StopSeen) /\ UNCHANGED dialVars)
    /\ SF_vars(Resolve /\ UNCHANGED dialVars) /\ WF_vars(ReconnectPool)

-----------------------------------------------------------------------------
PCs == {"idle", "lookup", "connect", "tls", "auth", "cont", "final", "clear", "failed",
        "pgconn", "sync", "done"}

(* The variables keep their types: the dialer is in a named place, works   *)
(* on a target of the DSN, and the watcher's variables are in range.       *)
TypeOK ==
    /\ WatcherTypeOK
    /\ setup \in Setups
    /\ pc \in PCs
    /\ k \in 0..Len(Targets)
    /\ (k = 0) <=> (pc \in {"idle", "lookup"})
    /\ keyHeld \in BOOLEAN /\ hc \in BOOLEAN /\ ctx \in {"live", "done"}
    /\ sockets \subseteq 1..Len(Targets)
    /\ (ready # None) <=> (pc = "done")
    /\ hc => pooled # None

(* No socket is lost: whichever target fails, wherever, the dialer closes  *)
(* its socket before it tries the next one or returns, and what it returns *)
(* is the only socket it leaves open (the deferred raw.Close of            *)
(* dialAndHandshake, the Close calls of newDialBackend).  With the types.  *)
SocketsOwned ==
    /\ TypeOK
    /\ sockets = IF pc \in {"idle", "lookup", "connect", "pgconn"} THEN {}
                 ELSE IF pc = "failed" THEN sockets \cap {k}
                 ELSE {k}

(* What a dialer hands to the pool has finished its handshake: the server  *)
(* said AuthenticationOk, proved itself if SCRAM was run, the handshake    *)
(* deadline is off; and an idle pooled connection, after any number of     *)
(* health checks, has no deadline and no reply left to read.               *)
HandedOverReady ==
    /\ ready # None => ready.authed /\ ready.proved /\ ~ready.deadline
    /\ pooled # None /\ ~hc => ~pooled.deadline /\ ~pooled.unread

(* require_backend_tls: no pool that asks for it ever gets a plaintext     *)
(* connection, through any fallback target or refusal of TLS.              *)
RequiredTLSHolds == ready # None /\ setup.requireTLS => ready.tls

(* A CancelRequest can reach the server that issued the key: it repeats    *)
(* the connection's transport (backendConn.cancelTLS, session.go) and goes *)
(* to the host that was reached, not to another host of the DSN.           *)
CancelReachesIssuer ==
    ready # None =>
        /\ ready.cancelTLS = ready.tls
        /\ ready.issuer \in {None, ready.ip}
        /\ ready.addr = ready.ip \/ (ready.addr = Named /\ ready.ip \in Addrs)

(* What the pool gets is fit for use, whatever the server did on the way:  *)
(* past its handshake, encrypted where that is required, cancellable.      *)
HandedOverFit == HandedOverReady /\ RequiredTLSHolds /\ CancelReachesIssuer

(* What the reconnect generation buys: a connection the pool still keeps,  *)
(* unless a Reconnect fell into its dial, goes to an address the name had  *)
(* at or after the lookup that caused the last Reconnect.                  *)
KeptIsFresh ==
    pooled # None /\ pooled.tag = gen /\ ~pooled.overlapped /\ pooled.ip \in Addrs
        => pooled.ip \in since

(* Once stop() has returned, the watcher never touches the pool again, so  *)
(* Remove may close it (stop waits for doneCh).                            *)
NoReconnectAfterStop == [][stop = "stopped" => gen' = gen]_vars

(* Whatever a server does or leaves undone, a pass-through dial returns:   *)
(* the handshake deadline keeps a silent server from holding the pool slot *)
(* (backendHandshakeTimeout).                                              *)
DialReturns ==
    (pc # "idle" /\ setup.kind = "passthrough") ~> (pc \in {"idle", "done"})

(* Once the name's answer settles the watcher catches up with it, through  *)
(* failed lookups, and has reconnected the pool; unless it was stopped.    *)
FollowsDNS ==
    <>[](stop # "no" \/ wpc = "off" \/ (lastIPs = answer /\ wpc # "reconnect"))
=============================================================================
