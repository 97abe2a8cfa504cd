----------------------------- MODULE DNSWatcher -----------------------------
(***************************************************************************)
(* The DNS watcher of one pool (dns_watcher.go): a goroutine that resolves *)
(* the backend's host name on every tick and makes the pool reconnect when *)
(* the addresses changed, and stop(), which Remove calls before it closes  *)
(* the pool.  The pool is seen through its reconnect generation alone; the *)
(* module Dial lets connections be dialled while the watcher runs.         *)
(***************************************************************************)
EXTENDS Integers

CONSTANTS
    Addrs,      \* the address sets the name may resolve to
    NoIPs       \* lastIPs before any lookup succeeded

ASSUME WatcherAssumption == NoIPs \notin Addrs /\ Addrs # {}

VARIABLES
    answer,     \* what a lookup returns now
    flips,      \* bound: how often it may still change
    lastIPs,    \* w.lastIPs
    ips,        \* the goroutine's local: the answer of its last lookup
    wpc,        \* "off", "seed", "wait", "resolve", "compare", "reconnect", "done"
    stop,       \* "no", "closing" (stopCh closed), "stopped" (stop returned)
    gen,        \* the pool's reconnectGen
    since,      \* history: the answers current since the lookup behind the last Reconnect
    heard       \* history: the answers current since the last lookup that succeeded

dnsVars == <<answer, flips, lastIPs, ips, wpc, stop, gen, since, heard>>

(* startDNSWatcher: an interval of 0 or an IP literal starts nothing.      *)
WatcherInit(watched, changes) ==
    /\ answer = CHOOSE a \in Addrs : TRUE
    /\ flips = changes
    /\ lastIPs = NoIPs
    /\ ips = NoIPs
    /\ wpc = IF watched THEN "seed" ELSE "off"
    /\ stop = "no"
    /\ gen = 0
    /\ since = {answer}
    /\ heard = {answer}

(* The seed lookup: a failure leaves lastIPs empty and is not fatal.       *)
Seed ==
    /\ wpc = "seed"
    /\ \/ lastIPs' = answer /\ heard' = {answer}
       \/ UNCHANGED <<lastIPs, heard>>
    /\ wpc' = "wait"
    /\ UNCHANGED <<answer, flips, ips, stop, gen, since>>

(* The loop's select: with stopCh closed and a tick due, either may win.   *)
Tick ==
    /\ wpc = "wait"
    /\ wpc' = "resolve"
    /\ UNCHANGED <<answer, flips, lastIPs, ips, stop, gen, since, heard>>

StopSeen ==
    /\ wpc = "wait" /\ stop = "closing"
    /\ wpc' = "done"
    /\ UNCHANGED <<answer, flips, lastIPs, ips, stop, gen, since, heard>>

Resolve ==
    /\ wpc = "resolve"
    /\ ips' = answer
    /\ heard' = {answer}
    /\ wpc' = "compare"
    /\ UNCHANGED <<answer, flips, lastIPs, stop, gen, since>>

\* Bug form: a failed lookup ends the loop.
ResolveFailsEndsLoop ==
    /\ wpc = "resolve"
    /\ wpc' = "done"
    /\ UNCHANGED <<answer, flips, lastIPs, ips, stop, gen, since, heard>>

(* A failed or timed-out lookup: wait for the next tick.                   *)
ResolveFails ==
    /\ wpc = "resolve"
    /\ wpc' = "wait"
    /\ UNCHANGED <<answer, flips, lastIPs, ips, stop, gen, since, heard>>

(* Compare and store under w.mu; the Reconnect comes after the unlock.     *)
Compare ==
    /\ wpc = "compare"
    /\ lastIPs' = ips
    /\ wpc' = IF ips # lastIPs THEN "reconnect" ELSE "wait"
    /\ UNCHANGED <<answer, flips, ips, stop, gen, since, heard>>

\* Bug form: the idle connections are closed, the generation stays.
ReconnectIdleOnly ==
    /\ wpc = "reconnect"
    /\ since' = heard
    /\ wpc' = "wait"
    /\ UNCHANGED <<answer, flips, lastIPs, ips, stop, gen, heard>>

(* pool.Reconnect, as far as the generation goes.                          *)
Reconnect ==
    /\ wpc = "reconnect"
    /\ gen' = gen + 1
    /\ since' = heard
    /\ wpc' = "wait"
    /\ UNCHANGED <<answer, flips, lastIPs, ips, stop, heard>>

(* stop(): close stopCh, then wait for the loop to end.  With no watcher   *)
(* it is a no-op.                                                          *)
CloseStop ==
    /\ stop = "no" /\ wpc # "seed"
    /\ stop' = IF wpc = "off" THEN "stopped" ELSE "closing"
    /\ UNCHANGED <<answer, flips, lastIPs, ips, wpc, gen, since, heard>>

\* Bug form: Stop does not wait for the loop to end.
StopReturnsEarly ==
    /\ stop = "closing"
    /\ stop' = "stopped"
    /\ UNCHANGED <<answer, flips, lastIPs, ips, wpc, gen, since, heard>>

StopReturns ==
    /\ stop = "closing" /\ wpc = "done"
    /\ stop' = "stopped"
    /\ UNCHANGED <<answer, flips, lastIPs, ips, wpc, gen, since, heard>>

(* A failover: the name starts to resolve to something else.               *)
Flip ==
    /\ flips > 0
    /\ \E a \in Addrs \ {answer} :
          /\ answer' = a
          /\ since' = since \cup {a}
          /\ heard' = heard \cup {a}
    /\ flips' = flips - 1
    /\ UNCHANGED <<lastIPs, ips, wpc, stop, gen>>

WatcherTypeOK ==
    /\ answer \in Addrs
    /\ flips \in Nat
    /\ lastIPs \in Addrs \cup {NoIPs}
    /\ ips \in Addrs \cup {NoIPs}
    /\ wpc \in {"off", "seed", "wait", "resolve", "compare", "reconnect", "done"}
    /\ stop \in {"no", "closing", "stopped"}
    /\ gen \in Nat
    /\ since \subseteq Addrs /\ heard \subseteq Addrs
=============================================================================
