---------------------------- MODULE PoolContract ----------------------------
(***************************************************************************)
(* What pool.Pool promises the goroutines that use it, without saying how: *)
(* a connection is lent to one client at a time, at most Limit are lent,   *)
(* the pool closes only what it has not lent, and once Close has returned  *)
(* nil nothing is lent any more.  Module Pool is shown to implement it.    *)
(***************************************************************************)
EXTENDS Integers, FiniteSets

CONSTANTS Clients, Conns, NoConn, Limit

VARIABLES
    lent,       \* the connection each client holds, or NoConn
    live,       \* the connections whose socket is open
    phase       \* "open", "closed" (Close was called), "drained" (it returned nil)

contractVars == <<lent, live, phase>>

Lent == {p \in Clients : lent[p] # NoConn}

Init ==
    /\ lent = [p \in Clients |-> NoConn]
    /\ live = {}
    /\ phase = "open"

\* Acquire returns a live connection that nobody else has.
Lend(p, c) ==
    /\ phase # "drained"
    /\ lent[p] = NoConn /\ Cardinality(Lent) < Limit
    /\ c \in live /\ \A q \in Clients : lent[q] # c
    /\ lent' = [lent EXCEPT ![p] = c]
    /\ UNCHANGED <<live, phase>>

\* Release or Discard: the pool keeps the connection or closes it.
GiveBack(p) ==
    /\ lent[p] # NoConn
    /\ lent' = [lent EXCEPT ![p] = NoConn]
    /\ live' \in {live, live \ {lent[p]}}
    /\ UNCHANGED phase

\* The pool dials a connection, ...
Dialed(c) ==
    /\ c \in Conns \ live
    /\ live' = live \cup {c}
    /\ UNCHANGED <<lent, phase>>

\* ... and closes one, but never under the client that holds it.
Closed(c) ==
    /\ c \in live /\ \A q \in Clients : lent[q] # c
    /\ live' = live \ {c}
    /\ UNCHANGED <<lent, phase>>

CloseCalled ==
    /\ phase = "open" /\ phase' = "closed"
    /\ UNCHANGED <<lent, live>>

CloseReturned ==
    /\ phase = "closed" /\ Lent = {}
    /\ phase' = "drained"
    /\ UNCHANGED <<lent, live>>

Next ==
    \/ \E p \in Clients : GiveBack(p) \/ \E c \in Conns : Lend(p, c)
    \/ \E c \in Conns : Dialed(c) \/ Closed(c)
    \/ CloseCalled \/ CloseReturned

Spec == Init /\ [][Next]_contractVars
=============================================================================
