----------------------------- MODULE MCRegistry -----------------------------
(* Configurations for the runs of Registry.                                *)
EXTENDS Registry

CONSTANTS u1

Order == <<"a", "b", "c", "d">>

Cfg(l, as, us, sc) == [limit |-> l, aliases |-> as, users |-> us, scram |-> sc]

\* One pass-through pool with an alias.
OnePool == "a" :> Cfg(1, {"d"}, {}, TRUE)

\* A second pool with a backend user; the first has a new limit and no alias.
TwoPools == "a" :> Cfg(2, {}, {}, TRUE) @@ "b" :> Cfg(1, {}, {u1}, FALSE)

\* The first pool is gone and its alias has moved to the second.
Moved == "b" :> Cfg(1, {"d"}, {u1}, FALSE)

TwoFiles == {TwoPools, Moved}
Symmetry == Permutations(Sessions)
=============================================================================
