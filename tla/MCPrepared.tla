----------------------------- MODULE MCPrepared -----------------------------
EXTENDS PreparedStmts

CONSTANTS s1, n1, n2, n3, q1, q2

\* One busy client; the other meets it in one name, with a text of its own.
OneBusy ==
    [s \in Sessions |-> IF s = s1 THEN {<<n1, q1>>, <<n2, q1>>, <<n3, Bad>>}
                       ELSE {<<n1, q2>>, <<n1, Ddl>>}]

Lengths == [s \in Sessions |-> IF s = s1 THEN 2 ELSE 1]

Symmetry == Permutations(Backends)
=============================================================================
