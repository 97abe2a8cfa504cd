------------------------------ MODULE MCLogin ------------------------------
(***************************************************************************)
(* The instance of Login that TLC checks.                                  *)
(***************************************************************************)
EXTENDS Login, TLC

MCFolded == [w \in {"ALL", "Bob"} |-> IF w = "ALL" THEN "all" ELSE "bob"]
MCCIDR == [w \in {"lan"} |-> {"ip1", "ip2"}]

\* A line from its type, name lists, address and method.
Line(t, d, u, a, m) ==
    <<Word(t), Blank>> \o d \o <<Blank>> \o u \o <<Blank, Word(a), Blank, Word(m)>>
AnyName == <<Word("ALL")>>
Rules == <<
    Line("local", AnyName, AnyName, "all", "peer"),
    Line("hostssl", <<Quoted("all")>>, AnyName, "all", "cert"),
    Line("host", <<Word("app"), Comma, Blank, Word("x")>>, <<Quoted("all")>>, "samehost", "trust"),
    Line("hostnossl", <<Word("app"), Blank, Comma, Quoted("all")>>, <<Word("Bob")>>, "lan", "scram-sha-256"),
    Line("host", AnyName, <<Word("eve"), Comma, Word("all")>>, "all", "reject") >>
Broken == Line("host", AnyName, AnyName, "nowhere", "trust")
Note == <<Blank, Hash, Word("host")>>

Conn(unix, tls, ip, user, db) ==
    [unix |-> unix, tls |-> tls, ip |-> ip, user |-> user, db |-> db]
MCConns ==
    { Conn(TRUE, FALSE, NoAddr, u, d) : u, d \in {"bob", "all"} }
    \cup { Conn(FALSE, t, i, u, d) :
             t \in BOOLEAN, i \in {"ip1", "lo"}, u \in {"bob", "all", "eve"}, d \in {"app", "all"} }

Client(c, cn, os, knows) ==
    [unix |-> c.unix, tls |-> c.tls, ip |-> c.ip, user |-> c.user, db |-> c.db,
     cn |-> cn, os |-> os, knows |-> knows]
Bob(v) == Client(Conn(FALSE, FALSE, "ip1", "bob", "app"), NoName, NoName, v)
Eve(ip) == Client(Conn(FALSE, FALSE, ip, "eve", "app"), NoName, NoName, 1)
Local == Client(Conn(TRUE, FALSE, NoAddr, "eve", "app"), NoName, "eve", 9)
Cert(cn) == Client(Conn(FALSE, TRUE, "ip1", "eve", "all"), cn, NoName, 9)

Setup(f, clients, rate, burst) ==
    [file |-> f, clients |-> clients, rate |-> rate, burst |-> burst]
\* Files that are only read: any five lexemes, and three rules in any order
\* with an error after them.
ReadOnly ==
    { <<l>> : l \in [1..5 -> {Word("a"), Quoted("b"), Quoted(""), Comma, Blank}] }
    \cup { <<Rules[i], Rules[j], Note, Rules[k], Broken>> : i, j, k \in 1..5 }
    \cup { <<<<Unclosed>>>> }
\* Failures from more addresses than the limiter remembers, without rules; a
\* password that changes; and, without a password, logins at a limited rate
\* and logins that a rule refuses.
MCSetups ==
    { Setup(f, {}, 0, 0) : f \in ReadOnly }
    \cup { Setup(<<Note>>, {Eve("ip1"), Eve("ip2")}, 0, 0),
           Setup(Rules, {Bob(1), Bob(2)}, 0, 0),
           Setup(Rules, {Local, Cert("eve")}, 1, 2),
           Setup(Rules, {Eve("ip1"), Cert("bob")}, 1, 1) }

Symmetric == Permutations(Attempts)

MCStatic == [u \in {"eve"} |-> 9]
=============================================================================
