------------------------------- MODULE MCDial -------------------------------
(* Pools for Dial: every sslmode over one or two hosts with no watcher, and *)
(* both kinds of dialer beside a watcher on a DNS name.                     *)
EXTENDS Dial

CONSTANTS name, primary, standby

Pool(kind, sslmode, hosts, requireTLS, n) ==
    [kind |-> kind, sslmode |-> sslmode, hosts |-> hosts,
     requireTLS |-> requireTLS, watched |-> n > 0, flips |-> n]

MCSetups ==
    {Pool(kd, m, h, r, 0) : kd \in {"passthrough", "dsn"},
        m \in {"disable", "allow", "prefer", "require"},
        h \in {<<primary>>, <<primary, standby>>}, r \in BOOLEAN}
    \cup {Pool("passthrough", "disable", <<name>>, FALSE, 1),
          Pool("dsn", "disable", <<name>>, FALSE, 2)}
=============================================================================
