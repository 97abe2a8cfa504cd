-------------------------------- MODULE HBA --------------------------------
(***************************************************************************)
(* Host based access rules (src/hba.go): an auth_hba_file is read line by  *)
(* line into rules, and the first rule that matches a connection names the *)
(* authentication method.                                                  *)
(*                                                                         *)
(* A line is a sequence of lexemes: an unquoted word, a double-quoted word *)
(* (in which commas and blanks are ordinary characters), an unclosed       *)
(* quote, a comma and a blank.  Words that touch are one item, so the      *)
(* value of an item is a sequence of words.  Upper and lower case are two  *)
(* words with the same folded form.                                        *)
(***************************************************************************)
EXTENDS Integers, Sequences, FiniteSets

CONSTANTS
    Folded,     \* Folded[w]: a word in lower case
    CIDR,       \* CIDR[w]: the addresses of the network a word spells
    Loopback    \* the loopback addresses

Word(w) == [kind |-> "word", text |-> w]
Quoted(w) == [kind |-> "quoted", text |-> w]
Unclosed == [kind |-> "unclosed", text |-> ""]
Comma == [kind |-> "comma", text |-> ""]
Blank == [kind |-> "blank", text |-> ""]
Hash == [kind |-> "hash", text |-> ""]

Low(w) == IF w \in DOMAIN Folded THEN Folded[w] ELSE w

\* A connection: its listener, TLS, remote IP (none on a Unix socket), user,
\* database, the CN of its certificate and the OS user of its process.
NoAddr == "none"
NoName == "nobody"

----------------------------------------------------------------------------
(* tokenizeHBALine.                                                        *)

NoItem == [value |-> <<>>, quoted |-> FALSE]
Scanner == [fields |-> <<>>, cur |-> <<>>, item |-> NoItem,
            started |-> FALSE, afterComma |-> FALSE]

endItem(s) ==
    [s EXCEPT !.cur = Append(@, s.item), !.item = NoItem, !.started = FALSE]
endStarted(s) == IF s.started THEN endItem(s) ELSE s
endField(s) ==
    LET e == endStarted(s) IN
    IF e.cur = <<>> THEN e ELSE [e EXCEPT !.fields = Append(@, e.cur), !.cur = <<>>]

\* A comma at the start of a field re-opens the previous one.
reopen(s) ==
    [s EXCEPT !.cur = s.fields[Len(s.fields)], !.fields = SubSeq(@, 1, Len(@) - 1)]

\* Bug form: a comma only ends an item.
scanNoReopen(s, x) ==
    CASE x.kind \in {"word", "quoted"} ->
            [s EXCEPT !.item.value = @ \o (IF x.text = "" THEN <<>> ELSE <<x.text>>),
                      !.item.quoted = @ \/ x.kind = "quoted",
                      !.started = TRUE, !.afterComma = FALSE]
      [] x.kind = "comma" -> [endStarted(s) EXCEPT !.afterComma = TRUE]
      [] x.kind = "blank" -> IF s.afterComma THEN endStarted(s) ELSE endField(s)

scan(s, x) ==
    CASE x.kind \in {"word", "quoted"} ->
            [s EXCEPT !.item.value = @ \o (IF x.text = "" THEN <<>> ELSE <<x.text>>),
                      !.item.quoted = @ \/ x.kind = "quoted",
                      !.started = TRUE, !.afterComma = FALSE]
      [] x.kind = "comma" ->
            [ (IF s.started THEN endItem(s)
               ELSE IF s.cur = <<>> /\ s.fields # <<>> THEN reopen(s)
               ELSE s) EXCEPT !.afterComma = TRUE ]
      [] x.kind = "blank" -> IF s.afterComma THEN endStarted(s) ELSE endField(s)

\* Every value below may be Bad, the error the code returns.
Bad == [bad |-> TRUE]
Good(r) == [bad |-> FALSE, val |-> r]

\* The elements of a sequence.
In(seq) == {seq[k] : k \in DOMAIN seq}

\* The loop over the line: what the scan knows after n lexemes.
tokenizeHBALine(line) ==
    LET after[n \in 0..Len(line)] ==
            IF n = 0 THEN Scanner ELSE scan(after[n - 1], line[n])
    IN  IF Unclosed \in In(line) THEN Bad
        ELSE Good(endField(after[Len(line)]).fields)

----------------------------------------------------------------------------
(* parseHBALine and LoadHBAFile.                                           *)

Least(S) == CHOOSE k \in S : \A m \in S : k <= m

isKeyword(i, w) == ~i.quoted /\ i.value # <<>> /\ Len(i.value) = 1 /\ Low(i.value[1]) = w

\* The value of a list-less field in lower case; "" is no word of the format.
singleItem(field) ==
    IF Len(field) # 1 \/ Len(field[1].value) # 1 THEN "" ELSE Low(field[1].value[1])

\* The unquoted keyword makes the list match everything that was not
\* refused before it: an empty name is an error only ahead of it.
parseNameList(field) ==
    LET stops == {k \in 1..Len(field) : isKeyword(field[k], "all") \/ field[k].value = <<>>}
    IN  IF stops = {} THEN Good([all |-> FALSE, names |-> {i.value : i \in In(field)}])
        ELSE IF isKeyword(field[Least(stops)], "all") THEN Good([all |-> TRUE, names |-> {}])
        ELSE Bad

Types == {"host", "hostssl", "hostnossl", "local"}
Methods == {"trust", "reject", "scram-sha-256", "peer", "cert"}

\* Net is the set of addresses, or "all", or "samehost".
parseAddress(field) ==
    IF Len(field) # 1 THEN Bad
    ELSE LET i == field[1] IN
         IF isKeyword(i, "all") THEN Good([net |-> {}, any |-> TRUE, samehost |-> FALSE])
         ELSE IF isKeyword(i, "samehost") THEN Good([net |-> {}, any |-> FALSE, samehost |-> TRUE])
         ELSE IF Len(i.value) = 1 /\ i.value[1] \in DOMAIN CIDR
         THEN Good([net |-> CIDR[i.value[1]], any |-> FALSE, samehost |-> FALSE])
         ELSE Bad

parseHBALine(line) ==
    LET t == tokenizeHBALine(line)
        f == t.val
        type == singleItem(f[1])
        dbs == parseNameList(f[2])
        users == parseNameList(f[3])
        addr == parseAddress(f[4])
        method == singleItem(f[5])
    IN  IF \/ t.bad \/ Len(f) # 5
           \/ type \notin Types \/ dbs.bad \/ users.bad \/ addr.bad \/ method \notin Methods
        THEN Bad
        ELSE Good([type |-> type, dbs |-> dbs.val, users |-> users.val,
                   addr |-> addr.val, method |-> method])

Ignored(line) == In(line) \subseteq {Blank} \/ Hash = SelectSeq(line, LAMBDA x : x # Blank)[1]

----------------------------------------------------------------------------
(* MatchHBA.                                                               *)

matchHBAType(t, tls, isUnix) ==
    CASE t = "local" -> isUnix
      [] t = "host" -> ~isUnix
      [] t = "hostssl" -> ~isUnix /\ tls
      [] t = "hostnossl" -> ~isUnix /\ ~tls

matchHBAName(list, val) ==
    list.all \/ \E n \in list.names : Len(n) = 1 /\ Low(n[1]) = Low(val)

matchHBAAddr(addr, ip) ==
    IF addr.samehost THEN ip # NoAddr /\ ip \in Loopback
    ELSE addr.any \/ (ip # NoAddr /\ ip \in addr.net)

matches(r, c) ==
    /\ matchHBAType(r.type, c.tls, c.unix)
    /\ matchHBAName(r.dbs, c.db)
    /\ matchHBAName(r.users, c.user)
    /\ matchHBAAddr(r.addr, c.ip)

\* The loop: the index of the rule it stops at, Len(rules) + 1 if at none.
MatchHBA(rules, c) ==
    LET from[i \in 1..Len(rules) + 1] ==
            IF i > Len(rules) \/ matches(rules[i], c) THEN i ELSE from[i + 1]
    IN  from[1]

----------------------------------------------------------------------------
(* What the comments of the file say of the format.                        *)

InItem(line, k) == line[k].kind \in {"word", "quoted"}
\* The items of a line: the maximal runs of words, each given by its ends.
Runs(line) ==
    {r \in (1..Len(line)) \X (1..Len(line)) :
        /\ r[1] <= r[2] /\ \A k \in r[1]..r[2] : InItem(line, k)
        /\ r[1] > 1 => ~InItem(line, r[1] - 1)
        /\ r[2] < Len(line) => ~InItem(line, r[2] + 1)}
\* A run starts a field unless a comma stands between it and the run before.
StartsField(line, r) ==
    \A q \in Runs(line) : q[2] < r[1] =>
        \/ \E p \in Runs(line) : q[2] < p[1] /\ p[2] < r[1]
        \/ \A k \in q[2]..r[1] : line[k] # Comma

ItemAt(line, r) ==
    LET words == SelectSeq(SubSeq(line, r[1], r[2]), LAMBDA x : x.text # "")
    IN  [value |-> [k \in DOMAIN words |-> words[k].text],
         quoted |-> \E k \in r[1]..r[2] : line[k].kind = "quoted"]
InOrder(S) ==
    [n \in 1..Cardinality(S) |->
        CHOOSE r \in S : Cardinality({q \in S : q[1] < r[1]}) = n - 1]

FieldsAsWritten(line) ==
    LET starts == InOrder({r \in Runs(line) : StartsField(line, r)})
        upto(n) == IF n = Len(starts) THEN Len(line) ELSE starts[n + 1][1] - 1
        field(n) == InOrder({r \in Runs(line) : r[1] >= starts[n][1] /\ r[2] <= upto(n)})
    IN  [n \in DOMAIN starts |-> [k \in DOMAIN field(n) |-> ItemAt(line, field(n)[k])]]

\* A name field matches by the unquoted keyword or by a name, folded.
Names(field, w) ==
    \/ \E i \in In(field) : i = [value |-> <<"all">>, quoted |-> FALSE]
    \/ \E i \in In(field) : i.value = <<"ALL">> /\ ~i.quoted
    \/ \E i \in In(field) : i.value # <<>> /\ Low(i.value[1]) = Low(w)
\* Whether a rule, as its fields are written, is about a connection.
Concerns(f, c) ==
    LET type == f[1][1].value[1]
        addr == f[4][1].value[1]
    IN  /\ c.unix <=> type = "local"
        /\ type = "hostssl" => c.tls
        /\ type = "hostnossl" => ~c.tls
        /\ Names(f[2], c.db) /\ Names(f[3], c.user)
        /\ \/ addr = "all"
           \/ addr = "samehost" /\ c.ip \in Loopback
           \/ addr \in DOMAIN CIDR /\ c.ip \in CIDR[addr]

\* The first line that is about the connection, one past the end if none is.
FirstConcerned(written, c) ==
    Least({k \in DOMAIN written : Concerns(written[k], c)} \cup {Len(written) + 1})
=============================================================================
