----------------------------- MODULE MCIngress -----------------------------
(* Clients, names and route files for Ingress. Bytes of a ClientHello's body
   are 100 + i: no header byte has these values, and no two are equal. *)
EXTENDS Ingress

Labels == {"a", "A", "b", "c", "1", "*", "bad", "long", "empty"}
MCLabelLen == [l \in Labels |-> IF l = "empty" THEN 0 ELSE IF l = "long" THEN 3 ELSE 1]
MCLowerOf == [l \in Labels |-> IF l = "A" THEN "a" ELSE l]
MCNameChars == {"a", "b", "c", "1", "long", "empty"}
MCOctets == {"1"}

\* Every way to cut s into one, two or three parts that are not empty.
Cuts(s) ==
    LET Part(i, j) == SubSeq(s, i, j)
        n == Len(s)
    IN  {<<s>>}
        \cup {<<Part(1, i), Part(i + 1, n)>> : i \in 1 .. n - 1}
        \cup {<<Part(1, p[1]), Part(p[1] + 1, p[2]), Part(p[2] + 1, n)>> :
                 p \in {q \in (1 .. n) \X (1 .. n) : q[1] < q[2] /\ q[2] < n}}

Whole(payload) == [type |-> 22, major |-> 3, len |-> Len(payload), payload |-> payload]
WholeRecords(parts) == [i \in DOMAIN parts |-> Whole(parts[i])]

\* The records, each of them spoilt in one way, and the last cut short or
\* followed by another.
Spoilt(records) ==
    LET n == Len(records)
    IN  {[records EXCEPT ![i].type = 23] : i \in 1 .. n}
        \cup {[records EXCEPT ![i].major = 2] : i \in 1 .. n}
        \cup {[records EXCEPT ![i].len = l] : i \in 1 .. n, l \in {0, MAX_RECORD_PAYLOAD + 1}}
        \cup {[records EXCEPT ![n].len = MAX_RECORD_PAYLOAD]}
        \cup {Append(records, [Whole(<<7>>) EXCEPT !.type = 23])}

BodyBytes(n) == [i \in 1 .. n |-> 100 + i]
Messages ==
    {<<1, 0, 0, n>> \o BodyBytes(n) \o more :
        n \in 0 .. MaxHandshakeBytes + 1, more \in {<<>>, <<11, 12>>}}
    \cup {<<2, 0, 0, 1, 101>>, <<1, 1, 0, 0, 101>>, <<1, 0, 1, 0, 101>>}

HostName(n) == [kind |-> "host_name", name |-> n]
OtherName(n) == [kind |-> "other", name |-> n]
ServerName(list, whole) == [kind |-> "server_name", data |-> [list |-> list, exact |-> whole]]
OtherExtension == [kind |-> "other"]
Content(exts) ==
    [prefixOk |-> TRUE, hasExtensions |-> TRUE, exact |-> TRUE, extensions |-> exts]

Host == <<"A", "b", "c">>
Plain == Content(<<OtherExtension, ServerName(<<HostName(Host)>>, TRUE)>>)

Client(records, body, content, rows) ==
    [records |-> records, body |-> body, content |-> content, file |-> rows]

\* The clients whose records vary.
RecordClients ==
    {Client(<<>>, BodyBytes(1), Plain, <<>>)} \cup
    UNION {{Client(r, BodyBytes(IF m[2] + m[3] = 0 THEN m[4] ELSE 1), Plain, <<>>) :
               r \in UNION {{WholeRecords(p)} \cup Spoilt(WholeRecords(p)) : p \in Cuts(m)}} :
           m \in Messages}

\* The clients whose ClientHello varies, and those whose route file does.
OneRecord == <<Whole(<<1, 0, 0, 2>> \o BodyBytes(2))>>
HelloClient(content, rows) == Client(OneRecord, BodyBytes(2), content, rows)

Names == {<<"a", "b", "c">>, Host, <<"b", "b", "c">>, <<"a", "b">>, <<"a">>,
          <<"a", "a", "b", "c">>,
          <<>>, <<"*", "b", "c">>, <<"a", "bad">>, <<"a", "empty">>, <<"long", "a">>,
          <<"1", "1", "1", "1">>, <<"a", "a", "a", "a", "a">>}
Entries == {HostName(n) : n \in Names} \cup {OtherName(<<"a">>), OtherName(<<>>), Cut}
Lists == BoundedSeq(Entries, 2)
Extensions ==
    {OtherExtension, Cut, ServerName(<<HostName(Host)>>, TRUE), ServerName(<<>>, TRUE),
     ServerName(<<OtherName(<<"a">>)>>, TRUE), ServerName(<<HostName(<<"a", "b">>)>>, FALSE)}
Contents ==
    {Content(<<ServerName(l, TRUE)>>) : l \in Lists}
    \cup {Content(x) : x \in BoundedSeq(Extensions, 3)}
    \cup {[Plain EXCEPT !.prefixOk = FALSE], [Plain EXCEPT !.hasExtensions = FALSE],
          [Plain EXCEPT !.exact = FALSE]}

Hostnames == {<<"a", "b", "c">>, <<"A", "b", "c">>, <<"*", "b", "c">>, <<"*", "a", "b", "c">>,
              <<"a", "b">>, <<"*", "b">>, <<"b", "*", "c">>}

\* Backends of every form; only the first three parse.
Text(host, port) == [open |-> FALSE, closed |-> FALSE, colon |-> TRUE, colonsInHost |-> FALSE,
                     ipv6 |-> FALSE, host |-> host, port |-> port]
Bracketed(ipv6) == [Text(<<"a">>, 1) EXCEPT !.open = TRUE, !.closed = TRUE, !.ipv6 = ipv6]
DnsText == Text(<<"A", "b">>, 65535)
IpText == Text(<<"1", "1", "1", "1">>, 1)
BadTexts ==
    {Text(<<"a">>, p) : p \in {-1, 0, 65536}}
    \cup {Text(<<"bad">>, 1), Text(<<"long">>, 1), Text(<<>>, 1), Bracketed(FALSE)}
    \cup {[DnsText EXCEPT !.colon = FALSE], [DnsText EXCEPT !.colonsInHost = TRUE],
          [DnsText EXCEPT !.colonsInHost = TRUE, !.ipv6 = TRUE],
          [Bracketed(TRUE) EXCEPT !.closed = FALSE], [Bracketed(TRUE) EXCEPT !.colon = FALSE]}

Row(h) == [hostname |-> h,
           backend |-> IF h[1] = Star THEN IpText ELSE IF h[1] = "A" THEN Bracketed(TRUE)
                       ELSE DnsText]
Files == {[i \in DOMAIN s |-> Row(s[i])] : s \in BoundedSeq(Hostnames, 3)}
BadFiles == {<<Row(<<"*", "b", "c">>), [hostname |-> <<"a", "b", "c">>, backend |-> b]>> :
                b \in BadTexts}

MCAnswers == {<<<<"x">>>>, <<<<"x">>, <<"y">>>>, <<<<"x">>, <<"y">>, <<"z">>>>}

MCInputs ==
    RecordClients
    \cup {HelloClient(c, <<>>) : c \in Contents}
    \cup {HelloClient(Content(<<ServerName(<<HostName(n)>>, TRUE)>>), f) :
             n \in Names, f \in Files \cup BadFiles}
=============================================================================
