------------------------------- MODULE MCApp --------------------------------
(* Config files, requests and names for App. *)
EXTENDS App

Labels == {"a", "b", "c", "1", "*", "bad"}
MCLabelLen == [l \in Labels |-> 1]
MCLowerOf == [l \in Labels |-> l]
MCNameChars == {"a", "b", "c", "1"}
MCOctets == {"1"}
MCHost == <<"a", "b", "c">>

Backend(port) == [open |-> FALSE, closed |-> FALSE, colon |-> TRUE, colonsInHost |-> FALSE,
                  ipv6 |-> FALSE, host |-> <<"b">>, port |-> port]
Row(hostname, port) == [hostname |-> hostname, backend |-> Backend(port)]
BothRows(port) == <<Row(MCHost, port), Row(<<"*", "b", "c">>, port)>>

File(server, admin, rows) ==
    [readable |-> TRUE, toml |-> TRUE, server |-> server, admin |-> admin, routes |-> rows]

\* Files a process can start with: they set one key or none.
Healthy == Path("/healthz")
WithQuery(path) == [path EXCEPT !.query = TRUE]
StartFile == File([listen |-> <<"l1">>], [health_path |-> Healthy], BothRows(1))
OneSetting ==
    UNION {{File(l.field :> v, <<>>, <<>>) : v \in {l.min, l.max, l.max + 1} \cup ({l.min - 1} \cap Nat)} :
               l \in ToSet(Ranges)}
    \cup {File(<<>>, [health_path |-> p], <<>>) :
             p \in {Path("/up"), MetricsPath, [Healthy EXCEPT !.rooted = FALSE],
                    [Healthy EXCEPT !.spaced = TRUE], WithQuery(Healthy), WithQuery(MetricsPath)}}
    \cup {File([listen |-> l], <<>>, <<>>) :
             l \in {<<>>, <<"l1", "l1">>, <<"l1", "l2", "taken">>, <<"l1", "127.0.0.1:8081">>}}
    \cup {File(<<>>, <<>>, rows) :
             rows \in {<<Row(MCHost, 0)>>, <<Row(<<"bad">>, 1)>>, <<Row(MCHost, 1), Row(MCHost, 2)>>}}
    \cup {[StartFile EXCEPT !.readable = FALSE], [StartFile EXCEPT !.toml = FALSE]}

MCStartFiles == {StartFile} \cup OneSetting

\* The default addresses are taken: only StartFile gets further than bind.
MCTaken == {"taken", "0.0.0.0:8080"}

MCFiles == {File([listen |-> <<"l2">>], [health_path |-> Healthy], BothRows(2)),
            File([max_connections |-> 0], <<>>, <<Row(MCHost, 3)>>)}

Request(get, target) == [get |-> get, target |-> target]
MCRequests == {Request(TRUE, WithQuery(Healthy)), Request(FALSE, Healthy)}
=============================================================================
