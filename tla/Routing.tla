------------------------------ MODULE Routing ------------------------------
(***************************************************************************)
(* Names, route keys, backends and the choice of a route: lookup/types.rs, *)
(* lookup/mod.rs, lookup/memory.rs and routing/mod.rs. A name is the       *)
(* sequence of its labels; what is told apart about a label is the set it  *)
(* belongs to and its length.                                              *)
(***************************************************************************)
EXTENDS Integers, FiniteSets, SequencesExt

CONSTANTS
    LabelLen,       \* length in bytes of each label of the instance
    LowerOf,        \* to_ascii_lowercase of each label
    NameChars,      \* labels made of [a-z0-9-_] only
    Octets,         \* labels that are a decimal number from 0 to 255
    MaxNameLen,     \* MAX_NAME_LEN
    MaxLabelLen     \* MAX_LABEL_LEN

Star == "*"

ASSUME RoutingAssumption ==
    /\ Octets \subseteq NameChars
    /\ Star \in DOMAIN LowerOf \ NameChars /\ LowerOf[Star] = Star
    /\ \A l \in DOMAIN LowerOf : LowerOf[LowerOf[l]] = LowerOf[l]

Lower(name) == [i \in DOMAIN name |-> LowerOf[name[i]]]

\* The labels and the dots between them.
NameLen(name) == Len(name) - 1 + FoldLeft(LAMBDA n, l : n + LabelLen[l], 0, name)

ValidDnsName(name) ==
    /\ name # <<>>
    /\ NameLen(name) <= MaxNameLen
    /\ \A i \in DOMAIN name : LabelLen[name[i]] \in 1 .. MaxLabelLen /\ name[i] \in NameChars

\* std: a name of label characters parses as an IpAddr iff it is a dotted quad.
IsIpLiteral(name) == Len(name) = 4 /\ \A i \in DOMAIN name : name[i] \in Octets

\* Hostname::parse: lowercased, then validated.
HostnameParse(name) ==
    [ok |-> ValidDnsName(Lower(name)) /\ ~IsIpLiteral(Lower(name)), labels |-> Lower(name)]

ExactKey(host) == [wildcard |-> FALSE, labels |-> host]
WildcardKey(parent) == [wildcard |-> TRUE, labels |-> parent]

\* RouteKey::parse: "*." and a name of two labels or more, or a name.
KeyParses(raw) ==
    IF Len(raw) > 1 /\ raw[1] = Star
    THEN HostnameParse(Tail(raw)).ok /\ Len(Tail(raw)) >= 2
    ELSE (\A i \in DOMAIN raw : raw[i] # Star) /\ HostnameParse(raw).ok

RouteKeyParse(raw) ==
    IF raw[1] = Star THEN WildcardKey(Lower(Tail(raw))) ELSE ExactKey(Lower(raw))

\* Mutant: the wildcard is tried first.
CandidateKeysReversed(host) ==
    Reverse(<<ExactKey(host)>> \o
            (IF Len(host) >= 3 THEN <<WildcardKey(Tail(host))>> ELSE <<>>))

\* RouteCandidates::for_hostname: the keys in order of precedence.
CandidateKeys(host) ==
    <<ExactKey(host)>> \o
    (IF Len(host) >= 3 THEN <<WildcardKey(Tail(host))>> ELSE <<>>)

\* A check, and the first error of a list of checks.
Ok == "ok"
Check(passes, error) == IF passes THEN Ok ELSE error
FirstError(errors) ==
    LET failing == {i \in DOMAIN errors : errors[i] # Ok}
    IN  IF failing = {} THEN Ok ELSE errors[Min(failing)]

(***************************************************************************)
(* Backends. What is told apart of a backend's text: an opening bracket    *)
(* and its closing one, a colon where the port is expected, colons inside  *)
(* the host, a host that reads as an IPv6 address, its labels otherwise,   *)
(* and the port (-1 if it is no number).                                   *)
(***************************************************************************)

\* split_host_port.
SplitError(raw) ==
    FirstError(IF raw.open
               THEN <<Check(raw.closed, "InvalidBackendHost"),
                      Check(raw.colon, "MissingPort"),
                      Check(raw.ipv6, "InvalidBackendHost")>>
               ELSE <<Check(raw.colon, "MissingPort"),
                      Check(~raw.colonsInHost, "InvalidBackendHost")>>)

\* parse_backend_host: an address, or a DNS name.
IsIp(raw) == raw.ipv6 \/ IsIpLiteral(raw.host)

BackendError(raw) ==
    FirstError(<<SplitError(raw),
                 Check(raw.port \in 1 .. 65535, "InvalidPort"),
                 Check(IsIp(raw) \/ ValidDnsName(Lower(raw.host)), "InvalidBackendHost")>>)

BackendParse(raw) ==
    [kind |-> IF IsIp(raw) THEN "Ip" ELSE "Dns",
     host |-> IF IsIp(raw) THEN raw.host ELSE Lower(raw.host),
     port |-> raw.port]

(***************************************************************************)
(* The route table.                                                        *)
(***************************************************************************)

\* build_route_table, one row: the key, the backend, then whether the key is new.
RowError(rows, i) ==
    FirstError(<<Check(KeyParses(rows[i].hostname), "InvalidRouteHostname"),
                 Check(BackendError(rows[i].backend) = Ok, "InvalidRouteBackend"),
                 Check(\A j \in 1 .. i - 1 :
                           RouteKeyParse(rows[j].hostname) # RouteKeyParse(rows[i].hostname),
                       "DuplicateRoute")>>)

\* The first bad row refuses the whole file. A file is a sequence of rows
\* [hostname, backend].
TableError(rows) == FirstError([i \in DOMAIN rows |-> RowError(rows, i)])

BuildRouteTable(rows) ==
    [k \in {RouteKeyParse(rows[i].hostname) : i \in DOMAIN rows} |->
        LET i == CHOOSE j \in DOMAIN rows : RouteKeyParse(rows[j].hostname) = k
        IN  BackendParse(rows[i].backend)]

\* InMemoryLookup::hits.
Hits(table, host) == {k \in DOMAIN table : Contains(CandidateKeys(host), k)}

\* What stands for a backend when there is none.
NoBackend(why) == [kind |-> why, host |-> <<>>, port |-> 0]

\* select_route: the first candidate with a hit. Hits that are no candidates
\* are never looked at.
NotFound == NoBackend("NotFound")
SelectRoute(host, hits, table) ==
    LET keys == CandidateKeys(host)
        matching == {i \in DOMAIN keys : keys[i] \in hits}
    IN  IF matching = {} THEN NotFound ELSE table[keys[Min(matching)]]
=============================================================================
