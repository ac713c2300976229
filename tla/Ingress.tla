------------------------------ MODULE Ingress ------------------------------
(***************************************************************************)
(* The bytes, names and addresses behind the stages of a connection before *)
(* it proxies: the read loop of delivery/hello_reader.rs over whatever     *)
(* chunks the client's bytes arrive in, resolve_route of routing/mod.rs,   *)
(* and connect_and_replay of delivery/connection.rs over the resolver's    *)
(* rotated addresses, which upstream_timeout or the cancellation may cut.  *)
(* Router has the control of all the stages; here is the data. A hello or  *)
(* a lookup that is cut stays where it is.                                 *)
(*                                                                         *)
(* A client sends a list of records, whole or broken, that carry its first *)
(* handshake message and perhaps more, and may close at the end.           *)
(***************************************************************************)
EXTENDS ClientHello

CONSTANTS
    Inputs,         \* clients, each with the route file it meets: the records
                    \* [type, major, len, payload] it sends, and the ClientHello's
                    \* body, as bytes and as what it says
    ReadChunk,      \* READ_CHUNK
    Answers,        \* the address lists a DNS name may resolve to
    UsizeRange      \* how many values usize has: the rotation counter wraps

Byte == 0 .. 255
U16 == 0 .. 65535

\* What a client can send. A payload ends before its record does only where the
\* stream ends; a record of no valid length is refused at its header, so that
\* what follows it does not matter.
Sendable(records) ==
    /\ records \in Seq([type : Byte, major : Byte, len : U16, payload : Seq(Byte)])
    /\ \A i \in DOMAIN records :
          records[i].len \in 1 .. MAX_RECORD_PAYLOAD =>
              /\ Len(records[i].payload) <= records[i].len
              /\ i < Len(records) => Len(records[i].payload) = records[i].len

ASSUME IngressAssumption ==
    /\ ReadChunk \in Nat \ {0}
    /\ UsizeRange \in Nat \ {0}
    /\ \A addrs \in Answers : addrs \in Seq(ToSet(addrs)) /\ addrs # <<>>
    /\ \A c \in Inputs :
          /\ Sendable(c.records)
          /\ c.file \in Seq(ToSet(c.file))
          /\ \A i \in DOMAIN c.file : c.file[i].hostname \in Seq(ToSet(c.file[i].hostname))
          /\ c.content.extensions \in Seq(ToSet(c.content.extensions))
          /\ \A e \in ToSet(c.content.extensions) : e.kind = "server_name" =>
                /\ e.data.list \in Seq(ToSet(e.data.list))
                /\ \A n \in ToSet(e.data.list) : n.kind = "host_name" => n.name \in Seq(ToSet(n.name))

VARIABLES
    input,          \* the client and its bytes
    file,           \* the route file in force
    taken,          \* buf.len()
    capacity,       \* buf.capacity()
    hello,          \* "reading", then how reading the ClientHello ended
    name,           \* the server name, once there is one
    route,          \* the backend, or why there is none (yet)
    upstream        \* connect_and_replay: how far it is, the addresses to choose
                    \* from, the ones left, the ones tried, the bytes written

helloVars == <<input, taken, capacity, hello, name>>
vars == <<input, file, taken, capacity, hello, name, route, upstream>>

Least(a, b) == IF a < b THEN a ELSE b
Greatest(a, b) == IF a < b THEN b ELSE a

Encode(r) == <<r.type, r.major, 1, r.len \div 256, r.len % 256>> \o r.payload
Wire(records) == FlattenSeq([i \in DOMAIN records |-> Encode(records[i])])

Unresolved == NoBackend("Unresolved")
LookupFailed == NoBackend("LookupFailed")
NotConnecting == [pc |-> "idle", choice |-> <<>>, left |-> <<>>, tried |-> <<>>, sent |-> 0]

Init ==
    /\ \E c \in Inputs :
           /\ input = [records |-> c.records, body |-> c.body,
                       content |-> c.content, wire |-> Wire(c.records)]
           /\ TableError(c.file) = Ok
           /\ file = c.file
    /\ taken = 0
    /\ capacity = Least(ReadChunk, MaxWireBytes)
    /\ hello = "reading"
    /\ name = NoName
    /\ route = Unresolved
    /\ upstream = NotConnecting

\* parse_client_hello of the first n bytes. The bytes of the body stand for its
\* content when they are all there and in order.
ParseClientHello(n) ==
    LET scan == ScanRecords(SubSeq(input.wire, 1, n))
    IN  IF scan.verdict # "ok" THEN Failure(scan.verdict)
        ELSE IF Reassemble(scan) # input.body THEN Failure("Malformed")
        ELSE ParseClientHelloBody(input.content)

\* Mutant: reserve, which doubles the allocation when it must grow.
ReserveDoubles ==
    LET need == taken + Least(ReadChunk, MaxWireBytes - taken)
    IN  IF need <= capacity THEN capacity ELSE Greatest(need, 2 * capacity)

\* reserve_exact(READ_CHUNK.min(remaining)).
Reserve == Greatest(capacity, taken + Least(ReadChunk, MaxWireBytes - taken))

\* A read returns k bytes; the buffer is parsed again from its start. When it
\* is still incomplete and full, the next turn of the loop gives up.
Read(k) ==
    /\ hello = "reading"
    /\ k <= Least(Reserve, MaxWireBytes) - taken
    /\ taken + k <= Len(input.wire)
    /\ taken' = taken + k
    /\ capacity' = Reserve
    /\ LET parsed == ParseClientHello(taken + k)
       IN  IF IsFailure(parsed)
           THEN /\ hello' = IF parsed.failure # "Incomplete" THEN parsed.failure
                            ELSE IF taken + k = MaxWireBytes THEN "TooLarge"
                            ELSE "reading"
                /\ UNCHANGED name
           ELSE /\ hello' = IF parsed.sni = NoName THEN "MissingSni" ELSE "Named"
                /\ name' = parsed.sni
    /\ UNCHANGED <<input, file, route, upstream>>

\* A read returns 0 because the client closed, or fails.
ReadEnds ==
    /\ hello = "reading"
    /\ capacity' = Reserve
    /\ \/ taken = Len(input.wire) /\ hello' = "Closed"
       \/ hello' = "Io"
    /\ UNCHANGED <<input, file, taken, name, route, upstream>>

\* The store answers with every row that is a candidate; a store that breaks
\* its contract may add others, which are ignored.
ResolveRoute ==
    /\ hello = "Named" /\ route = Unresolved
    /\ LET table == BuildRouteTable(file)
       IN  \E extra \in SUBSET DOMAIN table :
               route' = SelectRoute(name, Hits(table, name) \cup extra, table)
    /\ UNCHANGED <<helloVars, file, upstream>>

\* The lookup fails or times out: fails closed.
LookupFails ==
    /\ hello = "Named" /\ route = Unresolved
    /\ route' = LookupFailed
    /\ UNCHANGED <<helloVars, file, upstream>>

-----------------------------------------------------------------------------
(* connect_and_replay: the backend's address, or the resolver's list, each *)
(* tried in turn; then the bytes read so far.                              *)

ConnectLeaves == UNCHANGED <<helloVars, file, route>>

ConnectIp ==
    /\ route.kind = "Ip" /\ upstream.pc = "idle"
    /\ upstream' = [upstream EXCEPT !.pc = "connecting",
                                    !.choice = <<route.host>>, !.left = <<route.host>>]
    /\ ConnectLeaves

\* Mutant: the addresses before the start are forgotten.
RotatedTail(addrs, counter) == SubSeq(addrs, (counter % Len(addrs)) + 1, Len(addrs))

\* Resolver::rotated: the list from the counter's place on, then its beginning.
Rotated(addrs, counter) ==
    LET start == counter % Len(addrs)
    IN  SubSeq(addrs, start + 1, Len(addrs)) \o SubSeq(addrs, 1, start)

\* resolve answers with a list that is not empty, or fails. The counter is
\* shared by all connections and wraps: it may be anywhere.
ResolveName ==
    /\ route.kind = "Dns" /\ upstream.pc = "idle"
    /\ \/ \E addrs \in Answers, counter \in 0 .. UsizeRange - 1 :
              upstream' = [upstream EXCEPT !.pc = "connecting", !.choice = addrs,
                                           !.left = Rotated(addrs, counter)]
       \/ upstream' = [upstream EXCEPT !.pc = "failed"]
    /\ ConnectLeaves

\* connect_any, one address: it answers, or the next one is tried.
TryConnect ==
    /\ upstream.pc = "connecting"
    /\ \E pc \in {"connected", IF Len(upstream.left) = 1 THEN "failed" ELSE "connecting"} :
           upstream' = [upstream EXCEPT !.pc = pc, !.left = Tail(@),
                                        !.tried = Append(@, upstream.left[1])]
    /\ ConnectLeaves

\* write_all(buffered): in any pieces, all of it or an error.
Replay ==
    /\ upstream.pc = "connected"
    /\ \/ \E n \in upstream.sent + 1 .. taken :
              upstream' = [upstream EXCEPT !.sent = n,
                                           !.pc = IF n = taken THEN "replayed" ELSE @]
       \/ upstream' = [upstream EXCEPT !.pc = "cut"]
    /\ ConnectLeaves

\* upstream_timeout, one deadline for the lookup of the name, every connect and
\* the replay, or the cancellation of the handshakes drops connect_and_replay.
ConnectCut ==
    /\ route.kind \in {"Ip", "Dns"}
    /\ upstream.pc \in {"idle", "connecting", "connected"}
    /\ \E pc \in {"timedOut", "cancelled"} : upstream' = [upstream EXCEPT !.pc = pc]
    /\ ConnectLeaves

Next ==
    \/ \E k \in 1 .. MaxWireBytes : Read(k)
    \/ ReadEnds
    \/ ResolveRoute
    \/ LookupFails
    \/ ConnectIp \/ ResolveName \/ TryConnect \/ Replay \/ ConnectCut

Spec == Init /\ [][Next]_vars

-----------------------------------------------------------------------------
(***************************************************************************)
(* What the records of a client amount to, told without a scan: the events *)
(* a reader can meet in them, each at the number of bytes that shows it.   *)
(***************************************************************************)

Records == input.records
StartOf(i) == Len(Wire(SubSeq(Records, 1, i - 1)))

\* The handshake bytes sent, and where each is on the wire.
Handshake == FlattenSeq([i \in DOMAIN Records |-> Records[i].payload])
Places == FlattenSeq([i \in DOMAIN Records |->
              [j \in DOMAIN Records[i].payload |-> StartOf(i) + RECORD_HEADER_LEN + j]])
Declared == HandshakeLen(Handshake)

ValidRecord(r) ==
    /\ r.type = CONTENT_TYPE_HANDSHAKE /\ r.major = RECORD_VERSION_MAJOR
    /\ r.len \in 1 .. MAX_RECORD_PAYLOAD

\* The records at whose end the whole message is there.
Completing(i) ==
    /\ Len(Records[i].payload) = Records[i].len
    /\ Len(Handshake) >= HANDSHAKE_HEADER_LEN
    /\ Len(FlattenSeq([j \in 1 .. i |-> Records[j].payload]))
           >= HANDSHAKE_HEADER_LEN + Declared

Event(at, what) == [at |-> at, what |-> what]
Events ==
    {Event(StartOf(i) + 1, IF i = 1 THEN "NotHandshake" ELSE "InvalidRecord") :
        i \in {j \in DOMAIN Records : Records[j].type # CONTENT_TYPE_HANDSHAKE}}
    \cup {Event(StartOf(i) + 2, "InvalidRecord") :
        i \in {j \in DOMAIN Records : Records[j].major # RECORD_VERSION_MAJOR}}
    \cup {Event(StartOf(i) + RECORD_HEADER_LEN, "InvalidRecord") :
        i \in {j \in DOMAIN Records : Records[j].len \notin 1 .. MAX_RECORD_PAYLOAD}}
    \cup {Event(StartOf(i) + RECORD_HEADER_LEN, "TooLarge") :
        i \in {j \in DOMAIN Records :
                  j > MaxRecords /\ Records[j].len \in 1 .. MAX_RECORD_PAYLOAD}}
    \cup {Event(Places[i], "NotClientHello") :
        i \in {j \in {1} \cap DOMAIN Handshake :
                  Handshake[j] # HANDSHAKE_TYPE_CLIENT_HELLO}}
    \cup {Event(Places[i], "TooLarge") :
        i \in {j \in {HANDSHAKE_HEADER_LEN} \cap DOMAIN Handshake :
                  Declared > MaxHandshakeBytes}}
    \cup {Event(StartOf(i) + RECORD_HEADER_LEN + Records[i].len, "Complete") :
        i \in {j \in DOMAIN Records : Completing(j)}}

Seen == {e \in Events : e.at <= taken}
Earliest == CHOOSE e \in Seen : \A f \in Seen : e.at <= f.at

\* How a complete ClientHello can end.
BodyVerdicts == {"Named", "MissingSni", "Malformed", "InvalidServerName"}

\* The host_name entries anywhere in the client's ClientHello.
HostNames ==
    LET exts == input.content.extensions
        In(i) == {j \in DOMAIN exts[i].data.list : exts[i].data.list[j].kind = "host_name"}
    IN  UNION {{i} \X In(i) : i \in {j \in DOMAIN exts : exts[j].kind = "server_name"}}

\* A ClientHello without a fault: every vector whole, each extension once, and
\* at most one host_name, a valid one.
Sound(content) ==
    /\ content.prefixOk
    /\ content.hasExtensions =>
           /\ content.exact
           /\ \A i, j \in DOMAIN content.extensions :
                  i # j => content.extensions[i].kind # content.extensions[j].kind
           /\ \A i \in DOMAIN content.extensions :
                  LET e == content.extensions[i]
                  IN  /\ e.kind # "cut"
                      /\ e.kind = "server_name" =>
                             /\ e.data.exact /\ e.data.list # <<>>
                             /\ \A j \in DOMAIN e.data.list : e.data.list[j].kind # "cut"
                             /\ \A j \in DOMAIN e.data.list : e.data.list[j].name # NoName
           /\ Cardinality(HostNames) <= 1
           /\ \A p \in HostNames :
                  HostnameParse(content.extensions[p[1]].data.list[p[2]].name).ok

\* The rows of the route file that cover a name, ignoring case.
Covers(hostname) ==
    \/ Lower(hostname) = name
    \/ /\ hostname[1] = Star
       /\ Len(hostname) = Len(name)
       /\ Tail(Lower(hostname)) = Tail(name)

-----------------------------------------------------------------------------
(***************************************************************************)
(* Properties.                                                             *)
(***************************************************************************)

(* However the bytes are cut into reads, the reader stops at the read that
   first shows something decisive, and with the verdict that is earliest in the
   stream: parsing a growing buffer again from its start never changes its mind
   and never waits on a stream that is already bad, too large or complete. Only
   a stream that shows nothing within the wire limit fills the buffer
   (read_client_hello and scan_records). *)
EarliestEventDecides ==
    /\ hello \in {"reading", "Closed", "Io"} => Seen = {}
    /\ hello \notin {"reading", "Closed", "Io"} =>
           IF Seen = {} THEN hello = "TooLarge" /\ taken = MaxWireBytes
           ELSE IF Earliest.what = "Complete" THEN hello \in BodyVerdicts
           ELSE hello = Earliest.what

(* A client cannot make the reader hold more memory than the wire limit: the
   buffer's allocation, not only its length, stays within it
   (hello_reader.rs:50). *)
CapacityWithinWireLimit == taken <= capacity /\ capacity <= MaxWireBytes

\* A name is used only when the message has exactly one host_name, wherever it
\* stands, and it is that name, a valid one in lower case.
NameExact ==
    hello = "Named" =>
        \E p \in HostNames :
            /\ HostNames = {p}
            /\ LET raw == input.content.extensions[p[1]].data.list[p[2]].name
               IN  ValidDnsName(Lower(raw)) /\ name = Lower(raw)

\* A hello is without SNI only when it has none.
NoneMissed ==
    hello = "MissingSni" => HostNames = {} \/ ~input.content.hasExtensions

\* The first i records are valid and carry a whole ClientHello, in no more
\* records and with no longer a body than HelloLimits allows.
WithinLimits(i) ==
    /\ Completing(i) /\ i <= MaxRecords
    /\ \A j \in 1 .. i : ValidRecord(Records[j])
    /\ Handshake[1] = HANDSHAKE_TYPE_CLIENT_HELLO /\ Declared <= MaxHandshakeBytes

\* Besides, the last of these records ends within the wire limit, and the message
\* is whole and without a fault.
Faultless(i) ==
    /\ WithinLimits(i)
    /\ StartOf(i) + RECORD_HEADER_LEN + Records[i].len <= MaxWireBytes
    /\ SubSeq(Handshake, HANDSHAKE_HEADER_LEN + 1,
              HANDSHAKE_HEADER_LEN + Declared) = input.body
    /\ Sound(input.content)

\* A message without a fault and within the limits is not refused, for any reason.
FaultlessAccepted ==
    (\E i \in DOMAIN Records : Faultless(i)) =>
        hello \in {"reading", "Closed", "Io", "Named", "MissingSni"}

(* A name is used only when the message has exactly one host_name, wherever it
   stands, and it is that name, a valid one in lower case; a hello is without
   SNI only when it has none; and a message without a fault, in at most
   max_records valid records, with a body of at most max_handshake_bytes and
   within max_wire_bytes up to the end of its last record, is not refused:
   neither as TooLarge nor otherwise, wherever the records and the reads cut it
   (read_client_hello, parse_client_hello, parse_extensions and
   parse_server_name). *)
SniExact == NameExact /\ NoneMissed /\ FaultlessAccepted

(* A row naming the host exactly wins; otherwise the wildcard row one label
   up; otherwise there is no route, also when the store returns rows nobody
   asked for (select_route and RouteKey::wildcard_for). *)
MostSpecificRowWins ==
    route \notin {Unresolved, LookupFailed} =>
        LET covering == {i \in DOMAIN file : Covers(file[i].hostname)}
            exact == {i \in covering : file[i].hostname[1] # Star}
        IN  IF covering = {} THEN route = NotFound
            ELSE \E i \in (IF exact # {} THEN exact ELSE covering) :
                     route = BackendParse(file[i].backend)

\* The cyclic orders of a list.
Rotations(addrs) ==
    {[i \in DOMAIN addrs |-> addrs[IF i + r <= Len(addrs) THEN i + r ELSE i + r - Len(addrs)]] :
        r \in 0 .. Len(addrs) - 1}

(* The addresses of a backend are tried in list order from some place on, none
   twice, also when the counter wraps, wherever the deadline or the cancellation
   cuts it; connect_any fails only when every address has been tried once; and a
   backend that is handed to the proxy stage has got every byte the reader took
   from the client, those after the hello included (connect_and_replay,
   connect_any, Resolver::rotated). *)
EveryAddressTried ==
    LET u == upstream IN
    /\ u.pc # "idle" /\ u.choice # <<>> =>
           \E order \in Rotations(u.choice) : IsPrefix(u.tried, order)
    /\ u.pc = "failed" => Len(u.tried) = Len(u.choice)
    /\ u.pc = "replayed" => u.sent = taken
=============================================================================
