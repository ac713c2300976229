---------------------------- MODULE ClientHello ----------------------------
(***************************************************************************)
(* The pure parser of protocol/: the record scan and the reassembly of the *)
(* first handshake message are byte-exact; the body of that message is a   *)
(* structure (its vectors and the places where one can be cut short), so   *)
(* that the order of its checks is kept and its encoding is not.           *)
(***************************************************************************)
EXTENDS Integers, SequencesExt, Routing

CONSTANTS MaxHandshakeBytes, MaxRecords    \* HelloLimits

ASSUME HelloLimitsAssumption ==
    /\ MaxHandshakeBytes \in Nat \ {0}
    /\ MaxRecords \in Nat \ {0}

MAX_RECORD_PAYLOAD == 16384
RECORD_HEADER_LEN == 5
HANDSHAKE_HEADER_LEN == 4
CONTENT_TYPE_HANDSHAKE == 22
RECORD_VERSION_MAJOR == 3
HANDSHAKE_TYPE_CLIENT_HELLO == 1

MaxWireBytes ==
    HANDSHAKE_HEADER_LEN + MaxHandshakeBytes + MaxRecords * RECORD_HEADER_LEN

ParseErrors == {"Incomplete", "NotHandshake", "InvalidRecord", "NotClientHello",
                "TooLarge", "Malformed", "InvalidServerName"}

Take(s, n) == SubSeq(s, 1, IF n < Len(s) THEN n ELSE Len(s))

(***************************************************************************)
(* The record layer.                                                       *)
(***************************************************************************)

\* What the visible part of a record header is refused for, or "ok".
CheckPartialRecordHeader(header, first) ==
    IF Len(header) >= 1 /\ header[1] # CONTENT_TYPE_HANDSHAKE
    THEN IF first THEN "NotHandshake" ELSE "InvalidRecord"
    ELSE IF Len(header) >= 2 /\ header[2] # RECORD_VERSION_MAJOR THEN "InvalidRecord"
    ELSE "ok"

PayloadLen(header) == 256 * header[4] + header[5]

CheckRecordHeader(header, first) ==
    IF CheckPartialRecordHeader(header, first) # "ok"
    THEN CheckPartialRecordHeader(header, first)
    ELSE IF PayloadLen(header) \in 1 .. MAX_RECORD_PAYLOAD THEN "ok" ELSE "InvalidRecord"

\* Mutant: the bytes found in earlier records are forgotten.
KnownForgotten(known, payload) == Take(payload, HANDSHAKE_HEADER_LEN)

\* The handshake header's bytes known after one more (maybe partial) payload.
Known(known, payload) ==
    known \o Take(payload, HANDSHAKE_HEADER_LEN - Len(known))

HandshakeLen(known) == 65536 * known[2] + 256 * known[3] + known[4]

Observe(known) ==
    IF Len(known) >= 1 /\ known[1] # HANDSHAKE_TYPE_CLIENT_HELLO THEN "NotClientHello"
    ELSE IF Len(known) = HANDSHAKE_HEADER_LEN /\ HandshakeLen(known) > MaxHandshakeBytes
    THEN "TooLarge"
    ELSE "ok"

\* The state of the scan's loop; verdict is "scan" while it goes on.
ScanStart == [offset |-> 0, known |-> <<>>, payloads |-> <<>>, verdict |-> "scan"]

Complete(known, total) ==
    /\ Len(known) = HANDSHAKE_HEADER_LEN
    /\ total >= HANDSHAKE_HEADER_LEN + HandshakeLen(known)

\* One turn of the loop: the record at the scan's offset.
ScanRecord(buf, scan) ==
    LET header == Take(SubSeq(buf, scan.offset + 1, Len(buf)), RECORD_HEADER_LEN)
        first == scan.offset = 0
        start == scan.offset + RECORD_HEADER_LEN
        end == start + PayloadLen(header)
        available == Take(SubSeq(buf, start + 1, Len(buf)), end - start)
        known == Known(scan.known, available)
        payloads == Append(scan.payloads, available)
        Stop(v) == [scan EXCEPT !.verdict = v]
    IN  IF Len(header) < RECORD_HEADER_LEN
        THEN IF CheckPartialRecordHeader(header, first) # "ok"
             THEN Stop(CheckPartialRecordHeader(header, first))
             ELSE Stop("Incomplete")
        ELSE IF CheckRecordHeader(header, first) # "ok"
        THEN Stop(CheckRecordHeader(header, first))
        ELSE IF Len(scan.payloads) = MaxRecords THEN Stop("TooLarge")
        ELSE IF Observe(known) # "ok" THEN Stop(Observe(known))
        ELSE IF Len(available) < end - start THEN Stop("Incomplete")
        ELSE [offset |-> end, known |-> known, payloads |-> payloads,
              verdict |-> IF Complete(known, Len(FlattenSeq(payloads)))
                          THEN "ok" ELSE "scan"]

\* The loop ends at the latest at the header of record MaxRecords + 1.
ScanTurn(buf, scan) == IF scan.verdict = "scan" THEN ScanRecord(buf, scan) ELSE scan

Scans(buf) ==
    LET scan[n \in 0 .. MaxRecords + 1] ==
            IF n = 0 THEN ScanStart ELSE ScanTurn(buf, scan[n - 1])
    IN  scan

ScanRecords(buf) == Scans(buf)[MaxRecords + 1]

\* The body of the message, put together from the payloads.
Reassemble(scan) ==
    SubSeq(FlattenSeq(scan.payloads), HANDSHAKE_HEADER_LEN + 1,
           HANDSHAKE_HEADER_LEN + HandshakeLen(scan.known))

(***************************************************************************)
(* The body. A vector is a sequence of items; the item Cut stands for an   *)
(* item that the bytes left do not hold in full.                           *)
(***************************************************************************)

NoName == <<>>              \* Ok(None): no host_name
Cut == [kind |-> "cut"]
Failure(e) == [failure |-> e]
IsFailure(r) == "failure" \in DOMAIN r
Found(name) == [sni |-> name]

\* Mutant: a second host_name replaces the first.
ServerNameEntryLastWins(found, entry) ==
    IF IsFailure(found) THEN found
    ELSE IF entry.kind = "cut" \/ entry.name = NoName THEN Failure("Malformed")
    ELSE IF entry.kind # "host_name" THEN found
    ELSE IF HostnameParse(entry.name).ok THEN Found(HostnameParse(entry.name).labels)
    ELSE Failure("InvalidServerName")

\* One entry of the server_name_list, given what the entries before it gave.
ServerNameEntry(found, entry) ==
    IF IsFailure(found) THEN found
    ELSE IF entry.kind = "cut" \/ entry.name = NoName THEN Failure("Malformed")
    ELSE IF entry.kind # "host_name" THEN found
    ELSE IF found.sni # NoName THEN Failure("Malformed")
    ELSE IF HostnameParse(entry.name).ok THEN Found(HostnameParse(entry.name).labels)
    ELSE Failure("InvalidServerName")

\* What the first n entries give, for each n.
FoundInList(list) ==
    LET found[n \in 0 .. Len(list)] ==
            IF n = 0 THEN Found(NoName) ELSE ServerNameEntry(found[n - 1], list[n])
    IN  found

ParseServerName(data) ==
    IF data.list = <<>> \/ ~data.exact THEN Failure("Malformed")
    ELSE FoundInList(data.list)[Len(data.list)]

\* One extension: a later server_name replaces the name found so far (and is
\* then refused as a duplicate).
Extension(found, ext) ==
    IF IsFailure(found) THEN found
    ELSE IF ext.kind = "cut" THEN Failure("Malformed")
    ELSE IF ext.kind = "server_name" THEN ParseServerName(ext.data)
    ELSE found

\* What the first n extensions give, for each n.
FoundInExtensions(extensions) ==
    LET found[n \in 0 .. Len(extensions)] ==
            IF n = 0 THEN Found(NoName) ELSE Extension(found[n - 1], extensions[n])
    IN  found

ParseExtensions(extensions) ==
    LET found == FoundInExtensions(extensions)[Len(extensions)]
        duplicate == \E i, j \in 1 .. Len(extensions) :
                         i # j /\ extensions[i].kind = extensions[j].kind
    IN  IF ~IsFailure(found) /\ duplicate THEN Failure("Malformed") ELSE found

\* prefixOk stands for the fixed fields up to the compression methods, each
\* whole and in range; exact, for nothing following the extensions.
ParseClientHelloBody(body) ==
    IF ~body.prefixOk THEN Failure("Malformed")
    ELSE IF ~body.hasExtensions THEN Found(NoName)
    ELSE IF ~body.exact THEN Failure("Malformed")
    ELSE ParseExtensions(body.extensions)
=============================================================================
