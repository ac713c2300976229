--------------------------- MODULE IngressProofs ----------------------------
(***************************************************************************)
(* Proofs about Ingress, for every client, route file, address list and    *)
(* limit.                                                                  *)
(***************************************************************************)
EXTENDS Ingress, RoutingProofs

-----------------------------------------------------------------------------
(* The inductive invariant.                                                *)

\* The buffer: what was read fits, and the allocation is within the limit.
BufferInv ==
    /\ taken \in Nat /\ capacity \in Nat
    /\ CapacityWithinWireLimit

\* The stages follow each other: there is no route while the hello is read, and
\* no connection to a backend while there is no route.
StageInv ==
    /\ hello = "reading" => route = Unresolved
    /\ route = Unresolved => upstream = NotConnecting
    /\ upstream.pc = "idle" => upstream = NotConnecting

\* The addresses tried and the ones left make up one cyclic order of the list.
Follows(order, tried, left) ==
    /\ Len(order) = Len(tried) + Len(left)
    /\ \A i \in 1 .. Len(tried) : tried[i] = order[i]
    /\ \A i \in 1 .. Len(left) : left[i] = order[Len(tried) + i]

ConnectType(S) ==
    [pc : {"idle", "connecting", "connected", "failed", "replayed", "cut",
           "timedOut", "cancelled"},
     choice : Seq(S), left : Seq(S), tried : Seq(S), sent : Nat]

ConnectInv(u, bytes) ==
    /\ u.choice # <<>> => \E order \in Rotations(u.choice) : Follows(order, u.tried, u.left)
    /\ u.choice = <<>> => u.tried = <<>>
    /\ u.pc = "connecting" => u.left # <<>> /\ u.choice # <<>>
    /\ u.pc = "failed" => u.left = <<>>
    /\ u.pc = "replayed" => u.sent = bytes

UpstreamInv ==
    /\ upstream \in ConnectType(ToSet(upstream.choice))
    /\ ConnectInv(upstream, taken)

\* A route comes from the file in force and the name of the hello, and the rows
\* of the file and the names of the hello are what the program can be given.
RouteFrom(table) ==
    \E extra \in SUBSET DOMAIN table : route = SelectRoute(name, Hits(table, name) \cup extra, table)

RouteInv ==
    route \notin {Unresolved, LookupFailed} => hello = "Named" /\ RouteFrom(BuildRouteTable(file))

ContentTyped(content) ==
    /\ content.extensions \in Seq(ToSet(content.extensions))
    /\ \A e \in ToSet(content.extensions) : e.kind = "server_name" =>
          /\ e.data.list \in Seq(ToSet(e.data.list))
          /\ \A n \in ToSet(e.data.list) : n.kind = "host_name" => n.name \in Seq(ToSet(n.name))

InputInv ==
    /\ file \in Seq(ToSet(file)) /\ TableError(file) = Ok
    /\ \A i \in DOMAIN file : file[i].hostname \in Seq(ToSet(file[i].hostname))
    /\ ContentTyped(input.content)
    /\ Sendable(input.records) /\ input.wire = Wire(input.records)

IndInv == BufferInv /\ StageInv /\ UpstreamInv /\ RouteInv /\ InputInv

-----------------------------------------------------------------------------
(* Reading.                                                                *)

\* The limits of HelloLimits and READ_CHUNK are not zero.
LEMMA Limits == MaxWireBytes \in Nat \ {0} /\ ReadChunk \in Nat \ {0}
  BY HelloLimitsAssumption, IngressAssumption
     DEF MaxWireBytes, HANDSHAKE_HEADER_LEN, RECORD_HEADER_LEN

\* reserve_exact never asks for more than what is left of the wire limit.
LEMMA ReserveFits ==
    ASSUME BufferInv
    PROVE  Reserve \in Nat /\ taken <= Reserve /\ Reserve <= MaxWireBytes
  BY Limits DEF BufferInv, CapacityWithinWireLimit, Reserve, Greatest, Least

\* Whatever a read returns, the buffer stays within its allocation and that within the limit.
LEMMA BufferStep == ASSUME BufferInv, [Next]_vars PROVE BufferInv'
<1>1. CASE \E k \in 1 .. MaxWireBytes : Read(k)
  <2>1. PICK k \in 1 .. MaxWireBytes : Read(k)
    BY <1>1
  <2>2. k <= Least(Reserve, MaxWireBytes) - taken /\ taken' = taken + k /\ capacity' = Reserve
    BY <2>1 DEF Read
  <2> QED
    BY <2>2, ReserveFits, Limits DEF BufferInv, CapacityWithinWireLimit, Least
<1>2. CASE ReadEnds
  BY <1>2, ReserveFits DEF ReadEnds, BufferInv, CapacityWithinWireLimit
<1>3. CASE UNCHANGED <<taken, capacity>>
  BY <1>3 DEF BufferInv, CapacityWithinWireLimit
<1> QED
  BY <1>1, <1>2, <1>3
     DEF Next, ResolveRoute, LookupFails, ConnectIp, ResolveName, TryConnect, Replay, ConnectCut,
         ConnectLeaves, helloVars, vars

-----------------------------------------------------------------------------
(* Connecting.                                                             *)

\* Resolver::rotated returns a cyclic order of the list, wherever the counter is.
LEMMA RotatedIsRotation ==
    ASSUME NEW S, NEW addrs \in Seq(S), addrs # <<>>, NEW counter \in Nat
    PROVE  Rotated(addrs, counter) \in Rotations(addrs) /\ Rotated(addrs, counter) \in Seq(S)
           /\ Len(Rotated(addrs, counter)) = Len(addrs)
<1> DEFINE n == Len(addrs)
           start == counter % n
           front == SubSeq(addrs, start + 1, n)
           back == SubSeq(addrs, 1, start)
           order == [i \in DOMAIN addrs |-> addrs[IF i + start <= n THEN i + start ELSE i + start - n]]
<1>1. n \in Nat \ {0} /\ DOMAIN addrs = 1 .. n /\ \A i \in 1 .. n : addrs[i] \in S
  BY LenProperties, EmptySeq, ElementOfSeq
<1>2. start \in 0 .. n - 1
  <2> HIDE DEF n
  <2> QED
    BY <1>1
<1>3. Rotated(addrs, counter) = front \o back
  BY DEF Rotated
<1> HIDE DEF n, start
<1>4. front \in Seq(S) /\ Len(front) = n - start /\ \A i \in 1 .. n - start : front[i] = addrs[start + i]
  <2>1. start + 1 \in Int /\ n \in Int /\ \A i \in start + 1 .. n : addrs[i] \in S
    BY <1>1, <1>2
  <2>2. /\ front \in Seq(S)
        /\ Len(front) = IF start + 1 <= n THEN n - (start + 1) + 1 ELSE 0
        /\ \A i \in 1 .. n - (start + 1) + 1 : front[i] = addrs[start + 1 + i - 1]
    BY <2>1, SubSeqProperties
  <2> HIDE DEF front
  <2>3. n - (start + 1) + 1 = n - start /\ \A i \in 1 .. n - start : start + 1 + i - 1 = start + i
    BY <1>1, <1>2
  <2> QED
    BY <1>1, <1>2, <2>2, <2>3
<1>5. back \in Seq(S) /\ Len(back) = start /\ \A i \in 1 .. start : back[i] = addrs[i]
  <2>1. start \in Int /\ 1 \in Int /\ \A i \in 1 .. start : addrs[i] \in S
    BY <1>1, <1>2
  <2>2. /\ back \in Seq(S)
        /\ Len(back) = IF 1 <= start THEN start - 1 + 1 ELSE 0
        /\ \A i \in 1 .. start - 1 + 1 : back[i] = addrs[1 + i - 1]
    BY <2>1, SubSeqProperties
  <2> HIDE DEF back
  <2>3. start - 1 + 1 = start /\ \A i \in 1 .. start : 1 + i - 1 = i
    BY <1>2
  <2> QED
    BY <1>1, <1>2, <2>2, <2>3
<1> HIDE DEF front, back
<1>6. /\ front \o back \in Seq(S) /\ Len(front \o back) = n
      /\ \A i \in 1 .. n : (front \o back)[i] = IF i <= n - start THEN front[i] ELSE back[i - (n - start)]
  <2>1. /\ front \o back \in Seq(S) /\ Len(front \o back) = Len(front) + Len(back)
        /\ \A i \in 1 .. Len(front) + Len(back) :
               (front \o back)[i] = IF i <= Len(front) THEN front[i] ELSE back[i - Len(front)]
    BY <1>4, <1>5, ConcatProperties
  <2>2. Len(front) + Len(back) = n
    BY <1>1, <1>2, <1>4, <1>5
  <2> QED
    BY <1>4, <2>1, <2>2
<1>7. \A i \in 1 .. n : (front \o back)[i] = order[i]
  <2> SUFFICES ASSUME NEW i \in 1 .. n PROVE (front \o back)[i] = order[i]
    OBVIOUS
  <2>1. CASE i <= n - start
    <3>1. i \in 1 .. n - start /\ i + start <= n /\ start + i = i + start
      BY <1>1, <1>2, <2>1
    <3> QED
      BY <1>1, <1>4, <1>6, <2>1, <3>1
  <2>2. CASE ~(i <= n - start)
    <3>1. i - (n - start) \in 1 .. start /\ ~(i + start <= n) /\ i - (n - start) = i + start - n
      BY <1>1, <1>2, <2>2
    <3> QED
      BY <1>1, <1>5, <1>6, <2>2, <3>1
  <2> QED
    BY <2>1, <2>2
<1>8. order \in Seq(S) /\ Len(order) = n
  <2>1. \A i \in 1 .. n : (IF i + start <= n THEN i + start ELSE i + start - n) \in 1 .. n
    BY <1>1, <1>2
  <2>2. order \in [1 .. n -> S]
    BY <1>1, <2>1
  <2> HIDE DEF order
  <2> QED
    BY <1>1, <2>2
<1>9. front \o back = order
  <2> HIDE DEF order
  <2> QED
    BY <1>6, <1>7, <1>8, SeqEqual
<1>10. order \in Rotations(addrs)
  BY <1>1, <1>2 DEF Rotations, n
<1> QED
  BY <1>3, <1>6, <1>9, <1>10 DEF n

\* A cyclic order of a list is as long as the list.
LEMMA RotationLength ==
    ASSUME NEW addrs, Len(addrs) \in Nat, DOMAIN addrs = 1 .. Len(addrs), NEW order \in Rotations(addrs)
    PROVE  order \in Seq(Range(order)) /\ Len(order) = Len(addrs)
<1> DEFINE n == Len(addrs)
<1>1. DOMAIN order = 1 .. n /\ n \in Nat
  BY DEF Rotations
<1>2. order = [i \in 1 .. n |-> order[i]]
  BY <1>1 DEF Rotations
<1> HIDE DEF n
<1>3. order \in [1 .. n -> Range(order)]
  BY <1>1, <1>2 DEF Range
<1>4. order \in Seq(Range(order)) /\ Len(order) = n
  BY <1>1, <1>3
<1> QED
  BY <1>4 DEF n

\* The resolver's list is taken up: nothing is tried yet.
LEMMA BeginsToConnect ==
    ASSUME NEW S, NEW addrs \in Seq(S), addrs # <<>>, NEW order \in Rotations(addrs), order \in Seq(S),
           Len(order) = Len(addrs), S = ToSet(addrs),
           upstream = NotConnecting,
           upstream' = [upstream EXCEPT !.pc = "connecting", !.choice = addrs, !.left = order]
    PROVE  UpstreamInv'
<1> DEFINE u == [pc |-> "connecting", choice |-> addrs, left |-> order, tried |-> <<>>, sent |-> 0]
<1>1. upstream' = u
  BY DEF NotConnecting
<1>2. u \in ConnectType(S) /\ u.choice = addrs
  BY EmptySeq DEF ConnectType
<1>3. Len(addrs) \in Nat \ {0}
  BY EmptySeq
<1>4. Follows(order, u.tried, u.left)
  BY <1>3, EmptySeq DEF Follows
<1>5. u.left # <<>>
  BY <1>3, EmptySeq
<1>6. ConnectInv(u, taken')
  BY <1>4, <1>5 DEF ConnectInv
<1> QED
  BY <1>1, <1>2, <1>6 DEF UpstreamInv

\* The order is followed when the first address left becomes the last one tried.
LEMMA FollowsOn ==
    ASSUME NEW S, NEW order, NEW tried \in Seq(S), NEW left \in Seq(S), left # <<>>,
           Follows(order, tried, left)
    PROVE  /\ Follows(order, Append(tried, left[1]), Tail(left))
           /\ Append(tried, left[1]) \in Seq(S) /\ Tail(left) \in Seq(S)
           /\ Len(left) \in Nat \ {0} /\ Len(Tail(left)) = Len(left) - 1
<1> DEFINE m == Len(tried)
           n == Len(left)
           t == Append(tried, left[1])
           l == Tail(left)
<1>1. m \in Nat /\ n \in Nat \ {0}
  BY LenProperties, EmptySeq
<1>2. left[1] \in S
  <2>1. 1 \in 1 .. Len(left)
    BY <1>1
  <2> QED
    BY <2>1, ElementOfSeq
<1>3. l \in Seq(S) /\ Len(l) = n - 1 /\ \A i \in 1 .. n - 1 : l[i] = left[i + 1]
  BY HeadTailProperties
<1>4. t \in Seq(S) /\ Len(t) = m + 1 /\ t[m + 1] = left[1] /\ \A i \in 1 .. m : t[i] = tried[i]
  <2> DEFINE x == left[1]
  <2>1. x \in S
    BY <1>2
  <2> HIDE DEF x
  <2>2. Append(tried, x) \in Seq(S) /\ Len(Append(tried, x)) = Len(tried) + 1
        /\ Append(tried, x)[Len(tried) + 1] = x
        /\ \A i \in 1 .. Len(tried) : Append(tried, x)[i] = tried[i]
    BY <2>1, AppendProperties
  <2> QED
    BY <2>2 DEF x
<1>5. /\ Len(order) = m + n /\ \A i \in 1 .. m : tried[i] = order[i]
      /\ \A i \in 1 .. n : left[i] = order[m + i]
  BY DEF Follows
<1> HIDE DEF m, n, t, l
<1>6. Len(order) = Len(t) + Len(l)
  BY <1>1, <1>3, <1>4, <1>5
<1>7. \A i \in 1 .. Len(t) : t[i] = order[i]
  <2>1. left[1] = order[m + 1]
    <3>1. 1 \in 1 .. n
      BY <1>1
    <3> QED
      BY <1>5, <3>1
  <2>2. \A i \in 1 .. m + 1 : i = m + 1 \/ i \in 1 .. m
    BY <1>1
  <2> QED
    BY <1>4, <1>5, <2>1, <2>2
<1>8. \A i \in 1 .. Len(l) : l[i] = order[Len(t) + i]
  <2> SUFFICES ASSUME NEW i \in 1 .. n - 1 PROVE l[i] = order[m + 1 + i]
    BY <1>3, <1>4
  <2>1. i + 1 \in 1 .. n /\ m + (i + 1) = m + 1 + i
    BY <1>1
  <2> QED
    BY <1>3, <1>5, <2>1
<1>9. Follows(order, t, l)
  BY <1>6, <1>7, <1>8 DEF Follows
<1> QED
  BY <1>1, <1>3, <1>4, <1>9 DEF t, l, n

\* connect_any moves an address from the ones left to the ones tried.
LEMMA TryKeeps == ASSUME UpstreamInv, TryConnect PROVE UpstreamInv'
<1> DEFINE u == upstream
           S == ToSet(u.choice)
<1>1. PICK pc \in {"connected", IF Len(u.left) = 1 THEN "failed" ELSE "connecting"} :
          upstream' = [u EXCEPT !.pc = pc, !.left = Tail(u.left), !.tried = Append(u.tried, u.left[1])]
  BY DEF TryConnect
<1>2. u \in ConnectType(S) /\ u.left # <<>> /\ u.choice # <<>> /\ u.pc = "connecting"
  BY DEF UpstreamInv, ConnectInv, TryConnect
<1>3. u.left \in Seq(S) /\ u.tried \in Seq(S) /\ u.choice \in Seq(S) /\ u.sent \in Nat
  BY <1>2 DEF ConnectType
<1>4. PICK order \in Rotations(u.choice) : Follows(order, u.tried, u.left)
  BY <1>2 DEF UpstreamInv, ConnectInv
<1> DEFINE left == Tail(u.left)
           tried == Append(u.tried, u.left[1])
           v == [u EXCEPT !.pc = pc, !.left = left, !.tried = tried]
<1>5. /\ Follows(order, tried, left) /\ left \in Seq(S) /\ tried \in Seq(S)
      /\ Len(u.left) \in Nat \ {0} /\ Len(left) = Len(u.left) - 1
  BY <1>2, <1>3, <1>4, FollowsOn
<1> HIDE DEF left, tried
<1>6. /\ v \in ConnectType(S) /\ v.pc = pc /\ v.left = left /\ v.tried = tried
      /\ v.choice = u.choice /\ v.sent = u.sent
  BY <1>2, <1>5 DEF ConnectType
<1> HIDE DEF v
<1>7. /\ pc = "connecting" => left # <<>>
      /\ pc = "failed" => left = <<>>
      /\ pc \notin {"replayed", "idle"}
  <2>1. pc = "connecting" => Len(left) # 0
    BY <1>5
  <2>2. pc = "failed" => Len(left) = 0
    BY <1>5
  <2> QED
    BY <1>5, <2>1, <2>2, EmptySeq
<1>8. upstream' = v
  BY <1>1 DEF v, left, tried
<1>9. ConnectInv(v, taken')
  BY <1>2, <1>4, <1>5, <1>6, <1>7 DEF ConnectInv
<1> QED
  BY <1>6, <1>8, <1>9 DEF UpstreamInv

\* write_all writes bytes that were read, and is done when all are.
LEMMA ReplayKeeps == ASSUME BufferInv, UpstreamInv, Replay PROVE UpstreamInv'
<1> DEFINE u == upstream
           S == ToSet(u.choice)
<1>1. u \in ConnectType(S) /\ u.pc = "connected" /\ taken' = taken /\ taken \in Nat /\ u.sent \in Nat
  BY DEF UpstreamInv, BufferInv, Replay, ConnectLeaves, helloVars, ConnectType
<1>2. PICK n \in Nat, pc \in {"connected", "replayed", "cut"} :
          /\ upstream' = [u EXCEPT !.sent = n, !.pc = pc]
          /\ pc = "replayed" => n = taken
  <2>1. CASE \E n \in u.sent + 1 .. taken :
                 upstream' = [u EXCEPT !.sent = n, !.pc = IF n = taken THEN "replayed" ELSE u.pc]
    <3>1. PICK n \in u.sent + 1 .. taken :
              upstream' = [u EXCEPT !.sent = n, !.pc = IF n = taken THEN "replayed" ELSE u.pc]
      BY <2>1
    <3>2. n \in Nat
      BY <1>1
    <3>3. CASE n = taken
      <4>1. upstream' = [u EXCEPT !.sent = n, !.pc = "replayed"]
        BY <3>1, <3>3
      <4> QED
        BY <3>2, <3>3, <4>1
    <3>4. CASE n # taken
      <4>1. upstream' = [u EXCEPT !.sent = n, !.pc = "connected"]
        BY <1>1, <3>1, <3>4
      <4> QED
        BY <3>2, <4>1
    <3> QED
      BY <3>3, <3>4
  <2>2. CASE upstream' = [u EXCEPT !.pc = "cut"]
    <3>1. upstream' = [u EXCEPT !.sent = u.sent, !.pc = "cut"]
      BY <1>1, <2>2 DEF ConnectType
    <3> QED
      BY <1>1, <3>1
  <2> QED
    BY <2>1, <2>2 DEF Replay
<1> DEFINE v == [u EXCEPT !.sent = n, !.pc = pc]
<1>3. /\ v \in ConnectType(S) /\ v.pc = pc /\ v.sent = n
      /\ v.choice = u.choice /\ v.left = u.left /\ v.tried = u.tried
  BY <1>1 DEF ConnectType
<1> HIDE DEF v
<1>4. v.choice # <<>> => \E order \in Rotations(v.choice) : Follows(order, v.tried, v.left)
  BY <1>3 DEF UpstreamInv, ConnectInv
<1>5. ConnectInv(v, taken')
  BY <1>1, <1>2, <1>3, <1>4 DEF UpstreamInv, ConnectInv
<1>6. upstream' = v
  BY <1>2 DEF v
<1> QED
  BY <1>3, <1>5, <1>6 DEF UpstreamInv

\* An address alone is its own only order.
LEMMA OneAddress ==
    ASSUME NEW x
    PROVE  <<x>> \in Rotations(<<x>>) /\ <<x>> \in Seq({x}) /\ ToSet(<<x>>) = {x} /\ Len(<<x>>) = 1
<1>1. <<x>> \in Seq({x}) /\ Len(<<x>>) = 1 /\ DOMAIN <<x>> = 1 .. 1 /\ <<x>>[1] = x
  OBVIOUS
<1>2. 1 .. 1 = {1}
  OBVIOUS
<1>3. ToSet(<<x>>) = {x}
  BY <1>1, <1>2 DEF ToSet
<1> DEFINE addrs == <<x>>
           order == [i \in DOMAIN addrs |-> addrs[IF i + 0 <= Len(addrs) THEN i + 0 ELSE i + 0 - Len(addrs)]]
<1>4. order \in Rotations(addrs)
  <2>1. 0 \in 0 .. Len(addrs) - 1
    BY <1>1
  <2> HIDE DEF addrs
  <2> QED
    BY <2>1 DEF Rotations
<1>5. order = addrs
  <2>1. order \in [1 .. 1 -> {x}]
    BY <1>1, <1>2
  <2>2. addrs \in [1 .. 1 -> {x}]
    BY <1>1, <1>2
  <2> HIDE DEF order, addrs
  <2> QED
    BY <2>1, <2>2
<1> QED
  BY <1>1, <1>3, <1>4, <1>5

\* A connection that has a route and has not begun begins with what it was given.
LEMMA ConnectIpKeeps == ASSUME StageInv, ConnectIp PROVE UpstreamInv'
<1> DEFINE addrs == <<route.host>>
<1>1. upstream = NotConnecting
  BY DEF StageInv, ConnectIp
<1>2. upstream' = [upstream EXCEPT !.pc = "connecting", !.choice = addrs, !.left = addrs]
  BY DEF ConnectIp
<1>3. addrs \in Rotations(addrs) /\ addrs \in Seq({route.host}) /\ ToSet(addrs) = {route.host}
      /\ Len(addrs) = 1
  BY OneAddress
<1>4. addrs # <<>>
  OBVIOUS
<1> HIDE DEF addrs
<1> QED
  BY <1>1, <1>2, <1>3, <1>4, BeginsToConnect

\* The resolver's answer is tried from wherever the shared counter is; a failed
\* resolution leaves nothing to try.
LEMMA ResolveNameKeeps == ASSUME StageInv, ResolveName PROVE UpstreamInv'
<1>1. upstream = NotConnecting
  BY DEF StageInv, ResolveName
<1>2. CASE \E addrs \in Answers, counter \in 0 .. UsizeRange - 1 :
              upstream' = [upstream EXCEPT !.pc = "connecting", !.choice = addrs,
                                           !.left = Rotated(addrs, counter)]
  <2>1. PICK addrs \in Answers, counter \in 0 .. UsizeRange - 1 :
            upstream' = [upstream EXCEPT !.pc = "connecting", !.choice = addrs,
                                         !.left = Rotated(addrs, counter)]
    BY <1>2
  <2>2. counter \in Nat
    BY IngressAssumption
  <2>3. addrs \in Seq(ToSet(addrs)) /\ addrs # <<>>
    BY IngressAssumption
  <2>4. /\ Rotated(addrs, counter) \in Rotations(addrs) /\ Rotated(addrs, counter) \in Seq(ToSet(addrs))
        /\ Len(Rotated(addrs, counter)) = Len(addrs)
    BY <2>2, <2>3, RotatedIsRotation
  <2> QED
    BY <1>1, <2>1, <2>3, <2>4, BeginsToConnect
<1>3. CASE upstream' = [upstream EXCEPT !.pc = "failed"]
  <2> DEFINE v == [pc |-> "failed", choice |-> <<>>, left |-> <<>>, tried |-> <<>>, sent |-> 0]
  <2>1. upstream' = v
    BY <1>1, <1>3 DEF NotConnecting
  <2>2. v \in ConnectType(ToSet(v.choice))
    BY EmptySeq DEF ConnectType
  <2>3. ConnectInv(v, taken')
    BY DEF ConnectInv
  <2> QED
    BY <2>1, <2>2, <2>3 DEF UpstreamInv
<1> QED
  BY <1>2, <1>3 DEF ResolveName

\* The deadline or the cancellation leaves the addresses as they are.
LEMMA CutKeeps == ASSUME UpstreamInv, ConnectCut PROVE UpstreamInv'
<1>1. PICK pc \in {"timedOut", "cancelled"} : upstream' = [upstream EXCEPT !.pc = pc]
  BY DEF ConnectCut
<1> DEFINE S == ToSet(upstream.choice)
<1>2. upstream \in ConnectType(S) /\ taken' = taken
  BY DEF UpstreamInv, ConnectCut, ConnectLeaves, helloVars
<1> HIDE DEF S
<1>3. /\ upstream' \in ConnectType(S) /\ upstream'.pc = pc
      /\ upstream'.choice = upstream.choice /\ upstream'.left = upstream.left
      /\ upstream'.tried = upstream.tried /\ upstream'.sent = upstream.sent
  BY <1>1, <1>2 DEF ConnectType
<1>4. ConnectInv(upstream', taken')
  BY <1>2, <1>3 DEF UpstreamInv, ConnectInv
<1>5. ToSet(upstream'.choice) = S
  BY <1>3 DEF S
<1> QED
  BY <1>3, <1>4, <1>5 DEF UpstreamInv

\* Every step keeps what connect_and_replay relies on; bytes are read only while
\* it has not begun.
LEMMA UpstreamStep == ASSUME IndInv, [Next]_vars PROVE UpstreamInv'
<1>1. CASE ConnectIp
  BY <1>1, ConnectIpKeeps DEF IndInv
<1>2. CASE ResolveName
  BY <1>2, ResolveNameKeeps DEF IndInv
<1>3. CASE TryConnect
  BY <1>3, TryKeeps DEF IndInv
<1>4. CASE Replay
  BY <1>4, ReplayKeeps DEF IndInv
<1>5. CASE UNCHANGED upstream /\ (taken' = taken \/ upstream = NotConnecting)
  <2>1. upstream.pc = "replayed" => taken' = taken
    BY <1>5 DEF NotConnecting
  <2> QED
    BY <1>5, <2>1 DEF IndInv, UpstreamInv, ConnectInv
<1>6. CASE \E k \in 1 .. MaxWireBytes : Read(k)
  BY <1>5, <1>6 DEF Read, IndInv, StageInv
<1>7. CASE ReadEnds \/ ResolveRoute \/ LookupFails \/ UNCHANGED vars
  BY <1>5, <1>7 DEF ReadEnds, ResolveRoute, LookupFails, helloVars, vars
<1>8. CASE ConnectCut
  BY <1>8, CutKeeps DEF IndInv
<1> QED
  BY <1>1, <1>2, <1>3, <1>4, <1>6, <1>7, <1>8 DEF Next

\* The stages are left in their order.
LEMMA StageStep == ASSUME IndInv, [Next]_vars PROVE StageInv'
<1> USE DEF IndInv, StageInv
<1>1. CASE \E k \in 1 .. MaxWireBytes : Read(k)
  BY <1>1 DEF Read
<1>2. CASE ReadEnds
  BY <1>2 DEF ReadEnds
<1>3. CASE ResolveRoute \/ LookupFails
  BY <1>3 DEF ResolveRoute, LookupFails, helloVars
<1>4. ASSUME route.kind \in {"Ip", "Dns"} \/ upstream.pc # "idle", upstream'.pc # "idle",
             UNCHANGED <<hello, route>>
      PROVE  StageInv'
  <2>1. route # Unresolved
    BY <1>4 DEF Unresolved, NoBackend, NotConnecting
  <2> QED
    BY <1>4, <2>1
<1>5. CASE ConnectIp \/ ResolveName
  <2>1. upstream = NotConnecting
    BY <1>5 DEF ConnectIp, ResolveName
  <2>2. upstream'.pc # "idle"
    BY <1>5, <2>1 DEF ConnectIp, ResolveName, NotConnecting
  <2> QED
    BY <1>4, <1>5, <2>2 DEF ConnectIp, ResolveName, ConnectLeaves, helloVars
<1>6. CASE TryConnect \/ Replay
  <2>1. upstream \in ConnectType(ToSet(upstream.choice)) /\ upstream.pc # "idle"
    BY <1>6 DEF UpstreamInv, TryConnect, Replay
  <2>2. upstream'.pc # "idle"
    BY <1>6, <2>1 DEF TryConnect, Replay, ConnectType
  <2> QED
    BY <1>4, <1>6, <2>1, <2>2 DEF TryConnect, Replay, ConnectLeaves, helloVars
<1>7. CASE UNCHANGED vars
  BY <1>7 DEF vars
<1>8. CASE ConnectCut
  <2>1. upstream'.pc # "idle"
    BY <1>8 DEF UpstreamInv, ConnectType, ConnectCut
  <2> QED
    BY <1>4, <1>8, <2>1 DEF ConnectCut, ConnectLeaves, helloVars
<1> QED
  BY <1>1, <1>2, <1>3, <1>5, <1>6, <1>7, <1>8 DEF Next

\* A route is chosen once, from the name and the file, which then stay.
LEMMA RouteStep == ASSUME IndInv, [Next]_vars PROVE RouteInv'
<1> USE DEF IndInv
<1>1. CASE UNCHANGED <<route, hello, name, file>>
  <2>1. RouteFrom(BuildRouteTable(file)) <=> RouteFrom(BuildRouteTable(file))'
    BY <1>1 DEF RouteFrom
  <2> QED
    BY <1>1, <2>1 DEF RouteInv
<1>2. CASE route' \in {Unresolved, LookupFailed}
  BY <1>2 DEF RouteInv, Unresolved, LookupFailed, NoBackend
<1>3. CASE ResolveRoute
  <2>1. hello' = "Named" /\ name' = name /\ file' = file
    BY <1>3 DEF ResolveRoute, helloVars
  <2>2. RouteFrom(BuildRouteTable(file))'
    BY <1>3, <2>1 DEF ResolveRoute, RouteFrom
  <2> QED
    BY <2>1, <2>2 DEF RouteInv
<1>4. CASE (\E k \in 1 .. MaxWireBytes : Read(k)) \/ ReadEnds \/ LookupFails
  <2>1. route' \in {Unresolved, LookupFailed}
    BY <1>4 DEF Read, ReadEnds, LookupFails, StageInv
  <2> QED
    BY <1>2, <2>1
<1>5. CASE ConnectIp \/ ResolveName \/ TryConnect \/ Replay \/ ConnectCut \/ UNCHANGED vars
  BY <1>1, <1>5 DEF ConnectIp, ResolveName, TryConnect, Replay, ConnectCut, ConnectLeaves,
     helloVars, vars
<1> QED
  BY <1>3, <1>4, <1>5 DEF Next

\* The client's bytes and the route file stay what they are.
LEMMA InputStep == ASSUME InputInv, [Next]_vars PROVE InputInv'
<1>1. UNCHANGED <<input, file>>
  BY DEF Next, Read, ReadEnds, ResolveRoute, LookupFails, ConnectIp, ResolveName, TryConnect,
     Replay, ConnectCut, ConnectLeaves, helloVars, vars
<1> QED
  BY <1>1 DEF InputInv

\* The invariant holds before the first byte.
LEMMA InitInd == ASSUME Init PROVE IndInv
<1>1. BufferInv
  BY Limits DEF Init, BufferInv, CapacityWithinWireLimit, Least
<1>2. StageInv
  BY DEF Init, StageInv
<1>3. UpstreamInv
  <2>1. NotConnecting \in ConnectType(ToSet(NotConnecting.choice))
    BY EmptySeq DEF ConnectType, NotConnecting
  <2>2. ConnectInv(NotConnecting, taken)
    BY DEF ConnectInv, NotConnecting
  <2> QED
    BY <2>1, <2>2 DEF Init, UpstreamInv
<1>4. RouteInv
  BY DEF Init, RouteInv
<1>5. InputInv
  <2>1. PICK c \in Inputs :
            /\ input = [records |-> c.records, body |-> c.body,
                        content |-> c.content, wire |-> Wire(c.records)]
            /\ TableError(c.file) = Ok
            /\ file = c.file
    BY DEF Init
  <2>2. /\ input.content = c.content /\ input.records = c.records
        /\ input.wire = Wire(c.records) /\ Sendable(c.records)
    BY <2>1, IngressAssumption
  <2>3. ContentTyped(c.content)
    BY IngressAssumption DEF ContentTyped
  <2> QED
    BY <2>1, <2>2, <2>3, IngressAssumption DEF InputInv
<1> QED
  BY <1>1, <1>2, <1>3, <1>4, <1>5 DEF IndInv

(* Whatever the client sends and however it is cut into reads, the buffer, the
   order of the stages and the addresses tried keep their invariants. *)
THEOREM IngressInvariant == Spec => []IndInv
<1>1. Init => IndInv
  BY InitInd
<1>2. IndInv /\ [Next]_vars => IndInv'
  BY BufferStep, StageStep, UpstreamStep, RouteStep, InputStep DEF IndInv
<1> QED
  BY <1>1, <1>2, PTL DEF Spec

(* read_client_hello: for every wire limit and every chunk size, a client cannot
   make the buffer's allocation exceed the limit. *)
THEOREM AllocationIsBounded == Spec => []CapacityWithinWireLimit
<1>1. IndInv => CapacityWithinWireLimit
  BY DEF IndInv, BufferInv
<1> QED
  BY <1>1, IngressInvariant, PTL

\* The invariant says what connect_and_replay promises.
LEMMA TriedInOrder == ASSUME IndInv PROVE EveryAddressTried
<1> DEFINE u == upstream
           S == ToSet(u.choice)
<1>1. /\ u \in ConnectType(S) /\ ConnectInv(u, taken)
  BY DEF IndInv, UpstreamInv
<1>2. u.choice \in Seq(S) /\ u.tried \in Seq(S) /\ u.left \in Seq(S)
  BY <1>1 DEF ConnectType
<1>3. ASSUME NEW order \in Rotations(u.choice), Follows(order, u.tried, u.left)
      PROVE  /\ IsPrefix(u.tried, order)
             /\ u.left = <<>> => Len(u.tried) = Len(u.choice)
  <2>1. Len(u.choice) \in Nat /\ DOMAIN u.choice = 1 .. Len(u.choice)
    BY <1>2, LenProperties
  <2>2. order \in Seq(Range(order)) /\ Len(order) = Len(u.choice)
    BY <2>1, RotationLength
  <2> DEFINE t == u.tried
             l == u.left
  <2>3. t \in Seq(S) /\ Len(t) \in Nat /\ Len(l) \in Nat
    BY <1>2, LenProperties
  <2>4. Len(order) = Len(t) + Len(l) /\ \A i \in 1 .. Len(t) : t[i] = order[i]
    BY <1>3 DEF Follows
  <2>5. u.left = <<>> => Len(l) = 0
    BY EmptySeq
  <2> HIDE DEF t, l
  <2>6. Len(t) <= Len(order)
    BY <2>3, <2>4
  <2>7. SubSeq(t, 1, Len(t)) = SubSeq(order, 1, Len(t))
    <3> DEFINE n == Len(t)
               a == SubSeq(t, 1, n)
               b == SubSeq(order, 1, n)
    <3>1. a \in Seq(S) /\ Len(a) = n /\ \A i \in 1 .. n : a[i] = t[i]
      BY <2>3
    <3>2. b \in Seq(Range(order)) /\ Len(b) = n /\ \A i \in 1 .. n : b[i] = order[i]
      BY <2>2, <2>3, <2>6
    <3> HIDE DEF a, b, n
    <3>3. a \in Seq(S \cup Range(order)) /\ b \in Seq(S \cup Range(order))
      BY <3>1, <3>2
    <3>4. \A i \in 1 .. Len(a) : a[i] = b[i]
      BY <2>4, <3>1, <3>2 DEF n
    <3>5. a = b
      BY <3>1, <3>2, <3>3, <3>4, SeqEqual
    <3> QED
      BY <3>5 DEF a, b, n
  <2> QED
    BY <2>2, <2>3, <2>4, <2>5, <2>6, <2>7 DEF IsPrefix, t
<1>4. CASE u.choice = <<>>
  BY <1>1, <1>4 DEF EveryAddressTried, ConnectInv
<1>5. CASE u.choice # <<>>
  <2>1. PICK order \in Rotations(u.choice) : Follows(order, u.tried, u.left)
    BY <1>1, <1>5 DEF ConnectInv
  <2> QED
    BY <1>1, <1>3, <1>5, <2>1 DEF EveryAddressTried, ConnectInv
<1> QED
  BY <1>4, <1>5

(* connect_any and Resolver::rotated: for every list of addresses and every value
   of the counter, the addresses are tried in list order from some place on,
   wherever upstream_timeout or the cancellation cuts it; connect_any fails only
   when all have been tried; and the backend that is proxied to has got every
   byte that was read. *)
THEOREM AddressesAreTried == Spec => []EveryAddressTried
<1>1. IndInv => EveryAddressTried
  BY TriedInOrder
<1> QED
  BY <1>1, IngressInvariant, PTL

-----------------------------------------------------------------------------
(* Routing.                                                                *)

\* Lowercasing a name keeps its labels apart.
LEMMA LowerIsSeq ==
    ASSUME NEW S, NEW raw \in Seq(S)
    PROVE  /\ Lower(raw) \in Seq({LowerOf[x] : x \in S})
           /\ Len(Lower(raw)) = Len(raw)
           /\ \A i \in 1 .. Len(raw) : Lower(raw)[i] = LowerOf[raw[i]]
<1> DEFINE T == {LowerOf[x] : x \in S}
           l == Lower(raw)
           n == Len(raw)
<1>1. n \in Nat /\ DOMAIN raw = 1 .. n /\ \A i \in 1 .. n : raw[i] \in S
  BY LenProperties, ElementOfSeq
<1>2. l = [i \in 1 .. n |-> LowerOf[raw[i]]]
  BY <1>1 DEF Lower
<1>3. l \in [1 .. n -> T]
  BY <1>1, <1>2
<1> HIDE DEF l, n, T
<1>4. l \in Seq(T) /\ Len(l) = n
  BY <1>1, <1>3
<1> QED
  BY <1>2, <1>4 DEF l, n, T

\* The rest of a lowercased name is the lowercased rest.
LEMMA LowerTail ==
    ASSUME NEW S, NEW raw \in Seq(S), raw # <<>>
    PROVE  Lower(Tail(raw)) = Tail(Lower(raw)) /\ Len(Tail(raw)) = Len(raw) - 1
<1> DEFINE T == {LowerOf[x] : x \in S}
           rest == Tail(raw)
           l == Lower(raw)
           a == Lower(rest)
           b == Tail(l)
           n == Len(raw)
<1>1. n \in Nat \ {0}
  BY EmptySeq, LenProperties
<1>2. rest \in Seq(S) /\ Len(rest) = n - 1 /\ \A i \in 1 .. n - 1 : rest[i] = raw[i + 1]
  BY HeadTailProperties
<1>3. l \in Seq(T) /\ Len(l) = n /\ \A i \in 1 .. n : l[i] = LowerOf[raw[i]]
  BY LowerIsSeq
<1>4. a \in Seq(T) /\ Len(a) = Len(rest) /\ \A i \in 1 .. Len(rest) : a[i] = LowerOf[rest[i]]
  <2> HIDE DEF rest
  <2> QED
    BY <1>2, LowerIsSeq
<1>5. b \in Seq(T) /\ Len(b) = n - 1 /\ \A i \in 1 .. n - 1 : b[i] = l[i + 1]
  <2> HIDE DEF l
  <2>1. l # <<>>
    BY <1>1, <1>3, EmptySeq
  <2> QED
    BY <1>3, <2>1, HeadTailProperties
<1> HIDE DEF T, rest, l, a, b, n
<1>6. \A i \in 1 .. n - 1 : a[i] = b[i]
  <2> SUFFICES ASSUME NEW i \in 1 .. n - 1 PROVE a[i] = b[i]
    OBVIOUS
  <2>1. i + 1 \in 1 .. n
    BY <1>1
  <2> QED
    BY <1>2, <1>3, <1>4, <1>5, <2>1
<1>7. a = b
  BY <1>2, <1>4, <1>5, <1>6, SeqEqual
<1> QED
  BY <1>2, <1>7 DEF a, b, rest, l, n

\* Exact and wildcard keys are never the same.
LEMMA KeysDiffer ==
    ASSUME NEW a, NEW b
    PROVE  /\ ExactKey(a) # WildcardKey(b)
           /\ ExactKey(a) = ExactKey(b) <=> a = b
           /\ WildcardKey(a) = WildcardKey(b) <=> a = b
  BY DEF ExactKey, WildcardKey

\* A row covers a name if and only if its key is one of the name's candidates:
\* the exact key, or the wildcard key when the name has three labels or more.
LEMMA CoversIsCandidate ==
    ASSUME NEW S, NEW h \in Seq(S), KeyParses(h), NEW T, name \in Seq(T), ValidDnsName(name)
    PROVE  /\ h[1] # Star => RouteKeyParse(h) = ExactKey(Lower(h))
                             /\ (Covers(h) <=> RouteKeyParse(h) = ExactKey(name))
           /\ h[1] = Star => RouteKeyParse(h) = WildcardKey(Lower(Tail(h)))
                             /\ (Covers(h) <=> Len(name) >= 3
                                               /\ RouteKeyParse(h) = WildcardKey(Tail(name)))
<1>1. Len(name) \in Nat \ {0} /\ name[1] \in NameChars
  <2>1. Len(name) \in Nat \ {0} /\ DOMAIN name = 1 .. Len(name)
    BY EmptySeq, LenProperties DEF ValidDnsName
  <2> QED
    BY <2>1 DEF ValidDnsName
<1>2. Star \notin NameChars /\ LowerOf[Star] = Star
  BY RoutingAssumption
<1>3. Len(h) \in Nat /\ DOMAIN h = 1 .. Len(h)
  BY LenProperties
<1>4. CASE h[1] # Star
  <2>1. RouteKeyParse(h) = ExactKey(Lower(h))
    BY <1>4 DEF RouteKeyParse
  <2>2. Covers(h) <=> Lower(h) = name
    BY <1>4 DEF Covers
  <2> QED
    BY <1>4, <2>1, <2>2, KeysDiffer
<1>5. CASE h[1] = Star
  <2>1. Len(h) >= 3
    <3>1. h # <<>>
      <4> SUFFICES ASSUME h = <<>> PROVE FALSE
        OBVIOUS
      <4>1. ~(Len(h) > 1)
        OBVIOUS
      <4>2. ValidDnsName(Lower(h))
        BY <4>1 DEF KeyParses, HostnameParse
      <4>3. Len(Lower(h)) = 0 /\ Lower(h) \in Seq({LowerOf[x] : x \in S})
        BY LowerIsSeq
      <4>4. Lower(h) = <<>>
        BY <4>3, EmptySeq
      <4> QED
        BY <4>2, <4>4 DEF ValidDnsName
    <3>2. 1 \in DOMAIN h
      BY <1>3, <3>1, EmptySeq
    <3>3. Len(h) > 1 /\ Len(Tail(h)) >= 2
      BY <1>5, <3>2 DEF KeyParses
    <3>4. Len(Tail(h)) = Len(h) - 1
      BY <3>1, LowerTail
    <3> QED
      BY <1>3, <3>3, <3>4
  <2>2. h # <<>>
    BY <2>1, EmptySeq
  <2>3. RouteKeyParse(h) = WildcardKey(Lower(Tail(h)))
    BY <1>5 DEF RouteKeyParse
  <2>4. Lower(Tail(h)) = Tail(Lower(h)) /\ Len(Tail(h)) = Len(h) - 1
    BY <2>2, LowerTail
  <2>5. Lower(h) # name
    <3>1. Lower(h)[1] = Star
      <4>1. 1 \in 1 .. Len(h)
        BY <1>3, <2>1
      <4> QED
        BY <1>2, <1>5, <4>1, LowerIsSeq
    <3> QED
      BY <1>1, <1>2, <3>1
  <2>6. Covers(h) <=> Len(h) = Len(name) /\ Tail(Lower(h)) = Tail(name)
    BY <1>5, <2>5 DEF Covers
  <2>7. Tail(Lower(h)) = Tail(name) => Len(h) = Len(name)
    <3>1. Lower(h) \in Seq({LowerOf[x] : x \in S}) /\ Len(Lower(h)) = Len(h)
      BY LowerIsSeq
    <3>2. Lower(h) # <<>> /\ name # <<>>
      BY <1>1, <2>1, <3>1, EmptySeq
    <3>3. Len(Tail(Lower(h))) = Len(Lower(h)) - 1
      BY <3>1, <3>2, HeadTailProperties
    <3>4. Len(Tail(name)) = Len(name) - 1
      BY <3>2, HeadTailProperties
    <3> DEFINE a == Len(Tail(Lower(h)))
               b == Len(Tail(name))
               m == Len(h)
               n == Len(name)
    <3>5. Tail(Lower(h)) = Tail(name) => a = b
      OBVIOUS
    <3>6. a = m - 1 /\ b = n - 1
      BY <3>1, <3>3, <3>4
    <3>7. m \in Nat /\ n \in Nat
      BY <1>1, <1>3
    <3> HIDE DEF a, b, m, n
    <3>8. a = b => m = n
      BY <3>6, <3>7
    <3> QED
      BY <3>5, <3>8, Zenon DEF m, n
  <2>8. RouteKeyParse(h) = WildcardKey(Tail(name)) <=> Tail(Lower(h)) = Tail(name)
    BY <2>3, <2>4, KeysDiffer
  <2>9. Covers(h) <=> Len(name) >= 3 /\ RouteKeyParse(h) = WildcardKey(Tail(name))
    BY <2>1, <2>6, <2>7, <2>8
  <2> QED
    BY <1>5, <2>3, <2>9
<1> QED
  BY <1>4, <1>5

\* The candidates of a name, and what a hit is when the store may return rows
\* that nobody asked for.
LEMMA CandidatesInOrder ==
    ASSUME NEW host
    PROVE  /\ DOMAIN CandidateKeys(host) = IF Len(host) >= 3 THEN {1, 2} ELSE {1}
           /\ CandidateKeys(host)[1] = ExactKey(host)
           /\ Len(host) >= 3 => CandidateKeys(host)[2] = WildcardKey(Tail(host))
<1>1. CASE Len(host) >= 3
  <2> DEFINE a == ExactKey(host)
             b == WildcardKey(Tail(host))
  <2>1. CandidateKeys(host) = <<a>> \o <<b>>
    BY <1>1 DEF CandidateKeys
  <2> HIDE DEF a, b
  <2> DEFINE s == <<a>>
             t == <<b>>
             st == s \o t
  <2>2. s \in Seq({a, b}) /\ Len(s) = 1 /\ s[1] = a /\ t \in Seq({a, b}) /\ Len(t) = 1 /\ t[1] = b
    OBVIOUS
  <2> HIDE DEF s, t
  <2>3. st \in Seq({a, b}) /\ Len(st) = 2 /\ st[1] = a /\ st[2] = b
    <3>1. /\ st \in Seq({a, b}) /\ Len(st) = Len(s) + Len(t)
          /\ \A i \in 1 .. Len(s) + Len(t) : st[i] = IF i <= Len(s) THEN s[i] ELSE t[i - Len(s)]
      BY <2>2, ConcatProperties
    <3> HIDE DEF st
    <3> QED
      BY <2>2, <3>1
  <2> HIDE DEF st
  <2>4. DOMAIN st = {1, 2}
    BY <2>3, LenProperties
  <2> QED
    BY <1>1, <2>1, <2>3, <2>4 DEF a, b, s, t, st
<1>2. CASE ~(Len(host) >= 3)
  <2>1. CandidateKeys(host) = <<ExactKey(host)>>
    BY <1>2 DEF CandidateKeys
  <2>2. 1 .. 1 = {1}
    OBVIOUS
  <2> QED
    BY <1>2, <2>1, <2>2
<1> QED
  BY <1>1, <1>2

\* The candidates are a list.
LEMMA CandidateSeq ==
    ASSUME NEW host
    PROVE  CandidateKeys(host) \in Seq({ExactKey(host), WildcardKey(Tail(host))})
<1> DEFINE a == ExactKey(host)
           b == WildcardKey(Tail(host))
<1>1. CandidateKeys(host) = <<a>> \o (IF Len(host) >= 3 THEN <<b>> ELSE <<>>)
  BY DEF CandidateKeys
<1> HIDE DEF a, b
<1>2. <<a>> \in Seq({a, b}) /\ <<b>> \in Seq({a, b}) /\ <<>> \in Seq({a, b})
  OBVIOUS
<1>3. CandidateKeys(host) \in Seq({a, b})
  BY <1>1, <1>2, ConcatProperties
<1> QED
  BY <1>3 DEF a, b

\* select_route looks a name's candidates up in the table, in their order.
LEMMA SelectsFirstCandidate ==
    ASSUME NEW table, NEW host, NEW extra \in SUBSET DOMAIN table
    PROVE  SelectRoute(host, Hits(table, host) \cup extra, table) =
               IF ExactKey(host) \in DOMAIN table THEN table[ExactKey(host)]
               ELSE IF Len(host) >= 3 /\ WildcardKey(Tail(host)) \in DOMAIN table
                    THEN table[WildcardKey(Tail(host))]
               ELSE NotFound
<1> DEFINE keys == CandidateKeys(host)
           hits == Hits(table, host) \cup extra
           matching == {i \in DOMAIN keys : keys[i] \in hits}
<1>1. /\ DOMAIN keys = IF Len(host) >= 3 THEN {1, 2} ELSE {1}
      /\ keys[1] = ExactKey(host)
      /\ Len(host) >= 3 => keys[2] = WildcardKey(Tail(host))
  BY CandidatesInOrder
<1>2. \A i \in DOMAIN keys : keys[i] \in hits <=> keys[i] \in DOMAIN table
  <2> SUFFICES ASSUME NEW i \in DOMAIN keys, keys[i] \in DOMAIN table PROVE keys[i] \in hits
    BY DEF Hits
  <2>1. Contains(CandidateKeys(host), keys[i])
    <3>1. \A j \in DOMAIN keys : j \in 1 .. Len(keys)
      BY CandidateSeq, LenProperties
    <3> QED
      BY <3>1 DEF Contains
  <2> QED
    BY <2>1 DEF Hits
<1>3. SelectRoute(host, hits, table) =
          IF matching = {} THEN NotFound ELSE table[keys[Min(matching)]]
  BY DEF SelectRoute
<1> HIDE DEF keys, hits
<1>4. matching \in SUBSET Nat /\ \A i \in matching : i \in {1, 2}
  BY <1>1
<1>5. matching # {} => Min(matching) \in matching /\ \A y \in matching : Min(matching) <= y
  <2> HIDE DEF matching
  <2> QED
    BY <1>4, MinIsLeast
<1>6. CASE ExactKey(host) \in DOMAIN table
  <2>1. 1 \in matching
    BY <1>1, <1>2, <1>6
  <2> HIDE DEF matching
  <2>2. Min(matching) \in {1, 2} /\ Min(matching) <= 1
    BY <1>4, <1>5, <2>1
  <2>3. Min(matching) = 1
    BY <2>2
  <2> QED
    BY <1>1, <1>3, <1>6, <2>1, <2>3 DEF hits
<1>7. CASE ExactKey(host) \notin DOMAIN table /\ Len(host) >= 3
           /\ WildcardKey(Tail(host)) \in DOMAIN table
  <2>1. 1 \notin matching /\ 2 \in matching
    BY <1>1, <1>2, <1>7
  <2> HIDE DEF matching
  <2>2. Min(matching) \in {1, 2} /\ Min(matching) # 1
    BY <1>4, <1>5, <2>1
  <2>3. Min(matching) = 2
    BY <2>2
  <2> QED
    BY <1>1, <1>3, <1>7, <2>1, <2>3 DEF hits
<1>8. CASE ExactKey(host) \notin DOMAIN table
           /\ ~(Len(host) >= 3 /\ WildcardKey(Tail(host)) \in DOMAIN table)
  <2>1. matching = {}
    BY <1>1, <1>2, <1>8
  <2> QED
    BY <1>3, <1>8, <2>1 DEF hits
<1> QED
  BY <1>6, <1>7, <1>8

\* The table has a key if and only if some row has it, and answers with such a row.
LEMMA TableOfRows ==
    ASSUME NEW rows, NEW k
    PROVE  /\ k \in DOMAIN BuildRouteTable(rows) <=>
                  \E i \in DOMAIN rows : RouteKeyParse(rows[i].hostname) = k
           /\ k \in DOMAIN BuildRouteTable(rows) =>
                  \E i \in DOMAIN rows : /\ RouteKeyParse(rows[i].hostname) = k
                                         /\ BuildRouteTable(rows)[k] = BackendParse(rows[i].backend)
<1> DEFINE Row == CHOOSE j \in DOMAIN rows : RouteKeyParse(rows[j].hostname) = k
<1>1. k \in DOMAIN BuildRouteTable(rows) <=>
          \E i \in DOMAIN rows : RouteKeyParse(rows[i].hostname) = k
  BY DEF BuildRouteTable
<1>2. ASSUME k \in DOMAIN BuildRouteTable(rows)
      PROVE  \E i \in DOMAIN rows : /\ RouteKeyParse(rows[i].hostname) = k
                                    /\ BuildRouteTable(rows)[k] = BackendParse(rows[i].backend)
  <2>1. Row \in DOMAIN rows /\ RouteKeyParse(rows[Row].hostname) = k
    BY <1>1, <1>2
  <2>2. BuildRouteTable(rows)[k] = BackendParse(rows[Row].backend)
    BY <1>2 DEF BuildRouteTable
  <2> QED
    BY <2>1, <2>2
<1> QED
  BY <1>1, <1>2

-----------------------------------------------------------------------------
(* Parsing the ClientHello: loops over lists, so induction over their length. *)

\* A set of numbers that has 0 and, up to N, the next of each of its numbers.
LEMMA UpToInduction ==
    ASSUME NEW N \in Nat, NEW S, 0 \in S, \A n \in 0 .. N : n \in S /\ n < N => n + 1 \in S
    PROVE  \A n \in 0 .. N : n \in S
<1> SUFFICES ASSUME NEW b \in 0 .. N, b \notin S PROVE FALSE
  OBVIOUS
<1> DEFINE bad == {n \in 0 .. N : n \notin S}
           m == Min(bad)
<1>1. m \in bad /\ \A y \in bad : m <= y
  <2>1. bad \in SUBSET Nat /\ bad # {}
    OBVIOUS
  <2> HIDE DEF bad
  <2> QED
    BY <2>1, MinIsLeast
<1> HIDE DEF m
<1>2. m \in 0 .. N /\ m # 0 /\ m \notin S
  BY <1>1
<1>3. m - 1 \in 0 .. N /\ m - 1 < N /\ (m - 1) + 1 = m /\ ~(m <= m - 1)
  BY <1>2
<1>4. m - 1 \in S
  BY <1>1, <1>3
<1> QED
  BY <1>2, <1>3, <1>4

\* The loop over the server_name_list.
LEMMA ListUnfolds ==
    ASSUME NEW list, Len(list) \in Nat
    PROVE  \A n \in 0 .. Len(list) : FoundInList(list)[n] =
               IF n = 0 THEN Found(NoName) ELSE ServerNameEntry(FoundInList(list)[n - 1], list[n])
<1> DEFINE N == Len(list)
           Loop(g, m) == g = [n \in 0 .. m |-> IF n = 0 THEN Found(NoName)
                                               ELSE ServerNameEntry(g[n - 1], list[n])]
           S == {m \in 0 .. N : \E g : Loop(g, m)}
<1>1. 0 \in S
  <2> DEFINE g == [n \in 0 .. 0 |-> Found(NoName)]
  <2>1. 0 .. 0 = {0}
    OBVIOUS
  <2>2. Loop(g, 0)
    BY <2>1
  <2> HIDE DEF g, Loop
  <2> QED
    BY <2>2
<1>2. ASSUME NEW m \in 0 .. N, m \in S, m < N PROVE m + 1 \in S
  <2>1. PICK g : Loop(g, m)
    BY <1>2
  <2> DEFINE h == [n \in 0 .. m + 1 |-> IF n = m + 1 THEN ServerNameEntry(g[m], list[m + 1])
                                        ELSE g[n]]
  <2>2. m \in Nat /\ m + 1 \in 0 .. N /\ (m + 1) - 1 = m /\ m \in 0 .. m + 1 /\ m # m + 1
    BY <1>2
  <2>3. h[m] = g[m]
    BY <2>2
  <2>4. ASSUME NEW n \in 0 .. m + 1
        PROVE  h[n] = IF n = 0 THEN Found(NoName) ELSE ServerNameEntry(h[n - 1], list[n])
    <3>1. CASE n = m + 1
      <4>1. h[n] = ServerNameEntry(g[m], list[m + 1]) /\ n # 0 /\ n - 1 = m
        BY <2>2, <3>1
      <4> QED
        BY <2>3, <3>1, <4>1
    <3>2. CASE n # m + 1
      <4>1. h[n] = g[n] /\ n \in 0 .. m
        BY <2>2, <3>2
      <4>2. g[n] = IF n = 0 THEN Found(NoName) ELSE ServerNameEntry(g[n - 1], list[n])
        BY <2>1, <4>1
      <4>3. n # 0 => h[n - 1] = g[n - 1]
        BY <2>2, <4>1
      <4> QED
        BY <4>1, <4>2, <4>3
    <3> QED
      BY <3>1, <3>2
  <2>5. Loop(h, m + 1)
    BY <2>4
  <2> HIDE DEF h, Loop
  <2> QED
    BY <2>2, <2>5
<1>3. PICK g : Loop(g, N)
  <2> HIDE DEF Loop
  <2>1. \A n \in 0 .. N : n \in S
    <3> HIDE DEF S
    <3> QED
      BY <1>1, <1>2, UpToInduction
  <2> QED
    BY <2>1
<1>4. FoundInList(list) = CHOOSE f : Loop(f, N)
  BY DEF FoundInList
<1>5. Loop(FoundInList(list), N)
  <2> HIDE DEF Loop, N
  <2> QED
    BY <1>3, <1>4
<1> QED
  BY <1>5

\* The loop over the extensions.
LEMMA ExtensionsUnfold ==
    ASSUME NEW exts, Len(exts) \in Nat
    PROVE  \A n \in 0 .. Len(exts) : FoundInExtensions(exts)[n] =
               IF n = 0 THEN Found(NoName) ELSE Extension(FoundInExtensions(exts)[n - 1], exts[n])
<1> DEFINE N == Len(exts)
           Loop(g, m) == g = [n \in 0 .. m |-> IF n = 0 THEN Found(NoName)
                                               ELSE Extension(g[n - 1], exts[n])]
           S == {m \in 0 .. N : \E g : Loop(g, m)}
<1>1. 0 \in S
  <2> DEFINE g == [n \in 0 .. 0 |-> Found(NoName)]
  <2>1. 0 .. 0 = {0}
    OBVIOUS
  <2>2. Loop(g, 0)
    BY <2>1
  <2> HIDE DEF g, Loop
  <2> QED
    BY <2>2
<1>2. ASSUME NEW m \in 0 .. N, m \in S, m < N PROVE m + 1 \in S
  <2>1. PICK g : Loop(g, m)
    BY <1>2
  <2> DEFINE h == [n \in 0 .. m + 1 |-> IF n = m + 1 THEN Extension(g[m], exts[m + 1])
                                        ELSE g[n]]
  <2>2. m \in Nat /\ m + 1 \in 0 .. N /\ (m + 1) - 1 = m /\ m \in 0 .. m + 1 /\ m # m + 1
    BY <1>2
  <2>3. h[m] = g[m]
    BY <2>2
  <2>4. ASSUME NEW n \in 0 .. m + 1
        PROVE  h[n] = IF n = 0 THEN Found(NoName) ELSE Extension(h[n - 1], exts[n])
    <3>1. CASE n = m + 1
      <4>1. h[n] = Extension(g[m], exts[m + 1]) /\ n # 0 /\ n - 1 = m
        BY <2>2, <3>1
      <4> QED
        BY <2>3, <3>1, <4>1
    <3>2. CASE n # m + 1
      <4>1. h[n] = g[n] /\ n \in 0 .. m
        BY <2>2, <3>2
      <4>2. g[n] = IF n = 0 THEN Found(NoName) ELSE Extension(g[n - 1], exts[n])
        BY <2>1, <4>1
      <4>3. n # 0 => h[n - 1] = g[n - 1]
        BY <2>2, <4>1
      <4> QED
        BY <4>1, <4>2, <4>3
    <3> QED
      BY <3>1, <3>2
  <2>5. Loop(h, m + 1)
    BY <2>4
  <2> HIDE DEF h, Loop
  <2> QED
    BY <2>2, <2>5
<1>3. PICK g : Loop(g, N)
  <2> HIDE DEF Loop
  <2>1. \A n \in 0 .. N : n \in S
    <3> HIDE DEF S
    <3> QED
      BY <1>1, <1>2, UpToInduction
  <2> QED
    BY <2>1
<1>4. FoundInExtensions(exts) = CHOOSE f : Loop(f, N)
  BY DEF FoundInExtensions
<1>5. Loop(FoundInExtensions(exts), N)
  <2> HIDE DEF Loop, N
  <2> QED
    BY <1>3, <1>4
<1> QED
  BY <1>5

\* The loop over the records.
LEMMA ScansUnfold ==
    ASSUME NEW buf
    PROVE  \A n \in 0 .. MaxRecords + 1 : Scans(buf)[n] =
               IF n = 0 THEN ScanStart ELSE ScanTurn(buf, Scans(buf)[n - 1])
<1> DEFINE N == MaxRecords + 1
           Loop(g, m) == g = [n \in 0 .. m |-> IF n = 0 THEN ScanStart
                                               ELSE ScanTurn(buf, g[n - 1])]
           S == {m \in 0 .. N : \E g : Loop(g, m)}
<1>0. N \in Nat
  BY HelloLimitsAssumption
<1>1. 0 \in S
  <2> DEFINE g == [n \in 0 .. 0 |-> ScanStart]
  <2>1. 0 .. 0 = {0}
    OBVIOUS
  <2>2. Loop(g, 0)
    BY <2>1
  <2> HIDE DEF g, Loop, N
  <2> QED
    BY <1>0, <2>2
<1>2. ASSUME NEW m \in 0 .. N, m \in S, m < N PROVE m + 1 \in S
  <2>1. PICK g : Loop(g, m)
    BY <1>2
  <2> DEFINE h == [n \in 0 .. m + 1 |-> IF n = m + 1 THEN ScanTurn(buf, g[m])
                                        ELSE g[n]]
  <2>2. m \in Nat /\ m + 1 \in 0 .. N /\ (m + 1) - 1 = m /\ m \in 0 .. m + 1 /\ m # m + 1
    <3> HIDE DEF N
    <3> QED
      BY <1>0, <1>2
  <2>3. h[m] = g[m]
    BY <2>2
  <2>4. ASSUME NEW n \in 0 .. m + 1
        PROVE  h[n] = IF n = 0 THEN ScanStart ELSE ScanTurn(buf, h[n - 1])
    <3>1. CASE n = m + 1
      <4>1. h[n] = ScanTurn(buf, g[m]) /\ n # 0 /\ n - 1 = m
        BY <2>2, <3>1
      <4> QED
        BY <2>3, <3>1, <4>1
    <3>2. CASE n # m + 1
      <4>1. h[n] = g[n] /\ n \in 0 .. m
        BY <2>2, <3>2
      <4>2. g[n] = IF n = 0 THEN ScanStart ELSE ScanTurn(buf, g[n - 1])
        BY <2>1, <4>1
      <4>3. n # 0 => h[n - 1] = g[n - 1]
        BY <2>2, <4>1
      <4> QED
        BY <4>1, <4>2, <4>3
    <3> QED
      BY <3>1, <3>2
  <2>5. Loop(h, m + 1)
    BY <2>4
  <2> HIDE DEF h, Loop
  <2> QED
    BY <2>2, <2>5
<1>3. PICK g : Loop(g, N)
  <2> HIDE DEF Loop
  <2>1. \A n \in 0 .. N : n \in S
    <3> HIDE DEF S, N
    <3> QED
      BY <1>0, <1>1, <1>2, UpToInduction
  <2>2. N \in 0 .. N
    <3> HIDE DEF N
    <3> QED
      BY <1>0
  <2> HIDE DEF N
  <2> QED
    BY <2>1, <2>2
<1>4. Scans(buf) = CHOOSE f : Loop(f, N)
  BY DEF Scans
<1>5. Loop(Scans(buf), N)
  <2> HIDE DEF Loop, N
  <2> QED
    BY <1>3, <1>4
<1> QED
  BY <1>5

Faults == {"Malformed", "InvalidServerName"}

\* The result r of a list's entries, of which those in H are host_names: a fault,
\* no name because there is no host_name, or the only one's.
OfOnlyHost(r, list, H) ==
    \/ IsFailure(r) /\ r.failure \in Faults
    \/ r = Found(NoName) /\ H = {}
    \/ \E j \in H : /\ H = {j} /\ HostnameParse(list[j].name).ok
                    /\ r = Found(Lower(list[j].name))

\* The two kinds of result can be told apart.
LEMMA Results ==
    /\ \A e : IsFailure(Failure(e)) /\ Failure(e).failure = e
    /\ \A n : ~IsFailure(Found(n)) /\ Found(n).sni = n
BY DEF IsFailure, Failure, Found

\* A list of entries gives a name only if it has exactly one host_name.
LEMMA ListParsed ==
    ASSUME NEW list, Len(list) \in Nat
    PROVE  OfOnlyHost(FoundInList(list)[Len(list)], list,
                      {j \in 1 .. Len(list) : list[j].kind = "host_name"})
<1> DEFINE N == Len(list)
           f == FoundInList(list)
           Hosts(n) == {j \in 1 .. n : list[j].kind = "host_name"}
           S == {n \in 0 .. N : OfOnlyHost(f[n], list, Hosts(n))}
<1>1. f[0] = Found(NoName) /\ \A n \in 1 .. N : f[n] = ServerNameEntry(f[n - 1], list[n])
  BY ListUnfolds
<1> HIDE DEF f
<1>2. 0 \in S
  <2>1. Hosts(0) = {}
    OBVIOUS
  <2> HIDE DEF Hosts
  <2> QED
    BY <1>1, <2>1 DEF OfOnlyHost
<1>3. ASSUME NEW m \in 0 .. N, m \in S, m < N PROVE m + 1 \in S
  <2> DEFINE e == list[m + 1]
             r == f[m]
             s == f[m + 1]
  <2>1. m + 1 \in 1 .. N /\ m + 1 \in 0 .. N /\ (m + 1) - 1 = m
    BY <1>3
  <2>2. s = ServerNameEntry(r, e) /\ OfOnlyHost(r, list, Hosts(m))
    BY <1>1, <1>3, <2>1
  <2>3. Hosts(m + 1) = Hosts(m) \cup (IF e.kind = "host_name" THEN {m + 1} ELSE {})
    <3>1. 1 .. m + 1 = 1 .. m \cup {m + 1}
      BY <1>3
    <3> QED
      BY <3>1
  <2> DEFINE H == Hosts(m)
             G == Hosts(m + 1)
  <2> SUFFICES OfOnlyHost(s, list, G)
    BY <2>1
  <2> HIDE DEF Hosts, r, s, H, G
  <2>4. /\ OfOnlyHost(r, list, H)
        /\ G = H \cup (IF e.kind = "host_name" THEN {m + 1} ELSE {})
    BY <2>2, <2>3 DEF H, G
  <2>5. CASE s = r /\ IsFailure(r)
    BY <2>4, <2>5, Results DEF OfOnlyHost
  <2>6. CASE \E x \in Faults : s = Failure(x)
    BY <2>6, Results DEF OfOnlyHost
  <2>7. CASE s = r /\ e.kind # "host_name"
    BY <2>4, <2>7 DEF OfOnlyHost
  <2>8. CASE /\ ~IsFailure(r) /\ e.kind = "host_name" /\ r.sni = NoName
             /\ HostnameParse(e.name).ok /\ s = Found(HostnameParse(e.name).labels)
    <3>1. ASSUME NEW j \in H, HostnameParse(list[j].name).ok, r = Found(Lower(list[j].name))
          PROVE  FALSE
      <4>1. Lower(list[j].name) = NoName
        BY <2>8, <3>1, Results
      <4> QED
        BY <3>1, <4>1 DEF HostnameParse, ValidDnsName, NoName
    <3>2. H = {}
      BY <2>4, <2>8, <3>1 DEF OfOnlyHost
    <3>3. G = {m + 1}
      BY <2>4, <2>8, <3>2
    <3>4. s = Found(Lower(e.name))
      BY <2>8 DEF HostnameParse
    <3> QED
      BY <2>8, <3>3, <3>4 DEF OfOnlyHost
  <2> HIDE DEF e
  <2> QED
    BY <2>2, <2>5, <2>6, <2>7, <2>8 DEF ServerNameEntry, Faults
<1>4. N \in S
  <2>1. \A n \in 0 .. N : n \in S
    <3> HIDE DEF S, N
    <3>1. N \in Nat
      BY DEF N
    <3> QED
      BY <1>2, <1>3, <3>1, UpToInduction
  <2> HIDE DEF S
  <2> QED
    BY <2>1
<1> QED
  BY <1>4 DEF f

\* What the extensions give is a fault, what one server_name gives, or nothing.
OfSomeExtension(r, exts, I) ==
    \/ IsFailure(r) /\ r.failure \in Faults
    \/ r = Found(NoName) /\ I = {}
    \/ \E i \in I : r = ParseServerName(exts[i].data)

\* The loop over the extensions keeps to what its server_names give.
LEMMA ExtensionsParsed ==
    ASSUME NEW exts, Len(exts) \in Nat,
           \A i \in 1 .. Len(exts) : exts[i].kind = "server_name" => Len(exts[i].data.list) \in Nat
    PROVE  OfSomeExtension(FoundInExtensions(exts)[Len(exts)], exts,
                           {i \in 1 .. Len(exts) : exts[i].kind = "server_name"})
<1> DEFINE N == Len(exts)
           f == FoundInExtensions(exts)
           Names(n) == {i \in 1 .. n : exts[i].kind = "server_name"}
           S == {n \in 0 .. N : OfSomeExtension(f[n], exts, Names(n))}
<1>1. f[0] = Found(NoName) /\ \A n \in 1 .. N : f[n] = Extension(f[n - 1], exts[n])
  BY ExtensionsUnfold
<1> HIDE DEF f
<1>2. 0 \in S
  <2>1. Names(0) = {}
    OBVIOUS
  <2> HIDE DEF Names
  <2> QED
    BY <1>1, <2>1 DEF OfSomeExtension
<1>3. ASSUME NEW m \in 0 .. N, m \in S, m < N PROVE m + 1 \in S
  <2> DEFINE e == exts[m + 1]
             r == f[m]
             s == f[m + 1]
             I == Names(m)
             J == Names(m + 1)
  <2>1. m + 1 \in 1 .. N /\ m + 1 \in 0 .. N /\ (m + 1) - 1 = m
    BY <1>3
  <2>2. s = Extension(r, e) /\ OfSomeExtension(r, exts, I)
    BY <1>1, <1>3, <2>1
  <2>3. J = I \cup (IF e.kind = "server_name" THEN {m + 1} ELSE {})
    <3>1. 1 .. m + 1 = 1 .. m \cup {m + 1}
      BY <1>3
    <3> QED
      BY <3>1
  <2> SUFFICES OfSomeExtension(s, exts, J)
    BY <2>1
  <2> HIDE DEF r, s, I, J
  <2>4. CASE s = r /\ IsFailure(r)
    <3>1. ASSUME NEW i \in I, r = ParseServerName(exts[i].data) PROVE i \in J
      BY <2>3
    <3> QED
      BY <2>2, <2>4, <3>1, Results DEF OfSomeExtension
  <2>5. CASE s = Failure("Malformed")
    BY <2>5, Results DEF OfSomeExtension, Faults
  <2>6. CASE e.kind = "server_name" /\ s = ParseServerName(e.data)
    <3>1. m + 1 \in J
      BY <2>3, <2>6
    <3> QED
      BY <2>6, <3>1 DEF OfSomeExtension
  <2>7. CASE s = r /\ e.kind # "server_name"
    BY <2>2, <2>3, <2>7 DEF OfSomeExtension
  <2> HIDE DEF e
  <2> QED
    BY <2>2, <2>4, <2>5, <2>6, <2>7 DEF Extension
<1>4. N \in S
  <2>1. \A n \in 0 .. N : n \in S
    <3> HIDE DEF S, N
    <3>1. N \in Nat
      BY DEF N
    <3> QED
      BY <1>2, <1>3, <3>1, UpToInduction
  <2> HIDE DEF S
  <2> QED
    BY <2>1
<1> QED
  BY <1>4 DEF f

\* The verdict of the record layer is about the records, never about a name.
LEMMA ScanNamesNothing ==
    ASSUME NEW buf PROVE ScanRecords(buf).verdict \notin {"Named", "MissingSni"}
<1> DEFINE N == MaxRecords + 1
           f == Scans(buf)
           Plain(scan) == "verdict" \in DOMAIN scan /\ scan.verdict \notin {"Named", "MissingSni"}
           S == {n \in 0 .. N : Plain(f[n])}
<1>0. N \in Nat
  BY HelloLimitsAssumption
<1>1. f[0] = ScanStart /\ \A n \in 1 .. N : f[n] = ScanTurn(buf, f[n - 1])
  <2>1. \A n \in 0 .. N : f[n] = IF n = 0 THEN ScanStart ELSE ScanTurn(buf, f[n - 1])
    BY ScansUnfold
  <2> HIDE DEF f, N
  <2>2. 0 \in 0 .. N /\ \A n \in 1 .. N : n \in 0 .. N /\ n # 0
    BY <1>0
  <2> QED
    BY <2>1, <2>2
<1> HIDE DEF f, N
<1>2. 0 \in S
  BY <1>0, <1>1 DEF ScanStart
<1>3. ASSUME NEW m \in 0 .. N, m \in S, m < N PROVE m + 1 \in S
  <2> DEFINE r == f[m]
             s == f[m + 1]
  <2>1. m + 1 \in 1 .. N /\ m + 1 \in 0 .. N /\ (m + 1) - 1 = m
    BY <1>0, <1>3
  <2>2. s = ScanTurn(buf, r) /\ Plain(r)
    BY <1>1, <1>3, <2>1
  <2> SUFFICES Plain(s)
    BY <2>1
  <2> HIDE DEF r, s
  <2>3. CASE s = r
    BY <2>2, <2>3
  <2>4. ASSUME NEW v, v \notin {"Named", "MissingSni"}, s = [r EXCEPT !.verdict = v]
        PROVE  Plain(s)
    BY <2>2, <2>4
  <2>5. ASSUME NEW o, NEW k, NEW p, NEW v, v \in {"ok", "scan"},
               s = [offset |-> o, known |-> k, payloads |-> p, verdict |-> v]
        PROVE  Plain(s)
    BY <2>5
  <2>6. \A h, b : CheckPartialRecordHeader(h, b) \notin {"Named", "MissingSni"}
    BY DEF CheckPartialRecordHeader
  <2>7. \A h, b : CheckRecordHeader(h, b) \notin {"Named", "MissingSni"}
    BY <2>6 DEF CheckRecordHeader
  <2>8. \A k : Observe(k) \notin {"Named", "MissingSni"}
    BY DEF Observe
  <2>9. CASE s = ScanRecord(buf, r)
    <3> DEFINE header == Take(SubSeq(buf, r.offset + 1, Len(buf)), RECORD_HEADER_LEN)
               first == r.offset = 0
               start == r.offset + RECORD_HEADER_LEN
               end == start + PayloadLen(header)
               available == Take(SubSeq(buf, start + 1, Len(buf)), end - start)
               known == Known(r.known, available)
               payloads == Append(r.payloads, available)
               verdict == IF Complete(known, Len(FlattenSeq(payloads))) THEN "ok" ELSE "scan"
               Stop(v) == [r EXCEPT !.verdict = v]
    <3>1. \/ s = Stop(CheckPartialRecordHeader(header, first))
          \/ s = Stop("Incomplete")
          \/ s = Stop(CheckRecordHeader(header, first))
          \/ s = Stop("TooLarge")
          \/ s = Stop(Observe(known))
          \/ s = [offset |-> end, known |-> known, payloads |-> payloads, verdict |-> verdict]
      BY <2>9, Zenon DEF ScanRecord
    <3>2. verdict \in {"ok", "scan"}
      OBVIOUS
    <3> HIDE DEF header, first, start, end, available, known, payloads, verdict
    <3> QED
      BY <2>4, <2>5, <2>6, <2>7, <2>8, <3>1, <3>2
  <2> QED
    BY <2>2, <2>3, <2>9 DEF ScanTurn
<1>4. N \in S
  <2>1. \A n \in 0 .. N : n \in S
    <3> HIDE DEF S
    <3> QED
      BY <1>0, <1>2, <1>3, UpToInduction
  <2>2. N \in 0 .. N
    BY <1>0
  <2> HIDE DEF S
  <2> QED
    BY <2>1, <2>2
<1> QED
  BY <1>4 DEF ScanRecords, f, N

\* What the parse of a ClientHello's body says of its host_names.
LEMMA BodyParsed ==
    ASSUME InputInv, NEW r, r = ParseClientHelloBody(input.content)
    PROVE  /\ IsFailure(r) => r.failure \in Faults
           /\ ~IsFailure(r) /\ r.sni # NoName =>
                  \E p \in HostNames :
                      /\ HostNames = {p}
                      /\ LET raw == input.content.extensions[p[1]].data.list[p[2]].name
                         IN  ValidDnsName(Lower(raw)) /\ r.sni = Lower(raw)
           /\ ~IsFailure(r) /\ r.sni = NoName => HostNames = {} \/ ~input.content.hasExtensions
<1> DEFINE exts == input.content.extensions
           N == Len(exts)
           found == FoundInExtensions(exts)[N]
           I == {i \in 1 .. N : exts[i].kind = "server_name"}
           In(i) == {j \in DOMAIN exts[i].data.list : exts[i].data.list[j].kind = "host_name"}
<1>1. N \in Nat /\ DOMAIN exts = 1 .. N
  BY LenProperties DEF InputInv, ContentTyped
<1>2. \A i \in I : /\ Len(exts[i].data.list) \in Nat
                   /\ DOMAIN exts[i].data.list = 1 .. Len(exts[i].data.list)
  <2> SUFFICES ASSUME NEW i \in I
               PROVE  /\ Len(exts[i].data.list) \in Nat
                      /\ DOMAIN exts[i].data.list = 1 .. Len(exts[i].data.list)
    OBVIOUS
  <2>1. exts[i] \in ToSet(exts) /\ exts[i].kind = "server_name"
    BY <1>1 DEF ToSet
  <2>2. exts[i].data.list \in Seq(ToSet(exts[i].data.list))
    BY <2>1 DEF InputInv, ContentTyped
  <2> QED
    BY <2>2, LenProperties
<1>3. HostNames = UNION {{i} \X In(i) : i \in I}
  BY <1>1 DEF HostNames
<1>4. OfSomeExtension(found, exts, I)
  <2>1. \A i \in 1 .. N : exts[i].kind = "server_name" => Len(exts[i].data.list) \in Nat
    BY <1>2
  <2> QED
    BY <1>1, <2>1, ExtensionsParsed
<1>5. CASE r = Failure("Malformed")
  BY <1>5, Results DEF Faults
<1>6. CASE r = Found(NoName) /\ ~input.content.hasExtensions
  BY <1>6, Results
<1>7. CASE /\ r = found
           /\ \A i, j \in 1 .. N : i # j => exts[i].kind # exts[j].kind \/ IsFailure(found)
  <2> HIDE DEF found
  <2>1. CASE IsFailure(found) /\ found.failure \in Faults
    BY <1>7, <2>1
  <2>2. CASE found = Found(NoName) /\ I = {}
    <3>1. HostNames = {}
      BY <1>3, <2>2
    <3> QED
      BY <1>7, <2>2, <3>1, Results
  <2>3. ASSUME NEW i \in I, found = ParseServerName(exts[i].data),
               ~(IsFailure(found) /\ found.failure \in Faults)
        PROVE  /\ ~IsFailure(r)
               /\ r.sni # NoName =>
                      \E p \in HostNames :
                          /\ HostNames = {p}
                          /\ LET raw == exts[p[1]].data.list[p[2]].name
                             IN  ValidDnsName(Lower(raw)) /\ r.sni = Lower(raw)
               /\ r.sni = NoName => HostNames = {}
    <3> DEFINE list == exts[i].data.list
               H == {j \in 1 .. Len(list) : list[j].kind = "host_name"}
    <3>1. found = FoundInList(list)[Len(list)]
      BY <2>3, Results DEF ParseServerName, Faults
    <3>2. OfOnlyHost(found, list, H)
      BY <1>2, <3>1, ListParsed
    <3>3. ~IsFailure(found)
      BY <2>3, <3>2, Results DEF OfOnlyHost
    <3>4. I = {i}
      BY <1>7, <3>3
    <3>5. HostNames = {i} \X H
      <4>1. In(i) = H
        BY <1>2
      <4> HIDE DEF In, H, I
      <4> QED
        BY <1>3, <3>4, <4>1
    <3> HIDE DEF H, list
    <3>6. CASE found = Found(NoName) /\ H = {}
      BY <1>7, <3>3, <3>5, <3>6, Results
    <3>7. ASSUME NEW j \in H, H = {j}, HostnameParse(list[j].name).ok,
                 found = Found(Lower(list[j].name))
          PROVE  /\ \E p \in HostNames :
                          /\ HostNames = {p}
                          /\ LET raw == exts[p[1]].data.list[p[2]].name
                             IN  ValidDnsName(Lower(raw)) /\ r.sni = Lower(raw)
                 /\ r.sni # NoName
      <4> DEFINE p == <<i, j>>
      <4>1. HostNames = {p} /\ p \in HostNames /\ p[1] = i /\ p[2] = j
        BY <3>5, <3>7
      <4>2. ValidDnsName(Lower(list[j].name)) /\ r.sni = Lower(list[j].name)
        BY <1>7, <3>7, Results DEF HostnameParse
      <4>3. r.sni # NoName
        BY <4>2 DEF ValidDnsName, NoName
      <4> HIDE DEF p, exts
      <4> QED
        BY <4>1, <4>2, <4>3 DEF list
    <3> QED
      BY <1>7, <3>2, <3>3, <3>6, <3>7 DEF OfOnlyHost
  <2> QED
    BY <1>4, <1>7, <2>1, <2>2, <2>3 DEF OfSomeExtension
<1> QED
  BY <1>5, <1>6, <1>7 DEF ParseClientHelloBody, ParseExtensions

\* Each read either goes on, ends without a name, or ends with the hello's name.
LEMMA NameStep ==
    ASSUME InputInv, NameExact, NoneMissed, [Next]_vars PROVE NameExact' /\ NoneMissed'
<1>1. input' = input
  BY DEF Next, Read, ReadEnds, ResolveRoute, LookupFails, ConnectIp, ResolveName, TryConnect,
     Replay, ConnectCut, ConnectLeaves, helloVars, vars
<1>2. CASE UNCHANGED <<hello, name>>
  <2>1. HostNames' = HostNames
    BY <1>1 DEF HostNames
  <2>2. hello' = hello /\ name' = name
    BY <1>2
  <2>3. NameExact'
    BY <1>1, <2>1, <2>2 DEF NameExact
  <2>4. NoneMissed'
    BY <1>1, <2>1, <2>2 DEF NoneMissed
  <2> QED
    BY <2>3, <2>4
<1>3. CASE hello' \notin {"Named", "MissingSni"}
  BY <1>3 DEF NameExact, NoneMissed
<1>4. ASSUME NEW k \in 1 .. MaxWireBytes, Read(k) PROVE NameExact' /\ NoneMissed'
  <2> DEFINE scan == ScanRecords(SubSeq(input.wire, 1, taken + k))
             parsed == ParseClientHello(taken + k)
             body == ParseClientHelloBody(input.content)
  <2>1. \/ parsed = Failure(scan.verdict) /\ scan.verdict \notin {"Named", "MissingSni"}
        \/ parsed = Failure("Malformed")
        \/ parsed = body
    BY ScanNamesNothing DEF ParseClientHello
  <2>2. IF IsFailure(parsed)
        THEN hello' \in {parsed.failure, "TooLarge", "reading"}
        ELSE /\ hello' = IF parsed.sni = NoName THEN "MissingSni" ELSE "Named"
             /\ name' = parsed.sni
    BY <1>4 DEF Read
  <2>3. /\ IsFailure(body) => body.failure \in Faults
        /\ ~IsFailure(body) /\ body.sni # NoName =>
                  \E p \in HostNames :
                      /\ HostNames = {p}
                      /\ LET raw == input.content.extensions[p[1]].data.list[p[2]].name
                         IN  ValidDnsName(Lower(raw)) /\ body.sni = Lower(raw)
        /\ ~IsFailure(body) /\ body.sni = NoName => HostNames = {} \/ ~input.content.hasExtensions
    BY BodyParsed
  <2> HIDE DEF scan, parsed, body
  <2>4. CASE IsFailure(parsed)
    <3>1. parsed.failure \notin {"Named", "MissingSni"}
      BY <2>1, <2>3, <2>4, Results DEF Faults
    <3> QED
      BY <1>3, <2>2, <2>4, <3>1
  <2>5. CASE ~IsFailure(parsed)
    <3>1. parsed = body
      BY <2>1, <2>5, Results
    <3>2. HostNames' = HostNames
      BY <1>1 DEF HostNames
    <3>3. hello' = IF body.sni = NoName THEN "MissingSni" ELSE "Named"
      BY <2>2, <2>5, <3>1
    <3>4. name' = body.sni
      BY <2>2, <2>5, <3>1
    <3>5. NameExact'
      BY <1>1, <2>3, <2>5, <3>1, <3>2, <3>3, <3>4 DEF NameExact
    <3>6. NoneMissed'
      BY <1>1, <2>3, <2>5, <3>1, <3>2, <3>3 DEF NoneMissed
    <3> QED
      BY <3>5, <3>6
  <2> QED
    BY <2>4, <2>5
<1>5. CASE ReadEnds
  BY <1>3, <1>5 DEF ReadEnds
<1>6. CASE ResolveRoute \/ LookupFails \/ ConnectIp \/ ResolveName \/ TryConnect \/ Replay
           \/ ConnectCut \/ UNCHANGED vars
  BY <1>2, <1>6 DEF ResolveRoute, LookupFails, ConnectIp, ResolveName, TryConnect, Replay,
     ConnectCut, ConnectLeaves, helloVars, vars
<1> QED
  BY <1>4, <1>5, <1>6 DEF Next

(* parse_extensions and parse_server_name: for every list of extensions and of
   names in them, a name is used only if it is the only host_name of the whole
   message, valid and in lower case, and only a hello without one, or without
   extensions, counts as without SNI. *)
THEOREM OnlyTheHellosName == Spec => [](NameExact /\ NoneMissed)
<1>1. Init => NameExact /\ NoneMissed
  BY DEF Init, NameExact, NoneMissed
<1>2. IndInv /\ NameExact /\ NoneMissed /\ [Next]_vars => NameExact' /\ NoneMissed'
  BY NameStep DEF IndInv
<1> QED
  BY <1>1, <1>2, IngressInvariant, PTL DEF Spec

\* What the hello reader hands to the router is a list of labels of a valid name.
LEMMA NameIsValid ==
    ASSUME InputInv, NameExact, hello = "Named"
    PROVE  ValidDnsName(name) /\ \E T : name \in Seq(T)
<1>1. PICK p \in HostNames :
          LET raw == input.content.extensions[p[1]].data.list[p[2]].name
          IN  ValidDnsName(Lower(raw)) /\ name = Lower(raw)
  BY DEF NameExact
<1> DEFINE e == input.content.extensions[p[1]]
           n == e.data.list[p[2]]
<1>2. /\ p[1] \in DOMAIN input.content.extensions /\ e.kind = "server_name"
      /\ p[2] \in DOMAIN e.data.list /\ n.kind = "host_name"
  BY DEF HostNames
<1>3. e \in ToSet(input.content.extensions) /\ n \in ToSet(e.data.list)
  BY <1>2 DEF ToSet
<1>4. ValidDnsName(Lower(n.name)) /\ name = Lower(n.name)
  BY <1>1
<1> HIDE DEF e, n
<1>5. n.name \in Seq(ToSet(n.name))
  BY <1>2, <1>3 DEF InputInv, ContentTyped
<1>6. Lower(n.name) \in Seq({LowerOf[x] : x \in ToSet(n.name)})
  BY <1>5, LowerIsSeq
<1> QED
  BY <1>4, <1>6

\* A route that was chosen is the one of the most specific row.
LEMMA SelectsMostSpecific == ASSUME IndInv, NameExact PROVE MostSpecificRowWins
<1> SUFFICES ASSUME route \notin {Unresolved, LookupFailed}
             PROVE  LET covering == {i \in DOMAIN file : Covers(file[i].hostname)}
                        exact == {i \in covering : file[i].hostname[1] # Star}
                    IN  IF covering = {} THEN route = NotFound
                        ELSE \E i \in (IF exact # {} THEN exact ELSE covering) :
                                 route = BackendParse(file[i].backend)
  BY DEF MostSpecificRowWins
<1> DEFINE table == BuildRouteTable(file)
           Key(i) == RouteKeyParse(file[i].hostname)
           covering == {i \in DOMAIN file : Covers(file[i].hostname)}
           exact == {i \in covering : file[i].hostname[1] # Star}
           wild == WildcardKey(Tail(name))
<1>1. hello = "Named" /\ RouteFrom(table)
  BY DEF IndInv, RouteInv
<1>2. ValidDnsName(name) /\ \E T : name \in Seq(T)
  BY <1>1, NameIsValid DEF IndInv
<1>3. route = IF ExactKey(name) \in DOMAIN table THEN table[ExactKey(name)]
              ELSE IF Len(name) >= 3 /\ wild \in DOMAIN table THEN table[wild]
              ELSE NotFound
  <2>1. PICK extra \in SUBSET DOMAIN table :
            route = SelectRoute(name, Hits(table, name) \cup extra, table)
    BY <1>1 DEF RouteFrom
  <2> HIDE DEF table
  <2> QED
    BY <2>1, SelectsFirstCandidate
<1>4. \A i \in DOMAIN file : KeyParses(file[i].hostname)
  <2>1. Len(file) \in Nat /\ DOMAIN file = 1 .. Len(file) /\ TableError(file) = Ok
    BY LenProperties DEF IndInv, InputInv
  <2> QED
    BY <2>1, TableErrorOk
<1>5. ASSUME NEW i \in DOMAIN file
      PROVE  /\ file[i].hostname[1] # Star => (i \in covering <=> Key(i) = ExactKey(name))
             /\ file[i].hostname[1] # Star => Key(i) = ExactKey(Lower(file[i].hostname))
             /\ file[i].hostname[1] = Star => (i \in covering <=> Len(name) >= 3 /\ Key(i) = wild)
             /\ file[i].hostname[1] = Star => Key(i) = WildcardKey(Lower(Tail(file[i].hostname)))
  <2>1. PICK T : name \in Seq(T)
    BY <1>2
  <2> DEFINE h == file[i].hostname
  <2>2. h \in Seq(ToSet(h)) /\ KeyParses(h)
    BY <1>4 DEF IndInv, InputInv
  <2> HIDE DEF h
  <2>3. /\ h[1] # Star => RouteKeyParse(h) = ExactKey(Lower(h))
                          /\ (Covers(h) <=> RouteKeyParse(h) = ExactKey(name))
        /\ h[1] = Star => RouteKeyParse(h) = WildcardKey(Lower(Tail(h)))
                          /\ (Covers(h) <=> Len(name) >= 3 /\ RouteKeyParse(h) = wild)
    BY <1>2, <2>1, <2>2, CoversIsCandidate
  <2> QED
    BY <2>3 DEF h
<1>6. \A i \in DOMAIN file : i \in exact <=> Key(i) = ExactKey(name)
  BY <1>5, KeysDiffer
<1>7. \A i \in DOMAIN file : i \in covering /\ i \notin exact <=> Len(name) >= 3 /\ Key(i) = wild
  BY <1>5, KeysDiffer
<1>8. /\ \A k : k \in DOMAIN table <=> \E i \in DOMAIN file : Key(i) = k
      /\ \A k \in DOMAIN table :
             \E i \in DOMAIN file : Key(i) = k /\ table[k] = BackendParse(file[i].backend)
  BY TableOfRows
<1>9. exact \subseteq covering /\ covering \subseteq DOMAIN file
  OBVIOUS
<1> HIDE DEF table, Key, covering, exact, wild
<1>10. CASE ExactKey(name) \in DOMAIN table
  <2>1. PICK i \in DOMAIN file :
            Key(i) = ExactKey(name) /\ table[ExactKey(name)] = BackendParse(file[i].backend)
    BY <1>8, <1>10
  <2>2. i \in exact /\ route = BackendParse(file[i].backend)
    BY <1>3, <1>6, <1>10, <2>1
  <2> QED
    BY <1>9, <2>2 DEF covering, exact
<1>11. CASE ExactKey(name) \notin DOMAIN table /\ Len(name) >= 3 /\ wild \in DOMAIN table
  <2>1. PICK i \in DOMAIN file : Key(i) = wild /\ table[wild] = BackendParse(file[i].backend)
    BY <1>8, <1>11
  <2>2. exact = {}
    BY <1>6, <1>8, <1>9, <1>11
  <2>3. i \in covering /\ route = BackendParse(file[i].backend)
    BY <1>3, <1>7, <1>11, <2>1
  <2> QED
    BY <2>2, <2>3 DEF covering, exact
<1>12. CASE ExactKey(name) \notin DOMAIN table /\ ~(Len(name) >= 3 /\ wild \in DOMAIN table)
  <2>1. covering = {}
    BY <1>6, <1>7, <1>8, <1>9, <1>12
  <2> QED
    BY <1>3, <1>12, <2>1 DEF covering
<1> QED
  BY <1>10, <1>11, <1>12

(* select_route and RouteKey::wildcard_for: for every hello, every route file that
   loads and every set of rows the store adds unasked, the row that names the host
   exactly wins, then the wildcard row one label up, then no row. *)
THEOREM MostSpecificRowIsChosen == Spec => []MostSpecificRowWins
<1>1. IndInv /\ NameExact => MostSpecificRowWins
  BY SelectsMostSpecific
<1> QED
  BY <1>1, IngressInvariant, OnlyTheHellosName, PTL
=============================================================================
