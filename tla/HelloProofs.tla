---------------------------- MODULE HelloProofs -----------------------------
(***************************************************************************)
(* Proofs that Ingress reads the ClientHello right: what scan_records says *)
(* of any prefix of any stream of records is what Events, a description    *)
(* without a scan, says is earliest in it.                                 *)
(***************************************************************************)
EXTENDS IngressProofs

-----------------------------------------------------------------------------
(* Sequences put together from parts: FlattenSeq, by induction over the parts. *)

\* The first n parts, put together.
Joined(s, n) == FlattenSeq(SubSeq(s, 1, n))

\* The loop of FlattenSeq.
JoinLoop(g, s, m) == g = [i \in 1 .. m |-> IF i = 1 THEN s[i] ELSE g[i - 1] \o s[i]]

\* The loop has a result for every number of parts.
LEMMA JoinLoopEnds ==
    ASSUME NEW s, NEW N \in Nat
    PROVE  \E g : JoinLoop(g, s, N)
<1> DEFINE S == {m \in 0 .. N : \E g : JoinLoop(g, s, m)}
<1>1. 0 \in S
  <2> DEFINE g == [i \in 1 .. 0 |-> s[i]]
  <2>1. 1 .. 0 = {}
    OBVIOUS
  <2>2. JoinLoop(g, s, 0)
    BY <2>1 DEF JoinLoop
  <2> HIDE DEF g
  <2> QED
    BY <2>2
<1>2. ASSUME NEW m \in 0 .. N, m \in S, m < N PROVE m + 1 \in S
  <2>1. PICK g : JoinLoop(g, s, m)
    BY <1>2
  <2> DEFINE h == [i \in 1 .. m + 1 |->
                      IF i = m + 1 THEN IF i = 1 THEN s[i] ELSE g[m] \o s[i] ELSE g[i]]
  <2>2. m \in Nat /\ m + 1 \in 0 .. N /\ m + 1 \in 1 .. m + 1 /\ (m + 1) - 1 = m
    BY <1>2
  <2>3. ASSUME NEW i \in 1 .. m + 1
        PROVE  h[i] = IF i = 1 THEN s[i] ELSE h[i - 1] \o s[i]
    <3>1. CASE i = m + 1
      <4>1. i # 1 => m \in 1 .. m + 1 /\ m # m + 1
        BY <2>2, <3>1
      <4>2. i # 1 => h[m] = g[m]
        BY <4>1
      <4> QED
        BY <2>2, <3>1, <4>2
    <3>2. CASE i # m + 1
      <4>1. i \in 1 .. m
        BY <2>2, <3>2
      <4>2. h[i] = g[i] /\ g[i] = IF i = 1 THEN s[i] ELSE g[i - 1] \o s[i]
        BY <2>1, <3>2, <4>1 DEF JoinLoop
      <4>3. i # 1 => i - 1 \in 1 .. m + 1 /\ i - 1 # m + 1
        BY <2>2, <4>1
      <4>4. i # 1 => h[i - 1] = g[i - 1]
        BY <4>3
      <4> HIDE DEF h
      <4> QED
        BY <4>2, <4>4
    <3> QED
      BY <3>1, <3>2
  <2>4. JoinLoop(h, s, m + 1)
    BY <2>3 DEF JoinLoop
  <2> HIDE DEF h
  <2> QED
    BY <2>2, <2>4
<1>3. \A m \in 0 .. N : m \in S
  <2> HIDE DEF S
  <2> QED
    BY <1>1, <1>2, UpToInduction
<1> QED
  BY <1>3

\* Its result is the only one, and what FlattenSeq gives for the first parts.
LEMMA JoinedIsLoop ==
    ASSUME NEW T, NEW s \in Seq(T), NEW g, JoinLoop(g, s, Len(s)), NEW n \in 1 .. Len(s)
    PROVE  Joined(s, n) = g[n]
<1> DEFINE p == SubSeq(s, 1, n)
           f == CHOOSE h : JoinLoop(h, p, n)
<1>0. Len(s) \in Nat /\ n \in Nat
  BY LenProperties
<1>1. Len(p) = n /\ \A i \in 1 .. n : p[i] = s[i]
  <2>1. \A i \in 1 .. n : s[i] \in T
    BY <1>0, ElementOfSeq
  <2>2. Len(p) = (IF 1 <= n THEN n - 1 + 1 ELSE 0) /\ \A i \in 1 .. n - 1 + 1 : p[i] = s[1 + i - 1]
    BY <1>0, <2>1, SubSeqProperties
  <2> HIDE DEF p
  <2> QED
    BY <1>0, <2>2
<1> HIDE DEF p
<1>2. Joined(s, n) = f[n]
  <2>1. FlattenSeq(p) = f[n]
    BY <1>0, <1>1 DEF FlattenSeq, JoinLoop
  <2> QED
    BY <2>1 DEF Joined, p
<1>3. JoinLoop(f, p, n)
  <2>1. \E h : JoinLoop(h, p, n)
    BY <1>0, JoinLoopEnds
  <2> QED
    BY <2>1
<1> HIDE DEF f
<1> DEFINE S == {i \in 0 .. n : i = 0 \/ f[i] = g[i]}
<1>4. 0 \in S
  BY <1>0
<1>5. ASSUME NEW i \in 0 .. n, i \in S, i < n PROVE i + 1 \in S
  <2>1. /\ i + 1 \in 1 .. n /\ i + 1 \in 1 .. Len(s) /\ (i + 1) - 1 = i /\ i + 1 \in 0 .. n
        /\ (i + 1 = 1 <=> i = 0)
    BY <1>0, <1>5
  <2>2. f[i + 1] = IF i + 1 = 1 THEN p[i + 1] ELSE f[i] \o p[i + 1]
    BY <1>3, <2>1 DEF JoinLoop
  <2>3. g[i + 1] = IF i + 1 = 1 THEN s[i + 1] ELSE g[i] \o s[i + 1]
    BY <2>1 DEF JoinLoop
  <2>4. f[i + 1] = g[i + 1]
    BY <1>1, <1>5, <2>1, <2>2, <2>3
  <2> QED
    BY <2>1, <2>4
<1>6. \A i \in 0 .. n : i \in S
  <2> HIDE DEF S
  <2> QED
    BY <1>0, <1>4, <1>5, UpToInduction
<1>7. n \in 0 .. n /\ n # 0
  BY <1>0
<1> QED
  BY <1>2, <1>6, <1>7

\* One more part is appended.
LEMMA JoinedGrows ==
    ASSUME NEW T, NEW s \in Seq(Seq(T))
    PROVE  /\ Joined(s, 0) = <<>>
           /\ \A n \in 1 .. Len(s) : Joined(s, n) = Joined(s, n - 1) \o s[n]
           /\ FlattenSeq(s) = Joined(s, Len(s))
<1>0. Len(s) \in Nat
  BY LenProperties
<1>1. Joined(s, 0) = <<>>
  <2>1. SubSeq(s, 1, 0) = <<>>
    BY SubSeqEmpty
  <2>2. FlattenSeq(<<>>) = <<>>
    BY DEF FlattenSeq
  <2> QED
    BY <2>1, <2>2 DEF Joined
<1>2. ASSUME NEW n \in 1 .. Len(s) PROVE Joined(s, n) = Joined(s, n - 1) \o s[n]
  <2>1. PICK g : JoinLoop(g, s, Len(s))
    BY <1>0, JoinLoopEnds
  <2>2. \A i \in 1 .. Len(s) : Joined(s, i) = g[i]
    BY <2>1, JoinedIsLoop
  <2>3. g[n] = IF n = 1 THEN s[n] ELSE g[n - 1] \o s[n]
    BY <2>1 DEF JoinLoop
  <2>4. CASE n = 1
    <3>1. s[n] \in Seq(T)
      BY ElementOfSeq
    <3>2. <<>> \o s[n] = s[n]
      BY <3>1, ConcatEmptySeq
    <3> QED
      BY <1>1, <2>2, <2>3, <2>4, <3>2
  <2>5. CASE n # 1
    <3>1. n - 1 \in 1 .. Len(s)
      BY <1>0, <2>5
    <3> QED
      BY <2>2, <2>3, <2>5, <3>1
  <2> QED
    BY <2>4, <2>5
<1>3. FlattenSeq(s) = Joined(s, Len(s))
  BY SubSeqFull DEF Joined
<1> QED
  BY <1>1, <1>2, <1>3

\* The lengths add up.
LEMMA JoinedLengths ==
    ASSUME NEW T, NEW s \in Seq(Seq(T))
    PROVE  /\ \A n \in 0 .. Len(s) : Joined(s, n) \in Seq(T) /\ Len(Joined(s, n)) \in Nat
           /\ Len(Joined(s, 0)) = 0
           /\ \A n \in 1 .. Len(s) : Len(Joined(s, n)) = Len(Joined(s, n - 1)) + Len(s[n])
<1> DEFINE N == Len(s)
           S == {n \in 0 .. N : Joined(s, n) \in Seq(T)}
<1>0. N \in Nat
  BY LenProperties
<1>1. /\ Joined(s, 0) = <<>>
      /\ \A n \in 1 .. N : Joined(s, n) = Joined(s, n - 1) \o s[n]
  BY JoinedGrows
<1>2. \A n \in 1 .. N : s[n] \in Seq(T)
  BY ElementOfSeq
<1> HIDE DEF N
<1>3. 0 \in S
  <2>1. <<>> \in Seq(T) /\ 0 \in 0 .. N
    BY <1>0, EmptySeq
  <2> QED
    BY <1>1, <2>1
<1>4. ASSUME NEW n \in 0 .. N, n \in S, n < N PROVE n + 1 \in S
  <2>1. n + 1 \in 1 .. N /\ n + 1 \in 0 .. N /\ (n + 1) - 1 = n
    BY <1>0, <1>4
  <2>2. Joined(s, n + 1) = Joined(s, n) \o s[n + 1]
    BY <1>1, <2>1
  <2>3. Joined(s, n + 1) \in Seq(T)
    BY <1>2, <1>4, <2>1, <2>2, ConcatProperties, ZenonT(30)
  <2> QED
    BY <2>1, <2>3
<1>5. \A n \in 0 .. N : n \in S
  <2> HIDE DEF S
  <2> QED
    BY <1>0, <1>3, <1>4, UpToInduction
<1>6. \A n \in 0 .. N : Joined(s, n) \in Seq(T) /\ Len(Joined(s, n)) \in Nat
  BY <1>5, LenProperties
<1>7. ASSUME NEW n \in 1 .. N PROVE Len(Joined(s, n)) = Len(Joined(s, n - 1)) + Len(s[n])
  <2>1. n - 1 \in 0 .. N
    BY <1>0
  <2> QED
    BY <1>1, <1>2, <1>6, <2>1, ConcatProperties
<1> QED
  BY <1>1, <1>6, <1>7, EmptySeq DEF N

\* Parts that follow leave what is there alone.
LEMMA JoinedKeeps ==
    ASSUME NEW T, NEW s \in Seq(Seq(T)), NEW n \in 0 .. Len(s)
    PROVE  \A m \in n .. Len(s) :
               /\ Len(Joined(s, n)) <= Len(Joined(s, m))
               /\ \A k \in 1 .. Len(Joined(s, n)) : Joined(s, m)[k] = Joined(s, n)[k]
<1> DEFINE N == Len(s)
           l == Len(Joined(s, n))
           Kept(m) == l <= Len(Joined(s, m)) /\ \A k \in 1 .. l : Joined(s, m)[k] = Joined(s, n)[k]
           S == {m \in 0 .. N : m >= n => Kept(m)}
<1>0. N \in Nat /\ n \in 0 .. N
  BY LenProperties
<1>1. \A m \in 0 .. N : Joined(s, m) \in Seq(T) /\ Len(Joined(s, m)) \in Nat
  BY JoinedLengths
<1>2. \A m \in 1 .. N : Joined(s, m) = Joined(s, m - 1) \o s[m]
  BY JoinedGrows
<1>3. \A m \in 1 .. N : s[m] \in Seq(T) /\ Len(s[m]) \in Nat
  BY ElementOfSeq, LenProperties
<1> HIDE DEF N
<1>4. Kept(n)
  BY <1>0, <1>1
<1>5. 0 \in S
  <2>1. 0 >= n => n = 0
    BY <1>0
  <2> HIDE DEF Kept
  <2> QED
    BY <1>0, <1>4, <2>1
<1>6. ASSUME NEW m \in 0 .. N, m \in S, m < N PROVE m + 1 \in S
  <2>1. m + 1 \in 1 .. N /\ m + 1 \in 0 .. N /\ (m + 1) - 1 = m
    BY <1>0, <1>6
  <2>2. CASE m + 1 = n
    BY <1>4, <2>1, <2>2
  <2>3. CASE m >= n
    <3> DEFINE a == Joined(s, m)
               b == s[m + 1]
               c == Joined(s, m + 1)
    <3>1. c = a \o b /\ a \in Seq(T) /\ b \in Seq(T)
      BY <1>1, <1>2, <1>3, <2>1
    <3>2. Len(a) \in Nat /\ Len(b) \in Nat /\ l \in Nat
      BY <1>0, <1>1, <1>3, <2>1
    <3>3. /\ Len(c) = Len(a) + Len(b)
          /\ \A i \in 1 .. Len(a) + Len(b) : c[i] = IF i <= Len(a) THEN a[i] ELSE b[i - Len(a)]
      BY <3>1, ConcatProperties
    <3>4. l <= Len(a) /\ \A k \in 1 .. l : a[k] = Joined(s, n)[k]
      BY <1>6, <2>3
    <3> HIDE DEF a, b, c, l
    <3>5. l <= Len(c) /\ \A k \in 1 .. l : c[k] = Joined(s, n)[k]
      BY <3>2, <3>3, <3>4
    <3> QED
      BY <2>1, <3>5 DEF c
  <2>4. CASE m + 1 < n
    BY <1>0, <2>1, <2>4
  <2>5. m + 1 = n \/ m >= n \/ m + 1 < n
    BY <1>0, <2>1
  <2> QED
    BY <2>2, <2>3, <2>4, <2>5
<1>7. \A m \in 0 .. N : m \in S
  <2> HIDE DEF S
  <2> QED
    BY <1>0, <1>5, <1>6, UpToInduction
<1>8. \A m \in n .. N : m \in 0 .. N /\ m >= n
  BY <1>0
<1> QED
  BY <1>7, <1>8 DEF N

\* Where an element of a part stands in the whole.
LEMMA PartAt ==
    ASSUME NEW T, NEW s \in Seq(Seq(T)), NEW n \in 1 .. Len(s), NEW k \in 1 .. Len(s[n])
    PROVE  FlattenSeq(s)[Len(Joined(s, n - 1)) + k] = s[n][k]
<1> DEFINE a == Joined(s, n - 1)
           b == s[n]
           c == Joined(s, n)
<1>0. Len(s) \in Nat /\ n - 1 \in 0 .. Len(s) /\ n \in 0 .. Len(s) /\ Len(s) \in n .. Len(s)
  BY LenProperties
<1>1. b \in Seq(T) /\ Len(b) \in Nat
  BY ElementOfSeq, LenProperties
<1>2. a \in Seq(T) /\ Len(a) \in Nat /\ c = a \o b
  BY <1>0, JoinedLengths, JoinedGrows
<1>3. /\ Len(c) = Len(a) + Len(b)
      /\ \A i \in 1 .. Len(a) + Len(b) : c[i] = IF i <= Len(a) THEN a[i] ELSE b[i - Len(a)]
  <2> HIDE DEF a, b, c
  <2> QED
    BY <1>1, <1>2, ConcatProperties
<1>4. \A i \in 1 .. Len(c) : FlattenSeq(s)[i] = c[i]
  BY <1>0, JoinedKeeps, JoinedGrows
<1>5. k \in 1 .. Len(b)
  OBVIOUS
<1> HIDE DEF a, b, c
<1>6. Len(a) + k \in 1 .. Len(c) /\ ~(Len(a) + k <= Len(a)) /\ (Len(a) + k) - Len(a) = k
  BY <1>1, <1>2, <1>3, <1>5
<1>7. FlattenSeq(s)[Len(a) + k] = b[k]
  BY <1>3, <1>4, <1>6
<1> QED
  BY <1>7 DEF a, b

\* Every element of the whole stands in a part.
LEMMA PartOf ==
    ASSUME NEW T, NEW s \in Seq(Seq(T)), NEW k \in 1 .. Len(FlattenSeq(s))
    PROVE  \E n \in 1 .. Len(s) : Len(Joined(s, n - 1)) < k /\ k <= Len(Joined(s, n))
<1> DEFINE N == Len(s)
           L(n) == Len(Joined(s, n))
           past == {n \in 0 .. N : k <= L(n)}
           m == Min(past)
<1>1. L(0) = 0 /\ \A n \in 0 .. N : L(n) \in Nat
  BY JoinedLengths
<1>0. N \in Nat /\ k \in Nat /\ k >= 1 /\ k <= L(N)
  <2>1. N \in Nat
    BY LenProperties
  <2>2. k \in 1 .. L(N)
    BY JoinedGrows
  <2> HIDE DEF N, L
  <2>3. L(N) \in Nat
    BY <1>1, <2>1
  <2> QED
    BY <2>1, <2>2, <2>3
<1> HIDE DEF N, L
<1>2. m \in past /\ \A y \in past : m <= y
  <2>1. N \in past
    BY <1>0
  <2>2. past \in SUBSET Nat
    OBVIOUS
  <2> HIDE DEF past
  <2> QED
    BY <2>1, <2>2, MinIsLeast
<1> HIDE DEF m
<1>3. m \in 0 .. N /\ k <= L(m)
  BY <1>2
<1>4. m # 0
  BY <1>0, <1>1, <1>3
<1>5. m \in 1 .. N /\ m - 1 \in 0 .. N /\ ~(m <= m - 1)
  BY <1>0, <1>3, <1>4
<1>6. ~(k <= L(m - 1))
  BY <1>2, <1>5
<1>7. L(m - 1) < k
  BY <1>0, <1>1, <1>5, <1>6, SMTT(30)
<1> QED
  BY <1>3, <1>5, <1>7 DEF N, L

-----------------------------------------------------------------------------
(* The records on the wire.                                                *)

Encoded == [i \in DOMAIN Records |-> Encode(Records[i])]
Payloads == [i \in DOMAIN Records |-> Records[i].payload]
Marks == [i \in DOMAIN Records |->
             [j \in DOMAIN Records[i].payload |-> StartOf(i) + RECORD_HEADER_LEN + j]]

\* The bytes of the first n records on the wire, and the handshake's among them.
Reach(n) == Len(Joined(Encoded, n))
Carried(n) == Len(Joined(Payloads, n))

\* A length in two bytes.
LEMMA TwoBytes ==
    ASSUME NEW l \in U16
    PROVE  /\ l \in Nat /\ l \div 256 \in Byte /\ l % 256 \in Byte
           /\ 256 * (l \div 256) + (l % 256) = l
<1>1. l \in Nat /\ l < 256 * 256
  BY SMTT(30) DEF U16
<1>2. 256 * (l \div 256) + (l % 256) = l
  BY <1>1, SMT
<1>3. l % 256 \in 0 .. 255
  BY <1>1, SMT
<1>4. \A m \in Nat : l < 256 * m => l \div 256 \in 0 .. m - 1
  BY <1>1, SMT
<1>5. l \div 256 \in 0 .. 256 - 1
  BY <1>1, <1>4, SMT
<1>6. l \div 256 \in 0 .. 255
  BY <1>5, SMT
<1> QED
  BY <1>1, <1>2, <1>3, <1>6, SMTT(30) DEF Byte

\* The records are a list of records.
LEMMA RecordsTyped ==
    ASSUME Sendable(Records)
    PROVE  /\ Len(Records) \in Nat /\ DOMAIN Records = 1 .. Len(Records)
           /\ \A i \in 1 .. Len(Records) :
                  /\ Records[i].type \in Byte /\ Records[i].major \in Byte
                  /\ Records[i].len \in U16 /\ Records[i].len \in Nat
                  /\ Records[i].payload \in Seq(Byte) /\ Len(Records[i].payload) \in Nat
                  /\ Records[i].len \in 1 .. MAX_RECORD_PAYLOAD =>
                         /\ Len(Records[i].payload) <= Records[i].len
                         /\ i < Len(Records) => Len(Records[i].payload) = Records[i].len
<1> DEFINE R == [type : Byte, major : Byte, len : U16, payload : Seq(Byte)]
<1>1. Records \in Seq(R)
  BY DEF Sendable
<1>2. Len(Records) \in Nat /\ DOMAIN Records = 1 .. Len(Records)
  BY <1>1, LenProperties
<1>3. ASSUME NEW i \in 1 .. Len(Records)
      PROVE  /\ Records[i].type \in Byte /\ Records[i].major \in Byte
             /\ Records[i].len \in U16 /\ Records[i].len \in Nat
             /\ Records[i].payload \in Seq(Byte) /\ Len(Records[i].payload) \in Nat
  <2>1. Records[i] \in R
    BY <1>1, ElementOfSeq
  <2>2. /\ Records[i].type \in Byte /\ Records[i].major \in Byte
        /\ Records[i].len \in U16 /\ Records[i].payload \in Seq(Byte)
    BY <2>1
  <2>3. Records[i].len \in Nat
    BY <2>2, TwoBytes
  <2> QED
    BY <2>2, <2>3, LenProperties
<1> QED
  BY <1>2, <1>3 DEF Sendable

\* A record on the wire: its header, then its payload.
LEMMA Encoding ==
    ASSUME NEW r, r.type \in Byte, r.major \in Byte, r.len \in U16, r.payload \in Seq(Byte)
    PROVE  /\ Encode(r) \in Seq(Byte)
           /\ Len(Encode(r)) = RECORD_HEADER_LEN + Len(r.payload)
           /\ Encode(r)[1] = r.type /\ Encode(r)[2] = r.major
           /\ 256 * Encode(r)[4] + Encode(r)[5] = r.len
           /\ \A k \in 1 .. Len(r.payload) : Encode(r)[RECORD_HEADER_LEN + k] = r.payload[k]
<1> DEFINE a == r.type
           b == r.major
           l == r.len
           p == r.payload
           d == l \div 256
           e == l % 256
           h == <<a, b, 1, d, e>>
           x == h \o p
<1>1. d \in Byte /\ e \in Byte /\ 256 * d + e = l
  BY TwoBytes
<1>2. a \in Byte /\ b \in Byte /\ p \in Seq(Byte) /\ Len(p) \in Nat
  BY LenProperties
<1>3. Encode(r) = x
  BY DEF Encode
<1> HIDE DEF a, b, d, e, p
<1>4. /\ h \in Seq(Byte) /\ Len(h) = 5
      /\ h[1] = a /\ h[2] = b /\ h[4] = d /\ h[5] = e
  <2>1. d \in Byte /\ e \in Byte /\ 1 \in Byte
    BY <1>1 DEF Byte
  <2> HIDE DEF Byte
  <2> QED
    BY <1>2, <2>1
<1> HIDE DEF h
<1>5. /\ x \in Seq(Byte) /\ Len(x) = Len(h) + Len(p)
      /\ \A i \in 1 .. Len(h) + Len(p) : x[i] = IF i <= Len(h) THEN h[i] ELSE p[i - Len(h)]
  BY <1>2, <1>4, ConcatProperties
<1> HIDE DEF x
<1>6. x[1] = a /\ x[2] = b /\ x[4] = d /\ x[5] = e /\ Len(x) = 5 + Len(p)
  BY <1>2, <1>4, <1>5
<1>7. ASSUME NEW k \in 1 .. Len(p) PROVE x[5 + k] = p[k]
  <2>1. 5 + k \in 1 .. Len(h) + Len(p) /\ ~(5 + k <= Len(h)) /\ (5 + k) - Len(h) = k
    BY <1>2, <1>4
  <2> QED
    BY <1>5, <2>1
<1>8. 256 * x[4] + x[5] = l
  BY <1>1, <1>6
<1> QED
  BY <1>3, <1>5, <1>6, <1>7, <1>8 DEF RECORD_HEADER_LEN, a, b, p

\* Where the records and their bytes are on the wire.
LEMMA WireLayout ==
    ASSUME Sendable(Records)
    PROVE  /\ Encoded \in Seq(Seq(Byte)) /\ Len(Encoded) = Len(Records)
           /\ Reach(0) = 0 /\ \A n \in 0 .. Len(Records) : Reach(n) \in Nat
           /\ Wire(Records) \in Seq(Byte) /\ Len(Wire(Records)) = Reach(Len(Records))
           /\ \A n \in 1 .. Len(Records) :
                  /\ Reach(n) = Reach(n - 1) + RECORD_HEADER_LEN + Len(Records[n].payload)
                  /\ StartOf(n) = Reach(n - 1)
                  /\ \A k \in 1 .. Len(Encode(Records[n])) :
                         Wire(Records)[Reach(n - 1) + k] = Encode(Records[n])[k]
<1> DEFINE N == Len(Records)
<1>1. N \in Nat /\ DOMAIN Records = 1 .. N
  BY RecordsTyped
<1>2. \A i \in 1 .. N : /\ Encode(Records[i]) \in Seq(Byte)
                        /\ Len(Encode(Records[i])) = RECORD_HEADER_LEN + Len(Records[i].payload)
  BY RecordsTyped, Encoding
<1>3. /\ Encoded \in Seq(Seq(Byte)) /\ Len(Encoded) = N
      /\ \A i \in 1 .. N : Encoded[i] = Encode(Records[i])
  <2> DEFINE E(i) == Encode(Records[i])
  <2>1. Encoded = [i \in 1 .. N |-> E(i)]
    BY <1>1 DEF Encoded
  <2>2. \A i \in 1 .. N : E(i) \in Seq(Byte)
    BY <1>2
  <2> HIDE DEF E, N
  <2>3. Encoded \in Seq(Seq(Byte))
    BY <1>1, <2>1, <2>2
  <2>4. Len(Encoded) = N
    BY <1>1, <2>1, <2>3, LenProperties
  <2> QED
    BY <2>1, <2>3, <2>4 DEF E
<1>4. Wire(Records) = FlattenSeq(Encoded)
  BY DEF Wire, Encoded
<1>5. /\ \A n \in 0 .. N : Joined(Encoded, n) \in Seq(Byte) /\ Reach(n) \in Nat
      /\ Reach(0) = 0
      /\ \A n \in 1 .. N : Reach(n) = Reach(n - 1) + Len(Encoded[n])
  BY <1>3, JoinedLengths DEF Reach
<1>6. Wire(Records) = Joined(Encoded, N)
  BY <1>3, <1>4, JoinedGrows
<1>7. Wire(Records) \in Seq(Byte) /\ Len(Wire(Records)) = Reach(N)
  BY <1>1, <1>5, <1>6 DEF Reach
<1>8. ASSUME NEW n \in 1 .. N
      PROVE  /\ Reach(n) = Reach(n - 1) + RECORD_HEADER_LEN + Len(Records[n].payload)
             /\ StartOf(n) = Reach(n - 1)
             /\ \A k \in 1 .. Len(Encode(Records[n])) :
                    Wire(Records)[Reach(n - 1) + k] = Encode(Records[n])[k]
  <2>1. Reach(n) = Reach(n - 1) + RECORD_HEADER_LEN + Len(Records[n].payload)
    <3>1. n - 1 \in 0 .. N
      BY <1>1
    <3>2. Reach(n - 1) \in Nat /\ Len(Records[n].payload) \in Nat /\ RECORD_HEADER_LEN \in Nat
      BY <1>5, <3>1, RecordsTyped DEF RECORD_HEADER_LEN
    <3>3. Reach(n) = Reach(n - 1) + (RECORD_HEADER_LEN + Len(Records[n].payload))
      BY <1>2, <1>3, <1>5
    <3> QED
      BY <3>2, <3>3
  <2>2. StartOf(n) = Reach(n - 1)
    <3> DEFINE m == n - 1
               p == SubSeq(Records, 1, m)
               R == [type : Byte, major : Byte, len : U16, payload : Seq(Byte)]
    <3>1. m \in 0 .. N /\ m \in Nat
      BY <1>1
    <3> HIDE DEF m
    <3>2. \A i \in 1 .. m : Records[i] \in R
      <4>1. Records \in Seq(R)
        BY DEF Sendable
      <4>2. \A i \in 1 .. m : i \in 1 .. Len(Records)
        BY <1>1, <3>1
      <4> HIDE DEF R
      <4> QED
        BY <4>1, <4>2, ElementOfSeq
    <3>3. p \in Seq(R) /\ Len(p) = m /\ \A i \in 1 .. m : p[i] = Records[i]
      <4>1. /\ p \in Seq(R) /\ Len(p) = (IF 1 <= m THEN m - 1 + 1 ELSE 0)
            /\ \A i \in 1 .. m - 1 + 1 : p[i] = Records[1 + i - 1]
        BY <3>1, <3>2, SubSeqProperties
      <4> HIDE DEF p, R
      <4> QED
        BY <3>1, <4>1
    <3>4. DOMAIN p = 1 .. m
      <4> HIDE DEF p, R
      <4> QED
        BY <3>3, LenProperties
    <3> HIDE DEF p
    <3> DEFINE q == [i \in DOMAIN p |-> Encode(p[i])]
               u == SubSeq(Encoded, 1, m)
    <3>5. \A i \in 1 .. m : q[i] = Encoded[i] /\ Encoded[i] \in Seq(Byte)
      BY <1>2, <1>3, <3>1, <3>3, <3>4
    <3>6. q \in Seq(Seq(Byte)) /\ Len(q) = m
      <4>1. q = [i \in 1 .. m |-> Encoded[i]]
        BY <3>4, <3>5
      <4> HIDE DEF q
      <4>2. q \in Seq(Seq(Byte))
        BY <3>1, <3>5, <4>1
      <4> QED
        BY <3>1, <4>1, <4>2, LenProperties
    <3>7. u \in Seq(Seq(Byte)) /\ Len(u) = m /\ \A i \in 1 .. m : u[i] = Encoded[i]
      <4>1. /\ u \in Seq(Seq(Byte)) /\ Len(u) = (IF 1 <= m THEN m - 1 + 1 ELSE 0)
            /\ \A i \in 1 .. m - 1 + 1 : u[i] = Encoded[1 + i - 1]
        <5>1. \A i \in 1 .. m : Encoded[i] \in Seq(Byte)
          BY <3>5
        <5> HIDE DEF q
        <5> QED
          BY <3>1, <5>1, SubSeqProperties
      <4> HIDE DEF u
      <4> QED
        BY <3>1, <4>1
    <3> HIDE DEF q, u
    <3>8. q = u
      BY <3>5, <3>6, <3>7, SeqEqual
    <3> QED
      BY <3>8 DEF StartOf, Wire, Reach, Joined, m, p, q, u
  <2>3. \A k \in 1 .. Len(Encode(Records[n])) :
            Wire(Records)[Reach(n - 1) + k] = Encode(Records[n])[k]
    <3>1. \A k \in 1 .. Len(Encoded[n]) :
              FlattenSeq(Encoded)[Len(Joined(Encoded, n - 1)) + k] = Encoded[n][k]
      <4>1. n \in 1 .. Len(Encoded) /\ Encoded \in Seq(Seq(Byte))
        BY <1>3
      <4> QED
        BY <4>1, PartAt
    <3> QED
      BY <1>3, <1>4, <3>1 DEF Reach
  <2> QED
    BY <2>1, <2>2, <2>3
<1> QED
  BY <1>3, <1>5, <1>7, <1>8

\* The beginning of a list, as a function of the places.
LEMMA PrefixIs ==
    ASSUME NEW T, NEW s \in Seq(T), NEW n \in 0 .. Len(s)
    PROVE  /\ SubSeq(s, 1, n) \in Seq(T) /\ Len(SubSeq(s, 1, n)) = n
           /\ \A i \in 1 .. n : SubSeq(s, 1, n)[i] = s[i]
           /\ SubSeq(s, 1, n) = [i \in 1 .. n |-> s[i]]
<1> DEFINE p == SubSeq(s, 1, n)
<1>0. Len(s) \in Nat /\ n \in Nat
  BY LenProperties
<1>1. \A i \in 1 .. n : s[i] \in T
  <2>1. \A i \in 1 .. n : i \in 1 .. Len(s)
    BY <1>0
  <2> QED
    BY <2>1, ElementOfSeq
<1>2. /\ p \in Seq(T) /\ Len(p) = (IF 1 <= n THEN n - 1 + 1 ELSE 0)
      /\ \A i \in 1 .. n - 1 + 1 : p[i] = s[1 + i - 1]
  BY <1>0, <1>1, SubSeqProperties
<1> HIDE DEF p
<1>3. Len(p) = n /\ \A i \in 1 .. n : p[i] = s[i]
  BY <1>0, <1>2
<1>4. p = [i \in 1 .. n |-> s[i]]
  <2>1. p \in [1 .. n -> T]
    BY <1>2, <1>3, LenProperties
  <2> QED
    BY <1>3, <2>1
<1> QED
  BY <1>2, <1>3, <1>4 DEF p

\* The first parts are the beginning of the whole.
LEMMA JoinedIsPrefix ==
    ASSUME NEW T, NEW s \in Seq(Seq(T)), NEW n \in 0 .. Len(s)
    PROVE  /\ Len(Joined(s, n)) <= Len(FlattenSeq(s))
           /\ Joined(s, n) = SubSeq(FlattenSeq(s), 1, Len(Joined(s, n)))
<1> DEFINE a == Joined(s, n)
           b == FlattenSeq(s)
           l == Len(a)
<1>0. Len(s) \in Nat /\ Len(s) \in n .. Len(s) /\ Len(s) \in 0 .. Len(s)
  BY LenProperties
<1>1. b = Joined(s, Len(s))
  BY JoinedGrows
<1>2. a \in Seq(T) /\ l \in Nat /\ b \in Seq(T) /\ Len(b) \in Nat
  BY <1>0, <1>1, JoinedLengths
<1>3. l <= Len(b) /\ \A k \in 1 .. l : b[k] = a[k]
  BY <1>0, <1>1, JoinedKeeps
<1> HIDE DEF a, b
<1>4. l \in 0 .. Len(b)
  BY <1>2, <1>3
<1>5. /\ SubSeq(b, 1, l) \in Seq(T) /\ Len(SubSeq(b, 1, l)) = l
      /\ \A i \in 1 .. l : SubSeq(b, 1, l)[i] = b[i]
  BY <1>2, <1>4, PrefixIs
<1>6. a = SubSeq(b, 1, l)
  BY <1>2, <1>3, <1>5, SeqEqual
<1> QED
  BY <1>3, <1>6 DEF a, b

\* The handshake's bytes, in the records and on the wire.
LEMMA HandshakeLayout ==
    ASSUME Sendable(Records)
    PROVE  /\ Payloads \in Seq(Seq(Byte)) /\ Len(Payloads) = Len(Records)
           /\ Carried(0) = 0 /\ \A n \in 0 .. Len(Records) : Carried(n) \in Nat
           /\ \A n \in 1 .. Len(Records) : Carried(n) = Carried(n - 1) + Len(Records[n].payload)
           /\ Handshake \in Seq(Byte) /\ Len(Handshake) = Carried(Len(Records))
           /\ \A n \in 1 .. Len(Records) : \A k \in 1 .. Len(Records[n].payload) :
                  /\ Handshake[Carried(n - 1) + k] = Records[n].payload[k]
                  /\ Places[Carried(n - 1) + k] = Reach(n - 1) + RECORD_HEADER_LEN + k
           /\ \A k \in 1 .. Len(Handshake) :
                  \E n \in 1 .. Len(Records) : Carried(n - 1) < k /\ k <= Carried(n)
           /\ \A n \in 0 .. Len(Records) :
                  /\ Carried(n) <= Len(Handshake)
                  /\ Joined(Payloads, n) = SubSeq(Handshake, 1, Carried(n))
                  /\ FlattenSeq([j \in 1 .. n |-> Records[j].payload]) = Joined(Payloads, n)
<1> DEFINE N == Len(Records)
           P(i) == Records[i].payload
           Q(i) == [j \in DOMAIN P(i) |-> StartOf(i) + RECORD_HEADER_LEN + j]
<1>1. N \in Nat /\ DOMAIN Records = 1 .. N
  BY RecordsTyped
<1>2. \A i \in 1 .. N : P(i) \in Seq(Byte) /\ Len(P(i)) \in Nat /\ DOMAIN P(i) = 1 .. Len(P(i))
  BY RecordsTyped, LenProperties
<1>3. Payloads = [i \in 1 .. N |-> P(i)]
  BY <1>1 DEF Payloads
<1>4. Marks = [i \in 1 .. N |-> Q(i)]
  BY <1>1 DEF Marks
<1>5. /\ Payloads \in Seq(Seq(Byte)) /\ Len(Payloads) = N
      /\ \A i \in 1 .. N : Payloads[i] = P(i)
  <2> HIDE DEF P, N
  <2>1. Payloads \in Seq(Seq(Byte))
    BY <1>1, <1>2, <1>3
  <2> QED
    BY <1>1, <1>3, <2>1, LenProperties
<1>6. Handshake = FlattenSeq(Payloads)
  BY DEF Handshake, Payloads
<1>7. Places = FlattenSeq(Marks)
  BY DEF Places, Marks
<1>8. /\ \A n \in 0 .. N : Joined(Payloads, n) \in Seq(Byte) /\ Carried(n) \in Nat
      /\ Carried(0) = 0
      /\ \A n \in 1 .. N : Carried(n) = Carried(n - 1) + Len(P(n))
  <2>1. /\ \A n \in 0 .. N : Joined(Payloads, n) \in Seq(Byte) /\ Carried(n) \in Nat
        /\ Carried(0) = 0
        /\ \A n \in 1 .. N : Carried(n) = Carried(n - 1) + Len(Payloads[n])
    <3> HIDE DEF N, P
    <3> QED
      BY <1>5, JoinedLengths DEF Carried
  <2> HIDE DEF N, P
  <2> QED
    BY <1>5, <2>1
<1>9. Handshake = Joined(Payloads, N) /\ Len(Handshake) = Carried(N) /\ Handshake \in Seq(Byte)
  <2>1. Handshake = Joined(Payloads, N)
    BY <1>5, <1>6, JoinedGrows
  <2>2. N \in 0 .. N
    BY <1>1
  <2> QED
    BY <1>8, <2>1, <2>2 DEF Carried
<1>10. \A n \in 0 .. N : /\ Carried(n) <= Len(Handshake)
                         /\ Joined(Payloads, n) = SubSeq(Handshake, 1, Carried(n))
  BY <1>5, <1>6, JoinedIsPrefix DEF Carried
<1>11. ASSUME NEW n \in 0 .. N
       PROVE  FlattenSeq([j \in 1 .. n |-> P(j)]) = Joined(Payloads, n)
  <2>1. SubSeq(Payloads, 1, n) = [j \in 1 .. n |-> Payloads[j]]
    BY <1>5, PrefixIs
  <2>2. \A j \in 1 .. n : Payloads[j] = P(j)
    BY <1>1, <1>5
  <2>3. SubSeq(Payloads, 1, n) = [j \in 1 .. n |-> P(j)]
    <3> HIDE DEF P
    <3> QED
      BY <2>1, <2>2
  <2> QED
    BY <2>3 DEF Joined
<1>12. \A k \in 1 .. Len(Handshake) : \E n \in 1 .. N : Carried(n - 1) < k /\ k <= Carried(n)
  BY <1>5, <1>6, PartOf DEF Carried
<1>13. ASSUME NEW n \in 1 .. N, NEW k \in 1 .. Len(P(n))
       PROVE  Handshake[Carried(n - 1) + k] = P(n)[k]
  <2>1. n \in 1 .. Len(Payloads) /\ k \in 1 .. Len(Payloads[n])
    BY <1>5
  <2>2. FlattenSeq(Payloads)[Len(Joined(Payloads, n - 1)) + k] = Payloads[n][k]
    BY <1>5, <2>1, PartAt
  <2> QED
    BY <1>5, <1>6, <2>2 DEF Carried
<1>14. /\ Marks \in Seq(Seq(Nat)) /\ Len(Marks) = N
       /\ \A i \in 1 .. N : /\ Marks[i] = Q(i) /\ Len(Marks[i]) = Len(P(i))
                            /\ \A k \in 1 .. Len(P(i)) :
                                   Marks[i][k] = Reach(i - 1) + RECORD_HEADER_LEN + k
  <2>1. ASSUME NEW i \in 1 .. N
        PROVE  /\ Q(i) \in Seq(Nat) /\ Len(Q(i)) = Len(P(i))
               /\ \A k \in 1 .. Len(P(i)) : Q(i)[k] = Reach(i - 1) + RECORD_HEADER_LEN + k
    <3> DEFINE l == Len(P(i))
               s == Reach(i - 1) + RECORD_HEADER_LEN
    <3>1. StartOf(i) = Reach(i - 1) /\ Reach(i - 1) \in Nat
      <4>1. i - 1 \in 0 .. N
        BY <1>1
      <4> QED
        BY <4>1, WireLayout
    <3>2. s \in Nat
      BY <3>1 DEF RECORD_HEADER_LEN
    <3>3. Q(i) = [j \in 1 .. l |-> s + j]
      BY <1>2, <3>1
    <3>4. l \in Nat
      BY <1>2
    <3> HIDE DEF l, s, P, Q
    <3>5. Q(i) \in Seq(Nat)
      <4>1. \A j \in 1 .. l : s + j \in Nat
        BY <3>2
      <4> QED
        BY <3>3, <3>4, <4>1
    <3>6. Len(Q(i)) = l /\ \A k \in 1 .. l : Q(i)[k] = s + k
      BY <3>3, <3>4, <3>5, LenProperties
    <3> QED
      BY <3>5, <3>6 DEF l, s
  <2> HIDE DEF P, Q, N
  <2>2. Marks \in Seq(Seq(Nat))
    BY <1>1, <1>4, <2>1
  <2>3. Len(Marks) = N
    BY <1>1, <1>4, <2>2, LenProperties
  <2> QED
    BY <1>4, <2>1, <2>2, <2>3
<1> DEFINE M(n) == Len(Joined(Marks, n))
<1>15. \A n \in 0 .. N : M(n) = Carried(n)
  <2> DEFINE S == {n \in 0 .. N : M(n) = Carried(n)}
  <2>1. M(0) = 0 /\ \A n \in 1 .. N : M(n) = M(n - 1) + Len(Marks[n])
    BY <1>14, JoinedLengths
  <2>2. \A n \in 1 .. N : Len(Marks[n]) = Len(P(n))
    BY <1>14
  <2> HIDE DEF M, N, P
  <2>3. 0 \in S
    BY <1>1, <1>8, <2>1
  <2>4. ASSUME NEW n \in 0 .. N, n \in S, n < N PROVE n + 1 \in S
    <3>1. n + 1 \in 1 .. N /\ n + 1 \in 0 .. N /\ (n + 1) - 1 = n
      BY <1>1, <2>4
    <3>2. M(n + 1) = M(n) + Len(P(n + 1)) /\ Carried(n + 1) = Carried(n) + Len(P(n + 1))
      BY <1>8, <2>1, <2>2, <3>1
    <3> QED
      BY <2>4, <3>1, <3>2
  <2>5. \A n \in 0 .. N : n \in S
    <3> HIDE DEF S
    <3> QED
      BY <1>1, <2>3, <2>4, UpToInduction
  <2> QED
    BY <2>5
<1>16. ASSUME NEW n \in 1 .. N, NEW k \in 1 .. Len(P(n))
       PROVE  Places[Carried(n - 1) + k] = Reach(n - 1) + RECORD_HEADER_LEN + k
  <2>1. n \in 1 .. Len(Marks) /\ k \in 1 .. Len(Marks[n])
    BY <1>14
  <2>2. n - 1 \in 0 .. N
    BY <1>1
  <2>3. FlattenSeq(Marks)[Len(Joined(Marks, n - 1)) + k] = Marks[n][k]
    <3>1. Marks \in Seq(Seq(Nat))
      BY <1>14
    <3> HIDE DEF N, P, Q, M
    <3> QED
      BY <2>1, <3>1, PartAt
  <2>4. Len(Joined(Marks, n - 1)) = Carried(n - 1)
    BY <1>15, <2>2
  <2> QED
    BY <1>7, <1>14, <2>3, <2>4
<1> HIDE DEF N
<1> QED
  BY <1>5, <1>8, <1>9, <1>10, <1>11, <1>12, <1>13, <1>16 DEF N

\* Later records are further on.
LEMMA FurtherOn ==
    ASSUME Sendable(Records), NEW m \in 0 .. Len(Records), NEW n \in m .. Len(Records)
    PROVE  Reach(m) <= Reach(n) /\ Carried(m) <= Carried(n)
<1>1. /\ Encoded \in Seq(Seq(Byte)) /\ Len(Encoded) = Len(Records)
      /\ Payloads \in Seq(Seq(Byte)) /\ Len(Payloads) = Len(Records)
  BY WireLayout, HandshakeLayout
<1>2. Len(Joined(Encoded, m)) <= Len(Joined(Encoded, n))
  BY <1>1, JoinedKeeps
<1>3. Len(Joined(Payloads, m)) <= Len(Joined(Payloads, n))
  BY <1>1, JoinedKeeps
<1> QED
  BY <1>2, <1>3 DEF Reach, Carried

\* The declared length is a number once its bytes are there.
LEMMA DeclaredIsNat ==
    ASSUME Sendable(Records), Len(Handshake) >= HANDSHAKE_HEADER_LEN
    PROVE  Declared \in Nat
<1>1. Handshake \in Seq(Byte) /\ Len(Handshake) \in Nat
  BY HandshakeLayout, LenProperties
<1>2. 2 \in 1 .. Len(Handshake) /\ 3 \in 1 .. Len(Handshake) /\ 4 \in 1 .. Len(Handshake)
  BY <1>1 DEF HANDSHAKE_HEADER_LEN
<1>3. Handshake[2] \in Byte /\ Handshake[3] \in Byte /\ Handshake[4] \in Byte
  BY <1>1, <1>2, ElementOfSeq
<1> DEFINE a == Handshake[2]
           b == Handshake[3]
           c == Handshake[4]
<1>4. Declared = 65536 * a + 256 * b + c
  BY SMT DEF Declared, HandshakeLen
<1>5. a \in Nat /\ b \in Nat /\ c \in Nat
  <2>1. \A x \in Byte : x \in Nat
    BY DEF Byte
  <2> QED
    BY <1>3, <2>1
<1> HIDE DEF a, b, c
<1> QED
  BY <1>4, <1>5, SMT

\* What e says, and where, when the record after the first n shows it.
Arises(e, n) ==
    LET r == Records[n + 1]
        s == Reach(n)
        c == Carried(n)
        l == Len(r.payload)
    IN  \/ /\ e.at = s + 1 /\ e.what = IF n = 0 THEN "NotHandshake" ELSE "InvalidRecord"
           /\ r.type # CONTENT_TYPE_HANDSHAKE
        \/ /\ e.at = s + 2 /\ e.what = "InvalidRecord"
           /\ r.major # RECORD_VERSION_MAJOR
        \/ /\ e.at = s + 5 /\ e.what = "InvalidRecord"
           /\ r.len \notin 1 .. MAX_RECORD_PAYLOAD
        \/ /\ e.at = s + 5 /\ e.what = "TooLarge"
           /\ n + 1 > MaxRecords /\ r.len \in 1 .. MAX_RECORD_PAYLOAD
        \/ /\ e.at = s + 5 + (1 - c) /\ e.what = "NotClientHello"
           /\ c < 1 /\ 1 <= c + l /\ Handshake[1] # HANDSHAKE_TYPE_CLIENT_HELLO
        \/ /\ e.at = s + 5 + (4 - c) /\ e.what = "TooLarge"
           /\ c < 4 /\ 4 <= c + l /\ Declared > MaxHandshakeBytes
        \/ /\ e.at = s + 5 + l /\ e.what = "Complete"
           /\ l = r.len /\ Len(Handshake) >= 4 /\ c + l >= 4 + Declared

\* An event is one of some record.
LEMMA EventsArise ==
    ASSUME Sendable(Records), NEW e \in Events
    PROVE  \E n \in 0 .. Len(Records) - 1 : Arises(e, n)
<1> DEFINE N == Len(Records)
<1>1. N \in Nat /\ DOMAIN Records = 1 .. N
  BY RecordsTyped
<1>2. \A i \in 1 .. N : i - 1 \in 0 .. N - 1 /\ (i - 1) + 1 = i /\ StartOf(i) = Reach(i - 1)
  <2>1. \A i \in 1 .. N : i - 1 \in 0 .. N - 1 /\ (i - 1) + 1 = i
    BY <1>1
  <2> QED
    BY <2>1, WireLayout
<1>3. ASSUME NEW i \in DOMAIN Records, Records[i].type # CONTENT_TYPE_HANDSHAKE,
             e = Event(StartOf(i) + 1, IF i = 1 THEN "NotHandshake" ELSE "InvalidRecord")
      PROVE  Arises(e, i - 1)
  <2>1. i - 1 = 0 <=> i = 1
    BY <1>1
  <2> QED
    BY <1>1, <1>2, <1>3, <2>1 DEF Arises, Event
<1>4. ASSUME NEW i \in DOMAIN Records, Records[i].major # RECORD_VERSION_MAJOR,
             e = Event(StartOf(i) + 2, "InvalidRecord")
      PROVE  Arises(e, i - 1)
  BY <1>1, <1>2, <1>4 DEF Arises, Event
<1>5. ASSUME NEW i \in DOMAIN Records, Records[i].len \notin 1 .. MAX_RECORD_PAYLOAD,
             e = Event(StartOf(i) + RECORD_HEADER_LEN, "InvalidRecord")
      PROVE  Arises(e, i - 1)
  BY <1>1, <1>2, <1>5 DEF Arises, Event, RECORD_HEADER_LEN
<1>6. ASSUME NEW i \in DOMAIN Records, i > MaxRecords, Records[i].len \in 1 .. MAX_RECORD_PAYLOAD,
             e = Event(StartOf(i) + RECORD_HEADER_LEN, "TooLarge")
      PROVE  Arises(e, i - 1)
  BY <1>1, <1>2, <1>6 DEF Arises, Event, RECORD_HEADER_LEN
<1>7. ASSUME NEW i \in DOMAIN Records, Completing(i),
             e = Event(StartOf(i) + RECORD_HEADER_LEN + Records[i].len, "Complete")
      PROVE  Arises(e, i - 1)
  <2>1. i \in 1 .. N /\ i \in 0 .. N
    BY <1>1
  <2>2. Len(FlattenSeq([j \in 1 .. i |-> Records[j].payload])) = Carried(i)
    BY <2>1, HandshakeLayout DEF Carried
  <2>3. Carried(i) = Carried(i - 1) + Len(Records[i].payload)
    BY <2>1, HandshakeLayout
  <2>4. /\ Len(Records[i].payload) = Records[i].len /\ Len(Handshake) >= 4
        /\ Carried(i - 1) + Len(Records[i].payload) >= 4 + Declared
    BY <1>7, <2>2, <2>3 DEF Completing, HANDSHAKE_HEADER_LEN
  <2>5. e.at = Reach(i - 1) + 5 + Len(Records[i].payload) /\ e.what = "Complete"
    BY <1>2, <1>7, <2>1, <2>4 DEF Event, RECORD_HEADER_LEN
  <2> QED
    BY <1>2, <2>1, <2>4, <2>5 DEF Arises
<1>8. ASSUME NEW k \in DOMAIN Handshake
      PROVE  \E i \in 1 .. N : /\ Carried(i - 1) < k
                               /\ k <= Carried(i - 1) + Len(Records[i].payload)
                               /\ Places[k] = Reach(i - 1) + 5 + (k - Carried(i - 1))
  <2>1. k \in 1 .. Len(Handshake) /\ Len(Handshake) \in Nat
    BY HandshakeLayout, LenProperties
  <2>2. PICK i \in 1 .. N : Carried(i - 1) < k /\ k <= Carried(i)
    BY <2>1, HandshakeLayout
  <2>3. /\ Carried(i) = Carried(i - 1) + Len(Records[i].payload) /\ Carried(i - 1) \in Nat
        /\ Len(Records[i].payload) \in Nat
    <3>1. i - 1 \in 0 .. N
      BY <1>1
    <3> QED
      BY <3>1, RecordsTyped, HandshakeLayout
  <2> DEFINE c == Carried(i - 1)
             j == k - c
  <2>4. j \in 1 .. Len(Records[i].payload) /\ c + j = k
    BY <2>1, <2>2, <2>3
  <2>5. Places[c + j] = Reach(i - 1) + RECORD_HEADER_LEN + j
    <3> HIDE DEF j
    <3> QED
      BY <2>4, HandshakeLayout
  <2>6. Places[k] = Reach(i - 1) + 5 + (k - c)
    BY <2>4, <2>5 DEF RECORD_HEADER_LEN
  <2> QED
    BY <2>2, <2>3, <2>6
<1>9. ASSUME 1 \in DOMAIN Handshake, Handshake[1] # HANDSHAKE_TYPE_CLIENT_HELLO,
             e = Event(Places[1], "NotClientHello")
      PROVE  \E i \in 1 .. N : Arises(e, i - 1)
  <2>1. PICK i \in 1 .. N : /\ Carried(i - 1) < 1
                            /\ 1 <= Carried(i - 1) + Len(Records[i].payload)
                            /\ Places[1] = Reach(i - 1) + 5 + (1 - Carried(i - 1))
    BY <1>8, <1>9
  <2> QED
    BY <1>2, <1>9, <2>1 DEF Arises, Event
<1>10. ASSUME 4 \in DOMAIN Handshake, Declared > MaxHandshakeBytes,
              e = Event(Places[4], "TooLarge")
       PROVE  \E i \in 1 .. N : Arises(e, i - 1)
  <2>1. PICK i \in 1 .. N : /\ Carried(i - 1) < 4
                            /\ 4 <= Carried(i - 1) + Len(Records[i].payload)
                            /\ Places[4] = Reach(i - 1) + 5 + (4 - Carried(i - 1))
    BY <1>8, <1>10
  <2> QED
    BY <1>2, <1>10, <2>1 DEF Arises, Event
<1>11. \/ \E i \in DOMAIN Records :
              /\ Records[i].type # CONTENT_TYPE_HANDSHAKE
              /\ e = Event(StartOf(i) + 1, IF i = 1 THEN "NotHandshake" ELSE "InvalidRecord")
       \/ \E i \in DOMAIN Records :
              /\ Records[i].major # RECORD_VERSION_MAJOR
              /\ e = Event(StartOf(i) + 2, "InvalidRecord")
       \/ \E i \in DOMAIN Records :
              /\ Records[i].len \notin 1 .. MAX_RECORD_PAYLOAD
              /\ e = Event(StartOf(i) + RECORD_HEADER_LEN, "InvalidRecord")
       \/ \E i \in DOMAIN Records :
              /\ i > MaxRecords /\ Records[i].len \in 1 .. MAX_RECORD_PAYLOAD
              /\ e = Event(StartOf(i) + RECORD_HEADER_LEN, "TooLarge")
       \/ /\ 1 \in DOMAIN Handshake /\ Handshake[1] # HANDSHAKE_TYPE_CLIENT_HELLO
          /\ e = Event(Places[1], "NotClientHello")
       \/ /\ 4 \in DOMAIN Handshake /\ Declared > MaxHandshakeBytes
          /\ e = Event(Places[4], "TooLarge")
       \/ \E i \in DOMAIN Records :
              /\ Completing(i)
              /\ e = Event(StartOf(i) + RECORD_HEADER_LEN + Records[i].len, "Complete")
  BY Zenon DEF Events, HANDSHAKE_HEADER_LEN
<1>12. \E i \in 1 .. N : Arises(e, i - 1)
  BY <1>1, <1>3, <1>4, <1>5, <1>6, <1>7, <1>9, <1>10, <1>11, Zenon
<1> QED
  BY <1>2, <1>12

\* What a record shows is an event.
LEMMA EventsThere ==
    ASSUME Sendable(Records), NEW n \in 0 .. Len(Records) - 1, NEW at, NEW what,
           Arises(Event(at, what), n)
    PROVE  Event(at, what) \in Events
<1> DEFINE N == Len(Records)
           i == n + 1
           r == Records[i]
           s == Reach(n)
           c == Carried(n)
           l == Len(r.payload)
           e == Event(at, what)
<1>1. N \in Nat /\ i \in DOMAIN Records /\ i \in 1 .. N /\ i \in 0 .. N /\ i - 1 = n /\ n \in Nat
  BY RecordsTyped
<1>2. StartOf(i) = s /\ s \in Nat /\ c \in Nat /\ l \in Nat /\ Carried(i) = c + l
  <2>1. n \in 0 .. N
    BY <1>1
  <2> QED
    BY <1>1, <2>1, RecordsTyped, WireLayout, HandshakeLayout
<1>3. e.at = at /\ e.what = what
  BY DEF Event
<1>4. ASSUME NEW k \in Nat, c < k, k <= c + l
      PROVE  k \in DOMAIN Handshake /\ Places[k] = s + 5 + (k - c)
  <2> DEFINE j == k - c
  <2>1. j \in 1 .. l /\ c + j = k
    BY <1>2, <1>4
  <2>2. Places[c + j] = Reach(n) + RECORD_HEADER_LEN + j
    <3>1. \A m \in 1 .. Len(Records[i].payload) :
              Places[Carried(i - 1) + m] = Reach(i - 1) + RECORD_HEADER_LEN + m
      BY <1>1, HandshakeLayout
    <3> HIDE DEF j
    <3> QED
      BY <1>1, <2>1, <3>1
  <2>3. /\ Carried(i) <= Len(Handshake) /\ Len(Handshake) \in Nat
        /\ DOMAIN Handshake = 1 .. Len(Handshake)
    BY <1>1, HandshakeLayout, LenProperties
  <2>4. k \in 1 .. Len(Handshake)
    BY <1>2, <1>4, <2>3
  <2> QED
    BY <2>1, <2>2, <2>3, <2>4 DEF RECORD_HEADER_LEN
<1>5. CASE /\ at = s + 1 /\ what = IF n = 0 THEN "NotHandshake" ELSE "InvalidRecord"
           /\ r.type # CONTENT_TYPE_HANDSHAKE
  <2>1. i = 1 <=> n = 0
    BY <1>1
  <2>2. e = Event(StartOf(i) + 1, IF i = 1 THEN "NotHandshake" ELSE "InvalidRecord")
    BY <1>2, <1>5, <2>1
  <2> HIDE DEF i
  <2> QED
    BY <1>1, <1>5, <2>2, Zenon DEF Events
<1>6. CASE at = s + 2 /\ what = "InvalidRecord" /\ r.major # RECORD_VERSION_MAJOR
  <2>1. e = Event(StartOf(i) + 2, "InvalidRecord")
    BY <1>2, <1>6
  <2> HIDE DEF i
  <2> QED
    BY <1>1, <1>6, <2>1, Zenon DEF Events
<1>7. CASE at = s + 5 /\ what = "InvalidRecord" /\ r.len \notin 1 .. MAX_RECORD_PAYLOAD
  <2>1. e = Event(StartOf(i) + RECORD_HEADER_LEN, "InvalidRecord")
    BY <1>2, <1>7 DEF RECORD_HEADER_LEN
  <2> HIDE DEF i
  <2> QED
    BY <1>1, <1>7, <2>1, Zenon DEF Events
<1>8. CASE /\ at = s + 5 /\ what = "TooLarge"
           /\ n + 1 > MaxRecords /\ r.len \in 1 .. MAX_RECORD_PAYLOAD
  <2>1. e = Event(StartOf(i) + RECORD_HEADER_LEN, "TooLarge") /\ i > MaxRecords
    BY <1>2, <1>8 DEF RECORD_HEADER_LEN
  <2> HIDE DEF i
  <2> QED
    BY <1>1, <1>8, <2>1, Zenon DEF Events
<1>9. CASE /\ at = s + 5 + (1 - c) /\ what = "NotClientHello"
           /\ c < 1 /\ 1 <= c + l /\ Handshake[1] # HANDSHAKE_TYPE_CLIENT_HELLO
  <2>1. 1 \in DOMAIN Handshake /\ e = Event(Places[1], "NotClientHello")
    BY <1>4, <1>9
  <2> QED
    BY <1>9, <2>1, Zenon DEF Events
<1>10. CASE /\ at = s + 5 + (4 - c) /\ what = "TooLarge"
            /\ c < 4 /\ 4 <= c + l /\ Declared > MaxHandshakeBytes
  <2>1. 4 \in DOMAIN Handshake /\ e = Event(Places[4], "TooLarge")
    BY <1>4, <1>10
  <2> QED
    BY <1>10, <2>1, Zenon DEF Events, HANDSHAKE_HEADER_LEN
<1>11. CASE /\ at = s + 5 + l /\ what = "Complete"
            /\ l = r.len /\ Len(Handshake) >= 4 /\ c + l >= 4 + Declared
  <2>1. e = Event(StartOf(i) + RECORD_HEADER_LEN + Records[i].len, "Complete")
    BY <1>2, <1>11 DEF RECORD_HEADER_LEN
  <2>2. Len(FlattenSeq([j \in 1 .. i |-> Records[j].payload])) = c + l
    <3>1. FlattenSeq([j \in 1 .. i |-> Records[j].payload]) = Joined(Payloads, i)
      BY <1>1, HandshakeLayout
    <3> QED
      BY <1>2, <3>1 DEF Carried
  <2>3. Completing(i)
    BY <1>11, <2>2 DEF Completing, HANDSHAKE_HEADER_LEN
  <2> HIDE DEF i
  <2> QED
    BY <1>1, <2>1, <2>3, Zenon DEF Events
<1> HIDE DEF e
<1> QED
  BY <1>3, <1>5, <1>6, <1>7, <1>8, <1>9, <1>10, <1>11 DEF Arises, e

\* The events of a record are at its bytes.
LEMMA WithinRecord ==
    ASSUME Sendable(Records), NEW n \in 0 .. Len(Records) - 1, NEW e, Arises(e, n)
    PROVE  /\ n \in 0 .. Len(Records) /\ n + 1 \in 0 .. Len(Records)
           /\ Reach(n) < e.at /\ e.at <= Reach(n + 1)
           /\ e.at \in Nat /\ Reach(n) \in Nat /\ Reach(n + 1) \in Nat
<1> DEFINE N == Len(Records)
           s == Reach(n)
           c == Carried(n)
           l == Len(Records[n + 1].payload)
<1>1. /\ N \in Nat /\ n \in Nat /\ n \in 0 .. N /\ n + 1 \in 1 .. N
      /\ n + 1 \in 0 .. N /\ (n + 1) - 1 = n
  BY RecordsTyped
<1>2. s \in Nat /\ c \in Nat /\ l \in Nat
  BY <1>1, RecordsTyped, WireLayout, HandshakeLayout
<1>3. Reach(n + 1) = s + 5 + l
  BY <1>1, WireLayout DEF RECORD_HEADER_LEN
<1>4. \/ e.at \in {s + 1, s + 2, s + 5, s + 5 + l}
      \/ c < 1 /\ 1 <= c + l /\ e.at = s + 5 + (1 - c)
      \/ c < 4 /\ 4 <= c + l /\ e.at = s + 5 + (4 - c)
  BY DEF Arises
<1> DEFINE a == e.at
<1> HIDE DEF s, c, l, a
<1>5. s < a /\ a <= s + 5 + l /\ a \in Nat /\ s + 5 + l \in Nat
  BY <1>2, <1>4 DEF a
<1> QED
  BY <1>1, <1>2, <1>3, <1>5 DEF a, s

\* The first n records show nothing.
Quiet(n) == \A f \in Events : f.at > Reach(n)

\* e is what decides, at byte t: nothing is earlier, and nothing else is there.
Decides(e, t) ==
    /\ e \in Events /\ e.at <= t
    /\ \A f \in Events : e.at <= f.at /\ (f.at = e.at => f.what = e.what)

\* After quiet records, the first that the next one shows decides.
LEMMA FirstDecides ==
    ASSUME Sendable(Records), NEW n \in 0 .. Len(Records) - 1, Quiet(n),
           NEW at, NEW what, Arises(Event(at, what), n), NEW t, at <= t,
           \A f : Arises(f, n) => at <= f.at /\ (f.at = at => f.what = what)
    PROVE  Decides(Event(at, what), t)
<1> DEFINE N == Len(Records)
<1>1. Event(at, what) \in Events
  BY EventsThere
<1>2. Event(at, what).at = at /\ Event(at, what).what = what
  BY DEF Event
<1>3. ASSUME NEW f \in Events PROVE at <= f.at /\ (f.at = at => f.what = what)
  <2>1. PICK m \in 0 .. N - 1 : Arises(f, m)
    BY EventsArise
  <2>2. N \in Nat /\ n \in Nat /\ m \in Nat
    BY RecordsTyped
  <2>3. /\ m \in 0 .. N /\ m + 1 \in 0 .. N /\ Reach(m) < f.at /\ f.at <= Reach(m + 1)
        /\ f.at \in Nat /\ Reach(m) \in Nat /\ Reach(m + 1) \in Nat
    BY <2>1, WithinRecord
  <2>4. /\ n + 1 \in 0 .. N /\ at <= Reach(n + 1)
        /\ at \in Nat /\ Reach(n) \in Nat /\ Reach(n + 1) \in Nat
    BY <1>2, WithinRecord
  <2>5. CASE m = n
    BY <2>1, <2>5
  <2>6. CASE m < n
    <3>1. n \in m + 1 .. N
      BY <2>2, <2>6
    <3>2. Reach(m + 1) <= Reach(n)
      BY <2>3, <3>1, FurtherOn
    <3>3. f.at > Reach(n)
      BY DEF Quiet
    <3> QED
      BY <2>3, <2>4, <3>2, <3>3
  <2>7. CASE m > n
    <3>1. m \in n + 1 .. N
      BY <2>2, <2>7
    <3>2. Reach(n + 1) <= Reach(m)
      BY <2>4, <3>1, FurtherOn
    <3> QED
      BY <2>3, <2>4, <3>2
  <2> QED
    BY <2>2, <2>5, <2>6, <2>7
<1> QED
  BY <1>1, <1>2, <1>3 DEF Decides

\* After quiet records, a record that shows nothing so far leaves nothing.
LEMMA NothingYet ==
    ASSUME Sendable(Records), NEW n \in 0 .. Len(Records) - 1, Quiet(n),
           NEW t \in Nat, t <= Reach(n + 1), \A f : Arises(f, n) => f.at > t
    PROVE  \A f \in Events : f.at > t
<1> DEFINE N == Len(Records)
<1> SUFFICES ASSUME NEW f \in Events PROVE f.at > t
  OBVIOUS
<1>1. PICK m \in 0 .. N - 1 : Arises(f, m)
  BY EventsArise
<1>2. N \in Nat /\ n \in Nat /\ m \in Nat /\ n + 1 \in 0 .. N /\ n \in 0 .. N
  BY RecordsTyped
<1>3. /\ m \in 0 .. N /\ m + 1 \in 0 .. N /\ Reach(m) < f.at /\ f.at <= Reach(m + 1)
      /\ f.at \in Nat /\ Reach(m) \in Nat /\ Reach(m + 1) \in Nat
  BY <1>1, WithinRecord
<1>4. Reach(n) \in Nat /\ Reach(n + 1) \in Nat
  BY <1>2, WireLayout
<1>5. CASE m = n
  BY <1>1, <1>5
<1>6. CASE m < n
  <2>1. n \in m + 1 .. N
    BY <1>2, <1>6
  <2>2. Reach(m + 1) <= Reach(n)
    BY <1>3, <2>1, FurtherOn
  <2>3. f.at > Reach(n)
    BY DEF Quiet
  <2> QED
    BY <1>3, <1>4, <2>2, <2>3
<1>7. CASE m > n
  <2>1. m \in n + 1 .. N
    BY <1>2, <1>7
  <2>2. Reach(n + 1) <= Reach(m)
    BY <1>2, <2>1, FurtherOn
  <2> QED
    BY <1>3, <1>4, <2>2
<1> QED
  BY <1>2, <1>5, <1>6, <1>7

\* What the handshake's bytes in quiet records, more of which follow, are not.
LEMMA QuietSoFar ==
    ASSUME Sendable(Records), NEW n \in 0 .. Len(Records) - 1, Quiet(n)
    PROVE  /\ Carried(n) >= 1 => Handshake[1] = HANDSHAKE_TYPE_CLIENT_HELLO
           /\ Carried(n) >= 4 => ~(Declared > MaxHandshakeBytes)
           /\ ~(Len(Handshake) >= 4 /\ Carried(n) >= 4 + Declared)
<1> DEFINE N == Len(Records)
           c == Carried(n)
<1>1. N \in Nat /\ n \in Nat /\ n \in 0 .. N
  BY RecordsTyped
<1>2. c \in Nat /\ c <= Len(Handshake) /\ Len(Handshake) \in Nat
  BY <1>1, HandshakeLayout, LenProperties
<1>3. ASSUME NEW m \in 0 .. N - 1, m < n, NEW at, NEW what, Arises(Event(at, what), m) PROVE FALSE
  <2>1. Event(at, what) \in Events /\ Event(at, what).at = at
    BY <1>3, EventsThere DEF Event
  <2>2. m + 1 \in 0 .. N /\ at <= Reach(m + 1) /\ at \in Nat /\ Reach(m + 1) \in Nat
    BY <1>3, <2>1, WithinRecord
  <2>3. Reach(m + 1) <= Reach(n) /\ Reach(n) \in Nat
    <3>1. n \in m + 1 .. N
      BY <1>1, <1>3
    <3> QED
      BY <1>1, <2>2, <3>1, FurtherOn, WireLayout
  <2>4. at > Reach(n)
    BY <2>1 DEF Quiet
  <2> QED
    BY <2>2, <2>3, <2>4
<1>4. ASSUME NEW k \in Nat, k >= 1, c >= k
      PROVE  \E m \in 0 .. N - 1 : /\ m < n /\ Carried(m) < k
                                   /\ k <= Carried(m) + Len(Records[m + 1].payload)
  <2>1. k \in 1 .. Len(Handshake)
    BY <1>2, <1>4
  <2>2. PICK i \in 1 .. N : Carried(i - 1) < k /\ k <= Carried(i)
    BY <2>1, HandshakeLayout
  <2> DEFINE m == i - 1
  <2>3. m \in 0 .. N - 1 /\ m \in 0 .. N /\ m + 1 = i /\ m \in Nat
    BY <1>1
  <2>4. Carried(i) = Carried(m) + Len(Records[i].payload) /\ Carried(m) \in Nat
    BY <2>3, HandshakeLayout
  <2>5. m < n
    <3> SUFFICES ASSUME ~(m < n) PROVE FALSE
      OBVIOUS
    <3>1. m \in n .. N
      BY <1>1, <2>3
    <3> HIDE DEF m
    <3>2. Carried(n) <= Carried(m)
      BY <1>1, <3>1, FurtherOn
    <3> QED
      BY <1>2, <1>4, <2>2, <2>4, <3>2 DEF m
  <2> QED
    BY <2>2, <2>3, <2>4, <2>5
<1>5. c >= 1 => Handshake[1] = HANDSHAKE_TYPE_CLIENT_HELLO
  <2> SUFFICES ASSUME c >= 1, Handshake[1] # HANDSHAKE_TYPE_CLIENT_HELLO PROVE FALSE
    OBVIOUS
  <2>1. PICK m \in 0 .. N - 1 : /\ m < n /\ Carried(m) < 1
                                /\ 1 <= Carried(m) + Len(Records[m + 1].payload)
    BY <1>4
  <2>2. Arises(Event(Reach(m) + 5 + (1 - Carried(m)), "NotClientHello"), m)
    BY <2>1 DEF Arises, Event
  <2> QED
    BY <1>3, <2>1, <2>2
<1>6. c >= 4 => ~(Declared > MaxHandshakeBytes)
  <2> SUFFICES ASSUME c >= 4, Declared > MaxHandshakeBytes PROVE FALSE
    OBVIOUS
  <2>1. PICK m \in 0 .. N - 1 : /\ m < n /\ Carried(m) < 4
                                /\ 4 <= Carried(m) + Len(Records[m + 1].payload)
    BY <1>4
  <2>2. Arises(Event(Reach(m) + 5 + (4 - Carried(m)), "TooLarge"), m)
    BY <2>1 DEF Arises, Event
  <2> QED
    BY <1>3, <2>1, <2>2
<1>7. ASSUME Len(Handshake) >= 4, c >= 4 + Declared PROVE FALSE
  <2> DEFINE m == n - 1
             l == Len(Records[n].payload)
  <2>1. Declared \in Nat
    BY <1>7, DeclaredIsNat DEF HANDSHAKE_HEADER_LEN
  <2>2. n # 0
    BY <1>2, <1>7, <2>1, HandshakeLayout
  <2>3. /\ m \in 0 .. N - 1 /\ m < n /\ m + 1 = n /\ n \in 1 .. N /\ n < N /\ m \in 0 .. N
    BY <1>1, <2>2
  <2>4. c = Carried(m) + l
    BY <2>3, HandshakeLayout
  <2>5. Records[n].len \in 1 .. MAX_RECORD_PAYLOAD
    <3> SUFFICES ASSUME Records[n].len \notin 1 .. MAX_RECORD_PAYLOAD PROVE FALSE
      OBVIOUS
    <3>1. Arises(Event(Reach(m) + 5, "InvalidRecord"), m)
      BY <2>3 DEF Arises, Event
    <3> QED
      BY <1>3, <2>3, <3>1
  <2>6. l = Records[n].len
    BY <2>3, <2>5, RecordsTyped
  <2>7. Arises(Event(Reach(m) + 5 + l, "Complete"), m)
    BY <1>7, <2>3, <2>4, <2>6 DEF Arises, Event
  <2> QED
    BY <1>3, <2>3, <2>7
<1> QED
  BY <1>5, <1>6, <1>7

-----------------------------------------------------------------------------
(* One turn of the scan.                                                   *)

\* Of the first t bytes of w, at most k from byte s + 1 on.
Window(w, t, s, k) == Take(SubSeq(SubSeq(w, 1, t), s + 1, Len(SubSeq(w, 1, t))), k)

\* They are the bytes of w at these places.
LEMMA Visible ==
    ASSUME NEW w \in Seq(Byte), NEW t \in 0 .. Len(w), NEW s \in 0 .. t, NEW k \in Nat
    PROVE  /\ Window(w, t, s, k) \in Seq(Byte)
           /\ Len(Window(w, t, s, k)) = Least(k, t - s)
           /\ \A i \in 1 .. Least(k, t - s) : Window(w, t, s, k)[i] = w[s + i]
<1> DEFINE v == Window(w, t, s, k)
           p == SubSeq(w, 1, t)
           q == SubSeq(p, s + 1, t)
           m == IF k < Len(q) THEN k ELSE Len(q)
<1>0. Len(w) \in Nat /\ t \in Nat /\ s \in Nat /\ s + 1 \in Nat /\ s <= t
  BY LenProperties
<1>1. p \in Seq(Byte) /\ Len(p) = t /\ \A i \in 1 .. t : p[i] = w[i]
  BY PrefixIs
<1> HIDE DEF p
<1>2. v = SubSeq(q, 1, m)
  BY <1>1 DEF Window, Take, p
<1> HIDE DEF v
<1>3. /\ q \in Seq(Byte) /\ Len(q) = (IF s + 1 <= t THEN t - (s + 1) + 1 ELSE 0)
      /\ \A i \in 1 .. t - (s + 1) + 1 : q[i] = p[(s + 1) + i - 1]
  <2>1. \A i \in s + 1 .. t : p[i] \in Byte
    <3>1. \A i \in s + 1 .. t : i \in 1 .. Len(p)
      BY <1>0, <1>1
    <3> QED
      BY <1>1, <3>1, ElementOfSeq
  <2> QED
    BY <1>0, <2>1, SubSeqProperties
<1> HIDE DEF q
<1>4. Len(q) \in Nat /\ Len(q) = t - s
  BY <1>0, <1>3
<1>5. m \in 0 .. Len(q) /\ m = Least(k, t - s)
  BY <1>4 DEF Least
<1> HIDE DEF m
<1>6. v \in Seq(Byte) /\ Len(v) = m /\ \A i \in 1 .. m : v[i] = q[i]
  <2>1. q \in Seq(Byte)
    BY <1>3
  <2>2. m \in 0 .. Len(q)
    BY <1>5
  <2> QED
    BY <1>2, <2>1, <2>2, PrefixIs
<1>7. ASSUME NEW i \in 1 .. m PROVE v[i] = w[s + i]
  <2>1. i \in 1 .. t - (s + 1) + 1 /\ (s + 1) + i - 1 = s + i /\ s + i \in 1 .. t
    BY <1>0, <1>4, <1>5
  <2> QED
    BY <1>1, <1>3, <1>6, <2>1
<1> QED
  BY <1>5, <1>6, <1>7 DEF v

\* The handshake header's bytes after one more (maybe partial) payload.
LEMMA KnownGrows ==
    ASSUME NEW T, NEW h \in Seq(T), NEW c \in Nat, NEW p \in Seq(T), c + Len(p) <= Len(h),
           \A i \in 1 .. Len(p) : p[i] = h[c + i]
    PROVE  Known(SubSeq(h, 1, Least(4, c)), p) = SubSeq(h, 1, Least(4, c + Len(p)))
<1> DEFINE w == Len(p)
           m == Least(4, c)
           d == Least(4, c + w)
           a == SubSeq(h, 1, m)
           x == 4 - m
           k == IF x < w THEN x ELSE w
           b == SubSeq(p, 1, k)
           u == SubSeq(h, 1, d)
           v == a \o b
<1>0. w \in Nat /\ Len(h) \in Nat /\ c + w <= Len(h)
  BY LenProperties
<1>1. m \in Nat /\ m <= 4 /\ m <= c /\ (m < 4 => m = c) /\ m \in 0 .. Len(h)
  <2> HIDE DEF w
  <2> QED
    BY <1>0 DEF Least
<1>2. d \in 0 .. Len(h) /\ d \in Nat
  <2> HIDE DEF w
  <2> QED
    BY <1>0 DEF Least
<1>3. k \in 0 .. w /\ d = m + k /\ k \in Nat
  <2> HIDE DEF w
  <2> QED
    BY <1>0, <1>1 DEF Least
<1>4. k > 0 => m = c
  <2> HIDE DEF w, m
  <2> QED
    BY <1>0, <1>1
<1> HIDE DEF m, d
<1>5. a \in Seq(T) /\ Len(a) = m /\ \A i \in 1 .. m : a[i] = h[i]
  BY <1>1, PrefixIs
<1>6. Known(a, p) = v
  <2>1. HANDSHAKE_HEADER_LEN - Len(a) = x
    BY <1>5 DEF HANDSHAKE_HEADER_LEN
  <2> HIDE DEF a
  <2> QED
    BY <2>1, Zenon DEF Known, Take
<1> HIDE DEF k
<1>7. b \in Seq(T) /\ Len(b) = k /\ \A i \in 1 .. k : b[i] = p[i]
  BY <1>3, PrefixIs
<1>8. u \in Seq(T) /\ Len(u) = d /\ \A i \in 1 .. d : u[i] = h[i]
  BY <1>2, PrefixIs
<1> HIDE DEF a, b, u
<1>9. /\ v \in Seq(T) /\ Len(v) = Len(a) + Len(b)
      /\ \A i \in 1 .. Len(a) + Len(b) : v[i] = IF i <= Len(a) THEN a[i] ELSE b[i - Len(a)]
  BY <1>5, <1>7, ConcatProperties
<1> HIDE DEF v
<1>10. Len(v) = d
  BY <1>3, <1>5, <1>7, <1>9
<1>11. ASSUME NEW i \in 1 .. d PROVE v[i] = u[i]
  <2>1. CASE i <= m
    <3>1. i \in 1 .. m /\ i \in 1 .. Len(a) + Len(b) /\ i <= Len(a)
      BY <1>1, <1>3, <1>5, <1>7, <2>1
    <3> QED
      BY <1>5, <1>8, <1>9, <3>1
  <2>2. CASE ~(i <= m)
    <3> DEFINE j == i - m
    <3>1. i \in 1 .. Len(a) + Len(b) /\ ~(i <= Len(a)) /\ i - Len(a) = j /\ j \in 1 .. k
      BY <1>1, <1>3, <1>5, <1>7, <2>2
    <3>2. j \in 1 .. w /\ m = c /\ c + j = i
      BY <1>1, <1>3, <1>4, <2>2, <3>1
    <3> HIDE DEF j
    <3>3. v[i] = b[j]
      BY <1>9, <3>1
    <3>4. b[j] = p[j] /\ p[j] = h[i]
      BY <1>7, <3>1, <3>2
    <3> QED
      BY <1>8, <3>3, <3>4
  <2> QED
    BY <2>1, <2>2
<1>12. v = u
  BY <1>8, <1>9, <1>10, <1>11, SeqEqual
<1> QED
  BY <1>6, <1>12 DEF a, u, m, d, w

\* The declared length is in bytes 2 to 4.
LEMMA SameLength ==
    ASSUME NEW f, NEW g, f[2] = g[2], f[3] = g[3], f[4] = g[4]
    PROVE  HandshakeLen(f) = HandshakeLen(g)
BY SMT DEF HandshakeLen

\* What the first bytes of the handshake tell.
LEMMA HeaderObserved ==
    ASSUME NEW h \in Seq(Byte), NEW x \in 0 .. Len(h), NEW known,
           known = SubSeq(h, 1, Least(4, x))
    PROVE  /\ Observe(known) = IF x >= 1 /\ h[1] # HANDSHAKE_TYPE_CLIENT_HELLO THEN "NotClientHello"
                               ELSE IF x >= 4 /\ HandshakeLen(h) > MaxHandshakeBytes THEN "TooLarge"
                               ELSE "ok"
           /\ x >= 4 => HandshakeLen(known) = HandshakeLen(h)
           /\ (Len(known) = HANDSHAKE_HEADER_LEN) <=> (x >= 4)
<1> DEFINE m == Least(4, x)
<1>0. Len(h) \in Nat /\ x \in Nat /\ x <= Len(h)
  BY LenProperties
<1>1. m \in 0 .. Len(h) /\ (x >= 1 <=> m >= 1) /\ (x >= 4 <=> m = 4)
  BY <1>0 DEF Least
<1> HIDE DEF m
<1>2. Len(known) = m /\ \A i \in 1 .. m : known[i] = h[i]
  BY <1>1, PrefixIs DEF m
<1>3. x >= 1 => known[1] = h[1]
  <2>1. x >= 1 => 1 \in 1 .. m
    BY <1>0, <1>1
  <2> QED
    BY <1>2, <2>1
<1>4. x >= 4 => known[2] = h[2] /\ known[3] = h[3] /\ known[4] = h[4]
  <2>1. x >= 4 => 2 \in 1 .. m /\ 3 \in 1 .. m /\ 4 \in 1 .. m
    BY <1>0, <1>1
  <2> QED
    BY <1>2, <2>1
<1>5. x >= 4 => HandshakeLen(known) = HandshakeLen(h)
  BY <1>4, SameLength
<1>6. (Len(known) = HANDSHAKE_HEADER_LEN) <=> (x >= 4)
  BY <1>1, <1>2 DEF HANDSHAKE_HEADER_LEN
<1>7. Len(known) >= 1 <=> x >= 1
  BY <1>1, <1>2
<1> QED
  BY <1>3, <1>5, <1>6, <1>7 DEF Observe

\* The scan is at the record after the first n, and these show nothing.
AtRecord(scan, n, t) ==
    /\ n \in 0 .. Len(Records) /\ n <= MaxRecords /\ Reach(n) <= t /\ Quiet(n)
    /\ scan = [offset |-> Reach(n), known |-> SubSeq(Handshake, 1, Least(4, Carried(n))),
               payloads |-> SubSeq(Payloads, 1, n), verdict |-> "scan"]

\* The scan has ended, with what decides the first t bytes.
Finished(scan, t) ==
    \/ scan.verdict = "Incomplete" /\ \A f \in Events : f.at > t
    \/ \E e : Decides(e, t) /\ e.what # "Complete" /\ scan.verdict = e.what
    \/ /\ \E e : Decides(e, t) /\ e.what = "Complete"
       /\ scan.verdict = "ok"
       /\ Reassemble(scan) = SubSeq(Handshake, HANDSHAKE_HEADER_LEN + 1,
                                    HANDSHAKE_HEADER_LEN + Declared)

\* A scan that stops.
LEMMA Stops ==
    ASSUME NEW scan, NEW n, NEW t, AtRecord(scan, n, t), NEW v
    PROVE  [scan EXCEPT !.verdict = v].verdict = v
BY DEF AtRecord

\* What the scan sees of the header of the record after the first n.
LEMMA HeaderSeen ==
    ASSUME Sendable(Records), NEW n \in 0 .. Len(Records) - 1,
           NEW t \in 0 .. Len(Wire(Records)), Reach(n) <= t, NEW header,
           header = Take(SubSeq(SubSeq(Wire(Records), 1, t), Reach(n) + 1,
                                Len(SubSeq(Wire(Records), 1, t))), RECORD_HEADER_LEN)
    PROVE  /\ Len(header) = Least(5, t - Reach(n))
           /\ t >= Reach(n) + 1 => header[1] = Records[n + 1].type
           /\ t >= Reach(n) + 2 => header[2] = Records[n + 1].major
           /\ t >= Reach(n) + 5 => PayloadLen(header) = Records[n + 1].len
<1> DEFINE N == Len(Records)
           W == Wire(Records)
           s == Reach(n)
           i == n + 1
           r == Records[i]
           E == Encode(r)
<1>1. N \in Nat /\ i \in 1 .. N /\ i - 1 = n /\ n \in 0 .. N /\ r.len \in U16
  BY RecordsTyped
<1>2. W \in Seq(Byte) /\ Len(W) \in Nat /\ s \in Nat
  BY <1>1, WireLayout, LenProperties
<1>3. /\ Len(E) = 5 + Len(r.payload) /\ E[1] = r.type /\ E[2] = r.major
      /\ 256 * E[4] + E[5] = r.len /\ Len(r.payload) \in Nat
  BY <1>1, RecordsTyped, Encoding DEF RECORD_HEADER_LEN
<1>4. \A k \in 1 .. Len(E) : W[s + k] = E[k]
  BY <1>1, WireLayout
<1>5. /\ Len(header) = Least(5, t - s)
      /\ \A k \in 1 .. Least(5, t - s) : header[k] = W[s + k]
  <2>1. 5 \in Nat /\ RECORD_HEADER_LEN = 5
    BY DEF RECORD_HEADER_LEN
  <2>2. header = Window(W, t, s, 5)
    BY <2>1 DEF Window
  <2>3. t \in 0 .. Len(W) /\ s \in 0 .. t
    BY <1>2
  <2> HIDE DEF W, s, N, i, r, E
  <2>4. W \in Seq(Byte) /\ t \in 0 .. Len(W) /\ s \in 0 .. t
    BY <1>2, <2>3
  <2> DEFINE v == Window(W, t, s, 5)
  <2>5. Len(v) = Least(5, t - s) /\ \A k \in 1 .. Least(5, t - s) : v[k] = W[s + k]
    BY <2>1, <2>4, Visible
  <2> HIDE DEF v
  <2>6. header = v
    BY <2>2 DEF v
  <2> QED
    BY <2>5, <2>6
<1> HIDE DEF W, E, s, r
<1>6. t \in Nat /\ s <= t
  BY <1>2 DEF W, s
<1> DEFINE m == Least(5, t - s)
<1>7. (t >= s + 1 => 1 \in 1 .. m) /\ (t >= s + 2 => 2 \in 1 .. m)
      /\ (t >= s + 5 => 4 \in 1 .. m /\ 5 \in 1 .. m)
  BY <1>2, <1>6 DEF Least
<1>8. 1 \in 1 .. Len(E) /\ 2 \in 1 .. Len(E) /\ 4 \in 1 .. Len(E) /\ 5 \in 1 .. Len(E)
  BY <1>3, SMTT(30)
<1> HIDE DEF m
<1>9. /\ t >= s + 1 => header[1] = E[1]
      /\ t >= s + 2 => header[2] = E[2]
      /\ t >= s + 5 => header[4] = E[4] /\ header[5] = E[5]
  BY <1>4, <1>5, <1>7, <1>8 DEF m
<1>10. t >= s + 5 => PayloadLen(header) = r.len
  BY <1>3, <1>9, SMT DEF PayloadLen
<1> QED
  BY <1>3, <1>5, <1>9, <1>10 DEF s, r

\* What the scan sees of the payload of the record after the first n.
LEMMA PayloadSeen ==
    ASSUME Sendable(Records), NEW n \in 0 .. Len(Records) - 1,
           NEW t \in 0 .. Len(Wire(Records)), Reach(n) + 5 <= t,
           Records[n + 1].len \in 1 .. MAX_RECORD_PAYLOAD, NEW available,
           available = Window(Wire(Records), t, Reach(n) + 5, Records[n + 1].len),
           NEW w, w = Least(Records[n + 1].len, t - Reach(n) - 5)
    PROVE  /\ Len(available) = w /\ w \in Nat /\ w <= Len(Records[n + 1].payload)
           /\ Carried(n) + w <= Len(Handshake)
           /\ Known(SubSeq(Handshake, 1, Least(4, Carried(n))), available)
                  = SubSeq(Handshake, 1, Least(4, Carried(n) + w))
           /\ w = Len(Records[n + 1].payload) => available = Records[n + 1].payload
<1> DEFINE N == Len(Records)
           W == Wire(Records)
           i == n + 1
           r == Records[i]
           p == r.payload
           s == Reach(n)
           c == Carried(n)
           H == Handshake
           E == Encode(r)
<1>1. N \in Nat /\ i \in 1 .. N /\ i - 1 = n /\ n \in 0 .. N /\ i \in 0 .. N
  BY RecordsTyped
<1>2. /\ r.type \in Byte /\ r.major \in Byte /\ r.len \in U16 /\ r.len \in Nat
      /\ p \in Seq(Byte) /\ Len(p) \in Nat /\ (i < N => Len(p) = r.len)
  BY <1>1, RecordsTyped
<1>3. W \in Seq(Byte) /\ Len(W) = Reach(N) /\ s \in Nat /\ Len(W) \in Nat
  BY <1>1, WireLayout, LenProperties
<1>4. Reach(i) = s + 5 + Len(p)
  BY <1>1, WireLayout DEF RECORD_HEADER_LEN
<1>5. \A k \in 1 .. Len(E) : W[s + k] = E[k]
  BY <1>1, WireLayout
<1>6. Len(E) = 5 + Len(p) /\ \A k \in 1 .. Len(p) : E[5 + k] = p[k]
  BY <1>2, Encoding DEF RECORD_HEADER_LEN
<1>7. /\ H \in Seq(Byte) /\ Len(H) \in Nat /\ c \in Nat
      /\ Carried(i) = c + Len(p) /\ Carried(i) <= Len(H)
      /\ \A k \in 1 .. Len(p) : H[c + k] = p[k]
  BY <1>1, HandshakeLayout, LenProperties
<1>8. t \in 0 .. Len(W) /\ s + 5 \in 0 .. t /\ t - (s + 5) = t - s - 5 /\ t \in Nat
  <2> HIDE DEF W, s
  <2> QED
    BY <1>3 DEF W, s
<1> HIDE DEF N, W, i, r, p, s, c, H, E
<1>9. available = Window(W, t, s + 5, r.len) /\ w = Least(r.len, t - (s + 5))
  BY <1>8 DEF W, s, r, i
<1>10. w \in Nat /\ w <= Len(p)
  <2>1. i = N => t <= s + 5 + Len(p)
    <3>1. i = N => Len(W) = s + 5 + Len(p)
      BY <1>3, <1>4
    <3> QED
      BY <1>8, <3>1
  <2>2. i < N \/ i = N
    BY <1>1
  <2>3. w \in Nat /\ w <= r.len /\ w <= t - (s + 5)
    BY <1>2, <1>3, <1>8, <1>9, SMTT(30) DEF Least
  <2> QED
    BY <1>2, <1>3, <1>8, <2>1, <2>2, <2>3
<1>11. /\ available \in Seq(Byte) /\ Len(available) = w
       /\ \A k \in 1 .. w : available[k] = W[(s + 5) + k]
  <2> DEFINE v == Window(W, t, s + 5, r.len)
  <2>1. W \in Seq(Byte) /\ r.len \in Nat
    BY <1>2, <1>3
  <2>2. /\ v \in Seq(Byte) /\ Len(v) = Least(r.len, t - (s + 5))
        /\ \A k \in 1 .. Least(r.len, t - (s + 5)) : v[k] = W[(s + 5) + k]
    BY <1>8, <2>1, Visible, ZenonT(30)
  <2> HIDE DEF v
  <2>3. available = v
    BY <1>9 DEF v
  <2> QED
    BY <1>9, <2>2, <2>3
<1>12. ASSUME NEW k \in 1 .. w PROVE available[k] = p[k] /\ p[k] = H[c + k]
  <2>1. k \in 1 .. Len(p) /\ 5 + k \in 1 .. Len(E) /\ (s + 5) + k = s + (5 + k)
    <3>1. Len(E) = 5 + Len(p) /\ Len(p) \in Nat /\ s \in Nat /\ k \in Nat /\ k >= 1 /\ k <= Len(p)
      BY <1>2, <1>3, <1>6, <1>10
    <3> QED
      BY <3>1
  <2>2. W[s + (5 + k)] = E[5 + k]
    BY <1>5, <2>1
  <2>3. available[k] = W[s + (5 + k)]
    BY <1>11, <2>1
  <2> QED
    BY <1>6, <1>7, <2>1, <2>2, <2>3 DEF p
<1>13. c + w <= Len(H)
  BY <1>2, <1>7, <1>10
<1>14. Known(SubSeq(H, 1, Least(4, c)), available) = SubSeq(H, 1, Least(4, c + Len(available)))
  <2>1. c + Len(available) <= Len(H)
    BY <1>11, <1>13
  <2>2. \A k \in 1 .. Len(available) : available[k] = H[c + k]
    BY <1>11, <1>12
  <2> QED
    BY <1>7, <1>11, <2>1, <2>2, KnownGrows
<1>15. w = Len(p) => available = p
  <2> SUFFICES ASSUME w = Len(p) PROVE available = p
    OBVIOUS
  <2>1. Len(available) = Len(p) /\ \A k \in 1 .. Len(p) : available[k] = p[k]
    BY <1>11, <1>12
  <2> QED
    BY <1>2, <1>11, <2>1, SeqEqual
<1> QED
  BY <1>10, <1>11, <1>13, <1>14, <1>15 DEF H, c, p, r, i

\* What a turn of the scan sees of its record.
HeaderAt(buf, scan) == Take(SubSeq(buf, scan.offset + 1, Len(buf)), RECORD_HEADER_LEN)
PayloadAt(buf, scan) ==
    Take(SubSeq(buf, scan.offset + 5 + 1, Len(buf)), PayloadLen(HeaderAt(buf, scan)))

\* What a turn does at a header that does not let it go on.
LEMMA HeaderTurn ==
    ASSUME NEW buf, NEW scan
    PROVE  LET header == HeaderAt(buf, scan)
               check == CheckPartialRecordHeader(header, scan.offset = 0)
               Stop(v) == [scan EXCEPT !.verdict = v]
           IN  /\ Len(header) < 5 =>
                      ScanRecord(buf, scan) = Stop(IF check # "ok" THEN check ELSE "Incomplete")
               /\ ~(Len(header) < 5) /\ check # "ok" => ScanRecord(buf, scan) = Stop(check)
               /\ ~(Len(header) < 5) /\ check = "ok"
                      /\ PayloadLen(header) \notin 1 .. MAX_RECORD_PAYLOAD =>
                      ScanRecord(buf, scan) = Stop("InvalidRecord")
               /\ ~(Len(header) < 5) /\ check = "ok"
                      /\ PayloadLen(header) \in 1 .. MAX_RECORD_PAYLOAD
                      /\ Len(scan.payloads) = MaxRecords =>
                      ScanRecord(buf, scan) = Stop("TooLarge")
<1> DEFINE header == HeaderAt(buf, scan)
           check == CheckPartialRecordHeader(header, scan.offset = 0)
           Stop(v) == [scan EXCEPT !.verdict = v]
<1>1. RECORD_HEADER_LEN = 5
  BY DEF RECORD_HEADER_LEN
<1>2. header = Take(SubSeq(buf, scan.offset + 1, Len(buf)), RECORD_HEADER_LEN)
  BY DEF HeaderAt
<1> HIDE DEF header
<1>3. Len(header) < 5 => ScanRecord(buf, scan) = Stop(IF check # "ok" THEN check ELSE "Incomplete")
  BY <1>1, <1>2 DEF ScanRecord
<1>4. ~(Len(header) < 5) /\ check # "ok" => ScanRecord(buf, scan) = Stop(check)
  BY <1>1, <1>2 DEF ScanRecord, CheckRecordHeader
<1>5. ~(Len(header) < 5) /\ check = "ok" /\ PayloadLen(header) \notin 1 .. MAX_RECORD_PAYLOAD =>
          ScanRecord(buf, scan) = Stop("InvalidRecord")
  BY <1>1, <1>2 DEF ScanRecord, CheckRecordHeader
<1>6. ~(Len(header) < 5) /\ check = "ok" /\ PayloadLen(header) \in 1 .. MAX_RECORD_PAYLOAD
          /\ Len(scan.payloads) = MaxRecords => ScanRecord(buf, scan) = Stop("TooLarge")
  BY <1>1, <1>2 DEF ScanRecord, CheckRecordHeader
<1> QED
  BY <1>3, <1>4, <1>5, <1>6 DEF header

\* What a turn does with the payload of a record whose header is accepted.
LEMMA PayloadTurn ==
    ASSUME NEW buf, NEW scan, scan.offset \in Nat, ~(Len(HeaderAt(buf, scan)) < 5),
           CheckPartialRecordHeader(HeaderAt(buf, scan), scan.offset = 0) = "ok",
           PayloadLen(HeaderAt(buf, scan)) \in Nat,
           PayloadLen(HeaderAt(buf, scan)) \in 1 .. MAX_RECORD_PAYLOAD,
           Len(scan.payloads) # MaxRecords
    PROVE  LET known == Known(scan.known, PayloadAt(buf, scan))
               payloads == Append(scan.payloads, PayloadAt(buf, scan))
           IN  ScanRecord(buf, scan) =
                   IF Observe(known) # "ok" THEN [scan EXCEPT !.verdict = Observe(known)]
                   ELSE IF Len(PayloadAt(buf, scan)) < PayloadLen(HeaderAt(buf, scan))
                   THEN [scan EXCEPT !.verdict = "Incomplete"]
                   ELSE [offset |-> scan.offset + 5 + PayloadLen(HeaderAt(buf, scan)),
                         known |-> known, payloads |-> payloads,
                         verdict |-> IF Complete(known, Len(FlattenSeq(payloads)))
                                     THEN "ok" ELSE "scan"]
<1> DEFINE header == HeaderAt(buf, scan)
           available == PayloadAt(buf, scan)
           x == scan.offset
           y == PayloadLen(header)
<1>1. RECORD_HEADER_LEN = 5
  BY DEF RECORD_HEADER_LEN
<1>2. header = Take(SubSeq(buf, x + 1, Len(buf)), RECORD_HEADER_LEN)
  BY DEF HeaderAt
<1>3. (x + 5 + y) - (x + 5) = y
  <2> HIDE DEF x, y
  <2> QED
    BY DEF x, y
<1>4. available = Take(SubSeq(buf, x + 5 + 1, Len(buf)), (x + 5 + y) - (x + 5))
  BY <1>3 DEF PayloadAt
<1>5. /\ CheckRecordHeader(header, x = 0) = "ok"
      /\ ~(Len(header) < 5) /\ Len(scan.payloads) # MaxRecords
  BY DEF CheckRecordHeader
<1> HIDE DEF header, available
<1> QED
  BY <1>1, <1>2, <1>3, <1>4, <1>5, Zenon DEF ScanRecord, header, available

\* A list's beginning grows by its next element.
LEMMA PrefixGrows ==
    ASSUME NEW T, NEW s \in Seq(T), NEW n \in 0 .. Len(s) - 1
    PROVE  Append(SubSeq(s, 1, n), s[n + 1]) = SubSeq(s, 1, n + 1)
<1> DEFINE e == s[n + 1]
           a == SubSeq(s, 1, n)
           b == Append(a, e)
           d == SubSeq(s, 1, n + 1)
<1>0. /\ Len(s) \in Nat /\ n \in Nat /\ n \in 0 .. Len(s) /\ n + 1 \in 0 .. Len(s)
      /\ n + 1 \in 1 .. Len(s)
  BY LenProperties
<1>1. e \in T
  BY <1>0, ElementOfSeq
<1>2. a \in Seq(T) /\ Len(a) = n /\ \A i \in 1 .. n : a[i] = s[i]
  BY <1>0, PrefixIs
<1>3. d \in Seq(T) /\ Len(d) = n + 1 /\ \A i \in 1 .. n + 1 : d[i] = s[i]
  BY <1>0, PrefixIs
<1> HIDE DEF a, d
<1>4. /\ b \in Seq(T) /\ Len(b) = n + 1
      /\ \A i \in 1 .. n : b[i] = a[i]
      /\ b[n + 1] = e
  BY <1>1, <1>2, AppendProperties
<1> HIDE DEF b
<1>5. ASSUME NEW i \in 1 .. n + 1 PROVE b[i] = d[i]
  <2>1. i \in 1 .. n \/ i = n + 1
    BY <1>0
  <2> QED
    BY <1>2, <1>3, <1>4, <2>1
<1> QED
  BY <1>3, <1>4, <1>5, SeqEqual DEF a, b, d

\* Only the first record is at the start of the stream.
LEMMA FirstRecord ==
    ASSUME Sendable(Records), NEW n \in 0 .. Len(Records)
    PROVE  Reach(n) \in Nat /\ (Reach(n) = 0 <=> n = 0)
<1>1. Reach(0) = 0 /\ Reach(n) \in Nat
  BY WireLayout
<1>2. n # 0 => Reach(n) # 0
  <2> SUFFICES ASSUME n # 0 PROVE Reach(n) # 0
    OBVIOUS
  <2>1. Len(Records) \in Nat
    BY RecordsTyped
  <2>2. n \in 1 .. Len(Records) /\ n - 1 \in 0 .. Len(Records)
    BY <2>1
  <2>3. Reach(n) = Reach(n - 1) + 5 + Len(Records[n].payload)
    BY <2>2, WireLayout DEF RECORD_HEADER_LEN
  <2>4. Reach(n - 1) \in Nat /\ Len(Records[n].payload) \in Nat
    BY <2>2, WireLayout, RecordsTyped
  <2> QED
    BY <2>3, <2>4
<1> QED
  BY <1>1, <1>2

\* A turn at the header of the record after the first n.
LEMMA TurnAtHeader ==
    ASSUME Sendable(Records), NEW n \in 0 .. Len(Records) - 1,
           NEW t \in 0 .. Len(Wire(Records)), NEW scan, AtRecord(scan, n, t),
           NEW next, next = ScanRecord(SubSeq(Wire(Records), 1, t), scan),
           NEW r, r = Records[n + 1], NEW s, s = Reach(n)
    PROVE  /\ t >= s + 1 /\ r.type # CONTENT_TYPE_HANDSHAKE =>
                  next.verdict = IF n = 0 THEN "NotHandshake" ELSE "InvalidRecord"
           /\ t >= s + 2 /\ r.type = CONTENT_TYPE_HANDSHAKE /\ r.major # RECORD_VERSION_MAJOR =>
                  next.verdict = "InvalidRecord"
           /\ /\ t < s + 5
              /\ t >= s + 1 => r.type = CONTENT_TYPE_HANDSHAKE
              /\ t >= s + 2 => r.major = RECORD_VERSION_MAJOR
              => next.verdict = "Incomplete"
           /\ /\ t >= s + 5 /\ r.type = CONTENT_TYPE_HANDSHAKE /\ r.major = RECORD_VERSION_MAJOR
              /\ r.len \notin 1 .. MAX_RECORD_PAYLOAD
              => next.verdict = "InvalidRecord"
           /\ /\ t >= s + 5 /\ r.type = CONTENT_TYPE_HANDSHAKE /\ r.major = RECORD_VERSION_MAJOR
              /\ r.len \in 1 .. MAX_RECORD_PAYLOAD /\ n = MaxRecords
              => next.verdict = "TooLarge"
<1> DEFINE buf == SubSeq(Wire(Records), 1, t)
           header == HeaderAt(buf, scan)
           first == scan.offset = 0
           check == CheckPartialRecordHeader(header, first)
<1>1. scan.offset = s /\ s \in Nat /\ (first <=> n = 0) /\ s <= t /\ t \in Nat
  <2>1. n \in 0 .. Len(Records) /\ Len(Wire(Records)) \in Nat
    BY RecordsTyped, WireLayout, LenProperties
  <2> QED
    BY <2>1, FirstRecord DEF AtRecord
<1>2. /\ Len(header) = Least(5, t - s)
      /\ t >= s + 1 => header[1] = r.type
      /\ t >= s + 2 => header[2] = r.major
      /\ t >= s + 5 => PayloadLen(header) = r.len
  <2>1. Reach(n) <= t /\ scan.offset = Reach(n)
    BY DEF AtRecord
  <2> QED
    BY <2>1, HeaderSeen DEF HeaderAt
<1>3. /\ Len(header) < 5 <=> t < s + 5
      /\ Len(header) >= 1 <=> t >= s + 1
      /\ Len(header) >= 2 <=> t >= s + 2
  <2> DEFINE m == Len(header)
  <2>1. m = (IF 5 < t - s THEN 5 ELSE t - s) /\ s \in Nat /\ t \in Nat /\ s <= t
    BY <1>1, <1>2 DEF Least
  <2> HIDE DEF m
  <2>2. /\ m < 5 <=> t < s + 5
        /\ m >= 1 <=> t >= s + 1
        /\ m >= 2 <=> t >= s + 2
    BY <2>1
  <2> QED
    BY <2>2 DEF m
<1>4. r.len \in Nat
  BY RecordsTyped
<1>5. Len(scan.payloads) = n
  <2>1. Payloads \in Seq(Seq(Byte)) /\ Len(Payloads) = Len(Records) /\ n \in 0 .. Len(Records)
    BY HandshakeLayout, RecordsTyped
  <2>2. Len(SubSeq(Payloads, 1, n)) = n
    BY <2>1, PrefixIs
  <2> QED
    BY <2>2 DEF AtRecord
<1>6. \A v : [scan EXCEPT !.verdict = v].verdict = v
  BY Stops
<1> HIDE DEF buf
<1>7. /\ Len(header) < 5 =>
             next = [scan EXCEPT !.verdict = IF check # "ok" THEN check ELSE "Incomplete"]
      /\ ~(Len(header) < 5) /\ check # "ok" => next = [scan EXCEPT !.verdict = check]
      /\ ~(Len(header) < 5) /\ check = "ok" /\ PayloadLen(header) \notin 1 .. MAX_RECORD_PAYLOAD =>
             next = [scan EXCEPT !.verdict = "InvalidRecord"]
      /\ ~(Len(header) < 5) /\ check = "ok" 
             /\ PayloadLen(header) \in 1 .. MAX_RECORD_PAYLOAD /\ Len(scan.payloads) = MaxRecords =>
             next = [scan EXCEPT !.verdict = "TooLarge"]
  <2>1. next = ScanRecord(buf, scan)
    BY DEF buf
  <2> QED
    BY <2>1, HeaderTurn
<1> HIDE DEF header
<1>8. /\ Len(header) < 5 => next.verdict = IF check # "ok" THEN check ELSE "Incomplete"
      /\ ~(Len(header) < 5) /\ check # "ok" => next.verdict = check
      /\ ~(Len(header) < 5) /\ check = "ok" /\ PayloadLen(header) \notin 1 .. MAX_RECORD_PAYLOAD =>
             next.verdict = "InvalidRecord"
      /\ ~(Len(header) < 5) /\ check = "ok" 
             /\ PayloadLen(header) \in 1 .. MAX_RECORD_PAYLOAD /\ Len(scan.payloads) = MaxRecords =>
             next.verdict = "TooLarge"
  <2> HIDE DEF check
  <2> QED
    BY <1>6, <1>7, Zenon
<1>9. /\ t >= s + 1 /\ r.type # CONTENT_TYPE_HANDSHAKE =>
             check = IF n = 0 THEN "NotHandshake" ELSE "InvalidRecord"
      /\ t >= s + 2 /\ r.type = CONTENT_TYPE_HANDSHAKE /\ r.major # RECORD_VERSION_MAJOR =>
             check = "InvalidRecord"
      /\ (t >= s + 1 => r.type = CONTENT_TYPE_HANDSHAKE)
             /\ (t >= s + 2 => r.major = RECORD_VERSION_MAJOR) => check = "ok"
  <2> HIDE DEF first
  <2>1. t >= s + 2 => t >= s + 1
    BY <1>1
  <2> QED
    BY <1>1, <1>2, <1>3, <2>1 DEF CheckPartialRecordHeader
<1> HIDE DEF check
<1>10. t >= s + 5 => t >= s + 1 /\ t >= s + 2 /\ ~(t < s + 5)
  BY <1>1
<1> QED
  BY <1>2, <1>3, <1>4, <1>5, <1>8, <1>9, <1>10

\* The scan after a turn that has w bytes of the payload of r.
AfterPayload(next, n, r, c, w) ==
    /\ w \in Nat /\ w <= Len(r.payload) /\ c + w <= Len(Handshake)
    /\ c + w >= 1 /\ Handshake[1] # HANDSHAKE_TYPE_CLIENT_HELLO =>
           next.verdict = "NotClientHello"
    /\ ~(c + w >= 1 /\ Handshake[1] # HANDSHAKE_TYPE_CLIENT_HELLO)
           /\ c + w >= 4 /\ Declared > MaxHandshakeBytes => next.verdict = "TooLarge"
    /\ ~(c + w >= 1 /\ Handshake[1] # HANDSHAKE_TYPE_CLIENT_HELLO)
           /\ ~(c + w >= 4 /\ Declared > MaxHandshakeBytes) /\ w < r.len =>
           next.verdict = "Incomplete"
    /\ ~(c + w >= 1 /\ Handshake[1] # HANDSHAKE_TYPE_CLIENT_HELLO)
           /\ ~(c + w >= 4 /\ Declared > MaxHandshakeBytes) /\ ~(w < r.len) =>
           next = [offset |-> Reach(n + 1),
                   known |-> SubSeq(Handshake, 1, Least(4, Carried(n + 1))),
                   payloads |-> SubSeq(Payloads, 1, n + 1),
                   verdict |-> IF Carried(n + 1) >= 4 /\ Carried(n + 1) >= 4 + Declared
                               THEN "ok" ELSE "scan"]

\* A turn at the payload of the record after the first n.
LEMMA TurnAtPayload ==
    ASSUME Sendable(Records), NEW n \in 0 .. Len(Records) - 1,
           NEW t \in 0 .. Len(Wire(Records)), NEW scan, AtRecord(scan, n, t),
           NEW next, next = ScanRecord(SubSeq(Wire(Records), 1, t), scan),
           Reach(n) + 5 <= t, Records[n + 1].type = CONTENT_TYPE_HANDSHAKE,
           Records[n + 1].major = RECORD_VERSION_MAJOR,
           Records[n + 1].len \in 1 .. MAX_RECORD_PAYLOAD, n # MaxRecords
    PROVE  AfterPayload(next, n, Records[n + 1], Carried(n),
                        Least(Records[n + 1].len, t - Reach(n) - 5))
<1> SUFFICES ASSUME NEW r, r = Records[n + 1], NEW s, s = Reach(n), NEW c, c = Carried(n),
                    NEW w, w = Least(r.len, t - s - 5)
             PROVE  AfterPayload(next, n, r, c, w)
  OBVIOUS
<1>0. t >= s + 5 /\ r.type = CONTENT_TYPE_HANDSHAKE /\ r.major = RECORD_VERSION_MAJOR
      /\ r.len \in 1 .. MAX_RECORD_PAYLOAD
  <2>1. n \in 0 .. Len(Records) /\ Len(Wire(Records)) \in Nat
    BY RecordsTyped, WireLayout, LenProperties
  <2>2. s \in Nat
    BY <2>1, WireLayout
  <2> QED
    BY <2>1, <2>2
<1> DEFINE buf == SubSeq(Wire(Records), 1, t)
           header == HeaderAt(buf, scan)
           available == PayloadAt(buf, scan)
           N == Len(Records)
           H == Handshake
           k == SubSeq(H, 1, Least(4, c + w))
           payloads == Append(scan.payloads, available)
<1>1. /\ N \in Nat /\ n \in 0 .. N /\ n + 1 \in 1 .. N /\ n + 1 \in 0 .. N /\ (n + 1) - 1 = n
      /\ r.len \in Nat /\ r.payload \in Seq(Byte) /\ Len(r.payload) \in Nat
      /\ Len(r.payload) <= r.len
  BY RecordsTyped
<1>2. scan.offset = s /\ s \in Nat /\ s <= t /\ t \in Nat
  <2>1. Len(Wire(Records)) \in Nat
    BY WireLayout, LenProperties
  <2> QED
    BY <1>1, <2>1, FirstRecord DEF AtRecord
<1>3. /\ Len(header) = Least(5, t - s)
      /\ header[1] = r.type /\ header[2] = r.major /\ PayloadLen(header) = r.len
  <2>1. Reach(n) <= t /\ scan.offset = Reach(n)
    BY DEF AtRecord
  <2>2. t >= s + 1 /\ t >= s + 2
    BY <1>2
  <2> QED
    BY <2>1, <2>2, HeaderSeen DEF HeaderAt
<1>4. ~(Len(header) < 5)
  <2> DEFINE m == Len(header)
  <2>1. m = (IF 5 < t - s THEN 5 ELSE t - s)
    BY <1>3 DEF Least
  <2> HIDE DEF m
  <2>2. ~(m < 5)
    BY <1>2, <2>1
  <2> QED
    BY <2>2 DEF m
<1>5. CheckPartialRecordHeader(header, scan.offset = 0) = "ok"
  <2> HIDE DEF header
  <2> QED
    BY <1>3 DEF CheckPartialRecordHeader
<1>6. available = Window(Wire(Records), t, Reach(n) + 5, r.len)
  BY <1>2, <1>3 DEF PayloadAt, Window
<1>7. /\ Len(available) = w /\ w \in Nat /\ w <= Len(r.payload) /\ c + w <= Len(H)
      /\ Known(SubSeq(H, 1, Least(4, c)), available) = k
      /\ w = Len(r.payload) => available = r.payload
  <2>1. Reach(n) + 5 <= t /\ w = Least(Records[n + 1].len, t - Reach(n) - 5)
    BY <1>2
  <2> HIDE DEF available
  <2> QED
    BY <1>6, <2>1, PayloadSeen
<1>8. scan.known = SubSeq(H, 1, Least(4, c)) /\ scan.payloads = SubSeq(Payloads, 1, n)
  BY DEF AtRecord
<1>9. Payloads \in Seq(Seq(Byte)) /\ Len(Payloads) = N /\ Payloads[n + 1] = r.payload
  BY <1>1, HandshakeLayout, RecordsTyped DEF Payloads
<1>10. Len(scan.payloads) = n
  <2>1. Len(SubSeq(Payloads, 1, n)) = n
    BY <1>1, <1>9, PrefixIs
  <2> QED
    BY <1>8, <2>1
<1>11. \A v : [scan EXCEPT !.verdict = v].verdict = v
  BY Stops
<1>12. next = IF Observe(k) # "ok" THEN [scan EXCEPT !.verdict = Observe(k)]
              ELSE IF w < r.len THEN [scan EXCEPT !.verdict = "Incomplete"]
              ELSE [offset |-> s + 5 + r.len, known |-> k, payloads |-> payloads,
                    verdict |-> IF Complete(k, Len(FlattenSeq(payloads))) THEN "ok" ELSE "scan"]
  <2>1. next = ScanRecord(buf, scan) /\ scan.offset \in Nat /\ Len(scan.payloads) # MaxRecords
    BY <1>2, <1>10
  <2>2. PayloadLen(header) \in Nat /\ PayloadLen(header) \in 1 .. MAX_RECORD_PAYLOAD
    BY <1>1, <1>3
  <2>3. Known(scan.known, available) = k
    BY <1>7, <1>8
  <2> HIDE DEF buf, k
  <2>4. next =
              IF Observe(Known(scan.known, available)) # "ok"
              THEN [scan EXCEPT !.verdict = Observe(Known(scan.known, available))]
              ELSE IF Len(available) < PayloadLen(header)
              THEN [scan EXCEPT !.verdict = "Incomplete"]
              ELSE [offset |-> scan.offset + 5 + PayloadLen(header),
                    known |-> Known(scan.known, available), payloads |-> payloads,
                    verdict |-> IF Complete(Known(scan.known, available), Len(FlattenSeq(payloads)))
                                THEN "ok" ELSE "scan"]
    BY <1>4, <1>5, <2>1, <2>2, PayloadTurn
  <2> HIDE DEF header, available, payloads
  <2> QED
    BY <1>2, <1>3, <1>7, <2>1, <2>3, <2>4
<1>13. H \in Seq(Byte) /\ Len(H) \in Nat /\ c \in Nat /\ Carried(n + 1) = c + Len(r.payload)
  BY <1>1, HandshakeLayout, LenProperties
<1>14. Reach(n + 1) = s + 5 + Len(r.payload)
  BY <1>1, WireLayout DEF RECORD_HEADER_LEN
<1> DEFINE x == c + w
<1>15. x \in 0 .. Len(H) /\ x \in Nat
  <2> HIDE DEF H
  <2> QED
    BY <1>7, <1>13, SMTT(30)
<1>16. /\ Observe(k) = IF x >= 1 /\ H[1] # HANDSHAKE_TYPE_CLIENT_HELLO THEN "NotClientHello"
                       ELSE IF x >= 4 /\ HandshakeLen(H) > MaxHandshakeBytes THEN "TooLarge"
                       ELSE "ok"
       /\ x >= 4 => HandshakeLen(k) = HandshakeLen(H)
       /\ (Len(k) = HANDSHAKE_HEADER_LEN) <=> (x >= 4)
  <2>1. k = SubSeq(H, 1, Least(4, x))
    OBVIOUS
  <2> HIDE DEF k, H, x
  <2> QED
    BY <1>13, <1>15, <2>1, HeaderObserved
<1>17. HandshakeLen(H) = Declared
  BY DEF Declared
<1>18. ASSUME ~(w < r.len)
       PROVE  /\ s + 5 + r.len = Reach(n + 1) /\ x = Carried(n + 1)
              /\ payloads = SubSeq(Payloads, 1, n + 1)
              /\ Complete(k, Len(FlattenSeq(payloads))) <=> x >= 4 /\ x >= 4 + Declared
  <2>1. w = r.len /\ w = Len(r.payload)
    BY <1>1, <1>7, <1>18
  <2>2. s + 5 + r.len = Reach(n + 1) /\ x = Carried(n + 1)
    BY <1>13, <1>14, <2>1
  <2>3. payloads = SubSeq(Payloads, 1, n + 1)
    <3>1. available = Payloads[n + 1]
      BY <1>7, <1>9, <2>1
    <3>2. Append(SubSeq(Payloads, 1, n), Payloads[n + 1]) = SubSeq(Payloads, 1, n + 1)
      BY <1>1, <1>9, PrefixGrows
    <3> HIDE DEF available
    <3> QED
      BY <1>8, <3>1, <3>2
  <2>4. Len(FlattenSeq(payloads)) = x
    BY <2>2, <2>3 DEF Carried, Joined
  <2> HIDE DEF x, k, payloads
  <2>5. Complete(k, Len(FlattenSeq(payloads))) <=> x >= 4 /\ x >= 4 + Declared
    BY <1>16, <1>17, <2>4, SMT DEF Complete, HANDSHAKE_HEADER_LEN
  <2> QED
    BY <2>2, <2>3, <2>5
<1> HIDE DEF k, payloads, available, header, buf, x
<1>19. IF x >= 1 /\ H[1] # HANDSHAKE_TYPE_CLIENT_HELLO
       THEN next.verdict = "NotClientHello"
       ELSE IF x >= 4 /\ Declared > MaxHandshakeBytes THEN next.verdict = "TooLarge"
       ELSE IF w < r.len THEN next.verdict = "Incomplete"
       ELSE next = [offset |-> s + 5 + r.len, known |-> k, payloads |-> payloads,
                    verdict |-> IF Complete(k, Len(FlattenSeq(payloads))) THEN "ok" ELSE "scan"]
  <2>1. CASE x >= 1 /\ H[1] # HANDSHAKE_TYPE_CLIENT_HELLO
    <3>1. Observe(k) = "NotClientHello"
      BY <1>16, <2>1
    <3> QED
      BY <1>11, <1>12, <2>1, <3>1
  <2>2. CASE /\ ~(x >= 1 /\ H[1] # HANDSHAKE_TYPE_CLIENT_HELLO)
             /\ x >= 4 /\ Declared > MaxHandshakeBytes
    <3>1. Observe(k) = "TooLarge"
      BY <1>16, <1>17, <2>2
    <3> QED
      BY <1>11, <1>12, <2>2, <3>1
  <2>3. CASE /\ ~(x >= 1 /\ H[1] # HANDSHAKE_TYPE_CLIENT_HELLO)
             /\ ~(x >= 4 /\ Declared > MaxHandshakeBytes)
    <3>1. Observe(k) = "ok"
      BY <1>16, <1>17, <2>3
    <3> QED
      BY <1>11, <1>12, <2>3, <3>1
  <2> QED
    BY <2>1, <2>2, <2>3
<1>20. ~(w < r.len) =>
           [offset |-> s + 5 + r.len, known |-> k, payloads |-> payloads,
            verdict |-> IF Complete(k, Len(FlattenSeq(payloads))) THEN "ok" ELSE "scan"]
         = [offset |-> Reach(n + 1),
            known |-> SubSeq(Handshake, 1, Least(4, Carried(n + 1))),
            payloads |-> SubSeq(Payloads, 1, n + 1),
            verdict |-> IF Carried(n + 1) >= 4 /\ Carried(n + 1) >= 4 + Declared
                        THEN "ok" ELSE "scan"]
  <2> SUFFICES ASSUME ~(w < r.len)
               PROVE  [offset |-> s + 5 + r.len, known |-> k, payloads |-> payloads,
            verdict |-> IF Complete(k, Len(FlattenSeq(payloads))) THEN "ok" ELSE "scan"]
         = [offset |-> Reach(n + 1),
            known |-> SubSeq(Handshake, 1, Least(4, Carried(n + 1))),
            payloads |-> SubSeq(Payloads, 1, n + 1),
            verdict |-> IF Carried(n + 1) >= 4 /\ Carried(n + 1) >= 4 + Declared
                        THEN "ok" ELSE "scan"]
    OBVIOUS
  <2>1. k = SubSeq(H, 1, Least(4, x))
    BY DEF k, x
  <2> QED
    BY <1>18, <2>1, Zenon
<1> QED
  BY <1>7, <1>19, <1>20 DEF x, AfterPayload

\* A piece of a prefix is a piece of the whole.
LEMMA PieceOfPrefix ==
    ASSUME NEW T, NEW h \in Seq(T), NEW x \in 0 .. Len(h),
           NEW a \in Nat, a >= 1, NEW b \in Nat, b <= x
    PROVE  SubSeq(SubSeq(h, 1, x), a, b) = SubSeq(h, a, b)
<1> DEFINE p == SubSeq(h, 1, x)
           u == SubSeq(p, a, b)
           v == SubSeq(h, a, b)
           m == IF a <= b THEN b - a + 1 ELSE 0
<1>0. Len(h) \in Nat /\ x \in Nat /\ x <= Len(h)
  BY LenProperties
<1>1. p \in Seq(T) /\ Len(p) = x /\ \A i \in 1 .. x : p[i] = h[i]
  BY PrefixIs
<1> HIDE DEF p
<1>2. u \in Seq(T) /\ Len(u) = m /\ \A i \in 1 .. b - a + 1 : u[i] = p[a + i - 1]
  <2>1. \A i \in a .. b : p[i] \in T
    <3>1. \A i \in a .. b : i \in 1 .. Len(p)
      BY <1>0, <1>1
    <3> QED
      BY <1>1, <3>1, ElementOfSeq
  <2> QED
    BY <1>1, <2>1, SubSeqProperties
<1>3. v \in Seq(T) /\ Len(v) = m /\ \A i \in 1 .. b - a + 1 : v[i] = h[a + i - 1]
  <2>1. \A i \in a .. b : h[i] \in T
    <3>1. \A i \in a .. b : i \in 1 .. Len(h)
      BY <1>0
    <3> QED
      BY <3>1, ElementOfSeq
  <2> QED
    BY <2>1, SubSeqProperties
<1> HIDE DEF u, v
<1>4. ASSUME NEW i \in 1 .. m PROVE u[i] = v[i]
  <2>1. i \in 1 .. b - a + 1 /\ a + i - 1 \in 1 .. x
    BY <1>0
  <2> QED
    BY <1>1, <1>2, <1>3, <2>1
<1> HIDE DEF m
<1> QED
  BY <1>2, <1>3, <1>4, SeqEqual DEF u, v, p

\* A turn after the last record.
LEMMA TurnAtEnd ==
    ASSUME Sendable(Records), NEW t \in 0 .. Len(Wire(Records)), NEW scan,
           AtRecord(scan, Len(Records), t),
           NEW next, next = ScanRecord(SubSeq(Wire(Records), 1, t), scan)
    PROVE  Finished(next, t)
<1> DEFINE N == Len(Records)
           W == Wire(Records)
           buf == SubSeq(W, 1, t)
           header == HeaderAt(buf, scan)
<1>1. N \in 0 .. N
  BY RecordsTyped
<1>2. W \in Seq(Byte) /\ Len(W) = Reach(N) /\ Reach(N) \in Nat
  BY <1>1, WireLayout
<1>3. Reach(N) = t /\ scan.offset = t /\ t \in Nat /\ \A f \in Events : f.at > t
  <2>1. Reach(N) <= t /\ scan.offset = Reach(N) /\ \A f \in Events : f.at > Reach(N)
    BY DEF AtRecord, Quiet
  <2>2. Reach(N) = t
    BY <1>2, <2>1
  <2> QED
    BY <1>2, <2>1, <2>2
<1>4. Len(header) = 0
  <2>1. header = Window(W, t, t, 5)
    BY <1>3 DEF HeaderAt, Window, RECORD_HEADER_LEN
  <2>2. W \in Seq(Byte) /\ t \in 0 .. Len(W) /\ t \in 0 .. t /\ 5 \in Nat
    BY <1>2, <1>3
  <2> HIDE DEF W, header
  <2>3. Len(Window(W, t, t, 5)) = Least(5, t - t)
    BY <2>2, Visible
  <2> QED
    BY <1>3, <2>1, <2>3 DEF Least
<1>5. next = [scan EXCEPT !.verdict = "Incomplete"]
  <2> DEFINE check == CheckPartialRecordHeader(header, scan.offset = 0)
  <2>1. check = "ok"
    <3> HIDE DEF header
    <3> QED
      BY <1>4 DEF CheckPartialRecordHeader
  <2>2. Len(header) < 5
    BY <1>4
  <2>3. next = [scan EXCEPT !.verdict = IF check # "ok" THEN check ELSE "Incomplete"]
    BY <2>2, HeaderTurn
  <2> HIDE DEF check
  <2> QED
    BY <2>1, <2>3
<1>6. next.verdict = "Incomplete"
  BY <1>5, Stops
<1> QED
  BY <1>3, <1>6 DEF Finished

\* A turn at the record after the first n goes on to the next or ends the scan
\* with what decides.
LEMMA RecordTurn ==
    ASSUME Sendable(Records), NEW n \in 0 .. Len(Records) - 1,
           NEW t \in 0 .. Len(Wire(Records)), NEW scan, AtRecord(scan, n, t),
           NEW next, next = ScanRecord(SubSeq(Wire(Records), 1, t), scan)
    PROVE  AtRecord(next, n + 1, t) \/ Finished(next, t)
<1> DEFINE N == Len(Records)
           H == Handshake
           D == Declared
           r == Records[n + 1]
           s == Reach(n)
           c == Carried(n)
           l == Len(r.payload)
           w == Least(r.len, t - s - 5)
           good == r.type = CONTENT_TYPE_HANDSHAKE /\ r.major = RECORD_VERSION_MAJOR
           valid == r.len \in 1 .. MAX_RECORD_PAYLOAD
<1>1. /\ N \in Nat /\ n \in 0 .. N /\ n + 1 \in 1 .. N /\ n + 1 \in 0 .. N /\ (n + 1) - 1 = n
      /\ n \in Nat /\ r.len \in Nat /\ l \in Nat /\ (valid => l <= r.len)
  BY RecordsTyped
<1>2. s \in Nat /\ s <= t /\ t \in Nat /\ Reach(n + 1) = s + 5 + l
  <2>1. Len(Wire(Records)) \in Nat
    BY WireLayout, LenProperties
  <2>2. s \in Nat /\ Reach(n + 1) = s + 5 + l
    BY <1>1, WireLayout DEF RECORD_HEADER_LEN
  <2> QED
    BY <2>1, <2>2 DEF AtRecord
<1>3. c \in Nat /\ Carried(n + 1) = c + l /\ c + l <= Len(H) /\ Len(H) \in Nat /\ H \in Seq(Byte)
  BY <1>1, HandshakeLayout, LenProperties
<1>4. Len(H) >= 4 => D \in Nat
  BY DeclaredIsNat DEF HANDSHAKE_HEADER_LEN
<1>5. Quiet(n) /\ n <= MaxRecords /\ MaxRecords \in Nat /\ MaxHandshakeBytes \in Nat
  BY HelloLimitsAssumption DEF AtRecord
<1>6. /\ c >= 1 => H[1] = HANDSHAKE_TYPE_CLIENT_HELLO
      /\ c >= 4 => ~(D > MaxHandshakeBytes)
      /\ ~(Len(H) >= 4 /\ c >= 4 + D)
  BY <1>5, QuietSoFar
<1>7. /\ t >= s + 1 /\ r.type # CONTENT_TYPE_HANDSHAKE =>
             next.verdict = IF n = 0 THEN "NotHandshake" ELSE "InvalidRecord"
      /\ t >= s + 2 /\ r.type = CONTENT_TYPE_HANDSHAKE /\ r.major # RECORD_VERSION_MAJOR =>
             next.verdict = "InvalidRecord"
      /\ t < s + 5 /\ (t >= s + 1 => r.type = CONTENT_TYPE_HANDSHAKE)
             /\ (t >= s + 2 => r.major = RECORD_VERSION_MAJOR) => next.verdict = "Incomplete"
      /\ t >= s + 5 /\ good /\ ~valid => next.verdict = "InvalidRecord"
      /\ t >= s + 5 /\ good /\ valid /\ n = MaxRecords => next.verdict = "TooLarge"
  BY TurnAtHeader, SMTT(30)
<1>8. \A f : Arises(f, n) =>
          \/ /\ f.at = s + 1 /\ f.what = IF n = 0 THEN "NotHandshake" ELSE "InvalidRecord"
             /\ r.type # CONTENT_TYPE_HANDSHAKE
          \/ /\ f.at = s + 2 /\ f.what = "InvalidRecord"
             /\ r.major # RECORD_VERSION_MAJOR
          \/ f.at = s + 5 /\ f.what = "InvalidRecord" /\ ~valid
          \/ f.at = s + 5 /\ f.what = "TooLarge" /\ n + 1 > MaxRecords /\ valid
          \/ /\ f.at = s + 5 + (1 - c) /\ f.what = "NotClientHello"
             /\ c < 1 /\ 1 <= c + l /\ H[1] # HANDSHAKE_TYPE_CLIENT_HELLO
          \/ /\ f.at = s + 5 + (4 - c) /\ f.what = "TooLarge"
             /\ c < 4 /\ 4 <= c + l /\ D > MaxHandshakeBytes
          \/ /\ f.at = s + 5 + l /\ f.what = "Complete"
             /\ l = r.len /\ Len(H) >= 4 /\ c + l >= 4 + D
  BY DEF Arises
<1>9. ASSUME NEW at \in Nat, NEW what, at <= t, Arises(Event(at, what), n), what # "Complete",
             next.verdict = what,
             \A f : Arises(f, n) => at <= f.at /\ (f.at = at => f.what = what)
      PROVE  Finished(next, t)
  <2>1. Decides(Event(at, what), t)
    BY <1>5, <1>9, FirstDecides
  <2>2. Event(at, what).what = what
    BY DEF Event
  <2> QED
    BY <1>9, <2>1, <2>2 DEF Finished
<1>10. ASSUME next.verdict = "Incomplete", t <= Reach(n + 1), \A f : Arises(f, n) => f.at > t
       PROVE  Finished(next, t)
  <2>1. \A f \in Events : f.at > t
    BY <1>2, <1>5, <1>10, NothingYet
  <2> QED
    BY <1>10, <2>1 DEF Finished
<1>11. CASE t >= s + 1 /\ r.type # CONTENT_TYPE_HANDSHAKE
  <2> DEFINE what == IF n = 0 THEN "NotHandshake" ELSE "InvalidRecord"
  <2>1. Arises(Event(s + 1, what), n)
    BY <1>11 DEF Arises, Event
  <2>2. what # "Complete" /\ next.verdict = what /\ s + 1 <= t /\ s + 1 \in Nat
    BY <1>2, <1>7, <1>11
  <2>3. ASSUME NEW f, Arises(f, n) PROVE s + 1 <= f.at /\ (f.at = s + 1 => f.what = what)
    <3> HIDE DEF s, c, l, r, H, D, valid
    <3> QED
      BY <1>1, <1>2, <1>3, <1>8, <2>3, SMTT(30)
  <2> QED
    BY <1>9, <2>1, <2>2, <2>3
<1>12. CASE t >= s + 2 /\ r.type = CONTENT_TYPE_HANDSHAKE /\ r.major # RECORD_VERSION_MAJOR
  <2>1. Arises(Event(s + 2, "InvalidRecord"), n)
    BY <1>12 DEF Arises, Event
  <2>2. next.verdict = "InvalidRecord" /\ s + 2 <= t /\ s + 2 \in Nat
    BY <1>2, <1>7, <1>12
  <2>3. ASSUME NEW f, Arises(f, n) PROVE s + 2 <= f.at /\ (f.at = s + 2 => f.what = "InvalidRecord")
    <3> HIDE DEF s, c, l, r, H, D, valid
    <3> QED
      BY <1>1, <1>2, <1>3, <1>8, <1>12, <2>3
  <2> QED
    BY <1>9, <2>1, <2>2, <2>3
<1>13. CASE t < s + 5 /\ (t >= s + 1 => r.type = CONTENT_TYPE_HANDSHAKE)
            /\ (t >= s + 2 => r.major = RECORD_VERSION_MAJOR)
  <2>1. next.verdict = "Incomplete"
    BY <1>7, <1>13
  <2>2. t <= Reach(n + 1)
    <3> HIDE DEF s, l
    <3> QED
      BY <1>1, <1>2, <1>13
  <2>3. ASSUME NEW f, Arises(f, n) PROVE f.at > t
    <3> HIDE DEF s, c, l, r, H, D, valid
    <3> QED
      BY <1>1, <1>2, <1>3, <1>8, <1>13, <2>3, SMTT(30)
  <2> QED
    BY <1>10, <2>1, <2>2, <2>3
<1>14. CASE t >= s + 5 /\ good /\ ~valid
  <2>1. Arises(Event(s + 5, "InvalidRecord"), n)
    BY <1>14 DEF Arises, Event
  <2>2. next.verdict = "InvalidRecord" /\ s + 5 <= t /\ s + 5 \in Nat
    BY <1>2, <1>7, <1>14
  <2>3. ASSUME NEW f, Arises(f, n) PROVE s + 5 <= f.at /\ (f.at = s + 5 => f.what = "InvalidRecord")
    <3> HIDE DEF s, c, l, r, H, D, valid
    <3> QED
      BY <1>1, <1>2, <1>3, <1>6, <1>8, <1>14, <2>3
  <2> QED
    BY <1>9, <2>1, <2>2, <2>3
<1>15. CASE t >= s + 5 /\ good /\ valid /\ n = MaxRecords
  <2>1. Arises(Event(s + 5, "TooLarge"), n)
    <3>1. n + 1 > MaxRecords
      BY <1>1, <1>15
    <3> QED
      BY <1>15, <3>1 DEF Arises, Event
  <2>2. next.verdict = "TooLarge" /\ s + 5 <= t /\ s + 5 \in Nat
    BY <1>2, <1>7, <1>15
  <2>3. ASSUME NEW f, Arises(f, n) PROVE s + 5 <= f.at /\ (f.at = s + 5 => f.what = "TooLarge")
    <3>1. r.len # 0
      BY <1>15, SMT
    <3> HIDE DEF s, c, l, r, H, D, valid
    <3> QED
      BY <1>1, <1>2, <1>3, <1>8, <1>15, <2>3, <3>1, SMTT(30)
  <2> QED
    BY <1>9, <2>1, <2>2, <2>3
<1>16. CASE t >= s + 5 /\ good /\ valid /\ n # MaxRecords
  <2> DEFINE other == c + w >= 1 /\ H[1] # HANDSHAKE_TYPE_CLIENT_HELLO
             large == c + w >= 4 /\ D > MaxHandshakeBytes
             whole == c + l >= 4 /\ c + l >= 4 + D
  <2>1. /\ w \in Nat /\ w <= l
        /\ IF other THEN next.verdict = "NotClientHello"
           ELSE IF large THEN next.verdict = "TooLarge"
           ELSE IF w < r.len THEN next.verdict = "Incomplete"
           ELSE next = [offset |-> Reach(n + 1),
                        known |-> SubSeq(H, 1, Least(4, Carried(n + 1))),
                        payloads |-> SubSeq(Payloads, 1, n + 1),
                        verdict |-> IF Carried(n + 1) >= 4 /\ Carried(n + 1) >= 4 + D
                                    THEN "ok" ELSE "scan"]
    <3>1. Reach(n) + 5 <= t
      BY <1>2, <1>16
    <3>2. AfterPayload(next, n, r, c, w)
      BY <1>16, <3>1, TurnAtPayload
    <3> HIDE DEF w, r, s, c
    <3> QED
      BY <3>2 DEF AfterPayload, l
  <2>2. w <= t - s - 5 /\ (w < r.len => w = t - s - 5) /\ r.len # 0
    <3>1. r.len # 0
      BY <1>16, SMT
    <3> DEFINE q == r.len
    <3> HIDE DEF s, q
    <3>2. LET v == Least(q, t - s - 5) IN v <= t - s - 5 /\ (v < q => v = t - s - 5)
      BY <1>1, <1>2, <1>16 DEF Least, q
    <3> QED
      BY <3>1, <3>2 DEF q
  <2>3. n + 1 <= MaxRecords
    BY <1>1, <1>5, <1>16
  <2> HIDE DEF s, c, l, r, H, D, w, valid, good
  <2>4. ASSUME NEW f, Arises(f, n)
        PROVE  \/ /\ f.at = s + 5 + (1 - c) /\ f.what = "NotClientHello"
                   /\ c < 1 /\ 1 <= c + l /\ H[1] # HANDSHAKE_TYPE_CLIENT_HELLO
                \/ /\ f.at = s + 5 + (4 - c) /\ f.what = "TooLarge"
                   /\ c < 4 /\ 4 <= c + l /\ D > MaxHandshakeBytes
                \/ /\ f.at = s + 5 + l /\ f.what = "Complete"
                   /\ l = r.len /\ Len(H) >= 4 /\ c + l >= 4 + D
    <3>1. ~(n + 1 > MaxRecords)
      BY <1>1, <1>5, <2>3
    <3> QED
      BY <1>8, <1>16, <2>4, <3>1 DEF good
  <2>5. CASE other
    <3>1. c = 0 /\ 1 <= l /\ 1 <= w /\ H[1] # HANDSHAKE_TYPE_CLIENT_HELLO
      BY <1>1, <1>3, <1>6, <2>1, <2>5
    <3>2. Arises(Event(s + 6, "NotClientHello"), n)
      <4>1. s + 6 = s + 5 + (1 - c) /\ c < 1 /\ 1 <= c + l
        BY <1>1, <1>2, <3>1
      <4> QED
        BY <3>1, <4>1 DEF Arises, Event, s, c, l, r, H
    <3>3. next.verdict = "NotClientHello" /\ s + 6 <= t /\ s + 6 \in Nat
      BY <1>2, <2>1, <2>2, <2>5, <3>1
    <3>4. ASSUME NEW f, Arises(f, n)
          PROVE  s + 6 <= f.at /\ (f.at = s + 6 => f.what = "NotClientHello")
      BY <1>1, <1>2, <1>3, <1>4, <2>4, <3>1, <3>4
    <3> QED
      BY <1>9, <3>2, <3>3, <3>4
  <2>6. CASE ~other /\ large
    <3>1. /\ c < 4 /\ 4 <= c + l /\ 4 <= c + w /\ D > MaxHandshakeBytes /\ D \in Nat
          /\ H[1] = HANDSHAKE_TYPE_CLIENT_HELLO
      BY <1>1, <1>3, <1>4, <1>6, <2>1, <2>6
    <3> DEFINE at == s + 5 + (4 - c)
    <3>2. Arises(Event(at, "TooLarge"), n)
      BY <3>1 DEF Arises, Event, s, c, l, r, D
    <3>3. next.verdict = "TooLarge" /\ at <= t /\ at \in Nat
      BY <1>2, <1>3, <2>1, <2>2, <2>6, <3>1
    <3>4. ASSUME NEW f, Arises(f, n) PROVE at <= f.at /\ (f.at = at => f.what = "TooLarge")
      BY <1>1, <1>2, <1>3, <1>5, <2>4, <3>1, <3>4
    <3> QED
      BY <1>9, <3>2, <3>3, <3>4
  <2>7. CASE ~other /\ ~large /\ w < r.len
    <3>1. next.verdict = "Incomplete" /\ w = t - s - 5
      BY <2>1, <2>2, <2>7
    <3>2. t <= Reach(n + 1)
      BY <1>1, <1>2, <2>1, <3>1
    <3>3. ASSUME NEW f, Arises(f, n) PROVE f.at > t
      BY <1>1, <1>2, <1>3, <2>1, <2>4, <2>7, <3>1, <3>3
    <3> QED
      BY <1>10, <3>1, <3>2, <3>3
  <2>8. ASSUME ~other, ~large, ~(w < r.len)
        PROVE  /\ w = l /\ l = r.len /\ Reach(n + 1) <= t
               /\ next = [offset |-> Reach(n + 1),
                          known |-> SubSeq(H, 1, Least(4, Carried(n + 1))),
                          payloads |-> SubSeq(Payloads, 1, n + 1),
                          verdict |-> IF whole THEN "ok" ELSE "scan"]
    <3>1. w = l /\ l = r.len
      BY <1>1, <1>16, <2>1, <2>8
    <3>2. Reach(n + 1) <= t
      BY <1>1, <1>2, <2>2, <3>1
    <3> QED
      BY <1>3, <2>1, <2>8, <3>1, <3>2
  <2>9. CASE ~other /\ ~large /\ ~(w < r.len) /\ whole
    <3>1. w = l /\ l = r.len /\ Reach(n + 1) <= t
      BY <2>8, <2>9
    <3>2. Len(H) >= 4 /\ D \in Nat
      BY <1>1, <1>3, <1>4, <2>9
    <3> DEFINE at == s + 5 + l
    <3>3. Arises(Event(at, "Complete"), n)
      BY <2>9, <3>1, <3>2 DEF Arises, Event, s, c, l, r, H, D
    <3>4. at <= t /\ at \in Nat
      BY <1>1, <1>2, <3>1
    <3>5. ASSUME NEW f, Arises(f, n) PROVE at <= f.at /\ (f.at = at => f.what = "Complete")
      <4>1. /\ ~(1 <= c + l /\ H[1] # HANDSHAKE_TYPE_CLIENT_HELLO)
            /\ ~(4 <= c + l /\ D > MaxHandshakeBytes)
        BY <1>1, <1>3, <2>9, <3>1
      <4> QED
        BY <2>4, <3>4, <3>5, <4>1
    <3>6. Decides(Event(at, "Complete"), t) /\ Event(at, "Complete").what = "Complete"
      <4>1. Decides(Event(at, "Complete"), t)
        BY <1>5, <3>3, <3>4, <3>5, FirstDecides
      <4> QED
        BY <4>1 DEF Event
    <3> DEFINE x == Carried(n + 1)
               k == SubSeq(H, 1, Least(4, x))
    <3>7. x \in 0 .. Len(H) /\ x >= 4 /\ 4 + D \in Nat /\ 4 + D <= x
      BY <1>1, <1>3, <2>9, <3>2
    <3>8. next.verdict = "ok" /\ next.known = k /\ next.payloads = SubSeq(Payloads, 1, n + 1)
      BY <2>8, <2>9
    <3>9. FlattenSeq(next.payloads) = SubSeq(H, 1, x)
      <4>1. Joined(Payloads, n + 1) = SubSeq(H, 1, x)
        BY <1>1, HandshakeLayout DEF H
      <4> QED
        BY <3>8, <4>1 DEF Joined
    <3> HIDE DEF x
    <3>10. HandshakeLen(next.known) = D
      <4>1. HandshakeLen(k) = HandshakeLen(H)
        <5>1. k = SubSeq(H, 1, Least(4, x))
          OBVIOUS
        <5> HIDE DEF k
        <5> QED
          BY <1>3, <3>7, <5>1, HeaderObserved
      <4>2. D = HandshakeLen(H)
        BY DEF D, Declared, H
      <4> QED
        BY <3>8, <4>1, <4>2
    <3>11. Reassemble(next) = SubSeq(SubSeq(H, 1, x), 5, 4 + D)
      <4>1. HANDSHAKE_HEADER_LEN = 4 /\ 4 + 1 = 5
        BY DEF HANDSHAKE_HEADER_LEN
      <4> QED
        BY <3>9, <3>10, <4>1 DEF Reassemble
    <3>12. SubSeq(SubSeq(H, 1, x), 5, 4 + D) = SubSeq(H, 5, 4 + D)
      <4>1. 5 \in Nat /\ 5 >= 1
        OBVIOUS
      <4> QED
        BY <1>3, <3>7, <4>1, PieceOfPrefix
    <3>13. Reassemble(next) = SubSeq(H, HANDSHAKE_HEADER_LEN + 1, HANDSHAKE_HEADER_LEN + D)
      <4>1. HANDSHAKE_HEADER_LEN = 4 /\ HANDSHAKE_HEADER_LEN + 1 = 5
        BY DEF HANDSHAKE_HEADER_LEN
      <4> QED
        BY <3>11, <3>12, <4>1
    <3> QED
      BY <3>6, <3>8, <3>13 DEF Finished, H, D
  <2>10. CASE ~other /\ ~large /\ ~(w < r.len) /\ ~whole
    <3>1. w = l /\ l = r.len /\ Reach(n + 1) <= t
      BY <2>8, <2>10
    <3>2. ASSUME NEW f, Arises(f, n) PROVE f.at > Reach(n + 1)
      <4>1. /\ ~(1 <= c + l /\ H[1] # HANDSHAKE_TYPE_CLIENT_HELLO)
            /\ ~(4 <= c + l /\ D > MaxHandshakeBytes)
        BY <1>1, <1>3, <2>10, <3>1
      <4>2. ~(Len(H) >= 4 /\ c + l >= 4 + D)
        BY <1>1, <1>3, <1>4, <2>10
      <4> QED
        BY <2>4, <3>2, <4>1, <4>2
    <3>3. Quiet(n + 1)
      <4>1. Reach(n + 1) \in Nat /\ Reach(n + 1) <= Reach(n + 1)
        BY <1>1, <1>2
      <4>2. \A f \in Events : f.at > Reach(n + 1)
        BY <1>5, <3>2, <4>1, NothingYet
      <4> QED
        BY <4>2 DEF Quiet
    <3>4. next = [offset |-> Reach(n + 1), known |-> SubSeq(H, 1, Least(4, Carried(n + 1))),
                  payloads |-> SubSeq(Payloads, 1, n + 1), verdict |-> "scan"]
      BY <2>8, <2>10
    <3>5. AtRecord(next, n + 1, t)
      BY <1>1, <2>3, <3>1, <3>3, <3>4 DEF AtRecord, H
    <3> QED
      BY <3>5
  <2> QED
    BY <2>5, <2>6, <2>7, <2>9, <2>10
<1>17. \/ t >= s + 1 /\ r.type # CONTENT_TYPE_HANDSHAKE
       \/ t >= s + 2 /\ r.type = CONTENT_TYPE_HANDSHAKE /\ r.major # RECORD_VERSION_MAJOR
       \/ t < s + 5 /\ (t >= s + 1 => r.type = CONTENT_TYPE_HANDSHAKE)
            /\ (t >= s + 2 => r.major = RECORD_VERSION_MAJOR)
       \/ t >= s + 5 /\ good
  <2> HIDE DEF s, r
  <2> QED
    BY <1>2
<1> QED
  BY <1>11, <1>12, <1>13, <1>14, <1>15, <1>16, <1>17

\* What events say, and that they are at bytes of the stream.
LEMMA EventKinds ==
    ASSUME Sendable(Records), NEW e \in Events
    PROVE  /\ e.at \in Nat /\ e.at > 0
           /\ e.what \in {"NotHandshake", "InvalidRecord", "TooLarge", "NotClientHello", "Complete"}
<1>1. PICK n \in 0 .. Len(Records) - 1 : Arises(e, n)
  BY EventsArise
<1>2. Reach(n) < e.at /\ e.at \in Nat /\ Reach(n) \in Nat
  BY <1>1, WithinRecord
<1>3. e.what \in {"NotHandshake", "InvalidRecord", "TooLarge", "NotClientHello", "Complete"}
  BY <1>1 DEF Arises
<1> QED
  BY <1>2, <1>3

\* The scan starts at the first record.
LEMMA StartsAtFirst ==
    ASSUME Sendable(Records), NEW t \in Nat
    PROVE  AtRecord(ScanStart, 0, t)
<1>1. Len(Records) \in Nat /\ 0 \in 0 .. Len(Records) /\ 0 <= MaxRecords
  BY RecordsTyped, HelloLimitsAssumption
<1>2. Reach(0) = 0 /\ Carried(0) = 0
  BY WireLayout, HandshakeLayout
<1>3. Quiet(0)
  BY <1>2, EventKinds DEF Quiet
<1>4. SubSeq(Handshake, 1, Least(4, Carried(0))) = <<>>
  <2>1. Handshake \in Seq(Byte) /\ Len(Handshake) \in Nat /\ 0 \in 0 .. Len(Handshake)
    BY HandshakeLayout, LenProperties
  <2>2. Least(4, Carried(0)) = 0
    BY <1>2 DEF Least
  <2>3. SubSeq(Handshake, 1, 0) \in Seq(Byte) /\ Len(SubSeq(Handshake, 1, 0)) = 0
    BY <2>1, PrefixIs
  <2> QED
    BY <2>2, <2>3, EmptySeq
<1>5. SubSeq(Payloads, 1, 0) = <<>>
  <2>1. Payloads \in Seq(Seq(Byte)) /\ 0 \in 0 .. Len(Payloads)
    BY <1>1, HandshakeLayout
  <2>2. SubSeq(Payloads, 1, 0) \in Seq(Seq(Byte)) /\ Len(SubSeq(Payloads, 1, 0)) = 0
    BY <2>1, PrefixIs
  <2> QED
    BY <2>2, EmptySeq
<1>6. ScanStart = [offset |-> Reach(0), known |-> SubSeq(Handshake, 1, Least(4, Carried(0))),
                   payloads |-> SubSeq(Payloads, 1, 0), verdict |-> "scan"]
  BY <1>2, <1>4, <1>5, Zenon DEF ScanStart
<1>7. Reach(0) <= t
  BY <1>2
<1> QED
  BY <1>1, <1>3, <1>6, <1>7, Zenon DEF AtRecord

\* The scan of any number of bytes ends with what decides them.
LEMMA ScanDecides ==
    ASSUME Sendable(Records), NEW t \in 0 .. Len(Wire(Records))
    PROVE  Finished(ScanRecords(SubSeq(Wire(Records), 1, t)), t)
<1> DEFINE N == MaxRecords + 1
           buf == SubSeq(Wire(Records), 1, t)
           f == Scans(buf)
           Got(n) == AtRecord(f[n], n, t) \/ Finished(f[n], t)
           S == {n \in 0 .. N : Got(n)}
<1>0. N \in Nat /\ t \in Nat
  <2>1. Len(Wire(Records)) \in Nat
    BY WireLayout, LenProperties
  <2> QED
    BY <2>1, HelloLimitsAssumption
<1>1. f[0] = ScanStart /\ \A n \in 1 .. N : f[n] = ScanTurn(buf, f[n - 1])
  <2>1. \A n \in 0 .. N : f[n] = IF n = 0 THEN ScanStart ELSE ScanTurn(buf, f[n - 1])
    BY ScansUnfold
  <2> HIDE DEF f, N
  <2>2. 0 \in 0 .. N /\ \A n \in 1 .. N : n \in 0 .. N /\ n # 0
    BY <1>0
  <2> QED
    BY <2>1, <2>2
<1>2. 0 \in S
  <2>1. AtRecord(f[0], 0, t) /\ 0 \in 0 .. N
    BY <1>0, <1>1, StartsAtFirst
  <2> HIDE DEF f, N
  <2> QED
    BY <2>1
<1>3. ASSUME NEW m \in 0 .. N, m \in S, m < N PROVE m + 1 \in S
  <2> DEFINE r == f[m]
             s == f[m + 1]
  <2> HIDE DEF f
  <2>1. m + 1 \in 1 .. N /\ m + 1 \in 0 .. N /\ (m + 1) - 1 = m
    <3> HIDE DEF N
    <3> QED
      BY <1>0, <1>3
  <2>2. s = ScanTurn(buf, r) /\ Got(m)
    BY <1>1, <1>3, <2>1
  <2> SUFFICES Got(m + 1)
    BY <2>1
  <2>3. CASE AtRecord(r, m, t)
    <3>1. r.verdict = "scan" /\ m \in 0 .. Len(Records)
      BY <2>3 DEF AtRecord
    <3>2. s = ScanRecord(buf, r)
      BY <2>2, <3>1 DEF ScanTurn
    <3> HIDE DEF r, s
    <3>3. CASE m = Len(Records)
      BY <2>3, <3>2, <3>3, TurnAtEnd DEF s
    <3>4. CASE m # Len(Records)
      <4>0. Len(Records) \in Nat
        BY RecordsTyped
      <4>1. m \in 0 .. Len(Records) - 1
        BY <3>1, <3>4, <4>0
      <4> QED
        BY <2>3, <3>2, <4>1, RecordTurn DEF s
    <3> QED
      BY <3>3, <3>4
  <2>4. CASE Finished(r, t)
    <3>1. r.verdict # "scan"
      <4>1. \A e \in Events : e.what # "scan"
        BY EventKinds
      <4> HIDE DEF r
      <4> QED
        BY <2>4, <4>1 DEF Finished, Decides
    <3>2. s = r
      BY <2>2, <3>1 DEF ScanTurn
    <3> HIDE DEF r, s
    <3> QED
      BY <2>4, <3>2 DEF s
  <2> QED
    BY <2>2, <2>3, <2>4
<1>4. Got(N)
  <2> HIDE DEF Got
  <2>1. \A n \in 0 .. N : n \in S
    <3> HIDE DEF S, N
    <3> QED
      BY <1>0, <1>2, <1>3, UpToInduction
  <2>2. N \in 0 .. N
    <3> HIDE DEF N
    <3> QED
      BY <1>0
  <2>3. N \in S
    <3> HIDE DEF S, N
    <3> QED
      BY <2>1, <2>2
  <2> QED
    BY <2>3
<1>5. ~AtRecord(f[N], N, t)
  <2>1. ~(N <= MaxRecords)
    BY HelloLimitsAssumption
  <2> HIDE DEF N
  <2> QED
    BY <2>1 DEF AtRecord
<1> QED
  BY <1>4, <1>5 DEF ScanRecords

-----------------------------------------------------------------------------
(* A message without a fault.                                              *)

\* A list of whole entries with at most one host_name, a valid one, parses.
LEMMA SoundListParses ==
    ASSUME NEW list, Len(list) \in Nat,
           \A j \in 1 .. Len(list) : list[j].kind # "cut" /\ list[j].name # NoName,
           \A j \in 1 .. Len(list) : list[j].kind = "host_name" => HostnameParse(list[j].name).ok,
           \A i, j \in 1 .. Len(list) :
               list[i].kind = "host_name" /\ list[j].kind = "host_name" => i = j
    PROVE  \E x : FoundInList(list)[Len(list)] = Found(x)
<1> DEFINE N == Len(list)
           f == FoundInList(list)
           S == {n \in 0 .. N :
                    \E x : /\ f[n] = Found(x)
                           /\ x # NoName => \E j \in 1 .. n : list[j].kind = "host_name"}
<1>1. f[0] = Found(NoName) /\ \A n \in 1 .. N : f[n] = ServerNameEntry(f[n - 1], list[n])
  BY ListUnfolds
<1> HIDE DEF f
<1>2. 0 \in S
  BY <1>1
<1>3. ASSUME NEW m \in 0 .. N, m \in S, m < N PROVE m + 1 \in S
  <2> DEFINE e == list[m + 1]
             s == f[m + 1]
  <2>1. m + 1 \in 1 .. N /\ m + 1 \in 0 .. N /\ (m + 1) - 1 = m /\ m + 1 \in 1 .. m + 1
    BY <1>3
  <2>2. PICK x : /\ f[m] = Found(x)
                 /\ x # NoName => \E j \in 1 .. m : list[j].kind = "host_name"
    BY <1>3
  <2>3. s = ServerNameEntry(Found(x), e)
    BY <1>1, <2>1, <2>2
  <2>4. e.kind # "cut" /\ e.name # NoName
    BY <2>1
  <2> SUFFICES \E y : /\ s = Found(y)
                      /\ y # NoName => \E j \in 1 .. m + 1 : list[j].kind = "host_name"
    BY <2>1
  <2>5. CASE e.kind # "host_name"
    <3>1. s = Found(x)
      BY <2>3, <2>4, <2>5, Results DEF ServerNameEntry
    <3>2. \A j \in 1 .. m : j \in 1 .. m + 1
      BY <1>3
    <3> QED
      BY <2>2, <3>1, <3>2
  <2>6. CASE e.kind = "host_name"
    <3>1. x = NoName
      <4> SUFFICES ASSUME x # NoName PROVE FALSE
        OBVIOUS
      <4>1. PICK j \in 1 .. m : list[j].kind = "host_name"
        BY <2>2
      <4>2. j \in 1 .. N /\ j # m + 1
        BY <1>3, <4>1
      <4> QED
        BY <2>1, <2>6, <4>1, <4>2
    <3>2. HostnameParse(e.name).ok
      BY <2>1, <2>6
    <3>3. s = Found(HostnameParse(e.name).labels)
      <4> HIDE DEF e, s
      <4> QED
        BY <2>3, <2>4, <2>6, <3>1, <3>2, Results DEF ServerNameEntry
    <3> QED
      BY <2>1, <2>6, <3>3
  <2> QED
    BY <2>5, <2>6
<1>4. N \in S
  <2>1. \A n \in 0 .. N : n \in S
    <3> HIDE DEF S, N
    <3>1. N \in Nat
      BY DEF N
    <3> QED
      BY <1>2, <1>3, <3>1, UpToInduction
  <2> HIDE DEF S
  <2> QED
    BY <2>1
<1> QED
  BY <1>4 DEF f

\* Whole extensions parse when each server_name among them does.
LEMMA SoundExtensionsParse ==
    ASSUME NEW exts, Len(exts) \in Nat, \A i \in 1 .. Len(exts) : exts[i].kind # "cut",
           \A i \in 1 .. Len(exts) : exts[i].kind = "server_name" =>
               \E x : ParseServerName(exts[i].data) = Found(x)
    PROVE  \E x : FoundInExtensions(exts)[Len(exts)] = Found(x)
<1> DEFINE N == Len(exts)
           f == FoundInExtensions(exts)
           S == {n \in 0 .. N : \E x : f[n] = Found(x)}
<1>1. f[0] = Found(NoName) /\ \A n \in 1 .. N : f[n] = Extension(f[n - 1], exts[n])
  BY ExtensionsUnfold
<1> HIDE DEF f
<1>2. 0 \in S
  BY <1>1
<1>3. ASSUME NEW m \in 0 .. N, m \in S, m < N PROVE m + 1 \in S
  <2> DEFINE e == exts[m + 1]
             s == f[m + 1]
  <2>1. m + 1 \in 1 .. N /\ m + 1 \in 0 .. N /\ (m + 1) - 1 = m
    BY <1>3
  <2>2. PICK x : f[m] = Found(x)
    BY <1>3
  <2>3. s = Extension(Found(x), e)
    BY <1>1, <2>1, <2>2
  <2>4. e.kind # "cut" /\ (e.kind = "server_name" => \E y : ParseServerName(e.data) = Found(y))
    BY <2>1
  <2> SUFFICES \E y : s = Found(y)
    BY <2>1
  <2> HIDE DEF e, s
  <2>5. s = IF e.kind = "server_name" THEN ParseServerName(e.data) ELSE Found(x)
    BY <2>3, <2>4, Results DEF Extension
  <2> QED
    BY <2>4, <2>5
<1>4. N \in S
  <2>1. \A n \in 0 .. N : n \in S
    <3> HIDE DEF S, N
    <3>1. N \in Nat
      BY DEF N
    <3> QED
      BY <1>2, <1>3, <3>1, UpToInduction
  <2> HIDE DEF S
  <2> QED
    BY <2>1
<1> QED
  BY <1>4 DEF f

\* Two members are more than one.
LEMMA AtMostOne ==
    ASSUME NEW S, IsFiniteSet(S), Cardinality(S) <= 1, NEW p \in S, NEW q \in S
    PROVE  p = q
<1> SUFFICES ASSUME p # q PROVE FALSE
  OBVIOUS
<1>1. IsFiniteSet({p}) /\ Cardinality({p}) = 1
  BY FS_Singleton
<1>2. Cardinality({p} \cup {q}) = Cardinality({p}) + 1
  BY <1>1, FS_AddElement
<1>3. {p} \cup {q} \in SUBSET S
  OBVIOUS
<1>4. Cardinality({p} \cup {q}) <= Cardinality(S)
  BY <1>3, FS_Subset
<1>5. Cardinality(S) \in Nat
  BY FS_CardinalityType
<1> QED
  BY <1>1, <1>2, <1>4, <1>5

\* A message without a fault is parsed.
LEMMA SoundParses ==
    ASSUME InputInv, Sound(input.content)
    PROVE  ~IsFailure(ParseClientHelloBody(input.content))
<1> DEFINE content == input.content
           exts == content.extensions
           N == Len(exts)
           I == {i \in 1 .. N : exts[i].kind = "server_name"}
           In(i) == {j \in DOMAIN exts[i].data.list : exts[i].data.list[j].kind = "host_name"}
<1>1. N \in Nat /\ DOMAIN exts = 1 .. N
  BY LenProperties DEF InputInv, ContentTyped
<1>2. \A i \in I : /\ Len(exts[i].data.list) \in Nat
                   /\ DOMAIN exts[i].data.list = 1 .. Len(exts[i].data.list)
  <2> SUFFICES ASSUME NEW i \in I
               PROVE  /\ Len(exts[i].data.list) \in Nat
                      /\ DOMAIN exts[i].data.list = 1 .. Len(exts[i].data.list)
    OBVIOUS
  <2>1. exts[i] \in ToSet(exts) /\ exts[i].kind = "server_name"
    BY <1>1 DEF ToSet
  <2>2. exts[i].data.list \in Seq(ToSet(exts[i].data.list))
    BY <2>1 DEF InputInv, ContentTyped
  <2> QED
    BY <2>2, LenProperties
<1>3. HostNames = UNION {{i} \X In(i) : i \in I}
  BY <1>1, SMTT(30) DEF HostNames
<1>4. CASE ~content.hasExtensions
  BY <1>4, Results DEF Sound, ParseClientHelloBody
<1>5. CASE content.hasExtensions
  <2>1. /\ content.prefixOk /\ content.exact /\ Cardinality(HostNames) <= 1
        /\ \A i, j \in 1 .. N : i # j => exts[i].kind # exts[j].kind
        /\ \A p \in HostNames : HostnameParse(exts[p[1]].data.list[p[2]].name).ok
        /\ \A i \in 1 .. N : exts[i].kind # "cut"
    BY <1>1, <1>5, ZenonT(30) DEF Sound
  <2>2. \A i \in I : /\ exts[i].data.exact /\ exts[i].data.list # <<>>
                     /\ \A j \in DOMAIN exts[i].data.list :
                            exts[i].data.list[j].kind # "cut" /\ exts[i].data.list[j].name # NoName
    BY <1>1, <1>5, ZenonT(30) DEF Sound
  <2>3. ASSUME NEW i \in I PROVE \E x : ParseServerName(exts[i].data) = Found(x)
    <3> DEFINE list == exts[i].data.list
               H == In(i)
    <3>1. I = {i}
      BY <2>1, <2>3
    <3>2. HostNames = {i} \X H
      <4> HIDE DEF In, I
      <4> QED
        BY <1>3, <3>1
    <3>3. Len(list) \in Nat /\ H \in SUBSET (1 .. Len(list))
      BY <1>2
    <3>4. IsFiniteSet(H)
      <4> HIDE DEF H, list
      <4>1. IsFiniteSet(1 .. Len(list))
        BY <3>3, FS_Interval
      <4> QED
        BY <3>3, <4>1, FS_Subset
    <3>5. IsFiniteSet(HostNames)
      <4>1. IsFiniteSet({i})
        BY FS_Singleton
      <4> HIDE DEF H
      <4> QED
        BY <3>2, <3>4, <4>1, FS_Product
    <3>6. ASSUME NEW a \in H, NEW b \in H PROVE a = b
      <4>1. <<i, a>> \in HostNames /\ <<i, b>> \in HostNames
        BY <3>2, ZenonT(30)
      <4>2. <<i, a>> = <<i, b>>
        BY <2>1, <3>5, <4>1, AtMostOne, ZenonT(30)
      <4> QED
        BY <4>2
    <3>7. ASSUME NEW j \in H PROVE HostnameParse(list[j].name).ok
      <4> DEFINE p == <<i, j>>
      <4>1. p \in HostNames /\ p[1] = i /\ p[2] = j
        BY <3>2
      <4> HIDE DEF p, exts
      <4> QED
        BY <2>1, <4>1
    <3>8. \A j \in 1 .. Len(list) : j \in H <=> list[j].kind = "host_name"
      BY <1>2
    <3>9. /\ \A j \in 1 .. Len(list) : list[j].kind # "cut" /\ list[j].name # NoName
          /\ exts[i].data.exact /\ list # <<>>
      BY <1>2, <2>2
    <3> HIDE DEF H
    <3>10. \E x : FoundInList(list)[Len(list)] = Found(x)
      <4>1. \A j \in 1 .. Len(list) : list[j].kind = "host_name" => HostnameParse(list[j].name).ok
        BY <3>7, <3>8
      <4>2. \A a, b \in 1 .. Len(list) :
                list[a].kind = "host_name" /\ list[b].kind = "host_name" => a = b
        BY <3>6, <3>8
      <4> HIDE DEF list
      <4> QED
        BY <3>3, <3>9, <4>1, <4>2, SoundListParses
    <3> QED
      BY <3>9, <3>10, ZenonT(30) DEF ParseServerName
  <2>4. PICK x : FoundInExtensions(exts)[N] = Found(x)
    <3>1. \A i \in 1 .. N : exts[i].kind = "server_name" =>
              \E x : ParseServerName(exts[i].data) = Found(x)
      BY <2>3
    <3> HIDE DEF exts
    <3> QED
      BY <1>1, <2>1, <3>1, SoundExtensionsParse
  <2>5. ParseExtensions(exts) = Found(x)
    BY <2>1, <2>4 DEF ParseExtensions
  <2>6. ParseClientHelloBody(content) = Found(x)
    BY <1>5, <2>1, <2>5 DEF ParseClientHelloBody
  <2> QED
    BY <2>6, Results, ZenonT(30)
<1> QED
  BY <1>4, <1>5

-----------------------------------------------------------------------------
(* The verdict of a read.                                                  *)

\* What parse_client_hello makes of the first t bytes.
Verdict(parsed, t) ==
    \/ parsed = Failure("Incomplete") /\ \A f \in Events : f.at > t
    \/ \E e : /\ Decides(e, t) /\ e.what \notin Faults
              /\ e.what \notin {"Complete", "Incomplete", "reading", "Closed", "Io"}
              /\ parsed = Failure(e.what)
    \/ \E e : /\ Decides(e, t) /\ e.what = "Complete"
              /\ IsFailure(parsed) =>
                     /\ parsed.failure \in Faults
                     /\ \/ ~Sound(input.content)
                        \/ SubSeq(Handshake, HANDSHAKE_HEADER_LEN + 1,
                                  HANDSHAKE_HEADER_LEN + Declared) # input.body

\* Every prefix of the stream gets that verdict.
LEMMA ParseDecides ==
    ASSUME InputInv, NEW t \in 0 .. Len(input.wire)
    PROVE  Verdict(ParseClientHello(t), t)
<1> DEFINE scan == ScanRecords(SubSeq(input.wire, 1, t))
           body == ParseClientHelloBody(input.content)
           parsed == ParseClientHello(t)
           slice == SubSeq(Handshake, HANDSHAKE_HEADER_LEN + 1, HANDSHAKE_HEADER_LEN + Declared)
<1>1. Sendable(Records) /\ input.wire = Wire(Records)
  BY DEF InputInv, Records
<1>2. Finished(scan, t)
  BY <1>1, ScanDecides
<1>3. IsFailure(body) => body.failure \in Faults /\ ~Sound(input.content)
  BY BodyParsed, SoundParses
<1>4. parsed = IF scan.verdict # "ok" THEN Failure(scan.verdict)
               ELSE IF Reassemble(scan) # input.body THEN Failure("Malformed")
               ELSE body
  BY DEF ParseClientHello
<1>5. \A e \in Events :
          e.what \in {"NotHandshake", "InvalidRecord", "TooLarge", "NotClientHello", "Complete"}
  BY <1>1, EventKinds
<1> HIDE DEF scan, body, parsed
<1>6. CASE scan.verdict = "Incomplete" /\ \A f \in Events : f.at > t
  <2>1. parsed = Failure("Incomplete")
    BY <1>4, <1>6
  <2> QED
    BY <1>6, <2>1 DEF Verdict, parsed
<1>7. ASSUME NEW e, Decides(e, t), e.what # "Complete", scan.verdict = e.what
      PROVE  Verdict(parsed, t)
  <2>1. e.what \in {"NotHandshake", "InvalidRecord", "TooLarge", "NotClientHello"}
    BY <1>5, <1>7 DEF Decides
  <2>2. parsed = Failure(e.what)
    BY <1>4, <1>7, <2>1
  <2> QED
    BY <1>7, <2>1, <2>2 DEF Verdict, Faults
<1>8. ASSUME NEW e, Decides(e, t), e.what = "Complete", scan.verdict = "ok",
             Reassemble(scan) = slice
      PROVE  Verdict(parsed, t)
  <2>1. IsFailure(parsed) => /\ parsed.failure \in Faults
                             /\ ~Sound(input.content) \/ slice # input.body
    <3> HIDE DEF slice
    <3>1. CASE Reassemble(scan) # input.body
      BY <1>4, <1>8, <3>1, Results DEF Faults
    <3>2. CASE Reassemble(scan) = input.body
      BY <1>3, <1>4, <1>8, <3>2
    <3> QED
      BY <3>1, <3>2
  <2> QED
    BY <1>8, <2>1 DEF Verdict
<1> QED
  BY <1>2, <1>6, <1>7, <1>8 DEF Finished, parsed

\* The earliest event within t bytes says what decides.
LEMMA EarliestSays ==
    ASSUME Sendable(Records), NEW t, NEW e, Decides(e, t), NEW S, S = {f \in Events : f.at <= t}
    PROVE  S # {} /\ (CHOOSE g \in S : \A f \in S : g.at <= f.at).what = e.what
<1> DEFINE g == CHOOSE g \in S : \A f \in S : g.at <= f.at
<1>1. e \in S /\ \A f \in S : e.at <= f.at
  BY DEF Decides
<1>2. g \in S /\ \A f \in S : g.at <= f.at
  BY <1>1
<1> HIDE DEF g
<1>3. g \in Events /\ e \in Events
  BY <1>2 DEF Decides
<1>4. g.at \in Nat /\ e.at \in Nat
  BY <1>3, EventKinds
<1>5. g.at = e.at
  BY <1>1, <1>2, <1>4
<1>6. g.what = e.what
  BY <1>3, <1>5 DEF Decides
<1> QED
  BY <1>1, <1>6 DEF g

\* The events are the client's.
LEMMA EventsStay ==
    ASSUME input' = input
    PROVE  /\ Events' = Events /\ Handshake' = Handshake /\ Declared' = Declared
           /\ Sound(input.content)' <=> Sound(input.content)
<1>1. Records' = Records
  BY DEF Records
<1>2. Handshake' = Handshake
  BY <1>1 DEF Handshake
<1>3. Declared' = Declared
  BY <1>2 DEF Declared
<1>4. HostNames' = HostNames
  BY DEF HostNames
<1>5. Sound(input.content)' <=> Sound(input.content)
  BY <1>4 DEF Sound
<1>6. Events' = Events
  BY DEF Events, Records, StartOf, Handshake, Places, Declared, Completing, Event
<1> QED
  BY <1>2, <1>3, <1>5, <1>6

\* Only a message with a fault is refused for one.
SoundAccepted ==
    hello \in {"Malformed", "InvalidServerName"} =>
        \/ ~Sound(input.content)
        \/ SubSeq(Handshake, HANDSHAKE_HEADER_LEN + 1,
                  HANDSHAKE_HEADER_LEN + Declared) # input.body

\* What ended the reading: a full buffer that shows nothing, or an event.
Settled ==
    hello \notin {"reading", "Closed", "Io"} =>
        \/ Seen = {} /\ taken = MaxWireBytes
        \/ \E e : Decides(e, taken) /\ (e.what = "Complete" => hello \in BodyVerdicts)

VerdictInv == EarliestEventDecides /\ SoundAccepted /\ Settled

\* Before the first read there is nothing to see.
LEMMA NothingSeen == ASSUME InputInv, Init PROVE VerdictInv
<1>1. Sendable(Records)
  BY DEF InputInv, Records
<1>2. taken = 0 /\ hello = "reading"
  BY DEF Init
<1>3. Seen = {}
  <2> SUFFICES ASSUME NEW e \in Events, e.at <= 0 PROVE FALSE
    BY <1>2 DEF Seen
  <2>1. e.at \in Nat /\ e.at > 0
    BY <1>1, EventKinds
  <2> QED
    BY <2>1
<1> QED
  BY <1>2, <1>3 DEF VerdictInv, EarliestEventDecides, SoundAccepted, Settled

\* A read of k more bytes.
LEMMA ReadDecides ==
    ASSUME IndInv, VerdictInv, NEW k \in 1 .. MaxWireBytes, Read(k) PROVE VerdictInv'
<1> DEFINE t == taken + k
           S == {e \in Events : e.at <= t}
           first == CHOOSE e \in S : \A f \in S : e.at <= f.at
           parsed == ParseClientHello(t)
           slice == SubSeq(Handshake, HANDSHAKE_HEADER_LEN + 1, HANDSHAKE_HEADER_LEN + Declared)
<1>1. InputInv /\ Sendable(Records) /\ input.wire = Wire(Records) /\ taken \in Nat
  BY DEF IndInv, InputInv, BufferInv, Records
<1>2. input' = input /\ taken' = t
  BY DEF Read
<1>3. t \in 0 .. Len(input.wire)
  <2>1. Len(input.wire) \in Nat
    BY <1>1, WireLayout, LenProperties
  <2>2. t <= Len(input.wire)
    BY DEF Read
  <2> QED
    BY <1>1, <2>1, <2>2, Limits
<1>4. Verdict(parsed, t)
  BY <1>1, <1>3, ParseDecides
<1>5. IF IsFailure(parsed)
      THEN hello' = IF parsed.failure # "Incomplete" THEN parsed.failure
                    ELSE IF t = MaxWireBytes THEN "TooLarge" ELSE "reading"
      ELSE hello' \in {"MissingSni", "Named"}
  BY DEF Read
<1>6. Seen' = S
  BY <1>2, EventsStay DEF Seen
<1> HIDE DEF parsed
<1>7. CASE parsed = Failure("Incomplete") /\ \A f \in Events : f.at > t
  <2>1. S = {}
    <3>1. ASSUME NEW f \in Events PROVE ~(f.at <= t)
      <4>1. f.at \in Nat /\ f.at > t
        BY <1>1, <1>7, EventKinds
      <4>2. t \in Nat
        BY <1>1, Limits
      <4> HIDE DEF t
      <4> QED
        BY <4>1, <4>2
    <3> QED
      BY <3>1
  <2>2. hello' = IF t = MaxWireBytes THEN "TooLarge" ELSE "reading"
    BY <1>5, <1>7, Results
  <2>3. Seen' = {}
    BY <1>6, <2>1
  <2>4. EarliestEventDecides'
    BY <1>2, <2>2, <2>3 DEF EarliestEventDecides
  <2>5. SoundAccepted'
    BY <2>2 DEF SoundAccepted
  <2>6. Settled'
    BY <1>2, <2>2, <2>3 DEF Settled
  <2> QED
    BY <2>4, <2>5, <2>6 DEF VerdictInv
<1>8. ASSUME NEW e, Decides(e, t) PROVE Seen' # {} /\ Earliest'.what = e.what
  <2>0. S = {f \in Events : f.at <= t}
    OBVIOUS
  <2> HIDE DEF S, t
  <2>1. S # {} /\ first.what = e.what
    BY <1>1, <1>8, <2>0, EarliestSays
  <2>2. Earliest' = first
    BY <1>6 DEF Earliest
  <2> QED
    BY <1>6, <2>1, <2>2
<1>11. ASSUME NEW e, Decides(e, t), e.what = "Complete" => hello' \in BodyVerdicts
       PROVE  Settled'
  <2>1. Events' = Events
    BY <1>2, EventsStay
  <2> HIDE DEF t
  <2>2. Decides(e, taken)'
    BY <1>2, <1>11, <2>1 DEF Decides
  <2> QED
    BY <1>11, <2>2 DEF Settled, BodyVerdicts
<1> HIDE DEF S, first, t
<1>9. ASSUME NEW e, Decides(e, t), parsed = Failure(e.what), e.what \notin Faults,
             e.what \notin {"Complete", "Incomplete", "reading", "Closed", "Io"}
      PROVE  VerdictInv'
  <2>1. hello' = e.what
    BY <1>5, <1>9, Results
  <2>2. Seen' # {} /\ Earliest'.what = e.what
    BY <1>8, <1>9
  <2>3. EarliestEventDecides'
    BY <1>9, <2>1, <2>2 DEF EarliestEventDecides
  <2>4. SoundAccepted'
    BY <1>9, <2>1 DEF SoundAccepted, Faults
  <2>5. Settled'
    BY <1>9, <1>11
  <2> QED
    BY <2>3, <2>4, <2>5 DEF VerdictInv
<1>10. ASSUME NEW e, Decides(e, t), e.what = "Complete",
              IsFailure(parsed) => /\ parsed.failure \in Faults
                                   /\ ~Sound(input.content) \/ slice # input.body
       PROVE  VerdictInv'
  <2>1. /\ hello' \in BodyVerdicts
        /\ hello' \in {"Malformed", "InvalidServerName"} => IsFailure(parsed)
    BY <1>5, <1>10 DEF BodyVerdicts, Faults
  <2>2. Seen' # {} /\ Earliest'.what = "Complete"
    BY <1>8, <1>10
  <2>3. EarliestEventDecides'
    BY <2>1, <2>2 DEF EarliestEventDecides, BodyVerdicts
  <2>4. SoundAccepted'
    BY <1>2, <1>10, <2>1, EventsStay DEF SoundAccepted
  <2>5. Settled'
    BY <1>10, <1>11, <2>1
  <2> QED
    BY <2>3, <2>4, <2>5 DEF VerdictInv
<1> QED
  BY <1>4, <1>7, <1>9, <1>10 DEF Verdict

\* Every step keeps the verdict right.
LEMMA VerdictStep == ASSUME IndInv, VerdictInv, [Next]_vars PROVE VerdictInv'
<1>1. CASE \E k \in 1 .. MaxWireBytes : Read(k)
  BY <1>1, ReadDecides
<1>2. ASSUME input' = input, taken' = taken,
             hello' = hello \/ (hello = "reading" /\ hello' \in {"Closed", "Io"})
      PROVE  VerdictInv'
  <2>1. Seen' = Seen
    BY <1>2, EventsStay DEF Seen
  <2>2. Earliest' = Earliest
    BY <2>1 DEF Earliest
  <2>3. EarliestEventDecides'
    BY <1>2, <2>1, <2>2 DEF VerdictInv, EarliestEventDecides
  <2>4. SoundAccepted'
    BY <1>2, EventsStay DEF VerdictInv, SoundAccepted
  <2>5. Settled'
    <3>1. Events' = Events
      BY <1>2, EventsStay
    <3>2. \A e : Decides(e, taken) => Decides(e, taken)'
      BY <1>2, <3>1 DEF Decides
    <3> QED
      BY <1>2, <2>1, <3>2 DEF VerdictInv, Settled, BodyVerdicts
  <2> QED
    BY <2>3, <2>4, <2>5 DEF VerdictInv
<1>3. CASE ReadEnds
  BY <1>2, <1>3 DEF ReadEnds
<1>4. CASE ResolveRoute \/ LookupFails \/ ConnectIp \/ ResolveName \/ TryConnect \/ Replay
           \/ ConnectCut \/ UNCHANGED vars
  BY <1>2, <1>4 DEF ResolveRoute, LookupFails, ConnectIp, ResolveName, TryConnect, Replay,
     ConnectCut, ConnectLeaves, helloVars, vars
<1> QED
  BY <1>1, <1>3, <1>4 DEF Next

\* The verdict is right in every reachable state.
THEOREM VerdictIsRight == Spec => []VerdictInv
<1>1. Init => VerdictInv
  BY InitInd, NothingSeen DEF IndInv
<1>2. IndInv /\ VerdictInv /\ [Next]_vars => VerdictInv'
  BY VerdictStep
<1> QED
  BY <1>1, <1>2, IngressInvariant, PTL DEF Spec

(* read_client_hello and scan_records: for every list of records, every way the
   bytes are cut into reads and every limit, the reader stops at the read that
   first shows something decisive and with the verdict that is earliest in the
   stream. *)
THEOREM EarliestDecides == Spec => []EarliestEventDecides
<1>1. VerdictInv => EarliestEventDecides
  BY DEF VerdictInv
<1> QED
  BY <1>1, VerdictIsRight, PTL

\* What the records of a ClientHello within the limits show is that it is whole.
LEMMA OnlyCompletes ==
    ASSUME Sendable(Records), NEW i \in DOMAIN Records, WithinLimits(i)
    PROVE  LET end == StartOf(i) + RECORD_HEADER_LEN + Records[i].len
           IN  /\ Event(end, "Complete") \in Events /\ end \in Nat
               /\ \A e \in Events : e.at <= end => e.what = "Complete"
<1> DEFINE N == Len(Records)
           end == StartOf(i) + RECORD_HEADER_LEN + Records[i].len
<1>1. N \in Nat /\ i \in 1 .. N /\ i \in 0 .. N
  BY RecordsTyped
<1>2. end = Reach(i) /\ end \in Nat
  <2>1. Reach(i) = Reach(i - 1) + RECORD_HEADER_LEN + Len(Records[i].payload)
        /\ StartOf(i) = Reach(i - 1) /\ Reach(i) \in Nat
    BY <1>1, WireLayout
  <2>2. Len(Records[i].payload) = Records[i].len
    BY DEF WithinLimits, Completing
  <2> QED
    BY <2>1, <2>2
<1>3. Event(end, "Complete") \in Events
  <2>1. Completing(i)
    BY DEF WithinLimits
  <2> QED
    BY <2>1, Zenon DEF Events
<1> HIDE DEF end
<1>4. ASSUME NEW e \in Events, e.at <= end PROVE e.what = "Complete"
  <2>1. PICK n \in 0 .. N - 1 : Arises(e, n)
    BY EventsArise
  <2>2. /\ n \in 0 .. N /\ Reach(n) < e.at /\ e.at \in Nat /\ Reach(n) \in Nat
    BY <2>1, WithinRecord
  <2>3. CASE n >= i
    <3>1. n \in i .. N
      BY <1>1, <2>2, <2>3
    <3>2. Reach(i) <= Reach(n)
      BY <1>1, <3>1, FurtherOn
    <3> QED
      BY <1>2, <1>4, <2>2, <3>2
  <2>4. CASE n < i
    <3>1. n + 1 \in 1 .. i /\ n \in Nat /\ i \in Nat
      BY <1>1, <2>4
    <3> DEFINE r == Records[n + 1]
    <3>2. /\ r.type = CONTENT_TYPE_HANDSHAKE /\ r.major = RECORD_VERSION_MAJOR
          /\ r.len \in 1 .. MAX_RECORD_PAYLOAD
      BY <3>1 DEF WithinLimits, ValidRecord
    <3>3. ~(n + 1 > MaxRecords)
      BY <3>1, HelloLimitsAssumption DEF WithinLimits
    <3>4. Handshake[1] = HANDSHAKE_TYPE_CLIENT_HELLO /\ ~(Declared > MaxHandshakeBytes)
      <4>1. Declared \in Nat
        BY DeclaredIsNat DEF WithinLimits, Completing
      <4> QED
        BY <4>1, HelloLimitsAssumption DEF WithinLimits
    <3> QED
      BY <2>1, <3>2, <3>3, <3>4, Zenon DEF Arises
  <2> QED
    BY <1>1, <2>2, <2>3, <2>4
<1> QED
  BY <1>2, <1>3, <1>4 DEF end

\* A message without a fault is accepted once it is read.
LEMMA NotRefused == ASSUME IndInv, VerdictInv PROVE FaultlessAccepted
<1> SUFFICES ASSUME NEW i \in DOMAIN Records, Faultless(i),
                    hello \notin {"reading", "Closed", "Io"}
             PROVE  hello \in {"Named", "MissingSni"}
  BY DEF FaultlessAccepted
<1> DEFINE end == StartOf(i) + RECORD_HEADER_LEN + Records[i].len
<1>1. Sendable(Records) /\ WithinLimits(i) /\ end <= MaxWireBytes
  BY DEF IndInv, InputInv, Records, Faultless
<1>2. /\ Event(end, "Complete") \in Events
      /\ \A e \in Events : e.at <= end => e.what = "Complete"
  BY <1>1, OnlyCompletes
<1>3. hello \notin {"Malformed", "InvalidServerName"}
  BY DEF VerdictInv, SoundAccepted, Faultless
<1> HIDE DEF end
<1>4. Event(end, "Complete").at = end
  BY DEF Event
<1>5. ~(Seen = {} /\ taken = MaxWireBytes)
  BY <1>1, <1>2, <1>4 DEF Seen
<1>6. PICK e : Decides(e, taken) /\ (e.what = "Complete" => hello \in BodyVerdicts)
  BY <1>5 DEF VerdictInv, Settled
<1>7. e \in Events /\ e.at <= end
  BY <1>2, <1>4, <1>6 DEF Decides
<1> QED
  BY <1>2, <1>3, <1>6, <1>7 DEF BodyVerdicts

(* read_client_hello and parse_client_hello: for every message, the name used is
   the only host_name of it, and none is missed; and a message without a fault,
   within max_handshake_bytes and max_records and, up to the end of its last
   record, within max_wire_bytes, is never refused, wherever the records and the
   reads cut it. *)
THEOREM SniIsExact == Spec => []SniExact
<1>1. IndInv /\ VerdictInv /\ NameExact /\ NoneMissed => SniExact
  BY NotRefused DEF SniExact
<1> QED
  BY <1>1, IngressInvariant, VerdictIsRight, OnlyTheHellosName, PTL
=============================================================================
