--------------------------- MODULE RoutingProofs ----------------------------
(***************************************************************************)
(* What the lists of checks and the tables of Routing mean, for all files, *)
(* names and tables. The theorems about App and Ingress rest on it.        *)
(***************************************************************************)
EXTENDS Routing, FiniteSetTheorems, SequenceTheorems, TLAPS

-----------------------------------------------------------------------------
(* Lists of checks.                                                        *)

\* A set of numbers has a least element.
LEMMA MinIsLeast ==
    ASSUME NEW S \in SUBSET Nat, S # {}
    PROVE  Min(S) \in S /\ \A y \in S : Min(S) <= y
<1> DEFINE R == {ss \in Nat \X Nat : ss[1] < ss[2]}
<1>0. OpToRel(<, Nat) = R
  BY Zenon DEF OpToRel
<1>1. PICK x \in S : \A y \in S : ~(<<y, x>> \in R)
  <2>1. IsWellFoundedOn(R, Nat)
    BY <1>0, NatLessThanWellFounded
  <2> HIDE DEF R
  <2> QED
    BY <2>1, WFMin
<1>2. \A y \in S : x <= y
  <2>1. ASSUME NEW y \in Nat, NEW z \in Nat, y < z PROVE <<y, z>> \in R
    BY <2>1, Zenon
  <2> HIDE DEF R
  <2>2. \A y \in S : ~(y < x)
    BY <1>1, <2>1
  <2> QED
    BY <2>2
<1>3. \E z \in S : \A y \in S : z <= y
  BY <1>2
<1> QED
  BY <1>3 DEF Min

\* The first error of a list is Ok if and only if all of them are.
LEMMA FirstErrorOk ==
    ASSUME NEW errors, DOMAIN errors \subseteq Nat
    PROVE  FirstError(errors) = Ok <=> \A i \in DOMAIN errors : errors[i] = Ok
<1> DEFINE failing == {i \in DOMAIN errors : errors[i] # Ok}
<1>1. CASE failing = {}
  BY <1>1 DEF FirstError
<1>2. CASE failing # {}
  <2>1. Min(failing) \in failing
    BY <1>2, MinIsLeast
  <2> QED
    BY <1>2, <2>1 DEF FirstError
<1> QED
  BY <1>1, <1>2

\* Two lists of checks in a row pass if and only if both do.
LEMMA ConcatErrorsOk ==
    ASSUME NEW S, NEW s \in Seq(S), NEW t \in Seq(S)
    PROVE  FirstError(s \o t) = Ok <=>
               (\A i \in 1 .. Len(s) : s[i] = Ok) /\ (\A i \in 1 .. Len(t) : t[i] = Ok)
<1> DEFINE u == s \o t
<1>1. u \in Seq(S) /\ Len(u) = Len(s) + Len(t) /\ Len(s) \in Nat /\ Len(t) \in Nat
  BY ConcatProperties, LenProperties
<1>2. \A i \in 1 .. Len(s) + Len(t) : u[i] = IF i <= Len(s) THEN s[i] ELSE t[i - Len(s)]
  BY ConcatProperties
<1> HIDE DEF u
<1>3. DOMAIN u = 1 .. Len(s) + Len(t)
  BY <1>1, LenProperties
<1>4. \A i \in 1 .. Len(t) : i + Len(s) \in 1 .. Len(s) + Len(t) /\ u[i + Len(s)] = t[i]
  <2> SUFFICES ASSUME NEW i \in 1 .. Len(t)
               PROVE  i + Len(s) \in 1 .. Len(s) + Len(t) /\ u[i + Len(s)] = t[i]
    OBVIOUS
  <2>1. /\ i + Len(s) \in 1 .. Len(s) + Len(t)
        /\ ~(i + Len(s) <= Len(s)) /\ (i + Len(s)) - Len(s) = i
    BY <1>1
  <2> QED
    BY <1>2, <2>1
<1>5. (\A i \in 1 .. Len(s) + Len(t) : u[i] = Ok) <=>
          (\A i \in 1 .. Len(s) : s[i] = Ok) /\ (\A i \in 1 .. Len(t) : t[i] = Ok)
  <2>1. \A i \in 1 .. Len(s) : i \in 1 .. Len(s) + Len(t) /\ u[i] = s[i]
    BY <1>1, <1>2
  <2>2. \A i \in 1 .. Len(s) + Len(t) : i \in 1 .. Len(s) \/ i - Len(s) \in 1 .. Len(t)
    BY <1>1
  <2>3. \A i \in 1 .. Len(s) + Len(t) :
            \/ i \in 1 .. Len(s) /\ u[i] = s[i]
            \/ i - Len(s) \in 1 .. Len(t) /\ u[i] = t[i - Len(s)]
    BY <1>1, <1>2, <2>1, <2>2
  <2> QED
    BY <1>4, <2>1, <2>3
<1>6. FirstError(u) = Ok <=> \A i \in 1 .. Len(s) + Len(t) : u[i] = Ok
  BY <1>1, <1>3, FirstErrorOk
<1> QED
  BY <1>5, <1>6 DEF u

\* A row is accepted if it parses and no row before it has its key.
LEMMA RowErrorOk ==
    ASSUME NEW rows, NEW i
    PROVE  RowError(rows, i) = Ok <=>
               /\ KeyParses(rows[i].hostname)
               /\ BackendError(rows[i].backend) = Ok
               /\ \A j \in 1 .. i - 1 :
                      RouteKeyParse(rows[j].hostname) # RouteKeyParse(rows[i].hostname)
<1> DEFINE New == \A j \in 1 .. i - 1 :
                      RouteKeyParse(rows[j].hostname) # RouteKeyParse(rows[i].hostname)
           errors == <<Check(KeyParses(rows[i].hostname), "InvalidRouteHostname"),
                       Check(BackendError(rows[i].backend) = Ok, "InvalidRouteBackend"),
                       Check(New, "DuplicateRoute")>>
<1>1. RowError(rows, i) = FirstError(errors)
  BY DEF RowError
<1>2. DOMAIN errors = 1 .. 3
  OBVIOUS
<1>3. (\A k \in 1 .. 3 : errors[k] = Ok) <=>
          /\ Check(KeyParses(rows[i].hostname), "InvalidRouteHostname") = Ok
          /\ Check(BackendError(rows[i].backend) = Ok, "InvalidRouteBackend") = Ok
          /\ Check(New, "DuplicateRoute") = Ok
  OBVIOUS
<1>4. (\A k \in 1 .. 3 : errors[k] = Ok) <=>
          KeyParses(rows[i].hostname) /\ BackendError(rows[i].backend) = Ok /\ New
  BY <1>3 DEF Check, Ok
<1> HIDE DEF errors
<1>5. FirstError(errors) = Ok <=> \A k \in 1 .. 3 : errors[k] = Ok
  BY <1>2, FirstErrorOk
<1> QED
  BY <1>1, <1>4, <1>5

\* A table is accepted if every row parses and no two rows have the same key.
LEMMA TableErrorOk ==
    ASSUME NEW rows, NEW n \in Nat, DOMAIN rows = 1 .. n
    PROVE  TableError(rows) = Ok <=>
               /\ \A i \in DOMAIN rows : KeyParses(rows[i].hostname)
                                         /\ BackendError(rows[i].backend) = Ok
               /\ IsInjective([i \in DOMAIN rows |-> RouteKeyParse(rows[i].hostname)])
<1> DEFINE errors == [i \in DOMAIN rows |-> RowError(rows, i)]
           Key(i) == RouteKeyParse(rows[i].hostname)
<1>1. TableError(rows) = Ok <=> \A i \in DOMAIN rows : RowError(rows, i) = Ok
  <2>1. TableError(rows) = FirstError(errors)
    BY DEF TableError
  <2>2. DOMAIN errors = DOMAIN rows /\ \A k \in DOMAIN rows : errors[k] = RowError(rows, k)
    OBVIOUS
  <2> HIDE DEF errors
  <2> QED
    BY <2>1, <2>2, FirstErrorOk
<1>2. TableError(rows) = Ok <=>
          \A i \in DOMAIN rows : /\ KeyParses(rows[i].hostname)
                                 /\ BackendError(rows[i].backend) = Ok
                                 /\ \A j \in 1 .. i - 1 : Key(j) # Key(i)
  BY <1>1, RowErrorOk
<1>3. IsInjective([i \in DOMAIN rows |-> Key(i)]) <=>
          \A i, j \in 1 .. n : Key(i) = Key(j) => i = j
  BY DEF IsInjective
<1>4. (\A i, j \in 1 .. n : Key(i) = Key(j) => i = j) <=>
          \A i \in 1 .. n : \A j \in 1 .. i - 1 : Key(j) # Key(i)
  <2> HIDE DEF Key
  <2> QED
    OBVIOUS
<1> QED
  BY <1>2, <1>3, <1>4
=============================================================================
