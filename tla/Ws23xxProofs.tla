----------------------------- MODULE Ws23xxProofs -----------------------------
(***************************************************************************)
(* That the answers of the WS23XX library are right whatever the order of  *)
(* the requests, however they overlap, however often an exchange fails and *)
(* however the console goes on meanwhile: every nybble is of its own       *)
(* address, no field is torn, a record has its own date, a write that is   *)
(* done is in the console, no buffer is overrun and no lost sensor is      *)
(* reported.                                                               *)
(*                                                                         *)
(* The plan of a batch is a fold over its addresses in order, and what     *)
(* holds of it is shown address by address: Good says that every request   *)
(* reached lies in an area and that the areas lie apart, FitsTo that they  *)
(* take no more bytes than the requests.  IInv adds, for the call under    *)
(* way, what the exchanges done so far have left in the buffer (ReadInv,   *)
(* HistInv) or in the console (SetInv).                                    *)
(***************************************************************************)
EXTENDS Ws23xx, FiniteSetTheorems, WellFoundedInduction, TLAPS

---------------------------------------------------------------------------
(* Folds over sets of numbers *)

(* A set of naturals has a least element.                                  *)
LEMMA Least ==
  ASSUME NEW T, T \subseteq Nat, T # {}
  PROVE  \E x \in T : \A y \in T : x <= y
PROOF
<1> DEFINE R == OpToRel(<, Nat)
<1>1. IsWellFoundedOn(R, Nat)
  BY NatLessThanWellFounded, Zenon
<1>2. \A x, y \in Nat : y < x => <<y, x>> \in R
  BY DEF OpToRel
<1> HIDE DEF R
<1>3. \E x \in T : \A y \in T : ~(<<y, x>> \in R)
  BY <1>1, WFMin, Zenon
<1>4. \A x, y \in Nat : ~(y < x) => x <= y
  OBVIOUS
<1> QED
  BY <1>2, <1>3, <1>4

(* What holds of 0 and of the successor of what it holds of, holds up to n.*)
LEMMA UpTo ==
  ASSUME NEW n \in Nat, NEW T, 0 \in T, \A i \in 0..n - 1 : i \in T => i + 1 \in T
  PROVE  \A i \in 0..n : i \in T
PROOF
<1> SUFFICES ASSUME NEW i \in 0..n, i \notin T
             PROVE  FALSE
  OBVIOUS
<1>1. PICK x \in (0..n) \ T : \A y \in (0..n) \ T : x <= y
  <2>1. (0..n) \ T \subseteq Nat /\ (0..n) \ T # {}
    OBVIOUS
  <2> QED
    BY <2>1, Least, Zenon
<1>2. x # 0 /\ x - 1 \in 0..n - 1
  BY <1>1
<1>3. x - 1 \in T
  BY <1>1, <1>2
<1> QED
  BY <1>1, <1>2, <1>3

LEMMA MaxIs ==
  ASSUME NEW s \in SUBSET Int, NEW m \in s, \A y \in s : y <= m
  PROVE  Max(s) = m
PROOF
<1>1. m \in s /\ \A y \in s : m >= y
  OBVIOUS
<1>2. Max(s) \in s /\ \A y \in s : Max(s) >= y
  BY <1>1, Zenon DEF Max
<1>3. PICK x \in s : x = Max(s)
  BY <1>2
<1>4. x \in Int /\ m \in Int /\ x <= m /\ x >= m
  BY <1>2, <1>3
<1> QED
  BY <1>3, <1>4

(* What a fold goes by. *)
FoldsBy(g, F, x0, n) ==
    \A s \in SUBSET (1..n) : g[s] = IF s = {} THEN x0 ELSE F[Max(s)][g[s \ {Max(s)}]]

(* A fold from the greatest element down has a value on every set of numbers.*)
LEMMA FoldExists ==
  ASSUME NEW X, NEW x0 \in X, NEW n \in Nat, NEW F \in [1..n -> [X -> X]]
  PROVE  \E g \in [SUBSET (1..n) -> X] : FoldsBy(g, F, x0, n)
PROOF
<1> DEFINE Fits(g, m) ==
             \A s \in SUBSET (1..m) :
               g[s] = IF s = {} THEN x0 ELSE F[Max(s)][g[s \ {Max(s)}]]
<1> DEFINE T == {m \in 0..n : \E g \in [SUBSET (1..m) -> X] : Fits(g, m)}
<1>1. 0 \in T
  <2>1. [s \in SUBSET (1..0) |-> x0] \in [SUBSET (1..0) -> X]
    OBVIOUS
  <2>2. \A s \in SUBSET (1..0) : s = {}
    OBVIOUS
  <2>3. Fits([s \in SUBSET (1..0) |-> x0], 0)
    BY <2>2
  <2>4. \E g \in [SUBSET (1..0) -> X] : Fits(g, 0)
    BY <2>1, <2>3, Zenon
  <2>5. 0 \in 0..n
    OBVIOUS
  <2> QED
    BY <2>4, <2>5, Zenon
<1>2. ASSUME NEW m \in 0..n - 1, m \in T
      PROVE  m + 1 \in T
  <2>1. PICK g \in [SUBSET (1..m) -> X] : Fits(g, m)
    BY <1>2
  <2> DEFINE h == [s \in SUBSET (1..m + 1) |->
                     IF m + 1 \in s THEN F[m + 1][g[s \ {m + 1}]] ELSE g[s]]
  <2>2. \A s \in SUBSET (1..m + 1) : s \ {m + 1} \in SUBSET (1..m)
    OBVIOUS
  <2>3. \A s \in SUBSET (1..m + 1) : m + 1 \notin s => s \in SUBSET (1..m)
    OBVIOUS
  <2>4. m + 1 \in 1..n /\ 1..m \subseteq 1..m + 1
    OBVIOUS
  <2>5. h \in [SUBSET (1..m + 1) -> X]
    BY <2>2, <2>3, <2>4
  <2>6. ASSUME NEW s \in SUBSET (1..m + 1)
        PROVE  h[s] = IF s = {} THEN x0 ELSE F[Max(s)][h[s \ {Max(s)}]]
    <3>1. CASE m + 1 \in s
      <4>1. Max(s) = m + 1
        BY <3>1, MaxIs
      <4>2. h[s \ {m + 1}] = g[s \ {m + 1}]
        BY <2>2, <2>4
      <4> QED
        BY <3>1, <4>1, <4>2
    <3>2. CASE m + 1 \notin s
      <4>1. s \in SUBSET (1..m) /\ h[s] = g[s]
        BY <2>3, <3>2
      <4>2. s \ {Max(s)} \in SUBSET (1..m) /\ m + 1 \notin s \ {Max(s)}
        BY <3>2, <4>1
      <4>3. h[s \ {Max(s)}] = g[s \ {Max(s)}]
        BY <2>4, <4>2
      <4> QED
        BY <2>1, <4>1, <4>3
    <3> QED
      BY <3>1, <3>2
  <2> HIDE DEF h
  <2>7. Fits(h, m + 1)
    BY <2>6, Zenon
  <2>8. \E f \in [SUBSET (1..m + 1) -> X] : Fits(f, m + 1)
    BY <2>5, <2>7, Zenon
  <2>9. m + 1 \in 0..n
    OBVIOUS
  <2> QED
    BY <2>8, <2>9, Zenon
<1> HIDE DEF T
<1>3. n \in T
  <2>1. \A i \in 0..n : i \in T
    BY <1>1, <1>2, UpTo, Zenon
  <2> QED
    BY <2>1
<1>4. PICK g \in [SUBSET (1..n) -> X] : Fits(g, n)
  BY <1>3 DEF T
<1> QED
  BY <1>4 DEF FoldsBy

LEMMA MaxAmong ==
  ASSUME NEW n \in Nat, NEW s \in SUBSET (1..n), s # {}
  PROVE  Max(s) \in s
PROOF
<1> DEFINE T == {d \in Nat : n - d \in s}
<1>1. T \subseteq Nat /\ T # {}
  <2>1. PICK y \in s : TRUE
    OBVIOUS
  <2>2. n - y \in Nat /\ n - (n - y) = y
    BY <2>1
  <2>3. n - y \in T
    BY <2>1, <2>2
  <2> QED
    BY <2>3
<1>2. PICK d \in T : \A e \in T : d <= e
  <2> HIDE DEF T
  <2> QED
    BY <1>1, Least, Zenon
<1>3. ASSUME NEW y \in s
      PROVE  y <= n - d
  <2>1. n - y \in Nat /\ n - (n - y) = y
    OBVIOUS
  <2>2. d <= n - y
    BY <1>2, <2>1
  <2> QED
    BY <1>2, <2>2
<1>4. n - d \in s /\ s \in SUBSET Int
  BY <1>2
<1>5. Max(s) = n - d
  BY <1>3, <1>4, MaxIs
<1> QED
  BY <1>4, <1>5

---------------------------------------------------------------------------
(* Sorted *)

LEMMA ReqType ==
  ASSUME NEW req \in Seq(Requests)
  PROVE  /\ DOMAIN req = 1..Len(req) /\ Len(req) \in Nat
         /\ \A j \in DOMAIN req : /\ req[j].addr \in Nat /\ req[j].nnyb \in Nat \ {0}
                                  /\ End(req[j]) \in Nat /\ req[j].addr < End(req[j])
PROOF
<1>1. DOMAIN req = 1..Len(req) /\ Len(req) \in Nat
  OBVIOUS
<1>2. ASSUME NEW j \in DOMAIN req
      PROVE  /\ req[j].addr \in Nat /\ req[j].nnyb \in Nat \ {0}
             /\ End(req[j]) \in Nat /\ req[j].addr < End(req[j])
  <2>1. req[j] \in Requests
    OBVIOUS
  <2>2. PICK x \in Nat, y \in Nat \ {0} : x = req[j].addr /\ y = req[j].nnyb
    BY <2>1 DEF Requests
  <2> QED
    BY <2>2 DEF End
<1> QED
  BY <1>1, <1>2

(* A greater address has no fewer requests below it.                       *)
LEMMA BelowRises ==
  ASSUME NEW req \in Seq(Requests), NEW a \in Nat, NEW b \in Nat, a <= b
  PROVE  /\ Below(req, a) \in 0..Len(req) /\ Below(req, b) \in 0..Len(req)
         /\ Below(req, a) <= Below(req, b)
PROOF
<1> DEFINE A == {j \in DOMAIN req : req[j].addr < a}
           B == {j \in DOMAIN req : req[j].addr < b}
<1>1. DOMAIN req = 1..Len(req) /\ Len(req) \in Nat /\ \A j \in DOMAIN req : req[j].addr \in Nat
  BY ReqType
<1>2. A \subseteq B /\ B \subseteq 1..Len(req)
  BY <1>1
<1>3. IsFiniteSet(1..Len(req)) /\ Cardinality(1..Len(req)) = Len(req)
  BY <1>1, FS_Interval, SMTT(30)
<1> HIDE DEF A, B
<1>4. IsFiniteSet(B) /\ Cardinality(B) <= Len(req) /\ Cardinality(B) \in Nat
  BY <1>2, <1>3, FS_Subset, FS_CardinalityType, ZenonT(60)
<1>5. IsFiniteSet(A) /\ Cardinality(A) <= Cardinality(B) /\ Cardinality(A) \in Nat
  BY <1>2, <1>4, FS_Subset, FS_CardinalityType, ZenonT(60)
<1>6. Below(req, a) = Cardinality(A) /\ Below(req, b) = Cardinality(B)
  BY DEF Below, A, B
<1>7. PICK x \in Nat, y \in Nat, z \in Nat : x = Cardinality(A) /\ y = Cardinality(B) /\ z = Len(req)
  BY <1>1, <1>4, <1>5
<1>8. x <= y /\ y <= z
  BY <1>4, <1>5, <1>7
<1> QED
  BY <1>6, <1>7, <1>8

(* A request at an address counts from the next one on. *)
LEMMA BelowCounts ==
  ASSUME NEW req \in Seq(Requests), NEW a \in Nat
  PROVE  /\ (\E j \in DOMAIN req : req[j].addr = a) => Below(req, a) < Below(req, a + 1)
         /\ (\A j \in DOMAIN req : req[j].addr # a) => Below(req, a) = Below(req, a + 1)
PROOF
<1> DEFINE A == {j \in DOMAIN req : req[j].addr < a}
           B == {j \in DOMAIN req : req[j].addr < a + 1}
<1>1. DOMAIN req = 1..Len(req) /\ Len(req) \in Nat /\ \A j \in DOMAIN req : req[j].addr \in Nat
  BY ReqType
<1>2. A \subseteq B /\ B \subseteq 1..Len(req)
  BY <1>1
<1>3. (\E j \in DOMAIN req : req[j].addr = a) => A # B
  <2> SUFFICES ASSUME NEW j \in DOMAIN req, req[j].addr = a
               PROVE  j \in B /\ j \notin A
    OBVIOUS
  <2> QED
    OBVIOUS
<1>4. (\A j \in DOMAIN req : req[j].addr # a) => A = B
  <2> SUFFICES ASSUME \A j \in DOMAIN req : req[j].addr # a, NEW j \in B
               PROVE  j \in A
    BY <1>2
  <2> QED
    BY <1>1
<1>5. IsFiniteSet(B)
  <2>1. IsFiniteSet(1..Len(req))
    BY <1>1, FS_Interval
  <2> HIDE DEF A, B
  <2> QED
    BY <1>2, <2>1, FS_Subset
<1>6. Below(req, a) = Cardinality(A) /\ Below(req, a + 1) = Cardinality(B)
  BY DEF Below
<1> HIDE DEF A, B
<1>7. Cardinality(A) \in Nat /\ Cardinality(B) \in Nat /\ Cardinality(A) <= Cardinality(B)
      /\ (Cardinality(A) = Cardinality(B) => A = B)
  BY <1>2, <1>5, FS_Subset, FS_CardinalityType, ZenonT(60)
<1>8. A # B => Cardinality(A) < Cardinality(B)
  BY <1>7
<1> QED
  BY <1>3, <1>4, <1>6, <1>8

(* The addresses of a batch have a bound.                                  *)
LEMMA Bounded ==
  ASSUME NEW req \in Seq(Requests)
  PROVE  \E b \in Nat : \A j \in DOMAIN req : req[j].addr <= b
PROOF
<1>1. DOMAIN req = 1..Len(req) /\ Len(req) \in Nat /\ \A j \in DOMAIN req : req[j].addr \in Nat
  BY ReqType
<1> DEFINE T == {m \in 0..Len(req) : \E b \in Nat : \A j \in 1..m : req[j].addr <= b}
<1>2. 0 \in T
  BY <1>1
<1>3. ASSUME NEW m \in 0..Len(req) - 1, m \in T
      PROVE  m + 1 \in T
  <2>1. PICK b \in Nat : \A j \in 1..m : req[j].addr <= b
    BY <1>3
  <2>2. m + 1 \in 1..Len(req)
    BY <1>1
  <2>3. PICK c \in Nat : c = req[m + 1].addr
    BY <1>1, <2>2
  <2>4. ASSUME NEW j \in 1..m + 1
        PROVE  req[j].addr <= b + c
    <3>1. j \in 1..m \/ j = m + 1
      BY <1>1
    <3>2. j \in DOMAIN req
      BY <1>1
    <3>3. req[j].addr \in Nat
      BY <1>1, <3>2
    <3> QED
      BY <2>1, <2>3, <3>1, <3>3
  <2>5. b + c \in Nat /\ m + 1 \in 0..Len(req)
    BY <1>1
  <2> QED
    BY <2>4, <2>5
<1>4. Len(req) \in T
  <2> HIDE DEF T
  <2>1. \A i \in 0..Len(req) : i \in T
    BY <1>1, <1>2, <1>3, UpTo, Zenon
  <2> QED
    BY <1>1, <2>1
<1> QED
  BY <1>1, <1>4

(* A place among the sorted addresses. *)
LEMMA SortedIs ==
  ASSUME NEW req \in Seq(Requests)
  PROVE  /\ DOMAIN Sorted(req) = 1..Len(req)
         /\ \A rank \in 1..Len(req) :
              /\ \E j \in DOMAIN req : Sorted(req)[rank] = req[j].addr
              /\ Sorted(req)[rank] \in Nat
              /\ Below(req, Sorted(req)[rank]) < rank /\ rank <= Below(req, Sorted(req)[rank] + 1)
PROOF
<1>1. DOMAIN req = 1..Len(req) /\ Len(req) \in Nat /\ \A j \in DOMAIN req : req[j].addr \in Nat
  BY ReqType
<1>2. DOMAIN Sorted(req) = 1..Len(req)
  BY <1>1 DEF Sorted
<1>3. ASSUME NEW rank \in 1..Len(req)
      PROVE  \E a \in {req[j].addr : j \in DOMAIN req} : Below(req, a) < rank /\ rank <= Below(req, a + 1)
  <2>1. PICK b \in Nat : \A j \in DOMAIN req : req[j].addr <= b
    BY Bounded
  <2>2. Below(req, b + 1) = Len(req)
    <3>1. {j \in DOMAIN req : req[j].addr < b + 1} = 1..Len(req)
      BY <1>1, <2>1
    <3>2. PICK n \in Nat : n = Len(req)
      BY <1>1
    <3>3. Cardinality(1..n) = n
      BY FS_Interval
    <3> QED
      BY <3>1, <3>2, <3>3 DEF Below
  <2> DEFINE T == {a \in Nat : rank <= Below(req, a + 1)}
  <2>3. T \subseteq Nat /\ T # {}
    <3>1. rank <= Below(req, b + 1)
      BY <1>1, <2>2
    <3> QED
      BY <3>1
  <2>4. PICK a \in T : \A c \in T : a <= c
    <3> HIDE DEF T
    <3> QED
      BY <2>3, Least, Zenon
  <2>5. a \in Nat /\ rank <= Below(req, a + 1)
    BY <2>4
  <2>6. Below(req, a) < rank
    <3>1. CASE a = 0
      <4>1. {j \in DOMAIN req : req[j].addr < 0} = {}
        BY <1>1
      <4>2. Below(req, 0) = 0
        BY <4>1, FS_EmptySet DEF Below
      <4> QED
        BY <1>1, <3>1, <4>2
    <3>2. CASE a # 0
      <4>1. a - 1 \in Nat /\ (a - 1) + 1 = a /\ ~(a <= a - 1)
        BY <2>5, <3>2
      <4>2. ~(rank <= Below(req, a))
        BY <2>4, <4>1
      <4>3. Below(req, a) \in 0..Len(req)
        BY <2>5, BelowRises, SMTT(30)
      <4> QED
        BY <1>1, <4>2, <4>3
    <3> QED
      BY <3>1, <3>2
  <2>7. \E j \in DOMAIN req : req[j].addr = a
    <3> SUFFICES ASSUME \A j \in DOMAIN req : req[j].addr # a
                 PROVE  FALSE
      OBVIOUS
    <3>1. Below(req, a) = Below(req, a + 1)
      BY <2>5, BelowCounts
    <3>2. Below(req, a) \in 0..Len(req)
      BY <2>5, BelowRises, SMTT(30)
    <3> QED
      BY <1>1, <2>5, <2>6, <3>1, <3>2
  <2> QED
    BY <2>5, <2>6, <2>7
<1>4. ASSUME NEW rank \in 1..Len(req)
      PROVE  /\ Sorted(req)[rank] \in {req[j].addr : j \in DOMAIN req}
             /\ Below(req, Sorted(req)[rank]) < rank /\ rank <= Below(req, Sorted(req)[rank] + 1)
  <2>1. Sorted(req)[rank] = CHOOSE a \in {req[j].addr : j \in DOMAIN req} :
                           Below(req, a) < rank /\ rank <= Below(req, a + 1)
    BY <1>1 DEF Sorted
  <2> QED
    BY <1>3, <2>1, Zenon
<1> QED
  BY <1>1, <1>2, <1>4

(* The addresses come in ascending order ...                               *)
LEMMA SortedRises ==
  ASSUME NEW req \in Seq(Requests), NEW rank \in 1..Len(req), NEW m \in 1..Len(req), rank < m
  PROVE  Sorted(req)[rank] <= Sorted(req)[m]
PROOF
<1>1. PICK x \in Nat, y \in Nat : x = Sorted(req)[rank] /\ y = Sorted(req)[m]
  BY SortedIs
<1>2. Below(req, x) < rank /\ m <= Below(req, y + 1)
  BY <1>1, SortedIs
<1>3. ASSUME y < x
      PROVE  FALSE
  <2>1. y + 1 \in Nat /\ y + 1 <= x
    BY <1>3
  <2>2. /\ Below(req, x) \in 0..Len(req) /\ Below(req, y + 1) \in 0..Len(req)
        /\ Below(req, y + 1) <= Below(req, x)
    BY <2>1, BelowRises
  <2> QED
    BY <1>2, <2>2
<1> QED
  BY <1>1, <1>3

(* ... and none is left out.                                               *)
LEMMA SortedAll ==
  ASSUME NEW req \in Seq(Requests), NEW j \in DOMAIN req
  PROVE  \E rank \in 1..Len(req) : Sorted(req)[rank] = req[j].addr
PROOF
<1>1. DOMAIN req = 1..Len(req) /\ Len(req) \in Nat
  OBVIOUS
<1>2. PICK a \in Nat : a = req[j].addr
  BY ReqType
<1>3. Below(req, a) < Below(req, a + 1)
  BY <1>2, BelowCounts
<1>4. Below(req, a) \in 0..Len(req) /\ Below(req, a + 1) \in 0..Len(req)
  <2>1. a + 1 \in Nat /\ a <= a + 1
    OBVIOUS
  <2> QED
    BY <2>1, BelowRises
<1>5. PICK p1 \in Nat, p2 \in Nat : p1 = Below(req, a) /\ p2 = Below(req, a + 1)
  BY <1>1, <1>4
<1>6. p1 + 1 \in 1..Len(req) /\ p1 + 1 <= p2
  BY <1>1, <1>3, <1>4, <1>5
<1>7. PICK b \in Nat : b = Sorted(req)[p1 + 1]
  BY <1>6, SortedIs
<1>8. PICK q1 \in Nat, q2 \in Nat : q1 = Below(req, b) /\ q2 = Below(req, b + 1)
  <2>1. b + 1 \in Nat /\ b <= b + 1
    OBVIOUS
  <2>2. Below(req, b) \in 0..Len(req) /\ Below(req, b + 1) \in 0..Len(req)
    BY <2>1, BelowRises
  <2> QED
    BY <1>1, <2>2
<1>9. q1 < p1 + 1 /\ p1 + 1 <= q2
  BY <1>6, <1>7, <1>8, SortedIs
<1>10. ~(b < a)
  <2> SUFFICES ASSUME b < a
               PROVE  q2 <= p1
    BY <1>9
  <2>1. b + 1 \in Nat /\ b + 1 <= a
    OBVIOUS
  <2> QED
    BY <1>5, <1>8, <2>1, BelowRises
<1>11. ~(a < b)
  <2> SUFFICES ASSUME a < b
               PROVE  p2 <= q1
    BY <1>6, <1>9
  <2>1. a + 1 \in Nat /\ a + 1 <= b
    OBVIOUS
  <2> QED
    BY <1>5, <1>8, <2>1, BelowRises
<1> QED
  BY <1>2, <1>6, <1>7, <1>10, <1>11

---------------------------------------------------------------------------
(* Plan *)

Areas == [addr : Nat, nnyb : Int, at : Int]

PlanStates(req) == [areas : Seq(Areas), off : [DOMAIN req -> Int]]

Here(req, a) == {j \in DOMAIN req : req[j].addr = a}

LEMMA LastHere ==
  ASSUME NEW req \in Seq(Requests), NEW rank \in 1..Len(req)
  PROVE  /\ Max(Here(req, Sorted(req)[rank])) \in DOMAIN req
         /\ req[Max(Here(req, Sorted(req)[rank]))].addr = Sorted(req)[rank]
PROOF
<1>1. DOMAIN req = 1..Len(req) /\ Len(req) \in Nat
  BY ReqType
<1>2. Here(req, Sorted(req)[rank]) \in SUBSET (1..Len(req)) /\ Here(req, Sorted(req)[rank]) # {}
  BY <1>1, SortedIs DEF Here
<1>3. Max(Here(req, Sorted(req)[rank])) \in Here(req, Sorted(req)[rank])
  BY <1>1, <1>2, MaxAmong
<1> QED
  BY <1>3 DEF Here

LEMMA BytesType == \A n \in Int : Bytes(n) \in Int
BY DEF Bytes

(* What Place makes of a plan: its last area L ends with the request q, or  *)
(* an area begins with it.                                                  *)
Widens(req, a, q, L, old, new) ==
    /\ old.areas # <<>> /\ a <= L.addr + L.nnyb + Gap
    /\ new.areas = [old.areas EXCEPT ![Len(old.areas)] =
                      [addr |-> L.addr, nnyb |-> End(q) - L.addr, at |-> L.at]]
    /\ new.off = [j \in DOMAIN req |->
                    IF req[j].addr = a THEN 2 * L.at + a - L.addr ELSE old.off[j]]

Begins(req, a, q, L, old, new, at) ==
    /\ IF old.areas = <<>> THEN at = 0
       ELSE L.addr + L.nnyb + Gap < a /\ at = L.at + Bytes(L.nnyb)
    /\ new.areas = Append(old.areas, [addr |-> a, nnyb |-> q.nnyb, at |-> at])
    /\ new.off = [j \in DOMAIN req |-> IF req[j].addr = a THEN 2 * at ELSE old.off[j]]

(* Place widens the last area or begins a new one.                         *)
LEMMA PlaceIs ==
  ASSUME NEW req \in Seq(Requests), NEW rank \in 1..Len(req), NEW plan_ \in PlanStates(req),
         NEW a, a = Sorted(req)[rank], NEW q, q = req[Max(Here(req, a))],
         NEW L, L = plan_.areas[Len(plan_.areas)],
         NEW new, new = Place(req, plan_, a)
  PROVE  \/ Widens(req, a, q, L, plan_, new)
         \/ \E at \in Int : Begins(req, a, q, L, plan_, new, at)
PROOF
<1>1. q.addr = a /\ a \in Nat /\ q.nnyb \in Nat /\ End(q) = q.addr + q.nnyb
  BY LastHere, SortedIs, ReqType DEF End
<1>2. plan_.areas \in Seq(Areas) /\ Len(plan_.areas) \in Nat /\ plan_.off \in [DOMAIN req -> Int]
  BY DEF PlanStates
<1> DEFINE same == plan_.areas # <<>> /\ SameArea(Last(plan_.areas), q)
           areas == IF same
                    THEN [plan_.areas EXCEPT ![Len(plan_.areas)] = Widened(@, q)]
                    ELSE Append(plan_.areas, NextArea(plan_.areas, q))
<1>3. /\ new.areas = areas
      /\ new.off = [j \in DOMAIN req |->
                      IF req[j].addr = a THEN 2 * Last(areas).at + a - Last(areas).addr
                      ELSE plan_.off[j]]
  <2>1. \A j \in DOMAIN req : j \in {i \in DOMAIN req : req[i].addr = a} <=> req[j].addr = a
    OBVIOUS
  <2>2. new = [areas |-> areas,
               off |-> [j \in DOMAIN req |->
                          IF j \in {i \in DOMAIN req : req[i].addr = a}
                          THEN 2 * Last(areas).at + a - Last(areas).addr
                          ELSE plan_.off[j]]]
    BY DEF Place, Here
  <2> HIDE DEF areas
  <2> QED
    BY <2>1, <2>2
<1>4. CASE same
  <2>1. plan_.areas # <<>> /\ a <= L.addr + L.nnyb + Gap
    BY <1>1, <1>4 DEF SameArea, Last
  <2>2. L \in Areas /\ Len(plan_.areas) \in 1..Len(plan_.areas)
    BY <1>2, <2>1
  <2>3. Widened(L, q) = [addr |-> L.addr, nnyb |-> End(q) - L.addr, at |-> L.at]
    BY <1>1, <2>2, SMTT(30) DEF Widened, Areas
  <2>4. areas = [plan_.areas EXCEPT ![Len(plan_.areas)] =
                   [addr |-> L.addr, nnyb |-> End(q) - L.addr, at |-> L.at]]
    BY <1>4, <2>3
  <2>5. Last(areas).at = L.at /\ Last(areas).addr = L.addr
    BY <1>2, <2>2, <2>4 DEF Last
  <2> HIDE DEF areas
  <2> QED
    BY <1>3, <2>1, <2>4, <2>5 DEF Widens
<1>5. CASE ~same
  <2>1. PICK at \in Int : at = IF plan_.areas = <<>> THEN 0 ELSE L.at + Bytes(L.nnyb)
    <3>1. CASE plan_.areas = <<>>
      BY <3>1
    <3>2. CASE plan_.areas # <<>>
      <4>1. L \in Areas
        BY <1>2, <3>2
      <4>2. L.at \in Int /\ Bytes(L.nnyb) \in Int
        BY <4>1, BytesType DEF Areas
      <4> QED
        BY <3>2, <4>2
    <3> QED
      BY <3>1, <3>2
  <2>2. NextArea(plan_.areas, q) = [addr |-> a, nnyb |-> q.nnyb, at |-> at]
    BY <1>1, <2>1 DEF NextArea, Last
  <2>3. areas = Append(plan_.areas, [addr |-> a, nnyb |-> q.nnyb, at |-> at])
    BY <1>5, <2>2
  <2>4. Last(areas).at = at /\ Last(areas).addr = a
    BY <1>2, <2>3 DEF Last
  <2>5. plan_.areas # <<>> => L.addr + L.nnyb + Gap < a
    <3> SUFFICES ASSUME plan_.areas # <<>>
                 PROVE  L.addr + L.nnyb + Gap < a
      OBVIOUS
    <3>1. L \in Areas
      BY <1>2
    <3>2. PICK x \in Int : x = L.addr + L.nnyb + Gap
      BY <3>1 DEF Areas, Gap
    <3>3. ~(x >= a)
      BY <1>1, <1>5, <3>2 DEF SameArea, Last
    <3> QED
      BY <1>1, <3>2, <3>3
  <2>6. 2 * at + a - a = 2 * at
    BY <1>1
  <2>7. new.off = [j \in DOMAIN req |-> IF req[j].addr = a THEN 2 * at ELSE plan_.off[j]]
    <3> HIDE DEF areas
    <3> QED
      BY <1>3, <2>4, <2>6
  <2> HIDE DEF areas
  <2>8. Begins(req, a, q, L, plan_, new, at)
    BY <1>3, <2>1, <2>3, <2>5, <2>7 DEF Begins
  <2> QED
    BY <2>8
<1> QED
  BY <1>4, <1>5

LEMMA PlaceType ==
  ASSUME NEW req \in Seq(Requests), NEW m \in 1..Len(req), NEW plan_ \in PlanStates(req)
  PROVE  Place(req, plan_, Sorted(req)[m]) \in PlanStates(req)
PROOF
<1> DEFINE a   == Sorted(req)[m]
           q   == req[Max(Here(req, a))]
           L   == plan_.areas[Len(plan_.areas)]
           new == Place(req, plan_, a)
<1>1. a \in Nat /\ q.addr = a /\ q.nnyb \in Nat \ {0} /\ End(q) \in Nat
  BY LastHere, SortedIs, ReqType
<1>2. plan_.areas \in Seq(Areas) /\ plan_.off \in [DOMAIN req -> Int]
  BY DEF PlanStates
<1>3. plan_.areas # <<>> => L.addr \in Nat /\ L.nnyb \in Int /\ L.at \in Int
  <2> SUFFICES ASSUME plan_.areas # <<>>
               PROVE  L.addr \in Nat /\ L.nnyb \in Int /\ L.at \in Int
    OBVIOUS
  <2>1. L \in Areas
    BY <1>2
  <2> QED
    BY <2>1 DEF Areas
<1>4. \/ Widens(req, a, q, L, plan_, new)
      \/ \E at \in Int : Begins(req, a, q, L, plan_, new, at)
  <2>1. a = Sorted(req)[m] /\ q = req[Max(Here(req, a))] /\ L = plan_.areas[Len(plan_.areas)]
        /\ new = Place(req, plan_, a)
    OBVIOUS
  <2> HIDE DEF a, q, L, new
  <2> QED
    BY <2>1, PlaceIs, Zenon
<1>5. new = [areas |-> new.areas, off |-> new.off]
  BY DEF Place
<1> HIDE DEF a, q, L, new
<1>6. new.areas \in Seq(Areas) /\ new.off \in [DOMAIN req -> Int]
  <2>1. CASE Widens(req, a, q, L, plan_, new)
    <3>1. plan_.areas # <<>>
      BY <2>1 DEF Widens
    <3>2. L.addr \in Nat /\ End(q) - L.addr \in Int /\ L.at \in Int /\ 2 * L.at + a - L.addr \in Int
      BY <1>1, <1>3, <3>1
    <3>3. [addr |-> L.addr, nnyb |-> End(q) - L.addr, at |-> L.at] \in Areas
      BY <3>2 DEF Areas
    <3>4. new.areas \in Seq(Areas)
      BY <1>2, <2>1, <3>3 DEF Widens
    <3>5. new.off \in [DOMAIN req -> Int]
      BY <1>2, <2>1, <3>2 DEF Widens
    <3> QED
      BY <3>4, <3>5
  <2>2. ASSUME NEW at \in Int, Begins(req, a, q, L, plan_, new, at)
        PROVE  new.areas \in Seq(Areas) /\ new.off \in [DOMAIN req -> Int]
    <3>1. [addr |-> a, nnyb |-> q.nnyb, at |-> at] \in Areas
      BY <1>1 DEF Areas
    <3>2. new.areas \in Seq(Areas)
      BY <1>2, <2>2, <3>1 DEF Begins
    <3>3. new.off \in [DOMAIN req -> Int]
      BY <1>2, <2>2 DEF Begins
    <3> QED
      BY <3>2, <3>3
  <2> QED
    BY <1>4, <2>1, <2>2
<1> QED
  BY <1>5, <1>6 DEF PlanStates, new, a

(* Plan places the sorted addresses one by one. *)
LEMMA PlanSteps ==
  ASSUME NEW req \in Seq(Requests)
  PROVE  \E f \in [0..Len(req) -> PlanStates(req)] :
           /\ f[0] = NoPlan(req) /\ Plan(req) = f[Len(req)]
           /\ \A m \in 1..Len(req) : f[m] = Place(req, f[m - 1], Sorted(req)[m])
PROOF
<1> DEFINE X == PlanStates(req)
           F == [m \in 1..Len(req) |-> [plan_ \in X |-> Place(req, plan_, Sorted(req)[m])]]
<1>1. DOMAIN req = 1..Len(req) /\ Len(req) \in Nat /\ DOMAIN Sorted(req) = 1..Len(req)
  BY ReqType, SortedIs
<1>2. NoPlan(req) \in X
  BY <1>1 DEF NoPlan, PlanStates
<1>3. F \in [1..Len(req) -> [X -> X]]
  BY PlaceType
<1>4. \E g \in [SUBSET (1..Len(req)) -> X] : FoldsBy(g, F, NoPlan(req), Len(req))
  <2> HIDE DEF F, X
  <2> QED
    BY <1>1, <1>2, <1>3, FoldExists, Zenon
<1> DEFINE IsFold(g) ==
             g = [s \in SUBSET (DOMAIN Sorted(req)) |->
                    IF s = {} THEN NoPlan(req)
                    ELSE Place(req, g[s \ {Max(s)}], Sorted(req)[Max(s)])]
<1>5. \E g : IsFold(g)
  <2>1. PICK g \in [SUBSET (1..Len(req)) -> X] :
               FoldsBy(g, F, NoPlan(req), Len(req))
    BY <1>4
  <2>2. ASSUME NEW s \in SUBSET (1..Len(req)), s # {}
        PROVE  g[s] = Place(req, g[s \ {Max(s)}], Sorted(req)[Max(s)])
    <3>1. Max(s) \in 1..Len(req) /\ s \ {Max(s)} \in SUBSET (1..Len(req))
      BY <1>1, <2>2, MaxAmong
    <3>2. g[s \ {Max(s)}] \in X
      BY <3>1
    <3>3. g[s] = F[Max(s)][g[s \ {Max(s)}]]
      BY <2>1, <2>2 DEF FoldsBy
    <3> HIDE DEF X
    <3> QED
      BY <3>1, <3>2, <3>3
  <2>3. g[{}] = NoPlan(req)
    BY <2>1 DEF FoldsBy
  <2>4. IsFold(g)
    <3> HIDE DEF X, F
    <3> QED
      BY <1>1, <2>2, <2>3
  <2> QED
    BY <2>4
<1> DEFINE iter == CHOOSE g : IsFold(g)
<1>6. IsFold(iter)
  BY <1>5, Zenon
<1>7. Plan(req) = iter[1..Len(req)]
  <2>1. Plan(req) = iter[DOMAIN Sorted(req)]
    BY DEF Plan, FoldLeft, MapThenFoldSet
  <2> QED
    BY <1>1, <2>1, Zenon
<1> HIDE DEF iter
<1>8. iter[1..0] = NoPlan(req)
  BY <1>6
<1>9. ASSUME NEW m \in 1..Len(req)
      PROVE  iter[1..m] = Place(req, iter[1..m - 1], Sorted(req)[m])
  <2>1. 1..m \in SUBSET (DOMAIN Sorted(req)) /\ 1..m # {} /\ m \in 1..m
    <3>1. 1..m \subseteq 1..Len(req) /\ m \in 1..m
      BY <1>1
    <3> QED
      BY <1>1, <3>1
  <2>2. Max(1..m) = m
    <3>1. 1..m \in SUBSET Int /\ m \in 1..m /\ \A y \in 1..m : y <= m
      OBVIOUS
    <3> QED
      BY <3>1, MaxIs
  <2>3. (1..m) \ {m} = 1..m - 1
    BY <1>1
  <2>4. iter[1..m] = Place(req, iter[(1..m) \ {Max(1..m)}], Sorted(req)[Max(1..m)])
    BY <1>6, <2>1
  <2> QED
    BY <2>2, <2>3, <2>4
<1> DEFINE T == {m \in 0..Len(req) : iter[1..m] \in X}
<1>10. \A m \in 0..Len(req) : m \in T
  <2>1. 0 \in T
    BY <1>1, <1>2, <1>8
  <2>2. ASSUME NEW m \in 0..Len(req) - 1, m \in T
        PROVE  m + 1 \in T
    <3>1. m + 1 \in 1..Len(req) /\ (m + 1) - 1 = m
      BY <1>1
    <3>2. iter[1..m + 1] = Place(req, iter[1..m], Sorted(req)[m + 1])
      BY <1>9, <3>1
    <3>3. iter[1..m + 1] \in X
      BY <2>2, <3>1, <3>2, PlaceType
    <3> QED
      BY <1>1, <3>1, <3>3
  <2> HIDE DEF T
  <2> QED
    BY <1>1, <2>1, <2>2, UpTo, Zenon
<1> DEFINE f == [m \in 0..Len(req) |-> iter[1..m]]
<1>11. f \in [0..Len(req) -> X]
  BY <1>10
<1>12. f[0] = NoPlan(req) /\ Plan(req) = f[Len(req)]
  BY <1>1, <1>7, <1>8
<1>13. \A m \in 1..Len(req) : f[m] = Place(req, f[m - 1], Sorted(req)[m])
  BY <1>1, <1>9
<1> HIDE DEF f
<1> QED
  BY <1>11, <1>12, <1>13, Zenon

---------------------------------------------------------------------------
(* What holds of a plan in which the requests up to an address are placed. *)

EndOf(area) == area.addr + area.nnyb

Holds(req, plan_, j, x) ==
    /\ plan_.areas[x].addr <= req[j].addr
    /\ End(req[j]) <= EndOf(plan_.areas[x])
    /\ plan_.off[j] = 2 * plan_.areas[x].at + req[j].addr - plan_.areas[x].addr

Spans(req, plan_, x) ==
    \A e \in Nat : plan_.areas[x].addr <= e /\ e < EndOf(plan_.areas[x]) =>
        \E j \in DOMAIN req : req[j].addr <= e + Gap /\ e < End(req[j])

AreasType(plan_) ==
    \A x \in DOMAIN plan_.areas : /\ plan_.areas[x].nnyb \in Nat \ {0}
                                  /\ plan_.areas[x].at \in Nat

Apart(plan_) ==
    \A x, y \in DOMAIN plan_.areas : x < y =>
        /\ plan_.areas[x].at + Bytes(plan_.areas[x].nnyb) <= plan_.areas[y].at
        /\ EndOf(plan_.areas[x]) + Gap < plan_.areas[y].addr

Placed(req, plan_, b) ==
    \A j \in DOMAIN req : req[j].addr <= b =>
        \E x \in DOMAIN plan_.areas : Holds(req, plan_, j, x)

Starts(req, plan_) ==
    \A x \in DOMAIN plan_.areas :
        \E m \in DOMAIN req : plan_.areas[x].addr = req[m].addr

EndsLast(req, plan_, b) ==
    plan_.areas # <<>> =>
        /\ plan_.areas[Len(plan_.areas)].addr <= b
        /\ \E i \in DOMAIN req : /\ req[i].addr <= b
                                 /\ EndOf(plan_.areas[Len(plan_.areas)]) = End(req[i])

Good(req, plan_, b) ==
    /\ AreasType(plan_) /\ Apart(plan_) /\ Placed(req, plan_, b)
    /\ Starts(req, plan_) /\ EndsLast(req, plan_, b)
    /\ \A x \in DOMAIN plan_.areas : Spans(req, plan_, x)

LEMMA PlanTypes ==
  ASSUME NEW req, NEW plan_ \in PlanStates(req)
  PROVE  /\ DOMAIN plan_.areas = 1..Len(plan_.areas) /\ Len(plan_.areas) \in Nat
         /\ plan_.areas # <<>> => Len(plan_.areas) \in DOMAIN plan_.areas
         /\ plan_.off \in [DOMAIN req -> Int]
         /\ \A x \in DOMAIN plan_.areas :
              /\ plan_.areas[x].addr \in Nat /\ plan_.areas[x].nnyb \in Int
              /\ plan_.areas[x].at \in Int /\ EndOf(plan_.areas[x]) \in Int
              /\ Bytes(plan_.areas[x].nnyb) \in Int
PROOF
<1>1. plan_.areas \in Seq(Areas) /\ plan_.off \in [DOMAIN req -> Int]
  BY DEF PlanStates
<1>2. DOMAIN plan_.areas = 1..Len(plan_.areas) /\ Len(plan_.areas) \in Nat
      /\ (plan_.areas # <<>> => Len(plan_.areas) \in DOMAIN plan_.areas)
  BY <1>1
<1>3. ASSUME NEW x \in DOMAIN plan_.areas
      PROVE  /\ plan_.areas[x].addr \in Nat /\ plan_.areas[x].nnyb \in Int
             /\ plan_.areas[x].at \in Int /\ EndOf(plan_.areas[x]) \in Int
             /\ Bytes(plan_.areas[x].nnyb) \in Int
  <2>1. plan_.areas[x] \in Areas
    BY <1>1
  <2>2. plan_.areas[x].addr \in Nat /\ plan_.areas[x].nnyb \in Int /\ plan_.areas[x].at \in Int
    BY <2>1 DEF Areas
  <2>3. EndOf(plan_.areas[x]) \in Int
    BY <2>2 DEF EndOf
  <2> QED
    BY <2>2, <2>3, BytesType
<1> QED
  BY <1>1, <1>2, <1>3

LEMMA Difference ==
  ASSUME NEW x \in Nat, NEW y \in Nat, x < y
  PROVE  y - x \in Nat \ {0} /\ x + (y - x) = y
PROOF
  OBVIOUS

(* The last area is widened. *)
LEMMA WidensGood ==
  ASSUME NEW req \in Seq(Requests), NoneInside(req),
         NEW old \in PlanStates(req), NEW new \in PlanStates(req),
         NEW a \in Nat, NEW b \in Int, b <= a, \A j \in DOMAIN req : req[j].addr <= b \/ a <= req[j].addr,
         NEW i \in DOMAIN req, req[i].addr = a,
         Good(req, old, b),
         Widens(req, a, req[i], old.areas[Len(old.areas)], old, new)
  PROVE  Good(req, new, a)
PROOF
<1> DEFINE n == Len(old.areas)
           L == old.areas[n]
           M == [addr |-> L.addr, nnyb |-> End(req[i]) - L.addr, at |-> L.at]
<1>1. /\ old.areas # <<>> /\ a <= L.addr + L.nnyb + Gap
      /\ new.areas = [old.areas EXCEPT ![n] = M]
      /\ new.off = [j \in DOMAIN req |->
                      IF req[j].addr = a THEN 2 * L.at + a - L.addr ELSE old.off[j]]
  BY DEF Widens
<1>2. n \in DOMAIN old.areas /\ DOMAIN new.areas = DOMAIN old.areas /\ Len(new.areas) = n
      /\ DOMAIN old.areas = 1..n /\ n \in Nat
  <2>1. n \in DOMAIN old.areas /\ DOMAIN old.areas = 1..n /\ n \in Nat /\ old.areas \in Seq(Areas)
    BY <1>1, PlanTypes DEF PlanStates
  <2> HIDE DEF M
  <2> QED
    BY <1>1, <2>1
<1>3. new.areas[n] = M /\ \A x \in DOMAIN old.areas : x # n => new.areas[x] = old.areas[x]
  <2> HIDE DEF M
  <2> QED
    BY <1>1, <1>2
<1>4. PICK c \in DOMAIN req : L.addr <= b /\ req[c].addr <= b /\ EndOf(L) = End(req[c])
  BY <1>1 DEF Good, EndsLast
<1>5. /\ L.addr \in Nat /\ L.nnyb \in Nat \ {0} /\ L.at \in Nat
      /\ EndOf(L) \in Int /\ EndOf(L) = L.addr + L.nnyb
  BY <1>2, PlanTypes DEF Good, AreasType, EndOf
<1>6. \A j \in DOMAIN req : req[j].addr \in Nat /\ End(req[j]) \in Nat /\ req[j].addr < End(req[j])
  BY ReqType
<1>7. \A j \in DOMAIN req : req[j].addr <= a => End(req[j]) <= End(req[i])
  BY DEF NoneInside
<1>8. EndOf(L) <= End(req[i])
  <2>1. PICK z \in Nat : z = req[c].addr
    BY <1>6
  <2>2. z <= b /\ z <= a
    BY <1>4, <2>1
  <2> QED
    BY <1>4, <1>7, <2>1, <2>2
<1>9. /\ M.addr = L.addr /\ M.at = L.at /\ M.nnyb = End(req[i]) - L.addr
      /\ M.nnyb \in Nat \ {0} /\ EndOf(M) = End(req[i])
  <2>1. PICK x \in Nat, y \in Nat, z \in Int : x = L.addr /\ y = End(req[i]) /\ z = EndOf(L)
    BY <1>5, <1>6
  <2>2. x < z /\ z <= y
    <3>1. L.nnyb \in Nat \ {0} /\ EndOf(L) = L.addr + L.nnyb
      BY <1>5
    <3>2. PICK w \in Nat \ {0} : w = L.nnyb
      BY <3>1
    <3>3. z = x + w
      BY <2>1, <3>1, <3>2
    <3> QED
      <4>1. z <= y
        BY <1>8, <2>1
      <4>2. x < z
        BY <3>3
      <4> QED
        BY <4>1, <4>2
  <2>3. y - x \in Nat \ {0} /\ x + (y - x) = y
    <3>1. x < y
      BY <2>1, <2>2
    <3> QED
      BY <3>1, Difference, Zenon
  <2>4. M.addr = x /\ M.at = L.at /\ M.nnyb = y - x
    BY <2>1
  <2> HIDE DEF M
  <2> QED
    BY <2>1, <2>3, <2>4 DEF EndOf
<1> HIDE DEF n, L, M
<1>10. AreasType(new)
  BY <1>2, <1>3, <1>5, <1>9 DEF AreasType, Good
<1>11. Apart(new)
  <2> SUFFICES ASSUME NEW x \in DOMAIN old.areas, NEW y \in DOMAIN old.areas, x < y
               PROVE  /\ new.areas[x].at + Bytes(new.areas[x].nnyb) <= new.areas[y].at
                      /\ EndOf(new.areas[x]) + Gap < new.areas[y].addr
    BY <1>2 DEF Apart
  <2>1. x # n
    BY <1>2
  <2>2. new.areas[y].at = old.areas[y].at /\ new.areas[y].addr = old.areas[y].addr
    BY <1>3, <1>9 DEF L
  <2> QED
    BY <1>3, <2>1, <2>2 DEF Good, Apart
<1>12. Placed(req, new, a)
  <2> SUFFICES ASSUME NEW j \in DOMAIN req, req[j].addr <= a
               PROVE  \E x \in DOMAIN new.areas : Holds(req, new, j, x)
    BY DEF Placed
  <2>1. CASE req[j].addr = a
    <3>1. new.off[j] = 2 * L.at + a - L.addr
      BY <1>1, <2>1 DEF L, n
    <3>2. Holds(req, new, j, n)
      <4>1. L.addr <= a
        BY <1>4, <1>5
      <4>2. End(req[j]) <= End(req[i])
        BY <1>7
      <4>3. new.areas[n].addr = L.addr /\ new.areas[n].at = L.at
            /\ EndOf(new.areas[n]) = End(req[i])
        BY <1>3, <1>9
      <4> QED
        BY <2>1, <3>1, <4>1, <4>2, <4>3 DEF Holds
    <3> QED
      BY <1>2, <3>2
  <2>2. CASE req[j].addr # a
    <3>1. req[j].addr <= b
      BY <1>6, <2>2
    <3>2. PICK x \in DOMAIN old.areas : Holds(req, old, j, x)
      BY <3>1 DEF Good, Placed
    <3>3. new.off[j] = old.off[j]
      BY <1>1, <2>2
    <3>4. CASE x # n
      <4>1. Holds(req, new, j, x)
        BY <1>3, <3>2, <3>3, <3>4 DEF Holds
      <4> QED
        BY <1>2, <4>1
    <3>5. CASE x = n
      <4>1. L.addr <= req[j].addr /\ new.off[j] = 2 * L.at + req[j].addr - L.addr
        BY <3>2, <3>3, <3>5 DEF Holds, L
      <4>2. Holds(req, new, j, n)
        BY <1>3, <1>7, <1>9, <4>1 DEF Holds
      <4> QED
        BY <1>2, <4>2
    <3> QED
      BY <3>4, <3>5
  <2> QED
    BY <2>1, <2>2
<1>13. Starts(req, new)
  <2> SUFFICES ASSUME NEW x \in DOMAIN old.areas
               PROVE  \E m \in DOMAIN req : new.areas[x].addr = req[m].addr
    BY <1>2 DEF Starts
  <2>1. new.areas[x].addr = old.areas[x].addr
    BY <1>3, <1>9 DEF L
  <2> QED
    BY <2>1 DEF Good, Starts
<1>14. EndsLast(req, new, a)
  <2>1. new.areas[Len(new.areas)].addr <= a /\ EndOf(new.areas[Len(new.areas)]) = End(req[i])
    BY <1>2, <1>3, <1>4, <1>5, <1>9
  <2> QED
    BY <2>1 DEF EndsLast
<1>15. ASSUME NEW x \in DOMAIN new.areas
       PROVE  Spans(req, new, x)
  <2>1. CASE x # n
    BY <1>2, <1>3, <2>1 DEF Good, Spans
  <2>2. CASE x = n
    <3> SUFFICES ASSUME NEW e \in Nat, L.addr <= e, e < End(req[i])
                 PROVE  \E j \in DOMAIN req : req[j].addr <= e + Gap /\ e < End(req[j])
      BY <1>3, <1>9, <2>2 DEF Spans
    <3>1. CASE e < EndOf(L)
      BY <1>2, <3>1 DEF Good, Spans, L
    <3>2. CASE EndOf(L) <= e
      <4>1. req[i].addr <= e + Gap
        BY <1>1, <1>5, <3>2 DEF Gap, L, n
      <4> QED
        BY <4>1
    <3> QED
      BY <1>5, <3>1, <3>2
  <2> QED
    BY <2>1, <2>2
<1> QED
  BY <1>10, <1>11, <1>12, <1>13, <1>14, <1>15 DEF Good

(* A new area begins. *)
LEMMA BeginsGood ==
  ASSUME NEW req \in Seq(Requests), NoneInside(req),
         NEW old \in PlanStates(req), NEW new \in PlanStates(req),
         NEW a \in Nat, NEW b \in Int, b <= a, \A j \in DOMAIN req : req[j].addr <= b \/ a <= req[j].addr,
         NEW i \in DOMAIN req, req[i].addr = a,
         Good(req, old, b), NEW at \in Int,
         Begins(req, a, req[i], old.areas[Len(old.areas)], old, new, at)
  PROVE  Good(req, new, a)
PROOF
<1> DEFINE n == Len(old.areas)
           L == old.areas[n]
           M == [addr |-> a, nnyb |-> req[i].nnyb, at |-> at]
<1>1. /\ IF old.areas = <<>> THEN at = 0
         ELSE L.addr + L.nnyb + Gap < a /\ at = L.at + Bytes(L.nnyb)
      /\ new.areas = Append(old.areas, M)
      /\ new.off = [j \in DOMAIN req |-> IF req[j].addr = a THEN 2 * at ELSE old.off[j]]
  BY DEF Begins
<1>2. DOMAIN old.areas = 1..n /\ n \in Nat /\ DOMAIN new.areas = 1..n + 1 /\ Len(new.areas) = n + 1
      /\ n + 1 \in 1..n + 1 /\ 1..n \subseteq 1..n + 1 /\ (old.areas # <<>> => n \in 1..n)
  <2>1. DOMAIN old.areas = 1..n /\ n \in Nat /\ old.areas \in Seq(Areas)
        /\ (old.areas # <<>> => n \in 1..n)
    BY PlanTypes DEF PlanStates
  <2>2. new.areas = Append(old.areas, M)
    BY <1>1
  <2> HIDE DEF M
  <2> QED
    BY <2>1, <2>2
<1>3. new.areas[n + 1] = M /\ \A x \in 1..n : new.areas[x] = old.areas[x]
  <2>1. old.areas \in Seq(Areas) /\ new.areas = Append(old.areas, M)
    BY <1>1 DEF PlanStates
  <2> HIDE DEF M
  <2> QED
    BY <2>1
<1>4. \A j \in DOMAIN req : req[j].addr \in Nat /\ End(req[j]) \in Nat /\ req[j].addr < End(req[j])
                              /\ req[j].nnyb \in Nat \ {0}
  BY ReqType
<1>5. \A j \in DOMAIN req : req[j].addr <= a => End(req[j]) <= End(req[i])
  BY DEF NoneInside
<1>6. \A x \in 1..n : /\ old.areas[x].addr \in Nat /\ old.areas[x].nnyb \in Nat \ {0}
                      /\ old.areas[x].at \in Nat
                      /\ EndOf(old.areas[x]) \in Int /\ Bytes(old.areas[x].nnyb) \in Nat
  <2> SUFFICES ASSUME NEW x \in 1..n
               PROVE  /\ old.areas[x].addr \in Nat /\ old.areas[x].nnyb \in Nat \ {0}
                      /\ old.areas[x].at \in Nat
                      /\ EndOf(old.areas[x]) \in Int /\ Bytes(old.areas[x].nnyb) \in Nat
    OBVIOUS
  <2>1. old.areas[x].addr \in Nat /\ EndOf(old.areas[x]) \in Int
    BY <1>2, PlanTypes
  <2>2. old.areas[x].nnyb \in Nat \ {0} /\ old.areas[x].at \in Nat
    BY <1>2 DEF Good, AreasType
  <2>3. PICK z \in Nat : z = old.areas[x].nnyb
    BY <2>2
  <2>4. Bytes(z) \in Nat
    BY DEF Bytes
  <2> QED
    BY <2>1, <2>2, <2>3, <2>4
<1>7. at \in Nat
  <2>1. CASE old.areas = <<>>
    BY <1>1, <2>1
  <2>2. CASE old.areas # <<>>
    <3>1. n \in 1..n /\ at = L.at + Bytes(L.nnyb)
      BY <1>1, <1>2, <2>2
    <3>2. L.at \in Nat /\ Bytes(L.nnyb) \in Nat
      BY <1>6, <3>1
    <3> QED
      BY <3>1, <3>2
  <2> QED
    BY <2>1, <2>2
<1>8. M.addr = a /\ M.at = at /\ M.nnyb \in Nat \ {0} /\ EndOf(M) = End(req[i])
  BY <1>4 DEF EndOf, End
<1>9. new.off \in [DOMAIN req -> Int]
  BY PlanTypes
<1>10. AreasType(new)
  <2>1. ASSUME NEW x \in 1..n + 1
        PROVE  new.areas[x].nnyb \in Nat \ {0} /\ new.areas[x].at \in Nat
    <3>1. x \in 1..n \/ x = n + 1
      BY <1>2
    <3> HIDE DEF M
    <3> QED
      BY <1>3, <1>6, <1>7, <1>8, <3>1
  <2> QED
    BY <1>2, <2>1 DEF AreasType
<1>11. Apart(new)
  <2> SUFFICES ASSUME NEW x \in 1..n + 1, NEW y \in 1..n + 1, x < y
               PROVE  /\ new.areas[x].at + Bytes(new.areas[x].nnyb) <= new.areas[y].at
                      /\ EndOf(new.areas[x]) + Gap < new.areas[y].addr
    BY <1>2 DEF Apart
  <2>1. x \in 1..n /\ new.areas[x] = old.areas[x]
    BY <1>2, <1>3
  <2>2. CASE y \in 1..n
    BY <1>2, <1>3, <2>1, <2>2 DEF Good, Apart
  <2>3. CASE y = n + 1
    <3>1. /\ old.areas # <<>> /\ n \in 1..n
          /\ L.addr + L.nnyb + Gap < a /\ at = L.at + Bytes(L.nnyb)
      BY <1>1, <1>2, <2>1
    <3>2. new.areas[y].at = at /\ new.areas[y].addr = a
      BY <1>3, <1>8, <2>3
    <3>3. PICK x1 \in Int, x2 \in Nat, x3 \in Int : x1 = EndOf(old.areas[x]) /\ x2 = old.areas[x].at /\ x3 = Bytes(old.areas[x].nnyb)
      BY <1>6, <2>1, SMTT(30)
    <3>4. PICK l1 \in Int, l2 \in Nat, l3 \in Nat, l4 \in Nat : l1 = EndOf(L) /\ l2 = L.at /\ l3 = Bytes(L.nnyb) /\ l4 = L.addr
      BY <1>6, <3>1
    <3>5. l4 <= l1
      <4>1. PICK w \in Nat : w = L.nnyb
        BY <1>6, <3>1
      <4>2. l1 = l4 + w
        BY <3>4, <4>1 DEF EndOf
      <4> QED
        BY <4>2
    <3>6. x # n => x2 + x3 <= l2 /\ x1 + Gap < l4
      <4> SUFFICES ASSUME x # n
                   PROVE  x2 + x3 <= l2 /\ x1 + Gap < l4
        OBVIOUS
      <4>1. x < n /\ x \in DOMAIN old.areas /\ n \in DOMAIN old.areas
        BY <1>2, <2>1, <3>1
      <4>2. old.areas[x].at + Bytes(old.areas[x].nnyb) <= old.areas[n].at
            /\ EndOf(old.areas[x]) + Gap < old.areas[n].addr
        BY <4>1 DEF Good, Apart
      <4> QED
        BY <3>3, <3>4, <4>2
    <3>7. x = n => x2 = l2 /\ x3 = l3 /\ x1 = l1
      BY <3>3, <3>4
    <3>8. l1 + Gap < a /\ at = l2 + l3
      BY <3>1, <3>4 DEF EndOf
    <3>9. x2 + x3 <= at /\ x1 + Gap < a
      BY <3>5, <3>6, <3>7, <3>8 DEF Gap
    <3> QED
      BY <2>1, <3>2, <3>3, <3>9
  <2> QED
    BY <1>2, <2>2, <2>3
<1> HIDE DEF M
<1>12. Placed(req, new, a)
  <2> SUFFICES ASSUME NEW j \in DOMAIN req, req[j].addr <= a
               PROVE  \E x \in DOMAIN new.areas : Holds(req, new, j, x)
    BY DEF Placed
  <2>1. CASE req[j].addr = a
    <3>1. new.off[j] = 2 * at
      BY <1>1, <2>1
    <3>2. 2 * at = 2 * M.at + a - M.addr
      BY <1>7, <1>8
    <3>3. Holds(req, new, j, n + 1)
      BY <1>3, <1>5, <1>8, <2>1, <3>1, <3>2 DEF Holds
    <3> QED
      BY <1>2, <3>3
  <2>2. CASE req[j].addr # a
    <3>1. req[j].addr <= b
      BY <1>4, <2>2
    <3>2. PICK x \in 1..n : Holds(req, old, j, x)
      BY <1>2, <3>1 DEF Good, Placed
    <3>3. new.off[j] = old.off[j]
      BY <1>1, <2>2
    <3>4. Holds(req, new, j, x)
      BY <1>3, <3>2, <3>3 DEF Holds
    <3> QED
      BY <1>2, <3>4
  <2> QED
    BY <2>1, <2>2
<1>13. ASSUME NEW x \in 1..n + 1
       PROVE  \E m \in DOMAIN req : new.areas[x].addr = req[m].addr
  <2>1. CASE x \in 1..n
    BY <1>2, <1>3, <2>1 DEF Good, Starts
  <2>2. CASE x = n + 1
    BY <1>3, <1>8, <2>2
  <2> QED
    BY <1>2, <2>1, <2>2
<1>14. EndsLast(req, new, a)
  <2>1. new.areas[Len(new.areas)].addr <= a /\ EndOf(new.areas[Len(new.areas)]) = End(req[i])
    BY <1>2, <1>3, <1>8
  <2> QED
    BY <2>1 DEF EndsLast
<1>15. ASSUME NEW x \in 1..n + 1
       PROVE  Spans(req, new, x)
  <2>1. CASE x \in 1..n
    BY <1>2, <1>3, <2>1 DEF Good, Spans
  <2>2. CASE x = n + 1
    <3> SUFFICES ASSUME NEW e \in Nat, a <= e, e < End(req[i])
                 PROVE  \E j \in DOMAIN req : req[j].addr <= e + Gap /\ e < End(req[j])
      BY <1>3, <1>8, <2>2 DEF Spans
    <3>1. req[i].addr <= e + Gap
      BY DEF Gap
    <3> QED
      BY <3>1
  <2> QED
    BY <1>2, <2>1, <2>2
<1> QED
  BY <1>2, <1>10, <1>11, <1>12, <1>13, <1>14, <1>15 DEF Good, Starts

(* How far the first m addresses reach. *)
Reach(req, m) == IF m = 0 THEN -1 ELSE Sorted(req)[m]

LEMMA ReachRises ==
  ASSUME NEW req \in Seq(Requests), NEW m \in 1..Len(req)
  PROVE  /\ Reach(req, m) = Sorted(req)[m] /\ Reach(req, m) \in Nat
         /\ Reach(req, m - 1) \in Int /\ Reach(req, m - 1) <= Reach(req, m)
         /\ \A j \in DOMAIN req : req[j].addr <= Reach(req, m - 1) \/ Reach(req, m) <= req[j].addr
PROOF
<1>1. Len(req) \in Nat /\ m # 0
  OBVIOUS
<1>2. PICK a \in Nat : a = Sorted(req)[m] /\ a = Reach(req, m)
  BY <1>1, SortedIs DEF Reach
<1>3. m # 1 => m - 1 \in 1..Len(req) /\ m - 1 < m
  BY <1>1
<1>4. PICK b \in Int : /\ b = Reach(req, m - 1) /\ b <= a
                       /\ IF m = 1 THEN b = -1 ELSE b = Sorted(req)[m - 1]
  <2>1. CASE m = 1
    BY <2>1 DEF Reach
  <2>2. CASE m # 1
    <3>1. m - 1 # 0
      BY <1>1, <2>2
    <3>2. PICK b \in Nat : b = Sorted(req)[m - 1]
      BY <1>3, <2>2, SortedIs
    <3>3. Sorted(req)[m - 1] <= Sorted(req)[m]
      BY <1>3, <2>2, SortedRises
    <3> QED
      BY <1>2, <2>2, <3>1, <3>2, <3>3 DEF Reach
  <2> QED
    BY <2>1, <2>2
<1>5. ASSUME NEW j \in DOMAIN req
      PROVE  req[j].addr <= b \/ a <= req[j].addr
  <2>1. PICK i \in 1..Len(req) : Sorted(req)[i] = req[j].addr
    BY SortedAll
  <2>2. PICK c \in Nat : c = req[j].addr
    BY ReqType
  <2>3. CASE i < m
    <3>1. m # 1 /\ (i < m - 1 \/ i = m - 1)
      BY <1>1, <2>3
    <3>2. c <= b
      <4>1. CASE i < m - 1
        <5>1. Sorted(req)[i] <= Sorted(req)[m - 1]
          BY <1>3, <3>1, <4>1, SortedRises
        <5> QED
          BY <1>4, <2>1, <2>2, <3>1, <5>1
      <4>2. CASE i = m - 1
        BY <1>4, <2>1, <2>2, <3>1, <4>2
      <4> QED
        BY <3>1, <4>1, <4>2
    <3> QED
      BY <2>2, <3>2
  <2>4. CASE m < i
    <3>1. Sorted(req)[m] <= Sorted(req)[i]
      BY <2>4, SortedRises
    <3> QED
      BY <1>2, <2>1, <2>2, <3>1
  <2>5. CASE i = m
    <3>1. c = a
      BY <1>2, <2>1, <2>2, <2>5
    <3> QED
      BY <2>2, <3>1
  <2> QED
    BY <1>1, <2>3, <2>4, <2>5
<1> QED
  BY <1>2, <1>4, <1>5

(* Placing the next address keeps the plan good.                           *)
LEMMA PlaceGood ==
  ASSUME NEW req \in Seq(Requests), NoneInside(req), NEW m \in 1..Len(req),
         NEW old \in PlanStates(req), Good(req, old, Reach(req, m - 1))
  PROVE  Good(req, Place(req, old, Sorted(req)[m]), Reach(req, m))
PROOF
<1>1. PICK a \in Nat : a = Sorted(req)[m] /\ a = Reach(req, m)
  BY ReachRises
<1>2. PICK b \in Int : b = Reach(req, m - 1) /\ b <= a
  BY <1>1, ReachRises
<1>3. \A j \in DOMAIN req : req[j].addr <= b \/ a <= req[j].addr
  BY <1>1, <1>2, ReachRises
<1>4. PICK i \in DOMAIN req : i = Max(Here(req, a)) /\ req[i].addr = a
  BY <1>1, LastHere
<1>5. PICK new \in PlanStates(req) : new = Place(req, old, a)
  BY <1>1, PlaceType
<1>6. \/ Widens(req, a, req[i], old.areas[Len(old.areas)], old, new)
      \/ \E at \in Int : Begins(req, a, req[i], old.areas[Len(old.areas)], old, new, at)
  BY <1>1, <1>4, <1>5, PlaceIs, Zenon
<1>7. Good(req, old, b)
  BY <1>2
<1>8. Good(req, new, a)
  <2>1. CASE Widens(req, a, req[i], old.areas[Len(old.areas)], old, new)
    BY <1>2, <1>3, <1>4, <1>7, <2>1, WidensGood, SMTT(30)
  <2>2. ASSUME NEW at \in Int,
               Begins(req, a, req[i], old.areas[Len(old.areas)], old, new, at)
        PROVE  Good(req, new, a)
    BY <1>2, <1>3, <1>4, <1>7, <2>2, BeginsGood, SMTT(30)
  <2> QED
    BY <1>6, <2>1, <2>2
<1> QED
  BY <1>1, <1>5, <1>8

(* The plan of a batch: every request lies in one of its areas. *)
LEMMA PlanGood ==
  ASSUME NEW req \in Seq(Requests), NoneInside(req)
  PROVE  /\ Plan(req) \in PlanStates(req)
         /\ Good(req, Plan(req), Reach(req, Len(req)))
         /\ \A j \in DOMAIN req : req[j].addr <= Reach(req, Len(req))
PROOF
<1>1. PICK f \in [0..Len(req) -> PlanStates(req)] :
        /\ f[0] = NoPlan(req) /\ Plan(req) = f[Len(req)]
        /\ \A m \in 1..Len(req) : f[m] = Place(req, f[m - 1], Sorted(req)[m])
  BY PlanSteps, Zenon
<1>2. Len(req) \in Nat /\ DOMAIN req = 1..Len(req)
  OBVIOUS
<1> DEFINE T == {m \in 0..Len(req) : Good(req, f[m], Reach(req, m))}
<1>3. 0 \in T
  <2>1. f[0].areas = <<>> /\ Reach(req, 0) = -1
    BY <1>1 DEF NoPlan, Reach
  <2>2. AreasType(f[0]) /\ Apart(f[0]) /\ Starts(req, f[0])
        /\ \A x \in DOMAIN f[0].areas : Spans(req, f[0], x)
    BY <2>1 DEF AreasType, Apart, Starts
  <2>3. EndsLast(req, f[0], -1)
    BY <2>1 DEF EndsLast
  <2>4. Placed(req, f[0], -1)
    <3>1. \A j \in DOMAIN req : ~(req[j].addr <= -1)
      BY ReqType
    <3> QED
      BY <3>1 DEF Placed
  <2>5. Good(req, f[0], Reach(req, 0))
    BY <2>1, <2>2, <2>3, <2>4 DEF Good
  <2>6. 0 \in 0..Len(req)
    BY <1>2
  <2> QED
    BY <2>5, <2>6
<1>4. ASSUME NEW m \in 0..Len(req) - 1, m \in T
      PROVE  m + 1 \in T
  <2>1. m + 1 \in 1..Len(req) /\ m + 1 \in 0..Len(req) /\ (m + 1) - 1 = m
    BY <1>2
  <2>2. Good(req, f[m], Reach(req, (m + 1) - 1)) /\ f[m] \in PlanStates(req)
    BY <1>4, <2>1
  <2>3. f[m + 1] = Place(req, f[m], Sorted(req)[m + 1])
    BY <1>1, <2>1
  <2>4. Good(req, Place(req, f[m], Sorted(req)[m + 1]), Reach(req, m + 1))
    BY <2>1, <2>2, PlaceGood, Zenon
  <2> QED
    BY <2>1, <2>3, <2>4
<1>5. Len(req) \in T
  <2> HIDE DEF T
  <2>1. \A i \in 0..Len(req) : i \in T
    BY <1>2, <1>3, <1>4, UpTo, Zenon
  <2> QED
    BY <1>2, <2>1
<1>6. Plan(req) \in PlanStates(req)
  BY <1>1, <1>2
<1>7. ASSUME NEW j \in DOMAIN req
      PROVE  req[j].addr <= Reach(req, Len(req))
  <2>1. PICK i \in 1..Len(req) : Sorted(req)[i] = req[j].addr
    BY SortedAll
  <2>2. Len(req) \in 1..Len(req)
    BY <1>2
  <2>3. PICK c \in Nat, d \in Nat : c = req[j].addr /\ d = Reach(req, Len(req)) /\ d = Sorted(req)[Len(req)]
    BY <2>2, ReachRises, ReqType
  <2>4. i < Len(req) => c <= d
    BY <2>1, <2>2, <2>3, SortedRises
  <2>5. i = Len(req) => c = d
    BY <2>1, <2>3
  <2>6. i < Len(req) \/ i = Len(req)
    <3>1. PICK n \in Nat : n = Len(req)
      BY <1>2
    <3>2. i \in 1..n
      BY <3>1
    <3>3. i < n \/ i = n
      BY <3>2
    <3> QED
      BY <3>1, <3>3
  <2>7. c <= d
    BY <2>4, <2>5, <2>6
  <2> QED
    BY <2>3, <2>7
<1> QED
  BY <1>1, <1>5, <1>6, <1>7

---------------------------------------------------------------------------
(* The inductive invariant. *)

Jobs == {NoJob} \cup DaemonJobs \cup ToolJobs

JobType ==
    \E j \in Jobs, count \in -1..HistSlots, newest \in 0..MaxStored :
        job = [op |-> j.op, req |-> j.req, ask |-> j.ask, writes |-> j.writes,
               count |-> count, newest |-> newest]

Types ==
    /\ line \in {"free", "daemon", "tool"}
    /\ pc \in {"idle", "reset", "read", "write", "done"}
    /\ after \in {"start", "retry", "write"}
    /\ JobType
    /\ cur \in Nat \ {0} /\ p \in Nat
    /\ k \in 0..MaxRetries - 1 /\ r \in 0..MaxResets - 1
    /\ images \in Seq(Images) /\ Epoch \in 1..MaxEpoch
    /\ stored \in 0..MaxStored
    /\ missed \subseteq DOMAIN job.writes
    /\ got \in Seq([dated : Int, record : SUBSET Int])

IdleInv == pc = "idle" => job = NoJob /\ got = << >> /\ missed = {}

Reading == job.op # "set" /\ pc \in {"reset", "read", "done"}

(* The stamp of an address in a state: the sensors' epoch and the records. *)
StampAt(a, e, s) ==
    IF a < SettingsAt THEN e
    ELSE IF a < SlotsAt THEN s
    ELSE s - ((s - 1 - ((a - SlotsAt) \div HistSize)) % HistSlots)

(* The nybbles of an exchange that begins at nybble q of area x come from  *)
(* one state of the console.                                               *)
ChunkRead(x, q) ==
    \E e \in 1..Epoch, s \in job.newest..stored :
        \A i \in q..q + MaxBlocks - 1 : i < plan.areas[x].nnyb =>
            /\ 2 * plan.areas[x].at + i \in DOMAIN data
            /\ data[2 * plan.areas[x].at + i] =
                 <<plan.areas[x].addr + i, StampAt(plan.areas[x].addr + i, e, s)>>

ReadSoFar ==
    \A x \in DOMAIN plan.areas, m \in Nat :
        x < cur \/ (x = cur /\ MaxBlocks * m < p) => ChunkRead(x, MaxBlocks * m)

PlanReady(plan_) ==
    /\ plan_.areas \in Seq(Areas) /\ plan_.areas # << >>
    /\ AreasType(plan_) /\ Apart(plan_)

ReadInv ==
    Reading =>
        /\ PlanReady(plan)
        /\ after \in {"start", "retry"}
        /\ pc # "done" => /\ cur \in DOMAIN plan.areas /\ p < plan.areas[cur].nnyb
                          /\ \E m \in Nat : p = MaxBlocks * m
        /\ pc = "done" => cur = Len(plan.areas) + 1
        /\ ReadSoFar

PlanInv ==
    Reading =>
        /\ job.op \in Batches => plan = Plan(job.req)
        /\ job.op \notin Batches \cup Histories => plan = PlanOf(FALSE, job.req)
        /\ job.op \in Histories =>
             IF job.count = -1 THEN plan = PlanOf(FALSE, HistoryRows)
             ELSE Len(got) < job.count => plan = PlanOf(FALSE, RecordRow(Len(got), job.newest))

HistInv ==
    /\ job.op \notin Histories \/ job.count = -1 =>
         got = << >> /\ job.newest = 0 /\ job.count = -1
    /\ job.op \in Histories /\ job.count # -1 =>
         /\ job.count \in 0..RecordCount(job.newest) /\ Len(got) <= job.count
         /\ job.newest <= stored
         /\ \A i \in DOMAIN got :
              /\ got[i].dated = job.newest - Len(got) + i
              /\ \/ got[i].record = {got[i].dated}
                 \/ \E n \in job.newest + 1..stored : got[i].record = {n}

IsWritten(n, i) ==
    LET a == job.writes[n].addr + i - 1
    IN  a \in DOMAIN mem /\ mem[a] = NybblesOf(job.writes[n])[i]

SetInv ==
    /\ job.op # "set" => pc # "write"
    /\ job.op = "set" =>
         /\ after = "write" /\ pc \in {"reset", "write", "done"}
         /\ pc # "done" => cur \in DOMAIN job.writes /\ p < job.writes[cur].nnyb
         /\ \A n \in DOMAIN job.writes \ missed : n < cur =>
              \A i \in 1..job.writes[n].nnyb : IsWritten(n, i)
         /\ pc # "done" => \A i \in 1..p : IsWritten(cur, i)
         /\ pc = "done" => cur = Len(job.writes) + 1
         /\ \A n \in missed : n < cur

IInv == Types /\ IdleInv /\ ReadInv /\ PlanInv /\ HistInv /\ SetInv

---------------------------------------------------------------------------
(* Jobs *)

IsRtRow(i, x, n) ==
    \/ i = 1 /\ x = 838 /\ n = 4
    \/ i = 2 /\ x = 883 /\ n = 4
    \/ i = 3 /\ x = 928 /\ n = 4
    \/ i = 4 /\ x = 974 /\ n = 4
    \/ i = 5 /\ x = 1019 /\ n = 2
    \/ i = 6 /\ x = 1049 /\ n = 2
    \/ i = 7 /\ x = 1234 /\ n = 6
    \/ i = 8 /\ x = 1319 /\ n = 1
    \/ i = 9 /\ x = 1320 /\ n = 1
    \/ i = 10 /\ x = 1321 /\ n = 3
    \/ i = 11 /\ x = 1324 /\ n = 1
    \/ i = 12 /\ x = 1357 /\ n = 1
    \/ i = 13 /\ x = 1506 /\ n = 5

(* The rows of the table of ws23xx_get_rt.                                 *)
LEMMA RtRows ==
  /\ DOMAIN RtTable = 1..13 /\ Len(RtTable) = 13 /\ RtTable \in Seq(Requests)
  /\ \A i \in 1..13 : \E x \in Nat, n \in Nat \ {0} :
       RtTable[i].addr = x /\ RtTable[i].nnyb = n /\ End(RtTable[i]) = x + n /\ IsRtRow(i, x, n)
PROOF
<1>1. DOMAIN RtTable = 1..13 /\ Len(RtTable) = 13
  BY DEF RtTable
<1>2. RtTable \in Seq(Requests)
  BY DEF RtTable, Row, Requests
<1>3. ASSUME NEW i \in 1..13
      PROVE  IsRtRow(i, RtTable[i].addr, RtTable[i].nnyb)
  BY DEF RtTable, Row, IsRtRow
<1>4. ASSUME NEW i \in 1..13
      PROVE  \E x \in Nat, n \in Nat \ {0} :
               RtTable[i].addr = x /\ RtTable[i].nnyb = n /\ End(RtTable[i]) = x + n /\ IsRtRow(i, x, n)
  <2>1. RtTable[i].addr \in Nat /\ RtTable[i].nnyb \in Nat \ {0}
    BY <1>1, <1>2, ReqType
  <2> QED
    BY <1>3, <2>1 DEF End
<1> QED
  BY <1>1, <1>2, <1>4

(* No field of the table is inside another one.                            *)
LEMMA RtNoneInside == NoneInside(RtTable)
PROOF
<1> SUFFICES ASSUME NEW i \in 1..13, NEW j \in 1..13, RtTable[i].addr <= RtTable[j].addr
             PROVE  End(RtTable[i]) <= End(RtTable[j])
  BY RtRows DEF NoneInside
<1>1. PICK x \in Nat, n \in Nat : RtTable[i].addr = x /\ End(RtTable[i]) = x + n /\ IsRtRow(i, x, n)
  BY RtRows
<1>2. PICK y \in Nat, m \in Nat : RtTable[j].addr = y /\ End(RtTable[j]) = y + m /\ IsRtRow(j, y, m)
  BY RtRows
<1>3. x <= y
  BY <1>1, <1>2
<1>4. x + n <= y + m
  BY <1>1, <1>2, <1>3 DEF IsRtRow
<1> QED
  BY <1>1, <1>2, <1>4

Writes == [addr : Nat, nnyb : Nat \ {0}, value : Int]

WritesOK(w) ==
    /\ w \in Seq(Writes) /\ w # << >>
    /\ \A m, n \in DOMAIN w : m # n =>
         \/ w[m].addr + w[m].nnyb <= w[n].addr
         \/ w[n].addr + w[n].nnyb <= w[m].addr

JobOK(j) ==
    /\ j = [op |-> j.op, req |-> j.req, ask |-> j.ask, writes |-> j.writes,
            count |-> -1, newest |-> 0]
    /\ j.op = "rt" => j.req = RtTable
    /\ j.op \in Batches => j.req \in Seq(Requests) /\ j.req # << >> /\ NoneInside(j.req)
    /\ j.op \in Histories => j.req = HistoryRows /\ j.ask \in Nat
    /\ j.op \in {"rt_timer", "ar_timer", "hex"} => \E q \in Requests : j.req = <<q>>
    /\ j.op \in Batches \cup Histories \cup {"rt_timer", "ar_timer", "hex", "set", "none"}
    /\ j.op # "set" => j.writes = << >>
    /\ j.op = "set" => WritesOK(j.writes)

LEMMA JobFields ==
  \A op, req, ask, writes :
    LET j == Job(op, req, ask, writes)
    IN  /\ j.op = op /\ j.req = req /\ j.ask = ask /\ j.writes = writes
        /\ j = [op |-> j.op, req |-> j.req, ask |-> j.ask, writes |-> j.writes,
                count |-> -1, newest |-> 0]
BY DEF Job

LEMMA RtReq == RtTable \in Seq(Requests) /\ RtTable # << >> /\ NoneInside(RtTable)
PROOF
<1>1. Len(RtTable) # 0
  BY RtRows
<1>2. RtTable # << >>
  BY <1>1
<1> QED
  BY <1>2, RtRows, RtNoneInside

(* What the calls of the driver and the tool have in common.               *)
LEMMA JobsOK ==
  /\ \A j \in Jobs : JobOK(j)
  /\ \A j \in DaemonJobs \cup ToolJobs : j.op # "none"
PROOF
<1> USE DEF Batches, Histories
<1>1. \A j \in RtJobs : JobOK(j) /\ j.op # "none"
  <2> SUFFICES ASSUME NEW j, j = Job("rt", RtTable, 0, << >>)
               PROVE  JobOK(j) /\ j.op # "none"
    BY DEF RtJobs
  <2>1. /\ j.op = "rt" /\ j.req = RtTable /\ j.ask = 0 /\ j.writes = << >>
        /\ j = [op |-> j.op, req |-> j.req, ask |-> j.ask, writes |-> j.writes,
                count |-> -1, newest |-> 0]
    BY JobFields
  <2> QED
    BY <2>1, RtReq DEF JobOK
<1>2. \A j \in RtTimerJobs : JobOK(j) /\ j.op # "none"
  <2>1. Row(1357, 4) \in Requests
    BY DEF Row, Requests, SettingsAt
  <2>2. ASSUME NEW q \in Requests, NEW j, j = Job("rt_timer", <<q>>, 0, << >>)
        PROVE  JobOK(j) /\ j.op # "none"
    <3>1. /\ j.op = "rt_timer" /\ j.req = <<q>> /\ j.ask = 0 /\ j.writes = << >>
          /\ j = [op |-> j.op, req |-> j.req, ask |-> j.ask, writes |-> j.writes,
                  count |-> -1, newest |-> 0]
      BY <2>2, JobFields
    <3> QED
      BY <3>1 DEF JobOK
  <2> QED
    BY <2>1, <2>2 DEF RtTimerJobs
<1>3. \A j \in ArTimerJobs : JobOK(j) /\ j.op # "none"
  <2>1. Row(SettingsAt, 16) \in Requests
    BY DEF Row, Requests, SettingsAt
  <2>2. ASSUME NEW q \in Requests, NEW j, j = Job("ar_timer", <<q>>, 0, << >>)
        PROVE  JobOK(j) /\ j.op # "none"
    <3>1. /\ j.op = "ar_timer" /\ j.req = <<q>> /\ j.ask = 0 /\ j.writes = << >>
          /\ j = [op |-> j.op, req |-> j.req, ask |-> j.ask, writes |-> j.writes,
                  count |-> -1, newest |-> 0]
      BY <2>2, JobFields
    <3> QED
      BY <3>1 DEF JobOK
  <2> QED
    BY <2>1, <2>2 DEF ArTimerJobs
<1>4. \A j \in ArJobs : JobOK(j) /\ j.op # "none"
  <2> SUFFICES ASSUME NEW n \in HistAsks \ {0}, NEW j, j = Job("ar", HistoryRows, n, << >>)
               PROVE  JobOK(j) /\ j.op # "none"
    BY DEF ArJobs
  <2>1. /\ j.op = "ar" /\ j.req = HistoryRows /\ j.ask = n /\ j.writes = << >>
        /\ j = [op |-> j.op, req |-> j.req, ask |-> j.ask, writes |-> j.writes,
                count |-> -1, newest |-> 0]
    BY JobFields
  <2> QED
    BY <2>1, CallsAssumption DEF JobOK
<1>5. \A j \in ArtimerJobs : JobOK(j) /\ j.op # "none"
  <2> SUFFICES ASSUME NEW t \in {u \in ArTimers : GoodArtimer(u)}, NEW j, j = Job("set", << >>, 0, SetArtimer(t))
               PROVE  JobOK(j) /\ j.op # "none"
    BY DEF ArtimerJobs
  <2>1. /\ j.op = "set" /\ j.req = << >> /\ j.ask = 0 /\ j.writes = SetArtimer(t)
        /\ j = [op |-> j.op, req |-> j.req, ask |-> j.ask, writes |-> j.writes,
                count |-> -1, newest |-> 0]
    BY JobFields
  <2>2. WritesOK(SetArtimer(t))
    <3>1. t.itmin \in Int /\ t.next \in Int
      BY CallsAssumption
    <3>2. PICK v \in Int : v = t.itmin - 1 + 4096 * (IF t.next >= 1 THEN t.next - 1 ELSE 0)
      BY <3>1
    <3>3. SetArtimer(t) = <<[addr |-> 1714, nnyb |-> 6, value |-> v],
                            [addr |-> 1732, nnyb |-> 2, value |-> 0]>>
      BY <3>2 DEF SetArtimer, SettingsAt, SlotsAt
    <3>4. [addr |-> 1714, nnyb |-> 6, value |-> v] \in Writes
          /\ [addr |-> 1732, nnyb |-> 2, value |-> 0] \in Writes
      BY DEF Writes
    <3> QED
      BY <3>3, <3>4 DEF WritesOK
  <2> QED
    BY <2>1, <2>2 DEF JobOK
<1>6. \A j \in FetchJobs : JobOK(j) /\ j.op # "none"
  <2> SUFFICES ASSUME NEW req \in ToolReads, NEW j, j = Job("fetch", req, 0, << >>)
               PROVE  JobOK(j) /\ j.op # "none"
    BY DEF FetchJobs
  <2>1. /\ j.op = "fetch" /\ j.req = req /\ j.ask = 0 /\ j.writes = << >>
        /\ j = [op |-> j.op, req |-> j.req, ask |-> j.ask, writes |-> j.writes,
                count |-> -1, newest |-> 0]
    BY JobFields
  <2> QED
    BY <2>1, CallsAssumption DEF JobOK
<1>7. \A j \in HexJobs : JobOK(j) /\ j.op # "none"
  <2> SUFFICES ASSUME NEW q \in HexReads, NEW j, j = Job("hex", <<q>>, 0, << >>)
               PROVE  JobOK(j) /\ j.op # "none"
    BY DEF HexJobs
  <2>1. /\ j.op = "hex" /\ j.req = <<q>> /\ j.ask = 0 /\ j.writes = << >>
        /\ j = [op |-> j.op, req |-> j.req, ask |-> j.ask, writes |-> j.writes,
                count |-> -1, newest |-> 0]
    BY JobFields
  <2> QED
    BY <2>1, CallsAssumption DEF JobOK
<1>8. \A j \in HistoryJobs : JobOK(j) /\ j.op # "none"
  <2> SUFFICES ASSUME NEW n \in HistAsks, NEW j, j = Job("history", HistoryRows, n, << >>)
               PROVE  JobOK(j) /\ j.op # "none"
    BY DEF HistoryJobs
  <2>1. /\ j.op = "history" /\ j.req = HistoryRows /\ j.ask = n /\ j.writes = << >>
        /\ j = [op |-> j.op, req |-> j.req, ask |-> j.ask, writes |-> j.writes,
                count |-> -1, newest |-> 0]
    BY JobFields
  <2> QED
    BY <2>1, CallsAssumption DEF JobOK
<1>9. \A j \in SetJobs : JobOK(j) /\ j.op # "none"
  <2> SUFFICES ASSUME NEW w \in Sets, NEW j, j = Job("set", << >>, 0, <<w>>)
               PROVE  JobOK(j) /\ j.op # "none"
    BY DEF SetJobs
  <2>1. /\ j.op = "set" /\ j.req = << >> /\ j.ask = 0 /\ j.writes = <<w>>
        /\ j = [op |-> j.op, req |-> j.req, ask |-> j.ask, writes |-> j.writes,
                count |-> -1, newest |-> 0]
    BY JobFields
  <2>2. WritesOK(<<w>>)
    <3>1. w \in Writes
      BY CallsAssumption DEF Writes
    <3> QED
      BY <3>1 DEF WritesOK
  <2> QED
    BY <2>1, <2>2 DEF JobOK
<1>10. JobOK(NoJob)
  BY DEF NoJob, JobOK, Job
<1> QED
  BY <1>1, <1>2, <1>3, <1>4, <1>5, <1>6, <1>7, <1>8, <1>9, <1>10
     DEF Jobs, DaemonJobs, ToolJobs

LEMMA JobIs ==
  ASSUME JobType
  PROVE  /\ job = [op |-> job.op, req |-> job.req, ask |-> job.ask, writes |-> job.writes,
                   count |-> job.count, newest |-> job.newest]
         /\ job.count \in -1..HistSlots /\ job.newest \in 0..MaxStored
         /\ job.op = "rt" => job.req = RtTable
         /\ job.op \in Batches => job.req \in Seq(Requests) /\ job.req # << >> /\ NoneInside(job.req)
         /\ job.op \in Histories => job.req = HistoryRows /\ job.ask \in Nat
         /\ job.op \in {"rt_timer", "ar_timer", "hex"} => \E q \in Requests : job.req = <<q>>
         /\ job.op \in Batches \cup Histories \cup {"rt_timer", "ar_timer", "hex", "set", "none"}
         /\ job.op # "set" => job.writes = << >>
         /\ job.op = "set" => WritesOK(job.writes)
PROOF
<1>1. PICK j \in Jobs, c \in -1..HistSlots, n \in 0..MaxStored :
        job = [op |-> j.op, req |-> j.req, ask |-> j.ask, writes |-> j.writes, count |-> c, newest |-> n]
  BY DEF JobType
<1>2. JobOK(j)
  BY JobsOK
<1>3. job.op = j.op /\ job.req = j.req /\ job.ask = j.ask /\ job.writes = j.writes
      /\ job.count = c /\ job.newest = n
  BY <1>1
<1> QED
  BY <1>1, <1>2, <1>3 DEF JobOK

---------------------------------------------------------------------------
(* The history's slots *)

LEMMA DivMod ==
  ASSUME NEW a \in Int, NEW h \in Int, h > 0
  PROVE  \E z \in Int, w \in 0..h - 1 : a % h = w /\ a = h * z + w
PROOF
<1>1. a % h \in 0..h - 1
  OBVIOUS
<1>2. a \div h \in Int /\ a = h * (a \div h) + (a % h)
  BY SMT
<1> QED
  BY <1>1, <1>2

LEMMA SameResidue ==
  ASSUME NEW h \in Int, h > 0, NEW y \in Int, NEW z \in Int,
         h * (y - z) < h, 0 - h < h * (y - z)
  PROVE  y = z
PROOF
<1>1. \A w \in Int : h * w < h /\ 0 - h < h * w => w = 0
  OBVIOUS
<1>2. y - z = 0
  BY <1>1
<1> QED
  BY <1>2

LEMMA HistType == HistSlots \in Nat \ {0} /\ MaxStored \in Nat \ {0} /\ MaxEpoch \in Nat \ {0}
                  /\ MaxRetries \in Nat \ {0} /\ MaxResets \in Nat \ {0}
BY Ws23xxAssumption

(* The slot of the i-th record back from the n-th.                         *)
LEMMA RecordSlot ==
  ASSUME NEW n \in Nat, NEW i \in Nat, i < RecordCount(n)
  PROVE  \E slot \in 0..HistSlots - 1, z \in Int :
           /\ hist_addr(i, LastSlot(n), RecordCount(n)) = SlotsAt + HistSize * slot
           /\ n - 1 - i = HistSlots * z + slot
PROOF
<1>1. PICK h \in Int : h = HistSlots /\ h > 0
  BY HistType
<1>2. PICK count \in Nat : count = RecordCount(n) /\ count <= n /\ count <= h
                           /\ (n < h => count = n) /\ (~(n < h) => count = h)
  BY <1>1 DEF RecordCount
<1>3. PICK z \in Int, w \in 0..h - 1 : (n - 1) % h = w /\ n - 1 = h * z + w
  BY <1>1, DivMod
<1>4. LastSlot(n) = w
  BY <1>1, <1>3 DEF LastSlot
<1>5. hist_addr(i, w, count) = SlotsAt + HistSize * (IF i <= w THEN w - i ELSE count - (i - w))
  BY DEF hist_addr
<1>6. i < count
  BY <1>2
<1>7. CASE i <= w
  <2>1. w - i \in 0..h - 1 /\ n - 1 - i = h * z + (w - i)
    BY <1>1, <1>3, <1>7
  <2> QED
    BY <1>1, <1>2, <1>4, <1>5, <1>7, <2>1
<1>8. CASE w < i
  <2>1. count = h
    <3> SUFFICES ASSUME n < h
                 PROVE  FALSE
      BY <1>2
    <3>1. n - 1 < h /\ 0 <= n - 1
      BY <1>2, <1>6
    <3>2. z = 0
      <4>1. h * (z - 0) < h /\ 0 - h < h * (z - 0)
        BY <1>1, <1>3, <3>1
      <4> QED
        BY <1>1, <4>1, SameResidue
    <3>3. w = n - 1
      BY <1>3, <3>2
    <3> QED
      BY <1>2, <1>6, <1>8, <3>3
  <2>2. h - (i - w) \in 0..h - 1 /\ n - 1 - i = h * (z - 1) + (h - (i - w)) /\ z - 1 \in Int
    BY <1>1, <1>2, <1>3, <1>6, <1>8
  <2>3. hist_addr(i, w, count) = SlotsAt + HistSize * (h - (i - w))
    BY <1>5, <1>8, <2>1
  <2> QED
    BY <1>1, <1>2, <1>4, <2>2, <2>3
<1> QED
  BY <1>3, <1>7, <1>8

(* What the slot holds when it is read: that record, or one stored since.  *)
LEMMA RecordThere ==
  ASSUME NEW n \in Nat, NEW i \in Nat, i < RecordCount(n),
         NEW slot \in 0..HistSlots - 1, NEW z \in Int, n - 1 - i = HistSlots * z + slot,
         NEW s \in Nat, n <= s
  PROVE  LET v == s - ((s - 1 - slot) % HistSlots)
         IN  v = n - i \/ v \in n + 1..s
PROOF
<1>1. PICK h \in Int : h = HistSlots /\ h > 0
  BY HistType
<1>2. i < h
  BY <1>1 DEF RecordCount
<1>3. PICK y \in Int, w \in 0..h - 1 : (s - 1 - slot) % h = w /\ s - 1 - slot = h * y + w
  <2>1. s - 1 - slot \in Int
    BY <1>1
  <2> QED
    BY <1>1, <2>1, DivMod
<1>4. PICK v \in Int : v = s - w
  BY <1>3
<1>5. v <= n => v = n - i
  <2> SUFFICES ASSUME v <= n
               PROVE  v = n - i
    OBVIOUS
  <2>1. n - 1 - i = h * z + slot
    BY <1>1
  <2>2. PICK a \in Int, b \in Int : a = h * y /\ b = h * z
    BY <1>1
  <2>3. slot \in Int /\ v = a + slot + 1 /\ n - i = b + slot + 1
    BY <1>1, <1>3, <1>4, <2>1, <2>2
  <2>4. a - b < h /\ 0 - h < a - b
    BY <1>1, <1>2, <1>3, <1>4, <2>3
  <2>5. h * (y - z) = a - b
    BY <1>1, <2>2
  <2>6. y = z
    BY <1>1, <2>4, <2>5, SameResidue
  <2> QED
    BY <2>2, <2>3, <2>6
<1>6. s - ((s - 1 - slot) % HistSlots) = v
  BY <1>1, <1>3, <1>4
<1>7. v <= s
  BY <1>3, <1>4
<1> QED
  BY <1>5, <1>6, <1>7

---------------------------------------------------------------------------
(* Reading *)

LEMMA PlanReadyType ==
  ASSUME NEW pl, PlanReady(pl)
  PROVE  /\ DOMAIN pl.areas = 1..Len(pl.areas) /\ Len(pl.areas) \in Nat \ {0}
         /\ \A x \in DOMAIN pl.areas :
              /\ pl.areas[x].addr \in Nat /\ pl.areas[x].nnyb \in Nat \ {0}
              /\ pl.areas[x].at \in Nat
PROOF
<1>1. pl.areas \in Seq(Areas) /\ pl.areas # << >> /\ AreasType(pl)
  BY DEF PlanReady
<1>2. DOMAIN pl.areas = 1..Len(pl.areas) /\ Len(pl.areas) \in Nat \ {0}
  BY <1>1
<1>3. ASSUME NEW x \in DOMAIN pl.areas
      PROVE  pl.areas[x].addr \in Nat
  <2>1. pl.areas[x] \in Areas
    BY <1>1
  <2> QED
    BY <2>1 DEF Areas
<1> QED
  BY <1>1, <1>2, <1>3 DEF AreasType

LEMMA BytesOf ==
  /\ \A m \in Nat : Bytes(MaxBlocks * m) \in Nat /\ 2 * Bytes(MaxBlocks * m) = MaxBlocks * m
  /\ \A n \in Nat : Bytes(n) \in Nat /\ (2 * Bytes(n) = n \/ 2 * Bytes(n) = n + 1)
BY DEF Bytes, MaxBlocks

(* What is read already lies before the cells of the exchange under way.   *)
LEMMA EarlierCells ==
  ASSUME PlanReady(plan), cur \in DOMAIN plan.areas,
         NEW m \in Nat, p = MaxBlocks * m, p < plan.areas[cur].nnyb,
         NEW x \in DOMAIN plan.areas, NEW j \in Nat,
         x < cur \/ (x = cur /\ MaxBlocks * j < p),
         NEW i \in Int, i < MaxBlocks * j + MaxBlocks, i < plan.areas[x].nnyb
  PROVE  2 * plan.areas[x].at + i < First
PROOF
<1>1. PICK at \in Nat, n \in Nat : at = plan.areas[cur].at /\ n = plan.areas[cur].nnyb
  BY PlanReadyType
<1>2. PICK xat \in Nat, xn \in Nat : xat = plan.areas[x].at /\ xn = plan.areas[x].nnyb
  BY PlanReadyType
<1>3. First = 2 * at + MaxBlocks * m
  <2>1. PICK b \in Nat : b = Bytes(p) /\ 2 * b = MaxBlocks * m
    <3>1. Bytes(MaxBlocks * m) \in Nat /\ 2 * Bytes(MaxBlocks * m) = MaxBlocks * m
      BY BytesOf, Zenon
    <3>2. Bytes(p) = Bytes(MaxBlocks * m)
      OBVIOUS
    <3> QED
      BY <3>1, <3>2
  <2>2. First = 2 * (at + b)
    BY <1>1, <2>1 DEF First, Area
  <2> QED
    BY <2>1, <2>2
<1>4. CASE x < cur
  <2>1. xat + Bytes(xn) <= at
    BY <1>1, <1>2, <1>4 DEF PlanReady, Apart
  <2>2. PICK b \in Nat : b = Bytes(xn) /\ xn <= 2 * b
    <3>1. Bytes(xn) \in Nat /\ (2 * Bytes(xn) = xn \/ 2 * Bytes(xn) = xn + 1)
      BY BytesOf, Zenon
    <3>2. PICK b \in Nat : b = Bytes(xn)
      BY <3>1
    <3>3. 2 * b = xn \/ 2 * b = xn + 1
      BY <3>1, <3>2
    <3> QED
      BY <3>2, <3>3
  <2>3. xat + b <= at /\ i < xn
    BY <1>2, <2>1, <2>2
  <2>4. 2 * xat + i < 2 * at + MaxBlocks * m
    BY <2>2, <2>3 DEF MaxBlocks
  <2> QED
    BY <1>2, <1>3, <2>4
<1>5. CASE x = cur /\ MaxBlocks * j < p
  <2>1. xat = at
    BY <1>1, <1>2, <1>5
  <2>2. MaxBlocks * j < MaxBlocks * m
    BY <1>5
  <2>3. i < MaxBlocks * m
    BY <2>2 DEF MaxBlocks
  <2>4. 2 * xat + i < 2 * at + MaxBlocks * m
    BY <2>1, <2>3 DEF MaxBlocks
  <2> QED
    BY <1>2, <1>3, <2>4
<1> QED
  BY <1>4, <1>5

(* What an exchange has read stays so while nothing is written over it.    *)
LEMMA ChunkKept ==
  ASSUME NEW x, NEW q \in Int, plan' = plan, job'.newest = job.newest,
         Epoch \in Int, Epoch' \in Int, Epoch <= Epoch',
         stored \in Int, stored' \in Int, stored <= stored', job.newest \in Int,
         \A i \in q..q + MaxBlocks - 1 :
           i < plan.areas[x].nnyb /\ 2 * plan.areas[x].at + i \in DOMAIN data =>
             /\ 2 * plan.areas[x].at + i \in DOMAIN data'
             /\ data'[2 * plan.areas[x].at + i] = data[2 * plan.areas[x].at + i],
         ChunkRead(x, q)
  PROVE  ChunkRead(x, q)'
PROOF
<1>1. PICK e \in 1..Epoch, s \in job.newest..stored :
        \A i \in q..q + MaxBlocks - 1 : i < plan.areas[x].nnyb =>
            /\ 2 * plan.areas[x].at + i \in DOMAIN data
            /\ data[2 * plan.areas[x].at + i] =
                 <<plan.areas[x].addr + i, StampAt(plan.areas[x].addr + i, e, s)>>
  BY DEF ChunkRead
<1>2. e \in 1..Epoch' /\ s \in job'.newest..stored'
  BY <1>1
<1>3. \A i \in q..q + MaxBlocks - 1 : i < plan'.areas[x].nnyb =>
            /\ 2 * plan'.areas[x].at + i \in DOMAIN data'
            /\ data'[2 * plan'.areas[x].at + i] =
                 <<plan'.areas[x].addr + i, StampAt(plan'.areas[x].addr + i, e, s)>>
  BY <1>1
<1>4. StampAt(1, e, s)' = StampAt(1, e, s)
  BY DEF StampAt
<1> QED
  BY <1>2, <1>3, Zenon DEF ChunkRead

LEMMA ReadKept ==
  ASSUME plan' = plan, cur' = cur, p' = p, data' = data, job'.newest = job.newest,
         Epoch \in Int, Epoch' \in Int, Epoch <= Epoch',
         stored \in Int, stored' \in Int, stored <= stored', job.newest \in Int,
         ReadSoFar
  PROVE  ReadSoFar'
PROOF
<1> SUFFICES ASSUME NEW x \in DOMAIN plan.areas, NEW m \in Nat,
                    x < cur \/ (x = cur /\ MaxBlocks * m < p)
             PROVE  ChunkRead(x, MaxBlocks * m)'
  BY DEF ReadSoFar
<1>1. ChunkRead(x, MaxBlocks * m)
  BY DEF ReadSoFar
<1>2. MaxBlocks * m \in Int
  BY DEF MaxBlocks
<1> QED
  BY <1>1, <1>2, ChunkKept

LEMMA OneArea ==
  ASSUME NEW A \in Areas, A.nnyb \in Nat \ {0}, A.at \in Nat, NEW pl, pl.areas = <<A>>
  PROVE  PlanReady(pl)
PROOF
<1>1. <<A>> \in Seq(Areas) /\ <<A>> # << >>
  OBVIOUS
<1>2. \A x \in DOMAIN pl.areas : x = 1 /\ pl.areas[x] = A
  OBVIOUS
<1> QED
  BY <1>1, <1>2 DEF PlanReady, AreasType, Apart

(* A row is read as an area of its own. *)
LEMMA RowReady ==
  ASSUME NEW q \in Requests
  PROVE  PlanReady(PlanOf(FALSE, <<q>>))
PROOF
<1>1. q.addr \in Nat /\ q.nnyb \in Nat \ {0}
  BY DEF Requests
<1>2. PlanOf(FALSE, <<q>>).areas = <<[addr |-> q.addr, nnyb |-> q.nnyb, at |-> 0]>>
  BY DEF PlanOf
<1>3. [addr |-> q.addr, nnyb |-> q.nnyb, at |-> 0] \in Areas
  BY <1>1 DEF Areas
<1>4. PICK A \in Areas : A = [addr |-> q.addr, nnyb |-> q.nnyb, at |-> 0]
  BY <1>3
<1>5. PlanOf(FALSE, <<q>>).areas = <<A>> /\ A.nnyb \in Nat \ {0} /\ A.at \in Nat
  BY <1>1, <1>2, <1>4
<1> QED
  BY <1>5, OneArea

(* A batch is read by the areas of its plan.                               *)
LEMMA BatchReady ==
  ASSUME NEW req \in Seq(Requests), req # << >>, NoneInside(req)
  PROVE  PlanReady(PlanOf(TRUE, req))
PROOF
<1>1. PlanOf(TRUE, req) = Plan(req)
  BY DEF PlanOf
<1>2. /\ Plan(req) \in PlanStates(req)
      /\ Good(req, Plan(req), Reach(req, Len(req)))
      /\ \A j \in DOMAIN req : req[j].addr <= Reach(req, Len(req))
  BY PlanGood
<1>3. Plan(req).areas \in Seq(Areas) /\ AreasType(Plan(req)) /\ Apart(Plan(req))
  BY <1>2 DEF PlanStates, Good
<1>4. PICK x \in DOMAIN Plan(req).areas : Holds(req, Plan(req), 1, x)
  <2>1. 1 \in DOMAIN req
    OBVIOUS
  <2> QED
    BY <1>2, <2>1 DEF Good, Placed
<1>5. Plan(req).areas # << >>
  BY <1>4
<1> QED
  BY <1>1, <1>3, <1>5 DEF PlanReady

---------------------------------------------------------------------------
(* Steps *)

LEMMA Numbers ==
  ASSUME Types
  PROVE  /\ Epoch \in Int /\ Epoch >= 1 /\ stored \in Int /\ stored >= 0
         /\ job.newest \in Int /\ job.newest >= 0
PROOF
<1>1. job.newest \in 0..MaxStored
  BY JobIs DEF Types
<1>2. Epoch \in 1..MaxEpoch /\ stored \in 0..MaxStored
  BY DEF Types
<1> QED
  BY <1>1, <1>2, HistType

LEMMA NewestStored ==
  ASSUME Types, HistInv
  PROVE  job.newest <= stored
BY Numbers, HistType DEF HistInv

(* The call is where it was: someone opens or closes the device, or the    *)
(* console goes on.                                                        *)
LEMMA LinkKept ==
  ASSUME IInv, UNCHANGED link, pc = "idle" \/ Epoch <= Epoch',
         (images \in Seq(Images) /\ Epoch \in 1..MaxEpoch)',
         (stored \in 0..MaxStored)', stored <= stored',
         (line \in {"free", "daemon", "tool"})'
  PROVE  IInv'
PROOF
<1>1. /\ pc' = pc /\ job' = job /\ after' = after /\ plan' = plan /\ cur' = cur /\ p' = p
      /\ k' = k /\ r' = r /\ data' = data /\ got' = got /\ missed' = missed /\ mem' = mem
  BY DEF link
<1>2. Types'
  <2>1. JobType'
    BY <1>1 DEF IInv, Types, JobType
  <2> QED
    BY <1>1, <2>1 DEF IInv, Types
<1>3. IdleInv' /\ PlanInv'
  BY <1>1 DEF IInv, IdleInv, PlanInv, Reading
<1>4. ReadInv'
  <2>1. CASE ~Reading
    BY <1>1, <2>1 DEF ReadInv, Reading
  <2>2. CASE Reading
    <3>1. Epoch <= Epoch'
      BY <2>2 DEF Reading
    <3>2. ReadSoFar
      BY <2>2 DEF IInv, ReadInv
    <3>3. Epoch' \in Int /\ stored' \in Int
      BY HistType
    <3>4. Types
      BY DEF IInv
    <3>5. ReadSoFar'
      BY <1>1, <3>1, <3>2, <3>3, <3>4, Numbers, ReadKept
    <3> QED
      BY <1>1, <2>2, <3>5 DEF IInv, ReadInv, Reading
  <2> QED
    BY <2>1, <2>2
<1>5. HistInv'
  <2>1. Types /\ HistInv
    BY DEF IInv
  <2>2. PICK s \in Int, t \in Int : s = stored /\ t = stored' /\ s <= t
    BY <2>1, Numbers, HistType
  <2>3. PICK newest \in Int : newest = job.newest
    BY <2>1, Numbers
  <2>4. \A n \in newest + 1..s : n \in newest + 1..t
    BY <2>2
  <2>5. newest <= s => newest <= t
    BY <2>2
  <2> QED
    BY <1>1, <2>1, <2>2, <2>3, <2>4, <2>5 DEF HistInv
<1>6. SetInv'
  BY <1>1 DEF IInv, SetInv, IsWritten
<1> QED
  BY <1>2, <1>3, <1>4, <1>5, <1>6 DEF IInv

(* The device is opened or closed.                                         *)
LEMMA LineStep ==
  ASSUME IInv, Opens("daemon") \/ Opens("tool") \/ Closes \/ UNCHANGED vars
  PROVE  IInv'
PROOF
<1>1. /\ UNCHANGED link /\ images' = images /\ stored' = stored
      /\ line' \in {"free", "daemon", "tool"}
  BY DEF Opens, Closes, vars, console, IInv, Types
<1>2. Types
  BY DEF IInv
<1>3. Epoch \in Int /\ stored \in Int /\ Epoch' = Epoch
  BY <1>1, <1>2, Numbers DEF Epoch
<1>4. Epoch <= Epoch' /\ stored <= stored'
  BY <1>1, <1>3
<1>5. (images \in Seq(Images) /\ Epoch \in 1..MaxEpoch)' /\ (stored \in 0..MaxStored)'
  BY <1>1, <1>2, <1>3 DEF Types
<1> QED
  BY <1>1, <1>4, <1>5, LinkKept

(* The sensors' readings change.                                           *)
LEMMA RefreshStep ==
  ASSUME IInv, Refresh
  PROVE  IInv'
PROOF
<1>1. /\ Epoch < MaxEpoch /\ UNCHANGED link /\ line' = line /\ stored' = stored
  BY DEF Refresh
<1>2. PICK image \in Images : images' = IF pc = "idle" THEN <<image>> ELSE Append(images, image)
  BY DEF Refresh
<1>3. Types
  BY DEF IInv
<1>4. images \in Seq(Images) /\ Len(images) \in 1..MaxEpoch
  BY <1>3 DEF Types, Epoch
<1>5. images' \in Seq(Images)
  BY <1>2, <1>4
<1>6. Len(images') = IF pc = "idle" THEN 1 ELSE Len(images) + 1
  BY <1>2, <1>4
<1>7. PICK n \in Int : n = Len(images) /\ 1 <= n /\ n < MaxEpoch
  BY <1>1, <1>4, HistType DEF Epoch
<1>8. Len(images') \in 1..MaxEpoch /\ (pc = "idle" \/ Len(images) <= Len(images'))
  BY <1>6, <1>7, HistType
<1>9. Epoch' = Len(images') /\ Epoch = Len(images)
  BY DEF Epoch
<1>10. (images \in Seq(Images) /\ Epoch \in 1..MaxEpoch)' /\ (pc = "idle" \/ Epoch <= Epoch')
  BY <1>5, <1>8, <1>9
<1>11. (stored \in 0..MaxStored)' /\ stored <= stored' /\ line' \in {"free", "daemon", "tool"}
  BY <1>1, <1>3, Numbers DEF Types
<1> QED
  BY <1>1, <1>10, <1>11, LinkKept

(* The console stores a record.                                            *)
LEMMA StoreStep ==
  ASSUME IInv, Store
  PROVE  IInv'
PROOF
<1>1. stored < MaxStored /\ stored' = stored + 1 /\ UNCHANGED link /\ line' = line /\ images' = images
  BY DEF Store
<1>2. Types
  BY DEF IInv
<1>3. Epoch \in Int /\ Epoch' = Epoch
  BY <1>1, <1>2, Numbers DEF Epoch
<1>4. (images \in Seq(Images) /\ Epoch \in 1..MaxEpoch)' /\ Epoch <= Epoch'
  BY <1>1, <1>2, <1>3 DEF Types
<1>5. (stored \in 0..MaxStored)' /\ stored <= stored'
  BY <1>1, <1>2, Numbers, HistType
<1>6. line' \in {"free", "daemon", "tool"}
  BY <1>1, <1>2 DEF Types
<1> QED
  BY <1>1, <1>4, <1>5, <1>6, LinkKept

(* A call ends, and leaves nothing of it.                                  *)
LEMMA RestStep ==
  ASSUME IInv, Rest
  PROVE  IInv'
PROOF
<1>1. /\ pc' = "idle" /\ job' = NoJob /\ after' = "start"
      /\ cur' = 1 /\ p' = 0 /\ k' = 0 /\ r' = 0
      /\ got' = << >> /\ missed' = {}
      /\ images' = <<Last(images)>> /\ stored' = stored
      /\ line' = IF line = "tool" THEN "free" ELSE line
  BY DEF Rest
<1>2. NoJob.op = "none" /\ NoJob.count = -1 /\ NoJob.newest = 0
      /\ NoJob = [op |-> NoJob.op, req |-> NoJob.req, ask |-> NoJob.ask,
                  writes |-> NoJob.writes, count |-> -1, newest |-> 0]
  BY DEF NoJob, Job
<1>3. Types'
  <2>1. JobType'
    <3>1. NoJob \in Jobs /\ -1 \in -1..HistSlots /\ 0 \in 0..MaxStored
      BY HistType DEF Jobs
    <3> QED
      BY <1>1, <1>2, <3>1 DEF JobType
  <2>2. (images \in Seq(Images) /\ Epoch \in 1..MaxEpoch)'
    <3>1. images \in Seq(Images) /\ Len(images) \in 1..MaxEpoch
      BY DEF IInv, Types, Epoch
    <3>2. Last(images) \in Images
      BY <3>1, HistType DEF Last
    <3>3. PICK image \in Images : image = Last(images)
      BY <3>2
    <3>4. images' \in Seq(Images) /\ Len(images') = 1
      BY <1>1, <3>3
    <3> QED
      BY <3>4, HistType DEF Epoch
  <2>3. (k \in 0..MaxRetries - 1 /\ r \in 0..MaxResets - 1)'
    BY <1>1, HistType
  <2>4. (cur \in Nat \ {0} /\ p \in Nat)' /\ (stored \in 0..MaxStored)'
    BY <1>1 DEF IInv, Types
  <2>5. (line \in {"free", "daemon", "tool"})'
    BY <1>1 DEF IInv, Types
  <2>6. (missed \subseteq DOMAIN job.writes /\ got \in Seq([dated : Int, record : SUBSET Int]))'
    BY <1>1
  <2> QED
    BY <1>1, <2>1, <2>2, <2>3, <2>4, <2>5, <2>6 DEF Types
<1>4. IdleInv'
  BY <1>1 DEF IdleInv
<1>5. ReadInv' /\ PlanInv'
  BY <1>1 DEF ReadInv, PlanInv, Reading
<1>6. HistInv'
  BY <1>1, <1>2 DEF HistInv
<1>7. SetInv'
  BY <1>1, <1>2 DEF SetInv
<1> QED
  BY <1>3, <1>4, <1>5, <1>6, <1>7 DEF IInv

(* An exchange is to begin, of areas not yet read.                         *)
LEMMA FreshRead ==
  ASSUME NEW pl, PlanReady(pl), plan' = pl, pc' = "reset", after' = "start", cur' = 1, p' = 0
  PROVE  ReadInv'
PROOF
<1>1. PlanReady(plan)'
  BY DEF PlanReady, AreasType, Apart
<1>2. (cur \in DOMAIN plan.areas /\ p < plan.areas[cur].nnyb /\ \E m \in Nat : p = MaxBlocks * m)'
  <2>1. 1 \in DOMAIN pl.areas /\ pl.areas[1].nnyb \in Nat \ {0}
    BY PlanReadyType
  <2>2. 0 < pl.areas[1].nnyb
    BY <2>1
  <2>3. 0 \in Nat /\ 0 = MaxBlocks * 0
    BY DEF MaxBlocks
  <2> QED
    BY <2>1, <2>2, <2>3
<1>3. ReadSoFar'
  <2> SUFFICES ASSUME NEW x \in DOMAIN pl.areas, NEW m \in Nat,
                      x < 1 \/ (x = 1 /\ MaxBlocks * m < 0)
               PROVE  FALSE
    BY DEF ReadSoFar
  <2>1. x \in Nat \ {0}
    BY PlanReadyType
  <2>2. ~(MaxBlocks * m < 0)
    BY DEF MaxBlocks
  <2>3. ~(x < 1)
    BY <2>1
  <2> QED
    BY <2>2, <2>3
<1> QED
  BY <1>1, <1>2, <1>3 DEF ReadInv

(* A call begins.                                                          *)
LEMMA CallStep ==
  ASSUME IInv, NEW j \in DaemonJobs \cup ToolJobs, Call(j)
  PROVE  IInv'
PROOF
<1>1. /\ pc = "idle" /\ job' = j /\ got' = got /\ missed' = missed /\ mem' = mem
      /\ Prepare(IF j.op = "set" THEN "write" ELSE "start", j.op \in Batches, j.req)
      /\ line' = line /\ images' = images /\ stored' = stored
  BY DEF Call, console
<1>2. /\ pc' = "reset" /\ after' = IF j.op = "set" THEN "write" ELSE "start"
      /\ plan' = PlanOf(j.op \in Batches, j.req)
      /\ cur' = 1 /\ p' = 0 /\ k' = 0 /\ r' = 0
  BY <1>1 DEF Prepare
<1>3. got = << >> /\ missed = {}
  BY <1>1 DEF IInv, IdleInv
<1>4. JobOK(j) /\ j.op # "none" /\ j \in Jobs
  BY JobsOK DEF Jobs
<1>5. j.count = -1 /\ j.newest = 0
  BY <1>4 DEF JobOK
<1>6. Types'
  <2>1. JobType'
    <3>1. -1 \in -1..HistSlots /\ 0 \in 0..MaxStored
      BY HistType
    <3>2. job' = [op |-> j.op, req |-> j.req, ask |-> j.ask, writes |-> j.writes,
                  count |-> -1, newest |-> 0]
      BY <1>1, <1>4 DEF JobOK
    <3> QED
      BY <1>4, <3>1, <3>2 DEF JobType
  <2>2. (k \in 0..MaxRetries - 1 /\ r \in 0..MaxResets - 1)'
    BY <1>2, HistType
  <2>3. (missed \subseteq DOMAIN job.writes /\ got \in Seq([dated : Int, record : SUBSET Int]))'
    BY <1>1, <1>3
  <2>4. Epoch' = Epoch
    BY <1>1 DEF Epoch
  <2>5. /\ (line \in {"free", "daemon", "tool"})' /\ (stored \in 0..MaxStored)'
        /\ (images \in Seq(Images) /\ Epoch \in 1..MaxEpoch)'
    BY <1>1, <2>4 DEF IInv, Types
  <2>6. pc' \in {"idle", "reset", "read", "write", "done"} /\ after' \in {"start", "retry", "write"}
        /\ cur' \in Nat \ {0} /\ p' \in Nat
    BY <1>2
  <2> QED
    BY <2>1, <2>2, <2>3, <2>5, <2>6 DEF Types
<1>7. IdleInv'
  BY <1>2 DEF IdleInv
<1>8. ReadInv'
  <2> SUFFICES ASSUME j.op # "set"
               PROVE  ReadInv'
    BY <1>1 DEF ReadInv, Reading
  <2>1. PlanReady(PlanOf(j.op \in Batches, j.req))
    <3>1. CASE j.op \in Batches
      <4>1. PlanReady(PlanOf(TRUE, j.req))
        BY <1>4, <3>1, BatchReady DEF JobOK
      <4> QED
        BY <3>1, <4>1 DEF PlanOf
    <3>2. CASE j.op \notin Batches
      <4>1. PICK q \in Requests : j.req = <<q>>
        <5>1. Row(SettingsAt, 20) \in Requests
          BY DEF Row, Requests, SettingsAt
        <5>2. j.op \in Histories => j.req = <<Row(SettingsAt, 20)>>
          BY <1>4 DEF JobOK, HistoryRows
        <5>3. j.op \notin Histories => \E q \in Requests : j.req = <<q>>
          BY <1>4, <3>2 DEF JobOK
        <5> QED
          BY <5>1, <5>2, <5>3
      <4>2. PlanReady(PlanOf(FALSE, <<q>>))
        BY RowReady
      <4>3. PlanOf(j.op \in Batches, j.req) = PlanOf(FALSE, <<q>>)
        BY <3>2, <4>1 DEF PlanOf
      <4> QED
        BY <4>2, <4>3
    <3> QED
      BY <3>1, <3>2
  <2> QED
    BY <1>2, <2>1, FreshRead
<1>9. PlanInv'
  <2>1. j.op \in Batches => PlanOf(j.op \in Batches, j.req) = Plan(j.req)
    BY DEF PlanOf
  <2>2. j.op \notin Batches => PlanOf(j.op \in Batches, j.req) = PlanOf(FALSE, j.req)
    BY DEF PlanOf
  <2>3. j.op \in Histories => j.op \notin Batches /\ j.req = HistoryRows
    BY <1>4 DEF JobOK, Histories, Batches
  <2> QED
    BY <1>1, <1>2, <1>5, <2>1, <2>2, <2>3 DEF PlanInv
<1>10. HistInv'
  BY <1>1, <1>3, <1>5 DEF HistInv
<1>11. SetInv'
  <2>1. j.op = "set" => j.writes \in Seq(Writes) /\ j.writes # << >>
    BY <1>4 DEF JobOK, WritesOK
  <2>2. j.op = "set" => 1 \in DOMAIN j.writes /\ 0 < j.writes[1].nnyb
                        /\ \A n \in DOMAIN j.writes : ~(n < 1)
    <3> SUFFICES ASSUME j.op = "set"
                 PROVE  1 \in DOMAIN j.writes /\ 0 < j.writes[1].nnyb
                        /\ \A n \in DOMAIN j.writes : ~(n < 1)
      OBVIOUS
    <3>1. 1 \in DOMAIN j.writes /\ \A n \in DOMAIN j.writes : ~(n < 1)
      BY <2>1
    <3>2. j.writes[1] \in Writes
      BY <2>1, <3>1
    <3>3. j.writes[1].nnyb \in Nat \ {0}
      BY <3>2 DEF Writes
    <3> QED
      BY <3>1, <3>3
  <2> QED
    BY <1>1, <1>2, <1>3, <2>2 DEF SetInv
<1> QED
  BY <1>6, <1>7, <1>8, <1>9, <1>10, <1>11 DEF IInv

(* A reset leaves what is read or written as it is. *)
LEMMA ResetStep ==
  ASSUME IInv, ResetAnswered \/ ResetUnanswered
  PROVE  IInv'
PROOF
<1>1. /\ pc = "reset" /\ line' = line /\ job' = job /\ after' = after /\ plan' = plan /\ cur' = cur
      /\ p' = p /\ data' = data /\ got' = got /\ missed' = missed /\ mem' = mem
      /\ images' = images /\ stored' = stored
  BY DEF ResetAnswered, ResetUnanswered, console
<1>2. k' \in 0..MaxRetries - 1 /\ r' \in 0..MaxResets - 1
  <2>1. k \in 0..MaxRetries - 1 /\ r \in 0..MaxResets - 1
    BY DEF IInv, Types
  <2>2. CASE ResetAnswered
    <3>1. r' = 0 /\ (k' = k \/ (k' = k + 1 /\ k + 1 < MaxRetries))
      BY <2>2 DEF ResetAnswered
    <3> QED
      BY <2>1, <3>1, HistType
  <2>3. CASE ResetUnanswered
    <3>1. k' = k /\ r' = r + 1 /\ r + 1 < MaxResets
      BY <2>3 DEF ResetUnanswered
    <3> QED
      BY <2>1, <3>1, HistType
  <2> QED
    BY <2>2, <2>3
<1>3. pc' \in {"reset", "read", "write"} /\ (pc' = "write" <=> pc' # "reset" /\ after = "write")
  BY <1>1 DEF ResetAnswered, ResetUnanswered
<1>4. job.op # "set" => after \in {"start", "retry"}
  BY <1>1 DEF IInv, ReadInv, Reading
<1>5. job.op = "set" => after = "write"
  BY DEF IInv, SetInv
<1>6. Types'
  <2>1. JobType' /\ Epoch' = Epoch
    BY <1>1 DEF IInv, Types, JobType, Epoch
  <2> QED
    BY <1>1, <1>2, <1>3, <2>1 DEF IInv, Types
<1>7. IdleInv'
  BY <1>3 DEF IdleInv
<1>8. ReadInv'
  <2> SUFFICES ASSUME job.op # "set"
               PROVE  ReadInv'
    BY <1>1 DEF ReadInv, Reading
  <2>1. Reading
    BY <1>1 DEF Reading
  <2>2. ReadSoFar'
    <3>1. Types /\ ReadSoFar
      BY <2>1 DEF IInv, ReadInv
    <3>2. Epoch' = Epoch
      BY <1>1 DEF Epoch
    <3> QED
      BY <1>1, <3>1, <3>2, Numbers, ReadKept
  <2> QED
    BY <1>1, <1>3, <2>1, <2>2 DEF IInv, ReadInv, PlanReady, AreasType, Apart
<1>9. PlanInv'
  BY <1>1, <1>3, <1>4 DEF IInv, PlanInv, Reading
<1>10. HistInv'
  BY <1>1 DEF IInv, HistInv
<1>11. SetInv'
  <2>1. \A n, i : IsWritten(n, i)' = IsWritten(n, i)
    BY <1>1 DEF IsWritten
  <2> QED
    BY <1>1, <1>3, <1>4, <1>5, <2>1 DEF IInv, SetInv
<1> QED
  BY <1>6, <1>7, <1>8, <1>9, <1>10, <1>11 DEF IInv

LEMMA EndStep ==
  ASSUME IInv, GiveUp \/ Return
  PROVE  IInv'
BY RestStep DEF GiveUp, Return

(* The exchange under way. *)
LEMMA ChunkIs ==
  ASSUME PlanReady(plan), cur \in DOMAIN plan.areas,
         NEW m \in Nat, p = MaxBlocks * m, p < plan.areas[cur].nnyb
  PROVE  \E at \in Nat, addr \in Nat, n \in Nat, size \in Nat, b \in Nat :
           /\ at = plan.areas[cur].at /\ addr = plan.areas[cur].addr /\ n = plan.areas[cur].nnyb
           /\ p < n /\ size = (IF n - p < MaxBlocks THEN n - p ELSE MaxBlocks) /\ Chunk = size
           /\ b = Bytes(size) /\ (2 * b = size \/ 2 * b = size + 1)
           /\ First = 2 * at + p
           /\ \A c : AddrOf(c) = addr + p + c - First
PROOF
<1>1. PICK at \in Nat, addr \in Nat, n \in Nat :
        at = plan.areas[cur].at /\ addr = plan.areas[cur].addr /\ n = plan.areas[cur].nnyb
  BY PlanReadyType
<1>2. p \in Nat
  BY DEF MaxBlocks
<1>3. PICK size \in Nat : size = IF n - p < MaxBlocks THEN n - p ELSE MaxBlocks
  BY <1>1, <1>2 DEF MaxBlocks
<1>4. Chunk = size
  BY <1>1, <1>3 DEF Chunk, Area
<1>5. PICK b \in Nat : b = Bytes(size) /\ (2 * b = size \/ 2 * b = size + 1)
  <2>1. Bytes(size) \in Nat /\ (2 * Bytes(size) = size \/ 2 * Bytes(size) = size + 1)
    BY BytesOf, Zenon
  <2>2. PICK b \in Nat : b = Bytes(size)
    BY <2>1
  <2> QED
    BY <2>1, <2>2
<1>6. First = 2 * at + p
  <2>1. Bytes(MaxBlocks * m) \in Nat /\ 2 * Bytes(MaxBlocks * m) = MaxBlocks * m
    BY BytesOf, Zenon
  <2>2. PICK y \in Nat : y = Bytes(p) /\ 2 * y = p
    BY <2>1
  <2>3. First = 2 * (at + y)
    BY <1>1, <2>2 DEF First, Area
  <2> QED
    BY <2>2, <2>3
<1>7. \A c : AddrOf(c) = addr + p + c - First
  BY <1>1 DEF AddrOf, Area
<1>8. p < n
  BY <1>1
<1> QED
  BY <1>1, <1>3, <1>4, <1>5, <1>6, <1>7, <1>8, ZenonT(30)

(* A step that changes no cell before the exchange under way keeps what    *)
(* the exchanges before it have read.                                      *)
LEMMA BeforeKept ==
  ASSUME Types, PlanReady(plan), ReadSoFar, cur \in DOMAIN plan.areas,
         NEW m \in Nat, p = MaxBlocks * m, p < plan.areas[cur].nnyb,
         plan' = plan, job' = job, images' = images, stored' = stored,
         \A c \in DOMAIN data : c < First => c \in DOMAIN data' /\ data'[c] = data[c],
         NEW x \in DOMAIN plan.areas, NEW j \in Nat,
         x < cur \/ (x = cur /\ MaxBlocks * j < p)
  PROVE  ChunkRead(x, MaxBlocks * j)'
PROOF
<1>1. ChunkRead(x, MaxBlocks * j)
  BY DEF ReadSoFar
<1>2. PICK q \in Int : q = MaxBlocks * j
  BY DEF MaxBlocks
<1>3. ASSUME NEW i \in q..q + MaxBlocks - 1, i < plan.areas[x].nnyb,
             2 * plan.areas[x].at + i \in DOMAIN data
      PROVE  /\ 2 * plan.areas[x].at + i \in DOMAIN data'
             /\ data'[2 * plan.areas[x].at + i] = data[2 * plan.areas[x].at + i]
  <2>1. i \in Int /\ i < MaxBlocks * j + MaxBlocks
    BY <1>2 DEF MaxBlocks
  <2>2. 2 * plan.areas[x].at + i < First
    BY <1>3, <2>1, EarlierCells
  <2> QED
    BY <1>3, <2>2
<1>4. Epoch' = Epoch
  BY DEF Epoch
<1>5. ChunkRead(x, q)'
  <2>1. ChunkRead(x, q)
    BY <1>1, <1>2
  <2>2. job'.newest = job.newest
    OBVIOUS
  <2>3. /\ Epoch \in Int /\ Epoch' \in Int /\ Epoch <= Epoch'
        /\ stored \in Int /\ stored' \in Int /\ stored <= stored' /\ job.newest \in Int
    BY <1>4, Numbers
  <2> QED
    BY <1>3, <2>1, <2>2, <2>3, ChunkKept
<1> QED
  BY <1>2, <1>5

(* An exchange fails after some bytes.                                     *)
LEMMA ReadFailsStep ==
  ASSUME IInv, NEW n \in 0..Bytes(MaxBlocks), ReadFails(n)
  PROVE  IInv'
PROOF
<1>1. /\ pc = "read" /\ pc' = "reset" /\ after' = "retry" /\ r' = 0
      /\ line' = line /\ job' = job /\ plan' = plan /\ cur' = cur
      /\ p' = p /\ k' = k /\ got' = got /\ missed' = missed /\ mem' = mem
      /\ images' = images /\ stored' = stored
      /\ data' = [c \in DOMAIN data \cup Cells(n) |-> IF c \in Cells(n) THEN Damaged ELSE data[c]]
  BY DEF ReadFails, console
<1>2. job.op # "set"
  BY <1>1 DEF IInv, SetInv
<1>3. Reading /\ Types
  BY <1>1, <1>2 DEF Reading, IInv
<1>4. PlanReady(plan) /\ ReadSoFar /\ cur \in DOMAIN plan.areas /\ p < plan.areas[cur].nnyb
  BY <1>1, <1>3 DEF IInv, ReadInv
<1>5. PICK m \in Nat : p = MaxBlocks * m
  BY <1>1, <1>3 DEF IInv, ReadInv
<1>6. Types'
  <2>1. JobType' /\ Epoch' = Epoch
    BY <1>1 DEF IInv, Types, JobType, Epoch
  <2>2. r' \in 0..MaxResets - 1
    BY <1>1, HistType
  <2> QED
    BY <1>1, <2>1, <2>2 DEF IInv, Types
<1>7. ReadSoFar'
  <2> SUFFICES ASSUME NEW x \in DOMAIN plan.areas, NEW j \in Nat,
                      x < cur \/ (x = cur /\ MaxBlocks * j < p)
               PROVE  ChunkRead(x, MaxBlocks * j)'
    BY <1>1 DEF ReadSoFar
  <2>1. PICK f \in Int : f = First
    <3>1. \E at \in Nat : First = 2 * at + p
      BY <1>4, <1>5, ChunkIs
    <3> QED
      BY <1>3, <3>1 DEF Types
  <2>2. n \in Nat
    BY BytesOf DEF MaxBlocks
  <2>3. \A c : c < f => c \notin Cells(n)
    BY <2>1, <2>2 DEF Cells
  <2>4. \A c \in DOMAIN data : c < First => c \in DOMAIN data' /\ data'[c] = data[c]
    BY <1>1, <2>1, <2>3
  <2> QED
    BY <1>1, <1>3, <1>4, <1>5, <2>4, BeforeKept
<1>8. ReadInv'
  BY <1>1, <1>3, <1>4, <1>5, <1>7 DEF ReadInv, PlanReady, AreasType, Apart
<1>9. IdleInv'
  BY <1>1 DEF IdleInv
<1>10. PlanInv'
  BY <1>1, <1>3 DEF IInv, PlanInv, Reading
<1>11. HistInv'
  BY <1>1 DEF IInv, HistInv
<1>12. SetInv'
  BY <1>1, <1>2 DEF SetInv
<1> QED
  BY <1>6, <1>8, <1>9, <1>10, <1>11, <1>12 DEF IInv

(* An exchange succeeds.                                                   *)
LEMMA ReadOkStep ==
  ASSUME IInv, ReadOk
  PROVE  IInv'
PROOF
<1> DEFINE whole == p + MaxBlocks >= Area.nnyb
<1>1. /\ pc = "read" /\ line' = line /\ job' = job /\ after' = after /\ plan' = plan
      /\ r' = r /\ k' = 0 /\ got' = got /\ missed' = missed /\ mem' = mem
      /\ images' = images /\ stored' = stored
      /\ p' = IF whole THEN 0 ELSE p + MaxBlocks
      /\ cur' = IF whole THEN cur + 1 ELSE cur
      /\ pc' = IF whole /\ cur = Len(plan.areas) THEN "done" ELSE "read"
      /\ data' = [c \in DOMAIN data \cup Cells(Bytes(Chunk)) |->
                    IF c \in Cells(Bytes(Chunk)) THEN <<AddrOf(c), Stamp(AddrOf(c))>>
                    ELSE data[c]]
  BY DEF ReadOk, console
<1>2. job.op # "set"
  BY <1>1 DEF IInv, SetInv
<1>3. Reading /\ Types /\ HistInv
  BY <1>1, <1>2 DEF Reading, IInv
<1>4. PlanReady(plan) /\ ReadSoFar /\ cur \in DOMAIN plan.areas /\ p < plan.areas[cur].nnyb
  BY <1>1, <1>3 DEF IInv, ReadInv
<1>5. PICK m \in Nat : p = MaxBlocks * m
  BY <1>1, <1>3 DEF IInv, ReadInv
<1>6. PICK at \in Nat, addr \in Nat, n \in Nat, size \in Nat, b \in Nat :
           /\ at = plan.areas[cur].at /\ addr = plan.areas[cur].addr /\ n = plan.areas[cur].nnyb
           /\ p < n /\ size = (IF n - p < MaxBlocks THEN n - p ELSE MaxBlocks) /\ Chunk = size
           /\ b = Bytes(size) /\ (2 * b = size \/ 2 * b = size + 1)
           /\ First = 2 * at + p
           /\ \A c : AddrOf(c) = addr + p + c - First
  BY <1>4, <1>5, ChunkIs
<1>7. PICK f \in Int : f = First /\ f = 2 * at + MaxBlocks * m
  BY <1>5, <1>6 DEF MaxBlocks
<1>8. Cells(Bytes(Chunk)) = f..f + 2 * b - 1
  BY <1>6, <1>7 DEF Cells
<1>9. whole <=> p + MaxBlocks >= n
  BY <1>6 DEF Area
<1> HIDE DEF whole
<1>10. DOMAIN plan.areas = 1..Len(plan.areas) /\ Len(plan.areas) \in Nat
  BY <1>4, PlanReadyType
<1>11. Types'
  <2>1. JobType' /\ Epoch' = Epoch
    BY <1>1 DEF IInv, Types, JobType, Epoch
  <2>2. k' \in 0..MaxRetries - 1
    BY <1>1, HistType
  <2>3. cur' \in Nat \ {0} /\ p' \in Nat
    BY <1>1, <1>3 DEF Types, MaxBlocks
  <2>4. pc' \in {"idle", "reset", "read", "write", "done"}
    BY <1>1
  <2> QED
    BY <1>1, <2>1, <2>2, <2>3, <2>4 DEF IInv, Types
<1>12. ASSUME NEW x \in DOMAIN plan.areas, NEW j \in Nat,
              x < cur \/ (x = cur /\ MaxBlocks * j < p)
       PROVE  ChunkRead(x, MaxBlocks * j)'
  <2>1. \A c : c < f => c \notin Cells(Bytes(Chunk))
    BY <1>8
  <2>2. \A c \in DOMAIN data : c < First => c \in DOMAIN data' /\ data'[c] = data[c]
    BY <1>1, <1>7, <2>1
  <2> QED
    BY <1>1, <1>3, <1>4, <1>5, <1>12, <2>2, BeforeKept
<1>13. ASSUME NEW x, x = cur
       PROVE  ChunkRead(x, MaxBlocks * m)'
  <2>1. PICK e \in 1..Epoch, s \in job.newest..stored : e = Epoch /\ s = stored
    BY <1>3, Numbers, NewestStored
  <2>2. \A a : Stamp(a) = StampAt(a, e, s)
    BY <2>1 DEF Stamp, StampAt, RecordIn
  <2>3. ASSUME NEW i \in MaxBlocks * m..MaxBlocks * m + MaxBlocks - 1, i < n
        PROVE  /\ 2 * at + i \in DOMAIN data'
               /\ data'[2 * at + i] = <<addr + i, StampAt(addr + i, e, s)>>
    <3>1. i \in Int /\ MaxBlocks * m <= i /\ i < p + size
      BY <1>5, <1>6, <2>3 DEF MaxBlocks
    <3>2. 2 * at + i \in f..f + 2 * b - 1
      BY <1>5, <1>6, <1>7, <3>1 DEF MaxBlocks
    <3>3. AddrOf(2 * at + i) = addr + i
      <4>1. AddrOf(2 * at + i) = addr + p + (2 * at + i) - First
        BY <1>6
      <4>2. p \in Nat
        BY <1>3 DEF Types
      <4> QED
        BY <1>6, <3>1, <4>1, <4>2
    <3>4. 2 * at + i \in Cells(Bytes(Chunk))
      BY <1>8, <3>2
    <3>5. data'[2 * at + i] = <<AddrOf(2 * at + i), Stamp(AddrOf(2 * at + i))>>
          /\ 2 * at + i \in DOMAIN data'
      BY <1>1, <3>4
    <3> QED
      BY <2>2, <3>3, <3>5
  <2>4. e \in 1..Epoch' /\ s \in job'.newest..stored'
    BY <1>1, <2>1 DEF Epoch
  <2>5. plan'.areas[cur].nnyb = n /\ plan'.areas[cur].at = at /\ plan'.areas[cur].addr = addr
    BY <1>1, <1>6
  <2> QED
    BY <1>13, <2>3, <2>4, <2>5 DEF ChunkRead
<1>14. ReadSoFar'
  <2> SUFFICES ASSUME NEW x \in DOMAIN plan.areas, NEW j \in Nat,
                      x < cur' \/ (x = cur' /\ MaxBlocks * j < p')
               PROVE  ChunkRead(x, MaxBlocks * j)'
    BY <1>1 DEF ReadSoFar
  <2>1. CASE x < cur \/ (x = cur /\ MaxBlocks * j < p)
    BY <1>12, <2>1
  <2>2. CASE x = cur /\ j = m
    BY <1>13, <2>2
  <2>3. CASE ~(x < cur) /\ ~(x = cur /\ (MaxBlocks * j < p \/ j = m))
    <3>1. x \in Nat /\ cur \in Nat /\ MaxBlocks * j \in Nat
      BY <1>10, <1>3 DEF Types, MaxBlocks
    <3>2. x = cur
      <4>1. ~(MaxBlocks * j < 0)
        BY <3>1
      <4>2. cur' = cur \/ (cur' = cur + 1 /\ p' = 0)
        BY <1>1
      <4> QED
        BY <2>3, <3>1, <4>1, <4>2
    <3>3. m < j
      BY <1>5, <2>3, <3>2 DEF MaxBlocks
    <3>4. whole
      <4> SUFFICES ASSUME ~whole
                   PROVE  FALSE
        OBVIOUS
      <4>1. cur' = cur /\ p' = p + MaxBlocks
        BY <1>1
      <4>2. MaxBlocks * j < MaxBlocks * m + MaxBlocks
        BY <1>5, <3>1, <3>2, <4>1
      <4> QED
        BY <3>3, <4>2 DEF MaxBlocks
    <3>5. n <= MaxBlocks * j
      BY <1>5, <1>9, <3>3, <3>4 DEF MaxBlocks
    <3>6. PICK q \in Nat : q = MaxBlocks * j /\ n <= q
      BY <3>1, <3>5
    <3>7. \A i \in q..q + MaxBlocks - 1 : ~(i < plan'.areas[x].nnyb)
      BY <1>1, <1>6, <3>2, <3>6 DEF MaxBlocks
    <3>8. Epoch' \in 1..Epoch' /\ stored' \in job'.newest..stored'
      BY <1>1, <1>3, Numbers, NewestStored DEF Epoch
    <3>9. ChunkRead(x, q)'
      BY <3>7, <3>8 DEF ChunkRead
    <3> QED
      BY <3>6, <3>9
  <2> QED
    BY <2>1, <2>2, <2>3
<1>15. ReadInv'
  <2>1. pc' # "done" => /\ cur' \in DOMAIN plan.areas /\ p' < plan.areas[cur'].nnyb
                        /\ \E j \in Nat : p' = MaxBlocks * j
    <3>1. CASE whole /\ cur # Len(plan.areas)
      <4>1. cur' = cur + 1 /\ p' = 0 /\ cur' \in DOMAIN plan.areas
        BY <1>1, <1>4, <1>10, <3>1
      <4>2. plan.areas[cur'].nnyb \in Nat \ {0}
        BY <1>4, <4>1, PlanReadyType
      <4>3. 0 = MaxBlocks * 0
        BY DEF MaxBlocks
      <4> QED
        BY <4>1, <4>2, <4>3
    <3>2. CASE ~whole
      <4>1. cur' = cur /\ p' = p + MaxBlocks /\ p + MaxBlocks < n
        BY <1>1, <1>3, <1>9, <3>2 DEF Types, MaxBlocks
      <4>2. p + MaxBlocks = MaxBlocks * (m + 1)
        BY <1>5 DEF MaxBlocks
      <4> QED
        BY <1>4, <1>6, <4>1, <4>2
    <3> QED
      BY <1>1, <3>1, <3>2
  <2>2. pc' = "done" => cur' = Len(plan.areas) + 1
    BY <1>1
  <2>3. after \in {"start", "retry"}
    BY <1>1, <1>3 DEF IInv, ReadInv
  <2> QED
    BY <1>1, <1>4, <1>14, <2>1, <2>2, <2>3 DEF ReadInv, PlanReady, AreasType, Apart
<1>16. IdleInv' /\ PlanInv'
  BY <1>1, <1>3 DEF IInv, PlanInv, IdleInv, Reading
<1>17. HistInv'
  BY <1>1 DEF IInv, HistInv
<1>18. SetInv'
  BY <1>1, <1>2 DEF SetInv
<1> QED
  BY <1>11, <1>15, <1>16, <1>17, <1>18 DEF IInv

---------------------------------------------------------------------------
(* Writing *)

(* A nybble more in the console leaves those of other writes, and those    *)
(* before it of its own write.                                             *)
LEMMA WrittenMore ==
  ASSUME WritesOK(job.writes), cur \in DOMAIN job.writes, p \in Nat, p < job.writes[cur].nnyb,
         job' = job, Written \/ mem' = mem,
         NEW n \in DOMAIN job.writes, NEW i \in 1..job.writes[n].nnyb,
         n # cur \/ i <= p, IsWritten(n, i)
  PROVE  IsWritten(n, i)'
PROOF
<1>1. CASE mem' = mem
  BY <1>1 DEF IsWritten
<1>2. CASE Written
  <2>1. job.writes[n] \in Writes /\ job.writes[cur] \in Writes
    BY DEF WritesOK
  <2>2. PICK na \in Nat, nn \in Nat : na = job.writes[n].addr /\ nn = job.writes[n].nnyb
    BY <2>1 DEF Writes
  <2>3. PICK ca \in Nat, cn \in Nat : ca = job.writes[cur].addr /\ cn = job.writes[cur].nnyb
    BY <2>1 DEF Writes
  <2>4. PICK a \in Int : a = na + i - 1
    BY <2>2
  <2>5. a # ca + p
    <3>1. CASE n = cur
      BY <2>2, <2>3, <2>4, <3>1
    <3>2. CASE n # cur
      <4>1. na + nn <= ca \/ ca + cn <= na
        BY <2>2, <2>3, <3>2 DEF WritesOK
      <4>2. i \in 1..nn /\ p < cn
        BY <2>2, <2>3
      <4> QED
        BY <2>4, <4>1, <4>2
    <3> QED
      BY <3>1, <3>2
  <2>6. a \in DOMAIN mem /\ mem[a] = NybblesOf(job.writes[n])[i]
    BY <2>2, <2>4 DEF IsWritten
  <2>7. mem' = [c \in DOMAIN mem \cup {ca + p} |->
                  IF c = ca + p THEN NybblesOf(job.writes[cur])[p + 1] ELSE mem[c]]
    BY <1>2, <2>3 DEF Written, Command
  <2>8. a \in DOMAIN mem' /\ mem'[a] = mem[a]
    BY <2>5, <2>6, <2>7
  <2> QED
    BY <2>2, <2>4, <2>6, <2>8 DEF IsWritten
<1> QED
  BY <1>1, <1>2

LEMMA WrittenNow ==
  ASSUME cur \in DOMAIN job.writes, p \in Nat, job' = job, Written,
         WritesOK(job.writes), NEW n, n = cur, NEW i, i = p + 1
  PROVE  IsWritten(n, i)'
PROOF
<1>1. job.writes[cur] \in Writes
  BY DEF WritesOK
<1>2. PICK ca \in Nat : ca = job.writes[cur].addr
  BY <1>1 DEF Writes
<1>3. mem' = [c \in DOMAIN mem \cup {ca + p} |->
                IF c = ca + p THEN NybblesOf(job.writes[cur])[p + 1] ELSE mem[c]]
  BY <1>2 DEF Written, Command
<1>4. ca + p \in DOMAIN mem' /\ mem'[ca + p] = NybblesOf(job.writes[cur])[p + 1]
  BY <1>3
<1>5. ca + i - 1 = ca + p
  OBVIOUS
<1>6. job'.writes[n].addr = ca /\ NybblesOf(job'.writes[n])[i] = NybblesOf(job.writes[cur])[p + 1]
  BY <1>2 DEF NybblesOf
<1> QED
  BY <1>4, <1>5, <1>6 DEF IsWritten

LEMMA SetFacts ==
  ASSUME IInv, pc = "write"
  PROVE  /\ job.op = "set" /\ WritesOK(job.writes) /\ after = "write"
         /\ cur \in DOMAIN job.writes /\ p < job.writes[cur].nnyb /\ p \in Nat
         /\ DOMAIN job.writes = 1..Len(job.writes) /\ Len(job.writes) \in Nat
         /\ cur \in Nat /\ cur \notin missed
         /\ \A n \in DOMAIN job.writes : job.writes[n].nnyb \in Nat \ {0}
         /\ \A n \in DOMAIN job.writes \ missed : n < cur =>
              \A i \in 1..job.writes[n].nnyb : IsWritten(n, i)
         /\ \A i \in 1..p : IsWritten(cur, i)
         /\ \A n \in missed : n < cur
         /\ missed \subseteq DOMAIN job.writes
PROOF
<1>1. job.op = "set"
  BY DEF IInv, SetInv
<1>2. WritesOK(job.writes) /\ cur \in Nat /\ p \in Nat /\ missed \subseteq DOMAIN job.writes
  BY <1>1, JobIs DEF IInv, Types
<1>3. DOMAIN job.writes = 1..Len(job.writes) /\ Len(job.writes) \in Nat
  BY <1>2 DEF WritesOK
<1>4. ASSUME NEW n \in DOMAIN job.writes
      PROVE  job.writes[n].nnyb \in Nat \ {0}
  <2>1. job.writes[n] \in Writes
    BY <1>2 DEF WritesOK
  <2> QED
    BY <2>1 DEF Writes
<1>5. \A n \in missed : n < cur
  BY <1>1 DEF IInv, SetInv
<1>6. cur \notin missed
  BY <1>2, <1>5
<1> QED
  BY <1>1, <1>2, <1>3, <1>4, <1>5, <1>6 DEF IInv, SetInv

(* What a step of a write leaves alone. *)
LEMMA WriteTypes ==
  ASSUME IInv, pc = "write", line' = line, job' = job, r' = r, got' = got,
         images' = images, stored' = stored,
         pc' \in {"reset", "write", "done"}, after' = "write",
         cur' \in Nat \ {0}, p' \in Nat, k' \in 0..MaxRetries - 1,
         missed' \subseteq DOMAIN job.writes
  PROVE  Types' /\ IdleInv' /\ ReadInv' /\ PlanInv' /\ HistInv'
PROOF
<1>1. job.op = "set"
  BY SetFacts
<1>2. JobType' /\ Epoch' = Epoch
  BY DEF IInv, Types, JobType, Epoch
<1>3. Types'
  BY <1>2 DEF IInv, Types
<1>4. HistInv'
  BY DEF IInv, HistInv
<1>5. IdleInv' /\ ReadInv' /\ PlanInv'
  BY <1>1 DEF IdleInv, ReadInv, PlanInv, Reading
<1> QED
  BY <1>3, <1>4, <1>5

(* A nybble is written and acknowledged.                                   *)
LEMMA WriteOkStep ==
  ASSUME IInv, WriteOk
  PROVE  IInv'
PROOF
<1>1. /\ pc = "write" /\ Written
      /\ IF p + 1 = Command.nnyb THEN NextWrite
         ELSE p' = p + 1 /\ pc' = pc /\ after' = after /\ cur' = cur /\ k' = k
      /\ line' = line /\ job' = job /\ r' = r /\ got' = got /\ missed' = missed
      /\ images' = images /\ stored' = stored
  BY DEF WriteOk, NybbleDone, console
<1>2. /\ job.op = "set" /\ WritesOK(job.writes) /\ after = "write"
      /\ cur \in DOMAIN job.writes /\ p < job.writes[cur].nnyb /\ p \in Nat
      /\ DOMAIN job.writes = 1..Len(job.writes) /\ Len(job.writes) \in Nat
      /\ cur \in Nat /\ missed \subseteq DOMAIN job.writes
      /\ \A n \in DOMAIN job.writes : job.writes[n].nnyb \in Nat \ {0}
  BY <1>1, SetFacts
<1>3. PICK nn \in Nat : nn = job.writes[cur].nnyb /\ p < nn
  BY <1>2
<1>4. \/ /\ p + 1 = nn /\ p' = 0 /\ k' = 0 /\ cur' = cur + 1 /\ after' = "write"
         /\ (cur = Len(job.writes) => pc' = "done") /\ (cur # Len(job.writes) => pc' = "reset")
      \/ p + 1 # nn /\ p' = p + 1 /\ pc' = "write" /\ after' = "write" /\ cur' = cur /\ k' = k
  <2>1. CASE p + 1 = Command.nnyb
    BY <1>1, <1>2, <1>3, <2>1 DEF NextWrite, Command
  <2>2. CASE p + 1 # Command.nnyb
    BY <1>1, <1>2, <1>3, <2>2 DEF Command
  <2> QED
    BY <2>1, <2>2
<1>5. Types' /\ IdleInv' /\ ReadInv' /\ PlanInv' /\ HistInv'
  <2>1. k' \in 0..MaxRetries - 1
    BY <1>4, HistType DEF IInv, Types
  <2>2. pc' \in {"reset", "write", "done"} /\ after' = "write" /\ cur' \in Nat \ {0} /\ p' \in Nat
    BY <1>2, <1>4, SMTT(30) DEF IInv, Types
  <2> QED
    BY <1>1, <1>2, <2>1, <2>2, WriteTypes
<1>6. SetInv'
  <2>1. pc' # "done" => cur' \in DOMAIN job.writes /\ p' < job.writes[cur'].nnyb
    <3>1. CASE p + 1 = nn /\ cur # Len(job.writes)
      <4>1. cur' \in DOMAIN job.writes /\ p' = 0
        BY <1>2, <1>4, <3>1
      <4>2. job.writes[cur'].nnyb \in Nat \ {0}
        BY <1>2, <4>1
      <4> QED
        BY <4>1, <4>2
    <3>2. CASE p + 1 # nn
      BY <1>2, <1>3, <1>4, <3>2
    <3> QED
      BY <1>4, <3>1, <3>2
  <2>2. ASSUME NEW n \in DOMAIN job.writes, n = cur, NEW i \in 1..p + 1
        PROVE  IsWritten(n, i)'
    <3>1. CASE i = p + 1
      BY <1>1, <1>2, <2>2, <3>1, WrittenNow
    <3>2. CASE i # p + 1
      <4>1. i \in 1..p /\ i <= p
        BY <1>2, <3>2
      <4>2. IsWritten(n, i)
        BY <1>1, <2>2, <4>1, SetFacts
      <4>3. i \in 1..job.writes[n].nnyb
        BY <1>2, <1>3, <2>2, <4>1
      <4> QED
        BY <1>1, <1>2, <4>1, <4>2, <4>3, WrittenMore
    <3> QED
      BY <3>1, <3>2
  <2>3. ASSUME NEW n \in DOMAIN job.writes \ missed, n < cur', NEW i \in 1..job.writes[n].nnyb
        PROVE  IsWritten(n, i)'
    <3>1. CASE n < cur
      <4>1. IsWritten(n, i)
        BY <1>1, <3>1, SetFacts
      <4>2. n # cur
        BY <1>2, <3>1
      <4> QED
        BY <1>1, <1>2, <4>1, <4>2, WrittenMore
    <3>2. CASE ~(n < cur)
      <4>1. n = cur /\ p + 1 = nn
        BY <1>2, <1>4, <2>3, <3>2
      <4>2. i \in 1..p + 1
        BY <1>3, <4>1
      <4> QED
        BY <2>2, <4>1, <4>2
    <3> QED
      BY <3>1, <3>2
  <2>4. ASSUME pc' # "done", NEW i \in 1..p', NEW n, n = cur'
        PROVE  IsWritten(n, i)'
    <3>1. p' = p + 1 /\ cur' = cur
      BY <1>2, <1>4
    <3> QED
      BY <1>2, <2>2, <2>4, <3>1
  <2>5. pc' = "done" => cur' = Len(job.writes) + 1
    BY <1>4
  <2>6. \A n \in missed' : n < cur'
    <3>1. \A n \in missed : n < cur /\ n \in Nat
      BY <1>1, <1>2, SetFacts
    <3> QED
      BY <1>1, <1>2, <1>4, <3>1
  <2>7. pc' \in {"reset", "write", "done"} /\ after' = "write"
    BY <1>4
  <2>8. \A i \in 1..p' : pc' # "done" => IsWritten(cur, i)'
    BY <2>4
  <2>9. \A n \in DOMAIN job'.writes \ missed' : n < cur' =>
          \A i \in 1..job'.writes[n].nnyb : IsWritten(n, i)'
    BY <1>1, <2>3
  <2> QED
    BY <1>1, <1>2, <2>1, <2>5, <2>6, <2>7, <2>8, <2>9 DEF SetInv
<1> QED
  BY <1>5, <1>6 DEF IInv

(* A write fails, or is given up.                                          *)
LEMMA WriteFailsStep ==
  ASSUME IInv, WriteFails
  PROVE  IInv'
PROOF
<1>1. /\ pc = "write" /\ (Written \/ mem' = mem) /\ TryFails
      /\ line' = line /\ job' = job /\ r' = r /\ got' = got
      /\ images' = images /\ stored' = stored
  BY DEF WriteFails, console
<1>2. /\ job.op = "set" /\ WritesOK(job.writes) /\ after = "write"
      /\ cur \in DOMAIN job.writes /\ p < job.writes[cur].nnyb /\ p \in Nat
      /\ DOMAIN job.writes = 1..Len(job.writes) /\ Len(job.writes) \in Nat
      /\ cur \in Nat /\ missed \subseteq DOMAIN job.writes
      /\ \A n \in DOMAIN job.writes : job.writes[n].nnyb \in Nat \ {0}
  BY <1>1, SetFacts
<1>3. /\ p' = 0 /\ after' = "write" /\ k' \in 0..MaxRetries - 1
      /\ \/ cur' = cur /\ pc' = "reset" /\ missed' = missed
         \/ /\ cur' = cur + 1 /\ missed' = missed \cup {cur}
            /\ (cur = Len(job.writes) => pc' = "done") /\ (cur # Len(job.writes) => pc' = "reset")
  <2>1. k \in 0..MaxRetries - 1
    BY DEF IInv, Types
  <2>2. CASE k + 1 < MaxRetries
    BY <1>1, <2>1, <2>2, HistType DEF TryFails
  <2>3. CASE ~(k + 1 < MaxRetries)
    BY <1>1, <1>2, <2>3, HistType DEF TryFails, NextWrite
  <2> QED
    BY <2>2, <2>3
<1>4. Types' /\ IdleInv' /\ ReadInv' /\ PlanInv' /\ HistInv'
  <2>1. pc' \in {"reset", "write", "done"} /\ cur' \in Nat \ {0} /\ p' \in Nat
    BY <1>2, <1>3 DEF IInv, Types
  <2>2. missed' \subseteq DOMAIN job.writes
    BY <1>2, <1>3
  <2> QED
    BY <1>1, <1>2, <1>3, <2>1, <2>2, WriteTypes
<1>5. SetInv'
  <2>1. pc' # "done" => cur' \in DOMAIN job.writes /\ p' < job.writes[cur'].nnyb
    <3> SUFFICES ASSUME pc' # "done"
                 PROVE  cur' \in DOMAIN job.writes /\ p' < job.writes[cur'].nnyb
      OBVIOUS
    <3>1. cur' \in DOMAIN job.writes
      BY <1>2, <1>3
    <3>2. job.writes[cur'].nnyb \in Nat \ {0}
      BY <1>2, <3>1
    <3> QED
      BY <1>3, <3>1, <3>2
  <2>2. ASSUME NEW n \in DOMAIN job.writes \ missed', n < cur', NEW i \in 1..job.writes[n].nnyb
        PROVE  IsWritten(n, i)'
    <3>1. n < cur /\ n \notin missed
      BY <1>2, <1>3, <2>2
    <3>2. IsWritten(n, i)
      BY <1>1, <3>1, SetFacts
    <3>3. n # cur
      BY <1>2, <3>1
    <3> QED
      BY <1>1, <1>2, <3>2, <3>3, WrittenMore
  <2>3. pc' = "done" => cur' = Len(job.writes) + 1
    BY <1>3
  <2>4. \A n \in missed' : n < cur'
    <3>1. \A n \in missed : n < cur /\ n \in Nat
      BY <1>1, <1>2, SetFacts
    <3> QED
      BY <1>2, <1>3, <3>1
  <2>5. pc' \in {"reset", "write", "done"} /\ after' = "write" /\ p' = 0
    BY <1>3
  <2>6. \A n \in DOMAIN job'.writes \ missed' : n < cur' =>
          \A i \in 1..job'.writes[n].nnyb : IsWritten(n, i)'
    BY <1>1, <2>2
  <2>7. \A i : i \notin 1..p'
    BY <1>3
  <2> QED
    BY <1>1, <1>2, <2>1, <2>3, <2>4, <2>5, <2>6, <2>7 DEF SetInv
<1> QED
  BY <1>4, <1>5 DEF IInv

---------------------------------------------------------------------------
(* The history *)

(* The row of the i-th record back is read from its slot.                  *)
LEMMA RecordReady ==
  ASSUME NEW n \in Nat, NEW i \in Nat, i < RecordCount(n)
  PROVE  /\ PlanReady(PlanOf(FALSE, RecordRow(i, n)))
         /\ \E slot \in 0..HistSlots - 1, z \in Int :
              /\ n - 1 - i = HistSlots * z + slot
              /\ PlanOf(FALSE, RecordRow(i, n)).areas =
                   <<[addr |-> SlotsAt + HistSize * slot, nnyb |-> HistSize, at |-> 0]>>
PROOF
<1>1. PICK slot \in 0..HistSlots - 1, z \in Int :
        /\ hist_addr(i, LastSlot(n), RecordCount(n)) = SlotsAt + HistSize * slot
        /\ n - 1 - i = HistSlots * z + slot
  BY RecordSlot
<1>2. PICK a \in Nat : a = SlotsAt + HistSize * slot
  BY HistType DEF SlotsAt, HistSize
<1>3. PICK q \in Requests : q = Row(a, HistSize) /\ q.addr = a /\ q.nnyb = HistSize
  <2>1. Row(a, HistSize) \in Requests /\ Row(a, HistSize).addr = a /\ Row(a, HistSize).nnyb = HistSize
    BY DEF Row, Requests, HistSize
  <2> QED
    BY <2>1
<1>4. RecordRow(i, n) = <<q>>
  BY <1>1, <1>2, <1>3 DEF RecordRow
<1>5. PlanReady(PlanOf(FALSE, <<q>>))
  BY RowReady
<1>6. PlanOf(FALSE, <<q>>).areas = <<[addr |-> a, nnyb |-> HistSize, at |-> 0]>>
  BY <1>3 DEF PlanOf
<1> QED
  BY <1>1, <1>2, <1>4, <1>5, <1>6

(* The only area of a history's read, when it is done.                     *)
LEMMA RowRead ==
  ASSUME IInv, pc = "done", job.op \in Histories,
         NEW addr \in Nat, NEW n \in Nat, n <= MaxBlocks,
         plan.areas = <<[addr |-> addr, nnyb |-> n, at |-> 0]>>
  PROVE  \E e \in Int, s \in job.newest..stored :
           \A i \in 0..n - 1 : data[i] = <<addr + i, StampAt(addr + i, e, s)>>
PROOF
<1>1. Reading
  BY DEF Reading, Histories
<1>2. PICK A : A = [addr |-> addr, nnyb |-> n, at |-> 0]
  OBVIOUS
<1>3. A.addr = addr /\ A.nnyb = n /\ A.at = 0
  BY <1>2
<1>4. plan.areas = <<A>>
  BY <1>2
<1>5. Len(plan.areas) = 1 /\ DOMAIN plan.areas = {1} /\ plan.areas[1] = A
  BY <1>4
<1>6. 1 < cur
  <2>1. cur = Len(plan.areas) + 1
    BY <1>1 DEF IInv, ReadInv
  <2> QED
    BY <1>5, <2>1
<1>7. ChunkRead(1, MaxBlocks * 0)
  <2>1. ReadSoFar
    BY <1>1 DEF IInv, ReadInv
  <2>2. 1 \in DOMAIN plan.areas /\ 0 \in Nat
    BY <1>5
  <2> QED
    BY <1>6, <2>1, <2>2 DEF ReadSoFar
<1>8. PICK e \in 1..Epoch, s \in job.newest..stored :
        \A i \in MaxBlocks * 0..MaxBlocks * 0 + MaxBlocks - 1 : i < plan.areas[1].nnyb =>
            data[2 * plan.areas[1].at + i] =
                 <<plan.areas[1].addr + i, StampAt(plan.areas[1].addr + i, e, s)>>
  BY <1>7 DEF ChunkRead
<1>9. ASSUME NEW i \in 0..n - 1
      PROVE  data[i] = <<addr + i, StampAt(addr + i, e, s)>>
  <2>1. i \in MaxBlocks * 0..MaxBlocks * 0 + MaxBlocks - 1 /\ i < n
    BY DEF MaxBlocks
  <2>2. data[2 * 0 + i] = <<addr + i, StampAt(addr + i, e, s)>>
    BY <1>3, <1>5, <1>8, <2>1
  <2>3. 2 * 0 + i = i
    OBVIOUS
  <2> QED
    BY <2>2, <2>3
<1>10. e \in Int
  OBVIOUS
<1> QED
  BY <1>9, <1>10

(* What the settings say: the newest record s, and how many to read.       *)
SettingsSay(s, here, count) ==
    /\ s \in 0..MaxStored /\ s <= stored
    /\ here = RecordCount(s) /\ here <= HistSlots /\ (here = 0 => s = 0)
    /\ count = 0 => here = 0
    /\ job' = [job EXCEPT !.count = count, !.newest = s]
    /\ IF count > 0 THEN Prepare("start", FALSE, RecordRow(0, s))
       ELSE pc' = pc /\ after' = after /\ plan' = plan /\ cur' = cur /\ p' = p
            /\ k' = k /\ r' = r /\ data' = data

(* The settings of the history are of one state of the console.            *)
LEMMA SettingsRead ==
  ASSUME IInv, HistorySettings
  PROVE  \E s \in Nat, here \in Nat : \E count \in 0..here : SettingsSay(s, here, count)
PROOF
<1>1. /\ pc = "done" /\ job.op \in Histories /\ job.count = -1
      /\ line' = line /\ got' = got /\ missed' = missed /\ mem' = mem
      /\ images' = images /\ stored' = stored
  BY DEF HistorySettings, console
<1>2. Types /\ HistInv /\ Reading /\ PlanInv
  BY <1>1 DEF IInv, Reading, Histories
<1>3. got = << >> /\ job.newest = 0
  BY <1>1, <1>2 DEF HistInv
<1>4. PICK s \in job.newest..stored : data[0][2] = s
  <2>1. plan.areas = <<[addr |-> SettingsAt, nnyb |-> 20, at |-> 0]>>
    <3>1. plan = PlanOf(FALSE, HistoryRows)
      BY <1>1, <1>2 DEF PlanInv
    <3>2. PICK q \in Requests : q = Row(SettingsAt, 20) /\ q.addr = SettingsAt /\ q.nnyb = 20
      <4>1. Row(SettingsAt, 20) \in Requests /\ Row(SettingsAt, 20).addr = SettingsAt
            /\ Row(SettingsAt, 20).nnyb = 20
        BY DEF Row, Requests, SettingsAt
      <4> QED
        BY <4>1
    <3>3. HistoryRows = <<q>>
      BY <3>2 DEF HistoryRows
    <3>4. PlanOf(FALSE, <<q>>).areas = <<[addr |-> q.addr, nnyb |-> q.nnyb, at |-> 0]>>
      BY DEF PlanOf
    <3> QED
      BY <3>1, <3>2, <3>3, <3>4
  <2>2. PICK e \in Int, s \in job.newest..stored :
           \A i \in 0..20 - 1 : data[i] = <<SettingsAt + i, StampAt(SettingsAt + i, e, s)>>
    <3>1. SettingsAt \in Nat /\ 20 \in Nat /\ 20 <= MaxBlocks
      BY DEF SettingsAt, MaxBlocks
    <3> QED
      BY <1>1, <2>1, <3>1, RowRead
  <2>3. 0 \in 0..20 - 1
    OBVIOUS
  <2>4. data[0] = <<SettingsAt + 0, StampAt(SettingsAt + 0, e, s)>>
    BY <2>2, <2>3
  <2>5. StampAt(SettingsAt + 0, e, s) = s
    BY DEF StampAt, SettingsAt, SlotsAt
  <2> QED
    BY <2>4, <2>5
<1>5. s \in Nat /\ s \in 0..MaxStored /\ s <= stored
  BY <1>2, <1>3, Numbers, HistType DEF Types
<1>6. PICK here \in Nat : here = RecordCount(s) /\ here <= HistSlots /\ (here = 0 => s = 0)
  BY <1>5, HistType DEF RecordCount
<1>7. PICK ask \in Nat : ask = job.ask
  BY <1>1, <1>2, JobIs DEF Types
<1>8. PICK count \in 0..here : /\ count = IF ask = 0 \/ here < ask THEN here ELSE ask
                               /\ (count = 0 => here = 0)
  BY <1>6
<1>9. /\ job' = [job EXCEPT !.count = count, !.newest = s]
      /\ IF count > 0 THEN Prepare("start", FALSE, RecordRow(0, s))
         ELSE pc' = pc /\ after' = after /\ plan' = plan /\ cur' = cur /\ p' = p
              /\ k' = k /\ r' = r /\ data' = data
  BY <1>4, <1>6, <1>7, <1>8 DEF HistorySettings
<1> QED
  BY <1>5, <1>6, <1>8, <1>9 DEF SettingsSay

(* The settings are read: how many records are to come.                    *)
LEMMA HistorySettingsStep ==
  ASSUME IInv, HistorySettings
  PROVE  IInv'
PROOF
<1>1. /\ pc = "done" /\ job.op \in Histories /\ job.count = -1
      /\ line' = line /\ got' = got /\ missed' = missed /\ mem' = mem
      /\ images' = images /\ stored' = stored
  BY DEF HistorySettings, console
<1>2. Types /\ HistInv /\ Reading /\ PlanInv
  BY <1>1 DEF IInv, Reading, Histories
<1>3. got = << >> /\ job.newest = 0
  BY <1>1, <1>2 DEF HistInv
<1>4. PICK s \in Nat, here \in Nat : \E count \in 0..here : SettingsSay(s, here, count)
  BY SettingsRead
<1>5. s \in 0..MaxStored /\ s <= stored
  BY <1>4 DEF SettingsSay
<1>6. here = RecordCount(s) /\ here <= HistSlots /\ (here = 0 => s = 0)
  BY <1>4 DEF SettingsSay
<1>8. PICK count \in 0..here : SettingsSay(s, here, count) /\ (count = 0 => here = 0)
  BY <1>4 DEF SettingsSay
<1>9. /\ job' = [job EXCEPT !.count = count, !.newest = s]
      /\ IF count > 0 THEN Prepare("start", FALSE, RecordRow(0, s))
         ELSE pc' = pc /\ after' = after /\ plan' = plan /\ cur' = cur /\ p' = p
              /\ k' = k /\ r' = r /\ data' = data
  BY <1>8 DEF SettingsSay
<1>10. /\ job'.op = job.op /\ job'.req = job.req /\ job'.ask = job.ask
       /\ job'.writes = job.writes /\ job'.count = count /\ job'.newest = s
       /\ job' = [op |-> job'.op, req |-> job'.req, ask |-> job'.ask, writes |-> job'.writes,
                  count |-> job'.count, newest |-> job'.newest]
  <2>1. job = [op |-> job.op, req |-> job.req, ask |-> job.ask, writes |-> job.writes,
               count |-> job.count, newest |-> job.newest]
    BY <1>2, JobIs DEF Types
  <2> QED
    BY <1>9, <2>1
<1>11. JobType'
  <2>1. PICK j \in Jobs : job.op = j.op /\ job.req = j.req /\ job.ask = j.ask /\ job.writes = j.writes
    BY <1>2 DEF Types, JobType
  <2>2. count \in -1..HistSlots
    BY <1>6, <1>8, HistType
  <2> QED
    BY <1>5, <1>10, <2>1, <2>2 DEF JobType
<1>12. job.op # "set" /\ job.op \notin Batches
  BY <1>1 DEF Histories, Batches
<1>13. HistInv'
  <2>1. Len(got) = 0 /\ \A i : i \notin DOMAIN got
    BY <1>3
  <2>2. count \in 0..RecordCount(s) /\ 0 <= count /\ count # -1
    BY <1>6, <1>8
  <2> QED
    BY <1>1, <1>3, <1>5, <1>10, <2>1, <2>2 DEF HistInv
<1>14. CASE count > 0
  <2>1. /\ pc' = "reset" /\ after' = "start" /\ plan' = PlanOf(FALSE, RecordRow(0, s))
        /\ cur' = 1 /\ p' = 0 /\ k' = 0 /\ r' = 0
    BY <1>9, <1>14 DEF Prepare
  <2>2. PlanReady(PlanOf(FALSE, RecordRow(0, s)))
    <3>1. 0 < RecordCount(s) /\ 0 \in Nat
      BY <1>6, <1>8, <1>14
    <3> QED
      BY <1>5, <3>1, RecordReady
  <2>3. ReadInv'
    BY <2>1, <2>2, FreshRead
  <2>4. Types'
    <3>1. k' \in 0..MaxRetries - 1 /\ r' \in 0..MaxResets - 1
      BY <2>1, HistType
    <3>2. Epoch' = Epoch
      BY <1>1 DEF Epoch
    <3> QED
      BY <1>1, <1>2, <1>10, <1>11, <2>1, <3>1, <3>2 DEF Types
  <2>5. IdleInv'
    BY <2>1 DEF IdleInv
  <2>6. PlanInv'
    <3>1. Len(got') = 0
      BY <1>1, <1>3
    <3>2. count # -1
      BY <1>8
    <3> QED
      BY <1>1, <1>10, <1>12, <2>1, <3>1, <3>2 DEF PlanInv
  <2>7. SetInv'
    BY <1>10, <1>12, <2>1 DEF SetInv
  <2> QED
    BY <1>13, <2>3, <2>4, <2>5, <2>6, <2>7 DEF IInv
<1>15. CASE ~(count > 0)
  <2>1. /\ count = 0 /\ s = 0
        /\ pc' = pc /\ after' = after /\ plan' = plan /\ cur' = cur /\ p' = p
        /\ k' = k /\ r' = r /\ data' = data
    <3>1. count = 0
      BY <1>15
    <3>2. s = 0
      BY <1>6, <1>8, <3>1
    <3> QED
      BY <1>9, <1>15, <3>1, <3>2
  <2>2. Epoch' = Epoch
    BY <1>1 DEF Epoch
  <2>3. ReadSoFar'
    <3>1. ReadSoFar
      BY <1>2 DEF IInv, ReadInv
    <3>2. job'.newest = job.newest
      BY <1>3, <1>10, <2>1
    <3> QED
      BY <1>1, <1>2, <2>1, <2>2, <3>1, <3>2, Numbers, ReadKept
  <2>4. ReadInv'
    BY <1>1, <1>2, <2>1, <2>3 DEF IInv, ReadInv, PlanReady, AreasType, Apart
  <2>5. Types'
    BY <1>1, <1>2, <1>10, <1>11, <2>1, <2>2 DEF Types
  <2>6. IdleInv'
    BY <1>1, <2>1 DEF IdleInv
  <2>7. PlanInv'
    <3>1. Len(got') = 0
      BY <1>1, <1>3
    <3>2. ~(Len(got') < job'.count) /\ job'.count # -1
      BY <1>10, <2>1, <3>1
    <3> QED
      BY <1>1, <1>10, <1>12, <3>2 DEF PlanInv
  <2>8. SetInv'
    BY <1>1, <1>10, <1>12, <2>1 DEF SetInv
  <2> QED
    BY <1>13, <2>4, <2>5, <2>6, <2>7, <2>8 DEF IInv
<1> QED
  BY <1>14, <1>15

(* A record is read, dated by its place.                                   *)
LEMMA HistoryRecordStep ==
  ASSUME IInv, HistoryRecord
  PROVE  IInv'
PROOF
<1>1. /\ pc = "done" /\ job.op \in Histories /\ Len(got) < job.count
      /\ got' = <<[dated  |-> job.newest - Len(got),
                   record |-> {data[x][2] : x \in 0..HistSize - 1}]>> \o got
      /\ IF Len(got') < job.count
         THEN Prepare("start", FALSE, RecordRow(Len(got'), job.newest))
         ELSE pc' = pc /\ after' = after /\ plan' = plan /\ cur' = cur /\ p' = p
              /\ k' = k /\ r' = r /\ data' = data
      /\ line' = line /\ job' = job /\ missed' = missed /\ mem' = mem
      /\ images' = images /\ stored' = stored
  BY DEF HistoryRecord, console
<1>2. Types /\ HistInv /\ Reading /\ PlanInv
  BY <1>1 DEF IInv, Reading, Histories
<1>3. got \in Seq([dated : Int, record : SUBSET Int]) /\ Len(got) \in Nat
  BY <1>2 DEF Types
<1>4. PICK n \in Nat, count \in Int : n = job.newest /\ count = job.count
  BY <1>2, Numbers, JobIs, HistType DEF Types
<1>5. PICK i \in Nat : i = Len(got) /\ i < count
  BY <1>1, <1>3, <1>4
<1>6. PICK s0 \in Nat : s0 = stored
  BY <1>2, Numbers
<1>7. count # -1 /\ count <= RecordCount(n) /\ n <= s0 /\ count <= HistSlots /\ RecordCount(n) \in Nat
  <2>1. count # -1
    BY <1>5
  <2>2. RecordCount(n) \in Nat /\ RecordCount(n) <= HistSlots
    BY HistType DEF RecordCount
  <2>3. count \in 0..RecordCount(n) /\ n <= s0
    BY <1>1, <1>2, <1>4, <1>6, <2>1 DEF HistInv
  <2> QED
    BY <2>1, <2>2, <2>3, HistType
<1>8. i < RecordCount(n)
  BY <1>5, <1>7
<1>9. PICK v \in Int : /\ {data[x][2] : x \in 0..HistSize - 1} = {v}
                       /\ v = n - i \/ v \in n + 1..s0
  <2>1. PICK slot \in 0..HistSlots - 1, z \in Int :
              /\ n - 1 - i = HistSlots * z + slot
              /\ PlanOf(FALSE, RecordRow(i, n)).areas =
                   <<[addr |-> SlotsAt + HistSize * slot, nnyb |-> HistSize, at |-> 0]>>
    BY <1>8, RecordReady
  <2>2. plan = PlanOf(FALSE, RecordRow(i, n))
    BY <1>1, <1>2, <1>4, <1>5, <1>7 DEF PlanInv
  <2>3. PICK addr \in Nat : addr = SlotsAt + HistSize * slot
    BY HistType DEF SlotsAt, HistSize
  <2>4. PICK e \in Int, s \in job.newest..stored :
           \A x \in 0..HistSize - 1 : data[x] = <<addr + x, StampAt(addr + x, e, s)>>
    <3>1. HistSize \in Nat /\ HistSize <= MaxBlocks
      BY DEF HistSize, MaxBlocks
    <3>2. plan.areas = <<[addr |-> addr, nnyb |-> HistSize, at |-> 0]>>
      BY <2>1, <2>2, <2>3
    <3> QED
      BY <1>1, <3>1, <3>2, RowRead
  <2>5. s \in Nat /\ n <= s /\ s <= s0
    BY <1>4, <1>6
  <2>6. PICK v \in Int : v = s - ((s - 1 - slot) % HistSlots) /\ (v = n - i \/ v \in n + 1..s)
    <3>1. LET v == s - ((s - 1 - slot) % HistSlots) IN v = n - i \/ v \in n + 1..s
      BY <1>8, <2>1, <2>5, RecordThere
    <3>2. s - ((s - 1 - slot) % HistSlots) \in Int
      BY <3>1, <2>5
    <3> QED
      BY <3>1, <3>2
  <2>7. ASSUME NEW x \in 0..HistSize - 1
        PROVE  data[x][2] = v
    <3>1. data[x] = <<addr + x, StampAt(addr + x, e, s)>>
      BY <2>4
    <3>2. HistSize = 19 /\ SlotsAt = 1734 /\ SettingsAt = 1714
      BY DEF HistSize, SlotsAt, SettingsAt
    <3>3. PICK a \in Nat : a = addr + x
      BY <3>2
    <3>4. (a - SlotsAt) \div HistSize = slot /\ ~(a < SettingsAt) /\ ~(a < SlotsAt)
      BY <2>3, <3>2, <3>3, HistType
    <3>5. StampAt(a, e, s) = s - ((s - 1 - ((a - SlotsAt) \div HistSize)) % HistSlots)
      BY <3>4 DEF StampAt
    <3>6. StampAt(a, e, s) = v
      BY <2>6, <3>4, <3>5, Zenon
    <3>7. StampAt(addr + x, e, s) = v
      BY <3>3, <3>6
    <3> QED
      BY <3>1, <3>7
  <2>8. 0 \in 0..HistSize - 1
    BY DEF HistSize
  <2>9. {data[x][2] : x \in 0..HistSize - 1} = {v}
    BY <2>7, <2>8
  <2>10. v = n - i \/ v \in n + 1..s0
    BY <2>5, <2>6
  <2> QED
    BY <2>9, <2>10
<1>10. PICK rec : rec = [dated |-> n - i, record |-> {v}]
  OBVIOUS
<1>11. rec.dated = n - i /\ rec.record = {v} /\ rec \in [dated : Int, record : SUBSET Int]
  BY <1>10
<1>12. got' = <<rec>> \o got
  BY <1>1, <1>4, <1>5, <1>9, <1>10
<1>13. /\ got' \in Seq([dated : Int, record : SUBSET Int]) /\ Len(got') = i + 1
       /\ DOMAIN got' = 1..i + 1 /\ got'[1] = rec
       /\ \A x \in 2..i + 1 : got'[x] = got[x - 1] /\ x - 1 \in DOMAIN got
  BY <1>3, <1>5, <1>11, <1>12
<1>14. HistInv'
  <2>1. ASSUME NEW x \in 1..i + 1
        PROVE  /\ got'[x].dated = n - (i + 1) + x
               /\ \/ got'[x].record = {got'[x].dated}
                  \/ \E y \in n + 1..s0 : got'[x].record = {y}
    <3>1. CASE x = 1
      <4>1. got'[x] = rec /\ n - (i + 1) + x = n - i
        BY <1>13, <3>1
      <4> QED
        BY <1>9, <1>11, <4>1
    <3>2. CASE x # 1
      <4>1. x \in 2..i + 1
        BY <3>2
      <4>2. got'[x] = got[x - 1] /\ x - 1 \in DOMAIN got
        BY <1>13, <4>1
      <4>3. /\ got[x - 1].dated = n - i + (x - 1)
            /\ \/ got[x - 1].record = {got[x - 1].dated}
               \/ \E y \in n + 1..s0 : got[x - 1].record = {y}
        BY <1>1, <1>2, <1>4, <1>5, <1>6, <1>7, <4>2 DEF HistInv
      <4>4. n - i + (x - 1) = n - (i + 1) + x
        OBVIOUS
      <4> QED
        BY <4>2, <4>3, <4>4
    <3> QED
      BY <3>1, <3>2
  <2>2. i + 1 <= count
    BY <1>5
  <2>3. count \in 0..RecordCount(n)
    BY <1>5, <1>7
  <2>4. job'.op \in Histories /\ job'.count = count /\ job'.newest = n /\ stored' = s0
        /\ Len(got') = i + 1 /\ DOMAIN got' = 1..i + 1
    BY <1>1, <1>4, <1>6, <1>13
  <2>5. count # -1 /\ n <= s0
    BY <1>7
  <2> QED
    BY <2>1, <2>2, <2>3, <2>4, <2>5 DEF HistInv
<1>15. job.op # "set" /\ job.op \notin Batches
  BY <1>1 DEF Histories, Batches
<1>16. JobType' /\ Epoch' = Epoch
  BY <1>1, <1>2 DEF Types, JobType, Epoch
<1>17. CASE i + 1 < count
  <2>1. /\ pc' = "reset" /\ after' = "start" /\ plan' = PlanOf(FALSE, RecordRow(i + 1, n))
        /\ cur' = 1 /\ p' = 0 /\ k' = 0 /\ r' = 0
    <3>1. Prepare("start", FALSE, RecordRow(i + 1, n))
      BY <1>1, <1>4, <1>13, <1>17
    <3> QED
      BY <3>1 DEF Prepare
  <2>2. PlanReady(PlanOf(FALSE, RecordRow(i + 1, n)))
    <3>1. i + 1 \in Nat /\ i + 1 < RecordCount(n)
      BY <1>7, <1>17
    <3> QED
      BY <3>1, RecordReady
  <2>3. ReadInv'
    BY <2>1, <2>2, FreshRead
  <2>4. Types'
    <3>1. k' \in 0..MaxRetries - 1 /\ r' \in 0..MaxResets - 1
      BY <2>1, HistType
    <3> QED
      BY <1>1, <1>2, <1>13, <1>16, <2>1, <3>1 DEF Types
  <2>5. IdleInv' /\ SetInv'
    BY <1>1, <1>15, <2>1 DEF IdleInv, SetInv
  <2>6. PlanInv'
    <3>1. job'.count # -1 /\ Len(got') = i + 1 /\ job'.newest = n /\ job'.op = job.op
      BY <1>1, <1>4, <1>7, <1>13
    <3> QED
      BY <1>1, <1>15, <2>1, <3>1 DEF PlanInv
  <2> QED
    BY <1>14, <2>3, <2>4, <2>5, <2>6 DEF IInv
<1>18. CASE ~(i + 1 < count)
  <2>1. /\ pc' = pc /\ after' = after /\ plan' = plan /\ cur' = cur /\ p' = p
        /\ k' = k /\ r' = r /\ data' = data
    BY <1>1, <1>4, <1>13, <1>18
  <2>2. ReadSoFar'
    <3>1. ReadSoFar
      BY <1>2 DEF IInv, ReadInv
    <3> QED
      BY <1>1, <1>2, <1>16, <2>1, <3>1, Numbers, ReadKept
  <2>3. ReadInv'
    BY <1>1, <1>2, <2>1, <2>2 DEF IInv, ReadInv, PlanReady, AreasType, Apart
  <2>4. Types'
    BY <1>1, <1>2, <1>13, <1>16, <2>1 DEF Types
  <2>5. IdleInv' /\ SetInv'
    BY <1>1, <1>15, <2>1 DEF IdleInv, SetInv
  <2>6. PlanInv'
    <3>1. job'.count # -1 /\ ~(Len(got') < job'.count) /\ job'.op = job.op
      BY <1>1, <1>4, <1>7, <1>13, <1>18
    <3> QED
      BY <1>1, <1>15, <3>1 DEF PlanInv
  <2> QED
    BY <1>14, <2>3, <2>4, <2>5, <2>6 DEF IInv
<1> QED
  BY <1>17, <1>18

LEMMA InvInit == Init => IInv
PROOF
<1> SUFFICES ASSUME Init
             PROVE  IInv
  OBVIOUS
<1>1. /\ line = "free" /\ pc = "idle" /\ job = NoJob /\ after = "start"
      /\ cur = 1 /\ p = 0 /\ k = 0 /\ r = 0 /\ got = << >> /\ missed = {} /\ stored = 0
  BY DEF Init
<1>2. PICK image \in Images : images = <<image>>
  BY DEF Init
<1>3. NoJob.op = "none" /\ NoJob.count = -1 /\ NoJob.newest = 0
      /\ NoJob = [op |-> NoJob.op, req |-> NoJob.req, ask |-> NoJob.ask,
                  writes |-> NoJob.writes, count |-> -1, newest |-> 0]
  BY DEF NoJob, Job
<1>4. JobType
  <2>1. NoJob \in Jobs /\ -1 \in -1..HistSlots /\ 0 \in 0..MaxStored
    BY HistType DEF Jobs
  <2> QED
    BY <1>1, <1>3, <2>1 DEF JobType
<1>5. images \in Seq(Images) /\ Epoch \in 1..MaxEpoch
  <2>1. images \in Seq(Images) /\ Len(images) = 1
    BY <1>2
  <2> QED
    BY <2>1, HistType DEF Epoch
<1>6. k \in 0..MaxRetries - 1 /\ r \in 0..MaxResets - 1 /\ stored \in 0..MaxStored
  BY <1>1, HistType
<1>7. Types
  BY <1>1, <1>4, <1>5, <1>6 DEF Types
<1>8. IdleInv /\ ReadInv /\ PlanInv
  BY <1>1 DEF IdleInv, ReadInv, PlanInv, Reading
<1>9. HistInv /\ SetInv
  BY <1>1, <1>3 DEF HistInv, SetInv
<1> QED
  BY <1>7, <1>8, <1>9 DEF IInv

(* Every step keeps the invariant.                                         *)
LEMMA InvNext == IInv /\ [Next]_vars => IInv'
PROOF
<1> SUFFICES ASSUME IInv, [Next]_vars
             PROVE  IInv'
  OBVIOUS
<1>1. CASE LinkStep
  BY <1>1, ResetStep, EndStep, ReadOkStep, ReadFailsStep, WriteOkStep, WriteFailsStep,
     HistorySettingsStep, HistoryRecordStep DEF LinkStep
<1>2. ASSUME NEW j \in DaemonJobs \cup ToolJobs, Call(j)
      PROVE  IInv'
  BY <1>2, CallStep
<1>3. CASE Opens("daemon") \/ Opens("tool") \/ Closes \/ UNCHANGED vars
  BY <1>3, LineStep
<1>4. CASE Refresh
  BY <1>4, RefreshStep
<1>5. CASE Store
  BY <1>5, StoreStep
<1> QED
  BY <1>1, <1>2, <1>3, <1>4, <1>5 DEF Next

LEMMA InvAlways == Spec => []IInv
BY InvInit, InvNext, PTL DEF Spec

---------------------------------------------------------------------------
(* The properties of the runs. *)

(* The library keeps to its types: the call under way is one of the calls  *)
(* of the driver or the tool, its tries and resets stay below their limits *)
(* (ws23xx_read_safe, ws23xx_write_safe, ws23xx_reset_06).                 *)
THEOREM Ws23xxTypeOK == Spec => []TypeOK
PROOF
<1>1. IInv => TypeOK
  <2> SUFFICES ASSUME IInv
               PROVE  TypeOK
    OBVIOUS
  <2>1. Types
    BY DEF IInv
  <2>2. PICK j \in Jobs, count \in -1..HistSlots, newest \in 0..MaxStored :
             job = [op |-> j.op, req |-> j.req, ask |-> j.ask, writes |-> j.writes,
                    count |-> count, newest |-> newest]
    BY <2>1 DEF Types, JobType
  <2>3. job.count = count /\ job.newest = newest
    BY <2>2
  <2>4. Job(job.op, job.req, job.ask, job.writes) =
          [op |-> j.op, req |-> j.req, ask |-> j.ask, writes |-> j.writes,
           count |-> -1, newest |-> 0]
    BY <2>2 DEF Job
  <2>5. j = [op |-> j.op, req |-> j.req, ask |-> j.ask, writes |-> j.writes,
             count |-> -1, newest |-> 0]
    BY JobsOK DEF JobOK
  <2>6. Job(job.op, job.req, job.ask, job.writes) \in {NoJob} \cup DaemonJobs \cup ToolJobs
    BY <2>2, <2>4, <2>5 DEF Jobs
  <2> QED
    BY <2>1, <2>3, <2>6 DEF Types, TypeOK
<1> QED
  BY <1>1, InvAlways, PTL

(* When a write ends with 0, the nybbles of every command that did not use *)
(* up its tries are in the console, whatever went wrong on the line before *)
(* (ws23xx_write_safe).                                                    *)
THEOREM Ws23xxWriteDone == Spec => []WriteDone
PROOF
<1>1. IInv => WriteDone
  <2> SUFFICES ASSUME IInv, pc = "done", job.op = "set",
                      NEW n \in DOMAIN job.writes \ missed,
                      NEW i \in 1..job.writes[n].nnyb
               PROVE  IsWritten(n, i)
    BY DEF WriteDone, IsWritten
  <2>1. SetInv /\ JobType
    BY DEF IInv, Types
  <2>2. WritesOK(job.writes)
    BY <2>1, JobIs
  <2>3. cur = Len(job.writes) + 1 /\ Len(job.writes) \in Nat /\ n \in 1..Len(job.writes)
    BY <2>1, <2>2 DEF SetInv, WritesOK
  <2>4. n < cur
    BY <2>3
  <2> QED
    BY <2>1, <2>4 DEF SetInv
<1> QED
  BY <1>1, InvAlways, PTL

(* A record of the history is dated with its own sample, or was stored     *)
(* over after the settings were read, and the records go up in time        *)
(* (ws23xx_fetch_ar, hist_addr), however the slots wrap.                   *)
THEOREM Ws23xxHistoryDated == Spec => []HistoryDated
PROOF
<1>1. IInv => HistoryDated
  <2> SUFFICES ASSUME IInv
               PROVE  HistoryDated
    OBVIOUS
  <2>1. Types /\ HistInv
    BY DEF IInv
  <2>2. CASE job.op \notin Histories \/ job.count = -1
    <3>1. got = << >>
      BY <2>1, <2>2 DEF HistInv
    <3>2. DOMAIN got = {}
      BY <3>1
    <3> QED
      BY <3>2 DEF HistoryDated
  <2>3. CASE job.op \in Histories /\ job.count # -1
    <3>1. \A i \in DOMAIN got :
              /\ got[i].dated = job.newest - Len(got) + i
              /\ \/ got[i].record = {got[i].dated}
                 \/ \E n \in job.newest + 1..stored : got[i].record = {n}
      BY <2>1, <2>3 DEF HistInv
    <3>2. PICK n \in Int : n = job.newest
      BY <2>1, Numbers
    <3>3. got \in Seq([dated : Int, record : SUBSET Int])
      BY <2>1 DEF Types
    <3>4. PICK l \in Nat : l = Len(got) /\ DOMAIN got = 1..l
      BY <3>3
    <3>5. ASSUME NEW i \in DOMAIN got, NEW j \in DOMAIN got, i < j
          PROVE  got[i].dated < got[j].dated
      <4>1. got[i].dated = n - l + i /\ got[j].dated = n - l + j
        BY <3>1, <3>2, <3>4
      <4>2. i \in Nat /\ j \in Nat
        BY <3>4
      <4>3. n - l + i < n - l + j
        BY <3>5, <4>2
      <4> QED
        BY <4>1, <4>3
    <3> QED
      BY <3>1, <3>5 DEF HistoryDated
  <2> QED
    BY <2>2, <2>3
<1> QED
  BY <1>1, InvAlways, PTL

(* A request of a batch that is read has its nybbles where its area has.   *)
LEMMA RequestRead ==
  ASSUME IInv, Batch, NEW j \in DOMAIN job.req
  PROVE  /\ job.req \in Seq(Requests) /\ NoneInside(job.req) /\ plan = Plan(job.req)
         /\ PlanReady(plan)
         /\ \E x \in DOMAIN plan.areas : Holds(job.req, plan, j, x)
         /\ \A x \in DOMAIN plan.areas, m \in Nat : ChunkRead(x, MaxBlocks * m)
PROOF
<1>1. Reading /\ job.op \in Batches /\ pc = "done"
  BY DEF Batch, Batches, Reading
<1>2. Types /\ ReadInv /\ PlanInv
  BY DEF IInv
<1>3. job.req \in Seq(Requests) /\ NoneInside(job.req)
  BY <1>1, <1>2, JobIs DEF Types
<1>4. plan = Plan(job.req)
  BY <1>1, <1>2 DEF PlanInv
<1>5. PlanReady(plan) /\ cur = Len(plan.areas) + 1 /\ ReadSoFar
  BY <1>1, <1>2 DEF ReadInv
<1>6. \E x \in DOMAIN plan.areas : Holds(job.req, plan, j, x)
  <2>1. /\ Good(job.req, plan, Reach(job.req, Len(job.req)))
        /\ job.req[j].addr <= Reach(job.req, Len(job.req))
    BY <1>3, <1>4, PlanGood
  <2> QED
    BY <2>1 DEF Good, Placed
<1>7. ASSUME NEW x \in DOMAIN plan.areas, NEW m \in Nat
      PROVE  ChunkRead(x, MaxBlocks * m)
  <2>1. PICK l \in Nat : l = Len(plan.areas) /\ DOMAIN plan.areas = 1..l /\ cur = l + 1
    BY <1>5, PlanReadyType
  <2>2. x < cur
    BY <2>1
  <2> QED
    BY <1>5, <2>2 DEF ReadSoFar
<1> QED
  BY <1>3, <1>4, <1>5, <1>6, <1>7

(* ... each nybble of its own address.                                     *)
LEMMA NybbleRead ==
  ASSUME NEW x \in DOMAIN plan.areas, NEW m \in Nat, NEW q \in Nat, q < plan.areas[x].nnyb,
         MaxBlocks * m <= q, q < MaxBlocks * m + MaxBlocks, ChunkRead(x, MaxBlocks * m)
  PROVE  \E e \in 1..Epoch, s \in job.newest..stored :
           /\ 2 * plan.areas[x].at + q \in DOMAIN data
           /\ data[2 * plan.areas[x].at + q] =
                <<plan.areas[x].addr + q, StampAt(plan.areas[x].addr + q, e, s)>>
PROOF
<1>1. q \in MaxBlocks * m..MaxBlocks * m + MaxBlocks - 1
  BY DEF MaxBlocks
<1> QED
  BY <1>1 DEF ChunkRead

(* The cell of a nybble of a request, in its area.                         *)
LEMMA Cell ==
  ASSUME IInv, Batch, NEW j \in DOMAIN job.req, NEW i \in 0..job.req[j].nnyb - 1,
         NEW x \in DOMAIN plan.areas, Holds(job.req, plan, j, x)
  PROVE  \E q \in Nat : /\ q < plan.areas[x].nnyb
                        /\ plan.areas[x].addr + q = job.req[j].addr + i
                        /\ 2 * plan.areas[x].at + q = plan.off[j] + i
                        /\ job.req[j].addr + i \in Nat
PROOF
<1>1. PICK a \in Nat, n \in Nat : a = job.req[j].addr /\ n = job.req[j].nnyb /\ End(job.req[j]) = a + n
  BY RequestRead, ReqType DEF End
<1>2. PICK ax \in Nat, at \in Nat, nx \in Nat : ax = plan.areas[x].addr /\ at = plan.areas[x].at /\ nx = plan.areas[x].nnyb
  BY RequestRead, PlanReadyType
<1>3. ax <= a /\ a + n <= ax + nx /\ plan.off[j] = 2 * at + a - ax
  BY <1>1, <1>2 DEF Holds, EndOf
<1>4. i \in Nat /\ i < n
  BY <1>1
<1>5. PICK q \in Nat : q = a - ax + i
  BY <1>3, <1>4
<1>6. q < nx /\ ax + q = a + i /\ 2 * at + q = 2 * at + a - ax + i /\ a + i \in Nat
  BY <1>3, <1>4, <1>5
<1> QED
  BY <1>1, <1>2, <1>3, <1>6

(* Whatever order the requests come in, however they overlap and however   *)
(* often the exchanges are tried, each caller's buffer is filled with the  *)
(* nybbles of its own addresses (ws23xx_read_batch): the plan places every *)
(* request in an area, and every exchange of every area is read.           *)
THEOREM Ws23xxBatchOwn == Spec => []BatchOwn
PROOF
<1>1. IInv => BatchOwn
  <2> SUFFICES ASSUME IInv, Batch, NEW j \in DOMAIN job.req, NEW i \in 0..job.req[j].nnyb - 1
               PROVE  /\ plan.off[j] + i \in DOMAIN data /\ data[plan.off[j] + i] # Damaged
                      /\ data[plan.off[j] + i][1] = job.req[j].addr + i
    BY DEF BatchOwn
  <2>1. PICK x \in DOMAIN plan.areas : Holds(job.req, plan, j, x)
    BY RequestRead
  <2>2. PICK q \in Nat : /\ q < plan.areas[x].nnyb
                         /\ plan.areas[x].addr + q = job.req[j].addr + i
                         /\ 2 * plan.areas[x].at + q = plan.off[j] + i
                         /\ job.req[j].addr + i \in Nat
    BY <2>1, Cell
  <2>3. PICK m \in Nat, w \in 0..29 : q = 30 * m + w
    <3>1. PICK m \in Int, w \in 0..30 - 1 : q % 30 = w /\ q = 30 * m + w
      <4>1. q \in Int /\ 30 \in Int /\ 30 > 0
        OBVIOUS
      <4> QED
        BY <4>1, DivMod, Zenon
    <3>2. m >= 0
      BY <3>1
    <3> QED
      BY <3>1, <3>2
  <2>4. MaxBlocks * m <= q /\ q < MaxBlocks * m + MaxBlocks
    BY <2>3 DEF MaxBlocks
  <2>5. ChunkRead(x, MaxBlocks * m)
    BY RequestRead
  <2>6. PICK e \in 1..Epoch, s \in job.newest..stored :
              /\ 2 * plan.areas[x].at + q \in DOMAIN data
              /\ data[2 * plan.areas[x].at + q] =
                   <<plan.areas[x].addr + q, StampAt(plan.areas[x].addr + q, e, s)>>
    BY <2>2, <2>4, <2>5, NybbleRead
  <2>7. /\ plan.off[j] + i \in DOMAIN data
        /\ data[plan.off[j] + i] = <<job.req[j].addr + i, StampAt(plan.areas[x].addr + q, e, s)>>
    BY <2>2, <2>6
  <2>8. job.req[j].addr + i # -1
    BY <2>2
  <2> QED
    BY <2>7, <2>8 DEF Damaged
<1> QED
  BY <1>1, InvAlways, PTL

(* No area of a reading is longer than six nybbles.                        *)
LEMMA RtSpan ==
  ASSUME NEW pl, Starts(RtTable, pl), \A x \in DOMAIN pl.areas : Spans(RtTable, pl, x),
         NEW x \in DOMAIN pl.areas, NEW a \in Nat, NEW n \in Nat,
         pl.areas[x].addr = a, EndOf(pl.areas[x]) = a + n
  PROVE  n <= 6
PROOF
<1>1. PICK i \in 1..13, w \in Nat : IsRtRow(i, a, w)
  <2>1. PICK i \in 1..13 : a = RtTable[i].addr
    BY RtRows DEF Starts
  <2> QED
    BY <2>1, RtRows
<1>2. SUFFICES ASSUME 6 < n
               PROVE  FALSE
  OBVIOUS
<1>3. PICK j \in DOMAIN RtTable : RtTable[j].addr <= (a + 6) + Gap /\ a + 6 < End(RtTable[j])
  <2>1. a + 6 \in Nat /\ a <= a + 6 /\ a + 6 < a + n
    BY <1>2
  <2> QED
    BY <2>1 DEF Spans
<1>4. PICK y \in Nat, m \in Nat : RtTable[j].addr = y /\ End(RtTable[j]) = y + m /\ IsRtRow(j, y, m)
  BY RtRows
<1>5. y <= a + 17 /\ a + 6 < y + m
  BY <1>3, <1>4 DEF Gap
<1> QED
  BY <1>1, <1>4, <1>5 DEF IsRtRow

(* Requests of which each begins within the gap of the other one's end are *)
(* in one area.                                                            *)
LEMMA OneAreaHolds ==
  ASSUME NEW req \in Seq(Requests), NEW pl, PlanReady(pl),
         NEW i \in DOMAIN req, NEW j \in DOMAIN req,
         NEW x \in DOMAIN pl.areas, NEW y \in DOMAIN pl.areas,
         Holds(req, pl, i, x), Holds(req, pl, j, y),
         req[i].addr <= End(req[j]) + Gap, req[j].addr <= End(req[i]) + Gap
  PROVE  x = y
PROOF
<1>1. PICK ai \in Nat, ni \in Nat : req[i].addr = ai /\ End(req[i]) = ai + ni
  BY ReqType DEF End
<1>2. PICK aj \in Nat, nj \in Nat : req[j].addr = aj /\ End(req[j]) = aj + nj
  BY ReqType DEF End
<1>3. PICK a \in Nat, n \in Nat : a = pl.areas[x].addr /\ EndOf(pl.areas[x]) = a + n
  BY PlanReadyType DEF EndOf
<1>4. PICK c \in Nat, m \in Nat : c = pl.areas[y].addr /\ EndOf(pl.areas[y]) = c + m
  BY PlanReadyType DEF EndOf
<1>5. a <= ai /\ ai + ni <= a + n /\ c <= aj /\ aj + nj <= c + m
  BY <1>1, <1>2, <1>3, <1>4 DEF Holds
<1>6. ai <= aj + nj + Gap /\ aj <= ai + ni + Gap
  BY <1>1, <1>2
<1>7. x < y => a + n + Gap < c
  BY <1>3, <1>4 DEF PlanReady, Apart
<1>8. y < x => c + m + Gap < a
  BY <1>3, <1>4 DEF PlanReady, Apart
<1>9. x \in Int /\ y \in Int
  BY PlanReadyType
<1>10. ~(x < y) /\ ~(y < x)
  BY <1>5, <1>6, <1>7, <1>8 DEF Gap
<1> QED
  BY <1>9, <1>10

(* The stamps of the requests in one area of a reading are one.            *)
LEMMA OneStamp ==
  ASSUME IInv, Batch, job.op = "rt", NEW x \in DOMAIN plan.areas
  PROVE  \E e \in 1..Epoch : \A j \in DOMAIN job.req :
           Holds(job.req, plan, j, x) => Stamps(j) = {e}
PROOF
<1>1. job.req = RtTable /\ 1 \in DOMAIN job.req
  BY JobIs, RtRows DEF IInv, Types
<1>2. plan = Plan(RtTable) /\ PlanReady(plan) /\ ChunkRead(x, MaxBlocks * 0)
  BY <1>1, RequestRead
<1>3. PICK a \in Nat, n \in Nat : a = plan.areas[x].addr /\ n = plan.areas[x].nnyb /\ EndOf(plan.areas[x]) = a + n
  BY <1>2, PlanReadyType DEF EndOf
<1>4. n <= 6
  <2>1. Good(RtTable, plan, Reach(RtTable, Len(RtTable)))
    BY <1>2, RtReq, PlanGood
  <2> QED
    BY <1>3, <2>1, RtSpan DEF Good
<1>5. PICK e \in 1..Epoch, s \in job.newest..stored :
        \A i \in MaxBlocks * 0..MaxBlocks * 0 + MaxBlocks - 1 : i < plan.areas[x].nnyb =>
            /\ 2 * plan.areas[x].at + i \in DOMAIN data
            /\ data[2 * plan.areas[x].at + i] =
                 <<plan.areas[x].addr + i, StampAt(plan.areas[x].addr + i, e, s)>>
  BY <1>2 DEF ChunkRead
<1>6. ASSUME NEW j \in DOMAIN job.req, Holds(job.req, plan, j, x)
      PROVE  Stamps(j) = {e}
  <2>1. PICK y \in Nat, m \in Nat \ {0} : job.req[j].addr = y /\ job.req[j].nnyb = m /\ IsRtRow(j, y, m)
    BY <1>1, RtRows
  <2>2. ASSUME NEW i \in 0..job.req[j].nnyb - 1
        PROVE  data[plan.off[j] + i][2] = e
    <3>1. PICK q \in Nat : /\ q < plan.areas[x].nnyb
                           /\ plan.areas[x].addr + q = job.req[j].addr + i
                           /\ 2 * plan.areas[x].at + q = plan.off[j] + i
                           /\ job.req[j].addr + i \in Nat
      BY <1>6, Cell
    <3>2. q \in MaxBlocks * 0..MaxBlocks * 0 + MaxBlocks - 1
      BY <1>3, <1>4, <3>1 DEF MaxBlocks
    <3>3. data[plan.off[j] + i] = <<job.req[j].addr + i, StampAt(job.req[j].addr + i, e, s)>>
      BY <1>5, <3>1, <3>2
    <3>4. job.req[j].addr + i < SettingsAt
      BY <2>1 DEF IsRtRow, SettingsAt
    <3>5. StampAt(job.req[j].addr + i, e, s) = e
      BY <3>4 DEF StampAt
    <3> QED
      BY <3>3, <3>5
  <2>3. 0 \in 0..job.req[j].nnyb - 1
    BY <2>1
  <2> QED
    BY <2>2, <2>3 DEF Stamps
<1> QED
  BY <1>6

(* No field of a reading is torn by a refresh of the console, and the      *)
(* wind's flags are of the same reading as its speed and direction         *)
(* (ws23xx_get_rt): a plan for the table has areas of one exchange, and    *)
(* one area for the wind's four fields.                                    *)
THEOREM Ws23xxFieldsWhole == Spec => []FieldsWhole
PROOF
<1>1. IInv => FieldsWhole
  <2> SUFFICES ASSUME IInv, Batch, job.op = "rt"
               PROVE  /\ \A j \in DOMAIN job.req : Cardinality(Stamps(j)) = 1
                      /\ Cardinality(UNION {Stamps(j) : j \in 8..11}) = 1
    BY DEF FieldsWhole
  <2>1. job.req = RtTable /\ DOMAIN job.req = 1..13
    BY JobIs, RtRows DEF IInv, Types
  <2>2. ASSUME NEW j \in DOMAIN job.req
        PROVE  Cardinality(Stamps(j)) = 1
    <3>1. PICK x \in DOMAIN plan.areas : Holds(job.req, plan, j, x)
      BY RequestRead
    <3>2. PICK e : Stamps(j) = {e}
      BY <3>1, OneStamp
    <3> QED
      BY <3>2, FS_Singleton
  <2>3. Cardinality(UNION {Stamps(j) : j \in 8..11}) = 1
    <3>1. PICK x \in DOMAIN plan.areas : Holds(job.req, plan, 8, x)
      BY <2>1, RequestRead
    <3>2. PICK e : \A j \in DOMAIN job.req : Holds(job.req, plan, j, x) => Stamps(j) = {e}
      BY OneStamp
    <3>3. ASSUME NEW j \in 8..11
          PROVE  Stamps(j) = {e}
      <4>0. j \in 1..13 /\ 8 \in 1..13
        OBVIOUS
      <4>1. j \in DOMAIN job.req /\ 8 \in DOMAIN job.req
        BY <2>1, <4>0
      <4>2. PICK y \in DOMAIN plan.areas : Holds(job.req, plan, j, y)
        BY <4>1, RequestRead
      <4>3. PlanReady(plan) /\ job.req \in Seq(Requests)
        BY <4>1, RequestRead
      <4>6. PICK ai \in Nat, ni \in Nat : RtTable[8].addr = ai /\ End(RtTable[8]) = ai + ni /\ IsRtRow(8, ai, ni)
        BY <4>0, RtRows
      <4>7. PICK aj \in Nat, nj \in Nat : RtTable[j].addr = aj /\ End(RtTable[j]) = aj + nj /\ IsRtRow(j, aj, nj)
        BY <4>0, RtRows
      <4>8. ai <= aj + nj + Gap /\ aj <= ai + ni + Gap
        BY <4>6, <4>7 DEF IsRtRow, Gap
      <4>9. /\ job.req[8].addr <= End(job.req[j]) + Gap
            /\ job.req[j].addr <= End(job.req[8]) + Gap
        BY <2>1, <4>6, <4>7, <4>8
      <4>11. x = y
        BY <3>1, <4>1, <4>2, <4>3, <4>9, OneAreaHolds, Zenon
      <4> QED
        BY <3>2, <4>1, <4>2, <4>11
    <3>4. UNION {Stamps(j) : j \in 8..11} = {e}
      <4>1. 8 \in 8..11
        OBVIOUS
      <4> QED
        BY <3>3, <4>1
    <3> QED
      BY <3>4, FS_Singleton
  <2> QED
    BY <2>2, <2>3
<1> QED
  BY <1>1, InvAlways, PTL

---------------------------------------------------------------------------
(* The size of the buffer. *)

(* The bytes of the requests up to address b, summed in their order.       *)
IsSum(f, req, b) ==
    /\ f \in [0..Len(req) -> Nat] /\ f[0] = 0
    /\ \A m \in 1..Len(req) :
         f[m] = f[m - 1] + (IF req[m].addr <= b THEN Bytes(req[m].nnyb) ELSE 0)

LEMMA Weight ==
  ASSUME NEW req \in Seq(Requests), NEW m \in 1..Len(req), NEW b
  PROVE  /\ Bytes(req[m].nnyb) \in Nat
         /\ (IF req[m].addr <= b THEN Bytes(req[m].nnyb) ELSE 0) \in Nat
PROOF
<1>1. PICK n \in Nat : n = req[m].nnyb
  BY ReqType
<1>2. Bytes(n) \in Nat
  BY BytesOf
<1> QED
  BY <1>1, <1>2

LEMMA SumType ==
  ASSUME NEW req \in Seq(Requests), NEW b, NEW f, IsSum(f, req, b)
  PROVE  f[Len(req)] \in Nat
PROOF
<1>1. Len(req) \in 0..Len(req)
  BY ReqType
<1>2. f \in [0..Len(req) -> Nat]
  BY DEF IsSum
<1> QED
  BY <1>1, <1>2

LEMMA SumExists ==
  ASSUME NEW req \in Seq(Requests), NEW b \in Int
  PROVE  \E f : IsSum(f, req, b)
PROOF
<1> DEFINE W(m) == IF req[m].addr <= b THEN Bytes(req[m].nnyb) ELSE 0
           Sums(f, m) == f[0] = 0 /\ \A i \in 1..m : f[i] = f[i - 1] + W(i)
           T == {m \in 0..Len(req) : \E f \in [0..m -> Nat] : Sums(f, m)}
<1>1. \A m \in 1..Len(req) : W(m) \in Nat
  BY Weight
<1> HIDE DEF W
<1>2. 0 \in T
  <2>1. [i \in 0..0 |-> 0] \in [0..0 -> Nat] /\ Sums([i \in 0..0 |-> 0], 0)
    OBVIOUS
  <2>2. 0 \in 0..Len(req)
    BY ReqType
  <2> QED
    BY <2>1, <2>2, Zenon
<1>3. ASSUME NEW m \in 0..Len(req) - 1, m \in T
      PROVE  m + 1 \in T
  <2>1. PICK f \in [0..m -> Nat] : Sums(f, m)
    BY <1>3
  <2>2. m \in Nat /\ m + 1 \in 1..Len(req) /\ m + 1 \in 0..Len(req)
    BY ReqType
  <2>3. W(m + 1) \in Nat /\ f[m] \in Nat
    BY <1>1, <2>2
  <2> DEFINE h == [i \in 0..m + 1 |-> IF i = m + 1 THEN f[m] + W(m + 1) ELSE f[i]]
  <2>4. h \in [0..m + 1 -> Nat]
    BY <2>2, <2>3
  <2>5. h[0] = 0
    BY <2>1, <2>2
  <2>6. ASSUME NEW i \in 1..m + 1
        PROVE  h[i] = h[i - 1] + W(i)
    <3>1. CASE i = m + 1
      <4>1. h[i] = f[m] + W(m + 1) /\ h[i - 1] = f[m]
        BY <2>2, <3>1
      <4> QED
        BY <3>1, <4>1
    <3>2. CASE i # m + 1
      <4>1. i \in 1..m /\ h[i] = f[i] /\ h[i - 1] = f[i - 1]
        BY <2>2, <3>2
      <4> QED
        BY <2>1, <4>1
    <3> QED
      BY <3>1, <3>2
  <2> HIDE DEF h
  <2>7. \E g \in [0..m + 1 -> Nat] : Sums(g, m + 1)
    BY <2>4, <2>5, <2>6, Zenon
  <2> QED
    BY <2>2, <2>7, Zenon
<1>4. Len(req) \in T
  <2> HIDE DEF T
  <2>1. Len(req) \in Nat
    BY ReqType
  <2>2. \A i \in 0..Len(req) : i \in T
    BY <1>2, <1>3, <2>1, UpTo, Zenon
  <2> QED
    BY <2>1, <2>2
<1>5. PICK f \in [0..Len(req) -> Nat] : Sums(f, Len(req))
  BY <1>4
<1> QED
  BY <1>5 DEF W, IsSum

(* A request between the addresses adds its bytes to the sum.              *)
LEMMA SumGrows ==
  ASSUME NEW req \in Seq(Requests), NEW a \in Int, NEW b \in Int, NEW i \in DOMAIN req,
         b < req[i].addr, req[i].addr <= a, NEW f, NEW g, IsSum(f, req, b), IsSum(g, req, a)
  PROVE  f[Len(req)] + Bytes(req[i].nnyb) <= g[Len(req)]
PROOF
<1>1. Len(req) \in Nat /\ DOMAIN req = 1..Len(req) /\ \A j \in DOMAIN req : req[j].addr \in Nat
  BY ReqType
<1>2. PICK w \in Nat : w = Bytes(req[i].nnyb)
  BY <1>1, Weight
<1> DEFINE T == {m \in 0..Len(req) : f[m] + (IF i <= m THEN w ELSE 0) <= g[m]}
<1>3. 0 \in T
  BY <1>1 DEF IsSum
<1>4. ASSUME NEW m \in 0..Len(req) - 1, m \in T
      PROVE  m + 1 \in T
  <2>1. m + 1 \in 1..Len(req) /\ (m + 1) - 1 = m /\ m \in Nat
    BY <1>1
  <2>2. PICK x \in Nat, y \in Nat, v \in Nat, c \in Nat :
             x = f[m] /\ y = g[m] /\ v = Bytes(req[m + 1].nnyb) /\ c = req[m + 1].addr
    <3>1. f[m] \in Nat /\ g[m] \in Nat
      BY DEF IsSum
    <3>2. Bytes(req[m + 1].nnyb) \in Nat /\ req[m + 1].addr \in Nat
      BY <1>1, <2>1, Weight
    <3> QED
      BY <3>1, <3>2
  <2>3. f[m + 1] = x + (IF c <= b THEN v ELSE 0) /\ g[m + 1] = y + (IF c <= a THEN v ELSE 0)
    BY <2>1, <2>2 DEF IsSum
  <2>4. x + (IF i <= m THEN w ELSE 0) <= y
    BY <1>4, <2>2
  <2>5. PICK d \in Nat : d = req[i].addr /\ b < d /\ d <= a
    BY <1>1
  <2>6. i = m + 1 => c = d /\ v = w
    BY <1>2, <2>2, <2>5
  <2>7. i \in Nat
    BY <1>1
  <2>8. x + (IF c <= b THEN v ELSE 0) + (IF i <= m + 1 THEN w ELSE 0) <= y + (IF c <= a THEN v ELSE 0)
    BY <2>4, <2>5, <2>6, <2>7
  <2> QED
    BY <2>1, <2>3, <2>8
<1>5. Len(req) \in T
  <2> HIDE DEF T
  <2>1. \A j \in 0..Len(req) : j \in T
    BY <1>1, <1>3, <1>4, UpTo, Zenon
  <2> QED
    BY <1>1, <2>1
<1> QED
  BY <1>1, <1>2, <1>5

(* All of them are the bytes of the buffer.                                *)
LEMMA SumIsBuffer ==
  ASSUME NEW req \in Seq(Requests), NEW b \in Int, \A j \in DOMAIN req : req[j].addr <= b,
         NEW f, IsSum(f, req, b)
  PROVE  BufferBytes(req) = f[Len(req)]
PROOF
<1> DEFINE F == [m \in 1..Len(req) |-> [n \in Nat |-> n + Bytes(req[m].nnyb)]]
<1>1. DOMAIN req = 1..Len(req) /\ Len(req) \in Nat
  BY ReqType
<1>2. \A m \in 1..Len(req) : Bytes(req[m].nnyb) \in Nat
  BY Weight
<1>3. F \in [1..Len(req) -> [Nat -> Nat]]
  BY <1>2
<1>4. \E g \in [SUBSET (1..Len(req)) -> Nat] : FoldsBy(g, F, 0, Len(req))
  <2> HIDE DEF F
  <2>1. 0 \in Nat
    OBVIOUS
  <2> QED
    BY <1>1, <1>3, <2>1, FoldExists, Zenon
<1> DEFINE IsFold(g) ==
             g = [s \in SUBSET (DOMAIN req) |->
                    IF s = {} THEN 0 ELSE g[s \ {Max(s)}] + Bytes(req[Max(s)].nnyb)]
<1>5. \E g : IsFold(g)
  <2>1. PICK g \in [SUBSET (1..Len(req)) -> Nat] : FoldsBy(g, F, 0, Len(req))
    BY <1>4
  <2>2. ASSUME NEW s \in SUBSET (1..Len(req)), s # {}
        PROVE  g[s] = g[s \ {Max(s)}] + Bytes(req[Max(s)].nnyb)
    <3>1. Max(s) \in 1..Len(req) /\ s \ {Max(s)} \in SUBSET (1..Len(req))
      BY <1>1, <2>2, MaxAmong
    <3>2. g[s \ {Max(s)}] \in Nat
      BY <3>1
    <3>3. g[s] = F[Max(s)][g[s \ {Max(s)}]]
      BY <2>1, <2>2 DEF FoldsBy
    <3> QED
      BY <3>1, <3>2, <3>3
  <2>3. g[{}] = 0
    BY <2>1 DEF FoldsBy
  <2>4. IsFold(g)
    <3> HIDE DEF F
    <3> QED
      BY <1>1, <2>2, <2>3
  <2> QED
    BY <2>4
<1> DEFINE iter == CHOOSE g : IsFold(g)
<1>6. IsFold(iter)
  BY <1>5, Zenon
<1>7. BufferBytes(req) = iter[1..Len(req)]
  <2>1. BufferBytes(req) = iter[DOMAIN req]
    BY DEF BufferBytes, FoldLeft, MapThenFoldSet
  <2> QED
    BY <1>1, <2>1, Zenon
<1> HIDE DEF iter
<1> DEFINE T == {m \in 0..Len(req) : iter[1..m] = f[m]}
<1>8. 0 \in T
  <2>1. 1..0 = {} /\ {} \in SUBSET (DOMAIN req)
    OBVIOUS
  <2>2. iter[{}] = 0
    BY <1>6, <2>1
  <2>3. f[0] = 0 /\ 0 \in 0..Len(req)
    BY <1>1 DEF IsSum
  <2> QED
    BY <2>1, <2>2, <2>3
<1>9. ASSUME NEW m \in 0..Len(req) - 1, m \in T
      PROVE  m + 1 \in T
  <2>1. m + 1 \in 1..Len(req) /\ (m + 1) - 1 = m /\ m \in Nat /\ m + 1 \in 0..Len(req)
    BY <1>1
  <2>2. 1..m + 1 \in SUBSET (DOMAIN req) /\ 1..m + 1 # {}
    BY <1>1, <2>1
  <2>3. Max(1..m + 1) = m + 1
    <3>1. 1..m + 1 \in SUBSET Int /\ m + 1 \in 1..m + 1 /\ \A y \in 1..m + 1 : y <= m + 1
      BY <2>1
    <3> QED
      BY <3>1, MaxIs
  <2>4. (1..m + 1) \ {m + 1} = 1..m
    BY <2>1
  <2>5. iter[1..m + 1] = iter[(1..m + 1) \ {Max(1..m + 1)}] + Bytes(req[Max(1..m + 1)].nnyb)
    BY <1>6, <2>2
  <2>6. iter[1..m + 1] = iter[1..m] + Bytes(req[m + 1].nnyb)
    BY <2>3, <2>4, <2>5
  <2>7. f[m + 1] = f[m] + Bytes(req[m + 1].nnyb)
    <3>1. req[m + 1].addr <= b
      BY <1>1, <2>1
    <3> QED
      BY <2>1, <3>1 DEF IsSum
  <2> QED
    BY <1>9, <2>1, <2>6, <2>7
<1>10. Len(req) \in T
  <2> HIDE DEF T
  <2>1. \A i \in 0..Len(req) : i \in T
    BY <1>1, <1>8, <1>9, UpTo, Zenon
  <2> QED
    BY <1>1, <2>1
<1> QED
  BY <1>7, <1>10

(* The plan's areas, one behind the other, take no more bytes than the     *)
(* requests placed in them.                                                *)
FitsTo(req, plan_, b) ==
    plan_.areas # <<>> =>
        \A f : IsSum(f, req, b) =>
            plan_.areas[Len(plan_.areas)].at + Bytes(plan_.areas[Len(plan_.areas)].nnyb)
              <= f[Len(req)]

LEMMA BytesSum ==
  \A x, y, z \in Nat : x <= y + z => Bytes(x) <= Bytes(y) + Bytes(z) /\ Bytes(y) \in Nat /\ Bytes(x) \in Nat
BY DEF Bytes

LEMMA BehindGap == \A x, y, z \in Nat : y + 11 < x => ~(x + z <= y)
OBVIOUS

(* The last area reaches as far as any request placed.                     *)
LEMMA LastReaches ==
  ASSUME NEW req \in Seq(Requests), NEW pl \in PlanStates(req), NEW b \in Int, Good(req, pl, b),
         NEW j \in DOMAIN req, req[j].addr <= b
  PROVE  pl.areas # <<>> /\ End(req[j]) <= EndOf(pl.areas[Len(pl.areas)])
PROOF
<1>1. PICK x \in DOMAIN pl.areas : Holds(req, pl, j, x)
  BY DEF Good, Placed
<1>2. DOMAIN pl.areas = 1..Len(pl.areas) /\ Len(pl.areas) \in Nat
  BY PlanTypes
<1>3. PICK l \in Nat : l = Len(pl.areas) /\ x \in 1..l /\ l \in DOMAIN pl.areas
  BY <1>1, <1>2
<1>4. PICK e \in Nat : e = End(req[j]) /\ e <= EndOf(pl.areas[x])
  BY <1>1, ReqType DEF Holds
<1>5. CASE x = l
  BY <1>3, <1>4, <1>5
<1>6. CASE x # l
  <2>1. x < l
    BY <1>3, <1>6
  <2>2. PICK u \in Int, v \in Int, y \in Nat : u = EndOf(pl.areas[x]) /\ v = pl.areas[l].addr /\ y = pl.areas[l].nnyb
    <3>1. EndOf(pl.areas[x]) \in Int
      BY <1>3, PlanTypes
    <3>2. pl.areas[l].addr \in Nat /\ pl.areas[l].nnyb \in Nat
      BY <1>3, PlanTypes DEF Good, AreasType
    <3> QED
      BY <3>1, <3>2
  <2>3. u + Gap < v
    BY <1>3, <2>1, <2>2 DEF Good, Apart
  <2>4. EndOf(pl.areas[l]) = v + y
    BY <2>2 DEF EndOf
  <2>5. e <= v + y
    BY <1>4, <2>2, <2>3, SMTT(30) DEF Gap
  <2> QED
    BY <1>1, <1>3, <1>4, <2>4, <2>5
<1> QED
  BY <1>5, <1>6

(* The last area is widened by no more bytes than the requests bring.      *)
LEMMA WidensFits ==
  ASSUME NEW req \in Seq(Requests), NoneInside(req), NoGap(req),
         NEW old \in PlanStates(req), NEW new,
         NEW a \in Nat, NEW b \in Int, b <= a, \A j \in DOMAIN req : req[j].addr <= b \/ a <= req[j].addr,
         NEW i \in DOMAIN req, req[i].addr = a,
         Good(req, old, b), FitsTo(req, old, b),
         Widens(req, a, req[i], old.areas[Len(old.areas)], old, new)
  PROVE  FitsTo(req, new, a)
PROOF
<1>1. PICK n \in Nat : n = Len(old.areas) /\ n \in DOMAIN old.areas /\ DOMAIN old.areas = 1..n
  BY PlanTypes DEF Widens
<1>2. PICK ax \in Nat, nx \in Nat, at \in Nat : ax = old.areas[n].addr /\ nx = old.areas[n].nnyb /\ at = old.areas[n].at
  BY <1>1, PlanTypes DEF Good, AreasType
<1>3. EndOf(old.areas[n]) = ax + nx
  BY <1>2 DEF EndOf
<1>4. PICK z \in Nat : z = req[i].nnyb /\ End(req[i]) = a + z
  BY ReqType DEF End
<1>5. PICK M : M = [addr |-> ax, nnyb |-> a + z - ax, at |-> at]
  OBVIOUS
<1>6. old.areas # <<>> /\ a <= ax + nx + Gap /\ new.areas = [old.areas EXCEPT ![n] = M]
  <2>1. Widens(req, a, req[i], old.areas[n], old, new)
    BY <1>1
  <2>2. /\ old.areas # <<>> /\ a <= old.areas[n].addr + old.areas[n].nnyb + Gap
        /\ new.areas = [old.areas EXCEPT ![Len(old.areas)] =
              [addr |-> old.areas[n].addr, nnyb |-> End(req[i]) - old.areas[n].addr, at |-> old.areas[n].at]]
    BY <2>1 DEF Widens
  <2>3. [addr |-> old.areas[n].addr, nnyb |-> End(req[i]) - old.areas[n].addr, at |-> old.areas[n].at] = M
    <3>1. End(req[i]) - old.areas[n].addr = a + z - ax
      BY <1>2, <1>4, SMTT(30)
    <3>2. old.areas[n].addr = ax /\ old.areas[n].at = at
      BY <1>2
    <3> QED
      BY <1>5, <3>1, <3>2, Zenon
  <2>4. new.areas = [old.areas EXCEPT ![n] = M]
    BY <1>1, <2>2, <2>3, Zenon
  <2> QED
    BY <1>2, <2>2, <2>4
<1>7. Len(new.areas) = n /\ new.areas[n] = M
  <2>1. old.areas \in Seq(Areas)
    BY DEF PlanStates
  <2> QED
    BY <1>1, <1>6, <2>1
<1>8. M.at = at /\ M.nnyb = a + z - ax
  BY <1>5
<1>9. PICK c \in DOMAIN req : req[c].addr <= b /\ End(req[c]) = ax + nx /\ ax <= b
  BY <1>1, <1>2, <1>3, <1>6 DEF Good, EndsLast
<1>10. PICK w \in Nat : w = a + z - ax
  BY <1>9
<1>11. SUFFICES ASSUME NEW g, IsSum(g, req, a)
                PROVE  at + Bytes(w) <= g[Len(req)]
  BY <1>7, <1>8, <1>10 DEF FitsTo
<1>12. PICK s \in Nat : s = g[Len(req)]
  BY <1>11, SumType
<1>13. CASE a = b
  <2>1. End(req[i]) <= EndOf(old.areas[n])
    BY <1>1, <1>13, LastReaches
  <2>2. a + z <= ax + nx
    BY <1>3, <1>4, <2>1
  <2>3. w <= nx + 0
    BY <1>10, <2>2
  <2>4. at + Bytes(nx) <= s
    BY <1>1, <1>2, <1>6, <1>11, <1>12, <1>13 DEF FitsTo
  <2>5. Bytes(w) <= Bytes(nx) + Bytes(0) /\ Bytes(0) = 0 /\ Bytes(w) \in Nat /\ Bytes(nx) \in Nat
    <3>1. 0 \in Nat /\ Bytes(0) = 0
      BY DEF Bytes
    <3> QED
      BY <2>3, <3>1, BytesSum
  <2> QED
    BY <1>12, <2>4, <2>5
<1>14. CASE a # b
  <2>1. b < a
    BY <1>14
  <2>2. a <= ax + nx
    <3> SUFFICES ASSUME ax + nx < a
                 PROVE  FALSE
      OBVIOUS
    <3>1. PICK m \in DOMAIN req : req[m].addr < a /\ a <= End(req[m])
      BY <1>4, <1>6, <1>9, SMTT(30) DEF NoGap
    <3>2. req[m].addr <= b
      <4>1. PICK d \in Nat : d = req[m].addr
        BY ReqType
      <4> QED
        BY <3>1, <4>1
    <3>3. End(req[m]) <= EndOf(old.areas[n])
      BY <1>1, <3>2, LastReaches
    <3>4. PICK e \in Nat : e = End(req[m])
      BY ReqType
    <3> QED
      BY <1>3, <3>1, <3>3, <3>4
  <2>3. PICK f : IsSum(f, req, b)
    BY SumExists
  <2>4. PICK t \in Nat : t = f[Len(req)]
    BY <2>3, SumType
  <2>5. at + Bytes(nx) <= t
    BY <1>1, <1>2, <1>6, <2>3, <2>4 DEF FitsTo
  <2>6. t + Bytes(z) <= s
    <3>1. b < req[i].addr /\ req[i].addr <= a /\ a \in Int
      BY <2>1
    <3>2. f[Len(req)] + Bytes(req[i].nnyb) <= g[Len(req)]
      BY <1>11, <2>3, <3>1, SumGrows, Zenon
    <3> QED
      BY <1>4, <1>12, <2>4, <3>2
  <2>7. w <= nx + z
    BY <1>10, <2>2
  <2>8. Bytes(w) <= Bytes(nx) + Bytes(z) /\ Bytes(w) \in Nat /\ Bytes(nx) \in Nat /\ Bytes(z) \in Nat
    BY <2>7, BytesSum, BytesOf
  <2>9. PICK x \in Nat, y \in Nat, v \in Nat : x = Bytes(w) /\ y = Bytes(nx) /\ v = Bytes(z)
    BY <2>8
  <2>10. at + x <= s
    BY <2>5, <2>6, <2>8, <2>9, SMTT(30)
  <2> QED
    BY <1>12, <2>9, <2>10
<1> QED
  BY <1>13, <1>14

LEMMA BeginsFits ==
  ASSUME NEW req \in Seq(Requests), NEW old \in PlanStates(req), NEW new,
         NEW a \in Nat, NEW b \in Int, b <= a,
         NEW i \in DOMAIN req, req[i].addr = a,
         Good(req, old, b), FitsTo(req, old, b), NEW at \in Int,
         Begins(req, a, req[i], old.areas[Len(old.areas)], old, new, at)
  PROVE  FitsTo(req, new, a)
PROOF
<1>1. PICK n \in Nat : n = Len(old.areas) /\ DOMAIN old.areas = 1..n /\ (old.areas # <<>> => n \in DOMAIN old.areas)
  BY PlanTypes
<1>2. PICK z \in Nat : z = req[i].nnyb
  BY ReqType
<1>3. PICK M : M = [addr |-> a, nnyb |-> z, at |-> at]
  OBVIOUS
<1>4. new.areas = Append(old.areas, M) /\ M.nnyb = z /\ M.at = at
  BY <1>2, <1>3 DEF Begins
<1>5. Len(new.areas) = n + 1 /\ new.areas[n + 1] = M
  <2>1. old.areas \in Seq(Areas) /\ M \in Areas
    BY <1>2, <1>3 DEF PlanStates, Areas
  <2> QED
    BY <1>1, <1>4, <2>1
<1>6. PICK f : IsSum(f, req, b)
  BY SumExists
<1>7. PICK t \in Nat : t = f[Len(req)]
  BY <1>6, SumType
<1>8. b < a /\ at <= t
  <2>1. CASE old.areas = <<>>
    <3>1. at = 0
      BY <2>1 DEF Begins
    <3>2. ~(a <= b)
      BY <2>1, LastReaches
    <3> QED
      BY <1>7, <3>1, <3>2
  <2>2. CASE old.areas # <<>>
    <3>1. PICK ax \in Nat, nx \in Nat, ox \in Nat : ax = old.areas[n].addr /\ nx = old.areas[n].nnyb /\ ox = old.areas[n].at
      BY <1>1, <2>2, PlanTypes DEF Good, AreasType
    <3>2. ax + nx + Gap < a /\ at = ox + Bytes(nx) /\ EndOf(old.areas[n]) = ax + nx
      BY <1>1, <2>2, <3>1 DEF Begins, EndOf
    <3>3. ~(a <= b)
      <4> SUFFICES ASSUME a <= b
                   PROVE  FALSE
        OBVIOUS
      <4>1. End(req[i]) <= EndOf(old.areas[n])
        BY <1>1, LastReaches
      <4>2. End(req[i]) = a + z
        BY <1>2 DEF End
      <4>3. a + z <= ax + nx
        BY <3>2, <4>1, <4>2
      <4>4. ax + nx + Gap < a
        BY <3>2, Zenon
      <4>5. ax + nx + 11 < a
        BY <4>4 DEF Gap
      <4>6. ax + nx \in Nat
        OBVIOUS
      <4> QED
        BY <4>3, <4>5, <4>6, BehindGap, Zenon
    <3>4. ox + Bytes(nx) <= t
      BY <1>1, <1>6, <1>7, <2>2, <3>1 DEF FitsTo
    <3> QED
      BY <3>2, <3>3, <3>4
  <2> QED
    BY <2>1, <2>2
<1>9. SUFFICES ASSUME NEW g, IsSum(g, req, a)
               PROVE  at + Bytes(z) <= g[Len(req)]
  BY <1>4, <1>5 DEF FitsTo
<1>10. PICK s \in Nat : s = g[Len(req)]
  BY <1>9, SumType
<1>11. t + Bytes(z) <= s
  <2>1. b < req[i].addr /\ req[i].addr <= a /\ a \in Int
    BY <1>8
  <2>2. f[Len(req)] + Bytes(req[i].nnyb) <= g[Len(req)]
    BY <1>6, <1>9, <2>1, SumGrows, Zenon
  <2> QED
    BY <1>2, <1>7, <1>10, <2>2
<1>12. Bytes(z) \in Nat
  BY BytesOf
<1> QED
  BY <1>7, <1>8, <1>10, <1>11, <1>12

LEMMA PlaceFits ==
  ASSUME NEW req \in Seq(Requests), NoneInside(req), NoGap(req), NEW m \in 1..Len(req),
         NEW old \in PlanStates(req), Good(req, old, Reach(req, m - 1)),
         FitsTo(req, old, Reach(req, m - 1))
  PROVE  FitsTo(req, Place(req, old, Sorted(req)[m]), Reach(req, m))
PROOF
<1>1. PICK a \in Nat : a = Sorted(req)[m] /\ a = Reach(req, m)
  BY ReachRises
<1>2. PICK b \in Int : b = Reach(req, m - 1) /\ b <= a
  BY <1>1, ReachRises
<1>3. \A j \in DOMAIN req : req[j].addr <= b \/ a <= req[j].addr
  BY <1>1, <1>2, ReachRises
<1>4. PICK i \in DOMAIN req : i = Max(Here(req, a)) /\ req[i].addr = a
  BY <1>1, LastHere
<1>5. PICK new \in PlanStates(req) : new = Place(req, old, a)
  BY <1>1, PlaceType
<1>6. \/ Widens(req, a, req[i], old.areas[Len(old.areas)], old, new)
      \/ \E at \in Int : Begins(req, a, req[i], old.areas[Len(old.areas)], old, new, at)
  BY <1>1, <1>4, <1>5, PlaceIs, Zenon
<1>7. Good(req, old, b) /\ FitsTo(req, old, b)
  BY <1>2
<1>8. FitsTo(req, new, a)
  <2>1. CASE Widens(req, a, req[i], old.areas[Len(old.areas)], old, new)
    BY <1>2, <1>3, <1>4, <1>7, <2>1, WidensFits
  <2>2. ASSUME NEW at \in Int,
               Begins(req, a, req[i], old.areas[Len(old.areas)], old, new, at)
        PROVE  FitsTo(req, new, a)
    BY <1>2, <1>4, <1>7, <2>2, BeginsFits
  <2> QED
    BY <1>6, <2>1, <2>2
<1> QED
  BY <1>1, <1>5, <1>8

(* The areas of a batch fit in the bytes of its requests.                  *)
LEMMA PlanFits ==
  ASSUME NEW req \in Seq(Requests), NoneInside(req), NoGap(req)
  PROVE  /\ BufferBytes(req) \in Nat
         /\ \A x \in DOMAIN Plan(req).areas :
              Plan(req).areas[x].at + Bytes(Plan(req).areas[x].nnyb) <= BufferBytes(req)
PROOF
<1>1. PICK f \in [0..Len(req) -> PlanStates(req)] :
        /\ f[0] = NoPlan(req) /\ Plan(req) = f[Len(req)]
        /\ \A m \in 1..Len(req) : f[m] = Place(req, f[m - 1], Sorted(req)[m])
  BY PlanSteps, Zenon
<1>2. Len(req) \in Nat /\ DOMAIN req = 1..Len(req)
  OBVIOUS
<1> DEFINE T == {m \in 0..Len(req) : Good(req, f[m], Reach(req, m)) /\ FitsTo(req, f[m], Reach(req, m))}
<1>3. 0 \in T
  <2>1. f[0].areas = <<>> /\ Reach(req, 0) = -1
    BY <1>1 DEF NoPlan, Reach
  <2>2. AreasType(f[0]) /\ Apart(f[0]) /\ Starts(req, f[0])
        /\ \A x \in DOMAIN f[0].areas : Spans(req, f[0], x)
    BY <2>1 DEF AreasType, Apart, Starts
  <2>3. EndsLast(req, f[0], -1) /\ FitsTo(req, f[0], -1)
    BY <2>1 DEF EndsLast, FitsTo
  <2>4. Placed(req, f[0], -1)
    <3>1. \A j \in DOMAIN req : ~(req[j].addr <= -1)
      BY ReqType
    <3> QED
      BY <3>1 DEF Placed
  <2>5. Good(req, f[0], Reach(req, 0)) /\ FitsTo(req, f[0], Reach(req, 0))
    BY <2>1, <2>2, <2>3, <2>4 DEF Good
  <2>6. 0 \in 0..Len(req)
    BY <1>2
  <2> QED
    BY <2>5, <2>6
<1>4. ASSUME NEW m \in 0..Len(req) - 1, m \in T
      PROVE  m + 1 \in T
  <2>1. m + 1 \in 1..Len(req) /\ m + 1 \in 0..Len(req) /\ (m + 1) - 1 = m
    BY <1>2
  <2>2. /\ Good(req, f[m], Reach(req, (m + 1) - 1)) /\ FitsTo(req, f[m], Reach(req, (m + 1) - 1))
        /\ f[m] \in PlanStates(req)
    BY <1>4, <2>1
  <2>3. f[m + 1] = Place(req, f[m], Sorted(req)[m + 1])
    BY <1>1, <2>1
  <2>4. Good(req, Place(req, f[m], Sorted(req)[m + 1]), Reach(req, m + 1))
    BY <2>1, <2>2, PlaceGood, Zenon
  <2>5. FitsTo(req, Place(req, f[m], Sorted(req)[m + 1]), Reach(req, m + 1))
    BY <2>1, <2>2, PlaceFits, Zenon
  <2> QED
    BY <2>1, <2>3, <2>4, <2>5
<1>5. Len(req) \in T
  <2> HIDE DEF T
  <2>1. \A i \in 0..Len(req) : i \in T
    BY <1>2, <1>3, <1>4, UpTo, Zenon
  <2> QED
    BY <1>2, <2>1
<1>6. /\ Plan(req) \in PlanStates(req) /\ Good(req, Plan(req), Reach(req, Len(req)))
      /\ \A j \in DOMAIN req : req[j].addr <= Reach(req, Len(req))
  BY PlanGood
<1>7. FitsTo(req, Plan(req), Reach(req, Len(req)))
  BY <1>1, <1>5
<1>8. PICK b \in Int : b = Reach(req, Len(req))
  <2>1. CASE Len(req) = 0
    BY <2>1 DEF Reach
  <2>2. CASE Len(req) # 0
    <3>1. Len(req) \in 1..Len(req)
      BY <1>2, <2>2
    <3> QED
      BY <3>1, ReachRises
  <2> QED
    BY <2>1, <2>2
<1>9. PICK g : IsSum(g, req, b)
  BY SumExists
<1>10. PICK t \in Nat : t = g[Len(req)] /\ BufferBytes(req) = t
  BY <1>6, <1>8, <1>9, SumType, SumIsBuffer
<1>11. ASSUME NEW x \in DOMAIN Plan(req).areas
       PROVE  Plan(req).areas[x].at + Bytes(Plan(req).areas[x].nnyb) <= t
  <2> DEFINE pl == Plan(req)
  <2> HIDE DEF pl
  <2>1. pl \in PlanStates(req) /\ Good(req, pl, b) /\ FitsTo(req, pl, b) /\ x \in DOMAIN pl.areas
    BY <1>6, <1>7, <1>8, <1>11 DEF pl
  <2>2. PICK n \in Nat : n = Len(pl.areas) /\ DOMAIN pl.areas = 1..n /\ pl.areas # <<>> /\ n \in DOMAIN pl.areas
    BY <2>1, PlanTypes
  <2>3. pl.areas[n].at + Bytes(pl.areas[n].nnyb) <= t
    BY <1>9, <1>10, <2>1, <2>2 DEF FitsTo
  <2>4. CASE x = n
    BY <2>3, <2>4 DEF pl
  <2>5. CASE x # n
    <3>1. x < n
      BY <2>1, <2>2, <2>5
    <3>2. PICK u \in Int, v \in Nat, y \in Nat :
               u = pl.areas[x].at + Bytes(pl.areas[x].nnyb) /\ v = pl.areas[n].at /\ y = Bytes(pl.areas[n].nnyb)
      <4>1. /\ pl.areas[x].at \in Nat /\ pl.areas[x].nnyb \in Nat
            /\ pl.areas[n].at \in Nat /\ pl.areas[n].nnyb \in Nat
        BY <2>1, <2>2 DEF Good, AreasType
      <4>2. Bytes(pl.areas[x].nnyb) \in Nat /\ Bytes(pl.areas[n].nnyb) \in Nat
        BY <4>1, BytesOf
      <4> QED
        BY <4>1, <4>2
    <3>3. u <= v
      BY <2>1, <2>2, <3>1, <3>2 DEF Good, Apart
    <3>4. u <= t
      BY <2>3, <3>2, <3>3
    <3> QED
      BY <3>2, <3>4 DEF pl
  <2> QED
    BY <2>4, <2>5
<1> QED
  BY <1>10, <1>11

CapOf(op, req) ==
    IF op \in Batches THEN 2 * BufferBytes(req)
    ELSE IF op = "hex" THEN 2 * req[1].nnyb
    ELSE IF op \in Histories THEN 20
    ELSE 16

RoomFor(areas, c) ==
    \A x \in DOMAIN areas : 2 * (areas[x].at + Bytes(areas[x].nnyb)) <= c

(* Whoever reads has planned for no more than its buffer holds.            *)
BufferInv ==
    /\ Capacity \in Nat /\ RoomFor(plan.areas, Capacity)
    /\ DOMAIN data \subseteq 0..Capacity - 1

LEMMA CapIs == Capacity = CapOf(job.op, job.req)
BY DEF Capacity, CapOf

(* A single row fits.                                                      *)
LEMMA RowRoom ==
  ASSUME NEW q \in Requests, NEW c \in Int, 2 * Bytes(q.nnyb) <= c
  PROVE  RoomFor(<<[addr |-> q.addr, nnyb |-> q.nnyb, at |-> 0]>>, c)
PROOF
<1>1. PICK n \in Nat : n = q.nnyb
  BY DEF Requests
<1>2. PICK A : A = [addr |-> q.addr, nnyb |-> q.nnyb, at |-> 0]
  OBVIOUS
<1>3. A.at = 0 /\ A.nnyb = n
  BY <1>1, <1>2
<1>4. 2 * (0 + Bytes(n)) <= c
  BY <1>1, BytesOf
<1>5. \A x \in DOMAIN <<A>> : <<A>>[x] = A
  OBVIOUS
<1>6. RoomFor(<<A>>, c)
  BY <1>3, <1>4, <1>5 DEF RoomFor
<1> QED
  BY <1>2, <1>6

LEMMA NoRoom ==
  ASSUME NEW c
  PROVE  RoomFor(<< >>, c)
PROOF
<1>1. DOMAIN << >> = {}
  OBVIOUS
<1> QED
  BY <1>1, Zenon DEF RoomFor

LEMMA PlanOfEither ==
  ASSUME NEW j
  PROVE  /\ j.op \in Batches => PlanOf(j.op \in Batches, j.req).areas = Plan(j.req).areas
         /\ j.op \notin Batches /\ j.req = << >> =>
              PlanOf(j.op \in Batches, j.req).areas = << >>
         /\ \A q : j.op \notin Batches /\ j.req = <<q>> =>
              PlanOf(j.op \in Batches, j.req).areas = <<[addr |-> q.addr, nnyb |-> q.nnyb, at |-> 0]>>
BY DEF PlanOf

(* The areas of a batch fit in its buffer.                                 *)
LEMMA BatchRoom ==
  ASSUME NEW req \in Seq(Requests), NoneInside(req), NoGap(req)
  PROVE  2 * BufferBytes(req) \in Nat /\ RoomFor(Plan(req).areas, 2 * BufferBytes(req))
PROOF
<1>1. PICK c \in Nat : /\ c = BufferBytes(req)
                       /\ \A x \in DOMAIN Plan(req).areas :
                            Plan(req).areas[x].at + Bytes(Plan(req).areas[x].nnyb) <= c
  BY PlanFits
<1>2. AreasType(Plan(req))
  BY PlanGood DEF Good
<1>3. ASSUME NEW x \in DOMAIN Plan(req).areas
      PROVE  2 * (Plan(req).areas[x].at + Bytes(Plan(req).areas[x].nnyb)) <= 2 * c
  <2>1. PICK at \in Nat, n \in Nat : at = Plan(req).areas[x].at /\ n = Plan(req).areas[x].nnyb
    BY <1>2 DEF AreasType
  <2>2. PICK b \in Nat : b = Bytes(n)
    BY BytesOf
  <2>3. at + b <= c
    BY <1>1, <2>1, <2>2
  <2>4. 2 * (at + b) <= 2 * c
    BY <2>3
  <2> QED
    BY <2>1, <2>2, <2>4
<1>4. RoomFor(Plan(req).areas, 2 * c)
  BY <1>3 DEF RoomFor
<1> QED
  BY <1>1, <1>4

(* The table leaves no gap that an area would span.                        *)
LEMMA RtNoGap == NoGap(RtTable)
PROOF
<1> SUFFICES ASSUME NEW i \in 1..13, NEW j \in 1..13,
                    End(RtTable[i]) < RtTable[j].addr, RtTable[j].addr <= End(RtTable[i]) + Gap
             PROVE  \E m \in 1..13 : RtTable[m].addr < RtTable[j].addr /\ RtTable[j].addr <= End(RtTable[m])
  BY RtRows DEF NoGap
<1>1. PICK x \in Nat, n \in Nat : RtTable[i].addr = x /\ End(RtTable[i]) = x + n /\ IsRtRow(i, x, n)
  BY RtRows
<1>2. PICK y \in Nat, w \in Nat : RtTable[j].addr = y /\ End(RtTable[j]) = y + w /\ IsRtRow(j, y, w)
  BY RtRows
<1>3. y = 1321 \/ y = 1324
  BY <1>1, <1>2 DEF IsRtRow, Gap
<1>4. RtTable[9].addr = 1320 /\ End(RtTable[9]) = 1321
  <2>1. PICK u \in Nat, v \in Nat : RtTable[9].addr = u /\ End(RtTable[9]) = u + v /\ IsRtRow(9, u, v)
    <3>1. 9 \in 1..13
      OBVIOUS
    <3> QED
      BY <3>1, RtRows
  <2>2. u = 1320 /\ u + v = 1321
    BY <2>1 DEF IsRtRow
  <2> QED
    BY <2>1, <2>2
<1>5. RtTable[10].addr = 1321 /\ End(RtTable[10]) = 1324
  <2>1. PICK u \in Nat, v \in Nat : RtTable[10].addr = u /\ End(RtTable[10]) = u + v /\ IsRtRow(10, u, v)
    <3>1. 10 \in 1..13
      OBVIOUS
    <3> QED
      BY <3>1, RtRows
  <2>2. u = 1321 /\ u + v = 1324
    BY <2>1 DEF IsRtRow
  <2> QED
    BY <2>1, <2>2
<1>6. CASE y = 1321
  <2>1. RtTable[9].addr < y /\ y <= End(RtTable[9]) /\ 9 \in 1..13
    BY <1>4, <1>6
  <2> QED
    BY <1>2, <2>1
<1>7. CASE y = 1324
  <2>1. RtTable[10].addr < y /\ y <= End(RtTable[10]) /\ 10 \in 1..13
    BY <1>5, <1>7
  <2> QED
    BY <1>2, <2>1
<1> QED
  BY <1>3, <1>6, <1>7

JobRoom(j) ==
    /\ CapOf(j.op, j.req) \in Nat
    /\ RoomFor(PlanOf(j.op \in Batches, j.req).areas, CapOf(j.op, j.req))

LEMMA HistoryRoom ==
  \E q \in Requests : HistoryRows = <<q>> /\ 2 * Bytes(q.nnyb) <= 20
PROOF
<1>1. PICK q \in Requests : q = Row(SettingsAt, 20) /\ q.nnyb = 20
  <2>1. Row(SettingsAt, 20) \in Requests /\ Row(SettingsAt, 20).nnyb = 20
    BY DEF Row, Requests, SettingsAt
  <2> QED
    BY <2>1
<1>2. HistoryRows = <<q>> /\ 2 * Bytes(q.nnyb) <= 20
  BY <1>1 DEF HistoryRows, Bytes
<1> QED
  BY <1>2

(* Every call has room for what it reads.                                  *)
LEMMA JobsRoom == \A j \in Jobs : JobRoom(j)
PROOF
<1> USE DEF Batches, Histories
<1>1. \A j \in RtJobs : JobRoom(j)
  <2> SUFFICES ASSUME NEW j, j = Job("rt", RtTable, 0, << >>)
               PROVE  JobRoom(j)
    BY DEF RtJobs
  <2>1. j.op = "rt" /\ j.req = RtTable
    BY JobFields
  <2>2. 2 * BufferBytes(RtTable) \in Nat /\ RoomFor(Plan(RtTable).areas, 2 * BufferBytes(RtTable))
    BY RtReq, RtNoGap, BatchRoom
  <2>3. CapOf(j.op, j.req) = 2 * BufferBytes(RtTable) /\ PlanOf(j.op \in Batches, j.req).areas = Plan(j.req).areas
    BY <2>1, PlanOfEither DEF CapOf
  <2> QED
    BY <2>1, <2>2, <2>3 DEF JobRoom
<1>2. \A j \in FetchJobs : JobRoom(j)
  <2> SUFFICES ASSUME NEW req \in ToolReads, NEW j, j = Job("fetch", req, 0, << >>)
               PROVE  JobRoom(j)
    BY DEF FetchJobs
  <2>1. j.op = "fetch" /\ j.req = req
    BY JobFields
  <2>2. 2 * BufferBytes(req) \in Nat /\ RoomFor(Plan(req).areas, 2 * BufferBytes(req))
    BY CallsAssumption, BatchRoom
  <2>3. CapOf(j.op, j.req) = 2 * BufferBytes(req) /\ PlanOf(j.op \in Batches, j.req).areas = Plan(j.req).areas
    BY <2>1, PlanOfEither DEF CapOf
  <2> QED
    BY <2>1, <2>2, <2>3 DEF JobRoom
<1>3. ASSUME NEW q \in Requests, NEW n \in 1..16, q.nnyb = n, NEW j,
             j.op \in {"rt_timer", "ar_timer"}, j.req = <<q>>
      PROVE  JobRoom(j)
  <2>1. CapOf(j.op, j.req) = 16
    BY <1>3 DEF CapOf
  <2>2. 2 * Bytes(q.nnyb) <= 16
    BY <1>3 DEF Bytes
  <2>3. PlanOf(j.op \in Batches, j.req).areas = <<[addr |-> q.addr, nnyb |-> q.nnyb, at |-> 0]>>
    BY <1>3, PlanOfEither
  <2>4. RoomFor(<<[addr |-> q.addr, nnyb |-> q.nnyb, at |-> 0]>>, 16)
    BY <2>2, RowRoom
  <2> QED
    BY <2>1, <2>3, <2>4 DEF JobRoom
<1>4. \A j \in RtTimerJobs : JobRoom(j)
  <2>1. Row(1357, 4) \in Requests /\ Row(1357, 4).nnyb = 4
    BY DEF Row, Requests
  <2>2. ASSUME NEW j, j = Job("rt_timer", <<Row(1357, 4)>>, 0, << >>)
        PROVE  j.op = "rt_timer" /\ j.req = <<Row(1357, 4)>>
    BY <2>2, JobFields
  <2> QED
    BY <1>3, <2>1, <2>2 DEF RtTimerJobs
<1>5. \A j \in ArTimerJobs : JobRoom(j)
  <2>1. Row(SettingsAt, 16) \in Requests /\ Row(SettingsAt, 16).nnyb = 16
    BY DEF Row, Requests, SettingsAt
  <2>2. ASSUME NEW j, j = Job("ar_timer", <<Row(SettingsAt, 16)>>, 0, << >>)
        PROVE  j.op = "ar_timer" /\ j.req = <<Row(SettingsAt, 16)>>
    BY <2>2, JobFields
  <2> QED
    BY <1>3, <2>1, <2>2 DEF ArTimerJobs
<1>6. ASSUME NEW j, j.op \in Histories, j.req = HistoryRows
      PROVE  JobRoom(j)
  <2>1. PICK q \in Requests : HistoryRows = <<q>> /\ 2 * Bytes(q.nnyb) <= 20
    BY HistoryRoom
  <2>2. CapOf(j.op, j.req) = 20
    BY <1>6 DEF CapOf
  <2>3. PlanOf(j.op \in Batches, j.req).areas = <<[addr |-> q.addr, nnyb |-> q.nnyb, at |-> 0]>>
    BY <1>6, <2>1, PlanOfEither
  <2>4. RoomFor(<<[addr |-> q.addr, nnyb |-> q.nnyb, at |-> 0]>>, 20)
    BY <2>1, RowRoom
  <2> QED
    BY <2>2, <2>3, <2>4 DEF JobRoom
<1>7. \A j \in ArJobs \cup HistoryJobs : JobRoom(j)
  <2>1. \A j \in ArJobs \cup HistoryJobs : j.op \in Histories /\ j.req = HistoryRows
    BY JobFields DEF ArJobs, HistoryJobs
  <2> QED
    BY <1>6, <2>1
<1>8. \A j \in HexJobs : JobRoom(j)
  <2> SUFFICES ASSUME NEW q \in HexReads, NEW j, j = Job("hex", <<q>>, 0, << >>)
               PROVE  JobRoom(j)
    BY DEF HexJobs
  <2>1. j.op = "hex" /\ j.req = <<q>> /\ q \in Requests
    BY JobFields, CallsAssumption
  <2>2. PICK n \in Nat \ {0} : n = q.nnyb
    BY <2>1 DEF Requests
  <2>3. CapOf(j.op, j.req) = 2 * n
    BY <2>1, <2>2 DEF CapOf
  <2>4. 2 * Bytes(q.nnyb) <= 2 * n
    BY <2>2 DEF Bytes
  <2>5. PlanOf(j.op \in Batches, j.req).areas = <<[addr |-> q.addr, nnyb |-> q.nnyb, at |-> 0]>>
    BY <2>1, PlanOfEither
  <2>6. RoomFor(<<[addr |-> q.addr, nnyb |-> q.nnyb, at |-> 0]>>, 2 * n)
    BY <2>1, <2>4, RowRoom
  <2> QED
    BY <2>3, <2>5, <2>6, SMTT(30) DEF JobRoom
<1>9. ASSUME NEW j, j.op \in {"set", "none"}, j.req = << >>
      PROVE  JobRoom(j)
  <2>1. CapOf(j.op, j.req) = 16
    BY <1>9 DEF CapOf
  <2>2. PlanOf(j.op \in Batches, j.req).areas = << >>
    BY <1>9, PlanOfEither
  <2> QED
    BY <2>1, <2>2, NoRoom DEF JobRoom
<1>10. \A j \in ArtimerJobs \cup SetJobs \cup {NoJob} : JobRoom(j)
  <2>1. \A j \in ArtimerJobs \cup SetJobs : j.op = "set" /\ j.req = << >>
    <3>1. ASSUME NEW w, NEW j, j = Job("set", << >>, 0, w)
          PROVE  j.op = "set" /\ j.req = << >>
      BY <3>1, JobFields
    <3>2. \A j \in ArtimerJobs : \E w : j = Job("set", << >>, 0, w)
      BY Zenon DEF ArtimerJobs
    <3>3. \A j \in SetJobs : \E w : j = Job("set", << >>, 0, w)
      BY Zenon DEF SetJobs
    <3> QED
      BY <3>1, <3>2, <3>3
  <2>2. NoJob.op = "none" /\ NoJob.req = << >>
    BY DEF NoJob, Job
  <2> QED
    BY <1>9, <2>1, <2>2
<1> QED
  BY <1>1, <1>2, <1>4, <1>5, <1>7, <1>8, <1>10 DEF Jobs, DaemonJobs, ToolJobs

LEMMA BufferKept ==
  ASSUME BufferInv, plan' = plan, data' = data, job'.op = job.op, job'.req = job.req
  PROVE  BufferInv'
PROOF
<1>1. Capacity' = Capacity
  BY DEF Capacity
<1> QED
  BY <1>1 DEF BufferInv, RoomFor

LEMMA BufferEmpty ==
  ASSUME Capacity' \in Nat, RoomFor(plan'.areas, Capacity'), data' = << >>
  PROVE  BufferInv'
PROOF
<1>1. DOMAIN data' = {}
  OBVIOUS
<1> QED
  BY <1>1 DEF BufferInv, RoomFor

(* The bytes of an exchange are cells of the buffer.                       *)
LEMMA CellsFit ==
  ASSUME IInv, BufferInv, pc = "read", NEW n \in Nat, n <= Bytes(Chunk)
  PROVE  Cells(n) \subseteq 0..Capacity - 1
PROOF
<1>1. Reading
  <2>1. job.op # "set" => Reading
    BY DEF Reading
  <2>2. job.op # "set"
    BY DEF IInv, SetInv
  <2> QED
    BY <2>1, <2>2
<1>2. PlanReady(plan) /\ cur \in DOMAIN plan.areas /\ p < plan.areas[cur].nnyb
  BY <1>1 DEF IInv, ReadInv
<1>3. PICK m \in Nat : p = MaxBlocks * m
  BY <1>1 DEF IInv, ReadInv
<1>4. PICK at \in Nat, w \in Nat, size \in Nat, b \in Nat :
           /\ at = plan.areas[cur].at /\ w = plan.areas[cur].nnyb
           /\ p < w /\ size <= w - p /\ Chunk = size
           /\ b = Bytes(size) /\ (2 * b = size \/ 2 * b = size + 1)
           /\ First = 2 * at + p
  <2>1. MaxBlocks \in Nat
    BY DEF MaxBlocks
  <2> QED
    BY <1>2, <1>3, <2>1, ChunkIs
<1>5. PICK q \in Nat, h \in Nat : q = p /\ q = 2 * h
  <2>1. p = 30 * m
    BY <1>3 DEF MaxBlocks
  <2>2. 30 * m = 2 * (15 * m) /\ 15 * m \in Nat /\ 30 * m \in Nat
    OBVIOUS
  <2> QED
    BY <2>1, <2>2
<1>6. PICK c \in Nat, v \in Nat : c = Capacity /\ v = Bytes(w) /\ 2 * (at + v) <= c
  <2>1. Capacity \in Nat /\ 2 * (at + Bytes(w)) <= Capacity
    BY <1>2, <1>4 DEF BufferInv, RoomFor
  <2> QED
    BY <2>1, BytesOf
<1>7. 2 * v = w \/ 2 * v = w + 1
  BY <1>6, BytesOf
<1>8. PICK f \in Nat : f = First /\ f = 2 * at + q
  BY <1>4, <1>5
<1>9. f + 2 * n <= c
  <2>1. n <= b
    BY <1>4
  <2>2. q + 2 * b <= 2 * v
    BY <1>4, <1>5, <1>7
  <2> QED
    BY <1>6, <1>8, <2>1, <2>2
<1>10. Cells(n) = f..f + 2 * n - 1
  BY <1>8 DEF Cells
<1>11. f..f + 2 * n - 1 \subseteq 0..c - 1
  BY <1>9
<1> QED
  BY <1>6, <1>10, <1>11

(* Every step keeps within the buffer.                                     *)
LEMMA BufferNext == IInv /\ BufferInv /\ [Next]_vars => BufferInv'
PROOF
<1> SUFFICES ASSUME IInv, BufferInv, [Next]_vars
             PROVE  BufferInv'
  OBVIOUS
<1>1. CASE \/ ResetAnswered \/ ResetUnanswered \/ WriteOk \/ WriteFails \/ Refresh \/ Store
           \/ Opens("daemon") \/ Opens("tool") \/ Closes \/ UNCHANGED vars
  <2>1. plan' = plan /\ data' = data /\ job' = job
    BY <1>1 DEF ResetAnswered, ResetUnanswered, WriteOk, WriteFails, NybbleDone, Refresh, Store,
                Opens, Closes, vars, link
  <2> QED
    BY <2>1, BufferKept
<1>2. CASE GiveUp \/ Return
  <2>1. job' = NoJob /\ plan' = PlanOf(FALSE, << >>) /\ data' = << >>
    BY <1>2 DEF GiveUp, Return, Rest
  <2>2. Capacity' = 16
    BY <2>1 DEF Capacity, NoJob, Job, Batches, Histories
  <2>3. plan'.areas = << >>
    BY <2>1 DEF PlanOf
  <2> QED
    BY <2>1, <2>2, <2>3, NoRoom, BufferEmpty
<1>3. ASSUME NEW j \in DaemonJobs \cup ToolJobs, Call(j)
      PROVE  BufferInv'
  <2>1. job' = j /\ plan' = PlanOf(j.op \in Batches, j.req) /\ data' = << >>
    BY <1>3 DEF Call, Prepare
  <2>2. JobRoom(j)
    BY JobsRoom DEF Jobs
  <2>3. Capacity' = CapOf(j.op, j.req)
    BY <2>1 DEF Capacity, CapOf
  <2> QED
    BY <2>1, <2>2, <2>3, BufferEmpty DEF JobRoom
<1>4. ASSUME NEW i \in Nat, NEW n \in Nat, i < RecordCount(n), job.op \in Histories,
             job'.op = job.op, Prepare("start", FALSE, RecordRow(i, n))
      PROVE  BufferInv'
  <2>1. plan' = PlanOf(FALSE, RecordRow(i, n)) /\ data' = << >>
    BY <1>4 DEF Prepare
  <2>2. Capacity' = 20
    BY <1>4 DEF Capacity, Batches, Histories
  <2>3. PICK slot \in 0..HistSlots - 1 :
              PlanOf(FALSE, RecordRow(i, n)).areas =
                   <<[addr |-> SlotsAt + HistSize * slot, nnyb |-> HistSize, at |-> 0]>>
    BY <1>4, RecordReady
  <2>4. PICK a \in Nat : a = SlotsAt + HistSize * slot
    BY HistType DEF SlotsAt, HistSize
  <2>5. PICK q \in Requests : q = Row(a, HistSize) /\ q.addr = a /\ q.nnyb = HistSize
    <3>1. Row(a, HistSize) \in Requests /\ Row(a, HistSize).addr = a /\ Row(a, HistSize).nnyb = HistSize
      BY DEF Row, Requests, HistSize
    <3> QED
      BY <3>1
  <2>6. 2 * Bytes(q.nnyb) <= 20
    BY <2>5 DEF Bytes, HistSize
  <2>7. RoomFor(<<[addr |-> q.addr, nnyb |-> q.nnyb, at |-> 0]>>, 20)
    BY <2>6, RowRoom
  <2>8. plan'.areas = <<[addr |-> q.addr, nnyb |-> q.nnyb, at |-> 0]>>
    BY <2>1, <2>3, <2>4, <2>5
  <2> QED
    BY <2>1, <2>2, <2>7, <2>8, BufferEmpty
<1>5. CASE HistorySettings
  <2>1. PICK s \in Nat, here \in Nat : \E count \in 0..here : SettingsSay(s, here, count)
    BY <1>5, SettingsRead
  <2>2. PICK count \in 0..here : SettingsSay(s, here, count)
    BY <2>1
  <2>3. job'.op = job.op /\ job'.req = job.req
    <3>1. job' = [job EXCEPT !.count = count, !.newest = s]
      BY <2>2 DEF SettingsSay
    <3>2. job = [op |-> job.op, req |-> job.req, ask |-> job.ask, writes |-> job.writes,
                 count |-> job.count, newest |-> job.newest]
      BY JobIs DEF IInv, Types
    <3> QED
      BY <3>1, <3>2
  <2>4. CASE count > 0
    <3>1. 0 < RecordCount(s) /\ 0 \in Nat /\ Prepare("start", FALSE, RecordRow(0, s))
      <4>1. 0 < here
        BY <2>4
      <4> QED
        BY <2>2, <2>4, <4>1 DEF SettingsSay
    <3>2. job.op \in Histories
      BY <1>5 DEF HistorySettings
    <3> QED
      BY <1>4, <2>3, <3>1, <3>2
  <2>5. CASE ~(count > 0)
    <3>1. plan' = plan /\ data' = data
      BY <2>2, <2>5 DEF SettingsSay
    <3> QED
      BY <2>3, <3>1, BufferKept
  <2> QED
    BY <2>4, <2>5
<1>6. CASE HistoryRecord
  <2>1. /\ job' = job /\ Len(got) < job.count /\ job.op \in Histories
        /\ got' = <<[dated  |-> job.newest - Len(got),
                     record |-> {data[x][2] : x \in 0..HistSize - 1}]>> \o got
        /\ IF Len(got') < job.count
           THEN Prepare("start", FALSE, RecordRow(Len(got'), job.newest))
           ELSE plan' = plan /\ data' = data
    BY <1>6 DEF HistoryRecord
  <2>2. CASE Len(got') < job.count
    <3>1. Types /\ HistInv
      BY DEF IInv
    <3>2. got \in Seq([dated : Int, record : SUBSET Int])
      BY <3>1 DEF Types
    <3>3. PICK i \in Nat : i = Len(got')
      <4>1. PICK rec : rec = [dated  |-> job.newest - Len(got),
                              record |-> {data[x][2] : x \in 0..HistSize - 1}]
        OBVIOUS
      <4>2. got' = <<rec>> \o got
        BY <2>1, <4>1
      <4>3. Len(<<rec>> \o got) \in Nat
        BY <3>2
      <4> QED
        BY <4>2, <4>3
    <3>4. PICK n \in Nat, count \in Int : n = job.newest /\ count = job.count
      BY <3>1, Numbers, JobIs, HistType DEF Types
    <3>5. i < count /\ count # -1
      BY <2>2, <3>3, <3>4
    <3>6. RecordCount(n) \in Nat /\ count <= RecordCount(n)
      <4>1. RecordCount(n) \in Nat
        BY HistType DEF RecordCount
      <4>2. count \in 0..RecordCount(n)
        BY <2>1, <3>1, <3>4, <3>5 DEF HistInv
      <4> QED
        BY <4>1, <4>2
    <3>7. i < RecordCount(n)
      BY <3>5, <3>6
    <3>8. Prepare("start", FALSE, RecordRow(i, n))
      BY <2>1, <2>2, <3>3, <3>4
    <3> QED
      BY <1>4, <2>1, <3>7, <3>8
  <2>3. CASE ~(Len(got') < job.count)
    BY <2>1, <2>3, BufferKept
  <2> QED
    BY <2>2, <2>3
<1>7. ASSUME NEW cells, cells \subseteq 0..Capacity - 1, plan' = plan, job' = job,
             DOMAIN data' = DOMAIN data \cup cells
      PROVE  BufferInv'
  <2>1. Capacity' = Capacity
    BY <1>7 DEF Capacity
  <2> QED
    BY <1>7, <2>1 DEF BufferInv, RoomFor
<1>8. CASE ReadOk
  <2>1. /\ pc = "read" /\ plan' = plan /\ job' = job
        /\ DOMAIN data' = DOMAIN data \cup Cells(Bytes(Chunk))
    BY <1>8 DEF ReadOk
  <2>2. PICK b \in Nat : b = Bytes(Chunk)
    <3>1. Reading
      <4>1. job.op # "set"
        BY <2>1 DEF IInv, SetInv
      <4> QED
        BY <2>1, <4>1 DEF Reading
    <3>2. PlanReady(plan) /\ cur \in DOMAIN plan.areas /\ p < plan.areas[cur].nnyb
      BY <2>1, <3>1 DEF IInv, ReadInv
    <3>3. PICK m \in Nat : p = MaxBlocks * m
      BY <2>1, <3>1 DEF IInv, ReadInv
    <3>4. PICK size \in Nat : Chunk = size
      BY <3>2, <3>3, ChunkIs
    <3> QED
      BY <3>4, BytesOf
  <2>3. Cells(b) \subseteq 0..Capacity - 1
    BY <2>1, <2>2, CellsFit
  <2> QED
    BY <1>7, <2>1, <2>2, <2>3
<1>9. ASSUME NEW n \in 0..Bytes(MaxBlocks), ReadFails(n)
      PROVE  BufferInv'
  <2>1. /\ pc = "read" /\ plan' = plan /\ job' = job /\ n <= Bytes(Chunk)
        /\ DOMAIN data' = DOMAIN data \cup Cells(n)
    BY <1>9 DEF ReadFails
  <2>2. n \in Nat
    BY BytesOf DEF MaxBlocks
  <2>3. Cells(n) \subseteq 0..Capacity - 1
    BY <2>1, <2>2, CellsFit
  <2> QED
    BY <1>7, <2>1, <2>3
<1> QED
  BY <1>1, <1>2, <1>3, <1>5, <1>6, <1>8, <1>9 DEF Next, LinkStep

(* Nothing is read past the end of the buffer that the caller has for its  *)
(* answer, nor when an exchange fails in its midst: the areas of a batch,  *)
(* joined as they are, take no more bytes than its requests one by one     *)
(* (ws23xx_read_batch, ws23xx_read_safe, ws23xx_fetch_ar).                 *)
THEOREM Ws23xxDataFits == Spec => []DataFits
PROOF
<1>1. Init => BufferInv
  <2> SUFFICES ASSUME Init
               PROVE  BufferInv
    OBVIOUS
  <2>1. job = NoJob /\ plan = PlanOf(FALSE, << >>) /\ data = << >>
    BY DEF Init
  <2>2. Capacity = 16
    BY <2>1 DEF Capacity, NoJob, Job, Batches, Histories
  <2>3. plan.areas = << >> /\ DOMAIN data = {}
    BY <2>1 DEF PlanOf
  <2> QED
    BY <2>2, <2>3, NoRoom DEF BufferInv
<1>2. BufferInv => DataFits
  BY DEF BufferInv, DataFits
<1> QED
  BY <1>1, <1>2, InvInit, InvNext, BufferNext, PTL DEF Spec

---------------------------------------------------------------------------
(* The digits of a field. *)

LEMMA MinIs ==
  ASSUME NEW s \in SUBSET Int, NEW m \in s, \A y \in s : m <= y
  PROVE  Min(s) = m
PROOF
<1>1. m \in s /\ \A y \in s : m <= y
  OBVIOUS
<1>2. Min(s) \in s /\ \A y \in s : Min(s) <= y
  BY <1>1, Zenon DEF Min
<1>3. PICK x \in s : x = Min(s)
  BY <1>2
<1>4. x \in Int /\ m \in Int /\ x <= m /\ m <= x
  BY <1>2, <1>3
<1> QED
  BY <1>3, <1>4

LEMMA MinAmong ==
  ASSUME NEW s \in SUBSET Nat, s # {}
  PROVE  Min(s) \in s
PROOF
<1>1. PICK m \in s : \A y \in s : m <= y
  BY Least, Zenon
<1>2. Min(s) = m
  <2>1. s \in SUBSET Int
    OBVIOUS
  <2> QED
    BY <1>1, <2>1, MinIs
<1> QED
  BY <1>2

(* What a fold from the right goes by.                                     *)
FoldsDownBy(g, F, x0, n) ==
    \A s \in SUBSET (1..n) : g[s] = IF s = {} THEN x0 ELSE F[Min(s)][g[s \ {Min(s)}]]

(* Such a fold has a value on every set of numbers.                        *)
LEMMA FoldDownExists ==
  ASSUME NEW X, NEW x0 \in X, NEW n \in Nat, NEW F \in [1..n -> [X -> X]]
  PROVE  \E g \in [SUBSET (1..n) -> X] : FoldsDownBy(g, F, x0, n)
PROOF
<1> DEFINE Fits(g, m) ==
             \A s \in SUBSET (n - m + 1..n) :
               g[s] = IF s = {} THEN x0 ELSE F[Min(s)][g[s \ {Min(s)}]]
<1> DEFINE T == {m \in 0..n : \E g \in [SUBSET (n - m + 1..n) -> X] : Fits(g, m)}
<1>1. 0 \in T
  <2>1. [s \in SUBSET (n - 0 + 1..n) |-> x0] \in [SUBSET (n - 0 + 1..n) -> X]
    OBVIOUS
  <2>2. \A s \in SUBSET (n - 0 + 1..n) : s = {}
    OBVIOUS
  <2>3. Fits([s \in SUBSET (n - 0 + 1..n) |-> x0], 0)
    BY <2>2
  <2>4. \E g \in [SUBSET (n - 0 + 1..n) -> X] : Fits(g, 0)
    BY <2>1, <2>3, Zenon
  <2>5. 0 \in 0..n
    OBVIOUS
  <2> QED
    BY <2>4, <2>5, Zenon
<1>2. ASSUME NEW m \in 0..n - 1, m \in T
      PROVE  m + 1 \in T
  <2>1. PICK g \in [SUBSET (n - m + 1..n) -> X] : Fits(g, m)
    BY <1>2
  <2>0. PICK lo \in 1..n : lo = n - m /\ lo = n - (m + 1) + 1 /\ n - m + 1 = lo + 1
    OBVIOUS
  <2> DEFINE h == [s \in SUBSET (lo..n) |-> IF lo \in s THEN F[lo][g[s \ {lo}]] ELSE g[s]]
  <2>2. \A s \in SUBSET (lo..n) : s \ {lo} \in SUBSET (lo + 1..n)
    OBVIOUS
  <2>3. \A s \in SUBSET (lo..n) : lo \notin s => s \in SUBSET (lo + 1..n)
    OBVIOUS
  <2>4. lo + 1..n \subseteq lo..n /\ lo + 1..n \subseteq Nat /\ lo..n \subseteq Int
    OBVIOUS
  <2>5. h \in [SUBSET (lo..n) -> X]
    BY <2>0, <2>2, <2>3, <2>4
  <2>6. ASSUME NEW s \in SUBSET (lo..n)
        PROVE  h[s] = IF s = {} THEN x0 ELSE F[Min(s)][h[s \ {Min(s)}]]
    <3>1. CASE lo \in s
      <4>1. Min(s) = lo
        <5>1. s \in SUBSET Int /\ \A y \in s : lo <= y
          BY <2>4
        <5> QED
          BY <3>1, <5>1, MinIs
      <4>2. h[s \ {lo}] = g[s \ {lo}]
        BY <2>2, <2>4
      <4> QED
        BY <3>1, <4>1, <4>2
    <3>2. CASE lo \notin s
      <4>1. s \in SUBSET (lo + 1..n) /\ h[s] = g[s]
        BY <2>3, <3>2
      <4>2. s \ {Min(s)} \in SUBSET (lo + 1..n) /\ lo \notin s \ {Min(s)}
        BY <3>2, <4>1
      <4>3. h[s \ {Min(s)}] = g[s \ {Min(s)}]
        BY <2>4, <4>2
      <4>4. g[s] = IF s = {} THEN x0 ELSE F[Min(s)][g[s \ {Min(s)}]]
        BY <2>0, <2>1, <4>1
      <4> QED
        BY <4>1, <4>3, <4>4
    <3> QED
      BY <3>1, <3>2
  <2> HIDE DEF h
  <2>7. Fits(h, m + 1)
    BY <2>0, <2>6
  <2>8. \E f \in [SUBSET (n - (m + 1) + 1..n) -> X] : Fits(f, m + 1)
    <3>1. h \in [SUBSET (n - (m + 1) + 1..n) -> X]
      BY <2>0, <2>5
    <3> QED
      BY <3>1, <2>7, Zenon
  <2>9. m + 1 \in 0..n
    OBVIOUS
  <2> QED
    BY <2>8, <2>9, Zenon
<1> HIDE DEF T
<1>3. n \in T
  <2>1. \A i \in 0..n : i \in T
    BY <1>1, <1>2, UpTo, Zenon
  <2> QED
    BY <2>1
<1>4. PICK g \in [SUBSET (n - n + 1..n) -> X] : Fits(g, n)
  BY <1>3 DEF T
<1>5. n - n + 1 = 1
  OBVIOUS
<1>6. g \in [SUBSET (1..n) -> X] /\ FoldsDownBy(g, F, x0, n)
  BY <1>4, <1>5 DEF FoldsDownBy
<1> QED
  BY <1>6

Numbered == [value : Int, ended : BOOLEAN]

Digit(v, res) ==
    IF res.ended \/ v >= 10 THEN [res EXCEPT !.ended = TRUE]
    ELSE [res EXCEPT !.value = 10 * @ + v]

NoDigit == [value |-> 0, ended |-> FALSE]

(* A digit is added, or the number has ended.                              *)
LEMMA DigitIs ==
  ASSUME NEW v \in Nybble, NEW res \in Numbered
  PROVE  /\ Digit(v, res) \in Numbered
         /\ res.ended \/ v >= 10 => Digit(v, res).ended /\ Digit(v, res).value = res.value
         /\ ~(res.ended \/ v >= 10) => Digit(v, res).value = 10 * res.value + v
PROOF
<1>1. PICK x \in Int, e \in BOOLEAN : res = [value |-> x, ended |-> e]
  BY DEF Numbered
<1>2. CASE e \/ v >= 10
  <2>1. Digit(v, res) = [value |-> x, ended |-> TRUE]
    BY <1>1, <1>2 DEF Digit
  <2>2. [value |-> x, ended |-> TRUE] \in Numbered
    BY DEF Numbered
  <2>3. [value |-> x, ended |-> TRUE].ended /\ [value |-> x, ended |-> TRUE].value = x
    OBVIOUS
  <2>4. res.value = x /\ res.ended = e
    BY <1>1
  <2> QED
    BY <1>2, <2>1, <2>2, <2>3, <2>4, Zenon
<1>3. CASE ~(e \/ v >= 10)
  <2>1. Digit(v, res) = [value |-> 10 * x + v, ended |-> e]
    BY <1>1, <1>3 DEF Digit
  <2>2. 10 * x + v \in Int
    BY DEF Nybble
  <2> QED
    BY <1>1, <1>3, <2>1, <2>2 DEF Numbered
<1> QED
  BY <1>2, <1>3

LEMMA Backwards ==
  ASSUME NEW n \in Nat, NEW m \in 1..n
  PROVE  n + 1 - m \in 1..n /\ n + 1 - (m - 1) = (n + 1 - m) + 1 /\ m \in 0..n /\ m - 1 \in 0..n
PROOF
  OBVIOUS

(* The digits one by one, from the most significant one down.              *)
LEMMA NybSteps ==
  ASSUME NEW n \in Nat, NEW nybs \in [1..n -> Nybble]
  PROVE  \E f \in [0..n -> Numbered] :
           /\ f[0] = NoDigit /\ nybtoul(nybs, 10) = f[n].value
           /\ \A m \in 1..n : f[m] = Digit(nybs[n + 1 - m], f[m - 1])
PROOF
<1> DEFINE F == [m \in 1..n |-> [res \in Numbered |-> Digit(nybs[m], res)]]
<1>1. F \in [1..n -> [Numbered -> Numbered]]
  BY DigitIs
<1>2. NoDigit \in Numbered
  BY DEF NoDigit, Numbered
<1>3. \E g \in [SUBSET (1..n) -> Numbered] : FoldsDownBy(g, F, NoDigit, n)
  <2> HIDE DEF F
  <2> QED
    BY <1>1, <1>2, FoldDownExists, Zenon
<1> DEFINE IsFold(g) ==
             g = [s \in SUBSET (DOMAIN nybs) |->
                    IF s = {} THEN NoDigit ELSE Digit(nybs[Min(s)], g[s \ {Min(s)}])]
<1>4. \E g : IsFold(g)
  <2>1. PICK g \in [SUBSET (1..n) -> Numbered] : FoldsDownBy(g, F, NoDigit, n)
    BY <1>3
  <2>2. ASSUME NEW s \in SUBSET (1..n), s # {}
        PROVE  g[s] = Digit(nybs[Min(s)], g[s \ {Min(s)}])
    <3>1. Min(s) \in 1..n /\ s \ {Min(s)} \in SUBSET (1..n)
      <4>1. s \in SUBSET Nat
        OBVIOUS
      <4> QED
        BY <2>2, <4>1, MinAmong
    <3>2. g[s \ {Min(s)}] \in Numbered
      BY <3>1
    <3>3. g[s] = F[Min(s)][g[s \ {Min(s)}]]
      BY <2>1, <2>2 DEF FoldsDownBy
    <3> QED
      BY <3>1, <3>2, <3>3
  <2>3. g[{}] = NoDigit
    BY <2>1 DEF FoldsDownBy
  <2>4. IsFold(g)
    <3> HIDE DEF F
    <3> QED
      BY <2>2, <2>3
  <2> QED
    BY <2>4
<1> DEFINE iter == CHOOSE g : IsFold(g)
<1>5. IsFold(iter)
  BY <1>4, Zenon
<1>61. DOMAIN nybs = 1..n
  OBVIOUS
<1>6. nybtoul(nybs, 10) = iter[1..n].value
  <2>1. nybtoul(nybs, 10) = iter[DOMAIN nybs].value
    BY DEF nybtoul, FoldRight, MapThenFoldSet, Digit, NoDigit
  <2> QED
    BY <1>61, <2>1, Zenon
<1> HIDE DEF iter
<1>7. iter[n + 1..n] = NoDigit
  <2>1. n + 1..n = {} /\ {} \in SUBSET (DOMAIN nybs)
    OBVIOUS
  <2> QED
    BY <1>5, <2>1
<1>8. ASSUME NEW m \in 1..n
      PROVE  iter[m..n] = Digit(nybs[m], iter[m + 1..n])
  <2>0. m \in Nat /\ m \in m..n /\ m..n \subseteq 1..n
    OBVIOUS
  <2>1. m..n \in SUBSET (DOMAIN nybs) /\ m..n # {} /\ m \in m..n
    BY <1>61, <2>0, Zenon
  <2>2. Min(m..n) = m
    <3>1. m..n \in SUBSET Int /\ \A y \in m..n : m <= y
      OBVIOUS
    <3> QED
      BY <2>1, <3>1, MinIs
  <2>3. (m..n) \ {m} = m + 1..n
    OBVIOUS
  <2>4. iter[m..n] = Digit(nybs[Min(m..n)], iter[(m..n) \ {Min(m..n)}])
    BY <1>5, <2>1
  <2> QED
    BY <2>2, <2>3, <2>4
<1>81. \A m \in 1..n : n + 1 - m \in 1..n /\ n + 1 - (m - 1) = (n + 1 - m) + 1 /\ m \in 0..n /\ m - 1 \in 0..n
  BY Backwards, Zenon
<1> DEFINE f == [m \in 0..n |-> iter[n + 1 - m..n]]
<1>9. ASSUME NEW m \in 1..n
      PROVE  f[m] = Digit(nybs[n + 1 - m], f[m - 1])
  <2>1. n + 1 - m \in 1..n /\ n + 1 - (m - 1) = (n + 1 - m) + 1 /\ m \in 0..n /\ m - 1 \in 0..n
    BY <1>81, Zenon
  <2>2. f[m] = iter[n + 1 - m..n] /\ f[m - 1] = iter[(n + 1 - m) + 1..n]
    BY <2>1
  <2> QED
    BY <1>8, <2>1, <2>2
<1>10. f[0] = NoDigit /\ f[n] = iter[1..n] /\ n \in 0..n
  BY <1>7
<1>11. f \in [0..n -> Numbered]
  <2> DEFINE T == {m \in 0..n : f[m] \in Numbered}
  <2>1. 0 \in T
    BY <1>2, <1>10
  <2> HIDE DEF f
  <2>2. ASSUME NEW m \in 0..n - 1, m \in T
        PROVE  m + 1 \in T
    <3>1. m + 1 \in 1..n /\ (m + 1) - 1 = m /\ n + 1 - (m + 1) \in 1..n /\ m + 1 \in 0..n
      OBVIOUS
    <3>2. f[m + 1] = Digit(nybs[n + 1 - (m + 1)], f[m])
      BY <1>9, <3>1
    <3>3. f[m + 1] \in Numbered
      BY <2>2, <3>1, <3>2, DigitIs
    <3> QED
      BY <3>1, <3>3
  <2> HIDE DEF T
  <2>3. \A m \in 0..n : m \in T
    BY <2>1, <2>2, UpTo, Zenon
  <2>4. \A m \in 0..n : f[m] \in Numbered
    BY <2>3 DEF T
  <2> USE DEF f
  <2> QED
    BY <2>4
<1> HIDE DEF f
<1>12. nybtoul(nybs, 10) = f[n].value
  BY <1>6, <1>10
<1> QED
  BY <1>9, <1>10, <1>11, <1>12

(* A field with no decimal digit among its two most significant nybbles is *)
(* below 10, however many nybbles it has.                                  *)
LEMMA TopDigits ==
  ASSUME NEW n \in Nat, n >= 2, NEW nybs \in [1..n -> Nybble], nybs[n] >= 10 \/ nybs[n - 1] >= 10
  PROVE  nybtoul(nybs, 10) \in Int /\ nybtoul(nybs, 10) < 10
PROOF
<1>1. PICK f \in [0..n -> Numbered] :
        /\ f[0] = NoDigit /\ nybtoul(nybs, 10) = f[n].value
        /\ \A m \in 1..n : f[m] = Digit(nybs[n + 1 - m], f[m - 1])
  BY NybSteps
<1>2. 1 \in 1..n /\ 2 \in 1..n /\ n \in 1..n /\ n - 1 \in 1..n /\ n + 1 - 1 = n /\ n + 1 - 2 = n - 1
      /\ 1 - 1 = 0 /\ 2 - 1 = 1 /\ 0 \in 0..n /\ 1 \in 0..n /\ 2 \in 0..n
  OBVIOUS
<1>3. f[1] = Digit(nybs[n], f[0]) /\ f[2] = Digit(nybs[n - 1], f[1])
  BY <1>1, <1>2
<1>4. f[0] \in Numbered /\ f[1] \in Numbered /\ f[0].value = 0
  <2>1. f[0] \in Numbered /\ f[1] \in Numbered
    BY <1>2
  <2>2. NoDigit.value = 0
    BY DEF NoDigit
  <2> QED
    BY <1>1, <2>1, <2>2
<1>5. PICK u \in Nybble, v \in Nybble : u = nybs[n] /\ v = nybs[n - 1]
  BY <1>2
<1>6. \A res \in Numbered : res.value \in Int
  BY DEF Numbered
<1>7. f[2].ended /\ f[2].value < 10
  <2>1. CASE u >= 10
    <3>1. f[1].ended /\ f[1].value = 0
      BY <1>3, <1>4, <1>5, <2>1, DigitIs
    <3> QED
      BY <1>3, <1>4, <1>5, <3>1, DigitIs
  <2>2. CASE ~(u >= 10)
    <3>1. v >= 10
      BY <1>5, <2>2
    <3>2. f[2].ended /\ f[2].value = f[1].value
      BY <1>3, <1>4, <1>5, <3>1, DigitIs
    <3>3. f[0].ended = FALSE
      BY <1>1 DEF NoDigit
    <3>4. f[1].value = 10 * 0 + u
      BY <1>3, <1>4, <1>5, <2>2, <3>3, DigitIs
    <3>5. f[1].value < 10
      BY <2>2, <3>4 DEF Nybble
    <3> QED
      BY <3>2, <3>5
  <2> QED
    BY <2>1, <2>2
<1> DEFINE Still(m) == f[m].ended /\ f[m].value < 10
           T == {m \in 0..n - 2 : Still(m + 2)}
<1>8. 0 \in T
  BY <1>7
<1>9. ASSUME NEW m \in 0..(n - 2) - 1, m \in T
      PROVE  m + 1 \in T
  <2>1. (m + 1) + 2 \in 1..n /\ ((m + 1) + 2) - 1 = m + 2 /\ m + 2 \in 0..n
        /\ n + 1 - ((m + 1) + 2) \in 1..n /\ m + 1 \in 0..n - 2
    OBVIOUS
  <2>2. f[(m + 1) + 2] = Digit(nybs[n + 1 - ((m + 1) + 2)], f[m + 2])
    BY <1>1, <2>1
  <2>3. f[m + 2] \in Numbered /\ nybs[n + 1 - ((m + 1) + 2)] \in Nybble /\ f[m + 2].ended /\ f[m + 2].value < 10
    BY <1>9, <2>1
  <2>4. f[(m + 1) + 2].ended /\ f[(m + 1) + 2].value = f[m + 2].value
    BY <2>2, <2>3, DigitIs
  <2> QED
    BY <2>1, <2>3, <2>4
<1>10. n - 2 \in T
  <2> HIDE DEF T
  <2>1. n - 2 \in Nat
    OBVIOUS
  <2>2. \A m \in 0..n - 2 : m \in T
    BY <1>8, <1>9, <2>1, UpTo, Zenon
  <2> QED
    BY <2>1, <2>2
<1>11. (n - 2) + 2 = n
  OBVIOUS
<1>12. f[n].value < 10 /\ f[n] \in Numbered
  BY <1>2, <1>10, <1>11
<1> QED
  BY <1>1, <1>6, <1>12

(* The nybbles of a field of a reading are nybbles of the sensors' memory. *)
LEMMA NybsAre ==
  ASSUME IInv, Batch, job.op = "rt", NEW j \in DOMAIN job.req
  PROVE  Nybs(j) \in [1..job.req[j].nnyb -> Nybble]
PROOF
<1>1. PICK x \in DOMAIN plan.areas : Holds(job.req, plan, j, x)
  BY RequestRead
<1>2. PICK e \in 1..Epoch : Stamps(j) = {e}
  BY <1>1, OneStamp
<1>3. job.req[j].nnyb \in Nat
  BY RequestRead, ReqType
<1>4. PICK n \in Nat : n = job.req[j].nnyb
  BY <1>3
<1>5. images[e] \in Images
  <2>1. images \in Seq(Images) /\ e \in 1..Len(images)
    BY DEF IInv, Types, TypeOK, Epoch
  <2> QED
    BY <2>1
<1>6. ASSUME NEW a
      PROVE  NybbleAt(images[e], a) \in Nybble
  <2>1. \A b \in DOMAIN images[e] : images[e][b] \in Nybble
    BY <1>5, Ws23xxAssumption
  <2>2. 0 \in Nybble
    BY DEF Nybble
  <2> QED
    BY <2>1, <2>2 DEF NybbleAt
<1>7. ASSUME NEW i \in 1..n
      PROVE  data[plan.off[j] + i - 1][2] = e
  <2>1. i - 1 \in 0..n - 1
    OBVIOUS
  <2>2. data[plan.off[j] + (i - 1)][2] \in Stamps(j)
    BY <1>4, <2>1 DEF Stamps
  <2>3. plan.off[j] + (i - 1) = plan.off[j] + i - 1
    <3>1. PICK q \in Nat : 2 * plan.areas[x].at + q = plan.off[j] + (i - 1)
      BY <1>1, <1>4, <2>1, Cell
    <3> QED
      BY <1>1, PlanReadyType, RequestRead DEF Holds
  <2> QED
    BY <1>2, <2>2, <2>3
<1> QED
  BY <1>4, <1>6, <1>7 DEF Nybs

(* The mask's parts the theorem is about.                                  *)
LEMMA MaskSays ==
  ASSUME NEW v, NEW cnx, NEW overflow, NEW invalid
  PROVE  /\ Mask(v, cnx, overflow, invalid) \cap {"temp", "humidity", "wind_speed"} # {}
              => cnx \in Connected
         /\ "temp" \in Mask(v, cnx, overflow, invalid) => ~(v.temp < -2990)
         /\ "humidity" \in Mask(v, cnx, overflow, invalid) => ~(v.humidity < 10)
         /\ "wind_speed" \in Mask(v, cnx, overflow, invalid) => overflow = 0 /\ invalid = 0
PROOF
<1>1. Mask(v, cnx, overflow, invalid) \subseteq Reported(cnx, overflow, invalid)
  BY DEF Mask
<1>2. /\ Reported(cnx, overflow, invalid) \cap {"temp", "humidity", "wind_speed"} # {}
           => cnx \in Connected
      /\ "wind_speed" \in Reported(cnx, overflow, invalid) => overflow = 0 /\ invalid = 0
  BY DEF Reported
<1>3. /\ "temp" \in Mask(v, cnx, overflow, invalid) => ~(v.temp < -2990)
      /\ "humidity" \in Mask(v, cnx, overflow, invalid) => ~(v.humidity < 10)
  BY DEF Mask, OutOfRange
<1> QED
  BY <1>1, <1>2, <1>3

(* A lost sensor is never reported as a measure (ws23xx_get_rt): what the  *)
(* limits let pass has a number of two digits at least, so decimal ones on *)
(* top, and the flags and the connection hide the rest.                    *)
THEOREM Ws23xxOutdoorReal == Spec => []OutdoorReal
PROOF
<1>1. IInv => OutdoorReal
  <2> SUFFICES ASSUME IInv, Batch, job.op = "rt"
               PROVE  /\ RtMask \cap {"temp", "humidity", "wind_speed"} # {}
                           => Nybs(12)[1] \in Connected
                      /\ "temp" \in RtMask => Nybs(2)[3] < 10 /\ Nybs(2)[4] < 10
                      /\ "humidity" \in RtMask => \A i \in 1..2 : Nybs(6)[i] < 10
                      /\ "wind_speed" \in RtMask => Nybs(8)[1] = 0 /\ Nybs(9)[1] = 0
    BY DEF OutdoorReal
  <2>1. job.req = RtTable /\ DOMAIN job.req = 1..13
    BY JobIs, RtRows DEF IInv, Types
  <2>2. Nybs(2) \in [1..4 -> Nybble] /\ Nybs(6) \in [1..2 -> Nybble]
    <3>1. 2 \in 1..13 /\ 6 \in 1..13
      OBVIOUS
    <3>2. RtTable[2].nnyb = 4 /\ RtTable[6].nnyb = 2
      BY DEF RtTable, Row
    <3> QED
      BY <2>1, <3>1, <3>2, NybsAre
  <2> DEFINE values == [in_temp |-> temp(Nybs(1)), temp |-> temp(Nybs(2)),
                        humidity |-> humidity(Nybs(6)), wind_speed |-> speed(Nybs(10))]
  <2>3. RtMask = Mask(values, Nybs(12)[1], Nybs(8)[1], Nybs(9)[1])
    BY DEF RtMask
  <2>4. values.temp = nybtoul(Nybs(2), 10) - 3000 /\ values.humidity = nybtoul(Nybs(6), 10)
    BY DEF temp, humidity
  <2> HIDE DEF values
  <2>5. /\ RtMask \cap {"temp", "humidity", "wind_speed"} # {} => Nybs(12)[1] \in Connected
        /\ "temp" \in RtMask => ~(values.temp < -2990)
        /\ "humidity" \in RtMask => ~(values.humidity < 10)
        /\ "wind_speed" \in RtMask => Nybs(8)[1] = 0 /\ Nybs(9)[1] = 0
    <3>1. PICK c, o, w : c = Nybs(12)[1] /\ o = Nybs(8)[1] /\ w = Nybs(9)[1]
      OBVIOUS
    <3>2. RtMask = Mask(values, c, o, w)
      BY <2>3, <3>1
    <3>3. /\ Mask(values, c, o, w) \cap {"temp", "humidity", "wind_speed"} # {} => c \in Connected
          /\ "temp" \in Mask(values, c, o, w) => ~(values.temp < -2990)
          /\ "humidity" \in Mask(values, c, o, w) => ~(values.humidity < 10)
          /\ "wind_speed" \in Mask(values, c, o, w) => o = 0 /\ w = 0
      BY MaskSays
    <3> QED
      BY <3>1, <3>2, <3>3
  <2>6. ASSUME NEW x \in [1..4 -> Nybble], ~(nybtoul(x, 10) - 3000 < -2990)
        PROVE  x[3] < 10 /\ x[4] < 10
    <3>1. 4 \in Nat /\ 4 >= 2 /\ 4 - 1 = 3 /\ 3 \in 1..4 /\ 4 \in 1..4
      OBVIOUS
    <3>2. x[4] >= 10 \/ x[4 - 1] >= 10 => nybtoul(x, 10) \in Int /\ nybtoul(x, 10) < 10
      BY <3>1, TopDigits
    <3>3. PICK u \in Nybble, v \in Nybble : u = x[4] /\ v = x[3]
      BY <3>1
    <3> QED
      BY <2>6, <3>1, <3>2, <3>3 DEF Nybble
  <2>7. ASSUME NEW x \in [1..2 -> Nybble], ~(nybtoul(x, 10) < 10)
        PROVE  \A i \in 1..2 : x[i] < 10
    <3>1. 2 \in Nat /\ 2 >= 2 /\ 2 - 1 = 1 /\ 1 \in 1..2 /\ 2 \in 1..2
      OBVIOUS
    <3>2. x[2] >= 10 \/ x[2 - 1] >= 10 => nybtoul(x, 10) \in Int /\ nybtoul(x, 10) < 10
      BY <3>1, TopDigits
    <3>3. PICK u \in Nybble, v \in Nybble : u = x[2] /\ v = x[1]
      BY <3>1
    <3> QED
      BY <2>7, <3>1, <3>2, <3>3 DEF Nybble
  <2> QED
    BY <2>2, <2>4, <2>5, <2>6, <2>7
<1> QED
  BY <1>1, InvAlways, PTL

==============================================================================
