-------------------------- MODULE HostData_proofs ---------------------------
(***************************************************************************)
(* Proofs about what a host is told of files.  Records: the file is always its *)
(* values one after the other, a READ finds the value it should give, and      *)
(* VERIFY tells a program from every other.  Listing: wild_cmp() finds what a  *)
(* pattern stands for, and a listing has all of it.                          *)
(* Of the host it is assumed that it has no habit; that no record of a        *)
(* RELATIVE file begins at Word or beyond; and that the length of a listing    *)
(* and the KiB of a file can be told in 16 bits.                             *)
(***************************************************************************)
EXTENDS Records, Listing, FiniteSetTheorems, FunctionTheorems, SequenceTheorems,
        WellFoundedInduction, TLAPS

Orderly == RecordHabits = {} /\ Buflen < Word /\ Buflen * MaxValues < Word

-----------------------------------------------------------------------------
(* Sequences of bytes. *)
Data == Seq(Int)

LEMMA Constants ==
  /\ Buflen \in Nat /\ Buflen >= 1 /\ Half \in Nat /\ Half >= 1
  /\ Word \in Nat /\ Word >= 1 /\ MaxValues \in Nat
  BY RecordsAssumption

LEMMA SameData ==
  ASSUME NEW s \in Data, NEW t \in Data, Len(s) = Len(t), \A i \in 1 .. Len(s) : s[i] = t[i]
  PROVE  s = t
  BY SeqEqual DEF Data

LEMMA FunctionIsSeq ==
  ASSUME NEW S, NEW n \in Nat, NEW s \in [1 .. n -> S]
  PROVE  s \in Seq(S) /\ Len(s) = n
  OBVIOUS

(* A zeros sequence. *)
LEMMA ZerosAre ==
  ASSUME NEW n \in Nat
  PROVE  /\ Zeros(n) \in Data /\ Len(Zeros(n)) = n
         /\ \A i \in 1 .. n : Zeros(n)[i] = 0
  BY FunctionIsSeq DEF Zeros, NUL, Data

LEMMA ZerosNone ==
  ASSUME NEW s \in Data
  PROVE  s \o Zeros(0) = s
  BY ZerosAre, EmptySeq, ConcatEmptySeq DEF Data

(* What a value is. *)
LEMMA ValueIs ==
  ASSUME NEW v \in Value
  PROVE  /\ v \in Data /\ v # Nothing /\ Len(Printed(v)) <= Room
         /\ \A i \in 1 .. Len(v) : v[i] \in Char
         /\ Display /\ RecordHabits = {} => Matched(v)
<1> DEFINE n == IF Display THEN MaxValue ELSE MaxOther
<1>1. n \in Nat /\ \A c \in Char : c \in Int /\ c # 255
  BY RecordsAssumption
<1>2. v \in BoundedSeq(Char, n) /\ (Display => Matched(v) \/ "ragged" \in RecordHabits)
      /\ Len(Printed(v)) <= Room
  BY DEF Value
<1>3. PICK m \in 0 .. n : v \in [1 .. m -> Char]
  BY <1>2, Zenon DEF BoundedSeq, SeqOf
<1>4. v \in Seq(Char) /\ Len(v) = m
  BY <1>1, <1>3, FunctionIsSeq
<1>5. v \in Data /\ \A i \in 1 .. Len(v) : v[i] \in Char
  <2>1. \A i \in 1 .. Len(v) : v[i] \in Char
    BY <1>3, <1>4
  <2>2. v \in [1 .. m -> Int]
    BY <1>1, <1>3
  <2> QED BY <2>1, <2>2, FunctionIsSeq DEF Data
<1>6. v # Nothing
  <2>1. SUFFICES ASSUME v = Nothing PROVE FALSE
    OBVIOUS
  <2>2. Len(v) = 1 /\ v[1] = 255
    BY <2>1 DEF Nothing, JUNK
  <2> QED BY <1>1, <1>5, <2>2
<1> QED BY <1>2, <1>5, <1>6

(* A sequence of bytes with two of them in front, or behind.                    *)
LEMMA Joined ==
  ASSUME NEW s \in Data, NEW t \in Data
  PROVE  /\ s \o t \in Data /\ Len(s \o t) = Len(s) + Len(t)
         /\ \A i \in 1 .. Len(s) : (s \o t)[i] = s[i]
         /\ \A i \in 1 .. Len(t) : (s \o t)[Len(s) + i] = t[i]
<1>1. /\ s \o t \in Data /\ Len(s \o t) = Len(s) + Len(t)
      /\ \A i \in 1 .. Len(s) + Len(t) : (s \o t)[i] = IF i <= Len(s) THEN s[i] ELSE t[i - Len(s)]
  BY ConcatProperties DEF Data
<1>2. Len(s) \in Nat /\ Len(t) \in Nat
  BY LenProperties DEF Data
<1> QED BY <1>1, <1>2

(* What a value is printed as.                                               *)
LEMMA PrintedIs ==
  ASSUME NEW v \in Data
  PROVE  /\ Printed(v) \in Data
         /\ kind \in {"internal", "relInternal"} =>
              Len(Printed(v)) = Len(v) + 1 /\ Printed(v)[1] = Len(v)
         /\ kind \in {"display", "relDisplay", "raw"} => Printed(v) = v
         /\ kind = "program" => Len(Printed(v)) = Len(v) + 2 /\ SubSeq(Printed(v), 1, 2) = <<128, 3>>
<1>1. Len(v) \in Nat
  BY DEF Data
<1>2. <<Len(v)>> \in Data /\ <<128, 3>> \in Data
  BY <1>1 DEF Data
<1>3. CASE kind \in {"internal", "relInternal"}
  <2>1. Printed(v) = <<Len(v)>> \o v
    BY <1>3 DEF Printed
  <2> QED BY <1>1, <1>2, <1>3, <2>1, Joined
<1>4. CASE kind = "program"
  <2>1. Printed(v) = <<128, 3>> \o v
    BY <1>4 DEF Printed
  <2>2. Len(Printed(v)) = Len(v) + 2 /\ Printed(v)[1] = 128 /\ Printed(v)[2] = 3 /\ Printed(v) \in Data
    BY <1>1, <1>2, <2>1, Joined
  <2>3. SubSeq(Printed(v), 1, 2) = <<128, 3>>
    <3> DEFINE q == SubSeq(Printed(v), 1, 2)
               header == <<128, 3>>
    <3>1. \A i \in 1 .. 2 : Printed(v)[i] \in Int
      BY <2>2
    <3>2. q \in Data /\ Len(q) = 2 /\ \A i \in 1 .. 2 : q[i] = Printed(v)[1 + i - 1]
      BY <3>1, SubSeqProperties DEF Data
    <3>3. header \in Data /\ Len(header) = 2 /\ header[1] = 128 /\ header[2] = 3
      BY <1>2
    <3> HIDE DEF q, header
    <3>4. q[1] = 128 /\ q[2] = 3
      BY <2>2, <3>2
    <3>5. Len(q) = Len(header) /\ \A i \in 1 .. Len(q) : q[i] = header[i]
      BY <3>2, <3>3, <3>4
    <3>6. q = header
      BY <3>2, <3>3, <3>5, SameData
    <3> QED BY <3>6 DEF q, header
  <2> QED BY <1>4, <2>2, <2>3
<1> QED BY <1>3, <1>4 DEF Printed

(* The line that is written for it, filled to the end of the record.            *)
LEMMA LineIs ==
  ASSUME NEW d \in Data
  PROVE  /\ Line(d) \in Data
         /\ ~Display \/ IsProgram(d) => Line(d) = d
         /\ Display /\ ~IsProgram(d) =>
              /\ Line(d) = d \o <<CR, LF>> /\ Len(Line(d)) = Len(d) + 2
              /\ \A i \in 1 .. Len(d) : Line(d)[i] = d[i]
              /\ Line(d)[Len(d) + 1] = 13 /\ Line(d)[Len(d) + 2] = 10
<1>1. <<CR, LF>> \in Data /\ Len(<<CR, LF>>) = 2 /\ <<CR, LF>>[1] = 13 /\ <<CR, LF>>[2] = 10
  BY DEF Data, CR, LF
<1>2. /\ d \o <<CR, LF>> \in Data /\ Len(d \o <<CR, LF>>) = Len(d) + 2
      /\ \A i \in 1 .. Len(d) : (d \o <<CR, LF>>)[i] = d[i]
      /\ (d \o <<CR, LF>>)[Len(d) + 1] = 13 /\ (d \o <<CR, LF>>)[Len(d) + 2] = 10
  BY <1>1, Joined
<1> QED BY <1>2 DEF Line

LEMMA FilledIs ==
  ASSUME NEW d \in Data
  PROVE  /\ Filled(d) \in Data
         /\ ~Relative => Filled(d) = d
         /\ Relative /\ Len(d) <= Buflen => Len(Filled(d)) = Buflen
         /\ \A i \in 1 .. Len(d) : Filled(d)[i] = d[i]
         /\ Len(Filled(d)) >= Len(d)
<1> DEFINE n == IF Relative /\ Buflen > Len(d) THEN Buflen - Len(d) ELSE 0
<1>1. n \in Nat /\ Len(d) \in Nat
  <2>1. Len(d) \in Nat /\ Buflen \in Nat
    BY Constants DEF Data
  <2> QED BY <2>1
<1> HIDE DEF n
<1>2. Zeros(n) \in Data /\ Len(Zeros(n)) = n
  BY <1>1, ZerosAre
<1>3. Filled(d) = d \o Zeros(n)
  BY DEF Filled, n
<1>4. /\ Filled(d) \in Data /\ Len(Filled(d)) = Len(d) + n
      /\ \A i \in 1 .. Len(d) : Filled(d)[i] = d[i]
  <2> DEFINE z == Zeros(n)
  <2> HIDE DEF z
  <2>1. z \in Data /\ Len(z) = n
    BY <1>2 DEF z
  <2>2. d \o z \in Data /\ Len(d \o z) = Len(d) + Len(z) /\ \A i \in 1 .. Len(d) : (d \o z)[i] = d[i]
    BY <2>1, Joined
  <2> QED BY <1>3, <2>1, <2>2 DEF z
<1>5. ~Relative => Filled(d) = d
  BY <1>3, ZerosNone DEF n
<1>6. Relative /\ Len(d) <= Buflen => Len(d) + n = Buflen
  BY <1>1, Constants DEF n
<1> QED BY <1>1, <1>4, <1>5, <1>6

(* d begins with the line of v: the value, CR, LF.                               *)
LineOf(d, v) ==
  /\ Len(d) >= Len(v) + 2 /\ \A i \in 1 .. Len(v) : d[i] = v[i]
  /\ d[Len(v) + 1] = 13 /\ d[Len(v) + 2] = 10

(* The bytes a file has for a value, of each kind.                              *)
LEMMA LaidIs ==
  ASSUME kind \in Kinds, RecordHabits = {}, NEW v \in Value
  PROVE  /\ Laid(v) \in Data
         /\ kind = "display" => LineOf(Laid(v), v) /\ Len(Laid(v)) = Len(v) + 2
         /\ kind = "relDisplay" => LineOf(Laid(v), v)
         /\ kind \in {"internal", "raw", "program"} => Laid(v) = Printed(v)
         /\ kind = "relInternal" => Laid(v) = Filled(Printed(v))
         /\ Relative => Len(Laid(v)) = Buflen
<1> DEFINE p == Printed(v)   l == Line(p)   d == Filled(l)
<1>1. /\ v \in Data /\ v # Nothing /\ Len(p) <= Room
  BY ValueIs
<1>2. Laid(v) = d
  BY <1>1 DEF Laid
<1>3. p \in Data /\ (kind \in {"display", "relDisplay", "raw"} => p = v)
  BY <1>1, PrintedIs
<1>4. kind = "program" => IsProgram(p)
  BY <1>1, PrintedIs DEF IsProgram
<1>5. kind # "program" => ~IsProgram(p)
  BY DEF IsProgram
<1>6. Room = IF kind = "relDisplay" THEN Buflen - 2 ELSE Buflen
  BY Constants DEF Room
<1>7. Len(p) \in Nat /\ Len(v) \in Nat
  BY <1>1, <1>3 DEF Data
<1> HIDE DEF p, l, d
<1>8. l \in Data /\ (~Display \/ IsProgram(p) => l = p)
      /\ (Display /\ ~IsProgram(p) => LineOf(l, p) /\ Len(l) = Len(p) + 2)
  BY <1>3, <1>7, LineIs DEF l, LineOf
<1>9. /\ d \in Data /\ Len(d) >= Len(l)
      /\ ~Relative => d = l
      /\ Relative /\ Len(l) <= Buflen => Len(d) = Buflen
      /\ \A i \in 1 .. Len(l) : d[i] = l[i]
  BY <1>8, FilledIs DEF d
<1>10. Len(d) \in Nat /\ Len(l) \in Nat
  BY <1>8, <1>9 DEF Data
<1>11. CASE kind = "display"
  <2>1. Display /\ ~Relative
    BY <1>11 DEF Display, Relative
  <2> QED BY <1>2, <1>3, <1>5, <1>8, <1>9, <1>11, <2>1
<1>12. CASE kind = "relDisplay"
  <2>1. Display /\ Relative
    BY <1>12 DEF Display, Relative
  <2>2. LineOf(l, v) /\ Len(l) = Len(v) + 2 /\ Len(v) <= Buflen - 2
    BY <1>1, <1>3, <1>5, <1>6, <1>8, <1>12, <2>1
  <2>3. Len(l) <= Buflen
    BY <1>7, <2>2, Constants
  <2>4. LineOf(d, v)
    <3>1. /\ Len(l) >= Len(v) + 2 /\ \A i \in 1 .. Len(v) : l[i] = v[i]
          /\ l[Len(v) + 1] = 13 /\ l[Len(v) + 2] = 10
      BY <2>2 DEF LineOf
    <3>2. /\ \A i \in 1 .. Len(v) : i \in 1 .. Len(l)
          /\ Len(v) + 1 \in 1 .. Len(l) /\ Len(v) + 2 \in 1 .. Len(l)
      BY <1>7, <1>10, <3>1
    <3>3. Len(d) >= Len(v) + 2
      BY <1>7, <1>9, <1>10, <3>1
    <3> QED BY <1>9, <3>1, <3>2, <3>3 DEF LineOf
  <2> QED BY <1>2, <1>9, <1>12, <2>1, <2>3, <2>4
<1>13. CASE kind \in {"internal", "raw", "program"}
  <2>1. ~Relative /\ (kind # "program" => ~Display)
    BY <1>13 DEF Display, Relative
  <2> QED BY <1>2, <1>4, <1>8, <1>9, <1>13, <2>1 DEF p
<1>14. CASE kind = "relInternal"
  <2>1. ~Display /\ Relative
    BY <1>14 DEF Display, Relative
  <2>2. Len(l) <= Buflen /\ l = p
    BY <1>1, <1>6, <1>8, <1>14, <2>1
  <2> QED BY <1>2, <1>9, <1>14, <2>1, <2>2 DEF d, p
<1> QED BY <1>11, <1>12, <1>13, <1>14 DEF Kinds

(* The record that nobody wrote.                                                *)
LEMMA LaidNothing ==
  /\ Laid(Nothing) = Zeros(Buflen) /\ Laid(Nothing) \in Data /\ Len(Laid(Nothing)) = Buflen
  /\ \A i \in 1 .. Buflen : Laid(Nothing)[i] = 0
  BY ZerosAre, Constants DEF Laid

LEMMA OverwriteIs ==
  ASSUME NEW f \in Data, NEW at \in Nat, at <= Len(f), NEW d \in Data
  PROVE  /\ Overwrite(f, at, d) \in Data
         /\ Len(Overwrite(f, at, d)) = IF at + Len(d) > Len(f) THEN at + Len(d) ELSE Len(f)
         /\ Has(Overwrite(f, at, d), at, d)
         /\ \A i \in 1 .. Len(f) : i <= at \/ i > at + Len(d) => Overwrite(f, at, d)[i] = f[i]
<1> DEFINE n == IF at + Len(d) > Len(f) THEN at + Len(d) ELSE Len(f)
           r == Overwrite(f, at, d)
<1>1. Len(f) \in Nat /\ Len(d) \in Nat
      /\ (\A i \in 1 .. Len(f) : f[i] \in Int) /\ (\A i \in 1 .. Len(d) : d[i] \in Int)
  BY DEF Data
<1>2. n \in Nat /\ n >= at + Len(d) /\ n >= Len(f) /\ (n > Len(f) => n = at + Len(d))
  BY <1>1
<1>3. r = [i \in 1 .. n |-> IF i \in at + 1 .. at + Len(d) THEN d[i - at] ELSE f[i]]
  BY DEF Overwrite
<1> HIDE DEF n, r
<1>4. \A i \in 1 .. n : r[i] = IF i \in at + 1 .. at + Len(d) THEN d[i - at] ELSE f[i]
  BY <1>3
<1>5. \A i \in 1 .. n : r[i] \in Int
  <2>1. SUFFICES ASSUME NEW i \in 1 .. n PROVE r[i] \in Int
    OBVIOUS
  <2>2. CASE i \in at + 1 .. at + Len(d)
    <3>1. i - at \in 1 .. Len(d)
      BY <1>1, <2>2
    <3> QED BY <1>1, <1>4, <2>2, <3>1
  <2>3. CASE i \notin at + 1 .. at + Len(d)
    <3>1. i \in 1 .. Len(f)
      BY <1>1, <1>2, <2>3
    <3> QED BY <1>1, <1>4, <2>3, <3>1
  <2> QED BY <2>2, <2>3
<1>6. r \in Data /\ Len(r) = n
  <2>1. r \in [1 .. n -> Int]
    BY <1>3, <1>5
  <2> QED BY <1>2, <2>1, FunctionIsSeq DEF Data
<1>7. \A j \in 1 .. Len(d) : r[at + j] = d[j]
  <2>1. SUFFICES ASSUME NEW j \in 1 .. Len(d) PROVE r[at + j] = d[j]
    OBVIOUS
  <2>2. at + j \in 1 .. n /\ at + j \in at + 1 .. at + Len(d) /\ (at + j) - at = j
    BY <1>1, <1>2
  <2> QED BY <1>4, <2>2
<1>8. \A i \in 1 .. Len(f) : i <= at \/ i > at + Len(d) => r[i] = f[i]
  BY <1>1, <1>2, <1>4
<1>9. Has(r, at, d)
  BY <1>2, <1>6, <1>7 DEF Has
<1> QED BY <1>6, <1>8, <1>9 DEF r, n

(* What is read where something was found.                                      *)
LEMMA PieceIs ==
  ASSUME NEW f \in Data, NEW d \in Data, NEW at \in Nat, Has(f, at, d),
         NEW n \in Nat, n <= Len(d)
  PROVE  /\ SubSeq(f, at + 1, at + n) \in Data /\ Len(SubSeq(f, at + 1, at + n)) = n
         /\ \A i \in 1 .. n : SubSeq(f, at + 1, at + n)[i] = d[i]
         /\ n = Len(d) => SubSeq(f, at + 1, at + n) = d
<1> DEFINE q == SubSeq(f, at + 1, at + n)
<1>1. Len(f) \in Nat /\ Len(d) \in Nat /\ \A i \in 1 .. Len(f) : f[i] \in Int
  BY DEF Data
<1>2. at + Len(d) <= Len(f) /\ \A i \in 1 .. Len(d) : f[at + i] = d[i]
  BY DEF Has
<1>3. \A i \in at + 1 .. at + n : f[i] \in Int
  BY <1>1, <1>2
<1>4. /\ q \in Data /\ Len(q) = IF at + 1 <= at + n THEN (at + n) - (at + 1) + 1 ELSE 0
      /\ \A i \in 1 .. (at + n) - (at + 1) + 1 : q[i] = f[at + 1 + i - 1]
  BY <1>3, SubSeqProperties, SMTT(30) DEF Data
<1> HIDE DEF q
<1>5. Len(q) = n /\ \A i \in 1 .. n : q[i] = d[i]
  <2>1. Len(q) = n
    BY <1>4
  <2>2. ASSUME NEW i \in 1 .. n PROVE q[i] = d[i]
    <3>1. i \in 1 .. (at + n) - (at + 1) + 1 /\ i \in 1 .. Len(d) /\ at + 1 + i - 1 = at + i
      BY <1>1
    <3> QED BY <1>2, <1>4, <3>1
  <2> QED BY <2>1, <2>2
<1>6. n = Len(d) => q = d
  BY <1>4, <1>5, SameData
<1> QED BY <1>4, <1>5, <1>6 DEF q

LEMMA PieceIsAll ==
  ASSUME NEW f \in Data, NEW d \in Data, NEW at \in Nat, Has(f, at, d)
  PROVE  SubSeq(f, at + 1, at + Len(d)) = d
<1>1. PICK n : n = Len(d)
  OBVIOUS
<1>2. n \in Nat /\ n <= Len(d)
  BY <1>1 DEF Data
<1> QED BY <1>1, <1>2, PieceIs, SMTT(30)

-----------------------------------------------------------------------------
(* next_value_size_display(). *)
LEMMA Least ==
  ASSUME NEW S \in SUBSET Nat, S # {}
  PROVE  \E x \in S : \A y \in S : x <= y
<1> DEFINE Less == OpToRel(<, Nat)
<1>1. \A a, b \in Nat : a < b => <<a, b>> \in Less
  BY DEF OpToRel
<1>2. IsWellFoundedOn(Less, Nat)
  BY ONLY NatLessThanWellFounded, Zenon
<1> HIDE DEF Less
<1>3. PICK x \in S : \A y \in S : <<y, x>> \notin Less
  <2>1. S \subseteq Nat
    OBVIOUS
  <2> QED BY <1>2, <2>1, WFMin
<1>4. ASSUME NEW y \in S PROVE x <= y
  <2>1. x \in Nat /\ y \in Nat
    OBVIOUS
  <2>2. ~(y < x)
    BY <1>1, <1>3, <2>1, Zenon
  <2> QED BY <2>1, <2>2
<1> QED BY <1>3, <1>4

(* Bytes that are no quotes change nothing.                                      *)
LEMMA SameQuotes ==
  ASSUME NEW s \in Data, NEW t \in Data, Len(s) <= Len(t),
         \A i \in 1 .. Len(s) : s[i] = t[i],
         \A i \in 1 .. Len(t) : i > Len(s) => t[i] # 34
  PROVE  OddQuotes(s) = OddQuotes(t)
<1>1. Len(s) \in Nat /\ Len(t) \in Nat
  BY DEF Data
<1>2. {i \in 1 .. Len(s) : s[i] = QUOTE} = {i \in 1 .. Len(t) : t[i] = QUOTE}
  BY <1>1 DEF QUOTE
<1> QED BY <1>2 DEF OddQuotes

(* What the loop has counted before a byte of the line.                           *)
LEMMA QuotedIn ==
  ASSUME NEW f \in Data, NEW d \in Data, NEW v \in Data, NEW at \in Nat,
         Has(f, at, d), LineOf(d, v), NEW k \in Nat, k <= Len(v) + 1
  PROVE  Quoted(f, at, at + k + 1) = OddQuotes(SubSeq(v, 1, IF k <= Len(v) THEN k ELSE Len(v)))
<1> DEFINE q == SubSeq(f, at + 1, at + k)
           m == IF k <= Len(v) THEN k ELSE Len(v)
           w == SubSeq(v, 1, m)
<1>1. Len(v) \in Nat /\ Len(d) \in Nat /\ \A i \in 1 .. Len(v) : v[i] \in Int
  BY DEF Data
<1>2. k <= Len(d)
  BY <1>1 DEF LineOf
<1>3. q \in Data /\ Len(q) = k /\ \A i \in 1 .. k : q[i] = d[i]
  BY <1>2, PieceIs
<1>4. m \in Nat /\ m <= Len(v) /\ m <= k /\ (m < k => k = Len(v) + 1 /\ m = Len(v))
  BY <1>1
<1> HIDE DEF m
<1>5. w \in Data /\ Len(w) = m /\ \A i \in 1 .. m : w[i] = v[i]
  <2>1. \A i \in 1 .. m : v[i] \in Int
    BY <1>1, <1>4
  <2>2. /\ w \in Data /\ Len(w) = IF 1 <= m THEN m - 1 + 1 ELSE 0
        /\ \A i \in 1 .. m - 1 + 1 : w[i] = v[1 + i - 1]
    BY <1>4, <2>1, SubSeqProperties DEF Data
  <2> HIDE DEF w
  <2> QED BY <1>4, <2>2
<1> HIDE DEF q, w
<1>6. \A i \in 1 .. Len(w) : w[i] = q[i]
  <2>1. \A i \in 1 .. Len(v) : d[i] = v[i]
    BY DEF LineOf
  <2>2. \A i \in 1 .. m : i \in 1 .. k /\ i \in 1 .. Len(v)
    BY <1>1, <1>4
  <2>3. \A i \in 1 .. m : w[i] = v[i] /\ q[i] = d[i]
    BY <1>3, <1>5, <2>2
  <2> QED BY <1>5, <2>1, <2>2, <2>3
<1>7. \A i \in 1 .. Len(q) : i > Len(w) => q[i] # 34
  <2>1. SUFFICES ASSUME NEW i \in 1 .. Len(q), i > Len(w) PROVE q[i] # 34
    OBVIOUS
  <2>2. i = Len(v) + 1 /\ i \in 1 .. k
    BY <1>1, <1>3, <1>4, <1>5, <2>1
  <2> QED BY <1>3, <2>2 DEF LineOf
<1>8. OddQuotes(w) = OddQuotes(q)
  BY <1>3, <1>4, <1>5, <1>6, <1>7, SameQuotes
<1>9. at + k + 1 - 1 = at + k
  OBVIOUS
<1>10. Quoted(f, at, at + k + 1) = OddQuotes(q)
  BY <1>9 DEF Quoted, q
<1> QED BY <1>8, <1>10 DEF w, m

(* The line feed that ends the line is found, and one carriage return before it.        *)
LEMMA LineFound ==
  ASSUME NEW f \in Data, NEW d \in Data, NEW v \in Data, NEW at \in Nat,
         Has(f, at, d), LineOf(d, v), Matched(v)
  PROVE  DisplaySize(f, at) = Len(v)
<1> DEFINE feeds == {i \in at + 1 .. Len(f) : f[i] = LF /\ ~Quoted(f, at, i)}
           end == IF feeds = {} THEN Len(f) + 1 ELSE CHOOSE i \in feeds : \A j \in feeds : i <= j
           returns == {i \in at + 1 .. end - 1 : f[i] = CR /\ ~Quoted(f, at, i)}
           last == at + Len(v) + 1
<1>1. Len(v) \in Nat /\ Len(d) \in Nat /\ Len(f) \in Nat
  BY DEF Data
<1>2. /\ Len(d) >= Len(v) + 2 /\ at + Len(d) <= Len(f)
      /\ \A i \in 1 .. Len(v) : f[at + i] = v[i]
      /\ f[last] = 13 /\ f[last + 1] = 10
  <2>1. Len(d) >= Len(v) + 2 /\ at + Len(d) <= Len(f) /\ \A i \in 1 .. Len(d) : f[at + i] = d[i]
    BY DEF LineOf, Has
  <2>2. /\ \A i \in 1 .. Len(v) : d[i] = v[i] /\ i \in 1 .. Len(d)
        /\ d[Len(v) + 1] = 13 /\ d[Len(v) + 2] = 10
        /\ Len(v) + 1 \in 1 .. Len(d) /\ Len(v) + 2 \in 1 .. Len(d)
    <3>1. Len(d) >= Len(v) + 2
      BY <2>1
    <3>2. /\ \A i \in 1 .. Len(v) : i \in 1 .. Len(d)
          /\ Len(v) + 1 \in 1 .. Len(d) /\ Len(v) + 2 \in 1 .. Len(d)
      BY <1>1, <3>1
    <3> QED BY <3>2 DEF LineOf
  <2>3. at + (Len(v) + 1) = last /\ at + (Len(v) + 2) = last + 1
    BY <1>1
  <2> QED BY <2>1, <2>2, <2>3
<1>3. \A i \in 1 .. Len(v) : v[i] \in {CR, LF} => Quoted(f, at, at + i)
  <2>1. SUFFICES ASSUME NEW i \in 1 .. Len(v), v[i] \in {CR, LF} PROVE Quoted(f, at, at + i)
    OBVIOUS
  <2>2. OddQuotes(SubSeq(v, 1, i - 1))
    <3>1. i \in 1 .. Len(v) + 1 /\ i <= Len(v)
      BY <1>1
    <3> QED BY <2>1, <3>1 DEF Matched
  <2>3. i - 1 \in Nat /\ i - 1 <= Len(v) /\ i - 1 <= Len(v) + 1 /\ at + (i - 1) + 1 = at + i
    BY <1>1
  <2>4. Quoted(f, at, at + (i - 1) + 1) = OddQuotes(SubSeq(v, 1, i - 1))
    BY <2>3, QuotedIn
  <2> QED BY <2>2, <2>3, <2>4
<1>4. ~Quoted(f, at, last) /\ ~Quoted(f, at, last + 1)
  <2>1. ~OddQuotes(SubSeq(v, 1, Len(v)))
    <3>1. Len(v) + 1 \in 1 .. Len(v) + 1 /\ ~(Len(v) + 1 <= Len(v)) /\ Len(v) + 1 - 1 = Len(v)
      BY <1>1
    <3>2. OddQuotes(SubSeq(v, 1, Len(v) + 1 - 1)) = (Len(v) + 1 <= Len(v))
      BY <3>1 DEF Matched
    <3> QED BY <3>1, <3>2
  <2>2. Quoted(f, at, at + Len(v) + 1) = OddQuotes(SubSeq(v, 1, Len(v)))
    BY <1>1, QuotedIn
  <2>3. Quoted(f, at, at + (Len(v) + 1) + 1) = OddQuotes(SubSeq(v, 1, Len(v)))
    <3>1. Len(v) + 1 \in Nat /\ Len(v) + 1 <= Len(v) + 1 /\ ~(Len(v) + 1 <= Len(v))
      BY <1>1
    <3> QED BY <3>1, QuotedIn, SMTT(30)
  <2>4. at + (Len(v) + 1) + 1 = last + 1
    BY <1>1
  <2> QED BY <2>1, <2>2, <2>3, <2>4
<1>5. \A i \in at + 1 .. at + Len(v) : f[i] \in {CR, LF} => Quoted(f, at, i)
  <2>1. SUFFICES ASSUME NEW i \in at + 1 .. at + Len(v), f[i] \in {CR, LF} PROVE Quoted(f, at, i)
    OBVIOUS
  <2>2. i - at \in 1 .. Len(v) /\ at + (i - at) = i
    BY <1>1
  <2> QED BY <1>2, <1>3, <2>1, <2>2
<1>6. last + 1 \in feeds /\ \A i \in feeds : i >= last + 1
  <2>1. last + 1 \in feeds
    <3>1. last + 1 \in at + 1 .. Len(f)
      <4>1. Len(d) >= Len(v) + 2 /\ at + Len(d) <= Len(f)
        BY <1>2
      <4> QED BY <1>1, <4>1
    <3>2. f[last + 1] = 10 /\ ~Quoted(f, at, last + 1)
      BY <1>2, <1>4
    <3> QED BY <3>1, <3>2 DEF LF
  <2>2. SUFFICES ASSUME NEW i \in feeds, i < last + 1 PROVE FALSE
    BY <1>1, <2>1
  <2>3. i \in at + 1 .. Len(f) /\ f[i] = LF /\ ~Quoted(f, at, i)
    OBVIOUS
  <2>4. i \in at + 1 .. at + Len(v) \/ i = last
    BY <1>1, <2>2, <2>3
  <2> QED BY <1>2, <1>5, <2>3, <2>4 DEF LF
<1>7. end = last + 1
  <2>1. feeds # {} /\ \A i \in feeds : i \in Nat
    BY <1>1, <1>6
  <2> HIDE DEF feeds
  <2>2. end \in feeds /\ \A j \in feeds : end <= j
    BY <1>6, <2>1
  <2> HIDE DEF end
  <2> QED BY <1>1, <1>6, <2>1, <2>2
<1>8. DisplaySize(f, at) = end - 1 - at - Cardinality(returns)
  BY DEF DisplaySize
<1> HIDE DEF end, feeds
<1>9. returns = {last}
  <2>1. last \in returns
    BY <1>1, <1>2, <1>4, <1>7 DEF CR
  <2>2. SUFFICES ASSUME NEW i \in returns PROVE i = last
    BY <2>1
  <2>3. i \in at + 1 .. last /\ f[i] = CR /\ ~Quoted(f, at, i)
    BY <1>1, <1>7
  <2>4. i \in at + 1 .. at + Len(v) \/ i = last
    BY <1>1, <2>3
  <2> QED BY <1>5, <2>3, <2>4
<1>10. Cardinality(returns) = 1
  BY <1>9, FS_Singleton
<1> HIDE DEF returns
<1> QED BY <1>1, <1>7, <1>8, <1>10

(* In zeros no end is found.                                                     *)
LEMMA ZerosPassed ==
  ASSUME NEW f \in Data, NEW at \in Nat, NEW n \in Nat, at + n <= Len(f),
         \A i \in 1 .. n : f[at + i] = 0
  PROVE  /\ DisplaySize(f, at) \in Nat /\ DisplaySize(f, at) >= n
         /\ DisplaySize(f, at) <= Len(f) - at
<1> DEFINE feeds == {i \in at + 1 .. Len(f) : f[i] = LF /\ ~Quoted(f, at, i)}
           end == IF feeds = {} THEN Len(f) + 1 ELSE CHOOSE i \in feeds : \A j \in feeds : i <= j
           returns == {i \in at + 1 .. end - 1 : f[i] = CR /\ ~Quoted(f, at, i)}
<1>1. Len(f) \in Nat
  BY DEF Data
<1>2. \A i \in at + 1 .. at + n : f[i] = 0
  <2>1. SUFFICES ASSUME NEW i \in at + 1 .. at + n PROVE f[i] = 0
    OBVIOUS
  <2>2. i - at \in 1 .. n /\ at + (i - at) = i
    OBVIOUS
  <2> QED BY <2>2
<1>3. \A i \in feeds : i \in Nat /\ i > at + n /\ i <= Len(f)
  <2>1. SUFFICES ASSUME NEW i \in feeds PROVE i \in Nat /\ i > at + n /\ i <= Len(f)
    OBVIOUS
  <2>2. i \in at + 1 .. Len(f) /\ f[i] = 10
    BY DEF LF
  <2>3. i \notin at + 1 .. at + n
    BY <1>2, <2>2
  <2> QED BY <1>1, <2>2, <2>3
<1>4. end \in Nat /\ end > at + n /\ end <= Len(f) + 1
  <2>1. CASE feeds = {}
    BY <1>1, <2>1
  <2>2. CASE feeds # {}
    <3>1. feeds \in SUBSET Nat
      BY <1>3
    <3> HIDE DEF feeds
    <3>2. \E i \in feeds : \A j \in feeds : i <= j
      BY <2>2, <3>1, Least
    <3>3. end \in feeds
      BY <2>2, <3>2
    <3> HIDE DEF end
    <3> QED BY <1>1, <1>3, <3>3
  <2> QED BY <2>1, <2>2
<1>5. DisplaySize(f, at) = end - 1 - at - Cardinality(returns)
  BY DEF DisplaySize
<1> HIDE DEF end, feeds
<1>6. returns \subseteq at + n + 1 .. end - 1
  <2>1. SUFFICES ASSUME NEW i \in returns PROVE i \in at + n + 1 .. end - 1
    OBVIOUS
  <2>2. i \in at + 1 .. end - 1 /\ f[i] = 13
    BY DEF CR
  <2>3. i \notin at + 1 .. at + n
    BY <1>2, <2>2
  <2> QED BY <1>4, <2>2, <2>3
<1> HIDE DEF returns
<1> DEFINE low == at + n + 1
           high == end - 1
<1>7. low \in Int /\ high \in Int
  BY <1>4
<1>8. returns \subseteq low .. high /\ (low > high => low = high + 1)
  BY <1>4, <1>6
<1>9. DisplaySize(f, at) = high - at - Cardinality(returns) /\ low = at + n + 1 /\ high <= Len(f)
  BY <1>1, <1>4, <1>5
<1> HIDE DEF low, high
<1>10. IsFiniteSet(low .. high) /\ Cardinality(low .. high) = IF low > high THEN 0 ELSE high - low + 1
  BY <1>7, FS_Interval
<1>11. IsFiniteSet(returns) /\ Cardinality(returns) <= Cardinality(low .. high)
  BY <1>8, <1>10, FS_Subset
<1>12. Cardinality(returns) \in Nat
  BY <1>11, FS_CardinalityType
<1>13. Cardinality(returns) <= high - low + 1
  BY <1>7, <1>8, <1>10, <1>11, <1>12
<1> QED BY <1>1, <1>7, <1>9, <1>12, <1>13

-----------------------------------------------------------------------------
(* drv_verify(). *)
LEMMA Pieces ==
  ASSUME NEW a \in Nat
  PROVE  /\ a \div Half \in Nat /\ (a \div Half) * Half <= a
         /\ a < (a \div Half + 1) * Half
  BY Constants

LEMMA PiecesRise ==
  ASSUME NEW k \in Nat, NEW m \in Nat, k <= m
  PROVE  k * Half \in Nat /\ k * Half <= m * Half /\ (k + 1) * Half = k * Half + Half
  BY Constants

(* Piece k of n bytes lies between From(k) and Upto(n, k).                          *)
From(k) == k * Half
Upto(n, k) == Lower((k + 1) * Half, n)

LEMMA Bounds ==
  ASSUME NEW n \in Nat, NEW k \in 0 .. n \div Half
  PROVE  From(k) \in Nat /\ Upto(n, k) \in Nat /\ From(k) <= Upto(n, k) /\ Upto(n, k) <= n
<1>1. n \div Half \in Nat /\ (n \div Half) * Half <= n /\ (n \div Half) * Half \in Nat
  BY Pieces, Constants
<1>2. k \in Nat /\ k <= n \div Half
  BY <1>1
<1>3. k * Half \in Nat /\ k * Half <= (n \div Half) * Half /\ (k + 1) * Half = k * Half + Half
  BY <1>1, <1>2, PiecesRise
<1> DEFINE lo == k * Half   up == (k + 1) * Half   top == (n \div Half) * Half
<1>4. lo \in Nat /\ lo <= top /\ top <= n /\ top \in Nat /\ up = lo + Half
  BY <1>1, <1>3
<1>5. Upto(n, k) = (IF up < n THEN up ELSE n) /\ From(k) = lo
  BY DEF Upto, Lower, From
<1> HIDE DEF lo, up, top
<1> QED BY <1>4, <1>5, Constants

LEMMA Covered ==
  ASSUME NEW n \in Nat, NEW i \in 1 .. n
  PROVE  \E k \in 0 .. n \div Half : From(k) < i /\ i <= Upto(n, k)
<1> DEFINE k == (i - 1) \div Half
           m == n \div Half
           top == (m + 1) * Half
           lo == k * Half
           up == (k + 1) * Half
<1>1. i - 1 \in Nat
  OBVIOUS
<1>2. k \in Nat /\ lo <= i - 1 /\ i - 1 < up
  BY <1>1, Pieces
<1>3. m \in Nat /\ n < top
  BY Pieces
<1> HIDE DEF k, m
<1>4. top \in Nat /\ lo \in Nat /\ up \in Nat
  BY <1>2, <1>3, Constants
<1>5. m + 1 <= k => top <= lo
  BY <1>2, <1>3, PiecesRise
<1> HIDE DEF top, lo, up
<1>6. k <= m
  BY <1>2, <1>3, <1>4, <1>5
<1>7. k \in 0 .. m
  BY <1>2, <1>3, <1>6
<1>8. Upto(n, k) = (IF up < n THEN up ELSE n) /\ From(k) = lo
  BY DEF Upto, Lower, From, up, lo
<1>9. From(k) < i /\ i <= Upto(n, k)
  BY <1>2, <1>4, <1>8
<1> QED BY <1>7, <1>9 DEF m

LEMMA TwoPieces ==
  ASSUME NEW s \in Data, NEW t \in Data, Len(s) = Len(t),
         NEW lo \in Nat, NEW hi \in Nat, lo <= hi, hi <= Len(s)
  PROVE  /\ Len(SubSeq(s, lo + 1, hi)) = hi - lo
         /\ SubSeq(s, lo + 1, hi) = SubSeq(t, lo + 1, hi) =>
              \A i \in lo + 1 .. hi : s[i] = t[i]
<1> DEFINE p == SubSeq(s, lo + 1, hi)
           q == SubSeq(t, lo + 1, hi)
<1>1. Len(s) \in Nat /\ \A i \in lo + 1 .. hi : s[i] \in Int /\ t[i] \in Int
  <2>1. Len(s) \in Nat /\ (\A i \in 1 .. Len(s) : s[i] \in Int) /\ (\A i \in 1 .. Len(t) : t[i] \in Int)
    BY DEF Data
  <2>2. \A i \in lo + 1 .. hi : i \in 1 .. Len(s)
    BY <2>1
  <2> QED BY <2>1, <2>2
<1>2. /\ Len(p) = IF lo + 1 <= hi THEN hi - (lo + 1) + 1 ELSE 0
      /\ \A i \in 1 .. hi - (lo + 1) + 1 : p[i] = s[lo + 1 + i - 1]
  BY <1>1, SubSeqProperties
<1>3. \A i \in 1 .. hi - (lo + 1) + 1 : q[i] = t[lo + 1 + i - 1]
  BY <1>1, SubSeqProperties
<1> HIDE DEF p, q
<1>4. Len(p) = hi - lo
  BY <1>2
<1>5. ASSUME p = q, NEW i \in lo + 1 .. hi PROVE s[i] = t[i]
  <2>1. i - lo \in 1 .. hi - (lo + 1) + 1 /\ lo + 1 + (i - lo) - 1 = i
    OBVIOUS
  <2> QED BY <1>2, <1>3, <1>5, <2>1
<1> QED BY <1>4, <1>5 DEF p, q

(* The loop tells data from the file, when they are of the same length.               *)
LEMMA CompareIs ==
  ASSUME NEW data \in Data, file \in Data, Len(data) = fsize
  PROVE  /\ (Compare(data, 0).rc = "SUCCESS") = (data = file)
         /\ Compare(data, 0).at \in Nat /\ Compare(data, 0).at <= fsize
<1> DEFINE n == Len(data)
           piece(k) == SubSeq(data, k * Half + 1, Lower((k + 1) * Half, n))
           read(k) == Bytes(0 + k * Half, Len(piece(k)))
           differing == {k \in 0 .. n \div Half : read(k) # piece(k)}
           first == CHOOSE k \in differing : \A l \in differing : k <= l
           r == Compare(data, 0)
<1>1. r = IF differing = {} THEN [rc |-> "SUCCESS", at |-> 0 + n]
          ELSE [rc |-> "VERIFY_ERR", at |-> 0 + first * Half + Len(piece(first))]
  BY DEF Compare
<1>2. n \in Nat /\ Len(file) = n
  BY DEF Data, fsize
<1>3. ASSUME NEW k \in 0 .. n \div Half
      PROVE  /\ From(k) \in Nat /\ Upto(n, k) \in Nat /\ From(k) <= Upto(n, k) /\ Upto(n, k) <= n
             /\ piece(k) = SubSeq(data, From(k) + 1, Upto(n, k))
             /\ Len(piece(k)) = Upto(n, k) - From(k)
             /\ read(k) = SubSeq(file, From(k) + 1, Upto(n, k))
  <2>1. From(k) \in Nat /\ Upto(n, k) \in Nat /\ From(k) <= Upto(n, k) /\ Upto(n, k) <= n
    BY <1>2, Bounds
  <2>2. piece(k) = SubSeq(data, From(k) + 1, Upto(n, k))
    BY DEF From, Upto
  <2>3. Len(SubSeq(data, From(k) + 1, Upto(n, k))) = Upto(n, k) - From(k)
    BY <1>2, <2>1, TwoPieces
  <2>4. read(k) = SubSeq(file, 0 + From(k) + 1, Lower(0 + From(k) + Len(piece(k)), Len(file)))
    BY DEF Bytes, fsize, From
  <2> HIDE DEF piece, read, n
  <2>5. Len(piece(k)) = Upto(n, k) - From(k)
    BY <2>2, <2>3
  <2>6. 0 + From(k) + Len(piece(k)) = Upto(n, k) /\ 0 + From(k) + 1 = From(k) + 1
    BY <2>1, <2>5
  <2>7. Lower(Upto(n, k), Len(file)) = Upto(n, k)
    BY <1>2, <2>1 DEF Lower
  <2>8. read(k) = SubSeq(file, From(k) + 1, Upto(n, k))
    BY <2>4, <2>6, <2>7
  <2> QED BY <2>1, <2>2, <2>5, <2>8
<1> HIDE DEF piece, read, n, r
<1>4. data = file => differing = {}
  BY <1>3
<1>5. differing = {} => data = file
  <2>1. SUFFICES ASSUME differing = {} PROVE data = file
    OBVIOUS
  <2>2. ASSUME NEW i \in 1 .. n PROVE data[i] = file[i]
    <3>1. PICK k \in 0 .. n \div Half : From(k) < i /\ i <= Upto(n, k)
      BY <1>2, Covered
    <3>2. read(k) = piece(k)
      BY <2>1, <3>1
    <3>3. SubSeq(data, From(k) + 1, Upto(n, k)) = SubSeq(file, From(k) + 1, Upto(n, k))
      BY <1>3, <3>2
    <3>4. From(k) \in Nat /\ Upto(n, k) \in Nat /\ From(k) <= Upto(n, k) /\ Upto(n, k) <= n
      BY <1>3
    <3>5. \A j \in From(k) + 1 .. Upto(n, k) : data[j] = file[j]
      BY <1>2, <3>3, <3>4, TwoPieces DEF n
    <3>6. i \in From(k) + 1 .. Upto(n, k)
      BY <3>1, <3>4
    <3> QED BY <3>5, <3>6
  <2> QED BY <1>2, <2>2, SameData DEF n
<1>6. CASE differing = {}
  <2>1. r.rc = "SUCCESS" /\ r.at = n
    BY <1>1, <1>2, <1>6
  <2> QED BY <1>2, <1>5, <1>6, <2>1 DEF fsize, r
<1>7. CASE differing # {}
  <2>1. first \in differing
    <3>1. differing \in SUBSET Nat
      BY <1>2, Pieces
    <3> HIDE DEF differing
    <3>2. \E x \in differing : \A y \in differing : x <= y
      BY <1>7, <3>1, Least
    <3> QED BY <3>2
  <2>2. first \in 0 .. n \div Half
    BY <2>1
  <2>3. r = [rc |-> "VERIFY_ERR", at |-> 0 + first * Half + Len(piece(first))]
    BY <1>1, <1>7
  <2> HIDE DEF first, differing
  <2>4. r.rc = "VERIFY_ERR" /\ r.at = 0 + From(first) + Len(piece(first))
    BY <2>3 DEF From
  <2>5. r.at = Upto(n, first) /\ r.at \in Nat /\ r.at <= n
    BY <1>3, <2>2, <2>4
  <2>6. data # file
    BY <1>4, <1>7
  <2> QED BY <1>2, <2>4, <2>5, <2>6 DEF r, fsize
<1> QED BY <1>6, <1>7

-----------------------------------------------------------------------------
(* The inductive invariant.  A file has fewer than Word bytes, so that no       *)
(* position wraps.  A sequential file stands at the value to be read next, a     *)
(* program at its begin or its end when it is read.                           *)
RecTypes ==
  /\ kind \in Kinds /\ file \in Data /\ fptr \in Nat
  /\ values \in Seq(Value \cup {Nothing}) /\ ends \in Seq(Nat) /\ next \in Nat
  /\ ~Relative => /\ Len(ends) = Len(values)
                  /\ \A i \in 1 .. Len(values) : values[i] # Nothing

SizeOk == fsize < Word /\ (Relative => Len(values) <= MaxValues)

PlaceOk ==
  /\ kind \in {"display", "internal"} => next >= 1 /\ next <= Len(values) + 1 /\ fptr = StartOf(next)
  /\ kind = "program" => /\ Len(values) <= 1 /\ next >= 1 /\ next <= Len(values) + 1
                         /\ fptr = 0 => next = 1
                         /\ fptr = fsize => next = Len(values) + 1
  /\ kind \in {"program", "raw"} => fptr <= fsize

RecInv == RecTypes /\ SizeOk /\ PlaceOk /\ LaidOut

(* LaidOut, of any file.                                                        *)
Begin(es, i) == IF Relative THEN Buflen * (i - 1) ELSE IF i = 1 THEN 0 ELSE es[i - 1]
Layout(f, vs, es) ==
  /\ Len(f) = Begin(es, Len(vs) + 1)
  /\ \A i \in 1 .. Len(vs) : /\ Begin(es, i + 1) = Begin(es, i) + Len(Laid(vs[i]))
                             /\ Has(f, Begin(es, i), Laid(vs[i]))

LEMMA LaidOutIs == LaidOut <=> Layout(file, values, ends)
  BY DEF LaidOut, Layout, StartOf, Begin, fsize

LEMMA KindKept ==
  ASSUME kind' = kind
  PROVE  /\ Display' = Display /\ Relative' = Relative /\ Value' = Value
         /\ LaidOut' <=> Layout(file', values', ends')
         /\ StartOf(next)' = Begin(ends', next')
<1>1. Display' = Display /\ Relative' = Relative
  BY DEF Display, Relative
<1>2. Value' = Value
  BY <1>1 DEF Value, Printed, Room
<1>3. LaidOut' <=> Layout(file', values', ends')
  BY <1>1 DEF LaidOut, Layout, StartOf, Begin, fsize, Laid, Filled, Line, IsProgram, Printed
<1>4. StartOf(next)' = Begin(ends', next')
  BY <1>1 DEF StartOf, Begin
<1> QED BY <1>1, <1>2, <1>3, <1>4

LEMMA Times ==
  ASSUME NEW a \in Nat, NEW b \in Nat
  PROVE  /\ Buflen * a \in Nat /\ Buflen * (a + 1) = Buflen * a + Buflen
         /\ a <= b => Buflen * a <= Buflen * b
         /\ a < b => Buflen * a + Buflen <= Buflen * b
  BY Constants

(* No record of the host's lies at Word or beyond.                                *)
LEMMA RecordStarts ==
  ASSUME Orderly, Relative, NEW record \in RecordNumbers
  PROVE  /\ record \in Nat /\ record + 1 <= MaxValues
         /\ Low(Buflen * record) = Buflen * record
         /\ Low(Buflen * (record + 1)) = Buflen * record + Buflen
         /\ Buflen * record + Buflen < Word
<1>1. record \in Nat /\ record + 1 <= MaxValues
  BY Constants DEF RecordNumbers
<1>2. /\ Buflen * record \in Nat /\ Buflen * (record + 1) = Buflen * record + Buflen
      /\ Buflen * (record + 1) <= Buflen * MaxValues /\ Buflen * MaxValues \in Nat
  BY <1>1, Times, Constants
<1> DEFINE a == Buflen * record   b == Buflen * (record + 1)   c == Buflen * MaxValues
<1>3. a \in Nat /\ b = a + Buflen /\ b <= c /\ c < Word /\ c \in Nat
  BY <1>2 DEF Orderly
<1>4. Low(Buflen * record) = a % Word /\ Low(Buflen * (record + 1)) = b % Word
  BY DEF Low
<1> HIDE DEF a, b, c
<1>5. a < Word /\ b < Word /\ a % Word = a /\ b % Word = b
  BY <1>3, Constants
<1> QED BY <1>1, <1>3, <1>4, <1>5 DEF a, b

LEMMA LowIs ==
  ASSUME NEW n \in Nat, n < Word
  PROVE  Low(n) = n
  BY Constants DEF Low

LEMMA LaidType ==
  ASSUME kind \in Kinds, RecordHabits = {}, NEW v \in Value \cup {Nothing}
  PROVE  /\ Laid(v) \in Data /\ Len(Laid(v)) \in Nat /\ (Relative => Len(Laid(v)) = Buflen)
         /\ \A i \in 1 .. Len(Laid(v)) : Laid(v)[i] \in Int
<1>1. Laid(v) \in Data /\ (Relative => Len(Laid(v)) = Buflen)
  <2>1. CASE v \in Value
    BY <2>1, LaidIs
  <2>2. CASE v = Nothing
    BY <2>2, LaidNothing
  <2> QED BY <2>1, <2>2
<1> HIDE DEF Laid
<1>2. Len(Laid(v)) \in Nat /\ \A i \in 1 .. Len(Laid(v)) : Laid(v)[i] \in Int
  BY <1>1 DEF Data
<1> QED BY <1>1, <1>2

LEMMA HasKept ==
  ASSUME NEW f \in Data, NEW g \in Data, NEW d \in Data, NEW at \in Nat, Has(f, at, d), Len(f) <= Len(g),
         \A i \in 1 .. Len(f) : i > at /\ i <= at + Len(d) => g[i] = f[i]
  PROVE  Has(g, at, d)
<1>1. Len(f) \in Nat /\ Len(g) \in Nat /\ Len(d) \in Nat
  BY DEF Data
<1>2. at + Len(d) <= Len(f) /\ \A j \in 1 .. Len(d) : f[at + j] = d[j]
  BY DEF Has
<1>3. \A j \in 1 .. Len(d) : at + j \in 1 .. Len(f) /\ at + j > at /\ at + j <= at + Len(d)
  BY <1>1, <1>2
<1> QED BY <1>1, <1>2, <1>3 DEF Has

(* Where the values begin in a file that is laid out.                              *)
LEMMA BeginIs ==
  ASSUME kind \in Kinds, NEW vs, Len(vs) \in Nat, NEW es \in Seq(Nat), ~Relative => Len(es) = Len(vs),
         NEW i \in 1 .. Len(vs) + 1
  PROVE  Begin(es, i) \in Nat
<1>1. CASE Relative
  <2>1. i - 1 \in Nat
    OBVIOUS
  <2> QED BY <1>1, <2>1, Constants DEF Begin
<1>2. CASE ~Relative /\ i = 1
  BY <1>2 DEF Begin
<1>3. CASE ~Relative /\ i # 1
  <2>1. i - 1 \in 1 .. Len(es)
    BY <1>3
  <2>2. es[i - 1] \in Nat
    BY <2>1, ElementOfSeq
  <2> QED BY <1>3, <2>2 DEF Begin
<1> QED BY <1>1, <1>2, <1>3

(* A value more at the end of a sequential file.                                    *)
LEMMA LayoutAppend ==
  ASSUME kind \in Kinds, ~Relative, RecordHabits = {},
         NEW f \in Data, NEW g \in Data, NEW vs \in Seq(Value \cup {Nothing}), NEW es \in Seq(Nat),
         Len(es) = Len(vs), Layout(f, vs, es), NEW v \in Value,
         Len(g) = Len(f) + Len(Laid(v)), Has(g, Len(f), Laid(v)),
         \A i \in 1 .. Len(f) : g[i] = f[i]
  PROVE  Layout(g, Append(vs, v), Append(es, Len(g)))
<1> DEFINE ws == Append(vs, v)
           gs == Append(es, Len(g))
           n == Len(vs)
<1>1. Len(f) \in Nat /\ Len(g) \in Nat /\ n \in Nat /\ Len(es) = n
  BY DEF Data
<1>2. /\ Len(ws) = n + 1 /\ ws[n + 1] = v
      /\ \A i \in 1 .. n : ws[i] = vs[i] /\ vs[i] \in Value \cup {Nothing}
  <2>1. v \in Value \cup {Nothing}
    OBVIOUS
  <2> QED BY <2>1, AppendProperties, ElementOfSeq
<1>3. Len(gs) = n + 1 /\ gs[n + 1] = Len(g) /\ \A i \in 1 .. n : gs[i] = es[i]
  BY <1>1, AppendProperties
<1> HIDE DEF ws, gs, n
<1>4. Begin(gs, n + 2) = Len(g) /\ \A i \in 1 .. n + 1 : Begin(gs, i) = Begin(es, i)
  <2>1. Begin(gs, n + 2) = Len(g)
    BY <1>1, <1>3 DEF Begin
  <2>2. ASSUME NEW i \in 1 .. n + 1 PROVE Begin(gs, i) = Begin(es, i)
    <3>1. i # 1 => i - 1 \in 1 .. n
      BY <1>1
    <3> QED BY <1>3, <3>1 DEF Begin
  <2> QED BY <2>1, <2>2
<1>5. /\ Len(f) = Begin(es, n + 1)
      /\ \A i \in 1 .. n : /\ Begin(es, i + 1) = Begin(es, i) + Len(Laid(vs[i]))
                         /\ Has(f, Begin(es, i), Laid(vs[i]))
  BY DEF Layout, n
<1>6. ASSUME NEW i \in 1 .. n + 1
      PROVE  /\ Begin(gs, i + 1) = Begin(gs, i) + Len(Laid(ws[i]))
             /\ Has(g, Begin(gs, i), Laid(ws[i]))
  <2>1. CASE i = n + 1
    <3>1. i + 1 = n + 2 /\ Begin(gs, i) = Len(f)
      BY <1>1, <1>4, <1>5, <2>1
    <3> QED BY <1>2, <1>4, <2>1, <3>1
  <2>2. CASE i \in 1 .. n
    <3>1. i + 1 \in 1 .. n + 1 /\ Begin(gs, i) = Begin(es, i) /\ Begin(gs, i + 1) = Begin(es, i + 1)
      BY <1>1, <1>4, <2>2
    <3>2. Begin(es, i) \in Nat
      BY <1>1, BeginIs DEF n
    <3>3. Laid(vs[i]) \in Data
      BY <1>2, <2>2, LaidType
    <3>4. Has(g, Begin(es, i), Laid(vs[i]))
      <4>1. Len(f) <= Len(g)
        <5>1. Len(Laid(v)) \in Nat
          BY LaidType
        <5> QED BY <1>1, <5>1
      <4> QED BY <1>5, <2>2, <3>2, <3>3, <4>1, HasKept
    <3> QED BY <1>2, <1>5, <2>2, <3>1, <3>4
  <2> QED BY <1>1, <2>1, <2>2
<1>7. Len(g) = Begin(gs, Len(ws) + 1)
  <2>1. Len(ws) + 1 = n + 2
    BY <1>1, <1>2
  <2> QED BY <1>4, <2>1
<1> QED BY <1>2, <1>6, <1>7 DEF Layout, ws, gs

LEMMA RecordBegin ==
  ASSUME Relative, NEW es, NEW i \in Nat
  PROVE  Begin(es, i) = Buflen * (i - 1) /\ Begin(es, i + 1) = Buflen * i
<1>1. i + 1 - 1 = i
  OBVIOUS
<1> QED BY <1>1 DEF Begin

(* A record more, or another one, in a RELATIVE file.                                *)
Numbered(vs, record) == IF record >= Len(vs) THEN record + 1 ELSE Len(vs)
Placed(vs, m, record, v) ==
  [i \in 1 .. m |-> IF i = record + 1 THEN v ELSE IF i > Len(vs) THEN Nothing ELSE vs[i]]
PutIn(f, g, m, record, d) ==
  /\ Len(g) = Buflen * m /\ Has(g, Buflen * record, d)
  /\ \A i \in 1 .. Len(f) : i <= Buflen * record \/ i > Buflen * record + Buflen => g[i] = f[i]
  /\ \A i \in 1 .. Len(g) : i > Len(f) /\ i <= Buflen * record => g[i] = 0

LEMMA LayoutRecord ==
  ASSUME kind \in Kinds, Relative, RecordHabits = {},
         NEW f \in Data, NEW g \in Data, NEW vs \in Seq(Value \cup {Nothing}), NEW es,
         Layout(f, vs, es), NEW v \in Value, NEW record \in Nat, NEW m \in Nat,
         m = Numbered(vs, record), PutIn(f, g, m, record, Laid(v))
  PROVE  Layout(g, Placed(vs, m, record, v), es)
<1> USE DEF Numbered, PutIn
<1> DEFINE ws == [i \in 1 .. m |-> IF i = record + 1 THEN v ELSE IF i > Len(vs) THEN Nothing ELSE vs[i]]
           n == Len(vs)
<1>1. Len(f) \in Nat /\ Len(g) \in Nat /\ n \in Nat /\ record + 1 <= m /\ n <= m
      /\ (m > n => m = record + 1) /\ \A i \in 1 .. n : vs[i] \in Value \cup {Nothing}
  BY DEF Data
<1>2. Len(ws) = m /\ \A i \in 1 .. m : ws[i] = IF i = record + 1 THEN v ELSE IF i > n THEN Nothing ELSE vs[i]
  OBVIOUS
<1>3. /\ Len(f) = Buflen * n
      /\ \A i \in 1 .. n : Has(f, Buflen * (i - 1), Laid(vs[i]))
  <2>1. /\ Len(f) = Begin(es, n + 1)
        /\ \A i \in 1 .. n : Has(f, Begin(es, i), Laid(vs[i]))
    BY DEF Layout
  <2> HIDE DEF n
  <2>2. Begin(es, n + 1) = Buflen * n
    BY <1>1, RecordBegin
  <2>3. ASSUME NEW i \in 1 .. n PROVE Begin(es, i) = Buflen * (i - 1)
    BY <2>3, RecordBegin
  <2> QED BY <2>1, <2>2, <2>3
<1> HIDE DEF ws, n
<1>4. ASSUME NEW i \in 1 .. m
      PROVE  Buflen * i = Buflen * (i - 1) + Len(Laid(ws[i])) /\ Has(g, Buflen * (i - 1), Laid(ws[i]))
  <2> DEFINE k == i - 1   at == Buflen * k   here == Buflen * record
  <2>1. k \in Nat /\ record \in Nat /\ i = k + 1 /\ k < m /\ at \in Nat /\ here \in Nat
    <3>1. k \in Nat /\ i = k + 1 /\ k < m
      OBVIOUS
    <3> HIDE DEF k
    <3>2. Buflen * k \in Nat /\ Buflen * record \in Nat
      BY <3>1, Times
    <3> QED BY <3>1, <3>2
  <2>2. Buflen * i = at + Buflen /\ at + Buflen <= Len(g)
    BY <2>1, Times
  <2>3. /\ k < record => at + Buflen <= here
        /\ k > record => here + Buflen <= at
    BY <2>1, Times
  <2>4. /\ k < n => at + Buflen <= Len(f)
        /\ k >= n => Len(f) <= at
    BY <1>1, <1>3, <2>1, Times
  <2>5. ws[i] \in Value \cup {Nothing}
    BY <1>1, <1>2
  <2>6. Laid(ws[i]) \in Data /\ Len(Laid(ws[i])) = Buflen
    BY <2>5, LaidType
  <2> HIDE DEF k, at, here
  <2>7. Has(g, at, Laid(ws[i]))
    <3>1. CASE k = record
      BY <1>2, <2>1, <3>1 DEF at
    <3>2. CASE k # record /\ k < n
      <4>1. ws[i] = vs[i] /\ i \in 1 .. n
        <5>1. i # record + 1 /\ i <= n /\ i \in 1 .. n
          BY <1>1, <2>1, <3>2
        <5>2. ~(i > n)
          BY <1>1, <5>1
        <5> QED BY <1>2, <5>1, <5>2
      <4>2. Has(f, at, Laid(ws[i]))
        BY <1>3, <4>1 DEF at, k
      <4>3. Len(f) <= Len(g)
        <5>1. Buflen * n <= Buflen * m
          BY <1>1, Times
        <5> QED BY <1>3, <5>1
      <4>4. \A j \in 1 .. Len(f) : j > at /\ j <= at + Buflen => j <= here \/ j > here + Buflen
        BY <1>1, <2>1, <2>3, <3>2, Constants
      <4>5. \A j \in 1 .. Len(f) : j > at /\ j <= at + Buflen => g[j] = f[j]
        BY <4>4 DEF here
      <4> QED BY <2>1, <2>6, <4>2, <4>3, <4>5, HasKept
    <3>3. CASE k # record /\ k >= n
      <4>1. ws[i] = Nothing /\ k < record
        BY <1>1, <1>2, <2>1, <3>3
      <4>2. \A j \in 1 .. Buflen : at + j \in 1 .. Len(g) /\ at + j > Len(f) /\ at + j <= here
        BY <1>1, <2>1, <2>2, <2>3, <2>4, <3>3, <4>1, Constants
      <4>3. \A j \in 1 .. Buflen : g[at + j] = 0
        BY <4>2 DEF here
      <4> QED BY <2>2, <2>6, <4>1, <4>3, LaidNothing DEF Has
    <3> QED BY <1>1, <2>1, <3>1, <3>2, <3>3
  <2> QED BY <2>2, <2>6, <2>7 DEF at, k
<1>5. /\ Begin(es, m + 1) = Buflen * m
      /\ \A i \in 1 .. m : Begin(es, i) = Buflen * (i - 1) /\ Begin(es, i + 1) = Buflen * i
  <2>1. m + 1 - 1 = m /\ \A i \in 1 .. m : i + 1 - 1 = i
    OBVIOUS
  <2>2. \A i \in Nat : Begin(es, i) = Buflen * (i - 1)
    BY DEF Begin
  <2>3. m + 1 \in Nat /\ \A i \in 1 .. m : i \in Nat /\ i + 1 \in Nat
    OBVIOUS
  <2> QED BY <2>1, <2>2, <2>3
<1>6. Layout(g, ws, es)
  BY <1>2, <1>4, <1>5 DEF Layout
<1> QED BY <1>6 DEF ws, n, Placed

-----------------------------------------------------------------------------
(* WRITE. *)
LEMMA Laying ==
  ASSUME NEW v \in Value
  PROVE  Filled(Line(Printed(v))) = Laid(v)
  BY ValueIs DEF Laid

LEMMA WriteAtEnd ==
  ASSUME Orderly, RecInv, ~Relative, NEW v \in Value, NEW record \in RecordNumbers, Write(v, record)
  PROVE  /\ file' \in Data /\ Len(file') = fsize + Len(Laid(v)) /\ Has(file', fsize, Laid(v))
         /\ \A i \in 1 .. fsize : file'[i] = file[i]
         /\ fptr' = Len(file') /\ Len(file') < Word /\ next' = Len(values) + 2
         /\ values' = Append(values, v) /\ ends' = Append(ends, Len(file'))
<1> DEFINE d == Laid(v)
<1>1. d \in Data /\ Len(d) \in Nat /\ file \in Data /\ Len(file) \in Nat
  <2>1. file \in Data /\ kind \in Kinds /\ v \in Value \cup {Nothing} /\ RecordHabits = {}
    BY DEF RecInv, RecTypes, Orderly
  <2>2. d \in Data /\ Len(d) \in Nat
    BY <2>1, LaidType
  <2>3. Len(file) \in Nat
    BY <2>1 DEF Data
  <2> QED BY <2>1, <2>2, <2>3
<1>2. fptr = Len(file)
  BY DEF Write, fsize
<1>3. Prepared(record) = [file |-> file, fptr |-> fptr]
  BY DEF Prepared
<1>4. Prepared(record).file = file /\ Prepared(record).fptr = fptr
  BY <1>3
<1>5. /\ file' = Overwrite(file, Len(file), d) /\ fptr' = Len(file) + Len(d)
      /\ Len(file') < Word
  <2>1. /\ file' = Overwrite(Prepared(record).file, Prepared(record).fptr, Filled(Line(Printed(v))))
        /\ fptr' = Prepared(record).fptr + Len(Filled(Line(Printed(v))))
        /\ Len(file') < Word \/ "huge" \in RecordHabits
    BY DEF Write
  <2>2. Filled(Line(Printed(v))) = d
    BY Laying
  <2> HIDE DEF d
  <2> QED BY <1>2, <1>4, <2>1, <2>2 DEF Orderly
<1>6. values' = Append(values, v) /\ ends' = Append(ends, fptr') /\ next' = Len(values) + 2
  BY DEF Write
<1> HIDE DEF d
<1>7. /\ file' \in Data
      /\ Len(file') = IF Len(file) + Len(d) > Len(file) THEN Len(file) + Len(d) ELSE Len(file)
      /\ Has(file', Len(file), d)
      /\ \A i \in 1 .. Len(file) : i <= Len(file) \/ i > Len(file) + Len(d) => file'[i] = file[i]
  BY <1>1, <1>5, OverwriteIs
<1>8. Len(file') = Len(file) + Len(d)
  BY <1>1, <1>7
<1>9. \A i \in 1 .. Len(file) : file'[i] = file[i]
  BY <1>1, <1>7
<1> QED BY <1>5, <1>6, <1>7, <1>8, <1>9 DEF d, fsize

(* The size of a RELATIVE file.                                                   *)
LEMMA RelativeSize ==
  ASSUME RecInv, Relative
  PROVE  /\ Len(values) \in Nat /\ Len(file) = Buflen * Len(values) /\ Len(file) \in Nat
         /\ \A i \in 1 .. Len(values) : Has(file, Buflen * (i - 1), Laid(values[i]))
<1>1. Layout(file, values, ends)
  BY LaidOutIs DEF RecInv
<1>2. Len(values) \in Nat /\ Len(file) \in Nat
  BY DEF RecInv, RecTypes, Data
<1>3. /\ Len(file) = Begin(ends, Len(values) + 1)
      /\ \A i \in 1 .. Len(values) : Has(file, Begin(ends, i), Laid(values[i]))
  BY <1>1 DEF Layout
<1>4. Begin(ends, Len(values) + 1) = Buflen * Len(values)
  BY <1>2, RecordBegin
<1>5. ASSUME NEW i \in 1 .. Len(values) PROVE Begin(ends, i) = Buflen * (i - 1)
  BY <1>5, RecordBegin
<1> QED BY <1>2, <1>3, <1>4, <1>5

LEMMA WriteRecord ==
  ASSUME Orderly, RecInv, Relative, NEW v \in Value, NEW record \in RecordNumbers, Write(v, record),
         NEW m, m = Numbered(values, record)
  PROVE  /\ file' \in Data /\ PutIn(file, file', m, record, Laid(v))
         /\ Len(file') < Word /\ next' = Len(values) + 2 /\ ends' = ends
         /\ fptr' \in Nat /\ values' = Placed(values, m, record, v)
<1> DEFINE d == Laid(v)
           at == Buflen * record
           p == Prepared(record)
           n == Len(values)
           size == Len(file)
<1>1. d \in Data /\ Len(d) = Buflen /\ file \in Data
  <2>1. file \in Data /\ kind \in Kinds /\ v \in Value \cup {Nothing} /\ RecordHabits = {}
    BY DEF RecInv, RecTypes, Orderly
  <2> QED BY <2>1, LaidType
<1>2. record \in Nat /\ Low(Buflen * record) = at /\ at \in Nat
  BY RecordStarts, Times
<1>3. n \in Nat /\ size = Buflen * n /\ size \in Nat
  BY RelativeSize
<1>4. /\ n < record => size + Buflen <= at
      /\ n <= record => size <= at
      /\ record < n => at + Buflen <= size
      /\ Buflen * (record + 1) = at + Buflen
  BY <1>2, <1>3, Times
<1>5. /\ p.fptr = at
      /\ size < at => p.file = file \o Zeros(at - size)
      /\ size >= at => p.file = file
  <2>1. CASE size < at
    <3>1. p = [file |-> file \o Zeros(at - size), fptr |-> at]
      BY <1>2, <2>1 DEF Prepared, fsize
    <3> HIDE DEF p
    <3> QED BY <1>2, <1>3, <2>1, <3>1
  <2>2. CASE ~(size < at)
    <3>1. at <= fsize
      BY <1>2, <1>3, <2>2 DEF fsize
    <3>2. p = [file |-> file, fptr |-> at]
      BY <1>2, <2>2, <3>1 DEF Prepared, Seek, fsize
    <3> HIDE DEF p
    <3> QED BY <1>2, <1>3, <2>2, <3>2
  <2> QED BY <2>1, <2>2
<1>6. /\ file' = Overwrite(p.file, at, d) /\ fptr' = at + Len(d) /\ Len(file') < Word
      /\ next' = n + 2 /\ ends' = ends
      /\ values' = Placed(values, m, record, v)
  <2>1. /\ file' = Overwrite(p.file, p.fptr, Filled(Line(Printed(v))))
        /\ fptr' = p.fptr + Len(Filled(Line(Printed(v))))
        /\ Len(file') < Word \/ "huge" \in RecordHabits
        /\ next' = n + 2 /\ ends' = ends
        /\ values' = Placed(values, m, record, v)
    BY DEF Write, Placed, Numbered
  <2>2. Filled(Line(Printed(v))) = d
    BY Laying
  <2> HIDE DEF d, p, at
  <2> QED BY <1>5, <2>1, <2>2 DEF Orderly
<1> HIDE DEF d, p, at, n, size
<1>7. /\ p.file \in Data /\ at <= Len(p.file) /\ Len(p.file) = (IF size < at THEN at ELSE size)
      /\ \A i \in 1 .. size : p.file[i] = file[i]
      /\ \A i \in 1 .. Len(p.file) : i > size => p.file[i] = 0
  <2>1. CASE size < at
    <3> DEFINE k == at - size
    <3>1. k \in Nat /\ at = size + k
      BY <1>2, <1>3, <2>1
    <3> DEFINE z == Zeros(k)
    <3>2. p.file = file \o z
      BY <1>5, <2>1
    <3> HIDE DEF k
    <3>3. z \in Data /\ Len(z) = k /\ \A i \in 1 .. k : z[i] = 0
      BY <3>1, ZerosAre
    <3> HIDE DEF z
    <3>4. /\ p.file \in Data /\ Len(p.file) = size + k
          /\ \A i \in 1 .. size : p.file[i] = file[i]
          /\ \A i \in 1 .. k : p.file[size + i] = z[i]
      <4>1. /\ file \o z \in Data /\ Len(file \o z) = Len(file) + Len(z)
            /\ \A i \in 1 .. Len(file) : (file \o z)[i] = file[i]
            /\ \A i \in 1 .. Len(z) : (file \o z)[Len(file) + i] = z[i]
        BY <1>1, <3>3, Joined
      <4> QED BY <3>2, <3>3, <4>1 DEF size
    <3>5. ASSUME NEW i \in 1 .. size + k, i > size PROVE p.file[i] = 0
      <4>1. i - size \in 1 .. k /\ size + (i - size) = i
        <5>1. size \in Nat /\ k \in Nat
          BY <1>3, <3>1
        <5> QED BY ONLY <3>5, <5>1, i \in 1 .. size + k
      <4> QED BY <3>3, <3>4, <4>1
    <3>6. Len(p.file) = at /\ size + k = at
      BY <3>1, <3>4
    <3> QED BY <1>2, <1>3, <2>1, <3>4, <3>5, <3>6
  <2>2. CASE size >= at
    <3>1. p.file = file
      BY <1>5, <2>2
    <3>2. Len(p.file) = size
      BY <3>1 DEF size
    <3> HIDE DEF size
    <3>3. \A i \in 1 .. Len(p.file) : ~(i > size)
      BY <1>3, <3>2
    <3>4. at <= Len(p.file) /\ ~(size < at)
      BY <1>2, <1>3, <2>2, <3>2
    <3> QED BY <1>1, <3>1, <3>2, <3>3, <3>4
  <2>3. size < at \/ size >= at
    BY <1>2, <1>3
  <2> QED BY <2>1, <2>2, <2>3
<1> DEFINE f == p.file
<1>8. f \in Data /\ at <= Len(f) /\ file' = Overwrite(f, at, d)
  BY <1>6, <1>7
<1> HIDE DEF f
<1>9. /\ file' \in Data
      /\ Len(file') = IF at + Len(d) > Len(f) THEN at + Len(d) ELSE Len(f)
      /\ Has(file', at, d)
      /\ \A i \in 1 .. Len(f) : i <= at \/ i > at + Len(d) => file'[i] = f[i]
  BY <1>1, <1>2, <1>8, OverwriteIs
<1>10. Len(f) = (IF size < at THEN at ELSE size) /\ (\A i \in 1 .. size : f[i] = file[i])
       /\ (\A i \in 1 .. Len(f) : i > size => f[i] = 0)
  BY <1>7 DEF f
<1>11. Len(file') = Buflen * m
  <2>1. CASE record >= n
    <3>1. m = record + 1
      BY <2>1 DEF n, Numbered
    <3>2. Len(file') = at + Buflen
      BY <1>1, <1>2, <1>3, <1>4, <1>9, <1>10, <2>1, Constants
    <3> QED BY <1>4, <3>1, <3>2
  <2>2. CASE record < n
    <3>1. m = n
      BY <1>2, <1>3, <2>2 DEF n, Numbered
    <3>2. Len(file') = size
      BY <1>1, <1>2, <1>3, <1>4, <1>9, <1>10, <2>2, Constants
    <3> QED BY <1>3, <3>1, <3>2
  <2> QED BY <1>2, <1>3, <2>1, <2>2
<1>12. \A i \in 1 .. size : i <= at \/ i > at + Buflen => file'[i] = file[i]
  <2>1. \A i \in 1 .. size : i \in 1 .. Len(f)
    BY <1>2, <1>3, <1>10
  <2> QED BY <1>1, <1>9, <1>10, <2>1
<1>13. \A i \in 1 .. Len(file') : i > size /\ i <= at => file'[i] = 0
  <2>1. \A i \in 1 .. Len(file') : i > size /\ i <= at => i \in 1 .. Len(f)
    BY <1>2, <1>3, <1>10
  <2> QED BY <1>9, <1>10, <2>1
<1>14. fptr' \in Nat
  BY <1>1, <1>2, <1>6, Constants
<1> QED BY <1>6, <1>9, <1>11, <1>12, <1>13, <1>14 DEF d, at, n, size, PutIn

-----------------------------------------------------------------------------
(* READ. *)

(* The values of a sequential file.                                               *)
LEMMA InFile ==
  ASSUME Orderly, RecInv, ~Relative, NEW i \in 1 .. Len(values)
  PROVE  /\ values[i] \in Value /\ Laid(values[i]) \in Data /\ Len(Laid(values[i])) \in Nat
         /\ StartOf(i) \in Nat /\ StartOf(i + 1) = StartOf(i) + Len(Laid(values[i]))
         /\ Has(file, StartOf(i), Laid(values[i]))
         /\ StartOf(i + 1) <= Len(file)
<1>1. /\ kind \in Kinds /\ RecordHabits = {} /\ file \in Data
      /\ values \in Seq(Value \cup {Nothing}) /\ ends \in Seq(Nat)
      /\ Len(ends) = Len(values) /\ values[i] # Nothing
  BY DEF RecInv, RecTypes, Orderly
<1>2. values[i] \in Value
  <2>1. values[i] \in Value \cup {Nothing}
    BY <1>1, ElementOfSeq
  <2> QED BY <1>1, <2>1
<1>3. Laid(values[i]) \in Data /\ Len(Laid(values[i])) \in Nat
  BY <1>1, <1>2, LaidType
<1>4. Len(values) \in Nat
  BY <1>1
<1>5. StartOf(i) \in Nat
  <2>1. i \in 1 .. Len(values) + 1
    BY <1>4
  <2>2. Begin(ends, i) \in Nat
    BY <1>1, <1>4, <2>1, BeginIs
  <2> QED BY <2>2 DEF Begin, StartOf
<1>6. StartOf(i + 1) = StartOf(i) + Len(Laid(values[i])) /\ Has(file, StartOf(i), Laid(values[i]))
  BY DEF RecInv, LaidOut
<1>7. StartOf(i + 1) <= Len(file)
  BY <1>6 DEF Has
<1> QED BY <1>2, <1>3, <1>5, <1>6, <1>7

(* How much is sent: w at most, what the host has room for at most, and to the end of     *)
(* the file at most.                                                            *)
LEMMA SendIs ==
  ASSUME NEW s, NEW w \in Nat, Len(s.file) \in Nat, Len(s.file) < Word, s.fptr \in Nat, s.fptr < Len(s.file),
         w = IF kind = "program" THEN Buflen ELSE IF kind = "raw" THEN Len(s.file) - s.fptr
             ELSE IF kind = "relInternal" THEN Buflen ELSE Low(next_value_size(s.file, s.fptr)),
         s.fptr + Lower(w, Buflen) < Word
  PROVE  SendSize(s, Buflen) = IF s.fptr + Lower(w, Buflen) >= Len(s.file) THEN Len(s.file) - s.fptr
                               ELSE Lower(w, Buflen)
<1> DEFINE at == s.fptr   size == Len(s.file)   n == Lower(w, Buflen)
<1>1. at \in Nat /\ size \in Nat /\ at < size /\ size < Word /\ at + n < Word
  OBVIOUS
<1>2. n \in Nat
  BY Constants DEF Lower
<1> HIDE DEF n
<1>3. Low(at) = at
  BY <1>1, LowIs, Constants
<1>4. Low(size - Low(at)) = size - at /\ size - at # 0
  <2>1. size - at \in Nat /\ size - at < Word /\ size - at # 0
    BY <1>1, Constants
  <2> QED BY <1>3, <2>1, LowIs
<1>5. Low(Low(at) + n) = at + n
  <2>1. at + n \in Nat
    BY <1>1, <1>2
  <2> QED BY <1>1, <1>3, <2>1, LowIs
<1>6. SendSize(s, Buflen) = IF Low(Low(at) + n) >= size THEN Low(size - Low(at)) ELSE n
  <2> DEFINE rest == Low(size - Low(at))
             wanted == IF kind = "program" THEN Buflen
                       ELSE IF kind = "raw" \/ rest = 0 THEN rest
                       ELSE IF kind = "relInternal" THEN Buflen
                       ELSE Low(next_value_size(s.file, s.fptr))
  <2>1. SendSize(s, Buflen) = IF Low(Low(at) + Lower(wanted, Buflen)) >= size THEN rest ELSE Lower(wanted, Buflen)
    BY DEF SendSize
  <2>2. rest = size - at /\ rest # 0
    BY <1>4
  <2> HIDE DEF rest
  <2>3. wanted = w
    BY <2>2
  <2> HIDE DEF wanted
  <2> QED BY <2>1, <2>3 DEF n, rest
<1> QED BY <1>4, <1>5, <1>6 DEF n

(* A READ with something left, and one with nothing left.                              *)
LEMMA ReadMore ==
  ASSUME NEW record, NEW s, NEW n \in Nat,
         s = IF Relative THEN Seek(Low(Buflen * record)) ELSE [file |-> file, fptr |-> fptr],
         n = SendSize(s, Buflen), s.fptr \in Nat, s.fptr < Word, s.fptr < Len(s.file)
  PROVE  LET r == Reading(record, Buflen) IN
         /\ r.file = s.file /\ r.rc = "SUCCESS" /\ r.data = SubSeq(s.file, s.fptr + 1, s.fptr + n)
         /\ r.fptr = IF ~Display THEN s.fptr + n
                     ELSE IF Relative THEN Low(Buflen * (record + 1)) ELSE Skip(s.file, s.fptr + n)
<1> DEFINE after == s.fptr + n
           r == Reading(record, Buflen)
           p == IF ~Display THEN after
                ELSE IF Relative THEN Low(Buflen * (record + 1)) ELSE Skip(s.file, after)
<1>1. Low(s.fptr) = s.fptr
  BY LowIs
<1>2. r = IF Low(s.fptr) >= Len(s.file)
          THEN [file |-> s.file, fptr |-> s.fptr, data |-> <<>>, rc |-> "EOF"]
          ELSE [file |-> s.file, data |-> SubSeq(s.file, s.fptr + 1, after), rc |-> "SUCCESS", fptr |-> p]
  BY DEF Reading
<1> HIDE DEF after, p, r
<1>3. ~(Low(s.fptr) >= Len(s.file)) => 
        /\ r.file = s.file /\ r.rc = "SUCCESS" /\ r.data = SubSeq(s.file, s.fptr + 1, after) /\ r.fptr = p
  BY <1>2
<1>4. ~(Low(s.fptr) >= Len(s.file))
  BY <1>1
<1> QED BY <1>3, <1>4 DEF after, p, r

LEMMA ReadNone ==
  ASSUME NEW record, NEW s,
         s = IF Relative THEN Seek(Low(Buflen * record)) ELSE [file |-> file, fptr |-> fptr],
         s.fptr \in Nat, s.fptr < Word, s.fptr >= Len(s.file)
  PROVE  LET r == Reading(record, Buflen) IN r.file = s.file /\ r.rc = "EOF" /\ r.fptr = s.fptr /\ r.data = <<>>
<1>1. Low(s.fptr) = s.fptr
  BY LowIs
<1>2. Reading(record, Buflen) = [file |-> s.file, fptr |-> s.fptr, data |-> <<>>, rc |-> "EOF"]
  BY <1>1 DEF Reading
<1> QED BY <1>2

LEMMA LineData ==
  ASSUME NEW f \in Data, NEW d \in Data, NEW v \in Data, NEW at \in Nat, Has(f, at, d), LineOf(d, v)
  PROVE  /\ SubSeq(f, at + 1, at + Len(v)) = v
         /\ at + Len(v) + 2 <= Len(f) /\ f[at + Len(v) + 1] = 13
<1>1. Len(v) \in Nat /\ Len(d) \in Nat /\ Len(f) \in Nat /\ Len(d) >= Len(v) + 2
      /\ at + Len(d) <= Len(f) /\ \A j \in 1 .. Len(d) : f[at + j] = d[j]
  <2>1. Len(v) \in Nat /\ Len(d) \in Nat /\ Len(f) \in Nat
    BY DEF Data
  <2> QED BY <2>1 DEF LineOf, Has
<1>2. SubSeq(f, at + 1, at + Len(v)) = v
  <2> DEFINE n == Len(v)
             q == SubSeq(f, at + 1, at + n)
  <2>1. n \in Nat /\ n <= Len(d)
    BY <1>1
  <2> HIDE DEF n
  <2>2. q \in Data /\ Len(q) = n /\ \A i \in 1 .. n : q[i] = d[i]
    BY <2>1, PieceIs
  <2> HIDE DEF q
  <2>3. \A i \in 1 .. Len(q) : q[i] = v[i]
    BY <2>2 DEF LineOf, n
  <2>4. q = v
    BY <2>2, <2>3, SameData DEF n
  <2> QED BY <2>4 DEF q, n
<1>3. Len(v) + 1 \in 1 .. Len(d) /\ at + (Len(v) + 1) = at + Len(v) + 1 /\ d[Len(v) + 1] = 13
  <2>1. d[Len(v) + 1] = 13
    BY DEF LineOf
  <2> QED BY <1>1, <2>1
<1>4. at + Len(v) + 2 <= Len(f)
  BY <1>1
<1> QED BY <1>1, <1>2, <1>3, <1>4

LEMMA ReadDisplay ==
  ASSUME Orderly, RecInv, kind = "display", NEW record, next <= Len(values)
  PROVE  LET r == Reading(record, Buflen) IN
         /\ r.file = file /\ r.rc = "SUCCESS" /\ r.data = Printed(values[next]) /\ r.fptr = StartOf(next + 1)
<1> DEFINE v == values[next]   d == Laid(v)   at == fptr
           s == [file |-> file, fptr |-> fptr]
           r == Reading(record, Buflen)
<1>1. ~Relative /\ Display /\ kind \in Kinds
  BY DEF Relative, Display, Kinds
<1>2. next \in 1 .. Len(values) /\ at = StartOf(next) /\ file \in Data
  BY DEF RecInv, RecTypes, PlaceOk
<1>3. v \in Value /\ at \in Nat /\ d \in Data /\ StartOf(next + 1) = at + Len(d) /\ Has(file, at, d)
  BY <1>1, <1>2, InFile
<1>4. v \in Data /\ Matched(v) /\ Printed(v) = v /\ Len(v) <= Buflen /\ Len(v) \in Nat
  <2>1. v \in Data /\ Matched(v) /\ Len(Printed(v)) <= Room
    BY <1>1, <1>3, ValueIs DEF Orderly
  <2>2. Printed(v) = v /\ Room = Buflen
    BY <2>1, PrintedIs, Constants DEF Room
  <2> QED BY <2>1, <2>2 DEF Data
<1>5. LineOf(d, v) /\ Len(d) = Len(v) + 2
  BY <1>1, <1>3, LaidIs DEF Orderly
<1>6. Len(file) < Word /\ Len(file) \in Nat
  BY <1>2 DEF RecInv, SizeOk, fsize, Data
<1>7. DisplaySize(file, at) = Len(v)
  BY <1>2, <1>3, <1>4, <1>5, LineFound
<1>8. SubSeq(file, at + 1, at + Len(v)) = v /\ at + Len(v) + 2 <= Len(file) /\ file[at + Len(v) + 1] = 13
  <2> HIDE DEF v, d, r, at, s
  <2>1. file \in Data /\ v \in Data /\ d \in Data /\ at \in Nat /\ Has(file, at, d) /\ LineOf(d, v)
    BY <1>2, <1>3, <1>4, <1>5
  <2> QED BY <2>1, LineData
<1>9. s.file = file /\ s.fptr = at
  OBVIOUS
<1> HIDE DEF v, d, r, at, s
<1> DEFINE size == Len(file)   n == Len(v)
<1>10. /\ at \in Nat /\ n \in Nat /\ size \in Nat /\ at + n + 2 <= size /\ size < Word
       /\ s.file = file /\ s.fptr = at
  BY <1>3, <1>4, <1>6, <1>8, <1>9
<1>11. at < size /\ at < Word /\ n < Word /\ at + n < size /\ at + n + 1 < size /\ at + n < Word
  <2> HIDE DEF size, n
  <2> QED BY <1>10, Constants
<1>12. SendSize(s, Buflen) = Len(v)
  <2>1. Low(next_value_size(s.file, s.fptr)) = Len(v)
    <3>1. Len(v) < Word
      BY <1>11
    <3> QED BY <1>1, <1>4, <1>7, <1>9, <3>1, LowIs DEF next_value_size
  <2>2. Lower(Len(v), Buflen) = Len(v)
    BY <1>4, Constants DEF Lower
  <2>3. s.fptr + Lower(Len(v), Buflen) < Len(s.file) /\ s.fptr < Len(s.file)
    BY <1>9, <1>11, <2>2
  <2>4. s.fptr + Lower(Len(v), Buflen) < Word
    BY <1>9, <1>11, <2>2
  <2>5. SendSize(s, Buflen) = IF s.fptr + Lower(Len(v), Buflen) >= Len(s.file) THEN Len(s.file) - s.fptr
                              ELSE Lower(Len(v), Buflen)
    BY <1>3, <1>4, <1>6, <1>9, <2>1, <2>3, <2>4, SendIs
  <2> QED BY <1>3, <1>4, <1>6, <1>9, <2>2, <2>3, <2>5
<1>13. /\ r.file = s.file /\ r.rc = "SUCCESS" /\ r.data = SubSeq(s.file, s.fptr + 1, s.fptr + Len(v))
       /\ r.fptr = IF ~Display THEN s.fptr + Len(v)
                   ELSE IF Relative THEN Low(Buflen * (record + 1)) ELSE Skip(s.file, s.fptr + Len(v))
  <2>1. s.fptr \in Nat /\ s.fptr < Word /\ s.fptr < Len(s.file)
    BY <1>10, <1>11
  <2>2. s = IF Relative THEN Seek(Low(Buflen * record)) ELSE [file |-> file, fptr |-> fptr]
    BY <1>1 DEF s
  <2>3. Len(v) = SendSize(s, Buflen)
    BY <1>12
  <2> QED BY <1>4, <2>1, <2>2, <2>3, ReadMore DEF r
<1>14. Skip(file, at + Len(v)) = at + Len(v) + 2
  <2>1. at + Len(v) < Len(file) /\ at + Len(v) + 1 < Len(file)
    BY <1>11
  <2> QED BY <1>8, <2>1 DEF Skip, CR
<1>15. r.fptr = at + Len(v) + 2
  BY <1>1, <1>9, <1>13, <1>14
<1>16. at + Len(v) + 2 = StartOf(next + 1)
  BY <1>3, <1>4, <1>5
<1> QED BY <1>4, <1>8, <1>9, <1>13, <1>15, <1>16 DEF r, v, at

LEMMA ReadInternal ==
  ASSUME Orderly, RecInv, kind = "internal", NEW record, next <= Len(values)
  PROVE  LET r == Reading(record, Buflen) IN
         /\ r.file = file /\ r.rc = "SUCCESS" /\ r.data = Printed(values[next]) /\ r.fptr = StartOf(next + 1)
<1> DEFINE v == values[next]   d == Laid(v)   at == fptr
           s == [file |-> file, fptr |-> fptr]
           r == Reading(record, Buflen)
<1>1. ~Relative /\ ~Display /\ kind \in Kinds
  BY DEF Relative, Display, Kinds
<1>2. next \in 1 .. Len(values) /\ at = StartOf(next) /\ file \in Data
  BY DEF RecInv, RecTypes, PlaceOk
<1>3. v \in Value /\ at \in Nat /\ d \in Data /\ StartOf(next + 1) = at + Len(d) /\ Has(file, at, d)
  BY <1>1, <1>2, InFile
<1>4. d = Printed(v) /\ Len(d) = Len(v) + 1 /\ d[1] = Len(v) /\ Len(d) <= Buflen /\ Len(v) \in Nat
  <2>1. v \in Data /\ Len(Printed(v)) <= Room
    BY <1>3, ValueIs
  <2>2. Len(Printed(v)) = Len(v) + 1 /\ Printed(v)[1] = Len(v) /\ Room = Buflen
    BY <2>1, PrintedIs, Constants DEF Room
  <2>3. d = Printed(v)
    BY <1>1, <1>3, LaidIs DEF Orderly
  <2> QED BY <2>1, <2>2, <2>3 DEF Data
<1>5. Len(file) < Word /\ Len(file) \in Nat
  BY <1>2 DEF RecInv, SizeOk, fsize, Data
<1>6. at + Len(d) <= Len(file) /\ file[at + 1] = Len(v)
  <2>1. at + Len(d) <= Len(file) /\ \A j \in 1 .. Len(d) : file[at + j] = d[j]
    BY <1>3 DEF Has
  <2>2. 1 \in 1 .. Len(d)
    BY <1>4
  <2> QED BY <1>4, <2>1, <2>2
<1>7. SubSeq(file, at + 1, at + Len(d)) = d
  <2> HIDE DEF v, d, r, at, s
  <2> QED BY <1>2, <1>3, PieceIsAll
<1>8. s.file = file /\ s.fptr = at
  OBVIOUS
<1> HIDE DEF v, d, r, at, s
<1> DEFINE size == Len(file)   n == Len(d)
<1>9. at \in Nat /\ n \in Nat /\ n >= 1 /\ size \in Nat /\ at + n <= size /\ size < Word
  BY <1>3, <1>4, <1>5, <1>6
<1>10. at < size /\ at < Word /\ n < Word /\ at + n < Word
  <2> HIDE DEF size, n
  <2> QED BY <1>9, Constants
<1>11. SendSize(s, Buflen) = Len(d)
  <2>1. Len(d) \in Nat /\ Len(d) < Word
    BY <1>9, <1>10
  <2>2. Low(next_value_size(s.file, s.fptr)) = Len(d)
    BY <1>1, <1>4, <1>6, <1>8, <2>1, LowIs DEF next_value_size
  <2>3. Lower(Len(d), Buflen) = Len(d)
    BY <1>4, Constants DEF Lower
  <2>4. s.fptr + Lower(Len(d), Buflen) < Word /\ s.fptr < Len(s.file)
    BY <1>8, <1>10, <2>3
  <2>5. SendSize(s, Buflen) = IF s.fptr + Lower(Len(d), Buflen) >= Len(s.file) THEN Len(s.file) - s.fptr
                              ELSE Lower(Len(d), Buflen)
    BY <1>3, <1>5, <1>8, <2>1, <2>2, <2>4, SendIs
  <2> QED BY <1>3, <1>5, <1>6, <1>8, <2>1, <2>3, <2>5
<1>12. /\ r.file = s.file /\ r.rc = "SUCCESS" /\ r.data = SubSeq(s.file, s.fptr + 1, s.fptr + Len(d))
       /\ r.fptr = IF ~Display THEN s.fptr + Len(d)
                   ELSE IF Relative THEN Low(Buflen * (record + 1)) ELSE Skip(s.file, s.fptr + Len(d))
  <2>1. s.fptr \in Nat /\ s.fptr < Word /\ s.fptr < Len(s.file) /\ Len(d) \in Nat
    BY <1>8, <1>9, <1>10
  <2>2. s = IF Relative THEN Seek(Low(Buflen * record)) ELSE [file |-> file, fptr |-> fptr]
    BY <1>1 DEF s
  <2>3. Len(d) = SendSize(s, Buflen)
    BY <1>11
  <2> QED BY <2>1, <2>2, <2>3, ReadMore DEF r
<1> QED BY <1>1, <1>3, <1>4, <1>7, <1>8, <1>12 DEF r, v, at

(* Nothing is left of a sequential file.                                            *)
LEMMA ReadEnd ==
  ASSUME RecInv, ~Relative, fptr >= Len(file), fptr < Word, NEW record
  PROVE  LET r == Reading(record, Buflen) IN r.file = file /\ r.rc = "EOF" /\ r.fptr = fptr /\ r.data = <<>>
<1> DEFINE s == [file |-> file, fptr |-> fptr]
<1>1. s.file = file /\ s.fptr = fptr /\ fptr \in Nat
      /\ s = IF Relative THEN Seek(Low(Buflen * record)) ELSE [file |-> file, fptr |-> fptr]
  BY DEF RecInv, RecTypes
<1> HIDE DEF s
<1> QED BY <1>1, ReadNone

(* A program is all of its file.                                                    *)
LEMMA ProgramFile ==
  ASSUME Orderly, RecInv, kind = "program"
  PROVE  \/ Len(values) = 0 /\ Len(file) = 0
         \/ /\ Len(values) = 1 /\ file = Printed(values[1])
            /\ 2 <= Len(file) /\ Len(file) <= Buflen
<1>1. ~Relative /\ Display /\ kind \in Kinds
  BY DEF Relative, Display, Kinds
<1>2. /\ Len(values) <= 1 /\ Len(values) \in Nat /\ file \in Data /\ Len(file) \in Nat
      /\ Len(file) = StartOf(Len(values) + 1)
  BY DEF RecInv, RecTypes, PlaceOk, LaidOut, fsize, Data
<1>3. StartOf(1) = 0
  BY <1>1 DEF StartOf
<1>4. CASE Len(values) = 0
  <2>1. Len(values) + 1 = 1
    BY <1>4
  <2> QED BY <1>2, <1>3, <1>4, <2>1
<1>5. CASE Len(values) = 1
  <2> DEFINE v == values[1]
  <2>1. 1 \in 1 .. Len(values) /\ 1 + 1 = 2 /\ Len(values) + 1 = 2
    BY <1>5
  <2>2. v \in Value /\ Laid(v) \in Data /\ Has(file, StartOf(1), Laid(v))
        /\ StartOf(1 + 1) = StartOf(1) + Len(Laid(v))
    BY <1>1, <2>1, InFile
  <2>3. Laid(v) = Printed(v)
    BY <1>1, <2>2, LaidIs DEF Orderly
  <2> HIDE DEF v
  <2>4. Len(Printed(v)) = Len(v) + 2 /\ Len(Printed(v)) <= Buflen /\ Len(v) \in Nat
    <3>1. v \in Data /\ Len(Printed(v)) <= Room
      BY <2>2, ValueIs
    <3> QED BY <3>1, PrintedIs, Constants DEF Room, Data
  <2> DEFINE d == Laid(v)
  <2>5. d \in Data /\ Has(file, 0, d) /\ Len(file) = Len(d) /\ d = Printed(v)
    <3>1. StartOf(2) = Len(d)
      <4>1. Len(d) \in Nat
        BY <2>2 DEF Data
      <4> QED BY <1>3, <2>1, <2>2, <4>1
    <3>2. Len(file) = Len(d)
      BY <1>2, <2>1, <3>1
    <3> QED BY <1>3, <2>2, <2>3, <3>2
  <2> HIDE DEF d
  <2>6. file = d
    <3>1. \A j \in 1 .. Len(d) : file[0 + j] = d[j]
      BY <2>5 DEF Has
    <3>2. \A j \in 1 .. Len(file) : file[j] = d[j]
      <4>1. SUFFICES ASSUME NEW j \in 1 .. Len(file) PROVE file[j] = d[j]
        OBVIOUS
      <4>2. j \in 1 .. Len(d) /\ 0 + j = j
        BY <2>5
      <4> QED BY <3>1, <4>2
    <3> QED BY <1>2, <2>5, <3>2, SameData
  <2> QED BY <1>5, <2>4, <2>5, <2>6 DEF v
<1>6. Len(values) = 0 \/ Len(values) = 1
  <2> DEFINE n == Len(values)
  <2>1. n <= 1 /\ n \in Nat
    BY <1>2
  <2> HIDE DEF n
  <2>2. n = 0 \/ n = 1
    BY <2>1
  <2> QED BY <2>2 DEF n
<1> QED BY <1>4, <1>5, <1>6

LEMMA ReadProgram ==
  ASSUME Orderly, RecInv, kind = "program", fptr = 0, Len(values) = 1, NEW record
  PROVE  LET r == Reading(record, Buflen) IN
         r.file = file /\ r.rc = "SUCCESS" /\ r.data = Printed(values[1]) /\ r.fptr = Len(file)
<1> DEFINE s == [file |-> file, fptr |-> fptr]
           size == Len(file)
           r == Reading(record, Buflen)
<1>1. ~Relative /\ Display
  BY DEF Relative, Display
<1>2. file \in Data /\ file = Printed(values[1]) /\ 2 <= size /\ size <= Buflen /\ size \in Nat
  BY ProgramFile DEF RecInv, RecTypes, Data
<1>3. size < Word /\ Buflen < Word
  BY DEF RecInv, SizeOk, fsize, Orderly
<1>4. /\ s.file = file /\ s.fptr = 0
      /\ s = IF Relative THEN Seek(Low(Buflen * record)) ELSE [file |-> file, fptr |-> fptr]
  BY <1>1
<1> HIDE DEF s, r
<1>5. SendSize(s, Buflen) = size
  <2>1. Lower(Buflen, Buflen) = Buflen
    BY DEF Lower
  <2>2. s.fptr \in Nat /\ s.fptr < Len(s.file) /\ Len(s.file) \in Nat /\ Len(s.file) < Word
        /\ s.fptr + Lower(Buflen, Buflen) < Word /\ Buflen \in Nat
    BY <1>2, <1>3, <1>4, <2>1, Constants
  <2>3. SendSize(s, Buflen) = IF s.fptr + Lower(Buflen, Buflen) >= Len(s.file) THEN Len(s.file) - s.fptr
                              ELSE Lower(Buflen, Buflen)
    BY <2>2, SendIs
  <2> HIDE DEF size
  <2> QED BY <1>2, <1>4, <2>1, <2>3, Constants DEF size
<1>6. /\ r.file = s.file /\ r.rc = "SUCCESS" /\ r.data = SubSeq(s.file, s.fptr + 1, s.fptr + size)
      /\ r.fptr = IF ~Display THEN s.fptr + size
                  ELSE IF Relative THEN Low(Buflen * (record + 1)) ELSE Skip(s.file, s.fptr + size)
  <2>1. s.fptr \in Nat /\ s.fptr < Word /\ s.fptr < Len(s.file) /\ size = SendSize(s, Buflen)
    BY <1>2, <1>4, <1>5, Constants
  <2> QED BY <1>2, <1>4, <2>1, ReadMore DEF r
<1>7. Skip(file, 0 + size) = size
  BY <1>2 DEF Skip
<1>8. SubSeq(file, 0 + 1, 0 + size) = file
  BY <1>2, SubSeqFull DEF Data
<1> QED BY <1>1, <1>2, <1>4, <1>6, <1>7, <1>8 DEF r

LEMMA ReadRaw ==
  ASSUME Orderly, RecInv, kind = "raw", fptr < Len(file), NEW record
  PROVE  LET r == Reading(record, Buflen) IN
         /\ r.file = file /\ r.fptr \in Nat /\ fptr < r.fptr /\ r.fptr <= Len(file)
         /\ r.data = SubSeq(file, fptr + 1, r.fptr)
<1> DEFINE s == [file |-> file, fptr |-> fptr]
           size == Len(file)
           n == SendSize(s, Buflen)
           r == Reading(record, Buflen)
<1>1. ~Relative /\ ~Display
  BY DEF Relative, Display
<1>2. file \in Data /\ size \in Nat /\ size < Word /\ fptr \in Nat /\ fptr < size
  BY DEF RecInv, RecTypes, SizeOk, fsize, Data
<1>3. /\ s.file = file /\ s.fptr = fptr
      /\ s = IF Relative THEN Seek(Low(Buflen * record)) ELSE [file |-> file, fptr |-> fptr]
  BY <1>1
<1> HIDE DEF s, r
<1>4. n \in Nat /\ n >= 1 /\ fptr + n <= size
  <2> DEFINE w == size - fptr   k == Lower(w, Buflen)
  <2> HIDE DEF size
  <2>1. w \in Nat /\ w >= 1
    BY <1>2
  <2>2. k \in Nat /\ k >= 1 /\ k <= w
    BY <2>1, Constants DEF Lower
  <2>3. fptr + k < Word
    BY <1>2, <2>2, Constants
  <2>4. n = IF s.fptr + Lower(w, Buflen) >= Len(s.file) THEN Len(s.file) - s.fptr ELSE Lower(w, Buflen)
    <3>1. w = Len(s.file) - s.fptr /\ s.fptr + Lower(w, Buflen) < Word /\ Len(s.file) \in Nat
          /\ Len(s.file) < Word /\ s.fptr \in Nat /\ s.fptr < Len(s.file)
      BY <1>2, <1>3, <2>3 DEF size
    <3> HIDE DEF w
    <3> QED BY <2>1, <3>1, SendIs
  <2>5. n = IF fptr + k >= size THEN w ELSE k
    BY <1>3, <2>4 DEF size
  <2> HIDE DEF k, n
  <2> QED BY <1>2, <2>2, <2>5
<1> HIDE DEF n
<1>5. /\ r.file = s.file /\ r.data = SubSeq(s.file, s.fptr + 1, s.fptr + n) /\ r.fptr = s.fptr + n
  <2>1. s.fptr \in Nat /\ s.fptr < Word /\ s.fptr < Len(s.file)
    BY <1>2, <1>3, Constants
  <2>2. n = SendSize(s, Buflen)
    BY DEF n
  <2> QED BY <1>1, <1>3, <1>4, <2>1, <2>2, ReadMore DEF r
<1>6. r.fptr = fptr + n /\ r.file = file
  BY <1>3, <1>5
<1>7. r.fptr \in Nat /\ fptr < r.fptr /\ r.fptr <= size
  <2> HIDE DEF size
  <2> QED BY <1>2, <1>4, <1>6
<1>8. r.data = SubSeq(file, fptr + 1, r.fptr)
  BY <1>3, <1>5, <1>6
<1> QED BY <1>6, <1>7, <1>8 DEF r

(* A record of a RELATIVE file: there, or not.                                        *)
LEMMA RecordThere ==
  ASSUME Orderly, RecInv, Relative, NEW record \in RecordNumbers, record + 1 <= Len(values),
         NEW s, s = Seek(Low(Buflen * record))
  PROVE  /\ record \in Nat /\ values[record + 1] \in Value \cup {Nothing}
         /\ s.file = file /\ s.fptr = Buflen * record /\ Buflen * record \in Nat
         /\ file \in Data /\ Len(file) \in Nat /\ Len(file) < Word
         /\ Buflen * record + Buflen <= Len(file)
         /\ Laid(values[record + 1]) \in Data /\ Len(Laid(values[record + 1])) = Buflen
         /\ Has(file, Buflen * record, Laid(values[record + 1]))
         /\ Low(Buflen * (record + 1)) = Buflen * record + Buflen
<1> DEFINE at == Buflen * record   size == Len(file)   n == Len(values)
<1>1. /\ record \in Nat /\ Low(Buflen * record) = at /\ at \in Nat
      /\ Low(Buflen * (record + 1)) = at + Buflen
  BY RecordStarts, Times
<1>2. n \in Nat /\ size = Buflen * n /\ size \in Nat
      /\ \A i \in 1 .. n : Has(file, Buflen * (i - 1), Laid(values[i]))
  BY RelativeSize
<1>3. record + 1 \in 1 .. n /\ record + 1 - 1 = record
  <2>1. record \in Nat /\ n \in Nat /\ record + 1 <= n
    BY <1>1, <1>2
  <2> HIDE DEF n
  <2> QED BY <2>1
<1>4. Has(file, at, Laid(values[record + 1]))
  <2> DEFINE i == record + 1
  <2>1. i \in 1 .. n /\ i - 1 = record
    BY <1>1, <1>3
  <2> HIDE DEF i, n
  <2>2. Has(file, Buflen * (i - 1), Laid(values[i]))
    BY <1>2, <2>1
  <2> QED BY <2>1, <2>2 DEF i
<1>5. values[record + 1] \in Value \cup {Nothing}
  <2>1. values \in Seq(Value \cup {Nothing})
    BY DEF RecInv, RecTypes
  <2> QED BY <1>3, <2>1, ElementOfSeq
<1>6. Laid(values[record + 1]) \in Data /\ Len(Laid(values[record + 1])) = Buflen
  BY <1>5, LaidType DEF RecInv, RecTypes, Orderly
<1>7. at + Buflen <= size
  BY <1>4, <1>6 DEF Has
<1>8. file \in Data /\ size < Word
  BY DEF RecInv, RecTypes, SizeOk, fsize
<1>9. s.file = file /\ s.fptr = at
  <2>1. at <= fsize
    <3> HIDE DEF at
    <3>1. size = fsize
      BY DEF fsize
    <3> HIDE DEF size
    <3> QED BY <1>1, <1>2, <1>7, <3>1, Constants
  <2>2. Seek(at) = [file |-> file, fptr |-> at]
    BY <2>1 DEF Seek
  <2> HIDE DEF at
  <2> QED BY <1>1, <2>2
<1> QED BY <1>1, <1>2, <1>4, <1>5, <1>6, <1>7, <1>8, <1>9

LEMMA RecordMissing ==
  ASSUME Orderly, RecInv, Relative, NEW record \in RecordNumbers, record + 1 > Len(values),
         Buflen * record <= Len(file) \/ ~Writable
  PROVE  LET r == Reading(record, Buflen) IN r.file = file /\ r.rc = "EOF" /\ r.fptr \in Nat
<1> DEFINE at == Buflen * record   size == Len(file)   n == Len(values)   s == Seek(Low(Buflen * record))
<1>1. record \in Nat /\ Low(Buflen * record) = at /\ at \in Nat
  BY RecordStarts, Times
<1>2. n \in Nat /\ size = Buflen * n /\ size \in Nat /\ n <= record
  <2>1. n \in Nat /\ size = Buflen * n /\ size \in Nat
    BY RelativeSize
  <2>2. n <= record
    <3>1. n \in Nat /\ record + 1 > n
      BY <2>1
    <3> HIDE DEF n
    <3> QED BY <1>1, <3>1
  <2> QED BY <2>1, <2>2
<1>3. size <= at
  BY <1>1, <1>2, Times
<1>4. size < Word
  BY DEF RecInv, SizeOk, fsize
<1>5. s.file = file /\ s.fptr = size
  <2>1. fsize = size
    BY DEF fsize
  <2>2. CASE at <= size
    <3>1. at = size
      <4> HIDE DEF at, size
      <4> QED BY <1>1, <1>2, <1>3, <2>2
    <3>2. Seek(at) = [file |-> file, fptr |-> at]
      BY <2>1, <2>2 DEF Seek
    <3> HIDE DEF at
    <3> QED BY <1>1, <3>1, <3>2
  <2>3. CASE ~(at <= size)
    <3>1. ~Writable
      BY <2>3
    <3>2. Seek(at) = [file |-> file, fptr |-> size]
      BY <2>1, <2>3, <3>1 DEF Seek
    <3> HIDE DEF at
    <3> QED BY <1>1, <3>2
  <2> QED BY <2>2, <2>3
<1>6. s = IF Relative THEN Seek(Low(Buflen * record)) ELSE [file |-> file, fptr |-> fptr]
  OBVIOUS
<1> HIDE DEF s
<1>7. s.fptr \in Nat /\ s.fptr < Word /\ s.fptr >= Len(s.file)
  <2>1. Len(s.file) = size
    BY <1>5
  <2> HIDE DEF size
  <2> QED BY <1>2, <1>4, <1>5, <2>1
<1> QED BY <1>5, <1>6, <1>7, ReadNone

(* A whole record is sent when that much is wanted.                                   *)
LEMMA SendRecord ==
  ASSUME NEW s, NEW at \in Nat, s.fptr = at, NEW size \in Nat, Len(s.file) = size, size < Word,
         at + Buflen <= size, kind \in {"relInternal", "relDisplay"},
         NEW w \in Nat, w >= Buflen,
         kind = "relInternal" => w = Buflen,
         kind = "relDisplay" => w = Low(next_value_size(s.file, s.fptr))
  PROVE  SendSize(s, Buflen) = Buflen
<1>1. Lower(w, Buflen) = Buflen
  BY Constants DEF Lower
<1>2. at < size /\ at + Buflen < Word
  BY Constants
<1>3. /\ Len(s.file) \in Nat /\ Len(s.file) < Word /\ s.fptr \in Nat /\ s.fptr < Len(s.file)
      /\ s.fptr + Lower(w, Buflen) < Word
      /\ w = IF kind = "program" THEN Buflen ELSE IF kind = "raw" THEN Len(s.file) - s.fptr
             ELSE IF kind = "relInternal" THEN Buflen ELSE Low(next_value_size(s.file, s.fptr))
  BY <1>1, <1>2
<1>4. SendSize(s, Buflen) = IF s.fptr + Lower(w, Buflen) >= Len(s.file) THEN Len(s.file) - s.fptr
                            ELSE Lower(w, Buflen)
  BY <1>3, SendIs
<1>5. SendSize(s, Buflen) = IF at + Buflen >= size THEN size - at ELSE Buflen
  BY <1>1, <1>4
<1> QED BY <1>5, Constants

LEMMA ReadRecord ==
  ASSUME Orderly, RecInv, Relative, NEW record \in RecordNumbers, record + 1 <= Len(values)
  PROVE  LET r == Reading(record, Buflen) IN
         r.file = file /\ r.rc = "SUCCESS" /\ r.data = Wanted(values[record + 1]) /\ r.fptr \in Nat
<1> DEFINE v == values[record + 1]   d == Laid(v)   at == Buflen * record   size == Len(file)
           s == Seek(Low(Buflen * record))
           r == Reading(record, Buflen)
<1>1. kind \in {"relInternal", "relDisplay"} /\ kind \in Kinds
  BY DEF Relative, Kinds
<1>2. /\ record \in Nat /\ v \in Value \cup {Nothing} /\ s.file = file /\ s.fptr = at /\ at \in Nat
      /\ file \in Data /\ size \in Nat /\ size < Word /\ at + Buflen <= size
      /\ d \in Data /\ Len(d) = Buflen /\ Has(file, at, d)
      /\ Low(Buflen * (record + 1)) = at + Buflen
  BY RecordThere
<1>3. s = IF Relative THEN Seek(Low(Buflen * record)) ELSE [file |-> file, fptr |-> fptr]
  OBVIOUS
<1> HIDE DEF v, d, at, size, s, r
<1>4. s.fptr \in Nat /\ s.fptr < Word /\ s.fptr < Len(s.file) /\ at + Buflen \in Nat
  <2>1. at < size /\ at < Word
    BY <1>2, Constants
  <2> QED BY <1>2, <2>1, Constants DEF size
<1>5. ASSUME NEW n \in Nat, n = SendSize(s, Buflen)
      PROVE  /\ r.file = file /\ r.rc = "SUCCESS" /\ r.data = SubSeq(file, at + 1, at + n)
             /\ r.fptr \in Nat
  <2>1. /\ r.file = s.file /\ r.rc = "SUCCESS" /\ r.data = SubSeq(s.file, s.fptr + 1, s.fptr + n)
        /\ r.fptr = IF ~Display THEN s.fptr + n
                    ELSE IF Relative THEN Low(Buflen * (record + 1)) ELSE Skip(s.file, s.fptr + n)
    BY <1>3, <1>4, <1>5, ReadMore DEF r
  <2>2. s.fptr + n \in Nat
    BY <1>4
  <2> QED BY <1>2, <1>4, <2>1, <2>2
<1>6. ASSUME SendSize(s, Buflen) = Buflen PROVE r.data = d
  <2>1. SubSeq(file, at + 1, at + Buflen) = d
    BY <1>2, PieceIs, Constants
  <2> QED BY <1>5, <1>6, <2>1, Constants
<1>7. CASE kind = "relInternal"
  <2>1. Buflen >= Buflen /\ Buflen \in Nat
    BY Constants
  <2>2. SendSize(s, Buflen) = Buflen
    BY <1>1, <1>2, <1>7, <2>1, SendRecord DEF size
  <2>3. d = Wanted(v)
    <3>1. CASE v = Nothing
      BY <3>1, LaidNothing DEF Wanted, d
    <3>2. CASE v # Nothing
      <4>1. d = Filled(Printed(v))
        BY <1>1, <1>2, <1>7, <3>2, LaidIs DEF d, Orderly
      <4> QED BY <1>7, <3>2, <4>1 DEF Wanted
    <3> QED BY <3>1, <3>2
  <2> QED BY <1>5, <1>6, <2>1, <2>2, <2>3 DEF r, v
<1>8. CASE kind = "relDisplay" /\ v = Nothing
  <2> DEFINE w == DisplaySize(file, at)
  <2>1. Len(d) = Buflen /\ (\A i \in 1 .. Buflen : d[i] = 0) /\ d = Wanted(v)
    BY <1>8, LaidNothing DEF Wanted, d
  <2>2. \A i \in 1 .. Buflen : file[at + i] = 0
    BY <1>2, <2>1 DEF Has
  <2>3. w \in Nat /\ w >= Buflen /\ w <= size - at
    BY <1>2, <2>2, ZerosPassed, Constants DEF size
  <2>4. Low(next_value_size(s.file, s.fptr)) = w
    <3>1. Display
      BY <1>8 DEF Display
    <3>2. w < Word
      <4> HIDE DEF w
      <4> QED BY <1>2, <2>3, Constants
    <3> QED BY <1>2, <2>3, <3>1, <3>2, LowIs DEF next_value_size
  <2> HIDE DEF w
  <2>5. SendSize(s, Buflen) = Buflen
    BY <1>1, <1>2, <1>8, <2>3, <2>4, SendRecord DEF size
  <2> QED BY <1>5, <1>6, <2>1, <2>5, Constants DEF r, v
<1>9. CASE kind = "relDisplay" /\ v # Nothing
  <2> DEFINE n == Len(v)
  <2>1. Display /\ v \in Value
    BY <1>2, <1>9 DEF Display
  <2>2. v \in Data /\ Matched(v) /\ Len(Printed(v)) <= Room /\ Printed(v) = v
    <3>1. v \in Data /\ Matched(v) /\ Len(Printed(v)) <= Room
      BY <2>1, ValueIs DEF Orderly
    <3> QED BY <1>9, <3>1, PrintedIs
  <2>3. Room = Buflen - 2
    BY <1>9 DEF Room, Orderly
  <2>4. LineOf(d, v)
    BY <1>1, <1>9, <2>1, LaidIs DEF d, Orderly
  <2>5. DisplaySize(file, at) = n
    BY <1>2, <2>2, <2>4, LineFound
  <2>6. SubSeq(file, at + 1, at + n) = v /\ at + n + 2 <= size
    BY <1>2, <2>2, <2>4, LineData DEF size
  <2>7. n \in Nat /\ n <= Buflen
    BY <2>2, <2>3, Constants DEF Data
  <2> HIDE DEF n
  <2>8. n < Word /\ at + n < size /\ at + n < Word
    BY <1>2, <2>6, <2>7, Constants
  <2>9. Low(next_value_size(s.file, s.fptr)) = n
    BY <1>2, <2>1, <2>5, <2>7, <2>8, LowIs DEF next_value_size
  <2>10. Lower(n, Buflen) = n
    BY <2>7, Constants DEF Lower
  <2>11. SendSize(s, Buflen) = n
    <3>1. /\ Len(s.file) \in Nat /\ Len(s.file) < Word /\ s.fptr \in Nat /\ s.fptr < Len(s.file)
          /\ s.fptr + Lower(n, Buflen) < Word
          /\ n = IF kind = "program" THEN Buflen ELSE IF kind = "raw" THEN Len(s.file) - s.fptr
                 ELSE IF kind = "relInternal" THEN Buflen ELSE Low(next_value_size(s.file, s.fptr))
      BY <1>2, <1>4, <1>9, <2>8, <2>9, <2>10 DEF size
    <3>2. SendSize(s, Buflen) = IF s.fptr + Lower(n, Buflen) >= Len(s.file) THEN Len(s.file) - s.fptr
                                ELSE Lower(n, Buflen)
      BY <2>7, <3>1, SendIs
    <3>3. SendSize(s, Buflen) = IF at + n >= size THEN size - at ELSE n
      BY <1>2, <2>10, <3>2 DEF size
    <3>4. ~(at + n >= size)
      BY <1>2, <2>7, <2>8
    <3> QED BY <3>3, <3>4
  <2>12. Wanted(v) = v
    BY <1>9, <2>2 DEF Wanted
  <2> QED BY <1>5, <2>6, <2>7, <2>11, <2>12 DEF r, v
<1> QED BY <1>1, <1>7, <1>8, <1>9 DEF r, v

-----------------------------------------------------------------------------
(* Every command keeps the invariant. *)
LEMMA InitRecords == ASSUME Orderly, RecordsInit PROVE RecInv
<1>1. /\ kind \in Kinds /\ file = <<>> /\ fptr = 0 /\ values = <<>> /\ ends = <<>> /\ next = 1
      /\ Len(<<>>) = 0 /\ Buflen * 0 = 0
  BY Constants, EmptySeq DEF RecordsInit
<1>2. StartOf(1) = 0
  BY <1>1 DEF StartOf
<1>3. RecTypes
  BY <1>1 DEF RecTypes, Data
<1>4. SizeOk
  BY <1>1, Constants DEF SizeOk, fsize
<1>5. PlaceOk
  BY <1>1, <1>2 DEF PlaceOk, fsize
<1>6. LaidOut
  BY <1>1, <1>2 DEF LaidOut, fsize
<1> QED BY <1>3, <1>4, <1>5, <1>6 DEF RecInv

(* Only the position changes.                                                        *)
LEMMA Moved ==
  ASSUME RecInv, kind' = kind, file' = file, values' = values, ends' = ends, fptr' \in Nat, next' \in Nat,
         kind \in {"display", "internal"} => next' >= 1 /\ next' <= Len(values) + 1 /\ fptr' = Begin(ends, next'),
         kind = "program" => /\ next' >= 1 /\ next' <= Len(values) + 1
                             /\ fptr' = 0 => next' = 1
                             /\ fptr' = Len(file) => next' = Len(values) + 1,
         kind \in {"program", "raw"} => fptr' <= Len(file)
  PROVE  RecInv'
<1>1. /\ Relative' = Relative /\ Value' = Value /\ StartOf(next)' = Begin(ends', next')
      /\ LaidOut' <=> Layout(file', values', ends')
  BY KindKept
<1>2. RecTypes'
  BY <1>1 DEF RecInv, RecTypes
<1>3. SizeOk'
  BY <1>1 DEF RecInv, SizeOk, fsize
<1>4. PlaceOk'
  <2>1. kind = "program" => Len(values) <= 1
    BY DEF RecInv, PlaceOk
  <2> QED BY <1>1, <2>1 DEF PlaceOk, fsize
<1>5. LaidOut'
  BY <1>1, LaidOutIs DEF RecInv
<1> QED BY <1>2, <1>3, <1>4, <1>5 DEF RecInv

LEMMA OpenStep ==
  ASSUME Orderly, RecInv, NEW m, Open(m)
  PROVE  RecInv' /\ answer'.op = "open"
<1>1. kind' = kind /\ answer'.op = "open"
  BY DEF Open
<1>2. CASE m = "write"
  <2>1. file' = <<>> /\ values' = <<>> /\ ends' = <<>> /\ fptr' = 0 /\ next' = 1 /\ Len(<<>>) = 0
    BY <1>2, EmptySeq DEF Open
  <2>2. /\ Relative' = Relative /\ Value' = Value /\ StartOf(next)' = Begin(ends', next')
        /\ LaidOut' <=> Layout(file', values', ends')
    BY <1>1, KindKept
  <2>3. Begin(<<>>, 1) = 0
    BY Constants DEF Begin
  <2>4. RecTypes'
    BY <1>1, <2>1, <2>2 DEF RecInv, RecTypes, Data
  <2>5. SizeOk'
    BY <1>1, <2>1, <2>2, Constants DEF SizeOk, fsize
  <2>6. PlaceOk'
    BY <1>1, <2>1, <2>2, <2>3 DEF PlaceOk, fsize
  <2>7. Layout(<<>>, <<>>, <<>>)
    BY <2>1, <2>3 DEF Layout
  <2>8. LaidOut'
    BY <2>1, <2>2, <2>7
  <2> QED BY <1>1, <2>4, <2>5, <2>6, <2>8 DEF RecInv
<1>3. CASE m # "write"
  <2>1. /\ file # <<>> /\ file' = file /\ values' = values /\ ends' = ends
        /\ fptr' = (IF m = "append" THEN Len(file) ELSE 0)
        /\ next' = (IF m = "append" THEN Len(values) + 1 ELSE 1)
    BY <1>3 DEF Open, fsize
  <2>2. Len(file) \in Nat /\ Len(values) \in Nat /\ Len(file) # 0
    BY <2>1, EmptySeq DEF RecInv, RecTypes, Data
  <2>3. Begin(ends, 1) = 0 /\ Begin(ends, Len(values) + 1) = Len(file)
    <3>1. Begin(ends, 1) = 0
      BY Constants DEF Begin
    <3>2. Begin(ends, Len(values) + 1) = Len(file)
      BY LaidOutIs DEF RecInv, Layout
    <3> QED BY <3>1, <3>2
  <2> DEFINE size == Len(file)   n == Len(values)
  <2> HIDE DEF size, n
  <2>4. fptr' \in Nat /\ next' \in Nat /\ next' >= 1 /\ next' <= n + 1 /\ fptr' <= size
        /\ fptr' = Begin(ends, next') /\ (fptr' = 0 => next' = 1) /\ (fptr' = size => next' = n + 1)
    BY <2>1, <2>2, <2>3 DEF size, n
  <2> QED BY <1>1, <2>1, <2>4, Moved DEF size, n
<1> QED BY <1>2, <1>3

LEMMA CloseStep ==
  ASSUME Orderly, RecInv, Close \/ UNCHANGED recordVars
  PROVE  RecInv'
<1>1. UNCHANGED <<kind, file, fptr, values, ends, next>>
  BY DEF Close, recordVars
<1>2. /\ fptr \in Nat /\ next \in Nat
      /\ kind \in {"display", "internal"} => next >= 1 /\ next <= Len(values) + 1 /\ fptr = Begin(ends, next)
      /\ kind = "program" => /\ next >= 1 /\ next <= Len(values) + 1
                             /\ fptr = 0 => next = 1
                             /\ fptr = Len(file) => next = Len(values) + 1
      /\ kind \in {"program", "raw"} => fptr <= Len(file)
  BY DEF RecInv, RecTypes, PlaceOk, StartOf, Begin, fsize
<1> QED BY <1>1, <1>2, Moved

LEMMA RestoreStep ==
  ASSUME Orderly, RecInv, Restore
  PROVE  RecInv' /\ answer'.op = "restore"
<1>1. kind' = kind /\ file' = file /\ values' = values /\ ends' = ends /\ fptr' = 0 /\ next' = 1
      /\ answer'.op = "restore"
  BY DEF Restore
<1>2. Begin(ends, 1) = 0 /\ Len(values) \in Nat /\ Len(file) \in Nat
  BY Constants DEF Begin, RecInv, RecTypes, Data
<1>3. kind = "program" /\ Len(file) = 0 => Len(values) = 0
  BY ProgramFile
<1>4. 1 <= Len(values) + 1 /\ 0 <= Len(file) /\ (kind = "program" /\ 0 = Len(file) => 1 = Len(values) + 1)
  BY <1>2, <1>3
<1> QED BY <1>1, <1>2, <1>4, Moved

(* A sequential file grows by the value at its end. *)
LEMMA WriteEndStep ==
  ASSUME Orderly, RecInv, ~Relative, NEW v \in Value, NEW record \in RecordNumbers, Write(v, record)
  PROVE  RecInv'
<1>1. /\ kind' = kind /\ kind \in Kinds /\ RecordHabits = {} /\ fptr = fsize
      /\ kind = "program" => file = <<>>
  BY DEF Write, Orderly, RecInv, RecTypes
<1>2. /\ Relative' = Relative /\ Value' = Value /\ StartOf(next)' = Begin(ends', next')
      /\ LaidOut' <=> Layout(file', values', ends')
  BY <1>1, KindKept
<1>3. /\ file' \in Data /\ Len(file') = fsize + Len(Laid(v)) /\ Has(file', fsize, Laid(v))
      /\ \A i \in 1 .. fsize : file'[i] = file[i]
      /\ fptr' = Len(file') /\ Len(file') < Word /\ next' = Len(values) + 2
      /\ values' = Append(values, v) /\ ends' = Append(ends, Len(file'))
  BY WriteAtEnd
<1>4. /\ file \in Data /\ values \in Seq(Value \cup {Nothing}) /\ ends \in Seq(Nat) /\ Len(ends) = Len(values)
      /\ \A i \in 1 .. Len(values) : values[i] # Nothing
      /\ Len(values) \in Nat /\ Len(file) \in Nat /\ Len(file') \in Nat /\ v # Nothing
  <2>1. v # Nothing
    BY ValueIs
  <2>2. Len(file') \in Nat
    BY <1>3 DEF Data
  <2> QED BY <2>1, <2>2 DEF RecInv, RecTypes, Data
<1>5. Layout(file', values', ends')
  BY <1>1, <1>3, <1>4, LaidOutIs, LayoutAppend DEF RecInv, fsize
<1>6. /\ values' \in Seq(Value \cup {Nothing}) /\ Len(values') = Len(values) + 1
      /\ ends' \in Seq(Nat) /\ Len(ends') = Len(values) + 1
      /\ \A i \in 1 .. Len(values) + 1 : values'[i] # Nothing
  <2>1. values' \in Seq(Value \cup {Nothing}) /\ Len(values') = Len(values) + 1
    BY <1>3, <1>4
  <2>2. ends' \in Seq(Nat) /\ Len(ends') = Len(values) + 1
    BY <1>3, <1>4
  <2>3. \A i \in 1 .. Len(values) + 1 : values'[i] # Nothing
    BY <1>3, <1>4
  <2> QED BY <2>1, <2>2, <2>3
<1>7. RecTypes'
  BY <1>1, <1>2, <1>3, <1>4, <1>6 DEF RecTypes
<1>8. SizeOk'
  BY <1>2, <1>3 DEF SizeOk, fsize
<1>9. PlaceOk'
  <2>1. next' = Len(values') + 1 /\ next' \in Nat /\ next' >= 1
    BY <1>3, <1>4, <1>6
  <2>2. fptr' = Begin(ends', Len(values') + 1)
    BY <1>3, <1>5 DEF Layout
  <2>3. kind = "program" => Len(values') <= 1 /\ Len(file') # 0
    <3>1. SUFFICES ASSUME kind = "program" PROVE Len(values') <= 1 /\ Len(file') # 0
      OBVIOUS
    <3>2. Len(file) = 0
      BY <1>1, <3>1, EmptySeq
    <3>3. Len(values) = 0
      BY <3>1, <3>2, ProgramFile
    <3>4. Laid(v) = Printed(v) /\ Len(Printed(v)) = Len(v) + 2 /\ Len(v) \in Nat
      BY <1>1, <3>1, LaidIs, ValueIs, PrintedIs DEF Data
    <3>5. Len(file') = Len(v) + 2
      BY <1>3, <3>2, <3>4 DEF fsize
    <3> QED BY <1>6, <3>3, <3>4, <3>5
  <2> QED BY <1>1, <1>2, <1>3, <1>4, <2>1, <2>2, <2>3 DEF PlaceOk, fsize
<1> QED BY <1>2, <1>5, <1>7, <1>8, <1>9 DEF RecInv

(* A record takes its place in a RELATIVE file. *)
LEMMA WriteRecordStep ==
  ASSUME Orderly, RecInv, Relative, NEW v \in Value, NEW record \in RecordNumbers, Write(v, record)
  PROVE  RecInv'
<1> DEFINE m == Numbered(values, record)
<1>1. /\ kind' = kind /\ kind \in Kinds /\ RecordHabits = {}
      /\ kind \notin {"display", "internal", "program", "raw"}
  BY DEF Write, Orderly, RecInv, RecTypes, Relative
<1>2. /\ Relative' = Relative /\ Value' = Value
      /\ LaidOut' <=> Layout(file', values', ends')
  BY <1>1, KindKept
<1>3. /\ file \in Data /\ values \in Seq(Value \cup {Nothing}) /\ ends \in Seq(Nat)
      /\ Len(values) \in Nat /\ Len(values) <= MaxValues /\ MaxValues \in Nat
  BY Constants DEF RecInv, RecTypes, SizeOk
<1>4. record \in Nat /\ record + 1 <= MaxValues
  BY RecordStarts
<1>5. m \in Nat /\ m <= MaxValues
  BY <1>3, <1>4 DEF Numbered
<1>6. /\ file' \in Data /\ PutIn(file, file', m, record, Laid(v))
      /\ Len(file') < Word /\ next' = Len(values) + 2 /\ ends' = ends
      /\ fptr' \in Nat /\ values' = Placed(values, m, record, v)
  BY WriteRecord
<1>7. Layout(file', values', ends')
  <2>1. Layout(file, values, ends)
    BY LaidOutIs DEF RecInv
  <2> QED BY <1>1, <1>3, <1>4, <1>5, <1>6, <2>1, LayoutRecord
<1>8. values' \in Seq(Value \cup {Nothing}) /\ Len(values') = m
  <2>1. \A i \in 1 .. m : (IF i = record + 1 THEN v ELSE IF i > Len(values) THEN Nothing ELSE values[i])
                            \in Value \cup {Nothing}
    BY <1>3, <1>5
  <2>2. values' \in [1 .. m -> Value \cup {Nothing}]
    BY <1>6, <2>1 DEF Placed
  <2> QED BY <1>5, <2>2, FunctionIsSeq
<1> HIDE DEF m
<1>9. RecTypes'
  <2>1. next' \in Nat
    BY <1>3, <1>6
  <2> QED BY <1>1, <1>2, <1>3, <1>6, <1>8, <2>1 DEF RecTypes
<1>10. SizeOk'
  BY <1>2, <1>5, <1>6, <1>8 DEF SizeOk, fsize
<1>11. PlaceOk'
  BY <1>1 DEF PlaceOk
<1> QED BY <1>2, <1>7, <1>9, <1>10, <1>11 DEF RecInv

LEMMA WriteStep ==
  ASSUME Orderly, RecInv, NEW v \in Value, NEW record \in RecordNumbers, Write(v, record)
  PROVE  RecInv' /\ answer'.op = "write"
<1>1. answer'.op = "write"
  BY DEF Write
<1> QED BY <1>1, WriteEndStep, WriteRecordStep

(* What a READ changes. *)
LEMMA ReadDoes ==
  ASSUME Orderly, RecInv, NEW record \in RecordNumbers, NEW buflen \in Buffers, Read(record, buflen),
         NEW r, r = Reading(record, Buflen)
  PROVE  /\ kind' = kind /\ values' = values /\ ends' = ends /\ file' = r.file /\ fptr' = r.fptr
         /\ answer'.op = "read"
         /\ kind = "program" => fptr = 0 \/ fptr = Len(file)
         /\ Relative => Buflen * record <= Len(file) \/ ~Writable
         /\ kind = "raw" => next' = Len(values) + 1 /\ answer'.fits = RawFits(r.data)
         /\ kind # "raw" =>
              LET i == IF Relative THEN record + 1 ELSE next IN
              IF i <= Len(values)
              THEN next' = i + 1 /\ answer'.fits = (r.rc = "SUCCESS" /\ r.data = Wanted(values[i]))
              ELSE next' = i /\ answer'.fits = (r.rc = "EOF")
<1>1. buflen = Buflen
  BY DEF Buffers, Orderly
<1>2. /\ kind' = kind /\ values' = values /\ ends' = ends /\ file' = r.file /\ fptr' = r.fptr
      /\ kind = "program" => fptr = 0 \/ fptr = Len(file)
  BY <1>1 DEF Read, fsize
<1>3. Relative => Buflen * record <= Len(file) \/ ~Writable
  BY DEF Read, Readable, Writable, Orderly, fsize
<1> DEFINE i == IF Relative THEN record + 1 ELSE next
<1>4. /\ next' = (IF kind = "raw" THEN Len(values) + 1 ELSE IF i <= Len(values) THEN i + 1 ELSE i)
      /\ answer' = [op |-> "read", rc |-> r.rc,
                    fits |-> IF kind = "raw" THEN RawFits(r.data)
                             ELSE IF i > Len(values) THEN r.rc = "EOF"
                             ELSE r.rc = "SUCCESS" /\ r.data = Wanted(values[i])]
  BY <1>1 DEF Read
<1>5. i > Len(values) <=> ~(i <= Len(values))
  <2>1. Len(values) \in Nat /\ next \in Nat /\ (Relative => record \in Nat)
    BY RecordStarts DEF RecInv, RecTypes
  <2> QED BY <2>1
<1>6. /\ answer'.op = "read"
      /\ kind = "raw" => answer'.fits = RawFits(r.data)
      /\ kind # "raw" /\ i <= Len(values) => answer'.fits = (r.rc = "SUCCESS" /\ r.data = Wanted(values[i]))
      /\ kind # "raw" /\ ~(i <= Len(values)) => answer'.fits = (r.rc = "EOF")
  <2> DEFINE ok == r.rc = "SUCCESS" /\ r.data = Wanted(values[i])
             eof == r.rc = "EOF"
             raw == RawFits(r.data)
             more == i <= Len(values)
  <2>1. answer' = [op |-> "read", rc |-> r.rc,
                   fits |-> IF kind = "raw" THEN raw ELSE IF ~more THEN eof ELSE ok]
    BY <1>4, <1>5
  <2> HIDE DEF ok, eof, raw, more
  <2>2. /\ answer'.op = "read"
        /\ kind = "raw" => answer'.fits = raw
        /\ kind # "raw" /\ more => answer'.fits = ok
        /\ kind # "raw" /\ ~more => answer'.fits = eof
    BY <2>1
  <2> QED BY <2>2 DEF ok, eof, raw, more
<1> QED BY <1>2, <1>3, <1>4, <1>6

(* A value that was written is what a READ should give, as it was printed. *)
LEMMA WantedIs ==
  ASSUME RecInv, ~Relative, NEW i \in 1 .. Len(values)
  PROVE  Wanted(values[i]) = Printed(values[i])
  BY DEF RecInv, RecTypes, Wanted, Relative

LEMMA ReadSequentialStep ==
  ASSUME Orderly, RecInv, kind \in {"display", "internal"},
         NEW record \in RecordNumbers, NEW buflen \in Buffers, Read(record, buflen)
  PROVE  RecInv' /\ answer'.op = "read" /\ answer'.fits
<1> DEFINE r == Reading(record, Buflen)
           n == Len(values)
<1>1. ~Relative /\ kind # "raw" /\ kind # "program"
  BY DEF Relative
<1>2. /\ kind' = kind /\ values' = values /\ ends' = ends /\ file' = r.file /\ fptr' = r.fptr
      /\ answer'.op = "read"
      /\ next <= n => next' = next + 1 /\ answer'.fits = (r.rc = "SUCCESS" /\ r.data = Wanted(values[next]))
      /\ ~(next <= n) => next' = next /\ answer'.fits = (r.rc = "EOF")
  BY <1>1, ReadDoes
<1>3. /\ n \in Nat /\ next \in Nat /\ next >= 1 /\ next <= n + 1 /\ fptr \in Nat
      /\ fptr = Begin(ends, next) /\ Len(file) < Word /\ Len(file) \in Nat
  BY DEF RecInv, RecTypes, SizeOk, PlaceOk, Begin, StartOf, fsize, Data
<1> HIDE DEF r, n
<1>4. CASE next <= n
  <2>1. r.file = file /\ r.rc = "SUCCESS" /\ r.data = Printed(values[next]) /\ r.fptr = StartOf(next + 1)
    BY <1>4, ReadDisplay, ReadInternal DEF r, n
  <2>2. next \in 1 .. n
    BY <1>3, <1>4
  <2>3. Wanted(values[next]) = Printed(values[next])
    BY <1>1, <2>2, WantedIs DEF n
  <2>4. StartOf(next + 1) \in Nat
    <3>1. StartOf(next) \in Nat /\ Len(Laid(values[next])) \in Nat
          /\ StartOf(next + 1) = StartOf(next) + Len(Laid(values[next]))
      BY <1>1, <2>2, InFile DEF n
    <3> QED BY <3>1
  <2>5. fptr' = Begin(ends, next') /\ fptr' \in Nat
    BY <1>2, <1>4, <2>1, <2>4 DEF Begin, StartOf
  <2>6. next' \in Nat /\ next' >= 1 /\ next' <= n + 1 /\ answer'.fits
    <3>1. next' = next + 1 /\ answer'.fits = (r.rc = "SUCCESS" /\ r.data = Wanted(values[next]))
      BY <1>2, <1>4
    <3>2. answer'.fits
      BY <2>1, <2>3, <3>1
    <3> QED BY <1>3, <1>4, <3>1, <3>2
  <2>7. file' = file
    BY <1>2, <2>1
  <2>8. RecInv'
    BY <1>1, <1>2, <2>5, <2>6, <2>7, Moved DEF n
  <2> QED BY <1>2, <2>6, <2>8
<1>5. CASE ~(next <= n)
  <2>1. next = n + 1
    BY <1>3, <1>5
  <2>2. fptr = Len(file)
    BY <1>3, <2>1, LaidOutIs DEF RecInv, Layout, n
  <2>3. r.file = file /\ r.rc = "EOF" /\ r.fptr = fptr
    <3>1. fptr >= Len(file) /\ fptr < Word
      BY <1>3, <2>2
    <3> QED BY <1>1, <3>1, ReadEnd DEF r
  <2>4. file' = file /\ fptr' = fptr /\ next' = next /\ answer'.fits
    BY <1>2, <1>5, <2>3
  <2>5. RecInv'
    <3>1. /\ kind' = kind /\ values' = values /\ ends' = ends /\ fptr' \in Nat /\ next' \in Nat
          /\ next' >= 1 /\ next' <= n + 1 /\ fptr' = Begin(ends, next')
      BY <1>2, <1>3, <2>4
    <3> QED BY <1>1, <2>4, <3>1, Moved DEF n
  <2> QED BY <1>2, <2>4, <2>5
<1> QED BY <1>4, <1>5

LEMMA ReadProgramStep ==
  ASSUME Orderly, RecInv, kind = "program",
         NEW record \in RecordNumbers, NEW buflen \in Buffers, Read(record, buflen)
  PROVE  RecInv' /\ answer'.op = "read" /\ answer'.fits
<1> DEFINE r == Reading(record, Buflen)
           n == Len(values)
           size == Len(file)
<1>1. ~Relative
  BY DEF Relative
<1>2. /\ kind' = kind /\ values' = values /\ ends' = ends /\ file' = r.file /\ fptr' = r.fptr
      /\ answer'.op = "read" /\ (fptr = 0 \/ fptr = size)
      /\ next <= n => next' = next + 1 /\ answer'.fits = (r.rc = "SUCCESS" /\ r.data = Wanted(values[next]))
      /\ ~(next <= n) => next' = next /\ answer'.fits = (r.rc = "EOF")
  BY <1>1, ReadDoes
<1>3. /\ n \in Nat /\ next \in Nat /\ fptr \in Nat /\ size < Word /\ size \in Nat
      /\ fptr = 0 => next = 1
      /\ fptr = size => next = n + 1
  BY DEF RecInv, RecTypes, SizeOk, PlaceOk, fsize, Data
<1>4. \/ n = 0 /\ size = 0
      \/ n = 1 /\ 2 <= size
  BY ProgramFile
<1> HIDE DEF r, n, size
<1>5. CASE fptr = size
  <2>1. r.file = file /\ r.rc = "EOF" /\ r.fptr = fptr
    <3>1. fptr >= Len(file) /\ fptr < Word
      BY <1>3, <1>5 DEF size
    <3> QED BY <1>1, <3>1, ReadEnd DEF r
  <2>2. ~(next <= n) /\ next = n + 1
    BY <1>3, <1>5
  <2>3. file' = file /\ fptr' = fptr /\ next' = next /\ answer'.fits
    BY <1>2, <2>1, <2>2
  <2>4. /\ fptr' \in Nat /\ next' \in Nat /\ next' >= 1 /\ next' <= n + 1 /\ fptr' <= size
        /\ fptr' = 0 => next' = 1
        /\ fptr' = size => next' = n + 1
    BY <1>3, <1>5, <2>2, <2>3
  <2>5. RecInv'
    <3>1. kind' = kind /\ values' = values /\ ends' = ends
      BY <1>2
    <3> QED BY <2>3, <2>4, <3>1, Moved DEF n, size
  <2> QED BY <1>2, <2>3, <2>5
<1>6. CASE fptr = 0 /\ n = 1 /\ 2 <= size
  <2>1. r.file = file /\ r.rc = "SUCCESS" /\ r.data = Printed(values[1]) /\ r.fptr = size
    BY <1>6, ReadProgram DEF r, n, size
  <2>2. next = 1 /\ Wanted(values[1]) = Printed(values[1])
    <3>1. next = 1 /\ 1 \in 1 .. n
      BY <1>3, <1>6
    <3> QED BY <1>1, <3>1, WantedIs DEF n
  <2>3. file' = file /\ fptr' = size /\ next' = 2 /\ answer'.fits
    <3>1. next <= n
      BY <1>6, <2>2
    <3>2. next' = next + 1 /\ answer'.fits = (r.rc = "SUCCESS" /\ r.data = Wanted(values[next]))
      BY <1>2, <3>1
    <3>3. answer'.fits
      BY <2>1, <2>2, <3>2
    <3> QED BY <1>2, <2>1, <2>2, <3>2, <3>3
  <2>4. /\ fptr' \in Nat /\ next' \in Nat /\ next' >= 1 /\ next' <= n + 1 /\ fptr' <= size
        /\ fptr' = 0 => next' = 1
        /\ fptr' = size => next' = n + 1
    BY <1>3, <1>6, <2>3
  <2>5. RecInv'
    <3>1. kind' = kind /\ values' = values /\ ends' = ends
      BY <1>2
    <3> QED BY <2>3, <2>4, <3>1, Moved DEF n, size
  <2> QED BY <1>2, <2>3, <2>5
<1> QED BY <1>2, <1>3, <1>4, <1>5, <1>6

(* A raw image gives bytes, whatever values they were written in. *)
LEMMA RawPieceFits ==
  ASSUME Orderly, RecInv, kind = "raw", fptr < Len(file),
         NEW to \in Nat, fptr < to, to <= Len(file),
         NEW d, d = SubSeq(file, fptr + 1, to)
  PROVE  RawFits(d)
<1>1. ~Relative /\ kind \in Kinds /\ RecordHabits = {} /\ fptr \in Nat /\ file \in Data /\ Len(file) \in Nat
  BY DEF Relative, RecInv, RecTypes, Orderly, Data
<1>2. Len(d) = to - fptr /\ \A k \in 1 .. to - fptr : d[k] = file[fptr + k]
  <2>1. /\ Len(d) = IF fptr + 1 <= to THEN to - (fptr + 1) + 1 ELSE 0
        /\ \A k \in 1 .. to - (fptr + 1) + 1 : d[k] = file[fptr + 1 + k - 1]
    <3>1. \A i \in fptr + 1 .. to : file[i] \in Int
      BY <1>1 DEF Data
    <3> QED BY <1>1, <3>1, SubSeqProperties
  <2>2. \A k \in 1 .. to - fptr : k \in 1 .. to - (fptr + 1) + 1 /\ fptr + 1 + k - 1 = fptr + k
    BY <1>1
  <2>3. Len(d) = to - fptr
    BY <1>1, <2>1
  <2> QED BY <2>1, <2>2, <2>3
<1>3. d # <<>>
  <2>1. Len(d) # 0
    BY <1>1, <1>2
  <2> QED BY <2>1, EmptySeq
<1>4. ASSUME NEW i \in 1 .. Len(values), NEW j \in 1 .. Len(values[i]),
             fptr < StartOf(i) + j, StartOf(i) + j <= fptr + Len(d)
      PROVE  d[(StartOf(i) + j) - fptr] = values[i][j]
  <2> DEFINE at == StartOf(i) + j
             v == values[i]
  <2>1. v \in Value /\ StartOf(i) \in Nat /\ Has(file, StartOf(i), Laid(v))
    BY <1>1, InFile
  <2>2. Laid(v) = v
    BY <1>1, <2>1, LaidIs, ValueIs, PrintedIs
  <2>3. Len(v) \in Nat /\ j \in Nat
    BY <2>1, ValueIs DEF Data
  <2>4. file[at] = v[j]
    BY <2>1, <2>2 DEF Has
  <2>5. at - fptr \in 1 .. to - fptr /\ fptr + (at - fptr) = at
    <3>1. StartOf(i) \in Nat
      BY <2>1
    <3>2. at \in Nat
      BY <2>3, <3>1
    <3>3. fptr < at /\ at <= fptr + Len(d) /\ Len(d) = to - fptr
      BY <1>2, <1>4
    <3> HIDE DEF at
    <3> QED BY ONLY <1>1, <3>2, <3>3, to \in Nat
  <2> HIDE DEF at, v
  <2>6. d[at - fptr] = v[j]
    BY <1>2, <2>4, <2>5
  <2> QED BY <2>6 DEF at, v
<1> QED BY <1>3, <1>4 DEF RawFits

LEMMA ReadRawStep ==
  ASSUME Orderly, RecInv, kind = "raw",
         NEW record \in RecordNumbers, NEW buflen \in Buffers, Read(record, buflen)
  PROVE  RecInv' /\ answer'.op = "read" /\ answer'.fits
<1> DEFINE r == Reading(record, Buflen)
           n == Len(values)
           size == Len(file)
<1>1. ~Relative
  BY DEF Relative
<1>2. /\ kind' = kind /\ values' = values /\ ends' = ends /\ file' = r.file /\ fptr' = r.fptr
      /\ answer'.op = "read" /\ next' = n + 1 /\ answer'.fits = RawFits(r.data)
  BY ReadDoes
<1>3. fptr \in Nat /\ size \in Nat /\ size < Word /\ fptr <= size /\ n \in Nat
  BY DEF RecInv, RecTypes, SizeOk, PlaceOk, fsize, Data
<1> HIDE DEF r, n, size
<1>4. r.file = file /\ r.fptr \in Nat /\ r.fptr <= size /\ RawFits(r.data)
  <2>1. CASE fptr < size
    <3>1. /\ r.file = file /\ r.fptr \in Nat /\ fptr < r.fptr /\ r.fptr <= size
          /\ r.data = SubSeq(file, fptr + 1, r.fptr)
      BY <2>1, ReadRaw DEF r, size
    <3>2. RawFits(r.data)
      BY <2>1, <3>1, RawPieceFits DEF size
    <3> QED BY <3>1, <3>2
  <2>2. CASE fptr = size
    <3>1. fptr >= Len(file) /\ fptr < Word
      BY <1>3, <2>2 DEF size
    <3>2. r.file = file /\ r.fptr = fptr /\ r.data = <<>>
      BY <1>1, <3>1, ReadEnd DEF r
    <3>3. ASSUME NEW at \in Int, fptr < at, at <= fptr + Len(<<>>) PROVE FALSE
      BY <1>3, <3>3, EmptySeq
    <3>4. \A i \in 1 .. n : \A j \in 1 .. Len(values[i]) : StartOf(i) + j \in Int
      <4>1. ASSUME NEW i \in 1 .. n, NEW j \in 1 .. Len(values[i]) PROVE StartOf(i) + j \in Int
        <5>1. StartOf(i) \in Nat
          BY <1>1, InFile DEF n
        <5> QED BY <5>1
      <4> QED BY <4>1
    <3>5. RawFits(<<>>)
      BY <2>2, <3>3, <3>4 DEF RawFits, fsize, size, n
    <3> QED BY <1>3, <2>2, <3>2, <3>5
  <2> QED BY <1>3, <2>1, <2>2
<1>5. RecInv'
  <2>1. file' = file /\ fptr' \in Nat /\ fptr' <= size /\ next' \in Nat
    BY <1>2, <1>3, <1>4
  <2>2. kind' = kind /\ values' = values /\ ends' = ends
    BY <1>2
  <2> QED BY <2>1, <2>2, Moved DEF size
<1> QED BY <1>2, <1>4, <1>5

LEMMA ReadRecordStep ==
  ASSUME Orderly, RecInv, Relative,
         NEW record \in RecordNumbers, NEW buflen \in Buffers, Read(record, buflen)
  PROVE  RecInv' /\ answer'.op = "read" /\ answer'.fits
<1> DEFINE r == Reading(record, Buflen)
           n == Len(values)
<1>1. kind \notin {"display", "internal", "program", "raw"} /\ kind # "raw"
  BY DEF Relative
<1>2. /\ kind' = kind /\ values' = values /\ ends' = ends /\ file' = r.file /\ fptr' = r.fptr
      /\ answer'.op = "read" /\ (Buflen * record <= Len(file) \/ ~Writable)
      /\ record + 1 <= n => /\ next' = record + 2
                            /\ answer'.fits = (r.rc = "SUCCESS" /\ r.data = Wanted(values[record + 1]))
      /\ ~(record + 1 <= n) => next' = record + 1 /\ answer'.fits = (r.rc = "EOF")
  <2>1. record \in Nat /\ record + 1 + 1 = record + 2
    BY RecordStarts
  <2> QED BY <1>1, <2>1, ReadDoes
<1>3. record \in Nat /\ n \in Nat
  BY RecordStarts DEF RecInv, RecTypes
<1> HIDE DEF r, n
<1>4. r.file = file /\ r.fptr \in Nat /\ next' \in Nat /\ answer'.fits
  <2>1. CASE record + 1 <= n
    <3>1. r.file = file /\ r.rc = "SUCCESS" /\ r.data = Wanted(values[record + 1]) /\ r.fptr \in Nat
      BY <2>1, ReadRecord DEF r, n
    <3>2. next' = record + 2 /\ answer'.fits = (r.rc = "SUCCESS" /\ r.data = Wanted(values[record + 1]))
      BY <1>2, <2>1
    <3>3. answer'.fits
      BY <3>1, <3>2
    <3> QED BY <1>3, <3>1, <3>2, <3>3
  <2>2. CASE ~(record + 1 <= n)
    <3>1. record + 1 > Len(values) /\ (Buflen * record <= Len(file) \/ ~Writable)
      BY <1>2, <1>3, <2>2 DEF n
    <3>2. r.file = file /\ r.rc = "EOF" /\ r.fptr \in Nat
      BY <3>1, RecordMissing DEF r
    <3>3. next' = record + 1 /\ answer'.fits = (r.rc = "EOF")
      BY <1>2, <2>2
    <3>4. answer'.fits
      BY <3>2, <3>3
    <3> QED BY <1>3, <3>2, <3>3, <3>4
  <2> QED BY <2>1, <2>2
<1>5. RecInv'
  <2>1. /\ kind' = kind /\ file' = file /\ values' = values /\ ends' = ends
        /\ fptr' \in Nat /\ next' \in Nat
    BY <1>2, <1>4
  <2> QED BY <1>1, <2>1, Moved
<1> QED BY <1>2, <1>4, <1>5

LEMMA ReadStep ==
  ASSUME Orderly, RecInv, NEW record \in RecordNumbers, NEW buflen \in Buffers, Read(record, buflen)
  PROVE  RecInv' /\ answer'.op = "read" /\ answer'.fits
<1>1. kind \in {"display", "internal"} \/ kind = "program" \/ kind = "raw" \/ Relative
  BY DEF RecInv, RecTypes, Kinds, Relative
<1> QED BY <1>1, ReadSequentialStep, ReadProgramStep, ReadRawStep, ReadRecordStep

-----------------------------------------------------------------------------
(* VERIFY. *)
LEMMA VerifyingIs ==
  ASSUME NEW data \in Data, file \in Data, fptr = 0
  PROVE  /\ (Verifying(data).rc = "SUCCESS") = (data = file)
         /\ Verifying(data).at \in Nat /\ Verifying(data).at <= fsize
<1>1. CASE Len(data) # fsize
  <2>1. Verifying(data) = [rc |-> "BUF_SIZE_ERR", at |-> fptr]
    BY <1>1 DEF Verifying
  <2>2. Verifying(data).rc # "SUCCESS" /\ Verifying(data).at = 0
    BY <2>1
  <2>3. data # file
    BY <1>1 DEF fsize
  <2>4. fsize \in Nat
    BY DEF fsize, Data
  <2> QED BY <2>2, <2>3, <2>4
<1>2. CASE Len(data) = fsize
  <2>1. Verifying(data) = Compare(data, 0)
    BY <1>2 DEF Verifying
  <2> QED BY <1>2, <2>1, CompareIs
<1> QED BY <1>1, <1>2

LEMMA VerifyStep ==
  ASSUME Orderly, RecInv, NEW v \in Value, Verify(v)
  PROVE  RecInv' /\ answer'.op = "verify" /\ answer'.fits
<1> DEFINE data == Printed(v)
           r == Verifying(data)
           n == Len(values)
           size == Len(file)
<1>1. /\ kind = "program" /\ kind' = kind /\ file' = file /\ values' = values /\ ends' = ends
      /\ fptr = 0 /\ fptr' = r.at /\ next' = (IF r.at = 0 THEN next ELSE n + 1)
  BY DEF Verify
<1>2. answer' = [op |-> "verify", rc |-> r.rc, fits |-> (r.rc = "SUCCESS") = (data = file)]
  BY DEF Verify
<1>3. data \in Data /\ file \in Data
  BY ValueIs, PrintedIs DEF RecInv, RecTypes
<1>4. (r.rc = "SUCCESS") = (data = file) /\ r.at \in Nat /\ r.at <= size
  BY <1>1, <1>3, VerifyingIs DEF fsize
<1>5. next = 1 /\ n \in Nat /\ size \in Nat /\ (size = 0 => n = 0)
  <2>1. next = 1
    BY <1>1 DEF RecInv, PlaceOk
  <2>2. n \in Nat /\ size \in Nat
    BY DEF RecInv, RecTypes, Data
  <2>3. size = 0 => n = 0
    BY <1>1, ProgramFile
  <2> QED BY <2>1, <2>2, <2>3
<1>6. answer'.op = "verify" /\ answer'.fits = ((r.rc = "SUCCESS") = (data = file))
  <2> DEFINE same == (r.rc = "SUCCESS") = (data = file)
  <2>1. answer' = [op |-> "verify", rc |-> r.rc, fits |-> same]
    BY <1>2
  <2> HIDE DEF same
  <2>2. answer'.op = "verify" /\ answer'.fits = same
    BY <2>1
  <2> QED BY <2>2 DEF same
<1> HIDE DEF r, data, n, size
<1>7. answer'.fits
  BY <1>4, <1>6
<1>8. /\ fptr' \in Nat /\ next' \in Nat /\ next' >= 1 /\ next' <= n + 1 /\ fptr' <= size
      /\ fptr' = 0 => next' = 1
      /\ fptr' = size => next' = n + 1
  BY <1>1, <1>4, <1>5
<1>9. RecInv'
  BY <1>1, <1>8, Moved DEF n, size
<1> QED BY <1>6, <1>7, <1>9

-----------------------------------------------------------------------------
(* The commands together. *)
LEMMA NextKeeps ==
  ASSUME Orderly, RecInv, [RecordsNext]_recordVars
  PROVE  RecInv'
<1>1. CASE \E m \in {"read", "write", "append", "update"} : Open(m)
  BY <1>1, OpenStep
<1>2. CASE Close \/ UNCHANGED recordVars
  BY <1>2, CloseStep
<1>3. CASE \E v \in Value, record \in RecordNumbers : Write(v, record)
  BY <1>3, WriteStep
<1>4. CASE \E record \in RecordNumbers, buflen \in Buffers : Read(record, buflen)
  BY <1>4, ReadStep
<1>5. CASE Restore
  BY <1>5, RestoreStep
<1>6. CASE \E v \in Value : Verify(v)
  BY <1>6, VerifyStep
<1> QED BY <1>1, <1>2, <1>3, <1>4, <1>5, <1>6 DEF RecordsNext

LEMMA NextAnswers ==
  ASSUME Orderly, RecInv, [RecordsNext]_recordVars, ReadsValues, VerifyTells
  PROVE  ReadsValues' /\ VerifyTells'
<1>1. CASE \E m \in {"read", "write", "append", "update"} : Open(m)
  <2>1. answer'.op = "open"
    BY <1>1, OpenStep
  <2> QED BY <2>1 DEF ReadsValues, VerifyTells
<1>2. CASE Close
  <2>1. answer'.op = "close"
    BY <1>2 DEF Close
  <2> QED BY <2>1 DEF ReadsValues, VerifyTells
<1>3. CASE \E v \in Value, record \in RecordNumbers : Write(v, record)
  <2>1. answer'.op = "write"
    BY <1>3, WriteStep
  <2> QED BY <2>1 DEF ReadsValues, VerifyTells
<1>4. CASE \E record \in RecordNumbers, buflen \in Buffers : Read(record, buflen)
  <2>1. answer'.op = "read" /\ answer'.fits
    BY <1>4, ReadStep
  <2> QED BY <2>1 DEF ReadsValues, VerifyTells
<1>5. CASE Restore
  <2>1. answer'.op = "restore"
    BY <1>5, RestoreStep
  <2> QED BY <2>1 DEF ReadsValues, VerifyTells
<1>6. CASE \E v \in Value : Verify(v)
  <2>1. answer'.op = "verify" /\ answer'.fits
    BY <1>6, VerifyStep
  <2> QED BY <2>1 DEF ReadsValues, VerifyTells
<1>7. CASE UNCHANGED recordVars
  <2>1. answer' = answer
    BY <1>7 DEF recordVars
  <2> QED BY <2>1 DEF ReadsValues, VerifyTells
<1> QED BY <1>1, <1>2, <1>3, <1>4, <1>5, <1>6, <1>7 DEF RecordsNext

LEMMA RecordsInvariant == ASSUME Orderly PROVE RecordsSpec => []RecInv
<1>1. RecordsInit => RecInv
  BY InitRecords
<1>2. RecInv /\ [RecordsNext]_recordVars => RecInv'
  BY NextKeeps
<1> QED BY <1>1, <1>2, PTL DEF RecordsSpec

(* However long a host writes values to a file, closes it, opens it again to add  *)
(* to it or to update it, reads and rewinds it, the file is what drv_write() was  *)
(* given: the values one after the other, each as it was printed, with its line  *)
(* end or its length, or each in its own record, filled with zeros.              *)
THEOREM FilesLaidOut == ASSUME Orderly PROVE RecordsSpec => []LaidOut
<1>1. RecInv => LaidOut
  BY DEF RecInv
<1> QED BY <1>1, RecordsInvariant, PTL

(* drv_read() gives a host that reads on the values it wrote, each whole and in   *)
(* its turn, and EOF after the last; the record it asks for, zeros if that was   *)
(* skipped; and of a raw image the bytes at its position.                         *)
THEOREM ReadsFind == ASSUME Orderly PROVE RecordsSpec => []ReadsValues
<1>1. RecordsInit => ReadsValues /\ VerifyTells
  BY DEF RecordsInit, ReadsValues, VerifyTells
<1>2. RecInv /\ ReadsValues /\ VerifyTells /\ [RecordsNext]_recordVars => ReadsValues' /\ VerifyTells'
  BY NextAnswers
<1> QED BY <1>1, <1>2, RecordsInvariant, PTL DEF RecordsSpec

(* drv_verify(), which compares a program with the file BUFSIZE / 2 bytes at a    *)
(* time and stops at the first piece that differs, finds them equal when they      *)
(* are and only then, however long both are.                                      *)
THEOREM VerifiesTell == ASSUME Orderly PROVE RecordsSpec => []VerifyTells
<1>1. RecordsInit => ReadsValues /\ VerifyTells
  BY DEF RecordsInit, ReadsValues, VerifyTells
<1>2. RecInv /\ ReadsValues /\ VerifyTells /\ [RecordsNext]_recordVars => ReadsValues' /\ VerifyTells'
  BY NextAnswers
<1> QED BY <1>1, <1>2, RecordsInvariant, PTL DEF RecordsSpec

-----------------------------------------------------------------------------
(* Listing.  Names and patterns of any length.                                   *)
Strings == Seq(Nat)

(* What a call of wild_cmp() does with the answers of the calls it makes.               *)
Step(p, s, rest, x) ==
  LET i == x[1]   j == x[2] IN
  \/ i = Len(p) /\ j = Len(s)
  \/ /\ i < Len(p) /\ j < Len(s) /\ p[i + 1] \in {AnyOne, s[j + 1]}
     /\ rest[<<i + 1, j + 1>>]
  \/ /\ i < Len(p) /\ p[i + 1] = AnyRun
     /\ rest[<<i + 1, j>>] \/ (j < Len(s) /\ rest[<<i, j + 1>>])

(* What is left of both; the answers of all calls, as wild_cmp() defines them.          *)
Rank(p, s, x) == (Len(p) - x[1]) + (Len(s) - x[2])

Rest(p, s) == CHOOSE rest : rest = [x \in Places(p, s) |-> Step(p, s, rest, x)]

LEMMA WildIsRest ==
  ASSUME NEW p, NEW s
  PROVE  wild_cmp(p, s) <=> Rest(p, s)[<<0, 0>>]
  BY DEF wild_cmp, Step, Rest

(* The places that a call asks for have fewer letters left. *)
LEMMA NextPlaces ==
  ASSUME NEW p \in Strings, NEW s \in Strings, NEW i \in 0 .. Len(p), NEW j \in 0 .. Len(s)
  PROVE  /\ <<i, j>> \in Places(p, s) /\ Rank(p, s, <<i, j>>) \in Nat
         /\ Rank(p, s, <<i, j>>) <= Len(p) + Len(s)
         /\ i < Len(p) => <<i + 1, j>> \in Places(p, s) /\ Rank(p, s, <<i + 1, j>>) < Rank(p, s, <<i, j>>)
         /\ j < Len(s) => <<i, j + 1>> \in Places(p, s) /\ Rank(p, s, <<i, j + 1>>) < Rank(p, s, <<i, j>>)
         /\ i < Len(p) /\ j < Len(s) => <<i + 1, j + 1>> \in Places(p, s)
                                        /\ Rank(p, s, <<i + 1, j + 1>>) < Rank(p, s, <<i, j>>)
<1>1. Len(p) \in Nat /\ Len(s) \in Nat /\ i \in Nat /\ j \in Nat /\ i <= Len(p) /\ j <= Len(s)
  BY DEF Strings
<1>2. \A a, b : Rank(p, s, <<a, b>>) = (Len(p) - a) + (Len(s) - b)
  BY DEF Rank
<1>3. \A a \in 0 .. Len(p), b \in 0 .. Len(s) : <<a, b>> \in Places(p, s)
  BY DEF Places
<1>4. /\ i < Len(p) => i + 1 \in 0 .. Len(p)
      /\ j < Len(s) => j + 1 \in 0 .. Len(s)
  BY <1>1
<1>5. /\ Rank(p, s, <<i, j>>) \in Nat /\ Rank(p, s, <<i, j>>) <= Len(p) + Len(s)
      /\ Rank(p, s, <<i + 1, j>>) < Rank(p, s, <<i, j>>)
      /\ Rank(p, s, <<i, j + 1>>) < Rank(p, s, <<i, j>>)
      /\ Rank(p, s, <<i + 1, j + 1>>) < Rank(p, s, <<i, j>>)
  <2>1. PICK m, n : m = Len(p) /\ n = Len(s)
    OBVIOUS
  <2>2. /\ Rank(p, s, <<i, j>>) = (m - i) + (n - j)
        /\ Rank(p, s, <<i + 1, j>>) = (m - (i + 1)) + (n - j)
        /\ Rank(p, s, <<i, j + 1>>) = (m - i) + (n - (j + 1))
        /\ Rank(p, s, <<i + 1, j + 1>>) = (m - (i + 1)) + (n - (j + 1))
    BY <1>2, <2>1
  <2>3. m \in Nat /\ n \in Nat /\ i \in Nat /\ j \in Nat /\ i <= m /\ j <= n
    BY <1>1, <2>1
  <2> QED BY <2>1, <2>2, <2>3
<1>6. /\ <<i, j>> \in Places(p, s)
      /\ i < Len(p) => <<i + 1, j>> \in Places(p, s)
      /\ j < Len(s) => <<i, j + 1>> \in Places(p, s)
      /\ i < Len(p) /\ j < Len(s) => <<i + 1, j + 1>> \in Places(p, s)
  BY <1>3, <1>4
<1> QED BY <1>5, <1>6

LEMMA InPlaces ==
  ASSUME NEW p, NEW s, NEW x \in Places(p, s)
  PROVE  x[1] \in 0 .. Len(p) /\ x[2] \in 0 .. Len(s) /\ x = <<x[1], x[2]>>
  BY DEF Places

LEMMA RankIs ==
  ASSUME NEW p \in Strings, NEW s \in Strings, NEW x \in Places(p, s)
  PROVE  Rank(p, s, x) \in Nat /\ Rank(p, s, x) <= Len(p) + Len(s)
<1>1. PICK i \in 0 .. Len(p), j \in 0 .. Len(s) : x = <<i, j>>
  BY InPlaces
<1> QED BY <1>1, NextPlaces

(* A step depends on places further on only. *)
LEMMA StepSame ==
  ASSUME NEW p \in Strings, NEW s \in Strings, NEW x \in Places(p, s), NEW f, NEW g,
         \A y \in Places(p, s) : Rank(p, s, y) < Rank(p, s, x) => (f[y] <=> g[y])
  PROVE  Step(p, s, f, x) <=> Step(p, s, g, x)
<1>1. PICK i, j : i = x[1] /\ j = x[2]
  OBVIOUS
<1>2. i \in 0 .. Len(p) /\ j \in 0 .. Len(s) /\ x = <<i, j>>
  BY <1>1, InPlaces
<1>3. /\ i < Len(p) => (f[<<i + 1, j>>] <=> g[<<i + 1, j>>])
      /\ j < Len(s) => (f[<<i, j + 1>>] <=> g[<<i, j + 1>>])
      /\ i < Len(p) /\ j < Len(s) => (f[<<i + 1, j + 1>>] <=> g[<<i + 1, j + 1>>])
  BY <1>2, NextPlaces
<1>4. /\ Step(p, s, f, x) <=>
           \/ i = Len(p) /\ j = Len(s)
           \/ i < Len(p) /\ j < Len(s) /\ p[i + 1] \in {AnyOne, s[j + 1]} /\ f[<<i + 1, j + 1>>]
           \/ i < Len(p) /\ p[i + 1] = AnyRun /\ (f[<<i + 1, j>>] \/ (j < Len(s) /\ f[<<i, j + 1>>]))
      /\ Step(p, s, g, x) <=>
           \/ i = Len(p) /\ j = Len(s)
           \/ i < Len(p) /\ j < Len(s) /\ p[i + 1] \in {AnyOne, s[j + 1]} /\ g[<<i + 1, j + 1>>]
           \/ i < Len(p) /\ p[i + 1] = AnyRun /\ (g[<<i + 1, j>>] \/ (j < Len(s) /\ g[<<i, j + 1>>]))
  BY <1>1 DEF Step
<1> QED BY <1>3, <1>4, Zenon

(* The calls end: there are answers for all places, by the number of letters left.  *)
Answers(p, s, n, f) ==
  /\ f \in [Places(p, s) -> BOOLEAN]
  /\ \A x \in Places(p, s) : Rank(p, s, x) < n => (f[x] <=> Step(p, s, f, x))

LEMMA MoreAnswers ==
  ASSUME NEW p \in Strings, NEW s \in Strings, NEW n \in Nat, NEW f, Answers(p, s, n, f)
  PROVE  \E g : Answers(p, s, n + 1, g)
<1> DEFINE D == Places(p, s)
           g == [x \in D |-> IF Rank(p, s, x) < n THEN f[x] ELSE Step(p, s, f, x)]
<1>1. \A x \in D : Rank(p, s, x) \in Nat
  BY RankIs
<1>2. \A x \in D : f[x] \in BOOLEAN /\ Step(p, s, f, x) \in BOOLEAN
  BY DEF Answers, Step
<1>3. g \in [D -> BOOLEAN]
  BY <1>2
<1>4. /\ \A x \in D : Rank(p, s, x) < n => (g[x] <=> f[x])
      /\ \A x \in D : ~(Rank(p, s, x) < n) => (g[x] <=> Step(p, s, f, x))
  BY <1>2
<1> HIDE DEF g
<1>5. ASSUME NEW x \in D, Rank(p, s, x) < n + 1
      PROVE  g[x] <=> Step(p, s, g, x)
  <2>1. \A y \in D : Rank(p, s, y) < Rank(p, s, x) => Rank(p, s, y) < n
    BY <1>1, <1>5
  <2>2. \A y \in D : Rank(p, s, y) < Rank(p, s, x) => (g[y] <=> f[y])
    BY <1>4, <2>1
  <2>3. Step(p, s, g, x) <=> Step(p, s, f, x)
    BY <2>2, StepSame
  <2>4. g[x] <=> Step(p, s, f, x)
    BY <1>4 DEF Answers
  <2> QED BY <2>3, <2>4
<1> QED BY <1>3, <1>5 DEF Answers

LEMMA AllAnswers ==
  ASSUME NEW p \in Strings, NEW s \in Strings
  PROVE  \E f : Answers(p, s, Len(p) + Len(s) + 1, f)
<1> DEFINE Failing == {n \in Nat : ~ \E f : Answers(p, s, n, f)}
<1>1. Len(p) + Len(s) + 1 \in Nat
  BY DEF Strings
<1>2. SUFFICES ASSUME Failing # {} PROVE FALSE
  BY <1>1
<1>3. PICK n \in Failing : \A m \in Failing : n <= m
  BY <1>2, Least
<1>4. CASE n = 0
  <2>1. [x \in Places(p, s) |-> TRUE] \in [Places(p, s) -> BOOLEAN]
    OBVIOUS
  <2>2. \A x \in Places(p, s) : ~(Rank(p, s, x) < 0)
    <3>1. \A x \in Places(p, s) : Rank(p, s, x) \in Nat
      BY RankIs
    <3> QED BY <3>1
  <2>3. Answers(p, s, 0, [x \in Places(p, s) |-> TRUE])
    BY <2>1, <2>2 DEF Answers
  <2> QED BY <1>3, <1>4, <2>3
<1>5. CASE n # 0
  <2>1. n - 1 \in Nat /\ n - 1 < n /\ n - 1 + 1 = n
    BY <1>3, <1>5
  <2>2. PICK f : Answers(p, s, n - 1, f)
    BY <1>3, <2>1
  <2>3. \E g : Answers(p, s, (n - 1) + 1, g)
    BY <2>1, <2>2, MoreAnswers
  <2> QED BY <1>3, <2>1, <2>3
<1> QED BY <1>4, <1>5

LEMMA RestIs ==
  ASSUME NEW p \in Strings, NEW s \in Strings
  PROVE  \A x \in Places(p, s) : Rest(p, s)[x] <=> Step(p, s, Rest(p, s), x)
<1>1. PICK f : Answers(p, s, Len(p) + Len(s) + 1, f)
  BY AllAnswers
<1>2. \A x \in Places(p, s) : Rank(p, s, x) < Len(p) + Len(s) + 1
  <2>1. \A x \in Places(p, s) : Rank(p, s, x) \in Nat /\ Rank(p, s, x) <= Len(p) + Len(s)
    BY RankIs
  <2> QED BY <2>1 DEF Strings
<1>3. ASSUME NEW x \in Places(p, s) PROVE f[x] = Step(p, s, f, x)
  <2>1. f[x] <=> Step(p, s, f, x)
    BY <1>1, <1>2 DEF Answers
  <2>2. f[x] \in BOOLEAN /\ Step(p, s, f, x) \in BOOLEAN
    BY <1>1 DEF Answers, Step
  <2> QED BY <2>1, <2>2
<1>4. f = [x \in Places(p, s) |-> Step(p, s, f, x)]
  BY <1>1, <1>3 DEF Answers
<1>5. Rest(p, s) = [x \in Places(p, s) |-> Step(p, s, Rest(p, s), x)]
  BY <1>4 DEF Rest
<1> QED BY <1>5

(* A cutting of what is left of s into what is left of p, as Matches() asks for all of it. *)
Cuts(p, s, i, j, cut) ==
  /\ cut \in [i .. Len(p) -> 0 .. Len(s)] /\ cut[i] = j /\ cut[Len(p)] = Len(s)
  /\ \A k \in i + 1 .. Len(p) :
       /\ cut[k - 1] <= cut[k]
       /\ p[k] # AnyRun => cut[k] = cut[k - 1] + 1 /\ p[k] \in {AnyOne, s[cut[k]]}

(* One place more in front of a cutting. *)
LEMMA CutBefore ==
  ASSUME NEW p \in Strings, NEW s \in Strings, NEW i \in 0 .. Len(p), NEW j \in 0 .. Len(s), i < Len(p),
         NEW m \in 0 .. Len(s), j <= m, NEW c, Cuts(p, s, i + 1, m, c),
         p[i + 1] # AnyRun => m = j + 1 /\ p[i + 1] \in {AnyOne, s[m]}
  PROVE  \E cut : Cuts(p, s, i, j, cut)
<1> DEFINE cut == [k \in i .. Len(p) |-> IF k = i THEN j ELSE c[k]]
<1>1. Len(p) \in Nat /\ Len(s) \in Nat /\ i \in Nat /\ Len(p) \in i .. Len(p) /\ Len(p) # i /\ i \in i .. Len(p)
  BY DEF Strings
<1>2. \A k \in i .. Len(p) : k # i => k \in i + 1 .. Len(p)
  BY <1>1
<1>3. cut \in [i .. Len(p) -> 0 .. Len(s)]
  BY <1>2 DEF Cuts
<1>4. cut[i] = j /\ \A k \in i .. Len(p) : k # i => cut[k] = c[k]
  BY <1>1
<1> HIDE DEF cut
<1>5. cut[Len(p)] = Len(s)
  BY <1>1, <1>4 DEF Cuts
<1>6. ASSUME NEW k \in i + 1 .. Len(p)
      PROVE  /\ cut[k - 1] <= cut[k]
             /\ p[k] # AnyRun => cut[k] = cut[k - 1] + 1 /\ p[k] \in {AnyOne, s[cut[k]]}
  <2>1. k \in i .. Len(p) /\ k # i /\ cut[k] = c[k]
    BY <1>1, <1>4
  <2>2. CASE k = i + 1
    <3>1. cut[k - 1] = j /\ c[k] = m
      BY <1>1, <1>4, <2>2 DEF Cuts
    <3> QED BY <2>1, <2>2, <3>1
  <2>3. CASE k # i + 1
    <3>1. k - 1 \in i .. Len(p) /\ k - 1 # i /\ k \in i + 1 + 1 .. Len(p)
      BY <1>1, <2>3
    <3>2. cut[k - 1] = c[k - 1]
      BY <1>4, <3>1
    <3>3. /\ c[k - 1] <= c[k]
          /\ p[k] # AnyRun => c[k] = c[k - 1] + 1 /\ p[k] \in {AnyOne, s[c[k]]}
      BY <3>1 DEF Cuts
    <3> QED BY <2>1, <3>2, <3>3
  <2> QED BY <2>2, <2>3
<1>7. Cuts(p, s, i, j, cut)
  BY <1>3, <1>4, <1>5, <1>6 DEF Cuts
<1> QED BY <1>7

(* And without its first place. *)
LEMMA CutAfter ==
  ASSUME NEW p \in Strings, NEW s \in Strings, NEW i \in 0 .. Len(p), NEW j \in 0 .. Len(s), i < Len(p),
         NEW c, Cuts(p, s, i, j, c)
  PROVE  /\ c[i + 1] \in 0 .. Len(s) /\ j <= c[i + 1]
         /\ p[i + 1] # AnyRun => c[i + 1] = j + 1 /\ p[i + 1] \in {AnyOne, s[j + 1]}
         /\ \E cut : Cuts(p, s, i + 1, c[i + 1], cut)
<1>1. Len(p) \in Nat /\ i \in Nat /\ i + 1 \in i + 1 .. Len(p) /\ i + 1 \in i .. Len(p) /\ (i + 1) - 1 = i
  BY DEF Strings
<1>2. c[i] = j /\ c[i + 1] \in 0 .. Len(s)
  BY <1>1 DEF Cuts
<1>3. c[(i + 1) - 1] <= c[i + 1]
      /\ (p[i + 1] # AnyRun => c[i + 1] = c[(i + 1) - 1] + 1 /\ p[i + 1] \in {AnyOne, s[c[i + 1]]})
  BY <1>1 DEF Cuts
<1>4. c[(i + 1) - 1] = j
  BY <1>1, <1>2
<1> DEFINE d == [k \in i + 1 .. Len(p) |-> c[k]]
<1>5. /\ Len(p) \in i + 1 .. Len(p)
      /\ \A k \in i + 1 .. Len(p) : k \in i .. Len(p)
  BY <1>1
<1>6. d \in [i + 1 .. Len(p) -> 0 .. Len(s)] /\ \A k \in i + 1 .. Len(p) : d[k] = c[k]
  BY <1>5 DEF Cuts
<1> HIDE DEF d
<1>7. ASSUME NEW k \in i + 1 + 1 .. Len(p)
      PROVE  /\ d[k - 1] <= d[k]
             /\ p[k] # AnyRun => d[k] = d[k - 1] + 1 /\ p[k] \in {AnyOne, s[d[k]]}
  <2>1. k \in i + 1 .. Len(p) /\ k - 1 \in i + 1 .. Len(p)
    BY <1>1
  <2>2. d[k] = c[k] /\ d[k - 1] = c[k - 1]
    BY <1>6, <2>1
  <2>3. /\ c[k - 1] <= c[k]
        /\ p[k] # AnyRun => c[k] = c[k - 1] + 1 /\ p[k] \in {AnyOne, s[c[k]]}
    BY <2>1 DEF Cuts
  <2> QED BY <2>2, <2>3
<1>8. d[i + 1] = c[i + 1] /\ d[Len(p)] = Len(s)
  BY <1>1, <1>5, <1>6 DEF Cuts
<1>9. Cuts(p, s, i + 1, c[i + 1], d)
  BY <1>6, <1>7, <1>8 DEF Cuts
<1> QED BY <1>2, <1>3, <1>4, <1>9

(* A run that takes one letter more. *)
LEMMA CutLonger ==
  ASSUME NEW p \in Strings, NEW s \in Strings, NEW i \in 0 .. Len(p), NEW j \in 0 .. Len(s), i < Len(p),
         p[i + 1] = AnyRun, j < Len(s), NEW c, Cuts(p, s, i, j + 1, c)
  PROVE  \E cut : Cuts(p, s, i, j, cut)
<1>1. PICK m : m = c[i + 1]
  OBVIOUS
<1>2. j \in Nat /\ Len(s) \in Nat /\ j + 1 \in 0 .. Len(s)
  BY DEF Strings
<1>3. m \in 0 .. Len(s) /\ j + 1 <= m
  BY <1>1, <1>2, CutAfter
<1>4. PICK d : Cuts(p, s, i + 1, m, d)
  BY <1>1, <1>2, CutAfter
<1>5. j <= m
  BY <1>2, <1>3
<1> QED BY <1>3, <1>4, <1>5, CutBefore

(* Nothing is left of both. *)
LEMMA CutEnd ==
  ASSUME NEW p \in Strings, NEW s \in Strings, NEW j \in 0 .. Len(s)
  PROVE  (\E cut : Cuts(p, s, Len(p), j, cut)) <=> j = Len(s)
<1>1. Len(p) \in Nat /\ Len(s) \in Nat /\ Len(p) .. Len(p) = {Len(p)} /\ Len(p) + 1 .. Len(p) = {}
  BY DEF Strings
<1>2. ASSUME j = Len(s) PROVE Cuts(p, s, Len(p), j, [k \in Len(p) .. Len(p) |-> Len(s)])
  BY <1>1, <1>2 DEF Cuts
<1>3. ASSUME NEW cut, Cuts(p, s, Len(p), j, cut) PROVE j = Len(s)
  BY <1>3 DEF Cuts
<1> QED BY <1>2, <1>3

Cuttable(p, s, i, j) == \E cut : Cuts(p, s, i, j, cut)

(* There is a cutting just when a step finds one further on. *)
LEMMA CuttableIs ==
  ASSUME NEW p \in Strings, NEW s \in Strings, NEW i \in 0 .. Len(p), NEW j \in 0 .. Len(s)
  PROVE  Cuttable(p, s, i, j) <=>
           \/ i = Len(p) /\ j = Len(s)
           \/ i < Len(p) /\ j < Len(s) /\ p[i + 1] \in {AnyOne, s[j + 1]} /\ Cuttable(p, s, i + 1, j + 1)
           \/ i < Len(p) /\ p[i + 1] = AnyRun /\ (Cuttable(p, s, i + 1, j) \/ (j < Len(s) /\ Cuttable(p, s, i, j + 1)))
<1>1. Len(p) \in Nat /\ Len(s) \in Nat /\ i \in Nat /\ j \in Nat /\ i <= Len(p) /\ j <= Len(s)
  BY DEF Strings
<1>2. CASE i = Len(p)
  <2>1. Cuttable(p, s, i, j) <=> j = Len(s)
    BY <1>2, CutEnd DEF Cuttable
  <2> QED BY <1>1, <1>2, <2>1
<1>3. CASE i < Len(p)
  <2>1. ASSUME j < Len(s), p[i + 1] \in {AnyOne, s[j + 1]}, Cuttable(p, s, i + 1, j + 1)
        PROVE  Cuttable(p, s, i, j)
    <3>1. j + 1 \in 0 .. Len(s) /\ j <= j + 1
      BY <1>1, <2>1
    <3> QED BY <1>3, <2>1, <3>1, CutBefore DEF Cuttable
  <2>2. ASSUME p[i + 1] = AnyRun, Cuttable(p, s, i + 1, j) PROVE Cuttable(p, s, i, j)
    BY <1>1, <1>3, <2>2, CutBefore DEF Cuttable
  <2>3. ASSUME p[i + 1] = AnyRun, j < Len(s), Cuttable(p, s, i, j + 1) PROVE Cuttable(p, s, i, j)
    BY <1>3, <2>3, CutLonger DEF Cuttable
  <2>4. ASSUME Cuttable(p, s, i, j)
        PROVE  \/ j < Len(s) /\ p[i + 1] \in {AnyOne, s[j + 1]} /\ Cuttable(p, s, i + 1, j + 1)
               \/ p[i + 1] = AnyRun /\ (Cuttable(p, s, i + 1, j) \/ (j < Len(s) /\ Cuttable(p, s, i, j + 1)))
    <3>1. PICK c : Cuts(p, s, i, j, c)
      BY <2>4 DEF Cuttable
    <3>2. PICK m : m = c[i + 1]
      OBVIOUS
    <3>3. /\ m \in 0 .. Len(s) /\ j <= m
          /\ p[i + 1] # AnyRun => m = j + 1 /\ p[i + 1] \in {AnyOne, s[j + 1]}
          /\ Cuttable(p, s, i + 1, m)
      BY <1>3, <3>1, <3>2, CutAfter DEF Cuttable
    <3>4. CASE p[i + 1] # AnyRun
      <4>1. m = j + 1 /\ j < Len(s)
        BY <1>1, <3>3, <3>4
      <4> QED BY <3>3, <3>4, <4>1
    <3>5. CASE p[i + 1] = AnyRun /\ m = j
      BY <3>3, <3>5
    <3>6. CASE p[i + 1] = AnyRun /\ m # j
      <4>1. j < Len(s) /\ j + 1 \in 0 .. Len(s) /\ j + 1 <= m
        BY <1>1, <3>3, <3>6
      <4>2. PICK d : Cuts(p, s, i + 1, m, d)
        BY <3>3 DEF Cuttable
      <4>3. \E cut : Cuts(p, s, i, j + 1, cut)
        BY <1>3, <3>3, <3>6, <4>1, <4>2, CutBefore
      <4> QED BY <3>6, <4>1, <4>3 DEF Cuttable
    <3> QED BY <3>4, <3>5, <3>6
  <2> HIDE DEF Cuttable
  <2>5. i # Len(p)
    BY <1>1, <1>3
  <2> QED BY <1>3, <2>1, <2>2, <2>3, <2>4, <2>5
<1> QED BY <1>1, <1>2, <1>3

LEMMA RestCuts ==
  ASSUME NEW p \in Strings, NEW s \in Strings, NEW x \in Places(p, s)
  PROVE  Rest(p, s)[x] <=> Cuttable(p, s, x[1], x[2])
<1> DEFINE Right(y) == Rest(p, s)[y] <=> Cuttable(p, s, y[1], y[2])
           Wrong == {n \in Nat : \E y \in Places(p, s) : n = Rank(p, s, y) /\ ~Right(y)}
<1>1. SUFFICES ASSUME Wrong # {} PROVE FALSE
  <2>1. Rank(p, s, x) \in Nat
    BY RankIs
  <2>2. ~Right(x) => Rank(p, s, x) \in Wrong
    BY <2>1
  <2> QED BY <2>2
<1>2. PICK n \in Wrong : \A m \in Wrong : n <= m
  BY <1>1, Least
<1>3. PICK y \in Places(p, s) : n = Rank(p, s, y) /\ ~Right(y)
  BY <1>2
<1>4. PICK i \in 0 .. Len(p), j \in 0 .. Len(s) : y = <<i, j>>
  BY InPlaces
<1>5. ASSUME NEW z \in Places(p, s), Rank(p, s, z) < n PROVE Right(z)
  <2>1. Rank(p, s, z) \in Nat /\ n \in Nat
    BY <1>3, RankIs
  <2>2. Rank(p, s, z) \notin Wrong
    BY <1>2, <1>5, <2>1
  <2> QED BY <2>1, <2>2
<1> HIDE DEF Wrong
<1>6. /\ i < Len(p) => (Rest(p, s)[<<i + 1, j>>] <=> Cuttable(p, s, i + 1, j))
      /\ j < Len(s) => (Rest(p, s)[<<i, j + 1>>] <=> Cuttable(p, s, i, j + 1))
      /\ i < Len(p) /\ j < Len(s) => (Rest(p, s)[<<i + 1, j + 1>>] <=> Cuttable(p, s, i + 1, j + 1))
  <2>1. i < Len(p) => Right(<<i + 1, j>>)
    BY <1>3, <1>4, <1>5, NextPlaces
  <2>2. j < Len(s) => Right(<<i, j + 1>>)
    BY <1>3, <1>4, <1>5, NextPlaces
  <2>3. i < Len(p) /\ j < Len(s) => Right(<<i + 1, j + 1>>)
    BY <1>3, <1>4, <1>5, NextPlaces
  <2> QED BY <2>1, <2>2, <2>3
<1>7. Rest(p, s)[y] <=>
           \/ i = Len(p) /\ j = Len(s)
           \/ /\ i < Len(p) /\ j < Len(s) /\ p[i + 1] \in {AnyOne, s[j + 1]}
              /\ Rest(p, s)[<<i + 1, j + 1>>]
           \/ /\ i < Len(p) /\ p[i + 1] = AnyRun
              /\ Rest(p, s)[<<i + 1, j>>] \/ (j < Len(s) /\ Rest(p, s)[<<i, j + 1>>])
  <2>1. Rest(p, s)[y] <=> Step(p, s, Rest(p, s), y)
    BY RestIs
  <2>2. y[1] = i /\ y[2] = j
    BY <1>4
  <2> QED BY <2>1, <2>2 DEF Step
<1>8. Cuttable(p, s, i, j) <=>
           \/ i = Len(p) /\ j = Len(s)
           \/ i < Len(p) /\ j < Len(s) /\ p[i + 1] \in {AnyOne, s[j + 1]} /\ Cuttable(p, s, i + 1, j + 1)
           \/ i < Len(p) /\ p[i + 1] = AnyRun /\ (Cuttable(p, s, i + 1, j) \/ (j < Len(s) /\ Cuttable(p, s, i, j + 1)))
  BY CuttableIs
<1>9. Rest(p, s)[y] <=> Cuttable(p, s, i, j)
  BY <1>6, <1>7, <1>8, Zenon
<1>10. y[1] = i /\ y[2] = j
  BY <1>4
<1> QED BY <1>3, <1>9, <1>10

(* wild_cmp(), which calls itself for what is left of the pattern and of the name, says  *)
(* yes to the names that can be cut into pieces, one for each place of the pattern,   *)
(* that fit their places, and to no other name.  Names have neither of ? and *.      *)
THEOREM WildFinds ==
  ASSUME NEW p \in Strings, NEW s \in Strings
  PROVE  wild_cmp(p, s) <=> Matches(p, s)
<1>1. <<0, 0>> \in Places(p, s) /\ 0 \in 0 .. Len(p)
  BY DEF Places, Strings
<1>2. PICK x : x = <<0, 0>>
  OBVIOUS
<1>3. wild_cmp(p, s) <=> Cuttable(p, s, 0, 0)
  BY <1>1, <1>2, RestCuts, WildIsRest
<1>4. \A k \in 0 + 1 .. Len(p) : k \in 1 .. Len(p)
  OBVIOUS
<1>5. 0 + 1 = 1
  OBVIOUS
<1>6. Cuttable(p, s, 0, 0) <=> Matches(p, s)
  <2>1. ASSUME NEW cut PROVE Cuts(p, s, 0, 0, cut) <=> cut \in [0 .. Len(p) -> 0 .. Len(s)] /\ Fits(p, s, cut)
    BY <1>5 DEF Cuts, Fits
  <2> QED BY <2>1 DEF Cuttable, Matches
<1> QED BY <1>3, <1>6

-----------------------------------------------------------------------------
(* The entries of a set in order: each one once, and none but them.                    *)
NotBeyond(S, i) == {j \in S : j <= i}

LEMMA NotBeyondLess ==
  ASSUME NEW S \in SUBSET Nat, IsFiniteSet(S), NEW i \in S, NEW k \in S, i < k
  PROVE  Cardinality(NotBeyond(S, i)) < Cardinality(NotBeyond(S, k))
<1>1. i \in Nat /\ k \in Nat
  OBVIOUS
<1>2. NotBeyond(S, i) \subseteq NotBeyond(S, k) /\ NotBeyond(S, k) \subseteq S
  <2>1. ASSUME NEW j \in NotBeyond(S, i) PROVE j \in NotBeyond(S, k)
    <3>1. j \in S /\ j <= i /\ j \in Nat
      BY <2>1 DEF NotBeyond
    <3> QED BY <1>1, <3>1 DEF NotBeyond
  <2>2. NotBeyond(S, k) \subseteq S
    BY DEF NotBeyond
  <2> QED BY <2>1, <2>2
<1>3. k \in NotBeyond(S, k) /\ k \notin NotBeyond(S, i)
  BY <1>1 DEF NotBeyond
<1>4. IsFiniteSet(NotBeyond(S, k)) /\ IsFiniteSet(NotBeyond(S, i))
  BY <1>2, FS_Subset
<1>5. Cardinality(NotBeyond(S, i)) \in Nat /\ Cardinality(NotBeyond(S, k)) \in Nat
  BY <1>4, FS_CardinalityType
<1>6. /\ Cardinality(NotBeyond(S, i)) <= Cardinality(NotBeyond(S, k))
      /\ Cardinality(NotBeyond(S, i)) # Cardinality(NotBeyond(S, k))
  BY <1>2, <1>3, <1>4, FS_Subset
<1> QED BY <1>5, <1>6

LEMMA NotBeyondWithin ==
  ASSUME NEW S \in SUBSET Nat, IsFiniteSet(S), NEW i \in S
  PROVE  Cardinality(NotBeyond(S, i)) \in 1 .. Cardinality(S)
<1>1. NotBeyond(S, i) \subseteq S /\ i \in NotBeyond(S, i)
  BY DEF NotBeyond
<1>2. /\ IsFiniteSet(NotBeyond(S, i)) /\ Cardinality(NotBeyond(S, i)) <= Cardinality(S)
  BY <1>1, FS_Subset
<1>3. Cardinality(NotBeyond(S, i)) \in Nat /\ Cardinality(S) \in Nat
  BY <1>2, FS_CardinalityType
<1>4. Cardinality(NotBeyond(S, i)) # 0
  BY <1>1, <1>2, FS_EmptySet
<1> QED BY <1>2, <1>3, <1>4

LEMMA NotBeyondSame ==
  ASSUME NEW S \in SUBSET Nat, IsFiniteSet(S), NEW i \in S, NEW k \in S,
         Cardinality(NotBeyond(S, i)) = Cardinality(NotBeyond(S, k))
  PROVE  i = k
<1>1. Cardinality(NotBeyond(S, i)) \in Nat /\ Cardinality(NotBeyond(S, k)) \in Nat
  BY NotBeyondWithin
<1>2. ~(i < k) /\ ~(k < i)
  BY <1>1, NotBeyondLess
<1> QED BY <1>2

LEMMA NotBeyondAll ==
  ASSUME NEW S \in SUBSET Nat, IsFiniteSet(S), NEW n \in 1 .. Cardinality(S)
  PROVE  \E i \in S : Cardinality(NotBeyond(S, i)) = n
<1> DEFINE N == 1 .. Cardinality(S)
           R == {Cardinality(NotBeyond(S, i)) : i \in S}
           f == [i \in S |-> Cardinality(NotBeyond(S, i))]
<1>1. R \subseteq N
  BY NotBeyondWithin
<1>2. Cardinality(S) \in Nat
  BY FS_CardinalityType
<1>3. IsFiniteSet(N) /\ Cardinality(N) = Cardinality(S)
  BY <1>2, FS_Interval
<1>4. f \in Bijection(S, R)
  <2>1. f \in [S -> R]
    OBVIOUS
  <2>2. \A a, b \in S : f[a] = f[b] => a = b
    BY NotBeyondSame
  <2>3. \A y \in R : \E x \in S : f[x] = y
    OBVIOUS
  <2> QED BY <2>1, <2>2, <2>3, Fun_IsBij
<1>5. Cardinality(R) = Cardinality(S)
  BY <1>4, FS_Bijection DEF ExistsBijection
<1>6. R = N
  BY <1>1, <1>3, <1>5, FS_Subset
<1> QED BY <1>6

LEMMA InOrderIs ==
  ASSUME NEW S \in SUBSET Nat, IsFiniteSet(S)
  PROVE  LET f == InOrder(S) IN
         /\ f \in Seq(S) /\ Len(f) = Cardinality(S)
         /\ {f[k] : k \in DOMAIN f} = S
         /\ \A a, b \in DOMAIN f : a < b => f[a] < f[b]
<1> DEFINE N == 1 .. Cardinality(S)
<1>1. PICK f : f = InOrder(S)
  OBVIOUS
<1>2. f = [k \in N |-> CHOOSE i \in S : Cardinality(NotBeyond(S, i)) = k]
  BY <1>1 DEF InOrder, NotBeyond
<1>3. \A k \in N : f[k] \in S /\ Cardinality(NotBeyond(S, f[k])) = k
  <2>1. \A k \in N : \E i \in S : Cardinality(NotBeyond(S, i)) = k
    BY NotBeyondAll
  <2> QED BY <1>2, <2>1
<1>4. DOMAIN f = N /\ Cardinality(S) \in Nat
  BY <1>2, FS_CardinalityType
<1>5. f \in Seq(S) /\ Len(f) = Cardinality(S)
  <2>1. f \in [N -> S]
    BY <1>2, <1>3, <1>4
  <2> QED BY <1>4, <2>1
<1>6. \A i \in S : \E k \in N : f[k] = i
  <2>1. ASSUME NEW i \in S PROVE \E k \in N : f[k] = i
    <3>1. PICK k \in N : k = Cardinality(NotBeyond(S, i))
      BY NotBeyondWithin
    <3> QED BY <1>3, <3>1, NotBeyondSame
  <2> QED BY <2>1
<1>7. \A a, b \in N : a < b => f[a] < f[b]
  <2>1. ASSUME NEW a \in N, NEW b \in N, a < b PROVE f[a] < f[b]
    <3>1. f[a] \in S /\ f[b] \in S /\ f[a] \in Nat /\ f[b] \in Nat
      BY <1>3
    <3>2. f[a] # f[b]
      BY <1>3, <2>1
    <3>3. ~(f[b] < f[a])
      <4>1. CASE f[b] < f[a]
        <5>1. Cardinality(NotBeyond(S, f[b])) < Cardinality(NotBeyond(S, f[a]))
          BY <3>1, <4>1, NotBeyondLess
        <5>2. b < a
          BY <1>3, <5>1
        <5> QED BY <2>1, <5>2
      <4> QED BY <4>1
    <3> QED BY <3>1, <3>2, <3>3
  <2> QED BY <2>1
<1>8. {f[k] : k \in DOMAIN f} = S
  BY <1>3, <1>4, <1>6
<1> QED BY <1>1, <1>4, <1>5, <1>7, <1>8

-----------------------------------------------------------------------------
(* What a listing knows of the directory.  Increasing and Of split what the          *)
(* proofs say of the entries that were told.                                      *)
Increasing(f) == \A a, b \in DOMAIN f : a < b => f[a] < f[b]
Of(f) == {f[k] : k \in DOMAIN f}

LEMMA ListedWithin ==
  ASSUME dir \in Seq(Strings), NEW pattern
  PROVE  /\ Listed(pattern) \subseteq 1 .. Len(dir) /\ Listed(pattern) \in SUBSET Nat
         /\ IsFiniteSet(Listed(pattern)) /\ Cardinality(Listed(pattern)) <= Len(dir)
         /\ Cardinality(Listed(pattern)) \in Nat
<1>1. Len(dir) \in Nat /\ DOMAIN dir = 1 .. Len(dir)
  OBVIOUS
<1>2. Listed(pattern) \subseteq 1 .. Len(dir)
  BY <1>1 DEF Listed
<1>3. IsFiniteSet(1 .. Len(dir)) /\ Cardinality(1 .. Len(dir)) = Len(dir)
  <2>1. \A n \in Nat : IsFiniteSet(1 .. n) /\ Cardinality(1 .. n) = n
    BY FS_Interval
  <2> QED BY <1>1, <2>1
<1>4. IsFiniteSet(Listed(pattern)) /\ Cardinality(Listed(pattern)) <= Len(dir)
  BY <1>2, <1>3, FS_Subset
<1> QED BY <1>1, <1>2, <1>4, FS_CardinalityType

LEMMA ListedIsMeant ==
  ASSUME dir \in Seq(Strings), listing.pattern \in Strings
  PROVE  Listed(listing.pattern) = Meant
<1>1. \A i \in DOMAIN dir : dir[i] \in Strings
  OBVIOUS
<1> QED BY <1>1, WildFinds DEF Listed, Meant, Skipped

LEMMA NextIs ==
  ASSUME dir \in Seq(Strings), NEW pattern, NEW at \in Nat
  PROVE  LET i == NextListed(pattern, at) IN
         \/ i = 0 /\ \A j \in Listed(pattern) : j <= at
         \/ /\ i \in Listed(pattern) /\ i > at
            /\ \A j \in Listed(pattern) : j > at => i <= j
<1> DEFINE S == {j \in Listed(pattern) : j > at}
<1>1. Listed(pattern) \in SUBSET Nat
  BY ListedWithin
<1>2. NextListed(pattern, at) = IF S = {} THEN 0 ELSE CHOOSE i \in S : \A j \in S : i <= j
  BY DEF NextListed
<1>3. CASE S = {}
  BY <1>1, <1>2, <1>3
<1>4. CASE S # {}
  <2>1. \E i \in S : \A j \in S : i <= j
    BY <1>1, <1>4, Least
  <2>2. NextListed(pattern, at) \in S /\ \A j \in S : NextListed(pattern, at) <= j
    BY <1>2, <1>4, <2>1
  <2> QED BY <2>2
<1> QED BY <1>3, <1>4

(* A program that was announced with all entries gets all of them.                     *)
LEMMA WholeIs ==
  ASSUME dir \in Seq(Strings), NEW pattern
  PROVE  LET all == Whole(pattern, 0, Count(pattern)) IN
         /\ all \in Seq(Nat) /\ Len(all) = Count(pattern)
         /\ Of(all) = Listed(pattern) /\ Increasing(all)
<1>1. PICK L : L = Listed(pattern)
  OBVIOUS
<1>2. L \in SUBSET Nat /\ IsFiniteSet(L) /\ Cardinality(L) \in Nat
  BY <1>1, ListedWithin
<1>3. ASSUME NEW i \in L PROVE Cardinality({j \in L : j < i}) < Cardinality(L)
  <2> DEFINE B == {j \in L : j < i}
  <2>1. B \subseteq L /\ i \notin B /\ i \in L
    BY <1>2, <1>3
  <2>2. IsFiniteSet(B) /\ Cardinality(B) <= Cardinality(L) /\ Cardinality(B) # Cardinality(L)
    BY <1>2, <2>1, FS_Subset
  <2>3. Cardinality(B) \in Nat
    BY <2>2, FS_CardinalityType
  <2> QED BY <1>2, <2>2, <2>3
<1>4. {i \in L : Cardinality({j \in L : j < i}) < Cardinality(L)} = L
  BY <1>3
<1>5. Whole(pattern, 0, Count(pattern)) = InOrder(L) /\ Count(pattern) = Cardinality(L)
  <2>1. \A i \in L : i \in Nat /\ i # 0
    <3>1. L \subseteq 1 .. Len(dir)
      BY <1>1, ListedWithin
    <3> QED BY <1>2, <3>1
  <2>2. {i \in L : i > 0} = L
    <3>1. \A i \in L : i > 0
      BY <2>1
    <3> QED BY <3>1
  <2> QED BY <1>1, <1>4, <2>2 DEF Whole, Count
<1>6. PICK all : all = InOrder(L)
  OBVIOUS
<1>7. all \in Seq(L) /\ Len(all) = Cardinality(L) /\ Of(all) = L /\ Increasing(all)
  BY <1>2, <1>6, InOrderIs DEF Of, Increasing
<1>8. all \in Seq(Nat)
  BY <1>2, <1>7, SeqMonotonic
<1> QED BY <1>1, <1>5, <1>6, <1>7, <1>8

(* What has been told of is not told again. *)
LEMMA NoneLeft ==
  ASSUME dir \in Seq(Strings), NEW pattern, NEW at \in Nat, NEW n,
         \A j \in Listed(pattern) : j <= at
  PROVE  Whole(pattern, at, n) = <<>>
<1>1. Listed(pattern) \in SUBSET Nat
  BY ListedWithin
<1>2. {i \in Listed(pattern) : i > at} = {}
  BY <1>1
<1>3. Whole(pattern, at, n) = InOrder({})
  BY <1>2 DEF Whole
<1>4. IsFiniteSet({}) /\ Cardinality({}) = 0
  BY FS_EmptySet
<1>5. PICK all : all = InOrder({})
  OBVIOUS
<1>6. all = [k \in 1 .. 0 |-> CHOOSE i \in {} : Cardinality({j \in {} : j <= i}) = k]
  BY <1>4, <1>5 DEF InOrder
<1>7. all = <<>>
  BY <1>6
<1> QED BY <1>3, <1>5, <1>7

-----------------------------------------------------------------------------
(* A directory that does not change while it is listed, of a size whose listing can   *)
(* be announced in 16 bits, and files whose KiB can be told in 16 bits.             *)
Tellable ==
  /\ ListingHabits = {} /\ 33 * MaxEntries + 11 < 65536
  /\ \A size \in FileSize : size < 67108864

LEMMA LengthIs ==
  ASSUME NEW n \in Nat, 33 * n + 11 < 65536
  PROVE  PgmLength(n) = 4 + PgmRecord * n + 7
<1>1. PgmRecord = 33
  BY DEF PgmRecord
<1>2. PgmLength(n) = (33 * n + 11) % 65536
  BY DEF PgmLength
<1>3. PICK m : m = 33 * n + 11
  OBVIOUS
<1>4. m \in Nat /\ m < 65536
  BY <1>3
<1>5. m % 65536 = m
  BY <1>4
<1> QED BY <1>1, <1>2, <1>3, <1>5

LEMMA ShortIs ==
  ASSUME NEW n \in Nat, n < 65536
  PROVE  Short(n) = n \/ Short(n) < 0
<1>1. n % 65536 = n
  OBVIOUS
<1>2. Short(n) = IF n < 32768 THEN n ELSE n - 65536
  BY <1>1 DEF Short
<1> QED BY <1>2

(* The tenths are cut off, so less than 103 bytes and a third are not shown.           *)
LEMMA TenthsAre ==
  ASSUME NEW size \in Nat, NEW kb, kb = size \div 1024, NEW d, d = ((size % 1024) * 10) \div 1024
  PROVE  LET low == 1024 * kb + (1024 * d) \div 10 IN low <= size /\ size <= low + 103
<1>1. PICK r : r = size % 1024
  OBVIOUS
<1>2. r \in Nat /\ kb \in Nat /\ size = 1024 * kb + r
  BY <1>1
<1>3. PICK t : t = r * 10
  OBVIOUS
<1>4. t \in Nat /\ t = 10 * r /\ d = t \div 1024
  BY <1>1, <1>2, <1>3
<1>5. d \in Nat /\ 1024 * d <= t /\ t < 1024 * d + 1024
  BY <1>4
<1>6. PICK q : q = (1024 * d) \div 10
  OBVIOUS
<1>7. q \in Nat /\ 10 * q <= 1024 * d /\ 1024 * d < 10 * q + 10
  BY <1>5, <1>6
<1>8. q <= r /\ r <= q + 103
  BY <1>2, <1>4, <1>5, <1>7
<1> QED BY <1>2, <1>6, <1>7, <1>8

LEMMA SizeShown ==
  ASSUME NEW size \in Nat, size < 67108864
  PROVE  LET shown == format_file_size(size) IN
         \/ shown = <<>>
         \/ Len(shown) = 1 /\ shown[1] = size
         \/ /\ Len(shown) = 2
            /\ LET low == 1024 * shown[1] + (1024 * shown[2]) \div 10 IN
               low <= size /\ size <= low + 103
<1>1. PICK kb, d : kb = size \div 1024 /\ d = ((size % 1024) * 10) \div 1024
  OBVIOUS
<1>2. kb \in Nat /\ kb < 65536
  BY <1>1
<1>3. PICK k : k = Short(kb)
  OBVIOUS
<1>4. k = kb \/ k < 0
  BY <1>2, <1>3, ShortIs
<1>5. PICK shown : shown = format_file_size(size)
  OBVIOUS
<1>6. \/ shown = <<size>>
      \/ k >= 0 /\ shown = <<k, d>>
      \/ shown = <<>>
  BY <1>1, <1>3, <1>5 DEF format_file_size
<1>7. k >= 0 => k = kb
  <2>1. k < 0 => ~(k >= 0)
    <3>1. k \in Int
      BY <1>2, <1>3 DEF Short
    <3> QED BY <3>1
  <2> QED BY <1>4, <2>1
<1>8. LET low == 1024 * kb + (1024 * d) \div 10 IN low <= size /\ size <= low + 103
  BY <1>1, TenthsAre
<1>9. CASE shown = <<size>>
  BY <1>5, <1>9
<1>10. CASE k >= 0 /\ shown = <<k, d>>
  <2>1. Len(shown) = 2 /\ shown[1] = kb /\ shown[2] = d
    BY <1>7, <1>10
  <2> QED BY <1>5, <1>8, <2>1
<1> QED BY <1>5, <1>6, <1>9, <1>10

-----------------------------------------------------------------------------
(* The invariant.  A listing has told of the entries up to at, a program of all or      *)
(* none; it is announced with the number of entries that it will have.              *)
ListingTypes ==
  /\ dir \in Seq(Strings) /\ Len(dir) <= MaxEntries
  /\ listing \in [open : BOOLEAN, pgm : BOOLEAN, pattern : Strings, dirnum : Int, at : Nat]
  /\ listed \in Seq(Nat)
TellsInTurn ==
  /\ ~listing.open => told.op = "close"
  /\ listing.open => told.op \in IF listing.pgm THEN {"open", "pgm", "again"} ELSE {"open", "txt"}
CountsAll == listing.open /\ listing.pgm => listing.dirnum = Count(listing.pattern)
ToldUpTo ==
  listing.open =>
    /\ listing.at <= Len(dir) /\ Increasing(listed)
    /\ Of(listed) = {i \in Listed(listing.pattern) : i <= listing.at}
    /\ listing.pgm /\ listing.at # 0 => \A i \in Listed(listing.pattern) : i <= listing.at
ListingInv == ListingTypes /\ TellsInTurn /\ CountsAll /\ ToldUpTo /\ ListingRight

(* The letters of names and patterns. *)
LEMMA BoundedSeqIs ==
  ASSUME NEW S \in SUBSET Nat, NEW n \in Nat
  PROVE  BoundedSeq(S, n) \subseteq Strings
<1>1. ASSUME NEW s \in BoundedSeq(S, n) PROVE s \in Strings
  <2>1. PICK m \in 0 .. n : s \in [1 .. m -> S]
    BY <1>1 DEF BoundedSeq, SeqOf
  <2>2. m \in Nat
    BY <2>1
  <2>3. DOMAIN s = 1 .. m /\ \A k \in 1 .. m : s[k] \in Nat
    BY <2>1
  <2>4. s = [k \in 1 .. m |-> s[k]]
    BY <2>1
  <2>5. s \in Seq(Nat)
    BY <2>2, <2>3, <2>4
  <2> QED BY <2>5 DEF Strings
<1> QED BY <1>1

LEMMA NamesAndPatterns ==
  Name \subseteq Strings /\ Pattern \subseteq Strings
<1>1. Letter \in SUBSET Nat /\ Letter \cup {AnyOne, AnyRun} \in SUBSET Nat /\ MaxName \in Nat
  BY ListingAssumption DEF AnyOne, AnyRun
<1>2. /\ BoundedSeq(Letter, MaxName) \subseteq Strings
      /\ BoundedSeq(Letter \cup {AnyOne, AnyRun}, MaxName) \subseteq Strings
  BY <1>1, BoundedSeqIs
<1> QED BY <1>2 DEF Name, Pattern

LEMMA JoinIs ==
  ASSUME NEW S, NEW a \in Seq(S), NEW b \in Seq(S)
  PROVE  a \o b \in Seq(S) /\ Len(a \o b) = Len(a) + Len(b)
BY ConcatProperties, Zenon

(* A directory with one entry more or less. *)
LEMMA InsertIs ==
  ASSUME NEW S, NEW s \in Seq(S), NEW i \in 1 .. Len(s) + 1, NEW e \in S
  PROVE  InsertAt(s, i, e) \in Seq(S) /\ Len(InsertAt(s, i, e)) = Len(s) + 1
<1>1. PICK a, b, n : a = SubSeq(s, 1, i - 1) /\ b = SubSeq(s, i, Len(s)) /\ n = Len(s)
  OBVIOUS
<1>2. n \in Nat /\ i \in 1 .. n + 1
  BY <1>1
<1>3. a \in Seq(S) /\ Len(a) = i - 1
  BY <1>1, <1>2, SubSeqProperties
<1>4. b \in Seq(S) /\ Len(b) = (n - i) + 1
  BY <1>1, <1>2, SubSeqProperties
<1>5. PICK m : m = <<e>>
  OBVIOUS
<1>6. m \in Seq(S) /\ Len(m) = 1
  BY <1>5
<1>7. a \o m \in Seq(S) /\ Len(a \o m) = i
  <2>1. a \o m \in Seq(S) /\ Len(a \o m) = Len(a) + Len(m)
    BY <1>3, <1>6, JoinIs
  <2> QED BY <1>2, <1>3, <1>6, <2>1
<1>8. (a \o m) \o b \in Seq(S) /\ Len((a \o m) \o b) = n + 1
  <2>1. (a \o m) \o b \in Seq(S) /\ Len((a \o m) \o b) = Len(a \o m) + Len(b)
    BY <1>4, <1>7, JoinIs
  <2> QED BY <1>2, <1>4, <1>7, <2>1
<1>9. InsertAt(s, i, e) = (a \o m) \o b
  BY <1>1, <1>5 DEF InsertAt
<1> QED BY <1>1, <1>8, <1>9

LEMMA RemoveIs ==
  ASSUME NEW S, NEW s \in Seq(S), NEW i \in DOMAIN s
  PROVE  RemoveAt(s, i) \in Seq(S) /\ Len(RemoveAt(s, i)) <= Len(s)
<1>1. PICK a, b, n : a = SubSeq(s, 1, i - 1) /\ b = SubSeq(s, i + 1, Len(s)) /\ n = Len(s)
  OBVIOUS
<1>2. n \in Nat /\ i \in 1 .. n
  BY <1>1
<1>3. a \in Seq(S) /\ Len(a) = i - 1
  BY <1>1, <1>2, SubSeqProperties
<1>4. b \in Seq(S) /\ Len(b) = n - i
  BY <1>1, <1>2, SubSeqProperties
<1>5. a \o b \in Seq(S) /\ Len(a \o b) = n - 1
  <2>1. a \o b \in Seq(S) /\ Len(a \o b) = Len(a) + Len(b)
    BY <1>3, <1>4, JoinIs
  <2> QED BY <1>2, <1>3, <1>4, <2>1
<1>6. RemoveAt(s, i) = a \o b
  BY <1>1 DEF RemoveAt
<1>7. n - 1 <= n
  BY <1>2
<1> QED BY <1>1, <1>5, <1>6, <1>7, Zenon

LEMMA QuietIsRight ==
  ASSUME told = Said(told.op, told.rc), told.op \in {"open", "close"}
  PROVE  ListingRight
<1>1. told.shown = <<>> /\ told.sent = told.announced
  BY DEF Said
<1> QED BY <1>1 DEF ListingRight, ListsMatching, SendsAnnounced, ShowsSize

LEMMA ListingStarts ==
  ASSUME ListingInit
  PROVE  ListingInv
<1>1. dir \in Seq(Strings) /\ Len(dir) <= 1 /\ MaxEntries \in Nat /\ MaxEntries >= 1
  <2>1. <<0>> \in Strings
    BY DEF Strings
  <2>2. dir = <<>> \/ dir = << <<0>> >>
    BY DEF ListingInit, Dots
  <2>3. PICK d : d = <<0>>
    OBVIOUS
  <2>4. <<>> \in Seq(Strings) /\ Len(<<>>) = 0
    OBVIOUS
  <2>5. <<d>> \in Seq(Strings) /\ Len(<<d>>) = 1
    BY <2>1, <2>3
  <2>6. dir \in Seq(Strings) /\ Len(dir) <= 1
    <3>1. PICK e, f : e = <<>> /\ f = <<d>>
      OBVIOUS
    <3>2. dir = e \/ dir = f
      BY <2>2, <2>3, <3>1
    <3>3. e \in Seq(Strings) /\ f \in Seq(Strings) /\ Len(e) = 0 /\ Len(f) = 1
      BY <2>4, <2>5, <3>1
    <3>4. Len(e) <= 1 /\ Len(f) <= 1
      BY <3>3
    <3> QED BY <3>2, <3>3, <3>4, Zenon
  <2>7. MaxEntries \in Nat /\ MaxEntries >= 1
    <3>1. MaxEntries \in Nat \ {0}
      BY ListingAssumption
    <3> QED BY <3>1
  <2> QED BY <2>6, <2>7
<1>2. /\ listing = NotOpen /\ listed = <<>> /\ told = Said("close", "SUCCESS")
  BY DEF ListingInit
<1>3. /\ listing.open = FALSE /\ listing.pgm = FALSE /\ listing.pattern = <<>> /\ listing.at = 0
      /\ told.op = "close" /\ told.rc = "SUCCESS"
  BY <1>2 DEF NotOpen, Said
<1>4. <<>> \in Strings /\ <<>> \in Seq(Nat)
  BY DEF Strings
<1>5. ListingTypes
  <2>1. Len(dir) <= MaxEntries
    BY <1>1
  <2>2. listed \in Seq(Nat)
    BY <1>2, <1>4
  <2>3. listing \in [open : BOOLEAN, pgm : BOOLEAN, pattern : Strings, dirnum : Int, at : Nat]
    BY <1>2, <1>4 DEF NotOpen
  <2> QED BY <1>1, <2>1, <2>2, <2>3 DEF ListingTypes
<1>6. ListingRight
  BY <1>2, <1>3, QuietIsRight
<1> QED BY <1>3, <1>5, <1>6 DEF ListingInv, TellsInTurn, CountsAll, ToldUpTo

(* A reply with nothing in it is right unless it ends a listing.                      *)
LEMMA QuietNext ==
  ASSUME NEW op \in {"open", "close"}, NEW rc, told' = Said(op, rc)
  PROVE  ListingRight' /\ told'.op = op
<1>1. told'.shown = <<>> /\ told'.sent = told'.announced /\ told'.op = op
  BY DEF Said
<1> QED BY <1>1 DEF ListingRight, ListsMatching, SendsAnnounced, ShowsSize

LEMMA SameListed ==
  ASSUME dir' = dir, NEW pattern, listing'.pattern = pattern
  PROVE  /\ Listed(listing.pattern)' = Listed(pattern)
         /\ Count(listing.pattern)' = Count(pattern)
         /\ listing.pattern = pattern => Meant' = Meant
BY DEF Listed, Count, Meant

(* hex_open_catalog() counts what will be listed. *)
LEMMA StartKeeps ==
  ASSUME ListingInv, NEW pgm \in BOOLEAN, NEW pattern \in Pattern, Start(pgm, pattern)
  PROVE  ListingInv'
<1>1. /\ dir' = dir /\ listed' = <<>> /\ told' = Said("open", "SUCCESS")
      /\ listing' = [open |-> TRUE, pgm |-> pgm, pattern |-> pattern,
                     dirnum |-> Count(pattern), at |-> 0]
  BY DEF Start
<1>2. /\ listing'.open /\ listing'.open \in BOOLEAN /\ (listing'.pgm <=> pgm) /\ listing'.pgm \in BOOLEAN
  BY <1>1
<1>3. listing'.pattern = pattern /\ listing'.dirnum = Count(pattern) /\ listing'.at = 0
  BY <1>1
<1>4. pattern \in Strings /\ dir \in Seq(Strings) /\ Len(dir) <= MaxEntries
  BY NamesAndPatterns DEF ListingInv, ListingTypes
<1>5. ListingTypes'
  <2>1. listed' \in Seq(Nat)
    BY <1>1
  <2>2. Count(pattern) \in Int
    BY <1>4, ListedWithin DEF Count
  <2>3. listing' \in [open : BOOLEAN, pgm : BOOLEAN, pattern : Strings, dirnum : Int, at : Nat]
    BY <1>1, <1>4, <2>2
  <2> QED BY <1>1, <1>4, <2>1, <2>3 DEF ListingTypes
<1>6. ListingRight' /\ told'.op = "open"
  BY <1>1, QuietNext
<1>7. TellsInTurn'
  BY <1>2, <1>6 DEF TellsInTurn
<1>8. Listed(listing.pattern)' = Listed(pattern) /\ Count(listing.pattern)' = Count(pattern)
  BY <1>1, <1>3, SameListed
<1>9. CountsAll'
  BY <1>3, <1>8 DEF CountsAll
<1>10. ToldUpTo'
  <2>1. Listed(pattern) \subseteq 1 .. Len(dir) /\ Len(dir) \in Nat
    BY <1>4, ListedWithin
  <2>2. {i \in Listed(pattern) : i <= 0} = {}
    BY <2>1
  <2>3. Of(listed') = {} /\ Increasing(listed')
    BY <1>1 DEF Of, Increasing
  <2>4. listing'.at <= Len(dir')
    BY <1>1, <1>3, <2>1
  <2>5. Of(listed') = {i \in Listed(pattern) : i <= listing'.at}
    BY <1>3, <2>2, <2>3
  <2>6. listing'.at = 0
    BY <1>3
  <2> QED BY <1>8, <2>3, <2>4, <2>5, <2>6 DEF ToldUpTo
<1> QED BY <1>5, <1>6, <1>7, <1>9, <1>10 DEF ListingInv

(* hex_read_catalog_pgm() tells of all at once, and of nothing more when it is read     *)
(* again.                                                                           *)
LEMMA ReadPgmKeeps ==
  ASSUME Tellable, ListingInv, ReadPgm
  PROVE  ListingInv'
<1>1. PICK all : all = Whole(listing.pattern, listing.at, listing.dirnum)
  OBVIOUS
<1>2. PICK at : at = IF Len(all) < listing.dirnum THEN Len(dir)
                     ELSE IF all = <<>> THEN listing.at ELSE all[Len(all)]
  OBVIOUS
<1>3. PICK op : op = IF listing.at = 0 THEN "pgm" ELSE "again"
  OBVIOUS
<1>4. /\ listing.open /\ listing.pgm /\ dir' = dir /\ listed' = listed \o all
      /\ listing' = [listing EXCEPT !.at = at]
      /\ told' = [Said(op, "SUCCESS") EXCEPT !.announced = PgmLength(listing.dirnum),
                                             !.sent = 4 + PgmRecord * Len(all) + 7]
  BY <1>1, <1>2, <1>3 DEF ReadPgm
<1>5. ListingTypes /\ listing.dirnum = Count(listing.pattern) /\ ToldUpTo
  BY <1>4 DEF ListingInv, CountsAll
<1>6. /\ dir \in Seq(Strings) /\ Len(dir) <= MaxEntries /\ Len(dir) \in Nat
      /\ listing.pattern \in Strings /\ listing.at \in Nat /\ listed \in Seq(Nat)
  BY <1>5 DEF ListingTypes
<1>7. PICK L : L = Listed(listing.pattern)
  OBVIOUS
<1>8. L \subseteq 1 .. Len(dir) /\ L = Meant
  BY <1>6, <1>7, ListedWithin, ListedIsMeant
<1>9. /\ told'.op = op /\ told'.announced = PgmLength(listing.dirnum)
      /\ told'.sent = 4 + PgmRecord * Len(all) + 7 /\ told'.shown = <<>>
  BY <1>4 DEF Said
<1>10. listing'.pattern = listing.pattern /\ listing'.dirnum = listing.dirnum /\ listing'.at = at
  BY <1>4, <1>5 DEF ListingTypes
<1>11. (listing'.open <=> listing.open) /\ (listing'.pgm <=> listing.pgm)
  BY <1>4, <1>5 DEF ListingTypes
<1>12. Listed(listing.pattern)' = L /\ Count(listing.pattern)' = Count(listing.pattern) /\ Meant' = Meant
  BY <1>4, <1>7, <1>10, SameListed
<1>13. /\ listed' \in Seq(Nat) /\ Of(listed') = L /\ Increasing(listed')
       /\ at \in Nat /\ at <= Len(dir) /\ \A i \in L : i <= at
       /\ op = "pgm" => told'.sent = told'.announced
  <2>1. CASE listing.at = 0
    <3>1. /\ all \in Seq(Nat) /\ Len(all) = Count(listing.pattern) /\ Of(all) = L /\ Increasing(all)
      BY <1>1, <1>5, <1>6, <1>7, <2>1, WholeIs
    <3>2. listed = <<>>
      <4>1. Of(listed) = {i \in L : i <= 0}
        BY <1>4, <1>5, <1>7, <2>1 DEF ToldUpTo
      <4>2. Of(listed) = {}
        <5>1. \A i \in L : i \in 1 .. Len(dir)
          BY <1>8
        <5>2. \A i \in L : ~(i <= 0)
          BY <1>6, <5>1
        <5> QED BY <4>1, <5>2
      <4>3. DOMAIN listed = {}
        BY <4>2 DEF Of
      <4> QED BY <1>6, <4>3
    <3>3. listed' = all
      BY <1>4, <3>1, <3>2
    <3>4. PICK n : n = Count(listing.pattern)
      OBVIOUS
    <3>5. n \in Nat /\ n <= MaxEntries
      <4>1. n \in Nat /\ n <= Len(dir)
        BY <1>6, <3>4, ListedWithin DEF Count
      <4>2. MaxEntries \in Nat
        BY ListingAssumption
      <4> QED BY <1>6, <4>1, <4>2
    <3>6. 33 * n + 11 < 65536
      <4>1. MaxEntries \in Nat /\ 33 * MaxEntries + 11 < 65536
        BY ListingAssumption DEF Tellable
      <4> QED BY <3>5, <4>1
    <3>7. PgmLength(n) = 4 + PgmRecord * n + 7
      BY <3>5, <3>6, LengthIs
    <3>8. told'.sent = told'.announced
      BY <1>5, <1>9, <3>1, <3>4, <3>7
    <3>9. at = IF all = <<>> THEN 0 ELSE all[Len(all)]
      BY <1>2, <1>5, <2>1, <3>1, <3>4, <3>5
    <3>10. at \in Nat /\ at <= Len(dir) /\ \A i \in L : i <= at
      <4>1. CASE all = <<>>
        <5>1. L = {} /\ at = 0
          BY <3>1, <3>9, <4>1 DEF Of
        <5> QED BY <1>6, <5>1
      <4>2. CASE all # <<>>
        <5>1. PICK m : m = Len(all)
          OBVIOUS
        <5>2. m \in Nat /\ m # 0 /\ DOMAIN all = 1 .. m /\ at = all[m]
          BY <3>1, <3>9, <4>2, <5>1
        <5>3. at \in L /\ at \in Nat
          BY <1>8, <3>1, <5>2 DEF Of
        <5>4. ASSUME NEW i \in L PROVE i <= at
          <6>1. PICK k \in 1 .. m : i = all[k]
            BY <3>1, <5>2, <5>4 DEF Of
          <6>2. k = m \/ k < m
            BY <5>2
          <6>3. k < m => all[k] < all[m]
            BY <3>1, <5>2 DEF Increasing
          <6>4. i \in Nat
            BY <1>8
          <6> QED BY <5>2, <5>3, <6>1, <6>2, <6>3, <6>4
        <5> QED BY <1>8, <5>3, <5>4
      <4> QED BY <4>1, <4>2
    <3> QED BY <3>1, <3>3, <3>8, <3>10
  <2>2. CASE listing.at # 0
    <3>1. \A i \in L : i <= listing.at
      BY <1>4, <1>5, <1>7, <2>2 DEF ToldUpTo
    <3>2. all = <<>>
      BY <1>1, <1>6, <1>7, <3>1, NoneLeft
    <3>3. listed' = listed
      BY <1>4, <1>6, <3>2
    <3>4. Of(listed) = {i \in L : i <= listing.at} /\ Increasing(listed) /\ listing.at <= Len(dir)
      BY <1>4, <1>5, <1>7 DEF ToldUpTo
    <3>5. Of(listed) = L
      BY <3>1, <3>4
    <3>6. at = Len(dir) \/ at = listing.at
      BY <1>2, <3>2
    <3>7. at \in Nat /\ at <= Len(dir) /\ listing.at <= at
      BY <1>6, <3>4, <3>6
    <3>8. \A i \in L : i <= at
      BY <1>6, <1>8, <3>1, <3>7
    <3>9. op # "pgm"
      BY <1>3, <2>2
    <3> QED BY <1>6, <3>3, <3>4, <3>5, <3>7, <3>8, <3>9
  <2> QED BY <2>1, <2>2
<1>14. ListingTypes'
  <2>1. listing' \in [open : BOOLEAN, pgm : BOOLEAN, pattern : Strings, dirnum : Int, at : Nat]
    BY <1>4, <1>5, <1>13 DEF ListingTypes
  <2> QED BY <1>4, <1>6, <1>13, <2>1 DEF ListingTypes
<1>15. op \in {"pgm", "again"}
  BY <1>3
<1>16. ListingRight'
  <2>1. ListsMatching'
    BY <1>8, <1>12, <1>13 DEF ListsMatching, Of, Increasing
  <2>2. SendsAnnounced'
    BY <1>9, <1>13, <1>15 DEF SendsAnnounced
  <2>3. ShowsSize'
    BY <1>9 DEF ShowsSize
  <2> QED BY <2>1, <2>2, <2>3 DEF ListingRight
<1>17. TellsInTurn'
  BY <1>4, <1>9, <1>11, <1>15 DEF TellsInTurn
<1>18. CountsAll'
  BY <1>5, <1>10, <1>12 DEF CountsAll
<1>19. ToldUpTo'
  <2>1. L = {i \in L : i <= at}
    BY <1>13
  <2> QED BY <1>4, <1>10, <1>12, <1>13, <2>1 DEF ToldUpTo
<1> QED BY <1>14, <1>16, <1>17, <1>18, <1>19 DEF ListingInv

(* One entry more at the end of what was told. *)
LEMMA AppendOf ==
  ASSUME NEW f \in Seq(Nat), NEW i \in Nat
  PROVE  Of(Append(f, i)) = Of(f) \cup {i}
<1>1. PICK g : g = Append(f, i)
  OBVIOUS
<1>2. PICK n : n = Len(f)
  OBVIOUS
<1>3. /\ n \in Nat /\ DOMAIN f = 1 .. n /\ DOMAIN g = 1 .. n + 1
      /\ \A k \in 1 .. n : g[k] = f[k]
      /\ g[n + 1] = i
  BY <1>1, <1>2
<1>4. \A k \in 1 .. n + 1 : k \in 1 .. n \/ k = n + 1
  BY <1>3
<1>5. \A k \in 1 .. n : k \in 1 .. n + 1
  BY <1>3
<1>6. n + 1 \in 1 .. n + 1
  BY <1>3
<1>7. Of(g) = Of(f) \cup {i}
  BY <1>3, <1>4, <1>5, <1>6 DEF Of
<1> QED BY <1>1, <1>7

LEMMA AppendIncreases ==
  ASSUME NEW f \in Seq(Nat), NEW i \in Nat, Increasing(f), \A j \in Of(f) : j < i
  PROVE  Increasing(Append(f, i))
<1>1. PICK g, n : g = Append(f, i) /\ n = Len(f)
  OBVIOUS
<1>2. /\ n \in Nat /\ DOMAIN f = 1 .. n /\ DOMAIN g = 1 .. n + 1
      /\ \A k \in 1 .. n : g[k] = f[k]
      /\ g[n + 1] = i
  BY <1>1
<1>3. ASSUME NEW a \in 1 .. n + 1, NEW b \in 1 .. n + 1, a < b PROVE g[a] < g[b]
  <2>1. a \in 1 .. n
    BY <1>2, <1>3
  <2>2. CASE b \in 1 .. n
    BY <1>2, <1>3, <2>1, <2>2 DEF Increasing
  <2>3. CASE b = n + 1
    <3>1. f[a] \in Of(f)
      BY <1>2, <2>1 DEF Of
    <3> QED BY <1>2, <2>1, <2>3, <3>1
  <2> QED BY <1>2, <1>3, <2>2, <2>3
<1>4. Increasing(g)
  BY <1>2, <1>3 DEF Increasing
<1> QED BY <1>1, <1>4

(* The end of the text: all has been told.                                         *)
LEMMA TxtEnds ==
  ASSUME ListingInv, ReadTxt, NextListed(listing.pattern, listing.at) = 0
  PROVE  ListingInv'
<1>1. /\ listing.open /\ ~listing.pgm /\ dir' = dir /\ listed' = listed /\ listing' = listing
      /\ told' = Said("txt", "EOF")
  BY DEF ReadTxt
<1>2. ListingTypes /\ CountsAll /\ ToldUpTo
  BY DEF ListingInv
<1>3. dir \in Seq(Strings) /\ listing.pattern \in Strings /\ listing.at \in Nat
  BY <1>2 DEF ListingTypes
<1>4. Listed(listing.pattern) = Meant /\ Listed(listing.pattern) \in SUBSET Nat
  BY <1>3, ListedIsMeant, ListedWithin
<1>5. \A j \in Listed(listing.pattern) : j <= listing.at
  <2>1. 0 \notin Listed(listing.pattern)
    BY <1>3 DEF Listed
  <2> QED BY <1>3, <2>1, NextIs
<1>6. Of(listed) = Meant /\ Increasing(listed)
  <2>1. {j \in Listed(listing.pattern) : j <= listing.at} = Listed(listing.pattern)
    BY <1>5
  <2> QED BY <1>1, <1>2, <1>4, <2>1 DEF ToldUpTo
<1>7. Meant' = Meant
  BY <1>1 DEF Meant
<1>8. told'.op = "txt" /\ told'.sent = told'.announced /\ told'.shown = <<>>
  BY <1>1 DEF Said
<1>9. ListingRight'
  <2>1. ListsMatching'
    BY <1>1, <1>6, <1>7 DEF ListsMatching, Of, Increasing
  <2>2. SendsAnnounced' /\ ShowsSize'
    BY <1>8 DEF SendsAnnounced, ShowsSize
  <2> QED BY <2>1, <2>2 DEF ListingRight
<1>10. TellsInTurn'
  BY <1>1, <1>8 DEF TellsInTurn
<1>11. ListingTypes' /\ CountsAll' /\ ToldUpTo'
  BY <1>1, <1>2 DEF ListingTypes, CountsAll, ToldUpTo, Count, Listed
<1> QED BY <1>9, <1>10, <1>11 DEF ListingInv

(* The next entry, after those that were told and before those that are left.         *)
LEMMA TxtTells ==
  ASSUME Tellable, ListingInv, ReadTxt, NextListed(listing.pattern, listing.at) # 0
  PROVE  ListingInv'
<1>1. PICK i : i = NextListed(listing.pattern, listing.at)
  OBVIOUS
<1>2. /\ listing.open /\ ~listing.pgm /\ dir' = dir /\ listed' = Append(listed, i)
      /\ listing' = [listing EXCEPT !.at = i, !.dirnum = @ - 1]
  BY <1>1 DEF ReadTxt
<1>3. PICK size \in FileSize :
        told' = [op |-> "txt", rc |-> "SUCCESS", announced |-> TxtLength(dir[i]),
                 sent |-> 10 + Len(dir[i]), size |-> size, shown |-> format_file_size(size)]
  BY <1>1 DEF ReadTxt
<1>4. ListingTypes /\ ToldUpTo
  BY DEF ListingInv
<1>5. dir \in Seq(Strings) /\ Len(dir) \in Nat /\ Len(dir) <= MaxEntries
      /\ listing.pattern \in Strings /\ listing.at \in Nat /\ listed \in Seq(Nat)
  BY <1>4 DEF ListingTypes
<1>6. PICK all : all = Listed(listing.pattern)
  OBVIOUS
<1>7. all \subseteq 1 .. Len(dir)
  BY <1>5, <1>6, ListedWithin
<1>8. i \in all /\ i > listing.at /\ \A j \in all : j > listing.at => i <= j
  BY <1>1, <1>5, <1>6, NextIs
<1>9. i \in Nat /\ i <= Len(dir) /\ i \in DOMAIN dir /\ dir[i] \in Strings
  BY <1>5, <1>7, <1>8
<1>10. /\ listing'.pattern = listing.pattern /\ listing'.at = i
       /\ (listing'.open <=> listing.open) /\ (listing'.pgm <=> listing.pgm)
  BY <1>2, <1>4 DEF ListingTypes
<1>11. ListingTypes'
  <2>1. listed' \in Seq(Nat)
    BY <1>2, <1>5, <1>9
  <2>2. listing.dirnum - 1 \in Int
    BY <1>4 DEF ListingTypes
  <2>3. listing' \in [open : BOOLEAN, pgm : BOOLEAN, pattern : Strings, dirnum : Int, at : Nat]
    BY <1>2, <1>4, <1>9, <2>2 DEF ListingTypes
  <2> QED BY <1>2, <1>5, <2>1, <2>3 DEF ListingTypes
<1>12. Of(listed) = {j \in all : j <= listing.at} /\ Increasing(listed)
  BY <1>2, <1>4, <1>6 DEF ToldUpTo
<1>13. Of(listed') = Of(listed) \cup {i}
  BY <1>2, <1>5, <1>9, AppendOf
<1>14. Of(listed') = {j \in all : j <= i}
  <2>1. ASSUME NEW j \in all PROVE j <= i <=> j <= listing.at \/ j = i
    <3>1. j \in Nat
      BY <1>5, <1>7
    <3>2. j > listing.at => i <= j
      BY <1>8
    <3> QED BY <1>5, <1>8, <1>9, <3>1, <3>2
  <2>2. PICK T : T = Of(listed)
    OBVIOUS
  <2>3. T = {j \in all : j <= listing.at} /\ i \in all
    BY <1>8, <1>12, <2>2
  <2>4. {j \in all : j <= i} = T \cup {i}
    <3>1. \A j \in all : j <= i <=> j \in T \cup {i}
      BY <2>1, <2>3
    <3>2. T \cup {i} \subseteq all
      BY <2>3
    <3> QED BY <3>1, <3>2
  <2> QED BY <1>13, <2>2, <2>4
<1>15. Increasing(listed')
  <2>1. ASSUME NEW j \in Of(listed) PROVE j < i
    <3>1. j \in all /\ j <= listing.at
      BY <1>12
    <3>2. j \in Nat
      BY <1>5, <1>7, <3>1
    <3> QED BY <1>5, <1>8, <1>9, <3>1, <3>2
  <2> QED BY <1>2, <1>5, <1>9, <1>12, <2>1, AppendIncreases
<1>16. CountsAll' /\ ToldUpTo'
  <2>1. Listed(listing.pattern)' = all
    BY <1>2, <1>6, <1>10, SameListed
  <2> QED BY <1>2, <1>9, <1>10, <1>14, <1>15, <2>1 DEF CountsAll, ToldUpTo
<1>17. /\ told'.op = "txt" /\ told'.rc = "SUCCESS" /\ told'.announced = TxtLength(dir[i])
       /\ told'.sent = 10 + Len(dir[i]) /\ told'.size = size /\ told'.shown = format_file_size(size)
  BY <1>3
<1>18. TellsInTurn'
  BY <1>2, <1>10, <1>17 DEF TellsInTurn
<1>19. ListingRight'
  <2>1. ListsMatching'
    BY <1>17 DEF ListsMatching
  <2>2. SendsAnnounced'
    <3>1. Len(dir[i]) \in Nat
      BY <1>9 DEF Strings
    <3>2. TxtLength(dir[i]) = 10 + Len(dir[i])
      BY <3>1 DEF TxtLength
    <3> QED BY <1>17, <3>2 DEF SendsAnnounced
  <2>3. ShowsSize'
    <3>1. size \in Nat /\ size < 67108864
      BY ListingAssumption DEF Tellable
    <3> QED BY <1>17, <3>1, SizeShown DEF ShowsSize
  <2> QED BY <2>1, <2>2, <2>3 DEF ListingRight
<1> QED BY <1>11, <1>16, <1>18, <1>19 DEF ListingInv

LEMMA StopKeeps ==
  ASSUME ListingInv, Stop
  PROVE  ListingInv'
<1>1. dir' = dir /\ listing' = NotOpen /\ listed' = <<>> /\ told' = Said("close", "SUCCESS")
  BY DEF Stop
<1>2. listing'.open = FALSE /\ ListingTypes
  BY <1>1 DEF NotOpen, ListingInv
<1>3. ListingTypes'
  <2>1. <<>> \in Strings /\ listed' \in Seq(Nat)
    BY <1>1 DEF Strings
  <2>2. listing' \in [open : BOOLEAN, pgm : BOOLEAN, pattern : Strings, dirnum : Int, at : Nat]
    BY <1>1, <2>1 DEF NotOpen
  <2> QED BY <1>1, <1>2, <2>1, <2>2 DEF ListingTypes
<1>4. ListingRight' /\ told'.op = "close"
  BY <1>1, QuietNext
<1> QED BY <1>2, <1>3, <1>4 DEF ListingInv, TellsInTurn, CountsAll, ToldUpTo

LEMMA ChangeKeeps ==
  ASSUME Tellable, ListingInv, Change
  PROVE  ListingInv'
<1>1. ~listing.open /\ listing' = listing /\ listed' = listed /\ told' = told
  BY DEF Change, Tellable
<1>2. ListingTypes /\ TellsInTurn /\ ListingRight
  BY DEF ListingInv
<1>3. dir \in Seq(Strings) /\ Len(dir) <= MaxEntries /\ Len(dir) \in Nat /\ MaxEntries \in Nat
  BY <1>2, ListingAssumption DEF ListingTypes
<1>4. dir' \in Seq(Strings) /\ Len(dir') <= MaxEntries
  <2>1. CASE /\ Len(dir) < MaxEntries
             /\ \E name \in Name, i \in 1 .. Len(dir) + 1 : dir' = InsertAt(dir, i, name)
    <3>1. PICK name \in Name, i \in 1 .. Len(dir) + 1 : dir' = InsertAt(dir, i, name)
      BY <2>1
    <3>2. name \in Strings
      BY NamesAndPatterns
    <3>3. dir' \in Seq(Strings) /\ Len(dir') = Len(dir) + 1
      BY <1>3, <3>1, <3>2, InsertIs
    <3> QED BY <1>3, <2>1, <3>3
  <2>2. CASE \E i \in DOMAIN dir : dir' = RemoveAt(dir, i)
    <3>1. PICK i \in DOMAIN dir : dir' = RemoveAt(dir, i)
      BY <2>2
    <3>2. dir' \in Seq(Strings) /\ Len(dir') <= Len(dir)
      BY <1>3, <3>1, RemoveIs
    <3>3. Len(dir') \in Nat
      BY <3>2
    <3> QED BY <1>3, <3>2, <3>3
  <2> QED BY <2>1, <2>2 DEF Change
<1>5. ListingTypes'
  BY <1>1, <1>2, <1>4 DEF ListingTypes
<1>6. told.op = "close"
  BY <1>1, <1>2 DEF TellsInTurn
<1>7. ListingRight'
  BY <1>1, <1>2, <1>6 DEF ListingRight, ListsMatching, SendsAnnounced, ShowsSize
<1> QED BY <1>1, <1>2, <1>5, <1>7 DEF ListingInv, TellsInTurn, CountsAll, ToldUpTo

LEMMA ListingKeeps ==
  ASSUME Tellable, ListingInv, [ListingNext]_listingVars
  PROVE  ListingInv'
<1>1. CASE UNCHANGED listingVars
  BY <1>1 DEF listingVars, ListingInv, ListingTypes, TellsInTurn, CountsAll, ToldUpTo, Count, Listed,
              ListingRight, ListsMatching, SendsAnnounced, ShowsSize, Meant
<1>2. ASSUME NEW pgm \in BOOLEAN, NEW pattern \in Pattern, Start(pgm, pattern) PROVE ListingInv'
  BY <1>2, StartKeeps
<1>3. CASE ReadPgm
  BY <1>3, ReadPgmKeeps
<1>4. CASE ReadTxt
  BY <1>4, TxtEnds, TxtTells
<1>5. CASE Stop
  BY <1>5, StopKeeps
<1>6. CASE Change
  BY <1>6, ChangeKeeps
<1> QED BY <1>1, <1>2, <1>3, <1>4, <1>5, <1>6 DEF ListingNext

(* Whatever is listed: in a directory that the host leaves alone meanwhile, a       *)
(* listing that has ended has told of the entries that match, each one once and in    *)
(* order; as many bytes were sent as were announced; and every size is the file's, to  *)
(* a tenth of a KiB, or "?????" (hex_open_catalog(), hex_read_catalog_pgm(),        *)
(* hex_read_catalog_txt(), format_file_size(), wild_cmp()).                       *)
THEOREM ListsRight == ASSUME Tellable PROVE ListingSpec => []ListingRight
<1>1. ListingInit => ListingInv
  BY ListingStarts
<1>2. ListingInv /\ [ListingNext]_listingVars => ListingInv'
  BY ListingKeeps
<1>3. ListingInv => ListingRight
  BY DEF ListingInv
<1> QED BY <1>1, <1>2, <1>3, PTL DEF ListingSpec
=============================================================================
