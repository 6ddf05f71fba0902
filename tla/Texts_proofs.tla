------------------------------ MODULE Texts_proofs ------------------------------
(***************************************************************************)
(* What the operators of Routing and Forms say of every text: the size of  *)
(* a limit, the location of a path, and that what a client has written     *)
(* into a body is what the server reads out of it.                         *)
(*                                                                         *)
(* Where an operator is recursive or a fold, that it has a value, and what *)
(* the value is, follows from the least case in which it would not.        *)
(***************************************************************************)
EXTENDS Routing, Forms, SequenceTheorems, FiniteSetTheorems, TLAPS

-----------------------------------------------------------------------------
(* The limit of a body.                                                    *)

LEMMA FactorIsPositive ==
  ASSUME NEW unit \in Units
  PROVE  Factor(unit) \in Nat \ {0}
<1>1. \A a, b \in Nat \ {0} : a * b \in Nat \ {0}
  OBVIOUS
<1>2. Kilo \in Nat \ {0} /\ Kilo * Kilo \in Nat \ {0}
  BY <1>1, SizesAssumption
<1>3. Kilo * Kilo * Kilo \in Nat \ {0}
  BY <1>1, <1>2
<1> DEFINE m == Kilo * Kilo
           g == m * Kilo
<1>4. Factor(unit) \in {1, Kilo, m, g}
  BY DEF Factor, Units
<1> HIDE DEF m, g
<1>5. m \in Nat \ {0} /\ g \in Nat \ {0}
  BY <1>2, <1>3 DEF m, g
<1>6. QED  BY <1>2, <1>4, <1>5

(* What fits a long is stored as it is.                                    *)
LEMMA WrappedFits ==
  ASSUME NEW n \in Int, FitsLong(n)
  PROVE  Wrapped(n) = n
BY SizesAssumption DEF FitsLong, LongMin, Wrapped

(* No body can tell what is stored from what is written, unless the        *)
(* product does not fit.                                                   *)
LEMMA StoredLimit ==
  ASSUME NEW size, size.number \in Int, size.unit \in Units,
         FitsLong(Written(size)) \/ size.number > LongMax,
         NEW length \in Nat, length <= LongMax
  PROVE  length > client_max_body_size(size) <=> length > Written(size)
<1> DEFINE number == size.number
           factor == Factor(size.unit)
<1>1. factor \in Nat \ {0} /\ number \in Int /\ LongMax \in Nat
  BY FactorIsPositive, SizesAssumption
<1>2. Written(size) = number * factor
  BY DEF Written
<1> HIDE DEF number, factor
<1>3. number * factor \in Int
  BY <1>1
<1>4. number >= 0 => number * factor >= number
  BY <1>1
<1>5. number < 0 => number * factor <= number
  BY <1>1
<1>6. CASE number > LongMax
  <2>1. client_max_body_size(size) = LongMax
    BY <1>6 DEF client_max_body_size, number
  <2>2. QED  BY <1>1, <1>2, <1>3, <1>4, <1>6, <2>1
<1>7. CASE ~(number > LongMax)
  <2>1. FitsLong(number * factor)
    BY <1>2, <1>7 DEF number
  <2>2. ~(number < LongMin)
    BY <1>1, <1>3, <1>5, <2>1 DEF FitsLong, LongMin
  <2>3. client_max_body_size(size) = Wrapped(number * factor)
    BY <1>2, <1>7, <2>2 DEF client_max_body_size, number
  <2>4. Wrapped(number * factor) = number * factor
    BY <1>3, <2>1, WrappedFits
  <2>5. QED  BY <1>2, <2>3, <2>4
<1>8. QED  BY <1>6, <1>7

-----------------------------------------------------------------------------
(* The location of a path.                                                 *)

Matches(l, p) == IsPrefix(l, p) /\ AtBoundary(l, p)
Longer(l, best, p) ==
  IF IsPrefix(l, p) /\ Len(l) > Len(best) /\ AtBoundary(l, p) THEN l ELSE best
Some(s) == CHOOSE l \in s : TRUE
BestOf(f, s, p) == IF s = {} THEN <<>> ELSE Longer(Some(s), f[s \ {Some(s)}], p)
Search(S, p) == CHOOSE f : f = [s \in SUBSET S |-> BestOf(f, s, p)]

LEMMA LocationIsSearch ==
  ASSUME NEW S, NEW p
  PROVE  getLocation(S, p) = Search(S, p)[S]
BY DEF getLocation, FoldSet, MapThenFoldSet, Search, BestOf, Some, Longer

(* A set of numbers that is not empty has a least element.                 *)
LEMMA LeastNumber ==
  ASSUME NEW T \in SUBSET Nat, T # {}
  PROVE  \E x \in T : \A y \in T : x <= y
<1> DEFINE R == {ss \in Nat \X Nat : ss[1] < ss[2]}
<1>1. IsWellFoundedOn(R, Nat)
  BY NatLessThanWellFounded DEF OpToRel
<1>2. \A x, y \in Nat : <<y, x>> \in R <=> y < x
  OBVIOUS
<1> HIDE DEF R
<1>3. PICK x \in T : \A y \in T : ~(<<y, x>> \in R)
  BY <1>1, WFMin
<1>4. \A y \in T : x <= y
  <2> TAKE y \in T
  <2>1. x \in Nat /\ y \in Nat /\ ~(y < x)
    BY <1>2, <1>3
  <2>2. QED  BY <2>1
<1>5. QED  BY <1>4

(* A set of numbers that goes down from each of its members, but does not  *)
(* reach 0, is empty.                                                      *)
LEMMA Descent ==
  ASSUME NEW T \in SUBSET Nat, 0 \notin T, \A n \in Nat : n + 1 \in T => n \in T
  PROVE  T = {}
<1> SUFFICES ASSUME T # {} PROVE FALSE
  OBVIOUS
<1>1. PICK x \in T : \A y \in T : x <= y
  BY LeastNumber
<1>2. x \in Nat /\ x # 0
  BY <1>1
<1>3. x - 1 \in Nat /\ (x - 1) + 1 = x
  BY <1>2
<1>4. x - 1 \in T
  BY <1>1, <1>3
<1>5. QED  BY <1>1, <1>2, <1>4

LEMMA SmallerSets ==
  ASSUME NEW S, IsFiniteSet(S), NEW s \in SUBSET S
  PROVE  /\ IsFiniteSet(s) /\ Cardinality(s) \in Nat /\ Cardinality(s) <= Cardinality(S)
         /\ s = {} <=> Cardinality(s) = 0
         /\ s # {} => /\ Some(s) \in s
                      /\ s \ {Some(s)} \in SUBSET S
                      /\ Cardinality(s \ {Some(s)}) = Cardinality(s) - 1
<1>1. IsFiniteSet(s) /\ Cardinality(s) <= Cardinality(S)
  BY FS_Subset
<1>2. Cardinality(s) \in Nat /\ (s = {} <=> Cardinality(s) = 0)
  BY <1>1, FS_CardinalityType, FS_EmptySet
<1>3. s # {} => Some(s) \in s
  BY DEF Some
<1>4. s # {} => Cardinality(s \ {Some(s)}) = Cardinality(s) - 1
  BY <1>1, <1>3, FS_RemoveElement
<1>5. QED  BY <1>1, <1>2, <1>3, <1>4

(* The search ends, for finitely many locations: as far as any number of   *)
(* them it has a result, by the least number for which it would have none. *)
LEMMA SearchExists ==
  ASSUME NEW S, IsFiniteSet(S), NEW p
  PROVE  Search(S, p) = [s \in SUBSET S |-> BestOf(Search(S, p), s, p)]
<1> DEFINE UpTo(f, n) ==
             /\ f = [s \in SUBSET S |-> f[s]]
             /\ \A s \in SUBSET S : Cardinality(s) <= n => f[s] = BestOf(f, s, p)
           T == {n \in Nat : ~ \E f : UpTo(f, n)}
<1>1. 0 \notin T
  <2> DEFINE f == [s \in SUBSET S |-> <<>>]
  <2>1. ASSUME NEW s \in SUBSET S, Cardinality(s) <= 0
        PROVE  s = {}
    <3>1. Cardinality(s) \in Nat /\ (s = {} <=> Cardinality(s) = 0)
      BY SmallerSets
    <3>2. QED  BY <2>1, <3>1
  <2>2. UpTo(f, 0)
    BY <2>1 DEF BestOf
  <2>3. QED  BY <2>2
<1>2. ASSUME NEW n \in Nat, n + 1 \in T
      PROVE  n \in T
  <2> SUFFICES ASSUME NEW f, UpTo(f, n) PROVE FALSE
    BY <1>2
  <2> DEFINE g == [s \in SUBSET S |-> BestOf(f, s, p)]
  <2>1. ASSUME NEW s \in SUBSET S, Cardinality(s) <= n + 1
        PROVE  g[s] = BestOf(g, s, p)
    <3>1. CASE s = {}
      BY <3>1 DEF BestOf
    <3>2. CASE s # {}
      <4> DEFINE t == s \ {Some(s)}
      <4>1. t \in SUBSET S /\ Cardinality(t) <= n
        BY <2>1, <3>2, SmallerSets
      <4>2. g[t] = f[t]
        BY <4>1
      <4>3. QED  BY <3>2, <4>2 DEF BestOf
    <3>3. QED  BY <3>1, <3>2
  <2>2. UpTo(g, n + 1)
    <3>1. g = [s \in SUBSET S |-> g[s]]
      OBVIOUS
    <3> HIDE DEF g
    <3>2. QED  BY <2>1, <3>1
  <2> HIDE DEF g
  <2>3. QED  BY <1>2, <2>2
<1>3. T = {}
  <2>1. T \in SUBSET Nat
    OBVIOUS
  <2> HIDE DEF T
  <2>2. QED  BY <1>1, <1>2, <2>1, Descent
<1>4. PICK f : UpTo(f, Cardinality(S))
  <2>1. Cardinality(S) \in Nat
    BY FS_CardinalityType
  <2>2. QED  BY <1>3, <2>1
<1>5. \A s \in SUBSET S : f[s] = BestOf(f, s, p)
  BY <1>4, SmallerSets
<1>6. f = [s \in SUBSET S |-> f[s]]
  BY <1>4
<1>7. \E h : h = [s \in SUBSET S |-> BestOf(h, s, p)]
  BY <1>5, <1>6
<1>8. QED  BY <1>7 DEF Search

(* Of the locations that match, the search finds a longest one.            *)
Found(l, S, p) ==
  /\ l = <<>> \/ (l \in S /\ Matches(l, p))
  /\ \A m \in S : Matches(m, p) => Len(m) <= Len(l)

LEMMA LongestIsFound ==
  ASSUME NEW S \in SUBSET Text, IsFiniteSet(S), NEW p
  PROVE  Found(getLocation(S, p), S, p)
<1> DEFINE f == Search(S, p)
           T == {n \in Nat : \E s \in SUBSET S : Cardinality(s) = n /\ ~Found(f[s], s, p)}
<1>0. f = [s \in SUBSET S |-> BestOf(f, s, p)]
  BY SearchExists
<1> HIDE DEF f
<1>1. \A s \in SUBSET S : f[s] = BestOf(f, s, p)
  BY <1>0
<1>2. ASSUME NEW s \in SUBSET S, \A t \in SUBSET S : Cardinality(t) < Cardinality(s) => Found(f[t], t, p)
      PROVE  Found(f[s], s, p)
  <2>1. CASE s = {}
    BY <1>1, <2>1 DEF BestOf, Found
  <2>2. CASE s # {}
    <3> DEFINE x == Some(s)
               t == s \ {x}
    <3>1. x \in s /\ t \in SUBSET S /\ Cardinality(t) < Cardinality(s)
      BY <2>2, SmallerSets
    <3>2. f[s] = Longer(x, f[t], p)
      BY <1>1, <2>2 DEF BestOf
    <3>3. Found(f[t], t, p)
      BY <1>2, <3>1
    <3>4. s = t \cup {x}
      BY <3>1
    <3>5. <<>> \in Text /\ Len(<<>>) = 0
      BY DEF Text
    <3>6. f[t] \in Text /\ x \in Text
      BY <3>1, <3>3, <3>5 DEF Found
    <3>7. \A m \in S : Len(m) \in Nat
      BY LenProperties DEF Text
    <3>8. Len(f[t]) \in Nat /\ Len(x) \in Nat
      BY <3>6, LenProperties DEF Text
    <3> HIDE DEF x, t
    <3>9. CASE Matches(x, p) /\ Len(x) > Len(f[t])
      <4>1. f[s] = x
        BY <3>2, <3>9 DEF Longer, Matches
      <4>2. \A m \in s : Matches(m, p) => Len(m) <= Len(x)
        BY <3>3, <3>4, <3>7, <3>8, <3>9 DEF Found
      <4>3. QED  BY <3>1, <3>9, <4>1, <4>2 DEF Found
    <3>10. CASE ~(Matches(x, p) /\ Len(x) > Len(f[t]))
      <4>1. f[s] = f[t]
        BY <3>2, <3>10 DEF Longer, Matches
      <4>2. \A m \in s : Matches(m, p) => Len(m) <= Len(f[t])
        BY <3>3, <3>4, <3>8, <3>10 DEF Found
      <4>3. QED  BY <3>3, <3>4, <4>1, <4>2 DEF Found
    <3>11. QED  BY <3>9, <3>10
  <2>3. QED  BY <2>1, <2>2
<1>3. T = {}
  <2> SUFFICES ASSUME T # {} PROVE FALSE
    OBVIOUS
  <2>1. PICK n \in T : \A m \in T : n <= m
    BY LeastNumber
  <2>2. PICK s \in SUBSET S : Cardinality(s) = n /\ ~Found(f[s], s, p)
    BY <2>1
  <2>3. ASSUME NEW t \in SUBSET S, Cardinality(t) < Cardinality(s)
        PROVE  Found(f[t], t, p)
    <3>1. Cardinality(t) \in Nat /\ n \in Nat
      BY <2>1, SmallerSets
    <3>2. Cardinality(t) \notin T
      BY <2>1, <2>2, <2>3, <3>1
    <3>3. QED  BY <3>1, <3>2
  <2>4. QED  BY <1>2, <2>2, <2>3
<1>4. Found(f[S], S, p)
  <2>1. Cardinality(S) \in Nat
    BY FS_CardinalityType
  <2>2. QED  BY <1>3, <2>1
<1>5. QED  BY <1>4, LocationIsSearch DEF f

(* A prefix, token by token.                                               *)
LEMMA PrefixTokens ==
  ASSUME NEW S, NEW a \in Seq(S), NEW b \in Seq(S)
  PROVE  /\ Len(a) \in Nat /\ Len(b) \in Nat
         /\ IsPrefix(a, b) <=> Len(a) <= Len(b) /\ \A i \in 1 .. Len(a) : a[i] = b[i]
<1>1. Len(a) \in Nat /\ Len(b) \in Nat
  BY LenProperties
<1>2. \A i \in 1 .. Len(a) : a[i] \in S
  BY ElementOfSeq
<1>3. \A i \in 1 .. Len(b) : b[i] \in S
  BY ElementOfSeq
<1>4. ASSUME Len(a) <= Len(b)
      PROVE  /\ Len(SubSeq(a, 1, Len(a))) = Len(a) /\ Len(SubSeq(b, 1, Len(a))) = Len(a)
             /\ SubSeq(a, 1, Len(a)) \in Seq(S) /\ SubSeq(b, 1, Len(a)) \in Seq(S)
             /\ \A i \in 1 .. Len(a) :
                  SubSeq(a, 1, Len(a))[i] = a[i] /\ SubSeq(b, 1, Len(a))[i] = b[i]
  <2>1. \A i \in 1 .. Len(a) : b[i] \in S
    BY <1>1, <1>3, <1>4
  <2>2. /\ SubSeq(a, 1, Len(a)) \in Seq(S) /\ Len(SubSeq(a, 1, Len(a))) = Len(a)
        /\ \A i \in 1 .. Len(a) : SubSeq(a, 1, Len(a))[i] = a[i]
    BY <1>1, <1>2, SubSeqProperties
  <2>3. /\ SubSeq(b, 1, Len(a)) \in Seq(S) /\ Len(SubSeq(b, 1, Len(a))) = Len(a)
        /\ \A i \in 1 .. Len(a) : SubSeq(b, 1, Len(a))[i] = b[i]
    BY <1>1, <1>4, <2>1, SubSeqProperties
  <2>4. QED  BY <2>2, <2>3
<1>5. ASSUME Len(a) <= Len(b), \A i \in 1 .. Len(a) : a[i] = b[i]
      PROVE  SubSeq(a, 1, Len(a)) = SubSeq(b, 1, Len(a))
  BY <1>4, <1>5, SeqEqual
<1>6. QED  BY <1>1, <1>4, <1>5 DEF IsPrefix

-----------------------------------------------------------------------------
(* The first part of a multipart body.                                     *)

Tokens == STRING \cup {"boundary", "crlf", "--"}

LEMMA PlaceIsFirst ==
  ASSUME NEW seq, Len(seq) \in Nat, NEW i \in 1 .. Len(seq), NEW e, seq[i] = e,
         \A j \in 1 .. i - 1 : seq[j] # e
  PROVE  FirstPlace(seq, e) = i
<1> DEFINE I == {j \in 1 .. Len(seq) : seq[j] = e}
<1>1. i \in I /\ \A j \in I : i <= j
  OBVIOUS
<1>2. \A m \in I : (\A j \in I : m =< j) => m = i
  BY <1>1
<1>3. I # {} /\ Min(I) = i
  <2> HIDE DEF I
  <2>1. QED  BY <1>1, <1>2 DEF Min
<1>4. QED  BY <1>3 DEF FirstPlace, SelectInSeq

(* Pieces one after another: FlattenSeq adds one at a time.                *)
LEMMA FlattenSteps ==
  ASSUME NEW S, NEW ss \in Seq(Seq(S)), Len(ss) >= 1
  PROVE  \E f : /\ FlattenSeq(ss) = f[Len(ss)] /\ f[1] = ss[1]
                /\ \A i \in 2 .. Len(ss) : f[i] = f[i - 1] \o ss[i]
                /\ \A i \in 1 .. Len(ss) : f[i] \in Seq(S)
<1> DEFINE n == Len(ss)
           Rule(f, i) == IF i = 1 THEN ss[i] ELSE f[i - 1] \o ss[i]
           UpTo(f, m) == /\ f = [i \in 1 .. n |-> f[i]]
                         /\ \A i \in 1 .. n : i <= m => f[i] = Rule(f, i)
           T == {m \in Nat : ~ \E f : UpTo(f, m)}
           flatten == CHOOSE f : f = [i \in 1 .. n |-> Rule(f, i)]
<1>1. n \in Nat /\ n >= 1 /\ \A i \in 1 .. n : ss[i] \in Seq(S)
  BY LenProperties, ElementOfSeq
<1>2. FlattenSeq(ss) = flatten[n]
  BY <1>1 DEF FlattenSeq
<1> HIDE DEF n
<1>3. 0 \notin T
  <2> DEFINE f == [i \in 1 .. n |-> <<>>]
  <2>1. f = [i \in 1 .. n |-> f[i]]
    OBVIOUS
  <2>2. \A i \in 1 .. n : ~(i <= 0)
    OBVIOUS
  <2> HIDE DEF f
  <2>3. UpTo(f, 0)
    BY <2>1, <2>2
  <2>4. QED  BY <2>3
<1>4. ASSUME NEW m \in Nat, m + 1 \in T
      PROVE  m \in T
  <2> SUFFICES ASSUME NEW f, UpTo(f, m) PROVE FALSE
    BY <1>4
  <2> DEFINE g == [i \in 1 .. n |-> Rule(f, i)]
  <2>1. \A i \in 1 .. n : g[i] = Rule(f, i)
    OBVIOUS
  <2>2. g = [i \in 1 .. n |-> g[i]]
    OBVIOUS
  <2> HIDE DEF g
  <2>3. ASSUME NEW i \in 1 .. n, i <= m + 1
        PROVE  g[i] = Rule(g, i)
    <3>1. CASE i = 1
      BY <2>1, <3>1
    <3>2. CASE i # 1
      <4>1. i - 1 \in 1 .. n /\ i - 1 <= m
        BY <1>1, <2>3, <3>2
      <4>2. g[i - 1] = f[i - 1]
        BY <2>1, <2>3, <4>1
      <4>3. QED  BY <2>1, <3>2, <4>2
    <3>3. QED  BY <3>1, <3>2
  <2>4. UpTo(g, m + 1)
    BY <2>2, <2>3
  <2>5. QED  BY <1>4, <2>4
<1>5. T \in SUBSET Nat
  OBVIOUS
<1>6. T = {}
  <2> HIDE DEF T
  <2>1. QED  BY <1>3, <1>4, <1>5, Descent
<1>7. PICK f : UpTo(f, n)
  BY <1>1, <1>6
<1>8. f = [i \in 1 .. n |-> Rule(f, i)]
  <2>1. \A i \in 1 .. n : i <= n
    BY <1>1
  <2>2. \A i \in 1 .. n : f[i] = Rule(f, i)
    BY <1>7, <2>1
  <2>3. f = [i \in 1 .. n |-> f[i]]
    BY <1>7
  <2> HIDE DEF Rule
  <2>4. QED  BY <2>2, <2>3
<1>9. flatten = [i \in 1 .. n |-> Rule(flatten, i)]
  BY <1>8
<1> HIDE DEF flatten
<1>10. \A i \in 1 .. n : flatten[i] = Rule(flatten, i)
  BY <1>9
<1>11. flatten[1] = ss[1] /\ \A i \in 2 .. n : flatten[i] = flatten[i - 1] \o ss[i]
  <2>1. 1 \in 1 .. n
    BY <1>1
  <2>2. flatten[1] = Rule(flatten, 1)
    BY <1>10, <2>1
  <2>3. ASSUME NEW i \in 2 .. n
        PROVE  flatten[i] = flatten[i - 1] \o ss[i]
    <3>1. i \in 1 .. n /\ i # 1
      BY <1>1
    <3>2. QED  BY <1>10, <3>1
  <2>4. QED  BY <2>2, <2>3
<1> DEFINE B == {i \in 1 .. n : ~(flatten[i] \in Seq(S))}
<1>12. B = {}
  <2> SUFFICES ASSUME B # {} PROVE FALSE
    OBVIOUS
  <2>1. B \in SUBSET Nat
    OBVIOUS
  <2> HIDE DEF B
  <2>2. PICK i \in B : \A j \in B : i <= j
    BY <2>1, LeastNumber
  <2> USE DEF B
  <2>3. i \in 2 .. n
    BY <1>1, <1>11, <2>2
  <2>4. i \in 1 .. n /\ i - 1 \in 1 .. n /\ i - 1 \notin B
    BY <1>1, <2>2, <2>3
  <2>5. flatten[i - 1] \in Seq(S) /\ ss[i] \in Seq(S)
    BY <1>1, <2>4
  <2>6. flatten[i - 1] \o ss[i] \in Seq(S)
    BY <2>5, ConcatProperties
  <2>7. QED  BY <1>11, <2>2, <2>3, <2>6
<1>13. QED  BY <1>2, <1>11, <1>12 DEF n

(* They begin with the first, and then the second.                         *)
LEMMA FlattenBegins ==
  ASSUME NEW S, NEW ss \in Seq(Seq(S)), Len(ss) >= 1,
         NEW e, \A i \in 1 .. Len(ss) : Len(ss[i]) >= 1 /\ ss[i][1] = e
  PROVE  /\ FlattenSeq(ss) \in Seq(S)
         /\ Len(FlattenSeq(ss)) >= Len(ss[1])
         /\ \A j \in 1 .. Len(ss[1]) : FlattenSeq(ss)[j] = ss[1][j]
         /\ Len(FlattenSeq(ss)) > Len(ss[1]) => FlattenSeq(ss)[Len(ss[1]) + 1] = e
<1> DEFINE n == Len(ss)
<1>1. n \in Nat /\ n >= 1 /\ \A i \in 1 .. n : ss[i] \in Seq(S)
  BY LenProperties, ElementOfSeq
<1>2. PICK f : /\ FlattenSeq(ss) = f[n] /\ f[1] = ss[1]
               /\ \A i \in 2 .. n : f[i] = f[i - 1] \o ss[i]
               /\ \A i \in 1 .. n : f[i] \in Seq(S)
  BY FlattenSteps
<1> HIDE DEF n
<1> DEFINE Begins(x) == /\ x \in Seq(S) /\ Len(x) >= Len(ss[1])
                        /\ \A j \in 1 .. Len(ss[1]) : x[j] = ss[1][j]
                        /\ Len(x) > Len(ss[1]) => x[Len(ss[1]) + 1] = e
           B == {i \in 1 .. n : ~Begins(f[i])}
<1>3. Len(ss[1]) \in Nat
  BY <1>1, LenProperties
<1>4. Begins(f[1])
  BY <1>1, <1>2, <1>3
<1>5. ASSUME NEW i \in 2 .. n, Begins(f[i - 1])
      PROVE  Begins(f[i])
  <2> DEFINE x == f[i - 1]
             y == ss[i]
  <2>1. f[i] = x \o y
    BY <1>2
  <2>2. x \in Seq(S) /\ y \in Seq(S) /\ Len(y) >= 1 /\ y[1] = e
    BY <1>1, <1>5 DEF n
  <2> HIDE DEF x, y
  <2>3. /\ x \o y \in Seq(S) /\ Len(x \o y) = Len(x) + Len(y)
        /\ \A j \in 1 .. Len(x) + Len(y) :
             (x \o y)[j] = IF j <= Len(x) THEN x[j] ELSE y[j - Len(x)]
    BY <2>2, ConcatProperties
  <2>4. Len(x) \in Nat /\ Len(y) \in Nat
    BY <2>2, LenProperties
  <2>5. Begins(x)
    BY <1>5 DEF x
  <2>6. Begins(x \o y)
    BY <1>3, <2>2, <2>3, <2>4, <2>5
  <2>7. QED  BY <2>1, <2>6
<1>6. B = {}
  <2> SUFFICES ASSUME B # {} PROVE FALSE
    OBVIOUS
  <2>1. B \in SUBSET Nat
    OBVIOUS
  <2> HIDE DEF B
  <2>2. PICK i \in B : \A j \in B : i <= j
    BY <2>1, LeastNumber
  <2> USE DEF B
  <2>3. i \in 2 .. n
    BY <1>1, <1>4, <2>2
  <2>4. i - 1 \in 1 .. n /\ i - 1 \notin B
    <3>1. i \in Nat /\ i - 1 \in 1 .. n /\ ~(i <= i - 1)
      BY <1>1, <2>3
    <3> HIDE DEF B
    <3>2. QED  BY <2>2, <3>1
  <2>5. Begins(f[i - 1])
    BY <2>4
  <2>6. QED  BY <1>5, <2>2, <2>3, <2>5
<1>7. Begins(f[n])
  <2>1. n \in 1 .. n
    BY <1>1
  <2> HIDE DEF Begins
  <2>2. \A i \in 1 .. n : Begins(f[i])
    BY <1>6
  <2>3. QED  BY <2>1, <2>2
<1>8. QED  BY <1>2, <1>7

LEMMA PlaceIsNone ==
  ASSUME NEW seq, NEW e, \A j \in 1 .. Len(seq) : seq[j] # e
  PROVE  FirstPlace(seq, e) = 0
BY DEF FirstPlace, SelectInSeq

(* A blank line is two line ends.                                          *)
LEMMA BlankLineIsFirst ==
  ASSUME NEW seq, Len(seq) \in Nat, NEW i \in 1 .. Len(seq) - 1,
         seq[i] = "crlf", seq[i + 1] = "crlf",
         \A j \in 1 .. i - 1 : seq[j] # "crlf" \/ seq[j + 1] # "crlf"
  PROVE  BlankLine(seq) = i
<1> DEFINE pairs == [j \in 1 .. Len(seq) - 1 |-> <<seq[j], seq[j + 1]>>]
           e == <<"crlf", "crlf">>
           I == {j \in 1 .. Len(pairs) : pairs[j] = e}
<1>1. Len(pairs) = Len(seq) - 1 /\ \A j \in 1 .. Len(seq) - 1 : pairs[j] = <<seq[j], seq[j + 1]>>
  OBVIOUS
<1> HIDE DEF pairs
<1>2. pairs[i] = e
  BY <1>1
<1>3. ASSUME NEW j \in 1 .. i - 1
      PROVE  pairs[j] # e
  <2>1. j \in 1 .. Len(seq) - 1
    OBVIOUS
  <2>2. pairs[j] = <<seq[j], seq[j + 1]>>
    BY <1>1, <2>1
  <2>3. seq[j] # "crlf" \/ seq[j + 1] # "crlf"
    OBVIOUS
  <2>4. QED  BY <2>2, <2>3
<1> HIDE DEF e
<1>4. i \in I /\ \A j \in I : i <= j
  BY <1>1, <1>2, <1>3
<1>5. \A m \in I : (\A j \in I : m =< j) => m = i
  BY <1>4
<1>6. I # {} /\ Min(I) = i
  <2> HIDE DEF I
  <2>1. QED  BY <1>4, <1>5 DEF Min
<1>7. QED  BY <1>6 DEF BlankLine, SelectInSeq, pairs, e

(* The file a part's header names.                                         *)
LEMMA FileOfHeader ==
  ASSUME NEW key \in Seq(Tokens), key # <<>>,
         (\E i \in DOMAIN key : key[i] \in DOMAIN Filename) => key[1] \in DOMAIN Filename
  PROVE  extractFileName(key) # "" => extractFileName(key) = Filename[key[1]]
<1> DEFINE I == {i \in 1 .. Len(key) : key[i] \in DOMAIN Filename}
<1>1. Len(key) \in Nat /\ Len(key) >= 1 /\ DOMAIN key = 1 .. Len(key)
  BY LenProperties, EmptySeq
<1>2. CASE I = {}
  BY <1>2 DEF extractFileName, SelectInSeq
<1>3. CASE I # {}
  <2>1. 1 \in I /\ \A j \in I : 1 <= j
    BY <1>1, <1>3
  <2>2. \A m \in I : (\A j \in I : m =< j) => m = 1
    BY <2>1
  <2>3. Min(I) = 1
    <3> HIDE DEF I
    <3>1. QED  BY <2>1, <2>2 DEF Min
  <2>4. SelectInSeq(key, LAMBDA h : h \in DOMAIN Filename) = 1
    BY <1>3, <2>3 DEF SelectInSeq
  <2>5. QED  BY <2>4 DEF extractFileName
<1>4. QED  BY <1>2, <1>3

(* Two sequences one after the other.                                      *)
LEMMA Joined ==
  ASSUME NEW S, NEW a \in Seq(S), NEW b \in Seq(S)
  PROVE  /\ Len(a) \in Nat /\ Len(b) \in Nat
         /\ a \o b \in Seq(S) /\ Len(a \o b) = Len(a) + Len(b)
         /\ \A j \in 1 .. Len(a) : (a \o b)[j] = a[j]
         /\ \A j \in 1 .. Len(b) : (a \o b)[Len(a) + j] = b[j]
<1>1. Len(a) \in Nat /\ Len(b) \in Nat
  BY LenProperties
<1>2. a \o b \in Seq(S) /\ Len(a \o b) = Len(a) + Len(b)
  BY ConcatProperties
<1>3. \A j \in 1 .. Len(a) + Len(b) : (a \o b)[j] = IF j <= Len(a) THEN a[j] ELSE b[j - Len(a)]
  BY ConcatProperties
<1>4. ASSUME NEW j \in 1 .. Len(a)
      PROVE  (a \o b)[j] = a[j]
  <2>1. j \in 1 .. Len(a) + Len(b) /\ j <= Len(a)
    BY <1>1
  <2>2. QED  BY <1>3, <2>1
<1>5. ASSUME NEW j \in 1 .. Len(b)
      PROVE  (a \o b)[Len(a) + j] = b[j]
  <2>1. /\ Len(a) + j \in 1 .. Len(a) + Len(b)
        /\ ~(Len(a) + j <= Len(a)) /\ (Len(a) + j) - Len(a) = j
    BY <1>1
  <2>2. (a \o b)[Len(a) + j] = b[(Len(a) + j) - Len(a)]
    BY <1>3, <2>1
  <2>3. QED  BY <2>1, <2>2
<1>6. QED  BY <1>1, <1>2, <1>4, <1>5

(* Where everything is in the body of an upload.                           *)
Laid(body, key, value) ==
  LET k == Len(key)
      v == Len(value)
  IN  /\ body \in Seq(Tokens) /\ Len(body) >= k + v + 6
      /\ body[1] = "boundary" /\ body[2] = "crlf"
      /\ \A i \in 1 .. k : body[i + 2] = key[i]
      /\ body[k + 3] = "crlf" /\ body[k + 4] = "crlf"
      /\ \A i \in 1 .. v : body[k + 4 + i] = value[i]
      /\ body[k + v + 5] = "crlf" /\ body[k + v + 6] = "boundary"

LEMMA MultipartIsLaid ==
  ASSUME NEW fields \in Seq(Part), fields # <<>>
  PROVE  Laid(MultipartBody(fields), fields[1].key, fields[1].value)
<1> DEFINE piece(i) == <<"boundary", "crlf">> \o fields[i].key \o <<"crlf", "crlf">>
                         \o fields[i].value \o <<"crlf">>
           ss == [i \in DOMAIN fields |-> piece(i)]
           last == <<"boundary", "--">>
<1>1. /\ Len(fields) \in Nat /\ Len(fields) >= 1 /\ DOMAIN fields = 1 .. Len(fields)
      /\ \A i \in 1 .. Len(fields) : fields[i] \in Part
  BY LenProperties, EmptySeq, ElementOfSeq
<1>2. ASSUME NEW i \in 1 .. Len(fields)
      PROVE  LET k == Len(fields[i].key)
                 v == Len(fields[i].value)
             IN  /\ k \in Nat /\ v \in Nat
                 /\ piece(i) \in Seq(Tokens) /\ Len(piece(i)) = k + v + 5
                 /\ piece(i)[1] = "boundary" /\ piece(i)[2] = "crlf"
                 /\ \A j \in 1 .. k : piece(i)[j + 2] = fields[i].key[j]
                 /\ piece(i)[k + 3] = "crlf" /\ piece(i)[k + 4] = "crlf"
                 /\ \A j \in 1 .. v : piece(i)[k + 4 + j] = fields[i].value[j]
                 /\ piece(i)[k + v + 5] = "crlf"
  <2> DEFINE key == fields[i].key
             value == fields[i].value
             a == <<"boundary", "crlf">>
             c == <<"crlf", "crlf">>
             d == <<"crlf">>
             k == Len(key)
             v == Len(value)
  <2>1. key \in Seq(Tokens) /\ value \in Seq(Tokens)
    BY <1>1, SeqMonotonic DEF Part, Field, Text, Tokens
  <2>2. a \in Seq(Tokens) /\ c \in Seq(Tokens) /\ d \in Seq(Tokens)
    BY DEF Tokens
  <2>3. /\ Len(a) = 2 /\ Len(c) = 2 /\ Len(d) = 1
        /\ a[1] = "boundary" /\ a[2] = "crlf" /\ c[1] = "crlf" /\ c[2] = "crlf" /\ d[1] = "crlf"
    OBVIOUS
  <2> DEFINE x == a \o key
             y == x \o c
             z == y \o value
             p == z \o d
  <2>4. p = piece(i)
    OBVIOUS
  <2> HIDE DEF key, value, a, c, d, k, v, piece, ss, last
  <2>5. /\ x \in Seq(Tokens) /\ Len(x) = Len(a) + Len(key)
        /\ \A j \in 1 .. Len(a) : x[j] = a[j]
        /\ \A j \in 1 .. Len(key) : x[Len(a) + j] = key[j]
    BY <2>1, <2>2, Joined
  <2>50. x \in Seq(Tokens)
    BY <2>5
  <2> HIDE DEF x
  <2>6. /\ y \in Seq(Tokens) /\ Len(y) = Len(x) + Len(c)
        /\ \A j \in 1 .. Len(x) : y[j] = x[j]
        /\ \A j \in 1 .. Len(c) : y[Len(x) + j] = c[j]
    BY <2>2, <2>50, Joined
  <2>60. y \in Seq(Tokens)
    BY <2>6
  <2> HIDE DEF y
  <2>7. /\ z \in Seq(Tokens) /\ Len(z) = Len(y) + Len(value)
        /\ \A j \in 1 .. Len(y) : z[j] = y[j]
        /\ \A j \in 1 .. Len(value) : z[Len(y) + j] = value[j]
    BY <2>1, <2>60, Joined
  <2>70. z \in Seq(Tokens)
    BY <2>7
  <2> HIDE DEF z
  <2>8. /\ p \in Seq(Tokens) /\ Len(p) = Len(z) + Len(d)
        /\ \A j \in 1 .. Len(z) : p[j] = z[j]
        /\ \A j \in 1 .. Len(d) : p[Len(z) + j] = d[j]
    BY <2>2, <2>70, Joined
  <2> HIDE DEF p
  <2>9. k = Len(key) /\ v = Len(value) /\ k \in Nat /\ v \in Nat
    BY <2>1, LenProperties DEF k, v
  <2>10. Len(x) = k + 2 /\ Len(y) = k + 4 /\ Len(z) = k + v + 4 /\ Len(p) = k + v + 5
    BY <2>3, <2>5, <2>6, <2>7, <2>8, <2>9
  <2>11. \A j \in 1 .. k + 4 : p[j] = y[j]
    BY <2>7, <2>8, <2>9, <2>10
  <2>12. \A j \in 1 .. k + 2 : p[j] = x[j]
    BY <2>6, <2>9, <2>10, <2>11
  <2>13. p[1] = "boundary" /\ p[2] = "crlf"
    BY <2>3, <2>5, <2>9, <2>12
  <2>14. ASSUME NEW j \in 1 .. k
         PROVE  p[j + 2] = key[j]
    <3>1. j + 2 \in 1 .. k + 2 /\ j + 2 = Len(a) + j
      BY <2>3, <2>9
    <3>2. x[Len(a) + j] = key[j]
      BY <2>5, <2>9
    <3>3. QED  BY <2>12, <3>1, <3>2
  <2>15. p[k + 3] = "crlf" /\ p[k + 4] = "crlf"
    <3>1. 1 \in 1 .. Len(c) /\ 2 \in 1 .. Len(c)
      BY <2>3
    <3>2. y[Len(x) + 1] = "crlf" /\ y[Len(x) + 2] = "crlf"
      BY <2>3, <2>6, <3>1
    <3>3. Len(x) + 1 = k + 3 /\ Len(x) + 2 = k + 4
      BY <2>9, <2>10
    <3>4. QED  BY <2>9, <2>11, <3>2, <3>3
  <2>16. ASSUME NEW j \in 1 .. v
         PROVE  p[k + 4 + j] = value[j]
    <3>1. k + 4 + j \in 1 .. Len(z) /\ k + 4 + j = Len(y) + j
      BY <2>9, <2>10
    <3>2. z[Len(y) + j] = value[j]
      BY <2>7, <2>9
    <3>3. QED  BY <2>8, <3>1, <3>2
  <2>17. p[k + v + 5] = "crlf"
    <3>1. 1 \in 1 .. Len(d) /\ Len(z) + 1 = k + v + 5
      BY <2>3, <2>9, <2>10
    <3>2. p[Len(z) + 1] = d[1]
      BY <2>8, <3>1
    <3>3. QED  BY <2>3, <3>1, <3>2
  <2>18. QED
    BY <2>4, <2>8, <2>9, <2>10, <2>13, <2>14, <2>15, <2>16, <2>17 DEF k, v, key, value
<1>3. \A i \in 1 .. Len(fields) : ss[i] = piece(i)
  BY <1>1
<1>4. ss \in Seq(Seq(Tokens)) /\ Len(ss) = Len(fields)
  <2>1. \A i \in 1 .. Len(fields) : piece(i) \in Seq(Tokens)
    BY <1>2
  <2> HIDE DEF piece
  <2>2. QED  BY <1>1, <2>1
<1>5. MultipartBody(fields) = FlattenSeq(ss) \o last
  BY DEF MultipartBody
<1>6. last \in Seq(Tokens)
  BY DEF Tokens
<1>6a. Len(last) = 2 /\ last[1] = "boundary"
  OBVIOUS
<1> HIDE DEF piece, ss, last
<1>7. \A i \in 1 .. Len(ss) : Len(ss[i]) >= 1 /\ ss[i][1] = "boundary"
  <2> TAKE i \in 1 .. Len(ss)
  <2>1. i \in 1 .. Len(fields) /\ ss[i] = piece(i)
    BY <1>3, <1>4
  <2> DEFINE k == Len(fields[i].key)
             v == Len(fields[i].value)
  <2>2. k \in Nat /\ v \in Nat /\ Len(piece(i)) = k + v + 5 /\ piece(i)[1] = "boundary"
    BY <1>2, <2>1
  <2> HIDE DEF k, v
  <2>3. QED  BY <2>1, <2>2
<1> DEFINE flat == FlattenSeq(ss)
<1>80. flat \in Seq(Tokens)
  BY <1>1, <1>4, <1>7, FlattenBegins
<1>8. /\ flat \in Seq(Tokens) /\ Len(flat) >= Len(ss[1])
      /\ \A j \in 1 .. Len(ss[1]) : flat[j] = ss[1][j]
      /\ Len(flat) > Len(ss[1]) => flat[Len(ss[1]) + 1] = "boundary"
  BY <1>1, <1>4, <1>7, FlattenBegins
<1> HIDE DEF flat
<1>9. Len(flat) \in Nat
  BY <1>8, LenProperties
<1> DEFINE body == flat \o last
<1>10. /\ body \in Seq(Tokens) /\ Len(body) = Len(flat) + Len(last)
       /\ \A j \in 1 .. Len(flat) : body[j] = flat[j]
       /\ \A j \in 1 .. Len(last) : body[Len(flat) + j] = last[j]
  BY <1>6, <1>80, Joined
<1> HIDE DEF body
<1>11. 1 \in 1 .. Len(fields) /\ ss[1] = piece(1)
  BY <1>1, <1>3
<1> DEFINE key == fields[1].key
           value == fields[1].value
           k == Len(key)
           v == Len(value)
<1>12. /\ k \in Nat /\ v \in Nat /\ Len(ss[1]) = k + v + 5
       /\ ss[1][1] = "boundary" /\ ss[1][2] = "crlf"
       /\ \A j \in 1 .. k : ss[1][j + 2] = key[j]
       /\ ss[1][k + 3] = "crlf" /\ ss[1][k + 4] = "crlf"
       /\ \A j \in 1 .. v : ss[1][k + 4 + j] = value[j]
       /\ ss[1][k + v + 5] = "crlf"
  BY <1>2, <1>11, ZenonT(30)
<1> HIDE DEF key, value, k, v
<1>12a. /\ k \in Nat /\ v \in Nat /\ Len(ss[1]) = k + v + 5
        /\ Len(flat) \in Nat /\ Len(flat) >= k + v + 5
  BY <1>8, <1>9, <1>12
<1>13. ASSUME NEW j \in 1 .. k + v + 5
       PROVE  body[j] = ss[1][j]
  <2>1. j \in 1 .. Len(ss[1]) /\ j \in 1 .. Len(flat)
    BY <1>12a
  <2>2. flat[j] = ss[1][j]
    BY <1>8, <2>1
  <2>3. body[j] = flat[j]
    BY <1>10, <2>1
  <2>4. QED  BY <2>2, <2>3
<1>14. body[k + v + 6] = "boundary" /\ Len(body) >= k + v + 6
  <2>1. CASE Len(flat) >= k + v + 6
    <3>1. k + v + 6 \in 1 .. Len(flat) /\ k + v + 6 = Len(ss[1]) + 1 /\ Len(flat) > Len(ss[1])
      BY <1>9, <1>12, <2>1
    <3>2. body[k + v + 6] = flat[k + v + 6]
      BY <1>10, <3>1
    <3>3. QED  BY <1>8, <1>9, <1>10, <1>12, <1>6a, <2>1, <3>1, <3>2
  <2>2. CASE ~(Len(flat) >= k + v + 6)
    <3>0. Len(flat) = k + v + 5
      BY <1>12a, <2>2
    <3>1. k + v + 6 = Len(flat) + 1 /\ 1 \in 1 .. Len(last)
      BY <1>12, <1>6a, <3>0
    <3>2. body[Len(flat) + 1] = last[1]
      BY <1>10, <3>1
    <3>3. QED  BY <1>9, <1>10, <1>6a, <3>1, <3>2
  <2>3. QED  BY <2>1, <2>2
<1>15. Laid(body, key, value)
  <2>1. {1, 2, k + 3, k + 4, k + v + 5} \subseteq 1 .. k + v + 5
    BY <1>12a
  <2>2. body[1] = "boundary" /\ body[2] = "crlf" /\ body[k + 3] = "crlf" /\ body[k + 4] = "crlf"
        /\ body[k + v + 5] = "crlf"
    BY <1>12, <1>13, <2>1
  <2>3. ASSUME NEW j \in 1 .. k
        PROVE  body[j + 2] = key[j]
    <3>1. j + 2 \in 1 .. k + v + 5
      BY <1>12a
    <3>2. QED  BY <1>12, <1>13, <3>1
  <2>4. ASSUME NEW j \in 1 .. v
        PROVE  body[k + 4 + j] = value[j]
    <3>1. k + 4 + j \in 1 .. k + v + 5
      BY <1>12a
    <3>2. QED  BY <1>12, <1>13, <3>1
  <2>5. QED  BY <1>10, <1>14, <2>2, <2>3, <2>4 DEF Laid, k, v
<1>16. QED  BY <1>5, <1>15 DEF body, flat, key, value

(* A part of a sequence, place by place.                                   *)
LEMMA Slice ==
  ASSUME NEW S, NEW s \in Seq(S), NEW m \in Nat, m >= 1, NEW n \in Nat, n >= m - 1, n <= Len(s)
  PROVE  /\ SubSeq(s, m, n) \in Seq(S) /\ Len(SubSeq(s, m, n)) = n - m + 1
         /\ \A i \in 1 .. n - m + 1 : SubSeq(s, m, n)[i] = s[m + i - 1]
<1>1. \A i \in m .. n : s[i] \in S
  BY LenProperties, ElementOfSeq
<1>2. QED  BY <1>1, SubSeqProperties

(* What the server reads out of such a body is the first file.             *)
LEMMA FirstPartIsLaid ==
  ASSUME NEW key \in Seq(Tokens), NEW value \in Seq(Tokens), NEW body,
         Laid(body, key, value), key # <<>>,
         \A i \in 1 .. Len(key) : key[i] = "crlf" => i < Len(key) /\ key[i + 1] # "crlf",
         \A i \in 1 .. Len(key) : key[i] # "boundary",
         \A i \in 1 .. Len(value) : value[i] # "boundary",
         (\E i \in 1 .. Len(key) : key[i] \in DOMAIN Filename) => key[1] \in DOMAIN Filename
  PROVE  FirstPart(body).status # "400" => /\ FirstPart(body).name = Filename[key[1]]
                                           /\ FirstPart(body).content = value
<1> DEFINE k == Len(key)
           v == Len(value)
           n == Len(body)
           rest == After(body, FirstPlace(body, "boundary"))
           text == IF rest # <<>> /\ Head(rest) = "crlf" THEN Tail(rest) ELSE rest
           part == SubSeq(text, 1, FirstPlace(text, "boundary") - 1)
           header == SubSeq(part, 1, BlankLine(part) - 1)
           content == FileContent(After(part, BlankLine(part) + 1))
<1>1. k \in Nat /\ v \in Nat /\ n \in Nat /\ n >= k + v + 6 /\ k >= 1 /\ body \in Seq(Tokens)
  BY LenProperties, EmptySeq DEF Laid
<1>2. /\ body[1] = "boundary" /\ body[2] = "crlf"
      /\ \A i \in 1 .. k : body[i + 2] = key[i]
      /\ body[k + 3] = "crlf" /\ body[k + 4] = "crlf"
      /\ \A i \in 1 .. v : body[k + 4 + i] = value[i]
      /\ body[k + v + 5] = "crlf" /\ body[k + v + 6] = "boundary"
  BY DEF Laid
<1>3. /\ \A i \in 1 .. k : key[i] = "crlf" => i < k /\ key[i + 1] # "crlf"
      /\ \A i \in 1 .. k : key[i] # "boundary"
      /\ \A i \in 1 .. v : value[i] # "boundary"
  OBVIOUS
<1>4. FirstPart(body).status # "400" => /\ FirstPart(body).name = extractFileName(header)
                                        /\ FirstPart(body).content = content
                                        /\ extractFileName(header) # ""
  BY DEF FirstPart, Bad
<1> HIDE DEF k, v, n, rest, text, part, header, content
<1>5. FirstPlace(body, "boundary") = 1
  <2> DEFINE one == 1
  <2>1. one \in 1 .. Len(body) /\ Len(body) \in Nat /\ body[one] = "boundary"
    BY <1>1, <1>2 DEF n
  <2>2. \A l \in 1 .. one - 1 : body[l] # "boundary"
    OBVIOUS
  <2> HIDE DEF one
  <2>3. FirstPlace(body, "boundary") = one
    BY <2>1, <2>2, PlaceIsFirst
  <2>4. QED  BY <2>3 DEF one
<1>6. rest \in Seq(Tokens) /\ Len(rest) = n - 1 /\ \A i \in 1 .. n - 1 : rest[i] = body[i + 1]
  <2>1. rest = SubSeq(body, 2, n)
    BY <1>5 DEF rest, After, n
  <2>2. /\ SubSeq(body, 2, n) \in Seq(Tokens) /\ Len(SubSeq(body, 2, n)) = n - 2 + 1
        /\ \A i \in 1 .. n - 2 + 1 : SubSeq(body, 2, n)[i] = body[2 + i - 1]
    BY <1>1, Slice DEF n
  <2>3. QED  BY <1>1, <2>1, <2>2
<1>7. rest # <<>> /\ Head(rest) = "crlf"
  <2>1. rest # <<>>
    BY <1>1, <1>6, EmptySeq
  <2>2. Head(rest) = rest[1]
    BY <1>6, <2>1
  <2>3. 1 \in 1 .. n - 1 /\ 1 + 1 = 2
    BY <1>1
  <2>4. rest[1] = body[2]
    BY <1>6, <2>3
  <2>5. QED  BY <1>2, <2>1, <2>2, <2>4
<1>8. text \in Seq(Tokens) /\ Len(text) = n - 2 /\ \A i \in 1 .. n - 2 : text[i] = body[i + 2]
  <2>1. text = Tail(rest)
    BY <1>7 DEF text
  <2>2. /\ Tail(rest) \in Seq(Tokens) /\ Len(Tail(rest)) = Len(rest) - 1
        /\ \A i \in 1 .. Len(Tail(rest)) : Tail(rest)[i] = rest[i + 1]
    BY <1>6, <1>7, HeadTailProperties
  <2>3. ASSUME NEW i \in 1 .. n - 2
        PROVE  text[i] = body[i + 2]
    <3>1. i + 1 \in 1 .. n - 1 /\ i \in 1 .. Len(Tail(rest)) /\ (i + 1) + 1 = i + 2
      BY <1>1, <1>6, <2>2
    <3>2. text[i] = rest[i + 1] /\ rest[i + 1] = body[(i + 1) + 1]
      BY <1>6, <2>1, <2>2, <3>1
    <3>3. QED  BY <3>1, <3>2
  <2>4. Len(text) = n - 2
    BY <1>1, <1>6, <2>1, <2>2
  <2>5. QED  BY <2>1, <2>2, <2>3, <2>4
<1>9. /\ \A i \in 1 .. k : text[i] = key[i]
      /\ text[k + 1] = "crlf" /\ text[k + 2] = "crlf"
      /\ \A i \in 1 .. v : text[k + 2 + i] = value[i]
      /\ text[k + v + 3] = "crlf" /\ text[k + v + 4] = "boundary"
  <2>1. \A i \in 1 .. k : text[i] = key[i]
    BY <1>1, <1>2, <1>8
  <2>0. /\ {k + 1, k + 2, k + v + 3, k + v + 4} \subseteq 1 .. n - 2
        /\ (k + 1) + 2 = k + 3 /\ (k + 2) + 2 = k + 4
        /\ (k + v + 3) + 2 = k + v + 5 /\ (k + v + 4) + 2 = k + v + 6
    BY <1>1
  <2>2. text[k + 1] = body[k + 3] /\ text[k + 2] = body[k + 4]
    BY <1>8, <2>0
  <2>3. text[k + v + 3] = body[k + v + 5] /\ text[k + v + 4] = body[k + v + 6]
    BY <1>8, <2>0
  <2>4. ASSUME NEW i \in 1 .. v
        PROVE  text[k + 2 + i] = value[i]
    <3>1. k + 2 + i \in 1 .. n - 2 /\ (k + 2 + i) + 2 = k + 4 + i
      BY <1>1
    <3>2. text[k + 2 + i] = body[k + 4 + i]
      BY <1>8, <3>1
    <3>3. QED  BY <1>2, <3>2
  <2>5. QED  BY <1>2, <2>1, <2>2, <2>3, <2>4
<1>10. FirstPlace(text, "boundary") = k + v + 4
  <2>1. k + v + 4 \in 1 .. Len(text) /\ Len(text) \in Nat
    BY <1>1, <1>8
  <2>2. ASSUME NEW j \in 1 .. (k + v + 4) - 1
        PROVE  text[j] # "boundary"
    <3>1. CASE j \in 1 .. k
      BY <1>3, <1>9, <3>1
    <3>2. CASE j \in {k + 1, k + 2, k + v + 3}
      BY <1>9, <3>2
    <3>3. CASE j - (k + 2) \in 1 .. v
      <4>1. k + 2 + (j - (k + 2)) = j
        BY <1>1
      <4>2. text[j] = value[j - (k + 2)]
        BY <1>9, <3>3, <4>1
      <4>3. QED  BY <1>3, <3>3, <4>2
    <3>4. j \in 1 .. k \/ j \in {k + 1, k + 2, k + v + 3} \/ j - (k + 2) \in 1 .. v
      BY <1>1
    <3>5. QED  BY <3>1, <3>2, <3>3, <3>4
  <2>3. text[k + v + 4] = "boundary"
    BY <1>9
  <2> DEFINE at == k + v + 4
  <2>4. /\ at \in 1 .. Len(text) /\ Len(text) \in Nat /\ text[at] = "boundary"
        /\ \A j \in 1 .. at - 1 : text[j] # "boundary"
    BY <2>1, <2>2, <2>3
  <2> HIDE DEF at
  <2>5. FirstPlace(text, "boundary") = at
    BY <2>4, PlaceIsFirst
  <2>6. QED  BY <2>5 DEF at
<1>11. /\ part \in Seq(Tokens) /\ Len(part) = k + v + 3
       /\ \A i \in 1 .. k + v + 3 : part[i] = text[i]
  <2>1. part = SubSeq(text, 1, k + v + 3)
    BY <1>1, <1>10 DEF part
  <2>2. k + v + 3 \in Nat /\ k + v + 3 <= Len(text) /\ k + v + 3 >= 1 - 1
    BY <1>1, <1>8
  <2>3. /\ SubSeq(text, 1, k + v + 3) \in Seq(Tokens)
        /\ Len(SubSeq(text, 1, k + v + 3)) = (k + v + 3) - 1 + 1
        /\ \A i \in 1 .. (k + v + 3) - 1 + 1 : SubSeq(text, 1, k + v + 3)[i] = text[1 + i - 1]
    BY <1>8, <2>2, Slice, SMTT(30)
  <2>4. QED  BY <1>1, <2>1, <2>3
<1>12. BlankLine(part) = k + 1
  <2>1. k + 1 \in 1 .. Len(part) - 1 /\ Len(part) \in Nat /\ (k + 1) + 1 = k + 2
    BY <1>1, <1>11
  <2>2. part[k + 1] = "crlf" /\ part[k + 2] = "crlf"
    BY <1>1, <1>9, <1>11
  <2>3. ASSUME NEW j \in 1 .. (k + 1) - 1
        PROVE  part[j] # "crlf" \/ part[j + 1] # "crlf"
    <3>1. j \in 1 .. k /\ part[j] = key[j]
      BY <1>1, <1>9, <1>11
    <3>2. CASE key[j] = "crlf"
      <4>1. j < k /\ key[j + 1] # "crlf"
        BY <1>3, <3>1, <3>2
      <4>2. j + 1 \in 1 .. k /\ j + 1 \in 1 .. k + v + 3
        BY <1>1, <4>1
      <4>3. part[j + 1] = key[j + 1]
        BY <1>9, <1>11, <4>2
      <4>4. QED  BY <4>1, <4>3
    <3>3. QED  BY <3>1, <3>2
  <2>4. QED  BY <2>1, <2>2, <2>3, BlankLineIsFirst
<1>13. header = key
  <2>1. header = SubSeq(part, 1, k)
    BY <1>1, <1>12 DEF header
  <2>2. /\ SubSeq(part, 1, k) \in Seq(Tokens) /\ Len(SubSeq(part, 1, k)) = k - 1 + 1
        /\ \A i \in 1 .. k - 1 + 1 : SubSeq(part, 1, k)[i] = part[1 + i - 1]
    <3>1. k \in Nat /\ k >= 1 - 1 /\ k <= Len(part)
      BY <1>1, <1>11
    <3>2. QED  BY <1>11, <3>1, Slice, SMTT(30)
  <2>3. ASSUME NEW i \in 1 .. k
        PROVE  SubSeq(part, 1, k)[i] = key[i]
    <3>1. i \in 1 .. k - 1 + 1 /\ 1 + i - 1 = i /\ i \in 1 .. k + v + 3
      BY <1>1
    <3>2. SubSeq(part, 1, k)[i] = part[i]
      BY <2>2, <3>1
    <3>3. QED  BY <1>9, <1>11, <3>1, <3>2
  <2>4. Len(SubSeq(part, 1, k)) = Len(key)
    BY <1>1, <2>2 DEF k
  <2>5. SubSeq(part, 1, k) = key
    BY <2>2, <2>3, <2>4, SeqEqual DEF k
  <2>6. QED  BY <2>1, <2>5
<1> DEFINE body2 == After(part, k + 2)
<1>14. /\ body2 \in Seq(Tokens) /\ Len(body2) = v + 1
       /\ \A i \in 1 .. v + 1 : body2[i] = part[k + 2 + i]
  <2>1. body2 = SubSeq(part, k + 3, k + v + 3)
    <3>1. (k + 2) + 1 = k + 3 /\ Len(part) = k + v + 3
      BY <1>1, <1>11
    <3>2. QED  BY <3>1 DEF After
  <2>2. /\ SubSeq(part, k + 3, k + v + 3) \in Seq(Tokens)
        /\ Len(SubSeq(part, k + 3, k + v + 3)) = (k + v + 3) - (k + 3) + 1
        /\ \A i \in 1 .. (k + v + 3) - (k + 3) + 1 :
             SubSeq(part, k + 3, k + v + 3)[i] = part[(k + 3) + i - 1]
    <3>1. /\ k + 3 \in Nat /\ k + 3 >= 1 /\ k + v + 3 \in Nat
          /\ k + v + 3 >= (k + 3) - 1 /\ k + v + 3 <= Len(part)
      BY <1>1, <1>11
    <3>2. QED  BY <1>11, <3>1, Slice, SMTT(30)
  <2>3. (k + v + 3) - (k + 3) + 1 = v + 1
    BY <1>1
  <2>4. ASSUME NEW i \in 1 .. v + 1
        PROVE  body2[i] = part[k + 2 + i]
    <3>1. (k + 3) + i - 1 = k + 2 + i
      BY <1>1
    <3>2. QED  BY <2>1, <2>2, <2>3, <3>1
  <2>5. QED  BY <2>1, <2>2, <2>3, <2>4
<1>15. content = FileContent(body2)
  BY <1>1, <1>12 DEF content
<1> HIDE DEF body2
<1>16. body2[v + 1] = "crlf" /\ \A i \in 1 .. v : body2[i] = value[i]
  <2>1. k + 2 + (v + 1) = k + v + 3 /\ k + v + 3 \in 1 .. k + v + 3
    BY <1>1
  <2>2. body2[v + 1] = part[k + v + 3] /\ part[k + v + 3] = "crlf"
    BY <1>1, <1>9, <1>11, <1>14, <2>1
  <2>3. ASSUME NEW i \in 1 .. v
        PROVE  body2[i] = value[i]
    <3>1. i \in 1 .. v + 1 /\ k + 2 + i \in 1 .. k + v + 3
      BY <1>1
    <3>2. body2[i] = part[k + 2 + i] /\ part[k + 2 + i] = text[k + 2 + i]
      BY <1>11, <1>14, <3>1
    <3>3. QED  BY <1>9, <3>2
  <2>4. QED  BY <2>2, <2>3
<1>17. FileContent(body2) = value
  <2>1. body2 # <<>> /\ Last(body2) = "crlf"
    <3>1. Last(body2) = body2[v + 1]
      BY <1>14 DEF Last
    <3>2. body2 # <<>>
      BY <1>1, <1>14, EmptySeq
    <3>3. QED  BY <1>16, <3>1, <3>2
  <2>2. FileContent(body2) = SubSeq(body2, 1, v)
    <3>1. Len(body2) - 1 = v
      BY <1>1, <1>14
    <3>2. QED  BY <2>1, <3>1 DEF FileContent, Front
  <2>3. /\ SubSeq(body2, 1, v) \in Seq(Tokens) /\ Len(SubSeq(body2, 1, v)) = v - 1 + 1
        /\ \A i \in 1 .. v - 1 + 1 : SubSeq(body2, 1, v)[i] = body2[1 + i - 1]
    <3>1. v >= 1 - 1 /\ v <= Len(body2)
      BY <1>1, <1>14
    <3>2. QED  BY <1>1, <1>14, <3>1, Slice
  <2>4. \A i \in 1 .. v : SubSeq(body2, 1, v)[i] = value[i]
    BY <1>1, <1>16, <2>3
  <2>5. Len(SubSeq(body2, 1, v)) = Len(value)
    BY <1>1, <2>3 DEF v
  <2>6. SubSeq(body2, 1, v) = value
    BY <2>3, <2>4, <2>5, SeqEqual DEF v
  <2>7. QED  BY <2>2, <2>6
<1>18. DOMAIN key = 1 .. Len(key)
  BY LenProperties
<1>19. extractFileName(key) # "" => extractFileName(key) = Filename[key[1]]
  BY <1>18, FileOfHeader
<1>20. QED  BY <1>4, <1>13, <1>15, <1>17, <1>19

(* A body without parts is refused.                                        *)
LEMMA NoPartIsRefused == FirstPart(MultipartBody(<<>>)).status = "400"
<1> DEFINE ss == [i \in DOMAIN <<>> |->
                    <<"boundary", "crlf">> \o <<>>[i].key \o <<"crlf", "crlf">>
                      \o <<>>[i].value \o <<"crlf">>]
           body == <<"boundary", "--">>
           rest == After(body, FirstPlace(body, "boundary"))
           text == IF rest # <<>> /\ Head(rest) = "crlf" THEN Tail(rest) ELSE rest
<1>1. MultipartBody(<<>>) = body
  <2>1. ss = <<>>
    OBVIOUS
  <2> HIDE DEF ss
  <2>2. FlattenSeq(ss) = <<>>
    BY <2>1 DEF FlattenSeq
  <2>3. <<>> \o body = body
    OBVIOUS
  <2>4. QED  BY <2>2, <2>3 DEF MultipartBody, ss
<1>2. FirstPlace(body, "boundary") = 1
  <2> DEFINE one == 1
  <2>1. one \in 1 .. Len(body) /\ Len(body) \in Nat /\ body[one] = "boundary"
    OBVIOUS
  <2>2. \A l \in 1 .. one - 1 : body[l] # "boundary"
    OBVIOUS
  <2> HIDE DEF one, body
  <2>3. FirstPlace(body, "boundary") = one
    BY <2>1, <2>2, PlaceIsFirst
  <2>4. QED  BY <2>3 DEF one
<1>3. rest = <<"--">>
  <2> DEFINE end == <<"--">>
  <2>1. body \in Seq(Tokens) /\ Len(body) = 2 /\ body[2] = "--"
    BY DEF Tokens
  <2>2. end \in Seq(Tokens) /\ Len(end) = 1 /\ end[1] = "--"
    BY DEF Tokens
  <2>3. rest = SubSeq(body, 2, 2)
    BY <1>2, <2>1 DEF After
  <2> HIDE DEF body, rest, end
  <2>4. /\ SubSeq(body, 2, 2) \in Seq(Tokens) /\ Len(SubSeq(body, 2, 2)) = 1
        /\ SubSeq(body, 2, 2)[1] = "--"
    BY <2>1, Slice
  <2>5. rest = end
    BY <2>2, <2>3, <2>4, SeqEqual
  <2>6. QED  BY <2>5 DEF end
<1>4. text = <<"--">>
  BY <1>3
<1>5. FirstPlace(text, "boundary") = 0
  <2>1. \A j \in 1 .. Len(<<"--">>) : <<"--">>[j] # "boundary"
    OBVIOUS
  <2>2. FirstPlace(<<"--">>, "boundary") = 0
    BY <2>1, PlaceIsNone
  <2>3. QED  BY <1>4, <2>2
<1> HIDE DEF body
<1>6. FirstPart(body).status = "400"
  BY <1>5 DEF FirstPart, Bad
<1>7. QED  BY <1>1, <1>6

(* What a browser has written into the body is read out of it.             *)
THEOREM FirstFileIsRead ==
  ASSUME NEW fields \in Seq(Part), FirstPart(MultipartBody(fields)).status # "400"
  PROVE  /\ FirstPart(MultipartBody(fields)).name = Filename[fields[1].key[1]]
         /\ FirstPart(MultipartBody(fields)).content = fields[1].value
<1> DEFINE body == MultipartBody(fields)
           key == fields[1].key
           value == fields[1].value
<1>1. fields # <<>>
  BY NoPartIsRefused
<1>2. fields[1] \in Part
  BY <1>1, EmptySeq, LenProperties, ElementOfSeq
<1>3. key \in Seq(STRING) /\ value \in Seq(STRING)
  BY <1>2 DEF Part, Field, Text
<1>4. key \in Seq(Tokens) /\ value \in Seq(Tokens)
  BY <1>3, SeqMonotonic DEF Tokens
<1>5. DOMAIN key = 1 .. Len(key) /\ DOMAIN value = 1 .. Len(value)
  BY <1>3, LenProperties
<1>6. Laid(body, key, value)
  BY <1>1, MultipartIsLaid
<1>7. /\ key # <<>>
      /\ \A i \in 1 .. Len(key) : key[i] = "crlf" => i < Len(key) /\ key[i + 1] # "crlf"
      /\ \A i \in 1 .. Len(key) : key[i] # "boundary"
      /\ \A i \in 1 .. Len(value) : value[i] # "boundary"
      /\ (\E i \in 1 .. Len(key) : key[i] \in DOMAIN Filename) => key[1] \in DOMAIN Filename
  BY <1>2, <1>5 DEF Part
<1> HIDE DEF body, key, value
<1>8. FirstPart(body).name = Filename[key[1]] /\ FirstPart(body).content = value
  BY <1>4, <1>6, <1>7, FirstPartIsLaid DEF body
<1>9. QED  BY <1>8 DEF body, key, value

-----------------------------------------------------------------------------
(* Forms: what a browser encodes, urlDecode decodes.                       *)

Signs == STRING \cup {"%", "&", "+", "=", " ", "2", "3", "5", "6", "b", "d"}

(* What an encoded text is made of.                                        *)
Plain == Signs \ {"&", "="}

LEMMA CharOfCode ==
  ASSUME NEW c \in Special
  PROVE  Char(Code(c)) = c
<1>1. \A d \in Special : Code(d) = Code(c) => d = c
  BY DEF Special, Code
<1>2. \E d \in Special : Code(d) = Code(c)
  OBVIOUS
<1> DEFINE d == CHOOSE x \in Special : Code(x) = Code(c)
<1>3. d \in Special /\ Code(d) = Code(c)
  BY <1>2
<1>4. Char(Code(c)) = d
  BY <1>2 DEF Char
<1>5. QED  BY <1>1, <1>3, <1>4

(* The two digits of an escape are read as the code they stand for.        *)
LEMMA EscapeIsRead ==
  /\ ReadHex("2", "5") = Code("%") /\ ReadHex("2", "6") = Code("&")
  /\ ReadHex("2", "b") = Code("+") /\ ReadHex("3", "d") = Code("=")
  /\ \A c \in Special : Code(c) # -1
BY DEF ReadHex, Digits, Hex, Code, Special

(* A character is written as itself, or as something that reads as it.     *)
LEMMA EncodingIs ==
  ASSUME NEW c \in STRING
  PROVE  /\ Encoding(c) \in Seq(Plain)
         /\ \/ /\ Len(Encoding(c)) = 1 /\ Encoding(c)[1] # "%"
               /\ c = IF Encoding(c)[1] = "+" THEN " " ELSE Encoding(c)[1]
            \/ /\ Len(Encoding(c)) = 3 /\ Encoding(c)[1] = "%"
               /\ ReadHex(Encoding(c)[2], Encoding(c)[3]) # -1
               /\ c = Char(ReadHex(Encoding(c)[2], Encoding(c)[3]))
<1>1. ASSUME c \in Special, NEW a \in Plain, NEW b \in Plain,
             Encoding(c) = <<"%", a, b>>, ReadHex(a, b) = Code(c)
      PROVE  /\ Encoding(c) \in Seq(Plain)
             /\ Len(Encoding(c)) = 3 /\ Encoding(c)[1] = "%"
             /\ ReadHex(Encoding(c)[2], Encoding(c)[3]) # -1
             /\ c = Char(ReadHex(Encoding(c)[2], Encoding(c)[3]))
  <2>1. "%" \in Plain
    BY DEF Plain, Signs
  <2>2. Encoding(c)[2] = a /\ Encoding(c)[3] = b
    BY <1>1
  <2>3. QED  BY <1>1, <2>1, <2>2, CharOfCode, EscapeIsRead
<1>2. {"2", "3", "5", "6", "b", "d"} \subseteq Plain
  BY DEF Plain, Signs
<1>3. CASE c = "%"
  <2>1. c \in Special /\ Encoding(c) = <<"%", "2", "5">>
    BY <1>3 DEF Special, Encoding
  <2>2. ReadHex("2", "5") = Code(c)
    BY <1>3, EscapeIsRead
  <2>3. QED  BY <1>1, <1>2, <2>1, <2>2
<1>4. CASE c = "&"
  <2>1. c \in Special /\ Encoding(c) = <<"%", "2", "6">>
    BY <1>4 DEF Special, Encoding
  <2>2. ReadHex("2", "6") = Code(c)
    BY <1>4, EscapeIsRead
  <2>3. QED  BY <1>1, <1>2, <2>1, <2>2
<1>5. CASE c = "+"
  <2>1. c \in Special /\ Encoding(c) = <<"%", "2", "b">>
    BY <1>5 DEF Special, Encoding
  <2>2. ReadHex("2", "b") = Code(c)
    BY <1>5, EscapeIsRead
  <2>3. QED  BY <1>1, <1>2, <2>1, <2>2
<1>6. CASE c = "="
  <2>1. c \in Special /\ Encoding(c) = <<"%", "3", "d">>
    BY <1>6 DEF Special, Encoding
  <2>2. ReadHex("3", "d") = Code(c)
    BY <1>6, EscapeIsRead
  <2>3. QED  BY <1>1, <1>2, <2>1, <2>2
<1>7. ASSUME NEW d \in Plain, Encoding(c) = <<d>>, d # "%", c = IF d = "+" THEN " " ELSE d
      PROVE  /\ Encoding(c) \in Seq(Plain)
             /\ Len(Encoding(c)) = 1 /\ Encoding(c)[1] # "%"
             /\ c = IF Encoding(c)[1] = "+" THEN " " ELSE Encoding(c)[1]
  <2>1. <<d>> \in Seq(Plain) /\ Len(<<d>>) = 1 /\ <<d>>[1] = d
    OBVIOUS
  <2>2. QED  BY <1>7, <2>1
<1>8. CASE c = " "
  <2>1. Encoding(c) = <<"+">>
    BY <1>8 DEF Encoding
  <2>2. "+" \in Plain
    BY DEF Plain, Signs
  <2>3. QED  BY <1>7, <1>8, <2>1, <2>2
<1>9. CASE c \notin {"%", "&", "+", "=", " "}
  <2>1. Encoding(c) = <<c>>
    BY <1>9 DEF Encoding
  <2>2. c \in Plain
    BY <1>9 DEF Plain, Signs
  <2>3. QED  BY <1>7, <1>9, <2>1, <2>2
<1>10. QED  BY <1>3, <1>4, <1>5, <1>6, <1>8, <1>9

(* urlDecode from each place on.                                           *)
Decoding(str, f, i) ==
  IF i > Len(str) THEN <<>>
  ELSE IF IsEscape(str, i)
       THEN <<Char(ReadHex(str[i + 1], str[i + 2]))>> \o f[i + 3]
       ELSE <<IF str[i] = "+" THEN " " ELSE str[i]>> \o f[i + 1]
Decoded(str) == CHOOSE f : f = [i \in 1 .. Len(str) + 3 |-> Decoding(str, f, i)]

LEMMA DecodeIsDecoded ==
  ASSUME NEW str
  PROVE  urlDecode(str) = Decoded(str)[1]
BY DEF urlDecode, Decoded, Decoding

(* It goes on to the right, and ends.                                      *)
LEMMA DecodedExists ==
  ASSUME NEW str, Len(str) \in Nat
  PROVE  \A i \in 1 .. Len(str) + 3 : Decoded(str)[i] = Decoding(str, Decoded(str), i)
<1> DEFINE n == Len(str)
           UpTo(f, m) == /\ f = [i \in 1 .. n + 3 |-> f[i]]
                         /\ \A i \in 1 .. n + 3 : i + m > n => f[i] = Decoding(str, f, i)
           T == {m \in Nat : ~ \E f : UpTo(f, m)}
<1>1. n \in Nat
  OBVIOUS
<1>2. \A f : \A i \in 1 .. n + 3 : i > n => Decoding(str, f, i) = <<>>
  BY DEF Decoding
<1>3. \A f, g : \A i \in 1 .. n :
        f[i + 1] = g[i + 1] /\ f[i + 3] = g[i + 3] => Decoding(str, f, i) = Decoding(str, g, i)
  BY DEF Decoding
<1> HIDE DEF n
<1>4. 0 \notin T
  <2> DEFINE f == [i \in 1 .. n + 3 |-> <<>>]
  <2>1. f = [i \in 1 .. n + 3 |-> f[i]] /\ \A i \in 1 .. n + 3 : f[i] = <<>>
    OBVIOUS
  <2> HIDE DEF f
  <2>2. \A i \in 1 .. n + 3 : i + 0 > n => i > n
    BY <1>1
  <2>3. UpTo(f, 0)
    BY <1>2, <2>1, <2>2
  <2>4. QED  BY <2>3
<1>5. ASSUME NEW m \in Nat, m + 1 \in T
      PROVE  m \in T
  <2> SUFFICES ASSUME NEW f, UpTo(f, m) PROVE FALSE
    BY <1>5
  <2> DEFINE g == [i \in 1 .. n + 3 |-> Decoding(str, f, i)]
  <2>1. \A i \in 1 .. n + 3 : g[i] = Decoding(str, f, i)
    OBVIOUS
  <2>2. g = [i \in 1 .. n + 3 |-> g[i]]
    OBVIOUS
  <2> HIDE DEF g
  <2>3. ASSUME NEW i \in 1 .. n + 3, i + (m + 1) > n
        PROVE  g[i] = Decoding(str, g, i)
    <3>1. CASE i > n
      BY <1>2, <2>1, <3>1
    <3>2. CASE ~(i > n)
      <4>1. /\ i \in 1 .. n
            /\ i + 1 \in 1 .. n + 3 /\ (i + 1) + m > n
            /\ i + 3 \in 1 .. n + 3 /\ (i + 3) + m > n
        BY <1>1, <2>3, <3>2
      <4>2. g[i + 1] = f[i + 1] /\ g[i + 3] = f[i + 3]
        BY <2>1, <4>1
      <4>3. QED  BY <1>3, <2>1, <4>1, <4>2
    <3>3. QED  BY <3>1, <3>2
  <2>4. UpTo(g, m + 1)
    BY <2>2, <2>3
  <2>5. QED  BY <1>5, <2>4
<1>6. T = {}
  <2>1. T \in SUBSET Nat
    OBVIOUS
  <2> HIDE DEF T
  <2>2. QED  BY <1>4, <1>5, <2>1, Descent
<1>7. PICK f : UpTo(f, n)
  BY <1>1, <1>6
<1>8. \A i \in 1 .. n + 3 : f[i] = Decoding(str, f, i)
  <2>1. \A i \in 1 .. n + 3 : i + n > n
    BY <1>1
  <2>2. QED  BY <1>7, <2>1
<1>9. \E h : h = [i \in 1 .. n + 3 |-> Decoding(str, h, i)]
  BY <1>7, <1>8
<1>10. Decoded(str) = [i \in 1 .. n + 3 |-> Decoding(str, Decoded(str), i)]
  BY <1>9 DEF Decoded, n
<1>11. QED  BY <1>10 DEF n

(* Where each of the pieces stands.                                        *)
LEMMA FlattenPlaces ==
  ASSUME NEW S, NEW ss \in Seq(Seq(S)), Len(ss) >= 1
  PROVE  /\ FlattenSeq(ss) \in Seq(S)
         /\ \E place : /\ place[0] = 0 /\ place[Len(ss)] = Len(FlattenSeq(ss))
                       /\ \A k \in 0 .. Len(ss) :
                            place[k] \in Nat /\ place[k] <= Len(FlattenSeq(ss))
                       /\ \A k \in 1 .. Len(ss) :
                            /\ place[k] = place[k - 1] + Len(ss[k])
                            /\ \A j \in 1 .. Len(ss[k]) :
                                 FlattenSeq(ss)[place[k - 1] + j] = ss[k][j]
<1> DEFINE n == Len(ss)
           all == FlattenSeq(ss)
<1>1. n \in Nat /\ n >= 1 /\ \A i \in 1 .. n : ss[i] \in Seq(S)
  BY LenProperties, ElementOfSeq
<1>2. PICK f : /\ all = f[n] /\ f[1] = ss[1]
               /\ \A i \in 2 .. n : f[i] = f[i - 1] \o ss[i]
               /\ \A i \in 1 .. n : f[i] \in Seq(S)
  BY FlattenSteps
<1> HIDE DEF n, all
<1> DEFINE place == [k \in 0 .. n |-> IF k = 0 THEN 0 ELSE Len(f[k])]
<1>3. place[0] = 0 /\ \A k \in 1 .. n : place[k] = Len(f[k]) /\ place[k] \in Nat
  <2>1. 0 \in 0 .. n /\ \A k \in 1 .. n : k \in 0 .. n /\ k # 0
    BY <1>1
  <2>2. \A k \in 1 .. n : Len(f[k]) \in Nat
    BY <1>2, LenProperties
  <2>3. QED  BY <2>1, <2>2
<1>4. all \in Seq(S) /\ place[n] = Len(all)
  <2>1. n \in 1 .. n
    BY <1>1
  <2>2. QED  BY <1>2, <1>3, <2>1
<1> HIDE DEF place
<1>5. ASSUME NEW k \in 2 .. n
      PROVE  /\ place[k] = place[k - 1] + Len(ss[k])
             /\ \A j \in 1 .. Len(ss[k]) : f[k][place[k - 1] + j] = ss[k][j]
             /\ \A j \in 1 .. place[k - 1] : f[k][j] = f[k - 1][j]
  <2>1. k \in 1 .. n /\ k - 1 \in 1 .. n
    BY <1>1
  <2>2. f[k - 1] \in Seq(S) /\ ss[k] \in Seq(S) /\ f[k] = f[k - 1] \o ss[k]
    BY <1>1, <1>2, <2>1
  <2>3. place[k] = Len(f[k]) /\ place[k - 1] = Len(f[k - 1])
    BY <1>3, <2>1
  <2> DEFINE a == f[k - 1]
             b == ss[k]
  <2>4. a \in Seq(S) /\ b \in Seq(S)
    BY <2>2
  <2> HIDE DEF a, b
  <2>5. /\ Len(a \o b) = Len(a) + Len(b)
        /\ \A j \in 1 .. Len(a) : (a \o b)[j] = a[j]
        /\ \A j \in 1 .. Len(b) : (a \o b)[Len(a) + j] = b[j]
    BY <2>4, Joined
  <2>6. QED  BY <2>2, <2>3, <2>5 DEF a, b
<1>6. /\ place[1] = place[0] + Len(ss[1])
      /\ \A j \in 1 .. Len(ss[1]) : f[1][place[0] + j] = ss[1][j]
  <2>1. 1 \in 1 .. n /\ ss[1] \in Seq(S)
    BY <1>1
  <2>2. Len(ss[1]) \in Nat
    BY <2>1, LenProperties
  <2>3. \A j \in 1 .. Len(ss[1]) : 0 + j = j
    BY <2>2
  <2>4. QED  BY <1>2, <1>3, <2>1, <2>2, <2>3
<1>7. ASSUME NEW k \in 1 .. n
      PROVE  /\ place[k - 1] \in Nat
             /\ place[k] = place[k - 1] + Len(ss[k])
             /\ \A j \in 1 .. Len(ss[k]) : f[k][place[k - 1] + j] = ss[k][j]
  <2>1. CASE k = 1
    BY <1>3, <1>6, <2>1
  <2>2. CASE k # 1
    <3>1. k \in 2 .. n /\ k - 1 \in 1 .. n
      BY <1>1, <2>2
    <3>2. QED  BY <1>3, <1>5, <3>1
  <2>3. QED  BY <2>1, <2>2
<1> DEFINE Stays(k) == place[k] <= Len(all) /\ \A j \in 1 .. place[k] : all[j] = f[k][j]
           T == {m \in Nat : m < n /\ ~Stays(n - m)}
<1>8. 0 \notin T
  <2>1. Stays(n)
    BY <1>2, <1>3, <1>4, LenProperties
  <2>2. n - 0 = n
    BY <1>1
  <2> HIDE DEF Stays
  <2>3. QED  BY <2>1, <2>2
<1>9. ASSUME NEW m \in Nat, m + 1 \in T
      PROVE  m \in T
  <2> DEFINE k == n - m
  <2>1. k \in 2 .. n /\ k \in 1 .. n /\ k - 1 \in 1 .. n /\ n - (m + 1) = k - 1 /\ m < n
    BY <1>1, <1>9
  <2> HIDE DEF k
  <2>2. SUFFICES ASSUME Stays(k) PROVE Stays(k - 1)
    BY <1>9, <2>1 DEF k
  <2>3. Len(ss[k]) \in Nat /\ Len(all) \in Nat
    BY <1>1, <1>4, <2>1, LenProperties
  <2>4. place[k - 1] \in Nat /\ place[k] = place[k - 1] + Len(ss[k])
    BY <1>7, <2>1
  <2>5. place[k - 1] <= Len(all)
    BY <2>2, <2>3, <2>4
  <2>6. ASSUME NEW j \in 1 .. place[k - 1]
        PROVE  all[j] = f[k - 1][j]
    <3>1. j \in 1 .. place[k]
      BY <2>3, <2>4
    <3>2. QED  BY <1>5, <2>1, <2>2, <3>1
  <2>7. QED  BY <2>5, <2>6
<1>10. T = {}
  <2>1. T \in SUBSET Nat
    OBVIOUS
  <2> HIDE DEF T
  <2>2. QED  BY <1>8, <1>9, <2>1, Descent
<1>11. ASSUME NEW k \in 1 .. n
       PROVE  Stays(k)
  <2>1. n - k \in Nat /\ n - k < n /\ n - (n - k) = k
    BY <1>1
  <2> HIDE DEF Stays
  <2>2. n - k \notin T
    BY <1>10
  <2>3. QED  BY <2>1, <2>2
<1>12. \A k \in 0 .. n : place[k] \in Nat /\ place[k] <= Len(all)
  <2>1. \A k \in 0 .. n : k = 0 \/ k \in 1 .. n
    BY <1>1
  <2>2. Len(all) \in Nat
    BY <1>4, LenProperties
  <2>3. QED  BY <1>3, <1>11, <2>1, <2>2
<1>13. ASSUME NEW k \in 1 .. n, NEW j \in 1 .. Len(ss[k])
       PROVE  all[place[k - 1] + j] = ss[k][j]
  <2>1. Len(ss[k]) \in Nat
    BY <1>1, LenProperties
  <2>2. place[k - 1] \in Nat /\ place[k] = place[k - 1] + Len(ss[k])
    BY <1>7
  <2>3. place[k - 1] + j \in 1 .. place[k]
    BY <2>1, <2>2
  <2>4. QED  BY <1>7, <1>11, <2>3
<1>14. /\ place[0] = 0 /\ place[n] = Len(all)
       /\ \A k \in 0 .. n : place[k] \in Nat /\ place[k] <= Len(all)
       /\ \A k \in 1 .. n :
            /\ place[k] = place[k - 1] + Len(ss[k])
            /\ \A j \in 1 .. Len(ss[k]) : all[place[k - 1] + j] = ss[k][j]
  BY <1>3, <1>4, <1>7, <1>12, <1>13
<1>15. \E x : /\ x[0] = 0 /\ x[n] = Len(all)
              /\ \A k \in 0 .. n : x[k] \in Nat /\ x[k] <= Len(all)
              /\ \A k \in 1 .. n :
                   /\ x[k] = x[k - 1] + Len(ss[k])
                   /\ \A j \in 1 .. Len(ss[k]) : all[x[k - 1] + j] = ss[k][j]
  BY <1>14, ZenonT(30)
<1>16. QED  BY <1>4, <1>15 DEF n, all

(* What urlEncode writes urlDecode reads, whatever characters there are.   *)
THEOREM EncodedIsRead ==
  ASSUME NEW str \in Text
  PROVE  urlEncode(str) \in Seq(Plain) /\ urlDecode(urlEncode(str)) = str
<1> DEFINE n == Len(str)
           e == urlEncode(str)
           ss == [i \in DOMAIN str |-> Encoding(str[i])]
<1>1. str \in Seq(STRING) /\ n \in Nat /\ DOMAIN str = 1 .. n /\ \A i \in 1 .. n : str[i] \in STRING
  BY LenProperties, ElementOfSeq DEF Text
<1>2. ss \in Seq(Seq(Plain))
  <2>1. \A i \in 1 .. n : Encoding(str[i]) \in Seq(Plain)
    BY <1>1, EncodingIs
  <2>2. QED  BY <1>1, <2>1
<1>3. e = FlattenSeq(ss)
  BY DEF urlEncode
<1>3a. Len(ss) = n /\ \A i \in 1 .. n : ss[i] = Encoding(str[i])
  BY <1>1
<1> HIDE DEF ss, e, n
<1>4. CASE n = 0
  <2>1. str = <<>> /\ ss = <<>>
    BY <1>1, <1>2, <1>3a, <1>4, EmptySeq DEF n
  <2>2. e = <<>>
    BY <1>3, <2>1 DEF FlattenSeq
  <2>3. Len(e) \in Nat /\ 1 > Len(e) /\ 1 \in 1 .. Len(e) + 3
    BY <2>2
  <2>4. urlDecode(e) = <<>>
    <3>1. Decoded(e)[1] = Decoding(e, Decoded(e), 1)
      BY <2>3, DecodedExists
    <3>2. Decoding(e, Decoded(e), 1) = <<>>
      BY <2>3 DEF Decoding
    <3>3. QED  BY <3>1, <3>2, DecodeIsDecoded
  <2>5. e \in Seq(Plain)
    BY <2>2
  <2>6. urlDecode(e) = str
    BY <2>1, <2>4
  <2>7. QED  BY <2>5, <2>6 DEF e
<1>5. CASE n # 0
  <2>1. n >= 1
    BY <1>1, <1>5
  <2>2. /\ e \in Seq(Plain)
        /\ \E place : /\ place[0] = 0 /\ place[n] = Len(e)
                      /\ \A k \in 0 .. n : place[k] \in Nat /\ place[k] <= Len(e)
                      /\ \A k \in 1 .. n :
                           /\ place[k] = place[k - 1] + Len(ss[k])
                           /\ \A j \in 1 .. Len(ss[k]) : e[place[k - 1] + j] = ss[k][j]
    <3>1. Len(ss) >= 1
      BY <1>3a, <2>1
    <3>2. /\ FlattenSeq(ss) \in Seq(Plain)
          /\ \E place :
               /\ place[0] = 0 /\ place[Len(ss)] = Len(FlattenSeq(ss))
               /\ \A k \in 0 .. Len(ss) :
                    place[k] \in Nat /\ place[k] <= Len(FlattenSeq(ss))
               /\ \A k \in 1 .. Len(ss) :
                    /\ place[k] = place[k - 1] + Len(ss[k])
                    /\ \A j \in 1 .. Len(ss[k]) :
                         FlattenSeq(ss)[place[k - 1] + j] = ss[k][j]
      BY <1>2, <3>1, FlattenPlaces
    <3>3. QED  BY <1>3, <1>3a, <3>2
  <2>3. PICK place : /\ place[0] = 0 /\ place[n] = Len(e)
                     /\ \A k \in 0 .. n : place[k] \in Nat /\ place[k] <= Len(e)
                     /\ \A k \in 1 .. n :
                          /\ place[k] = place[k - 1] + Len(ss[k])
                          /\ \A j \in 1 .. Len(ss[k]) : e[place[k - 1] + j] = ss[k][j]
    BY <2>2
  <2>4. Len(e) \in Nat
    BY <2>2, LenProperties
  <2> DEFINE d == Decoded(e)
             Rest(k) == SubSeq(str, k + 1, n)
             T == {m \in Nat : m <= n /\ d[place[n - m] + 1] # Rest(n - m)}
  <2>5. \A i \in 1 .. Len(e) + 3 : d[i] = Decoding(e, d, i)
    BY <2>4, DecodedExists
  <2> HIDE DEF d
  <2>6. 0 \notin T
    <3>1. n - 0 = n /\ Rest(n) = <<>>
      BY <1>1, SubSeqEmpty
    <3>2. place[n] + 1 \in 1 .. Len(e) + 3 /\ place[n] + 1 > Len(e)
      BY <2>3, <2>4
    <3>3. d[place[n] + 1] = <<>>
      BY <2>5, <3>2 DEF Decoding
    <3> HIDE DEF Rest
    <3>4. QED  BY <3>1, <3>3
  <2>7. ASSUME NEW k \in 1 .. n, d[place[k] + 1] = Rest(k)
        PROVE  d[place[k - 1] + 1] = Rest(k - 1)
    <3> DEFINE c == str[k]
               x == Encoding(c)
               i == place[k - 1] + 1
    <3>1. c \in STRING /\ ss[k] = x
      BY <1>1, <1>3a
    <3>2. /\ place[k - 1] \in Nat /\ place[k] \in Nat /\ place[k] <= Len(e)
      <4>1. k - 1 \in 0 .. n /\ k \in 0 .. n
        BY <1>1
      <4>2. QED  BY <2>3, <4>1
    <3>3. /\ place[k] = place[k - 1] + Len(x)
          /\ \A j \in 1 .. Len(x) : e[place[k - 1] + j] = x[j]
      BY <2>3, <3>1
    <3> HIDE DEF x
    <3>4. Rest(k - 1) = <<c>> \o Rest(k)
      <4>1. k \in 1 .. Len(str) /\ n \in k .. Len(str) /\ (k - 1) + 1 = k
        BY <1>1 DEF n
      <4>2. SubSeq(str, k, n) = <<str[k]>> \o SubSeq(str, k + 1, n)
        BY <1>1, <4>1, SubSeqRecursiveFirst
      <4>3. QED  BY <4>1, <4>2
    <3> HIDE DEF Rest, c
    <3>5. CASE Len(x) = 1 /\ x[1] # "%" /\ c = IF x[1] = "+" THEN " " ELSE x[1]
      <4>1. e[i] = x[1] /\ i \in 1 .. Len(e) + 3 /\ ~(i > Len(e)) /\ i + 1 = place[k] + 1
        <5>0. Len(x) = 1
          BY <3>5, Zenon
        <5>1. 1 \in 1 .. Len(x)
          BY <5>0
        <5>2. e[i] = x[1]
          BY <3>3, <5>1
        <5>3. place[k] = place[k - 1] + 1
          BY <3>3, <5>0
        <5>4. QED  BY <2>4, <3>2, <5>2, <5>3
      <4>2. ~IsEscape(e, i)
        BY <3>5, <4>1 DEF IsEscape
      <4> HIDE DEF i
      <4>3. d[i] = <<IF e[i] = "+" THEN " " ELSE e[i]>> \o d[i + 1]
        BY <2>5, <4>1, <4>2 DEF Decoding
      <4>4. d[i] = <<c>> \o Rest(k)
        BY <2>7, <3>5, <4>1, <4>3
      <4>5. QED  BY <3>4, <4>4 DEF i
    <3>6. CASE /\ Len(x) = 3 /\ x[1] = "%"
               /\ ReadHex(x[2], x[3]) # -1 /\ c = Char(ReadHex(x[2], x[3]))
      <4>1. /\ e[i] = x[1] /\ e[i + 1] = x[2] /\ e[i + 2] = x[3]
        <5>1. 1 \in 1 .. Len(x) /\ 2 \in 1 .. Len(x) /\ 3 \in 1 .. Len(x)
          BY <3>6
        <5>2. i + 1 = place[k - 1] + 2 /\ i + 2 = place[k - 1] + 3
          BY <3>2
        <5>3. QED  BY <3>3, <5>1, <5>2
      <4>2. /\ i \in 1 .. Len(e) + 3 /\ ~(i > Len(e)) /\ i + 2 <= Len(e)
            /\ i + 3 = place[k] + 1
        <5>1. Len(x) = 3
          BY <3>6, Zenon
        <5>2. place[k] = place[k - 1] + 3
          BY <3>3, <5>1
        <5>3. QED  BY <2>4, <3>2, <5>2
      <4> HIDE DEF i
      <4>3. IsEscape(e, i)
        BY <3>6, <4>1, <4>2 DEF IsEscape
      <4>4. d[i] = <<Char(ReadHex(e[i + 1], e[i + 2]))>> \o d[i + 3]
        BY <2>5, <4>2, <4>3 DEF Decoding
      <4>5. d[i] = <<c>> \o Rest(k)
        BY <2>7, <3>6, <4>1, <4>2, <4>4
      <4>6. QED  BY <3>4, <4>5 DEF i
    <3>7. QED  BY <3>1, <3>5, <3>6, EncodingIs DEF x
  <2>8. ASSUME NEW m \in Nat, m + 1 \in T
        PROVE  m \in T
    <3> DEFINE k == n - m
    <3>1. k \in 1 .. n /\ n - (m + 1) = k - 1 /\ m <= n
      BY <1>1, <2>8
    <3> HIDE DEF k, Rest
    <3>2. QED  BY <2>7, <2>8, <3>1 DEF k
  <2>9. T = {}
    <3>1. T \in SUBSET Nat
      OBVIOUS
    <3> HIDE DEF T
    <3>2. QED  BY <2>6, <2>8, <3>1, Descent
  <2>10. d[place[0] + 1] = Rest(0)
    <3>1. n - n = 0 /\ n <= n
      BY <1>1
    <3> HIDE DEF Rest
    <3>2. n \notin T
      BY <2>9
    <3>3. QED  BY <1>1, <3>1, <3>2
  <2>11. Rest(0) = str
    BY <1>1, SubSeqFull DEF n
  <2>12. urlDecode(e) = d[1]
    BY DecodeIsDecoded DEF d
  <2>13. urlDecode(e) = str
    <3>1. place[0] + 1 = 1
      BY <2>3
    <3> HIDE DEF Rest
    <3>2. QED  BY <2>10, <2>11, <2>12, <3>1
  <2>14. QED  BY <2>2, <2>13 DEF e
<1>6. QED  BY <1>4, <1>5

-----------------------------------------------------------------------------
(* Forms: the pairs of a body.                                             *)

LEMMA MinIs ==
  ASSUME NEW I \in SUBSET Int, NEW m \in I, \A j \in I : m <= j
  PROVE  Min(I) = m
<1>1. \A k \in I : (\A j \in I : k =< j) => k = m
  OBVIOUS
<1>2. QED  BY <1>1 DEF Min

LEMMA MaxIs ==
  ASSUME NEW I \in SUBSET Int, NEW m \in I, \A j \in I : j <= m
  PROVE  Max(I) = m
<1>1. \A k \in I : (\A j \in I : k >= j) => k = m
  OBVIOUS
<1>2. \A j \in I : m >= j
  OBVIOUS
<1>3. QED  BY <1>1, <1>2 DEF Max

LEMMA GreatestNumber ==
  ASSUME NEW n \in Nat, NEW I \in SUBSET (1 .. n), I # {}
  PROVE  \E m \in I : \A j \in I : j <= m
<1> DEFINE T == {n - j : j \in I}
<1>1. T \in SUBSET Nat /\ T # {}
  <2>1. \A j \in I : n - j \in Nat
    OBVIOUS
  <2>2. T \in SUBSET Nat
    BY <2>1
  <2>3. QED  BY <2>2
<1>2. \A j \in I : n - j \in T
  OBVIOUS
<1>3. \A x \in T : \E j \in I : x = n - j
  OBVIOUS
<1> HIDE DEF T
<1>4. PICK x \in T : \A y \in T : x <= y
  BY <1>1, LeastNumber
<1>5. PICK m \in I : x = n - m
  BY <1>3
<1>6. ASSUME NEW j \in I
      PROVE  j <= m
  <2>1. n - m <= n - j
    BY <1>2, <1>4, <1>5
  <2>2. QED  BY <2>1
<1>7. QED  BY <1>6

(* A pair ends in front of the next "&", or where the body does.           *)
LEMMA PairEnds ==
  ASSUME NEW body, Len(body) \in Nat, NEW i \in Nat, NEW e \in i .. Len(body) + 1,
         e = Len(body) + 1 \/ body[e] = "&",
         \A j \in i .. e - 1 : body[j] # "&"
  PROVE  PairAt(body, i) = SubSeq(body, i, e - 1)
<1> DEFINE ends == {j \in i .. Len(body) + 1 : j = Len(body) + 1 \/ body[j] = "&"}
<1>1. ends \in SUBSET Int /\ e \in ends
  OBVIOUS
<1>2. ASSUME NEW j \in ends
      PROVE  e <= j
  OBVIOUS
<1> HIDE DEF ends
<1>3. Min(ends) = e
  BY <1>1, <1>2, MinIs
<1>4. QED  BY <1>3 DEF PairAt, ends

(* Where a pair ends.                                                      *)
LEMMA PairHasEnd ==
  ASSUME NEW body, Len(body) \in Nat, NEW i \in 1 .. Len(body) + 1
  PROVE  \E e \in i .. Len(body) + 1 :
           /\ e = Len(body) + 1 \/ body[e] = "&"
           /\ \A j \in i .. e - 1 : body[j] # "&"
<1> DEFINE ends == {j \in i .. Len(body) + 1 : j = Len(body) + 1 \/ body[j] = "&"}
<1>1. ends \in SUBSET Nat /\ Len(body) + 1 \in ends
  OBVIOUS
<1>2. \A j \in i .. Len(body) + 1 : j \in ends <=> j = Len(body) + 1 \/ body[j] = "&"
  OBVIOUS
<1>3. \A j \in ends : j \in i .. Len(body) + 1
  OBVIOUS
<1> HIDE DEF ends
<1>4. PICK e \in ends : \A j \in ends : e <= j
  BY <1>1, LeastNumber
<1>5. e \in i .. Len(body) + 1
  BY <1>3
<1>6. ASSUME NEW j \in i .. e - 1
      PROVE  body[j] # "&"
  <2>1. j \in i .. Len(body) + 1 /\ ~(e <= j)
    BY <1>5
  <2>2. QED  BY <1>2, <1>4, <2>1
<1>7. QED  BY <1>2, <1>5, <1>6

(* A body without "&" is one pair.                                         *)
Single(p) == p \in Seq(Signs) /\ \A j \in 1 .. Len(p) : p[j] # "&"

LEMMA OnePair ==
  ASSUME NEW p, Single(p)
  PROVE  PairPlaces(p) = {1} /\ PairAt(p, 1) = p
<1> USE DEF Single
<1>1. Len(p) \in Nat
  BY LenProperties
<1>2. PairPlaces(p) = {1}
  <2>1. \A i \in 1 .. Len(p) + 1 : i = 1 \/ i - 1 \in 1 .. Len(p)
    BY <1>1
  <2>2. 1 \in 1 .. Len(p) + 1
    BY <1>1
  <2>3. QED  BY <2>1, <2>2 DEF PairPlaces
<1>3. PairAt(p, 1) = SubSeq(p, 1, Len(p))
  <2> DEFINE e == Len(p) + 1
  <2>1. e \in 1 .. Len(p) + 1 /\ e - 1 = Len(p) /\ e = Len(p) + 1
    BY <1>1
  <2> HIDE DEF e
  <2>2. PairAt(p, 1) = SubSeq(p, 1, e - 1)
    BY <1>1, <2>1, PairEnds
  <2>3. QED  BY <2>1, <2>2
<1>4. QED  BY <1>2, <1>3, SubSeqFull

(* One more pair: the others stay what they are.                           *)
Added(c, b, p) == b \in Seq(Signs) /\ Single(p) /\ c = b \o (<<"&">> \o p)

LEMMA PairAdded ==
  ASSUME NEW c, NEW b, NEW p, Added(c, b, p)
  PROVE  /\ PairPlaces(c) = PairPlaces(b) \cup {Len(b) + 2}
         /\ \A i \in PairPlaces(b) : i \in 1 .. Len(b) + 1 /\ PairAt(c, i) = PairAt(b, i)
         /\ PairAt(c, Len(b) + 2) = p
<1> USE DEF Added, Single
<1> DEFINE amp == <<"&">>
           q == amp \o p
<1>1. amp \in Seq(Signs)
  <2>1. "&" \in Signs
    BY DEF Signs
  <2>2. QED  BY <2>1
<1>2. Len(amp) = 1 /\ amp[1] = "&"
  OBVIOUS
<1> HIDE DEF amp
<1>3. /\ q \in Seq(Signs) /\ Len(q) = Len(amp) + Len(p)
      /\ \A j \in 1 .. Len(amp) : q[j] = amp[j]
      /\ \A j \in 1 .. Len(p) : q[Len(amp) + j] = p[j]
  BY <1>1, Joined
<1>4. Len(b) \in Nat /\ Len(p) \in Nat
  BY LenProperties
<1>5. /\ q \in Seq(Signs) /\ Len(q) = 1 + Len(p) /\ q[1] = "&"
      /\ \A j \in 1 .. Len(p) : q[1 + j] = p[j]
  <2>1. 1 \in 1 .. Len(amp)
    BY <1>2
  <2>2. QED  BY <1>2, <1>3, <2>1
<1>6. c = b \o q
  BY DEF amp
<1> HIDE DEF q
<1>7. /\ c \in Seq(Signs) /\ Len(c) = Len(b) + Len(q)
      /\ \A j \in 1 .. Len(b) : c[j] = b[j]
      /\ \A j \in 1 .. Len(q) : c[Len(b) + j] = q[j]
  BY <1>5, <1>6, Joined
<1>8. /\ Len(c) \in Nat /\ Len(c) = Len(b) + 1 + Len(p)
      /\ c[Len(b) + 1] = "&"
      /\ \A j \in 1 .. Len(p) : c[Len(b) + 1 + j] = p[j]
  <2>1. 1 \in 1 .. Len(q)
    BY <1>4, <1>5
  <2>2. ASSUME NEW j \in 1 .. Len(p)
        PROVE  c[Len(b) + 1 + j] = p[j]
    <3>1. 1 + j \in 1 .. Len(q) /\ Len(b) + 1 + j = Len(b) + (1 + j)
      BY <1>4, <1>5
    <3>2. QED  BY <1>5, <1>7, <3>1
  <2>3. QED  BY <1>4, <1>5, <1>7, <2>1, <2>2
<1>9. ASSUME NEW i \in PairPlaces(b)
      PROVE  i \in 1 .. Len(b) + 1 /\ PairAt(c, i) = PairAt(b, i)
  <2>1. i \in 1 .. Len(b) + 1 /\ i \in Nat
    BY <1>4 DEF PairPlaces
  <2>2. PICK e \in i .. Len(b) + 1 : /\ e = Len(b) + 1 \/ b[e] = "&"
                                     /\ \A j \in i .. e - 1 : b[j] # "&"
    BY <1>4, <2>1, PairHasEnd
  <2>3. PairAt(b, i) = SubSeq(b, i, e - 1)
    BY <1>4, <2>1, <2>2, PairEnds
  <2>4. e \in i .. Len(c) + 1 /\ c[e] = "&"
    BY <1>4, <1>7, <1>8, <2>1, <2>2
  <2>5. ASSUME NEW j \in i .. e - 1
        PROVE  c[j] # "&"
    <3>1. j \in 1 .. Len(b)
      BY <1>4, <2>1
    <3>2. QED  BY <1>7, <2>2, <3>1
  <2>6. PairAt(c, i) = SubSeq(c, i, e - 1)
    BY <1>8, <2>1, <2>4, <2>5, PairEnds
  <2>7. SubSeq(c, i, e - 1) = SubSeq(b, i, e - 1)
    <3>1. i \in Int /\ e - 1 \in Int
      BY <1>4, <2>1
    <3>2. CASE e - 1 < i
      BY <3>1, <3>2, SubSeqEmpty
    <3>3. CASE ~(e - 1 < i)
      <4>1. i \in 1 .. Len(b) /\ e - 1 \in 1 .. Len(b)
        BY <1>4, <2>1, <3>3
      <4>2. QED  BY <1>5, <1>6, <4>1, SubSeqOfConcat1
    <3>4. QED  BY <3>2, <3>3
  <2>8. QED  BY <2>1, <2>3, <2>6, <2>7
<1>10. PairPlaces(c) = PairPlaces(b) \cup {Len(b) + 2}
  <2>1. ASSUME NEW i \in 1 .. Len(b) + 1
        PROVE  i \in PairPlaces(c) <=> i \in PairPlaces(b)
    <3>1. i \in 1 .. Len(c) + 1 /\ (i = 1 \/ i - 1 \in 1 .. Len(b))
      BY <1>4, <1>8
    <3>2. i = 1 \/ c[i - 1] = b[i - 1]
      BY <1>7, <3>1
    <3>3. QED  BY <3>1, <3>2 DEF PairPlaces
  <2>2. Len(b) + 2 \in PairPlaces(c)
    <3>1. Len(b) + 2 \in 1 .. Len(c) + 1 /\ (Len(b) + 2) - 1 = Len(b) + 1
      BY <1>4, <1>8
    <3>2. QED  BY <1>8, <3>1 DEF PairPlaces
  <2>3. ASSUME NEW i \in PairPlaces(c), i \notin 1 .. Len(b) + 1
        PROVE  i = Len(b) + 2
    <3>1. i \in 1 .. Len(c) + 1 /\ (i = 1 \/ c[i - 1] = "&")
      BY DEF PairPlaces
    <3>2. i >= Len(b) + 2 /\ c[i - 1] = "&"
      BY <1>4, <1>8, <2>3, <3>1
    <3> DEFINE j == i - Len(b) - 2
    <3>3. CASE j \in 1 .. Len(p)
      <4>1. i - 1 = Len(b) + 1 + j
        BY <1>4, <1>8, <3>1
      <4> HIDE DEF j
      <4>2. c[i - 1] = p[j]
        BY <1>8, <3>3, <4>1
      <4>3. QED  BY <3>2, <3>3, <4>2
    <3>4. CASE j \notin 1 .. Len(p)
      BY <1>4, <1>8, <3>1, <3>2, <3>4
    <3>5. QED  BY <3>3, <3>4
  <2>4. \A i \in PairPlaces(b) : i \in 1 .. Len(b) + 1
    BY <1>9
  <2>5. QED  BY <2>1, <2>2, <2>3, <2>4
<1>11. PairAt(c, Len(b) + 2) = p
  <2> DEFINE i == Len(b) + 2
             e == Len(c) + 1
  <2>1. /\ i \in Nat /\ e \in i .. Len(c) + 1 /\ e = Len(c) + 1 /\ e - 1 = Len(c)
        /\ Len(c) \in Nat
    BY <1>4, <1>8
  <2>2. ASSUME NEW j \in i .. e - 1
        PROVE  c[j] # "&"
    <3> DEFINE k == j - Len(b) - 1
    <3>1. k \in 1 .. Len(p) /\ j = Len(b) + 1 + k
      BY <1>4, <1>8
    <3> HIDE DEF k
    <3>2. QED  BY <1>8, <3>1
  <2> HIDE DEF i, e
  <2>3. PairAt(c, i) = SubSeq(c, i, Len(c))
    <3>1. PairAt(c, i) = SubSeq(c, i, e - 1)
      BY <2>1, <2>2, PairEnds
    <3>2. QED  BY <2>1, <3>1
  <2>4. i >= 1 /\ Len(c) >= i - 1 /\ Len(c) - i + 1 = Len(p)
    BY <1>4, <1>8 DEF i
  <2>5. /\ SubSeq(c, i, Len(c)) \in Seq(Signs) /\ Len(SubSeq(c, i, Len(c))) = Len(c) - i + 1
        /\ \A j \in 1 .. Len(c) - i + 1 : SubSeq(c, i, Len(c))[j] = c[i + j - 1]
    BY <1>7, <1>8, <2>1, <2>4, Slice, SMTT(30)
  <2>6. ASSUME NEW j \in 1 .. Len(p)
        PROVE  c[i + j - 1] = p[j]
    <3>1. i + j - 1 = Len(b) + 1 + j
      BY <1>4 DEF i
    <3>2. QED  BY <1>8, <3>1
  <2>7. SubSeq(c, i, Len(c)) = p
    <3> DEFINE t == SubSeq(c, i, Len(c))
    <3>1. t \in Seq(Signs) /\ Len(t) = Len(p)
      BY <2>4, <2>5
    <3>2. \A j \in 1 .. Len(t) : t[j] = p[j]
      BY <2>4, <2>5, <2>6, <3>1
    <3> HIDE DEF t
    <3>3. t = p
      BY <3>1, <3>2, SeqEqual
    <3>4. QED  BY <3>3 DEF t
  <2>8. QED  BY <2>3, <2>7 DEF i
<1>12. QED  BY <1>9, <1>10, <1>11

(* A field is read out of its pair.                                        *)
LEMMA PairIsRead ==
  ASSUME NEW field \in Field
  PROVE  /\ Single(Pair(field))
         /\ FirstPlace(Pair(field), "=") > 0
         /\ Key(Pair(field)) = field.key /\ Value(Pair(field)) = field.value
<1> DEFINE a == urlEncode(field.key)
           b == urlEncode(field.value)
           eq == <<"=">>
           p == Pair(field)
<1>1. field.key \in Text /\ field.value \in Text
  BY DEF Field
<1>2. /\ a \in Seq(Plain) /\ urlDecode(a) = field.key
      /\ b \in Seq(Plain) /\ urlDecode(b) = field.value
  BY <1>1, EncodedIsRead
<1>3. p = (a \o eq) \o b
  BY DEF Pair
<1>4. eq \in Seq(Signs)
  <2>1. "=" \in Signs
    BY DEF Signs
  <2>2. QED  BY <2>1
<1>5. Len(eq) = 1 /\ eq[1] = "="
  OBVIOUS
<1> HIDE DEF a, b, eq, p
<1>6. a \in Seq(Signs) /\ b \in Seq(Signs)
  BY <1>2, SeqMonotonic DEF Plain
<1>7. Len(a) \in Nat /\ Len(b) \in Nat
  BY <1>6, LenProperties
<1>8. /\ a \o eq \in Seq(Signs) /\ Len(a \o eq) = Len(a) + Len(eq)
      /\ \A j \in 1 .. Len(a) : (a \o eq)[j] = a[j]
      /\ \A j \in 1 .. Len(eq) : (a \o eq)[Len(a) + j] = eq[j]
  BY <1>4, <1>6, Joined
<1> DEFINE l == a \o eq
<1>9. /\ l \in Seq(Signs) /\ Len(l) = Len(a) + 1 /\ l[Len(a) + 1] = "="
      /\ \A j \in 1 .. Len(a) : l[j] = a[j]
  <2>1. 1 \in 1 .. Len(eq)
    BY <1>5
  <2>2. QED  BY <1>5, <1>8, <2>1
<1>10. p = l \o b
  BY <1>3
<1> HIDE DEF l
<1>11. /\ p \in Seq(Signs) /\ Len(p) = Len(l) + Len(b)
       /\ \A j \in 1 .. Len(l) : p[j] = l[j]
       /\ \A j \in 1 .. Len(b) : p[Len(l) + j] = b[j]
  <2>1. l \in Seq(Signs)
    BY <1>9
  <2>2. QED  BY <1>6, <1>10, <2>1, Joined
<1> DEFINE n == Len(a)
<1>12. /\ n \in Nat /\ Len(p) \in Nat /\ Len(p) = n + 1 + Len(b) /\ p[n + 1] = "="
       /\ \A j \in 1 .. n : p[j] = a[j]
       /\ \A j \in 1 .. Len(b) : p[n + 1 + j] = b[j]
  <2>1. n + 1 \in 1 .. Len(l) /\ \A j \in 1 .. n : j \in 1 .. Len(l)
    BY <1>7, <1>9
  <2>2. QED  BY <1>7, <1>9, <1>11, <2>1
<1>13. /\ \A j \in 1 .. n : a[j] # "&" /\ a[j] # "="
       /\ \A j \in 1 .. Len(b) : b[j] # "&" /\ b[j] # "="
  <2>1. /\ \A j \in 1 .. Len(a) : a[j] \in Plain
        /\ \A j \in 1 .. Len(b) : b[j] \in Plain
    BY <1>2, ElementOfSeq
  <2>2. QED  BY <2>1 DEF Plain
<1> HIDE DEF n
<1>14. ASSUME NEW j \in 1 .. Len(p)
       PROVE  p[j] # "&"
  <2>1. CASE j <= n
    <3>1. j \in 1 .. n
      BY <1>12, <2>1
    <3>2. QED  BY <1>12, <1>13, <3>1
  <2>2. CASE j = n + 1
    BY <1>12, <2>2
  <2>3. CASE j > n + 1
    <3> DEFINE k == j - n - 1
    <3>1. k \in 1 .. Len(b) /\ j = n + 1 + k
      BY <1>7, <1>12, <2>3
    <3> HIDE DEF k
    <3>2. QED  BY <1>12, <1>13, <3>1
  <2>4. QED  BY <1>12, <2>1, <2>2, <2>3
<1>15. FirstPlace(p, "=") = n + 1
  <2> DEFINE i == n + 1
  <2>1. i \in 1 .. Len(p) /\ p[i] = "=" /\ i - 1 = n
    BY <1>7, <1>12
  <2> HIDE DEF i
  <2>2. \A j \in 1 .. i - 1 : p[j] # "="
    BY <1>12, <1>13, <2>1
  <2>3. FirstPlace(p, "=") = i
    BY <1>12, <2>1, <2>2, PlaceIsFirst
  <2>4. QED  BY <2>3 DEF i
<1>16. SubSeq(p, 1, n) = a
  <2> DEFINE t == SubSeq(p, 1, n)
  <2>1. /\ t \in Seq(Signs) /\ Len(t) = n - 1 + 1
        /\ \A i \in 1 .. n - 1 + 1 : t[i] = p[1 + i - 1]
    <3> DEFINE one == 1
    <3>1. one \in Nat /\ one >= 1 /\ n >= one - 1 /\ n <= Len(p) /\ one = 1
      BY <1>7, <1>12
    <3> HIDE DEF one
    <3>2. /\ SubSeq(p, one, n) \in Seq(Signs) /\ Len(SubSeq(p, one, n)) = n - one + 1
          /\ \A i \in 1 .. n - one + 1 : SubSeq(p, one, n)[i] = p[one + i - 1]
      BY <1>11, <1>12, <3>1, Slice
    <3>3. QED  BY <3>1, <3>2
  <2> HIDE DEF t
  <2>2. Len(t) = n /\ \A i \in 1 .. n : t[i] = a[i]
    <3>1. n - 1 + 1 = n /\ \A i \in 1 .. n : 1 + i - 1 = i
      BY <1>12
    <3>2. QED  BY <1>12, <2>1, <3>1
  <2>3. t = a
    BY <1>6, <2>1, <2>2, SeqEqual DEF n
  <2>4. QED  BY <2>3 DEF t
<1>17. SubSeq(p, n + 2, Len(p)) = b
  <2> DEFINE i == n + 2
             t == SubSeq(p, i, Len(p))
  <2>1. i \in Nat /\ i >= 1 /\ Len(p) >= i - 1 /\ Len(p) - i + 1 = Len(b)
    BY <1>7, <1>12
  <2>2. \A j \in 1 .. Len(b) : i + j - 1 = n + 1 + j
    BY <1>12
  <2> HIDE DEF i
  <2>3. /\ t \in Seq(Signs) /\ Len(t) = Len(p) - i + 1
        /\ \A j \in 1 .. Len(p) - i + 1 : t[j] = p[i + j - 1]
    BY <1>11, <1>12, <2>1, Slice
  <2> HIDE DEF t
  <2>4. Len(t) = Len(b) /\ \A j \in 1 .. Len(b) : t[j] = b[j]
    BY <1>12, <2>1, <2>2, <2>3
  <2>5. t = b
    BY <1>6, <2>3, <2>4, SeqEqual
  <2>6. QED  BY <2>5 DEF t, i
<1>18. Key(p) = field.key
  <2>1. (n + 1) - 1 = n
    BY <1>12
  <2>2. QED  BY <1>2, <1>15, <1>16, <2>1 DEF Key
<1>19. Value(p) = field.value
  <2>1. (n + 1) + 1 = n + 2
    BY <1>12
  <2>2. After(p, FirstPlace(p, "=")) = b
    BY <1>15, <1>17, <2>1 DEF After
  <2>3. QED  BY <1>2, <2>2 DEF Value
<1>20. n + 1 > 0
  BY <1>12
<1>21. Single(p)
  BY <1>11, <1>14 DEF Single
<1>22. QED  BY <1>15, <1>18, <1>19, <1>20, <1>21 DEF p

(* Where parseFormData finds pairs, and those of a key.                    *)
Named(body) == {i \in PairPlaces(body) : FirstPlace(PairAt(body, i), "=") > 0}
KeysOf(body) == {Key(PairAt(body, i)) : i \in Named(body)}
NamedBy(body, key) == {i \in Named(body) : Key(PairAt(body, i)) = key}

LEMMA ParsedIs ==
  ASSUME NEW body
  PROVE  /\ DOMAIN parseFormData(body) = KeysOf(body)
         /\ \A key \in DOMAIN parseFormData(body) :
              parseFormData(body)[key] = Value(PairAt(body, Max(NamedBy(body, key))))
BY DEF parseFormData, Named, NamedBy, KeysOf

(* A form with one more pair has one more field, or a new value of one.    *)
FieldAdded(new, old, p) ==
  /\ DOMAIN new = DOMAIN old \cup {Key(p)}
  /\ new[Key(p)] = Value(p)
  /\ \A key \in DOMAIN old : key # Key(p) => new[key] = old[key]

LEMMA ParsedAdded ==
  ASSUME NEW c, NEW b, NEW p, Added(c, b, p), FirstPlace(p, "=") > 0
  PROVE  FieldAdded(parseFormData(c), parseFormData(b), p)
<1> DEFINE last == Len(b) + 2
<1>1. Len(b) \in Nat
  BY LenProperties DEF Added
<1>2. /\ PairPlaces(c) = PairPlaces(b) \cup {last}
      /\ \A i \in PairPlaces(b) : i \in 1 .. Len(b) + 1 /\ PairAt(c, i) = PairAt(b, i)
      /\ PairAt(c, last) = p
  BY PairAdded
<1>3. last \in Nat /\ \A i \in 1 .. Len(b) + 1 : i # last /\ i <= last
  BY <1>1
<1> HIDE DEF last
<1>4. Named(c) = Named(b) \cup {last}
  BY <1>2, <1>3 DEF Named
<1>5. /\ \A i \in Named(b) : i \in 1 .. Len(b) + 1 /\ PairAt(c, i) = PairAt(b, i)
      /\ last \in Named(c) /\ PairAt(c, last) = p
  BY <1>2, <1>4 DEF Named
<1>6. DOMAIN parseFormData(c) = DOMAIN parseFormData(b) \cup {Key(p)}
  <2>1. \A i \in Named(b) : Key(PairAt(c, i)) = Key(PairAt(b, i))
    BY <1>5
  <2>2. Key(PairAt(c, last)) = Key(p)
    BY <1>5
  <2>3. ASSUME NEW key
        PROVE  key \in KeysOf(c) <=> key \in KeysOf(b) \/ key = Key(p)
    BY <1>4, <2>1, <2>2 DEF KeysOf
  <2>4. KeysOf(c) = KeysOf(b) \cup {Key(p)}
    BY <2>3
  <2>5. DOMAIN parseFormData(c) = KeysOf(c) /\ DOMAIN parseFormData(b) = KeysOf(b)
    BY ParsedIs
  <2>6. QED  BY <2>4, <2>5
<1>7. parseFormData(c)[Key(p)] = Value(p)
  <2>1. last \in NamedBy(c, Key(p))
    BY <1>5 DEF NamedBy
  <2>2. NamedBy(c, Key(p)) \in SUBSET Int
    <3>1. \A i \in Named(c) : i \in Int
      BY <1>1, <1>3, <1>4, <1>5
    <3>2. QED  BY <3>1 DEF NamedBy
  <2>3. \A i \in NamedBy(c, Key(p)) : i <= last
    BY <1>3, <1>4, <1>5 DEF NamedBy
  <2>4. Max(NamedBy(c, Key(p))) = last
    BY <2>1, <2>2, <2>3, MaxIs
  <2>5. Key(p) \in DOMAIN parseFormData(c)
    BY <1>6
  <2>6. QED  BY <1>5, <2>4, <2>5, ParsedIs
<1>8. ASSUME NEW key \in DOMAIN parseFormData(b), key # Key(p)
      PROVE  parseFormData(c)[key] = parseFormData(b)[key]
  <2> DEFINE I == NamedBy(b, key)
  <2>1. NamedBy(c, key) = I
    BY <1>4, <1>5, <1>8 DEF NamedBy
  <2>2. I \in SUBSET (1 .. Len(b) + 1) /\ I \in SUBSET Int
    BY <1>1, <1>5 DEF NamedBy
  <2>3. I # {}
    <3>1. DOMAIN parseFormData(b) = KeysOf(b)
      BY ParsedIs
    <3>2. PICK i \in Named(b) : key = Key(PairAt(b, i))
      BY <3>1 DEF KeysOf
    <3>3. i \in I
      BY <3>2 DEF NamedBy
    <3>4. QED  BY <3>3
  <2>4. \A i \in I : PairAt(c, i) = PairAt(b, i)
    BY <1>5 DEF NamedBy
  <2> HIDE DEF I
  <2>5. \E m \in I : \A j \in I : j <= m
    <3>1. Len(b) + 1 \in Nat
      BY <1>1
    <3>2. QED  BY <2>2, <2>3, <3>1, GreatestNumber
  <2>6. Max(I) \in I
    BY <2>2, <2>5, MaxIs
  <2>7. PairAt(c, Max(I)) = PairAt(b, Max(I))
    BY <2>4, <2>6
  <2>8. key \in DOMAIN parseFormData(c)
    BY <1>6
  <2>9. parseFormData(c)[key] = Value(PairAt(c, Max(I)))
    BY <2>1, <2>8, ParsedIs
  <2>10. parseFormData(b)[key] = Value(PairAt(b, Max(I)))
    BY ParsedIs DEF I
  <2>11. QED  BY <2>7, <2>9, <2>10
<1>9. QED  BY <1>6, <1>7, <1>8 DEF FieldAdded

(* A form of one field.                                                    *)
LEMMA OneIsParsed ==
  ASSUME NEW p, Single(p), FirstPlace(p, "=") > 0
  PROVE  DOMAIN parseFormData(p) = {Key(p)} /\ parseFormData(p)[Key(p)] = Value(p)
<1>1. PairPlaces(p) = {1} /\ PairAt(p, 1) = p
  BY OnePair
<1>2. Named(p) = {1}
  BY <1>1 DEF Named
<1>3. DOMAIN parseFormData(p) = {Key(p)}
  <2>1. DOMAIN parseFormData(p) = KeysOf(p)
    BY ParsedIs
  <2>2. QED  BY <1>1, <1>2, <2>1 DEF KeysOf
<1>4. NamedBy(p, Key(p)) = {1}
  BY <1>1, <1>2 DEF NamedBy
<1>5. Max({1}) = 1
  <2>1. {1} \in SUBSET Int /\ 1 \in {1} /\ \A j \in {1} : j <= 1
    OBVIOUS
  <2>2. QED  BY <2>1, MaxIs
<1>6. parseFormData(p)[Key(p)] = Value(PairAt(p, Max(NamedBy(p, Key(p)))))
  BY <1>3, ParsedIs
<1>7. QED  BY <1>1, <1>3, <1>4, <1>5, <1>6

(* The fields of a form are read as they were filled in; of those with one *)
(* key the last counts.                                                    *)
ReadAs(data, fields, n) ==
  /\ DOMAIN data = {fields[i].key : i \in 1 .. n}
  /\ \A i \in 1 .. n :
       \/ data[fields[i].key] = fields[i].value
       \/ \E j \in 1 .. n : j > i /\ fields[j].key = fields[i].key

THEOREM FormIsRead ==
  ASSUME NEW fields \in Seq(Field)
  PROVE  ReadAs(parseFormData(FormBody(fields)), fields, Len(fields))
<1> DEFINE n == Len(fields)
           amp == <<"&">>
           ss == [i \in DOMAIN fields |->
                    IF i = 1 THEN Pair(fields[i]) ELSE amp \o Pair(fields[i])]
<1>1. n \in Nat /\ DOMAIN fields = 1 .. n /\ \A i \in 1 .. n : fields[i] \in Field
  BY LenProperties, ElementOfSeq
<1>2. FormBody(fields) = FlattenSeq(ss)
  BY DEF FormBody
<1>3. amp \in Seq(Signs)
  <2>1. "&" \in Signs
    BY DEF Signs
  <2>2. QED  BY <2>1
<1> HIDE DEF amp, n
<1>4. \A i \in 1 .. n : ss[i] = IF i = 1 THEN Pair(fields[i]) ELSE amp \o Pair(fields[i])
  BY <1>1
<1>5. \A i \in 1 .. n :
        /\ Pair(fields[i]) \in Seq(Signs) /\ Single(Pair(fields[i]))
        /\ FirstPlace(Pair(fields[i]), "=") > 0
        /\ Key(Pair(fields[i])) = fields[i].key /\ Value(Pair(fields[i])) = fields[i].value
  BY <1>1, PairIsRead DEF Single
<1>6. ss \in Seq(Seq(Signs))
  <2>1. \A i \in 1 .. n :
          (IF i = 1 THEN Pair(fields[i]) ELSE amp \o Pair(fields[i])) \in Seq(Signs)
    BY <1>3, <1>5, ConcatProperties
  <2>2. QED  BY <1>1, <2>1
<1>7. Len(ss) = n
  BY <1>1
<1> HIDE DEF ss
<1>8. CASE n = 0
  <2>1. FormBody(fields) = <<>>
    <3>1. Len(ss) = 0 /\ ss = <<>>
      BY <1>6, <1>7, <1>8, EmptySeq
    <3>2. QED  BY <1>2, <3>1 DEF FlattenSeq
  <2> DEFINE b == FormBody(fields)
  <2>2. Len(b) = 0 /\ b \in Seq(Signs)
    BY <2>1
  <2>3. b = <<>>
    BY <2>1
  <2> HIDE DEF b
  <2>4. Single(b)
    BY <2>2 DEF Single
  <2>5. PairPlaces(b) = {1} /\ PairAt(b, 1) = b
    BY <2>4, OnePair
  <2>6. FirstPlace(b, "=") = 0
    BY <2>2, PlaceIsNone
  <2>7. Named(b) = {}
    BY <2>5, <2>6 DEF Named
  <2>8. DOMAIN parseFormData(b) = {}
    <3>1. DOMAIN parseFormData(b) = KeysOf(b)
      BY ParsedIs
    <3>2. QED  BY <2>7, <3>1 DEF KeysOf
  <2>9. 1 .. n = {}
    BY <1>8
  <2>10. ReadAs(parseFormData(b), fields, n)
    BY <2>8, <2>9 DEF ReadAs
  <2>11. QED  BY <2>10 DEF b, n
<1>9. CASE n # 0
  <2>1. n >= 1
    BY <1>1, <1>9
  <2>2. PICK f : /\ FlattenSeq(ss) = f[Len(ss)] /\ f[1] = ss[1]
                 /\ \A i \in 2 .. Len(ss) : f[i] = f[i - 1] \o ss[i]
                 /\ \A i \in 1 .. Len(ss) : f[i] \in Seq(Signs)
    <3>1. Len(ss) >= 1
      BY <1>7, <2>1
    <3>2. QED  BY <1>6, <3>1, FlattenSteps
  <2>3. /\ FormBody(fields) = f[n] /\ f[1] = ss[1]
        /\ \A i \in 2 .. n : f[i] = f[i - 1] \o ss[i]
        /\ \A i \in 1 .. n : f[i] \in Seq(Signs)
    BY <1>2, <1>7, <2>2
  <2> DEFINE Read(i) == ReadAs(parseFormData(f[i]), fields, i)
             B == {i \in 1 .. n : ~Read(i)}
  <2>4. Read(1)
    <3> DEFINE p == Pair(fields[1])
    <3>1. 1 \in 1 .. n
      BY <1>1, <2>1
    <3>2. f[1] = p
      BY <1>4, <2>3, <3>1
    <3>3. Single(p) /\ FirstPlace(p, "=") > 0 /\ Key(p) = fields[1].key /\ Value(p) = fields[1].value
      BY <1>5, <3>1
    <3> HIDE DEF p
    <3>4. DOMAIN parseFormData(p) = {fields[1].key} /\ parseFormData(p)[fields[1].key] = fields[1].value
      BY <3>3, OneIsParsed
    <3>5. \A i : i \in 1 .. 1 <=> i = 1
      OBVIOUS
    <3>6. {fields[i].key : i \in 1 .. 1} = {fields[1].key}
      BY <3>5
    <3>7. QED  BY <3>2, <3>4, <3>5, <3>6 DEF ReadAs
  <2>5. ASSUME NEW i \in 2 .. n, Read(i - 1)
        PROVE  Read(i)
    <3> DEFINE p == Pair(fields[i])
               b == f[i - 1]
               c == f[i]
               new == parseFormData(c)
               old == parseFormData(b)
    <3>1. i \in 1 .. n /\ i # 1 /\ i - 1 \in 1 .. n
      BY <1>1
    <3>2. Added(c, b, p)
      <4>1. f[i] = f[i - 1] \o (amp \o p) /\ b \in Seq(Signs) /\ Single(p)
        BY <1>4, <1>5, <2>3, <3>1
      <4>2. QED  BY <4>1 DEF Added, amp
    <3>3. FirstPlace(p, "=") > 0 /\ Key(p) = fields[i].key /\ Value(p) = fields[i].value
      BY <1>5, <3>1
    <3>4. ReadAs(old, fields, i - 1)
      BY <2>5
    <3> HIDE DEF p, b, c
    <3>5. /\ DOMAIN new = DOMAIN old \cup {fields[i].key}
          /\ new[fields[i].key] = fields[i].value
          /\ \A key \in DOMAIN old : key # fields[i].key => new[key] = old[key]
      <4>1. FirstPlace(p, "=") > 0
        BY <3>3
      <4>2. FieldAdded(new, old, p)
        BY <3>2, <4>1, ParsedAdded
      <4> HIDE DEF new, old
      <4>3. QED  BY <3>3, <4>2 DEF FieldAdded
    <3> HIDE DEF new, old
    <3>6. \A j : j \in 1 .. i <=> j \in 1 .. i - 1 \/ j = i
      BY <3>1
    <3>7. DOMAIN new = {fields[j].key : j \in 1 .. i}
      <4>1. DOMAIN old = {fields[j].key : j \in 1 .. i - 1}
        BY <3>4 DEF ReadAs
      <4>2. QED  BY <3>5, <3>6, <4>1
    <3>8. ASSUME NEW j \in 1 .. i
          PROVE  \/ new[fields[j].key] = fields[j].value
                 \/ \E k \in 1 .. i : k > j /\ fields[k].key = fields[j].key
      <4>1. CASE j = i
        BY <3>5, <4>1
      <4>2. CASE j # i
        <5>1. j \in 1 .. i - 1 /\ i > j /\ i \in 1 .. i
          BY <3>1, <4>2
        <5>2. CASE fields[j].key = fields[i].key
          BY <5>1, <5>2
        <5>3. CASE fields[j].key # fields[i].key
          <6>1. fields[j].key \in DOMAIN old
            BY <3>4, <5>1 DEF ReadAs
          <6>2. new[fields[j].key] = old[fields[j].key]
            BY <3>5, <5>3, <6>1
          <6>3. \/ old[fields[j].key] = fields[j].value
                \/ \E k \in 1 .. i - 1 : k > j /\ fields[k].key = fields[j].key
            BY <3>4, <5>1 DEF ReadAs
          <6>4. QED  BY <3>6, <6>2, <6>3
        <5>4. QED  BY <5>2, <5>3
      <4>3. QED  BY <4>1, <4>2
    <3>9. ReadAs(new, fields, i)
      BY <3>7, <3>8 DEF ReadAs
    <3>10. QED  BY <3>9 DEF new, c
  <2>6. B = {}
    <3> SUFFICES ASSUME B # {} PROVE FALSE
      OBVIOUS
    <3>1. B \in SUBSET Nat
      OBVIOUS
    <3> HIDE DEF B
    <3>2. PICK i \in B : \A j \in B : i <= j
      BY <3>1, LeastNumber
    <3> USE DEF B
    <3> HIDE DEF Read
    <3>3. i \in 2 .. n
      BY <1>1, <2>4, <3>2
    <3>4. i - 1 \in 1 .. n /\ i - 1 \notin B
      BY <1>1, <3>2, <3>3
    <3>5. Read(i - 1)
      BY <3>4
    <3>6. QED  BY <2>5, <3>2, <3>3, <3>5
  <2>7. Read(n)
    <3>1. n \in 1 .. n
      BY <1>1, <2>1
    <3> HIDE DEF Read
    <3>2. \A i \in 1 .. n : Read(i)
      BY <2>6
    <3>3. QED  BY <3>1, <3>2
  <2>8. QED  BY <2>3, <2>7 DEF n
<1>10. QED  BY <1>8, <1>9
=============================================================================
