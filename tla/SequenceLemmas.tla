--------------------------- MODULE SequenceLemmas ---------------------------
(***************************************************************************)
(* Facts about the sequences of the models, none of them about one model:  *)
(* induction over numbers, definitions by recursion over 0..n, sequences   *)
(* that list a set, concatenation and removal.                             *)
(***************************************************************************)
EXTENDS SequencesExt, FiniteSetTheorems, SequenceTheorems, WellFoundedInduction, TLAPS

(***************************************************************************)
(* Sequences that list sets.                                               *)
(***************************************************************************)

(* A set of numbers with 0 that is closed under successor holds all.       *)
LEMMA NatsWithin ==
    ASSUME NEW T, 0 \in T, \A n \in Nat : n \in T => n + 1 \in T
    PROVE  Nat \subseteq T
<1> DEFINE M == Nat \ T
           R == {p \in Nat \X Nat : p[1] < p[2]}
<1>. SUFFICES ASSUME M # {} PROVE FALSE
  OBVIOUS
<1>1. IsWellFoundedOn(R, Nat)
  BY NatLessThanWellFounded DEF OpToRel
<1>2. M \subseteq Nat
  OBVIOUS
<1>. HIDE DEF M, R
<1>3. PICK x \in M : \A y \in M : <<y, x>> \notin R
  BY <1>1, <1>2, WFMin
<1>4. x \in Nat /\ x # 0 /\ x - 1 \in Nat
  BY <1>2 DEF M
<1>5. x - 1 \in M
  BY <1>4 DEF M
<1>6. <<x - 1, x>> \in R
  BY <1>4 DEF R
<1>. QED
  BY <1>3, <1>5, <1>6

(* An enumeration of a finite set reaches each of its members. *)
LEMMA EnumerationReaches ==
    ASSUME NEW A, IsFiniteSet(A), NEW f \in [1..Cardinality(A) -> A], IsInjective(f)
    PROVE  /\ f \in Seq(A) /\ DOMAIN f = 1..Cardinality(A) /\ Len(f) = Cardinality(A)
           /\ \A x \in A : \E i \in DOMAIN f : f[i] = x
<1>1. Cardinality(A) \in Nat
  BY FS_CardinalityType
<1>2. f \in Injection(1..Cardinality(A), A)
  BY DEF Injection
<1>3. Cardinality(1..Cardinality(A)) = Cardinality(A)
  BY <1>1, FS_Interval
<1>4. f \in Surjection(1..Cardinality(A), A)
  BY <1>2, <1>3, FS_Injection
<1>. QED
  BY <1>1, <1>4 DEF Surjection

LEMMA SetToSeqLists ==
    ASSUME NEW A, IsFiniteSet(A)
    PROVE  /\ SetToSeq(A) \in Seq(A)
           /\ \A x \in A : \E i \in DOMAIN SetToSeq(A) : SetToSeq(A)[i] = x
<1>1. \E f \in [1..Cardinality(A) -> A] : IsInjective(f)
  BY FS_CardinalityType DEF ExistsBijection, Bijection, Injection
<1>2. SetToSeq(A) \in [1..Cardinality(A) -> A] /\ IsInjective(SetToSeq(A))
  BY <1>1 DEF SetToSeq
<1>. QED
  BY <1>2, EnumerationReaches

LEMMA SetToSeqsLists ==
    ASSUME NEW A, IsFiniteSet(A), NEW s \in SetToSeqs(A)
    PROVE  /\ s \in Seq(A)
           /\ \A x \in A : \E i \in DOMAIN s : s[i] = x
<1>1. s \in [1..Cardinality(A) -> A] /\ IsInjective(s)
  BY DEF SetToSeqs, IsInjective
<1>. QED
  BY <1>1, EnumerationReaches

(* The elements of a finite set under a total order: the place of each is  *)
(* the number of those up to it.                                           *)
LEMMA OrderedListing ==
    ASSUME NEW A, IsFiniteSet(A), NEW R,
           \A x \in A : <<x, x>> \notin R,
           \A x, y \in A : x # y => <<x, y>> \in R \/ <<y, x>> \in R,
           \A x, y, z \in A : <<x, y>> \in R /\ <<y, z>> \in R => <<x, z>> \in R
    PROVE  \E s \in SetToSeqs(A) : \A i, j \in DOMAIN s : i < j => <<s[i], s[j]>> \in R
<1> DEFINE upTo(x) == {y \in A : y = x \/ <<y, x>> \in R}
           place == [x \in A |-> Cardinality(upTo(x))]
           n == Cardinality(A)
<1>1. n \in Nat /\ IsFiniteSet(1..n) /\ Cardinality(1..n) = n
  BY FS_CardinalityType, FS_Interval
<1>2. ASSUME NEW x \in A
      PROVE  IsFiniteSet(upTo(x)) /\ place[x] \in 1..n
  <2>1. IsFiniteSet(upTo(x)) /\ Cardinality(upTo(x)) =< n
    BY FS_Subset
  <2>2. x \in upTo(x)
    BY DEF upTo
  <2>3. Cardinality(upTo(x)) \in Nat /\ Cardinality(upTo(x)) # 0
    BY <2>1, <2>2, FS_CardinalityType, FS_EmptySet
  <2>. QED
    BY <1>1, <2>1, <2>3
<1>3. ASSUME NEW x \in A, NEW y \in A, <<x, y>> \in R
      PROVE  place[x] < place[y]
  <2>1. upTo(x) \subseteq upTo(y)
    BY <1>3
  <2>2. y \in upTo(y) /\ y \notin upTo(x)
    BY <1>3
  <2>3. Cardinality(upTo(x)) =< Cardinality(upTo(y)) /\ Cardinality(upTo(x)) # Cardinality(upTo(y))
    <3>. HIDE DEF upTo
    <3>. QED
      BY <1>2, <2>1, <2>2, FS_Subset
  <2>. QED
    BY <1>2, <2>3
<1>4. place \in Injection(A, 1..n)
  <2>1. place \in [A -> 1..n]
    BY <1>2
  <2>2. ASSUME NEW x \in A, NEW y \in A, place[x] = place[y]
        PROVE  x = y
    <3>1. place[x] \in 1..n /\ place[y] \in 1..n
      BY <1>2
    <3>. HIDE DEF place, n
    <3>2. <<x, y>> \notin R /\ <<y, x>> \notin R
      BY <1>3, <2>2, <3>1
    <3>. QED
      BY <3>2
  <2>. HIDE DEF place
  <2>. QED
    BY <2>1, <2>2 DEF Injection, IsInjective
<1>5. place \in Surjection(A, 1..n)
  BY <1>1, <1>4, FS_Injection
<1> DEFINE s == [i \in 1..n |-> CHOOSE x \in A : place[x] = i]
<1>. HIDE DEF place
<1>6. ASSUME NEW i \in 1..n
      PROVE  s[i] \in A /\ place[s[i]] = i
  BY <1>5 DEF Surjection
<1>7. s \in SetToSeqs(A)
  <2>1. s \in [1..n -> A]
    BY <1>6
  <2>2. \A i, j \in 1..n : i # j => s[i] # s[j]
    BY <1>6
  <2>. HIDE DEF s
  <2>. QED
    BY <2>1, <2>2 DEF SetToSeqs
<1>8. ASSUME NEW i \in DOMAIN s, NEW j \in DOMAIN s, i < j
      PROVE  <<s[i], s[j]>> \in R
  <2>1. i \in 1..n /\ j \in 1..n
    OBVIOUS
  <2>2. s[i] \in A /\ s[j] \in A /\ place[s[i]] = i /\ place[s[j]] = j
    BY <1>6, <2>1
  <2>3. <<s[j], s[i]>> \notin R /\ s[i] # s[j]
    BY <1>3, <1>8, <2>1, <2>2
  <2>. QED
    BY <2>2, <2>3
<1>. HIDE DEF s
<1>. QED
  BY <1>7, <1>8

(* Numbers in ascending order. *)
LEMMA SortedListing ==
    ASSUME NEW A \in SUBSET Nat, IsFiniteSet(A)
    PROVE  \E s \in SetToSeqs(A) : \A i, j \in DOMAIN s : i < j => s[i] < s[j]
<1> DEFINE R == {p \in Nat \X Nat : p[1] < p[2]}
<1>1. \A x, y \in Nat : <<x, y>> \in R <=> x < y
  OBVIOUS
<1>2. /\ \A x \in A : <<x, x>> \notin R
      /\ \A x, y \in A : x # y => <<x, y>> \in R \/ <<y, x>> \in R
      /\ \A x, y, z \in A : <<x, y>> \in R /\ <<y, z>> \in R => <<x, z>> \in R
  BY <1>1
<1>. HIDE DEF R
<1>3. PICK s \in SetToSeqs(A) : \A i, j \in DOMAIN s : i < j => <<s[i], s[j]>> \in R
  BY <1>2, OrderedListing
<1>4. \A i \in DOMAIN s : s[i] \in Nat
  BY DEF SetToSeqs
<1>. QED
  BY <1>1, <1>3, <1>4

(***************************************************************************)
(* Recursion.                                                              *)
(***************************************************************************)

(* f starts at base and takes n steps within D.                            *)
Iteration(f, D, base, n, step) ==
    /\ f \in [0..n -> D]
    /\ f[0] = base
    /\ \A i \in 1..n : f[i] = step[<<f[i - 1], i>>]

(* A function defined from its value at 0 and a step exists.               *)
LEMMA Iterates ==
    ASSUME NEW D, NEW base \in D, NEW n \in Nat, NEW step \in [D \X (1..n) -> D]
    PROVE  \E f : Iteration(f, D, base, n, step)
<1> DEFINE Good(f, k) == /\ f \in [0..k -> D]
                         /\ f[0] = base
                         /\ \A i \in 1..k : f[i] = step[<<f[i - 1], i>>]
           T == {k \in Nat : k =< n => \E f : Good(f, k)}
<1>1. \E f : Good(f, 0)
  <2>1. Good([i \in 0..0 |-> base], 0)
    OBVIOUS
  <2>. QED
    BY <2>1
<1>2. ASSUME NEW k \in Nat, k + 1 =< n, NEW f, Good(f, k)
      PROVE  \E g : Good(g, k + 1)
  <2> DEFINE next == step[<<f[k], k + 1>>]
             g == [i \in 0..(k + 1) |-> IF i = k + 1 THEN next ELSE f[i]]
  <2>1. next \in D
    BY <1>2
  <2>2. \A i \in 0..(k + 1) : i # k + 1 => i \in 0..k
    OBVIOUS
  <2>3. g \in [0..(k + 1) -> D] /\ g[0] = base /\ g[k + 1] = next
    BY <1>2, <2>1, <2>2
  <2>4. \A i \in 0..k : g[i] = f[i]
    OBVIOUS
  <2>5. \A i \in 1..k : i \in 0..k /\ i - 1 \in 0..k
    OBVIOUS
  <2>6. k \in 0..k /\ (k + 1) - 1 = k
    OBVIOUS
  <2>. HIDE DEF g
  <2>7. \A i \in 1..k : g[i] = step[<<g[i - 1], i>>]
    BY <1>2, <2>4, <2>5
  <2>8. g[k + 1] = step[<<g[(k + 1) - 1], k + 1>>]
    BY <2>3, <2>4, <2>6
  <2>9. \A i \in 1..(k + 1) : i \in 1..k \/ i = k + 1
    OBVIOUS
  <2>10. Good(g, k + 1)
    BY <2>3, <2>7, <2>8, <2>9
  <2>. QED
    BY <2>10
<1>. HIDE DEF Good
<1>3. 0 \in T
  BY <1>1
<1>4. \A k \in Nat : k \in T => k + 1 \in T
  BY <1>2
<1>5. n \in T
  <2>. HIDE DEF T
  <2>. QED
    BY <1>3, <1>4, NatsWithin
<1>6. \E f : Good(f, n)
  BY <1>5
<1>. QED
  BY <1>6 DEF Good, Iteration

LEMMA ConcatLists ==
    ASSUME NEW U, NEW s \in Seq(U), NEW t \in Seq(U)
    PROVE  /\ s \o t \in Seq(U)
           /\ ToSet(s \o t) = ToSet(s) \cup ToSet(t)
<1>1. ToSet(s \o t) = Range(s \o t) /\ ToSet(s) = Range(s) /\ ToSet(t) = Range(t)
  BY DEF ToSet, Range
<1>. QED
  BY <1>1, RangeConcatenation

(* What FlattenSeq computes, place by place. *)
LEMMA FlattenSeqSteps ==
    ASSUME NEW U, NEW ss \in Seq(Seq(U)), Len(ss) # 0
    PROVE  \E flatten :
             /\ flatten[1] = ss[1]
             /\ \A i \in 1..Len(ss) : i # 1 => flatten[i] = flatten[i - 1] \o ss[i]
             /\ flatten[Len(ss)] = FlattenSeq(ss)
<1> DEFINE n == Len(ss)
           Laid(f) == f = [i \in 1..n |-> IF i = 1 THEN ss[i] ELSE f[i - 1] \o ss[i]]
           flatten == CHOOSE f : Laid(f)
           step == [p \in Seq(U) \X (1..n) |-> p[1] \o ss[p[2]]]
<1>0. n \in Nat /\ n # 0 /\ \A k \in 1..n : ss[k] \in Seq(U)
  OBVIOUS
<1>1. step \in [Seq(U) \X (1..n) -> Seq(U)]
  <2>1. ASSUME NEW p \in Seq(U) \X (1..n)
        PROVE  p[1] \o ss[p[2]] \in Seq(U)
    <3>1. p[1] \in Seq(U) /\ ss[p[2]] \in Seq(U)
      BY <1>0
    <3>. QED
      BY <3>1, ConcatLists
  <2>. QED
    BY <2>1
<1>2. <<>> \in Seq(U)
  OBVIOUS
<1>. HIDE DEF step, n, Laid, flatten
<1>3. PICK f : Iteration(f, Seq(U), <<>>, n, step)
  BY <1>0, <1>1, <1>2, Iterates
<1>4. ASSUME NEW i \in 1..n
      PROVE  /\ i - 1 \in 0..n /\ f[i - 1] \in Seq(U) /\ f[i] \in Seq(U)
             /\ f[i] = f[i - 1] \o ss[i]
  <2>1. i - 1 \in 0..n /\ i \in 0..n
    BY <1>0
  <2>2. f[i - 1] \in Seq(U) /\ f[i] \in Seq(U)
    BY <1>3, <2>1 DEF Iteration
  <2>3. <<f[i - 1], i>> \in Seq(U) \X (1..n)
    BY <2>2
  <2>. QED
    BY <1>3, <2>1, <2>2, <2>3 DEF step, Iteration
<1>5. f[1] = ss[1]
  <2>1. 1 \in 1..n
    BY <1>0
  <2>2. f[1] = f[1 - 1] \o ss[1] /\ ss[1] \in Seq(U)
    BY <1>0, <1>4, <2>1
  <2>3. f[1 - 1] = <<>>
    BY <1>3 DEF Iteration
  <2>. QED
    BY <2>2, <2>3, ConcatEmptySeq
<1> DEFINE h == [i \in 1..n |-> f[i]]
<1>6. Laid(h)
  <2>. USE DEF Laid
  <2>1. ASSUME NEW i \in 1..n
        PROVE  h[i] = IF i = 1 THEN ss[i] ELSE h[i - 1] \o ss[i]
    <3>1. CASE i = 1
      BY <1>5, <3>1
    <3>2. CASE i # 1
      <4>1. i - 1 \in 1..n
        BY <1>0, <3>2
      <4>2. h[i] = f[i] /\ h[i - 1] = f[i - 1]
        BY <4>1
      <4>. HIDE DEF h
      <4>. QED
        BY <1>4, <3>2, <4>2
    <3>. QED
      BY <3>1, <3>2
  <2>2. h = [i \in 1..n |-> h[i]]
    OBVIOUS
  <2>. HIDE DEF h
  <2>. QED
    BY <2>1, <2>2
<1>7. Laid(flatten)
  <2>. HIDE DEF h
  <2>. QED
    BY <1>6 DEF flatten
<1>8. FlattenSeq(ss) = flatten[n]
  BY DEF FlattenSeq, n, flatten, Laid
<1>. HIDE DEF h
<1>9. flatten[1] = ss[1] /\ \A i \in 1..n : i # 1 => flatten[i] = flatten[i - 1] \o ss[i]
  <2>1. 1 \in 1..n
    BY <1>0
  <2>2. \A i \in 1..n : flatten[i] = IF i = 1 THEN ss[i] ELSE flatten[i - 1] \o ss[i]
    BY <1>7 DEF Laid
  <2>. QED
    BY <2>1, <2>2
<1>. QED
  BY <1>8, <1>9 DEF n

(* Each prefix laid end to end has the elements of the sequences in it.    *)
LEMMA FlattenSeqPrefixes ==
    ASSUME NEW U, NEW ss \in Seq(Seq(U)), NEW flatten,
           flatten[1] = ss[1],
           \A i \in 1..Len(ss) : i # 1 => flatten[i] = flatten[i - 1] \o ss[i]
    PROVE  \A k \in 1..Len(ss) :
             /\ flatten[k] \in Seq(U)
             /\ \A x : x \in ToSet(flatten[k]) <=> \E j \in 1..k : x \in ToSet(ss[j])
<1> DEFINE n == Len(ss)
           Has(k) == \A x : x \in ToSet(flatten[k]) <=> \E j \in 1..k : x \in ToSet(ss[j])
           T == {k \in Nat : k + 1 =< n => flatten[k + 1] \in Seq(U) /\ Has(k + 1)}
<1>1. n \in Nat /\ DOMAIN ss = 1..n /\ \A k \in 1..n : ss[k] \in Seq(U)
  OBVIOUS
<1>. HIDE DEF n
<1>2. 0 \in T
  <2>1. SUFFICES ASSUME 1 =< n
                 PROVE  flatten[0 + 1] \in Seq(U) /\ Has(0 + 1)
    <3>. HIDE DEF Has
    <3>. QED
      OBVIOUS
  <2>2. flatten[1] \in Seq(U)
    BY <1>1, <2>1
  <2>3. 1..1 = {1}
    OBVIOUS
  <2>4. Has(1)
    BY <2>3
  <2>. HIDE DEF Has
  <2>. QED
    BY <2>2, <2>4
<1>3. ASSUME NEW k \in Nat, k \in T, (k + 1) + 1 =< n
      PROVE  flatten[(k + 1) + 1] \in Seq(U) /\ Has((k + 1) + 1)
  <2>1. flatten[k + 1] \in Seq(U) /\ Has(k + 1)
    <3>. HIDE DEF Has
    <3>. QED
      BY <1>1, <1>3
  <2>2. (k + 1) + 1 \in 1..n /\ (k + 1) + 1 # 1 /\ ((k + 1) + 1) - 1 = k + 1
    BY <1>1, <1>3
  <2>3. flatten[(k + 1) + 1] = flatten[k + 1] \o ss[(k + 1) + 1] /\ ss[(k + 1) + 1] \in Seq(U)
    BY <1>1, <2>2 DEF n
  <2>4. /\ flatten[(k + 1) + 1] \in Seq(U)
        /\ ToSet(flatten[(k + 1) + 1]) = ToSet(flatten[k + 1]) \cup ToSet(ss[(k + 1) + 1])
    BY <2>1, <2>3, ConcatLists
  <2>5. \A j : j \in 1..((k + 1) + 1) <=> j \in 1..(k + 1) \/ j = (k + 1) + 1
    OBVIOUS
  <2>6. ASSUME NEW x
        PROVE  x \in ToSet(flatten[(k + 1) + 1]) <=> \E j \in 1..((k + 1) + 1) : x \in ToSet(ss[j])
    <3>1. x \in ToSet(flatten[k + 1]) <=> \E j \in 1..(k + 1) : x \in ToSet(ss[j])
      BY <2>1
    <3>. QED
      BY <2>4, <2>5, <3>1
  <2>. QED
    BY <2>4, <2>6
<1>4. ASSUME NEW k \in 1..n
      PROVE  flatten[k] \in Seq(U) /\ Has(k)
  <2>1. \A m \in Nat : m \in T => m + 1 \in T
    <3>. HIDE DEF Has
    <3>. QED
      BY <1>3
  <2>2. k - 1 \in Nat /\ (k - 1) + 1 = k
    BY <1>1
  <2>3. k - 1 \in T
    <3>. HIDE DEF T
    <3>. QED
      BY <1>2, <2>1, <2>2, NatsWithin
  <2>. HIDE DEF Has
  <2>. QED
    BY <1>1, <2>2, <2>3
<1>. QED
  BY <1>4 DEF n

(* A sequence of sequences laid end to end has the elements of each.       *)
LEMMA FlattenSeqLists ==
    ASSUME NEW U, NEW ss \in Seq(Seq(U))
    PROVE  /\ FlattenSeq(ss) \in Seq(U)
           /\ ToSet(FlattenSeq(ss)) = UNION {ToSet(ss[k]) : k \in DOMAIN ss}
<1>1. Len(ss) \in Nat /\ DOMAIN ss = 1..Len(ss)
  OBVIOUS
<1>2. CASE Len(ss) = 0
  <2>1. ss = <<>> /\ DOMAIN ss = {}
    BY <1>1, <1>2
  <2>2. FlattenSeq(ss) = ss
    BY <1>2 DEF FlattenSeq
  <2>3. FlattenSeq(ss) = <<>> /\ <<>> \in Seq(U)
    BY <2>1, <2>2
  <2>4. ToSet(<<>>) = {}
    BY DEF ToSet
  <2>5. UNION {ToSet(ss[k]) : k \in {}} = {}
    OBVIOUS
  <2>. QED
    BY <2>1, <2>3, <2>4, <2>5
<1>3. CASE Len(ss) # 0
  <2>1. PICK flatten :
          /\ flatten[1] = ss[1]
          /\ \A i \in 1..Len(ss) : i # 1 => flatten[i] = flatten[i - 1] \o ss[i]
          /\ flatten[Len(ss)] = FlattenSeq(ss)
    BY <1>3, FlattenSeqSteps
  <2>2. Len(ss) \in 1..Len(ss)
    BY <1>1, <1>3
  <2>3. /\ flatten[Len(ss)] \in Seq(U)
        /\ \A x : x \in ToSet(flatten[Len(ss)]) <=> \E j \in 1..Len(ss) : x \in ToSet(ss[j])
    BY <2>1, <2>2, FlattenSeqPrefixes
  <2>. QED
    BY <1>1, <2>1, <2>3
<1>. QED
  BY <1>1, <1>2, <1>3

(* Whatever relates the elements of each sequence in their order, and the  *)
(* elements of one to those of a later one, relates the elements of all.   *)
LEMMA FlattenSeqAscends ==
    ASSUME NEW U, NEW ss \in Seq(Seq(U)), NEW R,
           \A k \in DOMAIN ss : \A i, j \in DOMAIN ss[k] : i < j => <<ss[k][i], ss[k][j]>> \in R,
           \A k, l \in DOMAIN ss : k < l =>
              \A x \in ToSet(ss[k]), y \in ToSet(ss[l]) : <<x, y>> \in R
    PROVE  \A i, j \in DOMAIN FlattenSeq(ss) :
              i < j => <<FlattenSeq(ss)[i], FlattenSeq(ss)[j]>> \in R
<1> DEFINE Ascends(s) == \A i, j \in DOMAIN s : i < j => <<s[i], s[j]>> \in R
<1>1. Len(ss) \in Nat /\ DOMAIN ss = 1..Len(ss) /\ \A k \in DOMAIN ss : ss[k] \in Seq(U) /\ Ascends(ss[k])
  OBVIOUS
<1>2. ASSUME NEW s \in Seq(U), NEW t \in Seq(U), Ascends(s), Ascends(t),
             \A x \in ToSet(s), y \in ToSet(t) : <<x, y>> \in R
      PROVE  Ascends(s \o t)
  <2>1. /\ s \o t \in Seq(U) /\ Len(s \o t) = Len(s) + Len(t)
        /\ \A i \in 1..(Len(s) + Len(t)) :
             (s \o t)[i] = IF i <= Len(s) THEN s[i] ELSE t[i - Len(s)]
    BY ConcatProperties
  <2>2. Len(s) \in Nat /\ Len(t) \in Nat /\ DOMAIN s = 1..Len(s) /\ DOMAIN t = 1..Len(t)
    OBVIOUS
  <2>3. DOMAIN (s \o t) = 1..(Len(s) + Len(t))
    BY <2>1
  <2>4. SUFFICES ASSUME NEW i \in 1..(Len(s) + Len(t)), NEW j \in 1..(Len(s) + Len(t)), i < j
                 PROVE  <<(s \o t)[i], (s \o t)[j]>> \in R
    BY <2>3
  <2>5. CASE j =< Len(s)
    <3>1. i \in DOMAIN s /\ j \in DOMAIN s
      BY <2>2, <2>4, <2>5
    <3>2. (s \o t)[i] = s[i] /\ (s \o t)[j] = s[j]
      BY <2>1, <2>2, <2>4, <2>5
    <3>. QED
      BY <1>2, <2>4, <3>1, <3>2
  <2>6. CASE i > Len(s)
    <3>1. i - Len(s) \in DOMAIN t /\ j - Len(s) \in DOMAIN t /\ i - Len(s) < j - Len(s)
      BY <2>2, <2>4, <2>6
    <3>2. (s \o t)[i] = t[i - Len(s)] /\ (s \o t)[j] = t[j - Len(s)]
      BY <2>1, <2>2, <2>4, <2>6
    <3>. QED
      BY <1>2, <3>1, <3>2
  <2>7. CASE i =< Len(s) /\ j > Len(s)
    <3>1. i \in DOMAIN s /\ j - Len(s) \in DOMAIN t
      BY <2>2, <2>4, <2>7
    <3>2. (s \o t)[i] = s[i] /\ (s \o t)[j] = t[j - Len(s)]
      BY <2>1, <2>2, <2>4, <2>7
    <3>3. s[i] \in ToSet(s) /\ t[j - Len(s)] \in ToSet(t)
      BY <3>1 DEF ToSet
    <3>. QED
      BY <1>2, <3>2, <3>3
  <2>8. j =< Len(s) \/ i > Len(s) \/ (i =< Len(s) /\ j > Len(s))
    BY <2>2
  <2>. QED
    BY <2>5, <2>6, <2>7, <2>8
<1>3. CASE Len(ss) = 0
  <2>1. FlattenSeq(ss) = ss /\ DOMAIN ss = {}
    BY <1>1, <1>3 DEF FlattenSeq
  <2>. QED
    BY <2>1
<1>4. CASE Len(ss) # 0
  <2>1. PICK flatten :
          /\ flatten[1] = ss[1]
          /\ \A i \in 1..Len(ss) : i # 1 => flatten[i] = flatten[i - 1] \o ss[i]
          /\ flatten[Len(ss)] = FlattenSeq(ss)
    BY <1>4, FlattenSeqSteps
  <2>2. \A k \in 1..Len(ss) :
          /\ flatten[k] \in Seq(U)
          /\ \A x : x \in ToSet(flatten[k]) <=> \E j \in 1..k : x \in ToSet(ss[j])
    BY <2>1, FlattenSeqPrefixes
  <2>. HIDE DEF Ascends
  <2> DEFINE T == {k \in Nat : k + 1 =< Len(ss) => Ascends(flatten[k + 1])}
  <2>3. 0 \in T
    <3>1. 1 \in DOMAIN ss
      BY <1>1, <1>4
    <3>. QED
      BY <1>1, <2>1, <3>1
  <2>4. ASSUME NEW k \in Nat, k \in T
        PROVE  k + 1 \in T
    <3>1. SUFFICES ASSUME (k + 1) + 1 =< Len(ss)
                   PROVE  Ascends(flatten[(k + 1) + 1])
      OBVIOUS
    <3> DEFINE s == flatten[k + 1]
               t == ss[(k + 1) + 1]
    <3>2. k + 1 \in 1..Len(ss) /\ (k + 1) + 1 \in 1..Len(ss) /\ (k + 1) + 1 # 1 /\ ((k + 1) + 1) - 1 = k + 1
      BY <1>1, <3>1
    <3>3. flatten[(k + 1) + 1] = s \o t /\ s \in Seq(U) /\ t \in Seq(U) /\ Ascends(t)
      BY <1>1, <2>1, <2>2, <3>2
    <3>4. Ascends(s)
      BY <1>1, <2>4, <3>1, <3>2
    <3>5. ASSUME NEW x \in ToSet(s), NEW y \in ToSet(t)
          PROVE  <<x, y>> \in R
      <4>1. PICK l \in 1..(k + 1) : x \in ToSet(ss[l])
        BY <2>2, <3>2
      <4>2. l \in DOMAIN ss /\ (k + 1) + 1 \in DOMAIN ss /\ l < (k + 1) + 1
        BY <1>1, <3>1, <3>2
      <4>. QED
        BY <4>1, <4>2
    <3>. HIDE DEF s, t
    <3>. QED
      BY <1>2, <3>3, <3>4, <3>5
  <2>5. Len(ss) - 1 \in Nat /\ (Len(ss) - 1) + 1 = Len(ss)
    BY <1>1, <1>4
  <2>6. Len(ss) - 1 \in T
    <3>. HIDE DEF T
    <3>. QED
      BY <2>3, <2>4, <2>5, NatsWithin
  <2>7. Ascends(flatten[Len(ss)])
    BY <1>1, <2>5, <2>6
  <2>. QED
    BY <2>1, <2>7 DEF Ascends
<1>. QED
  BY <1>1, <1>3, <1>4

(***************************************************************************)
(* One place of a sequence.                                                *)
(***************************************************************************)

(* InsertAt shifts the elements from the place on.                         *)
LEMMA InsertAtLists ==
    ASSUME NEW U, NEW s \in Seq(U), NEW p \in 1..(Len(s) + 1), NEW e \in U
    PROVE  /\ InsertAt(s, p, e) \in Seq(U)
           /\ Len(InsertAt(s, p, e)) = Len(s) + 1
           /\ \A i \in 1..(Len(s) + 1) :
                InsertAt(s, p, e)[i] = IF i < p THEN s[i] ELSE IF i = p THEN e ELSE s[i - 1]
<1> DEFINE before == SubSeq(s, 1, p - 1)
           after == SubSeq(s, p, Len(s))
<1>1. Len(s) \in Nat /\ \A i \in 1..Len(s) : s[i] \in U
  OBVIOUS
<1>2. /\ before \in Seq(U) /\ Len(before) = p - 1
      /\ \A i \in 1..(p - 1) : before[i] = s[i]
  <2>1. \A i \in 1..(p - 1) : s[i] \in U
    BY <1>1
  <2>. QED
    BY <1>1, <2>1, SubSeqProperties
<1>3. /\ after \in Seq(U) /\ Len(after) = Len(s) - p + 1
      /\ \A i \in 1..(Len(s) - p + 1) : after[i] = s[p + i - 1]
  <2>1. \A i \in p..Len(s) : s[i] \in U
    BY <1>1
  <2>. QED
    BY <1>1, <2>1, SubSeqProperties
<1>4. InsertAt(s, p, e) = (before \o <<e>>) \o after
  BY DEF InsertAt
<1>5. <<e>> \in Seq(U) /\ Len(<<e>>) = 1 /\ <<e>>[1] = e
  OBVIOUS
<1>. HIDE DEF before, after
<1>6. /\ before \o <<e>> \in Seq(U) /\ Len(before \o <<e>>) = p
      /\ \A i \in 1..p : (before \o <<e>>)[i] = IF i < p THEN s[i] ELSE e
  BY <1>1, <1>2, <1>5, ConcatProperties
<1> DEFINE front == before \o <<e>>
<1>7. /\ front \o after \in Seq(U)
      /\ Len(front \o after) = p + (Len(s) - p + 1)
      /\ \A i \in 1..(p + (Len(s) - p + 1)) :
           (front \o after)[i] = IF i <= p THEN front[i] ELSE after[i - p]
  <2>1. front \in Seq(U) /\ Len(front) = p
    BY <1>6
  <2>. HIDE DEF front
  <2>2. /\ front \o after \in Seq(U)
        /\ Len(front \o after) = Len(front) + Len(after)
        /\ \A i \in 1..(Len(front) + Len(after)) :
             (front \o after)[i] = IF i <= Len(front) THEN front[i] ELSE after[i - Len(front)]
    BY <1>3, <2>1, ConcatProperties
  <2>. QED
    BY <1>3, <2>1, <2>2
<1>8. ASSUME NEW i \in 1..(Len(s) + 1)
      PROVE  InsertAt(s, p, e)[i] = IF i < p THEN s[i] ELSE IF i = p THEN e ELSE s[i - 1]
  <2>1. InsertAt(s, p, e)[i] = IF i <= p THEN front[i] ELSE after[i - p]
    <3>1. i \in 1..(p + (Len(s) - p + 1))
      BY <1>1
    <3>2. InsertAt(s, p, e) = front \o after
      BY <1>4
    <3>. HIDE DEF front
    <3>. QED
      BY <1>7, <3>1, <3>2
  <2>2. CASE i =< p
    BY <1>6, <2>1, <2>2
  <2>3. CASE i > p
    <3>1. i - p \in 1..(Len(s) - p + 1) /\ p + (i - p) - 1 = i - 1
      BY <1>1, <2>3
    <3>. QED
      BY <1>3, <2>1, <2>3, <3>1
  <2>. QED
    BY <2>2, <2>3
<1>. QED
  BY <1>1, <1>4, <1>7, <1>8

(* RemoveAt shifts the elements after the place.                           *)
LEMMA RemoveAtLists ==
    ASSUME NEW U, NEW s \in Seq(U), NEW p \in 1..Len(s)
    PROVE  /\ RemoveAt(s, p) \in Seq(U)
           /\ Len(RemoveAt(s, p)) = Len(s) - 1
           /\ \A i \in 1..(Len(s) - 1) : RemoveAt(s, p)[i] = IF i < p THEN s[i] ELSE s[i + 1]
<1> DEFINE before == SubSeq(s, 1, p - 1)
           after == SubSeq(s, p + 1, Len(s))
<1>1. Len(s) \in Nat /\ \A i \in 1..Len(s) : s[i] \in U
  OBVIOUS
<1>2. /\ before \in Seq(U) /\ Len(before) = p - 1
      /\ \A i \in 1..(p - 1) : before[i] = s[i]
  <2>1. \A i \in 1..(p - 1) : s[i] \in U
    BY <1>1
  <2>. QED
    BY <1>1, <2>1, SubSeqProperties
<1>3. /\ after \in Seq(U) /\ Len(after) = Len(s) - p
      /\ \A i \in 1..(Len(s) - p) : after[i] = s[p + i]
  <2>1. \A i \in (p + 1)..Len(s) : s[i] \in U
    BY <1>1
  <2>2. /\ SubSeq(s, p + 1, Len(s)) \in Seq(U)
        /\ Len(SubSeq(s, p + 1, Len(s))) = IF p + 1 <= Len(s) THEN Len(s) - (p + 1) + 1 ELSE 0
        /\ \A i \in 1..(Len(s) - (p + 1) + 1) : SubSeq(s, p + 1, Len(s))[i] = s[(p + 1) + i - 1]
    BY <1>1, <2>1, SubSeqProperties
  <2>. QED
    BY <1>1, <2>2
<1>4. RemoveAt(s, p) = before \o after
  BY DEF RemoveAt
<1>. HIDE DEF before, after
<1>5. /\ before \o after \in Seq(U)
      /\ Len(before \o after) = (p - 1) + (Len(s) - p)
      /\ \A i \in 1..((p - 1) + (Len(s) - p)) :
           (before \o after)[i] = IF i <= p - 1 THEN before[i] ELSE after[i - (p - 1)]
  <2>1. /\ before \o after \in Seq(U)
        /\ Len(before \o after) = Len(before) + Len(after)
        /\ \A i \in 1..(Len(before) + Len(after)) :
             (before \o after)[i] = IF i <= Len(before) THEN before[i] ELSE after[i - Len(before)]
    BY <1>2, <1>3, ConcatProperties
  <2>. QED
    BY <1>2, <1>3, <2>1
<1>6. ASSUME NEW i \in 1..(Len(s) - 1)
      PROVE  RemoveAt(s, p)[i] = IF i < p THEN s[i] ELSE s[i + 1]
  <2>1. RemoveAt(s, p)[i] = IF i <= p - 1 THEN before[i] ELSE after[i - (p - 1)]
    BY <1>1, <1>4, <1>5
  <2>2. CASE i < p
    BY <1>2, <2>1, <2>2
  <2>3. CASE i >= p
    <3>1. i - (p - 1) \in 1..(Len(s) - p) /\ p + (i - (p - 1)) = i + 1
      BY <1>1, <2>3
    <3>. QED
      BY <1>3, <2>1, <2>3, <3>1
  <2>. QED
    BY <2>2, <2>3
<1>. QED
  BY <1>1, <1>4, <1>5, <1>6

(* The ascending list of a finite set of numbers.                          *)
LEMMA AscendingList ==
    ASSUME NEW A \in SUBSET Nat, IsFiniteSet(A),
           NEW s, s = CHOOSE t \in SetToSeqs(A) : \A i, j \in DOMAIN t : i < j => t[i] < t[j]
    PROVE  /\ s \in Seq(A) /\ ToSet(s) = A
           /\ \A i, j \in DOMAIN s : i < j => s[i] < s[j]
<1>1. s \in SetToSeqs(A) /\ \A i, j \in DOMAIN s : i < j => s[i] < s[j]
  BY SortedListing
<1>2. s \in Seq(A) /\ \A x \in A : \E i \in DOMAIN s : s[i] = x
  BY <1>1, SetToSeqsLists
<1>3. ToSet(s) = A
  <2>1. \A i \in DOMAIN s : s[i] \in A
    BY <1>2
  <2>2. ASSUME NEW x
        PROVE  x \in ToSet(s) <=> x \in A
    <3>1. x \in ToSet(s) <=> \E i \in DOMAIN s : s[i] = x
      BY DEF ToSet
    <3>. QED
      BY <1>2, <2>1, <3>1
  <2>. QED
    BY <2>2
<1>. QED
  BY <1>1, <1>2, <1>3
=============================================================================
