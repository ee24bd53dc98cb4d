-------------------------- MODULE RangeIndexProofs --------------------------
(***************************************************************************)
(* The range and equality indexes give exact answers for every finite set  *)
(* of identifiers, all literals and every precision of the number types:   *)
(* the slice stays sorted, so the binary search finds the entry of a value.*)
(***************************************************************************)
EXTENDS RangeIndex, SequenceLemmas

(***************************************************************************)
(* Values.                                                                 *)
(***************************************************************************)

Types == {"INT", "FLOAT", "TIMESTAMP", "BOOL", "STRING"}

(* What the property can hold: values of the types that requests write.    *)
Shapes == [type : {x.type : x \in Values}, n : Int, sign : {"", "-"}]
V == {v \in Shapes : /\ v.type # "FLOAT" => v.n \in Int64
                     /\ v.sign = "-" => v.type = "FLOAT" /\ v.n = 0}

(* The kinds within which Compare orders values. *)
Kind(v) == IF v.type \in Numbers THEN "N" ELSE v.type

LEMMA FloatTyped ==
    ASSUME NEW n \in Int
    PROVE  Float(n) \in Int /\ Float(Float(n)) = Float(n)
<1>1. ExactInt \in Int
  BY PrecisionAssumption
<1>. QED
  BY <1>1 DEF Float

LEMMA Halfway ==
    ASSUME NEW lo \in Nat, NEW hi \in Nat, lo < hi
    PROVE  /\ (lo + hi) \div 2 \in Nat
           /\ lo =< (lo + hi) \div 2 /\ (lo + hi) \div 2 < hi
  OBVIOUS

LEMMA ValuesTyped ==
    Values \subseteq V /\ V \subseteq [type : Types, n : Int, sign : {"", "-"}] /\ None \notin V
<1>1. ASSUME NEW v \in Values
      PROVE  /\ v \in [type : Types, n : Int, sign : {"", "-"}]
             /\ v.type # "FLOAT" => v.n \in Int64
             /\ v.sign = "-" => v.type = "FLOAT" /\ v.n = 0
  <2>1. PICK literal \in Literals : v = NewPropertyValue(literal)
    BY DEF Values
  <2>2. CASE literal \in [form : {"digits", "FLOAT"}, n : Int, sign : {""}]
    <3>1. literal.n \in Int /\ literal.form \in {"digits", "FLOAT"} /\ literal.sign = ""
      BY <2>2
    <3>2. Float(literal.n) \in Int
      BY <3>1, FloatTyped
    <3>. QED
      BY <2>1, <3>1, <3>2 DEF NewPropertyValue, Types
  <2>3. CASE literal \in [form : {"TIMESTAMP", "BOOL", "STRING"}, n : Int64, sign : {""}]
    <3>1. /\ literal.n \in Int64 /\ literal.form \in {"TIMESTAMP", "BOOL", "STRING"}
          /\ literal.sign = ""
      BY <2>3
    <3>2. Int64 \subseteq Int
      BY PrecisionAssumption DEF Int64
    <3>. QED
      BY <2>1, <3>1, <3>2 DEF NewPropertyValue, Types
  <2>4. CASE literal = [form |-> "FLOAT", n |-> 0, sign |-> "-"]
    BY <2>1, <2>4 DEF NewPropertyValue, Types
  <2>. QED
    BY <2>2, <2>3, <2>4, LiteralsAssumption
<1>2. Values \subseteq V
  BY <1>1 DEF V, Shapes
<1>3. V \subseteq [type : Types, n : Int, sign : {"", "-"}]
  BY <1>1 DEF V, Shapes
<1>. QED
  BY <1>2, <1>3, NoneAssumption DEF Types

(* Compare orders the values of a kind as their floats, and those only. *)
LEMMA Compares ==
    ASSUME NEW a \in V, NEW b \in V
    PROVE  /\ toFloat64(a) \in Int /\ toFloat64(b) \in Int
           /\ Comparable(a, b) <=> Kind(a) = Kind(b)
           /\ AtLeast(a, b) <=> Kind(a) = Kind(b) /\ toFloat64(a) >= toFloat64(b)
           /\ Same(a, b) <=> Kind(a) = Kind(b) /\ toFloat64(a) = toFloat64(b)
           /\ Key(a) = Key(b) <=> Same(a, b) /\ a.sign = b.sign
           /\ Rangeable(a) <=> Kind(a) # "BOOL"
<1>1. /\ a.type \in Types /\ a.n \in Int
      /\ b.type \in Types /\ b.n \in Int
  BY ValuesTyped
<1>2. toFloat64(a) \in Int /\ toFloat64(b) \in Int
  BY <1>1, FloatTyped DEF toFloat64
<1>3. Comparable(a, b) <=> Kind(a) = Kind(b)
  BY <1>1 DEF Comparable, Kind, Types, Numbers
<1>4. /\ AtLeast(a, b) <=> Kind(a) = Kind(b) /\ toFloat64(a) >= toFloat64(b)
      /\ Same(a, b) <=> Kind(a) = Kind(b) /\ toFloat64(a) = toFloat64(b)
  BY <1>3 DEF AtLeast, Same
<1>5. Key(a) = Key(b) <=> Same(a, b) /\ a.sign = b.sign
  <2>1. Key(a) = <<Kind(a), a.sign, toFloat64(a)>> /\ Key(b) = <<Kind(b), b.sign, toFloat64(b)>>
    BY DEF Key, Kind
  <2>. QED
    BY <1>4, <2>1
<1>6. Rangeable(a) <=> Kind(a) # "BOOL"
  BY <1>1, ValuesTyped DEF Rangeable, Kind, Types, Numbers
<1>. QED
  BY <1>2, <1>3, <1>4, <1>5, <1>6


(***************************************************************************)
(* The binary search.                                                      *)
(***************************************************************************)

(* Where the predicate of the search holds from some place on, there is a  *)
(* first such place.                                                       *)
LEMMA CutExists ==
    ASSUME NEW n \in Nat, NEW A,
           \A i, j \in 1..n : i \in A /\ i < j => j \in A
    PROVE  \E c \in 1..(n + 1) : \A i \in 1..n : i \in A <=> i >= c
<1> DEFINE Cut(c, k) == \A i \in 1..k : i \in A <=> i >= c
           T == {k \in Nat : k =< n => \E c \in 1..(k + 1) : Cut(c, k)}
<1>1. 0 \in T
  <2>1. 1 \in 1..(0 + 1) /\ Cut(1, 0)
    OBVIOUS
  <2>. QED
    BY <2>1
<1>2. ASSUME NEW k \in Nat, k \in T
      PROVE  k + 1 \in T
  <2>1. SUFFICES ASSUME k + 1 =< n
                 PROVE  \E c \in 1..((k + 1) + 1) : Cut(c, k + 1)
    OBVIOUS
  <2>2. PICK c \in 1..(k + 1) : Cut(c, k)
    BY <1>2, <2>1
  <2>3. \A i \in 1..(k + 1) : i \in 1..k \/ i = k + 1
    OBVIOUS
  <2>4. CASE k + 1 \in A
    <3>1. Cut(c, k + 1)
      BY <2>2, <2>3, <2>4
    <3>2. c \in 1..((k + 1) + 1)
      BY <2>2
    <3>. QED
      BY <3>1, <3>2
  <2>5. CASE k + 1 \notin A
    <3>1. k + 1 \in 1..n /\ 1..k \subseteq 1..n
      BY <2>1
    <3>2. \A i \in 1..k : i \notin A
      BY <2>5, <3>1
    <3>3. Cut((k + 1) + 1, k + 1)
      BY <2>3, <2>5, <3>2
    <3>. QED
      BY <3>3
  <2>. QED
    BY <2>4, <2>5
<1>3. n \in T
  <2>. HIDE DEF T
  <2>. QED
    BY <1>1, <1>2, NatsWithin
<1>. QED
  BY <1>3

(* Halving the slice ends at the first entry that is not below the value.  *)
LEMMA PositionSplits ==
    ASSUME NEW es, Len(es) \in Nat, NEW v,
           \A i, j \in 1..Len(es) : i < j /\ AtLeast(es[i].value, v) => AtLeast(es[j].value, v)
    PROVE  /\ Position(es, v) \in 1..(Len(es) + 1)
           /\ \A i \in 1..Len(es) : AtLeast(es[i].value, v) <=> i >= Position(es, v)
<1> DEFINE n == Len(es)
           A == {i \in 1..n : AtLeast(es[i].value, v)}
           Places == (1..(n + 1)) \X (1..(n + 1))
           Mid(part) == (part[1] + part[2]) \div 2
           Searches(find) == find = [part \in Places |->
               IF part[1] >= part[2] THEN part[1]
               ELSE IF AtLeast(es[Mid(part)].value, v)
                    THEN find[<<part[1], Mid(part)>>] ELSE find[<<Mid(part) + 1, part[2]>>]]
           find == CHOOSE f : Searches(f)
<1>1. PICK c \in 1..(n + 1) : \A i \in 1..n : i \in A <=> i >= c
  <2>1. \A i, j \in 1..n : i \in A /\ i < j => j \in A
    OBVIOUS
  <2>. HIDE DEF A, n
  <2>. QED
    BY <2>1, CutExists DEF n
<1> DEFINE Within(lo, hi) == IF lo >= hi \/ c < lo THEN lo ELSE IF c > hi THEN hi ELSE c
           ends == [part \in Places |-> Within(part[1], part[2])]
<1>2. ASSUME NEW lo \in 1..(n + 1), NEW hi \in 1..(n + 1), lo < hi
      PROVE  LET mid == (lo + hi) \div 2
             IN  /\ mid \in 1..n /\ lo =< mid /\ mid < hi /\ mid + 1 \in 1..(n + 1)
                 /\ AtLeast(es[mid].value, v) <=> mid >= c
                 /\ Within(lo, hi) = IF mid >= c THEN Within(lo, mid) ELSE Within(mid + 1, hi)
  <2> DEFINE mid == (lo + hi) \div 2
  <2>1. mid \in 1..n /\ lo =< mid /\ mid < hi /\ mid + 1 \in 1..(n + 1)
    BY <1>2
  <2>. HIDE DEF mid
  <2>2. AtLeast(es[mid].value, v) <=> mid >= c
    BY <1>1, <2>1
  <2>3. Within(lo, hi) = IF mid >= c THEN Within(lo, mid) ELSE Within(mid + 1, hi)
    BY <1>2, <2>1
  <2>. QED
    BY <2>1, <2>2, <2>3 DEF mid
<1>3. Searches(ends)
  <2>1. ASSUME NEW part \in Places
        PROVE  ends[part] = IF part[1] >= part[2] THEN part[1]
               ELSE IF AtLeast(es[Mid(part)].value, v)
                    THEN ends[<<part[1], Mid(part)>>] ELSE ends[<<Mid(part) + 1, part[2]>>]
    <3>1. ends[part] = Within(part[1], part[2]) /\ part[1] \in 1..(n + 1) /\ part[2] \in 1..(n + 1)
      OBVIOUS
    <3>2. CASE part[1] >= part[2]
      BY <3>1, <3>2
    <3>3. CASE part[1] < part[2]
      <4> DEFINE mid == Mid(part)
      <4>1. /\ mid \in 1..n /\ part[1] =< mid /\ mid < part[2] /\ mid + 1 \in 1..(n + 1)
            /\ AtLeast(es[mid].value, v) <=> mid >= c
            /\ Within(part[1], part[2]) = IF mid >= c THEN Within(part[1], mid) ELSE Within(mid + 1, part[2])
        <5>. HIDE DEF Within
        <5>. QED
          BY <1>2, <3>1, <3>3
      <4>2. mid \in 1..(n + 1)
        BY <4>1
      <4>. HIDE DEF mid, Within
      <4>3. /\ ends[<<part[1], mid>>] = Within(part[1], mid)
            /\ ends[<<mid + 1, part[2]>>] = Within(mid + 1, part[2])
        BY <3>1, <4>1, <4>2
      <4>. HIDE DEF ends, n
      <4>4. part[1] \in Int /\ part[2] \in Int
        BY <3>1 DEF n
      <4>. QED
        BY <3>1, <3>3, <4>1, <4>3, <4>4 DEF mid
    <3>. QED
      BY <3>1, <3>2, <3>3
  <2>2. ends = [part \in Places |-> ends[part]]
    OBVIOUS
  <2>. HIDE DEF ends, Mid, Places
  <2>. QED
    BY <2>1, <2>2
<1>. HIDE DEF ends
<1>4. Searches(find)
  <2>. HIDE DEF Searches
  <2>. QED
    BY <1>3
<1>5. Position(es, v) = find[<<1, n + 1>>]
  BY DEF Position
<1>. HIDE DEF find
<1> DEFINE T == {k \in Nat : \A lo, hi \in 1..(n + 1) : hi - lo =< k => find[<<lo, hi>>] = Within(lo, hi)}
<1>6. ASSUME NEW lo \in 1..(n + 1), NEW hi \in 1..(n + 1)
      PROVE  /\ lo >= hi => find[<<lo, hi>>] = lo
             /\ lo < hi => find[<<lo, hi>>] = IF AtLeast(es[(lo + hi) \div 2].value, v)
                                              THEN find[<<lo, (lo + hi) \div 2>>]
                                              ELSE find[<<(lo + hi) \div 2 + 1, hi>>]
  <2>1. <<lo, hi>> \in Places
    OBVIOUS
  <2>2. find[<<lo, hi>>] =
               IF lo >= hi THEN lo
               ELSE IF AtLeast(es[(lo + hi) \div 2].value, v)
                    THEN find[<<lo, (lo + hi) \div 2>>] ELSE find[<<(lo + hi) \div 2 + 1, hi>>]
    <3>. HIDE DEF Places
    <3>. QED
      BY <1>4, <2>1
  <2>. QED
    BY <2>2
<1>7. 0 \in T
  <2>1. ASSUME NEW lo \in 1..(n + 1), NEW hi \in 1..(n + 1), hi - lo =< 0
        PROVE  find[<<lo, hi>>] = Within(lo, hi)
    <3>1. lo >= hi
      BY <2>1
    <3>. QED
      BY <1>6, <3>1
  <2>. QED
    BY <2>1
<1>8. ASSUME NEW k \in Nat, k \in T
      PROVE  k + 1 \in T
  <2>1. SUFFICES ASSUME NEW lo \in 1..(n + 1), NEW hi \in 1..(n + 1), hi - lo =< k + 1
                 PROVE  find[<<lo, hi>>] = Within(lo, hi)
    OBVIOUS
  <2>2. CASE lo >= hi
    BY <1>6, <2>2
  <2>3. CASE lo < hi
    <3> DEFINE mid == (lo + hi) \div 2
    <3>1. /\ mid \in 1..n /\ lo =< mid /\ mid < hi /\ mid + 1 \in 1..(n + 1)
          /\ AtLeast(es[mid].value, v) <=> mid >= c
          /\ Within(lo, hi) = IF mid >= c THEN Within(lo, mid) ELSE Within(mid + 1, hi)
      <4>. HIDE DEF Within
      <4>. QED
        BY <1>2, <2>3
    <3>2. find[<<lo, hi>>] = IF AtLeast(es[mid].value, v) THEN find[<<lo, mid>>] ELSE find[<<mid + 1, hi>>]
      BY <1>6, <2>3
    <3>. HIDE DEF mid
    <3>3. mid \in 1..(n + 1) /\ mid - lo =< k /\ hi - (mid + 1) =< k
      BY <2>1, <3>1
    <3>4. find[<<lo, mid>>] = Within(lo, mid) /\ find[<<mid + 1, hi>>] = Within(mid + 1, hi)
      <4>. HIDE DEF Within
      <4>. QED
        BY <1>8, <3>1, <3>3
    <3>. HIDE DEF Within
    <3>. QED
      BY <3>1, <3>2, <3>4
  <2>. QED
    BY <2>2, <2>3
<1>9. find[<<1, n + 1>>] = Within(1, n + 1)
  <2>1. n \in T
    <3>. HIDE DEF T
    <3>. QED
      BY <1>7, <1>8, NatsWithin
  <2>2. 1 \in 1..(n + 1) /\ n + 1 \in 1..(n + 1) /\ (n + 1) - 1 =< n
    OBVIOUS
  <2>. HIDE DEF Within
  <2>. QED
    BY <2>1, <2>2
<1>10. Position(es, v) = c
  BY <1>1, <1>5, <1>9
<1>. QED
  BY <1>1, <1>10


(***************************************************************************)
(* The slice.                                                              *)
(***************************************************************************)

Entry == [value : V, ids : SUBSET Ids]

(* The entries hold rangeable values of one kind, strictly ascending.      *)
Sorted(es) ==
    /\ es \in Seq(Entry)
    /\ \A i \in DOMAIN es : Rangeable(es[i].value) /\ es[i].ids # {}
    /\ \A i, j \in DOMAIN es :
          i < j => /\ Kind(es[i].value) = Kind(es[j].value)
                   /\ toFloat64(es[i].value) < toFloat64(es[j].value)

(* An entry has the ids that carry its value, whatever number type they    *)
(* carry it in, and every rangeable value has an entry.                    *)
Lists(es, carried) ==
    /\ \A i \in DOMAIN es, id \in Ids :
          id \in es[i].ids <=> carried[id] # None /\ Same(carried[id], es[i].value)
    /\ \A id \in Ids : Rangeable(carried[id]) => \E i \in DOMAIN es : id \in es[i].ids

Carried(carried) ==
    /\ carried \in [Ids -> V \cup {None}]
    /\ \A a, b \in Ids :
          Rangeable(carried[a]) /\ Rangeable(carried[b]) => Comparable(carried[a], carried[b])

LEMMA SortedPlaces ==
    ASSUME NEW es, Sorted(es)
    PROVE  /\ Len(es) \in Nat /\ DOMAIN es = 1..Len(es)
           /\ \A i \in 1..Len(es) : /\ es[i].value \in V /\ es[i].ids \subseteq Ids
                                    /\ es[i] \in Entry /\ es[i].ids # {}
                                    /\ toFloat64(es[i].value) \in Int
                                    /\ Kind(es[i].value) # "BOOL"
<1>1. Len(es) \in Nat /\ DOMAIN es = 1..Len(es) /\ \A i \in 1..Len(es) : es[i] \in Entry
  BY DEF Sorted
<1>2. \A i \in 1..Len(es) : es[i].value \in V /\ es[i].ids \subseteq Ids
  BY <1>1 DEF Entry
<1>3. ASSUME NEW i \in 1..Len(es)
      PROVE  es[i].ids # {} /\ Rangeable(es[i].value)
  BY <1>1 DEF Sorted
<1>. QED
  BY <1>1, <1>2, <1>3, Compares

(* The search finds the entry of a value if there is one, and otherwise    *)
(* the place where it belongs.                                             *)
LEMMA SearchFinds ==
    ASSUME NEW es, Sorted(es), NEW v \in V
    PROVE  /\ Position(es, v) \in 1..(Len(es) + 1)
           /\ \A i \in 1..Len(es) : AtLeast(es[i].value, v) <=> i >= Position(es, v)
           /\ Found(es, v) => Position(es, v) \in 1..Len(es)
           /\ \A i \in 1..Len(es) : Same(es[i].value, v) <=> Found(es, v) /\ i = Position(es, v)
<1> DEFINE p == Position(es, v)
<1>1. /\ Len(es) \in Nat /\ DOMAIN es = 1..Len(es)
      /\ \A i \in 1..Len(es) : es[i].value \in V /\ toFloat64(es[i].value) \in Int
  BY SortedPlaces
<1>2. \A i \in 1..Len(es) :
        /\ toFloat64(v) \in Int
        /\ AtLeast(es[i].value, v) <=> Kind(es[i].value) = Kind(v) /\ toFloat64(es[i].value) >= toFloat64(v)
        /\ Same(es[i].value, v) <=> Kind(es[i].value) = Kind(v) /\ toFloat64(es[i].value) = toFloat64(v)
  BY <1>1, Compares
<1>3. \A i, j \in 1..Len(es) :
        i < j => /\ Kind(es[i].value) = Kind(es[j].value)
                 /\ toFloat64(es[i].value) < toFloat64(es[j].value)
  BY <1>1 DEF Sorted
<1>4. \A i, j \in 1..Len(es) : i < j /\ AtLeast(es[i].value, v) => AtLeast(es[j].value, v)
  BY <1>1, <1>2, <1>3
<1>5. p \in 1..(Len(es) + 1) /\ \A i \in 1..Len(es) : AtLeast(es[i].value, v) <=> i >= p
  BY <1>1, <1>4, PositionSplits
<1>6. Found(es, v) <=> p =< Len(es) /\ Same(es[p].value, v)
  BY DEF Found
<1>. HIDE DEF p
<1>7. Found(es, v) => p \in 1..Len(es)
  BY <1>1, <1>5, <1>6
<1>8. ASSUME NEW i \in 1..Len(es)
      PROVE  Same(es[i].value, v) <=> Found(es, v) /\ i = p
  <2>1. ASSUME Same(es[i].value, v)
        PROVE  i = p /\ Found(es, v)
    <3>1. AtLeast(es[i].value, v)
      BY <1>1, <1>2, <2>1
    <3>2. i >= p /\ p \in 1..Len(es)
      BY <1>1, <1>5, <3>1
    <3>3. AtLeast(es[p].value, v)
      BY <1>5, <3>2
    <3>4. i = p
      BY <1>1, <1>2, <1>3, <2>1, <3>2, <3>3
    <3>. QED
      BY <1>6, <2>1, <3>2, <3>4
  <2>. QED
    BY <1>6, <2>1
<1>. QED
  BY <1>5, <1>7, <1>8 DEF p

(* Remove takes an id out of the one entry that has it.                    *)
LEMMA RemoveKeeps ==
    ASSUME NEW es, NEW carried, Sorted(es), Carried(carried), Lists(es, carried), NEW id \in Ids
    PROVE  /\ Sorted(RemoveEntry(es, carried[id], id))
           /\ Lists(RemoveEntry(es, carried[id], id), [carried EXCEPT ![id] = None])
<1> DEFINE v == carried[id]
           p == Position(es, v)
           after == [carried EXCEPT ![id] = None]
           new == RemoveEntry(es, v, id)
           n == Len(es)
<1>1. /\ n \in Nat /\ DOMAIN es = 1..n
      /\ \A i \in 1..n : /\ es[i].value \in V /\ es[i].ids \subseteq Ids /\ es[i] \in Entry
                         /\ es[i].ids # {} /\ Rangeable(es[i].value)
  BY SortedPlaces DEF Sorted
<1>2. /\ v \in V \cup {None} /\ None \notin V
      /\ after[id] = None /\ \A a \in Ids \ {id} : after[a] = carried[a]
  BY ValuesTyped DEF Carried
<1>3. ~Rangeable(None)
  BY DEF Rangeable
<1>4. \A i \in 1..n, a \in Ids : a \in es[i].ids <=> carried[a] # None /\ Same(carried[a], es[i].value)
  BY <1>1 DEF Lists
<1>5. \A a \in Ids : Rangeable(carried[a]) => \E i \in 1..n : a \in es[i].ids
  BY <1>1 DEF Lists
<1>6. v # None => \A i \in 1..n : Same(v, es[i].value) <=> Same(es[i].value, v)
  BY <1>1, <1>2, Compares
<1>7. v # None => /\ Found(es, v) => p \in 1..n
                  /\ \A i \in 1..n : Same(es[i].value, v) <=> Found(es, v) /\ i = p
  BY <1>2, SearchFinds
<1>. HIDE DEF p, v, after
<1>8. CASE v = None \/ ~Found(es, v)
  <2>1. new = es
    BY <1>8 DEF RemoveEntry, p
  <2>2. \A i \in 1..n : id \notin es[i].ids
    BY <1>4, <1>6, <1>7, <1>8 DEF v
  <2>3. ASSUME NEW i \in DOMAIN es, NEW a \in Ids
        PROVE  a \in es[i].ids <=> after[a] # None /\ Same(after[a], es[i].value)
    BY <1>1, <1>2, <1>4, <2>2
  <2>4. ASSUME NEW a \in Ids, Rangeable(after[a])
        PROVE  \E i \in DOMAIN es : a \in es[i].ids
    BY <1>1, <1>2, <1>3, <1>5, <2>4
  <2>. QED
    BY <2>1, <2>3, <2>4 DEF Lists, v, after
<1>9. CASE v # None /\ Found(es, v)
  <2>1. p \in 1..n /\ \A i \in 1..n : id \in es[i].ids <=> i = p
    BY <1>4, <1>6, <1>7, <1>9 DEF v
  <2>2. CASE es[p].ids = {id}
    <3>1. new = RemoveAt(es, p)
      BY <1>9, <2>2 DEF RemoveEntry, p
    <3> DEFINE old(i) == IF i < p THEN i ELSE i + 1
    <3>2. /\ new \in Seq(Entry) /\ Len(new) = n - 1
          /\ \A i \in 1..(n - 1) : new[i] = es[old(i)]
      <4>1. es \in Seq(Entry)
        BY DEF Sorted
      <4>2. /\ RemoveAt(es, p) \in Seq(Entry) /\ Len(RemoveAt(es, p)) = n - 1
            /\ \A i \in 1..(n - 1) : RemoveAt(es, p)[i] = IF i < p THEN es[i] ELSE es[i + 1]
        BY <2>1, <4>1, RemoveAtLists
      <4>. HIDE DEF new
      <4>. QED
        BY <3>1, <4>2
    <3>3. /\ \A i \in 1..(n - 1) : old(i) \in (1..n) \ {p}
          /\ \A i, j \in 1..(n - 1) : i < j => old(i) < old(j)
          /\ \A k \in 1..n : k # p => \E i \in 1..(n - 1) : old(i) = k
      <4>1. ASSUME NEW k \in 1..n, k # p
            PROVE  \E i \in 1..(n - 1) : old(i) = k
        <5>1. CASE k < p
          <6>1. k \in 1..(n - 1) /\ old(k) = k
            BY <1>1, <2>1, <5>1
          <6>. QED
            BY <6>1
        <5>2. CASE k > p
          <6>1. k - 1 \in 1..(n - 1) /\ old(k - 1) = k
            BY <1>1, <2>1, <5>2
          <6>. QED
            BY <6>1
        <5>. QED
          BY <1>1, <2>1, <4>1, <5>1, <5>2
      <4>2. /\ \A i \in 1..(n - 1) : old(i) \in (1..n) \ {p}
            /\ \A i, j \in 1..(n - 1) : i < j => old(i) < old(j)
        BY <1>1, <2>1
      <4>. QED
        BY <4>1, <4>2
    <3>4. DOMAIN new = 1..(n - 1)
      BY <3>2
    <3>. HIDE DEF old, new
    <3>5. Sorted(new)
      <4>1. ASSUME NEW i \in DOMAIN new
            PROVE  Rangeable(new[i].value) /\ new[i].ids # {}
        BY <1>1, <3>2, <3>3, <3>4
      <4>2. ASSUME NEW i \in DOMAIN new, NEW j \in DOMAIN new, i < j
            PROVE  /\ Kind(new[i].value) = Kind(new[j].value)
                   /\ toFloat64(new[i].value) < toFloat64(new[j].value)
        <5>1. /\ new[i] = es[old(i)] /\ new[j] = es[old(j)] /\ old(i) < old(j)
              /\ old(i) \in DOMAIN es /\ old(j) \in DOMAIN es
          BY <1>1, <3>2, <3>3, <3>4, <4>2
        <5>. QED
          BY <5>1 DEF Sorted
      <4>. QED
        BY <3>2, <4>1, <4>2 DEF Sorted
    <3>6. ASSUME NEW i \in DOMAIN new, NEW a \in Ids
          PROVE  a \in new[i].ids <=> after[a] # None /\ Same(after[a], new[i].value)
      <4>1. new[i] = es[old(i)] /\ old(i) \in 1..n /\ old(i) # p
        BY <3>2, <3>3, <3>4
      <4>. QED
        BY <1>2, <1>4, <2>1, <4>1
    <3>7. ASSUME NEW a \in Ids, Rangeable(after[a])
          PROVE  \E i \in DOMAIN new : a \in new[i].ids
      <4>1. a # id /\ Rangeable(carried[a])
        BY <1>2, <1>3, <3>7
      <4>2. PICK k \in 1..n : a \in es[k].ids
        BY <1>5, <4>1
      <4>3. k # p
        BY <2>2, <4>1, <4>2
      <4>4. PICK i \in 1..(n - 1) : old(i) = k
        BY <3>3, <4>3
      <4>. QED
        BY <3>2, <3>4, <4>2, <4>4
    <3>. QED
      BY <3>5, <3>6, <3>7 DEF Lists, new, v, after
  <2>3. CASE es[p].ids # {id}
    <3>1. new = [es EXCEPT ![p].ids = @ \ {id}]
      BY <1>9, <2>3 DEF RemoveEntry, p
    <3>2. /\ new \in Seq(Entry) /\ DOMAIN new = 1..n
          /\ \A i \in 1..n : i # p => new[i] = es[i]
          /\ new[p].value = es[p].value /\ new[p].ids = es[p].ids \ {id}
      <4>1. es \in Seq(Entry) /\ es[p] \in [value : V, ids : SUBSET Ids]
        BY <1>1, <2>1 DEF Sorted, Entry
      <4>2. [es[p] EXCEPT !.ids = @ \ {id}] \in Entry
        BY <4>1 DEF Entry
      <4>3. new = [es EXCEPT ![p] = [es[p] EXCEPT !.ids = @ \ {id}]]
        BY <3>1
      <4>. HIDE DEF new
      <4>4. new \in Seq(Entry)
        BY <2>1, <4>1, <4>2, <4>3, ExceptSeq
      <4>. QED
        BY <1>1, <2>1, <4>1, <4>3, <4>4
    <3>. HIDE DEF new
    <3>3. \A i \in 1..n : new[i].value = es[i].value
      BY <3>2
    <3>4. \A i \in 1..n, a \in Ids : a \in new[i].ids <=> a \in es[i].ids /\ a # id
      BY <2>1, <3>2
    <3>5. Sorted(new)
      <4>1. ASSUME NEW i \in DOMAIN new
            PROVE  Rangeable(new[i].value) /\ new[i].ids # {}
        BY <1>1, <2>1, <2>3, <3>2
      <4>2. ASSUME NEW i \in DOMAIN new, NEW j \in DOMAIN new, i < j
            PROVE  /\ Kind(new[i].value) = Kind(new[j].value)
                   /\ toFloat64(new[i].value) < toFloat64(new[j].value)
        <5>1. /\ new[i].value = es[i].value /\ new[j].value = es[j].value
              /\ i \in DOMAIN es /\ j \in DOMAIN es
          BY <1>1, <3>2, <3>3
        <5>. QED
          BY <4>2, <5>1 DEF Sorted
      <4>. QED
        BY <3>2, <4>1, <4>2 DEF Sorted
    <3>6. ASSUME NEW i \in DOMAIN new, NEW a \in Ids
          PROVE  a \in new[i].ids <=> after[a] # None /\ Same(after[a], new[i].value)
      BY <1>2, <1>4, <3>2, <3>3, <3>4
    <3>7. ASSUME NEW a \in Ids, Rangeable(after[a])
          PROVE  \E i \in DOMAIN new : a \in new[i].ids
      BY <1>2, <1>3, <1>5, <3>2, <3>4, <3>7
    <3>. QED
      BY <3>5, <3>6, <3>7 DEF Lists, new, v, after
  <2>. QED
    BY <2>2, <2>3
<1>. QED
  BY <1>8, <1>9


(* Add puts an id into the entry of its value, or into a new one where the *)
(* value belongs.                                                          *)
LEMMA AddKeeps ==
    ASSUME NEW es, NEW carried, Sorted(es), Carried(carried), Lists(es, carried),
           NEW id \in Ids, carried[id] = None, NEW v \in V,
           \A a \in Ids \ {id} : Rangeable(v) /\ Rangeable(carried[a]) => Comparable(v, carried[a])
    PROVE  /\ Sorted(AddEntry(es, v, id))
           /\ Lists(AddEntry(es, v, id), [carried EXCEPT ![id] = v])
<1> DEFINE p == Position(es, v)
           after == [carried EXCEPT ![id] = v]
           new == AddEntry(es, v, id)
           n == Len(es)
<1>1. /\ n \in Nat /\ DOMAIN es = 1..n
      /\ \A i \in 1..n : /\ es[i].value \in V /\ es[i].ids \subseteq Ids /\ es[i] \in Entry
                         /\ es[i].ids # {} /\ Rangeable(es[i].value)
  BY SortedPlaces DEF Sorted
<1>2. /\ None \notin V /\ after[id] = v
      /\ \A a \in Ids \ {id} : after[a] = carried[a] /\ carried[a] \in V \cup {None}
  BY ValuesTyped DEF Carried
<1>3. ~Rangeable(None)
  BY DEF Rangeable
<1>4. \A i \in 1..n, a \in Ids : a \in es[i].ids <=> carried[a] # None /\ Same(carried[a], es[i].value)
  BY <1>1 DEF Lists
<1>5. \A a \in Ids : Rangeable(carried[a]) => \E i \in 1..n : a \in es[i].ids
  BY <1>1 DEF Lists
<1>6. \A i \in 1..n : id \notin es[i].ids
  BY <1>4
<1>7. \A i \in 1..n : Same(v, es[i].value) <=> Same(es[i].value, v)
  BY <1>1, Compares
<1>8. /\ p \in 1..(n + 1)
      /\ \A i \in 1..n : AtLeast(es[i].value, v) <=> i >= p
      /\ Found(es, v) => p \in 1..n
      /\ \A i \in 1..n : Same(es[i].value, v) <=> Found(es, v) /\ i = p
  BY SearchFinds
<1>. HIDE DEF p, after
<1>9. CASE ~Rangeable(v)
  <2>1. new = es
    BY <1>9 DEF AddEntry
  <2>2. ASSUME NEW i \in 1..n
        PROVE  ~Same(v, es[i].value)
    BY <1>1, <1>9, Compares
  <2>3. ASSUME NEW i \in DOMAIN es, NEW a \in Ids
        PROVE  a \in es[i].ids <=> after[a] # None /\ Same(after[a], es[i].value)
    BY <1>1, <1>2, <1>4, <1>6, <2>2
  <2>4. ASSUME NEW a \in Ids, Rangeable(after[a])
        PROVE  \E i \in DOMAIN es : a \in es[i].ids
    BY <1>1, <1>2, <1>5, <1>9, <2>4
  <2>. QED
    BY <2>1, <2>3, <2>4 DEF Lists, after
<1>10. CASE Rangeable(v) /\ Found(es, v)
  <2>1. p \in 1..n /\ Same(v, es[p].value)
    BY <1>7, <1>8, <1>10
  <2>2. new = [es EXCEPT ![p].ids = @ \cup {id}]
    BY <1>10 DEF AddEntry, p
  <2>3. /\ new \in Seq(Entry) /\ DOMAIN new = 1..n
        /\ \A i \in 1..n : i # p => new[i] = es[i]
        /\ new[p].value = es[p].value /\ new[p].ids = es[p].ids \cup {id}
    <3>1. es \in Seq(Entry) /\ es[p] \in [value : V, ids : SUBSET Ids]
      BY <1>1, <2>1 DEF Sorted, Entry
    <3>2. [es[p] EXCEPT !.ids = @ \cup {id}] \in Entry
      BY <3>1 DEF Entry
    <3>3. new = [es EXCEPT ![p] = [es[p] EXCEPT !.ids = @ \cup {id}]]
      BY <2>2
    <3>. HIDE DEF new
    <3>4. new \in Seq(Entry)
      BY <2>1, <3>1, <3>2, <3>3, ExceptSeq
    <3>. QED
      BY <1>1, <2>1, <3>1, <3>3, <3>4
  <2>. HIDE DEF new
  <2>4. \A i \in 1..n : new[i].value = es[i].value
    BY <2>3
  <2>5. \A i \in 1..n, a \in Ids : a \in new[i].ids <=> a \in es[i].ids \/ (i = p /\ a = id)
    BY <2>3
  <2>6. Sorted(new)
    <3>1. ASSUME NEW i \in DOMAIN new
          PROVE  Rangeable(new[i].value) /\ new[i].ids # {}
      BY <1>1, <2>1, <2>3
    <3>2. ASSUME NEW i \in DOMAIN new, NEW j \in DOMAIN new, i < j
          PROVE  /\ Kind(new[i].value) = Kind(new[j].value)
                 /\ toFloat64(new[i].value) < toFloat64(new[j].value)
      <4>1. /\ new[i].value = es[i].value /\ new[j].value = es[j].value
            /\ i \in DOMAIN es /\ j \in DOMAIN es
        BY <1>1, <2>3, <2>4
      <4>. QED
        BY <3>2, <4>1 DEF Sorted
    <3>. QED
      BY <2>3, <3>1, <3>2 DEF Sorted
  <2>7. ASSUME NEW i \in DOMAIN new, NEW a \in Ids
        PROVE  a \in new[i].ids <=> after[a] # None /\ Same(after[a], new[i].value)
    <3>1. i \in 1..n /\ new[i].value = es[i].value
      BY <2>3, <2>4
    <3>2. CASE a = id
      BY <1>2, <1>6, <1>7, <1>8, <1>10, <2>5, <3>1, <3>2
    <3>3. CASE a # id
      BY <1>2, <1>4, <2>5, <3>1, <3>3
    <3>. QED
      BY <3>2, <3>3
  <2>8. ASSUME NEW a \in Ids, Rangeable(after[a])
        PROVE  \E i \in DOMAIN new : a \in new[i].ids
    <3>1. CASE a = id
      BY <2>1, <2>3, <3>1
    <3>2. CASE a # id
      BY <1>2, <1>5, <2>3, <2>5, <2>8, <3>2
    <3>. QED
      BY <3>1, <3>2
  <2>. QED
    BY <2>6, <2>7, <2>8 DEF Lists, new, after
<1>11. CASE Rangeable(v) /\ ~Found(es, v)
  <2> DEFINE entry == [value |-> v, ids |-> {id}]
             old(i) == IF i < p THEN i ELSE i - 1
  <2>1. new = InsertAt(es, p, entry)
    BY <1>11 DEF AddEntry, p
  <2>2. entry \in Entry /\ entry.value = v /\ entry.ids = {id}
    BY DEF Entry
  <2>. HIDE DEF entry
  <2>3. /\ new \in Seq(Entry) /\ Len(new) = n + 1
        /\ \A i \in 1..(n + 1) : new[i] = IF i = p THEN entry ELSE es[old(i)]
    <3>1. es \in Seq(Entry)
      BY DEF Sorted
    <3>2. /\ InsertAt(es, p, entry) \in Seq(Entry) /\ Len(InsertAt(es, p, entry)) = n + 1
          /\ \A i \in 1..(n + 1) : InsertAt(es, p, entry)[i] =
                IF i < p THEN es[i] ELSE IF i = p THEN entry ELSE es[i - 1]
      BY <1>8, <2>2, <3>1, InsertAtLists
    <3>3. p \in Int
      BY <1>8
    <3>. HIDE DEF new
    <3>. QED
      BY <2>1, <3>2, <3>3
  <2>4. DOMAIN new = 1..(n + 1)
    BY <2>3
  <2>5. /\ \A i \in 1..(n + 1) : i # p => old(i) \in 1..n
        /\ \A i, j \in 1..(n + 1) : i < j /\ i # p /\ j # p => old(i) < old(j)
        /\ \A i \in 1..(n + 1) : (i < p => old(i) < p) /\ (i > p => old(i) >= p)
        /\ \A k \in 1..n : \E i \in 1..(n + 1) : i # p /\ old(i) = k
    <3>1. ASSUME NEW k \in 1..n
          PROVE  \E i \in 1..(n + 1) : i # p /\ old(i) = k
      <4>1. CASE k < p
        <5>1. k \in 1..(n + 1) /\ k # p /\ old(k) = k
          BY <1>1, <1>8, <4>1
        <5>. QED
          BY <5>1
      <4>2. CASE k >= p
        <5>1. k + 1 \in 1..(n + 1) /\ k + 1 # p /\ old(k + 1) = k
          BY <1>1, <1>8, <4>2
        <5>. QED
          BY <5>1
      <4>. QED
        BY <1>1, <1>8, <4>1, <4>2
    <3>2. /\ \A i \in 1..(n + 1) : i # p => old(i) \in 1..n
          /\ \A i, j \in 1..(n + 1) : i < j /\ i # p /\ j # p => old(i) < old(j)
          /\ \A i \in 1..(n + 1) : (i < p => old(i) < p) /\ (i > p => old(i) >= p)
      BY <1>1, <1>8
    <3>. QED
      BY <3>1, <3>2
  <2>. HIDE DEF new, old
  <2>6. ASSUME NEW i \in 1..n
        PROVE  /\ Kind(es[i].value) = Kind(v)
               /\ i < p => toFloat64(es[i].value) < toFloat64(v)
               /\ i >= p => toFloat64(es[i].value) > toFloat64(v)
    <3>1. PICK a \in es[i].ids : a \in Ids \ {id}
      BY <1>1, <1>6
    <3>2. carried[a] \in V /\ Same(carried[a], es[i].value)
      BY <1>2, <1>4, <3>1
    <3>3. es[i].value \in V /\ Rangeable(es[i].value)
      BY <1>1
    <3>4. Kind(carried[a]) = Kind(es[i].value) /\ Rangeable(carried[a])
      BY <3>2, <3>3, Compares
    <3>5. Comparable(v, carried[a])
      BY <1>11, <3>1, <3>4
    <3>6. Kind(es[i].value) = Kind(v)
      BY <3>2, <3>4, <3>5, Compares
    <3>7. /\ toFloat64(v) \in Int /\ toFloat64(es[i].value) \in Int
          /\ AtLeast(es[i].value, v) <=> toFloat64(es[i].value) >= toFloat64(v)
          /\ Same(es[i].value, v) <=> toFloat64(es[i].value) = toFloat64(v)
      BY <3>3, <3>6, Compares
    <3>8. ~Same(es[i].value, v) /\ (AtLeast(es[i].value, v) <=> i >= p)
      BY <1>8, <1>11
    <3>9. i \in Int /\ p \in Int
      BY <1>1, <1>8
    <3>. QED
      BY <3>6, <3>7, <3>8, <3>9
  <2>7. Sorted(new)
    <3>1. ASSUME NEW i \in DOMAIN new
          PROVE  Rangeable(new[i].value) /\ new[i].ids # {}
      BY <1>1, <1>11, <2>2, <2>3, <2>4, <2>5
    <3>2. ASSUME NEW i \in DOMAIN new, NEW j \in DOMAIN new, i < j
          PROVE  /\ Kind(new[i].value) = Kind(new[j].value)
                 /\ toFloat64(new[i].value) < toFloat64(new[j].value)
      <4>1. i \in 1..(n + 1) /\ j \in 1..(n + 1) /\ i \in Int /\ j \in Int /\ p \in Int
        BY <1>1, <1>8, <2>4
      <4>2. CASE i = p
        <5>1. j > p /\ j # p /\ old(j) \in 1..n /\ old(j) >= p
          BY <2>5, <3>2, <4>1, <4>2
        <5>. QED
          BY <2>2, <2>3, <2>6, <4>1, <4>2, <5>1
      <4>3. CASE j = p
        <5>1. i < p /\ i # p /\ old(i) \in 1..n /\ old(i) < p
          BY <2>5, <3>2, <4>1, <4>3
        <5>. QED
          BY <2>2, <2>3, <2>6, <4>1, <4>3, <5>1
      <4>4. CASE i # p /\ j # p
        <5>1. /\ new[i] = es[old(i)] /\ new[j] = es[old(j)] /\ old(i) < old(j)
              /\ old(i) \in DOMAIN es /\ old(j) \in DOMAIN es
          BY <1>1, <2>3, <2>5, <3>2, <4>1, <4>4
        <5>. QED
          BY <5>1 DEF Sorted
      <4>. QED
        BY <4>2, <4>3, <4>4
    <3>. QED
      BY <2>3, <3>1, <3>2 DEF Sorted
  <2>8. ASSUME NEW i \in DOMAIN new, NEW a \in Ids
        PROVE  a \in new[i].ids <=> after[a] # None /\ Same(after[a], new[i].value)
    <3>1. CASE i = p
      <4>1. new[i] = entry
        BY <2>3, <2>4, <3>1
      <4>2. CASE a = id
        <5>1. Same(v, v)
          BY Compares
        <5>. QED
          BY <1>2, <2>2, <4>1, <4>2, <5>1
      <4>3. CASE a # id
        <5>1. SUFFICES ASSUME carried[a] # None, Same(carried[a], v)
                       PROVE  FALSE
          BY <1>2, <2>2, <4>1, <4>3
        <5>2. carried[a] \in V
          BY <1>2, <4>3, <5>1
        <5>3. Rangeable(carried[a])
          BY <1>11, <5>1, <5>2, Compares
        <5>4. PICK k \in 1..n : a \in es[k].ids
          BY <1>5, <5>3
        <5>5. Same(carried[a], es[k].value)
          BY <1>4, <5>4
        <5>6. Same(es[k].value, v)
          BY <1>1, <5>1, <5>2, <5>5, Compares
        <5>. QED
          BY <1>8, <1>11, <5>6
      <4>. QED
        BY <4>2, <4>3
    <3>2. CASE i # p
      <4>1. new[i] = es[old(i)] /\ old(i) \in 1..n
        BY <2>3, <2>4, <2>5, <3>2
      <4>2. ~Same(v, es[old(i)].value)
        BY <1>7, <1>8, <1>11, <4>1
      <4>. QED
        BY <1>2, <1>4, <1>6, <4>1, <4>2
    <3>. QED
      BY <3>1, <3>2
  <2>9. ASSUME NEW a \in Ids, Rangeable(after[a])
        PROVE  \E i \in DOMAIN new : a \in new[i].ids
    <3>1. CASE a = id
      BY <1>8, <2>2, <2>3, <2>4, <3>1
    <3>2. CASE a # id
      <4>1. PICK k \in 1..n : a \in es[k].ids
        BY <1>2, <1>5, <2>9, <3>2
      <4>2. PICK i \in 1..(n + 1) : i # p /\ old(i) = k
        BY <2>5
      <4>. QED
        BY <2>3, <2>4, <4>1, <4>2
    <3>. QED
      BY <3>1, <3>2
  <2>. QED
    BY <2>7, <2>8, <2>9 DEF Lists, new, after
<1>. QED
  BY <1>9, <1>10, <1>11


(* Adding the carried values one after the other to a cleared slice leaves *)
(* all of them, the ids not yet reached counting as without a value.       *)
LEMMA RebuiltKeeps ==
    ASSUME NEW carried, Carried(carried), Rebuilt(carried)
    PROVE  /\ Sorted(entries') /\ Lists(entries', carried)
           /\ keyed' = UNION {KeyOf(id, carried[id]) : id \in Ids}
<1> DEFINE A == {id \in Ids : carried[id] # None}
           ids == IDs(A)
           n == Len(ids)
           Next1(es, i) == AddEntry(es, carried[ids[i]], ids[i])
           Adds(f) == f = [i \in 0..n |-> IF i = 0 THEN <<>> ELSE Next1(f[i - 1], i)]
           added == CHOOSE f : Adds(f)
           part(i) == [x \in Ids |-> IF \E j \in 1..i : ids[j] = x THEN carried[x] ELSE None]
           Good(es, i) == Sorted(es) /\ Lists(es, part(i))
<1>1. entries' = added[n] /\ keyed' = UNION {KeyOf(id, carried[id]) : id \in Ids}
  BY DEF Rebuilt
<1>2. /\ ids \in Seq(A) /\ ToSet(ids) = A
      /\ \A i, j \in DOMAIN ids : i < j => ids[i] < ids[j]
  <2>1. A \in SUBSET Nat /\ IsFiniteSet(A)
    BY IdsAssumption, FS_Subset
  <2>. HIDE DEF A
  <2>. QED
    BY <2>1, AscendingList DEF IDs
<1>3. n \in Nat /\ DOMAIN ids = 1..n /\ \A i \in 1..n : ids[i] \in Ids /\ carried[ids[i]] \in V
  <2>1. n \in Nat /\ DOMAIN ids = 1..n /\ \A i \in 1..n : ids[i] \in A
    <3>. HIDE DEF A, ids
    <3>. QED
      BY <1>2
  <2>. QED
    BY <2>1 DEF Carried
<1>4. \A i, j \in 1..n : ids[i] = ids[j] => i = j
  <2>1. SUFFICES ASSUME NEW i \in 1..n, NEW j \in 1..n, i < j
                 PROVE  ids[i] # ids[j]
    <3>. HIDE DEF ids
    <3>. QED
      BY <1>3
  <2>2. ids[i] < ids[j] /\ ids[i] \in Nat /\ ids[j] \in Nat
    BY <1>2, <1>3, <2>1, IdsAssumption
  <2>. HIDE DEF ids
  <2>. QED
    BY <2>2
<1>5. \A x \in A : \E i \in 1..n : ids[i] = x
  <2>. HIDE DEF ids, A
  <2>. QED
    BY <1>2, <1>3 DEF ToSet
<1>. HIDE DEF ids, added, n
<1>6. Good(<<>>, 0)
  <2>1. <<>> \in Seq(Entry) /\ DOMAIN <<>> = {} /\ 1..0 = {}
    OBVIOUS
  <2>2. \A x \in Ids : part(0)[x] = None
    BY <2>1
  <2>3. ~Rangeable(None)
    BY DEF Rangeable
  <2>. HIDE DEF part
  <2>. QED
    BY <2>1, <2>2, <2>3 DEF Sorted, Lists
<1>7. ASSUME NEW i \in 1..n, NEW es, Good(es, i - 1)
      PROVE  Good(Next1(es, i), i)
  <2> DEFINE before == part(i - 1)
             id == ids[i]
             v == carried[ids[i]]
  <2>1. id \in Ids /\ v \in V
    BY <1>3
  <2>2. \A j \in 1..i : j = i \/ j \in 1..(i - 1)
    BY <1>3
  <2>3. \A j \in 1..(i - 1) : j \in 1..n /\ j # i
    BY <1>3
  <2>4. before[id] = None
    BY <1>4, <2>1, <2>3
  <2>5. before \in [Ids -> V \cup {None}] /\ \A x \in Ids : before[x] \in {carried[x], None}
    BY DEF Carried
  <2>6. ~Rangeable(None)
    BY DEF Rangeable
  <2>7. Carried(before)
    BY <2>5, <2>6 DEF Carried
  <2>8. \A a \in Ids \ {id} : Rangeable(v) /\ Rangeable(before[a]) => Comparable(v, before[a])
    BY <2>1, <2>5, <2>6 DEF Carried
  <2>9. part(i) = [before EXCEPT ![id] = v]
    <3>1. ASSUME NEW x \in Ids
          PROVE  part(i)[x] = [before EXCEPT ![id] = v][x]
      <4>1. CASE x = id
        <5>1. i \in 1..i
          BY <1>3
        <5>. QED
          BY <2>1, <4>1, <5>1
      <4>2. CASE x # id
        <5>1. (\E j \in 1..i : ids[j] = x) <=> \E j \in 1..(i - 1) : ids[j] = x
          <6>1. \A j \in 1..(i - 1) : j \in 1..i
            BY <1>3
          <6>. QED
            BY <2>2, <4>2, <6>1
        <5>. QED
          BY <4>2, <5>1
      <4>. QED
        BY <4>1, <4>2
    <3>2. DOMAIN part(i) = Ids /\ DOMAIN [before EXCEPT ![id] = v] = Ids
      OBVIOUS
    <3>3. part(i) = [x \in Ids |-> part(i)[x]]
      OBVIOUS
    <3>4. [before EXCEPT ![id] = v] = [x \in Ids |-> [before EXCEPT ![id] = v][x]]
      OBVIOUS
    <3>. HIDE DEF part, before
    <3>. QED
      BY <3>1, <3>3, <3>4
  <2>. HIDE DEF part, before, id, v
  <2>10. /\ Sorted(AddEntry(es, v, id))
         /\ Lists(AddEntry(es, v, id), [before EXCEPT ![id] = v])
    <3>1. Sorted(es) /\ Lists(es, before)
      BY <1>7 DEF before
    <3>. QED
      BY <2>1, <2>4, <2>7, <2>8, <3>1, AddKeeps
  <2>. QED
    BY <2>9, <2>10 DEF id, v
<1>. HIDE DEF Good, Next1
<1>8. ASSUME NEW f, f[0] = <<>>,
             \A i \in 1..n : Good(f[i - 1], i - 1) => f[i] = Next1(f[i - 1], i)
      PROVE  \A i \in 0..n : Good(f[i], i)
  <2> DEFINE T == {k \in Nat : k =< n => Good(f[k], k)}
  <2>1. 0 \in T
    BY <1>6, <1>8
  <2>2. ASSUME NEW k \in Nat, k \in T
        PROVE  k + 1 \in T
    <3>1. SUFFICES ASSUME k + 1 =< n
                   PROVE  Good(f[k + 1], k + 1)
      OBVIOUS
    <3>2. k + 1 \in 1..n /\ (k + 1) - 1 = k /\ Good(f[k], k)
      BY <1>3, <2>2, <3>1
    <3>3. f[k + 1] = Next1(f[k], k + 1)
      BY <1>8, <3>2
    <3>. QED
      BY <1>7, <3>2, <3>3
  <2>3. Nat \subseteq T
    <3>. HIDE DEF T
    <3>. QED
      BY <2>1, <2>2, NatsWithin
  <2>. QED
    BY <1>3, <2>3
<1>9. \E f : Adds(f)
  <2> DEFINE D == Seq(Entry)
             step == [p \in D \X (1..n) |-> IF Next1(p[1], p[2]) \in D THEN Next1(p[1], p[2]) ELSE <<>>]
  <2>1. step \in [D \X (1..n) -> D] /\ <<>> \in D
    OBVIOUS
  <2>2. ASSUME NEW es \in D, NEW i \in 1..n
        PROVE  Next1(es, i) \in D => step[<<es, i>>] = Next1(es, i)
    <3>1. <<es, i>> \in D \X (1..n) /\ <<es, i>>[1] = es /\ <<es, i>>[2] = i
      OBVIOUS
    <3>. HIDE DEF D
    <3>. QED
      BY <3>1
  <2>3. \A es, i : Good(es, i) => es \in D
    BY DEF Good, Sorted
  <2>. HIDE DEF step, D
  <2>4. PICK f : Iteration(f, D, <<>>, n, step)
    BY <1>3, <2>1, Iterates
  <2>5. /\ f \in [0..n -> D] /\ f[0] = <<>>
        /\ \A i \in 1..n : f[i] = step[<<f[i - 1], i>>]
    BY <2>4 DEF Iteration
  <2>6. ASSUME NEW i \in 1..n, Good(f[i - 1], i - 1)
        PROVE  f[i] = Next1(f[i - 1], i)
    <3>1. Next1(f[i - 1], i) \in D /\ f[i - 1] \in D
      BY <1>7, <2>3, <2>6
    <3>. QED
      BY <2>2, <2>5, <3>1
  <2>7. \A i \in 0..n : Good(f[i], i)
    BY <1>8, <2>5, <2>6
  <2>8. ASSUME NEW i \in 1..n
        PROVE  f[i] = Next1(f[i - 1], i)
    <3>1. i - 1 \in 0..n
      BY <1>3
    <3>. QED
      BY <2>6, <2>7, <3>1
  <2>9. ASSUME NEW i \in 0..n
        PROVE  f[i] = IF i = 0 THEN <<>> ELSE Next1(f[i - 1], i)
    <3>1. i = 0 \/ i \in 1..n
      BY <1>3
    <3>. QED
      BY <2>5, <2>8, <3>1
  <2>10. f = [i \in 0..n |-> f[i]]
    BY <2>5
  <2>11. Adds(f)
    BY <2>9, <2>10
  <2>. QED
    BY <2>11
<1>10. Adds(added)
  <2>. HIDE DEF Adds
  <2>. QED
    BY <1>9 DEF added
<1>11. added[0] = <<>> /\ \A i \in 1..n : added[i] = Next1(added[i - 1], i)
  <2>1. 0 \in 0..n /\ \A i \in 1..n : i \in 0..n /\ i # 0
    BY <1>3
  <2>. QED
    BY <1>10, <2>1
<1>12. Good(added[n], n)
  <2>1. \A i \in 0..n : Good(added[i], i)
    BY <1>8, <1>11
  <2>2. n \in 0..n
    BY <1>3
  <2>. QED
    BY <2>1, <2>2
<1>13. part(n) = carried
  <2>1. ASSUME NEW x \in Ids
        PROVE  part(n)[x] = carried[x]
    BY <1>5
  <2>2. part(n) = [x \in Ids |-> part(n)[x]] /\ carried = [x \in Ids |-> carried[x]]
    BY DEF Carried
  <2>. HIDE DEF part
  <2>. QED
    BY <2>1, <2>2
<1>. QED
  BY <1>1, <1>12, <1>13 DEF Good


(***************************************************************************)
(* The inductive invariant: what the graph carries has types that compare, *)
(* the slice is sorted and lists it, and the keys are those of its values. *)
(* Neither the exactness of a range nor that of the order survives a step  *)
(* without the sortedness, which the binary search of the next step needs. *)
(***************************************************************************)

Keyed(carried) == UNION {KeyOf(id, carried[id]) : id \in Ids}

IndInv ==
    /\ Carried(held)
    /\ Sorted(entries) /\ Lists(entries, held)
    /\ keyed = Keyed(held)

LEMMA KeyedPairs ==
    ASSUME NEW carried, NEW key, NEW id
    PROVE  <<key, id>> \in Keyed(carried) <=>
             id \in Ids /\ carried[id] # None /\ key = Key(carried[id])
<1>1. <<key, id>> \in Keyed(carried) <=> \E a \in Ids : <<key, id>> \in KeyOf(a, carried[a])
  BY DEF Keyed
<1>2. ASSUME NEW a \in Ids
      PROVE  <<key, id>> \in KeyOf(a, carried[a]) <=>
               a = id /\ carried[a] # None /\ key = Key(carried[a])
  BY DEF KeyOf
<1>. QED
  BY <1>1, <1>2

LEMMA InitSound ==
    ASSUME Init
    PROVE  IndInv
<1>1. held = [id \in Ids |-> None] /\ entries = <<>> /\ keyed = {}
  BY DEF Init
<1>2. ~Rangeable(None)
  BY DEF Rangeable
<1>3. <<>> \in Seq(Entry) /\ DOMAIN <<>> = {}
  OBVIOUS
<1>4. Keyed(held) = {}
  BY <1>1 DEF Keyed, KeyOf
<1>. QED
  BY <1>1, <1>2, <1>3, <1>4 DEF IndInv, Carried, Sorted, Lists

LEMMA VertexChangedKeeps ==
    ASSUME IndInv, NEW id \in Ids, NEW v \in Values \cup {None}, VertexChanged(id, v)
    PROVE  IndInv'
<1> DEFINE removed == [held EXCEPT ![id] = None]
           without == RemoveEntry(entries, held[id], id)
<1>1. /\ Carried(held) /\ Sorted(entries) /\ Lists(entries, held) /\ keyed = Keyed(held)
      /\ held \in [Ids -> V \cup {None}]
  BY DEF IndInv, Carried
<1>2. /\ held' = [held EXCEPT ![id] = v] /\ Fits(id, v)
      /\ keyed' = (keyed \ KeyOf(id, held[id])) \cup KeyOf(id, v)
      /\ entries' = IF v = None THEN without ELSE AddEntry(without, v, id)
  BY DEF VertexChanged
<1>3. v \in V \cup {None} /\ None \notin V /\ ~Rangeable(None)
  BY ValuesTyped DEF Rangeable
<1>4. Sorted(without) /\ Lists(without, removed)
  BY <1>1, RemoveKeeps
<1>5. /\ removed[id] = None /\ \A a \in Ids \ {id} : removed[a] = held[a]
      /\ removed \in [Ids -> V \cup {None}]
  BY <1>1
<1>6. /\ held'[id] = v /\ \A a \in Ids \ {id} : held'[a] = held[a]
      /\ held' \in [Ids -> V \cup {None}]
  BY <1>1, <1>2, <1>3
<1>. HIDE DEF removed, without
<1>7. Carried(removed)
  BY <1>1, <1>3, <1>5 DEF Carried
<1>8. Sorted(entries') /\ Lists(entries', held')
  <2>1. CASE v = None
    BY <1>2, <1>4, <2>1 DEF removed
  <2>2. CASE v # None
    <3>1. v \in V /\ entries' = AddEntry(without, v, id)
      BY <1>2, <1>3, <2>2
    <3>2. \A a \in Ids \ {id} : Rangeable(v) /\ Rangeable(removed[a]) => Comparable(v, removed[a])
      BY <1>2, <1>5 DEF Fits
    <3>3. /\ Sorted(AddEntry(without, v, id))
          /\ Lists(AddEntry(without, v, id), [removed EXCEPT ![id] = v])
      BY <1>4, <1>5, <1>7, <3>1, <3>2, AddKeeps
    <3>4. [removed EXCEPT ![id] = v] = held'
      BY <1>1, <1>2 DEF removed
    <3>. QED
      BY <3>1, <3>3, <3>4
  <2>. QED
    BY <2>1, <2>2
<1>9. Carried(held')
  <2>1. ASSUME NEW a \in Ids, NEW b \in Ids, Rangeable(held'[a]), Rangeable(held'[b])
        PROVE  Comparable(held'[a], held'[b])
    <3>1. held'[a] \in V /\ held'[b] \in V
      BY <1>3, <1>6, <2>1
    <3>2. \A x, y \in V : Comparable(x, y) <=> Kind(x) = Kind(y)
      BY Compares
    <3>3. CASE a = id /\ b = id
      BY <3>1, <3>2, <3>3
    <3>4. CASE a = id /\ b # id
      BY <1>2, <1>6, <2>1, <3>4 DEF Fits
    <3>5. CASE a # id /\ b = id
      <4>1. Comparable(held'[b], held'[a])
        BY <1>2, <1>6, <2>1, <3>5 DEF Fits
      <4>. QED
        BY <3>1, <3>2, <4>1
    <3>6. CASE a # id /\ b # id
      BY <1>1, <1>6, <2>1, <3>6 DEF Carried
    <3>. QED
      BY <3>3, <3>4, <3>5, <3>6
  <2>. QED
    BY <1>6, <2>1 DEF Carried
<1>10. keyed' = Keyed(held')
  <2>1. ASSUME NEW pair
        PROVE  pair \in keyed' <=> pair \in Keyed(held')
    <3>1. pair \in keyed' <=> (pair \in Keyed(held) /\ pair \notin KeyOf(id, held[id])) \/ pair \in KeyOf(id, v)
      BY <1>1, <1>2
    <3>2. pair \in Keyed(held) <=> \E a \in Ids : pair \in KeyOf(a, held[a])
      BY DEF Keyed
    <3>3. pair \in Keyed(held') <=> \E a \in Ids : pair \in KeyOf(a, held'[a])
      BY DEF Keyed
    <3>4. \A a \in Ids : \A x : pair \in KeyOf(a, x) => pair[2] = a
      BY DEF KeyOf
    <3>. QED
      BY <1>6, <3>1, <3>2, <3>3, <3>4
  <2>. QED
    BY <2>1
<1>. QED
  BY <1>8, <1>9, <1>10 DEF IndInv

(* What a restart reads back for a value has its type, lies within it, and *)
(* where the value lasts compares with every other as the value did.       *)
LEMMA FromRecordTyped ==
    ASSUME NEW v \in V, NEW back \in FromRecord(v)
    PROVE  /\ back \in V /\ Kind(back) = Kind(v) /\ (Rangeable(back) <=> Rangeable(v))
           /\ Lasts(v) => toFloat64(back) = toFloat64(v)
           /\ back.sign = v.sign
<1>1. /\ v \in Shapes /\ v.n \in Int /\ (v.type # "FLOAT" => v.n \in Int64)
      /\ v.sign = "-" => v.type = "FLOAT" /\ v.n = 0
  BY DEF V, Shapes
<1>2. v # None
  BY ValuesTyped
<1>3. Int64 \subseteq Int /\ MaxInt \in Int /\ -MaxInt - 1 \in Int64 /\ MaxInt \in Int64
  BY PrecisionAssumption DEF Int64
<1>4. Float(v.n) \in Int /\ Float(Float(v.n)) = Float(v.n)
  BY <1>1, FloatTyped
<1>5. CASE v.type \in {"INT", "TIMESTAMP"}
  <2>1. PICK i \in toInt64(Float(v.n)) : back = [v EXCEPT !.n = i]
    BY <1>5 DEF FromRecord
  <2>2. i \in Int64 /\ (Float(v.n) \in Int64 => i = Float(v.n))
    BY <1>3, <2>1 DEF toInt64
  <2>3. back.type = v.type /\ back.n = i /\ back.sign = v.sign /\ back \in Shapes
    BY <1>1, <1>3, <2>1, <2>2 DEF Shapes
  <2>4. back \in V
    BY <1>1, <1>5, <2>2, <2>3 DEF V
  <2>5. Kind(back) = Kind(v)
    BY <2>3 DEF Kind
  <2>6. ASSUME Lasts(v)
        PROVE  toFloat64(back) = toFloat64(v)
    <3>1. CASE FromRecord(v) = {v}
      BY <3>1
    <3>2. CASE v.type = "INT" /\ Float(v.n) \in Int64
      BY <1>4, <2>2, <2>3, <3>2 DEF toFloat64
    <3>. QED
      BY <1>2, <2>6, <3>1, <3>2 DEF Lasts
  <2>. QED
    BY <2>3, <2>4, <2>5, <2>6, Compares
<1>6. CASE v.type \notin {"INT", "TIMESTAMP"}
  <2>1. back = v
    BY <1>6 DEF FromRecord
  <2>. QED
    BY <2>1
<1>. QED
  BY <1>5, <1>6

LEMMA RestartReads ==
    ASSUME IndInv, Restart
    PROVE  /\ Carried(held') /\ Rebuilt(held')
           /\ \A id \in Ids : IF held[id] = None THEN held'[id] = None
                              ELSE held[id] \in V /\ held'[id] \in FromRecord(held[id])
<1>1. /\ Rebuilt(held') /\ DOMAIN held' = Ids /\ held' = [id \in Ids |-> held'[id]]
      /\ \A id \in Ids : IF held[id] = None THEN held'[id] = None ELSE held'[id] \in FromRecord(held[id])
  BY DEF Restart
<1>2. Carried(held) /\ held \in [Ids -> V \cup {None}]
  BY DEF IndInv, Carried
<1>3. ~Rangeable(None) /\ None \notin V
  BY ValuesTyped DEF Rangeable
<1>4. \A id \in Ids : IF held[id] = None THEN held'[id] = None
                      ELSE /\ held[id] \in V /\ held'[id] \in FromRecord(held[id])
                           /\ held'[id] \in V /\ Kind(held'[id]) = Kind(held[id])
                           /\ Rangeable(held'[id]) <=> Rangeable(held[id])
  BY <1>1, <1>2, FromRecordTyped
<1>5. held' \in [Ids -> V \cup {None}]
  BY <1>1, <1>4
<1>6. ASSUME NEW a \in Ids, NEW b \in Ids, Rangeable(held'[a]), Rangeable(held'[b])
      PROVE  Comparable(held'[a], held'[b])
  <2>1. /\ held[a] \in V /\ held'[a] \in V /\ held[b] \in V /\ held'[b] \in V
        /\ Rangeable(held[a]) /\ Rangeable(held[b])
        /\ Kind(held'[a]) = Kind(held[a]) /\ Kind(held'[b]) = Kind(held[b])
    BY <1>3, <1>4, <1>6
  <2>2. Comparable(held[a], held[b])
    BY <1>2, <2>1 DEF Carried
  <2>. QED
    BY <2>1, <2>2, Compares
<1>. QED
  BY <1>1, <1>4, <1>5, <1>6 DEF Carried

LEMMA NextKeeps ==
    ASSUME IndInv, [Next]_vars
    PROVE  IndInv'
<1>1. CASE Rebuild
  <2>1. Carried(held) /\ Rebuilt(held) /\ held' = held
    BY <1>1 DEF IndInv, Rebuild
  <2>2. Sorted(entries') /\ Lists(entries', held) /\ keyed' = Keyed(held)
    BY <2>1, RebuiltKeeps DEF Keyed
  <2>. QED
    BY <2>1, <2>2 DEF IndInv
<1>2. CASE Restart
  <2>1. Carried(held') /\ Rebuilt(held')
    BY <1>2, RestartReads
  <2>2. Sorted(entries') /\ Lists(entries', held') /\ keyed' = Keyed(held')
    BY <2>1, RebuiltKeeps DEF Keyed
  <2>. QED
    BY <2>1, <2>2 DEF IndInv
<1>3. ASSUME NEW id \in Ids, NEW v \in Values \cup {None}, VertexChanged(id, v)
      PROVE  IndInv'
  BY <1>3, VertexChangedKeeps
<1>4. CASE UNCHANGED vars
  BY <1>4 DEF vars, IndInv, Keyed
<1>. QED
  BY <1>1, <1>2, <1>3, <1>4 DEF Next

(* The invariant is kept whatever is changed, rebuilt and restarted        *)
(* (btree_index.go:10-39, property_index.go:20-52).                        *)
THEOREM Inductive == Spec => []IndInv
<1>1. Init => IndInv
  BY InitSound
<1>2. IndInv /\ [Next]_vars => IndInv'
  BY NextKeeps
<1>. QED
  BY <1>1, <1>2, PTL DEF Spec


(***************************************************************************)
(* What the invariant gives.                                               *)
(***************************************************************************)

(* Every variable has its type: no entry and no key is left without ids,   *)
(* and nothing but the types that requests write is held                   *)
(* (btree_index.go:18-39, property.go:12-49).                              *)
THEOREM TypeCorrect == Spec => []TypeOK
<1>1. ASSUME IndInv
      PROVE  TypeOK
  <2> DEFINE Typed(v) == /\ v.type \in {x.type : x \in Values}
                         /\ v.type # "FLOAT" => v.n \in Int64
                         /\ v.sign = "-" => v.type = "FLOAT" /\ v.n = 0
  <2>1. \A v \in V : Typed(v)
    BY DEF V, Shapes
  <2>2. ASSUME NEW i \in DOMAIN entries
        PROVE  Typed(entries[i].value) /\ entries[i].ids \in (SUBSET Ids) \ {{}}
    <3>1. entries[i].value \in V /\ entries[i].ids \subseteq Ids /\ entries[i].ids # {}
      BY <1>1, SortedPlaces DEF IndInv
    <3>. HIDE DEF Typed
    <3>. QED
      BY <2>1, <3>1
  <2>3. \A id \in Ids : held[id] = None \/ Typed(held[id])
    <3>. HIDE DEF Typed
    <3>. QED
      BY <1>1, <2>1 DEF IndInv, Carried
  <2>4. \A pair \in keyed : pair[2] \in Ids
    BY <1>1 DEF IndInv, Keyed, KeyOf
  <2>. QED
    BY <2>2, <2>3, <2>4 DEF TypeOK
<1>. QED
  BY <1>1, Inductive, PTL

(* Values that compare equal lie in the same ranges. *)
LEMMA InRangeAlike ==
    ASSUME NEW a \in V, NEW b \in V, Kind(a) = Kind(b), toFloat64(a) = toFloat64(b),
           NEW q \in Queries
    PROVE  InRange(a, q) <=> InRange(b, q)
<1>1. q.low \in V \cup {None} /\ q.high \in V \cup {None}
  BY ValuesTyped DEF Queries
<1>2. \A x \in V : /\ AtLeast(a, x) <=> AtLeast(b, x)
                   /\ Same(a, x) <=> Same(b, x)
                   /\ AtLeast(x, a) <=> AtLeast(x, b)
  BY Compares
<1>. QED
  BY <1>1, <1>2 DEF InRange, AboveLow, BelowHigh

LEMMA RangesSound ==
    ASSUME IndInv
    PROVE  RangeExact
<1>. SUFFICES ASSUME NEW q \in Queries, NEW id
              PROVE  id \in RangeIds(q) <=>
                       id \in Ids /\ Rangeable(held[id]) /\ InRange(held[id], q)
  BY DEF RangeExact
<1>1. /\ Len(entries) \in Nat /\ DOMAIN entries = 1..Len(entries)
      /\ \A i \in 1..Len(entries) : /\ entries[i].value \in V /\ entries[i].ids \subseteq Ids
                                    /\ Rangeable(entries[i].value)
  BY SortedPlaces DEF IndInv, Sorted
<1>2. id \in RangeIds(q) <=>
        \E i \in 1..Len(entries) : InRange(entries[i].value, q) /\ id \in entries[i].ids
  BY <1>1 DEF RangeIds, ToSet
<1>3. ASSUME NEW i \in 1..Len(entries), id \in entries[i].ids
      PROVE  /\ id \in Ids /\ Rangeable(held[id])
             /\ InRange(held[id], q) <=> InRange(entries[i].value, q)
  <2>1. id \in Ids /\ held[id] \in V /\ Same(held[id], entries[i].value)
    BY <1>1, <1>3 DEF IndInv, Lists, Carried
  <2>2. Kind(held[id]) = Kind(entries[i].value) /\ toFloat64(held[id]) = toFloat64(entries[i].value)
    BY <1>1, <2>1, Compares
  <2>3. Rangeable(held[id])
    BY <1>1, <2>1, <2>2, Compares
  <2>. QED
    BY <1>1, <2>1, <2>2, <2>3, InRangeAlike
<1>4. ASSUME id \in Ids, Rangeable(held[id])
      PROVE  \E i \in 1..Len(entries) : id \in entries[i].ids
  BY <1>1, <1>4 DEF IndInv, Lists
<1>. QED
  BY <1>2, <1>3, <1>4

(* A range query returns exactly the vertices whose value lies in the      *)
(* range, inclusive or not at either end (btree_index.go:40-52).           *)
THEOREM RangesExact == Spec => []RangeExact
  BY RangesSound, Inductive, PTL

LEMMA LookupsSound ==
    ASSUME IndInv
    PROVE  LookupExact
<1>. SUFFICES ASSUME NEW v \in Values, NEW id \in Ids
              PROVE  id \in Lookup(v) <=>
                       held[id] # None /\ Same(held[id], v) /\ held[id].sign = v.sign
  BY DEF LookupExact, Lookup
<1>1. id \in Lookup(v) <=> held[id] # None /\ Key(v) = Key(held[id])
  BY KeyedPairs DEF IndInv, Lookup
<1>2. held[id] # None => held[id] \in V
  BY DEF IndInv, Carried
<1>3. v \in V
  BY ValuesTyped
<1>. QED
  BY <1>1, <1>2, <1>3, Compares

(* A key finds exactly the vertices whose value compares equal, of two     *)
(* zeros only the one of its own sign (property.go:65-91,                  *)
(* property_index.go:54-59).                                               *)
THEOREM LookupsExact == Spec => []LookupExact
  BY LookupsSound, Inductive, PTL

LEMMA OrderSound ==
    ASSUME IndInv
    PROVE  OrderedExact
<1> DEFINE ss == [i \in DOMAIN entries |-> IDs(entries[i].ids)]
           R == {pair \in Ids \X Ids :
                   pair[1] # pair[2] /\ AtLeast(held[pair[2]], held[pair[1]])}
<1>1. /\ Len(entries) \in Nat /\ DOMAIN entries = 1..Len(entries)
      /\ \A i \in 1..Len(entries) : /\ entries[i].value \in V /\ entries[i].ids \subseteq Ids
                                    /\ toFloat64(entries[i].value) \in Int
  BY SortedPlaces DEF IndInv
<1>2. ASSUME NEW i \in DOMAIN entries
      PROVE  /\ ss[i] \in Seq(Ids) /\ ToSet(ss[i]) = entries[i].ids
             /\ \A k, l \in DOMAIN ss[i] : k < l => ss[i][k] < ss[i][l]
  <2>1. entries[i].ids \in SUBSET Nat /\ IsFiniteSet(entries[i].ids) /\ entries[i].ids \subseteq Ids
    BY <1>1, IdsAssumption, FS_Subset
  <2>2. ss[i] = IDs(entries[i].ids)
    OBVIOUS
  <2>. HIDE DEF ss
  <2>3. /\ ss[i] \in Seq(entries[i].ids) /\ ToSet(ss[i]) = entries[i].ids
        /\ \A k, l \in DOMAIN ss[i] : k < l => ss[i][k] < ss[i][l]
    BY <2>1, <2>2, AscendingList DEF IDs
  <2>4. ss[i] \in Seq(Ids)
    BY <2>1, <2>3, SeqMonotonic
  <2>. QED
    BY <2>3, <2>4
<1>3. ss \in Seq(Seq(Ids)) /\ DOMAIN ss = DOMAIN entries
  <2>1. ss \in [1..Len(entries) -> Seq(Ids)]
    BY <1>1, <1>2
  <2>2. DOMAIN ss = DOMAIN entries
    OBVIOUS
  <2>. HIDE DEF ss
  <2>. QED
    BY <1>1, <2>1, <2>2
<1>4. Ordered = FlattenSeq(ss)
  BY DEF Ordered
<1>5. ASSUME NEW i \in DOMAIN entries, NEW id \in entries[i].ids
      PROVE  /\ id \in Ids /\ held[id] \in V /\ Kind(held[id]) = Kind(entries[i].value)
             /\ toFloat64(held[id]) = toFloat64(entries[i].value)
             /\ Rangeable(held[id])
  <2>1. id \in Ids /\ held[id] \in V /\ Same(held[id], entries[i].value) /\ Rangeable(entries[i].value)
    BY <1>1 DEF IndInv, Lists, Carried, Sorted
  <2>. QED
    BY <1>1, <2>1, Compares
<1>. HIDE DEF ss
<1>6. ASSUME NEW k \in DOMAIN ss, NEW i \in DOMAIN ss[k], NEW j \in DOMAIN ss[k], i < j
      PROVE  <<ss[k][i], ss[k][j]>> \in R
  <2> DEFINE a == ss[k][i]
             b == ss[k][j]
  <2>1. k \in DOMAIN entries /\ a \in ToSet(ss[k]) /\ b \in ToSet(ss[k]) /\ a < b
    BY <1>2, <1>3, <1>6 DEF ToSet
  <2>. HIDE DEF a, b
  <2>2. a \in entries[k].ids /\ b \in entries[k].ids
    BY <1>2, <2>1
  <2>3. a \in Ids /\ b \in Ids /\ a \in Nat /\ b \in Nat
    BY <1>5, <2>1, <2>2, IdsAssumption
  <2>4. AtLeast(held[b], held[a])
    BY <1>5, <2>1, <2>2, Compares
  <2>5. <<a, b>> \in R
    BY <2>1, <2>3, <2>4
  <2>. QED
    BY <2>5 DEF a, b
<1>7. ASSUME NEW k \in DOMAIN ss, NEW l \in DOMAIN ss, k < l,
             NEW a \in ToSet(ss[k]), NEW b \in ToSet(ss[l])
      PROVE  <<a, b>> \in R
  <2>1. k \in DOMAIN entries /\ l \in DOMAIN entries /\ a \in entries[k].ids /\ b \in entries[l].ids
    BY <1>2, <1>3
  <2>2. /\ Kind(entries[k].value) = Kind(entries[l].value)
        /\ toFloat64(entries[k].value) < toFloat64(entries[l].value)
    BY <1>7, <2>1 DEF IndInv, Sorted
  <2>3. /\ a \in Ids /\ held[a] \in V /\ Kind(held[a]) = Kind(entries[k].value)
        /\ toFloat64(held[a]) = toFloat64(entries[k].value)
        /\ b \in Ids /\ held[b] \in V /\ Kind(held[b]) = Kind(entries[l].value)
        /\ toFloat64(held[b]) = toFloat64(entries[l].value)
    BY <1>5, <2>1
  <2>4. toFloat64(held[a]) \in Int /\ toFloat64(held[b]) \in Int /\ toFloat64(held[a]) < toFloat64(held[b])
    BY <2>2, <2>3, Compares
  <2>5. a # b
    BY <2>4
  <2>6. AtLeast(held[b], held[a])
    BY <2>2, <2>3, <2>4, Compares
  <2>. QED
    BY <2>3, <2>5, <2>6
<1>. HIDE DEF R
<1>8. \A i, j \in DOMAIN Ordered : i < j => <<Ordered[i], Ordered[j]>> \in R
  BY <1>3, <1>4, <1>6, <1>7, FlattenSeqAscends
<1>9. /\ Ordered \in Seq(Ids)
      /\ ToSet(Ordered) = UNION {ToSet(ss[k]) : k \in DOMAIN ss}
  BY <1>3, <1>4, FlattenSeqLists
<1>10. \A i, j \in DOMAIN Ordered :
         i < j => Ordered[i] # Ordered[j] /\ AtLeast(held[Ordered[j]], held[Ordered[i]])
  BY <1>8 DEF R
<1>11. IsInjective(Ordered)
  <2>1. \A i, j \in DOMAIN Ordered : i \in Int /\ j \in Int
    BY <1>9
  <2>2. \A i, j \in DOMAIN Ordered : Ordered[i] = Ordered[j] => i = j
    BY <1>10, <2>1
  <2>. QED
    BY <2>2 DEF IsInjective
<1>12. ASSUME NEW id
       PROVE  id \in ToSet(Ordered) <=> id \in Ids /\ Rangeable(held[id])
  <2>1. id \in ToSet(Ordered) <=> \E k \in DOMAIN entries : id \in entries[k].ids
    <3>1. id \in ToSet(Ordered) <=> \E k \in DOMAIN ss : id \in ToSet(ss[k])
      BY <1>9
    <3>. QED
      BY <1>2, <1>3, <3>1
  <2>2. id \in Ids /\ Rangeable(held[id]) => \E k \in DOMAIN entries : id \in entries[k].ids
    BY DEF IndInv, Lists
  <2>. QED
    BY <1>5, <2>1, <2>2
<1>. QED
  BY <1>10, <1>11, <1>12 DEF OrderedExact

(* Ordered lists every vertex with a rangeable value once, ascending       *)
(* (btree_index.go:53-60).                                                 *)
THEOREM OrderExact == Spec => []OrderedExact
  BY OrderSound, Inductive, PTL

(* A restart, which reads the values back through float64, changes what no *)
(* range and no lookup answers, but for values that do not last            *)
(* (property.go:36-56, main.go:37-40).                                     *)
THEOREM RestartKeepsAnswers == Spec => ReplayKeepsAnswers
<1>1. ASSUME IndInv, IndInv', Restart, \A id \in Ids : Lasts(held[id])
      PROVE  /\ \A q \in Queries : RangeIds(q)' = RangeIds(q)
             /\ \A v \in Values : Lookup(v)' = Lookup(v)
  <2>1. \A id \in Ids : IF held[id] = None THEN held'[id] = None
                        ELSE held[id] \in V /\ held'[id] \in FromRecord(held[id])
    BY <1>1, RestartReads
  <2>2. \A id \in Ids : held[id] # None =>
          /\ held[id] \in V /\ held'[id] \in V /\ held'[id] # None
          /\ Kind(held'[id]) = Kind(held[id]) /\ toFloat64(held'[id]) = toFloat64(held[id])
          /\ Rangeable(held'[id]) <=> Rangeable(held[id])
          /\ held'[id].sign = held[id].sign
    BY <1>1, <2>1, FromRecordTyped, ValuesTyped
  <2>3. ~Rangeable(None)
    BY DEF Rangeable
  <2>4. RangeExact /\ LookupExact /\ RangeExact' /\ LookupExact'
    <3>1. RangeExact /\ LookupExact
      BY <1>1, RangesSound, LookupsSound
    <3>2. RangeExact' /\ LookupExact'
      BY <1>1, RangesSound, LookupsSound, PTL
    <3>. QED
      BY <3>1, <3>2
  <2>5. ASSUME NEW q \in Queries
        PROVE  RangeIds(q)' = RangeIds(q)
    <3>1. /\ RangeIds(q) = {id \in Ids : Rangeable(held[id]) /\ InRange(held[id], q)}
          /\ RangeIds(q)' = {id \in Ids : Rangeable(held'[id]) /\ InRange(held'[id], q)}
      BY <2>4 DEF RangeExact
    <3>2. \A id \in Ids : Rangeable(held[id]) /\ InRange(held[id], q)
                          <=> Rangeable(held'[id]) /\ InRange(held'[id], q)
      BY <2>1, <2>2, <2>3, InRangeAlike
    <3>. QED
      BY <3>1, <3>2
  <2>6. ASSUME NEW v \in Values
        PROVE  Lookup(v)' = Lookup(v)
    <3>1. /\ Lookup(v) = {id \in Ids : /\ held[id] # None /\ Same(held[id], v)
                                       /\ held[id].sign = v.sign}
          /\ Lookup(v)' = {id \in Ids : /\ held'[id] # None /\ Same(held'[id], v)
                                        /\ held'[id].sign = v.sign}
      BY <2>4 DEF LookupExact
    <3>2. v \in V
      BY ValuesTyped
    <3>3. \A id \in Ids : held[id] # None /\ Same(held[id], v) /\ held[id].sign = v.sign
                          <=> held'[id] # None /\ Same(held'[id], v) /\ held'[id].sign = v.sign
      BY <2>1, <2>2, <3>2, Compares
    <3>. QED
      BY <3>1, <3>3
  <2>. QED
    BY <2>5, <2>6
<1> DEFINE Kept == Restart /\ (\A id \in Ids : Lasts(held[id])) =>
                     /\ \A q \in Queries : RangeIds(q)' = RangeIds(q)
                     /\ \A v \in Values : Lookup(v)' = Lookup(v)
<1>2. IndInv /\ [Next]_vars => [Kept]_vars
  <2>1. ASSUME IndInv, [Next]_vars
        PROVE  Kept
    <3>1. IndInv'
      BY <2>1, NextKeeps
    <3>. QED
      BY <1>1, <2>1, <3>1
  <2>. QED
    BY <2>1
<1>3. ReplayKeepsAnswers <=> [][Kept]_vars
  BY DEF ReplayKeepsAnswers
<1>. HIDE DEF Kept
<1>. QED
  BY <1>2, <1>3, Inductive, PTL DEF Spec
=============================================================================
