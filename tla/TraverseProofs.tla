--------------------------- MODULE TraverseProofs ---------------------------
(***************************************************************************)
(* What the searches answer while writers go on: for every graph and every *)
(* number of writes, an answer lies between what the edges that stayed     *)
(* demand and what the edges there ever were allow.  The two bounds are    *)
(* graphs of their own, the arcs of Always and of Ever; every read of the  *)
(* graph lies between them, the lower one only shrinks and the upper one   *)
(* only grows.  A report reads the graph in one piece, and is exact.       *)
(***************************************************************************)
EXTENDS ReadRequestsProofs

-----------------------------------------------------------------------------
(***************************************************************************)
(* Arcs and reachability.                                                  *)
(***************************************************************************)

(* An edge of es leads a search from x to y. *)
Step(es, x, y) == <<x, y>> \in ArcsOf(es)

LEMMA StepDef ==
    ASSUME NEW es, NEW x, NEW y
    PROVE  Step(es, x, y) <=>
             \E e \in DOMAIN es :
                /\ query.labels = {} \/ es[e].label \in query.labels
                /\ \/ query.dir # "IN" /\ es[e].from = x /\ es[e].to = y
                   \/ query.dir # "OUT" /\ es[e].to = x /\ es[e].from = y
<1> DEFINE fit == {d \in DOMAIN es : query.labels = {} \/ es[d].label \in query.labels}
           used == {es[e] : e \in fit}
           forth == IF query.dir = "IN" THEN {} ELSE {<<e.from, e.to>> : e \in used}
           back == IF query.dir = "OUT" THEN {} ELSE {<<e.to, e.from>> : e \in used}
<1>1. Step(es, x, y) <=> <<x, y>> \in forth \/ <<x, y>> \in back
  BY DEF Step, ArcsOf
<1>2. <<x, y>> \in forth <=> query.dir # "IN" /\ \E e \in used : e.from = x /\ e.to = y
  OBVIOUS
<1>3. <<x, y>> \in back <=> query.dir # "OUT" /\ \E e \in used : e.to = x /\ e.from = y
  OBVIOUS
<1>. HIDE DEF forth, back
<1>. QED
  BY <1>1, <1>2, <1>3

LEMMA ArcsArePairs ==
    ASSUME NEW es, NEW a \in ArcsOf(es)
    PROVE  a = <<a[1], a[2]>> /\ Step(es, a[1], a[2])
BY DEF ArcsOf, Step

(* What one read of the neighbours gives. *)
LEMMA NeighborsAreSteps ==
    ASSUME NEW id, NEW next
    PROVE  next \in Neighbors(id) <=> Step(edges, id, next)
<1>1. ASSUME next \in Neighbors(id)
      PROVE  Step(edges, id, next)
  <2>1. PICK e \in Arcs(id) : next = Other(edges[e], id, query.dir)
    BY <1>1 DEF Neighbors
  <2>2. /\ e \in DOMAIN edges /\ (query.labels = {} \/ edges[e].label \in query.labels)
        /\ \/ query.dir # "IN" /\ edges[e].from = id
           \/ query.dir # "OUT" /\ edges[e].to = id
    BY DEF Arcs, EdgesOf
  <2>. QED
    BY <2>1, <2>2, StepDef DEF Other
<1>2. ASSUME Step(edges, id, next)
      PROVE  next \in Neighbors(id)
  <2>1. PICK e \in DOMAIN edges :
            /\ query.labels = {} \/ edges[e].label \in query.labels
            /\ \/ query.dir # "IN" /\ edges[e].from = id /\ edges[e].to = next
               \/ query.dir # "OUT" /\ edges[e].to = id /\ edges[e].from = next
    BY <1>2, StepDef
  <2>2. e \in Arcs(id)
    BY <2>1 DEF Arcs, EdgesOf
  <2>3. Other(edges[e], id, query.dir) = next
    BY <2>1 DEF Other
  <2>. QED
    BY <2>2, <2>3 DEF Neighbors
<1>. QED
  BY <1>1, <1>2

(* Every read lies between the edges that stay and those there ever were.  *)
LEMMA StepsBetween ==
    ASSUME History, NEW x, NEW y
    PROVE  /\ Step(Always, x, y) => Step(edges, x, y)
           /\ Step(edges, x, y) => Step(Ever, x, y) /\ x \in DOMAIN vertices /\ y \in DOMAIN vertices
           /\ Step(Always, x, y) => Step(Ever, x, y) /\ x \in DOMAIN vertices /\ y \in DOMAIN vertices
           /\ Step(Ever, x, y) => x \in Ids /\ y \in Ids
<1>1. Step(Always, x, y) => Step(edges, x, y)
  BY AlwaysFacts, StepDef
<1>2. Step(edges, x, y) => Step(Ever, x, y)
  <2>1. DOMAIN Ever = EverIds
    BY DEF Ever
  <2>. QED
    BY <2>1, NowEver, StepDef
<1>3. Step(edges, x, y) => x \in DOMAIN vertices /\ y \in DOMAIN vertices
  BY NowFacts, StepDef
<1>4. Step(Ever, x, y) => x \in Ids /\ y \in Ids
  <2>1. DOMAIN Ever = EverIds
    BY DEF Ever
  <2>. QED
    BY <2>1, EverEnds, StepDef
<1>. QED
  BY <1>1, <1>2, <1>3, <1>4

LEMMA StepsMove ==
    ASSUME Moves, NEW x, NEW y
    PROVE  /\ Step(Ever, x, y) => Step(Ever, x, y)'
           /\ Step(Always, x, y)' => Step(Always, x, y)
<1>1. query' = query
  BY DEF Moves
<1>2. ASSUME Step(Ever, x, y)
      PROVE  Step(Ever, x, y)'
  <2>1. DOMAIN Ever = EverIds /\ DOMAIN Ever' = EverIds'
    BY DEF Ever
  <2>2. PICK e \in EverIds :
                /\ query.labels = {} \/ Ever[e].label \in query.labels
                /\ \/ query.dir # "IN" /\ Ever[e].from = x /\ Ever[e].to = y
                   \/ query.dir # "OUT" /\ Ever[e].to = x /\ Ever[e].from = y
    BY <1>2, <2>1, StepDef
  <2>3. e \in EverIds' /\ Ever'[e] = Ever[e]
    BY DEF Moves
  <2>. QED
    BY <1>1, <2>1, <2>2, <2>3 DEF Step, ArcsOf
<1>3. ASSUME Step(Always, x, y)'
      PROVE  Step(Always, x, y)
  <2>1. PICK e \in DOMAIN Always' :
                /\ query.labels = {} \/ Always'[e].label \in query.labels
                /\ \/ query.dir # "IN" /\ Always'[e].from = x /\ Always'[e].to = y
                   \/ query.dir # "OUT" /\ Always'[e].to = x /\ Always'[e].from = y
    BY <1>1, <1>3 DEF Step, ArcsOf
  <2>2. e \in DOMAIN Always /\ Always'[e] = Always[e]
    BY DEF Moves
  <2>. QED
    BY <2>1, <2>2, StepDef
<1>. QED
  BY <1>2, <1>3

(* Reachability, one step at a time. *)
Onward(es, X) == X \cup {a[2] : a \in {b \in ArcsOf(es) : b[1] \in X}}

LEMMA OnwardDef ==
    ASSUME NEW es, NEW X, NEW y
    PROVE  y \in Onward(es, X) <=> y \in X \/ \E x \in X : Step(es, x, y)
<1>1. ASSUME NEW a \in ArcsOf(es), a[1] \in X
      PROVE  \E x \in X : Step(es, x, a[2])
  BY <1>1, ArcsArePairs
<1>2. ASSUME NEW x \in X, Step(es, x, y)
      PROVE  \E a \in ArcsOf(es) : a[1] \in X /\ y = a[2]
  BY <1>2 DEF Step
<1>. QED
  BY <1>1, <1>2 DEF Onward

(* The sets that Reach goes through. *)
Within(f, es, from, n) ==
    f = [k \in 0..n |-> IF k = 0 THEN {from} ELSE Onward(es, f[k - 1])]

LEMMA WithinExists ==
    ASSUME NEW es, NEW from, NEW n \in Nat
    PROVE  \E f : Within(f, es, from, n)
<1> DEFINE U == {from} \cup {a[2] : a \in ArcsOf(es)}
           step == [p \in (SUBSET U) \X (1..n) |-> Onward(es, p[1])]
<1>1. step \in [(SUBSET U) \X (1..n) -> SUBSET U]
  <2>1. ASSUME NEW X \in SUBSET U
        PROVE  Onward(es, X) \in SUBSET U
    BY DEF Onward
  <2>. QED
    BY <2>1
<1>2. {from} \in SUBSET U
  OBVIOUS
<1>. HIDE DEF U, step
<1>3. PICK f : Iteration(f, SUBSET U, {from}, n, step)
  BY <1>1, <1>2, Iterates
<1>4. ASSUME NEW k \in 0..n
      PROVE  f[k] = IF k = 0 THEN {from} ELSE Onward(es, f[k - 1])
  <2>1. CASE k = 0
    BY <1>3, <2>1 DEF Iteration
  <2>2. CASE k # 0
    <3>1. k \in 1..n /\ k - 1 \in 0..n
      BY <2>2
    <3>2. f[k] = step[<<f[k - 1], k>>] /\ f[k - 1] \in SUBSET U
      BY <1>3, <3>1 DEF Iteration
    <3>. QED
      BY <2>2, <3>1, <3>2 DEF step
  <2>. QED
    BY <2>1, <2>2
<1>5. f = [k \in 0..n |-> f[k]]
  BY <1>3 DEF Iteration
<1>. QED
  BY <1>4, <1>5 DEF Within

Climbs(f, es, from, n) ==
    f[0] = {from} /\ \A k \in 0..n : k # 0 => f[k] = Onward(es, f[k - 1])

LEMMA ReachIsWithin ==
    ASSUME NEW es, NEW from, NEW n \in Nat
    PROVE  \E f : Reach(es, from, n) = f[n] /\ Climbs(f, es, from, n)
<1> DEFINE f == CHOOSE g : Within(g, es, from, n)
<1>1. Within(f, es, from, n)
  BY WithinExists
<1>2. Reach(es, from, n) = f[n]
  BY DEF Reach, Within, Onward
<1>. HIDE DEF f
<1>3. \A k \in 0..n : f[k] = IF k = 0 THEN {from} ELSE Onward(es, f[k - 1])
  BY <1>1 DEF Within
<1>. QED
  BY <1>2, <1>3 DEF Climbs

LEMMA ReachSteps ==
    ASSUME NEW es, NEW from
    PROVE  /\ Reach(es, from, 0) = {from}
           /\ \A n \in Nat : Reach(es, from, n + 1) = Onward(es, Reach(es, from, n))
<1>1. Reach(es, from, 0) = {from}
  BY ReachIsWithin DEF Climbs
<1>2. ASSUME NEW n \in Nat
      PROVE  Reach(es, from, n + 1) = Onward(es, Reach(es, from, n))
  <2>0. n + 1 \in Nat
    OBVIOUS
  <2>1. PICK f : Reach(es, from, n) = f[n] /\ Climbs(f, es, from, n)
    BY ReachIsWithin
  <2>2. PICK g : Reach(es, from, n + 1) = g[n + 1] /\ Climbs(g, es, from, n + 1)
    BY <2>0, ReachIsWithin
  <2> DEFINE T == {k \in Nat : k =< n => f[k] = g[k]}
  <2>3. 0 \in T
    BY <2>1, <2>2 DEF Climbs
  <2>4. ASSUME NEW k \in Nat, k \in T
        PROVE  k + 1 \in T
    <3>. SUFFICES ASSUME k + 1 =< n PROVE f[k + 1] = g[k + 1]
      OBVIOUS
    <3>1. k + 1 \in 0..n /\ k + 1 \in 0..(n + 1) /\ k + 1 # 0 /\ (k + 1) - 1 = k /\ k =< n
      OBVIOUS
    <3>. QED
      BY <2>1, <2>2, <2>4, <3>1 DEF Climbs
  <2>5. n \in T
    <3>. HIDE DEF T
    <3>. QED
      BY <2>3, <2>4, NatsWithin
  <2>6. n + 1 \in 0..(n + 1) /\ n + 1 # 0 /\ (n + 1) - 1 = n
    OBVIOUS
  <2>. QED
    BY <2>1, <2>2, <2>5, <2>6 DEF Climbs
<1>. QED
  BY <1>1, <1>2

LEMMA ReachMore ==
    ASSUME NEW es, NEW from, NEW n \in Nat
    PROVE  \A y : y \in Reach(es, from, n + 1) <=>
                     y \in Reach(es, from, n) \/ \E x \in Reach(es, from, n) : Step(es, x, y)
BY ReachSteps, OnwardDef

LEMMA ReachUp ==
    ASSUME NEW es, NEW from, NEW m \in Nat, NEW n \in Nat, m =< n
    PROVE  Reach(es, from, m) \subseteq Reach(es, from, n)
<1> DEFINE T == {k \in Nat : Reach(es, from, m) \subseteq Reach(es, from, m + k)}
<1>1. 0 \in T
  OBVIOUS
<1>2. ASSUME NEW k \in Nat, k \in T
      PROVE  k + 1 \in T
  <2>1. m + k \in Nat /\ m + (k + 1) = (m + k) + 1
    OBVIOUS
  <2>2. Reach(es, from, m + k) \subseteq Reach(es, from, (m + k) + 1)
    BY <2>1, ReachMore
  <2>. QED
    BY <1>2, <2>1, <2>2
<1>3. n - m \in Nat /\ m + (n - m) = n
  OBVIOUS
<1>4. n - m \in T
  <2>. HIDE DEF T
  <2>. QED
    BY <1>1, <1>2, <1>3, NatsWithin
<1>. QED
  BY <1>3, <1>4

(* A set that no arc leaves holds all that can be reached from within.     *)
LEMMA ReachWithin ==
    ASSUME NEW es, NEW C, NEW from \in C, \A x \in C : \A y : Step(es, x, y) => y \in C
    PROVE  \A n \in Nat : Reach(es, from, n) \subseteq C
<1> DEFINE T == {k \in Nat : Reach(es, from, k) \subseteq C}
<1>1. 0 \in T
  BY ReachSteps
<1>2. ASSUME NEW k \in Nat, k \in T
      PROVE  k + 1 \in T
  BY <1>2, ReachMore
<1>3. Nat \subseteq T
  <2>. HIDE DEF T
  <2>. QED
    BY <1>1, <1>2, NatsWithin
<1>. QED
  BY <1>3

LEMMA ReachGrows ==
    ASSUME NEW es, NEW fs, \A x, y : Step(es, x, y) => Step(fs, x, y), NEW from
    PROVE  \A n \in Nat : Reach(es, from, n) \subseteq Reach(fs, from, n)
<1> DEFINE T == {k \in Nat : Reach(es, from, k) \subseteq Reach(fs, from, k)}
<1>1. 0 \in T
  BY ReachSteps
<1>2. ASSUME NEW k \in Nat, k \in T
      PROVE  k + 1 \in T
  BY <1>2, ReachMore
<1>3. Nat \subseteq T
  <2>. HIDE DEF T
  <2>. QED
    BY <1>1, <1>2, NatsWithin
<1>. QED
  BY <1>3

(* What can be reached at all is reached in as many steps as there are     *)
(* vertices: as long as something new comes, the set grows.                *)
LEMMA ReachEnds ==
    ASSUME NEW es, NEW S, IsFiniteSet(S), NEW from \in S,
           \A x, y : Step(es, x, y) => y \in S
    PROVE  \A n \in Nat : Reach(es, from, n) \subseteq Reach(es, from, Cardinality(S))
<1> DEFINE N == Cardinality(S)
           R(n) == Reach(es, from, n)
           T == {k \in Nat : R(k + 1) = R(k) \/ Cardinality(R(k)) >= k + 1}
<1>0. N \in Nat
  BY FS_CardinalityType
<1>1. ASSUME NEW n \in Nat
      PROVE  /\ R(n) \subseteq S /\ IsFiniteSet(R(n)) /\ Cardinality(R(n)) \in Nat
             /\ Cardinality(R(n)) =< N /\ R(n) \subseteq R(n + 1)
  <2>1. R(n) \subseteq S
    BY ReachWithin
  <2>2. R(n) \subseteq R(n + 1)
    BY ReachMore
  <2>. QED
    BY <2>1, <2>2, FS_Subset, FS_CardinalityType
<1>2. 0 \in T
  <2>1. R(0) = {from}
    BY ReachSteps
  <2>. QED
    BY <2>1, FS_Singleton
<1>3. ASSUME NEW k \in Nat, R(k + 1) = R(k)
      PROVE  R((k + 1) + 1) = R(k + 1)
  <2>1. k + 1 \in Nat
    OBVIOUS
  <2>2. \A n \in Nat : R(n + 1) = Onward(es, R(n))
    BY ReachSteps, Zenon
  <2>. HIDE DEF R, T
  <2>3. R(k + 1) = Onward(es, R(k)) /\ R((k + 1) + 1) = Onward(es, R(k + 1))
    BY <2>1, <2>2, Zenon
  <2>. QED
    BY <1>3, <2>3, Zenon
<1>4. ASSUME NEW k \in Nat, k \in T
      PROVE  k + 1 \in T
  <2>1. CASE R(k + 1) = R(k)
    BY <1>3, <2>1
  <2>2. CASE R(k + 1) # R(k) /\ Cardinality(R(k)) >= k + 1
    <3>1. R(k) \subseteq R(k + 1) /\ IsFiniteSet(R(k + 1)) /\ Cardinality(R(k)) \in Nat
          /\ Cardinality(R(k + 1)) \in Nat
      BY <1>1
    <3>2. Cardinality(R(k)) =< Cardinality(R(k + 1))
          /\ (Cardinality(R(k)) = Cardinality(R(k + 1)) => R(k) = R(k + 1))
      BY <3>1, FS_Subset
    <3>3. Cardinality(R(k + 1)) >= (k + 1) + 1
      BY <2>2, <3>1, <3>2
    <3>. QED
      BY <3>3
  <2>. QED
    BY <1>4, <2>1, <2>2
<1>5. R(N + 1) = R(N)
  <2>1. N \in T
    <3>. HIDE DEF T, N
    <3>. QED
      BY <1>0, <1>2, <1>4, NatsWithin
  <2>2. Cardinality(R(N)) =< N /\ Cardinality(R(N)) \in Nat
    BY <1>0, <1>1
  <2>. QED
    BY <1>0, <2>1, <2>2
<1>6. \A x \in R(N) : \A y : Step(es, x, y) => y \in R(N)
  BY <1>0, <1>5, ReachMore
<1>7. from \in R(N)
  <2>1. R(0) \subseteq R(N)
    BY <1>0, ReachUp
  <2>. QED
    BY <2>1, ReachSteps
<1>. QED
  BY <1>6, <1>7, ReachWithin

LEMMA ReachMoves ==
    ASSUME Moves, NEW from, NEW n \in Nat
    PROVE  /\ Reach(Ever, from, n) \subseteq Reach(Ever, from, n)'
           /\ Reach(Always, from, n)' \subseteq Reach(Always, from, n)
<1>1. query' = query
  BY DEF Moves
<1>2. \A x, y : Step(Ever, x, y) => Step(Ever', x, y)
  BY <1>1, StepsMove DEF Step, ArcsOf
<1>3. \A x, y : Step(Always', x, y) => Step(Always, x, y)
  BY <1>1, StepsMove DEF Step, ArcsOf
<1>4. Reach(Ever, from, n)' = Reach(Ever', from, n) /\ Reach(Always, from, n)' = Reach(Always', from, n)
  BY <1>1 DEF Reach, ArcsOf
<1>. QED
  BY <1>2, <1>3, <1>4, ReachGrows

-----------------------------------------------------------------------------
(***************************************************************************)
(* What every search has: the types of its variables.                      *)
(***************************************************************************)

(* Agendas put end to end, and the item taken from one. *)
LEMMA ConcatFacts ==
    ASSUME NEW S, NEW s \in Seq(S), NEW t \in Seq(S)
    PROVE  /\ s \o t \in Seq(S) /\ Len(s \o t) = Len(s) + Len(t)
           /\ Len(s) \in Nat /\ Len(t) \in Nat
           /\ DOMAIN s = 1..Len(s) /\ DOMAIN t = 1..Len(t) /\ DOMAIN (s \o t) = 1..(Len(s) + Len(t))
           /\ \A i \in DOMAIN s : i \in DOMAIN (s \o t) /\ (s \o t)[i] = s[i]
           /\ \A i \in DOMAIN t : Len(s) + i \in DOMAIN (s \o t) /\ (s \o t)[Len(s) + i] = t[i]
           /\ \A i \in DOMAIN (s \o t) : i \in DOMAIN s \/ (i - Len(s) \in DOMAIN t /\ i = Len(s) + (i - Len(s)))
<1>1. /\ Len(s) \in Nat /\ DOMAIN s = 1..Len(s) /\ Len(t) \in Nat /\ DOMAIN t = 1..Len(t)
  BY LenProperties
<1>2. /\ s \o t \in Seq(S) /\ Len(s \o t) = Len(s) + Len(t)
      /\ \A i \in 1..(Len(s) + Len(t)) :
            (s \o t)[i] = IF i =< Len(s) THEN s[i] ELSE t[i - Len(s)]
  BY ConcatProperties
<1>3. DOMAIN (s \o t) = 1..(Len(s) + Len(t))
  BY <1>2, LenProperties
<1>4. ASSUME NEW i \in DOMAIN t
      PROVE  Len(s) + i \in DOMAIN (s \o t) /\ (s \o t)[Len(s) + i] = t[i]
  <2>1. i \in Nat /\ Len(s) + i \in 1..(Len(s) + Len(t)) /\ ~(Len(s) + i =< Len(s)) /\ (Len(s) + i) - Len(s) = i
    BY <1>1
  <2>. QED
    BY <1>2, <1>3, <2>1
<1>5. ASSUME NEW i \in DOMAIN s
      PROVE  i \in DOMAIN (s \o t) /\ (s \o t)[i] = s[i]
  <2>1. i \in 1..(Len(s) + Len(t)) /\ i =< Len(s)
    BY <1>1
  <2>. QED
    BY <1>2, <1>3, <2>1
<1>6. ASSUME NEW i \in DOMAIN (s \o t)
      PROVE  i \in DOMAIN s \/ (i - Len(s) \in DOMAIN t /\ i = Len(s) + (i - Len(s)))
  BY <1>1, <1>3
<1>. QED
  BY <1>1, <1>2, <1>3, <1>4, <1>5, <1>6

(* u is s and then t. *)
Joined(u, s, t) ==
    /\ Len(s) \in Nat
    /\ \A i \in DOMAIN s : i \in Nat /\ 1 =< i /\ i =< Len(s) /\ i \in DOMAIN u /\ u[i] = s[i]
    /\ \A k \in DOMAIN t : k \in Nat /\ 1 =< k /\ Len(s) + k \in DOMAIN u /\ u[Len(s) + k] = t[k]
    /\ \A i \in DOMAIN u : \/ i \in DOMAIN s /\ u[i] = s[i]
                           \/ \E k \in DOMAIN t : i = Len(s) + k /\ u[i] = t[k]

LEMMA Joins ==
    ASSUME NEW S, NEW s \in Seq(S), NEW t \in Seq(S)
    PROVE  s \o t \in Seq(S) /\ Joined(s \o t, s, t)
<1> DEFINE u == s \o t
<1>1. /\ Len(s) \in Nat /\ Len(t) \in Nat /\ DOMAIN s = 1..Len(s) /\ DOMAIN t = 1..Len(t)
      /\ \A i \in DOMAIN s : i \in DOMAIN u /\ u[i] = s[i]
      /\ \A k \in DOMAIN t : Len(s) + k \in DOMAIN u /\ u[Len(s) + k] = t[k]
      /\ \A i \in DOMAIN u : i \in DOMAIN s \/ (i - Len(s) \in DOMAIN t /\ i = Len(s) + (i - Len(s)))
      /\ u \in Seq(S)
  BY ConcatFacts
<1>. HIDE DEF u
<1>2. ASSUME NEW i \in DOMAIN u
      PROVE  \/ i \in DOMAIN s /\ u[i] = s[i]
             \/ \E k \in DOMAIN t : i = Len(s) + k /\ u[i] = t[k]
  <2>1. CASE i \in DOMAIN s
    BY <1>1, <2>1
  <2>2. CASE i - Len(s) \in DOMAIN t /\ i = Len(s) + (i - Len(s))
    <3> DEFINE k == i - Len(s)
    <3>1. k \in DOMAIN t /\ i = Len(s) + k
      BY <2>2
    <3>. HIDE DEF k
    <3>. QED
      BY <1>1, <3>1
  <2>. QED
    BY <1>1, <2>1, <2>2
<1>3. \A i \in DOMAIN s : i \in Nat /\ 1 =< i /\ i =< Len(s)
  BY <1>1
<1>4. \A k \in DOMAIN t : k \in Nat /\ 1 =< k
  BY <1>1
<1>. QED
  BY <1>1, <1>2, <1>3, <1>4 DEF Joined, u

VisitType == [id : Ids, depth : Nat]
PathType == {p \in Seq(Ids) : p # <<>>}
TripType == [path : PathType, distance : Nat]
CallType == [do : {"root", "look", "leave"}, id : Ids]

LEMMA VisitsFacts ==
    ASSUME NEW ids \in Seq(Ids), NEW depth \in Nat
    PROVE  /\ Visits(ids, depth) \in Seq(VisitType) /\ Len(Visits(ids, depth)) = Len(ids)
           /\ DOMAIN Visits(ids, depth) = DOMAIN ids
           /\ \A i \in DOMAIN ids : Visits(ids, depth)[i] = [id |-> ids[i], depth |-> depth]
<1>1. Len(ids) \in Nat /\ DOMAIN ids = 1..Len(ids) /\ \A i \in 1..Len(ids) : ids[i] \in Ids
  BY LenProperties, ElementOfSeq
<1>2. Visits(ids, depth) = [i \in 1..Len(ids) |-> [id |-> ids[i], depth |-> depth]]
  BY <1>1 DEF Visits
<1>3. \A i \in 1..Len(ids) : [id |-> ids[i], depth |-> depth] \in VisitType
  BY <1>1 DEF VisitType
<1>4. Visits(ids, depth) \in [1..Len(ids) -> VisitType]
  BY <1>2, <1>3
<1>5. Visits(ids, depth) \in Seq(VisitType)
  BY <1>1, <1>4
<1>6. Len(Visits(ids, depth)) = Len(ids)
  BY <1>1, <1>4, <1>5, LenProperties
<1>. QED
  BY <1>1, <1>2, <1>5, <1>6

LEMMA ExtendedFacts ==
    ASSUME NEW path \in PathType, NEW ids \in Seq(Ids)
    PROVE  /\ Extended(path, ids) \in Seq(PathType) /\ Len(Extended(path, ids)) = Len(ids)
           /\ DOMAIN Extended(path, ids) = DOMAIN ids
           /\ \A i \in DOMAIN ids : Extended(path, ids)[i] = Append(path, ids[i])
<1>1. Len(ids) \in Nat /\ DOMAIN ids = 1..Len(ids) /\ \A i \in 1..Len(ids) : ids[i] \in Ids
  BY LenProperties, ElementOfSeq
<1>2. Extended(path, ids) = [i \in 1..Len(ids) |-> Append(path, ids[i])]
  BY <1>1 DEF Extended
<1>3. ASSUME NEW i \in 1..Len(ids)
      PROVE  Append(path, ids[i]) \in PathType
  <2>1. path \in Seq(Ids) /\ ids[i] \in Ids
    BY <1>1 DEF PathType
  <2>2. Append(path, ids[i]) \in Seq(Ids) /\ Append(path, ids[i]) # <<>>
    BY <2>1, AppendProperties
  <2>. QED
    BY <2>2 DEF PathType
<1>4. Extended(path, ids) \in [1..Len(ids) -> PathType]
  BY <1>2, <1>3
<1>5. Extended(path, ids) \in Seq(PathType)
  BY <1>1, <1>4
<1>6. Len(Extended(path, ids)) = Len(ids)
  BY <1>1, <1>4, <1>5, LenProperties
<1>. QED
  BY <1>1, <1>2, <1>5, <1>6

LEMMA LastFacts ==
    ASSUME NEW p \in PathType
    PROVE  /\ Len(p) \in Nat /\ Len(p) >= 1 /\ Len(p) \in DOMAIN p /\ 1 \in DOMAIN p
           /\ DOMAIN p = 1..Len(p) /\ p \in Seq(Ids) /\ \A i \in DOMAIN p : p[i] \in Ids
           /\ Last(p) = p[Len(p)] /\ Last(p) \in Ids
<1>1. p \in Seq(Ids) /\ p # <<>>
  BY DEF PathType
<1>2. Len(p) \in Nat /\ DOMAIN p = 1..Len(p) /\ Len(p) # 0
  BY <1>1, LenProperties, EmptySeq
<1>3. \A i \in 1..Len(p) : p[i] \in Ids
  BY <1>1, ElementOfSeq
<1>. QED
  BY <1>1, <1>2, <1>3 DEF Last

(* The neighbours of a vertex, listed. *)
LEMMA NeighborsListed ==
    ASSUME History, NEW id, NEW X
    PROVE  LET new == sortedKeys(Neighbors(id) \ X)
           IN  /\ new \in Seq(Ids) /\ ToSet(new) = Neighbors(id) \ X
               /\ \A i, j \in DOMAIN new : new[i] = new[j] => i = j
               /\ \A i \in DOMAIN new : new[i] \in Neighbors(id) \ X
               /\ \A y \in Neighbors(id) \ X : \E i \in DOMAIN new : new[i] = y
<1> DEFINE A == Neighbors(id) \ X
           new == sortedKeys(A)
<1>1. A \subseteq Ids
  BY NeighborsAreSteps, StepsBetween, NowFacts
<1>2. A \in SUBSET Nat /\ IsFiniteSet(A)
  BY <1>1, IdsFacts, FS_Subset
<1>. HIDE DEF A
<1>3. /\ new \in Seq(A) /\ ToSet(new) = A
      /\ \A i, j \in DOMAIN new : new[i] = new[j] => i = j
  BY <1>2, SortedKeys
<1>. HIDE DEF new
<1>4. new \in Seq(Ids)
  BY <1>1, <1>3, SeqMonotonic
<1>5. \A i \in DOMAIN new : new[i] \in A
  BY <1>3, ElementOfSeq
<1>6. \A y \in A : \E i \in DOMAIN new : new[i] = y
  BY <1>3 DEF ToSet
<1>. QED
  BY <1>3, <1>4, <1>5, <1>6 DEF new, A

LEMMA AllNeighborsListed ==
    ASSUME History, NEW id
    PROVE  LET all == sortedKeys(Neighbors(id))
           IN  /\ all \in Seq(Ids)
               /\ \A i, j \in DOMAIN all : all[i] = all[j] => i = j
               /\ \A i \in DOMAIN all : all[i] \in Neighbors(id)
               /\ \A y \in Neighbors(id) : \E i \in DOMAIN all : all[i] = y
<1> DEFINE A == Neighbors(id) \ {}
           all == sortedKeys(A)
<1>1. /\ all \in Seq(Ids)
      /\ \A i, j \in DOMAIN all : all[i] = all[j] => i = j
      /\ \A i \in DOMAIN all : all[i] \in A
      /\ \A y \in A : \E i \in DOMAIN all : all[i] = y
  BY NeighborsListed
<1>2. A = Neighbors(id)
  OBVIOUS
<1>. HIDE DEF A
<1>. QED
  BY <1>1, <1>2

LEMMA TypesGrow ==
    ASSUME Moves
    PROVE  /\ Seq(VisitType) \subseteq Seq(VisitType)' /\ Seq(PathType) \subseteq Seq(PathType)'
           /\ Seq(TripType) \subseteq Seq(TripType)' /\ Seq(CallType) \subseteq Seq(CallType)'
           /\ PathType \subseteq PathType'
<1>1. Ids \subseteq Ids'
  BY DEF Moves
<1>2. Seq(Ids) \subseteq Seq(Ids')
  BY <1>1, SeqMonotonic
<1>3. /\ VisitType \subseteq VisitType' /\ PathType \subseteq PathType'
      /\ CallType \subseteq CallType'
  BY <1>1, <1>2 DEF VisitType, PathType, CallType
<1>4. TripType \subseteq TripType'
  BY <1>3 DEF TripType
<1>. QED
  BY <1>3, <1>4, SeqMonotonic

(* Every label an edge ever had stands for a weight, or for none. *)
LabelsGiven == \A g \in lived : \A e \in DOMAIN g.edges : g.edges[e].label \in DOMAIN Weight

LEMMA InitLabels == Init => LabelsGiven
<1>. SUFFICES ASSUME Init PROVE LabelsGiven
  OBVIOUS
<1>1. PICK start \in Starts : edges = start.edges
  BY DEF Init
<1>2. lived = {Graph} /\ Graph.edges = edges
  BY DEF Init, Graph
<1>. QED
  BY <1>1, <1>2, WeightsAreNumbers DEF LabelsGiven

LEMMA NextLabels ==
    ASSUME History, LabelsGiven, [Next]_vars
    PROVE  LabelsGiven'
<1>1. Graph \in lived /\ Graph.edges = edges /\ Graph'.edges = edges'
  BY DEF History, Graph
<1>2. ASSUME NEW ids, Wrote(ids),
             \A e \in DOMAIN edges' : \/ e \in DOMAIN edges /\ edges'[e] = edges[e]
                                      \/ edges'[e].label \in EdgeLabels
      PROVE  LabelsGiven'
  <2>1. lived' = lived \cup {Graph'}
    BY <1>2 DEF Wrote, Graph
  <2>2. \A e \in DOMAIN edges' : edges'[e].label \in DOMAIN Weight
    BY <1>1, <1>2, WeightsAreNumbers DEF LabelsGiven
  <2>. HIDE DEF Graph
  <2>. QED
    BY <1>1, <2>1, <2>2 DEF LabelsGiven
<1>3. CASE UNCHANGED vars \/ Handle
  <2>1. lived' = lived
    BY <1>3, HandleReads DEF vars, Reads
  <2>. QED
    BY <2>1 DEF LabelsGiven
<1>4. ASSUME NEW c \in VertexContents, CreateVertex(c)
      PROVE  LabelsGiven'
  <2>1. edges' = edges /\ \E ids : Wrote(ids)
    BY <1>4 DEF CreateVertex, G!AddVertex
  <2>. QED
    BY <1>2, <2>1
<1>5. ASSUME NEW id \in VertexIds, NEW c \in VertexContents, UpdateVertex(id, c)
      PROVE  LabelsGiven'
  <2>1. edges' = edges /\ \E ids : Wrote(ids)
    BY <1>5 DEF UpdateVertex, G!ChangeVertex
  <2>. QED
    BY <1>2, <2>1
<1>6. ASSUME NEW id \in VertexIds, DeleteVertex(id)
      PROVE  LabelsGiven'
  <2>1. edges' = G!Minus(edges, G!IncidentEdges(id)) /\ Wrote({id})
    BY <1>6 DEF DeleteVertex, G!RemoveVertex
  <2>2. /\ DOMAIN edges' = DOMAIN edges \ G!IncidentEdges(id)
        /\ \A e \in DOMAIN edges \ G!IncidentEdges(id) : edges'[e] = edges[e]
    BY <2>1, MinusFacts
  <2>. QED
    BY <1>2, <2>1, <2>2
<1>7. ASSUME NEW from \in VertexIds, NEW to \in VertexIds, NEW label \in EdgeLabels,
             CreateEdge(from, to, label)
      PROVE  LabelsGiven'
  <2>1. PICK id : /\ edges' = G!With(edges, id, [from |-> from, to |-> to, label |-> label])
                  /\ Wrote({})
    BY <1>7 DEF CreateEdge, G!AddEdge
  <2>2. \A e \in DOMAIN edges' : \/ e \in DOMAIN edges /\ edges'[e] = edges[e]
                                 \/ edges'[e].label = label
    BY <2>1 DEF G!With
  <2>. QED
    BY <1>2, <2>1, <2>2
<1>8. ASSUME NEW id \in EdgeIds, DeleteEdge(id)
      PROVE  LabelsGiven'
  <2>1. edges' = G!Minus(edges, {id}) /\ Wrote({})
    BY <1>8 DEF DeleteEdge, G!RemoveEdge
  <2>2. /\ DOMAIN edges' = DOMAIN edges \ {id}
        /\ \A e \in DOMAIN edges \ {id} : edges'[e] = edges[e]
    BY <2>1, MinusFacts
  <2>. QED
    BY <1>2, <2>1, <2>2
<1>9. Write => LabelsGiven'
  BY <1>4, <1>5, <1>6, <1>7, <1>8 DEF Write
<1>10. (\E id \in VertexIds, c \in VertexContents : LookupDuringUpdate(id, c)) => LabelsGiven'
  BY <1>5 DEF LookupDuringUpdate
<1>. QED
  BY <1>3, <1>9, <1>10 DEF Next

(* A weight that is not refused is a number. *)
LEMMA GoodWeight ==
    ASSUME History, LabelsGiven, NEW e \in EverIds, ~BadWeight(Ever[e].label)
    PROVE  Weight[Ever[e].label] \in Nat
<1>1. PICK g \in lived : e \in DOMAIN g.edges
  BY DEF EverIds
<1>2. Ever[e].label \in DOMAIN Weight
  BY <1>1, EverFacts DEF LabelsGiven
<1>. QED
  BY <1>2, WeightsAreNumbers DEF BadWeight

(* The steps of a search, and what comes between them. *)
LEMMA SearchSteps ==
    ASSUME History, [Next]_vars, Asks(SearchKinds)
    PROVE  /\ Moves /\ Asks(SearchKinds)' /\ query' = query
           /\ \/ UNCHANGED vars
              \/ UNCHANGED search /\ Open
              \/ Traverse /\ Reads
<1>1. Moves
  BY NextMoves
<1>2. CASE Handle
  BY <1>1, <1>2, HandleByKind, HandleReads DEF Asks, SearchKinds, Moves
<1>3. CASE Write
  BY <1>1, <1>3, WriteKeeps DEF Asks, Moves
<1>4. ~\E id \in VertexIds, c \in VertexContents : LookupDuringUpdate(id, c)
  BY DEF LookupDuringUpdate, Matching, Asks, SearchKinds
<1>. QED
  BY <1>1, <1>2, <1>3, <1>4 DEF Next, Moves, Asks

LEMMA ReadsSame ==
    ASSUME Reads
    PROVE  /\ Ids' = Ids /\ EverIds' = EverIds /\ Ever' = Ever /\ Always' = Always
           /\ query' = query /\ (Deleted' <=> Deleted)
BY DEF Reads, Ids, EverIds, Ever, Always, G!Minus, Deleted

(* The least of some numbers. *)
LEMMA MinIsLeast ==
    ASSUME NEW A \in SUBSET Nat, A # {}
    PROVE  Min(A) \in A /\ Min(A) \in Nat /\ \A x \in A : Min(A) =< x
<1> DEFINE T == {n \in Nat : (\E x \in A : x =< n) => \E m \in A : \A x \in A : m =< x}
<1>1. 0 \in T
  <2>1. ASSUME NEW x \in A, x =< 0
        PROVE  \A y \in A : x =< y
    <3>1. x \in Nat /\ x = 0 /\ \A y \in A : y \in Nat
      BY <2>1
    <3>. QED
      BY <3>1
  <2>. QED
    BY <2>1
<1>2. ASSUME NEW n \in Nat, n \in T
      PROVE  n + 1 \in T
  <2>. SUFFICES ASSUME NEW x \in A, x =< n + 1 PROVE \E m \in A : \A y \in A : m =< y
    OBVIOUS
  <2>1. CASE \E y \in A : y =< n
    BY <1>2, <2>1
  <2>2. CASE ~\E y \in A : y =< n
    <3>1. \A y \in A : y \in Nat
      OBVIOUS
    <3>2. \A y \in A : n + 1 =< y
      BY <2>2, <3>1
    <3>3. \A y \in A : x =< y
      BY <3>1, <3>2
    <3>. QED
      BY <3>3
  <2>. QED
    BY <2>1, <2>2
<1>3. Nat \subseteq T
  <2>. HIDE DEF T
  <2>. QED
    BY <1>1, <1>2, NatsWithin
<1>4. PICK a \in A : a \in Nat
  OBVIOUS
<1>5. a \in T /\ a =< a
  BY <1>3, <1>4
<1>6. PICK m \in A : \A x \in A : m =< x
  BY <1>5
<1>. QED
  BY <1>6 DEF Min

LEMMA BestFacts ==
    ASSUME History, LabelsGiven, NEW id, NEW next \in Neighbors(id),
           \A e \in Arcs(id) : ~BadWeight(edges[e].label)
    PROVE  LET best == Best(ArcsTo(id, next))
           IN  /\ best \in Nat
               /\ \E e \in ArcsTo(id, next) : best = Weight[edges[e].label]
               /\ \A e \in ArcsTo(id, next) : Weight[edges[e].label] \in Nat /\ best =< Weight[edges[e].label]
<1> DEFINE A == {Weight[edges[e].label] : e \in ArcsTo(id, next)}
<1>1. ASSUME NEW e \in ArcsTo(id, next)
      PROVE  Weight[edges[e].label] \in Nat
  <2>1. e \in Arcs(id) /\ e \in DOMAIN edges
    BY DEF ArcsTo, Arcs, EdgesOf
  <2>2. e \in EverIds /\ Ever[e] = edges[e]
    BY <2>1, NowEver
  <2>. QED
    BY <2>1, <2>2, GoodWeight
<1>2. A \in SUBSET Nat
  BY <1>1
<1>3. A # {}
  BY DEF ArcsTo, Neighbors
<1>4. Min(A) \in A /\ \A x \in A : Min(A) =< x
  BY <1>2, <1>3, MinIsLeast
<1>. QED
  BY <1>1, <1>2, <1>4 DEF Best

ResultTyped(s) ==
    s.pc # "failed" => /\ Asks({"bfs", "dfs"}) => s.result \in Seq(VisitType)
                       /\ Asks({"paths"}) => s.result \in Seq(PathType)
AgendaTyped(s) ==
    /\ Asks({"bfs", "dfs"}) => s.agenda \in Seq(VisitType)
    /\ Asks({"paths", "unweighted"}) => s.agenda \in Seq(PathType)
    /\ Asks({"weighted"}) => s.agenda \in Seq(TripType)
    /\ Asks({"cycle"}) => s.agenda \in Seq(CallType)
NotesTyped(s) ==
    /\ Asks({"weighted"}) =>
          DOMAIN s.notes \subseteq Ids /\ \A id \in DOMAIN s.notes : s.notes[id] \in Nat \cup {None}
    /\ Asks({"cycle"}) => s.notes \in [VertexIds -> {"white", "grey", "black"}]

SearchTyped(s) ==
    /\ DOMAIN s = {"pc", "agenda", "visited", "notes", "result"}
    /\ s.pc \in {"from", "to", "list", "run", "done", "failed"}
    /\ s.pc = "from" => Asks(SearchKinds \ {"cycle"})
    /\ s.pc = "to" => Asks({"paths", "unweighted", "weighted"})
    /\ s.pc = "list" => Asks({"weighted", "cycle"})
    /\ s.pc \in {"from", "to", "list"} => s.visited = {} /\ s.result = <<>>
    /\ s.pc \in {"to", "list", "run"} => Asks({"cycle"}) \/ query.from \in Ids
    /\ s.pc = "run" => AgendaTyped(s) /\ NotesTyped(s) /\ s.visited \subseteq Ids
    /\ ResultTyped(s)

SearchFails(s) ==
    \/ s.result = "vertex" /\ Deleted
    \/ s.result = "vertex" /\ \E g \in lived : ~(Ends \subseteq DOMAIN g.vertices)
    \/ s.result = "weight" /\ \E e \in EverIds : BadWeight(Ever[e].label)

Searching == History /\ LabelsGiven /\ Asks(SearchKinds) /\ SearchTyped(search)
GoesWell == SearchTyped(search') /\ (search'.pc = "failed" => SearchFails(search'))

LEMMA FailTyped ==
    ASSUME Searching, NEW why, Fail(why)
    PROVE  SearchTyped(search') /\ search'.pc = "failed" /\ search'.result = why
<1>0. DOMAIN search = {"pc", "agenda", "visited", "notes", "result"}
  BY DEF Searching, SearchTyped
<1>1. search' = [search EXCEPT !.pc = "failed", !.result = why]
  BY DEF Fail, Go
<1>2. DOMAIN search' = DOMAIN search /\ search'.pc = "failed" /\ search'.result = why
  BY <1>0, <1>1
<1>. QED
  BY <1>0, <1>2 DEF SearchTyped, ResultTyped

LEMMA AnswerTyped ==
    ASSUME Searching, NEW result, Answer(result),
           Asks({"bfs", "dfs"}) => result \in Seq(VisitType),
           Asks({"paths"}) => result \in Seq(PathType)
    PROVE  SearchTyped(search') /\ search'.pc = "done" /\ search'.result = result
<1>0. DOMAIN search = {"pc", "agenda", "visited", "notes", "result"}
  BY DEF Searching, SearchTyped
<1>1. search' = [search EXCEPT !.pc = "done", !.result = result]
  BY DEF Answer, Go
<1>2. DOMAIN search' = DOMAIN search /\ search'.pc = "done" /\ search'.result = result
  BY <1>0, <1>1
<1>. QED
  BY <1>0, <1>2 DEF SearchTyped, ResultTyped

(* A vertex of the request that is not there. *)
LEMMA EndMissing ==
    ASSUME Searching, NEW f \in {"from", "to"}, f \in DOMAIN query, ~HasVertex(query[f])
    PROVE  \E g \in lived : ~(Ends \subseteq DOMAIN g.vertices)
<1>1. Graph \in lived /\ Graph.vertices = vertices
  BY DEF Searching, History, Graph
<1>2. query[f] \in Ends
  BY DEF Ends
<1>. HIDE DEF Graph
<1>. QED
  BY <1>1, <1>2 DEF HasVertex

LEMMA CheckFromTyped ==
    ASSUME Searching, CheckFrom
    PROVE  GoesWell
<1>0. DOMAIN search = {"pc", "agenda", "visited", "notes", "result"}
  BY DEF Searching, SearchTyped
<1>1. /\ search.pc = "from" /\ Asks(SearchKinds \ {"cycle"}) /\ search.visited = {}
      /\ search.result = <<>> /\ "from" \in DOMAIN query
  BY SearchesParsed DEF Searching, SearchTyped, CheckFrom, At, History, QueryGiven, Asks
<1>2. CASE ~HasVertex(query.from)
  <2>1. Fail("vertex")
    BY <1>2 DEF CheckFrom
  <2>. QED
    BY <1>1, <1>2, <2>1, EndMissing, FailTyped DEF GoesWell, SearchFails
<1>3. CASE HasVertex(query.from) /\ Asks({"bfs", "dfs"})
  <2> DEFINE first == Visits(<<query.from>>, 0)
             visited == IF Asks({"bfs"}) THEN {query.from} ELSE {}
             result == IF Asks({"bfs"}) THEN first ELSE <<>>
  <2>1. search' = [search EXCEPT !.pc = "run", !.agenda = first, !.visited = visited, !.result = result]
    BY <1>3 DEF CheckFrom, Go
  <2>2. query.from \in Ids
    BY <1>3, NowFacts DEF Searching, HasVertex
  <2>3. first \in Seq(VisitType)
    <3>1. <<query.from>> \in Seq(Ids) /\ 0 \in Nat
      BY <2>2
    <3>. QED
      BY <3>1, VisitsFacts
  <2>4. result \in Seq(VisitType) /\ visited \subseteq Ids
    BY <2>2, <2>3
  <2>. HIDE DEF first, visited, result
  <2>5. /\ search'.pc = "run" /\ search'.agenda = first /\ search'.visited = visited
        /\ search'.result = result /\ DOMAIN search' = DOMAIN search
    BY <1>0, <2>1
  <2>. QED
    BY <1>0, <1>3, <2>2, <2>3, <2>4, <2>5
       DEF GoesWell, SearchTyped, AgendaTyped, NotesTyped, ResultTyped, Asks
<1>4. CASE HasVertex(query.from) /\ ~Asks({"bfs", "dfs"})
  <2>1. search' = [search EXCEPT !.pc = "to"]
    BY <1>4 DEF CheckFrom, Go
  <2>2. query.from \in Ids
    BY <1>4, NowFacts DEF Searching, HasVertex
  <2>3. /\ search'.pc = "to" /\ search'.visited = {} /\ search'.result = <<>>
        /\ DOMAIN search' = DOMAIN search
    BY <1>0, <1>1, <2>1
  <2>. QED
    BY <1>0, <1>1, <1>4, <2>2, <2>3
       DEF GoesWell, SearchTyped, ResultTyped, Asks, SearchKinds
<1>. QED
  BY <1>2, <1>3, <1>4

LEMMA CheckToTyped ==
    ASSUME Searching, CheckTo
    PROVE  GoesWell
<1>0. DOMAIN search = {"pc", "agenda", "visited", "notes", "result"}
  BY DEF Searching, SearchTyped
<1>1. /\ search.pc = "to" /\ Asks({"paths", "unweighted", "weighted"}) /\ search.visited = {}
      /\ search.result = <<>> /\ query.from \in Ids /\ "to" \in DOMAIN query
  BY SearchesParsed DEF Searching, SearchTyped, CheckTo, At, History, QueryGiven, Asks
<1>2. CASE ~HasVertex(query.to)
  <2>1. Fail("vertex")
    BY <1>2 DEF CheckTo
  <2>. QED
    BY <1>1, <1>2, <2>1, EndMissing, FailTyped DEF GoesWell, SearchFails
<1>3. CASE HasVertex(query.to) /\ Asks({"weighted"})
  <2>1. search' = [search EXCEPT !.pc = "list"]
    BY <1>3 DEF CheckTo, Go, Asks
  <2>2. /\ search'.pc = "list" /\ search'.visited = {} /\ search'.result = <<>>
        /\ DOMAIN search' = DOMAIN search
    BY <1>0, <1>1, <2>1
  <2>. QED
    BY <1>0, <1>1, <1>3, <2>2 DEF GoesWell, SearchTyped, ResultTyped, Asks
<1>4. CASE HasVertex(query.to) /\ ~Asks({"weighted"})
  <2>1. CASE Asks({"unweighted"}) /\ query.from = query.to
    <3>1. Answer([found |-> TRUE, distance |-> 0, path |-> <<query.from>>])
      BY <1>4, <2>1 DEF CheckTo
    <3>2. search'.pc = "done" /\ SearchTyped(search')
      BY <2>1, <3>1, AnswerTyped DEF Asks
    <3>. QED
      BY <3>2 DEF GoesWell
  <2>2. CASE ~(Asks({"unweighted"}) /\ query.from = query.to)
    <3> DEFINE first == <<<<query.from>>>>
    <3>1. search' = [search EXCEPT !.pc = "run", !.agenda = first, !.visited = {query.from}]
      BY <1>4, <2>2 DEF CheckTo, Go
    <3>2. first \in Seq(PathType)
      <4>1. <<query.from>> \in PathType
        BY <1>1 DEF PathType
      <4>. QED
        BY <4>1
    <3>. HIDE DEF first
    <3>3. /\ search'.pc = "run" /\ search'.agenda = first /\ search'.visited = {query.from}
          /\ search'.result = <<>> /\ DOMAIN search' = DOMAIN search
      BY <1>0, <1>1, <3>1
    <3>. QED
      BY <1>0, <1>1, <1>4, <3>2, <3>3
         DEF GoesWell, SearchTyped, AgendaTyped, NotesTyped, ResultTyped, Asks
  <2>. QED
    BY <2>1, <2>2
<1>. QED
  BY <1>2, <1>3, <1>4

LEMMA ExhaustedTyped ==
    ASSUME Searching, Exhausted
    PROVE  GoesWell /\ search'.pc = "done"
<1>1. \E result : /\ Answer(result)
                  /\ Asks({"bfs", "dfs", "paths"}) => result = search.result
  BY DEF Exhausted, Asks, SearchKinds
<1>2. PICK result : /\ Answer(result)
                    /\ Asks({"bfs", "dfs", "paths"}) => result = search.result
  BY <1>1
<1>3. search.pc = "run" /\ ResultTyped(search)
  BY DEF Exhausted, At, Searching, SearchTyped
<1>4. /\ Asks({"bfs", "dfs"}) => result \in Seq(VisitType)
      /\ Asks({"paths"}) => result \in Seq(PathType)
  BY <1>2, <1>3 DEF ResultTyped, Asks
<1>5. search'.pc = "done" /\ SearchTyped(search')
  BY <1>2, <1>4, AnswerTyped
<1>. QED
  BY <1>5 DEF GoesWell

(* An item of the agenda whose vertex is gone. *)
LEMMA ItemGone ==
    ASSUME Searching, NEW id \in Ids, ~HasVertex(id), Fail("vertex")
    PROVE  GoesWell /\ search'.pc = "failed"
<1>1. Deleted
  BY DEF Deleted, HasVertex
<1>. QED
  BY <1>1, FailTyped DEF GoesWell, SearchFails

LEMMA RunFacts ==
    ASSUME Searching, At("run")
    PROVE  /\ DOMAIN search = {"pc", "agenda", "visited", "notes", "result"} /\ search.pc = "run"
           /\ AgendaTyped(search) /\ NotesTyped(search) /\ ResultTyped(search) /\ search.visited \subseteq Ids
           /\ Asks({"cycle"}) \/ query.from \in Ids
BY DEF Searching, SearchTyped, At

LEMMA DepthGiven ==
    ASSUME Searching, Asks({"bfs", "dfs", "paths"})
    PROVE  query.depth \in Nat
BY SearchesParsed DEF Searching, History, QueryGiven, Asks

(* new lists the ids of A, each once. *)
Lists(new, A) ==
    /\ new \in Seq(Ids)
    /\ \A i, j \in DOMAIN new : new[i] = new[j] => i = j
    /\ \A i \in DOMAIN new : new[i] \in A
    /\ \A y \in A : \E i \in DOMAIN new : new[i] = y

LEMMA BFSDoes ==
    ASSUME Searching, BFS
    PROVE  /\ Item \in VisitType /\ Rest \in Seq(VisitType) /\ Item.id \in Ids /\ Item.depth \in Nat
           /\ At("run") /\ Asks({"bfs"}) /\ search.agenda # <<>> /\ search.agenda \in Seq(VisitType)
           /\ search.result \in Seq(VisitType) /\ query.depth \in Nat
           /\ \/ Item.depth < query.depth /\ ~HasVertex(Item.id) /\ Fail("vertex")
              \/ /\ Item.depth >= query.depth
                 /\ search'.pc = "run" /\ search'.agenda = Rest /\ DOMAIN search' = DOMAIN search
                 /\ search'.visited = search.visited /\ search'.result = search.result
              \/ /\ Item.depth < query.depth
                 /\ \E new : LET found == Visits(new, Item.depth + 1)
                             IN  /\ Lists(new, Neighbors(Item.id) \ search.visited)
                                 /\ search'.pc = "run" /\ search'.agenda = Rest \o found
                                 /\ search'.visited = search.visited \cup ToSet(new)
                                 /\ search'.result = search.result \o found
                                 /\ DOMAIN search' = DOMAIN search
<1> DEFINE new == sortedKeys(Neighbors(Item.id) \ search.visited)
           found == Visits(new, Item.depth + 1)
           visited == search.visited \cup ToSet(new)
           result == search.result \o found
           agenda == Rest \o found
<1>1. /\ DOMAIN search = {"pc", "agenda", "visited", "notes", "result"} /\ search.pc = "run"
      /\ At("run") /\ Asks({"bfs"}) /\ search.agenda # <<>>
      /\ search.agenda \in Seq(VisitType) /\ search.result \in Seq(VisitType)
  BY RunFacts DEF BFS, Working, AgendaTyped, ResultTyped, Asks
<1>2. Item \in VisitType /\ Rest \in Seq(VisitType) /\ Item.id \in Ids /\ Item.depth \in Nat
  <2>1. Item \in VisitType /\ Rest \in Seq(VisitType)
    BY <1>1, TailFacts DEF Item, Rest
  <2>. QED
    BY <2>1 DEF VisitType
<1>3. query.depth \in Nat
  BY <1>1, DepthGiven DEF Asks
<1>4. CASE Item.depth >= query.depth
  <2>1. search' = [search EXCEPT !.agenda = Rest]
    BY <1>2, <1>3, <1>4 DEF BFS, Go
  <2>2. /\ DOMAIN search' = DOMAIN search /\ search'.pc = "run" /\ search'.agenda = Rest
        /\ search'.visited = search.visited /\ search'.result = search.result
    BY <1>1, <2>1
  <2>. QED
    BY <1>1, <1>2, <1>3, <1>4, <2>2
<1>5. CASE Item.depth < query.depth /\ ~HasVertex(Item.id)
  <2>1. Fail("vertex")
    BY <1>2, <1>3, <1>5 DEF BFS
  <2>. QED
    BY <1>1, <1>2, <1>3, <1>5, <2>1
<1>6. CASE Item.depth < query.depth /\ HasVertex(Item.id)
  <2>1. search' = [search EXCEPT !.agenda = agenda, !.visited = visited, !.result = result]
    BY <1>2, <1>3, <1>6 DEF BFS, Go
  <2>2. Lists(new, Neighbors(Item.id) \ search.visited)
    BY NeighborsListed DEF Searching, Lists
  <2>. HIDE DEF agenda, visited, result
  <2>3. /\ DOMAIN search' = DOMAIN search /\ search'.pc = "run" /\ search'.agenda = agenda
        /\ search'.visited = visited /\ search'.result = result
    BY <1>1, <2>1
  <2>. HIDE DEF new
  <2>. QED
    BY <1>1, <1>2, <1>3, <1>6, <2>2, <2>3 DEF agenda, visited, result
<1>7. Item.depth >= query.depth \/ Item.depth < query.depth
  BY <1>2, <1>3
<1>. QED
  BY <1>4, <1>5, <1>6, <1>7

LEMMA ListsIds ==
    ASSUME NEW new, NEW A, Lists(new, A)
    PROVE  new \in Seq(Ids) /\ ToSet(new) \subseteq Ids /\ ToSet(new) \subseteq A /\ A \subseteq ToSet(new)
<1>1. /\ new \in Seq(Ids) /\ \A i \in DOMAIN new : new[i] \in A
      /\ \A y \in A : \E i \in DOMAIN new : new[i] = y
  BY DEF Lists
<1>2. \A i \in DOMAIN new : new[i] \in Ids
  BY <1>1, ElementOfSeq, LenProperties
<1>. QED
  BY <1>1, <1>2 DEF ToSet

LEMMA BFSTyped ==
    ASSUME Searching, BFS
    PROVE  GoesWell
<1>1. /\ DOMAIN search = {"pc", "agenda", "visited", "notes", "result"} /\ search.visited \subseteq Ids
      /\ query.from \in Ids
  BY BFSDoes, RunFacts DEF Asks
<1>2. CASE ~HasVertex(Item.id) /\ Fail("vertex")
  BY <1>2, BFSDoes, ItemGone
<1>3. CASE /\ search'.pc = "run" /\ search'.agenda = Rest /\ DOMAIN search' = DOMAIN search
           /\ search'.visited = search.visited /\ search'.result = search.result
  BY <1>1, <1>3, BFSDoes
     DEF GoesWell, SearchTyped, AgendaTyped, NotesTyped, ResultTyped, Asks
<1>4. ASSUME NEW new, Lists(new, Neighbors(Item.id) \ search.visited),
             search'.pc = "run", search'.agenda = Rest \o Visits(new, Item.depth + 1),
             search'.visited = search.visited \cup ToSet(new),
             search'.result = search.result \o Visits(new, Item.depth + 1),
             DOMAIN search' = DOMAIN search
      PROVE  GoesWell
  <2>1. new \in Seq(Ids) /\ ToSet(new) \subseteq Ids /\ Item.depth + 1 \in Nat
    BY <1>4, ListsIds, BFSDoes
  <2>2. Visits(new, Item.depth + 1) \in Seq(VisitType)
    BY <2>1, VisitsFacts
  <2>3. search'.agenda \in Seq(VisitType) /\ search'.result \in Seq(VisitType)
    BY <1>4, <2>2, BFSDoes, ConcatFacts
  <2>. QED
    BY <1>1, <1>4, <2>1, <2>3, BFSDoes
       DEF GoesWell, SearchTyped, AgendaTyped, NotesTyped, ResultTyped, Asks
<1>. QED
  BY <1>2, <1>3, <1>4, BFSDoes

LEMMA DFSDoes ==
    ASSUME Searching, DFS
    PROVE  /\ Item \in VisitType /\ Rest \in Seq(VisitType) /\ Item.id \in Ids /\ Item.depth \in Nat
           /\ At("run") /\ Asks({"dfs"}) /\ search.agenda # <<>> /\ search.agenda \in Seq(VisitType)
           /\ search.result \in Seq(VisitType) /\ query.depth \in Nat
           /\ \/ Item.depth < query.depth /\ ~HasVertex(Item.id) /\ Fail("vertex")
              \/ /\ Item.id \in search.visited
                 /\ search'.pc = "run" /\ search'.agenda = Rest /\ DOMAIN search' = DOMAIN search
                 /\ search'.visited = search.visited /\ search'.result = search.result
              \/ /\ Item.id \notin search.visited
                 /\ search'.pc = "run" /\ DOMAIN search' = DOMAIN search
                 /\ search'.visited = search.visited \cup {Item.id}
                 /\ search'.result = Append(search.result, Item)
                 /\ \/ Item.depth >= query.depth /\ search'.agenda = Rest
                    \/ /\ Item.depth < query.depth
                       /\ \E all : /\ Lists(all, Neighbors(Item.id))
                                   /\ search'.agenda = Visits(all, Item.depth + 1) \o Rest
<1> DEFINE all == sortedKeys(Neighbors(Item.id))
           below == Visits(all, Item.depth + 1)
           visited == search.visited \cup {Item.id}
           result == Append(search.result, Item)
           agenda == below \o Rest
           seen == [search EXCEPT !.visited = visited, !.result = result]
<1>1. /\ DOMAIN search = {"pc", "agenda", "visited", "notes", "result"} /\ search.pc = "run"
      /\ At("run") /\ Asks({"dfs"}) /\ search.agenda # <<>>
      /\ search.agenda \in Seq(VisitType) /\ search.result \in Seq(VisitType)
  BY RunFacts DEF DFS, Working, AgendaTyped, ResultTyped, Asks
<1>2. Item \in VisitType /\ Rest \in Seq(VisitType) /\ Item.id \in Ids /\ Item.depth \in Nat
  <2>1. Item \in VisitType /\ Rest \in Seq(VisitType)
    BY <1>1, TailFacts DEF Item, Rest
  <2>. QED
    BY <2>1 DEF VisitType
<1>3. query.depth \in Nat
  BY <1>1, DepthGiven DEF Asks
<1>4. CASE Item.id \in search.visited
  <2>1. search' = [search EXCEPT !.agenda = Rest]
    BY <1>4 DEF DFS, Go
  <2>2. /\ DOMAIN search' = DOMAIN search /\ search'.pc = "run" /\ search'.agenda = Rest
        /\ search'.visited = search.visited /\ search'.result = search.result
    BY <1>1, <2>1
  <2>. QED
    BY <1>1, <1>2, <1>3, <1>4, <2>2
<1>5. CASE Item.id \notin search.visited /\ Item.depth >= query.depth
  <2>1. search' = [seen EXCEPT !.agenda = Rest]
    BY <1>5 DEF DFS, Go
  <2>. HIDE DEF visited, result
  <2>2. /\ DOMAIN search' = DOMAIN search /\ search'.pc = "run" /\ search'.agenda = Rest
        /\ search'.visited = visited /\ search'.result = result
    BY <1>1, <2>1
  <2>. QED
    BY <1>1, <1>2, <1>3, <1>5, <2>2 DEF visited, result
<1>6. CASE Item.id \notin search.visited /\ Item.depth < query.depth /\ ~HasVertex(Item.id)
  <2>1. Fail("vertex")
    BY <1>2, <1>3, <1>6 DEF DFS
  <2>. QED
    BY <1>1, <1>2, <1>3, <1>6, <2>1
<1>7. CASE Item.id \notin search.visited /\ Item.depth < query.depth /\ HasVertex(Item.id)
  <2>1. search' = [seen EXCEPT !.agenda = agenda]
    BY <1>2, <1>3, <1>7 DEF DFS, Go
  <2>2. Lists(all, Neighbors(Item.id))
    BY AllNeighborsListed DEF Searching, Lists
  <2>. HIDE DEF agenda, visited, result
  <2>3. /\ DOMAIN search' = DOMAIN search /\ search'.pc = "run" /\ search'.agenda = agenda
        /\ search'.visited = visited /\ search'.result = result
    BY <1>1, <2>1
  <2>. HIDE DEF all
  <2>4. agenda = Visits(all, Item.depth + 1) \o Rest
    BY DEF agenda
  <2>5. \E list : Lists(list, Neighbors(Item.id)) /\ search'.agenda = Visits(list, Item.depth + 1) \o Rest
    BY <2>2, <2>3, <2>4
  <2>. QED
    BY <1>1, <1>2, <1>3, <1>7, <2>3, <2>5 DEF visited, result
<1>8. Item.depth >= query.depth \/ Item.depth < query.depth
  BY <1>2, <1>3
<1>. QED
  BY <1>4, <1>5, <1>6, <1>7, <1>8

LEMMA DFSTyped ==
    ASSUME Searching, DFS
    PROVE  GoesWell
<1>1. /\ DOMAIN search = {"pc", "agenda", "visited", "notes", "result"} /\ search.visited \subseteq Ids
      /\ query.from \in Ids
  BY DFSDoes, RunFacts DEF Asks
<1>2. CASE ~HasVertex(Item.id) /\ Fail("vertex")
  BY <1>2, DFSDoes, ItemGone
<1>3. CASE /\ search'.pc = "run" /\ DOMAIN search' = DOMAIN search /\ search'.agenda \in Seq(VisitType)
           /\ search'.visited \subseteq Ids /\ search'.result \in Seq(VisitType)
  BY <1>1, <1>3, DFSDoes
     DEF GoesWell, SearchTyped, AgendaTyped, NotesTyped, ResultTyped, Asks
<1>4. Append(search.result, Item) \in Seq(VisitType) /\ search.visited \cup {Item.id} \subseteq Ids
  BY <1>1, DFSDoes, AppendFacts
<1>5. ASSUME NEW all, Lists(all, Neighbors(Item.id))
      PROVE  Visits(all, Item.depth + 1) \o Rest \in Seq(VisitType)
  <2>1. all \in Seq(Ids) /\ Item.depth + 1 \in Nat
    BY <1>5, ListsIds, DFSDoes
  <2>. QED
    BY <2>1, VisitsFacts, DFSDoes, ConcatFacts
<1>. QED
  BY <1>1, <1>2, <1>3, <1>4, <1>5, DFSDoes

LEMMA PathsDoes ==
    ASSUME Searching, AllSimplePaths
    PROVE  /\ Item \in PathType /\ Rest \in Seq(PathType) /\ Last(Item) \in Ids
           /\ At("run") /\ Asks({"paths"}) /\ search.agenda # <<>> /\ search.agenda \in Seq(PathType)
           /\ search.result \in Seq(PathType) /\ query.depth \in Nat
           /\ \/ ~HasVertex(Last(Item)) /\ Fail("vertex")
              \/ /\ search'.pc = "run" /\ DOMAIN search' = DOMAIN search
                 /\ search'.visited = search.visited
                 /\ \/ /\ Last(Item) = query.to
                       /\ search'.agenda = Rest /\ search'.result = Append(search.result, Item)
                    \/ /\ Last(Item) # query.to /\ Len(Item) > query.depth
                       /\ search'.agenda = Rest /\ search'.result = search.result
                    \/ /\ Last(Item) # query.to /\ Len(Item) =< query.depth
                       /\ search'.result = search.result
                       /\ \E new : /\ Lists(new, Neighbors(Last(Item)) \ ToSet(Item))
                                   /\ search'.agenda = Extended(Item, new) \o Rest
<1> DEFINE new == sortedKeys(Neighbors(Last(Item)) \ ToSet(Item))
           result == Append(search.result, Item)
           agenda == Extended(Item, new) \o Rest
<1>1. /\ DOMAIN search = {"pc", "agenda", "visited", "notes", "result"} /\ search.pc = "run"
      /\ At("run") /\ Asks({"paths"}) /\ search.agenda # <<>>
      /\ search.agenda \in Seq(PathType) /\ search.result \in Seq(PathType)
  BY RunFacts DEF AllSimplePaths, Working, AgendaTyped, ResultTyped, Asks
<1>2. Item \in PathType /\ Rest \in Seq(PathType)
  BY <1>1, TailFacts DEF Item, Rest
<1>3. query.depth \in Nat /\ Last(Item) \in Ids /\ Len(Item) \in Nat
  BY <1>1, <1>2, DepthGiven, LastFacts DEF Asks
<1>4. CASE Last(Item) = query.to
  <2>1. search' = [search EXCEPT !.agenda = Rest, !.result = result]
    BY <1>4 DEF AllSimplePaths, Go
  <2>. HIDE DEF result
  <2>2. /\ DOMAIN search' = DOMAIN search /\ search'.pc = "run" /\ search'.agenda = Rest
        /\ search'.visited = search.visited /\ search'.result = result
    BY <1>1, <2>1
  <2>. QED
    BY <1>1, <1>2, <1>3, <1>4, <2>2 DEF result
<1>5. CASE Last(Item) # query.to /\ Len(Item) > query.depth
  <2>1. search' = [search EXCEPT !.agenda = Rest]
    BY <1>5 DEF AllSimplePaths, Go
  <2>2. /\ DOMAIN search' = DOMAIN search /\ search'.pc = "run" /\ search'.agenda = Rest
        /\ search'.visited = search.visited /\ search'.result = search.result
    BY <1>1, <2>1
  <2>. QED
    BY <1>1, <1>2, <1>3, <1>5, <2>2
<1>6. CASE Last(Item) # query.to /\ Len(Item) =< query.depth /\ ~HasVertex(Last(Item))
  <2>1. Fail("vertex")
    BY <1>3, <1>6 DEF AllSimplePaths
  <2>. QED
    BY <1>1, <1>2, <1>3, <1>6, <2>1
<1>7. CASE Last(Item) # query.to /\ Len(Item) =< query.depth /\ HasVertex(Last(Item))
  <2>0. ~(Len(Item) > query.depth)
    BY <1>3, <1>7
  <2>1. search' = [search EXCEPT !.agenda = agenda]
    BY <1>7, <2>0 DEF AllSimplePaths, Go
  <2>2. Lists(new, Neighbors(Last(Item)) \ ToSet(Item))
    BY NeighborsListed DEF Searching, Lists
  <2>. HIDE DEF agenda
  <2>3. /\ DOMAIN search' = DOMAIN search /\ search'.pc = "run" /\ search'.agenda = agenda
        /\ search'.visited = search.visited /\ search'.result = search.result
    BY <1>1, <2>1
  <2>. HIDE DEF new
  <2>4. \E list : /\ Lists(list, Neighbors(Last(Item)) \ ToSet(Item))
                  /\ search'.agenda = Extended(Item, list) \o Rest
    BY <2>2, <2>3 DEF agenda
  <2>. QED
    BY <1>1, <1>2, <1>3, <1>7, <2>3, <2>4
<1>8. Len(Item) > query.depth \/ Len(Item) =< query.depth
  BY <1>3
<1>. QED
  BY <1>4, <1>5, <1>6, <1>7, <1>8

LEMMA PathsTyped ==
    ASSUME Searching, AllSimplePaths
    PROVE  GoesWell
<1>1. /\ DOMAIN search = {"pc", "agenda", "visited", "notes", "result"} /\ search.visited \subseteq Ids
      /\ query.from \in Ids
  BY PathsDoes, RunFacts DEF Asks
<1>2. CASE ~HasVertex(Last(Item)) /\ Fail("vertex")
  BY <1>2, PathsDoes, ItemGone
<1>3. CASE /\ search'.pc = "run" /\ DOMAIN search' = DOMAIN search /\ search'.agenda \in Seq(PathType)
           /\ search'.visited = search.visited /\ search'.result \in Seq(PathType)
  BY <1>1, <1>3, PathsDoes
     DEF GoesWell, SearchTyped, AgendaTyped, NotesTyped, ResultTyped, Asks
<1>4. Append(search.result, Item) \in Seq(PathType)
  BY <1>1, PathsDoes, AppendFacts
<1>5. ASSUME NEW new, Lists(new, Neighbors(Last(Item)) \ ToSet(Item))
      PROVE  Extended(Item, new) \o Rest \in Seq(PathType)
  <2>1. new \in Seq(Ids)
    BY <1>5, ListsIds
  <2>. QED
    BY <2>1, ExtendedFacts, PathsDoes, ConcatFacts
<1>. QED
  BY <1>1, <1>2, <1>3, <1>4, <1>5, PathsDoes

LEMMA UnweightedDoes ==
    ASSUME Searching, ShortestUnweighted
    PROVE  /\ Item \in PathType /\ Rest \in Seq(PathType) /\ Last(Item) \in Ids
           /\ At("run") /\ Asks({"unweighted"}) /\ search.agenda # <<>> /\ search.agenda \in Seq(PathType)
           /\ \/ ~HasVertex(Last(Item)) /\ Fail("vertex")
              \/ /\ query.to \in Neighbors(Last(Item)) \ search.visited
                 /\ LET end == Append(Item, query.to)
                    IN  Answer([found |-> TRUE, distance |-> Len(end) - 1, path |-> end])
              \/ /\ search'.pc = "run" /\ DOMAIN search' = DOMAIN search
                 /\ query.to \notin Neighbors(Last(Item)) \ search.visited
                 /\ search'.visited = search.visited \cup (Neighbors(Last(Item)) \ search.visited)
                 /\ search'.result = search.result
                 /\ \E new : /\ Lists(new, Neighbors(Last(Item)) \ search.visited)
                             /\ search'.agenda = Rest \o Extended(Item, new)
<1> DEFINE next == Neighbors(Last(Item)) \ search.visited
           new == sortedKeys(next)
           visited == search.visited \cup next
           agenda == Rest \o Extended(Item, new)
<1>1. /\ DOMAIN search = {"pc", "agenda", "visited", "notes", "result"} /\ search.pc = "run"
      /\ At("run") /\ Asks({"unweighted"}) /\ search.agenda # <<>>
      /\ search.agenda \in Seq(PathType)
  BY RunFacts DEF ShortestUnweighted, Working, AgendaTyped, ResultTyped, Asks
<1>2. Item \in PathType /\ Rest \in Seq(PathType)
  BY <1>1, TailFacts DEF Item, Rest
<1>3. Last(Item) \in Ids
  BY <1>2, LastFacts
<1>4. CASE ~HasVertex(Last(Item))
  <2>1. Fail("vertex")
    BY <1>4 DEF ShortestUnweighted
  <2>. QED
    BY <1>1, <1>2, <1>3, <1>4, <2>1
<1>5. CASE HasVertex(Last(Item)) /\ query.to \in next
  <2>1. Answer([found |-> TRUE, distance |-> Len(Append(Item, query.to)) - 1,
                path |-> Append(Item, query.to)])
    BY <1>5 DEF ShortestUnweighted
  <2>. QED
    BY <1>1, <1>2, <1>3, <1>5, <2>1
<1>6. CASE HasVertex(Last(Item)) /\ query.to \notin next
  <2>1. search' = [search EXCEPT !.agenda = agenda, !.visited = visited]
    BY <1>6 DEF ShortestUnweighted, Go
  <2>2. Lists(new, next)
    BY NeighborsListed DEF Searching, Lists
  <2>. HIDE DEF agenda, visited
  <2>3. /\ DOMAIN search' = DOMAIN search /\ search'.pc = "run" /\ search'.agenda = agenda
        /\ search'.visited = visited /\ search'.result = search.result
    BY <1>1, <2>1
  <2>. HIDE DEF new, next
  <2>4. \E list : Lists(list, next) /\ search'.agenda = Rest \o Extended(Item, list)
    BY <2>2, <2>3 DEF agenda
  <2>. QED
    BY <1>1, <1>2, <1>3, <1>6, <2>3, <2>4 DEF visited, next
<1>. QED
  BY <1>4, <1>5, <1>6

LEMMA UnweightedTyped ==
    ASSUME Searching, ShortestUnweighted
    PROVE  GoesWell
<1>1. /\ DOMAIN search = {"pc", "agenda", "visited", "notes", "result"} /\ search.visited \subseteq Ids
      /\ query.from \in Ids
  BY UnweightedDoes, RunFacts DEF Asks
<1>2. CASE ~HasVertex(Last(Item)) /\ Fail("vertex")
  BY <1>2, UnweightedDoes, ItemGone
<1>3. ASSUME NEW r, Answer(r)
      PROVE  GoesWell
  <2>1. search'.pc = "done" /\ SearchTyped(search')
    BY <1>3, UnweightedDoes, AnswerTyped DEF Asks
  <2>. QED
    BY <2>1 DEF GoesWell
<1>4. Neighbors(Last(Item)) \subseteq Ids
  BY NeighborsAreSteps, StepsBetween, NowFacts DEF Searching
<1>5. ASSUME NEW new, Lists(new, Neighbors(Last(Item)) \ search.visited),
             search'.agenda = Rest \o Extended(Item, new),
             search'.pc = "run", DOMAIN search' = DOMAIN search,
             search'.visited = search.visited \cup (Neighbors(Last(Item)) \ search.visited)
      PROVE  GoesWell
  <2>1. new \in Seq(Ids)
    BY <1>5, ListsIds
  <2>2. search'.agenda \in Seq(PathType)
    BY <1>5, <2>1, ExtendedFacts, UnweightedDoes, ConcatFacts
  <2>3. search'.visited \subseteq Ids
    BY <1>1, <1>4, <1>5
  <2>. QED
    BY <1>1, <1>5, <2>2, <2>3, UnweightedDoes
       DEF GoesWell, SearchTyped, AgendaTyped, NotesTyped, ResultTyped, Asks
<1>. QED
  BY <1>2, <1>3, <1>5, UnweightedDoes

(* Dijkstra: what an item of the heap leads to. *)
Via(item, next) == item.distance + Best(ArcsTo(Last(item.path), next))
Nearer(item) == {next \in Neighbors(Last(item.path)) : Closer(next, Via(item, next))}
Trips(item, ids) ==
    [k \in DOMAIN ids |-> [path |-> Append(item.path, ids[k]), distance |-> Via(item, ids[k])]]

LEMMA ListsNeighbors ==
    ASSUME History, NEW id, NEW A, A \subseteq Neighbors(id)
    PROVE  Lists(sortedKeys(A), A)
<1>1. A = Neighbors(id) \ (Neighbors(id) \ A)
  OBVIOUS
<1> DEFINE X == Neighbors(id) \ A
<1>2. Lists(sortedKeys(Neighbors(id) \ X), Neighbors(id) \ X)
  <2>. HIDE DEF X
  <2>. QED
    BY NeighborsListed DEF Lists
<1>. QED
  BY <1>1, <1>2

LEMMA WeightedDoes ==
    ASSUME Searching, NEW i, ShortestWeighted(i)
    PROVE  LET item == search.agenda[i]
               id == Last(item.path)
               rest == RemoveAt(search.agenda, i)
           IN  /\ item \in TripType /\ rest \in Seq(TripType) /\ id \in Ids
               /\ i \in DOMAIN search.agenda
               /\ \A j \in DOMAIN search.agenda : item.distance =< search.agenda[j].distance
               /\ At("run") /\ Asks({"weighted"}) /\ search.agenda \in Seq(TripType)
               /\ \/ ~HasVertex(id) /\ Fail("vertex")
                  \/ (\E e \in Arcs(id) : BadWeight(edges[e].label)) /\ Fail("weight")
                  \/ /\ id \notin search.visited /\ id = query.to
                     /\ Answer([found |-> TRUE, distance |-> item.distance, path |-> item.path])
                  \/ /\ id \in search.visited
                     /\ search'.pc = "run" /\ DOMAIN search' = DOMAIN search
                     /\ search'.agenda = rest /\ search'.visited = search.visited
                     /\ search'.notes = search.notes
                  \/ /\ id \notin search.visited /\ id # query.to
                     /\ \A e \in Arcs(id) : ~BadWeight(edges[e].label)
                     /\ search'.pc = "run" /\ DOMAIN search' = DOMAIN search
                     /\ search'.visited = search.visited \cup {id}
                     /\ search'.notes = [n \in DOMAIN search.notes |->
                           IF n \in Nearer(item) THEN Via(item, n) ELSE search.notes[n]]
                     /\ \E new : /\ Lists(new, Nearer(item))
                                 /\ search'.agenda = rest \o Trips(item, new)
<1> DEFINE item == search.agenda[i]
           id == Last(item.path)
           rest == RemoveAt(search.agenda, i)
           new == sortedKeys(Nearer(item))
           visited == search.visited \cup {id}
           notes == [n \in DOMAIN search.notes |->
                        IF n \in Nearer(item) THEN Via(item, n) ELSE search.notes[n]]
           agenda == rest \o Trips(item, new)
<1>1. /\ DOMAIN search = {"pc", "agenda", "visited", "notes", "result"} /\ search.pc = "run"
      /\ At("run") /\ Asks({"weighted"}) /\ search.agenda \in Seq(TripType)
  BY RunFacts DEF ShortestWeighted, Working, AgendaTyped, Asks
<1>2. /\ i \in DOMAIN search.agenda
      /\ \A j \in DOMAIN search.agenda : item.distance =< search.agenda[j].distance
  BY DEF ShortestWeighted
<1>3. item \in TripType /\ rest \in Seq(TripType)
  <2>1. i \in 1..Len(search.agenda)
    BY <1>1, <1>2, LenProperties
  <2>. QED
    BY <1>1, <2>1, ElementOfSeq, RemoveAtLists
<1>4. id \in Ids
  BY <1>3, LastFacts DEF TripType
<1>5. CASE id \in search.visited
  <2>1. search' = [search EXCEPT !.agenda = rest]
    BY <1>5 DEF ShortestWeighted, Go
  <2>. HIDE DEF rest
  <2>2. /\ DOMAIN search' = DOMAIN search /\ search'.pc = "run" /\ search'.agenda = rest
        /\ search'.visited = search.visited /\ search'.notes = search.notes
    BY <1>1, <2>1
  <2>. QED
    BY <1>1, <1>2, <1>3, <1>4, <1>5, <2>2 DEF rest
<1>6. CASE id \notin search.visited /\ id = query.to
  <2>1. Answer([found |-> TRUE, distance |-> item.distance, path |-> item.path])
    BY <1>6 DEF ShortestWeighted
  <2>. QED
    BY <1>1, <1>2, <1>3, <1>4, <1>6, <2>1
<1>7. CASE id \notin search.visited /\ id # query.to /\ ~HasVertex(id)
  <2>1. Fail("vertex")
    BY <1>7 DEF ShortestWeighted
  <2>. QED
    BY <1>1, <1>2, <1>3, <1>4, <1>7, <2>1
<1>8. CASE id \notin search.visited /\ id # query.to /\ HasVertex(id)
           /\ \E e \in Arcs(id) : BadWeight(edges[e].label)
  <2>1. Fail("weight")
    BY <1>8 DEF ShortestWeighted
  <2>. QED
    BY <1>1, <1>2, <1>3, <1>4, <1>8, <2>1
<1>9. CASE id \notin search.visited /\ id # query.to /\ HasVertex(id)
           /\ ~\E e \in Arcs(id) : BadWeight(edges[e].label)
  <2>1. search' = [search EXCEPT !.visited = visited, !.notes = notes, !.agenda = agenda]
    BY <1>9 DEF ShortestWeighted, Go, Nearer, Via, Trips
  <2>2. Lists(new, Nearer(item))
    BY ListsNeighbors DEF Searching, Nearer
  <2>. HIDE DEF visited, notes, agenda
  <2>3. /\ DOMAIN search' = DOMAIN search /\ search'.pc = "run" /\ search'.agenda = agenda
        /\ search'.visited = visited /\ search'.notes = notes
    BY <1>1, <2>1
  <2>. HIDE DEF new
  <2>4. \E list : Lists(list, Nearer(item)) /\ search'.agenda = rest \o Trips(item, list)
    BY <2>2, <2>3 DEF agenda
  <2>5. search'.visited = search.visited \cup {id}
    BY <2>3 DEF visited
  <2>6. search'.notes = [n \in DOMAIN search.notes |->
                           IF n \in Nearer(item) THEN Via(item, n) ELSE search.notes[n]]
    BY <2>3 DEF notes
  <2>. HIDE DEF item, id, rest
  <2>7. \A e \in Arcs(id) : ~BadWeight(edges[e].label)
    BY <1>9
  <2>. QED
    BY <1>1, <1>2, <1>3, <1>4, <1>9, <2>3, <2>4, <2>5, <2>6, <2>7 DEF item, id, rest
<1>. QED
  BY <1>5, <1>6, <1>7, <1>8, <1>9

LEMMA TripsFacts ==
    ASSUME Searching, NEW item \in TripType, NEW A, A \subseteq Neighbors(Last(item.path)),
           NEW new, Lists(new, A), \A e \in Arcs(Last(item.path)) : ~BadWeight(edges[e].label)
    PROVE  /\ Trips(item, new) \in Seq(TripType)
           /\ DOMAIN Trips(item, new) = DOMAIN new
           /\ \A k \in DOMAIN new :
                 Trips(item, new)[k] = [path |-> Append(item.path, new[k]), distance |-> Via(item, new[k])]
           /\ \A next \in A : Via(item, next) \in Nat
<1>1. item.path \in PathType /\ item.distance \in Nat
  BY DEF TripType
<1>2. \A next \in A : Via(item, next) \in Nat
  <2>1. ASSUME NEW next \in A
        PROVE  Best(ArcsTo(Last(item.path), next)) \in Nat
    BY BestFacts DEF Searching
  <2>. QED
    BY <1>1, <2>1 DEF Via
<1>3. /\ Len(new) \in Nat /\ DOMAIN new = 1..Len(new)
      /\ \A k \in 1..Len(new) : new[k] \in Ids /\ new[k] \in A
  BY LenProperties, ElementOfSeq DEF Lists
<1>4. Trips(item, new) = [k \in 1..Len(new) |->
            [path |-> Append(item.path, new[k]), distance |-> Via(item, new[k])]]
  BY <1>3 DEF Trips
<1>5. ASSUME NEW k \in 1..Len(new)
      PROVE  [path |-> Append(item.path, new[k]), distance |-> Via(item, new[k])] \in TripType
  <2>1. item.path \in Seq(Ids) /\ new[k] \in Ids
    BY <1>1, <1>3 DEF PathType
  <2>2. Append(item.path, new[k]) \in Seq(Ids) /\ Append(item.path, new[k]) # <<>>
    BY <2>1, AppendProperties
  <2>. QED
    BY <1>2, <1>3, <2>2 DEF PathType, TripType
<1>6. Trips(item, new) \in [1..Len(new) -> TripType]
  BY <1>4, <1>5
<1>7. Trips(item, new) \in Seq(TripType)
  BY <1>3, <1>6
<1>8. DOMAIN Trips(item, new) = DOMAIN new
      /\ \A k \in DOMAIN new :
            Trips(item, new)[k] = [path |-> Append(item.path, new[k]), distance |-> Via(item, new[k])]
  BY DEF Trips
<1>. QED
  BY <1>2, <1>7, <1>8

LEMMA WeightedTyped ==
    ASSUME Searching, NEW i, ShortestWeighted(i)
    PROVE  GoesWell
<1> DEFINE item == search.agenda[i]
           id == Last(item.path)
           rest == RemoveAt(search.agenda, i)
<1>0. item \in TripType /\ rest \in Seq(TripType) /\ id \in Ids /\ Asks({"weighted"}) /\ At("run")
  BY WeightedDoes
<1>1. /\ DOMAIN search = {"pc", "agenda", "visited", "notes", "result"} /\ search.visited \subseteq Ids
      /\ query.from \in Ids
      /\ DOMAIN search.notes \subseteq Ids /\ \A n \in DOMAIN search.notes : search.notes[n] \in Nat \cup {None}
  BY <1>0, RunFacts DEF Asks, NotesTyped
<1>2. CASE ~HasVertex(id) /\ Fail("vertex")
  BY <1>0, <1>2, ItemGone
<1>3. CASE (\E e \in Arcs(id) : BadWeight(edges[e].label)) /\ Fail("weight")
  <2>1. PICK e \in Arcs(id) : BadWeight(edges[e].label)
    BY <1>3
  <2>2. e \in EverIds /\ Ever[e] = edges[e]
    BY <2>1, NowEver DEF Searching, Arcs, EdgesOf
  <2>3. SearchTyped(search') /\ search'.result = "weight"
    BY <1>3, FailTyped
  <2>. QED
    BY <2>1, <2>2, <2>3, ReadsSame, <1>3 DEF GoesWell, SearchFails
<1>4. ASSUME NEW r, Answer(r)
      PROVE  GoesWell
  <2>1. search'.pc = "done" /\ SearchTyped(search')
    BY <1>0, <1>4, AnswerTyped DEF Asks
  <2>. QED
    BY <2>1 DEF GoesWell
<1>5. CASE /\ search'.pc = "run" /\ DOMAIN search' = DOMAIN search
           /\ search'.agenda = rest /\ search'.visited = search.visited
           /\ search'.notes = search.notes
  <2>. HIDE DEF rest
  <2>. QED
    BY <1>0, <1>1, <1>5 DEF GoesWell, SearchTyped, AgendaTyped, NotesTyped, ResultTyped, Asks
<1>6. ASSUME \A e \in Arcs(id) : ~BadWeight(edges[e].label),
             search'.pc = "run", DOMAIN search' = DOMAIN search,
             search'.visited = search.visited \cup {id},
             search'.notes = [n \in DOMAIN search.notes |->
                                 IF n \in Nearer(item) THEN Via(item, n) ELSE search.notes[n]],
             NEW new, Lists(new, Nearer(item)), search'.agenda = rest \o Trips(item, new)
      PROVE  GoesWell
  <2>1. Nearer(item) \subseteq Neighbors(id)
    BY DEF Nearer
  <2>2. Trips(item, new) \in Seq(TripType) /\ \A next \in Nearer(item) : Via(item, next) \in Nat
    BY <1>0, <1>6, <2>1, TripsFacts
  <2>3. search'.agenda \in Seq(TripType)
    BY <1>0, <1>6, <2>2, ConcatFacts
  <2>4. DOMAIN search'.notes = DOMAIN search.notes
        /\ \A n \in DOMAIN search.notes : search'.notes[n] \in Nat \cup {None}
    BY <1>1, <1>6, <2>2
  <2>5. search'.visited \subseteq Ids
    BY <1>0, <1>1, <1>6
  <2>. HIDE DEF rest, item, id
  <2>. QED
    BY <1>0, <1>1, <1>6, <2>3, <2>4, <2>5
       DEF GoesWell, SearchTyped, AgendaTyped, NotesTyped, ResultTyped, Asks
<1>. QED
  BY WeightedDoes, <1>2, <1>3, <1>4, <1>5, <1>6

Looks(ids) == [k \in DOMAIN ids |-> [do |-> "look", id |-> ids[k]]]
Leave(id) == <<[do |-> "leave", id |-> id]>>

LEMMA LooksFacts ==
    ASSUME NEW ids \in Seq(Ids)
    PROVE  /\ Looks(ids) \in Seq(CallType) /\ DOMAIN Looks(ids) = DOMAIN ids
           /\ \A k \in DOMAIN ids : Looks(ids)[k] = [do |-> "look", id |-> ids[k]]
<1>1. Len(ids) \in Nat /\ DOMAIN ids = 1..Len(ids) /\ \A k \in 1..Len(ids) : ids[k] \in Ids
  BY LenProperties, ElementOfSeq
<1>2. Looks(ids) = [k \in 1..Len(ids) |-> [do |-> "look", id |-> ids[k]]]
  BY <1>1 DEF Looks
<1>3. \A k \in 1..Len(ids) : [do |-> "look", id |-> ids[k]] \in CallType
  BY <1>1 DEF CallType
<1>4. Looks(ids) \in [1..Len(ids) -> CallType]
  BY <1>2, <1>3
<1>5. Looks(ids) \in Seq(CallType)
  BY <1>1, <1>4
<1>. QED
  BY <1>1, <1>2, <1>5

LEMMA LeaveFacts ==
    ASSUME NEW id \in Ids
    PROVE  Leave(id) \in Seq(CallType) /\ Len(Leave(id)) = 1 /\ DOMAIN Leave(id) = {1}
           /\ Leave(id)[1] = [do |-> "leave", id |-> id]
<1>1. [do |-> "leave", id |-> id] \in CallType
  BY DEF CallType
<1>. QED
  BY <1>1 DEF Leave

(* The colours after the visit of id begins and after it ends. *)
Coloured(s, id, colour) == [s.notes EXCEPT ![id] = colour]

LEMMA CycleDoes ==
    ASSUME Searching, HasCycle
    PROVE  /\ Item \in CallType /\ Rest \in Seq(CallType) /\ Item.id \in Ids
           /\ At("run") /\ Asks({"cycle"}) /\ search.agenda # <<>> /\ search.agenda \in Seq(CallType)
           /\ \/ /\ Item.do = "look" /\ search.notes[Item.id] = "grey" /\ Answer(TRUE)
              \/ /\ search'.pc = "run" /\ DOMAIN search' = DOMAIN search
                 /\ search'.visited = search.visited /\ search'.result = search.result
                 /\ \/ /\ Item.do = "leave" /\ search'.agenda = Rest
                       /\ search'.notes = Coloured(search, Item.id, "black")
                    \/ /\ Item.do # "leave" /\ search.notes[Item.id] = "white"
                       /\ search'.notes = Coloured(search, Item.id, "grey")
                       /\ \/ ~HasVertex(Item.id) /\ search'.agenda = Rest
                          \/ \E all : /\ Lists(all, Neighbors(Item.id))
                                      /\ search'.agenda = (Looks(all) \o Leave(Item.id)) \o Rest
                    \/ /\ Item.do # "leave" /\ search.notes[Item.id] # "white"
                       /\ Item.do = "look" => search.notes[Item.id] # "grey"
                       /\ search'.agenda = Rest /\ search'.notes = search.notes
<1> DEFINE id == Item.id
           all == sortedKeys(Neighbors(id))
           black == Coloured(search, id, "black")
           grey == Coloured(search, id, "grey")
           agenda == (Looks(all) \o Leave(id)) \o Rest
<1>1. /\ DOMAIN search = {"pc", "agenda", "visited", "notes", "result"} /\ search.pc = "run"
      /\ At("run") /\ Asks({"cycle"}) /\ search.agenda # <<>> /\ search.agenda \in Seq(CallType)
  BY RunFacts DEF HasCycle, Working, AgendaTyped, Asks
<1>2. Item \in CallType /\ Rest \in Seq(CallType)
  BY <1>1, TailFacts DEF Item, Rest
<1>3. id \in Ids /\ Item.do \in {"root", "look", "leave"}
  BY <1>2 DEF CallType
<1>4. CASE Item.do = "leave"
  <2>1. search' = [search EXCEPT !.notes = black, !.agenda = Rest]
    BY <1>4 DEF HasCycle, Go, Coloured
  <2>. HIDE DEF black
  <2>2. /\ DOMAIN search' = DOMAIN search /\ search'.pc = "run" /\ search'.agenda = Rest
        /\ search'.visited = search.visited /\ search'.notes = black /\ search'.result = search.result
    BY <1>1, <2>1
  <2>. QED
    BY <1>1, <1>2, <1>3, <1>4, <2>2 DEF black
<1>5. CASE Item.do = "look" /\ search.notes[id] = "grey"
  <2>1. Answer(TRUE)
    BY <1>5 DEF HasCycle
  <2>. QED
    BY <1>1, <1>2, <1>3, <1>5, <2>1
<1>6. CASE Item.do # "leave" /\ search.notes[id] = "white" /\ HasVertex(id)
  <2>1. search' = [[search EXCEPT !.notes[id] = "grey"] EXCEPT !.agenda = agenda]
    BY <1>6 DEF HasCycle, Go, Looks, Leave
  <2>2. Lists(all, Neighbors(id))
    BY AllNeighborsListed DEF Searching, Lists
  <2>. HIDE DEF agenda
  <2>3. search' = [search EXCEPT !.notes = grey, !.agenda = agenda]
    BY <2>1 DEF Coloured
  <2>. HIDE DEF grey
  <2>4. /\ DOMAIN search' = DOMAIN search /\ search'.pc = "run" /\ search'.agenda = agenda
        /\ search'.visited = search.visited /\ search'.notes = grey /\ search'.result = search.result
    BY <1>1, <2>3
  <2>. HIDE DEF all
  <2>5. \E list : Lists(list, Neighbors(id)) /\ search'.agenda = (Looks(list) \o Leave(id)) \o Rest
    BY <2>2, <2>4 DEF agenda
  <2>. QED
    BY <1>1, <1>2, <1>3, <1>6, <2>4, <2>5 DEF grey
<1>7. CASE Item.do # "leave" /\ search.notes[id] = "white" /\ ~HasVertex(id)
  <2>1. search' = [[search EXCEPT !.notes[id] = "grey"] EXCEPT !.agenda = Rest]
    BY <1>7 DEF HasCycle, Go
  <2>2. search' = [search EXCEPT !.notes = grey, !.agenda = Rest]
    BY <2>1 DEF Coloured
  <2>. HIDE DEF grey
  <2>3. /\ DOMAIN search' = DOMAIN search /\ search'.pc = "run" /\ search'.agenda = Rest
        /\ search'.visited = search.visited /\ search'.notes = grey /\ search'.result = search.result
    BY <1>1, <2>2
  <2>. QED
    BY <1>1, <1>2, <1>3, <1>7, <2>3 DEF grey
<1>8. CASE Item.do # "leave" /\ search.notes[id] # "white" /\ ~(Item.do = "look" /\ search.notes[id] = "grey")
  <2>1. search' = [search EXCEPT !.agenda = Rest]
    BY <1>8 DEF HasCycle, Go
  <2>2. /\ DOMAIN search' = DOMAIN search /\ search'.pc = "run" /\ search'.agenda = Rest
        /\ search'.visited = search.visited /\ search'.notes = search.notes /\ search'.result = search.result
    BY <1>1, <2>1
  <2>. QED
    BY <1>1, <1>2, <1>3, <1>8, <2>2
<1>. QED
  BY <1>4, <1>5, <1>6, <1>7, <1>8

LEMMA CycleTyped ==
    ASSUME Searching, HasCycle
    PROVE  GoesWell
<1>1. /\ DOMAIN search = {"pc", "agenda", "visited", "notes", "result"} /\ search.visited \subseteq Ids
      /\ search.notes \in [VertexIds -> {"white", "grey", "black"}]
  BY CycleDoes, RunFacts DEF Asks, NotesTyped
<1>2. CASE Answer(TRUE)
  <2>1. search'.pc = "done" /\ SearchTyped(search')
    BY <1>2, CycleDoes, AnswerTyped DEF Asks
  <2>. QED
    BY <2>1 DEF GoesWell
<1>3. ASSUME NEW c \in {"white", "grey", "black"}
      PROVE  Coloured(search, Item.id, c) \in [VertexIds -> {"white", "grey", "black"}]
  BY <1>1 DEF Coloured
<1>4. CASE /\ search'.pc = "run" /\ DOMAIN search' = DOMAIN search
           /\ search'.visited = search.visited /\ search'.result = search.result
           /\ search'.agenda \in Seq(CallType)
           /\ search'.notes \in [VertexIds -> {"white", "grey", "black"}]
  BY <1>1, <1>4, CycleDoes
     DEF GoesWell, SearchTyped, AgendaTyped, NotesTyped, ResultTyped, Asks
<1>5. ASSUME NEW all, Lists(all, Neighbors(Item.id))
      PROVE  (Looks(all) \o Leave(Item.id)) \o Rest \in Seq(CallType)
  <2>1. all \in Seq(Ids)
    BY <1>5, ListsIds
  <2>2. Looks(all) \o Leave(Item.id) \in Seq(CallType)
    BY <2>1, LooksFacts, LeaveFacts, CycleDoes, ConcatFacts
  <2>. QED
    BY <2>2, CycleDoes, ConcatFacts
<1>6. Coloured(search, Item.id, "grey") \in [VertexIds -> {"white", "grey", "black"}]
      /\ Coloured(search, Item.id, "black") \in [VertexIds -> {"white", "grey", "black"}]
  BY <1>3
<1>7. Rest \in Seq(CallType)
  BY CycleDoes
<1>8. CASE ~Answer(TRUE)
  <2>1. /\ search'.pc = "run" /\ DOMAIN search' = DOMAIN search
        /\ search'.visited = search.visited /\ search'.result = search.result
    BY <1>8, CycleDoes
  <2>2. search'.agenda = Rest \/ \E all : /\ Lists(all, Neighbors(Item.id))
                                          /\ search'.agenda = (Looks(all) \o Leave(Item.id)) \o Rest
    BY <1>8, CycleDoes
  <2>3. search'.agenda \in Seq(CallType)
    BY <1>5, <1>7, <2>2
  <2>4. \/ search'.notes = search.notes \/ search'.notes = Coloured(search, Item.id, "grey")
        \/ search'.notes = Coloured(search, Item.id, "black")
    BY <1>8, CycleDoes
  <2>. QED
    BY <1>1, <1>4, <1>6, <2>1, <2>3, <2>4
<1>. QED
  BY <1>2, <1>8

Roots(ids) == [k \in DOMAIN ids |-> [do |-> "root", id |-> ids[k]]]

LEMMA ListVerticesDoes ==
    ASSUME Searching, ListVertices
    PROVE  /\ At("list") /\ Asks({"weighted", "cycle"})
           /\ search'.pc = "run" /\ DOMAIN search' = DOMAIN search
           /\ search'.visited = {} /\ search'.result = search.result
           /\ \/ /\ Asks({"weighted"}) /\ query.from \in Ids
                 /\ search'.agenda = <<[path |-> <<query.from>>, distance |-> 0]>>
                 /\ DOMAIN search'.notes = DOMAIN vertices \cup {query.from}
                 /\ \A id \in DOMAIN vertices \cup {query.from} :
                       search'.notes[id] = IF id = query.from THEN 0 ELSE None
              \/ /\ Asks({"cycle"})
                 /\ search'.notes = [id \in VertexIds |-> "white"]
                 /\ \E ids : Lists(ids, DOMAIN vertices) /\ search'.agenda = Roots(ids)
<1>1. /\ DOMAIN search = {"pc", "agenda", "visited", "notes", "result"} /\ search.pc = "list"
      /\ At("list") /\ search.visited = {} /\ Asks({"weighted", "cycle"})
      /\ Asks({"cycle"}) \/ query.from \in Ids
  BY DEF Searching, SearchTyped, ListVertices, At
<1>2. CASE Asks({"weighted"})
  <2> DEFINE notes == [id \in DOMAIN vertices \cup {query.from} |->
                         IF id = query.from THEN 0 ELSE None]
             agenda == <<[path |-> <<query.from>>, distance |-> 0]>>
  <2>1. search' = [search EXCEPT !.pc = "run", !.notes = notes, !.agenda = agenda]
    BY <1>2 DEF ListVertices, Go
  <2>. HIDE DEF notes, agenda
  <2>2. /\ DOMAIN search' = DOMAIN search /\ search'.pc = "run" /\ search'.agenda = agenda
        /\ search'.visited = {} /\ search'.notes = notes /\ search'.result = search.result
    BY <1>1, <2>1
  <2>3. query.from \in Ids
    BY <1>1, <1>2 DEF Asks
  <2>. QED
    BY <1>1, <1>2, <2>2, <2>3 DEF notes, agenda
<1>3. CASE ~Asks({"weighted"})
  <2> DEFINE ids == sortedKeys(DOMAIN vertices)
             notes == [id \in VertexIds |-> "white"]
             agenda == Roots(ids)
  <2>1. search' = [search EXCEPT !.pc = "run", !.notes = notes, !.agenda = agenda]
    BY <1>3 DEF ListVertices, Go, Roots
  <2>. HIDE DEF agenda
  <2>2. /\ DOMAIN search' = DOMAIN search /\ search'.pc = "run" /\ search'.agenda = agenda
        /\ search'.visited = {} /\ search'.notes = notes /\ search'.result = search.result
    BY <1>1, <2>1
  <2>3. Lists(ids, DOMAIN vertices)
    <3>1. DOMAIN vertices \subseteq Ids
      BY NowFacts DEF Searching
    <3>2. DOMAIN vertices \in SUBSET Nat /\ IsFiniteSet(DOMAIN vertices)
      BY <3>1, IdsFacts, FS_Subset DEF Searching
    <3>3. /\ ids \in Seq(DOMAIN vertices) /\ ToSet(ids) = DOMAIN vertices
          /\ \A i, j \in DOMAIN ids : ids[i] = ids[j] => i = j
      BY <3>2, SortedKeys
    <3>. HIDE DEF ids
    <3>4. ids \in Seq(Ids) /\ \A i \in DOMAIN ids : ids[i] \in DOMAIN vertices
      BY <3>1, <3>3, SeqMonotonic, ElementOfSeq
    <3>. QED
      BY <3>3, <3>4 DEF Lists, ToSet
  <2>. HIDE DEF ids
  <2>4. \E list : Lists(list, DOMAIN vertices) /\ search'.agenda = Roots(list)
    BY <2>2, <2>3 DEF agenda
  <2>. QED
    BY <1>1, <1>3, <2>2, <2>4 DEF Asks
<1>. QED
  BY <1>2, <1>3

LEMMA ListVerticesTyped ==
    ASSUME Searching, ListVertices
    PROVE  GoesWell
<1>1. /\ DOMAIN search = {"pc", "agenda", "visited", "notes", "result"} /\ search.result = <<>>
  BY DEF Searching, SearchTyped, ListVertices, At
<1>2. CASE /\ Asks({"weighted"}) /\ query.from \in Ids
           /\ search'.agenda = <<[path |-> <<query.from>>, distance |-> 0]>>
           /\ DOMAIN search'.notes = DOMAIN vertices \cup {query.from}
           /\ \A id \in DOMAIN vertices \cup {query.from} :
                 search'.notes[id] = IF id = query.from THEN 0 ELSE None
  <2>1. search'.agenda \in Seq(TripType)
    <3>1. <<query.from>> \in PathType
      BY <1>2 DEF PathType
    <3>2. [path |-> <<query.from>>, distance |-> 0] \in TripType
      BY <3>1 DEF TripType
    <3>. QED
      BY <1>2, <3>2
  <2>2. DOMAIN search'.notes \subseteq Ids
        /\ \A id \in DOMAIN search'.notes : search'.notes[id] \in Nat \cup {None}
    BY <1>2, NowFacts DEF Searching
  <2>. QED
    BY <1>1, <1>2, <2>1, <2>2, ListVerticesDoes
       DEF GoesWell, SearchTyped, AgendaTyped, NotesTyped, ResultTyped, Asks
<1>3. CASE /\ Asks({"cycle"})
           /\ search'.notes = [id \in VertexIds |-> "white"]
           /\ \E ids : Lists(ids, DOMAIN vertices) /\ search'.agenda = Roots(ids)
  <2>1. PICK ids : Lists(ids, DOMAIN vertices) /\ search'.agenda = Roots(ids)
    BY <1>3
  <2>2. ids \in Seq(Ids)
    BY <2>1, ListsIds
  <2>3. Len(ids) \in Nat /\ DOMAIN ids = 1..Len(ids) /\ \A k \in 1..Len(ids) : ids[k] \in Ids
    BY <2>2, LenProperties, ElementOfSeq
  <2>4. search'.agenda = [k \in 1..Len(ids) |-> [do |-> "root", id |-> ids[k]]]
    BY <2>1, <2>3 DEF Roots
  <2>5. \A k \in 1..Len(ids) : [do |-> "root", id |-> ids[k]] \in CallType
    BY <2>3 DEF CallType
  <2>6. search'.agenda \in [1..Len(ids) -> CallType]
    BY <2>4, <2>5
  <2>7. search'.agenda \in Seq(CallType)
    BY <2>3, <2>6
  <2>8. search'.notes \in [VertexIds -> {"white", "grey", "black"}]
    BY <1>3
  <2>. QED
    BY <1>1, <1>3, <2>7, <2>8, ListVerticesDoes
       DEF GoesWell, SearchTyped, AgendaTyped, NotesTyped, ResultTyped, Asks
<1>. QED
  BY <1>2, <1>3, ListVerticesDoes

LEMMA TraverseTyped ==
    ASSUME Searching, Traverse
    PROVE  GoesWell
BY CheckFromTyped, CheckToTyped, ListVerticesTyped, ExhaustedTyped, BFSTyped, DFSTyped, PathsTyped,
   UnweightedTyped, CycleTyped, WeightedTyped DEF Traverse

Reports == ~Asks(SearchKinds \cup {"match", "view"})

SearchInv ==
    /\ Asks(SearchKinds) => SearchTyped(search) /\ (At("failed") => SearchFails(search))
    /\ Reports => "pc" \in DOMAIN search /\ search.pc \in {"from", "done"}

LEMMA InitSearch == Init => SearchInv
<1>. SUFFICES ASSUME Init PROVE SearchInv
  OBVIOUS
<1>1. CASE Asks(SearchKinds)
  <2>1. search = NewSearch(query)
    BY <1>1 DEF Init, Asks, SearchKinds
  <2>2. /\ DOMAIN search = {"pc", "agenda", "visited", "notes", "result"}
        /\ search.pc = (IF query.kind = "cycle" THEN "list" ELSE "from")
        /\ search.visited = {} /\ search.result = <<>>
    BY <2>1 DEF NewSearch
  <2>3. SearchTyped(search)
    BY <1>1, <2>2 DEF SearchTyped, ResultTyped, Asks, SearchKinds
  <2>. QED
    BY <1>1, <2>2, <2>3 DEF SearchInv, Asks, At, SearchKinds, Reports
<1>2. CASE Reports
  <2>1. search = NewSearch(query)
    BY <1>2 DEF Init, Asks, Reports
  <2>2. "pc" \in DOMAIN search /\ search.pc = "from"
    BY <1>2, <2>1 DEF NewSearch, Asks, SearchKinds, Reports
  <2>. QED
    BY <1>2, <2>2 DEF SearchInv, Asks, SearchKinds, Reports
<1>. QED
  BY <1>1, <1>2 DEF SearchInv

(* Types and failures outlast what happens between two steps.              *)
LEMMA SearchTypedGrows ==
    ASSUME SearchTyped(search), Moves, UNCHANGED search
    PROVE  SearchTyped(search)'
<1>1. /\ Seq(VisitType) \subseteq Seq(VisitType)' /\ Seq(PathType) \subseteq Seq(PathType)'
      /\ Seq(TripType) \subseteq Seq(TripType)' /\ Seq(CallType) \subseteq Seq(CallType)'
  BY TypesGrow
<1>2. Ids \subseteq Ids' /\ query' = query
  BY DEF Moves
<1>3. (AgendaTyped(search) => AgendaTyped(search)') /\ (ResultTyped(search) => ResultTyped(search)')
  BY <1>1, <1>2 DEF AgendaTyped, ResultTyped, Asks
<1>4. NotesTyped(search) => NotesTyped(search)'
  BY <1>2 DEF NotesTyped, Asks
<1>. QED
  BY <1>2, <1>3, <1>4 DEF SearchTyped, Asks

LEMMA NextSearch ==
    ASSUME History, LabelsGiven, SearchInv, [Next]_vars
    PROVE  SearchInv'
<1>0. Moves
  BY NextMoves
<1>1. CASE Asks(SearchKinds)
  <2>1. /\ Asks(SearchKinds)' /\ query' = query
        /\ UNCHANGED vars \/ (UNCHANGED search /\ Open) \/ (Traverse /\ Reads)
    BY <1>1, SearchSteps
  <2>2. ~Reports'
    BY <2>1 DEF Asks, SearchKinds, Reports
  <2>3. CASE UNCHANGED vars
    <3>1. SearchTyped(search)'
      BY <1>0, <1>1, <2>3, SearchTypedGrows DEF SearchInv, vars
    <3>2. At("failed")' => SearchFails(search)'
      BY <1>1, <2>3 DEF SearchInv, SearchFails, vars, At, Deleted, Ids, Ends, EverIds, Ever, BadWeight
    <3>. QED
      BY <2>2, <3>1, <3>2 DEF SearchInv
  <2>4. CASE UNCHANGED search /\ Open
    <3>1. SearchTyped(search)'
      BY <1>0, <1>1, <2>4, SearchTypedGrows DEF SearchInv
    <3>. QED
      BY <2>2, <2>4, <3>1 DEF SearchInv, Open, At
  <2>5. CASE Traverse /\ Reads
    <3>1. GoesWell
      BY <1>1, <2>5, TraverseTyped DEF Searching, SearchInv
    <3>2. SearchTyped(search')
      BY <3>1 DEF GoesWell
    <3>3. Ids' = Ids /\ query' = query
      BY <2>5, ReadsSame
    <3>4. SearchTyped(search)'
      BY <3>2, <3>3 DEF SearchTyped, AgendaTyped, NotesTyped, ResultTyped, Asks,
         VisitType, PathType, TripType, CallType
    <3>5. At("failed")' => SearchFails(search)'
      BY <2>5, <3>1, ReadsSame DEF GoesWell, SearchFails, At, Ends, Reads
    <3>. QED
      BY <2>2, <3>4, <3>5 DEF SearchInv
  <2>. QED
    BY <2>1, <2>3, <2>4, <2>5
<1>2. CASE Reports
  <2>0. "pc" \in DOMAIN search /\ search.pc \in {"from", "done"} /\ ~Asks(SearchKinds)
    BY <1>2 DEF SearchInv, Asks, SearchKinds, Reports
  <2>1. ASSUME NEW r, Answer(r)
        PROVE  "pc" \in DOMAIN search' /\ search'.pc = "done"
    BY <2>0, <2>1 DEF Answer, Go
  <2>2. Handle => "pc" \in DOMAIN search' /\ search'.pc = "done"
    BY <1>2, <2>1, HandleByKind DEF Build, Quality, Asks, SearchKinds, Reports
  <2>3. Write \/ UNCHANGED vars => search' = search
    BY WriteKeeps DEF vars
  <2>4. ~\E id \in VertexIds, c \in VertexContents : LookupDuringUpdate(id, c)
    BY <1>2 DEF LookupDuringUpdate, Matching, Asks, Reports
  <2>. QED
    BY <1>0, <2>0, <2>2, <2>3, <2>4 DEF SearchInv, Next, Moves, Asks
<1>3. CASE ~Asks(SearchKinds) /\ ~Reports
  BY <1>0, <1>3 DEF SearchInv, Moves, Asks, Reports
<1>. QED
  BY <1>1, <1>2, <1>3

FailInv == MatchInv /\ ViewInv /\ LabelsGiven /\ SearchInv

LEMMA FailInvariance ==
    /\ Init => FailInv
    /\ FailInv /\ [Next]_vars => FailInv'
<1>1. Init => FailInv
  BY MatchInvariance, InitView, InitLabels, InitSearch DEF FailInv
<1>2. ASSUME FailInv, [Next]_vars
      PROVE  FailInv'
  <2>1. History /\ ViewInv /\ LabelsGiven /\ SearchInv /\ MatchInv
    BY <1>2 DEF FailInv, MatchInv
  <2>. QED
    BY <1>2, <2>1, MatchInvariance, NextView, NextLabels, NextSearch DEF FailInv
<1>. QED
  BY <1>1, <1>2

(* A query fails because a vertex it was given is not there, or one it     *)
(* came upon has been deleted, because an edge has no usable weight, or    *)
(* because RETURN names no variable of the pattern (bfs.go:16, 32,         *)
(* path.go:11, 22, 83-86, executor.go:75, 151, 166).                       *)
THEOREM QueriesFailForCause == Spec => []FailsForCause
<1>1. FailInv => FailsForCause
  <2>. SUFFICES ASSUME FailInv, At("failed") PROVE FailsForCause
    BY DEF FailsForCause
  <2>1. CASE Asks({"match"})
    <3>1. MatchFails
      BY <2>1 DEF FailInv, MatchInv, MatchSound
    <3>. QED
      BY <2>1, <3>1 DEF MatchFails, FailsForCause, Asks
  <2>2. CASE Asks(SearchKinds)
    <3>1. SearchFails(search) /\ ~Asks({"match"})
      BY <2>2 DEF FailInv, SearchInv, Asks, SearchKinds
    <3>. QED
      BY <2>2, <3>1 DEF SearchFails, FailsForCause
  <2>3. CASE Asks({"view"})
    BY <2>3 DEF FailInv, ViewInv, At
  <2>4. CASE Reports
    BY <2>4 DEF FailInv, SearchInv, At
  <2>. QED
    BY <2>1, <2>2, <2>3, <2>4 DEF Reports, Asks, SearchKinds
<1>. QED
  BY <1>1, FailInvariance, PTL DEF Spec

-----------------------------------------------------------------------------
(***************************************************************************)
(* Neighbors: level-order search.                                          *)
(***************************************************************************)

(* Under way: what has been found is in the list of visited vertices once, *)
(* no farther than the depth; what is found but not taken waits, nearest   *)
(* first; and from what has been taken every arc that stays has been       *)
(* followed.                                                               *)
Followed(s, v) ==
    v.depth < query.depth =>
        \A y : Step(Always, v.id, y) =>
                  \E j \in DOMAIN s.result : s.result[j].id = y /\ s.result[j].depth =< v.depth + 1
FoundInReach(s) ==
    \A i \in DOMAIN s.result : /\ s.result[i].depth =< query.depth
                               /\ s.result[i].id \in Reach(Ever, query.from, s.result[i].depth)
Levels(s) ==
    /\ \A i, j \in DOMAIN s.result : s.result[i].id = s.result[j].id => i = j
    /\ \A id : id \in s.visited <=> \E i \in DOMAIN s.result : s.result[i].id = id
    /\ FoundInReach(s)
    /\ \E i \in DOMAIN s.result : s.result[i].id = query.from /\ s.result[i].depth = 0
    /\ \A k \in DOMAIN s.agenda : \E i \in DOMAIN s.result : s.result[i] = s.agenda[k]
    /\ \A k, l \in DOMAIN s.agenda : k < l => s.agenda[k].depth =< s.agenda[l].depth
    /\ \A k \in DOMAIN s.agenda, i \in DOMAIN s.result : s.result[i].depth =< s.agenda[k].depth + 1
    /\ \A i \in DOMAIN s.result : (\E k \in DOMAIN s.agenda : s.agenda[k] = s.result[i])
                                  \/ Followed(s, s.result[i])

LevelsInv == Asks({"bfs"}) => (At("run") => Levels(search)) /\ LevelsBounded

LEMMA ReadsReach ==
    ASSUME Reads, NEW from, NEW n \in Nat
    PROVE  /\ Reach(Ever, from, n)' = Reach(Ever, from, n)
           /\ Reach(Always, from, n)' = Reach(Always, from, n)
BY ReadsSame DEF Reach, ArcsOf

LEMMA ReadsStep ==
    ASSUME Reads, NEW x, NEW y
    PROVE  /\ Step(Ever, x, y)' <=> Step(Ever, x, y)
           /\ Step(Always, x, y)' <=> Step(Always, x, y)
BY ReadsSame DEF Step, ArcsOf

LEMMA VisitAt ==
    ASSUME NEW s \in Seq(VisitType)
    PROVE  \A i \in DOMAIN s : s[i] \in VisitType /\ s[i].id \in Ids /\ s[i].depth \in Nat
<1>1. \A i \in DOMAIN s : s[i] \in VisitType
  BY LenProperties, ElementOfSeq
<1>. QED
  BY <1>1 DEF VisitType

LEMMA LevelsSame ==
    ASSUME Reads, Searching, Asks({"bfs"}), SearchTyped(search'), search'.pc = "run", Levels(search')
    PROVE  Levels(search)'
<1>1. query' = query
  BY ReadsSame
<1>2. search'.result \in Seq(VisitType)
  BY DEF SearchTyped, ResultTyped, Asks
<1>3. \A i \in DOMAIN search'.result : search'.result[i].depth \in Nat
  BY <1>2, VisitAt
<1>4. FoundInReach(search)'
  BY <1>1, <1>3, ReadsReach DEF Levels, FoundInReach
<1>5. \A v : Followed(search', v) => Followed(search, v)'
  BY <1>1, ReadsStep DEF Followed
<1>. QED
  BY <1>1, <1>4, <1>5 DEF Levels

LEMMA LevelsGrows ==
    ASSUME Moves, UNCHANGED search, SearchTyped(search), At("run"), Asks({"bfs"}), Levels(search)
    PROVE  Levels(search)'
<1>1. query' = query
  BY DEF Moves
<1>2. search.result \in Seq(VisitType)
  BY DEF SearchTyped, ResultTyped, Asks, At
<1>3. \A i \in DOMAIN search.result : search.result[i].depth \in Nat
  BY <1>2, VisitAt
<1>4. FoundInReach(search)'
  BY <1>1, <1>3, ReachMoves DEF Levels, FoundInReach
<1>5. \A v : Followed(search, v) => Followed(search, v)'
  BY <1>1, StepsMove DEF Followed
<1>. QED
  BY <1>1, <1>4, <1>5 DEF Levels

LEMMA LevelsBegin ==
    ASSUME Searching, Asks({"bfs"}), CheckFrom, search'.pc = "run"
    PROVE  Levels(search')
<1>0. DOMAIN search = {"pc", "agenda", "visited", "notes", "result"}
  BY DEF Searching, SearchTyped
<1>1. HasVertex(query.from)
  <2>1. ~HasVertex(query.from) => search'.pc = "failed"
    BY FailTyped DEF CheckFrom
  <2>. QED
    BY <2>1
<1> DEFINE first == Visits(<<query.from>>, 0)
           visited == {query.from}
<1>2. search' = [search EXCEPT !.pc = "run", !.agenda = first, !.visited = visited, !.result = first]
  <2>1. Asks({"bfs", "dfs"})
    BY DEF Asks
  <2>. QED
    BY <1>1, <2>1 DEF CheckFrom, Go
<1>3. DOMAIN first = {1} /\ first[1] = [id |-> query.from, depth |-> 0]
  BY DEF Visits
<1>. HIDE DEF first
<1>4. search'.agenda = first /\ search'.visited = visited /\ search'.result = first
  BY <1>0, <1>2
<1>5. query.depth \in Nat
  BY DepthGiven DEF Asks
<1>6. query.from \in Reach(Ever, query.from, 0)
  BY ReachSteps
<1>. QED
  BY <1>3, <1>4, <1>5, <1>6 DEF Levels, FoundInReach

(* What the head of the agenda leads to, put behind the rest.              *)
LEMMA LevelsStep ==
    ASSUME Searching, BFS, Levels(search), search'.pc = "run"
    PROVE  Levels(search')
<1> DEFINE a == search.agenda
           r == search.result
<1>1. /\ a \in Seq(VisitType) /\ a # <<>> /\ r \in Seq(VisitType) /\ query.depth \in Nat
      /\ Item \in VisitType /\ Rest \in Seq(VisitType) /\ Item.id \in Ids /\ Item.depth \in Nat
  BY BFSDoes
<1>2. /\ Item = a[1] /\ 1 \in DOMAIN a
      /\ \A k \in DOMAIN Rest : k \in Nat /\ k + 1 \in DOMAIN a /\ Rest[k] = a[k + 1]
      /\ \A k \in DOMAIN a : k = 1 \/ (k - 1 \in DOMAIN Rest /\ Rest[k - 1] = a[k])
  BY <1>1, TailFacts DEF Item, Rest
<1>3. /\ \A i \in DOMAIN r : r[i].id \in Ids /\ r[i].depth \in Nat
      /\ \A k \in DOMAIN a : a[k].id \in Ids /\ a[k].depth \in Nat
      /\ \A k \in DOMAIN Rest : Rest[k].id \in Ids /\ Rest[k].depth \in Nat
  BY <1>1, VisitAt
<1>4. /\ \A i, j \in DOMAIN r : r[i].id = r[j].id => i = j
      /\ \A id : id \in search.visited <=> \E i \in DOMAIN r : r[i].id = id
      /\ \A i \in DOMAIN r : r[i].depth =< query.depth /\ r[i].id \in Reach(Ever, query.from, r[i].depth)
      /\ \E i \in DOMAIN r : r[i].id = query.from /\ r[i].depth = 0
      /\ \A k \in DOMAIN a : \E i \in DOMAIN r : r[i] = a[k]
      /\ \A k, l \in DOMAIN a : k < l => a[k].depth =< a[l].depth
      /\ \A k \in DOMAIN a, i \in DOMAIN r : r[i].depth =< a[k].depth + 1
      /\ \A i \in DOMAIN r : (\E k \in DOMAIN a : a[k] = r[i]) \/ Followed(search, r[i])
  BY DEF Levels, FoundInReach
<1>5. /\ \A k \in DOMAIN Rest : \E i \in DOMAIN r : r[i] = Rest[k]
      /\ \A k, l \in DOMAIN Rest : k < l => Rest[k].depth =< Rest[l].depth
      /\ \A k \in DOMAIN Rest, i \in DOMAIN r : r[i].depth =< Rest[k].depth + 1
      /\ \A k \in DOMAIN Rest : Item.depth =< Rest[k].depth /\ Rest[k].depth =< Item.depth + 1
      /\ \A i \in DOMAIN r : (\E k \in DOMAIN Rest : Rest[k] = r[i]) \/ r[i] = Item \/ Followed(search, r[i])
  <2>1. \A k \in DOMAIN Rest : \E i \in DOMAIN r : r[i] = Rest[k]
    BY <1>2, <1>4
  <2>2. \A k, l \in DOMAIN Rest : k < l => Rest[k].depth =< Rest[l].depth
    BY <1>2, <1>4
  <2>3. \A k \in DOMAIN Rest, i \in DOMAIN r : r[i].depth =< Rest[k].depth + 1
    BY <1>2, <1>4
  <2>4. ASSUME NEW k \in DOMAIN Rest
        PROVE  Item.depth =< Rest[k].depth /\ Rest[k].depth =< Item.depth + 1
    <3>1. k \in 1..Len(Rest) /\ k + 1 \in DOMAIN a /\ 1 < k + 1
      BY <1>1, <1>2, LenProperties
    <3>2. Item.depth =< Rest[k].depth
      BY <1>2, <1>4, <3>1
    <3>3. PICK i \in DOMAIN r : r[i] = Rest[k]
      BY <2>1
    <3>. QED
      BY <1>2, <1>4, <3>2, <3>3
  <2>5. \A i \in DOMAIN r : (\E k \in DOMAIN Rest : Rest[k] = r[i]) \/ r[i] = Item \/ Followed(search, r[i])
    BY <1>2, <1>4
  <2>. QED
    BY <2>1, <2>2, <2>3, <2>4, <2>5
<1>. HIDE DEF a
<1>6. CASE /\ Item.depth >= query.depth /\ search'.agenda = Rest
           /\ search'.visited = search.visited /\ search'.result = r
  <2>1. \A i \in DOMAIN r : (\E k \in DOMAIN Rest : Rest[k] = r[i]) \/ Followed(search', r[i])
    <3>1. ~(Item.depth < query.depth)
      BY <1>1, <1>6
    <3>. QED
      BY <1>5, <1>6, <3>1 DEF Followed
  <2>. QED
    BY <1>4, <1>5, <1>6, <2>1 DEF Levels, FoundInReach
<1>7. ASSUME Item.depth < query.depth, NEW new, Lists(new, Neighbors(Item.id) \ search.visited),
             search'.agenda = Rest \o Visits(new, Item.depth + 1),
             search'.visited = search.visited \cup ToSet(new),
             search'.result = r \o Visits(new, Item.depth + 1)
      PROVE  Levels(search')
  <2> DEFINE found == Visits(new, Item.depth + 1)
             b == Rest \o found
             t == r \o found
  <2>1. new \in Seq(Ids) /\ ToSet(new) = Neighbors(Item.id) \ search.visited /\ Item.depth + 1 \in Nat
    BY <1>1, <1>7, ListsIds
  <2>2. /\ found \in Seq(VisitType) /\ DOMAIN found = DOMAIN new
        /\ \A k \in DOMAIN found : found[k].id = new[k] /\ found[k].depth = Item.depth + 1
    <3>1. /\ found \in Seq(VisitType) /\ DOMAIN found = DOMAIN new
          /\ \A k \in DOMAIN new : found[k] = [id |-> new[k], depth |-> Item.depth + 1]
      BY <2>1, VisitsFacts
    <3>. HIDE DEF found
    <3>. QED
      BY <3>1
  <2>3. /\ \A i, j \in DOMAIN new : new[i] = new[j] => i = j
        /\ \A k \in DOMAIN new : new[k] \in Neighbors(Item.id) /\ new[k] \notin search.visited
        /\ \A y \in Neighbors(Item.id) \ search.visited : \E k \in DOMAIN new : new[k] = y
    BY <1>7 DEF Lists
  <2>. HIDE DEF found
  <2>4. Joined(t, r, found) /\ Joined(b, Rest, found)
    BY <1>1, <2>2, Joins
  <2>6. t = search'.result /\ b = search'.agenda
    BY <1>7 DEF found
  <2>. HIDE DEF t, b, r
  <2>7. \A i \in DOMAIN t : \/ i \in DOMAIN r /\ t[i] = r[i]
                            \/ \E k \in DOMAIN found : i = Len(r) + k /\ t[i] = found[k]
    BY <2>4 DEF Joined
  <2>8. \A i \in DOMAIN b : \/ i \in DOMAIN Rest /\ b[i] = Rest[i]
                            \/ \E k \in DOMAIN found : i = Len(Rest) + k /\ b[i] = found[k]
    BY <2>4 DEF Joined
  <2>5. /\ \A i \in DOMAIN r : i \in DOMAIN t /\ t[i] = r[i]
        /\ \A k \in DOMAIN found : Len(r) + k \in DOMAIN t /\ t[Len(r) + k] = found[k]
        /\ \A k \in DOMAIN Rest : k \in DOMAIN b /\ b[k] = Rest[k]
        /\ \A k \in DOMAIN found : Len(Rest) + k \in DOMAIN b /\ b[Len(Rest) + k] = found[k]
    BY <2>4 DEF Joined
  <2>9. \A i, j \in DOMAIN t : t[i].id = t[j].id => i = j
    BY <1>4, <2>2, <2>3, <2>7
  <2>10. \A id : id \in search'.visited <=> \E i \in DOMAIN t : t[i].id = id
    <3>1. \A id : id \in search'.visited <=> id \in search.visited \/ \E k \in DOMAIN found : new[k] = id
      BY <1>7, <2>1, <2>2, <2>3
    <3>2. ASSUME NEW id, id \in search'.visited
          PROVE  \E i \in DOMAIN t : t[i].id = id
      <4>1. CASE id \in search.visited
        BY <1>4, <2>5, <4>1
      <4>2. CASE \E k \in DOMAIN found : new[k] = id
        BY <2>2, <2>5, <4>2
      <4>. QED
        BY <3>1, <3>2, <4>1, <4>2
    <3>3. ASSUME NEW i \in DOMAIN t
          PROVE  t[i].id \in search'.visited
      BY <1>4, <2>2, <2>7, <3>1
    <3>. QED
      BY <3>2, <3>3
  <2>11. \A i \in DOMAIN t : t[i].depth =< query.depth /\ t[i].id \in Reach(Ever, query.from, t[i].depth)
    <3>1. ASSUME NEW k \in DOMAIN found
          PROVE  found[k].depth =< query.depth /\ found[k].id \in Reach(Ever, query.from, found[k].depth)
      <4>1. Step(Ever, Item.id, new[k])
        BY <2>2, <2>3, NeighborsAreSteps, StepsBetween DEF Searching
      <4>2. Item.id \in Reach(Ever, query.from, Item.depth)
        BY <1>2, <1>4
      <4>3. new[k] \in Reach(Ever, query.from, Item.depth + 1)
        BY <1>1, <4>1, <4>2, ReachMore
      <4>. QED
        BY <1>1, <1>7, <2>2, <4>3
    <3>. QED
      BY <1>4, <2>7, <3>1
  <2>12. \E i \in DOMAIN t : t[i].id = query.from /\ t[i].depth = 0
    BY <1>4, <2>5
  <2>13. \A k \in DOMAIN b : \E i \in DOMAIN t : t[i] = b[k]
    BY <1>5, <2>5, <2>8
  <2>14. \A k, l \in DOMAIN b : k < l => b[k].depth =< b[l].depth
    <3>. SUFFICES ASSUME NEW k \in DOMAIN b, NEW l \in DOMAIN b, k < l
                  PROVE  b[k].depth =< b[l].depth
      OBVIOUS
    <3>1. CASE k \in DOMAIN Rest /\ l \in DOMAIN Rest
      BY <1>5, <2>5, <3>1
    <3>2. CASE l \notin DOMAIN Rest
      <4>1. b[l].depth = Item.depth + 1
        BY <2>2, <2>8, <3>2
      <4>2. b[k].depth =< Item.depth + 1
        BY <1>1, <1>5, <2>2, <2>8
      <4>. QED
        BY <4>1, <4>2
    <3>3. CASE k \notin DOMAIN Rest /\ l \in DOMAIN Rest
      <4>1. PICK m \in DOMAIN found : k = Len(Rest) + m
        BY <2>8, <3>3
      <4>2. m \in Nat /\ 1 =< m /\ l \in Nat /\ l =< Len(Rest) /\ Len(Rest) \in Nat
        BY <2>4, <3>3, <4>1 DEF Joined
      <4>. QED
        BY <4>1, <4>2
    <3>. QED
      BY <3>1, <3>2, <3>3
  <2>15. \A k \in DOMAIN b, i \in DOMAIN t : t[i].depth =< b[k].depth + 1
    <3>. SUFFICES ASSUME NEW k \in DOMAIN b, NEW i \in DOMAIN t
                  PROVE  t[i].depth =< b[k].depth + 1
      OBVIOUS
    <3>1. \A j \in DOMAIN r : r[j].depth \in Nat /\ r[j].depth =< Item.depth + 1
      BY <1>2, <1>3, <1>4
    <3>2. t[i].depth \in Nat /\ t[i].depth =< Item.depth + 1
      BY <1>1, <2>2, <2>7, <3>1
    <3>3. b[k].depth \in Nat /\ Item.depth =< b[k].depth
      BY <1>1, <1>3, <1>5, <2>2, <2>8
    <3>. QED
      BY <1>1, <3>2, <3>3
  <2>16. ASSUME NEW v, Followed(search, v)
         PROVE  Followed(search', v)
    BY <2>16, <2>5, <2>6 DEF Followed, r
  <2>17. Followed(search', Item)
    <3>. SUFFICES ASSUME NEW y, Step(Always, Item.id, y)
                  PROVE  \E j \in DOMAIN t : t[j].id = y /\ t[j].depth =< Item.depth + 1
      BY <2>6 DEF Followed
    <3>1. y \in Neighbors(Item.id)
      BY NeighborsAreSteps, StepsBetween DEF Searching
    <3>2. CASE y \in search.visited
      <4>1. PICK i \in DOMAIN r : r[i].id = y
        BY <1>4, <3>2
      <4>2. r[i].depth =< Item.depth + 1
        BY <1>2, <1>4
      <4>. QED
        BY <2>5, <4>1, <4>2
    <3>3. CASE y \notin search.visited
      <4>1. PICK k \in DOMAIN found : new[k] = y
        BY <2>2, <2>3, <3>1, <3>3
      <4>2. found[k].depth =< Item.depth + 1
        BY <1>1, <2>2
      <4>. QED
        BY <2>2, <2>5, <4>1, <4>2
    <3>. QED
      BY <3>2, <3>3
  <2>18. \A i \in DOMAIN t : (\E k \in DOMAIN b : b[k] = t[i]) \/ Followed(search', t[i])
    <3>1. \A k \in DOMAIN found : \E l \in DOMAIN b : b[l] = found[k]
      BY <2>5
    <3>2. \A i \in DOMAIN r : (\E k \in DOMAIN b : b[k] = r[i]) \/ Followed(search', r[i])
      BY <1>5, <2>5, <2>16, <2>17
    <3>. QED
      BY <2>7, <3>1, <3>2
  <2>. QED
    BY <2>6, <2>9, <2>10, <2>11, <2>12, <2>13, <2>14, <2>15, <2>18 DEF Levels, FoundInReach
<1>8. ~Fail("vertex")
  BY FailTyped
<1>. QED
  BY <1>6, <1>7, <1>8, BFSDoes

(* The agenda used up: all arcs that stay have been followed.              *)
LEMMA LevelsEnd ==
    ASSUME Searching, Asks({"bfs"}), At("run"), Levels(search), search.agenda = <<>>
    PROVE  LET found == search.result
           IN  /\ \A i, j \in DOMAIN found : found[i].id = found[j].id => i = j
               /\ \A i \in DOMAIN found : /\ found[i].depth =< query.depth
                                          /\ found[i].id \in Reach(Ever, query.from, found[i].depth)
               /\ \A n \in 0..query.depth : \A id \in Reach(Always, query.from, n) :
                     \E i \in DOMAIN found : found[i].id = id /\ found[i].depth =< n
<1> DEFINE r == search.result
           Reached(n) == \A id \in Reach(Always, query.from, n) :
                            \E i \in DOMAIN r : r[i].id = id /\ r[i].depth =< n
           T == {n \in Nat : n =< query.depth => Reached(n)}
<1>1. r \in Seq(VisitType) /\ query.depth \in Nat
  BY RunFacts, DepthGiven DEF ResultTyped, Asks
<1>2. \A i \in DOMAIN r : r[i].depth \in Nat
  BY <1>1, VisitAt
<1>3. \A i \in DOMAIN r : Followed(search, r[i])
  BY DEF Levels
<1>4. 0 \in T
  BY ReachSteps DEF Levels
<1>5. ASSUME NEW n \in Nat, n \in T
      PROVE  n + 1 \in T
  <2>. SUFFICES ASSUME n + 1 =< query.depth, NEW id \in Reach(Always, query.from, n + 1)
                PROVE  \E i \in DOMAIN r : r[i].id = id /\ r[i].depth =< n + 1
    OBVIOUS
  <2>0. Reached(n) /\ n < query.depth
    BY <1>1, <1>5
  <2>1. CASE id \in Reach(Always, query.from, n)
    <3>1. PICK i \in DOMAIN r : r[i].id = id /\ r[i].depth =< n
      BY <2>0, <2>1
    <3>. QED
      BY <1>2, <3>1
  <2>2. CASE \E x \in Reach(Always, query.from, n) : Step(Always, x, id)
    <3>1. PICK x \in Reach(Always, query.from, n) : Step(Always, x, id)
      BY <2>2
    <3>2. PICK i \in DOMAIN r : r[i].id = x /\ r[i].depth =< n
      BY <2>0
    <3>3. r[i].depth \in Nat /\ r[i].depth < query.depth
      BY <1>1, <1>2, <2>0, <3>2
    <3>4. PICK j \in DOMAIN r : r[j].id = id /\ r[j].depth =< r[i].depth + 1
      BY <1>3, <3>1, <3>2, <3>3 DEF Followed
    <3>5. r[j].depth =< n + 1
      BY <1>2, <3>2, <3>3, <3>4
    <3>. QED
      BY <3>4, <3>5
  <2>. QED
    BY <2>1, <2>2, ReachMore
<1>6. Nat \subseteq T
  <2>. HIDE DEF T
  <2>. QED
    BY <1>4, <1>5, NatsWithin
<1>7. \A n \in 0..query.depth : Reached(n)
  BY <1>1, <1>6
<1>. HIDE DEF Reached
<1>8. \A n \in 0..query.depth : \A id \in Reach(Always, query.from, n) :
          \E i \in DOMAIN r : r[i].id = id /\ r[i].depth =< n
  BY <1>7 DEF Reached
<1>. QED
  BY <1>8 DEF Levels, FoundInReach

(* No step follows the answer.                                             *)
LEMMA DoneStays ==
    ASSUME Asks(SearchKinds), ~Open, [Next]_vars
    PROVE  UNCHANGED vars
<1>1. ~Traverse
  BY DEF Traverse, CheckFrom, CheckTo, ListVertices, Exhausted, BFS, DFS, AllSimplePaths,
     ShortestUnweighted, HasCycle, ShortestWeighted, Working, Open, At
<1>2. ~Handle
  BY <1>1, HandleByKind DEF Asks, SearchKinds
<1>3. ~Write
  BY WriteKeeps
<1>4. ~\E id \in VertexIds, c \in VertexContents : LookupDuringUpdate(id, c)
  BY DEF LookupDuringUpdate, Matching, Asks, SearchKinds
<1>. QED
  BY <1>2, <1>3, <1>4 DEF Next

(* One step of a program with a search: over, among others, or its own.    *)
LEMMA SearchCases ==
    ASSUME Searching, [Next]_vars
    PROVE  /\ Moves /\ query' = query
           /\ \/ ~Open /\ Reads /\ search' = search /\ SearchTyped(search')
              \/ Open /\ search' = search
              \/ Traverse /\ Reads /\ GoesWell
<1>1. CASE ~Open
  <2>1. UNCHANGED vars
    BY <1>1, DoneStays DEF Searching
  <2>. QED
    BY <1>1, <2>1, SearchSteps DEF Searching, vars, Reads
<1>2. CASE Open
  <2>1. CASE UNCHANGED vars
    BY <1>2, <2>1, SearchSteps DEF Searching, vars
  <2>. QED
    BY <1>2, <2>1, SearchSteps, TraverseTyped DEF Searching
<1>. QED
  BY <1>1, <1>2

NoneMissing(s) ==
    \A n \in 0..query.depth : \A id \in Reach(Always, query.from, n) :
        \E i \in DOMAIN s.result : s.result[i].id = id /\ s.result[i].depth =< n
LevelsAnswer(s) ==
    /\ \A i, j \in DOMAIN s.result : s.result[i].id = s.result[j].id => i = j
    /\ FoundInReach(s) /\ NoneMissing(s)

LEMMA LevelsAnswerSame ==
    ASSUME Reads, Searching, Asks({"bfs"}), SearchTyped(search'), search'.pc = "done",
           LevelsAnswer(search')
    PROVE  LevelsBounded'
<1>1. query' = query /\ query.depth \in Nat
  BY ReadsSame, DepthGiven DEF Asks
<1>2. search'.result \in Seq(VisitType)
  BY DEF SearchTyped, ResultTyped, Asks
<1>3. \A i \in DOMAIN search'.result : search'.result[i].depth \in Nat
  BY <1>2, VisitAt
<1>4. FoundInReach(search)'
  BY <1>1, <1>3, ReadsReach DEF FoundInReach, LevelsAnswer
<1>5. NoneMissing(search)'
  BY <1>1, ReadsReach DEF NoneMissing, LevelsAnswer
<1>. QED
  BY <1>1, <1>4, <1>5 DEF LevelsBounded, LevelsAnswer, FoundInReach, NoneMissing

LEMMA NextLevels ==
    ASSUME Searching, LevelsInv, [Next]_vars
    PROVE  LevelsInv'
<1>. SUFFICES ASSUME Asks({"bfs"})
              PROVE  (At("run")' => Levels(search)') /\ LevelsBounded'
  BY SearchCases DEF LevelsInv, Asks
<1>0. query' = query
  BY SearchCases
<1>1. CASE ~Open /\ Reads /\ search' = search /\ SearchTyped(search')
  <2>1. At("done") => LevelsAnswer(search')
    BY <1>1 DEF LevelsInv, LevelsBounded, Answered, LevelsAnswer, FoundInReach, NoneMissing
  <2>2. ~At("done") => LevelsBounded'
    BY <1>0, <1>1 DEF LevelsBounded, Answered, At
  <2>. QED
    BY <1>1, <2>1, <2>2, LevelsAnswerSame DEF Open, At
<1>2. CASE Open /\ search' = search
  <2>1. At("run") => Levels(search)'
    BY <1>2, SearchCases, LevelsGrows DEF LevelsInv, Searching
  <2>. QED
    BY <1>2, <2>1 DEF LevelsBounded, Answered, At, Open
<1>3. CASE Traverse /\ Reads /\ GoesWell
  <2>0. SearchTyped(search')
    BY <1>3 DEF GoesWell
  <2>1. CASE search'.pc = "run"
    <3>1. CheckFrom \/ BFS
      <4>1. ~Exhausted
        BY <2>1, ExhaustedTyped
      <4>2. ~CheckTo
        BY DEF CheckTo, Searching, SearchTyped, At, Asks
      <4>. QED
        BY <1>3, <4>1, <4>2 DEF Traverse, Asks, ListVertices, DFS, AllSimplePaths, ShortestUnweighted,
           HasCycle, Working
    <3>2. BFS => Levels(search)
      BY BFSDoes DEF LevelsInv
    <3>3. Levels(search')
      BY <2>1, <3>1, <3>2, LevelsBegin, LevelsStep
    <3>4. Levels(search)'
      BY <1>3, <2>0, <2>1, <3>3, LevelsSame
    <3>. QED
      BY <2>1, <3>4 DEF LevelsBounded, Answered, At
  <2>2. CASE search'.pc = "done"
    <3>1. Exhausted
      <4>1. ~CheckTo
        BY DEF CheckTo, Searching, SearchTyped, At, Asks
      <4>2. ~BFS
        BY <2>2, BFSDoes, FailTyped
      <4>3. ~CheckFrom
        <5>1. CheckFrom => search'.pc # "done"
          <6>0. DOMAIN search = {"pc", "agenda", "visited", "notes", "result"}
            BY DEF Searching, SearchTyped
          <6>. QED
            BY <6>0, FailTyped DEF CheckFrom, Go
        <5>. QED
          BY <2>2, <5>1
      <4>. QED
        BY <1>3, <4>1, <4>2, <4>3 DEF Traverse, Asks, ListVertices, DFS, AllSimplePaths,
           ShortestUnweighted, HasCycle, Working
    <3>2. Answer(search.result) /\ At("run") /\ search.agenda = <<>>
      BY <3>1 DEF Exhausted, Asks
    <3>3. search'.result = search.result
      BY <3>2, AnswerTyped DEF Answer, Go, Searching, SearchTyped
    <3>4. LevelsAnswer(search')
      BY <3>2, <3>3, LevelsEnd DEF LevelsInv, LevelsAnswer, FoundInReach, NoneMissing
    <3>. QED
      BY <1>3, <2>0, <2>2, <3>4, LevelsAnswerSame DEF At
  <2>3. CASE search'.pc \notin {"run", "done"}
    BY <2>3 DEF LevelsBounded, Answered, At
  <2>. QED
    BY <2>1, <2>2, <2>3
<1>. QED
  BY <1>1, <1>2, <1>3, SearchCases

LEMMA FailInvSearching ==
    ASSUME FailInv, [Next]_vars
    PROVE  query' = query /\ (Asks(SearchKinds) => Searching)
BY NextMoves DEF FailInv, MatchInv, SearchInv, Searching, Moves

(* Level-order search finds every vertex once, no nearer than the edges of *)
(* the whole time allow and no farther than those that stayed, and misses  *)
(* none within the depth (bfs.go:25-45).                                   *)
THEOREM LevelsAreBounded == Spec => []LevelsBounded
<1>1. Init => FailInv /\ LevelsInv
  <2>. SUFFICES ASSUME Init, Asks({"bfs"}) PROVE ~At("run") /\ ~At("done")
    BY FailInvariance DEF LevelsInv, LevelsBounded, Answered
  <2>1. search = NewSearch(query) /\ query.kind = "bfs"
    BY DEF Init, Asks
  <2>. QED
    BY <2>1 DEF NewSearch, At
<1>2. FailInv /\ LevelsInv /\ [Next]_vars => (FailInv /\ LevelsInv)'
  <2>. SUFFICES ASSUME FailInv, LevelsInv, [Next]_vars PROVE LevelsInv'
    BY FailInvariance
  <2>1. CASE Asks({"bfs"})
    BY <2>1, FailInvSearching, NextLevels DEF Asks, SearchKinds
  <2>2. CASE ~Asks({"bfs"})
    BY <2>2, FailInvSearching DEF LevelsInv, Asks
  <2>. QED
    BY <2>1, <2>2
<1>3. LevelsInv => LevelsBounded
  BY DEF LevelsInv, LevelsBounded, Answered, Asks
<1>. QED
  BY <1>1, <1>2, <1>3, FailInvariance, PTL DEF Spec

-----------------------------------------------------------------------------
(***************************************************************************)
(* Paths.                                                                  *)
(***************************************************************************)

(* A path from the vertex the search starts with, no vertex twice, along   *)
(* the arcs of es; and one that leads to the other vertex and stays.       *)
Simple(es, p) ==
    /\ p[1] = query.from
    /\ \A i, j \in 1..Len(p) : p[i] = p[j] => i = j
    /\ \A i \in 1..(Len(p) - 1) : Step(es, p[i], p[i + 1])
Staying(p) == p \in Seq(VertexIds) /\ p # <<>> /\ Simple(Always, p) /\ Last(p) = query.to
Prefix(p, q) == Len(p) =< Len(q) /\ \A i \in 1..Len(p) : p[i] = q[i]

LEMMA StayingTyped ==
    ASSUME Searching, query.from \in Ids, NEW p, Staying(p)
    PROVE  p \in PathType
<1>1. p \in Seq(VertexIds) /\ p # <<>> /\ Simple(Always, p)
  BY DEF Staying
<1>2. Len(p) \in Nat /\ DOMAIN p = 1..Len(p) /\ Len(p) # 0
  BY <1>1, LenProperties, EmptySeq
<1>3. ASSUME NEW i \in 1..Len(p)
      PROVE  p[i] \in Ids
  <2>1. CASE i = 1
    BY <1>1, <2>1 DEF Simple
  <2>2. CASE i # 1
    <3>1. i - 1 \in 1..(Len(p) - 1) /\ (i - 1) + 1 = i
      BY <1>2, <2>2
    <3>2. Step(Always, p[i - 1], p[i])
      BY <1>1, <3>1 DEF Simple
    <3>. QED
      BY <3>2, StepsBetween DEF Searching
  <2>. QED
    BY <2>1, <2>2
<1>4. p = [i \in 1..Len(p) |-> p[i]]
  BY <1>1, <1>2
<1>5. p \in [1..Len(p) -> Ids]
  BY <1>3, <1>4
<1>6. p \in Seq(Ids)
  BY <1>2, <1>5
<1>. QED
  BY <1>1, <1>6 DEF PathType

LEMMA AppendPath ==
    ASSUME NEW p \in PathType, NEW y \in Ids
    PROVE  LET q == Append(p, y)
           IN  /\ q \in PathType /\ Len(q) = Len(p) + 1 /\ Len(p) \in Nat /\ Len(p) >= 1
               /\ \A i \in 1..Len(p) : q[i] = p[i]
               /\ q[Len(p) + 1] = y /\ Last(q) = y /\ Last(p) = p[Len(p)] /\ Prefix(p, q)
<1> DEFINE q == Append(p, y)
<1>1. p \in Seq(Ids) /\ p # <<>> /\ Len(p) \in Nat /\ Len(p) >= 1 /\ Last(p) = p[Len(p)]
  BY LastFacts DEF PathType
<1>2. /\ q \in Seq(Ids) /\ Len(q) = Len(p) + 1 /\ q # <<>>
      /\ \A i \in 1..Len(p) : q[i] = p[i]
      /\ q[Len(p) + 1] = y
  BY <1>1, AppendProperties
<1>. HIDE DEF q
<1>3. Last(q) = y
  BY <1>2 DEF Last
<1>4. Prefix(p, q)
  BY <1>1, <1>2 DEF Prefix
<1>. QED
  BY <1>1, <1>2, <1>3, <1>4 DEF PathType, q

LEMMA SimpleExtends ==
    ASSUME NEW es, NEW p \in PathType, NEW y \in Ids, Simple(es, p), Step(es, Last(p), y),
           \A i \in 1..Len(p) : p[i] # y
    PROVE  Simple(es, Append(p, y))
<1> DEFINE q == Append(p, y)
<1>1. /\ q \in PathType /\ Len(q) = Len(p) + 1 /\ Len(p) \in Nat /\ Len(p) >= 1
      /\ \A i \in 1..Len(p) : q[i] = p[i]
      /\ q[Len(p) + 1] = y /\ Last(p) = p[Len(p)]
  BY AppendPath
<1>. HIDE DEF q
<1>2. q[1] = query.from
  BY <1>1 DEF Simple
<1>3. ASSUME NEW i \in 1..Len(q), NEW j \in 1..Len(q), q[i] = q[j]
      PROVE  i = j
  <2>1. i \in 1..Len(p) \/ i = Len(p) + 1
    BY <1>1
  <2>2. j \in 1..Len(p) \/ j = Len(p) + 1
    BY <1>1
  <2>. QED
    BY <1>1, <1>3, <2>1, <2>2 DEF Simple
<1>4. ASSUME NEW i \in 1..(Len(q) - 1)
      PROVE  Step(es, q[i], q[i + 1])
  <2>1. CASE i = Len(p)
    BY <1>1, <2>1
  <2>2. CASE i # Len(p)
    <3>1. i \in 1..(Len(p) - 1) /\ i \in 1..Len(p) /\ i + 1 \in 1..Len(p)
      BY <1>1, <2>2
    <3>. QED
      BY <1>1, <3>1 DEF Simple
  <2>. QED
    BY <2>1, <2>2
<1>. QED
  BY <1>2, <1>3, <1>4 DEF Simple, q

(* Two paths, one the beginning of the other.                              *)
LEMMA PrefixFacts ==
    ASSUME NEW p \in PathType, NEW q \in PathType, NEW y \in Ids
    PROVE  /\ Prefix(p, p)
           /\ Prefix(p, q) /\ Len(p) = Len(q) => p = q
           /\ Prefix(Append(p, y), q) => Prefix(p, q)
           /\ Prefix(q, Append(p, y)) => Prefix(q, p) \/ Prefix(p, q)
<1>1. /\ Len(p) \in Nat /\ Len(q) \in Nat /\ DOMAIN p = 1..Len(p) /\ DOMAIN q = 1..Len(q)
      /\ p \in Seq(Ids) /\ q \in Seq(Ids)
  BY LastFacts
<1> DEFINE e == Append(p, y)
<1>2. Len(e) = Len(p) + 1 /\ \A i \in 1..Len(p) : e[i] = p[i]
  BY AppendPath
<1>. HIDE DEF e
<1>3. Prefix(p, p)
  BY <1>1 DEF Prefix
<1>4. ASSUME Prefix(p, q), Len(p) = Len(q)
      PROVE  p = q
  <2>1. \A i \in 1..Len(p) : p[i] = q[i]
    BY <1>4 DEF Prefix
  <2>2. p = [i \in 1..Len(p) |-> p[i]] /\ q = [i \in 1..Len(p) |-> q[i]]
    BY <1>1, <1>4
  <2>. QED
    BY <2>1, <2>2
<1>5. Prefix(e, q) => Prefix(p, q)
  BY <1>1, <1>2 DEF Prefix
<1>6. ASSUME Prefix(q, e)
      PROVE  Prefix(q, p) \/ Prefix(p, q)
  <2>1. Len(q) =< Len(p) + 1 /\ \A i \in 1..Len(q) : q[i] = e[i]
    BY <1>2, <1>6 DEF Prefix
  <2>2. CASE Len(q) =< Len(p)
    <3>1. \A i \in 1..Len(q) : q[i] = p[i]
      BY <1>1, <1>2, <2>1, <2>2
    <3>. QED
      BY <2>2, <3>1 DEF Prefix
  <2>3. CASE Len(q) = Len(p) + 1
    <3>1. \A i \in 1..Len(p) : p[i] = q[i]
      BY <1>1, <1>2, <2>1, <2>3
    <3>2. Len(p) =< Len(q)
      BY <1>1, <2>3
    <3>. QED
      BY <3>1, <3>2 DEF Prefix
  <2>4. Len(q) =< Len(p) \/ Len(q) = Len(p) + 1
    <3>1. Len(q) =< Len(p) + 1
      BY <2>1
    <3>2. Len(q) \in Nat /\ Len(p) \in Nat
      BY <1>1
    <3>. QED
      BY <3>1, <3>2
  <2>. QED
    BY <2>2, <2>3, <2>4
<1>. QED
  BY <1>3, <1>4, <1>5, <1>6 DEF e

LEMMA SimplePathsFacts ==
    ASSUME Searching, query.from \in Ids, NEW n \in Nat
    PROVE  /\ \A p \in SimplePaths(Always, query.from, query.to, n) : Staying(p) /\ Len(p) =< n + 1
           /\ \A p \in PathType : Simple(Ever, p) /\ Last(p) = query.to /\ Len(p) =< n + 1
                                    => p \in SimplePaths(Ever, query.from, query.to, n)
<1>1. ASSUME NEW p \in SimplePaths(Always, query.from, query.to, n)
      PROVE  Staying(p) /\ Len(p) =< n + 1
  <2>1. /\ p[1] = query.from /\ Last(p) = query.to /\ IsInjective(p)
        /\ \A i \in 1..(Len(p) - 1) : <<p[i], p[i + 1]>> \in ArcsOf(Always)
        /\ p \in UNION {[1..k -> VertexIds] : k \in 1..(n + 1)}
    BY DEF SimplePaths
  <2>2. PICK k \in 1..(n + 1) : p \in [1..k -> VertexIds]
    BY <2>1
  <2>3. p \in Seq(VertexIds) /\ Len(p) = k /\ DOMAIN p = 1..k /\ k \in Nat /\ k =< n + 1 /\ k # 0
    BY <2>2
  <2>4. p # <<>>
    BY <2>3
  <2>5. Simple(Always, p)
    BY <2>1, <2>3 DEF Simple, Step, IsInjective
  <2>. QED
    BY <2>1, <2>3, <2>4, <2>5 DEF Staying
<1>2. ASSUME NEW p \in PathType, Simple(Ever, p), Last(p) = query.to, Len(p) =< n + 1
      PROVE  p \in SimplePaths(Ever, query.from, query.to, n)
  <2>1. Len(p) \in 1..(n + 1) /\ DOMAIN p = 1..Len(p) /\ p \in Seq(Ids) /\ \A i \in 1..Len(p) : p[i] \in VertexIds
    BY <1>2, LastFacts, IdsFacts DEF Searching
  <2>2. p = [i \in 1..Len(p) |-> p[i]]
    BY <2>1
  <2>3. p \in [1..Len(p) -> VertexIds]
    BY <2>1, <2>2
  <2>4. p \in UNION {[1..k -> VertexIds] : k \in 1..(n + 1)}
    BY <2>1, <2>3
  <2>5. IsInjective(p) /\ \A i \in 1..(Len(p) - 1) : <<p[i], p[i + 1]>> \in ArcsOf(Ever)
    BY <1>2, <2>1 DEF Simple, Step, IsInjective
  <2>6. p[1] = query.from
    BY <1>2 DEF Simple
  <2>. QED
    BY <1>2, <2>4, <2>5, <2>6 DEF SimplePaths
<1>. QED
  BY <1>1, <1>2

LEMMA SimpleMoves ==
    ASSUME Moves, NEW p
    PROVE  /\ Simple(Ever, p) => Simple(Ever, p)'
           /\ Staying(p)' => Staying(p)
BY StepsMove DEF Simple, Staying, Moves

LEMMA ReadsSimple ==
    ASSUME Reads, NEW p
    PROVE  /\ Simple(Ever, p)' <=> Simple(Ever, p)
           /\ Staying(p)' <=> Staying(p)
BY ReadsStep, ReadsSame DEF Simple, Staying

LEMMA ReadsPaths ==
    ASSUME Reads, NEW from, NEW to, NEW n
    PROVE  /\ SimplePaths(Ever, from, to, n)' = SimplePaths(Ever, from, to, n)
           /\ SimplePaths(Always, from, to, n)' = SimplePaths(Always, from, to, n)
BY ReadsSame DEF SimplePaths, ArcsOf

(* Under way: no path begins another, and every path that stays has been   *)
(* listed or goes on from one that waits.                                  *)
Sound(s) ==
    /\ \A k \in DOMAIN s.agenda : Simple(Ever, s.agenda[k]) /\ Len(s.agenda[k]) =< query.depth + 1
    /\ \A i \in DOMAIN s.result : /\ Simple(Ever, s.result[i]) /\ Len(s.result[i]) =< query.depth + 1
                                  /\ Last(s.result[i]) = query.to
Apart(s) ==
    /\ \A k, l \in DOMAIN s.agenda : Prefix(s.agenda[k], s.agenda[l]) => k = l
    /\ \A k \in DOMAIN s.agenda, i \in DOMAIN s.result : ~Prefix(s.agenda[k], s.result[i])
    /\ \A i, j \in DOMAIN s.result : s.result[i] = s.result[j] => i = j
ListedOrAhead(s) ==
    \A p : Staying(p) /\ Len(p) =< query.depth + 1 =>
              \/ \E i \in DOMAIN s.result : s.result[i] = p
              \/ \E k \in DOMAIN s.agenda : Prefix(s.agenda[k], p)
Paths(s) == Sound(s) /\ Apart(s) /\ ListedOrAhead(s)

PathsInv == Asks({"paths"}) => (At("run") => Paths(search)) /\ PathsBounded

LEMMA PathsSame ==
    ASSUME Reads, Paths(search')
    PROVE  Paths(search)'
<1>1. query' = query
  BY ReadsSame
<1>2. Sound(search)'
  BY <1>1, ReadsSimple DEF Paths, Sound
<1>3. ListedOrAhead(search)'
  BY <1>1, ReadsSimple DEF Paths, ListedOrAhead
<1>. QED
  BY <1>2, <1>3 DEF Paths, Apart

LEMMA PathsGrows ==
    ASSUME Moves, UNCHANGED search, Paths(search)
    PROVE  Paths(search)'
<1>1. query' = query
  BY DEF Moves
<1>2. Sound(search)'
  BY <1>1, SimpleMoves DEF Paths, Sound
<1>3. ListedOrAhead(search)'
  BY <1>1, SimpleMoves DEF Paths, ListedOrAhead
<1>. QED
  BY <1>2, <1>3 DEF Paths, Apart

LEMMA PathAt ==
    ASSUME NEW s \in Seq(PathType)
    PROVE  \A i \in DOMAIN s : s[i] \in PathType
BY LenProperties, ElementOfSeq

(* The path of one vertex, with which a search for a path begins.          *)
LEMMA FirstPath ==
    ASSUME NEW es, query.from \in Ids
    PROVE  LET p == <<query.from>>
           IN  /\ p \in PathType /\ Len(p) = 1 /\ p[1] = query.from /\ Last(p) = query.from
               /\ Simple(es, p)
               /\ \A q \in PathType : Simple(es, q) => Prefix(p, q)
<1> DEFINE p == <<query.from>>
<1>1. p \in PathType /\ Len(p) = 1 /\ p[1] = query.from
  BY DEF PathType
<1>. HIDE DEF p
<1>2. Last(p) = query.from
  BY <1>1 DEF Last
<1>3. Simple(es, p)
  BY <1>1 DEF Simple
<1>4. ASSUME NEW q \in PathType, Simple(es, q)
      PROVE  Prefix(p, q)
  <2>1. Len(q) \in Nat /\ Len(q) >= 1 /\ q[1] = query.from
    BY <1>4, LastFacts DEF Simple
  <2>. QED
    BY <1>1, <2>1 DEF Prefix
<1>. QED
  BY <1>1, <1>2, <1>3, <1>4 DEF p

LEMMA CheckToBegins ==
    ASSUME Searching, Asks({"paths", "unweighted"}), CheckTo, search'.pc = "run"
    PROVE  /\ query.from \in Ids /\ search.result = <<>> /\ HasVertex(query.to)
           /\ search'.agenda = <<<<query.from>>>> /\ search'.visited = {query.from}
           /\ search'.result = <<>>
           /\ Asks({"unweighted"}) => query.from # query.to
<1>0. /\ DOMAIN search = {"pc", "agenda", "visited", "notes", "result"}
      /\ search.result = <<>> /\ query.from \in Ids
  BY DEF Searching, SearchTyped, CheckTo, At, Asks
<1>1. HasVertex(query.to)
  <2>1. ~HasVertex(query.to) => search'.pc = "failed"
    BY FailTyped DEF CheckTo
  <2>. QED
    BY <2>1
<1>2. ~(Asks({"unweighted"}) /\ query.from = query.to)
  <2>1. ASSUME NEW r, Answer(r)
        PROVE  search'.pc = "done"
    BY <1>0, <2>1 DEF Answer, Go
  <2>. QED
    BY <1>1, <2>1 DEF CheckTo, Asks
<1> DEFINE first == <<<<query.from>>>>
<1>3. search' = [search EXCEPT !.pc = "run", !.agenda = first, !.visited = {query.from}]
  <2>1. ~Asks({"weighted"})
    BY DEF Asks
  <2>. QED
    BY <1>1, <1>2, <2>1 DEF CheckTo, Go
<1>. HIDE DEF first
<1>4. search'.agenda = first /\ search'.visited = {query.from} /\ search'.result = <<>>
  BY <1>0, <1>3
<1>. QED
  BY <1>0, <1>1, <1>2, <1>4 DEF first

LEMMA PathsBegin ==
    ASSUME Searching, Asks({"paths"}), CheckTo, search'.pc = "run"
    PROVE  Paths(search')
<1>1. /\ query.from \in Ids /\ search'.agenda = <<<<query.from>>>> /\ search'.result = <<>>
  BY CheckToBegins DEF Asks
<1> DEFINE p == <<query.from>>
<1>2. /\ p \in PathType /\ Len(p) = 1 /\ Simple(Ever, p)
      /\ \A q \in PathType : Simple(Always, q) => Prefix(p, q)
  BY <1>1, FirstPath
<1>. HIDE DEF p
<1>3. DOMAIN search'.agenda = {1} /\ search'.agenda[1] = p /\ DOMAIN search'.result = {}
  BY <1>1 DEF p
<1>4. query.depth \in Nat
  BY DepthGiven DEF Asks
<1>5. \A q : Staying(q) => Prefix(p, q)
  BY <1>1, <1>2, StayingTyped DEF Staying
<1>. QED
  <2>1. Sound(search')
    <3>1. Simple(Ever, p) /\ Len(p) =< query.depth + 1
      BY <1>2, <1>4
    <3>. QED
      BY <1>3, <3>1 DEF Sound
  <2>2. Apart(search')
    BY <1>3 DEF Apart
  <2>3. ListedOrAhead(search')
    BY <1>3, <1>5 DEF ListedOrAhead
  <2>. QED
    BY <2>1, <2>2, <2>3 DEF Paths

LEMMA PathsEnd ==
    ASSUME Searching, Asks({"paths"}), At("run"), Paths(search), search.agenda = <<>>
    PROVE  /\ IsInjective(search.result)
           /\ ToSet(search.result) \subseteq SimplePaths(Ever, query.from, query.to, query.depth)
           /\ SimplePaths(Always, query.from, query.to, query.depth) \subseteq ToSet(search.result)
<1>1. /\ search.result \in Seq(PathType) /\ query.depth \in Nat /\ query.from \in Ids
      /\ DOMAIN search.agenda = {}
  BY RunFacts, DepthGiven DEF ResultTyped, Asks
<1>2. \A i \in DOMAIN search.result : search.result[i] \in PathType
  BY <1>1, PathAt
<1>3. \A i \in DOMAIN search.result : search.result[i] \in SimplePaths(Ever, query.from, query.to, query.depth)
  BY <1>1, <1>2, SimplePathsFacts DEF Paths, Sound
<1>4. ASSUME NEW p \in SimplePaths(Always, query.from, query.to, query.depth)
      PROVE  \E i \in DOMAIN search.result : search.result[i] = p
  BY <1>1, SimplePathsFacts DEF Paths, ListedOrAhead
<1>. QED
  BY <1>3, <1>4 DEF Paths, Apart, IsInjective, ToSet

(* One path taken from the agenda: listed, given up, or made longer by one *)
(* vertex in every way there is.                                           *)
LEMMA PathsStep ==
    ASSUME Searching, AllSimplePaths, Paths(search), search'.pc = "run"
    PROVE  Paths(search')
<1> DEFINE a == search.agenda
           r == search.result
<1>1. /\ Item \in PathType /\ Rest \in Seq(PathType) /\ Last(Item) \in Ids
      /\ a \in Seq(PathType) /\ a # <<>> /\ r \in Seq(PathType) /\ query.depth \in Nat
      /\ query.from \in Ids
  BY PathsDoes, RunFacts DEF Asks
<1>2. /\ Item = a[1] /\ 1 \in DOMAIN a
      /\ \A k \in DOMAIN Rest : k \in Nat /\ k + 1 \in DOMAIN a /\ k + 1 # 1 /\ Rest[k] = a[k + 1]
      /\ \A k \in DOMAIN a : k = 1 \/ (k - 1 \in DOMAIN Rest /\ Rest[k - 1] = a[k])
  BY <1>1, TailFacts DEF Item, Rest
<1>3. /\ \A i \in DOMAIN r : r[i] \in PathType
      /\ \A k \in DOMAIN Rest : Rest[k] \in PathType
      /\ Len(Item) \in Nat /\ Len(Item) >= 1
  BY <1>1, PathAt, LastFacts
<1>4. /\ Simple(Ever, Item) /\ Len(Item) =< query.depth + 1
      /\ \A k \in DOMAIN Rest : Simple(Ever, Rest[k]) /\ Len(Rest[k]) =< query.depth + 1
      /\ \A i \in DOMAIN r : /\ Simple(Ever, r[i]) /\ Len(r[i]) =< query.depth + 1
                             /\ Last(r[i]) = query.to
  BY <1>2 DEF Paths, Sound
<1>5. /\ \A k \in DOMAIN Rest : ~Prefix(Item, Rest[k]) /\ ~Prefix(Rest[k], Item)
      /\ \A k, l \in DOMAIN Rest : Prefix(Rest[k], Rest[l]) => k = l
      /\ \A k \in DOMAIN Rest, i \in DOMAIN r : ~Prefix(Rest[k], r[i])
      /\ \A i \in DOMAIN r : ~Prefix(Item, r[i])
      /\ \A i, j \in DOMAIN r : r[i] = r[j] => i = j
  <2>1. \A k \in DOMAIN Rest : ~Prefix(Item, Rest[k]) /\ ~Prefix(Rest[k], Item)
    BY <1>2 DEF Paths, Apart
  <2>2. \A k, l \in DOMAIN Rest : Prefix(Rest[k], Rest[l]) => k = l
    BY <1>2 DEF Paths, Apart
  <2>3. /\ \A k \in DOMAIN Rest, i \in DOMAIN r : ~Prefix(Rest[k], r[i])
        /\ \A i \in DOMAIN r : ~Prefix(Item, r[i])
        /\ \A i, j \in DOMAIN r : r[i] = r[j] => i = j
    BY <1>2 DEF Paths, Apart
  <2>. QED
    BY <2>1, <2>2, <2>3
<1>6. \A p : Staying(p) /\ Len(p) =< query.depth + 1 =>
                \/ \E i \in DOMAIN r : r[i] = p
                \/ \E k \in DOMAIN Rest : Prefix(Rest[k], p)
                \/ Prefix(Item, p)
  BY <1>2 DEF Paths, ListedOrAhead
<1>7. \A p : Staying(p) => /\ p \in PathType /\ Len(p) \in Nat /\ Len(p) >= 1
                           /\ Last(p) = p[Len(p)] /\ Last(p) = query.to
  BY <1>1, StayingTyped, LastFacts DEF Staying
<1>. HIDE DEF a
<1>8. CASE /\ Last(Item) = query.to
           /\ search'.agenda = Rest /\ search'.result = Append(r, Item)
  <2> DEFINE t == Append(r, Item)
  <2>1. /\ \A i \in DOMAIN r : i \in DOMAIN t /\ t[i] = r[i]
        /\ \A i \in DOMAIN t : i \in DOMAIN r \/ i = Len(r) + 1
        /\ Len(r) + 1 \in DOMAIN t /\ t[Len(r) + 1] = Item
    BY <1>1, AppendFacts
  <2>. HIDE DEF t, r
  <2>2. \A i \in DOMAIN t : (i \in DOMAIN r /\ t[i] = r[i]) \/ (i = Len(r) + 1 /\ t[i] = Item)
    BY <2>1
  <2>3. Prefix(Item, Item)
    BY <1>1, PrefixFacts
  <2>4. Sound(search')
    BY <1>4, <1>8, <2>2 DEF Sound, t
  <2>5. Apart(search')
    <3>1. \A i \in DOMAIN r : r[i] # Item
      BY <1>5, <2>3
    <3>2. \A i, j \in DOMAIN t : t[i] = t[j] => i = j
      BY <1>5, <2>2, <3>1
    <3>3. \A k \in DOMAIN Rest, i \in DOMAIN t : ~Prefix(Rest[k], t[i])
      BY <1>5, <2>2
    <3>. QED
      BY <1>5, <1>8, <3>2, <3>3 DEF Apart, t
  <2>6. ListedOrAhead(search')
    <3>. SUFFICES ASSUME NEW p, Staying(p), Len(p) =< query.depth + 1
                  PROVE  \/ \E i \in DOMAIN t : t[i] = p
                         \/ \E k \in DOMAIN Rest : Prefix(Rest[k], p)
      BY <1>8 DEF ListedOrAhead, t
    <3>1. CASE Prefix(Item, p)
      <4>1. \A i \in 1..Len(Item) : Item[i] = p[i]
        BY <3>1 DEF Prefix
      <4>2. Last(Item) = Item[Len(Item)] /\ Len(Item) =< Len(p)
        BY <1>1, <3>1, LastFacts DEF Prefix
      <4>3. p[Len(Item)] = p[Len(p)] /\ Len(Item) \in 1..Len(p) /\ Len(p) \in 1..Len(p)
        BY <1>3, <1>7, <1>8, <4>1, <4>2
      <4>4. Len(Item) = Len(p)
        BY <4>3 DEF Staying, Simple
      <4>5. Item = p
        BY <1>1, <1>7, <3>1, <4>4, PrefixFacts
      <4>. QED
        BY <2>1, <4>5
    <3>2. CASE ~Prefix(Item, p)
      BY <1>6, <2>1, <3>2
    <3>. QED
      BY <3>1, <3>2
  <2>. QED
    BY <2>4, <2>5, <2>6 DEF Paths
<1>9. CASE /\ Last(Item) # query.to /\ Len(Item) > query.depth
           /\ search'.agenda = Rest /\ search'.result = r
  <2>1. ASSUME NEW p, Staying(p), Len(p) =< query.depth + 1
        PROVE  ~Prefix(Item, p)
    <3>. SUFFICES ASSUME Prefix(Item, p) PROVE FALSE
      OBVIOUS
    <3>1. Len(Item) =< Len(p)
      BY DEF Prefix
    <3>2. Len(Item) = Len(p)
      BY <1>1, <1>3, <1>7, <1>9, <2>1, <3>1
    <3>3. Item = p
      BY <1>1, <1>7, <2>1, <3>2, PrefixFacts
    <3>. QED
      BY <1>9, <2>1, <3>3 DEF Staying
  <2>2. Sound(search')
    BY <1>4, <1>9 DEF Sound
  <2>3. Apart(search')
    BY <1>5, <1>9 DEF Apart
  <2>4. ListedOrAhead(search')
    BY <1>6, <1>9, <2>1 DEF ListedOrAhead
  <2>. QED
    BY <2>2, <2>3, <2>4 DEF Paths
<1>10. ASSUME Last(Item) # query.to, Len(Item) =< query.depth, search'.result = r,
              NEW new, Lists(new, Neighbors(Last(Item)) \ ToSet(Item)),
              search'.agenda = Extended(Item, new) \o Rest
       PROVE  Paths(search')
  <2> DEFINE e == Extended(Item, new)
             b == e \o Rest
  <2>1. new \in Seq(Ids) /\ \A k \in DOMAIN new : new[k] \in Ids
    BY <1>10, ListsIds, ElementOfSeq, LenProperties
  <2>2. /\ \A k, l \in DOMAIN new : new[k] = new[l] => k = l
        /\ \A k \in DOMAIN new : new[k] \in Neighbors(Last(Item)) /\ new[k] \notin ToSet(Item)
        /\ \A y \in Neighbors(Last(Item)) \ ToSet(Item) : \E k \in DOMAIN new : new[k] = y
    BY <1>10 DEF Lists
  <2>3. /\ e \in Seq(PathType) /\ DOMAIN e = DOMAIN new
        /\ \A k \in DOMAIN new : e[k] = Append(Item, new[k])
    BY <1>1, <2>1, ExtendedFacts
  <2>. HIDE DEF e
  <2>4. Joined(b, e, Rest)
    BY <1>1, <2>3, Joins
  <2>5. b = search'.agenda
    BY <1>10 DEF e
  <2>. HIDE DEF b, r
  <2>6. /\ \A k \in DOMAIN b : \/ k \in DOMAIN e /\ b[k] = e[k]
                               \/ \E l \in DOMAIN Rest : k = Len(e) + l /\ b[k] = Rest[l]
        /\ \A k \in DOMAIN e : k \in DOMAIN b /\ b[k] = e[k]
        /\ \A l \in DOMAIN Rest : Len(e) + l \in DOMAIN b /\ b[Len(e) + l] = Rest[l]
    BY <2>4 DEF Joined
  <2>7. ASSUME NEW k \in DOMAIN e
        PROVE  /\ e[k] \in PathType /\ Len(e[k]) = Len(Item) + 1 /\ Prefix(Item, e[k])
               /\ Simple(Ever, e[k]) /\ Last(e[k]) = new[k]
    <3>1. new[k] \in Ids /\ e[k] = Append(Item, new[k])
      BY <2>1, <2>3
    <3>2. Step(Ever, Last(Item), new[k])
      BY <2>2, <2>3, NeighborsAreSteps, StepsBetween DEF Searching
    <3>3. \A i \in 1..Len(Item) : Item[i] # new[k]
      <4>1. DOMAIN Item = 1..Len(Item)
        BY <1>1, LastFacts
      <4>. QED
        BY <2>2, <2>3, <4>1 DEF ToSet
    <3>4. Simple(Ever, Append(Item, new[k]))
      BY <1>1, <1>4, <3>1, <3>2, <3>3, SimpleExtends
    <3>. QED
      BY <1>1, <3>1, <3>4, AppendPath
  <2>8. Sound(search')
    <3>1. \A k \in DOMAIN e : Simple(Ever, e[k]) /\ Len(e[k]) =< query.depth + 1
      BY <1>1, <1>3, <1>10, <2>7
    <3>2. \A k \in DOMAIN b : Simple(Ever, b[k]) /\ Len(b[k]) =< query.depth + 1
      BY <1>4, <2>6, <3>1
    <3>. QED
      BY <1>4, <1>10, <2>5, <3>2 DEF Sound
  <2>9. ASSUME NEW k \in DOMAIN e, NEW q \in PathType, Prefix(e[k], q)
        PROVE  Prefix(Item, q)
    <3>1. new[k] \in Ids /\ e[k] = Append(Item, new[k])
      BY <2>1, <2>3
    <3>. QED
      BY <1>1, <2>9, <3>1, PrefixFacts
  <2>10. ASSUME NEW k \in DOMAIN e, NEW q \in PathType, Prefix(q, e[k])
         PROVE  Prefix(q, Item) \/ Prefix(Item, q)
    <3>1. new[k] \in Ids /\ e[k] = Append(Item, new[k])
      BY <2>1, <2>3
    <3>. QED
      BY <1>1, <2>10, <3>1, PrefixFacts
  <2>11. \A k, l \in DOMAIN e : Prefix(e[k], e[l]) => k = l
    <3>. SUFFICES ASSUME NEW k \in DOMAIN e, NEW l \in DOMAIN e, Prefix(e[k], e[l])
                  PROVE  k = l
      OBVIOUS
    <3>1. Len(e[k]) = Len(e[l]) /\ e[k] \in PathType /\ e[l] \in PathType
      BY <2>7
    <3>2. e[k] = e[l]
      BY <2>1, <2>3, <3>1, PrefixFacts
    <3>3. new[k] = new[l]
      BY <2>7, <3>2
    <3>. QED
      BY <2>2, <2>3, <3>3
  <2>12. Apart(search')
    <3>1. \A k, l \in DOMAIN b : Prefix(b[k], b[l]) => k = l
      <4>. SUFFICES ASSUME NEW k \in DOMAIN b, NEW l \in DOMAIN b, Prefix(b[k], b[l])
                    PROVE  k = l
        OBVIOUS
      <4>1. CASE (k \in DOMAIN e /\ b[k] = e[k]) /\ (l \in DOMAIN e /\ b[l] = e[l])
        BY <2>11, <4>1
      <4>2. ASSUME k \in DOMAIN e, b[k] = e[k], NEW m \in DOMAIN Rest, b[l] = Rest[m]
            PROVE  FALSE
        <5>1. Prefix(e[k], Rest[m])
          BY <4>2
        <5>2. Rest[m] \in PathType
          BY <1>3, <4>2
        <5>3. Prefix(Item, Rest[m])
          BY <2>9, <4>2, <5>1, <5>2
        <5>. QED
          BY <1>5, <4>2, <5>3
      <4>3. ASSUME l \in DOMAIN e, b[l] = e[l], NEW m \in DOMAIN Rest, b[k] = Rest[m]
            PROVE  FALSE
        <5>1. Prefix(Rest[m], e[l])
          BY <4>3
        <5>2. Rest[m] \in PathType
          BY <1>3, <4>3
        <5>3. Prefix(Rest[m], Item) \/ Prefix(Item, Rest[m])
          BY <2>10, <4>3, <5>1, <5>2
        <5>. QED
          BY <1>5, <4>3, <5>3
      <4>4. ASSUME NEW m \in DOMAIN Rest, k = Len(e) + m, b[k] = Rest[m],
                   NEW n \in DOMAIN Rest, l = Len(e) + n, b[l] = Rest[n]
            PROVE  k = l
        BY <1>5, <4>4
      <4>. QED
        BY <2>6, <4>1, <4>2, <4>3, <4>4
    <3>2. \A k \in DOMAIN b, i \in DOMAIN r : ~Prefix(b[k], r[i])
      BY <1>3, <1>5, <2>6, <2>9
    <3>. QED
      BY <1>5, <1>10, <2>5, <3>1, <3>2 DEF Apart
  <2>13. ListedOrAhead(search')
    <3>. SUFFICES ASSUME NEW p, Staying(p), Len(p) =< query.depth + 1
                  PROVE  \/ \E i \in DOMAIN r : r[i] = p
                         \/ \E k \in DOMAIN b : Prefix(b[k], p)
      BY <1>10, <2>5 DEF ListedOrAhead
    <3>1. CASE Prefix(Item, p)
      <4>1. /\ Len(Item) =< Len(p) /\ \A i \in 1..Len(Item) : Item[i] = p[i]
        BY <3>1 DEF Prefix
      <4>2. Len(Item) # Len(p)
        <5>1. Len(Item) = Len(p) => Item = p
          BY <1>1, <1>7, <3>1, PrefixFacts
        <5>. QED
          BY <1>7, <1>10, <5>1
      <4>3. Len(Item) \in 1..(Len(p) - 1) /\ Len(Item) + 1 \in 1..Len(p) /\ Len(Item) \in 1..Len(Item)
        BY <1>3, <1>7, <4>1, <4>2
      <4> DEFINE y == p[Len(Item) + 1]
      <4>4. Step(Always, Item[Len(Item)], y)
        BY <4>1, <4>3 DEF Staying, Simple
      <4>5. Item[Len(Item)] = Last(Item)
        BY <1>1, LastFacts
      <4>6. y \in Neighbors(Last(Item)) /\ y \in Ids
        BY <4>4, <4>5, NeighborsAreSteps, StepsBetween DEF Searching
      <4>7. y \notin ToSet(Item)
        <5>1. ASSUME NEW i \in 1..Len(Item), Item[i] = y
              PROVE  FALSE
          <6>1. i \in 1..Len(p) /\ p[i] = p[Len(Item) + 1] /\ i # Len(Item) + 1
            BY <1>3, <1>7, <4>1, <5>1
          <6>. QED
            BY <4>3, <6>1 DEF Staying, Simple
        <5>2. DOMAIN Item = 1..Len(Item)
          BY <1>1, LastFacts
        <5>. QED
          BY <5>1, <5>2 DEF ToSet
      <4>8. PICK k \in DOMAIN e : new[k] = y
        BY <2>2, <2>3, <4>6, <4>7
      <4>9. /\ Len(e[k]) = Len(Item) + 1 /\ \A i \in 1..Len(Item) : e[k][i] = Item[i]
            /\ e[k][Len(Item) + 1] = y
        <5>1. e[k] = Append(Item, y)
          BY <2>3, <4>8
        <5>. HIDE DEF y
        <5>. QED
          BY <1>1, <4>6, <5>1, AppendPath
      <4>10. Prefix(e[k], p)
        <5>1. ASSUME NEW i \in 1..(Len(Item) + 1)
              PROVE  e[k][i] = p[i]
          <6>1. i \in 1..Len(Item) \/ i = Len(Item) + 1
            BY <1>3
          <6>. QED
            BY <4>1, <4>9, <6>1
        <5>2. Len(Item) + 1 =< Len(p)
          BY <1>3, <1>7, <4>1, <4>2
        <5>. QED
          BY <4>9, <5>1, <5>2 DEF Prefix
      <4>. QED
        BY <2>6, <4>10
    <3>2. CASE ~Prefix(Item, p)
      BY <1>6, <2>6, <3>2
    <3>. QED
      BY <3>1, <3>2
  <2>. QED
    BY <2>8, <2>12, <2>13 DEF Paths
<1>11. ~Fail("vertex")
  BY FailTyped
<1>. QED
  BY <1>8, <1>9, <1>10, <1>11, PathsDoes

PathsAnswer(s) ==
    /\ IsInjective(s.result)
    /\ ToSet(s.result) \subseteq SimplePaths(Ever, query.from, query.to, query.depth)
    /\ SimplePaths(Always, query.from, query.to, query.depth) \subseteq ToSet(s.result)

LEMMA NextPaths ==
    ASSUME Searching, PathsInv, [Next]_vars
    PROVE  PathsInv'
<1>. SUFFICES ASSUME Asks({"paths"})
              PROVE  (At("run")' => Paths(search)') /\ PathsBounded'
  BY SearchCases DEF PathsInv, Asks
<1>0. query' = query
  BY SearchCases
<1>1. ASSUME Reads, PathsAnswer(search')
      PROVE  PathsBounded'
  BY <1>0, <1>1, ReadsPaths DEF PathsAnswer, PathsBounded
<1>2. CASE ~Open /\ Reads /\ search' = search /\ SearchTyped(search')
  <2>1. At("done") => PathsAnswer(search')
    BY <1>2 DEF PathsInv, PathsBounded, Answered, PathsAnswer
  <2>2. ~At("done") => PathsBounded'
    BY <1>2 DEF PathsBounded, Answered, At
  <2>. QED
    BY <1>1, <1>2, <2>1, <2>2 DEF Open, At
<1>3. CASE Open /\ search' = search
  <2>1. At("run") => Paths(search)'
    BY <1>3, SearchCases, PathsGrows DEF PathsInv
  <2>. QED
    BY <1>3, <2>1 DEF PathsBounded, Answered, At, Open
<1>4. CASE Traverse /\ Reads /\ GoesWell
  <2>0. CheckFrom \/ CheckTo \/ Exhausted \/ AllSimplePaths
    BY <1>4 DEF Traverse, Asks, ListVertices, BFS, DFS, ShortestUnweighted, HasCycle, Working
  <2>1. DOMAIN search = {"pc", "agenda", "visited", "notes", "result"}
    BY DEF Searching, SearchTyped
  <2>2. CheckFrom => search'.pc \in {"to", "failed"}
    BY <2>1, FailTyped DEF CheckFrom, Go, Asks
  <2>3. CheckTo => search'.pc \in {"run", "failed"}
    BY <2>1, FailTyped DEF CheckTo, Go, Asks
  <2>4. AllSimplePaths => search'.pc \in {"run", "failed"}
    BY PathsDoes, FailTyped
  <2>5. CASE search'.pc = "run"
    <3>1. CheckTo \/ AllSimplePaths
      BY <2>0, <2>2, <2>5, ExhaustedTyped
    <3>2. AllSimplePaths => Paths(search)
      BY PathsDoes DEF PathsInv
    <3>3. Paths(search')
      BY <2>5, <3>1, <3>2, PathsBegin, PathsStep
    <3>4. Paths(search)'
      BY <1>4, <3>3, PathsSame
    <3>. QED
      BY <2>5, <3>4 DEF PathsBounded, Answered, At
  <2>6. CASE search'.pc = "done"
    <3>1. Exhausted
      BY <2>0, <2>2, <2>3, <2>4, <2>6
    <3>2. Answer(search.result) /\ At("run") /\ search.agenda = <<>>
      BY <3>1 DEF Exhausted, Asks
    <3>3. search'.result = search.result
      BY <2>1, <3>2 DEF Answer, Go
    <3>4. PathsAnswer(search')
      BY <3>2, <3>3, PathsEnd DEF PathsInv, PathsAnswer
    <3>. QED
      BY <1>1, <1>4, <2>6, <3>4 DEF At
  <2>7. CASE search'.pc \notin {"run", "done"}
    BY <2>7 DEF PathsBounded, Answered, At
  <2>. QED
    BY <2>5, <2>6, <2>7
<1>. QED
  BY <1>2, <1>3, <1>4, SearchCases

(* All simple paths that stay are listed, each once, and only simple paths *)
(* of edges that existed, no longer than the depth (path.go:17-29).        *)
THEOREM PathsAreBounded == Spec => []PathsBounded
<1>1. Init => FailInv /\ PathsInv
  <2>. SUFFICES ASSUME Init, Asks({"paths"}) PROVE ~At("run") /\ ~At("done")
    BY FailInvariance DEF PathsInv, PathsBounded, Answered
  <2>1. search = NewSearch(query) /\ query.kind = "paths"
    BY DEF Init, Asks
  <2>. QED
    BY <2>1 DEF NewSearch, At
<1>2. FailInv /\ PathsInv /\ [Next]_vars => (FailInv /\ PathsInv)'
  <2>. SUFFICES ASSUME FailInv, PathsInv, [Next]_vars PROVE PathsInv'
    BY FailInvariance
  <2>1. CASE Asks({"paths"})
    BY <2>1, FailInvSearching, NextPaths DEF Asks, SearchKinds
  <2>2. CASE ~Asks({"paths"})
    BY <2>2, FailInvSearching DEF PathsInv, Asks
  <2>. QED
    BY <2>1, <2>2
<1>3. PathsInv => PathsBounded
  BY DEF PathsInv, PathsBounded, Answered, Asks
<1>. QED
  BY <1>1, <1>2, <1>3, FailInvariance, PTL DEF Spec

-----------------------------------------------------------------------------
(***************************************************************************)
(* Depth-first search.                                                     *)
(***************************************************************************)

(* Under way: what has been visited is in the list once, at a depth some   *)
(* walk explains, and so is what lies ahead, no deeper than the number of  *)
(* vertices visited.  Where the depth cuts nothing off, each arc that      *)
(* stays leads from a visited vertex to one visited or ahead.              *)
AheadInReach(s) ==
    \A k \in DOMAIN s.agenda : /\ s.agenda[k].depth =< query.depth
                               /\ s.agenda[k].depth =< Cardinality(s.visited)
                               /\ s.agenda[k].id \in Reach(Ever, query.from, s.agenda[k].depth)
Known(s, y) == y \in s.visited \/ \E k \in DOMAIN s.agenda : s.agenda[k].id = y
Closing(s) ==
    query.depth >= AllSteps =>
        \A x \in s.visited : \A y : Step(Always, x, y) => Known(s, y)
Deep(s) ==
    /\ \A i, j \in DOMAIN s.result : s.result[i].id = s.result[j].id => i = j
    /\ \A id : id \in s.visited <=> \E i \in DOMAIN s.result : s.result[i].id = id
    /\ FoundInReach(s) /\ AheadInReach(s)
    /\ Known(s, query.from) /\ Closing(s)

DeepInv == Asks({"dfs"}) => (At("run") => Deep(search)) /\ DepthFirstBounded

LEMMA AllStepsFacts ==
    ASSUME History
    PROVE  IsFiniteSet(Ids) /\ AllSteps \in Nat
BY IdsFacts, FS_CardinalityType DEF AllSteps

LEMMA AllStepsGrow ==
    ASSUME History, History', Moves
    PROVE  AllSteps \in Nat /\ AllSteps' \in Nat /\ AllSteps =< AllSteps'
<1>1. IsFiniteSet(Ids')
  <2>1. Ids' \subseteq VertexIds
    BY DEF History, IsGraph, Ids
  <2>. QED
    BY <2>1, IdsAreNumbers, FS_Subset
<1>2. Ids \subseteq Ids'
  BY DEF Moves
<1>. QED
  BY <1>1, <1>2, FS_Subset, FS_CardinalityType DEF AllSteps

LEMMA DeepSame ==
    ASSUME Reads, Searching, Asks({"dfs"}), SearchTyped(search'), search'.pc = "run", Deep(search')
    PROVE  Deep(search)'
<1>1. query' = query /\ AllSteps' = AllSteps
  BY ReadsSame DEF AllSteps
<1>2. search'.result \in Seq(VisitType) /\ search'.agenda \in Seq(VisitType)
  BY DEF SearchTyped, ResultTyped, AgendaTyped, Asks
<1>3. /\ \A i \in DOMAIN search'.result : search'.result[i].depth \in Nat
      /\ \A k \in DOMAIN search'.agenda : search'.agenda[k].depth \in Nat
  BY <1>2, VisitAt
<1>4. FoundInReach(search)'
  BY <1>1, <1>3, ReadsReach DEF Deep, FoundInReach
<1>5. AheadInReach(search)'
  BY <1>1, <1>3, ReadsReach DEF Deep, AheadInReach
<1>6. Closing(search)'
  BY <1>1, ReadsStep DEF Deep, Closing, Known
<1>. QED
  BY <1>1, <1>4, <1>5, <1>6 DEF Deep, Known

LEMMA DeepGrows ==
    ASSUME Searching, History', Moves, UNCHANGED search, SearchTyped(search), At("run"),
           Asks({"dfs"}), Deep(search)
    PROVE  Deep(search)'
<1>1. query' = query /\ query.depth \in Nat
  BY DepthGiven DEF Moves, Asks
<1>2. search.result \in Seq(VisitType) /\ search.agenda \in Seq(VisitType)
  BY DEF SearchTyped, ResultTyped, AgendaTyped, Asks, At
<1>3. /\ \A i \in DOMAIN search.result : search.result[i].depth \in Nat
      /\ \A k \in DOMAIN search.agenda : search.agenda[k].depth \in Nat
  BY <1>2, VisitAt
<1>4. FoundInReach(search)'
  BY <1>1, <1>3, ReachMoves DEF Deep, FoundInReach
<1>5. AheadInReach(search)'
  BY <1>1, <1>3, ReachMoves DEF Deep, AheadInReach
<1>6. query.depth >= AllSteps' => query.depth >= AllSteps
  BY <1>1, AllStepsGrow DEF Searching
<1>7. Closing(search)'
  BY <1>1, <1>6, StepsMove DEF Deep, Closing, Known
<1>. QED
  BY <1>1, <1>4, <1>5, <1>7 DEF Deep, Known

LEMMA DeepBegin ==
    ASSUME Searching, Asks({"dfs"}), CheckFrom, search'.pc = "run"
    PROVE  Deep(search')
<1>0. DOMAIN search = {"pc", "agenda", "visited", "notes", "result"}
  BY DEF Searching, SearchTyped
<1>1. HasVertex(query.from)
  <2>1. ~HasVertex(query.from) => search'.pc = "failed"
    BY FailTyped DEF CheckFrom
  <2>. QED
    BY <2>1
<1> DEFINE first == Visits(<<query.from>>, 0)
<1>2. search' = [search EXCEPT !.pc = "run", !.agenda = first, !.visited = {}, !.result = <<>>]
  <2>1. Asks({"bfs", "dfs"}) /\ ~Asks({"bfs"})
    BY DEF Asks
  <2>. QED
    BY <1>1, <2>1 DEF CheckFrom, Go
<1>3. DOMAIN first = {1} /\ first[1] = [id |-> query.from, depth |-> 0]
  BY DEF Visits
<1>. HIDE DEF first
<1>4. search'.agenda = first /\ search'.visited = {} /\ search'.result = <<>>
  BY <1>0, <1>2
<1>5. query.depth \in Nat
  BY DepthGiven DEF Asks
<1>6. query.from \in Reach(Ever, query.from, 0)
  BY ReachSteps
<1>7. Cardinality({}) = 0
  BY FS_EmptySet
<1>8. AheadInReach(search') /\ Known(search', query.from)
  BY <1>3, <1>4, <1>5, <1>6, <1>7 DEF AheadInReach, Known
<1>9. FoundInReach(search') /\ Closing(search')
  BY <1>4 DEF FoundInReach, Closing
<1>. QED
  BY <1>4, <1>8, <1>9 DEF Deep

(* What is unvisited leaves room: the depth is still below its bound.      *)
LEMMA RoomLeft ==
    ASSUME Searching, At("run"), NEW id \in Ids, id \notin search.visited
    PROVE  /\ IsFiniteSet(search.visited) /\ Cardinality(search.visited) \in Nat
           /\ Cardinality(search.visited \cup {id}) = Cardinality(search.visited) + 1
           /\ Cardinality(search.visited) < AllSteps /\ AllSteps \in Nat
<1>1. search.visited \subseteq Ids
  BY RunFacts
<1>2. IsFiniteSet(Ids) /\ AllSteps \in Nat
  BY AllStepsFacts DEF Searching
<1>3. IsFiniteSet(search.visited) /\ Cardinality(search.visited) \in Nat
  BY <1>1, <1>2, FS_Subset, FS_CardinalityType
<1>4. Cardinality(search.visited \cup {id}) = Cardinality(search.visited) + 1
  BY <1>3, FS_AddElement
<1>5. Cardinality(search.visited) < Cardinality(Ids)
  <2>1. search.visited # Ids
    OBVIOUS
  <2>. QED
    BY <1>1, <1>2, <2>1, FS_Subset, FS_CardinalityType
<1>. QED
  BY <1>2, <1>3, <1>4, <1>5 DEF AllSteps

LEMMA DeepStep ==
    ASSUME Searching, DFS, Deep(search), search'.pc = "run"
    PROVE  Deep(search')
<1> DEFINE a == search.agenda
           r == search.result
           b == search'.agenda
           t == search'.result
           seen == search.visited \cup {Item.id}
<1>1. /\ a \in Seq(VisitType) /\ a # <<>> /\ r \in Seq(VisitType) /\ query.depth \in Nat
      /\ Item \in VisitType /\ Rest \in Seq(VisitType) /\ Item.id \in Ids /\ Item.depth \in Nat
  BY DFSDoes
<1>2. /\ Item = a[1] /\ 1 \in DOMAIN a
      /\ \A k \in DOMAIN Rest : k \in Nat /\ k + 1 \in DOMAIN a /\ Rest[k] = a[k + 1]
      /\ \A k \in DOMAIN a : k = 1 \/ (k - 1 \in DOMAIN Rest /\ Rest[k - 1] = a[k])
  BY <1>1, TailFacts DEF Item, Rest
<1>3. /\ \A i \in DOMAIN r : r[i].id \in Ids /\ r[i].depth \in Nat
      /\ \A k \in DOMAIN a : a[k].id \in Ids /\ a[k].depth \in Nat
      /\ \A k \in DOMAIN Rest : Rest[k].id \in Ids /\ Rest[k].depth \in Nat
  BY <1>1, VisitAt
<1>4. /\ \A i, j \in DOMAIN r : r[i].id = r[j].id => i = j
      /\ \A id : id \in search.visited <=> \E i \in DOMAIN r : r[i].id = id
      /\ \A i \in DOMAIN r : r[i].depth =< query.depth /\ r[i].id \in Reach(Ever, query.from, r[i].depth)
      /\ \A k \in DOMAIN a : /\ a[k].depth =< query.depth /\ a[k].depth =< Cardinality(search.visited)
                             /\ a[k].id \in Reach(Ever, query.from, a[k].depth)
      /\ Known(search, query.from) /\ Closing(search)
  BY DEF Deep, FoundInReach, AheadInReach
<1>5. \A k \in DOMAIN Rest : /\ Rest[k].depth =< query.depth
                             /\ Rest[k].depth =< Cardinality(search.visited)
                             /\ Rest[k].id \in Reach(Ever, query.from, Rest[k].depth)
  BY <1>2, <1>4
<1>6. \A y : Known(search, y) => \/ y \in search.visited \/ y = Item.id
                                 \/ \E k \in DOMAIN Rest : Rest[k].id = y
  BY <1>2 DEF Known
<1>. HIDE DEF a
<1>7. CASE Item.id \in search.visited /\ b = Rest /\ search'.visited = search.visited /\ t = r
  <2>1. \A y : Known(search, y) => Known(search', y)
    BY <1>6, <1>7 DEF Known
  <2>2. Closing(search')
    BY <1>4, <1>7, <2>1 DEF Closing
  <2>3. AheadInReach(search') /\ FoundInReach(search')
    BY <1>4, <1>5, <1>7 DEF AheadInReach, FoundInReach
  <2>. QED
    BY <1>4, <1>7, <2>1, <2>2, <2>3 DEF Deep
<1>8. ASSUME Item.id \notin search.visited, search'.visited = seen, t = Append(r, Item)
      PROVE  /\ \A i, j \in DOMAIN t : t[i].id = t[j].id => i = j
             /\ \A id : id \in search'.visited <=> \E i \in DOMAIN t : t[i].id = id
             /\ FoundInReach(search')
             /\ Cardinality(search'.visited) = Cardinality(search.visited) + 1
             /\ Cardinality(search.visited) \in Nat /\ Item.depth =< Cardinality(search.visited)
             /\ Item.depth < AllSteps /\ AllSteps \in Nat
  <2>1. /\ Len(r) + 1 \in DOMAIN t /\ t[Len(r) + 1] = Item
        /\ \A i \in DOMAIN r : i \in DOMAIN t /\ t[i] = r[i]
        /\ \A i \in DOMAIN t : i \in DOMAIN r \/ i = Len(r) + 1
    BY <1>1, <1>8, AppendFacts
  <2>. HIDE DEF r, t
  <2>2. \A i, j \in DOMAIN t : t[i].id = t[j].id => i = j
    BY <1>4, <1>8, <2>1
  <2>3. \A id : id \in seen <=> \E i \in DOMAIN t : t[i].id = id
    BY <1>4, <2>1
  <2>4. \A i \in DOMAIN t : t[i].depth =< query.depth /\ t[i].id \in Reach(Ever, query.from, t[i].depth)
    BY <1>2, <1>4, <2>1
  <2>5. FoundInReach(search')
    BY <2>4 DEF FoundInReach, t
  <2>6. Item.depth =< Cardinality(search.visited)
    BY <1>2, <1>4
  <2>7. /\ Cardinality(search.visited) \in Nat /\ AllSteps \in Nat
        /\ Cardinality(seen) = Cardinality(search.visited) + 1
        /\ Cardinality(search.visited) < AllSteps
    BY <1>1, <1>8, DFSDoes, RoomLeft
  <2>8. Item.depth < AllSteps
    BY <1>1, <2>6, <2>7
  <2>. QED
    BY <1>8, <2>2, <2>3, <2>5, <2>6, <2>7, <2>8
<1>9. CASE /\ Item.id \notin search.visited /\ search'.visited = seen /\ t = Append(r, Item)
           /\ Item.depth >= query.depth /\ b = Rest
  <2>1. AheadInReach(search')
    BY <1>3, <1>5, <1>8, <1>9 DEF AheadInReach
  <2>2. Closing(search')
    <3>1. ~(query.depth >= AllSteps)
      BY <1>1, <1>8, <1>9
    <3>. QED
      BY <3>1 DEF Closing
  <2>3. Known(search', query.from)
    BY <1>4, <1>6, <1>9 DEF Known
  <2>. QED
    BY <1>8, <1>9, <2>1, <2>2, <2>3 DEF Deep
<1>10. ASSUME Item.id \notin search.visited, search'.visited = seen, t = Append(r, Item),
              Item.depth < query.depth, NEW all, Lists(all, Neighbors(Item.id)),
              b = Visits(all, Item.depth + 1) \o Rest
       PROVE  Deep(search')
  <2> DEFINE below == Visits(all, Item.depth + 1)
  <2>1. /\ all \in Seq(Ids) /\ Item.depth + 1 \in Nat
        /\ \A k \in DOMAIN all : all[k] \in Neighbors(Item.id)
        /\ \A y \in Neighbors(Item.id) : \E k \in DOMAIN all : all[k] = y
    BY <1>1, <1>10 DEF Lists
  <2>2. /\ below \in Seq(VisitType) /\ DOMAIN below = DOMAIN all
        /\ \A k \in DOMAIN below : below[k].id = all[k] /\ below[k].depth = Item.depth + 1
    <3>1. /\ below \in Seq(VisitType) /\ DOMAIN below = DOMAIN all
          /\ \A k \in DOMAIN all : below[k] = [id |-> all[k], depth |-> Item.depth + 1]
      BY <2>1, VisitsFacts
    <3>. HIDE DEF below
    <3>. QED
      BY <3>1
  <2>3. Joined(b, below, Rest)
    BY <1>1, <1>10, <2>2, Joins
  <2>. HIDE DEF below, b
  <2>4. /\ \A i \in DOMAIN b : \/ i \in DOMAIN below /\ b[i] = below[i]
                               \/ \E k \in DOMAIN Rest : b[i] = Rest[k]
        /\ \A k \in DOMAIN below : k \in DOMAIN b /\ b[k] = below[k]
        /\ \A k \in DOMAIN Rest : \E i \in DOMAIN b : b[i] = Rest[k]
    BY <2>3 DEF Joined
  <2>5. ASSUME NEW k \in DOMAIN below
        PROVE  /\ below[k].depth =< query.depth /\ below[k].depth =< Cardinality(search'.visited)
               /\ below[k].id \in Reach(Ever, query.from, below[k].depth)
    <3>1. Step(Ever, Item.id, all[k])
      BY <2>1, <2>2, NeighborsAreSteps, StepsBetween DEF Searching
    <3>2. Item.id \in Reach(Ever, query.from, Item.depth)
      BY <1>2, <1>4
    <3>3. all[k] \in Reach(Ever, query.from, Item.depth + 1)
      BY <1>1, <3>1, <3>2, ReachMore
    <3>4. Item.depth + 1 =< query.depth /\ Item.depth + 1 =< Cardinality(search'.visited)
      BY <1>1, <1>8, <1>10
    <3>. QED
      BY <2>2, <3>3, <3>4
  <2>6. \A k \in DOMAIN Rest : Rest[k].depth =< Cardinality(search'.visited)
    BY <1>3, <1>5, <1>8, <1>10
  <2>7. AheadInReach(search')
    BY <1>5, <2>4, <2>5, <2>6 DEF AheadInReach, b
  <2>8. \A y : Known(search, y) => Known(search', y)
    <3>1. \A y : y \in search.visited \/ y = Item.id => Known(search', y)
      BY <1>10 DEF Known
    <3>2. ASSUME NEW k \in DOMAIN Rest
          PROVE  Known(search', Rest[k].id)
      BY <2>4 DEF Known, b
    <3>. QED
      BY <1>6, <3>1, <3>2
  <2>9. \A y \in Neighbors(Item.id) : Known(search', y)
    BY <2>1, <2>2, <2>4 DEF Known, b
  <2>10. Closing(search')
    <3>. SUFFICES ASSUME query.depth >= AllSteps, NEW x \in search'.visited, NEW y, Step(Always, x, y)
                  PROVE  Known(search', y)
      BY DEF Closing
    <3>1. CASE x \in search.visited
      BY <1>4, <2>8, <3>1 DEF Closing
    <3>2. CASE x = Item.id
      BY <2>9, <3>2, NeighborsAreSteps, StepsBetween DEF Searching
    <3>. QED
      BY <1>10, <3>1, <3>2
  <2>. QED
    BY <1>4, <1>8, <1>10, <2>7, <2>8, <2>10 DEF Deep
<1>11. ~Fail("vertex")
  BY FailTyped
<1>. QED
  BY <1>7, <1>9, <1>10, <1>11, DFSDoes

DeepAnswer(s) ==
    /\ \A i, j \in DOMAIN s.result : s.result[i].id = s.result[j].id => i = j
    /\ FoundInReach(s)
    /\ query.depth >= AllSteps =>
          Reach(Always, query.from, AllSteps) \subseteq {s.result[i].id : i \in DOMAIN s.result}

LEMMA DeepEnd ==
    ASSUME Searching, Asks({"dfs"}), At("run"), Deep(search), search.agenda = <<>>
    PROVE  DeepAnswer(search)
<1>1. query.from \in search.visited
  BY DEF Deep, Known
<1>2. query.depth >= AllSteps => \A x \in search.visited : \A y : Step(Always, x, y) => y \in search.visited
  BY DEF Deep, Closing, Known
<1>3. AllSteps \in Nat
  BY AllStepsFacts DEF Searching
<1>4. query.depth >= AllSteps => Reach(Always, query.from, AllSteps) \subseteq search.visited
  BY <1>1, <1>2, <1>3, ReachWithin
<1>5. search.visited \subseteq {search.result[i].id : i \in DOMAIN search.result}
  BY DEF Deep
<1>. QED
  BY <1>4, <1>5 DEF Deep, DeepAnswer

LEMMA DeepAnswerSame ==
    ASSUME Reads, Searching, Asks({"dfs"}), SearchTyped(search'), search'.pc = "done",
           DeepAnswer(search')
    PROVE  DepthFirstBounded'
<1>1. query' = query /\ AllSteps' = AllSteps /\ AllSteps \in Nat
  BY ReadsSame, AllStepsFacts DEF AllSteps, Searching
<1>2. search'.result \in Seq(VisitType)
  BY DEF SearchTyped, ResultTyped, Asks
<1>3. \A i \in DOMAIN search'.result : search'.result[i].depth \in Nat
  BY <1>2, VisitAt
<1>4. FoundInReach(search)'
  BY <1>1, <1>3, ReadsReach DEF FoundInReach, DeepAnswer
<1>5. Reach(Always, query.from, AllSteps)' = Reach(Always, query.from, AllSteps)
  BY <1>1, ReadsReach
<1>. QED
  BY <1>1, <1>4, <1>5 DEF DepthFirstBounded, DeepAnswer, FoundInReach

LEMMA NextDeep ==
    ASSUME Searching, History', DeepInv, [Next]_vars
    PROVE  DeepInv'
<1>. SUFFICES ASSUME Asks({"dfs"})
              PROVE  (At("run")' => Deep(search)') /\ DepthFirstBounded'
  BY SearchCases DEF DeepInv, Asks
<1>0. query' = query
  BY SearchCases
<1>1. CASE ~Open /\ Reads /\ search' = search /\ SearchTyped(search')
  <2>1. At("done") => DeepAnswer(search')
    BY <1>1 DEF DeepInv, DepthFirstBounded, Answered, DeepAnswer, FoundInReach
  <2>2. ~At("done") => DepthFirstBounded'
    BY <1>0, <1>1 DEF DepthFirstBounded, Answered, At
  <2>. QED
    BY <1>1, <2>1, <2>2, DeepAnswerSame DEF Open, At
<1>2. CASE Open /\ search' = search
  <2>1. At("run") => Deep(search)'
    BY <1>2, SearchCases, DeepGrows DEF DeepInv, Searching
  <2>. QED
    BY <1>2, <2>1 DEF DepthFirstBounded, Answered, At, Open
<1>3. CASE Traverse /\ Reads /\ GoesWell
  <2>0. CheckFrom \/ Exhausted \/ DFS
    <3>1. ~CheckTo
      BY DEF CheckTo, Searching, SearchTyped, At, Asks
    <3>. QED
      BY <1>3, <3>1 DEF Traverse, Asks, ListVertices, BFS, AllSimplePaths, ShortestUnweighted,
         HasCycle, Working
  <2>1. DOMAIN search = {"pc", "agenda", "visited", "notes", "result"} /\ SearchTyped(search')
    BY <1>3 DEF Searching, SearchTyped, GoesWell
  <2>2. CheckFrom => search'.pc # "done"
    BY <2>1, FailTyped DEF CheckFrom, Go
  <2>3. DFS => search'.pc \in {"run", "failed"}
    BY DFSDoes, FailTyped
  <2>4. CASE search'.pc = "run"
    <3>1. CheckFrom \/ DFS
      BY <2>0, <2>4, ExhaustedTyped
    <3>2. DFS => Deep(search)
      BY DFSDoes DEF DeepInv
    <3>3. Deep(search')
      BY <2>4, <3>1, <3>2, DeepBegin, DeepStep
    <3>4. Deep(search)'
      BY <1>3, <2>1, <2>4, <3>3, DeepSame
    <3>. QED
      BY <2>4, <3>4 DEF DepthFirstBounded, Answered, At
  <2>5. CASE search'.pc = "done"
    <3>1. Exhausted
      BY <2>0, <2>2, <2>3, <2>5
    <3>2. Answer(search.result) /\ At("run") /\ search.agenda = <<>>
      BY <3>1 DEF Exhausted, Asks
    <3>3. search'.result = search.result
      BY <2>1, <3>2 DEF Answer, Go
    <3>4. DeepAnswer(search')
      BY <3>2, <3>3, DeepEnd DEF DeepInv, DeepAnswer, FoundInReach
    <3>. QED
      BY <1>3, <2>1, <2>5, <3>4, DeepAnswerSame DEF At
  <2>6. CASE search'.pc \notin {"run", "done"}
    BY <2>6 DEF DepthFirstBounded, Answered, At
  <2>. QED
    BY <2>4, <2>5, <2>6
<1>. QED
  BY <1>1, <1>2, <1>3, SearchCases

(* Depth-first search visits every vertex once, at a depth some walk of    *)
(* that length explains; where the depth cuts nothing off, no vertex is    *)
(* missing that was reachable all the time (dfs.go:11-30).                 *)
THEOREM DepthFirstIsBounded == Spec => []DepthFirstBounded
<1>1. Init => FailInv /\ DeepInv
  <2>. SUFFICES ASSUME Init, Asks({"dfs"}) PROVE ~At("run") /\ ~At("done")
    BY FailInvariance DEF DeepInv, DepthFirstBounded, Answered
  <2>1. search = NewSearch(query) /\ query.kind = "dfs"
    BY DEF Init, Asks
  <2>. QED
    BY <2>1 DEF NewSearch, At
<1>2. FailInv /\ DeepInv /\ [Next]_vars => (FailInv /\ DeepInv)'
  <2>. SUFFICES ASSUME FailInv, DeepInv, [Next]_vars PROVE DeepInv'
    BY FailInvariance
  <2>1. CASE Asks({"dfs"})
    <3>1. Searching
      BY <2>1, FailInvSearching DEF Asks, SearchKinds
    <3>2. History'
      BY <3>1, NextHistory DEF Searching
    <3>. QED
      BY <3>1, <3>2, NextDeep
  <2>2. CASE ~Asks({"dfs"})
    BY <2>2, FailInvSearching DEF DeepInv, Asks
  <2>. QED
    BY <2>1, <2>2
<1>3. DeepInv => DepthFirstBounded
  BY DEF DeepInv, DepthFirstBounded, Answered, Asks
<1>. QED
  BY <1>1, <1>2, <1>3, FailInvariance, PTL DEF Spec

-----------------------------------------------------------------------------
(***************************************************************************)
(* Cycle detection.                                                        *)
(***************************************************************************)

(* Arcs lead on from x to y. *)
LeadsOn(x, y) == \E z : Step(Ever, x, z) /\ \E n \in Nat : y \in Reach(Ever, z, n)

(* The agenda: the roots come last; a call that is under way, waiting for  *)
(* its end, leads on to whatever lies before that end.                     *)
Calls(s, what, id) == \E k \in DOMAIN s.agenda : s.agenda[k].do = what /\ s.agenda[k].id = id
RootsLast(s) ==
    \A j, k \in DOMAIN s.agenda :
        j < k /\ s.agenda[j].do = "root" => s.agenda[k].do = "root"
Chained(s) ==
    \A j, k \in DOMAIN s.agenda :
        j < k /\ s.agenda[k].do = "leave" /\ s.agenda[j].do # "root" =>
            LeadsOn(s.agenda[k].id, s.agenda[j].id)

(* The colours: a grey vertex is one whose call is under way, once, or one *)
(* that was gone when the call came to it; what is left white and has an   *)
(* arc that stays is a root still to come.                                 *)
LeavesGrey(s) == \A k \in DOMAIN s.agenda : s.agenda[k].do = "leave" => s.notes[s.agenda[k].id] = "grey"
LeavesOnce(s) ==
    \A k, l \in DOMAIN s.agenda :
        s.agenda[k].do = "leave" /\ s.agenda[l].do = "leave" /\ s.agenda[k].id = s.agenda[l].id => k = l
GreyOpen(s) ==
    \A x \in VertexIds : s.notes[x] = "grey" => Calls(s, "leave", x) \/ x \in Ids \ DOMAIN vertices
RootsAhead(s) ==
    \A x \in VertexIds : \A y : Step(Always, x, y) /\ s.notes[x] = "white" => Calls(s, "root", x)

(* The arcs that stay: from a call under way each leads to a black vertex  *)
(* or to one that is looked at before the call ends; from a black vertex   *)
(* each leads to a black one, and none leads back.                         *)
LookedAt(s, k, y) == \E j \in DOMAIN s.agenda : j < k /\ s.agenda[j].do # "root" /\ s.agenda[j].id = y
ArcsAhead(s) ==
    \A k \in DOMAIN s.agenda : s.agenda[k].do = "leave" =>
        \A y : Step(Always, s.agenda[k].id, y) => s.notes[y] = "black" \/ LookedAt(s, k, y)
BlackClosed(s) ==
    \A x \in VertexIds : s.notes[x] = "black" =>
        \A y : Step(Always, x, y) => s.notes[y] = "black"
BlackClear(s) ==
    \A x \in VertexIds : s.notes[x] = "black" =>
        \A y : Step(Always, x, y) => \A n \in Nat : x \notin Reach(Always, y, n)

Colours(s) ==
    /\ RootsLast(s) /\ Chained(s) /\ LeavesGrey(s) /\ LeavesOnce(s) /\ GreyOpen(s) /\ RootsAhead(s)
    /\ ArcsAhead(s) /\ BlackClosed(s) /\ BlackClear(s)

ColoursInv == Asks({"cycle"}) => (At("run") => Colours(search)) /\ CycleBounded

(* An identifier is not given again to another vertex. *)
LEMMA GoneStays ==
    ASSUME History, [Next]_vars, NEW x \in Ids \ DOMAIN vertices
    PROVE  x \in Ids' \ DOMAIN vertices'
<1>1. x \in Ids'
  BY NextMoves DEF Moves
<1>2. CASE UNCHANGED vars
  BY <1>1, <1>2 DEF vars
<1>3. CASE Handle
  BY <1>1, <1>3, HandleReads DEF Reads
<1>4. CASE \E c \in VertexContents : CreateVertex(c)
  <2>1. PICK c \in VertexContents : vertices' = G!With(vertices, Max(Ids \cup {0}) + 1, c)
    BY <1>4 DEF CreateVertex, G!AddVertex
  <2>2. DOMAIN vertices' = DOMAIN vertices \cup {Max(Ids \cup {0}) + 1}
    BY <2>1 DEF G!With
  <2>. QED
    BY <1>1, <2>2, FreshIds
<1>5. ASSUME NEW id, NEW c, UpdateVertex(id, c)
      PROVE  x \notin DOMAIN vertices'
  BY <1>5 DEF UpdateVertex, G!ChangeVertex, G!With
<1>6. CASE \E id \in VertexIds : DeleteVertex(id)
  <2>1. PICK id \in VertexIds : vertices' = G!Minus(vertices, {id})
    BY <1>6 DEF DeleteVertex, G!RemoveVertex
  <2>2. DOMAIN vertices' = DOMAIN vertices \ {id}
    BY <2>1, MinusFacts
  <2>. QED
    BY <1>1, <2>2
<1>7. CASE \E from, to \in VertexIds, label \in EdgeLabels : CreateEdge(from, to, label)
  BY <1>1, <1>7 DEF CreateEdge, G!AddEdge
<1>8. CASE \E id \in EdgeIds : DeleteEdge(id)
  BY <1>1, <1>8 DEF DeleteEdge, G!RemoveEdge
<1>9. CASE \E id \in VertexIds, c \in VertexContents : LookupDuringUpdate(id, c)
  BY <1>1, <1>5, <1>9 DEF LookupDuringUpdate
<1>. QED
  BY <1>1, <1>2, <1>3, <1>4, <1>5, <1>6, <1>7, <1>8, <1>9 DEF Next, Write

LEMMA ColoursSame ==
    ASSUME Reads, Colours(search')
    PROVE  Colours(search)'
<1>1. Ids' = Ids /\ vertices' = vertices
  BY ReadsSame DEF Reads
<1>2. \A x, y : LeadsOn(x, y) => LeadsOn(x, y)'
  BY ReadsReach, ReadsStep DEF LeadsOn
<1>3. Chained(search)'
  BY <1>2 DEF Colours, Chained
<1>4. GreyOpen(search)' /\ RootsAhead(search)'
  BY <1>1, ReadsStep DEF Colours, GreyOpen, RootsAhead, Calls
<1>5. ArcsAhead(search)' /\ BlackClosed(search)'
  BY ReadsStep DEF Colours, ArcsAhead, LookedAt, BlackClosed
<1>6. BlackClear(search)'
  BY ReadsStep, ReadsReach DEF Colours, BlackClear
<1>. QED
  BY <1>3, <1>4, <1>5, <1>6 DEF Colours, RootsLast, LeavesGrey, LeavesOnce

LEMMA ColoursGrow ==
    ASSUME History, [Next]_vars, UNCHANGED search, Colours(search)
    PROVE  Colours(search)'
<1>1. Moves
  BY NextMoves
<1>2. \A x, y : LeadsOn(x, y) => LeadsOn(x, y)'
  BY <1>1, ReachMoves, StepsMove DEF LeadsOn
<1>3. Chained(search)'
  BY <1>2 DEF Colours, Chained
<1>4. GreyOpen(search)' /\ RootsAhead(search)'
  BY <1>1, GoneStays, StepsMove DEF Colours, GreyOpen, RootsAhead, Calls
<1>5. ArcsAhead(search)' /\ BlackClosed(search)'
  BY <1>1, StepsMove DEF Colours, ArcsAhead, LookedAt, BlackClosed
<1>6. BlackClear(search)'
  BY <1>1, StepsMove, ReachMoves DEF Colours, BlackClear
<1>. QED
  BY <1>3, <1>4, <1>5, <1>6 DEF Colours, RootsLast, LeavesGrey, LeavesOnce

LEMMA ColoursBegin ==
    ASSUME Searching, Asks({"cycle"}), ListVertices
    PROVE  Colours(search')
<1>1. PICK ids : /\ Lists(ids, DOMAIN vertices) /\ search'.agenda = Roots(ids)
                 /\ search'.notes = [id \in VertexIds |-> "white"]
  BY ListVerticesDoes DEF Asks
<1>2. /\ DOMAIN search'.agenda = DOMAIN ids
      /\ \A k \in DOMAIN ids : search'.agenda[k].do = "root" /\ search'.agenda[k].id = ids[k]
  BY <1>1 DEF Roots
<1>3. \A x \in VertexIds : search'.notes[x] = "white"
  BY <1>1
<1>4. RootsAhead(search')
  <2>. SUFFICES ASSUME NEW x \in VertexIds, NEW y, Step(Always, x, y)
                PROVE  Calls(search', "root", x)
    BY DEF RootsAhead
  <2>1. x \in DOMAIN vertices
    BY StepsBetween DEF Searching
  <2>2. PICK k \in DOMAIN ids : ids[k] = x
    BY <1>1, <2>1 DEF Lists
  <2>. QED
    BY <1>2, <2>2 DEF Calls
<1>5. RootsLast(search') /\ Chained(search') /\ LeavesGrey(search') /\ LeavesOnce(search')
      /\ ArcsAhead(search')
  BY <1>2 DEF RootsLast, Chained, LeavesGrey, LeavesOnce, ArcsAhead
<1>6. GreyOpen(search') /\ BlackClosed(search') /\ BlackClear(search')
  BY <1>3 DEF GreyOpen, BlackClosed, BlackClear
<1>. QED
  BY <1>4, <1>5, <1>6 DEF Colours

(* What HasCycle puts in front of the rest of its agenda: nothing, or a    *)
(* look at every neighbour of id and the end of the call.                  *)
Begun(F, id) ==
    \A j \in DOMAIN F : \/ F[j].do = "look" /\ Step(edges, id, F[j].id)
                        \/ F[j].do = "leave" /\ F[j].id = id /\ j = Len(F)
Entered(F, id) ==
    /\ \E j \in DOMAIN F : F[j].do = "leave" /\ F[j].id = id
    /\ \A j \in DOMAIN F : F[j].do = "leave" =>
          \A y \in Neighbors(id) : \E l \in DOMAIN F : l < j /\ F[l].do = "look" /\ F[l].id = y
Turns(id, colour) == \A x \in VertexIds : search'.notes[x] = IF x = id THEN colour ELSE search.notes[x]

(* The four ways a call goes on. *)
Visited(F) ==
    /\ Joined(search'.agenda, F, Rest) /\ Begun(F, Item.id)
    /\ \/ Item.do = "leave" /\ DOMAIN F = {} /\ Turns(Item.id, "black")
       \/ /\ Item.do # "leave" /\ search.notes[Item.id] = "white" /\ Turns(Item.id, "grey")
          /\ \/ DOMAIN F = {} /\ ~HasVertex(Item.id)
             \/ Entered(F, Item.id)
       \/ /\ Item.do # "leave" /\ search.notes[Item.id] # "white" /\ DOMAIN F = {}
          /\ Item.do = "look" => search.notes[Item.id] # "grey"
          /\ search'.notes = search.notes

LEMMA CycleVisits ==
    ASSUME Searching, HasCycle, search'.pc = "run"
    PROVE  \E F : Visited(F)
<1>1. /\ Item \in CallType /\ Rest \in Seq(CallType) /\ Item.id \in Ids
      /\ search.notes \in [VertexIds -> {"white", "grey", "black"}] /\ Item.id \in VertexIds
  BY CycleDoes, RunFacts, IdsFacts DEF NotesTyped, Asks, Searching
<1>2. ASSUME NEW c, search'.notes = Coloured(search, Item.id, c)
      PROVE  Turns(Item.id, c)
  BY <1>1, <1>2 DEF Turns, Coloured
<1>3. ASSUME search'.agenda = Rest
      PROVE  Joined(search'.agenda, <<>>, Rest) /\ Begun(<<>>, Item.id) /\ DOMAIN <<>> = {}
  <2>1. /\ Len(<<>>) = 0 /\ DOMAIN <<>> = {} /\ DOMAIN Rest = 1..Len(Rest) /\ Len(Rest) \in Nat
    BY <1>1, LenProperties
  <2>2. \A k \in DOMAIN Rest : k \in Nat /\ 1 =< k /\ 0 + k = k
    BY <2>1
  <2>. QED
    BY <1>3, <2>1, <2>2 DEF Joined, Begun
<1>4. ASSUME NEW all, Lists(all, Neighbors(Item.id)),
             search'.agenda = (Looks(all) \o Leave(Item.id)) \o Rest
      PROVE  \E F : Joined(search'.agenda, F, Rest) /\ Begun(F, Item.id) /\ Entered(F, Item.id)
  <2> DEFINE F == Looks(all) \o Leave(Item.id)
  <2>1. /\ all \in Seq(Ids) /\ \A k \in DOMAIN all : all[k] \in Neighbors(Item.id)
        /\ \A y \in Neighbors(Item.id) : \E k \in DOMAIN all : all[k] = y
    BY <1>4 DEF Lists
  <2>2. /\ Looks(all) \in Seq(CallType) /\ DOMAIN Looks(all) = DOMAIN all
        /\ \A k \in DOMAIN all : Looks(all)[k] = [do |-> "look", id |-> all[k]]
    BY <2>1, LooksFacts
  <2>3. /\ Leave(Item.id) \in Seq(CallType) /\ Len(Leave(Item.id)) = 1 /\ DOMAIN Leave(Item.id) = {1}
        /\ Leave(Item.id)[1] = [do |-> "leave", id |-> Item.id]
    BY <1>1, LeaveFacts
  <2>4. /\ F \in Seq(CallType) /\ Joined(F, Looks(all), Leave(Item.id))
        /\ Len(F) = Len(Looks(all)) + 1
    BY <2>2, <2>3, Joins, ConcatFacts
  <2>5. Joined(search'.agenda, F, Rest)
    BY <1>1, <1>4, <2>4, Joins
  <2>. HIDE DEF F
  <2>6. /\ \A k \in DOMAIN all : /\ k \in Nat /\ k =< Len(Looks(all)) /\ k \in DOMAIN F
                                 /\ F[k].do = "look" /\ F[k].id = all[k]
        /\ Len(Looks(all)) \in Nat
        /\ Len(Looks(all)) + 1 \in DOMAIN F
        /\ F[Len(Looks(all)) + 1].do = "leave" /\ F[Len(Looks(all)) + 1].id = Item.id
        /\ \A j \in DOMAIN F : \/ j \in DOMAIN all
                               \/ j = Len(Looks(all)) + 1
    BY <2>2, <2>3, <2>4 DEF Joined
  <2>7. Begun(F, Item.id)
    BY <2>1, <2>4, <2>6, NeighborsAreSteps DEF Begun
  <2>8. Entered(F, Item.id)
    <3>1. ASSUME NEW j \in DOMAIN F, F[j].do = "leave", NEW y \in Neighbors(Item.id)
          PROVE  \E l \in DOMAIN F : l < j /\ F[l].do = "look" /\ F[l].id = y
      <4>1. j = Len(Looks(all)) + 1
        BY <2>6, <3>1
      <4>2. PICK l \in DOMAIN all : all[l] = y
        BY <2>1
      <4>3. l < j
        BY <2>6, <4>1, <4>2
      <4>. QED
        BY <2>6, <4>2, <4>3
    <3>. QED
      BY <2>6, <3>1 DEF Entered
  <2>. QED
    BY <2>5, <2>7, <2>8
<1>5. ~Answer(TRUE)
  BY AnswerTyped, CycleDoes DEF Asks
<1>6. CASE /\ Item.do # "leave" /\ search.notes[Item.id] = "white"
           /\ search'.notes = Coloured(search, Item.id, "grey")
           /\ \E all : /\ Lists(all, Neighbors(Item.id))
                       /\ search'.agenda = (Looks(all) \o Leave(Item.id)) \o Rest
  <2>1. PICK F : Joined(search'.agenda, F, Rest) /\ Begun(F, Item.id) /\ Entered(F, Item.id)
    BY <1>4, <1>6
  <2>2. Turns(Item.id, "grey")
    BY <1>2, <1>6
  <2>3. Visited(F)
    BY <1>6, <2>1, <2>2 DEF Visited
  <2>. QED
    BY <2>3
<1>7. ASSUME search'.agenda = Rest,
             \/ Item.do = "leave" /\ search'.notes = Coloured(search, Item.id, "black")
             \/ /\ Item.do # "leave" /\ search.notes[Item.id] = "white" /\ ~HasVertex(Item.id)
                /\ search'.notes = Coloured(search, Item.id, "grey")
             \/ /\ Item.do # "leave" /\ search.notes[Item.id] # "white"
                /\ Item.do = "look" => search.notes[Item.id] # "grey"
                /\ search'.notes = search.notes
      PROVE  \E F : Visited(F)
  <2>1. Visited(<<>>)
    BY <1>2, <1>3, <1>7 DEF Visited
  <2>. QED
    BY <2>1
<1>. QED
  BY <1>5, <1>6, <1>7, CycleDoes

(* The places of the agenda before and after. *)
LEMMA CallsPlaced ==
    ASSUME Searching, HasCycle, NEW F, Joined(search'.agenda, F, Rest)
    PROVE  LET a == search.agenda
               b == search'.agenda
           IN  /\ 1 \in DOMAIN a /\ Item = a[1] /\ Len(F) \in Nat
               /\ \A k \in DOMAIN Rest : k \in Nat /\ k + 1 \in DOMAIN a /\ 1 < k + 1 /\ Rest[k] = a[k + 1]
               /\ \A k \in DOMAIN a : k \in Nat /\ (k = 1 \/ (k - 1 \in DOMAIN Rest /\ a[k] = Rest[k - 1]))
               /\ \A j \in DOMAIN F : j \in Nat /\ j =< Len(F) /\ j \in DOMAIN b /\ b[j] = F[j]
               /\ \A k \in DOMAIN Rest : Len(F) + k \in DOMAIN b /\ b[Len(F) + k] = Rest[k]
               /\ \A i \in DOMAIN b : \/ i \in DOMAIN F /\ b[i] = F[i]
                                      \/ \E k \in DOMAIN Rest : i = Len(F) + k /\ b[i] = Rest[k]
<1>1. search.agenda \in Seq(CallType) /\ search.agenda # <<>> /\ Rest \in Seq(CallType)
  BY CycleDoes
<1>2. /\ 1 \in DOMAIN search.agenda /\ Item = search.agenda[1]
      /\ \A k \in DOMAIN Rest : /\ k \in Nat /\ k + 1 \in DOMAIN search.agenda
                                /\ Rest[k] = search.agenda[k + 1]
      /\ \A k \in DOMAIN search.agenda :
            k = 1 \/ (k - 1 \in DOMAIN Rest /\ Rest[k - 1] = search.agenda[k])
  BY <1>1, TailFacts DEF Item, Rest
<1>3. \A k \in DOMAIN Rest : 1 < k + 1
  <2>1. \A k \in DOMAIN Rest : k \in Nat /\ 1 =< k
    BY DEF Joined
  <2>. QED
    BY <2>1
<1>4. \A k \in DOMAIN search.agenda : k \in Nat
  BY <1>1, LenProperties
<1>5. /\ Len(F) \in Nat
      /\ \A j \in DOMAIN F : j \in Nat /\ j =< Len(F) /\ j \in DOMAIN search'.agenda /\ search'.agenda[j] = F[j]
      /\ \A k \in DOMAIN Rest : /\ Len(F) + k \in DOMAIN search'.agenda
                                /\ search'.agenda[Len(F) + k] = Rest[k]
      /\ \A i \in DOMAIN search'.agenda : \/ i \in DOMAIN F /\ search'.agenda[i] = F[i]
                                          \/ \E k \in DOMAIN Rest : i = Len(F) + k /\ search'.agenda[i] = Rest[k]
  BY DEF Joined
<1>. QED
  BY <1>2, <1>3, <1>4, <1>5

LEMMA LeadsFurther ==
    ASSUME NEW x, NEW y, NEW z, LeadsOn(x, y), Step(Ever, y, z)
    PROVE  LeadsOn(x, z)
<1>1. PICK w : Step(Ever, x, w) /\ \E n \in Nat : y \in Reach(Ever, w, n)
  BY DEF LeadsOn
<1>2. PICK n \in Nat : y \in Reach(Ever, w, n)
  BY <1>1
<1>3. z \in Reach(Ever, w, n + 1) /\ n + 1 \in Nat
  BY <1>2, ReachMore
<1>. QED
  BY <1>1, <1>3 DEF LeadsOn

LEMMA StepLeads ==
    ASSUME NEW x, NEW y, Step(Ever, x, y)
    PROVE  LeadsOn(x, y)
<1>1. y \in Reach(Ever, y, 0)
  BY ReachSteps
<1>. QED
  BY <1>1 DEF LeadsOn

LEMMA OrderKept ==
    ASSUME Searching, HasCycle, RootsLast(search), Chained(search), NEW F, Visited(F)
    PROVE  RootsLast(search') /\ Chained(search')
<1> DEFINE a == search.agenda
           b == search'.agenda
           x == Item.id
<1>1. /\ 1 \in DOMAIN a /\ Item = a[1] /\ Len(F) \in Nat
      /\ \A k \in DOMAIN Rest : k \in Nat /\ k + 1 \in DOMAIN a /\ 1 < k + 1 /\ Rest[k] = a[k + 1]
      /\ \A j \in DOMAIN F : j \in Nat /\ j =< Len(F) /\ j \in DOMAIN b /\ b[j] = F[j]
      /\ \A i \in DOMAIN b : \/ i \in DOMAIN F /\ b[i] = F[i]
                             \/ \E k \in DOMAIN Rest : i = Len(F) + k /\ b[i] = Rest[k]
  BY CallsPlaced DEF Visited
<1>2. \A j \in DOMAIN F : \/ F[j].do = "look" /\ Step(edges, x, F[j].id)
                          \/ F[j].do = "leave" /\ F[j].id = x /\ j = Len(F)
  BY DEF Visited, Begun
<1>3. /\ \A j, k \in DOMAIN a : j < k /\ a[j].do = "root" => a[k].do = "root"
      /\ \A j, k \in DOMAIN a : j < k /\ a[k].do = "leave" /\ a[j].do # "root" => LeadsOn(a[k].id, a[j].id)
  BY DEF RootsLast, Chained
<1>. HIDE DEF a, b, x
<1>4. ASSUME NEW j \in DOMAIN b, NEW k \in DOMAIN b, j < k, b[j].do = "root"
      PROVE  b[k].do = "root"
  <2>1. PICK i \in DOMAIN Rest : j = Len(F) + i /\ b[j] = Rest[i]
    BY <1>1, <1>2, <1>4
  <2>2. k \notin DOMAIN F
    BY <1>1, <1>4, <2>1
  <2>3. PICK l \in DOMAIN Rest : k = Len(F) + l /\ b[k] = Rest[l]
    BY <1>1, <2>2
  <2>4. i + 1 < l + 1
    BY <1>1, <1>4, <2>1, <2>3
  <2>. QED
    BY <1>1, <1>3, <1>4, <2>1, <2>3, <2>4
<1>5. ASSUME NEW j \in DOMAIN b, NEW k \in DOMAIN b, j < k, b[k].do = "leave", b[j].do # "root"
      PROVE  LeadsOn(b[k].id, b[j].id)
  <2>1. CASE k \in DOMAIN F
    <3>1. j \in DOMAIN F
      <4>1. ASSUME NEW i \in DOMAIN Rest, j = Len(F) + i
            PROVE  FALSE
        BY <1>1, <1>5, <2>1, <4>1
      <4>. QED
        BY <1>1, <4>1
    <3>2. b[k] = F[k] /\ b[j] = F[j] /\ j < Len(F)
      BY <1>1, <1>5, <2>1, <3>1
    <3>3. F[k].id = x /\ Step(edges, x, F[j].id)
      BY <1>1, <1>2, <1>5, <2>1, <3>1, <3>2
    <3>4. Step(Ever, x, F[j].id)
      BY <3>3, StepsBetween DEF Searching
    <3>. QED
      BY <3>2, <3>3, <3>4, StepLeads
  <2>2. ASSUME NEW l \in DOMAIN Rest, k = Len(F) + l, b[k] = Rest[l]
        PROVE  LeadsOn(b[k].id, b[j].id)
    <3>1. a[l + 1].do = "leave" /\ l + 1 \in DOMAIN a /\ b[k] = a[l + 1] /\ 1 < l + 1 /\ l \in Nat
      BY <1>1, <1>5, <2>2
    <3>2. CASE j \in DOMAIN F
      <4>1. DOMAIN F # {}
        BY <3>2
      <4>2. Item.do # "root"
        BY <1>1, <1>3, <3>1
      <4>3. LeadsOn(a[l + 1].id, x)
        BY <1>1, <1>3, <3>1, <4>2 DEF x
      <4>4. CASE Step(edges, x, F[j].id)
        <5>1. Step(Ever, x, F[j].id)
          BY <4>4, StepsBetween DEF Searching
        <5>. QED
          BY <1>1, <3>1, <3>2, <4>3, <5>1, LeadsFurther
      <4>5. CASE F[j].id = x
        BY <1>1, <3>1, <3>2, <4>3, <4>5
      <4>. QED
        BY <1>2, <3>2, <4>4, <4>5
    <3>3. ASSUME NEW i \in DOMAIN Rest, j = Len(F) + i, b[j] = Rest[i]
          PROVE  LeadsOn(b[k].id, b[j].id)
      <4>1. i + 1 < l + 1 /\ i + 1 \in DOMAIN a /\ b[j] = a[i + 1]
        BY <1>1, <1>5, <2>2, <3>1, <3>3
      <4>. QED
        BY <1>3, <1>5, <3>1, <4>1
    <3>. QED
      BY <1>1, <3>2, <3>3
  <2>. QED
    BY <1>1, <2>1, <2>2
<1>. QED
  BY <1>4, <1>5 DEF RootsLast, Chained, b

LEMMA LeavesKept ==
    ASSUME Searching, HasCycle, Colours(search), NEW F, Visited(F)
    PROVE  LeavesGrey(search') /\ LeavesOnce(search') /\ GreyOpen(search') /\ RootsAhead(search')
<1> DEFINE a == search.agenda
           b == search'.agenda
           n == search.notes
           m == search'.notes
           x == Item.id
<1>1. /\ 1 \in DOMAIN a /\ Item = a[1] /\ Len(F) \in Nat
      /\ \A k \in DOMAIN Rest : k \in Nat /\ k + 1 \in DOMAIN a /\ 1 < k + 1 /\ Rest[k] = a[k + 1]
      /\ \A k \in DOMAIN a : k \in Nat /\ (k = 1 \/ (k - 1 \in DOMAIN Rest /\ a[k] = Rest[k - 1]))
      /\ \A j \in DOMAIN F : j \in Nat /\ j =< Len(F) /\ j \in DOMAIN b /\ b[j] = F[j]
      /\ \A k \in DOMAIN Rest : Len(F) + k \in DOMAIN b /\ b[Len(F) + k] = Rest[k]
      /\ \A i \in DOMAIN b : \/ i \in DOMAIN F /\ b[i] = F[i]
                             \/ \E k \in DOMAIN Rest : i = Len(F) + k /\ b[i] = Rest[k]
  BY CallsPlaced DEF Visited
<1>2. \A j \in DOMAIN F : F[j].do = "look" \/ (F[j].do = "leave" /\ F[j].id = x /\ j = Len(F))
  BY DEF Visited, Begun
<1>3. \/ Item.do = "leave" /\ DOMAIN F = {} /\ Turns(x, "black")
      \/ /\ Item.do # "leave" /\ n[x] = "white" /\ Turns(x, "grey")
         /\ (DOMAIN F = {} /\ ~HasVertex(x)) \/ Entered(F, x)
      \/ Item.do # "leave" /\ n[x] # "white" /\ DOMAIN F = {} /\ m = n
  BY DEF Visited
<1>4. /\ \A k \in DOMAIN a : a[k].do = "leave" => n[a[k].id] = "grey"
      /\ \A k, l \in DOMAIN a : a[k].do = "leave" /\ a[l].do = "leave" /\ a[k].id = a[l].id => k = l
      /\ \A y \in VertexIds : n[y] = "grey" => Calls(search, "leave", y) \/ y \in Ids \ DOMAIN vertices
      /\ \A y \in VertexIds : \A z : Step(Always, y, z) /\ n[y] = "white" => Calls(search, "root", y)
  BY DEF Colours, LeavesGrey, LeavesOnce, GreyOpen, RootsAhead
<1>5. /\ x \in Ids /\ Ids \subseteq VertexIds
      /\ \A k \in DOMAIN a : a[k].id \in VertexIds
  <2>1. a \in Seq(CallType) /\ x \in Ids /\ Ids \subseteq VertexIds
    BY CycleDoes, IdsFacts DEF Searching
  <2>2. \A k \in DOMAIN a : a[k] \in CallType
    BY <2>1, LenProperties, ElementOfSeq
  <2>. QED
    BY <2>1, <2>2 DEF CallType
<1>6. \A what, id : Calls(search, what, id) =>
          (Item.do = what /\ x = id) \/ \E k \in DOMAIN Rest : Rest[k].do = what /\ Rest[k].id = id
  BY <1>1 DEF Calls
<1>7. \A k \in DOMAIN Rest : Calls(search', Rest[k].do, Rest[k].id)
  BY <1>1 DEF Calls
<1>. HIDE DEF a, b, n, m, x
<1>8. ASSUME NEW k \in DOMAIN Rest, Rest[k].do = "leave"
      PROVE  m[Rest[k].id] = "grey" /\ (n[x] = "white" => Rest[k].id # x) /\ Rest[k].id \in VertexIds
             /\ (Item.do = "leave" => Rest[k].id # x)
  <2>1. n[Rest[k].id] = "grey" /\ Rest[k].id \in VertexIds
    BY <1>1, <1>4, <1>5, <1>8
  <2>2. Item.do = "leave" => Rest[k].id # x
    BY <1>1, <1>4, <1>8 DEF x
  <2>. QED
    BY <1>3, <2>1, <2>2 DEF Turns, n, m
<1>9. ASSUME NEW k \in DOMAIN b, b[k].do = "leave"
      PROVE  m[b[k].id] = "grey"
  <2>1. CASE k \in DOMAIN F
    <3>1. b[k].id = x /\ DOMAIN F # {}
      BY <1>1, <1>2, <1>9, <2>1
    <3>. QED
      BY <1>3, <1>5, <3>1 DEF Turns, m
  <2>. QED
    BY <1>1, <1>8, <1>9, <2>1
<1>10. ASSUME NEW k \in DOMAIN b, NEW l \in DOMAIN b,
              b[k].do = "leave", b[l].do = "leave", b[k].id = b[l].id
       PROVE  k = l
  <2>1. ASSUME NEW i \in DOMAIN F, F[i].do = "leave", NEW j \in DOMAIN Rest, Rest[j].do = "leave"
        PROVE  F[i].id # Rest[j].id
    <3>1. F[i].id = x /\ DOMAIN F # {}
      BY <1>2, <2>1
    <3>. QED
      BY <1>3, <1>8, <2>1, <3>1
  <2>2. CASE k \in DOMAIN F /\ l \in DOMAIN F
    BY <1>1, <1>2, <1>10, <2>2
  <2>3. ASSUME NEW i \in DOMAIN Rest, k = Len(F) + i, b[k] = Rest[i],
               NEW j \in DOMAIN Rest, l = Len(F) + j, b[l] = Rest[j]
        PROVE  k = l
    <3>1. i + 1 = j + 1
      BY <1>1, <1>4, <1>10, <2>3
    <3>. QED
      BY <1>1, <2>3, <3>1
  <2>. QED
    BY <1>1, <1>10, <2>1, <2>2, <2>3
<1>11. ASSUME NEW y \in VertexIds, m[y] = "grey"
       PROVE  Calls(search', "leave", y) \/ y \in Ids \ DOMAIN vertices
  <2>1. CASE n[y] = "grey" /\ ~(Item.do = "leave" /\ y = x)
    BY <1>4, <1>6, <1>7, <2>1
  <2>2. CASE y = x /\ Item.do # "leave" /\ n[x] = "white"
    <3>1. CASE ~HasVertex(x)
      BY <1>5, <2>2, <3>1 DEF HasVertex
    <3>2. CASE Entered(F, x)
      BY <1>1, <2>2, <3>2 DEF Entered, Calls, b
    <3>. QED
      BY <1>3, <2>2, <3>1, <3>2
  <2>. QED
    BY <1>3, <1>11, <2>1, <2>2 DEF Turns, n, m
<1>12. ASSUME NEW y \in VertexIds, NEW z, Step(Always, y, z), m[y] = "white"
       PROVE  Calls(search', "root", y)
  <2>1. n[y] = "white" /\ ~(Item.do # "leave" /\ y = x)
    BY <1>3, <1>12 DEF Turns, n, m
  <2>2. Calls(search, "root", y)
    BY <1>4, <1>12, <2>1
  <2>. QED
    BY <1>6, <1>7, <2>1, <2>2
<1>. QED
  BY <1>9, <1>10, <1>11, <1>12 DEF LeavesGrey, LeavesOnce, GreyOpen, RootsAhead, b, m

LEMMA ArcsKept ==
    ASSUME Searching, HasCycle, Colours(search), NEW F, Visited(F)
    PROVE  ArcsAhead(search')
<1> DEFINE a == search.agenda
           b == search'.agenda
           n == search.notes
           m == search'.notes
           x == Item.id
<1>1. /\ 1 \in DOMAIN a /\ Item = a[1] /\ Len(F) \in Nat
      /\ \A k \in DOMAIN Rest : k \in Nat /\ k + 1 \in DOMAIN a /\ 1 < k + 1 /\ Rest[k] = a[k + 1]
      /\ \A k \in DOMAIN a : k \in Nat /\ (k = 1 \/ (k - 1 \in DOMAIN Rest /\ a[k] = Rest[k - 1]))
      /\ \A j \in DOMAIN F : j \in Nat /\ j =< Len(F) /\ j \in DOMAIN b /\ b[j] = F[j]
      /\ \A k \in DOMAIN Rest : Len(F) + k \in DOMAIN b /\ b[Len(F) + k] = Rest[k]
      /\ \A i \in DOMAIN b : \/ i \in DOMAIN F /\ b[i] = F[i]
                             \/ \E k \in DOMAIN Rest : i = Len(F) + k /\ b[i] = Rest[k]
  BY CallsPlaced DEF Visited
<1>2. \A j \in DOMAIN F : F[j].do = "look" \/ (F[j].do = "leave" /\ F[j].id = x /\ j = Len(F))
  BY DEF Visited, Begun
<1>3. \/ Item.do = "leave" /\ DOMAIN F = {} /\ Turns(x, "black")
      \/ /\ Item.do # "leave" /\ n[x] = "white" /\ Turns(x, "grey")
         /\ (DOMAIN F = {} /\ ~HasVertex(x)) \/ Entered(F, x)
      \/ /\ Item.do # "leave" /\ n[x] # "white" /\ DOMAIN F = {} /\ m = n
         /\ Item.do = "look" => n[x] # "grey"
  BY DEF Visited
<1>4. \A k \in DOMAIN a : a[k].do = "leave" =>
          \A y : Step(Always, a[k].id, y) =>
                    n[y] = "black" \/ \E j \in DOMAIN a : j < k /\ a[j].do # "root" /\ a[j].id = y
  BY DEF Colours, ArcsAhead, LookedAt
<1>5. x \in VertexIds /\ Item.do \in {"root", "look", "leave"} /\ n[x] \in {"white", "grey", "black"}
  <2>1. /\ Item \in CallType /\ x \in Ids /\ Ids \subseteq VertexIds
        /\ n \in [VertexIds -> {"white", "grey", "black"}]
    BY CycleDoes, IdsFacts, RunFacts DEF Searching, NotesTyped, Asks
  <2>. QED
    BY <2>1 DEF CallType
<1>. HIDE DEF a, b, n, m, x
<1>6. ASSUME NEW k \in DOMAIN b, b[k].do = "leave", NEW y, Step(Always, b[k].id, y)
      PROVE  m[y] = "black" \/ \E j \in DOMAIN b : j < k /\ b[j].do # "root" /\ b[j].id = y
  <2>1. HasVertex(y) /\ y \in VertexIds
    BY <1>6, StepsBetween, NowFacts DEF Searching, HasVertex
  <2>2. CASE k \in DOMAIN F
    <3>1. F[k].do = "leave" /\ b[k].id = x /\ DOMAIN F # {}
      BY <1>1, <1>2, <1>6, <2>2
    <3>2. Entered(F, x)
      BY <1>3, <3>1
    <3>3. y \in Neighbors(x)
      BY <1>6, <3>1, NeighborsAreSteps, StepsBetween DEF Searching
    <3>4. PICK l \in DOMAIN F : l < k /\ F[l].do = "look" /\ F[l].id = y
      BY <2>2, <3>1, <3>2, <3>3 DEF Entered
    <3>. QED
      BY <1>1, <3>4
  <2>3. ASSUME NEW i \in DOMAIN Rest, k = Len(F) + i, b[k] = Rest[i]
        PROVE  m[y] = "black" \/ \E j \in DOMAIN b : j < k /\ b[j].do # "root" /\ b[j].id = y
    <3>1. a[i + 1].do = "leave" /\ i + 1 \in DOMAIN a /\ i \in Nat /\ b[k].id = a[i + 1].id
      BY <1>1, <1>6, <2>3
    <3>2. n[y] = "black" \/ \E j \in DOMAIN a : j < i + 1 /\ a[j].do # "root" /\ a[j].id = y
      BY <1>4, <1>6, <3>1
    <3>3. CASE n[y] = "black"
      <4>1. m[y] = "black"
        BY <1>3, <2>1, <3>3 DEF Turns, n, m
      <4>. QED
        BY <4>1
    <3>4. ASSUME NEW j \in DOMAIN a, j < i + 1, a[j].do # "root", a[j].id = y, j # 1
          PROVE  \E l \in DOMAIN b : l < k /\ b[l].do # "root" /\ b[l].id = y
      <4>1. j - 1 \in DOMAIN Rest /\ a[j] = Rest[j - 1] /\ j \in Nat
        BY <1>1, <3>4
      <4>2. /\ Len(F) + (j - 1) \in DOMAIN b /\ Len(F) + (j - 1) < k
            /\ b[Len(F) + (j - 1)] = Rest[j - 1]
        BY <1>1, <2>3, <3>1, <3>4, <4>1
      <4>. QED
        BY <3>4, <4>1, <4>2
    <3>5. CASE Item.do # "root" /\ x = y
      <4>1. CASE Item.do = "leave"
        <5>1. m[y] = "black"
          BY <1>3, <1>5, <3>5, <4>1 DEF Turns, m
        <5>. QED
          BY <5>1
      <4>2. CASE Item.do # "leave" /\ n[x] = "white"
        <5>1. Entered(F, x)
          BY <1>3, <2>1, <3>5, <4>2
        <5>2. PICK l \in DOMAIN F : F[l].do = "leave" /\ F[l].id = x
          BY <5>1 DEF Entered
        <5>3. l < k
          <6>1. 1 =< i
            BY <1>1, <3>1
          <6>. QED
            BY <1>1, <2>3, <3>1, <6>1
        <5>. QED
          BY <1>1, <3>5, <5>2, <5>3
      <4>3. CASE Item.do # "leave" /\ n[x] # "white"
        <5>1. m = n /\ n[x] # "grey"
          BY <1>3, <1>5, <3>5, <4>3
        <5>. QED
          BY <1>5, <3>5, <4>3, <5>1
      <4>. QED
        BY <4>1, <4>2, <4>3
    <3>. QED
      BY <1>1, <3>2, <3>3, <3>4, <3>5 DEF x
  <2>. QED
    BY <1>1, <2>2, <2>3
<1>. QED
  BY <1>6 DEF ArcsAhead, LookedAt, b, m

LEMMA BlacksKept ==
    ASSUME Searching, HasCycle, Colours(search), NEW F, Visited(F)
    PROVE  BlackClosed(search') /\ BlackClear(search')
<1> DEFINE a == search.agenda
           n == search.notes
           m == search'.notes
           x == Item.id
           B == {y \in VertexIds : n[y] = "black"}
<1>1. 1 \in DOMAIN a /\ Item = a[1] /\ \A k \in DOMAIN a : k \in Nat /\ ~(k < 1)
  <2>1. 1 \in DOMAIN a /\ Item = a[1] /\ a \in Seq(CallType)
    BY CallsPlaced, CycleDoes DEF Visited
  <2>2. DOMAIN a = 1..Len(a) /\ Len(a) \in Nat
    BY <2>1, LenProperties
  <2>. QED
    BY <2>1, <2>2
<1>2. \/ Item.do = "leave" /\ Turns(x, "black")
      \/ /\ Item.do # "leave"
         /\ \A y \in VertexIds : m[y] = "black" <=> n[y] = "black"
  BY DEF Visited, Turns
<1>3. x \in VertexIds
  BY CycleDoes, IdsFacts DEF Searching
<1>4. \A y \in VertexIds : \A z : Step(Always, y, z) => z \in VertexIds
  BY StepsBetween, NowFacts DEF Searching
<1>5. /\ \A y \in VertexIds : n[y] = "black" => \A z : Step(Always, y, z) => n[z] = "black"
      /\ \A y \in VertexIds : n[y] = "black" =>
            \A z : Step(Always, y, z) => \A k \in Nat : y \notin Reach(Always, z, k)
  BY DEF Colours, BlackClosed, BlackClear
<1>. HIDE DEF a, n, m, x
<1>6. ASSUME Item.do = "leave"
      PROVE  n[x] = "grey" /\ \A z : Step(Always, x, z) => n[z] = "black" /\ z \in VertexIds
  <2>1. n[x] = "grey"
    BY <1>1, <1>6 DEF Colours, LeavesGrey, a, n, x
  <2>2. \A z : Step(Always, x, z) => n[z] = "black" \/ LookedAt(search, 1, z)
    BY <1>1, <1>6 DEF Colours, ArcsAhead, a, n, x
  <2>. QED
    BY <1>1, <1>3, <1>4, <2>1, <2>2 DEF LookedAt, a
<1>7. ASSUME Item.do = "leave", NEW z, Step(Always, x, z), NEW k \in Nat
      PROVE  x \notin Reach(Always, z, k)
  <2>1. z \in B /\ x \notin B
    BY <1>6, <1>7
  <2>2. \A y \in B : \A w : Step(Always, y, w) => w \in B
    BY <1>4, <1>5
  <2>. HIDE DEF B
  <2>3. Reach(Always, z, k) \subseteq B
    BY <2>1, <2>2, ReachWithin
  <2>. QED
    BY <2>1, <2>3
<1>8. CASE Item.do = "leave"
  <2>1. \A y \in VertexIds : m[y] = IF y = x THEN "black" ELSE n[y]
    BY <1>2, <1>8 DEF Turns, m, n
  <2>2. ASSUME NEW y \in VertexIds, m[y] = "black", NEW z, Step(Always, y, z)
        PROVE  m[z] = "black" /\ \A k \in Nat : y \notin Reach(Always, z, k)
    <3>1. z \in VertexIds
      BY <1>4, <2>2
    <3>2. CASE y = x
      BY <1>6, <1>7, <1>8, <2>1, <2>2, <3>1, <3>2
    <3>3. CASE y # x
      BY <1>5, <2>1, <2>2, <3>1, <3>3
    <3>. QED
      BY <3>2, <3>3
  <2>. QED
    BY <2>2 DEF BlackClosed, BlackClear, m
<1>9. CASE Item.do # "leave"
  <2>1. \A y \in VertexIds : m[y] = "black" <=> n[y] = "black"
    BY <1>2, <1>9
  <2>2. ASSUME NEW y \in VertexIds, m[y] = "black", NEW z, Step(Always, y, z)
        PROVE  m[z] = "black" /\ \A k \in Nat : y \notin Reach(Always, z, k)
    BY <1>4, <1>5, <2>1, <2>2
  <2>. QED
    BY <2>2 DEF BlackClosed, BlackClear, m
<1>. QED
  BY <1>8, <1>9

LEMMA ColoursStep ==
    ASSUME Searching, HasCycle, Colours(search), search'.pc = "run"
    PROVE  Colours(search')
<1>1. PICK F : Visited(F)
  BY CycleVisits
<1>2. RootsLast(search') /\ Chained(search')
  BY <1>1, OrderKept DEF Colours
<1>3. LeavesGrey(search') /\ LeavesOnce(search') /\ GreyOpen(search') /\ RootsAhead(search')
  BY <1>1, LeavesKept
<1>4. ArcsAhead(search') /\ BlackClosed(search') /\ BlackClear(search')
  BY <1>1, ArcsKept, BlacksKept
<1>. QED
  BY <1>2, <1>3, <1>4 DEF Colours

(* No vertex left: every vertex with an arc that stays is black.           *)
LEMMA NoCycleLeft ==
    ASSUME Searching, Asks({"cycle"}), At("run"), Colours(search), search.agenda = <<>>
    PROVE  ~\E id \in Ids : OnCycle(Always, id)
<1>. SUFFICES ASSUME NEW id \in Ids, OnCycle(Always, id) PROVE FALSE
  OBVIOUS
<1>1. PICK a \in ArcsOf(Always) : a[1] = id /\ id \in Reach(Always, a[2], AllSteps)
  BY DEF OnCycle
<1>2. Step(Always, id, a[2])
  BY <1>1, ArcsArePairs
<1>3. id \in VertexIds /\ id \in DOMAIN vertices /\ AllSteps \in Nat
  BY <1>2, StepsBetween, IdsFacts, AllStepsFacts DEF Searching
<1>4. search.notes \in [VertexIds -> {"white", "grey", "black"}]
  BY RunFacts DEF NotesTyped
<1>5. \A what, x : ~Calls(search, what, x)
  BY DEF Calls
<1>6. search.notes[id] # "white"
  BY <1>2, <1>3, <1>5 DEF Colours, RootsAhead
<1>7. search.notes[id] # "grey"
  BY <1>3, <1>5 DEF Colours, GreyOpen
<1>8. search.notes[id] = "black"
  BY <1>3, <1>4, <1>6, <1>7
<1>. QED
  BY <1>1, <1>2, <1>3, <1>8 DEF Colours, BlackClear

(* A grey vertex looked at again: its call is under way, and leads to it.  *)
LEMMA CycleFound ==
    ASSUME Searching, HasCycle, Colours(search), Item.do = "look", search.notes[Item.id] = "grey",
           ~Deleted
    PROVE  \E id \in Ids : OnCycle(Ever, id)
<1> DEFINE x == Item.id
           a == search.agenda
<1>1. /\ Item = a[1] /\ 1 \in DOMAIN a /\ x \in Ids /\ x \in VertexIds /\ x \in DOMAIN vertices
      /\ \A k \in DOMAIN a : k \in Nat /\ (k = 1 \/ 1 < k)
  <2>1. a \in Seq(CallType) /\ a # <<>> /\ x \in Ids
    BY CycleDoes
  <2>2. Item = a[1] /\ 1 \in DOMAIN a
    BY <2>1, TailFacts DEF Item
  <2>3. DOMAIN a = 1..Len(a) /\ Len(a) \in Nat
    BY <2>1, LenProperties
  <2>4. \A k \in DOMAIN a : k \in Nat /\ (k = 1 \/ 1 < k)
    BY <2>3
  <2>. QED
    BY <2>1, <2>2, <2>4, IdsFacts DEF Searching, Deleted
<1>2. Calls(search, "leave", x)
  BY <1>1 DEF Colours, GreyOpen
<1>3. PICK k \in DOMAIN a : a[k].do = "leave" /\ a[k].id = x
  BY <1>2 DEF Calls
<1>4. LeadsOn(x, x)
  <2>1. 1 < k /\ a[1].do # "root" /\ a[1].id = x
    BY <1>1, <1>3
  <2>. QED
    BY <1>1, <1>3, <2>1 DEF Colours, Chained
<1>5. PICK z : Step(Ever, x, z) /\ \E n \in Nat : x \in Reach(Ever, z, n)
  BY <1>4 DEF LeadsOn
<1>6. PICK n \in Nat : x \in Reach(Ever, z, n)
  BY <1>5
<1>7. z \in Ids /\ \A v, w : Step(Ever, v, w) => w \in Ids
  BY <1>5, StepsBetween DEF Searching
<1>8. Reach(Ever, z, n) \subseteq Reach(Ever, z, AllSteps)
  BY <1>7, ReachEnds, AllStepsFacts DEF Searching, AllSteps
<1>9. <<x, z>> \in ArcsOf(Ever) /\ <<x, z>>[1] = x /\ <<x, z>>[2] = z
  BY <1>5 DEF Step
<1>10. OnCycle(Ever, x)
  BY <1>6, <1>8, <1>9 DEF OnCycle
<1>. QED
  BY <1>1, <1>10

CyclesBetween(found) ==
    /\ (\E id \in Ids : OnCycle(Always, id)) => found
    /\ found /\ ~Deleted => \E id \in Ids : OnCycle(Ever, id)

LEMMA CyclesSame ==
    ASSUME Reads, CyclesBetween(search'.result)
    PROVE  CycleBounded'
<1>1. Ids' = Ids /\ AllSteps' = AllSteps /\ (Deleted' <=> Deleted)
  BY ReadsSame DEF AllSteps
<1>2. \A id : /\ OnCycle(Always, id)' <=> OnCycle(Always, id)
              /\ OnCycle(Ever, id)' <=> OnCycle(Ever, id)
  BY <1>1, ReadsSame DEF OnCycle, Reach, ArcsOf
<1>. QED
  BY <1>1, <1>2 DEF CycleBounded, CyclesBetween

LEMMA NextColours ==
    ASSUME Searching, ColoursInv, [Next]_vars
    PROVE  ColoursInv'
<1>. SUFFICES ASSUME Asks({"cycle"})
              PROVE  (At("run")' => Colours(search)') /\ CycleBounded'
  BY SearchCases DEF ColoursInv, Asks
<1>0. query' = query
  BY SearchCases
<1>1. CASE ~Open /\ Reads /\ search' = search /\ SearchTyped(search')
  <2>1. At("done") => CyclesBetween(search'.result)
    BY <1>1 DEF ColoursInv, CycleBounded, Answered, CyclesBetween
  <2>2. ~At("done") => CycleBounded'
    BY <1>0, <1>1 DEF CycleBounded, Answered, At
  <2>. QED
    BY <1>1, <2>1, <2>2, CyclesSame DEF Open, At
<1>2. CASE Open /\ search' = search
  <2>1. At("run") => Colours(search)'
    BY <1>2, ColoursGrow DEF ColoursInv, Searching
  <2>. QED
    BY <1>2, <2>1 DEF CycleBounded, Answered, At, Open
<1>3. CASE Traverse /\ Reads /\ GoesWell
  <2>0. ListVertices \/ Exhausted \/ HasCycle
    <3>1. ~CheckTo /\ ~CheckFrom
      BY DEF CheckTo, CheckFrom, Searching, SearchTyped, At, Asks
    <3>. QED
      BY <1>3, <3>1 DEF Traverse, Asks, BFS, DFS, AllSimplePaths, ShortestUnweighted, Working
  <2>1. DOMAIN search = {"pc", "agenda", "visited", "notes", "result"}
    BY DEF Searching, SearchTyped
  <2>2. CASE search'.pc = "run"
    <3>1. ListVertices \/ HasCycle
      BY <2>0, <2>2, ExhaustedTyped
    <3>2. HasCycle => Colours(search)
      BY CycleDoes DEF ColoursInv
    <3>3. Colours(search')
      BY <2>2, <3>1, <3>2, ColoursBegin, ColoursStep
    <3>4. Colours(search)'
      BY <1>3, <3>3, ColoursSame
    <3>. QED
      BY <2>2, <3>4 DEF CycleBounded, Answered, At
  <2>3. CASE search'.pc = "done"
    <3>1. CASE Exhausted
      <4>1. Answer(FALSE) /\ At("run") /\ search.agenda = <<>>
        BY <3>1 DEF Exhausted, Asks
      <4>2. search'.result = FALSE
        BY <2>1, <4>1 DEF Answer, Go
      <4>3. ~\E id \in Ids : OnCycle(Always, id)
        BY <4>1, NoCycleLeft DEF ColoursInv
      <4>4. CyclesBetween(FALSE)
        BY <4>3 DEF CyclesBetween
      <4>5. CyclesBetween(search'.result)
        BY <4>2, <4>4, Zenon
      <4>6. CycleBounded'
        BY <1>3, <4>5, CyclesSame
      <4>. QED
        BY <2>3, <4>6 DEF At
    <3>2. CASE HasCycle
      <4>1. At("run") /\ Item.do = "look" /\ search.notes[Item.id] = "grey" /\ Answer(TRUE)
        BY <2>3, <3>2, CycleDoes
      <4>2. search'.result = TRUE
        BY <2>1, <4>1 DEF Answer, Go
      <4>3. ~Deleted => \E id \in Ids : OnCycle(Ever, id)
        BY <3>2, <4>1, CycleFound DEF ColoursInv
      <4>4. CyclesBetween(TRUE)
        BY <4>3 DEF CyclesBetween
      <4>5. CyclesBetween(search'.result)
        BY <4>2, <4>4, Zenon
      <4>6. CycleBounded'
        BY <1>3, <4>5, CyclesSame
      <4>. QED
        BY <2>3, <4>6 DEF At
    <3>3. ~ListVertices
      BY <2>3, ListVerticesDoes
    <3>. QED
      BY <1>3, <2>0, <2>3, <3>1, <3>2, <3>3 DEF At
  <2>4. CASE search'.pc \notin {"run", "done"}
    BY <2>4 DEF CycleBounded, Answered, At
  <2>. QED
    BY <2>2, <2>3, <2>4
<1>. QED
  BY <1>1, <1>2, <1>3, SearchCases

(* A cycle that is there all the time is found, and a cycle that is        *)
(* reported did come about unless a vertex was deleted meanwhile           *)
(* (dfs.go:34-60).                                                         *)
THEOREM CyclesAreBounded == Spec => []CycleBounded
<1>1. Init => FailInv /\ ColoursInv
  <2>. SUFFICES ASSUME Init, Asks({"cycle"}) PROVE ~At("run") /\ ~At("done")
    BY FailInvariance DEF ColoursInv, CycleBounded, Answered
  <2>1. search = NewSearch(query) /\ query.kind = "cycle"
    BY DEF Init, Asks
  <2>. QED
    BY <2>1 DEF NewSearch, At
<1>2. FailInv /\ ColoursInv /\ [Next]_vars => (FailInv /\ ColoursInv)'
  <2>. SUFFICES ASSUME FailInv, ColoursInv, [Next]_vars PROVE ColoursInv'
    BY FailInvariance
  <2>1. CASE Asks({"cycle"})
    BY <2>1, FailInvSearching, NextColours DEF Asks, SearchKinds
  <2>2. CASE ~Asks({"cycle"})
    BY <2>2, FailInvSearching DEF ColoursInv, Asks
  <2>. QED
    BY <2>1, <2>2
<1>3. ColoursInv => CycleBounded
  BY DEF ColoursInv, CycleBounded, Answered, Asks
<1>. QED
  BY <1>1, <1>2, <1>3, FailInvariance, PTL DEF Spec

-----------------------------------------------------------------------------
(***************************************************************************)
(* Shortest paths by the number of edges.                                  *)
(***************************************************************************)

(* Under way: the paths that wait are simple paths of visited vertices, in *)
(* the order of their lengths, which differ by one at most; none of them   *)
(* ends where arcs that stay lead in fewer steps; and from a visited       *)
(* vertex that does not wait every arc that stays leads to a visited one.  *)
InQueue(s, x) == \E k \in DOMAIN s.agenda : Last(s.agenda[k]) = x
WavesSound(s) ==
    \A k \in DOMAIN s.agenda : /\ Simple(Ever, s.agenda[k])
                               /\ \A i \in 1..Len(s.agenda[k]) : s.agenda[k][i] \in s.visited
WavesSorted(s) ==
    \A k, l \in DOMAIN s.agenda : /\ k < l => Len(s.agenda[k]) =< Len(s.agenda[l])
                                  /\ Len(s.agenda[k]) =< Len(s.agenda[l]) + 1
NoSooner(p) == \A n \in Nat : n + 2 =< Len(p) => Last(p) \notin Reach(Always, query.from, n)
WavesFirst(s) == \A k \in DOMAIN s.agenda : NoSooner(s.agenda[k])
WavesClosed(s) ==
    \A x \in s.visited : InQueue(s, x) \/ \A y : Step(Always, x, y) => y \in s.visited
Waves(s) ==
    /\ query.from \in s.visited /\ query.to \notin s.visited
    /\ WavesSound(s) /\ WavesSorted(s) /\ WavesFirst(s) /\ WavesClosed(s)

LEMMA WavesSame ==
    ASSUME Reads, Waves(search')
    PROVE  Waves(search)'
<1>1. query' = query
  BY ReadsSame
<1>2. WavesSound(search)'
  BY ReadsSimple DEF Waves, WavesSound
<1>3. WavesFirst(search)'
  BY <1>1, ReadsReach DEF Waves, WavesFirst, NoSooner
<1>4. WavesClosed(search)'
  BY ReadsStep DEF Waves, WavesClosed, InQueue
<1>. QED
  BY <1>1, <1>2, <1>3, <1>4 DEF Waves, WavesSorted

LEMMA WavesGrow ==
    ASSUME Moves, UNCHANGED search, Waves(search)
    PROVE  Waves(search)'
<1>1. query' = query
  BY DEF Moves
<1>2. WavesSound(search)'
  BY SimpleMoves DEF Waves, WavesSound
<1>3. WavesFirst(search)'
  BY <1>1, ReachMoves DEF Waves, WavesFirst, NoSooner
<1>4. WavesClosed(search)'
  BY StepsMove DEF Waves, WavesClosed, InQueue
<1>. QED
  BY <1>1, <1>2, <1>3, <1>4 DEF Waves, WavesSorted

LEMMA WavesBegin ==
    ASSUME Searching, Asks({"unweighted"}), CheckTo, search'.pc = "run"
    PROVE  Waves(search')
<1>1. /\ query.from \in Ids /\ search'.agenda = <<<<query.from>>>> /\ search'.visited = {query.from}
      /\ query.from # query.to
  BY CheckToBegins DEF Asks
<1> DEFINE p == <<query.from>>
<1>2. /\ p \in PathType /\ Len(p) = 1 /\ Simple(Ever, p) /\ p[1] = query.from /\ Last(p) = query.from
  BY <1>1, FirstPath
<1>. HIDE DEF p
<1>3. DOMAIN search'.agenda = {1} /\ search'.agenda[1] = p
  BY <1>1 DEF p
<1>4. WavesSound(search') /\ WavesSorted(search')
  BY <1>1, <1>2, <1>3 DEF WavesSound, WavesSorted
<1>5. WavesFirst(search')
  <2>1. \A n \in Nat : ~(n + 2 =< Len(p))
    BY <1>2
  <2>. QED
    BY <1>3, <2>1 DEF WavesFirst, NoSooner
<1>6. WavesClosed(search')
  BY <1>1, <1>2, <1>3 DEF WavesClosed, InQueue
<1>. QED
  BY <1>1, <1>4, <1>5, <1>6 DEF Waves

(* Whatever can be reached in fewer steps than the paths that wait have is *)
(* visited.                                                                *)
LEMMA WavesReach ==
    ASSUME Waves(search), search.agenda \in Seq(PathType)
    PROVE  \A n \in Nat : (\A k \in DOMAIN search.agenda : n + 1 =< Len(search.agenda[k])) =>
               Reach(Always, query.from, n) \subseteq search.visited
<1> DEFINE a == search.agenda
           Below(n) == \A k \in DOMAIN a : n + 1 =< Len(a[k])
           T == {n \in Nat : Below(n) => Reach(Always, query.from, n) \subseteq search.visited}
<1>1. \A k \in DOMAIN a : a[k] \in PathType /\ Len(a[k]) \in Nat
  <2>1. \A k \in DOMAIN a : a[k] \in PathType
    BY LenProperties, ElementOfSeq
  <2>. QED
    BY <2>1, LastFacts
<1>2. 0 \in T
  BY ReachSteps DEF Waves
<1>3. ASSUME NEW n \in Nat, n \in T
      PROVE  n + 1 \in T
  <2>. SUFFICES ASSUME Below(n + 1), NEW y \in Reach(Always, query.from, n + 1)
                PROVE  y \in search.visited
    OBVIOUS
  <2>1. Below(n) /\ \A k \in DOMAIN a : n + 2 =< Len(a[k])
    BY <1>1
  <2>2. Reach(Always, query.from, n) \subseteq search.visited
    BY <1>3, <2>1
  <2>3. ASSUME NEW x \in Reach(Always, query.from, n), Step(Always, x, y)
        PROVE  y \in search.visited
    <3>1. ~InQueue(search, x)
      BY <2>1 DEF Waves, WavesFirst, NoSooner, InQueue
    <3>. QED
      BY <2>2, <2>3, <3>1 DEF Waves, WavesClosed
  <2>. QED
    BY <2>2, <2>3, ReachMore
<1>4. Nat \subseteq T
  <2>. HIDE DEF T
  <2>. QED
    BY <1>2, <1>3, NatsWithin
<1>. QED
  BY <1>4

LEMMA WavesStep ==
    ASSUME Searching, ShortestUnweighted, Waves(search), search'.pc = "run"
    PROVE  Waves(search')
<1> DEFINE a == search.agenda
           b == search'.agenda
           x == Last(Item)
           N == Neighbors(x) \ search.visited
<1>1. /\ Item \in PathType /\ Rest \in Seq(PathType) /\ x \in Ids
      /\ a # <<>> /\ a \in Seq(PathType)
  BY UnweightedDoes
<1>2. /\ Item = a[1] /\ 1 \in DOMAIN a
      /\ \A k \in DOMAIN Rest : k \in Nat /\ k + 1 \in DOMAIN a /\ k + 1 # 1 /\ Rest[k] = a[k + 1]
      /\ \A k \in DOMAIN a : k = 1 \/ (k - 1 \in DOMAIN Rest /\ Rest[k - 1] = a[k])
  BY <1>1, TailFacts DEF Item, Rest
<1>3. /\ \A k \in DOMAIN a : k \in Nat /\ 1 =< k /\ a[k] \in PathType /\ Len(a[k]) \in Nat
      /\ Len(Item) \in Nat /\ Len(Item) >= 1 /\ \A k \in DOMAIN Rest : Rest[k] \in PathType
  <2>1. DOMAIN a = 1..Len(a) /\ Len(a) \in Nat /\ \A k \in DOMAIN a : a[k] \in PathType
    BY <1>1, LenProperties, ElementOfSeq
  <2>2. \A k \in DOMAIN a : Len(a[k]) \in Nat
    BY <2>1, LastFacts
  <2>. QED
    BY <1>1, <1>2, <2>1, <2>2, LastFacts
<1>4. /\ \A k \in DOMAIN a : Simple(Ever, a[k]) /\ \A i \in 1..Len(a[k]) : a[k][i] \in search.visited
      /\ \A k, l \in DOMAIN a : k < l => Len(a[k]) =< Len(a[l])
      /\ \A k, l \in DOMAIN a : Len(a[k]) =< Len(a[l]) + 1
      /\ \A k \in DOMAIN a : NoSooner(a[k])
      /\ WavesClosed(search) /\ query.from \in search.visited /\ query.to \notin search.visited
  BY DEF Waves, WavesSound, WavesSorted, WavesFirst
<1>5. PICK new : /\ search'.visited = search.visited \cup N /\ query.to \notin N
                 /\ Lists(new, N) /\ b = Rest \o Extended(Item, new)
  <2>1. ~Fail("vertex")
    BY FailTyped
  <2>2. ~Answer([found |-> TRUE, distance |-> Len(Append(Item, query.to)) - 1,
                 path |-> Append(Item, query.to)])
    BY UnweightedDoes, AnswerTyped DEF Asks
  <2>. QED
    BY <2>1, <2>2, UnweightedDoes
<1> DEFINE ends == Extended(Item, new)
<1>6. /\ new \in Seq(Ids) /\ \A k \in DOMAIN new : new[k] \in N /\ new[k] \in Ids
      /\ \A y \in N : \E k \in DOMAIN new : new[k] = y
  <2>1. new \in Seq(Ids) /\ \A k \in DOMAIN new : new[k] \in N
    BY <1>5 DEF Lists
  <2>2. \A k \in DOMAIN new : new[k] \in Ids
    BY <2>1, LenProperties, ElementOfSeq
  <2>. QED
    BY <1>5, <2>1, <2>2 DEF Lists
<1>7. /\ ends \in Seq(PathType) /\ DOMAIN ends = DOMAIN new
      /\ \A k \in DOMAIN new : ends[k] = Append(Item, new[k])
  BY <1>1, <1>6, ExtendedFacts
<1>8. Joined(b, Rest, ends)
  BY <1>1, <1>5, <1>7, Joins
<1>. HIDE DEF a, b, N, ends, x
<1>9. /\ \A i \in DOMAIN b : \/ i \in DOMAIN Rest /\ b[i] = Rest[i]
                             \/ \E k \in DOMAIN ends : i = Len(Rest) + k /\ b[i] = ends[k]
      /\ \A k \in DOMAIN Rest : k \in DOMAIN b /\ b[k] = Rest[k] /\ k \in Nat /\ k =< Len(Rest)
      /\ \A k \in DOMAIN ends : /\ Len(Rest) + k \in DOMAIN b /\ b[Len(Rest) + k] = ends[k]
                                /\ k \in Nat /\ 1 =< k
      /\ Len(Rest) \in Nat
  BY <1>8 DEF Joined
<1>10. Simple(Ever, Item) /\ \A i \in 1..Len(Item) : Item[i] \in search.visited
  BY <1>2, <1>4
<1>11. ASSUME NEW k \in DOMAIN ends
       PROVE  /\ Simple(Ever, ends[k]) /\ \A i \in 1..Len(ends[k]) : ends[k][i] \in search'.visited
              /\ Len(ends[k]) = Len(Item) + 1 /\ Last(ends[k]) = new[k] /\ NoSooner(ends[k])
  <2>1. /\ ends[k] = Append(Item, new[k]) /\ new[k] \in Ids /\ new[k] \in Neighbors(x)
        /\ new[k] \notin search.visited
    BY <1>6, <1>7 DEF N
  <2>2. /\ Len(ends[k]) = Len(Item) + 1 /\ Last(ends[k]) = new[k]
        /\ \A i \in 1..Len(Item) : ends[k][i] = Item[i]
        /\ ends[k][Len(Item) + 1] = new[k]
    BY <1>1, <2>1, AppendPath
  <2>3. Step(Ever, x, new[k])
    BY <2>1, NeighborsAreSteps, StepsBetween DEF Searching
  <2>4. Simple(Ever, ends[k])
    BY <1>1, <1>10, <2>1, <2>3, SimpleExtends DEF x
  <2>5. ASSUME NEW i \in 1..Len(ends[k])
        PROVE  ends[k][i] \in search'.visited
    <3>1. i \in 1..Len(Item) \/ i = Len(Item) + 1
      BY <1>3, <2>2
    <3>. QED
      BY <1>5, <1>6, <1>7, <1>10, <2>2, <3>1
  <2>6. NoSooner(ends[k])
    <3>. SUFFICES ASSUME NEW n \in Nat, n + 2 =< Len(Item) + 1
                  PROVE  new[k] \notin Reach(Always, query.from, n)
      BY <2>2 DEF NoSooner
    <3>1. \A l \in DOMAIN a : n + 1 =< Len(a[l])
      <4>1. \A l \in DOMAIN a : Len(Item) =< Len(a[l])
        BY <1>2, <1>3, <1>4
      <4>. QED
        BY <1>3, <4>1
    <3>2. Reach(Always, query.from, n) \subseteq search.visited
      BY <1>1, <3>1, WavesReach DEF a
    <3>. QED
      BY <2>1, <3>2
  <2>. QED
    BY <2>2, <2>4, <2>5, <2>6
<1>12. WavesSound(search')
  <2>1. \A k \in DOMAIN Rest : /\ Simple(Ever, Rest[k])
                               /\ \A i \in 1..Len(Rest[k]) : Rest[k][i] \in search'.visited
    BY <1>2, <1>4, <1>5
  <2>. QED
    BY <1>9, <1>11, <2>1 DEF WavesSound, b
<1>13. WavesFirst(search')
  BY <1>2, <1>4, <1>9, <1>11 DEF WavesFirst, b
<1>14. WavesSorted(search')
  <2>1. /\ \A k \in DOMAIN Rest : /\ Len(Rest[k]) \in Nat /\ Len(Item) =< Len(Rest[k])
                                  /\ Len(Rest[k]) =< Len(Item) + 1
        /\ \A k, l \in DOMAIN Rest : /\ k < l => Len(Rest[k]) =< Len(Rest[l])
                                     /\ Len(Rest[k]) =< Len(Rest[l]) + 1
    <3>1. \A k \in DOMAIN Rest : k + 1 \in DOMAIN a /\ 1 < k + 1 /\ Rest[k] = a[k + 1]
      BY <1>2, <1>3
    <3>2. \A k \in DOMAIN Rest : /\ Len(Rest[k]) \in Nat /\ Len(Item) =< Len(Rest[k])
                                 /\ Len(Rest[k]) =< Len(Item) + 1
      BY <1>2, <1>3, <1>4, <3>1
    <3>3. \A k, l \in DOMAIN Rest : /\ k < l => Len(Rest[k]) =< Len(Rest[l])
                                    /\ Len(Rest[k]) =< Len(Rest[l]) + 1
      BY <1>2, <1>4, <3>1
    <3>. QED
      BY <3>2, <3>3
  <2>2. \A i \in DOMAIN b : Len(b[i]) \in Nat /\ Len(Item) =< Len(b[i]) /\ Len(b[i]) =< Len(Item) + 1
    BY <1>3, <1>9, <1>11, <2>1
  <2>3. ASSUME NEW k \in DOMAIN b, NEW l \in DOMAIN b
        PROVE  Len(b[k]) =< Len(b[l]) + 1
    BY <1>3, <2>2
  <2>4. ASSUME NEW k \in DOMAIN b, NEW l \in DOMAIN b, k < l
        PROVE  Len(b[k]) =< Len(b[l])
    <3>1. CASE k \in DOMAIN Rest /\ l \in DOMAIN Rest
      BY <1>9, <2>1, <2>4, <3>1
    <3>2. ASSUME NEW m \in DOMAIN ends, b[l] = ends[m]
          PROVE  Len(b[k]) =< Len(b[l])
      BY <1>3, <1>11, <2>2, <3>2
    <3>3. ASSUME NEW m \in DOMAIN ends, k = Len(Rest) + m, l \in DOMAIN Rest
          PROVE  FALSE
      BY <1>9, <2>4, <3>3
    <3>. QED
      BY <1>9, <3>1, <3>2, <3>3
  <2>. QED
    BY <2>3, <2>4 DEF WavesSorted, b
<1>15. WavesClosed(search')
  <2>1. \A k \in DOMAIN Rest : InQueue(search', Last(Rest[k]))
    BY <1>9 DEF InQueue, b
  <2>2. \A y \in N : InQueue(search', y)
    <3>1. ASSUME NEW y \in N PROVE InQueue(search', y)
      <4>1. PICK k \in DOMAIN new : new[k] = y
        BY <1>6
      <4>2. k \in DOMAIN ends /\ Last(ends[k]) = y
        BY <1>7, <1>11, <4>1
      <4>. QED
        BY <1>9, <4>2 DEF InQueue, b
    <3>. QED
      BY <3>1
  <2>3. ASSUME NEW y \in search.visited, ~InQueue(search', y)
        PROVE  \A z : Step(Always, y, z) => z \in search'.visited
    <3>1. CASE y = x
      <4>1. \A z : Step(Always, x, z) => z \in Neighbors(x)
        BY NeighborsAreSteps, StepsBetween DEF Searching
      <4>. QED
        BY <1>5, <3>1, <4>1 DEF N
    <3>2. CASE y # x
      <4>1. ~InQueue(search, y)
        <5>1. ASSUME NEW k \in DOMAIN a, Last(a[k]) = y PROVE FALSE
          <6>1. k # 1
            BY <1>2, <3>2, <5>1 DEF x
          <6>. QED
            BY <1>2, <2>1, <2>3, <5>1, <6>1
        <5>. QED
          BY <5>1 DEF InQueue, a
      <4>. QED
        BY <1>4, <1>5, <2>3, <4>1 DEF WavesClosed
    <3>. QED
      BY <3>1, <3>2
  <2>. QED
    BY <1>5, <2>2, <2>3 DEF WavesClosed
<1>. QED
  BY <1>4, <1>5, <1>12, <1>13, <1>14, <1>15 DEF Waves

(* A path that visits no vertex twice has as many as there are, at most.   *)
LEMMA SimpleIsShort ==
    ASSUME Searching, NEW es, NEW p \in PathType, Simple(es, p)
    PROVE  Len(p) \in Nat /\ AllSteps \in Nat /\ Len(p) =< AllSteps /\ Len(p) =< AllSteps + 1
<1>1. /\ Len(p) \in Nat /\ DOMAIN p = 1..Len(p) /\ \A i \in 1..Len(p) : p[i] \in Ids
      /\ p \in Seq(Ids)
  BY LastFacts
<1>2. IsFiniteSet(Ids) /\ AllSteps \in Nat
  BY AllStepsFacts DEF Searching
<1>3. IsFiniteSet(1..Len(p)) /\ Cardinality(1..Len(p)) = Len(p)
  <2>1. 1 \in Int /\ Len(p) \in Int
    BY <1>1
  <2>2. IsFiniteSet(1..Len(p)) /\ Cardinality(1..Len(p)) = IF 1 > Len(p) THEN 0 ELSE Len(p) - 1 + 1
    BY <2>1, FS_Interval
  <2>. QED
    BY <1>1, <2>2
<1>4. p \in [1..Len(p) -> Ids]
  <2>1. p = [i \in 1..Len(p) |-> p[i]]
    BY <1>1
  <2>. QED
    BY <1>1, <2>1
<1>5. ~(Cardinality(Ids) < Len(p))
  <2>. SUFFICES ASSUME Cardinality(Ids) < Len(p) PROVE FALSE
    OBVIOUS
  <2>1. \E i, j \in 1..Len(p) : i # j /\ p[i] = p[j]
    BY <1>2, <1>3, <1>4, FS_PigeonHole
  <2>. QED
    BY <2>1 DEF Simple
<1>. QED
  BY <1>1, <1>2, <1>5 DEF AllSteps

(* A path that stays takes as many steps as lead to its vertices.          *)
LEMMA StayingReach ==
    ASSUME Searching, query.from \in Ids, NEW p, Staying(p)
    PROVE  /\ Len(p) \in Nat /\ Len(p) >= 1
           /\ \A n \in Nat : n + 1 = Len(p) => query.to \in Reach(Always, query.from, n)
<1>1. p \in PathType /\ Simple(Always, p) /\ Last(p) = query.to
  BY StayingTyped DEF Staying
<1>2. Len(p) \in Nat /\ Len(p) >= 1 /\ p[Len(p)] = query.to
  BY <1>1, LastFacts
<1> DEFINE T == {n \in Nat : n + 1 =< Len(p) => p[n + 1] \in Reach(Always, query.from, n)}
<1>3. 0 \in T
  BY <1>1, ReachSteps DEF Simple
<1>4. ASSUME NEW n \in Nat, n \in T
      PROVE  n + 1 \in T
  <2>. SUFFICES ASSUME (n + 1) + 1 =< Len(p)
                PROVE  p[(n + 1) + 1] \in Reach(Always, query.from, n + 1)
    OBVIOUS
  <2>1. n + 1 =< Len(p) /\ n + 1 \in 1..(Len(p) - 1)
    BY <1>2
  <2>2. p[n + 1] \in Reach(Always, query.from, n)
    BY <1>4, <2>1
  <2>3. Step(Always, p[n + 1], p[(n + 1) + 1])
    BY <1>1, <2>1 DEF Simple
  <2>. QED
    BY <2>2, <2>3, ReachMore
<1>5. Nat \subseteq T
  <2>. HIDE DEF T
  <2>. QED
    BY <1>3, <1>4, NatsWithin
<1>6. ASSUME NEW n \in Nat, n + 1 = Len(p)
      PROVE  query.to \in Reach(Always, query.from, n)
  <2>1. n + 1 =< Len(p)
    BY <1>2, <1>6
  <2>2. p[n + 1] \in Reach(Always, query.from, n)
    BY <1>5, <2>1
  <2>. QED
    BY <1>2, <1>6, <2>2
<1>. QED
  BY <1>2, <1>6

LEMMA WavesFound ==
    ASSUME Searching, ShortestUnweighted, Waves(search),
           query.to \in Neighbors(Last(Item)) \ search.visited
    PROVE  LET end == Append(Item, query.to)
           IN  /\ end \in SimplePaths(Ever, query.from, query.to, AllSteps) /\ Len(end) \in Nat
               /\ \A p \in SimplePaths(Always, query.from, query.to, AllSteps) :
                     Len(p) \in Nat /\ Len(end) =< Len(p)
<1> DEFINE end == Append(Item, query.to)
           a == search.agenda
<1>1. /\ Item \in PathType /\ a \in Seq(PathType) /\ a # <<>> /\ Last(Item) \in Ids
      /\ At("run") /\ Asks({"unweighted"})
  BY UnweightedDoes
<1>2. query.from \in Ids /\ AllSteps \in Nat
  BY <1>1, RunFacts, AllStepsFacts DEF Asks, Searching
<1>3. Item = a[1] /\ 1 \in DOMAIN a /\ \A k \in DOMAIN a : k = 1 \/ 1 < k
  <2>1. Item = a[1] /\ 1 \in DOMAIN a
    BY <1>1, TailFacts DEF Item
  <2>2. DOMAIN a = 1..Len(a) /\ Len(a) \in Nat
    BY <1>1, LenProperties
  <2>. QED
    BY <2>1, <2>2
<1>4. /\ Simple(Ever, Item) /\ \A i \in 1..Len(Item) : Item[i] \in search.visited
      /\ Len(Item) \in Nat /\ Len(Item) >= 1
  BY <1>1, <1>3, LastFacts DEF Waves, WavesSound
<1>5. Step(Ever, Last(Item), query.to) /\ query.to \in Ids
  BY NeighborsAreSteps, StepsBetween DEF Searching
<1>6. end \in PathType /\ Len(end) = Len(Item) + 1 /\ Last(end) = query.to
  BY <1>1, <1>5, AppendPath
<1>7. Simple(Ever, end)
  BY <1>1, <1>4, <1>5, SimpleExtends
<1>. HIDE DEF end
<1>8. end \in SimplePaths(Ever, query.from, query.to, AllSteps)
  <2>1. Len(end) =< AllSteps + 1
    BY <1>6, <1>7, SimpleIsShort
  <2>. QED
    BY <1>2, <1>6, <1>7, <2>1, SimplePathsFacts
<1>9. \A n \in Nat : n + 1 =< Len(Item) => Reach(Always, query.from, n) \subseteq search.visited
  <2>1. \A k \in DOMAIN a : Len(a[k]) \in Nat /\ Len(Item) =< Len(a[k])
    <3>1. \A k \in DOMAIN a : a[k] \in PathType
      BY <1>1, LenProperties, ElementOfSeq
    <3>2. \A k \in DOMAIN a : Len(a[k]) \in Nat
      BY <3>1, LastFacts
    <3>. QED
      BY <1>3, <3>2 DEF Waves, WavesSorted
  <2>2. ASSUME NEW n \in Nat, n + 1 =< Len(Item)
        PROVE  \A k \in DOMAIN a : n + 1 =< Len(a[k])
    BY <1>4, <2>1, <2>2
  <2>. QED
    BY <1>1, <2>2, WavesReach
<1>10. ASSUME NEW p \in SimplePaths(Always, query.from, query.to, AllSteps)
       PROVE  Len(p) \in Nat /\ Len(end) =< Len(p)
  <2>1. Staying(p)
    BY <1>2, SimplePathsFacts
  <2>2. /\ Len(p) \in Nat /\ Len(p) >= 1
        /\ \A n \in Nat : n + 1 = Len(p) => query.to \in Reach(Always, query.from, n)
    BY <1>2, <2>1, StayingReach
  <2>3. PICK n \in Nat : n + 1 = Len(p)
    <3>1. Len(p) - 1 \in Nat /\ (Len(p) - 1) + 1 = Len(p)
      BY <2>2
    <3>. QED
      BY <3>1
  <2>4. ~(n + 1 =< Len(Item))
    BY <1>9, <2>2, <2>3
  <2>. QED
    BY <1>4, <1>6, <2>2, <2>3, <2>4
<1>. QED
  BY <1>6, <1>4, <1>8, <1>10 DEF end

LEMMA WavesEnd ==
    ASSUME Searching, Asks({"unweighted"}), At("run"), Waves(search), search.agenda = <<>>
    PROVE  SimplePaths(Always, query.from, query.to, AllSteps) = {}
<1>1. query.from \in Ids /\ AllSteps \in Nat
  BY RunFacts, AllStepsFacts DEF Asks, Searching
<1>2. \A x \in search.visited : \A y : Step(Always, x, y) => y \in search.visited
  BY DEF Waves, WavesClosed, InQueue
<1>3. \A n \in Nat : query.to \notin Reach(Always, query.from, n)
  BY <1>2, ReachWithin DEF Waves
<1>. SUFFICES ASSUME NEW p \in SimplePaths(Always, query.from, query.to, AllSteps)
              PROVE  FALSE
  OBVIOUS
<1>4. Staying(p)
  BY <1>1, SimplePathsFacts
<1>5. /\ Len(p) \in Nat /\ Len(p) >= 1
      /\ \A n \in Nat : n + 1 = Len(p) => query.to \in Reach(Always, query.from, n)
  BY <1>1, <1>4, StayingReach
<1>6. Len(p) - 1 \in Nat /\ (Len(p) - 1) + 1 = Len(p)
  BY <1>5
<1>. QED
  BY <1>3, <1>5, <1>6

-----------------------------------------------------------------------------
(***************************************************************************)
(* ShortestBounded, with weights: the weight of a path.                    *)
(***************************************************************************)
Priced(es) == \A e \in DOMAIN es : Weight[es[e].label] \in Nat
Links(es, x, y) == {e \in DOMAIN es : es[e].from = x /\ es[e].to = y}
Hop(es, x, y) == Min({Weight[es[e].label] : e \in Links(es, x, y)})

(* The lightest edge from one vertex to the next. *)
LEMMA HopFacts ==
    ASSUME NEW es, Priced(es), NEW x, NEW y, Step(es, x, y), query.dir = "OUT", query.labels = {}
    PROVE  /\ Hop(es, x, y) \in Nat
           /\ \E e \in Links(es, x, y) : Hop(es, x, y) = Weight[es[e].label]
           /\ \A e \in Links(es, x, y) : Hop(es, x, y) =< Weight[es[e].label]
<1> DEFINE A == {Weight[es[e].label] : e \in Links(es, x, y)}
<1>1. Links(es, x, y) # {}
  BY StepDef DEF Links
<1>2. A \in SUBSET Nat
  BY DEF Priced, Links
<1>3. A # {}
  BY <1>1
<1>4. Min(A) \in A /\ Min(A) \in Nat /\ \A w \in A : Min(A) =< w
  <2>. HIDE DEF A
  <2>. QED
    BY <1>2, <1>3, MinIsLeast
<1>5. Hop(es, x, y) = Min(A)
  BY DEF Hop
<1>6. PICK d \in Links(es, x, y) : Min(A) = Weight[es[d].label]
  <2>. DEFINE m == Min(A)
  <2>1. m \in A
    BY <1>4
  <2>. HIDE DEF m
  <2>2. \E e \in Links(es, x, y) : m = Weight[es[e].label]
    BY <2>1
  <2>. QED
    BY <2>2 DEF m
<1>7. \A e \in Links(es, x, y) : Weight[es[e].label] \in A
  OBVIOUS
<1>. HIDE DEF A
<1>. QED
  BY <1>4, <1>5, <1>6, <1>7

(* With more edges the lightest is no heavier. *)
LEMMA HopLess ==
    ASSUME NEW es, NEW fs, Priced(es), Priced(fs), query.dir = "OUT", query.labels = {},
           \A e \in DOMAIN es : e \in DOMAIN fs /\ fs[e] = es[e],
           NEW x, NEW y, Step(es, x, y)
    PROVE  Step(fs, x, y) /\ Hop(fs, x, y) =< Hop(es, x, y)
<1>1. Step(fs, x, y)
  BY StepDef
<1>2. PICK e \in Links(es, x, y) : Hop(es, x, y) = Weight[es[e].label]
  BY HopFacts
<1>3. e \in Links(fs, x, y) /\ fs[e] = es[e]
  BY <1>2 DEF Links
<1>4. Hop(fs, x, y) =< Weight[fs[e].label]
  BY <1>1, <1>3, HopFacts
<1>. QED
  BY <1>1, <1>2, <1>3, <1>4

(* f gives the weight of p up to each of its vertices. *)
Weighs(f, es, p) ==
    /\ f \in [1..Len(p) -> Nat] /\ f[1] = 0
    /\ \A i \in 1..(Len(p) - 1) : f[i + 1] = f[i] + Hop(es, p[i], p[i + 1])
HopsGiven(es, p) == \A i \in 1..(Len(p) - 1) : Hop(es, p[i], p[i + 1]) \in Nat

(* The function PathWeight is defined by. *)
LEMMA WeighsExists ==
    ASSUME NEW es, NEW p, Len(p) \in Nat, Len(p) >= 1, HopsGiven(es, p)
    PROVE  \E f : Weighs(f, es, p)
<1> DEFINE n == Len(p) - 1
           step == [a \in Nat \X (1..n) |-> a[1] + Hop(es, p[a[2]], p[a[2] + 1])]
<1>1. n \in Nat
  OBVIOUS
<1>2. step \in [Nat \X (1..n) -> Nat]
  <2>1. ASSUME NEW w \in Nat, NEW i \in 1..n
        PROVE  w + Hop(es, p[i], p[i + 1]) \in Nat
    BY DEF HopsGiven
  <2>. QED
    BY <2>1
<1>3. ASSUME NEW w \in Nat, NEW i \in 1..n
      PROVE  step[<<w, i>>] = w + Hop(es, p[i], p[i + 1])
  OBVIOUS
<1>. HIDE DEF step
<1>4. PICK g : Iteration(g, Nat, 0, n, step)
  BY <1>1, <1>2, Iterates
<1>5. /\ g \in [0..n -> Nat] /\ g[0] = 0
      /\ \A i \in 1..n : g[i] = step[<<g[i - 1], i>>]
  BY <1>4 DEF Iteration
<1> DEFINE f == [k \in 1..Len(p) |-> g[k - 1]]
<1>6. f \in [1..Len(p) -> Nat] /\ f[1] = 0
  BY <1>5
<1>7. ASSUME NEW i \in 1..n
      PROVE  f[i + 1] = f[i] + Hop(es, p[i], p[i + 1])
  <2>0. i \in 1..Len(p) /\ i + 1 \in 1..Len(p) /\ (i + 1) - 1 = i /\ i - 1 \in 0..n
    OBVIOUS
  <2>1. f[i + 1] = g[i] /\ f[i] = g[i - 1] /\ g[i - 1] \in Nat
    BY <1>5, <2>0
  <2>2. g[i] = step[<<g[i - 1], i>>]
    BY <1>5
  <2>. QED
    BY <2>1, <2>2, <1>3
<1>. QED
  BY <1>6, <1>7 DEF Weighs

LEMMA PathWeighs ==
    ASSUME NEW es, NEW p, Len(p) \in Nat, Len(p) >= 1, HopsGiven(es, p)
    PROVE  \E f : Weighs(f, es, p) /\ PathWeight(es, p) = f[Len(p)]
<1> DEFINE Good(f) == f = [k \in 1..Len(p) |-> IF k = 1 THEN 0 ELSE f[k - 1] + Hop(es, p[k - 1], p[k - 1 + 1])]
           u == CHOOSE f : Good(f)
<1>1. PICK f : Weighs(f, es, p)
  BY WeighsExists
<1>2. ASSUME NEW k \in 1..Len(p)
      PROVE  f[k] = IF k = 1 THEN 0 ELSE f[k - 1] + Hop(es, p[k - 1], p[k - 1 + 1])
  <2>1. CASE k = 1
    BY <1>1, <2>1 DEF Weighs
  <2>2. CASE k # 1
    <3>1. k - 1 \in 1..(Len(p) - 1) /\ k - 1 + 1 = k
      BY <2>2
    <3>2. f[k - 1 + 1] = f[k - 1] + Hop(es, p[k - 1], p[k - 1 + 1])
      BY <1>1, <3>1 DEF Weighs
    <3>. QED
      BY <2>2, <3>1, <3>2
  <2>. QED
    BY <2>1, <2>2
<1>3. f = [k \in 1..Len(p) |-> f[k]]
  BY <1>1 DEF Weighs
<1>4. Good(f)
  BY <1>2, <1>3
<1>5. Good(u)
  BY <1>4
<1>6. PathWeight(es, p) = u[Len(p)]
  BY DEF PathWeight, Hop, Links
<1>. HIDE DEF u
<1>7. \A k \in 1..Len(p) : u[k] = IF k = 1 THEN 0 ELSE u[k - 1] + Hop(es, p[k - 1], p[k - 1 + 1])
  BY <1>5
<1>8. u[1] = 0
  BY <1>7
<1>9. \A i \in 1..(Len(p) - 1) : u[i + 1] = u[i] + Hop(es, p[i], p[i + 1])
  <2>. TAKE i \in 1..(Len(p) - 1)
  <2>1. i + 1 \in 1..Len(p) /\ i + 1 # 1 /\ (i + 1) - 1 = i
    OBVIOUS
  <2>. QED
    BY <1>7, <2>1
<1>10. \A k \in 1..Len(p) : u[k] \in Nat
  <2> DEFINE T == {k \in Nat : k + 1 =< Len(p) => u[k + 1] \in Nat}
  <2>1. 0 \in T
    BY <1>8
  <2>2. ASSUME NEW k \in Nat, k \in T
        PROVE  k + 1 \in T
    <3>. SUFFICES ASSUME (k + 1) + 1 =< Len(p)
                  PROVE  u[(k + 1) + 1] \in Nat
      OBVIOUS
    <3>1. k + 1 =< Len(p) /\ k + 1 \in 1..(Len(p) - 1)
      OBVIOUS
    <3>2. u[k + 1] \in Nat
      BY <2>2, <3>1
    <3>. QED
      BY <1>9, <3>1, <3>2 DEF HopsGiven
  <2>3. Nat \subseteq T
    <3>. HIDE DEF T
    <3>. QED
      BY <2>1, <2>2, NatsWithin
  <2>. TAKE k \in 1..Len(p)
  <2>4. k - 1 \in Nat /\ (k - 1) + 1 = k /\ k =< Len(p)
    OBVIOUS
  <2>5. k - 1 \in T
    BY <2>3, <2>4
  <2>. QED
    BY <2>4, <2>5
<1>11. u \in [1..Len(p) -> Nat]
  <2>1. u = [k \in 1..Len(p) |-> u[k]]
    <3>1. DOMAIN u = 1..Len(p) /\ u = [k \in 1..Len(p) |-> IF k = 1 THEN 0 ELSE u[k - 1] + Hop(es, p[k - 1], p[k - 1 + 1])]
      BY <1>5
    <3>. QED
      BY <3>1
  <2>. QED
    BY <1>10, <2>1
<1>12. Weighs(u, es, p)
  BY <1>8, <1>9, <1>11 DEF Weighs
<1>. QED
  BY <1>6, <1>12

(* A path that begins like another, with hops no heavier, weighs no more   *)
(* up to any vertex they share.                                            *)
LEMMA WeighsLess ==
    ASSUME NEW es, NEW fs, NEW p, NEW q, Len(p) \in Nat, Len(q) \in Nat, Len(p) >= 1,
           Len(p) =< Len(q), \A i \in 1..Len(p) : q[i] = p[i],
           HopsGiven(es, p), HopsGiven(fs, q),
           \A i \in 1..(Len(p) - 1) : Hop(fs, p[i], p[i + 1]) =< Hop(es, p[i], p[i + 1]),
           NEW f, Weighs(f, es, p), NEW g, Weighs(g, fs, q)
    PROVE  \A i \in 1..Len(p) : g[i] =< f[i]
<1> DEFINE T == {k \in Nat : k + 1 =< Len(p) => g[k + 1] =< f[k + 1]}
<1>1. 0 \in T
  BY DEF Weighs
<1>2. ASSUME NEW k \in Nat, k \in T
      PROVE  k + 1 \in T
  <2>. SUFFICES ASSUME (k + 1) + 1 =< Len(p)
                PROVE  g[(k + 1) + 1] =< f[(k + 1) + 1]
    OBVIOUS
  <2>1. k + 1 =< Len(p) /\ k + 1 \in 1..(Len(p) - 1) /\ k + 1 \in 1..(Len(q) - 1)
        /\ k + 1 \in 1..Len(p) /\ (k + 1) + 1 \in 1..Len(p) /\ k + 1 \in 1..Len(q)
    OBVIOUS
  <2> DEFINE a == Hop(es, p[k + 1], p[(k + 1) + 1])
             b == Hop(fs, q[k + 1], q[(k + 1) + 1])
  <2>2. a \in Nat /\ b \in Nat /\ b =< a
    BY <2>1 DEF HopsGiven
  <2>3. f[(k + 1) + 1] = f[k + 1] + a /\ g[(k + 1) + 1] = g[k + 1] + b
    BY <2>1 DEF Weighs
  <2>4. f[k + 1] \in Nat /\ g[k + 1] \in Nat
    BY <2>1 DEF Weighs
  <2>5. g[k + 1] =< f[k + 1]
    BY <1>2, <2>1
  <2>. HIDE DEF a, b
  <2>. QED
    BY <2>2, <2>3, <2>4, <2>5
<1>3. Nat \subseteq T
  <2>. HIDE DEF T
  <2>. QED
    BY <1>1, <1>2, NatsWithin
<1>. TAKE i \in 1..Len(p)
<1>4. i - 1 \in Nat /\ (i - 1) + 1 = i /\ i =< Len(p)
  OBVIOUS
<1>5. i - 1 \in T
  BY <1>3, <1>4
<1>. QED
  BY <1>4, <1>5

WeightsGood == \A e \in EverIds : ~BadWeight(Ever[e].label)
Directed == query.dir = "OUT" /\ query.labels = {}

LEMMA WeightedAsks ==
    ASSUME Searching, Asks({"unweighted", "weighted"})
    PROVE  Directed
<1>1. PICK start \in Starts : query = start.query
  BY DEF Searching, History, QueryGiven
<1>2. start.query.kind \in {"paths", "unweighted", "weighted"}
  BY <1>1 DEF Asks
<1>. QED
  BY <1>1, <1>2, SearchesParsed DEF Directed

LEMMA PricedGraphs ==
    ASSUME History, LabelsGiven, WeightsGood
    PROVE  Priced(Ever) /\ Priced(Always) /\ Priced(edges)
<1>1. ASSUME NEW e \in EverIds
      PROVE  Weight[Ever[e].label] \in Nat
  BY GoodWeight DEF WeightsGood
<1>2. DOMAIN Ever = EverIds
  BY DEF Ever
<1>3. Priced(Ever)
  BY <1>1, <1>2 DEF Priced
<1>4. Priced(Always)
  BY <1>1, AlwaysFacts DEF Priced
<1>5. Priced(edges)
  BY <1>1, NowEver DEF Priced
<1>. QED
  BY <1>3, <1>4, <1>5

(* The more edges, the lighter the hop. *)
LEMMA HopsBetween ==
    ASSUME History, LabelsGiven, WeightsGood, Directed, NEW x, NEW y
    PROVE  /\ Step(Always, x, y) => Step(edges, x, y) /\ Hop(edges, x, y) =< Hop(Always, x, y)
           /\ Step(edges, x, y) => Step(Ever, x, y) /\ Hop(Ever, x, y) =< Hop(edges, x, y)
           /\ Step(Always, x, y) => Hop(Always, x, y) \in Nat
           /\ Step(edges, x, y) => Hop(edges, x, y) \in Nat
           /\ Step(Ever, x, y) => Hop(Ever, x, y) \in Nat
<1>1. Priced(Ever) /\ Priced(Always) /\ Priced(edges)
  BY PricedGraphs
<1>2. query.dir = "OUT" /\ query.labels = {}
  BY DEF Directed
<1>3. \A e \in DOMAIN Always : e \in DOMAIN edges /\ edges[e] = Always[e]
  BY AlwaysFacts
<1>4. \A e \in DOMAIN edges : e \in DOMAIN Ever /\ Ever[e] = edges[e]
  BY NowEver DEF Ever
<1>5. Step(Always, x, y) => Step(edges, x, y) /\ Hop(edges, x, y) =< Hop(Always, x, y)
  BY <1>1, <1>2, <1>3, HopLess
<1>6. Step(edges, x, y) => Step(Ever, x, y) /\ Hop(Ever, x, y) =< Hop(edges, x, y)
  BY <1>1, <1>2, <1>4, HopLess
<1>7. Step(Always, x, y) => Hop(Always, x, y) \in Nat
  BY <1>1, <1>2, HopFacts
<1>8. Step(edges, x, y) => Hop(edges, x, y) \in Nat
  BY <1>1, <1>2, HopFacts
<1>9. Step(Ever, x, y) => Hop(Ever, x, y) \in Nat
  BY <1>1, <1>2, HopFacts
<1>. QED
  BY <1>5, <1>6, <1>7, <1>8, <1>9

LEMMA SimpleWeighs ==
    ASSUME NEW es, Priced(es), Directed, NEW p \in PathType, Simple(es, p)
    PROVE  /\ HopsGiven(es, p) /\ PathWeight(es, p) \in Nat /\ Len(p) \in Nat /\ Len(p) >= 1
           /\ \E f : Weighs(f, es, p) /\ PathWeight(es, p) = f[Len(p)]
<1>1. Len(p) \in Nat /\ Len(p) >= 1
  BY LastFacts
<1>2. HopsGiven(es, p)
  <2>1. ASSUME NEW i \in 1..(Len(p) - 1)
        PROVE  Hop(es, p[i], p[i + 1]) \in Nat
    <3>1. Step(es, p[i], p[i + 1])
      BY DEF Simple
    <3>. QED
      BY <3>1, HopFacts DEF Directed
  <2>. QED
    BY <2>1 DEF HopsGiven
<1>3. PICK f : Weighs(f, es, p) /\ PathWeight(es, p) = f[Len(p)]
  BY <1>1, <1>2, PathWeighs
<1>4. f[Len(p)] \in Nat
  BY <1>1, <1>3 DEF Weighs
<1>. QED
  BY <1>1, <1>2, <1>3, <1>4

LEMMA WeightAppend ==
    ASSUME NEW es, Priced(es), Directed, NEW p \in PathType, Simple(es, p),
           NEW y \in Ids, Step(es, Last(p), y), \A i \in 1..Len(p) : p[i] # y
    PROVE  /\ PathWeight(es, Append(p, y)) \in Nat /\ PathWeight(es, p) \in Nat
           /\ Hop(es, Last(p), y) \in Nat
           /\ PathWeight(es, Append(p, y)) =< PathWeight(es, p) + Hop(es, Last(p), y)
<1> DEFINE q == Append(p, y)
<1>1. /\ q \in PathType /\ Len(q) = Len(p) + 1 /\ Len(p) \in Nat /\ Len(p) >= 1
      /\ \A i \in 1..Len(p) : q[i] = p[i]
      /\ q[Len(p) + 1] = y /\ Last(p) = p[Len(p)]
  BY AppendPath
<1>2. Simple(es, q)
  BY SimpleExtends
<1>. HIDE DEF q
<1>3. HopsGiven(es, p) /\ PathWeight(es, p) \in Nat
  BY SimpleWeighs
<1>4. HopsGiven(es, q) /\ PathWeight(es, q) \in Nat
  BY <1>1, <1>2, SimpleWeighs
<1>5. PICK f : Weighs(f, es, p) /\ PathWeight(es, p) = f[Len(p)]
  BY SimpleWeighs
<1>6. PICK g : Weighs(g, es, q) /\ PathWeight(es, q) = g[Len(q)]
  BY <1>1, <1>2, SimpleWeighs
<1>7. \A i \in 1..Len(p) : g[i] =< f[i]
  <2>1. Len(q) \in Nat /\ Len(p) =< Len(q)
    BY <1>1
  <2>2. \A i \in 1..(Len(p) - 1) : Hop(es, p[i], p[i + 1]) =< Hop(es, p[i], p[i + 1])
    BY <1>3 DEF HopsGiven
  <2>. QED
    BY <1>1, <1>3, <1>4, <1>5, <1>6, <2>1, <2>2, WeighsLess
<1>8. Len(p) \in 1..(Len(q) - 1) /\ Len(p) \in 1..Len(p) /\ Len(p) \in 1..Len(q)
  BY <1>1
<1>9. g[Len(p) + 1] = g[Len(p)] + Hop(es, q[Len(p)], q[Len(p) + 1])
  BY <1>6, <1>8 DEF Weighs
<1>10. q[Len(p)] = Last(p) /\ q[Len(p) + 1] = y
  BY <1>1, <1>8
<1>11. Hop(es, Last(p), y) \in Nat
  BY HopFacts DEF Directed
<1>12. g[Len(p)] =< f[Len(p)] /\ g[Len(p)] \in Nat /\ f[Len(p)] \in Nat
  BY <1>5, <1>6, <1>7, <1>8 DEF Weighs
<1>13. PathWeight(es, q) = g[Len(p)] + Hop(es, Last(p), y)
  BY <1>1, <1>6, <1>9, <1>10
<1>14. PathWeight(es, q) =< PathWeight(es, p) + Hop(es, Last(p), y)
  BY <1>5, <1>11, <1>12, <1>13
<1>. QED
  BY <1>3, <1>4, <1>11, <1>14 DEF q

(* What writers add makes no path heavier. *)
LEMMA WeightMoves ==
    ASSUME NEW es, NEW fs, Priced(es), Priced(fs), Directed,
           \A e \in DOMAIN es : e \in DOMAIN fs /\ fs[e] = es[e],
           NEW p \in PathType, Simple(es, p)
    PROVE  /\ PathWeight(es, p) \in Nat /\ PathWeight(fs, p) \in Nat
           /\ PathWeight(fs, p) =< PathWeight(es, p)
<1>1. \A i \in 1..(Len(p) - 1) : /\ Step(fs, p[i], p[i + 1])
                                 /\ Hop(fs, p[i], p[i + 1]) =< Hop(es, p[i], p[i + 1])
  BY HopLess DEF Simple, Directed
<1>2. Simple(fs, p)
  BY <1>1 DEF Simple
<1>3. HopsGiven(es, p) /\ PathWeight(es, p) \in Nat /\ Len(p) \in Nat /\ Len(p) >= 1
  BY SimpleWeighs
<1>4. HopsGiven(fs, p) /\ PathWeight(fs, p) \in Nat
  BY <1>2, SimpleWeighs
<1>5. PICK f : Weighs(f, es, p) /\ PathWeight(es, p) = f[Len(p)]
  BY SimpleWeighs
<1>6. PICK g : Weighs(g, fs, p) /\ PathWeight(fs, p) = g[Len(p)]
  BY <1>2, SimpleWeighs
<1>7. \A i \in 1..Len(p) : g[i] =< f[i]
  BY <1>1, <1>3, <1>4, <1>5, <1>6, WeighsLess
<1>. QED
  BY <1>3, <1>4, <1>5, <1>6, <1>7

(***************************************************************************)
(* The heap of Dijkstra.  Every trip in it is a simple path of edges that  *)
(* existed, through settled vertices, and no lighter than it claims.  A    *)
(* vertex with a distance is settled or has a trip of that distance; no    *)
(* trip is nearer than a settled vertex; and over an edge that stays, a    *)
(* settled vertex has given its neighbour the distance it leads to.        *)
(***************************************************************************)
HeapReal(s) ==
    \A t \in ToSet(s.agenda) :
        /\ Simple(Ever, t.path) /\ PathWeight(Ever, t.path) =< t.distance
        /\ \A i \in 1..(Len(t.path) - 1) : t.path[i] \in s.visited
HeapNoted(s) ==
    \A t \in ToSet(s.agenda) :
        /\ Last(t.path) \in DOMAIN s.notes /\ s.notes[Last(t.path)] \in Nat
        /\ s.notes[Last(t.path)] =< t.distance
NotesHeld(s) ==
    \A y \in DOMAIN s.notes : s.notes[y] # None /\ y \notin s.visited =>
        \E t \in ToSet(s.agenda) : Last(t.path) = y /\ t.distance = s.notes[y]
SettledFirst(s) ==
    \A x \in s.visited : /\ x \in DOMAIN s.notes /\ s.notes[x] \in Nat
                         /\ \A t \in ToSet(s.agenda) : s.notes[x] =< t.distance
Relaxed(s) ==
    \A x \in s.visited : \A y : Step(Always, x, y) =>
        s.notes[y] \in Nat /\ s.notes[y] =< s.notes[x] + Hop(Always, x, y)
EndsNoted(s) == \A x, y : Step(Always, x, y) => y \in DOMAIN s.notes
Heap(s) ==
    /\ query.from \in DOMAIN s.notes /\ s.notes[query.from] = 0 /\ query.to \notin s.visited
    /\ HeapReal(s) /\ HeapNoted(s) /\ NotesHeld(s) /\ SettledFirst(s) /\ Relaxed(s) /\ EndsNoted(s)

LEMMA ReadsWeigh ==
    ASSUME Reads, NEW p, NEW x, NEW y
    PROVE  /\ PathWeight(Ever, p)' = PathWeight(Ever, p)
           /\ PathWeight(Always, p)' = PathWeight(Always, p)
           /\ Hop(Always, x, y)' = Hop(Always, x, y)
<1>1. Ever' = Ever /\ Always' = Always
  BY ReadsSame
<1>. QED
  BY <1>1 DEF PathWeight, Hop, Links

LEMMA HeapSame ==
    ASSUME Reads, Heap(search')
    PROVE  Heap(search)'
<1>1. /\ query' = query
      /\ \A p : (Simple(Ever, p)' <=> Simple(Ever, p)) /\ PathWeight(Ever, p)' = PathWeight(Ever, p)
      /\ \A x, y : (Step(Always, x, y)' <=> Step(Always, x, y)) /\ Hop(Always, x, y)' = Hop(Always, x, y)
  BY ReadsSimple, ReadsWeigh, ReadsStep, ReadsSame
<1>. QED
  BY <1>1 DEF Heap, HeapReal, HeapNoted, NotesHeld, SettledFirst, Relaxed, EndsNoted

LEMMA PricedNext ==
    ASSUME History, LabelsGiven, LabelsGiven', WeightsGood', Moves
    PROVE  WeightsGood /\ Priced(Ever') /\ Priced(Always')
<1>1. ASSUME NEW e \in EverIds'
      PROVE  Weight[Ever'[e].label] \in Nat
  <2> DEFINE h == CHOOSE g \in lived' : e \in DOMAIN g.edges
  <2>1. h \in lived' /\ e \in DOMAIN h.edges
    BY DEF EverIds
  <2>2. Ever'[e] = h.edges[e]
    BY DEF Ever
  <2>. HIDE DEF h
  <2>3. Ever'[e].label \in DOMAIN Weight
    BY <2>1, <2>2 DEF LabelsGiven
  <2>. QED
    BY <2>3, WeightsAreNumbers DEF WeightsGood, BadWeight
<1>2. WeightsGood
  BY DEF WeightsGood, Moves, BadWeight
<1>3. Priced(Ever')
  BY <1>1 DEF Priced, Ever
<1>4. Priced(Always')
  BY <1>2, PricedGraphs DEF Priced, Moves
<1>. QED
  BY <1>2, <1>3, <1>4

LEMMA HeapGrows ==
    ASSUME Searching, LabelsGiven', Moves, UNCHANGED search, Asks({"weighted"}), At("run"),
           WeightsGood', WeightsGood => Heap(search)
    PROVE  Heap(search)'
<1>1. WeightsGood /\ Priced(Ever) /\ Priced(Always) /\ Priced(Ever') /\ Priced(Always')
  BY PricedNext, PricedGraphs DEF Searching
<1>2. Directed /\ query' = query /\ Heap(search)
  BY <1>1, WeightedAsks DEF Moves, Asks
<1>3. ASSUME NEW t \in ToSet(search.agenda)
      PROVE  t.path \in PathType /\ t.distance \in Nat
  <2>1. search.agenda \in Seq(TripType)
    BY RunFacts DEF AgendaTyped, Asks
  <2>2. t \in TripType
    BY <2>1, ElementOfSeq, LenProperties DEF ToSet
  <2>. QED
    BY <2>2 DEF TripType
<1>4. HeapReal(search)'
  <2>1. ASSUME NEW t \in ToSet(search.agenda)
        PROVE  /\ Simple(Ever, t.path)' /\ PathWeight(Ever', t.path) =< t.distance
               /\ \A i \in 1..(Len(t.path) - 1) : t.path[i] \in search.visited
    <3>1. /\ Simple(Ever, t.path) /\ PathWeight(Ever, t.path) =< t.distance
          /\ \A i \in 1..(Len(t.path) - 1) : t.path[i] \in search.visited
      BY <1>2 DEF Heap, HeapReal
    <3>2. \A e \in DOMAIN Ever : e \in DOMAIN Ever' /\ Ever'[e] = Ever[e]
      BY DEF Moves, Ever
    <3>3. /\ PathWeight(Ever, t.path) \in Nat /\ PathWeight(Ever', t.path) \in Nat
          /\ PathWeight(Ever', t.path) =< PathWeight(Ever, t.path)
      BY <1>1, <1>2, <1>3, <3>1, <3>2, WeightMoves
    <3>4. Simple(Ever, t.path)'
      BY <3>1, SimpleMoves
    <3>. QED
      BY <1>3, <3>1, <3>3, <3>4
  <2>. QED
    BY <2>1 DEF HeapReal
<1>5. Relaxed(search)'
  <2>1. ASSUME NEW x \in search.visited, NEW y, Step(Always, x, y)'
        PROVE  search.notes[y] \in Nat /\ search.notes[y] =< search.notes[x] + Hop(Always', x, y)
    <3>1. Step(Always, x, y)
      BY <2>1, StepsMove
    <3>2. /\ search.notes[y] \in Nat /\ search.notes[y] =< search.notes[x] + Hop(Always, x, y)
          /\ search.notes[x] \in Nat
      BY <1>2, <3>1 DEF Heap, Relaxed, SettledFirst
    <3>3. \A e \in DOMAIN Always' : e \in DOMAIN Always /\ Always[e] = Always'[e]
      BY DEF Moves
    <3>4. Step(Always', x, y)
      BY <1>2, <2>1 DEF Step, ArcsOf
    <3>5. Hop(Always, x, y) =< Hop(Always', x, y)
      BY <1>1, <1>2, <3>3, <3>4, HopLess DEF Directed
    <3>6. Hop(Always, x, y) \in Nat /\ Hop(Always', x, y) \in Nat
      BY <1>1, <1>2, <3>1, <3>4, HopFacts DEF Directed
    <3>. QED
      BY <3>2, <3>5, <3>6
  <2>. QED
    BY <2>1 DEF Relaxed
<1>6. EndsNoted(search)'
  BY <1>2, StepsMove DEF Heap, EndsNoted
<1>. QED
  BY <1>2, <1>4, <1>5, <1>6 DEF Heap, HeapNoted, NotesHeld, SettledFirst

(* The heap when the distances have been set up. *)
LEMMA HeapBegins ==
    ASSUME Searching, Asks({"weighted"}), ListVertices
    PROVE  Heap(search')
<1> DEFINE p == <<query.from>>
           t0 == [path |-> p, distance |-> 0]
<1>1. /\ query.from \in Ids /\ search'.visited = {}
      /\ search'.agenda = <<t0>> /\ DOMAIN search'.notes = DOMAIN vertices \cup {query.from}
      /\ \A id \in DOMAIN vertices \cup {query.from} :
            search'.notes[id] = IF id = query.from THEN 0 ELSE None
  BY ListVerticesDoes DEF Asks
<1>2. /\ p \in PathType /\ Len(p) = 1 /\ Simple(Ever, p) /\ p[1] = query.from /\ Last(p) = query.from
  BY <1>1, FirstPath
<1>3. PathWeight(Ever, p) = 0
  <2>1. HopsGiven(Ever, p)
    BY <1>2 DEF HopsGiven
  <2>. HIDE DEF p
  <2>2. Len(p) \in Nat /\ Len(p) >= 1
    BY <1>2
  <2>3. PICK f : Weighs(f, Ever, p) /\ PathWeight(Ever, p) = f[Len(p)]
    BY <2>1, <2>2, PathWeighs
  <2>. QED
    BY <1>2, <2>3 DEF Weighs
<1>. HIDE DEF p
<1>4. t0.path = p /\ t0.distance = 0
  OBVIOUS
<1>. HIDE DEF t0
<1>5. ToSet(search'.agenda) = {t0}
  BY <1>1 DEF ToSet
<1>6. HeapReal(search')
  <2>1. \A i \in 1..(Len(p) - 1) : p[i] \in search'.visited
    BY <1>2
  <2>2. PathWeight(Ever, p) =< 0
    BY <1>3
  <2>. QED
    BY <1>2, <1>4, <1>5, <2>1, <2>2 DEF HeapReal
<1>7. HeapNoted(search') /\ NotesHeld(search')
  BY <1>1, <1>2, <1>4, <1>5 DEF HeapNoted, NotesHeld
<1>8. EndsNoted(search')
  BY <1>1, StepsBetween DEF EndsNoted, Searching
<1>. QED
  BY <1>1, <1>6, <1>7, <1>8 DEF Heap, SettledFirst, Relaxed

LEMMA ViaHop ==
    ASSUME Directed, NEW item, NEW y
    PROVE  Via(item, y) = item.distance + Hop(edges, Last(item.path), y)
<1>1. ArcsTo(Last(item.path), y) = Links(edges, Last(item.path), y)
  BY DEF Directed, ArcsTo, Arcs, EdgesOf, Other, Links
<1>. QED
  BY <1>1 DEF Via, Best, Hop

LEMMA RemoveHeld ==
    ASSUME NEW U, NEW s \in Seq(U), NEW i \in DOMAIN s
    PROVE  /\ ToSet(RemoveAt(s, i)) \subseteq ToSet(s) /\ s[i] \in ToSet(s)
           /\ \A t \in ToSet(s) : t = s[i] \/ t \in ToSet(RemoveAt(s, i))
<1> DEFINE r == RemoveAt(s, i)
<1>1. Len(s) \in Nat /\ DOMAIN s = 1..Len(s) /\ i \in 1..Len(s)
  BY LenProperties
<1>2. /\ r \in Seq(U) /\ Len(r) = Len(s) - 1
      /\ \A k \in 1..(Len(s) - 1) : r[k] = IF k < i THEN s[k] ELSE s[k + 1]
  BY <1>1, RemoveAtLists
<1>. HIDE DEF r
<1>3. DOMAIN r = 1..(Len(s) - 1)
  BY <1>2, LenProperties
<1>4. ASSUME NEW t \in ToSet(r)
      PROVE  t \in ToSet(s)
  <2>1. PICK k \in DOMAIN r : t = r[k]
    BY DEF ToSet
  <2>2. k \in DOMAIN s /\ k + 1 \in DOMAIN s /\ (t = s[k] \/ t = s[k + 1])
    BY <1>1, <1>2, <1>3, <2>1
  <2>. QED
    BY <2>2 DEF ToSet
<1>5. ASSUME NEW t \in ToSet(s), t # s[i]
      PROVE  t \in ToSet(r)
  <2>1. PICK k \in DOMAIN s : t = s[k]
    BY DEF ToSet
  <2>2. CASE k < i
    <3>1. k \in DOMAIN r /\ r[k] = t
      BY <1>1, <1>2, <1>3, <2>1, <2>2
    <3>. QED
      BY <3>1 DEF ToSet
  <2>3. CASE k > i
    <3>1. k - 1 \in 1..(Len(s) - 1) /\ ~(k - 1 < i) /\ (k - 1) + 1 = k
      BY <1>1, <2>3
    <3>2. k - 1 \in DOMAIN r /\ r[k - 1] = t
      BY <1>2, <1>3, <2>1, <3>1
    <3>. QED
      BY <3>2 DEF ToSet
  <2>4. k # i /\ k \in Nat /\ i \in Nat
    BY <1>1, <1>5, <2>1
  <2>. QED
    BY <2>2, <2>3, <2>4
<1>6. s[i] \in ToSet(s)
  BY DEF ToSet
<1>. QED
  BY <1>4, <1>5, <1>6 DEF r

LEMMA JoinHeld ==
    ASSUME NEW U, NEW s \in Seq(U), NEW t \in Seq(U)
    PROVE  ToSet(s \o t) = ToSet(s) \cup ToSet(t)
<1> DEFINE u == s \o t
<1>1. Joined(u, s, t)
  BY Joins
<1>. HIDE DEF u
<1>2. ToSet(u) = ToSet(s) \cup ToSet(t)
  BY <1>1 DEF Joined, ToSet
<1>. QED
  BY <1>2 DEF u

(* What it means to settle the vertex that item ends in. *)
Trip(item, y) == [path |-> Append(item.path, y), distance |-> Via(item, y)]
Nearest(item) ==
    /\ item \in TripType /\ item \in ToSet(search.agenda) /\ Last(item.path) \in Ids
    /\ \A t \in ToSet(search.agenda) : t \in TripType /\ item.distance =< t.distance
Settles(item) ==
    /\ Nearest(item) /\ Last(item.path) \notin search.visited /\ Last(item.path) # query.to
    /\ search'.visited = search.visited \cup {Last(item.path)}
    /\ DOMAIN search'.notes = DOMAIN search.notes
    /\ \A y \in DOMAIN search.notes :
          search'.notes[y] = IF y \in Nearer(item) THEN Via(item, y) ELSE search.notes[y]
    /\ \A t \in ToSet(search'.agenda) :
          t \in ToSet(search.agenda) \/ \E y \in Nearer(item) : t = Trip(item, y)
    /\ \A t \in ToSet(search.agenda) : t = item \/ t \in ToSet(search'.agenda)
    /\ \A y \in Nearer(item) : Trip(item, y) \in ToSet(search'.agenda)
Passes(item) ==
    /\ Nearest(item) /\ Last(item.path) \in search.visited
    /\ search'.visited = search.visited /\ search'.notes = search.notes
    /\ ToSet(search'.agenda) \subseteq ToSet(search.agenda)
    /\ \A t \in ToSet(search.agenda) : t = item \/ t \in ToSet(search'.agenda)

LEMMA WeightedTakes ==
    ASSUME Searching, NEW i, ShortestWeighted(i), search'.pc # "failed"
    PROVE  \/ search'.pc = "run" /\ \E item : Settles(item)
           \/ search'.pc = "run" /\ \E item : Passes(item)
           \/ \E item : /\ Nearest(item) /\ Last(item.path) = query.to
                        /\ Answer([found |-> TRUE, distance |-> item.distance, path |-> item.path])
<1> DEFINE item == search.agenda[i]
           id == Last(item.path)
           rest == RemoveAt(search.agenda, i)
<1>1. /\ item \in TripType /\ rest \in Seq(TripType) /\ id \in Ids
      /\ i \in DOMAIN search.agenda /\ search.agenda \in Seq(TripType)
      /\ \A j \in DOMAIN search.agenda : item.distance =< search.agenda[j].distance
  BY WeightedDoes
<1>2. /\ ToSet(rest) \subseteq ToSet(search.agenda) /\ item \in ToSet(search.agenda)
      /\ \A t \in ToSet(search.agenda) : t = item \/ t \in ToSet(rest)
  BY <1>1, RemoveHeld
<1>3. Nearest(item)
  <2>1. \A t \in ToSet(search.agenda) : t \in TripType /\ item.distance =< t.distance
    <3>. TAKE t \in ToSet(search.agenda)
    <3>1. PICK j \in DOMAIN search.agenda : t = search.agenda[j]
      BY DEF ToSet
    <3>. HIDE DEF item
    <3>. QED
      BY <1>1, <3>1, ElementOfSeq, LenProperties
  <2>. QED
    BY <1>1, <1>2, <2>1 DEF Nearest
<1>4. ASSUME NEW why, Fail(why)
      PROVE  FALSE
  BY <1>4, FailTyped
<1>5. \/ /\ id \notin search.visited /\ id = query.to
         /\ Answer([found |-> TRUE, distance |-> item.distance, path |-> item.path])
      \/ /\ id \in search.visited /\ search'.pc = "run"
         /\ search'.agenda = rest /\ search'.visited = search.visited
         /\ search'.notes = search.notes
      \/ /\ id \notin search.visited /\ id # query.to /\ search'.pc = "run"
         /\ \A e \in Arcs(id) : ~BadWeight(edges[e].label)
         /\ search'.visited = search.visited \cup {id}
         /\ search'.notes = [n \in DOMAIN search.notes |->
               IF n \in Nearer(item) THEN Via(item, n) ELSE search.notes[n]]
         /\ \E new : /\ Lists(new, Nearer(item))
                     /\ search'.agenda = rest \o Trips(item, new)
  BY <1>4, WeightedDoes
<1>. HIDE DEF item, rest, id
<1>6. CASE id \notin search.visited /\ id = query.to
           /\ Answer([found |-> TRUE, distance |-> item.distance, path |-> item.path])
  BY <1>3, <1>6 DEF id
<1>7. CASE id \in search.visited /\ search'.pc = "run"
           /\ search'.agenda = rest /\ search'.visited = search.visited
           /\ search'.notes = search.notes
  <2>1. Passes(item)
    BY <1>2, <1>3, <1>7 DEF Passes, id
  <2>. QED
    BY <1>7, <2>1
<1>8. CASE /\ id \notin search.visited /\ id # query.to /\ search'.pc = "run"
           /\ \A e \in Arcs(id) : ~BadWeight(edges[e].label)
           /\ search'.visited = search.visited \cup {id}
           /\ search'.notes = [n \in DOMAIN search.notes |->
                 IF n \in Nearer(item) THEN Via(item, n) ELSE search.notes[n]]
           /\ \E new : /\ Lists(new, Nearer(item))
                       /\ search'.agenda = rest \o Trips(item, new)
  <2>1. PICK new : Lists(new, Nearer(item)) /\ search'.agenda = rest \o Trips(item, new)
    BY <1>8
  <2>2. /\ Trips(item, new) \in Seq(TripType) /\ DOMAIN Trips(item, new) = DOMAIN new
        /\ \A k \in DOMAIN new : Trips(item, new)[k] = Trip(item, new[k])
    <3>1. Nearer(item) \subseteq Neighbors(Last(item.path))
      BY DEF Nearer
    <3>2. item \in TripType /\ \A e \in Arcs(Last(item.path)) : ~BadWeight(edges[e].label)
      BY <1>1, <1>8 DEF id
    <3>3. Lists(new, Nearer(item))
      BY <2>1
    <3>4. /\ Trips(item, new) \in Seq(TripType) /\ DOMAIN Trips(item, new) = DOMAIN new
          /\ \A k \in DOMAIN new : Trips(item, new)[k] =
                [path |-> Append(item.path, new[k]), distance |-> Via(item, new[k])]
      BY <3>1, <3>2, <3>3, TripsFacts
    <3>. QED
      BY <3>4 DEF Trip
  <2>3. ToSet(search'.agenda) = ToSet(rest) \cup ToSet(Trips(item, new))
    BY <1>1, <2>1, <2>2, JoinHeld
  <2>4. ToSet(Trips(item, new)) = {Trip(item, y) : y \in Nearer(item)}
    BY <2>1, <2>2 DEF Lists, ToSet
  <2>5. DOMAIN search'.notes = DOMAIN search.notes
        /\ \A y \in DOMAIN search.notes :
              search'.notes[y] = IF y \in Nearer(item) THEN Via(item, y) ELSE search.notes[y]
    BY <1>8
  <2>6. Settles(item)
    BY <1>2, <1>3, <1>8, <2>3, <2>4, <2>5 DEF Settles, id
  <2>. QED
    BY <1>8, <2>6
<1>. QED
  BY <1>5, <1>6, <1>7, <1>8

(* The heap is not out of step: the nearest trip to an unsettled vertex is *)
(* its distance, and settling it gives no settled vertex a new one.        *)
Dijkstra == Searching /\ Asks({"weighted"}) /\ At("run") /\ WeightsGood /\ Heap(search)

LEMMA NoteTypes ==
    ASSUME Dijkstra
    PROVE  /\ DOMAIN search.notes \subseteq Ids
           /\ \A y \in DOMAIN search.notes : search.notes[y] \in Nat \cup {None}
           /\ None \notin Nat
<1>1. NotesTyped(search)
  BY RunFacts DEF Dijkstra
<1>2. None \notin Nat
  BY WeightsAreNumbers
<1>. QED
  BY <1>1, <1>2 DEF NotesTyped, Dijkstra, Asks

LEMMA WaysOn ==
    ASSUME Dijkstra, NEW item \in TripType, NEW y \in Neighbors(Last(item.path))
    PROVE  LET id == Last(item.path)
           IN  /\ Step(edges, id, y) /\ Step(Ever, id, y) /\ y \in Ids
               /\ Hop(edges, id, y) \in Nat /\ Hop(Ever, id, y) \in Nat
               /\ Hop(Ever, id, y) =< Hop(edges, id, y)
               /\ Via(item, y) = item.distance + Hop(edges, id, y)
               /\ item.distance \in Nat /\ Via(item, y) \in Nat /\ item.distance =< Via(item, y)
<1> DEFINE id == Last(item.path)
<1>1. Step(edges, id, y)
  BY NeighborsAreSteps
<1>2. Directed
  BY WeightedAsks DEF Dijkstra, Asks
<1>3. Step(Ever, id, y) /\ y \in Ids
  BY <1>1, StepsBetween DEF Dijkstra, Searching
<1>. HIDE DEF id
<1>4. Hop(edges, id, y) \in Nat /\ Hop(Ever, id, y) \in Nat /\ Hop(Ever, id, y) =< Hop(edges, id, y)
  BY <1>1, <1>2, <1>3, HopsBetween DEF Dijkstra, Searching
<1>5. Via(item, y) = item.distance + Hop(edges, id, y)
  BY <1>2, ViaHop DEF id
<1>6. item.distance \in Nat
  BY DEF TripType
<1>. QED
  BY <1>1, <1>3, <1>4, <1>5, <1>6 DEF id

LEMMA SettledNotes ==
    ASSUME Dijkstra, NEW item, Settles(item)
    PROVE  LET id == Last(item.path)
           IN  /\ id \in DOMAIN search.notes /\ search.notes[id] = item.distance
               /\ item.distance \in Nat
               /\ \A x \in search'.visited :
                     /\ x \notin Nearer(item) /\ x \in DOMAIN search.notes
                     /\ search'.notes[x] = search.notes[x]
                     /\ search.notes[x] \in Nat /\ search.notes[x] =< item.distance
<1> DEFINE id == Last(item.path)
<1>1. /\ item \in TripType /\ item \in ToSet(search.agenda) /\ item.distance \in Nat
      /\ id \notin search.visited /\ search'.visited = search.visited \cup {id}
  BY DEF Settles, Nearest, TripType
<1>2. id \in DOMAIN search.notes /\ search.notes[id] \in Nat /\ search.notes[id] =< item.distance
  BY <1>1 DEF Dijkstra, Heap, HeapNoted
<1>3. search.notes[id] = item.distance
  <2>1. search.notes[id] # None
    BY <1>2, NoteTypes
  <2>2. PICK t \in ToSet(search.agenda) : t.distance = search.notes[id]
    BY <1>1, <1>2, <2>1 DEF Dijkstra, Heap, NotesHeld
  <2>3. item.distance =< t.distance
    BY <2>2 DEF Settles, Nearest
  <2>. QED
    BY <1>1, <1>2, <2>2, <2>3
<1>4. ASSUME NEW x \in search'.visited
      PROVE  /\ x \notin Nearer(item) /\ x \in DOMAIN search.notes
             /\ search'.notes[x] = search.notes[x]
             /\ search.notes[x] \in Nat /\ search.notes[x] =< item.distance
  <2>1. x \in DOMAIN search.notes /\ search.notes[x] \in Nat /\ search.notes[x] =< item.distance
    <3>1. CASE x \in search.visited
      BY <1>1, <3>1 DEF Dijkstra, Heap, SettledFirst
    <3>2. CASE x = id
      BY <1>1, <1>2, <1>3, <3>2
    <3>. QED
      BY <1>1, <3>1, <3>2
  <2>2. x \notin Nearer(item)
    <3>1. SUFFICES ASSUME x \in Nearer(item) PROVE FALSE
      OBVIOUS
    <3>2. x \in Neighbors(id) /\ Closer(x, Via(item, x))
      BY <3>1 DEF Nearer
    <3>3. Via(item, x) \in Nat /\ item.distance =< Via(item, x)
      BY <1>1, <3>2, WaysOn
    <3>4. search.notes[x] # None
      BY <2>1, NoteTypes
    <3>5. Via(item, x) < search.notes[x]
      BY <3>2, <3>4 DEF Closer
    <3>. QED
      BY <1>1, <2>1, <3>3, <3>5
  <2>. QED
    BY <2>1, <2>2 DEF Settles
<1>. QED
  BY <1>1, <1>2, <1>3, <1>4

LEMMA NearerNotes ==
    ASSUME Dijkstra, NEW item, Settles(item)
    PROVE  /\ \A y \in Nearer(item) :
                 /\ y \in Neighbors(Last(item.path)) /\ y \in DOMAIN search.notes
                 /\ y \notin search'.visited /\ search'.notes[y] = Via(item, y)
                 /\ Via(item, y) \in Nat /\ item.distance =< Via(item, y)
                 /\ search.notes[y] = None \/ (search.notes[y] \in Nat /\ Via(item, y) < search.notes[y])
           /\ \A y \in DOMAIN search.notes \ Nearer(item) : search'.notes[y] = search.notes[y]
           /\ \A y \in Neighbors(Last(item.path)) : y \in DOMAIN search.notes =>
                 search'.notes[y] \in Nat /\ search'.notes[y] =< Via(item, y)
           /\ DOMAIN search'.notes = DOMAIN search.notes
<1> DEFINE id == Last(item.path)
<1>1. /\ item \in TripType /\ DOMAIN search'.notes = DOMAIN search.notes
      /\ \A y \in DOMAIN search.notes :
            search'.notes[y] = IF y \in Nearer(item) THEN Via(item, y) ELSE search.notes[y]
  BY DEF Settles, Nearest
<1>2. ASSUME NEW y \in Nearer(item)
      PROVE  /\ y \in Neighbors(id) /\ y \in DOMAIN search.notes
             /\ y \notin search'.visited /\ search'.notes[y] = Via(item, y)
             /\ Via(item, y) \in Nat /\ item.distance =< Via(item, y)
             /\ search.notes[y] = None \/ (search.notes[y] \in Nat /\ Via(item, y) < search.notes[y])
  <2>1. y \in Neighbors(id) /\ Closer(y, Via(item, y))
    BY DEF Nearer
  <2>2. Via(item, y) \in Nat /\ item.distance =< Via(item, y)
    BY <1>1, <2>1, WaysOn
  <2>3. y \in DOMAIN search.notes
        /\ (search.notes[y] = None \/ (search.notes[y] \in Nat /\ Via(item, y) < search.notes[y]))
    BY <2>1, NoteTypes DEF Closer
  <2>4. y \notin search'.visited
    BY SettledNotes
  <2>. QED
    BY <1>1, <2>1, <2>2, <2>3, <2>4
<1>3. ASSUME NEW y \in Neighbors(id), y \in DOMAIN search.notes
      PROVE  search'.notes[y] \in Nat /\ search'.notes[y] =< Via(item, y)
  <2>1. Via(item, y) \in Nat
    BY <1>1, WaysOn
  <2>2. CASE y \in Nearer(item)
    BY <1>2, <2>1, <2>2
  <2>3. CASE y \notin Nearer(item)
    <3>1. ~Closer(y, Via(item, y))
      BY <2>3 DEF Nearer
    <3>2. search.notes[y] # None /\ ~(Via(item, y) < search.notes[y])
      BY <1>3, <3>1 DEF Closer
    <3>3. search.notes[y] \in Nat
      BY <1>3, <3>2, NoteTypes
    <3>4. search'.notes[y] = search.notes[y]
      BY <1>1, <1>3, <2>3
    <3>. QED
      BY <2>1, <3>2, <3>3, <3>4
  <2>. QED
    BY <2>2, <2>3
<1>4. \A y \in DOMAIN search.notes \ Nearer(item) : search'.notes[y] = search.notes[y]
  BY <1>1
<1>. QED
  BY <1>1, <1>2, <1>3, <1>4

LEMMA TripReal ==
    ASSUME Dijkstra, NEW item, Settles(item), NEW y \in Nearer(item)
    PROVE  LET t == Trip(item, y)
           IN  /\ Simple(Ever, t.path) /\ PathWeight(Ever, t.path) =< t.distance
               /\ \A i \in 1..(Len(t.path) - 1) : t.path[i] \in search'.visited
               /\ Last(t.path) = y /\ t.distance = Via(item, y)
<1> DEFINE p == item.path
           q == Append(p, y)
           id == Last(p)
<1>1. item \in TripType /\ p \in PathType /\ item.distance \in Nat
  BY DEF Settles, Nearest, TripType
<1>2. /\ Simple(Ever, p) /\ PathWeight(Ever, p) =< item.distance
      /\ \A i \in 1..(Len(p) - 1) : p[i] \in search.visited
  BY DEF Settles, Nearest, Dijkstra, Heap, HeapReal
<1>3. y \in Neighbors(id) /\ y \notin search'.visited
  BY NearerNotes
<1>4. search'.visited = search.visited \cup {id}
  BY DEF Settles
<1>5. /\ Step(Ever, id, y) /\ y \in Ids /\ Hop(edges, id, y) \in Nat /\ Hop(Ever, id, y) \in Nat
      /\ Hop(Ever, id, y) =< Hop(edges, id, y) /\ Via(item, y) = item.distance + Hop(edges, id, y)
  BY <1>1, <1>3, WaysOn
<1>6. Len(p) \in Nat /\ Len(p) >= 1 /\ id = p[Len(p)]
  BY <1>1, LastFacts
<1>. HIDE DEF p, id
<1>7. \A i \in 1..Len(p) : p[i] \in search'.visited
  BY <1>2, <1>4, <1>6
<1>8. \A i \in 1..Len(p) : p[i] # y
  BY <1>3, <1>7
<1>9. /\ q \in PathType /\ Len(q) = Len(p) + 1 /\ \A i \in 1..Len(p) : q[i] = p[i]
      /\ Last(q) = y
  BY <1>1, <1>5, AppendPath
<1>10. Simple(Ever, q)
  BY <1>1, <1>2, <1>5, <1>8, SimpleExtends DEF id
<1>11. Priced(Ever) /\ Directed
  BY PricedGraphs, WeightedAsks DEF Dijkstra, Searching, Asks
<1>12. /\ PathWeight(Ever, q) \in Nat /\ PathWeight(Ever, p) \in Nat
       /\ PathWeight(Ever, q) =< PathWeight(Ever, p) + Hop(Ever, id, y)
  BY <1>1, <1>2, <1>5, <1>8, <1>11, WeightAppend DEF id
<1>13. PathWeight(Ever, q) =< Via(item, y)
  BY <1>1, <1>2, <1>5, <1>12
<1>. HIDE DEF q
<1>14. \A i \in 1..(Len(q) - 1) : q[i] \in search'.visited
  BY <1>6, <1>7, <1>9
<1>15. Trip(item, y).path = q /\ Trip(item, y).distance = Via(item, y)
  BY DEF Trip, p, q
<1>. QED
  BY <1>9, <1>10, <1>13, <1>14, <1>15

LEMMA HeapSettles ==
    ASSUME Dijkstra, NEW item, Settles(item)
    PROVE  Heap(search')
<1> DEFINE id == Last(item.path)
<1>1. /\ search'.visited = search.visited \cup {id} /\ id # query.to /\ id \notin search.visited
      /\ item \in TripType /\ item \in ToSet(search.agenda)
      /\ \A t \in ToSet(search.agenda) : t \in TripType /\ item.distance =< t.distance
  BY DEF Settles, Nearest
<1>2. \A t \in ToSet(search'.agenda) :
          t \in ToSet(search.agenda) \/ \E y \in Nearer(item) : t = Trip(item, y)
  BY DEF Settles
<1>3. \A t \in ToSet(search.agenda) : t.path \in PathType /\ t.distance \in Nat
  BY <1>1 DEF TripType
<1>4. /\ id \in DOMAIN search.notes /\ search.notes[id] = item.distance /\ item.distance \in Nat
      /\ \A x \in search'.visited :
            /\ x \notin Nearer(item) /\ x \in DOMAIN search.notes
            /\ search'.notes[x] = search.notes[x]
            /\ search.notes[x] \in Nat /\ search.notes[x] =< item.distance
  BY SettledNotes
<1>5. Heap(search)
  BY DEF Dijkstra
<1>6. HeapReal(search')
  <2>1. ASSUME NEW t \in ToSet(search'.agenda)
        PROVE  /\ Simple(Ever, t.path) /\ PathWeight(Ever, t.path) =< t.distance
               /\ \A i \in 1..(Len(t.path) - 1) : t.path[i] \in search'.visited
    <3>1. CASE t \in ToSet(search.agenda)
      BY <1>1, <1>5, <3>1 DEF Heap, HeapReal
    <3>2. ASSUME NEW y \in Nearer(item), t = Trip(item, y)
          PROVE  /\ Simple(Ever, t.path) /\ PathWeight(Ever, t.path) =< t.distance
                 /\ \A i \in 1..(Len(t.path) - 1) : t.path[i] \in search'.visited
      BY <3>2, TripReal
    <3>. QED
      BY <1>2, <3>1, <3>2
  <2>. QED
    BY <2>1 DEF HeapReal
<1>7. HeapNoted(search')
  <2>1. ASSUME NEW t \in ToSet(search'.agenda)
        PROVE  LET y == Last(t.path)
               IN  y \in DOMAIN search'.notes /\ search'.notes[y] \in Nat /\ search'.notes[y] =< t.distance
    <3>1. CASE t \in ToSet(search.agenda)
      <4> DEFINE y == Last(t.path)
      <4>1. y \in DOMAIN search.notes /\ search.notes[y] \in Nat /\ search.notes[y] =< t.distance
        BY <1>5, <3>1 DEF Heap, HeapNoted
      <4>2. CASE y \in Nearer(item)
        <5>1. search'.notes[y] = Via(item, y) /\ Via(item, y) \in Nat
              /\ (search.notes[y] = None \/ (search.notes[y] \in Nat /\ Via(item, y) < search.notes[y]))
          BY <4>2, NearerNotes
        <5>2. search.notes[y] # None
          BY <4>1, NoteTypes
        <5>. QED
          BY <1>3, <3>1, <4>1, <5>1, <5>2, NearerNotes
      <4>3. CASE y \notin Nearer(item)
        BY <4>1, <4>3, NearerNotes
      <4>. QED
        BY <4>2, <4>3
    <3>2. ASSUME NEW y \in Nearer(item), t = Trip(item, y)
          PROVE  LET z == Last(t.path)
                 IN  z \in DOMAIN search'.notes /\ search'.notes[z] \in Nat /\ search'.notes[z] =< t.distance
      <4>1. Last(t.path) = y /\ t.distance = Via(item, y)
        BY <3>2, TripReal
      <4>2. y \in DOMAIN search'.notes /\ search'.notes[y] = Via(item, y) /\ Via(item, y) \in Nat
        BY NearerNotes
      <4>. QED
        BY <4>1, <4>2
    <3>. QED
      BY <1>2, <3>1, <3>2
  <2>. QED
    BY <2>1 DEF HeapNoted
<1>8. NotesHeld(search')
  <2>1. ASSUME NEW y \in DOMAIN search'.notes, search'.notes[y] # None, y \notin search'.visited
        PROVE  \E t \in ToSet(search'.agenda) : Last(t.path) = y /\ t.distance = search'.notes[y]
    <3>1. CASE y \in Nearer(item)
      <4>1. Last(Trip(item, y).path) = y /\ Trip(item, y).distance = Via(item, y)
        BY <3>1, TripReal
      <4>2. Trip(item, y) \in ToSet(search'.agenda)
        BY <3>1 DEF Settles
      <4>3. search'.notes[y] = Via(item, y)
        BY <3>1, NearerNotes
      <4>. QED
        BY <4>1, <4>2, <4>3
    <3>2. CASE y \notin Nearer(item)
      <4>1. y \in DOMAIN search.notes /\ search'.notes[y] = search.notes[y]
        BY <2>1, <3>2, NearerNotes
      <4>2. PICK t \in ToSet(search.agenda) : Last(t.path) = y /\ t.distance = search.notes[y]
        BY <1>1, <1>5, <2>1, <4>1 DEF Heap, NotesHeld
      <4>3. t # item
        BY <1>1, <2>1, <4>2
      <4>4. t \in ToSet(search'.agenda)
        BY <4>3 DEF Settles
      <4>. QED
        BY <4>1, <4>2, <4>4
    <3>. QED
      BY <3>1, <3>2
  <2>. QED
    BY <2>1 DEF NotesHeld
<1>9. SettledFirst(search')
  <2>1. ASSUME NEW x \in search'.visited, NEW t \in ToSet(search'.agenda)
        PROVE  search'.notes[x] =< t.distance
    <3>1. search'.notes[x] \in Nat /\ search'.notes[x] =< item.distance
      BY <1>4
    <3>2. CASE t \in ToSet(search.agenda)
      BY <1>1, <1>3, <1>4, <3>1, <3>2
    <3>3. ASSUME NEW y \in Nearer(item), t = Trip(item, y)
          PROVE  search'.notes[x] =< t.distance
      <4>1. t.distance = Via(item, y)
        BY <3>3, TripReal
      <4>2. Via(item, y) \in Nat /\ item.distance =< Via(item, y)
        BY NearerNotes
      <4>. QED
        BY <1>4, <3>1, <4>1, <4>2
    <3>. QED
      BY <1>2, <3>2, <3>3
  <2>2. \A x \in search'.visited : x \in DOMAIN search'.notes /\ search'.notes[x] \in Nat
    BY <1>4, NearerNotes
  <2>. QED
    BY <2>1, <2>2 DEF SettledFirst
<1>10. Relaxed(search')
  <2>1. ASSUME NEW x \in search'.visited, NEW y, Step(Always, x, y)
        PROVE  search'.notes[y] \in Nat /\ search'.notes[y] =< search'.notes[x] + Hop(Always, x, y)
    <3>1. y \in DOMAIN search.notes
      BY <1>5, <2>1 DEF Heap, EndsNoted
    <3>2. Directed
      BY WeightedAsks DEF Dijkstra, Asks
    <3>3. /\ Step(edges, x, y) /\ Hop(edges, x, y) =< Hop(Always, x, y)
          /\ Hop(Always, x, y) \in Nat /\ Hop(edges, x, y) \in Nat
      BY <2>1, <3>2, HopsBetween DEF Dijkstra, Searching
    <3>4. search'.notes[x] = search.notes[x] /\ search.notes[x] \in Nat
      BY <1>4
    <3>5. CASE x \in search.visited
      <4>1. search.notes[y] \in Nat /\ search.notes[y] =< search.notes[x] + Hop(Always, x, y)
        BY <1>5, <2>1, <3>5 DEF Heap, Relaxed
      <4>2. search'.notes[y] \in Nat /\ search'.notes[y] =< search.notes[y]
        <5>1. CASE y \in Nearer(item)
          <6>1. search.notes[y] # None
            BY <4>1, NoteTypes
          <6>2. search'.notes[y] = Via(item, y) /\ Via(item, y) \in Nat /\ Via(item, y) < search.notes[y]
            BY <5>1, <6>1, NearerNotes
          <6>. QED
            BY <4>1, <6>2
        <5>2. CASE y \notin Nearer(item)
          <6>1. search'.notes[y] = search.notes[y]
            BY <3>1, <5>2, NearerNotes
          <6>. QED
            BY <4>1, <6>1
        <5>. QED
          BY <5>1, <5>2
      <4>. QED
        BY <3>3, <3>4, <4>1, <4>2
    <3>6. CASE x = id
      <4>1. y \in Neighbors(id)
        BY <3>3, <3>6, NeighborsAreSteps
      <4>2. Via(item, y) = item.distance + Hop(edges, id, y) /\ Via(item, y) \in Nat
        BY <1>1, <4>1, WaysOn
      <4>3. search'.notes[y] \in Nat /\ search'.notes[y] =< Via(item, y)
        BY <3>1, <4>1, NearerNotes
      <4>4. search'.notes[x] = item.distance
        BY <1>4, <3>4, <3>6
      <4>. HIDE DEF id
      <4>. QED
        BY <1>4, <3>3, <3>6, <4>2, <4>3, <4>4
    <3>. QED
      BY <1>1, <3>5, <3>6
  <2>. QED
    BY <2>1 DEF Relaxed
<1>11. EndsNoted(search')
  BY <1>5, NearerNotes DEF Heap, EndsNoted
<1>12. query.from \in DOMAIN search'.notes /\ search'.notes[query.from] = 0
  <2>1. query.from \in DOMAIN search.notes /\ search.notes[query.from] = 0
    BY <1>5 DEF Heap
  <2>2. query.from \notin Nearer(item)
    <3>1. SUFFICES ASSUME query.from \in Nearer(item) PROVE FALSE
      OBVIOUS
    <3> DEFINE v == Via(item, query.from)
    <3>2. v \in Nat /\ (search.notes[query.from] = None \/ v < search.notes[query.from])
      BY <3>1, NearerNotes
    <3>3. search.notes[query.from] # None
      BY <2>1, NoteTypes
    <3>. HIDE DEF v
    <3>. QED
      BY <2>1, <3>2, <3>3
  <2>. QED
    BY <2>1, <2>2, NearerNotes
<1>13. query.to \notin search'.visited
  BY <1>1, <1>5 DEF Heap
<1>. QED
  BY <1>6, <1>7, <1>8, <1>9, <1>10, <1>11, <1>12, <1>13 DEF Heap

LEMMA HeapPasses ==
    ASSUME Dijkstra, NEW item, Passes(item)
    PROVE  Heap(search')
<1>1. /\ item \in ToSet(search.agenda) /\ Last(item.path) \in search.visited
      /\ search'.visited = search.visited /\ search'.notes = search.notes
      /\ ToSet(search'.agenda) \subseteq ToSet(search.agenda)
      /\ \A t \in ToSet(search.agenda) : t = item \/ t \in ToSet(search'.agenda)
  BY DEF Passes, Nearest
<1>2. HeapReal(search') /\ HeapNoted(search') /\ SettledFirst(search')
  BY <1>1 DEF Dijkstra, Heap, HeapReal, HeapNoted, SettledFirst
<1>3. NotesHeld(search')
  BY <1>1 DEF Dijkstra, Heap, NotesHeld
<1>. QED
  BY <1>1, <1>2, <1>3 DEF Dijkstra, Heap, Relaxed, EndsNoted

(* Along a path that stays, the heap is never further behind than the path *)
(* is heavy: up to each of its vertices, that vertex is settled within the *)
(* weight, or some trip waits that is no longer.                           *)
LEMMA TripAhead ==
    ASSUME Dijkstra, query.from \in Ids, NEW p, Staying(p)
    PROVE  /\ PathWeight(Always, p) \in Nat
           /\ \E t \in ToSet(search.agenda) : t.distance =< PathWeight(Always, p)
<1>1. p \in PathType /\ Simple(Always, p) /\ Last(p) = query.to
  BY StayingTyped DEF Staying, Dijkstra
<1>2. Priced(Always) /\ Directed
  BY PricedGraphs, WeightedAsks DEF Dijkstra, Searching, Asks
<1>3. /\ HopsGiven(Always, p) /\ PathWeight(Always, p) \in Nat /\ Len(p) \in Nat /\ Len(p) >= 1
      /\ p[Len(p)] = query.to
  BY <1>1, <1>2, SimpleWeighs, LastFacts
<1>4. PICK f : Weighs(f, Always, p) /\ PathWeight(Always, p) = f[Len(p)]
  BY <1>1, <1>2, SimpleWeighs
<1> DEFINE Met(j) == \/ \E t \in ToSet(search.agenda) : t.distance =< f[j]
                     \/ /\ p[j] \in search.visited /\ search.notes[p[j]] =< f[j]
           T == {n \in Nat : n + 1 =< Len(p) => Met(n + 1)}
<1>5. \A t \in ToSet(search.agenda) : t.distance \in Nat
  <2>1. search.agenda \in Seq(TripType)
    BY RunFacts DEF AgendaTyped, Asks, Dijkstra
  <2>2. \A t \in ToSet(search.agenda) : t \in TripType
    BY <2>1, ElementOfSeq, LenProperties DEF ToSet
  <2>. QED
    BY <2>2 DEF TripType
<1>6. ASSUME NEW y \in DOMAIN search.notes, search.notes[y] \in Nat, NEW w \in Nat, search.notes[y] =< w
      PROVE  \/ \E t \in ToSet(search.agenda) : t.distance =< w
             \/ y \in search.visited /\ search.notes[y] =< w
  <2>1. search.notes[y] # None
    BY <1>6, NoteTypes
  <2>2. CASE y \notin search.visited
    <3>1. \E t \in ToSet(search.agenda) : t.distance = search.notes[y]
      BY <2>1, <2>2 DEF Dijkstra, Heap, NotesHeld
    <3>. QED
      BY <1>6, <3>1
  <2>. QED
    BY <1>6, <2>2
<1>7. 0 \in T
  <2>1. p[1] = query.from /\ f[1] = 0
    BY <1>1, <1>4 DEF Simple, Weighs
  <2>2. query.from \in DOMAIN search.notes /\ search.notes[query.from] = 0
    BY DEF Dijkstra, Heap
  <2>3. Met(1)
    BY <1>6, <2>1, <2>2
  <2>. QED
    BY <2>3
<1>8. ASSUME NEW n \in Nat, n \in T
      PROVE  n + 1 \in T
  <2>. SUFFICES ASSUME (n + 1) + 1 =< Len(p)
                PROVE  Met((n + 1) + 1)
    OBVIOUS
  <2> DEFINE x == p[n + 1]
             y == p[(n + 1) + 1]
             h == Hop(Always, x, y)
  <2>1. n + 1 =< Len(p) /\ n + 1 \in 1..(Len(p) - 1) /\ n + 1 \in 1..Len(p) /\ (n + 1) + 1 \in 1..Len(p)
    BY <1>3
  <2>2. Step(Always, x, y) /\ h \in Nat
    BY <1>1, <1>3, <2>1 DEF Simple, HopsGiven
  <2>3. f[n + 1] \in Nat /\ f[(n + 1) + 1] \in Nat /\ f[(n + 1) + 1] = f[n + 1] + h
    BY <1>4, <2>1 DEF Weighs
  <2>4. Met(n + 1)
    BY <1>8, <2>1
  <2>. HIDE DEF x, y, h
  <2>5. CASE \E t \in ToSet(search.agenda) : t.distance =< f[n + 1]
    <3>1. PICK t \in ToSet(search.agenda) : t.distance =< f[n + 1]
      BY <2>5
    <3>2. t.distance =< f[(n + 1) + 1]
      BY <1>5, <2>2, <2>3, <3>1
    <3>. QED
      BY <3>2
  <2>6. CASE x \in search.visited /\ search.notes[x] =< f[n + 1]
    <3>1. search.notes[x] \in Nat /\ search.notes[y] \in Nat /\ search.notes[y] =< search.notes[x] + h
          /\ y \in DOMAIN search.notes
      BY <2>2, <2>6 DEF Dijkstra, Heap, Relaxed, SettledFirst, EndsNoted, h
    <3>2. search.notes[y] =< f[(n + 1) + 1]
      BY <2>2, <2>3, <2>6, <3>1
    <3>. QED
      BY <1>6, <2>3, <3>1, <3>2 DEF y
  <2>. QED
    BY <2>4, <2>5, <2>6 DEF x
<1>9. Nat \subseteq T
  <2>. HIDE DEF T
  <2>. QED
    BY <1>7, <1>8, NatsWithin
<1>10. Met(Len(p))
  <2>1. Len(p) - 1 \in Nat /\ (Len(p) - 1) + 1 = Len(p)
    BY <1>3
  <2>2. Len(p) - 1 \in T
    BY <1>9, <2>1
  <2>. HIDE DEF Met
  <2>. QED
    BY <2>1, <2>2
<1>11. query.to \notin search.visited
  BY DEF Dijkstra, Heap
<1>. QED
  BY <1>3, <1>4, <1>10, <1>11

LEMMA HeapFound ==
    ASSUME Dijkstra, NEW item, Nearest(item), Last(item.path) = query.to
    PROVE  /\ item.path \in SimplePaths(Ever, query.from, query.to, AllSteps)
           /\ PathWeight(Ever, item.path) =< item.distance
           /\ \A p \in SimplePaths(Always, query.from, query.to, AllSteps) :
                 item.distance =< PathWeight(Always, p)
<1>1. Searching /\ query.from \in Ids /\ item.path \in PathType /\ item.distance \in Nat
  <2>1. query.from \in Ids
    BY RunFacts DEF Dijkstra, Asks
  <2>. QED
    BY <2>1 DEF Dijkstra, Nearest, TripType
<1>2. Simple(Ever, item.path) /\ PathWeight(Ever, item.path) =< item.distance
  BY DEF Dijkstra, Heap, HeapReal, Nearest
<1>3. AllSteps \in Nat /\ Len(item.path) =< AllSteps + 1
  BY <1>1, <1>2, SimpleIsShort
<1>4. item.path \in SimplePaths(Ever, query.from, query.to, AllSteps)
  BY <1>1, <1>2, <1>3, SimplePathsFacts
<1>5. ASSUME NEW p \in SimplePaths(Always, query.from, query.to, AllSteps)
      PROVE  item.distance =< PathWeight(Always, p)
  <2>1. Staying(p)
    BY <1>1, <1>3, SimplePathsFacts
  <2>2. PathWeight(Always, p) \in Nat /\ \E t \in ToSet(search.agenda) : t.distance =< PathWeight(Always, p)
    BY <1>1, <2>1, TripAhead
  <2>3. PICK t \in ToSet(search.agenda) : t.distance =< PathWeight(Always, p)
    BY <2>2
  <2>4. item.distance =< t.distance /\ t.distance \in Nat
    BY <2>3 DEF Nearest, TripType
  <2>. QED
    BY <1>1, <2>2, <2>3, <2>4
<1>. QED
  BY <1>2, <1>4, <1>5

LEMMA HeapEnd ==
    ASSUME Dijkstra, search.agenda = <<>>
    PROVE  SimplePaths(Always, query.from, query.to, AllSteps) = {}
<1>1. Searching /\ query.from \in Ids
  BY RunFacts DEF Dijkstra, Asks
<1>2. AllSteps \in Nat
  BY <1>1, AllStepsFacts DEF Searching
<1>3. ASSUME NEW p \in SimplePaths(Always, query.from, query.to, AllSteps)
      PROVE  FALSE
  <2>1. Staying(p)
    BY <1>1, <1>2, SimplePathsFacts
  <2>2. \E t \in ToSet(search.agenda) : t.distance =< PathWeight(Always, p)
    BY <1>1, <2>1, TripAhead
  <2>. QED
    BY <2>2 DEF ToSet
<1>. QED
  BY <1>3

(***************************************************************************)
(* Both kinds together.                                                    *)
(***************************************************************************)
Length(es, p) == IF Asks({"weighted"}) THEN PathWeight(es, p) ELSE Len(p) - 1
ShortestBetween(r) ==
    /\ r.found =>
          /\ r.path \in SimplePaths(Ever, query.from, query.to, AllSteps)
          /\ Length(Ever, r.path) =< r.distance
          /\ \A p \in SimplePaths(Always, query.from, query.to, AllSteps) : r.distance =< Length(Always, p)
    /\ SimplePaths(Always, query.from, query.to, AllSteps) # {} => r.found
ShortestInv ==
    Asks({"unweighted", "weighted"}) =>
        /\ Asks({"unweighted"}) /\ At("run") => Waves(search)
        /\ Asks({"weighted"}) /\ At("run") /\ WeightsGood => Heap(search)
        /\ ShortestBounded

LEMMA ShortestSame ==
    ASSUME Reads, WeightsGood => ShortestBetween(search'.result)
    PROVE  ShortestBounded'
<1>1. /\ query' = query /\ AllSteps' = AllSteps /\ (WeightsGood' <=> WeightsGood)
      /\ (Asks({"weighted"})' <=> Asks({"weighted"}))
  BY ReadsSame DEF AllSteps, WeightsGood, Asks
<1>2. \A p : /\ PathWeight(Ever, p)' = PathWeight(Ever, p)
             /\ PathWeight(Always, p)' = PathWeight(Always, p)
  BY ReadsWeigh
<1>3. /\ SimplePaths(Ever, query.from, query.to, AllSteps)' = SimplePaths(Ever, query.from, query.to, AllSteps)
      /\ SimplePaths(Always, query.from, query.to, AllSteps)' = SimplePaths(Always, query.from, query.to, AllSteps)
  BY <1>1, ReadsSame DEF SimplePaths, ArcsOf
<1>. QED
  BY <1>1, <1>2, <1>3 DEF ShortestBounded, ShortestBetween, Length, WeightsGood

LEMMA ShortestNow ==
    ASSUME ShortestBounded, Asks({"unweighted", "weighted"}), At("done"), WeightsGood
    PROVE  ShortestBetween(search.result)
BY DEF ShortestBounded, ShortestBetween, Answered, Length, WeightsGood

LEMMA NotFound ==
    ASSUME SimplePaths(Always, query.from, query.to, AllSteps) = {}
    PROVE  ShortestBetween([found |-> FALSE])
BY DEF ShortestBetween

(* Answers of the code: of the search by levels, with both ends the same   *)
(* and otherwise, and of Dijkstra.                                         *)
LEMMA WavesAnswer ==
    ASSUME Searching, ShortestUnweighted, Waves(search), search'.pc = "done"
    PROVE  ShortestBetween(search'.result)
<1> DEFINE end == Append(Item, query.to)
           r == [found |-> TRUE, distance |-> Len(end) - 1, path |-> end]
<1>1. query.to \in Neighbors(Last(Item)) \ search.visited /\ Answer(r) /\ ~Asks({"weighted"})
  <2>1. ~Fail("vertex")
    BY FailTyped
  <2>2. ~Asks({"weighted"})
    BY DEF ShortestUnweighted, Working, Asks
  <2>. QED
    BY <2>1, <2>2, UnweightedDoes
<1>2. /\ end \in SimplePaths(Ever, query.from, query.to, AllSteps) /\ Len(end) \in Nat
      /\ \A p \in SimplePaths(Always, query.from, query.to, AllSteps) :
            Len(p) \in Nat /\ Len(end) =< Len(p)
  BY <1>1, WavesFound
<1>3. search'.result = r
  BY <1>1 DEF Answer, Go, Searching, SearchTyped
<1>. HIDE DEF end
<1>4. r.found /\ r.path = end /\ r.distance = Len(end) - 1
  OBVIOUS
<1>. HIDE DEF r
<1>5. /\ Length(Ever, r.path) =< r.distance
      /\ \A p \in SimplePaths(Always, query.from, query.to, AllSteps) : r.distance =< Length(Always, p)
  BY <1>1, <1>2, <1>4 DEF Length
<1>6. ShortestBetween(r)
  BY <1>2, <1>4, <1>5 DEF ShortestBetween
<1>. QED
  BY <1>3, <1>6, Zenon

LEMMA SameEndsAnswer ==
    ASSUME Searching, Asks({"unweighted", "weighted"}), CheckTo, search'.pc = "done"
    PROVE  ShortestBetween(search'.result)
<1> DEFINE p0 == <<query.from>>
           r == [found |-> TRUE, distance |-> 0, path |-> p0]
<1>1. Asks({"unweighted"}) /\ query.from = query.to /\ Answer(r) /\ ~Asks({"weighted"})
  <2>1. ~Fail("vertex")
    BY FailTyped
  <2>2. DOMAIN search = {"pc", "agenda", "visited", "notes", "result"}
    BY DEF Searching, SearchTyped
  <2> DEFINE toList == [search EXCEPT !.pc = "list"]
             toRun == [search EXCEPT !.pc = "run", !.agenda = <<<<query.from>>>>, !.visited = {query.from}]
  <2>3. toList.pc = "list" /\ toRun.pc = "run"
    BY <2>2
  <2>4. search' # toList /\ search' # toRun
    BY <2>3
  <2>5. \/ ~HasVertex(query.to) /\ Fail("vertex")
        \/ HasVertex(query.to) /\ Asks({"weighted"}) /\ search' = toList
        \/ HasVertex(query.to) /\ Asks({"unweighted"}) /\ query.from = query.to /\ Answer(r)
        \/ search' = toRun
    BY DEF CheckTo, Go
  <2>6. ~(Asks({"unweighted"}) /\ Asks({"weighted"}))
    BY DEF Asks
  <2>. QED
    BY <2>1, <2>4, <2>5, <2>6
<1>2. query.from \in Ids
  BY DEF Searching, SearchTyped, CheckTo, At, Asks
<1>3. p0 \in PathType /\ Len(p0) = 1 /\ Simple(Ever, p0) /\ Last(p0) = query.from
  BY <1>2, FirstPath
<1>4. search'.result = r
  BY <1>1 DEF Answer, Go, Searching, SearchTyped
<1>. HIDE DEF p0
<1>5. r.found /\ r.path = p0 /\ r.distance = 0
  OBVIOUS
<1>. HIDE DEF r
<1>6. AllSteps \in Nat /\ Len(p0) =< AllSteps + 1
  BY <1>3, SimpleIsShort
<1>7. r.path \in SimplePaths(Ever, query.from, query.to, AllSteps)
  BY <1>1, <1>2, <1>3, <1>5, <1>6, SimplePathsFacts
<1>8. Length(Ever, r.path) =< r.distance
  <2>1. Length(Ever, p0) = Len(p0) - 1
    BY <1>1 DEF Length
  <2>2. Length(Ever, p0) = 0
    BY <1>3, <2>1
  <2>3. Length(Ever, r.path) = 0
    BY <1>5, <2>2, Zenon
  <2>. HIDE DEF Length
  <2>. QED
    BY <1>5, <2>3
<1>9. ASSUME NEW p \in SimplePaths(Always, query.from, query.to, AllSteps)
      PROVE  r.distance =< Length(Always, p)
  <2>1. Staying(p)
    BY <1>2, <1>6, SimplePathsFacts
  <2>2. Len(p) \in Nat /\ Len(p) >= 1
    BY <1>2, <2>1, StayingReach
  <2>. QED
    BY <1>1, <1>5, <2>2 DEF Length
<1>10. ShortestBetween(r)
  BY <1>5, <1>7, <1>8, <1>9 DEF ShortestBetween
<1>. QED
  BY <1>4, <1>10, Zenon

LEMMA HeapAnswer ==
    ASSUME Dijkstra, NEW i, ShortestWeighted(i), search'.pc = "done"
    PROVE  ShortestBetween(search'.result)
<1>0. DOMAIN search = {"pc", "agenda", "visited", "notes", "result"}
  BY DEF Dijkstra, Searching, SearchTyped
<1>1. PICK item : /\ Nearest(item) /\ Last(item.path) = query.to
                  /\ Answer([found |-> TRUE, distance |-> item.distance, path |-> item.path])
  BY WeightedTakes DEF Dijkstra
<1> DEFINE r == [found |-> TRUE, distance |-> item.distance, path |-> item.path]
<1>2. search'.result = r
  BY <1>0, <1>1 DEF Answer, Go
<1>3. r.found /\ r.path = item.path /\ r.distance = item.distance
  OBVIOUS
<1>. HIDE DEF r
<1>4. /\ item.path \in SimplePaths(Ever, query.from, query.to, AllSteps)
      /\ PathWeight(Ever, item.path) =< item.distance
      /\ \A p \in SimplePaths(Always, query.from, query.to, AllSteps) :
            item.distance =< PathWeight(Always, p)
  BY <1>1, HeapFound
<1>5. \A es, p : Length(es, p) = PathWeight(es, p)
  BY DEF Length, Dijkstra
<1>6. ShortestBetween(r)
  BY <1>3, <1>4, <1>5, Zenon DEF ShortestBetween
<1>. QED
  BY <1>2, <1>6, Zenon

LEMMA NoneAnswer ==
    ASSUME Searching, Asks({"unweighted", "weighted"}), ShortestInv, Exhausted, WeightsGood
    PROVE  ShortestBetween(search'.result)
<1>0. DOMAIN search = {"pc", "agenda", "visited", "notes", "result"}
  BY DEF Searching, SearchTyped
<1>1. Answer([found |-> FALSE]) /\ At("run") /\ search.agenda = <<>>
  BY DEF Exhausted, Asks
<1>2. search'.result = [found |-> FALSE]
  BY <1>0, <1>1 DEF Answer, Go
<1>3. SimplePaths(Always, query.from, query.to, AllSteps) = {}
  <2>1. CASE Asks({"unweighted"})
    BY <1>1, <2>1, WavesEnd DEF ShortestInv
  <2>2. CASE Asks({"weighted"})
    <3>1. Dijkstra
      BY <1>1, <2>2 DEF ShortestInv, Dijkstra
    <3>. QED
      BY <1>1, <3>1, HeapEnd
  <2>. QED
    BY <2>1, <2>2 DEF Asks
<1>4. ShortestBetween([found |-> FALSE])
  BY <1>3, NotFound
<1>. QED
  BY <1>2, <1>4, Zenon

(* The steps of the search itself.                                         *)
LEMMA ShortestRuns ==
    ASSUME Searching, Asks({"unweighted", "weighted"}), ShortestInv, Traverse, Reads, search'.pc = "run"
    PROVE  /\ Asks({"unweighted"}) => Waves(search)'
           /\ Asks({"weighted"}) /\ WeightsGood => Heap(search)'
<1>0. ~Exhausted
  BY ExhaustedTyped
<1>1. ~CheckFrom
  <2>1. DOMAIN search = {"pc", "agenda", "visited", "notes", "result"}
    BY DEF Searching, SearchTyped
  <2>. QED
    BY <2>1, FailTyped DEF CheckFrom, Go, Asks
<1>2. Asks({"weighted"}) => ~CheckTo
  <2>1. DOMAIN search = {"pc", "agenda", "visited", "notes", "result"}
    BY DEF Searching, SearchTyped
  <2>. QED
    BY <2>1, FailTyped DEF CheckTo, Go, Asks
<1>3. ASSUME Asks({"unweighted"})
      PROVE  Waves(search)'
  <2>1. CheckTo \/ ShortestUnweighted
    BY <1>0, <1>1, <1>3 DEF Traverse, Asks, ListVertices, BFS, DFS, AllSimplePaths, HasCycle, Working
  <2>2. ShortestUnweighted => Waves(search)
    BY <1>3, UnweightedDoes DEF ShortestInv
  <2>3. Waves(search')
    BY <1>3, <2>1, <2>2, WavesBegin, WavesStep
  <2>. QED
    BY <2>3, WavesSame
<1>4. ASSUME Asks({"weighted"}), WeightsGood
      PROVE  Heap(search)'
  <2>1. ListVertices \/ \E i : ShortestWeighted(i)
    BY <1>0, <1>1, <1>2, <1>4 DEF Traverse, Asks, BFS, DFS, AllSimplePaths, ShortestUnweighted, HasCycle, Working
  <2>2. CASE ListVertices
    BY <1>4, <2>2, HeapBegins, HeapSame
  <2>3. ASSUME NEW i, ShortestWeighted(i)
        PROVE  Heap(search)'
    <3>1. Dijkstra
      BY <1>4, <2>3, WeightedDoes DEF ShortestInv, Dijkstra
    <3>2. \E item : Settles(item) \/ Passes(item)
      <4>1. DOMAIN search = {"pc", "agenda", "visited", "notes", "result"}
        BY DEF Searching, SearchTyped
      <4>2. ASSUME NEW r, Answer(r)
            PROVE  search'.pc = "done"
        BY <4>1, <4>2 DEF Answer, Go
      <4>. QED
        BY <2>3, <4>2, WeightedTakes
    <3>3. Heap(search')
      BY <3>1, <3>2, HeapSettles, HeapPasses
    <3>. QED
      BY <3>3, HeapSame
  <2>. QED
    BY <2>1, <2>2, <2>3
<1>. QED
  BY <1>3, <1>4

LEMMA ShortestEnds ==
    ASSUME Searching, Asks({"unweighted", "weighted"}), ShortestInv, Traverse, search'.pc = "done",
           WeightsGood
    PROVE  ShortestBetween(search'.result)
<1>0. DOMAIN search = {"pc", "agenda", "visited", "notes", "result"}
  BY DEF Searching, SearchTyped
<1>1. ~CheckFrom
  BY <1>0, FailTyped DEF CheckFrom, Go, Asks
<1>2. ~ListVertices
  BY ListVerticesDoes
<1>3. CheckTo \/ Exhausted \/ ShortestUnweighted \/ (Asks({"weighted"}) /\ \E i : ShortestWeighted(i))
  BY <1>1, <1>2 DEF Traverse, Asks, BFS, DFS, AllSimplePaths, HasCycle, Working
<1>4. CASE CheckTo
  BY <1>4, SameEndsAnswer
<1>5. CASE Exhausted
  BY <1>5, NoneAnswer
<1>6. CASE ShortestUnweighted
  BY <1>6, UnweightedDoes, WavesAnswer DEF ShortestInv
<1>7. ASSUME Asks({"weighted"}), NEW i, ShortestWeighted(i)
      PROVE  ShortestBetween(search'.result)
  <2>1. Dijkstra
    BY <1>7, WeightedDoes DEF ShortestInv, Dijkstra
  <2>. QED
    BY <1>7, <2>1, HeapAnswer
<1>. QED
  BY <1>3, <1>4, <1>5, <1>6, <1>7

LEMMA NextShortest ==
    ASSUME Searching, LabelsGiven', ShortestInv, [Next]_vars
    PROVE  ShortestInv'
<1>. SUFFICES ASSUME Asks({"unweighted", "weighted"})
              PROVE  /\ Asks({"unweighted"}) /\ At("run")' => Waves(search)'
                     /\ Asks({"weighted"}) /\ At("run")' /\ WeightsGood' => Heap(search)'
                     /\ ShortestBounded'
  BY SearchCases DEF ShortestInv, Asks
<1>0. query' = query
  BY SearchCases
<1>1. CASE ~Open /\ Reads /\ search' = search /\ SearchTyped(search')
  <2>1. At("done") /\ WeightsGood => ShortestBetween(search'.result)
    BY <1>1, ShortestNow DEF ShortestInv
  <2>2. ~At("done") => ShortestBounded'
    BY <1>0, <1>1 DEF ShortestBounded, Answered, At
  <2>. QED
    BY <1>1, <2>1, <2>2, ShortestSame DEF Open, At
<1>2. CASE Open /\ search' = search
  <2>1. Asks({"unweighted"}) /\ At("run") => Waves(search)'
    BY <1>2, SearchCases, WavesGrow DEF ShortestInv
  <2>2. Asks({"weighted"}) /\ At("run") /\ WeightsGood' => Heap(search)'
    BY <1>2, SearchCases, HeapGrows DEF ShortestInv
  <2>. QED
    BY <1>2, <2>1, <2>2 DEF ShortestBounded, Answered, At, Open
<1>3. CASE Traverse /\ Reads /\ GoesWell
  <2>0. WeightsGood' <=> WeightsGood
    BY <1>3, ReadsSame DEF WeightsGood
  <2>1. CASE search'.pc = "run"
    <3>1. /\ Asks({"unweighted"}) => Waves(search)'
          /\ Asks({"weighted"}) /\ WeightsGood => Heap(search)'
      BY <1>3, <2>1, ShortestRuns
    <3>. QED
      BY <2>0, <2>1, <3>1 DEF ShortestBounded, Answered, At
  <2>2. CASE search'.pc = "done"
    <3>1. WeightsGood => ShortestBetween(search'.result)
      BY <1>3, <2>2, ShortestEnds
    <3>2. ShortestBounded'
      BY <1>3, <3>1, ShortestSame
    <3>. QED
      BY <2>2, <3>2 DEF At
  <2>3. CASE search'.pc \notin {"run", "done"}
    BY <2>3 DEF ShortestBounded, Answered, At
  <2>. QED
    BY <2>1, <2>2, <2>3
<1>. QED
  BY <1>1, <1>2, <1>3, SearchCases

(* A shortest path consists of edges that existed, is no longer than any   *)
(* path that was there all the time, and is found if there was one, with   *)
(* weights and without (path.go:30-92, DESIGN.md:112).                     *)
THEOREM ShortestIsBounded == Spec => []ShortestBounded
<1>1. Init => FailInv /\ ShortestInv
  <2>. SUFFICES ASSUME Init, Asks({"unweighted", "weighted"}) PROVE ~At("run") /\ ~At("done")
    BY FailInvariance DEF ShortestInv, ShortestBounded, Answered
  <2>1. search = NewSearch(query) /\ query.kind \in {"unweighted", "weighted"}
    BY DEF Init, Asks
  <2>. QED
    BY <2>1 DEF NewSearch, At
<1>2. FailInv /\ ShortestInv /\ [Next]_vars => (FailInv /\ ShortestInv)'
  <2>. SUFFICES ASSUME FailInv, ShortestInv, [Next]_vars PROVE ShortestInv'
    BY FailInvariance
  <2>1. CASE Asks({"unweighted", "weighted"})
    <3>1. LabelsGiven'
      BY FailInvariance DEF FailInv
    <3>. QED
      BY <2>1, <3>1, FailInvSearching, NextShortest DEF Asks, SearchKinds
  <2>2. CASE ~Asks({"unweighted", "weighted"})
    BY <2>2, FailInvSearching DEF ShortestInv, Asks
  <2>. QED
    BY <2>1, <2>2
<1>3. ShortestInv => ShortestBounded
  BY DEF ShortestInv, ShortestBounded, Answered, Asks
<1>. QED
  BY <1>1, <1>2, <1>3, FailInvariance, PTL DEF Spec

-----------------------------------------------------------------------------
(***************************************************************************)
(* The reports.                                                            *)
(***************************************************************************)

(* Where edges meet a vertex; a self-loop meets it twice. *)
EdgeEnds(es, id) ==
    {e \in DOMAIN es : es[e].from = id} \X {"out"} \cup {e \in DOMAIN es : es[e].to = id} \X {"in"}

LEMMA DegreeFacts ==
    ASSUME History, NEW id
    PROVE  /\ Out(id) \in Nat /\ In(id) \in Nat /\ Total(id) \in Nat
           /\ Cardinality(EdgeEnds(edges, id)) = Total(id)
           /\ Total(id) = 0 <=> EdgeEnds(edges, id) = {}
<1> DEFINE X == {e \in DOMAIN edges : edges[e].from = id}
           Y == {e \in DOMAIN edges : edges[e].to = id}
           P == X \X {"out"}
           Q == Y \X {"in"}
<1>1. IsFiniteSet(DOMAIN edges)
  BY IdsAreNumbers, NowFacts, FS_Subset
<1>2. /\ IsFiniteSet(X) /\ Cardinality(X) \in Nat
      /\ IsFiniteSet(Y) /\ Cardinality(Y) \in Nat
  BY <1>1, FS_Subset, FS_CardinalityType
<1>3. Out(id) = Cardinality(X) /\ In(id) = Cardinality(Y) /\ EdgeEnds(edges, id) = P \cup Q
  BY DEF Out, In, EdgeEnds
<1>4. Total(id) = In(id) + Out(id)
  BY DEF Total
<1>. HIDE DEF X, Y
<1>5. \A c : IsFiniteSet({c}) /\ Cardinality({c}) = 1
  BY FS_Singleton
<1>6. ASSUME NEW Z, IsFiniteSet(Z), Cardinality(Z) \in Nat, NEW c
      PROVE  IsFiniteSet(Z \X {c}) /\ Cardinality(Z \X {c}) = Cardinality(Z)
  <2>1. IsFiniteSet(Z \X {c}) /\ Cardinality(Z \X {c}) = Cardinality(Z) * Cardinality({c})
    BY <1>5, <1>6, FS_Product
  <2>2. Cardinality(Z) * 1 = Cardinality(Z)
    BY <1>6
  <2>. QED
    BY <1>5, <2>1, <2>2
<1>7. /\ IsFiniteSet(P) /\ Cardinality(P) = Cardinality(X)
      /\ IsFiniteSet(Q) /\ Cardinality(Q) = Cardinality(Y)
  BY <1>2, <1>6
<1>8. P \cap Q = {}
  OBVIOUS
<1>. HIDE DEF P, Q
<1>9. IsFiniteSet(P \cup Q) /\ Cardinality(P \cup Q) = Cardinality(P) + Cardinality(Q)
  BY <1>2, <1>7, <1>8, FS_Union, FS_EmptySet
<1>10. Cardinality(P \cup Q) = Total(id) /\ Total(id) \in Nat
  BY <1>2, <1>3, <1>4, <1>7, <1>9
<1>. QED
  BY <1>2, <1>3, <1>9, <1>10, FS_EmptySet

LEMMA LimitGiven ==
    ASSUME NEW n \in 1..100
    PROVE  Limit(n) = n
<1>1. {n, 100} \in SUBSET Nat /\ {n, 100} # {} /\ n \in Nat /\ n >= 1 /\ n =< 100
  OBVIOUS
<1>2. Min({n, 100}) \in {n, 100} /\ Min({n, 100}) =< n /\ Min({n, 100}) =< 100
  BY <1>1, MinIsLeast
<1>3. Min({n, 100}) = n
  BY <1>1, <1>2
<1>. QED
  BY <1>1, <1>3 DEF Limit

(* The order of the top is total, so that the vertices can be listed by it. *)
LEMMA TopListed ==
    ASSUME History,
           NEW s, s = CHOOSE t \in SetToSeqs(DOMAIN vertices) :
                          \A i, j \in DOMAIN t : i < j => Before(t[i], t[j])
    PROVE  /\ s \in SetToSeqs(DOMAIN vertices)
           /\ \A i, j \in DOMAIN s : i < j => Before(s[i], s[j])
<1> DEFINE V == DOMAIN vertices
           R == {p \in V \X V : Before(p[1], p[2])}
<1>1. V \subseteq Nat /\ IsFiniteSet(V)
  BY IdsAreNumbers, NowFacts, FS_Subset
<1>2. \A x \in V : x \in Nat /\ Total(x) \in Nat
  BY <1>1, DegreeFacts
<1>3. \A x, y \in V : <<x, y>> \in R <=> Before(x, y)
  OBVIOUS
<1>. HIDE DEF V, R
<1>4. \A x \in V : <<x, x>> \notin R
  BY <1>2, <1>3 DEF Before
<1>5. \A x, y \in V : x # y => <<x, y>> \in R \/ <<y, x>> \in R
  BY <1>2, <1>3 DEF Before
<1>6. \A x, y, z \in V : <<x, y>> \in R /\ <<y, z>> \in R => <<x, z>> \in R
  BY <1>2, <1>3 DEF Before
<1>7. \E t \in SetToSeqs(V) : \A i, j \in DOMAIN t : i < j => <<t[i], t[j]>> \in R
  BY <1>1, <1>4, <1>5, <1>6, OrderedListing
<1>8. \E t \in SetToSeqs(V) : \A i, j \in DOMAIN t : i < j => Before(t[i], t[j])
  <2>1. \A t \in SetToSeqs(V) : \A i \in DOMAIN t : t[i] \in V
    BY DEF SetToSeqs
  <2>. QED
    BY <1>3, <1>7, <2>1
<1>. QED
  BY <1>8 DEF V

(* What the top lists, for a limit the server lets through. *)
LEMMA TopFacts ==
    ASSUME History, NEW limit \in 1..100
    PROVE  LET top == TopDegrees(limit)
               shown == {top[i].id : i \in DOMAIN top}
           IN  /\ Cardinality(shown) = Min({Cardinality(DOMAIN vertices), limit})
               /\ \A i \in DOMAIN top : top[i].in + top[i].out = Total(top[i].id)
               /\ \A id \in shown, other \in DOMAIN vertices \ shown : Total(other) =< Total(id)
<1> DEFINE ids == CHOOSE t \in SetToSeqs(DOMAIN vertices) :
                      \A i, j \in DOMAIN t : i < j => Before(t[i], t[j])
           m == Min({Len(ids), Limit(limit)})
           top == TopDegrees(limit)
           shown == {top[i].id : i \in DOMAIN top}
           n == Cardinality(DOMAIN vertices)
<1>1. /\ ids \in SetToSeqs(DOMAIN vertices)
      /\ \A i, j \in DOMAIN ids : i < j => Before(ids[i], ids[j])
  BY TopListed
<1>2. /\ top = [i \in 1..m |-> [id |-> ids[i], in |-> In(ids[i]), out |-> Out(ids[i])]]
  BY DEF TopDegrees
<1>. HIDE DEF ids
<1>3. IsFiniteSet(DOMAIN vertices) /\ n \in Nat
  BY IdsAreNumbers, NowFacts, FS_Subset, FS_CardinalityType
<1>4. /\ ids \in Seq(DOMAIN vertices) /\ DOMAIN ids = 1..n /\ Len(ids) = n
      /\ \A x \in DOMAIN vertices : \E i \in DOMAIN ids : ids[i] = x
      /\ \A i, j \in DOMAIN ids : ids[i] = ids[j] => i = j
  <2>1. ids \in [1..n -> DOMAIN vertices] /\ \A i, j \in DOMAIN ids : ids[i] = ids[j] => i = j
    BY <1>1 DEF SetToSeqs
  <2>2. IsInjective(ids)
    BY <2>1 DEF IsInjective
  <2>. QED
    BY <1>3, <2>1, <2>2, EnumerationReaches
<1>5. m = Min({n, limit}) /\ m \in Nat /\ m =< n
  <2>1. {n, limit} \in SUBSET Nat /\ {n, limit} # {}
    BY <1>3
  <2>2. m = Min({n, limit})
    BY <1>4, LimitGiven
  <2>. HIDE DEF m, n
  <2>. QED
    BY <2>1, <2>2, MinIsLeast
<1>. HIDE DEF m, n, top
<1>6. DOMAIN top = 1..m /\ \A i \in 1..m : i \in DOMAIN ids
  BY <1>2, <1>4, <1>5
<1>7. \A i \in 1..m : top[i].id = ids[i] /\ top[i].in = In(ids[i]) /\ top[i].out = Out(ids[i])
  BY <1>2
<1>8. shown = {ids[i] : i \in 1..m}
  BY <1>6, <1>7
<1>. HIDE DEF shown
<1>9. Cardinality(shown) = m
  <2> DEFINE f == [i \in 1..m |-> ids[i]]
  <2>1. f \in Bijection(1..m, shown)
    <3>1. f \in [1..m -> shown]
      BY <1>8
    <3>2. \A i, j \in 1..m : f[i] = f[j] => i = j
      BY <1>4, <1>6
    <3>3. \A x \in shown : \E i \in 1..m : f[i] = x
      BY <1>8
    <3>. HIDE DEF f
    <3>. QED
      BY <3>1, <3>2, <3>3 DEF Bijection, Injection, Surjection, IsInjective
  <2>2. IsFiniteSet(1..m) /\ Cardinality(1..m) = m
    BY <1>5, FS_Interval
  <2>3. ExistsBijection(1..m, shown)
    BY <2>1 DEF ExistsBijection
  <2>. QED
    BY <2>2, <2>3, FS_Bijection
<1>10. ASSUME NEW i \in DOMAIN top
       PROVE  top[i].in + top[i].out = Total(top[i].id)
  BY <1>6, <1>7 DEF Total
<1>11. ASSUME NEW id \in shown, NEW other \in DOMAIN vertices \ shown
       PROVE  Total(other) =< Total(id)
  <2>1. PICK i \in 1..m : id = ids[i]
    BY <1>8
  <2>2. PICK j \in DOMAIN ids : other = ids[j]
    BY <1>4
  <2>3. j \notin 1..m /\ i < j
    <3>1. j \in 1..n /\ j \notin 1..m
      BY <1>4, <1>8, <2>2
    <3>. QED
      BY <1>3, <1>5, <2>1, <3>1
  <2>4. Before(id, other)
    BY <1>1, <1>6, <2>1, <2>2, <2>3
  <2>. QED
    BY <2>4, DegreeFacts DEF Before
<1>. QED
  BY <1>5, <1>9, <1>10, <1>11 DEF shown, top, n

(* A report asks for edges of either direction and any label. *)
Undirected == query.dir = "BOTH" /\ query.labels = {}

(* The class of a vertex: all that edges join it to. *)
Class(id) == Reach(edges, id, AllSteps)

(* No edge leaves the set. *)
Whole(X) == \A u \in X : \A v : Step(edges, u, v) => v \in X

LEMMA StepJoins ==
    ASSUME History, Undirected, NEW x, NEW y
    PROVE  /\ Step(edges, x, y) <=>
                 \E e \in DOMAIN edges : \/ edges[e].from = x /\ edges[e].to = y
                                         \/ edges[e].from = y /\ edges[e].to = x
           /\ Step(edges, x, y) => Step(edges, y, x) /\ y \in DOMAIN vertices
           /\ y \in near(x) <=> y # x /\ Step(edges, x, y)
<1>1. /\ Step(edges, x, y) <=>
            \E e \in DOMAIN edges : \/ edges[e].from = x /\ edges[e].to = y
                                    \/ edges[e].from = y /\ edges[e].to = x
      /\ Step(edges, y, x) <=>
            \E e \in DOMAIN edges : \/ edges[e].from = y /\ edges[e].to = x
                                    \/ edges[e].from = x /\ edges[e].to = y
  BY StepDef DEF Undirected
<1>2. y \in near(x) <=> \E e \in DOMAIN edges :
                           /\ edges[e].from # edges[e].to
                           /\ edges[e].from = x \/ edges[e].to = x
                           /\ y = IF edges[e].from = x THEN edges[e].to ELSE edges[e].from
  BY DEF near, EdgesOf, SelfLoops, Other
<1>. QED
  BY <1>1, <1>2, NowFacts

LEMMA ClassFacts ==
    ASSUME History, Undirected, NEW x \in DOMAIN vertices
    PROVE  /\ x \in Class(x) /\ Class(x) \subseteq DOMAIN vertices
           /\ Whole(Class(x))
           /\ \A X : x \in X /\ Whole(X) => Class(x) \subseteq X
           /\ Class(x) = Reach(edges, x, Cardinality(DOMAIN vertices))
<1> DEFINE V == DOMAIN vertices
           n == Cardinality(V)
<1>1. /\ IsFiniteSet(Ids) /\ AllSteps = Cardinality(Ids) /\ AllSteps \in Nat
      /\ V \subseteq Ids /\ IsFiniteSet(V) /\ n \in Nat
  BY IdsFacts, NowFacts, FS_Subset, FS_CardinalityType DEF AllSteps
<1>2. \A u, v : Step(edges, u, v) => v \in V
  BY StepJoins
<1>. HIDE DEF V, n
<1>3. ASSUME NEW k \in Nat
      PROVE  Reach(edges, x, k) \subseteq Class(x) /\ Reach(edges, x, k) \subseteq Reach(edges, x, n)
  <2>1. Reach(edges, x, k) \subseteq Class(x)
    BY <1>1, <1>2, NowFacts, ReachEnds DEF Class
  <2>2. Reach(edges, x, k) \subseteq Reach(edges, x, Cardinality(V))
    BY <1>1, <1>2, ReachEnds DEF V
  <2>. QED
    BY <2>1, <2>2 DEF n
<1>4. Class(x) = Reach(edges, x, n)
  BY <1>1, <1>3 DEF Class
<1>5. x \in Class(x)
  BY <1>3, ReachSteps
<1>6. \A X : x \in X /\ Whole(X) => Class(x) \subseteq X
  BY <1>1, ReachWithin DEF Class, Whole
<1>7. Whole(Class(x))
  <2>1. AllSteps + 1 \in Nat
    BY <1>1
  <2>2. ASSUME NEW u \in Class(x), NEW v, Step(edges, u, v)
        PROVE  v \in Reach(edges, x, AllSteps + 1)
    BY <1>1, <2>2, ReachMore DEF Class
  <2>. QED
    BY <1>3, <2>1, <2>2 DEF Whole
<1>8. Class(x) \subseteq V
  BY <1>2, <1>6 DEF Whole, V
<1>. QED
  BY <1>4, <1>5, <1>6, <1>7, <1>8 DEF n, V

(* Edges join both ways, so a class is that of each of its members. *)
LEMMA ClassesShared ==
    ASSUME History, Undirected, NEW x \in DOMAIN vertices, NEW y \in Class(x)
    PROVE  Class(y) = Class(x)
<1> DEFINE C == {z \in Class(x) : x \in Class(z)}
<1>1. Class(x) \subseteq DOMAIN vertices /\ x \in Class(x) /\ Whole(Class(x))
  BY ClassFacts
<1>2. ASSUME NEW z \in C, NEW w, Step(edges, z, w)
      PROVE  w \in C
  <2>1. w \in Class(x) /\ z \in DOMAIN vertices /\ w \in DOMAIN vertices
    BY <1>1, <1>2 DEF Whole
  <2>2. w \in Class(w) /\ Whole(Class(w)) /\ Step(edges, w, z)
    BY <1>2, <2>1, ClassFacts, StepJoins
  <2>3. z \in Class(w)
    BY <2>2 DEF Whole
  <2>4. Class(z) \subseteq Class(w)
    BY <2>1, <2>2, <2>3, ClassFacts
  <2>. QED
    BY <2>1, <2>4
<1>3. Class(x) \subseteq C
  <2>1. Whole(C)
    BY <1>2 DEF Whole
  <2>2. x \in C
    BY <1>1
  <2>. HIDE DEF C
  <2>. QED
    BY <2>1, <2>2, ClassFacts
<1>4. x \in Class(y) /\ y \in DOMAIN vertices
  BY <1>1, <1>3
<1>5. Class(y) \subseteq Class(x)
  BY <1>1, <1>4, ClassFacts
<1>6. Class(x) \subseteq Class(y)
  BY <1>4, ClassFacts
<1>. QED
  BY <1>5, <1>6

(* The flood that starts with id sees all of the class of id. *)
LEMMA FloodedFacts ==
    ASSUME History, Undirected, NEW seen, Whole(seen), NEW id \in DOMAIN vertices
    PROVE  Flooded(seen, id) = seen \cup Class(id)
<1> DEFINE n == Cardinality(DOMAIN vertices)
           Spread(X) == X \cup UNION {near(v) : v \in X \ seen}
           Flood(f) == f = [k \in 0..n |-> IF k = 0 THEN seen \cup {id} ELSE Spread(f[k - 1])]
           R(k) == Reach(edges, id, k)
<1>1. IsFiniteSet(DOMAIN vertices) /\ n \in Nat
  BY IdsAreNumbers, NowFacts, FS_Subset, FS_CardinalityType
<1>2. R(0) = {id} /\ \A k \in Nat : R(k + 1) = Onward(edges, R(k))
  BY ReachSteps
<1>3. ASSUME NEW X
      PROVE  Spread(seen \cup X) = seen \cup Onward(edges, X)
  <2>1. ASSUME NEW y \in Spread(seen \cup X)
        PROVE  y \in seen \cup Onward(edges, X)
    BY StepJoins, OnwardDef
  <2>2. ASSUME NEW y \in Onward(edges, X), y \notin seen
        PROVE  y \in Spread(seen \cup X)
    <3>1. CASE y \in X
      BY <3>1
    <3>2. CASE y \notin X
      <4>1. PICK x \in X : Step(edges, x, y)
        BY <2>2, <3>2, OnwardDef
      <4>2. x \notin seen /\ y \in near(x)
        BY <2>2, <3>2, <4>1, StepJoins DEF Whole
      <4>. QED
        BY <4>2
    <3>. QED
      BY <3>1, <3>2
  <2>. QED
    BY <2>1, <2>2
<1>. HIDE DEF Spread, R, n
<1>4. ASSUME NEW k \in 0..n, k # 0
      PROVE  seen \cup R(k) = Spread(seen \cup R(k - 1))
  <2>1. k - 1 \in Nat /\ (k - 1) + 1 = k
    BY <1>1, <1>4
  <2>. QED
    BY <1>2, <1>3, <2>1
<1>5. \E f : Flood(f)
  <2> DEFINE f == [k \in 0..n |-> seen \cup R(k)]
  <2>1. ASSUME NEW k \in 0..n
        PROVE  f[k] = IF k = 0 THEN seen \cup {id} ELSE Spread(f[k - 1])
    <3>1. k # 0 => k - 1 \in 0..n
      BY <1>1
    <3>. QED
      BY <1>2, <1>4, <3>1
  <2>2. f = [k \in 0..n |-> f[k]]
    OBVIOUS
  <2>. HIDE DEF f
  <2>3. Flood(f)
    BY <2>1, <2>2
  <2>. QED
    BY <2>3
<1> DEFINE f == CHOOSE g : Flood(g)
<1>6. Flooded(seen, id) = f[n]
  BY DEF Flooded, Spread, n
<1>7. \A k \in 0..n : f[k] = IF k = 0 THEN seen \cup {id} ELSE Spread(f[k - 1])
  <2>1. Flood(f)
    BY <1>5
  <2>. HIDE DEF f
  <2>. QED
    BY <2>1
<1>. HIDE DEF f, Flood
<1> DEFINE T == {k \in Nat : k =< n => f[k] = seen \cup R(k)}
<1>8. 0 \in T
  BY <1>1, <1>2, <1>7
<1>9. ASSUME NEW k \in Nat, k \in T
      PROVE  k + 1 \in T
  <2>. SUFFICES ASSUME k + 1 =< n PROVE f[k + 1] = seen \cup R(k + 1)
    OBVIOUS
  <2>1. k + 1 \in 0..n /\ k + 1 # 0 /\ (k + 1) - 1 = k /\ k =< n
    BY <1>1
  <2>. QED
    BY <1>4, <1>7, <1>9, <2>1
<1>10. n \in T
  <2>. HIDE DEF T
  <2>. QED
    BY <1>1, <1>8, <1>9, NatsWithin
<1>. QED
  BY <1>1, <1>6, <1>10, ClassFacts DEF R, n

(* Whatever the order, the floods are as many as the classes. *)
LEMMA ComponentsCounted ==
    ASSUME History, Undirected, NEW order \in SetToSeqs(DOMAIN vertices)
    PROVE  Components(order) = Cardinality({Class(id) : id \in DOMAIN vertices})
<1> DEFINE V == DOMAIN vertices
           n == Len(order)
           classes(k) == {Class(order[j]) : j \in 1..k}
           after(k) == [seen |-> UNION classes(k), count |-> Cardinality(classes(k))]
           step(r, id) == IF id \in r.seen THEN r
                          ELSE [seen |-> Flooded(r.seen, id), count |-> r.count + 1]
           Scanned(f) == f = [k \in 0..n |-> IF k = 0 THEN [seen |-> {}, count |-> 0]
                                           ELSE step(f[k - 1], order[k])]
<1>1. /\ order \in Seq(V) /\ n \in Nat /\ DOMAIN order = 1..n
      /\ \A j \in 1..n : order[j] \in V
      /\ \A x \in V : \E j \in 1..n : order[j] = x
  <2>1. IsFiniteSet(V)
    BY IdsAreNumbers, NowFacts, FS_Subset
  <2>. QED
    BY <2>1, SetToSeqsLists
<1>. HIDE DEF n
<1>2. ASSUME NEW k \in 1..n
      PROVE  after(k) = step(after(k - 1), order[k])
  <2>1. k - 1 \in Nat /\ 1..k = (1..(k - 1)) \cup {k} /\ \A j \in 1..(k - 1) : j \in 1..n
    BY <1>1
  <2>2. classes(k) = classes(k - 1) \cup {Class(order[k])}
    BY <2>1
  <2>3. IsFiniteSet(classes(k - 1))
    <3>1. IsFiniteSet(1..(k - 1))
      BY <2>1, FS_Interval
    <3> DEFINE g == [j \in 1..(k - 1) |-> Class(order[j])]
    <3>2. g \in Surjection(1..(k - 1), classes(k - 1))
      BY DEF Surjection
    <3>. QED
      BY <3>1, <3>2, FS_Surjection
  <2>4. order[k] \in UNION classes(k - 1) <=> Class(order[k]) \in classes(k - 1)
    <3>1. order[k] \in Class(order[k])
      BY <1>1, ClassFacts
    <3>2. ASSUME NEW j \in 1..(k - 1), order[k] \in Class(order[j])
          PROVE  Class(order[k]) = Class(order[j])
      BY <1>1, <2>1, <3>2, ClassesShared
    <3>. QED
      BY <3>1, <3>2
  <2>5. Whole(UNION classes(k - 1))
    <3>1. \A j \in 1..(k - 1) : Whole(Class(order[j]))
      BY <1>1, <2>1, ClassFacts
    <3>. QED
      BY <3>1 DEF Whole
  <2>. HIDE DEF classes
  <2>6. Cardinality(classes(k)) = IF Class(order[k]) \in classes(k - 1) THEN Cardinality(classes(k - 1))
                                  ELSE Cardinality(classes(k - 1)) + 1
    BY <2>2, <2>3, FS_AddElement
  <2>7. order[k] \notin UNION classes(k - 1) =>
          Flooded(UNION classes(k - 1), order[k]) = UNION classes(k)
    BY <1>1, <2>2, <2>5, FloodedFacts
  <2>8. Class(order[k]) \in classes(k - 1) => classes(k) = classes(k - 1)
    BY <2>2
  <2>. QED
    BY <2>4, <2>6, <2>7, <2>8
<1>3. after(0) = [seen |-> {}, count |-> 0]
  <2>1. classes(0) = {}
    OBVIOUS
  <2>. HIDE DEF classes
  <2>. QED
    BY <2>1, FS_EmptySet
<1>. HIDE DEF after, step
<1>4. \E f : Scanned(f)
  <2> DEFINE f == [k \in 0..n |-> after(k)]
  <2>1. ASSUME NEW k \in 0..n
        PROVE  f[k] = IF k = 0 THEN [seen |-> {}, count |-> 0] ELSE step(f[k - 1], order[k])
    <3>1. k # 0 => k \in 1..n /\ k - 1 \in 0..n
      BY <1>1
    <3>. QED
      BY <1>2, <1>3, <3>1
  <2>2. f = [k \in 0..n |-> f[k]]
    OBVIOUS
  <2>. HIDE DEF f
  <2>3. Scanned(f)
    BY <2>1, <2>2
  <2>. QED
    BY <2>3
<1> DEFINE f == CHOOSE g : Scanned(g)
<1>5. Components(order) = f[n].count
  BY DEF Components, step, n
<1>6. \A k \in 0..n : f[k] = IF k = 0 THEN [seen |-> {}, count |-> 0] ELSE step(f[k - 1], order[k])
  <2>1. Scanned(f)
    BY <1>4
  <2>. HIDE DEF f
  <2>. QED
    BY <2>1
<1>. HIDE DEF f, Scanned
<1> DEFINE T == {k \in Nat : k =< n => f[k] = after(k)}
<1>7. 0 \in T
  <2>1. 0 \in 0..n
    BY <1>1
  <2>. QED
    BY <1>3, <1>6, <2>1
<1>8. ASSUME NEW k \in Nat, k \in T
      PROVE  k + 1 \in T
  <2>. SUFFICES ASSUME k + 1 =< n PROVE f[k + 1] = after(k + 1)
    OBVIOUS
  <2>1. k + 1 \in 0..n /\ k + 1 \in 1..n /\ k + 1 # 0 /\ (k + 1) - 1 = k /\ k =< n
    BY <1>1
  <2>. QED
    BY <1>2, <1>6, <1>8, <2>1
<1>9. n \in T
  <2>. HIDE DEF T
  <2>. QED
    BY <1>1, <1>7, <1>8, NatsWithin
<1>10. classes(n) = {Class(id) : id \in V}
  BY <1>1
<1>. HIDE DEF classes
<1>11. after(n).count = Cardinality(classes(n))
  BY DEF after
<1>. QED
  BY <1>1, <1>5, <1>9, <1>10, <1>11

(* The question of the report, as the server lets it through. *)
LEMMA ReportAsked ==
    ASSUME History, Asks({"report"})
    PROVE  Undirected /\ query.limit \in 1..100
<1>1. PICK start \in Starts : query = start.query
  BY DEF History, QueryGiven
<1>2. PICK n \in 1..100 : query = ReportQuery(n)
  BY <1>1, ReportsParsed DEF Asks
<1>. QED
  BY <1>2 DEF ReportQuery, Undirected

(* What ReportExact says of a graph: a report on it, and one on its quality. *)
ReportOf(r, g) ==
    LET ids == DOMAIN g.vertices
        degree(id) == Cardinality(EdgeEnds(g.edges, id))
        shown == {r.top[i].id : i \in DOMAIN r.top}
    IN  /\ r.components = Cardinality({Reach(g.edges, id, AllSteps) : id \in ids})
        /\ r.isolated = Cardinality({id \in ids : EdgeEnds(g.edges, id) = {}})
        /\ Cardinality(shown) = Min({Cardinality(ids), query.limit})
        /\ \A i \in DOMAIN r.top : r.top[i].in + r.top[i].out = degree(r.top[i].id)
        /\ \A id \in shown, other \in ids \ shown : degree(other) =< degree(id)

QualityOf(r, g) ==
    r.isolated_vertices = Cardinality({id \in DOMAIN g.vertices : EdgeEnds(g.edges, id) = {}})

LEMMA BuildAnswers ==
    ASSUME History, Shape, Asks({"report"}), Build
    PROVE  search'.pc = "done" /\ DOMAIN search' = DOMAIN search /\ ReportOf(search'.result, Graph)
<1>1. PICK order \in SetToSeqs(DOMAIN vertices) :
          Answer([vertices |-> Cardinality(DOMAIN vertices), edges |-> Cardinality(DOMAIN edges),
                  components |-> Components(order),
                  isolated |-> Cardinality({id \in DOMAIN vertices : Total(id) = 0}),
                  selfLoops |-> Cardinality(SelfLoops), top |-> TopDegrees(query.limit)])
  BY DEF Build
<1>2. DOMAIN search = {"pc", "agenda", "visited", "notes", "result"}
  BY DEF Shape, Asks
<1>3. /\ search'.pc = "done" /\ DOMAIN search' = DOMAIN search
      /\ search'.result.components = Components(order)
      /\ search'.result.isolated = Cardinality({id \in DOMAIN vertices : Total(id) = 0})
      /\ search'.result.top = TopDegrees(query.limit)
  BY <1>1, <1>2 DEF Answer, Go
<1>4. Undirected /\ query.limit \in 1..100
  BY ReportAsked
<1>5. \A id : Cardinality(EdgeEnds(edges, id)) = Total(id)
              /\ (Total(id) = 0 <=> EdgeEnds(edges, id) = {})
  BY DegreeFacts
<1>6. {id \in DOMAIN vertices : Total(id) = 0} = {id \in DOMAIN vertices : EdgeEnds(edges, id) = {}}
  BY <1>5
<1>7. Components(order) = Cardinality({Class(id) : id \in DOMAIN vertices})
  BY <1>4, ComponentsCounted
<1> DEFINE top == TopDegrees(query.limit)
           shown == {top[i].id : i \in DOMAIN top}
<1>8. /\ Cardinality(shown) = Min({Cardinality(DOMAIN vertices), query.limit})
      /\ \A i \in DOMAIN top : top[i].in + top[i].out = Total(top[i].id)
      /\ \A id \in shown, other \in DOMAIN vertices \ shown : Total(other) =< Total(id)
  BY <1>4, TopFacts
<1>9. Graph.vertices = vertices /\ Graph.edges = edges /\ search'.result.top = top
  BY <1>3 DEF Graph
<1>. HIDE DEF top
<1>10. ReportOf(search'.result, Graph)
  <2> DEFINE r == search'.result
  <2>1. r.components = Cardinality({Reach(Graph.edges, id, AllSteps) : id \in DOMAIN Graph.vertices})
    BY <1>3, <1>7, <1>9 DEF Class
  <2>2. r.isolated = Cardinality({id \in DOMAIN Graph.vertices : EdgeEnds(Graph.edges, id) = {}})
    BY <1>3, <1>6, <1>9
  <2>3. shown = {r.top[i].id : i \in DOMAIN r.top} /\ r.top = top
    BY <1>9
  <2>. HIDE DEF r, shown
  <2>4. \A i \in DOMAIN r.top :
           r.top[i].in + r.top[i].out = Cardinality(EdgeEnds(Graph.edges, r.top[i].id))
    BY <1>5, <1>8, <1>9, <2>3
  <2>5. \A id \in shown, other \in DOMAIN Graph.vertices \ shown :
           Cardinality(EdgeEnds(Graph.edges, other)) =< Cardinality(EdgeEnds(Graph.edges, id))
    BY <1>5, <1>8, <1>9
  <2>6. Cardinality(shown) = Min({Cardinality(DOMAIN Graph.vertices), query.limit})
    BY <1>8, <1>9
  <2>7. ReportOf(r, Graph)
    BY <2>1, <2>2, <2>3, <2>4, <2>5, <2>6 DEF ReportOf
  <2>. QED
    BY <2>7 DEF r
<1>. QED
  BY <1>3, <1>10

LEMMA QualityAnswers ==
    ASSUME History, Shape, Asks({"quality"}), Quality
    PROVE  /\ search'.pc = "done" /\ DOMAIN search' = DOMAIN search
           /\ QualityOf(search'.result, Graph)
<1> DEFINE connected == UNION {{edges[e].from, edges[e].to} : e \in DOMAIN edges}
<1>1. DOMAIN search = {"pc", "agenda", "visited", "notes", "result"}
  BY DEF Shape, Asks
<1>2. /\ search'.pc = "done" /\ DOMAIN search' = DOMAIN search
      /\ search'.result.isolated_vertices = Cardinality(DOMAIN vertices \ connected)
  BY <1>1 DEF Quality, Answer, Go
<1>3. \A id : id \in connected <=> \E e \in DOMAIN edges : edges[e].from = id \/ edges[e].to = id
  OBVIOUS
<1>4. \A id : EdgeEnds(edges, id) = {} <=>
                 \A e \in DOMAIN edges : edges[e].from # id /\ edges[e].to # id
  <2>1. ASSUME NEW id, NEW e \in DOMAIN edges, edges[e].from = id
        PROVE  <<e, "out">> \in EdgeEnds(edges, id)
    BY <2>1 DEF EdgeEnds
  <2>2. ASSUME NEW id, NEW e \in DOMAIN edges, edges[e].to = id
        PROVE  <<e, "in">> \in EdgeEnds(edges, id)
    BY <2>2 DEF EdgeEnds
  <2>3. ASSUME NEW id, \A e \in DOMAIN edges : edges[e].from # id /\ edges[e].to # id
        PROVE  EdgeEnds(edges, id) = {}
    BY <2>3 DEF EdgeEnds
  <2>. QED
    BY <2>1, <2>2, <2>3
<1>. HIDE DEF connected
<1>5. DOMAIN vertices \ connected = {id \in DOMAIN vertices : EdgeEnds(edges, id) = {}}
  BY <1>3, <1>4
<1>. QED
  BY <1>2, <1>5 DEF QualityOf, Graph

(* One step takes the graph in, and answers. *)
ReportInv ==
    Asks({"report", "quality"}) => Shape /\ search.pc \in {"from", "done"} /\ ReportExact

LEMMA InitReport == Init => ReportInv
<1>. SUFFICES ASSUME Init, Asks({"report", "quality"}) PROVE ReportInv
  BY DEF ReportInv
<1>1. search.pc = "from" /\ Shape
  BY DEF Init, NewSearch, Asks, Shape
<1>. QED
  BY <1>1 DEF ReportInv, ReportExact, At

(* What a report is measured by does not change with the search. *)
LEMMA ReportSame ==
    ASSUME query' = query, AllSteps' = AllSteps, NEW r, NEW g, ReportOf(r, g)
    PROVE  ReportOf(r, g)'
<1>1. \A id : Reach(g.edges, id, AllSteps)' = Reach(g.edges, id, AllSteps)
  BY DEF Reach, ArcsOf
<1>2. {Reach(g.edges, id, AllSteps) : id \in DOMAIN g.vertices}'
          = {Reach(g.edges, id, AllSteps) : id \in DOMAIN g.vertices}
  BY <1>1
<1>. QED
  BY <1>2 DEF ReportOf, EdgeEnds

Described(r, g) ==
    IF Asks({"quality"}) THEN QualityOf(r, g) ELSE ReportOf(r, g)

LEMMA ReportExactMeans ==
    ReportExact <=> (Asks({"report", "quality"}) /\ At("done") =>
                        \E g \in lived : Described(search.result, g))
BY Zenon DEF ReportExact, Described, ReportOf, QualityOf, EdgeEnds

LEMMA DescribedSame ==
    ASSUME UNCHANGED <<query, lived>>, AllSteps' = AllSteps, NEW r, r = search'.result,
           NEW g \in lived, Described(r, g)
    PROVE  ReportExact'
<1>1. Described(r, g)'
  <2>1. CASE Asks({"quality"})
    BY <2>1 DEF Described, QualityOf, EdgeEnds, Asks
  <2>2. CASE ~Asks({"quality"})
    BY <2>2, ReportSame DEF Described, Asks
  <2>. QED
    BY <2>1, <2>2
<1>2. ReportExact' <=> (Asks({"report", "quality"}) /\ At("done") =>
                           \E h \in lived : Described(search.result, h))'
  BY Zenon DEF ReportExact, Described, ReportOf, QualityOf, EdgeEnds
<1>. QED
  BY <1>1, <1>2

LEMMA ReportStep ==
    ASSUME History, ReportInv, Asks({"report", "quality"}), Build \/ Quality, Reads
    PROVE  ReportInv'
<1>1. Shape /\ UNCHANGED <<query, lived>> /\ AllSteps' = AllSteps
  BY DEF ReportInv, Reads, Ids, AllSteps
<1>2. PICK g \in lived : g = Graph
  BY DEF History
<1>3. Build => Asks({"report"}) /\ ~Asks({"quality"})
  BY DEF Build, Asks
<1>4. Quality => Asks({"quality"})
  BY DEF Quality
<1>5. PICK r : r = search'.result
  OBVIOUS
<1>6. search'.pc = "done" /\ DOMAIN search' = DOMAIN search /\ Described(r, g)
  BY <1>1, <1>2, <1>3, <1>4, <1>5, BuildAnswers, QualityAnswers DEF Described
<1>7. ReportExact'
  BY <1>1, <1>5, <1>6, DescribedSame
<1>. QED
  BY <1>1, <1>6, <1>7 DEF ReportInv, Shape, Asks

LEMMA NextReport ==
    ASSUME History, ReportInv, [Next]_vars
    PROVE  ReportInv'
<1>1. CASE ~Asks({"report", "quality"})
  BY <1>1, NextMoves DEF Moves, ReportInv, Asks
<1>. SUFFICES ASSUME Asks({"report", "quality"}) PROVE ReportInv'
  BY <1>1
<1>2. CASE UNCHANGED vars
  <2>1. UNCHANGED <<lived, query, search>> /\ AllSteps' = AllSteps
    BY <1>2 DEF vars, AllSteps, Ids
  <2>2. CASE At("done")
    <3>1. PICK r : r = search.result
      OBVIOUS
    <3>2. PICK g \in lived : Described(r, g)
      BY <2>2, <3>1, ReportExactMeans DEF ReportInv
    <3>3. ReportExact'
      BY <2>1, <3>1, <3>2, DescribedSame
    <3>. QED
      BY <2>1, <3>3 DEF ReportInv, Asks, Shape
  <2>3. CASE ~At("done")
    BY <2>1, <2>3 DEF ReportInv, ReportExact, At, Asks, Shape
  <2>. QED
    BY <2>2, <2>3
<1>3. CASE Handle
  <2>1. Build \/ Quality
    BY <1>3, HandleByKind DEF Asks, SearchKinds
  <2>. QED
    BY <1>3, <2>1, HandleReads, ReportStep
<1>4. CASE Write
  <2>1. UNCHANGED <<search, query>> /\ Open
    BY <1>4, WriteKeeps
  <2>. QED
    BY <2>1 DEF ReportInv, ReportExact, Open, At, Asks, Shape
<1>5. CASE \E id \in VertexIds, c \in VertexContents : LookupDuringUpdate(id, c)
  BY <1>5 DEF LookupDuringUpdate, Matching, Asks
<1>. QED
  BY <1>2, <1>3, <1>4, <1>5 DEF Next

(* A report describes one graph of its time: it counts the classes of      *)
(* vertices that edges join, whatever the order of the flood's map; leaves *)
(* nobody of a higher degree out of the top; and both reports take the     *)
(* same vertices for isolated (analytics.go:16).                           *)
THEOREM ReportsAreExact == Spec => []ReportExact
<1>1. Init => History /\ ReportInv
  BY InitHistory, InitReport
<1>2. History /\ ReportInv /\ [Next]_vars => (History /\ ReportInv)'
  BY NextHistory, NextReport
<1>3. ReportInv => ReportExact
  BY DEF ReportInv, ReportExact
<1>. QED
  BY <1>1, <1>2, <1>3, PTL DEF Spec
=============================================================================
