----------------------------- MODULE RangeIndex -----------------------------
(***************************************************************************)
(* The two indexes over one property name.  index.BTreeIndex is a slice of *)
(* entries, each a value and the ids that carry it, kept in order by       *)
(* binary search; index.PropertyIndex maps the keys of values to ids.  The *)
(* manager tells them what a vertex carried before and carries now; the    *)
(* values that arrive are normalised, so Compare refuses only two values   *)
(* of different kinds.                                                     *)
(***************************************************************************)
EXTENDS PropertyValues, FiniteSets, SequencesExt

CONSTANTS
    Ids,      \* vertex identifiers
    Literals, \* what requests write for the property
    None      \* the property is absent

(* Identifiers are unsigned integers and a graph is finite; what a literal *)
(* denotes lies within its type, and only digits may not fit an int64.     *)
ASSUME IdsAssumption == Ids \subseteq Nat /\ IsFiniteSet(Ids)
ASSUME LiteralsAssumption ==
    \A literal \in Literals :
        \/ literal \in [form : {"digits", "FLOAT"}, n : Int, sign : {""}]
        \/ literal = [form |-> "FLOAT", n |-> 0, sign |-> "-"]
        \/ literal \in [form : {"TIMESTAMP", "BOOL", "STRING"}, n : Int64, sign : {""}]
ASSUME NoneAssumption ==
    None \notin [type : {"INT", "FLOAT", "TIMESTAMP", "BOOL", "STRING"}, n : Int, sign : {"", "-"}]

VARIABLES
    entries, \* BTreeIndex.values[name]
    keyed,   \* PropertyIndex.values[name]: pairs of a key and an id
    held     \* the value each vertex of the graph carries

vars == <<entries, keyed, held>>

Values == {NewPropertyValue(literal) : literal \in Literals}

Rangeable(v) == v # None /\ v.type # "BOOL"

(* sort.Search: the first position from which on the predicate holds, as   *)
(* far as halving the range can tell.                                      *)
\* Mutant: equal values are passed over.
PositionAfter(es, v) ==
    LET find[part \in (1..(Len(es) + 1)) \X (1..(Len(es) + 1))] ==
            LET lo == part[1]
                hi == part[2]
                mid == (lo + hi) \div 2
            IN  IF lo >= hi THEN lo
                ELSE IF AtLeast(es[mid].value, v) /\ ~Same(es[mid].value, v)
                     THEN find[<<lo, mid>>] ELSE find[<<mid + 1, hi>>]
    IN  find[<<1, Len(es) + 1>>]

Position(es, v) ==
    LET find[part \in (1..(Len(es) + 1)) \X (1..(Len(es) + 1))] ==
            LET lo == part[1]
                hi == part[2]
                mid == (lo + hi) \div 2
            IN  IF lo >= hi THEN lo
                ELSE IF AtLeast(es[mid].value, v) THEN find[<<lo, mid>>] ELSE find[<<mid + 1, hi>>]
    IN  find[<<1, Len(es) + 1>>]

Found(es, v) ==
    LET p == Position(es, v) IN p =< Len(es) /\ Same(es[p].value, v)

AddEntry(es, v, id) ==
    LET p == Position(es, v)
    IN  IF ~Rangeable(v) THEN es
        ELSE IF Found(es, v) THEN [es EXCEPT ![p].ids = @ \cup {id}]
        ELSE InsertAt(es, p, [value |-> v, ids |-> {id}])

\* Mutant: an entry without ids stays in the slice.
RemoveIdOnly(es, v, id) ==
    LET p == Position(es, v)
    IN  IF v = None \/ ~Found(es, v) THEN es ELSE [es EXCEPT ![p].ids = @ \ {id}]

RemoveEntry(es, v, id) ==
    LET p == Position(es, v)
    IN  IF v = None \/ ~Found(es, v) THEN es
        ELSE IF es[p].ids = {id} THEN RemoveAt(es, p)
        ELSE [es EXCEPT ![p].ids = @ \ {id}]

(* The bounds of a range query are values or absent, and inclusive or not. *)
AboveLow(v, low, includeLow) ==
    low = None \/ (AtLeast(v, low) /\ (includeLow \/ ~Same(v, low)))
BelowHigh(v, high, includeHigh) ==
    high = None \/ (AtLeast(high, v) /\ (includeHigh \/ ~Same(v, high)))

InRange(v, q) ==
    AboveLow(v, q.low, q.includeLow) /\ BelowHigh(v, q.high, q.includeHigh)

RangeIds(q) == UNION {e.ids : e \in {f \in ToSet(entries) : InRange(f.value, q)}}

(* The ids of a set in ascending order. *)
IDs(set) == CHOOSE s \in SetToSeqs(set) : \A i, j \in DOMAIN s : i < j => s[i] < s[j]

(* The ids in the order of their values, each entry's in ascending order. *)
Ordered == FlattenSeq([i \in DOMAIN entries |-> IDs(entries[i].ids)])

Lookup(v) == {id \in Ids : <<Key(v), id>> \in keyed}
-----------------------------------------------------------------------------
Init == entries = <<>> /\ keyed = {} /\ held = [id \in Ids |-> None]

KeyOf(id, v) == IF v = None THEN {} ELSE {<<Key(v), id>>}

(* A restriction of the model that the code does not make: the values of   *)
(* one property compare with one another.                                  *)
Fits(id, v) ==
    \A other \in Ids \ {id} :
        Rangeable(v) /\ Rangeable(held[other]) => Comparable(v, held[other])

(* A vertex that carried held[id] carries v. *)
VertexChanged(id, v) ==
    /\ Fits(id, v)
    /\ held' = [held EXCEPT ![id] = v]
    /\ keyed' = (keyed \ KeyOf(id, held[id])) \cup KeyOf(id, v)
    /\ entries' = LET without == RemoveEntry(entries, held[id], id)
                  IN  IF v = None THEN without ELSE AddEntry(without, v, id)

(* Clear, then one Add for each vertex in the order of the ids. *)
Rebuilt(carried) ==
    LET ids == IDs({id \in Ids : carried[id] # None})
        added[i \in 0..Len(ids)] ==
            IF i = 0 THEN <<>> ELSE AddEntry(added[i - 1], carried[ids[i]], ids[i])
    IN  /\ entries' = added[Len(ids)]
        /\ keyed' = UNION {KeyOf(id, carried[id]) : id \in Ids}

Rebuild == Rebuilt(held) /\ UNCHANGED held

(* The program starts again from its log: the values come back through     *)
(* JSON, and main rebuilds the indexes.                                    *)
Restart ==
    \E back \in [Ids -> UNION {FromRecord(held[id]) : id \in {i \in Ids : held[i] # None}} \cup {None}] :
        /\ \A id \in Ids : IF held[id] = None THEN back[id] = None ELSE back[id] \in FromRecord(held[id])
        /\ held' = back /\ Rebuilt(back)

Next == Rebuild \/ Restart \/ \E id \in Ids, v \in Values \cup {None} : VertexChanged(id, v)

Spec == Init /\ [][Next]_vars

-----------------------------------------------------------------------------
Queries == [low : Values \cup {None}, high : Values \cup {None},
            includeLow : BOOLEAN, includeHigh : BOOLEAN]

(* Every variable has its type; no entry and no key is left without ids. *)
TypeOK ==
    LET Typed(v) == /\ v.type \in {x.type : x \in Values}
                    /\ v.type # "FLOAT" => v.n \in Int64
                    /\ v.sign = "-" => v.type = "FLOAT" /\ v.n = 0
    IN  /\ \A i \in DOMAIN entries :
              Typed(entries[i].value) /\ entries[i].ids \in (SUBSET Ids) \ {{}}
        /\ \A id \in Ids : held[id] = None \/ Typed(held[id])
        /\ \A pair \in keyed : pair[2] \in Ids

(* DESIGN.md:101: a range query returns the vertices whose value lies in   *)
(* the range, whatever was stored, changed and removed before.  It needs   *)
(* Fits: numbers and strings of one name break it, since a comparison that *)
(* fails sends the binary search the wrong way (btree_index.go:12-16).     *)
RangeExact ==
    \A q \in Queries :
        RangeIds(q) = {id \in Ids : Rangeable(held[id]) /\ InRange(held[id], q)}

(* Ordered lists every vertex with a rangeable value once, by ascending    *)
(* value, although values of two numeric types share entries.              *)
OrderedExact ==
    /\ IsInjective(Ordered)
    /\ ToSet(Ordered) = {id \in Ids : Rangeable(held[id])}
    /\ \A i, j \in DOMAIN Ordered : i < j => AtLeast(held[Ordered[j]], held[Ordered[i]])

(* property.go:65-91: the key finds exactly the vertices whose value       *)
(* compares equal, although the two are computed apart, but for the two    *)
(* zeros of a float, neither of which finds the other.                     *)
LookupExact ==
    \A v \in Values :
        Lookup(v) = {id \in Ids : held[id] # None /\ Same(held[id], v) /\ held[id].sign = v.sign}

(* property.go:36-56: a restart may change an integer, but since Compare   *)
(* and Key see it as a float no range and no lookup answers otherwise than *)
(* before.  Excepted are timestamps, which Compare tells apart, and the    *)
(* integers whose float lies outside int64.                                *)
Lasts(v) == v = None \/ FromRecord(v) = {v} \/ (v.type = "INT" /\ Float(v.n) \in Int64)
ReplayKeepsAnswers ==
    [][Restart /\ (\A id \in Ids : Lasts(held[id])) =>
         /\ \A q \in Queries : RangeIds(q)' = RangeIds(q)
         /\ \A v \in Values : Lookup(v)' = Lookup(v)]_vars
=============================================================================
