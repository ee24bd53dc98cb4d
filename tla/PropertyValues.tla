--------------------------- MODULE PropertyValues ---------------------------
(***************************************************************************)
(* graph.PropertyValue: how a literal becomes a typed value, what Compare  *)
(* and Key make of values, and how they come back from a log record.  n is *)
(* the place of a value in its type; float64 holds every integer up to     *)
(* ExactInt and the even ones up to twice that, int64 those up to MaxInt.  *)
(* A float has two zeros: sign is "-" for the negative one, which requests *)
(* write as -0.0, and "" for every other value.                            *)
(***************************************************************************)
EXTENDS Integers

CONSTANTS ExactInt, MaxInt

ASSUME PrecisionAssumption == ExactInt \in Nat \ {0} /\ ExactInt % 2 = 0 /\ MaxInt = 2 * ExactInt - 1

Int64 == (-MaxInt - 1)..MaxInt
Numbers == {"INT", "FLOAT"}

(* The conversions of Go.  An integer between two floats goes to the one   *)
(* with the even mantissa; a float outside int64 becomes, depending on the *)
(* processor, the smallest or the largest integer.                         *)
Float(n) ==
    CASE n \in -ExactInt..ExactInt \/ n % 2 = 0 -> n
      [] n \notin -ExactInt..ExactInt /\ n % 4 = 1 -> n - 1
      [] n \notin -ExactInt..ExactInt /\ n % 4 = 3 -> n + 1
toInt64(f) == IF f \in Int64 THEN {f} ELSE {-MaxInt - 1, MaxInt}

(* Literals of requests and queries are decoded as json.Number; T(...) and *)
(* the rest have one type each.                                            *)
NewPropertyValue(literal) ==
    IF literal.form # "digits" THEN [type |-> literal.form, n |-> literal.n, sign |-> literal.sign]
    ELSE IF literal.n \in Int64 THEN [type |-> "INT", n |-> literal.n, sign |-> ""]
    ELSE [type |-> "FLOAT", n |-> Float(literal.n), sign |-> ""]

(* Normalize of what JSON decoding left of a record: every number a float. *)
(* The sign of a zero survives, being written as -0.                       *)
FromRecord(v) ==
    IF v.type \in {"INT", "TIMESTAMP"} THEN {[v EXCEPT !.n = i] : i \in toInt64(Float(v.n))}
    ELSE {v}

\* Mutant: integers are not turned into floats.
toFloat64Not(v) == v.n

toFloat64(v) == IF v.type = "INT" THEN Float(v.n) ELSE v.n

(* PropertyValue.Compare: its error, and its sign where there is none.  To *)
(* the operators of Go the two zeros are equal.                            *)
Comparable(a, b) == a.type = b.type \/ {a.type, b.type} \subseteq Numbers
AtLeast(a, b) == Comparable(a, b) /\ toFloat64(a) >= toFloat64(b)
Same(a, b) == Comparable(a, b) /\ toFloat64(a) = toFloat64(b)

\* Mutant: each type has keys of its own.
KeyByType(v) == <<v.type, v.sign, v.n>>

(* FormatFloat, unlike Compare, shows the sign of a zero. *)
Key(v) == <<IF v.type \in Numbers THEN "N" ELSE v.type, v.sign, toFloat64(v)>>
=============================================================================
