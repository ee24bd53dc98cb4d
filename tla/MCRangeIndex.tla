---------------------------- MODULE MCRangeIndex ----------------------------
(* Literals for TLC: numbers that coincide and differ in both types, both  *)
(* zeros, ones that float64 or int64 cannot hold, timestamps, and a value  *)
(* no range index holds.                                                   *)
EXTENDS RangeIndex

Written(form, n) == [form |-> form, n |-> n, sign |-> ""]
NegativeZero == [form |-> "FLOAT", n |-> 0, sign |-> "-"]

AllLiterals ==
    {Written("digits", n) : n \in {0, 1, 4, 5, 7, 9}}
    \cup {NegativeZero, Written("FLOAT", 4), Written("FLOAT", 6), Written("TIMESTAMP", 5),
          Written("TIMESTAMP", 6), Written("BOOL", 1)}
=============================================================================
