-------------------------- MODULE MCReadRequests ---------------------------
(***************************************************************************)
(* The requests, and the graphs they meet: all small graphs of a shape for *)
(* the searches, labelled vertices and any edges between them for MATCH.   *)
(***************************************************************************)
EXTENDS ReadRequests

Weights == [label \in {"light", "heavy", "minus", "text"} |->
    CASE label = "light" -> 1 [] label = "heavy" -> 3 [] label = "minus" -> -1 [] OTHER -> None]

Plain == [labels |-> {}, value |-> None]
Young == [labels |-> {"p"}, value |-> 1]
Old == [labels |-> {"p"}, value |-> 2]
Contents == {Plain, Young}

Pairs(n) == [t \in 1..(n * n) |-> <<((t - 1) \div n) + 1, ((t - 1) % n) + 1>>]
Detours == <<<<1, 2>>, <<1, 3>>, <<3, 2>>, <<2, 3>>>>

(* Every list of up to m edges between such ends, their order aside. *)
EdgeLists(ends, m, labels) ==
    LET n == Len(ends)
        Edge(t) == [from |-> ends[(t % n) + 1][1], to |-> ends[(t % n) + 1][2],
                    label |-> labels[(t \div n) + 1]]
        picks(k) == {f \in [1..k -> 0..(n * Len(labels) - 1)] :
                        \A i \in 1..(k - 1) : f[i] =< f[i + 1]}
    IN  {[e \in DOMAIN f |-> Edge(f[e])] : f \in UNION {picks(k) : k \in 0..m}}

Meeting(queries, vs, es, n) ==
    {[query |-> q, vertices |-> v, edges |-> e, writes |-> n] : q \in queries, v \in vs, e \in es}
Bare(n) == {[id \in 1..n |-> Plain]}

Searches ==
    Meeting({NeighborsQuery(1, "IN", 0, {}), NeighborsQuery(1, "BOTH", 1, {}),
             NeighborsQuery(1, "OUT", 2, {"light"}), NeighborsQuery(3, "OUT", 1, {}), DfsQuery(1, "OUT", 1), DfsQuery(1, "BOTH", 4),
             PathQuery(1, 1, 0, FALSE), PathQuery(3, 1, 0, FALSE), PathQuery(1, 3, 2, FALSE),
             PathQuery(1, 2, 0, TRUE), ViewQuery, ReportQuery(1), QualityQuery},
            Bare(2), EdgeLists(Pairs(2), 1, <<"light", "text">>), 2)
    \cup Meeting({NeighborsQuery(1, "BOTH", 2, {}), DfsQuery(1, "OUT", 4), CycleQuery,
                  PathQuery(1, 2, 1, FALSE), PathQuery(1, 2, 2, FALSE), PathQuery(1, 2, 0, FALSE), ReportQuery(2)},
                 Bare(3), EdgeLists(Pairs(3), 2, <<"light">>), 1)
    \cup Meeting({NeighborsQuery(1, "OUT", 2, {}), DfsQuery(1, "OUT", 4), CycleQuery,
                  PathQuery(1, 2, 3, FALSE), PathQuery(1, 2, 0, FALSE), PathQuery(1, 2, 0, TRUE)},
                 Bare(3), EdgeLists(Detours, 2, <<"light">>), 2)
    \cup Meeting({PathQuery(1, 2, 0, TRUE)}, Bare(3), EdgeLists(Detours, 3, <<"light", "heavy">>), 1)
    \cup Meeting({PathQuery(1, 2, 0, TRUE)}, Bare(3), EdgeLists(Detours, 2, <<"light", "minus">>), 0)

On(variable, values) == [on |-> variable, holds |-> values]
EdgeStmts ==
    {MatchStmt("p", dir, None, None, NoCondition, 100) : dir \in {"OUT", "IN", "BOTH"}}
    \cup {MatchStmt("p", "OUT", "light", "p", where, 100) : where \in {On("left", {1}), On("right", {2})}}
    \cup {MatchStmt(None, "BOTH", None, "p", On("edge", {"light"}), limit) : limit \in {0, 1}}
    \cup {MatchStmt(None, "BOTH", None, None, NoCondition, 100),
          Unbound(MatchStmt("p", "OUT", None, None, NoCondition, 100))}
NodeStmts ==
    {NodeStmt("p", NoCondition, 0), NodeStmt("p", On("left", {1}), 100),
     NodeStmt(None, NoCondition, 100), Unbound(NodeStmt("p", NoCondition, 1))}

(* The index lists a vertex too many, alive or not, or not yet again. *)
Strayed(statements) ==
    {Indexed(s, stale, gaps) : s \in statements, stale \in {{}, {1}, {3}}, gaps \in {{}, {2}}}
StrayStmts ==
    Strayed({MatchStmt("p", "OUT", None, None, NoCondition, 100),
             NodeStmt("p", NoCondition, 100)})

Queries == Searches
    \cup Meeting(StrayStmts, [1..2 -> {Plain, Young}],
                 EdgeLists(<<<<1, 2>>, <<2, 1>>>>, 1, <<"light">>), 1)
    \cup Meeting(EdgeStmts, [1..2 -> {Plain, Young, Old}],
                 EdgeLists(Pairs(2), 1, <<"light", "heavy">>), 1)
    \cup Meeting(EdgeStmts, {<<Young, Old>>}, EdgeLists(Pairs(2), 1, <<"light">>), 2)
    \cup Meeting(NodeStmts, [1..2 -> {Plain, Young, Old}], {<<>>}, 2)
    \cup Meeting({MatchStmt("p", dir, None, "p", NoCondition, 100) : dir \in {"OUT", "BOTH"}},
                 {[id \in 1..3 |-> Young]}, EdgeLists(Detours, 2, <<"light">>), 1)
=============================================================================
