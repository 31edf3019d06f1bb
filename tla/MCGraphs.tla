------------------------------- MODULE MCGraphs -------------------------------
(* Results for GraphExport: label A has a property of each sort that the   *)
(* torch converter tells apart, label B only a string, label C an integer. *)
EXTENDS Naturals, Sequences, TLC

MCSchema ==
    [A |-> <<[name |-> "id", type |-> "INT64", dimension |-> 0],
             [name |-> "vec", type |-> "DOUBLE", dimension |-> 1],
             [name |-> "age", type |-> "INT64", dimension |-> 0]>>,
     B |-> <<[name |-> "name", type |-> "STRING", dimension |-> 0]>>,
     C |-> <<[name |-> "num", type |-> "INT64", dimension |-> 0]>>]

NodeA(n, vec, age) ==
    [kind |-> "node", label |-> "A", offset |-> n, pk |-> ToString(n),
     values |-> [id |-> "scalar", vec |-> vec, age |-> age]]
NodeB(n) ==
    [kind |-> "node", label |-> "B", offset |-> n, pk |-> ToString(n),
     values |-> [name |-> "scalar"]]
NodeC(n) ==
    [kind |-> "node", label |-> "C", offset |-> n, pk |-> ToString(n),
     values |-> [num |-> "scalar"]]
Edge(id, a, b, props) ==
    [kind |-> "rel", id |-> id, src |-> <<a.label, a.offset>>, dst |-> <<b.label, b.offset>>,
     props |-> props]
Null == [kind |-> "null"]
Other == [kind |-> "other"]
Path(ns, rs) == [kind |-> "path", nodes |-> ns, rels |-> rs]

Vecs == {"vec2", "vec3", "ragged", "null"}
A0 == NodeA(0, "vec2", "scalar")
A1(vec, age) == NodeA(1, vec, age)
A2(vec) == NodeA(2, vec, "scalar")
Result(cols, rs) == [columns |-> cols, rows |-> rs]

NodeResults ==
    {Result(<<"NODE">>, <<<<A0>>, <<A1(v, a)>>, <<n>>>>) :
        v \in Vecs, a \in {"scalar", "null"}, n \in {A2("vec2"), A2("null"), A0, NodeB(0), Null}}

EndPairs(a, b) == {<<a, b>>, <<b, a>>, <<a, a>>}
\* Two rels: the same one again, parallel, of one kind or of two, or with an end left out.
RelResults ==
    LET a == A0  b == A1("vec2", "scalar")
        r == Edge(1, a, b, {"w"})
        Triple(x, s, y) == <<x, s, y>>
        Two(x, s, y, c) ==
            Result(<<"NODE", "REL", "NODE">>,
                   <<Triple(a, r, b), Triple(x, s, y), Triple(c, Edge(3, c, c, {"w"}), c)>>)
    IN  {Two(a, r, b, NodeB(0))}
        \cup UNION {{Two(e[1], Edge(2, e[1], e[2], p), e[2], c) :
                e \in {<<a, b>>} \cup EndPairs(a, b) \cup EndPairs(a, c), p \in {{"w"}, {"w", "x"}}} :
                  c \in {NodeB(0), NodeC(0)}}
        \cup {Result(<<"REL", "NODE", "STRING">>, <<<<Edge(1, a, x, {}), a, Other>>, <<Null, b, Other>>>>) :
                x \in {a, NodeB(0)}}
        \cup {Result(<<"REL", "NODE">>, <<<<Edge(1, a, NodeB(0), {}), a>>>>)}

PathResults ==
    LET a == A0  b == A1("vec2", "scalar")
        r == Edge(1, a, b, {"w"})  s == Edge(2, b, a, {"w"})
    IN  {Result(<<"RECURSIVE_REL", "NODE">>, <<<<Path(<<a, b>>, <<r>>), a>>, <<p, b>>>>) :
            p \in {Null, Path(<<>>, <<>>), Path(<<b, a>>, <<s>>), Path(<<a>>, <<r, s>>)}}

MCResults == NodeResults \cup RelResults \cup PathResults \cup {Result(<<"NODE">>, <<>>)}
=============================================================================
