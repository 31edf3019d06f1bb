-------------------------- MODULE MCPreparedCache --------------------------
(* Parameter values for PreparedCache, and symmetric model values.         *)
EXTENDS PreparedCache, ParamTypes, TLC

CacheSymmetry == Permutations(Threads) \cup Permutations(Conns) \cup Permutations(Frames)

Pair(v, w) == List(<<v, w>>)
Row(v) == Dict(<< <<"d", v>> >>)
Rows(v, w) == Pair(Row(v), Row(w))
Map(keys, vals) == Dict(<< <<"key", keys>>, <<"value", vals>> >>)

\* The parameters that have a type: the others raise.
Typed(S) == {v \in S : ~Fails(ParameterType(v))}

\* What test_pybind_implicit_prepare_cache.py uses: widths, and rows of widths.
FewValues == Typed({Integer(1), Integer(3), Rows(Integer(1), Integer(1)),
                    Rows(Integer(1), Integer(2)), Pair(Integer(1), Integer(2))})

\* Lists whose first element is an integer.
MixedValues == Typed({Pair(Integer(1), Integer(1)), Pair(Integer(1), Float)})

TypeOfEach == [v \in FewValues \cup MixedValues |-> ParameterType(v)]
PybindKeyOfEach == [v \in FewValues \cup MixedValues |-> Signature(v)]
CapiKeyOfEach == [v \in FewValues \cup MixedValues |-> CapiSignature(v)]

-----------------------------------------------------------------------------
(* Values whose parts are of one kind: see KeyDeterminesType.              *)

Integers7 == {Integer(w) : w \in DOMAIN IntTypes}
Plain == Integers7 \cup {Bool, Float, Str}
OneKind(S) == {p \in S \X S : p[1].py = p[2].py}

Lists == {List(<<v>>) : v \in Plain \cup {None}}
           \cup {Pair(p[1], p[2]) : p \in OneKind(Plain)}
           \cup {Pair(None, v) : v \in Plain} \cup {List(<<>>)}
IntLists == {List(<<v>>) : v \in Integers7} \cup {Pair(Integer(1), v) : v \in Integers7}

RegularShapes ==
    Plain \cup {None} \cup Lists
      \cup {Row(v) : v \in Plain \cup {None} \cup Lists}
      \cup {Rows(p[1], p[2]) : p \in OneKind(Plain)}
      \cup {Pair(p[1], p[2]) : p \in IntLists \X IntLists}
      \cup {Rows(Row(v), Row(w)) : v, w \in Integers7}
      \cup {Map(List(<<v>>), List(<<w>>)) : v, w \in Plain}
      \cup {Map(Pair(p[1], p[2]), Pair(Str, Str)) : p \in OneKind(Plain)}

\* The reference for the signature: with pybind, parameters with one key are of one
\* type (connection.py:192-304 mirrors py_connection.cpp:537-806).  It depends on the
\* state in nothing, so one state is enough.
KeyDeterminesType ==
    calls = 0 /\ made = {} =>
        LET typed == {<<Signature(v), ParameterType(v)>> : v \in Typed(RegularShapes)}
        IN  \A p, q \in typed : p[1] = q[1] => p[2] = q[2]

=============================================================================
