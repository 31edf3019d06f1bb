------------------------------ MODULE MCValues ------------------------------
(* Values for CapiValues.  With INT8 of 2 bits to INT64 of 5, the integers *)
(* below lie on both sides of every boundary.                              *)
EXTENDS Integers, Sequences

MCBits == [INT8 |-> 2, INT16 |-> 3, INT32 |-> 4, INT64 |-> 5]

\* Seven microseconds to the second: with doubles of 6 bits, 31 is read as 30, 57 as 58.
MCPerSecond ==
    [TIMESTAMP |-> 7, TIMESTAMP_TZ |-> 7, TIMESTAMP_MS |-> 2, TIMESTAMP_SEC |-> 1, TIMESTAMP_NS |-> 14]

\* "a0b" is a, NUL, b.
MCUpToNul == [a0b |-> "a"]

PyInt(n) == <<"int", n>>
Str(s) == <<"str", s>>
PyList(s) == <<"list", s>>
Numpy(dtype, item) == <<"numpy", <<dtype, item>>>>

Ints == {PyInt(n) : n \in {-17, -16, -9, -8, -5, -4, -3, -2, 1, 2, 3, 4, 7, 8, 15, 16}}
Numpys ==
    {Numpy("b", <<"bool", TRUE>>), Numpy("i1", PyInt(1)), Numpy("i8", PyInt(1)), Numpy("u1", PyInt(3)),
     Numpy("f4", <<"float", "x">>), Numpy("U", Str("a"))}
Leaves ==
    Ints \cup Numpys
      \cup {<<"none", 0>>, <<"bool", TRUE>>, <<"float", "x">>, Str("a"), Str("b"),
            Str("key"), Str("value"), Str("{}"), <<"bytes", "61">>,
            Str("a0b"), <<"uuid", "u">>, <<"date", 1>>, <<"timedelta", -5>>, <<"timedelta", 20>>,
            <<"datetime", -31>>, <<"datetime", 2>>, <<"datetime", 57>>, <<"aware", 31>>, <<"other", 0>>}

Few == {<<"none", 0>>, PyInt(1), PyInt(7), Str("a"), <<"bytes", "61">>, <<"other", 0>>,
        <<"datetime", -31>>}
Upto2(S) == {<<>>} \cup {<<v>> : v \in S} \cup (S \X S)

Flat ==
    {PyList(s) : s \in Upto2(Few)}
      \cup {<<"tuple", <<v>>>> : v \in Few}
Inner == {PyList(<<>>), PyList(<<PyInt(1)>>), PyList(<<PyInt(1), <<"none", 0>>>>), <<"tuple", <<PyInt(1)>>>>}

Arrays == {<<"ndarray", <<>>>>, <<"ndarray", <<Numpy("i8", PyInt(1)), Numpy("i8", PyInt(1))>>>>}

Entry(k, v) == <<Str(k), v>>
Dicts ==
    {<<"dict", <<>>>>}
      \cup {<<"dict", <<Entry("a", v), Entry("b", w)>>>> : v \in Few, w \in {PyInt(1)}}
      \cup {<<"dict", <<Entry("a", v)>>>> : v \in Inner}
      \cup {<<"dict", <<<<k, PyInt(1)>>, <<PyInt(7), PyInt(1)>>>>>> : k \in {PyInt(1), <<"tuple", <<PyInt(1)>>>>, Str("a"), <<"none", 0>>, <<"tuple", <<>>>>}}
      \cup {<<"dict", <<Entry("a0b", PyInt(1))>>>>}
Maps == {<<"dict", <<Entry("key", PyList(ks)), Entry("value", PyList(vs))>>>> :
           ks \in Upto2({PyInt(1), Str("a")}), vs \in Upto2({PyInt(1), <<"none", 0>>})}
Nested ==
    {PyList(<<v, w>>) : v \in Inner \cup Arrays, w \in Inner \cup {PyInt(1)}}
      \cup {PyList(<<<<"dict", <<Entry("a", PyInt(1)), Entry("b", PyInt(1))>>>>, PyInt(1)>>)}

MCValueSet == Leaves \cup Flat \cup Arrays \cup {<<"tuple", <<>>>>} \cup Dicts \cup Maps \cup Nested

-----------------------------------------------------------------------------
Id(n) == <<"INTERNAL_ID", n>>
Label == <<"STRING", "L">>
NNode(props) == <<"NODE", <<Id(1), Label, props>>>>
NRel(props) == <<"REL", <<Id(1), Id(2), Id(3), Label, props>>>>
NList(s) == <<"LIST", s>>
Struct(v) == <<"STRUCT", <<<<"f", v>>>>>>
NMap(k, v) == <<"MAP", <<<<k, v>>, <<k, <<"INT8", 1>>>>>>>>

Parts1 ==
    {<<"NULL", 0>>, <<"INT8", 1>>, <<"INT128", <<1, 1>>>>, <<"INTERVAL", <<14, 3, 5>>>>,
     <<"INTERVAL", <<-1, 0, 0>>>>, <<"TIMESTAMP_NS", 1>>, <<"DECIMAL", "1.5">>, <<"BLOB", "61">>,
     <<"OTHER", 0>>, <<"ODDSTRUCT", 0>>, <<"ODDLIST", <<<<"INT8", 1>>>>>>,
     <<"ODDLIST", <<<<"STRING", "a">>>>>>, <<"UNREADABLE", 0>>, <<"FAR", 0>>, <<"LOST", 0>>}
Parts2 ==
    Parts1 \cup {NList(<<p>>) : p \in Parts1} \cup {Struct(p) : p \in Parts1}
      \cup {NMap(p, p) : p \in Parts1} \cup {NMap(NList(<<>>), p) : p \in Parts1}

Rows2 ==
    Parts2 \cup {NList(<<p, p>>) : p \in Parts2}
      \cup {NNode(<<<<"p", p>>, <<"q", q>>>>) : p \in Parts2, q \in {<<"INT8", 1>>, <<"UNREADABLE", 0>>}}
      \cup {NRel(<<<<"p", p>>>>) : p \in Parts2}

PathNode(p) == NNode(<<<<"p", p>>>>)
PathRel(p) == NRel(<<<<"p", p>>>>)
RecursiveRel(p) == <<"RECURSIVE_REL", <<NList(<<PathNode(p)>>), NList(<<PathRel(p)>>)>>>>

\* With the parts of every value.
MCStored ==
    Rows2 \cup {Id(n) : n \in 1..3} \cup {Label, NList(<<>>)}
      \cup UNION {{RecursiveRel(p), PathNode(p), NList(<<PathNode(p)>>), NList(<<PathRel(p)>>)} :
                  p \in Parts1}
=============================================================================
