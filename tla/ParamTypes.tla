----------------------------- MODULE ParamTypes -----------------------------
(***************************************************************************)
(* The type that the pybind backend infers for a query parameter           *)
(* (py_connection.cpp) and the signature of it in the key of the implicit  *)
(* prepared-statement cache (connection.py), which has to mirror it.       *)
(*                                                                         *)
(* An integer is known by the narrowest type that admits it.  Integers     *)
(* beyond 64 bits and tuples are refused by the C++ code; NumPy arrays,    *)
(* dates and the like are left out.                                        *)
(***************************************************************************)
EXTENDS Naturals, SequencesExt

\* Narrowest first: connection.py's int_width_order, pyLogicalType()'s tests.
IntTypes == <<"int8", "uint8", "int16", "uint16", "int32", "uint32", "int64">>

\* Python values.
None == [py |-> "None"]
Bool == [py |-> "bool"]
Float == [py |-> "float"]
Str == [py |-> "str"]
Integer(width) == [py |-> "int", width |-> width]
List(elems) == [py |-> "list", elems |-> elems]
Dict(fields) == [py |-> "dict", fields |-> fields]   \* pairs of a name and a value

Numbers == {"bool", "int", "float"}
Names(fields) == [i \in DOMAIN fields |-> fields[i][1]]
WithoutNone(elems) == SelectSeq(elems, LAMBDA v : v # None)

\* {"key": [...], "value": [...]} with lists of one length stands for a map.
LooksLikeMap(fields) ==
    /\ Names(fields) = <<"key", "value">>
    /\ \A i \in 1..2 : fields[i][2].py = "list"
    /\ Len(fields[1][2].elems) = Len(fields[2][2].elems)

SameKind(elems) ==
    /\ Head(elems).py \in Numbers
    /\ \A i \in DOMAIN elems : elems[i].py = Head(elems).py

NumberKind == [bool |-> <<"bool">>, int |-> <<"int64">>, float |-> <<"double">>]

-----------------------------------------------------------------------------
(* The engine's types, inferred in C++.                                    *)

AnyType == <<"any">>
Json == <<"json">>
Error == <<"error">>
ListOf(t) == <<"list", t>>
IsInt(t) == Len(t) = 1 /\ t[1] \in ToSet(IntTypes)
WidthOf(t) == CHOOSE w \in DOMAIN IntTypes : IntTypes[w] = t[1]
Wider(a, b) == IF WidthOf(a) >= WidthOf(b) THEN a ELSE b
IsNested(t) == t[1] \in {"list", "map", "struct"}

\* tryGetMaxLogicalType(): what the comment connection.py:274-276 and the tests
\* (test_parameter.py:206-255, 338-347) say of it.
RECURSIVE MaxType(_, _)
MaxType(a, b) ==
    LET heads == {a[1], b[1]}
        max(s, i) == MaxType(s[1][i], s[2][i])
    IN  CASE a = b -> a
          [] Error \in {a, b} -> Error
          [] a = AnyType -> b
          [] b = AnyType -> a
          [] IsInt(a) /\ IsInt(b) -> Wider(a, b)
          [] "double" \in heads /\ (IsInt(a) \/ IsInt(b)) -> <<"double">>
          [] "string" \in heads /\ ~IsNested(a) /\ ~IsNested(b) -> <<"string">>
          [] heads = {"list"} -> ListOf(MaxType(a[2], b[2]))
          [] heads = {"map"} -> <<"map", max(<<a, b>>, 2), max(<<a, b>>, 3)>>
          [] heads = {"struct"} ->
                IF Names(a[2]) # Names(b[2]) THEN Error
                ELSE <<"struct", [i \in DOMAIN a[2] |->
                                    <<a[2][i][1], MaxType(a[2][i][2], b[2][i][2])>>]>>
          [] OTHER -> Error

\* An error in a part is an error of the whole.
RECURSIVE Fails(_)
Fails(t) ==
    CASE t[1] = "list" -> Fails(t[2])
      [] t[1] = "map" -> Fails(t[2]) \/ Fails(t[3])
      [] t[1] = "struct" -> \E i \in DOMAIN t[2] : Fails(t[2][i][2])
      [] OTHER -> t = Error
Checked(t) == IF Fails(t) THEN Error ELSE t

\* pyHomogeneousListType(): AnyType when the list is not of one kind of number.
HomogeneousType(elems) ==
    LET some == WithoutNone(elems)
    IN  CASE some = <<>> -> ListOf(AnyType)
          [] some # <<>> /\ SameKind(some) -> ListOf(NumberKind[some[1].py])
          [] OTHER -> AnyType

ScalarType(v) ==
    CASE v.py = "None" -> AnyType
      [] v.py = "int" -> <<IntTypes[v.width]>>
      [] v.py = "float" -> <<"double">>
      [] v.py = "str" -> <<"string">>
      [] OTHER -> <<v.py>>

\* pyLogicalType(): a dictionary is a map from its names.
RECURSIVE LogicalType(_)
LogicalType(v) ==
    LET max(values) ==
            FoldLeft(LAMBDA t, x : Checked(MaxType(t, LogicalType(x))), AnyType, values)
    IN  CASE v.py = "dict" ->
                Checked(<<"map", IF v.fields = <<>> THEN AnyType ELSE <<"string">>,
                          max([i \in DOMAIN v.fields |-> v.fields[i][2]])>>)
          [] v.py = "list" ->
                IF HomogeneousType(v.elems) # AnyType THEN HomogeneousType(v.elems)
                ELSE Checked(ListOf(max(v.elems)))
          [] OTHER -> ScalarType(v)

\* pyLogicalTypeFromParameter(): a list that mixes nested and plain values is JSON.
RECURSIVE ParameterType(_)
ParameterType(v) ==
    LET next(t, x) ==
            LET cur == ParameterType(x)
            IN  CASE t \in {Json, Error} -> t
                  [] t # AnyType /\ t[1] # cur[1] /\ IsNested(t) # IsNested(cur) -> Json
                  [] OTHER -> Checked(MaxType(t, cur))
        fields == v.fields
        mapOf(k, w) == IF Json \in {k, w} THEN Error ELSE <<"map", k[2], w[2]>>
    IN  CASE v.py = "dict" ->
                IF Len(fields) = 2 /\ \E i \in 1..2 : LogicalType(fields[i][2]) = Error
                THEN Error    \* validateMapFields() raises
                ELSE IF LooksLikeMap(fields)
                THEN Checked(mapOf(ParameterType(fields[1][2]),
                                   ParameterType(fields[2][2])))
                ELSE Checked(<<"struct", [i \in DOMAIN fields |->
                                 <<fields[i][1], ParameterType(fields[i][2])>>]>>)
          [] v.py = "list" ->
                IF HomogeneousType(v.elems) # AnyType THEN HomogeneousType(v.elems)
                ELSE LET t == FoldLeft(next, AnyType, v.elems)
                     IN  IF t \in {Json, Error} THEN t ELSE ListOf(t)
          [] OTHER -> ScalarType(v)

-----------------------------------------------------------------------------
(* The signature, computed in Python.                                      *)

FieldOf(fields, name) ==
    fields[CHOOSE i \in DOMAIN fields : fields[i][1] = name][2]

\* Mutant: as before the fix of issue #57, the first element decides.
MergeFirst(a, b) == a

RECURSIVE MergeParts(_, _)
MergeParts(a, b) ==
    LET heads == {a[1], b[1]}
    IN  CASE a = b -> a
          [] AnyType \in {a, b} -> AnyType
          [] IsInt(a) /\ IsInt(b) -> Wider(a, b)
          [] heads = {"list"} -> ListOf(MergeParts(a[2], b[2]))
          [] heads = {"struct"} ->
                IF ToSet(Names(a[2])) # ToSet(Names(b[2]))
                THEN <<"fields", ToSet(Names(a[2])) \cup ToSet(Names(b[2]))>>
                ELSE <<"struct", [i \in DOMAIN a[2] |->
                        <<a[2][i][1], MergeParts(a[2][i][2],
                                                 FieldOf(b[2], a[2][i][1]))>>]>>
          [] heads = {"map"} ->
                <<"map", MergeParts(a[2], b[2]), MergeParts(a[3], b[3])>>
          [] OTHER -> a

\* _merge(), for two elements of a list.
Merge(a, b) == MergeParts(a, b)

RECURSIVE Signature(_)
Signature(v) ==
    CASE v.py = "dict" ->
            IF LooksLikeMap(v.fields)
            THEN <<"map", Signature(v.fields[1][2])[2], Signature(v.fields[2][2])[2]>>
            ELSE <<"struct", [i \in DOMAIN v.fields |->
                                <<v.fields[i][1], Signature(v.fields[i][2])>>]>>
      [] v.py = "list" ->
            LET some == WithoutNone(v.elems)
                merged == FoldLeft(LAMBDA s, x : Merge(s, Signature(x)),
                                   Signature(some[1]), Tail(some))
            IN  CASE some = <<>> -> ListOf(AnyType)
                  [] some # <<>> /\ IsInt(merged) -> ListOf(<<"int64">>)
                  [] OTHER -> ListOf(merged)
      [] OTHER -> ScalarType(v)

\* The C-API signature looks at the first element of a list only,
\* and takes all integers for one type.
RECURSIVE CapiSignature(_)
CapiSignature(v) ==
    CASE v.py = "int" -> <<"int">>
      [] v.py = "dict" ->
            IF LooksLikeMap(v.fields)
            THEN <<"map", CapiSignature(v.fields[1][2]), CapiSignature(v.fields[2][2])>>
            ELSE <<"struct", {<<v.fields[i][1], CapiSignature(v.fields[i][2])>> :
                                i \in DOMAIN v.fields}>>
      [] v.py = "list" ->
            ListOf(IF v.elems = <<>> THEN AnyType ELSE CapiSignature(Head(v.elems)))
      [] OTHER -> ScalarType(v)

=============================================================================
