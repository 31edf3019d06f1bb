------------------------------ MODULE CapiValues ------------------------------
(***************************************************************************)
(* How a Python value becomes a native value of the C API and back: one    *)
(* call of execute() with the parameter $x, and one row that holds the     *)
(* parameter again or a value of the database (_lbug_capi.py,              *)
(* _normalize_parameters_for_capi of connection.py).                       *)
(*                                                                         *)
(* A value is <<kind, content>>, of Python or of the engine: <<"int", 3>>, *)
(* <<"INT8", 3>>.  Both conversions descend into values; a frame of their  *)
(* stack is one activation of the recursive function, so an error unwinds  *)
(* the frames and runs the finally blocks.  live counts native values and  *)
(* types that Python has to destroy.  Integers are scaled: Bits; so are    *)
(* doubles, Precision, and the units of timestamps, PerSecond.             *)
(***************************************************************************)
EXTENDS Integers, SequencesExt

CONSTANTS Values,  \* Python values, with their parts
          Stored,  \* what the database may return besides
          Bits,    \* native integer type -> its width
          Precision, \* bits of a double
          PerSecond, \* timestamp type -> its units in a second
          UpToNul  \* string with a NUL -> what is before it

ASSUME CapiValuesAssumption ==
    /\ DOMAIN Bits = {"INT8", "INT16", "INT32", "INT64"}
    /\ \A t \in DOMAIN Bits : Bits[t] \in Nat \ {0}
    /\ Precision \in Nat \ {0}
    /\ {"TIMESTAMP", "TIMESTAMP_TZ"} \subseteq DOMAIN PerSecond
    /\ \A t \in DOMAIN PerSecond : PerSecond[t] \in Nat \ {0}
    /\ \A v \in Values \cup Stored : Len(v) = 2

VARIABLES
    stage,    \* how far the call is
    param,    \* the value of $x; Absent when the row comes from the database
    wraps,    \* is it to_json($x) in the query?
    native,   \* the value that was bound, or that is in the row
    binding,  \* frames of _value_from_python()
    reading,  \* frames of _convert_value()
    row,      \* the Python value that was read
    error,    \* the exception in flight, or that ended the call
    live,     \* native values, types and tuples not yet destroyed
    leaked,   \* keys got of map entries whose value could not be got
    adopted   \* _owned_string_ptrs and _owned_blob_ptrs

valueVars == <<stage, param, wraps, native, binding, reading, row, error, live, leaked, adopted>>

Kind(v) == v[1]
Content(v) == v[2]
Absent == <<"absent", 0>>
PyNone == <<"none", 0>>
Text(s) == <<"str", s>>

-----------------------------------------------------------------------------
(* Python dictionaries: sequences of <<key, value>>.                       *)

Keys(v) == {entry[1] : entry \in ToSet(Content(v))}
Field(v, name) == (CHOOSE entry \in ToSet(Content(v)) : entry[1] = Text(name))[2]

Put(dict, entry) ==
    IF \E i \in DOMAIN dict : dict[i][1] = entry[1]
    THEN [i \in DOMAIN dict |-> IF dict[i][1] = entry[1] THEN entry ELSE dict[i]]
    ELSE Append(dict, entry)
PyDict(entries) == <<"dict", FoldLeft(Put, <<>>, entries)>>
Hashable(v) == Kind(v) \notin {"list", "dict"}

\* A dictionary of two lists as long as each other, "key" and "value", stands for a MAP.
IsMap(v) ==
    /\ Keys(v) = {Text("key"), Text("value")}
    /\ Kind(Field(v, "key")) = "list" /\ Kind(Field(v, "value")) = "list"
    /\ Len(Content(Field(v, "key"))) = Len(Content(Field(v, "value")))

Entries(v) ==
    IF IsMap(v)
    THEN [i \in DOMAIN Content(Field(v, "key")) |->
            <<Content(Field(v, "key"))[i], Content(Field(v, "value"))[i]>>]
    ELSE Content(v)

Sequences == {"list", "tuple", "ndarray"}

\* What becomes of a composite value.
NativeKind(v) ==
    IF Kind(v) \in Sequences THEN "LIST"
    ELSE IF ~IsMap(v) /\ \A key \in Keys(v) : Kind(key) = "str" THEN "STRUCT" ELSE "MAP"

Parts(v) ==
    CASE NativeKind(v) = "LIST" -> Content(v)
      [] NativeKind(v) = "STRUCT" -> [i \in DOMAIN Content(v) |-> Content(v)[i][2]]
      [] NativeKind(v) = "MAP" -> FlattenSeq(Entries(v))

-----------------------------------------------------------------------------
(* JSON parameters.                                                        *)

JsonTexts == {"{}"}   \* strings that json.loads() accepts
Containers == {"list", "tuple", "dict"}
Serializable(v) == Kind(v) \in Containers \cup {"none", "bool", "int", "float"}
IsComposite(v) == Kind(v) \in Sequences \cup {"dict"}
JsonParts(v) ==
    IF Kind(v) = "dict" THEN {entry[2] : entry \in ToSet(Content(v))} ELSE ToSet(Content(v))

\* _contains_unresolved_json_type(): a type that the engine cannot infer.
Unresolved[v \in Values] ==
    \/ v = PyNone
    \/ /\ Kind(v) \in Containers
       /\ \/ JsonParts(v) = {}
          \/ \E p \in JsonParts(v) : Unresolved[p]
          \/ /\ Kind(v) # "dict"
             /\ \E p \in JsonParts(v) : Kind(p) \in Containers
             /\ \E p \in JsonParts(v) : Kind(p) \notin Containers

\* json.dumps() succeeds.
Dumps[v \in Values] ==
    \/ Kind(v) \in {"none", "bool", "int", "float", "str"}
    \/ /\ Kind(v) \in Containers
       /\ \A p \in JsonParts(v) : Dumps[p]
       /\ Kind(v) = "dict" => \A key \in Keys(v) : Kind(key) \in {"str", "int", "bool", "none"}

\* Without the recursion.
IsUnresolvedHere(v) == v = PyNone \/ (Kind(v) \in Containers /\ JsonParts(v) = {})
IsUnresolved(v) == Unresolved[v]

AsJson(v) == wraps /\ (Kind(v) = "str" \/ (Serializable(v) /\ IsUnresolved(v)))
NotJson(v) == IF Kind(v) = "str" THEN Content(v) \notin JsonTexts ELSE ~Dumps[v]

Escape(s) == "\\x" \o s

\* _normalize_parameters_for_capi(); bytes go as text into BLOB($x).
Normalized(v) ==
    CASE Kind(v) = "bytes" -> Text(Escape(Content(v)))
      [] AsJson(v) -> <<"json", v>>
      [] OTHER -> v

Normalize ==
    /\ stage = "new"
    /\ IF Kind(param) # "bytes" /\ AsJson(param) /\ NotJson(param)
       THEN /\ stage' = "failed" /\ UNCHANGED binding
            /\ error' = IF Kind(param) = "str" THEN "ValueError" ELSE "TypeError"
       ELSE /\ stage' = "bind" /\ UNCHANGED error
            /\ binding' = <<[of |-> Absent, todo |-> <<Normalized(param)>>, made |-> <<>>]>>
    /\ UNCHANGED <<param, wraps, native, reading, row, live, adopted, leaked>>

-----------------------------------------------------------------------------
(* From Python.                                                            *)

Fits(n, width) == -(2^(width - 1)) <= n /\ n <= 2^(width - 1) - 1
\* What ctypes passes on of an integer.
Wrap(n, width) == ((n + 2^(width - 1)) % 2^width) - 2^(width - 1)

\* One bit too many.
IntTypeOffByOne(n) ==
    IF Fits(n, Bits.INT8 + 1) THEN "INT8"
    ELSE IF Fits(n, Bits.INT16 + 1) THEN "INT16"
    ELSE IF Fits(n, Bits.INT32 + 1) THEN "INT32" ELSE "INT64"

\* The narrowest type, whatever the types of a list's other members.
IntType(n) ==
    IF Fits(n, Bits.INT8) THEN "INT8"
    ELSE IF Fits(n, Bits.INT16) THEN "INT16"
    ELSE IF Fits(n, Bits.INT32) THEN "INT32" ELSE "INT64"

\* p \div q to the nearest integer, ties to even.
Nearest(p, q) ==
    LET down == p \div q  rest == p % q
    IN  IF 2 * rest < q \/ (2 * rest = q /\ down % 2 = 0) THEN down ELSE down + 1
Truncated(p, q) == IF p < 0 THEN -((-p) \div q) ELSE p \div q
Magnitude(n) == IF n < 0 THEN -n ELSE n

\* The double nearest to p / q, times Scale.
Scale == 2^(2 * Precision)
Double(p, q) ==
    IF p = 0 THEN 0
    ELSE LET unit == CHOOSE u \in {2^i : i \in 0..(4 * Precision)} :
                       (Magnitude(p) * Scale) \div (u * q) \in 2^(Precision - 1) .. 2^Precision - 1
         IN  Nearest(p * Scale, unit * q) * unit

\* int(value.timestamp() * 1_000_000) and fromtimestamp(count / units)
Micros(n) ==
    LET second == PerSecond.TIMESTAMP
    IN  Truncated(Double(Double(n, second) * second, Scale), Scale)
FromTimestamp(count, units) == Nearest(Double(count, units) * PerSecond.TIMESTAMP, Scale)

\* c_char_p ends at a NUL.
CString(s) == IF s \in DOMAIN UpToNul THEN UpToNul[s] ELSE s

CreateFunctions ==
    [none |-> "NULL", bool |-> "BOOL", float |-> "DOUBLE", str |-> "STRING", json |-> "JSON",
     uuid |-> "UUID", date |-> "DATE", datetime |-> "TIMESTAMP", aware |-> "TIMESTAMP_TZ"]

Scalar(v) ==
    CASE Kind(v) = "int" -> <<IntType(Content(v)), Wrap(Content(v), Bits[IntType(Content(v))])>>
      [] Kind(v) = "bytes" -> <<"STRING", Escape(Content(v))>>
      [] Kind(v) = "str" -> <<"STRING", CString(Content(v))>>
      [] Kind(v) \in {"datetime", "aware"} -> <<CreateFunctions[Kind(v)], Micros(Content(v))>>
      [] Kind(v) = "timedelta" -> <<"INTERVAL", <<0, 0, Wrap(Content(v), Bits.INT64)>>>>
      [] OTHER -> <<CreateFunctions[Kind(v)], Content(v)>>

NumpyTypes ==
    [b |-> "BOOL", i1 |-> "INT8", i2 |-> "INT16", i4 |-> "INT32", i8 |-> "INT64",
     u1 |-> "UINT8", u2 |-> "UINT16", u4 |-> "UINT32", u8 |-> "UINT64",
     f4 |-> "FLOAT", f8 |-> "DOUBLE"]

\* A numpy scalar has a dtype and an item; other dtypes go by the item.
NumpyScalar(v) ==
    LET dtype == Content(v)[1]  item == Content(v)[2]
    IN  IF dtype \in DOMAIN NumpyTypes THEN <<NumpyTypes[dtype], Content(item)>> ELSE Scalar(item)

IsScalar(v) == ~IsComposite(v) /\ Kind(v) # "other"

NativeOf(frame) ==
    LET made == frame.made
    IN  CASE NativeKind(frame.of) = "LIST" -> <<"LIST", made>>
          [] NativeKind(frame.of) = "STRUCT" ->
               <<"STRUCT", [i \in DOMAIN made |-> <<CString(Content(Content(frame.of)[i][1])), made[i]>>]>>
          [] NativeKind(frame.of) = "MAP" ->
               <<"MAP", [i \in 1..(Len(made) \div 2) |-> <<made[2 * i - 1], made[2 * i]>>]>>

BindTop == Last(binding)
BindBelow == Front(binding)
Binding == stage = "bind" /\ error = "none"
Making == Binding /\ BindTop.todo # <<>>

\* The frames below the top one get a member of theirs.
Handed(frames, value) ==
    LET top == Last(frames)
    IN  Append(Front(frames),
               [of |-> top.of, todo |-> Tail(top.todo), made |-> Append(top.made, value)])

Make ==
    /\ Making /\ IsScalar(Head(BindTop.todo))
    /\ LET v == Head(BindTop.todo)
       IN  binding' = Handed(binding, IF Kind(v) = "numpy" THEN NumpyScalar(v) ELSE Scalar(v))
    /\ live' = live + 1
    /\ UNCHANGED <<stage, param, wraps, native, reading, row, error, adopted, leaked>>

Unsupported ==
    /\ Making /\ Kind(Head(BindTop.todo)) = "other"
    /\ error' = "TypeError"
    /\ UNCHANGED <<stage, param, wraps, native, binding, reading, row, live, adopted, leaked>>

Enter ==
    /\ Making /\ IsComposite(Head(BindTop.todo))
    /\ LET v == Head(BindTop.todo)
       IN  binding' = Append(binding, [of |-> v, todo |-> Parts(v), made |-> <<>>])
    /\ UNCHANGED <<stage, param, wraps, native, reading, row, error, live, adopted, leaked>>

\* create_list, create_struct, create_map; the members are destroyed.
Create ==
    /\ Binding /\ BindTop.todo = <<>> /\ Len(binding) > 1
    /\ binding' = Handed(BindBelow, NativeOf(BindTop))
    /\ live' = live - Len(BindTop.made) + 1
    /\ UNCHANGED <<stage, param, wraps, native, reading, row, error, adopted, leaked>>

\* bind_parameters()
BindValue ==
    /\ Binding /\ BindTop.todo = <<>> /\ Len(binding) = 1
    /\ native' = BindTop.made[1]
    /\ live' = live - 1
    /\ binding' = <<>> /\ stage' = "bound"
    /\ UNCHANGED <<param, wraps, reading, row, error, adopted, leaked>>

\* _check_state() raises: a list of several types, an unknown parameter.
Refuse ==
    /\ Binding /\ BindTop.todo = <<>>
    /\ error' = "refused"
    /\ UNCHANGED <<stage, param, wraps, native, binding, reading, row, live, adopted, leaked>>

\* The members made so far are left to the prepared statement.
BindUnwindLeaking ==
    /\ stage = "bind" /\ error # "none"
    /\ binding' = BindBelow
    /\ stage' = IF Len(binding) = 1 THEN "failed" ELSE stage
    /\ UNCHANGED <<param, wraps, native, reading, row, error, live, adopted, leaked>>

\* finally: lbug_value_destroy() for what has been made.
BindUnwind ==
    /\ stage = "bind" /\ error # "none"
    /\ live' = live - Len(BindTop.made)
    /\ binding' = BindBelow
    /\ stage' = IF Len(binding) = 1 THEN "failed" ELSE stage
    /\ UNCHANGED <<param, wraps, native, reading, row, error, adopted, leaked>>

-----------------------------------------------------------------------------
(* To Python.  The children of a value are fetched in groups, and a group  *)
(* is destroyed before the next one is fetched.                            *)

Singly(s) == [i \in DOMAIN s |-> <<s[i]>>]
Properties(s) == [i \in DOMAIN s |-> <<s[i][2]>>]
NamesOf(s) == [i \in DOMAIN s |-> s[i][1]]

\* Content of a NODE: <<id, label, properties>>; of a REL: <<id, src, dst, label,
\* properties>>; a property is <<name, value>>.
NodeGroups(n) == <<SubSeq(Content(n), 1, 2)>> \o Properties(Content(n)[3])
RelGroups(n) == <<SubSeq(Content(n), 1, 4)>> \o Properties(Content(n)[5])

\* Nodes and rels of a recursive rel: fetched together.
PathGroups(n) == <<Content(n)>>

\* out_map[key] = value: the value is converted first.
MapGroups(n) == [i \in DOMAIN Content(n) |-> Reverse(Content(n)[i])]

Groups(n) ==
    CASE Kind(n) \in {"ROW", "LIST"} -> Singly(Content(n))
      [] Kind(n) = "NODE" -> NodeGroups(n)
      [] Kind(n) = "REL" -> RelGroups(n)
      [] Kind(n) = "RECURSIVE_REL" -> PathGroups(n)
      [] Kind(n) = "STRUCT" -> Properties(Content(n))
      [] Kind(n) = "MAP" -> MapGroups(n)

Names(n) ==
    CASE Kind(n) = "NODE" -> <<"_ID", "_LABEL">> \o NamesOf(Content(n)[3])
      [] Kind(n) = "REL" -> <<"_ID", "_SRC", "_DST", "_LABEL">> \o NamesOf(Content(n)[5])
      [] Kind(n) = "RECURSIVE_REL" -> <<"_NODES", "_RELS">>
      [] Kind(n) = "STRUCT" -> NamesOf(Content(n))

\* The value of a frame whose children have been read.
Assembled(frame) ==
    LET read == frame.read
    IN  CASE Kind(frame.of) = "ROW" -> read[1]
          [] Kind(frame.of) = "LIST" -> <<"list", read>>
          [] Kind(frame.of) = "MAP" ->
               PyDict([i \in 1..(Len(read) \div 2) |-> <<read[2 * i], read[2 * i - 1]>>])
          [] OTHER -> PyDict([i \in DOMAIN read |-> <<Text(Names(frame.of)[i]), read[i]>>])

Day == 1000   \* microseconds, scaled

\* Years of 365 days, months of 30; rounded down, as Python's // and % do.
ReadInterval(months, days, micros) ==
    <<"timedelta", (days + (months \div 12) * 365 + (months % 12) * 30) * Day + micros>>

ReadInt128(low, high) == <<"int", high * 2^Bits.INT64 + low>>

IntTypes == {"INT8", "INT16", "INT32", "INT64", "SERIAL", "UINT8", "UINT16", "UINT32", "UINT64"}
GetFunctions ==
    [t \in IntTypes |-> "int"] @@
    [BOOL |-> "bool", DOUBLE |-> "float", FLOAT |-> "float", STRING |-> "str",
     UUID |-> "uuid", DECIMAL |-> "decimal", BLOB |-> "bytes", INTERNAL_ID |-> "dict"]

Rendered == Text("rendered")

\* _parse_rendered_value(): a list of literals is recognised, a struct is not.
Parsed(n) ==
    IF Kind(n) = "ODDLIST" /\ \A m \in ToSet(Content(n)) : Kind(m) \in IntTypes
    THEN <<"list", [i \in DOMAIN Content(n) |-> <<"int", Content(Content(n)[i])>>]>>
    ELSE Rendered

ReadScalar(n) ==
    CASE Kind(n) = "NULL" -> PyNone
      [] Kind(n) = "INT128" -> ReadInt128(Content(n)[1], Content(n)[2])
      [] Kind(n) = "INTERVAL" -> ReadInterval(Content(n)[1], Content(n)[2], Content(n)[3])
      [] Kind(n) \in DOMAIN GetFunctions -> <<GetFunctions[Kind(n)], Content(n)>>
      [] Kind(n) = "DATE" -> <<"date", Content(n)>>
      [] Kind(n) \in DOMAIN PerSecond ->
           <<IF Kind(n) = "TIMESTAMP_TZ" THEN "aware" ELSE "datetime",
             FromTimestamp(Content(n), PerSecond[Kind(n)])>>
      [] OTHER -> Parsed(n)

\* Native kinds that are read as they stand for failures: a value whose getter refuses, a
\* date beyond Python's; a list or struct whose parts cannot be got; a part, LOST, that
\* its value does not hand over.
Failure == [UNREADABLE |-> "RuntimeError", FAR |-> "OverflowError"]
Odd == {"ODDLIST", "ODDSTRUCT", "OTHER"}
Adopts(n) == IF Kind(n) \in {"STRING", "JSON", "UUID", "DECIMAL", "BLOB"} \cup Odd THEN 1 ELSE 0
IsNested(n) == Kind(n) \in {"LIST", "NODE", "REL", "RECURSIVE_REL", "STRUCT", "MAP"}

Frame(n) == [of |-> n, todo |-> Groups(n), group |-> <<>>, size |-> 0, read |-> <<>>]
ReadTop == Last(reading)
ReadBelow == Front(reading)
Reading == stage = "read" /\ error = "none"
Child == Head(ReadTop.group)

\* The value goes into the frame's result.
Converted(frames, value) ==
    LET top == Last(frames)
    IN  Append(Front(frames),
               [of |-> top.of, todo |-> top.todo, group |-> Tail(top.group), size |-> top.size,
                read |-> Append(top.read, value)])

\* What the query returns for $x, BLOB($x) and to_json($x).
Returned ==
    CASE Kind(param) = "bytes" -> <<"BLOB", Content(param)>>
      [] param # Absent /\ wraps -> <<"STRING", "json">>
      [] OTHER -> native

\* getNext(): the row is held until its value has been converted.
GetNext ==
    /\ stage = "bound"
    /\ stage' = "read"
    /\ reading' = <<Frame(<<"ROW", <<Returned>>>>)>>
    /\ live' = live + 1
    /\ UNCHANGED <<param, wraps, native, binding, row, error, adopted, leaked>>

CanFetch == Reading /\ ReadTop.todo # <<>> /\ ReadTop.size = 0
LostIn(group) == {i \in DOMAIN group : Kind(group[i]) = "LOST"}

\* Properties and fields come with a name to adopt.
Fetch ==
    /\ CanFetch /\ LostIn(Head(ReadTop.todo)) = {}
    /\ LET group == Head(ReadTop.todo)
           named == Kind(ReadTop.of) \in {"NODE", "REL", "STRUCT"} /\ Len(group) = 1
       IN  /\ reading' = Append(ReadBelow,
                                [of |-> ReadTop.of, todo |-> Tail(ReadTop.todo), group |-> group,
                                 size |-> Len(group), read |-> ReadTop.read])
           /\ live' = live + Len(group)
           /\ adopted' = IF named THEN adopted + 1 ELSE adopted
    /\ UNCHANGED <<stage, param, wraps, native, binding, row, error, leaked>>

\* What has been got of the group is destroyed, but for the key of a map entry: the try
\* begins after the value.
FetchFails ==
    /\ CanFetch /\ LostIn(Head(ReadTop.todo)) # {}
    /\ error' = "RuntimeError"
    /\ LET keys == IF Kind(ReadTop.of) = "MAP" /\ LostIn(Head(ReadTop.todo)) = {1} THEN 1 ELSE 0
           names == IF Kind(ReadTop.of) \in {"NODE", "REL"} /\ Len(Head(ReadTop.todo)) = 1 THEN 1 ELSE 0
       IN  /\ live' = live + keys /\ leaked' = leaked + keys
           /\ adopted' = adopted + names
    /\ UNCHANGED <<stage, param, wraps, native, binding, reading, row>>

Convert ==
    /\ Reading /\ ReadTop.group # <<>>
    /\ ~IsNested(Child) /\ Kind(Child) \notin DOMAIN Failure
    /\ reading' = Converted(reading, ReadScalar(Child))
    /\ adopted' = adopted + Adopts(Child)
    /\ UNCHANGED <<stage, param, wraps, native, binding, row, error, live, leaked>>

\* Every activation holds the type of its value.
Descend ==
    /\ Reading /\ ReadTop.group # <<>> /\ IsNested(Child)
    /\ reading' = Append(reading, Frame(Child))
    /\ live' = live + 1
    /\ UNCHANGED <<stage, param, wraps, native, binding, row, error, adopted, leaked>>

Fail ==
    /\ Reading /\ ReadTop.group # <<>> /\ Kind(Child) \in DOMAIN Failure
    /\ error' = Failure[Kind(Child)]
    /\ UNCHANGED <<stage, param, wraps, native, binding, reading, row, live, adopted, leaked>>

GroupRead == Reading /\ ReadTop.group = <<>> /\ ReadTop.size > 0
BadKey == Kind(ReadTop.of) = "MAP" /\ ~Hashable(Last(ReadTop.read))

FreeGroup ==
    /\ GroupRead /\ ~BadKey
    /\ reading' = Append(ReadBelow, [ReadTop EXCEPT !.size = 0])
    /\ live' = live - ReadTop.size
    /\ UNCHANGED <<stage, param, wraps, native, binding, row, error, adopted, leaked>>

\* A list or a dictionary as the key of a dictionary.
UnhashableKey ==
    /\ GroupRead /\ BadKey
    /\ error' = "TypeError"
    /\ UNCHANGED <<stage, param, wraps, native, binding, reading, row, live, adopted, leaked>>

Finish ==
    /\ Reading /\ ReadTop.todo = <<>> /\ ReadTop.size = 0
    /\ live' = live - 1
    /\ IF Len(reading) = 1
       THEN reading' = <<>> /\ row' = Assembled(ReadTop) /\ stage' = "done"
       ELSE reading' = Converted(ReadBelow, Assembled(ReadTop)) /\ UNCHANGED <<row, stage>>
    /\ UNCHANGED <<param, wraps, native, binding, error, adopted, leaked>>

\* except RuntimeError around a property of a node or rel: its text will do.
Catches ==
    /\ error = "RuntimeError" /\ ReadTop.group # <<>>
    /\ \/ Kind(ReadTop.of) = "NODE" /\ Len(ReadTop.read) >= 2
       \/ Kind(ReadTop.of) = "REL" /\ Len(ReadTop.read) >= 4

Catch ==
    /\ stage = "read" /\ Catches
    /\ reading' = Converted(reading, Rendered)
    /\ adopted' = adopted + 1
    /\ error' = "none"
    /\ UNCHANGED <<stage, param, wraps, native, binding, row, live, leaked>>

\* finally: the group, and the type or the row.
Unwind ==
    /\ stage = "read" /\ error # "none" /\ ~Catches
    /\ live' = live - ReadTop.size - 1
    /\ reading' = ReadBelow
    /\ stage' = IF Len(reading) = 1 THEN "failed" ELSE stage
    /\ UNCHANGED <<param, wraps, native, binding, row, error, adopted, leaked>>

\* QueryResult.close() and __del__().
CloseResult ==
    /\ stage \in {"done", "failed"}
    /\ adopted' = 0
    /\ stage' = "closed"
    /\ UNCHANGED <<param, wraps, native, binding, reading, row, error, live, leaked>>

-----------------------------------------------------------------------------
\* The scalars that _value_from_python() knows, and what it does not.
ScalarKinds == (DOMAIN CreateFunctions \ {"json"}) \cup {"int", "bytes", "timedelta"}
Known(v) ==
    \/ Kind(v) \in ScalarKinds \cup {"other"}
    \/ Kind(v) = "numpy" /\ Kind(Content(v)[2]) \in ScalarKinds
    \/ IsComposite(v)

\* The parts of a value are values, too.
ASSUME CapiValuesParts ==
    /\ \A v \in Values : Known(v) /\ (IsComposite(v) => Parts(v) \in Seq(Values))
    /\ \A n \in Stored : IsNested(n) => Groups(n) \in Seq(Seq(Stored))

ValueInit ==
    /\ \/ stage = "new" /\ param \in Values /\ wraps \in BOOLEAN /\ native = Absent
       \/ stage = "bound" /\ param = Absent /\ wraps = FALSE /\ native \in Stored
    /\ binding = <<>> /\ reading = <<>> /\ row = Absent /\ error = "none"
    /\ live = 0 /\ leaked = 0 /\ adopted = 0

ValueNext ==
    \/ Normalize \/ Make \/ Unsupported \/ Enter \/ Create \/ BindValue \/ Refuse \/ BindUnwind
    \/ GetNext \/ Fetch \/ FetchFails \/ Convert \/ Descend \/ Fail \/ FreeGroup \/ UnhashableKey
    \/ Finish \/ Catch \/ Unwind \/ CloseResult

ValueSpec == ValueInit /\ [][ValueNext]_valueVars

-----------------------------------------------------------------------------
(* Properties.                                                             *)

ValueTypeOK ==
    /\ stage \in {"new", "bind", "bound", "read", "done", "failed", "closed"}
    /\ param \in Values \cup {Absent} /\ wraps \in BOOLEAN
    /\ live \in Nat /\ leaked \in Nat /\ adopted \in Nat
    /\ error \in {"none", "refused", "ValueError", "TypeError", "RuntimeError", "OverflowError"}
    /\ stage \in {"bound", "done", "failed", "closed"} => binding = <<>> /\ reading = <<>>
    /\ stage = "bind" => binding # <<>>
    /\ stage = "read" => reading # <<>>

\* "All heap memory returned by C-API result-reading calls is owned by the backend
\* QueryResult object" (plan.md:11) and is released when it is closed; values, types and
\* rows are gone as soon as the call that got them is over, however it ended.  But not
\* every one: the key of a map entry whose value could not be got stays for good.
NativesReleased ==
    /\ stage \in {"bound", "done", "failed", "closed"} => live = leaked
    /\ stage \in {"new", "bind", "bound"} => leaked = 0
    /\ stage = "closed" => adopted = 0

\* Datetimes near enough to 1970 for doubles to tell microseconds apart: up to 142 years.
Near(n) == Magnitude(n) <= 2^(Precision - 1)

\* Python values that the engine can hold and Python can read back.
Transferable[v \in Values] ==
    CASE Kind(v) \in {"int", "timedelta"} -> Fits(Content(v), Bits.INT64)
      [] Kind(v) \in {"datetime", "aware"} -> Near(Content(v))
      [] Kind(v) = "str" -> Content(v) \notin DOMAIN UpToNul
      [] Kind(v) \in {"bytes", "other"} -> FALSE
      [] IsComposite(v) ->
           /\ \A p \in ToSet(Parts(v)) : Transferable[p]
           /\ NativeKind(v) = "STRUCT" => \A key \in Keys(v) : Content(key) \notin DOMAIN UpToNul
           /\ NativeKind(v) = "MAP" => \A e \in ToSet(Entries(v)) : ~IsComposite(e[1])
      [] OTHER -> TRUE

Products(sets) == {s \in [DOMAIN sets -> UNION ToSet(sets)] : \A i \in DOMAIN sets : s[i] \in sets[i]}

\* What a value may be read as: itself, but for tuples, arrays, numpy scalars, and
\* dictionaries of keys and values; a datetime may be a microsecond nearer to 1970.
Readings[v \in Values] ==
    CASE Kind(v) = "numpy" -> {Content(v)[2]}
      [] Kind(v) \in {"datetime", "aware"} ->
           {w \in {<<Kind(v), n>> : n \in Content(v) - 1 .. Content(v) + 1} :
              Magnitude(Content(w)) <= Magnitude(Content(v))}
      [] Kind(v) \in Sequences ->
           {<<"list", s>> : s \in Products([i \in DOMAIN Content(v) |-> Readings[Content(v)[i]]])}
      [] Kind(v) = "dict" ->
           LET keys == Products([i \in DOMAIN Entries(v) |-> Readings[Entries(v)[i][1]]])
               parts == Products([i \in DOMAIN Entries(v) |-> Readings[Entries(v)[i][2]]])
           IN  {PyDict([i \in DOMAIN Entries(v) |-> <<ks[i], ps[i]>>]) : ks \in keys, ps \in parts}
      [] OTHER -> {v}

\* A property that its node or rel does not hand over, or an id, a label.
PropertyLost(n) == Kind(n) \in {"NODE", "REL"} /\ \E i \in DOMAIN Groups(n) : LostIn(Groups(n)[i]) # {}

\* A value sent as a parameter and returned by the query reads as the same value, datetimes
\* to a microsecond, and an error is the engine's.  Not covered, as the code has it: strings
\* with a NUL, integers and timedeltas of more than 64 bits, far datetimes, composite keys.
\* A node or rel of the database is not lost because a property cannot be converted.
ValuesReadBack ==
    /\ param # Absent /\ ~wraps /\ (Kind(param) = "bytes" \/ Transferable[param]) =>
         /\ stage = "done" => row \in Readings[param]
         /\ stage = "failed" => error = "refused"
    /\ param = Absent /\ stage = "failed" /\ Kind(native) \in {"NODE", "REL"} /\ ~PropertyLost(native) =>
         error # "RuntimeError"

\* The engine is left to infer the type of a NULL, of an empty list or struct, or of a
\* list of both scalars and composites.
Untyped(n) ==
    \/ Kind(n) = "NULL"
    \/ Kind(n) \in {"LIST", "STRUCT"} /\ Content(n) = <<>>
    \/ /\ Kind(n) = "LIST"
       /\ \E m \in ToSet(Content(n)) : IsNested(m)
       /\ \E m \in ToSet(Content(n)) : ~IsNested(m)

\* _contains_unresolved_json_type() looks neither at the keys of a dictionary nor into an
\* array.
Inspected[v \in Values] ==
    /\ Kind(v) # "ndarray"
    /\ IsComposite(v) => \A p \in JsonParts(v) : Inspected[p]
    /\ Kind(v) = "dict" => \A key \in Keys(v) : key # PyNone /\ ~IsComposite(key)

\* Of what a query wraps in to_json(), the engine is never left to infer a type that it
\* cannot: such a parameter has gone as JSON.  Except for a NULL or a tuple as a key, and
\* for an array in a list or dictionary.
JsonTyped ==
    wraps /\ Serializable(param) /\ Inspected[param] =>
        /\ \A i \in DOMAIN binding : \A n \in ToSet(binding[i].made) : ~Untyped(n)
        /\ stage = "bound" => ~Untyped(native)
=============================================================================
