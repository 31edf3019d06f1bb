----------------------------- MODULE FeatureStore -----------------------------
(***************************************************************************)
(* LbugFeatureStore: a property of the nodes of one table as a tensor, for *)
(* an index of node offsets, by a scan of the storage or by a query        *)
(* (torch_geometric_feature_store.py, Database._scan_node_table(),         *)
(* Connection._get_node_property_names()).                                 *)
(*                                                                         *)
(* Other connections add and delete nodes, and drop the table and create   *)
(* it with other properties, between the store's calls of the engine.  The *)
(* value of a property at an offset is the offset.                         *)
(***************************************************************************)
EXTENDS Integers, FiniteSetsExt, SequencesExt

CONSTANTS Schemas,      \* what table_info() may say: property -> its type as a record
          Indexes,      \* the indexes asked for
          MaxOffset,    \* bound on the offsets ever used
          MaxRequests   \* bound on the requests of one client

\* Slices count up from a node.
ASSUME FeatureStoreAssumption ==
    /\ MaxOffset \in Nat /\ MaxRequests \in Nat
    /\ \A index \in Indexes :
         \/ index.kind \in {"none", "open"}
         \/ index.kind = "slice" /\ index.start \in Nat /\ index.stop \in Nat /\ index.step \in Nat \ {0}
         \/ index.kind = "items" /\ index.items \in Seq(Int)

VARIABLES
    extension,  \* which extension holds the database: "capi" or "pybind"
    schema,     \* external: the properties of the table now
    present,    \* external: the offsets of its nodes
    highest,    \* external: offsets 0..highest - 1 have been given out
    cache,      \* node_properties_cache; Unknown before the first lookup
    request,    \* what _get_tensor() is in the middle of
    answer,     \* what the last request returned
    intact,     \* auxiliary: no node was deleted and no table dropped
    requests    \* auxiliary: requests begun

databaseVars == <<extension, schema, present, highest, intact>>
featureVars == <<databaseVars, cache, request, answer, requests>>

Unknown == [x \in {} |-> 0]
NoRequest == [step |-> "none"]
NoAnswer == [kind |-> "none"]
AttrNames == UNION {DOMAIN s : s \in Schemas}

FeatureInit ==
    /\ extension \in {"capi", "pybind"} /\ schema \in Schemas
    /\ highest \in 0..MaxOffset /\ present = 0..(highest - 1)
    /\ cache = Unknown /\ request = NoRequest /\ answer = NoAnswer
    /\ intact = TRUE /\ requests = 0

-----------------------------------------------------------------------------
(* What other connections do.                                              *)

AddNode ==
    /\ highest < MaxOffset
    /\ present' = present \cup {highest} /\ highest' = highest + 1
    /\ UNCHANGED <<extension, schema, intact, cache, request, answer, requests>>

DeleteNode(offset) ==
    /\ offset \in present
    /\ present' = present \ {offset} /\ intact' = FALSE
    /\ UNCHANGED <<extension, schema, highest, cache, request, answer, requests>>

DropAndCreate(other) ==
    /\ other # schema
    /\ schema' = other /\ present' = {} /\ highest' = 0 /\ intact' = FALSE
    /\ UNCHANGED <<extension, cache, request, answer, requests>>

-----------------------------------------------------------------------------
(* The store.                                                              *)

Fixed(info) == info.dimension = 0 \/ info.shape # <<>>
Scannable(info) == info.type \in {"INT64", "INT32", "INT16", "DOUBLE", "FLOAT", "BOOL"} /\ Fixed(info)

Begin(attr, index, step) ==
    /\ request = NoRequest /\ requests < MaxRequests
    /\ request' = [step |-> step, attr |-> attr, index |-> index, size |-> -1, before |-> present]
    /\ requests' = requests + 1 /\ answer' = NoAnswer
    /\ UNCHANGED <<databaseVars, cache>>

\* _get_tensor()
GetTensor(attr, index) == Begin(attr, index, "lookup")
\* _get_tensor_size()
GetTensorSize(attr) == Begin(attr, [kind |-> "none"], "count")

Answer(a) == request' = NoRequest /\ answer' = a
Error(what) == Answer([kind |-> "error", what |-> what])

\* __get_node_property(): what is cached is not asked for again.
LookUp ==
    /\ request.step \in {"lookup", "shape"}
    /\ cache' = IF cache = Unknown THEN schema ELSE cache
    /\ CASE request.attr \notin DOMAIN cache' -> Error("not found")
         [] request.step = "shape" /\ ~Fixed(cache'[request.attr]) -> Error("KeyError")
         [] request.step = "shape" /\ Fixed(cache'[request.attr]) ->
              Answer([kind |-> "size", length |-> request.size, shape |-> cache'[request.attr].shape])
         [] OTHER ->
              /\ request' = [request EXCEPT !.step =
                               IF ~Scannable(cache'[request.attr]) THEN "query"
                               ELSE IF request.index.kind = "none" THEN "countScan" ELSE "scan"]
              /\ UNCHANGED answer
    /\ UNCHANGED <<databaseVars, requests>>

\* MATCH (item:table) RETURN count(item), for a request of the size or a scan of everything.
CountNodes ==
    /\ request.step \in {"count", "countScan"}
    /\ request' = [request EXCEPT !.size = Cardinality(present),
                                  !.step = IF @ = "count" THEN "shape" ELSE "scan"]
    /\ UNCHANGED <<databaseVars, cache, answer, requests>>

\* numpy.arange()
Arange(start, stop, step) ==
    [k \in 1..(IF stop > start THEN (stop - start + step - 1) \div step ELSE 0) |-> start + (k - 1) * step]

Offsets ==
    LET index == request.index
    IN  CASE index.kind = "none" -> Arange(0, request.size, 1)
          [] index.kind = "slice" -> Arange(index.start, index.stop, index.step)
          [] OTHER -> index.items

\* __get_tensor_by_scan(): _scan_node_table() has no branch for BOOL, the C API no scan.
FailScan ==
    /\ request.step = "scan"
    /\ LET info == cache[request.attr]
       IN  CASE request.index.kind = "open" -> Error("TypeError")
             [] info.dimension > Len(info.shape) -> Error("IndexError")
             [] info.type = "BOOL" -> Error("ValueError")
             [] OTHER -> extension = "capi" /\ Error("NotImplementedError")
    /\ UNCHANGED <<databaseVars, cache, requests>>

\* Offsets that no node has give whatever the storage holds there.
ScanTable ==
    /\ request.step = "scan" /\ extension = "pybind" /\ request.index.kind # "open"
    /\ LET info == cache[request.attr]
       IN  /\ info.dimension <= Len(info.shape) /\ info.type # "BOOL"
           /\ Answer([kind |-> "tensor", how |-> "scan", of |-> request, after |-> present,
                      items |-> [k \in DOMAIN Offsets |-> IF Offsets[k] \in present THEN Offsets[k] ELSE -1],
                      shape |-> info.shape])
    /\ UNCHANGED <<databaseVars, cache, requests>>

\* The WHERE clause of __get_tensor_by_query().
Matches(offset, index) ==
    CASE index.kind = "none" -> TRUE
      [] index.kind = "slice" ->
           offset >= index.start /\ offset < index.stop /\ (offset - index.start) % index.step = 0
      [] OTHER -> offset \in ToSet(index.items)

\* The bounds of an open slice are None in the query, an empty list leaves "WH": both are
\* refused.
FailQuery ==
    /\ request.step = "query"
    /\ request.index.kind = "open" \/ (request.index.kind = "items" /\ request.index.items = <<>>)
    /\ Error("query")
    /\ UNCHANGED <<databaseVars, cache, requests>>

\* Nothing orders the rows.
Query ==
    /\ request.step = "query" /\ request.index.kind # "open"
    /\ request.index.kind = "items" => request.index.items # <<>>
    /\ IF request.attr \in DOMAIN schema
       THEN \E found \in SetToSeqs({o \in present : Matches(o, request.index)}) :
              Answer([kind |-> "tensor", how |-> "query", of |-> request, after |-> present,
                      items |-> found, shape |-> <<>>])
       ELSE Error("query")
    /\ UNCHANGED <<databaseVars, cache, requests>>

\* get_all_tensor_attrs()
AllTensorAttrs ==
    /\ request = NoRequest /\ requests < MaxRequests
    /\ cache' = IF cache = Unknown THEN schema ELSE cache
    /\ answer' = [kind |-> "attrs", attrs |-> {a \in DOMAIN cache' : Scannable(cache'[a])}]
    /\ requests' = requests + 1
    /\ UNCHANGED <<databaseVars, request>>

FeatureNext ==
    \/ AddNode \/ \E offset \in 0..(MaxOffset - 1) : DeleteNode(offset)
    \/ \E other \in Schemas : DropAndCreate(other)
    \/ \E attr \in AttrNames : GetTensorSize(attr) \/ \E index \in Indexes : GetTensor(attr, index)
    \/ LookUp \/ CountNodes \/ FailScan \/ ScanTable \/ FailQuery \/ Query \/ AllTensorAttrs

FeatureSpec == FeatureInit /\ [][FeatureNext]_featureVars

-----------------------------------------------------------------------------
(* Properties.                                                             *)

FeatureTypeOK ==
    /\ present \subseteq 0..(highest - 1) /\ highest \in 0..MaxOffset
    /\ cache \in Schemas \cup {Unknown} /\ requests \in 0..MaxRequests
    /\ answer.kind \in {"none", "error", "size", "tensor", "attrs"}

\* The offsets that an index means of a table of n nodes.
Meant(index, n) ==
    CASE index.kind = "none" -> 0..(n - 1)
      [] index.kind = "slice" -> {index.start + k * index.step : k \in 0..n} \cap 0..(index.stop - 1)
      [] OTHER -> ToSet(index.items)

\* Whether the table is scanned or queried, the tensor has the value of every node that the
\* index means and of no other, and a scan has them in the order of the index; as long as
\* it means nodes of the table and none was deleted.  What is added meanwhile may be in it.
IndexPathsAgree ==
    answer.kind = "tensor" /\ intact =>
        LET index == answer.of.index  items == answer.items
            n == Cardinality(answer.of.before)
        IN  Meant(index, n) \subseteq answer.of.before =>
            /\ Meant(index, n) \subseteq ToSet(items)
            /\ ToSet(items) \subseteq Meant(index, Cardinality(answer.after))
            /\ answer.how = "query" => IsInjective(items)
            /\ answer.how = "scan" =>
                 IF index.kind = "items" THEN items = index.items
                 ELSE \A k \in 1..(Len(items) - 1) : items[k] < items[k + 1]
=============================================================================
