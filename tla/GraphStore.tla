------------------------------ MODULE GraphStore ------------------------------
(***************************************************************************)
(* LbugGraphStore: edge indexes by edge type, layout and sortedness; those *)
(* of the database are exported when they are first asked for, in batches  *)
(* of destination nodes (torch_geometric_graph_store.py,                   *)
(* PyConnection::getAllEdgesForTorchGeometric(), pybind only).             *)
(*                                                                         *)
(* One client; other connections insert and delete rels and nodes at any   *)
(* step.  A rel is a pair of offsets, an index that the client puts has    *)
(* its key and the number of the call that put it.                         *)
(***************************************************************************)
EXTENDS Integers, FiniteSetsExt, SequencesExt

CONSTANTS EdgeTypes,   \* triples of a source label, a rel table and a destination label
          MaxNodes,    \* bound on the nodes that a label ever has
          MaxRels,     \* bound on the rels that a table ever has
          BatchSize,   \* REL_BATCH_SIZE, scaled from a million
          MaxStoreCalls     \* bound on the calls of the client

ASSUME GraphStoreAssumption ==
    MaxNodes \in Nat /\ MaxRels \in Nat /\ BatchSize \in Nat \ {0} /\ MaxStoreCalls \in Nat

VARIABLES
    numNodes,   \* external: offsets 0..numNodes - 1 of every label have been given out
    goneNodes,  \* external: those of nodes that are deleted
    stored,     \* external: edge type -> its rels, in the order of insertion
    goneRels,   \* external: edge type -> how many of its rels are deleted
    threads,    \* "one" or "all": the threads that a statement of the connection may use
    store,      \* key -> Rel
    attr,       \* the EdgeAttr that the client holds, which it may use again
    export,     \* what __get_edge_coo_from_database() is in the middle of
    got,        \* what the last call returned
    asked,      \* auxiliary: the key that the last call asked for, if it was a get
    latest,     \* auxiliary: key -> the index put last and not removed
    disturbed,  \* auxiliary: edge types whose rels may have changed since the last export began
    storeCalls  \* auxiliary: calls begun

externalVars == <<numNodes, goneNodes, stored, goneRels>>
auxiliaryVars == <<asked, latest>>
graphStoreVars ==
    <<externalVars, threads, store, attr, export, got, auxiliaryVars, disturbed, storeCalls>>

NoIndex == <<"none">>
NoExport == [step |-> "none"]
NoKey == <<>>
Key(a) == <<a.type, a.layout, a.sorted>>
Attrs == [type : EdgeTypes, layout : {"coo", "csr"}, sorted : BOOLEAN]
\* The size is only passed on.
Rel(materialized, index) == [materialized |-> materialized, index |-> index]

\* _get_rel_table_names() and __populate_edge_attrs(): every table as sorted COO.
GraphStoreInit ==
    /\ numNodes \in 1..MaxNodes
    /\ stored \in [EdgeTypes -> {<<>>} \cup {<<e>> : e \in (0..(numNodes - 1)) \X (0..(numNodes - 1))}]
    /\ goneNodes = {} /\ goneRels = [t \in EdgeTypes |-> 0]
    /\ threads = "all" /\ asked = NoKey /\ latest = [k \in {} |-> NoIndex]
    /\ store = [k \in {<<t, "coo", TRUE>> : t \in EdgeTypes} |-> Rel(FALSE, NoIndex)]
    /\ attr \in [type : EdgeTypes, layout : {"coo"}, sorted : BOOLEAN]
    /\ export = NoExport /\ got = NoIndex /\ disturbed = EdgeTypes /\ storeCalls = 0

-----------------------------------------------------------------------------
(* What other connections do.                                              *)

Present == (0..(numNodes - 1)) \ goneNodes

InsertRel(type, a, b) ==
    /\ Len(stored[type]) + goneRels[type] < MaxRels /\ {a, b} \subseteq Present
    /\ stored' = [stored EXCEPT ![type] = Append(@, <<a, b>>)]
    /\ disturbed' = disturbed \cup {type}
    /\ UNCHANGED <<numNodes, goneNodes, goneRels, threads, store, attr, export, got,
                   auxiliaryVars, storeCalls>>

DeleteRel(type, place) ==
    /\ place \in DOMAIN stored[type]
    /\ stored' = [stored EXCEPT ![type] = RemoveAt(@, place)]
    /\ goneRels' = [goneRels EXCEPT ![type] = @ + 1]
    /\ disturbed' = disturbed \cup {type}
    /\ UNCHANGED <<numNodes, goneNodes, threads, store, attr, export, got,
                   auxiliaryVars, storeCalls>>

InsertNode ==
    /\ numNodes < MaxNodes
    /\ numNodes' = numNodes + 1
    /\ UNCHANGED <<goneNodes, stored, goneRels, threads, store, attr, export, got,
                   auxiliaryVars, disturbed, storeCalls>>

\* DELETE takes a node without rels.
DeleteLoneNode(offset) ==
    /\ offset \in Present
    /\ \A type \in EdgeTypes, i \in 1..MaxRels : i \in DOMAIN stored[type] =>
         stored[type][i][1] # offset /\ stored[type][i][2] # offset
    /\ goneNodes' = goneNodes \cup {offset}
    /\ UNCHANGED <<numNodes, stored, goneRels, threads, store, attr, export, got,
                   auxiliaryVars, disturbed, storeCalls>>

-----------------------------------------------------------------------------
(* The client.                                                             *)

Unoccupied == export = NoExport /\ storeCalls < MaxStoreCalls
Called == storeCalls' = storeCalls + 1

\* A new one, or one of get_all_edge_attrs().
MakeAttr(a) ==
    /\ Unoccupied /\ a # attr
    /\ attr' = a
    /\ Called /\ UNCHANGED <<externalVars, threads, store, export, got, auxiliaryVars, disturbed>>

PutIndex(materialized) ==
    LET index == <<"put", Key(attr), storeCalls>>
        With(f, value) == [k \in DOMAIN f \cup {Key(attr)} |-> IF k = Key(attr) THEN value ELSE f[k]]
    IN  /\ store' = With(store, Rel(materialized, index))
        /\ latest' = With(latest, index) /\ asked' = NoKey

\* Put over an entry that keeps its flag: a get would export over the index.
PutEdgeIndexUnmarked ==
    /\ Unoccupied
    /\ PutIndex(Key(attr) \in DOMAIN store => store[Key(attr)].materialized)
    /\ got' = NoIndex
    /\ Called /\ UNCHANGED <<externalVars, threads, attr, export, disturbed>>

\* _put_edge_index()
PutEdgeIndex ==
    /\ Unoccupied
    /\ PutIndex(TRUE)
    /\ got' = NoIndex
    /\ Called /\ UNCHANGED <<externalVars, threads, attr, export, disturbed>>

\* _remove_edge_index()
RemoveEdgeIndex ==
    /\ Unoccupied /\ Key(attr) \in DOMAIN store
    /\ store' = [k \in DOMAIN store \ {Key(attr)} |-> store[k]]
    /\ latest' = [k \in DOMAIN latest \ {Key(attr)} |-> latest[k]] /\ asked' = NoKey
    /\ got' = NoIndex
    /\ Called /\ UNCHANGED <<externalVars, threads, attr, export, disturbed>>

\* _get_edge_index(): a request for an unsorted COO index is one for the sorted one, and
\* the client's attr says so from then on.
Wanted == [attr EXCEPT !.sorted = @ \/ attr.layout = "coo"]

GetEdgeIndex ==
    /\ Unoccupied
    /\ attr' = Wanted
    /\ IF Key(Wanted) \in DOMAIN store /\ ~store[Key(Wanted)].materialized
       THEN export' = [step |-> "count", type |-> attr.type] /\ got' = NoIndex
       ELSE /\ UNCHANGED export
            /\ got' = IF Key(Wanted) \in DOMAIN store THEN store[Key(Wanted)].index ELSE <<"KeyError">>
    /\ asked' = Key(attr)
    /\ Called /\ UNCHANGED <<externalVars, threads, store, latest, disturbed>>

\* The engine's counts, with what is deleted or without: the code relies on neither.
NodeCounts == {numNodes, numNodes - Cardinality(goneNodes)}
RelCounts(type) == {Len(stored[type]), Len(stored[type]) + goneRels[type]}

\* get_num_rels() for the array, uninitialized, of twice as many numbers.
CountRels ==
    /\ export.step = "count"
    /\ \E num \in RelCounts(export.type) :
         export' = [step |-> "counted", type |-> export.type, num |-> num]
    /\ disturbed' = disturbed \ {export.type}
    /\ UNCHANGED <<externalVars, threads, store, attr, got, auxiliaryVars, storeCalls>>

\* The native call counts again: nodes for the batches, rels for where the second half
\* starts.  It has its statements use one thread.
BeginExport ==
    /\ export.step = "counted"
    /\ \E nodes \in NodeCounts, half \in RelCounts(export.type) :
         export' = [step |-> "batches", type |-> export.type, num |-> export.num,
                    nodes |-> nodes, half |-> half, batch |-> 0,
                    filled |-> 0, array |-> [x \in {} |-> 0], before |-> threads]
    /\ threads' = "one"
    /\ UNCHANGED <<externalVars, store, attr, got, auxiliaryVars, disturbed, storeCalls>>

Batches == (export.nodes + BatchSize - 1) \div BatchSize

\* values in the places after at, over what is there.
WrittenAt(array, at, values) ==
    LET places == (at + 1)..(at + Len(values))
    IN  [p \in DOMAIN array \cup places |-> IF p \in places THEN values[p - at] ELSE array[p]]

\* Rels of one batch, in the engine's order, into both halves.
Batch ==
    /\ export.step = "batches" /\ export.batch < Batches
    /\ LET first == export.batch * BatchSize
           end == Min({first + BatchSize, export.nodes})
           rels == stored[export.type]
           found == {i \in DOMAIN rels : rels[i][2] \in first..(end - 1)}
       IN  \E order \in SetToSeqs(found) :
             LET End(side) == [i \in DOMAIN order |-> rels[order[i]][side]]
                 targets == WrittenAt(export.array, export.half + export.filled, End(2))
             IN  export' = [export EXCEPT !.batch = @ + 1, !.filled = @ + Len(order),
                                          !.array = WrittenAt(targets, export.filled, End(1))]
    /\ UNCHANGED <<externalVars, threads, store, attr, got, auxiliaryVars, disturbed, storeCalls>>

\* The array in two rows; a place that nothing was written to holds anything (-1 here),
\* what is written past its end is not in it.
EndExport ==
    /\ export.step = "batches" /\ export.batch = Batches
    /\ LET At(p) == IF p \in DOMAIN export.array THEN export.array[p] ELSE -1
           index == <<"database", [k \in 1..export.num |-> <<At(k), At(export.num + k)>>]>>
       IN  /\ store' = [store EXCEPT ![Key(attr)] = Rel(TRUE, index)]
           /\ got' = index
    /\ export' = NoExport /\ threads' = export.before
    /\ UNCHANGED <<externalVars, attr, auxiliaryVars, disturbed, storeCalls>>

\* A count or a batch fails (the table is dropped, an interrupt): the entry stays as it is,
\* to be exported by the next get, and the connection with one thread.
ExportFails ==
    /\ export.step \in {"count", "counted", "batches"}
    /\ export.step = "batches" => export.batch < Batches
    /\ export' = NoExport /\ got' = <<"RuntimeError">>
    /\ UNCHANGED <<externalVars, threads, store, attr, auxiliaryVars, disturbed, storeCalls>>

GraphStoreNext ==
    \/ InsertNode
    \/ \E offset \in 0..(MaxNodes - 1) : DeleteLoneNode(offset)
    \/ \E type \in EdgeTypes, a, b \in 0..(MaxNodes - 1) : InsertRel(type, a, b)
    \/ \E type \in EdgeTypes, place \in 1..MaxRels : DeleteRel(type, place)
    \/ \E a \in Attrs : MakeAttr(a)
    \/ PutEdgeIndex \/ RemoveEdgeIndex \/ GetEdgeIndex
    \/ CountRels \/ BeginExport \/ Batch \/ EndExport \/ ExportFails

GraphStoreSpec == GraphStoreInit /\ [][GraphStoreNext]_graphStoreVars

-----------------------------------------------------------------------------
(* Properties.                                                             *)

GraphStoreTypeOK ==
    /\ numNodes \in 1..MaxNodes /\ storeCalls \in 0..MaxStoreCalls /\ disturbed \subseteq EdgeTypes
    /\ goneNodes \subseteq 0..(numNodes - 1) /\ threads \in {"one", "all"}
    /\ attr \in Attrs /\ DOMAIN store \subseteq {Key(a) : a \in Attrs}
    /\ \A k \in DOMAIN store : store[k].materialized \in BOOLEAN

\* A get returns what the client put last under the key, until it is removed: neither the
\* database's edges nor an index of before replace it.  Open: a get of an unsorted COO
\* index is answered with the sorted one, so that one that was put is not found
\* (torch_geometric_graph_store.py:64).
PutIndexStays ==
    /\ \A k \in DOMAIN latest : k \in DOMAIN store /\ store[k] = Rel(TRUE, latest[k])
    /\ asked \in DOMAIN latest => got = latest[asked] \/ (asked[2] = "coo" /\ ~asked[3])
    /\ got[1] = "put" =>
         /\ got[2] \in DOMAIN latest /\ got = latest[got[2]]
         /\ got[2] = asked \/ got[2] = <<asked[1], "coo", TRUE>>
    /\ \A k \in DOMAIN store : store[k].materialized <=> store[k].index # NoIndex

\* An index of the database, if nothing was inserted or deleted from the count on, has
\* every rel of the table once, and those of an earlier batch of destinations first.  Open:
\* once something was deleted the counts that the export goes by, which it takes for the
\* highest offset and for the length, may be off (py_connection.cpp:386).
EdgesComplete ==
    \A k \in DOMAIN store :
        /\ store[k].index[1] = "database" /\ k[1] \notin disturbed
        /\ goneNodes = {} /\ goneRels[k[1]] = 0
        => LET index == store[k].index[2]  rels == stored[k[1]]
           IN  /\ Len(index) = Len(rels)
               /\ \A e \in ToSet(index) \cup ToSet(rels) :
                    Cardinality({i \in DOMAIN index : index[i] = e}) = Cardinality({i \in DOMAIN rels : rels[i] = e})
               /\ \A i, j \in DOMAIN index : i < j =>
                    index[i][2] \div BatchSize <= index[j][2] \div BatchSize
=============================================================================
