------------------------------ MODULE GraphExport ------------------------------
(***************************************************************************)
(* get_as_networkx() and get_as_torch_geometric(): the nodes and rels of a *)
(* result, each taken once however many rows hold it, as a graph           *)
(* (query_result.py, torch_geometric_result_converter.py).                 *)
(*                                                                         *)
(* A node of a result is [kind |-> "node", label, offset, pk, values]; a   *)
(* property has a value of a class that the converter tells apart: it is   *)
(* null, a scalar, a list of some length or a ragged list.  What is stored *)
(* of a property is <<node, class>>, so that misplaced values show.        *)
(***************************************************************************)
EXTENDS Integers, FiniteSetsExt, SequencesExt

CONSTANTS Results,  \* results: columns and rows
          Schema    \* label -> its properties, with type and dimension

Internal(node) == <<node.label, node.offset>>
\* encode_node_id()
Name(node) == node.label \o "_" \o node.pk

CellsIn(r, kind) == {c \in UNION {ToSet(r.rows[i]) : i \in DOMAIN r.rows} : c.kind = kind}
NodesIn(r) == CellsIn(r, "node") \cup UNION {ToSet(path.nodes) : path \in CellsIn(r, "path")}
RelsIn(r) == CellsIn(r, "rel") \cup UNION {ToSet(path.rels) : path \in CellsIn(r, "path")}

\* The kinds of cells in a column of a type; OPTIONAL MATCH gives null.
KindsIn(type) ==
    {"null", CASE type = "NODE" -> "node"
               [] type = "REL" -> "rel"
               [] type = "RECURSIVE_REL" -> "path"
               [] OTHER -> "other"}

\* What results are like: cells are of their column's kind; a node has one primary key and
\* a rel one pair of ends wherever it is; a node by itself is the same in every row.
ASSUME GraphExportAssumption ==
    /\ \A label \in DOMAIN Schema :
         LET properties == Schema[label]
         IN  /\ properties \in Seq([name : STRING, type : STRING, dimension : Nat]) \ {<<>>}
             /\ \A i, j \in DOMAIN properties : properties[i].name = properties[j].name => i = j
    /\ \A r \in Results :
         /\ r.columns \in Seq(STRING) \ {<<>>} /\ r.rows \in Seq(ToSet(r.rows))
         /\ \A i \in DOMAIN r.rows :
              /\ DOMAIN r.rows[i] = DOMAIN r.columns
              /\ \A c \in DOMAIN r.columns : r.rows[i][c].kind \in KindsIn(r.columns[c])
         /\ \A path \in CellsIn(r, "path") :
              path.nodes \in Seq(NodesIn(r)) /\ path.rels \in Seq(RelsIn(r))
         /\ \A m, n \in NodesIn(r) : Internal(m) = Internal(n) => Name(m) = Name(n)
         /\ \A m, n \in CellsIn(r, "node") :
              m.label \in DOMAIN Schema /\ (Internal(m) = Internal(n) => m = n)
         /\ \A s, t \in RelsIn(r) : s.id = t.id => s.src = t.src /\ s.dst = t.dst

VARIABLES
    target,         \* "networkx" or "torch"
    result,
    dictRows,       \* rows come as dictionaries
    phase,          \* which loop
    rowIndex, col, prop, \* where the loops are
    pos,            \* of the node whose properties are being taken
    nodesDict,      \* <<label, property>> -> values that will be a tensor
    unconverted,    \* <<label, property>> -> values that will not
    position,       \* internal_id_to_pos_dict
    primaryKeys,    \* pos_to_primary_key_dict: <<label, pos>> -> primary key
    nodes,          \* networkx: internal id -> node
    rels,           \* rels taken, in the order of their first row
    edges,          \* <<source label, target label>> -> pairs of positions
    edgeProps,      \* edge_properties: labels and property -> values
    graph           \* what is returned

torchVars == <<pos, nodesDict, unconverted, position, primaryKeys, edges, edgeProps>>
graphVars == <<target, result, dictRows, phase, rowIndex, col, prop, torchVars, nodes, rels, graph>>

Empty == [x \in {} |-> 0]
Labels == DOMAIN Schema
NoGraph == <<"none">>

Set(f, x, value) == [y \in DOMAIN f \cup {x} |-> IF y = x THEN value ELSE f[y]]
ListAt(f, x) == IF x \in DOMAIN f THEN f[x] ELSE <<>>
Added(f, xs, value) ==
    [y \in DOMAIN f \cup xs |-> IF y \in xs THEN Append(ListAt(f, y), value) ELSE f[y]]
Without(f, x) == [y \in DOMAIN f \ {x} |-> f[y]]

Rows == result.rows
\* _get_properties_to_extract()
IsGraphColumn(c) == result.columns[c] \in {"NODE", "REL", "RECURSIVE_REL"}
Cell == Rows[rowIndex][col]
Node == Cell
Property == Schema[Node.label][prop]
Column == <<Node.label, Property.name>>
Value == Node.values[Property.name]

GraphInit ==
    /\ target \in {"networkx", "torch"} /\ result \in Results /\ dictRows \in BOOLEAN
    /\ phase = "rows" /\ rowIndex = 1 /\ col = 1 /\ prop = 0
    /\ pos = -1 /\ nodesDict = Empty /\ unconverted = Empty
    /\ position = Empty /\ primaryKeys = Empty
    /\ nodes = Empty /\ rels = <<>> /\ edges = Empty /\ edgeProps = Empty
    /\ graph = NoGraph

Constant == UNCHANGED <<target, result, dictRows>>
NextCell == IF col < Len(result.columns) THEN col' = col + 1 /\ rowIndex' = rowIndex ELSE col' = 1 /\ rowIndex' = rowIndex + 1
AtCell(columnType) ==
    /\ phase = "rows" /\ rowIndex <= Len(Rows) /\ prop = 0 /\ ~dictRows
    /\ result.columns[col] = columnType
FailExport(error) ==
    /\ phase' = "failed" /\ graph' = <<error>>
    /\ UNCHANGED <<target, result, dictRows, rowIndex, col, prop, torchVars, nodes, rels>>

-----------------------------------------------------------------------------
(* The loop over rows and columns.                                         *)

OtherCell ==
    /\ phase = "rows" /\ rowIndex <= Len(Rows)
    /\ ~IsGraphColumn(col) \/ (result.columns[col] = "RECURSIVE_REL" /\ target = "torch")
    /\ NextCell
    /\ UNCHANGED <<target, result, dictRows, phase, prop, torchVars, nodes, rels, graph>>

\* row[i] of a row that is a dictionary: KeyError.
DictRow ==
    /\ phase = "rows" /\ rowIndex <= Len(Rows) /\ dictRows /\ IsGraphColumn(col)
    /\ result.columns[col] = "RECURSIVE_REL" => target = "networkx"
    /\ FailExport("KeyError")

\* OPTIONAL MATCH: networkx leaves it out, torch subscripts None.
SkipNull ==
    /\ \E type \in {"NODE", "REL", "RECURSIVE_REL"} : AtCell(type)
    /\ target = "networkx" /\ Cell.kind = "null"
    /\ NextCell
    /\ UNCHANGED <<target, result, dictRows, phase, prop, torchVars, nodes, rels, graph>>

FailNull ==
    /\ AtCell("NODE") \/ AtCell("REL")
    /\ target = "torch" /\ Cell.kind = "null"
    /\ FailExport("TypeError")

RowsDone ==
    /\ phase = "rows" /\ rowIndex > Len(Rows)
    /\ phase' = "rels" /\ rowIndex' = 1
    /\ UNCHANGED <<target, result, dictRows, col, prop, torchVars, nodes, rels, graph>>

-----------------------------------------------------------------------------
(* networkx.                                                               *)

\* rels is a dictionary too: a rel met again replaces the earlier one in its place.
PutRel(taken, same, rel) ==
    IF same = {} THEN Append(taken, rel)
    ELSE [i \in DOMAIN taken |-> IF i \in same THEN rel ELSE taken[i]]
ById(taken, rel) == PutRel(taken, {i \in DOMAIN taken : taken[i].id = rel.id}, rel)
ByEnds(taken, rel) ==
    PutRel(taken, {i \in DOMAIN taken : taken[i].src = rel.src /\ taken[i].dst = rel.dst}, rel)

\* nodes is a dictionary as well, of which the last entry with an id counts.
PutNodes(taken, met) ==
    [id \in DOMAIN taken \cup {Internal(met[i]) : i \in DOMAIN met} |->
       LET same == {i \in DOMAIN met : Internal(met[i]) = id}
       IN  IF same = {} THEN taken[id] ELSE met[Max(same)]]

TakeNxNode ==
    /\ target = "networkx" /\ AtCell("NODE") /\ Cell.kind = "node"
    /\ nodes' = PutNodes(nodes, <<Node>>)
    /\ NextCell /\ Constant
    /\ UNCHANGED <<phase, prop, torchVars, rels, graph>>

TakeNxRel ==
    /\ target = "networkx" /\ AtCell("REL") /\ Cell.kind = "rel"
    /\ rels' = ById(rels, Cell)
    /\ NextCell /\ Constant
    /\ UNCHANGED <<phase, prop, torchVars, nodes, graph>>

TakePath ==
    /\ target = "networkx" /\ AtCell("RECURSIVE_REL") /\ Cell.kind = "path"
    /\ nodes' = PutNodes(nodes, Cell.nodes)
    /\ LET taken[k \in 0..Len(Cell.rels)] ==
              IF k = 0 THEN rels ELSE ById(taken[k - 1], Cell.rels[k])
       IN  rels' = taken[Len(Cell.rels)]
    /\ NextCell /\ Constant
    /\ UNCHANGED <<phase, prop, torchVars, graph>>

\* add_node() and add_edge(); a rel whose ends are not in the result: KeyError.
NxGraph ==
    /\ target = "networkx" /\ phase = "rels"
    /\ \A i \in DOMAIN rels : {rels[i].src, rels[i].dst} \subseteq DOMAIN nodes
    /\ graph' = <<"graph", {Name(nodes[id]) : id \in DOMAIN nodes},
                  [i \in DOMAIN rels |->
                     <<Name(nodes[rels[i].src]), Name(nodes[rels[i].dst]), rels[i]>>]>>
    /\ phase' = "done" /\ Constant
    /\ UNCHANGED <<rowIndex, col, prop, torchVars, nodes, rels>>

NxEndMissing ==
    /\ target = "networkx" /\ phase = "rels"
    /\ \E i \in DOMAIN rels : ~({rels[i].src, rels[i].dst} \subseteq DOMAIN nodes)
    /\ FailExport("KeyError")

-----------------------------------------------------------------------------
(* torch_geometric: nodes.                                                 *)

SeenNode ==
    /\ target = "torch" /\ AtCell("NODE") /\ Cell.kind = "node"
    /\ Internal(Node) \in DOMAIN position
    /\ NextCell /\ Constant
    /\ UNCHANGED <<phase, prop, torchVars, nodes, rels, graph>>

NewNode ==
    /\ target = "torch" /\ AtCell("NODE") /\ Cell.kind = "node"
    /\ Internal(Node) \notin DOMAIN position
    /\ prop' = 1 /\ pos' = -1 /\ Constant
    /\ UNCHANGED <<phase, rowIndex, col, nodesDict, unconverted, position, primaryKeys, edges,
                   edgeProps, nodes, rels, graph>>

AtProperty == phase = "rows" /\ prop > 0 /\ prop <= Len(Schema[Node.label])
NextProperty ==
    /\ prop' = prop + 1 /\ Constant
    /\ UNCHANGED <<phase, rowIndex, col, position, primaryKeys, edges, edgeProps, nodes, rels, graph>>
Kept == <<Internal(Node), Value>>

Unsuitable ==
    \/ Property.type \notin {"INT64", "DOUBLE", "BOOL"} \/ Value = "null"
    \/ Property.dimension > 0 /\
         \/ Value = "ragged"
         \/ Column \in DOMAIN nodesDict /\ nodesDict[Column][1][2] # Value

\* They stay, and the property counts as converted too.
MarkUnconvertedKeeping ==
    /\ unconverted' = Set(unconverted, Column, Append(ListAt(nodesDict, Column), Kept))
    /\ UNCHANGED nodesDict

\* The values of earlier nodes are lost.
MarkUnconvertedAfresh ==
    /\ unconverted' = Set(unconverted, Column, <<Kept>>)
    /\ nodesDict' = Without(nodesDict, Column)

\* __mark_property_unconverted() moves the values of earlier nodes; this one's follows.
MarkUnconverted ==
    /\ unconverted' = Set(unconverted, Column, Append(ListAt(nodesDict, Column), Kept))
    /\ nodesDict' = Without(nodesDict, Column)

AlreadyUnconverted ==
    /\ AtProperty /\ Column \in DOMAIN unconverted
    /\ unconverted' = Added(unconverted, {Column}, Kept)
    /\ pos' = Len(unconverted[Column])
    /\ UNCHANGED nodesDict /\ NextProperty

Unconvertible ==
    /\ AtProperty /\ Column \notin DOMAIN unconverted /\ Unsuitable
    /\ MarkUnconverted
    /\ pos' = Len(unconverted'[Column]) - 1
    /\ NextProperty

Convertible ==
    /\ AtProperty /\ Column \notin DOMAIN unconverted /\ ~Unsuitable
    /\ nodesDict' = Added(nodesDict, {Column}, Kept)
    /\ pos' = Len(nodesDict'[Column]) - 1
    /\ UNCHANGED unconverted /\ NextProperty

EndNode ==
    /\ phase = "rows" /\ prop > 0 /\ prop > Len(Schema[Node.label])
    /\ position' = Set(position, Internal(Node), pos)
    /\ primaryKeys' = Set(primaryKeys, <<Node.label, pos>>, Node.pk)
    /\ prop' = 0
    /\ NextCell /\ Constant
    /\ UNCHANGED <<phase, pos, nodesDict, unconverted, edges, edgeProps, nodes, rels, graph>>

-----------------------------------------------------------------------------
(* torch_geometric: rels.                                                  *)

\* A second rel between two nodes replaces the first.
TakeRel ==
    /\ target = "torch" /\ AtCell("REL") /\ Cell.kind = "rel"
    /\ rels' = ByEnds(rels, Cell)
    /\ NextCell /\ Constant
    /\ UNCHANGED <<phase, prop, torchVars, nodes, graph>>

PairOf(rel) == <<rel.src[1], rel.dst[1]>>
NextRel == rels[rowIndex]
Pair == PairOf(NextRel)

AddEdge ==
    /\ target = "torch" /\ phase = "rels" /\ rowIndex <= Len(rels)
    /\ {NextRel.src, NextRel.dst} \subseteq DOMAIN position
    /\ edges' = Added(edges, {Pair}, <<position[NextRel.src], position[NextRel.dst]>>)
    /\ edgeProps' = Added(edgeProps, {<<Pair, name>> : name \in NextRel.props}, NextRel.id)
    /\ rowIndex' = rowIndex + 1 /\ Constant
    /\ UNCHANGED <<phase, col, prop, pos, nodesDict, unconverted, position, primaryKeys, nodes,
                   rels, graph>>

EndMissing ==
    /\ target = "torch" /\ phase = "rels" /\ rowIndex <= Len(rels)
    /\ ~({NextRel.src, NextRel.dst} \subseteq DOMAIN position)
    /\ FailExport("KeyError")

LabelsOf(f) == {column[1] : column \in DOMAIN f}

\* The key of a dictionary filled in the order of a sequence that comes last.
LastMet(keys) == keys[Max({i \in DOMAIN keys : \A j \in 1..(i - 1) : keys[j] # keys[i]})]
LastPair ==
    LET source == LastMet([i \in DOMAIN rels |-> rels[i].src[1]])
    IN  LastMet([i \in DOMAIN rels |->
                   IF rels[i].src[1] = source THEN PairOf(rels[i]) ELSE PairOf(rels[1])])

Part(f, keys) == [x \in DOMAIN f \cap keys |-> f[x]]
At(f, label) == Part(f, {x \in DOMAIN f : x[1] = label})

\* HeteroData gets the dictionaries whole.  Data has no labels: it gets the keys of its
\* label, what is unconverted of the first label with such values, the edge_index that the
\* loop over the pairs of labels sets last, and the edge properties of the first pair.
TorchData(first) ==
    IF Cardinality(LabelsOf(nodesDict)) # 1
    THEN [kind |-> "HeteroData", tensors |-> nodesDict, keys |-> primaryKeys,
          unconverted |-> unconverted, edgeIndex |-> edges, edgeProps |-> edgeProps]
    ELSE [kind |-> "Data", tensors |-> nodesDict,
          keys |-> At(primaryKeys, CHOOSE label \in LabelsOf(nodesDict) : TRUE),
          unconverted |-> At(unconverted, first),
          edgeIndex |-> IF rels = <<>> THEN Empty ELSE Part(edges, {LastPair}),
          edgeProps |-> IF rels = <<>> THEN Empty ELSE At(edgeProps, PairOf(rels[1]))]

TorchGraph ==
    /\ target = "torch" /\ phase = "rels" /\ rowIndex > Len(rels)
    /\ \E first \in LabelsOf(unconverted) \cup {"none"} :
         /\ first = "none" <=> LabelsOf(unconverted) = {}
         /\ graph' = TorchData(first)
    /\ phase' = "done" /\ Constant
    /\ UNCHANGED <<rowIndex, col, prop, torchVars, nodes, rels>>

-----------------------------------------------------------------------------
GraphNext ==
    \/ OtherCell \/ DictRow \/ SkipNull \/ FailNull \/ RowsDone
    \/ TakeNxNode \/ TakeNxRel \/ TakePath \/ NxGraph \/ NxEndMissing
    \/ SeenNode \/ NewNode \/ AlreadyUnconverted \/ Unconvertible \/ Convertible \/ EndNode
    \/ TakeRel \/ AddEdge \/ EndMissing \/ TorchGraph

GraphSpec == GraphInit /\ [][GraphNext]_graphVars

-----------------------------------------------------------------------------
(* Properties.                                                             *)

GraphTypeOK ==
    /\ phase \in {"rows", "rels", "done", "failed"}
    /\ rowIndex \in 1..(Max({Len(Rows), Len(rels)}) + 1) /\ col \in DOMAIN result.columns
    /\ pos \in -1..Cardinality(DOMAIN position)
    /\ DOMAIN nodesDict \cap DOMAIN unconverted = {}

AllNodes == NodesIn(result)
AllRels == RelsIn(result)
Done(which) == phase = "done" /\ target = which

\* "Duplicated nodes and rels will be converted only once" (query_result.py:316), and none
\* is lost, parallel rels included; nodes whose names differ stay apart.
NetworkxComplete ==
    Done("networkx") =>
        /\ graph[2] = {Name(n) : n \in AllNodes}
        /\ Len(graph[3]) = Cardinality({r.id : r \in AllRels})
        /\ \A r \in AllRels : \E i \in DOMAIN graph[3] :
             /\ graph[3][i][3].id = r.id
             /\ \E a, b \in AllNodes :
                  /\ Internal(a) = r.src /\ Internal(b) = r.dst
                  /\ graph[3][i][1] = Name(a) /\ graph[3][i][2] = Name(b)

\* "The order of values for each property is aligned with nodes in Data/HeteroData"
\* (query_result.py:451): what is returned has a value for every node of the label, as a
\* tensor or unconverted, at the node's position, although a property may stop being
\* convertible midway.  Open: Data is returned with the values of one label that are
\* unconverted, which may be another one's (torch_geometric_result_converter.py:288).
InPlace(f, column, n) ==
    /\ column \in DOMAIN f
    /\ Len(f[column]) = Cardinality({m \in DOMAIN position : m[1] = n.label})
    /\ f[column][position[Internal(n)] + 1] = <<Internal(n), n.values[column[2]]>>
LabelReturned(label) == graph.kind = "HeteroData" \/ label \in LabelsOf(graph.tensors)
NodesAligned ==
    \A n \in CellsIn(result, "node") :
        /\ Internal(n) \in DOMAIN position
        /\ LabelReturned(n.label) =>
             /\ graph.keys[<<n.label, position[Internal(n)]>>] = n.pk
             /\ \A i \in DOMAIN Schema[n.label] :
                  LET column == <<n.label, Schema[n.label][i].name>>
                  IN  \/ InPlace(graph.tensors, column, n)
                      \/ InPlace(graph.unconverted, column, n)
                      \/ /\ graph.kind = "Data" /\ column \notin DOMAIN graph.tensors
                         /\ n.label \notin LabelsOf(graph.unconverted) /\ graph.unconverted # Empty

\* "The order of values for each property is aligned with edge_index in Data/HeteroData"
\* (query_result.py:456): it is in what is returned, if the rels between two labels have
\* the same properties, and every rel has its edge.  Open: Data is returned with the edges
\* of one pair of labels and the properties of another where the result has several.
TorchRels == CellsIn(result, "rel")
SameProps(pair) == \A r, s \in AllRels : PairOf(r) = pair /\ PairOf(s) = pair => r.props = s.props
AllPairs == graph.kind = "HeteroData" \/ \A r, s \in TorchRels : PairOf(r) = PairOf(s)
EdgesAligned ==
    /\ \A r \in TorchRels : AllPairs \/ PairOf(r) \in DOMAIN graph.edgeIndex =>
         /\ PairOf(r) \in DOMAIN graph.edgeIndex
         /\ <<position[r.src], position[r.dst]>> \in ToSet(graph.edgeIndex[PairOf(r)])
    /\ \A column \in DOMAIN graph.edgeProps :
         LET pair == column[1]
         IN  /\ AllPairs => pair \in DOMAIN graph.edgeIndex
             /\ pair \in DOMAIN graph.edgeIndex /\ SameProps(pair) =>
                  /\ Len(graph.edgeProps[column]) = Len(graph.edgeIndex[pair])
                  /\ \A k \in DOMAIN graph.edgeProps[column] : \E r \in AllRels :
                       /\ r.id = graph.edgeProps[column][k]
                       /\ graph.edgeIndex[pair][k] = <<position[r.src], position[r.dst]>>

\* A graph export has what the result has, each part in its place.
GraphsFaithful ==
    /\ NetworkxComplete
    /\ Done("torch") => NodesAligned /\ EdgesAligned
=============================================================================
