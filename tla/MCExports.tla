------------------------------- MODULE MCExports -------------------------------
(***************************************************************************)
(* What a client does with data: a parameter and a row that is read        *)
(* (CapiValues), a result that is read and exported (QueryResults) or made *)
(* a graph (GraphExport), the stores of torch_geometric (FeatureStore,     *)
(* GraphStore), a frame that is scanned (FrameScan) and the Python objects *)
(* that the extension looks up meanwhile (ImportCache).  They share        *)
(* nothing but the database; an initial state picks one of them, and the   *)
(* variables of the others stay Unused, so that the states add up.         *)
(***************************************************************************)
EXTENDS CapiValues, QueryResults, GraphExport, FeatureStore, GraphStore,
        FrameScan, ImportCache, MCValues, MCGraphs

VARIABLE session

MCEdges == {<<0, 0>>, <<2, 1>>}
MCChunks == {-1, 1, 2, 99}

Info(type, dimension, shape) == [type |-> type, dimension |-> dimension, shape |-> shape]
\* Properties for the scan and for the query, of no fixed shape and of part of one.
MCSchemas ==
    {[p |-> Info("INT64", 0, <<>>), q |-> Info("STRING", 0, <<>>)],
     [p |-> Info("DOUBLE", 1, <<>>), q |-> Info("BOOL", 0, <<>>)],
     [q |-> Info("INT64", 2, <<2>>)]}

Slice(start, stop, step) == [kind |-> "slice", start |-> start, stop |-> stop, step |-> step]
Items(s) == [kind |-> "items", items |-> s]
MCIndexes ==
    {[kind |-> "none"], [kind |-> "open"], Slice(1, 2, 1), Slice(0, 3, 2), Items(<<>>), Items(<<2, 0>>)}

MCEdgeTypes == {<<"A", "R", "A">>}

\* Frames of a multiple of the vector size, of a row more, in chunks, and with empty ones.
MCFrames == {<<>>, <<4>>, <<5>>, <<1, 4>>, <<3, 5>>, <<0, 3>>, <<2, 2, 5>>}

\* pyarrow.lib.Table.from_pandas and pandas.DataFrame
MCParents == [lib |-> "top", Table |-> "lib", pandas |-> "top"]

-----------------------------------------------------------------------------
Unused == "unused"

NoValues ==
    /\ stage = Unused /\ param = Unused /\ wraps = Unused /\ native = Unused /\ binding = Unused
    /\ reading = Unused /\ row = Unused /\ error = Unused /\ live = Unused /\ leaked = Unused
    /\ adopted = Unused
NoResults ==
    /\ backend = Unused /\ nativeChunk = Unused /\ rows = Unused /\ bad = Unused
    /\ hasMap = Unused /\ cursor = Unused /\ asDict = Unused /\ job = Unused /\ last = Unused
    /\ seen = Unused /\ origin = Unused /\ earlier = Unused /\ calls = Unused
NoGraphs ==
    /\ target = Unused /\ result = Unused /\ dictRows = Unused /\ phase = Unused
    /\ rowIndex = Unused /\ col = Unused /\ prop = Unused /\ pos = Unused /\ nodesDict = Unused
    /\ unconverted = Unused /\ position = Unused /\ primaryKeys = Unused /\ nodes = Unused
    /\ rels = Unused /\ edges = Unused /\ edgeProps = Unused /\ graph = Unused
NoFeatures ==
    /\ extension = Unused /\ schema = Unused /\ present = Unused /\ highest = Unused
    /\ intact = Unused /\ cache = Unused /\ request = Unused /\ answer = Unused
    /\ requests = Unused
NoGraphStore ==
    /\ numNodes = Unused /\ goneNodes = Unused /\ stored = Unused /\ goneRels = Unused
    /\ threads = Unused /\ store = Unused /\ attr = Unused
    /\ export = Unused /\ got = Unused /\ asked = Unused /\ latest = Unused
    /\ disturbed = Unused /\ storeCalls = Unused
NoScans ==
    /\ scan = Unused /\ drawn = Unused /\ empties = Unused /\ local = Unused
    /\ emitted = Unused /\ runs = Unused
NoImports ==
    /\ freeThreaded = Unused /\ gil = Unused /\ loadMutex = Unused /\ loaded = Unused
    /\ object = Unused /\ allObjects = Unused /\ lookup = Unused /\ found = Unused
    /\ failures = Unused

\* The session's own initial states; the others are unused.
Begins(which) ==
    /\ session = which
    /\ IF which = "values" THEN ValueInit ELSE NoValues
    /\ IF which = "results" THEN ResultInit ELSE NoResults
    /\ IF which = "graphs" THEN GraphInit ELSE NoGraphs
    /\ IF which = "features" THEN FeatureInit ELSE NoFeatures
    /\ IF which = "edges" THEN GraphStoreInit ELSE NoGraphStore
    /\ IF which = "scan" THEN ScanInit ELSE NoScans
    /\ IF which = "imports" THEN ImportInit ELSE NoImports

Init == \E which \in {"values", "results", "graphs", "features", "edges", "scan", "imports"} : Begins(which)

InValues ==
    /\ session = "values"
    /\ UNCHANGED <<session, resultVars, graphVars, featureVars, graphStoreVars, scanVars, importVars>>
InResults ==
    /\ session = "results"
    /\ UNCHANGED <<session, valueVars, graphVars, featureVars, graphStoreVars, scanVars, importVars>>
InGraphs ==
    /\ session = "graphs"
    /\ UNCHANGED <<session, valueVars, resultVars, featureVars, graphStoreVars, scanVars, importVars>>
InFeatures ==
    /\ session = "features"
    /\ UNCHANGED <<session, valueVars, resultVars, graphVars, graphStoreVars, scanVars, importVars>>
InEdges ==
    /\ session = "edges"
    /\ UNCHANGED <<session, valueVars, resultVars, graphVars, featureVars, scanVars, importVars>>
InScan ==
    /\ session = "scan"
    /\ UNCHANGED <<session, valueVars, resultVars, graphVars, featureVars, graphStoreVars, importVars>>
InImports ==
    /\ session = "imports"
    /\ UNCHANGED <<session, valueVars, resultVars, graphVars, featureVars, graphStoreVars, scanVars>>

\* One disjunct for each action of a component.
Next ==
    \/ InValues /\ Normalize
    \/ InValues /\ Make
    \/ InValues /\ Unsupported
    \/ InValues /\ Enter
    \/ InValues /\ Create
    \/ InValues /\ BindValue
    \/ InValues /\ Refuse
    \/ InValues /\ BindUnwind
    \/ InValues /\ GetNext
    \/ InValues /\ Fetch
    \/ InValues /\ FetchFails
    \/ InValues /\ Convert
    \/ InValues /\ Descend
    \/ InValues /\ Fail
    \/ InValues /\ FreeGroup
    \/ InValues /\ UnhashableKey
    \/ InValues /\ Finish
    \/ InValues /\ Catch
    \/ InValues /\ Unwind
    \/ InValues /\ CloseResult
    \/ InResults /\ (\E want \in 1..(MaxRows + 1) : BeginRead(want))
    \/ InResults /\ Take
    \/ InResults /\ TakeBad
    \/ InResults /\ EndRead
    \/ InResults /\ ResetIterator
    \/ InResults /\ (\E state \in BOOLEAN : RowsAsDict(state))
    \/ InResults /\ (\E size \in Chunks : BeginMapCheck(size))
    \/ InResults /\ (\E size \in Chunks : BeginArrow(size))
    \/ InResults /\ (\E size \in Chunks : BeginPybindArrow(size))
    \/ InResults /\ CheckRow
    \/ InResults /\ EndMapCheck
    \/ InResults /\ RefuseMap
    \/ InResults /\ Chunk
    \/ InResults /\ EndArrow
    \/ InResults /\ FailArrow
    \/ InResults /\ PybindDF
    \/ InResults /\ BeginCSR
    \/ InResults /\ EndCSR
    \/ InGraphs /\ OtherCell
    \/ InGraphs /\ DictRow
    \/ InGraphs /\ SkipNull
    \/ InGraphs /\ FailNull
    \/ InGraphs /\ RowsDone
    \/ InGraphs /\ TakeNxNode
    \/ InGraphs /\ TakeNxRel
    \/ InGraphs /\ TakePath
    \/ InGraphs /\ NxGraph
    \/ InGraphs /\ NxEndMissing
    \/ InGraphs /\ SeenNode
    \/ InGraphs /\ NewNode
    \/ InGraphs /\ AlreadyUnconverted
    \/ InGraphs /\ Unconvertible
    \/ InGraphs /\ Convertible
    \/ InGraphs /\ EndNode
    \/ InGraphs /\ TakeRel
    \/ InGraphs /\ AddEdge
    \/ InGraphs /\ EndMissing
    \/ InGraphs /\ TorchGraph
    \/ InFeatures /\ AddNode
    \/ InFeatures /\ (\E offset \in 0..(MaxOffset - 1) : DeleteNode(offset))
    \/ InFeatures /\ (\E other \in Schemas : DropAndCreate(other))
    \/ InFeatures /\ (\E a \in AttrNames : GetTensorSize(a))
    \/ InFeatures /\ (\E a \in AttrNames, index \in Indexes : GetTensor(a, index))
    \/ InFeatures /\ LookUp
    \/ InFeatures /\ CountNodes
    \/ InFeatures /\ FailScan
    \/ InFeatures /\ ScanTable
    \/ InFeatures /\ FailQuery
    \/ InFeatures /\ Query
    \/ InFeatures /\ AllTensorAttrs
    \/ InEdges /\ InsertNode
    \/ InEdges /\ (\E type \in EdgeTypes, a, b \in 0..(MaxNodes - 1) : InsertRel(type, a, b))
    \/ InEdges /\ (\E offset \in 0..(MaxNodes - 1) : DeleteLoneNode(offset))
    \/ InEdges /\ (\E type \in EdgeTypes, place \in 1..MaxRels : DeleteRel(type, place))
    \/ InEdges /\ (\E a \in Attrs : MakeAttr(a))
    \/ InEdges /\ PutEdgeIndex
    \/ InEdges /\ RemoveEdgeIndex
    \/ InEdges /\ GetEdgeIndex
    \/ InEdges /\ CountRels
    \/ InEdges /\ BeginExport
    \/ InEdges /\ Batch
    \/ InEdges /\ EndExport
    \/ InEdges /\ ExportFails
    \/ InScan /\ (\E w \in Workers : StartNumpy(w))
    \/ InScan /\ (\E w \in Workers : DrawMorsel(w))
    \/ InScan /\ (\E w \in Workers : EmitVector(w))
    \/ InScan /\ (\E w \in Workers : StartArrow(w))
    \/ InScan /\ (\E w \in Workers : EmitBatch(w))
    \/ InScan /\ (\E w \in Workers : EmitNothing(w))
    \/ InScan /\ (\E w \in Workers : StopScan(w))
    \/ InScan /\ ExecuteAgain
    \/ InImports /\ (\E t \in Threads : TakeGil(t))
    \/ InImports /\ (\E t \in Threads : PassGil(t))
    \/ InImports /\ (\E t \in Threads, i \in DOMAIN Parents : LookUpItem(t, i))
    \/ InImports /\ (\E t \in Threads : FindLoaded(t))
    \/ InImports /\ (\E t \in Threads : FindParent(t))
    \/ InImports /\ (\E t \in Threads : ReleaseGil(t))
    \/ InImports /\ (\E t \in Threads : TakeLoadMutex(t))
    \/ InImports /\ (\E t \in Threads : CheckLoaded(t))
    \/ InImports /\ (\E t \in Threads : AddToCache(t))
    \/ InImports /\ (\E t \in Threads : SetLoaded(t))
    \/ InImports /\ (\E t \in Threads : ImportFails(t))

exportsVars ==
    <<session, valueVars, resultVars, graphVars, featureVars, graphStoreVars, scanVars, importVars>>
ExportsSpec == Init /\ [][Next]_exportsVars

-----------------------------------------------------------------------------
TypeOK ==
    CASE session = "values" -> ValueTypeOK
      [] session = "results" -> ResultTypeOK
      [] session = "graphs" -> GraphTypeOK
      [] session = "features" -> FeatureTypeOK
      [] session = "edges" -> GraphStoreTypeOK
      [] session = "scan" -> ScanTypeOK
      [] session = "imports" -> ImportTypeOK

\* Of CapiValues: nothing that a conversion has got from the C API outlives the call or,
\* if the result adopts it, the result, but for the key of a map entry whose value could
\* not be got.
NoLeaks == session = "values" => NativesReleased

\* Of CapiValues: a parameter that the query returns is read as what it was, a datetime to
\* a microsecond; what goes into to_json() has a type that the engine can infer, or is
\* JSON, but for what _contains_unresolved_json_type() does not look into.
ValuesKept == session = "values" => ValuesReadBack /\ JsonTyped

\* Of QueryResults: reads take the rows in order from where an export last moved the
\* cursor, which each backend does in one way; an export has every row, but for an Arrow
\* table of pybind, which has those that were left.
ResultsComplete == session = "results" => ExportsComplete

\* Of GraphExport: a graph of networkx has the result's nodes and rels once; what torch
\* gets returned has the nodes' and the edges' values in their places, but for the values of
\* several labels or pairs of labels where it is Data, which has room for one.
GraphsComplete == session = "graphs" => GraphsFaithful

\* Of FeatureStore and GraphStore: an index means the same nodes whether it is scanned or
\* queried; a get returns the edge index that was put, unless it is of an unsorted COO; one
\* of the database is complete, if nothing was deleted.
StoresAnswerTruly ==
    /\ session = "features" => IndexPathsAgree
    /\ session = "edges" => PutIndexStays /\ EdgesComplete

\* Of FrameScan: threads share a frame's rows among them, all of them unless a batch has
\* none.  Of ImportCache: they share the objects that are loaded, and do not wait for each
\* other.
ThreadsShareWork ==
    /\ session = "scan" => RowsScannedOnce
    /\ session = "imports" => LoadedOnce /\ LookupsProceed
=============================================================================
