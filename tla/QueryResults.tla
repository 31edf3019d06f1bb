----------------------------- MODULE QueryResults -----------------------------
(***************************************************************************)
(* The rows of one QueryResult: the cursor that next(), get_n() and        *)
(* get_all() move, and the exports that read the same rows through it      *)
(* (query_result.py, getAsArrow() ... of _lbug_capi.py).                   *)
(*                                                                         *)
(* A row is an edge <<source, edge, target>> of a rowid projection, so     *)
(* that it can be exported as CSR too; edges are numbered by row.  One row *)
(* may be impossible to convert.  Closed results are in module Handles,    *)
(* graph exports in GraphExport, conversions in CapiValues.                *)
(***************************************************************************)
EXTENDS Integers, FiniteSetsExt, SequencesExt

CONSTANTS Edges,     \* pairs <<source, target>>
          MaxRows,   \* bound on the rows of a result
          Chunks,    \* the chunk sizes asked for; Adaptive stands for None
          Adaptive,
          Cells,     \* cells of an adaptive chunk, scaled from ten million
          MaxCalls   \* bound on the calls of one client

ASSUME QueryResultsAssumption ==
    /\ Edges \subseteq Nat \X Nat
    /\ MaxRows \in Nat /\ Cells \in Nat \ {0} /\ MaxCalls \in Nat
    /\ Chunks \subseteq Int /\ Adaptive \in Chunks

VARIABLES
    backend,    \* which extension holds the result
    nativeChunk, \* of an ArrowQueryResult (of the C API); 0 for others
    rows,
    bad,        \* number of the row that cannot be converted; 0 for none
    hasMap,     \* is there a MAP column?
    cursor,     \* rows that the native cursor has passed
    asDict,     \* rows_as_dict()
    job,        \* what the client is in the middle of
    last,       \* what its last call returned
    seen,       \* auxiliary: rows that calls have taken since an export last moved the
                \* cursor by itself
    origin,     \* auxiliary: where that export left the cursor
    earlier,    \* auxiliary: rows taken before, since the client last asked for the start
    calls       \* auxiliary: calls begun

rowVars == <<backend, nativeChunk, rows, bad, hasMap>>
resultVars == <<rowVars, cursor, asDict, job, last, seen, origin, earlier, calls>>

None == <<"none">>
Idle == [op |-> "none", want |-> 0, got |-> <<>>, from |-> 0]
Columns == 3

RowIds == [i \in DOMAIN rows |-> i]
NumTuples == Len(rows)
HasNext == cursor < NumTuples

RowSequences == UNION {[1..n -> Edges] : n \in 0..MaxRows}

ResultInit ==
    /\ backend \in {"capi", "pybind"}
    /\ nativeChunk \in IF backend = "capi" THEN {0, 1} ELSE {0}
    /\ \E edges \in RowSequences :
         rows = [i \in DOMAIN edges |-> <<edges[i][1], i, edges[i][2]>>]
    /\ bad \in 0..NumTuples /\ hasMap \in BOOLEAN
    /\ cursor = 0 /\ asDict = FALSE /\ job = Idle /\ last = None /\ calls = 0
    /\ seen = <<>> /\ origin = 0 /\ earlier = <<>>

Ready == job = Idle /\ calls < MaxCalls
Start(op, want) ==
    /\ job' = [op |-> op, want |-> want, got |-> <<>>, from |-> cursor']
    /\ calls' = calls + 1 /\ last' = None
Stop(answer) == job' = Idle /\ last' = answer

\* An export has the cursor at some row, wherever the client was.
Moved(to) == origin' = to /\ earlier' = earlier \o seen /\ seen' = <<>>
Rewind == cursor' = 0 /\ Moved(0)
Stays == UNCHANGED <<origin, earlier>>

-----------------------------------------------------------------------------
(* Reading row by row.                                                     *)

\* get_next(), get_n(), get_all() and iteration: up to want rows from here.
BeginRead(want) ==
    /\ Ready /\ UNCHANGED <<rowVars, cursor, asDict, seen>> /\ Stays
    /\ Start("read", want)

Take ==
    /\ job.op = "read" /\ HasNext /\ Len(job.got) < job.want /\ cursor + 1 # bad
    /\ cursor' = cursor + 1
    /\ job' = [job EXCEPT !.got = Append(@, cursor')]
    /\ UNCHANGED <<rowVars, asDict, last, seen, calls>> /\ Stays

\* The cursor passes the row before its conversion raises; rows got so far are lost.
TakeBad ==
    /\ job.op = "read" /\ HasNext /\ Len(job.got) < job.want /\ cursor + 1 = bad
    /\ cursor' = cursor + 1
    /\ Stop(<<"error">>)
    /\ seen' = seen \o job.got \o <<bad>>
    /\ UNCHANGED <<rowVars, asDict, calls>> /\ Stays

EndRead ==
    /\ job.op = "read" /\ (~HasNext \/ Len(job.got) = job.want)
    /\ seen' = seen \o job.got
    /\ Stop(<<"rows", job.got, asDict>>)
    /\ UNCHANGED <<rowVars, cursor, asDict, calls>> /\ Stays

\* reset_iterator()
ResetIterator ==
    /\ Ready
    /\ cursor' = 0 /\ origin' = 0 /\ seen' = <<>> /\ earlier' = <<>>
    /\ calls' = calls + 1 /\ last' = None
    /\ UNCHANGED <<rowVars, asDict, job>>

\* rows_as_dict(): later rows come as dictionaries, or as lists again.
RowsAsDict(state) ==
    /\ Ready
    /\ asDict' = state
    /\ calls' = calls + 1
    /\ UNCHANGED <<rowVars, cursor, job, last, seen>> /\ Stays

-----------------------------------------------------------------------------
(* Arrow tables.                                                           *)

\* get_as_arrow() of both classes: the size it passes on.
ChunkSize(size) ==
    IF nativeChunk > 0 /\ (size = Adaptive \/ size <= 0) THEN nativeChunk
    ELSE IF size = Adaptive THEN Max({Cells \div Columns, 2})
    ELSE IF size <= 0 THEN NumTuples ELSE size

\* getAsArrow() of the C API, and getAsDF() through it.
NativeChunkSize(size) == IF size <= 0 THEN Max({NumTuples, 1}) ELSE size

\* A MAP column is looked through for null keys first, row by row.
BeginMapCheck(size) ==
    /\ Ready /\ backend = "capi" /\ hasMap
    /\ Rewind
    /\ Start("check", NativeChunkSize(ChunkSize(size)))
    /\ UNCHANGED <<rowVars, asDict>>

\* The table is exported from wherever the cursor is.
BeginArrowUnrewound(size) ==
    /\ Ready /\ backend = "capi" /\ ~hasMap
    /\ UNCHANGED <<rowVars, cursor, asDict, seen>> /\ Stays
    /\ Start("arrow", NativeChunkSize(ChunkSize(size)))

BeginArrow(size) ==
    /\ Ready /\ backend = "capi" /\ ~hasMap
    /\ Rewind
    /\ Start("arrow", NativeChunkSize(ChunkSize(size)))
    /\ UNCHANGED <<rowVars, asDict>>

\* _get_all_rows_from_start(); a row that cannot be converted ends the export, and the
\* cursor stays behind it.
CheckRow ==
    /\ job.op \in {"check", "csr"} /\ HasNext
    /\ cursor' = cursor + 1
    /\ IF cursor' = bad THEN Stop(<<"error">>) /\ Moved(cursor')
       ELSE UNCHANGED <<job, last, seen>> /\ Stays
    /\ UNCHANGED <<rowVars, asDict, calls>>

EndMapCheck ==
    /\ job.op = "check" /\ ~HasNext
    /\ cursor' = 0 /\ job' = [job EXCEPT !.op = "arrow", !.from = 0]
    /\ UNCHANGED <<rowVars, asDict, last, seen, calls>> /\ Stays

\* A map with a null key: the cursor has been put back.
RefuseMap ==
    /\ job.op = "check" /\ ~HasNext
    /\ Stop(<<"error">>) /\ Rewind
    /\ UNCHANGED <<rowVars, asDict, calls>>

\* The engine makes chunks without Python's conversions.
Chunk ==
    /\ job.op = "arrow" /\ HasNext
    /\ LET next == Min({cursor + job.want, NumTuples})
       IN  /\ job' = [job EXCEPT !.got = Append(@, SubSeq(RowIds, cursor + 1, next))]
           /\ cursor' = next
    /\ UNCHANGED <<rowVars, asDict, last, seen, calls>> /\ Stays

\* finally: resetIterator(), in the C API only.
EndArrow ==
    /\ job.op = "arrow" /\ ~HasNext
    /\ Stop(<<"table", job.got, job.want, job.from>>)
    /\ IF backend = "capi" THEN Rewind
       ELSE UNCHANGED cursor /\ seen' = seen \o FlattenSeq(job.got) /\ Stays
    /\ UNCHANGED <<rowVars, asDict, calls>>

\* A chunk cannot be made or imported: the rows of this one and those before it are lost.
FailArrow ==
    /\ job.op = "arrow" /\ HasNext
    /\ Stop(<<"error">>)
    /\ IF backend = "capi" THEN Rewind
       ELSE LET next == Min({cursor + job.want, NumTuples})
            IN  /\ cursor' = next /\ Stays
                /\ seen' = seen \o FlattenSeq(job.got) \o SubSeq(RowIds, cursor + 1, next)
    /\ UNCHANGED <<rowVars, asDict, calls>>

\* The pybind extension exports what is left, and leaves nothing.
BeginPybindArrow(size) ==
    /\ Ready /\ backend = "pybind"
    /\ UNCHANGED <<rowVars, cursor, asDict, seen>> /\ Stays
    /\ Start("arrow", Max({ChunkSize(size), 1}))

\* getAsDF() of pybind rewinds before, and not after.
PybindDF ==
    /\ Ready /\ backend = "pybind"
    /\ cursor' = NumTuples /\ Moved(NumTuples)
    /\ last' = <<"table", IF rows = <<>> THEN <<>> ELSE <<RowIds>>, Max({NumTuples, 1}), 0>>
    /\ calls' = calls + 1
    /\ UNCHANGED <<rowVars, asDict, job>>

-----------------------------------------------------------------------------
(* CSR arrays of the C API.                                                *)

BeginCSR ==
    /\ Ready /\ backend = "capi" /\ nativeChunk > 0
    /\ Rewind
    /\ Start("csr", 0)
    /\ UNCHANGED <<rowVars, asDict>>

\* max_src + 1: a list for every source, or for none.
Lists(table) == Max({table[i][1] + 1 : i \in DOMAIN table} \cup {0})

\* grouped[src].append(...), row by row.
Grouped(table) ==
    LET lists[k \in 0..Len(table)] ==
          IF k = 0 THEN [s \in 1..Lists(table) |-> <<>>]
          ELSE [lists[k - 1] EXCEPT ![table[k][1] + 1] = Append(@, table[k])]
    IN  lists[Len(table)]

\* One list after another; indptr tells where each starts.
CSR(table) ==
    LET count == Lists(table)
        filled[s \in 0..count] == IF s = 0 THEN <<>> ELSE filled[s - 1] \o Grouped(table)[s]
        entries == filled[count]
    IN  [indptr |-> [s \in 1..(count + 1) |-> Len(filled[s - 1])],
         indices |-> [k \in DOMAIN entries |-> entries[k][3]],
         edgeIds |-> [k \in DOMAIN entries |-> entries[k][2]]]

EndCSR ==
    /\ job.op = "csr" /\ ~HasNext
    /\ Rewind
    /\ Stop(<<"csr", CSR(rows)>>)
    /\ UNCHANGED <<rowVars, asDict, calls>>

-----------------------------------------------------------------------------
ResultNext ==
    \/ \E want \in 1..(MaxRows + 1) : BeginRead(want)
    \/ Take \/ TakeBad \/ EndRead \/ ResetIterator \/ \E state \in BOOLEAN : RowsAsDict(state)
    \/ \E size \in Chunks : BeginMapCheck(size) \/ BeginArrow(size) \/ BeginPybindArrow(size)
    \/ CheckRow \/ EndMapCheck \/ RefuseMap \/ Chunk \/ EndArrow \/ FailArrow \/ PybindDF \/ BeginCSR \/ EndCSR

ResultSpec == ResultInit /\ [][ResultNext]_resultVars

-----------------------------------------------------------------------------
(* Properties.                                                             *)

ResultTypeOK ==
    /\ cursor \in 0..NumTuples /\ asDict \in BOOLEAN /\ calls \in 0..MaxCalls
    /\ job.op \in {"none", "read", "check", "arrow", "csr"} /\ job.from \in 0..NumTuples
    /\ last[1] \in {"none", "error", "rows", "table", "csr"} /\ origin \in 0..NumTuples

\* Between calls: the rows that calls have taken since an export last moved the cursor
\* are those from where it left it, in order; none is left out, none comes twice.  A call
\* that raises takes rows without returning them; so may get_as_arrow() of pybind, which
\* reads on from the cursor, and it returns them.
ReadsInOrder == job = Idle => seen = SubSeq(RowIds, origin + 1, cursor)

\* Exports disturb who is reading in one way each.  In the C API reading starts over, so
\* that rows come again, unless the export met a row that it could not convert: reading
\* goes on behind it, and the rows up to it are missed.  In pybind nothing is left to read
\* after get_as_df(), and no row comes twice until the client resets the iterator.
ExportsMove ==
    /\ backend = "capi" => origin \in {0, bad}
    /\ backend = "pybind" =>
         /\ origin \in {0, NumTuples}
         /\ job = Idle => IsInjective(earlier \o seen)

\* A table of the C API, and a data frame, has every row whatever has been read; an Arrow
\* table of pybind has those from the cursor on, all rows together with those that calls
\* had taken.  In order, none twice, in chunks of the size asked for but the last.
TableComplete ==
    last[1] = "table" =>
        LET chunks == last[2]  size == last[3]  from == last[4]
        IN  /\ FlattenSeq(chunks) = SubSeq(RowIds, from + 1, NumTuples)
            /\ backend = "capi" => from = 0
            /\ backend = "pybind" /\ origin = 0 => seen = RowIds
            /\ \A c \in 1..(Len(chunks) - 1) : Len(chunks[c]) = size
            /\ chunks # <<>> => Len(Last(chunks)) \in 1..size

\* Every edge has a place in the arrays, among those of its source, and there is no other.
CSRComplete ==
    last[1] = "csr" =>
        LET csr == last[2]
        IN  /\ Len(csr.indices) = NumTuples /\ Len(csr.edgeIds) = NumTuples
            /\ \A i \in DOMAIN rows : \E k \in DOMAIN csr.indices :
                 /\ csr.edgeIds[k] = i /\ csr.indices[k] = rows[i][3]
                 /\ k \in (csr.indptr[rows[i][1] + 1] + 1)..csr.indptr[rows[i][1] + 2]

ExportsComplete == ReadsInOrder /\ ExportsMove /\ TableComplete /\ CSRComplete
=============================================================================
