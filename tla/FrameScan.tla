------------------------------- MODULE FrameScan -------------------------------
(***************************************************************************)
(* LOAD/COPY ... FROM a frame in the pybind extension: the engine's        *)
(* threads draw ranges of rows of a pandas frame with NumPy columns        *)
(* (pandas_scan.cpp) or batches of an Arrow table (pyarrow_scan.cpp), with *)
(* SKIP and LIMIT, and a prepared statement that is executed again scans   *)
(* again.  A row is known by its number.  The state from which NumPy scans *)
(* draw their ranges is the engine's: SharedState below is external.       *)
(***************************************************************************)
EXTENDS Naturals, FiniteSetsExt, SequencesExt

CONSTANTS Workers,
          Frames,      \* where the chunks of a frame end (NumPy: one chunk)
          Skips, Limits, \* Maximum stands for no limit
          Maximum,
          MorselSize,  \* PANDAS_PARTITION_COUNT, scaled
          VectorSize,  \* DEFAULT_VECTOR_CAPACITY, scaled
          MaxRuns      \* bound on the executions of the statement

ASSUME FrameScanAssumption ==
    /\ Workers # {}
    /\ Maximum \in Nat /\ Skips \subseteq Nat /\ Limits \subseteq 0..Maximum
    /\ MorselSize \in Nat \ {0} /\ VectorSize \in Nat \ {0} /\ MaxRuns \in Nat \ {0}
    /\ \A f \in Frames : f \in Seq(0..Maximum) /\ \A i, j \in DOMAIN f : i < j => f[i] <= f[j]

VARIABLES
    scan,      \* what the statement was bound to: frame and options
    drawn,     \* curRowIdx, or the rows of the batches before currentChunk
    empties,   \* how many batches before currentChunk, after those rows, have none
    local,     \* thread -> its range, None before it starts and after its last
    emitted,   \* rows put out in this execution
    runs

scanVars == <<scan, drawn, empties, local, emitted, runs>>

NumRows == IF scan.ends = <<>> THEN 0 ELSE Last(scan.ends)
\* PyScanConfig(): never more than there are.
SkipNum == Min({NumRows, scan.skip})

NotStarted == [at |-> "new", start |-> 0, end |-> 0]
Fresh == [w \in Workers |-> NotStarted]
Finished(w) == local[w].at \in {"end", "stopped"}

ScanInit ==
    /\ scan \in [kind : {"numpy", "arrow"}, ends : Frames, skip : Skips, limit : Limits]
    /\ scan.kind = "numpy" => Len(scan.ends) <= 1
    /\ drawn = 0 /\ empties = 0 /\ local = Fresh /\ emitted = <<>> /\ runs = 1

IsNumpy == scan.kind = "numpy"

-----------------------------------------------------------------------------
(* pandas_scan.cpp                                                         *)

BoundRows == Min({NumRows - SkipNum, scan.limit})

\* getMorsel() of the engine's SimpleTableFuncSharedState, under its lock.
Morsel == [startOffset |-> drawn, endOffset |-> Min({drawn + MorselSize, BoundRows})]

StartNumpy(w) ==
    /\ IsNumpy /\ local[w].at = "new"
    /\ local' = [local EXCEPT ![w].at = "scan"]
    /\ UNCHANGED <<scan, drawn, empties, emitted, runs>>

\* A range of the frame and not of what SKIP leaves of it.
DrawMorselUnskipped(w) ==
    /\ IsNumpy /\ local[w].at = "scan" /\ local[w].start >= local[w].end
    /\ IF Morsel.startOffset < Morsel.endOffset
       THEN /\ drawn' = Morsel.endOffset
            /\ local' = [local EXCEPT ![w].start = Morsel.startOffset, ![w].end = Morsel.endOffset]
       ELSE local' = [local EXCEPT ![w].at = "end"] /\ UNCHANGED drawn
    /\ UNCHANGED <<scan, empties, emitted, runs>>

DrawMorsel(w) ==
    /\ IsNumpy /\ local[w].at = "scan" /\ local[w].start >= local[w].end
    /\ IF Morsel.startOffset < Morsel.endOffset
       THEN /\ drawn' = Morsel.endOffset
            /\ local' = [local EXCEPT ![w].start = SkipNum + Morsel.startOffset,
                                      ![w].end = SkipNum + Morsel.endOffset]
       ELSE local' = [local EXCEPT ![w].at = "end"] /\ UNCHANGED drawn
    /\ UNCHANGED <<scan, empties, emitted, runs>>

\* One vector of the range: tableFunc() after the draw.
RowRange(from, to) == [k \in 1..(to - from) |-> from + k - 1]
EmitVector(w) ==
    /\ IsNumpy /\ local[w].at = "scan" /\ local[w].start < local[w].end
    /\ LET to == Min({local[w].start + VectorSize, local[w].end})
       IN  /\ emitted' = emitted \o RowRange(local[w].start, to)
           /\ local' = [local EXCEPT ![w].start = to]
    /\ UNCHANGED <<scan, drawn, empties, runs>>

-----------------------------------------------------------------------------
(* pyarrow_scan.cpp                                                        *)

\* table.slice(skip).slice(0, limit).to_batches(): at the ends of chunks and at most a
\* vector long.  External: pyarrow may leave a chunk without rows out or make it a batch.
LastRow == Min({NumRows, SkipNum + scan.limit})
BatchEnd(start) == Min({start + VectorSize, LastRow} \cup {e \in ToSet(scan.ends) : e > start})

ChunkStart(i) == IF i = 1 THEN 0 ELSE scan.ends[i - 1]
EmptyChunks == {i \in DOMAIN scan.ends : scan.ends[i] = ChunkStart(i)}
EmptyAt(row) == Cardinality({i \in EmptyChunks : scan.ends[i] = row})

\* getNextChunk(), under its mutex; after is what becomes of a thread that gets a batch.
NextChunk(w, after) ==
    LET start == SkipNum + drawn
        Gets(at, end) == local' = [local EXCEPT ![w] = [at |-> at, start |-> start, end |-> end]]
    IN  \/ /\ empties < EmptyAt(start)
           /\ empties' = empties + 1 /\ UNCHANGED drawn /\ Gets(after, start)
        \/ /\ start = LastRow
           /\ UNCHANGED <<drawn, empties>> /\ Gets("end", start)
        \/ /\ start # LastRow
           /\ drawn' = BatchEnd(start) - SkipNum /\ empties' = 0 /\ Gets(after, BatchEnd(start))

\* initLocalState() draws the first batch.
StartArrow(w) ==
    /\ ~IsNumpy /\ local[w].at = "new"
    /\ NextChunk(w, "scan")
    /\ UNCHANGED <<scan, emitted, runs>>

\* tableFunc() puts out the batch it has and draws the next one.
EmitBatch(w) ==
    /\ ~IsNumpy /\ local[w].at = "scan" /\ local[w].start < local[w].end
    /\ emitted' = emitted \o RowRange(local[w].start, local[w].end)
    /\ NextChunk(w, "scan")
    /\ UNCHANGED <<scan, runs>>

\* A batch without rows: 0 is returned, which ends the thread's scan, and the batch that is
\* drawn is dropped.
EmitNothing(w) ==
    /\ ~IsNumpy /\ local[w].at = "scan" /\ local[w].start = local[w].end
    /\ NextChunk(w, "end")
    /\ UNCHANGED <<scan, emitted, runs>>

-----------------------------------------------------------------------------
\* The engine needs no more rows (LIMIT in the query, an interrupt, an error).
StopScan(w) ==
    /\ ~Finished(w)
    /\ local' = [local EXCEPT ![w].at = "stopped"]
    /\ UNCHANGED <<scan, drawn, empties, emitted, runs>>

\* The prepared statement is executed again: resetState(), new local states.
ExecuteAgain ==
    /\ runs < MaxRuns /\ \A w \in Workers : Finished(w)
    /\ drawn' = 0 /\ empties' = 0
    /\ runs' = runs + 1 /\ emitted' = <<>> /\ local' = Fresh
    /\ UNCHANGED scan

ScanNext ==
    \/ \E w \in Workers :
         \/ StartNumpy(w) \/ DrawMorsel(w) \/ EmitVector(w)
         \/ StartArrow(w) \/ EmitBatch(w) \/ EmitNothing(w) \/ StopScan(w)
    \/ ExecuteAgain

ScanSpec == ScanInit /\ [][ScanNext]_scanVars

-----------------------------------------------------------------------------
(* Properties.                                                             *)

ScanTypeOK ==
    /\ drawn \in Nat /\ empties \in Nat /\ runs \in 1..MaxRuns /\ emitted \in Seq(0..(NumRows - 1))
    /\ local \in [Workers -> [at : {"new", "scan", "end", "stopped"}, start : 0..NumRows, end : 0..NumRows]]

\* SKIP and LIMIT count rows of the frame: "LOAD FROM df (SKIP=5000, LIMIT=5000)".
Selected == {r \in 0..(NumRows - 1) : r >= scan.skip /\ r < scan.skip + scan.limit}

\* In every execution no row is put out twice, none that was not asked for, and, when every
\* thread has come to its end, none is missing, however the threads share the frame.  Open:
\* a chunk of an Arrow table that has no rows may end a thread's scan early
\* (pyarrow_scan.cpp:109), and rows be missing.
BatchesHaveRows == IsNumpy \/ EmptyChunks = {}
RowsScannedOnce ==
    /\ IsInjective(emitted) /\ ToSet(emitted) \subseteq Selected
    /\ BatchesHaveRows /\ (\A w \in Workers : local[w].at = "end") => ToSet(emitted) = Selected
=============================================================================
