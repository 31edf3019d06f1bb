------------------------------ MODULE Handles ------------------------------
(***************************************************************************)
(* Who owns the native objects, and when they are destroyed.               *)
(*                                                                         *)
(* A Python object (Database, Connection, QueryResult, PreparedStatement)  *)
(* has a handle: with pybind a C++ wrapper with a shared_ptr to a state    *)
(* (py_handle_state.h) that owns the engine's object and points to the     *)
(* states it needs; with the C API a struct with the engine's pointer.     *)
(* Objects are closed in any order, or left to the garbage collector.      *)
(*                                                                         *)
(* Calls on a connection that are in flight are ConnectionLifecycle's: a   *)
(* close() is here from the end of its wait.  The connection that a C-API  *)
(* Connection opens with pybind beside its own is left out, and so are the *)
(* later results of a query with the C API.                                *)
(***************************************************************************)
EXTENDS FiniteSets

CONSTANTS Backends,      \* of those a database may have been opened with
          Db,            \* the database, as a Python object and as a native one
          Conns,         \* connections
          Results,       \* query results
          TableResults,  \* results of create_arrow_table() and its like
          Stmts,         \* prepared statements
          NULL           \* Python's None

Children == Results \cup TableResults \cup Stmts
AllResults == Results \cup TableResults
Objects == {Db} \cup Conns \cup Children

ASSUME HandlesAssumption ==
    /\ Backends \subseteq {"pybind", "capi"}
    /\ NULL \notin Objects
    /\ Db \notin Conns \cup Children
    /\ Conns \cap Children = {}
    /\ AllResults \cap Stmts = {}
    /\ Results \cap TableResults = {}

VARIABLES
    backend,    \* Database._use_pybind_backend
    database,   \* "open", "closing" once is_closed is set, "closed" at the end
    conn,       \* where each connection is in its life: see Phases
    snapshot,   \* connection -> the results its close() goes through
    tracked,    \* the results in the _query_results of their connection
    owner,      \* result -> its self.connection
    leaving,    \* the results in their close() that their connection no longer has
    closing,    \* those of which the native one is closed, or spared
    closed,     \* the results with is_closed set
    cache,      \* statements in the implicit cache of their connection
    held,       \* Python objects the program has a reference to
    handles,    \* objects whose C++ wrapper has a state, or struct a pointer
    live,       \* native objects not destroyed
    uses        \* native object -> the native objects it was made from

pyVars == <<conn, snapshot, tracked, owner, leaving, closing, closed, cache, held>>
vars == <<backend, database, conn, snapshot, tracked, owner, leaving, closing, closed, cache,
          held, handles, live, uses>>

\* "none" before __init__; "results", "native" and "drop" in the tail of close().
Phases == {"none", "open", "results", "native", "drop", "closed"}
Closing(c) == conn[c] \in {"results", "native", "drop"}

TypeOK ==
    /\ backend \in Backends
    /\ database \in {"open", "closing", "closed"}
    /\ conn \in [Conns -> Phases]
    /\ snapshot \in [Conns -> SUBSET AllResults]
    /\ tracked \subseteq AllResults
    /\ owner \in [AllResults -> Conns \cup {NULL}]
    /\ leaving \subseteq AllResults
    /\ closing \subseteq AllResults
    /\ closed \subseteq AllResults
    /\ cache \subseteq Stmts
    /\ held \subseteq Objects
    /\ handles \subseteq live    \* what a wrapper points to is there
    /\ live \subseteq Objects
    /\ uses \in [Objects -> SUBSET Objects]

IsClosed == database # "open"
Fresh(x) == uses[x] = {}

-----------------------------------------------------------------------------
(* Ownership.                                                              *)

\* A result and a prepared statement refer to their connection, a connection to
\* its database; close() has its list of results; the cache belongs to the
\* connection.  What is not among these the garbage collector takes.
Reachable ==
    LET results == leaving \cup closing \cup (UNION {snapshot[c] : c \in Conns})
                     \cup (held \cap AllResults)
        conns == {c \in Conns :
                    \/ c \in held \/ Closing(c)
                    \/ \E r \in results : owner[r] = c
                    \/ \E s \in held \cap Stmts : c \in uses[s]}
    IN  results \cup conns \cup (held \cap Stmts)
          \cup {s \in cache : uses[s] \cap conns # {}}
          \cup {d \in {Db} : Db \in held \/ conns # {} \/ database = "closing"}

\* Mutant: the state of a borrowed result does not point to the first result's.
KeptWithoutParent(h, n) ==
    UNION {s \in SUBSET n : \A x \in s :
               x \in h \/ \E y \in s : x \in uses'[y] \ AllResults}

\* A state lives while a wrapper or the state of another native object has it.
Kept(h, n) ==
    UNION {s \in SUBSET n : \A x \in s : x \in h \/ \E y \in s : x \in uses'[y]}

\* Mutant: the C struct keeps its pointer.
SettleKeepingPointer(dropped, destroyed) ==
    /\ handles' = handles \cap Reachable'
    /\ live' = IF backend = "pybind"
               THEN Kept(handles', live)
               ELSE live \ (destroyed \cup ((handles \ Reachable') \cap Children))

\* Python's wrappers go with what is unreachable.  The pybind ones drop their
\* state; of the C API's only results and statements have a __del__ that destroys.
Settle(dropped, destroyed) ==
    /\ handles' = (handles \ dropped) \cap Reachable'
    /\ live' = IF backend = "pybind"
               THEN Kept(handles', live)
               ELSE live \ (destroyed \cup ((handles \ Reachable') \cap Children))

\* The state of a new object x points to the states in s.
Make(x, s) ==
    /\ Fresh(x)
    /\ uses' = [uses EXCEPT ![x] = s]
    /\ held' = held \cup {x}
    /\ handles' = handles \cup {x}
    /\ live' = live \cup {x}

-----------------------------------------------------------------------------
Init ==
    /\ backend \in Backends
    /\ database = "open"
    /\ conn = [c \in Conns |-> "none"]
    /\ snapshot = [c \in Conns |-> {}]
    /\ tracked = {}
    /\ owner = [r \in AllResults |-> NULL]
    /\ leaving = {}
    /\ closing = {}
    /\ closed = {}
    /\ cache = {}
    /\ held = {Db}
    /\ handles = {Db}
    /\ live = {Db}
    /\ uses = [x \in Objects |-> {}]

\* Connection(database): a closed database raises.
Connect(c) ==
    /\ Db \in held
    /\ ~IsClosed
    /\ conn[c] = "none"
    /\ Make(c, {Db})
    /\ conn' = [conn EXCEPT ![c] = "open"]
    /\ UNCHANGED <<backend, database, snapshot, tracked, owner, leaving, closing, closed, cache>>

\* Every call runs init_connection() first, which checks the database.
Usable(c) == c \in held /\ conn[c] = "open" /\ ~IsClosed

\* execute() of one statement.
Execute(c, r) ==
    /\ Usable(c)
    /\ Make(r, {c})
    /\ owner' = [owner EXCEPT ![r] = c]
    /\ tracked' = tracked \cup {r}
    /\ UNCHANGED <<backend, database, conn, snapshot, leaving, closing, closed, cache>>

\* Mutant: the first result's state points to the next one's, too.
ExecuteTwoInACycle(c, r, next) ==
    /\ Usable(c)
    /\ backend = "pybind"
    /\ r # next /\ Fresh(r) /\ Fresh(next)
    /\ uses' = [uses EXCEPT ![r] = {c, next}, ![next] = {c, r}]
    /\ held' = held \cup {r, next}
    /\ handles' = handles \cup {r, next}
    /\ live' = live \cup {r, next}
    /\ owner' = [owner EXCEPT ![r] = c, ![next] = c]
    /\ tracked' = tracked \cup {r, next}
    /\ UNCHANGED <<backend, database, conn, snapshot, leaving, closing, closed, cache>>

\* execute() of two: the state of the second result borrows from the first's.
ExecuteTwo(c, r, next) ==
    /\ Usable(c)
    /\ backend = "pybind"
    /\ r # next /\ Fresh(r) /\ Fresh(next)
    /\ uses' = [uses EXCEPT ![r] = {c}, ![next] = {c, r}]
    /\ held' = held \cup {r, next}
    /\ handles' = handles \cup {r, next}
    /\ live' = live \cup {r, next}
    /\ owner' = [owner EXCEPT ![r] = c, ![next] = c]
    /\ tracked' = tracked \cup {r, next}
    /\ UNCHANGED <<backend, database, conn, snapshot, leaving, closing, closed, cache>>

\* create_arrow_table(), create_arrow_rel_table(), drop_arrow_table(): their
\* results are not registered with the connection.
TableCall(c, r) ==
    /\ Usable(c)
    /\ Make(r, {c})
    /\ owner' = [owner EXCEPT ![r] = c]
    /\ UNCHANGED <<backend, database, conn, snapshot, tracked, leaving, closing, closed, cache>>

\* prepare(): the statement is the caller's.
Prepare(c, s) ==
    /\ Usable(c)
    /\ Make(s, {c})
    /\ UNCHANGED <<backend, database, conn, snapshot, tracked, owner, leaving, closing, closed,
                   cache>>

\* execute() with parameters that are not in the cache: the statement is kept
\* there, the result goes to the caller.
ExecutePrepared(c, s, r) ==
    /\ Usable(c)
    /\ Fresh(s) /\ Fresh(r)
    /\ uses' = [uses EXCEPT ![s] = {c}, ![r] = {c}]
    /\ held' = held \cup {r}
    /\ handles' = handles \cup {s, r}
    /\ live' = live \cup {s, r}
    /\ cache' = cache \cup {s}
    /\ owner' = [owner EXCEPT ![r] = c]
    /\ tracked' = tracked \cup {r}
    /\ UNCHANGED <<backend, database, conn, snapshot, leaving, closing, closed>>

\* QueryResult.close(): it looks whether the database is closed, and its connection
\* forgets it.  One close() of a result at a time.
Leave(r) ==
    /\ tracked' = tracked \ {r}
    /\ IF IsClosed
       THEN closing' = closing \cup {r} /\ UNCHANGED leaving
       ELSE leaving' = leaving \cup {r} /\ UNCHANGED closing

BeginResult(r) ==
    /\ r \notin leaving \cup closing \cup closed
    /\ Leave(r)
    /\ UNCHANGED <<backend, database, conn, snapshot, owner, closed, cache, held, handles,
                   live, uses>>

UserClosesResult(r) == r \in held /\ BeginResult(r)

\* The native result, unless the database was closed when it looked.
CloseResult(r) ==
    /\ r \in leaving
    /\ leaving' = leaving \ {r}
    /\ closing' = closing \cup {r}
    /\ UNCHANGED <<backend, database, conn, snapshot, tracked, owner, closed, cache, held,
                   uses>>
    /\ Settle({r}, {r})

\* Its end: the result lets go of the connection and is_closed is set.
FinishResult(r) ==
    /\ r \in closing
    /\ closing' = closing \ {r}
    /\ closed' = closed \cup {r}
    /\ owner' = [owner EXCEPT ![r] = NULL]
    /\ UNCHANGED <<backend, database, conn, snapshot, tracked, leaving, cache, held, uses>>
    /\ Settle({}, {})

\* PreparedStatement.close(): the pybind statement has no close, so nothing happens.
CloseStatement(s) ==
    /\ s \in held \cap handles
    /\ backend = "capi"
    /\ UNCHANGED <<backend, database, uses>>
    /\ UNCHANGED pyVars
    /\ Settle({s}, {s})

\* The program forgets an object.  The __del__ of a result closes it, once no close()
\* of its connection has it either.
Dies(r) == r \notin leaving \cup closing \cup closed /\ \A c \in Conns : r \notin snapshot[c]

Forget(x) ==
    /\ x \in held
    /\ held' = held \ {x}
    /\ IF x \in AllResults /\ Dies(x) THEN Leave(x) ELSE UNCHANGED <<tracked, leaving, closing>>
    /\ UNCHANGED <<backend, database, conn, snapshot, owner, closed, cache, uses>>
    /\ Settle({}, {})

-----------------------------------------------------------------------------
(* Connection.close(), after its wait.                                     *)

\* Mutant: the connection is destroyed ahead of its results.
StartCloseWithNative(c) ==
    /\ c \in held
    /\ conn[c] = "open"
    /\ conn' = [conn EXCEPT ![c] = "results"]
    /\ snapshot' = [snapshot EXCEPT ![c] = {r \in tracked : owner[r] = c}]
    /\ UNCHANGED <<backend, database, tracked, owner, leaving, closing, closed, cache, held,
                   uses>>
    /\ LET native == IF IsClosed THEN {} ELSE {c}
       IN  Settle(native, native)

StartClose(c) ==
    /\ c \in held
    /\ conn[c] = "open"
    /\ conn' = [conn EXCEPT ![c] = "results"]
    /\ snapshot' = [snapshot EXCEPT ![c] = {r \in tracked : owner[r] = c}]
    /\ UNCHANGED <<backend, database, tracked, owner, leaving, closing, closed, cache, held,
                   handles, live, uses>>

CloseTracked(c, r) ==
    /\ conn[c] = "results"
    /\ r \in snapshot[c]
    /\ BeginResult(r)

\* Mutant: the cache keeps its statements.
ClearNoCache(c) ==
    /\ conn[c] = "results"
    /\ snapshot[c] \subseteq closed
    /\ conn' = [conn EXCEPT ![c] = "native"]
    /\ snapshot' = [snapshot EXCEPT ![c] = {}]
    /\ tracked' = {r \in tracked : owner[r] # c}
    /\ UNCHANGED <<backend, database, owner, leaving, closing, closed, cache, held, handles,
                   live, uses>>

\* The loop is over; the cache's statements are closed and dropped.
ClearCache(c) ==
    /\ conn[c] = "results"
    /\ snapshot[c] \subseteq closed
    /\ conn' = [conn EXCEPT ![c] = "native"]
    /\ snapshot' = [snapshot EXCEPT ![c] = {}]
    /\ LET mine == {s \in cache : c \in uses[s]}
       IN  /\ cache' = cache \ mine
           /\ tracked' = {r \in tracked : owner[r] # c}
           /\ UNCHANGED <<backend, database, owner, leaving, closing, closed, held, uses>>
           /\ Settle(mine, mine)

\* The native connection is left alone when the database is closed.
CloseNative(c) ==
    /\ conn[c] = "native"
    /\ conn' = [conn EXCEPT ![c] = "drop"]
    /\ UNCHANGED <<backend, database, snapshot, tracked, owner, leaving, closing, closed, cache,
                   held, uses>>
    /\ LET native == IF IsClosed THEN {} ELSE {c}
       IN  Settle(native, native)

\* The handle is dropped all the same, and is_closed is set.
FinishClose(c) ==
    /\ conn[c] = "drop"
    /\ conn' = [conn EXCEPT ![c] = "closed"]
    /\ UNCHANGED <<backend, database, snapshot, tracked, owner, leaving, closing, closed, cache,
                   held, uses>>
    /\ Settle({c}, {})

-----------------------------------------------------------------------------
(* Database.close().                                                       *)

MarkClosed ==
    /\ Db \in held
    /\ database = "open"
    /\ database' = "closing"
    /\ UNCHANGED <<backend, handles, live, uses>>
    /\ UNCHANGED pyVars

CloseDatabase ==
    /\ database = "closing"
    /\ database' = "closed"
    /\ UNCHANGED <<backend, uses>>
    /\ UNCHANGED pyVars
    /\ Settle({Db}, {Db})

Next ==
    \/ \E c \in Conns :
        \/ Connect(c)
        \/ StartClose(c) \/ ClearCache(c) \/ CloseNative(c) \/ FinishClose(c)
        \/ \E r \in Results : Execute(c, r)
        \/ \E r, next \in Results : ExecuteTwo(c, r, next)
        \/ \E r \in TableResults : TableCall(c, r)
        \/ \E s \in Stmts : Prepare(c, s)
        \/ \E s \in Stmts, r \in Results : ExecutePrepared(c, s, r)
        \/ \E r \in AllResults : CloseTracked(c, r)
    \/ \E r \in AllResults : UserClosesResult(r) \/ CloseResult(r) \/ FinishResult(r)
    \/ \E s \in Stmts : CloseStatement(s)
    \/ \E x \in Objects : Forget(x)
    \/ MarkClosed
    \/ CloseDatabase

Spec == Init /\ [][Next]_vars

-----------------------------------------------------------------------------
(* Properties.                                                             *)

\* With pybind no native object is destroyed before one that was made from it,
\* in whatever order the program closes and forgets: a result keeps its
\* connection, the next result its first, a connection its database
\* (py_handle_state.h, py_query_result.cpp:93-96).
OutlivesUsers ==
    backend = "pybind" => \A x \in live : uses[x] \subseteq live

\* With the C API Connection.close() destroys the connection's results and cached
\* statements before the connection (plan.md:29), unless the database has been closed,
\* when it destroys none of them, or another thread is closing the result: the connection
\* does not wait for one that has left it (query_result.py:137-139, connection.py:562).
ClosesChildrenFirst ==
    backend = "capi" /\ database = "open" =>
        \A x \in live \cap ((Results \ leaving) \cup cache) : uses[x] \subseteq live

\* check_for_query_result_close() raises for what is not there: a result that passes
\* it, and is not in its own close(), is live and so is what it reads from.  Results
\* of create_arrow_table() and its like are left out: the C API's connection goes
\* before them, and until its close() ends they pass the check.
PassesCheck(r) ==
    r \notin closed /\ owner[r] # NULL /\ ~IsClosed /\ conn[owner[r]] # "closed"
ChecksSuffice ==
    \A r \in Results \cap Reachable :
        PassesCheck(r) /\ r \notin leaving \cup closing =>
            r \in handles /\ {r} \cup uses[r] \subseteq live

\* A program that forgets everything leaks nothing with pybind (the states have
\* no cycle), and with the C API neither results nor statements.
CollectedIsReleased ==
    /\ held = {} /\ leaving \cup closing = {} /\ database # "closing"
    /\ \A c \in Conns : ~Closing(c)
    =>
        live \subseteq (IF backend = "pybind" THEN {} ELSE {Db} \cup Conns)

\* Database.close() releases the database, and the lock on its files, if results
\* and connections have been closed first and no prepared statement is left: the
\* cached ones went with their connections (database.py:392-400).
AllClosed ==
    /\ database = "closed"
    /\ handles \cap (Conns \cup AllResults) = {}
    /\ leaving \cup closing = {} /\ \A c \in Conns : ~Closing(c)
DatabaseReleased == AllClosed /\ held \cap Stmts = {} => Db \notin live

=============================================================================
