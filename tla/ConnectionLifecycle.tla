------------------------ MODULE ConnectionLifecycle ------------------------
(***************************************************************************)
(* The life of a ladybug Connection under concurrent use: the calls it     *)
(* counts (_tracks_call), the UDFs that the engine runs inside them, and   *)
(* close(), which interrupts the calls in flight, waits for them and tears *)
(* the native handle down (src/src_py/connection.py).                      *)
(*                                                                         *)
(* A thread runs Python one atomic step at a time, holding the GIL for the *)
(* step only; a native call releases the GIL while it is in the engine     *)
(* ("released") or keeps it ("kept"), as py_connection.cpp binds it.  The  *)
(* engine itself is external: a connection runs one call at a time, a call *)
(* compiles and then executes, and an interrupt flag raised while it       *)
(* compiles is cleared when execution starts.                              *)
(***************************************************************************)
EXTENDS Naturals, Sequences, FiniteSets, SequencesExt

CONSTANTS
    Threads,    \* the application's threads
    Main,       \* the main thread: the only one to see KeyboardInterrupt
    Workers,    \* engine threads that run UDFs of a query
    Conns,      \* Connection objects on one database
    UDF,        \* the _UDF marker pushed by _marks_udf_call
    NULL,
    MaxDepth,   \* bound on the entries of one thread's _active stack
    CallKinds,  \* how the native calls in use treat the GIL
    Untracked   \* the operations in use that _tracks_call does not wrap

ASSUME LifecycleAssumption ==
    /\ Main \in Threads
    /\ Threads \cap Workers = {}
    /\ IsFiniteSet(Threads \cup Workers)
    /\ UDF \notin Conns
    /\ NULL \notin Threads \cup Workers \cup Conns
    /\ MaxDepth \in Nat \ {0}
    /\ CallKinds \subseteq {"released", "kept"}
    /\ Untracked \subseteq {"interrupt", "init"}

VARIABLES
    closing,        \* Connection._closing
    isClosed,       \* Connection.is_closed
    callsInFlight,  \* Connection._calls_in_flight
    connection,     \* Connection._connection: None, a live handle or a destroyed one
    stack,          \* _active.stack of each thread, innermost last
    pc,             \* what each thread does on top of its stack
    target,         \* the connection of its close(), interrupt() or init_connection()
    serves,         \* the connection whose query a worker runs a UDF for
    gil,            \* the thread whose native call keeps the GIL
    holder,         \* the thread whose call is in the engine, per connection
    phase,          \* what the engine does with that call
    kept,           \* whether that call keeps the GIL
    interrupted,    \* the engine's interrupt flag of the connection
    older           \* history: <<c, d>> when c was already busy as d became busy

vars == <<closing, isClosed, callsInFlight, connection, stack, pc, target, serves,
          gil, holder, phase, kept, interrupted, older>>
callVars   == <<closing, isClosed, callsInFlight, connection>>
engineVars == <<holder, phase, kept>>

AllThreads == Threads \cup Workers

-----------------------------------------------------------------------------
(* The _active stack.                                                      *)

Push(t, x) == stack' = [stack EXCEPT ![t] = Append(@, x)]
Pop(t)     == stack' = [stack EXCEPT ![t] = Front(@)]
Top(t)     == Last(stack[t])

OnStack(t, c) == \E i \in 1..Len(stack[t]) : stack[t][i] = c

\* Mutant: only the calling thread's own query counts, not a worker's.
CalledFromUdfOfOwnQuery(t, c) ==
    \E i, j \in 1..Len(stack[t]) : i < j /\ stack[t][i] = c /\ stack[t][j] = UDF

\* _called_from_udf: a UDF was entered after this thread's last call on c.
CalledFromUdf(t, c) ==
    \E i \in 1..Len(stack[t]) :
        /\ stack[t][i] = UDF
        /\ \A j \in i..Len(stack[t]) : stack[t][j] # c

\* The thread runs application code: below every call, or inside a UDF.
InUserCode(t) == pc[t] = "user" /\ gil = NULL

\* The thread runs the Python body of the tracked method on top of its stack.
InBody(t) == pc[t] = "body" /\ gil = NULL

Goto(t, label) == pc' = [pc EXCEPT ![t] = label]

Init ==
    /\ closing = [c \in Conns |-> FALSE]
    /\ isClosed = [c \in Conns |-> FALSE]
    /\ callsInFlight = [c \in Conns |-> 0]
    /\ connection = [c \in Conns |-> "live"]
    /\ stack = [t \in AllThreads |-> <<>>]
    /\ pc = [t \in AllThreads |-> IF t \in Threads THEN "user" ELSE "parked"]
    /\ target = [t \in AllThreads |-> NULL]
    /\ serves = [w \in Workers |-> NULL]
    /\ gil = NULL
    /\ holder = [c \in Conns |-> NULL]
    /\ phase = [c \in Conns |-> "idle"]
    /\ kept = [c \in Conns |-> FALSE]
    /\ interrupted = [c \in Conns |-> FALSE]
    /\ older = {}

-----------------------------------------------------------------------------
(* Tracked calls.                                                          *)

Busy == {c \in Conns : callsInFlight[c] > 0}

\* Mutant: the first check of _tracks_call is missing.
MayEnterWhileClosing(t, c) == ~(callsInFlight[c] > 0 /\ CalledFromUdf(t, c))

\* _tracks_call refuses a closing connection, and a busy one to a UDF.
MayEnter(t, c) ==
    /\ ~closing[c]
    /\ ~(callsInFlight[c] > 0 /\ CalledFromUdf(t, c))

\* Mutant: a call nested in another on the same connection is not counted.
EnterUncountedWhenNested(t, c) ==
    /\ \/ InUserCode(t)
       \/ InBody(t) /\ Top(t) = c
    /\ Len(stack[t]) < MaxDepth
    /\ MayEnter(t, c)
    /\ callsInFlight' = [callsInFlight EXCEPT ![c] = IF OnStack(t, c) THEN @ ELSE @ + 1]
    /\ older' = IF c \in Busy THEN older ELSE older \cup (Busy \X {c})
    /\ Push(t, c)
    /\ Goto(t, "body")
    /\ UNCHANGED <<closing, isClosed, connection, target, serves, gil,
                   engineVars, interrupted>>

Enter(t, c) ==
    /\ \/ InUserCode(t)
       \/ InBody(t) /\ Top(t) = c
    /\ Len(stack[t]) < MaxDepth
    /\ MayEnter(t, c)
    /\ callsInFlight' = [callsInFlight EXCEPT ![c] = @ + 1]
    /\ older' = IF c \in Busy THEN older ELSE older \cup (Busy \X {c})
    /\ Push(t, c)
    /\ Goto(t, "body")
    /\ UNCHANGED <<closing, isClosed, connection, target, serves, gil,
                   engineVars, interrupted>>

\* The pair of stack.pop() and the decrement in the wrapper's finally.
Leave(t) ==
    LET c == Top(t)
        below == Front(stack[t])
    IN  /\ InBody(t)
        /\ callsInFlight' = [callsInFlight EXCEPT ![c] = @ - 1]
        /\ older' = IF callsInFlight[c] = 1
                    THEN {p \in older : c \notin {p[1], p[2]}}
                    ELSE older
        /\ Pop(t)
        /\ Goto(t, IF below # <<>> /\ Last(below) \in Conns THEN "body" ELSE "user")
        /\ UNCHANGED <<closing, isClosed, connection, target, serves, gil,
                       engineVars, interrupted>>

\* The body calls the native connection and waits for its turn in the engine.
NativeCall(t, kind) ==
    /\ InBody(t)
    /\ gil' = IF kind = "kept" THEN t ELSE NULL
    /\ Goto(t, "wait")
    /\ UNCHANGED <<callVars, stack, target, serves, engineVars, interrupted, older>>

\* The native call is over: the thread takes the GIL back and resumes the body.
BackToPython(t) ==
    /\ pc[t] = "back"
    /\ gil \in {NULL, t}
    /\ gil' = NULL
    /\ Goto(t, "body")
    /\ UNCHANGED <<callVars, stack, target, serves, engineVars, interrupted, older>>

-----------------------------------------------------------------------------
(* The engine (external): one call at a time on a connection.              *)

EngineTake(t) ==
    LET c == Top(t)
    IN  /\ pc[t] = "wait"
        /\ holder[c] = NULL
        /\ holder' = [holder EXCEPT ![c] = t]
        /\ phase' = [phase EXCEPT ![c] = "compile"]
        /\ kept' = [kept EXCEPT ![c] = (gil = t)]
        /\ Goto(t, "engine")
        /\ UNCHANGED <<callVars, stack, target, serves, gil, interrupted, older>>

EngineStart(t) ==
    LET c == Top(t)
    IN  /\ pc[t] = "engine"
        /\ phase[c] = "compile"
        /\ phase' = [phase EXCEPT ![c] = "execute"]
        /\ interrupted' = [interrupted EXCEPT ![c] = FALSE]
        /\ UNCHANGED <<callVars, stack, pc, target, serves, gil, holder, kept, older>>

\* Compilation fails or is all there was to do, or execution ends.
EngineLeave(t) ==
    LET c == Top(t)
    IN  /\ pc[t] = "engine"
        /\ \A w \in Workers : serves[w] # c
        /\ holder' = [holder EXCEPT ![c] = NULL]
        /\ phase' = [phase EXCEPT ![c] = "idle"]
        /\ kept' = [kept EXCEPT ![c] = FALSE]
        /\ Goto(t, "back")
        /\ UNCHANGED <<callVars, stack, target, serves, gil, interrupted, older>>

\* The engine polls the interrupt flag before it starts a batch of an execution.
StartsBatch(c) == phase[c] = "execute" /\ ~interrupted[c]

\* A UDF folded while binding, or run by the thread that issued the query.
UdfOnCaller(t) ==
    /\ pc[t] = "engine"
    /\ phase[Top(t)] = "compile" \/ StartsBatch(Top(t))
    /\ Len(stack[t]) < MaxDepth
    /\ Goto(t, "wantgil")
    /\ UNCHANGED <<callVars, stack, target, serves, gil, engineVars, interrupted, older>>

\* A UDF run by an engine thread; a call that keeps the GIL runs none there.
UdfOnWorker(w, c) ==
    /\ pc[w] = "parked"
    /\ StartsBatch(c)
    /\ ~kept[c]
    /\ serves' = [serves EXCEPT ![w] = c]
    /\ Goto(w, "wantgil")
    /\ UNCHANGED <<callVars, stack, target, gil, engineVars, interrupted, older>>

EnterUdf(t) ==
    /\ pc[t] = "wantgil"
    /\ gil \in {NULL, t}
    /\ gil' = NULL
    /\ Push(t, UDF)
    /\ Goto(t, "user")
    /\ UNCHANGED <<callVars, target, serves, engineVars, interrupted, older>>

LeaveUdfOnCaller(t) ==
    LET below == Front(stack[t])
    IN  /\ InUserCode(t)
        /\ below # <<>>
        /\ gil' = IF kept[Last(below)] THEN t ELSE NULL
        /\ Pop(t)
        /\ Goto(t, "engine")
        /\ UNCHANGED <<callVars, target, serves, engineVars, interrupted, older>>

LeaveUdfOnWorker(w) ==
    /\ InUserCode(w)
    /\ stack[w] = <<UDF>>
    /\ serves' = [serves EXCEPT ![w] = NULL]
    /\ Pop(w)
    /\ Goto(w, "parked")
    /\ UNCHANGED <<callVars, target, gil, engineVars, interrupted, older>>

-----------------------------------------------------------------------------
(* close(), one atomic section at a time.                                  *)

\* Mutant: close() does not ask whether a UDF calls it.
MayCloseFromUdf(t, c) == ~OnStack(t, c)

\* The checks at the top of close() that raise.
MayClose(t, c) ==
    /\ ~OnStack(t, c)
    /\ ~(~isClosed[c] /\ ~closing[c] /\ callsInFlight[c] > 0 /\ CalledFromUdf(t, c))

CloseBegin(t, c) ==
    /\ InUserCode(t)
    /\ MayClose(t, c)
    /\ ~isClosed[c]
    /\ ~closing[c]
    /\ closing' = [closing EXCEPT ![c] = TRUE]
    /\ target' = [target EXCEPT ![t] = c]
    /\ Goto(t, "close")
    /\ UNCHANGED <<isClosed, callsInFlight, connection, stack, serves, gil,
                   engineVars, interrupted, older>>

\* Another thread closes the connection, or has closed it: nothing to do.
CloseAgain(t, c) ==
    /\ InUserCode(t)
    /\ MayClose(t, c)
    /\ isClosed[c] \/ closing[c]
    /\ target' = [target EXCEPT ![t] = c]
    /\ Goto(t, "returned")
    /\ UNCHANGED <<callVars, stack, serves, gil, engineVars, interrupted, older>>

\* Mutant: the interrupt is sent ahead of the query's execution only.
CloseInterruptEarly(t) ==
    LET c == target[t]
    IN  /\ pc[t] = "close" /\ gil = NULL
        /\ callsInFlight[c] > 0
        /\ interrupted' = [interrupted EXCEPT ![c] = phase[c] # "execute" \/ @]
        /\ UNCHANGED <<callVars, stack, pc, target, serves, gil, engineVars, older>>

\* One round of the loop: interrupt, then wait for a notification or 50 ms.
CloseInterrupt(t) ==
    LET c == target[t]
    IN  /\ pc[t] = "close" /\ gil = NULL
        /\ callsInFlight[c] > 0
        /\ interrupted' = [interrupted EXCEPT ![c] = connection[c] = "live" \/ @]
        /\ UNCHANGED <<callVars, stack, pc, target, serves, gil, engineVars, older>>

\* Mutant: the except clause also covers the teardown.
CloseAbortAnywhere(t) ==
    /\ pc[t] \in {"close", "destroy", "clear", "finish"} /\ gil = NULL
    /\ t = Main
    /\ closing' = [closing EXCEPT ![target[t]] = FALSE]
    /\ target' = [target EXCEPT ![t] = NULL]
    /\ Goto(t, "user")
    /\ UNCHANGED <<isClosed, callsInFlight, connection, stack, serves, gil,
                   engineVars, interrupted, older>>

\* KeyboardInterrupt during the wait: the connection stays usable.
CloseAbort(t) ==
    /\ pc[t] = "close" /\ gil = NULL
    /\ t = Main
    /\ closing' = [closing EXCEPT ![target[t]] = FALSE]
    /\ target' = [target EXCEPT ![t] = NULL]
    /\ Goto(t, "user")
    /\ UNCHANGED <<isClosed, callsInFlight, connection, stack, serves, gil,
                   engineVars, interrupted, older>>

CloseProceed(t) ==
    /\ pc[t] = "close" /\ gil = NULL
    /\ callsInFlight[target[t]] = 0
    /\ Goto(t, "destroy")
    /\ UNCHANGED <<callVars, stack, target, serves, gil, engineVars, interrupted, older>>

\* The teardown: results and cached statements, then the native connection.
CloseNative(t) ==
    LET c == target[t]
    IN  /\ pc[t] = "destroy" /\ gil = NULL
        /\ connection' = [connection EXCEPT ![c] = IF @ = "live" THEN "destroyed" ELSE @]
        /\ Goto(t, "clear")
        /\ UNCHANGED <<closing, isClosed, callsInFlight, stack, target, serves, gil,
                       engineVars, interrupted, older>>

CloseClear(t) ==
    /\ pc[t] = "clear" /\ gil = NULL
    /\ connection' = [connection EXCEPT ![target[t]] = "none"]
    /\ Goto(t, "finish")
    /\ UNCHANGED <<closing, isClosed, callsInFlight, stack, target, serves, gil,
                   engineVars, interrupted, older>>

CloseFinish(t) ==
    /\ pc[t] = "finish" /\ gil = NULL
    /\ isClosed' = [isClosed EXCEPT ![target[t]] = TRUE]
    /\ Goto(t, "returned")
    /\ UNCHANGED <<closing, callsInFlight, connection, stack, target, serves, gil,
                   engineVars, interrupted, older>>

CloseReturn(t) ==
    /\ pc[t] = "returned" /\ gil = NULL
    /\ target' = [target EXCEPT ![t] = NULL]
    /\ Goto(t, "user")
    /\ UNCHANGED <<callVars, stack, serves, gil, engineVars, interrupted, older>>

-----------------------------------------------------------------------------
(* interrupt() and init_connection(), which no counter tracks.             *)

\* interrupt() reads self._connection; on None it does nothing.
InterruptRead(t, c) ==
    /\ InUserCode(t)
    /\ "interrupt" \in Untracked
    /\ connection[c] # "none"
    /\ target' = [target EXCEPT ![t] = c]
    /\ Goto(t, "interrupt")
    /\ UNCHANGED <<callVars, stack, serves, gil, engineVars, interrupted, older>>

\* The call on the handle it read raises if the handle is closed by now.
InterruptCall(t) ==
    LET c == target[t]
    IN  /\ pc[t] = "interrupt" /\ gil = NULL
        /\ interrupted' = [interrupted EXCEPT ![c] = connection[c] = "live" \/ @]
        /\ target' = [target EXCEPT ![t] = NULL]
        /\ Goto(t, "user")
        /\ UNCHANGED <<callVars, stack, serves, gil, engineVars, older>>

\* init_connection() checks is_closed, then creates the handle if there is none.
InitCheck(t, c) ==
    /\ InUserCode(t)
    /\ "init" \in Untracked
    /\ ~isClosed[c]
    /\ target' = [target EXCEPT ![t] = c]
    /\ Goto(t, "init")
    /\ UNCHANGED <<callVars, stack, serves, gil, engineVars, interrupted, older>>

InitCreate(t) ==
    LET c == target[t]
    IN  /\ pc[t] = "init" /\ gil = NULL
        /\ connection' = [connection EXCEPT ![c] = IF @ = "none" THEN "live" ELSE @]
        /\ target' = [target EXCEPT ![t] = NULL]
        /\ Goto(t, "user")
        /\ UNCHANGED <<closing, isClosed, callsInFlight, stack, serves, gil,
                       engineVars, interrupted, older>>

-----------------------------------------------------------------------------

Call(t) ==
    \/ \E c \in Conns : Enter(t, c)
    \/ Leave(t)
    \/ \E kind \in CallKinds : NativeCall(t, kind)
    \/ BackToPython(t)

Engine(t) ==
    \/ EngineTake(t)
    \/ EngineStart(t)
    \/ EngineLeave(t)
    \/ UdfOnCaller(t)
    \/ EnterUdf(t)
    \/ LeaveUdfOnCaller(t)

Close(t) ==
    \/ \E c \in Conns : CloseBegin(t, c) \/ CloseAgain(t, c)
    \/ CloseInterrupt(t)
    \/ CloseAbort(t)
    \/ CloseProceed(t)
    \/ CloseNative(t)
    \/ CloseClear(t)
    \/ CloseFinish(t)
    \/ CloseReturn(t)

Uncounted(t) ==
    \/ \E c \in Conns : InterruptRead(t, c) \/ InitCheck(t, c)
    \/ InterruptCall(t)
    \/ InitCreate(t)

WorkerUdf(w) == LeaveUdfOnWorker(w) \/ \E c \in Conns : UdfOnWorker(w, c)

Next ==
    \/ \E t \in AllThreads : Call(t) \/ Engine(t) \/ Close(t) \/ Uncounted(t)
    \/ \E w \in Workers : WorkerUdf(w)

Spec == Init /\ [][Next]_vars

-----------------------------------------------------------------------------
(* Invariants.                                                             *)

CloserLabels == {"close", "destroy", "clear", "finish"}
TailLabels   == {"destroy", "clear", "finish"}
Labels == {"user", "parked", "body", "wait", "engine", "wantgil", "back", "returned",
           "interrupt", "init"} \cup CloserLabels

\* The variables hold values of the kind the code keeps in them.
TypeOK ==
    /\ closing \in [Conns -> BOOLEAN]
    /\ isClosed \in [Conns -> BOOLEAN]
    /\ callsInFlight \in [Conns -> Nat]
    /\ connection \in [Conns -> {"none", "live", "destroyed"}]
    /\ stack \in [AllThreads -> Seq(Conns \cup {UDF})]
    /\ pc \in [AllThreads -> Labels]
    /\ target \in [AllThreads -> Conns \cup {NULL}]
    /\ serves \in [Workers -> Conns \cup {NULL}]
    /\ gil \in AllThreads \cup {NULL}
    /\ holder \in [Conns -> AllThreads \cup {NULL}]
    /\ phase \in [Conns -> {"idle", "compile", "execute"}]
    /\ kept \in [Conns -> BOOLEAN]
    /\ interrupted \in [Conns -> BOOLEAN]
    /\ older \in SUBSET (Conns \X Conns)

Frames(c) ==
    {f \in AllThreads \X (1..MaxDepth) :
        f[2] <= Len(stack[f[1]]) /\ stack[f[1]][f[2]] = c}

\* _calls_in_flight counts exactly the calls on the threads' stacks, nested
\* ones and those made from UDFs included: close() waits for all of them and
\* for nothing else (connection.py 343-361).
InFlightCountsFrames == \A c \in Conns : callsInFlight[c] = Cardinality(Frames(c))

TearingDown(t, c) == target[t] = c /\ pc[t] \in TailLabels

\* From the moment close() stops waiting, no thread is inside a call of the
\* connection and none waits for its engine or runs in it: the teardown of the
\* native handle races with nothing that counts itself in (connection.py 547-591).
TeardownIsAlone ==
    \A c \in Conns :
        isClosed[c] \/ (\E t \in AllThreads : TearingDown(t, c)) =>
            /\ holder[c] = NULL
            /\ \A u \in AllThreads : ~OnStack(u, c)

\* Two threads never both run the part of close() that sets _closing, waits
\* and tears down (connection.py 540-547), and a closed connection has no closer.
OneCloser ==
    \A t \in AllThreads :
        pc[t] \in CloserLabels =>
            /\ closing[target[t]]
            /\ ~isClosed[target[t]]
            /\ \A u \in AllThreads :
                pc[u] \in CloserLabels /\ target[u] = target[t] => u = t

\* close() called from a UDF never waits: it raises if the connection has a
\* call in flight, which might be the query that runs the UDF, and otherwise
\* finds the connection idle until it is done (connection.py 542-546).
UdfNeverWaitsInClose ==
    \A t \in AllThreads :
        pc[t] = "close" /\ OnStack(t, UDF) => callsInFlight[target[t]] = 0

\* Connection c cannot finish its query before d does: a UDF of the query on c
\* is in a call on d.
WaitsForConnection(c, d) ==
    \E t \in AllThreads :
        \/ /\ t \in Workers
           /\ serves[t] = c
           /\ OnStack(t, d)
        \/ \E i, j, k \in 1..Len(stack[t]) :
            i < j /\ j < k /\ stack[t][i] = c /\ stack[t][j] = UDF /\ stack[t][k] = d

\* A query only ever waits, through a UDF, for a connection that became busy
\* after its own, and "became busy after" is a strict order: so connections
\* never wait for each other in a circle (connection.py 347-353).
UdfWaitsAreOrdered ==
    /\ \A c, d \in Conns : WaitsForConnection(c, d) => <<c, d>> \in older
    /\ \A c \in Conns : <<c, c>> \notin older
    /\ \A b, c, d \in Conns :
        <<b, c>> \in older /\ <<c, d>> \in older => <<b, d>> \in older

\* Thread t cannot go on before thread u does something.
Waits(t, u) ==
    \/ pc[t] = "wait" /\ holder[Top(t)] = u
    \/ pc[t] = "close" /\ OnStack(u, target[t])
    \/ pc[t] = "engine" /\ u \in Workers /\ serves[u] = Top(t)
    \/ pc[t] \in {"wantgil", "back"} /\ gil = u /\ u # t

\* No set of threads waits for itself: with the refusals of _tracks_call and
\* close(), no combination of calls, UDFs and closers deadlocks.
NoCircularWait ==
    \A D \in SUBSET AllThreads :
        D # {} => \E t \in D : \A u \in D : ~Waits(t, u)

\* What an aborted close() reopens is usable: only the waiting phase of close()
\* ever resets _closing, never the teardown (connection.py 555-560).
AbortReopensUsable ==
    [][\A c \in Conns :
        closing[c] /\ ~closing'[c] =>
            /\ connection[c] = "live"
            /\ ~isClosed'[c]
            /\ \A t \in AllThreads : ~TearingDown(t, c)]_vars

-----------------------------------------------------------------------------
(* Liveness.                                                               *)

\* The engine sees the interrupt flag in a query it executes.
EngineYields(t) == pc[t] = "engine" /\ interrupted[Top(t)] /\ EngineLeave(t)

\* Weak fairness where a step stays enabled until it is taken.  Strong fairness
\* on what other steps of the same thread may disable for a while: a tracked
\* method makes finitely many native calls, compilation folds finitely many
\* UDFs, and a UDF ends.  An execution nobody interrupts may last forever.
Fairness ==
    /\ \A t \in AllThreads :
        /\ SF_vars(Leave(t))
        /\ WF_vars(BackToPython(t))
        /\ WF_vars(EngineTake(t))
        /\ SF_vars(EngineStart(t))
        /\ WF_vars(EngineYields(t))
        /\ WF_vars(EnterUdf(t))
        /\ SF_vars(LeaveUdfOnCaller(t))
        /\ WF_vars(CloseInterrupt(t))
        /\ WF_vars(CloseProceed(t))
        /\ WF_vars(CloseNative(t) \/ CloseClear(t) \/ CloseFinish(t) \/ CloseReturn(t))
        /\ WF_vars(InterruptCall(t) \/ InitCreate(t))
    /\ \A w \in Workers : SF_vars(LeaveUdfOnWorker(w))

FairSpec == Spec /\ Fairness

\* Every close() returns or is aborted, however long the query would have run
\* and wherever in it the interrupt arrives (connection.py 549-554).
CloseEnds == \A t \in Threads : pc[t] = "close" ~> pc[t] \in {"user", "returned"}

=============================================================================
