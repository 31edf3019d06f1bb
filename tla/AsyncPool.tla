----------------------------- MODULE AsyncPool -----------------------------
(***************************************************************************)
(* AsyncConnection (src/src_py/async_connection.py): a pool of connections,*)
(* a thread pool of the same size and an event loop whose tasks await what *)
(* the threads compute.                                                    *)
(*                                                                         *)
(* The loop runs one task at a time, from one await to the next, but the   *)
(* threads interleave with it: "loop" is the task between two awaits.  A   *)
(* "with self.lock" block is one step.  ThreadPoolExecutor and asyncio are *)
(* external: submit() is a queue, a finished future runs its callbacks one *)
(* by one on the thread that finished it, or at once when they are added   *)
(* later, and asyncio.wrap_future posts the result to the loop.  The calls *)
(* themselves are those of ConnectionLifecycle, reduced to what the pool   *)
(* can see: counted in, compiling, executing, counted out.                 *)
(***************************************************************************)
EXTENDS Naturals, Sequences, FiniteSets, SequencesExt, FiniteSetsExt

CONSTANTS
    Calls,        \* calls of execute() or prepare(), each awaited by one task
    PoolSize,     \* max_concurrent_queries: connections and threads
    NumConns,     \* connections in all: a prepared statement may bring its own
    MaxAcquired,  \* bound on connections acquired and not yet released
    Closer,       \* whoever calls close() on the loop's own thread
    NULL

ASSUME PoolAssumption ==
    /\ PoolSize \in Nat \ {0}
    /\ NumConns \in Nat
    /\ PoolSize <= NumConns
    /\ MaxAcquired \in Nat
    /\ IsFiniteSet(Calls)
    /\ NULL \notin Calls \cup Nat \cup {Closer}
    /\ Closer \notin Calls

Pool  == 1..PoolSize
Conns == 1..NumConns

VARIABLES
    counter,      \* connections_counter
    acquired,     \* connections handed out by acquire_connection
    queue,        \* the executor's work queue
    loop,         \* the task the event loop is running, or close()
    task,         \* where each call's task is
    conn,         \* the connection chosen for the call
    future,       \* the state of the executor's future
    callbacks,    \* its done callbacks still to run
    posted,       \* the result is posted to the loop
    cancelled,    \* _Call.cancelled
    repeat,       \* a call_later(0.05, __cancel) is scheduled
    work,         \* where the thread that runs the call is
    lockOf,       \* _connection_locks
    running,      \* _running
    closing,      \* Connection._closing
    handle,       \* Connection._connection: live, destroyed or none
    interruptedBy,\* the calls whose cancellation, or the NULL of the close() that,
                  \* raised the engine's interrupt flag: it is up when this is not empty
    closer,       \* where AsyncConnection.close() is
    at            \* the connection it closes

taskVars   == <<loop, task, conn, posted, repeat>>
futureVars == <<future, callbacks>>
connVars   == <<closing, handle>>
closeVars  == <<closer, at>>
vars == <<counter, acquired, queue, taskVars, futureVars, cancelled, work, lockOf, running,
          connVars, interruptedBy, closeVars>>

Init ==
    /\ counter = [c \in Pool |-> 0]
    /\ acquired = [c \in Pool |-> 0]
    /\ queue = <<>>
    /\ loop = NULL
    /\ task = [k \in Calls |-> "new"]
    /\ conn = [k \in Calls |-> NULL]
    /\ future = [k \in Calls |-> "none"]
    /\ callbacks = [k \in Calls |-> <<>>]
    /\ posted = [k \in Calls |-> FALSE]
    /\ cancelled = [k \in Calls |-> FALSE]
    /\ repeat = [k \in Calls |-> FALSE]
    /\ work = [k \in Calls |-> "none"]
    /\ lockOf = [c \in Conns |-> NULL]
    /\ running = [c \in Conns |-> NULL]
    /\ closing = [c \in Conns |-> FALSE]
    /\ handle = [c \in Conns |-> "live"]
    /\ interruptedBy = [c \in Conns |-> {}]
    /\ closer = "idle"
    /\ at = 1

-----------------------------------------------------------------------------
(* Slots.                                                                  *)

\* connections_counter.index(min(connections_counter))
LeastQueried ==
    Min({c \in Pool : \A d \in Pool : counter[c] <= counter[d]})

Count(c) == counter' = [counter EXCEPT ![c] = @ + 1]

\* __decrement_connection_counter
Decrement(c) == counter' = [counter EXCEPT ![c] = IF @ > 0 THEN @ - 1 ELSE 0]

Acquire ==
    LET c == LeastQueried
    IN  /\ MapThenSumSet(LAMBDA d : acquired[d], Pool) < MaxAcquired
        /\ Count(c)
        /\ acquired' = [acquired EXCEPT ![c] = @ + 1]
        /\ UNCHANGED <<queue, taskVars, futureVars, cancelled, work, lockOf, running,
                       connVars, interruptedBy, closeVars>>

Release(c) ==
    /\ acquired[c] > 0
    /\ Decrement(c)
    /\ acquired' = [acquired EXCEPT ![c] = @ - 1]
    /\ UNCHANGED <<queue, taskVars, futureVars, cancelled, work, lockOf, running,
                   connVars, interruptedBy, closeVars>>

-----------------------------------------------------------------------------
(* The task: execute() and __submit().                                     *)

Step(k, from, to) == task[k] = from /\ task' = [task EXCEPT ![k] = to]

\* Mutant: the connection after the one that was counted is used.
ChooseNext(k) ==
    /\ loop = NULL
    /\ Step(k, "new", "submit")
    /\ loop' = k
    /\ conn' = [conn EXCEPT ![k] = LeastQueried + 1]
    /\ Count(LeastQueried)
    /\ UNCHANGED <<acquired, queue, posted, repeat, futureVars, cancelled, work, lockOf,
                   running, connVars, interruptedBy, closeVars>>

\* A query string takes a slot of the least queried connection.
ChooseLeast(k) ==
    /\ loop = NULL
    /\ Step(k, "new", "submit")
    /\ loop' = k
    /\ conn' = [conn EXCEPT ![k] = LeastQueried]
    /\ Count(LeastQueried)
    /\ UNCHANGED <<acquired, queue, posted, repeat, futureVars, cancelled, work, lockOf,
                   running, connVars, interruptedBy, closeVars>>

\* A prepared statement takes one of its own connection, if that is in the pool.
ChoosePrepared(k, c) ==
    /\ loop = NULL
    /\ Step(k, "new", "submit")
    /\ loop' = k
    /\ conn' = [conn EXCEPT ![k] = c]
    /\ IF c \in Pool THEN Count(c) ELSE UNCHANGED counter
    /\ UNCHANGED <<acquired, queue, posted, repeat, futureVars, cancelled, work, lockOf,
                   running, connVars, interruptedBy, closeVars>>

Shutdown == closer \in {"join", "done"}

Submit(k) ==
    /\ Step(k, "submit", "attach")
    /\ ~Shutdown
    /\ queue' = Append(queue, k)
    /\ future' = [future EXCEPT ![k] = "pending"]
    /\ work' = [work EXCEPT ![k] = "queued"]
    /\ UNCHANGED <<counter, acquired, loop, conn, posted, repeat, callbacks, cancelled,
                   lockOf, running, connVars, interruptedBy, closeVars>>

SubmitRefused(k) ==
    /\ Step(k, "submit", "refused")
    /\ Shutdown
    /\ loop' = NULL
    /\ IF conn[k] \in Pool THEN Decrement(conn[k]) ELSE UNCHANGED counter
    /\ UNCHANGED <<acquired, queue, conn, posted, repeat, futureVars, cancelled, work,
                   lockOf, running, connVars, interruptedBy, closeVars>>

\* Mutant: the slot is released with the awaiting task, not with the work.
AttachNothing(k) ==
    /\ Step(k, "attach", "wrap")
    /\ IF conn[k] \in Pool THEN Decrement(conn[k]) ELSE UNCHANGED counter
    /\ UNCHANGED <<acquired, queue, loop, conn, posted, repeat, futureVars, cancelled,
                   work, lockOf, running, connVars, interruptedBy, closeVars>>

\* add_done_callback runs the callback at once on a future that is done.
Attach(k) ==
    /\ Step(k, "attach", "wrap")
    /\ CASE conn[k] \notin Pool -> UNCHANGED <<counter, callbacks>>
         [] conn[k] \in Pool /\ future[k] = "finished" ->
                Decrement(conn[k]) /\ UNCHANGED callbacks
         [] OTHER ->
                /\ callbacks' = [callbacks EXCEPT ![k] = Append(@, "release")]
                /\ UNCHANGED counter
    /\ UNCHANGED <<acquired, queue, loop, conn, posted, repeat, future, cancelled, work,
                   lockOf, running, connVars, interruptedBy, closeVars>>

Wrap(k) ==
    /\ Step(k, "wrap", "await")
    /\ loop' = NULL
    /\ IF future[k] = "finished"
       THEN posted' = [posted EXCEPT ![k] = TRUE] /\ UNCHANGED callbacks
       ELSE callbacks' = [callbacks EXCEPT ![k] = Append(@, "post")] /\ UNCHANGED posted
    /\ UNCHANGED <<counter, acquired, queue, conn, repeat, future, cancelled, work, lockOf,
                   running, connVars, interruptedBy, closeVars>>

Deliver(k) ==
    /\ loop = NULL
    /\ posted[k]
    /\ Step(k, "await", "answered")
    /\ UNCHANGED <<counter, acquired, queue, loop, conn, posted, repeat, futureVars,
                   cancelled, work, lockOf, running, connVars, interruptedBy, closeVars>>

-----------------------------------------------------------------------------
(* Cancellation.                                                           *)

\* task.cancel(): a future that no thread has taken is cancelled with it, and
\* its callbacks run on the loop.
CancelTask(k) ==
    /\ loop = NULL
    /\ Step(k, "await", "unwind")
    /\ IF future[k] = "pending"
       THEN /\ future' = [future EXCEPT ![k] = "cancelled"]
            /\ callbacks' = [callbacks EXCEPT ![k] = <<>>]
            /\ work' = [work EXCEPT ![k] = "done"]
            /\ IF conn[k] \in Pool THEN Decrement(conn[k]) ELSE UNCHANGED counter
       ELSE UNCHANGED <<counter, futureVars, work>>
    /\ UNCHANGED <<acquired, queue, loop, conn, posted, repeat, cancelled, lockOf, running,
                   connVars, interruptedBy, closeVars>>

IsRunning(k) == running[conn[k]] = k

RaiseFlag(k, reached) ==
    interruptedBy' = IF reached THEN [interruptedBy EXCEPT ![conn[k]] = @ \cup {k}]
                                ELSE interruptedBy

\* Mutant: whatever the connection runs is interrupted.
InterruptConnection(k) ==
    /\ cancelled' = [cancelled EXCEPT ![k] = TRUE]
    /\ RaiseFlag(k, handle[conn[k]] = "live")
    /\ repeat' = [repeat EXCEPT ![k] = IsRunning(k)]

\* Mutant: the interrupt is not repeated.
InterruptOnce(k) ==
    /\ cancelled' = [cancelled EXCEPT ![k] = TRUE]
    /\ RaiseFlag(k, IsRunning(k) /\ handle[conn[k]] = "live")
    /\ UNCHANGED repeat

\* __cancel: interrupt() of the pybind backend raises on a handle that is closed
\* but not yet None, and then nothing is scheduled.
InterruptCall(k) ==
    /\ cancelled' = [cancelled EXCEPT ![k] = TRUE]
    /\ RaiseFlag(k, IsRunning(k) /\ handle[conn[k]] = "live")
    /\ repeat' = [repeat EXCEPT ![k] = IsRunning(k) /\ handle[conn[k]] # "destroyed"]

Unwind(k) ==
    /\ loop = NULL
    /\ Step(k, "unwind", IF IsRunning(k) /\ handle[conn[k]] = "destroyed"
                         THEN "failed" ELSE "cancelled")
    /\ InterruptCall(k)
    /\ UNCHANGED <<counter, acquired, queue, loop, conn, posted, futureVars, work, lockOf,
                   running, connVars, closeVars>>

RepeatCancel(k) ==
    /\ loop = NULL
    /\ repeat[k]
    /\ InterruptCall(k)
    /\ UNCHANGED <<counter, acquired, queue, loop, task, conn, posted, futureVars, work,
                   lockOf, running, connVars, closeVars>>

-----------------------------------------------------------------------------
(* A thread of the executor: __run().                                      *)

Become(k, from, to) == work[k] = from /\ work' = [work EXCEPT ![k] = to]

OnThread(k) == work[k] \notin {"none", "queued", "done"}
IdleThread  == Cardinality({k \in Calls : OnThread(k)}) < PoolSize

Take(k) ==
    /\ IdleThread
    /\ queue # <<>> /\ Head(queue) = k
    /\ future[k] = "pending"
    /\ queue' = Tail(queue)
    /\ future' = [future EXCEPT ![k] = "running"]
    /\ Become(k, "queued", "turn")
    /\ UNCHANGED <<counter, acquired, taskVars, callbacks, cancelled, lockOf, running,
                   connVars, interruptedBy, closeVars>>

TakeCancelled(k) ==
    /\ IdleThread
    /\ queue # <<>> /\ Head(queue) = k
    /\ future[k] = "cancelled"
    /\ queue' = Tail(queue)
    /\ UNCHANGED <<counter, acquired, taskVars, futureVars, cancelled, work, lockOf,
                   running, connVars, interruptedBy, closeVars>>

LockConnection(k) ==
    /\ Become(k, "turn", "locked")
    /\ lockOf[conn[k]] = NULL
    /\ lockOf' = [lockOf EXCEPT ![conn[k]] = k]
    /\ UNCHANGED <<counter, acquired, queue, taskVars, futureVars, cancelled, running,
                   connVars, interruptedBy, closeVars>>

\* Mutant: the flag is not looked at once the connection is free.
StartUnchecked(k) ==
    /\ Become(k, "locked", "start")
    /\ running' = [running EXCEPT ![conn[k]] = k]
    /\ UNCHANGED <<counter, acquired, queue, taskVars, futureVars, cancelled, lockOf,
                   connVars, interruptedBy, closeVars>>

Start(k) ==
    /\ Become(k, "locked", "start")
    /\ ~cancelled[k]
    /\ running' = [running EXCEPT ![conn[k]] = k]
    /\ UNCHANGED <<counter, acquired, queue, taskVars, futureVars, cancelled, lockOf,
                   connVars, interruptedBy, closeVars>>

SkipCancelled(k) ==
    /\ Become(k, "locked", "unlock")
    /\ cancelled[k]
    /\ UNCHANGED <<counter, acquired, queue, taskVars, futureVars, cancelled, lockOf,
                   running, connVars, interruptedBy, closeVars>>

\* fn(*args): _tracks_call counts it in, or refuses it on a closing connection.
EnterCall(k) ==
    /\ Become(k, "start", "compile")
    /\ ~closing[conn[k]]
    /\ UNCHANGED <<counter, acquired, queue, taskVars, futureVars, cancelled, lockOf,
                   running, connVars, interruptedBy, closeVars>>

RefuseCall(k) ==
    /\ Become(k, "start", "unregister")
    /\ closing[conn[k]]
    /\ UNCHANGED <<counter, acquired, queue, taskVars, futureVars, cancelled, lockOf,
                   running, connVars, interruptedBy, closeVars>>

EngineStart(k) ==
    /\ Become(k, "compile", "execute")
    /\ interruptedBy' = [interruptedBy EXCEPT ![conn[k]] = {}]
    /\ UNCHANGED <<counter, acquired, queue, taskVars, futureVars, cancelled, lockOf,
                   running, connVars, closeVars>>

\* The call is back in Python and _tracks_call counts it out.
EngineLeave(k) ==
    /\ Become(k, "compile", "unregister") \/ Become(k, "execute", "unregister")
    /\ UNCHANGED <<counter, acquired, queue, taskVars, futureVars, cancelled, lockOf,
                   running, connVars, interruptedBy, closeVars>>

Unregister(k) ==
    /\ Become(k, "unregister", "unlock")
    /\ running' = [running EXCEPT ![conn[k]] = NULL]
    /\ UNCHANGED <<counter, acquired, queue, taskVars, futureVars, cancelled, lockOf,
                   connVars, interruptedBy, closeVars>>

Unlock(k) ==
    /\ Become(k, "unlock", "result")
    /\ lockOf' = [lockOf EXCEPT ![conn[k]] = NULL]
    /\ UNCHANGED <<counter, acquired, queue, taskVars, futureVars, cancelled, running,
                   connVars, interruptedBy, closeVars>>

\* The thread is free again when the callbacks that are registered have run.
Callbacks(left) == IF left = <<>> THEN "done" ELSE "callbacks"

SetResult(k) ==
    /\ Become(k, "result", Callbacks(callbacks[k]))
    /\ future' = [future EXCEPT ![k] = "finished"]
    /\ UNCHANGED <<counter, acquired, queue, taskVars, callbacks, cancelled, lockOf,
                   running, connVars, interruptedBy, closeVars>>

RunCallback(k) ==
    /\ callbacks[k] # <<>>
    /\ callbacks' = [callbacks EXCEPT ![k] = Tail(@)]
    /\ Become(k, "callbacks", Callbacks(Tail(callbacks[k])))
    /\ IF Head(callbacks[k]) = "release"
       THEN Decrement(conn[k]) /\ UNCHANGED posted
       ELSE posted' = [posted EXCEPT ![k] = TRUE] /\ UNCHANGED counter
    /\ UNCHANGED <<acquired, queue, loop, task, conn, repeat, future, cancelled, lockOf,
                   running, connVars, interruptedBy, closeVars>>

-----------------------------------------------------------------------------
(* close(), on the loop's thread or another: each connection's close(), then *)
(* shutdown.  It awaits nothing: on the loop, no task and no timer runs until *)
(* it returns.                                                                *)

InFlight(c) == {k \in Calls : conn[k] = c /\ work[k] \in {"compile", "execute"}}

Proceed(from, to) == closer = from /\ closer' = to

LeaveLoop == loop' = IF loop = Closer THEN NULL ELSE loop

CloseStart ==
    /\ Proceed("idle", "begin")
    /\ loop' = loop \/ (loop = NULL /\ loop' = Closer)
    /\ UNCHANGED <<counter, acquired, queue, task, conn, posted, repeat, futureVars, cancelled, work, lockOf,
                   running, connVars, interruptedBy, at>>

CloseBegin ==
    /\ Proceed("begin", "wait")
    /\ at \in Pool
    /\ ~closing[at]
    /\ closing' = [closing EXCEPT ![at] = TRUE]
    /\ UNCHANGED <<counter, acquired, queue, taskVars, futureVars, cancelled, work, lockOf,
                   running, handle, interruptedBy, at>>

\* An earlier close() that was aborted has closed this connection.
CloseSkip ==
    /\ closer = "begin"
    /\ at \in Pool
    /\ closing[at]
    /\ at' = at + 1
    /\ UNCHANGED <<counter, acquired, queue, taskVars, futureVars, cancelled, work, lockOf,
                   running, connVars, interruptedBy, closer>>

\* Mutant: the interrupt is sent ahead of the execution only.
CloseInterruptEarly ==
    /\ closer = "wait"
    /\ \E k \in InFlight(at) : work[k] = "compile"
    /\ interruptedBy' = [interruptedBy EXCEPT ![at] = @ \cup {NULL}]
    /\ UNCHANGED <<counter, acquired, queue, taskVars, futureVars, cancelled, work, lockOf,
                   running, connVars, closeVars>>

CloseInterrupt ==
    /\ closer = "wait"
    /\ InFlight(at) # {}
    /\ interruptedBy' = [interruptedBy EXCEPT ![at] = @ \cup {NULL}]
    /\ UNCHANGED <<counter, acquired, queue, taskVars, futureVars, cancelled, work, lockOf,
                   running, connVars, closeVars>>

\* KeyboardInterrupt: Connection.close() reopens the connection and the rest of
\* AsyncConnection.close() does not happen.
CloseAbort ==
    /\ Proceed("wait", "idle")
    /\ closing' = [closing EXCEPT ![at] = FALSE]
    /\ at' = 1
    /\ LeaveLoop
    /\ UNCHANGED <<counter, acquired, queue, task, conn, posted, repeat, futureVars, cancelled, work, lockOf,
                   running, handle, interruptedBy>>

\* The engine's flag goes with the native connection.
CloseNative ==
    /\ Proceed("wait", "clear")
    /\ InFlight(at) = {}
    /\ handle' = [handle EXCEPT ![at] = "destroyed"]
    /\ interruptedBy' = [interruptedBy EXCEPT ![at] = {}]
    /\ UNCHANGED <<counter, acquired, queue, taskVars, futureVars, cancelled, work, lockOf,
                   running, closing, at>>

CloseClear ==
    /\ Proceed("clear", "begin")
    /\ handle' = [handle EXCEPT ![at] = "none"]
    /\ at' = at + 1
    /\ UNCHANGED <<counter, acquired, queue, taskVars, futureVars, cancelled, work, lockOf,
                   running, closing, interruptedBy>>

ShutdownExecutor ==
    /\ Proceed("begin", "join")
    /\ at \notin Pool
    /\ UNCHANGED <<counter, acquired, queue, taskVars, futureVars, cancelled, work, lockOf,
                   running, connVars, interruptedBy, at>>

\* Mutant: shutdown(wait=False).
JoinNothing ==
    /\ Proceed("join", "done")
    /\ LeaveLoop
    /\ UNCHANGED <<counter, acquired, queue, task, conn, posted, repeat, futureVars, cancelled, work, lockOf,
                   running, connVars, interruptedBy, at>>

\* The threads exit once the queue is empty.
JoinThreads ==
    /\ Proceed("join", "done")
    /\ queue = <<>>
    /\ \A k \in Calls : ~OnThread(k)
    /\ LeaveLoop
    /\ UNCHANGED <<counter, acquired, queue, task, conn, posted, repeat, futureVars, cancelled, work, lockOf,
                   running, connVars, interruptedBy, at>>

-----------------------------------------------------------------------------

Slots == Acquire \/ \E c \in Pool : Release(c)

Task(k) ==
    \/ ChooseLeast(k)
    \/ \E c \in Conns : ChoosePrepared(k, c)
    \/ Submit(k)
    \/ SubmitRefused(k)
    \/ Attach(k)
    \/ Wrap(k)
    \/ Deliver(k)

Cancellation(k) == CancelTask(k) \/ Unwind(k) \/ RepeatCancel(k)

Thread(k) ==
    \/ Take(k)
    \/ TakeCancelled(k)
    \/ LockConnection(k)
    \/ Start(k)
    \/ SkipCancelled(k)
    \/ EnterCall(k)
    \/ RefuseCall(k)
    \/ EngineStart(k)
    \/ EngineLeave(k)
    \/ Unregister(k)
    \/ Unlock(k)
    \/ SetResult(k)
    \/ RunCallback(k)

Close ==
    \/ CloseStart
    \/ CloseBegin
    \/ CloseSkip
    \/ CloseInterrupt
    \/ CloseAbort
    \/ CloseNative
    \/ CloseClear
    \/ ShutdownExecutor
    \/ JoinThreads

Next == Slots \/ Close \/ \E k \in Calls : Task(k) \/ Cancellation(k) \/ Thread(k)

Spec == Init /\ [][Next]_vars

\* The loop's tasks run on, between any two of which it runs the timers that are due,
\* unless close() has its thread; threads run on, compilation ends, and the engine
\* ends an execution that it sees interrupted; others may last forever.
EngineYields(k) == work[k] = "execute" /\ interruptedBy[conn[k]] # {} /\ EngineLeave(k)

Fairness ==
    /\ \A k \in Calls :
        /\ WF_vars(Submit(k) \/ SubmitRefused(k) \/ Attach(k) \/ Wrap(k))
        /\ SF_vars(Unwind(k))
        /\ SF_vars(RepeatCancel(k))
        /\ WF_vars(Take(k) \/ TakeCancelled(k))
        /\ WF_vars(LockConnection(k))
        /\ WF_vars(EngineStart(k))
        /\ WF_vars(EngineYields(k))
        /\ WF_vars(Start(k) \/ SkipCancelled(k) \/ EnterCall(k) \/ RefuseCall(k)
                   \/ Unregister(k) \/ Unlock(k) \/ SetResult(k) \/ RunCallback(k))
    /\ WF_vars(CloseBegin \/ CloseSkip \/ CloseNative \/ CloseClear \/ ShutdownExecutor
               \/ JoinThreads)
    /\ WF_vars(CloseInterrupt)

FairSpec == Spec /\ Fairness

-----------------------------------------------------------------------------
(* Properties.                                                             *)

\* Every variable holds a value the code can give it.
TypeOK ==
    /\ counter \in [Pool -> Nat]
    /\ acquired \in [Pool -> Nat]
    /\ queue \in Seq(Calls)
    /\ loop \in Calls \cup {NULL, Closer}
    /\ task \in [Calls -> {"new", "submit", "attach", "wrap", "await", "unwind",
                           "answered", "cancelled", "failed", "refused"}]
    /\ conn \in [Calls -> Conns \cup {NULL}]
    /\ future \in [Calls -> {"none", "pending", "running", "finished", "cancelled"}]
    /\ callbacks \in [Calls -> Seq({"release", "post"})]
    /\ posted \in [Calls -> BOOLEAN]
    /\ cancelled \in [Calls -> BOOLEAN]
    /\ repeat \in [Calls -> BOOLEAN]
    /\ work \in [Calls -> {"none", "queued", "turn", "locked", "start", "compile", "execute",
                           "unregister", "unlock", "result", "callbacks", "done"}]
    /\ lockOf \in [Conns -> Calls \cup {NULL}]
    /\ running \in [Conns -> Calls \cup {NULL}]
    /\ closing \in [Conns -> BOOLEAN]
    /\ handle \in [Conns -> {"live", "destroyed", "none"}]
    /\ interruptedBy \in [Conns -> SUBSET (Calls \cup {NULL})]
    /\ closer \in {"idle", "begin", "wait", "clear", "join", "done"}
    /\ at \in 1..(PoolSize + 1)

\* The call has taken a slot and not given it back.
HoldsSlot(k) ==
    /\ conn[k] \in Pool
    /\ \/ task[k] \in {"submit", "attach"}
       \/ \E i \in 1..Len(callbacks[k]) : callbacks[k][i] = "release"

Unfinished(k) == work[k] \notin {"none", "callbacks", "done"}

\* connections_counter counts the connections acquired and the calls that have
\* a slot, and a call keeps its slot until its work has finished, whatever
\* becomes of the task that awaits it (async_connection.py 207-212).
CounterIsLoad ==
    /\ \A c \in Pool :
        counter[c] = acquired[c] + Cardinality({k \in Calls : conn[k] = c /\ HoldsSlot(k)})
    /\ \A k \in Calls : Unfinished(k) /\ conn[k] \in Pool => HoldsSlot(k)

\* The interrupt that cancels a call never hits the execution of another: not
\* of one that has the connection while the cancelled call waits for it, nor of
\* one that takes it over (233-241).
InterruptHitsCancelled ==
    \A k \in Calls :
        work[k] = "execute" =>
            /\ interruptedBy[conn[k]] \subseteq {k, NULL}
            /\ k \in interruptedBy[conn[k]] => cancelled[k]

\* Once close() has returned, no thread runs a call and every task has its
\* answer or is about to find it in its future (274-286).
ClosedIsQuiet ==
    closer = "done" =>
        /\ \A k \in Calls : future[k] \in {"none", "cancelled", "finished"}
        /\ \A c \in Pool : handle[c] = "none" /\ lockOf[c] = NULL /\ running[c] = NULL

\* AsyncConnection keeps the promises of QueryPool.
WorkOf(k) ==
    CASE work[k] = "none" -> "none"
      [] work[k] \in {"start", "compile", "execute", "unregister"} -> "executing"
      [] work[k] \in {"unlock", "result", "callbacks", "done"} -> "over"
      [] OTHER -> "accepted"

OutcomeOf(k) ==
    IF task[k] \in {"answered", "cancelled", "failed", "refused"} THEN task[k] ELSE "none"

Promise == INSTANCE QueryPool WITH
    on <- conn,
    work <- [k \in Calls |-> WorkOf(k)],
    withdrawn <- cancelled,
    outcome <- [k \in Calls |-> OutcomeOf(k)]

\* The pool implements QueryPool: one call at a time per connection, answers
\* only when the work is over, nothing started after its cancellation.
KeepsPromise == Promise!Spec

Registered(k) == \E c \in Conns : running[c] = k

\* A running call that is cancelled ends, wherever in the call the cancellation
\* arrives: the interrupt is repeated until it hits an execution (242-245).  Except that
\* the timer is the loop's: a close() on the loop's thread, which waits for the threads,
\* waits forever for a call on a connection that it has not interrupted, one not of the pool.
WaitsOnLoop == loop = Closer /\ closer = "join"
CancelledCallEnds ==
    \A k \in Calls :
        task[k] = "cancelled" /\ Registered(k) ~>
            ~Registered(k) \/ (WaitsOnLoop /\ conn[k] \notin Pool)

ForeignExecution == \E k \in Calls : conn[k] \notin Pool /\ work[k] = "execute"

\* close() returns, or is aborted by KeyboardInterrupt, unless the pool executes
\* a prepared statement of a connection that is not its own (274-286).
CloseEnds == closer = "begin" ~> closer \in {"idle", "done"} \/ ForeignExecution

=============================================================================
