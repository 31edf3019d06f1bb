---------------------------- MODULE SigintGuard ----------------------------
(***************************************************************************)
(* SigintInterruptsQuery (src/src_cpp/py_connection.cpp 199-310): while the *)
(* main thread waits in the engine, SIGINT interrupts its query and then   *)
(* reaches Python's handler.  The guard's statics are shared with signal   *)
(* handlers that run on any thread: on the main thread a handler suspends  *)
(* the guard's code until it returns, on another it interleaves with it.   *)
(*                                                                         *)
(* All statics but "previous" are seq_cst atomics, so their accesses are   *)
(* single steps.  A guard of a UDF's query nests in the guard of the query *)
(* that runs the UDF.  A context is freed as soon as its guard is gone, and*)
(* is not reused, so that a stale pointer stays recognisable.              *)
(***************************************************************************)
EXTENDS Naturals, Sequences, FiniteSets, SequencesExt

CONSTANTS
    Contexts,   \* ClientContexts, one per guarded query
    Signals,    \* SIGINT deliveries
    MaxNesting, \* bound on queries nested through UDFs on the main thread
    NULL

ASSUME SigintAssumption ==
    /\ NULL \notin Contexts
    /\ IsFiniteSet(Signals)
    /\ MaxNesting \in Nat

VARIABLES
    pc,          \* the main thread, in its innermost guard
    guards,      \* live guards, innermost last: context and installed
    action,      \* the process's SIGINT disposition
    target, received, handlersInFlight, previous,  \* the guard's statics
    pending,     \* Python has recorded a SIGINT it has not raised yet
    freed,       \* contexts released by their query
    used,        \* contexts any query was given
    hpc,         \* each delivered signal's handler
    onMain,      \* whether it runs on the main thread
    loaded,      \* the context it read from target
    chained      \* the disposition it copied from previous

statics == <<action, target, received, handlersInFlight, previous>>
locals  == <<hpc, onMain, loaded, chained>>
vars == <<pc, guards, statics, pending, freed, used, locals>>

Guard == [context : Contexts, installed : BOOLEAN]

Init ==
    /\ pc = "idle"
    /\ guards = <<>>
    /\ action = "python"
    /\ target = NULL
    /\ received = FALSE
    /\ handlersInFlight = 0
    /\ previous = "unset"
    /\ pending = FALSE
    /\ freed = {}
    /\ used = {}
    /\ hpc = [s \in Signals |-> "none"]
    /\ onMain = [s \in Signals |-> FALSE]
    /\ loaded = [s \in Signals |-> NULL]
    /\ chained = [s \in Signals |-> "unset"]

-----------------------------------------------------------------------------
(* The main thread.                                                        *)

Running(s) == hpc[s] \notin {"none", "done"}

\* A handler on the main thread runs to completion before its code resumes.
MainAt(label) == pc = label /\ \A s \in Signals : ~(Running(s) /\ onMain[s])

\* Python code issues a query: at top level, or in a UDF of the current query.
Begin ==
    /\ MainAt("idle") \/ MainAt("query")
    /\ Len(guards) < MaxNesting
    /\ \E c \in Contexts \ used :
        /\ guards' = Append(guards, [context |-> c, installed |-> FALSE])
        /\ used' = used \cup {c}
    /\ pc' = "check"
    /\ UNCHANGED <<statics, pending, freed, locals>>

\* Another guard is active, or Python's handler is not the default one.
Skip ==
    /\ MainAt("check")
    /\ pc' = "query"
    /\ UNCHANGED <<guards, statics, pending, freed, used, locals>>

\* Mutant: a nested guard does not look for an outer one.
CheckUnguarded ==
    /\ MainAt("check")
    /\ pc' = "save"
    /\ UNCHANGED <<guards, statics, pending, freed, used, locals>>

Check ==
    /\ MainAt("check")
    /\ target = NULL
    /\ pc' = "save"
    /\ UNCHANGED <<guards, statics, pending, freed, used, locals>>

SavePrevious ==
    /\ MainAt("save")
    /\ previous' = action
    /\ pc' = "reset"
    /\ UNCHANGED <<guards, action, target, received, handlersInFlight, pending, freed,
                   used, locals>>

ResetReceived ==
    /\ MainAt("reset")
    /\ received' = FALSE
    /\ pc' = "aim"
    /\ UNCHANGED <<guards, action, target, handlersInFlight, previous, pending, freed,
                   used, locals>>

Aim ==
    /\ MainAt("aim")
    /\ target' = Last(guards).context
    /\ pc' = "install"
    /\ UNCHANGED <<guards, action, received, handlersInFlight, previous, pending, freed,
                   used, locals>>

\* sigaction with a valid signal and pointers has no error to report.
Install ==
    /\ MainAt("install")
    /\ action' = "guard"
    /\ guards' = [guards EXCEPT ![Len(guards)].installed = TRUE]
    /\ pc' = "query"
    /\ UNCHANGED <<target, received, handlersInFlight, previous, pending, freed, used,
                   locals>>

\* raiseIfInterrupted, after the query: PyErr_CheckSignals consumes the signal.
\* An exception of the query itself bypasses it on the way to the destructor.
RaiseIfInterrupted ==
    /\ MainAt("query")
    /\ pending' \in {pending, pending /\ ~(Last(guards).installed /\ received)}
    /\ pc' = IF Last(guards).installed THEN "restore" ELSE "release"
    /\ UNCHANGED <<guards, statics, freed, used, locals>>

\* Mutant: the handler is put back only after an interrupt.
RestoreIfReceived ==
    /\ MainAt("restore")
    /\ action' = IF received THEN previous ELSE action
    /\ pc' = "disarm"
    /\ UNCHANGED <<guards, target, received, handlersInFlight, previous, pending, freed,
                   used, locals>>

Restore ==
    /\ MainAt("restore")
    /\ action' = previous
    /\ pc' = "disarm"
    /\ UNCHANGED <<guards, target, received, handlersInFlight, previous, pending, freed,
                   used, locals>>

Disarm ==
    /\ MainAt("disarm")
    /\ target' = NULL
    /\ pc' = "drain"
    /\ UNCHANGED <<guards, action, received, handlersInFlight, previous, pending, freed,
                   used, locals>>

\* Mutant: the destructor does not wait.
DrainUnwaited ==
    /\ MainAt("drain")
    /\ pc' = "release"
    /\ UNCHANGED <<guards, statics, pending, freed, used, locals>>

Drain ==
    /\ MainAt("drain")
    /\ handlersInFlight = 0
    /\ pc' = "release"
    /\ UNCHANGED <<guards, statics, pending, freed, used, locals>>

\* The guard is gone: the caller may release the context.
Release ==
    /\ MainAt("release")
    /\ freed' = freed \cup {Last(guards).context}
    /\ guards' = Front(guards)
    /\ pc' = IF Len(guards) = 1 THEN "idle" ELSE "query"
    /\ UNCHANGED <<statics, pending, used, locals>>

-----------------------------------------------------------------------------
(* A SIGINT and its handler.                                               *)

DeliverToPython(s) ==
    /\ hpc[s] = "none"
    /\ action = "python"
    /\ pending' = TRUE
    /\ hpc' = [hpc EXCEPT ![s] = "done"]
    /\ UNCHANGED <<pc, guards, statics, freed, used, onMain, loaded, chained>>

\* SIGINT is masked on a thread while it runs the handler.
DeliverToGuard(s, main) ==
    /\ hpc[s] = "none"
    /\ action = "guard"
    /\ main => \A r \in Signals : ~(Running(r) /\ onMain[r])
    /\ onMain' = [onMain EXCEPT ![s] = main]
    /\ hpc' = [hpc EXCEPT ![s] = "count in"]
    /\ UNCHANGED <<pc, guards, statics, pending, freed, used, loaded, chained>>

HandlerStep(s, from, to) == hpc[s] = from /\ hpc' = [hpc EXCEPT ![s] = to]

\* Mutant: a handler that finds no query does not count itself in.
CountInIfAimed(s) ==
    /\ HandlerStep(s, "count in", "load")
    /\ handlersInFlight' = IF target = NULL THEN handlersInFlight ELSE handlersInFlight + 1
    /\ UNCHANGED <<pc, guards, action, target, received, previous, pending, freed, used,
                   onMain, loaded, chained>>

CountIn(s) ==
    /\ HandlerStep(s, "count in", "load")
    /\ handlersInFlight' = handlersInFlight + 1
    /\ UNCHANGED <<pc, guards, action, target, received, previous, pending, freed, used,
                   onMain, loaded, chained>>

\* Mutant: a handler that finds no query returns without counting itself out.
LoadTargetOrReturn(s) ==
    /\ HandlerStep(s, "load", IF target = NULL THEN "done" ELSE "interrupt")
    /\ loaded' = [loaded EXCEPT ![s] = target]
    /\ UNCHANGED <<pc, guards, statics, pending, freed, used, onMain, chained>>

LoadTarget(s) ==
    /\ HandlerStep(s, "load", "interrupt")
    /\ loaded' = [loaded EXCEPT ![s] = target]
    /\ UNCHANGED <<pc, guards, statics, pending, freed, used, onMain, chained>>

\* context->interrupt() if there is one, and received = true.
InterruptContext(s) ==
    /\ HandlerStep(s, "interrupt", "copy")
    /\ received' = TRUE
    /\ UNCHANGED <<pc, guards, action, target, handlersInFlight, previous, pending, freed,
                   used, onMain, loaded, chained>>

CopyPrevious(s) ==
    /\ HandlerStep(s, "copy", "count out")
    /\ chained' = [chained EXCEPT ![s] = previous]
    /\ UNCHANGED <<pc, guards, statics, pending, freed, used, onMain, loaded>>

CountOut(s) ==
    /\ HandlerStep(s, "count out", "chain")
    /\ handlersInFlight' = handlersInFlight - 1
    /\ UNCHANGED <<pc, guards, action, target, received, previous, pending, freed, used,
                   onMain, loaded, chained>>

Chain(s) ==
    /\ HandlerStep(s, "chain", "done")
    /\ pending' = (pending \/ chained[s] = "python")
    /\ UNCHANGED <<pc, guards, statics, freed, used, onMain, loaded, chained>>

-----------------------------------------------------------------------------

Construct == Begin \/ Skip \/ Check \/ SavePrevious \/ ResetReceived \/ Aim \/ Install
Destroy   == RaiseIfInterrupted \/ Restore \/ Disarm \/ Drain \/ Release

Deliver(s) == DeliverToPython(s) \/ \E main \in BOOLEAN : DeliverToGuard(s, main)
Handle(s) ==
    \/ CountIn(s)
    \/ LoadTarget(s)
    \/ InterruptContext(s)
    \/ CopyPrevious(s)
    \/ CountOut(s)
    \/ Chain(s)

Next == Construct \/ Destroy \/ \E s \in Signals : Deliver(s) \/ Handle(s)

Spec == Init /\ [][Next]_vars

\* Handlers and destructors run on; a query may last forever.
Fairness ==
    /\ WF_vars(Restore \/ Disarm \/ Drain \/ Release)
    /\ \A s \in Signals : WF_vars(Handle(s))

FairSpec == Spec /\ Fairness

-----------------------------------------------------------------------------
(* Properties.                                                             *)

Counted(s) == hpc[s] \in {"load", "interrupt", "copy", "count out"}

\* Every static and local holds a value of its C++ type.
TypeOK ==
    /\ pc \in {"idle", "check", "save", "reset", "aim", "install", "query", "restore",
               "disarm", "drain", "release"}
    /\ guards \in Seq(Guard)
    /\ pc # "idle" => guards # <<>>
    /\ action \in {"python", "guard"}
    /\ target \in Contexts \cup {NULL}
    /\ received \in BOOLEAN
    /\ handlersInFlight \in Nat
    /\ previous \in {"unset", "python", "guard"}
    /\ pending \in BOOLEAN
    /\ freed \in SUBSET Contexts
    /\ used \in SUBSET Contexts
    /\ hpc \in [Signals -> {"none", "count in", "load", "interrupt", "copy", "count out",
                            "chain", "done"}]
    /\ onMain \in [Signals -> BOOLEAN]
    /\ loaded \in [Signals -> Contexts \cup {NULL}]
    /\ chained \in [Signals -> {"unset", "python", "guard"}]

\* The handler never interrupts a context that its query has released: "either
\* the destructor waits for the handler or the handler sees nullptr" (280-284).
NoDanglingInterrupt ==
    \A s \in Signals :
        hpc[s] = "interrupt" /\ loaded[s] # NULL => loaded[s] \notin freed

\* While the guard's handler is the process's, it has a live query to interrupt
\* (205-206): a SIGINT it takes is never swallowed for want of a target.
InstalledHasTarget == action = "guard" => target # NULL /\ target \notin freed

\* Every handler passes the signal on to Python's own handler, never to the
\* guard's: a nested query must not save the guard's handler as the previous one.
ChainsToPython ==
    \A s \in Signals : hpc[s] \in {"count out", "chain"} => chained[s] = "python"

\* After the last guard, Python's handler is back and nothing is left armed.
RestoredWhenIdle ==
    pc = "idle" => action = "python" /\ target = NULL

\* The destructor's spin ends: handlers on other threads count themselves out,
\* and one on this thread has finished (238-243).
DestructorEnds == pc = "drain" ~> pc # "drain"

=============================================================================
