------------------------------- MODULE Queries -------------------------------
(***************************************************************************)
(* One Connection of a database opened with the C API, used by several     *)
(* threads: the settings that wait for the next query, the temporary Arrow *)
(* tables behind LOAD/COPY ... FROM <frame>, the timer of a query timeout, *)
(* and the pybind connection that the Connection opens beside its own for  *)
(* what the C API cannot do (connection.py, _lbug_capi.py).                *)
(*                                                                         *)
(* A setting is known by its version: the n-th call of its setter queues   *)
(* version n; version 0 is what the connection was opened with.  A call of *)
(* execute() is known by its number, which also names its scan table.      *)
(* Results, the statement cache and close() are in other modules.          *)
(***************************************************************************)
EXTENDS Naturals, FiniteSets

CONSTANTS Threads,
          Settings,   \* names of native setters
          Timeout,    \* the one that sets the query timeout
          HasPybind,  \* is the _lbug extension installed?
          MaxCalls,   \* bound on the calls of execute()
          MaxSets,    \* bound on the calls of each setter
          None

ASSUME QueriesAssumption ==
    /\ Timeout \in Settings /\ None \notin Threads
    /\ HasPybind \in BOOLEAN /\ MaxCalls \in Nat /\ MaxSets \in Nat
    /\ IsFiniteSet(Threads)

VARIABLES
    calls,          \* calls of execute() begun
    pending,        \* _pending_settings; 0 where there is none
    applyLock,      \* who holds _apply_settings_lock
    inForce,        \* native connection -> the settings it runs with
    engine,         \* native connection -> the thread it serves
    scanTables,     \* _capi_scan_tables
    engineTables,   \* the Arrow tables that exist in the engine
    preferPybind,   \* _prefer_pybind
    pyConnection,   \* _py_connection; Capi where there is none
    opened,         \* pybind connections opened
    timers,         \* threads whose timer is running
    firing,         \* timers past the point where cancel() stops them
    interrupted,    \* has the query in the C-API connection been interrupted?
    call,           \* thread -> what it does
    lastSet,        \* auxiliary: the last version of each setting
    failed          \* auxiliary: the calls that raised

settingVars == <<pending, applyLock, inForce, lastSet>>
tableVars == <<scanTables, engineTables>>
backendVars == <<preferPybind, pyConnection, opened>>
timerVars == <<timers, firing, interrupted>>
vars == <<calls, settingVars, engine, tableVars, backendVars, timerVars, call, failed>>

Capi == 0                              \* the C-API connection; 1.. are pybind's
Conns == 0..Cardinality(Threads)
Tables == 1..MaxCalls
Versions == [Settings -> 0..MaxSets]
NoSettings == [s \in Settings |-> 0]

\* Of a query, execute() sees: no frame, a frame that it makes a table of, or a
\* name after FROM that it leaves for pybind to scan.
Kinds == {"plain", "table", "frame", "udf"}
Phases == {"idle", "lock", "apply", "snapshot", "create", "register", "diff", "choose",
           "find", "open", "call", "wait", "run", "drop", "discard"}
Idle == [at |-> "idle", id |-> 0, kind |-> "plain", conn |-> Capi, since |-> NoSettings,
         taken |-> NoSettings, before |-> {}, toDrop |-> {}]

TypeOK ==
    /\ calls \in 0..MaxCalls
    /\ pending \in Versions /\ lastSet \in Versions /\ inForce \in [Conns -> Versions]
    /\ applyLock \in Threads \cup {None}
    /\ engine \in [Conns -> Threads \cup {None}]
    /\ scanTables \subseteq Tables /\ engineTables \subseteq Tables
    /\ preferPybind \in BOOLEAN /\ interrupted \in BOOLEAN
    /\ opened \in Conns /\ pyConnection \in 0..opened
    /\ timers \subseteq Threads /\ firing \in Nat /\ failed \subseteq Tables
    /\ call \in [Threads ->
         [at : Phases, id : 0..MaxCalls, kind : Kinds, conn : Conns, since : Versions,
          taken : Versions, before : SUBSET Tables, toDrop : SUBSET Tables]]

Init ==
    /\ calls = 0 /\ pending = NoSettings /\ lastSet = NoSettings
    /\ applyLock = None
    /\ inForce = [c \in Conns |-> NoSettings]
    /\ engine = [c \in Conns |-> None]
    /\ scanTables = {} /\ engineTables = {}
    /\ preferPybind = FALSE /\ pyConnection = Capi /\ opened = 0
    /\ timers = {} /\ firing = 0 /\ interrupted = FALSE
    /\ call = [t \in Threads |-> Idle]
    /\ failed = {}

At(t, phase) == call[t].at = phase
Go(t, phase) == call' = [call EXCEPT ![t].at = phase]
\* A native call on the C-API connection waits for the query that runs there.
EngineFree == engine[Capi] = None

-----------------------------------------------------------------------------
(* Settings.                                                               *)

\* set_query_timeout(), set_max_threads_for_exec().
SetSetting(t, s) ==
    /\ At(t, "idle") /\ lastSet[s] < MaxSets
    /\ lastSet' = [lastSet EXCEPT ![s] = @ + 1]
    /\ pending' = [pending EXCEPT ![s] = lastSet'[s]]
    /\ UNCHANGED <<calls, applyLock, inForce, engine, tableVars, backendVars, timerVars,
                   call, failed>>

\* execute(); what was set before it must apply to it.
Begin(t, kind) ==
    /\ At(t, "idle") /\ calls < MaxCalls
    /\ calls' = calls + 1
    /\ call' = [call EXCEPT ![t] = [Idle EXCEPT !.at = "lock", !.id = calls', !.kind = kind,
                                                !.since = lastSet]]
    /\ UNCHANGED <<settingVars, engine, tableVars, backendVars, timerVars, failed>>

\* Without _apply_settings_lock.
TakePendingUnlocked(t) ==
    /\ At(t, "lock")
    /\ call' = [call EXCEPT ![t].at = "apply", ![t].taken = pending]
    /\ pending' = NoSettings
    /\ UNCHANGED <<calls, applyLock, inForce, lastSet, engine, tableVars, backendVars,
                   timerVars, failed>>

\* _apply_pending_settings() takes its lock and swaps the dictionary.
TakePending(t) ==
    /\ At(t, "lock") /\ applyLock = None
    /\ applyLock' = t
    /\ call' = [call EXCEPT ![t].at = "apply", ![t].taken = pending]
    /\ pending' = NoSettings
    /\ UNCHANGED <<calls, inForce, lastSet, engine, tableVars, backendVars, timerVars, failed>>

\* One native setter; the C API reads its own copy of the timeout from here on.
ApplySetting(t, s) ==
    /\ At(t, "apply") /\ call[t].taken[s] # 0 /\ EngineFree
    /\ inForce' = [inForce EXCEPT ![Capi][s] = call[t].taken[s]]
    /\ call' = [call EXCEPT ![t].taken[s] = 0]
    /\ UNCHANGED <<calls, pending, applyLock, lastSet, engine, tableVars, backendVars,
                   timerVars, failed>>

AllApplied(t) ==
    /\ At(t, "apply") /\ call[t].taken = NoSettings
    /\ applyLock' = None
    /\ Go(t, "snapshot")
    /\ UNCHANGED <<calls, pending, inForce, lastSet, engine, tableVars, backendVars,
                   timerVars, failed>>

-----------------------------------------------------------------------------
(* Scan tables.                                                            *)

\* scan_tables_before.
Snapshot(t) ==
    /\ At(t, "snapshot")
    /\ call' = [call EXCEPT ![t].before = scanTables,
                            ![t].at = IF call[t].kind = "table" THEN "create" ELSE "diff"]
    /\ UNCHANGED <<calls, settingVars, engine, tableVars, backendVars, timerVars, failed>>

\* create_arrow_table(); nobody looks at whether it succeeded.
CreateTable(t) ==
    /\ At(t, "create") /\ EngineFree
    /\ \/ engineTables' = engineTables \cup {call[t].id}
       \/ UNCHANGED engineTables
    /\ Go(t, "register")
    /\ UNCHANGED <<calls, settingVars, engine, scanTables, backendVars, timerVars, failed>>

RegisterTable(t) ==
    /\ At(t, "register")
    /\ scanTables' = scanTables \cup {call[t].id}
    /\ Go(t, "diff")
    /\ UNCHANGED <<calls, settingVars, engine, engineTables, backendVars, timerVars, failed>>

\* The difference is taken before the rewriting has created the table.
DiffTooEarly(t) ==
    /\ At(t, "diff")
    /\ call' = [call EXCEPT ![t].toDrop = (scanTables \ call[t].before) \ {call[t].id},
                            ![t].before = {}, ![t].at = "choose"]
    /\ UNCHANGED <<calls, settingVars, engine, tableVars, backendVars, timerVars, failed>>

\* scan_tables_to_drop: what this call, or another one meanwhile, has added.
Diff(t) ==
    /\ At(t, "diff")
    /\ call' = [call EXCEPT ![t].toDrop = scanTables \ call[t].before, ![t].before = {},
                            ![t].at = "choose"]
    /\ UNCHANGED <<calls, settingVars, engine, tableVars, backendVars, timerVars, failed>>

-----------------------------------------------------------------------------
(* The backend of a query.                                                 *)

\* With a timeout, a query with two UNWIND RANGE is not even run.
RefuseQuery(t) ==
    /\ At(t, "choose") /\ inForce[Capi][Timeout] # 0
    /\ call' = [call EXCEPT ![t] = Idle]
    /\ failed' = failed \cup {call[t].id}
    /\ UNCHANGED <<calls, settingVars, engine, tableVars, backendVars, timerVars>>

\* A scan that was not rewritten makes pybind the preferred backend for good.
ChooseBackend(t) ==
    /\ At(t, "choose")
    /\ LET pybind == preferPybind \/ (HasPybind /\ call[t].kind = "frame")
       IN  /\ preferPybind' = pybind
           /\ Go(t, IF pybind THEN "find" ELSE "call")
    /\ UNCHANGED <<calls, settingVars, engine, tableVars, pyConnection, opened, timerVars,
                   failed>>

\* create_function(): the C API refuses, pybind's connection is opened for it.
CreateFunction(t) ==
    /\ At(t, "idle") /\ HasPybind
    /\ call' = [call EXCEPT ![t].at = "find", ![t].kind = "udf"]
    /\ UNCHANGED <<calls, settingVars, engine, tableVars, backendVars, timerVars, failed>>

\* Every call opens a connection of its own.
FindPybindNever(t) ==
    /\ At(t, "find")
    /\ Go(t, "open")
    /\ UNCHANGED <<calls, settingVars, engine, tableVars, backendVars, timerVars, failed>>

\* _get_pybind_connection(): an unlocked check, then the creation.
FindPybind(t) ==
    /\ At(t, "find")
    /\ IF pyConnection = Capi
       THEN Go(t, "open")
       ELSE call' = [call EXCEPT ![t].conn = pyConnection, ![t].at = "call"]
    /\ UNCHANGED <<calls, settingVars, engine, tableVars, backendVars, timerVars, failed>>

OpenPybind(t) ==
    /\ At(t, "open")
    /\ opened' = opened + 1
    /\ pyConnection' = opened'
    /\ call' = [call EXCEPT ![t].conn = opened', ![t].at = "call"]
    /\ UNCHANGED <<calls, settingVars, engine, tableVars, preferPybind, timerVars, failed>>

FunctionCreated(t) ==
    /\ At(t, "call") /\ call[t].kind = "udf"
    /\ preferPybind' = TRUE
    /\ call' = [call EXCEPT ![t] = Idle]
    /\ UNCHANGED <<calls, settingVars, engine, tableVars, pyConnection, opened, timerVars,
                   failed>>

-----------------------------------------------------------------------------
(* The native call.                                                        *)

\* _call_with_timeout(): the timer starts before the call waits for the engine.
StartTimer(t) ==
    /\ At(t, "call") /\ call[t].kind # "udf"
    /\ timers' = IF call[t].conn = Capi /\ inForce[Capi][Timeout] # 0
                 THEN timers \cup {t} ELSE timers
    /\ Go(t, "wait")
    /\ UNCHANGED <<calls, settingVars, engine, tableVars, backendVars, firing, interrupted,
                   failed>>

Run(t) ==
    /\ At(t, "wait") /\ engine[call[t].conn] = None
    /\ engine' = [engine EXCEPT ![call[t].conn] = t]
    /\ interrupted' = IF call[t].conn = Capi THEN FALSE ELSE interrupted
    /\ Go(t, "run")
    /\ UNCHANGED <<calls, settingVars, tableVars, backendVars, timers, firing, failed>>

\* The table is missing if its creation failed, if another call dropped it, and in
\* pybind's database, which is another one.
Fails(t) ==
    \/ call[t].conn = Capi /\ interrupted
    \/ call[t].kind = "table" /\ (call[t].conn # Capi \/ call[t].id \notin engineTables)

\* The call returns and cancels its timer.
Leave(t) ==
    /\ At(t, "run")
    /\ engine' = [engine EXCEPT ![call[t].conn] = None]
    /\ timers' = timers \ {t}
    /\ UNCHANGED <<calls, settingVars, tableVars, backendVars, firing, interrupted>>

Succeed(t) ==
    /\ Leave(t) /\ ~Fails(t)
    /\ call' = [call EXCEPT ![t].at = "drop", ![t].since = NoSettings]
    /\ UNCHANGED failed

\* RuntimeError: what is in scan_tables_to_drop stays.
Raise(t) ==
    /\ Leave(t)
    /\ call' = [call EXCEPT ![t] = Idle]
    /\ failed' = failed \cup {call[t].id}

\* drop_arrow_table(); a failure of it is only a warning.  From here on id is the table.
DropTable(t, x) ==
    /\ At(t, "drop") /\ x \in call[t].toDrop /\ EngineFree
    /\ engineTables' = engineTables \ {x}
    /\ call' = [call EXCEPT ![t].at = "discard", ![t].id = x]
    /\ UNCHANGED <<calls, settingVars, engine, scanTables, backendVars, timerVars, failed>>

Discard(t) ==
    /\ At(t, "discard")
    /\ scanTables' = scanTables \ {call[t].id}
    /\ call' = [call EXCEPT ![t].at = "drop", ![t].toDrop = @ \ {call[t].id}]
    /\ UNCHANGED <<calls, settingVars, engine, engineTables, backendVars, timerVars, failed>>

Return(t) ==
    /\ At(t, "drop") /\ call[t].toDrop = {}
    /\ call' = [call EXCEPT ![t] = Idle]
    /\ UNCHANGED <<calls, settingVars, engine, tableVars, backendVars, timerVars, failed>>

-----------------------------------------------------------------------------
(* The timer's thread.                                                     *)

TimerFires(t) ==
    /\ t \in timers
    /\ timers' = timers \ {t}
    /\ firing' = firing + 1
    /\ UNCHANGED <<calls, settingVars, engine, tableVars, backendVars, interrupted, call,
                   failed>>

\* interrupt() hits whatever runs in the C-API connection then.
TimerInterrupts ==
    /\ firing > 0
    /\ firing' = firing - 1
    /\ interrupted' = (interrupted \/ ~EngineFree)
    /\ UNCHANGED <<calls, settingVars, engine, tableVars, backendVars, timers, call, failed>>

-----------------------------------------------------------------------------
Apply(t) == TakePending(t) \/ AllApplied(t) \/ \E s \in Settings : ApplySetting(t, s)

Scan(t) ==
    \/ Snapshot(t) \/ CreateTable(t) \/ RegisterTable(t) \/ Diff(t)
    \/ Discard(t) \/ \E x \in Tables : DropTable(t, x)

Dispatch(t) ==
    \/ RefuseQuery(t) \/ ChooseBackend(t) \/ CreateFunction(t) \/ FindPybind(t) \/ OpenPybind(t)
    \/ FunctionCreated(t)

Execute(t) == StartTimer(t) \/ Run(t) \/ Succeed(t) \/ Raise(t) \/ Return(t)

Next ==
    \/ \E t \in Threads :
         \/ Apply(t) \/ Scan(t) \/ Dispatch(t) \/ Execute(t) \/ TimerFires(t)
         \/ \E s \in Settings : SetSetting(t, s)
         \/ \E kind \in Kinds \ {"udf"} : Begin(t, kind)
    \/ TimerInterrupts

Spec == Init /\ [][Next]_vars

-----------------------------------------------------------------------------
(* Properties.                                                             *)

\* Is what was set before the call in force where it runs?
Reaches(t) == \A s \in Settings : inForce[call[t].conn][s] >= call[t].since[s]

\* What was set on a connection before execute() was called is in force, or has been
\* replaced by something newer, when the query runs on the C-API connection, although
\* another thread may have taken the pending settings and still be applying them.
SettingsReachEngine ==
    \A t \in Threads : At(t, "run") /\ call[t].conn = Capi => Reaches(t)

\* "The timeout applies from the next query on this connection" (connection.py:1231),
\* whichever backend runs it.
SettingsReachBackend == \A t \in Threads : At(t, "run") => Reaches(t)

\* No thread puts an older value of a setting in force after a newer one.
SettingsNeverGoBack ==
    [][\A c \in Conns, s \in Settings : inForce'[c][s] >= inForce[c][s]]_vars

\* When no call runs, the only scan tables left, in the engine and in the connection's
\* set, are those of calls that raised, although every call drops what it finds new and
\* thereby the tables of others.
TablesAreDropped ==
    (\A t \in Threads : At(t, "idle")) => scanTables \cup engineTables \subseteq failed
=============================================================================
