--------------------------- MODULE QueriesProofs ---------------------------
(***************************************************************************)
(* For any threads, settings and calls: Queries is well typed; what was set*)
(* before a query is in force when it runs, and no older value comes after *)
(* a newer one; no scan table outlives its call unless the call raised.    *)
(*                                                                         *)
(* The settings and the scan tables have invariants of their own.  A frame *)
(* lemma for each, SettingSteps and TableSteps, says once what the steps   *)
(* that have nothing to do with it leave alone.                            *)
(***************************************************************************)
EXTENDS Queries, FiniteSetTheorems, TLAPS

\* Where a call is before its diff, and from there to the end of the query.
Early   == {"lock", "apply", "snapshot"}
Scanned == {"choose", "find", "open", "call", "wait", "run"}
Dropping == {"drop", "discard"}

-----------------------------------------------------------------------------
(* The inductive invariant.                                                *)

\* An idle thread has nothing left of its last call.  A create_function() has no
\* number and no tables; a query has one that no other running query has.
CallInStep(t) ==
    /\ At(t, "idle") => call[t] = Idle
    /\ call[t].kind = "udf" => /\ call[t].at \in {"find", "open", "call"}
                               /\ call[t].id = 0
                               /\ call[t].before = {} /\ call[t].toDrop = {}
    /\ call[t].kind # "udf" /\ ~At(t, "idle") => call[t].id \in Tables
    /\ call[t].at \notin Dropping => call[t].id <= calls
    /\ At(t, "discard") => call[t].id \in call[t].toDrop
CallsInStep == \A t \in Threads : CallInStep(t)

\* No two calls that may still have a table to create have one number.
IdsDiffer ==
    \A t, u \in Threads :
        /\ t # u /\ call[t].id = call[u].id
        /\ call[t].at \notin Dropping /\ call[u].at \notin Dropping
        => call[t].id = 0

\* Only who holds _apply_settings_lock has settings that it took and has not applied.
OnlyHolderTakes ==
    \A t \in Threads :
        /\ At(t, "apply") <=> applyLock = t
        /\ ~At(t, "apply") => call[t].taken = NoSettings

\* The newest version of a setting is pending, or else taken, or else in force; what is
\* taken is not older than what is in force.
IsKept(s) ==
    /\ pending[s] \in {0, lastSet[s]}
    /\ inForce[Capi][s] <= lastSet[s]
    /\ \A t \in Threads :
         /\ call[t].taken[s] <= lastSet[s]
         /\ call[t].taken[s] # 0 => call[t].taken[s] >= inForce[Capi][s]
         /\ call[t].taken[s] # 0 /\ pending[s] = 0 => call[t].taken[s] = lastSet[s]
    /\ pending[s] = 0 /\ (\A t \in Threads : call[t].taken[s] = 0)
         => inForce[Capi][s] = lastSet[s]
NewestIsKept == \A s \in Settings : IsKept(s)

\* What was set before a call waits until the call takes it, is taken while the call
\* applies it, and is in force from then on.
IsServed(t, s) ==
    /\ call[t].since[s] <= lastSet[s]
    /\ At(t, "apply") /\ call[t].taken[s] # 0 => call[t].taken[s] >= call[t].since[s]
    /\ ~At(t, "lock") /\ call[t].taken[s] = 0 => inForce[Capi][s] >= call[t].since[s]
SinceIsServed == \A t \in Threads, s \in Settings : IsServed(t, s)

\* A call's table is not there before the call creates it, so that its diff finds it.
TableIsNew(t) ==
    /\ call[t].at \in Early \cup {"create", "register"} =>
         /\ call[t].id \notin scanTables
         /\ \A u \in Threads : call[t].id \notin call[u].toDrop
    /\ call[t].at \in Early \cup {"create"} => call[t].id \notin engineTables
    /\ call[t].at \in {"create", "register", "diff"} => call[t].id \notin call[t].before
TablesAreNew == \A t \in Threads : TableIsNew(t)

\* Tables are of calls that have begun; the engine's are registered, or about to be.
Owned == scanTables \cup engineTables
TablesAreNumbered ==
    /\ \A x \in Owned : x <= calls
    /\ \A t \in Threads : \A x \in call[t].toDrop : x <= calls
TablesAreListed ==
    /\ \A x \in engineTables :
         x \in scanTables \/ \E t \in Threads : At(t, "register") /\ call[t].id = x
    /\ \A t \in Threads : At(t, "discard") => call[t].id \notin engineTables

\* Somebody will drop it: its call until the query is over, then whoever has it in
\* scan_tables_to_drop.
WillDrop(t, x) ==
    \/ call[t].at \in {"register", "diff"} \cup Scanned /\ call[t].id = x
    \/ call[t].at \in Dropping /\ x \in call[t].toDrop
TablesAreOwned ==
    /\ \A x \in Owned : x \in failed \/ \E t \in Threads : WillDrop(t, x)
    /\ \A t \in Threads :
         call[t].at \in Scanned /\ call[t].id \in Owned => call[t].id \in call[t].toDrop

\* Each thread that is about to open a pybind connection opens one.
Opening == {t \in Threads : At(t, "open")}
PybindIsCounted ==
    /\ opened \in 0..Cardinality(Threads) /\ pyConnection \in 0..opened
    /\ pyConnection = Capi <=> opened = 0
    /\ opened + Cardinality(Opening) <= Cardinality(Threads)

\* All of it.
IInv ==
    /\ TypeOK
    /\ CallsInStep
    /\ IdsDiffer
    /\ OnlyHolderTakes
    /\ NewestIsKept
    /\ SinceIsServed
    /\ TablesAreNew
    /\ TablesAreNumbered
    /\ TablesAreListed
    /\ TablesAreOwned
    /\ PybindIsCounted

-----------------------------------------------------------------------------
(* Types.                                                                  *)

Numbers == 0..MaxCalls
CallRecords ==
    [at : Phases, id : Numbers, kind : Kinds, conn : Conns, since : Versions,
     taken : Versions, before : SUBSET Tables, toDrop : SUBSET Tables]

\* What holds of the constants.
LEMMA QueriesFacts ==
    /\ Capi \in Conns
    /\ NoSettings \in Versions
    /\ 0 \in Numbers /\ Tables \subseteq Numbers
    /\ Idle \in CallRecords
    /\ Cardinality(Threads) \in Nat
<1>1. Cardinality(Threads) \in Nat
  BY QueriesAssumption, FS_CardinalityType
<1>2. Capi \in Conns
  BY <1>1 DEF Capi, Conns
<1>3. NoSettings \in Versions
  BY QueriesAssumption DEF NoSettings, Versions
<1>4. 0 \in Numbers /\ Tables \subseteq Numbers
  BY QueriesAssumption DEF Numbers, Tables
<1> QED
  BY <1>1, <1>2, <1>3, <1>4 DEF Idle, CallRecords, Phases, Kinds

\* A record of a call stays one when a field changes.
LEMMA FieldTyped ==
    ASSUME NEW f \in [Threads -> CallRecords], NEW t \in Threads
    PROVE  /\ \A x \in Phases : [f EXCEPT ![t].at = x] \in [Threads -> CallRecords]
           /\ \A x \in Numbers : [f EXCEPT ![t].id = x] \in [Threads -> CallRecords]
           /\ \A x \in Kinds : [f EXCEPT ![t].kind = x] \in [Threads -> CallRecords]
           /\ \A x \in Conns : [f EXCEPT ![t].conn = x] \in [Threads -> CallRecords]
           /\ \A x \in Versions : /\ [f EXCEPT ![t].since = x] \in [Threads -> CallRecords]
                                  /\ [f EXCEPT ![t].taken = x] \in [Threads -> CallRecords]
           /\ \A x \in SUBSET Tables :
                /\ [f EXCEPT ![t].before = x] \in [Threads -> CallRecords]
                /\ [f EXCEPT ![t].toDrop = x] \in [Threads -> CallRecords]
BY DEF CallRecords

\* And the call that begins is one.
LEMMA BegunTyped ==
    ASSUME NEW i \in Numbers, NEW kind \in Kinds, NEW v \in Versions
    PROVE  [Idle EXCEPT !.at = "lock", !.id = i, !.kind = kind, !.since = v] \in CallRecords
BY QueriesFacts DEF CallRecords, Idle, Phases, Kinds

\* Every step leaves records of calls.
LEMMA CallTyped ==
    ASSUME call \in [Threads -> CallRecords], pending \in Versions, lastSet \in Versions,
           calls \in Nat, scanTables \subseteq Tables, pyConnection \in Conns,
           opened' \in Conns, [Next]_vars
    PROVE  call' \in [Threads -> CallRecords]
<1>1. ASSUME NEW t \in Threads, NEW s \in Settings, SetSetting(t, s)
      PROVE  call' \in [Threads -> CallRecords]
  BY <1>1, QueriesFacts DEF CallRecords, Phases, SetSetting
<1>2. ASSUME NEW t \in Threads, NEW kind \in Kinds \ {"udf"}, Begin(t, kind)
      PROVE  call' \in [Threads -> CallRecords]
  <2>1. calls + 1 \in Numbers /\ kind \in Kinds
    BY <1>2, QueriesAssumption DEF Begin, Numbers
  <2> QED
    BY <1>2, <2>1, BegunTyped DEF Begin
<1>3. ASSUME NEW t \in Threads, TakePending(t)
      PROVE  call' \in [Threads -> CallRecords]
  <2> DEFINE f == [call EXCEPT ![t].at = "apply"]
  <2> DEFINE g == [f EXCEPT ![t].taken = pending]
  <2>1. f \in [Threads -> CallRecords]
    BY <1>3, FieldTyped, QueriesFacts DEF Phases, Kinds
  <2>2. g \in [Threads -> CallRecords]
    BY <1>3, <2>1, FieldTyped, QueriesFacts DEF Phases, Kinds
  <2> QED
    BY <1>3, <2>2 DEF TakePending
<1>4. ASSUME NEW t \in Threads, NEW s \in Settings, ApplySetting(t, s)
      PROVE  call' \in [Threads -> CallRecords]
  <2>1. [call[t].taken EXCEPT ![s] = 0] \in Versions
    BY QueriesAssumption DEF CallRecords, Versions
  <2>2. [call EXCEPT ![t].taken = [call[t].taken EXCEPT ![s] = 0]]
          \in [Threads -> CallRecords]
    BY <2>1, FieldTyped
  <2> QED
    BY <1>4, <2>2 DEF ApplySetting
<1>5. ASSUME NEW t \in Threads, AllApplied(t)
      PROVE  call' \in [Threads -> CallRecords]
  BY <1>5, QueriesFacts DEF CallRecords, Phases, AllApplied, Go
<1>6. ASSUME NEW t \in Threads, Snapshot(t)
      PROVE  call' \in [Threads -> CallRecords]
  <2> DEFINE f == [call EXCEPT ![t].before = scanTables]
  <2> DEFINE g == [f EXCEPT ![t].at = IF call[t].kind = "table" THEN "create" ELSE "diff"]
  <2>1. f \in [Threads -> CallRecords]
    BY <1>6, FieldTyped, QueriesFacts DEF Phases, Kinds
  <2>2. g \in [Threads -> CallRecords]
    BY <1>6, <2>1, FieldTyped, QueriesFacts DEF Phases, Kinds
  <2> QED
    BY <1>6, <2>2 DEF Snapshot
<1>7. ASSUME NEW t \in Threads, CreateTable(t)
      PROVE  call' \in [Threads -> CallRecords]
  BY <1>7, QueriesFacts DEF CallRecords, Phases, CreateTable, Go
<1>8. ASSUME NEW t \in Threads, RegisterTable(t)
      PROVE  call' \in [Threads -> CallRecords]
  BY <1>8, QueriesFacts DEF CallRecords, Phases, RegisterTable, Go
<1>9. ASSUME NEW t \in Threads, Diff(t)
      PROVE  call' \in [Threads -> CallRecords]
  <2> DEFINE f == [call EXCEPT ![t].toDrop = scanTables \ call[t].before]
  <2> DEFINE g == [f EXCEPT ![t].before = {}]
  <2> DEFINE h == [g EXCEPT ![t].at = "choose"]
  <2>1. f \in [Threads -> CallRecords]
    BY <1>9, FieldTyped, QueriesFacts DEF Phases, Kinds
  <2>2. g \in [Threads -> CallRecords]
    BY <1>9, <2>1, FieldTyped, QueriesFacts DEF Phases, Kinds
  <2>3. h \in [Threads -> CallRecords]
    BY <1>9, <2>2, FieldTyped, QueriesFacts DEF Phases, Kinds
  <2> QED
    BY <1>9, <2>3 DEF Diff
<1>10. ASSUME NEW t \in Threads, RefuseQuery(t)
       PROVE  call' \in [Threads -> CallRecords]
  BY <1>10, QueriesFacts DEF CallRecords, Phases, RefuseQuery
<1>11. ASSUME NEW t \in Threads, ChooseBackend(t)
       PROVE  call' \in [Threads -> CallRecords]
  BY <1>11, QueriesFacts DEF CallRecords, Phases, ChooseBackend, Go
<1>12. ASSUME NEW t \in Threads, CreateFunction(t)
       PROVE  call' \in [Threads -> CallRecords]
  <2> DEFINE f == [call EXCEPT ![t].at = "find"]
  <2> DEFINE g == [f EXCEPT ![t].kind = "udf"]
  <2>1. f \in [Threads -> CallRecords]
    BY <1>12, FieldTyped, QueriesFacts DEF Phases, Kinds
  <2>2. g \in [Threads -> CallRecords]
    BY <1>12, <2>1, FieldTyped, QueriesFacts DEF Phases, Kinds
  <2> QED
    BY <1>12, <2>2 DEF CreateFunction
<1>13. ASSUME NEW t \in Threads, FindPybind(t)
       PROVE  call' \in [Threads -> CallRecords]
  <2>1. [call EXCEPT ![t].at = "open"] \in [Threads -> CallRecords]
    BY FieldTyped DEF Phases
  <2>2. [call EXCEPT ![t].conn = pyConnection] \in [Threads -> CallRecords]
    BY FieldTyped
  <2>3. [[call EXCEPT ![t].conn = pyConnection] EXCEPT ![t].at = "call"]
          \in [Threads -> CallRecords]
    BY <2>2, FieldTyped DEF Phases
  <2> QED
    BY <1>13, <2>1, <2>3 DEF FindPybind, Go
<1>14. ASSUME NEW t \in Threads, OpenPybind(t)
       PROVE  call' \in [Threads -> CallRecords]
  <2> DEFINE f == [call EXCEPT ![t].conn = opened']
  <2> DEFINE g == [f EXCEPT ![t].at = "call"]
  <2>1. f \in [Threads -> CallRecords]
    BY <1>14, FieldTyped, QueriesFacts DEF Phases, Kinds
  <2>2. g \in [Threads -> CallRecords]
    BY <1>14, <2>1, FieldTyped, QueriesFacts DEF Phases, Kinds
  <2> QED
    BY <1>14, <2>2 DEF OpenPybind
<1>15. ASSUME NEW t \in Threads, FunctionCreated(t)
       PROVE  call' \in [Threads -> CallRecords]
  BY <1>15, QueriesFacts DEF CallRecords, Phases, FunctionCreated
<1>16. ASSUME NEW t \in Threads, StartTimer(t)
       PROVE  call' \in [Threads -> CallRecords]
  BY <1>16, QueriesFacts DEF CallRecords, Phases, StartTimer, Go
<1>17. ASSUME NEW t \in Threads, Run(t)
       PROVE  call' \in [Threads -> CallRecords]
  BY <1>17, QueriesFacts DEF CallRecords, Phases, Run, Go
<1>18. ASSUME NEW t \in Threads, Succeed(t)
       PROVE  call' \in [Threads -> CallRecords]
  <2> DEFINE f == [call EXCEPT ![t].at = "drop"]
  <2> DEFINE g == [f EXCEPT ![t].since = NoSettings]
  <2>1. f \in [Threads -> CallRecords]
    BY <1>18, FieldTyped, QueriesFacts DEF Phases, Kinds
  <2>2. g \in [Threads -> CallRecords]
    BY <1>18, <2>1, FieldTyped, QueriesFacts DEF Phases, Kinds
  <2> QED
    BY <1>18, <2>2 DEF Succeed
<1>19. ASSUME NEW t \in Threads, Raise(t)
       PROVE  call' \in [Threads -> CallRecords]
  BY <1>19, QueriesFacts DEF CallRecords, Phases, Raise, Leave
<1>20. ASSUME NEW t \in Threads, NEW x \in Tables, DropTable(t, x)
       PROVE  call' \in [Threads -> CallRecords]
  <2> DEFINE f == [call EXCEPT ![t].at = "discard"]
  <2> DEFINE g == [f EXCEPT ![t].id = x]
  <2>1. f \in [Threads -> CallRecords]
    BY <1>20, FieldTyped, QueriesFacts DEF Phases, Kinds
  <2>2. g \in [Threads -> CallRecords]
    BY <1>20, <2>1, FieldTyped, QueriesFacts DEF Phases, Kinds
  <2> QED
    BY <1>20, <2>2 DEF DropTable
<1>21. ASSUME NEW t \in Threads, Discard(t)
       PROVE  call' \in [Threads -> CallRecords]
  <2> DEFINE f == [call EXCEPT ![t].toDrop = call[t].toDrop \ {call[t].id}]
  <2> DEFINE g == [f EXCEPT ![t].at = "drop"]
  <2>0. call[t].toDrop \ {call[t].id} \in SUBSET Tables
    BY DEF CallRecords
  <2>1. f \in [Threads -> CallRecords]
    BY <2>0, <1>21, FieldTyped, QueriesFacts DEF Phases, Kinds
  <2>2. g \in [Threads -> CallRecords]
    BY <1>21, <2>1, FieldTyped, QueriesFacts DEF Phases, Kinds
  <2> QED
    BY <1>21, <2>2 DEF Discard
<1>22. ASSUME NEW t \in Threads, Return(t)
       PROVE  call' \in [Threads -> CallRecords]
  BY <1>22, QueriesFacts DEF CallRecords, Phases, Return
<1>23. ASSUME NEW t \in Threads, TimerFires(t)
       PROVE  call' \in [Threads -> CallRecords]
  BY <1>23 DEF CallRecords, TimerFires, settingVars, tableVars, backendVars, timerVars
<1>24. ASSUME TimerInterrupts
       PROVE  call' \in [Threads -> CallRecords]
  BY <1>24 DEF CallRecords, TimerInterrupts, settingVars, tableVars, backendVars, timerVars
<1>25. CASE UNCHANGED vars
  BY <1>25 DEF CallRecords, vars, settingVars, tableVars, backendVars, timerVars
<1> QED
  BY <1>1, <1>2, <1>3, <1>4, <1>5, <1>6, <1>7, <1>8, <1>9, <1>10, <1>11,
     <1>12, <1>13, <1>14, <1>15, <1>16, <1>17, <1>18, <1>19, <1>20, <1>21, <1>22,
     <1>23, <1>24, <1>25
     DEF Next, Apply, Scan, Dispatch, Execute

\* The types of all variables but call.
StateTyped ==
    /\ calls \in 0..MaxCalls
    /\ pending \in Versions /\ lastSet \in Versions /\ inForce \in [Conns -> Versions]
    /\ applyLock \in Threads \cup {None}
    /\ engine \in [Conns -> Threads \cup {None}]
    /\ scanTables \subseteq Tables /\ engineTables \subseteq Tables
    /\ preferPybind \in BOOLEAN /\ interrupted \in BOOLEAN
    /\ timers \subseteq Threads /\ firing \in Nat /\ failed \subseteq Tables

\* The two together, with the counters of pybind connections, are TypeOK.
LEMMA TypesSplit ==
    TypeOK <=> /\ StateTyped
               /\ opened \in Conns /\ pyConnection \in 0..opened
               /\ call \in [Threads -> CallRecords]
BY DEF TypeOK, StateTyped, CallRecords, Numbers

\* Every step keeps the types of the other variables.
LEMMA StateTypedStep ==
    ASSUME StateTyped, call \in [Threads -> CallRecords], CallsInStep, [Next]_vars
    PROVE  StateTyped'
<1>1. ASSUME NEW t \in Threads, NEW s \in Settings, SetSetting(t, s)
      PROVE  StateTyped'
  <2>1. lastSet' \in Versions
    BY <1>1, QueriesAssumption DEF StateTyped, SetSetting, Versions
  <2>2. pending' \in Versions
    BY <1>1, <2>1 DEF StateTyped, SetSetting, Versions
  <2> QED
    BY <1>1, <2>1, <2>2 DEF StateTyped, SetSetting, settingVars, tableVars, backendVars,
         timerVars
<1>2. ASSUME NEW t \in Threads, NEW kind \in Kinds \ {"udf"}, Begin(t, kind)
      PROVE  StateTyped'
  BY <1>2, QueriesAssumption DEF StateTyped, Begin, settingVars, tableVars, backendVars,
       timerVars
<1>3. ASSUME NEW t \in Threads, TakePending(t)
      PROVE  StateTyped'
  BY <1>3, QueriesFacts DEF StateTyped, TakePending, settingVars, tableVars,
       backendVars, timerVars
<1>4. ASSUME NEW t \in Threads, NEW s \in Settings, ApplySetting(t, s)
      PROVE  StateTyped'
  <2>1. call[t].taken[s] \in 0..MaxSets
    BY DEF CallRecords, Versions
  <2>2. inForce[Capi] \in Versions
    BY QueriesFacts DEF StateTyped
  <2>3. [inForce[Capi] EXCEPT ![s] = call[t].taken[s]] \in Versions
    BY <2>1, <2>2 DEF Versions
  <2>4. inForce' \in [Conns -> Versions]
    BY <1>4, <2>3 DEF StateTyped, ApplySetting
  <2> QED
    BY <1>4, <2>4 DEF StateTyped, ApplySetting, settingVars, tableVars, backendVars,
         timerVars
<1>5. ASSUME NEW t \in Threads, AllApplied(t)
      PROVE  StateTyped'
  BY <1>5 DEF StateTyped, AllApplied, Go, settingVars, tableVars, backendVars, timerVars
<1>6. ASSUME NEW t \in Threads, Snapshot(t)
      PROVE  StateTyped'
  BY <1>6 DEF StateTyped, Snapshot, settingVars, tableVars, backendVars, timerVars
<1>7. ASSUME NEW t \in Threads, CreateTable(t)
      PROVE  StateTyped'
  <2>1. call[t].id \in Tables
    BY <1>7 DEF CreateTable, At, CallsInStep, CallInStep
  <2> QED
    BY <1>7, <2>1 DEF StateTyped, CreateTable, settingVars, tableVars, backendVars,
         timerVars
<1>8. ASSUME NEW t \in Threads, RegisterTable(t)
      PROVE  StateTyped'
  <2>1. call[t].id \in Tables
    BY <1>8 DEF RegisterTable, At, CallsInStep, CallInStep
  <2> QED
    BY <1>8, <2>1 DEF StateTyped, RegisterTable, settingVars, tableVars, backendVars,
         timerVars
<1>9. ASSUME NEW t \in Threads, Diff(t)
      PROVE  StateTyped'
  BY <1>9 DEF StateTyped, Diff, settingVars, tableVars, backendVars, timerVars
<1>10. ASSUME NEW t \in Threads, RefuseQuery(t)
       PROVE  StateTyped'
  <2>1. call[t].id \in Tables
    BY <1>10 DEF RefuseQuery, At, CallsInStep, CallInStep
  <2> QED
    BY <1>10, <2>1 DEF StateTyped, RefuseQuery, settingVars, tableVars, backendVars,
         timerVars
<1>11. ASSUME NEW t \in Threads, ChooseBackend(t)
       PROVE  StateTyped'
  BY <1>11 DEF StateTyped, ChooseBackend, Go, settingVars, tableVars, backendVars, timerVars
<1>12. ASSUME NEW t \in Threads, CreateFunction(t)
       PROVE  StateTyped'
  BY <1>12 DEF StateTyped, CreateFunction, settingVars, tableVars, backendVars, timerVars
<1>13. ASSUME NEW t \in Threads, FindPybind(t)
       PROVE  StateTyped'
  BY <1>13 DEF StateTyped, FindPybind, Go, settingVars, tableVars, backendVars, timerVars
<1>14. ASSUME NEW t \in Threads, OpenPybind(t)
       PROVE  StateTyped'
  BY <1>14 DEF StateTyped, OpenPybind, settingVars, tableVars, backendVars, timerVars
<1>15. ASSUME NEW t \in Threads, FunctionCreated(t)
       PROVE  StateTyped'
  BY <1>15 DEF StateTyped, FunctionCreated, settingVars, tableVars, backendVars, timerVars
<1>16. ASSUME NEW t \in Threads, StartTimer(t)
       PROVE  StateTyped'
  BY <1>16 DEF StateTyped, StartTimer, Go, settingVars, tableVars, backendVars, timerVars
<1>17. ASSUME NEW t \in Threads, Run(t)
       PROVE  StateTyped'
  BY <1>17 DEF StateTyped, Run, Go, settingVars, tableVars, backendVars, timerVars
<1>18. ASSUME NEW t \in Threads, Succeed(t)
       PROVE  StateTyped'
  BY <1>18 DEF StateTyped, Succeed, Leave, settingVars, tableVars, backendVars, timerVars
<1>19. ASSUME NEW t \in Threads, Raise(t)
       PROVE  StateTyped'
  <2>1. call[t].id \in Tables
    BY <1>19 DEF Raise, Leave, At, CallsInStep, CallInStep
  <2> QED
    BY <1>19, <2>1 DEF StateTyped, Raise, Leave, settingVars, tableVars, backendVars,
         timerVars
<1>20. ASSUME NEW t \in Threads, NEW x \in Tables, DropTable(t, x)
       PROVE  StateTyped'
  BY <1>20 DEF StateTyped, DropTable, settingVars, tableVars, backendVars, timerVars
<1>21. ASSUME NEW t \in Threads, Discard(t)
       PROVE  StateTyped'
  BY <1>21 DEF StateTyped, Discard, settingVars, tableVars, backendVars, timerVars
<1>22. ASSUME NEW t \in Threads, Return(t)
       PROVE  StateTyped'
  BY <1>22 DEF StateTyped, Return, settingVars, tableVars, backendVars, timerVars
<1>23. ASSUME NEW t \in Threads, TimerFires(t)
       PROVE  StateTyped'
  BY <1>23 DEF StateTyped, TimerFires, settingVars, tableVars, backendVars, timerVars
<1>24. ASSUME TimerInterrupts
       PROVE  StateTyped'
  BY <1>24 DEF StateTyped, TimerInterrupts, settingVars, tableVars, backendVars, timerVars
<1>25. CASE UNCHANGED vars
  BY <1>25 DEF StateTyped, vars, settingVars, tableVars, backendVars, timerVars
<1> QED
  BY <1>1, <1>2, <1>3, <1>4, <1>5, <1>6, <1>7, <1>8, <1>9, <1>10, <1>11,
     <1>12, <1>13, <1>14, <1>15, <1>16, <1>17, <1>18, <1>19, <1>20, <1>21, <1>22,
     <1>23, <1>24, <1>25
     DEF Next, Apply, Scan, Dispatch, Execute

-----------------------------------------------------------------------------
(* What each step does, without EXCEPT.                                    *)

Untouched(t)     == \A u \in Threads \ {t} : call'[u] = call[u]
KeepsName(t)     == call'[t].id = call[t].id /\ call'[t].kind = call[t].kind
KeepsConn(t)     == call'[t].conn = call[t].conn
KeepsSettings(t) == call'[t].since = call[t].since /\ call'[t].taken = call[t].taken
KeepsTables(t)   == call'[t].before = call[t].before /\ call'[t].toDrop = call[t].toDrop
Moves(t, from, to) ==
    /\ Untouched(t)
    /\ call[t].at = from /\ call'[t].at = to
IsReset(t) ==
    /\ Untouched(t)
    /\ call'[t] = Idle

\* What an idle thread's record says.
LEMMA IdleFields ==
    /\ Idle.at = "idle" /\ Idle.id = 0 /\ Idle.kind = "plain" /\ Idle.conn = Capi
    /\ Idle.since = NoSettings /\ Idle.taken = NoSettings
    /\ Idle.before = {} /\ Idle.toDrop = {}
BY DEF Idle

\* The steps in the order of Queries; NAMEMoves is about the action NAME.
LEMMA SetSettingMoves ==
    ASSUME lastSet \in Versions, pending \in Versions, NEW t \in Threads,
           NEW s \in Settings, SetSetting(t, s)
    PROVE  /\ lastSet'[s] = lastSet[s] + 1 /\ pending'[s] = lastSet[s] + 1
           /\ \A r \in Settings \ {s} : lastSet'[r] = lastSet[r] /\ pending'[r] = pending[r]
           /\ UNCHANGED <<calls, call, applyLock, inForce, tableVars, backendVars, failed>>
BY DEF SetSetting, Versions, At

LEMMA BeginMoves ==
    ASSUME call \in [Threads -> CallRecords], NEW t \in Threads, NEW kind,
           Begin(t, kind)
    PROVE  /\ Moves(t, "idle", "lock") /\ calls < MaxCalls /\ calls' = calls + 1
           /\ call'[t].id = calls' /\ call'[t].kind = kind /\ call'[t].conn = Capi
           /\ call'[t].since = lastSet /\ call'[t].taken = NoSettings
           /\ call'[t].before = {} /\ call'[t].toDrop = {}
           /\ UNCHANGED <<settingVars, tableVars, backendVars, failed>>
BY QueriesFacts DEF CallRecords, Untouched, Moves, IsReset, At, Begin, Idle

LEMMA TakePendingMoves ==
    ASSUME call \in [Threads -> CallRecords], NEW t \in Threads, TakePending(t)
    PROVE  /\ Moves(t, "lock", "apply")
           /\ call'[t].since = call[t].since /\ call'[t].taken = pending
           /\ applyLock = None /\ applyLock' = t /\ pending' = NoSettings
           /\ UNCHANGED <<inForce, lastSet>>
           /\ KeepsName(t) /\ KeepsConn(t) /\ KeepsTables(t)
           /\ UNCHANGED <<calls, tableVars, backendVars, failed>>
BY QueriesFacts DEF CallRecords, Untouched, Moves, IsReset, At, KeepsName, KeepsConn,
     KeepsTables, TakePending

LEMMA ApplySettingMoves ==
    ASSUME call \in [Threads -> CallRecords],
           NEW t \in Threads, NEW s \in Settings, inForce \in [Conns -> Versions],
           ApplySetting(t, s)
    PROVE  /\ Moves(t, "apply", "apply")
           /\ call'[t].since = call[t].since /\ call[t].taken[s] # 0
           /\ call'[t].taken[s] = 0 /\ inForce'[Capi][s] = call[t].taken[s]
           /\ \A r \in Settings \ {s} : /\ call'[t].taken[r] = call[t].taken[r]
                                       /\ inForce'[Capi][r] = inForce[Capi][r]
           /\ \A c \in Conns \ {Capi} : inForce'[c] = inForce[c]
           /\ UNCHANGED <<applyLock, pending, lastSet>>
           /\ KeepsName(t) /\ KeepsConn(t) /\ KeepsTables(t)
           /\ UNCHANGED <<calls, tableVars, backendVars, failed>>
BY QueriesFacts DEF CallRecords, Untouched, Moves, IsReset, At, KeepsName, KeepsConn,
     KeepsTables, ApplySetting, Versions

LEMMA AllAppliedMoves ==
    ASSUME call \in [Threads -> CallRecords], NEW t \in Threads, AllApplied(t)
    PROVE  /\ Moves(t, "apply", "snapshot")
           /\ call[t].taken = NoSettings /\ applyLock' = None
           /\ UNCHANGED <<inForce, pending, lastSet>>
           /\ KeepsName(t) /\ KeepsConn(t) /\ KeepsSettings(t) /\ KeepsTables(t)
           /\ UNCHANGED <<calls, tableVars, backendVars, failed>>
BY QueriesFacts DEF CallRecords, Untouched, Moves, IsReset, At, KeepsName, KeepsConn,
     KeepsSettings, KeepsTables, AllApplied, Go

LEMMA SnapshotMoves ==
    ASSUME call \in [Threads -> CallRecords], NEW t \in Threads, Snapshot(t)
    PROVE  /\ Moves(t, "snapshot", IF call[t].kind = "table" THEN "create" ELSE "diff")
           /\ call'[t].before = scanTables /\ call'[t].toDrop = call[t].toDrop
           /\ KeepsName(t) /\ KeepsConn(t) /\ KeepsSettings(t)
           /\ UNCHANGED <<calls, settingVars, tableVars, backendVars, failed>>
BY QueriesFacts DEF CallRecords, Untouched, Moves, IsReset, At, KeepsName, KeepsConn,
     KeepsSettings, Snapshot

LEMMA CreateTableMoves ==
    ASSUME call \in [Threads -> CallRecords], NEW t \in Threads, CreateTable(t)
    PROVE  /\ Moves(t, "create", "register")
           /\ engineTables' = engineTables \cup {call[t].id} \/ UNCHANGED engineTables
           /\ UNCHANGED scanTables
           /\ KeepsName(t) /\ KeepsConn(t) /\ KeepsSettings(t) /\ KeepsTables(t)
           /\ UNCHANGED <<calls, settingVars, backendVars, failed>>
BY QueriesFacts DEF CallRecords, Untouched, Moves, IsReset, At, KeepsName, KeepsConn,
     KeepsSettings, KeepsTables, CreateTable, Go

LEMMA RegisterTableMoves ==
    ASSUME call \in [Threads -> CallRecords], NEW t \in Threads, RegisterTable(t)
    PROVE  /\ Moves(t, "register", "diff")
           /\ scanTables' = scanTables \cup {call[t].id}
           /\ UNCHANGED engineTables
           /\ KeepsName(t) /\ KeepsConn(t) /\ KeepsSettings(t) /\ KeepsTables(t)
           /\ UNCHANGED <<calls, settingVars, backendVars, failed>>
BY QueriesFacts DEF CallRecords, Untouched, Moves, IsReset, At, KeepsName, KeepsConn,
     KeepsSettings, KeepsTables, RegisterTable, Go

LEMMA DiffMoves ==
    ASSUME call \in [Threads -> CallRecords], NEW t \in Threads, Diff(t)
    PROVE  /\ Moves(t, "diff", "choose")
           /\ call'[t].toDrop = scanTables \ call[t].before
           /\ call'[t].before = {}
           /\ KeepsName(t) /\ KeepsConn(t) /\ KeepsSettings(t)
           /\ UNCHANGED <<calls, settingVars, tableVars, backendVars, failed>>
BY QueriesFacts DEF CallRecords, Untouched, Moves, IsReset, At, KeepsName, KeepsConn,
     KeepsSettings, Diff

LEMMA RefuseQueryMoves ==
    ASSUME call \in [Threads -> CallRecords], NEW t \in Threads, RefuseQuery(t)
    PROVE  /\ IsReset(t) /\ call[t].at = "choose" /\ failed' = failed \cup {call[t].id}
           /\ UNCHANGED <<calls, settingVars, tableVars, backendVars>>
BY QueriesFacts DEF CallRecords, Untouched, Moves, IsReset, At, RefuseQuery

LEMMA ChooseBackendMoves ==
    ASSUME call \in [Threads -> CallRecords], NEW t \in Threads, ChooseBackend(t)
    PROVE  /\ Moves(t, "choose", "find") \/ Moves(t, "choose", "call")
           /\ UNCHANGED <<pyConnection, opened>>
           /\ KeepsName(t) /\ KeepsConn(t) /\ KeepsSettings(t) /\ KeepsTables(t)
           /\ UNCHANGED <<calls, settingVars, tableVars, failed>>
BY QueriesFacts DEF CallRecords, Untouched, Moves, IsReset, At, KeepsName, KeepsConn,
     KeepsSettings, KeepsTables, ChooseBackend, Go

LEMMA CreateFunctionMoves ==
    ASSUME call \in [Threads -> CallRecords], NEW t \in Threads, CreateFunction(t)
    PROVE  /\ Moves(t, "idle", "find")
           /\ call'[t].id = call[t].id /\ call'[t].kind = "udf"
           /\ KeepsConn(t) /\ KeepsSettings(t) /\ KeepsTables(t)
           /\ UNCHANGED <<calls, settingVars, tableVars, backendVars, failed>>
BY QueriesFacts DEF CallRecords, Untouched, Moves, IsReset, At, KeepsConn,
     KeepsSettings, KeepsTables, CreateFunction

LEMMA FindPybindMoves ==
    ASSUME call \in [Threads -> CallRecords], NEW t \in Threads, FindPybind(t)
    PROVE  /\ \/ Moves(t, "find", "open") /\ pyConnection = Capi /\ KeepsConn(t)
              \/ Moves(t, "find", "call") /\ call'[t].conn = pyConnection
           /\ KeepsName(t) /\ KeepsSettings(t) /\ KeepsTables(t)
           /\ UNCHANGED <<calls, settingVars, tableVars, backendVars, failed>>
BY QueriesFacts DEF CallRecords, Untouched, Moves, IsReset, At, KeepsName,
     KeepsSettings, KeepsTables, FindPybind, Go, KeepsConn

LEMMA OpenPybindMoves ==
    ASSUME call \in [Threads -> CallRecords], NEW t \in Threads, OpenPybind(t)
    PROVE  /\ Moves(t, "open", "call") /\ call'[t].conn = opened'
           /\ opened' = opened + 1 /\ pyConnection' = opened'
           /\ KeepsName(t) /\ KeepsSettings(t) /\ KeepsTables(t)
           /\ UNCHANGED <<calls, settingVars, tableVars, failed>>
BY QueriesFacts DEF CallRecords, Untouched, Moves, IsReset, At, KeepsName,
     KeepsSettings, KeepsTables, OpenPybind

LEMMA FunctionCreatedMoves ==
    ASSUME call \in [Threads -> CallRecords], NEW t \in Threads, FunctionCreated(t)
    PROVE  /\ IsReset(t) /\ call[t].at = "call" /\ call[t].kind = "udf"
           /\ UNCHANGED <<pyConnection, opened>>
           /\ UNCHANGED <<calls, settingVars, tableVars, failed>>
BY QueriesFacts DEF CallRecords, Untouched, Moves, IsReset, At, FunctionCreated

LEMMA StartTimerMoves ==
    ASSUME call \in [Threads -> CallRecords], NEW t \in Threads, StartTimer(t)
    PROVE  /\ Moves(t, "call", "wait") /\ call[t].kind # "udf"
           /\ KeepsName(t) /\ KeepsConn(t) /\ KeepsSettings(t) /\ KeepsTables(t)
           /\ UNCHANGED <<calls, settingVars, tableVars, backendVars, failed>>
BY QueriesFacts DEF CallRecords, Untouched, Moves, IsReset, At, KeepsName, KeepsConn,
     KeepsSettings, KeepsTables, StartTimer, Go

LEMMA RunMoves ==
    ASSUME call \in [Threads -> CallRecords], NEW t \in Threads, Run(t)
    PROVE  /\ Moves(t, "wait", "run")
           /\ KeepsName(t) /\ KeepsConn(t) /\ KeepsSettings(t) /\ KeepsTables(t)
           /\ UNCHANGED <<calls, settingVars, tableVars, backendVars, failed>>
BY QueriesFacts DEF CallRecords, Untouched, Moves, IsReset, At, KeepsName, KeepsConn,
     KeepsSettings, KeepsTables, Run, Go

LEMMA SucceedMoves ==
    ASSUME call \in [Threads -> CallRecords], NEW t \in Threads, Succeed(t)
    PROVE  /\ Moves(t, "run", "drop")
           /\ call'[t].since = NoSettings /\ call'[t].taken = call[t].taken
           /\ KeepsName(t) /\ KeepsConn(t) /\ KeepsTables(t)
           /\ UNCHANGED <<calls, settingVars, tableVars, backendVars, failed>>
BY QueriesFacts DEF CallRecords, Untouched, Moves, IsReset, At, KeepsName, KeepsConn,
     KeepsTables, Succeed, Leave

LEMMA RaiseMoves ==
    ASSUME call \in [Threads -> CallRecords], NEW t \in Threads, Raise(t)
    PROVE  /\ IsReset(t) /\ call[t].at = "run" /\ failed' = failed \cup {call[t].id}
           /\ UNCHANGED <<calls, settingVars, tableVars, backendVars>>
BY QueriesFacts DEF CallRecords, Untouched, Moves, IsReset, At, Raise, Leave

LEMMA DropTableMoves ==
    ASSUME call \in [Threads -> CallRecords], NEW t \in Threads, NEW x,
           DropTable(t, x)
    PROVE  /\ Moves(t, "drop", "discard") /\ x \in call[t].toDrop
           /\ call'[t].id = x /\ call'[t].kind = call[t].kind
           /\ engineTables' = engineTables \ {x} /\ UNCHANGED scanTables
           /\ KeepsConn(t) /\ KeepsSettings(t) /\ KeepsTables(t)
           /\ UNCHANGED <<calls, settingVars, backendVars, failed>>
BY QueriesFacts DEF CallRecords, Untouched, Moves, IsReset, At, KeepsConn,
     KeepsSettings, KeepsTables, DropTable

LEMMA DiscardMoves ==
    ASSUME call \in [Threads -> CallRecords], NEW t \in Threads, Discard(t)
    PROVE  /\ Moves(t, "discard", "drop")
           /\ call'[t].before = call[t].before
           /\ call'[t].toDrop = call[t].toDrop \ {call[t].id}
           /\ scanTables' = scanTables \ {call[t].id} /\ UNCHANGED engineTables
           /\ KeepsName(t) /\ KeepsConn(t) /\ KeepsSettings(t)
           /\ UNCHANGED <<calls, settingVars, backendVars, failed>>
BY QueriesFacts DEF CallRecords, Untouched, Moves, IsReset, At, KeepsName, KeepsConn,
     KeepsSettings, Discard

LEMMA ReturnMoves ==
    ASSUME call \in [Threads -> CallRecords], NEW t \in Threads, Return(t)
    PROVE  /\ IsReset(t) /\ call[t].at = "drop" /\ call[t].toDrop = {}
           /\ UNCHANGED <<calls, settingVars, tableVars, backendVars, failed>>
BY QueriesFacts DEF CallRecords, Untouched, Moves, IsReset, At, Return

LEMMA TimerMoves ==
    ASSUME TimerInterrupts \/ \E t \in Threads : TimerFires(t)
    PROVE  UNCHANGED <<calls, settingVars, tableVars, backendVars, failed, call>>
BY DEF TimerInterrupts, TimerFires

-----------------------------------------------------------------------------
(* What a step leaves alone.                                               *)

\* The call's settings are as they were, except that what was set before it does not
\* matter any more; it was, and is, not waiting for the pending ones.
LeavesSettings ==
    /\ UNCHANGED settingVars
    /\ \A u \in Threads :
         /\ call'[u].taken = call[u].taken
         /\ call'[u].since \in {call[u].since, NoSettings}
         /\ \/ call'[u].at = call[u].at
            \/ call[u].at \notin {"lock", "apply"} /\ call'[u].at \notin {"lock", "apply"}

\* The call has its number and its tables as before.  It has not passed its diff, or has
\* not finished its query, unless it is a create_function(), which has no number.
LeavesTables ==
    /\ UNCHANGED <<calls, tableVars, failed>>
    /\ \A u \in Threads :
         /\ call'[u].id = call[u].id
         /\ call'[u].before = call[u].before /\ call'[u].toDrop = call[u].toDrop
         /\ \/ call'[u].at = call[u].at
            \/ call[u].at \in Early /\ call'[u].at \in Early
            \/ call[u].at \in Scanned /\ call'[u].at \in Scanned
            \/ /\ call[u].id = 0
               /\ call[u].at \in Scanned \cup {"idle"}
               /\ call'[u].at \in Scanned \cup {"idle"}

\* Every step keeps a call's record in step with its phase.
LEMMA InStepKept ==
    ASSUME call \in [Threads -> CallRecords], StateTyped, CallsInStep, [Next]_vars
    PROVE  CallsInStep'
<1>0. calls \in Nat
  BY QueriesAssumption DEF StateTyped
<1>1. ASSUME NEW t \in Threads, NEW s \in Settings, SetSetting(t, s)
      PROVE  CallsInStep'
  <2>1. UNCHANGED <<calls, call>>
    BY <1>1, SetSettingMoves DEF StateTyped
  <2> QED
    BY <2>1, QueriesAssumption, <1>0, IdleFields DEF CallsInStep, CallInStep, At,
         Dropping, Tables, Capi
<1>2. ASSUME NEW t \in Threads, NEW kind \in Kinds \ {"udf"}, Begin(t, kind)
      PROVE  CallsInStep'
  <2>1. /\ Moves(t, "idle", "lock") /\ calls < MaxCalls /\ calls' = calls + 1
        /\ call'[t].id = calls' /\ call'[t].kind = kind /\ call'[t].conn = Capi
        /\ call'[t].before = {} /\ call'[t].toDrop = {}
    BY <1>2, BeginMoves
  <2> QED
    BY <2>1, QueriesAssumption, <1>0, IdleFields, <1>2 DEF CallsInStep, CallInStep,
         At, Dropping, Tables, Capi, Untouched, Moves
<1>3. ASSUME NEW t \in Threads, TakePending(t)
      PROVE  CallsInStep'
  <2>1. /\ Moves(t, "lock", "apply")
        /\ KeepsName(t) /\ KeepsTables(t)
        /\ UNCHANGED calls
    BY <1>3, TakePendingMoves
  <2> QED
    BY <2>1, QueriesAssumption, <1>0, IdleFields DEF CallsInStep, CallInStep, At,
         Dropping, Tables, Capi, Untouched, Moves, KeepsName, KeepsTables
<1>4. ASSUME NEW t \in Threads, NEW s \in Settings, ApplySetting(t, s)
      PROVE  CallsInStep'
  <2>1. /\ Moves(t, "apply", "apply")
        /\ KeepsName(t) /\ KeepsTables(t)
        /\ UNCHANGED calls
    BY <1>4, ApplySettingMoves DEF StateTyped
  <2> QED
    BY <2>1, QueriesAssumption, <1>0, IdleFields DEF CallsInStep, CallInStep, At,
         Dropping, Tables, Capi, Untouched, Moves, KeepsName, KeepsTables
<1>5. ASSUME NEW t \in Threads, AllApplied(t)
      PROVE  CallsInStep'
  <2>1. /\ Moves(t, "apply", "snapshot")
        /\ KeepsName(t) /\ KeepsTables(t)
        /\ UNCHANGED calls
    BY <1>5, AllAppliedMoves
  <2> QED
    BY <2>1, QueriesAssumption, <1>0, IdleFields DEF CallsInStep, CallInStep, At,
         Dropping, Tables, Capi, Untouched, Moves, KeepsName, KeepsTables
<1>6. ASSUME NEW t \in Threads, Snapshot(t)
      PROVE  CallsInStep'
  <2>1. /\ Moves(t, "snapshot", IF call[t].kind = "table" THEN "create" ELSE "diff")
        /\ call'[t].before = scanTables /\ call'[t].toDrop = call[t].toDrop
        /\ KeepsName(t)
        /\ UNCHANGED calls
    BY <1>6, SnapshotMoves
  <2> QED
    BY <2>1, QueriesAssumption, <1>0, IdleFields DEF CallsInStep, CallInStep, At,
         Dropping, Tables, Capi, Untouched, Moves, KeepsName
<1>7. ASSUME NEW t \in Threads, CreateTable(t)
      PROVE  CallsInStep'
  <2>1. /\ Moves(t, "create", "register")
        /\ engineTables' = engineTables \cup {call[t].id} \/ UNCHANGED engineTables
        /\ KeepsName(t) /\ KeepsTables(t)
        /\ UNCHANGED calls
    BY <1>7, CreateTableMoves
  <2> QED
    BY <2>1, QueriesAssumption, <1>0, IdleFields DEF CallsInStep, CallInStep, At,
         Dropping, Tables, Capi, Untouched, Moves, KeepsName, KeepsTables
<1>8. ASSUME NEW t \in Threads, RegisterTable(t)
      PROVE  CallsInStep'
  <2>1. /\ Moves(t, "register", "diff")
        /\ scanTables' = scanTables \cup {call[t].id}
        /\ KeepsName(t) /\ KeepsTables(t)
        /\ UNCHANGED calls
    BY <1>8, RegisterTableMoves
  <2> QED
    BY <2>1, QueriesAssumption, <1>0, IdleFields DEF CallsInStep, CallInStep, At,
         Dropping, Tables, Capi, Untouched, Moves, KeepsName, KeepsTables
<1>9. ASSUME NEW t \in Threads, Diff(t)
      PROVE  CallsInStep'
  <2>1. /\ Moves(t, "diff", "choose")
        /\ call'[t].toDrop = scanTables \ call[t].before
        /\ call'[t].before = {}
        /\ KeepsName(t)
        /\ UNCHANGED calls
    BY <1>9, DiffMoves
  <2> QED
    BY <2>1, QueriesAssumption, <1>0, IdleFields DEF CallsInStep, CallInStep, At,
         Dropping, Tables, Capi, Untouched, Moves, KeepsName
<1>10. ASSUME NEW t \in Threads, RefuseQuery(t)
       PROVE  CallsInStep'
  <2>1. /\ IsReset(t) /\ call[t].at = "choose" /\ failed' = failed \cup {call[t].id}
        /\ UNCHANGED calls
    BY <1>10, RefuseQueryMoves
  <2> QED
    BY <2>1, QueriesAssumption, <1>0, IdleFields DEF CallsInStep, CallInStep, At,
         Dropping, Tables, Capi, Untouched, IsReset
<1>11. ASSUME NEW t \in Threads, ChooseBackend(t)
       PROVE  CallsInStep'
  <2>1. /\ Moves(t, "choose", "find") \/ Moves(t, "choose", "call")
        /\ KeepsName(t) /\ KeepsTables(t)
        /\ UNCHANGED calls
    BY <1>11, ChooseBackendMoves
  <2> QED
    BY <2>1, QueriesAssumption, <1>0, IdleFields DEF CallsInStep, CallInStep, At,
         Dropping, Tables, Capi, Untouched, Moves, KeepsName, KeepsTables
<1>12. ASSUME NEW t \in Threads, CreateFunction(t)
       PROVE  CallsInStep'
  <2>1. /\ Moves(t, "idle", "find")
        /\ call'[t].id = call[t].id /\ call'[t].kind = "udf"
        /\ KeepsTables(t)
        /\ UNCHANGED calls
    BY <1>12, CreateFunctionMoves
  <2> QED
    BY <2>1, QueriesAssumption, <1>0, IdleFields DEF CallsInStep, CallInStep, At,
         Dropping, Tables, Capi, Untouched, Moves, KeepsTables
<1>13. ASSUME NEW t \in Threads, FindPybind(t)
       PROVE  CallsInStep'
  <2>1. /\ \/ Moves(t, "find", "open") /\ pyConnection = Capi /\ KeepsConn(t)
           \/ Moves(t, "find", "call") /\ call'[t].conn = pyConnection
        /\ KeepsName(t) /\ KeepsTables(t)
        /\ UNCHANGED calls
    BY <1>13, FindPybindMoves
  <2> QED
    BY <2>1, QueriesAssumption, <1>0, IdleFields DEF CallsInStep, CallInStep, At,
         Dropping, Tables, Capi, Untouched, Moves, KeepsName, KeepsConn, KeepsTables
<1>14. ASSUME NEW t \in Threads, OpenPybind(t)
       PROVE  CallsInStep'
  <2>1. /\ Moves(t, "open", "call") /\ call'[t].conn = opened'
        /\ KeepsName(t) /\ KeepsTables(t)
        /\ UNCHANGED calls
    BY <1>14, OpenPybindMoves
  <2> QED
    BY <2>1, QueriesAssumption, <1>0, IdleFields DEF CallsInStep, CallInStep, At,
         Dropping, Tables, Capi, Untouched, Moves, KeepsName, KeepsTables
<1>15. ASSUME NEW t \in Threads, FunctionCreated(t)
       PROVE  CallsInStep'
  <2>1. /\ IsReset(t) /\ call[t].at = "call" /\ call[t].kind = "udf"
        /\ UNCHANGED calls
    BY <1>15, FunctionCreatedMoves
  <2> QED
    BY <2>1, QueriesAssumption, <1>0, IdleFields DEF CallsInStep, CallInStep, At,
         Dropping, Tables, Capi, Untouched, IsReset
<1>16. ASSUME NEW t \in Threads, StartTimer(t)
       PROVE  CallsInStep'
  <2>1. /\ Moves(t, "call", "wait") /\ call[t].kind # "udf"
        /\ KeepsName(t) /\ KeepsTables(t)
        /\ UNCHANGED calls
    BY <1>16, StartTimerMoves
  <2> QED
    BY <2>1, QueriesAssumption, <1>0, IdleFields DEF CallsInStep, CallInStep, At,
         Dropping, Tables, Capi, Untouched, Moves, KeepsName, KeepsTables
<1>17. ASSUME NEW t \in Threads, Run(t)
       PROVE  CallsInStep'
  <2>1. /\ Moves(t, "wait", "run")
        /\ KeepsName(t) /\ KeepsTables(t)
        /\ UNCHANGED calls
    BY <1>17, RunMoves
  <2> QED
    BY <2>1, QueriesAssumption, <1>0, IdleFields DEF CallsInStep, CallInStep, At,
         Dropping, Tables, Capi, Untouched, Moves, KeepsName, KeepsTables
<1>18. ASSUME NEW t \in Threads, Succeed(t)
       PROVE  CallsInStep'
  <2>1. /\ Moves(t, "run", "drop")
        /\ KeepsName(t) /\ KeepsTables(t)
        /\ UNCHANGED calls
    BY <1>18, SucceedMoves
  <2> QED
    BY <2>1, QueriesAssumption, <1>0, IdleFields DEF CallsInStep, CallInStep, At,
         Dropping, Tables, Capi, Untouched, Moves, KeepsName, KeepsTables
<1>19. ASSUME NEW t \in Threads, Raise(t)
       PROVE  CallsInStep'
  <2>1. /\ IsReset(t) /\ call[t].at = "run" /\ failed' = failed \cup {call[t].id}
        /\ UNCHANGED calls
    BY <1>19, RaiseMoves
  <2> QED
    BY <2>1, QueriesAssumption, <1>0, IdleFields DEF CallsInStep, CallInStep, At,
         Dropping, Tables, Capi, Untouched, IsReset
<1>20. ASSUME NEW t \in Threads, NEW x \in Tables, DropTable(t, x)
       PROVE  CallsInStep'
  <2>1. /\ Moves(t, "drop", "discard") /\ x \in call[t].toDrop
        /\ call'[t].id = x /\ call'[t].kind = call[t].kind
        /\ KeepsTables(t)
        /\ UNCHANGED calls
    BY <1>20, DropTableMoves
  <2> QED
    BY <2>1, QueriesAssumption, <1>0, IdleFields DEF CallsInStep, CallInStep, At,
         Dropping, Tables, Capi, Untouched, Moves, KeepsTables
<1>21. ASSUME NEW t \in Threads, Discard(t)
       PROVE  CallsInStep'
  <2>1. /\ Moves(t, "discard", "drop")
        /\ call'[t].before = call[t].before
        /\ call'[t].toDrop = call[t].toDrop \ {call[t].id}
        /\ scanTables' = scanTables \ {call[t].id} /\ UNCHANGED engineTables
        /\ KeepsName(t)
        /\ UNCHANGED calls
    BY <1>21, DiscardMoves
  <2> QED
    BY <2>1, QueriesAssumption, <1>0, IdleFields DEF CallsInStep, CallInStep, At,
         Dropping, Tables, Capi, Untouched, Moves, KeepsName
<1>22. ASSUME NEW t \in Threads, Return(t)
       PROVE  CallsInStep'
  <2>1. /\ IsReset(t) /\ call[t].at = "drop" /\ call[t].toDrop = {}
        /\ UNCHANGED calls
    BY <1>22, ReturnMoves
  <2> QED
    BY <2>1, QueriesAssumption, <1>0, IdleFields DEF CallsInStep, CallInStep, At,
         Dropping, Tables, Capi, Untouched, IsReset
<1>23. ASSUME NEW t \in Threads, TimerFires(t)
       PROVE  CallsInStep'
  <2>1. UNCHANGED <<calls, call>>
    BY <1>23, TimerMoves
  <2> QED
    BY <2>1, QueriesAssumption, <1>0, IdleFields DEF CallsInStep, CallInStep, At,
         Dropping, Tables, Capi
<1>24. ASSUME TimerInterrupts
       PROVE  CallsInStep'
  <2>1. UNCHANGED <<calls, call>>
    BY <1>24, TimerMoves
  <2> QED
    BY <2>1, QueriesAssumption, <1>0, IdleFields DEF CallsInStep, CallInStep, At,
         Dropping, Tables, Capi
<1>25. CASE UNCHANGED vars
  BY <1>25, QueriesAssumption, <1>0, IdleFields DEF CallsInStep, CallInStep, At, Dropping,
       Tables, Capi, vars
<1> QED
  BY <1>1, <1>2, <1>3, <1>4, <1>5, <1>6, <1>7, <1>8, <1>9, <1>10, <1>11,
     <1>12, <1>13, <1>14, <1>15, <1>16, <1>17, <1>18, <1>19, <1>20, <1>21, <1>22,
     <1>23, <1>24, <1>25
     DEF Next, Apply, Scan, Dispatch, Execute

\* All steps but five leave the settings alone.
LEMMA SettingSteps ==
    ASSUME call \in [Threads -> CallRecords], StateTyped, OnlyHolderTakes, [Next]_vars
    PROVE  \/ \E t \in Threads, s \in Settings : SetSetting(t, s)
           \/ \E t \in Threads, s \in Settings : ApplySetting(t, s)
           \/ \E t \in Threads, kind \in Kinds \ {"udf"} : Begin(t, kind)
           \/ \E t \in Threads : TakePending(t) \/ AllApplied(t)
           \/ LeavesSettings
<1>0. \A u \in Threads : call[u].at # "apply" => call[u].taken = NoSettings
  BY DEF OnlyHolderTakes, At
<1>1. ASSUME NEW t \in Threads, Snapshot(t)
      PROVE  LeavesSettings
  <2>1. /\ Moves(t, "snapshot", IF call[t].kind = "table" THEN "create" ELSE "diff")
        /\ KeepsSettings(t)
        /\ UNCHANGED settingVars
    BY <1>1, SnapshotMoves
  <2> QED
    BY <2>1, <1>0 DEF LeavesSettings, Untouched, Moves, KeepsSettings, settingVars
<1>2. ASSUME NEW t \in Threads, CreateTable(t)
      PROVE  LeavesSettings
  <2>1. /\ Moves(t, "create", "register")
        /\ KeepsSettings(t)
        /\ UNCHANGED settingVars
    BY <1>2, CreateTableMoves
  <2> QED
    BY <2>1, <1>0 DEF LeavesSettings, Untouched, Moves, KeepsSettings, settingVars
<1>3. ASSUME NEW t \in Threads, RegisterTable(t)
      PROVE  LeavesSettings
  <2>1. /\ Moves(t, "register", "diff")
        /\ KeepsSettings(t)
        /\ UNCHANGED settingVars
    BY <1>3, RegisterTableMoves
  <2> QED
    BY <2>1, <1>0 DEF LeavesSettings, Untouched, Moves, KeepsSettings, settingVars
<1>4. ASSUME NEW t \in Threads, Diff(t)
      PROVE  LeavesSettings
  <2>1. /\ Moves(t, "diff", "choose")
        /\ KeepsSettings(t)
        /\ UNCHANGED settingVars
    BY <1>4, DiffMoves
  <2> QED
    BY <2>1, <1>0 DEF LeavesSettings, Untouched, Moves, KeepsSettings, settingVars
<1>5. ASSUME NEW t \in Threads, RefuseQuery(t)
      PROVE  LeavesSettings
  <2>1. /\ IsReset(t) /\ call[t].at = "choose" /\ failed' = failed \cup {call[t].id}
        /\ UNCHANGED settingVars
    BY <1>5, RefuseQueryMoves
  <2> QED
    BY <2>1, IdleFields, <1>0 DEF LeavesSettings, Untouched, IsReset, settingVars
<1>6. ASSUME NEW t \in Threads, ChooseBackend(t)
      PROVE  LeavesSettings
  <2>1. /\ Moves(t, "choose", "find") \/ Moves(t, "choose", "call")
        /\ KeepsSettings(t)
        /\ UNCHANGED settingVars
    BY <1>6, ChooseBackendMoves
  <2> QED
    BY <2>1, <1>0 DEF LeavesSettings, Untouched, Moves, KeepsSettings, settingVars
<1>7. ASSUME NEW t \in Threads, CreateFunction(t)
      PROVE  LeavesSettings
  <2>1. /\ Moves(t, "idle", "find")
        /\ KeepsSettings(t)
        /\ UNCHANGED settingVars
    BY <1>7, CreateFunctionMoves
  <2> QED
    BY <2>1, <1>0 DEF LeavesSettings, Untouched, Moves, KeepsSettings, settingVars
<1>8. ASSUME NEW t \in Threads, FindPybind(t)
      PROVE  LeavesSettings
  <2>1. /\ \/ Moves(t, "find", "open") /\ pyConnection = Capi /\ KeepsConn(t)
           \/ Moves(t, "find", "call") /\ call'[t].conn = pyConnection
        /\ KeepsSettings(t)
        /\ UNCHANGED settingVars
    BY <1>8, FindPybindMoves
  <2> QED
    BY <2>1, <1>0 DEF LeavesSettings, Untouched, Moves, KeepsConn, KeepsSettings,
         settingVars
<1>9. ASSUME NEW t \in Threads, OpenPybind(t)
      PROVE  LeavesSettings
  <2>1. /\ Moves(t, "open", "call") /\ call'[t].conn = opened'
        /\ KeepsSettings(t)
        /\ UNCHANGED settingVars
    BY <1>9, OpenPybindMoves
  <2> QED
    BY <2>1, <1>0 DEF LeavesSettings, Untouched, Moves, KeepsSettings, settingVars
<1>10. ASSUME NEW t \in Threads, FunctionCreated(t)
       PROVE  LeavesSettings
  <2>1. /\ IsReset(t) /\ call[t].at = "call" /\ call[t].kind = "udf"
        /\ UNCHANGED settingVars
    BY <1>10, FunctionCreatedMoves
  <2> QED
    BY <2>1, IdleFields, <1>0 DEF LeavesSettings, Untouched, IsReset, settingVars
<1>11. ASSUME NEW t \in Threads, StartTimer(t)
       PROVE  LeavesSettings
  <2>1. /\ Moves(t, "call", "wait") /\ call[t].kind # "udf"
        /\ KeepsSettings(t)
        /\ UNCHANGED settingVars
    BY <1>11, StartTimerMoves
  <2> QED
    BY <2>1, <1>0 DEF LeavesSettings, Untouched, Moves, KeepsSettings, settingVars
<1>12. ASSUME NEW t \in Threads, Run(t)
       PROVE  LeavesSettings
  <2>1. /\ Moves(t, "wait", "run")
        /\ KeepsSettings(t)
        /\ UNCHANGED settingVars
    BY <1>12, RunMoves
  <2> QED
    BY <2>1, <1>0 DEF LeavesSettings, Untouched, Moves, KeepsSettings, settingVars
<1>13. ASSUME NEW t \in Threads, Succeed(t)
       PROVE  LeavesSettings
  <2>1. /\ Moves(t, "run", "drop")
        /\ call'[t].since = NoSettings /\ call'[t].taken = call[t].taken
        /\ UNCHANGED settingVars
    BY <1>13, SucceedMoves
  <2> QED
    BY <2>1, <1>0 DEF LeavesSettings, Untouched, Moves, settingVars
<1>14. ASSUME NEW t \in Threads, Raise(t)
       PROVE  LeavesSettings
  <2>1. /\ IsReset(t) /\ call[t].at = "run" /\ failed' = failed \cup {call[t].id}
        /\ UNCHANGED settingVars
    BY <1>14, RaiseMoves
  <2> QED
    BY <2>1, IdleFields, <1>0 DEF LeavesSettings, Untouched, IsReset, settingVars
<1>15. ASSUME NEW t \in Threads, NEW x \in Tables, DropTable(t, x)
       PROVE  LeavesSettings
  <2>1. /\ Moves(t, "drop", "discard") /\ x \in call[t].toDrop
        /\ KeepsSettings(t)
        /\ UNCHANGED settingVars
    BY <1>15, DropTableMoves
  <2> QED
    BY <2>1, <1>0 DEF LeavesSettings, Untouched, Moves, KeepsSettings, settingVars
<1>16. ASSUME NEW t \in Threads, Discard(t)
       PROVE  LeavesSettings
  <2>1. /\ Moves(t, "discard", "drop")
        /\ KeepsSettings(t)
        /\ UNCHANGED settingVars
    BY <1>16, DiscardMoves
  <2> QED
    BY <2>1, <1>0 DEF LeavesSettings, Untouched, Moves, KeepsSettings, settingVars
<1>17. ASSUME NEW t \in Threads, Return(t)
       PROVE  LeavesSettings
  <2>1. /\ IsReset(t) /\ call[t].at = "drop" /\ call[t].toDrop = {}
        /\ UNCHANGED settingVars
    BY <1>17, ReturnMoves
  <2> QED
    BY <2>1, IdleFields, <1>0 DEF LeavesSettings, Untouched, IsReset, settingVars
<1>18. ASSUME NEW t \in Threads, TimerFires(t)
       PROVE  LeavesSettings
  <2>1. UNCHANGED <<settingVars, call>>
    BY <1>18, TimerMoves
  <2> QED
    BY <2>1 DEF LeavesSettings, settingVars
<1>19. ASSUME TimerInterrupts
       PROVE  LeavesSettings
  <2>1. UNCHANGED <<settingVars, call>>
    BY <1>19, TimerMoves
  <2> QED
    BY <2>1 DEF LeavesSettings, settingVars
<1>20. CASE UNCHANGED vars
  BY <1>20 DEF LeavesSettings, vars, settingVars
<1> QED
  BY <1>1, <1>2, <1>3, <1>4, <1>5, <1>6, <1>7, <1>8, <1>9, <1>10, <1>11,
     <1>12, <1>13, <1>14, <1>15, <1>16, <1>17, <1>18, <1>19, <1>20
     DEF Next, Apply, Scan, Dispatch, Execute

\* All steps but eleven leave the scan tables alone.
LEMMA TableSteps ==
    ASSUME call \in [Threads -> CallRecords], StateTyped, CallsInStep, [Next]_vars
    PROVE  \/ \E t \in Threads, kind \in Kinds \ {"udf"} : Begin(t, kind)
           \/ \E t \in Threads, x \in Tables : DropTable(t, x)
           \/ \E t \in Threads :
                \/ Snapshot(t) \/ CreateTable(t) \/ RegisterTable(t)
                \/ Diff(t) \/ RefuseQuery(t) \/ Succeed(t) \/ Raise(t)
                \/ Discard(t) \/ Return(t)
           \/ LeavesTables
<1>0. \A u \in Threads :
        /\ call[u].at = "idle" => call[u] = Idle
        /\ call[u].kind = "udf"
             => call[u].id = 0 /\ call[u].before = {} /\ call[u].toDrop = {}
  BY DEF CallsInStep, CallInStep, At
<1>1. ASSUME NEW t \in Threads, NEW s \in Settings, SetSetting(t, s)
      PROVE  LeavesTables
  <2>1. UNCHANGED <<calls, call, tableVars, failed>>
    BY <1>1, SetSettingMoves DEF StateTyped
  <2> QED
    BY <2>1, <1>0, IdleFields DEF LeavesTables, Early, Scanned, tableVars
<1>2. ASSUME NEW t \in Threads, TakePending(t)
      PROVE  LeavesTables
  <2>1. /\ Moves(t, "lock", "apply")
        /\ KeepsName(t) /\ KeepsTables(t)
        /\ UNCHANGED <<calls, tableVars, failed>>
    BY <1>2, TakePendingMoves
  <2> QED
    BY <2>1, <1>0, IdleFields DEF LeavesTables, Early, Scanned, Untouched, Moves,
         KeepsName, KeepsTables, tableVars
<1>3. ASSUME NEW t \in Threads, NEW s \in Settings, ApplySetting(t, s)
      PROVE  LeavesTables
  <2>1. /\ Moves(t, "apply", "apply")
        /\ KeepsName(t) /\ KeepsTables(t)
        /\ UNCHANGED <<calls, tableVars, failed>>
    BY <1>3, ApplySettingMoves DEF StateTyped
  <2> QED
    BY <2>1, <1>0, IdleFields DEF LeavesTables, Early, Scanned, Untouched, Moves,
         KeepsName, KeepsTables, tableVars
<1>4. ASSUME NEW t \in Threads, AllApplied(t)
      PROVE  LeavesTables
  <2>1. /\ Moves(t, "apply", "snapshot")
        /\ KeepsName(t) /\ KeepsTables(t)
        /\ UNCHANGED <<calls, tableVars, failed>>
    BY <1>4, AllAppliedMoves
  <2> QED
    BY <2>1, <1>0, IdleFields DEF LeavesTables, Early, Scanned, Untouched, Moves,
         KeepsName, KeepsTables, tableVars
<1>5. ASSUME NEW t \in Threads, ChooseBackend(t)
      PROVE  LeavesTables
  <2>1. /\ Moves(t, "choose", "find") \/ Moves(t, "choose", "call")
        /\ KeepsName(t) /\ KeepsTables(t)
        /\ UNCHANGED <<calls, tableVars, failed>>
    BY <1>5, ChooseBackendMoves
  <2> QED
    BY <2>1, <1>0, IdleFields DEF LeavesTables, Early, Scanned, Untouched, Moves,
         KeepsName, KeepsTables, tableVars
<1>6. ASSUME NEW t \in Threads, CreateFunction(t)
      PROVE  LeavesTables
  <2>1. /\ Moves(t, "idle", "find")
        /\ call'[t].id = call[t].id /\ call'[t].kind = "udf"
        /\ KeepsTables(t)
        /\ UNCHANGED <<calls, tableVars, failed>>
    BY <1>6, CreateFunctionMoves
  <2> QED
    BY <2>1, <1>0, IdleFields DEF LeavesTables, Early, Scanned, Untouched, Moves,
         KeepsTables, tableVars
<1>7. ASSUME NEW t \in Threads, FindPybind(t)
      PROVE  LeavesTables
  <2>1. /\ \/ Moves(t, "find", "open") /\ pyConnection = Capi /\ KeepsConn(t)
           \/ Moves(t, "find", "call") /\ call'[t].conn = pyConnection
        /\ KeepsName(t) /\ KeepsTables(t)
        /\ UNCHANGED <<calls, tableVars, failed>>
    BY <1>7, FindPybindMoves
  <2> QED
    BY <2>1, <1>0, IdleFields DEF LeavesTables, Early, Scanned, Untouched, Moves,
         KeepsName, KeepsConn, KeepsTables, tableVars
<1>8. ASSUME NEW t \in Threads, OpenPybind(t)
      PROVE  LeavesTables
  <2>1. /\ Moves(t, "open", "call") /\ call'[t].conn = opened'
        /\ KeepsName(t) /\ KeepsTables(t)
        /\ UNCHANGED <<calls, tableVars, failed>>
    BY <1>8, OpenPybindMoves
  <2> QED
    BY <2>1, <1>0, IdleFields DEF LeavesTables, Early, Scanned, Untouched, Moves,
         KeepsName, KeepsTables, tableVars
<1>9. ASSUME NEW t \in Threads, FunctionCreated(t)
      PROVE  LeavesTables
  <2>1. /\ IsReset(t) /\ call[t].at = "call" /\ call[t].kind = "udf"
        /\ UNCHANGED <<calls, tableVars, failed>>
    BY <1>9, FunctionCreatedMoves
  <2> QED
    BY <2>1, <1>0, IdleFields DEF LeavesTables, Early, Scanned, Untouched, IsReset,
         tableVars
<1>10. ASSUME NEW t \in Threads, StartTimer(t)
       PROVE  LeavesTables
  <2>1. /\ Moves(t, "call", "wait") /\ call[t].kind # "udf"
        /\ KeepsName(t) /\ KeepsTables(t)
        /\ UNCHANGED <<calls, tableVars, failed>>
    BY <1>10, StartTimerMoves
  <2> QED
    BY <2>1, <1>0, IdleFields DEF LeavesTables, Early, Scanned, Untouched, Moves,
         KeepsName, KeepsTables, tableVars
<1>11. ASSUME NEW t \in Threads, Run(t)
       PROVE  LeavesTables
  <2>1. /\ Moves(t, "wait", "run")
        /\ KeepsName(t) /\ KeepsTables(t)
        /\ UNCHANGED <<calls, tableVars, failed>>
    BY <1>11, RunMoves
  <2> QED
    BY <2>1, <1>0, IdleFields DEF LeavesTables, Early, Scanned, Untouched, Moves,
         KeepsName, KeepsTables, tableVars
<1>12. ASSUME NEW t \in Threads, TimerFires(t)
       PROVE  LeavesTables
  <2>1. UNCHANGED <<calls, tableVars, failed, call>>
    BY <1>12, TimerMoves
  <2> QED
    BY <2>1 DEF LeavesTables, tableVars
<1>13. ASSUME TimerInterrupts
       PROVE  LeavesTables
  <2>1. UNCHANGED <<calls, tableVars, failed, call>>
    BY <1>13, TimerMoves
  <2> QED
    BY <2>1 DEF LeavesTables, tableVars
<1>14. CASE UNCHANGED vars
  BY <1>14 DEF LeavesTables, vars, tableVars
<1> QED
  BY <1>1, <1>2, <1>3, <1>4, <1>5, <1>6, <1>7, <1>8, <1>9, <1>10, <1>11,
     <1>12, <1>13, <1>14
     DEF Next, Apply, Scan, Dispatch, Execute

-----------------------------------------------------------------------------
(* Settings.                                                               *)

\* Versions are natural numbers.
LEMMA VersionFacts ==
    ASSUME StateTyped, call \in [Threads -> CallRecords], NEW s \in Settings
    PROVE  /\ NoSettings[s] = 0
           /\ pending[s] \in Nat /\ lastSet[s] \in Nat /\ inForce[Capi][s] \in Nat
           /\ \A t \in Threads : call[t].since[s] \in Nat /\ call[t].taken[s] \in Nat
<1>1. inForce[Capi] \in Versions
  BY QueriesFacts DEF StateTyped
<1>2. \A t \in Threads : call[t].since \in Versions /\ call[t].taken \in Versions
  BY DEF CallRecords
<1> QED
  BY <1>1, <1>2 DEF StateTyped, Versions, NoSettings

\* Taking and applying happen under the lock.
LEMMA HolderKept ==
    ASSUME call \in [Threads -> CallRecords], StateTyped, OnlyHolderTakes, [Next]_vars
    PROVE  OnlyHolderTakes'
<1>a. \A t \in Threads : call[t].at = "idle" => applyLock # t
  BY DEF OnlyHolderTakes, At
<1>1. ASSUME NEW t \in Threads, NEW s \in Settings, SetSetting(t, s)
      PROVE  OnlyHolderTakes'
  <2>1. UNCHANGED <<call, applyLock>>
    BY <1>1, SetSettingMoves DEF StateTyped
  <2> QED
    BY <2>1, QueriesAssumption DEF OnlyHolderTakes, At
<1>2. ASSUME NEW t \in Threads, NEW kind \in Kinds \ {"udf"}, Begin(t, kind)
      PROVE  OnlyHolderTakes'
  <2>1. /\ Moves(t, "idle", "lock") /\ calls < MaxCalls /\ calls' = calls + 1
        /\ call'[t].since = lastSet /\ call'[t].taken = NoSettings
        /\ UNCHANGED settingVars
    BY <1>2, BeginMoves
  <2> QED
    BY <2>1, QueriesAssumption, <1>a DEF OnlyHolderTakes, At, Untouched, Moves,
         settingVars
<1>3. ASSUME NEW t \in Threads, TakePending(t)
      PROVE  OnlyHolderTakes'
  <2>1. /\ Moves(t, "lock", "apply")
        /\ call'[t].since = call[t].since /\ call'[t].taken = pending
        /\ applyLock = None /\ applyLock' = t /\ pending' = NoSettings
    BY <1>3, TakePendingMoves
  <2> QED
    BY <2>1, QueriesAssumption DEF OnlyHolderTakes, At, Untouched, Moves
<1>4. ASSUME NEW t \in Threads, NEW s \in Settings, ApplySetting(t, s)
      PROVE  OnlyHolderTakes'
  <2>1. /\ Moves(t, "apply", "apply")
        /\ call'[t].since = call[t].since /\ call[t].taken[s] # 0
        /\ call'[t].taken[s] = 0 /\ inForce'[Capi][s] = call[t].taken[s]
        /\ \A r \in Settings \ {s} : /\ call'[t].taken[r] = call[t].taken[r]
                                    /\ inForce'[Capi][r] = inForce[Capi][r]
        /\ UNCHANGED applyLock
    BY <1>4, ApplySettingMoves DEF StateTyped
  <2> QED
    BY <2>1, QueriesAssumption DEF OnlyHolderTakes, At, Untouched, Moves
<1>5. ASSUME NEW t \in Threads, AllApplied(t)
      PROVE  OnlyHolderTakes'
  <2>1. /\ Moves(t, "apply", "snapshot")
        /\ call[t].taken = NoSettings /\ applyLock' = None
        /\ KeepsSettings(t)
    BY <1>5, AllAppliedMoves
  <2> QED
    BY <2>1, QueriesAssumption DEF OnlyHolderTakes, At, Untouched, Moves,
         KeepsSettings
<1>6. CASE LeavesSettings
  BY <1>6, QueriesAssumption DEF LeavesSettings, OnlyHolderTakes, At, settingVars
<1> QED
  BY <1>1, <1>2, <1>3, <1>4, <1>5, <1>6, SettingSteps

\* The newest version is never lost on its way to the engine.
LEMMA NewestKept ==
    ASSUME call \in [Threads -> CallRecords], StateTyped, OnlyHolderTakes, NewestIsKept,
           NEW r \in Settings, [Next]_vars
    PROVE  IsKept(r)'
<1>0. /\ NoSettings[r] = 0
      /\ pending[r] \in Nat /\ lastSet[r] \in Nat /\ inForce[Capi][r] \in Nat
      /\ \A t \in Threads : call[t].since[r] \in Nat /\ call[t].taken[r] \in Nat
  BY VersionFacts
<1>a. IsKept(r)
  BY DEF NewestIsKept
<1>b. /\ \A t \in Threads : call[t].at # "apply" => call[t].taken[r] = 0
      /\ \A t, v \in Threads : call[t].at = "apply" /\ call[v].at = "apply" => t = v
      /\ applyLock = None => \A t \in Threads : call[t].at # "apply"
  BY <1>0, QueriesAssumption DEF OnlyHolderTakes, At
<1>1. ASSUME NEW t \in Threads, NEW s \in Settings, SetSetting(t, s)
      PROVE  IsKept(r)'
  <2>1. /\ lastSet'[s] = lastSet[s] + 1 /\ pending'[s] = lastSet[s] + 1
        /\ \A o \in Settings \ {s} : lastSet'[o] = lastSet[o] /\ pending'[o] = pending[o]
        /\ UNCHANGED <<call, inForce>>
    BY <1>1, SetSettingMoves DEF StateTyped
  <2> QED
    BY <2>1, <1>0, <1>a, <1>b DEF IsKept
<1>2. ASSUME NEW t \in Threads, NEW kind \in Kinds \ {"udf"}, Begin(t, kind)
      PROVE  IsKept(r)'
  <2>1. /\ Moves(t, "idle", "lock") /\ calls < MaxCalls /\ calls' = calls + 1
        /\ call'[t].since = lastSet /\ call'[t].taken = NoSettings
        /\ UNCHANGED settingVars
    BY <1>2, BeginMoves
  <2> QED
    BY <2>1, <1>0, <1>a, <1>b DEF IsKept, Untouched, Moves, settingVars
<1>3. ASSUME NEW t \in Threads, TakePending(t)
      PROVE  IsKept(r)'
  <2>1. /\ Moves(t, "lock", "apply")
        /\ call'[t].since = call[t].since /\ call'[t].taken = pending
        /\ applyLock = None /\ applyLock' = t /\ pending' = NoSettings
        /\ UNCHANGED <<inForce, lastSet>>
    BY <1>3, TakePendingMoves
  <2> QED
    BY <2>1, <1>0, <1>a, <1>b DEF IsKept, Untouched, Moves
<1>4. ASSUME NEW t \in Threads, NEW s \in Settings, ApplySetting(t, s)
      PROVE  IsKept(r)'
  <2>1. /\ Moves(t, "apply", "apply")
        /\ call'[t].since = call[t].since /\ call[t].taken[s] # 0
        /\ call'[t].taken[s] = 0 /\ inForce'[Capi][s] = call[t].taken[s]
        /\ \A o \in Settings \ {s} : /\ call'[t].taken[o] = call[t].taken[o]
                                    /\ inForce'[Capi][o] = inForce[Capi][o]
        /\ \A c \in Conns \ {Capi} : inForce'[c] = inForce[c]
        /\ UNCHANGED <<pending, lastSet>>
    BY <1>4, ApplySettingMoves DEF StateTyped
  <2> QED
    BY <2>1, <1>0, <1>a, <1>b DEF IsKept, Untouched, Moves
<1>5. ASSUME NEW t \in Threads, AllApplied(t)
      PROVE  IsKept(r)'
  <2>1. /\ Moves(t, "apply", "snapshot")
        /\ call[t].taken = NoSettings /\ applyLock' = None
        /\ UNCHANGED <<inForce, pending, lastSet>>
        /\ KeepsSettings(t)
    BY <1>5, AllAppliedMoves
  <2> QED
    BY <2>1, <1>0, <1>a, <1>b DEF IsKept, Untouched, Moves, KeepsSettings
<1>6. CASE LeavesSettings
  BY <1>6, <1>0, <1>a, <1>b DEF LeavesSettings, IsKept, settingVars
<1> QED
  BY <1>1, <1>2, <1>3, <1>4, <1>5, <1>6, SettingSteps

\* What was set before a call gets ahead of it.
LEMMA ServedKept ==
    ASSUME call \in [Threads -> CallRecords], StateTyped, OnlyHolderTakes, NewestIsKept,
           SinceIsServed, NEW r \in Settings, NEW u \in Threads, [Next]_vars
    PROVE  IsServed(u, r)'
<1>0. /\ NoSettings[r] = 0
      /\ pending[r] \in Nat /\ lastSet[r] \in Nat /\ inForce[Capi][r] \in Nat
      /\ \A t \in Threads : call[t].since[r] \in Nat /\ call[t].taken[r] \in Nat
  BY VersionFacts
<1>a. IsKept(r)
  BY DEF NewestIsKept
<1>b. /\ \A t \in Threads : call[t].at # "apply" => call[t].taken[r] = 0
      /\ \A t, v \in Threads : call[t].at = "apply" /\ call[v].at = "apply" => t = v
      /\ applyLock = None => \A t \in Threads : call[t].at # "apply"
  BY <1>0, QueriesAssumption DEF OnlyHolderTakes, At
<1>c. \A t \in Threads : IsServed(t, r)
  BY DEF SinceIsServed
<1>1. ASSUME NEW t \in Threads, NEW s \in Settings, SetSetting(t, s)
      PROVE  IsServed(u, r)'
  <2>1. /\ lastSet'[s] = lastSet[s] + 1 /\ pending'[s] = lastSet[s] + 1
        /\ \A o \in Settings \ {s} : lastSet'[o] = lastSet[o] /\ pending'[o] = pending[o]
        /\ UNCHANGED <<call, inForce>>
    BY <1>1, SetSettingMoves DEF StateTyped
  <2> QED
    BY <2>1, <1>0, <1>a, <1>b, <1>c DEF IsServed, At
<1>2. ASSUME NEW t \in Threads, NEW kind \in Kinds \ {"udf"}, Begin(t, kind)
      PROVE  IsServed(u, r)'
  <2>1. /\ Moves(t, "idle", "lock") /\ calls < MaxCalls /\ calls' = calls + 1
        /\ call'[t].since = lastSet /\ call'[t].taken = NoSettings
        /\ UNCHANGED settingVars
    BY <1>2, BeginMoves
  <2> QED
    BY <2>1, <1>0, <1>a, <1>b, <1>c DEF IsServed, At, Untouched, Moves, settingVars
<1>3. ASSUME NEW t \in Threads, TakePending(t)
      PROVE  IsServed(u, r)'
  <2>1. /\ Moves(t, "lock", "apply")
        /\ call'[t].since = call[t].since /\ call'[t].taken = pending
        /\ applyLock = None /\ applyLock' = t /\ pending' = NoSettings
        /\ UNCHANGED <<inForce, lastSet>>
    BY <1>3, TakePendingMoves
  <2> QED
    BY <2>1, <1>0, <1>a, <1>b, <1>c DEF IsServed, At, Untouched, Moves, IsKept
<1>4. ASSUME NEW t \in Threads, NEW s \in Settings, ApplySetting(t, s)
      PROVE  IsServed(u, r)'
  <2>1. /\ Moves(t, "apply", "apply")
        /\ call'[t].since = call[t].since /\ call[t].taken[s] # 0
        /\ call'[t].taken[s] = 0 /\ inForce'[Capi][s] = call[t].taken[s]
        /\ \A o \in Settings \ {s} : /\ call'[t].taken[o] = call[t].taken[o]
                                    /\ inForce'[Capi][o] = inForce[Capi][o]
        /\ \A c \in Conns \ {Capi} : inForce'[c] = inForce[c]
        /\ UNCHANGED <<pending, lastSet>>
    BY <1>4, ApplySettingMoves DEF StateTyped
  <2> QED
    BY <2>1, <1>0, <1>a, <1>b, <1>c DEF IsServed, At, Untouched, Moves, IsKept
<1>5. ASSUME NEW t \in Threads, AllApplied(t)
      PROVE  IsServed(u, r)'
  <2>1. /\ Moves(t, "apply", "snapshot")
        /\ call[t].taken = NoSettings /\ applyLock' = None
        /\ UNCHANGED <<inForce, pending, lastSet>>
        /\ KeepsSettings(t)
    BY <1>5, AllAppliedMoves
  <2> QED
    BY <2>1, <1>0, <1>a, <1>b, <1>c DEF IsServed, At, Untouched, Moves, KeepsSettings
<1>6. CASE LeavesSettings
  <2>1. /\ call'[u].since[r] \in {call[u].since[r], 0}
        /\ call'[u].taken[r] = call[u].taken[r]
        /\ lastSet'[r] = lastSet[r] /\ inForce'[Capi][r] = inForce[Capi][r]
        /\ \/ call'[u].at = call[u].at
           \/ call[u].at \notin {"lock", "apply"} /\ call'[u].at \notin {"lock", "apply"}
    BY <1>6, <1>0 DEF LeavesSettings, settingVars
  <2> QED
    BY <2>1, <1>0, <1>c DEF IsServed, At
<1> QED
  BY <1>1, <1>2, <1>3, <1>4, <1>5, <1>6, SettingSteps

\* Only ApplySetting changes what is in force, to something newer.
LEMMA ForceGrows ==
    ASSUME call \in [Threads -> CallRecords], StateTyped, OnlyHolderTakes, NewestIsKept,
           NEW c \in Conns, NEW r \in Settings, [Next]_vars
    PROVE  inForce'[c][r] >= inForce[c][r]
<1>0. inForce[c][r] \in Nat /\ inForce[Capi][r] \in Nat
  <2>1. inForce[c] \in Versions /\ inForce[Capi] \in Versions
    BY QueriesFacts DEF StateTyped
  <2> QED
    BY <2>1 DEF Versions
<1>a. IsKept(r)
  BY DEF NewestIsKept
<1>1. ASSUME NEW t \in Threads, NEW s \in Settings, SetSetting(t, s)
      PROVE  inForce'[c][r] >= inForce[c][r]
  <2>1. UNCHANGED <<call, inForce>>
    BY <1>1, SetSettingMoves DEF StateTyped
  <2> QED
    BY <2>1, <1>0, <1>a
<1>2. ASSUME NEW t \in Threads, NEW kind \in Kinds \ {"udf"}, Begin(t, kind)
      PROVE  inForce'[c][r] >= inForce[c][r]
  <2>1. /\ Moves(t, "idle", "lock") /\ calls < MaxCalls /\ calls' = calls + 1
        /\ call'[t].since = lastSet /\ call'[t].taken = NoSettings
        /\ UNCHANGED settingVars
    BY <1>2, BeginMoves
  <2> QED
    BY <2>1, <1>0, <1>a DEF Untouched, Moves, settingVars
<1>3. ASSUME NEW t \in Threads, TakePending(t)
      PROVE  inForce'[c][r] >= inForce[c][r]
  <2>1. /\ Moves(t, "lock", "apply")
        /\ call'[t].since = call[t].since /\ call'[t].taken = pending
        /\ UNCHANGED inForce
    BY <1>3, TakePendingMoves
  <2> QED
    BY <2>1, <1>0, <1>a DEF Untouched, Moves
<1>4. ASSUME NEW t \in Threads, NEW s \in Settings, ApplySetting(t, s)
      PROVE  inForce'[c][r] >= inForce[c][r]
  <2>1. /\ Moves(t, "apply", "apply")
        /\ call'[t].since = call[t].since /\ call[t].taken[s] # 0
        /\ call'[t].taken[s] = 0 /\ inForce'[Capi][s] = call[t].taken[s]
        /\ \A o \in Settings \ {s} : /\ call'[t].taken[o] = call[t].taken[o]
                                    /\ inForce'[Capi][o] = inForce[Capi][o]
        /\ \A d \in Conns \ {Capi} : inForce'[d] = inForce[d]
    BY <1>4, ApplySettingMoves DEF StateTyped
  <2> QED
    BY <2>1, <1>0, <1>a DEF Untouched, Moves, IsKept
<1>5. ASSUME NEW t \in Threads, AllApplied(t)
      PROVE  inForce'[c][r] >= inForce[c][r]
  <2>1. /\ Moves(t, "apply", "snapshot")
        /\ call[t].taken = NoSettings /\ applyLock' = None
        /\ UNCHANGED inForce
    BY <1>5, AllAppliedMoves
  <2> QED
    BY <2>1, <1>0, <1>a DEF Untouched, Moves
<1>6. CASE LeavesSettings
  BY <1>6, <1>0, <1>a DEF LeavesSettings, settingVars
<1> QED
  BY <1>1, <1>2, <1>3, <1>4, <1>5, <1>6, SettingSteps

-----------------------------------------------------------------------------
(* Scan tables.                                                            *)

\* What calls and tables are numbered with.
LEMMA NumberFacts ==
    ASSUME StateTyped, call \in [Threads -> CallRecords], CallsInStep
    PROVE  /\ calls \in Nat
           /\ \A x \in scanTables \cup engineTables : x \in Nat /\ x # 0
           /\ \A u \in Threads :
                /\ call[u].id \in Nat
                /\ call[u].at \notin Dropping => call[u].id <= calls
                /\ call[u].at \in Early \cup {"create", "register", "diff", "choose", "run"}
                     => call[u].id # 0
                /\ call[u].at = "idle" => call[u] = Idle
                /\ call[u].at = "discard" => call[u].id \in call[u].toDrop
                /\ call[u].kind = "udf" => call[u].id = 0
                /\ call[u].toDrop \subseteq Tables
<1>1. calls \in Nat
  BY QueriesAssumption DEF StateTyped
<1>2. \A x \in scanTables \cup engineTables : x \in Nat /\ x # 0
  BY QueriesAssumption DEF StateTyped, Tables
<1>3. ASSUME NEW u \in Threads
      PROVE  call[u].id \in Nat /\ call[u].toDrop \subseteq Tables
  BY QueriesAssumption DEF CallRecords, Numbers
<1>4. ASSUME NEW u \in Threads,
             call[u].at \in Early \cup {"create", "register", "diff", "choose", "run"}
      PROVE  call[u].id # 0
  BY <1>4, QueriesAssumption DEF CallsInStep, CallInStep, At, Early, Tables
<1> QED
  BY <1>1, <1>2, <1>3, <1>4 DEF CallsInStep, CallInStep, At

\* A new call's number is new.
LEMMA IdsKept ==
    ASSUME call \in [Threads -> CallRecords], StateTyped, CallsInStep, IdsDiffer,
           [Next]_vars
    PROVE  IdsDiffer'
<1>0. /\ calls \in Nat
      /\ \A u \in Threads : call[u].at \notin Dropping => call[u].id <= calls
      /\ \A u \in Threads : call[u].id \in Nat
  BY NumberFacts
<1>1. ASSUME NEW t \in Threads, NEW kind \in Kinds \ {"udf"}, Begin(t, kind)
      PROVE  IdsDiffer'
  <2>1. /\ Moves(t, "idle", "lock") /\ calls < MaxCalls /\ calls' = calls + 1
        /\ call'[t].id = calls' /\ call'[t].kind = kind /\ call'[t].conn = Capi
    BY <1>1, BeginMoves
  <2> QED
    BY <2>1, <1>0 DEF IdsDiffer, Dropping, Untouched, Moves
<1>2. ASSUME NEW t \in Threads, Snapshot(t)
      PROVE  IdsDiffer'
  <2>1. /\ Moves(t, "snapshot", IF call[t].kind = "table" THEN "create" ELSE "diff")
        /\ KeepsName(t)
        /\ UNCHANGED calls
    BY <1>2, SnapshotMoves
  <2> QED
    BY <2>1, <1>0 DEF IdsDiffer, Dropping, Untouched, Moves, KeepsName
<1>3. ASSUME NEW t \in Threads, CreateTable(t)
      PROVE  IdsDiffer'
  <2>1. /\ Moves(t, "create", "register")
        /\ engineTables' = engineTables \cup {call[t].id} \/ UNCHANGED engineTables
        /\ KeepsName(t)
        /\ UNCHANGED calls
    BY <1>3, CreateTableMoves
  <2> QED
    BY <2>1, <1>0 DEF IdsDiffer, Dropping, Untouched, Moves, KeepsName
<1>4. ASSUME NEW t \in Threads, RegisterTable(t)
      PROVE  IdsDiffer'
  <2>1. /\ Moves(t, "register", "diff")
        /\ scanTables' = scanTables \cup {call[t].id}
        /\ KeepsName(t)
        /\ UNCHANGED calls
    BY <1>4, RegisterTableMoves
  <2> QED
    BY <2>1, <1>0 DEF IdsDiffer, Dropping, Untouched, Moves, KeepsName
<1>5. ASSUME NEW t \in Threads, Diff(t)
      PROVE  IdsDiffer'
  <2>1. /\ Moves(t, "diff", "choose")
        /\ KeepsName(t)
        /\ UNCHANGED calls
    BY <1>5, DiffMoves
  <2> QED
    BY <2>1, <1>0 DEF IdsDiffer, Dropping, Untouched, Moves, KeepsName
<1>6. ASSUME NEW t \in Threads, RefuseQuery(t)
      PROVE  IdsDiffer'
  <2>1. /\ IsReset(t) /\ call[t].at = "choose" /\ failed' = failed \cup {call[t].id}
        /\ UNCHANGED calls
    BY <1>6, RefuseQueryMoves
  <2> QED
    BY <2>1, IdleFields, <1>0 DEF IdsDiffer, Dropping, Untouched, IsReset
<1>7. ASSUME NEW t \in Threads, Succeed(t)
      PROVE  IdsDiffer'
  <2>1. /\ Moves(t, "run", "drop")
        /\ KeepsName(t)
        /\ UNCHANGED calls
    BY <1>7, SucceedMoves
  <2> QED
    BY <2>1, <1>0 DEF IdsDiffer, Dropping, Untouched, Moves, KeepsName
<1>8. ASSUME NEW t \in Threads, Raise(t)
      PROVE  IdsDiffer'
  <2>1. /\ IsReset(t) /\ call[t].at = "run" /\ failed' = failed \cup {call[t].id}
        /\ UNCHANGED calls
    BY <1>8, RaiseMoves
  <2> QED
    BY <2>1, IdleFields, <1>0 DEF IdsDiffer, Dropping, Untouched, IsReset
<1>9. ASSUME NEW t \in Threads, NEW x \in Tables, DropTable(t, x)
      PROVE  IdsDiffer'
  <2>1. /\ Moves(t, "drop", "discard") /\ x \in call[t].toDrop
        /\ call'[t].id = x /\ call'[t].kind = call[t].kind
        /\ UNCHANGED calls
    BY <1>9, DropTableMoves
  <2> QED
    BY <2>1, <1>0 DEF IdsDiffer, Dropping, Untouched, Moves
<1>10. ASSUME NEW t \in Threads, Discard(t)
       PROVE  IdsDiffer'
  <2>1. /\ Moves(t, "discard", "drop")
        /\ call'[t].toDrop = call[t].toDrop \ {call[t].id}
        /\ scanTables' = scanTables \ {call[t].id} /\ UNCHANGED engineTables
        /\ KeepsName(t)
        /\ UNCHANGED calls
    BY <1>10, DiscardMoves
  <2> QED
    BY <2>1, <1>0 DEF IdsDiffer, Dropping, Untouched, Moves, KeepsName
<1>11. ASSUME NEW t \in Threads, Return(t)
       PROVE  IdsDiffer'
  <2>1. /\ IsReset(t) /\ call[t].at = "drop" /\ call[t].toDrop = {}
        /\ UNCHANGED calls
    BY <1>11, ReturnMoves
  <2> QED
    BY <2>1, IdleFields, <1>0 DEF IdsDiffer, Dropping, Untouched, IsReset
<1>12. CASE LeavesTables
  BY <1>12, <1>0 DEF LeavesTables, IdsDiffer, Dropping, Early, Scanned
<1> QED
  BY <1>1, <1>2, <1>3, <1>4, <1>5, <1>6, <1>7, <1>8, <1>9, <1>10, <1>11,
     <1>12, TableSteps

\* Nobody creates, registers or means to drop another call's table before it is there.
LEMMA NewKept ==
    ASSUME call \in [Threads -> CallRecords], StateTyped, CallsInStep, IdsDiffer,
           TablesAreNumbered, TablesAreNew, NEW w \in Threads, [Next]_vars
    PROVE  TableIsNew(w)'
<1>0. /\ calls \in Nat
      /\ \A u \in Threads :
           /\ call[u].id \in Nat
           /\ call[u].at \notin Dropping => call[u].id <= calls
           /\ call[u].at \in Early \cup {"create", "register", "diff"} => call[u].id # 0
           /\ call[u].at = "idle" => call[u] = Idle
  BY NumberFacts
<1>a. /\ \A x \in Owned : x <= calls /\ x \in Nat
      /\ \A u \in Threads : \A x \in call[u].toDrop : x <= calls /\ x \in Nat
  BY NumberFacts, QueriesAssumption DEF TablesAreNumbered, Owned, Tables
<1>b. \A u \in Threads : TableIsNew(u)
  BY DEF TablesAreNew
<1>1. ASSUME NEW t \in Threads, NEW kind \in Kinds \ {"udf"}, Begin(t, kind)
      PROVE  TableIsNew(w)'
  <2>1. /\ Moves(t, "idle", "lock") /\ calls < MaxCalls /\ calls' = calls + 1
        /\ call'[t].id = calls' /\ call'[t].kind = kind /\ call'[t].conn = Capi
        /\ call'[t].before = {} /\ call'[t].toDrop = {}
        /\ UNCHANGED tableVars
    BY <1>1, BeginMoves
  <2> QED
    BY <2>1, <1>0, <1>a, <1>b DEF TableIsNew, Early, Untouched, Moves, tableVars,
         Dropping, Owned
<1>2. ASSUME NEW t \in Threads, Snapshot(t)
      PROVE  TableIsNew(w)'
  <2>1. /\ Moves(t, "snapshot", IF call[t].kind = "table" THEN "create" ELSE "diff")
        /\ call'[t].before = scanTables /\ call'[t].toDrop = call[t].toDrop
        /\ KeepsName(t)
        /\ UNCHANGED <<calls, tableVars>>
    BY <1>2, SnapshotMoves
  <2> QED
    BY <2>1, <1>0, <1>a, <1>b DEF TableIsNew, Early, Untouched, Moves, KeepsName,
         tableVars
<1>3. ASSUME NEW t \in Threads, CreateTable(t)
      PROVE  TableIsNew(w)'
  <2>1. /\ Moves(t, "create", "register")
        /\ engineTables' = engineTables \cup {call[t].id} \/ UNCHANGED engineTables
        /\ UNCHANGED scanTables
        /\ KeepsName(t) /\ KeepsTables(t)
        /\ UNCHANGED calls
    BY <1>3, CreateTableMoves
  <2> QED
    BY <2>1, <1>0, <1>a, <1>b DEF TableIsNew, Early, Untouched, Moves, KeepsName,
         KeepsTables, IdsDiffer, Dropping
<1>4. ASSUME NEW t \in Threads, RegisterTable(t)
      PROVE  TableIsNew(w)'
  <2>1. /\ Moves(t, "register", "diff")
        /\ scanTables' = scanTables \cup {call[t].id}
        /\ UNCHANGED engineTables
        /\ KeepsName(t) /\ KeepsTables(t)
        /\ UNCHANGED calls
    BY <1>4, RegisterTableMoves
  <2> QED
    BY <2>1, <1>0, <1>a, <1>b DEF TableIsNew, Early, Untouched, Moves, KeepsName,
         KeepsTables, IdsDiffer, Dropping
<1>5. ASSUME NEW t \in Threads, Diff(t)
      PROVE  TableIsNew(w)'
  <2>1. /\ Moves(t, "diff", "choose")
        /\ call'[t].toDrop = scanTables \ call[t].before
        /\ call'[t].before = {}
        /\ KeepsName(t)
        /\ UNCHANGED <<calls, tableVars>>
    BY <1>5, DiffMoves
  <2> QED
    BY <2>1, <1>0, <1>a, <1>b DEF TableIsNew, Early, Untouched, Moves, KeepsName,
         tableVars
<1>6. ASSUME NEW t \in Threads, RefuseQuery(t)
      PROVE  TableIsNew(w)'
  <2>1. /\ IsReset(t) /\ call[t].at = "choose" /\ failed' = failed \cup {call[t].id}
        /\ UNCHANGED <<calls, tableVars>>
    BY <1>6, RefuseQueryMoves
  <2> QED
    BY <2>1, IdleFields, <1>0, <1>a, <1>b DEF TableIsNew, Early, Untouched, IsReset,
         tableVars
<1>7. ASSUME NEW t \in Threads, Succeed(t)
      PROVE  TableIsNew(w)'
  <2>1. /\ Moves(t, "run", "drop")
        /\ KeepsName(t) /\ KeepsTables(t)
        /\ UNCHANGED <<calls, tableVars>>
    BY <1>7, SucceedMoves
  <2> QED
    BY <2>1, <1>0, <1>a, <1>b DEF TableIsNew, Early, Untouched, Moves, KeepsName,
         KeepsTables, tableVars
<1>8. ASSUME NEW t \in Threads, Raise(t)
      PROVE  TableIsNew(w)'
  <2>1. /\ IsReset(t) /\ call[t].at = "run" /\ failed' = failed \cup {call[t].id}
        /\ UNCHANGED <<calls, tableVars>>
    BY <1>8, RaiseMoves
  <2> QED
    BY <2>1, IdleFields, <1>0, <1>a, <1>b DEF TableIsNew, Early, Untouched, IsReset,
         tableVars
<1>9. ASSUME NEW t \in Threads, NEW x \in Tables, DropTable(t, x)
      PROVE  TableIsNew(w)'
  <2>1. /\ Moves(t, "drop", "discard") /\ x \in call[t].toDrop
        /\ call'[t].id = x /\ call'[t].kind = call[t].kind
        /\ engineTables' = engineTables \ {x} /\ UNCHANGED scanTables
        /\ KeepsTables(t)
        /\ UNCHANGED calls
    BY <1>9, DropTableMoves
  <2> QED
    BY <2>1, <1>0, <1>a, <1>b DEF TableIsNew, Early, Untouched, Moves, KeepsTables
<1>10. ASSUME NEW t \in Threads, Discard(t)
       PROVE  TableIsNew(w)'
  <2>1. /\ Moves(t, "discard", "drop")
        /\ call'[t].before = call[t].before
        /\ call'[t].toDrop = call[t].toDrop \ {call[t].id}
        /\ scanTables' = scanTables \ {call[t].id} /\ UNCHANGED engineTables
        /\ KeepsName(t)
        /\ UNCHANGED calls
    BY <1>10, DiscardMoves
  <2> QED
    BY <2>1, <1>0, <1>a, <1>b DEF TableIsNew, Early, Untouched, Moves, KeepsName
<1>11. ASSUME NEW t \in Threads, Return(t)
       PROVE  TableIsNew(w)'
  <2>1. /\ IsReset(t) /\ call[t].at = "drop" /\ call[t].toDrop = {}
        /\ UNCHANGED <<calls, tableVars>>
    BY <1>11, ReturnMoves
  <2> QED
    BY <2>1, IdleFields, <1>0, <1>a, <1>b DEF TableIsNew, Early, Untouched, IsReset,
         tableVars
<1>12. CASE LeavesTables
  BY <1>12, <1>0, <1>a, <1>b DEF LeavesTables, TableIsNew, Early, tableVars, Scanned
<1> QED
  BY <1>1, <1>2, <1>3, <1>4, <1>5, <1>6, <1>7, <1>8, <1>9, <1>10, <1>11,
     <1>12, TableSteps

\* Tables are of calls that have begun.
LEMMA NumberedKept ==
    ASSUME call \in [Threads -> CallRecords], StateTyped, CallsInStep, TablesAreNumbered,
           [Next]_vars
    PROVE  TablesAreNumbered'
<1>0. /\ calls \in Nat
      /\ \A x \in scanTables \cup engineTables : x \in Nat /\ x # 0
      /\ \A u \in Threads :
           /\ call[u].id \in Nat
           /\ call[u].at \notin Dropping => call[u].id <= calls
           /\ call[u].at \in Early \cup {"create", "register", "diff", "choose", "run"}
                => call[u].id # 0
           /\ call[u].at = "idle" => call[u] = Idle
           /\ call[u].at = "discard" => call[u].id \in call[u].toDrop
           /\ call[u].kind = "udf" => call[u].id = 0
  BY NumberFacts
<1>a. \A u \in Threads : \A x \in call[u].toDrop : x \in Nat
  BY QueriesAssumption DEF CallRecords, Tables
<1>1. ASSUME NEW t \in Threads, NEW kind \in Kinds \ {"udf"}, Begin(t, kind)
      PROVE  TablesAreNumbered'
  <2>1. /\ Moves(t, "idle", "lock") /\ calls < MaxCalls /\ calls' = calls + 1
        /\ call'[t].id = calls' /\ call'[t].kind = kind /\ call'[t].conn = Capi
        /\ call'[t].before = {} /\ call'[t].toDrop = {}
        /\ UNCHANGED tableVars
    BY <1>1, BeginMoves
  <2> QED
    BY <2>1, <1>0, <1>a DEF TablesAreNumbered, Owned, Untouched, Moves, tableVars
<1>2. ASSUME NEW t \in Threads, Snapshot(t)
      PROVE  TablesAreNumbered'
  <2>1. /\ Moves(t, "snapshot", IF call[t].kind = "table" THEN "create" ELSE "diff")
        /\ call'[t].before = scanTables /\ call'[t].toDrop = call[t].toDrop
        /\ KeepsName(t)
        /\ UNCHANGED <<calls, tableVars>>
    BY <1>2, SnapshotMoves
  <2> QED
    BY <2>1, <1>0, <1>a DEF TablesAreNumbered, Owned, Untouched, Moves, KeepsName,
         tableVars
<1>3. ASSUME NEW t \in Threads, CreateTable(t)
      PROVE  TablesAreNumbered'
  <2>1. /\ Moves(t, "create", "register")
        /\ engineTables' = engineTables \cup {call[t].id} \/ UNCHANGED engineTables
        /\ UNCHANGED scanTables
        /\ KeepsName(t) /\ KeepsTables(t)
        /\ UNCHANGED calls
    BY <1>3, CreateTableMoves
  <2> QED
    BY <2>1, <1>0, <1>a DEF TablesAreNumbered, Owned, Untouched, Moves, KeepsName,
         KeepsTables, Dropping
<1>4. ASSUME NEW t \in Threads, RegisterTable(t)
      PROVE  TablesAreNumbered'
  <2>1. /\ Moves(t, "register", "diff")
        /\ scanTables' = scanTables \cup {call[t].id}
        /\ UNCHANGED engineTables
        /\ KeepsName(t) /\ KeepsTables(t)
        /\ UNCHANGED calls
    BY <1>4, RegisterTableMoves
  <2> QED
    BY <2>1, <1>0, <1>a DEF TablesAreNumbered, Owned, Untouched, Moves, KeepsName,
         KeepsTables, Dropping
<1>5. ASSUME NEW t \in Threads, Diff(t)
      PROVE  TablesAreNumbered'
  <2>1. /\ Moves(t, "diff", "choose")
        /\ call'[t].toDrop = scanTables \ call[t].before
        /\ call'[t].before = {}
        /\ KeepsName(t)
        /\ UNCHANGED <<calls, tableVars>>
    BY <1>5, DiffMoves
  <2> QED
    BY <2>1, <1>0, <1>a DEF TablesAreNumbered, Owned, Untouched, Moves, KeepsName,
         tableVars
<1>6. ASSUME NEW t \in Threads, RefuseQuery(t)
      PROVE  TablesAreNumbered'
  <2>1. /\ IsReset(t) /\ call[t].at = "choose" /\ failed' = failed \cup {call[t].id}
        /\ UNCHANGED <<calls, tableVars>>
    BY <1>6, RefuseQueryMoves
  <2> QED
    BY <2>1, IdleFields, <1>0, <1>a DEF TablesAreNumbered, Owned, Untouched, IsReset,
         tableVars
<1>7. ASSUME NEW t \in Threads, Succeed(t)
      PROVE  TablesAreNumbered'
  <2>1. /\ Moves(t, "run", "drop")
        /\ KeepsName(t) /\ KeepsTables(t)
        /\ UNCHANGED <<calls, tableVars>>
    BY <1>7, SucceedMoves
  <2> QED
    BY <2>1, <1>0, <1>a DEF TablesAreNumbered, Owned, Untouched, Moves, KeepsName,
         KeepsTables, tableVars
<1>8. ASSUME NEW t \in Threads, Raise(t)
      PROVE  TablesAreNumbered'
  <2>1. /\ IsReset(t) /\ call[t].at = "run" /\ failed' = failed \cup {call[t].id}
        /\ UNCHANGED <<calls, tableVars>>
    BY <1>8, RaiseMoves
  <2> QED
    BY <2>1, IdleFields, <1>0, <1>a DEF TablesAreNumbered, Owned, Untouched, IsReset,
         tableVars
<1>9. ASSUME NEW t \in Threads, NEW x \in Tables, DropTable(t, x)
      PROVE  TablesAreNumbered'
  <2>1. /\ Moves(t, "drop", "discard") /\ x \in call[t].toDrop
        /\ call'[t].id = x /\ call'[t].kind = call[t].kind
        /\ engineTables' = engineTables \ {x} /\ UNCHANGED scanTables
        /\ KeepsTables(t)
        /\ UNCHANGED calls
    BY <1>9, DropTableMoves
  <2> QED
    BY <2>1, <1>0, <1>a DEF TablesAreNumbered, Owned, Untouched, Moves, KeepsTables
<1>10. ASSUME NEW t \in Threads, Discard(t)
       PROVE  TablesAreNumbered'
  <2>1. /\ Moves(t, "discard", "drop")
        /\ call'[t].before = call[t].before
        /\ call'[t].toDrop = call[t].toDrop \ {call[t].id}
        /\ scanTables' = scanTables \ {call[t].id} /\ UNCHANGED engineTables
        /\ KeepsName(t)
        /\ UNCHANGED calls
    BY <1>10, DiscardMoves
  <2> QED
    BY <2>1, <1>0, <1>a DEF TablesAreNumbered, Owned, Untouched, Moves, KeepsName
<1>11. ASSUME NEW t \in Threads, Return(t)
       PROVE  TablesAreNumbered'
  <2>1. /\ IsReset(t) /\ call[t].at = "drop" /\ call[t].toDrop = {}
        /\ UNCHANGED <<calls, tableVars>>
    BY <1>11, ReturnMoves
  <2> QED
    BY <2>1, IdleFields, <1>0, <1>a DEF TablesAreNumbered, Owned, Untouched, IsReset,
         tableVars
<1>12. CASE LeavesTables
  BY <1>12, <1>0, <1>a DEF LeavesTables, TablesAreNumbered, Owned, tableVars
<1> QED
  BY <1>1, <1>2, <1>3, <1>4, <1>5, <1>6, <1>7, <1>8, <1>9, <1>10, <1>11,
     <1>12, TableSteps

\* The engine has no table that the connection does not know of.
LEMMA ListedKept ==
    ASSUME call \in [Threads -> CallRecords], StateTyped, CallsInStep, TablesAreNew,
           TablesAreListed, [Next]_vars
    PROVE  TablesAreListed'
<1>0. /\ calls \in Nat
      /\ \A x \in scanTables \cup engineTables : x \in Nat /\ x # 0
      /\ \A u \in Threads :
           /\ call[u].id \in Nat
           /\ call[u].at \notin Dropping => call[u].id <= calls
           /\ call[u].at \in Early \cup {"create", "register", "diff", "choose", "run"}
                => call[u].id # 0
           /\ call[u].at = "idle" => call[u] = Idle
           /\ call[u].at = "discard" => call[u].id \in call[u].toDrop
           /\ call[u].kind = "udf" => call[u].id = 0
  BY NumberFacts
<1>b. \A u \in Threads : TableIsNew(u)
  BY DEF TablesAreNew
<1>1. ASSUME NEW t \in Threads, NEW kind \in Kinds \ {"udf"}, Begin(t, kind)
      PROVE  TablesAreListed'
  <2>1. /\ Moves(t, "idle", "lock") /\ calls < MaxCalls /\ calls' = calls + 1
        /\ call'[t].id = calls' /\ call'[t].kind = kind /\ call'[t].conn = Capi
        /\ call'[t].before = {} /\ call'[t].toDrop = {}
        /\ UNCHANGED tableVars
    BY <1>1, BeginMoves
  <2> QED
    BY <2>1, <1>0, <1>b DEF TablesAreListed, At, Untouched, Moves, tableVars
<1>2. ASSUME NEW t \in Threads, Snapshot(t)
      PROVE  TablesAreListed'
  <2>1. /\ Moves(t, "snapshot", IF call[t].kind = "table" THEN "create" ELSE "diff")
        /\ call'[t].before = scanTables /\ call'[t].toDrop = call[t].toDrop
        /\ KeepsName(t)
        /\ UNCHANGED <<calls, tableVars>>
    BY <1>2, SnapshotMoves
  <2> QED
    BY <2>1, <1>0, <1>b DEF TablesAreListed, At, Untouched, Moves, KeepsName,
         tableVars
<1>3. ASSUME NEW t \in Threads, CreateTable(t)
      PROVE  TablesAreListed'
  <2>1. /\ Moves(t, "create", "register")
        /\ engineTables' = engineTables \cup {call[t].id} \/ UNCHANGED engineTables
        /\ UNCHANGED scanTables
        /\ KeepsName(t) /\ KeepsTables(t)
        /\ UNCHANGED calls
    BY <1>3, CreateTableMoves
  <2> QED
    BY <2>1, <1>0, <1>b DEF TablesAreListed, At, Untouched, Moves, KeepsName,
         KeepsTables, TableIsNew
<1>4. ASSUME NEW t \in Threads, RegisterTable(t)
      PROVE  TablesAreListed'
  <2>1. /\ Moves(t, "register", "diff")
        /\ scanTables' = scanTables \cup {call[t].id}
        /\ UNCHANGED engineTables
        /\ KeepsName(t) /\ KeepsTables(t)
        /\ UNCHANGED calls
    BY <1>4, RegisterTableMoves
  <2> QED
    BY <2>1, <1>0, <1>b DEF TablesAreListed, At, Untouched, Moves, KeepsName,
         KeepsTables
<1>5. ASSUME NEW t \in Threads, Diff(t)
      PROVE  TablesAreListed'
  <2>1. /\ Moves(t, "diff", "choose")
        /\ call'[t].toDrop = scanTables \ call[t].before
        /\ call'[t].before = {}
        /\ KeepsName(t)
        /\ UNCHANGED <<calls, tableVars>>
    BY <1>5, DiffMoves
  <2> QED
    BY <2>1, <1>0, <1>b DEF TablesAreListed, At, Untouched, Moves, KeepsName,
         tableVars
<1>6. ASSUME NEW t \in Threads, RefuseQuery(t)
      PROVE  TablesAreListed'
  <2>1. /\ IsReset(t) /\ call[t].at = "choose" /\ failed' = failed \cup {call[t].id}
        /\ UNCHANGED <<calls, tableVars>>
    BY <1>6, RefuseQueryMoves
  <2> QED
    BY <2>1, IdleFields, <1>0, <1>b DEF TablesAreListed, At, Untouched, IsReset,
         tableVars
<1>7. ASSUME NEW t \in Threads, Succeed(t)
      PROVE  TablesAreListed'
  <2>1. /\ Moves(t, "run", "drop")
        /\ KeepsName(t) /\ KeepsTables(t)
        /\ UNCHANGED <<calls, tableVars>>
    BY <1>7, SucceedMoves
  <2> QED
    BY <2>1, <1>0, <1>b DEF TablesAreListed, At, Untouched, Moves, KeepsName,
         KeepsTables, tableVars
<1>8. ASSUME NEW t \in Threads, Raise(t)
      PROVE  TablesAreListed'
  <2>1. /\ IsReset(t) /\ call[t].at = "run" /\ failed' = failed \cup {call[t].id}
        /\ UNCHANGED <<calls, tableVars>>
    BY <1>8, RaiseMoves
  <2> QED
    BY <2>1, IdleFields, <1>0, <1>b DEF TablesAreListed, At, Untouched, IsReset,
         tableVars
<1>9. ASSUME NEW t \in Threads, NEW x \in Tables, DropTable(t, x)
      PROVE  TablesAreListed'
  <2>1. /\ Moves(t, "drop", "discard") /\ x \in call[t].toDrop
        /\ call'[t].id = x /\ call'[t].kind = call[t].kind
        /\ engineTables' = engineTables \ {x} /\ UNCHANGED scanTables
        /\ KeepsTables(t)
        /\ UNCHANGED calls
    BY <1>9, DropTableMoves
  <2> QED
    BY <2>1, <1>0, <1>b DEF TablesAreListed, At, Untouched, Moves, KeepsTables
<1>10. ASSUME NEW t \in Threads, Discard(t)
       PROVE  TablesAreListed'
  <2>1. /\ Moves(t, "discard", "drop")
        /\ call'[t].before = call[t].before
        /\ call'[t].toDrop = call[t].toDrop \ {call[t].id}
        /\ scanTables' = scanTables \ {call[t].id} /\ UNCHANGED engineTables
        /\ KeepsName(t)
        /\ UNCHANGED calls
    BY <1>10, DiscardMoves
  <2> QED
    BY <2>1, <1>0, <1>b DEF TablesAreListed, At, Untouched, Moves, KeepsName
<1>11. ASSUME NEW t \in Threads, Return(t)
       PROVE  TablesAreListed'
  <2>1. /\ IsReset(t) /\ call[t].at = "drop" /\ call[t].toDrop = {}
        /\ UNCHANGED <<calls, tableVars>>
    BY <1>11, ReturnMoves
  <2> QED
    BY <2>1, IdleFields, <1>0, <1>b DEF TablesAreListed, At, Untouched, IsReset,
         tableVars
<1>12. CASE LeavesTables
  BY <1>12, <1>0, <1>b DEF LeavesTables, TablesAreListed, At, tableVars, Early, Scanned
<1> QED
  BY <1>1, <1>2, <1>3, <1>4, <1>5, <1>6, <1>7, <1>8, <1>9, <1>10, <1>11,
     <1>12, TableSteps

\* Every step leaves each table with somebody to drop it.
LEMMA OwnedKept ==
    ASSUME call \in [Threads -> CallRecords], StateTyped, CallsInStep, IdsDiffer,
           TablesAreNew, TablesAreListed, TablesAreOwned, [Next]_vars
    PROVE  TablesAreOwned'
<1>0. /\ calls \in Nat
      /\ \A x \in scanTables \cup engineTables : x \in Nat /\ x # 0
      /\ \A u \in Threads :
           /\ call[u].id \in Nat
           /\ call[u].at \notin Dropping => call[u].id <= calls
           /\ call[u].at \in Early \cup {"create", "register", "diff", "choose", "run"}
                => call[u].id # 0
           /\ call[u].at = "idle" => call[u] = Idle
           /\ call[u].at = "discard" => call[u].id \in call[u].toDrop
           /\ call[u].kind = "udf" => call[u].id = 0
  BY NumberFacts
<1>b. \A u \in Threads : TableIsNew(u)
  BY DEF TablesAreNew
<1>1. ASSUME NEW t \in Threads, NEW kind \in Kinds \ {"udf"}, Begin(t, kind)
      PROVE  TablesAreOwned'
  <2>1. /\ Moves(t, "idle", "lock") /\ calls < MaxCalls /\ calls' = calls + 1
        /\ call'[t].id = calls' /\ call'[t].kind = kind /\ call'[t].conn = Capi
        /\ call'[t].before = {} /\ call'[t].toDrop = {}
        /\ UNCHANGED <<tableVars, failed>>
    BY <1>1, BeginMoves
  <2> QED
    BY <2>1, <1>0, <1>b DEF TablesAreOwned, WillDrop, Owned, Scanned, Dropping,
         Untouched, Moves, tableVars
<1>2. ASSUME NEW t \in Threads, Snapshot(t)
      PROVE  TablesAreOwned'
  <2>1. /\ Moves(t, "snapshot", IF call[t].kind = "table" THEN "create" ELSE "diff")
        /\ call'[t].before = scanTables /\ call'[t].toDrop = call[t].toDrop
        /\ KeepsName(t)
        /\ UNCHANGED <<calls, tableVars, failed>>
    BY <1>2, SnapshotMoves
  <2> QED
    BY <2>1, <1>0, <1>b DEF TablesAreOwned, WillDrop, Owned, Scanned, Dropping,
         Untouched, Moves, KeepsName, tableVars
<1>3. ASSUME NEW t \in Threads, CreateTable(t)
      PROVE  TablesAreOwned'
  <2>1. /\ Moves(t, "create", "register")
        /\ engineTables' = engineTables \cup {call[t].id} \/ UNCHANGED engineTables
        /\ UNCHANGED scanTables
        /\ KeepsName(t) /\ KeepsTables(t)
        /\ UNCHANGED <<calls, failed>>
    BY <1>3, CreateTableMoves
  <2> QED
    BY <2>1, <1>0, <1>b DEF TablesAreOwned, WillDrop, Owned, Scanned, Dropping,
         Untouched, Moves, KeepsName, KeepsTables, TableIsNew, IdsDiffer, Dropping
<1>4. ASSUME NEW t \in Threads, RegisterTable(t)
      PROVE  TablesAreOwned'
  <2>1. /\ Moves(t, "register", "diff")
        /\ scanTables' = scanTables \cup {call[t].id}
        /\ UNCHANGED engineTables
        /\ KeepsName(t) /\ KeepsTables(t)
        /\ UNCHANGED <<calls, failed>>
    BY <1>4, RegisterTableMoves
  <2> QED
    BY <2>1, <1>0, <1>b DEF TablesAreOwned, WillDrop, Owned, Scanned, Dropping,
         Untouched, Moves, KeepsName, KeepsTables, TableIsNew, IdsDiffer
<1>5. ASSUME NEW t \in Threads, Diff(t)
      PROVE  TablesAreOwned'
  <2>1. /\ Moves(t, "diff", "choose")
        /\ call'[t].toDrop = scanTables \ call[t].before
        /\ KeepsName(t)
        /\ UNCHANGED <<tableVars, failed>>
    BY <1>5, DiffMoves
  <2>2. call[t].id \notin call[t].before /\ call[t].at = "diff" /\ call[t].id # 0
    BY <2>1, <1>0, <1>b DEF TableIsNew, Moves
  <2>3. ASSUME NEW u \in Threads, At(u, "register")
        PROVE  call[u].id # call[t].id
    BY <2>2, <2>3 DEF IdsDiffer, Dropping, At
  <2>4. call[t].id \in Owned => call[t].id \in call'[t].toDrop
    BY <2>1, <2>2, <2>3 DEF TablesAreListed, Owned
  <2> QED
    BY <2>1, <2>2, <2>4 DEF TablesAreOwned, WillDrop, Owned, Scanned, Dropping, Untouched,
         Moves, KeepsName, tableVars
<1>6. ASSUME NEW t \in Threads, RefuseQuery(t)
      PROVE  TablesAreOwned'
  <2>1. /\ IsReset(t) /\ call[t].at = "choose" /\ failed' = failed \cup {call[t].id}
        /\ UNCHANGED <<calls, tableVars>>
    BY <1>6, RefuseQueryMoves
  <2> QED
    BY <2>1, IdleFields, <1>0, <1>b DEF TablesAreOwned, WillDrop, Owned, Scanned,
         Dropping, Untouched, IsReset, tableVars
<1>7. ASSUME NEW t \in Threads, Succeed(t)
      PROVE  TablesAreOwned'
  <2>1. /\ Moves(t, "run", "drop")
        /\ KeepsName(t) /\ KeepsTables(t)
        /\ UNCHANGED <<calls, tableVars, failed>>
    BY <1>7, SucceedMoves
  <2> QED
    BY <2>1, <1>0, <1>b DEF TablesAreOwned, WillDrop, Owned, Scanned, Dropping,
         Untouched, Moves, KeepsName, KeepsTables, tableVars
<1>8. ASSUME NEW t \in Threads, Raise(t)
      PROVE  TablesAreOwned'
  <2>1. /\ IsReset(t) /\ call[t].at = "run" /\ failed' = failed \cup {call[t].id}
        /\ UNCHANGED <<calls, tableVars>>
    BY <1>8, RaiseMoves
  <2> QED
    BY <2>1, IdleFields, <1>0, <1>b DEF TablesAreOwned, WillDrop, Owned, Scanned,
         Dropping, Untouched, IsReset, tableVars
<1>9. ASSUME NEW t \in Threads, NEW x \in Tables, DropTable(t, x)
      PROVE  TablesAreOwned'
  <2>1. /\ Moves(t, "drop", "discard") /\ x \in call[t].toDrop
        /\ call'[t].id = x /\ call'[t].kind = call[t].kind
        /\ engineTables' = engineTables \ {x} /\ UNCHANGED scanTables
        /\ KeepsTables(t)
        /\ UNCHANGED <<calls, failed>>
    BY <1>9, DropTableMoves
  <2> QED
    BY <2>1, <1>0, <1>b DEF TablesAreOwned, WillDrop, Owned, Scanned, Dropping,
         Untouched, Moves, KeepsTables
<1>10. ASSUME NEW t \in Threads, Discard(t)
       PROVE  TablesAreOwned'
  <2>1. /\ Moves(t, "discard", "drop")
        /\ call'[t].before = call[t].before
        /\ call'[t].toDrop = call[t].toDrop \ {call[t].id}
        /\ scanTables' = scanTables \ {call[t].id} /\ UNCHANGED engineTables
        /\ KeepsName(t)
        /\ UNCHANGED <<calls, failed>>
    BY <1>10, DiscardMoves
  <2> QED
    BY <2>1, <1>0, <1>b DEF TablesAreOwned, WillDrop, Owned, Scanned, Dropping,
         Untouched, Moves, KeepsName, TablesAreListed, At
<1>11. ASSUME NEW t \in Threads, Return(t)
       PROVE  TablesAreOwned'
  <2>1. /\ IsReset(t) /\ call[t].at = "drop" /\ call[t].toDrop = {}
        /\ UNCHANGED <<calls, tableVars, failed>>
    BY <1>11, ReturnMoves
  <2> QED
    BY <2>1, IdleFields, <1>0, <1>b DEF TablesAreOwned, WillDrop, Owned, Scanned,
         Dropping, Untouched, IsReset, tableVars
<1>12. CASE LeavesTables
  BY <1>12, <1>0, <1>b DEF LeavesTables, TablesAreOwned, WillDrop, Owned, Scanned,
       Dropping, tableVars, Early
<1> QED
  BY <1>1, <1>2, <1>3, <1>4, <1>5, <1>6, <1>7, <1>8, <1>9, <1>10, <1>11,
     <1>12, TableSteps

\* A thread opens at most one pybind connection, and only before there is one.
LEMMA PybindKept ==
    ASSUME call \in [Threads -> CallRecords], StateTyped, PybindIsCounted, [Next]_vars
    PROVE  PybindIsCounted'
<1>z. IsFiniteSet(Opening) /\ Cardinality(Opening) \in Nat
  <2>1. Opening \subseteq Threads
    BY DEF Opening
  <2> QED
    BY <2>1, QueriesAssumption, FS_Subset, FS_CardinalityType
<1>0. /\ Cardinality(Opening) \in Nat /\ Cardinality(Threads) \in Nat
      /\ opened \in 0..Cardinality(Threads) /\ pyConnection \in 0..opened
  BY <1>z, QueriesFacts DEF PybindIsCounted
<1>1. ASSUME NEW t \in Threads, NEW s \in Settings, SetSetting(t, s)
      PROVE  PybindIsCounted'
  <2>1. /\ UNCHANGED <<call, backendVars>>
    BY <1>1, SetSettingMoves DEF StateTyped
  <2>2. Opening' = Opening
    BY <2>1 DEF Opening, At
  <2> QED
    BY <2>1, <2>2, <1>0 DEF backendVars, PybindIsCounted
<1>2. ASSUME NEW t \in Threads, NEW kind \in Kinds \ {"udf"}, Begin(t, kind)
      PROVE  PybindIsCounted'
  <2>1. /\ Moves(t, "idle", "lock") /\ calls < MaxCalls /\ calls' = calls + 1
        /\ UNCHANGED backendVars
    BY <1>2, BeginMoves
  <2>2. Opening' = Opening
    BY <2>1 DEF Opening, At, Untouched, Moves
  <2> QED
    BY <2>1, <2>2, <1>0 DEF backendVars, PybindIsCounted
<1>3. ASSUME NEW t \in Threads, TakePending(t)
      PROVE  PybindIsCounted'
  <2>1. /\ Moves(t, "lock", "apply")
        /\ UNCHANGED backendVars
    BY <1>3, TakePendingMoves
  <2>2. Opening' = Opening
    BY <2>1 DEF Opening, At, Untouched, Moves
  <2> QED
    BY <2>1, <2>2, <1>0 DEF backendVars, PybindIsCounted
<1>4. ASSUME NEW t \in Threads, NEW s \in Settings, ApplySetting(t, s)
      PROVE  PybindIsCounted'
  <2>1. /\ Moves(t, "apply", "apply")
        /\ UNCHANGED backendVars
    BY <1>4, ApplySettingMoves DEF StateTyped
  <2>2. Opening' = Opening
    BY <2>1 DEF Opening, At, Untouched, Moves
  <2> QED
    BY <2>1, <2>2, <1>0 DEF backendVars, PybindIsCounted
<1>5. ASSUME NEW t \in Threads, AllApplied(t)
      PROVE  PybindIsCounted'
  <2>1. /\ Moves(t, "apply", "snapshot")
        /\ UNCHANGED backendVars
    BY <1>5, AllAppliedMoves
  <2>2. Opening' = Opening
    BY <2>1 DEF Opening, At, Untouched, Moves
  <2> QED
    BY <2>1, <2>2, <1>0 DEF backendVars, PybindIsCounted
<1>6. ASSUME NEW t \in Threads, Snapshot(t)
      PROVE  PybindIsCounted'
  <2>1. /\ Moves(t, "snapshot", IF call[t].kind = "table" THEN "create" ELSE "diff")
        /\ UNCHANGED backendVars
    BY <1>6, SnapshotMoves
  <2>2. Opening' = Opening
    BY <2>1 DEF Opening, At, Untouched, Moves
  <2> QED
    BY <2>1, <2>2, <1>0 DEF backendVars, PybindIsCounted
<1>7. ASSUME NEW t \in Threads, CreateTable(t)
      PROVE  PybindIsCounted'
  <2>1. /\ Moves(t, "create", "register")
        /\ UNCHANGED backendVars
    BY <1>7, CreateTableMoves
  <2>2. Opening' = Opening
    BY <2>1 DEF Opening, At, Untouched, Moves
  <2> QED
    BY <2>1, <2>2, <1>0 DEF backendVars, PybindIsCounted
<1>8. ASSUME NEW t \in Threads, RegisterTable(t)
      PROVE  PybindIsCounted'
  <2>1. /\ Moves(t, "register", "diff")
        /\ UNCHANGED backendVars
    BY <1>8, RegisterTableMoves
  <2>2. Opening' = Opening
    BY <2>1 DEF Opening, At, Untouched, Moves
  <2> QED
    BY <2>1, <2>2, <1>0 DEF backendVars, PybindIsCounted
<1>9. ASSUME NEW t \in Threads, Diff(t)
      PROVE  PybindIsCounted'
  <2>1. /\ Moves(t, "diff", "choose")
        /\ UNCHANGED backendVars
    BY <1>9, DiffMoves
  <2>2. Opening' = Opening
    BY <2>1 DEF Opening, At, Untouched, Moves
  <2> QED
    BY <2>1, <2>2, <1>0 DEF backendVars, PybindIsCounted
<1>10. ASSUME NEW t \in Threads, RefuseQuery(t)
       PROVE  PybindIsCounted'
  <2>1. /\ IsReset(t) /\ call[t].at = "choose" /\ failed' = failed \cup {call[t].id}
        /\ UNCHANGED backendVars
    BY <1>10, RefuseQueryMoves
  <2>2. Opening' = Opening
    BY <2>1, IdleFields DEF Opening, At, Untouched, IsReset
  <2> QED
    BY <2>1, <2>2, <1>0 DEF backendVars, PybindIsCounted
<1>11. ASSUME NEW t \in Threads, ChooseBackend(t)
       PROVE  PybindIsCounted'
  <2>1. /\ Moves(t, "choose", "find") \/ Moves(t, "choose", "call")
        /\ UNCHANGED <<pyConnection, opened>>
    BY <1>11, ChooseBackendMoves
  <2>2. Opening' = Opening
    BY <2>1 DEF Opening, At, Untouched, Moves
  <2> QED
    BY <2>1, <2>2, <1>0 DEF PybindIsCounted
<1>12. ASSUME NEW t \in Threads, CreateFunction(t)
       PROVE  PybindIsCounted'
  <2>1. /\ Moves(t, "idle", "find")
        /\ UNCHANGED backendVars
    BY <1>12, CreateFunctionMoves
  <2>2. Opening' = Opening
    BY <2>1 DEF Opening, At, Untouched, Moves
  <2> QED
    BY <2>1, <2>2, <1>0 DEF backendVars, PybindIsCounted
<1>13. ASSUME NEW t \in Threads, FindPybind(t)
       PROVE  PybindIsCounted'
  <2>1. /\ \/ Moves(t, "find", "open") /\ pyConnection = Capi
           \/ Moves(t, "find", "call")
        /\ UNCHANGED backendVars
    BY <1>13, FindPybindMoves
  <2>2. CASE opened = 0
    <3>1. Opening' \subseteq Threads
      BY DEF Opening
    <3>2. Cardinality(Opening') <= Cardinality(Threads)
      BY <3>1, QueriesAssumption, FS_Subset
    <3>3. Cardinality(Opening') \in Nat
      BY <3>1, QueriesAssumption, FS_Subset, FS_CardinalityType
    <3> QED
      BY <2>1, <2>2, <3>2, <3>3, <1>0 DEF backendVars, PybindIsCounted
  <2>3. CASE opened # 0
    <3>1. Opening' = Opening
      BY <2>1, <2>3, <1>0 DEF Opening, At, Untouched, Moves, PybindIsCounted
    <3> QED
      BY <2>1, <3>1, <1>0 DEF backendVars, PybindIsCounted
  <2> QED
    BY <2>2, <2>3
<1>14. ASSUME NEW t \in Threads, OpenPybind(t)
       PROVE  PybindIsCounted'
  <2>1. /\ Moves(t, "open", "call")
        /\ opened' = opened + 1 /\ pyConnection' = opened'
    BY <1>14, OpenPybindMoves
  <2>2. Opening' = Opening \ {t} /\ t \in Opening
    BY <2>1 DEF Opening, At, Untouched, Moves
  <2>3. Cardinality(Opening') = Cardinality(Opening) - 1 /\ Cardinality(Opening) # 0
    BY <2>2, <1>z, FS_RemoveElement, FS_EmptySet
  <2> QED
    BY <2>1, <2>3, <1>0 DEF Capi, PybindIsCounted
<1>15. ASSUME NEW t \in Threads, FunctionCreated(t)
       PROVE  PybindIsCounted'
  <2>1. /\ IsReset(t) /\ call[t].at = "call" /\ call[t].kind = "udf"
        /\ UNCHANGED <<pyConnection, opened>>
    BY <1>15, FunctionCreatedMoves
  <2>2. Opening' = Opening
    BY <2>1, IdleFields DEF Opening, At, Untouched, IsReset
  <2> QED
    BY <2>1, <2>2, <1>0 DEF PybindIsCounted
<1>16. ASSUME NEW t \in Threads, StartTimer(t)
       PROVE  PybindIsCounted'
  <2>1. /\ Moves(t, "call", "wait") /\ call[t].kind # "udf"
        /\ UNCHANGED backendVars
    BY <1>16, StartTimerMoves
  <2>2. Opening' = Opening
    BY <2>1 DEF Opening, At, Untouched, Moves
  <2> QED
    BY <2>1, <2>2, <1>0 DEF backendVars, PybindIsCounted
<1>17. ASSUME NEW t \in Threads, Run(t)
       PROVE  PybindIsCounted'
  <2>1. /\ Moves(t, "wait", "run")
        /\ UNCHANGED backendVars
    BY <1>17, RunMoves
  <2>2. Opening' = Opening
    BY <2>1 DEF Opening, At, Untouched, Moves
  <2> QED
    BY <2>1, <2>2, <1>0 DEF backendVars, PybindIsCounted
<1>18. ASSUME NEW t \in Threads, Succeed(t)
       PROVE  PybindIsCounted'
  <2>1. /\ Moves(t, "run", "drop")
        /\ UNCHANGED backendVars
    BY <1>18, SucceedMoves
  <2>2. Opening' = Opening
    BY <2>1 DEF Opening, At, Untouched, Moves
  <2> QED
    BY <2>1, <2>2, <1>0 DEF backendVars, PybindIsCounted
<1>19. ASSUME NEW t \in Threads, Raise(t)
       PROVE  PybindIsCounted'
  <2>1. /\ IsReset(t) /\ call[t].at = "run" /\ failed' = failed \cup {call[t].id}
        /\ UNCHANGED backendVars
    BY <1>19, RaiseMoves
  <2>2. Opening' = Opening
    BY <2>1, IdleFields DEF Opening, At, Untouched, IsReset
  <2> QED
    BY <2>1, <2>2, <1>0 DEF backendVars, PybindIsCounted
<1>20. ASSUME NEW t \in Threads, NEW x \in Tables, DropTable(t, x)
       PROVE  PybindIsCounted'
  <2>1. /\ Moves(t, "drop", "discard") /\ x \in call[t].toDrop
        /\ UNCHANGED backendVars
    BY <1>20, DropTableMoves
  <2>2. Opening' = Opening
    BY <2>1 DEF Opening, At, Untouched, Moves
  <2> QED
    BY <2>1, <2>2, <1>0 DEF backendVars, PybindIsCounted
<1>21. ASSUME NEW t \in Threads, Discard(t)
       PROVE  PybindIsCounted'
  <2>1. /\ Moves(t, "discard", "drop")
        /\ UNCHANGED backendVars
    BY <1>21, DiscardMoves
  <2>2. Opening' = Opening
    BY <2>1 DEF Opening, At, Untouched, Moves
  <2> QED
    BY <2>1, <2>2, <1>0 DEF backendVars, PybindIsCounted
<1>22. ASSUME NEW t \in Threads, Return(t)
       PROVE  PybindIsCounted'
  <2>1. /\ IsReset(t) /\ call[t].at = "drop" /\ call[t].toDrop = {}
        /\ UNCHANGED backendVars
    BY <1>22, ReturnMoves
  <2>2. Opening' = Opening
    BY <2>1, IdleFields DEF Opening, At, Untouched, IsReset
  <2> QED
    BY <2>1, <2>2, <1>0 DEF backendVars, PybindIsCounted
<1>23. ASSUME NEW t \in Threads, TimerFires(t)
       PROVE  PybindIsCounted'
  <2>1. UNCHANGED <<backendVars, call>>
    BY <1>23, TimerMoves
  <2>2. Opening' = Opening
    BY <2>1 DEF Opening, At
  <2> QED
    BY <2>1, <2>2, <1>0 DEF backendVars, PybindIsCounted
<1>24. ASSUME TimerInterrupts
       PROVE  PybindIsCounted'
  <2>1. UNCHANGED <<backendVars, call>>
    BY <1>24, TimerMoves
  <2>2. Opening' = Opening
    BY <2>1 DEF Opening, At
  <2> QED
    BY <2>1, <2>2, <1>0 DEF backendVars, PybindIsCounted
<1>25. CASE UNCHANGED vars
  <2>1. Opening' = Opening
    BY <1>25 DEF Opening, At, vars
  <2> QED
    BY <1>25, <2>1, <1>0 DEF vars, backendVars, PybindIsCounted
<1> QED
  BY <1>1, <1>2, <1>3, <1>4, <1>5, <1>6, <1>7, <1>8, <1>9, <1>10, <1>11,
     <1>12, <1>13, <1>14, <1>15, <1>16, <1>17, <1>18, <1>19, <1>20, <1>21, <1>22,
     <1>23, <1>24, <1>25
     DEF Next, Apply, Scan, Dispatch, Execute

-----------------------------------------------------------------------------
(* The theorems.                                                           *)

\* It holds at first.
LEMMA InitIInv == Init => IInv
<1> SUFFICES ASSUME Init
             PROVE  IInv
  OBVIOUS
<1>1. StateTyped
  <2>1. 0 \in 0..MaxCalls
    BY QueriesAssumption
  <2>2. /\ pending \in Versions /\ lastSet \in Versions /\ inForce \in [Conns -> Versions]
        /\ engine \in [Conns -> Threads \cup {None}]
    BY QueriesFacts DEF Init
  <2>3. calls \in 0..MaxCalls /\ firing \in Nat
    BY <2>1 DEF Init
  <2>4. preferPybind \in BOOLEAN /\ interrupted \in BOOLEAN
    BY DEF Init
  <2>5. /\ applyLock = None /\ scanTables = {} /\ engineTables = {} /\ timers = {}
        /\ failed = {}
    BY DEF Init
  <2> QED
    BY <2>2, <2>3, <2>4, <2>5 DEF StateTyped
<1>2. opened = 0 /\ pyConnection = 0 /\ call \in [Threads -> CallRecords]
  BY QueriesFacts DEF Init, Capi
<1>3. TypeOK
  BY <1>1, <1>2, QueriesFacts, TypesSplit DEF Conns
<1>4. \A t \in Threads : call[t] = Idle
  BY DEF Init
<1>5. CallsInStep /\ IdsDiffer /\ OnlyHolderTakes
  BY <1>1, <1>4, IdleFields, QueriesAssumption
     DEF Init, CallsInStep, CallInStep, IdsDiffer, OnlyHolderTakes, At, Dropping
<1>6. NewestIsKept /\ SinceIsServed
  <2>1. ASSUME NEW s \in Settings
        PROVE  IsKept(s) /\ \A t \in Threads : IsServed(t, s)
    <3>1. NoSettings[s] = 0
      BY DEF NoSettings
    <3>2. pending[s] = 0 /\ lastSet[s] = 0 /\ inForce[Capi][s] = 0
      BY <3>1, QueriesFacts DEF Init
    <3>3. \A t \in Threads : call[t].taken[s] = 0 /\ call[t].since[s] = 0
      BY <3>1, <1>4, IdleFields
    <3> QED
      BY <3>2, <3>3 DEF IsKept, IsServed
  <2> QED
    BY <2>1 DEF NewestIsKept, SinceIsServed
<1>7. TablesAreNew /\ TablesAreNumbered /\ TablesAreListed /\ TablesAreOwned
  BY <1>4, IdleFields
     DEF Init, TablesAreNew, TableIsNew, TablesAreNumbered, TablesAreListed,
         TablesAreOwned, Owned, Early, Scanned, At
<1>8. PybindIsCounted
  <2>1. Opening = {}
    BY <1>4, IdleFields DEF Opening, At
  <2>2. Cardinality(Opening) = 0
    BY <2>1, FS_EmptySet
  <2> QED
    BY <1>2, <2>2, QueriesFacts DEF PybindIsCounted, Capi
<1> QED
  BY <1>3, <1>5, <1>6, <1>7, <1>8 DEF IInv

\* Every step keeps it.
LEMMA NextIInv == IInv /\ [Next]_vars => IInv'
<1> SUFFICES ASSUME IInv, [Next]_vars
             PROVE  IInv'
  OBVIOUS
<1>1. /\ StateTyped /\ call \in [Threads -> CallRecords]
      /\ opened \in Conns /\ pyConnection \in 0..opened
  BY TypesSplit DEF IInv
<1>2. /\ CallsInStep /\ IdsDiffer /\ OnlyHolderTakes /\ NewestIsKept /\ SinceIsServed
      /\ TablesAreNew /\ TablesAreNumbered /\ TablesAreListed /\ TablesAreOwned
      /\ PybindIsCounted
  BY DEF IInv
<1>3. PybindIsCounted' /\ opened' \in Conns' /\ (pyConnection \in 0..opened)'
  BY <1>1, <1>2, PybindKept DEF PybindIsCounted, Conns
<1>4. StateTyped'
  BY <1>1, <1>2, StateTypedStep
<1>5. (call \in [Threads -> CallRecords])'
  <2>1. /\ pending \in Versions /\ lastSet \in Versions /\ calls \in Nat
        /\ scanTables \subseteq Tables
    BY <1>1, QueriesAssumption DEF StateTyped
  <2>2. pyConnection \in Conns
    BY <1>1, QueriesFacts DEF Conns
  <2> QED
    BY <1>1, <1>3, <2>1, <2>2, CallTyped
<1>6. (StateTyped /\ opened \in Conns /\ pyConnection \in 0..opened
         /\ call \in [Threads -> CallRecords] => TypeOK)'
  BY TypesSplit, PTL
<1>7. TypeOK'
  BY <1>3, <1>4, <1>5, <1>6
<1>8. CallsInStep' /\ IdsDiffer' /\ OnlyHolderTakes'
  BY <1>1, <1>2, InStepKept, IdsKept, HolderKept
<1>9. NewestIsKept'
  BY <1>1, <1>2, NewestKept DEF NewestIsKept
<1>10. SinceIsServed'
  BY <1>1, <1>2, ServedKept DEF SinceIsServed
<1>11. TablesAreNew'
  BY <1>1, <1>2, NewKept DEF TablesAreNew
<1>12. TablesAreNumbered' /\ TablesAreListed' /\ TablesAreOwned'
  BY <1>1, <1>2, NumberedKept, ListedKept, OwnedKept
<1> QED
  BY <1>3, <1>7, <1>8, <1>9, <1>10, <1>11, <1>12 DEF IInv

\* The inductive invariant holds.
THEOREM QueriesInvariance == Spec => []IInv
BY InitIInv, NextIInv, PTL DEF Spec

\* Every variable of Queries keeps its type; no more pybind connections are opened than
\* there are threads (connection.py's unlocked _get_pybind_connection).
THEOREM QueriesTypeCorrect == Spec => []TypeOK
<1>1. IInv => TypeOK
  BY DEF IInv
<1> QED
  BY <1>1, QueriesInvariance, PTL

\* What was set before execute() is in force when its query runs on the C-API connection,
\* whoever took the pending settings (_apply_pending_settings).
THEOREM SettingsInForce == Spec => []SettingsReachEngine
<1>1. IInv => SettingsReachEngine
  <2> SUFFICES ASSUME IInv, NEW t \in Threads, At(t, "run"), call[t].conn = Capi,
                      NEW s \in Settings
               PROVE  inForce[Capi][s] >= call[t].since[s]
    BY DEF SettingsReachEngine, Reaches
  <2>1. NoSettings[s] = 0
    BY DEF NoSettings
  <2>2. call[t].taken[s] = 0
    BY <2>1 DEF IInv, OnlyHolderTakes, At
  <2>3. IsServed(t, s)
    BY DEF IInv, SinceIsServed
  <2> QED
    BY <2>2, <2>3 DEF IsServed, At
<1> QED
  BY <1>1, QueriesInvariance, PTL

\* No thread puts an older value of a setting in force after a newer one: the lock is held
\* until everything taken is applied.
THEOREM SettingsGoForward == Spec => SettingsNeverGoBack
<1>1. IInv /\ [Next]_vars
        => [\A c \in Conns, s \in Settings : inForce'[c][s] >= inForce[c][s]]_vars
  <2> SUFFICES ASSUME IInv, [Next]_vars, NEW c \in Conns, NEW s \in Settings
               PROVE  inForce'[c][s] >= inForce[c][s]
    OBVIOUS
  <2>1. /\ StateTyped /\ call \in [Threads -> CallRecords]
        /\ OnlyHolderTakes /\ NewestIsKept
    BY TypesSplit DEF IInv
  <2> QED
    BY <2>1, ForceGrows
<1> QED
  BY <1>1, QueriesInvariance, PTL DEF Spec, SettingsNeverGoBack

\* When no call runs, the scan tables that are left are those of calls that raised.
THEOREM TablesDropped == Spec => []TablesAreDropped
<1>1. IInv => TablesAreDropped
  <2> SUFFICES ASSUME IInv, \A t \in Threads : At(t, "idle")
               PROVE  Owned \subseteq failed
    BY DEF TablesAreDropped, Owned
  <2>1. \A t \in Threads, x \in Owned : ~WillDrop(t, x)
    BY DEF WillDrop, At, Scanned, Dropping
  <2> QED
    BY <2>1 DEF IInv, TablesAreOwned
<1> QED
  BY <1>1, QueriesInvariance, PTL

=============================================================================
