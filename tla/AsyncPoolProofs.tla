--------------------------- MODULE AsyncPoolProofs ---------------------------
(***************************************************************************)
(* Theorems of AsyncPool for any number of calls, connections and threads. *)
(*                                                                         *)
(* The invariants that the runs check say what a call, its future and its  *)
(* connection may look like at one moment.  They are kept because the      *)
(* task, the future, the work on the thread, the queue, the callbacks, the *)
(* two tables of connections and close() move together: that is IInv.      *)
(***************************************************************************)
EXTENDS AsyncPool, FiniteSetTheorems, SequenceTheorems, WellFoundedInduction, TLAPS

\* A task has submitted its call when it has a future.
BeforeSubmit == {"new", "submit", "refused"}
OnLoop       == {"submit", "attach", "wrap"}
HasLock      == {"locked", "start", "compile", "execute", "unregister", "unlock"}
IsRegistered == {"start", "compile", "execute", "unregister"}

\* Where the task, the future and the work of one call may be at one time.
InStep(k) ==
    /\ task[k] \in BeforeSubmit <=> future[k] = "none"
    /\ work[k] = "none" <=> future[k] = "none"
    /\ work[k] = "queued" <=> future[k] = "pending"
    /\ work[k] \in HasLock \cup {"turn", "result"} <=> future[k] = "running"
    /\ future[k] = "cancelled" =>
          work[k] = "done" /\ task[k] \in {"unwind", "cancelled", "failed"}
    /\ task[k] = "new" <=> conn[k] = NULL
    /\ task[k] \in OnLoop <=> loop = k
    /\ posted[k] => future[k] = "finished"
    /\ task[k] = "answered" => future[k] = "finished"
    /\ repeat[k] => cancelled[k]
    /\ cancelled[k] => task[k] \notin BeforeSubmit

CallsInStep == \A k \in Calls : InStep(k)

\* The executor's queue has every pending future once, and no other but cancelled ones.
QueueIsPending ==
    /\ \A i \in 1..Len(queue) : future[queue[i]] \in {"pending", "cancelled"}
    /\ \A i, j \in 1..Len(queue) : queue[i] = queue[j] => i = j
    /\ \A k \in Calls : future[k] = "pending" => \E i \in 1..Len(queue) : queue[i] = k

\* _connection_locks and _running say where the threads are.
LocksMatchWork ==
    \A c \in Conns, k \in Calls :
        /\ lockOf[c] = k <=> conn[k] = c /\ work[k] \in HasLock
        /\ running[c] = k <=> conn[k] = c /\ work[k] \in IsRegistered

\* What an interrupt was raised for, and that it is for the call that executes.
FlagsMatchCalls ==
    /\ \A c \in Conns : \A k \in interruptedBy[c] \ {NULL} : cancelled[k]
    /\ \A k \in Calls : work[k] = "execute" => interruptedBy[conn[k]] \subseteq {k, NULL}

\* How far close() is: the connections before "at" are gone, the one at "at" is going.
CloseInOrder ==
    /\ closer = "idle" => at = 1
    /\ closer \in {"wait", "clear"} => at \in Pool
    /\ closer = "wait" => handle[at] = "live"
    /\ closer \in {"join", "done"} => at \notin Pool
    /\ \A c \in Pool : c < at => handle[c] = "none"
    /\ \A c \in Conns :
          /\ handle[c] = "destroyed" <=> closer = "clear" /\ c = at
          /\ closing[c] <=> handle[c] # "live" \/ (closer \in {"wait", "clear"} /\ c = at)

DoneIsOver ==
    closer = "done" => queue = <<>> /\ \A k \in Calls : future[k] # "running"

\* The callbacks that a future may have, by what the task has done.
CallbacksOf(k) ==
    /\ callbacks[k] \in {<<>>, <<"release">>, <<"post">>, <<"release", "post">>}
    /\ future[k] \in {"none", "cancelled"} => callbacks[k] = <<>>
    /\ task[k] \in {"new", "submit", "attach"} => callbacks[k] = <<>>
    /\ task[k] = "wrap" => callbacks[k] \in {<<>>, <<"release">>}
    /\ conn[k] \notin Pool => callbacks[k] \in {<<>>, <<"post">>}
    /\ conn[k] \in Pool /\ Unfinished(k) /\ task[k] \notin OnLoop =>
          callbacks[k] = <<"release", "post">>
    /\ conn[k] \in Pool /\ Unfinished(k) /\ task[k] = "wrap" =>
          callbacks[k] = <<"release">>
    /\ work[k] = "done" => callbacks[k] = <<>>
    /\ work[k] = "callbacks" => callbacks[k] # <<>>

CallbacksInOrder == \A k \in Calls : CallbacksOf(k)

\* The inductive invariant.
IInv ==
    /\ TypeOK
    /\ CallsInStep
    /\ QueueIsPending
    /\ LocksMatchWork
    /\ FlagsMatchCalls
    /\ CloseInOrder
    /\ DoneIsOver
    /\ CallbacksInOrder
    /\ CounterIsLoad

-----------------------------------------------------------------------------
(* Types.                                                                  *)

\* A set of natural numbers that is not empty has a minimum.
LEMMA MinOfNaturals ==
    ASSUME NEW S \in SUBSET Nat, S # {}
    PROVE  Min(S) \in S /\ \A y \in S : Min(S) <= y
<1> DEFINE less == {p \in Nat \X Nat : p[1] < p[2]}
<1>1. IsWellFoundedOn(less, Nat)
  BY NatLessThanWellFounded DEF OpToRel
<1>2. PICK n \in S : \A m \in S : ~(<<m, n>> \in less)
  BY <1>1, WFMin
<1>3. ASSUME NEW m \in S
      PROVE  n <= m
  <2>1. <<m, n>> \notin less
    BY <1>2
  <2>2. ~(m < n)
    BY <2>1
  <2> QED
    BY <2>2
<1> QED
  BY <1>3 DEF Min

\* index(min(connections_counter)) is a connection of the pool.
LEMMA LeastInPool ==
    ASSUME TypeOK
    PROVE  LeastQueried \in Pool
<1> DEFINE load == {counter[c] : c \in Pool}
           least == {c \in Pool : \A d \in Pool : counter[c] <= counter[d]}
<1>1. load \in SUBSET Nat /\ load # {}
  BY PoolAssumption DEF TypeOK, Pool
<1>2. PICK c \in Pool : counter[c] = Min(load)
  BY <1>1, MinOfNaturals
<1>3. c \in least
  BY <1>1, <1>2, MinOfNaturals
<1>4. least \in SUBSET Nat /\ least # {}
  BY <1>3 DEF Pool
<1> QED
  BY <1>4, MinOfNaturals DEF LeastQueried

\* Connections of the pool are connections, and None is neither one nor a call.
LEMMA PoolFacts ==
    /\ Pool \subseteq Conns
    /\ Pool \subseteq Nat
    /\ NULL \notin Calls
    /\ NULL \notin Conns
BY PoolAssumption DEF Pool, Conns

\* A connection's count stays a natural number.
LEMMA CounterTypes ==
    ASSUME TypeOK, NEW c, Count(c) \/ Decrement(c)
    PROVE  counter' \in [Pool -> Nat]
<1>1. counter \in [Pool -> Nat]
  BY DEF TypeOK
<1>2. CASE c \notin Pool
  BY <1>1, <1>2 DEF Count, Decrement
<1>3. CASE c \in Pool
  <2>1. /\ counter[c] + 1 \in Nat
        /\ (IF counter[c] > 0 THEN counter[c] - 1 ELSE 0) \in Nat
    BY <1>1, <1>3
  <2> QED
    BY <1>1, <1>3, <2>1 DEF Count, Decrement
<1> QED
  BY <1>2, <1>3

\* A callback that is registered or has run leaves a sequence of callbacks.
LEMMA CallbackTypes ==
    ASSUME TypeOK, NEW k \in Calls
    PROVE  /\ [callbacks EXCEPT ![k] = Append(@, "release")]
                  \in [Calls -> Seq({"release", "post"})]
           /\ [callbacks EXCEPT ![k] = Append(@, "post")]
                  \in [Calls -> Seq({"release", "post"})]
           /\ callbacks \in [Calls -> Seq({"release", "post"})]
           /\ callbacks[k] # <<>> =>
                [callbacks EXCEPT ![k] = Tail(@)] \in [Calls -> Seq({"release", "post"})]
           /\ [callbacks EXCEPT ![k] = <<>>] \in [Calls -> Seq({"release", "post"})]
<1>1. callbacks[k] \in Seq({"release", "post"})
  BY DEF TypeOK
<1>2. /\ Append(callbacks[k], "release") \in Seq({"release", "post"})
      /\ Append(callbacks[k], "post") \in Seq({"release", "post"})
      /\ <<>> \in Seq({"release", "post"})
  BY <1>1, AppendProperties, EmptySeq
<1>3. callbacks[k] # <<>> => Tail(callbacks[k]) \in Seq({"release", "post"})
  BY <1>1, HeadTailProperties
<1> QED
  BY <1>2, <1>3 DEF TypeOK

\* Every step keeps every variable within its type.
LEMMA TypingStep ==
    ASSUME TypeOK, CloseInOrder, [Next]_vars
    PROVE  TypeOK'
<1> USE PoolFacts
<1>1. ASSUME Acquire
      PROVE  TypeOK'
  BY <1>1, LeastInPool
     DEF TypeOK, Acquire, Count, taskVars, futureVars, connVars, closeVars
<1>2. ASSUME NEW c \in Pool, Release(c)
      PROVE  TypeOK'
  <2>1. acquired[c] \in Nat /\ acquired[c] - 1 \in Nat
    BY <1>2 DEF Release, TypeOK
  <2>2. acquired' \in [Pool -> Nat]
    BY <1>2, <2>1 DEF Release, TypeOK
  <2>3. counter' \in [Pool -> Nat]
    BY <1>2, CounterTypes DEF Release
  <2> QED
    BY <1>2, <2>2, <2>3 DEF TypeOK, Release, taskVars, futureVars, connVars, closeVars
<1>3. ASSUME NEW k \in Calls, ChooseLeast(k)
      PROVE  TypeOK'
  BY <1>3, LeastInPool, CounterTypes
     DEF TypeOK, ChooseLeast, Step, futureVars, connVars, closeVars
<1>4. ASSUME NEW k \in Calls, NEW c \in Conns, ChoosePrepared(k, c)
      PROVE  TypeOK'
  BY <1>4, CounterTypes
     DEF TypeOK, ChoosePrepared, Step, futureVars, connVars, closeVars
<1>5. ASSUME NEW k \in Calls, Submit(k)
      PROVE  TypeOK'
  BY <1>5
     DEF TypeOK, Submit, Step, connVars, closeVars
<1>6. ASSUME NEW k \in Calls, SubmitRefused(k)
      PROVE  TypeOK'
  BY <1>6, CounterTypes
     DEF TypeOK, SubmitRefused, Step, futureVars, connVars, closeVars
<1>7. ASSUME NEW k \in Calls, Attach(k)
      PROVE  TypeOK'
  <2>1. counter' = counter \/ Decrement(conn[k])
    BY <1>7 DEF Attach
  <2>2. callbacks' \in {callbacks, [callbacks EXCEPT ![k] = Append(@, "release")]}
    BY <1>7 DEF Attach
  <2>3. counter' \in [Pool -> Nat]
    BY <2>1, CounterTypes DEF TypeOK
  <2>4. callbacks' \in [Calls -> Seq({"release", "post"})]
    BY <2>2, CallbackTypes
  <2> QED
    BY <1>7, <2>3, <2>4 DEF TypeOK, Attach, Step, connVars, closeVars
<1>8. ASSUME NEW k \in Calls, Wrap(k)
      PROVE  TypeOK'
  <2>1. callbacks' \in {callbacks, [callbacks EXCEPT ![k] = Append(@, "post")]}
    BY <1>8 DEF Wrap
  <2>2. callbacks' \in [Calls -> Seq({"release", "post"})]
    BY <2>1, CallbackTypes
  <2>3. posted' \in [Calls -> BOOLEAN]
    BY <1>8 DEF Wrap, TypeOK
  <2> QED
    BY <1>8, <2>2, <2>3 DEF TypeOK, Wrap, Step, connVars, closeVars
<1>9. ASSUME NEW k \in Calls, Deliver(k)
      PROVE  TypeOK'
  BY <1>9
     DEF TypeOK, Deliver, Step, futureVars, connVars, closeVars
<1>10. ASSUME NEW k \in Calls, CancelTask(k)
       PROVE  TypeOK'
  <2>1. counter' = counter \/ Decrement(conn[k])
    BY <1>10 DEF CancelTask
  <2>2. callbacks' \in {callbacks, [callbacks EXCEPT ![k] = <<>>]}
    BY <1>10 DEF CancelTask, futureVars
  <2>3. counter' \in [Pool -> Nat]
    BY <2>1, CounterTypes DEF TypeOK
  <2>4. callbacks' \in [Calls -> Seq({"release", "post"})]
    BY <2>2, CallbackTypes
  <2> QED
    BY <1>10, <2>3, <2>4 DEF TypeOK, CancelTask, Step, futureVars, connVars, closeVars
<1>11. ASSUME NEW k \in Calls, Unwind(k)
       PROVE  TypeOK'
  BY <1>11
     DEF TypeOK, Unwind, Step, InterruptCall, RaiseFlag, IsRunning, futureVars,
         connVars, closeVars
<1>12. ASSUME NEW k \in Calls, RepeatCancel(k)
       PROVE  TypeOK'
  BY <1>12
     DEF TypeOK, RepeatCancel, InterruptCall, RaiseFlag, IsRunning, futureVars,
         connVars, closeVars
<1>13. ASSUME NEW k \in Calls, Take(k)
       PROVE  TypeOK'
  BY <1>13
     DEF TypeOK, Take, Become, taskVars, connVars, closeVars
<1>14. ASSUME NEW k \in Calls, TakeCancelled(k)
       PROVE  TypeOK'
  BY <1>14
     DEF TypeOK, TakeCancelled, taskVars, futureVars, connVars, closeVars
<1>15. ASSUME NEW k \in Calls, LockConnection(k)
       PROVE  TypeOK'
  BY <1>15
     DEF TypeOK, LockConnection, Become, taskVars, futureVars, connVars, closeVars
<1>16. ASSUME NEW k \in Calls, Start(k)
       PROVE  TypeOK'
  BY <1>16
     DEF TypeOK, Start, Become, taskVars, futureVars, connVars, closeVars
<1>17. ASSUME NEW k \in Calls, SkipCancelled(k)
       PROVE  TypeOK'
  BY <1>17
     DEF TypeOK, SkipCancelled, Become, taskVars, futureVars, connVars, closeVars
<1>18. ASSUME NEW k \in Calls, EnterCall(k)
       PROVE  TypeOK'
  BY <1>18
     DEF TypeOK, EnterCall, Become, taskVars, futureVars, connVars, closeVars
<1>19. ASSUME NEW k \in Calls, RefuseCall(k)
       PROVE  TypeOK'
  BY <1>19
     DEF TypeOK, RefuseCall, Become, taskVars, futureVars, connVars, closeVars
<1>20. ASSUME NEW k \in Calls, EngineStart(k)
       PROVE  TypeOK'
  BY <1>20
     DEF TypeOK, EngineStart, Become, taskVars, futureVars, connVars, closeVars
<1>21. ASSUME NEW k \in Calls, EngineLeave(k)
       PROVE  TypeOK'
  BY <1>21
     DEF TypeOK, EngineLeave, Become, taskVars, futureVars, connVars, closeVars
<1>22. ASSUME NEW k \in Calls, Unregister(k)
       PROVE  TypeOK'
  BY <1>22
     DEF TypeOK, Unregister, Become, taskVars, futureVars, connVars, closeVars
<1>23. ASSUME NEW k \in Calls, Unlock(k)
       PROVE  TypeOK'
  BY <1>23
     DEF TypeOK, Unlock, Become, taskVars, futureVars, connVars, closeVars
<1>24. ASSUME NEW k \in Calls, SetResult(k)
       PROVE  TypeOK'
  BY <1>24
     DEF TypeOK, SetResult, Become, Callbacks, taskVars, connVars, closeVars
<1>25. ASSUME NEW k \in Calls, RunCallback(k)
       PROVE  TypeOK'
  <2>1. counter' = counter \/ Decrement(conn[k])
    BY <1>25 DEF RunCallback
  <2>2. counter' \in [Pool -> Nat]
    BY <2>1, CounterTypes DEF TypeOK
  <2>3. callbacks' \in [Calls -> Seq({"release", "post"})]
    BY <1>25, CallbackTypes DEF RunCallback
  <2> QED
    BY <1>25, <2>2, <2>3 DEF TypeOK, RunCallback, Become, Callbacks, connVars, closeVars
<1>26. ASSUME CloseStart
       PROVE  TypeOK'
  BY <1>26
     DEF TypeOK, CloseStart, Proceed, taskVars, futureVars, connVars
<1>27. ASSUME CloseBegin
       PROVE  TypeOK'
  BY <1>27
     DEF TypeOK, CloseBegin, Proceed, taskVars, futureVars
<1>28. ASSUME CloseSkip
       PROVE  TypeOK'
  BY <1>28, PoolAssumption
     DEF TypeOK, CloseSkip, taskVars, futureVars, connVars, Pool
<1>29. ASSUME CloseInterrupt
       PROVE  TypeOK'
  BY <1>29
     DEF TypeOK, CloseInterrupt, taskVars, futureVars, connVars, closeVars
<1>30. ASSUME CloseAbort
       PROVE  TypeOK'
  <2>1. at' \in 1..(PoolSize + 1)
    BY <1>30, PoolAssumption DEF CloseAbort
  <2>2. closing' \in [Conns -> BOOLEAN]
    BY <1>30 DEF CloseAbort, TypeOK
  <2> QED
    BY <1>30, <2>1, <2>2 DEF TypeOK, CloseAbort, Proceed, LeaveLoop, futureVars
<1>31. ASSUME CloseNative
       PROVE  TypeOK'
  <2>1. handle' \in [Conns -> {"live", "destroyed", "none"}]
    BY <1>31 DEF CloseNative, TypeOK
  <2>2. interruptedBy' \in [Conns -> SUBSET (Calls \cup {NULL})]
    BY <1>31 DEF CloseNative, TypeOK
  <2> QED
    BY <1>31, <2>1, <2>2, SMTT(30) DEF TypeOK, CloseNative, Proceed, taskVars, futureVars
<1>32. ASSUME CloseClear
       PROVE  TypeOK'
  <2>1. handle' \in [Conns -> {"live", "destroyed", "none"}]
    BY <1>32 DEF CloseClear, TypeOK
  <2>2. at' \in 1..(PoolSize + 1)
    BY <1>32, PoolAssumption DEF CloseClear, Proceed, Pool, CloseInOrder
  <2> QED
    BY <1>32, <2>1, <2>2, SMTT(30) DEF TypeOK, CloseClear, Proceed, taskVars, futureVars
<1>33. ASSUME ShutdownExecutor
       PROVE  TypeOK'
  BY <1>33
     DEF TypeOK, ShutdownExecutor, Proceed, taskVars, futureVars, connVars
<1>34. ASSUME JoinThreads
       PROVE  TypeOK'
  BY <1>34
     DEF TypeOK, JoinThreads, Proceed, LeaveLoop, futureVars, connVars
<1>35. CASE UNCHANGED vars
  BY <1>35 DEF TypeOK, vars, taskVars, futureVars, connVars, closeVars
<1> QED
  BY <1>1, <1>2, <1>3, <1>4, <1>5, <1>6, <1>7, <1>8, <1>9, <1>10, <1>11, <1>12, <1>13,
     <1>14, <1>15, <1>16, <1>17, <1>18, <1>19, <1>20, <1>21, <1>22, <1>23, <1>24, <1>25,
     <1>26, <1>27, <1>28, <1>29, <1>30, <1>31, <1>32, <1>33, <1>34, <1>35
     DEF Next, Slots, Task, Cancellation, Thread, Close

-----------------------------------------------------------------------------
(* Calls, their futures and the threads that run them.                     *)

\* Every step moves the task, the future and the work of each call together.
LEMMA InStepKept ==
    ASSUME TypeOK, CallsInStep, [Next]_vars, NEW j \in Calls
    PROVE  InStep(j)'
<1> USE PoolFacts
<1> InStep(j)
  BY DEF CallsInStep
<1>1. ASSUME NEW k \in Calls, ChooseLeast(k)
      PROVE  InStep(j)'
  BY <1>1, LeastInPool
     DEF InStep, BeforeSubmit, OnLoop, HasLock, TypeOK, ChooseLeast, Step, futureVars,
         connVars, closeVars
<1>2. ASSUME NEW k \in Calls, NEW c \in Conns, ChoosePrepared(k, c)
      PROVE  InStep(j)'
  BY <1>2
     DEF InStep, BeforeSubmit, OnLoop, HasLock, TypeOK, ChoosePrepared, Step,
         futureVars, connVars, closeVars
<1>3. ASSUME NEW k \in Calls, Submit(k)
      PROVE  InStep(j)'
  BY <1>3
     DEF InStep, BeforeSubmit, OnLoop, HasLock, TypeOK, Submit, Step, connVars,
         closeVars
<1>4. ASSUME NEW k \in Calls, SubmitRefused(k)
      PROVE  InStep(j)'
  BY <1>4
     DEF InStep, BeforeSubmit, OnLoop, HasLock, TypeOK, SubmitRefused, Step, futureVars,
         connVars, closeVars, CallsInStep
<1>5. ASSUME NEW k \in Calls, Attach(k)
      PROVE  InStep(j)'
  BY <1>5
     DEF InStep, BeforeSubmit, OnLoop, HasLock, TypeOK, Attach, Step, connVars,
         closeVars
<1>6. ASSUME NEW k \in Calls, Wrap(k)
      PROVE  InStep(j)'
  BY <1>6
     DEF InStep, BeforeSubmit, OnLoop, HasLock, TypeOK, Wrap, Step, connVars, closeVars,
         CallsInStep
<1>7. ASSUME NEW k \in Calls, Deliver(k)
      PROVE  InStep(j)'
  BY <1>7
     DEF InStep, BeforeSubmit, OnLoop, HasLock, TypeOK, Deliver, Step, futureVars,
         connVars, closeVars
<1>8. ASSUME NEW k \in Calls, CancelTask(k)
      PROVE  InStep(j)'
  BY <1>8
     DEF InStep, BeforeSubmit, OnLoop, HasLock, TypeOK, CancelTask, Step, futureVars,
         connVars, closeVars
<1>9. ASSUME NEW k \in Calls, Unwind(k)
      PROVE  InStep(j)'
  BY <1>9
     DEF InStep, BeforeSubmit, OnLoop, HasLock, TypeOK, Unwind, Step, InterruptCall,
         RaiseFlag, IsRunning, futureVars, connVars, closeVars
<1>10. ASSUME NEW k \in Calls, RepeatCancel(k)
       PROVE  InStep(j)'
  BY <1>10
     DEF InStep, BeforeSubmit, OnLoop, HasLock, TypeOK, RepeatCancel, InterruptCall,
         RaiseFlag, IsRunning, futureVars, connVars, closeVars
<1>11. ASSUME NEW k \in Calls, Take(k)
       PROVE  InStep(j)'
  BY <1>11
     DEF InStep, BeforeSubmit, OnLoop, HasLock, TypeOK, Take, Become, taskVars,
         connVars, closeVars
<1>12. ASSUME NEW k \in Calls, LockConnection(k)
       PROVE  InStep(j)'
  BY <1>12
     DEF InStep, BeforeSubmit, OnLoop, HasLock, TypeOK, LockConnection, Become,
         taskVars, futureVars, connVars, closeVars
<1>13. ASSUME NEW k \in Calls, Start(k)
       PROVE  InStep(j)'
  BY <1>13
     DEF InStep, BeforeSubmit, OnLoop, HasLock, TypeOK, Start, Become, taskVars,
         futureVars, connVars, closeVars
<1>14. ASSUME NEW k \in Calls, SkipCancelled(k)
       PROVE  InStep(j)'
  BY <1>14
     DEF InStep, BeforeSubmit, OnLoop, HasLock, TypeOK, SkipCancelled, Become, taskVars,
         futureVars, connVars, closeVars
<1>15. ASSUME NEW k \in Calls, EnterCall(k)
       PROVE  InStep(j)'
  BY <1>15
     DEF InStep, BeforeSubmit, OnLoop, HasLock, TypeOK, EnterCall, Become, taskVars,
         futureVars, connVars, closeVars
<1>16. ASSUME NEW k \in Calls, RefuseCall(k)
       PROVE  InStep(j)'
  BY <1>16
     DEF InStep, BeforeSubmit, OnLoop, HasLock, TypeOK, RefuseCall, Become, taskVars,
         futureVars, connVars, closeVars
<1>17. ASSUME NEW k \in Calls, EngineStart(k)
       PROVE  InStep(j)'
  BY <1>17
     DEF InStep, BeforeSubmit, OnLoop, HasLock, TypeOK, EngineStart, Become, taskVars,
         futureVars, connVars, closeVars
<1>18. ASSUME NEW k \in Calls, EngineLeave(k)
       PROVE  InStep(j)'
  BY <1>18
     DEF InStep, BeforeSubmit, OnLoop, HasLock, TypeOK, EngineLeave, Become, taskVars,
         futureVars, connVars, closeVars
<1>19. ASSUME NEW k \in Calls, Unregister(k)
       PROVE  InStep(j)'
  BY <1>19
     DEF InStep, BeforeSubmit, OnLoop, HasLock, TypeOK, Unregister, Become, taskVars,
         futureVars, connVars, closeVars
<1>20. ASSUME NEW k \in Calls, Unlock(k)
       PROVE  InStep(j)'
  BY <1>20
     DEF InStep, BeforeSubmit, OnLoop, HasLock, TypeOK, Unlock, Become, taskVars,
         futureVars, connVars, closeVars
<1>21. ASSUME NEW k \in Calls, SetResult(k)
       PROVE  InStep(j)'
  BY <1>21
     DEF InStep, BeforeSubmit, OnLoop, HasLock, TypeOK, SetResult, Become, Callbacks,
         taskVars, connVars, closeVars
<1>22. ASSUME NEW k \in Calls, RunCallback(k)
       PROVE  InStep(j)'
  BY <1>22
     DEF InStep, BeforeSubmit, OnLoop, HasLock, TypeOK, RunCallback, Become, Callbacks,
         connVars, closeVars
<1>23. CASE UNCHANGED <<loop, task, conn, posted, repeat, future, cancelled, work>>
  BY <1>23 DEF InStep
<1>24. CASE CloseStart \/ CloseAbort \/ JoinThreads
  <2>1. /\ UNCHANGED <<task, conn, posted, repeat, future, cancelled, work>>
        /\ loop' = loop \/ {loop, loop'} \subseteq {NULL, Closer}
    BY <1>24 DEF CloseStart, CloseAbort, JoinThreads, LeaveLoop, futureVars
  <2>2. j # NULL /\ j # Closer
    BY PoolAssumption
  <2>3. loop' = j <=> loop = j
    BY <2>1, <2>2
  <2> QED
    BY <2>1, <2>3 DEF InStep
<1> QED
  BY <1>1, <1>2, <1>3, <1>4, <1>5, <1>6, <1>7, <1>8, <1>9, <1>10, <1>11, <1>12, <1>13,
     <1>14, <1>15, <1>16, <1>17, <1>18, <1>19, <1>20, <1>21, <1>22, <1>23, <1>24
     DEF Next, Slots, Task, Cancellation, Thread, Close, vars, Acquire, Count, taskVars,
         futureVars, connVars, closeVars, Release, TakeCancelled, Proceed, CloseBegin,
         CloseSkip, CloseInterrupt, CloseNative, CloseClear, ShutdownExecutor

\* At most one thread has a connection's lock, and _running says what it runs.
LEMMA LocksKept ==
    ASSUME TypeOK, CallsInStep, LocksMatchWork, [Next]_vars
    PROVE  LocksMatchWork'
<1> DEFINE Match(c, j) ==
        /\ lockOf[c] = j <=> conn[j] = c /\ work[j] \in HasLock
        /\ running[c] = j <=> conn[j] = c /\ work[j] \in IsRegistered
<1> SUFFICES ASSUME NEW d \in Conns, NEW j \in Calls
             PROVE  Match(d, j)'
  BY DEF LocksMatchWork
<1> Match(d, j) /\ InStep(j)
  BY DEF LocksMatchWork, CallsInStep
<1> USE PoolFacts
<1>1. ASSUME NEW k \in Calls, ChooseLeast(k)
      PROVE  Match(d, j)'
  BY <1>1, LeastInPool
     DEF TypeOK, HasLock, IsRegistered, ChooseLeast, Step, futureVars, connVars,
         closeVars, InStep, BeforeSubmit
<1>2. ASSUME NEW k \in Calls, NEW c \in Conns, ChoosePrepared(k, c)
      PROVE  Match(d, j)'
  BY <1>2
     DEF TypeOK, HasLock, IsRegistered, ChoosePrepared, Step, futureVars, connVars,
         closeVars, InStep, BeforeSubmit
<1>3. ASSUME NEW k \in Calls, Submit(k)
      PROVE  Match(d, j)'
  BY <1>3
     DEF TypeOK, HasLock, IsRegistered, Submit, Step, connVars, closeVars, InStep,
         BeforeSubmit
<1>4. ASSUME NEW k \in Calls, CancelTask(k)
      PROVE  Match(d, j)'
  BY <1>4
     DEF TypeOK, HasLock, IsRegistered, CancelTask, Step, futureVars, connVars,
         closeVars, InStep
<1>5. ASSUME NEW k \in Calls, Take(k)
      PROVE  Match(d, j)'
  BY <1>5
     DEF TypeOK, HasLock, IsRegistered, Take, Become, taskVars, connVars, closeVars
<1>6. ASSUME NEW k \in Calls, LockConnection(k)
      PROVE  Match(d, j)'
  BY <1>6
     DEF TypeOK, HasLock, IsRegistered, LockConnection, Become, taskVars, futureVars,
         connVars, closeVars
<1>7. ASSUME NEW k \in Calls, Start(k)
      PROVE  Match(d, j)'
  BY <1>7
     DEF TypeOK, HasLock, IsRegistered, Start, Become, taskVars, futureVars, connVars,
         closeVars, LocksMatchWork
<1>8. ASSUME NEW k \in Calls, SkipCancelled(k)
      PROVE  Match(d, j)'
  BY <1>8
     DEF TypeOK, HasLock, IsRegistered, SkipCancelled, Become, taskVars, futureVars,
         connVars, closeVars
<1>9. ASSUME NEW k \in Calls, EnterCall(k)
      PROVE  Match(d, j)'
  BY <1>9
     DEF TypeOK, HasLock, IsRegistered, EnterCall, Become, taskVars, futureVars,
         connVars, closeVars
<1>10. ASSUME NEW k \in Calls, RefuseCall(k)
       PROVE  Match(d, j)'
  BY <1>10
     DEF TypeOK, HasLock, IsRegistered, RefuseCall, Become, taskVars, futureVars,
         connVars, closeVars
<1>11. ASSUME NEW k \in Calls, EngineStart(k)
       PROVE  Match(d, j)'
  BY <1>11
     DEF TypeOK, HasLock, IsRegistered, EngineStart, Become, taskVars, futureVars,
         connVars, closeVars
<1>12. ASSUME NEW k \in Calls, EngineLeave(k)
       PROVE  Match(d, j)'
  BY <1>12
     DEF TypeOK, HasLock, IsRegistered, EngineLeave, Become, taskVars, futureVars,
         connVars, closeVars
<1>13. ASSUME NEW k \in Calls, Unregister(k)
       PROVE  Match(d, j)'
  BY <1>13
     DEF TypeOK, HasLock, IsRegistered, Unregister, Become, taskVars, futureVars,
         connVars, closeVars, LocksMatchWork
<1>14. ASSUME NEW k \in Calls, Unlock(k)
       PROVE  Match(d, j)'
  BY <1>14
     DEF TypeOK, HasLock, IsRegistered, Unlock, Become, taskVars, futureVars, connVars,
         closeVars, LocksMatchWork
<1>15. ASSUME NEW k \in Calls, SetResult(k)
       PROVE  Match(d, j)'
  BY <1>15
     DEF TypeOK, HasLock, IsRegistered, SetResult, Become, Callbacks, taskVars,
         connVars, closeVars
<1>16. ASSUME NEW k \in Calls, RunCallback(k)
       PROVE  Match(d, j)'
  BY <1>16
     DEF TypeOK, HasLock, IsRegistered, RunCallback, Become, Callbacks, connVars,
         closeVars
<1>17. CASE UNCHANGED <<lockOf, running, conn, work>>
  BY <1>17
<1> QED
  BY <1>1, <1>2, <1>3, <1>4, <1>5, <1>6, <1>7, <1>8, <1>9, <1>10, <1>11, <1>12, <1>13,
     <1>14, <1>15, <1>16, <1>17
     DEF Next, Slots, Task, Cancellation, Thread, Close, vars, Acquire, Count, taskVars,
         futureVars, connVars, closeVars, Release, SubmitRefused, Step, Attach, Wrap,
         Deliver, Unwind, InterruptCall, RaiseFlag, IsRunning, RepeatCancel,
         TakeCancelled, CloseStart, Proceed, CloseBegin, CloseSkip, CloseInterrupt,
         CloseAbort, CloseNative, CloseClear, ShutdownExecutor, JoinThreads

\* close() takes the connections one after the other.
LEMMA CloseOrderKept ==
    ASSUME TypeOK, CloseInOrder, [Next]_vars
    PROVE  CloseInOrder'
<1> USE PoolFacts, PoolAssumption DEF Pool
<1>1. ASSUME CloseStart
      PROVE  CloseInOrder'
  BY <1>1
     DEF TypeOK, CloseInOrder, CloseStart, Proceed, taskVars, futureVars, connVars
<1>2. ASSUME CloseBegin
      PROVE  CloseInOrder'
  BY <1>2
     DEF TypeOK, CloseInOrder, CloseBegin, Proceed, taskVars, futureVars
<1>3. ASSUME CloseSkip
      PROVE  CloseInOrder'
  BY <1>3
     DEF TypeOK, CloseInOrder, CloseSkip, taskVars, futureVars, connVars
<1>4. ASSUME CloseAbort
      PROVE  CloseInOrder'
  BY <1>4
     DEF TypeOK, CloseInOrder, CloseAbort, Proceed, taskVars, futureVars
<1>5. ASSUME CloseNative
      PROVE  CloseInOrder'
  BY <1>5
     DEF TypeOK, CloseInOrder, CloseNative, Proceed, taskVars, futureVars
<1>6. ASSUME CloseClear
      PROVE  CloseInOrder'
  <2>1. /\ closer = "clear" /\ closer' = "begin" /\ at \in 1..PoolSize
        /\ handle' = [handle EXCEPT ![at] = "none"]
        /\ closing' = closing /\ at' = at + 1
    BY <1>6 DEF CloseClear, Proceed, CloseInOrder
  <2>2. \A c \in 1..PoolSize : c < at' => c < at \/ c = at
    BY <2>1
  <2>3. handle \in [Conns -> {"live", "destroyed", "none"}]
    BY DEF TypeOK
  <2> QED
    BY <2>1, <2>2, <2>3 DEF CloseInOrder
<1>7. ASSUME ShutdownExecutor
      PROVE  CloseInOrder'
  BY <1>7
     DEF TypeOK, CloseInOrder, ShutdownExecutor, Proceed, taskVars, futureVars, connVars
<1>8. ASSUME JoinThreads
      PROVE  CloseInOrder'
  BY <1>8
     DEF TypeOK, CloseInOrder, JoinThreads, Proceed, taskVars, futureVars, connVars
<1>9. CASE UNCHANGED <<closer, at, handle, closing>>
  BY <1>9 DEF CloseInOrder
<1> QED
  BY <1>1, <1>2, <1>3, <1>4, <1>5, <1>6, <1>7, <1>8, <1>9
     DEF Next, Slots, Task, Cancellation, Thread, Close, vars, Acquire, Count, taskVars,
         futureVars, connVars, closeVars, Release, ChooseLeast, Step, ChoosePrepared,
         Submit, SubmitRefused, Attach, Wrap, Deliver, CancelTask, Unwind,
         InterruptCall, RaiseFlag, IsRunning, RepeatCancel, Take, Become, TakeCancelled,
         LockConnection, Start, SkipCancelled, EnterCall, RefuseCall, EngineStart,
         EngineLeave, Unregister, Unlock, SetResult, Callbacks, RunCallback,
         CloseInterrupt

\* Once close() is done, no thread and no queued call is left.
LEMMA DoneKept ==
    ASSUME TypeOK, CallsInStep, DoneIsOver, [Next]_vars
    PROVE  DoneIsOver'
<1>1. ASSUME NEW k \in Calls, Submit(k)
      PROVE  DoneIsOver'
  BY <1>1
     DEF TypeOK, DoneIsOver, Submit, Step, connVars, closeVars, Shutdown
<1>2. ASSUME NEW k \in Calls, CancelTask(k)
      PROVE  DoneIsOver'
  BY <1>2
     DEF TypeOK, DoneIsOver, CancelTask, Step, futureVars, connVars, closeVars
<1>3. ASSUME NEW k \in Calls, Take(k)
      PROVE  DoneIsOver'
  BY <1>3
     DEF TypeOK, DoneIsOver, Take, Become, taskVars, connVars, closeVars
<1>4. ASSUME NEW k \in Calls, TakeCancelled(k)
      PROVE  DoneIsOver'
  BY <1>4
     DEF TypeOK, DoneIsOver, TakeCancelled, taskVars, futureVars, connVars, closeVars
<1>5. ASSUME NEW k \in Calls, SetResult(k)
      PROVE  DoneIsOver'
  BY <1>5
     DEF TypeOK, DoneIsOver, SetResult, Become, Callbacks, taskVars, connVars, closeVars
<1>6. ASSUME CloseStart
      PROVE  DoneIsOver'
  BY <1>6
     DEF TypeOK, DoneIsOver, CloseStart, Proceed, taskVars, futureVars, connVars
<1>7. ASSUME CloseBegin
      PROVE  DoneIsOver'
  BY <1>7
     DEF TypeOK, DoneIsOver, CloseBegin, Proceed, taskVars, futureVars
<1>8. ASSUME CloseAbort
      PROVE  DoneIsOver'
  BY <1>8
     DEF TypeOK, DoneIsOver, CloseAbort, Proceed, taskVars, futureVars
<1>9. ASSUME CloseNative
      PROVE  DoneIsOver'
  BY <1>9
     DEF TypeOK, DoneIsOver, CloseNative, Proceed, taskVars, futureVars
<1>10. ASSUME CloseClear
       PROVE  DoneIsOver'
  BY <1>10
     DEF TypeOK, DoneIsOver, CloseClear, Proceed, taskVars, futureVars
<1>11. ASSUME ShutdownExecutor
       PROVE  DoneIsOver'
  BY <1>11
     DEF TypeOK, DoneIsOver, ShutdownExecutor, Proceed, taskVars, futureVars, connVars
<1>12. ASSUME JoinThreads
       PROVE  DoneIsOver'
  BY <1>12
     DEF TypeOK, DoneIsOver, JoinThreads, Proceed, taskVars, futureVars, connVars,
         OnThread, CallsInStep, InStep, HasLock
<1>13. CASE UNCHANGED <<closer, queue, future>>
  BY <1>13 DEF DoneIsOver
<1> QED
  BY <1>1, <1>2, <1>3, <1>4, <1>5, <1>6, <1>7, <1>8, <1>9, <1>10, <1>11, <1>12, <1>13
     DEF Next, Slots, Task, Cancellation, Thread, Close, vars, Acquire, Count, taskVars,
         futureVars, connVars, closeVars, Release, ChooseLeast, Step, ChoosePrepared,
         SubmitRefused, Attach, Wrap, Deliver, Unwind, InterruptCall, RaiseFlag,
         IsRunning, RepeatCancel, LockConnection, Become, Start, SkipCancelled,
         EnterCall, RefuseCall, EngineStart, EngineLeave, Unregister, Unlock,
         RunCallback, Callbacks, CloseSkip, CloseInterrupt

\* The flag of an execution was raised for it alone, or by close().
LEMMA FlagsKept ==
    ASSUME TypeOK, CloseInOrder, CallsInStep, LocksMatchWork, FlagsMatchCalls,
           [Next]_vars
    PROVE  FlagsMatchCalls'
<1> DEFINE Own(j) == work[j] = "execute" => interruptedBy[conn[j]] \subseteq {j, NULL}
           Asked(d, j) == j \in interruptedBy[d] => cancelled[j]
<1> interruptedBy' \in [Conns -> SUBSET (Calls \cup {NULL})]
  BY TypingStep DEF TypeOK
<1> SUFFICES ASSUME NEW d \in Conns, NEW j \in Calls
             PROVE  Own(j)' /\ Asked(d, j)'
  <2>1. ASSUME NEW c \in Conns, NEW k \in interruptedBy'[c] \ {NULL}
        PROVE  k \in Calls
    OBVIOUS
  <2>2. 1 \in Conns
    BY PoolAssumption DEF Conns
  <2> QED
    BY <2>1, <2>2 DEF FlagsMatchCalls
<1> Own(j) /\ Asked(d, j) /\ InStep(j)
  BY PoolFacts DEF FlagsMatchCalls, CallsInStep
<1>0. /\ conn[j] \in Conns \cup {NULL} /\ (conn[j] = NULL <=> task[j] = "new")
      /\ work[j] = "execute" => conn[j] \in Conns /\ running[conn[j]] = j
  BY DEF TypeOK, InStep, LocksMatchWork, IsRegistered, HasLock, BeforeSubmit
<1> USE PoolFacts
<1>1. ASSUME NEW k \in Calls, ChooseLeast(k)
      PROVE  Own(j)' /\ Asked(d, j)'
  BY <1>1, <1>0
     DEF TypeOK, ChooseLeast, Step, futureVars, connVars, closeVars, InStep,
         BeforeSubmit
<1>2. ASSUME NEW k \in Calls, NEW c \in Conns, ChoosePrepared(k, c)
      PROVE  Own(j)' /\ Asked(d, j)'
  BY <1>2, <1>0
     DEF TypeOK, ChoosePrepared, Step, futureVars, connVars, closeVars, InStep,
         BeforeSubmit
<1>3. ASSUME NEW k \in Calls, Submit(k)
      PROVE  Own(j)' /\ Asked(d, j)'
  BY <1>3
     DEF TypeOK, Submit, Step, connVars, closeVars
<1>4. ASSUME NEW k \in Calls, CancelTask(k)
      PROVE  Own(j)' /\ Asked(d, j)'
  BY <1>4
     DEF TypeOK, CancelTask, Step, futureVars, connVars, closeVars
<1>5. ASSUME NEW k \in Calls, Unwind(k)
      PROVE  Own(j)' /\ Asked(d, j)'
  BY <1>5, <1>0
     DEF TypeOK, Unwind, Step, InterruptCall, RaiseFlag, IsRunning, futureVars,
         connVars, closeVars
<1>6. ASSUME NEW k \in Calls, RepeatCancel(k)
      PROVE  Own(j)' /\ Asked(d, j)'
  BY <1>6, <1>0
     DEF TypeOK, RepeatCancel, InterruptCall, RaiseFlag, IsRunning, futureVars,
         connVars, closeVars
<1>7. ASSUME NEW k \in Calls, Take(k)
      PROVE  Own(j)' /\ Asked(d, j)'
  BY <1>7
     DEF TypeOK, Take, Become, taskVars, connVars, closeVars
<1>8. ASSUME NEW k \in Calls, LockConnection(k)
      PROVE  Own(j)' /\ Asked(d, j)'
  BY <1>8
     DEF TypeOK, LockConnection, Become, taskVars, futureVars, connVars, closeVars
<1>9. ASSUME NEW k \in Calls, Start(k)
      PROVE  Own(j)' /\ Asked(d, j)'
  BY <1>9
     DEF TypeOK, Start, Become, taskVars, futureVars, connVars, closeVars
<1>10. ASSUME NEW k \in Calls, SkipCancelled(k)
       PROVE  Own(j)' /\ Asked(d, j)'
  BY <1>10
     DEF TypeOK, SkipCancelled, Become, taskVars, futureVars, connVars, closeVars
<1>11. ASSUME NEW k \in Calls, EnterCall(k)
       PROVE  Own(j)' /\ Asked(d, j)'
  BY <1>11
     DEF TypeOK, EnterCall, Become, taskVars, futureVars, connVars, closeVars
<1>12. ASSUME NEW k \in Calls, RefuseCall(k)
       PROVE  Own(j)' /\ Asked(d, j)'
  BY <1>12
     DEF TypeOK, RefuseCall, Become, taskVars, futureVars, connVars, closeVars
<1>13. ASSUME NEW k \in Calls, EngineStart(k)
       PROVE  Own(j)' /\ Asked(d, j)'
  <2>0. work[k] = "compile" /\ InStep(k)
    BY <1>13 DEF EngineStart, Become, CallsInStep
  <2>1. conn[k] \in Conns /\ running[conn[k]] = k
    <3>1. conn[k] \in Conns
      BY <2>0 DEF TypeOK, InStep, BeforeSubmit, HasLock
    <3> QED
      BY <2>0, <3>1 DEF LocksMatchWork, IsRegistered
  <2>2. interruptedBy' = [interruptedBy EXCEPT ![conn[k]] = {}]
    BY <1>13 DEF EngineStart
  <2>3. Asked(d, j)'
    BY <1>13, <2>2 DEF EngineStart, TypeOK
  <2>4. Own(j)'
    BY <1>13, <1>0, <2>1, <2>2 DEF EngineStart, Become, TypeOK, taskVars
  <2> QED
    BY <2>3, <2>4
<1>14. ASSUME NEW k \in Calls, EngineLeave(k)
       PROVE  Own(j)' /\ Asked(d, j)'
  BY <1>14
     DEF TypeOK, EngineLeave, Become, taskVars, futureVars, connVars, closeVars
<1>15. ASSUME NEW k \in Calls, Unregister(k)
       PROVE  Own(j)' /\ Asked(d, j)'
  BY <1>15
     DEF TypeOK, Unregister, Become, taskVars, futureVars, connVars, closeVars
<1>16. ASSUME NEW k \in Calls, Unlock(k)
       PROVE  Own(j)' /\ Asked(d, j)'
  BY <1>16
     DEF TypeOK, Unlock, Become, taskVars, futureVars, connVars, closeVars
<1>17. ASSUME NEW k \in Calls, SetResult(k)
       PROVE  Own(j)' /\ Asked(d, j)'
  BY <1>17
     DEF TypeOK, SetResult, Become, Callbacks, taskVars, connVars, closeVars
<1>18. ASSUME NEW k \in Calls, RunCallback(k)
       PROVE  Own(j)' /\ Asked(d, j)'
  BY <1>18
     DEF TypeOK, RunCallback, Become, Callbacks, connVars, closeVars
<1>19. ASSUME CloseInterrupt
       PROVE  Own(j)' /\ Asked(d, j)'
  BY <1>19, <1>0
     DEF TypeOK, CloseInterrupt, taskVars, futureVars, connVars, closeVars
<1>20. ASSUME CloseNative
       PROVE  Own(j)' /\ Asked(d, j)'
  BY <1>20, <1>0
     DEF TypeOK, CloseNative, Proceed, taskVars, futureVars
<1>21. CASE UNCHANGED <<interruptedBy, cancelled, conn, work>>
  BY <1>21
<1> QED
  BY <1>1, <1>2, <1>3, <1>4, <1>5, <1>6, <1>7, <1>8, <1>9, <1>10, <1>11, <1>12, <1>13,
     <1>14, <1>15, <1>16, <1>17, <1>18, <1>19, <1>20, <1>21
     DEF Next, Slots, Task, Cancellation, Thread, Close, vars, Acquire, Count, taskVars,
         futureVars, connVars, closeVars, Release, SubmitRefused, Step, Attach, Wrap,
         Deliver, TakeCancelled, CloseStart, Proceed, CloseBegin, CloseSkip, CloseAbort,
         CloseClear, ShutdownExecutor, JoinThreads

\* A call is queued once, until a thread takes it or finds it cancelled.
LEMMA QueueKept ==
    ASSUME TypeOK, CallsInStep, QueueIsPending, [Next]_vars
    PROVE  QueueIsPending'
<1> queue \in Seq(Calls) /\ Len(queue) \in Nat
  BY DEF TypeOK
<1> USE PoolFacts
<1>1. ASSUME NEW k \in Calls, Submit(k)
      PROVE  QueueIsPending'
  <2>1. /\ queue' = Append(queue, k)
        /\ future' = [future EXCEPT ![k] = "pending"]
        /\ future[k] = "none"
    BY <1>1 DEF Submit, Step, CallsInStep, InStep, BeforeSubmit
  <2>2. /\ Len(queue') = Len(queue) + 1
        /\ queue'[Len(queue) + 1] = k
        /\ \A i \in 1..Len(queue) : queue'[i] = queue[i] /\ queue[i] \in Calls \ {k}
    BY <2>1, AppendProperties DEF QueueIsPending
  <2> QED
    BY <2>1, <2>2 DEF QueueIsPending, TypeOK
<1>2. ASSUME NEW k \in Calls, CancelTask(k)
      PROVE  QueueIsPending'
  <2>1. queue' = queue
    BY <1>2 DEF CancelTask
  <2>2. \A j \in Calls :
            future'[j] = future[j] \/ (future[j] = "pending" /\ future'[j] = "cancelled")
    BY <1>2 DEF CancelTask, futureVars, TypeOK
  <2>3. \A i \in 1..Len(queue) : queue[i] \in Calls
    BY ElementOfSeq
  <2> QED
    BY <2>1, <2>2, <2>3 DEF QueueIsPending
<1>3. ASSUME NEW k \in Calls, Take(k)
      PROVE  QueueIsPending'
  <2>1. /\ queue' = Tail(queue) /\ queue # <<>>
        /\ future' = [future EXCEPT ![k] = "running"]
    BY <1>3 DEF Take
  <2>2. queue[1] = k
    BY <1>3 DEF Take
  <2>3. /\ Len(queue') = Len(queue) - 1
        /\ \A i \in 1..Len(queue') : queue'[i] = queue[i + 1]
    BY <2>1, HeadTailProperties
  <2>4. \A i \in 1..Len(queue') : queue'[i] # k
    BY <2>2, <2>3 DEF QueueIsPending
  <2>5. ASSUME NEW j \in Calls, future'[j] = "pending"
        PROVE  \E i \in 1..Len(queue') : queue'[i] = j
    <3>1. j # k /\ future[j] = "pending"
      BY <2>1, <2>5 DEF TypeOK
    <3>2. PICK i \in 1..Len(queue) : queue[i] = j
      BY <3>1 DEF QueueIsPending
    <3>3. i - 1 \in 1..Len(queue') /\ queue'[i - 1] = j
      BY <2>2, <2>3, <3>1, <3>2
    <3> QED
      BY <3>3
  <2>6. \A i \in 1..Len(queue') :
            queue'[i] \in Calls /\ future'[queue'[i]] \in {"pending", "cancelled"}
    BY <2>1, <2>3, <2>4 DEF QueueIsPending, TypeOK
  <2>7. \A i, j \in 1..Len(queue') : queue'[i] = queue'[j] => i = j
    BY <2>3 DEF QueueIsPending
  <2> QED
    BY <2>5, <2>6, <2>7 DEF QueueIsPending
<1>4. ASSUME NEW k \in Calls, TakeCancelled(k)
      PROVE  QueueIsPending'
  <2>1. queue' = Tail(queue) /\ queue # <<>> /\ future' = future
    BY <1>4 DEF TakeCancelled, futureVars
  <2>2. queue[1] = k /\ future[k] = "cancelled"
    BY <1>4 DEF TakeCancelled
  <2>3. /\ Len(queue') = Len(queue) - 1
        /\ \A i \in 1..Len(queue') : queue'[i] = queue[i + 1]
    BY <2>1, HeadTailProperties
  <2>4. ASSUME NEW j \in Calls, future'[j] = "pending"
        PROVE  \E i \in 1..Len(queue') : queue'[i] = j
    <3>1. PICK i \in 1..Len(queue) : queue[i] = j
      BY <2>1, <2>4 DEF QueueIsPending
    <3>2. i # 1
      BY <2>1, <2>2, <2>4, <3>1
    <3>3. i - 1 \in 1..Len(queue') /\ queue'[i - 1] = j
      BY <2>3, <3>1, <3>2
    <3> QED
      BY <3>3
  <2>5. \A i \in 1..Len(queue') : future'[queue'[i]] \in {"pending", "cancelled"}
    BY <2>1, <2>3 DEF QueueIsPending
  <2>6. \A i, j \in 1..Len(queue') : queue'[i] = queue'[j] => i = j
    BY <2>3 DEF QueueIsPending
  <2> QED
    BY <2>4, <2>5, <2>6 DEF QueueIsPending
<1>5. ASSUME NEW k \in Calls, SetResult(k)
      PROVE  QueueIsPending'
  BY <1>5
     DEF TypeOK, QueueIsPending, SetResult, Become, Callbacks, taskVars, connVars,
         closeVars, CallsInStep, InStep
<1>6. CASE UNCHANGED <<queue, future>>
  BY <1>6 DEF QueueIsPending
<1> QED
  BY <1>1, <1>2, <1>3, <1>4, <1>5, <1>6
     DEF Next, Slots, Task, Cancellation, Thread, Close, vars, Acquire, Count, taskVars,
         futureVars, connVars, closeVars, Release, ChooseLeast, Step, ChoosePrepared,
         SubmitRefused, Attach, Wrap, Deliver, Unwind, InterruptCall, RaiseFlag,
         IsRunning, RepeatCancel, LockConnection, Become, Start, SkipCancelled,
         EnterCall, RefuseCall, EngineStart, EngineLeave, Unregister, Unlock,
         RunCallback, Callbacks, CloseStart, Proceed, CloseBegin, CloseSkip,
         CloseInterrupt, CloseAbort, CloseNative, CloseClear, ShutdownExecutor,
         JoinThreads

\* What is left of a sequence of one.
LEMMA TailOfOne ==
    ASSUME NEW x
    PROVE  Tail(<<x>>) = <<>>
<1>1. <<x>> \in Seq({x}) /\ <<x>> # <<>> /\ Len(<<x>>) = 1
  OBVIOUS
<1>2. Tail(<<x>>) \in Seq({x}) /\ Len(Tail(<<x>>)) = 0
  BY <1>1, HeadTailProperties
<1> QED
  BY <1>2, EmptySeq

\* What a second one makes of a sequence of one.
LEMMA AppendToOne ==
    ASSUME NEW x, NEW y
    PROVE  Append(<<x>>, y) = <<x, y>>
<1> DEFINE S == {x, y}
<1>1. <<x>> \in Seq(S) /\ <<x, y>> \in Seq(S) /\ Len(<<x>>) = 1 /\ Len(<<x, y>>) = 2
  OBVIOUS
<1>2. /\ Append(<<x>>, y) \in Seq(S)
      /\ Len(Append(<<x>>, y)) = 2
      /\ Append(<<x>>, y)[1] = x /\ Append(<<x>>, y)[2] = y
  BY <1>1, AppendProperties
<1>3. \A i \in 1..2 : Append(<<x>>, y)[i] = <<x, y>>[i]
  BY <1>2
<1> QED
  BY <1>1, <1>2, <1>3, SeqEqual

\* What registering a callback makes of the callbacks, and what running one leaves.
LEMMA CallbackSequences ==
    /\ Append(<<>>, "release") = <<"release">>
    /\ Append(<<>>, "post") = <<"post">>
    /\ Append(<<"release">>, "post") = <<"release", "post">>
    /\ Tail(<<"release">>) = <<>> /\ Head(<<"release">>) = "release"
    /\ Tail(<<"post">>) = <<>> /\ Head(<<"post">>) = "post"
    /\ Tail(<<"release", "post">>) = <<"post">>
    /\ Head(<<"release", "post">>) = "release"
    /\ <<>> # <<"release">> /\ <<>> # <<"post">> /\ <<>> # <<"release", "post">>
    /\ <<"release">> # <<"post">> /\ <<"release", "post">> # <<"post">>
    /\ <<"release">> # <<"release", "post">>
<1>1. Tail(<<"release">>) = <<>> /\ Tail(<<"post">>) = <<>>
  BY TailOfOne
<1>2. Append(<<>>, "release") = <<"release">> /\ Append(<<>>, "post") = <<"post">>
  OBVIOUS
<1>3. Append(<<"release">>, "post") = <<"release", "post">>
  BY AppendToOne
<1>4. /\ Tail(<<"release", "post">>) = <<"post">>
      /\ Head(<<"release">>) = "release"
      /\ Head(<<"post">>) = "post"
      /\ Head(<<"release", "post">>) = "release"
  OBVIOUS
<1>5. /\ <<>> # <<"release">> /\ <<>> # <<"post">> /\ <<>> # <<"release", "post">>
      /\ <<"release">> # <<"post">> /\ <<"release", "post">> # <<"post">>
      /\ <<"release">> # <<"release", "post">>
  OBVIOUS
<1> QED
  BY <1>1, <1>2, <1>3, <1>4, <1>5

\* Every step keeps the callbacks in the order in which __submit registers them.
LEMMA CallbacksKept ==
    ASSUME TypeOK, CallsInStep, CallbacksInOrder, [Next]_vars
    PROVE  CallbacksInOrder'
<1> SUFFICES ASSUME NEW j \in Calls
             PROVE  CallbacksOf(j)'
  BY DEF CallbacksInOrder
<1> CallbacksOf(j) /\ InStep(j)
  BY DEF CallbacksInOrder, CallsInStep
<1> callbacks \in [Calls -> Seq({"release", "post"})]
  BY DEF TypeOK
<1> USE PoolFacts, CallbackSequences
<1>1. ASSUME NEW k \in Calls, ChooseLeast(k)
      PROVE  CallbacksOf(j)'
  BY <1>1, LeastInPool
     DEF TypeOK, CallbacksOf, InStep, BeforeSubmit, OnLoop, HasLock, Unfinished,
         ChooseLeast, Step, futureVars, connVars, closeVars
<1>2. ASSUME NEW k \in Calls, NEW c \in Conns, ChoosePrepared(k, c)
      PROVE  CallbacksOf(j)'
  BY <1>2
     DEF TypeOK, CallbacksOf, InStep, BeforeSubmit, OnLoop, HasLock, Unfinished,
         ChoosePrepared, Step, futureVars, connVars, closeVars
<1>3. ASSUME NEW k \in Calls, Submit(k)
      PROVE  CallbacksOf(j)'
  BY <1>3
     DEF TypeOK, CallbacksOf, InStep, BeforeSubmit, OnLoop, HasLock, Unfinished, Submit,
         Step, connVars, closeVars
<1>4. ASSUME NEW k \in Calls, SubmitRefused(k)
      PROVE  CallbacksOf(j)'
  BY <1>4
     DEF TypeOK, CallbacksOf, InStep, BeforeSubmit, OnLoop, HasLock, Unfinished,
         SubmitRefused, Step, futureVars, connVars, closeVars
<1>5. ASSUME NEW k \in Calls, Attach(k)
      PROVE  CallbacksOf(j)'
  <2>1. CASE j # k
    BY <1>5, <2>1, SMTT(30) DEF TypeOK, CallbacksOf, Unfinished, Attach, Step
  <2>2. CASE j = k /\ (conn[k] \notin Pool \/ future[k] = "finished")
    <3>1. /\ callbacks' = callbacks /\ future' = future /\ conn' = conn /\ work' = work
          /\ task[k] = "attach" /\ task'[k] = "wrap"
      BY <1>5, <2>2 DEF Attach, Step, TypeOK
    <3>2. callbacks[k] = <<>> /\ future[k] \in {"none", "pending", "running", "finished", "cancelled"}
      BY <2>2, <3>1 DEF CallbacksOf, TypeOK
    <3>3. future[k] = "finished" => ~Unfinished(k) /\ work[k] # "callbacks"
      BY <2>2, <3>1, <3>2 DEF TypeOK, InStep, HasLock, BeforeSubmit, Unfinished, CallbacksOf
    <3> QED
      BY <2>2, <3>1, <3>2, <3>3 DEF CallbacksOf, Unfinished, OnLoop
  <2>3. CASE j = k /\ conn[k] \in Pool /\ future[k] # "finished"
    <3>1. /\ callbacks'[k] = Append(callbacks[k], "release")
          /\ future' = future /\ conn' = conn /\ work' = work
          /\ task[k] = "attach" /\ task'[k] = "wrap"
      BY <1>5, <2>3 DEF Attach, Step, TypeOK
    <3>2. Unfinished(k) /\ future[k] \notin {"none", "cancelled"} /\ work[k] \notin {"done", "callbacks"}
      BY <2>3, <3>1 DEF TypeOK, InStep, HasLock, BeforeSubmit, Unfinished
    <3>3. callbacks'[k] = <<"release">>
      BY <2>3, <3>1 DEF CallbacksOf
    <3> QED
      BY <2>3, <3>1, <3>2, <3>3 DEF CallbacksOf, Unfinished, OnLoop
  <2> QED
    BY <2>1, <2>2, <2>3
<1>6. ASSUME NEW k \in Calls, Wrap(k)
      PROVE  CallbacksOf(j)'
  <2>1. CASE j # k
    BY <1>6, <2>1, SMTT(30) DEF TypeOK, CallbacksOf, Unfinished, Wrap, Step
  <2>2. CASE j = k /\ future[k] = "finished"
    <3>1. /\ callbacks' = callbacks /\ future' = future /\ conn' = conn /\ work' = work
          /\ task[k] = "wrap" /\ task'[k] = "await"
      BY <1>6, <2>2 DEF Wrap, Step, TypeOK
    <3>2. ~Unfinished(k)
      BY <2>2 DEF TypeOK, InStep, HasLock, Unfinished
    <3> QED
      BY <2>2, <3>1, <3>2 DEF CallbacksOf, Unfinished, OnLoop
  <2>3. CASE j = k /\ future[k] # "finished"
    <3>1. /\ callbacks'[k] = Append(callbacks[k], "post")
          /\ future' = future /\ conn' = conn /\ work' = work
          /\ task[k] = "wrap" /\ task'[k] = "await"
      BY <1>6, <2>3 DEF Wrap, Step, TypeOK
    <3>2. Unfinished(k) /\ future[k] \notin {"none", "cancelled"} /\ work[k] \notin {"done", "callbacks"}
      BY <2>3, <3>1 DEF TypeOK, InStep, HasLock, BeforeSubmit, Unfinished
    <3> QED
      BY <2>3, <3>1, <3>2 DEF CallbacksOf, Unfinished, OnLoop
  <2> QED
    BY <2>1, <2>2, <2>3
<1>7. ASSUME NEW k \in Calls, Deliver(k)
      PROVE  CallbacksOf(j)'
  BY <1>7
     DEF TypeOK, CallbacksOf, InStep, BeforeSubmit, OnLoop, HasLock, Unfinished,
         Deliver, Step, futureVars, connVars, closeVars
<1>8. ASSUME NEW k \in Calls, CancelTask(k)
      PROVE  CallbacksOf(j)'
  BY <1>8
     DEF TypeOK, CallbacksOf, InStep, BeforeSubmit, OnLoop, HasLock, Unfinished,
         CancelTask, Step, futureVars, connVars, closeVars
<1>9. ASSUME NEW k \in Calls, Unwind(k)
      PROVE  CallbacksOf(j)'
  BY <1>9
     DEF TypeOK, CallbacksOf, InStep, BeforeSubmit, OnLoop, HasLock, Unfinished, Unwind,
         Step, InterruptCall, RaiseFlag, IsRunning, futureVars, connVars, closeVars
<1>10. ASSUME NEW k \in Calls, Take(k)
       PROVE  CallbacksOf(j)'
  BY <1>10
     DEF TypeOK, CallbacksOf, InStep, BeforeSubmit, OnLoop, HasLock, Unfinished, Take,
         Become, taskVars, connVars, closeVars
<1>11. ASSUME NEW k \in Calls, LockConnection(k)
       PROVE  CallbacksOf(j)'
  BY <1>11
     DEF TypeOK, CallbacksOf, InStep, BeforeSubmit, OnLoop, HasLock, Unfinished,
         LockConnection, Become, taskVars, futureVars, connVars, closeVars
<1>12. ASSUME NEW k \in Calls, Start(k)
       PROVE  CallbacksOf(j)'
  BY <1>12
     DEF TypeOK, CallbacksOf, InStep, BeforeSubmit, OnLoop, HasLock, Unfinished, Start,
         Become, taskVars, futureVars, connVars, closeVars
<1>13. ASSUME NEW k \in Calls, SkipCancelled(k)
       PROVE  CallbacksOf(j)'
  BY <1>13
     DEF TypeOK, CallbacksOf, InStep, BeforeSubmit, OnLoop, HasLock, Unfinished,
         SkipCancelled, Become, taskVars, futureVars, connVars, closeVars
<1>14. ASSUME NEW k \in Calls, EnterCall(k)
       PROVE  CallbacksOf(j)'
  BY <1>14
     DEF TypeOK, CallbacksOf, InStep, BeforeSubmit, OnLoop, HasLock, Unfinished,
         EnterCall, Become, taskVars, futureVars, connVars, closeVars
<1>15. ASSUME NEW k \in Calls, RefuseCall(k)
       PROVE  CallbacksOf(j)'
  BY <1>15
     DEF TypeOK, CallbacksOf, InStep, BeforeSubmit, OnLoop, HasLock, Unfinished,
         RefuseCall, Become, taskVars, futureVars, connVars, closeVars
<1>16. ASSUME NEW k \in Calls, EngineStart(k)
       PROVE  CallbacksOf(j)'
  BY <1>16
     DEF TypeOK, CallbacksOf, InStep, BeforeSubmit, OnLoop, HasLock, Unfinished,
         EngineStart, Become, taskVars, futureVars, connVars, closeVars
<1>17. ASSUME NEW k \in Calls, EngineLeave(k)
       PROVE  CallbacksOf(j)'
  BY <1>17
     DEF TypeOK, CallbacksOf, InStep, BeforeSubmit, OnLoop, HasLock, Unfinished,
         EngineLeave, Become, taskVars, futureVars, connVars, closeVars
<1>18. ASSUME NEW k \in Calls, Unregister(k)
       PROVE  CallbacksOf(j)'
  BY <1>18
     DEF TypeOK, CallbacksOf, InStep, BeforeSubmit, OnLoop, HasLock, Unfinished,
         Unregister, Become, taskVars, futureVars, connVars, closeVars
<1>19. ASSUME NEW k \in Calls, Unlock(k)
       PROVE  CallbacksOf(j)'
  BY <1>19
     DEF TypeOK, CallbacksOf, InStep, BeforeSubmit, OnLoop, HasLock, Unfinished, Unlock,
         Become, taskVars, futureVars, connVars, closeVars
<1>20. ASSUME NEW k \in Calls, SetResult(k)
       PROVE  CallbacksOf(j)'
  BY <1>20
     DEF TypeOK, CallbacksOf, InStep, BeforeSubmit, OnLoop, HasLock, Unfinished,
         SetResult, Become, Callbacks, taskVars, connVars, closeVars
<1>21. ASSUME NEW k \in Calls, RunCallback(k)
       PROVE  CallbacksOf(j)'
  <2>1. CASE j # k
    BY <1>21, <2>1 DEF TypeOK, CallbacksOf, Unfinished, RunCallback, Become
  <2>2. CASE j = k
    <3>1. /\ callbacks'[k] = Tail(callbacks[k]) /\ callbacks[k] # <<>>
          /\ future' = future /\ conn' = conn /\ task' = task
          /\ work[k] = "callbacks"
          /\ work'[k] = IF Tail(callbacks[k]) = <<>> THEN "done" ELSE "callbacks"
      BY <1>21 DEF RunCallback, Become, Callbacks, TypeOK
    <3> QED
      BY <2>2, <3>1 DEF CallbacksOf, Unfinished, OnLoop
  <2> QED
    BY <2>1, <2>2
<1>22. CASE UNCHANGED <<callbacks, future, task, conn, work>>
  BY <1>22 DEF CallbacksOf, Unfinished
<1> QED
  BY <1>1, <1>2, <1>3, <1>4, <1>5, <1>6, <1>7, <1>8, <1>9, <1>10, <1>11, <1>12, <1>13,
     <1>14, <1>15, <1>16, <1>17, <1>18, <1>19, <1>20, <1>21, <1>22
     DEF Next, Slots, Task, Cancellation, Thread, Close, vars, Acquire, Count, taskVars,
         futureVars, connVars, closeVars, Release, RepeatCancel, InterruptCall,
         RaiseFlag, IsRunning, TakeCancelled, CloseStart, Proceed, CloseBegin,
         CloseSkip, CloseInterrupt, CloseAbort, CloseNative, CloseClear,
         ShutdownExecutor, JoinThreads

-----------------------------------------------------------------------------
(* Slots.                                                                  *)

HasRelease(s) == \E i \in 1..Len(s) : s[i] = "release"

\* The call has a slot of connection c.
Holds(j, c) == conn[j] = c /\ (task[j] \in {"submit", "attach"} \/ HasRelease(callbacks[j]))
Holders(c) == {j \in Calls : Holds(j, c)}

Counted == \A c \in Pool : counter[c] = acquired[c] + Cardinality(Holders(c))

\* The calls of CounterIsLoad are those of Holders.
LEMMA CountedIsLoad ==
    ASSUME CallsInStep, CallbacksInOrder, TypeOK
    PROVE  CounterIsLoad <=> Counted
<1>1. ASSUME NEW c \in Pool
      PROVE  {k \in Calls : conn[k] = c /\ HoldsSlot(k)} = Holders(c)
  BY DEF HoldsSlot, Holders, Holds, HasRelease
<1>2. ASSUME NEW k \in Calls, Unfinished(k), conn[k] \in Pool
      PROVE  HoldsSlot(k)
  <2>1. CASE task[k] \in {"submit", "attach"}
    BY <1>2, <2>1 DEF HoldsSlot
  <2>2. CASE task[k] \notin {"submit", "attach"}
    <3>1. callbacks[k] \in {<<"release">>, <<"release", "post">>}
      BY <1>2, <2>2 DEF CallbacksInOrder, CallbacksOf, OnLoop
    <3>2. Len(callbacks[k]) \in {1, 2} /\ callbacks[k][1] = "release"
      BY <3>1
    <3> QED
      BY <1>2, <3>2 DEF HoldsSlot
  <2> QED
    BY <2>1, <2>2
<1> QED
  BY <1>1, <1>2 DEF CounterIsLoad, Counted

\* Which of the sequences that occur give the slot back.
LEMMA WhichRelease ==
    /\ ~HasRelease(<<>>) /\ ~HasRelease(<<"post">>)
    /\ HasRelease(<<"release">>) /\ HasRelease(<<"release", "post">>)
<1>1. Len(<<>>) = 0 /\ Len(<<"post">>) = 1 /\ <<"post">>[1] = "post"
  OBVIOUS
<1>2. /\ Len(<<"release">>) = 1 /\ <<"release">>[1] = "release"
      /\ Len(<<"release", "post">>) = 2 /\ <<"release", "post">>[1] = "release"
  OBVIOUS
<1>3. ~HasRelease(<<>>) /\ ~HasRelease(<<"post">>)
  BY <1>1 DEF HasRelease
<1> QED
  BY <1>2, <1>3 DEF HasRelease

LEMMA HoldersFinite ==
    ASSUME NEW c
    PROVE  IsFiniteSet(Holders(c)) /\ Cardinality(Holders(c)) \in Nat
<1>1. Holders(c) \in SUBSET Calls /\ IsFiniteSet(Calls)
  BY PoolAssumption DEF Holders
<1>2. IsFiniteSet(Holders(c))
  BY <1>1, FS_Subset
<1> QED
  BY <1>2, FS_CardinalityType

\* No call takes or gives back a slot.
LEMMA SlotsSame ==
    ASSUME Counted, \A c \in Pool, j \in Calls : Holds(j, c)' <=> Holds(j, c),
           counter' = counter, acquired' = acquired
    PROVE  Counted'
<1>1. ASSUME NEW c \in Pool
      PROVE  Holders(c)' = Holders(c)
  BY DEF Holders
<1> QED
  BY <1>1 DEF Counted

\* A call takes a slot.
LEMMA SlotTaken ==
    ASSUME TypeOK, Counted, NEW k \in Calls, NEW d \in Pool, Count(d), acquired' = acquired,
           \A c \in Pool : ~Holds(k, c) /\ (Holds(k, c)' <=> c = d),
           \A c \in Pool, j \in Calls : j # k => (Holds(j, c)' <=> Holds(j, c))
    PROVE  Counted'
<1> SUFFICES ASSUME NEW c \in Pool
             PROVE  counter'[c] = acquired'[c] + Cardinality(Holders(c)')
  BY DEF Counted
<1>1. /\ counter[c] \in Nat /\ acquired[c] \in Nat
      /\ counter[c] = acquired[c] + Cardinality(Holders(c))
      /\ counter'[c] = IF c = d THEN counter[c] + 1 ELSE counter[c]
  BY DEF TypeOK, Counted, Count
<1>2. Holders(c)' = IF c = d THEN Holders(c) \cup {k} ELSE Holders(c)
  BY DEF Holders
<1>3. k \notin Holders(c)
  BY DEF Holders
<1>4. Cardinality(Holders(c)') =
          IF c = d THEN Cardinality(Holders(c)) + 1 ELSE Cardinality(Holders(c))
  BY <1>2, <1>3, HoldersFinite, FS_AddElement
<1> QED
  BY <1>1, <1>4, HoldersFinite

\* A call gives its slot back.
LEMMA SlotGivenBack ==
    ASSUME TypeOK, Counted, NEW k \in Calls, NEW d \in Pool, Decrement(d),
           acquired' = acquired,
           \A c \in Pool : ~Holds(k, c)' /\ (Holds(k, c) <=> c = d),
           \A c \in Pool, j \in Calls : j # k => (Holds(j, c)' <=> Holds(j, c))
    PROVE  Counted'
<1> SUFFICES ASSUME NEW c \in Pool
             PROVE  counter'[c] = acquired'[c] + Cardinality(Holders(c)')
  BY DEF Counted
<1>1. /\ counter[c] \in Nat /\ acquired[c] \in Nat
      /\ counter[c] = acquired[c] + Cardinality(Holders(c))
  BY DEF TypeOK, Counted
<1>2. Holders(c)' = IF c = d THEN Holders(c) \ {k} ELSE Holders(c)
  BY DEF Holders
<1>3. k \in Holders(c) <=> c = d
  BY DEF Holders
<1>4. Cardinality(Holders(c)') =
          IF c = d THEN Cardinality(Holders(c)) - 1 ELSE Cardinality(Holders(c))
  BY <1>2, <1>3, HoldersFinite, FS_RemoveElement
<1>5. /\ Cardinality(Holders(c)) \in Nat
      /\ Cardinality(Holders(c)') \in Nat
  BY <1>2, HoldersFinite, FS_RemoveElement, FS_CardinalityType
<1>6. counter'[c] = IF c = d THEN counter[c] - 1 ELSE counter[c]
  <2>1. c = d => counter[c] > 0
    BY <1>1, <1>4, <1>5
  <2> QED
    BY <1>1, <2>1 DEF Decrement, TypeOK
<1> QED
  BY <1>1, <1>4, <1>5, <1>6

\* connections_counter counts what the pool has handed out, after every step.
LEMMA CountKept ==
    ASSUME TypeOK, CallsInStep, CallbacksInOrder, Counted, [Next]_vars
    PROVE  Counted'
<1> DEFINE Early(j) == task[j] \in {"submit", "attach"}
<1>a. ASSUME NEW k \in Calls, task[k] \in {"new", "submit", "attach"}
      PROVE  ~HasRelease(callbacks[k])
  BY <1>a, WhichRelease DEF CallbacksInOrder, CallbacksOf
<1>b. ASSUME NEW k \in Calls,
             acquired' = acquired,
             \A j \in Calls \ {k} : /\ task'[j] = task[j] /\ conn'[j] = conn[j]
                                    /\ callbacks'[j] = callbacks[j]
      PROVE  \A c \in Pool, j \in Calls : j # k => (Holds(j, c)' <=> Holds(j, c))
  BY <1>b DEF Holds
<1>c. ASSUME NEW k \in Calls, conn' = conn, callbacks' = callbacks,
             counter' = counter, acquired' = acquired,
             \A j \in Calls : Early(j)' <=> Early(j)
      PROVE  Counted'
  BY <1>c, SlotsSame DEF Holds
<1>1. ASSUME Acquire
      PROVE  Counted'
  <2> DEFINE d == LeastQueried
  <2>1. /\ d \in Pool
        /\ counter' = [counter EXCEPT ![d] = @ + 1]
        /\ acquired' = [acquired EXCEPT ![d] = @ + 1]
    BY <1>1, LeastInPool DEF Acquire, Count
  <2>2. ASSUME NEW c \in Pool
        PROVE  Holders(c)' = Holders(c)
    BY <1>1 DEF Acquire, taskVars, futureVars, Holders, Holds
  <2>3. ASSUME NEW c \in Pool
        PROVE  counter'[c] = acquired'[c] + Cardinality(Holders(c))
    <3>1. counter[c] = acquired[c] + Cardinality(Holders(c)) /\ acquired[c] \in Nat
      BY DEF Counted, TypeOK
    <3> HIDE DEF d
    <3> QED
      BY <2>1, <3>1, HoldersFinite DEF TypeOK
  <2> QED
    BY <2>2, <2>3 DEF Counted
<1>2. ASSUME NEW c \in Pool, Release(c)
      PROVE  Counted'
  <2>1. ASSUME NEW d \in Pool
        PROVE  Holders(d)' = Holders(d)
    BY <1>2 DEF Release, taskVars, futureVars, Holders, Holds
  <2>2. ASSUME NEW d \in Pool
        PROVE  counter'[d] = acquired'[d] + Cardinality(Holders(d))
    <3>1. /\ counter[d] = acquired[d] + Cardinality(Holders(d))
          /\ acquired[d] \in Nat /\ Cardinality(Holders(d)) \in Nat
      BY HoldersFinite DEF Counted, TypeOK
    <3>2. /\ acquired[c] > 0
          /\ counter' = [counter EXCEPT ![c] = IF @ > 0 THEN @ - 1 ELSE 0]
          /\ acquired' = [acquired EXCEPT ![c] = @ - 1]
      BY <1>2 DEF Release, Decrement
    <3> QED
      BY <3>1, <3>2 DEF TypeOK
  <2> QED
    BY <2>1, <2>2 DEF Counted
<1>3. ASSUME NEW k \in Calls, ChooseLeast(k)
      PROVE  Counted'
  <2>1. /\ task[k] = "new" /\ task'[k] = "submit" /\ conn'[k] = LeastQueried
        /\ callbacks' = callbacks /\ Count(LeastQueried) /\ acquired' = acquired
    BY <1>3 DEF ChooseLeast, Step, futureVars, TypeOK
  <2>2. \A c \in Pool : ~Holds(k, c) /\ (Holds(k, c)' <=> c = LeastQueried)
    BY <1>a, <2>1 DEF Holds
  <2>3. \A c \in Pool, j \in Calls : j # k => (Holds(j, c)' <=> Holds(j, c))
    BY <1>3, <1>b DEF ChooseLeast, Step, futureVars, TypeOK
  <2> QED
    BY <2>1, <2>2, <2>3, SlotTaken, LeastInPool
<1>4. ASSUME NEW k \in Calls, NEW c \in Conns, ChoosePrepared(k, c)
      PROVE  Counted'
  <2>1. /\ task[k] = "new" /\ task'[k] = "submit" /\ conn'[k] = c
        /\ callbacks' = callbacks /\ acquired' = acquired
    BY <1>4 DEF ChoosePrepared, Step, futureVars, TypeOK
  <2>2. \A d \in Pool : ~Holds(k, d) /\ (Holds(k, d)' <=> c = d)
    BY <1>a, <2>1 DEF Holds
  <2>3. \A d \in Pool, j \in Calls : j # k => (Holds(j, d)' <=> Holds(j, d))
    BY <1>4, <1>b DEF ChoosePrepared, Step, futureVars, TypeOK
  <2>4. CASE c \in Pool
    <3>1. Count(c)
      BY <1>4, <2>4 DEF ChoosePrepared
    <3> QED
      BY <2>1, <2>2, <2>3, <2>4, <3>1, SlotTaken
  <2>5. CASE c \notin Pool
    <3>1. counter' = counter
      BY <1>4, <2>5 DEF ChoosePrepared
    <3> QED
      BY <2>1, <2>2, <2>3, <2>5, <3>1, SlotsSame
  <2> QED
    BY <2>4, <2>5
<1>5. ASSUME NEW k \in Calls, Submit(k)
      PROVE  Counted'
  BY <1>5, <1>c DEF Submit, Step, TypeOK
<1>6. ASSUME NEW k \in Calls, SubmitRefused(k)
      PROVE  Counted'
  <2>1. /\ task[k] = "submit" /\ task'[k] = "refused" /\ conn' = conn
        /\ callbacks' = callbacks /\ acquired' = acquired
    BY <1>6 DEF SubmitRefused, Step, futureVars, TypeOK
  <2>2. \A d \in Pool : ~Holds(k, d)' /\ (Holds(k, d) <=> d = conn[k])
    BY <1>a, <2>1 DEF Holds
  <2>3. \A d \in Pool, j \in Calls : j # k => (Holds(j, d)' <=> Holds(j, d))
    BY <1>6, <1>b DEF SubmitRefused, Step, futureVars, TypeOK
  <2>4. CASE conn[k] \in Pool
    <3>1. Decrement(conn[k])
      BY <1>6, <2>4 DEF SubmitRefused
    <3> QED
      BY <2>1, <2>2, <2>3, <2>4, <3>1, SlotGivenBack
  <2>5. CASE conn[k] \notin Pool
    <3>1. counter' = counter
      BY <1>6, <2>5 DEF SubmitRefused
    <3> QED
      BY <2>1, <2>2, <2>3, <2>5, <3>1, SlotsSame
  <2> QED
    BY <2>4, <2>5
<1>7. ASSUME NEW k \in Calls, Attach(k)
      PROVE  Counted'
  <2>1. /\ task[k] = "attach" /\ task'[k] = "wrap" /\ conn' = conn /\ acquired' = acquired
        /\ callbacks[k] = <<>>
    BY <1>7 DEF Attach, Step, TypeOK, CallbacksInOrder, CallbacksOf
  <2>2. \A d \in Pool : Holds(k, d) <=> d = conn[k]
    BY <2>1 DEF Holds
  <2>3. \A d \in Pool, j \in Calls : j # k => (Holds(j, d)' <=> Holds(j, d))
    BY <1>7, <1>b DEF Attach, Step, TypeOK
  <2>4. CASE conn[k] \notin Pool
    <3>1. counter' = counter /\ \A d \in Pool : ~Holds(k, d)'
      BY <1>7, <2>1, <2>4 DEF Attach, Holds
    <3> QED
      BY <2>1, <2>2, <2>3, <2>4, <3>1, SlotsSame
  <2>5. CASE conn[k] \in Pool /\ future[k] = "finished"
    <3>1. Decrement(conn[k]) /\ callbacks' = callbacks
      BY <1>7, <2>5 DEF Attach
    <3>2. \A d \in Pool : ~Holds(k, d)'
      BY <2>1, <3>1, WhichRelease DEF Holds
    <3> QED
      BY <2>1, <2>2, <2>3, <2>5, <3>1, <3>2, SlotGivenBack
  <2>6. CASE conn[k] \in Pool /\ future[k] # "finished"
    <3>1. /\ counter' = counter
          /\ callbacks' = [callbacks EXCEPT ![k] = Append(@, "release")]
      BY <1>7, <2>6 DEF Attach
    <3>2. callbacks'[k] = <<"release">>
      BY <2>1, <3>1, CallbackSequences DEF TypeOK
    <3>3. \A d \in Pool : Holds(k, d)' <=> d = conn[k]
      BY <2>1, <3>2, WhichRelease DEF Holds
    <3> QED
      BY <2>1, <2>2, <2>3, <3>1, <3>3, SlotsSame
  <2> QED
    BY <2>4, <2>5, <2>6
<1>8. ASSUME NEW k \in Calls, Wrap(k)
      PROVE  Counted'
  <2>1. /\ task[k] = "wrap" /\ task'[k] = "await" /\ conn' = conn /\ acquired' = acquired
        /\ counter' = counter /\ callbacks[k] \in {<<>>, <<"release">>}
        /\ callbacks'[k] \in {callbacks[k], Append(callbacks[k], "post")}
    BY <1>8 DEF Wrap, Step, TypeOK, CallbacksInOrder, CallbacksOf
  <2>2. HasRelease(callbacks'[k]) <=> HasRelease(callbacks[k])
    BY <2>1, WhichRelease, CallbackSequences
  <2>3. \A d \in Pool : Holds(k, d)' <=> Holds(k, d)
    BY <2>1, <2>2 DEF Holds, HasRelease
  <2>4. \A d \in Pool, j \in Calls : j # k => (Holds(j, d)' <=> Holds(j, d))
    BY <1>8, <1>b DEF Wrap, Step, TypeOK
  <2> QED
    BY <2>1, <2>3, <2>4, SlotsSame
<1>9. ASSUME NEW k \in Calls, Deliver(k)
      PROVE  Counted'
  BY <1>9, <1>c DEF Deliver, Step, futureVars, TypeOK
<1>10. ASSUME NEW k \in Calls, CancelTask(k)
       PROVE  Counted'
  <2>1. /\ task[k] = "await" /\ task'[k] = "unwind" /\ conn' = conn /\ acquired' = acquired
    BY <1>10 DEF CancelTask, Step, TypeOK
  <2>2. \A d \in Pool, j \in Calls : j # k => (Holds(j, d)' <=> Holds(j, d))
    BY <1>10, <1>b DEF CancelTask, Step, futureVars, TypeOK
  <2>3. CASE future[k] # "pending"
    BY <1>10, <2>1, <2>3, <1>c DEF CancelTask, Step, futureVars, TypeOK
  <2>4. CASE future[k] = "pending"
    <3>1. /\ callbacks' = [callbacks EXCEPT ![k] = <<>>]
          /\ IF conn[k] \in Pool THEN Decrement(conn[k]) ELSE UNCHANGED counter
      BY <1>10, <2>4 DEF CancelTask
    <3>2. Unfinished(k)
      BY <2>4 DEF CallsInStep, InStep, Unfinished
    <3>3. conn[k] \in Pool => callbacks[k] = <<"release", "post">>
      BY <2>1, <3>2 DEF CallbacksInOrder, CallbacksOf, OnLoop
    <3>4. \A d \in Pool : ~Holds(k, d)' /\ (Holds(k, d) <=> d = conn[k])
      BY <2>1, <3>1, <3>3, WhichRelease DEF Holds, TypeOK
    <3>5. CASE conn[k] \in Pool
      BY <2>1, <2>2, <3>1, <3>4, <3>5, SlotGivenBack
    <3>6. CASE conn[k] \notin Pool
      BY <2>1, <2>2, <3>1, <3>4, <3>6, SlotsSame
    <3> QED
      BY <3>5, <3>6
  <2> QED
    BY <2>3, <2>4
<1>11. ASSUME NEW k \in Calls, Unwind(k)
       PROVE  Counted'
  BY <1>11, <1>c DEF Unwind, Step, futureVars, TypeOK
<1>12. ASSUME NEW k \in Calls, RunCallback(k)
       PROVE  Counted'
  <2>1. /\ callbacks' = [callbacks EXCEPT ![k] = Tail(@)] /\ callbacks[k] # <<>>
        /\ conn' = conn /\ task' = task /\ acquired' = acquired
        /\ IF Head(callbacks[k]) = "release" THEN Decrement(conn[k]) ELSE UNCHANGED counter
    BY <1>12 DEF RunCallback
  <2>2. /\ callbacks'[k] = Tail(callbacks[k])
        /\ callbacks[k] \in {<<"release">>, <<"post">>, <<"release", "post">>}
        /\ task[k] \notin {"submit", "attach"}
        /\ callbacks[k] # <<"post">> => conn[k] \in Pool
    BY <2>1 DEF CallbacksInOrder, CallbacksOf, TypeOK
  <2>3. \A d \in Pool, j \in Calls : j # k => (Holds(j, d)' <=> Holds(j, d))
    BY <2>1, <1>b DEF TypeOK
  <2>4. ~HasRelease(callbacks'[k])
    BY <2>2, WhichRelease, CallbackSequences
  <2>5. \A d \in Pool : ~Holds(k, d)'
    BY <2>1, <2>2, <2>4 DEF Holds, HasRelease
  <2>6. CASE callbacks[k] = <<"post">>
    <3>1. counter' = counter /\ \A d \in Pool : ~Holds(k, d)
      BY <2>1, <2>2, <2>6, WhichRelease, CallbackSequences DEF Holds
    <3> QED
      BY <2>1, <2>3, <2>5, <3>1, SlotsSame
  <2>7. CASE callbacks[k] # <<"post">>
    <3>1. Decrement(conn[k]) /\ conn[k] \in Pool
      BY <2>1, <2>2, <2>7, CallbackSequences
    <3>2. \A d \in Pool : Holds(k, d) <=> d = conn[k]
      BY <2>2, <2>7, WhichRelease DEF Holds
    <3> QED
      BY <2>1, <2>3, <2>5, <3>1, <3>2, SlotGivenBack
  <2> QED
    BY <2>6, <2>7
<1>13. CASE UNCHANGED <<conn, task, callbacks, counter, acquired>>
  BY <1>13, SlotsSame DEF Holds, HasRelease
<1> QED
  BY <1>1, <1>2, <1>3, <1>4, <1>5, <1>6, <1>7, <1>8, <1>9, <1>10, <1>11, <1>12, <1>13
     DEF Next, Slots, Task, Cancellation, Thread, Close, vars, RepeatCancel,
         InterruptCall, RaiseFlag, IsRunning, futureVars, connVars, closeVars, Take,
         Become, taskVars, TakeCancelled, LockConnection, Start, SkipCancelled,
         EnterCall, RefuseCall, EngineStart, EngineLeave, Unregister, Unlock, SetResult,
         Callbacks, CloseStart, Proceed, CloseBegin, CloseSkip, CloseInterrupt,
         CloseAbort, CloseNative, CloseClear, ShutdownExecutor, JoinThreads

-----------------------------------------------------------------------------
(* The refinement of QueryPool.                                            *)

works    == [j \in Calls |-> WorkOf(j)]
outcomes == [j \in Calls |-> OutcomeOf(j)]

\* What the abstraction sees of a step that touches one call only.
LEMMA OneCallMoves ==
    ASSUME NEW k \in Calls,
           \A j \in Calls \ {k} : work'[j] = work[j] /\ task'[j] = task[j]
    PROVE  /\ works' = [works EXCEPT ![k] = WorkOf(k)']
           /\ outcomes' = [outcomes EXCEPT ![k] = OutcomeOf(k)']
<1>1. ASSUME NEW j \in Calls, j # k
      PROVE  WorkOf(j)' = WorkOf(j) /\ OutcomeOf(j)' = OutcomeOf(j)
  BY <1>1 DEF WorkOf, OutcomeOf
<1> QED
  BY <1>1 DEF works, outcomes

\* Steps that the abstraction does not see.
LEMMA Unseen ==
    ASSUME conn' = conn, cancelled' = cancelled, works' = works, outcomes' = outcomes
    PROVE  UNCHANGED Promise!vars
BY DEF Promise!vars, works, outcomes

\* The code's phases of a call's work and the abstract ones.
LEMMA PhasesOfWork ==
    ASSUME TypeOK, NEW k \in Calls
    PROVE  /\ WorkOf(k) = "none" <=> work[k] = "none"
           /\ WorkOf(k) = "accepted" <=> work[k] \in {"queued", "turn", "locked"}
           /\ WorkOf(k) = "executing" <=> work[k] \in IsRegistered
           /\ WorkOf(k) = "over" <=> work[k] \in {"unlock", "result", "callbacks", "done"}
           /\ OutcomeOf(k) = IF task[k] \in {"answered", "cancelled", "failed", "refused"}
                             THEN task[k] ELSE "none"
BY DEF WorkOf, OutcomeOf, IsRegistered, TypeOK

\* Every step of the pool is one that QueryPool allows, or one that it does not see.
LEMMA StepKeepsPromise ==
    ASSUME IInv, IInv', [Next]_vars
    PROVE  [Promise!Next]_Promise!vars
<1> TypeOK /\ TypeOK' /\ CallsInStep /\ LocksMatchWork
  BY DEF IInv
<1> USE PoolFacts
<1>1. ASSUME NEW k \in Calls, ChooseLeast(k)
      PROVE  [Promise!Next]_Promise!vars
  <2>1. works' = works /\ outcomes' = outcomes
    <3>1. /\ works' = [works EXCEPT ![k] = WorkOf(k)']
          /\ outcomes' = [outcomes EXCEPT ![k] = OutcomeOf(k)']
      BY <1>1, OneCallMoves DEF ChooseLeast, Step, TypeOK
    <3>2. WorkOf(k)' = WorkOf(k) /\ OutcomeOf(k)' = OutcomeOf(k)
      BY <1>1 DEF ChooseLeast, Step, TypeOK, WorkOf, OutcomeOf
    <3> QED
      BY <3>1, <3>2 DEF works, outcomes
  <2>2. /\ conn[k] = NULL /\ conn' = [conn EXCEPT ![k] = LeastQueried] /\ cancelled' = cancelled
        /\ LeastQueried \in Conns
    BY <1>1, LeastInPool DEF ChooseLeast, Step, CallsInStep, InStep
  <2>3. Promise!Choose(k)
    BY <2>1, <2>2 DEF Promise!Choose, works, outcomes
  <2> QED
    BY <2>3 DEF Promise!Next
<1>2. ASSUME NEW k \in Calls, NEW c \in Conns, ChoosePrepared(k, c)
      PROVE  [Promise!Next]_Promise!vars
  <2>1. works' = works /\ outcomes' = outcomes
    <3>1. /\ works' = [works EXCEPT ![k] = WorkOf(k)']
          /\ outcomes' = [outcomes EXCEPT ![k] = OutcomeOf(k)']
      BY <1>2, OneCallMoves DEF ChoosePrepared, Step, TypeOK
    <3>2. WorkOf(k)' = WorkOf(k) /\ OutcomeOf(k)' = OutcomeOf(k)
      BY <1>2 DEF ChoosePrepared, Step, TypeOK, WorkOf, OutcomeOf
    <3> QED
      BY <3>1, <3>2 DEF works, outcomes
  <2>2. /\ conn[k] = NULL /\ conn' = [conn EXCEPT ![k] = c] /\ cancelled' = cancelled
        /\ c \in Conns
    BY <1>2, LeastInPool DEF ChoosePrepared, Step, CallsInStep, InStep
  <2>3. Promise!Choose(k)
    BY <2>1, <2>2 DEF Promise!Choose, works, outcomes
  <2> QED
    BY <2>3 DEF Promise!Next
<1>3. ASSUME NEW k \in Calls, Submit(k)
      PROVE  [Promise!Next]_Promise!vars
  <2>1. /\ works' = [works EXCEPT ![k] = WorkOf(k)']
        /\ outcomes' = [outcomes EXCEPT ![k] = OutcomeOf(k)']
    BY <1>3, OneCallMoves DEF Submit, Step, TypeOK
  <2>2. /\ task[k] = "submit" /\ task'[k] = "attach" /\ work[k] = "none" /\ work'[k] = "queued"
        /\ conn[k] # NULL /\ conn' = conn /\ cancelled' = cancelled
    <3> InStep(k)
      BY DEF CallsInStep
    <3> QED
      BY <1>3 DEF Submit, Step, TypeOK, InStep, BeforeSubmit
  <2>3. /\ WorkOf(k) = "none" /\ WorkOf(k)' = "accepted"
        /\ OutcomeOf(k) = "none" /\ OutcomeOf(k)' = "none"
    BY <2>2 DEF WorkOf, OutcomeOf
  <2>5. Promise!Accept(k)
    BY <2>1, <2>2, <2>3 DEF Promise!Accept, works, outcomes
  <2> QED
    BY <2>5 DEF Promise!Next
<1>4. ASSUME NEW k \in Calls, SubmitRefused(k)
      PROVE  [Promise!Next]_Promise!vars
  <2>1. /\ works' = [works EXCEPT ![k] = WorkOf(k)']
        /\ outcomes' = [outcomes EXCEPT ![k] = OutcomeOf(k)']
    BY <1>4, OneCallMoves DEF SubmitRefused, Step, TypeOK
  <2>2. /\ task[k] = "submit" /\ task'[k] = "refused" /\ work[k] = "none" /\ work' = work
        /\ conn[k] # NULL /\ conn' = conn /\ cancelled' = cancelled
    <3> InStep(k)
      BY DEF CallsInStep
    <3> QED
      BY <1>4 DEF SubmitRefused, Step, TypeOK, InStep, BeforeSubmit
  <2>3. /\ WorkOf(k) = "none" /\ WorkOf(k)' = "none"
        /\ OutcomeOf(k) = "none" /\ OutcomeOf(k)' = "refused"
    BY <2>2 DEF WorkOf, OutcomeOf
  <2>5. Promise!Refuse(k)
    BY <2>1, <2>2, <2>3 DEF Promise!Refuse, works, outcomes
  <2> QED
    BY <2>5 DEF Promise!Next
<1>5. ASSUME NEW k \in Calls, Attach(k)
      PROVE  [Promise!Next]_Promise!vars
  <2>1. /\ works' = [works EXCEPT ![k] = WorkOf(k)']
        /\ outcomes' = [outcomes EXCEPT ![k] = OutcomeOf(k)']
    BY <1>5, OneCallMoves DEF Attach, Step, TypeOK
  <2>2. WorkOf(k)' = WorkOf(k) /\ OutcomeOf(k)' = OutcomeOf(k)
    BY <1>5 DEF Attach, Step, TypeOK, WorkOf, OutcomeOf
  <2>3. works' = works /\ outcomes' = outcomes
    BY <2>1, <2>2 DEF works, outcomes
  <2> QED
    BY <1>5, <2>3, Unseen DEF Attach, Step, TypeOK
<1>6. ASSUME NEW k \in Calls, Wrap(k)
      PROVE  [Promise!Next]_Promise!vars
  <2>1. /\ works' = [works EXCEPT ![k] = WorkOf(k)']
        /\ outcomes' = [outcomes EXCEPT ![k] = OutcomeOf(k)']
    BY <1>6, OneCallMoves DEF Wrap, Step, TypeOK
  <2>2. WorkOf(k)' = WorkOf(k) /\ OutcomeOf(k)' = OutcomeOf(k)
    BY <1>6 DEF Wrap, Step, TypeOK, WorkOf, OutcomeOf
  <2>3. works' = works /\ outcomes' = outcomes
    BY <2>1, <2>2 DEF works, outcomes
  <2> QED
    BY <1>6, <2>3, Unseen DEF Wrap, Step, TypeOK
<1>7. ASSUME NEW k \in Calls, Deliver(k)
      PROVE  [Promise!Next]_Promise!vars
  <2>1. /\ works' = [works EXCEPT ![k] = WorkOf(k)']
        /\ outcomes' = [outcomes EXCEPT ![k] = OutcomeOf(k)']
    BY <1>7, OneCallMoves DEF Deliver, Step, TypeOK
  <2>2. /\ task[k] = "await" /\ task'[k] = "answered" /\ work' = work
        /\ work[k] \in {"callbacks", "done"} /\ conn' = conn /\ cancelled' = cancelled
    <3> InStep(k)
      BY DEF CallsInStep
    <3> QED
      BY <1>7 DEF Deliver, Step, TypeOK, InStep, HasLock
  <2>3. /\ WorkOf(k) = "over" /\ WorkOf(k)' = WorkOf(k)
        /\ OutcomeOf(k) = "none" /\ OutcomeOf(k)' = "answered"
    BY <2>2 DEF WorkOf, OutcomeOf
  <2>5. Promise!Answer(k)
    BY <2>1, <2>2, <2>3 DEF Promise!Answer, works, outcomes
  <2> QED
    BY <2>5 DEF Promise!Next
<1>8. ASSUME NEW k \in Calls, CancelTask(k)
      PROVE  [Promise!Next]_Promise!vars
  <2>1. /\ task[k] = "await" /\ task'[k] = "unwind" /\ conn' = conn /\ cancelled' = cancelled
        /\ \A j \in Calls \ {k} : work'[j] = work[j] /\ task'[j] = task[j]
    BY <1>8 DEF CancelTask, Step, TypeOK
  <2>2. /\ works' = [works EXCEPT ![k] = WorkOf(k)']
        /\ outcomes' = [outcomes EXCEPT ![k] = OutcomeOf(k)']
    BY <2>1, OneCallMoves
  <2>3. OutcomeOf(k)' = OutcomeOf(k)
    BY <2>1 DEF OutcomeOf
  <2>4. CASE future[k] = "pending"
    <3>1. work[k] = "queued" /\ work'[k] = "done"
      BY <1>8, <2>4 DEF CancelTask, TypeOK, CallsInStep, InStep
    <3>2. WorkOf(k) = "accepted" /\ WorkOf(k)' = "over"
      BY <3>1 DEF WorkOf
    <3>3. Promise!Finish(k)
      BY <2>1, <2>2, <2>3, <3>2 DEF Promise!Finish, works, outcomes
    <3> QED
      BY <3>3 DEF Promise!Next
  <2>5. CASE future[k] # "pending"
    <3>1. work' = work
      BY <1>8, <2>5 DEF CancelTask
    <3>2. works' = works /\ outcomes' = outcomes
      BY <2>2, <2>3, <3>1 DEF works, outcomes, WorkOf
    <3> QED
      BY <2>1, <3>2, Unseen
  <2> QED
    BY <2>4, <2>5
<1>9. ASSUME NEW k \in Calls, Unwind(k)
      PROVE  [Promise!Next]_Promise!vars
  <2>1. /\ works' = [works EXCEPT ![k] = WorkOf(k)']
        /\ outcomes' = [outcomes EXCEPT ![k] = OutcomeOf(k)']
    BY <1>9, OneCallMoves DEF Unwind, Step, TypeOK
  <2>2. /\ task[k] = "unwind" /\ task'[k] \in {"cancelled", "failed"} /\ work' = work
        /\ work[k] # "none" /\ conn' = conn
        /\ cancelled' = [cancelled EXCEPT ![k] = TRUE]
    <3> InStep(k)
      BY DEF CallsInStep
    <3> QED
      BY <1>9 DEF Unwind, InterruptCall, Step, TypeOK, InStep, BeforeSubmit
  <2>3. /\ WorkOf(k) # "none" /\ WorkOf(k)' = WorkOf(k)
        /\ OutcomeOf(k) = "none" /\ OutcomeOf(k)' \in {"cancelled", "failed"}
    BY <2>2 DEF WorkOf, OutcomeOf
  <2>5. Promise!Withdraw(k)
    BY <2>1, <2>2, <2>3 DEF Promise!Withdraw, works, outcomes
  <2> QED
    BY <2>5 DEF Promise!Next
<1>10. ASSUME NEW k \in Calls, RepeatCancel(k)
       PROVE  [Promise!Next]_Promise!vars
  <2>1. cancelled[k] /\ cancelled' = [cancelled EXCEPT ![k] = TRUE]
    BY <1>10 DEF RepeatCancel, InterruptCall, CallsInStep, InStep
  <2>2. cancelled' = cancelled
    BY <2>1 DEF TypeOK
  <2>3. works' = works /\ outcomes' = outcomes
    BY <1>10 DEF RepeatCancel, works, outcomes, WorkOf, OutcomeOf
  <2> QED
    BY <1>10, <2>2, <2>3, Unseen DEF RepeatCancel
<1>11. ASSUME NEW k \in Calls, Take(k)
       PROVE  [Promise!Next]_Promise!vars
  <2>1. /\ works' = [works EXCEPT ![k] = WorkOf(k)']
        /\ outcomes' = [outcomes EXCEPT ![k] = OutcomeOf(k)']
    BY <1>11, OneCallMoves DEF Take, Become, TypeOK, taskVars
  <2>2. WorkOf(k)' = WorkOf(k) /\ OutcomeOf(k)' = OutcomeOf(k)
    BY <1>11 DEF Take, Become, TypeOK, taskVars, WorkOf, OutcomeOf
  <2>3. works' = works /\ outcomes' = outcomes
    BY <2>1, <2>2 DEF works, outcomes
  <2> QED
    BY <1>11, <2>3, Unseen DEF Take, Become, TypeOK, taskVars
<1>12. ASSUME NEW k \in Calls, LockConnection(k)
       PROVE  [Promise!Next]_Promise!vars
  <2>1. /\ works' = [works EXCEPT ![k] = WorkOf(k)']
        /\ outcomes' = [outcomes EXCEPT ![k] = OutcomeOf(k)']
    BY <1>12, OneCallMoves DEF LockConnection, Become, TypeOK, taskVars
  <2>2. WorkOf(k)' = WorkOf(k) /\ OutcomeOf(k)' = OutcomeOf(k)
    BY <1>12 DEF LockConnection, Become, TypeOK, taskVars, WorkOf, OutcomeOf
  <2>3. works' = works /\ outcomes' = outcomes
    BY <2>1, <2>2 DEF works, outcomes
  <2> QED
    BY <1>12, <2>3, Unseen DEF LockConnection, Become, TypeOK, taskVars
<1>13. ASSUME NEW k \in Calls, Start(k)
       PROVE  [Promise!Next]_Promise!vars
  <2>1. /\ works' = [works EXCEPT ![k] = WorkOf(k)']
        /\ outcomes' = [outcomes EXCEPT ![k] = OutcomeOf(k)']
    BY <1>13, OneCallMoves DEF Start, Become, TypeOK, taskVars
  <2>2. /\ work[k] = "locked" /\ work'[k] = "start" /\ task' = task /\ ~cancelled[k]
        /\ conn' = conn /\ cancelled' = cancelled
    <3> InStep(k)
      BY DEF CallsInStep
    <3> QED
      BY <1>13 DEF Start, Become, TypeOK, taskVars
  <2>3. /\ WorkOf(k) = "accepted" /\ WorkOf(k)' = "executing" /\ OutcomeOf(k)' = OutcomeOf(k)
    BY <2>2 DEF WorkOf, OutcomeOf
  <2>4. ASSUME NEW j \in Calls, conn[j] = conn[k]
        PROVE  WorkOf(j) # "executing"
    <3>1. conn[k] \in Conns
      BY <2>2 DEF CallsInStep, InStep, HasLock, BeforeSubmit, TypeOK
    <3>2. lockOf[conn[k]] = k
      BY <2>2, <3>1 DEF LocksMatchWork, HasLock
    <3>3. work[j] \in IsRegistered => j = k
      BY <2>4, <3>1, <3>2 DEF LocksMatchWork, HasLock, IsRegistered
    <3> QED
      BY <2>2, <3>3, PhasesOfWork DEF IsRegistered
  <2>5. Promise!Execute(k)
    BY <2>1, <2>2, <2>3, <2>4 DEF Promise!Execute, works, outcomes
  <2> QED
    BY <2>5 DEF Promise!Next
<1>14. ASSUME NEW k \in Calls, SkipCancelled(k)
       PROVE  [Promise!Next]_Promise!vars
  <2>1. /\ works' = [works EXCEPT ![k] = WorkOf(k)']
        /\ outcomes' = [outcomes EXCEPT ![k] = OutcomeOf(k)']
    BY <1>14, OneCallMoves DEF SkipCancelled, Become, TypeOK, taskVars
  <2>2. /\ work[k] = "locked" /\ work'[k] = "unlock" /\ task' = task
        /\ conn' = conn /\ cancelled' = cancelled
    <3> InStep(k)
      BY DEF CallsInStep
    <3> QED
      BY <1>14 DEF SkipCancelled, Become, TypeOK, taskVars
  <2>3. /\ WorkOf(k) \in {"accepted", "executing"} /\ WorkOf(k)' = "over"
        /\ OutcomeOf(k)' = OutcomeOf(k)
    BY <2>2 DEF WorkOf, OutcomeOf
  <2>5. Promise!Finish(k)
    BY <2>1, <2>2, <2>3 DEF Promise!Finish, works, outcomes
  <2> QED
    BY <2>5 DEF Promise!Next
<1>15. ASSUME NEW k \in Calls, EnterCall(k)
       PROVE  [Promise!Next]_Promise!vars
  <2>1. /\ works' = [works EXCEPT ![k] = WorkOf(k)']
        /\ outcomes' = [outcomes EXCEPT ![k] = OutcomeOf(k)']
    BY <1>15, OneCallMoves DEF EnterCall, Become, TypeOK, taskVars
  <2>2. WorkOf(k)' = WorkOf(k) /\ OutcomeOf(k)' = OutcomeOf(k)
    BY <1>15 DEF EnterCall, Become, TypeOK, taskVars, WorkOf, OutcomeOf
  <2>3. works' = works /\ outcomes' = outcomes
    BY <2>1, <2>2 DEF works, outcomes
  <2> QED
    BY <1>15, <2>3, Unseen DEF EnterCall, Become, TypeOK, taskVars
<1>16. ASSUME NEW k \in Calls, RefuseCall(k)
       PROVE  [Promise!Next]_Promise!vars
  <2>1. /\ works' = [works EXCEPT ![k] = WorkOf(k)']
        /\ outcomes' = [outcomes EXCEPT ![k] = OutcomeOf(k)']
    BY <1>16, OneCallMoves DEF RefuseCall, Become, TypeOK, taskVars
  <2>2. WorkOf(k)' = WorkOf(k) /\ OutcomeOf(k)' = OutcomeOf(k)
    BY <1>16 DEF RefuseCall, Become, TypeOK, taskVars, WorkOf, OutcomeOf
  <2>3. works' = works /\ outcomes' = outcomes
    BY <2>1, <2>2 DEF works, outcomes
  <2> QED
    BY <1>16, <2>3, Unseen DEF RefuseCall, Become, TypeOK, taskVars
<1>17. ASSUME NEW k \in Calls, EngineStart(k)
       PROVE  [Promise!Next]_Promise!vars
  <2>1. /\ works' = [works EXCEPT ![k] = WorkOf(k)']
        /\ outcomes' = [outcomes EXCEPT ![k] = OutcomeOf(k)']
    BY <1>17, OneCallMoves DEF EngineStart, Become, TypeOK, taskVars
  <2>2. WorkOf(k)' = WorkOf(k) /\ OutcomeOf(k)' = OutcomeOf(k)
    BY <1>17 DEF EngineStart, Become, TypeOK, taskVars, WorkOf, OutcomeOf
  <2>3. works' = works /\ outcomes' = outcomes
    BY <2>1, <2>2 DEF works, outcomes
  <2> QED
    BY <1>17, <2>3, Unseen DEF EngineStart, Become, TypeOK, taskVars
<1>18. ASSUME NEW k \in Calls, EngineLeave(k)
       PROVE  [Promise!Next]_Promise!vars
  <2>1. /\ works' = [works EXCEPT ![k] = WorkOf(k)']
        /\ outcomes' = [outcomes EXCEPT ![k] = OutcomeOf(k)']
    BY <1>18, OneCallMoves DEF EngineLeave, Become, TypeOK, taskVars
  <2>2. WorkOf(k)' = WorkOf(k) /\ OutcomeOf(k)' = OutcomeOf(k)
    BY <1>18 DEF EngineLeave, Become, TypeOK, taskVars, WorkOf, OutcomeOf
  <2>3. works' = works /\ outcomes' = outcomes
    BY <2>1, <2>2 DEF works, outcomes
  <2> QED
    BY <1>18, <2>3, Unseen DEF EngineLeave, Become, TypeOK, taskVars
<1>19. ASSUME NEW k \in Calls, Unregister(k)
       PROVE  [Promise!Next]_Promise!vars
  <2>1. /\ works' = [works EXCEPT ![k] = WorkOf(k)']
        /\ outcomes' = [outcomes EXCEPT ![k] = OutcomeOf(k)']
    BY <1>19, OneCallMoves DEF Unregister, Become, TypeOK, taskVars
  <2>2. /\ work[k] = "unregister" /\ work'[k] = "unlock" /\ task' = task
        /\ conn' = conn /\ cancelled' = cancelled
    <3> InStep(k)
      BY DEF CallsInStep
    <3> QED
      BY <1>19 DEF Unregister, Become, TypeOK, taskVars
  <2>3. /\ WorkOf(k) \in {"accepted", "executing"} /\ WorkOf(k)' = "over"
        /\ OutcomeOf(k)' = OutcomeOf(k)
    BY <2>2 DEF WorkOf, OutcomeOf
  <2>5. Promise!Finish(k)
    BY <2>1, <2>2, <2>3 DEF Promise!Finish, works, outcomes
  <2> QED
    BY <2>5 DEF Promise!Next
<1>20. ASSUME NEW k \in Calls, Unlock(k)
       PROVE  [Promise!Next]_Promise!vars
  <2>1. /\ works' = [works EXCEPT ![k] = WorkOf(k)']
        /\ outcomes' = [outcomes EXCEPT ![k] = OutcomeOf(k)']
    BY <1>20, OneCallMoves DEF Unlock, Become, TypeOK, taskVars
  <2>2. WorkOf(k)' = WorkOf(k) /\ OutcomeOf(k)' = OutcomeOf(k)
    BY <1>20 DEF Unlock, Become, TypeOK, taskVars, WorkOf, OutcomeOf
  <2>3. works' = works /\ outcomes' = outcomes
    BY <2>1, <2>2 DEF works, outcomes
  <2> QED
    BY <1>20, <2>3, Unseen DEF Unlock, Become, TypeOK, taskVars
<1>21. ASSUME NEW k \in Calls, SetResult(k)
       PROVE  [Promise!Next]_Promise!vars
  <2>1. /\ works' = [works EXCEPT ![k] = WorkOf(k)']
        /\ outcomes' = [outcomes EXCEPT ![k] = OutcomeOf(k)']
    BY <1>21, OneCallMoves DEF SetResult, Become, Callbacks, TypeOK, taskVars
  <2>2. WorkOf(k)' = WorkOf(k) /\ OutcomeOf(k)' = OutcomeOf(k)
    BY <1>21 DEF SetResult, Become, Callbacks, TypeOK, taskVars, WorkOf, OutcomeOf
  <2>3. works' = works /\ outcomes' = outcomes
    BY <2>1, <2>2 DEF works, outcomes
  <2> QED
    BY <1>21, <2>3, Unseen DEF SetResult, Become, Callbacks, TypeOK, taskVars
<1>22. ASSUME NEW k \in Calls, RunCallback(k)
       PROVE  [Promise!Next]_Promise!vars
  <2>1. /\ works' = [works EXCEPT ![k] = WorkOf(k)']
        /\ outcomes' = [outcomes EXCEPT ![k] = OutcomeOf(k)']
    BY <1>22, OneCallMoves DEF RunCallback, Become, Callbacks, TypeOK, taskVars
  <2>2. WorkOf(k)' = WorkOf(k) /\ OutcomeOf(k)' = OutcomeOf(k)
    BY <1>22 DEF RunCallback, Become, Callbacks, TypeOK, taskVars, WorkOf, OutcomeOf
  <2>3. works' = works /\ outcomes' = outcomes
    BY <2>1, <2>2 DEF works, outcomes
  <2> QED
    BY <1>22, <2>3, Unseen DEF RunCallback, Become, Callbacks, TypeOK, taskVars
<1>23. CASE UNCHANGED <<conn, cancelled, task, work>>
  BY <1>23, Unseen DEF works, outcomes, WorkOf, OutcomeOf
<1> QED
  BY <1>1, <1>2, <1>3, <1>4, <1>5, <1>6, <1>7, <1>8, <1>9, <1>10, <1>11, <1>12, <1>13,
     <1>14, <1>15, <1>16, <1>17, <1>18, <1>19, <1>20, <1>21, <1>22, <1>23
     DEF Next, Slots, Task, Cancellation, Thread, Close, vars, Acquire, Count, taskVars,
         futureVars, connVars, closeVars, Release, TakeCancelled, CloseStart, Proceed,
         CloseBegin, CloseSkip, CloseInterrupt, CloseAbort, CloseNative, CloseClear,
         ShutdownExecutor, JoinThreads

-----------------------------------------------------------------------------
(* The theorems.                                                           *)

LEMMA InitIInv == Init => IInv
<1> SUFFICES ASSUME Init
             PROVE  IInv
  OBVIOUS
<1>1. TypeOK
  BY PoolAssumption, EmptySeq DEF Init, TypeOK, Pool, Conns
<1>2. CallsInStep
  BY PoolFacts DEF Init, CallsInStep, InStep, BeforeSubmit, OnLoop, HasLock
<1>3. QueueIsPending /\ DoneIsOver
  BY EmptySeq DEF Init, QueueIsPending, DoneIsOver
<1>4. LocksMatchWork /\ FlagsMatchCalls
  BY PoolFacts DEF Init, LocksMatchWork, FlagsMatchCalls, HasLock, IsRegistered
<1>5. CloseInOrder
  BY PoolAssumption DEF Init, CloseInOrder, Pool, Conns
<1>6. CallbacksInOrder
  BY PoolFacts DEF Init, CallbacksInOrder, CallbacksOf, Unfinished, Conns
<1>7. Counted
  <2>1. ASSUME NEW c \in Pool
        PROVE  Holders(c) = {}
    BY PoolFacts DEF Init, Holders, Holds
  <2>2. ASSUME NEW c \in Pool
        PROVE  counter[c] = acquired[c] + Cardinality(Holders(c))
    <3>1. Cardinality(Holders(c)) = 0
      BY <2>1, FS_EmptySet
    <3>2. counter[c] = 0 /\ acquired[c] = 0
      BY DEF Init
    <3> QED
      BY <3>1, <3>2
  <2> QED
    BY <2>2 DEF Counted
<1> QED
  BY <1>1, <1>2, <1>3, <1>4, <1>5, <1>6, <1>7, CountedIsLoad DEF IInv

LEMMA NextIInv == IInv /\ [Next]_vars => IInv'
<1> SUFFICES ASSUME IInv, [Next]_vars
             PROVE  IInv'
  OBVIOUS
<1>1. /\ TypeOK /\ CallsInStep /\ QueueIsPending /\ LocksMatchWork /\ FlagsMatchCalls
      /\ CloseInOrder /\ DoneIsOver /\ CallbacksInOrder /\ CounterIsLoad /\ Counted
  BY CountedIsLoad DEF IInv
<1>2. TypeOK' /\ CloseInOrder'
  BY <1>1, TypingStep, CloseOrderKept
<1>3. CallsInStep'
  BY <1>1, InStepKept DEF CallsInStep
<1>4. QueueIsPending' /\ LocksMatchWork' /\ FlagsMatchCalls' /\ DoneIsOver'
  BY <1>1, QueueKept, LocksKept, FlagsKept, DoneKept
<1>5. CallbacksInOrder'
  BY <1>1, CallbacksKept
<1>6. Counted'
  BY <1>1, CountKept
<1>7. (CallsInStep /\ CallbacksInOrder /\ TypeOK => (CounterIsLoad <=> Counted))'
  BY CountedIsLoad, PTL
<1> QED
  BY <1>2, <1>3, <1>4, <1>5, <1>6, <1>7 DEF IInv

\* The invariant, from which the others follow.
THEOREM PoolInvariance == Spec => []IInv
BY InitIInv, NextIInv, PTL DEF Spec

\* Every variable of the pool keeps its type.
THEOREM PoolTypeCorrect == Spec => []TypeOK
<1>1. IInv => TypeOK
  BY DEF IInv
<1> QED
  BY <1>1, PoolInvariance, PTL

\* connections_counter is the number of connections acquired plus the number of calls
\* that are queued, run or still have to release their slot (async_connection.py 207-212).
THEOREM PoolCountsLoad == Spec => []CounterIsLoad
<1>1. IInv => CounterIsLoad
  BY DEF IInv
<1> QED
  BY <1>1, PoolInvariance, PTL

\* An interrupt sent for a call that was cancelled never hits the execution of another
\* one, however many calls wait for a connection (233-241).
THEOREM PoolInterruptsOwn == Spec => []InterruptHitsCancelled
<1>1. IInv => InterruptHitsCancelled
  <2> SUFFICES ASSUME IInv, NEW k \in Calls, work[k] = "execute"
               PROVE  /\ interruptedBy[conn[k]] \subseteq {k, NULL}
                      /\ k \in interruptedBy[conn[k]] => cancelled[k]
    BY DEF InterruptHitsCancelled
  <2>1. conn[k] \in Conns
    BY DEF IInv, CallsInStep, InStep, HasLock, BeforeSubmit, TypeOK
  <2> QED
    BY <2>1, PoolFacts DEF IInv, FlagsMatchCalls
<1> QED
  BY <1>1, PoolInvariance, PTL

\* After close() no thread works, nothing is queued, and no connection is left (274-286).
THEOREM PoolCloseQuiet == Spec => []ClosedIsQuiet
<1>1. IInv => ClosedIsQuiet
  <2> SUFFICES ASSUME IInv, closer = "done"
               PROVE  /\ \A k \in Calls : future[k] \in {"none", "cancelled", "finished"}
                      /\ \A c \in Pool : handle[c] = "none" /\ lockOf[c] = NULL
                                         /\ running[c] = NULL
    BY DEF ClosedIsQuiet
  <2>1. ASSUME NEW k \in Calls
        PROVE  future[k] \in {"none", "cancelled", "finished"}
    <3>1. queue = <<>> /\ future[k] # "running"
      BY DEF IInv, DoneIsOver
    <3>2. future[k] # "pending"
      BY <3>1, EmptySeq DEF IInv, QueueIsPending
    <3> QED
      BY <3>1, <3>2 DEF IInv, TypeOK
  <2>2. ASSUME NEW c \in Pool
        PROVE  handle[c] = "none"
    <3>1. at = PoolSize + 1
      BY PoolAssumption DEF IInv, CloseInOrder, TypeOK, Pool
    <3>2. c < at
      BY <3>1, PoolAssumption DEF Pool
    <3> QED
      BY <3>2 DEF IInv, CloseInOrder
  <2>3. ASSUME NEW c \in Pool
        PROVE  lockOf[c] = NULL /\ running[c] = NULL
    <3>1. c \in Conns
      BY PoolFacts
    <3>2. \A k \in Calls : work[k] \notin HasLock
      BY <2>1 DEF IInv, CallsInStep, InStep
    <3>3. \A k \in Calls : work[k] \notin IsRegistered
      BY <3>2 DEF HasLock, IsRegistered
    <3>4. lockOf[c] \notin Calls /\ running[c] \notin Calls
      BY <3>1, <3>2, <3>3 DEF IInv, LocksMatchWork
    <3> QED
      BY <3>1, <3>4 DEF IInv, TypeOK
  <2> QED
    BY <2>1, <2>2, <2>3
<1> QED
  BY <1>1, PoolInvariance, PTL

\* The pool implements QueryPool: one call at a time per connection, an answer only when
\* the work is over, and no call started after its cancellation.
THEOREM PoolKeepsPromise == Spec => KeepsPromise
<1>1. Init => Promise!Init
  BY DEF Init, Promise!Init, WorkOf, OutcomeOf
<1>2. IInv /\ IInv' /\ [Next]_vars => [Promise!Next]_Promise!vars
  BY StepKeepsPromise
<1> QED
  BY <1>1, <1>2, PoolInvariance, PTL DEF Spec, KeepsPromise, Promise!Spec

=============================================================================
