--------------------- MODULE ConnectionLifecycleProofs ---------------------
(***************************************************************************)
(* Theorems of ConnectionLifecycle for any number of threads, engine       *)
(* threads and connections, and any nesting depth.                         *)
(*                                                                         *)
(* None of the invariants the runs check is inductive.  What makes them so *)
(* is the shape of the threads' stacks (which entry may lie on which, and  *)
(* what a thread does on top of it), that a thread in the engine is still  *)
(* inside the call that took it there, and that _calls_in_flight is a      *)
(* cardinality.                                                            *)
(*                                                                         *)
(* The second half proves that threads, engine threads and UDFs never wait *)
(* for each other in a circle when native calls release the GIL.           *)
(***************************************************************************)
EXTENDS ConnectionLifecycle, FiniteSetTheorems, SequenceTheorems,
        WellFoundedInduction, TLAPS

\* Append keeps every entry in its place and puts the new one on top.
LEMMA AppendEntries ==
    ASSUME NEW S, NEW s \in Seq(S), NEW x \in S
    PROVE  /\ Append(s, x) \in Seq(S)
           /\ Len(Append(s, x)) = Len(s) + 1
           /\ Last(Append(s, x)) = x
           /\ Append(s, x)[Len(s) + 1] = x
           /\ \A i \in 1..Len(s) : Append(s, x)[i] = s[i]
BY DEF Last

\* Front drops the top and keeps every other entry in its place.
LEMMA FrontEntries ==
    ASSUME NEW S, NEW s \in Seq(S), s # <<>>
    PROVE  /\ Len(s) \in Nat \ {0}
           /\ Front(s) \in Seq(S)
           /\ Len(Front(s)) = Len(s) - 1
           /\ \A i \in 1..(Len(s) - 1) : Front(s)[i] = s[i]
           /\ Front(s) # <<>> => Last(Front(s)) = s[Len(s) - 1]
<1>1. Len(s) \in Nat \ {0}
  BY EmptySeq
<1>2. Front(s) \in Seq(S)
  BY <1>1 DEF Front
<1>3. Len(Front(s)) = Len(s) - 1
  <2>1. PICK n \in Nat : n = Len(s) - 1
    BY <1>1
  <2>2. CASE n = 0
    BY <2>1, <2>2, SubSeqEmpty, EmptySeq DEF Front
  <2>3. CASE n > 0
    BY <2>1, <2>3 DEF Front
  <2> QED
    BY <2>2, <2>3
<1>4. \A i \in 1..(Len(s) - 1) : Front(s)[i] = s[i]
  BY <1>1 DEF Front
<1>5. Front(s) # <<>> => Len(s) - 1 \in 1..(Len(s) - 1)
  BY <1>1, <1>2, <1>3, EmptySeq
<1> QED
  BY <1>1, <1>2, <1>3, <1>4, <1>5 DEF Last

\* Front takes an entry away, so it leaves none of an empty stack.
LEMMA FrontNonEmpty ==
    ASSUME NEW s, Front(s) # <<>>
    PROVE  s # <<>>
BY SubSeqEmpty DEF Front

-----------------------------------------------------------------------------
CallLabels == {"body", "wait", "engine", "back"}
OwnLabels  == {"returned", "interrupt", "init"} \cup CloserLabels

\* What lies on a thread's stack, by what the thread does.
StackShape(t) ==
    /\ Len(stack[t]) <= MaxDepth
    /\ \A i \in 2..Len(stack[t]) : stack[t][i] = UDF => stack[t][i-1] \in Conns
    /\ pc[t] = "user" /\ stack[t] # <<>> => Top(t) = UDF
    /\ pc[t] \in OwnLabels /\ stack[t] # <<>> => Top(t) = UDF
    /\ pc[t] \in CallLabels => stack[t] # <<>> /\ Top(t) \in Conns
    /\ pc[t] = "wantgil" => /\ Len(stack[t]) < MaxDepth
                            /\ stack[t] = <<>> \/ Top(t) \in Conns
    /\ pc[t] = "parked" => stack[t] = <<>>

Shape == \A t \in AllThreads : StackShape(t)

\* The thread that waits, closes, interrupts or creates a handle knows for whom.
Targeted == \A t \in AllThreads : pc[t] \in OwnLabels => target[t] \in Conns

\* A thread in the engine of c is inside a call on c, with at most a UDF on it.
InCall(t, c) ==
    \E i \in 1..Len(stack[t]) :
        /\ stack[t][i] = c
        /\ \/ i = Len(stack[t]) /\ pc[t] \in {"engine", "wantgil"}
           \/ i < Len(stack[t]) /\ stack[t][i+1] = UDF

HolderInCall ==
    \A c \in Conns :
        holder[c] # NULL => InCall(holder[c], c)

ClosedIsIdle ==
    /\ \A c \in Conns : isClosed[c] => closing[c] /\ callsInFlight[c] = 0
    /\ \A t \in AllThreads : pc[t] \in TailLabels => callsInFlight[target[t]] = 0

\* A handle is closed or missing only because of a close() that is past its wait.
HandleLostInTeardown ==
    \A c \in Conns :
        connection[c] # "live" => isClosed[c] \/ \E t \in AllThreads : TearingDown(t, c)

\* The inductive invariant.
IInv ==
    /\ TypeOK
    /\ Shape
    /\ Targeted
    /\ InFlightCountsFrames
    /\ HolderInCall
    /\ OneCloser
    /\ ClosedIsIdle
    /\ UdfNeverWaitsInClose
    /\ HandleLostInTeardown

-----------------------------------------------------------------------------
(* Stacks.                                                                 *)

Entries == Conns \cup {UDF}

\* Lengths are numbers, and an empty stack is the one of length 0.
LEMMA StackLength ==
    ASSUME TypeOK, NEW t \in AllThreads
    PROVE  /\ stack[t] \in Seq(Entries)
           /\ Len(stack[t]) \in Nat
           /\ stack[t] = <<>> <=> Len(stack[t]) = 0
           /\ \A i \in 1..Len(stack[t]) : stack[t][i] \in Entries
<1>1. stack[t] \in Seq(Entries)
  BY DEF TypeOK, Entries
<1> QED
  BY <1>1, EmptySeq

\* Push puts an entry on one thread's stack and leaves the others alone.
LEMMA PushEntries ==
    ASSUME TypeOK, NEW t \in AllThreads, NEW x \in Entries, Push(t, x)
    PROVE  /\ stack' \in [AllThreads -> Seq(Entries)]
           /\ Len(stack'[t]) = Len(stack[t]) + 1
           /\ stack'[t] # <<>>
           /\ Last(stack'[t]) = x
           /\ stack'[t][Len(stack[t]) + 1] = x
           /\ \A i \in 1..Len(stack[t]) : stack'[t][i] = stack[t][i]
           /\ \A u \in AllThreads \ {t} : stack'[u] = stack[u]
<1>1. stack \in [AllThreads -> Seq(Entries)] /\ stack[t] \in Seq(Entries)
  BY DEF TypeOK, Entries
<1>2. stack' = [stack EXCEPT ![t] = Append(@, x)]
  BY DEF Push
<1>3. stack'[t] = Append(stack[t], x)
  BY <1>1, <1>2
<1>4. stack'[t] # <<>>
  BY <1>1, <1>3, AppendProperties
<1>5. \A u \in AllThreads \ {t} : stack'[u] = stack[u]
  BY <1>1, <1>2
<1>6. stack' \in [AllThreads -> Seq(Entries)]
  BY <1>1, <1>2, AppendEntries
<1> QED
  BY <1>1, <1>3, <1>4, <1>5, <1>6, AppendEntries

\* Pop takes the top off one thread's stack and leaves the others alone.
LEMMA PopEntries ==
    ASSUME TypeOK, NEW t \in AllThreads, stack[t] # <<>>, Pop(t)
    PROVE  /\ stack' \in [AllThreads -> Seq(Entries)]
           /\ Len(stack[t]) \in Nat \ {0}
           /\ Len(stack'[t]) = Len(stack[t]) - 1
           /\ stack'[t] = Front(stack[t])
           /\ stack'[t] # <<>> => Last(stack'[t]) = stack[t][Len(stack[t]) - 1]
           /\ \A i \in 1..(Len(stack[t]) - 1) : stack'[t][i] = stack[t][i]
           /\ \A u \in AllThreads \ {t} : stack'[u] = stack[u]
<1>1. stack \in [AllThreads -> Seq(Entries)] /\ stack[t] \in Seq(Entries)
  BY DEF TypeOK, Entries
<1>2. stack' = [stack EXCEPT ![t] = Front(@)]
  BY DEF Pop
<1>3. stack'[t] = Front(stack[t])
  BY <1>1, <1>2
<1>5. \A u \in AllThreads \ {t} : stack'[u] = stack[u]
  BY <1>1, <1>2
<1>6. stack' \in [AllThreads -> Seq(Entries)]
  BY <1>1, <1>2, FrontEntries
<1> QED
  BY <1>1, <1>3, <1>5, <1>6, FrontEntries

\* A thread's frames are finitely many, and an empty set of them means no call.
LEMMA FramesFinite ==
    ASSUME TypeOK, NEW c \in Conns
    PROVE  /\ IsFiniteSet(Frames(c))
           /\ Cardinality(Frames(c)) \in Nat
<1>1. IsFiniteSet(AllThreads)
  BY LifecycleAssumption DEF AllThreads
<1>2. IsFiniteSet(1..MaxDepth)
  BY FS_Interval, LifecycleAssumption
<1>3. IsFiniteSet(AllThreads \X (1..MaxDepth))
  BY <1>1, <1>2, FS_Product
<1>4. Frames(c) \subseteq AllThreads \X (1..MaxDepth)
  BY DEF Frames
<1> QED
  BY <1>3, <1>4, FS_Subset, FS_CardinalityType

\* Push adds one frame to the connection it pushes and none to another.
LEMMA PushFrames ==
    ASSUME TypeOK, NEW t \in AllThreads, NEW x \in Entries, Push(t, x),
           Len(stack[t]) < MaxDepth, NEW c \in Conns
    PROVE  Cardinality(Frames(c)') =
               IF x = c THEN Cardinality(Frames(c)) + 1 ELSE Cardinality(Frames(c))
<1> DEFINE f == <<t, Len(stack[t]) + 1>>
<1>1. Len(stack[t]) \in Nat /\ MaxDepth \in Nat
  BY StackLength, LifecycleAssumption
<1>2. f \notin Frames(c)
  BY <1>1 DEF Frames
<1>3. CASE x = c
  <2>1. Frames(c)' = Frames(c) \cup {f}
    BY <1>1, <1>3, PushEntries DEF Frames
  <2> QED
    BY <1>2, <1>3, <2>1, FramesFinite, FS_AddElement
<1>4. CASE x # c
  <2>1. ASSUME NEW u \in AllThreads, NEW i \in 1..MaxDepth
        PROVE  (i <= Len(stack'[u]) /\ stack'[u][i] = c)
                   <=> (i <= Len(stack[u]) /\ stack[u][i] = c)
    <3>1. CASE u = t
      BY <1>1, <1>4, <3>1, PushEntries
    <3>2. CASE u # t
      BY <3>2, PushEntries
    <3> QED
      BY <3>1, <3>2
  <2>2. Frames(c)' = Frames(c)
    BY <2>1 DEF Frames
  <2> QED
    BY <1>4, <2>2
<1> QED
  BY <1>3, <1>4

\* Pop takes one frame from the connection on top and none from another.
LEMMA PopFrames ==
    ASSUME TypeOK, NEW t \in AllThreads, stack[t] # <<>>, Pop(t),
           Len(stack[t]) <= MaxDepth, NEW c \in Conns
    PROVE  Cardinality(Frames(c)') =
               IF Top(t) = c THEN Cardinality(Frames(c)) - 1 ELSE Cardinality(Frames(c))
<1> DEFINE f == <<t, Len(stack[t])>>
<1>1. Len(stack[t]) \in Nat \ {0} /\ MaxDepth \in Nat
  BY PopEntries, LifecycleAssumption
<1>2. Top(t) = stack[t][Len(stack[t])]
  BY DEF Top, Last
<1>3. f \in Frames(c) <=> Top(t) = c
  BY <1>1, <1>2 DEF Frames
<1>4. Frames(c)' = Frames(c) \ {f}
  BY <1>1, PopEntries DEF Frames
<1>5. Cardinality(Frames(c) \ {f}) =
          IF f \in Frames(c) THEN Cardinality(Frames(c)) - 1 ELSE Cardinality(Frames(c))
  BY FramesFinite, FS_RemoveElement
<1> QED
  BY <1>3, <1>4, <1>5, Zenon

\* A call on the stack is a frame of its connection.
LEMMA OnStackCounted ==
    ASSUME TypeOK, Shape, NEW t \in AllThreads, NEW c \in Conns, OnStack(t, c)
    PROVE  Cardinality(Frames(c)) > 0
<1>1. PICK i \in 1..Len(stack[t]) : stack[t][i] = c
  BY DEF OnStack
<1>2. i \in 1..MaxDepth
  BY <1>1, StackLength, LifecycleAssumption DEF Shape, StackShape
<1>3. <<t, i>> \in Frames(c)
  BY <1>1, <1>2, StackLength DEF Frames
<1> QED
  BY <1>3, FramesFinite, FS_EmptySet

-----------------------------------------------------------------------------
(* Each action preserves the type invariant.                               *)

\* The counters stay numbers because they count frames.
LEMMA CountIsNat ==
    ASSUME TypeOK, Shape, InFlightCountsFrames, NEW t \in AllThreads, InBody(t)
    PROVE  /\ stack[t] # <<>>
           /\ Top(t) \in Conns
           /\ OnStack(t, Top(t))
           /\ callsInFlight[Top(t)] - 1 \in Nat
<1>1. stack[t] # <<>> /\ Top(t) \in Conns
  BY DEF InBody, Shape, StackShape, CallLabels
<1>2. OnStack(t, Top(t))
  BY <1>1, StackLength DEF OnStack, Top, Last
<1>3. callsInFlight[Top(t)] > 0 /\ callsInFlight[Top(t)] \in Nat
  BY <1>1, <1>2, OnStackCounted DEF InFlightCountsFrames, TypeOK
<1> QED
  BY <1>1, <1>2, <1>3

\* Every step leaves values of the right kind.
LEMMA TypingStep ==
    ASSUME TypeOK, Shape, Targeted, InFlightCountsFrames, [Next]_vars
    PROVE  TypeOK'
<1>1. ASSUME NEW t \in AllThreads, NEW c \in Conns, Enter(t, c)
      PROVE  TypeOK'
  <2>1. Push(t, c) /\ c \in Entries
    BY <1>1 DEF Enter, Entries
  <2>2. stack' \in [AllThreads -> Seq(Entries)]
    BY <2>1, PushEntries
  <2>3. callsInFlight' \in [Conns -> Nat] /\ older' \in SUBSET (Conns \X Conns)
    BY <1>1 DEF TypeOK, Enter, Busy
  <2>4. pc' \in [AllThreads -> Labels]
    BY <1>1 DEF TypeOK, Enter, Goto, Labels
  <2> QED
    BY <1>1, <2>2, <2>3, <2>4 DEF TypeOK, Enter, engineVars, Entries
<1>2. ASSUME NEW t \in AllThreads, Leave(t)
      PROVE  TypeOK'
  <2>1. InBody(t) /\ Pop(t)
    BY <1>2 DEF Leave
  <2>2. stack' \in [AllThreads -> Seq(Entries)]
    BY <2>1, PopEntries DEF InBody, Shape, StackShape, CallLabels
  <2>3. callsInFlight' \in [Conns -> Nat]
    BY <1>2, <2>1, CountIsNat DEF TypeOK, Leave
  <2>4. older' \in SUBSET (Conns \X Conns)
    BY <1>2 DEF TypeOK, Leave
  <2>5. pc' \in [AllThreads -> Labels]
    BY <1>2 DEF TypeOK, Leave, Goto, Labels
  <2> QED
    BY <1>2, <2>2, <2>3, <2>4, <2>5 DEF TypeOK, Leave, engineVars, Entries
<1>3. ASSUME NEW t \in AllThreads, NEW kind \in CallKinds, NativeCall(t, kind)
      PROVE  TypeOK'
  BY <1>3 DEF TypeOK, Labels, CloserLabels, NativeCall, Goto, callVars, engineVars
<1>4. ASSUME NEW t \in AllThreads, BackToPython(t)
      PROVE  TypeOK'
  BY <1>4 DEF TypeOK, Labels, CloserLabels, BackToPython, Goto, callVars, engineVars
<1>5. ASSUME NEW t \in AllThreads, EngineTake(t)
      PROVE  TypeOK'
  BY <1>5 DEF TypeOK, Labels, CloserLabels, EngineTake, Goto, callVars
<1>6. ASSUME NEW t \in AllThreads, EngineStart(t)
      PROVE  TypeOK'
  BY <1>6 DEF TypeOK, Labels, CloserLabels, EngineStart, callVars
<1>7. ASSUME NEW t \in AllThreads, EngineLeave(t)
      PROVE  TypeOK'
  BY <1>7 DEF TypeOK, Labels, CloserLabels, EngineLeave, Goto, callVars
<1>8. ASSUME NEW t \in AllThreads, UdfOnCaller(t)
      PROVE  TypeOK'
  BY <1>8 DEF TypeOK, Labels, CloserLabels, UdfOnCaller, Goto, callVars, engineVars
<1>9. ASSUME NEW t \in AllThreads, EnterUdf(t)
      PROVE  TypeOK'
  <2>1. Push(t, UDF) /\ UDF \in Entries
    BY <1>9 DEF EnterUdf, Entries
  <2>2. stack' \in [AllThreads -> Seq(Entries)]
    BY <2>1, PushEntries
  <2> QED
    BY <1>9, <2>2 DEF TypeOK, Labels, EnterUdf, Goto, callVars, engineVars, Entries
<1>10. ASSUME NEW t \in AllThreads, LeaveUdfOnCaller(t)
      PROVE  TypeOK'
  <2>1. Pop(t) /\ Front(stack[t]) # <<>>
    BY <1>10 DEF LeaveUdfOnCaller
  <2>2. stack[t] # <<>>
    BY <1>10, <2>1, FrontNonEmpty DEF LeaveUdfOnCaller
  <2>3. stack' \in [AllThreads -> Seq(Entries)]
    BY <2>1, <2>2, PopEntries
  <2> QED
    BY <1>10, <2>3 DEF TypeOK, Labels, LeaveUdfOnCaller, Goto, callVars, engineVars, Entries
<1>11. ASSUME NEW t \in AllThreads, NEW c \in Conns, CloseBegin(t, c)
      PROVE  TypeOK'
  BY <1>11 DEF TypeOK, Labels, CloserLabels, CloseBegin, Goto, engineVars, Targeted,
       OwnLabels
<1>12. ASSUME NEW t \in AllThreads, NEW c \in Conns, CloseAgain(t, c)
      PROVE  TypeOK'
  BY <1>12 DEF TypeOK, Labels, CloserLabels, CloseAgain, Goto, callVars, engineVars,
       Targeted, OwnLabels
<1>13. ASSUME NEW t \in AllThreads, CloseInterrupt(t)
      PROVE  TypeOK'
  BY <1>13 DEF TypeOK, Labels, CloserLabels, CloseInterrupt, callVars, engineVars,
       Targeted, OwnLabels
<1>14. ASSUME NEW t \in AllThreads, CloseAbort(t)
      PROVE  TypeOK'
  BY <1>14 DEF TypeOK, Labels, CloserLabels, CloseAbort, Goto, engineVars, Targeted,
       OwnLabels
<1>15. ASSUME NEW t \in AllThreads, CloseProceed(t)
      PROVE  TypeOK'
  BY <1>15 DEF TypeOK, Labels, CloserLabels, CloseProceed, Goto, callVars, engineVars,
       Targeted, OwnLabels
<1>16. ASSUME NEW t \in AllThreads, CloseNative(t)
      PROVE  TypeOK'
  BY <1>16 DEF TypeOK, Labels, CloserLabels, CloseNative, Goto, engineVars, Targeted,
       OwnLabels
<1>17. ASSUME NEW t \in AllThreads, CloseClear(t)
      PROVE  TypeOK'
  BY <1>17 DEF TypeOK, Labels, CloserLabels, CloseClear, Goto, engineVars, Targeted,
       OwnLabels
<1>18. ASSUME NEW t \in AllThreads, CloseFinish(t)
      PROVE  TypeOK'
  BY <1>18 DEF TypeOK, Labels, CloserLabels, CloseFinish, Goto, engineVars, Targeted,
       OwnLabels
<1>19. ASSUME NEW t \in AllThreads, CloseReturn(t)
      PROVE  TypeOK'
  BY <1>19 DEF TypeOK, Labels, CloserLabels, CloseReturn, Goto, callVars, engineVars,
       Targeted, OwnLabels
<1>20. ASSUME NEW t \in AllThreads, NEW c \in Conns, InterruptRead(t, c)
      PROVE  TypeOK'
  BY <1>20 DEF TypeOK, Labels, CloserLabels, InterruptRead, Goto, callVars, engineVars
<1>21. ASSUME NEW t \in AllThreads, InterruptCall(t)
      PROVE  TypeOK'
  BY <1>21 DEF TypeOK, Labels, CloserLabels, InterruptCall, Goto, callVars, engineVars,
       Targeted, OwnLabels
<1>22. ASSUME NEW t \in AllThreads, NEW c \in Conns, InitCheck(t, c)
      PROVE  TypeOK'
  BY <1>22 DEF TypeOK, Labels, CloserLabels, InitCheck, Goto, callVars, engineVars
<1>23. ASSUME NEW t \in AllThreads, InitCreate(t)
      PROVE  TypeOK'
  BY <1>23 DEF TypeOK, Labels, CloserLabels, InitCreate, Goto, engineVars, Targeted,
       OwnLabels
<1>24. ASSUME NEW w \in Workers, LeaveUdfOnWorker(w)
      PROVE  TypeOK'
  <2>1. Pop(w) /\ stack[w] # <<>> /\ w \in AllThreads
    BY <1>24 DEF LeaveUdfOnWorker, AllThreads
  <2>2. stack' \in [AllThreads -> Seq(Entries)]
    BY <2>1, PopEntries
  <2> QED
    BY <1>24, <2>1, <2>2 DEF TypeOK, Labels, LeaveUdfOnWorker, Goto, callVars, engineVars,
       Entries
<1>25. ASSUME NEW w \in Workers, NEW c \in Conns, UdfOnWorker(w, c)
      PROVE  TypeOK'
  BY <1>25 DEF TypeOK, Labels, CloserLabels, UdfOnWorker, Goto, callVars, engineVars,
       AllThreads
<1>26. CASE UNCHANGED vars
  BY <1>26 DEF vars, TypeOK
<1> QED
  BY <1>1, <1>2, <1>3, <1>4, <1>5, <1>6, <1>7, <1>8, <1>9, <1>10, <1>11, <1>12, <1>13,
       <1>14, <1>15, <1>16, <1>17, <1>18, <1>19, <1>20, <1>21, <1>22, <1>23, <1>24,
       <1>25, <1>26 DEF Next, Call, Engine, Close, Uncounted, WorkerUdf

-----------------------------------------------------------------------------
(* Each action preserves the shape of the stacks.                          *)

\* A call lies on a call or a UDF, a UDF on a call, and what a thread does fits its top.
LEMMA ShapeStep ==
    ASSUME TypeOK, Shape, [Next]_vars
    PROVE  Shape'
<1>1. ASSUME NEW t \in AllThreads, NEW c \in Conns, Enter(t, c)
      PROVE  Shape'
  <2>1. Push(t, c) /\ c \in Entries /\ c # UDF /\ Len(stack[t]) < MaxDepth
    BY <1>1, LifecycleAssumption DEF Enter, Entries
  <2>2. /\ \A u \in AllThreads \ {t} : stack'[u] = stack[u]
        /\ pc' = [pc EXCEPT ![t] = "body"]
    BY <1>1, <2>1, PushEntries DEF Enter, Goto
  <2>3. /\ Len(stack'[t]) <= MaxDepth
        /\ stack'[t] # <<>>
        /\ Last(stack'[t]) = c
    BY <2>1, PushEntries, StackLength, LifecycleAssumption
  <2>4. \A i \in 2..Len(stack'[t]) : stack'[t][i] = UDF => stack'[t][i-1] \in Conns
    BY <2>1, PushEntries, StackLength DEF Shape, StackShape
  <2>5. \A u \in AllThreads \ {t} : StackShape(u)'
    BY <2>2 DEF TypeOK, Shape, StackShape, Top
  <2>6. StackShape(t)'
    BY <2>2, <2>3, <2>4 DEF TypeOK, StackShape, Top, OwnLabels, CloserLabels
  <2> QED
    BY <2>5, <2>6 DEF Shape
<1>2. ASSUME NEW t \in AllThreads, Leave(t)
      PROVE  Shape'
  <2>1. Pop(t) /\ stack[t] # <<>> /\ pc[t] = "body"
    BY <1>2 DEF Leave, InBody, Shape, StackShape, CallLabels
  <2>2. /\ \A u \in AllThreads \ {t} : stack'[u] = stack[u]
        /\ pc' = [pc EXCEPT ![t] = IF stack'[t] # <<>> /\ Last(stack'[t]) \in Conns
                                   THEN "body" ELSE "user"]
    BY <1>2, <2>1, PopEntries DEF Leave, Goto
  <2>3. /\ Len(stack'[t]) <= MaxDepth
        /\ \A i \in 2..Len(stack'[t]) : stack'[t][i] = UDF => stack'[t][i-1] \in Conns
    BY <2>1, PopEntries, LifecycleAssumption DEF Shape, StackShape
  <2>4. stack'[t] # <<>> => Last(stack'[t]) \in Entries
    BY <2>1, PopEntries, ElementOfSeq, EmptySeq DEF Last
  <2>5. \A u \in AllThreads \ {t} : StackShape(u)'
    BY <2>2 DEF TypeOK, Shape, StackShape, Top
  <2>6. StackShape(t)'
    BY <2>2, <2>3, <2>4 DEF TypeOK, StackShape, Top, Entries, CallLabels, OwnLabels,
       CloserLabels
  <2> QED
    BY <2>5, <2>6 DEF Shape
<1>3. ASSUME NEW t \in AllThreads, NEW kind \in CallKinds, NativeCall(t, kind)
      PROVE  Shape'
  BY <1>3 DEF TypeOK, Shape, StackShape, Top, CallLabels, OwnLabels, CloserLabels,
       NativeCall, Goto, callVars, InBody
<1>4. ASSUME NEW t \in AllThreads, BackToPython(t)
      PROVE  Shape'
  BY <1>4 DEF TypeOK, Shape, StackShape, Top, CallLabels, OwnLabels, CloserLabels,
       BackToPython, Goto, callVars
<1>5. ASSUME NEW t \in AllThreads, EngineTake(t)
      PROVE  Shape'
  BY <1>5 DEF TypeOK, Shape, StackShape, Top, CallLabels, OwnLabels, CloserLabels,
       EngineTake, Goto, callVars
<1>6. ASSUME NEW t \in AllThreads, EngineStart(t)
      PROVE  Shape'
  BY <1>6 DEF TypeOK, Shape, StackShape, Top, CallLabels, OwnLabels, CloserLabels,
       EngineStart, callVars
<1>7. ASSUME NEW t \in AllThreads, EngineLeave(t)
      PROVE  Shape'
  BY <1>7 DEF TypeOK, Shape, StackShape, Top, CallLabels, OwnLabels, CloserLabels,
       EngineLeave, Goto, callVars
<1>8. ASSUME NEW t \in AllThreads, UdfOnCaller(t)
      PROVE  Shape'
  BY <1>8 DEF TypeOK, Shape, StackShape, Top, CallLabels, OwnLabels, CloserLabels,
       UdfOnCaller, Goto, callVars
<1>9. ASSUME NEW t \in AllThreads, EnterUdf(t)
      PROVE  Shape'
  <2>1. Push(t, UDF) /\ UDF \in Entries
    BY <1>9 DEF EnterUdf, Entries
  <2>2. /\ \A u \in AllThreads \ {t} : stack'[u] = stack[u]
        /\ pc' = [pc EXCEPT ![t] = "user"]
    BY <1>9, <2>1, PushEntries DEF EnterUdf, Goto
  <2>3. /\ Len(stack[t]) < MaxDepth
        /\ stack[t] = <<>> \/ stack[t][Len(stack[t])] \in Conns
    BY <1>9 DEF EnterUdf, Shape, StackShape, Top, Last
  <2>4. Len(stack'[t]) <= MaxDepth /\ Last(stack'[t]) = UDF
    BY <2>1, <2>3, PushEntries, StackLength, LifecycleAssumption
  <2>5. \A i \in 2..Len(stack'[t]) : stack'[t][i] = UDF => stack'[t][i-1] \in Conns
    BY <2>1, <2>3, PushEntries, StackLength DEF Shape, StackShape
  <2>6. \A u \in AllThreads \ {t} : StackShape(u)'
    BY <2>2 DEF TypeOK, Shape, StackShape, Top
  <2>7. StackShape(t)'
    BY <2>2, <2>4, <2>5 DEF TypeOK, StackShape, Top, CallLabels
  <2> QED
    BY <2>6, <2>7 DEF Shape
<1>10. ASSUME NEW t \in AllThreads, LeaveUdfOnCaller(t)
      PROVE  Shape'
  <2>1. Pop(t) /\ Front(stack[t]) # <<>> /\ pc[t] = "user"
    BY <1>10 DEF LeaveUdfOnCaller, InUserCode
  <2>2. stack[t] # <<>>
    BY <2>1, FrontNonEmpty
  <2>3. /\ \A u \in AllThreads \ {t} : stack'[u] = stack[u]
        /\ pc' = [pc EXCEPT ![t] = "engine"]
        /\ stack'[t] # <<>>
    BY <1>10, <2>1, <2>2, PopEntries DEF LeaveUdfOnCaller, Goto
  <2>4. /\ Len(stack'[t]) <= MaxDepth
        /\ \A i \in 2..Len(stack'[t]) : stack'[t][i] = UDF => stack'[t][i-1] \in Conns
    <3>1. Pop(t) /\ stack[t] # <<>>
      BY <2>1, <2>2
    <3>2. /\ Len(stack'[t]) = Len(stack[t]) - 1
          /\ Len(stack[t]) \in Nat
          /\ \A i \in 1..(Len(stack[t]) - 1) : stack'[t][i] = stack[t][i]
      BY <3>1, PopEntries
    <3>3. /\ Len(stack[t]) <= MaxDepth
          /\ \A i \in 2..Len(stack[t]) : stack[t][i] = UDF => stack[t][i-1] \in Conns
      BY DEF Shape, StackShape
    <3> QED
      BY <3>2, <3>3, LifecycleAssumption
  <2>5. Len(stack[t]) \in 2..Len(stack[t]) /\ stack[t][Len(stack[t])] = UDF
    BY <2>1, <2>2, <2>3, PopEntries, EmptySeq DEF Shape, StackShape, Top, Last
  <2>6. Last(stack'[t]) \in Conns
    BY <2>1, <2>2, <2>3, <2>5, PopEntries DEF Shape, StackShape
  <2>7. \A u \in AllThreads \ {t} : StackShape(u)'
    BY <2>3 DEF TypeOK, Shape, StackShape, Top
  <2>8. StackShape(t)'
    BY <2>3, <2>4, <2>6 DEF TypeOK, StackShape, Top, CallLabels, OwnLabels, CloserLabels
  <2> QED
    BY <2>7, <2>8 DEF Shape
<1>11. ASSUME NEW t \in AllThreads, NEW c \in Conns, CloseBegin(t, c)
      PROVE  Shape'
  BY <1>11 DEF TypeOK, Shape, StackShape, Top, CallLabels, OwnLabels, CloserLabels,
       CloseBegin, Goto, InUserCode
<1>12. ASSUME NEW t \in AllThreads, NEW c \in Conns, CloseAgain(t, c)
      PROVE  Shape'
  BY <1>12 DEF TypeOK, Shape, StackShape, Top, CallLabels, OwnLabels, CloserLabels,
       CloseAgain, Goto, callVars, InUserCode
<1>13. ASSUME NEW t \in AllThreads, CloseInterrupt(t)
      PROVE  Shape'
  BY <1>13 DEF TypeOK, Shape, StackShape, Top, CallLabels, OwnLabels, CloserLabels,
       CloseInterrupt, callVars
<1>14. ASSUME NEW t \in AllThreads, CloseAbort(t)
      PROVE  Shape'
  BY <1>14 DEF TypeOK, Shape, StackShape, Top, CallLabels, OwnLabels, CloserLabels,
       CloseAbort, Goto
<1>15. ASSUME NEW t \in AllThreads, CloseProceed(t)
      PROVE  Shape'
  BY <1>15 DEF TypeOK, Shape, StackShape, Top, CallLabels, OwnLabels, CloserLabels,
       CloseProceed, Goto, callVars
<1>16. ASSUME NEW t \in AllThreads, CloseNative(t)
      PROVE  Shape'
  BY <1>16 DEF TypeOK, Shape, StackShape, Top, CallLabels, OwnLabels, CloserLabels,
       CloseNative, Goto
<1>17. ASSUME NEW t \in AllThreads, CloseClear(t)
      PROVE  Shape'
  BY <1>17 DEF TypeOK, Shape, StackShape, Top, CallLabels, OwnLabels, CloserLabels,
       CloseClear, Goto
<1>18. ASSUME NEW t \in AllThreads, CloseFinish(t)
      PROVE  Shape'
  BY <1>18 DEF TypeOK, Shape, StackShape, Top, CallLabels, OwnLabels, CloserLabels,
       CloseFinish, Goto
<1>19. ASSUME NEW t \in AllThreads, CloseReturn(t)
      PROVE  Shape'
  BY <1>19 DEF TypeOK, Shape, StackShape, Top, CallLabels, OwnLabels, CloserLabels,
       CloseReturn, Goto, callVars
<1>20. ASSUME NEW t \in AllThreads, NEW c \in Conns, InterruptRead(t, c)
      PROVE  Shape'
  BY <1>20 DEF TypeOK, Shape, StackShape, Top, CallLabels, OwnLabels, CloserLabels,
       InterruptRead, Goto, callVars, InUserCode
<1>21. ASSUME NEW t \in AllThreads, InterruptCall(t)
      PROVE  Shape'
  BY <1>21 DEF TypeOK, Shape, StackShape, Top, CallLabels, OwnLabels, CloserLabels,
       InterruptCall, Goto, callVars
<1>22. ASSUME NEW t \in AllThreads, NEW c \in Conns, InitCheck(t, c)
      PROVE  Shape'
  BY <1>22 DEF TypeOK, Shape, StackShape, Top, CallLabels, OwnLabels, CloserLabels,
       InitCheck, Goto, callVars, InUserCode
<1>23. ASSUME NEW t \in AllThreads, InitCreate(t)
      PROVE  Shape'
  BY <1>23 DEF TypeOK, Shape, StackShape, Top, CallLabels, OwnLabels, CloserLabels,
       InitCreate, Goto
<1>24. ASSUME NEW w \in Workers, LeaveUdfOnWorker(w)
      PROVE  Shape'
  <2>1. Pop(w) /\ stack[w] = <<UDF>> /\ w \in AllThreads
    BY <1>24 DEF LeaveUdfOnWorker, AllThreads
  <2>2. stack[w] # <<>> /\ Len(stack[w]) = 1
    BY <2>1
  <2>3. /\ \A u \in AllThreads \ {w} : stack'[u] = stack[u]
        /\ pc' = [pc EXCEPT ![w] = "parked"]
    BY <1>24, <2>1, <2>2, PopEntries DEF LeaveUdfOnWorker, Goto
  <2>4. stack'[w] \in Seq(Entries) /\ Len(stack'[w]) = 0
    <3>1. stack'[w] \in Seq(Entries) /\ Len(stack'[w]) = Len(stack[w]) - 1
      BY <2>1, <2>2, PopEntries
    <3> QED
      BY <2>2, <3>1
  <2>5. stack'[w] = <<>>
    BY <2>4, EmptySeq
  <2>6. \A u \in AllThreads \ {w} : StackShape(u)'
    BY <2>3 DEF TypeOK, Shape, StackShape, Top
  <2>7. StackShape(w)'
    <3>1. pc'[w] = "parked" /\ Len(stack'[w]) <= MaxDepth
      BY <2>1, <2>3, <2>4, LifecycleAssumption DEF TypeOK
    <3>2. \A i \in 2..Len(stack'[w]) : FALSE
      BY <2>4
    <3> QED
      BY <2>5, <3>1, <3>2 DEF StackShape, CallLabels, OwnLabels, CloserLabels
  <2> QED
    BY <2>1, <2>6, <2>7 DEF Shape
<1>25. ASSUME NEW w \in Workers, NEW c \in Conns, UdfOnWorker(w, c)
      PROVE  Shape'
  <2>1. w \in AllThreads /\ stack[w] = <<>> /\ stack' = stack
    BY <1>25 DEF UdfOnWorker, AllThreads, Shape, StackShape
  <2>2. Len(stack[w]) < MaxDepth
    BY <2>1, StackLength, LifecycleAssumption
  <2> QED
    BY <1>25, <2>1, <2>2 DEF TypeOK, Shape, StackShape, Top, CallLabels, OwnLabels,
       CloserLabels, UdfOnWorker, Goto
<1>26. CASE UNCHANGED vars
  BY <1>26 DEF vars, TypeOK, Shape, StackShape, Top
<1> QED
  BY <1>1, <1>2, <1>3, <1>4, <1>5, <1>6, <1>7, <1>8, <1>9, <1>10, <1>11, <1>12, <1>13,
       <1>14, <1>15, <1>16, <1>17, <1>18, <1>19, <1>20, <1>21, <1>22, <1>23, <1>24,
       <1>25, <1>26 DEF Next, Call, Engine, Close, Uncounted, WorkerUdf

\* close(), interrupt() and init_connection() act on the connection they were called for.
LEMMA TargetedStep ==
    ASSUME TypeOK, Targeted, [Next]_vars
    PROVE  Targeted'
<1>1. ASSUME NEW t \in AllThreads, NEW c \in Conns, Enter(t, c)
      PROVE  Targeted'
  BY <1>1 DEF TypeOK, Targeted, OwnLabels, CloserLabels, Enter, Goto
<1>2. ASSUME NEW t \in AllThreads, Leave(t)
      PROVE  Targeted'
  BY <1>2 DEF TypeOK, Targeted, OwnLabels, CloserLabels, Leave, Goto
<1>3. ASSUME NEW t \in AllThreads, NEW kind \in CallKinds, NativeCall(t, kind)
      PROVE  Targeted'
  BY <1>3 DEF TypeOK, Targeted, OwnLabels, CloserLabels, NativeCall, Goto
<1>4. ASSUME NEW t \in AllThreads, BackToPython(t)
      PROVE  Targeted'
  BY <1>4 DEF TypeOK, Targeted, OwnLabels, CloserLabels, BackToPython, Goto
<1>5. ASSUME NEW t \in AllThreads, EngineTake(t)
      PROVE  Targeted'
  BY <1>5 DEF TypeOK, Targeted, OwnLabels, CloserLabels, EngineTake, Goto
<1>6. ASSUME NEW t \in AllThreads, EngineStart(t)
      PROVE  Targeted'
  BY <1>6 DEF TypeOK, Targeted, OwnLabels, CloserLabels, EngineStart
<1>7. ASSUME NEW t \in AllThreads, EngineLeave(t)
      PROVE  Targeted'
  BY <1>7 DEF TypeOK, Targeted, OwnLabels, CloserLabels, EngineLeave, Goto
<1>8. ASSUME NEW t \in AllThreads, UdfOnCaller(t)
      PROVE  Targeted'
  BY <1>8 DEF TypeOK, Targeted, OwnLabels, CloserLabels, UdfOnCaller, Goto
<1>9. ASSUME NEW t \in AllThreads, EnterUdf(t)
      PROVE  Targeted'
  BY <1>9 DEF TypeOK, Targeted, OwnLabels, CloserLabels, EnterUdf, Goto
<1>10. ASSUME NEW t \in AllThreads, LeaveUdfOnCaller(t)
      PROVE  Targeted'
  BY <1>10 DEF TypeOK, Targeted, OwnLabels, CloserLabels, LeaveUdfOnCaller, Goto
<1>11. ASSUME NEW t \in AllThreads, NEW c \in Conns, CloseBegin(t, c)
      PROVE  Targeted'
  BY <1>11 DEF TypeOK, Targeted, OwnLabels, CloserLabels, CloseBegin, Goto
<1>12. ASSUME NEW t \in AllThreads, NEW c \in Conns, CloseAgain(t, c)
      PROVE  Targeted'
  BY <1>12 DEF TypeOK, Targeted, OwnLabels, CloserLabels, CloseAgain, Goto
<1>13. ASSUME NEW t \in AllThreads, CloseInterrupt(t)
      PROVE  Targeted'
  BY <1>13 DEF TypeOK, Targeted, OwnLabels, CloserLabels, CloseInterrupt
<1>14. ASSUME NEW t \in AllThreads, CloseAbort(t)
      PROVE  Targeted'
  BY <1>14 DEF TypeOK, Targeted, OwnLabels, CloserLabels, CloseAbort, Goto
<1>15. ASSUME NEW t \in AllThreads, CloseProceed(t)
      PROVE  Targeted'
  BY <1>15 DEF TypeOK, Targeted, OwnLabels, CloserLabels, CloseProceed, Goto
<1>16. ASSUME NEW t \in AllThreads, CloseNative(t)
      PROVE  Targeted'
  BY <1>16 DEF TypeOK, Targeted, OwnLabels, CloserLabels, CloseNative, Goto
<1>17. ASSUME NEW t \in AllThreads, CloseClear(t)
      PROVE  Targeted'
  BY <1>17 DEF TypeOK, Targeted, OwnLabels, CloserLabels, CloseClear, Goto
<1>18. ASSUME NEW t \in AllThreads, CloseFinish(t)
      PROVE  Targeted'
  BY <1>18 DEF TypeOK, Targeted, OwnLabels, CloserLabels, CloseFinish, Goto
<1>19. ASSUME NEW t \in AllThreads, CloseReturn(t)
      PROVE  Targeted'
  BY <1>19 DEF TypeOK, Targeted, OwnLabels, CloserLabels, CloseReturn, Goto
<1>20. ASSUME NEW t \in AllThreads, NEW c \in Conns, InterruptRead(t, c)
      PROVE  Targeted'
  BY <1>20 DEF TypeOK, Targeted, OwnLabels, CloserLabels, InterruptRead, Goto
<1>21. ASSUME NEW t \in AllThreads, InterruptCall(t)
      PROVE  Targeted'
  BY <1>21 DEF TypeOK, Targeted, OwnLabels, CloserLabels, InterruptCall, Goto
<1>22. ASSUME NEW t \in AllThreads, NEW c \in Conns, InitCheck(t, c)
      PROVE  Targeted'
  BY <1>22 DEF TypeOK, Targeted, OwnLabels, CloserLabels, InitCheck, Goto
<1>23. ASSUME NEW t \in AllThreads, InitCreate(t)
      PROVE  Targeted'
  BY <1>23 DEF TypeOK, Targeted, OwnLabels, CloserLabels, InitCreate, Goto
<1>24. ASSUME NEW w \in Workers, LeaveUdfOnWorker(w)
      PROVE  Targeted'
  BY <1>24 DEF TypeOK, Targeted, OwnLabels, CloserLabels, LeaveUdfOnWorker, Goto,
       AllThreads
<1>25. ASSUME NEW w \in Workers, NEW c \in Conns, UdfOnWorker(w, c)
      PROVE  Targeted'
  BY <1>25 DEF TypeOK, Targeted, OwnLabels, CloserLabels, UdfOnWorker, Goto, AllThreads
<1>26. CASE UNCHANGED vars
  BY <1>26 DEF vars, Targeted
<1> QED
  BY <1>1, <1>2, <1>3, <1>4, <1>5, <1>6, <1>7, <1>8, <1>9, <1>10, <1>11, <1>12, <1>13,
       <1>14, <1>15, <1>16, <1>17, <1>18, <1>19, <1>20, <1>21, <1>22, <1>23, <1>24,
       <1>25, <1>26 DEF Next, Call, Engine, Close, Uncounted, WorkerUdf

-----------------------------------------------------------------------------
(* Each action keeps the counters exact.                                   *)

\* Only Enter and Leave move a call on or off a stack, and they count it.
LEMMA CountStep ==
    ASSUME TypeOK, Shape, InFlightCountsFrames, [Next]_vars
    PROVE  InFlightCountsFrames'
<1>1. ASSUME NEW t \in AllThreads, NEW c \in Conns, Enter(t, c)
      PROVE  InFlightCountsFrames'
  <2>1. Push(t, c) /\ c \in Entries /\ Len(stack[t]) < MaxDepth
    BY <1>1 DEF Enter, Entries
  <2>2. \A d \in Conns : Cardinality(Frames(d)') =
            IF c = d THEN Cardinality(Frames(d)) + 1 ELSE Cardinality(Frames(d))
    BY <2>1, PushFrames
  <2>3. \A d \in Conns :
            callsInFlight'[d] = IF c = d THEN callsInFlight[d] + 1 ELSE callsInFlight[d]
    BY <1>1 DEF Enter, TypeOK
  <2> QED
    BY <2>2, <2>3 DEF InFlightCountsFrames
<1>2. ASSUME NEW t \in AllThreads, Leave(t)
      PROVE  InFlightCountsFrames'
  <2>1. Pop(t) /\ stack[t] # <<>> /\ Len(stack[t]) <= MaxDepth
    BY <1>2, CountIsNat DEF Leave, Shape, StackShape
  <2>2. \A d \in Conns : Cardinality(Frames(d)') =
            IF Top(t) = d THEN Cardinality(Frames(d)) - 1 ELSE Cardinality(Frames(d))
    BY <2>1, PopFrames
  <2>3. \A d \in Conns :
            callsInFlight'[d] = IF Top(t) = d THEN callsInFlight[d] - 1 ELSE callsInFlight[d]
    BY <1>2 DEF Leave, TypeOK
  <2> QED
    BY <2>2, <2>3 DEF InFlightCountsFrames
<1>3. ASSUME NEW t \in AllThreads, NEW kind \in CallKinds, NativeCall(t, kind)
      PROVE  InFlightCountsFrames'
  BY <1>3 DEF InFlightCountsFrames, Frames, NativeCall, callVars
<1>4. ASSUME NEW t \in AllThreads, BackToPython(t)
      PROVE  InFlightCountsFrames'
  BY <1>4 DEF InFlightCountsFrames, Frames, BackToPython, callVars
<1>5. ASSUME NEW t \in AllThreads, EngineTake(t)
      PROVE  InFlightCountsFrames'
  BY <1>5 DEF InFlightCountsFrames, Frames, EngineTake, callVars
<1>6. ASSUME NEW t \in AllThreads, EngineStart(t)
      PROVE  InFlightCountsFrames'
  BY <1>6 DEF InFlightCountsFrames, Frames, EngineStart, callVars
<1>7. ASSUME NEW t \in AllThreads, EngineLeave(t)
      PROVE  InFlightCountsFrames'
  BY <1>7 DEF InFlightCountsFrames, Frames, EngineLeave, callVars
<1>8. ASSUME NEW t \in AllThreads, UdfOnCaller(t)
      PROVE  InFlightCountsFrames'
  BY <1>8 DEF InFlightCountsFrames, Frames, UdfOnCaller, callVars
<1>9. ASSUME NEW t \in AllThreads, EnterUdf(t)
      PROVE  InFlightCountsFrames'
  <2>1. Push(t, UDF) /\ UDF \in Entries /\ Len(stack[t]) < MaxDepth
    BY <1>9 DEF EnterUdf, Entries, Shape, StackShape
  <2>2. \A d \in Conns : UDF # d
    BY LifecycleAssumption
  <2>3. \A d \in Conns : Cardinality(Frames(d)') = Cardinality(Frames(d))
    BY <2>1, <2>2, PushFrames
  <2> QED
    BY <1>9, <2>3 DEF InFlightCountsFrames, EnterUdf, callVars
<1>10. ASSUME NEW t \in AllThreads, LeaveUdfOnCaller(t)
      PROVE  InFlightCountsFrames'
  <2>1. Pop(t) /\ Front(stack[t]) # <<>> /\ pc[t] = "user"
    BY <1>10 DEF LeaveUdfOnCaller, InUserCode
  <2>2. stack[t] # <<>> /\ Len(stack[t]) <= MaxDepth
    BY <2>1, FrontNonEmpty DEF Shape, StackShape
  <2>3. \A d \in Conns : Top(t) # d
    BY <2>1, <2>2, LifecycleAssumption DEF Shape, StackShape
  <2>4. \A d \in Conns : Cardinality(Frames(d)') = Cardinality(Frames(d))
    BY <2>1, <2>2, <2>3, PopFrames
  <2> QED
    BY <1>10, <2>4 DEF InFlightCountsFrames, LeaveUdfOnCaller, callVars
<1>11. ASSUME NEW t \in AllThreads, NEW c \in Conns, CloseBegin(t, c)
      PROVE  InFlightCountsFrames'
  BY <1>11 DEF InFlightCountsFrames, Frames, CloseBegin
<1>12. ASSUME NEW t \in AllThreads, NEW c \in Conns, CloseAgain(t, c)
      PROVE  InFlightCountsFrames'
  BY <1>12 DEF InFlightCountsFrames, Frames, CloseAgain, callVars
<1>13. ASSUME NEW t \in AllThreads, CloseInterrupt(t)
      PROVE  InFlightCountsFrames'
  BY <1>13 DEF InFlightCountsFrames, Frames, CloseInterrupt, callVars
<1>14. ASSUME NEW t \in AllThreads, CloseAbort(t)
      PROVE  InFlightCountsFrames'
  BY <1>14 DEF InFlightCountsFrames, Frames, CloseAbort
<1>15. ASSUME NEW t \in AllThreads, CloseProceed(t)
      PROVE  InFlightCountsFrames'
  BY <1>15 DEF InFlightCountsFrames, Frames, CloseProceed, callVars
<1>16. ASSUME NEW t \in AllThreads, CloseNative(t)
      PROVE  InFlightCountsFrames'
  BY <1>16 DEF InFlightCountsFrames, Frames, CloseNative
<1>17. ASSUME NEW t \in AllThreads, CloseClear(t)
      PROVE  InFlightCountsFrames'
  BY <1>17 DEF InFlightCountsFrames, Frames, CloseClear
<1>18. ASSUME NEW t \in AllThreads, CloseFinish(t)
      PROVE  InFlightCountsFrames'
  BY <1>18 DEF InFlightCountsFrames, Frames, CloseFinish
<1>19. ASSUME NEW t \in AllThreads, CloseReturn(t)
      PROVE  InFlightCountsFrames'
  BY <1>19 DEF InFlightCountsFrames, Frames, CloseReturn, callVars
<1>20. ASSUME NEW t \in AllThreads, NEW c \in Conns, InterruptRead(t, c)
      PROVE  InFlightCountsFrames'
  BY <1>20 DEF InFlightCountsFrames, Frames, InterruptRead, callVars
<1>21. ASSUME NEW t \in AllThreads, InterruptCall(t)
      PROVE  InFlightCountsFrames'
  BY <1>21 DEF InFlightCountsFrames, Frames, InterruptCall, callVars
<1>22. ASSUME NEW t \in AllThreads, NEW c \in Conns, InitCheck(t, c)
      PROVE  InFlightCountsFrames'
  BY <1>22 DEF InFlightCountsFrames, Frames, InitCheck, callVars
<1>23. ASSUME NEW t \in AllThreads, InitCreate(t)
      PROVE  InFlightCountsFrames'
  BY <1>23 DEF InFlightCountsFrames, Frames, InitCreate
<1>24. ASSUME NEW w \in Workers, LeaveUdfOnWorker(w)
      PROVE  InFlightCountsFrames'
  <2>1. Pop(w) /\ stack[w] = <<UDF>> /\ w \in AllThreads
    BY <1>24 DEF LeaveUdfOnWorker, AllThreads
  <2>2. stack[w] # <<>> /\ Len(stack[w]) <= MaxDepth /\ Top(w) = UDF
    BY <2>1 DEF Shape, StackShape, Top, Last
  <2>3. \A d \in Conns : Top(w) # d
    BY <2>2, LifecycleAssumption
  <2>4. \A d \in Conns : Cardinality(Frames(d)') = Cardinality(Frames(d))
    BY <2>1, <2>2, <2>3, PopFrames
  <2> QED
    BY <1>24, <2>4 DEF InFlightCountsFrames, LeaveUdfOnWorker, callVars
<1>25. ASSUME NEW w \in Workers, NEW c \in Conns, UdfOnWorker(w, c)
      PROVE  InFlightCountsFrames'
  BY <1>25 DEF InFlightCountsFrames, Frames, UdfOnWorker, callVars
<1>26. CASE UNCHANGED vars
  BY <1>26 DEF vars, InFlightCountsFrames, Frames
<1> QED
  BY <1>1, <1>2, <1>3, <1>4, <1>5, <1>6, <1>7, <1>8, <1>9, <1>10, <1>11, <1>12, <1>13,
       <1>14, <1>15, <1>16, <1>17, <1>18, <1>19, <1>20, <1>21, <1>22, <1>23, <1>24,
       <1>25, <1>26 DEF Next, Call, Engine, Close, Uncounted, WorkerUdf

-----------------------------------------------------------------------------
(* Each action keeps the thread in the engine inside its call.             *)

\* Nothing changes for a connection whose thread stays where it is in its call.
LEMMA HolderKept ==
    ASSUME TypeOK, HolderInCall, stack' = stack, holder' = holder,
           \A u \in AllThreads :
               pc[u] \in {"engine", "wantgil"} => pc'[u] \in {"engine", "wantgil"}
    PROVE  HolderInCall'
<1>1. ASSUME NEW c \in Conns, holder[c] # NULL
      PROVE  InCall(holder[c], c)'
  <2>1. InCall(holder[c], c) /\ holder[c] \in AllThreads
    BY <1>1 DEF HolderInCall, TypeOK
  <2> QED
    BY <2>1 DEF InCall
<1> QED
  BY <1>1 DEF HolderInCall

\* No thread leaves a call of a connection while that call is in the engine.
LEMMA HolderStep ==
    ASSUME TypeOK, Shape, Targeted, InFlightCountsFrames, HolderInCall, [Next]_vars
    PROVE  HolderInCall'
<1>1. ASSUME NEW t \in AllThreads, NEW c \in Conns, Enter(t, c)
      PROVE  HolderInCall'
  <2>1. Push(t, c) /\ c \in Entries /\ pc' = [pc EXCEPT ![t] = "body"]
    BY <1>1 DEF Enter, Entries, Goto
  <2>2. holder' = holder
    BY <1>1 DEF Enter, engineVars
  <2>3. pc[t] \notin {"engine"} /\ (pc[t] = "wantgil" => c = UDF)
    BY <1>1 DEF Enter, InUserCode, InBody
  <2>4. ASSUME NEW d \in Conns, holder[d] # NULL
        PROVE  InCall(holder[d], d)'
    <3>1. InCall(holder[d], d) /\ holder[d] \in AllThreads
      BY <2>4 DEF HolderInCall, TypeOK
    <3>2. CASE holder[d] = t
      <4>1. PICK i \in 1..Len(stack[t]) :
                /\ stack[t][i] = d
                /\ \/ i = Len(stack[t]) /\ pc[t] \in {"engine", "wantgil"}
                   \/ i < Len(stack[t]) /\ stack[t][i+1] = UDF
        BY <3>1, <3>2 DEF InCall
      <4>2. /\ i \in 1..Len(stack'[t]) /\ i < Len(stack'[t])
            /\ stack'[t][i] = d /\ stack'[t][i+1] = UDF
        <5>1. /\ Len(stack[t]) \in Nat
              /\ Len(stack'[t]) = Len(stack[t]) + 1
              /\ stack'[t][Len(stack[t]) + 1] = c
              /\ \A j \in 1..Len(stack[t]) : stack'[t][j] = stack[t][j]
          BY <2>1, PushEntries, StackLength
        <5>2. CASE i = Len(stack[t]) /\ c = UDF
          BY <4>1, <5>1, <5>2
        <5>3. CASE i < Len(stack[t]) /\ stack[t][i+1] = UDF
          BY <4>1, <5>1, <5>3
        <5> QED
          BY <2>3, <4>1, <5>2, <5>3
      <4> QED
        BY <2>2, <3>2, <4>2 DEF InCall
    <3>3. CASE holder[d] # t
      BY <2>1, <2>2, <3>1, <3>3, PushEntries DEF InCall, TypeOK
    <3> QED
      BY <3>2, <3>3
  <2> QED
    BY <2>2, <2>4 DEF HolderInCall
<1>2. ASSUME NEW t \in AllThreads, Leave(t)
      PROVE  HolderInCall'
  <2>1. Pop(t) /\ stack[t] # <<>> /\ pc[t] = "body" /\ pc' \in [AllThreads -> Labels]
        /\ \A u \in AllThreads \ {t} : pc'[u] = pc[u]
    BY <1>2, CountIsNat, TypingStep DEF Leave, InBody, Goto, TypeOK, Labels
  <2>2. holder' = holder /\ stack[t][Len(stack[t])] \in Conns
    BY <1>2, CountIsNat DEF Leave, engineVars, Top, Last
  <2>3. ASSUME NEW d \in Conns, holder[d] # NULL
        PROVE  InCall(holder[d], d)'
    <3>1. InCall(holder[d], d) /\ holder[d] \in AllThreads
      BY <2>3 DEF HolderInCall, TypeOK
    <3>2. CASE holder[d] = t
      <4>1. PICK i \in 1..Len(stack[t]) :
                /\ stack[t][i] = d
                /\ \/ i = Len(stack[t]) /\ pc[t] \in {"engine", "wantgil"}
                   \/ i < Len(stack[t]) /\ stack[t][i+1] = UDF
        BY <3>1, <3>2 DEF InCall
      <4>2. /\ i \in 1..Len(stack'[t]) /\ i < Len(stack'[t])
            /\ stack'[t][i] = d /\ stack'[t][i+1] = UDF
        <5>1. i < Len(stack[t]) /\ stack[t][i+1] = UDF
          BY <2>1, <4>1
        <5>2. i + 1 # Len(stack[t])
          BY <2>2, <5>1, LifecycleAssumption
        <5> QED
          BY <2>1, <4>1, <5>1, <5>2, PopEntries
      <4> QED
        BY <2>2, <3>2, <4>2 DEF InCall
    <3>3. CASE holder[d] # t
      BY <2>1, <2>2, <3>1, <3>3, PopEntries DEF InCall, TypeOK
    <3> QED
      BY <3>2, <3>3
  <2> QED
    BY <2>2, <2>3 DEF HolderInCall
<1>3. ASSUME NEW t \in AllThreads, NEW kind \in CallKinds, NativeCall(t, kind)
      PROVE  HolderInCall'
  BY <1>3, HolderKept DEF TypeOK, NativeCall, Goto, engineVars, InBody
<1>4. ASSUME NEW t \in AllThreads, BackToPython(t)
      PROVE  HolderInCall'
  BY <1>4, HolderKept DEF TypeOK, BackToPython, Goto, engineVars
<1>5. ASSUME NEW t \in AllThreads, EngineTake(t)
      PROVE  HolderInCall'
  <2>1. stack[t] # <<>> /\ Top(t) \in Conns /\ Top(t) = stack[t][Len(stack[t])]
    BY <1>5 DEF EngineTake, Shape, StackShape, CallLabels, Top, Last
  <2>2. Len(stack[t]) \in 1..Len(stack[t])
    BY <2>1, StackLength
  <2> QED
    BY <1>5, <2>1, <2>2, LifecycleAssumption DEF TypeOK, HolderInCall, InCall, EngineTake, Goto
<1>6. ASSUME NEW t \in AllThreads, EngineStart(t)
      PROVE  HolderInCall'
  BY <1>6, HolderKept DEF TypeOK, EngineStart
<1>7. ASSUME NEW t \in AllThreads, EngineLeave(t)
      PROVE  HolderInCall'
  <2>1. /\ stack' = stack /\ pc[t] = "engine" /\ pc' = [pc EXCEPT ![t] = "back"]
        /\ holder' = [holder EXCEPT ![Top(t)] = NULL]
    BY <1>7 DEF EngineLeave, Goto
  <2>2. ASSUME NEW d \in Conns, holder'[d] # NULL
        PROVE  InCall(holder[d], d)'
    <3>1. /\ d # Top(t) /\ holder'[d] = holder[d] /\ holder[d] # NULL
          /\ holder[d] \in AllThreads
      <4>1. holder \in [Conns -> AllThreads \cup {NULL}]
        BY DEF TypeOK
      <4>2. d # Top(t)
        BY <2>1, <2>2, <4>1
      <4> QED
        BY <2>1, <2>2, <4>1, <4>2
    <3>2. PICK i \in 1..Len(stack[holder[d]]) :
              /\ stack[holder[d]][i] = d
              /\ \/ /\ i = Len(stack[holder[d]])
                    /\ pc[holder[d]] \in {"engine", "wantgil"}
                 \/ i < Len(stack[holder[d]]) /\ stack[holder[d]][i+1] = UDF
      BY <3>1 DEF HolderInCall, InCall
    <3>3. holder[d] = t => i # Len(stack[t])
      BY <3>1, <3>2 DEF Top, Last
    <3>4. pc'[holder[d]] = IF holder[d] = t THEN "back" ELSE pc[holder[d]]
      BY <2>1, <3>1 DEF TypeOK
    <3>5. \/ i = Len(stack[holder[d]]) /\ pc'[holder[d]] \in {"engine", "wantgil"}
          \/ i < Len(stack[holder[d]]) /\ stack[holder[d]][i+1] = UDF
      BY <3>2, <3>3, <3>4
    <3> QED
      BY <2>1, <3>1, <3>2, <3>5 DEF InCall
  <2> QED
    BY <2>2 DEF HolderInCall
<1>8. ASSUME NEW t \in AllThreads, UdfOnCaller(t)
      PROVE  HolderInCall'
  BY <1>8, HolderKept DEF TypeOK, UdfOnCaller, Goto, engineVars
<1>9. ASSUME NEW t \in AllThreads, EnterUdf(t)
      PROVE  HolderInCall'
  <2>1. Push(t, UDF) /\ UDF \in Entries /\ pc' = [pc EXCEPT ![t] = "user"]
    BY <1>9 DEF EnterUdf, Entries, Goto
  <2>2. holder' = holder
    BY <1>9 DEF EnterUdf, engineVars
  <2>3. pc[t] \notin {"engine"} /\ (pc[t] = "wantgil" => UDF = UDF)
    BY <1>9 DEF EnterUdf, InUserCode, InBody
  <2>4. ASSUME NEW d \in Conns, holder[d] # NULL
        PROVE  InCall(holder[d], d)'
    <3>1. InCall(holder[d], d) /\ holder[d] \in AllThreads
      BY <2>4 DEF HolderInCall, TypeOK
    <3>2. CASE holder[d] = t
      <4>1. PICK i \in 1..Len(stack[t]) :
                /\ stack[t][i] = d
                /\ \/ i = Len(stack[t]) /\ pc[t] \in {"engine", "wantgil"}
                   \/ i < Len(stack[t]) /\ stack[t][i+1] = UDF
        BY <3>1, <3>2 DEF InCall
      <4>2. /\ i \in 1..Len(stack'[t]) /\ i < Len(stack'[t])
            /\ stack'[t][i] = d /\ stack'[t][i+1] = UDF
        <5>1. /\ Len(stack[t]) \in Nat
              /\ Len(stack'[t]) = Len(stack[t]) + 1
              /\ stack'[t][Len(stack[t]) + 1] = UDF
              /\ \A j \in 1..Len(stack[t]) : stack'[t][j] = stack[t][j]
          BY <2>1, PushEntries, StackLength
        <5>2. CASE i = Len(stack[t]) /\ UDF = UDF
          BY <4>1, <5>1, <5>2
        <5>3. CASE i < Len(stack[t]) /\ stack[t][i+1] = UDF
          BY <4>1, <5>1, <5>3
        <5> QED
          BY <2>3, <4>1, <5>2, <5>3
      <4> QED
        BY <2>2, <3>2, <4>2 DEF InCall
    <3>3. CASE holder[d] # t
      BY <2>1, <2>2, <3>1, <3>3, PushEntries DEF InCall, TypeOK
    <3> QED
      BY <3>2, <3>3
  <2> QED
    BY <2>2, <2>4 DEF HolderInCall
<1>10. ASSUME NEW t \in AllThreads, LeaveUdfOnCaller(t)
      PROVE  HolderInCall'
  <2>1. Pop(t) /\ stack[t] # <<>> /\ pc[t] = "user" /\ pc' = [pc EXCEPT ![t] = "engine"]
    BY <1>10, FrontNonEmpty DEF LeaveUdfOnCaller, InUserCode, Goto
  <2>2. holder' = holder
    BY <1>10 DEF LeaveUdfOnCaller, engineVars
  <2>3. ASSUME NEW d \in Conns, holder[d] # NULL
        PROVE  InCall(holder[d], d)'
    <3>1. InCall(holder[d], d) /\ holder[d] \in AllThreads
      BY <2>3 DEF HolderInCall, TypeOK
    <3>2. CASE holder[d] = t
      <4>1. PICK i \in 1..Len(stack[t]) :
                /\ stack[t][i] = d
                /\ \/ i = Len(stack[t]) /\ pc[t] \in {"engine", "wantgil"}
                   \/ i < Len(stack[t]) /\ stack[t][i+1] = UDF
        BY <3>1, <3>2 DEF InCall
      <4>2. /\ i \in 1..Len(stack'[t]) /\ stack'[t][i] = d
            /\ \/ i = Len(stack'[t]) /\ pc'[t] = "engine"
               \/ i < Len(stack'[t]) /\ stack'[t][i+1] = UDF
        <5>1. i < Len(stack[t]) /\ stack[t][i+1] = UDF
          BY <2>1, <4>1
        <5>2. pc'[t] = "engine"
          BY <2>1 DEF TypeOK
        <5>3. PICK n \in Nat \ {0} :
                /\ Len(stack[t]) = n /\ Len(stack'[t]) = n - 1
                /\ \A j \in 1..(n - 1) : stack'[t][j] = stack[t][j]
          BY <2>1, PopEntries
        <5>4. i \in 1..(n - 1) /\ stack'[t][i] = d
          BY <4>1, <5>1, <5>3
        <5>5. CASE i = n - 1
          BY <5>2, <5>3, <5>4, <5>5
        <5>6. CASE i # n - 1
          <6>1. i + 1 \in 1..(n - 1)
            BY <5>4, <5>6
          <6> QED
            BY <5>1, <5>3, <5>4, <5>6, <6>1
        <5> QED
          BY <5>5, <5>6
      <4> QED
        BY <2>2, <3>2, <4>2 DEF InCall
    <3>3. CASE holder[d] # t
      BY <2>1, <2>2, <3>1, <3>3, PopEntries DEF InCall, TypeOK
    <3> QED
      BY <3>2, <3>3
  <2> QED
    BY <2>2, <2>3 DEF HolderInCall
<1>11. ASSUME NEW t \in AllThreads, NEW c \in Conns, CloseBegin(t, c)
      PROVE  HolderInCall'
  BY <1>11, HolderKept DEF TypeOK, CloseBegin, Goto, engineVars, InUserCode
<1>12. ASSUME NEW t \in AllThreads, NEW c \in Conns, CloseAgain(t, c)
      PROVE  HolderInCall'
  BY <1>12, HolderKept DEF TypeOK, CloseAgain, Goto, engineVars, InUserCode
<1>13. ASSUME NEW t \in AllThreads, CloseInterrupt(t)
      PROVE  HolderInCall'
  BY <1>13, HolderKept DEF TypeOK, CloseInterrupt, engineVars
<1>14. ASSUME NEW t \in AllThreads, CloseAbort(t)
      PROVE  HolderInCall'
  BY <1>14, HolderKept DEF TypeOK, CloseAbort, Goto, engineVars
<1>15. ASSUME NEW t \in AllThreads, CloseProceed(t)
      PROVE  HolderInCall'
  BY <1>15, HolderKept DEF TypeOK, CloseProceed, Goto, engineVars
<1>16. ASSUME NEW t \in AllThreads, CloseNative(t)
      PROVE  HolderInCall'
  BY <1>16, HolderKept DEF TypeOK, CloseNative, Goto, engineVars
<1>17. ASSUME NEW t \in AllThreads, CloseClear(t)
      PROVE  HolderInCall'
  BY <1>17, HolderKept DEF TypeOK, CloseClear, Goto, engineVars
<1>18. ASSUME NEW t \in AllThreads, CloseFinish(t)
      PROVE  HolderInCall'
  BY <1>18, HolderKept DEF TypeOK, CloseFinish, Goto, engineVars
<1>19. ASSUME NEW t \in AllThreads, CloseReturn(t)
      PROVE  HolderInCall'
  BY <1>19, HolderKept DEF TypeOK, CloseReturn, Goto, engineVars
<1>20. ASSUME NEW t \in AllThreads, NEW c \in Conns, InterruptRead(t, c)
      PROVE  HolderInCall'
  BY <1>20, HolderKept DEF TypeOK, InterruptRead, Goto, engineVars, InUserCode
<1>21. ASSUME NEW t \in AllThreads, InterruptCall(t)
      PROVE  HolderInCall'
  BY <1>21, HolderKept DEF TypeOK, InterruptCall, Goto, engineVars
<1>22. ASSUME NEW t \in AllThreads, NEW c \in Conns, InitCheck(t, c)
      PROVE  HolderInCall'
  BY <1>22, HolderKept DEF TypeOK, InitCheck, Goto, engineVars, InUserCode
<1>23. ASSUME NEW t \in AllThreads, InitCreate(t)
      PROVE  HolderInCall'
  BY <1>23, HolderKept DEF TypeOK, InitCreate, Goto, engineVars
<1>24. ASSUME NEW w \in Workers, LeaveUdfOnWorker(w)
      PROVE  HolderInCall'
  <2>1. Pop(w) /\ stack[w] = <<UDF>> /\ w \in AllThreads /\ stack[w] # <<>>
    BY <1>24 DEF LeaveUdfOnWorker, AllThreads
  <2>2. holder' = holder /\ \A u \in AllThreads \ {w} : pc'[u] = pc[u]
    BY <1>24 DEF LeaveUdfOnWorker, engineVars, Goto, TypeOK
  <2>3. ASSUME NEW d \in Conns, holder[d] # NULL
        PROVE  InCall(holder[d], d)'
    <3>1. InCall(holder[d], d) /\ holder[d] \in AllThreads
      BY <2>3 DEF HolderInCall, TypeOK
    <3>2. holder[d] # w
      BY <2>1, <3>1, LifecycleAssumption DEF InCall
    <3> QED
      BY <2>1, <2>2, <3>1, <3>2, PopEntries DEF InCall
  <2> QED
    BY <2>2, <2>3 DEF HolderInCall
<1>25. ASSUME NEW w \in Workers, NEW c \in Conns, UdfOnWorker(w, c)
      PROVE  HolderInCall'
  BY <1>25, HolderKept DEF TypeOK, UdfOnWorker, Goto, engineVars, AllThreads
<1>26. CASE UNCHANGED vars
  BY <1>26 DEF vars, HolderInCall, InCall
<1> QED
  BY <1>1, <1>2, <1>3, <1>4, <1>5, <1>6, <1>7, <1>8, <1>9, <1>10, <1>11, <1>12, <1>13,
       <1>14, <1>15, <1>16, <1>17, <1>18, <1>19, <1>20, <1>21, <1>22, <1>23, <1>24,
       <1>25, <1>26 DEF Next, Call, Engine, Close, Uncounted, WorkerUdf

-----------------------------------------------------------------------------
(* Each action keeps a single closer, which waits before it tears down.    *)

\* A second close() finds _closing set or is_closed and goes no further.
LEMMA OneCloserStep ==
    ASSUME TypeOK, Targeted, OneCloser, [Next]_vars
    PROVE  OneCloser'
<1>1. ASSUME NEW t \in AllThreads, NEW c \in Conns, Enter(t, c)
      PROVE  OneCloser'
  BY <1>1 DEF TypeOK, Targeted, OwnLabels, OneCloser, CloserLabels, Enter, Goto
<1>2. ASSUME NEW t \in AllThreads, Leave(t)
      PROVE  OneCloser'
  BY <1>2 DEF TypeOK, Targeted, OwnLabels, OneCloser, CloserLabels, Leave, Goto
<1>3. ASSUME NEW t \in AllThreads, NEW kind \in CallKinds, NativeCall(t, kind)
      PROVE  OneCloser'
  BY <1>3 DEF TypeOK, Targeted, OwnLabels, OneCloser, CloserLabels, NativeCall, Goto,
       callVars
<1>4. ASSUME NEW t \in AllThreads, BackToPython(t)
      PROVE  OneCloser'
  BY <1>4 DEF TypeOK, Targeted, OwnLabels, OneCloser, CloserLabels, BackToPython, Goto,
       callVars
<1>5. ASSUME NEW t \in AllThreads, EngineTake(t)
      PROVE  OneCloser'
  BY <1>5 DEF TypeOK, Targeted, OwnLabels, OneCloser, CloserLabels, EngineTake, Goto,
       callVars
<1>6. ASSUME NEW t \in AllThreads, EngineStart(t)
      PROVE  OneCloser'
  BY <1>6 DEF TypeOK, Targeted, OwnLabels, OneCloser, CloserLabels, EngineStart,
       callVars
<1>7. ASSUME NEW t \in AllThreads, EngineLeave(t)
      PROVE  OneCloser'
  BY <1>7 DEF TypeOK, Targeted, OwnLabels, OneCloser, CloserLabels, EngineLeave, Goto,
       callVars
<1>8. ASSUME NEW t \in AllThreads, UdfOnCaller(t)
      PROVE  OneCloser'
  BY <1>8 DEF TypeOK, Targeted, OwnLabels, OneCloser, CloserLabels, UdfOnCaller, Goto,
       callVars
<1>9. ASSUME NEW t \in AllThreads, EnterUdf(t)
      PROVE  OneCloser'
  BY <1>9 DEF TypeOK, Targeted, OwnLabels, OneCloser, CloserLabels, EnterUdf, Goto,
       callVars
<1>10. ASSUME NEW t \in AllThreads, LeaveUdfOnCaller(t)
      PROVE  OneCloser'
  BY <1>10 DEF TypeOK, Targeted, OwnLabels, OneCloser, CloserLabels, LeaveUdfOnCaller,
       Goto, callVars
<1>11. ASSUME NEW t \in AllThreads, NEW c \in Conns, CloseBegin(t, c)
      PROVE  OneCloser'
  BY <1>11 DEF TypeOK, Targeted, OwnLabels, OneCloser, CloserLabels, CloseBegin, Goto
<1>12. ASSUME NEW t \in AllThreads, NEW c \in Conns, CloseAgain(t, c)
      PROVE  OneCloser'
  BY <1>12 DEF TypeOK, Targeted, OwnLabels, OneCloser, CloserLabels, CloseAgain, Goto,
       callVars
<1>13. ASSUME NEW t \in AllThreads, CloseInterrupt(t)
      PROVE  OneCloser'
  BY <1>13 DEF TypeOK, Targeted, OwnLabels, OneCloser, CloserLabels, CloseInterrupt,
       callVars
<1>14. ASSUME NEW t \in AllThreads, CloseAbort(t)
      PROVE  OneCloser'
  BY <1>14 DEF TypeOK, Targeted, OwnLabels, OneCloser, CloserLabels, CloseAbort, Goto
<1>15. ASSUME NEW t \in AllThreads, CloseProceed(t)
      PROVE  OneCloser'
  BY <1>15 DEF TypeOK, Targeted, OwnLabels, OneCloser, CloserLabels, CloseProceed, Goto,
       callVars
<1>16. ASSUME NEW t \in AllThreads, CloseNative(t)
      PROVE  OneCloser'
  BY <1>16 DEF TypeOK, Targeted, OwnLabels, OneCloser, CloserLabels, CloseNative, Goto
<1>17. ASSUME NEW t \in AllThreads, CloseClear(t)
      PROVE  OneCloser'
  BY <1>17 DEF TypeOK, Targeted, OwnLabels, OneCloser, CloserLabels, CloseClear, Goto
<1>18. ASSUME NEW t \in AllThreads, CloseFinish(t)
      PROVE  OneCloser'
  BY <1>18 DEF TypeOK, Targeted, OwnLabels, OneCloser, CloserLabels, CloseFinish, Goto
<1>19. ASSUME NEW t \in AllThreads, CloseReturn(t)
      PROVE  OneCloser'
  BY <1>19 DEF TypeOK, Targeted, OwnLabels, OneCloser, CloserLabels, CloseReturn, Goto,
       callVars
<1>20. ASSUME NEW t \in AllThreads, NEW c \in Conns, InterruptRead(t, c)
      PROVE  OneCloser'
  BY <1>20 DEF TypeOK, Targeted, OwnLabels, OneCloser, CloserLabels, InterruptRead,
       Goto, callVars
<1>21. ASSUME NEW t \in AllThreads, InterruptCall(t)
      PROVE  OneCloser'
  BY <1>21 DEF TypeOK, Targeted, OwnLabels, OneCloser, CloserLabels, InterruptCall,
       Goto, callVars
<1>22. ASSUME NEW t \in AllThreads, NEW c \in Conns, InitCheck(t, c)
      PROVE  OneCloser'
  BY <1>22 DEF TypeOK, Targeted, OwnLabels, OneCloser, CloserLabels, InitCheck, Goto,
       callVars
<1>23. ASSUME NEW t \in AllThreads, InitCreate(t)
      PROVE  OneCloser'
  BY <1>23 DEF TypeOK, Targeted, OwnLabels, OneCloser, CloserLabels, InitCreate, Goto
<1>24. ASSUME NEW w \in Workers, LeaveUdfOnWorker(w)
      PROVE  OneCloser'
  BY <1>24 DEF TypeOK, Targeted, OwnLabels, OneCloser, CloserLabels, LeaveUdfOnWorker,
       Goto, callVars, AllThreads
<1>25. ASSUME NEW w \in Workers, NEW c \in Conns, UdfOnWorker(w, c)
      PROVE  OneCloser'
  BY <1>25 DEF TypeOK, Targeted, OwnLabels, OneCloser, CloserLabels, UdfOnWorker, Goto,
       callVars, AllThreads
<1>26. CASE UNCHANGED vars
  BY <1>26 DEF vars, OneCloser
<1> QED
  BY <1>1, <1>2, <1>3, <1>4, <1>5, <1>6, <1>7, <1>8, <1>9, <1>10, <1>11, <1>12, <1>13,
       <1>14, <1>15, <1>16, <1>17, <1>18, <1>19, <1>20, <1>21, <1>22, <1>23, <1>24,
       <1>25, <1>26 DEF Next, Call, Engine, Close, Uncounted, WorkerUdf

\* No call enters a connection that stopped waiting for calls.
LEMMA ClosedIsIdleStep ==
    ASSUME TypeOK, Shape, Targeted, InFlightCountsFrames, OneCloser, ClosedIsIdle, [Next]_vars
    PROVE  ClosedIsIdle'
<1>1. ASSUME NEW t \in AllThreads, NEW c \in Conns, Enter(t, c)
      PROVE  ClosedIsIdle'
  <2>1. ~closing[c] /\ \A u \in AllThreads : pc[u] \in TailLabels => target[u] # c
    BY <1>1 DEF Enter, MayEnter, OneCloser, CloserLabels, TailLabels
  <2>2. \A u \in AllThreads : pc'[u] \in TailLabels => pc[u] \in TailLabels
    BY <1>1 DEF Enter, Goto, TypeOK, TailLabels
  <2>3. \A d \in Conns \ {c} : callsInFlight'[d] = callsInFlight[d]
    BY <1>1 DEF Enter, TypeOK
  <2>4. \A u \in AllThreads : pc[u] \in TailLabels => target[u] \in Conns
    BY DEF Targeted, OwnLabels, CloserLabels, TailLabels
  <2> QED
    BY <1>1, <2>1, <2>2, <2>3, <2>4 DEF ClosedIsIdle, Enter
<1>2. ASSUME NEW t \in AllThreads, Leave(t)
      PROVE  ClosedIsIdle'
  <2>1. callsInFlight[Top(t)] > 0 /\ callsInFlight[Top(t)] \in Nat /\ Top(t) \in Conns
    BY <1>2, CountIsNat, OnStackCounted DEF Leave, InFlightCountsFrames, TypeOK
  <2>2. \A u \in AllThreads : pc'[u] \in TailLabels => pc[u] \in TailLabels
    BY <1>2 DEF Leave, Goto, TypeOK, TailLabels
  <2>3. \A d \in Conns \ {Top(t)} : callsInFlight'[d] = callsInFlight[d]
    BY <1>2 DEF Leave, TypeOK
  <2>4. \A u \in AllThreads : pc[u] \in TailLabels => target[u] \in Conns \ {Top(t)}
    BY <2>1 DEF ClosedIsIdle, Targeted, OwnLabels, CloserLabels, TailLabels
  <2>5. \A d \in Conns : isClosed[d] => d # Top(t)
    BY <2>1 DEF ClosedIsIdle
  <2> QED
    BY <1>2, <2>2, <2>3, <2>4, <2>5 DEF ClosedIsIdle, Leave
<1>3. ASSUME NEW t \in AllThreads, NEW kind \in CallKinds, NativeCall(t, kind)
      PROVE  ClosedIsIdle'
  BY <1>3 DEF TypeOK, Targeted, OwnLabels, OneCloser, ClosedIsIdle, CloserLabels,
       TailLabels, NativeCall, Goto, callVars
<1>4. ASSUME NEW t \in AllThreads, BackToPython(t)
      PROVE  ClosedIsIdle'
  BY <1>4 DEF TypeOK, Targeted, OwnLabels, OneCloser, ClosedIsIdle, CloserLabels,
       TailLabels, BackToPython, Goto, callVars
<1>5. ASSUME NEW t \in AllThreads, EngineTake(t)
      PROVE  ClosedIsIdle'
  BY <1>5 DEF TypeOK, Targeted, OwnLabels, OneCloser, ClosedIsIdle, CloserLabels,
       TailLabels, EngineTake, Goto, callVars
<1>6. ASSUME NEW t \in AllThreads, EngineStart(t)
      PROVE  ClosedIsIdle'
  BY <1>6 DEF TypeOK, Targeted, OwnLabels, OneCloser, ClosedIsIdle, CloserLabels,
       TailLabels, EngineStart, callVars
<1>7. ASSUME NEW t \in AllThreads, EngineLeave(t)
      PROVE  ClosedIsIdle'
  BY <1>7 DEF TypeOK, Targeted, OwnLabels, OneCloser, ClosedIsIdle, CloserLabels,
       TailLabels, EngineLeave, Goto, callVars
<1>8. ASSUME NEW t \in AllThreads, UdfOnCaller(t)
      PROVE  ClosedIsIdle'
  BY <1>8 DEF TypeOK, Targeted, OwnLabels, OneCloser, ClosedIsIdle, CloserLabels,
       TailLabels, UdfOnCaller, Goto, callVars
<1>9. ASSUME NEW t \in AllThreads, EnterUdf(t)
      PROVE  ClosedIsIdle'
  BY <1>9 DEF TypeOK, Targeted, OwnLabels, OneCloser, ClosedIsIdle, CloserLabels,
       TailLabels, EnterUdf, Goto, callVars
<1>10. ASSUME NEW t \in AllThreads, LeaveUdfOnCaller(t)
      PROVE  ClosedIsIdle'
  BY <1>10 DEF TypeOK, Targeted, OwnLabels, OneCloser, ClosedIsIdle, CloserLabels,
       TailLabels, LeaveUdfOnCaller, Goto, callVars
<1>11. ASSUME NEW t \in AllThreads, NEW c \in Conns, CloseBegin(t, c)
      PROVE  ClosedIsIdle'
  BY <1>11 DEF TypeOK, Targeted, OwnLabels, OneCloser, ClosedIsIdle, CloserLabels,
       TailLabels, CloseBegin, Goto
<1>12. ASSUME NEW t \in AllThreads, NEW c \in Conns, CloseAgain(t, c)
      PROVE  ClosedIsIdle'
  BY <1>12 DEF TypeOK, Targeted, OwnLabels, OneCloser, ClosedIsIdle, CloserLabels,
       TailLabels, CloseAgain, Goto, callVars
<1>13. ASSUME NEW t \in AllThreads, CloseInterrupt(t)
      PROVE  ClosedIsIdle'
  BY <1>13 DEF TypeOK, Targeted, OwnLabels, OneCloser, ClosedIsIdle, CloserLabels,
       TailLabels, CloseInterrupt, callVars
<1>14. ASSUME NEW t \in AllThreads, CloseAbort(t)
      PROVE  ClosedIsIdle'
  BY <1>14 DEF TypeOK, Targeted, OwnLabels, OneCloser, ClosedIsIdle, CloserLabels,
       TailLabels, CloseAbort, Goto
<1>15. ASSUME NEW t \in AllThreads, CloseProceed(t)
      PROVE  ClosedIsIdle'
  BY <1>15 DEF TypeOK, Targeted, OwnLabels, OneCloser, ClosedIsIdle, CloserLabels,
       TailLabels, CloseProceed, Goto, callVars
<1>16. ASSUME NEW t \in AllThreads, CloseNative(t)
      PROVE  ClosedIsIdle'
  BY <1>16 DEF TypeOK, Targeted, OwnLabels, OneCloser, ClosedIsIdle, CloserLabels,
       TailLabels, CloseNative, Goto
<1>17. ASSUME NEW t \in AllThreads, CloseClear(t)
      PROVE  ClosedIsIdle'
  BY <1>17 DEF TypeOK, Targeted, OwnLabels, OneCloser, ClosedIsIdle, CloserLabels,
       TailLabels, CloseClear, Goto
<1>18. ASSUME NEW t \in AllThreads, CloseFinish(t)
      PROVE  ClosedIsIdle'
  BY <1>18 DEF TypeOK, Targeted, OwnLabels, OneCloser, ClosedIsIdle, CloserLabels,
       TailLabels, CloseFinish, Goto
<1>19. ASSUME NEW t \in AllThreads, CloseReturn(t)
      PROVE  ClosedIsIdle'
  BY <1>19 DEF TypeOK, Targeted, OwnLabels, OneCloser, ClosedIsIdle, CloserLabels,
       TailLabels, CloseReturn, Goto, callVars
<1>20. ASSUME NEW t \in AllThreads, NEW c \in Conns, InterruptRead(t, c)
      PROVE  ClosedIsIdle'
  BY <1>20 DEF TypeOK, Targeted, OwnLabels, OneCloser, ClosedIsIdle, CloserLabels,
       TailLabels, InterruptRead, Goto, callVars
<1>21. ASSUME NEW t \in AllThreads, InterruptCall(t)
      PROVE  ClosedIsIdle'
  BY <1>21 DEF TypeOK, Targeted, OwnLabels, OneCloser, ClosedIsIdle, CloserLabels,
       TailLabels, InterruptCall, Goto, callVars
<1>22. ASSUME NEW t \in AllThreads, NEW c \in Conns, InitCheck(t, c)
      PROVE  ClosedIsIdle'
  BY <1>22 DEF TypeOK, Targeted, OwnLabels, OneCloser, ClosedIsIdle, CloserLabels,
       TailLabels, InitCheck, Goto, callVars
<1>23. ASSUME NEW t \in AllThreads, InitCreate(t)
      PROVE  ClosedIsIdle'
  BY <1>23 DEF TypeOK, Targeted, OwnLabels, OneCloser, ClosedIsIdle, CloserLabels,
       TailLabels, InitCreate, Goto
<1>24. ASSUME NEW w \in Workers, LeaveUdfOnWorker(w)
      PROVE  ClosedIsIdle'
  BY <1>24 DEF TypeOK, Targeted, OwnLabels, OneCloser, ClosedIsIdle, CloserLabels,
       TailLabels, LeaveUdfOnWorker, Goto, callVars, AllThreads
<1>25. ASSUME NEW w \in Workers, NEW c \in Conns, UdfOnWorker(w, c)
      PROVE  ClosedIsIdle'
  BY <1>25 DEF TypeOK, Targeted, OwnLabels, OneCloser, ClosedIsIdle, CloserLabels,
       TailLabels, UdfOnWorker, Goto, callVars, AllThreads
<1>26. CASE UNCHANGED vars
  BY <1>26 DEF vars, ClosedIsIdle
<1> QED
  BY <1>1, <1>2, <1>3, <1>4, <1>5, <1>6, <1>7, <1>8, <1>9, <1>10, <1>11, <1>12, <1>13,
       <1>14, <1>15, <1>16, <1>17, <1>18, <1>19, <1>20, <1>21, <1>22, <1>23, <1>24,
       <1>25, <1>26 DEF Next, Call, Engine, Close, Uncounted, WorkerUdf

\* A UDF that closes an idle connection keeps others from entering it.
LEMMA UdfNeverWaitsStep ==
    ASSUME TypeOK, Shape, Targeted, InFlightCountsFrames, OneCloser,
           UdfNeverWaitsInClose, [Next]_vars
    PROVE  UdfNeverWaitsInClose'
<1>1. ASSUME NEW t \in AllThreads, NEW c \in Conns, Enter(t, c)
      PROVE  UdfNeverWaitsInClose'
  <2>1. /\ \A u \in AllThreads \ {t} : pc'[u] = pc[u] /\ stack'[u] = stack[u]
        /\ pc'[t] # "close"
        /\ target' = target
    <3>1. Push(t, c) /\ c \in Entries
      BY <1>1 DEF Enter, Entries
    <3> QED
      BY <1>1, <3>1, PushEntries DEF Enter, Goto, TypeOK
  <2>2. ASSUME NEW u \in AllThreads, pc[u] = "close"
        PROVE  callsInFlight'[target[u]] = callsInFlight[target[u]]
    <3>1. closing[target[u]] /\ target[u] \in Conns
      BY <2>2 DEF OneCloser, Targeted, OwnLabels, CloserLabels
    <3>2. ~closing[c]
      BY <1>1 DEF Enter, MayEnter
    <3> QED
      BY <1>1, <3>1, <3>2 DEF Enter, TypeOK
  <2> QED
    BY <2>1, <2>2 DEF UdfNeverWaitsInClose, OnStack
<1>2. ASSUME NEW t \in AllThreads, Leave(t)
      PROVE  UdfNeverWaitsInClose'
  <2>1. /\ \A u \in AllThreads \ {t} : pc'[u] = pc[u] /\ stack'[u] = stack[u]
        /\ pc'[t] # "close"
        /\ target' = target
    <3>1. Pop(t) /\ stack[t] # <<>>
      BY <1>2, CountIsNat DEF Leave
    <3> QED
      BY <1>2, <3>1, PopEntries DEF Leave, Goto, TypeOK
  <2>2. ASSUME NEW u \in AllThreads, pc[u] = "close", callsInFlight[target[u]] = 0
        PROVE  callsInFlight'[target[u]] = 0
    <3>1. callsInFlight[Top(t)] > 0 /\ Top(t) \in Conns
      BY <1>2, CountIsNat, OnStackCounted DEF Leave, InFlightCountsFrames
    <3>2. target[u] \in Conns
      BY <2>2 DEF Targeted, OwnLabels, CloserLabels
    <3> QED
      BY <1>2, <2>2, <3>1, <3>2 DEF Leave, TypeOK
  <2> QED
    BY <2>1, <2>2 DEF UdfNeverWaitsInClose, OnStack
<1>3. ASSUME NEW t \in AllThreads, NEW kind \in CallKinds, NativeCall(t, kind)
      PROVE  UdfNeverWaitsInClose'
  BY <1>3 DEF TypeOK, UdfNeverWaitsInClose, OnStack, NativeCall, Goto, callVars
<1>4. ASSUME NEW t \in AllThreads, BackToPython(t)
      PROVE  UdfNeverWaitsInClose'
  BY <1>4 DEF TypeOK, UdfNeverWaitsInClose, OnStack, BackToPython, Goto, callVars
<1>5. ASSUME NEW t \in AllThreads, EngineTake(t)
      PROVE  UdfNeverWaitsInClose'
  BY <1>5 DEF TypeOK, UdfNeverWaitsInClose, OnStack, EngineTake, Goto, callVars
<1>6. ASSUME NEW t \in AllThreads, EngineStart(t)
      PROVE  UdfNeverWaitsInClose'
  BY <1>6 DEF TypeOK, UdfNeverWaitsInClose, OnStack, EngineStart, callVars
<1>7. ASSUME NEW t \in AllThreads, EngineLeave(t)
      PROVE  UdfNeverWaitsInClose'
  BY <1>7 DEF TypeOK, UdfNeverWaitsInClose, OnStack, EngineLeave, Goto, callVars
<1>8. ASSUME NEW t \in AllThreads, UdfOnCaller(t)
      PROVE  UdfNeverWaitsInClose'
  BY <1>8 DEF TypeOK, UdfNeverWaitsInClose, OnStack, UdfOnCaller, Goto, callVars
<1>9. ASSUME NEW t \in AllThreads, EnterUdf(t)
      PROVE  UdfNeverWaitsInClose'
  <2>1. /\ \A u \in AllThreads \ {t} : pc'[u] = pc[u] /\ stack'[u] = stack[u]
        /\ pc'[t] # "close"
        /\ target' = target
    <3>1. Push(t, UDF) /\ UDF \in Entries
      BY <1>9 DEF EnterUdf, Entries
    <3> QED
      BY <1>9, <3>1, PushEntries DEF EnterUdf, Goto, TypeOK
  <2>2. callsInFlight' = callsInFlight
    BY <1>9 DEF EnterUdf, callVars
  <2> QED
    BY <2>1, <2>2 DEF UdfNeverWaitsInClose, OnStack
<1>10. ASSUME NEW t \in AllThreads, LeaveUdfOnCaller(t)
      PROVE  UdfNeverWaitsInClose'
  <2>1. /\ \A u \in AllThreads \ {t} : pc'[u] = pc[u] /\ stack'[u] = stack[u]
        /\ pc'[t] # "close"
        /\ target' = target
    <3>1. Pop(t) /\ stack[t] # <<>>
      BY <1>10, FrontNonEmpty DEF LeaveUdfOnCaller
    <3> QED
      BY <1>10, <3>1, PopEntries DEF LeaveUdfOnCaller, Goto, TypeOK
  <2>2. callsInFlight' = callsInFlight
    BY <1>10 DEF LeaveUdfOnCaller, callVars
  <2> QED
    BY <2>1, <2>2 DEF UdfNeverWaitsInClose, OnStack
<1>11. ASSUME NEW t \in AllThreads, NEW c \in Conns, CloseBegin(t, c)
      PROVE  UdfNeverWaitsInClose'
  <2>1. ~OnStack(t, c) /\ (OnStack(t, UDF) => CalledFromUdf(t, c))
    BY <1>11 DEF CloseBegin, MayClose, OnStack, CalledFromUdf
  <2>2. OnStack(t, UDF) => callsInFlight[c] = 0
    BY <1>11, <2>1 DEF CloseBegin, MayClose, TypeOK
  <2>3. /\ stack' = stack /\ callsInFlight' = callsInFlight
        /\ \A u \in AllThreads \ {t} : pc'[u] = pc[u] /\ target'[u] = target[u]
        /\ target'[t] = c
    BY <1>11 DEF CloseBegin, Goto, TypeOK
  <2> QED
    BY <2>2, <2>3 DEF UdfNeverWaitsInClose, OnStack
<1>12. ASSUME NEW t \in AllThreads, NEW c \in Conns, CloseAgain(t, c)
      PROVE  UdfNeverWaitsInClose'
  BY <1>12 DEF TypeOK, UdfNeverWaitsInClose, OnStack, CloseAgain, Goto, callVars
<1>13. ASSUME NEW t \in AllThreads, CloseInterrupt(t)
      PROVE  UdfNeverWaitsInClose'
  BY <1>13 DEF TypeOK, UdfNeverWaitsInClose, OnStack, CloseInterrupt, callVars
<1>14. ASSUME NEW t \in AllThreads, CloseAbort(t)
      PROVE  UdfNeverWaitsInClose'
  BY <1>14 DEF TypeOK, UdfNeverWaitsInClose, OnStack, CloseAbort, Goto
<1>15. ASSUME NEW t \in AllThreads, CloseProceed(t)
      PROVE  UdfNeverWaitsInClose'
  BY <1>15 DEF TypeOK, UdfNeverWaitsInClose, OnStack, CloseProceed, Goto, callVars
<1>16. ASSUME NEW t \in AllThreads, CloseNative(t)
      PROVE  UdfNeverWaitsInClose'
  BY <1>16 DEF TypeOK, UdfNeverWaitsInClose, OnStack, CloseNative, Goto
<1>17. ASSUME NEW t \in AllThreads, CloseClear(t)
      PROVE  UdfNeverWaitsInClose'
  BY <1>17 DEF TypeOK, UdfNeverWaitsInClose, OnStack, CloseClear, Goto
<1>18. ASSUME NEW t \in AllThreads, CloseFinish(t)
      PROVE  UdfNeverWaitsInClose'
  BY <1>18 DEF TypeOK, UdfNeverWaitsInClose, OnStack, CloseFinish, Goto
<1>19. ASSUME NEW t \in AllThreads, CloseReturn(t)
      PROVE  UdfNeverWaitsInClose'
  BY <1>19 DEF TypeOK, UdfNeverWaitsInClose, OnStack, CloseReturn, Goto, callVars
<1>20. ASSUME NEW t \in AllThreads, NEW c \in Conns, InterruptRead(t, c)
      PROVE  UdfNeverWaitsInClose'
  BY <1>20 DEF TypeOK, UdfNeverWaitsInClose, OnStack, InterruptRead, Goto, callVars
<1>21. ASSUME NEW t \in AllThreads, InterruptCall(t)
      PROVE  UdfNeverWaitsInClose'
  BY <1>21 DEF TypeOK, UdfNeverWaitsInClose, OnStack, InterruptCall, Goto, callVars
<1>22. ASSUME NEW t \in AllThreads, NEW c \in Conns, InitCheck(t, c)
      PROVE  UdfNeverWaitsInClose'
  BY <1>22 DEF TypeOK, UdfNeverWaitsInClose, OnStack, InitCheck, Goto, callVars
<1>23. ASSUME NEW t \in AllThreads, InitCreate(t)
      PROVE  UdfNeverWaitsInClose'
  BY <1>23 DEF TypeOK, UdfNeverWaitsInClose, OnStack, InitCreate, Goto
<1>24. ASSUME NEW w \in Workers, LeaveUdfOnWorker(w)
      PROVE  UdfNeverWaitsInClose'
  <2>1. /\ \A u \in AllThreads \ {w} : pc'[u] = pc[u] /\ stack'[u] = stack[u]
        /\ pc'[w] # "close"
        /\ target' = target
    <3>1. Pop(w) /\ stack[w] # <<>> /\ w \in AllThreads
      BY <1>24 DEF LeaveUdfOnWorker, AllThreads
    <3> QED
      BY <1>24, <3>1, PopEntries DEF LeaveUdfOnWorker, Goto, TypeOK
  <2>2. callsInFlight' = callsInFlight
    BY <1>24 DEF LeaveUdfOnWorker, callVars
  <2> QED
    BY <2>1, <2>2 DEF UdfNeverWaitsInClose, OnStack
<1>25. ASSUME NEW w \in Workers, NEW c \in Conns, UdfOnWorker(w, c)
      PROVE  UdfNeverWaitsInClose'
  BY <1>25 DEF TypeOK, UdfNeverWaitsInClose, OnStack, UdfOnWorker, Goto, callVars,
       AllThreads
<1>26. CASE UNCHANGED vars
  BY <1>26 DEF vars, UdfNeverWaitsInClose, OnStack
<1> QED
  BY <1>1, <1>2, <1>3, <1>4, <1>5, <1>6, <1>7, <1>8, <1>9, <1>10, <1>11, <1>12, <1>13,
       <1>14, <1>15, <1>16, <1>17, <1>18, <1>19, <1>20, <1>21, <1>22, <1>23, <1>24,
       <1>25, <1>26 DEF Next, Call, Engine, Close, Uncounted, WorkerUdf

\* Only the teardown takes the handle away.
LEMMA HandleLostStep ==
    ASSUME TypeOK, Targeted, HandleLostInTeardown, [Next]_vars
    PROVE  HandleLostInTeardown'
<1>1. ASSUME NEW t \in AllThreads, NEW c \in Conns, Enter(t, c)
      PROVE  HandleLostInTeardown'
  BY <1>1 DEF TypeOK, Targeted, OwnLabels, HandleLostInTeardown, TearingDown,
       CloserLabels, TailLabels, Enter, Goto, InUserCode, InBody
<1>2. ASSUME NEW t \in AllThreads, Leave(t)
      PROVE  HandleLostInTeardown'
  BY <1>2 DEF TypeOK, Targeted, OwnLabels, HandleLostInTeardown, TearingDown,
       CloserLabels, TailLabels, Leave, Goto, InBody
<1>3. ASSUME NEW t \in AllThreads, NEW kind \in CallKinds, NativeCall(t, kind)
      PROVE  HandleLostInTeardown'
  BY <1>3 DEF TypeOK, Targeted, OwnLabels, HandleLostInTeardown, TearingDown,
       CloserLabels, TailLabels, NativeCall, Goto, callVars, InBody
<1>4. ASSUME NEW t \in AllThreads, BackToPython(t)
      PROVE  HandleLostInTeardown'
  BY <1>4 DEF TypeOK, Targeted, OwnLabels, HandleLostInTeardown, TearingDown,
       CloserLabels, TailLabels, BackToPython, Goto, callVars
<1>5. ASSUME NEW t \in AllThreads, EngineTake(t)
      PROVE  HandleLostInTeardown'
  BY <1>5 DEF TypeOK, Targeted, OwnLabels, HandleLostInTeardown, TearingDown,
       CloserLabels, TailLabels, EngineTake, Goto, callVars
<1>6. ASSUME NEW t \in AllThreads, EngineStart(t)
      PROVE  HandleLostInTeardown'
  BY <1>6 DEF TypeOK, Targeted, OwnLabels, HandleLostInTeardown, TearingDown,
       CloserLabels, TailLabels, EngineStart, callVars
<1>7. ASSUME NEW t \in AllThreads, EngineLeave(t)
      PROVE  HandleLostInTeardown'
  BY <1>7 DEF TypeOK, Targeted, OwnLabels, HandleLostInTeardown, TearingDown,
       CloserLabels, TailLabels, EngineLeave, Goto, callVars
<1>8. ASSUME NEW t \in AllThreads, UdfOnCaller(t)
      PROVE  HandleLostInTeardown'
  BY <1>8 DEF TypeOK, Targeted, OwnLabels, HandleLostInTeardown, TearingDown,
       CloserLabels, TailLabels, UdfOnCaller, Goto, callVars
<1>9. ASSUME NEW t \in AllThreads, EnterUdf(t)
      PROVE  HandleLostInTeardown'
  BY <1>9 DEF TypeOK, Targeted, OwnLabels, HandleLostInTeardown, TearingDown,
       CloserLabels, TailLabels, EnterUdf, Goto, callVars
<1>10. ASSUME NEW t \in AllThreads, LeaveUdfOnCaller(t)
      PROVE  HandleLostInTeardown'
  BY <1>10 DEF TypeOK, Targeted, OwnLabels, HandleLostInTeardown, TearingDown,
       CloserLabels, TailLabels, LeaveUdfOnCaller, Goto, callVars, InUserCode
<1>11. ASSUME NEW t \in AllThreads, NEW c \in Conns, CloseBegin(t, c)
      PROVE  HandleLostInTeardown'
  BY <1>11 DEF TypeOK, Targeted, OwnLabels, HandleLostInTeardown, TearingDown,
       CloserLabels, TailLabels, CloseBegin, Goto, InUserCode
<1>12. ASSUME NEW t \in AllThreads, NEW c \in Conns, CloseAgain(t, c)
      PROVE  HandleLostInTeardown'
  BY <1>12 DEF TypeOK, Targeted, OwnLabels, HandleLostInTeardown, TearingDown,
       CloserLabels, TailLabels, CloseAgain, Goto, callVars, InUserCode
<1>13. ASSUME NEW t \in AllThreads, CloseInterrupt(t)
      PROVE  HandleLostInTeardown'
  BY <1>13 DEF TypeOK, Targeted, OwnLabels, HandleLostInTeardown, TearingDown,
       CloserLabels, TailLabels, CloseInterrupt, callVars
<1>14. ASSUME NEW t \in AllThreads, CloseAbort(t)
      PROVE  HandleLostInTeardown'
  BY <1>14 DEF TypeOK, Targeted, OwnLabels, HandleLostInTeardown, TearingDown,
       CloserLabels, TailLabels, CloseAbort, Goto
<1>15. ASSUME NEW t \in AllThreads, CloseProceed(t)
      PROVE  HandleLostInTeardown'
  BY <1>15 DEF TypeOK, Targeted, OwnLabels, HandleLostInTeardown, TearingDown,
       CloserLabels, TailLabels, CloseProceed, Goto, callVars
<1>16. ASSUME NEW t \in AllThreads, CloseNative(t)
      PROVE  HandleLostInTeardown'
  BY <1>16 DEF TypeOK, Targeted, OwnLabels, HandleLostInTeardown, TearingDown,
       CloserLabels, TailLabels, CloseNative, Goto
<1>17. ASSUME NEW t \in AllThreads, CloseClear(t)
      PROVE  HandleLostInTeardown'
  BY <1>17 DEF TypeOK, Targeted, OwnLabels, HandleLostInTeardown, TearingDown,
       CloserLabels, TailLabels, CloseClear, Goto
<1>18. ASSUME NEW t \in AllThreads, CloseFinish(t)
      PROVE  HandleLostInTeardown'
  BY <1>18 DEF TypeOK, Targeted, OwnLabels, HandleLostInTeardown, TearingDown,
       CloserLabels, TailLabels, CloseFinish, Goto
<1>19. ASSUME NEW t \in AllThreads, CloseReturn(t)
      PROVE  HandleLostInTeardown'
  BY <1>19 DEF TypeOK, Targeted, OwnLabels, HandleLostInTeardown, TearingDown,
       CloserLabels, TailLabels, CloseReturn, Goto, callVars
<1>20. ASSUME NEW t \in AllThreads, NEW c \in Conns, InterruptRead(t, c)
      PROVE  HandleLostInTeardown'
  BY <1>20 DEF TypeOK, Targeted, OwnLabels, HandleLostInTeardown, TearingDown,
       CloserLabels, TailLabels, InterruptRead, Goto, callVars, InUserCode
<1>21. ASSUME NEW t \in AllThreads, InterruptCall(t)
      PROVE  HandleLostInTeardown'
  BY <1>21 DEF TypeOK, Targeted, OwnLabels, HandleLostInTeardown, TearingDown,
       CloserLabels, TailLabels, InterruptCall, Goto, callVars
<1>22. ASSUME NEW t \in AllThreads, NEW c \in Conns, InitCheck(t, c)
      PROVE  HandleLostInTeardown'
  BY <1>22 DEF TypeOK, Targeted, OwnLabels, HandleLostInTeardown, TearingDown,
       CloserLabels, TailLabels, InitCheck, Goto, callVars, InUserCode
<1>23. ASSUME NEW t \in AllThreads, InitCreate(t)
      PROVE  HandleLostInTeardown'
  <2>1. \A c \in Conns : connection'[c] # "live" => connection[c] # "live"
    BY <1>23 DEF InitCreate, TypeOK, Targeted, OwnLabels
  <2>2. \A u \in AllThreads : pc[u] \in TailLabels =>
            pc'[u] = pc[u] /\ target'[u] = target[u]
    BY <1>23 DEF InitCreate, Goto, TypeOK, TailLabels
  <2>3. isClosed' = isClosed
    BY <1>23 DEF InitCreate
  <2> QED
    BY <2>1, <2>2, <2>3 DEF HandleLostInTeardown, TearingDown
<1>24. ASSUME NEW w \in Workers, LeaveUdfOnWorker(w)
      PROVE  HandleLostInTeardown'
  BY <1>24 DEF TypeOK, Targeted, OwnLabels, HandleLostInTeardown, TearingDown,
       CloserLabels, TailLabels, LeaveUdfOnWorker, Goto, callVars, InUserCode,
       AllThreads
<1>25. ASSUME NEW w \in Workers, NEW c \in Conns, UdfOnWorker(w, c)
      PROVE  HandleLostInTeardown'
  BY <1>25 DEF TypeOK, Targeted, OwnLabels, HandleLostInTeardown, TearingDown,
       CloserLabels, TailLabels, UdfOnWorker, Goto, callVars, AllThreads
<1>26. CASE UNCHANGED vars
  BY <1>26 DEF vars, HandleLostInTeardown, TearingDown
<1> QED
  BY <1>1, <1>2, <1>3, <1>4, <1>5, <1>6, <1>7, <1>8, <1>9, <1>10, <1>11, <1>12, <1>13,
       <1>14, <1>15, <1>16, <1>17, <1>18, <1>19, <1>20, <1>21, <1>22, <1>23, <1>24,
       <1>25, <1>26 DEF Next, Call, Engine, Close, Uncounted, WorkerUdf

-----------------------------------------------------------------------------
(* The theorems about close().                                             *)

\* The initial state satisfies the inductive invariant.
LEMMA InitIInv == Init => IInv
<1> SUFFICES ASSUME Init PROVE IInv
  OBVIOUS
<1>1. \A t \in AllThreads : stack[t] = <<>> /\ Len(stack[t]) = 0
  BY DEF Init
<1>2. TypeOK
  BY EmptySeq DEF Init, TypeOK, Labels, AllThreads
<1>3. Shape
  BY <1>1, LifecycleAssumption DEF Init, Shape, StackShape, OwnLabels, CallLabels, CloserLabels
<1>4. \A c \in Conns : Frames(c) = {}
  BY <1>1 DEF Frames
<1>5. InFlightCountsFrames
  BY <1>4, FS_EmptySet DEF Init, InFlightCountsFrames
<1>6. Targeted /\ HolderInCall /\ OneCloser /\ ClosedIsIdle /\ UdfNeverWaitsInClose
  BY DEF Init, Targeted, OwnLabels, HolderInCall, OneCloser, CloserLabels, ClosedIsIdle,
     TailLabels, UdfNeverWaitsInClose
<1>7. HandleLostInTeardown
  BY DEF Init, HandleLostInTeardown
<1> QED
  BY <1>2, <1>3, <1>5, <1>6, <1>7 DEF IInv

\* Every step of the specification preserves it.
LEMMA StepIInv == IInv /\ [Next]_vars => IInv'
BY TypingStep, ShapeStep, TargetedStep, CountStep, HolderStep, OneCloserStep,
   ClosedIsIdleStep, UdfNeverWaitsStep, HandleLostStep DEF IInv

\* Every reachable state satisfies the inductive invariant.
THEOREM Invariance == Spec => []IInv
BY InitIInv, StepIInv, PTL DEF Spec

\* The variables always hold values of their kind: in particular no sequence
\* of calls, UDFs and closes takes _calls_in_flight below zero.
THEOREM TypeCorrect == Spec => []TypeOK
<1>1. IInv => TypeOK
  BY DEF IInv
<1> QED
  BY <1>1, Invariance, PTL

\* _calls_in_flight is exact in every reachable state (connection.py 346-361).
THEOREM CountsExact == Spec => []InFlightCountsFrames
<1>1. IInv => InFlightCountsFrames
  BY DEF IInv
<1> QED
  BY <1>1, Invariance, PTL

\* At most one thread is between setting _closing and is_closed.
THEOREM SingleCloser == Spec => []OneCloser
<1>1. IInv => OneCloser
  BY DEF IInv
<1> QED
  BY <1>1, Invariance, PTL

\* A close() made from a UDF never blocks on a call in flight.
THEOREM UdfCloseNeverWaits == Spec => []UdfNeverWaitsInClose
<1>1. IInv => UdfNeverWaitsInClose
  BY DEF IInv
<1> QED
  BY <1>1, Invariance, PTL

\* The teardown of a native handle races with no counted call: the counter is
\* zero from the end of the wait on, so no frame is left on any stack, and a
\* thread in the engine would have one.
THEOREM TeardownExclusive == Spec => []TeardownIsAlone
<1>1. ASSUME IInv PROVE TeardownIsAlone
  <2> SUFFICES ASSUME NEW c \in Conns,
                      isClosed[c] \/ \E t \in AllThreads : TearingDown(t, c)
               PROVE  holder[c] = NULL /\ \A u \in AllThreads : ~OnStack(u, c)
    BY DEF TeardownIsAlone
  <2>1. callsInFlight[c] = 0
    BY <1>1 DEF IInv, ClosedIsIdle, TearingDown
  <2>2. \A u \in AllThreads : ~OnStack(u, c)
    BY <1>1, <2>1, OnStackCounted DEF IInv, InFlightCountsFrames
  <2>3. holder[c] = NULL
    <3>1. CASE holder[c] # NULL
      <4>1. InCall(holder[c], c) /\ holder[c] \in AllThreads
        BY <1>1, <3>1 DEF IInv, HolderInCall, TypeOK
      <4>2. OnStack(holder[c], c)
        BY <4>1 DEF InCall, OnStack
      <4> QED
        BY <2>2, <4>1, <4>2
    <3> QED
      BY <3>1
  <2> QED
    BY <2>2, <2>3
<1> QED
  BY <1>1, Invariance, PTL

\* What AbortReopensUsable asks of a connection whose _closing is reset.
Reopenable(c) ==
    /\ connection[c] = "live"
    /\ ~isClosed'[c]
    /\ \A t \in AllThreads : ~TearingDown(t, c)

\* Only CloseAbort resets _closing, and only for the connection it waits for.
LEMMA ReopenStep ==
    ASSUME IInv, [Next]_vars
    PROVE  \A d \in Conns : closing[d] /\ ~closing'[d] => Reopenable(d)
<1>1. ASSUME NEW t \in AllThreads, NEW c \in Conns, Enter(t, c)
      PROVE  \A d \in Conns : closing[d] /\ ~closing'[d] => Reopenable(d)
  BY <1>1 DEF IInv, TypeOK, Enter
<1>2. ASSUME NEW t \in AllThreads, Leave(t)
      PROVE  \A d \in Conns : closing[d] /\ ~closing'[d] => Reopenable(d)
  BY <1>2 DEF IInv, TypeOK, Leave
<1>3. ASSUME NEW t \in AllThreads, NEW kind \in CallKinds, NativeCall(t, kind)
      PROVE  \A d \in Conns : closing[d] /\ ~closing'[d] => Reopenable(d)
  BY <1>3 DEF IInv, TypeOK, NativeCall, callVars
<1>4. ASSUME NEW t \in AllThreads, BackToPython(t)
      PROVE  \A d \in Conns : closing[d] /\ ~closing'[d] => Reopenable(d)
  BY <1>4 DEF IInv, TypeOK, BackToPython, callVars
<1>5. ASSUME NEW t \in AllThreads, EngineTake(t)
      PROVE  \A d \in Conns : closing[d] /\ ~closing'[d] => Reopenable(d)
  BY <1>5 DEF IInv, TypeOK, EngineTake, callVars
<1>6. ASSUME NEW t \in AllThreads, EngineStart(t)
      PROVE  \A d \in Conns : closing[d] /\ ~closing'[d] => Reopenable(d)
  BY <1>6 DEF IInv, TypeOK, EngineStart, callVars
<1>7. ASSUME NEW t \in AllThreads, EngineLeave(t)
      PROVE  \A d \in Conns : closing[d] /\ ~closing'[d] => Reopenable(d)
  BY <1>7 DEF IInv, TypeOK, EngineLeave, callVars
<1>8. ASSUME NEW t \in AllThreads, UdfOnCaller(t)
      PROVE  \A d \in Conns : closing[d] /\ ~closing'[d] => Reopenable(d)
  BY <1>8 DEF IInv, TypeOK, UdfOnCaller, callVars
<1>9. ASSUME NEW t \in AllThreads, EnterUdf(t)
      PROVE  \A d \in Conns : closing[d] /\ ~closing'[d] => Reopenable(d)
  BY <1>9 DEF IInv, TypeOK, EnterUdf, callVars
<1>10. ASSUME NEW t \in AllThreads, LeaveUdfOnCaller(t)
      PROVE  \A d \in Conns : closing[d] /\ ~closing'[d] => Reopenable(d)
  BY <1>10 DEF IInv, TypeOK, LeaveUdfOnCaller, callVars
<1>11. ASSUME NEW t \in AllThreads, NEW c \in Conns, CloseBegin(t, c)
      PROVE  \A d \in Conns : closing[d] /\ ~closing'[d] => Reopenable(d)
  BY <1>11 DEF IInv, TypeOK, CloseBegin
<1>12. ASSUME NEW t \in AllThreads, NEW c \in Conns, CloseAgain(t, c)
      PROVE  \A d \in Conns : closing[d] /\ ~closing'[d] => Reopenable(d)
  BY <1>12 DEF IInv, TypeOK, CloseAgain, callVars
<1>13. ASSUME NEW t \in AllThreads, CloseInterrupt(t)
      PROVE  \A d \in Conns : closing[d] /\ ~closing'[d] => Reopenable(d)
  BY <1>13 DEF IInv, TypeOK, CloseInterrupt, callVars
<1>14. ASSUME NEW t \in AllThreads, CloseAbort(t)
      PROVE  \A d \in Conns : closing[d] /\ ~closing'[d] => Reopenable(d)
  <2>1. ASSUME NEW d \in Conns, closing[d], ~closing'[d]
        PROVE  Reopenable(d)
    <3>1. target[t] = d /\ pc[t] = "close" /\ isClosed' = isClosed
      BY <1>14, <2>1 DEF CloseAbort, IInv, TypeOK
    <3>2. ~isClosed[d] /\ \A u \in AllThreads : ~TearingDown(u, d)
      BY <3>1 DEF IInv, OneCloser, TearingDown, CloserLabels, TailLabels
    <3> QED
      BY <3>1, <3>2 DEF IInv, HandleLostInTeardown, Reopenable
  <2> QED
    BY <2>1
<1>15. ASSUME NEW t \in AllThreads, CloseProceed(t)
      PROVE  \A d \in Conns : closing[d] /\ ~closing'[d] => Reopenable(d)
  BY <1>15 DEF IInv, TypeOK, CloseProceed, callVars
<1>16. ASSUME NEW t \in AllThreads, CloseNative(t)
      PROVE  \A d \in Conns : closing[d] /\ ~closing'[d] => Reopenable(d)
  BY <1>16 DEF IInv, TypeOK, CloseNative
<1>17. ASSUME NEW t \in AllThreads, CloseClear(t)
      PROVE  \A d \in Conns : closing[d] /\ ~closing'[d] => Reopenable(d)
  BY <1>17 DEF IInv, TypeOK, CloseClear
<1>18. ASSUME NEW t \in AllThreads, CloseFinish(t)
      PROVE  \A d \in Conns : closing[d] /\ ~closing'[d] => Reopenable(d)
  BY <1>18 DEF IInv, TypeOK, CloseFinish
<1>19. ASSUME NEW t \in AllThreads, CloseReturn(t)
      PROVE  \A d \in Conns : closing[d] /\ ~closing'[d] => Reopenable(d)
  BY <1>19 DEF IInv, TypeOK, CloseReturn, callVars
<1>20. ASSUME NEW t \in AllThreads, NEW c \in Conns, InterruptRead(t, c)
      PROVE  \A d \in Conns : closing[d] /\ ~closing'[d] => Reopenable(d)
  BY <1>20 DEF IInv, TypeOK, InterruptRead, callVars
<1>21. ASSUME NEW t \in AllThreads, InterruptCall(t)
      PROVE  \A d \in Conns : closing[d] /\ ~closing'[d] => Reopenable(d)
  BY <1>21 DEF IInv, TypeOK, InterruptCall, callVars
<1>22. ASSUME NEW t \in AllThreads, NEW c \in Conns, InitCheck(t, c)
      PROVE  \A d \in Conns : closing[d] /\ ~closing'[d] => Reopenable(d)
  BY <1>22 DEF IInv, TypeOK, InitCheck, callVars
<1>23. ASSUME NEW t \in AllThreads, InitCreate(t)
      PROVE  \A d \in Conns : closing[d] /\ ~closing'[d] => Reopenable(d)
  BY <1>23 DEF IInv, TypeOK, InitCreate
<1>24. ASSUME NEW w \in Workers, LeaveUdfOnWorker(w)
      PROVE  \A d \in Conns : closing[d] /\ ~closing'[d] => Reopenable(d)
  BY <1>24 DEF IInv, TypeOK, LeaveUdfOnWorker, callVars
<1>25. ASSUME NEW w \in Workers, NEW c \in Conns, UdfOnWorker(w, c)
      PROVE  \A d \in Conns : closing[d] /\ ~closing'[d] => Reopenable(d)
  BY <1>25 DEF IInv, TypeOK, UdfOnWorker, callVars
<1>26. CASE UNCHANGED vars
  BY <1>26 DEF vars, TypeOK
<1> QED
  BY <1>1, <1>2, <1>3, <1>4, <1>5, <1>6, <1>7, <1>8, <1>9, <1>10, <1>11, <1>12, <1>13,
       <1>14, <1>15, <1>16, <1>17, <1>18, <1>19, <1>20, <1>21, <1>22, <1>23, <1>24,
       <1>25, <1>26 DEF Next, Call, Engine, Close, Uncounted, WorkerUdf

\* Whatever a close() gives up on is still usable (connection.py 560-566).
THEOREM AbortedCloseReopens == Spec => AbortReopensUsable
<1>1. ASSUME IInv, [Next]_vars
      PROVE  [\A c \in Conns : closing[c] /\ ~closing'[c] =>
                 /\ connection[c] = "live"
                 /\ ~isClosed'[c]
                 /\ \A t \in AllThreads : ~TearingDown(t, c)]_vars
  BY <1>1, ReopenStep DEF Reopenable
<1> QED
  BY <1>1, Invariance, PTL DEF Spec, AbortReopensUsable

-----------------------------------------------------------------------------
(* No circle of waits.                                                     *)
(*                                                                         *)
(* A query waits, through its UDFs, only for connections that became busy  *)
(* after its own: older is that order.  Among threads that all wait, one   *)
(* whose connection has the fewest in a call above it, and which is in the *)
(* engine rather than in front of it, has no one to wait for.              *)

\* The GIL is nobody's while a native call runs.
NoneKeepsGil == gil = NULL /\ \A c \in Conns : ~kept[c]

\* A query that is compiled or executed is somebody's call.
EngineHasHolder == \A c \in Conns : phase[c] # "idle" => holder[c] # NULL

\* An engine thread runs a UDF of a query that is in the engine, and calls only from it.
WorkersServe ==
    \A w \in Workers :
        /\ serves[w] # NULL => holder[serves[w]] # NULL
        /\ stack[w] # <<>> => stack[w][1] = UDF
        /\ stack[w] = <<>> => pc[w] \in {"parked", "wantgil"}

\* What became busy has not become idle since.
OlderIsBusy == older \subseteq Busy \X Busy

\* What makes NoCircularWait an invariant.
Ordered ==
    /\ IInv
    /\ NoneKeepsGil
    /\ EngineHasHolder
    /\ WorkersServe
    /\ OlderIsBusy
    /\ UdfWaitsAreOrdered

-----------------------------------------------------------------------------
(* The GIL and the engine.                                                 *)

\* What is left to a caller's UDF when it ends is the call that ran it.
LEMMA UdfBelow ==
    ASSUME TypeOK, Shape, NEW t \in AllThreads, LeaveUdfOnCaller(t)
    PROVE  /\ Front(stack[t]) # <<>> /\ stack[t] # <<>>
           /\ Last(Front(stack[t])) \in Conns
<1>1. Front(stack[t]) # <<>> /\ pc[t] = "user" /\ Pop(t)
  BY DEF LeaveUdfOnCaller, InUserCode
<1>2. stack[t] # <<>>
  BY <1>1, FrontNonEmpty
<1>3. Last(Front(stack[t])) = stack[t][Len(stack[t]) - 1] /\ Len(stack[t]) \in Nat \ {0}
      /\ Len(stack'[t]) = Len(stack[t]) - 1 /\ stack'[t] # <<>>
  BY <1>1, <1>2, PopEntries
<1>4. Len(stack[t]) \in 2..Len(stack[t])
  <2>1. stack[t] \in Seq(Entries)
    BY StackLength
  <2>2. Len(Front(stack[t])) # 0
    BY <1>1, <1>2, <2>1, FrontEntries, EmptySeq
  <2> QED
    BY <1>2, <1>3, <2>1, <2>2, FrontEntries
<1>5. stack[t][Len(stack[t])] = UDF
  BY <1>1, <1>2 DEF Shape, StackShape, Top, Last
<1>6. stack[t][Len(stack[t]) - 1] \in Conns
  BY <1>4, <1>5 DEF Shape, StackShape
<1> QED
  BY <1>1, <1>2, <1>3, <1>6

LEMMA NoneKeepsGilStep ==
    ASSUME TypeOK, Shape, "kept" \notin CallKinds, NoneKeepsGil, [Next]_vars
    PROVE  NoneKeepsGil'
<1> USE DEF NoneKeepsGil
<1>1. NULL \notin AllThreads
  BY LifecycleAssumption DEF AllThreads
<1>2. ASSUME NEW t \in AllThreads, Call(t)
      PROVE  NoneKeepsGil'
  BY <1>2 DEF Call, Enter, Leave, NativeCall, BackToPython, engineVars
<1>3. ASSUME NEW t \in AllThreads, EngineTake(t)
      PROVE  NoneKeepsGil'
  BY <1>1, <1>3 DEF EngineTake, TypeOK
<1>4. ASSUME NEW t \in AllThreads, EngineStart(t)
      PROVE  NoneKeepsGil'
  BY <1>4 DEF EngineStart
<1>5. ASSUME NEW t \in AllThreads, EngineLeave(t)
      PROVE  NoneKeepsGil'
  BY <1>5 DEF EngineLeave, TypeOK
<1>6. ASSUME NEW t \in AllThreads, UdfOnCaller(t) \/ EnterUdf(t)
      PROVE  NoneKeepsGil'
  BY <1>6 DEF UdfOnCaller, EnterUdf, engineVars
<1>7. ASSUME NEW t \in AllThreads, LeaveUdfOnCaller(t)
      PROVE  NoneKeepsGil'
  <2>1. gil' = IF kept[Last(Front(stack[t]))] THEN t ELSE NULL
    BY <1>7 DEF LeaveUdfOnCaller
  <2>2. kept' = kept
    BY <1>7 DEF LeaveUdfOnCaller, engineVars
  <2> QED
    BY <1>7, <2>1, <2>2, UdfBelow
<1>8. ASSUME NEW t \in AllThreads, Close(t)
      PROVE  NoneKeepsGil'
  BY <1>8 DEF Close, CloseBegin, CloseAgain, CloseInterrupt, CloseAbort, CloseProceed,
     CloseNative, CloseClear, CloseFinish, CloseReturn, engineVars
<1>9. ASSUME NEW t \in AllThreads, Uncounted(t)
      PROVE  NoneKeepsGil'
  BY <1>9 DEF Uncounted, InterruptRead, InitCheck, InterruptCall, InitCreate, engineVars
<1>10. ASSUME NEW w \in Workers, WorkerUdf(w)
       PROVE  NoneKeepsGil'
  BY <1>10 DEF WorkerUdf, LeaveUdfOnWorker, UdfOnWorker, engineVars
<1>11. CASE UNCHANGED vars
  BY <1>11 DEF vars
<1> QED
  BY <1>2, <1>3, <1>4, <1>5, <1>6, <1>7, <1>8, <1>9, <1>10, <1>11 DEF Next, Engine

LEMMA EngineHasHolderStep ==
    ASSUME TypeOK, Shape, EngineHasHolder, [Next]_vars
    PROVE  EngineHasHolder'
<1> USE DEF EngineHasHolder
<1>1. NULL \notin AllThreads
  BY LifecycleAssumption DEF AllThreads
<1>2. ASSUME NEW t \in AllThreads, pc[t] = "engine" \/ pc[t] = "wait"
      PROVE  Top(t) \in Conns
  BY <1>2 DEF Shape, StackShape, CallLabels
<1>3. ASSUME NEW t \in AllThreads, Call(t)
      PROVE  EngineHasHolder'
  BY <1>3 DEF Call, Enter, Leave, NativeCall, BackToPython, engineVars
<1>4. ASSUME NEW t \in AllThreads, EngineTake(t)
      PROVE  EngineHasHolder'
  BY <1>1, <1>4 DEF EngineTake, TypeOK
<1>5. ASSUME NEW t \in AllThreads, EngineStart(t)
      PROVE  EngineHasHolder'
  BY <1>2, <1>5 DEF EngineStart, TypeOK
<1>6. ASSUME NEW t \in AllThreads, EngineLeave(t)
      PROVE  EngineHasHolder'
  BY <1>2, <1>6 DEF EngineLeave, TypeOK
<1>7. ASSUME NEW t \in AllThreads, UdfOnCaller(t) \/ EnterUdf(t) \/ LeaveUdfOnCaller(t)
      PROVE  EngineHasHolder'
  BY <1>7 DEF UdfOnCaller, EnterUdf, LeaveUdfOnCaller, engineVars
<1>8. ASSUME NEW t \in AllThreads, Close(t)
      PROVE  EngineHasHolder'
  BY <1>8 DEF Close, CloseBegin, CloseAgain, CloseInterrupt, CloseAbort, CloseProceed,
     CloseNative, CloseClear, CloseFinish, CloseReturn, engineVars
<1>9. ASSUME NEW t \in AllThreads, Uncounted(t)
      PROVE  EngineHasHolder'
  BY <1>9 DEF Uncounted, InterruptRead, InitCheck, InterruptCall, InitCreate, engineVars
<1>10. ASSUME NEW w \in Workers, WorkerUdf(w)
       PROVE  EngineHasHolder'
  BY <1>10 DEF WorkerUdf, LeaveUdfOnWorker, UdfOnWorker, engineVars
<1>11. CASE UNCHANGED vars
  BY <1>11 DEF vars
<1> QED
  BY <1>3, <1>4, <1>5, <1>6, <1>7, <1>8, <1>9, <1>10, <1>11 DEF Next, Engine

-----------------------------------------------------------------------------
(* Engine threads.                                                         *)

\* A step that leaves the stacks, the engine and who serves whom, of a thread that is
\* neither parked nor waits for the GIL.
LEMMA WorkersServeQuiet ==
    ASSUME TypeOK, WorkersServe, UNCHANGED <<stack, serves, holder>>,
           NEW t \in AllThreads, pc[t] \notin {"parked", "wantgil"},
           \A u \in AllThreads : u # t => pc'[u] = pc[u]
    PROVE  WorkersServe'
BY DEF WorkersServe, AllThreads

LEMMA WorkersServeStep ==
    ASSUME TypeOK, Shape, EngineHasHolder, WorkersServe, [Next]_vars
    PROVE  WorkersServe'
<1>1. /\ NULL \notin AllThreads /\ NULL \notin Conns /\ UDF \notin Conns
      /\ \A w \in Workers : w \in AllThreads
      /\ \A t \in Threads : t \notin Workers
  BY LifecycleAssumption DEF AllThreads
<1>2. \A w \in Workers : serves[w] \in Conns \cup {NULL}
  BY DEF TypeOK
<1>3. ASSUME NEW t \in AllThreads, NEW label, Goto(t, label)
      PROVE  \A u \in AllThreads : u # t => pc'[u] = pc[u]
  BY <1>3 DEF Goto, TypeOK
\* Only the stack of one thread changes.
<1>4. ASSUME NEW t \in AllThreads, NEW x \in Entries, Push(t, x),
             \A u \in AllThreads : u # t => pc'[u] = pc[u],
             serves' = serves, holder' = holder,
             t \in Workers /\ stack[t] = <<>> => x = UDF
      PROVE  WorkersServe'
  <2> SUFFICES ASSUME NEW w \in Workers
               PROVE  /\ serves'[w] # NULL => holder'[serves'[w]] # NULL
                      /\ stack'[w] # <<>> => stack'[w][1] = UDF
                      /\ stack'[w] = <<>> => pc'[w] \in {"parked", "wantgil"}
    BY DEF WorkersServe
  <2>1. CASE w = t
    <3>1. stack'[t] # <<>>
      BY <1>4, PushEntries
    <3>2. CASE stack[t] = <<>>
      <4>1. Len(stack[t]) = 0 /\ x = UDF
        BY <1>4, <2>1, <3>2, StackLength
      <4> QED
        BY <1>4, <2>1, <3>1, <4>1, PushEntries DEF WorkersServe
    <3>3. CASE stack[t] # <<>>
      <4>1. 1 \in 1..Len(stack[t])
        BY <3>3, StackLength
      <4> QED
        BY <1>4, <2>1, <3>1, <3>3, <4>1, PushEntries DEF WorkersServe
    <3> QED
      BY <3>2, <3>3
  <2>2. CASE w # t
    BY <1>1, <1>4, <2>2, PushEntries DEF WorkersServe
  <2> QED
    BY <2>1, <2>2
<1>5. ASSUME NEW t \in AllThreads, stack[t] # <<>>, Pop(t),
             \A u \in AllThreads : u # t => pc'[u] = pc[u],
             \A w \in Workers : serves'[w] = serves[w] \/ serves'[w] = NULL,
             holder' = holder,
             t \in Workers /\ stack'[t] = <<>> => pc'[t] \in {"parked", "wantgil"}
      PROVE  WorkersServe'
  <2> SUFFICES ASSUME NEW w \in Workers
               PROVE  /\ serves'[w] # NULL => holder'[serves'[w]] # NULL
                      /\ stack'[w] # <<>> => stack'[w][1] = UDF
                      /\ stack'[w] = <<>> => pc'[w] \in {"parked", "wantgil"}
    BY DEF WorkersServe
  <2>1. serves'[w] # NULL => holder'[serves'[w]] # NULL
    BY <1>5 DEF WorkersServe
  <2>2. CASE w = t
    <3>1. stack'[t] # <<>> => 1 \in 1..(Len(stack[t]) - 1)
      <4>1. stack'[t] \in Seq(Entries) /\ Len(stack'[t]) = Len(stack[t]) - 1
            /\ Len(stack[t]) \in Nat \ {0}
        BY <1>5, PopEntries
      <4> QED
        BY <4>1, EmptySeq
    <3> QED
      BY <1>5, <2>1, <2>2, <3>1, PopEntries DEF WorkersServe
  <2>3. CASE w # t
    BY <1>1, <1>5, <2>1, <2>3, PopEntries DEF WorkersServe
  <2> QED
    BY <2>2, <2>3
<1>6. ASSUME NEW t \in AllThreads, NEW c \in Conns, Enter(t, c)
      PROVE  WorkersServe'
  <2>1. /\ Push(t, c) /\ Goto(t, "body") /\ serves' = serves /\ holder' = holder
        /\ pc[t] \in {"user", "body"} /\ c \in Entries
    BY <1>6 DEF Enter, InUserCode, InBody, engineVars, Entries
  <2>2. t \in Workers => stack[t] # <<>>
    BY <2>1 DEF WorkersServe
  <2> QED
    BY <1>3, <1>4, <2>1, <2>2
<1>7. ASSUME NEW t \in AllThreads, Leave(t)
      PROVE  WorkersServe'
  <2>1. /\ Pop(t) /\ serves' = serves /\ holder' = holder /\ pc[t] = "body"
        /\ \E label : Goto(t, label)
    BY <1>7 DEF Leave, InBody, engineVars
  <2>2. stack[t] # <<>> /\ Top(t) \in Conns /\ Top(t) = stack[t][Len(stack[t])]
    BY <2>1 DEF Shape, StackShape, CallLabels, Top, Last
  <2>3. ASSUME t \in Workers, stack'[t] = <<>>
        PROVE  FALSE
    <3>1. Len(stack'[t]) = 0 /\ Len(stack'[t]) = Len(stack[t]) - 1
          /\ Len(stack[t]) \in Nat \ {0}
      BY <2>1, <2>2, <2>3, PopEntries, EmptySeq
    <3>2. Len(stack[t]) = 1
      <4>1. PICK n \in Nat \ {0} : n = Len(stack[t])
        BY <3>1
      <4>2. n - 1 = 0
        BY <3>1, <4>1
      <4> QED
        BY <4>1, <4>2
    <3> QED
      BY <1>1, <2>2, <2>3, <3>2 DEF WorkersServe
  <2> QED
    BY <1>3, <1>5, <2>1, <2>2, <2>3
<1>8. ASSUME NEW t \in AllThreads, NEW kind \in CallKinds, NativeCall(t, kind)
      PROVE  WorkersServe'
  BY <1>3, <1>8, WorkersServeQuiet DEF NativeCall, InBody, engineVars
<1>9. ASSUME NEW t \in AllThreads, BackToPython(t)
      PROVE  WorkersServe'
  BY <1>3, <1>9, WorkersServeQuiet DEF BackToPython, engineVars
<1>10. ASSUME NEW t \in AllThreads, EngineTake(t)
       PROVE  WorkersServe'
  <2>1. /\ pc[t] = "wait" /\ holder' = [holder EXCEPT ![Top(t)] = t]
        /\ stack' = stack /\ serves' = serves /\ Goto(t, "engine")
    BY <1>10 DEF EngineTake
  <2>2. \A d \in Conns : holder[d] # NULL => holder'[d] # NULL
    BY <1>1, <2>1 DEF TypeOK
  <2> QED
    BY <1>1, <1>2, <1>3, <2>1, <2>2 DEF WorkersServe
<1>11. ASSUME NEW t \in AllThreads, EngineStart(t)
       PROVE  WorkersServe'
  BY <1>11, WorkersServeQuiet DEF EngineStart
<1>12. ASSUME NEW t \in AllThreads, EngineLeave(t)
       PROVE  WorkersServe'
  <2>1. /\ pc[t] = "engine" /\ holder' = [holder EXCEPT ![Top(t)] = NULL]
        /\ stack' = stack /\ serves' = serves /\ Goto(t, "back")
        /\ \A w \in Workers : serves[w] # Top(t)
    BY <1>12 DEF EngineLeave
  <2>2. \A d \in Conns : d # Top(t) => holder'[d] = holder[d]
    BY <2>1 DEF TypeOK
  <2> QED
    BY <1>1, <1>2, <1>3, <2>1, <2>2 DEF WorkersServe
<1>13. ASSUME NEW t \in AllThreads, UdfOnCaller(t)
       PROVE  WorkersServe'
  BY <1>3, <1>13, WorkersServeQuiet DEF UdfOnCaller, engineVars
<1>14. ASSUME NEW t \in AllThreads, EnterUdf(t)
       PROVE  WorkersServe'
  BY <1>3, <1>4, <1>14 DEF EnterUdf, engineVars, Entries
<1>15. ASSUME NEW t \in AllThreads, LeaveUdfOnCaller(t)
       PROVE  WorkersServe'
  <2>1. /\ Pop(t) /\ serves' = serves /\ holder' = holder /\ Goto(t, "engine")
    BY <1>15 DEF LeaveUdfOnCaller, engineVars
  <2>2. stack[t] # <<>> /\ stack'[t] # <<>>
    BY <1>15, <2>1, UdfBelow, PopEntries
  <2> QED
    BY <1>3, <1>5, <2>1, <2>2
<1>16. ASSUME NEW t \in AllThreads, Close(t)
       PROVE  WorkersServe'
  <2>1. UNCHANGED <<stack, serves, holder>> /\ pc[t] \notin {"parked", "wantgil"}
        /\ (pc' = pc \/ \E label : Goto(t, label))
    BY <1>16 DEF Close, CloseBegin, CloseAgain, CloseInterrupt, CloseAbort, CloseProceed,
     CloseNative, CloseClear, CloseFinish, CloseReturn, engineVars, InUserCode
  <2> QED
    BY <1>3, <2>1, WorkersServeQuiet
<1>17. ASSUME NEW t \in AllThreads, Uncounted(t)
       PROVE  WorkersServe'
  <2>1. UNCHANGED <<stack, serves, holder>> /\ pc[t] \notin {"parked", "wantgil"}
        /\ \E label : Goto(t, label)
    BY <1>17 DEF Uncounted, InterruptRead, InitCheck, InterruptCall, InitCreate, engineVars,
       InUserCode
  <2> QED
    BY <1>3, <2>1, WorkersServeQuiet
<1>18. ASSUME NEW w \in Workers, LeaveUdfOnWorker(w)
       PROVE  WorkersServe'
  <2>1. /\ Pop(w) /\ stack[w] = <<UDF>> /\ serves' = [serves EXCEPT ![w] = NULL]
        /\ holder' = holder /\ Goto(w, "parked")
    BY <1>18 DEF LeaveUdfOnWorker, engineVars
  <2>2. pc'[w] = "parked" /\ stack[w] # <<>>
    BY <1>1, <2>1 DEF Goto, TypeOK
  <2>3. \A v \in Workers : serves'[v] = serves[v] \/ serves'[v] = NULL
    BY <2>1 DEF TypeOK
  <2> QED
    BY <1>1, <1>3, <1>5, <2>1, <2>2, <2>3
<1>19. ASSUME NEW w \in Workers, NEW c \in Conns, UdfOnWorker(w, c)
       PROVE  WorkersServe'
  <2>1. /\ phase[c] = "execute" /\ serves' = [serves EXCEPT ![w] = c]
        /\ stack' = stack /\ holder' = holder /\ Goto(w, "wantgil")
    BY <1>19 DEF UdfOnWorker, StartsBatch, engineVars
  <2>2. /\ holder[c] # NULL
        /\ \A v \in Workers : serves'[v] = IF v = w THEN c ELSE serves[v]
    BY <2>1 DEF EngineHasHolder, TypeOK
  <2>3. pc'[w] = "wantgil"
    BY <1>1, <2>1 DEF Goto, TypeOK
  <2> QED
    BY <1>1, <1>3, <2>1, <2>2, <2>3 DEF WorkersServe
<1>20. CASE UNCHANGED vars
  BY <1>20 DEF vars, WorkersServe
<1> QED
  BY <1>6, <1>7, <1>8, <1>9, <1>10, <1>11, <1>12, <1>13, <1>14, <1>15, <1>16, <1>17, <1>18,
     <1>19, <1>20 DEF Next, Call, Engine, WorkerUdf

-----------------------------------------------------------------------------
(* The order of waits.                                                     *)

\* Who waits for a connection through a UDF is in a call, and so is the other.
WaitersAreBusy ==
    /\ \A t \in AllThreads, c \in Conns : OnStack(t, c) => c \in Busy
    /\ \A c, d \in Conns : WaitsForConnection(c, d) => c \in Busy /\ d \in Busy

LEMMA WaitersBusy == IInv /\ WorkersServe => WaitersAreBusy
<1> SUFFICES ASSUME IInv, WorkersServe
             PROVE  WaitersAreBusy
  OBVIOUS
<1>1. ASSUME NEW t \in AllThreads, NEW c \in Conns, OnStack(t, c)
      PROVE  c \in Busy
  BY <1>1, OnStackCounted DEF IInv, InFlightCountsFrames, Busy
<1>2. ASSUME NEW c \in Conns, NEW d \in Conns, WaitsForConnection(c, d)
      PROVE  c \in Busy /\ d \in Busy
  <2>1. CASE \E t \in AllThreads : t \in Workers /\ serves[t] = c /\ OnStack(t, d)
    <3>1. PICK t \in AllThreads : t \in Workers /\ serves[t] = c /\ OnStack(t, d)
      BY <2>1
    <3>2. holder[c] # NULL /\ holder[c] \in AllThreads
      BY <3>1, LifecycleAssumption DEF WorkersServe, IInv, TypeOK
    <3>3. OnStack(holder[c], c)
      BY <3>2 DEF IInv, HolderInCall, InCall, OnStack
    <3> QED
      BY <1>1, <3>1, <3>2, <3>3
  <2>2. CASE \E t \in AllThreads : \E i, j, k \in 1..Len(stack[t]) :
               i < j /\ j < k /\ stack[t][i] = c /\ stack[t][j] = UDF /\ stack[t][k] = d
    BY <1>1, <2>2 DEF OnStack
  <2> QED
    BY <1>2, <2>1, <2>2 DEF WaitsForConnection
<1> QED
  BY <1>1, <1>2 DEF WaitersAreBusy

LEMMA WaitersBusyNext == IInv' /\ WorkersServe' => WaitersAreBusy'
BY WaitersBusy, PTL

\* What leaves the stack makes nobody wait.
LEMMA PopWaits ==
    ASSUME TypeOK, NEW t \in AllThreads, stack[t] # <<>>, Pop(t),
           \A w \in Workers : serves'[w] = serves[w] \/ serves'[w] = NULL,
           NEW c \in Conns, NEW d \in Conns, WaitsForConnection(c, d)'
    PROVE  WaitsForConnection(c, d)
<1>1. c # NULL
  BY LifecycleAssumption
<1>2. ASSUME NEW u \in AllThreads
      PROVE  \A i \in 1..Len(stack'[u]) : i \in 1..Len(stack[u]) /\ stack'[u][i] = stack[u][i]
  <2>1. CASE u = t
    <3>1. PICK n \in Nat \ {0} : n = Len(stack[t])
      BY PopEntries
    <3>2. Len(stack'[t]) = n - 1 /\ \A i \in 1..(n - 1) : stack'[t][i] = stack[t][i]
      BY <3>1, PopEntries
    <3>3. \A i \in 1..(n - 1) : i \in 1..n
      BY <3>1
    <3> QED
      BY <2>1, <3>1, <3>2, <3>3
  <2>2. CASE u # t
    BY <2>2, PopEntries
  <2> QED
    BY <2>1, <2>2
<1>3. CASE \E u \in AllThreads : u \in Workers /\ serves'[u] = c /\ OnStack(u, d)'
  <2>1. PICK u \in AllThreads : u \in Workers /\ serves'[u] = c /\ OnStack(u, d)'
    BY <1>3
  <2>2. serves[u] = c /\ OnStack(u, d)
    BY <1>1, <1>2, <2>1 DEF OnStack
  <2> QED
    BY <2>1, <2>2 DEF WaitsForConnection
<1>4. CASE \E u \in AllThreads : \E i, j, k \in 1..Len(stack'[u]) :
             i < j /\ j < k /\ stack'[u][i] = c /\ stack'[u][j] = UDF /\ stack'[u][k] = d
  BY <1>2, <1>4 DEF WaitsForConnection
<1> QED
  BY <1>3, <1>4 DEF WaitsForConnection

\* What a thread pushes on its stack has the calls below it wait for it.
LEMMA PushWaits ==
    ASSUME TypeOK, NEW t \in AllThreads, NEW x \in Entries, Push(t, x), serves' = serves,
           NEW c \in Conns, NEW d \in Conns, WaitsForConnection(c, d)'
    PROVE  \/ WaitsForConnection(c, d)
           \/ /\ x = d
              /\ \/ t \in Workers /\ serves[t] = c
                 \/ \E i, j \in 1..Len(stack[t]) :
                      i < j /\ stack[t][i] = c /\ stack[t][j] = UDF
<1>1. PICK n \in Nat : n = Len(stack[t])
  BY StackLength
<1>2. /\ Len(stack'[t]) = n + 1 /\ stack'[t][n + 1] = x
      /\ \A i \in 1..n : stack'[t][i] = stack[t][i]
      /\ \A u \in AllThreads \ {t} : stack'[u] = stack[u]
  BY <1>1, PushEntries
<1>3. CASE \E u \in AllThreads : u \in Workers /\ serves'[u] = c /\ OnStack(u, d)'
  <2>1. PICK u \in AllThreads : u \in Workers /\ serves[u] = c /\ OnStack(u, d)'
    BY <1>3
  <2>2. PICK i \in 1..Len(stack'[u]) : stack'[u][i] = d
    BY <2>1 DEF OnStack
  <2>3. CASE u # t
    BY <1>2, <2>1, <2>2, <2>3 DEF WaitsForConnection, OnStack
  <2>4. CASE u = t /\ i = n + 1
    BY <1>2, <2>1, <2>2, <2>4
  <2>5. CASE u = t /\ i # n + 1
    <3>1. i \in 1..n /\ stack[t][i] = d
      BY <1>2, <2>2, <2>5
    <3> QED
      BY <1>1, <2>1, <2>5, <3>1 DEF WaitsForConnection, OnStack
  <2> QED
    BY <2>3, <2>4, <2>5
<1>4. CASE \E u \in AllThreads : \E i, j, k \in 1..Len(stack'[u]) :
             i < j /\ j < k /\ stack'[u][i] = c /\ stack'[u][j] = UDF /\ stack'[u][k] = d
  <2>0. PICK u \in AllThreads : \E i, j, k \in 1..Len(stack'[u]) :
          i < j /\ j < k /\ stack'[u][i] = c /\ stack'[u][j] = UDF /\ stack'[u][k] = d
    BY <1>4
  <2>1. PICK i, j, k \in 1..Len(stack'[u]) :
          i < j /\ j < k /\ stack'[u][i] = c /\ stack'[u][j] = UDF /\ stack'[u][k] = d
    BY <2>0
  <2>2. CASE u # t
    BY <1>2, <2>1, <2>2 DEF WaitsForConnection
  <2>3. CASE u = t
    <3>1. i \in 1..n /\ j \in 1..n /\ stack[t][i] = c /\ stack[t][j] = UDF
      BY <1>2, <2>1, <2>3
    <3>2. CASE k = n + 1
      BY <1>1, <1>2, <2>1, <2>3, <3>1, <3>2
    <3>3. CASE k # n + 1
      <4>1. k \in 1..n /\ stack[t][k] = d
        BY <1>2, <2>1, <2>3, <3>3
      <4> QED
        BY <1>1, <2>1, <3>1, <4>1 DEF WaitsForConnection
    <3> QED
      BY <3>2, <3>3
  <2> QED
    BY <2>2, <2>3
<1> QED
  BY <1>3, <1>4 DEF WaitsForConnection

\* An idle connection that becomes busy comes after all that are.
LEMMA EnterOrders ==
    ASSUME Ordered, NEW t \in AllThreads, NEW d \in Conns, Enter(t, d)
    PROVE  OlderIsBusy' /\ UdfWaitsAreOrdered'
<1>1. /\ Push(t, d) /\ d \in Entries /\ serves' = serves
      /\ MayEnter(t, d)
      /\ older' = IF d \in Busy THEN older ELSE older \cup (Busy \X {d})
      /\ callsInFlight' = [callsInFlight EXCEPT ![d] = @ + 1]
      /\ pc[t] \in {"user", "body"}
  BY DEF Enter, Entries, InUserCode, InBody
<1>2. /\ TypeOK /\ WaitersAreBusy /\ WorkersServe /\ older \subseteq Busy \X Busy
      /\ \A c, e \in Conns : WaitsForConnection(c, e) => <<c, e>> \in older
      /\ \A c \in Conns : <<c, c>> \notin older
      /\ \A b, c, e \in Conns :
           <<b, c>> \in older /\ <<c, e>> \in older => <<b, e>> \in older
  BY WaitersBusy DEF Ordered, IInv, OlderIsBusy, UdfWaitsAreOrdered
<1>3. Busy' = Busy \cup {d}
  BY <1>1, <1>2 DEF Busy, TypeOK
<1>4. Busy \subseteq Conns /\ d \in Conns
  BY DEF Busy
<1>5. OlderIsBusy'
  BY <1>1, <1>2, <1>3 DEF OlderIsBusy
<1>6. ASSUME NEW c \in Conns, <<c, c>> \in older'
      PROVE  FALSE
  BY <1>1, <1>2, <1>6
<1>7. ASSUME NEW b \in Conns, NEW c \in Conns, NEW e \in Conns,
             <<b, c>> \in older', <<c, e>> \in older'
      PROVE  <<b, e>> \in older'
  <2>1. CASE d \in Busy
    BY <1>1, <1>2, <1>7, <2>1
  <2>2. CASE d \notin Busy
    <3>1. <<c, e>> \in older \/ (c \in Busy /\ e = d)
      BY <1>1, <1>7, <2>2
    <3>2. c \in Busy /\ c # d
      BY <1>2, <2>2, <3>1
    <3>3. <<b, c>> \in older /\ b \in Busy
      BY <1>1, <1>2, <1>7, <2>2, <3>2
    <3> QED
      BY <1>1, <1>2, <2>2, <3>1, <3>3
  <2> QED
    BY <2>1, <2>2
<1>8. ASSUME NEW b \in Conns, NEW c \in Conns, WaitsForConnection(b, c)'
      PROVE  <<b, c>> \in older'
  <2>1. CASE WaitsForConnection(b, c)
    BY <1>1, <1>2, <2>1
  <2>2. CASE ~WaitsForConnection(b, c)
    <3>1. /\ c = d
          /\ \/ t \in Workers /\ serves[t] = b
             \/ \E i, j \in 1..Len(stack[t]) :
                  i < j /\ stack[t][i] = b /\ stack[t][j] = UDF
      BY <1>1, <1>2, <1>8, <2>2, PushWaits
    <3>2. CASE t \in Workers /\ serves[t] = b
      <4>1. ~OnStack(t, d)
        BY <2>2, <3>1, <3>2 DEF WaitsForConnection
      <4>2. stack[t] # <<>>
        BY <1>1, <1>2, <3>2 DEF WorkersServe
      <4>3. 1 \in 1..Len(stack[t]) /\ stack[t][1] = UDF
        BY <1>2, <3>2, <4>2, StackLength DEF WorkersServe
      <4>4. CalledFromUdf(t, d)
        BY <1>2, <4>1, <4>3, StackLength DEF CalledFromUdf, OnStack
      <4>5. d \notin Busy
        BY <1>1, <4>4 DEF MayEnter, Busy
      <4>6. holder[b] # NULL /\ holder[b] \in AllThreads
        BY <1>2, <3>2, LifecycleAssumption DEF WorkersServe, TypeOK
      <4>7. OnStack(holder[b], b)
        BY <4>6 DEF Ordered, IInv, HolderInCall, InCall, OnStack
      <4> QED
        BY <1>1, <1>2, <3>1, <4>5, <4>6, <4>7 DEF WaitersAreBusy
    <3>3. CASE \E i, j \in 1..Len(stack[t]) : i < j /\ stack[t][i] = b /\ stack[t][j] = UDF
      <4>1. PICK i \in 1..Len(stack[t]), j \in 1..Len(stack[t]) :
              i < j /\ stack[t][i] = b /\ stack[t][j] = UDF
        BY <3>3
      <4>2. Len(stack[t]) \in Nat
        BY <1>2, StackLength
      <4>3. ASSUME NEW k \in j..Len(stack[t]), stack[t][k] = d
            PROVE  FALSE
        <5>1. k # j
          BY <4>1, <4>3, LifecycleAssumption
        <5>2. k \in 1..Len(stack[t]) /\ j < k
          BY <4>1, <4>2, <4>3, <5>1
        <5> QED
          BY <2>2, <3>1, <4>1, <4>3, <5>2 DEF WaitsForConnection
      <4>4. CalledFromUdf(t, d)
        BY <4>1, <4>3 DEF CalledFromUdf
      <4>5. d \notin Busy
        BY <1>1, <4>4 DEF MayEnter, Busy
      <4>6. b \in Busy
        BY <1>2, <4>1 DEF WaitersAreBusy, OnStack
      <4> QED
        BY <1>1, <3>1, <4>5, <4>6
    <3> QED
      BY <3>1, <3>2, <3>3
  <2> QED
    BY <2>1, <2>2
<1> QED
  BY <1>5, <1>6, <1>7, <1>8 DEF UdfWaitsAreOrdered

\* A connection that becomes idle leaves the order.
LEMMA LeaveOrders ==
    ASSUME Ordered, IInv', WorkersServe', NEW t \in AllThreads, Leave(t)
    PROVE  OlderIsBusy' /\ UdfWaitsAreOrdered'
<1> DEFINE x == Top(t)
<1>1. /\ Pop(t) /\ serves' = serves /\ InBody(t)
      /\ callsInFlight' = [callsInFlight EXCEPT ![x] = @ - 1]
      /\ older' = IF callsInFlight[x] = 1 THEN {p \in older : x \notin {p[1], p[2]}} ELSE older
  BY DEF Leave
<1>2. /\ TypeOK /\ older \subseteq Busy \X Busy
      /\ \A c, e \in Conns : WaitsForConnection(c, e) => <<c, e>> \in older
      /\ \A c \in Conns : <<c, c>> \notin older
      /\ \A b, c, e \in Conns :
           <<b, c>> \in older /\ <<c, e>> \in older => <<b, e>> \in older
  BY DEF Ordered, IInv, OlderIsBusy, UdfWaitsAreOrdered
<1>3. stack[t] # <<>> /\ x \in Conns /\ callsInFlight[x] - 1 \in Nat
  BY <1>1, CountIsNat DEF Ordered, IInv
<1> HIDE DEF x
<1>4. \A c \in Conns : callsInFlight'[c] = IF c = x THEN callsInFlight[c] - 1
                                                    ELSE callsInFlight[c]
  BY <1>1, <1>2 DEF TypeOK
<1>5. /\ callsInFlight[x] = 1 => \A c \in Busy : c # x => c \in Busy'
      /\ callsInFlight[x] = 1 => x \notin Busy'
      /\ callsInFlight[x] # 1 => \A c \in Busy : c \in Busy'
  <2>1. PICK n \in Nat : n = callsInFlight[x] - 1
    BY <1>3
  <2>2. callsInFlight \in [Conns -> Nat]
    BY <1>2 DEF TypeOK
  <2>3. callsInFlight[x] = n + 1 /\ callsInFlight'[x] = n
    BY <1>3, <1>4, <2>1, <2>2
  <2>4. \A c \in Conns : c # x => (c \in Busy <=> c \in Busy')
    BY <1>4 DEF Busy
  <2>5. x \in Busy' <=> n > 0
    BY <1>3, <2>3 DEF Busy
  <2> QED
    BY <2>1, <2>3, <2>4, <2>5 DEF Busy
<1>6. \A b, c \in Conns : <<b, c>> \in older' <=>
        <<b, c>> \in older /\ (callsInFlight[x] = 1 => b # x /\ c # x)
  BY <1>1
<1>7. older' \subseteq older
  BY <1>1
<1>8. OlderIsBusy'
  <2> SUFFICES ASSUME NEW p \in older'
               PROVE  p \in (Busy \X Busy)'
    BY DEF OlderIsBusy
  <2>1. p \in Busy \X Busy
    BY <1>2, <1>7
  <2>2. PICK b \in Busy, c \in Busy : p = <<b, c>>
    BY <2>1
  <2>3. b \in Conns /\ c \in Conns
    BY DEF Busy
  <2> QED
    BY <1>5, <1>6, <2>2, <2>3
<1>9. ASSUME NEW b \in Conns, NEW c \in Conns, WaitsForConnection(b, c)'
      PROVE  <<b, c>> \in older'
  <2>1. <<b, c>> \in older
    BY <1>1, <1>2, <1>3, <1>9, PopWaits
  <2>2. b \in Busy' /\ c \in Busy'
    BY <1>9, WaitersBusyNext DEF WaitersAreBusy
  <2> QED
    BY <1>5, <1>6, <2>1, <2>2
<1> QED
  BY <1>2, <1>6, <1>8, <1>9 DEF UdfWaitsAreOrdered

\* A step that starts no wait, and no call, keeps the order.
LEMMA SameOrder ==
    ASSUME Ordered, UNCHANGED <<older, callsInFlight>>,
           \A c, d \in Conns : WaitsForConnection(c, d)' => WaitsForConnection(c, d)
    PROVE  OlderIsBusy' /\ UdfWaitsAreOrdered'
<1>1. /\ older \subseteq Busy \X Busy
      /\ \A c, e \in Conns : WaitsForConnection(c, e) => <<c, e>> \in older
      /\ \A c \in Conns : <<c, c>> \notin older
      /\ \A b, c, e \in Conns :
           <<b, c>> \in older /\ <<c, e>> \in older => <<b, e>> \in older
  BY DEF Ordered, OlderIsBusy, UdfWaitsAreOrdered
<1>2. Busy' = Busy
  BY DEF Busy
<1> QED
  BY <1>1, <1>2 DEF OlderIsBusy, UdfWaitsAreOrdered

LEMMA SameStacks ==
    ASSUME Ordered, UNCHANGED <<older, callsInFlight, stack, serves>>
    PROVE  OlderIsBusy' /\ UdfWaitsAreOrdered'
<1>1. \A c, d \in Conns : WaitsForConnection(c, d)' => WaitsForConnection(c, d)
  BY DEF WaitsForConnection, OnStack
<1> QED
  BY <1>1, SameOrder

LEMMA OrderStep ==
    ASSUME Ordered, IInv', WorkersServe', [Next]_vars
    PROVE  OlderIsBusy' /\ UdfWaitsAreOrdered'
<1>1. TypeOK /\ Shape
  BY DEF Ordered, IInv
<1>2. UDF \notin Conns /\ NULL \notin Conns /\ \A w \in Workers : w \in AllThreads
  BY LifecycleAssumption DEF AllThreads
<1>3. ASSUME NEW t \in AllThreads, Call(t)
      PROVE  OlderIsBusy' /\ UdfWaitsAreOrdered'
  <2>1. ASSUME NEW c \in Conns, Enter(t, c)
        PROVE  OlderIsBusy' /\ UdfWaitsAreOrdered'
    BY <2>1, EnterOrders
  <2>2. CASE Leave(t)
    BY <2>2, LeaveOrders
  <2>3. ASSUME NEW kind \in CallKinds, NativeCall(t, kind)
        PROVE  OlderIsBusy' /\ UdfWaitsAreOrdered'
    BY <2>3, SameStacks DEF NativeCall, callVars
  <2>4. CASE BackToPython(t)
    BY <2>4, SameStacks DEF BackToPython, callVars
  <2> QED
    BY <1>3, <2>1, <2>2, <2>3, <2>4 DEF Call
<1>4. ASSUME NEW t \in AllThreads, Engine(t)
      PROVE  OlderIsBusy' /\ UdfWaitsAreOrdered'
  <2>1. CASE EngineTake(t) \/ EngineStart(t) \/ EngineLeave(t) \/ UdfOnCaller(t)
    BY <2>1, SameStacks DEF EngineTake, EngineStart, EngineLeave, UdfOnCaller, callVars
  <2>2. CASE EnterUdf(t)
    <3>1. Push(t, UDF) /\ UDF \in Entries /\ UNCHANGED <<serves, older, callsInFlight>>
      BY <2>2 DEF EnterUdf, callVars, Entries
    <3>2. \A c, d \in Conns : WaitsForConnection(c, d)' => WaitsForConnection(c, d)
      BY <1>1, <1>2, <3>1, PushWaits
    <3> QED
      BY <3>1, <3>2, SameOrder
  <2>3. CASE LeaveUdfOnCaller(t)
    <3>1. Pop(t) /\ UNCHANGED <<serves, older, callsInFlight>> /\ stack[t] # <<>>
      BY <1>1, <2>3, UdfBelow DEF LeaveUdfOnCaller, callVars
    <3>2. \A c, d \in Conns : WaitsForConnection(c, d)' => WaitsForConnection(c, d)
      BY <1>1, <3>1, PopWaits
    <3> QED
      BY <3>1, <3>2, SameOrder
  <2> QED
    BY <1>4, <2>1, <2>2, <2>3 DEF Engine
<1>5. ASSUME NEW t \in AllThreads, Close(t) \/ Uncounted(t)
      PROVE  OlderIsBusy' /\ UdfWaitsAreOrdered'
  <2>1. UNCHANGED <<older, callsInFlight, stack, serves>>
    BY <1>5 DEF Close, CloseBegin, CloseAgain, CloseInterrupt, CloseAbort, CloseProceed,
       CloseNative, CloseClear, CloseFinish, CloseReturn, Uncounted, InterruptRead,
       InitCheck, InterruptCall, InitCreate, callVars
  <2> QED
    BY <2>1, SameStacks
<1>6. ASSUME NEW w \in Workers, LeaveUdfOnWorker(w)
      PROVE  OlderIsBusy' /\ UdfWaitsAreOrdered'
  <2>1. /\ Pop(w) /\ stack[w] # <<>> /\ UNCHANGED <<older, callsInFlight>>
        /\ serves' = [serves EXCEPT ![w] = NULL]
    BY <1>6 DEF LeaveUdfOnWorker, callVars
  <2>2. \A v \in Workers : serves'[v] = serves[v] \/ serves'[v] = NULL
    BY <1>1, <2>1 DEF TypeOK
  <2>3. \A c, d \in Conns : WaitsForConnection(c, d)' => WaitsForConnection(c, d)
    BY <1>1, <1>2, <2>1, <2>2, PopWaits
  <2> QED
    BY <2>1, <2>3, SameOrder
<1>7. ASSUME NEW w \in Workers, NEW e \in Conns, UdfOnWorker(w, e)
      PROVE  OlderIsBusy' /\ UdfWaitsAreOrdered'
  <2>1. /\ stack' = stack /\ UNCHANGED <<older, callsInFlight>>
        /\ serves' = [serves EXCEPT ![w] = e] /\ pc[w] = "parked"
    BY <1>7 DEF UdfOnWorker, callVars
  <2>2. stack[w] = <<>> /\ \A v \in Workers \ {w} : serves'[v] = serves[v]
    BY <1>1, <1>2, <2>1 DEF TypeOK, Shape, StackShape
  <2>3. \A d \in Conns : ~OnStack(w, d)
    BY <1>1, <1>2, <2>2, StackLength DEF OnStack
  <2>4. \A c, d \in Conns : WaitsForConnection(c, d)' => WaitsForConnection(c, d)
    BY <2>1, <2>2, <2>3 DEF WaitsForConnection, OnStack
  <2> QED
    BY <2>1, <2>4, SameOrder
<1>8. CASE UNCHANGED vars
  BY <1>8, SameStacks DEF vars
<1> QED
  BY <1>3, <1>4, <1>5, <1>6, <1>7, <1>8 DEF Next, WorkerUdf

LEMMA InitOrdered == Init => Ordered
<1> SUFFICES ASSUME Init PROVE Ordered
  OBVIOUS
<1>1. \A t \in AllThreads : stack[t] = <<>> /\ Len(stack[t]) = 0
  BY DEF Init
<1>2. WorkersServe
  BY LifecycleAssumption DEF Init, WorkersServe, AllThreads
<1>3. \A c, d \in Conns : ~WaitsForConnection(c, d)
  BY <1>1 DEF WaitsForConnection, OnStack
<1>4. OlderIsBusy /\ UdfWaitsAreOrdered
  BY <1>3 DEF Init, OlderIsBusy, UdfWaitsAreOrdered
<1>5. NoneKeepsGil /\ EngineHasHolder
  BY DEF Init, NoneKeepsGil, EngineHasHolder
<1> QED
  BY <1>2, <1>4, <1>5, InitIInv DEF Ordered

LEMMA OrderedStep ==
    ASSUME "kept" \notin CallKinds
    PROVE  Ordered /\ [Next]_vars => Ordered'
<1> SUFFICES ASSUME Ordered, [Next]_vars
             PROVE  Ordered'
  OBVIOUS
<1>1. IInv'
  BY StepIInv DEF Ordered
<1>2. NoneKeepsGil' /\ EngineHasHolder' /\ WorkersServe'
  BY NoneKeepsGilStep, EngineHasHolderStep, WorkersServeStep DEF Ordered, IInv
<1>3. OlderIsBusy' /\ UdfWaitsAreOrdered'
  BY <1>1, <1>2, OrderStep
<1> QED
  BY <1>1, <1>2, <1>3 DEF Ordered

\* Every reachable state is ordered when no native call keeps the GIL.
THEOREM OrderInvariance ==
    ASSUME "kept" \notin CallKinds
    PROVE  Spec => []Ordered
BY InitOrdered, OrderedStep, PTL DEF Spec

\* A query waits, through its UDFs, only for connections that became busy after its own.
THEOREM WaitsAreOrdered ==
    ASSUME "kept" \notin CallKinds
    PROVE  Spec => []UdfWaitsAreOrdered
<1>1. Ordered => UdfWaitsAreOrdered
  BY DEF Ordered
<1> QED
  BY <1>1, OrderInvariance, PTL

-----------------------------------------------------------------------------
(* No circle of waiting threads.                                           *)

\* The threads whose innermost call became busy after c.
Above(c) == {u \in AllThreads : stack[u] # <<>> /\ <<c, Top(u)>> \in older}

\* How far a waiting thread is from one with nothing to wait for.
Distance(t) == 2 * Cardinality(Above(Top(t))) + (IF pc[t] = "wait" THEN 1 ELSE 0)

\* A set of threads, each with its natural number, has a least one.
LEMMA LeastThread ==
    ASSUME NEW D, NEW f \in [D -> Nat], D # {}
    PROVE  \E t \in D : \A u \in D : f[t] <= f[u]
<1> DEFINE less == {p \in Nat \X Nat : p[1] < p[2]}
           S == {f[t] : t \in D}
<1>1. IsWellFoundedOn(less, Nat)
  BY NatLessThanWellFounded DEF OpToRel
<1>2. S \in SUBSET Nat /\ S # {}
  OBVIOUS
<1>3. PICK n \in S : \A m \in S : ~(<<m, n>> \in less)
  <2> HIDE DEF less, S
  <2> QED
    BY <1>1, <1>2, WFMin
<1>4. PICK t \in D : f[t] = n
  BY <1>3
<1>5. ASSUME NEW u \in D
      PROVE  f[t] <= f[u]
  <2>1. ~(f[u] < f[t])
    BY <1>3, <1>4
  <2> QED
    BY <2>1
<1> QED
  BY <1>5

LEMMA AboveFinite ==
    ASSUME NEW c
    PROVE  IsFiniteSet(Above(c)) /\ Cardinality(Above(c)) \in Nat
<1>1. IsFiniteSet(AllThreads) /\ Above(c) \subseteq AllThreads
  BY LifecycleAssumption DEF AllThreads, Above
<1> QED
  BY <1>1, FS_Subset, FS_CardinalityType

\* Fewer threads are in a call above the connection a query waits for.
LEMMA FewerAbove ==
    ASSUME Ordered, NEW u \in AllThreads, stack[u] # <<>>, NEW c \in Conns,
           Top(u) \in Conns, <<c, Top(u)>> \in older
    PROVE  Cardinality(Above(Top(u))) < Cardinality(Above(c))
<1>1. /\ older \subseteq Conns \X Conns
      /\ \A e \in Conns : <<e, e>> \notin older
      /\ \A b, d, e \in Conns :
           <<b, d>> \in older /\ <<d, e>> \in older => <<b, e>> \in older
  BY DEF Ordered, IInv, TypeOK, UdfWaitsAreOrdered
<1>2. Above(Top(u)) \subseteq Above(c)
  <2> SUFFICES ASSUME NEW v \in Above(Top(u))
               PROVE  v \in Above(c)
    OBVIOUS
  <2>1. v \in AllThreads /\ stack[v] # <<>> /\ <<Top(u), Top(v)>> \in older
    BY DEF Above
  <2>2. Top(v) \in Conns
    BY <1>1, <2>1
  <2>3. <<c, Top(v)>> \in older
    BY <1>1, <2>1, <2>2
  <2> QED
    BY <2>1, <2>3 DEF Above
<1>3. u \in Above(c)
  BY DEF Above
<1>4. u \notin Above(Top(u))
  BY <1>1 DEF Above
<1>5. /\ Above(Top(u)) # Above(c) /\ IsFiniteSet(Above(c))
      /\ Cardinality(Above(c)) \in Nat /\ Cardinality(Above(Top(u))) \in Nat
      /\ Cardinality(Above(Top(u))) <= Cardinality(Above(c))
      /\ (Cardinality(Above(Top(u))) = Cardinality(Above(c)) => Above(Top(u)) = Above(c))
  BY <1>2, <1>3, <1>4, AboveFinite, FS_Subset, FS_CardinalityType
<1> QED
  BY <1>5

\* Nobody waits for a thread that waits in close().
LEMMA NobodyWaitsForCloser ==
    ASSUME Ordered, NEW t \in AllThreads, NEW u \in AllThreads, NEW v \in AllThreads,
           Waits(t, u), Waits(u, v)
    PROVE  pc[u] # "close"
<1> SUFFICES ASSUME pc[u] = "close"
             PROVE  FALSE
  OBVIOUS
<1>1. /\ TypeOK /\ Shape /\ WorkersServe /\ gil = NULL /\ NULL \notin AllThreads
  BY LifecycleAssumption DEF Ordered, IInv, NoneKeepsGil, AllThreads
<1>2. target[u] \in Conns /\ OnStack(v, target[u])
  BY <1>1 DEF Waits, Ordered, IInv, Targeted, OwnLabels, CloserLabels
<1>3. callsInFlight[target[u]] > 0
  BY <1>1, <1>2, OnStackCounted DEF Ordered, IInv, InFlightCountsFrames
<1>4. ~OnStack(u, UDF)
  <2>1. callsInFlight[target[u]] # 0
    BY <1>3
  <2> QED
    BY <2>1 DEF Ordered, IInv, UdfNeverWaitsInClose
<1>5. stack[u] = <<>> /\ Len(stack[u]) = 0
  <2>1. stack[u] # <<>> => Top(u) = UDF
    BY <1>1 DEF Shape, StackShape, OwnLabels, CloserLabels
  <2>2. stack[u] # <<>> => Len(stack[u]) \in 1..Len(stack[u])
    BY <1>1, StackLength
  <2> QED
    BY <1>1, <1>4, <2>1, <2>2, StackLength DEF OnStack, Top, Last
<1>6. \A c : ~OnStack(u, c)
  BY <1>5 DEF OnStack
<1>7. u \notin Workers
  BY <1>1, <1>5 DEF WorkersServe
<1>8. CASE pc[t] = "wait" /\ holder[Top(t)] = u
  <2>1. Top(t) \in Conns
    BY <1>1, <1>8 DEF Shape, StackShape, CallLabels
  <2>2. InCall(u, Top(t))
    BY <1>1, <1>8, <2>1 DEF Ordered, IInv, HolderInCall
  <2> QED
    BY <1>6, <2>2 DEF InCall, OnStack
<1> QED
  BY <1>1, <1>6, <1>7, <1>8 DEF Waits

\* Each wait, but a closer's, is for a thread that is nearer the end.
LEMMA WaitsGoDown ==
    ASSUME Ordered, NEW t \in AllThreads, NEW u \in AllThreads, NEW v \in AllThreads,
           pc[t] # "close", Waits(t, u), Waits(u, v)
    PROVE  Distance(u) < Distance(t)
<1>1. /\ TypeOK /\ Shape /\ WorkersServe /\ gil = NULL /\ NULL \notin AllThreads
  BY LifecycleAssumption DEF Ordered, IInv, NoneKeepsGil, AllThreads
<1>2. pc[u] \in {"wait", "engine"}
  BY <1>1, NobodyWaitsForCloser DEF Waits
<1>3. stack[u] # <<>> /\ Top(u) \in Conns /\ OnStack(u, Top(u))
  <2>1. stack[u] # <<>> /\ Top(u) \in Conns
    BY <1>1, <1>2 DEF Shape, StackShape, CallLabels
  <2>2. Len(stack[u]) \in 1..Len(stack[u])
    BY <1>1, <2>1, StackLength
  <2> QED
    BY <2>1, <2>2 DEF OnStack, Top, Last
<1>4. pc[t] \in {"wait", "engine"}
  BY <1>1 DEF Waits
<1>5. Top(t) \in Conns
  BY <1>1, <1>4 DEF Shape, StackShape, CallLabels
<1>6. PICK m \in Nat, n \in Nat : m = Cardinality(Above(Top(t))) /\ n = Cardinality(Above(Top(u)))
  BY AboveFinite
<1>7. ASSUME WaitsForConnection(Top(t), Top(u))
      PROVE  Distance(u) < Distance(t)
  <2>1. <<Top(t), Top(u)>> \in older
    BY <1>3, <1>5, <1>7 DEF Ordered, UdfWaitsAreOrdered
  <2>2. n < m
    BY <1>3, <1>5, <1>6, <2>1, FewerAbove
  <2> QED
    BY <1>6, <2>2 DEF Distance
<1>8. CASE pc[t] = "wait" /\ holder[Top(t)] = u
  <2>1. InCall(u, Top(t))
    BY <1>1, <1>5, <1>8 DEF Ordered, IInv, HolderInCall
  <2>2. PICK i \in 1..Len(stack[u]) :
          /\ stack[u][i] = Top(t)
          /\ \/ i = Len(stack[u]) /\ pc[u] \in {"engine", "wantgil"}
             \/ i < Len(stack[u]) /\ stack[u][i+1] = UDF
    BY <2>1 DEF InCall
  <2>3. CASE i = Len(stack[u]) /\ pc[u] \in {"engine", "wantgil"}
    <3>1. Top(u) = Top(t) /\ pc[u] = "engine"
      BY <1>2, <2>2, <2>3 DEF Top, Last
    <3> QED
      BY <1>6, <1>8, <3>1 DEF Distance
  <2>4. CASE i < Len(stack[u]) /\ stack[u][i+1] = UDF
    <3>1. PICK k \in Nat : k = Len(stack[u])
      BY <1>1, StackLength
    <3>2. stack[u][k] = Top(u) /\ UDF \notin Conns
      BY <3>1, LifecycleAssumption DEF Top, Last
    <3>3. i + 1 # k
      BY <1>3, <2>4, <3>2
    <3>4. i + 1 \in 1..Len(stack[u]) /\ k \in 1..Len(stack[u]) /\ i < i + 1 /\ i + 1 < k
      BY <2>4, <3>1, <3>3
    <3>5. WaitsForConnection(Top(t), Top(u))
      BY <2>2, <2>4, <3>2, <3>4 DEF WaitsForConnection
    <3> QED
      BY <1>7, <3>5
  <2> QED
    BY <2>2, <2>3, <2>4
<1>9. CASE pc[t] = "engine" /\ u \in Workers /\ serves[u] = Top(t)
  <2>1. WaitsForConnection(Top(t), Top(u))
    BY <1>3, <1>9 DEF WaitsForConnection
  <2> QED
    BY <1>7, <2>1
<1> QED
  BY <1>4, <1>8, <1>9 DEF Waits

LEMMA OrderedHasNoCircle == Ordered => NoCircularWait
<1> SUFFICES ASSUME Ordered, NEW D \in SUBSET AllThreads, D # {},
                    \A t \in D : \E u \in D : Waits(t, u)
             PROVE  FALSE
  BY DEF NoCircularWait
<1> DEFINE E == {t \in D : pc[t] # "close"}
           f == [t \in E |-> Distance(t)]
<1>1. ASSUME NEW t \in D
      PROVE  \E u \in E : Waits(t, u)
  <2>1. PICK u \in D : Waits(t, u)
    OBVIOUS
  <2>2. PICK v \in D : Waits(u, v)
    OBVIOUS
  <2> QED
    BY <2>1, <2>2, NobodyWaitsForCloser
<1>2. E # {}
  BY <1>1
<1>3. f \in [E -> Nat]
  <2> SUFFICES ASSUME NEW t \in E PROVE Distance(t) \in Nat
    OBVIOUS
  <2>1. Cardinality(Above(Top(t))) \in Nat
    BY AboveFinite
  <2> QED
    BY <2>1 DEF Distance
<1>4. PICK t \in E : \A u \in E : f[t] <= f[u]
  <2> HIDE DEF E, f
  <2> QED
    BY <1>2, <1>3, LeastThread
<1>5. PICK u \in E : Waits(t, u)
  BY <1>1
<1>6. PICK v \in E : Waits(u, v)
  BY <1>1
<1>7. Distance(u) < Distance(t)
  BY <1>5, <1>6, WaitsGoDown
<1>8. Distance(t) <= Distance(u) /\ Distance(t) \in Nat /\ Distance(u) \in Nat
  BY <1>3, <1>4
<1> QED
  BY <1>7, <1>8

\* With the refusals of _tracks_call and close(), no calls, UDFs and closers ever wait
\* for each other in a circle, as long as the native calls in use release the GIL
\* (connection.py 343-351, 542-546).
THEOREM NeverDeadlocks ==
    ASSUME "kept" \notin CallKinds
    PROVE  Spec => []NoCircularWait
BY OrderInvariance, OrderedHasNoCircle, PTL

=============================================================================
