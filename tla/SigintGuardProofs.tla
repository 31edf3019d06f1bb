------------------------- MODULE SigintGuardProofs -------------------------
(***************************************************************************)
(* Theorems of SigintGuard for any number of contexts, SIGINT deliveries   *)
(* and nested queries: the handler touches no released context, an         *)
(* installed handler always has a live target, every handler chains to     *)
(* Python's, and nothing is left behind.                                   *)
(*                                                                         *)
(* The argument: a pointer the handler holds is the context of a guard     *)
(* whose destructor has still to clear target and then to find the count   *)
(* at zero, which the handler keeps above it.                              *)
(***************************************************************************)
EXTENDS SigintGuard, FiniteSetTheorems, SequenceTheorems, TLAPS

CountedHandlers == {s \in Signals : Counted(s)}

\* The handlers between their two updates of handlersInFlight are counted.
CountIsExact == handlersInFlight = Cardinality(CountedHandlers)

\* A guard that may still clear target for context c and wait for its handlers.
Guarded(c) ==
    \E i \in 1..Len(guards) :
        /\ guards[i].context = c
        /\ guards[i].installed \/ (i = Len(guards) /\ pc = "install")

\* Where the innermost guard's code stands, and which guards it may have.
GuardOrder ==
    /\ pc = "idle" <=> guards = <<>>
    /\ pc \in {"restore", "disarm", "drain"} => Last(guards).installed

\* Each live guard has a context of its own, which is not released.
GuardsOwnContexts ==
    /\ freed \subseteq used
    /\ \A i \in 1..Len(guards) :
        /\ guards[i].context \in used \ freed
        /\ \A j \in 1..Len(guards) : guards[i].context = guards[j].context => i = j

\* What the construction and the destruction of the innermost guard have done.
Disposition ==
    /\ pc \in {"save", "reset", "aim"} => action = "python" /\ target = NULL
    /\ pc = "install" => action = "python" /\ target = Last(guards).context
    /\ pc = "disarm" => action = "python"
    /\ pc = "drain" => action = "python" /\ target = NULL
    /\ pc = "release" /\ Last(guards).installed => action = "python" /\ target = NULL
    /\ action = "guard" => target # NULL

TargetGuarded == target # NULL => Guarded(target)

LoadedGuarded ==
    /\ \A s \in Signals :
        hpc[s] = "interrupt" /\ loaded[s] # NULL => Guarded(loaded[s])
    /\ pc = "release" /\ Last(guards).installed =>
        \A s \in Signals : hpc[s] = "interrupt" => loaded[s] = NULL

\* The disposition saved and chained to is Python's.
SavedIsPython ==
    /\ previous # "guard"
    /\ pc \in {"reset", "aim", "install"} => previous = "python"
    /\ \A i \in 1..Len(guards) : guards[i].installed => previous = "python"
    /\ action = "guard" => previous = "python"
    /\ \A s \in Signals :
        hpc[s] \in {"count in", "load", "interrupt", "copy"} => previous = "python"

IInv ==
    /\ TypeOK
    /\ CountIsExact
    /\ GuardOrder
    /\ GuardsOwnContexts
    /\ Disposition
    /\ TargetGuarded
    /\ LoadedGuarded
    /\ SavedIsPython
    /\ ChainsToPython

-----------------------------------------------------------------------------
(* What the actions do to the guards.                                      *)

\* The innermost guard of a running query is an entry like the others.
LEMMA LastGuard ==
    ASSUME TypeOK, guards # <<>>
    PROVE  /\ Len(guards) \in Nat \ {0}
           /\ Len(guards) \in 1..Len(guards)
           /\ Last(guards) = guards[Len(guards)]
           /\ \A i \in 1..Len(guards) : guards[i] \in Guard
<1>1. guards \in Seq(Guard)
  BY DEF TypeOK
<1> QED
  BY <1>1, EmptySeq DEF Last

\* A new guard is installed nowhere yet and takes an unused context.
LEMMA BeginGuards ==
    ASSUME TypeOK, Begin
    PROVE  /\ guards' \in Seq(Guard)
           /\ Len(guards) \in Nat
           /\ Len(guards') = Len(guards) + 1
           /\ guards' # <<>>
           /\ \A i \in 1..Len(guards) : guards'[i] = guards[i]
           /\ ~guards'[Len(guards')].installed
           /\ guards'[Len(guards')].context \in Contexts \ used
           /\ used' = used \cup {guards'[Len(guards')].context}
<1>1. PICK c \in Contexts \ used :
          /\ guards' = Append(guards, [context |-> c, installed |-> FALSE])
          /\ used' = used \cup {c}
  BY DEF Begin
<1> DEFINE g == [context |-> c, installed |-> FALSE]
<1>2. guards \in Seq(Guard) /\ g \in Guard
  BY DEF TypeOK, Guard
<1>3. Append(guards, g) # <<>>
  BY <1>2, AppendProperties
<1>4. /\ guards' \in Seq(Guard)
      /\ Len(guards) \in Nat
      /\ Len(guards') = Len(guards) + 1
      /\ guards'[Len(guards) + 1] = g
      /\ \A i \in 1..Len(guards) : guards'[i] = guards[i]
  BY <1>1, <1>2, AppendProperties
<1> QED
  BY <1>1, <1>3, <1>4

\* sigaction marks the innermost guard and no other.
LEMMA InstallGuards ==
    ASSUME TypeOK, Install, guards # <<>>
    PROVE  /\ guards' \in Seq(Guard)
           /\ guards' # <<>>
           /\ Len(guards') = Len(guards)
           /\ \A i \in 1..(Len(guards) - 1) : guards'[i] = guards[i]
           /\ guards'[Len(guards)].context = guards[Len(guards)].context
           /\ guards'[Len(guards)].installed
<1>1. guards \in Seq(Guard) /\ Len(guards) \in 1..Len(guards) /\ Len(guards) \in Nat \ {0}
  BY LastGuard DEF TypeOK
<1>2. guards[Len(guards)] \in Guard
  BY <1>1, LastGuard
<1> DEFINE g == [guards[Len(guards)] EXCEPT !.installed = TRUE]
<1>3. g \in Guard /\ g.context = guards[Len(guards)].context /\ g.installed
  BY <1>2 DEF Guard
<1>4. guards' = [guards EXCEPT ![Len(guards)] = g]
  BY DEF Install
<1>5. /\ guards' \in Seq(Guard)
      /\ Len(guards') = Len(guards)
      /\ \A j \in 1..Len(guards) : guards'[j] = IF j = Len(guards) THEN g ELSE guards[j]
  BY <1>1, <1>3, <1>4, ExceptSeq
<1>6. guards' # <<>>
  BY <1>1, <1>5, EmptySeq
<1> HIDE DEF g
<1>7. guards'[Len(guards)] = g
  BY <1>1, <1>5
<1>8. \A i \in 1..(Len(guards) - 1) : i \in 1..Len(guards) /\ i # Len(guards)
  BY <1>1
<1>9. \A i \in 1..(Len(guards) - 1) : guards'[i] = guards[i]
  BY <1>5, <1>8
<1> QED
  BY <1>3, <1>5, <1>6, <1>7, <1>9

\* All entries of a stack but the topmost.
LEMMA FrontEntries ==
    ASSUME NEW S, NEW s \in Seq(S), s # <<>>
    PROVE  /\ Len(s) \in Nat \ {0}
           /\ Front(s) \in Seq(S)
           /\ Len(Front(s)) = Len(s) - 1
           /\ \A i \in 1..(Len(s) - 1) : Front(s)[i] = s[i]
<1>1. Len(s) \in Nat \ {0}
  BY EmptySeq
<1>2. Front(s) \in Seq(S)
  BY <1>1 DEF Front
<1>3. Len(Front(s)) = Len(s) - 1
  <2>1. PICK n \in Nat : n = Len(s) - 1
    BY <1>1
  <2>2. CASE n = 0
    BY <2>1, <2>2, SubSeqEmpty, EmptySeq DEF Front
  <2>3. CASE n > 0
    BY <2>1, <2>3 DEF Front
  <2> QED
    BY <2>2, <2>3
<1>4. \A i \in 1..(Len(s) - 1) : Front(s)[i] = s[i]
  BY <1>1 DEF Front
<1> QED
  BY <1>1, <1>2, <1>3, <1>4

\* The end of a query takes its guard away.
LEMMA ReleaseGuards ==
    ASSUME TypeOK, Release
    PROVE  /\ guards # <<>>
           /\ guards' \in Seq(Guard)
           /\ Len(guards) \in Nat \ {0}
           /\ Len(guards') = Len(guards) - 1
           /\ \A i \in 1..(Len(guards) - 1) : guards'[i] = guards[i]
           /\ freed' = freed \cup {guards[Len(guards)].context}
           /\ guards' = <<>> <=> Len(guards) = 1
<1>1. guards # <<>> /\ guards \in Seq(Guard)
  BY DEF TypeOK, Release, MainAt
<1>2. guards' = Front(guards)
  BY DEF Release
<1>3. /\ Len(guards) \in Nat \ {0}
      /\ Front(guards) \in Seq(Guard)
      /\ Len(Front(guards)) = Len(guards) - 1
      /\ \A i \in 1..(Len(guards) - 1) : Front(guards)[i] = guards[i]
  BY <1>1, FrontEntries
<1>4. guards' = <<>> <=> Len(guards') = 0
  BY <1>2, <1>3, EmptySeq
<1>5. freed' = freed \cup {guards[Len(guards)].context}
  BY DEF Release, Last
<1> QED
  BY <1>1, <1>2, <1>3, <1>4, <1>5

\* The counted handlers are finitely many.
LEMMA CountedFinite ==
    ASSUME TRUE
    PROVE  IsFiniteSet(CountedHandlers) /\ Cardinality(CountedHandlers) \in Nat
<1>1. CountedHandlers \subseteq Signals /\ IsFiniteSet(Signals)
  BY SigintAssumption DEF CountedHandlers
<1> QED
  BY <1>1, FS_Subset, FS_CardinalityType

-----------------------------------------------------------------------------
(* Each action preserves each part of the invariant.                       *)

\* Only fetch_add and fetch_sub change the count, with the handler's place.
LEMMA CountStep ==
    ASSUME TypeOK, CountIsExact, [Next]_vars
    PROVE  CountIsExact'
<1>1. ASSUME Begin
      PROVE  CountIsExact'
  BY <1>1 DEF CountIsExact, CountedHandlers, Counted, TypeOK, Begin, statics, locals,
       MainAt
<1>2. ASSUME Skip
      PROVE  CountIsExact'
  BY <1>2 DEF CountIsExact, CountedHandlers, Counted, TypeOK, Skip, statics, locals,
       MainAt
<1>3. ASSUME Check
      PROVE  CountIsExact'
  BY <1>3 DEF CountIsExact, CountedHandlers, Counted, TypeOK, Check, statics, locals,
       MainAt
<1>4. ASSUME SavePrevious
      PROVE  CountIsExact'
  BY <1>4 DEF CountIsExact, CountedHandlers, Counted, TypeOK, SavePrevious, locals,
       MainAt
<1>5. ASSUME ResetReceived
      PROVE  CountIsExact'
  BY <1>5 DEF CountIsExact, CountedHandlers, Counted, TypeOK, ResetReceived, locals,
       MainAt
<1>6. ASSUME Aim
      PROVE  CountIsExact'
  BY <1>6 DEF CountIsExact, CountedHandlers, Counted, TypeOK, Aim, locals, MainAt
<1>7. ASSUME Install
      PROVE  CountIsExact'
  BY <1>7 DEF CountIsExact, CountedHandlers, Counted, TypeOK, Install, locals, MainAt
<1>8. ASSUME RaiseIfInterrupted
      PROVE  CountIsExact'
  BY <1>8 DEF CountIsExact, CountedHandlers, Counted, TypeOK, RaiseIfInterrupted,
       statics, locals, MainAt
<1>9. ASSUME Restore
      PROVE  CountIsExact'
  BY <1>9 DEF CountIsExact, CountedHandlers, Counted, TypeOK, Restore, locals, MainAt
<1>10. ASSUME Disarm
      PROVE  CountIsExact'
  BY <1>10 DEF CountIsExact, CountedHandlers, Counted, TypeOK, Disarm, locals, MainAt
<1>11. ASSUME Drain
      PROVE  CountIsExact'
  BY <1>11 DEF CountIsExact, CountedHandlers, Counted, TypeOK, Drain, statics, locals,
       MainAt
<1>12. ASSUME Release
      PROVE  CountIsExact'
  BY <1>12 DEF CountIsExact, CountedHandlers, Counted, TypeOK, Release, statics, locals,
       MainAt
<1>13. ASSUME NEW s \in Signals, DeliverToPython(s)
      PROVE  CountIsExact'
  BY <1>13 DEF CountIsExact, CountedHandlers, Counted, TypeOK, DeliverToPython, statics
<1>14. ASSUME NEW s \in Signals, NEW main \in BOOLEAN, DeliverToGuard(s, main)
      PROVE  CountIsExact'
  BY <1>14 DEF CountIsExact, CountedHandlers, Counted, TypeOK, DeliverToGuard, statics
<1>15. ASSUME NEW s \in Signals, CountIn(s)
      PROVE  CountIsExact'
  <2>1. s \notin CountedHandlers /\ CountedHandlers' = CountedHandlers \cup {s}
    BY <1>15 DEF CountedHandlers, Counted, CountIn, HandlerStep, TypeOK
  <2>2. Cardinality(CountedHandlers') = Cardinality(CountedHandlers) + 1
    BY <2>1, CountedFinite, FS_AddElement
  <2> QED
    BY <1>15, <2>2 DEF CountIsExact, CountIn
<1>16. ASSUME NEW s \in Signals, LoadTarget(s)
      PROVE  CountIsExact'
  BY <1>16 DEF CountIsExact, CountedHandlers, Counted, TypeOK, LoadTarget, statics,
       HandlerStep
<1>17. ASSUME NEW s \in Signals, InterruptContext(s)
      PROVE  CountIsExact'
  BY <1>17 DEF CountIsExact, CountedHandlers, Counted, TypeOK, InterruptContext,
       HandlerStep
<1>18. ASSUME NEW s \in Signals, CopyPrevious(s)
      PROVE  CountIsExact'
  BY <1>18 DEF CountIsExact, CountedHandlers, Counted, TypeOK, CopyPrevious, statics,
       HandlerStep
<1>19. ASSUME NEW s \in Signals, CountOut(s)
      PROVE  CountIsExact'
  <2>1. s \in CountedHandlers /\ CountedHandlers' = CountedHandlers \ {s}
    BY <1>19 DEF CountedHandlers, Counted, CountOut, HandlerStep, TypeOK
  <2>2. Cardinality(CountedHandlers') = Cardinality(CountedHandlers) - 1
    BY <2>1, CountedFinite, FS_RemoveElement
  <2> QED
    BY <1>19, <2>2 DEF CountIsExact, CountOut
<1>20. ASSUME NEW s \in Signals, Chain(s)
      PROVE  CountIsExact'
  BY <1>20 DEF CountIsExact, CountedHandlers, Counted, TypeOK, Chain, statics,
       HandlerStep
<1>21. CASE UNCHANGED vars
  BY <1>21 DEF vars, statics, locals, CountIsExact, CountedHandlers, Counted
<1> QED
  BY <1>1, <1>2, <1>3, <1>4, <1>5, <1>6, <1>7, <1>8, <1>9, <1>10, <1>11, <1>12, <1>13,
       <1>14, <1>15, <1>16, <1>17, <1>18, <1>19, <1>20, <1>21 DEF Next, Construct,
       Destroy, Deliver, Handle

\* Every step leaves values of the right type.
LEMMA TypingStep ==
    ASSUME TypeOK, CountIsExact, GuardOrder, SavedIsPython, [Next]_vars
    PROVE  TypeOK'
<1>1. ASSUME Begin
      PROVE  TypeOK'
  <2>1. guards' \in Seq(Guard) /\ guards' # <<>> /\ used' \in SUBSET Contexts
    BY <1>1, BeginGuards DEF TypeOK
  <2> QED
    BY <1>1, <2>1 DEF TypeOK, Begin, statics, locals
<1>2. ASSUME Skip
      PROVE  TypeOK'
  BY <1>2 DEF TypeOK, Skip, statics, locals, MainAt
<1>3. ASSUME Check
      PROVE  TypeOK'
  BY <1>3 DEF TypeOK, Check, statics, locals, MainAt
<1>4. ASSUME SavePrevious
      PROVE  TypeOK'
  BY <1>4 DEF TypeOK, SavePrevious, locals, MainAt
<1>5. ASSUME ResetReceived
      PROVE  TypeOK'
  BY <1>5 DEF TypeOK, ResetReceived, locals, MainAt
<1>6. ASSUME Aim
      PROVE  TypeOK'
  <2>1. Last(guards).context \in Contexts
    BY <1>6, LastGuard DEF TypeOK, Aim, MainAt, Guard
  <2> QED
    BY <1>6, <2>1 DEF TypeOK, Aim, MainAt, locals
<1>7. ASSUME Install
      PROVE  TypeOK'
  <2>1. guards' \in Seq(Guard) /\ guards' # <<>>
    BY <1>7, InstallGuards DEF TypeOK, Install, MainAt
  <2> QED
    BY <1>7, <2>1 DEF TypeOK, Install, locals
<1>8. ASSUME RaiseIfInterrupted
      PROVE  TypeOK'
  BY <1>8 DEF TypeOK, RaiseIfInterrupted, statics, locals, MainAt
<1>9. ASSUME Restore
      PROVE  TypeOK'
  <2>1. previous = "python"
    BY <1>9, LastGuard DEF TypeOK, GuardOrder, SavedIsPython, Restore, MainAt
  <2> QED
    BY <1>9, <2>1 DEF TypeOK, Restore, MainAt, locals
<1>10. ASSUME Disarm
      PROVE  TypeOK'
  BY <1>10 DEF TypeOK, Disarm, locals, MainAt
<1>11. ASSUME Drain
      PROVE  TypeOK'
  BY <1>11 DEF TypeOK, Drain, statics, locals, MainAt
<1>12. ASSUME Release
      PROVE  TypeOK'
  <2>1. guards' \in Seq(Guard) /\ (pc' # "idle" => guards' # <<>>)
    BY <1>12, ReleaseGuards DEF Release
  <2>2. guards[Len(guards)] \in Guard /\ freed' = freed \cup {guards[Len(guards)].context}
    BY <1>12, ReleaseGuards, LastGuard
  <2>3. freed' \in SUBSET Contexts
    BY <2>2 DEF TypeOK, Guard
  <2> QED
    BY <1>12, <2>1, <2>3 DEF TypeOK, Release, statics, locals
<1>13. ASSUME NEW s \in Signals, DeliverToPython(s)
      PROVE  TypeOK'
  BY <1>13 DEF TypeOK, DeliverToPython, statics
<1>14. ASSUME NEW s \in Signals, NEW main \in BOOLEAN, DeliverToGuard(s, main)
      PROVE  TypeOK'
  BY <1>14 DEF TypeOK, DeliverToGuard, statics
<1>15. ASSUME NEW s \in Signals, CountIn(s)
      PROVE  TypeOK'
  <2>1. handlersInFlight \in Nat /\ handlersInFlight' = handlersInFlight + 1
    BY <1>15 DEF TypeOK, CountIn
  <2>2. handlersInFlight' \in Nat
    BY <2>1
  <2> QED
    BY <1>15, <2>2 DEF TypeOK, CountIn, HandlerStep
<1>16. ASSUME NEW s \in Signals, LoadTarget(s)
      PROVE  TypeOK'
  BY <1>16 DEF TypeOK, LoadTarget, statics, HandlerStep
<1>17. ASSUME NEW s \in Signals, InterruptContext(s)
      PROVE  TypeOK'
  BY <1>17 DEF TypeOK, InterruptContext, HandlerStep
<1>18. ASSUME NEW s \in Signals, CopyPrevious(s)
      PROVE  TypeOK'
  BY <1>18 DEF TypeOK, CopyPrevious, statics, HandlerStep
<1>19. ASSUME NEW s \in Signals, CountOut(s)
      PROVE  TypeOK'
  <2>1. s \in CountedHandlers
    BY <1>19 DEF CountedHandlers, Counted, CountOut, HandlerStep
  <2>2. Cardinality(CountedHandlers) # 0
    BY <2>1, CountedFinite, FS_EmptySet
  <2>3. handlersInFlight \in Nat /\ handlersInFlight # 0
    BY <2>2 DEF CountIsExact, TypeOK
  <2>4. handlersInFlight' = handlersInFlight - 1
    BY <1>19 DEF CountOut
  <2>5. handlersInFlight' \in Nat
    BY <2>3, <2>4
  <2> QED
    BY <1>19, <2>5 DEF TypeOK, CountOut, HandlerStep
<1>20. ASSUME NEW s \in Signals, Chain(s)
      PROVE  TypeOK'
  BY <1>20 DEF TypeOK, Chain, statics, HandlerStep
<1>21. CASE UNCHANGED vars
  BY <1>21 DEF vars, statics, locals, TypeOK
<1> QED
  BY <1>1, <1>2, <1>3, <1>4, <1>5, <1>6, <1>7, <1>8, <1>9, <1>10, <1>11, <1>12, <1>13,
       <1>14, <1>15, <1>16, <1>17, <1>18, <1>19, <1>20, <1>21 DEF Next, Construct,
       Destroy, Deliver, Handle

\* Only a guard that was installed is restored, disarmed and drained.
LEMMA GuardOrderStep ==
    ASSUME TypeOK, GuardOrder, [Next]_vars
    PROVE  GuardOrder'
<1>1. ASSUME Begin
      PROVE  GuardOrder'
  BY <1>1, BeginGuards DEF GuardOrder, Begin
<1>2. ASSUME Skip
      PROVE  GuardOrder'
  BY <1>2 DEF GuardOrder, Skip, statics, locals, MainAt
<1>3. ASSUME Check
      PROVE  GuardOrder'
  BY <1>3 DEF GuardOrder, Check, statics, locals, MainAt
<1>4. ASSUME SavePrevious
      PROVE  GuardOrder'
  BY <1>4 DEF GuardOrder, SavePrevious, locals, MainAt
<1>5. ASSUME ResetReceived
      PROVE  GuardOrder'
  BY <1>5 DEF GuardOrder, ResetReceived, locals, MainAt
<1>6. ASSUME Aim
      PROVE  GuardOrder'
  BY <1>6 DEF GuardOrder, Aim, locals, MainAt
<1>7. ASSUME Install
      PROVE  GuardOrder'
  <2>1. guards # <<>> /\ guards' # <<>>
    BY <1>7, InstallGuards DEF TypeOK, Install, MainAt
  <2> QED
    BY <1>7, <2>1 DEF GuardOrder, Install
<1>8. ASSUME RaiseIfInterrupted
      PROVE  GuardOrder'
  BY <1>8 DEF GuardOrder, RaiseIfInterrupted, statics, locals, MainAt
<1>9. ASSUME Restore
      PROVE  GuardOrder'
  BY <1>9 DEF GuardOrder, Restore, locals, MainAt
<1>10. ASSUME Disarm
      PROVE  GuardOrder'
  BY <1>10 DEF GuardOrder, Disarm, locals, MainAt
<1>11. ASSUME Drain
      PROVE  GuardOrder'
  BY <1>11 DEF GuardOrder, Drain, statics, locals, MainAt
<1>12. ASSUME Release
      PROVE  GuardOrder'
  <2>1. guards' = <<>> <=> pc' = "idle"
    BY <1>12, ReleaseGuards DEF Release
  <2> QED
    BY <1>12, <2>1 DEF GuardOrder, Release
<1>13. ASSUME NEW s \in Signals, DeliverToPython(s)
      PROVE  GuardOrder'
  BY <1>13 DEF GuardOrder, DeliverToPython, statics
<1>14. ASSUME NEW s \in Signals, NEW main \in BOOLEAN, DeliverToGuard(s, main)
      PROVE  GuardOrder'
  BY <1>14 DEF GuardOrder, DeliverToGuard, statics
<1>15. ASSUME NEW s \in Signals, CountIn(s)
      PROVE  GuardOrder'
  BY <1>15 DEF GuardOrder, CountIn, HandlerStep
<1>16. ASSUME NEW s \in Signals, LoadTarget(s)
      PROVE  GuardOrder'
  BY <1>16 DEF GuardOrder, LoadTarget, statics, HandlerStep
<1>17. ASSUME NEW s \in Signals, InterruptContext(s)
      PROVE  GuardOrder'
  BY <1>17 DEF GuardOrder, InterruptContext, HandlerStep
<1>18. ASSUME NEW s \in Signals, CopyPrevious(s)
      PROVE  GuardOrder'
  BY <1>18 DEF GuardOrder, CopyPrevious, statics, HandlerStep
<1>19. ASSUME NEW s \in Signals, CountOut(s)
      PROVE  GuardOrder'
  BY <1>19 DEF GuardOrder, CountOut, HandlerStep
<1>20. ASSUME NEW s \in Signals, Chain(s)
      PROVE  GuardOrder'
  BY <1>20 DEF GuardOrder, Chain, statics, HandlerStep
<1>21. CASE UNCHANGED vars
  BY <1>21 DEF vars, statics, locals, GuardOrder
<1> QED
  BY <1>1, <1>2, <1>3, <1>4, <1>5, <1>6, <1>7, <1>8, <1>9, <1>10, <1>11, <1>12, <1>13,
       <1>14, <1>15, <1>16, <1>17, <1>18, <1>19, <1>20, <1>21 DEF Next, Construct,
       Destroy, Deliver, Handle

\* No two live queries share a context, and none loses its own.
LEMMA OwnContextsStep ==
    ASSUME TypeOK, GuardsOwnContexts, [Next]_vars
    PROVE  GuardsOwnContexts'
<1>1. ASSUME Begin
      PROVE  GuardsOwnContexts'
  <2>1. /\ Len(guards) \in Nat
        /\ Len(guards') = Len(guards) + 1
        /\ \A i \in 1..Len(guards) : guards'[i] = guards[i]
        /\ guards'[Len(guards')].context \notin used
        /\ used' = used \cup {guards'[Len(guards')].context}
        /\ freed' = freed
    BY <1>1, BeginGuards DEF Begin
  <2>2. ASSUME NEW i \in 1..Len(guards')
        PROVE  /\ guards'[i].context \in used' \ freed'
               /\ i # Len(guards') => guards'[i].context \in used
    <3>1. CASE i = Len(guards')
      BY <2>1, <3>1 DEF GuardsOwnContexts
    <3>2. CASE i \in 1..Len(guards)
      BY <2>1, <3>2 DEF GuardsOwnContexts
    <3> QED
      BY <2>1, <3>1, <3>2
  <2>3. ASSUME NEW i \in 1..Len(guards'), NEW j \in 1..Len(guards'),
               guards'[i].context = guards'[j].context
        PROVE  i = j
    <3>1. CASE i = Len(guards') \/ j = Len(guards')
      BY <2>1, <2>2, <2>3, <3>1
    <3>2. CASE i \in 1..Len(guards) /\ j \in 1..Len(guards)
      BY <2>1, <2>3, <3>2 DEF GuardsOwnContexts
    <3> QED
      BY <2>1, <3>1, <3>2
  <2> QED
    BY <2>1, <2>2, <2>3 DEF GuardsOwnContexts
<1>2. ASSUME Skip
      PROVE  GuardsOwnContexts'
  BY <1>2 DEF GuardsOwnContexts, Skip, statics, locals, MainAt
<1>3. ASSUME Check
      PROVE  GuardsOwnContexts'
  BY <1>3 DEF GuardsOwnContexts, Check, statics, locals, MainAt
<1>4. ASSUME SavePrevious
      PROVE  GuardsOwnContexts'
  BY <1>4 DEF GuardsOwnContexts, SavePrevious, locals, MainAt
<1>5. ASSUME ResetReceived
      PROVE  GuardsOwnContexts'
  BY <1>5 DEF GuardsOwnContexts, ResetReceived, locals, MainAt
<1>6. ASSUME Aim
      PROVE  GuardsOwnContexts'
  BY <1>6 DEF GuardsOwnContexts, Aim, locals, MainAt
<1>7. ASSUME Install
      PROVE  GuardsOwnContexts'
  <2>1. /\ Len(guards') = Len(guards)
        /\ \A i \in 1..Len(guards) : guards'[i].context = guards[i].context
    <3>1. guards # <<>>
      BY <1>7 DEF TypeOK, Install, MainAt
    <3> QED
      BY <1>7, <3>1, InstallGuards, LastGuard
  <2> QED
    BY <1>7, <2>1 DEF GuardsOwnContexts, Install
<1>8. ASSUME RaiseIfInterrupted
      PROVE  GuardsOwnContexts'
  BY <1>8 DEF GuardsOwnContexts, RaiseIfInterrupted, statics, locals, MainAt
<1>9. ASSUME Restore
      PROVE  GuardsOwnContexts'
  BY <1>9 DEF GuardsOwnContexts, Restore, locals, MainAt
<1>10. ASSUME Disarm
      PROVE  GuardsOwnContexts'
  BY <1>10 DEF GuardsOwnContexts, Disarm, locals, MainAt
<1>11. ASSUME Drain
      PROVE  GuardsOwnContexts'
  BY <1>11 DEF GuardsOwnContexts, Drain, statics, locals, MainAt
<1>12. ASSUME Release
      PROVE  GuardsOwnContexts'
  <2>1. /\ Len(guards) \in Nat \ {0}
        /\ Len(guards') = Len(guards) - 1
        /\ \A i \in 1..(Len(guards) - 1) : guards'[i] = guards[i]
        /\ freed' = freed \cup {guards[Len(guards)].context}
    BY <1>12, ReleaseGuards
  <2>2. used' = used
    BY <1>12 DEF Release
  <2>3. Len(guards) \in 1..Len(guards) /\ guards[Len(guards)].context \in used
    BY <2>1 DEF GuardsOwnContexts
  <2>4. ASSUME NEW i \in 1..Len(guards')
        PROVE  /\ guards'[i].context \in used' \ freed'
               /\ \A j \in 1..Len(guards') :
                      guards'[i].context = guards'[j].context => i = j
    <3>1. i \in 1..Len(guards) /\ i # Len(guards) /\ guards'[i] = guards[i]
      BY <2>1, <2>4
    <3>2. \A j \in 1..Len(guards') : j \in 1..Len(guards) /\ guards'[j] = guards[j]
      BY <2>1
    <3>3. guards[i].context # guards[Len(guards)].context
      BY <2>3, <3>1 DEF GuardsOwnContexts
    <3> QED
      BY <2>1, <2>2, <3>1, <3>2, <3>3 DEF GuardsOwnContexts
  <2> QED
    BY <2>1, <2>2, <2>3, <2>4 DEF GuardsOwnContexts
<1>13. ASSUME NEW s \in Signals, DeliverToPython(s)
      PROVE  GuardsOwnContexts'
  BY <1>13 DEF GuardsOwnContexts, DeliverToPython, statics
<1>14. ASSUME NEW s \in Signals, NEW main \in BOOLEAN, DeliverToGuard(s, main)
      PROVE  GuardsOwnContexts'
  BY <1>14 DEF GuardsOwnContexts, DeliverToGuard, statics
<1>15. ASSUME NEW s \in Signals, CountIn(s)
      PROVE  GuardsOwnContexts'
  BY <1>15 DEF GuardsOwnContexts, CountIn, HandlerStep
<1>16. ASSUME NEW s \in Signals, LoadTarget(s)
      PROVE  GuardsOwnContexts'
  BY <1>16 DEF GuardsOwnContexts, LoadTarget, statics, HandlerStep
<1>17. ASSUME NEW s \in Signals, InterruptContext(s)
      PROVE  GuardsOwnContexts'
  BY <1>17 DEF GuardsOwnContexts, InterruptContext, HandlerStep
<1>18. ASSUME NEW s \in Signals, CopyPrevious(s)
      PROVE  GuardsOwnContexts'
  BY <1>18 DEF GuardsOwnContexts, CopyPrevious, statics, HandlerStep
<1>19. ASSUME NEW s \in Signals, CountOut(s)
      PROVE  GuardsOwnContexts'
  BY <1>19 DEF GuardsOwnContexts, CountOut, HandlerStep
<1>20. ASSUME NEW s \in Signals, Chain(s)
      PROVE  GuardsOwnContexts'
  BY <1>20 DEF GuardsOwnContexts, Chain, statics, HandlerStep
<1>21. CASE UNCHANGED vars
  BY <1>21 DEF vars, statics, locals, GuardsOwnContexts
<1> QED
  BY <1>1, <1>2, <1>3, <1>4, <1>5, <1>6, <1>7, <1>8, <1>9, <1>10, <1>11, <1>12, <1>13,
       <1>14, <1>15, <1>16, <1>17, <1>18, <1>19, <1>20, <1>21 DEF Next, Construct,
       Destroy, Deliver, Handle

\* The handler is the process's only while target is set.
LEMMA DispositionStep ==
    ASSUME TypeOK, GuardOrder, SavedIsPython, Disposition, [Next]_vars
    PROVE  Disposition'
<1>1. ASSUME Begin
      PROVE  Disposition'
  BY <1>1 DEF Disposition, TypeOK, Begin, statics, locals, MainAt
<1>2. ASSUME Skip
      PROVE  Disposition'
  BY <1>2 DEF Disposition, TypeOK, Skip, statics, locals, MainAt
<1>3. ASSUME Check
      PROVE  Disposition'
  BY <1>3 DEF Disposition, TypeOK, Check, statics, locals, MainAt
<1>4. ASSUME SavePrevious
      PROVE  Disposition'
  BY <1>4 DEF Disposition, TypeOK, SavePrevious, locals, MainAt
<1>5. ASSUME ResetReceived
      PROVE  Disposition'
  BY <1>5 DEF Disposition, TypeOK, ResetReceived, locals, MainAt
<1>6. ASSUME Aim
      PROVE  Disposition'
  BY <1>6 DEF Disposition, Aim, MainAt, TypeOK
<1>7. ASSUME Install
      PROVE  Disposition'
  <2>1. target = Last(guards).context /\ Last(guards).context \in Contexts
    BY <1>7, LastGuard DEF TypeOK, Disposition, Install, MainAt, Guard
  <2> QED
    BY <1>7, <2>1, SigintAssumption DEF Disposition, Install
<1>8. ASSUME RaiseIfInterrupted
      PROVE  Disposition'
  BY <1>8 DEF Disposition, TypeOK, RaiseIfInterrupted, statics, locals, MainAt
<1>9. ASSUME Restore
      PROVE  Disposition'
  <2>1. previous = "python"
    BY <1>9, LastGuard DEF TypeOK, GuardOrder, SavedIsPython, Restore, MainAt
  <2> QED
    BY <1>9, <2>1 DEF Disposition, Restore
<1>10. ASSUME Disarm
      PROVE  Disposition'
  BY <1>10 DEF Disposition, TypeOK, Disarm, locals, MainAt
<1>11. ASSUME Drain
      PROVE  Disposition'
  BY <1>11 DEF Disposition, Drain, MainAt, statics
<1>12. ASSUME Release
      PROVE  Disposition'
  BY <1>12 DEF Disposition, TypeOK, Release, statics, locals, MainAt
<1>13. ASSUME NEW s \in Signals, DeliverToPython(s)
      PROVE  Disposition'
  BY <1>13 DEF Disposition, TypeOK, DeliverToPython, statics
<1>14. ASSUME NEW s \in Signals, NEW main \in BOOLEAN, DeliverToGuard(s, main)
      PROVE  Disposition'
  BY <1>14 DEF Disposition, TypeOK, DeliverToGuard, statics
<1>15. ASSUME NEW s \in Signals, CountIn(s)
      PROVE  Disposition'
  BY <1>15 DEF Disposition, TypeOK, CountIn, HandlerStep
<1>16. ASSUME NEW s \in Signals, LoadTarget(s)
      PROVE  Disposition'
  BY <1>16 DEF Disposition, TypeOK, LoadTarget, statics, HandlerStep
<1>17. ASSUME NEW s \in Signals, InterruptContext(s)
      PROVE  Disposition'
  BY <1>17 DEF Disposition, TypeOK, InterruptContext, HandlerStep
<1>18. ASSUME NEW s \in Signals, CopyPrevious(s)
      PROVE  Disposition'
  BY <1>18 DEF Disposition, TypeOK, CopyPrevious, statics, HandlerStep
<1>19. ASSUME NEW s \in Signals, CountOut(s)
      PROVE  Disposition'
  BY <1>19 DEF Disposition, TypeOK, CountOut, HandlerStep
<1>20. ASSUME NEW s \in Signals, Chain(s)
      PROVE  Disposition'
  BY <1>20 DEF Disposition, TypeOK, Chain, statics, HandlerStep
<1>21. CASE UNCHANGED vars
  BY <1>21 DEF vars, statics, locals, Disposition
<1> QED
  BY <1>1, <1>2, <1>3, <1>4, <1>5, <1>6, <1>7, <1>8, <1>9, <1>10, <1>11, <1>12, <1>13,
       <1>14, <1>15, <1>16, <1>17, <1>18, <1>19, <1>20, <1>21 DEF Next, Construct,
       Destroy, Deliver, Handle

\* What Begin, Install and Release leave of the guards that matter.
LEMMA StillGuarded ==
    ASSUME TypeOK, NEW c, Guarded(c),
           \/ Begin
           \/ Install
           \/ Release /\ ~(Last(guards).installed /\ c = Last(guards).context)
    PROVE  Guarded(c)'
<1>1. PICK i \in 1..Len(guards) :
          /\ guards[i].context = c
          /\ guards[i].installed \/ (i = Len(guards) /\ pc = "install")
  BY DEF Guarded
<1>2. CASE Begin
  <2>1. guards[i].installed
    BY <1>1, <1>2 DEF Begin, MainAt
  <2>2. i \in 1..Len(guards') /\ guards'[i] = guards[i]
    BY <1>1, <1>2, BeginGuards
  <2> QED
    BY <1>1, <2>1, <2>2 DEF Guarded
<1>3. CASE Install
  <2>1. guards # <<>>
    BY <1>3 DEF TypeOK, Install, MainAt
  <2>2. i \in 1..Len(guards') /\ guards'[i].context = c /\ guards'[i].installed
    <3>1. CASE i = Len(guards)
      BY <1>1, <1>3, <2>1, <3>1, InstallGuards
    <3>2. CASE i # Len(guards)
      BY <1>1, <1>3, <2>1, <3>2, InstallGuards, LastGuard
    <3> QED
      BY <3>1, <3>2
  <2> QED
    BY <2>2 DEF Guarded
<1>4. CASE Release /\ ~(Last(guards).installed /\ c = Last(guards).context)
  <2>1. guards[i].installed
    BY <1>1, <1>4 DEF Release, MainAt
  <2>2. i # Len(guards)
    BY <1>1, <1>4, <2>1 DEF Last
  <2>3. i \in 1..Len(guards') /\ guards'[i] = guards[i]
    BY <1>1, <1>4, <2>2, ReleaseGuards
  <2> QED
    BY <1>1, <2>1, <2>3 DEF Guarded
<1> QED
  BY <1>2, <1>3, <1>4

\* Without them, a guard matters as long as nothing leaves the place "install".
LEMMA StayGuarded ==
    ASSUME NEW c, Guarded(c), guards' = guards, pc = "install" => pc' = "install"
    PROVE  Guarded(c)'
BY DEF Guarded

\* target is the context of a guard that will clear it.
LEMMA TargetStep ==
    ASSUME TypeOK, Disposition, TargetGuarded, [Next]_vars
    PROVE  TargetGuarded'
<1>1. ASSUME Begin
      PROVE  TargetGuarded'
  BY <1>1, StillGuarded DEF TargetGuarded, Begin, statics
<1>2. ASSUME Skip
      PROVE  TargetGuarded'
  BY <1>2, StayGuarded DEF TargetGuarded, Skip, statics, locals, MainAt
<1>3. ASSUME Check
      PROVE  TargetGuarded'
  BY <1>3, StayGuarded DEF TargetGuarded, Check, statics, locals, MainAt
<1>4. ASSUME SavePrevious
      PROVE  TargetGuarded'
  BY <1>4, StayGuarded DEF TargetGuarded, SavePrevious, locals, MainAt
<1>5. ASSUME ResetReceived
      PROVE  TargetGuarded'
  BY <1>5, StayGuarded DEF TargetGuarded, ResetReceived, locals, MainAt
<1>6. ASSUME Aim
      PROVE  TargetGuarded'
  <2>1. /\ Len(guards) \in 1..Len(guards)
        /\ guards' = guards
        /\ target' = guards[Len(guards)].context
        /\ pc' = "install"
    BY <1>6, LastGuard DEF Aim, MainAt, TypeOK
  <2> QED
    BY <2>1 DEF TargetGuarded, Guarded
<1>7. ASSUME Install
      PROVE  TargetGuarded'
  BY <1>7, StillGuarded DEF TargetGuarded, Install
<1>8. ASSUME RaiseIfInterrupted
      PROVE  TargetGuarded'
  BY <1>8, StayGuarded DEF TargetGuarded, RaiseIfInterrupted, statics, locals, MainAt
<1>9. ASSUME Restore
      PROVE  TargetGuarded'
  BY <1>9, StayGuarded DEF TargetGuarded, Restore, locals, MainAt
<1>10. ASSUME Disarm
      PROVE  TargetGuarded'
  BY <1>10, StayGuarded DEF TargetGuarded, Disarm, locals, MainAt
<1>11. ASSUME Drain
      PROVE  TargetGuarded'
  BY <1>11, StayGuarded DEF TargetGuarded, Drain, statics, locals, MainAt
<1>12. ASSUME Release
      PROVE  TargetGuarded'
  <2>1. Last(guards).installed => target = NULL
    BY <1>12 DEF Disposition, Release, MainAt
  <2> QED
    BY <1>12, <2>1, StillGuarded DEF TargetGuarded, Release, statics
<1>13. ASSUME NEW s \in Signals, DeliverToPython(s)
      PROVE  TargetGuarded'
  BY <1>13, StayGuarded DEF TargetGuarded, DeliverToPython, statics
<1>14. ASSUME NEW s \in Signals, NEW main \in BOOLEAN, DeliverToGuard(s, main)
      PROVE  TargetGuarded'
  BY <1>14, StayGuarded DEF TargetGuarded, DeliverToGuard, statics
<1>15. ASSUME NEW s \in Signals, CountIn(s)
      PROVE  TargetGuarded'
  BY <1>15, StayGuarded DEF TargetGuarded, CountIn, HandlerStep
<1>16. ASSUME NEW s \in Signals, LoadTarget(s)
      PROVE  TargetGuarded'
  BY <1>16, StayGuarded DEF TargetGuarded, LoadTarget, statics, HandlerStep
<1>17. ASSUME NEW s \in Signals, InterruptContext(s)
      PROVE  TargetGuarded'
  BY <1>17, StayGuarded DEF TargetGuarded, InterruptContext, HandlerStep
<1>18. ASSUME NEW s \in Signals, CopyPrevious(s)
      PROVE  TargetGuarded'
  BY <1>18, StayGuarded DEF TargetGuarded, CopyPrevious, statics, HandlerStep
<1>19. ASSUME NEW s \in Signals, CountOut(s)
      PROVE  TargetGuarded'
  BY <1>19, StayGuarded DEF TargetGuarded, CountOut, HandlerStep
<1>20. ASSUME NEW s \in Signals, Chain(s)
      PROVE  TargetGuarded'
  BY <1>20, StayGuarded DEF TargetGuarded, Chain, statics, HandlerStep
<1>21. CASE UNCHANGED vars
  BY <1>21 DEF vars, statics, locals, TargetGuarded, Guarded
<1> QED
  BY <1>1, <1>2, <1>3, <1>4, <1>5, <1>6, <1>7, <1>8, <1>9, <1>10, <1>11, <1>12, <1>13,
       <1>14, <1>15, <1>16, <1>17, <1>18, <1>19, <1>20, <1>21 DEF Next, Construct,
       Destroy, Deliver, Handle

\* The context a handler is about to interrupt belongs to a guard that waits for it.
LEMMA LoadedStep ==
    ASSUME TypeOK, CountIsExact, Disposition, TargetGuarded, LoadedGuarded, [Next]_vars
    PROVE  LoadedGuarded'
<1>1. ASSUME Begin
      PROVE  LoadedGuarded'
  BY <1>1, StillGuarded DEF LoadedGuarded, Begin, locals
<1>2. ASSUME Skip
      PROVE  LoadedGuarded'
  BY <1>2, StayGuarded DEF LoadedGuarded, Skip, statics, locals, MainAt
<1>3. ASSUME Check
      PROVE  LoadedGuarded'
  BY <1>3, StayGuarded DEF LoadedGuarded, Check, statics, locals, MainAt
<1>4. ASSUME SavePrevious
      PROVE  LoadedGuarded'
  BY <1>4, StayGuarded DEF LoadedGuarded, SavePrevious, locals, MainAt
<1>5. ASSUME ResetReceived
      PROVE  LoadedGuarded'
  BY <1>5, StayGuarded DEF LoadedGuarded, ResetReceived, locals, MainAt
<1>6. ASSUME Aim
      PROVE  LoadedGuarded'
  BY <1>6, StayGuarded DEF LoadedGuarded, Aim, locals, MainAt
<1>7. ASSUME Install
      PROVE  LoadedGuarded'
  BY <1>7, StillGuarded DEF LoadedGuarded, Install, locals
<1>8. ASSUME RaiseIfInterrupted
      PROVE  LoadedGuarded'
  <2>1. /\ guards' = guards /\ hpc' = hpc /\ loaded' = loaded
        /\ pc = "query" /\ (pc' = "release" => ~Last(guards).installed)
    BY <1>8 DEF RaiseIfInterrupted, MainAt, locals
  <2> QED
    BY <2>1, StayGuarded DEF LoadedGuarded
<1>9. ASSUME Restore
      PROVE  LoadedGuarded'
  BY <1>9, StayGuarded DEF LoadedGuarded, Restore, locals, MainAt
<1>10. ASSUME Disarm
      PROVE  LoadedGuarded'
  BY <1>10, StayGuarded DEF LoadedGuarded, Disarm, locals, MainAt
<1>11. ASSUME Drain
      PROVE  LoadedGuarded'
  <2>1. CountedHandlers = {}
    BY <1>11, CountedFinite, FS_EmptySet DEF CountIsExact, Drain
  <2>2. \A s \in Signals : hpc[s] # "interrupt"
    BY <2>1 DEF CountedHandlers, Counted
  <2> QED
    BY <1>11, <2>2 DEF LoadedGuarded, Drain, locals
<1>12. ASSUME Release
      PROVE  LoadedGuarded'
  <2>1. \A s \in Signals :
            hpc[s] = "interrupt" /\ loaded[s] # NULL => ~Last(guards).installed
    BY <1>12 DEF LoadedGuarded, Release, MainAt
  <2> QED
    BY <1>12, <2>1, StillGuarded DEF LoadedGuarded, Release, locals
<1>13. ASSUME NEW s \in Signals, DeliverToPython(s)
      PROVE  LoadedGuarded'
  BY <1>13, StayGuarded DEF LoadedGuarded, DeliverToPython, statics, TypeOK
<1>14. ASSUME NEW s \in Signals, NEW main \in BOOLEAN, DeliverToGuard(s, main)
      PROVE  LoadedGuarded'
  BY <1>14, StayGuarded DEF LoadedGuarded, DeliverToGuard, statics, TypeOK
<1>15. ASSUME NEW s \in Signals, CountIn(s)
      PROVE  LoadedGuarded'
  BY <1>15, StayGuarded DEF LoadedGuarded, CountIn, HandlerStep, TypeOK
<1>16. ASSUME NEW s \in Signals, LoadTarget(s)
      PROVE  LoadedGuarded'
  <2>1. /\ \A r \in Signals : hpc'[r] = "interrupt" =>
              (r = s /\ loaded'[r] = target) \/ (hpc[r] = "interrupt" /\ loaded'[r] = loaded[r])
        /\ guards' = guards /\ pc' = pc /\ target' = target
    BY <1>16 DEF LoadTarget, HandlerStep, TypeOK, statics
  <2>2. pc = "release" /\ Last(guards).installed => target = NULL
    BY DEF Disposition
  <2> QED
    BY <2>1, <2>2, StayGuarded DEF LoadedGuarded, TargetGuarded
<1>17. ASSUME NEW s \in Signals, InterruptContext(s)
      PROVE  LoadedGuarded'
  BY <1>17, StayGuarded DEF LoadedGuarded, InterruptContext, HandlerStep, TypeOK
<1>18. ASSUME NEW s \in Signals, CopyPrevious(s)
      PROVE  LoadedGuarded'
  BY <1>18, StayGuarded DEF LoadedGuarded, CopyPrevious, statics, HandlerStep, TypeOK
<1>19. ASSUME NEW s \in Signals, CountOut(s)
      PROVE  LoadedGuarded'
  BY <1>19, StayGuarded DEF LoadedGuarded, CountOut, HandlerStep, TypeOK
<1>20. ASSUME NEW s \in Signals, Chain(s)
      PROVE  LoadedGuarded'
  BY <1>20, StayGuarded DEF LoadedGuarded, Chain, statics, HandlerStep, TypeOK
<1>21. CASE UNCHANGED vars
  BY <1>21 DEF vars, statics, locals, LoadedGuarded, Guarded
<1> QED
  BY <1>1, <1>2, <1>3, <1>4, <1>5, <1>6, <1>7, <1>8, <1>9, <1>10, <1>11, <1>12, <1>13,
       <1>14, <1>15, <1>16, <1>17, <1>18, <1>19, <1>20, <1>21 DEF Next, Construct,
       Destroy, Deliver, Handle

\* A guard saves and restores Python's disposition only.
LEMMA SavedStep ==
    ASSUME TypeOK, Disposition, SavedIsPython, [Next]_vars
    PROVE  SavedIsPython'
<1>1. ASSUME Begin
      PROVE  SavedIsPython'
  <2>1. \A i \in 1..Len(guards') : guards'[i].installed => i \in 1..Len(guards)
    BY <1>1, BeginGuards
  <2>2. \A i \in 1..Len(guards) : guards'[i] = guards[i]
    BY <1>1, BeginGuards
  <2> QED
    BY <1>1, <2>1, <2>2 DEF SavedIsPython, Begin, statics, locals
<1>2. ASSUME Skip
      PROVE  SavedIsPython'
  BY <1>2 DEF SavedIsPython, Skip, statics, locals, MainAt
<1>3. ASSUME Check
      PROVE  SavedIsPython'
  BY <1>3 DEF SavedIsPython, Check, statics, locals, MainAt
<1>4. ASSUME SavePrevious
      PROVE  SavedIsPython'
  <2>1. action = "python"
    BY <1>4 DEF Disposition, SavePrevious, MainAt
  <2> QED
    BY <1>4, <2>1 DEF SavedIsPython, SavePrevious, locals
<1>5. ASSUME ResetReceived
      PROVE  SavedIsPython'
  BY <1>5 DEF SavedIsPython, ResetReceived, locals, MainAt
<1>6. ASSUME Aim
      PROVE  SavedIsPython'
  BY <1>6 DEF SavedIsPython, Aim, locals, MainAt
<1>7. ASSUME Install
      PROVE  SavedIsPython'
  <2>1. previous = "python"
    BY <1>7 DEF SavedIsPython, Install, MainAt
  <2> QED
    BY <1>7, <2>1 DEF SavedIsPython, Install, locals
<1>8. ASSUME RaiseIfInterrupted
      PROVE  SavedIsPython'
  BY <1>8 DEF SavedIsPython, RaiseIfInterrupted, statics, locals, MainAt
<1>9. ASSUME Restore
      PROVE  SavedIsPython'
  <2>1. action' = previous
    BY <1>9 DEF Restore
  <2> QED
    BY <1>9, <2>1 DEF SavedIsPython, Restore, locals
<1>10. ASSUME Disarm
      PROVE  SavedIsPython'
  BY <1>10 DEF SavedIsPython, Disarm, locals, MainAt
<1>11. ASSUME Drain
      PROVE  SavedIsPython'
  BY <1>11 DEF SavedIsPython, Drain, statics, locals, MainAt
<1>12. ASSUME Release
      PROVE  SavedIsPython'
  <2>1. \A i \in 1..Len(guards') : i \in 1..Len(guards) /\ guards'[i] = guards[i]
    BY <1>12, ReleaseGuards
  <2> QED
    BY <1>12, <2>1 DEF SavedIsPython, Release, statics, locals
<1>13. ASSUME NEW s \in Signals, DeliverToPython(s)
      PROVE  SavedIsPython'
  BY <1>13 DEF SavedIsPython, DeliverToPython, statics, TypeOK
<1>14. ASSUME NEW s \in Signals, NEW main \in BOOLEAN, DeliverToGuard(s, main)
      PROVE  SavedIsPython'
  BY <1>14 DEF SavedIsPython, DeliverToGuard, statics, TypeOK
<1>15. ASSUME NEW s \in Signals, CountIn(s)
      PROVE  SavedIsPython'
  BY <1>15 DEF SavedIsPython, CountIn, HandlerStep, TypeOK
<1>16. ASSUME NEW s \in Signals, LoadTarget(s)
      PROVE  SavedIsPython'
  BY <1>16 DEF SavedIsPython, LoadTarget, statics, HandlerStep, TypeOK
<1>17. ASSUME NEW s \in Signals, InterruptContext(s)
      PROVE  SavedIsPython'
  BY <1>17 DEF SavedIsPython, InterruptContext, HandlerStep, TypeOK
<1>18. ASSUME NEW s \in Signals, CopyPrevious(s)
      PROVE  SavedIsPython'
  BY <1>18 DEF SavedIsPython, CopyPrevious, statics, HandlerStep, TypeOK
<1>19. ASSUME NEW s \in Signals, CountOut(s)
      PROVE  SavedIsPython'
  BY <1>19 DEF SavedIsPython, CountOut, HandlerStep, TypeOK
<1>20. ASSUME NEW s \in Signals, Chain(s)
      PROVE  SavedIsPython'
  BY <1>20 DEF SavedIsPython, Chain, statics, HandlerStep, TypeOK
<1>21. CASE UNCHANGED vars
  BY <1>21 DEF vars, statics, locals, SavedIsPython
<1> QED
  BY <1>1, <1>2, <1>3, <1>4, <1>5, <1>6, <1>7, <1>8, <1>9, <1>10, <1>11, <1>12, <1>13,
       <1>14, <1>15, <1>16, <1>17, <1>18, <1>19, <1>20, <1>21 DEF Next, Construct,
       Destroy, Deliver, Handle

\* A handler chains to what it copied before it counted itself out.
LEMMA ChainsStep ==
    ASSUME TypeOK, SavedIsPython, ChainsToPython, [Next]_vars
    PROVE  ChainsToPython'
<1>1. ASSUME Begin
      PROVE  ChainsToPython'
  BY <1>1 DEF ChainsToPython, Begin, statics, locals, MainAt
<1>2. ASSUME Skip
      PROVE  ChainsToPython'
  BY <1>2 DEF ChainsToPython, Skip, statics, locals, MainAt
<1>3. ASSUME Check
      PROVE  ChainsToPython'
  BY <1>3 DEF ChainsToPython, Check, statics, locals, MainAt
<1>4. ASSUME SavePrevious
      PROVE  ChainsToPython'
  BY <1>4 DEF ChainsToPython, SavePrevious, locals, MainAt
<1>5. ASSUME ResetReceived
      PROVE  ChainsToPython'
  BY <1>5 DEF ChainsToPython, ResetReceived, locals, MainAt
<1>6. ASSUME Aim
      PROVE  ChainsToPython'
  BY <1>6 DEF ChainsToPython, Aim, locals, MainAt
<1>7. ASSUME Install
      PROVE  ChainsToPython'
  BY <1>7 DEF ChainsToPython, Install, locals, MainAt
<1>8. ASSUME RaiseIfInterrupted
      PROVE  ChainsToPython'
  BY <1>8 DEF ChainsToPython, RaiseIfInterrupted, statics, locals, MainAt
<1>9. ASSUME Restore
      PROVE  ChainsToPython'
  BY <1>9 DEF ChainsToPython, Restore, locals, MainAt
<1>10. ASSUME Disarm
      PROVE  ChainsToPython'
  BY <1>10 DEF ChainsToPython, Disarm, locals, MainAt
<1>11. ASSUME Drain
      PROVE  ChainsToPython'
  BY <1>11 DEF ChainsToPython, Drain, statics, locals, MainAt
<1>12. ASSUME Release
      PROVE  ChainsToPython'
  BY <1>12 DEF ChainsToPython, Release, statics, locals, MainAt
<1>13. ASSUME NEW s \in Signals, DeliverToPython(s)
      PROVE  ChainsToPython'
  BY <1>13 DEF ChainsToPython, DeliverToPython, statics, TypeOK
<1>14. ASSUME NEW s \in Signals, NEW main \in BOOLEAN, DeliverToGuard(s, main)
      PROVE  ChainsToPython'
  BY <1>14 DEF ChainsToPython, DeliverToGuard, statics, TypeOK
<1>15. ASSUME NEW s \in Signals, CountIn(s)
      PROVE  ChainsToPython'
  BY <1>15 DEF ChainsToPython, CountIn, HandlerStep, TypeOK
<1>16. ASSUME NEW s \in Signals, LoadTarget(s)
      PROVE  ChainsToPython'
  BY <1>16 DEF ChainsToPython, LoadTarget, statics, HandlerStep, TypeOK
<1>17. ASSUME NEW s \in Signals, InterruptContext(s)
      PROVE  ChainsToPython'
  BY <1>17 DEF ChainsToPython, InterruptContext, HandlerStep, TypeOK
<1>18. ASSUME NEW s \in Signals, CopyPrevious(s)
      PROVE  ChainsToPython'
  BY <1>18 DEF ChainsToPython, CopyPrevious, statics, HandlerStep, TypeOK, SavedIsPython
<1>19. ASSUME NEW s \in Signals, CountOut(s)
      PROVE  ChainsToPython'
  BY <1>19 DEF ChainsToPython, CountOut, HandlerStep, TypeOK
<1>20. ASSUME NEW s \in Signals, Chain(s)
      PROVE  ChainsToPython'
  BY <1>20 DEF ChainsToPython, Chain, statics, HandlerStep, TypeOK
<1>21. CASE UNCHANGED vars
  BY <1>21 DEF vars, statics, locals, ChainsToPython
<1> QED
  BY <1>1, <1>2, <1>3, <1>4, <1>5, <1>6, <1>7, <1>8, <1>9, <1>10, <1>11, <1>12, <1>13,
       <1>14, <1>15, <1>16, <1>17, <1>18, <1>19, <1>20, <1>21 DEF Next, Construct,
       Destroy, Deliver, Handle

-----------------------------------------------------------------------------
(* The theorems.                                                           *)

\* The initial state satisfies the inductive invariant.
LEMMA InitIInv == Init => IInv
<1> SUFFICES ASSUME Init PROVE IInv
  OBVIOUS
<1>1. guards = <<>> /\ guards \in Seq(Guard) /\ Len(guards) = 0
  BY EmptySeq DEF Init
<1>2. CountedHandlers = {}
  BY DEF Init, CountedHandlers, Counted
<1>3. CountIsExact
  BY <1>2, FS_EmptySet DEF Init, CountIsExact
<1>4. TypeOK
  BY <1>1 DEF Init, TypeOK
<1>5. GuardOrder /\ Disposition /\ TargetGuarded /\ LoadedGuarded /\ ChainsToPython
  BY DEF Init, GuardOrder, Disposition, TargetGuarded, LoadedGuarded, ChainsToPython
<1>6. GuardsOwnContexts /\ SavedIsPython
  BY <1>1 DEF Init, GuardsOwnContexts, SavedIsPython
<1> QED
  BY <1>3, <1>4, <1>5, <1>6 DEF IInv

\* Every step of the specification preserves it.
LEMMA StepIInv == IInv /\ [Next]_vars => IInv'
BY TypingStep, CountStep, GuardOrderStep, OwnContextsStep, DispositionStep, TargetStep,
   LoadedStep, SavedStep, ChainsStep DEF IInv

\* Every reachable state satisfies the inductive invariant.
THEOREM Invariance == Spec => []IInv
BY InitIInv, StepIInv, PTL DEF Spec

\* The statics and locals always hold values of their types; handlersInFlight
\* in particular never drops below zero.
THEOREM TypeCorrect == Spec => []TypeOK
<1>1. IInv => TypeOK
  BY DEF IInv
<1> QED
  BY <1>1, Invariance, PTL

\* A guarded context is one a live query owns, so it is not released.
LEMMA GuardedIsLive ==
    ASSUME IInv, NEW c, Guarded(c)
    PROVE  c \notin freed
BY DEF IInv, Guarded, GuardsOwnContexts

\* The handler never interrupts a released context, whatever the number of
\* signals in flight and however late each of them starts (280-284).
THEOREM HandlerTouchesLiveContext == Spec => []NoDanglingInterrupt
<1>1. ASSUME IInv PROVE NoDanglingInterrupt
  BY <1>1, GuardedIsLive DEF NoDanglingInterrupt, IInv, LoadedGuarded
<1> QED
  BY <1>1, Invariance, PTL

\* While the guard's handler is installed, it has a live query to interrupt.
THEOREM InstalledHandlerHasTarget == Spec => []InstalledHasTarget
<1>1. ASSUME IInv PROVE InstalledHasTarget
  BY <1>1, GuardedIsLive DEF InstalledHasTarget, IInv, Disposition, TargetGuarded
<1> QED
  BY <1>1, Invariance, PTL

\* A SIGINT always ends in Python's handler, never in the guard's own again.
THEOREM HandlerChainsToPython == Spec => []ChainsToPython
<1>1. IInv => ChainsToPython
  BY DEF IInv
<1> QED
  BY <1>1, Invariance, PTL

\* After the outermost query, Python's handler is installed and nothing armed.
THEOREM IdleIsRestored == Spec => []RestoredWhenIdle
<1>1. ASSUME IInv PROVE RestoredWhenIdle
  <2> SUFFICES ASSUME pc = "idle" PROVE action = "python" /\ target = NULL
    BY DEF RestoredWhenIdle
  <2>1. guards = <<>> /\ Len(guards) = 0
    BY <1>1, EmptySeq DEF IInv, GuardOrder
  <2>2. target = NULL
    BY <1>1, <2>1 DEF IInv, TargetGuarded, Guarded
  <2> QED
    BY <1>1, <2>2 DEF IInv, TypeOK, Disposition
<1> QED
  BY <1>1, Invariance, PTL

=============================================================================
