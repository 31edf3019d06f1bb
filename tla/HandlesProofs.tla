--------------------------- MODULE HandlesProofs ---------------------------
(***************************************************************************)
(* For any connections, results and statements: no native object goes      *)
(* before one that was made from it, what passes the close checks can be   *)
(* read, nothing is leaked, and Database.close() releases the database.    *)
(*                                                                         *)
(* Four kinds of action keep the invariant, and each kind has its lemma: a *)
(* call that makes objects from a connection (Calls), a step that lets go  *)
(* of some (LetsGo), Connect, and what begins a close(): of a result, of a *)
(* connection, of the database.                                            *)
(***************************************************************************)
EXTENDS Handles, TLAPS

\* What the program can still open a connection or run a call on has its handle.
OpenHasHandle ==
    /\ Db \in held /\ database = "open" => Db \in handles
    /\ \A c \in Conns : c \in held /\ conn[c] = "open" => c \in handles

\* The results, connections and statements among what is reachable.
HeldResults ==
    leaving \cup closing \cup (UNION {snapshot[c] : c \in Conns}) \cup (held \cap AllResults)
HeldConns ==
    {c \in Conns :
        \/ c \in held \/ Closing(c)
        \/ \E r \in HeldResults : owner[r] = c
        \/ \E s \in held \cap Stmts : c \in uses[s]}

\* What is not made yet is nowhere.
UnmadeIsNowhere ==
    /\ \A x \in Children : Fresh(x) =>
         /\ x \notin held \cup live \cup tracked \cup leaving \cup closing \cup closed
                   \cup cache
         /\ \A c \in Conns : x \notin snapshot[c]
    /\ \A r \in AllResults : Fresh(r) => owner[r] = NULL
    /\ \A c \in Conns : conn[c] = "none" => c \notin held \cup live /\ Fresh(c)

\* What is made from what: a connection from the database, a result from its connection
\* and, with pybind, from the first result of its query, which is made from no other.
MadeInOrder ==
    /\ uses[Db] = {}
    /\ \A c \in Conns : uses[c] \subseteq {Db}
    /\ \A s \in Stmts \cup TableResults : uses[s] \subseteq Conns
    /\ \A r \in Results : uses[r] \subseteq Conns \cup Results
    /\ \A r \in Results, p \in Results :
         p \in uses[r] => backend = "pybind" /\ uses[p] \subseteq Conns /\ ~Fresh(p)

\* A handle is somebody's.
HandlesAreReachable == handles \subseteq Reachable

\* Nothing lives for nothing: with pybind, by a handle or by what was made from it; with
\* the C API results and statements have their struct.
LiveForAReason ==
    /\ backend = "pybind" => \A x \in live : x \in handles \/ \E y \in live : x \in uses[y]
    /\ backend = "capi" => live \cap Children \subseteq handles

\* Only close() takes the handle of what somebody has.
OnlyCloseTakesHandle ==
    /\ \A c \in Conns \cap Reachable : conn[c] = "open" => c \in handles
    /\ \A r \in AllResults \cap Reachable :
         r \notin closing \cup closed /\ owner[r] # NULL => r \in handles
    /\ database = "closed" => Db \notin handles
    /\ database = "closed" /\ backend = "capi" => Db \notin live

\* What a connection knows of its results and statements.
BooksAreKept ==
    /\ tracked \subseteq handles \ (leaving \cup closing \cup closed)
    /\ \A r \in AllResults : owner[r] \in Conns => uses[r] \cap Conns = {owner[r]}
    /\ \A r \in tracked : owner[r] \in Conns
    /\ \A c \in Conns : conn[c] # "results" => snapshot[c] = {}
    /\ \A s \in cache, c \in Conns : c \in uses[s] => conn[c] \in {"open", "results"}

\* With the C API and an open database no live result is missing in its connection's,
\* except in its own close().
ResultsAreListed ==
    backend = "capi" /\ database = "open" =>
        /\ live \cap Results \cap (closing \cup closed) = {}
        /\ \A r \in live \cap (Results \ leaving), c \in Conns : c \in uses[r] =>
             /\ conn[c] \in {"open", "results"}
             /\ conn[c] = "open" => r \in tracked /\ owner[r] = c
             /\ conn[c] = "results" => r \in snapshot[c]
        /\ \A c \in Conns : c \in live \/ conn[c] \in {"none", "drop", "closed"}

\* The inductive invariant.
IInv ==
    /\ TypeOK
    /\ OpenHasHandle
    /\ OutlivesUsers
    /\ UnmadeIsNowhere
    /\ MadeInOrder
    /\ HandlesAreReachable
    /\ LiveForAReason
    /\ OnlyCloseTakesHandle
    /\ BooksAreKept
    /\ ResultsAreListed

-----------------------------------------------------------------------------
(* Kept and Settle.                                                        *)

\* Nothing comes back to life, and what has a handle stays.
LEMMA KeptBounds ==
    ASSUME NEW h, NEW n
    PROVE  Kept(h, n) \subseteq n /\ h \cap n \subseteq Kept(h, n)
<1>1. Kept(h, n) \subseteq n
  BY DEF Kept
<1>2. ASSUME NEW x \in h \cap n
      PROVE  x \in Kept(h, n)
  <2>1. {x} \in SUBSET n /\ \A z \in {x} : z \in h
    BY <1>2
  <2> QED
    BY <2>1 DEF Kept
<1> QED
  BY <1>1, <1>2

\* What a kept object points to is kept, if it was there.
LEMMA KeptUses ==
    ASSUME NEW h, NEW n, NEW x \in Kept(h, n), NEW p \in n, p \in uses'[x]
    PROVE  p \in Kept(h, n)
<1>1. PICK s \in SUBSET n :
          x \in s /\ \A z \in s : z \in h \/ \E y \in s : z \in uses'[y]
  BY DEF Kept
<1>2. /\ s \cup {p} \in SUBSET n
      /\ \A z \in s \cup {p} : z \in h \/ \E y \in s \cup {p} : z \in uses'[y]
  BY <1>1
<1> QED
  BY <1>2 DEF Kept

\* Settling drops handles and destroys objects, and leaves no handle dangling.
LEMMA SettleTypes ==
    ASSUME TypeOK, NEW dropped, NEW destroyed \in SUBSET dropped,
           Settle(dropped, destroyed)
    PROVE  /\ handles' \subseteq handles
           /\ handles' \subseteq live'
           /\ live' \subseteq live
<1>1. handles' = (handles \ dropped) \cap Reachable'
  BY DEF Settle
<1>2. handles \subseteq live
  BY DEF TypeOK
<1>3. CASE backend = "pybind"
  <2>1. live' = Kept(handles', live)
    BY <1>3 DEF Settle
  <2> QED
    BY <1>1, <1>2, <2>1, KeptBounds
<1>4. CASE backend # "pybind"
  <2>1. live' = live \ (destroyed \cup ((handles \ Reachable') \cap Children))
    BY <1>4 DEF Settle
  <2> QED
    BY <1>1, <1>2, <2>1
<1> QED
  BY <1>3, <1>4

\* With pybind, settling destroys nothing that a survivor points to.
LEMMA SettleKeepsUses ==
    ASSUME OutlivesUsers, NEW dropped, NEW destroyed, Settle(dropped, destroyed),
           uses' = uses, backend' = backend
    PROVE  OutlivesUsers'
<1> SUFFICES ASSUME backend = "pybind", NEW x \in live', NEW p \in uses[x]
             PROVE  p \in live'
  BY DEF OutlivesUsers
<1>1. live' = Kept(handles', live)
  BY DEF Settle
<1>2. x \in live
  BY <1>1, KeptBounds
<1>3. p \in live
  BY <1>2 DEF OutlivesUsers
<1> QED
  BY <1>1, <1>3, KeptUses

\* An object the program holds and whose handle is not dropped keeps it.
LEMMA SettleKeepsHeld ==
    ASSUME NEW dropped, NEW destroyed, Settle(dropped, destroyed),
           NEW x \in {Db} \cup Conns, x \in held', x \in handles, x \notin dropped
    PROVE  x \in handles'
<1>1. x \in Reachable'
  BY DEF Reachable
<1> QED
  BY <1>1 DEF Settle

-----------------------------------------------------------------------------
(* Types.                                                                  *)

LEMMA TypingStep ==
    ASSUME TypeOK, [Next]_vars
    PROVE  TypeOK'
<1> USE HandlesAssumption DEF Objects, Children, AllResults
<1>1. ASSUME NEW c \in Conns, Connect(c)
      PROVE  TypeOK'
  BY <1>1 DEF TypeOK, Connect, Make, Phases
<1>2. ASSUME NEW c \in Conns, StartClose(c)
      PROVE  TypeOK'
  BY <1>2 DEF TypeOK, StartClose, Phases
<1>3. ASSUME NEW c \in Conns, ClearCache(c)
      PROVE  TypeOK'
  <2>1. \E mine \in SUBSET cache : Settle(mine, mine)
    BY <1>3 DEF ClearCache
  <2>2. handles' \subseteq live' /\ live' \subseteq live
    BY <2>1, SettleTypes
  <2> QED
    BY <1>3, <2>2 DEF TypeOK, ClearCache, Phases
<1>4. ASSUME NEW c \in Conns, CloseNative(c)
      PROVE  TypeOK'
  <2>1. \E native \in SUBSET {c} : Settle(native, native)
    BY <1>4 DEF CloseNative
  <2>2. handles' \subseteq live' /\ live' \subseteq live
    BY <2>1, SettleTypes
  <2> QED
    BY <1>4, <2>2 DEF TypeOK, CloseNative, Phases
<1>5. ASSUME NEW c \in Conns, FinishClose(c)
      PROVE  TypeOK'
  <2>1. handles' \subseteq live' /\ live' \subseteq live
    BY <1>5, SettleTypes DEF FinishClose
  <2> QED
    BY <1>5, <2>1 DEF TypeOK, FinishClose, Phases
<1>6. ASSUME NEW c \in Conns, NEW r \in Results, Execute(c, r)
      PROVE  TypeOK'
  BY <1>6 DEF TypeOK, Execute, Make
<1>7. ASSUME NEW c \in Conns, NEW r \in Results, NEW next \in Results,
             ExecuteTwo(c, r, next)
      PROVE  TypeOK'
  BY <1>7 DEF TypeOK, ExecuteTwo
<1>8. ASSUME NEW c \in Conns, NEW r \in TableResults, TableCall(c, r)
      PROVE  TypeOK'
  BY <1>8 DEF TypeOK, TableCall, Make
<1>9. ASSUME NEW c \in Conns, NEW s \in Stmts, Prepare(c, s)
      PROVE  TypeOK'
  BY <1>9 DEF TypeOK, Prepare, Make
<1>10. ASSUME NEW c \in Conns, NEW s \in Stmts, NEW r \in Results,
              ExecutePrepared(c, s, r)
       PROVE  TypeOK'
  BY <1>10 DEF TypeOK, ExecutePrepared
<1>11. ASSUME NEW r \in AllResults, CloseResult(r)
       PROVE  TypeOK'
  <2>1. handles' \subseteq live' /\ live' \subseteq live
    BY <1>11, SettleTypes DEF CloseResult
  <2> QED
    BY <1>11, <2>1 DEF TypeOK, CloseResult
<1>12. ASSUME NEW r \in AllResults, FinishResult(r)
       PROVE  TypeOK'
  <2>1. handles' \subseteq live' /\ live' \subseteq live
    BY <1>12, SettleTypes DEF FinishResult
  <2> QED
    BY <1>12, <2>1 DEF TypeOK, FinishResult
<1>13. ASSUME NEW s \in Stmts, CloseStatement(s)
       PROVE  TypeOK'
  <2>1. handles' \subseteq live' /\ live' \subseteq live
    BY <1>13, SettleTypes DEF CloseStatement
  <2> QED
    BY <1>13, <2>1 DEF TypeOK, CloseStatement, pyVars
<1>14. ASSUME NEW x \in Objects, Forget(x)
       PROVE  TypeOK'
  <2>1. handles' \subseteq live' /\ live' \subseteq live
    BY <1>14, SettleTypes DEF Forget
  <2> QED
    BY <1>14, <2>1 DEF TypeOK, Forget, Leave
<1>15. ASSUME MarkClosed
       PROVE  TypeOK'
  BY <1>15 DEF TypeOK, MarkClosed, pyVars
<1>16. ASSUME CloseDatabase
       PROVE  TypeOK'
  <2>1. handles' \subseteq live' /\ live' \subseteq live
    BY <1>16, SettleTypes DEF CloseDatabase
  <2> QED
    BY <1>16, <2>1 DEF TypeOK, CloseDatabase, pyVars
<1>17. ASSUME NEW r \in AllResults, BeginResult(r)
       PROVE  TypeOK'
  BY <1>17 DEF TypeOK, BeginResult, Leave
<1>18. CASE UNCHANGED vars
  BY <1>18 DEF vars, TypeOK
<1> QED
  BY <1>1, <1>2, <1>3, <1>4, <1>5, <1>6, <1>7, <1>8, <1>9, <1>10, <1>11, <1>12, <1>13,
       <1>14, <1>15, <1>16, <1>17, <1>18 DEF Next, CloseTracked, UserClosesResult

-----------------------------------------------------------------------------
(* Handles.                                                                *)

\* Only closing drops the handle of what is held, and what is closed is not open.
LEMMA OpenHasHandleStep ==
    ASSUME TypeOK, OpenHasHandle, [Next]_vars
    PROVE  OpenHasHandle'
<1> USE HandlesAssumption DEF Objects, Children, AllResults
<1>1. ASSUME NEW dropped, NEW destroyed, Settle(dropped, destroyed),
             held' \subseteq held,
             database' = "open" => database = "open" /\ Db \notin dropped,
             \A c \in Conns : conn'[c] = "open" => conn[c] = "open" /\ c \notin dropped
      PROVE  OpenHasHandle'
  <2>1. ASSUME Db \in held', database' = "open"
        PROVE  Db \in handles'
    BY <1>1, <2>1, SettleKeepsHeld DEF OpenHasHandle
  <2>2. ASSUME NEW c \in Conns, c \in held', conn'[c] = "open"
        PROVE  c \in handles'
    BY <1>1, <2>2, SettleKeepsHeld DEF OpenHasHandle
  <2> QED
    BY <2>1, <2>2 DEF OpenHasHandle
<1>2. ASSUME NEW c \in Conns, Connect(c)
      PROVE  OpenHasHandle'
  BY <1>2 DEF TypeOK, OpenHasHandle, Connect, Make
<1>3. ASSUME NEW c \in Conns, StartClose(c)
      PROVE  OpenHasHandle'
  BY <1>3 DEF TypeOK, OpenHasHandle, StartClose
<1>4. ASSUME NEW c \in Conns, ClearCache(c)
      PROVE  OpenHasHandle'
  <2>1. PICK mine \in SUBSET Stmts : Settle(mine, mine)
    BY <1>4 DEF ClearCache, TypeOK
  <2>2. held' = held /\ database' = database /\ conn' = [conn EXCEPT ![c] = "native"]
    BY <1>4 DEF ClearCache
  <2> QED
    BY <1>1, <2>1, <2>2 DEF TypeOK
<1>5. ASSUME NEW c \in Conns, CloseNative(c)
      PROVE  OpenHasHandle'
  <2>1. PICK native \in SUBSET {c} : Settle(native, native)
    BY <1>5 DEF CloseNative
  <2>2. held' = held /\ database' = database /\ conn' = [conn EXCEPT ![c] = "drop"]
    BY <1>5 DEF CloseNative
  <2> QED
    BY <1>1, <2>1, <2>2 DEF TypeOK
<1>6. ASSUME NEW c \in Conns, FinishClose(c)
      PROVE  OpenHasHandle'
  <2>1. Settle({c}, {})
    BY <1>6 DEF FinishClose
  <2>2. held' = held /\ database' = database /\ conn' = [conn EXCEPT ![c] = "closed"]
    BY <1>6 DEF FinishClose
  <2> QED
    BY <1>1, <2>1, <2>2 DEF TypeOK
<1>7. ASSUME NEW c \in Conns, NEW r \in Results, Execute(c, r)
      PROVE  OpenHasHandle'
  BY <1>7 DEF TypeOK, OpenHasHandle, Execute, Make
<1>8. ASSUME NEW c \in Conns, NEW r \in Results, NEW next \in Results,
             ExecuteTwo(c, r, next)
      PROVE  OpenHasHandle'
  BY <1>8 DEF TypeOK, OpenHasHandle, ExecuteTwo
<1>9. ASSUME NEW c \in Conns, NEW r \in TableResults, TableCall(c, r)
      PROVE  OpenHasHandle'
  BY <1>9 DEF TypeOK, OpenHasHandle, TableCall, Make
<1>10. ASSUME NEW c \in Conns, NEW s \in Stmts, Prepare(c, s)
       PROVE  OpenHasHandle'
  BY <1>10 DEF TypeOK, OpenHasHandle, Prepare, Make
<1>11. ASSUME NEW c \in Conns, NEW s \in Stmts, NEW r \in Results,
              ExecutePrepared(c, s, r)
       PROVE  OpenHasHandle'
  BY <1>11 DEF TypeOK, OpenHasHandle, ExecutePrepared
<1>12. ASSUME NEW r \in AllResults, CloseResult(r)
       PROVE  OpenHasHandle'
  BY <1>1, <1>12 DEF CloseResult
<1>13. ASSUME NEW r \in AllResults, FinishResult(r)
       PROVE  OpenHasHandle'
  BY <1>1, <1>13 DEF FinishResult
<1>14. ASSUME NEW s \in Stmts, CloseStatement(s)
       PROVE  OpenHasHandle'
  BY <1>1, <1>14 DEF CloseStatement, pyVars
<1>15. ASSUME NEW x \in Objects, Forget(x)
       PROVE  OpenHasHandle'
  BY <1>1, <1>15 DEF Forget
<1>16. ASSUME MarkClosed
       PROVE  OpenHasHandle'
  BY <1>16 DEF OpenHasHandle, MarkClosed, pyVars
<1>17. ASSUME CloseDatabase
       PROVE  OpenHasHandle'
  BY <1>1, <1>17 DEF CloseDatabase, pyVars
<1>18. ASSUME NEW r \in AllResults, BeginResult(r)
       PROVE  OpenHasHandle'
  BY <1>18 DEF OpenHasHandle, BeginResult
<1>19. CASE UNCHANGED vars
  BY <1>19 DEF vars, OpenHasHandle
<1> QED
  BY <1>2, <1>3, <1>4, <1>5, <1>6, <1>7, <1>8, <1>9, <1>10, <1>11, <1>12, <1>13, <1>14,
     <1>15, <1>16, <1>17, <1>18, <1>19 DEF Next, CloseTracked, UserClosesResult

-----------------------------------------------------------------------------
(* What a native object was made from outlives it.                         *)

LEMMA OutlivesUsersStep ==
    ASSUME TypeOK, OpenHasHandle, OutlivesUsers, [Next]_vars
    PROVE  OutlivesUsers'
<1> USE HandlesAssumption DEF Objects, Children, AllResults
<1>1. ASSUME NEW c \in Conns, Usable(c)
      PROVE  c \in live
  BY <1>1 DEF Usable, OpenHasHandle, TypeOK
<1>2. ASSUME NEW c \in Conns, Connect(c)
      PROVE  OutlivesUsers'
  <2>1. Db \in live
    BY <1>2 DEF Connect, IsClosed, OpenHasHandle, TypeOK
  <2> QED
    BY <1>2, <2>1 DEF TypeOK, OutlivesUsers, Connect, Make
<1>3. ASSUME NEW c \in Conns, StartClose(c)
      PROVE  OutlivesUsers'
  BY <1>3 DEF OutlivesUsers, StartClose
<1>4. ASSUME NEW c \in Conns, ClearCache(c)
      PROVE  OutlivesUsers'
  BY <1>4, SettleKeepsUses DEF ClearCache
<1>5. ASSUME NEW c \in Conns, CloseNative(c)
      PROVE  OutlivesUsers'
  BY <1>5, SettleKeepsUses DEF CloseNative
<1>6. ASSUME NEW c \in Conns, FinishClose(c)
      PROVE  OutlivesUsers'
  BY <1>6, SettleKeepsUses DEF FinishClose
<1>7. ASSUME NEW c \in Conns, NEW r \in Results, Execute(c, r)
      PROVE  OutlivesUsers'
  BY <1>1, <1>7 DEF TypeOK, OutlivesUsers, Execute, Make
<1>8. ASSUME NEW c \in Conns, NEW r \in Results, NEW next \in Results,
             ExecuteTwo(c, r, next)
      PROVE  OutlivesUsers'
  BY <1>1, <1>8 DEF TypeOK, OutlivesUsers, ExecuteTwo
<1>9. ASSUME NEW c \in Conns, NEW r \in TableResults, TableCall(c, r)
      PROVE  OutlivesUsers'
  BY <1>1, <1>9 DEF TypeOK, OutlivesUsers, TableCall, Make
<1>10. ASSUME NEW c \in Conns, NEW s \in Stmts, Prepare(c, s)
       PROVE  OutlivesUsers'
  BY <1>1, <1>10 DEF TypeOK, OutlivesUsers, Prepare, Make
<1>11. ASSUME NEW c \in Conns, NEW s \in Stmts, NEW r \in Results,
              ExecutePrepared(c, s, r)
       PROVE  OutlivesUsers'
  BY <1>1, <1>11 DEF TypeOK, OutlivesUsers, ExecutePrepared
<1>12. ASSUME NEW r \in AllResults, CloseResult(r)
       PROVE  OutlivesUsers'
  BY <1>12, SettleKeepsUses DEF CloseResult
<1>13. ASSUME NEW r \in AllResults, FinishResult(r)
       PROVE  OutlivesUsers'
  BY <1>13, SettleKeepsUses DEF FinishResult
<1>14. ASSUME NEW s \in Stmts, CloseStatement(s)
       PROVE  OutlivesUsers'
  BY <1>14, SettleKeepsUses DEF CloseStatement
<1>15. ASSUME NEW x \in Objects, Forget(x)
       PROVE  OutlivesUsers'
  BY <1>15, SettleKeepsUses DEF Forget
<1>16. ASSUME MarkClosed
       PROVE  OutlivesUsers'
  BY <1>16 DEF OutlivesUsers, MarkClosed
<1>17. ASSUME CloseDatabase
       PROVE  OutlivesUsers'
  BY <1>17, SettleKeepsUses DEF CloseDatabase
<1>18. ASSUME NEW r \in AllResults, BeginResult(r)
       PROVE  OutlivesUsers'
  BY <1>18 DEF OutlivesUsers, BeginResult
<1>19. CASE UNCHANGED vars
  BY <1>19 DEF vars, OutlivesUsers
<1> QED
  BY <1>2, <1>3, <1>4, <1>5, <1>6, <1>7, <1>8, <1>9, <1>10, <1>11, <1>12, <1>13, <1>14,
     <1>15, <1>16, <1>17, <1>18, <1>19 DEF Next, CloseTracked, UserClosesResult

-----------------------------------------------------------------------------
(* Reachability.                                                           *)

\* What is reachable, by way of the names above.
LEMMA ReachableParts ==
    /\ Reachable =
         HeldResults \cup HeldConns \cup (held \cap Stmts)
           \cup {s \in cache : uses[s] \cap HeldConns # {}}
           \cup {d \in {Db} : Db \in held \/ HeldConns # {} \/ database = "closing"}
    /\ Reachable' =
         HeldResults' \cup HeldConns' \cup (held' \cap Stmts)
           \cup {s \in cache' : uses'[s] \cap HeldConns' # {}}
           \cup {d \in {Db} : Db \in held' \/ HeldConns' # {} \/ database' = "closing"}
BY DEF Reachable, HeldResults, HeldConns

\* Who is reachable, kind by kind.
ReachableByKind ==
    /\ Reachable \subseteq Objects
    /\ \A r \in AllResults : r \in Reachable <=> r \in HeldResults
    /\ \A c \in Conns : c \in Reachable <=> c \in HeldConns
    /\ \A s \in Stmts : s \in Reachable <=>
          s \in held \/ (s \in cache /\ uses[s] \cap HeldConns # {})
    /\ Db \in Reachable <=> Db \in held \/ HeldConns # {} \/ database = "closing"

LEMMA ReachableKinds == TypeOK => ReachableByKind
<1> SUFFICES ASSUME TypeOK
             PROVE  ReachableByKind
  OBVIOUS
<1>1. HeldResults \subseteq AllResults /\ HeldConns \subseteq Conns /\ cache \subseteq Stmts
  <2>1. UNION {snapshot[c] : c \in Conns} \subseteq AllResults
    BY DEF TypeOK
  <2>2. leaving \subseteq AllResults /\ closing \subseteq AllResults /\ cache \subseteq Stmts
    BY DEF TypeOK
  <2> QED
    <3>1. HeldResults \subseteq AllResults
      BY <2>1, <2>2 DEF HeldResults
    <3>2. HeldConns \subseteq Conns
      BY DEF HeldConns
    <3> QED
      BY <2>2, <3>1, <3>2
<1>2. /\ \A r \in AllResults : r \notin Conns /\ r \notin Stmts /\ r # Db
      /\ \A c \in Conns : c \notin Stmts /\ c # Db
      /\ Db \notin Stmts
  BY HandlesAssumption DEF Children, AllResults, Objects
<1>3. Reachable \subseteq Objects
  BY <1>1, ReachableParts DEF Objects, Children, AllResults
<1>4. \A r \in AllResults : r \in Reachable <=> r \in HeldResults
  BY <1>1, <1>2, ReachableParts
<1>5. \A c \in Conns : c \in Reachable <=> c \in HeldConns
  BY <1>1, <1>2, ReachableParts
<1>6. \A s \in Stmts : s \in Reachable <=>
          s \in held \/ (s \in cache /\ uses[s] \cap HeldConns # {})
  <2> SUFFICES ASSUME NEW s \in Stmts
               PROVE  s \in Reachable <=>
                        s \in held \/ (s \in cache /\ uses[s] \cap HeldConns # {})
    OBVIOUS
  <2>1. s \notin HeldResults /\ s \notin HeldConns /\ s # Db
    BY <1>1, <1>2
  <2> QED
    BY <2>1, ReachableParts
<1>7. Db \in Reachable <=> Db \in held \/ HeldConns # {} \/ database = "closing"
  BY <1>1, <1>2, ReachableParts
<1> QED
  BY <1>3, <1>4, <1>5, <1>6, <1>7 DEF ReachableByKind

LEMMA ReachableKindsNext == TypeOK' => ReachableByKind'
BY ReachableKinds, PTL

LEMMA HeldResultsIs ==
    /\ \A r : r \in HeldResults <=>
          \/ r \in leaving \/ r \in closing
          \/ \E c \in Conns : r \in snapshot[c]
          \/ r \in held /\ r \in AllResults
    /\ \A r : r \in HeldResults' <=>
          \/ r \in leaving' \/ r \in closing'
          \/ \E c \in Conns : r \in snapshot'[c]
          \/ r \in held' /\ r \in AllResults
BY DEF HeldResults

LEMMA HeldConnsIs ==
    /\ \A c \in Conns : c \in HeldConns <=>
          \/ c \in held \/ Closing(c)
          \/ \E r \in HeldResults : owner[r] = c
          \/ \E s \in Stmts : s \in held /\ c \in uses[s]
    /\ \A c \in Conns : c \in HeldConns' <=>
          \/ c \in held' \/ Closing(c)'
          \/ \E r \in HeldResults' : owner'[r] = c
          \/ \E s \in Stmts : s \in held' /\ c \in uses'[s]
    /\ HeldConns \subseteq Conns
    /\ HeldConns' \subseteq Conns
BY DEF HeldConns

\* The kinds of objects are different.
LEMMA KindsDiffer ==
    /\ NULL \notin Objects
    /\ Db \notin Conns /\ Db \notin Children
    /\ \A c \in Conns : c \notin Children
    /\ \A r \in AllResults : r \notin Stmts
    /\ \A r \in Results : r \notin TableResults
    /\ AllResults \subseteq Children /\ Stmts \subseteq Children
    /\ Results \subseteq AllResults /\ TableResults \subseteq AllResults
    /\ Children \subseteq Objects /\ Conns \subseteq Objects /\ Db \in Objects
    /\ \A x \in Children : x \in Results \/ x \in TableResults \/ x \in Stmts
    /\ \A x \in Children : x \in AllResults \/ x \in Stmts
    /\ \A x \in Objects : x = Db \/ x \in Conns \/ x \in Children
    /\ \A r \in AllResults : r \in Results \/ r \in TableResults
BY HandlesAssumption DEF Objects, Children, AllResults

-----------------------------------------------------------------------------
(* What the actions have in common.                                        *)

\* A call on connection c makes some objects from it; the statements in kept go to the
\* cache, the others to the caller.
Calls(c, new, kept) ==
    /\ Usable(c)
    /\ new \subseteq Children /\ kept \subseteq Stmts /\ kept \subseteq new
    /\ \A x \in new : Fresh(x) /\ c \in uses'[x]
    /\ \A x \in new : \A p \in uses'[x] : p # c =>
         backend = "pybind" /\ x \in Results /\ p \in Results /\ p \in new /\ uses'[p] = {c}
    /\ \A x \in Objects : x \notin new => uses'[x] = uses[x]
    /\ held' = held \cup (new \ kept)
    /\ handles' = handles \cup new
    /\ live' = live \cup new
    /\ cache' = cache \cup kept
    /\ tracked' = tracked \cup (new \cap Results)
    /\ \A r \in AllResults : owner'[r] = IF r \in new THEN c ELSE owner[r]
    /\ UNCHANGED <<backend, database, conn, snapshot, leaving, closing, closed>>

LEMMA ExecuteCalls ==
    ASSUME TypeOK, NEW c \in Conns, NEW r \in Results, Execute(c, r)
    PROVE  Calls(c, {r}, {})
BY KindsDiffer DEF Execute, Make, Calls, TypeOK

LEMMA ExecuteTwoCalls ==
    ASSUME TypeOK, NEW c \in Conns, NEW r \in Results, NEW next \in Results,
           ExecuteTwo(c, r, next)
    PROVE  Calls(c, {r, next}, {})
BY KindsDiffer DEF ExecuteTwo, Calls, TypeOK

LEMMA TableCallCalls ==
    ASSUME TypeOK, NEW c \in Conns, NEW r \in TableResults, TableCall(c, r)
    PROVE  Calls(c, {r}, {})
BY KindsDiffer DEF TableCall, Make, Calls, TypeOK

LEMMA PrepareCalls ==
    ASSUME TypeOK, NEW c \in Conns, NEW s \in Stmts, Prepare(c, s)
    PROVE  Calls(c, {s}, {})
BY KindsDiffer DEF Prepare, Make, Calls, TypeOK

LEMMA ExecutePreparedCalls ==
    ASSUME TypeOK, NEW c \in Conns, NEW s \in Stmts, NEW r \in Results,
           ExecutePrepared(c, s, r)
    PROVE  Calls(c, {s, r}, {s})
BY KindsDiffer DEF ExecutePrepared, Calls, TypeOK

-----------------------------------------------------------------------------
(* A call keeps the invariant.                                             *)

\* What a call makes is reachable, and what was stays so; it gives no one a connection
\* who had none.
LEMMA CallsReach ==
    ASSUME IInv, TypeOK', NEW c \in Conns, NEW new, NEW kept, Calls(c, new, kept)
    PROVE  /\ \A r \in AllResults : r \in Reachable' <=> r \in Reachable \/ r \in new
           /\ \A d \in Conns : d \in Reachable' <=> d \in Reachable
           /\ \A s \in Stmts : s \in Reachable \/ s \in new => s \in Reachable'
           /\ Db \in Reachable => Db \in Reachable'
<1>1. ReachableByKind /\ ReachableByKind'
  BY ReachableKinds, ReachableKindsNext DEF IInv
<1>2. /\ c \in held /\ leaving' = leaving /\ closing' = closing /\ snapshot' = snapshot
      /\ conn' = conn
      /\ database' = database
      /\ \A x : x \in held' <=> x \in held \/ (x \in new /\ x \notin kept)
      /\ \A x : x \in cache' <=> x \in cache \/ x \in kept
      /\ \A r \in AllResults : owner'[r] = IF r \in new THEN c ELSE owner[r]
      /\ new \subseteq Children /\ kept \subseteq Stmts
      /\ \A x \in new : Fresh(x) /\ c \in uses'[x]
      /\ \A x \in Children : x \notin new => uses'[x] = uses[x]
  BY KindsDiffer DEF Calls, Usable
<1>3. \A r \in AllResults : r \in HeldResults' <=> r \in HeldResults \/ r \in new
  BY <1>2, HeldResultsIs, KindsDiffer
<1>4. HeldResults \subseteq AllResults /\ HeldResults' \subseteq AllResults
  BY HeldResultsIs DEF IInv, TypeOK
<1>5. \A r \in HeldResults : r \notin new
  BY <1>2, <1>4, HeldResultsIs, KindsDiffer DEF IInv, UnmadeIsNowhere
<1>6. \A s \in Stmts : s \in held \/ s \in cache => s \notin new
  BY <1>2, KindsDiffer DEF IInv, UnmadeIsNowhere
<1>7. \A d \in Conns : d \in HeldConns => d \in HeldConns'
  BY <1>2, <1>3, <1>4, <1>5, <1>6, HeldConnsIs, KindsDiffer DEF Closing
<1>8. \A d \in Conns : d \in HeldConns' => d \in HeldConns
  <2> SUFFICES ASSUME NEW d \in Conns, d \in HeldConns'
               PROVE  d \in HeldConns
    OBVIOUS
  <2>1. CASE d = c
    BY <1>2, <2>1, HeldConnsIs
  <2>2. CASE d # c /\ (d \in held' \/ Closing(d)')
    BY <1>2, <2>2, HeldConnsIs, KindsDiffer DEF Closing
  <2>3. CASE d # c /\ \E r \in HeldResults' : owner'[r] = d
    BY <1>2, <1>3, <1>4, <2>3, HeldConnsIs
  <2>4. CASE d # c /\ \E s \in Stmts : s \in held' /\ d \in uses'[s]
    <3>1. PICK s \in Stmts : s \in held' /\ d \in uses'[s]
      BY <2>4
    <3>2. s \notin new
      BY <2>4, <3>1, KindsDiffer DEF Calls
    <3> QED
      BY <1>2, <3>1, <3>2, HeldConnsIs, KindsDiffer
  <2> QED
    BY <2>1, <2>2, <2>3, <2>4, HeldConnsIs
<1>9. c \in HeldConns'
  BY <1>2, <1>7, HeldConnsIs
<1>10. \A r \in AllResults : r \in Reachable' <=> r \in Reachable \/ r \in new
  BY <1>1, <1>3 DEF ReachableByKind
<1>11. \A d \in Conns : d \in Reachable' <=> d \in Reachable
  BY <1>1, <1>7, <1>8 DEF ReachableByKind
<1>12. ASSUME NEW s \in Stmts, s \in Reachable \/ s \in new
       PROVE  s \in Reachable'
  <2>1. CASE s \in new
    BY <1>1, <1>2, <1>9, <2>1 DEF ReachableByKind
  <2>2. CASE s \notin new
    <3>1. s \in held \/ (s \in cache /\ uses[s] \cap HeldConns # {})
      BY <1>1, <1>12, <2>2 DEF ReachableByKind
    <3>2. uses'[s] = uses[s]
      BY <1>2, <2>2, KindsDiffer
    <3>3. s \in held' \/ (s \in cache' /\ uses'[s] \cap HeldConns' # {})
      BY <1>2, <1>7, <2>2, <3>1, <3>2, HeldConnsIs
    <3> QED
      BY <1>1, <3>3 DEF ReachableByKind
  <2> QED
    BY <2>1, <2>2
<1>13. Db \in Reachable => Db \in Reachable'
  BY <1>1, <1>2, <1>7, <1>9, KindsDiffer DEF ReachableByKind
<1> QED
  BY <1>10, <1>11, <1>12, <1>13

\* A call leaves every part of the invariant.
LEMMA CallsKeep ==
    ASSUME IInv, TypeOK', NEW c \in Conns, NEW new, NEW kept, Calls(c, new, kept)
    PROVE  /\ UnmadeIsNowhere'
           /\ MadeInOrder'
           /\ HandlesAreReachable'
           /\ LiveForAReason'
           /\ OnlyCloseTakesHandle'
           /\ BooksAreKept'
           /\ ResultsAreListed'
<1>1. /\ c \in held /\ conn[c] = "open" /\ database = "open"
      /\ leaving' = leaving /\ closing' = closing /\ closed' = closed
      /\ snapshot' = snapshot /\ conn' = conn
      /\ database' = database /\ backend' = backend
      /\ \A x : x \in held' <=> x \in held \/ (x \in new /\ x \notin kept)
      /\ \A x : x \in handles' <=> x \in handles \/ x \in new
      /\ \A x : x \in live' <=> x \in live \/ x \in new
      /\ \A x : x \in cache' <=> x \in cache \/ x \in kept
      /\ \A x : x \in tracked' <=> x \in tracked \/ (x \in new /\ x \in Results)
      /\ \A r \in AllResults : owner'[r] = IF r \in new THEN c ELSE owner[r]
      /\ \A x \in new : x \in Children
      /\ \A x \in kept : x \in Stmts /\ x \in new
  BY DEF Calls, Usable, IsClosed
<1>2. /\ \A x \in new : uses[x] = {} /\ c \in uses'[x]
      /\ \A x \in new : \A p \in uses'[x] : p # c =>
           backend = "pybind" /\ x \in Results /\ p \in Results /\ p \in new /\ uses'[p] = {c}
      /\ \A x \in Objects : x \notin new => uses'[x] = uses[x]
  BY DEF Calls, Fresh
<1>3. \A x \in new :
        /\ x \notin held \cup live \cup tracked \cup leaving \cup closing \cup closed
                   \cup cache
        /\ \A d \in Conns : x \notin snapshot[d]
        /\ x \in AllResults => owner[x] = NULL
  BY <1>1, <1>2 DEF IInv, UnmadeIsNowhere, Fresh
<1>4. \A y \in Conns \cup {Db} : y \notin new /\ uses'[y] = uses[y]
  BY <1>1, <1>2, KindsDiffer
<1>5. UnmadeIsNowhere'
  <2>1. ASSUME NEW x \in Children, uses'[x] = {}
        PROVE  /\ x \notin held' \cup live' \cup tracked' \cup leaving' \cup closing' \cup closed'
                        \cup cache'
               /\ \A d \in Conns : x \notin snapshot'[d]
               /\ x \in AllResults => owner'[x] = NULL
    <3>1. x \notin new
      BY <1>2, <2>1
    <3>2. uses[x] = {}
      BY <1>2, <2>1, <3>1, KindsDiffer
    <3> QED
      BY <1>1, <3>1, <3>2 DEF IInv, UnmadeIsNowhere, Fresh
  <2>2. ASSUME NEW d \in Conns, conn'[d] = "none"
        PROVE  d \notin held' \cup live' /\ uses'[d] = {}
    BY <1>1, <1>4, <2>2 DEF IInv, UnmadeIsNowhere, Fresh
  <2> QED
    BY <2>1, <2>2, KindsDiffer DEF UnmadeIsNowhere, Fresh
<1>6. MadeInOrder'
  <2>1. uses'[Db] = {} /\ \A d \in Conns : uses'[d] \subseteq {Db}
    BY <1>4 DEF IInv, MadeInOrder
  <2>2. ASSUME NEW s \in Stmts \cup TableResults
        PROVE  uses'[s] \subseteq Conns
    <3>1. s \notin Results /\ s \in Objects
      BY KindsDiffer
    <3> QED
      BY <1>2, <3>1 DEF IInv, MadeInOrder
  <2>3. ASSUME NEW r \in Results
        PROVE  uses'[r] \subseteq Conns \cup Results
    BY <1>2, KindsDiffer DEF IInv, MadeInOrder
  <2>4. ASSUME NEW r \in Results, NEW p \in Results, p \in uses'[r]
        PROVE  backend' = "pybind" /\ uses'[p] \subseteq Conns /\ uses'[p] # {}
    <3>1. CASE r \in new
      <4>1. p # c
        BY KindsDiffer
      <4> QED
        BY <1>1, <1>2, <2>4, <3>1, <4>1
    <3>2. CASE r \notin new
      <4>1. p \in uses[r]
        BY <1>2, <2>4, <3>2, KindsDiffer
      <4>2. backend = "pybind" /\ uses[p] \subseteq Conns /\ uses[p] # {}
        BY <4>1 DEF IInv, MadeInOrder, Fresh
      <4> QED
        BY <1>1, <1>2, <4>2, KindsDiffer
    <3> QED
      BY <3>1, <3>2
  <2> QED
    BY <2>1, <2>2, <2>3, <2>4 DEF MadeInOrder, Fresh
<1>7. HandlesAreReachable'
  <2> SUFFICES ASSUME NEW x \in handles'
               PROVE  x \in Reachable'
    BY DEF HandlesAreReachable
  <2>1. x \in Objects /\ (x \in new \/ x \in Reachable)
    BY <1>1, KindsDiffer DEF IInv, TypeOK, HandlesAreReachable
  <2> QED
    BY <1>1, <2>1, CallsReach, KindsDiffer
<1>8. LiveForAReason'
  <2>1. ASSUME backend = "pybind", NEW x \in live'
        PROVE  x \in handles' \/ \E y \in live' : x \in uses'[y]
    <3>1. CASE x \in handles'
      BY <3>1
    <3>2. CASE x \notin handles'
      <4>1. PICK y \in live : x \in uses[y]
        BY <1>1, <2>1, <3>2 DEF IInv, LiveForAReason
      <4>2. y \in Objects /\ y \notin new
        BY <1>2, <4>1 DEF IInv, TypeOK
      <4> QED
        BY <1>1, <1>2, <4>1, <4>2
    <3> QED
      BY <3>1, <3>2
  <2>2. ASSUME backend = "capi", NEW x \in live', x \in Children
        PROVE  x \in handles'
    BY <1>1, <2>2 DEF IInv, LiveForAReason
  <2> QED
    BY <1>1, <2>1, <2>2 DEF LiveForAReason
<1>9. OnlyCloseTakesHandle'
  <2>1. ASSUME NEW d \in Conns, d \in Reachable', conn'[d] = "open"
        PROVE  d \in handles'
    BY <1>1, <2>1, CallsReach DEF IInv, OnlyCloseTakesHandle
  <2>2. ASSUME NEW r \in AllResults, r \in Reachable', r \notin closing' \cup closed',
               owner'[r] # NULL
        PROVE  r \in handles'
    BY <1>1, <2>2, CallsReach DEF IInv, OnlyCloseTakesHandle
  <2> QED
    BY <1>1, <2>1, <2>2 DEF OnlyCloseTakesHandle
<1>10. BooksAreKept'
  <2>1. tracked' \subseteq handles' \ (leaving' \cup closing' \cup closed')
    BY <1>1, <1>3 DEF IInv, BooksAreKept
  <2>2. ASSUME NEW r \in AllResults, owner'[r] \in Conns
        PROVE  uses'[r] \cap Conns = {owner'[r]}
    <3>1. CASE r \in new
      <4>1. owner'[r] = c /\ c \in uses'[r]
        BY <1>1, <1>2, <3>1
      <4>2. \A p \in uses'[r] : p # c => p \notin Conns
        BY <1>2, <3>1, KindsDiffer
      <4> QED
        BY <4>1, <4>2
    <3>2. CASE r \notin new
      BY <1>1, <1>2, <2>2, <3>2, KindsDiffer DEF IInv, BooksAreKept
    <3> QED
      BY <3>1, <3>2
  <2>3. ASSUME NEW r \in tracked'
        PROVE  owner'[r] \in Conns
    BY <1>1, KindsDiffer DEF IInv, BooksAreKept, TypeOK
  <2>4. ASSUME NEW d \in Conns, conn'[d] # "results"
        PROVE  snapshot'[d] = {}
    BY <1>1, <2>4 DEF IInv, BooksAreKept
  <2>5. ASSUME NEW s \in cache', NEW d \in Conns, d \in uses'[s]
        PROVE  conn'[d] \in {"open", "results"}
    <3>1. s \in Stmts
      BY <1>1 DEF IInv, TypeOK
    <3>2. CASE s \in new
      <4>1. d = c
        BY <1>2, <2>5, <3>1, <3>2, KindsDiffer
      <4> QED
        BY <1>1, <4>1
    <3>3. CASE s \notin new
      BY <1>1, <1>2, <2>5, <3>1, <3>3, KindsDiffer DEF IInv, BooksAreKept
    <3> QED
      BY <3>2, <3>3
  <2> QED
    BY <2>1, <2>2, <2>3, <2>4, <2>5 DEF BooksAreKept
<1>11. ResultsAreListed'
  <2> SUFFICES ASSUME backend = "capi"
               PROVE  /\ live' \cap Results \cap (closing' \cup closed') = {}
                      /\ \A r \in live' \cap (Results \ leaving'), d \in Conns : d \in uses'[r] =>
                           /\ conn'[d] \in {"open", "results"}
                           /\ conn'[d] = "open" => r \in tracked' /\ owner'[r] = d
                           /\ conn'[d] = "results" => r \in snapshot'[d]
                      /\ \A d \in Conns : d \in live' \/ conn'[d] \in {"none", "drop", "closed"}
    BY <1>1 DEF ResultsAreListed
  <2>1. live' \cap Results \cap (closing' \cup closed') = {}
    BY <1>1, <1>3 DEF IInv, ResultsAreListed
  <2>2. ASSUME NEW r \in live', r \in Results, r \notin leaving', NEW d \in Conns,
               d \in uses'[r]
        PROVE  /\ conn'[d] \in {"open", "results"}
               /\ conn'[d] = "open" => r \in tracked' /\ owner'[r] = d
               /\ conn'[d] = "results" => r \in snapshot'[d]
    <3>1. CASE r \in new
      <4>1. d = c
        BY <1>2, <2>2, <3>1
      <4> QED
        BY <1>1, <2>2, <3>1, <4>1, KindsDiffer
    <3>2. CASE r \notin new
      BY <1>1, <1>2, <2>2, <3>2, KindsDiffer DEF IInv, ResultsAreListed
    <3> QED
      BY <3>1, <3>2
  <2>3. ASSUME NEW d \in Conns
        PROVE  d \in live' \/ conn'[d] \in {"none", "drop", "closed"}
    BY <1>1 DEF IInv, ResultsAreListed
  <2> QED
    BY <2>1, <2>2, <2>3
<1> QED
  BY <1>5, <1>6, <1>7, <1>8, <1>9, <1>10, <1>11

-----------------------------------------------------------------------------
(* What lets go of something keeps the invariant.                          *)

\* Closing and forgetting: nothing is made or becomes reachable; a native object goes by
\* the close() of its owner only.
LetsGo(dropped, destroyed) ==
    /\ Settle(dropped, destroyed)
    /\ UNCHANGED <<backend, uses>>
    /\ held' \subseteq held /\ cache' \subseteq cache
    /\ \A x \in HeldResults' : x \in HeldResults
    /\ \A x \in destroyed : x \in dropped
    /\ \A x \in dropped : x \in Children => x \in destroyed
    /\ \/ database' = database
       \/ database = "closing" /\ database' = "closed" /\ Db \in destroyed
    /\ Db \in dropped => database' = "closed"
    /\ \A c \in Conns :
         /\ \/ conn'[c] = conn[c]
            \/ /\ conn[c] = "results" /\ conn'[c] = "native"
               /\ \A r \in snapshot[c] : r \in closed
               /\ \A s \in cache' : c \notin uses[s]
            \/ conn[c] = "native" /\ conn'[c] = "drop"
            \/ conn[c] = "drop" /\ conn'[c] = "closed"
         /\ c \in dropped => conn'[c] \in {"drop", "closed"}
         /\ snapshot'[c] = IF conn[c] = "results" /\ conn'[c] = "native"
                           THEN {} ELSE snapshot[c]
    /\ \A r \in AllResults :
         /\ r \in closing \cup closed => r \in closing' \cup closed'
         /\ r \in closing' \cup closed' =>
              \/ r \in closing \cup closed
              \/ r \in HeldResults /\ (database = "open" => r \in destroyed)
         /\ r \in leaving => r \in leaving' \cup closing'
         /\ r \in dropped => r \in closing'
         /\ owner'[r] = owner[r] \/ (owner'[r] = NULL /\ r \in closing')
                                 \/ (owner'[r] = NULL /\ r \in closed')
    /\ \A r \in tracked' : /\ r \in tracked /\ r \in Reachable'
                          /\ r \notin leaving' \cup closing' \cup closed'
    /\ \A r \in tracked : \/ r \in tracked' \/ r \in leaving'
                          \/ database # "open"
                          \/ conn'[owner[r]] = "native"

\* With pybind what is kept is kept for a handle or for something that is kept.
LEMMA KeptReasons ==
    ASSUME NEW h, NEW n, NEW x \in Kept(h, n)
    PROVE  x \in h \/ \E y \in Kept(h, n) : x \in uses'[y]
<1>1. PICK s \in SUBSET n :
          x \in s /\ \A z \in s : z \in h \/ \E y \in s : z \in uses'[y]
  BY DEF Kept
<1>2. \A y \in s : y \in Kept(h, n)
  BY <1>1 DEF Kept
<1> QED
  BY <1>1, <1>2

\* Letting go makes nothing reachable.
LEMMA NothingReappears ==
    ASSUME IInv, TypeOK', NEW dropped, NEW destroyed, LetsGo(dropped, destroyed)
    PROVE  \A x \in Reachable' : x \in Reachable
<1>1. ReachableByKind /\ ReachableByKind'
  BY ReachableKinds, ReachableKindsNext DEF IInv
<1>2. /\ uses' = uses
      /\ \A x : x \in held' => x \in held
      /\ \A x : x \in cache' => x \in cache
      /\ \A x \in HeldResults' : x \in HeldResults
      /\ database' = "closing" => database = "closing"
      /\ \A c \in Conns : conn'[c] \in {"results", "native", "drop"} =>
           conn[c] \in {"results", "native", "drop"}
      /\ \A r \in AllResults : owner'[r] = owner[r] \/ owner'[r] = NULL
  BY DEF LetsGo
<1>3. HeldResults' \subseteq AllResults
  BY HeldResultsIs DEF TypeOK
<1>4. ASSUME NEW c \in HeldConns'
      PROVE  c \in HeldConns
  <2>1. c \in Conns /\ c # NULL
    BY HeldConnsIs, KindsDiffer
  <2>2. CASE c \in held' \/ Closing(c)'
    BY <1>2, <2>1, <2>2, HeldConnsIs DEF Closing
  <2>3. CASE \E r \in HeldResults' : owner'[r] = c
    BY <1>2, <1>3, <2>1, <2>3, HeldConnsIs
  <2>4. CASE \E s \in Stmts : s \in held' /\ c \in uses'[s]
    BY <1>2, <2>1, <2>4, HeldConnsIs
  <2> QED
    BY <2>1, <2>2, <2>3, <2>4, HeldConnsIs
<1>5. ASSUME NEW r \in AllResults, r \in Reachable'
      PROVE  r \in Reachable
  BY <1>1, <1>2, <1>5 DEF ReachableByKind
<1>6. ASSUME NEW c \in Conns, c \in Reachable'
      PROVE  c \in Reachable
  BY <1>1, <1>4, <1>6 DEF ReachableByKind
<1>7. ASSUME NEW s \in Stmts, s \in Reachable'
      PROVE  s \in Reachable
  <2>1. s \in held' \/ (s \in cache' /\ uses'[s] \cap HeldConns' # {})
    BY <1>1, <1>7 DEF ReachableByKind
  <2>2. s \in held \/ (s \in cache /\ uses[s] \cap HeldConns # {})
    BY <1>2, <1>4, <2>1
  <2> QED
    BY <1>1, <2>2 DEF ReachableByKind
<1>8. Db \in Reachable' => Db \in Reachable
  <2>1. Db \in Reachable' => Db \in held' \/ HeldConns' # {} \/ database' = "closing"
    BY <1>1 DEF ReachableByKind
  <2>2. Db \in held \/ HeldConns # {} \/ database = "closing" => Db \in Reachable
    BY <1>1 DEF ReachableByKind
  <2> QED
    BY <1>2, <1>4, <2>1, <2>2
<1>9. \A x \in Reachable' : x \in Objects
  BY <1>1 DEF ReachableByKind
<1> QED
  BY <1>5, <1>6, <1>7, <1>8, <1>9, KindsDiffer

\* What Settle() leaves of handles and native objects.
LEMMA SettleLeaves ==
    ASSUME IInv, NEW dropped, NEW destroyed, LetsGo(dropped, destroyed)
    PROVE  /\ \A x : x \in handles' <=> x \in handles /\ x \notin dropped /\ x \in Reachable'
           /\ \A x : x \in live' => x \in live
           /\ backend = "pybind" => live' = Kept(handles', live)
           /\ backend # "pybind" =>
                \A x : x \in live' <=>
                  /\ x \in live /\ x \notin destroyed
                  /\ ~(x \in handles /\ x \notin Reachable' /\ x \in Children)
<1>1. Settle(dropped, destroyed)
  BY DEF LetsGo
<1>2. \A x : x \in handles' <=> x \in handles /\ x \notin dropped /\ x \in Reachable'
  BY <1>1 DEF Settle
<1>3. backend = "pybind" => live' = Kept(handles', live)
  BY <1>1 DEF Settle
<1>4. backend # "pybind" =>
        \A x : x \in live' <=>
          /\ x \in live /\ x \notin destroyed
          /\ ~(x \in handles /\ x \notin Reachable' /\ x \in Children)
  BY <1>1 DEF Settle
<1>5. \A x : x \in live' => x \in live
  BY <1>3, <1>4, KeptBounds
<1> QED
  BY <1>2, <1>3, <1>4, <1>5

\* Letting go leaves every part of the invariant.
LEMMA LetsGoKeeps ==
    ASSUME IInv, TypeOK', NEW dropped, NEW destroyed, LetsGo(dropped, destroyed)
    PROVE  /\ UnmadeIsNowhere'
           /\ MadeInOrder'
           /\ HandlesAreReachable'
           /\ LiveForAReason'
           /\ OnlyCloseTakesHandle'
           /\ BooksAreKept'
           /\ ResultsAreListed'
<1>1. /\ uses' = uses /\ backend' = backend
      /\ \A x : x \in held' => x \in held
      /\ \A x : x \in cache' => x \in cache
      /\ \A x \in HeldResults' : x \in HeldResults
      /\ \A x \in destroyed : x \in dropped
      /\ \A x \in dropped : x \in Children => x \in destroyed
      /\ \/ database' = database
         \/ database = "closing" /\ database' = "closed" /\ Db \in destroyed
      /\ Db \in dropped => database' = "closed"
  BY DEF LetsGo
<1>2. \A c \in Conns :
         /\ \/ conn'[c] = conn[c]
            \/ /\ conn[c] = "results" /\ conn'[c] = "native"
               /\ \A r \in snapshot[c] : r \in closed
               /\ \A s \in cache' : c \notin uses[s]
            \/ conn[c] = "native" /\ conn'[c] = "drop"
            \/ conn[c] = "drop" /\ conn'[c] = "closed"
         /\ c \in dropped => conn'[c] \in {"drop", "closed"}
         /\ snapshot'[c] = IF conn[c] = "results" /\ conn'[c] = "native"
                           THEN {} ELSE snapshot[c]
  BY DEF LetsGo
<1>3. \A r \in AllResults :
         /\ r \in closing \cup closed => r \in closing' \cup closed'
         /\ r \in closing' \cup closed' =>
              \/ r \in closing \cup closed
              \/ r \in HeldResults /\ (database = "open" => r \in destroyed)
         /\ r \in leaving => r \in leaving' \cup closing'
         /\ r \in dropped => r \in closing'
         /\ owner'[r] = owner[r] \/ (owner'[r] = NULL /\ r \in closing')
                                 \/ (owner'[r] = NULL /\ r \in closed')
  BY DEF LetsGo
<1>4. /\ \A r \in tracked' : /\ r \in tracked /\ r \in Reachable'
                            /\ r \notin leaving' \cup closing' \cup closed'
      /\ \A r \in tracked : \/ r \in tracked' \/ r \in leaving'
                            \/ database # "open"
                            \/ conn'[owner[r]] = "native"
  BY DEF LetsGo
<1>5. /\ \A x : x \in handles' <=> x \in handles /\ x \notin dropped /\ x \in Reachable'
      /\ \A x : x \in live' => x \in live
      /\ backend = "pybind" => live' = Kept(handles', live)
      /\ backend # "pybind" =>
           \A x : x \in live' <=>
             /\ x \in live /\ x \notin destroyed
             /\ ~(x \in handles /\ x \notin Reachable' /\ x \in Children)
  BY SettleLeaves
<1>6. \A x \in Reachable' : x \in Reachable
  BY NothingReappears
<1>7. UnmadeIsNowhere'
  <2>1. ASSUME NEW x \in Children, Fresh(x)
        PROVE  /\ x \notin held' \cup live' \cup tracked' \cup leaving' \cup closing' \cup closed'
                        \cup cache'
               /\ \A c \in Conns : x \notin snapshot'[c]
               /\ x \in AllResults => owner'[x] = NULL
    <3>1. /\ x \notin held \cup live \cup tracked \cup leaving \cup closing \cup closed
                   \cup cache
          /\ \A c \in Conns : x \notin snapshot[c]
          /\ x \in AllResults => owner[x] = NULL
      BY <2>1 DEF IInv, UnmadeIsNowhere
    <3>2. x \notin HeldResults
      BY <3>1, HeldResultsIs
    <3>3. x \notin leaving' \cup closing' \cup closed'
      <4>1. CASE x \in AllResults
        BY <1>1, <1>3, <3>1, <3>2, <4>1, HeldResultsIs
      <4>2. CASE x \notin AllResults
        BY <4>2 DEF TypeOK
      <4> QED
        BY <4>1, <4>2
    <3> QED
      BY <1>1, <1>2, <1>3, <1>4, <1>5, <3>1, <3>3
  <2>2. ASSUME NEW c \in Conns, conn'[c] = "none"
        PROVE  c \notin held' \cup live' /\ Fresh(c)
    BY <1>1, <1>2, <1>5, <2>2 DEF IInv, UnmadeIsNowhere
  <2> QED
    BY <1>1, <2>1, <2>2, KindsDiffer DEF UnmadeIsNowhere, Fresh
<1>8. MadeInOrder'
  BY <1>1 DEF IInv, MadeInOrder, Fresh
<1>9. HandlesAreReachable'
  BY <1>5 DEF HandlesAreReachable
<1>10. LiveForAReason'
  <2>1. ASSUME backend = "pybind", NEW x \in live'
        PROVE  x \in handles' \/ \E y \in live' : x \in uses'[y]
    BY <1>5, <2>1, KeptReasons
  <2>2. ASSUME backend = "capi", NEW x \in live', x \in Children
        PROVE  x \in handles'
    BY <1>1, <1>5, <2>2 DEF IInv, LiveForAReason
  <2> QED
    BY <1>1, <2>1, <2>2 DEF LiveForAReason
<1>11. OnlyCloseTakesHandle'
  <2>1. ASSUME NEW c \in Conns, c \in Reachable', conn'[c] = "open"
        PROVE  c \in handles'
    <3>1. conn[c] = "open" /\ c \notin dropped
      BY <1>2, <2>1
    <3> QED
      BY <1>5, <1>6, <2>1, <3>1 DEF IInv, OnlyCloseTakesHandle
  <2>2. ASSUME NEW r \in AllResults, r \in Reachable', r \notin closing' \cup closed',
               owner'[r] # NULL
        PROVE  r \in handles'
    <3>1. r \notin closing \cup closed /\ owner[r] # NULL /\ r \notin dropped
      BY <1>3, <2>2
    <3> QED
      BY <1>5, <1>6, <2>2, <3>1 DEF IInv, OnlyCloseTakesHandle
  <2>3. ASSUME database' = "closed"
        PROVE  Db \notin handles' /\ (backend' = "capi" => Db \notin live')
    <3>1. CASE database = "closed"
      BY <1>1, <1>5, <3>1 DEF IInv, OnlyCloseTakesHandle
    <3>2. CASE database # "closed"
      BY <1>1, <1>5, <2>3, <3>2
    <3> QED
      BY <3>1, <3>2
  <2> QED
    BY <2>1, <2>2, <2>3 DEF OnlyCloseTakesHandle
<1>12. BooksAreKept'
  <2>1. ASSUME NEW r \in tracked'
        PROVE  r \in AllResults /\ r \in handles' /\ r \notin leaving' \cup closing' \cup closed'
                 /\ owner'[r] \in Conns
    <3>1. r \in tracked /\ r \in Reachable' /\ r \notin leaving' \cup closing' \cup closed'
      BY <1>4
    <3>2. r \in AllResults /\ r \in handles /\ owner[r] \in Conns
      BY <3>1 DEF IInv, BooksAreKept, TypeOK
    <3> QED
      BY <1>3, <1>5, <3>1, <3>2
  <2>2. ASSUME NEW r \in AllResults, owner'[r] \in Conns
        PROVE  uses'[r] \cap Conns = {owner'[r]}
    <3>1. owner'[r] = owner[r]
      BY <1>3, <2>2, KindsDiffer
    <3> QED
      BY <1>1, <2>2, <3>1 DEF IInv, BooksAreKept
  <2>3. ASSUME NEW c \in Conns, conn'[c] # "results"
        PROVE  snapshot'[c] = {}
    BY <1>2, <2>3 DEF IInv, BooksAreKept
  <2>4. ASSUME NEW s \in cache', NEW c \in Conns, c \in uses'[s]
        PROVE  conn'[c] \in {"open", "results"}
    <3>1. conn[c] \in {"open", "results"}
      BY <1>1, <2>4 DEF IInv, BooksAreKept
    <3> QED
      BY <1>1, <1>2, <2>4, <3>1
  <2> QED
    BY <2>1, <2>2, <2>3, <2>4 DEF BooksAreKept
<1>13. ResultsAreListed'
  <2> SUFFICES ASSUME backend = "capi", database' = "open"
               PROVE  /\ live' \cap Results \cap (closing' \cup closed') = {}
                      /\ \A r \in live' \cap (Results \ leaving'), d \in Conns : d \in uses'[r] =>
                           /\ conn'[d] \in {"open", "results"}
                           /\ conn'[d] = "open" => r \in tracked' /\ owner'[r] = d
                           /\ conn'[d] = "results" => r \in snapshot'[d]
                      /\ \A d \in Conns : d \in live' \/ conn'[d] \in {"none", "drop", "closed"}
    BY <1>1 DEF ResultsAreListed
  <2>1. database = "open"
    BY <1>1
  <2>2. ASSUME NEW r \in live', r \in Results
        PROVE  r \notin closing' \cup closed' /\ r \notin closing \cup closed
    BY <1>3, <1>5, <2>1, <2>2, KindsDiffer DEF IInv, ResultsAreListed
  <2>3. ASSUME NEW r \in live', r \in Results, r \notin leaving', NEW d \in Conns,
               d \in uses'[r]
        PROVE  /\ conn'[d] \in {"open", "results"}
               /\ conn'[d] = "open" => r \in tracked' /\ owner'[r] = d
               /\ conn'[d] = "results" => r \in snapshot'[d]
    <3>0. r \notin leaving
      BY <1>3, <2>2, <2>3, KindsDiffer
    <3>1. /\ conn[d] \in {"open", "results"}
          /\ conn[d] = "open" => r \in tracked /\ owner[r] = d
          /\ conn[d] = "results" => r \in snapshot[d]
      BY <1>1, <1>5, <2>1, <2>3, <3>0 DEF IInv, ResultsAreListed
    <3>2. ~(conn[d] = "results" /\ conn'[d] = "native")
      BY <1>2, <2>2, <2>3, <3>1
    <3>3. conn'[d] = conn[d]
      BY <1>2, <3>1, <3>2
    <3>4. ASSUME conn[d] = "open"
          PROVE  r \in tracked' /\ owner'[r] = d
      <4>1. r \in tracked /\ owner[r] = d
        BY <3>1, <3>4
      <4>2. r \in handles /\ r \in AllResults
        BY <2>3, <4>1, KindsDiffer DEF IInv, BooksAreKept
      <4>3. r \in tracked'
        BY <1>4, <2>1, <2>3, <3>3, <3>4, <4>1
      <4>4. owner'[r] = d
        BY <1>3, <2>2, <2>3, <4>1, <4>2
      <4> QED
        BY <4>3, <4>4
    <3> QED
      BY <1>2, <3>1, <3>2, <3>3, <3>4
  <2>4. ASSUME NEW d \in Conns
        PROVE  d \in live' \/ conn'[d] \in {"none", "drop", "closed"}
    <3>1. d \in live \/ conn[d] \in {"none", "drop", "closed"}
      BY <2>1 DEF IInv, ResultsAreListed
    <3>2. CASE conn[d] \in {"none", "drop", "closed"}
      BY <1>2, <3>2
    <3>3. CASE d \in live /\ d \in destroyed
      BY <1>1, <1>2, <3>3
    <3>4. CASE d \in live /\ d \notin destroyed
      BY <1>5, <3>4, KindsDiffer
    <3> QED
      BY <3>1, <3>2, <3>3, <3>4
  <2> QED
    BY <2>2, <2>3, <2>4
<1> QED
  BY <1>7, <1>8, <1>9, <1>10, <1>11, <1>12, <1>13

\* A tracked result is the program's or on the list of a close().
LEMMA TrackedIsHeld ==
    ASSUME IInv, NEW r \in tracked
    PROVE  /\ r \in AllResults /\ r \notin leaving \cup closing \cup closed
           /\ owner[r] \in Conns
           /\ r \in held \/ \E c \in Conns : r \in snapshot[c]
<1>1. /\ r \in AllResults /\ r \in Reachable /\ r \notin leaving \cup closing \cup closed
      /\ owner[r] \in Conns
  BY DEF IInv, TypeOK, BooksAreKept, HandlesAreReachable
<1>2. r \in HeldResults
  BY <1>1, ReachableKinds DEF IInv, ReachableByKind
<1> QED
  BY <1>1, <1>2, HeldResultsIs

LEMMA ClearCacheLetsGo ==
    ASSUME IInv, TypeOK', NEW c \in Conns, ClearCache(c)
    PROVE  \E dropped, destroyed : LetsGo(dropped, destroyed)
<1> DEFINE mine == {s \in cache : c \in uses[s]}
<1>1. /\ conn[c] = "results" /\ (\A r \in snapshot[c] : r \in closed)
      /\ conn' = [conn EXCEPT ![c] = "native"]
      /\ snapshot' = [snapshot EXCEPT ![c] = {}]
      /\ cache' = cache \ mine
      /\ tracked' = {r \in tracked : owner[r] # c}
      /\ UNCHANGED <<backend, database, owner, leaving, closing, closed, held, uses>>
      /\ Settle(mine, mine)
  BY DEF ClearCache
<1>2. mine \subseteq Stmts /\ \A s \in cache' : c \notin uses[s]
  BY <1>1 DEF IInv, TypeOK
<1> HIDE DEF mine
<1>3. \A r \in tracked' : r \in HeldResults' /\ r \in AllResults
  <2> SUFFICES ASSUME NEW r \in tracked'
               PROVE  r \in HeldResults' /\ r \in AllResults
    OBVIOUS
  <2>1. r \in tracked
    BY <1>1
  <2>2. r \notin snapshot[c]
    BY <1>1, <2>1, TrackedIsHeld
  <2>3. r \in held \/ \E d \in Conns : r \in snapshot'[d]
    BY <1>1, <2>1, <2>2, TrackedIsHeld DEF IInv, TypeOK
  <2> QED
    BY <1>1, <2>1, <2>3, TrackedIsHeld, HeldResultsIs
<1>4. \A r \in tracked' : r \in Reachable'
  BY <1>3, ReachableKindsNext DEF ReachableByKind
<1>5. \A d \in Conns :
        /\ conn'[d] = IF d = c THEN "native" ELSE conn[d]
        /\ snapshot'[d] = IF d = c THEN {} ELSE snapshot[d]
  BY <1>1 DEF IInv, TypeOK
<1>6. \A x \in HeldResults' : x \in HeldResults
  BY <1>1, <1>5, HeldResultsIs
<1>7. \A r \in tracked : r \in tracked' \/ conn'[owner[r]] = "native"
  BY <1>1, <1>5
<1>8. LetsGo(mine, mine)
  BY <1>1, <1>2, <1>3, <1>4, <1>5, <1>6, <1>7, TrackedIsHeld, KindsDiffer DEF LetsGo
<1> QED
  BY <1>8

LEMMA CloseNativeLetsGo ==
    ASSUME IInv, TypeOK', NEW c \in Conns, CloseNative(c)
    PROVE  \E dropped, destroyed : LetsGo(dropped, destroyed)
<1>1. PICK native \in SUBSET {c} :
        /\ conn[c] = "native"
        /\ conn' = [conn EXCEPT ![c] = "drop"]
        /\ UNCHANGED <<backend, database, snapshot, tracked, owner, leaving, closing, closed,
                       cache, held, uses>>
        /\ Settle(native, native)
  BY DEF CloseNative
<1>2. \A d \in Conns : conn'[d] = IF d = c THEN "drop" ELSE conn[d]
  BY <1>1 DEF IInv, TypeOK
<1>3. \A x : x \in HeldResults' <=> x \in HeldResults
  BY <1>1, HeldResultsIs
<1>4. \A r \in tracked' : r \in Reachable'
  BY <1>1, <1>3, TrackedIsHeld, HeldResultsIs, ReachableKindsNext DEF ReachableByKind
<1>5. LetsGo(native, native)
  BY <1>1, <1>2, <1>3, <1>4, TrackedIsHeld, KindsDiffer DEF LetsGo
<1> QED
  BY <1>5

LEMMA FinishCloseLetsGo ==
    ASSUME IInv, TypeOK', NEW c \in Conns, FinishClose(c)
    PROVE  \E dropped, destroyed : LetsGo(dropped, destroyed)
<1>1. /\ conn[c] = "drop"
      /\ conn' = [conn EXCEPT ![c] = "closed"]
      /\ UNCHANGED <<backend, database, snapshot, tracked, owner, leaving, closing, closed,
                     cache, held, uses>>
      /\ Settle({c}, {})
  BY DEF FinishClose
<1>2. \A d \in Conns : conn'[d] = IF d = c THEN "closed" ELSE conn[d]
  BY <1>1 DEF IInv, TypeOK
<1>3. \A x : x \in HeldResults' <=> x \in HeldResults
  BY <1>1, HeldResultsIs
<1>4. \A r \in tracked' : r \in Reachable'
  BY <1>1, <1>3, TrackedIsHeld, HeldResultsIs, ReachableKindsNext DEF ReachableByKind
<1>5. LetsGo({c}, {})
  BY <1>1, <1>2, <1>3, <1>4, TrackedIsHeld, KindsDiffer DEF LetsGo
<1> QED
  BY <1>5

LEMMA CloseResultLetsGo ==
    ASSUME IInv, TypeOK', NEW r \in AllResults, CloseResult(r)
    PROVE  \E dropped, destroyed : LetsGo(dropped, destroyed)
<1>1. /\ r \in leaving
      /\ leaving' = leaving \ {r}
      /\ closing' = closing \cup {r}
      /\ UNCHANGED <<backend, database, conn, snapshot, tracked, owner, closed, cache, held,
                     uses>>
      /\ Settle({r}, {r})
  BY DEF CloseResult
<1>2. \A x : x \in HeldResults' <=> x \in HeldResults
  BY <1>1, HeldResultsIs
<1>3. \A q \in tracked' : q \in Reachable'
  BY <1>1, <1>2, TrackedIsHeld, HeldResultsIs, ReachableKindsNext DEF ReachableByKind
<1>4. r \in HeldResults
  BY <1>1, HeldResultsIs
<1>5. LetsGo({r}, {r})
  BY <1>1, <1>2, <1>3, <1>4, TrackedIsHeld, KindsDiffer DEF LetsGo
<1> QED
  BY <1>5

LEMMA FinishResultLetsGo ==
    ASSUME IInv, TypeOK', NEW r \in AllResults, FinishResult(r)
    PROVE  \E dropped, destroyed : LetsGo(dropped, destroyed)
<1>1. /\ r \in closing
      /\ closing' = closing \ {r}
      /\ closed' = closed \cup {r}
      /\ owner' = [owner EXCEPT ![r] = NULL]
      /\ UNCHANGED <<backend, database, conn, snapshot, tracked, leaving, cache, held, uses>>
      /\ Settle({}, {})
  BY DEF FinishResult
<1>2. \A q \in AllResults : owner'[q] = IF q = r THEN NULL ELSE owner[q]
  BY <1>1 DEF IInv, TypeOK
<1>3. \A x \in HeldResults' : x \in HeldResults
  BY <1>1, HeldResultsIs
<1>4. \A q \in tracked' : q \in HeldResults' /\ q \in AllResults
  BY <1>1, TrackedIsHeld, HeldResultsIs
<1>5. \A q \in tracked' : q \in Reachable'
  BY <1>4, ReachableKindsNext DEF ReachableByKind
<1>6. LetsGo({}, {})
  BY <1>1, <1>2, <1>3, <1>5, TrackedIsHeld DEF LetsGo
<1> QED
  BY <1>6

LEMMA CloseStatementLetsGo ==
    ASSUME IInv, TypeOK', NEW s \in Stmts, CloseStatement(s)
    PROVE  \E dropped, destroyed : LetsGo(dropped, destroyed)
<1>1. /\ UNCHANGED <<backend, database, uses>>
      /\ UNCHANGED <<conn, snapshot, tracked, owner, leaving, closing, closed, cache, held>>
      /\ Settle({s}, {s})
  BY DEF CloseStatement, pyVars
<1>2. \A x : x \in HeldResults' <=> x \in HeldResults
  BY <1>1, HeldResultsIs
<1>3. \A q \in tracked' : q \in Reachable'
  BY <1>1, <1>2, TrackedIsHeld, HeldResultsIs, ReachableKindsNext DEF ReachableByKind
<1>4. LetsGo({s}, {s})
  BY <1>1, <1>2, <1>3, TrackedIsHeld, KindsDiffer DEF LetsGo
<1> QED
  BY <1>4

LEMMA ForgetLetsGo ==
    ASSUME IInv, TypeOK', NEW x \in Objects, Forget(x)
    PROVE  \E dropped, destroyed : LetsGo(dropped, destroyed)
<1>1. /\ x \in held
      /\ held' = held \ {x}
      /\ UNCHANGED <<backend, database, conn, snapshot, owner, closed, cache, uses>>
      /\ Settle({}, {})
  BY DEF Forget
<1>2. CASE x \in AllResults /\ Dies(x)
  <2>1. /\ tracked' = tracked \ {x}
        /\ \/ database # "open" /\ closing' = closing \cup {x} /\ leaving' = leaving
           \/ database = "open" /\ leaving' = leaving \cup {x} /\ closing' = closing
    BY <1>2 DEF Forget, Leave, IsClosed
  <2>2. x \in HeldResults
    BY <1>1, <1>2, HeldResultsIs
  <2>3. \A q \in HeldResults' : q \in HeldResults
    BY <1>1, <2>1, <2>2, HeldResultsIs
  <2>4. \A q \in tracked' : q \in HeldResults' /\ q \in AllResults
    BY <1>1, <2>1, TrackedIsHeld, HeldResultsIs
  <2>5. \A q \in tracked' : q \in Reachable'
    BY <2>4, ReachableKindsNext DEF ReachableByKind
  <2>6. \A q \in tracked' : q \notin leaving' \cup closing' \cup closed'
    BY <1>1, <2>1, TrackedIsHeld
  <2>7. \A q \in tracked : q \in tracked' \/ q \in leaving' \/ database # "open"
    BY <2>1
  <2>8. LetsGo({}, {})
    BY <1>1, <2>1, <2>2, <2>3, <2>5, <2>6, <2>7, TrackedIsHeld DEF LetsGo
  <2> QED
    BY <2>8
<1>3. CASE ~(x \in AllResults /\ Dies(x))
  <2>1. UNCHANGED <<tracked, leaving, closing>>
    BY <1>3 DEF Forget
  <2>2. \A q \in HeldResults' : q \in HeldResults
    BY <1>1, <2>1, HeldResultsIs
  <2>3. \A q \in tracked' : q \in HeldResults' /\ q \in AllResults
    <3> SUFFICES ASSUME NEW q \in tracked
                 PROVE  q \in HeldResults' /\ q \in AllResults
      BY <2>1
    <3>1. CASE q = x
      BY <1>1, <1>3, <3>1, TrackedIsHeld, HeldResultsIs DEF Dies
    <3>2. CASE q # x
      BY <1>1, <3>2, TrackedIsHeld, HeldResultsIs
    <3> QED
      BY <3>1, <3>2
  <2>4. \A q \in tracked' : q \in Reachable'
    BY <2>3, ReachableKindsNext DEF ReachableByKind
  <2>5. LetsGo({}, {})
    BY <1>1, <2>1, <2>2, <2>4, TrackedIsHeld DEF LetsGo
  <2> QED
    BY <2>5
<1> QED
  BY <1>2, <1>3

LEMMA CloseDatabaseLetsGo ==
    ASSUME IInv, TypeOK', CloseDatabase
    PROVE  \E dropped, destroyed : LetsGo(dropped, destroyed)
<1>1. /\ database = "closing" /\ database' = "closed"
      /\ UNCHANGED <<backend, uses>>
      /\ UNCHANGED <<conn, snapshot, tracked, owner, leaving, closing, closed, cache, held>>
      /\ Settle({Db}, {Db})
  BY DEF CloseDatabase, pyVars
<1>2. \A x : x \in HeldResults' <=> x \in HeldResults
  BY <1>1, HeldResultsIs
<1>3. \A q \in tracked' : q \in Reachable'
  BY <1>1, <1>2, TrackedIsHeld, HeldResultsIs, ReachableKindsNext DEF ReachableByKind
<1>4. LetsGo({Db}, {Db})
  BY <1>1, <1>2, <1>3, TrackedIsHeld, KindsDiffer DEF LetsGo
<1> QED
  BY <1>4

-----------------------------------------------------------------------------
(* What opens a connection and what starts to close.                       *)

LEMMA ConnectKeeps ==
    ASSUME IInv, TypeOK', NEW c \in Conns, Connect(c)
    PROVE  /\ UnmadeIsNowhere'
           /\ MadeInOrder'
           /\ HandlesAreReachable'
           /\ LiveForAReason'
           /\ OnlyCloseTakesHandle'
           /\ BooksAreKept'
           /\ ResultsAreListed'
<1>1. /\ Db \in held /\ database = "open" /\ conn[c] = "none" /\ uses[c] = {}
      /\ uses' = [uses EXCEPT ![c] = {Db}]
      /\ held' = held \cup {c}
      /\ handles' = handles \cup {c}
      /\ live' = live \cup {c}
      /\ conn' = [conn EXCEPT ![c] = "open"]
      /\ UNCHANGED <<backend, database, snapshot, tracked, owner, leaving, closing, closed, cache>>
  BY DEF Connect, Make, IsClosed, Fresh
<1>2. /\ \A d \in Conns : conn'[d] = IF d = c THEN "open" ELSE conn[d]
      /\ \A x \in Objects : uses'[x] = IF x = c THEN {Db} ELSE uses[x]
  BY <1>1, KindsDiffer DEF IInv, TypeOK
<1>3. /\ c \notin held \cup live
      /\ \A x \in Children : x # c /\ uses'[x] = uses[x]
  BY <1>1, <1>2, KindsDiffer DEF IInv, UnmadeIsNowhere
<1>4. \A x : x \in HeldResults' <=> x \in HeldResults
  BY <1>1, KindsDiffer, HeldResultsIs
<1>5. \A d \in Conns : d \in HeldConns' <=> d \in HeldConns \/ d = c
  BY <1>1, <1>2, <1>3, <1>4, KindsDiffer, HeldConnsIs DEF Closing
<1>6. /\ \A x \in Reachable : x \in Reachable'
      /\ \A r \in AllResults : r \in Reachable' => r \in Reachable
      /\ \A d \in Conns : d \in Reachable' => d \in Reachable \/ d = c
      /\ c \in Reachable'
  <2>1. ReachableByKind /\ ReachableByKind'
    BY ReachableKinds, ReachableKindsNext DEF IInv
  <2>2. \A r \in AllResults : r \in Reachable' <=> r \in Reachable
    BY <1>4, <2>1 DEF ReachableByKind
  <2>3. \A d \in Conns : d \in Reachable' <=> d \in Reachable \/ d = c
    BY <1>5, <2>1 DEF ReachableByKind
  <2>4. \A s \in Stmts : s \in Reachable => s \in Reachable'
    <3> SUFFICES ASSUME NEW s \in Stmts, s \in Reachable
                 PROVE  s \in Reachable'
      OBVIOUS
    <3>1. s \in held \/ (s \in cache /\ uses[s] \cap HeldConns # {})
      BY <2>1 DEF ReachableByKind
    <3>2. s \in held' \/ (s \in cache' /\ uses'[s] \cap HeldConns' # {})
      BY <1>1, <1>3, <1>5, <3>1, KindsDiffer, HeldConnsIs
    <3> QED
      BY <2>1, <3>2 DEF ReachableByKind
  <2>5. Db \in Reachable'
    BY <1>1, <2>1 DEF ReachableByKind
  <2>6. Reachable \subseteq Objects
    BY <2>1 DEF ReachableByKind
  <2> QED
    BY <2>2, <2>3, <2>4, <2>5, <2>6, KindsDiffer
<1>7. UnmadeIsNowhere'
  BY <1>1, <1>2, <1>3, KindsDiffer DEF IInv, UnmadeIsNowhere, Fresh
<1>8. MadeInOrder'
  <2>1. uses'[Db] = {} /\ \A d \in Conns : uses'[d] \subseteq {Db}
    BY <1>2, KindsDiffer DEF IInv, MadeInOrder
  <2> QED
    BY <1>1, <1>3, <2>1, KindsDiffer DEF IInv, MadeInOrder, Fresh
<1>9. HandlesAreReachable'
  BY <1>1, <1>6 DEF IInv, HandlesAreReachable
<1>10. LiveForAReason'
  <2>1. ASSUME backend = "pybind", NEW x \in live'
        PROVE  x \in handles' \/ \E y \in live' : x \in uses'[y]
    <3>1. CASE x \in handles'
      BY <3>1
    <3>2. CASE x \notin handles'
      <4>1. PICK y \in live : x \in uses[y]
        BY <1>1, <2>1, <3>2 DEF IInv, LiveForAReason
      <4>2. y \in Objects /\ y # c
        BY <1>3, <4>1 DEF IInv, TypeOK
      <4> QED
        BY <1>1, <1>2, <4>1, <4>2
    <3> QED
      BY <3>1, <3>2
  <2>2. ASSUME backend = "capi", NEW x \in live', x \in Children
        PROVE  x \in handles'
    BY <1>1, <2>2, KindsDiffer DEF IInv, LiveForAReason
  <2> QED
    BY <1>1, <2>1, <2>2 DEF LiveForAReason
<1>11. OnlyCloseTakesHandle'
  BY <1>1, <1>2, <1>6 DEF IInv, OnlyCloseTakesHandle
<1>12. BooksAreKept'
  <2>1. tracked' \subseteq handles' \ (leaving' \cup closing' \cup closed')
    BY <1>1 DEF IInv, BooksAreKept
  <2>2. \A r \in AllResults : owner'[r] \in Conns => uses'[r] \cap Conns = {owner'[r]}
    BY <1>1, <1>3, KindsDiffer DEF IInv, BooksAreKept
  <2>3. \A r \in tracked' : owner'[r] \in Conns
    BY <1>1 DEF IInv, BooksAreKept
  <2>4. \A d \in Conns : conn'[d] # "results" => snapshot'[d] = {}
    BY <1>1, <1>2 DEF IInv, BooksAreKept
  <2>5. \A s \in cache', d \in Conns : d \in uses'[s] => conn'[d] \in {"open", "results"}
    BY <1>1, <1>2, <1>3, KindsDiffer DEF IInv, BooksAreKept, TypeOK
  <2> QED
    BY <2>1, <2>2, <2>3, <2>4, <2>5 DEF BooksAreKept
<1>13. ResultsAreListed'
  <2> SUFFICES ASSUME backend = "capi"
               PROVE  /\ live' \cap Results \cap (closing' \cup closed') = {}
                      /\ \A r \in live' \cap (Results \ leaving'), d \in Conns : d \in uses'[r] =>
                           /\ conn'[d] \in {"open", "results"}
                           /\ conn'[d] = "open" => r \in tracked' /\ owner'[r] = d
                           /\ conn'[d] = "results" => r \in snapshot'[d]
                      /\ \A d \in Conns : d \in live' \/ conn'[d] \in {"none", "drop", "closed"}
    BY <1>1 DEF ResultsAreListed
  <2>1. live' \cap Results \cap (closing' \cup closed') = {}
    BY <1>1, KindsDiffer DEF IInv, ResultsAreListed
  <2>2. ASSUME NEW r \in live', r \in Results, r \notin leaving', NEW d \in Conns,
               d \in uses'[r]
        PROVE  /\ conn'[d] \in {"open", "results"}
               /\ conn'[d] = "open" => r \in tracked' /\ owner'[r] = d
               /\ conn'[d] = "results" => r \in snapshot'[d]
    <3>1. r \in live /\ d \in uses[r]
      BY <1>1, <1>3, <2>2, KindsDiffer
    <3>2. conn[d] \in {"open", "results"}
      BY <1>1, <2>2, <3>1 DEF IInv, ResultsAreListed
    <3>3. d # c
      BY <1>1, <3>2
    <3> QED
      BY <1>1, <1>2, <2>2, <3>1, <3>3 DEF IInv, ResultsAreListed
  <2>3. \A d \in Conns : d \in live' \/ conn'[d] \in {"none", "drop", "closed"}
    BY <1>1, <1>2 DEF IInv, ResultsAreListed
  <2> QED
    BY <2>1, <2>2, <2>3
<1> QED
  BY <1>7, <1>8, <1>9, <1>10, <1>11, <1>12, <1>13

\* close() goes through the tracked results of its connection.
LEMMA StartCloseKeeps ==
    ASSUME IInv, TypeOK', NEW c \in Conns, StartClose(c)
    PROVE  /\ UnmadeIsNowhere'
           /\ MadeInOrder'
           /\ HandlesAreReachable'
           /\ LiveForAReason'
           /\ OnlyCloseTakesHandle'
           /\ BooksAreKept'
           /\ ResultsAreListed'
<1>1. /\ c \in held /\ conn[c] = "open"
      /\ conn' = [conn EXCEPT ![c] = "results"]
      /\ snapshot' = [snapshot EXCEPT ![c] = {r \in tracked : owner[r] = c}]
      /\ UNCHANGED <<backend, database, tracked, owner, leaving, closing, closed, cache, held,
                     handles, live, uses>>
  BY DEF StartClose
<1>2. \A d \in Conns :
        /\ conn'[d] = IF d = c THEN "results" ELSE conn[d]
        /\ snapshot'[d] = IF d = c THEN {r \in tracked : owner[r] = c} ELSE snapshot[d]
  BY <1>1 DEF IInv, TypeOK
<1>3. snapshot[c] = {}
  BY <1>1 DEF IInv, BooksAreKept
<1>4. \A x : x \in HeldResults' <=> x \in HeldResults
  BY <1>1, <1>2, <1>3, TrackedIsHeld, HeldResultsIs
<1>5. \A d \in Conns : d \in HeldConns' <=> d \in HeldConns
  BY <1>1, <1>2, <1>4, HeldConnsIs DEF Closing
<1>6. \A x : x \in Reachable' <=> x \in Reachable
  <2>1. HeldResults' = HeldResults /\ HeldConns' = HeldConns
    BY <1>4, <1>5, HeldConnsIs
  <2> QED
    BY <1>1, <2>1, ReachableParts
<1>7. UnmadeIsNowhere'
  BY <1>1, <1>2 DEF IInv, UnmadeIsNowhere, Fresh
<1>8. MadeInOrder'
  BY <1>1 DEF IInv, MadeInOrder, Fresh
<1>9. HandlesAreReachable'
  BY <1>1, <1>6 DEF IInv, HandlesAreReachable
<1>10. LiveForAReason'
  BY <1>1 DEF IInv, LiveForAReason
<1>11. OnlyCloseTakesHandle'
  BY <1>1, <1>2, <1>6 DEF IInv, OnlyCloseTakesHandle
<1>12. BooksAreKept'
  <2>1. \A d \in Conns : conn'[d] # "results" => snapshot'[d] = {}
    BY <1>1, <1>2 DEF IInv, BooksAreKept
  <2>2. \A s \in cache', d \in Conns : d \in uses'[s] => conn'[d] \in {"open", "results"}
    BY <1>1, <1>2 DEF IInv, BooksAreKept
  <2> QED
    BY <1>1, <2>1, <2>2 DEF IInv, BooksAreKept
<1>13. ResultsAreListed'
  <2> SUFFICES ASSUME backend = "capi", database = "open"
               PROVE  /\ live \cap Results \cap (closing \cup closed) = {}
                      /\ \A r \in live \cap (Results \ leaving), d \in Conns : d \in uses[r] =>
                           /\ conn'[d] \in {"open", "results"}
                           /\ conn'[d] = "open" => r \in tracked /\ owner[r] = d
                           /\ conn'[d] = "results" => r \in snapshot'[d]
                      /\ \A d \in Conns : d \in live \/ conn'[d] \in {"none", "drop", "closed"}
    BY <1>1 DEF ResultsAreListed
  <2>1. ASSUME NEW r \in live, r \in Results, r \notin leaving, NEW d \in Conns,
               d \in uses[r]
        PROVE  /\ conn'[d] \in {"open", "results"}
               /\ conn'[d] = "open" => r \in tracked /\ owner[r] = d
               /\ conn'[d] = "results" => r \in snapshot'[d]
    <3>1. /\ conn[d] \in {"open", "results"}
          /\ conn[d] = "open" => r \in tracked /\ owner[r] = d
          /\ conn[d] = "results" => r \in snapshot[d]
      BY <2>1 DEF IInv, ResultsAreListed
    <3>2. CASE d = c
      <4>1. r \in tracked /\ owner[r] = c /\ conn'[d] = "results"
        BY <1>1, <1>2, <3>1, <3>2
      <4>2. r \in snapshot'[c]
        BY <1>2, <4>1
      <4> QED
        BY <3>2, <4>1, <4>2
    <3>3. CASE d # c
      <4>1. conn'[d] = conn[d] /\ snapshot'[d] = snapshot[d]
        BY <1>2, <3>3
      <4> QED
        BY <3>1, <4>1
    <3> QED
      BY <3>2, <3>3
  <2>2. /\ live \cap Results \cap (closing \cup closed) = {}
        /\ \A d \in Conns : d \in live \/ conn'[d] \in {"none", "drop", "closed"}
    BY <1>1, <1>2 DEF IInv, ResultsAreListed
  <2> QED
    BY <2>1, <2>2
<1> QED
  BY <1>7, <1>8, <1>9, <1>10, <1>11, <1>12, <1>13

LEMMA MarkClosedKeeps ==
    ASSUME IInv, TypeOK', MarkClosed
    PROVE  /\ UnmadeIsNowhere'
           /\ MadeInOrder'
           /\ HandlesAreReachable'
           /\ LiveForAReason'
           /\ OnlyCloseTakesHandle'
           /\ BooksAreKept'
           /\ ResultsAreListed'
<1>1. /\ Db \in held /\ database' = "closing"
      /\ UNCHANGED <<backend, handles, live, uses>>
      /\ UNCHANGED <<conn, snapshot, tracked, owner, leaving, closing, closed, cache, held>>
  BY DEF MarkClosed, pyVars
<1>2. \A x : x \in HeldResults' <=> x \in HeldResults
  BY <1>1, HeldResultsIs
<1>3. \A d \in Conns : d \in HeldConns' <=> d \in HeldConns
  BY <1>1, <1>2, HeldConnsIs DEF Closing
<1>4. \A x : x \in Reachable' <=> x \in Reachable
  <2>1. HeldResults' = HeldResults /\ HeldConns' = HeldConns
    BY <1>2, <1>3, HeldConnsIs
  <2> QED
    BY <1>1, <2>1, ReachableParts
<1>5. UnmadeIsNowhere'
  BY <1>1 DEF IInv, UnmadeIsNowhere, Fresh
<1>6. MadeInOrder'
  BY <1>1 DEF IInv, MadeInOrder, Fresh
<1>7. HandlesAreReachable'
  BY <1>1, <1>4 DEF IInv, HandlesAreReachable
<1>8. LiveForAReason'
  BY <1>1 DEF IInv, LiveForAReason
<1>9. OnlyCloseTakesHandle'
  BY <1>1, <1>4 DEF IInv, OnlyCloseTakesHandle
<1>10. BooksAreKept'
  BY <1>1 DEF IInv, BooksAreKept
<1>11. ResultsAreListed'
  BY <1>1 DEF IInv, ResultsAreListed
<1> QED
  BY <1>5, <1>6, <1>7, <1>8, <1>9, <1>10, <1>11

\* close() of a result that the program or a close() of its connection has.
LEMMA BeginResultKeeps ==
    ASSUME IInv, TypeOK', NEW r \in AllResults, BeginResult(r), r \in HeldResults
    PROVE  /\ UnmadeIsNowhere'
           /\ MadeInOrder'
           /\ HandlesAreReachable'
           /\ LiveForAReason'
           /\ OnlyCloseTakesHandle'
           /\ BooksAreKept'
           /\ ResultsAreListed'
<1>1. /\ tracked' = tracked \ {r}
      /\ \/ database # "open" /\ closing' = closing \cup {r} /\ leaving' = leaving
         \/ database = "open" /\ leaving' = leaving \cup {r} /\ closing' = closing
      /\ UNCHANGED <<backend, database, conn, snapshot, owner, closed, cache, held, handles,
                     live, uses>>
  BY DEF BeginResult, Leave, IsClosed
<1>2. \A x : x \in HeldResults' <=> x \in HeldResults
  BY <1>1, HeldResultsIs
<1>3. \A d \in Conns : d \in HeldConns' <=> d \in HeldConns
  BY <1>1, <1>2, HeldConnsIs DEF Closing
<1>4. \A x : x \in Reachable' <=> x \in Reachable
  <2>1. HeldResults' = HeldResults /\ HeldConns' = HeldConns
    BY <1>2, <1>3, HeldConnsIs
  <2> QED
    BY <1>1, <2>1, ReachableParts
<1>5. UnmadeIsNowhere'
  <2>1. ~Fresh(r)
    BY HeldResultsIs, KindsDiffer DEF IInv, UnmadeIsNowhere
  <2> QED
    BY <1>1, <2>1 DEF IInv, UnmadeIsNowhere, Fresh
<1>6. MadeInOrder'
  BY <1>1 DEF IInv, MadeInOrder, Fresh
<1>7. HandlesAreReachable'
  BY <1>1, <1>4 DEF IInv, HandlesAreReachable
<1>8. LiveForAReason'
  BY <1>1 DEF IInv, LiveForAReason
<1>9. OnlyCloseTakesHandle'
  BY <1>1, <1>4 DEF IInv, OnlyCloseTakesHandle
<1>10. BooksAreKept'
  BY <1>1 DEF IInv, BooksAreKept
<1>11. ResultsAreListed'
  BY <1>1 DEF IInv, ResultsAreListed
<1> QED
  BY <1>5, <1>6, <1>7, <1>8, <1>9, <1>10, <1>11

-----------------------------------------------------------------------------
(* The invariant.                                                          *)

LEMMA InitIInv == Init => IInv
<1> SUFFICES ASSUME Init
             PROVE  IInv
  OBVIOUS
<1>1. TypeOK /\ OpenHasHandle /\ OutlivesUsers
  BY HandlesAssumption
     DEF Init, TypeOK, OpenHasHandle, OutlivesUsers, Objects, Phases, Children, AllResults
<1>2. /\ database = "open" /\ held = {Db} /\ handles = {Db} /\ live = {Db}
      /\ tracked = {} /\ leaving = {} /\ closing = {} /\ closed = {} /\ cache = {}
      /\ \A c \in Conns : conn[c] = "none" /\ snapshot[c] = {}
      /\ \A r \in AllResults : owner[r] = NULL
      /\ \A x \in Objects : uses[x] = {}
  BY DEF Init
<1>3. UnmadeIsNowhere
  BY <1>2, KindsDiffer DEF UnmadeIsNowhere, Fresh
<1>4. MadeInOrder
  BY <1>2, KindsDiffer DEF MadeInOrder
<1>5. HandlesAreReachable
  BY <1>1, <1>2, ReachableKinds DEF HandlesAreReachable, ReachableByKind
<1>6. LiveForAReason
  BY <1>2 DEF LiveForAReason
<1>7. OnlyCloseTakesHandle
  BY <1>2 DEF OnlyCloseTakesHandle
<1>8. BooksAreKept
  BY <1>2, KindsDiffer DEF BooksAreKept
<1>9. ResultsAreListed
  BY <1>2, KindsDiffer DEF ResultsAreListed
<1> QED
  BY <1>1, <1>3, <1>4, <1>5, <1>6, <1>7, <1>8, <1>9 DEF IInv

LEMMA InvarianceStep == IInv /\ [Next]_vars => IInv'
<1> SUFFICES ASSUME IInv, [Next]_vars
             PROVE  IInv'
  OBVIOUS
<1>1. TypeOK' /\ OpenHasHandle' /\ OutlivesUsers'
  BY TypingStep, OpenHasHandleStep, OutlivesUsersStep DEF IInv
<1> DEFINE Keeps == /\ UnmadeIsNowhere' /\ MadeInOrder' /\ HandlesAreReachable'
                    /\ LiveForAReason' /\ OnlyCloseTakesHandle' /\ BooksAreKept'
                    /\ ResultsAreListed'
<1>2. ASSUME NEW c \in Conns, NEW new, NEW kept, Calls(c, new, kept)
      PROVE  Keeps
  BY <1>1, <1>2, CallsKeep
<1>3. ASSUME \E dropped, destroyed : LetsGo(dropped, destroyed)
      PROVE  Keeps
  BY <1>1, <1>3, LetsGoKeeps
<1>4. ASSUME NEW c \in Conns, Connect(c)
      PROVE  Keeps
  BY <1>1, <1>4, ConnectKeeps
<1>5. ASSUME NEW c \in Conns, StartClose(c)
      PROVE  Keeps
  BY <1>1, <1>5, StartCloseKeeps
<1>6. ASSUME MarkClosed
      PROVE  Keeps
  BY <1>1, <1>6, MarkClosedKeeps
<1>7. TypeOK
  BY DEF IInv
<1> HIDE DEF Keeps
<1>8. ASSUME NEW c \in Conns, ClearCache(c)
      PROVE  Keeps
  BY <1>1, <1>3, <1>8, ClearCacheLetsGo
<1>9. ASSUME NEW c \in Conns, CloseNative(c)
      PROVE  Keeps
  BY <1>1, <1>3, <1>9, CloseNativeLetsGo
<1>10. ASSUME NEW c \in Conns, FinishClose(c)
       PROVE  Keeps
  BY <1>1, <1>3, <1>10, FinishCloseLetsGo
<1>11. ASSUME NEW c \in Conns, NEW r \in Results, Execute(c, r)
       PROVE  Keeps
  BY <1>2, <1>7, <1>11, ExecuteCalls
<1>12. ASSUME NEW c \in Conns, NEW r \in Results, NEW next \in Results,
              ExecuteTwo(c, r, next)
       PROVE  Keeps
  BY <1>2, <1>7, <1>12, ExecuteTwoCalls
<1>13. ASSUME NEW c \in Conns, NEW r \in TableResults, TableCall(c, r)
       PROVE  Keeps
  BY <1>2, <1>7, <1>13, TableCallCalls
<1>14. ASSUME NEW c \in Conns, NEW s \in Stmts, Prepare(c, s)
       PROVE  Keeps
  BY <1>2, <1>7, <1>14, PrepareCalls
<1>15. ASSUME NEW c \in Conns, NEW s \in Stmts, NEW r \in Results,
              ExecutePrepared(c, s, r)
       PROVE  Keeps
  BY <1>2, <1>7, <1>15, ExecutePreparedCalls
<1>16. ASSUME NEW c \in Conns, NEW r \in AllResults, CloseTracked(c, r)
       PROVE  Keeps
  <2>1. r \in HeldResults /\ BeginResult(r)
    BY <1>16, HeldResultsIs DEF CloseTracked
  <2> QED
    BY <1>1, <2>1, BeginResultKeeps DEF Keeps
<1>17. ASSUME NEW r \in AllResults, UserClosesResult(r)
       PROVE  Keeps
  <2>1. r \in HeldResults /\ BeginResult(r)
    BY <1>17, HeldResultsIs DEF UserClosesResult
  <2> QED
    BY <1>1, <2>1, BeginResultKeeps DEF Keeps
<1>18. ASSUME NEW r \in AllResults, FinishResult(r)
       PROVE  Keeps
  BY <1>1, <1>3, <1>18, FinishResultLetsGo
<1>19. ASSUME NEW s \in Stmts, CloseStatement(s)
       PROVE  Keeps
  BY <1>1, <1>3, <1>19, CloseStatementLetsGo
<1>20. ASSUME NEW x \in Objects, Forget(x)
       PROVE  Keeps
  BY <1>1, <1>3, <1>20, ForgetLetsGo
<1>21. ASSUME CloseDatabase
       PROVE  Keeps
  BY <1>1, <1>3, <1>21, CloseDatabaseLetsGo
<1>22. ASSUME UNCHANGED vars
       PROVE  Keeps
  <2>1. UNCHANGED <<backend, database, conn, snapshot, tracked, owner, leaving, closing, closed,
                    cache, held, handles, live, uses>>
    BY <1>22 DEF vars
  <2>2. Reachable' = Reachable
    BY <2>1 DEF Reachable, Closing
  <2>3. UnmadeIsNowhere' /\ MadeInOrder' /\ LiveForAReason'
    BY <2>1 DEF IInv, UnmadeIsNowhere, MadeInOrder, LiveForAReason, Fresh
  <2>4. HandlesAreReachable' /\ OnlyCloseTakesHandle'
    BY <2>1, <2>2 DEF IInv, HandlesAreReachable, OnlyCloseTakesHandle
  <2>5. BooksAreKept' /\ ResultsAreListed'
    BY <2>1 DEF IInv, BooksAreKept, ResultsAreListed
  <2> QED
    BY <2>3, <2>4, <2>5 DEF Keeps
<1>23. ASSUME NEW r \in AllResults, CloseResult(r)
       PROVE  Keeps
  BY <1>1, <1>3, <1>23, CloseResultLetsGo
<1>24. Keeps
  BY <1>4, <1>5, <1>6, <1>8, <1>9, <1>10, <1>11, <1>12, <1>13, <1>14, <1>15, <1>16, <1>17,
     <1>18, <1>19, <1>20, <1>21, <1>22, <1>23 DEF Next
<1> QED
  BY <1>1, <1>24 DEF IInv, Keeps

\* The inductive invariant holds.
THEOREM Invariance == Spec => []IInv
<1> QED
  BY InitIInv, InvarianceStep, PTL DEF Spec

\* Types hold, and what a wrapper points to is there (py_handle_state.h, the C structs).
THEOREM TypeCorrect == Spec => []TypeOK
<1>1. IInv => TypeOK
  BY DEF IInv
<1> QED
  BY <1>1, Invariance, PTL

\* With pybind, database, connection and first result outlive what was made from
\* them, in any order of close() and collection.
THEOREM UsersNeverDangle == Spec => []OutlivesUsers
<1>1. IInv => OutlivesUsers
  BY DEF IInv
<1> QED
  BY <1>1, Invariance, PTL

-----------------------------------------------------------------------------
(* What follows from it.                                                   *)

LEMMA ChildrenGoFirst == IInv => ClosesChildrenFirst
<1> SUFFICES ASSUME IInv, backend = "capi", database = "open",
                    NEW x \in live, x \in (Results \ leaving) \cup cache, NEW p \in uses[x]
             PROVE  p \in live
  BY DEF ClosesChildrenFirst
<1>1. \A c \in Conns : conn[c] \in {"open", "results"} => c \in live
  BY DEF IInv, ResultsAreListed
<1>2. CASE x \in Results /\ x \notin leaving
  <2>1. p \in Conns
    BY <1>2 DEF IInv, MadeInOrder
  <2> QED
    BY <1>1, <1>2, <2>1 DEF IInv, ResultsAreListed
<1>3. CASE x \in cache
  <2>1. x \in Stmts
    BY <1>3 DEF IInv, TypeOK
  <2>2. p \in Conns
    BY <2>1 DEF IInv, MadeInOrder
  <2> QED
    BY <1>1, <1>3, <2>2 DEF IInv, BooksAreKept
<1> QED
  BY <1>2, <1>3

\* With the C API Connection.close() destroys results and cached statements before the
\* connection they were made from, as long as the database is open (connection.py); but
\* for a result that another thread is closing, which has left the connection.
THEOREM ChildrenFirst == Spec => []ClosesChildrenFirst
BY ChildrenGoFirst, Invariance, PTL

\* A result that passes check_for_query_result_close() can be read: it has its handle,
\* and what it reads from is there (query_result.py).
THEOREM ResultChecksSuffice == Spec => []ChecksSuffice
<1>1. IInv => ChecksSuffice
  <2> SUFFICES ASSUME IInv, NEW r \in Results, r \in Reachable, PassesCheck(r),
                      r \notin leaving \cup closing
               PROVE  r \in handles /\ {r} \cup uses[r] \subseteq live
    BY DEF ChecksSuffice
  <2>1. r \in handles
    BY KindsDiffer DEF IInv, OnlyCloseTakesHandle, PassesCheck
  <2>2. r \in live
    BY <2>1 DEF IInv, TypeOK
  <2>3. backend \in {"pybind", "capi"}
    BY HandlesAssumption DEF IInv, TypeOK
  <2>4. CASE backend = "pybind"
    BY <2>1, <2>2, <2>4 DEF IInv, OutlivesUsers
  <2>5. CASE backend = "capi"
    BY <2>1, <2>2, <2>5, ChildrenGoFirst DEF ClosesChildrenFirst, PassesCheck, IsClosed
  <2> QED
    BY <2>3, <2>4, <2>5
<1> QED
  BY <1>1, Invariance, PTL

-----------------------------------------------------------------------------
(* Nothing is leaked.                                                      *)

\* Who can be made from what.
LEMMA WhoUses ==
    ASSUME IInv, NEW x, NEW y \in live, x \in uses[y]
    PROVE  /\ x = Db => y \in Conns
           /\ x \in Conns => y \in Children
           /\ x \in Children => x \in Results /\ y \in Results /\ uses[x] \subseteq Conns
<1>1. y = Db \/ y \in Conns \/ y \in Stmts \/ y \in TableResults \/ y \in Results
  BY KindsDiffer DEF IInv, TypeOK
<1>2. y # Db
  BY DEF IInv, MadeInOrder
<1>3. CASE y \in Conns
  BY <1>3, KindsDiffer DEF IInv, MadeInOrder
<1>4. CASE y \in Stmts \/ y \in TableResults
  BY <1>4, KindsDiffer DEF IInv, MadeInOrder
<1>5. CASE y \in Results
  <2>1. x \in Conns \/ x \in Results
    BY <1>5 DEF IInv, MadeInOrder
  <2>2. x \in Results => uses[x] \subseteq Conns
    BY <1>5 DEF IInv, MadeInOrder
  <2> QED
    BY <1>5, <2>1, <2>2, KindsDiffer
<1> QED
  BY <1>1, <1>2, <1>3, <1>4, <1>5

\* With pybind a live child without a handle is a first result, and its query's next
\* result has one: the states have no cycle.
LEMMA ChainsEnd ==
    ASSUME IInv, backend = "pybind", NEW x \in live, x \in Children, x \notin handles
    PROVE  \E y \in live \cap Results : y \in handles
<1>1. PICK y \in live : x \in uses[y]
  BY DEF IInv, LiveForAReason
<1>2. x \in Results /\ y \in Results
  BY <1>1, WhoUses
<1>3. CASE y \in handles
  BY <1>1, <1>2, <1>3
<1>4. CASE y \notin handles
  <2>1. PICK z \in live : y \in uses[z]
    BY <1>1, <1>4 DEF IInv, LiveForAReason
  <2>2. uses[y] \subseteq Conns
    BY <1>2, <2>1, WhoUses, KindsDiffer
  <2> QED
    BY <1>1, <1>2, <2>2, KindsDiffer
<1> QED
  BY <1>3, <1>4

\* A program that forgets everything leaks nothing with pybind, and with the C API
\* neither results nor statements (py_handle_state.h, the __del__ methods).
THEOREM NothingLeaks == Spec => []CollectedIsReleased
<1>1. IInv => CollectedIsReleased
  <2> SUFFICES ASSUME IInv, held = {}, leaving \cup closing = {}, database # "closing",
                      \A c \in Conns : ~Closing(c)
               PROVE  live \subseteq (IF backend = "pybind" THEN {} ELSE {Db} \cup Conns)
    BY DEF CollectedIsReleased
  <2>1. \A r : r \notin HeldResults
    BY HeldResultsIs DEF IInv, BooksAreKept, Closing
  <2>2. HeldConns = {}
    BY <2>1, HeldConnsIs
  <2>3. Reachable = {}
    BY <2>1, <2>2, ReachableParts
  <2>4. handles = {}
    BY <2>3 DEF IInv, HandlesAreReachable
  <2>5. ASSUME backend = "pybind", NEW x \in live
        PROVE  FALSE
    <3>1. ASSUME NEW y \in live
          PROVE  y \notin Children
      BY <2>4, <2>5, <3>1, ChainsEnd
    <3>2. ASSUME NEW y \in live
          PROVE  y \notin Conns
      BY <2>4, <2>5, <3>1, <3>2, WhoUses DEF IInv, LiveForAReason
    <3>3. Db \notin live
      BY <2>4, <2>5, <3>2, WhoUses DEF IInv, LiveForAReason
    <3> QED
      BY <2>5, <3>1, <3>2, <3>3, KindsDiffer DEF IInv, TypeOK
  <2>6. ASSUME backend # "pybind"
        PROVE  live \subseteq {Db} \cup Conns
    <3>1. backend = "capi"
      BY <2>6, HandlesAssumption DEF IInv, TypeOK
    <3> QED
      BY <2>4, <3>1, KindsDiffer DEF IInv, TypeOK, LiveForAReason
  <2> QED
    BY <2>5, <2>6
<1> QED
  BY <1>1, Invariance, PTL

\* Database.close() releases the database once results and connections are closed and no
\* prepared statement is left with the program: the implicit cache holds none back
\* (database.py:392-400).
THEOREM CloseReleases == Spec => []DatabaseReleased
<1>1. IInv => DatabaseReleased
  <2> SUFFICES ASSUME IInv, database = "closed", handles \cap (Conns \cup AllResults) = {},
                      \A c \in Conns : ~Closing(c), held \cap Stmts = {}, Db \in live
               PROVE  FALSE
    BY DEF DatabaseReleased, AllClosed
  <2>1. Db \notin handles /\ backend # "capi"
    BY DEF IInv, OnlyCloseTakesHandle
  <2>2. backend = "pybind"
    BY <2>1, HandlesAssumption DEF IInv, TypeOK
  <2>3. PICK c \in live : c \in Conns
    BY <2>1, <2>2, WhoUses DEF IInv, LiveForAReason
  <2>4. PICK x \in live : x \in Children
    BY <2>2, <2>3, WhoUses DEF IInv, LiveForAReason
  <2>5. \A r \in AllResults : r \notin handles
    OBVIOUS
  <2>6. x \in handles
    BY <2>2, <2>4, <2>5, ChainsEnd, KindsDiffer
  <2>7. x \in Stmts
    BY <2>4, <2>5, <2>6, KindsDiffer
  <2>8. PICK d \in HeldConns : x \in cache /\ d \in uses[x]
    BY <2>6, <2>7, ReachableKinds DEF IInv, HandlesAreReachable, ReachableByKind
  <2>9. d \in Conns /\ d \in Reachable
    BY ReachableKinds, HeldConnsIs DEF IInv, ReachableByKind
  <2>10. conn[d] = "open"
    BY <2>8, <2>9 DEF IInv, BooksAreKept, Closing
  <2> QED
    BY <2>9, <2>10 DEF IInv, OnlyCloseTakesHandle
<1> QED
  BY <1>1, Invariance, PTL

=============================================================================
