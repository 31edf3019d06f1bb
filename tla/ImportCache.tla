------------------------------ MODULE ImportCache ------------------------------
(***************************************************************************)
(* The Python objects that the pybind extension looks up by name, each     *)
(* loaded when it is first called for (cached_import/): a module, or an    *)
(* attribute of a parent that is looked up in the same way.  A thread      *)
(* holds the GIL when it calls; Python code that runs during an import may *)
(* pass it on.  In a free-threaded build there is no GIL.                  *)
(***************************************************************************)
EXTENDS FiniteSetsExt, SequencesExt

CONSTANTS Threads,
          Parents,   \* name of an item -> its parent, or TopLevel
          TopLevel,
          MaxFailures  \* bound on the imports that fail

ASSUME ImportCacheAssumption ==
    /\ TopLevel \notin DOMAIN Parents \cup Threads
    /\ \A i \in DOMAIN Parents : Parents[i] \in (DOMAIN Parents \ {i}) \cup {TopLevel}
    /\ MaxFailures \in Nat

VARIABLES
    freeThreaded,
    gil,         \* who holds it
    loadMutex,
    loaded,      \* items whose flag is set
    object,      \* item -> the object it refers to
    allObjects,  \* the objects that the cache keeps alive
    lookup,      \* thread -> where it is, and the items it is looking up, innermost last
    found,       \* thread -> what its last lookup returned
    failures

importVars == <<freeThreaded, gil, loadMutex, loaded, object, allObjects, lookup, found, failures>>

Nobody == TopLevel
NoObject == 0
AtRest == [at |-> "idle", items |-> <<>>]

ImportInit ==
    /\ freeThreaded \in BOOLEAN
    /\ gil = Nobody /\ loadMutex = Nobody
    /\ loaded = {} /\ object = [i \in DOMAIN Parents |-> NoObject] /\ allObjects = <<>>
    /\ lookup = [t \in Threads |-> AtRest]
    /\ found = [t \in Threads |-> <<TopLevel, NoObject>>] /\ failures = 0

Looking(t, phase) == lookup[t].at = phase
Item(t) == Last(lookup[t].items)
Attached(t) == freeThreaded \/ gil = t
Move(t, phase) == lookup' = [lookup EXCEPT ![t].at = phase]

-----------------------------------------------------------------------------
(* The GIL.                                                                *)

TakeGil(t) ==
    /\ ~freeThreaded /\ gil = Nobody /\ ~Looking(t, "wait")
    /\ gil' = t
    /\ UNCHANGED <<freeThreaded, loadMutex, loaded, object, allObjects, lookup, found, failures>>

\* Python switches threads outside of a lookup and inside of an import.
PassGil(t) ==
    /\ gil = t /\ (Looking(t, "idle") \/ Looking(t, "import"))
    /\ gil' = Nobody
    /\ UNCHANGED <<freeThreaded, loadMutex, loaded, object, allObjects, lookup, found, failures>>

-----------------------------------------------------------------------------
(* operator()                                                              *)

LookUpItem(t, i) ==
    /\ Attached(t) /\ Looking(t, "idle")
    /\ lookup' = [lookup EXCEPT ![t] = [at |-> "find", items |-> <<i>>]]
    /\ UNCHANGED <<freeThreaded, gil, loadMutex, loaded, object, allObjects, found, failures>>

\* The lookup of an item ends; that of a child goes on to the lock.
Answered(t) ==
    /\ lookup' = [lookup EXCEPT ![t] =
         IF Len(@.items) = 1 THEN AtRest ELSE [at |-> "lock", items |-> Front(@.items)]]
    /\ found' = [found EXCEPT ![t] = <<Item(t), object[Item(t)]>>]

FindLoaded(t) ==
    /\ Attached(t) /\ Looking(t, "find") /\ Item(t) \in loaded
    /\ Answered(t)
    /\ UNCHANGED <<freeThreaded, gil, loadMutex, loaded, object, allObjects, failures>>

\* "The parent takes the same lock, so load it before locking."
FindParent(t) ==
    /\ Attached(t) /\ Looking(t, "find") /\ Item(t) \notin loaded
    /\ lookup' = [lookup EXCEPT ![t] =
         IF Parents[Item(t)] = TopLevel THEN [at |-> "lock", items |-> @.items]
         ELSE [at |-> "find", items |-> Append(@.items, Parents[Item(t)])]]
    /\ UNCHANGED <<freeThreaded, gil, loadMutex, loaded, object, allObjects, found, failures>>

\* lockForLoading() waits without the GIL.
ReleaseGil(t) ==
    /\ Attached(t) /\ Looking(t, "lock")
    /\ gil' = IF gil = t THEN Nobody ELSE gil
    /\ Move(t, "wait")
    /\ UNCHANGED <<freeThreaded, loadMutex, loaded, object, allObjects, found, failures>>

TakeLoadMutex(t) ==
    /\ Looking(t, "wait") /\ loadMutex = Nobody
    /\ loadMutex' = t
    /\ Move(t, "locked")
    /\ UNCHANGED <<freeThreaded, gil, loaded, object, allObjects, found, failures>>

\* What was not loaded before the wait is not looked at again.
CheckLoadedNever(t) ==
    /\ Attached(t) /\ Looking(t, "locked")
    /\ Move(t, "import")
    /\ UNCHANGED <<freeThreaded, gil, loadMutex, loaded, object, allObjects, found, failures>>

CheckLoaded(t) ==
    /\ Attached(t) /\ Looking(t, "locked")
    /\ IF Item(t) \in loaded
       THEN Answered(t) /\ loadMutex' = Nobody
       ELSE Move(t, "import") /\ UNCHANGED <<found, loadMutex>>
    /\ UNCHANGED <<freeThreaded, gil, loaded, object, allObjects, failures>>

\* import() or attr(), then addToCache(); the flag follows.
AddToCache(t) ==
    /\ Attached(t) /\ Looking(t, "import")
    /\ allObjects' = Append(allObjects, Item(t))
    /\ object' = [object EXCEPT ![Item(t)] = Len(allObjects')]
    /\ Move(t, "loaded")
    /\ UNCHANGED <<freeThreaded, gil, loadMutex, loaded, found, failures>>

SetLoaded(t) ==
    /\ Looking(t, "loaded")
    /\ loaded' = loaded \cup {Item(t)}
    /\ Answered(t)
    /\ loadMutex' = Nobody
    /\ UNCHANGED <<freeThreaded, gil, object, allObjects, failures>>

\* The exception leaves every lookup of the thread; the lock goes with its scope.
ImportFails(t) ==
    /\ Attached(t) /\ Looking(t, "import") /\ failures < MaxFailures
    /\ failures' = failures + 1
    /\ lookup' = [lookup EXCEPT ![t] = AtRest]
    /\ loadMutex' = Nobody
    /\ UNCHANGED <<freeThreaded, gil, loaded, object, allObjects, found>>

StepOf(t) ==
    \/ \E i \in DOMAIN Parents : LookUpItem(t, i)
    \/ FindLoaded(t) \/ FindParent(t) \/ ReleaseGil(t) \/ TakeLoadMutex(t) \/ CheckLoaded(t)
    \/ AddToCache(t) \/ SetLoaded(t) \/ ImportFails(t)

ImportNext == \E t \in Threads : TakeGil(t) \/ PassGil(t) \/ StepOf(t)

ImportSpec == ImportInit /\ [][ImportNext]_importVars

-----------------------------------------------------------------------------
(* Properties.                                                             *)

ImportTypeOK ==
    /\ gil \in Threads \cup {Nobody} /\ loadMutex \in Threads \cup {Nobody}
    /\ loaded \subseteq DOMAIN Parents /\ object \in [DOMAIN Parents -> 0..Len(allObjects)]
    /\ lookup \in [Threads -> [at : {"idle", "find", "lock", "wait", "locked", "import", "loaded"},
                               items : Seq(DOMAIN Parents)]]

\* Whatever threads do to each other while they import, an object is loaded once, every
\* lookup returns it, and an attribute is only looked up in a parent that is there.
LoadedOnce ==
    /\ IsInjective(allObjects)
    /\ \A i \in loaded : object[i] # NoObject /\ allObjects[object[i]] = i
    /\ \A t \in Threads : found[t][1] # TopLevel => found[t][2] # NoObject /\ allObjects[found[t][2]] = found[t][1]
    /\ \A t \in Threads : Looking(t, "import") /\ Parents[Item(t)] # TopLevel => Parents[Item(t)] \in loaded

\* What the next step of thread t takes, the lock or the GIL, is free or its own.
Unblocked(t) ==
    /\ Looking(t, "wait") => loadMutex = Nobody
    /\ Looking(t, "wait") \/ Looking(t, "loaded") \/ freeThreaded \/ gil \in {t, Nobody}

\* No threads wait for each other, one for the lock and one for the GIL: while a lookup is
\* under way some thread can go on.
LookupsProceed ==
    (\E t \in Threads : ~Looking(t, "idle")) => \E t \in Threads : Unblocked(t)
=============================================================================
