--------------------------- MODULE PreparedCache ---------------------------
(***************************************************************************)
(* The implicit prepared-statement cache of a connection.                  *)
(*                                                                         *)
(* execute() of a query with one parameter finds the statement that was    *)
(* prepared for the parameter's signature, binds the value and runs it,    *)
(* all under the connection's _prepared_cache_lock.  With pybind the       *)
(* statement is compiled for the type of the value it was prepared with    *)
(* and binding does not look at the type again; a data frame is bound as a *)
(* pointer.  With the C API the values are bound to the statement itself.  *)
(*                                                                         *)
(* One query text stands for all: statements of different queries share    *)
(* nothing.  Closing is in Handles.                                        *)
(***************************************************************************)
EXTENDS Naturals, FiniteSets

CONSTANTS Backends,   \* of those a database may have been opened with
          Threads,
          Conns,
          Values,     \* parameters other than frames, of those that do not raise
          Type,       \* the type that pybind infers for each of them
          PybindKey,  \* the signature of each: in ParamTypes, as the type
          CapiKey,    \* the signature of each with the C API
          Frames,     \* data frames, as Python objects
          Addresses,  \* what id() may return for them
          Schemas,    \* what the fingerprint tells apart
          MaxCalls,   \* bound on the number of execute() calls
          NULL

ASSUME CacheAssumption ==
    /\ Backends \subseteq {"pybind", "capi"}
    /\ MaxCalls \in Nat
    /\ Values \cap Frames = {}
    /\ NULL \notin Threads \cup Conns \cup Values \cup Frames \cup Addresses
    /\ \A v \in Values : PybindKey[v][1] # "pointer" /\ CapiKey[v][1] # "pointer"

VARIABLES
    backend,
    calls,      \* execute() calls begun
    pc,         \* what each thread does
    on,         \* thread -> its connection
    value,      \* thread -> its parameter
    key,        \* thread -> the key it computed
    lock,       \* connection -> the thread that holds _prepared_cache_lock
    cache,      \* connection -> the plans in its cache, by key
    bound,      \* connection -> _bound_values of its statements, by key (C API)
    address,    \* frame -> where it is, NULL before it is made and after it is freed
    made,       \* frames that were made
    schema,     \* frame -> its schema
    tracker,    \* _pybind_pointer_tracker: address -> generation and frame
    generation  \* _pybind_pointer_gen

callVars == <<pc, on, value, key>>
frameVars == <<address, made, schema>>
trackerVars == <<tracker, generation>>
vars == <<backend, calls, callVars, lock, cache, bound, frameVars, trackerVars>>

IsFrame(v) == v \in Frames
NoEntry == [generation |-> 0, frame |-> NULL]

\* What a statement prepared for v now is compiled for.
PlanOf(v) ==
    IF IsFrame(v) THEN <<"pointer", v, schema[v]>> ELSE Type[v]

KeyOf(v) == IF backend = "pybind" THEN PybindKey[v] ELSE CapiKey[v]

Statements(c) == DOMAIN cache[c]
Put(f, k, x) == [j \in DOMAIN f \cup {k} |-> IF j = k THEN x ELSE f[j]]

TypeOK ==
    /\ backend \in Backends
    /\ calls \in 0..MaxCalls
    /\ pc \in [Threads -> {"idle", "lock", "sign", "purge", "number", "store",
                           "lookup", "prepare", "bind", "run"}]
    /\ on \in [Threads -> Conns \cup {NULL}]
    /\ \A t \in Threads : pc[t] = "idle" <=> on[t] = NULL
    /\ lock \in [Conns -> Threads \cup {NULL}]
    /\ \A c \in Conns : DOMAIN bound[c] \subseteq Statements(c)
    /\ made \subseteq Frames
    /\ address \in [Frames -> Addresses \cup {NULL}]
    /\ schema \in [Frames -> Schemas]
    /\ \A a \in Addresses : tracker[a].frame \in Frames \cup {NULL}
    /\ generation \in Nat

Init ==
    /\ backend \in Backends
    /\ calls = 0
    /\ pc = [t \in Threads |-> "idle"]
    /\ on = [t \in Threads |-> NULL]
    /\ value = [t \in Threads |-> NULL]
    /\ key = [t \in Threads |-> NULL]
    /\ lock = [c \in Conns |-> NULL]
    /\ cache = [c \in Conns |-> <<>>]
    /\ bound = [c \in Conns |-> <<>>]
    /\ address = [f \in Frames |-> NULL]
    /\ made = {}
    /\ schema \in [Frames -> Schemas]
    /\ tracker = [a \in Addresses |-> NoEntry]
    /\ generation = 0

-----------------------------------------------------------------------------
(* Data frames of the program.                                             *)

InUse(f) == \E t \in Threads : value[t] = f

NewFrame(f, a) ==
    /\ f \notin made
    /\ \A g \in Frames : address[g] # a
    /\ made' = made \cup {f}
    /\ address' = [address EXCEPT ![f] = a]
    /\ UNCHANGED <<backend, calls, callVars, lock, cache, bound, schema, trackerVars>>

\* A plan may keep its frame alive; it need not.
FreeFrame(f) ==
    /\ address[f] # NULL /\ ~InUse(f)
    /\ address' = [address EXCEPT ![f] = NULL]
    /\ UNCHANGED <<backend, calls, callVars, lock, cache, bound, made, schema,
                   trackerVars>>

\* In place: columns dropped, renamed or of another type.
ChangeFrame(f, s) ==
    /\ address[f] # NULL /\ ~InUse(f)
    /\ schema[f] # s
    /\ schema' = [schema EXCEPT ![f] = s]
    /\ UNCHANGED <<backend, calls, callVars, lock, cache, bound, address, made,
                   trackerVars>>

-----------------------------------------------------------------------------
(* execute().                                                              *)

Goto(t, label) == pc' = [pc EXCEPT ![t] = label]

Begin(t, c, v) ==
    /\ pc[t] = "idle"
    /\ calls < MaxCalls
    /\ IsFrame(v) => backend = "pybind" /\ address[v] # NULL
    /\ calls' = calls + 1
    /\ on' = [on EXCEPT ![t] = c]
    /\ value' = [value EXCEPT ![t] = v]
    /\ Goto(t, "lock")
    /\ UNCHANGED <<backend, key, lock, cache, bound, frameVars, trackerVars>>

\* Mutant: the lock is not taken.
AcquireNothing(t) ==
    /\ pc[t] = "lock"
    /\ Goto(t, "sign")
    /\ UNCHANGED <<backend, calls, on, value, key, lock, cache, bound, frameVars,
                   trackerVars>>

Acquire(t) ==
    /\ pc[t] = "lock"
    /\ lock[on[t]] = NULL
    /\ lock' = [lock EXCEPT ![on[t]] = t]
    /\ Goto(t, "sign")
    /\ UNCHANGED <<backend, calls, on, value, key, cache, bound, frameVars, trackerVars>>

\* Mutant: the connection is not left.
ReturnKeepingConnection(t) ==
    /\ lock' = [lock EXCEPT ![on[t]] = NULL]
    /\ Goto(t, "idle")
    /\ value' = [value EXCEPT ![t] = NULL]
    /\ UNCHANGED <<on, key>>

\* The call is over, by its result or an exception.
Return(t) ==
    /\ lock' = [lock EXCEPT ![on[t]] = NULL]
    /\ Goto(t, "idle")
    /\ on' = [on EXCEPT ![t] = NULL]
    /\ value' = [value EXCEPT ![t] = NULL]
    /\ key' = [key EXCEPT ![t] = NULL]

SignValue(t) ==
    /\ pc[t] = "sign"
    /\ ~IsFrame(value[t])
    /\ key' = [key EXCEPT ![t] = KeyOf(value[t])]
    /\ Goto(t, "lookup")
    /\ UNCHANGED <<backend, calls, on, value, lock, cache, bound, frameVars, trackerVars>>

\* Mutant: whatever was last tracked at the address is taken for this object.
IsTrackedAtAddress(f) == tracker[address[f]] # NoEntry

\* The entry at the frame's address is its own: a weak reference that is not dead.
IsTracked(f) ==
    LET entry == tracker[address[f]]
    IN  entry # NoEntry /\ address[entry.frame] = address[f]

\* The generation of the object and the fingerprint of its columns.
PointerKey(f, gen) == <<"pointer", gen, schema[f]>>

\* A frame that is known, or not, or an older one's entry at its address.
SignFrame(t) ==
    /\ pc[t] = "sign"
    /\ IsFrame(value[t])
    /\ LET f == value[t]
           entry == tracker[address[f]]
       IN  IF IsTracked(f)
           THEN /\ key' = [key EXCEPT ![t] = PointerKey(f, entry.generation)]
                /\ Goto(t, "lookup")
           ELSE /\ Goto(t, IF entry = NoEntry THEN "number" ELSE "purge")
                /\ UNCHANGED key
    /\ UNCHANGED <<backend, calls, on, value, lock, cache, bound, frameVars, trackerVars>>

\* The dead entry is deleted; another connection's thread may have done so.
Purge(t) ==
    /\ pc[t] = "purge"
    /\ LET a == address[value[t]]
       IN  IF tracker[a] = NoEntry
           THEN Return(t) /\ UNCHANGED tracker     \* KeyError
           ELSE /\ tracker' = [tracker EXCEPT ![a] = NoEntry]
                /\ Goto(t, "number")
                /\ UNCHANGED <<on, value, key, lock>>
    /\ UNCHANGED <<backend, calls, cache, bound, frameVars, generation>>

Number(t) ==
    /\ pc[t] = "number"
    /\ generation' = generation + 1
    /\ key' = [key EXCEPT ![t] = PointerKey(value[t], generation')]
    /\ Goto(t, "store")
    /\ UNCHANGED <<backend, calls, on, value, lock, cache, bound, frameVars, tracker>>

Store(t) ==
    /\ pc[t] = "store"
    /\ tracker' = [tracker EXCEPT ![address[value[t]]] =
                      [generation |-> key[t][2], frame |-> value[t]]]
    /\ Goto(t, "lookup")
    /\ UNCHANGED <<backend, calls, on, value, key, lock, cache, bound, frameVars,
                   generation>>

Lookup(t) ==
    /\ pc[t] = "lookup"
    /\ Goto(t, IF key[t] \in Statements(on[t]) THEN "bind" ELSE "prepare")
    /\ UNCHANGED <<backend, calls, on, value, key, lock, cache, bound, frameVars,
                   trackerVars>>

Prepare(t) ==
    /\ pc[t] = "prepare"
    /\ cache' = [cache EXCEPT ![on[t]] = Put(@, key[t], PlanOf(value[t]))]
    /\ Goto(t, "bind")
    /\ UNCHANGED <<backend, calls, on, value, key, lock, bound, frameVars, trackerVars>>

\* With the C API binding is a call of its own; pybind hands the values to the
\* engine with the call that runs the statement.
Bind(t) ==
    /\ pc[t] = "bind"
    /\ Goto(t, "run")
    /\ bound' = IF backend = "capi"
                THEN [bound EXCEPT ![on[t]] = Put(@, key[t], value[t])]
                ELSE bound
    /\ UNCHANGED <<backend, calls, on, value, key, lock, cache, frameVars, trackerVars>>

Run(t) ==
    /\ pc[t] = "run"
    /\ Return(t)
    /\ UNCHANGED <<backend, calls, cache, bound, frameVars, trackerVars>>

Next ==
    \/ \E f \in Frames :
        \/ \E a \in Addresses : NewFrame(f, a)
        \/ FreeFrame(f)
        \/ \E s \in Schemas : ChangeFrame(f, s)
    \/ \E t \in Threads :
        \/ \E c \in Conns, v \in Values \cup Frames : Begin(t, c, v)
        \/ Acquire(t) \/ SignValue(t) \/ SignFrame(t)
        \/ Purge(t) \/ Number(t) \/ Store(t)
        \/ Lookup(t) \/ Prepare(t) \/ Bind(t) \/ Run(t)

Spec == Init /\ [][Next]_vars

-----------------------------------------------------------------------------
(* Properties.                                                             *)

\* With pybind a statement is only run with a value of the type it was compiled for,
\* and with the frame it was compiled for while that has the same columns: "reusing a
\* prepared statement across those widths corrupts later executions"
\* (connection.py:198-200), and so does a recycled address.
PlanFitsValue ==
    \A t \in Threads :
        backend = "pybind" /\ pc[t] \in {"bind", "run"} =>
            cache[on[t]][key[t]] = PlanOf(value[t])

\* With the C API every thread runs its statement with the value that it bound
\* itself, although threads share statements (connection.py:1062-1067).
RunsOwnValue ==
    \A t \in Threads :
        backend = "capi" /\ pc[t] = "run" => bound[on[t]][key[t]] = value[t]

=============================================================================
