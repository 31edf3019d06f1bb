------------------------ MODULE PreparedCacheProofs ------------------------
(***************************************************************************)
(* A cached statement fits what it is run with, for any number of threads, *)
(* connections, frames and addresses, any order of calls and any fate of   *)
(* the frames, if signatures tell the types of plain values apart.         *)
(*                                                                         *)
(* For frames that is the tracker's doing.  An address comes back, and an  *)
(* entry dies, is deleted or is overwritten by another connection's        *)
(* thread; but a generation is given out once, so whatever holds it, the   *)
(* tracker, a key or a cached plan, means the same frame by it.            *)
(***************************************************************************)
EXTENDS PreparedCache, TLAPS

\* Signatures tell types apart (MCPreparedCache checks those of ParamTypes).
KeysTellTypes ==
    \A v, w \in Values : PybindKey[v] = PybindKey[w] => Type[v] = Type[w]

InCall   == {"sign", "purge", "number", "store", "lookup", "prepare", "bind", "run"}
HasKey   == {"store", "lookup", "prepare", "bind", "run"}
HasPlan  == {"bind", "run"}
OfFrames == {"purge", "number", "store"}

\* The variables TypeOK does not give a domain.
Kinds ==
    /\ calls \in Nat
    /\ value = [t \in Threads |-> value[t]]
    /\ key = [t \in Threads |-> key[t]]
    /\ cache = [c \in Conns |-> cache[c]]
    /\ bound = [c \in Conns |-> bound[c]]
    /\ tracker = [a \in Addresses |-> tracker[a]]

\* A thread that looks at the cache of a connection has its lock.
HoldsLock == \A t \in Threads : pc[t] \in InCall => lock[on[t]] = t

\* A call has a parameter; a frame lives as long as the call that has it.
Parameters ==
    \A t \in Threads :
        /\ pc[t] = "idle" => value[t] = NULL
        /\ pc[t] # "idle" => value[t] \in Values \cup Frames
        /\ pc[t] # "idle" /\ IsFrame(value[t]) =>
              backend = "pybind" /\ address[value[t]] # NULL
        /\ pc[t] \in OfFrames => IsFrame(value[t])

\* Frames that live at the same time have addresses of their own.
OwnAddress ==
    \A f, g \in Frames : address[f] = address[g] /\ address[f] # NULL => f = g

\* A key is that of the parameter as it is.
KeysOfValues ==
    \A t \in Threads :
        pc[t] \in HasKey =>
            key[t] = IF IsFrame(value[t]) THEN PointerKey(value[t], key[t][2])
                                          ELSE KeyOf(value[t])

\* Generations, and what frames they mean to the tracker, to threads and to plans.
Tracked == {a \in Addresses : tracker[a] # NoEntry}
Signed  == {t \in Threads : pc[t] \in HasKey /\ IsFrame(value[t])}
PointerKeys(c) == {k \in Statements(c) : k[1] = "pointer"}

Given ==
    {<<tracker[a].generation, tracker[a].frame>> : a \in Tracked}
      \cup {<<key[t][2], value[t]>> : t \in Signed}
      \cup UNION {{<<k[2], cache[c][k][2]>> : k \in PointerKeys(c)} : c \in Conns}

GivenOnce ==
    /\ Given \subseteq (1..generation) \X Frames
    /\ \A p, q \in Given : p[1] = q[1] => p[2] = q[2]

\* What a plan was compiled for is what its key says.
PlanFitsKey(k, plan) ==
    \/ \E v \in Values : k = PybindKey[v] /\ plan = Type[v]
    \/ \E s \in Schemas : k = <<"pointer", k[2], s>> /\ plan = <<"pointer", plan[2], s>>

PlansFitKeys ==
    backend = "pybind" =>
        \A c \in Conns : \A k \in Statements(c) : PlanFitsKey(k, cache[c][k])

\* A thread that binds or runs a statement finds it.
PlansAreThere == \A t \in Threads : pc[t] \in HasPlan => key[t] \in Statements(on[t])

\* What was bound last under a connection's lock.
BoundUnderLock ==
    \A t \in Threads :
        backend = "capi" /\ pc[t] = "run" =>
            key[t] \in DOMAIN bound[on[t]] /\ bound[on[t]][key[t]] = value[t]

\* The inductive invariant.
IInv ==
    /\ TypeOK
    /\ Kinds
    /\ HoldsLock
    /\ Parameters
    /\ OwnAddress
    /\ KeysOfValues
    /\ GivenOnce
    /\ PlansFitKeys
    /\ PlansAreThere
    /\ BoundUnderLock

\* Every step leaves values of the right kind.
LEMMA TypeStep ==
    ASSUME TypeOK, Kinds, Parameters, PlansAreThere, [Next]_vars
    PROVE  TypeOK'
<1>1. ASSUME NEW f \in Frames, NEW a \in Addresses, NewFrame(f, a)
      PROVE  TypeOK'
  BY <1>1 DEF NewFrame, TypeOK, Statements, callVars, trackerVars
<1>2. ASSUME NEW f \in Frames, FreeFrame(f)
      PROVE  TypeOK'
  BY <1>2 DEF FreeFrame, TypeOK, Statements, callVars, trackerVars
<1>3. ASSUME NEW f \in Frames, NEW s \in Schemas, ChangeFrame(f, s)
      PROVE  TypeOK'
  BY <1>3 DEF ChangeFrame, TypeOK, Statements, callVars, trackerVars
<1>4. ASSUME NEW t \in Threads, NEW c \in Conns, NEW v \in Values \cup Frames, Begin(t, c, v)
      PROVE  TypeOK'
  BY <1>4, CacheAssumption DEF Begin, TypeOK, Statements, Goto, frameVars, trackerVars
<1>5. ASSUME NEW t \in Threads, Acquire(t)
      PROVE  TypeOK'
  BY <1>5 DEF Acquire, TypeOK, Statements, Goto, frameVars, trackerVars
<1>6. ASSUME NEW t \in Threads, SignValue(t)
      PROVE  TypeOK'
  BY <1>6 DEF SignValue, TypeOK, Statements, Goto, frameVars, trackerVars
<1>7. ASSUME NEW t \in Threads, SignFrame(t)
      PROVE  TypeOK'
  BY <1>7 DEF SignFrame, TypeOK, Statements, NoEntry, Goto, frameVars, trackerVars
<1>8. ASSUME NEW t \in Threads, Purge(t)
      PROVE  TypeOK'
  <2>1. CASE tracker[address[value[t]]] = NoEntry
    BY <1>8, <2>1, CacheAssumption DEF Purge, TypeOK, Statements, NoEntry, Goto, Return,
       callVars, frameVars, trackerVars
  <2>2. CASE tracker[address[value[t]]] # NoEntry
    <3>1. \A a \in Addresses : tracker'[a].frame \in Frames \cup {NULL}
      BY <1>8, <2>2 DEF Purge, TypeOK, Kinds, NoEntry
    <3> QED
      BY <1>8, <2>2, <3>1, CacheAssumption DEF Purge, TypeOK, Statements, Goto, frameVars
  <2> QED
    BY <2>1, <2>2
<1>9. ASSUME NEW t \in Threads, Number(t)
      PROVE  TypeOK'
  BY <1>9 DEF Number, TypeOK, Statements, NoEntry, Goto, frameVars
<1>10. ASSUME NEW t \in Threads, Store(t)
      PROVE  TypeOK'
  <2>1. value[t] \in Frames
    BY <1>10 DEF Store, Parameters, OfFrames, IsFrame
  <2>2. \A a \in Addresses : tracker'[a].frame \in Frames \cup {NULL}
    BY <1>10, <2>1 DEF Store, TypeOK, Kinds
  <2> QED
    BY <1>10, <2>2 DEF Store, TypeOK, Statements, Goto, frameVars
<1>11. ASSUME NEW t \in Threads, Lookup(t)
      PROVE  TypeOK'
  BY <1>11 DEF Lookup, TypeOK, Statements, Goto, frameVars, trackerVars
<1>12. ASSUME NEW t \in Threads, Prepare(t)
      PROVE  TypeOK'
  <2>1. on[t] \in Conns
    BY <1>12 DEF Prepare, TypeOK
  <2>2. \A c \in Conns : Statements(c) \subseteq Statements(c)'
    BY <1>12, <2>1 DEF Prepare, Kinds, Statements, Put
  <2>3. \A c \in Conns : DOMAIN bound'[c] \subseteq Statements(c)'
    BY <1>12, <2>2 DEF Prepare, TypeOK
  <2> QED
    BY <1>12, <2>3 DEF Prepare, TypeOK, Goto, frameVars, trackerVars
<1>13. ASSUME NEW t \in Threads, Bind(t)
      PROVE  TypeOK'
  <2>1. on[t] \in Conns /\ key[t] \in Statements(on[t])
    BY <1>13 DEF Bind, TypeOK, PlansAreThere, HasPlan
  <2>2. \A c \in Conns : DOMAIN bound'[c] \subseteq Statements(c)'
    BY <1>13, <2>1 DEF Bind, Kinds, TypeOK, Statements, Put
  <2> QED
    BY <1>13, <2>2 DEF Bind, TypeOK, Goto, frameVars, trackerVars
<1>14. ASSUME NEW t \in Threads, Run(t)
      PROVE  TypeOK'
  BY <1>14 DEF Run, TypeOK, Statements, Goto, Return, frameVars, trackerVars
<1>15. CASE UNCHANGED vars
  BY <1>15 DEF vars, TypeOK, Statements, NoEntry, callVars, frameVars, trackerVars
<1> QED
  BY <1>1, <1>2, <1>3, <1>4, <1>5, <1>6, <1>7, <1>8, <1>9, <1>10, <1>11, <1>12, <1>13,
     <1>14, <1>15 DEF Next

\* The functions keep their domains.
LEMMA KindsStep ==
    ASSUME TypeOK, Kinds, [Next]_vars
    PROVE  Kinds'
<1>1. ASSUME NEW f \in Frames, NEW a \in Addresses, NewFrame(f, a)
      PROVE  Kinds'
  BY <1>1 DEF NewFrame, Kinds, TypeOK, callVars, trackerVars
<1>2. ASSUME NEW f \in Frames, FreeFrame(f)
      PROVE  Kinds'
  BY <1>2 DEF FreeFrame, Kinds, TypeOK, callVars, trackerVars
<1>3. ASSUME NEW f \in Frames, NEW s \in Schemas, ChangeFrame(f, s)
      PROVE  Kinds'
  BY <1>3 DEF ChangeFrame, Kinds, TypeOK, callVars, trackerVars
<1>4. ASSUME NEW t \in Threads, NEW c \in Conns, NEW v \in Values \cup Frames, Begin(t, c, v)
      PROVE  Kinds'
  <2>1. calls' \in Nat
    BY <1>4, CacheAssumption DEF Begin, TypeOK
  <2> QED
    BY <1>4, <2>1 DEF Begin, Kinds, frameVars, trackerVars
<1>5. ASSUME NEW t \in Threads, Acquire(t)
      PROVE  Kinds'
  BY <1>5 DEF Acquire, Kinds, TypeOK, Goto, frameVars, trackerVars
<1>6. ASSUME NEW t \in Threads, SignValue(t)
      PROVE  Kinds'
  BY <1>6 DEF SignValue, Kinds, TypeOK, Goto, frameVars, trackerVars
<1>7. ASSUME NEW t \in Threads, SignFrame(t)
      PROVE  Kinds'
  BY <1>7 DEF SignFrame, Kinds, TypeOK, Goto, frameVars, trackerVars
<1>8. ASSUME NEW t \in Threads, Purge(t)
      PROVE  Kinds'
  BY <1>8 DEF Purge, Kinds, TypeOK, Goto, Return, frameVars
<1>9. ASSUME NEW t \in Threads, Number(t)
      PROVE  Kinds'
  BY <1>9 DEF Number, Kinds, TypeOK, Goto, frameVars
<1>10. ASSUME NEW t \in Threads, Store(t)
      PROVE  Kinds'
  BY <1>10 DEF Store, Kinds, TypeOK, Goto, frameVars
<1>11. ASSUME NEW t \in Threads, Lookup(t)
      PROVE  Kinds'
  BY <1>11 DEF Lookup, Kinds, TypeOK, Goto, frameVars, trackerVars
<1>12. ASSUME NEW t \in Threads, Prepare(t)
      PROVE  Kinds'
  BY <1>12 DEF Prepare, Kinds, TypeOK, Goto, frameVars, trackerVars
<1>13. ASSUME NEW t \in Threads, Bind(t)
      PROVE  Kinds'
  BY <1>13 DEF Bind, Kinds, TypeOK, Goto, frameVars, trackerVars
<1>14. ASSUME NEW t \in Threads, Run(t)
      PROVE  Kinds'
  BY <1>14 DEF Run, Kinds, TypeOK, Goto, Return, frameVars, trackerVars
<1>15. CASE UNCHANGED vars
  BY <1>15 DEF vars, Kinds, TypeOK, callVars, frameVars, trackerVars
<1> QED
  BY <1>1, <1>2, <1>3, <1>4, <1>5, <1>6, <1>7, <1>8, <1>9, <1>10, <1>11, <1>12, <1>13,
     <1>14, <1>15 DEF Next

\* A lock is taken when it is free, and given back by its holder.
LEMMA LockStep ==
    ASSUME TypeOK, Kinds, HoldsLock, [Next]_vars
    PROVE  HoldsLock'
<1>1. ASSUME NEW f \in Frames, NEW a \in Addresses, NewFrame(f, a)
      PROVE  HoldsLock'
  BY <1>1 DEF NewFrame, Kinds, TypeOK, HoldsLock, InCall, callVars, trackerVars
<1>2. ASSUME NEW f \in Frames, FreeFrame(f)
      PROVE  HoldsLock'
  BY <1>2 DEF FreeFrame, Kinds, TypeOK, HoldsLock, InCall, callVars, trackerVars
<1>3. ASSUME NEW f \in Frames, NEW s \in Schemas, ChangeFrame(f, s)
      PROVE  HoldsLock'
  BY <1>3 DEF ChangeFrame, Kinds, TypeOK, HoldsLock, InCall, callVars, trackerVars
<1>4. ASSUME NEW t \in Threads, NEW c \in Conns, NEW v \in Values \cup Frames, Begin(t, c, v)
      PROVE  HoldsLock'
  BY <1>4 DEF Begin, Kinds, TypeOK, HoldsLock, InCall, Goto, frameVars, trackerVars
<1>5. ASSUME NEW t \in Threads, Acquire(t)
      PROVE  HoldsLock'
  BY <1>5, CacheAssumption DEF Acquire, Kinds, TypeOK, HoldsLock, InCall, Goto,
     frameVars, trackerVars
<1>6. ASSUME NEW t \in Threads, SignValue(t)
      PROVE  HoldsLock'
  BY <1>6 DEF SignValue, Kinds, TypeOK, HoldsLock, InCall, Goto, frameVars, trackerVars
<1>7. ASSUME NEW t \in Threads, SignFrame(t)
      PROVE  HoldsLock'
  BY <1>7 DEF SignFrame, Kinds, TypeOK, HoldsLock, InCall, Goto, frameVars, trackerVars
<1>8. ASSUME NEW t \in Threads, Purge(t)
      PROVE  HoldsLock'
  BY <1>8 DEF Purge, Kinds, TypeOK, HoldsLock, InCall, Goto, Return, frameVars
<1>9. ASSUME NEW t \in Threads, Number(t)
      PROVE  HoldsLock'
  BY <1>9 DEF Number, Kinds, TypeOK, HoldsLock, InCall, Goto, frameVars
<1>10. ASSUME NEW t \in Threads, Store(t)
      PROVE  HoldsLock'
  BY <1>10 DEF Store, Kinds, TypeOK, HoldsLock, InCall, Goto, frameVars
<1>11. ASSUME NEW t \in Threads, Lookup(t)
      PROVE  HoldsLock'
  BY <1>11 DEF Lookup, Kinds, TypeOK, HoldsLock, InCall, Goto, frameVars, trackerVars
<1>12. ASSUME NEW t \in Threads, Prepare(t)
      PROVE  HoldsLock'
  BY <1>12 DEF Prepare, Kinds, TypeOK, HoldsLock, InCall, Goto, frameVars, trackerVars
<1>13. ASSUME NEW t \in Threads, Bind(t)
      PROVE  HoldsLock'
  BY <1>13 DEF Bind, Kinds, TypeOK, HoldsLock, InCall, Goto, frameVars, trackerVars
<1>14. ASSUME NEW t \in Threads, Run(t)
      PROVE  HoldsLock'
  BY <1>14 DEF Run, Kinds, TypeOK, HoldsLock, InCall, Goto, Return, frameVars,
     trackerVars
<1>15. CASE UNCHANGED vars
  BY <1>15 DEF vars, Kinds, TypeOK, HoldsLock, InCall, callVars, frameVars, trackerVars
<1> QED
  BY <1>1, <1>2, <1>3, <1>4, <1>5, <1>6, <1>7, <1>8, <1>9, <1>10, <1>11, <1>12, <1>13,
     <1>14, <1>15 DEF Next

\* Frames in use are not freed.
LEMMA ParametersStep ==
    ASSUME TypeOK, Kinds, Parameters, [Next]_vars
    PROVE  Parameters'
<1>1. ASSUME NEW f \in Frames, NEW a \in Addresses, NewFrame(f, a)
      PROVE  Parameters'
  BY <1>1, CacheAssumption DEF NewFrame, Kinds, TypeOK, Parameters, IsFrame, OfFrames,
     callVars, trackerVars
<1>2. ASSUME NEW f \in Frames, FreeFrame(f)
      PROVE  Parameters'
  BY <1>2 DEF FreeFrame, Kinds, TypeOK, Parameters, IsFrame, InUse, OfFrames, callVars,
     trackerVars
<1>3. ASSUME NEW f \in Frames, NEW s \in Schemas, ChangeFrame(f, s)
      PROVE  Parameters'
  BY <1>3 DEF ChangeFrame, Kinds, TypeOK, Parameters, IsFrame, InUse, OfFrames,
     callVars, trackerVars
<1>4. ASSUME NEW t \in Threads, NEW c \in Conns, NEW v \in Values \cup Frames, Begin(t, c, v)
      PROVE  Parameters'
  BY <1>4 DEF Begin, Kinds, TypeOK, Parameters, IsFrame, OfFrames, Goto, frameVars,
     trackerVars
<1>5. ASSUME NEW t \in Threads, Acquire(t)
      PROVE  Parameters'
  BY <1>5 DEF Acquire, Kinds, TypeOK, Parameters, IsFrame, OfFrames, Goto, frameVars,
     trackerVars
<1>6. ASSUME NEW t \in Threads, SignValue(t)
      PROVE  Parameters'
  BY <1>6 DEF SignValue, Kinds, TypeOK, Parameters, IsFrame, OfFrames, Goto, frameVars,
     trackerVars
<1>7. ASSUME NEW t \in Threads, SignFrame(t)
      PROVE  Parameters'
  BY <1>7 DEF SignFrame, Kinds, TypeOK, Parameters, IsFrame, OfFrames, Goto, frameVars,
     trackerVars
<1>8. ASSUME NEW t \in Threads, Purge(t)
      PROVE  Parameters'
  BY <1>8 DEF Purge, Kinds, TypeOK, Parameters, IsFrame, OfFrames, Goto, Return,
     frameVars
<1>9. ASSUME NEW t \in Threads, Number(t)
      PROVE  Parameters'
  BY <1>9 DEF Number, Kinds, TypeOK, Parameters, IsFrame, OfFrames, Goto, frameVars
<1>10. ASSUME NEW t \in Threads, Store(t)
      PROVE  Parameters'
  BY <1>10 DEF Store, Kinds, TypeOK, Parameters, IsFrame, OfFrames, Goto, frameVars
<1>11. ASSUME NEW t \in Threads, Lookup(t)
      PROVE  Parameters'
  BY <1>11 DEF Lookup, Kinds, TypeOK, Parameters, IsFrame, OfFrames, Goto, frameVars,
     trackerVars
<1>12. ASSUME NEW t \in Threads, Prepare(t)
      PROVE  Parameters'
  BY <1>12 DEF Prepare, Kinds, TypeOK, Parameters, IsFrame, OfFrames, Goto, frameVars,
     trackerVars
<1>13. ASSUME NEW t \in Threads, Bind(t)
      PROVE  Parameters'
  BY <1>13 DEF Bind, Kinds, TypeOK, Parameters, IsFrame, OfFrames, Goto, frameVars,
     trackerVars
<1>14. ASSUME NEW t \in Threads, Run(t)
      PROVE  Parameters'
  BY <1>14 DEF Run, Kinds, TypeOK, Parameters, IsFrame, OfFrames, Goto, Return,
     frameVars, trackerVars
<1>15. CASE UNCHANGED vars
  BY <1>15 DEF vars, Kinds, TypeOK, Parameters, IsFrame, OfFrames, callVars, frameVars,
     trackerVars
<1> QED
  BY <1>1, <1>2, <1>3, <1>4, <1>5, <1>6, <1>7, <1>8, <1>9, <1>10, <1>11, <1>12, <1>13,
     <1>14, <1>15 DEF Next

\* A new frame gets an address that no frame has.
LEMMA AddressStep ==
    ASSUME TypeOK, OwnAddress, [Next]_vars
    PROVE  OwnAddress'
<1>1. ASSUME NEW f \in Frames, NEW a \in Addresses, NewFrame(f, a)
      PROVE  OwnAddress'
  BY <1>1 DEF NewFrame, TypeOK, OwnAddress, callVars, trackerVars
<1>2. ASSUME NEW f \in Frames, FreeFrame(f)
      PROVE  OwnAddress'
  BY <1>2 DEF FreeFrame, TypeOK, OwnAddress, callVars, trackerVars
<1>3. ASSUME NEW f \in Frames, NEW s \in Schemas, ChangeFrame(f, s)
      PROVE  OwnAddress'
  BY <1>3 DEF ChangeFrame, TypeOK, OwnAddress, callVars, trackerVars
<1>4. ASSUME NEW t \in Threads, NEW c \in Conns, NEW v \in Values \cup Frames, Begin(t, c, v)
      PROVE  OwnAddress'
  BY <1>4 DEF Begin, TypeOK, OwnAddress, Goto, frameVars, trackerVars
<1>5. ASSUME NEW t \in Threads, Acquire(t)
      PROVE  OwnAddress'
  BY <1>5 DEF Acquire, TypeOK, OwnAddress, Goto, frameVars, trackerVars
<1>6. ASSUME NEW t \in Threads, SignValue(t)
      PROVE  OwnAddress'
  BY <1>6 DEF SignValue, TypeOK, OwnAddress, Goto, frameVars, trackerVars
<1>7. ASSUME NEW t \in Threads, SignFrame(t)
      PROVE  OwnAddress'
  BY <1>7 DEF SignFrame, TypeOK, OwnAddress, Goto, frameVars, trackerVars
<1>8. ASSUME NEW t \in Threads, Purge(t)
      PROVE  OwnAddress'
  BY <1>8 DEF Purge, TypeOK, OwnAddress, Goto, Return, frameVars
<1>9. ASSUME NEW t \in Threads, Number(t)
      PROVE  OwnAddress'
  BY <1>9 DEF Number, TypeOK, OwnAddress, Goto, frameVars
<1>10. ASSUME NEW t \in Threads, Store(t)
      PROVE  OwnAddress'
  BY <1>10 DEF Store, TypeOK, OwnAddress, Goto, frameVars
<1>11. ASSUME NEW t \in Threads, Lookup(t)
      PROVE  OwnAddress'
  BY <1>11 DEF Lookup, TypeOK, OwnAddress, Goto, frameVars, trackerVars
<1>12. ASSUME NEW t \in Threads, Prepare(t)
      PROVE  OwnAddress'
  BY <1>12 DEF Prepare, TypeOK, OwnAddress, Goto, frameVars, trackerVars
<1>13. ASSUME NEW t \in Threads, Bind(t)
      PROVE  OwnAddress'
  BY <1>13 DEF Bind, TypeOK, OwnAddress, Goto, frameVars, trackerVars
<1>14. ASSUME NEW t \in Threads, Run(t)
      PROVE  OwnAddress'
  BY <1>14 DEF Run, TypeOK, OwnAddress, Goto, Return, frameVars, trackerVars
<1>15. CASE UNCHANGED vars
  BY <1>15 DEF vars, TypeOK, OwnAddress, callVars, frameVars, trackerVars
<1> QED
  BY <1>1, <1>2, <1>3, <1>4, <1>5, <1>6, <1>7, <1>8, <1>9, <1>10, <1>11, <1>12, <1>13,
     <1>14, <1>15 DEF Next

-----------------------------------------------------------------------------
(* Signing a frame.                                                        *)

\* The frame is known and its key is computed, or it is yet to be numbered.
LEMMA SignFrameDoes ==
    ASSUME TypeOK, Kinds, NEW t \in Threads, SignFrame(t)
    PROVE  /\ pc[t] = "sign" /\ IsFrame(value[t])
           /\ UNCHANGED <<backend, on, value, lock, cache, bound, address, schema, tracker,
                          generation>>
           /\ \A u \in Threads \ {t} : pc'[u] = pc[u] /\ key'[u] = key[u]
           /\ \/ pc'[t] \in {"purge", "number"}
              \/ /\ pc'[t] = "lookup" /\ IsTracked(value[t])
                 /\ key'[t] = PointerKey(value[t], tracker[address[value[t]]].generation)
<1>1. CASE IsTracked(value[t])
  BY <1>1 DEF SignFrame, TypeOK, Kinds, Goto, frameVars, trackerVars
<1>2. CASE ~IsTracked(value[t])
  BY <1>2 DEF SignFrame, TypeOK, Kinds, Goto, frameVars, trackerVars
<1> QED
  BY <1>1, <1>2

\* The entry is deleted, or it was gone and the call raises.
LEMMA PurgeDoes ==
    ASSUME TypeOK, Kinds, NEW t \in Threads, Purge(t)
    PROVE  /\ pc[t] = "purge"
           /\ UNCHANGED <<backend, cache, bound, address, schema, generation>>
           /\ \A u \in Threads \ {t} :
                 pc'[u] = pc[u] /\ on'[u] = on[u] /\ value'[u] = value[u] /\ key'[u] = key[u]
           /\ pc'[t] \in {"idle", "number"}
           /\ \A a \in Addresses : tracker'[a] \in {tracker[a], NoEntry}
<1>1. CASE tracker[address[value[t]]] = NoEntry
  BY <1>1 DEF Purge, TypeOK, Kinds, Return, Goto, frameVars
<1>2. CASE tracker[address[value[t]]] # NoEntry
  BY <1>2 DEF Purge, TypeOK, Kinds, Goto, frameVars
<1> QED
  BY <1>1, <1>2

-----------------------------------------------------------------------------
(* Keys, plans and bound values.                                           *)

\* A key is computed from the parameter, which does not change while it is in use.
LEMMA KeysStep ==
    ASSUME TypeOK, Kinds, Parameters, KeysOfValues, [Next]_vars
    PROVE  KeysOfValues'
<1>1. ASSUME NEW f \in Frames, NEW a \in Addresses, NewFrame(f, a)
      PROVE  KeysOfValues'
  BY <1>1 DEF NewFrame, TypeOK, Kinds, Parameters, KeysOfValues, HasKey, IsFrame, KeyOf,
     PointerKey, OfFrames, callVars, trackerVars
<1>2. ASSUME NEW f \in Frames, FreeFrame(f)
      PROVE  KeysOfValues'
  BY <1>2 DEF FreeFrame, TypeOK, Kinds, Parameters, KeysOfValues, HasKey, IsFrame,
     InUse, KeyOf, PointerKey, OfFrames, callVars, trackerVars
<1>3. ASSUME NEW f \in Frames, NEW s \in Schemas, ChangeFrame(f, s)
      PROVE  KeysOfValues'
  BY <1>3 DEF ChangeFrame, TypeOK, Kinds, Parameters, KeysOfValues, HasKey, IsFrame,
     InUse, KeyOf, PointerKey, OfFrames, callVars, trackerVars
<1>4. ASSUME NEW t \in Threads, NEW c \in Conns, NEW v \in Values \cup Frames, Begin(t, c, v)
      PROVE  KeysOfValues'
  BY <1>4 DEF Begin, TypeOK, Kinds, Parameters, KeysOfValues, HasKey, IsFrame, KeyOf,
     PointerKey, OfFrames, Goto, frameVars, trackerVars
<1>5. ASSUME NEW t \in Threads, Acquire(t)
      PROVE  KeysOfValues'
  BY <1>5 DEF Acquire, TypeOK, Kinds, Parameters, KeysOfValues, HasKey, IsFrame, KeyOf,
     PointerKey, OfFrames, Goto, frameVars, trackerVars
<1>6. ASSUME NEW t \in Threads, SignValue(t)
      PROVE  KeysOfValues'
  BY <1>6 DEF SignValue, TypeOK, Kinds, Parameters, KeysOfValues, HasKey, IsFrame,
     KeyOf, PointerKey, OfFrames, Goto, frameVars, trackerVars
<1>7. ASSUME NEW t \in Threads, SignFrame(t)
      PROVE  KeysOfValues'
  BY <1>7 DEF SignFrame, TypeOK, Kinds, Parameters, KeysOfValues, HasKey, IsFrame,
     KeyOf, PointerKey, OfFrames, Goto, frameVars, trackerVars
<1>8. ASSUME NEW t \in Threads, Purge(t)
      PROVE  KeysOfValues'
  BY <1>8 DEF Purge, TypeOK, Kinds, Parameters, KeysOfValues, HasKey, IsFrame, KeyOf,
     PointerKey, OfFrames, Goto, Return, frameVars
<1>9. ASSUME NEW t \in Threads, Number(t)
      PROVE  KeysOfValues'
  BY <1>9 DEF Number, TypeOK, Kinds, Parameters, KeysOfValues, HasKey, IsFrame, KeyOf,
     PointerKey, OfFrames, Goto, frameVars
<1>10. ASSUME NEW t \in Threads, Store(t)
      PROVE  KeysOfValues'
  BY <1>10 DEF Store, TypeOK, Kinds, Parameters, KeysOfValues, HasKey, IsFrame, KeyOf,
     PointerKey, OfFrames, Goto, frameVars
<1>11. ASSUME NEW t \in Threads, Lookup(t)
      PROVE  KeysOfValues'
  BY <1>11 DEF Lookup, TypeOK, Kinds, Parameters, KeysOfValues, HasKey, IsFrame, KeyOf,
     PointerKey, OfFrames, Goto, frameVars, trackerVars
<1>12. ASSUME NEW t \in Threads, Prepare(t)
      PROVE  KeysOfValues'
  BY <1>12 DEF Prepare, TypeOK, Kinds, Parameters, KeysOfValues, HasKey, IsFrame, KeyOf,
     PointerKey, OfFrames, Goto, frameVars, trackerVars
<1>13. ASSUME NEW t \in Threads, Bind(t)
      PROVE  KeysOfValues'
  BY <1>13 DEF Bind, TypeOK, Kinds, Parameters, KeysOfValues, HasKey, IsFrame, KeyOf,
     PointerKey, OfFrames, Goto, frameVars, trackerVars
<1>14. ASSUME NEW t \in Threads, Run(t)
      PROVE  KeysOfValues'
  BY <1>14 DEF Run, TypeOK, Kinds, Parameters, KeysOfValues, HasKey, IsFrame, KeyOf,
     PointerKey, OfFrames, Goto, Return, frameVars, trackerVars
<1>15. CASE UNCHANGED vars
  BY <1>15 DEF vars, TypeOK, Kinds, Parameters, KeysOfValues, HasKey, IsFrame, KeyOf,
     PointerKey, OfFrames, callVars, frameVars, trackerVars
<1> QED
  BY <1>1, <1>2, <1>3, <1>4, <1>5, <1>6, <1>7, <1>8, <1>9, <1>10, <1>11, <1>12, <1>13,
     <1>14, <1>15 DEF Next

\* A statement is prepared before it is bound and stays in the cache.
LEMMA PlansStayStep ==
    ASSUME TypeOK, Kinds, PlansAreThere, [Next]_vars
    PROVE  PlansAreThere'
<1>1. ASSUME NEW f \in Frames, NEW a \in Addresses, NewFrame(f, a)
      PROVE  PlansAreThere'
  BY <1>1 DEF NewFrame, TypeOK, Kinds, PlansAreThere, HasPlan, Statements, callVars,
     trackerVars
<1>2. ASSUME NEW f \in Frames, FreeFrame(f)
      PROVE  PlansAreThere'
  BY <1>2 DEF FreeFrame, TypeOK, Kinds, PlansAreThere, HasPlan, Statements, callVars,
     trackerVars
<1>3. ASSUME NEW f \in Frames, NEW s \in Schemas, ChangeFrame(f, s)
      PROVE  PlansAreThere'
  BY <1>3 DEF ChangeFrame, TypeOK, Kinds, PlansAreThere, HasPlan, Statements, callVars,
     trackerVars
<1>4. ASSUME NEW t \in Threads, NEW c \in Conns, NEW v \in Values \cup Frames, Begin(t, c, v)
      PROVE  PlansAreThere'
  BY <1>4 DEF Begin, TypeOK, Kinds, PlansAreThere, HasPlan, Statements, Goto, frameVars,
     trackerVars
<1>5. ASSUME NEW t \in Threads, Acquire(t)
      PROVE  PlansAreThere'
  BY <1>5 DEF Acquire, TypeOK, Kinds, PlansAreThere, HasPlan, Statements, Goto,
     frameVars, trackerVars
<1>6. ASSUME NEW t \in Threads, SignValue(t)
      PROVE  PlansAreThere'
  BY <1>6 DEF SignValue, TypeOK, Kinds, PlansAreThere, HasPlan, Statements, Goto,
     frameVars, trackerVars
<1>7. ASSUME NEW t \in Threads, SignFrame(t)
      PROVE  PlansAreThere'
  BY <1>7, SignFrameDoes, CacheAssumption DEF PlansAreThere, HasPlan, Statements
<1>8. ASSUME NEW t \in Threads, Purge(t)
      PROVE  PlansAreThere'
  BY <1>8, PurgeDoes, CacheAssumption DEF PlansAreThere, HasPlan, Statements
<1>9. ASSUME NEW t \in Threads, Number(t)
      PROVE  PlansAreThere'
  BY <1>9 DEF Number, TypeOK, Kinds, PlansAreThere, HasPlan, Statements, Goto, frameVars
<1>10. ASSUME NEW t \in Threads, Store(t)
      PROVE  PlansAreThere'
  BY <1>10 DEF Store, TypeOK, Kinds, PlansAreThere, HasPlan, Statements, Goto, frameVars
<1>11. ASSUME NEW t \in Threads, Lookup(t)
      PROVE  PlansAreThere'
  BY <1>11 DEF Lookup, TypeOK, Kinds, PlansAreThere, HasPlan, Statements, Goto,
     frameVars, trackerVars
<1>12. ASSUME NEW t \in Threads, Prepare(t)
      PROVE  PlansAreThere'
  BY <1>12 DEF Prepare, TypeOK, Kinds, PlansAreThere, HasPlan, Statements, Put, Goto,
     frameVars, trackerVars
<1>13. ASSUME NEW t \in Threads, Bind(t)
      PROVE  PlansAreThere'
  BY <1>13 DEF Bind, TypeOK, Kinds, PlansAreThere, HasPlan, Statements, Put, Goto,
     frameVars, trackerVars
<1>14. ASSUME NEW t \in Threads, Run(t)
      PROVE  PlansAreThere'
  BY <1>14 DEF Run, TypeOK, Kinds, PlansAreThere, HasPlan, Statements, Goto, Return,
     frameVars, trackerVars
<1>15. CASE UNCHANGED vars
  BY <1>15 DEF vars, TypeOK, Kinds, PlansAreThere, HasPlan, Statements, callVars,
     frameVars, trackerVars
<1> QED
  BY <1>1, <1>2, <1>3, <1>4, <1>5, <1>6, <1>7, <1>8, <1>9, <1>10, <1>11, <1>12, <1>13,
     <1>14, <1>15 DEF Next

\* Nobody binds another value between binding and running: the lock is held.
LEMMA BoundStep ==
    ASSUME TypeOK, Kinds, HoldsLock, BoundUnderLock, [Next]_vars
    PROVE  BoundUnderLock'
<1>1. ASSUME NEW f \in Frames, NEW a \in Addresses, NewFrame(f, a)
      PROVE  BoundUnderLock'
  BY <1>1 DEF NewFrame, TypeOK, Kinds, HoldsLock, InCall, BoundUnderLock, callVars,
     trackerVars
<1>2. ASSUME NEW f \in Frames, FreeFrame(f)
      PROVE  BoundUnderLock'
  BY <1>2 DEF FreeFrame, TypeOK, Kinds, HoldsLock, InCall, BoundUnderLock, callVars,
     trackerVars
<1>3. ASSUME NEW f \in Frames, NEW s \in Schemas, ChangeFrame(f, s)
      PROVE  BoundUnderLock'
  BY <1>3 DEF ChangeFrame, TypeOK, Kinds, HoldsLock, InCall, BoundUnderLock, callVars,
     trackerVars
<1>4. ASSUME NEW t \in Threads, NEW c \in Conns, NEW v \in Values \cup Frames, Begin(t, c, v)
      PROVE  BoundUnderLock'
  BY <1>4 DEF Begin, TypeOK, Kinds, HoldsLock, InCall, BoundUnderLock, Goto, frameVars,
     trackerVars
<1>5. ASSUME NEW t \in Threads, Acquire(t)
      PROVE  BoundUnderLock'
  BY <1>5 DEF Acquire, TypeOK, Kinds, HoldsLock, InCall, BoundUnderLock, Goto,
     frameVars, trackerVars
<1>6. ASSUME NEW t \in Threads, SignValue(t)
      PROVE  BoundUnderLock'
  BY <1>6 DEF SignValue, TypeOK, Kinds, HoldsLock, InCall, BoundUnderLock, Goto,
     frameVars, trackerVars
<1>7. ASSUME NEW t \in Threads, SignFrame(t)
      PROVE  BoundUnderLock'
  BY <1>7, SignFrameDoes, CacheAssumption DEF BoundUnderLock
<1>8. ASSUME NEW t \in Threads, Purge(t)
      PROVE  BoundUnderLock'
  BY <1>8, PurgeDoes, CacheAssumption DEF BoundUnderLock
<1>9. ASSUME NEW t \in Threads, Number(t)
      PROVE  BoundUnderLock'
  BY <1>9 DEF Number, TypeOK, Kinds, HoldsLock, InCall, BoundUnderLock, Goto, frameVars
<1>10. ASSUME NEW t \in Threads, Store(t)
      PROVE  BoundUnderLock'
  BY <1>10 DEF Store, TypeOK, Kinds, HoldsLock, InCall, BoundUnderLock, Goto, frameVars
<1>11. ASSUME NEW t \in Threads, Lookup(t)
      PROVE  BoundUnderLock'
  BY <1>11 DEF Lookup, TypeOK, Kinds, HoldsLock, InCall, BoundUnderLock, Goto,
     frameVars, trackerVars
<1>12. ASSUME NEW t \in Threads, Prepare(t)
      PROVE  BoundUnderLock'
  BY <1>12 DEF Prepare, TypeOK, Kinds, HoldsLock, InCall, BoundUnderLock, Put, Goto,
     frameVars, trackerVars
<1>13. ASSUME NEW t \in Threads, Bind(t)
      PROVE  BoundUnderLock'
  <2>1. on[t] \in Conns /\ pc[t] = "bind" /\ lock[on[t]] = t
    BY <1>13 DEF Bind, TypeOK, HoldsLock, InCall
  <2>2. UNCHANGED <<backend, on, value, key>> /\ \A u \in Threads \ {t} : pc'[u] = pc[u]
    BY <1>13 DEF Bind, TypeOK, Goto
  <2>3. backend = "capi" => \A c \in Conns :
            bound'[c] = IF c = on[t] THEN Put(bound[c], key[t], value[t]) ELSE bound[c]
    BY <1>13 DEF Bind, Kinds
  <2> SUFFICES ASSUME NEW u \in Threads, backend = "capi", pc'[u] = "run"
               PROVE  key[u] \in DOMAIN bound'[on[u]] /\ bound'[on[u]][key[u]] = value[u]
    BY <2>2 DEF BoundUnderLock
  <2>4. CASE u = t
    BY <2>1, <2>3, <2>4 DEF Put
  <2>5. CASE u # t
    <3>1. pc[u] = "run" /\ on[u] \in Conns /\ lock[on[u]] = u
      BY <2>2, <2>5 DEF TypeOK, HoldsLock, InCall
    <3>2. on[u] # on[t]
      BY <2>1, <2>5, <3>1
    <3> QED
      BY <2>3, <3>1, <3>2 DEF BoundUnderLock
  <2> QED
    BY <2>4, <2>5
<1>14. ASSUME NEW t \in Threads, Run(t)
      PROVE  BoundUnderLock'
  BY <1>14 DEF Run, TypeOK, Kinds, HoldsLock, InCall, BoundUnderLock, Goto, Return,
     frameVars, trackerVars
<1>15. CASE UNCHANGED vars
  BY <1>15 DEF vars, TypeOK, Kinds, HoldsLock, InCall, BoundUnderLock, callVars,
     frameVars, trackerVars
<1> QED
  BY <1>1, <1>2, <1>3, <1>4, <1>5, <1>6, <1>7, <1>8, <1>9, <1>10, <1>11, <1>12, <1>13,
     <1>14, <1>15 DEF Next

-----------------------------------------------------------------------------
(* Generations.                                                            *)

\* Whatever the tracker, a thread or a plan means by a generation is in G.
MeantIn(G) ==
    /\ \A a \in Addresses :
          tracker[a] # NoEntry => <<tracker[a].generation, tracker[a].frame>> \in G
    /\ \A t \in Threads :
          pc[t] \in HasKey /\ IsFrame(value[t]) => <<key[t][2], value[t]>> \in G
    /\ \A c \in Conns : \A k \in Statements(c) :
          k[1] = "pointer" => <<k[2], cache[c][k][2]>> \in G

\* The same after a step.
NextMeantIn(G) ==
    /\ \A a \in Addresses :
          tracker'[a] # NoEntry => <<tracker'[a].generation, tracker'[a].frame>> \in G
    /\ \A t \in Threads :
          pc'[t] \in HasKey /\ IsFrame(value'[t]) => <<key'[t][2], value'[t]>> \in G
    /\ \A c \in Conns : \A k \in DOMAIN cache'[c] :
          k[1] = "pointer" => <<k[2], cache'[c][k][2]>> \in G

LEMMA GivenIsMeant == MeantIn(Given)
BY DEF MeantIn, Given, Tracked, Signed, PointerKeys

LEMMA MeantIsGiven ==
    ASSUME NEW G, NextMeantIn(G)
    PROVE  Given' \subseteq G
BY DEF NextMeantIn, Given, Tracked, Signed, PointerKeys, Statements, NoEntry, IsFrame

\* No step gives a generation to a second frame; Number gives a new one out.
GivenGrows ==
    \/ generation' = generation /\ NextMeantIn(Given)
    \/ \E f \in Frames :
          generation' = generation + 1 /\ NextMeantIn(Given \cup {<<generation + 1, f>>})

\* Whoever computes a key finds the frame tracked or numbers it anew.
LEMMA GivenStep ==
    ASSUME TypeOK, Kinds, Parameters, OwnAddress, KeysOfValues, GivenOnce, [Next]_vars
    PROVE  GivenGrows
<1>1. MeantIn(Given)
  BY GivenIsMeant
<1>2. ASSUME NEW f \in Frames, NEW a \in Addresses, NewFrame(f, a)
      PROVE  GivenGrows
  BY <1>2, <1>1 DEF NewFrame, TypeOK, Kinds, GivenGrows, MeantIn, NextMeantIn, HasKey,
     IsFrame, Statements, callVars, trackerVars
<1>3. ASSUME NEW f \in Frames, FreeFrame(f)
      PROVE  GivenGrows
  BY <1>3, <1>1 DEF FreeFrame, TypeOK, Kinds, GivenGrows, MeantIn, NextMeantIn, HasKey,
     IsFrame, Statements, callVars, trackerVars
<1>4. ASSUME NEW f \in Frames, NEW s \in Schemas, ChangeFrame(f, s)
      PROVE  GivenGrows
  BY <1>4, <1>1 DEF ChangeFrame, TypeOK, Kinds, GivenGrows, MeantIn, NextMeantIn,
     HasKey, IsFrame, Statements, callVars, trackerVars
<1>5. ASSUME NEW t \in Threads, NEW c \in Conns, NEW v \in Values \cup Frames, Begin(t, c, v)
      PROVE  GivenGrows
  BY <1>5, <1>1 DEF Begin, TypeOK, Kinds, GivenGrows, MeantIn, NextMeantIn, HasKey,
     IsFrame, Statements, Goto, frameVars, trackerVars
<1>6. ASSUME NEW t \in Threads, Acquire(t)
      PROVE  GivenGrows
  BY <1>6, <1>1 DEF Acquire, TypeOK, Kinds, GivenGrows, MeantIn, NextMeantIn, HasKey,
     IsFrame, Statements, Goto, frameVars, trackerVars
<1>7. ASSUME NEW t \in Threads, SignValue(t)
      PROVE  GivenGrows
  BY <1>7, <1>1 DEF SignValue, TypeOK, Kinds, GivenGrows, MeantIn, NextMeantIn, HasKey,
     IsFrame, Statements, Goto, frameVars, trackerVars
<1>8. ASSUME NEW t \in Threads, SignFrame(t)
      PROVE  GivenGrows
  <2>1. NextMeantIn(Given)
    <3>1. CASE pc'[t] \in {"purge", "number"}
      BY <1>1, <1>8, <3>1, SignFrameDoes DEF MeantIn, NextMeantIn, HasKey, Statements
    <3>2. CASE pc'[t] = "lookup"
      <4>1. /\ IsTracked(value[t]) /\ value[t] \in Frames
            /\ key'[t] = PointerKey(value[t], tracker[address[value[t]]].generation)
        BY <1>8, <3>2, SignFrameDoes DEF IsFrame
      <4>2. address[value[t]] \in Addresses
        BY <1>8, <4>1, SignFrameDoes DEF Parameters, IsFrame, TypeOK
      <4>3. tracker[address[value[t]]] # NoEntry /\ tracker[address[value[t]]].frame = value[t]
        <5>1. tracker[address[value[t]]] # NoEntry
          BY <4>1 DEF IsTracked
        <5>2. tracker[address[value[t]]].frame \in Frames
          BY <1>1, <4>2, <5>1 DEF MeantIn, GivenOnce
        <5>3. /\ address[tracker[address[value[t]]].frame] = address[value[t]]
              /\ address[value[t]] # NULL
          BY <4>1, <4>2, CacheAssumption DEF IsTracked
        <5> QED
          BY <4>1, <5>1, <5>2, <5>3 DEF OwnAddress
      <4>4. <<key'[t][2], value[t]>> \in Given
        BY <1>1, <4>1, <4>2, <4>3 DEF MeantIn, PointerKey
      <4> QED
        BY <1>1, <1>8, <4>4, SignFrameDoes DEF MeantIn, NextMeantIn, Statements
    <3> QED
      BY <1>8, <3>1, <3>2, SignFrameDoes
  <2> QED
    BY <1>8, <2>1, SignFrameDoes DEF GivenGrows
<1>9. ASSUME NEW t \in Threads, Purge(t)
      PROVE  GivenGrows
  BY <1>1, <1>9, PurgeDoes DEF MeantIn, NextMeantIn, GivenGrows, HasKey, Statements
<1>10. ASSUME NEW t \in Threads, Number(t)
      PROVE  GivenGrows
  <2>1. /\ UNCHANGED <<tracker, cache, value>> /\ IsFrame(value[t])
        /\ generation' = generation + 1 /\ key'[t] = PointerKey(value[t], generation')
        /\ \A u \in Threads \ {t} : pc'[u] = pc[u] /\ key'[u] = key[u]
    BY <1>10 DEF Number, TypeOK, Kinds, Parameters, OfFrames, Goto
  <2>2. key'[t][2] = generation + 1
    BY <2>1 DEF PointerKey
  <2>3. NextMeantIn(Given \cup {<<generation + 1, value[t]>>})
    BY <1>1, <2>1, <2>2 DEF MeantIn, NextMeantIn, Statements
  <2> QED
    BY <2>1, <2>3 DEF GivenGrows, IsFrame
<1>11. ASSUME NEW t \in Threads, Store(t)
      PROVE  GivenGrows
  <2>1. /\ UNCHANGED <<generation, cache, value, key>> /\ IsFrame(value[t])
        /\ \A u \in Threads \ {t} : pc'[u] = pc[u]
        /\ pc[t] = "store"
    BY <1>11 DEF Store, TypeOK, Parameters, OfFrames, Goto
  <2>2. <<key[t][2], value[t]>> \in Given
    BY <1>1, <2>1 DEF MeantIn, HasKey
  <2>3. \A a \in Addresses :
            tracker'[a] \in {tracker[a], [generation |-> key[t][2], frame |-> value[t]]}
    BY <1>11 DEF Store, Kinds
  <2>4. NextMeantIn(Given)
    BY <1>1, <2>1, <2>2, <2>3 DEF MeantIn, NextMeantIn, Statements
  <2> QED
    BY <2>1, <2>4 DEF GivenGrows
<1>12. ASSUME NEW t \in Threads, Lookup(t)
      PROVE  GivenGrows
  BY <1>12, <1>1 DEF Lookup, TypeOK, Kinds, GivenGrows, MeantIn, NextMeantIn, HasKey,
     IsFrame, Statements, Goto, frameVars, trackerVars
<1>13. ASSUME NEW t \in Threads, Prepare(t)
      PROVE  GivenGrows
  <2>1. /\ UNCHANGED <<generation, tracker, value, key>> /\ pc[t] = "prepare"
        /\ \A u \in Threads \ {t} : pc'[u] = pc[u]
        /\ \A c \in Conns : cache'[c] \in {cache[c], Put(cache[c], key[t], PlanOf(value[t]))}
    BY <1>13 DEF Prepare, TypeOK, Kinds, Goto, trackerVars
  <2>2. key[t][1] = "pointer" =>
            IsFrame(value[t]) /\ <<key[t][2], PlanOf(value[t])[2]>> \in Given
    <3>1. CASE IsFrame(value[t])
      BY <1>1, <2>1, <3>1 DEF MeantIn, HasKey, PlanOf
    <3>2. CASE ~IsFrame(value[t])
      <4>1. value[t] \in Values /\ key[t] = KeyOf(value[t])
        BY <2>1, <3>2 DEF Parameters, KeysOfValues, HasKey, IsFrame
      <4> QED
        BY <4>1, CacheAssumption DEF KeyOf
    <3> QED
      BY <3>1, <3>2
  <2>3. \A c \in Conns : \A k \in DOMAIN cache'[c] :
            k[1] = "pointer" => <<k[2], cache'[c][k][2]>> \in Given
    <3> SUFFICES ASSUME NEW c \in Conns, NEW k \in DOMAIN cache'[c], k[1] = "pointer"
                 PROVE  <<k[2], cache'[c][k][2]>> \in Given
      OBVIOUS
    <3>1. k \in Statements(c) => <<k[2], cache[c][k][2]>> \in Given
      BY <1>1 DEF MeantIn
    <3>2. CASE cache'[c] = cache[c]
      BY <3>1, <3>2 DEF Statements
    <3>3. CASE cache'[c] = Put(cache[c], key[t], PlanOf(value[t]))
      BY <2>2, <3>1, <3>3 DEF Put, Statements
    <3> QED
      BY <2>1, <3>2, <3>3
  <2>4. NextMeantIn(Given)
    BY <1>1, <2>1, <2>3 DEF MeantIn, NextMeantIn, HasKey
  <2> QED
    BY <2>1, <2>4 DEF GivenGrows
<1>14. ASSUME NEW t \in Threads, Bind(t)
      PROVE  GivenGrows
  BY <1>14, <1>1 DEF Bind, TypeOK, Kinds, GivenGrows, MeantIn, NextMeantIn, HasKey,
     IsFrame, Statements, Goto, frameVars, trackerVars
<1>15. ASSUME NEW t \in Threads, Run(t)
      PROVE  GivenGrows
  BY <1>15, <1>1 DEF Run, TypeOK, Kinds, GivenGrows, MeantIn, NextMeantIn, HasKey,
     IsFrame, Statements, Goto, Return, frameVars, trackerVars
<1>16. CASE UNCHANGED vars
  BY <1>16, <1>1 DEF vars, TypeOK, Kinds, GivenGrows, MeantIn, NextMeantIn, HasKey,
     IsFrame, Statements, callVars, frameVars, trackerVars
<1> QED
  BY <1>2, <1>3, <1>4, <1>5, <1>6, <1>7, <1>8, <1>9, <1>10, <1>11, <1>12, <1>13, <1>14,
     <1>15, <1>16 DEF Next

\* A generation given out once stays with its frame.
LEMMA GivenOnceStep ==
    ASSUME TypeOK, Kinds, Parameters, OwnAddress, KeysOfValues, GivenOnce, [Next]_vars
    PROVE  GivenOnce'
<1>1. GivenGrows /\ generation \in Nat
  BY GivenStep DEF TypeOK
<1>2. \A p \in Given : p \in (1..generation) \X Frames
  BY DEF GivenOnce
<1>3. CASE generation' = generation /\ NextMeantIn(Given)
  <2>1. Given' \subseteq Given
    BY <1>3, MeantIsGiven
  <2> QED
    BY <1>3, <2>1 DEF GivenOnce
<1>4. ASSUME NEW f \in Frames, generation' = generation + 1,
             NextMeantIn(Given \cup {<<generation + 1, f>>})
      PROVE  GivenOnce'
  <2>1. Given' \subseteq Given \cup {<<generation + 1, f>>}
    BY <1>4, MeantIsGiven
  <2>2. \A p \in Given : p[1] # generation + 1
    BY <1>1, <1>2
  <2>3. \A p \in Given' : p \in Given \/ p = <<generation + 1, f>>
    BY <2>1
  <2>4. \A p \in Given' : p \in (1..(generation + 1)) \X Frames
    BY <1>1, <1>2, <2>3
  <2>5. \A p, q \in Given' : p[1] = q[1] => p[2] = q[2]
    BY <2>2, <2>3 DEF GivenOnce
  <2> QED
    BY <1>4, <2>4, <2>5 DEF GivenOnce
<1> QED
  BY <1>1, <1>3, <1>4 DEF GivenGrows

\* A statement is put into the cache under the key of what it is compiled for.
LEMMA PlansFitStep ==
    ASSUME TypeOK, Kinds, Parameters, KeysOfValues, PlansFitKeys, [Next]_vars
    PROVE  PlansFitKeys'
<1>1. ASSUME NEW f \in Frames, NEW a \in Addresses, NewFrame(f, a)
      PROVE  PlansFitKeys'
  BY <1>1 DEF NewFrame, PlansFitKeys, Statements, callVars, trackerVars
<1>2. ASSUME NEW f \in Frames, FreeFrame(f)
      PROVE  PlansFitKeys'
  BY <1>2 DEF FreeFrame, PlansFitKeys, Statements, callVars, trackerVars
<1>3. ASSUME NEW f \in Frames, NEW s \in Schemas, ChangeFrame(f, s)
      PROVE  PlansFitKeys'
  BY <1>3 DEF ChangeFrame, PlansFitKeys, Statements, callVars, trackerVars
<1>4. ASSUME NEW t \in Threads, NEW c \in Conns, NEW v \in Values \cup Frames, Begin(t, c, v)
      PROVE  PlansFitKeys'
  BY <1>4 DEF Begin, PlansFitKeys, Statements, Goto, frameVars, trackerVars
<1>5. ASSUME NEW t \in Threads, Acquire(t)
      PROVE  PlansFitKeys'
  BY <1>5 DEF Acquire, PlansFitKeys, Statements, Goto, frameVars, trackerVars
<1>6. ASSUME NEW t \in Threads, SignValue(t)
      PROVE  PlansFitKeys'
  BY <1>6 DEF SignValue, PlansFitKeys, Statements, Goto, frameVars, trackerVars
<1>7. ASSUME NEW t \in Threads, SignFrame(t)
      PROVE  PlansFitKeys'
  BY <1>7, SignFrameDoes DEF PlansFitKeys, Statements
<1>8. ASSUME NEW t \in Threads, Purge(t)
      PROVE  PlansFitKeys'
  BY <1>8, PurgeDoes DEF PlansFitKeys, Statements
<1>9. ASSUME NEW t \in Threads, Number(t)
      PROVE  PlansFitKeys'
  BY <1>9 DEF Number, PlansFitKeys, Statements, Goto, frameVars
<1>10. ASSUME NEW t \in Threads, Store(t)
      PROVE  PlansFitKeys'
  BY <1>10 DEF Store, PlansFitKeys, Statements, Goto, frameVars
<1>11. ASSUME NEW t \in Threads, Lookup(t)
      PROVE  PlansFitKeys'
  BY <1>11 DEF Lookup, PlansFitKeys, Statements, Goto, frameVars, trackerVars
<1>12. ASSUME NEW t \in Threads, Prepare(t)
      PROVE  PlansFitKeys'
  <2>1. /\ UNCHANGED <<backend, value, key, schema>> /\ pc[t] = "prepare"
        /\ \A c \in Conns : cache'[c] \in {cache[c], Put(cache[c], key[t], PlanOf(value[t]))}
    BY <1>12 DEF Prepare, TypeOK, Kinds, Goto, frameVars
  <2>2. backend = "pybind" => PlanFitsKey(key[t], PlanOf(value[t]))
    <3>1. CASE IsFrame(value[t])
      <4>1. /\ key[t] = <<"pointer", key[t][2], schema[value[t]]>>
            /\ PlanOf(value[t]) = <<"pointer", value[t], schema[value[t]]>>
            /\ schema[value[t]] \in Schemas
        BY <2>1, <3>1 DEF KeysOfValues, HasKey, PointerKey, PlanOf, TypeOK, IsFrame
      <4> QED
        BY <4>1 DEF PlanFitsKey
    <3>2. CASE ~IsFrame(value[t])
      BY <2>1, <3>2 DEF KeysOfValues, Parameters, HasKey, KeyOf, PlanOf, IsFrame, PlanFitsKey
    <3> QED
      BY <3>1, <3>2
  <2> SUFFICES ASSUME NEW c \in Conns, NEW k \in DOMAIN cache'[c], backend = "pybind"
               PROVE  PlanFitsKey(k, cache'[c][k])
    BY <2>1 DEF PlansFitKeys, Statements
  <2>3. k \in Statements(c) => PlanFitsKey(k, cache[c][k])
    BY DEF PlansFitKeys
  <2>4. CASE cache'[c] = cache[c]
    BY <2>3, <2>4 DEF Statements
  <2>5. CASE cache'[c] = Put(cache[c], key[t], PlanOf(value[t]))
    BY <2>2, <2>3, <2>5 DEF Put, Statements
  <2> QED
    BY <2>1, <2>4, <2>5
<1>13. ASSUME NEW t \in Threads, Bind(t)
      PROVE  PlansFitKeys'
  BY <1>13 DEF Bind, PlansFitKeys, Statements, Goto, frameVars, trackerVars
<1>14. ASSUME NEW t \in Threads, Run(t)
      PROVE  PlansFitKeys'
  BY <1>14 DEF Run, PlansFitKeys, Statements, Goto, Return, frameVars, trackerVars
<1>15. CASE UNCHANGED vars
  BY <1>15 DEF vars, PlansFitKeys, Statements, callVars, frameVars, trackerVars
<1> QED
  BY <1>1, <1>2, <1>3, <1>4, <1>5, <1>6, <1>7, <1>8, <1>9, <1>10, <1>11, <1>12, <1>13,
     <1>14, <1>15 DEF Next

-----------------------------------------------------------------------------
(* The theorems.                                                           *)

LEMMA InitIInv == Init => IInv
<1> SUFFICES ASSUME Init PROVE IInv
  OBVIOUS
<1>1. TypeOK /\ Kinds /\ Parameters
  BY CacheAssumption DEF Init, TypeOK, Kinds, Parameters, Statements, NoEntry, OfFrames
<1>2. HoldsLock /\ KeysOfValues /\ PlansAreThere /\ BoundUnderLock
  BY DEF Init, HoldsLock, InCall, KeysOfValues, HasKey, PlansAreThere, HasPlan,
     BoundUnderLock
<1>3. OwnAddress
  BY DEF Init, OwnAddress
<1>4. \A c \in Conns : Statements(c) = {}
  BY DEF Init, Statements
<1>5. PlansFitKeys
  BY <1>4 DEF PlansFitKeys
<1>6. Given = {}
  BY <1>4 DEF Init, Given, Tracked, Signed, HasKey, PointerKeys
<1>7. GivenOnce
  BY <1>6 DEF GivenOnce
<1> QED
  BY <1>1, <1>2, <1>3, <1>5, <1>7 DEF IInv

LEMMA StepIInv == IInv /\ [Next]_vars => IInv'
BY TypeStep, KindsStep, LockStep, ParametersStep, AddressStep, KeysStep, GivenOnceStep,
   PlansFitStep, PlansStayStep, BoundStep DEF IInv

\* Every reachable state satisfies the inductive invariant.
THEOREM CacheInvariance == Spec => []IInv
BY InitIInv, StepIInv, PTL DEF Spec

\* The variables always hold values of their kind.
THEOREM CacheTypeCorrect == Spec => []TypeOK
<1>1. IInv => TypeOK
  BY DEF IInv
<1> QED
  BY <1>1, CacheInvariance, PTL

\* The plan found under a frame's key is the frame's, under a value's key the value's.
LEMMA PlansFit ==
    ASSUME KeysTellTypes, IInv
    PROVE  PlanFitsValue
<1> SUFFICES ASSUME NEW t \in Threads, backend = "pybind", pc[t] \in {"bind", "run"}
             PROVE  cache[on[t]][key[t]] = PlanOf(value[t])
  BY DEF PlanFitsValue
<1>1. on[t] \in Conns /\ key[t] \in Statements(on[t])
  BY DEF IInv, TypeOK, PlansAreThere, HasPlan
<1>2. PlanFitsKey(key[t], cache[on[t]][key[t]])
  BY <1>1 DEF IInv, PlansFitKeys
<1>3. CASE IsFrame(value[t])
  <2>1. key[t] = <<"pointer", key[t][2], schema[value[t]]>>
    BY <1>3 DEF IInv, KeysOfValues, HasKey, PointerKey
  <2>2. key[t][1] = "pointer"
    BY <2>1
  <2>3. PICK s \in Schemas :
          /\ key[t] = <<"pointer", key[t][2], s>>
          /\ cache[on[t]][key[t]] = <<"pointer", cache[on[t]][key[t]][2], s>>
    BY <1>2, <2>2, CacheAssumption DEF PlanFitsKey
  <2>4. s = schema[value[t]]
    BY <2>1, <2>3
  <2>5. <<key[t][2], cache[on[t]][key[t]][2]>> \in Given
    BY <1>1, <2>2, GivenIsMeant DEF MeantIn
  <2>6. <<key[t][2], value[t]>> \in Given
    BY <1>3, GivenIsMeant DEF MeantIn, HasKey
  <2>7. cache[on[t]][key[t]][2] = value[t]
    BY <2>5, <2>6 DEF IInv, GivenOnce
  <2> QED
    BY <1>3, <2>3, <2>4, <2>7 DEF PlanOf
<1>4. CASE ~IsFrame(value[t])
  <2>1. value[t] \in Values /\ key[t] = PybindKey[value[t]]
    BY <1>4 DEF IInv, Parameters, KeysOfValues, HasKey, KeyOf, IsFrame
  <2>2. key[t][1] # "pointer"
    BY <2>1, CacheAssumption
  <2>3. PICK v \in Values : key[t] = PybindKey[v] /\ cache[on[t]][key[t]] = Type[v]
    BY <1>2, <2>2 DEF PlanFitsKey
  <2> QED
    BY <1>4, <2>1, <2>3 DEF PlanOf, KeysTellTypes
<1> QED
  BY <1>3, <1>4

\* If signatures tell types apart, a statement is only run with a value of the type it
\* was compiled for, or with its own frame while that has the same columns, whatever
\* becomes of frames and addresses in between (connection.py 198-231, 926-958).
THEOREM StatementsFit ==
    ASSUME KeysTellTypes
    PROVE  Spec => []PlanFitsValue
BY PlansFit, CacheInvariance, PTL

\* With the C API a thread's statement runs with the thread's own value
\* (connection.py 1062-1068).
THEOREM StatementsRunOwnValue == Spec => []RunsOwnValue
<1>1. IInv => RunsOwnValue
  BY DEF IInv, BoundUnderLock, RunsOwnValue
<1> QED
  BY <1>1, CacheInvariance, PTL

=============================================================================
