----------------------------- MODULE ExportsProofs -----------------------------
(***************************************************************************)
(* What holds of the data that a client writes and reads, for every value  *)
(* of the constants: of each component by itself (the stores and scans are *)
(* in StoresProofs), and then of MCExports, whose sessions are the         *)
(* components'.                                                            *)
(*                                                                         *)
(* CapiValues: every native value in use is in a frame of the call or in   *)
(* the row, so that what unwinding frees is all there is.                  *)
(* QueryResults: what was returned since the cursor was rewound, and what  *)
(* the call in progress has got, are the rows that the cursor has passed.  *)
(* GraphExport: the nodes and rels of the cells that the loop has passed   *)
(* are taken; the lists of a label's properties are as long as it has      *)
(* nodes, but for the node whose properties are being taken.               *)
(***************************************************************************)
EXTENDS MCExports, StoresProofs

-----------------------------------------------------------------------------
(* CapiValues: the native values that a call holds.                        *)

\* Native values, with the parts of each.
Closed(W) == \A n \in W : IsNested(n) => Groups(n) \in Seq(Seq(W))

\* What goes into a frame: a parameter, what it is normalised to, a part.
PyValues == Values \cup {Text(Escape(Content(v))) : v \in Values} \cup {<<"json", v>> : v \in Values}

BindFrames(W) == [of : Values \cup {Absent}, todo : Seq(PyValues), made : Seq(W)]
ReadFrames(W, R) == [of : W, todo : Seq(Seq(W)), group : Seq(W), size : Nat, read : Seq(R)]

WellFormed(W, R, n, b, r) ==
    Closed(W) /\ n \in W /\ b \in Seq(BindFrames(W)) /\ r \in Seq(ReadFrames(W, R))

\* What every frame has to destroy: the members it has made; the group it has got, and
\* the type or the row.
MadeBy(b) == [i \in 1..Len(b) |-> Len(b[i].made)]
GotBy(r) == [i \in 1..Len(r) |-> r[i].size + 1]

\* The frames below the top one wait for a member, the first one for the parameter.
CallBinds(b, total) ==
    /\ b # <<>> /\ Len(b[1].made) + Len(b[1].todo) = 1
    /\ \A i \in 1..(Len(b) - 1) : b[i].todo # <<>>
    /\ SumIs(MadeBy(b), total)

\* The frames below the top one wait for a child.
CallReads(r, total) ==
    /\ r # <<>>
    /\ \A i \in 1..(Len(r) - 1) : r[i].group # <<>>
    /\ SumIs(GotBy(r), total)

\* What a call has to destroy yet; a key that it has lost it will not.
InUse == live - leaked

ValueErrors == {"none", "refused", "ValueError", "TypeError", "RuntimeError", "OverflowError"}
ValueTyped ==
    /\ stage \in {"new", "bind", "bound", "read", "done", "failed", "closed"}
    /\ param \in Values \cup {Absent} /\ wraps \in BOOLEAN
    /\ live \in Int /\ leaked \in Nat /\ adopted \in Nat /\ error \in ValueErrors
    /\ stage \in {"new", "bind", "bound"} => leaked = 0
    /\ stage = "new" => param \in Values
    /\ stage = "bound" => error = "none"

ValuesInv ==
    /\ ValueTyped
    /\ \E W, R : WellFormed(W, R, native, binding, reading)
    /\ stage = "bind" => CallBinds(binding, live)
    /\ stage = "read" => CallReads(reading, InUse)
    /\ stage # "bind" => binding = <<>>
    /\ stage # "read" => reading = <<>>
    /\ stage \notin {"bind", "read"} => live = leaked
    /\ stage = "closed" => adopted = 0

\* One native value more.
LEMMA ClosedWith ==
    ASSUME NEW W, Closed(W), NEW x, IsNested(x) => Groups(x) \in Seq(Seq(W))
    PROVE  Closed(W \cup {x})
<1>1. Seq(Seq(W)) \subseteq Seq(Seq(W \cup {x}))
  <2>1. Seq(W) \subseteq Seq(W \cup {x})
    BY SeqMonotonic
  <2> QED
    BY <2>1, SeqMonotonic
<1> QED
  BY <1>1 DEF Closed

LEMMA BindFramesGrow ==
    ASSUME NEW W, NEW V, W \subseteq V
    PROVE  Seq(BindFrames(W)) \subseteq Seq(BindFrames(V))
<1>1. Seq(W) \subseteq Seq(V)
  BY SeqMonotonic
<1>2. BindFrames(W) \subseteq BindFrames(V)
  BY <1>1 DEF BindFrames
<1> QED
  BY <1>2, SeqMonotonic

LEMMA ReadFramesGrow ==
    ASSUME NEW W, NEW V, W \subseteq V, NEW R, NEW Q, R \subseteq Q
    PROVE  Seq(ReadFrames(W, R)) \subseteq Seq(ReadFrames(V, Q))
<1>1. Seq(W) \subseteq Seq(V) /\ Seq(R) \subseteq Seq(Q)
  BY SeqMonotonic
<1>2. Seq(Seq(W)) \subseteq Seq(Seq(V))
  BY <1>1, SeqMonotonic
<1>3. ReadFrames(W, R) \subseteq ReadFrames(V, Q)
  BY <1>1, <1>2 DEF ReadFrames
<1> QED
  BY <1>3, SeqMonotonic

LEMMA WellFormedWith ==
    ASSUME NEW W, NEW R, NEW n, NEW b, NEW r, WellFormed(W, R, n, b, r),
           NEW x, IsNested(x) => Groups(x) \in Seq(Seq(W)), NEW y
    PROVE  WellFormed(W \cup {x}, R \cup {y}, n, b, r)
BY ClosedWith, BindFramesGrow, ReadFramesGrow DEF WellFormed

-----------------------------------------------------------------------------
(* Frames come and go.                                                     *)

LEMMA MadeByPushed ==
    ASSUME NEW W, NEW b \in Seq(BindFrames(W)), NEW f \in BindFrames(W)
    PROVE  /\ MadeBy(b) \in Seq(Nat)
           /\ Len(f.made) \in Nat
           /\ MadeBy(Append(b, f)) = Append(MadeBy(b), Len(f.made))
<1>1. PICK n \in Nat : n = Len(b)
  OBVIOUS
<1>2. /\ Append(b, f) \in Seq(BindFrames(W)) /\ Len(Append(b, f)) = n + 1
      /\ Append(b, f)[n + 1] = f /\ \A i \in 1..n : Append(b, f)[i] = b[i]
  BY <1>1, AppendEntries
<1>3. Len(f.made) \in Nat /\ \A i \in 1..n : Len(b[i].made) \in Nat
  BY <1>1 DEF BindFrames
<1>4. MadeBy(b) \in Seq(Nat) /\ Len(MadeBy(b)) = n
  BY <1>1, <1>3 DEF MadeBy
<1>5. /\ Append(MadeBy(b), Len(f.made)) \in Seq(Nat)
      /\ Len(Append(MadeBy(b), Len(f.made))) = n + 1
      /\ Append(MadeBy(b), Len(f.made))[n + 1] = Len(f.made)
      /\ \A i \in 1..n : Append(MadeBy(b), Len(f.made))[i] = MadeBy(b)[i]
  BY <1>3, <1>4, AppendEntries
<1>6. /\ MadeBy(Append(b, f)) \in Seq(Nat) /\ Len(MadeBy(Append(b, f))) = n + 1
      /\ \A i \in 1..(n + 1) : MadeBy(Append(b, f))[i] = Len(Append(b, f)[i].made)
  <2>1. \A i \in 1..(n + 1) : Len(Append(b, f)[i].made) \in Nat
    BY <1>2 DEF BindFrames
  <2> QED
    BY <1>2, <2>1 DEF MadeBy
<1>7. \A i \in 1..(n + 1) : MadeBy(Append(b, f))[i] = Append(MadeBy(b), Len(f.made))[i]
  <2>1. ASSUME NEW i \in 1..n
        PROVE  MadeBy(Append(b, f))[i] = Append(MadeBy(b), Len(f.made))[i]
    <3>1. MadeBy(b)[i] = Len(b[i].made)
      BY <1>1 DEF MadeBy
    <3> QED
      BY <1>2, <1>5, <1>6, <3>1
  <2>2. \A i \in 1..(n + 1) : i \in 1..n \/ i \in {n + 1}
    OBVIOUS
  <2> QED
    BY <1>2, <1>5, <1>6, <2>1, <2>2
<1> QED
  BY <1>3, <1>4, <1>5, <1>6, <1>7, SeqEqual

LEMMA MadeByPopped ==
    ASSUME NEW W, NEW b \in Seq(BindFrames(W)), b # <<>>
    PROVE  /\ MadeBy(b) \in Seq(Nat) /\ MadeBy(b) # <<>>
           /\ Last(MadeBy(b)) = Len(Last(b).made)
           /\ MadeBy(Front(b)) = Front(MadeBy(b))
<1>1. /\ Len(b) \in Nat \ {0} /\ Front(b) \in Seq(BindFrames(W)) /\ Len(Front(b)) = Len(b) - 1
      /\ \A i \in 1..(Len(b) - 1) : Front(b)[i] = b[i]
  BY FrontEntries
<1>2. PICK n \in Nat : Len(b) = n + 1 /\ Len(Front(b)) = n
  BY <1>1
<1>3. \A i \in 1..(n + 1) : Len(b[i].made) \in Nat
  <2>1. \A i \in 1..(n + 1) : b[i] \in BindFrames(W)
    BY <1>2
  <2> QED
    BY <2>1 DEF BindFrames
<1>4. /\ MadeBy(b) \in Seq(Nat) /\ Len(MadeBy(b)) = n + 1 /\ MadeBy(b) # <<>>
      /\ \A i \in 1..(n + 1) : MadeBy(b)[i] = Len(b[i].made)
  <2>1. MadeBy(b) = [i \in 1..(n + 1) |-> Len(b[i].made)]
    BY <1>2 DEF MadeBy
  <2>2. MadeBy(b) \in Seq(Nat) /\ Len(MadeBy(b)) = n + 1
    BY <1>3, <2>1
  <2>3. MadeBy(b) # <<>>
    BY <2>2, EmptySeq
  <2> QED
    BY <2>1, <2>2, <2>3
<1>5. Last(MadeBy(b)) = Len(Last(b).made)
  <2>1. n + 1 \in 1..(n + 1)
    OBVIOUS
  <2> QED
    BY <1>2, <1>4, <2>1 DEF Last
<1>6. /\ Front(MadeBy(b)) \in Seq(Nat) /\ Len(Front(MadeBy(b))) = n
      /\ \A i \in 1..n : Front(MadeBy(b))[i] = MadeBy(b)[i]
  <2>1. PICK w \in Seq(Nat) : w = MadeBy(b)
    BY <1>4
  <2>2. w # <<>> /\ Len(w) = n + 1 /\ n + 1 - 1 = n
    BY <1>4, <2>1
  <2>3. /\ Front(w) \in Seq(Nat) /\ Len(Front(w)) = n
        /\ \A i \in 1..n : Front(w)[i] = w[i]
    <3>1. /\ Front(w) \in Seq(Nat) /\ Len(Front(w)) = Len(w) - 1
          /\ \A i \in 1..(Len(w) - 1) : Front(w)[i] = w[i]
      BY <2>2, FrontEntries
    <3> QED
      BY <2>2, <3>1
  <2> QED
    BY <2>1, <2>3
<1>7. \A i \in 1..n : i \in 1..(n + 1) /\ Front(b)[i] = b[i]
  BY <1>1, <1>2
<1>8. /\ MadeBy(Front(b)) \in Seq(Nat) /\ Len(MadeBy(Front(b))) = n
      /\ \A i \in 1..n : MadeBy(Front(b))[i] = Len(b[i].made)
  BY <1>2, <1>3, <1>7 DEF MadeBy
<1>9. \A i \in 1..n : MadeBy(Front(b))[i] = Front(MadeBy(b))[i]
  BY <1>4, <1>6, <1>7, <1>8
<1> QED
  BY <1>4, <1>5, <1>6, <1>8, <1>9, SeqEqual

LEMMA GotByPushed ==
    ASSUME NEW W, NEW R, NEW r \in Seq(ReadFrames(W, R)), NEW f \in ReadFrames(W, R)
    PROVE  /\ GotBy(r) \in Seq(Nat)
           /\ f.size + 1 \in Nat
           /\ GotBy(Append(r, f)) = Append(GotBy(r), f.size + 1)
<1>1. PICK n \in Nat : n = Len(r)
  OBVIOUS
<1>2. /\ Append(r, f) \in Seq(ReadFrames(W, R)) /\ Len(Append(r, f)) = n + 1
      /\ Append(r, f)[n + 1] = f /\ \A i \in 1..n : Append(r, f)[i] = r[i]
  BY <1>1, AppendEntries
<1>3. f.size + 1 \in Nat /\ \A i \in 1..n : r[i].size + 1 \in Nat
  <2>1. \A i \in 1..n : r[i] \in ReadFrames(W, R)
    BY <1>1
  <2>2. f.size \in Nat /\ \A i \in 1..n : r[i].size \in Nat
    BY <2>1 DEF ReadFrames
  <2> QED
    BY <2>2
<1>4. GotBy(r) \in Seq(Nat) /\ Len(GotBy(r)) = n
  BY <1>1, <1>3 DEF GotBy
<1>5. /\ Append(GotBy(r), f.size + 1) \in Seq(Nat)
      /\ Len(Append(GotBy(r), f.size + 1)) = n + 1
      /\ Append(GotBy(r), f.size + 1)[n + 1] = f.size + 1
      /\ \A i \in 1..n : Append(GotBy(r), f.size + 1)[i] = GotBy(r)[i]
  BY <1>3, <1>4, AppendEntries
<1>6. /\ GotBy(Append(r, f)) \in Seq(Nat) /\ Len(GotBy(Append(r, f))) = n + 1
      /\ \A i \in 1..(n + 1) : GotBy(Append(r, f))[i] = Append(r, f)[i].size + 1
  <2>1. \A i \in 1..(n + 1) : Append(r, f)[i] \in ReadFrames(W, R)
    BY <1>2
  <2>2. \A i \in 1..(n + 1) : Append(r, f)[i].size \in Nat
    BY <2>1 DEF ReadFrames
  <2> QED
    BY <1>2, <2>2 DEF GotBy
<1>7. \A i \in 1..(n + 1) : GotBy(Append(r, f))[i] = Append(GotBy(r), f.size + 1)[i]
  <2>1. ASSUME NEW i \in 1..n
        PROVE  GotBy(Append(r, f))[i] = Append(GotBy(r), f.size + 1)[i]
    <3>1. GotBy(r)[i] = r[i].size + 1
      BY <1>1 DEF GotBy
    <3> QED
      BY <1>2, <1>5, <1>6, <3>1
  <2>2. \A i \in 1..(n + 1) : i \in 1..n \/ i \in {n + 1}
    OBVIOUS
  <2> QED
    BY <1>2, <1>5, <1>6, <2>1, <2>2
<1> QED
  BY <1>3, <1>4, <1>5, <1>6, <1>7, SeqEqual

LEMMA GotByPopped ==
    ASSUME NEW W, NEW R, NEW r \in Seq(ReadFrames(W, R)), r # <<>>
    PROVE  /\ GotBy(r) \in Seq(Nat) /\ GotBy(r) # <<>>
           /\ Last(GotBy(r)) = Last(r).size + 1
           /\ GotBy(Front(r)) = Front(GotBy(r))
<1>1. /\ Len(r) \in Nat \ {0} /\ Front(r) \in Seq(ReadFrames(W, R)) /\ Len(Front(r)) = Len(r) - 1
      /\ \A i \in 1..(Len(r) - 1) : Front(r)[i] = r[i]
  BY FrontEntries
<1>2. PICK n \in Nat : Len(r) = n + 1 /\ Len(Front(r)) = n
  BY <1>1
<1>3. \A i \in 1..(n + 1) : r[i].size \in Nat
  <2>1. \A i \in 1..(n + 1) : r[i] \in ReadFrames(W, R)
    BY <1>2
  <2> QED
    BY <2>1 DEF ReadFrames
<1>4. /\ GotBy(r) \in Seq(Nat) /\ Len(GotBy(r)) = n + 1 /\ GotBy(r) # <<>>
      /\ \A i \in 1..(n + 1) : GotBy(r)[i] = r[i].size + 1
  <2>1. GotBy(r) = [i \in 1..(n + 1) |-> r[i].size + 1]
    BY <1>2 DEF GotBy
  <2>2. GotBy(r) \in Seq(Nat) /\ Len(GotBy(r)) = n + 1
    BY <1>3, <2>1
  <2>3. GotBy(r) # <<>>
    BY <2>2, EmptySeq
  <2> QED
    BY <2>1, <2>2, <2>3
<1>5. Last(GotBy(r)) = Last(r).size + 1
  <2>1. n + 1 \in 1..(n + 1)
    OBVIOUS
  <2> QED
    BY <1>2, <1>4, <2>1 DEF Last
<1>6. /\ Front(GotBy(r)) \in Seq(Nat) /\ Len(Front(GotBy(r))) = n
      /\ \A i \in 1..n : Front(GotBy(r))[i] = GotBy(r)[i]
  <2>1. PICK w \in Seq(Nat) : w = GotBy(r)
    BY <1>4
  <2>2. w # <<>> /\ Len(w) = n + 1 /\ n + 1 - 1 = n
    BY <1>4, <2>1
  <2>3. /\ Front(w) \in Seq(Nat) /\ Len(Front(w)) = n
        /\ \A i \in 1..n : Front(w)[i] = w[i]
    <3>1. /\ Front(w) \in Seq(Nat) /\ Len(Front(w)) = Len(w) - 1
          /\ \A i \in 1..(Len(w) - 1) : Front(w)[i] = w[i]
      BY <2>2, FrontEntries
    <3> QED
      BY <2>2, <3>1
  <2> QED
    BY <2>1, <2>3
<1>7. \A i \in 1..n : i \in 1..(n + 1) /\ Front(r)[i] = r[i]
  BY <1>1, <1>2
<1>8. /\ GotBy(Front(r)) \in Seq(Nat) /\ Len(GotBy(Front(r))) = n
      /\ \A i \in 1..n : GotBy(Front(r))[i] = r[i].size + 1
  BY <1>2, <1>3, <1>7 DEF GotBy
<1>9. \A i \in 1..n : GotBy(Front(r))[i] = Front(GotBy(r))[i]
  BY <1>4, <1>6, <1>7, <1>8
<1> QED
  BY <1>4, <1>5, <1>6, <1>8, <1>9, SeqEqual

LEMMA BindPushed ==
    ASSUME NEW W, NEW b \in Seq(BindFrames(W)), NEW total, CallBinds(b, total),
           Last(b).todo # <<>>, NEW f \in BindFrames(W), f.made = <<>>
    PROVE  Append(b, f) \in Seq(BindFrames(W)) /\ CallBinds(Append(b, f), total)
<1>1. PICK n \in Nat \ {0} : n = Len(b)
  BY EmptySeq DEF CallBinds
<1>2. /\ Append(b, f) \in Seq(BindFrames(W)) /\ Len(Append(b, f)) = n + 1
      /\ \A i \in 1..n : Append(b, f)[i] = b[i]
  BY <1>1, AppendEntries
<1>3. Append(b, f) # <<>> /\ Append(b, f)[1] = b[1]
  BY <1>1, <1>2, EmptySeq
<1>4. \A i \in 1..n : b[i].todo # <<>>
  <2>1. \A i \in 1..n : i \in 1..(n - 1) \/ i = n
    OBVIOUS
  <2> QED
    BY <1>1, <2>1 DEF CallBinds, Last
<1>5. total \in Nat /\ SumIs(Append(MadeBy(b), 0), total + 0)
  BY MadeByPushed, SumPushed DEF CallBinds
<1>6. SumIs(MadeBy(Append(b, f)), total)
  <2>1. Len(f.made) = 0 /\ total + 0 = total
    BY <1>5
  <2> QED
    BY <1>5, <2>1, MadeByPushed
<1>7. \A i \in 1..(Len(Append(b, f)) - 1) : Append(b, f)[i].todo # <<>>
  BY <1>2, <1>4
<1> QED
  BY <1>2, <1>3, <1>6, <1>7 DEF CallBinds

\* A member is made for the top frame.
LEMMA BindGiven ==
    ASSUME NEW W, NEW b \in Seq(BindFrames(W)), NEW total, CallBinds(b, total),
           Last(b).todo # <<>>, NEW v \in W
    PROVE  Handed(b, v) \in Seq(BindFrames(W)) /\ CallBinds(Handed(b, v), total + 1)
<1> DEFINE f == [of |-> Last(b).of, todo |-> Tail(Last(b).todo), made |-> Append(Last(b).made, v)]
<1>1. /\ Len(b) \in Nat \ {0} /\ Front(b) \in Seq(BindFrames(W)) /\ Len(Front(b)) = Len(b) - 1
      /\ \A i \in 1..(Len(b) - 1) : Front(b)[i] = b[i]
  BY FrontEntries DEF CallBinds
<1>2. PICK n \in Nat : Len(b) = n + 1 /\ Len(Front(b)) = n
  BY <1>1
<1>3. Last(b) = b[n + 1] /\ Last(b) \in BindFrames(W)
  BY <1>2 DEF Last
<1>4. /\ f \in BindFrames(W) /\ Len(f.made) = Len(Last(b).made) + 1
      /\ Len(f.made) + Len(f.todo) = Len(Last(b).made) + Len(Last(b).todo)
      /\ Len(Last(b).made) \in Nat
  <2>1. /\ Last(b).todo \in Seq(PyValues) /\ Last(b).made \in Seq(W) /\ Last(b).of \in Values \cup {Absent}
    BY <1>3 DEF BindFrames
  <2>2. Tail(Last(b).todo) \in Seq(PyValues) /\ Len(Tail(Last(b).todo)) = Len(Last(b).todo) - 1
    BY <2>1, HeadTailProperties
  <2>3. /\ Append(Last(b).made, v) \in Seq(W) /\ Len(Append(Last(b).made, v)) = Len(Last(b).made) + 1
    BY <2>1, AppendEntries
  <2>4. f \in BindFrames(W)
    BY <2>1, <2>2, <2>3 DEF BindFrames
  <2>5. PICK x \in Nat, y \in Nat : x = Len(Last(b).todo) /\ y = Len(Last(b).made)
    BY <2>1
  <2>6. f.made = Append(Last(b).made, v) /\ f.todo = Tail(Last(b).todo)
    OBVIOUS
  <2> HIDE DEF f
  <2>7. Len(f.made) = y + 1 /\ Len(f.todo) = x - 1
    BY <2>2, <2>3, <2>5, <2>6
  <2>8. Len(f.made) + Len(f.todo) = y + x
    BY <2>7
  <2>9. Len(f.made) = Len(Last(b).made) + 1 /\ Len(Last(b).made) \in Nat
    BY <2>5, <2>7
  <2>10. Len(f.made) + Len(f.todo) = Len(Last(b).made) + Len(Last(b).todo)
    BY <2>5, <2>8
  <2> QED
    BY <2>4, <2>9, <2>10
<1>5. Handed(b, v) = Append(Front(b), f)
  BY DEF Handed
<1> HIDE DEF f
<1>6. /\ Append(Front(b), f) \in Seq(BindFrames(W)) /\ Len(Append(Front(b), f)) = n + 1
      /\ Append(Front(b), f)[n + 1] = f
      /\ \A i \in 1..n : Append(Front(b), f)[i] = b[i]
  BY <1>1, <1>2, <1>4, AppendEntries
<1>7. Append(Front(b), f) # <<>> /\ Len(Append(Front(b), f)) = n + 1
  BY <1>6, EmptySeq
<1>8. Len(Append(Front(b), f)[1].made) + Len(Append(Front(b), f)[1].todo) = 1
  <2>1. CASE n = 0
    <3>1. Append(Front(b), f)[1] = f /\ Last(b) = b[1]
      BY <1>3, <1>6, <2>1
    <3> QED
      BY <1>4, <3>1 DEF CallBinds
  <2>2. CASE n # 0
    <3>1. Append(Front(b), f)[1] = b[1]
      BY <1>6, <2>2
    <3> QED
      BY <3>1 DEF CallBinds
  <2> QED
    BY <2>1, <2>2
<1>9. \A i \in 1..(Len(Append(Front(b), f)) - 1) : Append(Front(b), f)[i].todo # <<>>
  BY <1>1, <1>2, <1>6 DEF CallBinds
<1>10. SumIs(MadeBy(Append(Front(b), f)), total + 1)
  <2>1. PICK k \in Nat : k = Len(Last(b).made)
    BY <1>4
  <2>2. PICK left \in Nat : left = total - k /\ total \in Nat /\ SumIs(Front(MadeBy(b)), left)
    <3>1. /\ MadeBy(b) \in Seq(Nat) /\ MadeBy(b) # <<>> /\ Last(MadeBy(b)) = k
          /\ SumIs(MadeBy(b), total)
      BY <2>1, MadeByPopped DEF CallBinds
    <3> QED
      BY <3>1, SumPopped
  <2>3. SumIs(MadeBy(Front(b)), left)
    BY <2>2, MadeByPopped DEF CallBinds
  <2>4. SumIs(MadeBy(Append(Front(b), f)), left + (k + 1))
    <3>1. /\ MadeBy(Front(b)) \in Seq(Nat) /\ Len(f.made) = k + 1
          /\ MadeBy(Append(Front(b), f)) = Append(MadeBy(Front(b)), Len(f.made))
      BY <1>1, <1>4, <2>1, MadeByPushed
    <3>2. PICK m \in Nat, w \in Seq(Nat) : m = k + 1 /\ w = MadeBy(Front(b))
      BY <3>1
    <3>3. SumIs(Append(w, m), left + m)
      BY <2>3, <3>2, SumPushed
    <3> QED
      BY <3>1, <3>2, <3>3
  <2>5. left + (k + 1) = total + 1
    BY <2>2
  <2> QED
    BY <2>4, <2>5
<1> QED
  BY <1>5, <1>6, <1>7, <1>8, <1>9, <1>10 DEF CallBinds

LEMMA BindPopped ==
    ASSUME NEW W, NEW b \in Seq(BindFrames(W)), NEW total, CallBinds(b, total)
    PROVE  /\ Front(b) \in Seq(BindFrames(W)) /\ Last(b) \in BindFrames(W)
           /\ Len(Last(b).made) \in Nat /\ total \in Nat
           /\ Len(b) = 1 => total = Len(Last(b).made) /\ Front(b) = <<>> /\ b[1] = Last(b)
           /\ Len(b) # 1 => CallBinds(Front(b), total - Len(Last(b).made)) /\ Last(Front(b)).todo # <<>>
<1>1. /\ Len(b) \in Nat \ {0} /\ Front(b) \in Seq(BindFrames(W)) /\ Len(Front(b)) = Len(b) - 1
      /\ \A i \in 1..(Len(b) - 1) : Front(b)[i] = b[i]
      /\ Front(b) # <<>> => Last(Front(b)) = b[Len(b) - 1]
  BY FrontEntries DEF CallBinds
<1>2. PICK n \in Nat : Len(b) = n + 1 /\ Len(Front(b)) = n
  BY <1>1
<1>3. Last(b) = b[n + 1] /\ Last(b) \in BindFrames(W)
  BY <1>2 DEF Last
<1>4. PICK k \in Nat : k = Len(Last(b).made)
  BY <1>3 DEF BindFrames
<1>5. total \in Nat /\ total - k \in Nat /\ SumIs(MadeBy(Front(b)), total - k)
  <2>1. /\ MadeBy(b) \in Seq(Nat) /\ MadeBy(b) # <<>> /\ Last(MadeBy(b)) = k
        /\ SumIs(MadeBy(b), total) /\ MadeBy(Front(b)) = Front(MadeBy(b))
    BY <1>4, MadeByPopped DEF CallBinds
  <2> QED
    BY <2>1, SumPopped
<1>6. CASE n = 0
  <2>1. Front(b) = <<>> /\ Len(b) = 1
    BY <1>1, <1>2, <1>6, EmptySeq
  <2>2. MadeBy(Front(b)) = <<>>
    <3>1. Len(<<>>) = 0 /\ 1..0 = {}
      OBVIOUS
    <3> QED
      BY <2>1, <3>1 DEF MadeBy
  <2>3. total - k = 0
    BY <1>5, <2>2, EmptySum
  <2> QED
    BY <1>1, <1>2, <1>3, <1>4, <1>5, <1>6, <2>1, <2>3
<1>7. CASE n # 0
  <2>1. Front(b) # <<>> /\ Len(b) # 1 /\ n \in 1..n /\ 1 \in 1..n
    BY <1>2, <1>7, EmptySeq
  <2>2. /\ Front(b)[1] = b[1] /\ Last(Front(b)) = b[n] /\ b[n].todo # <<>>
        /\ \A i \in 1..(n - 1) : Front(b)[i].todo # <<>>
    BY <1>1, <1>2, <2>1 DEF CallBinds
  <2>3. CallBinds(Front(b), total - k)
    BY <1>2, <1>5, <2>1, <2>2 DEF CallBinds
  <2> QED
    BY <1>1, <1>3, <1>4, <1>5, <2>1, <2>2, <2>3
<1> QED
  BY <1>6, <1>7

LEMMA ReadPushed ==
    ASSUME NEW W, NEW R, NEW r \in Seq(ReadFrames(W, R)), NEW total, CallReads(r, total),
           Last(r).group # <<>>, NEW f \in ReadFrames(W, R), f.size = 0
    PROVE  Append(r, f) \in Seq(ReadFrames(W, R)) /\ CallReads(Append(r, f), total + 1)
<1>1. PICK n \in Nat \ {0} : n = Len(r)
  BY EmptySeq DEF CallReads
<1>2. /\ Append(r, f) \in Seq(ReadFrames(W, R)) /\ Len(Append(r, f)) = n + 1
      /\ \A i \in 1..n : Append(r, f)[i] = r[i]
  BY <1>1, AppendEntries
<1>3. Append(r, f) # <<>>
  BY <1>1, <1>2, EmptySeq
<1>4. \A i \in 1..n : r[i].group # <<>>
  <2>1. \A i \in 1..n : i \in 1..(n - 1) \/ i = n
    OBVIOUS
  <2> QED
    BY <1>1, <2>1 DEF CallReads, Last
<1>5. SumIs(Append(GotBy(r), 1), total + 1)
  BY GotByPushed, SumPushed DEF CallReads
<1>6. SumIs(GotBy(Append(r, f)), total + 1)
  <2>1. f.size + 1 = 1
    OBVIOUS
  <2>2. GotBy(Append(r, f)) = Append(GotBy(r), f.size + 1)
    BY GotByPushed
  <2> QED
    BY <1>5, <2>1, <2>2
<1>7. \A i \in 1..(Len(Append(r, f)) - 1) : Append(r, f)[i].group # <<>>
  BY <1>2, <1>4
<1> QED
  BY <1>2, <1>3, <1>6, <1>7 DEF CallReads

\* The top frame gets or destroys a group, or takes a child's value.
LEMMA ReadReplaced ==
    ASSUME NEW W, NEW R, NEW r \in Seq(ReadFrames(W, R)), NEW total, CallReads(r, total),
           NEW f \in ReadFrames(W, R), NEW after, after = total - Last(r).size + f.size
    PROVE  /\ Append(Front(r), f) \in Seq(ReadFrames(W, R))
           /\ Last(r) \in ReadFrames(W, R)
           /\ CallReads(Append(Front(r), f), after)
<1>1. /\ Len(r) \in Nat \ {0} /\ Front(r) \in Seq(ReadFrames(W, R)) /\ Len(Front(r)) = Len(r) - 1
      /\ \A i \in 1..(Len(r) - 1) : Front(r)[i] = r[i]
  BY FrontEntries DEF CallReads
<1>2. PICK n \in Nat : Len(r) = n + 1 /\ Len(Front(r)) = n
  BY <1>1
<1>3. Last(r) \in ReadFrames(W, R)
  BY <1>2 DEF Last
<1>4. PICK old \in Nat, new \in Nat : old = Last(r).size /\ new = f.size
  BY <1>3 DEF ReadFrames
<1>5. /\ Append(Front(r), f) \in Seq(ReadFrames(W, R)) /\ Len(Append(Front(r), f)) = n + 1
      /\ \A i \in 1..n : Append(Front(r), f)[i] = r[i]
  BY <1>1, <1>2, AppendEntries
<1>6. Append(Front(r), f) # <<>>
  <2>1. Len(Append(Front(r), f)) # 0
    BY <1>5
  <2> QED
    BY <2>1, EmptySeq
<1>7. \A i \in 1..(Len(Append(Front(r), f)) - 1) : Append(Front(r), f)[i].group # <<>>
  BY <1>1, <1>2, <1>5 DEF CallReads
<1>8. SumIs(GotBy(Append(Front(r), f)), total - old + new)
  <2>1. PICK one \in Nat, k \in Nat : one = old + 1 /\ k = new + 1
    OBVIOUS
  <2>2. PICK left \in Nat : left = total - one /\ total \in Nat /\ SumIs(Front(GotBy(r)), left)
    <3>1. /\ GotBy(r) \in Seq(Nat) /\ GotBy(r) # <<>> /\ Last(GotBy(r)) = one
          /\ SumIs(GotBy(r), total)
      BY <1>4, <2>1, GotByPopped DEF CallReads
    <3> QED
      BY <3>1, SumPopped
  <2>3. SumIs(GotBy(Front(r)), left)
    BY <2>2, GotByPopped DEF CallReads
  <2>4. SumIs(GotBy(Append(Front(r), f)), left + k)
    <3>1. /\ GotBy(Front(r)) \in Seq(Nat) /\ f.size + 1 = k
          /\ GotBy(Append(Front(r), f)) = Append(GotBy(Front(r)), f.size + 1)
      BY <1>1, <1>4, <2>1, GotByPushed
    <3>2. PICK w \in Seq(Nat) : w = GotBy(Front(r))
      BY <3>1
    <3>3. SumIs(Append(w, k), left + k)
      BY <2>3, <3>2, SumPushed
    <3> QED
      BY <3>1, <3>2, <3>3
  <2>5. left + k = total - old + new
    BY <2>1, <2>2
  <2> QED
    BY <2>4, <2>5
<1>9. SumIs(GotBy(Append(Front(r), f)), after)
  BY <1>4, <1>8
<1> QED
  BY <1>3, <1>5, <1>6, <1>7, <1>9 DEF CallReads

LEMMA ReadPopped ==
    ASSUME NEW W, NEW R, NEW r \in Seq(ReadFrames(W, R)), NEW total, CallReads(r, total)
    PROVE  /\ Front(r) \in Seq(ReadFrames(W, R)) /\ Last(r) \in ReadFrames(W, R)
           /\ Last(r).size \in Nat /\ total \in Nat
           /\ Len(r) = 1 => total = Last(r).size + 1 /\ Front(r) = <<>>
           /\ Len(r) # 1 => /\ CallReads(Front(r), total - Last(r).size - 1)
                            /\ Last(Front(r)).group # <<>>
<1>1. /\ Len(r) \in Nat \ {0} /\ Front(r) \in Seq(ReadFrames(W, R)) /\ Len(Front(r)) = Len(r) - 1
      /\ \A i \in 1..(Len(r) - 1) : Front(r)[i] = r[i]
      /\ Front(r) # <<>> => Last(Front(r)) = r[Len(r) - 1]
  BY FrontEntries DEF CallReads
<1>2. PICK n \in Nat : Len(r) = n + 1 /\ Len(Front(r)) = n
  BY <1>1
<1>3. Last(r) = r[n + 1] /\ Last(r) \in ReadFrames(W, R)
  BY <1>2 DEF Last
<1>4. PICK size \in Nat : size = Last(r).size
  BY <1>3 DEF ReadFrames
<1>5. PICK k \in Nat : k = size + 1
  OBVIOUS
<1>6. total \in Nat /\ total - k \in Nat /\ SumIs(GotBy(Front(r)), total - k)
  <2>1. /\ GotBy(r) \in Seq(Nat) /\ GotBy(r) # <<>> /\ Last(GotBy(r)) = k
        /\ SumIs(GotBy(r), total) /\ GotBy(Front(r)) = Front(GotBy(r))
    BY <1>4, <1>5, GotByPopped DEF CallReads
  <2> QED
    BY <2>1, SumPopped
<1>7. total - k = total - size - 1
  BY <1>5, <1>6
<1>8. CASE n = 0
  <2>1. Front(r) = <<>> /\ Len(r) = 1
    BY <1>1, <1>2, <1>8, EmptySeq
  <2>2. GotBy(Front(r)) = <<>>
    <3>1. Len(<<>>) = 0 /\ 1..0 = {}
      OBVIOUS
    <3> QED
      BY <2>1, <3>1 DEF GotBy
  <2>3. total = size + 1
    <3>1. total - k = 0
      BY <1>6, <2>2, EmptySum
    <3> QED
      BY <1>5, <1>6, <3>1
  <2> QED
    BY <1>1, <1>3, <1>4, <1>6, <2>1, <2>3
<1>9. CASE n # 0
  <2>1. Front(r) # <<>> /\ Len(r) # 1 /\ n \in 1..n
    BY <1>2, <1>9, EmptySeq
  <2>2. /\ Last(Front(r)) = r[n] /\ r[n].group # <<>>
        /\ \A i \in 1..(n - 1) : Front(r)[i].group # <<>>
    BY <1>1, <1>2, <2>1 DEF CallReads
  <2>3. CallReads(Front(r), total - size - 1)
    BY <1>2, <1>6, <1>7, <2>1, <2>2 DEF CallReads
  <2> QED
    BY <1>1, <1>3, <1>4, <1>6, <2>1, <2>2, <2>3
<1> QED
  BY <1>8, <1>9

-----------------------------------------------------------------------------
(* The values that come up.                                                *)

NestedKinds == {"LIST", "NODE", "REL", "RECURSIVE_REL", "STRUCT", "MAP"}

\* A list, a struct or a map has the members that were made for it.
LEMMA NativeIsOfParts ==
    ASSUME NEW W, NEW f \in BindFrames(W)
    PROVE  IsNested(NativeOf(f)) => Groups(NativeOf(f)) \in Seq(Seq(W))
<1>1. PICK made \in Seq(W), n \in Nat : made = f.made /\ n = Len(made)
  BY DEF BindFrames
<1>2. DOMAIN made = 1..n /\ \A i \in 1..n : made[i] \in W
  BY <1>1
<1>3. \A x \in W : <<x>> \in Seq(W)
  OBVIOUS
<1>4. CASE NativeKind(f.of) = "LIST"
  <2>1. Kind(NativeOf(f)) = "LIST" /\ Content(NativeOf(f)) = made
    BY <1>1, <1>4 DEF NativeOf, Kind, Content
  <2>2. Groups(NativeOf(f)) = [i \in 1..n |-> <<made[i]>>]
    BY <1>2, <2>1 DEF Groups, Singly
  <2> QED
    BY <1>2, <1>3, <2>2
<1>5. CASE NativeKind(f.of) = "STRUCT"
  <2> DEFINE fields == [i \in 1..n |-> <<CString(Content(Content(f.of)[i][1])), made[i]>>]
  <2>1. Kind(NativeOf(f)) = "STRUCT" /\ Content(NativeOf(f)) = fields
    BY <1>1, <1>2, <1>5 DEF NativeOf, Kind, Content
  <2>2. \A i \in 1..n : fields[i][2] = made[i]
    OBVIOUS
  <2>3. DOMAIN fields = 1..n
    OBVIOUS
  <2> HIDE DEF fields
  <2>4. Groups(NativeOf(f)) = [i \in 1..n |-> <<fields[i][2]>>]
    BY <2>1, <2>3 DEF Groups, Properties
  <2>5. \A i \in 1..n : <<fields[i][2]>> \in Seq(W)
    BY <1>2, <1>3, <2>2
  <2> QED
    BY <2>4, <2>5
<1>6. CASE NativeKind(f.of) = "MAP"
  <2>1. PICK m \in Nat : m = n \div 2
    OBVIOUS
  <2> DEFINE entries == [i \in 1..m |-> <<made[2 * i - 1], made[2 * i]>>]
  <2>2. Kind(NativeOf(f)) = "MAP" /\ Content(NativeOf(f)) = entries
    BY <1>1, <1>6, <2>1 DEF NativeOf, Kind, Content
  <2>3. ASSUME NEW i \in 1..m
        PROVE  2 * i - 1 \in 1..n /\ 2 * i \in 1..n
    <3>1. 2 * m <= n
      BY <2>1
    <3> QED
      BY <3>1
  <2>4. \A i \in 1..m : entries[i] \in Seq(W)
    <3>1. \A x, y \in W : <<x, y>> \in Seq(W)
      OBVIOUS
    <3> QED
      BY <1>2, <2>3, <3>1
  <2>5. DOMAIN entries = 1..m
    OBVIOUS
  <2> HIDE DEF entries
  <2>6. Groups(NativeOf(f)) = [i \in 1..m |-> Reverse(entries[i])]
    BY <2>2, <2>5 DEF Groups, MapGroups
  <2>7. \A s \in Seq(W) : Reverse(s) \in Seq(W)
    BY DEF Reverse
  <2> QED
    BY <2>4, <2>6, <2>7
<1> QED
  BY <1>4, <1>5, <1>6 DEF NativeKind

LEMMA ScalarsAreFlat ==
    ASSUME NEW v \in PyValues, IsScalar(v)
    PROVE  ~IsNested(IF Kind(v) = "numpy" THEN NumpyScalar(v) ELSE Scalar(v))
<1>1. \A k \in DOMAIN CreateFunctions : CreateFunctions[k] \notin NestedKinds
  BY DEF CreateFunctions, NestedKinds
<1>2. \A k \in DOMAIN NumpyTypes : NumpyTypes[k] \notin NestedKinds
  BY DEF NumpyTypes, NestedKinds
<1>3. ASSUME NEW w, Kind(w) \in ScalarKinds \cup {"json"}
      PROVE  Kind(Scalar(w)) \notin NestedKinds
  <2>1. IntType(Content(w)) \in {"INT8", "INT16", "INT32", "INT64"}
    BY DEF IntType
  <2>2. Kind(w) \in {"int", "bytes", "timedelta"} \/ Kind(w) \in DOMAIN CreateFunctions
    BY <1>3 DEF ScalarKinds, CreateFunctions
  <2>3. CASE Kind(w) = "int"
    BY <2>1, <2>3 DEF Scalar, Kind, NestedKinds
  <2>4. CASE Kind(w) = "bytes" \/ Kind(w) = "timedelta"
    BY <2>4 DEF Scalar, Kind, NestedKinds
  <2>5. CASE Kind(w) = "str"
    BY <2>5 DEF Scalar, Kind, NestedKinds
  <2>6. CASE Kind(w) \notin {"int", "bytes", "timedelta", "str"}
    <3>1. Kind(Scalar(w)) = CreateFunctions[Kind(w)]
      BY <2>6 DEF Scalar, Kind
    <3> QED
      BY <1>1, <2>2, <2>6, <3>1
  <2> QED
    BY <2>3, <2>4, <2>5, <2>6
<1>4. Kind(v) \in ScalarKinds \cup {"json"} \/ (Kind(v) = "numpy" /\ Kind(Content(v)[2]) \in ScalarKinds)
  <2>1. CASE v \in Values
    BY <2>1, CapiValuesParts DEF Known, IsScalar
  <2>2. CASE v \notin Values
    <3>1. Kind(v) = "str" \/ Kind(v) = "json"
      BY <2>2 DEF PyValues, Text, Kind
    <3> QED
      BY <3>1 DEF ScalarKinds, CreateFunctions
  <2> QED
    BY <2>1, <2>2
<1>5. CASE Kind(v) = "numpy"
  <2>1. Kind(Content(v)[2]) \in ScalarKinds
    BY <1>4, <1>5 DEF ScalarKinds, CreateFunctions
  <2>2. CASE Content(v)[1] \in DOMAIN NumpyTypes
    <3>1. Kind(NumpyScalar(v)) = NumpyTypes[Content(v)[1]]
      BY <2>2 DEF NumpyScalar, Kind
    <3> QED
      BY <1>2, <1>5, <2>2, <3>1 DEF IsNested, NestedKinds
  <2>3. CASE Content(v)[1] \notin DOMAIN NumpyTypes
    <3>1. NumpyScalar(v) = Scalar(Content(v)[2])
      BY <2>3 DEF NumpyScalar
    <3> QED
      BY <1>3, <1>5, <2>1, <3>1 DEF IsNested, NestedKinds
  <2> QED
    BY <2>2, <2>3
<1>6. CASE Kind(v) # "numpy"
  BY <1>3, <1>4, <1>6 DEF IsNested, NestedKinds
<1> QED
  BY <1>5, <1>6

LEMMA PartsAreValues ==
    ASSUME NEW v \in PyValues, IsComposite(v)
    PROVE  v \in Values /\ Parts(v) \in Seq(PyValues)
<1>1. v \in Values
  BY DEF PyValues, IsComposite, Sequences, Text, Kind
<1>2. Seq(Values) \subseteq Seq(PyValues)
  <2>1. Values \subseteq PyValues
    BY DEF PyValues
  <2> QED
    BY <2>1, SeqMonotonic
<1> QED
  BY <1>1, <1>2, CapiValuesParts

-----------------------------------------------------------------------------
(* The steps of a call.                                                    *)

LEMMA BindGoesOn ==
    ASSUME ValuesInv, stage' = "bind", UNCHANGED <<param, wraps, reading, adopted, leaked>>,
           live' \in Int,
           stage \in {"new", "bind"}, error' \in ValueErrors,
           NEW W, NEW R, WellFormed(W, R, native', binding', reading'), CallBinds(binding', live')
    PROVE  ValuesInv'
<1>1. ValueTyped' /\ reading' = <<>>
  BY DEF ValuesInv, ValueTyped
<1> QED
  BY <1>1 DEF ValuesInv

LEMMA ReadGoesOn ==
    ASSUME ValuesInv, stage' = "read", UNCHANGED <<param, wraps, binding>>,
           stage \in {"bound", "read"}, error' \in ValueErrors, adopted' \in Nat,
           live' \in Int, leaked' \in Nat,
           NEW W, NEW R, WellFormed(W, R, native', binding', reading'),
           CallReads(reading', InUse')
    PROVE  ValuesInv'
<1>1. ValueTyped' /\ binding' = <<>>
  BY DEF ValuesInv, ValueTyped
<1> QED
  BY <1>1 DEF ValuesInv

LEMMA CallEnds ==
    ASSUME ValuesInv, stage' \in {"bound", "done", "failed", "closed"}, UNCHANGED <<param, wraps>>,
           binding' = <<>>, reading' = <<>>, error' \in ValueErrors, live' = leaked', leaked' \in Nat,
           adopted' \in Nat, stage' = "closed" => adopted' = 0,
           stage' = "bound" => error' = "none" /\ leaked' = 0,
           NEW W, Closed(W), native' \in W
    PROVE  ValuesInv'
<1>1. ValueTyped'
  BY DEF ValuesInv, ValueTyped
<1>2. WellFormed(W, {}, native', binding', reading')
  BY DEF WellFormed
<1> QED
  BY <1>1, <1>2 DEF ValuesInv

\* A call that binds, its top frame to be worked on.
LEMMA InBinding ==
    ASSUME ValuesInv, stage = "bind", NEW W, NEW R, WellFormed(W, R, native, binding, reading)
    PROVE  /\ CallBinds(binding, live) /\ binding \in Seq(BindFrames(W)) /\ reading = <<>>
           /\ Closed(W) /\ native \in W /\ live \in Int /\ leaked = 0 /\ BindTop \in BindFrames(W)
           /\ BindTop.todo \in Seq(PyValues) /\ BindTop.made \in Seq(W)
           /\ BindTop.todo # <<>> => Head(BindTop.todo) \in PyValues
           /\ BindTop.of \in Values \cup {Absent}
<1>1. /\ CallBinds(binding, live) /\ binding \in Seq(BindFrames(W)) /\ reading = <<>>
      /\ Closed(W) /\ native \in W /\ live \in Int /\ leaked = 0
  BY DEF ValuesInv, ValueTyped, WellFormed
<1>2. BindTop \in BindFrames(W)
  BY <1>1, BindPopped DEF BindTop
<1>3. BindTop.todo \in Seq(PyValues) /\ BindTop.made \in Seq(W) /\ BindTop.of \in Values \cup {Absent}
  BY <1>2 DEF BindFrames
<1>4. BindTop.todo # <<>> => Head(BindTop.todo) \in PyValues
  BY <1>3, HeadTailProperties
<1> QED
  BY <1>1, <1>2, <1>3, <1>4

LEMMA NormalizeStep ==
    ASSUME ValuesInv, Normalize
    PROVE  ValuesInv'
<1>1. PICK W, R : WellFormed(W, R, native, binding, reading)
  BY DEF ValuesInv
<1>2. /\ stage = "new" /\ UNCHANGED <<param, wraps, native, reading, row, live, adopted, leaked>>
      /\ binding = <<>> /\ reading = <<>> /\ live = 0 /\ leaked = 0 /\ param \in Values
      /\ adopted \in Nat
      /\ error \in ValueErrors
  BY DEF Normalize, ValuesInv, ValueTyped
<1>3. Closed(W) /\ native' \in W
  BY <1>1, <1>2 DEF WellFormed
<1>4. CASE stage' = "failed" /\ error' \in {"ValueError", "TypeError"} /\ UNCHANGED binding
  BY <1>2, <1>3, <1>4, CallEnds DEF ValueErrors
<1> DEFINE f == [of |-> Absent, todo |-> <<Normalized(param)>>, made |-> <<>>]
<1>5. CASE stage' = "bind" /\ UNCHANGED error /\ binding' = <<f>>
  <2>1. Normalized(param) \in PyValues
    <3>1. CASE Kind(param) = "bytes"
      BY <1>2, <3>1 DEF Normalized, PyValues
    <3>2. CASE Kind(param) # "bytes"
      BY <1>2, <3>2 DEF Normalized, PyValues
    <3> QED
      BY <3>1, <3>2
  <2>2. f \in BindFrames(W) /\ f.made = <<>> /\ Len(f.todo) = 1
    BY <2>1 DEF BindFrames
  <2> HIDE DEF f
  <2>3. <<>> \in Seq(BindFrames(W)) /\ Append(<<>>, f) = <<f>> /\ <<f>> \in Seq(BindFrames(W))
    BY <2>2
  <2>4. Len(f.made) = 0
    BY <2>2
  <2>5. MadeBy(<<>>) = <<>>
    <3>1. Len(<<>>) = 0 /\ 1..0 = {}
      OBVIOUS
    <3> QED
      BY <3>1 DEF MadeBy
  <2>6. SumIs(<<>>, 0) /\ <<>> \in Seq(Nat)
    BY EmptySum
  <2>7. MadeBy(<<f>>) = Append(<<>>, 0)
    BY <2>2, <2>3, <2>4, <2>5, MadeByPushed
  <2>8. SumIs(MadeBy(<<f>>), 0)
    <3>1. SumIs(Append(<<>>, 0), 0 + 0)
      BY <2>6, SumPushed
    <3> QED
      BY <2>7, <3>1
  <2>9. /\ <<f>> # <<>> /\ <<f>>[1] = f /\ Len(<<f>>) = 1
        /\ \A i \in 1..(Len(<<f>>) - 1) : <<f>>[i].todo # <<>>
    OBVIOUS
  <2>10. CallBinds(<<f>>, 0)
    <3>1. PICK b : b = <<f>>
      OBVIOUS
    <3>2. Len(b[1].made) + Len(b[1].todo) = 1
      <4>1. Len(f.made) + Len(f.todo) = 1
        BY <2>2, <2>4
      <4>2. b[1] = f
        BY <2>9, <3>1
      <4> QED
        BY <4>1, <4>2
    <3> QED
      BY <2>8, <2>9, <3>1, <3>2 DEF CallBinds
  <2>11. WellFormed(W, R, native', binding', reading')
    BY <1>1, <1>2, <1>5, <2>3 DEF WellFormed
  <2> QED
    BY <1>2, <1>5, <2>10, <2>11, BindGoesOn
<1> QED
  BY <1>4, <1>5 DEF Normalize

LEMMA MakeStep ==
    ASSUME ValuesInv, Make
    PROVE  ValuesInv'
<1>1. PICK W, R : WellFormed(W, R, native, binding, reading)
  BY DEF ValuesInv
<1>2. /\ stage = "bind" /\ BindTop.todo # <<>> /\ IsScalar(Head(BindTop.todo))
      /\ live' = live + 1 /\ UNCHANGED <<stage, param, wraps, native, reading, row, error, adopted, leaked>>
  BY DEF Make, Making, Binding
<1> DEFINE v == Head(BindTop.todo)
           x == IF Kind(v) = "numpy" THEN NumpyScalar(v) ELSE Scalar(v)
<1>3. binding' = Handed(binding, x)
  BY DEF Make
<1>4. ~IsNested(x)
  BY <1>1, <1>2, InBinding, ScalarsAreFlat
<1> HIDE DEF x
<1>5. WellFormed(W \cup {x}, R \cup {0}, native, binding, reading)
  BY <1>1, <1>4, WellFormedWith
<1>6. /\ Handed(binding, x) \in Seq(BindFrames(W \cup {x}))
      /\ CallBinds(Handed(binding, x), live + 1)
  <2>1. PICK V : V = W \cup {x}
    OBVIOUS
  <2>2. binding \in Seq(BindFrames(V)) /\ CallBinds(binding, live) /\ x \in V
    BY <1>2, <1>5, <2>1, InBinding DEF WellFormed
  <2>3. Last(binding).todo # <<>>
    BY <1>2 DEF BindTop
  <2> QED
    BY <2>1, <2>2, <2>3, BindGiven
<1>7. WellFormed(W \cup {x}, R \cup {0}, native', binding', reading')
  BY <1>2, <1>3, <1>5, <1>6 DEF WellFormed
<1>8. error' \in ValueErrors /\ live' \in Int
  BY <1>2 DEF ValuesInv, ValueTyped
<1> QED
  BY <1>2, <1>3, <1>6, <1>7, <1>8, BindGoesOn

\* An error is in flight: nothing else has changed.
LEMMA RaisedStep ==
    ASSUME ValuesInv, error' \in ValueErrors,
           UNCHANGED <<stage, param, wraps, native, binding, reading, row, live, adopted, leaked>>,
           stage \in {"bind", "read"}
    PROVE  ValuesInv'
<1>1. PICK W, R : WellFormed(W, R, native, binding, reading)
  BY DEF ValuesInv
<1>2. WellFormed(W, R, native', binding', reading')
  BY <1>1
<1>3. CASE stage = "bind"
  <2>1. CallBinds(binding', live') /\ live' \in Int
    BY <1>3 DEF ValuesInv, ValueTyped
  <2> QED
    BY <1>2, <1>3, <2>1, BindGoesOn
<1>4. CASE stage = "read"
  <2>1. CallReads(reading', InUse')
    BY <1>4 DEF ValuesInv, InUse
  <2>2. adopted' \in Nat /\ live' \in Int /\ leaked' \in Nat
    BY DEF ValuesInv, ValueTyped
  <2> QED
    BY <1>2, <1>4, <2>1, <2>2, ReadGoesOn
<1> QED
  BY <1>3, <1>4

LEMMA EnterStep ==
    ASSUME ValuesInv, Enter
    PROVE  ValuesInv'
<1>1. PICK W, R : WellFormed(W, R, native, binding, reading)
  BY DEF ValuesInv
<1>2. /\ stage = "bind" /\ BindTop.todo # <<>> /\ IsComposite(Head(BindTop.todo))
      /\ UNCHANGED <<stage, param, wraps, native, reading, row, error, live, adopted, leaked>>
  BY DEF Enter, Making, Binding
<1> DEFINE v == Head(BindTop.todo)
           f == [of |-> v, todo |-> Parts(v), made |-> <<>>]
<1>3. binding' = Append(binding, f)
  BY DEF Enter
<1>4. f \in BindFrames(W) /\ f.made = <<>>
  <2>1. v \in Values /\ Parts(v) \in Seq(PyValues)
    BY <1>1, <1>2, InBinding, PartsAreValues
  <2> QED
    BY <2>1 DEF BindFrames
<1> HIDE DEF f
<1>5. Append(binding, f) \in Seq(BindFrames(W)) /\ CallBinds(Append(binding, f), live)
  <2>1. binding \in Seq(BindFrames(W)) /\ CallBinds(binding, live) /\ Last(binding).todo # <<>>
    BY <1>1, <1>2, InBinding DEF BindTop
  <2> QED
    BY <1>4, <2>1, BindPushed
<1>6. WellFormed(W, R, native', binding', reading')
  BY <1>1, <1>2, <1>3, <1>5 DEF WellFormed
<1>7. error' \in ValueErrors /\ live' \in Int
  BY <1>2 DEF ValuesInv, ValueTyped
<1> QED
  BY <1>2, <1>3, <1>5, <1>6, <1>7, BindGoesOn

LEMMA CreateStep ==
    ASSUME ValuesInv, Create
    PROVE  ValuesInv'
<1>1. PICK W, R : WellFormed(W, R, native, binding, reading)
  BY DEF ValuesInv
<1>2. /\ stage = "bind" /\ Len(binding) # 1 /\ live' = live - Len(BindTop.made) + 1
      /\ UNCHANGED <<stage, param, wraps, native, reading, row, error, adopted, leaked>>
  <2>1. Len(binding) > 1
    BY DEF Create
  <2>2. ~(1 > 1)
    OBVIOUS
  <2> QED
    BY <2>1, <2>2 DEF Create, Binding
<1> DEFINE x == NativeOf(BindTop)
<1>3. binding' = Handed(Front(binding), x)
  BY DEF Create, BindBelow
<1>4. IsNested(x) => Groups(x) \in Seq(Seq(W))
  BY <1>1, <1>2, InBinding, NativeIsOfParts
<1> HIDE DEF x
<1>5. WellFormed(W \cup {x}, R \cup {0}, native, binding, reading)
  BY <1>1, <1>4, WellFormedWith
<1>6. /\ Handed(Front(binding), x) \in Seq(BindFrames(W \cup {x}))
      /\ CallBinds(Handed(Front(binding), x), live - Len(BindTop.made) + 1)
  <2>1. PICK V : V = W \cup {x}
    OBVIOUS
  <2>2. binding \in Seq(BindFrames(V)) /\ CallBinds(binding, live) /\ x \in V
    BY <1>2, <1>5, <2>1, InBinding DEF WellFormed
  <2>3. /\ Front(binding) \in Seq(BindFrames(V)) /\ Last(Front(binding)).todo # <<>>
        /\ CallBinds(Front(binding), live - Len(BindTop.made))
    BY <1>2, <2>2, BindPopped DEF BindTop
  <2>4. PICK b, l : b = Front(binding) /\ l = live - Len(BindTop.made)
    OBVIOUS
  <2> QED
    BY <2>1, <2>2, <2>3, <2>4, BindGiven
<1>7. WellFormed(W \cup {x}, R \cup {0}, native', binding', reading')
  BY <1>2, <1>3, <1>5, <1>6 DEF WellFormed
<1>8. error' \in ValueErrors /\ live' \in Int
  <2>1. BindTop.made \in Seq(W)
    BY <1>1, <1>2, InBinding
  <2>2. Len(BindTop.made) \in Nat
    BY <2>1
  <2> QED
    BY <1>2, <2>2 DEF ValuesInv, ValueTyped
<1> QED
  BY <1>2, <1>3, <1>6, <1>7, <1>8, BindGoesOn

LEMMA BindValueStep ==
    ASSUME ValuesInv, BindValue
    PROVE  ValuesInv'
<1>1. PICK W, R : WellFormed(W, R, native, binding, reading)
  BY DEF ValuesInv
<1>2. /\ stage = "bind" /\ BindTop.todo = <<>> /\ Len(binding) = 1
      /\ native' = BindTop.made[1] /\ live' = live - 1 /\ binding' = <<>> /\ stage' = "bound"
      /\ UNCHANGED <<param, wraps, reading, row, error, adopted, leaked>> /\ error = "none"
  BY DEF BindValue, Binding
<1>3. /\ CallBinds(binding, live) /\ binding \in Seq(BindFrames(W)) /\ reading = <<>>
      /\ Closed(W) /\ BindTop.made \in Seq(W) /\ leaked = 0
  BY <1>1, <1>2, InBinding
<1>4. live = Len(BindTop.made) /\ Len(binding[1].made) + Len(binding[1].todo) = 1 /\ binding[1] = BindTop
  BY <1>2, <1>3, BindPopped DEF BindTop, CallBinds
<1>5. Len(BindTop.made) = 1
  <2>1. Len(BindTop.todo) = 0 /\ Len(BindTop.made) \in Nat
    BY <1>2, <1>3
  <2> QED
    BY <1>4, <2>1
<1>6. BindTop.made[1] \in W /\ live' = 0 /\ leaked' = 0
  <2>1. BindTop.made[1] \in W
    BY <1>3, <1>5
  <2>2. live = 1
    BY <1>4, <1>5
  <2> QED
    BY <1>2, <1>3, <2>1, <2>2
<1>7. error' \in ValueErrors /\ adopted' \in Nat
  BY <1>2 DEF ValuesInv, ValueTyped
<1>8. /\ stage' = "bound" /\ UNCHANGED <<param, wraps>> /\ binding' = <<>> /\ reading' = <<>>
      /\ error' = "none" /\ native' \in W /\ Closed(W)
  BY <1>2, <1>3, <1>6
<1>9. live' = leaked' /\ leaked' \in Nat /\ leaked' = 0
  BY <1>6
<1> QED
  BY <1>7, <1>8, <1>9, CallEnds

LEMMA BindUnwindStep ==
    ASSUME ValuesInv, BindUnwind
    PROVE  ValuesInv'
<1>1. PICK W, R : WellFormed(W, R, native, binding, reading)
  BY DEF ValuesInv
<1>2. /\ stage = "bind" /\ live' = live - Len(BindTop.made) /\ binding' = Front(binding)
      /\ stage' = IF Len(binding) = 1 THEN "failed" ELSE stage
      /\ UNCHANGED <<param, wraps, native, reading, row, error, adopted, leaked>>
  BY DEF BindUnwind, BindBelow
<1>3. /\ CallBinds(binding, live) /\ binding \in Seq(BindFrames(W)) /\ reading = <<>>
      /\ Closed(W) /\ native \in W /\ leaked = 0 /\ live \in Int
      /\ BindTop.made \in Seq(W)
  BY <1>1, <1>2, InBinding
<1>4. error' \in ValueErrors /\ adopted' \in Nat /\ live' \in Int
  BY <1>2, <1>3 DEF ValuesInv, ValueTyped
<1>5. CASE Len(binding) = 1
  <2>1. live = Len(BindTop.made) /\ live \in Nat /\ Front(binding) = <<>>
    BY <1>3, <1>5, BindPopped DEF BindTop
  <2>2. live' = leaked' /\ leaked' \in Nat
    BY <1>2, <1>3, <2>1
  <2> QED
    BY <1>2, <1>3, <1>4, <1>5, <2>1, <2>2, CallEnds
<1>6. CASE Len(binding) # 1
  <2>1. /\ Front(binding) \in Seq(BindFrames(W))
        /\ CallBinds(Front(binding), live - Len(BindTop.made))
    BY <1>3, <1>6, BindPopped DEF BindTop
  <2>2. WellFormed(W, R, native', binding', reading')
    BY <1>1, <1>2, <2>1 DEF WellFormed
  <2> QED
    BY <1>2, <1>4, <1>6, <2>1, <2>2, BindGoesOn
<1> QED
  BY <1>5, <1>6

-----------------------------------------------------------------------------

\* A call that reads, its top frame to be worked on.
LEMMA InReading ==
    ASSUME ValuesInv, stage = "read", NEW W, NEW R, WellFormed(W, R, native, binding, reading)
    PROVE  /\ CallReads(reading, InUse) /\ reading \in Seq(ReadFrames(W, R)) /\ binding = <<>>
           /\ binding \in Seq(BindFrames(W)) /\ Closed(W) /\ native \in W
           /\ live \in Int /\ leaked \in Nat /\ InUse \in Nat /\ ReadTop \in ReadFrames(W, R)
           /\ ReadTop.of \in W /\ ReadTop.todo \in Seq(Seq(W)) /\ ReadTop.group \in Seq(W)
           /\ ReadTop.size \in Nat /\ ReadTop.read \in Seq(R)
           /\ error \in ValueErrors /\ adopted \in Nat
<1>1. /\ CallReads(reading, InUse) /\ reading \in Seq(ReadFrames(W, R)) /\ binding = <<>>
      /\ binding \in Seq(BindFrames(W)) /\ Closed(W) /\ native \in W
  BY DEF ValuesInv, WellFormed
<1>2. ReadTop \in ReadFrames(W, R) /\ InUse \in Nat
  BY <1>1, ReadPopped DEF ReadTop
<1>3. /\ ReadTop.of \in W /\ ReadTop.todo \in Seq(Seq(W)) /\ ReadTop.group \in Seq(W)
      /\ ReadTop.size \in Nat /\ ReadTop.read \in Seq(R)
  BY <1>2 DEF ReadFrames
<1>4. error \in ValueErrors /\ adopted \in Nat /\ live \in Int /\ leaked \in Nat
  BY DEF ValuesInv, ValueTyped
<1> QED
  BY <1>1, <1>2, <1>3, <1>4

\* What a step gets or destroys.
LEMMA UseChanges ==
    ASSUME live \in Int, leaked \in Nat, leaked' = leaked, NEW n \in Int, live' = live + n
    PROVE  InUse' = InUse + n /\ live' \in Int /\ leaked' \in Nat
BY DEF InUse

\* A frame without parts to read.
LEMMA FramesAre ==
    ASSUME NEW W, NEW R, NEW n \in W, Groups(n) \in Seq(Seq(W))
    PROVE  Frame(n) \in ReadFrames(W, R) /\ Frame(n).size = 0
BY DEF Frame, ReadFrames

LEMMA GetNextStep ==
    ASSUME ValuesInv, GetNext
    PROVE  ValuesInv'
<1>1. PICK W, R : WellFormed(W, R, native, binding, reading)
  BY DEF ValuesInv
<1>2. /\ stage = "bound" /\ stage' = "read" /\ live' = live + 1 /\ live = 0 /\ leaked = 0
      /\ reading = <<>>
      /\ UNCHANGED <<param, wraps, native, binding, row, error, adopted, leaked>>
  BY DEF GetNext, ValuesInv, ValueTyped
<1> DEFINE given == Returned
           x == <<"ROW", <<Returned>>>>
           V == (W \cup {given}) \cup {x}
<1>3. reading' = <<Frame(x)>>
  BY DEF GetNext
<1>4. IsNested(given) => Groups(given) \in Seq(Seq(W))
  <2>1. given = native \/ ~IsNested(given)
    BY DEF Returned, IsNested, Kind
  <2>2. IsNested(native) => Groups(native) \in Seq(Seq(W))
    BY <1>1 DEF WellFormed, Closed
  <2> QED
    BY <2>1, <2>2
<1>5. ~IsNested(x) /\ Groups(x) = <<<<given>>>>
  <2>1. Kind(x) = "ROW" /\ Content(x) = <<given>>
    BY DEF Kind, Content
  <2>2. Groups(x) = [i \in DOMAIN <<given>> |-> <<(<<given>>)[i]>>]
    BY <2>1 DEF Groups, Singly
  <2>3. DOMAIN <<given>> = {1} /\ (<<given>>)[1] = given
    OBVIOUS
  <2>4. [i \in DOMAIN <<given>> |-> <<(<<given>>)[i]>>] = <<<<given>>>>
    BY <2>3
  <2> QED
    BY <2>1, <2>2, <2>4 DEF IsNested
<1> HIDE DEF given, x
<1>6. WellFormed(V, (R \cup {0}) \cup {0}, native, binding, reading)
  BY <1>1, <1>4, <1>5, WellFormedWith
<1>7. PICK S : S = (R \cup {0}) \cup {0}
  OBVIOUS
<1>8. Frame(x) \in ReadFrames(V, S) /\ Frame(x).size = 0
  <2>1. given \in V /\ x \in V
    OBVIOUS
  <2> HIDE DEF V
  <2>2. <<<<given>>>> \in Seq(Seq(V))
    BY <2>1
  <2> QED
    BY <1>5, <2>1, <2>2, FramesAre
<1> HIDE DEF V
<1>9. PICK f : f = Frame(x)
  OBVIOUS
<1>10. /\ <<>> \in Seq(ReadFrames(V, S)) /\ Append(<<>>, f) = <<f>>
       /\ <<f>> \in Seq(ReadFrames(V, S))
  BY <1>8, <1>9
<1>11. GotBy(<<>>) = <<>>
  <2>1. Len(<<>>) = 0 /\ 1..0 = {}
    OBVIOUS
  <2> QED
    BY <2>1 DEF GotBy
<1>12. SumIs(GotBy(<<f>>), 1)
  <2>1. f.size + 1 = 1
    BY <1>8, <1>9
  <2>2. GotBy(<<f>>) = Append(<<>>, 1)
    <3>1. PICK r \in Seq(ReadFrames(V, S)) : r = <<>>
      BY <1>10
    <3>2. GotBy(Append(r, f)) = Append(GotBy(r), f.size + 1)
      BY <1>8, <1>9, GotByPushed
    <3> QED
      BY <1>10, <1>11, <2>1, <3>1, <3>2
  <2>3. SumIs(<<>>, 0) /\ <<>> \in Seq(Nat)
    BY EmptySum
  <2>4. SumIs(Append(<<>>, 1), 0 + 1)
    BY <2>3, SumPushed
  <2> QED
    BY <2>2, <2>4
<1>13. /\ <<f>> # <<>> /\ Len(<<f>>) = 1
       /\ \A i \in 1..(Len(<<f>>) - 1) : <<f>>[i].group # <<>>
  OBVIOUS
<1>14. error' \in ValueErrors /\ adopted' \in Nat
  BY <1>2 DEF ValuesInv, ValueTyped
<1>15. CallReads(<<f>>, 1)
  BY <1>12, <1>13 DEF CallReads
<1>16. InUse' = 1 /\ live' \in Int /\ leaked' \in Nat /\ reading' = <<f>>
  BY <1>2, <1>3, <1>9 DEF InUse
<1>17. WellFormed(V, S, native', binding', reading')
  BY <1>2, <1>6, <1>7, <1>10, <1>16 DEF WellFormed
<1> QED
  BY <1>2, <1>14, <1>15, <1>16, <1>17, ReadGoesOn

-----------------------------------------------------------------------------

LEMMA TakesChild ==
    ASSUME NEW W, NEW R, NEW r \in Seq(ReadFrames(W, R)), NEW total, CallReads(r, total),
           Last(r).group # <<>>, NEW value \in R
    PROVE  /\ Converted(r, value) \in Seq(ReadFrames(W, R))
           /\ CallReads(Converted(r, value), total)
<1> DEFINE top == Last(r)
           f == [of |-> top.of, todo |-> top.todo, group |-> Tail(top.group), size |-> top.size,
                 read |-> Append(top.read, value)]
<1>1. Converted(r, value) = Append(Front(r), f)
  BY DEF Converted
<1>2. top \in ReadFrames(W, R) /\ total \in Nat
  BY ReadPopped
<1>3. f \in ReadFrames(W, R) /\ f.size = top.size /\ top.size \in Nat
  <2>1. /\ top.of \in W /\ top.todo \in Seq(Seq(W)) /\ top.group \in Seq(W) /\ top.size \in Nat
        /\ top.read \in Seq(R)
    BY <1>2 DEF ReadFrames
  <2>2. Tail(top.group) \in Seq(W) /\ Append(top.read, value) \in Seq(R)
    BY <2>1, HeadTailProperties
  <2> HIDE DEF top
  <2> QED
    BY <2>1, <2>2 DEF ReadFrames
<1> HIDE DEF f
<1>4. /\ Append(Front(r), f) \in Seq(ReadFrames(W, R))
      /\ CallReads(Append(Front(r), f), total)
  <2>1. total = total - Last(r).size + f.size
    BY <1>2, <1>3
  <2> QED
    BY <1>3, <2>1, ReadReplaced
<1> QED
  BY <1>1, <1>4

LEMMA GroupChanges ==
    ASSUME NEW W, NEW R, reading \in Seq(ReadFrames(W, R)), CallReads(reading, InUse),
           NEW f \in ReadFrames(W, R), InUse' = InUse - Last(reading).size + f.size
    PROVE  /\ Append(Front(reading), f) \in Seq(ReadFrames(W, R))
           /\ CallReads(Append(Front(reading), f), InUse')
<1>1. CallReads(Append(Front(reading), f), InUse')
  BY ReadReplaced
<1>2. Append(Front(reading), f) \in Seq(ReadFrames(W, R))
  BY FrontEntries, AppendEntries DEF CallReads
<1> QED
  BY <1>1, <1>2

LEMMA FetchStep ==
    ASSUME ValuesInv, Fetch
    PROVE  ValuesInv'
<1>1. PICK W, R : WellFormed(W, R, native, binding, reading)
  BY DEF ValuesInv
<1> DEFINE group == Head(ReadTop.todo)
           f == [of |-> ReadTop.of, todo |-> Tail(ReadTop.todo), group |-> group,
                 size |-> Len(group), read |-> ReadTop.read]
<1>2. /\ stage = "read" /\ error = "none" /\ ReadTop.todo # <<>> /\ ReadTop.size = 0
      /\ reading' = Append(Front(reading), f) /\ live' = live + Len(group)
      /\ adopted' \in {adopted, adopted + 1}
      /\ UNCHANGED <<stage, param, wraps, native, binding, row, error, leaked>>
  BY DEF Fetch, CanFetch, Reading, ReadBelow
<1>3. /\ CallReads(reading, InUse) /\ reading \in Seq(ReadFrames(W, R))
      /\ binding \in Seq(BindFrames(W)) /\ Closed(W) /\ native \in W /\ live \in Int /\ leaked \in Nat
      /\ InUse \in Nat
      /\ ReadTop.of \in W /\ ReadTop.todo \in Seq(Seq(W)) /\ ReadTop.read \in Seq(R)
      /\ error \in ValueErrors /\ adopted \in Nat
  BY <1>1, <1>2, InReading
<1>4. group \in Seq(W) /\ Tail(ReadTop.todo) \in Seq(Seq(W))
  BY <1>2, <1>3, HeadTailProperties
<1>5. f \in ReadFrames(W, R) /\ f.size = Len(group) /\ Len(group) \in Nat
  <2> HIDE DEF group
  <2> QED
    BY <1>3, <1>4 DEF ReadFrames
<1> HIDE DEF f, group
<1>10. InUse' = InUse + Len(group) /\ live' \in Int /\ leaked' \in Nat
  BY <1>2, <1>3, <1>5, UseChanges
<1>6. /\ Append(Front(reading), f) \in Seq(ReadFrames(W, R))
      /\ CallReads(Append(Front(reading), f), InUse')
  <2>1. InUse' = InUse - Last(reading).size + f.size
    BY <1>2, <1>3, <1>5, <1>10 DEF ReadTop
  <2>2. /\ reading \in Seq(ReadFrames(W, R)) /\ f \in ReadFrames(W, R)
        /\ CallReads(reading, InUse)
    BY <1>3, <1>5
  <2>3. PICK g \in ReadFrames(W, R) : g = f
    BY <2>2
  <2>4. InUse' = InUse - Last(reading).size + g.size
    BY <2>1, <2>3
  <2>5. /\ Append(Front(reading), g) \in Seq(ReadFrames(W, R))
        /\ CallReads(Append(Front(reading), g), InUse')
    BY <2>1, <2>2, <2>4, GroupChanges
  <2> QED
    BY <2>3, <2>5
<1>8. WellFormed(W, R, native', binding', reading')
  BY <1>2, <1>3, <1>6 DEF WellFormed
<1>9. adopted' \in Nat /\ error' \in ValueErrors
  BY <1>2, <1>3
<1> QED
  BY <1>2, <1>6, <1>8, <1>9, <1>10, ReadGoesOn

\* The key of a map entry is lost; what else has been got of the group is gone at once.
LEMMA FetchFailsStep ==
    ASSUME ValuesInv, FetchFails
    PROVE  ValuesInv'
<1>1. PICK W, R : WellFormed(W, R, native, binding, reading)
  BY DEF ValuesInv
<1>2. PICK keys \in {0, 1}, names \in {0, 1} :
        live' = live + keys /\ leaked' = leaked + keys /\ adopted' = adopted + names
  <2> DEFINE keys == IF Kind(ReadTop.of) = "MAP" /\ LostIn(Head(ReadTop.todo)) = {1} THEN 1 ELSE 0
             names == IF Kind(ReadTop.of) \in {"NODE", "REL"} /\ Len(Head(ReadTop.todo)) = 1
                      THEN 1 ELSE 0
  <2>1. live' = live + keys /\ leaked' = leaked + keys /\ adopted' = adopted + names
    BY DEF FetchFails
  <2>2. keys \in {0, 1} /\ names \in {0, 1}
    OBVIOUS
  <2> HIDE DEF keys, names
  <2> QED
    BY <2>1, <2>2
<1>3. /\ stage = "read" /\ error' = "RuntimeError"
      /\ UNCHANGED <<stage, param, wraps, native, binding, reading, row>>
  BY DEF FetchFails, CanFetch, Reading
<1>4. /\ CallReads(reading, InUse) /\ live \in Int /\ leaked \in Nat /\ adopted \in Nat
  BY <1>1, <1>3, InReading
<1>5. InUse' = InUse /\ live' \in Int /\ leaked' \in Nat /\ adopted' \in Nat
  BY <1>2, <1>4 DEF InUse
<1>6. WellFormed(W, R, native', binding', reading') /\ CallReads(reading', InUse')
  BY <1>1, <1>3, <1>4, <1>5
<1>7. error' \in ValueErrors
  BY <1>3 DEF ValueErrors
<1> QED
  BY <1>3, <1>5, <1>6, <1>7, ReadGoesOn

LEMMA ConvertStep ==
    ASSUME ValuesInv, Convert
    PROVE  ValuesInv'
<1>1. PICK W, R : WellFormed(W, R, native, binding, reading)
  BY DEF ValuesInv
<1> DEFINE value == ReadScalar(Child)
<1>2. /\ stage = "read" /\ error = "none" /\ ReadTop.group # <<>>
      /\ reading' = Converted(reading, value) /\ adopted' = adopted + Adopts(Child)
      /\ UNCHANGED <<stage, param, wraps, native, binding, row, error, live, leaked>>
  BY DEF Convert, Reading
<1> HIDE DEF value
<1>3. PICK Q : Q = R \cup {value}
  OBVIOUS
<1>4. WellFormed(W, Q, native, binding, reading)
  <2>1. Seq(ReadFrames(W, R)) \subseteq Seq(ReadFrames(W, Q))
    BY <1>3, ReadFramesGrow
  <2> QED
    BY <1>1, <2>1 DEF WellFormed
<1>5. /\ CallReads(reading, InUse) /\ reading \in Seq(ReadFrames(W, Q))
      /\ binding \in Seq(BindFrames(W)) /\ Closed(W) /\ native \in W
      /\ error \in ValueErrors /\ adopted \in Nat /\ live \in Int /\ leaked \in Nat
  BY <1>2, <1>4, InReading
<1>6. /\ Converted(reading, value) \in Seq(ReadFrames(W, Q))
      /\ CallReads(Converted(reading, value), InUse)
  BY <1>2, <1>3, <1>5, TakesChild DEF ReadTop
<1>7. WellFormed(W, Q, native', binding', reading')
  BY <1>2, <1>5, <1>6 DEF WellFormed
<1>8. adopted' \in Nat /\ error' \in ValueErrors
  BY <1>2, <1>5 DEF Adopts
<1>9. InUse' = InUse
  BY <1>2 DEF InUse
<1> QED
  BY <1>2, <1>5, <1>6, <1>7, <1>8, <1>9, ReadGoesOn

LEMMA DescendStep ==
    ASSUME ValuesInv, Descend
    PROVE  ValuesInv'
<1>1. PICK W, R : WellFormed(W, R, native, binding, reading)
  BY DEF ValuesInv
<1>2. /\ stage = "read" /\ error = "none" /\ ReadTop.group # <<>> /\ IsNested(Child)
      /\ reading' = Append(reading, Frame(Child)) /\ live' = live + 1
      /\ UNCHANGED <<stage, param, wraps, native, binding, row, error, adopted, leaked>>
  BY DEF Descend, Reading
<1>3. /\ CallReads(reading, InUse) /\ reading \in Seq(ReadFrames(W, R))
      /\ binding \in Seq(BindFrames(W)) /\ Closed(W) /\ native \in W /\ ReadTop.group \in Seq(W)
      /\ error \in ValueErrors /\ adopted \in Nat /\ live \in Int /\ leaked \in Nat
  BY <1>1, <1>2, InReading
<1>4. Child \in W /\ Groups(Child) \in Seq(Seq(W))
  <2>1. Child \in W
    BY <1>2, <1>3, HeadTailProperties DEF Child
  <2> QED
    BY <1>2, <1>3, <2>1 DEF Closed
<1>5. PICK f : f = Frame(Child)
  OBVIOUS
<1>6. f \in ReadFrames(W, R) /\ f.size = 0
  BY <1>4, <1>5, FramesAre
<1>7. /\ Append(reading, f) \in Seq(ReadFrames(W, R))
      /\ CallReads(Append(reading, f), InUse + 1)
  BY <1>2, <1>3, <1>6, ReadPushed DEF ReadTop
<1>8. WellFormed(W, R, native', binding', reading')
  BY <1>2, <1>3, <1>5, <1>7 DEF WellFormed
<1>9. InUse' = InUse + 1 /\ live' \in Int /\ leaked' \in Nat
  BY <1>2, <1>3, UseChanges
<1> QED
  BY <1>2, <1>3, <1>5, <1>7, <1>8, <1>9, ReadGoesOn

LEMMA FreeGroupStep ==
    ASSUME ValuesInv, FreeGroup
    PROVE  ValuesInv'
<1>1. PICK W, R : WellFormed(W, R, native, binding, reading)
  BY DEF ValuesInv
<1> DEFINE f == [ReadTop EXCEPT !.size = 0]
<1>2. /\ stage = "read" /\ error = "none" /\ reading' = Append(Front(reading), f)
      /\ live' = live - ReadTop.size
      /\ UNCHANGED <<stage, param, wraps, native, binding, row, error, adopted, leaked>>
  BY DEF FreeGroup, GroupRead, Reading, ReadBelow
<1>3. /\ CallReads(reading, InUse) /\ reading \in Seq(ReadFrames(W, R))
      /\ binding \in Seq(BindFrames(W)) /\ Closed(W) /\ native \in W /\ live \in Int /\ leaked \in Nat
      /\ InUse \in Nat
      /\ ReadTop \in ReadFrames(W, R) /\ ReadTop.size \in Nat
      /\ error \in ValueErrors /\ adopted \in Nat
  BY <1>1, <1>2, InReading
<1>4. f \in ReadFrames(W, R) /\ f.size = 0
  BY <1>3 DEF ReadFrames
<1> HIDE DEF f
<1>10. InUse' = InUse - ReadTop.size /\ live' \in Int /\ leaked' \in Nat
  BY <1>2, <1>3 DEF InUse
<1>5. /\ Append(Front(reading), f) \in Seq(ReadFrames(W, R))
      /\ CallReads(Append(Front(reading), f), InUse')
  <2>1. InUse' = InUse - Last(reading).size + f.size
    BY <1>3, <1>4, <1>10 DEF ReadTop
  <2>2. /\ reading \in Seq(ReadFrames(W, R)) /\ f \in ReadFrames(W, R)
        /\ CallReads(reading, InUse)
    BY <1>3, <1>4
  <2>3. PICK g \in ReadFrames(W, R) : g = f
    BY <2>2
  <2>4. InUse' = InUse - Last(reading).size + g.size
    BY <2>1, <2>3
  <2>5. /\ Append(Front(reading), g) \in Seq(ReadFrames(W, R))
        /\ CallReads(Append(Front(reading), g), InUse')
    BY <2>1, <2>2, <2>4, GroupChanges
  <2> QED
    BY <2>3, <2>5
<1>7. WellFormed(W, R, native', binding', reading')
  BY <1>2, <1>3, <1>5 DEF WellFormed
<1>8. adopted' \in Nat /\ error' \in ValueErrors
  BY <1>2, <1>3
<1> QED
  BY <1>2, <1>5, <1>7, <1>8, <1>10, ReadGoesOn

LEMMA FinishStep ==
    ASSUME ValuesInv, Finish
    PROVE  ValuesInv'
<1>1. PICK W, R : WellFormed(W, R, native, binding, reading)
  BY DEF ValuesInv
<1> DEFINE value == Assembled(ReadTop)
<1>2. /\ stage = "read" /\ error = "none" /\ ReadTop.size = 0 /\ live' = live - 1
      /\ IF Len(reading) = 1 THEN reading' = <<>> /\ stage' = "done"
         ELSE reading' = Converted(Front(reading), value) /\ stage' = stage
      /\ UNCHANGED <<param, wraps, native, binding, error, adopted, leaked>>
  BY DEF Finish, Reading, ReadBelow
<1> HIDE DEF value
<1>3. PICK Q : Q = R \cup {value}
  OBVIOUS
<1>4. WellFormed(W, Q, native, binding, reading)
  <2>1. Seq(ReadFrames(W, R)) \subseteq Seq(ReadFrames(W, Q))
    BY <1>3, ReadFramesGrow
  <2> QED
    BY <1>1, <2>1 DEF WellFormed
<1>5. /\ CallReads(reading, InUse) /\ reading \in Seq(ReadFrames(W, Q))
      /\ binding \in Seq(BindFrames(W)) /\ binding = <<>> /\ Closed(W) /\ native \in W
      /\ live \in Int /\ leaked \in Nat /\ InUse \in Nat
      /\ error \in ValueErrors /\ adopted \in Nat
  BY <1>2, <1>4, InReading
<1>6. /\ adopted' \in Nat /\ error' \in ValueErrors
      /\ InUse' = InUse - 1 /\ live' \in Int /\ leaked' \in Nat
  BY <1>2, <1>5 DEF InUse
<1>7. CASE Len(reading) = 1
  <2>1. InUse = 1
    BY <1>2, <1>5, <1>7, ReadPopped DEF ReadTop
  <2>2. live' = leaked' /\ binding' = <<>> /\ reading' = <<>> /\ stage' = "done" /\ native' \in W
    BY <1>2, <1>5, <1>7, <2>1 DEF InUse
  <2> QED
    BY <1>2, <1>5, <1>6, <2>2, CallEnds
<1>8. CASE Len(reading) # 1
  <2>1. /\ Front(reading) \in Seq(ReadFrames(W, Q))
        /\ CallReads(Front(reading), InUse - Last(reading).size - 1)
        /\ Last(Front(reading)).group # <<>>
    BY <1>5, <1>8, ReadPopped
  <2>2. InUse - Last(reading).size - 1 = InUse'
    BY <1>2, <1>5, <1>6 DEF ReadTop
  <2>3. PICK r : r = Front(reading)
    OBVIOUS
  <2>4. Converted(r, value) \in Seq(ReadFrames(W, Q)) /\ CallReads(Converted(r, value), InUse')
    <3>1. value \in Q
      BY <1>3
    <3> QED
      BY <2>1, <2>2, <2>3, <3>1, TakesChild
  <2>5. WellFormed(W, Q, native', binding', reading')
    BY <1>2, <1>5, <1>8, <2>3, <2>4 DEF WellFormed
  <2> QED
    BY <1>2, <1>6, <1>8, <2>3, <2>4, <2>5, ReadGoesOn
<1> QED
  BY <1>7, <1>8

LEMMA CatchStep ==
    ASSUME ValuesInv, Catch
    PROVE  ValuesInv'
<1>1. PICK W, R : WellFormed(W, R, native, binding, reading)
  BY DEF ValuesInv
<1>2. /\ stage = "read" /\ ReadTop.group # <<>> /\ error' = "none"
      /\ reading' = Converted(reading, Rendered) /\ adopted' = adopted + 1
      /\ UNCHANGED <<stage, param, wraps, native, binding, row, live, leaked>>
  BY DEF Catch, Catches
<1>3. PICK Q : Q = R \cup {Rendered}
  OBVIOUS
<1>4. WellFormed(W, Q, native, binding, reading)
  <2>1. Seq(ReadFrames(W, R)) \subseteq Seq(ReadFrames(W, Q))
    BY <1>3, ReadFramesGrow
  <2> QED
    BY <1>1, <2>1 DEF WellFormed
<1>5. /\ CallReads(reading, InUse) /\ reading \in Seq(ReadFrames(W, Q))
      /\ binding \in Seq(BindFrames(W)) /\ Closed(W) /\ native \in W /\ adopted \in Nat
      /\ live \in Int /\ leaked \in Nat
  BY <1>2, <1>4, InReading
<1>6. /\ Converted(reading, Rendered) \in Seq(ReadFrames(W, Q))
      /\ CallReads(Converted(reading, Rendered), InUse)
  <2>1. Last(reading).group # <<>> /\ Rendered \in Q
    BY <1>2, <1>3 DEF ReadTop
  <2> QED
    BY <1>2, <1>5, <2>1, TakesChild
<1>7. WellFormed(W, Q, native', binding', reading')
  BY <1>2, <1>5, <1>6 DEF WellFormed
<1>8. adopted' \in Nat /\ error' \in ValueErrors
  BY <1>2, <1>5 DEF ValueErrors
<1>9. InUse' = InUse
  BY <1>2 DEF InUse
<1> QED
  BY <1>2, <1>5, <1>6, <1>7, <1>8, <1>9, ReadGoesOn

LEMMA UnwindStep ==
    ASSUME ValuesInv, Unwind
    PROVE  ValuesInv'
<1>1. PICK W, R : WellFormed(W, R, native, binding, reading)
  BY DEF ValuesInv
<1>2. /\ stage = "read" /\ live' = live - ReadTop.size - 1 /\ reading' = Front(reading)
      /\ stage' = IF Len(reading) = 1 THEN "failed" ELSE stage
      /\ UNCHANGED <<param, wraps, native, binding, row, error, adopted, leaked>>
  BY DEF Unwind, ReadBelow
<1>3. /\ CallReads(reading, InUse) /\ reading \in Seq(ReadFrames(W, R))
      /\ binding \in Seq(BindFrames(W)) /\ binding = <<>> /\ Closed(W) /\ native \in W
      /\ live \in Int /\ leaked \in Nat /\ InUse \in Nat /\ ReadTop.size \in Nat
      /\ error \in ValueErrors /\ adopted \in Nat
  BY <1>1, <1>2, InReading
<1>6. InUse' = InUse - ReadTop.size - 1 /\ live' \in Int /\ leaked' \in Nat
  BY <1>2, <1>3 DEF InUse
<1>4. CASE Len(reading) = 1
  <2>1. InUse = Last(reading).size + 1 /\ Last(reading).size \in Nat /\ Front(reading) = <<>>
    BY <1>3, <1>4, ReadPopped
  <2>2. live' = leaked'
    BY <1>3, <1>6, <2>1 DEF ReadTop, InUse
  <2> QED
    BY <1>2, <1>3, <1>4, <1>6, <2>1, <2>2, CallEnds
<1>5. CASE Len(reading) # 1
  <2>1. /\ Front(reading) \in Seq(ReadFrames(W, R))
        /\ CallReads(Front(reading), InUse - Last(reading).size - 1)
    BY <1>3, <1>5, ReadPopped
  <2>2. CallReads(reading', InUse')
    BY <1>2, <1>6, <2>1 DEF ReadTop
  <2>3. WellFormed(W, R, native', binding', reading')
    BY <1>2, <1>3, <2>1 DEF WellFormed
  <2> QED
    BY <1>2, <1>3, <1>5, <1>6, <2>2, <2>3, ReadGoesOn
<1> QED
  BY <1>4, <1>5

LEMMA CloseResultStep ==
    ASSUME ValuesInv, CloseResult
    PROVE  ValuesInv'
<1>1. PICK W, R : WellFormed(W, R, native, binding, reading)
  BY DEF ValuesInv
<1>2. /\ stage \in {"done", "failed"} /\ stage' = "closed" /\ adopted' = 0
      /\ UNCHANGED <<param, wraps, native, binding, reading, row, error, live, leaked>>
  BY DEF CloseResult
<1>3. binding = <<>> /\ reading = <<>> /\ live = leaked /\ leaked \in Nat
      /\ error \in ValueErrors
  BY <1>2 DEF ValuesInv, ValueTyped
<1>4. Closed(W) /\ native' \in W
  BY <1>1, <1>2 DEF WellFormed
<1> QED
  BY <1>2, <1>3, <1>4, CallEnds

-----------------------------------------------------------------------------
(* The whole of a call.                                                    *)

LEMMA ValuesBegin ==
    ASSUME ValueInit
    PROVE  ValuesInv
<1>1. /\ binding = <<>> /\ reading = <<>> /\ error = "none" /\ live = 0 /\ leaked = 0
      /\ adopted = 0
      /\ stage \in {"new", "bound"} /\ param \in Values \cup {Absent} /\ wraps \in BOOLEAN
      /\ stage = "new" => param \in Values
      /\ native \in Stored \cup {Absent}
  BY DEF ValueInit
<1>2. ValueTyped
  BY <1>1 DEF ValueTyped, ValueErrors
<1>3. ~IsNested(Absent)
  BY DEF IsNested, Absent, Kind
<1>4. Closed(Stored \cup {Absent})
  <2>1. Closed(Stored)
    BY CapiValuesParts DEF Closed
  <2> QED
    BY <1>3, <2>1, ClosedWith
<1>5. WellFormed(Stored \cup {Absent}, {}, native, binding, reading)
  BY <1>1, <1>4 DEF WellFormed
<1> QED
  BY <1>1, <1>2, <1>5 DEF ValuesInv

LEMMA ValuesStep ==
    ASSUME ValuesInv, [ValueNext]_valueVars
    PROVE  ValuesInv'
<1>1. CASE Normalize
  BY <1>1, NormalizeStep
<1>2. CASE Make
  BY <1>2, MakeStep
<1>3. CASE Unsupported
  <2>1. /\ stage = "bind" /\ error' = "TypeError"
        /\ UNCHANGED <<stage, param, wraps, native, binding, reading, row, live, adopted, leaked>>
    BY <1>3 DEF Unsupported, Making, Binding
  <2> QED
    BY <2>1, RaisedStep DEF ValueErrors
<1>4. CASE Enter
  BY <1>4, EnterStep
<1>5. CASE Create
  BY <1>5, CreateStep
<1>6. CASE BindValue
  BY <1>6, BindValueStep
<1>7. CASE Refuse
  <2>1. /\ stage = "bind" /\ error' = "refused"
        /\ UNCHANGED <<stage, param, wraps, native, binding, reading, row, live, adopted, leaked>>
    BY <1>7 DEF Refuse, Binding
  <2> QED
    BY <2>1, RaisedStep DEF ValueErrors
<1>8. CASE BindUnwind
  BY <1>8, BindUnwindStep
<1>9. CASE GetNext
  BY <1>9, GetNextStep
<1>10. CASE Fetch
  BY <1>10, FetchStep
<1>21. CASE FetchFails
  BY <1>21, FetchFailsStep
<1>11. CASE Convert
  BY <1>11, ConvertStep
<1>12. CASE Descend
  BY <1>12, DescendStep
<1>13. CASE Fail
  <2>1. /\ stage = "read" /\ error' = Failure[Kind(Child)]
        /\ Kind(Child) \in DOMAIN Failure
        /\ UNCHANGED <<stage, param, wraps, native, binding, reading, row, live, adopted, leaked>>
    BY <1>13 DEF Fail, Reading
  <2>2. \A k \in DOMAIN Failure : Failure[k] \in ValueErrors
    BY DEF Failure, ValueErrors
  <2> QED
    BY <2>1, <2>2, RaisedStep
<1>14. CASE FreeGroup
  BY <1>14, FreeGroupStep
<1>15. CASE UnhashableKey
  <2>1. /\ stage = "read" /\ error' = "TypeError"
        /\ UNCHANGED <<stage, param, wraps, native, binding, reading, row, live, adopted, leaked>>
    BY <1>15 DEF UnhashableKey, GroupRead, Reading
  <2> QED
    BY <2>1, RaisedStep DEF ValueErrors
<1>16. CASE Finish
  BY <1>16, FinishStep
<1>17. CASE Catch
  BY <1>17, CatchStep
<1>18. CASE Unwind
  BY <1>18, UnwindStep
<1>19. CASE CloseResult
  BY <1>19, CloseResultStep
<1>20. CASE UNCHANGED valueVars
  <2>1. UNCHANGED <<stage, param, wraps, native, binding, reading, row, error, live, adopted, leaked>>
    BY <1>20 DEF valueVars
  <2>2. UNCHANGED ValueTyped
    BY <2>1 DEF ValueTyped
  <2>3. PICK W, R : WellFormed(W, R, native, binding, reading)
    BY DEF ValuesInv
  <2>4. WellFormed(W, R, native', binding', reading')
    BY <2>1, <2>3
  <2>5. /\ stage' = "bind" => CallBinds(binding', live')
        /\ stage' = "read" => CallReads(reading', InUse')
    BY <2>1 DEF ValuesInv, InUse
  <2> QED
    BY <2>1, <2>2, <2>4, <2>5 DEF ValuesInv
<1> QED
  BY <1>1, <1>2, <1>3, <1>4, <1>5, <1>6, <1>7, <1>8, <1>9, <1>10, <1>11, <1>12, <1>13, <1>14, <1>15,
     <1>16, <1>17, <1>18, <1>19, <1>20, <1>21 DEF ValueNext

\* What a call holds is what its frames hold.
THEOREM ValuesInvariance == ValueSpec => []ValuesInv
BY ValuesBegin, ValuesStep, PTL DEF ValueSpec

LEMMA ValuesInvReleases == ValuesInv => NativesReleased
BY DEF ValuesInv, ValueTyped, NativesReleased

\* However a call ends, its native values, types and rows have been destroyed, all but the
\* keys of map entries whose value could not be got, of which only reading has any; and
\* closing the result frees what it has adopted.
THEOREM NativesAreReleased == ValueSpec => []NativesReleased
<1> QED
  BY ValuesInvReleases, ValuesInvariance, PTL

LEMMA ValuesInvTyped == ValuesInv => ValueTypeOK
<1> SUFFICES ASSUME ValuesInv PROVE ValueTypeOK
  OBVIOUS
<1>1. PICK W, R : WellFormed(W, R, native, binding, reading)
  BY DEF ValuesInv
<1>2. CASE stage = "bind"
  <2>1. CallBinds(binding, live) /\ binding \in Seq(BindFrames(W)) /\ reading = <<>>
    BY <1>1, <1>2, InBinding
  <2>2. live \in Nat
    BY <2>1, BindPopped
  <2> QED
    BY <1>2, <2>1, <2>2 DEF ValueTypeOK, ValuesInv, ValueTyped, ValueErrors, CallBinds
<1>3. CASE stage = "read"
  <2>1. CallReads(reading, InUse) /\ live \in Int /\ leaked \in Nat /\ InUse \in Nat
    BY <1>1, <1>3, InReading
  <2>2. live \in Nat
    BY <2>1 DEF InUse
  <2> QED
    BY <1>3, <2>1, <2>2 DEF ValueTypeOK, ValuesInv, ValueTyped, ValueErrors, CallReads
<1>4. CASE stage \notin {"bind", "read"}
  BY <1>4 DEF ValueTypeOK, ValuesInv, ValueTyped, ValueErrors
<1> QED
  BY <1>2, <1>3, <1>4

\* The type invariant of the conversions.
THEOREM ValuesTypeCorrect == ValueSpec => []ValueTypeOK
<1> QED
  BY ValuesInvTyped, ValuesInvariance, PTL

-----------------------------------------------------------------------------
(* QueryResults: what reads and exports return.                            *)

RowsAre(r, n) ==
    /\ n \in 0..MaxRows /\ r \in Seq(Nat \X Nat \X Nat) /\ Len(r) = n
    /\ \A i \in 1..n : r[i][2] = i

\* Every chunk has want rows, and only the last may have fewer.
ChunksAre(n, cur, j) ==
    /\ j.got \in Seq(Seq(Nat)) /\ FlattenSeq(j.got) = Run(n, j.from, cur)
    /\ \A c \in 1..Len(j.got) : Len(j.got[c]) \in 1..j.want
    /\ \A c \in 1..(Len(j.got) - 1) : Len(j.got[c]) = j.want
    /\ cur < n /\ j.got # <<>> => Len(Last(j.got)) = j.want

\* What the client is in the middle of, with the cursor at cur, put at o by an export, and
\* the rows s taken since.
JobIs(n, cur, j, s, o, capi) ==
    /\ j \in [op : {"none", "read", "check", "arrow", "csr"}, want : Nat, from : 0..n,
              got : Seq(Nat) \cup Seq(Seq(Nat))]
    /\ o \in 0..cur /\ j.from <= cur
    /\ j.op = "none" => j = Idle /\ s = Run(n, o, cur)
    /\ j.op # "none" => o <= j.from
    /\ j.op = "read" => s = Run(n, o, j.from) /\ j.got = Run(n, j.from, cur)
    /\ j.op \in {"check", "csr"} => capi /\ s = <<>> /\ o = 0 /\ j.from = 0 /\ j.got = <<>>
    /\ j.op \in {"check", "arrow"} => j.want # 0
    /\ j.op = "arrow" => ChunksAre(n, cur, j) /\ s = Run(n, o, j.from) /\ (capi => j.from = 0)

\* What exports have done to those who read: e are the rows taken before.
Past(n, b, o, e, capi) ==
    /\ capi => o \in {0, b}
    /\ ~capi => \/ o = 0 /\ e = <<>>
                \/ o = n /\ \E k \in 0..n : e = Run(n, 0, k)

TableIs(n, t, s, o, capi) ==
    t[1] = "table" =>
        LET chunks == t[2]  size == t[3]
        IN  /\ FlattenSeq(chunks) = Run(n, t[4], n)
            /\ capi => t[4] = 0
            /\ ~capi /\ o = 0 => s = Ids(n)
            /\ \A c \in 1..(Len(chunks) - 1) : Len(chunks[c]) = size
            /\ chunks # <<>> => Len(Last(chunks)) \in 1..size

AnswerKinds == {"none", "error", "rows", "table", "csr"}
ResultInv ==
    /\ RowsAre(rows, NumTuples)
    /\ cursor \in 0..NumTuples /\ asDict \in BOOLEAN /\ calls \in 0..MaxCalls
    /\ backend \in {"capi", "pybind"} /\ nativeChunk \in {0, 1}
    /\ JobIs(NumTuples, cursor, job, seen, origin, backend = "capi")
    /\ Past(NumTuples, bad, origin, earlier, backend = "capi")
    /\ last[1] \in AnswerKinds /\ TableIs(NumTuples, last, seen, origin, backend = "capi")
    /\ last[1] = "csr" => last[2] = CSR(rows)

LEMMA RowIdsAre ==
    ASSUME NEW n, RowsAre(rows, n)
    PROVE  NumTuples = n /\ n \in Nat /\ RowIds = Ids(n)
BY QueryResultsAssumption DEF RowsAre, NumTuples, RowIds, Ids

-----------------------------------------------------------------------------
(* The calls on a result.                                                  *)

LEMMA ResultGoesOn ==
    ASSUME ResultInv, UNCHANGED rowVars, NEW n, n = NumTuples, NEW capi, capi = (backend = "capi"),
           cursor' \in 0..n, asDict' \in BOOLEAN, calls' \in 0..MaxCalls,
           JobIs(n, cursor', job', seen', origin', capi), Past(n, bad, origin', earlier', capi),
           last'[1] \in AnswerKinds, TableIs(n, last', seen', origin', capi),
           last'[1] = "csr" => last'[2] = CSR(rows)
    PROVE  ResultInv'
<1>1. UNCHANGED <<backend, nativeChunk, rows, bad>>
  BY DEF rowVars
<1>2. NumTuples' = n
  BY <1>1 DEF NumTuples
<1>3. RowsAre(rows', n) /\ backend \in {"capi", "pybind"} /\ nativeChunk \in {0, 1}
  BY <1>1 DEF ResultInv
<1>4. capi = (backend' = "capi")
  BY <1>1
<1> QED
  BY <1>1, <1>2, <1>3, <1>4 DEF ResultInv

\* The same, of an answer that is not a table.
LEMMA CallAnswered ==
    ASSUME ResultInv, UNCHANGED rowVars, NEW n, n = NumTuples, NEW capi, capi = (backend = "capi"),
           cursor' \in 0..n, asDict' \in BOOLEAN, calls' \in 0..MaxCalls,
           JobIs(n, cursor', job', seen', origin', capi), Past(n, bad, origin', earlier', capi),
           last'[1] \in {"none", "error", "rows"}
    PROVE  ResultInv'
<1>1. last'[1] \in AnswerKinds /\ last'[1] # "csr" /\ TableIs(n, last', seen', origin', capi)
  BY DEF AnswerKinds, TableIs
<1> QED
  BY <1>1, ResultGoesOn

\* What the invariant says, in constants.
LEMMA InResult ==
    ASSUME ResultInv
    PROVE  \E n \in Nat, capi \in BOOLEAN :
             /\ n = NumTuples /\ capi = (backend = "capi") /\ RowsAre(rows, n) /\ RowIds = Ids(n)
             /\ cursor \in 0..n /\ asDict \in BOOLEAN /\ calls \in 0..MaxCalls /\ n <= MaxRows
             /\ JobIs(n, cursor, job, seen, origin, capi) /\ TableIs(n, last, seen, origin, capi)
             /\ Past(n, bad, origin, earlier, capi) /\ origin \in 0..n
             /\ last[1] \in AnswerKinds /\ (last[1] = "csr" => last[2] = CSR(rows))
             /\ nativeChunk \in {0, 1}
<1>1. RowsAre(rows, NumTuples)
  BY DEF ResultInv
<1>2. NumTuples \in Nat /\ RowIds = Ids(NumTuples) /\ NumTuples <= MaxRows
  BY <1>1, RowIdsAre, QueryResultsAssumption DEF RowsAre
<1>3. (backend = "capi") \in BOOLEAN
  OBVIOUS
<1>4. origin \in 0..NumTuples
  <2>1. origin \in 0..cursor /\ cursor \in 0..NumTuples
    BY DEF ResultInv, JobIs
  <2> QED
    BY <1>2, <2>1
<1> QED
  BY <1>1, <1>2, <1>3, <1>4 DEF ResultInv

\* Most calls leave alone what exports have done.
LEMMA StaysPast ==
    ASSUME ResultInv, Stays, NEW n, n = NumTuples, NEW capi, capi = (backend = "capi")
    PROVE  origin' = origin /\ Past(n, bad, origin', earlier', capi)
BY DEF Stays, ResultInv

\* In the C API exports rewind.
LEMMA RewoundPast ==
    ASSUME NEW n, NEW capi, capi, origin' \in {0, bad}
    PROVE  Past(n, bad, origin', earlier', capi)
BY DEF Past

\* reset_iterator() forgets it.
LEMMA RestartedPast ==
    ASSUME NEW n, NEW b, NEW capi
    PROVE  Past(n, b, 0, <<>>, capi)
BY DEF Past

LEMMA IdleIs ==
    ASSUME NEW n \in Nat, NEW cur \in 0..n, NEW o \in 0..cur, NEW capi
    PROVE  JobIs(n, cur, Idle, Run(n, o, cur), o, capi)
<1>1. <<>> \in Seq(Nat) \cup Seq(Seq(Nat))
  BY EmptySeq
<1>2. 0 \in 0..n /\ 0 \in Nat /\ 0 <= cur
  OBVIOUS
<1> QED
  BY <1>1, <1>2 DEF JobIs, Idle

LEMMA BeginReadStep ==
    ASSUME ResultInv, NEW want \in 1..(MaxRows + 1), BeginRead(want)
    PROVE  ResultInv'
<1>1. PICK n \in Nat, capi \in BOOLEAN :
        /\ n = NumTuples /\ capi = (backend = "capi") /\ cursor \in 0..n /\ asDict \in BOOLEAN
        /\ calls \in 0..MaxCalls /\ JobIs(n, cursor, job, seen, origin, capi)
  BY InResult
<1>2. /\ UNCHANGED <<rowVars, cursor, asDict, seen>> /\ Stays /\ job = Idle /\ calls' = calls + 1
      /\ calls < MaxCalls /\ last' = None
      /\ job' = [op |-> "read", want |-> want, got |-> <<>>, from |-> cursor]
  BY DEF BeginRead, Ready, Start
<1>3. seen = Run(n, origin, cursor) /\ origin \in 0..cursor
  BY <1>1, <1>2 DEF JobIs, Idle
<1>6. origin' = origin /\ Past(n, bad, origin', earlier', capi)
  BY <1>1, <1>2, StaysPast
<1>4. JobIs(n, cursor', job', seen', origin', capi)
  <2>1. <<>> \in Seq(Nat) \cup Seq(Seq(Nat)) /\ want \in Nat
    BY EmptySeq, QueryResultsAssumption
  <2>2. Run(n, cursor, cursor) = <<>>
    BY <1>1, RunEmpty
  <2> QED
    BY <1>1, <1>2, <1>3, <1>6, <2>1, <2>2 DEF JobIs
<1>5. calls' \in 0..MaxCalls /\ cursor' \in 0..n /\ asDict' \in BOOLEAN /\ last'[1] = "none"
  BY <1>1, <1>2, QueryResultsAssumption DEF None
<1> QED
  BY <1>1, <1>2, <1>4, <1>5, <1>6, CallAnswered

LEMMA TakeStep ==
    ASSUME ResultInv, Take
    PROVE  ResultInv'
<1>1. PICK n \in Nat, capi \in BOOLEAN :
        /\ n = NumTuples /\ capi = (backend = "capi") /\ cursor \in 0..n /\ asDict \in BOOLEAN
        /\ calls \in 0..MaxCalls /\ JobIs(n, cursor, job, seen, origin, capi) /\ TableIs(n, last, seen, origin, capi)
        /\ last[1] \in AnswerKinds /\ (last[1] = "csr" => last[2] = CSR(rows))
  BY InResult
<1>2. PICK next \in Nat : next = cursor + 1
  BY <1>1
<1>3. /\ job.op = "read" /\ cursor < n /\ cursor' = next
      /\ job' = [job EXCEPT !.got = Append(job.got, next)]
      /\ UNCHANGED <<rowVars, asDict, last, seen, calls>> /\ Stays
  BY <1>1, <1>2 DEF Take, HasNext
<1>10. origin' = origin /\ Past(n, bad, origin', earlier', capi)
  BY <1>1, <1>3, StaysPast
<1>4. /\ seen = Run(n, origin, job.from) /\ job.got = Run(n, job.from, cursor)
      /\ job.from \in 0..cursor /\ origin \in 0..job.from
  BY <1>1, <1>3 DEF JobIs
<1>5. PICK from \in Nat : from = job.from /\ from <= cursor
  BY <1>1, <1>4
<1>6. Append(job.got, next) = Run(n, from, next)
  <2>1. Run(n, cursor, next) = <<next>> /\ Run(n, from, cursor) \o Run(n, cursor, next) = Run(n, from, next)
    <3>1. cursor \in Nat /\ from <= cursor /\ cursor <= next /\ next <= n
      BY <1>1, <1>2, <1>3, <1>5
    <3>2. Run(n, cursor, next) = <<next>>
      BY <1>2, <3>1, RunOfOne
    <3>3. Run(n, from, cursor) \o Run(n, cursor, next) = Run(n, from, next)
      BY <3>1, RunGrows, ZenonT(30)
    <3> QED
      BY <3>2, <3>3
  <2>2. PICK r \in Seq(Nat) : r = Run(n, from, cursor)
    BY <1>1, <1>3, <1>5, RunEntries DEF IsRun
  <2>3. r \o <<next>> = Append(r, next)
    OBVIOUS
  <2>4. job.got = r
    BY <1>4, <1>5, <2>2
  <2>5. r \o <<next>> = Run(n, from, next)
    BY <2>1, <2>2, Zenon
  <2> QED
    BY <2>3, <2>4, <2>5, Zenon
<1>7. Run(n, from, next) \in Seq(Nat)
  <2>1. from <= next /\ next <= n
    BY <1>1, <1>2, <1>3, <1>5
  <2> QED
    BY <2>1, RunEntries DEF IsRun
<1>8. JobIs(n, cursor', job', seen', origin', capi)
  <2>0. PICK more : more = Run(n, from, next)
    OBVIOUS
  <2>1. PICK want \in Nat : want = job.want
    BY <1>1 DEF JobIs
  <2>2. job = [op |-> "read", want |-> want, from |-> from, got |-> job.got]
    BY <1>1, <1>3, <1>5, <2>1 DEF JobIs
  <2>3. job' = [op |-> "read", want |-> want, from |-> from, got |-> more]
    BY <1>3, <1>6, <2>0, <2>2
  <2>4. from \in 0..n /\ from <= next /\ more \in Seq(Nat) \cup Seq(Seq(Nat))
    BY <1>1, <1>2, <1>3, <1>5, <1>7, <2>0
  <2>5. seen' = Run(n, origin', from) /\ cursor' = next /\ origin' \in 0..next /\ origin' <= from
    <3>1. origin' = origin /\ seen' = seen /\ cursor' = next
      BY <1>3, <1>10
    <3>2. seen = Run(n, origin, from) /\ origin \in 0..from
      BY <1>4, <1>5
    <3>3. origin \in 0..next /\ origin <= from
      BY <1>1, <1>2, <1>5, <3>2
    <3> QED
      BY <3>1, <3>2, <3>3
  <2>6. PICK j, s, o, c : j = job' /\ s = seen' /\ o = origin' /\ c = cursor'
    OBVIOUS
  <2>7. j = [op |-> "read", want |-> want, from |-> from, got |-> more]
    BY <2>3, <2>6
  <2>8. JobIs(n, c, j, s, o, capi)
    BY <2>0, <2>1, <2>4, <2>5, <2>6, <2>7 DEF JobIs
  <2> QED
    BY <2>6, <2>8
<1>9. cursor' \in 0..n /\ asDict' \in BOOLEAN /\ calls' \in 0..MaxCalls
  BY <1>1, <1>2, <1>3
<1>11. TableIs(n, last', seen', origin', capi)
  BY <1>1, <1>3, <1>10
<1> QED
  BY <1>1, <1>3, <1>8, <1>9, <1>10, <1>11, ResultGoesOn

-----------------------------------------------------------------------------

LEMMA RunWhole ==
    ASSUME NEW n \in Nat
    PROVE  Run(n, 0, n) = Ids(n)
<1>1. IsRun(Run(n, 0, n), 0, n)
  BY RunEntries
<1>2. PICK s : s = Run(n, 0, n)
  OBVIOUS
<1>3. s \in Seq(Nat) /\ Len(s) = n /\ \A i \in 1..n : s[i] = i
  BY <1>1, <1>2 DEF IsRun
<1>4. Ids(n) \in Seq(Nat) /\ Len(Ids(n)) = n /\ \A i \in 1..n : Ids(n)[i] = i
  BY DEF Ids
<1>5. s = Ids(n)
  BY <1>3, <1>4, SeqEqual
<1> QED
  BY <1>2, <1>5

\* A call begins: the cursor is rewound or stays, and the call's state is new.
LEMMA CallBegins ==
    ASSUME ResultInv, UNCHANGED <<rowVars, asDict>>, NEW op, NEW want \in Nat, Ready, Start(op, want),
           NEW n, n = NumTuples, NEW capi, capi = (backend = "capi"), cursor' \in 0..n,
           NEW j, j = [op |-> op, want |-> want, got |-> <<>>, from |-> cursor'],
           JobIs(n, cursor', j, seen', origin', capi), Past(n, bad, origin', earlier', capi)
    PROVE  ResultInv'
<1>1. job' = j /\ calls' = calls + 1 /\ calls < MaxCalls /\ last' = None
  BY DEF Start, Ready
<1>2. calls' \in 0..MaxCalls /\ asDict' \in BOOLEAN /\ last'[1] = "none"
  BY <1>1, QueryResultsAssumption DEF ResultInv, None
<1> QED
  BY <1>1, <1>2, CallAnswered

\* A call ends with the cursor at the first row.
LEMMA IdleRewound ==
    ASSUME NEW n \in Nat, NEW capi
    PROVE  JobIs(n, 0, Idle, <<>>, 0, capi) /\ 0 \in 0..n
<1>1. 0 \in 0..n /\ 0 \in 0..0 /\ Run(n, 0, 0) = <<>>
  BY RunEmpty
<1> QED
  BY <1>1, IdleIs

LEMMA StopsRewound ==
    ASSUME ResultInv, UNCHANGED <<rowVars, asDict, calls>>, NEW n \in Nat, n = NumTuples,
           NEW capi, capi = (backend = "capi"), job' = Idle, last' = <<"error">>,
           cursor' = 0, seen' = <<>>, origin' = 0, Past(n, bad, origin', earlier', capi)
    PROVE  ResultInv'
<1>1. JobIs(n, cursor', job', seen', origin', capi) /\ cursor' \in 0..n
  BY IdleRewound
<1>2. asDict' \in BOOLEAN /\ calls' \in 0..MaxCalls /\ last'[1] = "error"
  BY DEF ResultInv
<1> QED
  BY <1>1, <1>2, CallAnswered

LEMMA TakeBadStep ==
    ASSUME ResultInv, TakeBad
    PROVE  ResultInv'
<1>1. PICK n \in Nat, capi \in BOOLEAN :
        /\ n = NumTuples /\ capi = (backend = "capi") /\ cursor \in 0..n /\ asDict \in BOOLEAN
        /\ calls \in 0..MaxCalls /\ JobIs(n, cursor, job, seen, origin, capi)
  BY InResult
<1>2. PICK next \in Nat : next = cursor + 1
  BY <1>1
<1>3. /\ job.op = "read" /\ cursor < n /\ cursor' = next /\ bad = next
      /\ job' = Idle /\ last' = <<"error">> /\ seen' = seen \o job.got \o <<bad>>
      /\ UNCHANGED <<rowVars, asDict, calls>> /\ Stays
  BY <1>1, <1>2 DEF TakeBad, HasNext, Stop
<1>10. origin' = origin /\ Past(n, bad, origin', earlier', capi)
  BY <1>1, <1>3, StaysPast
<1>4. /\ seen = Run(n, origin, job.from) /\ job.got = Run(n, job.from, cursor)
      /\ job.from \in 0..cursor /\ origin \in 0..job.from
  BY <1>1, <1>3 DEF JobIs
<1>5. PICK from \in Nat : from = job.from /\ from <= cursor
  BY <1>1, <1>4
<1>6. seen' = Run(n, origin, next)
  <2>1. /\ cursor \in Nat /\ cursor <= next /\ next <= n /\ cursor <= n
        /\ origin \in Nat /\ origin <= from /\ origin <= cursor
    BY <1>1, <1>2, <1>3, <1>4, <1>5
  <2>2. Run(n, origin, from) \o Run(n, from, cursor) = Run(n, origin, cursor)
    BY <1>5, <2>1, RunGrows, ZenonT(30)
  <2>3. Run(n, origin, cursor) \o Run(n, cursor, next) = Run(n, origin, next)
    BY <2>1, RunGrows, ZenonT(30)
  <2>4. Run(n, cursor, next) = <<next>>
    BY <1>2, <2>1, RunOfOne
  <2> QED
    BY <1>3, <1>4, <1>5, <2>2, <2>3, <2>4
<1>7. next \in 0..n /\ origin' \in 0..next
  BY <1>1, <1>2, <1>3, <1>4, <1>5, <1>10
<1>8. JobIs(n, cursor', job', seen', origin', capi)
  BY <1>3, <1>6, <1>7, <1>10, IdleIs
<1>9. cursor' \in 0..n /\ asDict' \in BOOLEAN /\ calls' \in 0..MaxCalls /\ last'[1] = "error"
  BY <1>1, <1>3, <1>7
<1> QED
  BY <1>1, <1>3, <1>8, <1>9, <1>10, CallAnswered

LEMMA EndReadStep ==
    ASSUME ResultInv, EndRead
    PROVE  ResultInv'
<1>1. PICK n \in Nat, capi \in BOOLEAN :
        /\ n = NumTuples /\ capi = (backend = "capi") /\ cursor \in 0..n /\ asDict \in BOOLEAN
        /\ calls \in 0..MaxCalls /\ JobIs(n, cursor, job, seen, origin, capi)
  BY InResult
<1>2. /\ job.op = "read" /\ job' = Idle /\ last' = <<"rows", job.got, asDict>>
      /\ seen' = seen \o job.got /\ UNCHANGED <<rowVars, cursor, asDict, calls>> /\ Stays
  BY DEF EndRead, Stop
<1>8. origin' = origin /\ Past(n, bad, origin', earlier', capi)
  BY <1>1, <1>2, StaysPast
<1>3. /\ seen = Run(n, origin, job.from) /\ job.got = Run(n, job.from, cursor)
      /\ job.from \in 0..cursor /\ origin \in 0..job.from
  BY <1>1, <1>2 DEF JobIs
<1>4. PICK from \in Nat : from = job.from /\ from <= cursor
  BY <1>1, <1>3
<1>5. seen' = Run(n, origin, cursor) /\ origin \in 0..cursor
  <2>1. cursor \in Nat /\ cursor <= n /\ origin \in Nat /\ origin <= from
    BY <1>1, <1>3, <1>4
  <2>2. Run(n, origin, from) \o Run(n, from, cursor) = Run(n, origin, cursor)
    BY <1>4, <2>1, RunGrows, ZenonT(30)
  <2> QED
    BY <1>2, <1>3, <1>4, <2>1, <2>2
<1>6. JobIs(n, cursor', job', seen', origin', capi)
  BY <1>1, <1>2, <1>5, <1>8, IdleIs
<1>7. cursor' \in 0..n /\ asDict' \in BOOLEAN /\ calls' \in 0..MaxCalls /\ last'[1] = "rows"
  BY <1>1, <1>2
<1> QED
  BY <1>1, <1>2, <1>6, <1>7, <1>8, CallAnswered

LEMMA ResetIteratorStep ==
    ASSUME ResultInv, ResetIterator
    PROVE  ResultInv'
<1>1. PICK n \in Nat, capi \in BOOLEAN :
        /\ n = NumTuples /\ capi = (backend = "capi") /\ asDict \in BOOLEAN /\ calls \in 0..MaxCalls
  BY InResult
<1>2. /\ job = Idle /\ job' = Idle /\ calls' = calls + 1 /\ calls < MaxCalls /\ last' = None
      /\ cursor' = 0 /\ seen' = <<>> /\ origin' = 0 /\ earlier' = <<>> /\ UNCHANGED <<rowVars, asDict>>
  BY DEF ResetIterator, Ready
<1>3. 0 \in 0..n /\ Run(n, 0, 0) = <<>>
  BY RunEmpty
<1>4. JobIs(n, cursor', job', seen', origin', capi)
  <2>1. 0 \in 0..0
    OBVIOUS
  <2> QED
    BY <1>2, <1>3, <2>1, IdleIs
<1>5. cursor' \in 0..n /\ asDict' \in BOOLEAN /\ calls' \in 0..MaxCalls /\ last'[1] = "none"
  BY <1>1, <1>2, <1>3, QueryResultsAssumption DEF None
<1>6. Past(n, bad, origin', earlier', capi)
  BY <1>2, RestartedPast
<1> QED
  BY <1>1, <1>2, <1>4, <1>5, <1>6, CallAnswered

LEMMA RowsAsDictStep ==
    ASSUME ResultInv, NEW state \in BOOLEAN, RowsAsDict(state)
    PROVE  ResultInv'
<1>1. PICK n \in Nat, capi \in BOOLEAN :
        /\ n = NumTuples /\ capi = (backend = "capi") /\ cursor \in 0..n /\ asDict \in BOOLEAN
        /\ calls \in 0..MaxCalls /\ JobIs(n, cursor, job, seen, origin, capi) /\ TableIs(n, last, seen, origin, capi)
        /\ last[1] \in AnswerKinds /\ (last[1] = "csr" => last[2] = CSR(rows))
  BY InResult
<1>2. /\ calls' = calls + 1 /\ calls < MaxCalls /\ asDict' = state
      /\ UNCHANGED <<rowVars, cursor, job, last, seen>> /\ Stays
  BY DEF RowsAsDict, Ready
<1>5. origin' = origin /\ Past(n, bad, origin', earlier', capi)
  BY <1>1, <1>2, StaysPast
<1>3. cursor' \in 0..n /\ asDict' \in BOOLEAN /\ calls' \in 0..MaxCalls
  BY <1>1, <1>2, QueryResultsAssumption
<1>4. /\ JobIs(n, cursor', job', seen', origin', capi) /\ TableIs(n, last', seen', origin', capi)
      /\ last'[1] \in AnswerKinds /\ (last'[1] = "csr" => last'[2] = CSR(rows))
  BY <1>1, <1>2, <1>5
<1> QED
  BY <1>1, <1>2, <1>3, <1>4, <1>5, ResultGoesOn

-----------------------------------------------------------------------------

LEMMA ChunkSizes ==
    ASSUME ResultInv, NEW size \in Chunks
    PROVE  /\ ChunkSize(size) \in Int
           /\ NativeChunkSize(ChunkSize(size)) \in Nat /\ NativeChunkSize(ChunkSize(size)) # 0
           /\ Max({ChunkSize(size), 1}) \in Nat /\ Max({ChunkSize(size), 1}) # 0
           /\ Max({NumTuples, 1}) \in Nat /\ Max({NumTuples, 1}) # 0 /\ NumTuples <= Max({NumTuples, 1})
<1>1. NumTuples \in Nat /\ nativeChunk \in {0, 1}
  BY InResult
<1>2. size \in Int /\ Cells \div Columns \in Int
  BY QueryResultsAssumption DEF Columns
<1>3. PICK x \in Int : x = Cells \div Columns
  BY <1>2
<1>4. ChunkSize(size) \in Int
  <2>1. Max({x, 2}) \in Int
    <3>1. 2 \in Int
      OBVIOUS
    <3> QED
      BY <3>1, MaxOfTwo
  <2>2. Max({Cells \div Columns, 2}) = Max({x, 2})
    BY <1>3
  <2> QED
    BY <1>1, <1>2, <2>1, <2>2 DEF ChunkSize
<1>5. PICK y \in Int : y = ChunkSize(size)
  BY <1>4
<1>6. Max({NumTuples, 1}) \in Nat /\ Max({NumTuples, 1}) # 0 /\ NumTuples <= Max({NumTuples, 1})
  <2>1. Max({NumTuples, 1}) \in Int /\ 1 <= Max({NumTuples, 1}) /\ NumTuples <= Max({NumTuples, 1})
    <3>1. NumTuples \in Int /\ 1 \in Int
      BY <1>1
    <3> QED
      BY <3>1, MaxOfTwo
  <2> QED
    BY <2>1
<1>7. Max({y, 1}) \in Nat /\ Max({y, 1}) # 0
  <2>1. Max({y, 1}) \in Int /\ 1 <= Max({y, 1})
    BY MaxOfTwo
  <2> QED
    BY <2>1
<1>8. NativeChunkSize(y) \in Nat /\ NativeChunkSize(y) # 0
  BY <1>6 DEF NativeChunkSize
<1> QED
  BY <1>4, <1>5, <1>6, <1>7, <1>8

LEMMA BeginMapCheckStep ==
    ASSUME ResultInv, NEW size \in Chunks, BeginMapCheck(size)
    PROVE  ResultInv'
<1>1. PICK n \in Nat, capi \in BOOLEAN : n = NumTuples /\ capi = (backend = "capi")
  BY InResult
<1>2. PICK want \in Nat : want = NativeChunkSize(ChunkSize(size)) /\ want # 0
  BY ChunkSizes
<1>3. /\ Ready /\ Start("check", want) /\ capi /\ cursor' = 0 /\ seen' = <<>> /\ origin' = 0
      /\ UNCHANGED <<rowVars, asDict>>
  BY <1>1, <1>2 DEF BeginMapCheck, Rewind, Moved
<1>7. Past(n, bad, origin', earlier', capi)
  BY <1>3, RewoundPast
<1> DEFINE j == [op |-> "check", want |-> want, got |-> <<>>, from |-> cursor']
<1>4. JobIs(n, cursor', j, seen', origin', capi)
  <2>1. 0 \in 0..n /\ <<>> \in Seq(Nat) \cup Seq(Seq(Nat))
    BY EmptySeq
  <2> QED
    BY <1>2, <1>3, <2>1 DEF JobIs
<1>5. cursor' \in 0..n
  BY <1>3
<1> QED
  BY <1>1, <1>3, <1>4, <1>5, <1>7, CallBegins

LEMMA NoChunks ==
    ASSUME NEW n \in Nat, NEW cur \in 0..n, NEW want \in Nat, NEW j,
           j = [op |-> "arrow", want |-> want, got |-> <<>>, from |-> cur]
    PROVE  ChunksAre(n, cur, j)
<1>1. <<>> \in Seq(Seq(Nat)) /\ Len(<<>>) = 0 /\ \A c \in 1..(0 - 1) : FALSE
  BY EmptySeq
<1>2. FlattenSeq(<<>>) = <<>>
  BY <1>1, Zenon DEF FlattenSeq
<1>3. Run(n, cur, cur) = <<>>
  BY RunEmpty
<1> QED
  BY <1>1, <1>2, <1>3 DEF ChunksAre

LEMMA BeginArrowStep ==
    ASSUME ResultInv, NEW size \in Chunks, BeginArrow(size)
    PROVE  ResultInv'
<1>1. PICK n \in Nat, capi \in BOOLEAN : n = NumTuples /\ capi = (backend = "capi")
  BY InResult
<1>2. PICK want \in Nat : want = NativeChunkSize(ChunkSize(size)) /\ want # 0
  BY ChunkSizes
<1>3. /\ Ready /\ Start("arrow", want) /\ capi /\ cursor' = 0 /\ seen' = <<>> /\ origin' = 0
      /\ UNCHANGED <<rowVars, asDict>>
  BY <1>1, <1>2 DEF BeginArrow, Rewind, Moved
<1>7. Past(n, bad, origin', earlier', capi)
  BY <1>3, RewoundPast
<1>4. PICK j : j = [op |-> "arrow", want |-> want, got |-> <<>>, from |-> cursor']
  OBVIOUS
<1>5. JobIs(n, cursor', j, seen', origin', capi)
  <2>1. 0 \in 0..n /\ <<>> \in Seq(Nat) \cup Seq(Seq(Nat))
    BY EmptySeq
  <2>2. ChunksAre(n, 0, j)
    BY <1>3, <1>4, <2>1, NoChunks
  <2>3. Run(n, 0, 0) = <<>>
    BY RunEmpty
  <2> QED
    BY <1>2, <1>3, <1>4, <2>1, <2>2, <2>3 DEF JobIs
<1>6. cursor' \in 0..n
  BY <1>3
<1> QED
  BY <1>1, <1>3, <1>4, <1>5, <1>6, <1>7, CallBegins

LEMMA BeginPybindArrowStep ==
    ASSUME ResultInv, NEW size \in Chunks, BeginPybindArrow(size)
    PROVE  ResultInv'
<1>1. PICK n \in Nat, capi \in BOOLEAN :
        /\ n = NumTuples /\ capi = (backend = "capi") /\ cursor \in 0..n
        /\ JobIs(n, cursor, job, seen, origin, capi)
  BY InResult
<1>2. PICK want \in Nat : want = Max({ChunkSize(size), 1}) /\ want # 0
  BY ChunkSizes
<1>3. /\ Ready /\ Start("arrow", want) /\ ~capi /\ cursor' = cursor /\ seen' = seen
      /\ UNCHANGED <<rowVars, asDict>> /\ Stays
  BY <1>1, <1>2 DEF BeginPybindArrow
<1>6. origin' = origin /\ Past(n, bad, origin', earlier', capi)
  BY <1>1, <1>3, StaysPast
<1>7. seen = Run(n, origin, cursor) /\ origin \in 0..cursor
  BY <1>1, <1>3 DEF JobIs, Ready, Idle
<1>4. PICK j : j = [op |-> "arrow", want |-> want, got |-> <<>>, from |-> cursor']
  OBVIOUS
<1>5. JobIs(n, cursor', j, seen', origin', capi)
  <2>1. <<>> \in Seq(Nat) \cup Seq(Seq(Nat))
    BY EmptySeq
  <2>2. ChunksAre(n, cursor', j)
    BY <1>1, <1>3, <1>4, NoChunks
  <2> QED
    BY <1>1, <1>2, <1>3, <1>4, <1>6, <1>7, <2>1, <2>2 DEF JobIs
<1> QED
  BY <1>1, <1>3, <1>4, <1>5, <1>6, CallBegins

LEMMA BeginCSRStep ==
    ASSUME ResultInv, BeginCSR
    PROVE  ResultInv'
<1>1. PICK n \in Nat, capi \in BOOLEAN : n = NumTuples /\ capi = (backend = "capi")
  BY InResult
<1>2. /\ Ready /\ Start("csr", 0) /\ capi /\ cursor' = 0 /\ seen' = <<>> /\ origin' = 0
      /\ UNCHANGED <<rowVars, asDict>>
  BY <1>1 DEF BeginCSR, Rewind, Moved
<1>6. Past(n, bad, origin', earlier', capi)
  BY <1>2, RewoundPast
<1>3. PICK j : j = [op |-> "csr", want |-> 0, got |-> <<>>, from |-> cursor']
  OBVIOUS
<1>4. JobIs(n, cursor', j, seen', origin', capi)
  <2>1. 0 \in 0..n /\ <<>> \in Seq(Nat) \cup Seq(Seq(Nat)) /\ 0 \in Nat
    BY EmptySeq
  <2> QED
    BY <1>2, <1>3, <2>1 DEF JobIs
<1>5. cursor' \in 0..n /\ 0 \in Nat
  BY <1>2
<1> QED
  BY <1>1, <1>2, <1>3, <1>4, <1>5, <1>6, CallBegins

-----------------------------------------------------------------------------

LEMMA CheckRowStep ==
    ASSUME ResultInv, CheckRow
    PROVE  ResultInv'
<1>1. PICK n \in Nat, capi \in BOOLEAN :
        /\ n = NumTuples /\ capi = (backend = "capi") /\ RowIds = Ids(n)
        /\ cursor \in 0..n /\ asDict \in BOOLEAN
        /\ calls \in 0..MaxCalls /\ JobIs(n, cursor, job, seen, origin, capi) /\ TableIs(n, last, seen, origin, capi)
        /\ last[1] \in AnswerKinds /\ (last[1] = "csr" => last[2] = CSR(rows))
  BY InResult
<1>2. PICK next \in Nat : next = cursor + 1
  BY <1>1
<1>3. /\ job.op \in {"check", "csr"} /\ cursor < n /\ cursor' = next /\ next \in 0..n
      /\ UNCHANGED <<rowVars, asDict, calls>> /\ capi
  BY <1>1, <1>2 DEF CheckRow, HasNext, JobIs
<1>4. cursor' \in 0..n /\ asDict' \in BOOLEAN /\ calls' \in 0..MaxCalls
  BY <1>1, <1>3
<1>5. CASE next = bad
  <2>1. job' = Idle /\ last' = <<"error">> /\ seen' = <<>> /\ origin' = next
    BY <1>1, <1>2, <1>5 DEF CheckRow, Stop, Moved
  <2>2. JobIs(n, cursor', job', seen', origin', capi) /\ last'[1] = "error"
    <3>1. next \in 0..next /\ Run(n, next, next) = <<>>
      BY RunEmpty
    <3>2. JobIs(n, next, Idle, <<>>, next, capi)
      BY <1>3, <3>1, IdleIs
    <3> QED
      BY <1>3, <2>1, <3>2
  <2>3. Past(n, bad, origin', earlier', capi)
    BY <1>3, <1>5, <2>1, RewoundPast
  <2> QED
    BY <1>1, <1>3, <1>4, <2>2, <2>3, CallAnswered
<1>6. CASE next # bad
  <2>1. UNCHANGED <<job, last, seen>> /\ Stays
    BY <1>2, <1>6 DEF CheckRow
  <2>4. origin' = origin /\ Past(n, bad, origin', earlier', capi)
    BY <1>1, <2>1, StaysPast
  <2>2. JobIs(n, cursor', job', seen', origin', capi)
    BY <1>1, <1>2, <1>3, <2>1, <2>4 DEF JobIs
  <2>3. TableIs(n, last', seen', origin', capi) /\ last'[1] \in AnswerKinds /\ (last'[1] = "csr" => last'[2] = CSR(rows))
    BY <1>1, <2>1, <2>4
  <2> QED
    BY <1>1, <1>3, <1>4, <2>2, <2>3, <2>4, ResultGoesOn
<1> QED
  BY <1>5, <1>6

LEMMA EndMapCheckStep ==
    ASSUME ResultInv, EndMapCheck
    PROVE  ResultInv'
<1>1. PICK n \in Nat, capi \in BOOLEAN :
        /\ n = NumTuples /\ capi = (backend = "capi") /\ cursor \in 0..n /\ asDict \in BOOLEAN
        /\ calls \in 0..MaxCalls /\ JobIs(n, cursor, job, seen, origin, capi) /\ TableIs(n, last, seen, origin, capi)
        /\ last[1] \in AnswerKinds /\ (last[1] = "csr" => last[2] = CSR(rows))
  BY InResult
<1>2. /\ job.op = "check" /\ cursor' = 0 /\ job' = [job EXCEPT !.op = "arrow", !.from = 0]
      /\ UNCHANGED <<rowVars, asDict, last, seen, calls>> /\ Stays
  BY DEF EndMapCheck
<1>12. origin' = origin /\ Past(n, bad, origin', earlier', capi)
  BY <1>1, <1>2, StaysPast
<1>3. PICK want \in Nat : want = job.want
  BY <1>1 DEF JobIs
<1>4. job = [op |-> "check", want |-> want, got |-> <<>>, from |-> 0] /\ want # 0
  BY <1>1, <1>2, <1>3 DEF JobIs
<1>5. job' = [op |-> "arrow", want |-> want, got |-> <<>>, from |-> 0]
  BY <1>2, <1>4
<1>6. 0 \in 0..n /\ <<>> \in Seq(Nat) \cup Seq(Seq(Nat))
  BY EmptySeq
<1>7. PICK j : j = [op |-> "arrow", want |-> want, got |-> <<>>, from |-> 0]
  OBVIOUS
<1>8. ChunksAre(n, 0, j)
  BY <1>6, <1>7, NoChunks
<1>13. seen' = <<>> /\ origin' = 0 /\ Run(n, 0, 0) = <<>>
  BY <1>1, <1>2, <1>12, RunEmpty DEF JobIs
<1>9. JobIs(n, 0, j, seen', origin', capi)
  BY <1>3, <1>4, <1>6, <1>7, <1>8, <1>13 DEF JobIs
<1>10. cursor' \in 0..n /\ asDict' \in BOOLEAN /\ calls' \in 0..MaxCalls
  BY <1>1, <1>2
<1>11. /\ JobIs(n, cursor', job', seen', origin', capi) /\ TableIs(n, last', seen', origin', capi)
       /\ last'[1] \in AnswerKinds /\ (last'[1] = "csr" => last'[2] = CSR(rows))
  BY <1>1, <1>2, <1>5, <1>7, <1>9, <1>12
<1> QED
  BY <1>1, <1>2, <1>10, <1>11, <1>12, ResultGoesOn

LEMMA RefuseMapStep ==
    ASSUME ResultInv, RefuseMap
    PROVE  ResultInv'
<1>1. PICK n \in Nat, capi \in BOOLEAN :
        /\ n = NumTuples /\ capi = (backend = "capi") /\ asDict \in BOOLEAN /\ calls \in 0..MaxCalls
        /\ JobIs(n, cursor, job, seen, origin, capi)
  BY InResult
<1>2. /\ job.op = "check" /\ job' = Idle /\ last' = <<"error">> /\ cursor' = 0 /\ seen' = <<>>
      /\ origin' = 0 /\ UNCHANGED <<rowVars, asDict, calls>>
  BY DEF RefuseMap, Stop, Rewind, Moved
<1>3. Past(n, bad, origin', earlier', capi)
  <2>1. capi
    BY <1>1, <1>2 DEF JobIs
  <2> QED
    BY <1>2, <2>1, RewoundPast
<1> QED
  BY <1>1, <1>2, <1>3, StopsRewound

\* One chunk more.
LEMMA ChunksGrow ==
    ASSUME NEW n \in Nat, NEW cur \in 0..n, NEW j, ChunksAre(n, cur, j), j.from \in 0..cur,
           NEW want \in Nat, want = j.want, want # 0, cur < n,
           NEW next \in 0..n, cur < next, next <= cur + want, next < n => next = cur + want,
           NEW k, k.got = Append(j.got, Run(n, cur, next)), k.want = want, k.from = j.from,
           NEW from \in Nat, from = j.from, from <= cur,
           Run(n, from, cur) \o Run(n, cur, next) = Run(n, from, next)
    PROVE  ChunksAre(n, next, k) /\ k.got \in Seq(Seq(Nat))
<1>1. PICK old \in Seq(Seq(Nat)), m \in Nat : old = j.got /\ m = Len(old)
  BY DEF ChunksAre
<1>2. PICK new \in Seq(Nat) : new = Run(n, cur, next) /\ Len(new) = next - cur
  <2>1. n \in Nat /\ cur \in Nat /\ next \in Nat /\ cur <= next /\ next <= n
    OBVIOUS
  <2>2. IsRun(Run(n, cur, next), cur, next)
    BY <2>1, RunEntries
  <2> QED
    BY <2>2 DEF IsRun
<1>3. PICK all : all = k.got
  OBVIOUS
<1>4. all = Append(old, new)
  BY <1>1, <1>2, <1>3
<1>5. /\ all \in Seq(Seq(Nat)) /\ Len(all) = m + 1 /\ Last(all) = new /\ all[m + 1] = new
      /\ \A c \in 1..m : all[c] = old[c]
  BY <1>1, <1>2, <1>4, AppendEntries
<1>6. Len(new) \in 1..want /\ (next < n => Len(new) = want)
  BY <1>2
<1>7. FlattenSeq(all) = Run(n, k.from, next)
  <2>1. FlattenSeq(all) = FlattenSeq(old) \o new
    BY <1>1, <1>2, <1>4, FlattenAppended
  <2>2. FlattenSeq(old) = Run(n, from, cur)
    BY <1>1 DEF ChunksAre
  <2> QED
    BY <1>2, <2>1, <2>2
<1>8. /\ \A c \in 1..m : Len(old[c]) \in 1..want
      /\ \A c \in 1..(m - 1) : Len(old[c]) = want
      /\ m # 0 => Len(old[m]) = want
  <2>1. m # 0 => old # <<>> /\ Last(old) = old[m]
    BY <1>1, EmptySeq DEF Last
  <2> QED
    BY <1>1, <2>1 DEF ChunksAre
<1>9. \A c \in 1..m : Len(all[c]) = want
  <2> TAKE c \in 1..m
  <2>1. c \in 1..(m - 1) \/ (c = m /\ m # 0)
    OBVIOUS
  <2> QED
    BY <1>5, <1>8, <2>1
<1>10. \A c \in 1..(m + 1) : Len(all[c]) \in 1..want
  <2> TAKE c \in 1..(m + 1)
  <2>1. c \in 1..m \/ c = m + 1
    OBVIOUS
  <2>2. want \in 1..want
    OBVIOUS
  <2> QED
    BY <1>5, <1>6, <1>9, <2>1, <2>2
<1>11. /\ all \in Seq(Seq(Nat)) /\ \A c \in 1..Len(all) : Len(all[c]) \in 1..want
       /\ \A c \in 1..(Len(all) - 1) : Len(all[c]) = want
       /\ next < n => Len(Last(all)) = want
  <2>1. Len(all) = m + 1 /\ Len(all) - 1 = m
    BY <1>5
  <2> QED
    BY <1>5, <1>6, <1>9, <1>10, <2>1
<1> QED
  BY <1>3, <1>7, <1>11 DEF ChunksAre

LEMMA ChunkStep ==
    ASSUME ResultInv, Chunk
    PROVE  ResultInv'
<1>1. PICK n \in Nat, capi \in BOOLEAN :
        /\ n = NumTuples /\ capi = (backend = "capi") /\ RowIds = Ids(n)
        /\ cursor \in 0..n /\ asDict \in BOOLEAN
        /\ calls \in 0..MaxCalls /\ JobIs(n, cursor, job, seen, origin, capi) /\ TableIs(n, last, seen, origin, capi)
        /\ last[1] \in AnswerKinds /\ (last[1] = "csr" => last[2] = CSR(rows))
  BY InResult
<1>2. PICK want \in Nat : want = job.want
  BY <1>1 DEF JobIs
<1>3. PICK next \in Nat : next = Min({cursor + want, n})
  BY <1>1, <1>2, MinOfTwo
<1>4. /\ job.op = "arrow" /\ cursor < n /\ cursor' = next
      /\ job' = [job EXCEPT !.got = Append(job.got, Run(n, cursor, next))]
      /\ UNCHANGED <<rowVars, asDict, last, seen, calls>> /\ Stays
  BY <1>1, <1>2, <1>3 DEF Chunk, HasNext, Run
<1>15. origin' = origin /\ Past(n, bad, origin', earlier', capi)
  BY <1>1, <1>4, StaysPast
<1>5. /\ ChunksAre(n, cursor, job) /\ want # 0 /\ job.from \in 0..cursor /\ (capi => job.from = 0)
      /\ seen = Run(n, origin, job.from) /\ origin \in 0..job.from
  BY <1>1, <1>2, <1>4 DEF JobIs
<1>6. next \in 0..n /\ cursor < next /\ next <= cursor + want /\ (next < n => next = cursor + want)
  <2>1. PICK x \in Nat : x = cursor + want
    BY <1>1, <1>2
  <2>2. next <= x /\ next <= n /\ next \in {x, n}
    BY <1>3, <2>1, MinOfTwo
  <2> QED
    BY <1>1, <1>4, <1>5, <2>1, <2>2
<1>7. PICK more : more = Append(job.got, Run(n, cursor, next))
  OBVIOUS
<1>8. job' = [op |-> "arrow", want |-> want, got |-> more, from |-> job.from]
  <2>1. PICK old : old = job.got
    OBVIOUS
  <2>2. PICK from : from = job.from
    OBVIOUS
  <2>3. job = [op |-> "arrow", want |-> want, got |-> old, from |-> from]
    BY <1>1, <1>2, <1>4, <2>1, <2>2 DEF JobIs
  <2>4. job' = [job EXCEPT !.got = more]
    BY <1>4, <1>7
  <2>5. job' = [op |-> "arrow", want |-> want, got |-> more, from |-> from]
    BY <2>3, <2>4
  <2> QED
    BY <2>2, <2>5
<1>10. PICK k : k = [op |-> "arrow", want |-> want, got |-> more, from |-> job.from]
  OBVIOUS
<1>11. ChunksAre(n, next, k) /\ k.got \in Seq(Seq(Nat))
  <2>1. k.got = Append(job.got, Run(n, cursor, next)) /\ k.want = want /\ k.from = job.from
    BY <1>7, <1>10
  <2>2. PICK from \in Nat : from = job.from /\ from <= cursor
    BY <1>5
  <2>3. /\ n \in Nat /\ from \in Nat /\ cursor \in Nat /\ next \in Nat
        /\ from <= cursor /\ cursor <= next /\ next <= n
    BY <1>1, <1>3, <1>6, <2>2
  <2>4. Run(n, from, cursor) \o Run(n, cursor, next) = Run(n, from, next)
    BY <2>3, RunGrows, ZenonT(30)
  <2> QED
    BY <1>1, <1>2, <1>4, <1>5, <1>6, <2>1, <2>2, <2>4, ChunksGrow
<1>12. JobIs(n, next, k, seen', origin', capi)
  <2>1. job.from \in 0..n /\ job.from <= next /\ origin \in 0..next
    BY <1>1, <1>5, <1>6
  <2>2. PICK from \in Nat : from = job.from
    BY <2>1
  <2>3. seen' = Run(n, origin', from) /\ origin' \in 0..next /\ origin' <= from
    BY <1>4, <1>5, <1>15, <2>1, <2>2
  <2> QED
    BY <1>2, <1>5, <1>10, <1>11, <2>1, <2>2, <2>3 DEF JobIs
<1>13. /\ JobIs(n, cursor', job', seen', origin', capi) /\ TableIs(n, last', seen', origin', capi)
       /\ last'[1] \in AnswerKinds /\ (last'[1] = "csr" => last'[2] = CSR(rows))
  BY <1>1, <1>4, <1>8, <1>10, <1>12, <1>15
<1>14. cursor' \in 0..n /\ asDict' \in BOOLEAN /\ calls' \in 0..MaxCalls
  BY <1>1, <1>4, <1>6
<1> QED
  BY <1>1, <1>4, <1>13, <1>14, <1>15, ResultGoesOn

LEMMA EndArrowStep ==
    ASSUME ResultInv, EndArrow
    PROVE  ResultInv'
<1>1. PICK n \in Nat, capi \in BOOLEAN :
        /\ n = NumTuples /\ capi = (backend = "capi") /\ RowIds = Ids(n)
        /\ cursor \in 0..n /\ asDict \in BOOLEAN
        /\ calls \in 0..MaxCalls /\ JobIs(n, cursor, job, seen, origin, capi)
  BY InResult
<1>2. /\ job.op = "arrow" /\ cursor = n /\ job' = Idle
      /\ last' = <<"table", job.got, job.want, job.from>>
      /\ capi => cursor' = 0 /\ seen' = <<>> /\ origin' = 0
      /\ ~capi => cursor' = cursor /\ seen' = seen \o FlattenSeq(job.got) /\ Stays
      /\ UNCHANGED <<rowVars, asDict, calls>>
  <2>1. job.op = "arrow" /\ ~(cursor < n)
    BY <1>1 DEF EndArrow, HasNext
  <2>2. job' = Idle /\ last' = <<"table", job.got, job.want, job.from>>
    BY DEF EndArrow, Stop
  <2>3. /\ capi => cursor' = 0 /\ seen' = <<>> /\ origin' = 0
        /\ ~capi => cursor' = cursor /\ seen' = seen \o FlattenSeq(job.got) /\ Stays
        /\ UNCHANGED <<rowVars, asDict, calls>>
    BY <1>1 DEF EndArrow, Rewind, Moved
  <2> QED
    BY <1>1, <2>1, <2>2, <2>3
<1>5. /\ ChunksAre(n, n, job) /\ (capi => job.from = 0) /\ job.want \in Nat
      /\ job.from \in 0..n /\ origin \in 0..job.from /\ seen = Run(n, origin, job.from)
  BY <1>1, <1>2 DEF JobIs
<1>3. ~capi => seen' = Run(n, origin, n)
  <2>1. FlattenSeq(job.got) = Run(n, job.from, n)
    BY <1>5 DEF ChunksAre
  <2>2. PICK from \in Nat : from = job.from /\ from <= n /\ origin \in Nat /\ origin <= from
    BY <1>5
  <2>3. n \in Nat /\ n <= n
    OBVIOUS
  <2>4. Run(n, origin, from) \o Run(n, from, n) = Run(n, origin, n)
    BY <2>2, <2>3, RunGrows, ZenonT(30)
  <2> QED
    BY <1>2, <1>5, <2>1, <2>2, <2>4
<1>9. Past(n, bad, origin', earlier', capi) /\ (~capi => origin' = origin)
  <2>1. CASE capi
    BY <1>2, <2>1, RewoundPast
  <2>2. CASE ~capi
    BY <1>1, <1>2, <2>2, StaysPast
  <2> QED
    BY <2>1, <2>2
<1>4. JobIs(n, cursor', job', seen', origin', capi) /\ cursor' \in 0..n
  <2>1. CASE capi
    BY <1>2, <2>1, IdleRewound
  <2>2. CASE ~capi
    <3>1. origin' = origin /\ origin \in 0..n /\ n \in 0..n
      BY <1>5, <1>9, <2>2
    <3> QED
      BY <1>1, <1>2, <1>3, <2>2, <3>1, IdleIs
  <2> QED
    BY <2>1, <2>2
<1>6. TableIs(n, last', seen', origin', capi)
  <2>0. PICK from : from = job.from
    OBVIOUS
  <2>1. PICK chunks \in Seq(Seq(Nat)), size \in Nat : chunks = job.got /\ size = job.want
    BY <1>5 DEF ChunksAre
  <2>2. /\ FlattenSeq(chunks) = Run(n, from, n) /\ (capi => from = 0)
        /\ \A c \in 1..Len(chunks) : Len(chunks[c]) \in 1..size
        /\ \A c \in 1..(Len(chunks) - 1) : Len(chunks[c]) = size
    BY <1>5, <2>0, <2>1 DEF ChunksAre
  <2>3. chunks # <<>> => Len(Last(chunks)) \in 1..size
    <3>1. chunks # <<>> => Len(chunks) \in 1..Len(chunks)
      BY EmptySeq
    <3> QED
      BY <2>2, <3>1 DEF Last
  <2>4. last' = <<"table", chunks, size, from>>
    BY <1>2, <2>0, <2>1
  <2>5. ~capi /\ origin' = 0 => seen' = Ids(n)
    BY <1>3, <1>9, RunWhole
  <2> QED
    BY <2>2, <2>3, <2>4, <2>5 DEF TableIs
<1>7. cursor' \in 0..n /\ asDict' \in BOOLEAN /\ calls' \in 0..MaxCalls /\ last'[1] = "table"
  BY <1>1, <1>2, <1>4
<1>8. last'[1] \in AnswerKinds /\ last'[1] # "csr"
  BY <1>7 DEF AnswerKinds
<1> QED
  BY <1>1, <1>2, <1>4, <1>6, <1>7, <1>8, <1>9, ResultGoesOn

\* Whatever chunk it is, the cursor is at the first row or behind the chunk.
LEMMA FailArrowStep ==
    ASSUME ResultInv, FailArrow
    PROVE  ResultInv'
<1>1. PICK n \in Nat, capi \in BOOLEAN :
        /\ n = NumTuples /\ capi = (backend = "capi") /\ RowIds = Ids(n)
        /\ cursor \in 0..n /\ asDict \in BOOLEAN
        /\ calls \in 0..MaxCalls /\ JobIs(n, cursor, job, seen, origin, capi)
  BY InResult
<1>2. PICK want \in Nat : want = job.want
  BY <1>1 DEF JobIs
<1>3. PICK next \in Nat : next = Min({cursor + want, n})
  BY <1>1, <1>2, MinOfTwo
<1>4. /\ job.op = "arrow" /\ cursor < n /\ job' = Idle /\ last' = <<"error">>
      /\ UNCHANGED <<rowVars, asDict, calls>>
  BY <1>1 DEF FailArrow, HasNext, Stop
<1>5. CASE capi
  <2>1. cursor' = 0 /\ seen' = <<>> /\ origin' = 0
    BY <1>1, <1>5 DEF FailArrow, Rewind, Moved
  <2>2. Past(n, bad, origin', earlier', capi)
    BY <1>5, <2>1, RewoundPast
  <2> QED
    BY <1>1, <1>4, <2>1, <2>2, StopsRewound
<1>6. CASE ~capi
  <2>1. /\ cursor' = next /\ Stays
        /\ seen' = seen \o FlattenSeq(job.got) \o Run(n, cursor, next)
    BY <1>1, <1>2, <1>3, <1>6 DEF FailArrow, Run
  <2>2. origin' = origin /\ Past(n, bad, origin', earlier', capi)
    BY <1>1, <2>1, StaysPast
  <2>3. /\ FlattenSeq(job.got) = Run(n, job.from, cursor) /\ job.from \in 0..cursor
        /\ seen = Run(n, origin, job.from) /\ origin \in 0..job.from
    BY <1>1, <1>4 DEF JobIs, ChunksAre
  <2>4. next \in 0..n /\ cursor <= next
    <3>1. PICK x \in Nat : x = cursor + want /\ cursor <= x
      BY <1>1, <1>2
    <3>2. next <= n /\ next \in {x, n}
      BY <1>3, <3>1, MinOfTwo
    <3> QED
      BY <1>1, <1>4, <3>1, <3>2
  <2>5. PICK from \in Nat : from = job.from /\ from <= cursor /\ origin \in Nat /\ origin <= from
    BY <1>1, <2>3
  <2>6. /\ cursor \in Nat /\ next \in Nat /\ cursor <= n /\ next <= n /\ origin <= cursor
        /\ origin \in 0..next
    BY <1>1, <2>4, <2>5
  <2>12. cursor <= next
    BY <2>4
  <2>7. Run(n, origin, from) \o Run(n, from, cursor) = Run(n, origin, cursor)
    <3>1. origin \in Nat /\ origin <= from /\ from <= cursor
      BY <2>5
    <3> QED
      BY <2>6, <3>1, RunGrows, ZenonT(30)
  <2>8. Run(n, origin, cursor) \o Run(n, cursor, next) = Run(n, origin, next)
    <3>1. origin \in Nat
      BY <2>5
    <3> QED
      BY <2>6, <2>12, <3>1, RunGrows, ZenonT(30)
  <2>9. seen' = Run(n, origin, next)
    BY <2>1, <2>3, <2>5, <2>7, <2>8
  <2>10. JobIs(n, cursor', job', seen', origin', capi)
    BY <1>4, <2>1, <2>2, <2>4, <2>6, <2>9, IdleIs
  <2>11. cursor' \in 0..n /\ asDict' \in BOOLEAN /\ calls' \in 0..MaxCalls /\ last'[1] = "error"
    BY <1>1, <1>4, <2>1, <2>4
  <2> QED
    BY <1>1, <1>4, <2>2, <2>10, <2>11, CallAnswered
<1> QED
  BY <1>5, <1>6

\* In pybind the rows taken since the client last asked for the start are the first ones.
LEMMA TakenByNow ==
    ASSUME NEW n \in Nat, NEW cur \in 0..n, NEW s, NEW o, NEW e, NEW b,
           NEW capi, ~capi, JobIs(n, cur, Idle, s, o, capi), Past(n, b, o, e, capi)
    PROVE  \E k \in 0..n : e \o s = Run(n, 0, k)
<1>1. s = Run(n, o, cur) /\ o \in 0..cur
  BY DEF JobIs, Idle
<1>2. CASE o = 0 /\ e = <<>>
  <2>1. IsRun(Run(n, 0, cur), 0, cur)
    BY RunEntries
  <2>2. <<>> \o Run(n, 0, cur) = Run(n, 0, cur)
    BY <2>1, ConcatEmptySeq DEF IsRun
  <2> QED
    BY <1>1, <1>2, <2>2
<1>3. ASSUME o = n, NEW k \in 0..n, e = Run(n, 0, k)
      PROVE  e \o s = Run(n, 0, k)
  <2>1. cur = n /\ Run(n, n, n) = <<>>
    BY <1>1, <1>3, RunEmpty
  <2>2. IsRun(Run(n, 0, k), 0, k)
    BY RunEntries
  <2>3. Run(n, 0, k) \o <<>> = Run(n, 0, k)
    BY <2>2, ConcatEmptySeq DEF IsRun
  <2> QED
    BY <1>1, <1>3, <2>1, <2>3
<1> QED
  BY <1>2, <1>3 DEF Past

LEMMA PybindDFStep ==
    ASSUME ResultInv, PybindDF
    PROVE  ResultInv'
<1>1. PICK n \in Nat, capi \in BOOLEAN :
        /\ n = NumTuples /\ capi = (backend = "capi") /\ RowIds = Ids(n) /\ RowsAre(rows, n)
        /\ cursor \in 0..n /\ asDict \in BOOLEAN /\ calls \in 0..MaxCalls
        /\ JobIs(n, cursor, job, seen, origin, capi) /\ Past(n, bad, origin, earlier, capi)
  BY InResult
<1>2. PICK size \in Nat : size = Max({n, 1}) /\ size # 0 /\ n <= size
  <2>1. n \in Int /\ 1 \in Int
    OBVIOUS
  <2>2. Max({n, 1}) \in Int /\ n <= Max({n, 1}) /\ 1 <= Max({n, 1})
    BY <2>1, MaxOfTwo
  <2> QED
    BY <2>2
<1>3. PICK chunks : chunks = IF rows = <<>> THEN <<>> ELSE <<Ids(n)>>
  OBVIOUS
<1>4. /\ job = Idle /\ job' = Idle /\ ~capi
      /\ cursor' = n /\ seen' = <<>> /\ origin' = n /\ earlier' = earlier \o seen
      /\ last' = <<"table", chunks, size, 0>> /\ calls' = calls + 1 /\ calls < MaxCalls
      /\ UNCHANGED <<rowVars, asDict>>
  BY <1>1, <1>2, <1>3 DEF PybindDF, Ready, Moved
<1>5. JobIs(n, cursor', job', seen', origin', capi)
  <2>1. n \in 0..n /\ Run(n, n, n) = <<>>
    BY RunEmpty
  <2> QED
    BY <1>4, <2>1, IdleIs
<1>6. TableIs(n, last', seen', origin', capi)
  <2>1. /\ FlattenSeq(chunks) = Run(n, 0, n)
        /\ \A c \in 1..(Len(chunks) - 1) : Len(chunks[c]) = size
        /\ chunks # <<>> => Len(Last(chunks)) \in 1..size
    <3>1. CASE rows = <<>>
      <4>1. n = 0 /\ chunks = <<>>
        BY <1>1, <1>3, <3>1 DEF RowsAre
      <4>2. FlattenSeq(chunks) = <<>>
        BY <4>1, Zenon DEF FlattenSeq
      <4>3. Run(n, 0, n) = <<>>
        BY <4>1, RunEmpty
      <4> QED
        BY <4>1, <4>2, <4>3
    <3>2. CASE rows # <<>>
      <4>1. PICK ids \in Seq(Nat) : ids = Ids(n) /\ Len(ids) = n
        <5>1. Ids(n) \in Seq(Nat) /\ Len(Ids(n)) = n
          BY DEF Ids
        <5> QED
          BY <5>1
      <4>2. n # 0 /\ chunks = Append(<<>>, ids)
        <5>1. n # 0
          BY <1>1, <3>2, EmptySeq DEF RowsAre
        <5>2. chunks = <<ids>>
          BY <1>3, <3>2, <4>1
        <5> QED
          BY <4>1, <5>1, <5>2
      <4>3. FlattenSeq(chunks) = FlattenSeq(<<>>) \o ids
        <5>1. <<>> \in Seq(Seq(Nat))
          BY EmptySeq
        <5> QED
          BY <4>1, <4>2, <5>1, FlattenAppended
      <4>4. FlattenSeq(<<>>) = <<>> /\ <<>> \o ids = ids
        <5>1. FlattenSeq(<<>>) = <<>>
          BY Zenon DEF FlattenSeq
        <5> QED
          BY <4>1, <5>1, ConcatEmptySeq
      <4>5. Len(chunks) = 1 /\ Last(chunks) = ids
        BY <4>1, <4>2 DEF Last
      <4>6. FlattenSeq(chunks) = Run(n, 0, n)
        <5>1. Run(n, 0, n) = ids
          BY <4>1, RunWhole
        <5> QED
          BY <4>3, <4>4, <5>1
      <4>7. n \in 1..size
        BY <1>2, <4>2
      <4> QED
        BY <4>1, <4>5, <4>6, <4>7
    <3> QED
      BY <3>1, <3>2
  <2>2. origin' = 0 => seen' = Ids(n)
    BY <1>4, RunEmpty, RunWhole
  <2> QED
    BY <1>4, <2>1, <2>2 DEF TableIs
<1>7. cursor' \in 0..n /\ asDict' \in BOOLEAN /\ calls' \in 0..MaxCalls /\ last'[1] = "table"
  BY <1>1, <1>4, QueryResultsAssumption
<1>8. last'[1] \in AnswerKinds /\ last'[1] # "csr"
  BY <1>7 DEF AnswerKinds
<1>9. Past(n, bad, origin', earlier', capi)
  <2>1. JobIs(n, cursor, Idle, seen, origin, capi) /\ ~capi
    BY <1>1, <1>4
  <2>2. \E k \in 0..n : earlier \o seen = Run(n, 0, k)
    BY <1>1, <2>1, TakenByNow
  <2>3. \E k \in 0..n : earlier' = Run(n, 0, k)
    BY <1>4, <2>2
  <2> QED
    BY <1>4, <2>3 DEF Past
<1> QED
  BY <1>1, <1>4, <1>5, <1>6, <1>7, <1>8, <1>9, ResultGoesOn

LEMMA EndCSRStep ==
    ASSUME ResultInv, EndCSR
    PROVE  ResultInv'
<1>1. PICK n \in Nat, capi \in BOOLEAN :
        /\ n = NumTuples /\ capi = (backend = "capi") /\ asDict \in BOOLEAN /\ calls \in 0..MaxCalls
        /\ JobIs(n, cursor, job, seen, origin, capi)
  BY InResult
<1>2. /\ job.op = "csr" /\ job' = Idle /\ last' = <<"csr", CSR(rows)>> /\ cursor' = 0
      /\ seen' = <<>> /\ origin' = 0 /\ UNCHANGED <<rowVars, asDict, calls>>
  BY DEF EndCSR, Stop, Rewind, Moved
<1>3. Past(n, bad, origin', earlier', capi)
  <2>1. capi
    BY <1>1, <1>2 DEF JobIs
  <2> QED
    BY <1>2, <2>1, RewoundPast
<1>4. JobIs(n, cursor', job', seen', origin', capi) /\ cursor' \in 0..n
  BY <1>2, IdleRewound
<1>5. last'[1] = "csr" /\ last'[2] = CSR(rows)
  BY <1>2
<1>6. last'[1] \in AnswerKinds /\ TableIs(n, last', seen', origin', capi)
  BY <1>5 DEF AnswerKinds, TableIs
<1>7. cursor' \in 0..n /\ asDict' \in BOOLEAN /\ calls' \in 0..MaxCalls
  BY <1>1, <1>2, <1>4
<1> QED
  BY <1>1, <1>2, <1>3, <1>4, <1>5, <1>6, <1>7, ResultGoesOn

-----------------------------------------------------------------------------
LEMMA NoTable ==
    ASSUME NEW n, NEW t, NEW s, NEW o, NEW capi, t[1] # "table"
    PROVE  TableIs(n, t, s, o, capi)
BY Zenon DEF TableIs

LEMMA ResultBegins ==
    ASSUME ResultInit
    PROVE  ResultInv
<1>1. PICK ends \in RowSequences : rows = [i \in DOMAIN ends |-> <<ends[i][1], i, ends[i][2]>>]
  BY DEF ResultInit
<1>2. PICK n \in 0..MaxRows : ends \in [1..n -> Edges]
  BY DEF RowSequences
<1>3. n \in Nat
  BY QueryResultsAssumption
<1>4. \A i \in 1..n : ends[i][1] \in Nat /\ ends[i][2] \in Nat
  <2> TAKE i \in 1..n
  <2>1. ends[i] \in Nat \X Nat
    BY <1>2, QueryResultsAssumption
  <2> QED
    BY <2>1
<1>5. /\ rows \in Seq(Nat \X Nat \X Nat) /\ Len(rows) = n
      /\ \A i \in 1..n : rows[i][2] = i
  <2>1. DOMAIN rows = 1..n /\ \A i \in 1..n : rows[i] = <<ends[i][1], i, ends[i][2]>>
    <3>1. DOMAIN ends = 1..n
      BY <1>2
    <3>2. rows = [i \in 1..n |-> <<ends[i][1], i, ends[i][2]>>]
      BY <1>1, <3>1
    <3> QED
      BY <3>2
  <2>2. \A i \in 1..n : rows[i] \in Nat \X Nat \X Nat
    <3> TAKE i \in 1..n
    <3>1. PICK x \in Nat, y \in Nat : x = ends[i][1] /\ y = ends[i][2]
      BY <1>4
    <3>2. rows[i] = <<x, i, y>> /\ i \in Nat
      BY <2>1, <3>1
    <3> QED
      BY <3>2
  <2>3. rows = [i \in 1..n |-> rows[i]]
    BY <1>1, <2>1
  <2>4. rows \in Seq(Nat \X Nat \X Nat) /\ Len(rows) = n
    BY <1>3, <2>2, <2>3
  <2> QED
    BY <2>1, <2>4
<1>6. RowsAre(rows, n) /\ NumTuples = n
  BY <1>5 DEF RowsAre, NumTuples
<1>7. /\ backend \in {"capi", "pybind"} /\ nativeChunk \in {0, 1}
      /\ cursor = 0 /\ asDict = FALSE /\ job = Idle /\ last = None /\ calls = 0
      /\ seen = <<>> /\ origin = 0 /\ earlier = <<>>
  BY DEF ResultInit
<1>8. /\ JobIs(n, cursor, job, seen, origin, backend = "capi")
      /\ Past(n, bad, origin, earlier, backend = "capi")
  <2>1. PICK capi : capi = (backend = "capi")
    OBVIOUS
  <2>2. JobIs(n, 0, Idle, <<>>, 0, capi) /\ Past(n, bad, 0, <<>>, capi)
    BY <1>3, IdleRewound, RestartedPast
  <2> QED
    BY <1>7, <2>1, <2>2
<1>9. last[1] \in AnswerKinds /\ last[1] # "csr" /\ TableIs(n, last, seen, origin, backend = "capi")
  <2>1. last[1] = "none"
    BY <1>7 DEF None
  <2>2. last[1] \in AnswerKinds /\ last[1] # "csr" /\ last[1] # "table"
    BY <2>1 DEF AnswerKinds
  <2> QED
    BY <2>2, NoTable, Zenon
<1>10. cursor \in 0..n /\ asDict \in BOOLEAN /\ calls \in 0..MaxCalls
  <2>1. 0 \in 0..n /\ 0 \in 0..MaxCalls
    BY <1>3, QueryResultsAssumption
  <2> QED
    BY <1>7, <2>1
<1> QED
  BY <1>6, <1>7, <1>8, <1>9, <1>10 DEF ResultInv

LEMMA ResultStep ==
    ASSUME ResultInv, [ResultNext]_resultVars
    PROVE  ResultInv'
<1>1. CASE \E want \in 1..(MaxRows + 1) : BeginRead(want)
  BY <1>1, BeginReadStep
<1>2. CASE Take
  BY <1>2, TakeStep
<1>3. CASE TakeBad
  BY <1>3, TakeBadStep
<1>4. CASE EndRead
  BY <1>4, EndReadStep
<1>5. CASE ResetIterator
  BY <1>5, ResetIteratorStep
<1>6. CASE \E state \in BOOLEAN : RowsAsDict(state)
  BY <1>6, RowsAsDictStep
<1>7. CASE \E size \in Chunks : BeginMapCheck(size) \/ BeginArrow(size) \/ BeginPybindArrow(size)
  BY <1>7, BeginMapCheckStep, BeginArrowStep, BeginPybindArrowStep
<1>8. CASE CheckRow
  BY <1>8, CheckRowStep
<1>9. CASE EndMapCheck
  BY <1>9, EndMapCheckStep
<1>10. CASE Chunk
  BY <1>10, ChunkStep
<1>11. CASE EndArrow
  BY <1>11, EndArrowStep
<1>12. CASE PybindDF
  BY <1>12, PybindDFStep
<1>13. CASE BeginCSR
  BY <1>13, BeginCSRStep
<1>14. CASE EndCSR
  BY <1>14, EndCSRStep
<1>16. CASE RefuseMap
  BY <1>16, RefuseMapStep
<1>17. CASE FailArrow
  BY <1>17, FailArrowStep
<1>15. CASE UNCHANGED resultVars
  <2>1. PICK n \in Nat, capi \in BOOLEAN :
          /\ n = NumTuples /\ capi = (backend = "capi") /\ cursor \in 0..n /\ asDict \in BOOLEAN
          /\ calls \in 0..MaxCalls /\ JobIs(n, cursor, job, seen, origin, capi) /\ TableIs(n, last, seen, origin, capi)
          /\ last[1] \in AnswerKinds /\ (last[1] = "csr" => last[2] = CSR(rows))
    BY InResult
  <2>2. UNCHANGED <<rowVars, cursor, asDict, job, last, seen, calls>> /\ Stays
    BY <1>15 DEF resultVars, Stays
  <2>3. origin' = origin /\ Past(n, bad, origin', earlier', capi)
    BY <2>1, <2>2, StaysPast
  <2>4. /\ JobIs(n, cursor', job', seen', origin', capi) /\ TableIs(n, last', seen', origin', capi)
    BY <2>1, <2>2, <2>3
  <2> QED
    BY <2>1, <2>2, <2>3, <2>4, ResultGoesOn
<1> QED
  BY <1>1, <1>2, <1>3, <1>4, <1>5, <1>6, <1>7, <1>8, <1>9, <1>10, <1>11, <1>12, <1>13, <1>14, <1>15, <1>16,
     <1>17 DEF ResultNext

\* The cursor, what has been returned and the call in progress agree.
THEOREM ResultsInvariance == ResultSpec => []ResultInv
BY ResultBegins, ResultStep, PTL DEF ResultSpec

LEMMA ResultInvReads == ResultInv => ReadsInOrder
<1> SUFFICES ASSUME ResultInv, job = Idle PROVE seen = SubSeq(RowIds, origin + 1, cursor)
  BY DEF ReadsInOrder
<1>1. PICK n \in Nat, capi \in BOOLEAN :
        RowIds = Ids(n) /\ JobIs(n, cursor, job, seen, origin, capi)
  BY InResult
<1>2. seen = Run(n, origin, cursor)
  BY <1>1 DEF JobIs, Idle
<1> QED
  BY <1>1, <1>2 DEF Run

\* No row is in a run twice.
LEMMA RunsInjective ==
    ASSUME NEW n \in Nat, NEW k \in 0..n
    PROVE  IsInjective(Run(n, 0, k))
<1>1. IsRun(Run(n, 0, k), 0, k)
  BY RunEntries
<1>2. PICK s : s = Run(n, 0, k)
  OBVIOUS
<1>3. s \in Seq(Nat) /\ Len(s) = k /\ \A i \in 1..k : s[i] = i
  BY <1>1, <1>2 DEF IsRun
<1>4. DOMAIN s = 1..k
  BY <1>3
<1>5. IsInjective(s)
  BY <1>3, <1>4 DEF IsInjective
<1> QED
  BY <1>2, <1>5

LEMMA ResultInvMoves == ResultInv => ExportsMove
<1> SUFFICES ASSUME ResultInv PROVE ExportsMove
  OBVIOUS
<1>1. PICK n \in Nat, capi \in BOOLEAN :
        /\ n = NumTuples /\ capi = (backend = "capi") /\ cursor \in 0..n
        /\ JobIs(n, cursor, job, seen, origin, capi) /\ Past(n, bad, origin, earlier, capi)
  BY InResult
<1>2. capi => origin \in {0, bad}
  BY <1>1 DEF Past
<1>3. ~capi => origin \in {0, n}
  BY <1>1 DEF Past
<1>4. ASSUME ~capi, job = Idle
      PROVE  IsInjective(earlier \o seen)
  <2>1. JobIs(n, cursor, Idle, seen, origin, capi)
    BY <1>1, <1>4
  <2>2. PICK k \in 0..n : earlier \o seen = Run(n, 0, k)
    BY <1>1, <1>4, <2>1, TakenByNow
  <2> QED
    BY <2>2, RunsInjective
<1> QED
  BY <1>1, <1>2, <1>3, <1>4 DEF ExportsMove

LEMMA ResultInvTables == ResultInv => TableComplete
<1> SUFFICES ASSUME ResultInv PROVE TableComplete
  OBVIOUS
<1>1. PICK n \in Nat, capi \in BOOLEAN :
        /\ n = NumTuples /\ capi = (backend = "capi") /\ RowIds = Ids(n)
        /\ TableIs(n, last, seen, origin, capi)
  BY InResult
<1> QED
  BY <1>1 DEF TableComplete, TableIs, Run

-----------------------------------------------------------------------------
(* The CSR arrays.                                                         *)

Row == Nat \X Nat \X Nat

\* There is a list for the source of every row.
LEMMA ListsAre ==
    ASSUME NEW r, NEW n \in Nat, r \in Seq(Row), Len(r) = n
    PROVE  Lists(r) \in Nat /\ \A i \in 1..n : r[i][1] + 1 <= Lists(r)
<1>1. \A i \in 1..n : r[i][1] + 1 \in Nat
  <2> TAKE i \in 1..n
  <2>1. r[i] \in Row
    OBVIOUS
  <2>2. r[i][1] \in Nat
    BY <2>1 DEF Row
  <2> QED
    BY <2>2
<1> DEFINE upTo(k) == {r[i][1] + 1 : i \in 1..k} \cup {0}
           Has(k) == \E m \in upTo(k) : m \in Nat /\ \A i \in 1..k : r[i][1] + 1 <= m
           S == {k \in 0..n : Has(k)}
<1>2. Has(0)
  <2>1. 0 \in upTo(0) /\ \A i \in 1..0 : r[i][1] + 1 <= 0
    OBVIOUS
  <2> QED
    BY <2>1
<1>3. ASSUME NEW k \in 0..n, NEW m \in 1..n, Has(k), m = k + 1
      PROVE  Has(m)
  <2>1. PICK x \in upTo(k) : x \in Nat /\ \A i \in 1..k : r[i][1] + 1 <= x
    BY <1>3
  <2>2. PICK y \in Nat : y = r[m][1] + 1
    BY <1>1
  <2>3. x \in upTo(m) /\ y \in upTo(m)
    <3>1. m \in 1..m /\ \A i \in 1..k : i \in 1..m
      BY <1>3
    <3> QED
      BY <2>1, <2>2, <3>1
  <2>4. \A i \in 1..m : i \in 1..k \/ i = m
    BY <1>3
  <2>5. \A i \in 1..k : r[i][1] + 1 \in Nat
    BY <1>1
  <2>6. CASE x <= y
    <3>1. \A i \in 1..m : r[i][1] + 1 <= y
      BY <2>1, <2>2, <2>4, <2>5, <2>6
    <3> QED
      BY <2>2, <2>3, <3>1
  <2>7. CASE ~(x <= y)
    <3>1. \A i \in 1..m : r[i][1] + 1 <= x
      BY <2>1, <2>2, <2>4, <2>5, <2>7
    <3> QED
      BY <2>1, <2>3, <3>1
  <2> QED
    BY <2>6, <2>7
<1>4. Has(n)
  <2> HIDE DEF Has
  <2>1. 0 \in S
    BY <1>2
  <2>2. \A k \in 0..n, m \in 1..n : k \in S /\ m = k + 1 => m \in S
    BY <1>3
  <2> HIDE DEF S
  <2>3. \A k \in 0..n : k \in S
    BY <2>1, <2>2, CountUp
  <2>4. n \in S
    BY <2>3
  <2> QED
    BY <2>4 DEF S
<1>5. Lists(r) = Max(upTo(n))
  <2>1. Lists(r) = Max({r[i][1] + 1 : i \in DOMAIN r} \cup {0})
    BY Zenon DEF Lists
  <2>2. DOMAIN r = 1..n
    OBVIOUS
  <2> QED
    BY <2>1, <2>2, Zenon
<1>6. PICK m \in upTo(n) : m \in Nat /\ \A i \in 1..n : r[i][1] + 1 <= m
  BY <1>4
<1>7. \A x \in upTo(n) : m >= x
  BY <1>1, <1>6
<1>8. Lists(r) \in upTo(n) /\ \A x \in upTo(n) : Lists(r) >= x
  <2> HIDE DEF upTo
  <2>1. Max(upTo(n)) \in upTo(n) /\ \A x \in upTo(n) : Max(upTo(n)) >= x
    BY <1>6, <1>7, Zenon DEF Max
  <2> QED
    BY <1>5, <2>1
<1>9. Lists(r) \in Nat
  BY <1>1, <1>8
<1>10. \A i \in 1..n : r[i][1] + 1 \in upTo(n)
  OBVIOUS
<1> QED
  BY <1>1, <1>8, <1>9, <1>10

-----------------------------------------------------------------------------
\* One row more in the list of its source.
Appended(lists, edge, s) == [lists EXCEPT ![s] = Append(lists[s], edge)]

\* The first k rows of r in the lists G: each in that of its source, and there in order.
IsList(l, r, k, s) ==
    /\ l \in Seq(Row)
    /\ \A p \in 1..Len(l) : l[p][2] \in 1..k /\ l[p] = r[l[p][2]] /\ l[p][1] + 1 = s
    /\ \A p, q \in 1..Len(l) : p < q => l[p][2] < l[q][2]
Has(l, edge) == \E p \in 1..Len(l) : l[p] = edge
ListsHold(lists, r, k, count) ==
    /\ DOMAIN lists = 1..count
    /\ \A s \in 1..count : IsList(lists[s], r, k, s)
    /\ \A i \in 1..k : Has(lists[r[i][1] + 1], r[i])

LEMMA ListGrows ==
    ASSUME NEW r, NEW n \in Nat, RowsAre(r, n), NEW k \in 0..n, NEW m \in 1..n, m = k + 1,
           NEW s, s = r[m][1] + 1, NEW l, IsList(l, r, k, s)
    PROVE  /\ IsList(Append(l, r[m]), r, m, s) /\ Has(Append(l, r[m]), r[m])
           /\ \A edge : Has(l, edge) => Has(Append(l, r[m]), edge)
<1>1. PICK edge \in Row : edge = r[m] /\ edge[2] = m /\ edge[1] + 1 = s
  BY DEF RowsAre, Row
<1>2. PICK old \in Seq(Row), size \in Nat : old = l /\ size = Len(old)
  BY DEF IsList
<1>3. PICK new \in Seq(Row) : new = Append(old, edge)
  BY AppendEntries
<1>4. Len(new) = size + 1 /\ new[size + 1] = edge /\ \A p \in 1..size : new[p] = old[p]
  BY <1>2, <1>3, AppendEntries
<1>5. \A p \in 1..size : old[p][2] \in 1..k /\ old[p] = r[old[p][2]] /\ old[p][1] + 1 = s
  BY <1>2 DEF IsList
<1>6. \A p, q \in 1..size : p < q => old[p][2] < old[q][2]
  BY <1>2 DEF IsList
<1>7. \A p \in 1..(size + 1) : p \in 1..size \/ p = size + 1
  OBVIOUS
<1>8. \A p \in 1..(size + 1) : new[p][2] \in 1..m /\ new[p] = r[new[p][2]] /\ new[p][1] + 1 = s
  <2> TAKE p \in 1..(size + 1)
  <2>1. CASE p \in 1..size
    <3>1. new[p] = old[p] /\ old[p][2] \in 1..k
      BY <1>4, <1>5, <2>1
    <3>2. old[p][2] \in 1..m
      BY <3>1
    <3> QED
      BY <1>5, <2>1, <3>1, <3>2
  <2>2. CASE p = size + 1
    <3>1. new[p] = edge /\ m \in 1..m
      BY <1>4, <2>2
    <3> QED
      BY <1>1, <3>1
  <2> QED
    BY <1>7, <2>1, <2>2
<1>9. \A p, q \in 1..(size + 1) : p < q => new[p][2] < new[q][2]
  <2> TAKE p, q \in 1..(size + 1)
  <2> HAVE p < q
  <2>1. p \in 1..size /\ new[p] = old[p] /\ old[p][2] \in 1..k
    <3>1. p \in 1..size
      BY <1>2
    <3> QED
      BY <1>4, <1>5, <3>1
  <2>2. CASE q \in 1..size
    <3>1. new[q] = old[q] /\ old[p][2] < old[q][2]
      BY <1>4, <1>6, <2>1, <2>2
    <3> QED
      BY <2>1, <3>1
  <2>3. CASE q = size + 1
    <3>1. new[q][2] = m
      BY <1>1, <1>4, <2>3
    <3>2. old[p][2] < m
      BY <2>1
    <3> QED
      BY <2>1, <3>1, <3>2
  <2> QED
    BY <1>7, <2>2, <2>3
<1>10. IsList(new, r, m, s)
  BY <1>4, <1>8, <1>9 DEF IsList
<1>11. Has(new, edge) /\ \A x : Has(old, x) => Has(new, x)
  <2>1. size + 1 \in 1..Len(new)
    BY <1>4
  <2>2. \A p \in 1..size : p \in 1..Len(new)
    BY <1>4
  <2> QED
    BY <1>2, <1>4, <2>1, <2>2 DEF Has
<1> QED
  BY <1>1, <1>2, <1>3, <1>10, <1>11

LEMMA ListStays ==
    ASSUME NEW r, NEW k \in Nat, NEW m \in Nat, k <= m, NEW s, NEW l, IsList(l, r, k, s)
    PROVE  IsList(l, r, m, s)
<1>1. \A x \in 1..k : x \in 1..m
  OBVIOUS
<1> QED
  BY <1>1 DEF IsList

LEMMA ListsGrow ==
    ASSUME NEW r, NEW n \in Nat, RowsAre(r, n), NEW k \in 0..n, NEW m \in 1..n, m = k + 1,
           NEW count \in Nat, \A i \in 1..n : r[i][1] + 1 \in 1..count, NEW s, s = r[m][1] + 1,
           NEW lists, ListsHold(lists, r, k, count)
    PROVE  ListsHold(Appended(lists, r[m], s), r, m, count)
<1>1. /\ DOMAIN lists = 1..count
      /\ \A x \in 1..count : IsList(lists[x], r, k, x)
      /\ \A i \in 1..k : Has(lists[r[i][1] + 1], r[i])
  BY DEF ListsHold
<1>2. PICK l, new : l = lists[s] /\ new = Append(l, r[m])
  OBVIOUS
<1>3. PICK more : more = Appended(lists, r[m], s)
  OBVIOUS
<1>4. DOMAIN more = 1..count /\ more[s] = new /\ \A x \in 1..count : x # s => more[x] = lists[x]
  <2>1. more = [lists EXCEPT ![s] = new]
    BY <1>2, <1>3, Zenon DEF Appended
  <2> QED
    BY <1>1, <2>1
<1>5. IsList(new, r, m, s) /\ Has(new, r[m]) /\ \A edge : Has(l, edge) => Has(new, edge)
  <2>1. IsList(l, r, k, s)
    BY <1>1, <1>2
  <2> QED
    BY <1>2, <2>1, ListGrows
<1>6. ASSUME NEW x \in 1..count
      PROVE  IsList(more[x], r, m, x)
  <2>1. CASE x = s
    BY <1>4, <1>5, <2>1
  <2>2. CASE x # s
    <3>1. k \in Nat /\ m \in Nat /\ k <= m /\ IsList(lists[x], r, k, x)
      BY <1>1
    <3>2. IsList(lists[x], r, m, x)
      BY <3>1, ListStays
    <3> QED
      BY <1>4, <2>2, <3>2
  <2> QED
    BY <2>1, <2>2
<1>7. ASSUME NEW i \in 1..m
      PROVE  Has(more[r[i][1] + 1], r[i])
  <2>1. CASE i = m
    BY <1>4, <1>5, <2>1
  <2>2. CASE i # m
    <3>1. i \in 1..k
      BY <2>2
    <3>2. PICK x : x = r[i][1] + 1
      OBVIOUS
    <3>3. Has(lists[x], r[i])
      BY <1>1, <3>1, <3>2
    <3>4. CASE x = s
      BY <1>2, <1>4, <1>5, <3>2, <3>3, <3>4
    <3>5. CASE x # s
      <4>1. x \in 1..count
        BY <3>1, <3>2
      <4> QED
        BY <1>4, <3>2, <3>3, <3>5, <4>1
    <3> QED
      BY <3>4, <3>5
  <2> QED
    BY <2>1, <2>2
<1> QED
  BY <1>3, <1>4, <1>6, <1>7 DEF ListsHold

-----------------------------------------------------------------------------
\* The lists after every row up to the m-th.
None0(count) == [s \in 1..count |-> <<>>]
GroupedBy(g, r, m, count) ==
    g = [k \in 0..m |-> IF k = 0 THEN None0(count)
                        ELSE Appended(g[k - 1], r[k], r[k][1] + 1)]
Grow(g, r, m, count) ==
    /\ DOMAIN g = 0..m /\ g[0] = None0(count)
    /\ \A k \in 1..m : g[k] = Appended(g[k - 1], r[k], r[k][1] + 1)

LEMMA GroupsGrow ==
    ASSUME NEW g, NEW r, NEW m \in Nat, NEW count
    PROVE  GroupedBy(g, r, m, count) <=> (g = [k \in 0..m |-> g[k]] /\ Grow(g, r, m, count))
<1> DEFINE body(k) == IF k = 0 THEN None0(count) ELSE Appended(g[k - 1], r[k], r[k][1] + 1)
<1>1. body(0) = None0(count)
  BY Zenon
<1>2. \A k \in 1..m : body(k) = Appended(g[k - 1], r[k], r[k][1] + 1)
  <2>1. \A k \in 1..m : k # 0
    OBVIOUS
  <2> QED
    BY <2>1, Zenon
<1>3. GroupedBy(g, r, m, count) <=> g = [k \in 0..m |-> body(k)]
  BY Zenon DEF GroupedBy
<1> HIDE DEF body
<1>4. ASSUME g = [k \in 0..m |-> body(k)]
      PROVE  g = [k \in 0..m |-> g[k]] /\ Grow(g, r, m, count)
  <2>1. DOMAIN g = 0..m /\ \A k \in 0..m : g[k] = body(k)
    BY <1>4
  <2>2. 0 \in 0..m /\ \A k \in 1..m : k \in 0..m
    OBVIOUS
  <2>3. g = [k \in 0..m |-> g[k]]
    BY <1>4, <2>1
  <2> QED
    BY <1>1, <1>2, <2>1, <2>2, <2>3 DEF Grow
<1>5. ASSUME g = [k \in 0..m |-> g[k]], Grow(g, r, m, count)
      PROVE  g = [k \in 0..m |-> body(k)]
  <2>1. \A k \in 0..m : k = 0 \/ k \in 1..m
    OBVIOUS
  <2>2. \A k \in 0..m : g[k] = body(k)
    BY <1>1, <1>2, <1>5, <2>1 DEF Grow
  <2> QED
    BY <1>5, <2>2
<1> QED
  BY <1>3, <1>4, <1>5

LEMMA GroupsExist ==
    ASSUME NEW r, NEW n \in Nat, NEW count
    PROVE  \E g : GroupedBy(g, r, n, count)
<1> DEFINE S == {k \in 0..n : \E g : GroupedBy(g, r, k, count)}
<1>1. 0 \in S
  <2> DEFINE g == [k \in 0..0 |-> None0(count)]
  <2>1. g = [k \in 0..0 |-> g[k]] /\ DOMAIN g = 0..0 /\ g[0] = None0(count)
    OBVIOUS
  <2> HIDE DEF g
  <2>2. Grow(g, r, 0, count)
    BY <2>1 DEF Grow
  <2>3. GroupedBy(g, r, 0, count)
    BY <2>1, <2>2, GroupsGrow
  <2> QED
    BY <2>3
<1>2. ASSUME NEW k \in 0..n, NEW m \in 1..n, k \in S, m = k + 1
      PROVE  m \in S
  <2>1. PICK g : GroupedBy(g, r, k, count)
    BY <1>2
  <2>2. PICK new : new = Appended(g[k], r[m], r[m][1] + 1)
    OBVIOUS
  <2> DEFINE h == [i \in 0..m |-> IF i <= k THEN g[i] ELSE new]
  <2>3. h = [i \in 0..m |-> h[i]] /\ DOMAIN h = 0..m /\ h[m] = new /\ \A i \in 0..k : h[i] = g[i]
    BY <1>2
  <2> HIDE DEF h
  <2>4. Grow(g, r, k, count)
    <3>1. k \in Nat
      OBVIOUS
    <3> QED
      BY <2>1, <3>1, GroupsGrow, Zenon
  <2>5. h[0] = None0(count)
    <3>1. 0 \in 0..k
      OBVIOUS
    <3> QED
      BY <2>3, <2>4, <3>1 DEF Grow
  <2>6. ASSUME NEW i \in 1..m
        PROVE  h[i] = Appended(h[i - 1], r[i], r[i][1] + 1)
    <3>1. CASE i = m
      <4>1. i - 1 = k /\ k \in 0..k
        BY <1>2, <3>1
      <4>2. h[i - 1] = g[k]
        BY <2>3, <4>1
      <4> QED
        BY <2>2, <2>3, <3>1, <4>2
    <3>2. CASE i # m
      <4>1. i \in 1..k /\ i \in 0..k /\ i - 1 \in 0..k
        BY <1>2, <3>2
      <4>2. h[i] = g[i] /\ h[i - 1] = g[i - 1]
        BY <2>3, <4>1
      <4> QED
        BY <2>4, <4>1, <4>2 DEF Grow
    <3> QED
      BY <3>1, <3>2
  <2>7. Grow(h, r, m, count)
    BY <2>3, <2>5, <2>6 DEF Grow
  <2>8. GroupedBy(h, r, m, count)
    BY <2>3, <2>7, GroupsGrow
  <2> QED
    BY <2>8
<1> HIDE DEF S
<1>3. \A k \in 0..n : k \in S
  BY <1>1, <1>2, CountUp
<1>4. n \in S
  BY <1>3
<1> QED
  BY <1>4 DEF S

LEMMA GroupedIs ==
    ASSUME NEW r, NEW n \in Nat, Len(r) = n
    PROVE  \E g : GroupedBy(g, r, n, Lists(r)) /\ Grouped(r) = g[n]
<1>0. PICK count : count = Lists(r)
  OBVIOUS
<1> DEFINE body(f, k) == IF k = 0 THEN [s \in 1..Lists(r) |-> <<>>]
                         ELSE [f[k - 1] EXCEPT ![r[k][1] + 1] = Append(@, r[k])]
           g == CHOOSE f : f = [k \in 0..Len(r) |-> body(f, k)]
<1>1. Grouped(r) = g[n]
  BY Zenon DEF Grouped
<1>2. \A f : [k \in 0..Len(r) |-> body(f, k)]
             = [k \in 0..n |-> IF k = 0 THEN None0(count)
                               ELSE Appended(f[k - 1], r[k], r[k][1] + 1)]
  BY <1>0, Zenon DEF None0, Appended
<1>3. \E f : f = [k \in 0..Len(r) |-> body(f, k)]
  <2>1. PICK h : GroupedBy(h, r, n, count)
    BY GroupsExist
  <2>2. h = [k \in 0..Len(r) |-> body(h, k)]
    BY <1>2, <2>1, Zenon DEF GroupedBy
  <2> QED
    BY <2>2, Zenon
<1>4. g = [k \in 0..Len(r) |-> body(g, k)]
  BY <1>3, Zenon
<1> HIDE DEF g
<1>5. GroupedBy(g, r, n, count)
  BY <1>2, <1>4, Zenon DEF GroupedBy
<1> QED
  BY <1>0, <1>1, <1>5

LEMMA GroupedHolds ==
    ASSUME NEW r, NEW n \in Nat, RowsAre(r, n), NEW count \in Nat, count = Lists(r)
    PROVE  ListsHold(Grouped(r), r, n, count)
<1>1. r \in Seq(Row) /\ Len(r) = n
  BY DEF RowsAre, Row
<1>2. \A i \in 1..n : r[i][1] + 1 \in 1..count
  <2> TAKE i \in 1..n
  <2>1. r[i] \in Row
    BY <1>1
  <2>2. r[i][1] \in Nat
    BY <2>1 DEF Row
  <2>3. r[i][1] + 1 <= count
    BY <1>1, ListsAre
  <2> QED
    BY <2>2, <2>3
<1>3. PICK g : GroupedBy(g, r, n, count) /\ Grouped(r) = g[n]
  BY <1>1, GroupedIs
<1>4. Grow(g, r, n, count)
  BY <1>3, GroupsGrow
<1> DEFINE S == {k \in 0..n : ListsHold(g[k], r, k, count)}
<1>5. 0 \in S
  <2>1. g[0] = [s \in 1..count |-> <<>>]
    BY <1>4 DEF Grow, None0
  <2>2. \A s \in 1..count : IsList(<<>>, r, 0, s)
    <3>1. <<>> \in Seq(Row) /\ Len(<<>>) = 0
      BY EmptySeq
    <3> QED
      BY <3>1 DEF IsList
  <2>3. DOMAIN g[0] = 1..count /\ \A s \in 1..count : g[0][s] = <<>>
    BY <2>1
  <2> QED
    BY <2>2, <2>3 DEF ListsHold
<1>6. ASSUME NEW k \in 0..n, NEW m \in 1..n, k \in S, m = k + 1
      PROVE  m \in S
  <2>1. ListsHold(g[k], r, k, count)
    BY <1>6
  <2>2. g[m] = Appended(g[m - 1], r[m], r[m][1] + 1) /\ m - 1 = k
    BY <1>4, <1>6 DEF Grow
  <2>3. PICK s, lists : s = r[m][1] + 1 /\ lists = g[k]
    OBVIOUS
  <2>4. ListsHold(Appended(lists, r[m], s), r, m, count)
    BY <1>2, <1>6, <2>1, <2>3, ListsGrow
  <2> QED
    BY <2>2, <2>3, <2>4
<1> HIDE DEF S
<1>7. \A k \in 0..n : k \in S
  BY <1>5, <1>6, CountUp
<1>8. n \in S
  BY <1>7
<1> QED
  BY <1>3, <1>8 DEF S

-----------------------------------------------------------------------------
\* One list after another.
Fills(f, lists, count) ==
    /\ f[0] = <<>>
    /\ \A s \in 0..count : f[s] \in Seq(Row)
    /\ \A t \in 0..count, s \in 1..count : s = t + 1 => f[s] = f[t] \o lists[s]

LEMMA FillsExist ==
    ASSUME NEW lists, NEW count \in Nat, DOMAIN lists = 1..count,
           \A s \in 1..count : lists[s] \in Seq(Row)
    PROVE  \E f : f = [s \in 0..count |-> IF s = 0 THEN <<>> ELSE f[s - 1] \o lists[s]]
<1> DEFINE part(s) == [t \in 1..s |-> lists[t]]
           f == [s \in 0..count |-> FlattenSeq(part(s))]
<1>1. \A s \in 0..count : part(s) \in Seq(Seq(Row)) /\ Len(part(s)) = s
  <2> TAKE s \in 0..count
  <2>1. \A t \in 1..s : lists[t] \in Seq(Row)
    <3>1. \A t \in 1..s : t \in 1..count
      OBVIOUS
    <3> QED
      BY <3>1
  <2> QED
    BY <2>1
<1>2. part(0) = <<>>
  <2>1. 0 \in 0..count
    OBVIOUS
  <2>2. part(0) \in Seq(Seq(Row)) /\ Len(part(0)) = 0
    BY <1>1, <2>1
  <2> HIDE DEF part
  <2> QED
    BY <2>2, EmptySeq
<1>3. ASSUME NEW t \in 0..count, NEW s \in 1..count, s = t + 1
      PROVE  part(s) = Append(part(t), lists[s])
  <2>1. PICK a \in Seq(Seq(Row)) : a = part(t) /\ Len(a) = t
    BY <1>1
  <2>2. s \in 0..count
    OBVIOUS
  <2>3. PICK b \in Seq(Seq(Row)) : b = part(s) /\ Len(b) = s
    BY <1>1, <2>2
  <2>4. \A i \in 1..s : b[i] = lists[i]
    BY <2>3
  <2>5. \A i \in 1..t : a[i] = lists[i]
    BY <2>1
  <2> HIDE DEF part
  <2>6. PICK c \in Seq(Seq(Row)) : c = Append(a, lists[s])
    BY AppendEntries
  <2>7. Len(c) = s /\ c[s] = lists[s] /\ \A i \in 1..t : c[i] = a[i]
    <3>1. Len(c) = Len(a) + 1 /\ c[Len(a) + 1] = lists[s] /\ \A i \in 1..Len(a) : c[i] = a[i]
      BY <2>6, AppendEntries
    <3>2. Len(a) = t /\ t + 1 = s
      BY <1>3, <2>1
    <3> QED
      BY <3>1, <3>2
  <2>8. \A i \in 1..s : c[i] = b[i]
    <3> TAKE i \in 1..s
    <3>1. i \in 1..t \/ i = s
      BY <1>3
    <3> QED
      BY <2>4, <2>5, <2>7, <3>1
  <2>9. c = b
    BY <2>3, <2>7, <2>8, SeqEqual
  <2> QED
    BY <2>1, <2>3, <2>6, <2>9
<1>4. DOMAIN f = 0..count /\ f = [s \in 0..count |-> f[s]]
      /\ \A s \in 0..count : f[s] = FlattenSeq(part(s))
  <2> HIDE DEF part
  <2> QED
    OBVIOUS
<1> HIDE DEF f, part
<1>5. f[0] = <<>>
  <2>1. FlattenSeq(<<>>) = <<>>
    BY Zenon DEF FlattenSeq
  <2>2. 0 \in 0..count
    OBVIOUS
  <2>3. f[0] = FlattenSeq(part(0))
    BY <1>4, <2>2
  <2> QED
    BY <1>2, <2>1, <2>3, Zenon
<1>7. ASSUME NEW t \in 0..count, NEW s \in 1..count, s = t + 1
      PROVE  f[s] = f[t] \o lists[s]
  <2>1. PICK a \in Seq(Seq(Row)) : a = part(t)
    BY <1>1
  <2>2. PICK l \in Seq(Row) : l = lists[s]
    OBVIOUS
  <2>3. FlattenSeq(Append(a, l)) = FlattenSeq(a) \o l
    BY FlattenAppended
  <2>4. part(s) = Append(a, l)
    BY <1>3, <1>7, <2>1, <2>2
  <2>5. s \in 0..count
    OBVIOUS
  <2>6. f[s] = FlattenSeq(part(s)) /\ f[t] = FlattenSeq(part(t))
    BY <1>4, <2>5
  <2> QED
    BY <2>1, <2>2, <2>3, <2>4, <2>6, Zenon
<1>8. \A s \in 0..count : f[s] = IF s = 0 THEN <<>> ELSE f[s - 1] \o lists[s]
  <2> TAKE s \in 0..count
  <2>1. CASE s = 0
    BY <1>5, <2>1, Zenon
  <2>2. CASE s # 0
    <3>1. PICK t \in 0..count : t = s - 1 /\ s = t + 1
      BY <2>2
    <3>2. s \in 1..count
      BY <2>2
    <3>3. f[s] = f[t] \o lists[s]
      BY <1>7, <3>1, <3>2
    <3> QED
      BY <2>2, <3>1, <3>3, Zenon
  <2> QED
    BY <2>1, <2>2
<1>9. f = [s \in 0..count |-> IF s = 0 THEN <<>> ELSE f[s - 1] \o lists[s]]
  <2> DEFINE body(s) == IF s = 0 THEN <<>> ELSE f[s - 1] \o lists[s]
  <2>1. \A s \in 0..count : f[s] = body(s)
    BY <1>8
  <2> HIDE DEF body
  <2>2. f = [s \in 0..count |-> body(s)]
    BY <1>4, <2>1
  <2> QED
    BY <2>2 DEF body
<1> QED
  BY <1>9

-----------------------------------------------------------------------------

LEMMA FillsEntries ==
    ASSUME NEW lists, NEW count \in Nat, DOMAIN lists = 1..count,
           \A s \in 1..count : lists[s] \in Seq(Row),
           NEW f, f = [s \in 0..count |-> IF s = 0 THEN <<>> ELSE f[s - 1] \o lists[s]]
    PROVE  Fills(f, lists, count)
<1> DEFINE body(s) == IF s = 0 THEN <<>> ELSE f[s - 1] \o lists[s]
<1>1. f = [s \in 0..count |-> body(s)]
  OBVIOUS
<1>2. body(0) = <<>>
  BY Zenon
<1>3. ASSUME NEW t \in 0..count, NEW s \in 1..count, s = t + 1
      PROVE  body(s) = f[t] \o lists[s]
  <2>1. s # 0 /\ s - 1 = t
    BY <1>3
  <2> QED
    BY <2>1, Zenon
<1> HIDE DEF body
<1>4. \A s \in 0..count : f[s] = body(s)
  <2>1. PICK g : g = [s \in 0..count |-> body(s)]
    OBVIOUS
  <2>2. \A s \in 0..count : g[s] = body(s)
    BY <2>1
  <2> QED
    BY <1>1, <2>1, <2>2
<1>5. f[0] = <<>>
  <2>1. 0 \in 0..count
    OBVIOUS
  <2> QED
    BY <1>2, <1>4, <2>1
<1>6. ASSUME NEW t \in 0..count, NEW s \in 1..count, s = t + 1
      PROVE  f[s] = f[t] \o lists[s]
  <2>1. s \in 0..count
    OBVIOUS
  <2> QED
    BY <1>3, <1>4, <1>6, <2>1
<1> DEFINE S == {s \in 0..count : f[s] \in Seq(Row)}
<1>7. 0 \in S
  <2>1. 0 \in 0..count /\ <<>> \in Seq(Row)
    BY EmptySeq
  <2> QED
    BY <1>5, <2>1
<1>8. ASSUME NEW t \in 0..count, NEW s \in 1..count, t \in S, s = t + 1
      PROVE  s \in S
  <2>1. s \in 0..count /\ f[t] \in Seq(Row) /\ lists[s] \in Seq(Row)
    BY <1>8
  <2>2. f[t] \o lists[s] \in Seq(Row)
    BY <2>1, ConcatProperties
  <2> QED
    BY <1>6, <1>8, <2>1, <2>2
<1> HIDE DEF S
<1>9. \A s \in 0..count : s \in S
  BY <1>7, <1>8, CountUp
<1>10. \A s \in 0..count : f[s] \in Seq(Row)
  BY <1>9 DEF S
<1> QED
  BY <1>5, <1>6, <1>10 DEF Fills

\* The entries of the first s lists, each row at most once, and every list at its place.
RowEntries(e, r, n, s) ==
    /\ e \in Seq(Row)
    /\ \A p \in 1..Len(e) : e[p][2] \in 1..n /\ e[p] = r[e[p][2]] /\ e[p][1] + 1 \in 1..s
    /\ \A p, q \in 1..Len(e) : e[p][2] = e[q][2] => p = q
Placed(e, at, l) ==
    \A p \in 1..Len(l) : at + p \in 1..Len(e) /\ e[at + p] = l[p]

LEMMA EntriesGrow ==
    ASSUME NEW r, NEW n \in Nat, NEW t \in Nat, NEW s \in Nat, s = t + 1,
           NEW e, RowEntries(e, r, n, t), NEW l, IsList(l, r, n, s)
    PROVE  RowEntries(e \o l, r, n, s)
<1>1. PICK a \in Seq(Row), b \in Seq(Row), i \in Nat, j \in Nat :
        a = e /\ b = l /\ i = Len(a) /\ j = Len(b)
  BY DEF RowEntries, IsList
<1>2. /\ \A p \in 1..i : a[p][2] \in 1..n /\ a[p] = r[a[p][2]] /\ a[p][1] + 1 \in 1..t
      /\ \A p, q \in 1..i : a[p][2] = a[q][2] => p = q
  BY <1>1 DEF RowEntries
<1>3. /\ \A p \in 1..j : b[p][2] \in 1..n /\ b[p] = r[b[p][2]] /\ b[p][1] + 1 = s
      /\ \A p, q \in 1..j : p < q => b[p][2] < b[q][2]
  BY <1>1 DEF IsList
<1>4. PICK c \in Seq(Row) :
        /\ c = a \o b /\ Len(c) = i + j
        /\ \A p \in 1..(i + j) : c[p] = IF p <= i THEN a[p] ELSE b[p - i]
  <2>1. PICK c : c = a \o b
    OBVIOUS
  <2>2. /\ c \in Seq(Row) /\ Len(c) = Len(a) + Len(b)
        /\ \A p \in 1..(Len(a) + Len(b)) : c[p] = IF p <= Len(a) THEN a[p] ELSE b[p - Len(a)]
    BY <2>1, ConcatProperties
  <2> QED
    BY <1>1, <2>1, <2>2, ZenonT(30)
<1>5. \A p \in 1..i : c[p] = a[p]
  BY <1>4
<1>6. \A p \in 1..(i + j) : p \in 1..i \/ (p - i \in 1..j /\ c[p] = b[p - i])
  BY <1>4
<1>7. ASSUME NEW p \in 1..(i + j)
      PROVE  c[p][2] \in 1..n /\ c[p] = r[c[p][2]] /\ c[p][1] + 1 \in 1..s
  <2>1. CASE p \in 1..i
    <3>1. a[p][1] + 1 \in 1..s
      BY <1>2, <2>1
    <3> QED
      BY <1>2, <1>5, <2>1, <3>1
  <2>2. CASE p \notin 1..i
    <3>1. PICK q \in 1..j : q = p - i /\ c[p] = b[q]
      BY <1>6, <2>2
    <3>2. s \in 1..s
      OBVIOUS
    <3> QED
      BY <1>3, <3>1, <3>2
  <2> QED
    BY <2>1, <2>2
<1>8. \A p, q \in 1..j : b[p][2] = b[q][2] => p = q
  <2> TAKE p, q \in 1..j
  <2>1. p < q \/ q < p \/ p = q
    OBVIOUS
  <2>2. b[p][2] \in Int /\ b[q][2] \in Int
    BY <1>3
  <2> QED
    BY <1>3, <2>1, <2>2, SMTT(30)
<1>9. \A p \in 1..i, q \in 1..j : a[p][2] # b[q][2]
  <2> TAKE p \in 1..i, q \in 1..j
  <2>1. a[p][1] + 1 # b[q][1] + 1
    <3>1. a[p][1] + 1 \in 1..t /\ b[q][1] + 1 = s
      BY <1>2, <1>3
    <3>2. s \notin 1..t
      OBVIOUS
    <3> QED
      BY <3>1, <3>2
  <2>2. a[p] = r[a[p][2]] /\ b[q] = r[b[q][2]]
    BY <1>2, <1>3
  <2> QED
    BY <2>1, <2>2
<1>10. ASSUME NEW p \in 1..(i + j), NEW q \in 1..(i + j), c[p][2] = c[q][2]
       PROVE  p = q
  <2>1. CASE p \in 1..i /\ q \in 1..i
    BY <1>2, <1>5, <1>10, <2>1
  <2>2. CASE p \in 1..i /\ q \notin 1..i
    BY <1>5, <1>6, <1>9, <1>10, <2>2, SMTT(30)
  <2>3. CASE p \notin 1..i /\ q \in 1..i
    BY <1>5, <1>6, <1>9, <1>10, <2>3, SMTT(30)
  <2>4. CASE p \notin 1..i /\ q \notin 1..i
    <3>1. p - i \in 1..j /\ q - i \in 1..j /\ c[p] = b[p - i] /\ c[q] = b[q - i]
      BY <1>6, <2>4
    <3>2. p - i = q - i
      BY <1>8, <1>10, <3>1
    <3> QED
      BY <3>2
  <2> QED
    BY <2>1, <2>2, <2>3, <2>4
<1>11. RowEntries(c, r, n, s)
  BY <1>4, <1>7, <1>10 DEF RowEntries
<1> QED
  BY <1>1, <1>4, <1>11

LEMMA PlacedStays ==
    ASSUME NEW e \in Seq(Row), NEW b \in Seq(Row), NEW at \in Nat, NEW l \in Seq(Row)
    PROVE  /\ Placed(e, at, l) => Placed(e \o b, at, l)
           /\ at = Len(e) /\ l = b => Placed(e \o b, at, l)
<1>1. PICK i \in Nat, j \in Nat, m \in Nat : i = Len(e) /\ j = Len(b) /\ m = Len(l)
  OBVIOUS
<1>2. PICK c \in Seq(Row) :
        /\ c = e \o b /\ Len(c) = i + j
        /\ \A p \in 1..(i + j) : c[p] = IF p <= i THEN e[p] ELSE b[p - i]
  <2>1. PICK c : c = e \o b
    OBVIOUS
  <2>2. /\ c \in Seq(Row) /\ Len(c) = Len(e) + Len(b)
        /\ \A p \in 1..(Len(e) + Len(b)) : c[p] = IF p <= Len(e) THEN e[p] ELSE b[p - Len(e)]
    BY <2>1, ConcatProperties
  <2> QED
    BY <1>1, <2>1, <2>2
<1>3. ASSUME Placed(e, at, l)
      PROVE  Placed(c, at, l)
  <2>1. \A p \in 1..m : at + p \in 1..i /\ e[at + p] = l[p]
    BY <1>1, <1>3 DEF Placed
  <2>2. ASSUME NEW p \in 1..m
        PROVE  at + p \in 1..(i + j) /\ c[at + p] = l[p]
    <3>1. at + p \in 1..i /\ e[at + p] = l[p]
      BY <2>1
    <3>2. at + p \in 1..(i + j) /\ at + p <= i
      BY <3>1
    <3> QED
      BY <1>2, <3>1, <3>2
  <2> QED
    BY <1>1, <1>2, <2>2 DEF Placed
<1>4. ASSUME at = Len(e), l = b
      PROVE  Placed(c, at, l)
  <2>1. ASSUME NEW p \in 1..m
        PROVE  at + p \in 1..(i + j) /\ c[at + p] = l[p]
    <3>1. at + p \in 1..(i + j) /\ ~(at + p <= i) /\ at + p - i = p
      BY <1>1, <1>4
    <3> QED
      BY <1>2, <1>4, <3>1
  <2> QED
    BY <1>1, <1>2, <2>1 DEF Placed
<1> QED
  BY <1>2, <1>3, <1>4

Laid(e, f, lists, count) ==
    \A t \in 0..count, s \in 1..count : s = t + 1 =>
      /\ Placed(e, Len(f[t]), lists[s])
      /\ Len(f[t]) \in Nat /\ Len(f[s]) = Len(f[t]) + Len(lists[s])

\* All of it: the entries of count lists, the places of the lists, and where they end.
LEMMA AllPlaced ==
    ASSUME NEW r, NEW n \in Nat, NEW count \in Nat, NEW lists, ListsHold(lists, r, n, count),
           NEW f, Fills(f, lists, count)
    PROVE  RowEntries(f[count], r, n, count) /\ Laid(f[count], f, lists, count)
<1>1. /\ \A s \in 1..count : IsList(lists[s], r, n, s)
      /\ \A s \in 1..count : lists[s] \in Seq(Row)
  BY DEF ListsHold, IsList
<1>2. /\ f[0] = <<>> /\ \A s \in 0..count : f[s] \in Seq(Row)
      /\ \A t \in 0..count, s \in 1..count : s = t + 1 => f[s] = f[t] \o lists[s]
  BY DEF Fills
<1> DEFINE Is(m) == /\ RowEntries(f[m], r, n, m)
                    /\ \A t \in 0..count, s \in 1..count :
                         s = t + 1 /\ s <= m => Placed(f[m], Len(f[t]), lists[s])
           S == {m \in 0..count : Is(m)}
<1>3. Is(0)
  <2>1. RowEntries(<<>>, r, n, 0)
    <3>1. <<>> \in Seq(Row) /\ Len(<<>>) = 0
      BY EmptySeq
    <3> QED
      BY <3>1 DEF RowEntries
  <2>2. \A s \in 1..count : ~(s <= 0)
    OBVIOUS
  <2> QED
    BY <1>2, <2>1, <2>2
<1>4. ASSUME NEW k \in 0..count, NEW m \in 1..count, Is(k), m = k + 1
      PROVE  Is(m)
  <2>1. PICK e \in Seq(Row), b \in Seq(Row) : e = f[k] /\ b = lists[m]
    BY <1>1, <1>2
  <2>2. f[m] = e \o b
    BY <1>2, <1>4, <2>1
  <2>3. RowEntries(e \o b, r, n, m)
    <3>1. k \in Nat /\ m \in Nat /\ RowEntries(e, r, n, k) /\ IsList(b, r, n, m)
      BY <1>1, <1>4, <2>1
    <3> QED
      BY <1>4, <3>1, EntriesGrow
  <2>4. ASSUME NEW t \in 0..count, NEW s \in 1..count, s = t + 1, s <= m
        PROVE  Placed(e \o b, Len(f[t]), lists[s])
    <3>1. PICK at \in Nat, l \in Seq(Row) : at = Len(f[t]) /\ l = lists[s]
      <4>1. f[t] \in Seq(Row)
        BY <1>2
      <4>2. Len(f[t]) \in Nat
        BY <4>1
      <4> QED
        BY <1>1, <4>2
    <3>2. CASE s = m
      <4>1. t = k
        BY <1>4, <2>4, <3>2
      <4>2. at = Len(e) /\ l = b
        BY <2>1, <3>1, <3>2, <4>1
      <4> QED
        BY <3>1, <4>2, PlacedStays
    <3>3. CASE s # m
      <4>1. s <= k
        BY <1>4, <2>4, <3>3
      <4>2. Placed(e, at, l)
        BY <1>4, <2>1, <2>4, <3>1, <4>1
      <4> QED
        BY <3>1, <4>2, PlacedStays
    <3> QED
      BY <3>2, <3>3
  <2> QED
    BY <2>2, <2>3, <2>4
<1> HIDE DEF Is
<1>5. 0 \in S
  BY <1>3
<1>6. ASSUME NEW k \in 0..count, NEW m \in 1..count, k \in S, m = k + 1
      PROVE  m \in S
  <2>1. Is(m)
    BY <1>4, <1>6
  <2>2. m \in 0..count
    OBVIOUS
  <2> QED
    BY <2>1, <2>2
<1> HIDE DEF S
<1>7. \A k \in 0..count : k \in S
  BY <1>5, <1>6, CountUp
<1>8. count \in S
  BY <1>7
<1>9. Is(count)
  BY <1>8 DEF S
<1>10. ASSUME NEW t \in 0..count, NEW s \in 1..count, s = t + 1
       PROVE  /\ Placed(f[count], Len(f[t]), lists[s])
              /\ Len(f[t]) \in Nat /\ Len(f[s]) = Len(f[t]) + Len(lists[s])
  <2>1. s <= count
    OBVIOUS
  <2>2. Placed(f[count], Len(f[t]), lists[s])
    BY <1>9, <1>10, <2>1 DEF Is
  <2>3. PICK a \in Seq(Row), b \in Seq(Row) : a = f[t] /\ b = lists[s]
    BY <1>1, <1>2
  <2>4. f[s] = a \o b
    BY <1>2, <1>10, <2>3
  <2>5. Len(a) \in Nat /\ Len(a \o b) = Len(a) + Len(b)
    BY ConcatProperties
  <2> QED
    BY <2>2, <2>3, <2>4, <2>5
<1> QED
  BY <1>9, <1>10 DEF Is, Laid

-----------------------------------------------------------------------------
CSROf(entries, f, count) ==
    [indptr |-> [s \in 1..(count + 1) |-> Len(f[s - 1])],
     indices |-> [k \in DOMAIN entries |-> entries[k][3]],
     edgeIds |-> [k \in DOMAIN entries |-> entries[k][2]]]

LEMMA CSRIs ==
    ASSUME NEW r, NEW n \in Nat, RowsAre(r, n), NEW count \in Nat, count = Lists(r)
    PROVE  \E f, lists : /\ ListsHold(lists, r, n, count) /\ Fills(f, lists, count)
                        /\ CSR(r) = CSROf(f[count], f, count)
<1>1. PICK lists : lists = Grouped(r)
  OBVIOUS
<1>2. ListsHold(lists, r, n, count)
  BY <1>1, GroupedHolds
<1>3. DOMAIN lists = 1..count /\ \A s \in 1..count : lists[s] \in Seq(Row)
  BY <1>2 DEF ListsHold, IsList
<1> DEFINE f == CHOOSE f : f = [s \in 0..Lists(r) |-> IF s = 0 THEN <<>> ELSE f[s - 1] \o Grouped(r)[s]]
<1>4. f = [s \in 0..Lists(r) |-> IF s = 0 THEN <<>> ELSE f[s - 1] \o Grouped(r)[s]]
  <2>1. PICK g : g = [s \in 0..count |-> IF s = 0 THEN <<>> ELSE g[s - 1] \o lists[s]]
    BY <1>3, FillsExist
  <2>2. g = [s \in 0..Lists(r) |-> IF s = 0 THEN <<>> ELSE g[s - 1] \o Grouped(r)[s]]
    BY <1>1, <2>1, Zenon
  <2> QED
    BY <2>2, Zenon
<1>5. CSR(r) = CSROf(f[Lists(r)], f, Lists(r))
  BY Zenon DEF CSR, CSROf
<1> HIDE DEF f
<1>6. Fills(f, lists, count)
  <2>1. f = [s \in 0..count |-> IF s = 0 THEN <<>> ELSE f[s - 1] \o lists[s]]
    BY <1>1, <1>4, Zenon
  <2> QED
    BY <1>3, <2>1, FillsEntries
<1> QED
  BY <1>2, <1>5, <1>6

\* Every edge has its place.
CSRHas(csr, r, n) ==
    /\ Len(csr.indices) = n /\ Len(csr.edgeIds) = n
    /\ \A i \in DOMAIN r : \E k \in DOMAIN csr.indices :
         /\ csr.edgeIds[k] = i /\ csr.indices[k] = r[i][3]
         /\ k \in (csr.indptr[r[i][1] + 1] + 1)..csr.indptr[r[i][1] + 2]

EveryId(e, n) == \A i \in 1..n : \E k \in 1..Len(e) : e[k][2] = i

LEMMA EntriesCount ==
    ASSUME NEW r, NEW n \in Nat, NEW e, NEW count, RowEntries(e, r, n, count), EveryId(e, n)
    PROVE  Len(e) = n
<1>1. PICK a \in Seq(Row), m \in Nat : a = e /\ m = Len(a)
  BY DEF RowEntries
<1>2. /\ \A p \in 1..m : a[p][2] \in 1..n
      /\ \A p, q \in 1..m : a[p][2] = a[q][2] => p = q
  BY <1>1 DEF RowEntries
<1>3. \A i \in 1..n : \E k \in 1..m : a[k][2] = i
  BY <1>1 DEF EveryId
<1> DEFINE id == [k \in 1..m |-> a[k][2]]
<1>4. id \in Bijection(1..m, 1..n)
  <2>1. id \in [1..m -> 1..n]
    BY <1>2
  <2>2. \A p, q \in 1..m : id[p] = id[q] => p = q
    BY <1>2
  <2>3. \A i \in 1..n : \E k \in 1..m : id[k] = i
    BY <1>3
  <2> HIDE DEF id
  <2>4. id \in Injection(1..m, 1..n)
    BY <2>1, <2>2 DEF Injection, IsInjective
  <2>5. id \in Surjection(1..m, 1..n)
    BY <2>1, <2>3 DEF Surjection
  <2> QED
    BY <2>4, <2>5 DEF Bijection
<1>5. IsFiniteSet(1..m) /\ Cardinality(1..m) = m /\ Cardinality(1..n) = n
  BY IntervalSize
<1>6. ExistsBijection(1..m, 1..n)
  BY <1>4 DEF ExistsBijection
<1>7. m = n
  BY <1>5, <1>6, FS_Bijection
<1> QED
  BY <1>1, <1>7

LEMMA CSRIsComplete ==
    ASSUME NEW r, NEW n \in Nat, RowsAre(r, n)
    PROVE  CSRHas(CSR(r), r, n)
<1>1. PICK rs \in Seq(Row) : rs = r /\ Len(rs) = n /\ \A i \in 1..n : rs[i][2] = i
  BY DEF RowsAre, Row
<1>2. PICK count \in Nat : count = Lists(r) /\ \A i \in 1..n : r[i][1] + 1 <= count
  BY <1>1, ListsAre
<1>3. PICK f, lists : /\ ListsHold(lists, r, n, count) /\ Fills(f, lists, count)
                      /\ CSR(r) = CSROf(f[count], f, count)
  BY <1>2, CSRIs
<1>4. PICK e \in Seq(Row), m \in Nat : e = f[count] /\ m = Len(e)
  <2>1. count \in 0..count
    OBVIOUS
  <2>2. f[count] \in Seq(Row)
    BY <1>3, <2>1 DEF Fills
  <2> QED
    BY <2>2
<1>5. /\ RowEntries(e, r, n, count)
      /\ \A t \in 0..count, s \in 1..count : s = t + 1 =>
           /\ Placed(e, Len(f[t]), lists[s])
           /\ Len(f[t]) \in Nat /\ Len(f[s]) = Len(f[t]) + Len(lists[s])
  <2>1. RowEntries(f[count], r, n, count) /\ Laid(f[count], f, lists, count)
    BY <1>3, AllPlaced
  <2> QED
    BY <1>4, <2>1 DEF Laid
<1>6. PICK csr : csr = CSROf(e, f, count)
  OBVIOUS
<1>7. /\ csr.indptr = [s \in 1..(count + 1) |-> Len(f[s - 1])]
      /\ csr.indices = [k \in 1..m |-> e[k][3]] /\ csr.edgeIds = [k \in 1..m |-> e[k][2]]
  <2>1. DOMAIN e = 1..m
    BY <1>4
  <2> QED
    BY <1>6, <2>1, Zenon DEF CSROf
<1>8. ASSUME NEW i \in 1..n
      PROVE  \E k \in 1..m : /\ e[k] = rs[i] /\ rs[i][2] = i
                             /\ k \in (csr.indptr[r[i][1] + 1] + 1)..csr.indptr[r[i][1] + 2]
  <2>1. PICK t \in Nat : t = rs[i][1]
    <3>1. rs[i] \in Row
      BY <1>1
    <3> QED
      BY <3>1 DEF Row
  <2>2. PICK s \in 1..count : s = t + 1
    BY <1>1, <1>2, <2>1
  <2>3. /\ t \in 0..count /\ s \in 1..(count + 1) /\ s + 1 \in 1..(count + 1)
        /\ s - 1 = t /\ s + 1 - 1 = s /\ t + 2 = s + 1
    <3>1. s \in Int /\ t \in Int /\ count \in Int /\ 1 <= s /\ s <= count /\ s = t + 1
      BY <1>2, <2>1, <2>2
    <3>2. t \in 0..count
      BY <2>1, <3>1
    <3>3. s \in 1..(count + 1)
      BY <3>1
    <3>4. s + 1 \in 1..(count + 1)
      BY <3>1
    <3>5. s - 1 = t
      BY <3>1
    <3>6. s + 1 - 1 = s
      BY <3>1
    <3>7. t + 2 = s + 1
      BY <3>1
    <3> QED
      BY <3>2, <3>3, <3>4, <3>5, <3>6, <3>7
  <2>4. PICK at \in Nat, size \in Nat, l \in Seq(Row) :
          at = Len(f[t]) /\ l = lists[s] /\ size = Len(l) /\ Placed(e, at, l) /\ Len(f[s]) = at + size
    <3>1. lists[s] \in Seq(Row)
      BY <1>3 DEF ListsHold, IsList
    <3>2. Len(lists[s]) \in Nat
      BY <3>1
    <3> QED
      BY <1>5, <2>2, <2>3, <3>1, <3>2
  <2>5. PICK p \in 1..size : l[p] = rs[i]
    <3>1. Has(lists[s], rs[i])
      BY <1>1, <1>3, <2>1, <2>2 DEF ListsHold
    <3> QED
      BY <2>4, <3>1 DEF Has
  <2>6. at + p \in 1..m /\ e[at + p] = l[p]
    BY <1>4, <2>4, <2>5 DEF Placed
  <2>7. csr.indptr[s] = at /\ csr.indptr[s + 1] = at + size
    <3>1. PICK ptr : ptr = csr.indptr
      OBVIOUS
    <3>2. \A x \in 1..(count + 1) : ptr[x] = Len(f[x - 1])
      BY <1>7, <3>1
    <3>3. ptr[s] = Len(f[t]) /\ ptr[s + 1] = Len(f[s])
      BY <2>3, <3>2
    <3> QED
      BY <2>4, <3>1, <3>3
  <2>8. at + p \in (at + 1)..(at + size)
    OBVIOUS
  <2>9. r[i][1] + 1 = s /\ r[i][1] + 2 = s + 1
    BY <1>1, <2>1, <2>2, <2>3
  <2>10. at + p \in (csr.indptr[r[i][1] + 1] + 1)..csr.indptr[r[i][1] + 2]
    BY <2>7, <2>8, <2>9
  <2>11. e[at + p] = rs[i] /\ rs[i][2] = i
    BY <1>1, <2>5, <2>6
  <2> QED
    BY <2>6, <2>10, <2>11
<1>9. m = n
  <2>1. ASSUME NEW i \in 1..n
        PROVE  \E k \in 1..Len(e) : e[k][2] = i
    <3>1. PICK k \in 1..m : e[k] = rs[i] /\ rs[i][2] = i
      BY <1>8
    <3> QED
      BY <1>4, <3>1
  <2>2. EveryId(e, n)
    BY <2>1 DEF EveryId
  <2> QED
    BY <1>4, <1>5, <2>2, EntriesCount
<1>10. Len(csr.indices) = n /\ Len(csr.edgeIds) = n /\ DOMAIN csr.indices = 1..m
  <2>1. \A k \in 1..m : e[k][3] \in Nat /\ e[k][2] \in Nat
    <3> TAKE k \in 1..m
    <3>1. e[k] \in Row
      BY <1>4
    <3> QED
      BY <3>1 DEF Row
  <2>2. csr.indices \in Seq(Nat) /\ csr.edgeIds \in Seq(Nat)
    BY <1>7, <2>1
  <2> QED
    BY <1>7, <1>9, <2>2
<1>11. \A i \in DOMAIN r : \E k \in DOMAIN csr.indices :
         /\ csr.edgeIds[k] = i /\ csr.indices[k] = r[i][3]
         /\ k \in (csr.indptr[r[i][1] + 1] + 1)..csr.indptr[r[i][1] + 2]
  <2>1. DOMAIN r = 1..n
    BY <1>1
  <2>2. ASSUME NEW i \in 1..n
        PROVE  \E k \in 1..m :
                 /\ csr.edgeIds[k] = i /\ csr.indices[k] = r[i][3]
                 /\ k \in (csr.indptr[r[i][1] + 1] + 1)..csr.indptr[r[i][1] + 2]
    <3>1. PICK k \in 1..m : /\ e[k] = rs[i] /\ rs[i][2] = i
                            /\ k \in (csr.indptr[r[i][1] + 1] + 1)..csr.indptr[r[i][1] + 2]
      BY <1>8
    <3>2. csr.edgeIds[k] = i /\ csr.indices[k] = r[i][3]
      BY <1>1, <1>7, <3>1
    <3> QED
      BY <3>1, <3>2
  <2> QED
    BY <1>10, <2>1, <2>2
<1>12. CSRHas(csr, r, n)
  BY <1>10, <1>11 DEF CSRHas
<1> QED
  BY <1>3, <1>4, <1>6, <1>12

-----------------------------------------------------------------------------
LEMMA ResultInvArrays == ResultInv => CSRComplete
<1> SUFFICES ASSUME ResultInv, last[1] = "csr" PROVE CSRComplete
  BY DEF CSRComplete
<1>1. RowsAre(rows, NumTuples) /\ last[2] = CSR(rows)
  BY DEF ResultInv
<1>2. NumTuples \in Nat
  BY <1>1, QueryResultsAssumption DEF RowsAre
<1>3. CSRHas(CSR(rows), rows, NumTuples)
  BY <1>1, <1>2, CSRIsComplete
<1>4. CSRHas(last[2], rows, NumTuples)
  BY <1>1, <1>3
<1> QED
  BY <1>4, Zenon DEF CSRComplete, CSRHas

LEMMA ResultInvExports == ResultInv => ExportsComplete
BY ResultInvReads, ResultInvMoves, ResultInvTables, ResultInvArrays DEF ExportsComplete

\* Reads take the rows in order from where an export last left the cursor, and where it
\* does: at the first row or behind one that cannot be converted in the C API, at the end
\* in pybind, where no row comes twice.  A table of the C API, a data frame and a CSR
\* export have every row; an Arrow table of pybind has those that nobody had taken
\* (get_next() ... getCSR(), whatever was read before and whatever call raised).
THEOREM ResultsAreComplete == ResultSpec => []ExportsComplete
BY ResultBegins, ResultStep, ResultInvExports, PTL DEF ResultSpec

LEMMA ResultInvTyped == ResultInv => ResultTypeOK
<1> SUFFICES ASSUME ResultInv PROVE ResultTypeOK
  OBVIOUS
<1>1. cursor \in 0..NumTuples /\ asDict \in BOOLEAN /\ calls \in 0..MaxCalls
  BY DEF ResultInv
<1>2. job.op \in {"none", "read", "check", "arrow", "csr"} /\ job.from \in 0..NumTuples
  <2>1. PICK n, capi : n = NumTuples /\ JobIs(n, cursor, job, seen, origin, capi)
    BY InResult
  <2> QED
    BY <2>1 DEF JobIs
<1>3. last[1] \in {"none", "error", "rows", "table", "csr"}
  BY DEF ResultInv, AnswerKinds
<1>4. origin \in 0..NumTuples
  BY InResult
<1> QED
  BY <1>1, <1>2, <1>3, <1>4 DEF ResultTypeOK

\* The cursor stays within the rows, and a call in progress is one of those there are.
THEOREM ResultsTypeCorrect == ResultSpec => []ResultTypeOK
BY ResultBegins, ResultStep, ResultInvTyped, PTL DEF ResultSpec

-----------------------------------------------------------------------------
(* GraphExport: a graph has the nodes and rels of the result.              *)

-----------------------------------------------------------------------------
\* Dictionaries of nodes and rels of result r, by their ids.
NodesKnown(r, ns) == \A id \in DOMAIN ns : ns[id] \in NodesIn(r) /\ Internal(ns[id]) = id
RelsKnown(r, rs) ==
    rs \in Seq(RelsIn(r)) /\ \A i, j \in DOMAIN rs : rs[i].id = rs[j].id => i = j
HasRel(rs, id) == \E i \in DOMAIN rs : rs[i].id = id

LEMMA PutsNodes ==
    ASSUME NEW r, NEW ns, NodesKnown(r, ns), NEW met \in Seq(NodesIn(r))
    PROVE  /\ NodesKnown(r, PutNodes(ns, met))
           /\ DOMAIN ns \subseteq DOMAIN PutNodes(ns, met)
           /\ \A i \in DOMAIN met : Internal(met[i]) \in DOMAIN PutNodes(ns, met)
<1> DEFINE same(id) == {i \in DOMAIN met : Internal(met[i]) = id}
           put == PutNodes(ns, met)
<1>1. /\ DOMAIN put = DOMAIN ns \cup {Internal(met[i]) : i \in DOMAIN met}
      /\ \A id \in DOMAIN put : put[id] = IF same(id) = {} THEN ns[id] ELSE met[Max(same(id))]
  BY DEF PutNodes
<1> HIDE DEF put
<1>2. ASSUME NEW id \in DOMAIN put
      PROVE  put[id] \in NodesIn(r) /\ Internal(put[id]) = id
  <2>1. CASE same(id) = {}
    <3>1. id \in DOMAIN ns
      BY <1>1, <2>1
    <3> QED
      BY <1>1, <2>1, <3>1 DEF NodesKnown
  <2>2. CASE same(id) # {}
    <3>1. Len(met) \in Nat /\ DOMAIN met = 1..Len(met)
      OBVIOUS
    <3>2. Max(same(id)) \in same(id)
      <4>1. PICK n \in Nat : n = Len(met)
        BY <3>1
      <4>2. same(id) \in SUBSET (1..n)
        BY <3>1, <4>1
      <4> HIDE DEF same
      <4> QED
        BY <2>2, <4>2, MaxOfPlaces
    <3>3. PICK i \in DOMAIN met : i = Max(same(id)) /\ Internal(met[i]) = id
      BY <3>2
    <3>4. met[i] \in NodesIn(r)
      BY <3>1, <3>3
    <3>5. put[id] = met[i]
      BY <1>1, <2>2, <3>3
    <3> QED
      BY <3>3, <3>4, <3>5
  <2> QED
    BY <2>1, <2>2
<1>3. NodesKnown(r, put)
  BY <1>2 DEF NodesKnown
<1> QED
  BY <1>1, <1>3 DEF put

LEMMA PutsRel ==
    ASSUME NEW r, NEW rs, RelsKnown(r, rs), NEW rel \in RelsIn(r)
    PROVE  /\ RelsKnown(r, ById(rs, rel)) /\ HasRel(ById(rs, rel), rel.id)
           /\ \A id : HasRel(rs, id) => HasRel(ById(rs, rel), id)
<1> DEFINE same == {i \in DOMAIN rs : rs[i].id = rel.id}
           new == ById(rs, rel)
<1>1. Len(rs) \in Nat /\ DOMAIN rs = 1..Len(rs) /\ \A i \in DOMAIN rs : rs[i] \in RelsIn(r)
  BY SMTT(30) DEF RelsKnown
<1>2. PICK n \in Nat : n = Len(rs)
  BY <1>1
<1>3. CASE same = {}
  <2>1. new = Append(rs, rel)
    BY <1>3 DEF ById, PutRel
  <2>2. /\ new \in Seq(RelsIn(r)) /\ Len(new) = n + 1 /\ new[n + 1] = rel
        /\ \A i \in 1..n : new[i] = rs[i]
    BY <1>2, <2>1, AppendEntries DEF RelsKnown
  <2> HIDE DEF new
  <2>3. DOMAIN new = 1..(n + 1) /\ \A i \in 1..(n + 1) : i \in 1..n \/ i = n + 1
    BY <2>2
  <2>4. \A i \in 1..n : new[i].id # rel.id
    BY <1>1, <1>2, <1>3, <2>2
  <2>5. \A i, j \in DOMAIN new : new[i].id = new[j].id => i = j
    <3>1. \A i, j \in 1..n : new[i].id = new[j].id => i = j
      BY <1>1, <1>2, <2>2 DEF RelsKnown
    <3> QED
      BY <2>2, <2>3, <2>4, <3>1
  <2>6. HasRel(new, rel.id)
    BY <2>2, <2>3 DEF HasRel
  <2>7. ASSUME NEW id, HasRel(rs, id)
        PROVE  HasRel(new, id)
    <3>1. PICK i \in 1..n : rs[i].id = id
      BY <1>1, <1>2, <2>7 DEF HasRel
    <3> QED
      BY <2>2, <2>3, <3>1 DEF HasRel
  <2> QED
    BY <2>2, <2>5, <2>6, <2>7 DEF RelsKnown, new
<1>4. CASE same # {}
  <2>1. new = [i \in DOMAIN rs |-> IF i \in same THEN rel ELSE rs[i]]
    BY <1>4 DEF ById, PutRel
  <2>2. \A i \in DOMAIN rs : new[i].id = rs[i].id
    BY <2>1
  <2>3. DOMAIN new = DOMAIN rs /\ \A i \in DOMAIN rs : new[i] \in RelsIn(r)
    BY <1>1, <2>1
  <2>4. new = [i \in DOMAIN rs |-> new[i]]
    BY <2>1
  <2> HIDE DEF new
  <2>5. new \in Seq(RelsIn(r))
    BY <1>1, <1>2, <2>3, <2>4
  <2>6. PICK i \in DOMAIN rs : rs[i].id = rel.id
    BY <1>4
  <2>7. HasRel(new, rel.id)
    BY <2>2, <2>3, <2>6 DEF HasRel
  <2>8. \A id : HasRel(rs, id) => HasRel(new, id)
    BY <2>2, <2>3 DEF HasRel
  <2>9. RelsKnown(r, new)
    BY <2>2, <2>3, <2>5 DEF RelsKnown
  <2> QED
    BY <2>7, <2>8, <2>9 DEF new
<1> QED
  BY <1>3, <1>4

\* rels of a path, one after another.
LEMMA PutsRels ==
    ASSUME NEW r, NEW rs, RelsKnown(r, rs), NEW met \in Seq(RelsIn(r)), NEW new,
           LET taken[k \in 0..Len(met)] == IF k = 0 THEN rs ELSE ById(taken[k - 1], met[k])
           IN  new = taken[Len(met)]
    PROVE  /\ RelsKnown(r, new)
           /\ \A i \in DOMAIN met : HasRel(new, met[i].id)
           /\ \A id : HasRel(rs, id) => HasRel(new, id)
<1> DEFINE known == {taken \in Seq(RelsIn(r)) : RelsKnown(r, taken)}
<1>1. PICK n \in Nat : n = Len(met) /\ DOMAIN met = 1..n
  OBVIOUS
<1>2. rs \in known /\ \A i \in 1..n : met[i] \in RelsIn(r)
  BY <1>1 DEF RelsKnown
<1>3. \A taken \in known, i \in 1..n :
        /\ ById(taken, met[i]) \in known /\ HasRel(ById(taken, met[i]), met[i].id)
        /\ \A id : HasRel(taken, id) => HasRel(ById(taken, met[i]), id)
  BY <1>2, PutsRel DEF RelsKnown
<1> HIDE DEF known
<1>4. PICK f \in [0..n -> known] : f[0] = rs /\ \A k \in 1..n : f[k] = ById(f[k - 1], met[k])
  <2> DEFINE step == [p \in (1..n) \X known |-> ById(p[2], met[p[1]])]
  <2>1. step \in [(1..n) \X known -> known]
    BY <1>3
  <2>2. \A k \in 1..n, taken \in known : step[<<k, taken>>] = ById(taken, met[k])
    OBVIOUS
  <2> HIDE DEF step
  <2>3. PICK f \in [0..n -> known] : f[0] = rs /\ \A k \in 1..n : f[k] = step[<<k, f[k - 1]>>]
    <3>1. rs \in known
      BY <1>2
    <3>2. \E g \in [0..n -> known] : Iterates(g, n, rs, step)
      BY <1>1, <2>1, <3>1, Iterated
    <3> QED
      BY <3>2 DEF Iterates
  <2>4. \A k \in 1..n : f[k - 1] \in known
    OBVIOUS
  <2> QED
    BY <2>2, <2>3, <2>4, ZenonT(30)
<1> DEFINE body(g, k) == IF k = 0 THEN rs ELSE ById(g[k - 1], met[k])
           chosen == CHOOSE g : g = [k \in 0..Len(met) |-> body(g, k)]
<1>5. new = chosen[n]
  BY <1>1, Zenon
<1>6. \E g : g = [k \in 0..Len(met) |-> body(g, k)]
  <2>1. body(f, 0) = rs
    BY Zenon
  <2>2. \A k \in 1..n : body(f, k) = ById(f[k - 1], met[k])
    <3>1. \A k \in 1..n : k # 0
      OBVIOUS
    <3> QED
      BY <3>1, Zenon
  <2> HIDE DEF body
  <2>3. 0 \in 0..n /\ \A k \in 0..n : k = 0 \/ k \in 1..n
    OBVIOUS
  <2>4. \A k \in 0..n : f[k] = body(f, k)
    BY <1>4, <2>1, <2>2, <2>3
  <2>5. f = [k \in 0..n |-> body(f, k)]
    BY <2>4
  <2> QED
    BY <1>1, <2>5
<1>7. chosen = [k \in 0..n |-> body(chosen, k)]
  <2> HIDE DEF body
  <2> QED
    BY <1>1, <1>6
<1> HIDE DEF chosen
<1>8. chosen[0] = rs /\ \A k \in 1..n : chosen[k] = ById(chosen[k - 1], met[k])
  <2>1. body(chosen, 0) = rs
    BY Zenon
  <2>2. \A k \in 1..n : body(chosen, k) = ById(chosen[k - 1], met[k])
    <3>1. \A k \in 1..n : k # 0
      OBVIOUS
    <3> QED
      BY <3>1, Zenon
  <2> HIDE DEF body
  <2>3. 0 \in 0..n /\ \A k \in 1..n : k \in 0..n
    OBVIOUS
  <2> QED
    BY <1>7, <2>1, <2>2, <2>3
<1> HIDE DEF body
<1> DEFINE S == {k \in 0..n : /\ chosen[k] \in known
                            /\ \A i \in 1..k : HasRel(chosen[k], met[i].id)
                            /\ \A id : HasRel(rs, id) => HasRel(chosen[k], id)}
<1>9. 0 \in S
  BY <1>2, <1>8
<1>10. ASSUME NEW k \in 0..n, NEW m \in 1..n, k \in S, m = k + 1
       PROVE  m \in S
  <2>1. /\ m - 1 = k /\ m \in 0..n /\ chosen[m] = ById(chosen[k], met[m])
        /\ \A i \in 1..m : i \in 1..k \/ i = m
    BY <1>8, <1>10
  <2>2. /\ chosen[k] \in known /\ \A i \in 1..k : HasRel(chosen[k], met[i].id)
        /\ \A id : HasRel(rs, id) => HasRel(chosen[k], id)
    BY <1>10
  <2>3. /\ chosen[m] \in known /\ HasRel(chosen[m], met[m].id)
        /\ \A id : HasRel(chosen[k], id) => HasRel(chosen[m], id)
    BY <1>3, <2>1, <2>2
  <2> QED
    BY <2>1, <2>2, <2>3
<1> HIDE DEF S
<1>11. \A k \in 0..n : k \in S
  BY <1>9, <1>10, CountUp
<1>12. n \in S
  BY <1>11
<1>13. new \in known /\ \A i \in 1..n : HasRel(new, met[i].id)
  BY <1>5, <1>12 DEF S
<1>14. \A id : HasRel(rs, id) => HasRel(new, id)
  BY <1>5, <1>12 DEF S
<1>15. RelsKnown(r, new)
  BY <1>13 DEF known
<1> QED
  BY <1>1, <1>13, <1>14, <1>15

-----------------------------------------------------------------------------
\* A loop at row i and column c has passed the cell in row k and column d.
Passed(i, c, k, d) == k < i \/ (k = i /\ d < c)
RowsOf(r) == 1..Len(r.rows)
ColumnsOf(r) == 1..Len(r.columns)

LEMMA ResultShape ==
    ASSUME NEW r \in Results
    PROVE  /\ Len(r.rows) \in Nat /\ DOMAIN r.rows = RowsOf(r)
           /\ Len(r.columns) \in Nat \ {0} /\ DOMAIN r.columns = ColumnsOf(r)
<1>1. r.columns \in Seq(STRING) \ {<<>>} /\ r.rows \in Seq(ToSet(r.rows))
  BY GraphExportAssumption
<1>2. Len(r.rows) \in Nat /\ DOMAIN r.rows = RowsOf(r)
  BY <1>1 DEF RowsOf
<1>3. Len(r.columns) \in Nat \ {0} /\ DOMAIN r.columns = ColumnsOf(r)
  BY <1>1, EmptySeq DEF ColumnsOf
<1> QED
  BY <1>2, <1>3

LEMMA CellShape ==
    ASSUME NEW r \in Results, NEW k \in RowsOf(r), NEW d \in ColumnsOf(r)
    PROVE  /\ r.rows[k][d].kind \in KindsIn(r.columns[d])
           /\ r.rows[k][d] \in CellsIn(r, r.rows[k][d].kind)
<1>1. DOMAIN r.rows = RowsOf(r) /\ DOMAIN r.columns = ColumnsOf(r)
  BY ResultShape
<1>2. DOMAIN r.rows[k] = DOMAIN r.columns /\ r.rows[k][d].kind \in KindsIn(r.columns[d])
  BY <1>1, GraphExportAssumption
<1>3. r.rows[k][d] \in ToSet(r.rows[k])
  BY <1>1, <1>2 DEF ToSet
<1> QED
  BY <1>1, <1>2, <1>3 DEF CellsIn

\* A cell of a kind is in a column of its type.
LEMMA ColumnOfKind ==
    ASSUME NEW type, NEW kind \in KindsIn(type)
    PROVE  /\ kind = "node" => type = "NODE"
           /\ kind = "rel" => type = "REL"
           /\ kind = "path" => type = "RECURSIVE_REL"
<1>1. CASE type = "NODE"
  BY <1>1 DEF KindsIn
<1>2. CASE type = "REL"
  BY <1>2 DEF KindsIn
<1>3. CASE type = "RECURSIVE_REL"
  BY <1>3 DEF KindsIn
<1>4. CASE type \notin {"NODE", "REL", "RECURSIVE_REL"}
  <2>1. kind \in {"null", "other"}
    BY <1>4 DEF KindsIn
  <2> QED
    BY <2>1
<1> QED
  BY <1>1, <1>2, <1>3, <1>4

LEMMA PathShape ==
    ASSUME NEW r \in Results, NEW path \in CellsIn(r, "path")
    PROVE  path.nodes \in Seq(NodesIn(r)) /\ path.rels \in Seq(RelsIn(r))
BY GraphExportAssumption

\* The loop's next cell.
LEMMA NextPlace ==
    ASSUME result \in Results, rowIndex \in RowsOf(result), col \in ColumnsOf(result), NextCell
    PROVE  /\ rowIndex' \in 1..(Len(result.rows) + 1) /\ col' \in ColumnsOf(result)
           /\ \A k \in RowsOf(result), d \in ColumnsOf(result) :
                Passed(rowIndex', col', k, d) <=> Passed(rowIndex, col, k, d) \/ (k = rowIndex /\ d = col)
<1>1. Len(result.rows) \in Nat /\ Len(result.columns) \in Nat \ {0}
  BY ResultShape
<1>2. CASE col < Len(result.columns)
  <2>1. col' = col + 1 /\ rowIndex' = rowIndex
    BY <1>2 DEF NextCell
  <2> QED
    BY <1>1, <1>2, <2>1 DEF Passed, RowsOf, ColumnsOf
<1>3. CASE ~(col < Len(result.columns))
  <2>1. col' = 1 /\ rowIndex' = rowIndex + 1 /\ col = Len(result.columns)
    BY <1>1, <1>3 DEF NextCell, ColumnsOf
  <2> QED
    BY <1>1, <2>1 DEF Passed, RowsOf, ColumnsOf
<1> QED
  BY <1>2, <1>3

-----------------------------------------------------------------------------
GraphTyped ==
    /\ target \in {"networkx", "torch"} /\ result \in Results /\ dictRows \in BOOLEAN
    /\ phase \in {"rows", "rels", "done", "failed"}
    /\ rowIndex \in Nat \ {0} /\ col \in ColumnsOf(result) /\ prop \in Nat
    /\ rels \in Seq(RelsIn(result))
    /\ phase = "rows" => rowIndex <= Len(result.rows) + 1
    /\ phase = "rels" => rowIndex <= Len(rels) + 1
    /\ rowIndex <= Len(result.rows) + 1 \/ rowIndex <= Len(rels) + 1

\* networkx has taken what is in a cell.
NxMet(cell, ns, rs) ==
    /\ cell.kind = "node" => Internal(cell) \in DOMAIN ns
    /\ cell.kind = "rel" => HasRel(rs, cell.id)
    /\ cell.kind = "path" =>
         /\ \A i \in DOMAIN cell.nodes : Internal(cell.nodes[i]) \in DOMAIN ns
         /\ \A i \in DOMAIN cell.rels : HasRel(rs, cell.rels[i].id)

NxPassed(r, i, c, ns, rs) ==
    \A k \in RowsOf(r), d \in ColumnsOf(r) : Passed(i, c, k, d) => NxMet(r.rows[k][d], ns, rs)

NxTaken ==
    /\ NodesKnown(result, nodes) /\ RelsKnown(result, rels)
    /\ phase = "rows" => NxPassed(result, rowIndex, col, nodes, rels)
    /\ phase \in {"rels", "done"} => NxPassed(result, Len(result.rows) + 1, 1, nodes, rels)
    /\ NetworkxComplete

TorchIdle ==
    prop = 0 /\ pos = -1 /\ nodesDict = Empty /\ unconverted = Empty /\ position = Empty
NxInv == target = "networkx" => NxTaken /\ TorchIdle

LEMMA NxMetMore ==
    ASSUME NEW cell, NEW ns, NEW rs, NEW ns2, NEW rs2, NxMet(cell, ns, rs),
           DOMAIN ns \subseteq DOMAIN ns2, \A id : HasRel(rs, id) => HasRel(rs2, id)
    PROVE  NxMet(cell, ns2, rs2)
BY DEF NxMet

\* A step of the loop that takes what is in its cell.
LEMMA NxPassesOne ==
    ASSUME GraphTyped, target = "networkx", NxTaken, phase = "rows", rowIndex <= Len(result.rows),
           NextCell, NEW ns, NEW rs, DOMAIN nodes \subseteq DOMAIN ns,
           \A id : HasRel(rels, id) => HasRel(rs, id),
           NxMet(result.rows[rowIndex][col], ns, rs)
    PROVE  NxPassed(result, rowIndex', col', ns, rs)
<1>1. result \in Results /\ rowIndex \in RowsOf(result) /\ col \in ColumnsOf(result)
  <2>1. result \in Results /\ rowIndex \in Nat \ {0} /\ col \in ColumnsOf(result)
    BY DEF GraphTyped
  <2>2. Len(result.rows) \in Nat
    BY <2>1, ResultShape
  <2> QED
    BY <2>1, <2>2 DEF RowsOf
<1>2. ASSUME NEW k \in RowsOf(result), NEW d \in ColumnsOf(result), Passed(rowIndex', col', k, d)
      PROVE  NxMet(result.rows[k][d], ns, rs)
  <2>1. Passed(rowIndex, col, k, d) \/ (k = rowIndex /\ d = col)
    BY <1>1, <1>2, NextPlace
  <2>2. CASE Passed(rowIndex, col, k, d)
    <3>1. NxMet(result.rows[k][d], nodes, rels)
      BY <2>2 DEF NxTaken, NxPassed
    <3> QED
      BY <3>1, NxMetMore
  <2>3. CASE k = rowIndex /\ d = col
    BY <2>3
  <2> QED
    BY <2>1, <2>2, <2>3
<1> QED
  BY <1>2 DEF NxPassed

-----------------------------------------------------------------------------

LEMMA CellPlace ==
    ASSUME NEW r \in Results, NEW kind, NEW cell \in CellsIn(r, kind)
    PROVE  \E k \in RowsOf(r), d \in ColumnsOf(r) : cell = r.rows[k][d] /\ cell.kind = kind
<1>1. DOMAIN r.rows = RowsOf(r) /\ DOMAIN r.columns = ColumnsOf(r)
  BY ResultShape
<1>2. PICK k \in RowsOf(r) : cell \in ToSet(r.rows[k])
  BY <1>1 DEF CellsIn
<1>3. PICK d \in DOMAIN r.rows[k] : cell = r.rows[k][d]
  BY <1>2 DEF ToSet
<1>4. DOMAIN r.rows[k] = ColumnsOf(r)
  BY <1>1, GraphExportAssumption
<1> QED
  BY <1>3, <1>4 DEF CellsIn

\* When the loop has passed all cells networkx has all nodes and rels.
LEMMA NxHasAll ==
    ASSUME result \in Results, NxPassed(result, Len(result.rows) + 1, 1, nodes, rels)
    PROVE  /\ \A n \in NodesIn(result) : Internal(n) \in DOMAIN nodes
           /\ \A s \in RelsIn(result) : HasRel(rels, s.id)
<1>1. Len(result.rows) \in Nat
  BY ResultShape
<1>2. \A k \in RowsOf(result), d \in ColumnsOf(result) : NxMet(result.rows[k][d], nodes, rels)
  BY <1>1 DEF NxPassed, Passed, RowsOf
<1>3. \A kind : \A cell \in CellsIn(result, kind) : NxMet(cell, nodes, rels) /\ cell.kind = kind
  BY <1>2, CellPlace
<1>4. ASSUME NEW n \in NodesIn(result)
      PROVE  Internal(n) \in DOMAIN nodes
  <2>1. CASE n \in CellsIn(result, "node")
    BY <1>3, <2>1 DEF NxMet
  <2>2. ASSUME NEW path \in CellsIn(result, "path"), n \in ToSet(path.nodes)
        PROVE  Internal(n) \in DOMAIN nodes
    <3>1. PICK i \in DOMAIN path.nodes : n = path.nodes[i]
      BY <2>2 DEF ToSet
    <3> QED
      BY <1>3, <3>1 DEF NxMet
  <2> QED
    BY <2>1, <2>2 DEF NodesIn
<1>5. ASSUME NEW s \in RelsIn(result)
      PROVE  HasRel(rels, s.id)
  <2>1. CASE s \in CellsIn(result, "rel")
    BY <1>3, <2>1 DEF NxMet
  <2>2. ASSUME NEW path \in CellsIn(result, "path"), s \in ToSet(path.rels)
        PROVE  HasRel(rels, s.id)
    <3>1. PICK i \in DOMAIN path.rels : s = path.rels[i]
      BY <2>2 DEF ToSet
    <3> QED
      BY <1>3, <3>1 DEF NxMet
  <2> QED
    BY <2>1, <2>2 DEF RelsIn
<1> QED
  BY <1>4, <1>5

\* One rel of each id.
LEMMA RelsOnce ==
    ASSUME NEW r, NEW rs, RelsKnown(r, rs), \A s \in RelsIn(r) : HasRel(rs, s.id)
    PROVE  Len(rs) = Cardinality({s.id : s \in RelsIn(r)})
<1> DEFINE ids == {s.id : s \in RelsIn(r)}
           f == [i \in 1..Len(rs) |-> rs[i].id]
<1>1. Len(rs) \in Nat /\ DOMAIN rs = 1..Len(rs) /\ \A i \in 1..Len(rs) : rs[i] \in RelsIn(r)
  BY DEF RelsKnown
<1>2. f \in [1..Len(rs) -> ids]
  BY <1>1
<1>3. \A i \in 1..Len(rs) : f[i] = rs[i].id
  OBVIOUS
<1> HIDE DEF f
<1>4. \A i, j \in 1..Len(rs) : f[i] = f[j] => i = j
  BY <1>1, <1>3 DEF RelsKnown
<1>5. \A id \in ids : \E i \in 1..Len(rs) : f[i] = id
  BY <1>1, <1>3 DEF HasRel
<1> HIDE DEF ids
<1>6. f \in Bijection(1..Len(rs), ids)
  BY <1>2, <1>4, <1>5 DEF Bijection, Injection, Surjection, IsInjective
<1>7. ExistsBijection(1..Len(rs), ids)
  BY <1>6 DEF ExistsBijection
<1>8. Cardinality(ids) = Len(rs)
  BY <1>1, <1>7, FS_CountingElements
<1> QED
  BY <1>8 DEF ids

\* The names of nodes with the ids of the result's nodes are those of its nodes.
LEMMA NamesAll ==
    ASSUME NEW r \in Results, NEW ns, NodesKnown(r, ns),
           \A n \in NodesIn(r) : Internal(n) \in DOMAIN ns
    PROVE  {Name(ns[id]) : id \in DOMAIN ns} = {Name(n) : n \in NodesIn(r)}
<1>1. ASSUME NEW id \in DOMAIN ns
      PROVE  ns[id] \in NodesIn(r)
  BY DEF NodesKnown
<1>2. ASSUME NEW n \in NodesIn(r)
      PROVE  \E id \in DOMAIN ns : Name(ns[id]) = Name(n)
  <2>1. Internal(n) \in DOMAIN ns
    OBVIOUS
  <2>2. ns[Internal(n)] \in NodesIn(r) /\ Internal(ns[Internal(n)]) = Internal(n)
    BY <2>1 DEF NodesKnown
  <2>3. Name(ns[Internal(n)]) = Name(n)
    BY <2>2, GraphExportAssumption
  <2> QED
    BY <2>1, <2>3
<1> QED
  BY <1>1, <1>2

\* The graph that networkx gets of them has it all.
NxGraphOf(ns, rs) ==
    <<"graph", {Name(ns[id]) : id \in DOMAIN ns},
      [i \in DOMAIN rs |-> <<Name(ns[rs[i].src]), Name(ns[rs[i].dst]), rs[i]>>]>>
NxWhole(g) ==
    /\ g[2] = {Name(n) : n \in AllNodes}
    /\ Len(g[3]) = Cardinality({r.id : r \in AllRels})
    /\ \A r \in AllRels : \E i \in DOMAIN g[3] :
         /\ g[3][i][3].id = r.id
         /\ \E a, b \in AllNodes :
              /\ Internal(a) = r.src /\ Internal(b) = r.dst
              /\ g[3][i][1] = Name(a) /\ g[3][i][2] = Name(b)

LEMMA NxGraphWhole ==
    ASSUME GraphTyped, target = "networkx", NxTaken, phase = "rels",
           \A i \in DOMAIN rels : {rels[i].src, rels[i].dst} \subseteq DOMAIN nodes,
           NEW g, g = NxGraphOf(nodes, rels)
    PROVE  NxWhole(g)
<1>1. result \in Results /\ NodesKnown(result, nodes) /\ RelsKnown(result, rels)
  BY DEF GraphTyped, NxTaken
<1>2. /\ \A n \in NodesIn(result) : Internal(n) \in DOMAIN nodes
      /\ \A s \in RelsIn(result) : HasRel(rels, s.id)
  <2>1. NxPassed(result, Len(result.rows) + 1, 1, nodes, rels)
    BY DEF NxTaken
  <2> QED
    BY <1>1, <2>1, NxHasAll
<1>3. g[2] = {Name(n) : n \in AllNodes}
  <2>1. g[2] = {Name(nodes[id]) : id \in DOMAIN nodes}
    BY DEF NxGraphOf
  <2> QED
    BY <1>1, <1>2, <2>1, NamesAll DEF AllNodes
<1>4. PICK edgesOf : edgesOf = [i \in DOMAIN rels |->
                     <<Name(nodes[rels[i].src]), Name(nodes[rels[i].dst]), rels[i]>>]
  OBVIOUS
<1>5. g[3] = edgesOf
  BY <1>4 DEF NxGraphOf
<1>6. DOMAIN edgesOf = DOMAIN rels /\ Len(rels) \in Nat /\ DOMAIN rels = 1..Len(rels)
  BY <1>1, <1>4 DEF RelsKnown
<1>7. Len(edgesOf) = Len(rels)
  BY <1>4, <1>6
<1>8. Len(rels) = Cardinality({s.id : s \in RelsIn(result)})
  BY <1>1, <1>2, RelsOnce
<1>9. ASSUME NEW r \in AllRels
      PROVE  \E i \in DOMAIN g[3] :
                /\ g[3][i][3].id = r.id
                /\ \E a, b \in AllNodes :
                     /\ Internal(a) = r.src /\ Internal(b) = r.dst
                     /\ g[3][i][1] = Name(a) /\ g[3][i][2] = Name(b)
  <2>1. PICK i \in DOMAIN rels : rels[i].id = r.id
    BY <1>2 DEF HasRel, AllRels
  <2>2. edgesOf[i] = <<Name(nodes[rels[i].src]), Name(nodes[rels[i].dst]), rels[i]>>
    BY <1>4
  <2>3. rels[i] \in RelsIn(result) /\ r \in RelsIn(result)
    BY <1>1, <1>6 DEF RelsKnown, AllRels
  <2>4. rels[i].src = r.src /\ rels[i].dst = r.dst
    BY <1>1, <2>1, <2>3, GraphExportAssumption
  <2>5. r.src \in DOMAIN nodes /\ r.dst \in DOMAIN nodes
    BY <2>4
  <2>6. /\ nodes[r.src] \in AllNodes /\ Internal(nodes[r.src]) = r.src
        /\ nodes[r.dst] \in AllNodes /\ Internal(nodes[r.dst]) = r.dst
    BY <1>1, <2>5 DEF NodesKnown, AllNodes
  <2>7. /\ edgesOf[i][1] = Name(nodes[r.src]) /\ edgesOf[i][2] = Name(nodes[r.dst])
        /\ edgesOf[i][3].id = r.id
    BY <2>1, <2>2, <2>4
  <2> QED
    BY <1>5, <1>6, <2>6, <2>7
<1> QED
  BY <1>3, <1>5, <1>7, <1>8, <1>9 DEF AllRels, NxWhole

-----------------------------------------------------------------------------
LEMMA AtRow ==
    ASSUME GraphTyped, rowIndex <= Len(Rows)
    PROVE  /\ rowIndex \in RowsOf(result) /\ col \in ColumnsOf(result) /\ result \in Results
           /\ Rows = result.rows /\ Cell = result.rows[rowIndex][col]
           /\ Cell.kind \in KindsIn(result.columns[col]) /\ Cell \in CellsIn(result, Cell.kind)
<1>1. result \in Results /\ rowIndex \in Nat \ {0} /\ col \in ColumnsOf(result)
  BY DEF GraphTyped
<1>2. Len(result.rows) \in Nat
  BY <1>1, ResultShape
<1>3. rowIndex \in RowsOf(result) /\ Rows = result.rows /\ Cell = result.rows[rowIndex][col]
  BY <1>1, <1>2 DEF RowsOf, Rows, Cell
<1> QED
  BY <1>1, <1>3, CellShape

\* A step of the loop over cells.
LEMMA LoopTyped ==
    ASSUME GraphTyped, phase = "rows", rowIndex <= Len(Rows), NextCell,
           UNCHANGED <<target, result, dictRows, phase>>, prop' \in Nat,
           rels' \in Seq(RelsIn(result))
    PROVE  GraphTyped'
<1>1. rowIndex \in RowsOf(result) /\ col \in ColumnsOf(result) /\ result \in Results
  BY AtRow
<1>2. rowIndex' \in 1..(Len(result.rows) + 1) /\ col' \in ColumnsOf(result)
  BY <1>1, NextPlace
<1>3. Len(result.rows) \in Nat
  BY <1>1, ResultShape
<1>4. rowIndex' \in Nat \ {0} /\ rowIndex' <= Len(result.rows) + 1
  BY <1>2, <1>3
<1>5. ColumnsOf(result)' = ColumnsOf(result) /\ RelsIn(result)' = RelsIn(result)
  BY DEF ColumnsOf, RelsIn, CellsIn
<1> QED
  BY <1>2, <1>4, <1>5 DEF GraphTyped

\* A step that leaves the loop where it is, or ends it.
LEMMA StayTyped ==
    ASSUME GraphTyped, UNCHANGED <<target, result, dictRows, rowIndex, col, rels>>,
           phase' \in {phase, "done", "failed"}, prop' \in Nat
    PROVE  GraphTyped'
<1>1. ColumnsOf(result)' = ColumnsOf(result) /\ RelsIn(result)' = RelsIn(result)
  BY DEF ColumnsOf, RelsIn, CellsIn
<1> QED
  BY <1>1 DEF GraphTyped

LEMMA FailTyped ==
    ASSUME GraphTyped, NEW e, FailExport(e)
    PROVE  GraphTyped' /\ phase' = "failed"
<1>1. prop \in Nat
  BY DEF GraphTyped
<1> QED
  BY <1>1, StayTyped DEF FailExport

LEMMA RowsDoneTyped ==
    ASSUME GraphTyped, RowsDone
    PROVE  GraphTyped'
<1>1. ColumnsOf(result)' = ColumnsOf(result) /\ RelsIn(result)' = RelsIn(result)
  BY DEF ColumnsOf, RelsIn, CellsIn, RowsDone
<1>2. result \in Results /\ Len(rels) \in Nat
  BY DEF GraphTyped
<1>3. Len(result.rows) \in Nat
  BY <1>2, ResultShape
<1> QED
  BY <1>1, <1>2, <1>3 DEF GraphTyped, RowsDone

-----------------------------------------------------------------------------
\* networkx takes a cell.
LEMMA NxTakesOne ==
    ASSUME GraphTyped, target = "networkx", NxTaken, phase = "rows", rowIndex <= Len(Rows),
           NextCell, UNCHANGED <<target, result, dictRows, phase, prop>>,
           NodesKnown(result, nodes'), RelsKnown(result, rels'),
           DOMAIN nodes \subseteq DOMAIN nodes', \A id : HasRel(rels, id) => HasRel(rels', id),
           NxMet(Cell, nodes', rels')
    PROVE  GraphTyped' /\ NxTaken'
<1>1. Rows = result.rows /\ Cell = result.rows[rowIndex][col]
  BY AtRow
<1>2. PICK ns, rs : ns = nodes' /\ rs = rels'
  OBVIOUS
<1>3. NxPassed(result, rowIndex', col', ns, rs)
  BY <1>1, <1>2, NxPassesOne
<1>4. (NodesKnown(result, nodes) /\ RelsKnown(result, rels))'
  BY DEF NodesKnown, RelsKnown, NodesIn, RelsIn, CellsIn
<1>5. (NxPassed(result, rowIndex, col, nodes, rels))'
  BY <1>2, <1>3 DEF NxPassed, RowsOf, ColumnsOf, Passed, NxMet, HasRel
<1>6. NetworkxComplete'
  BY DEF NetworkxComplete, Done
<1>7. NxTaken'
  BY <1>4, <1>5, <1>6 DEF NxTaken
<1>8. prop \in Nat /\ rels' \in Seq(RelsIn(result))
  BY DEF GraphTyped, RelsKnown
<1>9. GraphTyped'
  BY <1>8, LoopTyped
<1> QED
  BY <1>7, <1>9

\* It passes one that has nothing to be taken.
LEMMA NxPasses ==
    ASSUME GraphTyped, target = "networkx", NxTaken, phase = "rows", rowIndex <= Len(Rows),
           NextCell, UNCHANGED <<target, result, dictRows, phase, prop, nodes, rels>>,
           Cell.kind \notin {"node", "rel", "path"}
    PROVE  GraphTyped' /\ NxTaken'
<1>1. NodesKnown(result, nodes) /\ RelsKnown(result, rels)
  BY DEF NxTaken
<1>2. NxMet(Cell, nodes, rels)
  BY DEF NxMet
<1>3. nodes' = nodes /\ rels' = rels
  OBVIOUS
<1>4. NodesKnown(result, nodes') /\ RelsKnown(result, rels') /\ NxMet(Cell, nodes', rels')
  BY <1>1, <1>2, <1>3
<1>5. DOMAIN nodes \subseteq DOMAIN nodes' /\ \A id : HasRel(rels, id) => HasRel(rels', id)
  BY <1>3
<1> QED
  BY <1>4, <1>5, NxTakesOne

\* It ends.
LEMMA NxFails ==
    ASSUME GraphTyped, target = "networkx", NxTaken, NEW e, FailExport(e)
    PROVE  GraphTyped' /\ NxTaken'
<1>1. GraphTyped' /\ phase' = "failed"
  BY FailTyped
<1>2. NetworkxComplete'
  BY <1>1 DEF NetworkxComplete, Done
<1>3. (NodesKnown(result, nodes) /\ RelsKnown(result, rels))'
  <2>1. NodesKnown(result, nodes) /\ RelsKnown(result, rels)
    BY DEF NxTaken
  <2>2. UNCHANGED <<result, nodes, rels>>
    BY DEF FailExport
  <2> QED
    BY <2>1, <2>2 DEF NodesKnown, RelsKnown, NodesIn, RelsIn, CellsIn
<1> QED
  BY <1>1, <1>2, <1>3 DEF NxTaken

LEMMA NxTakeNode ==
    ASSUME GraphTyped, target = "networkx", NxTaken, TakeNxNode
    PROVE  GraphTyped' /\ NxTaken'
<1>1. /\ phase = "rows" /\ rowIndex <= Len(Rows) /\ Cell.kind = "node" /\ NextCell
      /\ nodes' = PutNodes(nodes, <<Cell>>)
      /\ UNCHANGED <<target, result, dictRows, phase, prop, rels>>
  BY DEF TakeNxNode, AtCell, Node, Constant
<1>2. Cell \in NodesIn(result)
  BY <1>1, AtRow DEF NodesIn
<1>3. NodesKnown(result, nodes) /\ RelsKnown(result, rels)
  BY DEF NxTaken
<1>4. PICK met : met = <<Cell>>
  OBVIOUS
<1>5. met \in Seq(NodesIn(result)) /\ 1 \in DOMAIN met /\ met[1] = Cell
  BY <1>2, <1>4
<1>6. /\ NodesKnown(result, nodes') /\ DOMAIN nodes \subseteq DOMAIN nodes'
      /\ Internal(Cell) \in DOMAIN nodes'
  <2>1. nodes' = PutNodes(nodes, met)
    BY <1>1, <1>4
  <2> QED
    BY <1>3, <1>5, <2>1, PutsNodes
<1>7. NxMet(Cell, nodes', rels')
  BY <1>1, <1>6 DEF NxMet
<1>8. RelsKnown(result, rels') /\ \A id : HasRel(rels, id) => HasRel(rels', id)
  BY <1>1, <1>3
<1> QED
  BY <1>1, <1>6, <1>7, <1>8, NxTakesOne

LEMMA NxTakeRel ==
    ASSUME GraphTyped, target = "networkx", NxTaken, TakeNxRel
    PROVE  GraphTyped' /\ NxTaken'
<1>1. /\ phase = "rows" /\ rowIndex <= Len(Rows) /\ Cell.kind = "rel" /\ NextCell
      /\ rels' = ById(rels, Cell)
      /\ UNCHANGED <<target, result, dictRows, phase, prop, nodes>>
  BY DEF TakeNxRel, AtCell, Constant
<1>2. Cell \in RelsIn(result)
  BY <1>1, AtRow DEF RelsIn
<1>3. NodesKnown(result, nodes) /\ RelsKnown(result, rels)
  BY DEF NxTaken
<1>4. /\ RelsKnown(result, rels') /\ HasRel(rels', Cell.id)
      /\ \A id : HasRel(rels, id) => HasRel(rels', id)
  BY <1>1, <1>2, <1>3, PutsRel
<1>5. NxMet(Cell, nodes', rels')
  BY <1>1, <1>4 DEF NxMet
<1>6. NodesKnown(result, nodes') /\ DOMAIN nodes \subseteq DOMAIN nodes'
  BY <1>1, <1>3
<1> QED
  BY <1>1, <1>4, <1>5, <1>6, NxTakesOne

LEMMA NxTakePath ==
    ASSUME GraphTyped, target = "networkx", NxTaken, TakePath
    PROVE  GraphTyped' /\ NxTaken'
<1>1. /\ phase = "rows" /\ rowIndex <= Len(Rows) /\ Cell.kind = "path" /\ NextCell
      /\ nodes' = PutNodes(nodes, Cell.nodes)
      /\ UNCHANGED <<target, result, dictRows, phase, prop>>
  BY DEF TakePath, AtCell, Constant
<1>2. result \in Results /\ Cell \in CellsIn(result, "path")
  BY <1>1, AtRow
<1>3. PICK ns, rs : ns = Cell.nodes /\ rs = Cell.rels
  OBVIOUS
<1>4. ns \in Seq(NodesIn(result)) /\ rs \in Seq(RelsIn(result))
  BY <1>2, <1>3, PathShape
<1>5. NodesKnown(result, nodes) /\ RelsKnown(result, rels)
  BY DEF NxTaken
<1>6. /\ NodesKnown(result, nodes') /\ DOMAIN nodes \subseteq DOMAIN nodes'
      /\ \A i \in DOMAIN ns : Internal(ns[i]) \in DOMAIN nodes'
  BY <1>1, <1>3, <1>4, <1>5, PutsNodes
<1>7. LET taken[k \in 0..Len(rs)] == IF k = 0 THEN rels ELSE ById(taken[k - 1], rs[k])
      IN  rels' = taken[Len(rs)]
  BY <1>3, Zenon DEF TakePath
<1>8. PICK new : new = rels'
  OBVIOUS
<1>9. LET taken[k \in 0..Len(rs)] == IF k = 0 THEN rels ELSE ById(taken[k - 1], rs[k])
      IN  new = taken[Len(rs)]
  BY <1>7, <1>8, Zenon
<1>10. /\ RelsKnown(result, new) /\ \A i \in DOMAIN rs : HasRel(new, rs[i].id)
       /\ \A id : HasRel(rels, id) => HasRel(new, id)
  BY <1>4, <1>5, <1>9, PutsRels
<1>11. NxMet(Cell, nodes', new)
  BY <1>1, <1>3, <1>6, <1>10 DEF NxMet
<1> QED
  BY <1>1, <1>6, <1>8, <1>10, <1>11, NxTakesOne

-----------------------------------------------------------------------------

\* When networkx has gone through the rows.
LEMMA NxRowsDone ==
    ASSUME GraphTyped, target = "networkx", NxTaken, RowsDone
    PROVE  GraphTyped' /\ NxTaken'
<1>1. GraphTyped'
  BY RowsDoneTyped
<1>2. /\ phase = "rows" /\ rowIndex > Len(Rows) /\ phase' = "rels"
      /\ UNCHANGED <<target, result, nodes, rels>>
  BY DEF RowsDone
<1>3. NodesKnown(result, nodes) /\ RelsKnown(result, rels) /\ NxPassed(result, rowIndex, col, nodes, rels)
  BY <1>2 DEF NxTaken
<1>4. result \in Results /\ rowIndex \in Nat \ {0} /\ Len(result.rows) \in Nat
  BY ResultShape DEF GraphTyped
<1>5. NxPassed(result, Len(result.rows) + 1, 1, nodes, rels)
  <2>1. \A k \in RowsOf(result), d \in ColumnsOf(result) : Passed(rowIndex, col, k, d)
    BY <1>2, <1>4 DEF RowsOf, Passed, Rows
  <2> QED
    BY <1>3, <2>1 DEF NxPassed
<1>6. (NodesKnown(result, nodes) /\ RelsKnown(result, rels))'
  BY <1>2, <1>3 DEF NodesKnown, RelsKnown, NodesIn, RelsIn, CellsIn
<1>7. (NxPassed(result, Len(result.rows) + 1, 1, nodes, rels))'
  BY <1>2, <1>5, SMTT(30) DEF NxPassed, RowsOf, ColumnsOf, Passed, NxMet, HasRel
<1>8. NetworkxComplete'
  BY <1>2 DEF NetworkxComplete, Done
<1> QED
  BY <1>1, <1>2, <1>6, <1>7, <1>8 DEF NxTaken

\* The graph that networkx gets.
LEMMA NxReturns ==
    ASSUME GraphTyped, target = "networkx", NxTaken, NxGraph
    PROVE  GraphTyped' /\ NxTaken'
<1>1. /\ phase = "rels" /\ phase' = "done"
      /\ \A i \in DOMAIN rels : {rels[i].src, rels[i].dst} \subseteq DOMAIN nodes
      /\ UNCHANGED <<target, result, dictRows, rowIndex, col, prop, nodes, rels>>
  BY DEF NxGraph, Constant
<1>2. graph' = NxGraphOf(nodes, rels)
  BY DEF NxGraph, NxGraphOf
<1>3. prop \in Nat
  BY DEF GraphTyped
<1>4. GraphTyped'
  BY <1>1, <1>3, StayTyped
<1>5. NodesKnown(result, nodes) /\ RelsKnown(result, rels) /\ NxPassed(result, Len(result.rows) + 1, 1, nodes, rels)
  BY <1>1 DEF NxTaken
<1>6. (NodesKnown(result, nodes) /\ RelsKnown(result, rels))'
  BY <1>1, <1>5 DEF NodesKnown, RelsKnown, NodesIn, RelsIn, CellsIn
<1>7. (NxPassed(result, Len(result.rows) + 1, 1, nodes, rels))'
  BY <1>1, <1>5 DEF NxPassed, RowsOf, ColumnsOf, Passed, NxMet, HasRel
<1>8. PICK g : g = graph'
  OBVIOUS
<1>9. NxWhole(g)
  BY <1>1, <1>2, <1>8, NxGraphWhole
<1>10. AllNodes' = AllNodes /\ AllRels' = AllRels
  BY <1>1 DEF AllNodes, AllRels, NodesIn, RelsIn, CellsIn
<1>11. NetworkxComplete'
  BY <1>8, <1>9, <1>10 DEF NetworkxComplete, NxWhole
<1> QED
  BY <1>1, <1>4, <1>6, <1>7, <1>11 DEF NxTaken

LEMMA NxPassesOther ==
    ASSUME GraphTyped, target = "networkx", NxTaken, OtherCell
    PROVE  GraphTyped' /\ NxTaken'
<1>1. /\ phase = "rows" /\ rowIndex <= Len(Rows) /\ ~IsGraphColumn(col) /\ NextCell
      /\ UNCHANGED <<target, result, dictRows, phase, prop, nodes, rels>>
  BY DEF OtherCell
<1>2. Cell.kind \in KindsIn(result.columns[col])
  BY <1>1, AtRow
<1>3. PICK kind, type : kind = Cell.kind /\ type = result.columns[col]
  OBVIOUS
<1>4. kind \in KindsIn(type) /\ type \notin {"NODE", "REL", "RECURSIVE_REL"}
  BY <1>1, <1>2, <1>3 DEF IsGraphColumn
<1>5. kind \notin {"node", "rel", "path"}
  BY <1>4, ColumnOfKind
<1> QED
  BY <1>1, <1>3, <1>5, NxPasses

LEMMA NxPassesNull ==
    ASSUME GraphTyped, target = "networkx", NxTaken, SkipNull
    PROVE  GraphTyped' /\ NxTaken'
<1>1. /\ phase = "rows" /\ rowIndex <= Len(Rows) /\ Cell.kind = "null" /\ NextCell
      /\ UNCHANGED <<target, result, dictRows, phase, prop, nodes, rels>>
  BY DEF SkipNull, AtCell
<1>2. Cell.kind \notin {"node", "rel", "path"}
  BY <1>1
<1> QED
  BY <1>1, <1>2, NxPasses

LEMMA NxStep ==
    ASSUME GraphTyped, target = "networkx", NxTaken, TorchIdle, GraphNext
    PROVE  GraphTyped' /\ NxTaken' /\ TorchIdle' /\ target' = "networkx"
<1>1. prop = 0 /\ target # "torch"
  BY DEF TorchIdle
<1>2. \/ OtherCell \/ DictRow \/ SkipNull \/ RowsDone
      \/ TakeNxNode \/ TakeNxRel \/ TakePath \/ NxGraph \/ NxEndMissing
  BY <1>1 DEF GraphNext, FailNull, SeenNode, NewNode, AlreadyUnconverted, Unconvertible, Convertible,
              AtProperty, EndNode, TakeRel, AddEdge, EndMissing, TorchGraph
<1>3. UNCHANGED <<target, prop, torchVars>>
  BY <1>2 DEF OtherCell, DictRow, SkipNull, RowsDone, TakeNxNode, TakeNxRel, TakePath, NxGraph,
              NxEndMissing, FailExport, Constant
<1>4. TorchIdle' /\ target' = "networkx"
  BY <1>3 DEF TorchIdle, torchVars, Empty
<1>5. GraphTyped' /\ NxTaken'
  <2>1. CASE OtherCell
    BY <2>1, NxPassesOther
  <2>2. CASE DictRow
    BY <2>2, NxFails DEF DictRow
  <2>3. CASE SkipNull
    BY <2>3, NxPassesNull
  <2>4. CASE RowsDone
    BY <2>4, NxRowsDone
  <2>5. CASE TakeNxNode
    BY <2>5, NxTakeNode
  <2>6. CASE TakeNxRel
    BY <2>6, NxTakeRel
  <2>7. CASE TakePath
    BY <2>7, NxTakePath
  <2>8. CASE NxGraph
    BY <2>8, NxReturns
  <2>9. CASE NxEndMissing
    BY <2>9, NxFails DEF NxEndMissing
  <2> QED
    BY <1>2, <2>1, <2>2, <2>3, <2>4, <2>5, <2>6, <2>7, <2>8, <2>9
<1> QED
  BY <1>4, <1>5

-----------------------------------------------------------------------------
\* What is stored of a property of a node, and in which list.
StoredOf(n, name) == <<Internal(n), n.values[name]>>
StoredIn(r) == {StoredOf(n, name) : n \in CellsIn(r, "node"), name \in STRING}
Listed(nd, un, column) == IF column \in DOMAIN nd THEN nd[column] ELSE ListAt(un, column)
IdsOf(ps, label) == {id \in DOMAIN ps : id[1] = label}

\* Each node has a position below the number of nodes of its label.
PositionsKnown(r, ps) ==
    /\ IsFiniteSet(DOMAIN ps)
    /\ \A id \in DOMAIN ps :
         /\ ps[id] \in Nat /\ ps[id] < Cardinality(IdsOf(ps, id[1]))
         /\ \E n \in CellsIn(r, "node") : Internal(n) = id

\* A property's list has an entry for each of the label's nodes, at its position.
AtPlaces(r, list, ps, label, name) ==
    \A n \in CellsIn(r, "node") :
        Internal(n) \in DOMAIN ps /\ n.label = label => list[ps[Internal(n)] + 1] = StoredOf(n, name)
Holds(r, list, ps, label, name) ==
    /\ list \in Seq(StoredIn(r)) /\ Len(list) = Cardinality(IdsOf(ps, label))
    /\ AtPlaces(r, list, ps, label, name)
\* And one for a node that has no position yet.
HoldsAlso(r, list, ps, label, name, node) ==
    /\ list \in Seq(StoredIn(r)) /\ Len(list) = Cardinality(IdsOf(ps, label)) + 1
    /\ AtPlaces(r, list, ps, label, name)
    /\ list[Cardinality(IdsOf(ps, label)) + 1] = StoredOf(node, name)

LEMMA IdsFinite ==
    ASSUME NEW ps, IsFiniteSet(DOMAIN ps), NEW label
    PROVE  /\ IsFiniteSet(IdsOf(ps, label)) /\ Cardinality(IdsOf(ps, label)) \in Nat
           /\ Cardinality(DOMAIN ps) \in Nat
           /\ Cardinality(IdsOf(ps, label)) <= Cardinality(DOMAIN ps)
<1>1. IdsOf(ps, label) \subseteq DOMAIN ps
  BY DEF IdsOf
<1>2. /\ IsFiniteSet(IdsOf(ps, label)) /\ Cardinality(IdsOf(ps, label)) <= Cardinality(DOMAIN ps)
  BY <1>1, FS_Subset
<1> QED
  BY <1>2, FS_CardinalityType

LEMMA SetShape ==
    ASSUME NEW f, NEW x, NEW value
    PROVE  /\ DOMAIN Set(f, x, value) = DOMAIN f \cup {x} /\ Set(f, x, value)[x] = value
           /\ \A y \in DOMAIN f : y # x => Set(f, x, value)[y] = f[y]
BY DEF Set

\* The node underway is listed.
LEMMA ListedAlso ==
    ASSUME NEW r, NEW list, NEW ps, NEW label, NEW name \in STRING, NEW node \in CellsIn(r, "node"),
           PositionsKnown(r, ps), Holds(r, list, ps, label, name)
    PROVE  HoldsAlso(r, Append(list, StoredOf(node, name)), ps, label, name, node)
<1>1. PICK new, e, n : new = Append(list, e) /\ e = StoredOf(node, name) /\ n = Cardinality(IdsOf(ps, label))
  OBVIOUS
<1>2. n \in Nat
  BY <1>1, IdsFinite DEF PositionsKnown
<1>3. e \in StoredIn(r) /\ list \in Seq(StoredIn(r)) /\ Len(list) = n
  BY <1>1 DEF StoredIn, Holds
<1>4. /\ new \in Seq(StoredIn(r)) /\ Len(new) = n + 1 /\ new[n + 1] = e
      /\ \A i \in 1..n : new[i] = list[i]
  BY <1>1, <1>3, AppendEntries
<1>5. ASSUME NEW m \in CellsIn(r, "node"), Internal(m) \in DOMAIN ps, m.label = label
      PROVE  new[ps[Internal(m)] + 1] = StoredOf(m, name)
  <2>1. Internal(m)[1] = label
    BY <1>5 DEF Internal
  <2>2. ps[Internal(m)] \in Nat /\ ps[Internal(m)] < n
    BY <1>1, <1>5, <2>1 DEF PositionsKnown
  <2>3. ps[Internal(m)] + 1 \in 1..n
    BY <1>2, <2>2
  <2>4. list[ps[Internal(m)] + 1] = StoredOf(m, name)
    BY <1>5 DEF Holds, AtPlaces
  <2> QED
    BY <1>4, <2>3, <2>4
<1>6. AtPlaces(r, new, ps, label, name)
  BY <1>5 DEF AtPlaces
<1> QED
  BY <1>1, <1>4, <1>6 DEF HoldsAlso

\* One more position.
LEMMA IdsPlaced ==
    ASSUME NEW ps, IsFiniteSet(DOMAIN ps), NEW id, id \notin DOMAIN ps, NEW pl, NEW label
    PROVE  Cardinality(IdsOf(Set(ps, id, pl), label))
             = IF id[1] = label THEN Cardinality(IdsOf(ps, label)) + 1 ELSE Cardinality(IdsOf(ps, label))
<1>1. DOMAIN Set(ps, id, pl) = DOMAIN ps \cup {id}
  BY SetShape
<1>2. CASE id[1] = label
  <2>1. IdsOf(Set(ps, id, pl), label) = IdsOf(ps, label) \cup {id} /\ id \notin IdsOf(ps, label)
    BY <1>1, <1>2 DEF IdsOf
  <2>2. Cardinality(IdsOf(ps, label) \cup {id}) = Cardinality(IdsOf(ps, label)) + 1
    BY <2>1, IdsFinite, FS_AddElement
  <2> QED
    BY <1>2, <2>1, <2>2
<1>3. CASE id[1] # label
  <2>1. IdsOf(Set(ps, id, pl), label) = IdsOf(ps, label)
    BY <1>1, <1>3 DEF IdsOf
  <2> QED
    BY <1>3, <2>1
<1> QED
  BY <1>2, <1>3

LEMMA NodePlaced ==
    ASSUME NEW r \in Results, NEW ps, PositionsKnown(r, ps), NEW node \in CellsIn(r, "node"),
           Internal(node) \notin DOMAIN ps,
           NEW new, new = Set(ps, Internal(node), Cardinality(IdsOf(ps, node.label)))
    PROVE  /\ PositionsKnown(r, new) /\ Cardinality(DOMAIN ps) <= Cardinality(DOMAIN new)
           /\ Cardinality(IdsOf(ps, node.label)) <= Cardinality(DOMAIN new)
<1>1. PICK id, n : id = Internal(node) /\ n = Cardinality(IdsOf(ps, node.label))
  OBVIOUS
<1>2. id[1] = node.label /\ id \notin DOMAIN ps /\ IsFiniteSet(DOMAIN ps)
  BY <1>1 DEF Internal, PositionsKnown
<1>3. /\ DOMAIN new = DOMAIN ps \cup {id} /\ new[id] = n
      /\ \A y \in DOMAIN ps : new[y] = ps[y]
  <2>1. new = Set(ps, id, n)
    BY <1>1, Zenon
  <2> QED
    BY <1>2, <2>1 DEF Set
<1>4. IsFiniteSet(DOMAIN new)
  BY <1>2, <1>3, FS_AddElement
<1>5. \A label : Cardinality(IdsOf(new, label))
         = IF id[1] = label THEN Cardinality(IdsOf(ps, label)) + 1 ELSE Cardinality(IdsOf(ps, label))
  BY <1>1, <1>2, IdsPlaced
<1>6. \A label : Cardinality(IdsOf(ps, label)) \in Nat
  BY <1>2, IdsFinite
<1>7. ASSUME NEW y \in DOMAIN new
      PROVE  /\ new[y] \in Nat /\ new[y] < Cardinality(IdsOf(new, y[1]))
             /\ \E m \in CellsIn(r, "node") : Internal(m) = y
  <2>1. CASE y = id
    <3>1. Cardinality(IdsOf(new, y[1])) = n + 1
      BY <1>1, <1>2, <1>5, <2>1
    <3>2. n \in Nat
      BY <1>1, <1>6
    <3> QED
      BY <1>1, <1>3, <2>1, <3>1, <3>2
  <2>2. CASE y \in DOMAIN ps
    <3>1. PICK k \in Nat : k = Cardinality(IdsOf(ps, y[1]))
      BY <1>6
    <3>2. PICK j : j = Cardinality(IdsOf(new, y[1])) /\ j \in {k, k + 1}
      BY <1>5, <3>1
    <3>3. new[y] = ps[y] /\ ps[y] \in Nat /\ ps[y] < k
      BY <1>3, <2>2, <3>1 DEF PositionsKnown
    <3>4. \E m \in CellsIn(r, "node") : Internal(m) = y
      BY <2>2 DEF PositionsKnown
    <3> QED
      BY <3>1, <3>2, <3>3, <3>4
  <2> QED
    BY <1>3, <2>1, <2>2
<1>8. PositionsKnown(r, new)
  BY <1>4, <1>7 DEF PositionsKnown
<1>9. Cardinality(DOMAIN new) = Cardinality(DOMAIN ps) + 1
  BY <1>2, <1>3, FS_AddElement
<1>10. n <= Cardinality(DOMAIN ps) /\ n \in Nat /\ Cardinality(DOMAIN ps) \in Nat
  BY <1>1, <1>2, IdsFinite
<1> QED
  BY <1>1, <1>8, <1>9, <1>10

\* It gets its position.
LEMMA ListedPlaced ==
    ASSUME NEW r \in Results, NEW list, NEW ps, NEW name, NEW node \in CellsIn(r, "node"),
           PositionsKnown(r, ps), Internal(node) \notin DOMAIN ps,
           HoldsAlso(r, list, ps, node.label, name, node),
           NEW new, new = Set(ps, Internal(node), Cardinality(IdsOf(ps, node.label)))
    PROVE  Holds(r, list, new, node.label, name)
<1>1. PICK id, n : id = Internal(node) /\ n = Cardinality(IdsOf(ps, node.label))
  OBVIOUS
<1>2. id[1] = node.label /\ id \notin DOMAIN ps /\ IsFiniteSet(DOMAIN ps)
  BY <1>1 DEF Internal, PositionsKnown
<1>3. /\ DOMAIN new = DOMAIN ps \cup {id} /\ new[id] = n
      /\ \A y \in DOMAIN ps : new[y] = ps[y]
  <2>1. new = Set(ps, id, n)
    BY <1>1, Zenon
  <2> QED
    BY <1>2, <2>1 DEF Set
<1>4. Cardinality(IdsOf(new, node.label)) = n + 1
  BY <1>1, <1>2, IdsPlaced
<1>5. ASSUME NEW m \in CellsIn(r, "node"), Internal(m) \in DOMAIN new, m.label = node.label
      PROVE  list[new[Internal(m)] + 1] = StoredOf(m, name)
  <2>1. CASE Internal(m) = id
    <3>1. m = node
      BY <1>1, <2>1, GraphExportAssumption
    <3> QED
      BY <1>1, <1>3, <3>1 DEF HoldsAlso
  <2>2. CASE Internal(m) \in DOMAIN ps
    <3>1. list[ps[Internal(m)] + 1] = StoredOf(m, name)
      BY <1>5, <2>2 DEF HoldsAlso, AtPlaces
    <3> QED
      BY <1>3, <2>2, <3>1
  <2> QED
    BY <1>3, <1>5, <2>1, <2>2
<1>6. AtPlaces(r, list, new, node.label, name)
  BY <1>5 DEF AtPlaces
<1> QED
  BY <1>1, <1>4, <1>6 DEF Holds, HoldsAlso

LEMMA OthersHeld ==
    ASSUME NEW r \in Results, NEW list, NEW ps, NEW name, NEW label, NEW node,
           PositionsKnown(r, ps), Internal(node) \notin DOMAIN ps, node.label # label,
           Holds(r, list, ps, label, name), NEW pl,
           NEW new, new = Set(ps, Internal(node), pl)
    PROVE  Holds(r, list, new, label, name)
<1>1. PICK id : id = Internal(node)
  OBVIOUS
<1>2. id[1] # label /\ id \notin DOMAIN ps /\ IsFiniteSet(DOMAIN ps)
  BY <1>1 DEF Internal, PositionsKnown
<1>3. DOMAIN new = DOMAIN ps \cup {id} /\ \A y \in DOMAIN ps : new[y] = ps[y]
  <2>1. new = Set(ps, id, pl)
    BY <1>1, Zenon
  <2> QED
    BY <1>2, <2>1 DEF Set
<1>4. Cardinality(IdsOf(new, label)) = Cardinality(IdsOf(ps, label))
  BY <1>1, <1>2, IdsPlaced
<1>5. ASSUME NEW m \in CellsIn(r, "node"), Internal(m) \in DOMAIN new, m.label = label
      PROVE  list[new[Internal(m)] + 1] = StoredOf(m, name)
  <2>1. Internal(m)[1] = label
    BY <1>5 DEF Internal
  <2>2. Internal(m) \in DOMAIN ps
    BY <1>2, <1>3, <1>5, <2>1
  <2>3. list[ps[Internal(m)] + 1] = StoredOf(m, name)
    BY <1>5, <2>2 DEF Holds, AtPlaces
  <2> QED
    BY <1>3, <2>2, <2>3
<1>6. AtPlaces(r, list, new, label, name)
  BY <1>5 DEF AtPlaces
<1> QED
  BY <1>4, <1>6 DEF Holds

-----------------------------------------------------------------------------
PlaceOf(label, i) == <<label, Schema[label][i].name>>

\* Every property's list holds; the first p - 1 of node's label have node's entry as well.
ColumnHeld(r, nd, un, ps, label, i) ==
    Holds(r, Listed(nd, un, PlaceOf(label, i)), ps, label, Schema[label][i].name)
ColumnHeldAlso(r, nd, un, ps, label, i, node) ==
    HoldsAlso(r, Listed(nd, un, PlaceOf(label, i)), ps, label, Schema[label][i].name, node)
AllHeld(r, nd, un, ps) ==
    \A label \in DOMAIN Schema : \A i \in DOMAIN Schema[label] : ColumnHeld(r, nd, un, ps, label, i)
HeldUpTo(r, nd, un, ps, node, p) ==
    \A label \in DOMAIN Schema : \A i \in DOMAIN Schema[label] :
        IF label = node.label /\ i < p THEN ColumnHeldAlso(r, nd, un, ps, label, i, node)
        ELSE ColumnHeld(r, nd, un, ps, label, i)

LEMMA SchemaShape ==
    ASSUME NEW label \in DOMAIN Schema
    PROVE  /\ Len(Schema[label]) \in Nat \ {0} /\ DOMAIN Schema[label] = 1..Len(Schema[label])
           /\ \A i \in DOMAIN Schema[label] : Schema[label][i].name \in STRING
           /\ \A i, j \in DOMAIN Schema[label] : Schema[label][i].name = Schema[label][j].name => i = j
<1>1. PICK properties : properties = Schema[label]
  OBVIOUS
<1>2. /\ properties \in Seq([name : STRING, type : STRING, dimension : Nat]) \ {<<>>}
      /\ \A i, j \in DOMAIN properties : properties[i].name = properties[j].name => i = j
  BY <1>1, GraphExportAssumption
<1>3. Len(properties) \in Nat \ {0} /\ DOMAIN properties = 1..Len(properties)
  BY <1>2, EmptySeq
<1>4. \A i \in DOMAIN properties : properties[i].name \in STRING
  <2> DEFINE R == [name : STRING, type : STRING, dimension : Nat]
  <2>1. \A i \in DOMAIN properties : properties[i] \in R
    <3>1. properties \in Seq(R)
      BY <1>2
    <3> HIDE DEF R
    <3> QED
      BY <1>3, <3>1
  <2> QED
    BY <2>1
<1> QED
  BY <1>1, <1>2, <1>3, <1>4

\* One list gets one more value, whether it stays what it is or not.
PutsIn(nd2, un2, nd, un, column, value) ==
    /\ Listed(nd2, un2, column) = Append(Listed(nd, un, column), value)
    /\ \A other : other # column => Listed(nd2, un2, other) = Listed(nd, un, other)
    /\ DOMAIN nd2 \cap DOMAIN un2 = {} /\ DOMAIN nd2 \subseteq DOMAIN nd \cup {column}

LEMMA StaysUnconverted ==
    ASSUME NEW nd, NEW un, NEW column \in DOMAIN un, NEW value, DOMAIN nd \cap DOMAIN un = {}
    PROVE  PutsIn(nd, Added(un, {column}, value), nd, un, column, value)
<1>1. PICK un2 : un2 = Added(un, {column}, value)
  OBVIOUS
<1>2. /\ DOMAIN un2 = DOMAIN un /\ un2[column] = Append(un[column], value)
      /\ \A y \in DOMAIN un : y # column => un2[y] = un[y]
  BY <1>1 DEF Added, ListAt
<1>3. PutsIn(nd, un2, nd, un, column, value)
  BY <1>2 DEF PutsIn, Listed, ListAt
<1> QED
  BY <1>1, <1>3

LEMMA BecomesUnconverted ==
    ASSUME NEW nd, NEW un, NEW column, column \notin DOMAIN un, NEW value,
           DOMAIN nd \cap DOMAIN un = {}
    PROVE  PutsIn(Without(nd, column), Set(un, column, Append(ListAt(nd, column), value)),
                 nd, un, column, value)
<1>1. PICK un2, nd2, list : /\ list = Append(ListAt(nd, column), value)
                            /\ un2 = Set(un, column, list) /\ nd2 = Without(nd, column)
  OBVIOUS
<1>2. /\ DOMAIN un2 = DOMAIN un \cup {column} /\ un2[column] = list
      /\ \A y \in DOMAIN un : un2[y] = un[y]
  BY <1>1 DEF Set
<1>3. DOMAIN nd2 = DOMAIN nd \ {column} /\ \A y \in DOMAIN nd2 : nd2[y] = nd[y]
  BY <1>1 DEF Without
<1>4. Listed(nd2, un2, column) = list /\ Listed(nd, un, column) = ListAt(nd, column)
  BY <1>2, <1>3 DEF Listed, ListAt
<1>5. \A other : other # column => Listed(nd2, un2, other) = Listed(nd, un, other)
  BY <1>2, <1>3 DEF Listed, ListAt
<1>6. PutsIn(nd2, un2, nd, un, column, value)
  BY <1>1, <1>2, <1>3, <1>4, <1>5 DEF PutsIn
<1> QED
  BY <1>1, <1>6

LEMMA IsConverted ==
    ASSUME NEW nd, NEW un, NEW column, column \notin DOMAIN un, NEW value,
           DOMAIN nd \cap DOMAIN un = {}
    PROVE  PutsIn(Added(nd, {column}, value), un, nd, un, column, value)
<1>1. PICK nd2 : nd2 = Added(nd, {column}, value)
  OBVIOUS
<1>2. /\ DOMAIN nd2 = DOMAIN nd \cup {column} /\ nd2[column] = Append(ListAt(nd, column), value)
      /\ \A y \in DOMAIN nd : y # column => nd2[y] = nd[y]
  BY <1>1 DEF Added
<1>3. Listed(nd, un, column) = ListAt(nd, column)
  BY DEF Listed, ListAt
<1>4. Listed(nd2, un, column) = Append(Listed(nd, un, column), value)
  BY <1>2, <1>3 DEF Listed
<1>5. \A other : other # column => Listed(nd2, un, other) = Listed(nd, un, other)
  BY <1>2 DEF Listed
<1>6. PutsIn(nd2, un, nd, un, column, value)
  BY <1>2, <1>4, <1>5 DEF PutsIn
<1> QED
  BY <1>1, <1>6

\* What a property action does to the lists, and the position it finds.
LEMMA PropertyHeld ==
    ASSUME NEW r \in Results, NEW ps, PositionsKnown(r, ps), NEW nd, NEW un, NEW nd2, NEW un2,
           NEW node \in CellsIn(r, "node"), NEW p \in DOMAIN Schema[node.label],
           HeldUpTo(r, nd, un, ps, node, p),
           PutsIn(nd2, un2, nd, un, PlaceOf(node.label, p), StoredOf(node, Schema[node.label][p].name))
    PROVE  /\ HeldUpTo(r, nd2, un2, ps, node, p + 1)
           /\ Len(Listed(nd, un, PlaceOf(node.label, p))) = Cardinality(IdsOf(ps, node.label))
           /\ Len(Listed(nd2, un2, PlaceOf(node.label, p))) = Cardinality(IdsOf(ps, node.label)) + 1
<1>1. PICK label, name : label = node.label /\ name = Schema[label][p].name
  OBVIOUS
<1>2. label \in DOMAIN Schema
  BY <1>1, GraphExportAssumption
<1>3. /\ p \in Nat /\ name \in STRING /\ DOMAIN Schema[label] = 1..Len(Schema[label])
      /\ \A i, j \in DOMAIN Schema[label] : Schema[label][i].name = Schema[label][j].name => i = j
  BY <1>1, <1>2, SchemaShape
<1>4. ColumnHeld(r, nd, un, ps, label, p)
  BY <1>1, <1>2, <1>3 DEF HeldUpTo
<1>5. PICK list : list = Listed(nd, un, PlaceOf(label, p))
  OBVIOUS
<1>6. Holds(r, list, ps, label, name) /\ Listed(nd2, un2, PlaceOf(label, p)) = Append(list, StoredOf(node, name))
  BY <1>1, <1>4, <1>5 DEF ColumnHeld, PutsIn
<1>7. HoldsAlso(r, Append(list, StoredOf(node, name)), ps, label, name, node)
  BY <1>3, <1>6, ListedAlso
<1>8. ColumnHeldAlso(r, nd2, un2, ps, label, p, node)
  BY <1>1, <1>6, <1>7 DEF ColumnHeldAlso
<1>9. ASSUME NEW l \in DOMAIN Schema, NEW i \in DOMAIN Schema[l]
      PROVE  IF l = node.label /\ i < p + 1 THEN ColumnHeldAlso(r, nd2, un2, ps, l, i, node)
             ELSE ColumnHeld(r, nd2, un2, ps, l, i)
  <2>1. i \in Nat
    BY SchemaShape
  <2>2. CASE l = label /\ i = p
    BY <1>1, <1>3, <1>8, <2>2
  <2>3. CASE ~(l = label /\ i = p)
    <3>1. PlaceOf(l, i) # PlaceOf(label, p)
      BY <1>1, <1>3, <2>3 DEF PlaceOf
    <3>2. Listed(nd2, un2, PlaceOf(l, i)) = Listed(nd, un, PlaceOf(l, i))
      BY <1>1, <3>1 DEF PutsIn
    <3>3. IF l = node.label /\ i < p THEN ColumnHeldAlso(r, nd2, un2, ps, l, i, node)
          ELSE ColumnHeld(r, nd2, un2, ps, l, i)
      BY <3>2 DEF HeldUpTo, ColumnHeld, ColumnHeldAlso
    <3>4. l = node.label => (i < p <=> i < p + 1)
      BY <1>1, <1>3, <2>1, <2>3
    <3> QED
      BY <3>3, <3>4
  <2> QED
    BY <2>2, <2>3
<1>10. HeldUpTo(r, nd2, un2, ps, node, p + 1)
  BY <1>9 DEF HeldUpTo
<1>11. Len(list) = Cardinality(IdsOf(ps, label))
  BY <1>6 DEF Holds
<1>12. Len(Append(list, StoredOf(node, name))) = Cardinality(IdsOf(ps, label)) + 1
  BY <1>7 DEF HoldsAlso
<1> QED
  BY <1>1, <1>5, <1>6, <1>10, <1>11, <1>12

\* A node that has no property taken yet, and one that has all taken.
LEMMA HeldNew ==
    ASSUME NEW r, NEW nd, NEW un, NEW ps, AllHeld(r, nd, un, ps), NEW node
    PROVE  HeldUpTo(r, nd, un, ps, node, 1)
<1>1. ASSUME NEW l \in DOMAIN Schema, NEW i \in DOMAIN Schema[l]
      PROVE  ~(i < 1) /\ ColumnHeld(r, nd, un, ps, l, i)
  <2>1. i \in 1..Len(Schema[l]) /\ Len(Schema[l]) \in Nat
    BY SchemaShape
  <2> QED
    BY <2>1 DEF AllHeld
<1> QED
  BY <1>1 DEF HeldUpTo

LEMMA HeldWhole ==
    ASSUME NEW r \in Results, NEW nd, NEW un, NEW ps, PositionsKnown(r, ps),
           NEW node \in CellsIn(r, "node"), Internal(node) \notin DOMAIN ps,
           NEW p \in Nat, p > Len(Schema[node.label]), HeldUpTo(r, nd, un, ps, node, p),
           NEW new, new = Set(ps, Internal(node), Cardinality(IdsOf(ps, node.label)))
    PROVE  AllHeld(r, nd, un, new)
<1>1. ASSUME NEW l \in DOMAIN Schema, NEW i \in DOMAIN Schema[l]
      PROVE  ColumnHeld(r, nd, un, new, l, i)
  <2>1. i \in 1..Len(Schema[l]) /\ Len(Schema[l]) \in Nat
    BY SchemaShape
  <2>2. CASE l = node.label
    <3>1. ColumnHeldAlso(r, nd, un, ps, l, i, node)
      BY <2>1, <2>2 DEF HeldUpTo
    <3>2. HoldsAlso(r, Listed(nd, un, PlaceOf(l, i)), ps, node.label, Schema[l][i].name, node)
      BY <2>2, <3>1 DEF ColumnHeldAlso
    <3>3. Holds(r, Listed(nd, un, PlaceOf(l, i)), new, node.label, Schema[l][i].name)
      BY <3>2, ListedPlaced
    <3> QED
      BY <2>2, <3>3 DEF ColumnHeld
  <2>3. CASE l # node.label
    <3>1. ColumnHeld(r, nd, un, ps, l, i)
      BY <2>3 DEF HeldUpTo
    <3>2. Holds(r, Listed(nd, un, PlaceOf(l, i)), ps, l, Schema[l][i].name)
      BY <3>1 DEF ColumnHeld
    <3>3. Holds(r, Listed(nd, un, PlaceOf(l, i)), new, l, Schema[l][i].name)
      BY <2>3, <3>2, OthersHeld
    <3> QED
      BY <3>3 DEF ColumnHeld
  <2> QED
    BY <2>2, <2>3
<1> QED
  BY <1>1 DEF AllHeld

-----------------------------------------------------------------------------
\* torch has taken the nodes that the loop has passed.
TorchPassed(r, i, c, ps) ==
    \A k \in RowsOf(r), d \in ColumnsOf(r) :
        Passed(i, c, k, d) /\ r.rows[k][d].kind = "node" => Internal(r.rows[k][d]) \in DOMAIN ps
KeysKnown(r, ps, keys) ==
    \A n \in CellsIn(r, "node") :
        LET place == <<n.label, ps[Internal(n)]>>
        IN  Internal(n) \in DOMAIN ps => place \in DOMAIN keys /\ keys[place] = n.pk

\* The node whose properties are being taken.
Underway(r, ps, node, p, at) ==
    /\ node \in CellsIn(r, "node") /\ Internal(node) \notin DOMAIN ps
    /\ p <= Len(Schema[node.label]) + 1
    /\ p > 1 => at = Cardinality(IdsOf(ps, node.label))

ListsKnown(r, nd, un, ps, keys, at) ==
    /\ PositionsKnown(r, ps) /\ KeysKnown(r, ps, keys) /\ DOMAIN nd \cap DOMAIN un = {}
    /\ IsFiniteSet(LabelsOf(nd))
    /\ at \in -1..Cardinality(DOMAIN ps)
Held(r, nd, un, ps, node, p, at) ==
    /\ p = 0 => AllHeld(r, nd, un, ps)
    /\ p > 0 => HeldUpTo(r, nd, un, ps, node, p) /\ Underway(r, ps, node, p, at)
NodePlace == prop > 0 => phase = "rows" /\ ~dictRows /\ rowIndex <= Len(Rows) /\ Cell.kind = "node"

TorchNodes ==
    /\ ListsKnown(result, nodesDict, unconverted, position, primaryKeys, pos)
    /\ Held(result, nodesDict, unconverted, position, Cell, prop, pos)
    /\ NodePlace
    /\ phase = "rows" => /\ TorchPassed(result, rowIndex, col, position)
                         /\ edges = Empty /\ edgeProps = Empty
    /\ phase \in {"rels", "done"} => TorchPassed(result, Len(result.rows) + 1, 1, position)

LEMMA TorchPassesOne ==
    ASSUME GraphTyped, phase = "rows", rowIndex <= Len(Rows), NextCell,
           TorchPassed(result, rowIndex, col, position), NEW ps, DOMAIN position \subseteq DOMAIN ps,
           Cell.kind = "node" => Internal(Cell) \in DOMAIN ps
    PROVE  TorchPassed(result, rowIndex', col', ps)
<1>1. /\ result \in Results /\ rowIndex \in RowsOf(result) /\ col \in ColumnsOf(result)
      /\ Cell = result.rows[rowIndex][col]
  BY AtRow
<1>2. ASSUME NEW k \in RowsOf(result), NEW d \in ColumnsOf(result), Passed(rowIndex', col', k, d),
             result.rows[k][d].kind = "node"
      PROVE  Internal(result.rows[k][d]) \in DOMAIN ps
  <2>1. Passed(rowIndex, col, k, d) \/ (k = rowIndex /\ d = col)
    BY <1>1, <1>2, NextPlace
  <2>2. CASE Passed(rowIndex, col, k, d)
    BY <1>2, <2>2 DEF TorchPassed
  <2>3. CASE k = rowIndex /\ d = col
    BY <1>1, <1>2, <2>3
  <2> QED
    BY <2>1, <2>2, <2>3
<1> QED
  BY <1>2 DEF TorchPassed

\* A step over a cell that leaves the nodes as they are.
LEMMA TorchPasses ==
    ASSUME GraphTyped, TorchNodes, phase = "rows", rowIndex <= Len(Rows), prop = 0, NextCell,
           UNCHANGED <<target, result, dictRows, phase, prop, torchVars>>,
           rels' \in Seq(RelsIn(result)),
           Cell.kind = "node" => Internal(Cell) \in DOMAIN position
    PROVE  GraphTyped' /\ TorchNodes'
<1>1. GraphTyped'
  BY LoopTyped
<1>2. /\ pos' = pos /\ nodesDict' = nodesDict /\ unconverted' = unconverted /\ position' = position
      /\ primaryKeys' = primaryKeys /\ edges' = edges /\ edgeProps' = edgeProps
      /\ result' = result /\ prop' = 0 /\ phase' = "rows"
  BY DEF torchVars
<1>3. ListsKnown(result, nodesDict, unconverted, position, primaryKeys, pos)'
  BY <1>2 DEF TorchNodes
<1>4. AllHeld(result, nodesDict, unconverted, position)'
  BY <1>2 DEF TorchNodes, Held
<1>5. (Held(result, nodesDict, unconverted, position, Cell, prop, pos) /\ NodePlace)'
  BY <1>2, <1>4 DEF Held, NodePlace
<1>6. TorchPassed(result, rowIndex, col, position)
  BY DEF TorchNodes
<1>7. TorchPassed(result, rowIndex', col', position)
  BY <1>6, TorchPassesOne
<1>8. TorchPassed(result, rowIndex, col, position)'
  BY <1>2, <1>7
<1>9. edges' = Empty /\ edgeProps' = Empty
  BY <1>2 DEF TorchNodes
<1> QED
  BY <1>1, <1>2, <1>3, <1>5, <1>8, <1>9 DEF TorchNodes, Empty

LEMMA TorchFails ==
    ASSUME GraphTyped, TorchNodes, prop = 0, NEW e, FailExport(e)
    PROVE  GraphTyped' /\ TorchNodes'
<1>1. GraphTyped' /\ phase' = "failed"
  BY FailTyped
<1>2. /\ pos' = pos /\ nodesDict' = nodesDict /\ unconverted' = unconverted /\ position' = position
      /\ primaryKeys' = primaryKeys /\ result' = result /\ prop' = 0
  BY DEF FailExport, torchVars
<1>3. ListsKnown(result, nodesDict, unconverted, position, primaryKeys, pos)'
  BY <1>2 DEF TorchNodes
<1>4. AllHeld(result, nodesDict, unconverted, position)'
  BY <1>2 DEF TorchNodes, Held
<1>5. (Held(result, nodesDict, unconverted, position, Cell, prop, pos) /\ NodePlace)'
  BY <1>2, <1>4 DEF Held, NodePlace
<1> QED
  BY <1>1, <1>3, <1>5 DEF TorchNodes

\* From loop to loop, and to the end, with the nodes as they are.
LEMMA TorchMoves ==
    ASSUME GraphTyped, TorchNodes, prop = 0, prop' = 0, result' = result,
           UNCHANGED <<pos, nodesDict, unconverted, position, primaryKeys>>,
           phase' \in {"rels", "done"}, TorchPassed(result, Len(result.rows) + 1, 1, position)
    PROVE  TorchNodes'
<1>1. ListsKnown(result, nodesDict, unconverted, position, primaryKeys, pos)'
  BY DEF TorchNodes
<1>2. AllHeld(result, nodesDict, unconverted, position)'
  BY DEF TorchNodes, Held
<1>3. (Held(result, nodesDict, unconverted, position, Cell, prop, pos) /\ NodePlace)'
  BY <1>2 DEF Held, NodePlace
<1>4. TorchPassed(result, Len(result.rows) + 1, 1, position)'
  OBVIOUS
<1> QED
  BY <1>1, <1>3, <1>4 DEF TorchNodes

LEMMA TorchRowsDone ==
    ASSUME GraphTyped, TorchNodes, RowsDone
    PROVE  GraphTyped' /\ TorchNodes'
<1>1. GraphTyped'
  BY RowsDoneTyped
<1>2. /\ phase = "rows" /\ rowIndex > Len(Rows) /\ phase' = "rels" /\ result' = result /\ prop' = prop
      /\ UNCHANGED <<pos, nodesDict, unconverted, position, primaryKeys>>
  BY DEF RowsDone, torchVars
<1>3. result \in Results /\ rowIndex \in Nat \ {0} /\ Len(result.rows) \in Nat /\ prop \in Nat
  BY ResultShape DEF GraphTyped
<1>4. prop = 0
  BY <1>2, <1>3 DEF TorchNodes, NodePlace, Rows
<1>5. TorchPassed(result, Len(result.rows) + 1, 1, position)
  <2>1. \A k \in RowsOf(result), d \in ColumnsOf(result) : Passed(rowIndex, col, k, d)
    BY <1>2, <1>3 DEF RowsOf, Passed, Rows
  <2>2. TorchPassed(result, rowIndex, col, position)
    BY <1>2 DEF TorchNodes
  <2> QED
    BY <2>1, <2>2 DEF TorchPassed
<1> QED
  BY <1>1, <1>2, <1>4, <1>5, TorchMoves

-----------------------------------------------------------------------------
LEMMA TorchNewNode ==
    ASSUME GraphTyped, TorchNodes, NewNode
    PROVE  GraphTyped' /\ TorchNodes'
<1>1. /\ phase = "rows" /\ rowIndex <= Len(Rows) /\ prop = 0 /\ ~dictRows /\ Cell.kind = "node"
      /\ Internal(Cell) \notin DOMAIN position /\ prop' = 1 /\ pos' = -1
      /\ UNCHANGED <<target, result, dictRows, phase, rowIndex, col, nodesDict, unconverted, position,
                     primaryKeys, edges, edgeProps, nodes, rels, graph>>
  BY DEF NewNode, AtCell, Node, Constant
<1>2. GraphTyped'
  BY <1>1, StayTyped
<1>3. Cell' = Cell /\ Rows' = Rows
  BY <1>1 DEF Cell, Rows
<1>4. ListsKnown(result, nodesDict, unconverted, position, primaryKeys, pos)'
  <2>1. Cardinality(DOMAIN position) \in Nat
    BY FS_CardinalityType DEF TorchNodes, ListsKnown, PositionsKnown
  <2>2. -1 \in -1..Cardinality(DOMAIN position)
    BY <2>1
  <2>3. ListsKnown(result, nodesDict, unconverted, position, primaryKeys, -1)
    BY <2>2 DEF TorchNodes, ListsKnown
  <2> QED
    BY <1>1, <2>3
<1>5. Held(result, nodesDict, unconverted, position, Cell, prop, pos)'
  <2>1. AllHeld(result, nodesDict, unconverted, position)
    BY <1>1 DEF TorchNodes, Held
  <2>2. HeldUpTo(result, nodesDict, unconverted, position, Cell, 1)
    BY <2>1, HeldNew
  <2>3. Cell \in CellsIn(result, "node")
    BY <1>1, AtRow
  <2>4. 1 <= Len(Schema[Cell.label]) + 1
    <3>1. Cell.label \in DOMAIN Schema
      BY <2>3, GraphExportAssumption DEF GraphTyped
    <3>2. Len(Schema[Cell.label]) \in Nat
      BY <3>1, SchemaShape
    <3> QED
      BY <3>2
  <2>5. Underway(result, position, Cell, 1, -1)
    BY <1>1, <2>3, <2>4 DEF Underway
  <2>6. Held(result, nodesDict, unconverted, position, Cell, 1, -1)
    BY <2>2, <2>5 DEF Held
  <2> QED
    BY <1>1, <1>3, <2>6
<1>6. NodePlace'
  BY <1>1, <1>3 DEF NodePlace
<1>7. /\ TorchPassed(result, rowIndex, col, position) /\ edges = Empty /\ edgeProps = Empty
  BY <1>1 DEF TorchNodes
<1>8. /\ TorchPassed(result, rowIndex, col, position)' /\ edges' = Empty /\ edgeProps' = Empty
      /\ phase' = "rows"
  BY <1>1, <1>7
<1> QED
  BY <1>2, <1>4, <1>5, <1>6, <1>8 DEF TorchNodes, Empty

\* A property of the node underway goes to one of its lists.
TakesProperty ==
    /\ AtProperty /\ NextProperty
    /\ PutsIn(nodesDict', unconverted', nodesDict, unconverted, Column, Kept)
    /\ \/ pos' = Len(Listed(nodesDict, unconverted, Column))
       \/ pos' = Len(Listed(nodesDict', unconverted', Column)) - 1

LEMMA TakesOne ==
    ASSUME TorchNodes, AlreadyUnconverted \/ Unconvertible \/ Convertible
    PROVE  TakesProperty
<1>1. DOMAIN nodesDict \cap DOMAIN unconverted = {}
  BY DEF TorchNodes, ListsKnown
<1>2. PICK nd, un, column, value : nd = nodesDict /\ un = unconverted /\ column = Column /\ value = Kept
  OBVIOUS
<1>3. PICK nd2, un2 : nd2 = nodesDict' /\ un2 = unconverted'
  OBVIOUS
<1>4. CASE AlreadyUnconverted
  <2>1. /\ column \in DOMAIN un /\ un2 = Added(un, {column}, value) /\ nd2 = nd
        /\ pos' = Len(un[column]) /\ AtProperty /\ NextProperty
    BY <1>2, <1>3, <1>4 DEF AlreadyUnconverted
  <2>2. PutsIn(nd2, un2, nd, un, column, value)
    BY <1>1, <1>2, <2>1, StaysUnconverted
  <2>3. Listed(nd, un, column) = un[column]
    BY <1>1, <1>2, <2>1 DEF Listed, ListAt
  <2> QED
    BY <1>2, <1>3, <2>1, <2>2, <2>3 DEF TakesProperty
<1>5. CASE Unconvertible
  <2>1. /\ column \notin DOMAIN un /\ un2 = Set(un, column, Append(ListAt(nd, column), value))
        /\ nd2 = Without(nd, column)
        /\ pos' = Len(un2[column]) - 1 /\ AtProperty /\ NextProperty
    BY <1>2, <1>3, <1>5 DEF Unconvertible, MarkUnconverted
  <2>2. PutsIn(nd2, un2, nd, un, column, value)
    BY <1>1, <1>2, <2>1, BecomesUnconverted
  <2>3. Listed(nd2, un2, column) = un2[column]
    BY <2>1 DEF Listed, ListAt, Set, Without
  <2> QED
    BY <1>2, <1>3, <2>1, <2>2, <2>3 DEF TakesProperty
<1>6. CASE Convertible
  <2>1. /\ column \notin DOMAIN un /\ nd2 = Added(nd, {column}, value) /\ un2 = un
        /\ pos' = Len(nd2[column]) - 1 /\ AtProperty /\ NextProperty
    BY <1>2, <1>3, <1>6 DEF Convertible
  <2>2. PutsIn(nd2, un2, nd, un, column, value)
    BY <1>1, <1>2, <2>1, IsConverted
  <2>3. Listed(nd2, un2, column) = nd2[column]
    BY <2>1 DEF Listed, Added
  <2> QED
    BY <1>2, <1>3, <2>1, <2>2, <2>3 DEF TakesProperty
<1> QED
  BY <1>4, <1>5, <1>6

LEMMA TorchProperty ==
    ASSUME GraphTyped, TorchNodes, TakesProperty
    PROVE  GraphTyped' /\ TorchNodes'
<1>1. /\ prop > 0 /\ prop <= Len(Schema[Cell.label]) /\ prop' = prop + 1 /\ prop \in Nat
      /\ UNCHANGED <<target, result, dictRows, phase, rowIndex, col, position, primaryKeys, edges,
                     edgeProps, nodes, rels, graph>>
  BY DEF TakesProperty, AtProperty, NextProperty, Node, Constant, GraphTyped
<1>2. GraphTyped'
  BY <1>1, StayTyped
<1>3. /\ phase = "rows" /\ ~dictRows /\ rowIndex <= Len(Rows) /\ Cell.kind = "node"
      /\ HeldUpTo(result, nodesDict, unconverted, position, Cell, prop)
      /\ Underway(result, position, Cell, prop, pos)
  BY <1>1 DEF TorchNodes, Held, NodePlace
<1>4. /\ Cell \in CellsIn(result, "node") /\ Internal(Cell) \notin DOMAIN position
      /\ Cell.label \in DOMAIN Schema /\ result \in Results
  BY <1>3, GraphExportAssumption DEF Underway, GraphTyped
<1>5. /\ Len(Schema[Cell.label]) \in Nat /\ prop \in DOMAIN Schema[Cell.label]
  BY <1>1, <1>4, SchemaShape
<1>6. PositionsKnown(result, position) /\ KeysKnown(result, position, primaryKeys)
  BY DEF TorchNodes, ListsKnown
<1>7. PICK nd2, un2 : nd2 = nodesDict' /\ un2 = unconverted'
  OBVIOUS
<1>8. PICK n \in Nat : n = Cardinality(IdsOf(position, Cell.label)) /\ n <= Cardinality(DOMAIN position)
  BY <1>6, IdsFinite DEF PositionsKnown
<1>9. PutsIn(nd2, un2, nodesDict, unconverted, PlaceOf(Cell.label, prop),
            StoredOf(Cell, Schema[Cell.label][prop].name))
  BY <1>7 DEF TakesProperty, Column, Kept, Value, Property, Node, PlaceOf, StoredOf
<1>10. /\ HeldUpTo(result, nd2, un2, position, Cell, prop + 1)
       /\ Len(Listed(nodesDict, unconverted, PlaceOf(Cell.label, prop))) = n
       /\ Len(Listed(nd2, un2, PlaceOf(Cell.label, prop))) = n + 1
  BY <1>3, <1>4, <1>5, <1>6, <1>8, <1>9, PropertyHeld
<1>11. pos' = n
  <2>1. Column = PlaceOf(Cell.label, prop)
    BY DEF Column, Property, Node, PlaceOf
  <2>2. \/ pos' = Len(Listed(nodesDict, unconverted, PlaceOf(Cell.label, prop)))
        \/ pos' = Len(Listed(nd2, un2, PlaceOf(Cell.label, prop))) - 1
    BY <1>7, <2>1 DEF TakesProperty
  <2> QED
    BY <1>10, <2>2
<1>12. Cell' = Cell /\ Rows' = Rows
  BY <1>1 DEF Cell, Rows
<1>13. ListsKnown(result, nodesDict, unconverted, position, primaryKeys, pos)'
  <2>1. DOMAIN nd2 \cap DOMAIN un2 = {}
    BY <1>9 DEF PutsIn
  <2>2. Cardinality(DOMAIN position) \in Nat
    BY <1>6, FS_CardinalityType DEF PositionsKnown
  <2>3. n \in -1..Cardinality(DOMAIN position)
    BY <1>8, <2>2
  <2>4. IsFiniteSet(LabelsOf(nd2))
    <3>1. IsFiniteSet(LabelsOf(nodesDict))
      BY DEF TorchNodes, ListsKnown
    <3>2. LabelsOf(nd2) \subseteq LabelsOf(nodesDict) \cup {Cell.label}
      BY <1>9 DEF PutsIn, LabelsOf, PlaceOf
    <3> QED
      BY <3>1, <3>2, FS_AddElement, FS_Subset
  <2>5. ListsKnown(result, nd2, un2, position, primaryKeys, n)
    BY <1>6, <2>1, <2>3, <2>4 DEF ListsKnown
  <2> QED
    BY <1>1, <1>7, <1>11, <2>5
<1>14. Held(result, nodesDict, unconverted, position, Cell, prop, pos)'
  <2>1. prop + 1 <= Len(Schema[Cell.label]) + 1 /\ prop + 1 > 0 /\ prop + 1 # 0
    BY <1>1, <1>5
  <2>2. Underway(result, position, Cell, prop + 1, n)
    BY <1>4, <1>8, <2>1 DEF Underway
  <2>3. Held(result, nd2, un2, position, Cell, prop + 1, n)
    BY <1>10, <2>1, <2>2 DEF Held
  <2> QED
    BY <1>1, <1>7, <1>11, <1>12, <2>3
<1>15. NodePlace'
  BY <1>1, <1>3, <1>12 DEF NodePlace
<1>16. /\ TorchPassed(result, rowIndex, col, position) /\ edges = Empty /\ edgeProps = Empty
  BY <1>3 DEF TorchNodes
<1>17. /\ TorchPassed(result, rowIndex, col, position)' /\ edges' = Empty /\ edgeProps' = Empty
       /\ phase' = "rows"
  BY <1>1, <1>3, <1>16
<1> QED
  BY <1>2, <1>13, <1>14, <1>15, <1>17 DEF TorchNodes, Empty

-----------------------------------------------------------------------------

LEMMA KeyPlaced ==
    ASSUME NEW r \in Results, NEW ps, PositionsKnown(r, ps), NEW keys, KeysKnown(r, ps, keys),
           NEW node \in CellsIn(r, "node"), Internal(node) \notin DOMAIN ps,
           NEW new, new = Set(ps, Internal(node), Cardinality(IdsOf(ps, node.label)))
    PROVE  KeysKnown(r, new, Set(keys, <<node.label, Cardinality(IdsOf(ps, node.label))>>, node.pk))
<1>1. PICK id, n, keys2 : /\ id = Internal(node) /\ n = Cardinality(IdsOf(ps, node.label))
                          /\ keys2 = Set(keys, <<node.label, n>>, node.pk)
  OBVIOUS
<1>2. id \notin DOMAIN ps /\ n \in Nat
  BY <1>1, IdsFinite DEF PositionsKnown
<1>3. /\ DOMAIN new = DOMAIN ps \cup {id} /\ new[id] = n
      /\ \A y \in DOMAIN ps : new[y] = ps[y]
  <2>1. new = Set(ps, id, n)
    BY <1>1, Zenon
  <2> QED
    BY <1>2, <2>1 DEF Set
<1>4. ASSUME NEW m \in CellsIn(r, "node"), Internal(m) \in DOMAIN new
      PROVE  /\ <<m.label, new[Internal(m)]>> \in DOMAIN keys2
             /\ keys2[<<m.label, new[Internal(m)]>>] = m.pk
  <2>1. CASE Internal(m) = id
    <3>1. m = node
      BY <1>1, <2>1, GraphExportAssumption
    <3> QED
      BY <1>1, <1>3, <3>1 DEF Set
  <2>2. CASE Internal(m) \in DOMAIN ps
    <3>1. PICK place : place = <<m.label, ps[Internal(m)]>>
      OBVIOUS
    <3>2. place \in DOMAIN keys /\ keys[place] = m.pk
      BY <2>2, <3>1 DEF KeysKnown
    <3>3. place # <<node.label, n>>
      <4>1. Internal(m)[1] = m.label
        BY DEF Internal
      <4>2. ps[Internal(m)] \in Nat /\ ps[Internal(m)] < Cardinality(IdsOf(ps, m.label))
        BY <2>2, <4>1 DEF PositionsKnown
      <4>3. m.label = node.label => ps[Internal(m)] # n
        BY <1>1, <1>2, <4>2
      <4> QED
        BY <3>1, <4>3
    <3>4. place \in DOMAIN keys2 /\ keys2[place] = m.pk
      BY <1>1, <3>2, <3>3 DEF Set
    <3>5. <<m.label, new[Internal(m)]>> = place
      BY <1>3, <2>2, <3>1
    <3> QED
      BY <3>4, <3>5
  <2> QED
    BY <1>3, <1>4, <2>1, <2>2
<1>5. KeysKnown(r, new, keys2)
  BY <1>4 DEF KeysKnown
<1> QED
  BY <1>1, <1>5

LEMMA TorchEndNode ==
    ASSUME GraphTyped, TorchNodes, EndNode
    PROVE  GraphTyped' /\ TorchNodes'
<1>1. /\ phase = "rows" /\ prop > 0 /\ prop > Len(Schema[Cell.label]) /\ prop' = 0 /\ NextCell
      /\ position' = Set(position, Internal(Cell), pos)
      /\ primaryKeys' = Set(primaryKeys, <<Cell.label, pos>>, Cell.pk)
      /\ UNCHANGED <<target, result, dictRows, phase, pos, nodesDict, unconverted, edges, edgeProps,
                     nodes, rels, graph>>
  BY DEF EndNode, Node, Constant
<1>2. prop \in Nat /\ result \in Results /\ rels \in Seq(RelsIn(result))
  BY DEF GraphTyped
<1>3. /\ rowIndex <= Len(Rows) /\ Cell.kind = "node"
      /\ HeldUpTo(result, nodesDict, unconverted, position, Cell, prop)
      /\ Underway(result, position, Cell, prop, pos)
  BY <1>1 DEF TorchNodes, Held, NodePlace
<1>4. /\ Cell \in CellsIn(result, "node") /\ Internal(Cell) \notin DOMAIN position
      /\ Cell.label \in DOMAIN Schema
  BY <1>2, <1>3, GraphExportAssumption DEF Underway
<1>5. pos = Cardinality(IdsOf(position, Cell.label))
  <2>1. Len(Schema[Cell.label]) \in Nat \ {0}
    BY <1>4, SchemaShape
  <2>2. prop > 1
    BY <1>1, <1>2, <2>1
  <2> QED
    BY <1>3, <2>2 DEF Underway
<1>6. /\ PositionsKnown(result, position) /\ KeysKnown(result, position, primaryKeys)
      /\ DOMAIN nodesDict \cap DOMAIN unconverted = {} /\ IsFiniteSet(LabelsOf(nodesDict))
  BY DEF TorchNodes, ListsKnown
<1>7. PICK new, keys, node : new = position' /\ keys = primaryKeys' /\ node = Cell
  OBVIOUS
<1>8. /\ new = Set(position, Internal(node), Cardinality(IdsOf(position, node.label)))
      /\ keys = Set(primaryKeys, <<node.label, Cardinality(IdsOf(position, node.label))>>, node.pk)
  BY <1>1, <1>5, <1>7, Zenon
<1>9. node \in CellsIn(result, "node") /\ Internal(node) \notin DOMAIN position
  BY <1>4, <1>7
<1>10. /\ PositionsKnown(result, new) /\ Cardinality(DOMAIN position) <= Cardinality(DOMAIN new)
       /\ Cardinality(IdsOf(position, node.label)) <= Cardinality(DOMAIN new)
  BY <1>2, <1>6, <1>8, <1>9, NodePlaced
<1>11. KeysKnown(result, new, keys)
  BY <1>2, <1>6, <1>8, <1>9, KeyPlaced
<1>12. AllHeld(result, nodesDict, unconverted, new)
  BY <1>1, <1>2, <1>3, <1>6, <1>7, <1>8, <1>9, HeldWhole
<1>13. ListsKnown(result, nodesDict, unconverted, position, primaryKeys, pos)'
  <2>1. PICK n \in Nat : n = Cardinality(IdsOf(position, node.label))
    BY <1>6, IdsFinite DEF PositionsKnown
  <2>2. Cardinality(DOMAIN new) \in Nat
    BY <1>10, FS_CardinalityType DEF PositionsKnown
  <2>3. n \in -1..Cardinality(DOMAIN new)
    BY <1>10, <2>1, <2>2
  <2>4. ListsKnown(result, nodesDict, unconverted, new, keys, n)
    BY <1>6, <1>10, <1>11, <2>3 DEF ListsKnown
  <2>5. n = pos
    BY <1>5, <1>7, <2>1
  <2> QED
    BY <1>1, <1>7, <2>4, <2>5
<1>14. (Held(result, nodesDict, unconverted, position, Cell, prop, pos) /\ NodePlace)'
  <2>1. AllHeld(result, nodesDict, unconverted, position)'
    BY <1>1, <1>7, <1>12
  <2> QED
    BY <1>1, <2>1 DEF Held, NodePlace
<1>15. DOMAIN new = DOMAIN position \cup {Internal(node)}
  BY <1>8 DEF Set
<1>16. TorchPassed(result, rowIndex', col', new)
  <2>1. TorchPassed(result, rowIndex, col, position)
    BY <1>1 DEF TorchNodes
  <2>2. DOMAIN position \subseteq DOMAIN new /\ Internal(Cell) \in DOMAIN new
    BY <1>7, <1>15
  <2> QED
    BY <1>1, <1>3, <2>1, <2>2, TorchPassesOne
<1>17. edges = Empty /\ edgeProps = Empty
  BY <1>1 DEF TorchNodes
<1>18. /\ TorchPassed(result, rowIndex, col, position)' /\ edges' = Empty /\ edgeProps' = Empty
       /\ phase' = "rows"
  BY <1>1, <1>7, <1>16, <1>17
<1>19. GraphTyped'
  BY <1>1, <1>2, <1>3, LoopTyped
<1> QED
  BY <1>13, <1>14, <1>18, <1>19 DEF TorchNodes, Empty

-----------------------------------------------------------------------------
SamePropsIn(r, pair) ==
    \A s, t \in RelsIn(r) : PairOf(s) = pair /\ PairOf(t) = pair => s.props = t.props
\* A list of a property of rels is aligned with the edges.
EdgesMatch(r, list, es, ps) ==
    /\ Len(list) = Len(es)
    /\ \A k \in DOMAIN list : \E s \in RelsIn(r) : s.id = list[k] /\ es[k] = <<ps[s.src], ps[s.dst]>>

\* A property is of rels between labels that have edges; if they have the same properties
\* then each of them has a list, aligned with their edges.
EdgesFit(r, es, ep, ps) ==
    /\ \A pair \in DOMAIN es : es[pair] \in Seq(Nat \X Nat)
    /\ \A column \in DOMAIN ep :
         /\ column[1] \in DOMAIN es /\ ep[column] \in Seq({s.id : s \in RelsIn(r)})
         /\ \E s \in RelsIn(r) : \E name \in s.props : column = <<PairOf(s), name>>
         /\ SamePropsIn(r, column[1]) => EdgesMatch(r, ep[column], es[column[1]], ps)
    /\ \A s \in RelsIn(r) : PairOf(s) \in DOMAIN es /\ SamePropsIn(r, PairOf(s)) =>
         \A name \in s.props : <<PairOf(s), name>> \in DOMAIN ep

LEMMA FitsMore ==
    ASSUME NEW r, NEW ps, NEW s \in RelsIn(r), NEW list \in Seq({t.id : t \in RelsIn(r)}),
           NEW es \in Seq(Nat \X Nat), EdgesMatch(r, list, es, ps), NEW pl \in Nat \X Nat,
           pl = <<ps[s.src], ps[s.dst]>>
    PROVE  EdgesMatch(r, Append(list, s.id), Append(es, pl), ps)
<1> DEFINE ids == {t.id : t \in RelsIn(r)}
<1>1. PICK n \in Nat : n = Len(list) /\ n = Len(es)
  BY DEF EdgesMatch
<1>2. PICK list2, es2, id : list2 = Append(list, id) /\ es2 = Append(es, pl) /\ id = s.id
  OBVIOUS
<1>3. id \in ids /\ list \in Seq(ids)
  BY <1>2
<1> HIDE DEF ids
<1>4. /\ list2 \in Seq(ids) /\ Len(list2) = n + 1 /\ list2[n + 1] = id
      /\ \A i \in 1..n : list2[i] = list[i]
  <2>1. /\ Append(list, id) \in Seq(ids) /\ Len(Append(list, id)) = Len(list) + 1
        /\ Append(list, id)[Len(list) + 1] = id
        /\ \A i \in 1..Len(list) : Append(list, id)[i] = list[i]
    BY <1>3, AppendEntries
  <2> QED
    BY <1>1, <1>2, <2>1
<1>5. /\ es2 \in Seq(Nat \X Nat) /\ Len(es2) = n + 1 /\ es2[n + 1] = pl
      /\ \A i \in 1..n : es2[i] = es[i]
  <2>1. /\ Append(es, pl) \in Seq(Nat \X Nat) /\ Len(Append(es, pl)) = Len(es) + 1
        /\ Append(es, pl)[Len(es) + 1] = pl
        /\ \A i \in 1..Len(es) : Append(es, pl)[i] = es[i]
    BY AppendEntries
  <2> QED
    BY <1>1, <1>2, <2>1
<1>6. DOMAIN list = 1..n /\ DOMAIN list2 = 1..(n + 1)
  <2>1. DOMAIN list = 1..Len(list)
    BY <1>3
  <2>2. DOMAIN list2 = 1..Len(list2)
    BY <1>4
  <2> QED
    BY <1>1, <1>4, <2>1, <2>2
<1>7. ASSUME NEW k \in DOMAIN list2
      PROVE  \E t \in RelsIn(r) : t.id = list2[k] /\ es2[k] = <<ps[t.src], ps[t.dst]>>
  <2>1. CASE k = n + 1
    <3>1. s.id = list2[k] /\ es2[k] = <<ps[s.src], ps[s.dst]>>
      BY <1>2, <1>4, <1>5, <2>1
    <3> QED
      BY <3>1
  <2>2. CASE k # n + 1
    <3>1. k \in 1..n
      BY <1>6, <2>2
    <3>2. \E t \in RelsIn(r) : t.id = list[k] /\ es[k] = <<ps[t.src], ps[t.dst]>>
      BY <1>6, <3>1 DEF EdgesMatch
    <3> QED
      BY <1>4, <1>5, <3>1, <3>2
  <2> QED
    BY <2>1, <2>2
<1>8. EdgesMatch(r, list2, es2, ps)
  BY <1>4, <1>5, <1>7 DEF EdgesMatch
<1> QED
  BY <1>2, <1>8

-----------------------------------------------------------------------------

LEMMA EdgesMore ==
    ASSUME NEW r, NEW ps, PositionsKnown(r, ps), NEW s \in RelsIn(r),
           s.src \in DOMAIN ps, s.dst \in DOMAIN ps, NEW es, NEW ep, EdgesFit(r, es, ep, ps),
           NEW es2, es2 = Added(es, {PairOf(s)}, <<ps[s.src], ps[s.dst]>>),
           NEW ep2, ep2 = Added(ep, {<<PairOf(s), name>> : name \in s.props}, s.id)
    PROVE  EdgesFit(r, es2, ep2, ps)
<1> DEFINE ids == {t.id : t \in RelsIn(r)}
<1>1. PICK pair, pl, columns, id : /\ pair = PairOf(s) /\ pl = <<ps[s.src], ps[s.dst]>> /\ id = s.id
                                   /\ columns = {<<pair, name>> : name \in s.props}
  OBVIOUS
<1>2. pl \in Nat \X Nat /\ id \in ids
  BY <1>1 DEF PositionsKnown
<1> HIDE DEF ids
<1>3. /\ DOMAIN es2 = DOMAIN es \cup {pair} /\ es2[pair] = Append(ListAt(es, pair), pl)
      /\ \A y \in DOMAIN es : y # pair => es2[y] = es[y]
  <2>1. es2 = Added(es, {pair}, pl)
    BY <1>1, Zenon
  <2> QED
    BY <2>1 DEF Added
<1>4. /\ DOMAIN ep2 = DOMAIN ep \cup columns
      /\ \A y \in columns : ep2[y] = Append(ListAt(ep, y), id)
      /\ \A y \in DOMAIN ep : y \notin columns => ep2[y] = ep[y]
  <2>1. ep2 = Added(ep, columns, id)
    BY <1>1, Zenon
  <2> QED
    BY <2>1 DEF Added
<1>5. ListAt(es, pair) \in Seq(Nat \X Nat)
  <2>1. CASE pair \in DOMAIN es
    BY <2>1 DEF ListAt, EdgesFit
  <2>2. CASE pair \notin DOMAIN es
    <3>1. ListAt(es, pair) = <<>>
      BY <2>2 DEF ListAt
    <3>2. <<>> \in Seq(Nat \X Nat)
      OBVIOUS
    <3> QED
      BY <3>1, <3>2
  <2> QED
    BY <2>1, <2>2
<1>6. \A y \in DOMAIN es2 : es2[y] \in Seq(Nat \X Nat)
  <2>1. Append(ListAt(es, pair), pl) \in Seq(Nat \X Nat)
    BY <1>2, <1>5, AppendEntries
  <2> QED
    BY <1>3, <2>1 DEF EdgesFit
<1>7. ASSUME NEW column \in columns
      PROVE  /\ column[1] \in DOMAIN es2 /\ ep2[column] \in Seq(ids)
             /\ \E t \in RelsIn(r) : \E name \in t.props : column = <<PairOf(t), name>>
             /\ SamePropsIn(r, column[1]) => EdgesMatch(r, ep2[column], es2[column[1]], ps)
  <2>1. PICK name \in s.props : column = <<pair, name>>
    BY <1>1
  <2>2. column[1] = pair /\ ep2[column] = Append(ListAt(ep, column), id)
    BY <1>4, <2>1
  <2>3. ListAt(ep, column) \in Seq(ids)
    <3>1. CASE column \in DOMAIN ep
      BY <3>1 DEF ListAt, EdgesFit, ids
    <3>2. CASE column \notin DOMAIN ep
      <4>1. ListAt(ep, column) = <<>>
        BY <3>2 DEF ListAt
      <4>2. <<>> \in Seq(ids)
        OBVIOUS
      <4> QED
        BY <4>1, <4>2
    <3> QED
      BY <3>1, <3>2
  <2>4. Append(ListAt(ep, column), id) \in Seq(ids)
    BY <1>2, <2>3, AppendEntries
  <2>5. ASSUME SamePropsIn(r, pair)
        PROVE  EdgesMatch(r, ep2[column], es2[pair], ps)
    <3>1. EdgesMatch(r, ListAt(ep, column), ListAt(es, pair), ps)
      <4>1. CASE pair \in DOMAIN es
        <5>1. column \in DOMAIN ep
          BY <1>1, <2>1, <2>5, <4>1 DEF EdgesFit
        <5>2. EdgesMatch(r, ep[column], es[pair], ps)
          BY <2>2, <2>5, <5>1 DEF EdgesFit
        <5> QED
          BY <4>1, <5>1, <5>2 DEF ListAt
      <4>2. CASE pair \notin DOMAIN es
        <5>1. column \notin DOMAIN ep
          BY <2>2, <4>2 DEF EdgesFit
        <5>2. ListAt(ep, column) = <<>> /\ ListAt(es, pair) = <<>>
          BY <4>2, <5>1 DEF ListAt
        <5>3. EdgesMatch(r, <<>>, <<>>, ps)
          BY DEF EdgesMatch
        <5> QED
          BY <5>2, <5>3
      <4> QED
        BY <4>1, <4>2
    <3>2. EdgesMatch(r, Append(ListAt(ep, column), id), Append(ListAt(es, pair), pl), ps)
      <4>1. ListAt(ep, column) \in Seq({t.id : t \in RelsIn(r)})
        BY <2>3 DEF ids
      <4> QED
        BY <1>1, <1>2, <1>5, <3>1, <4>1, FitsMore
    <3> QED
      BY <1>3, <2>2, <3>2, ZenonT(30)
  <2>6. \E t \in RelsIn(r) : \E x \in t.props : column = <<PairOf(t), x>>
    BY <1>1, <2>1
  <2> QED
    BY <1>3, <2>2, <2>4, <2>5, <2>6
<1>8. ASSUME NEW column \in DOMAIN ep, column \notin columns
      PROVE  /\ column[1] \in DOMAIN es2 /\ ep2[column] \in Seq(ids)
             /\ \E t \in RelsIn(r) : \E name \in t.props : column = <<PairOf(t), name>>
             /\ SamePropsIn(r, column[1]) => EdgesMatch(r, ep2[column], es2[column[1]], ps)
  <2>1. ep2[column] = ep[column]
    BY <1>4, <1>8
  <2>2. /\ column[1] \in DOMAIN es /\ ep[column] \in Seq(ids)
        /\ SamePropsIn(r, column[1]) => EdgesMatch(r, ep[column], es[column[1]], ps)
    BY DEF EdgesFit, ids
  <2>3. PICK t \in RelsIn(r) : \E name \in t.props : column = <<PairOf(t), name>>
    BY DEF EdgesFit
  <2>4. PICK name \in t.props : column = <<PairOf(t), name>>
    BY <2>3
  <2>5. SamePropsIn(r, column[1]) => column[1] # pair
    <3>1. ASSUME SamePropsIn(r, column[1]), column[1] = pair
          PROVE  FALSE
      <4>1. PairOf(t) = pair
        BY <2>4, <3>1
      <4>2. t.props = s.props
        BY <1>1, <3>1, <4>1 DEF SamePropsIn
      <4>3. column \in columns
        BY <1>1, <2>4, <4>1, <4>2
      <4> QED
        BY <1>8, <4>3
    <3> QED
      BY <3>1
  <2>6. SamePropsIn(r, column[1]) => es2[column[1]] = es[column[1]]
    BY <1>3, <2>2, <2>5
  <2> QED
    BY <1>3, <2>1, <2>2, <2>3, <2>6
<1>9. ASSUME NEW t \in RelsIn(r), PairOf(t) \in DOMAIN es2, SamePropsIn(r, PairOf(t)), NEW name \in t.props
      PROVE  <<PairOf(t), name>> \in DOMAIN ep2
  <2>1. CASE PairOf(t) = pair
    <3>1. t.props = s.props
      BY <1>1, <1>9, <2>1 DEF SamePropsIn
    <3> QED
      BY <1>1, <1>4, <2>1, <3>1
  <2>2. CASE PairOf(t) # pair
    <3>1. PairOf(t) \in DOMAIN es
      BY <1>3, <1>9, <2>2
    <3>2. <<PairOf(t), name>> \in DOMAIN ep
      BY <1>9, <3>1 DEF EdgesFit
    <3> QED
      BY <1>4, <3>2
  <2> QED
    BY <2>1, <2>2
<1>10. \A column \in DOMAIN ep2 :
         /\ column[1] \in DOMAIN es2 /\ ep2[column] \in Seq(ids)
         /\ \E t \in RelsIn(r) : \E name \in t.props : column = <<PairOf(t), name>>
         /\ SamePropsIn(r, column[1]) => EdgesMatch(r, ep2[column], es2[column[1]], ps)
  <2>1. \A column \in DOMAIN ep2 : column \in columns \/ (column \in DOMAIN ep /\ column \notin columns)
    BY <1>4
  <2> QED
    BY <1>7, <1>8, <2>1
<1> QED
  BY <1>6, <1>9, <1>10 DEF EdgesFit, ids

-----------------------------------------------------------------------------
\* rels has one with the ends of each rel in the cells that the loop has passed, and those
\* before the second loop's have their edge.
HasEnds(rs, s) == \E i \in DOMAIN rs : rs[i].src = s.src /\ rs[i].dst = s.dst
EndsPassed(r, i, c, rs) ==
    \A k \in RowsOf(r), d \in ColumnsOf(r) :
        Passed(i, c, k, d) /\ r.rows[k][d].kind = "rel" => HasEnds(rs, r.rows[k][d])
HasEdge(es, ps, s) ==
    PairOf(s) \in DOMAIN es /\ <<ps[s.src], ps[s.dst]>> \in ToSet(es[PairOf(s)])
EdgesUpTo(rs, j, es, ps) == \A i \in DOMAIN rs : i < j => HasEdge(es, ps, rs[i])

\* The dictionaries are returned whole, or in part: the keys of the only label with
\* tensors, what is unconverted of some label, the edge_index of the pair of some rel and
\* the edge properties of the first's.
ReturnsWhole(g, nd, un, keys, es, ep) ==
    g = [kind |-> "HeteroData", tensors |-> nd, keys |-> keys, unconverted |-> un,
         edgeIndex |-> es, edgeProps |-> ep]
ReturnsPart(g, nd, un, keys, es, ep, rs) ==
    /\ g.kind = "Data" /\ g.tensors = nd
    /\ \E label : LabelsOf(nd) = {label} /\ g.keys = At(keys, label)
    /\ \E first : g.unconverted = At(un, first) /\ (LabelsOf(un) = {} \/ first \in LabelsOf(un))
    /\ rs = <<>> => g.edgeIndex = Empty /\ g.edgeProps = Empty
    /\ rs # <<>> => /\ \E i \in DOMAIN rs : g.edgeIndex = Part(es, {PairOf(rs[i])})
                    /\ g.edgeProps = At(ep, PairOf(rs[1]))
Returns(g, nd, un, keys, es, ep, rs) ==
    ReturnsWhole(g, nd, un, keys, es, ep) \/ ReturnsPart(g, nd, un, keys, es, ep, rs)

RelsTaken ==
    /\ \A i \in DOMAIN rels : rels[i] \in CellsIn(result, "rel")
    /\ phase = "rows" => EndsPassed(result, rowIndex, col, rels)
    /\ phase \in {"rels", "done"} => EndsPassed(result, Len(result.rows) + 1, 1, rels)
    /\ phase = "rels" => EdgesUpTo(rels, rowIndex, edges, position)
    /\ phase = "done" => /\ EdgesUpTo(rels, Len(rels) + 1, edges, position)
                         /\ Returns(graph, nodesDict, unconverted, primaryKeys, edges, edgeProps, rels)

TorchTaken == TorchNodes /\ EdgesFit(result, edges, edgeProps, position) /\ RelsTaken

LEMMA NoEdges ==
    ASSUME NEW r, NEW ps
    PROVE  EdgesFit(r, Empty, Empty, ps)
<1>1. DOMAIN Empty = {}
  BY DEF Empty
<1> QED
  BY <1>1 DEF EdgesFit

LEMMA EdgeAdded ==
    ASSUME NEW es, \A p \in DOMAIN es : es[p] \in Seq(Nat \X Nat), NEW pair, NEW pl \in Nat \X Nat,
           NEW es2, es2 = Added(es, {pair}, pl)
    PROVE  /\ pair \in DOMAIN es2 /\ pl \in ToSet(es2[pair])
           /\ \A p \in DOMAIN es : p \in DOMAIN es2 /\ ToSet(es[p]) \subseteq ToSet(es2[p])
<1>1. /\ DOMAIN es2 = DOMAIN es \cup {pair} /\ es2[pair] = Append(ListAt(es, pair), pl)
      /\ \A y \in DOMAIN es : y # pair => es2[y] = es[y]
  BY DEF Added
<1>2. PICK list, list2 : list = ListAt(es, pair) /\ list2 = es2[pair]
  OBVIOUS
<1>3. list \in Seq(Nat \X Nat)
  <2>1. <<>> \in Seq(Nat \X Nat)
    OBVIOUS
  <2> QED
    BY <1>2, <2>1 DEF ListAt
<1>4. /\ list2 \in Seq(Nat \X Nat) /\ Len(list2) = Len(list) + 1 /\ list2[Len(list) + 1] = pl
      /\ \A i \in 1..Len(list) : list2[i] = list[i]
  BY <1>1, <1>2, <1>3, AppendEntries
<1>5. PICK n \in Nat : n = Len(list)
  BY <1>3
<1>6. DOMAIN list = 1..n /\ DOMAIN list2 = 1..(n + 1)
  BY <1>3, <1>4, <1>5
<1>7. pl \in ToSet(list2)
  BY <1>4, <1>5, <1>6 DEF ToSet
<1>8. ToSet(list) \subseteq ToSet(list2)
  BY <1>4, <1>5, <1>6 DEF ToSet
<1>9. pair \in DOMAIN es => es[pair] = list
  BY <1>2 DEF ListAt
<1> QED
  BY <1>1, <1>2, <1>7, <1>8, <1>9

LEMMA TorchEdge ==
    ASSUME GraphTyped, TorchTaken, AddEdge
    PROVE  GraphTyped' /\ TorchNodes' /\ EdgesFit(result, edges, edgeProps, position)' /\ RelsTaken'
<1>1. /\ phase = "rels" /\ rowIndex <= Len(rels) /\ rowIndex' = rowIndex + 1
      /\ NextRel.src \in DOMAIN position /\ NextRel.dst \in DOMAIN position
      /\ edges' = Added(edges, {PairOf(NextRel)}, <<position[NextRel.src], position[NextRel.dst]>>)
      /\ edgeProps' = Added(edgeProps, {<<PairOf(NextRel), name>> : name \in NextRel.props}, NextRel.id)
      /\ UNCHANGED <<target, result, dictRows, phase, col, prop, pos, nodesDict, unconverted,
                     position, primaryKeys, nodes, rels, graph>>
  BY DEF AddEdge, Pair, Constant
<1>2. rels \in Seq(RelsIn(result)) /\ rowIndex \in Nat \ {0} /\ prop \in Nat /\ Len(rels) \in Nat
  BY DEF GraphTyped
<1>3. NextRel \in RelsIn(result)
  <2>1. rowIndex \in 1..Len(rels)
    BY <1>1, <1>2
  <2> QED
    BY <1>2, <2>1 DEF NextRel
<1>4. GraphTyped'
  <2>1. ColumnsOf(result)' = ColumnsOf(result) /\ RelsIn(result)' = RelsIn(result)
    BY <1>1
  <2>2. rowIndex' \in Nat \ {0} /\ rowIndex' <= Len(rels) + 1
    BY <1>1, <1>2
  <2> QED
    BY <1>1, <2>1, <2>2 DEF GraphTyped
<1>5. TorchNodes'
  <2>1. prop = 0
    BY <1>1, <1>2 DEF TorchTaken, TorchNodes, NodePlace
  <2>2. TorchPassed(result, Len(result.rows) + 1, 1, position)
    BY <1>1 DEF TorchTaken, TorchNodes
  <2> QED
    BY <1>1, <2>1, <2>2, TorchMoves DEF TorchTaken
<1>6. EdgesFit(result, edges, edgeProps, position)'
  <2>1. PICK s, es2, ep2 : s = NextRel /\ es2 = edges' /\ ep2 = edgeProps'
    OBVIOUS
  <2>2. /\ s \in RelsIn(result) /\ s.src \in DOMAIN position /\ s.dst \in DOMAIN position
        /\ es2 = Added(edges, {PairOf(s)}, <<position[s.src], position[s.dst]>>)
        /\ ep2 = Added(edgeProps, {<<PairOf(s), name>> : name \in s.props}, s.id)
    BY <1>1, <1>3, <2>1
  <2>3. PositionsKnown(result, position) /\ EdgesFit(result, edges, edgeProps, position)
    BY DEF TorchTaken, TorchNodes, ListsKnown
  <2>4. EdgesFit(result, es2, ep2, position)
    BY <2>2, <2>3, EdgesMore
  <2> QED
    BY <1>1, <2>1, <2>4
<1>7. RelsTaken'
  <2>1. /\ \A i \in DOMAIN rels : rels[i] \in CellsIn(result, "rel")
        /\ EndsPassed(result, Len(result.rows) + 1, 1, rels)
        /\ EdgesUpTo(rels, rowIndex, edges, position)
    BY <1>1 DEF TorchTaken, RelsTaken
  <2>2. PICK es2, s, pl : es2 = edges' /\ s = NextRel /\ pl = <<position[s.src], position[s.dst]>>
    OBVIOUS
  <2>3. /\ PairOf(s) \in DOMAIN es2 /\ pl \in ToSet(es2[PairOf(s)])
        /\ \A p \in DOMAIN edges : p \in DOMAIN es2 /\ ToSet(edges[p]) \subseteq ToSet(es2[p])
    <3>1. pl \in Nat \X Nat
      BY <1>1, <2>2 DEF TorchTaken, TorchNodes, ListsKnown, PositionsKnown
    <3>2. PICK es, pair : es = edges /\ pair = PairOf(s)
      OBVIOUS
    <3>3. \A p \in DOMAIN es : es[p] \in Seq(Nat \X Nat)
      BY <3>2 DEF TorchTaken, EdgesFit
    <3>4. es2 = Added(es, {pair}, pl)
      BY <1>1, <2>2, <3>2
    <3>5. /\ pair \in DOMAIN es2 /\ pl \in ToSet(es2[pair])
          /\ \A p \in DOMAIN es : p \in DOMAIN es2 /\ ToSet(es[p]) \subseteq ToSet(es2[p])
      BY <3>1, <3>3, <3>4, EdgeAdded
    <3> QED
      BY <3>2, <3>5
  <2>4. ASSUME NEW i \in DOMAIN rels, i < rowIndex + 1
        PROVE  HasEdge(es2, position, rels[i])
    <3>1. i \in Nat
      BY <1>2
    <3>2. CASE i < rowIndex
      <4>1. HasEdge(edges, position, rels[i])
        BY <2>1, <3>2 DEF EdgesUpTo
      <4> QED
        BY <2>3, <4>1 DEF HasEdge
    <3>3. CASE i = rowIndex
      BY <2>2, <2>3, <3>3 DEF HasEdge, NextRel
    <3> QED
      BY <1>2, <2>4, <3>1, <3>2, <3>3
  <2>5. EdgesUpTo(rels, rowIndex + 1, es2, position)
    BY <2>4 DEF EdgesUpTo
  <2>6. EdgesUpTo(rels, rowIndex, edges, position)'
    BY <1>1, <2>2, <2>5
  <2>7. (\A i \in DOMAIN rels : rels[i] \in CellsIn(result, "rel"))'
    BY <1>1, <2>1
  <2>8. EndsPassed(result, Len(result.rows) + 1, 1, rels)'
    BY <1>1, <2>1
  <2>9. phase' = "rels"
    BY <1>1
  <2> QED
    BY <2>6, <2>7, <2>8, <2>9 DEF RelsTaken
<1> QED
  BY <1>4, <1>5, <1>6, <1>7

LEMMA RelTaken ==
    ASSUME NEW S, NEW rs \in Seq(S), NEW rel \in S
    PROVE  /\ ByEnds(rs, rel) \in Seq(S)
           /\ HasEnds(ByEnds(rs, rel), rel) /\ \A s : HasEnds(rs, s) => HasEnds(ByEnds(rs, rel), s)
<1> DEFINE same == {i \in DOMAIN rs : rs[i].src = rel.src /\ rs[i].dst = rel.dst}
<1>1. CASE same = {}
  <2>1. PICK new : new = ByEnds(rs, rel) /\ new = Append(rs, rel)
    BY <1>1 DEF ByEnds, PutRel
  <2>2. PICK n \in Nat : n = Len(rs) /\ DOMAIN rs = 1..n
    OBVIOUS
  <2>3. /\ new \in Seq(S) /\ Len(new) = n + 1 /\ new[n + 1] = rel
        /\ \A i \in 1..n : new[i] = rs[i]
    BY <2>1, <2>2, AppendEntries
  <2>4. DOMAIN new = 1..(n + 1)
    BY <2>3
  <2>5. n + 1 \in DOMAIN new /\ \A i \in 1..n : i \in DOMAIN new
    BY <2>4
  <2>6. HasEnds(new, rel)
    BY <2>3, <2>5 DEF HasEnds
  <2>7. \A s : HasEnds(rs, s) => HasEnds(new, s)
    BY <2>2, <2>3, <2>5 DEF HasEnds
  <2> QED
    BY <2>1, <2>3, <2>6, <2>7
<1>2. CASE same # {}
  <2>1. ByEnds(rs, rel) = [i \in DOMAIN rs |-> IF i \in same THEN rel ELSE rs[i]]
    BY <1>2 DEF ByEnds, PutRel
  <2>2. PICK n \in Nat : n = Len(rs) /\ DOMAIN rs = 1..n
    OBVIOUS
  <2>3. PICK new : new = ByEnds(rs, rel)
    OBVIOUS
  <2>4. PICK at : at \in same
    BY <1>2
  <2>5. at \in 1..n /\ \A i \in same : rs[i].src = rel.src /\ rs[i].dst = rel.dst
    BY <2>2, <2>4
  <2> HIDE DEF same
  <2>6. \A i \in 1..n : rs[i] \in S
    BY <2>2
  <2>7. [i \in 1..n |-> IF i \in same THEN rel ELSE rs[i]] \in [1..n -> S]
    BY <2>6
  <2>8. new \in Seq(S)
    BY <2>1, <2>2, <2>3, <2>7
  <2>9. DOMAIN new = 1..n /\ \A i \in 1..n : new[i] = IF i \in same THEN rel ELSE rs[i]
    BY <2>1, <2>2, <2>3
  <2>10. \A i \in 1..n : new[i].src = rs[i].src /\ new[i].dst = rs[i].dst
    BY <2>5, <2>9
  <2>11. HasEnds(new, rel)
    BY <2>4, <2>5, <2>9 DEF HasEnds
  <2>12. \A s : HasEnds(rs, s) => HasEnds(new, s)
    BY <2>2, <2>9, <2>10 DEF HasEnds
  <2> QED
    BY <2>3, <2>8, <2>11, <2>12
<1> QED
  BY <1>1, <1>2

-----------------------------------------------------------------------------
LEMMA TorchKeepsEdges ==
    ASSUME TorchTaken, TorchNodes', UNCHANGED <<result, edges, edgeProps>>,
           position' = position \/ phase' = "rows"
    PROVE  EdgesFit(result, edges, edgeProps, position)'
<1>1. CASE position' = position
  BY <1>1 DEF TorchTaken
<1>2. CASE phase' = "rows"
  <2>1. edges' = Empty /\ edgeProps' = Empty
    BY <1>2 DEF TorchNodes, Empty
  <2>2. EdgesFit(result', Empty, Empty, position')
    BY NoEdges
  <2> QED
    BY <2>1, <2>2
<1> QED
  BY <1>1, <1>2

LEMMA TorchOther ==
    ASSUME GraphTyped, target = "torch", TorchNodes, OtherCell
    PROVE  GraphTyped' /\ TorchNodes'
<1>1. /\ phase = "rows" /\ rowIndex <= Len(Rows) /\ NextCell
      /\ ~IsGraphColumn(col) \/ result.columns[col] = "RECURSIVE_REL"
      /\ UNCHANGED <<target, result, dictRows, phase, prop, torchVars, rels>>
  BY DEF OtherCell
<1>2. Cell.kind \in KindsIn(result.columns[col])
  BY <1>1, AtRow
<1>3. PICK kind, type : kind = Cell.kind /\ type = result.columns[col]
  OBVIOUS
<1>4. kind \in KindsIn(type) /\ type # "NODE"
  BY <1>1, <1>2, <1>3 DEF IsGraphColumn
<1>5. Cell.kind # "node"
  BY <1>3, <1>4, ColumnOfKind
<1>6. prop = 0 /\ rels' \in Seq(RelsIn(result))
  BY <1>1, <1>5 DEF GraphTyped, TorchNodes, NodePlace
<1> QED
  BY <1>1, <1>5, <1>6, TorchPasses

LEMMA TorchSeen ==
    ASSUME GraphTyped, target = "torch", TorchNodes, SeenNode \/ TakeRel
    PROVE  GraphTyped' /\ TorchNodes'
<1>1. /\ phase = "rows" /\ rowIndex <= Len(Rows) /\ prop = 0 /\ NextCell
      /\ UNCHANGED <<target, result, dictRows, phase, prop, torchVars>>
      /\ Cell.kind = "node" => Internal(Cell) \in DOMAIN position
  <2>1. CASE SeenNode
    BY <2>1 DEF SeenNode, AtCell, Node, Constant
  <2>2. CASE TakeRel
    BY <2>2 DEF TakeRel, AtCell, Constant
  <2> QED
    BY <2>1, <2>2
<1>2. rels \in Seq(RelsIn(result))
  BY DEF GraphTyped
<1>3. rels' \in Seq(RelsIn(result))
  <2>1. CASE SeenNode
    BY <1>2, <2>1 DEF SeenNode
  <2>2. CASE TakeRel
    <3>1. Cell \in RelsIn(result) /\ rels' = ByEnds(rels, Cell)
      BY <1>1, <2>2, AtRow DEF TakeRel, RelsIn
    <3> QED
      BY <1>2, <3>1, RelTaken
  <2> QED
    BY <2>1, <2>2
<1> QED
  BY <1>1, <1>3, TorchPasses

LEMMA TorchErrs ==
    ASSUME GraphTyped, target = "torch", TorchNodes, DictRow \/ FailNull \/ EndMissing
    PROVE  GraphTyped' /\ TorchNodes'
<1>1. prop = 0
  <2>1. prop \in Nat
    BY DEF GraphTyped
  <2>2. dictRows \/ prop = 0 \/ phase = "rels"
    BY DEF DictRow, FailNull, EndMissing, AtCell
  <2> QED
    BY <2>1, <2>2 DEF TorchNodes, NodePlace
<1>2. FailExport("KeyError") \/ FailExport("TypeError")
  BY DEF DictRow, FailNull, EndMissing
<1> QED
  BY <1>1, <1>2, TorchFails

LEMMA TorchReturns ==
    ASSUME GraphTyped, target = "torch", TorchNodes, TorchGraph
    PROVE  GraphTyped' /\ TorchNodes'
<1>1. /\ phase = "rels" /\ phase' = "done"
      /\ UNCHANGED <<target, result, dictRows, rowIndex, col, prop, torchVars, nodes, rels>>
  BY DEF TorchGraph, Constant
<1>2. prop \in Nat
  BY DEF GraphTyped
<1>3. prop = 0
  BY <1>1, <1>2 DEF TorchNodes, NodePlace
<1>4. TorchPassed(result, Len(result.rows) + 1, 1, position)
  BY <1>1 DEF TorchNodes
<1>5. TorchNodes'
  BY <1>1, <1>3, <1>4, TorchMoves DEF torchVars
<1> QED
  BY <1>1, <1>2, <1>5, StayTyped

-----------------------------------------------------------------------------
\* A step of the first loop, which passes its cell, and one that stays.
LEMMA RelsPass ==
    ASSUME GraphTyped, RelsTaken, phase = "rows", rowIndex <= Len(Rows), NextCell,
           UNCHANGED <<result, phase>>,
           \A i \in DOMAIN rels' : rels'[i] \in CellsIn(result, "rel"),
           \A s : HasEnds(rels, s) => HasEnds(rels', s),
           Cell.kind = "rel" => HasEnds(rels', Cell)
    PROVE  RelsTaken'
<1>1. /\ result \in Results /\ rowIndex \in RowsOf(result) /\ col \in ColumnsOf(result)
      /\ Cell = result.rows[rowIndex][col]
  BY AtRow
<1>2. EndsPassed(result, rowIndex, col, rels)
  BY DEF RelsTaken
<1>3. ASSUME NEW k \in RowsOf(result), NEW d \in ColumnsOf(result), Passed(rowIndex', col', k, d),
             result.rows[k][d].kind = "rel"
      PROVE  HasEnds(rels', result.rows[k][d])
  <2>1. Passed(rowIndex, col, k, d) \/ (k = rowIndex /\ d = col)
    BY <1>1, <1>3, NextPlace
  <2>2. CASE Passed(rowIndex, col, k, d)
    BY <1>2, <1>3, <2>2 DEF EndsPassed
  <2>3. CASE k = rowIndex /\ d = col
    BY <1>1, <1>3, <2>3
  <2> QED
    BY <2>1, <2>2, <2>3
<1>4. EndsPassed(result, rowIndex', col', rels')
  BY <1>3 DEF EndsPassed
<1>5. EndsPassed(result, rowIndex, col, rels)'
  BY <1>4
<1>6. (\A i \in DOMAIN rels : rels[i] \in CellsIn(result, "rel"))'
  OBVIOUS
<1>7. phase' = "rows"
  OBVIOUS
<1> QED
  BY <1>5, <1>6, <1>7 DEF RelsTaken

LEMMA RelsStay ==
    ASSUME RelsTaken, UNCHANGED <<result, rels>>,
           \/ phase = "rows" /\ phase' = "rows" /\ UNCHANGED <<rowIndex, col>>
           \/ phase' = "failed"
    PROVE  RelsTaken'
<1>1. (\A i \in DOMAIN rels : rels[i] \in CellsIn(result, "rel"))'
  BY DEF RelsTaken
<1>2. CASE phase = "rows" /\ phase' = "rows" /\ UNCHANGED <<rowIndex, col>>
  <2>1. EndsPassed(result, rowIndex, col, rels)'
    BY <1>2 DEF RelsTaken
  <2> QED
    BY <1>1, <1>2, <2>1 DEF RelsTaken
<1>3. CASE phase' = "failed"
  BY <1>1, <1>3 DEF RelsTaken
<1> QED
  BY <1>2, <1>3

LEMMA RelsAtNode ==
    ASSUME GraphTyped, target = "torch", TorchTaken, OtherCell \/ SeenNode \/ EndNode
    PROVE  RelsTaken'
<1>1. /\ phase = "rows" /\ rowIndex <= Len(Rows) /\ NextCell /\ Cell.kind # "rel"
      /\ UNCHANGED <<result, phase, rels>>
  <2>1. CASE OtherCell
    <3>1. /\ phase = "rows" /\ rowIndex <= Len(Rows) /\ NextCell /\ UNCHANGED <<result, phase, rels>>
          /\ ~IsGraphColumn(col) \/ result.columns[col] = "RECURSIVE_REL"
      BY <2>1 DEF OtherCell
    <3>2. Cell.kind \in KindsIn(result.columns[col])
      BY <3>1, AtRow
    <3>3. PICK kind, type : kind = Cell.kind /\ type = result.columns[col]
      OBVIOUS
    <3>4. kind \in KindsIn(type) /\ type # "REL"
      BY <3>1, <3>2, <3>3 DEF IsGraphColumn
    <3>5. Cell.kind # "rel"
      BY <3>3, <3>4, ColumnOfKind
    <3> QED
      BY <3>1, <3>5
  <2>2. CASE SeenNode
    BY <2>2 DEF SeenNode, AtCell, Constant
  <2>3. CASE EndNode
    <3>1. prop > 0 /\ phase = "rows" /\ NextCell /\ UNCHANGED <<result, phase, rels>>
      BY <2>3 DEF EndNode, Constant
    <3> QED
      BY <3>1 DEF TorchTaken, TorchNodes, NodePlace
  <2> QED
    BY <2>1, <2>2, <2>3
<1>2. RelsTaken
  BY DEF TorchTaken
<1>3. \A i \in DOMAIN rels' : rels'[i] \in CellsIn(result, "rel")
  BY <1>1, <1>2 DEF RelsTaken
<1>4. \A s : HasEnds(rels, s) => HasEnds(rels', s)
  BY <1>1
<1> QED
  BY <1>1, <1>2, <1>3, <1>4, RelsPass

LEMMA RelsAtRel ==
    ASSUME GraphTyped, target = "torch", TorchTaken, TakeRel
    PROVE  RelsTaken'
<1>1. /\ phase = "rows" /\ rowIndex <= Len(Rows) /\ NextCell /\ Cell.kind = "rel"
      /\ rels' = ByEnds(rels, Cell) /\ UNCHANGED <<result, phase>>
  BY DEF TakeRel, AtCell, Constant
<1>2. RelsTaken /\ rels \in Seq(RelsIn(result))
  BY DEF TorchTaken, GraphTyped
<1>3. PICK S : S = CellsIn(result, "rel")
  OBVIOUS
<1>4. rels \in Seq(S) /\ Cell \in S
  <2>1. PICK n \in Nat : n = Len(rels) /\ DOMAIN rels = 1..n /\ rels = [i \in 1..n |-> rels[i]]
    BY <1>2
  <2>2. \A i \in 1..n : rels[i] \in S
    BY <1>2, <1>3, <2>1 DEF RelsTaken
  <2>3. [i \in 1..n |-> rels[i]] \in [1..n -> S]
    BY <2>2
  <2>4. rels \in [1..n -> S]
    BY <2>1, <2>3, Zenon
  <2>5. rels \in Seq(S)
    BY <2>4
  <2>6. Cell \in S
    BY <1>1, <1>3, AtRow
  <2> QED
    BY <2>5, <2>6
<1>5. PICK new : new = rels'
  OBVIOUS
<1>6. new \in Seq(S) /\ HasEnds(new, Cell) /\ \A s : HasEnds(rels, s) => HasEnds(new, s)
  BY <1>1, <1>4, <1>5, RelTaken
<1>7. \A i \in DOMAIN new : new[i] \in S
  BY <1>6
<1>8. \A i \in DOMAIN rels' : rels'[i] \in CellsIn(result, "rel")
  BY <1>3, <1>5, <1>7
<1> QED
  BY <1>1, <1>2, <1>5, <1>6, <1>8, RelsPass

LEMMA RelsRowsDone ==
    ASSUME GraphTyped, target = "torch", TorchTaken, RowsDone
    PROVE  RelsTaken'
<1>1. /\ phase = "rows" /\ rowIndex > Len(Rows) /\ phase' = "rels" /\ rowIndex' = 1
      /\ UNCHANGED <<result, rels>>
  BY DEF RowsDone
<1>2. /\ result \in Results /\ rowIndex \in Nat \ {0} /\ Len(result.rows) \in Nat
      /\ rels \in Seq(RelsIn(result))
  BY ResultShape DEF GraphTyped
<1>3. EndsPassed(result, Len(result.rows) + 1, 1, rels)
  <2>1. \A k \in RowsOf(result), d \in ColumnsOf(result) : Passed(rowIndex, col, k, d)
    BY <1>1, <1>2 DEF RowsOf, Passed, Rows
  <2>2. EndsPassed(result, rowIndex, col, rels)
    BY <1>1 DEF TorchTaken, RelsTaken
  <2> QED
    BY <2>1, <2>2 DEF EndsPassed
<1>4. EndsPassed(result, Len(result.rows) + 1, 1, rels)'
  BY <1>1, <1>3
<1>5. EdgesUpTo(rels, rowIndex, edges, position)'
  <2>1. \A i \in DOMAIN rels : i \in Nat /\ ~(i < 1)
    BY <1>2
  <2>2. \A es, ps : EdgesUpTo(rels, 1, es, ps)
    BY <2>1 DEF EdgesUpTo
  <2>3. EdgesUpTo(rels', rowIndex', edges', position')
    BY <1>1, <2>2
  <2> QED
    BY <2>3
<1>6. (\A i \in DOMAIN rels : rels[i] \in CellsIn(result, "rel"))'
  BY <1>1 DEF TorchTaken, RelsTaken
<1> QED
  BY <1>1, <1>4, <1>5, <1>6 DEF RelsTaken

LEMMA LastMetIs ==
    ASSUME NEW n \in Nat \ {0}, NEW keys, DOMAIN keys = 1..n
    PROVE  \E i \in 1..n : LastMet(keys) = keys[i]
<1> DEFINE firsts == {i \in DOMAIN keys : \A j \in 1..(i - 1) : keys[j] # keys[i]}
<1>1. 1 \in firsts /\ firsts \in SUBSET (1..n)
  OBVIOUS
<1>2. LastMet(keys) = keys[Max(firsts)]
  BY DEF LastMet
<1> HIDE DEF firsts
<1>3. Max(firsts) \in firsts
  BY <1>1, MaxOfPlaces
<1> QED
  BY <1>1, <1>2, <1>3

\* The pair whose edge_index is set last is the pair of some rel.
LEMMA LastPairIs ==
    ASSUME rels \in Seq(RelsIn(result)), rels # <<>>
    PROVE  \E i \in DOMAIN rels : LastPair = PairOf(rels[i])
<1>1. PICK n \in Nat \ {0} : n = Len(rels) /\ DOMAIN rels = 1..n
  BY EmptySeq
<1> DEFINE source == LastMet([i \in DOMAIN rels |-> rels[i].src[1]])
           pairs == [i \in DOMAIN rels |->
                       IF rels[i].src[1] = source THEN PairOf(rels[i]) ELSE PairOf(rels[1])]
<1>2. LastPair = LastMet(pairs)
  BY DEF LastPair
<1>3. DOMAIN pairs = 1..n /\ \A i \in 1..n : pairs[i] = PairOf(rels[i]) \/ pairs[i] = PairOf(rels[1])
  BY <1>1
<1> HIDE DEF pairs
<1>4. PICK i \in 1..n : LastMet(pairs) = pairs[i]
  BY <1>3, LastMetIs
<1>5. LastPair = PairOf(rels[i]) \/ LastPair = PairOf(rels[1])
  BY <1>2, <1>3, <1>4
<1>6. 1 \in DOMAIN rels /\ i \in DOMAIN rels
  BY <1>1
<1> QED
  BY <1>5, <1>6

LEMMA RelsReturned ==
    ASSUME GraphTyped, target = "torch", TorchTaken, TorchGraph
    PROVE  RelsTaken'
<1>1. /\ phase = "rels" /\ rowIndex > Len(rels) /\ phase' = "done"
      /\ UNCHANGED <<result, rels, torchVars>>
  BY DEF TorchGraph, Constant
<1>2. UNCHANGED <<nodesDict, unconverted, primaryKeys, edges, edgeProps, position>>
  BY <1>1 DEF torchVars
<1>3. rels \in Seq(RelsIn(result)) /\ rowIndex \in Nat /\ Len(rels) \in Nat
  BY DEF GraphTyped
<1>4. /\ \A i \in DOMAIN rels : rels[i] \in CellsIn(result, "rel")
      /\ EndsPassed(result, Len(result.rows) + 1, 1, rels)
      /\ EdgesUpTo(rels, rowIndex, edges, position)
  BY <1>1 DEF TorchTaken, RelsTaken
<1>5. EdgesUpTo(rels, Len(rels) + 1, edges, position)
  <2>1. \A i \in DOMAIN rels : i < rowIndex
    BY <1>1, <1>3
  <2> QED
    BY <1>4, <2>1 DEF EdgesUpTo
<1>6. PICK first, g : /\ g = graph' /\ g = TorchData(first)
                      /\ LabelsOf(unconverted) = {} \/ first \in LabelsOf(unconverted)
  <2>1. PICK first \in LabelsOf(unconverted) \cup {"none"} :
          (first = "none" <=> LabelsOf(unconverted) = {}) /\ graph' = TorchData(first)
    BY Zenon DEF TorchGraph
  <2>2. LabelsOf(unconverted) = {} \/ first \in LabelsOf(unconverted)
    BY <2>1
  <2> QED
    BY <2>1, <2>2, Zenon
<1>7. ASSUME Cardinality(LabelsOf(nodesDict)) # 1
      PROVE  Returns(g, nodesDict, unconverted, primaryKeys, edges, edgeProps, rels)
  <2>1. ReturnsWhole(g, nodesDict, unconverted, primaryKeys, edges, edgeProps)
    BY <1>6, <1>7, Zenon DEF TorchData, ReturnsWhole
  <2> QED
    BY <2>1, Zenon DEF Returns
<1>8. ASSUME Cardinality(LabelsOf(nodesDict)) = 1
      PROVE  Returns(g, nodesDict, unconverted, primaryKeys, edges, edgeProps, rels)
  <2>1. PICK label : LabelsOf(nodesDict) = {label}
    BY <1>8, FS_Singleton DEF TorchTaken, TorchNodes, ListsKnown
  <2>2. (CHOOSE l \in LabelsOf(nodesDict) : TRUE) = label
    <3>1. (CHOOSE l \in {label} : TRUE) \in {label}
      BY Zenon
    <3> QED
      BY <2>1, <3>1
  <2>3. /\ g.kind = "Data" /\ g.tensors = nodesDict /\ g.keys = At(primaryKeys, label)
        /\ g.unconverted = At(unconverted, first)
        /\ g.edgeIndex = (IF rels = <<>> THEN Empty ELSE Part(edges, {LastPair}))
        /\ g.edgeProps = (IF rels = <<>> THEN Empty ELSE At(edgeProps, PairOf(rels[1])))
    <3>1. g = [kind |-> "Data", tensors |-> nodesDict, keys |-> At(primaryKeys, label),
               unconverted |-> At(unconverted, first),
               edgeIndex |-> IF rels = <<>> THEN Empty ELSE Part(edges, {LastPair}),
               edgeProps |-> IF rels = <<>> THEN Empty ELSE At(edgeProps, PairOf(rels[1]))]
      BY <1>6, <1>8, <2>2, Zenon DEF TorchData
    <3> QED
      BY <3>1
  <2>4. rels # <<>> => \E i \in DOMAIN rels : g.edgeIndex = Part(edges, {PairOf(rels[i])})
    BY <1>3, <2>3, LastPairIs
  <2>5. ReturnsPart(g, nodesDict, unconverted, primaryKeys, edges, edgeProps, rels)
    BY <1>6, <2>1, <2>3, <2>4 DEF ReturnsPart
  <2> QED
    BY <2>5 DEF Returns
<1>9. Returns(g, nodesDict, unconverted, primaryKeys, edges, edgeProps, rels)
  BY <1>7, <1>8
<1>10. Returns(graph, nodesDict, unconverted, primaryKeys, edges, edgeProps, rels)'
  BY <1>1, <1>2, <1>6, <1>9
<1>11. EdgesUpTo(rels, Len(rels) + 1, edges, position)'
  BY <1>1, <1>2, <1>5
<1>12. (\A i \in DOMAIN rels : rels[i] \in CellsIn(result, "rel"))'
  BY <1>1, <1>4
<1>13. EndsPassed(result, Len(result.rows) + 1, 1, rels)'
  BY <1>1, <1>4
<1> QED
  BY <1>1, <1>10, <1>11, <1>12, <1>13 DEF RelsTaken

LEMMA TorchStep ==
    ASSUME GraphTyped, target = "torch", TorchTaken, GraphNext
    PROVE  GraphTyped' /\ TorchTaken' /\ target' = "torch"
<1>1. TorchNodes /\ RelsTaken /\ target # "networkx"
  BY DEF TorchTaken
<1>2. CASE AddEdge
  <2>1. target' = "torch"
    BY <1>2 DEF AddEdge, Constant
  <2> QED
    BY <1>2, <2>1, TorchEdge DEF TorchTaken
<1>3. CASE OtherCell \/ SeenNode \/ TakeRel \/ DictRow \/ FailNull \/ EndMissing \/ TorchGraph \/ RowsDone
  <2>1. GraphTyped' /\ TorchNodes'
    BY <1>1, <1>3, TorchOther, TorchSeen, TorchErrs, TorchReturns, TorchRowsDone
  <2>2. UNCHANGED <<target, result, torchVars>>
    BY <1>3 DEF OtherCell, SeenNode, TakeRel, DictRow, FailNull, EndMissing, TorchGraph, RowsDone,
                FailExport, Constant
  <2>3. UNCHANGED <<edges, edgeProps, position, target, result>>
    BY <2>2 DEF torchVars
  <2>4. EdgesFit(result, edges, edgeProps, position)'
    BY <2>1, <2>3, TorchKeepsEdges
  <2>5. CASE DictRow \/ FailNull \/ EndMissing
    <3>1. UNCHANGED <<result, rels>> /\ phase' = "failed"
      BY <2>5 DEF DictRow, FailNull, EndMissing, FailExport
    <3> QED
      BY <1>1, <2>1, <2>3, <2>4, <3>1, RelsStay DEF TorchTaken
  <2> QED
    BY <1>3, <2>1, <2>3, <2>4, <2>5, RelsAtNode, RelsAtRel, RelsReturned, RelsRowsDone DEF TorchTaken
<1>4. CASE NewNode \/ EndNode
  <2>1. GraphTyped' /\ TorchNodes'
    BY <1>1, <1>4, TorchNewNode, TorchEndNode
  <2>2. UNCHANGED <<edges, edgeProps, target, result>> /\ phase' = "rows"
    BY <1>4 DEF NewNode, EndNode, AtCell, Constant
  <2>3. EdgesFit(result, edges, edgeProps, position)'
    BY <2>1, <2>2, TorchKeepsEdges
  <2>4. CASE NewNode
    <3>1. UNCHANGED <<result, rels, rowIndex, col>> /\ phase = "rows"
      BY <2>4 DEF NewNode, AtCell, Constant
    <3> QED
      BY <1>1, <2>1, <2>2, <2>3, <3>1, RelsStay DEF TorchTaken
  <2> QED
    BY <1>4, <2>1, <2>2, <2>3, <2>4, RelsAtNode DEF TorchTaken
<1>5. CASE AlreadyUnconverted \/ Unconvertible \/ Convertible
  <2>1. TakesProperty
    BY <1>1, <1>5, TakesOne
  <2>2. GraphTyped' /\ TorchNodes'
    BY <1>1, <2>1, TorchProperty
  <2>3. /\ UNCHANGED <<edges, edgeProps, position, target, result, rels, rowIndex, col, phase>>
        /\ phase = "rows"
    BY <2>1 DEF TakesProperty, NextProperty, AtProperty, Constant
  <2>4. EdgesFit(result, edges, edgeProps, position)'
    BY <2>2, <2>3, TorchKeepsEdges
  <2>5. RelsTaken'
    BY <1>1, <2>3, RelsStay
  <2> QED
    BY <2>2, <2>3, <2>4, <2>5 DEF TorchTaken
<1> QED
  BY <1>1, <1>2, <1>3, <1>4, <1>5
     DEF GraphNext, SkipNull, TakeNxNode, TakeNxRel, TakePath, NxGraph, NxEndMissing

-----------------------------------------------------------------------------
GraphInv ==
    /\ GraphTyped
    /\ target = "networkx" => NxTaken /\ TorchIdle
    /\ target = "torch" => TorchTaken

LEMMA GraphBegins == GraphInit => GraphInv
<1> SUFFICES ASSUME GraphInit PROVE GraphInv
  OBVIOUS
<1>1. /\ target \in {"networkx", "torch"} /\ result \in Results /\ dictRows \in BOOLEAN
      /\ phase = "rows" /\ rowIndex = 1 /\ col = 1 /\ prop = 0
      /\ pos = -1 /\ nodesDict = Empty /\ unconverted = Empty
      /\ position = Empty /\ nodes = Empty /\ rels = <<>> /\ edges = Empty /\ edgeProps = Empty
  BY DEF GraphInit
<1>2. Len(result.rows) \in Nat /\ Len(result.columns) \in Nat \ {0}
  BY <1>1, ResultShape
<1>3. DOMAIN Empty = {}
  BY DEF Empty
<1>4. GraphTyped
  <2>1. 1 \in ColumnsOf(result) /\ 1 <= Len(result.rows) + 1
    BY <1>2 DEF ColumnsOf
  <2>2. <<>> \in Seq(RelsIn(result))
    OBVIOUS
  <2> QED
    BY <1>1, <2>1, <2>2 DEF GraphTyped
<1>5. \A k \in RowsOf(result), d \in ColumnsOf(result) : ~Passed(1, 1, k, d)
  BY DEF RowsOf, ColumnsOf, Passed
<1>6. NxTaken
  <2>1. NodesKnown(result, Empty)
    BY <1>3 DEF NodesKnown
  <2>2. RelsKnown(result, <<>>)
    BY DEF RelsKnown
  <2>3. NxPassed(result, 1, 1, Empty, <<>>)
    BY <1>5 DEF NxPassed
  <2> QED
    BY <1>1, <2>1, <2>2, <2>3 DEF NxTaken, NetworkxComplete, Done
<1>7. TorchIdle
  BY <1>1 DEF TorchIdle
<1>8. PositionsKnown(result, Empty) /\ KeysKnown(result, Empty, primaryKeys) /\ Cardinality(DOMAIN Empty) = 0
  <2>1. IsFiniteSet({}) /\ Cardinality({}) = 0
    BY FS_EmptySet
  <2> QED
    BY <1>3, <2>1 DEF PositionsKnown, KeysKnown
<1>9. AllHeld(result, Empty, Empty, Empty)
  <2>1. ASSUME NEW label \in DOMAIN Schema, NEW i \in DOMAIN Schema[label]
        PROVE  ColumnHeld(result, Empty, Empty, Empty, label, i)
    <3>1. Listed(Empty, Empty, PlaceOf(label, i)) = <<>>
      BY <1>3 DEF Listed, ListAt
    <3>2. IdsOf(Empty, label) = {} /\ Cardinality({}) = 0
      BY <1>3, FS_EmptySet DEF IdsOf
    <3>3. AtPlaces(result, <<>>, Empty, label, Schema[label][i].name)
      BY <1>3 DEF AtPlaces
    <3>4. <<>> \in Seq(StoredIn(result)) /\ Len(<<>>) = 0
      OBVIOUS
    <3>5. Holds(result, <<>>, Empty, label, Schema[label][i].name)
      BY <3>2, <3>3, <3>4 DEF Holds
    <3> QED
      BY <3>1, <3>5 DEF ColumnHeld
  <2> QED
    BY <2>1 DEF AllHeld
<1>10. TorchNodes
  <2>1. IsFiniteSet(LabelsOf(nodesDict))
    BY <1>1, <1>3, FS_EmptySet DEF LabelsOf
  <2>2. ListsKnown(result, nodesDict, unconverted, position, primaryKeys, pos)
    BY <1>1, <1>3, <1>8, <2>1 DEF ListsKnown
  <2>3. Held(result, nodesDict, unconverted, position, Cell, prop, pos) /\ NodePlace
    BY <1>1, <1>9 DEF Held, NodePlace
  <2>4. TorchPassed(result, rowIndex, col, position)
    BY <1>1, <1>5 DEF TorchPassed
  <2> QED
    BY <1>1, <2>2, <2>3, <2>4 DEF TorchNodes
<1>11. TorchTaken
  <2>1. EndsPassed(result, rowIndex, col, rels)
    BY <1>1, <1>5 DEF EndsPassed
  <2>2. RelsTaken
    BY <1>1, <2>1 DEF RelsTaken
  <2> QED
    BY <1>1, <1>10, <2>2, NoEdges DEF TorchTaken
<1> QED
  BY <1>4, <1>6, <1>7, <1>11 DEF GraphInv

LEMMA GraphStep == GraphInv /\ [GraphNext]_graphVars => GraphInv'
<1> SUFFICES ASSUME GraphInv, [GraphNext]_graphVars PROVE GraphInv'
  OBVIOUS
<1>1. GraphTyped /\ target \in {"networkx", "torch"}
  BY DEF GraphInv, GraphTyped
<1>2. CASE GraphNext
  <2>1. CASE target = "networkx"
    BY <1>1, <1>2, <2>1, NxStep DEF GraphInv
  <2>2. CASE target = "torch"
    BY <1>1, <1>2, <2>2, TorchStep DEF GraphInv
  <2> QED
    BY <1>1, <2>1, <2>2
<1>3. CASE UNCHANGED graphVars
  <2>1. /\ target' = target /\ result' = result /\ dictRows' = dictRows /\ phase' = phase
        /\ rowIndex' = rowIndex /\ col' = col /\ prop' = prop /\ nodes' = nodes /\ rels' = rels
        /\ graph' = graph /\ pos' = pos /\ nodesDict' = nodesDict /\ unconverted' = unconverted
        /\ position' = position /\ primaryKeys' = primaryKeys /\ edges' = edges
        /\ edgeProps' = edgeProps
    BY <1>3 DEF graphVars, torchVars
  <2>2. GraphTyped'
    BY <1>1, <2>1 DEF GraphTyped
  <2>3. NxTaken => NxTaken'
    <3>1. NetworkxComplete => NetworkxComplete'
      BY <2>1 DEF NetworkxComplete, Done, AllNodes, AllRels
    <3> QED
      BY <2>1, <3>1 DEF NxTaken
  <2>4. TorchIdle => TorchIdle'
    BY <2>1 DEF TorchIdle, Empty
  <2>5. TorchTaken => TorchTaken'
    <3>1. TorchNodes => TorchNodes'
      BY <2>1 DEF TorchNodes, NodePlace, Cell, Rows, Empty
    <3>2. RelsTaken => RelsTaken'
      BY <2>1 DEF RelsTaken
    <3>3. EdgesFit(result, edges, edgeProps, position) => EdgesFit(result, edges, edgeProps, position)'
      BY <2>1
    <3> QED
      BY <3>1, <3>2, <3>3 DEF TorchTaken
  <2> QED
    BY <2>1, <2>2, <2>3, <2>4, <2>5 DEF GraphInv
<1> QED
  BY <1>2, <1>3

-----------------------------------------------------------------------------

\* The inductive invariant of GraphExport: the loop of get_as_networkx() and of the torch
\* converter has taken the nodes and rels of the cells it has passed, and each list of a
\* property has the values of the nodes of its label, in place, even between two
\* properties of one node; the rels that the second loop has passed have their edges, and
\* what is returned are the dictionaries or the parts of them that Data gets.
THEOREM GraphInvariance == GraphSpec => []GraphInv
BY GraphBegins, GraphStep, PTL DEF GraphSpec

LEMMA GraphInvTypes == GraphInv => GraphTypeOK
<1> SUFFICES ASSUME GraphInv PROVE GraphTypeOK
  OBVIOUS
<1>1. /\ result \in Results /\ rels \in Seq(RelsIn(result)) /\ rowIndex \in Nat \ {0}
      /\ rowIndex <= Len(result.rows) + 1 \/ rowIndex <= Len(rels) + 1
      /\ col \in ColumnsOf(result) /\ target \in {"networkx", "torch"}
      /\ phase \in {"rows", "rels", "done", "failed"}
  BY DEF GraphInv, GraphTyped
<1>2. Len(Rows) \in Nat /\ Rows = result.rows /\ DOMAIN result.columns = ColumnsOf(result)
  BY <1>1, ResultShape DEF Rows
<1>3. PICK a \in Nat, b \in Nat : a = Len(Rows) /\ b = Len(rels)
  BY <1>1, <1>2
<1>4. rowIndex \in 1..(Max({Len(Rows), Len(rels)}) + 1)
  <2>1. PICK m \in Nat : m = Max({a, b}) /\ a <= m /\ b <= m
    <3>1. Max({a, b}) \in {a, b} /\ a <= Max({a, b}) /\ b <= Max({a, b})
      BY MaxOfTwo
    <3> QED
      BY <3>1
  <2>2. rowIndex <= a + 1 \/ rowIndex <= b + 1
    BY <1>1, <1>2, <1>3
  <2>3. rowIndex \in 1..(m + 1)
    BY <1>1, <2>1, <2>2
  <2> QED
    BY <1>3, <2>1, <2>3
<1>5. /\ pos \in -1..Cardinality(DOMAIN position)
      /\ DOMAIN nodesDict \cap DOMAIN unconverted = {}
  <2>1. CASE target = "networkx"
    <3>1. pos = -1 /\ nodesDict = Empty /\ unconverted = Empty /\ position = Empty
      BY <2>1 DEF GraphInv, TorchIdle
    <3>2. DOMAIN Empty = {} /\ Cardinality({}) = 0
      BY FS_EmptySet DEF Empty
    <3> QED
      BY <3>1, <3>2
  <2>2. CASE target = "torch"
    BY <2>2 DEF GraphInv, TorchTaken, TorchNodes, ListsKnown
  <2> QED
    BY <1>1, <2>1, <2>2
<1> QED
  BY <1>1, <1>2, <1>4, <1>5 DEF GraphTypeOK

\* When the loop over rows is over every node has its values at its position.
LEMMA NodesKept ==
    ASSUME GraphTyped, TorchNodes, phase = "done", NEW n \in CellsIn(result, "node")
    PROVE  /\ Internal(n) \in DOMAIN position
           /\ <<n.label, position[Internal(n)]>> \in DOMAIN primaryKeys
           /\ primaryKeys[<<n.label, position[Internal(n)]>>] = n.pk
           /\ \A i \in DOMAIN Schema[n.label] :
                IF PlaceOf(n.label, i) \in DOMAIN nodesDict THEN InPlace(nodesDict, PlaceOf(n.label, i), n)
                ELSE InPlace(unconverted, PlaceOf(n.label, i), n)
<1>1. /\ result \in Results /\ prop \in Nat
  BY DEF GraphTyped
<1>2. /\ PositionsKnown(result, position) /\ KeysKnown(result, position, primaryKeys)
      /\ AllHeld(result, nodesDict, unconverted, position)
      /\ TorchPassed(result, Len(result.rows) + 1, 1, position)
  <2>1. prop = 0
    BY <1>1 DEF TorchNodes, NodePlace
  <2> QED
    BY <2>1 DEF TorchNodes, ListsKnown, Held
<1>3. Internal(n) \in DOMAIN position
  <2>1. PICK k \in RowsOf(result), d \in ColumnsOf(result) : n = result.rows[k][d] /\ n.kind = "node"
    BY <1>1, CellPlace
  <2>2. Passed(Len(result.rows) + 1, 1, k, d)
    BY <1>1, ResultShape DEF RowsOf, Passed
  <2> QED
    BY <1>2, <2>1, <2>2 DEF TorchPassed
<1>4. /\ <<n.label, position[Internal(n)]>> \in DOMAIN primaryKeys
      /\ primaryKeys[<<n.label, position[Internal(n)]>>] = n.pk
  BY <1>2, <1>3 DEF KeysKnown
<1>5. ASSUME NEW i \in DOMAIN Schema[n.label], NEW column, column = PlaceOf(n.label, i)
      PROVE  IF column \in DOMAIN nodesDict THEN InPlace(nodesDict, column, n)
             ELSE InPlace(unconverted, column, n)
  <2>1. n.label \in DOMAIN Schema
    BY <1>1, GraphExportAssumption
  <2>2. PICK held : held = Listed(nodesDict, unconverted, column)
    OBVIOUS
  <2>3. Holds(result, held, position, n.label, Schema[n.label][i].name)
    BY <1>2, <1>5, <2>1, <2>2 DEF AllHeld, ColumnHeld
  <2>4. /\ Len(held) = Cardinality(IdsOf(position, n.label))
        /\ held[position[Internal(n)] + 1] = StoredOf(n, Schema[n.label][i].name)
    BY <1>3, <2>3 DEF Holds, AtPlaces
  <2>5. column[2] = Schema[n.label][i].name
    BY <1>5 DEF PlaceOf
  <2>6. column \in DOMAIN nodesDict \/ column \in DOMAIN unconverted
    <3>1. Internal(n) \in IdsOf(position, n.label)
      BY <1>3 DEF IdsOf, Internal
    <3>2. IsFiniteSet(IdsOf(position, n.label))
      BY <1>2, IdsFinite DEF PositionsKnown
    <3>3. Cardinality(IdsOf(position, n.label)) # 0
      BY <3>1, <3>2, FS_EmptySet
    <3>4. held # <<>>
      BY <2>4, <3>3
    <3> QED
      BY <2>2, <3>4 DEF Listed, ListAt
  <2>7. held = IF column \in DOMAIN nodesDict THEN nodesDict[column] ELSE unconverted[column]
    BY <2>2, <2>6 DEF Listed, ListAt
  <2>8. \A f : column \in DOMAIN f /\ f[column] = held => InPlace(f, column, n)
    BY <2>4, <2>5 DEF InPlace, IdsOf, StoredOf
  <2> QED
    BY <2>6, <2>7, <2>8
<1> QED
  BY <1>3, <1>4, <1>5

\* And in what is returned, if its label is, but for what Data has no place for.
LEMMA NodesInPlace ==
    ASSUME GraphTyped, TorchNodes, RelsTaken, phase = "done"
    PROVE  NodesAligned
<1>1. Returns(graph, nodesDict, unconverted, primaryKeys, edges, edgeProps, rels)
  BY DEF RelsTaken
<1>2. ASSUME NEW n \in CellsIn(result, "node"), LabelReturned(n.label)
      PROVE  /\ graph.keys[<<n.label, position[Internal(n)]>>] = n.pk
             /\ \A i \in DOMAIN Schema[n.label] :
                  LET column == <<n.label, Schema[n.label][i].name>>
                  IN  \/ InPlace(graph.tensors, column, n)
                      \/ InPlace(graph.unconverted, column, n)
                      \/ /\ graph.kind = "Data" /\ column \notin DOMAIN graph.tensors
                         /\ n.label \notin LabelsOf(graph.unconverted) /\ graph.unconverted # Empty
  <2>1. PICK id, key : id = Internal(n) /\ key = <<n.label, position[id]>>
    OBVIOUS
  <2>2. key \in DOMAIN primaryKeys /\ primaryKeys[key] = n.pk
    BY <2>1, NodesKept
  <2>3. CASE ReturnsWhole(graph, nodesDict, unconverted, primaryKeys, edges, edgeProps)
    <3>1. graph.tensors = nodesDict /\ graph.keys = primaryKeys /\ graph.unconverted = unconverted
      BY <2>3 DEF ReturnsWhole
    <3>2. \A i \in DOMAIN Schema[n.label] :
            InPlace(graph.tensors, PlaceOf(n.label, i), n) \/ InPlace(graph.unconverted, PlaceOf(n.label, i), n)
      BY <3>1, NodesKept
    <3> QED
      BY <2>1, <2>2, <3>1, <3>2 DEF PlaceOf
  <2>4. CASE ReturnsPart(graph, nodesDict, unconverted, primaryKeys, edges, edgeProps, rels)
    <3>1. graph.kind = "Data" /\ graph.tensors = nodesDict
      BY <2>4 DEF ReturnsPart
    <3>2. PICK label : LabelsOf(nodesDict) = {label} /\ graph.keys = At(primaryKeys, label)
      BY <2>4 DEF ReturnsPart
    <3>3. PICK first : /\ graph.unconverted = At(unconverted, first)
                       /\ LabelsOf(unconverted) = {} \/ first \in LabelsOf(unconverted)
      BY <2>4 DEF ReturnsPart
    <3>4. n.label = label
      BY <1>2, <3>1, <3>2 DEF LabelReturned
    <3>5. graph.keys[key] = n.pk
      BY <2>1, <2>2, <3>2, <3>4 DEF At, Part
    <3>6. /\ DOMAIN graph.unconverted = {x \in DOMAIN unconverted : x[1] = first}
          /\ \A x \in DOMAIN graph.unconverted : graph.unconverted[x] = unconverted[x]
      BY <3>3 DEF At, Part
    <3>7. ASSUME NEW i \in DOMAIN Schema[n.label], NEW column, column = PlaceOf(n.label, i)
          PROVE  \/ InPlace(graph.tensors, column, n)
                 \/ InPlace(graph.unconverted, column, n)
                 \/ /\ graph.kind = "Data" /\ column \notin DOMAIN graph.tensors
                    /\ n.label \notin LabelsOf(graph.unconverted) /\ graph.unconverted # Empty
      <4>1. IF column \in DOMAIN nodesDict THEN InPlace(nodesDict, column, n)
            ELSE InPlace(unconverted, column, n)
        BY <3>7, NodesKept
      <4>2. CASE column \in DOMAIN nodesDict
        BY <3>1, <4>1, <4>2
      <4>3. CASE column \notin DOMAIN nodesDict /\ first = n.label
        <5>1. InPlace(unconverted, column, n) /\ column[1] = first
          BY <3>7, <4>1, <4>3 DEF PlaceOf
        <5>2. column \in DOMAIN unconverted
          BY <5>1 DEF InPlace
        <5>3. column \in DOMAIN graph.unconverted /\ graph.unconverted[column] = unconverted[column]
          BY <3>6, <5>1, <5>2
        <5>4. InPlace(graph.unconverted, column, n)
          BY <5>1, <5>3 DEF InPlace
        <5> QED
          BY <5>4
      <4>4. CASE column \notin DOMAIN nodesDict /\ first # n.label
        <5>1. column \in DOMAIN unconverted
          BY <4>1, <4>4 DEF InPlace
        <5>2. first \in LabelsOf(unconverted)
          BY <3>3, <5>1 DEF LabelsOf
        <5>3. n.label \notin LabelsOf(graph.unconverted)
          BY <3>6, <4>4 DEF LabelsOf
        <5>4. DOMAIN graph.unconverted # {}
          BY <3>6, <5>2 DEF LabelsOf
        <5>5. graph.unconverted # Empty
          BY <5>4 DEF Empty
        <5> QED
          BY <3>1, <4>4, <5>3, <5>5
      <4> QED
        BY <4>2, <4>3, <4>4
    <3> QED
      BY <2>1, <3>5, <3>7 DEF PlaceOf
  <2> QED
    BY <1>1, <2>3, <2>4 DEF Returns
<1>3. \A n \in CellsIn(result, "node") : Internal(n) \in DOMAIN position
  BY NodesKept
<1> QED
  BY <1>2, <1>3 DEF NodesAligned

\* Every rel has its edge in what is returned, if its pair is or there is no other.
LEMMA RelsInPlace ==
    ASSUME GraphTyped, RelsTaken, phase = "done",
           NEW r \in TorchRels, AllPairs \/ PairOf(r) \in DOMAIN graph.edgeIndex
    PROVE  /\ PairOf(r) \in DOMAIN graph.edgeIndex
           /\ <<position[r.src], position[r.dst]>> \in ToSet(graph.edgeIndex[PairOf(r)])
<1>1. /\ \A i \in DOMAIN rels : rels[i] \in TorchRels
      /\ EndsPassed(result, Len(result.rows) + 1, 1, rels)
      /\ EdgesUpTo(rels, Len(rels) + 1, edges, position)
      /\ Returns(graph, nodesDict, unconverted, primaryKeys, edges, edgeProps, rels)
  BY DEF RelsTaken, TorchRels
<1>2. result \in Results /\ rels \in Seq(RelsIn(result))
  BY DEF GraphTyped
<1>3. PICK i \in DOMAIN rels : rels[i].src = r.src /\ rels[i].dst = r.dst
  <2>1. PICK k \in RowsOf(result), d \in ColumnsOf(result) : r = result.rows[k][d] /\ r.kind = "rel"
    BY <1>2, CellPlace DEF TorchRels
  <2>2. Passed(Len(result.rows) + 1, 1, k, d)
    BY <1>2, ResultShape DEF RowsOf, Passed
  <2> QED
    BY <1>1, <2>1, <2>2 DEF EndsPassed, HasEnds
<1>4. PICK pair, pl : pair = PairOf(r) /\ pl = <<position[r.src], position[r.dst]>>
  OBVIOUS
<1>5. pair \in DOMAIN edges /\ pl \in ToSet(edges[pair])
  <2>1. i < Len(rels) + 1 /\ rels # <<>>
    BY <1>2
  <2>2. HasEdge(edges, position, rels[i])
    BY <1>1, <2>1 DEF EdgesUpTo
  <2> QED
    BY <1>3, <1>4, <2>2 DEF HasEdge, PairOf
<1>6. CASE ReturnsWhole(graph, nodesDict, unconverted, primaryKeys, edges, edgeProps)
  <2>1. graph.edgeIndex = edges
    BY <1>6 DEF ReturnsWhole
  <2> QED
    BY <1>4, <1>5, <2>1
<1>7. CASE ReturnsPart(graph, nodesDict, unconverted, primaryKeys, edges, edgeProps, rels)
  <2>1. rels # <<>>
    BY <1>2
  <2>2. PICK j \in DOMAIN rels : graph.edgeIndex = Part(edges, {PairOf(rels[j])})
    BY <1>7, <2>1 DEF ReturnsPart
  <2>3. /\ DOMAIN graph.edgeIndex = DOMAIN edges \cap {PairOf(rels[j])}
        /\ \A x \in DOMAIN graph.edgeIndex : graph.edgeIndex[x] = edges[x]
    BY <2>2 DEF Part
  <2>4. AllPairs => PairOf(rels[j]) = pair
    BY <1>1, <1>4, <1>7 DEF AllPairs, ReturnsPart
  <2>5. pair \in DOMAIN graph.edgeIndex
    BY <1>4, <1>5, <2>3, <2>4
  <2> QED
    BY <1>4, <1>5, <2>3, <2>5
<1> QED
  BY <1>1, <1>6, <1>7 DEF Returns

\* And a list of edge properties that is returned has the edges it is aligned with.
LEMMA EdgesInPlace ==
    ASSUME GraphTyped, RelsTaken, phase = "done", EdgesFit(result, edges, edgeProps, position)
    PROVE  EdgesAligned
<1>1. /\ \A i \in DOMAIN rels : rels[i] \in TorchRels
      /\ Returns(graph, nodesDict, unconverted, primaryKeys, edges, edgeProps, rels)
  BY DEF RelsTaken, TorchRels
<1>2. rels \in Seq(RelsIn(result))
  BY DEF GraphTyped
<1>3. ASSUME NEW column \in DOMAIN graph.edgeProps
      PROVE  /\ column \in DOMAIN edgeProps /\ graph.edgeProps[column] = edgeProps[column]
             /\ AllPairs => column[1] \in DOMAIN graph.edgeIndex
             /\ column[1] \in DOMAIN graph.edgeIndex => graph.edgeIndex[column[1]] = edges[column[1]]
  <2>1. CASE ReturnsWhole(graph, nodesDict, unconverted, primaryKeys, edges, edgeProps)
    <3>1. graph.edgeIndex = edges /\ graph.edgeProps = edgeProps
      BY <2>1 DEF ReturnsWhole
    <3> QED
      BY <3>1 DEF EdgesFit
  <2>2. CASE ReturnsPart(graph, nodesDict, unconverted, primaryKeys, edges, edgeProps, rels)
    <3>1. rels # <<>>
      <4>1. rels = <<>> => graph.edgeProps = Empty
        BY <2>2 DEF ReturnsPart
      <4> QED
        BY <4>1 DEF Empty
    <3>2. /\ \E j \in DOMAIN rels : graph.edgeIndex = Part(edges, {PairOf(rels[j])})
          /\ graph.edgeProps = At(edgeProps, PairOf(rels[1]))
      BY <2>2, <3>1 DEF ReturnsPart
    <3>3. PICK j \in DOMAIN rels : graph.edgeIndex = Part(edges, {PairOf(rels[j])})
      BY <3>2
    <3>4. /\ DOMAIN graph.edgeIndex = DOMAIN edges \cap {PairOf(rels[j])}
          /\ \A x \in DOMAIN graph.edgeIndex : graph.edgeIndex[x] = edges[x]
      BY <3>3 DEF Part
    <3>5. column \in DOMAIN edgeProps /\ column[1] = PairOf(rels[1]) /\ graph.edgeProps[column] = edgeProps[column]
      BY <3>2 DEF At, Part
    <3>6. column[1] \in DOMAIN edges
      BY <3>5 DEF EdgesFit
    <3>7. 1 \in DOMAIN rels
      BY <1>2, <3>1, EmptySeq
    <3>8. AllPairs => PairOf(rels[j]) = PairOf(rels[1])
      BY <1>1, <2>2, <3>7 DEF AllPairs, ReturnsPart
    <3> QED
      BY <3>4, <3>5, <3>6, <3>8
  <2> QED
    BY <1>1, <2>1, <2>2 DEF Returns
<1>4. ASSUME NEW column \in DOMAIN graph.edgeProps, column[1] \in DOMAIN graph.edgeIndex,
             SameProps(column[1])
      PROVE  /\ Len(graph.edgeProps[column]) = Len(graph.edgeIndex[column[1]])
             /\ \A k \in DOMAIN graph.edgeProps[column] : \E r \in AllRels :
                  /\ r.id = graph.edgeProps[column][k]
                  /\ graph.edgeIndex[column[1]][k] = <<position[r.src], position[r.dst]>>
  <2>1. PICK pair : pair = column[1] /\ SamePropsIn(result, pair)
    BY <1>4 DEF SameProps, SamePropsIn, AllRels
  <2>2. PICK list, es : list = graph.edgeProps[column] /\ es = graph.edgeIndex[column[1]]
    OBVIOUS
  <2>3. list = edgeProps[column] /\ es = edges[pair] /\ column \in DOMAIN edgeProps
    BY <1>3, <1>4, <2>1, <2>2
  <2>4. EdgesMatch(result, list, es, position)
    BY <2>1, <2>3 DEF EdgesFit
  <2> QED
    BY <2>2, <2>4 DEF EdgesMatch, AllRels
<1>5. \A r \in TorchRels : AllPairs \/ PairOf(r) \in DOMAIN graph.edgeIndex =>
        /\ PairOf(r) \in DOMAIN graph.edgeIndex
        /\ <<position[r.src], position[r.dst]>> \in ToSet(graph.edgeIndex[PairOf(r)])
  BY RelsInPlace
<1>6. ASSUME NEW column \in DOMAIN graph.edgeProps
      PROVE  LET pair == column[1]
             IN  /\ AllPairs => pair \in DOMAIN graph.edgeIndex
                 /\ pair \in DOMAIN graph.edgeIndex /\ SameProps(pair) =>
                      /\ Len(graph.edgeProps[column]) = Len(graph.edgeIndex[pair])
                      /\ \A k \in DOMAIN graph.edgeProps[column] : \E r \in AllRels :
                           /\ r.id = graph.edgeProps[column][k]
                           /\ graph.edgeIndex[pair][k] = <<position[r.src], position[r.dst]>>
  <2>1. AllPairs => column[1] \in DOMAIN graph.edgeIndex
    BY <1>3, Zenon
  <2> QED
    BY <1>4, <2>1, Zenon
<1> QED
  BY <1>5, <1>6, Zenon DEF EdgesAligned

LEMMA GraphInvFaithful == GraphInv => GraphsFaithful
<1> SUFFICES ASSUME GraphInv PROVE GraphsFaithful
  OBVIOUS
<1>1. target \in {"networkx", "torch"} /\ GraphTyped
  BY DEF GraphInv, GraphTyped
<1>2. NetworkxComplete
  <2>1. CASE target = "networkx"
    BY <2>1 DEF GraphInv, NxTaken
  <2>2. CASE target = "torch"
    BY <2>2 DEF NetworkxComplete, Done
  <2> QED
    BY <1>1, <2>1, <2>2
<1>3. ASSUME Done("torch")
      PROVE  NodesAligned /\ EdgesAligned
  <2>1. TorchTaken /\ phase = "done"
    BY <1>3 DEF GraphInv, Done
  <2> QED
    BY <1>1, <2>1, NodesInPlace, EdgesInPlace DEF TorchTaken
<1> QED
  BY <1>2, <1>3 DEF GraphsFaithful

\* The variables of GraphExport keep their types, and no property is both converted and
\* not, for any schema and any results.
THEOREM GraphTypeCorrect == GraphSpec => []GraphTypeOK
BY GraphInvariance, GraphInvTypes, PTL

\* A graph that is returned, for any schema and any results: networkx's has every node and
\* rel of the result once; in torch's the values of every node of a label that is returned
\* are at its position, as a tensor or unconverted, every rel has its edge, and a list of
\* edge properties is aligned with the edges of its pair of labels, if its rels have the
\* same properties.  Except: Data, which has one label's tensors, may have another label's
\* unconverted values, and the edges of one pair of labels with the properties of another
\* (torch_geometric_result_converter.py).
THEOREM GraphsAreFaithful == GraphSpec => []GraphsFaithful
BY GraphInvariance, GraphInvFaithful, PTL

-----------------------------------------------------------------------------
(* The sessions of MCExports.                                              *)

Sessions == {"values", "results", "graphs", "features", "edges", "scan", "imports"}

\* A session's steps are its component's.
LEMMA ValueSteps ==
    ASSUME session = "values", [Next]_exportsVars
    PROVE  session' = "values" /\ [ValueNext]_valueVars
BY SMTT(30) DEF Next, exportsVars, InValues, InResults, InGraphs, InFeatures, InEdges, InScan, InImports,
   ValueNext

LEMMA ScanSteps ==
    ASSUME session = "scan", [Next]_exportsVars
    PROVE  session' = "scan" /\ [ScanNext]_scanVars
BY SMTT(30) DEF Next, exportsVars, InValues, InResults, InGraphs, InFeatures, InEdges, InScan, InImports, ScanNext

LEMMA ImportSteps ==
    ASSUME session = "imports", [Next]_exportsVars
    PROVE  session' = "imports" /\ [ImportNext]_importVars
BY SMTT(30) DEF Next, exportsVars, InValues, InResults, InGraphs, InFeatures, InEdges, InScan, InImports,
   ImportNext, StepOf

LEMMA FeatureSteps ==
    ASSUME session = "features", [Next]_exportsVars
    PROVE  session' = "features" /\ [FeatureNext]_featureVars
BY SMTT(30) DEF Next, exportsVars, InValues, InResults, InGraphs, InFeatures, InEdges, InScan, InImports,
   FeatureNext

LEMMA EdgesSteps ==
    ASSUME session = "edges", [Next]_exportsVars
    PROVE  session' = "edges" /\ [GraphStoreNext]_graphStoreVars
BY SMTT(30) DEF Next, exportsVars, InValues, InResults, InGraphs, InFeatures, InEdges, InScan, InImports,
   GraphStoreNext

LEMMA ResultSteps ==
    ASSUME session = "results", [Next]_exportsVars
    PROVE  session' = "results" /\ [ResultNext]_resultVars
BY SMTT(30) DEF Next, exportsVars, InValues, InResults, InGraphs, InFeatures, InEdges, InScan, InImports,
   ResultNext

LEMMA GraphSteps ==
    ASSUME session = "graphs", [Next]_exportsVars
    PROVE  session' = "graphs" /\ [GraphNext]_graphVars
BY SMTT(30) DEF Next, exportsVars, InValues, InResults, InGraphs, InFeatures, InEdges, InScan, InImports,
   GraphNext

\* A session is never left for another.
LEMMA SessionStays ==
    ASSUME [Next]_exportsVars
    PROVE  session' = session
BY DEF Next, exportsVars, InValues, InResults, InGraphs, InFeatures, InEdges, InScan, InImports

\* What the proofs below need of every session.
SessionsInv ==
    /\ session \in Sessions
    /\ session = "values" => ValuesInv
    /\ session = "results" => ResultInv
    /\ session = "graphs" => GraphInv
    /\ session = "scan" => ScanInv
    /\ session = "imports" => ImportInv
    /\ session = "features" => FeatureInv
    /\ session = "edges" => EdgesInv

LEMMA SessionsBegin == Init => SessionsInv
<1> SUFFICES ASSUME Init PROVE SessionsInv
  OBVIOUS
<1>1. PICK which \in Sessions : Begins(which)
  BY DEF Init, Sessions
<1>2. /\ session = which
      /\ which = "values" => ValueInit
      /\ which = "results" => ResultInit
      /\ which = "graphs" => GraphInit
      /\ which = "scan" => ScanInit
      /\ which = "imports" => ImportInit
      /\ which = "features" => FeatureInit
      /\ which = "edges" => GraphStoreInit
  BY <1>1 DEF Begins
<1> QED
  BY <1>1, <1>2, ValuesBegin, ResultBegins, GraphBegins, InitScanInv, InitImportInv, FeaturesBegin, EdgesBegin
     DEF SessionsInv

LEMMA SessionsStay == SessionsInv /\ [Next]_exportsVars => SessionsInv'
<1> SUFFICES ASSUME SessionsInv, [Next]_exportsVars PROVE SessionsInv'
  OBVIOUS
<1>1. session' = session
  BY SessionStays
<1>2. CASE session = "scan"
  BY <1>1, <1>2, ScanSteps, StepScanInv DEF SessionsInv
<1>3. CASE session = "imports"
  BY <1>1, <1>3, ImportSteps, StepImportInv DEF SessionsInv
<1>4. CASE session = "features"
  BY <1>1, <1>4, FeatureSteps, FeaturesStep DEF SessionsInv
<1>5. CASE session = "edges"
  BY <1>1, <1>5, EdgesSteps, EdgesStep DEF SessionsInv
<1>6. CASE session = "values"
  BY <1>1, <1>6, ValueSteps, ValuesStep DEF SessionsInv
<1>7. CASE session = "results"
  BY <1>1, <1>7, ResultSteps, ResultStep DEF SessionsInv
<1>8. CASE session = "graphs"
  BY <1>1, <1>8, GraphSteps, GraphStep DEF SessionsInv
<1>9. session \in Sessions
  BY DEF SessionsInv
<1> QED
  BY <1>9, <1>2, <1>3, <1>4, <1>5, <1>6, <1>7, <1>8 DEF Sessions

\* Whatever session is drawn keeps its component's invariant.
THEOREM SessionsInvariance == ExportsSpec => []SessionsInv
BY SessionsBegin, SessionsStay, PTL DEF ExportsSpec

\* In whatever session: no row of a frame is put out twice by the threads that scan it, and
\* every one is if no batch is empty; every Python object is loaded once by those that look
\* it up, none of them stuck.
THEOREM WorkIsShared == ExportsSpec => []ThreadsShareWork
<1>1. SessionsInv => ThreadsShareWork
  BY ScanInvImplies, ImportInvOwns, ImportInvProceeds DEF SessionsInv, ThreadsShareWork
<1> QED
  BY <1>1, SessionsInvariance, PTL

\* In whatever session: an index means the same nodes scanned or queried, a get returns the
\* edge index put last under its key, if that is not of an unsorted COO, and one of the
\* database has every rel once, if nothing was inserted or deleted meanwhile.
THEOREM StoresAreTruthful == ExportsSpec => []StoresAnswerTruly
<1>1. SessionsInv => StoresAnswerTruly
  BY FeatureInvImplies, EdgesInvImplies DEF SessionsInv, StoresAnswerTruly
<1> QED
  BY <1>1, SessionsInvariance, PTL

\* In whatever session: what a conversion gets from the C API does not outlive its call,
\* nor what the result adopts the result, but for the keys of map entries whose value could
\* not be got.
THEOREM NothingLeaks == ExportsSpec => []NoLeaks
<1>1. SessionsInv => NoLeaks
  BY ValuesInvReleases DEF SessionsInv, NoLeaks
<1> QED
  BY <1>1, SessionsInvariance, PTL

\* In whatever session: reads take the rows in order from where an export last moved the
\* cursor; a data frame, a CSR export and a table of the C API have every row, whatever was
\* read before, and an Arrow table of pybind has those that nobody had taken.
THEOREM ResultsAreWhole == ExportsSpec => []ResultsComplete
<1>1. SessionsInv => ResultsComplete
  BY ResultInvExports DEF SessionsInv, ResultsComplete
<1> QED
  BY <1>1, SessionsInvariance, PTL

\* In whatever session: networkx's graph has the result's nodes and rels once, and what
\* torch gets returned has values and edges in their places, as GraphsAreFaithful says.
THEOREM GraphsAreComplete == ExportsSpec => []GraphsComplete
<1>1. SessionsInv => GraphsComplete
  BY GraphInvFaithful DEF SessionsInv, GraphsComplete
<1> QED
  BY <1>1, SessionsInvariance, PTL

\* In whatever session: the variables of its component keep their types.
THEOREM TypesAreKept == ExportsSpec => []TypeOK
<1>1. SessionsInv => TypeOK
  <2> SUFFICES ASSUME SessionsInv PROVE TypeOK
    OBVIOUS
  <2>1. session \in Sessions
    BY DEF SessionsInv
  <2>2. CASE session = "values"
    BY <2>2, ValuesInvTyped DEF SessionsInv, TypeOK
  <2>3. CASE session = "results"
    BY <2>3, ResultInvTyped DEF SessionsInv, TypeOK
  <2>4. CASE session = "graphs"
    BY <2>4, GraphInvTypes DEF SessionsInv, TypeOK
  <2>5. CASE session = "features"
    BY <2>5, FeatureInvImplies DEF SessionsInv, TypeOK
  <2>6. CASE session = "edges"
    BY <2>6, EdgesInvImplies DEF SessionsInv, TypeOK
  <2>7. CASE session = "scan"
    BY <2>7, ScanInvTyped DEF SessionsInv, TypeOK
  <2>8. CASE session = "imports"
    BY <2>8, ImportInvTyped DEF SessionsInv, TypeOK
  <2> QED
    BY <2>1, <2>2, <2>3, <2>4, <2>5, <2>6, <2>7, <2>8 DEF Sessions
<1> QED
  BY <1>1, SessionsInvariance, PTL
=============================================================================
