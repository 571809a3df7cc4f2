--------------------------- MODULE GarblingProofs ---------------------------
(***************************************************************************)
(* Proofs about module Garbling, for every circuit, input, key, offset and *)
(* choice of labels.  First the algebra of labels, then one lemma for each *)
(* operation (the evaluator's label for two active labels is the active    *)
(* label of the result), then the invariant of the three loops.            *)
(***************************************************************************)
EXTENDS Garbling, TLAPS

(***************************************************************************)
(* Labels.                                                                 *)
(***************************************************************************)
LEMMA XorIn == \A a, b, i : i \in Xor(a, b) <=> ((i \in a) <=> (i \notin b))
  BY DEF Xor

\* Xor keeps within labels.
LEMMA XorTyped == \A a, b : a \in Label /\ b \in Label => Xor(a, b) \in Label
  BY DEF Xor, Label

\* Xor with a label, twice, is nothing.
LEMMA XorCancels == \A a, b : Xor(Xor(a, b), a) = b /\ Xor(Xor(a, b), b) = a
  BY DEF Xor

\* The label without bits is neutral.
LEMMA XorEmpty == \A a : Xor({}, a) = a /\ Xor(a, {}) = a
  BY DEF Xor

\* The two half gates of AND, whatever the hashes are: P0, P1 those of the
\* labels of the left input, Q0, Q1 those of the right one.  pa and pb are
\* the select bits of the labels for false, sa and sb those of the labels
\* the evaluator holds, ax is the left one of these, P and Q their hashes.
LEMMA HalfGates ==
  ASSUME NEW A0, NEW R, NEW P0, NEW P1, NEW Q0, NEW Q1,
         NEW pa, NEW pb, NEW x \in BOOLEAN, NEW y \in BOOLEAN,
         NEW sa, sa <=> ~(pa <=> x), NEW sb, sb <=> ~(pb <=> y),
         NEW ax, ax = IF x THEN Xor(A0, R) ELSE A0,
         NEW P, P = IF x THEN P1 ELSE P0,
         NEW Q, Q = IF y THEN Q1 ELSE Q0,
         NEW tg, tg = XorIf(pb, Xor(P0, P1), R),
         NEW te, te = Xor(Xor(Q0, Q1), A0),
         NEW l0, l0 = Xor(XorIf(pa, P0, tg), XorIf(pb, Q0, Xor(te, A0)))
  PROVE  Xor(XorIf(sa, P, tg), XorIf(sb, Q, Xor(te, ax)))
           = IF x /\ y THEN Xor(l0, R) ELSE l0
  <1>1. CASE x /\ y
    BY <1>1 DEF Xor, XorIf
  <1>2. CASE x /\ ~y
    BY <1>2 DEF Xor, XorIf
  <1>3. CASE ~x /\ y
    BY <1>3 DEF Xor, XorIf
  <1>4. CASE ~x /\ ~y
    BY <1>4 DEF Xor, XorIf
  <1> QED
    BY <1>1, <1>2, <1>3, <1>4

(***************************************************************************)
(* Hashes are labels.                                                      *)
(***************************************************************************)
LEMMA TweakTyped == \A t : NewTweak(t) \in Label
  BY Zenon DEF NewTweak, Label

\* A masked label is a label.
LEMMA MaskedTyped ==
  ASSUME key \in Key, NEW k \in Label
  PROVE  Masked(k) \in Label
  BY SizeAssumption, XorTyped DEF Masked

\* The two hashes are labels.
LEMMA HashTyped ==
  ASSUME key \in Key, NEW a \in Label, NEW b \in Label, NEW t
  PROVE  Half(a, t) \in Label /\ Full(a, b, t) \in Label
  <1>1. Mul2(a) \in Label /\ Mul4(b) \in Label
    BY DEF Mul2, Mul4, Label
  <1> QED
    BY <1>1, TweakTyped, MaskedTyped, XorTyped DEF Half, Full

(***************************************************************************)
(* Wires: the two labels differ by the offset, hence in their select bit.  *)
(***************************************************************************)
Offsets == r \in Label /\ Top \in r /\ key \in Key
GoodWire(w) == w \in Pair /\ w.L1 = Xor(w.L0, r)

\* The select bits of a wire's two labels differ, whatever the bit.
LEMMA Select ==
  ASSUME Offsets, NEW w, GoodWire(w), NEW x \in BOOLEAN
  PROVE  /\ LabelForBit(w, x) \in Label
         /\ S(LabelForBit(w, x)) <=> ~(S(w.L0) <=> x)
         /\ S(w.L1) <=> ~S(w.L0)
  <1>1. S(w.L1) <=> ~S(w.L0)
    BY XorIn DEF Offsets, GoodWire, S
  <1> QED
    BY <1>1 DEF LabelForBit, GoodWire, Pair

\* The select bit tells the two labels of a wire apart.
LEMMA LabelsDiffer ==
  ASSUME Offsets, NEW w, GoodWire(w)
  PROVE  w.L0 # w.L1
  BY Select

\* A wire made by Offset has labels that differ by the offset.
LEMMA GoodOffset ==
  ASSUME Offsets, NEW l0 \in Label, NEW row
  PROVE  /\ GoodWire(Offset(l0, row).wire)
         /\ Offset(l0, row).wire.L0 = l0
         /\ Offset(l0, row).wire.L1 = Xor(l0, r)
         /\ Offset(l0, row).row = row
  BY XorTyped DEF Offsets, GoodWire, Offset, Garbled, Pair
(***************************************************************************)
(* One operation at a time.                                                *)
(***************************************************************************)
\* What a garbled gate g has to give for the inputs a and b, the bits x and
\* y they carry and the output bit z.
GateWorks(op, a, b, x, y, z, g, t) ==
    /\ GoodWire(g.wire)
    /\ RowFits(op, LabelForBit(a, x), LabelForBit(b, y), g.row)
    /\ EvaluatedGate(op, LabelForBit(a, x), LabelForBit(b, y), g.row, t)
         = LabelForBit(g.wire, z)

\* Evaluating a garbled XOR gate on active labels gives the active label.
LEMMA XorWorks ==
  ASSUME Offsets, NEW a, GoodWire(a), NEW b, GoodWire(b),
         NEW x \in BOOLEAN, NEW y \in BOOLEAN, NEW t
  PROVE  GateWorks("XOR", a, b, x, y, x # y, GarbleXOR(a, b), t)
  <1> DEFINE g == GarbleXOR(a, b)
             l0 == Xor(a.L0, b.L0)
  <1>1. l0 \in Label
    BY XorTyped DEF GoodWire, Pair
  <1>2. GoodWire(g.wire) /\ g.wire.L0 = l0 /\ g.wire.L1 = Xor(l0, r)
    BY <1>1, GoodOffset DEF GarbleXOR
  <1>3. Xor(LabelForBit(a, x), LabelForBit(b, y)) = LabelForBit(g.wire, x # y)
    <2>1. CASE x /\ y
      BY <2>1, <1>2 DEF LabelForBit, GoodWire, Xor
    <2>2. CASE x /\ ~y
      BY <2>2, <1>2 DEF LabelForBit, GoodWire, Xor
    <2>3. CASE ~x /\ y
      BY <2>3, <1>2 DEF LabelForBit, GoodWire, Xor
    <2>4. CASE ~x /\ ~y
      BY <2>4, <1>2 DEF LabelForBit, GoodWire, Xor
    <2> QED
      BY <2>1, <2>2, <2>3, <2>4
  <1> QED
    BY <1>2, <1>3 DEF GateWorks, RowFits, EvaluatedGate

\* The same for XNOR.
LEMMA XnorWorks ==
  ASSUME Offsets, NEW a, GoodWire(a), NEW b, GoodWire(b),
         NEW x \in BOOLEAN, NEW y \in BOOLEAN, NEW t
  PROVE  GateWorks("XNOR", a, b, x, y, x = y, GarbleXNOR(a, b), t)
  <1> DEFINE g == GarbleXNOR(a, b)
             l1 == Xor(a.L0, b.L0)
  <1>1. l1 \in Label /\ Xor(l1, r) \in Label
    BY XorTyped DEF GoodWire, Pair, Offsets
  <1>2. g.wire.L0 = Xor(l1, r) /\ g.wire.L1 = l1 /\ g.wire \in Pair
    BY <1>1 DEF GarbleXNOR, Garbled, Pair
  <1>3. GoodWire(g.wire)
    BY <1>2, XorCancels DEF GoodWire
  <1>4. Xor(LabelForBit(a, x), LabelForBit(b, y)) = LabelForBit(g.wire, x = y)
    <2>1. CASE x /\ y
      BY <2>1, <1>2 DEF LabelForBit, GoodWire, Xor
    <2>2. CASE x /\ ~y
      BY <2>2, <1>2 DEF LabelForBit, GoodWire, Xor
    <2>3. CASE ~x /\ y
      BY <2>3, <1>2 DEF LabelForBit, GoodWire, Xor
    <2>4. CASE ~x /\ ~y
      BY <2>4, <1>2 DEF LabelForBit, GoodWire, Xor
    <2> QED
      BY <2>1, <2>2, <2>3, <2>4
  <1> QED
    BY <1>3, <1>4 DEF GateWorks, RowFits, EvaluatedGate

\* The same for AND: two half gates.
LEMMA AndWorks ==
  ASSUME Offsets, NEW a, GoodWire(a), NEW b, GoodWire(b),
         NEW x \in BOOLEAN, NEW y \in BOOLEAN, NEW t
  PROVE  GateWorks("AND", a, b, x, y, x /\ y, GarbleAND(a, b, t), t)
  <1> DEFINE u == (t + 1) % IdMod
             tg == XorIf(S(b.L0), Xor(Half(a.L0, t), Half(a.L1, t)), r)
             wg0 == XorIf(S(a.L0), Half(a.L0, t), tg)
             te == Xor(Xor(Half(b.L0, u), Half(b.L1, u)), a.L0)
             we0 == XorIf(S(b.L0), Half(b.L0, u), Xor(te, a.L0))
             l0 == Xor(wg0, we0)
             ax == LabelForBit(a, x)
             by == LabelForBit(b, y)
             g == Offset(l0, <<tg, te>>)
  <1>1. GarbleAND(a, b, t) = g
    BY Zenon DEF GarbleAND
  <1>2. l0 \in Label
    <2>1. /\ a.L0 \in Label /\ a.L1 \in Label /\ b.L0 \in Label /\ b.L1 \in Label
          /\ r \in Label
      BY DEF GoodWire, Pair, Offsets
    <2>2. /\ Half(a.L0, t) \in Label /\ Half(a.L1, t) \in Label
          /\ Half(b.L0, u) \in Label /\ Half(b.L1, u) \in Label
      BY <2>1, HashTyped DEF Offsets
    <2>3. tg \in Label
      BY <2>1, <2>2, XorTyped DEF XorIf
    <2>4. te \in Label
      BY <2>1, <2>2, XorTyped
    <2>5. wg0 \in Label
      BY <2>2, <2>3, XorTyped DEF XorIf
    <2>6. we0 \in Label
      BY <2>1, <2>2, <2>4, XorTyped DEF XorIf
    <2> QED
      BY <2>5, <2>6, XorTyped
  <1>3. /\ GoodWire(g.wire) /\ g.wire.L0 = l0 /\ g.wire.L1 = Xor(l0, r)
        /\ g.row = <<tg, te>>
    BY <1>2, GoodOffset
  <1>4. EvalAND(ax, by, <<tg, te>>, t)
          = Xor(XorIf(S(ax), Half(ax, t), tg), XorIf(S(by), Half(by, u), Xor(te, ax)))
    BY DEF EvalAND
  <1>5. /\ S(ax) <=> ~(S(a.L0) <=> x)
        /\ S(by) <=> ~(S(b.L0) <=> y)
    BY Select
  <1>6. /\ ax = IF x THEN Xor(a.L0, r) ELSE a.L0
        /\ Half(ax, t) = IF x THEN Half(a.L1, t) ELSE Half(a.L0, t)
        /\ Half(by, u) = IF y THEN Half(b.L1, u) ELSE Half(b.L0, u)
    BY DEF LabelForBit, GoodWire
  <1>7. Xor(XorIf(S(ax), Half(ax, t), tg), XorIf(S(by), Half(by, u), Xor(te, ax)))
          = IF x /\ y THEN Xor(l0, r) ELSE l0
    <2> HIDE DEF ax, by, u
    <2> QED
      BY <1>5, <1>6, HalfGates
  <1>8. EvalAND(ax, by, <<tg, te>>, t) = LabelForBit(g.wire, x /\ y)
    BY <1>3, <1>4, <1>7 DEF LabelForBit
  <1> HIDE DEF ax, by, l0, tg, te, g
  <1>9. RowFits("AND", ax, by, g.row)
    BY <1>3 DEF RowFits
  <1>10. EvaluatedGate("AND", ax, by, g.row, t) = LabelForBit(g.wire, x /\ y)
    BY <1>3, <1>8 DEF EvaluatedGate
  <1>11. GateWorks("AND", a, b, x, y, x /\ y, g, t)
    BY <1>3, <1>9, <1>10 DEF GateWorks, ax, by
  <1> QED
    BY <1>1, <1>11

\* The four rows of OR are written under four different indices.
LEMMA OrTableRows ==
  ASSUME Offsets, NEW a, GoodWire(a), NEW b, GoodWire(b),
         NEW x \in BOOLEAN, NEW y \in BOOLEAN, NEW t
  PROVE  LET k == Idx(LabelForBit(a, x), LabelForBit(b, y))
         IN  /\ k \in 0..3
             /\ OrTable(a, b, t)[k] = Full(LabelForBit(a, x), LabelForBit(b, y), t)
             /\ k = Idx(a.L0, b.L0) <=> ~x /\ ~y
  <1>1. (S(a.L1) <=> ~S(a.L0)) /\ (S(b.L1) <=> ~S(b.L0))
    BY Select
  <1>2. CASE S(a.L0) /\ S(b.L0)
    BY <1>1, <1>2 DEF Idx, IdxUnary, OrTable, LabelForBit
  <1>3. CASE S(a.L0) /\ ~S(b.L0)
    BY <1>1, <1>3 DEF Idx, IdxUnary, OrTable, LabelForBit
  <1>4. CASE ~S(a.L0) /\ S(b.L0)
    BY <1>1, <1>4 DEF Idx, IdxUnary, OrTable, LabelForBit
  <1>5. CASE ~S(a.L0) /\ ~S(b.L0)
    BY <1>1, <1>5 DEF Idx, IdxUnary, OrTable, LabelForBit
  <1> QED
    BY <1>2, <1>3, <1>4, <1>5

\* The same for OR: four rows, the first one reduced.
LEMMA OrWorks ==
  ASSUME Offsets, NEW a, GoodWire(a), NEW b, GoodWire(b),
         NEW x \in BOOLEAN, NEW y \in BOOLEAN, NEW t
  PROVE  GateWorks("OR", a, b, x, y, x \/ y, GarbleOR(a, b, t), t)
  <1> DEFINE table == OrTable(a, b, t)
             zero == Idx(a.L0, b.L0)
             l0 == XorIf(zero # 0, table[0], r)
             l1 == XorIf(zero = 0, table[0], r)
             row == [i \in 1..3 |-> Xor(table[i], IF i = zero THEN l0 ELSE l1)]
             ax == LabelForBit(a, x)
             by == LabelForBit(b, y)
             k == Idx(ax, by)
             g == Garbled(l0, l1, row)
  <1>1. GarbleOR(a, b, t) = g
    BY Zenon DEF GarbleOR
  <1>2. /\ k \in 0..3 /\ table[k] = Full(ax, by, t)
        /\ k = zero <=> ~x /\ ~y
    BY OrTableRows
  <1>3. table[0] \in Label
    <2>1. \A v, w \in BOOLEAN : Full(LabelForBit(a, v), LabelForBit(b, w), t) \in Label
      BY Select, HashTyped DEF Offsets
    <2>2. \E v, w \in BOOLEAN : Idx(LabelForBit(a, v), LabelForBit(b, w)) = 0
      <3>1. \E v \in BOOLEAN : ~S(LabelForBit(a, v))
        BY Select, Zenon
      <3>2. \E w \in BOOLEAN : ~S(LabelForBit(b, w))
        BY Select, Zenon
      <3> QED
        BY <3>1, <3>2 DEF Idx, IdxUnary
    <2> QED
      BY <2>1, <2>2, OrTableRows
  <1>4. l0 \in Label /\ l1 \in Label /\ l1 = Xor(l0, r)
    BY <1>3, XorTyped, XorCancels DEF XorIf, Offsets
  <1>5. GoodWire(g.wire) /\ g.wire.L0 = l0 /\ g.wire.L1 = l1 /\ g.row = row
    BY <1>4 DEF GoodWire, Garbled, Pair
  <1>6. Len(row) = 3
    BY DEF row
  <1>7. EvalOR(ax, by, row, t) = Xor(Row(row, k), table[k])
    BY <1>2 DEF EvalOR
  <1>8. EvalOR(ax, by, row, t) = IF k = zero THEN l0 ELSE l1
    <2>1. CASE k = 0
      BY <2>1, <1>7, XorEmpty DEF Row, XorIf
    <2>2. CASE k # 0
      <3>1. row[k] = Xor(table[k], IF k = zero THEN l0 ELSE l1)
        BY <2>2, <1>2
      <3> QED
        BY <3>1, <2>2, <1>7, XorCancels DEF Row
    <2> QED
      BY <2>1, <2>2
  <1>9. EvalOR(ax, by, row, t) = LabelForBit(g.wire, x \/ y)
    BY <1>2, <1>5, <1>8 DEF LabelForBit
  <1>10. k <= Len(g.row)
    <2>1. Len(g.row) = 3 /\ k \in 0..3
      BY <1>2, <1>5, <1>6
    <2> HIDE DEF k, g
    <2> QED
      BY <2>1
  <1> QED
    BY <1>1, <1>5, <1>9, <1>10 DEF GateWorks, RowFits, EvaluatedGate

\* The rows of INV, by select bit.
LEMMA InvTableRows ==
  ASSUME Offsets, NEW a, GoodWire(a), NEW x \in BOOLEAN, NEW t
  PROVE  LET k == IdxUnary(LabelForBit(a, x))
         IN  /\ k \in 0..1
             /\ InvTable(a, t)[k] = Full(LabelForBit(a, x), {}, t)
             /\ k = IdxUnary(a.L0) <=> ~x
  <1>1. S(a.L1) <=> ~S(a.L0)
    BY Select
  <1>2. CASE S(a.L0)
    BY <1>1, <1>2 DEF IdxUnary, InvTable, LabelForBit
  <1>3. CASE ~S(a.L0)
    BY <1>1, <1>3 DEF IdxUnary, InvTable, LabelForBit
  <1> QED
    BY <1>2, <1>3

\* The same for INV: two rows, the first one reduced.
LEMMA InvWorks ==
  ASSUME Offsets, NEW a, GoodWire(a), NEW b,
         NEW x \in BOOLEAN, NEW y \in BOOLEAN, NEW t
  PROVE  GateWorks("INV", a, b, x, y, ~x, GarbleINV(a, t), t)
  <1> DEFINE table == InvTable(a, t)
             zero == IdxUnary(a.L0)
             l0 == XorIf(zero = 0, table[0], r)
             l1 == XorIf(zero # 0, table[0], r)
             row == [i \in 1..1 |-> Xor(table[i], IF i = zero THEN l1 ELSE l0)]
             ax == LabelForBit(a, x)
             k == IdxUnary(ax)
             g == Garbled(l0, l1, row)
  <1>1. GarbleINV(a, t) = g
    BY Zenon DEF GarbleINV
  <1>2. /\ k \in 0..1 /\ table[k] = Full(ax, {}, t)
        /\ k = zero <=> ~x
    BY InvTableRows
  <1>3. table[0] \in Label
    <2>1. \A v \in BOOLEAN : Full(LabelForBit(a, v), {}, t) \in Label
      BY Select, HashTyped DEF Offsets, Label
    <2>2. \E v \in BOOLEAN : IdxUnary(LabelForBit(a, v)) = 0
      <3>1. \E v \in BOOLEAN : ~S(LabelForBit(a, v))
        BY Select, Zenon
      <3> QED
        BY <3>1 DEF IdxUnary
    <2> QED
      BY <2>1, <2>2, InvTableRows
  <1>4. l0 \in Label /\ l1 \in Label /\ l1 = Xor(l0, r)
    BY <1>3, XorTyped, XorCancels DEF XorIf, Offsets
  <1>5. GoodWire(g.wire) /\ g.wire.L0 = l0 /\ g.wire.L1 = l1 /\ g.row = row
    BY <1>4 DEF GoodWire, Garbled, Pair
  <1>6. Len(row) = 1
    BY DEF row
  <1>7. EvalINV(ax, row, t) = Xor(Row(row, k), table[k])
    BY <1>2 DEF EvalINV
  <1>8. EvalINV(ax, row, t) = IF k = zero THEN l1 ELSE l0
    <2>1. CASE k = 0
      BY <2>1, <1>7, XorEmpty DEF Row, XorIf
    <2>2. CASE k # 0
      <3>1. row[k] = Xor(table[k], IF k = zero THEN l1 ELSE l0)
        BY <2>2, <1>2
      <3> QED
        BY <3>1, <2>2, <1>7, XorCancels DEF Row
    <2> QED
      BY <2>1, <2>2
  <1>9. EvalINV(ax, row, t) = LabelForBit(g.wire, ~x)
    BY <1>2, <1>5, <1>8 DEF LabelForBit
  <1>10. k <= Len(g.row)
    <2>1. Len(g.row) = 1 /\ k \in 0..1
      BY <1>2, <1>5, <1>6
    <2> HIDE DEF k, g
    <2> QED
      BY <2>1
  <1> QED
    BY <1>1, <1>5, <1>9, <1>10 DEF GateWorks, RowFits, EvaluatedGate

\* All operations.
LEMMA GateCorrect ==
  ASSUME Offsets, NEW op \in Op, NEW a, GoodWire(a), NEW b, GoodWire(b),
         NEW x \in BOOLEAN, NEW y \in BOOLEAN, NEW t
  PROVE  GateWorks(op, a, b, x, y, ComputedGate(op, x, y), GarbledGate(op, a, b, t), t)
  <1>1. CASE op = "XOR"
    BY <1>1, XorWorks DEF ComputedGate, GarbledGate
  <1>2. CASE op = "XNOR"
    BY <1>2, XnorWorks DEF ComputedGate, GarbledGate
  <1>3. CASE op = "AND"
    BY <1>3, AndWorks DEF ComputedGate, GarbledGate
  <1>4. CASE op = "OR"
    BY <1>4, OrWorks DEF ComputedGate, GarbledGate
  <1>5. CASE op = "INV"
    BY <1>5, InvWorks DEF ComputedGate, GarbledGate
  <1> QED
    BY <1>1, <1>2, <1>3, <1>4, <1>5 DEF Op
(***************************************************************************)
(* The circuit.                                                            *)
(***************************************************************************)
LEMMA GateFacts ==
  ASSUME NEW i \in 1..Len(Gates)
  PROVE  /\ Gates[i].op \in Op
         /\ Gates[i].in0 \in Wire /\ Gates[i].in1 \in Wire /\ Gates[i].out \in Wire
         /\ Gates[i].in0 \in Assigned(i) /\ Gates[i].in1 \in Assigned(i)
         /\ Gates[i].out \notin Assigned(i)
  <1>1. Gates[i] \in GateRecord
    BY CircuitAssumption
  <1>2. /\ Gates[i].op \in Op /\ Gates[i].in0 \in Wire
        /\ Gates[i].in1 \in Wire /\ Gates[i].out \in Wire
    BY <1>1 DEF GateRecord
  <1> QED
    BY <1>2, CircuitAssumption

\* A gate assigns its output wire and no other.
LEMMA AssignedNext ==
  ASSUME NEW i \in 1..Len(Gates)
  PROVE  Assigned(i + 1) = Assigned(i) \cup {Gates[i].out}
  <1>1. 1..((i + 1) - 1) = (1..(i - 1)) \cup {i}
    BY CircuitAssumption
  <1> QED
    BY <1>1, Zenon DEF Assigned

\* The wires of a gate stay assigned.
LEMMA AssignedEarlier ==
  ASSUME NEW i \in 1..(Len(Gates) + 1), NEW j \in 1..Len(Gates), j < i
  PROVE  Gates[j].in0 \in Assigned(i) /\ Gates[j].in1 \in Assigned(i)
         /\ Gates[j].out \in Assigned(i)
  <1>0. Len(Gates) \in Nat
    BY CircuitAssumption
  <1>1. j \in 1..(i - 1) /\ 1..(j - 1) \subseteq 1..(i - 1)
    BY <1>0
  <1>2. Assigned(j) \subseteq Assigned(i)
    BY <1>1, Zenon DEF Assigned
  <1> QED
    BY <1>1, <1>2, GateFacts, Zenon DEF Assigned

\* Assigned wires are wires; in the end the outputs are among them.
LEMMA AssignedWires ==
  /\ Inputs \subseteq Wire /\ Outputs \subseteq Wire
  /\ Outputs \subseteq Assigned(Len(Gates) + 1)
  /\ \A i \in 1..(Len(Gates) + 1) : Assigned(i) \subseteq Wire
  /\ Assigned(1) = Inputs
  <1>0. Len(Gates) \in Nat
    BY CircuitAssumption
  <1>1. Inputs \subseteq Wire /\ Outputs \subseteq Wire
    BY SizeAssumption DEF Inputs, Outputs, Wire
  <1>2. ASSUME NEW i \in 1..(Len(Gates) + 1)
        PROVE  Assigned(i) \subseteq Wire
    <2>1. 1..(i - 1) \subseteq 1..Len(Gates)
      BY <1>0
    <2> QED
      BY <1>1, <2>1, GateFacts DEF Assigned
  <1>3. 1..(1 - 1) = {}
    OBVIOUS
  <1>4. Assigned(1) = Inputs
    BY <1>3, Zenon DEF Assigned
  <1> QED
    BY <1>1, <1>2, <1>4, CircuitAssumption

(***************************************************************************)
(* The invariant.                                                          *)
(***************************************************************************)
GarbledAt(j) == GarbledGate(Gates[j].op, wires[Gates[j].in0],
                            wires[Gates[j].in1], tweak[j])
ComputedAt(j) == ComputedGate(Gates[j].op, plain[Gates[j].in0], plain[Gates[j].in1])
NextTweak(j) == (tweak[j] + Tweaks(Gates[j].op)) % IdMod

\* Gates computed and gates garbled so far.
Computed == IF phase = "compute" THEN n - 1 ELSE Len(Gates)
GarbledGates == IF phase = "compute" THEN 0
                ELSE IF phase = "garble" THEN n - 1 ELSE Len(Gates)

Rows == {GarbledGate(op, a, b, t).row :
           op \in Op, a \in Pair, b \in Pair, t \in 0..(IdMod - 1)}

SequencesInv ==
    /\ rows \in Seq(Rows) /\ tweak \in Seq(0..(IdMod - 1))
    /\ Len(rows) = GarbledGates /\ Len(tweak) = GarbledGates

\* Computed gates have their value.
PlainInv == \A j \in 1..Computed : plain[Gates[j].out] = ComputedAt(j)

\* Assigned wires have labels that differ by the offset.
WiresInv == phase # "compute" =>
    Offsets /\ \A w \in Assigned(GarbledGates + 1) : GoodWire(wires[w])

\* Garbled gates are what Gate.garble makes of the labels of their inputs.
GatesInv == \A j \in 1..GarbledGates :
    wires[Gates[j].out] = GarbledAt(j).wire /\ rows[j] = GarbledAt(j).row

\* The tweaks of the gates follow one another from 0, and so does id.
TweakInv ==
    /\ GarbledGates > 0 => tweak[1] = 0
    /\ \A j \in 1..(GarbledGates - 1) : tweak[j + 1] = NextTweak(j)
    /\ phase = "compute" => id = 0
    /\ phase = "garble" => id = IF n = 1 THEN 0 ELSE NextTweak(n - 1)
    /\ phase = "eval" /\ More => id = tweak[n]

EndInv == phase = "done" => n = Len(Gates) + 1

Inv == TypeOK /\ SequencesInv /\ PlainInv /\ WiresInv /\ GatesInv /\ TweakInv
       /\ ActiveLabels /\ NeverFails /\ EndInv /\ GarbledIsComputed

\* A garbled gate depends on key and offset only.
LEMMA GarbledStable ==
  ASSUME key' = key, r' = r
  PROVE  \A op, a, b, t : GarbledGate(op, a, b, t)' = GarbledGate(op, a, b, t)
  BY DEF GarbledGate, GarbleXOR, GarbleXNOR, GarbleAND, GarbleOR, GarbleINV,
         OrTable, InvTable, Offset, Half, Full, Masked

\* So do the rows.
LEMMA RowsStable ==
  ASSUME key' = key, r' = r
  PROVE  Rows' = Rows
  BY GarbledStable DEF Rows

\* Whether a pair of labels is good depends on the offset only.
LEMMA GoodWireStable ==
  ASSUME r' = r
  PROVE  \A w : GoodWire(w)' <=> GoodWire(w)
  BY DEF GoodWire

\* The counter stays within its width.
LEMMA TweaksTyped ==
  ASSUME NEW op \in Op, NEW t \in 0..(IdMod - 1)
  PROVE  (t + Tweaks(op)) % IdMod \in 0..(IdMod - 1)
  BY SizeAssumption DEF Tweaks, Op

\* A gate computes a bit.
LEMMA ComputedTyped ==
  ASSUME NEW op \in Op, NEW x \in BOOLEAN, NEW y \in BOOLEAN
  PROVE  ComputedGate(op, x, y) \in BOOLEAN
  BY DEF ComputedGate, Op

\* The invariant holds initially.
LEMMA InitKeeps == Init => Inv
  <1> SUFFICES ASSUME Init PROVE Inv
    OBVIOUS
  <1>0. Len(Gates) \in Nat
    BY CircuitAssumption
  <1>1. TypeOK
    <2>1. /\ phase = "compute" /\ n = 1 /\ id = 0
          /\ key \in Key /\ r = {} /\ rows = <<>> /\ tweak = <<>>
          /\ output \in [Outputs -> BOOLEAN]
      BY DEF Init
    <2>2. plain \in [Wire -> BOOLEAN]
      BY DEF Init
    <2>3. wires \in [Wire -> Pair] /\ label \in [Wire -> Label] /\ r \in Label
      BY DEF Init, Pair, Label
    <2>4. n \in 1..(Len(Gates) + 1) /\ id \in 0..(IdMod - 1)
      BY <1>0, <2>1, SizeAssumption
    <2> QED
      BY <2>1, <2>2, <2>3, <2>4 DEF TypeOK
  <1>2. GarbledGates = 0 /\ Computed = 0
    BY DEF Init, GarbledGates, Computed
  <1>3. SequencesInv
    BY <1>2 DEF SequencesInv, Init
  <1>4. PlainInv /\ WiresInv /\ GatesInv /\ TweakInv
    BY <1>2 DEF PlainInv, WiresInv, GatesInv, TweakInv, Init
  <1>5. ActiveLabels /\ NeverFails /\ EndInv /\ GarbledIsComputed
    BY DEF ActiveLabels, NeverFails, EndInv, GarbledIsComputed, Init
  <1> QED
    BY <1>1, <1>3, <1>4, <1>5 DEF Inv
LEMMA ComputeKeeps == Inv /\ ComputeGate => Inv'
  <1> SUFFICES ASSUME Inv, ComputeGate PROVE Inv'
    OBVIOUS
  <1>0. Len(Gates) \in Nat
    BY CircuitAssumption
  <1>1. /\ phase = "compute" /\ n \in 1..Len(Gates) /\ n' = n + 1
        /\ plain \in [Wire -> BOOLEAN]
        /\ UNCHANGED <<phase, key, r, wires, rows, id, tweak, label, output>>
        /\ plain' = [plain EXCEPT ![Gates[n].out] = ComputedAt(n)]
    BY <1>0 DEF Inv, TypeOK, ComputeGate, More, Gate, ComputedAt
  <1>2. ComputedAt(n) \in BOOLEAN
    BY <1>1, GateFacts, ComputedTyped DEF ComputedAt
  <1>3. TypeOK'
    <2>1. plain' \in [Wire -> BOOLEAN]
      BY <1>1, <1>2
    <2>2. n' \in 1..(Len(Gates) + 1)
      BY <1>0, <1>1
    <2> QED
      BY <1>1, <2>1, <2>2 DEF Inv, TypeOK, Pair
  <1>4. PlainInv'
    <2> SUFFICES ASSUME NEW j \in 1..n
                 PROVE  (plain[Gates[j].out] = ComputedAt(j))'
      BY <1>0, <1>1 DEF PlainInv, Computed
    <2>1. j \in 1..Len(Gates) /\ n \in 1..(Len(Gates) + 1) /\ n \in Int
      BY <1>0, <1>1
    <2>2. Gates[n].out \in Wire /\ Gates[n].out \notin Assigned(n)
      BY <1>1, GateFacts
    <2>3. /\ Gates[j].in0 \in Assigned(j) /\ Gates[j].in1 \in Assigned(j)
          /\ Gates[j].in0 \in Wire /\ Gates[j].in1 \in Wire /\ Gates[j].out \in Wire
      BY <2>1, GateFacts
    <2>4. CASE j = n
      BY <1>1, <2>2, <2>3, <2>4 DEF ComputedAt
    <2>5. CASE j < n
      <3>1. plain[Gates[j].out] = ComputedAt(j)
        BY <1>0, <1>1, <2>5 DEF Inv, PlainInv, Computed
      <3>2. /\ Gates[j].in0 \in Assigned(n) /\ Gates[j].in1 \in Assigned(n)
            /\ Gates[j].out \in Assigned(n)
        BY <2>1, <2>5, AssignedEarlier
      <3> QED
        BY <1>1, <2>2, <2>3, <3>1, <3>2 DEF ComputedAt
    <2> QED
      BY <2>1, <2>4, <2>5
  <1>5. GarbledGates = 0 /\ GarbledGates' = 0
    BY <1>1 DEF GarbledGates
  <1>6. SequencesInv'
    BY <1>1, <1>5, GarbledStable DEF Inv, SequencesInv, Rows
  <1>7. WiresInv' /\ GatesInv' /\ TweakInv'
    BY <1>1, <1>5 DEF Inv, WiresInv, GatesInv, TweakInv
  <1>8. ActiveLabels' /\ NeverFails' /\ EndInv' /\ GarbledIsComputed'
    BY <1>1 DEF ActiveLabels, NeverFails, EndInv, GarbledIsComputed
  <1> QED
    BY <1>3, <1>4, <1>6, <1>7, <1>8 DEF Inv

\* Draw keeps the invariant.
LEMMA DrawKeeps == Inv /\ Draw => Inv'
  <1> SUFFICES ASSUME Inv, Draw PROVE Inv'
    OBVIOUS
  <1>0. Len(Gates) \in Nat
    BY CircuitAssumption
  <1>1. /\ phase = "compute" /\ n = Len(Gates) + 1
        /\ phase' = "garble" /\ n' = 1
        /\ UNCHANGED <<plain, key, rows, id, tweak, label, output>>
    BY <1>0 DEF Inv, TypeOK, Draw, More
  <1>2. r' \in Label /\ Top \in r'
    <2>1. Top \in Bit
      BY SizeAssumption DEF Top, Bit
    <2> QED
      BY <2>1 DEF Draw, Label
  <1>3. PICK l0 \in [Inputs -> Label] :
          wires' = [w \in Wire |->
                      IF w \in Inputs THEN [L0 |-> l0[w], L1 |-> Xor(l0[w], r')]
                      ELSE wires[w]]
    BY Zenon DEF Draw
  <1>4. \A w \in Inputs : wires'[w] \in Pair /\ wires'[w].L1 = Xor(wires'[w].L0, r')
    <2> TAKE w \in Inputs
    <2>1. wires'[w] = [L0 |-> l0[w], L1 |-> Xor(l0[w], r')]
      BY <1>3, AssignedWires
    <2>2. l0[w] \in Label /\ Xor(l0[w], r') \in Label
      BY <1>2, XorTyped
    <2> QED
      BY <2>1, <2>2 DEF Pair
  <1>5. TypeOK'
    <2>1. wires' \in [Wire -> Pair]
      <3>1. \A w \in Wire : wires'[w] \in Pair
        <4> TAKE w \in Wire
        <4>1. CASE w \in Inputs
          BY <1>4, <4>1
        <4>2. CASE w \notin Inputs
          BY <1>3, <4>2 DEF Inv, TypeOK
        <4> QED
          BY <4>1, <4>2
      <3>2. wires' = [w \in Wire |-> wires'[w]]
        BY <1>3
      <3> QED
        BY <3>1, <3>2
    <2>2. n' \in 1..(Len(Gates) + 1)
      BY <1>0, <1>1
    <2> QED
      BY <1>1, <1>2, <2>1, <2>2 DEF Inv, TypeOK, Label, Bit
  <1>6. /\ Computed = Len(Gates) /\ Computed' = Len(Gates)
        /\ GarbledGates = 0 /\ GarbledGates' = 0
    BY <1>0, <1>1 DEF Computed, GarbledGates
  <1>7. SequencesInv'
    <2>1. rows = <<>> /\ tweak = <<>>
      BY <1>6 DEF Inv, SequencesInv
    <2> QED
      BY <1>1, <1>6, <2>1 DEF SequencesInv
  <1>8. PlainInv'
    BY <1>1, <1>6 DEF Inv, PlainInv, ComputedAt
  <1>9. WiresInv'
    <2>1. Offsets'
      BY <1>1, <1>2 DEF Inv, TypeOK, Offsets, Label, Top, Bit
    <2>2. \A w \in Inputs : GoodWire(wires[w])'
      BY <1>4 DEF GoodWire, Pair, Label, Xor, Bit
    <2>3. Assigned(GarbledGates' + 1) = Inputs
      BY <1>6, AssignedWires
    <2> QED
      BY <2>1, <2>2, <2>3 DEF WiresInv
  <1>10. GatesInv' /\ TweakInv'
    BY <1>1, <1>6 DEF Inv, GatesInv, TweakInv
  <1>11. ActiveLabels' /\ NeverFails' /\ EndInv' /\ GarbledIsComputed'
    BY <1>1 DEF ActiveLabels, NeverFails, EndInv, GarbledIsComputed
  <1> QED
    BY <1>5, <1>7, <1>8, <1>9, <1>10, <1>11 DEF Inv
LEMMA GarbleKeeps == Inv /\ GarbleGate => Inv'
  <1> SUFFICES ASSUME Inv, GarbleGate PROVE Inv'
    OBVIOUS
  <1> DEFINE t == id
             a == wires[Gates[n].in0]
             b == wires[Gates[n].in1]
             g == GarbledGate(Gates[n].op, a, b, t)
  <1>0. Len(Gates) \in Nat
    BY CircuitAssumption
  <1>1. /\ phase = "garble" /\ n \in 1..Len(Gates) /\ n' = n + 1 /\ n \in Int
        /\ UNCHANGED <<phase, plain, key, r, label, output>>
        /\ wires' = [wires EXCEPT ![Gates[n].out] = g.wire]
        /\ rows' = Append(rows, g.row) /\ tweak' = Append(tweak, id)
        /\ id' = (id + Tweaks(Gates[n].op)) % IdMod
    BY <1>0 DEF Inv, TypeOK, GarbleGate, More, Gate
  <1>2. /\ Gates[n].op \in Op /\ Gates[n].in0 \in Wire /\ Gates[n].in1 \in Wire
        /\ Gates[n].out \in Wire
        /\ Gates[n].in0 \in Assigned(n) /\ Gates[n].in1 \in Assigned(n)
        /\ Gates[n].out \notin Assigned(n)
    BY <1>1, GateFacts
  <1>3. /\ GarbledGates = n - 1 /\ GarbledGates' = n
        /\ GarbledGates + 1 = n /\ GarbledGates' + 1 = n + 1
    BY <1>1 DEF GarbledGates
  <1>4. /\ Offsets /\ Offsets'
        /\ \A w \in Assigned(n) : GoodWire(wires[w])
    BY <1>1, <1>3 DEF Inv, WiresInv, Offsets
  <1>5. GoodWire(g.wire) /\ a \in Pair /\ b \in Pair
    <2>1. GoodWire(a) /\ GoodWire(b)
      BY <1>2, <1>4
    <2>2. GateWorks(Gates[n].op, a, b, TRUE, TRUE,
                    ComputedGate(Gates[n].op, TRUE, TRUE), g, t)
      BY <1>2, <1>4, <2>1, GateCorrect
    <2> QED
      BY <2>1, <2>2 DEF GateWorks, GoodWire
  <1>6. id \in 0..(IdMod - 1) /\ id' \in 0..(IdMod - 1) /\ wires \in [Wire -> Pair]
    BY <1>1, <1>2, TweaksTyped DEF Inv, TypeOK
  <1>7. /\ rows \in Seq(Rows) /\ tweak \in Seq(0..(IdMod - 1))
        /\ Len(rows) = n - 1 /\ Len(tweak) = n - 1
    BY <1>3 DEF Inv, SequencesInv
  <1>8. g.row \in Rows
    BY <1>2, <1>5, <1>6 DEF Rows
  <1>9. /\ Len(rows') = n /\ Len(tweak') = n
        /\ rows' \in Seq(Rows) /\ tweak' \in Seq(0..(IdMod - 1))
        /\ rows'[n] = g.row /\ tweak'[n] = id
        /\ \A j \in 1..(n - 1) : rows'[j] = rows[j] /\ tweak'[j] = tweak[j]
    <2> HIDE DEF g
    <2> QED
      BY SMTT(30), <1>1, <1>6, <1>7, <1>8
  <1>10. TypeOK'
    <2>1. wires' \in [Wire -> Pair]
      BY <1>1, <1>5, <1>6 DEF GoodWire
    <2>2. n' \in 1..(Len(Gates) + 1)
      BY <1>0, <1>1
    <2>3. \A i \in 1..Len(tweak') : tweak'[i] \in 0..(IdMod - 1)
      <3> SUFFICES ASSUME NEW i \in 1..n PROVE tweak'[i] \in 0..(IdMod - 1)
        BY <1>9
      <3>1. CASE i = n
        BY <3>1, <1>6, <1>9
      <3>2. CASE i # n
        BY <3>2, <1>1, <1>7, <1>9 DEF Inv, TypeOK
      <3> QED
        BY <3>1, <3>2
    <2> QED
      BY <1>1, <1>6, <1>9, <2>1, <2>2, <2>3 DEF Inv, TypeOK
  <1>11. SequencesInv'
    <2>1. Rows' = Rows
      BY <1>1, RowsStable
    <2> QED
      BY <1>3, <1>9, <2>1 DEF SequencesInv
  <1>12. PlainInv'
    BY <1>1 DEF Inv, PlainInv, Computed, ComputedAt
  <1>13. \A w \in Assigned(n) : wires'[w] = wires[w]
    <2>1. Assigned(n) \subseteq Wire
      BY <1>0, <1>1, AssignedWires
    <2> QED
      BY <1>1, <1>2, <1>6, <2>1
  <1>14. wires'[Gates[n].out] = g.wire
    BY <1>1, <1>2, <1>6
  <1>15. WiresInv'
    <2> SUFFICES ASSUME NEW w \in Assigned(n + 1)
                 PROVE  GoodWire(wires[w])'
      BY <1>3, <1>4 DEF WiresInv
    <2>1. w \in Assigned(n) \/ w = Gates[n].out
      BY <1>1, AssignedNext
    <2>2. GoodWire(wires'[w])
      BY <2>1, <1>4, <1>5, <1>13, <1>14
    <2> QED
      BY <2>2, <1>1, GoodWireStable
  <1>16. GatesInv'
    <2> SUFFICES ASSUME NEW j \in 1..n
                 PROVE  (wires[Gates[j].out] = GarbledAt(j).wire
                           /\ rows[j] = GarbledAt(j).row)'
      BY <1>3 DEF GatesInv
    <2>1. j \in 1..Len(Gates) /\ n \in 1..(Len(Gates) + 1)
      BY <1>0, <1>1
    <2>2. Gates[j].in0 \in Assigned(n) /\ Gates[j].in1 \in Assigned(n)
      BY <1>1, <1>2, <2>1, AssignedEarlier
    <2>3. GarbledAt(j)' = GarbledGate(Gates[j].op, wires[Gates[j].in0],
                                      wires[Gates[j].in1], tweak'[j])
      <3>1. /\ wires'[Gates[j].in0] = wires[Gates[j].in0]
            /\ wires'[Gates[j].in1] = wires[Gates[j].in1]
        BY <1>13, <2>2
      <3>2. GarbledAt(j)' = GarbledGate(Gates[j].op, wires'[Gates[j].in0],
                                        wires'[Gates[j].in1], tweak'[j])
        BY <1>1, GarbledStable DEF GarbledAt
      <3> QED
        BY <3>1, <3>2
    <2>4. CASE j = n
      BY <1>9, <1>14, <2>3, <2>4
    <2>5. CASE j < n
      <3>1. j \in 1..(n - 1) /\ Gates[j].out \in Assigned(n)
        BY <1>1, <2>1, <2>5, AssignedEarlier
      <3>2. wires[Gates[j].out] = GarbledAt(j).wire /\ rows[j] = GarbledAt(j).row
        BY <1>3, <3>1 DEF Inv, GatesInv
      <3>3. GarbledAt(j)' = GarbledAt(j)
        BY <1>9, <2>3, <3>1 DEF GarbledAt
      <3> QED
        BY <1>9, <1>13, <3>1, <3>2, <3>3
    <2> QED
      BY <2>1, <2>4, <2>5
  <1>17. TweakInv'
    <2>1. tweak'[1] = 0
      <3>1. CASE n = 1
        BY <3>1, <1>1, <1>9 DEF Inv, TweakInv
      <3>2. CASE n # 1
        BY <3>2, <1>1, <1>3, <1>9 DEF Inv, TweakInv
      <3> QED
        BY <3>1, <3>2
    <2>2. ASSUME NEW j \in 1..(n - 1)
          PROVE  tweak'[j + 1] = NextTweak(j)'
      <3>1. tweak'[j] = tweak[j] /\ NextTweak(j)' = NextTweak(j)
        BY <1>9 DEF NextTweak
      <3>2. CASE j = n - 1
        <4>1. id = NextTweak(j) /\ j + 1 = n
          BY <1>1, <3>2 DEF Inv, TweakInv
        <4> QED
          BY <1>9, <3>1, <4>1
      <3>3. CASE j < n - 1
        <4>1. j + 1 \in 1..(n - 1) /\ j \in 1..(GarbledGates - 1)
          BY <1>1, <1>3, <3>3
        <4>2. tweak[j + 1] = NextTweak(j)
          BY <4>1 DEF Inv, TweakInv
        <4> QED
          BY <1>9, <3>1, <4>1, <4>2
      <3>4. j = n - 1 \/ j < n - 1
        BY <1>1
      <3> QED
        BY <3>2, <3>3, <3>4, Zenon
    <2>3. n' # 1 /\ n' - 1 = n
      BY <1>1
    <2>4. id' = (tweak'[n' - 1] + Tweaks(Gates[n' - 1].op)) % IdMod
      BY <1>1, <1>9, <2>3
    <2>5. id' = NextTweak(n - 1)'
      BY <2>4 DEF NextTweak
    <2>6. \A j \in 1..(n - 1) : tweak'[j + 1] = NextTweak(j)'
      BY <2>2
    <2> QED
      BY <1>1, <1>3, <2>1, <2>3, <2>5, <2>6 DEF TweakInv
  <1>18. ActiveLabels' /\ NeverFails' /\ EndInv' /\ GarbledIsComputed'
    BY <1>1 DEF ActiveLabels, NeverFails, EndInv, GarbledIsComputed
  <1> QED
    BY <1>10, <1>11, <1>12, <1>15, <1>16, <1>17, <1>18 DEF Inv
LEMMA HandoverKeeps == Inv /\ Handover => Inv'
  <1> SUFFICES ASSUME Inv, Handover PROVE Inv'
    OBVIOUS
  <1>0. Len(Gates) \in Nat
    BY CircuitAssumption
  <1>1. /\ phase = "garble" /\ n = Len(Gates) + 1
        /\ phase' = "eval" /\ n' = 1 /\ id' = 0
        /\ UNCHANGED <<plain, key, r, wires, rows, tweak, output>>
        /\ label' = [w \in Wire |-> IF w \in Inputs THEN LabelForBit(wires[w], plain[w])
                                    ELSE {}]
    BY <1>0 DEF Inv, TypeOK, Handover, More
  <1>2. /\ Computed = Len(Gates) /\ Computed' = Len(Gates)
        /\ GarbledGates = Len(Gates) /\ GarbledGates' = Len(Gates)
    BY <1>0, <1>1 DEF Computed, GarbledGates
  <1>3. TypeOK'
    <2>1. label' \in [Wire -> Label]
      BY <1>1 DEF Inv, TypeOK, LabelForBit, Pair, Label
    <2>2. n' \in 1..(Len(Gates) + 1) /\ id' \in 0..(IdMod - 1)
      BY <1>0, <1>1, SizeAssumption
    <2> QED
      BY <1>1, <2>1, <2>2 DEF Inv, TypeOK
  <1>4. SequencesInv'
    BY <1>1, <1>2, RowsStable DEF Inv, SequencesInv
  <1>5. PlainInv'
    BY <1>1, <1>2 DEF Inv, PlainInv, ComputedAt
  <1>6. WiresInv'
    BY <1>1, <1>2, GoodWireStable DEF Inv, WiresInv, Offsets
  <1>7. GatesInv'
    <2>1. \A j : GarbledAt(j)' = GarbledAt(j)
      BY <1>1, GarbledStable DEF GarbledAt
    <2> QED
      BY <1>1, <1>2, <2>1 DEF Inv, GatesInv
  <1>8. TweakInv'
    <2>1. \A j : NextTweak(j)' = NextTweak(j)
      BY <1>1 DEF NextTweak
    <2>2. More' => GarbledGates > 0
      BY <1>0, <1>1, <1>2 DEF More
    <2> QED
      BY <1>1, <1>2, <2>1, <2>2 DEF Inv, TweakInv
  <1>9. ActiveLabels'
    <2>1. \A w \in Inputs : label'[w] = LabelForBit(wires[w], plain[w])
      BY <1>1, AssignedWires
    <2> QED
      BY <1>1, <2>1, AssignedWires DEF ActiveLabels, LabelForBit
  <1>10. NeverFails' /\ EndInv' /\ GarbledIsComputed'
    BY <1>1 DEF NeverFails, EndInv, GarbledIsComputed
  <1> QED
    BY <1>3, <1>4, <1>5, <1>6, <1>7, <1>8, <1>9, <1>10 DEF Inv

\* EvalGate keeps the invariant.
LEMMA EvalKeeps == Inv /\ EvalGate => Inv'
  <1> SUFFICES ASSUME Inv, EvalGate PROVE Inv'
    OBVIOUS
  <1> DEFINE a == wires[Gates[n].in0]
             b == wires[Gates[n].in1]
             x == plain[Gates[n].in0]
             y == plain[Gates[n].in1]
             la == label[Gates[n].in0]
             lb == label[Gates[n].in1]
             op == Gates[n].op
             e == EvaluatedGate(op, la, lb, rows[n], id)
  <1>0. Len(Gates) \in Nat
    BY CircuitAssumption
  <1>1. /\ phase = "eval" /\ n \in 1..Len(Gates) /\ n \in Int
        /\ UNCHANGED <<plain, key, r, wires, rows, tweak, output>>
        /\ IF RowFits(op, la, lb, rows[n])
           THEN /\ label' = [label EXCEPT ![Gates[n].out] = e]
                /\ id' = (id + Tweaks(op)) % IdMod
                /\ n' = n + 1
                /\ UNCHANGED phase
           ELSE /\ phase' = "failed"
                /\ UNCHANGED <<label, id, n>>
    BY <1>0 DEF Inv, TypeOK, EvalGate, More, Gate
  <1>2. /\ op \in Op /\ Gates[n].in0 \in Wire /\ Gates[n].in1 \in Wire
        /\ Gates[n].out \in Wire
        /\ Gates[n].in0 \in Assigned(n) /\ Gates[n].in1 \in Assigned(n)
        /\ Gates[n].out \notin Assigned(n)
    BY <1>1, GateFacts
  <1>3. Computed = Len(Gates) /\ GarbledGates = Len(Gates)
    BY <1>1 DEF Computed, GarbledGates
  <1>4. /\ id = tweak[n]
        /\ wires[Gates[n].out] = GarbledGate(op, a, b, id).wire
        /\ rows[n] = GarbledGate(op, a, b, id).row
        /\ plain[Gates[n].out] = ComputedGate(op, x, y)
    <2>1. id = tweak[n]
      BY <1>0, <1>1 DEF Inv, TweakInv, More
    <2>2. wires[Gates[n].out] = GarbledAt(n).wire /\ rows[n] = GarbledAt(n).row
      BY <1>1, <1>3 DEF Inv, GatesInv
    <2>3. plain[Gates[n].out] = ComputedAt(n)
      BY <1>1, <1>3 DEF Inv, PlainInv
    <2> QED
      BY <2>1, <2>2, <2>3 DEF GarbledAt, ComputedAt
  <1>5. Offsets /\ GoodWire(a) /\ GoodWire(b) /\ x \in BOOLEAN /\ y \in BOOLEAN
    <2>1. n \in 1..(Len(Gates) + 1) /\ Len(Gates) + 1 \in 1..(Len(Gates) + 1)
      BY <1>0, <1>1
    <2>2. /\ Gates[n].in0 \in Assigned(Len(Gates) + 1)
          /\ Gates[n].in1 \in Assigned(Len(Gates) + 1)
      BY <1>1, <2>1, AssignedEarlier
    <2>3. plain \in [Wire -> BOOLEAN]
      BY DEF Inv, TypeOK
    <2> QED
      BY <1>1, <1>2, <1>3, <2>2, <2>3 DEF Inv, WiresInv
  <1>6. la = LabelForBit(a, x) /\ lb = LabelForBit(b, y)
    BY <1>1, <1>2 DEF Inv, ActiveLabels
  <1>7. /\ GoodWire(wires[Gates[n].out])
        /\ RowFits(op, la, lb, rows[n])
        /\ e = LabelForBit(wires[Gates[n].out], plain[Gates[n].out])
    <2>1. GateWorks(op, a, b, x, y, ComputedGate(op, x, y),
                    GarbledGate(op, a, b, id), id)
      BY <1>2, <1>5, GateCorrect
    <2> QED
      BY <1>4, <1>6, <2>1 DEF GateWorks
  <1>8. /\ label' = [label EXCEPT ![Gates[n].out] = e]
        /\ id' = (id + Tweaks(op)) % IdMod
        /\ n' = n + 1
        /\ phase' = "eval"
    <2> HIDE DEF op, la, lb, e
    <2> QED
      BY <1>1, <1>7
  <1>9. e \in Label
    <2>1. plain[Gates[n].out] \in BOOLEAN
      BY <1>2 DEF Inv, TypeOK
    <2> QED
      BY <2>1, <1>5, <1>7, Select
  <1>10. TypeOK'
    <2>1. label' \in [Wire -> Label]
      BY <1>8, <1>9 DEF Inv, TypeOK
    <2>2. n' \in 1..(Len(Gates) + 1)
      BY <1>0, <1>1, <1>8
    <2>3. id' \in 0..(IdMod - 1)
      BY <1>2, <1>8, TweaksTyped DEF Inv, TypeOK
    <2> QED
      BY <1>1, <1>8, <2>1, <2>2, <2>3 DEF Inv, TypeOK
  <1>11. Computed' = Len(Gates) /\ GarbledGates' = Len(Gates)
    BY <1>8 DEF Computed, GarbledGates
  <1>12. SequencesInv'
    BY <1>1, <1>3, <1>11, RowsStable DEF Inv, SequencesInv
  <1>13. PlainInv'
    BY <1>1, <1>3, <1>11 DEF Inv, PlainInv, ComputedAt
  <1>14. WiresInv'
    BY <1>1, <1>3, <1>8, <1>11, GoodWireStable DEF Inv, WiresInv, Offsets
  <1>15. GatesInv'
    <2>1. \A j : GarbledAt(j)' = GarbledAt(j)
      BY <1>1, GarbledStable DEF GarbledAt
    <2> QED
      BY <1>1, <1>3, <1>11, <2>1 DEF Inv, GatesInv
  <1>16. TweakInv'
    <2>1. \A j : NextTweak(j)' = NextTweak(j)
      BY <1>1 DEF NextTweak
    <2>2. ASSUME More'
          PROVE  id' = tweak'[n']
      <3>1. n \in 1..(GarbledGates - 1)
        BY <1>0, <1>1, <1>3, <1>8, <2>2 DEF More
      <3>2. tweak[n + 1] = NextTweak(n)
        BY <3>1 DEF Inv, TweakInv
      <3> QED
        BY <1>1, <1>4, <1>8, <3>2 DEF NextTweak
    <2> QED
      BY <1>1, <1>3, <1>8, <1>11, <2>1, <2>2 DEF Inv, TweakInv
  <1>17. ActiveLabels'
    <2> SUFFICES ASSUME NEW w \in Assigned(n + 1)
                 PROVE  label'[w] = LabelForBit(wires[w], plain[w])
      BY <1>1, <1>8 DEF ActiveLabels, LabelForBit
    <2>1. w \in Assigned(n) \/ w = Gates[n].out
      BY <1>1, AssignedNext
    <2>2. label \in [Wire -> Label] /\ Assigned(n) \subseteq Wire
      BY <1>0, <1>1, AssignedWires DEF Inv, TypeOK
    <2>3. CASE w = Gates[n].out
      BY <1>2, <1>7, <1>8, <2>2, <2>3
    <2>4. CASE w \in Assigned(n)
      <3>1. label[w] = LabelForBit(wires[w], plain[w])
        BY <1>1, <2>4 DEF Inv, ActiveLabels
      <3>2. label'[w] = label[w]
        BY <1>2, <1>8, <2>2, <2>4
      <3> QED
        BY <3>1, <3>2
    <2> QED
      BY <2>1, <2>3, <2>4
  <1>18. NeverFails' /\ EndInv' /\ GarbledIsComputed'
    BY <1>8 DEF NeverFails, EndInv, GarbledIsComputed
  <1> QED
    BY <1>10, <1>12, <1>13, <1>14, <1>15, <1>16, <1>17, <1>18 DEF Inv

\* Decode keeps the invariant.
LEMMA DecodeKeeps == Inv /\ Decode => Inv'
  <1> SUFFICES ASSUME Inv, Decode PROVE Inv'
    OBVIOUS
  <1>0. Len(Gates) \in Nat
    BY CircuitAssumption
  <1>1. /\ phase = "eval" /\ n = Len(Gates) + 1
        /\ UNCHANGED <<n, plain, key, r, wires, rows, id, tweak, label>>
    BY <1>0 DEF Inv, TypeOK, Decode, More
  <1>2. Computed = Len(Gates) /\ GarbledGates = Len(Gates)
    BY <1>1 DEF Computed, GarbledGates
  <1>3. \A w \in Outputs : /\ GoodWire(wires[w]) /\ plain[w] \in BOOLEAN
                           /\ label[w] = LabelForBit(wires[w], plain[w])
    BY <1>1, <1>2, AssignedWires DEF Inv, WiresInv, ActiveLabels, TypeOK
  <1>4. Offsets
    BY <1>1 DEF Inv, WiresInv
  <1>5. \A w \in Outputs : Known(w) /\ (label[w] # wires[w].L0 <=> plain[w])
    BY <1>3, <1>4, LabelsDiffer DEF Known, LabelForBit
  <1>6. /\ phase' = "done"
        /\ output' = [w \in Outputs |-> label[w] # wires[w].L0]
    BY <1>5 DEF Decode
  <1>7. \A w \in Outputs : output'[w] \in BOOLEAN /\ (output'[w] <=> plain[w])
    BY <1>5, <1>6
  <1>8. TypeOK'
    <2>1. output' \in [Outputs -> BOOLEAN]
      BY <1>6, <1>7
    <2> QED
      BY <1>1, <1>6, <2>1 DEF Inv, TypeOK
  <1>9. Computed' = Len(Gates) /\ GarbledGates' = Len(Gates)
    BY <1>6 DEF Computed, GarbledGates
  <1>10. SequencesInv'
    BY <1>1, <1>2, <1>9, RowsStable DEF Inv, SequencesInv
  <1>11. PlainInv'
    BY <1>1, <1>2, <1>9 DEF Inv, PlainInv, ComputedAt
  <1>12. WiresInv'
    BY <1>1, <1>2, <1>6, <1>9, GoodWireStable DEF Inv, WiresInv, Offsets
  <1>13. GatesInv'
    <2>1. \A j : GarbledAt(j)' = GarbledAt(j)
      BY <1>1, GarbledStable DEF GarbledAt
    <2> QED
      BY <1>1, <1>2, <1>9, <2>1 DEF Inv, GatesInv
  <1>14. TweakInv'
    <2>1. \A j : NextTweak(j)' = NextTweak(j)
      BY <1>1 DEF NextTweak
    <2> QED
      BY <1>1, <1>2, <1>6, <1>9, <2>1 DEF Inv, TweakInv
  <1>15. ActiveLabels' /\ NeverFails' /\ EndInv'
    BY <1>1, <1>6 DEF Inv, ActiveLabels, LabelForBit, NeverFails, EndInv
  <1>16. GarbledIsComputed'
    BY <1>1, <1>3, <1>7 DEF GarbledIsComputed
  <1> QED
    BY <1>8, <1>10, <1>11, <1>12, <1>13, <1>14, <1>15, <1>16 DEF Inv

\* Stuttering keeps the invariant.
LEMMA StutterKeeps == Inv /\ UNCHANGED vars => Inv'
  <1> SUFFICES ASSUME Inv, UNCHANGED vars PROVE Inv'
    OBVIOUS
  <1>1. UNCHANGED <<phase, n, plain, key, r, wires, rows, id, tweak, label, output>>
    BY DEF vars
  <1>2. Computed' = Computed /\ GarbledGates' = GarbledGates
    BY <1>1 DEF Computed, GarbledGates
  <1>3. TypeOK' /\ SequencesInv'
    BY <1>1, <1>2, RowsStable DEF Inv, TypeOK, SequencesInv
  <1>4. PlainInv' /\ WiresInv'
    BY <1>1, <1>2, GoodWireStable DEF Inv, PlainInv, ComputedAt, WiresInv, Offsets
  <1>5. GatesInv'
    <2>1. \A j : GarbledAt(j)' = GarbledAt(j)
      BY <1>1, GarbledStable DEF GarbledAt
    <2> QED
      BY <1>1, <1>2, <2>1 DEF Inv, GatesInv
  <1>6. TweakInv'
    <2>1. \A j : NextTweak(j)' = NextTweak(j)
      BY <1>1 DEF NextTweak
    <2>2. NextTweak(n - 1)' = NextTweak(n - 1) /\ More' = More
      BY <1>1 DEF NextTweak, More
    <2> QED
      BY <1>1, <1>2, <2>1, <2>2 DEF Inv, TweakInv
  <1>7. ActiveLabels' /\ NeverFails' /\ EndInv' /\ GarbledIsComputed'
    BY <1>1 DEF Inv, ActiveLabels, LabelForBit, NeverFails, EndInv, GarbledIsComputed
  <1> QED
    BY <1>3, <1>4, <1>5, <1>6, <1>7 DEF Inv

\* The invariant holds throughout.
LEMMA InvHolds == Spec => []Inv
  <1>1. Inv /\ [Next]_vars => Inv'
    BY ComputeKeeps, DrawKeeps, GarbleKeeps, HandoverKeeps, EvalKeeps,
       DecodeKeeps, StutterKeeps DEF Next
  <1> QED
    BY <1>1, InitKeeps, PTL DEF Spec

(***************************************************************************)
(* The theorems.                                                           *)
(***************************************************************************)
\* The three loops keep their types: in particular the tweak counter stays
\* in its width and every label is a label (garble.go, eval.go, label.go).
THEOREM GarblingTypeCorrect == Spec => []TypeOK
  <1>1. Inv => TypeOK
    BY DEF Inv
  <1> QED
    BY <1>1, InvHolds, PTL

\* Evaluating a garbled circuit and decoding its output labels gives what
\* Circuit.Compute gives, whatever the circuit, the inputs, the key, the
\* offset and the labels that were drawn (garble.go, eval.go, helpers.go).
THEOREM GarblingCorrect == Spec => []GarbledIsComputed
  <1>1. Inv => GarbledIsComputed
    BY DEF Inv
  <1> QED
    BY <1>1, InvHolds, PTL

\* The evaluator never finds a row too short and the garbler never meets an
\* output label it does not know (eval.go:52-56, 80-84; helpers.go:18-27).
THEOREM EvaluationSucceeds == Spec => []NeverFails
  <1>1. Inv => NeverFails
    BY DEF Inv
  <1> QED
    BY <1>1, InvHolds, PTL

\* The evaluator holds, on every wire, the garbler's label for the bit of
\* that wire: the two tweak counters never drift apart.
THEOREM LabelsStayActive == Spec => []ActiveLabels
  <1>1. Inv => ActiveLabels
    BY DEF Inv
  <1> QED
    BY <1>1, InvHolds, PTL
=============================================================================
