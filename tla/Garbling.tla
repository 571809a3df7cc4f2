------------------------------ MODULE Garbling ------------------------------
(***************************************************************************)
(* One circuit, three runs over its gates: Circuit.Compute on the plain    *)
(* bits, Circuit.Garble on pairs of labels, and Circuit.Eval on one label  *)
(* of each wire.  The garbler and the evaluator only share the circuit,    *)
(* the key, the rows of the garbled gates and the labels of the inputs;    *)
(* both count tweaks on their own, and the evaluator finds its row by the  *)
(* select bits of its labels.                                              *)
(*                                                                         *)
(* A label is the set of its bits that are one (128 in the code), so that  *)
(* Xor is the symmetric difference.  AES under the key is any function.    *)
(***************************************************************************)
EXTENDS Integers, Sequences

CONSTANTS Gates,      \* the gates in order: op, inputs and output wire
                      \* (the second input of INV is wire 0 and not used)
          N0, N1,     \* bits of the garbler's and of the evaluator's input
          NumWires, NumOutputs,
          Width,      \* bits of a label; the highest one is the S bit
          Key, AES,   \* AES[k][l]: the block l encrypted under k
          IdMod       \* tweaks are counted modulo this (2^32)

Wire == 0..(NumWires - 1)
Inputs == 0..(N0 + N1 - 1)
Outputs == (NumWires - NumOutputs)..(NumWires - 1)
Op == {"XOR", "XNOR", "AND", "OR", "INV"}

Bit == 0..(Width - 1)
Label == SUBSET Bit
Pair == [L0 : Label, L1 : Label]

ASSUME SizeAssumption ==
    /\ N0 \in Nat /\ N1 \in Nat /\ NumWires \in Nat /\ NumOutputs \in Nat
    /\ N0 + N1 <= NumWires /\ NumOutputs <= NumWires
    /\ Width \in Nat \ {0} /\ IdMod \in Nat \ {0}
    /\ AES \in [Key -> [Label -> Label]]

\* Wires that have a value before gate i: what ParseBristol demands and the
\* netlist compiler numbers.
Assigned(i) == Inputs \cup {Gates[j].out : j \in 1..(i - 1)}

GateRecord == [op : Op, in0 : Wire, in1 : Wire, out : Wire]

ASSUME CircuitAssumption ==
    /\ Gates \in Seq(GateRecord)
    /\ \A i \in 1..Len(Gates) :
         /\ Gates[i].in0 \in Assigned(i) /\ Gates[i].in1 \in Assigned(i)
         /\ Gates[i].out \notin Assigned(i)
    /\ Outputs \subseteq Assigned(Len(Gates) + 1)

VARIABLES phase,   \* "compute", "garble", "eval", then "done" or "failed"
          n,       \* the gate the loop of the phase is at
          plain,   \* Compute: the bit on each wire
          key, r,  \* Garble: the AES key and the global offset
          wires,   \* Garble: the two labels of each wire
          rows,    \* the garbled gates
          id,      \* the tweak counter of the present loop
          tweak,   \* history: the counter when each gate was garbled
          label,   \* Eval: the label of each wire
          output   \* the bits decoded from the output labels

vars == <<phase, n, plain, key, r, wires, rows, id, tweak, label, output>>

(***************************************************************************)
(* Labels.                                                                 *)
(***************************************************************************)
Top == Width - 1
S(l) == Top \in l
Xor(a, b) == (a \ b) \cup (b \ a)
XorIf(c, a, b) == IF c THEN Xor(a, b) ELSE a
Mul2(l) == {i + 1 : i \in l} \cap Bit
Mul4(l) == {i + 2 : i \in l} \cap Bit
NewTweak(t) == {i \in Bit : (t \div (2 ^ i)) % 2 = 1}
LabelForBit(w, bit) == IF bit THEN w.L1 ELSE w.L0

\* encryptHalf, and encrypt or decrypt without the label they hide.
Masked(k) == Xor(AES[key][k], k)
Half(x, t) == Masked(Xor(Mul2(x), NewTweak(t)))
Full(a, b, t) == Masked(Xor(Xor(Mul2(a), Mul4(b)), NewTweak(t)))

IdxUnary(l) == IF S(l) THEN 1 ELSE 0
Idx(a, b) == 2 * IdxUnary(a) + IdxUnary(b)

(***************************************************************************)
(* Gate.garble: the labels of the output wire and the row to send.         *)
(***************************************************************************)
Garbled(l0, l1, row) == [wire |-> [L0 |-> l0, L1 |-> l1], row |-> row]
Offset(l0, row) == Garbled(l0, Xor(l0, r), row)

GarbleXOR(a, b) == Offset(Xor(a.L0, b.L0), <<>>)
\* Mutant: the labels are not swapped.
GarbleXNOR_NotSwapped(a, b) == Offset(Xor(a.L0, b.L0), <<>>)
GarbleXNOR(a, b) == Garbled(Xor(Xor(a.L0, b.L0), r), Xor(a.L0, b.L0), <<>>)

GarbleAND(a, b, t) ==
    LET u == (t + 1) % IdMod
        tg == XorIf(S(b.L0), Xor(Half(a.L0, t), Half(a.L1, t)), r)
        wg0 == XorIf(S(a.L0), Half(a.L0, t), tg)
        te == Xor(Xor(Half(b.L0, u), Half(b.L1, u)), a.L0)
        we0 == XorIf(S(b.L0), Half(b.L0, u), Xor(te, a.L0))
    IN  Offset(Xor(wg0, we0), <<tg, te>>)

\* Row reduction: the output labels are chosen so that row 0 is zero and is
\* not sent.  first: the label in row 0, other: the label in other rows.
OrTable(a, b, t) ==
    [[i \in 0..3 |-> {}] EXCEPT
        ![Idx(a.L0, b.L0)] = Full(a.L0, b.L0, t),
        ![Idx(a.L0, b.L1)] = Full(a.L0, b.L1, t),
        ![Idx(a.L1, b.L0)] = Full(a.L1, b.L0, t),
        ![Idx(a.L1, b.L1)] = Full(a.L1, b.L1, t)]

\* Mutant: a row too few is sent.
GarbleOR_TwoRows(a, b, t) ==
    LET table == OrTable(a, b, t)
        zero == Idx(a.L0, b.L0)
        l0 == XorIf(zero # 0, table[0], r)
        l1 == XorIf(zero = 0, table[0], r)
        row == [i \in 1..2 |-> Xor(table[i], IF i = zero THEN l0 ELSE l1)]
    IN  Garbled(l0, l1, row)

GarbleOR(a, b, t) ==
    LET table == OrTable(a, b, t)
        zero == Idx(a.L0, b.L0)
        l0 == XorIf(zero # 0, table[0], r)
        l1 == XorIf(zero = 0, table[0], r)
        row == [i \in 1..3 |-> Xor(table[i], IF i = zero THEN l0 ELSE l1)]
    IN  Garbled(l0, l1, row)

InvTable(a, t) ==
    [[i \in 0..1 |-> {}] EXCEPT ![IdxUnary(a.L0)] = Full(a.L0, {}, t),
                                ![IdxUnary(a.L1)] = Full(a.L1, {}, t)]

GarbleINV(a, t) ==
    LET table == InvTable(a, t)
        zero == IdxUnary(a.L0)
        l0 == XorIf(zero = 0, table[0], r)
        l1 == XorIf(zero # 0, table[0], r)
        row == [i \in 1..1 |-> Xor(table[i], IF i = zero THEN l1 ELSE l0)]
    IN  Garbled(l0, l1, row)

GarbledGate(op, a, b, t) ==
    CASE op = "XOR"  -> GarbleXOR(a, b)
      [] op = "XNOR" -> GarbleXNOR(a, b)
      [] op = "AND"  -> GarbleAND(a, b, t)
      [] op = "OR"   -> GarbleOR(a, b, t)
      [] op = "INV"  -> GarbleINV(a, t)

\* Tweaks a gate uses.
Tweaks(op) == CASE op = "AND" -> 2 [] op \in {"OR", "INV"} -> 1 [] OTHER -> 0

(***************************************************************************)
(* The body of the loop of Circuit.Eval.                                   *)
(***************************************************************************)
\* Mutant: both halves use one tweak.
EvalAND_OneTweak(a, b, row, t) ==
    Xor(XorIf(S(a), Half(a, t), row[1]), XorIf(S(b), Half(b, t), Xor(row[2], a)))

EvalAND(a, b, row, t) ==
    LET u == (t + 1) % IdMod
    IN  Xor(XorIf(S(a), Half(a, t), row[1]),
            XorIf(S(b), Half(b, u), Xor(row[2], a)))

\* Row 0 is zero.
Row(row, i) == IF i = 0 THEN {} ELSE row[i]
EvalOR(a, b, row, t) == Xor(Row(row, Idx(a, b)), Full(a, b, t))
EvalINV(a, row, t) == Xor(Row(row, IdxUnary(a)), Full(a, {}, t))

EvaluatedGate(op, a, b, row, t) ==
    CASE op \in {"XOR", "XNOR"} -> Xor(a, b)
      [] op = "AND"  -> EvalAND(a, b, row, t)
      [] op = "OR"   -> EvalOR(a, b, row, t)
      [] op = "INV"  -> EvalINV(a, row, t)

\* What Eval checks before it uses a row.
RowFits(op, a, b, row) ==
    CASE op = "AND" -> Len(row) = 2
      [] op = "OR"  -> Idx(a, b) <= Len(row)
      [] op = "INV" -> IdxUnary(a) <= Len(row)
      [] OTHER      -> TRUE

\* The case of the loop of Circuit.Compute.
ComputedGate(op, a, b) ==
    CASE op = "XOR"  -> a # b
      [] op = "XNOR" -> a = b
      [] op = "AND"  -> a /\ b
      [] op = "OR"   -> a \/ b
      [] op = "INV"  -> ~a

(***************************************************************************)
(* The three loops.                                                        *)
(***************************************************************************)
More == n <= Len(Gates)
Gate == Gates[n]

Init ==
    /\ phase = "compute" /\ n = 1 /\ id = 0
    /\ \E x \in [Inputs -> BOOLEAN] :
         plain = [w \in Wire |-> IF w \in Inputs THEN x[w] ELSE FALSE]
    /\ key \in Key /\ r = {}
    /\ wires = [w \in Wire |-> [L0 |-> {}, L1 |-> {}]]
    /\ rows = <<>> /\ tweak = <<>>
    /\ label = [w \in Wire |-> {}]
    /\ output = [w \in Outputs |-> FALSE]

ComputeGate ==
    /\ phase = "compute" /\ More
    /\ plain' = [plain EXCEPT
         ![Gate.out] = ComputedGate(Gate.op, plain[Gate.in0], plain[Gate.in1])]
    /\ n' = n + 1
    /\ UNCHANGED <<phase, key, r, wires, rows, id, tweak, label, output>>

\* Garble draws the offset and the labels of the inputs.
Draw ==
    /\ phase = "compute" /\ ~More
    /\ phase' = "garble" /\ n' = 1
    /\ \E any \in Label : r' = any \cup {Top}
    /\ \E l0 \in [Inputs -> Label] :
         wires' = [w \in Wire |->
                     IF w \in Inputs THEN [L0 |-> l0[w], L1 |-> Xor(l0[w], r')]
                     ELSE wires[w]]
    /\ UNCHANGED <<plain, key, rows, id, tweak, label, output>>

\* Mutant: the counter does not wrap.
GarbleGate_NoWrap ==
    LET g == GarbledGate(Gate.op, wires[Gate.in0], wires[Gate.in1], id)
    IN  /\ phase = "garble" /\ More
        /\ wires' = [wires EXCEPT ![Gate.out] = g.wire]
        /\ rows' = Append(rows, g.row)
        /\ tweak' = Append(tweak, id)
        /\ id' = id + Tweaks(Gate.op)
        /\ n' = n + 1
        /\ UNCHANGED <<phase, plain, key, r, label, output>>

GarbleGate ==
    LET g == GarbledGate(Gate.op, wires[Gate.in0], wires[Gate.in1], id)
    IN  /\ phase = "garble" /\ More
        /\ wires' = [wires EXCEPT ![Gate.out] = g.wire]
        /\ rows' = Append(rows, g.row)
        /\ tweak' = Append(tweak, id)
        /\ id' = (id + Tweaks(Gate.op)) % IdMod
        /\ n' = n + 1
        /\ UNCHANGED <<phase, plain, key, r, label, output>>

\* The evaluator gets the labels of the garbler's bits and, by oblivious
\* transfer, those of its own; its other wires are zero.
Handover ==
    /\ phase = "garble" /\ ~More
    /\ phase' = "eval" /\ n' = 1 /\ id' = 0
    /\ label' = [w \in Wire |-> IF w \in Inputs THEN LabelForBit(wires[w], plain[w])
                                ELSE {}]
    /\ UNCHANGED <<plain, key, r, wires, rows, tweak, output>>

EvalGate ==
    LET a == label[Gate.in0]
        b == label[Gate.in1]
    IN  /\ phase = "eval" /\ More
        /\ IF RowFits(Gate.op, a, b, rows[n])
           THEN /\ label' = [label EXCEPT
                     ![Gate.out] = EvaluatedGate(Gate.op, a, b, rows[n], id)]
                /\ id' = (id + Tweaks(Gate.op)) % IdMod
                /\ n' = n + 1
                /\ UNCHANGED phase
           ELSE /\ phase' = "failed"
                /\ UNCHANGED <<label, id, n>>
        /\ UNCHANGED <<plain, key, r, wires, rows, tweak, output>>

\* Garbler: BitFromLabel for each output label, L0 first.
Known(w) == label[w] \in {wires[w].L0, wires[w].L1}
Decode ==
    /\ phase = "eval" /\ ~More
    /\ IF \A w \in Outputs : Known(w)
       THEN /\ output' = [w \in Outputs |-> label[w] # wires[w].L0]
            /\ phase' = "done"
       ELSE /\ phase' = "failed"
            /\ UNCHANGED output
    /\ UNCHANGED <<n, plain, key, r, wires, rows, id, tweak, label>>

Next == ComputeGate \/ Draw \/ GarbleGate \/ Handover \/ EvalGate \/ Decode

Spec == Init /\ [][Next]_vars

(***************************************************************************)
(* Properties                                                              *)
(***************************************************************************)
TypeOK ==
    /\ phase \in {"compute", "garble", "eval", "done", "failed"}
    /\ n \in 1..(Len(Gates) + 1)
    /\ plain \in [Wire -> BOOLEAN]
    /\ key \in Key /\ r \in Label
    /\ wires \in [Wire -> Pair]
    /\ id \in 0..(IdMod - 1)
    /\ Len(rows) = Len(tweak)
    /\ \A i \in 1..Len(tweak) : tweak[i] \in 0..(IdMod - 1)
    /\ label \in [Wire -> Label]
    /\ output \in [Outputs -> BOOLEAN]

\* Decoding the labels of the outputs gives the bits Compute gives, for all
\* labels, keys and inputs (garble.go against eval.go and computer.go).
GarbledIsComputed ==
    phase = "done" => \A w \in Outputs : output[w] = plain[w]

\* The evaluator never meets a row of the wrong length, nor the garbler a
\* label it does not know.
NeverFails == phase # "failed"

\* Every label the evaluator holds is the garbler's label for the bit the
\* wire carries: the tweak counters stay in step although nothing but the
\* order of the gates ties them.
ActiveLabels ==
    phase \in {"eval", "done"} =>
      \A w \in Assigned(n) : label[w] = LabelForBit(wires[w], plain[w])
=============================================================================
