----------------------------- MODULE CircuitGen -----------------------------
\* Program.Circuit of compiler/ssa/circuitgen.go: what the wires of an
\* instruction's result carry, given those of its inputs.
EXTENDS Arithmetic

\* Constants are cast to other sizes without getting new wires: they are cut,
\* or continued with the sign of an int and with zeros otherwise.
InputWires(w, bits, signed) ==
  [k \in 1 .. bits |-> IF k <= Len(w) THEN w[k] ELSE IF signed /\ w # <<>> THEN Last(w) ELSE 0]

\* w moved up by count, cut to n.
Lshift(w, count, n) == ShiftLeft(w, n, count)
Rshift(w, count, sign, n) == [k \in 1 .. n |-> IF k + count <= Len(w) THEN w[k + count] ELSE sign]
Slice(w, from, to, n) == [k \in 1 .. n |-> IF k <= to - from /\ from + k <= Len(w) THEN w[from + k] ELSE 0]
Mov(w, sign, n) == Rshift(w, 0, sign, n)
Concat(v, w, n) == OnWires(v \o w, n)

\* array[from:to] = v
Amov(v, array, from, to, n) ==
  [k \in 1 .. n |-> LET w == IF k \in from + 1 .. to THEN v ELSE array
                        at == IF k \in from + 1 .. to THEN k - from ELSE k
                    IN IF at <= Len(w) THEN w[at] ELSE 0]

\* A circuit read from a file, on its input wires and zeros for those missing:
\* gates write wires, the last n of which are the result.
GateValue(op, p, q) ==
  CASE op = "XOR" -> Xor(p, q) [] op = "XNOR" -> Xnor(p, q)
    [] op = "AND" -> And(p, q) [] op = "OR" -> Or(p, q) [] op = "INV" -> INV(p)
Circ(circ, ins, n) ==
  LET wire == FlattenSeq([k \in DOMAIN ins |-> Extend(ins[k], Max({Len(ins[k]), circ.inputs[k]}))])
      start == wire \o Undriven(circ.wires - Len(wire))
      end == FoldLeft(LAMBDA w, g : [w EXCEPT ![g.out + 1] = GateValue(g.op, w[g.in0 + 1], w[g.in1 + 1])],
                      start, circ.gates)
  IN SubSeq(end, circ.wires - n + 1, circ.wires)

\* The result of op on the wires w, with the constant operands k, for n
\* output wires; treshold is the parameter of the multipliers.
CONSTANT Treshold
Circuit(op, w, k, n) ==
  CASE op \in {"iadd", "uadd"} -> NewAdder(w[1], w[2], n)
    [] op \in {"isub", "usub"} -> NewSubtractor(w[1], w[2], n)
    [] op \in {"imult", "umult"} -> NewKaratsubaMultiplier(Treshold, w[1], w[2], n)
    [] op = "idiv" -> NewIDivider(w[1], w[2], n, 0).q
    [] op = "udiv" -> NewUDividerLong(w[1], w[2], n, 0).q
    [] op = "imod" -> NewIDivider(w[1], w[2], 0, n).r
    [] op = "umod" -> NewUDividerLong(w[1], w[2], 0, n).r
    [] op = "concat" -> Concat(w[1], w[2], n)
    [] op = "lshift" -> Lshift(w[1], k[1], n)
    [] op = "rshift" -> Rshift(w[1], k[1], 0, n)
    [] op = "srshift" -> Rshift(w[1], k[1], Last(w[1]), n)
    [] op = "slice" -> Slice(w[1], k[1], k[2], n)
    [] op = "index" -> NewIndex(n, SubSeq(w[1], k[1] + 1, Len(w[1])), w[2], n)
    [] op = "ilt" -> NewIntLtComparator(w[1], w[2])
    [] op = "ult" -> NewUintLtComparator(w[1], w[2])
    [] op = "ile" -> NewIntLeComparator(w[1], w[2])
    [] op = "ule" -> NewUintLeComparator(w[1], w[2])
    [] op = "igt" -> NewIntGtComparator(w[1], w[2])
    [] op = "ugt" -> NewUintGtComparator(w[1], w[2])
    [] op = "ige" -> NewIntGeComparator(w[1], w[2])
    [] op = "uge" -> NewUintGeComparator(w[1], w[2])
    [] op = "eq" -> NewEqComparator(w[1], w[2])
    [] op = "neq" -> NewNeqComparator(w[1], w[2])
    [] op = "bts" -> NewBitSetTest(w[1], k[1])
    [] op = "btc" -> NewBitClrTest(w[1], k[1])
    [] op = "and" -> NewLogicalAND(w[1], w[2])
    [] op = "or" -> NewLogicalOR(w[1], w[2])
    [] op = "not" -> [i \in 1 .. n |-> INV(w[1][i])]
    [] op = "band" -> NewBinaryAND(w[1], w[2], n)
    [] op = "bclr" -> NewBinaryClear(w[1], w[2], n)
    [] op = "bor" -> NewBinaryOR(w[1], w[2], n)
    [] op = "bxor" -> NewBinaryXOR(w[1], w[2], n)
    [] op = "mov" -> Mov(w[1], 0, n)
    [] op = "smov" -> Mov(w[1], Last(w[1]), n)
    [] op = "amov" -> Amov(w[1], w[2], k[1], k[2], n)
    [] op = "phi" -> NewMUX(w[1][1], w[2], w[3])
    [] op = "ret" -> [i \in 1 .. n |-> Xor(FlattenSeq(w)[i], 0)]
    [] op = "hamming" -> Hamming(w[1], w[2], n)
=============================================================================
