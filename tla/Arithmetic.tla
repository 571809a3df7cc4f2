----------------------------- MODULE Arithmetic -----------------------------
\* The circuit builders of compiler/circuits as functions from the values of
\* their input wires to those of their output wires. A builder gets the number
\* of its output wires where the code gets the wires. Sequences begin with the
\* lowest bit; an output that no gate drives is U.
EXTENDS Cells, Integers, Sequences, FiniteSetsExt, SequencesExt

Zeros(n) == [k \in 1 .. n |-> 0]
Undriven(n) == [k \in 1 .. n |-> U]
Bits(w) == 1 .. Len(w)

\* The first n wires of w followed by zero wires.
Extend(w, n) == [k \in 1 .. n |-> IF k <= Len(w) THEN w[k] ELSE 0]

\* ZeroPad.
Wider(x, y) == IF Len(x) < Len(y) THEN Len(y) ELSE Len(x)
Pad(x, y) == Extend(x, Wider(x, y))

\* The common beginning of the builders: pad, and cut to n outputs.
Fit(x, y, n) == Extend(x, IF n < Wider(x, y) THEN n ELSE Wider(x, y))

ShiftLeft(w, size, count) ==
  [k \in 1 .. size |-> IF k - count \in Bits(w) THEN w[k - count] ELSE 0]

\* The carries of a row of cells, the one into the first cell first.
Ripples(Cell(_, _, _), x, y, cin) ==
  LET c[k \in 0 .. Len(x)] ==
        IF k = 0 THEN <<cin>> ELSE LET d == c[k - 1] IN Append(d, Cell(x[k], y[k], d[k]))
  IN c[Len(x)]

\* Outputs of a row of cells: one bit for each, the last carry, zeros.
Row(sum, carry, n) ==
  [k \in 1 .. n |-> IF k <= Len(sum) THEN sum[k] ELSE IF k = Len(sum) + 1 THEN carry ELSE 0]

Sums(x, y, c, n) == Row([k \in Bits(x) |-> FullSum(x[k], y[k], c[k])], Last(c), n)
NewAdder(x0, y0, n) ==
  LET x == Fit(x0, y0, n)
      y == Fit(y0, x0, n)
      c == Ripples(FullCarry, x, y, 0)   \* the first cell is a half adder
  IN Sums(x, y, c, n)

Differences(x, y, c, n) == Row([k \in Bits(x) |-> FullDiff(y[k], x[k], c[k])], Last(c), n)
NewSubtractor(x0, y0, n) ==
  LET x == Fit(x0, y0, n)
      y == Fit(y0, x0, n)
      c == Ripples(FullBorrow, y, x, 0)
  IN Differences(x, y, c, n)

MuxAll(cond, t, f) == [k \in Bits(t) |-> Mux(cond, t[k], f[k])]
NewMUX(cond, t0, f0) ==
  LET t == Pad(t0, f0)
      f == Pad(f0, t0)
  IN MuxAll(cond, t, f)

Ands(x, bit) == [k \in Bits(x) |-> And(x[k], bit)]

\* The rows of an array multiplier from row j on, given the sums above z[j];
\* the outputs from j on. The last row ends in the last carry.
RECURSIVE MultiplierRows(_, _, _, _)
MultiplierRows(x, y, sums, j) ==
  LET s == sums \o Zeros(Len(x) - Len(sums))
      c == Ripples(FullCarry, Ands(x, y[j]), s, 0)
      z == [k \in Bits(x) |-> FullSum(And(x[k], y[j]), s[k], c[k])]
  IN IF j = Len(y) THEN z \o <<Last(c)>>
     ELSE <<z[1]>> \o MultiplierRows(x, y, Tail(z) \o <<Last(c)>>, j + 1)

\* The loop for the outputs above the product clears output 1 each time.
NewArrayMultiplier(x0, y0, n) ==
  LET x == Fit(x0, y0, n)
      y == Fit(y0, x0, n)
      w == Len(x)
      first == Ands(x, y[1])
      z == IF w = 1 THEN first \o <<0>>
           ELSE <<first[1]>> \o MultiplierRows(x, y, Tail(first), 2)
  IN [k \in 1 .. n |-> IF w > 1 /\ n > 2 * w /\ k = 2 THEN 0 ELSE IF k <= 2 * w THEN z[k] ELSE U]

\* Karatsuba's products of the halves and of their sums; limit is the width
\* from which on the array multiplier is used.
RECURSIVE NewKaratsubaMultiplier(_, _, _, _)
Combined(z0, z1, z2, mid, n) ==
  LET middle == NewSubtractor(NewSubtractor(z1, z2, n), z0, n)
      upper == NewAdder(ShiftLeft(z2, n, 2 * mid), ShiftLeft(middle, n, mid), n)
  IN NewAdder(upper, z0, n)
NewKaratsubaMultiplier(limit, a0, b0, n) ==
  LET a == Fit(a0, b0, n)
      b == Fit(b0, a0, n)
      mid == Len(a) \div 2
      Lo(w) == SubSeq(w, 1, mid)
      Hi(w) == SubSeq(w, mid + 1, Len(w))
      high == Len(a) - mid
      Sum(w) == NewAdder(Lo(w), Hi(w), high + 1)
      Product(v, w, len) == NewKaratsubaMultiplier(limit, v, w, Min({2 * len, n}))
      z0 == Product(Lo(a), Lo(b), mid)
      z1 == Product(Sum(a), Sum(b), high + 1)
      z2 == Product(Hi(a), Hi(b), high)
  IN IF Len(a) <= limit THEN NewArrayMultiplier(a, b, n)
     ELSE Combined(z0, z1, z2, mid, n)

\* Values on r bits put on n outputs.
OnWires(r, n) == [k \in 1 .. n |-> IF k \in Bits(r) THEN r[k] ELSE U]

\* The dividers return quotient and remainder; nq and nr are the outputs.
RECURSIVE LongRows(_, _, _, _)
LongRows(a, b, r0, i) ==
  LET r == <<a[i]>> \o Front(r0)
      diff == NewSubtractor(r, b, Len(r) + 1)
      less == Last(diff)
      nr == NewMUX(less, r, Front(diff))
      rest == LongRows(a, b, nr, i - 1)
  IN IF i = 0 THEN [q |-> <<>>, r |-> r0]
     ELSE [q |-> Append(rest.q, Mux(less, 0, 1)), r |-> rest.r]

NewUDividerLong(a0, b0, nq, nr) ==
  LET rows == LongRows(Pad(a0, b0), Pad(b0, a0), Zeros(Wider(a0, b0)), Wider(a0, b0))
  IN [q |-> OnWires(rows.q, nq), r |-> OnWires(rows.r, nr)]

RECURSIVE RestoringRows(_, _, _)
RestoringRows(d, r0, i) ==
  LET r == <<0>> \o Front(r0)
      diff == NewSubtractor(r, d, Len(r) + 1)
      less == Last(diff)
      rest == RestoringRows(d, NewMUX(less, r, Front(diff)), i - 1)
  IN IF i = 0 THEN [q |-> <<>>, r |-> r0]
     ELSE [q |-> Append(rest.q, Mux(less, 0, 1)), r |-> rest.r]

NewUDividerRestoring(a0, b0, nq, nr) ==
  LET w == Wider(a0, b0)
      rows == RestoringRows(Zeros(w) \o Pad(b0, a0), Pad(a0, b0) \o Zeros(w), w)
  IN [q |-> OnWires(rows.q, nq), r |-> OnWires(SubSeq(rows.r, w + 1, 2 * w), nr)]

RECURSIVE ArrayRows(_, _, _, _)
ArrayRows(a, b, rOut, i) ==
  LET rIn == <<a[i]>> \o rOut
      inv == [k \in 1 .. Len(b) + 1 |-> IF k <= Len(b) THEN INV(b[k]) ELSE 1]
      c == Ripples(FullCarry, rIn, inv, 1)
      sum == [k \in Bits(rIn) |-> FullSum(rIn[k], inv[k], c[k])]
      mux == NewMUX(Last(c), sum, rIn)
      rest == ArrayRows(a, b, Front(mux), i - 1)
  IN IF i = 0 THEN [q |-> <<>>, r |-> rOut]
     ELSE [q |-> Append(rest.q, INV(INV(Last(c)))), r |-> rest.r]

NewUDividerArray(a0, b0, nq, nr) ==
  LET rows == ArrayRows(Pad(a0, b0), Pad(b0, a0), Zeros(Wider(a0, b0)), Wider(a0, b0))
  IN [q |-> Extend(rows.q, nq), r |-> Extend(rows.r, nr)]

\* Division of the absolute values; the quotient gets the sign, the remainder
\* does not. nq = 0 asks for the remainder.
Negate(w, n) == NewSubtractor(<<0>>, w, n)
NewIDivider(a0, b0, nq, nr) ==
  LET a == Pad(a0, b0)
      b == Pad(b0, a0)
      Abs(w) == NewMUX(Last(w), Negate(w, Len(w)), w)
      neg == Mux(Last(b), INV(Last(a)), Last(a))
      u == NewUDividerLong(Abs(a), Abs(b), nq, nr)
  IN [u EXCEPT !.q = IF nq = 0 THEN @ ELSE NewMUX(neg, Negate(@, nq), @)]

\* The comparators have one output.
Compare(x, y, cin) == Last(Ripples(CompareCell, Pad(x, y), Pad(y, x), cin))
uintComparator(cin, x, y) == <<Compare(x, y, cin)>>
intComparator(cin, x, y) ==
  LET xs == Last(Pad(x, y))
      ys == Last(Pad(y, x))
  IN <<Mux(Xor(xs, ys), ys, Compare(x, y, cin))>>
NewIntGtComparator(x, y) == intComparator(0, x, y)
NewIntGeComparator(x, y) == intComparator(1, x, y)
NewIntLtComparator(x, y) == intComparator(0, y, x)
NewIntLeComparator(x, y) == intComparator(1, y, x)
NewUintGtComparator(x, y) == uintComparator(0, x, y)
NewUintGeComparator(x, y) == uintComparator(1, x, y)
NewUintLtComparator(x, y) == uintComparator(0, y, x)
NewUintLeComparator(x, y) == uintComparator(1, y, x)

Differ(x0, y0) ==
  LET x == Pad(x0, y0)
      y == Pad(y0, x0)
  IN [k \in Bits(x) |-> Xor(x[k], y[k])]
NewNeqComparator(x, y) == <<FoldLeft(Or, 0, Differ(x, y))>>
NewEqComparator(x, y) == <<INV(NewNeqComparator(x, y)[1])>>
NewBitSetTest(x, index) == <<IF index < Len(x) THEN Xor(x[index + 1], 0) ELSE 0>>
NewBitClrTest(x, index) == <<IF index < Len(x) THEN Xor(x[index + 1], 1) ELSE 1>>

\* Outputs above the operands are not driven.
Bitwise2(Gate(_, _), x0, y0, n) ==
  LET x == Fit(x0, y0, n)
      y == Fit(y0, x0, n)
  IN OnWires([k \in Bits(x) |-> Gate(x[k], y[k])], n)
NewBinaryAND(x, y, n) == Bitwise2(And, x, y, n)
NewBinaryOR(x, y, n) == Bitwise2(Or, x, y, n)
NewBinaryXOR(x, y, n) == Bitwise2(Xor, x, y, n)
NewBinaryClear(x, y, n) == Bitwise2(LAMBDA p, q : And(p, INV(q)), x, y, n)
NewLogicalAND(x, y) == <<And(x[1], y[1])>>
NewLogicalOR(x, y) == <<Or(x[1], y[1])>>

\* Element selection by halving: bits of the index above those needed are
\* ignored, an index that the array does not reach selects zeros.
RECURSIVE Choose(_, _, _, _, _)
Choose(bit, length, size, array, index) ==
  LET half == length \div 2
      cut == Min({Len(array), half * size})
      low == SubSeq(array, 1, cut)
      high == SubSeq(array, cut + 1, Len(array))
      Upper == IF high = <<>> THEN Zeros(size) ELSE Choose(bit - 1, half, size, high, index)
  IN CASE bit = 0 -> NewMUX(index[1],
                            IF Len(array) > size THEN SubSeq(array, size + 1, 2 * size) ELSE Zeros(size),
                            SubSeq(array, 1, size))
       [] bit > 0 /\ bit >= Len(index) -> Choose(bit - 1, half, size, low, index)
       [] OTHER -> NewMUX(index[bit + 1], Upper, Choose(bit - 1, half, size, low, index))

NewIndex(size, array, index, n) ==
  LET count == Len(array) \div size
      bits == CHOOSE k \in 1 .. Max({count, 1}) : 2 ^ k >= count /\ \A l \in 1 .. k - 1 : 2 ^ l < count
  IN IF count = 0 THEN Zeros(n) ELSE Choose(bits - 1, 2 ^ bits, size, array, index)

\* Bits that differ, added up in pairs.
RECURSIVE AddPairs(_)
AddPairs(arr) ==
  IF Len(arr) < 2 THEN arr
  ELSE <<NewAdder(arr[1], arr[2], Len(arr[1]) + 1)>> \o AddPairs(SubSeq(arr, 3, Len(arr)))
RECURSIVE AddUp(_, _)
AddUp(arr, n) == IF Len(arr) > 2 THEN AddUp(AddPairs(arr), n) ELSE NewAdder(arr[1], arr[2], n)
Hamming(a, b, n) == LET d == Differ(a, b) IN AddUp([k \in Bits(d) |-> <<d[k]>>], n)
=============================================================================
