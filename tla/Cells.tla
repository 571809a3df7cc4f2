------------------------------- MODULE Cells -------------------------------
\* The one-bit cells the arithmetic circuits of compiler/circuits are built
\* from, as functions of the values on their wires.
EXTENDS Naturals

\* The value of a wire that is the output of no gate.
U == 2
Bit == {0, 1}
WireValue == Bit \cup {U}

\* Gates: an undriven input leaves the output undriven.
Xor(a, b) == IF U \in {a, b} THEN U ELSE IF a = b THEN 0 ELSE 1
Xnor(a, b) == IF U \in {a, b} THEN U ELSE IF a = b THEN 1 ELSE 0
And(a, b) == IF U \in {a, b} THEN U ELSE IF a = 1 /\ b = 1 THEN 1 ELSE 0
Or(a, b) == IF U \in {a, b} THEN U ELSE IF a = 0 /\ b = 0 THEN 0 ELSE 1
INV(a) == Xor(a, 1)

\* NewHalfAdder: S and C.
HalfSum(a, b) == Xor(a, b)
HalfCarry(a, b) == And(a, b)

\* NewFullAdder: s and cout.
FullSum(a, b, cin) == Xor(a, Xor(b, cin))
FullCarry(a, b, cin) == Xor(cin, And(Xor(b, cin), Xor(a, cin)))

\* NewFullSubtractor: d and cout, the borrow. The builder's caller passes
\* the bits in the order (y, x).
FullDiff(x, y, cin) == Xnor(x, Xnor(y, cin))
FullBorrow(x, y, cin) == Xor(And(Xnor(y, cin), Xor(x, cin)), cin)

\* One bit of intComparator and uintComparator: cout.
CompareCell(x, y, cin) == Xor(cin, And(Xnor(cin, y), Xor(cin, x)))

\* One bit of NewMUX.
Mux(cond, t, f) == Xor(And(Xor(f, t), cond), f)
=============================================================================
