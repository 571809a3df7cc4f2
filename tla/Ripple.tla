------------------------------- MODULE Ripple -------------------------------
\* NewAdder, NewSubtractor and the comparators of compiler/circuits: loops that
\* pass a carry from the lowest bit to the highest. One action builds the cell
\* of one bit; the state is what the wires built so far carry.
EXTENDS Numbers

CONSTANT Z   \* wires of the result of NewAdder and NewSubtractor
ASSUME ResultAssumption == Z \in Nat /\ W <= Z

Op == {"add", "sub", "ugt", "uge", "igt", "ige"}

VARIABLES
  op,     \* the circuit being built
  x, y,   \* its operands
  i,      \* cells built
  c,      \* the carry, borrow or comparison so far: cin of the next cell
  z,      \* the output bits below W
  top,    \* the outputs above them
  r       \* the output of a comparator
rvars == <<op, x, y, i, c, z, top, r>>

High == W + 1 .. Z
RTypeOK ==
  /\ op \in Op
  /\ x \in Operand /\ y \in Operand
  /\ i \in 0 .. W
  /\ c \in Bit
  /\ z \in [Index -> WireValue]
  /\ top \in [High -> WireValue]
  /\ r \in WireValue

\* The carry into the first cell: NewHalfAdder is a full adder without one.
CarryIn(o) == IF o \in {"uge", "ige"} THEN 1 ELSE 0

RInit ==
  /\ op \in Op
  /\ x \in Operand /\ y \in Operand
  /\ i = 0
  /\ c = CarryIn(op)
  /\ z = [k \in Index |-> U]
  /\ top = [k \in High |-> U]
  /\ r = U

\* Mutant: a half adder for every bit.
AddCell_NoCarry ==
  /\ op = "add" /\ i < W
  /\ i' = i + 1
  /\ z' = [z EXCEPT ![i + 1] = HalfSum(x[i + 1], y[i + 1])]
  /\ c' = HalfCarry(x[i + 1], y[i + 1])
  /\ UNCHANGED <<op, x, y, top, r>>

\* The first cell of an adder is a half adder.
AddCell ==
  /\ op = "add" /\ i < W
  /\ i' = i + 1
  /\ z' = [z EXCEPT ![i + 1] = IF i = 0 THEN HalfSum(x[1], y[1]) ELSE FullSum(x[i + 1], y[i + 1], c)]
  /\ c' = IF i = 0 THEN HalfCarry(x[1], y[1]) ELSE FullCarry(x[i + 1], y[i + 1], c)
  /\ UNCHANGED <<op, x, y, top, r>>

\* "Note y-x here": the full subtractor gets the bits swapped.
SubCell ==
  /\ op = "sub" /\ i < W
  /\ i' = i + 1
  /\ z' = [z EXCEPT ![i + 1] = FullDiff(y[i + 1], x[i + 1], c)]
  /\ c' = FullBorrow(y[i + 1], x[i + 1], c)
  /\ UNCHANGED <<op, x, y, top, r>>

\* A bit of a comparator.
TestCell ==
  /\ op \in {"ugt", "uge", "igt", "ige"} /\ i < W
  /\ i' = i + 1
  /\ c' = CompareCell(x[i + 1], y[i + 1], c)
  /\ UNCHANGED <<op, x, y, z, top, r>>

\* The last carry is the next output, where there is one, and leftover bits
\* are zero.
Carry ==
  /\ op \in {"add", "sub"} /\ i = W
  /\ \E k \in High : top[k] = U
  /\ top' = [k \in High |-> IF k = W + 1 THEN c ELSE 0]
  /\ UNCHANGED <<op, x, y, i, c, z, r>>

\* The last cell of uintComparator is the output.
Unsign ==
  /\ op \in {"ugt", "uge"} /\ i = W /\ r = U
  /\ r' = c
  /\ UNCHANGED <<op, x, y, i, c, z, top>>

\* Mutant: the sign of the other operand decides.
Sign_OfX ==
  /\ op \in {"igt", "ige"} /\ i = W /\ r = U
  /\ r' = Mux(Xor(x[W], y[W]), x[W], c)
  /\ UNCHANGED <<op, x, y, i, c, z, top>>

\* "If x and y have different sign, x is bigger if y is negative."
Sign ==
  /\ op \in {"igt", "ige"} /\ i = W /\ r = U
  /\ r' = Mux(Xor(x[W], y[W]), y[W], c)
  /\ UNCHANGED <<op, x, y, i, c, z, top>>

RNext == AddCell \/ SubCell \/ TestCell \/ Carry \/ Unsign \/ Sign
RSpec == RInit /\ [][RNext]_rvars
-----------------------------------------------------------------------------
\* What the loops promise.

\* Loops of NewAdder and NewSubtractor: in every state the bits built so far
\* and the carry are together the sum, or the difference, of the bits read.
PartialSum ==
  /\ op = "add" => Number(z)[i] + c * Pow[i] = Number(x)[i] + Number(y)[i]
  /\ op = "sub" => Number(z)[i] + Number(y)[i] = Number(x)[i] + c * Pow[i]

\* intComparator and uintComparator: "tests if x>y if cin=0, and x>=y if
\* cin=1", for signed and for unsigned numbers.
Compares ==
  r # U => /\ op = "ugt" => (r = 1 <=> Number(x)[W] > Number(y)[W])
           /\ op = "uge" => (r = 1 <=> Number(x)[W] >= Number(y)[W])
           /\ op = "igt" => (r = 1 <=> Signed(x) > Signed(y))
           /\ op = "ige" => (r = 1 <=> Signed(x) >= Signed(y))
=============================================================================
