------------------------------ MODULE Numbers ------------------------------
\* The numbers that W wires stand for, the lowest bit first.
EXTENDS Cells, Integers

CONSTANT W   \* wires of an operand, after ZeroPad and the cut to len(z)
ASSUME WidthAssumption == W \in Nat \ {0}

Index == 1 .. W
Operand == [Index -> Bit]

\* Powers of two.
Pow[n \in 0 .. W] == IF n = 0 THEN 1 ELSE 2 * Pow[n - 1]

\* Number(f)[n]: the number on the n lowest wires of f.
Number(f) ==
  LET v[n \in 0 .. W] == IF n = 0 THEN 0 ELSE v[n - 1] + f[n] * Pow[n - 1] IN v

\* Leading(f)[n]: the number on the n highest wires of f.
Leading(f) ==
  LET v[n \in 0 .. W] == IF n = 0 THEN 0 ELSE 2 * v[n - 1] + f[W + 1 - n] IN v

\* The number of f in two's complement.
Signed(f) == Number(f)[W] - f[W] * Pow[W]
=============================================================================
