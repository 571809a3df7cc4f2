---------------------------- MODULE LongDivision ----------------------------
\* NewUDividerLong of compiler/circuits: one pass of the outer loop shifts the
\* next bit of a into the remainder, subtracts the divisor bit by bit and lets
\* the last borrow choose between the remainder and the difference.
EXTENDS Numbers

VARIABLES
  a, b,    \* dividend and divisor, padded to one width
  n,       \* bits of a that are divided already, the highest first
  quo,     \* q
  rem,     \* r
  j,       \* cells of the subtractor that are built
  borrow,  \* cin of the next one
  diff,    \* the output of the subtractor
  phase    \* the part of the outer loop that comes next
dvars == <<a, b, n, quo, rem, j, borrow, diff, phase>>

DTypeOK ==
  /\ a \in Operand /\ b \in Operand
  /\ n \in 0 .. W
  /\ quo \in [Index -> WireValue]
  /\ rem \in Operand
  /\ j \in 0 .. W
  /\ borrow \in Bit
  /\ diff \in [Index -> WireValue]
  /\ phase \in {"shift", "subtract"}

DInit ==
  /\ a \in Operand /\ b \in Operand
  /\ n = 0
  /\ quo = [k \in Index |-> U]
  /\ rem = [k \in Index |-> 0]
  /\ j = 0
  /\ borrow = 0
  /\ diff = [k \in Index |-> U]
  /\ phase = "shift"

\* Mutant: the subtractor starts with the borrow of the pass before.
Shift_KeepsBorrow ==
  /\ phase = "shift" /\ n < W
  /\ rem' = [k \in Index |-> IF k = 1 THEN a[W - n] ELSE rem[k - 1]]
  /\ j' = 0
  /\ diff' = [k \in Index |-> U]
  /\ phase' = "subtract"
  /\ UNCHANGED <<a, b, n, quo, borrow>>

\* "r << 1": the highest bit of r is dropped.
Shift ==
  /\ phase = "shift" /\ n < W
  /\ rem' = [k \in Index |-> IF k = 1 THEN a[W - n] ELSE rem[k - 1]]
  /\ j' = 0
  /\ borrow' = 0
  /\ diff' = [k \in Index |-> U]
  /\ phase' = "subtract"
  /\ UNCHANGED <<a, b, n, quo>>

\* A cell of NewSubtractor(r, b, diff).
Subtract ==
  /\ phase = "subtract" /\ j < W
  /\ j' = j + 1
  /\ diff' = [diff EXCEPT ![j + 1] = FullDiff(b[j + 1], rem[j + 1], borrow)]
  /\ borrow' = FullBorrow(b[j + 1], rem[j + 1], borrow)
  /\ UNCHANGED <<a, b, n, quo, rem, phase>>

\* "overflow: r < d": the quotient bit and the next remainder.
Select ==
  /\ phase = "subtract" /\ j = W
  /\ quo' = [quo EXCEPT ![W - n] = Mux(borrow, 0, 1)]
  /\ rem' = [k \in Index |-> Mux(borrow, rem[k], diff[k])]
  /\ n' = n + 1
  /\ phase' = "shift"
  /\ UNCHANGED <<a, b, j, borrow, diff>>

DNext == Shift \/ Subtract \/ Select
DSpec == DInit /\ [][DNext]_dvars
-----------------------------------------------------------------------------
A(k) == Leading(a)[k]
B == Number(b)[W]
Q(k) == Leading(quo)[k]
R == Number(rem)[W]

\* "computing r=a/b, q=a%b": in every pass the bits of a read so far are the
\* quotient so far times b, plus a remainder below b; the shifted remainder
\* never has more than W bits.
Divides ==
  phase = "shift" =>
    /\ A(n) = Q(n) * B + R
    /\ B # 0 => R < B

\* A division by zero sets all bits of the quotient and keeps the dividend.
DivideByZero == phase = "shift" /\ B = 0 => Q(n) = Pow[n] - 1 /\ R = A(n)
=============================================================================
