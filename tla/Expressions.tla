---------------------------- MODULE Expressions ----------------------------
\* Arithmetic expressions of the circuit language, from the type checks and
\* the constant folding of compiler/ast over the numbers of compiler/mpa to
\* the wires of the result. Constants have C or 2C bits, where the code has
\* 32 or 64; larger ones have as many as they need.
EXTENDS CircuitGen

CONSTANTS C, Literals, Widths, MaxFolds
ASSUME SizeAssumption == C \in Nat \ {0, 1} /\ Literals \subseteq Nat /\ Widths \subseteq Nat \ {0}

Kind == {"int", "uint"}
Limit == 2 ^ (2 * C)

NumberOn(w) ==
  LET v[k \in 0 .. Len(w)] == IF k = 0 THEN 0 ELSE v[k - 1] + w[k] * 2 ^ (k - 1) IN v[Len(w)]
BitsOf(v, n) == [k \in 1 .. n |-> (v \div 2 ^ (k - 1)) % 2]
AsSigned(v, n) == LET u == v % (2 ^ n) IN IF u >= 2 ^ (n - 1) THEN u - 2 ^ n ELSE u
Read(kind, v, n) == IF kind = "int" THEN AsSigned(v, n) ELSE v % (2 ^ n)
-----------------------------------------------------------------------------
\* mpa.Int: its size, and the bits of its value as a number.
isSmall(z) == z.bits <= 2 * C
small(z) == AsSigned(z.num, 2 * C)
setSmall(bits, v) == [bits |-> bits, num |-> v % (2 ^ bits)]
LengthOf(v) == IF v = 0 THEN 0 ELSE CHOOSE n \in 1 .. 4 * C : 2 ^ (n - 1) <= v /\ v < 2 ^ n
BitLen(z) == IF isSmall(z) THEN Max({1, LengthOf(z.num)}) ELSE LengthOf(z.num)
\* Mutant: the number of a small size is not read with its sign.
Int64_NoSign(z) == small(z)
Int64(z) == IF isSmall(z) /\ z.bits # 2 * C THEN AsSigned(z.num, z.bits) ELSE small(z)

\* The sign of a large number is its highest bit, its amount all of them.
signed(z) == IF z.num >= 2 ^ (z.bits - 1) THEN -z.num ELSE z.num
Cmp(x, y) ==
  LET Sign(a, b) == IF a < b THEN -1 ELSE IF a > b THEN 1 ELSE 0
  IN IF isSmall(x) /\ isSmall(y) THEN Sign(Int64(x), Int64(y)) ELSE Sign(signed(x), signed(y))

Parse(v) == [bits |-> IF v < Limit \div 2 THEN 2 * C ELSE LengthOf(v) + 1, num |-> v]

\* Go's quotient and remainder, cut towards zero.
Magnitude(a) == IF a < 0 THEN -a ELSE a
Quotient(a, b) == (IF (a < 0) = (b < 0) THEN 1 ELSE -1) * (Magnitude(a) \div Magnitude(b))
Remainder(a, b) == a - b * Quotient(a, b)
Logical == {"&", "&^", "|", "^"}
BitOf(op, p, q) ==
  CASE op = "&" -> And(p, q) [] op = "&^" -> And(p, INV(q)) [] op = "|" -> Or(p, q) [] op = "^" -> Xor(p, q)
Bitwise(op, x, y, n) ==
  LET v == BitsOf(x, n)
      w == BitsOf(y, n)
  IN NumberOn([k \in 1 .. n |-> BitOf(op, v[k], w[k])])

\* A shift count of mpa is an unsigned conversion of a signed number.
ShiftCount(y) == IF Int64(y) < 0 THEN 4 * C ELSE Min({Int64(y), 4 * C})

\* z.op(x, y) for a z of the given size.
MpaSmall(op, bits, x, y) ==
  LET a == small(x)
      b == small(y)
      v == CASE op = "+" -> a + b
             [] op = "-" -> a - b
             [] op = "*" -> a * b
             [] op = "/" -> IF b = 0 THEN -1 ELSE Quotient(a, b)
             [] op = "%" -> IF b = 0 THEN a ELSE Remainder(a, b)
             [] op = "<<" -> a * 2 ^ ShiftCount(y)
             [] op = ">>" -> a \div 2 ^ ShiftCount(y)
             [] op \in Logical -> Bitwise(op, a, b, 2 * C)
  IN setSmall(IF op = "+" THEN Max({x.bits, y.bits}) ELSE bits, v)

\* Large numbers go through the circuits.
MpaBig(op, bits, x, y) ==
  LET n == Max({x.bits, y.bits})
      v == BitsOf(x.num, x.bits)
      w == BitsOf(y.num, y.bits)
      wires == CASE op = "+" -> NewAdder(v, w, Max({n, bits}))
                 [] op = "-" -> NewSubtractor(v, w, Max({n, bits}))
                 [] op = "*" -> NewKaratsubaMultiplier(Treshold, v, w, Max({n, bits}))
                 [] op = "/" -> NewIDivider(v, w, n, n).q
                 [] op = "%" -> NewIDivider(v, w, n, n).r
      Wired(r) == [bits |-> Len(r), num |-> NumberOn(r)]
  IN CASE op = "<<" -> [bits |-> bits, num |-> (x.num * 2 ^ ShiftCount(y)) % (2 ^ bits)]
       [] op = ">>" -> [bits |-> x.bits, num |-> x.num \div 2 ^ ShiftCount(y)]
       [] op \in Logical -> [bits |-> bits, num |-> Bitwise(op, x.num, y.num, n)]
       [] OTHER -> Wired(wires)
-----------------------------------------------------------------------------
\* Values: constants, and variables with the values on their wires. The wires
\* of a constant are made once for its name, for the type it is first used
\* with in the program: reg bits.
Variable(kind, w) == [const |-> FALSE, kind |-> kind, bits |-> Len(w), w |-> w]
Failed == [const |-> FALSE, kind |-> "error", bits |-> 0, w |-> <<>>]
Boolean(w) == [const |-> FALSE, kind |-> "bool", bits |-> 1, w |-> w]

\* Generator.Constant with the type of the given kind and size, 0 for none.
Constant(z, kind, bits) ==
  LET min == BitLen(z)
      size == IF min > 2 * C THEN min ELSE IF min > C THEN 2 * C ELSE C
  IN [const |-> TRUE, kind |-> kind, bits |-> Max({bits, size}), min |-> min,
      int |-> [z EXCEPT !.bits = size], reg |-> Max({bits, size})]
Literal(v) == Constant(Parse(v), "int", 0)

WiresOf(v) ==
  IF v.const
  THEN InputWires(BitsOf(v.int.num, v.reg), v.bits, v.kind = "int")
  ELSE v.w

Compared == {"==", "!=", "<", "<=", ">", ">="}
Shifts == {"<<", ">>"}
Arithmetical == {"+", "-", "*", "/", "%"} \cup Logical
BinaryOp == Compared \cup Shifts \cup Arithmetical

CanAssignConst(t, v) == v.kind \in Kind /\ t.bits >= v.min
SameType(l, r) == l.kind = r.kind /\ l.bits = r.bits
NoType == [kind |-> "error", bits |-> 0]
TypeOf(v) == [kind |-> v.kind, bits |-> v.bits]
TypeCompatible(l, r) ==
  CASE l.const /\ r.const /\ l.kind = r.kind -> TypeOf(l)
    [] l.const /\ ~r.const /\ CanAssignConst(r, l) -> TypeOf(r)
    [] ~l.const /\ r.const /\ CanAssignConst(l, r) -> TypeOf(l)
    [] OTHER -> IF SameType(l, r) THEN TypeOf(l) ELSE NoType
resultType(op, l, r) ==
  CASE op \in Compared -> [kind |-> "bool", bits |-> 1]
    [] op \in Shifts -> TypeOf(l)
    [] op \in Arithmetical -> TypeCompatible(l, r)

Holds(op, cmp) ==
  CASE op = "==" -> cmp = 0 [] op = "!=" -> cmp # 0
    [] op = "<" -> cmp < 0 [] op = "<=" -> cmp <= 0 [] op = ">" -> cmp > 0 [] op = ">=" -> cmp >= 0
evalConst(op, l, r) ==
  LET t == resultType(op, l, r)
      small0 == t.bits <= 2 * C
      \* Add takes the size of its operands, and setSmall panics.
      Panics == op = "+" /\ small0 /\ Max({l.int.bits, r.int.bits}) > 2 * C
      z == IF small0 THEN MpaSmall(op, t.bits, l.int, r.int) ELSE MpaBig(op, t.bits, l.int, r.int)
  IN CASE t = NoType -> Failed
       [] op \in Compared -> Boolean(<<IF Holds(op, Cmp(l.int, r.int)) THEN 1 ELSE 0>>)
       [] OTHER -> IF Panics THEN Failed ELSE Constant(z, t.kind, t.bits)

\* The instruction takes its kind from the left operand.
Instr(op, l) ==
  LET int == l.kind = "int"
  IN CASE op = "+" -> IF int THEN "iadd" ELSE "uadd"
       [] op = "-" -> IF int THEN "isub" ELSE "usub"
       [] op = "*" -> IF int THEN "imult" ELSE "umult"
       [] op = "/" -> IF int THEN "idiv" ELSE "udiv"
       [] op = "%" -> IF int THEN "imod" ELSE "umod"
       [] op = "<<" -> "lshift"
       [] op = ">>" -> IF int THEN "srshift" ELSE "rshift"
       [] op = "<" -> IF int THEN "ilt" ELSE "ult"
       [] op = "<=" -> IF int THEN "ile" ELSE "ule"
       [] op = ">" -> IF int THEN "igt" ELSE "ugt"
       [] op = ">=" -> IF int THEN "ige" ELSE "uge"
       [] op = "==" -> "eq"
       [] op = "!=" -> "neq"
       [] op = "&" -> "band"
       [] op = "&^" -> "bclr"
       [] op = "|" -> "bor"
       [] op = "^" -> "bxor"

\* Binary.SSA. The circuit of a shift needs a constant count that is not
\* negative.
Binary(op, l, r) ==
  LET t == resultType(op, l, r)
      count == IF op \in Shifts /\ r.const THEN Int64(r.int) ELSE 0
      w == Circuit(Instr(op, l), <<WiresOf(l), WiresOf(r)>>, <<count>>, t.bits)
  IN CASE l.const /\ r.const -> evalConst(op, l, r)
       [] t = NoType \/ (op \in Shifts /\ ~r.const) \/ count < 0 -> Failed
       [] OTHER -> [const |-> FALSE, kind |-> t.kind, bits |-> t.bits, w |-> w]

\* Unary.SSA and Unary.Eval of a minus.
Minus(v) ==
  IF v.const
  THEN LET zero == [bits |-> v.bits, num |-> 0]
       IN Constant(IF isSmall(zero) THEN MpaSmall("-", v.bits, zero, v.int)
                   ELSE MpaBig("-", v.bits, zero, v.int), v.kind, v.bits)
  ELSE Variable(v.kind, NewSubtractor(Zeros(C), v.w, v.bits))

\* Mutant: a widened int gets zeros.
Cast_ZeroExtends(v, kind, bits) ==
  IF v.const
  THEN {[v EXCEPT !.kind = kind, !.bits = bits, !.min = Min({@, bits}), !.reg = reg] : reg \in {v.reg, bits}}
  ELSE {Variable(kind, Mov(v.w, 0, bits))}

\* Call.Eval and Call.cast to a type. A constant keeps its number and the
\* wires some other use may have made for it.
Cast(v, kind, bits) ==
  IF v.const
  THEN {[v EXCEPT !.kind = kind, !.bits = bits, !.min = Min({@, bits}), !.reg = reg] : reg \in {v.reg, bits}}
  ELSE {Variable(kind, Mov(v.w, IF v.kind = "int" /\ kind = "int" /\ bits > v.bits THEN Last(v.w) ELSE 0, bits))}

\* LRValue.Set of a variable to a constant: the type is coerced.
Assign(kind, bits, v) ==
  IF CanAssignConst([bits |-> bits], v)
  THEN Variable(kind, Mov(WiresOf([v EXCEPT !.kind = kind, !.bits = bits]), 0, bits))
  ELSE Failed
-----------------------------------------------------------------------------
\* An operand is a variable or a constant that a few operations on literals
\* make; then one operation on it is looked at. A result on wires is the value
\* of a variable again, so that nothing is lost by ending there.
VARIABLES
  operand,   \* the value made so far
  folds,     \* operations on constants it took
  last       \* the operation looked at, with its operands and result
evars == <<operand, folds, last>>

Variables == {Variable(k, w) : k \in Kind, w \in UNION {[1 .. n -> Bit] : n \in Widths}}
Constants == {Literal(v) : v \in Literals}
Nothing == [op |-> "none"]

EInit ==
  /\ operand \in Constants \cup Variables
  /\ folds = 0
  /\ last = Nothing

\* A constant may be an operand of the next operation; a result on wires, or
\* any other, is looked at. What the compiler refuses ends there.
Step(op, l, r, result) ==
  /\ result # Failed
  /\ \/ /\ result.const /\ op # ":=" /\ folds < MaxFolds
        /\ folds' = folds + 1 /\ operand' = result
        /\ UNCHANGED last
     \/ /\ op = "()" => ~l.const
        /\ last' = [op |-> op, l |-> l, r |-> r, result |-> result]
        /\ UNCHANGED <<operand, folds>>
OnBoth ==
  /\ last = Nothing
  /\ \E op \in BinaryOp, v \in Variables \cup Constants :
       \E p \in {<<operand, v>>} \cup (IF operand.const THEN {<<v, operand>>} ELSE {}) :
         Step(op, p[1], p[2], Binary(op, p[1], p[2]))
OnOne == last = Nothing /\ Step("0-", operand, operand, Minus(operand))
Convert ==
  /\ last = Nothing
  /\ \E k \in Kind, n \in Widths \cup {2 * C} :
       \E v \in Cast(operand, k, n) : Step("()", operand, operand, v)
Store ==
  /\ last = Nothing /\ operand.const
  /\ \E k \in Kind, n \in Widths \cup {2 * C} : Step(":=", operand, operand, Assign(k, n, operand))

ENext == OnBoth \/ OnOne \/ Convert \/ Store
ESpec == EInit /\ [][ENext]_evars
-----------------------------------------------------------------------------
\* What an operation means for the numbers of its operands.
Meaning(v) ==
  CASE v.const -> Read(v.kind, v.int.num, v.bits)
    [] ~v.const /\ v.kind = "bool" -> v.w[1]
    [] OTHER -> Read(v.kind, NumberOn(v.w), v.bits)

Truth(b) == IF b THEN 1 ELSE 0
Meant(op, a, b) ==
  CASE op = "+" -> a + b
    [] op = "-" -> a - b
    [] op = "*" -> a * b
    \* There is no error on wires: all bits of the quotient are set, and it
    \* gets the sign; the remainder has none.
    [] op = "/" -> IF b # 0 THEN Quotient(a, b) ELSE IF a < 0 THEN 1 ELSE -1
    [] op = "%" -> IF b # 0 THEN Magnitude(a) % Magnitude(b) ELSE Magnitude(a)
    [] op = "<<" -> a * 2 ^ Min({b, 4 * C})
    [] op = ">>" -> a \div 2 ^ Min({b, 4 * C})
    [] op \in Logical -> AsSigned(Bitwise(op, a, b, 4 * C), 4 * C)
    [] op = "==" -> Truth(a = b)
    [] op = "!=" -> Truth(a # b)
    [] op = "<" -> Truth(a < b)
    [] op = "<=" -> Truth(a <= b)
    [] op = ">" -> Truth(a > b)
    [] op = ">=" -> Truth(a >= b)
    [] op = "0-" -> -a
    [] op \in {"()", ":="} -> a

\* A constant that its size does not make negative, or one of its own size.
Proper(v) ==
  v.const => \/ v.int.num < 2 ^ (Min({C, v.bits}) - 1)
             \/ v.kind = "int" /\ v.int.bits = v.bits /\ v.reg = v.bits

\* Operands are padded with zeros and read with the kind of the left one: the
\* numbers for which that changes nothing.
Fits(v, kind, w) == Read(kind, Meaning(v), w) = Meaning(v) /\ (Meaning(v) >= 0 \/ v.bits = w)
ByValue(op) == op \in Compared \cup {"/", "%"}
Handled(op, l, r, t) ==
  /\ Proper(l) /\ Proper(r)
  /\ ByValue(op) => LET w == Max({l.bits, r.bits}) IN Fits(l, l.kind, w) /\ Fits(r, l.kind, w)
  /\ op \in Shifts => Meaning(r) >= 0
  /\ ~ByValue(op) /\ op \notin Shifts =>
       \/ op = "()" /\ l.kind = t.kind
       \/ \A v \in {l, r} : Meaning(v) >= 0 \/ v.bits >= t.bits

IsRight ==
  LET r == last.result
  IN Meaning(r) = IF r.kind = "bool" THEN Meant(last.op, Meaning(last.l), Meaning(last.r))
                  ELSE Read(r.kind, Meant(last.op, Meaning(last.l), Meaning(last.r)), r.bits)
Done == last # Nothing

\* Binary.SSA, Unary.SSA, Call.cast and LRValue.Set: the wires of an operation
\* on variables, and constants, carry the result of the operation on their
\* numbers, whatever sizes the two have and whichever wires some other use of
\* a constant made for it; no output is left without a gate, and no product is
\* asked for whose high bits NewArrayMultiplier would have to clear.
CircuitIsRight ==
  /\ Done /\ ~(last.l.const /\ last.r.const /\ last.op # ":=")
  /\ Handled(last.op, last.l, last.r, last.result)
  => IsRight

\* Binary.evalConst and Unary.Eval: a constant expression has the value that
\* the circuit would compute. The code folds quotients and right shifts of
\* negative numbers without their sign, and compares large numbers by their
\* highest bit and computes with them on the bits their value needs; a
\* constant whose bits fill a size other than C and 2C gets the next of these,
\* and is no longer negative.
FoldIsRight ==
  /\ Done /\ last.l.const /\ last.r.const /\ last.op # ":="
  /\ last.op \notin Compared => last.result.bits = last.l.bits
  /\ Handled(last.op, last.l, last.r, last.result)
  /\ last.op \in {"/", "%", ">>"} => Meaning(last.l) >= 0 /\ Meaning(last.r) >= 0
  /\ last.op \in Compared => isSmall(last.l.int) /\ isSmall(last.r.int)
  /\ last.l.bits > 2 * C => \A v \in {last.l, last.r} : v.int.bits = last.l.bits
  => IsRight
=============================================================================
