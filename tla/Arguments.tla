----------------------------- MODULE Arguments -----------------------------
\* An argument of main from the strings a party gives to the Go value of a
\* result of the same type: InputSizes and IOArg.Parse of circuit/ioarg.go,
\* InstantiateWithSizes of compiler/types, IO.Split, and Result of
\* apps/garbled. The argument is a struct, which has a value for each field,
\* nested ones in order. A hexadecimal digit has D bits, where the code has 4.
EXTENDS Integers, Sequences, FiniteSetsExt, SequencesExt

CONSTANTS
  D,         \* bits of a digit
  Structs,   \* types of the argument
  Inputs     \* the strings: their form, number and digits
ASSUME DigitAssumption == D \in Nat \ {0}

VARIABLES
  main,      \* the type of the argument, a sequence of fields
  fields,    \* its fields without nesting, with their sizes
  inputs,    \* the strings of the party
  sizes,     \* what InputSizes makes of them
  wires,     \* the bits of the argument, as many as are parsed
  parsed,    \* fields that are parsed
  values,    \* Go values of the fields that are split off again
  step
gvars == <<main, fields, inputs, sizes, wires, parsed, values, step>>

\* Types of fields: numbers and bools, arrays and slices of numbers, structs.
Sized(kind, bits) == [kind |-> kind, bits |-> bits]
Unsized(kind) == [kind |-> kind, bits |-> -1]
Array(size, el) == [kind |-> "array", size |-> size, el |-> el]
Sliced(el) == [kind |-> "slice", size |-> -1, el |-> el]
Struct(fs) == [kind |-> "struct", fields |-> fs]

Concrete(t) == t.kind # "slice" /\ (t.kind \in {"int", "uint"} => t.bits >= 0)
\* flattenStruct.
Flatten(fs) == FlattenSeq([k \in DOMAIN fs |-> IF fs[k].kind = "struct" THEN fs[k].fields ELSE <<fs[k]>>])
BitsOfType(t) == IF t.kind \in {"array", "slice"} THEN t.size * t.el.bits ELSE t.bits
TotalBits(fs) == FoldLeft(LAMBDA n, t : n + BitsOfType(t), 0, fs)

BitLength(v) == LET m == IF v < 0 THEN -v ELSE v IN CHOOSE n \in 0 .. m : m < 2 ^ n /\ (n = 0 \/ m >= 2 ^ (n - 1))
BitAt(v, i) == (v \div 2 ^ i) % 2
UpDiv(a, b) == a \div b + (IF a % b # 0 THEN 1 ELSE 0)

GInit ==
  /\ main \in Structs
  /\ fields = Flatten(main)
  /\ inputs \in [1 .. Len(fields) -> Inputs]
  /\ sizes = <<>> /\ wires = <<>> /\ parsed = 0 /\ values = <<>>
  /\ step = "sizes"

\* InputSizes: forms are "_", numbers, words for a bool, digits after 0x, and
\* a count before an x and digits.
InputSize(in) ==
  CASE in.form = "_" -> 0
    [] in.form = "word" -> 1
    [] in.form = "dec" -> IF in.num \in {0, 1} THEN 1 ELSE BitLength(in.num)
    [] in.form = "hex" -> in.digits * D
    [] in.form = "rep" -> in.num * in.digits * D
InputSizes ==
  /\ step = "sizes"
  /\ sizes' = [k \in DOMAIN inputs |-> InputSize(inputs[k])]
  /\ step' = "types"
  /\ UNCHANGED <<main, fields, inputs, wires, parsed, values>>

\* InstantiateWithSizes of a field with the sizes from its index on. A nested
\* struct takes them from its own index on.
Instantiate(t, n) ==
  CASE t.kind = "bool" -> t
    [] t.kind \in {"int", "uint"} -> IF Concrete(t) THEN t ELSE [t EXCEPT !.bits = n]
    [] t.kind = "array" -> t
    [] t.kind = "slice" -> [t EXCEPT !.size = UpDiv(n, t.el.bits)]
InstantiateWithSizes ==
  /\ step = "types"
  /\ fields' = IF \A k \in DOMAIN fields : Concrete(fields[k]) THEN fields
               ELSE Flatten([k \in DOMAIN main |->
                      IF main[k].kind = "struct"
                      THEN Struct([l \in DOMAIN main[k].fields |-> Instantiate(main[k].fields[l], sizes[k + l - 1])])
                      ELSE Instantiate(main[k], sizes[k])])
  /\ step' = "parse"
  /\ UNCHANGED <<main, inputs, sizes, wires, parsed, values>>

\* big.Int.SetString with base 0.
IsNumber(in) == in.form \in {"dec", "hex"}

\* IOArg.Parse of one string: arrays have their first element in the highest
\* digits, and what is missing at the end is zero.
Elements(in, t) ==
  UpDiv(IF in.form = "hex" THEN in.digits * D ELSE BitLength(in.num), t.el.bits)
Count(in, t) == IF t.kind = "slice" THEN Elements(in, t) ELSE t.size
Accepts(in, t) ==
  CASE t.kind \in {"int", "uint"} -> IsNumber(in)
    [] t.kind = "bool" -> in.form = "word" \/ (in.form = "dec" /\ in.num \in {0, 1})
    [] t.kind = "array" -> t.size = 0 \/ (IsNumber(in) /\ Elements(in, t) <= t.size)
    [] t.kind = "slice" -> IsNumber(in)
\* Mutant: a short array begins with what is missing.
Parsed_NoPad(in, t) ==
  LET count == Count(in, t)
      next(i) == (in.num \div 2 ^ ((count - i - 1) * t.el.bits)) % (2 ^ t.el.bits)
  IN IF t.kind \in {"array", "slice"}
     THEN FoldLeft(LAMBDA v, i : v + next(i - 1) * 2 ^ ((i - 1) * t.el.bits), 0, [k \in 1 .. count |-> k])
     ELSE in.num
Parsed(in, t) ==
  LET count == Count(in, t)
      val == in.num * 2 ^ ((count - Elements(in, t)) * t.el.bits)
      next(i) == (val \div 2 ^ ((count - i - 1) * t.el.bits)) % (2 ^ t.el.bits)
  IN IF t.kind \in {"array", "slice"}
     THEN FoldLeft(LAMBDA v, i : v + next(i - 1) * 2 ^ ((i - 1) * t.el.bits), 0, [k \in 1 .. count |-> k])
     ELSE in.num
ParseField ==
  /\ step = "parse" /\ parsed < Len(fields)
  /\ LET t == fields[parsed + 1]
         in == inputs[parsed + 1]
     IN IF Accepts(in, t)
        THEN /\ wires' = wires \o [k \in 1 .. BitsOfType(t) |-> BitAt(Parsed(in, t), k - 1)]
             /\ parsed' = parsed + 1
             /\ step' = IF parsed' = Len(fields) THEN "split" ELSE step
        ELSE step' = "failed" /\ UNCHANGED <<wires, parsed>>
  /\ UNCHANGED <<main, fields, inputs, sizes, values>>

\* IO.Split and Result of one field.
Result(w, kind) ==
  LET v == FoldLeftDomain(LAMBDA n, k : n + w[k] * 2 ^ (k - 1), 0, w)
  IN IF kind = "int" /\ w # <<>> /\ Last(w) = 1 THEN v - 2 ^ Len(w) ELSE v
SplitField ==
  /\ step = "split" /\ Len(values) < Len(fields)
  /\ LET t == fields[Len(values) + 1]
         start == TotalBits(SubSeq(fields, 1, Len(values)))
         Part(from, n) == SubSeq(wires, start + from + 1, start + from + n)
     IN values' = Append(values,
          IF t.kind \in {"array", "slice"}
          THEN [i \in 1 .. t.size |-> Result(Part((i - 1) * t.el.bits, t.el.bits), t.el.kind)]
          ELSE Result(Part(0, t.bits), t.kind))
  /\ UNCHANGED <<main, fields, inputs, sizes, wires, parsed, step>>

GNext == InputSizes \/ InstantiateWithSizes \/ ParseField \/ SplitField
GSpec == GInit /\ [][GNext]_gvars
-----------------------------------------------------------------------------
\* What a string means for a field of type t: the number, or the elements as
\* they are written.
AsInt(v, n) == IF v >= 2 ^ (n - 1) THEN v - 2 ^ n ELSE v
Written(in, t) ==
  LET count == Elements(in, t)
      digit(i) == (in.num \div 2 ^ ((count - i) * t.el.bits)) % (2 ^ t.el.bits)
      el(v) == IF t.el.kind = "int" THEN AsInt(v, t.el.bits) ELSE v
  IN IF t.kind \in {"array", "slice"}
     THEN [i \in 1 .. t.size |-> IF i <= count THEN el(digit(i)) ELSE 0]
     ELSE in.num
FitsType(in, t) ==
  CASE t.kind = "int" -> in.num >= -(2 ^ (t.bits - 1)) /\ in.num < 2 ^ (t.bits - 1)
    [] t.kind = "uint" -> in.num >= 0 /\ in.num < 2 ^ t.bits
    [] t.kind = "bool" -> TRUE
    [] t.kind \in {"array", "slice"} -> in.num >= 0 /\ Elements(in, t) <= t.size

\* Values come out as they went in, each at its place, when they fit into
\* their types; Parse cuts the others without an error.
RoundTrip ==
  \A k \in DOMAIN values :
    FitsType(inputs[k], fields[k]) => values[k] = Written(inputs[k], fields[k])

\* The sizes a party announces are enough for its unsigned numbers and its
\* slices; for signed numbers they may be one bit short (ioarg.go:230). A
\* nested struct takes the sizes of later fields, so that this holds without.
SizesSuffice ==
  step = "split" /\ (\A k \in DOMAIN main : main[k].kind # "struct") =>
    \A k \in DOMAIN fields :
      \/ Concrete(main[k]) \/ ~IsNumber(inputs[k])
      \/ fields[k].kind # "int" /\ inputs[k].num < 0
      \/ FitsType(inputs[k], IF fields[k].kind = "int" THEN [fields[k] EXCEPT !.bits = @ + 1] ELSE fields[k])

\* InputSizes, IOArg.Parse, IO.Split and Result: an argument comes out of the
\* wires as the party wrote it, in a type that its announced size is enough for.
ArgumentSurvives == RoundTrip /\ SizesSuffice
=============================================================================
