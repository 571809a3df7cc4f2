---------------------------- MODULE MCArithmetic ----------------------------
\* Instances for TLC of the modules about numbers on wires: the loops of the
\* builders, expressions, arrays and arguments. A behaviour is one of a single
\* module, the unit; the variables of the others stay as they are.
EXTENDS Ripple, LongDivision, Expressions, Arrays, Arguments

VARIABLE unit

RStill ==
  /\ op = "none" /\ i = 0 /\ c = 0 /\ r = U
  /\ x = <<>> /\ y = <<>> /\ z = <<>> /\ top = <<>>
DStill ==
  /\ a = <<>> /\ b = <<>> /\ n = 0 /\ quo = <<>> /\ rem = <<>>
  /\ j = 0 /\ borrow = 0 /\ diff = <<>> /\ phase = "none"
EStill == operand = Nothing /\ folds = 0 /\ last = Nothing
AStill == arr = [kind |-> "none", size |-> 0, w |-> <<>>] /\ list = <<>> /\ short = FALSE
GStill ==
  /\ main = <<>> /\ fields = <<>> /\ inputs = <<>> /\ sizes = <<>>
  /\ wires = <<>> /\ parsed = 0 /\ values = <<>> /\ step = "none"

Init ==
  \/ unit = "ripple" /\ RInit /\ DStill /\ EStill /\ AStill /\ GStill
  \/ unit = "division" /\ DInit /\ RStill /\ EStill /\ AStill /\ GStill
  \/ unit = "expressions" /\ EInit /\ RStill /\ DStill /\ AStill /\ GStill
  \/ unit = "arrays" /\ AInit /\ RStill /\ DStill /\ EStill /\ GStill
  \/ unit = "arguments" /\ GInit /\ RStill /\ DStill /\ EStill /\ AStill
Next ==
  \/ unit = "ripple" /\ RNext /\ UNCHANGED <<unit, dvars, evars, avars, gvars>>
  \/ unit = "division" /\ DNext /\ UNCHANGED <<unit, rvars, evars, avars, gvars>>
  \/ unit = "expressions" /\ ENext /\ UNCHANGED <<unit, rvars, dvars, avars, gvars>>
  \/ unit = "arrays" /\ ANext /\ UNCHANGED <<unit, rvars, dvars, evars, gvars>>
  \/ unit = "arguments" /\ GNext /\ UNCHANGED <<unit, rvars, dvars, evars, avars>>
Spec == Init /\ [][Next]_<<unit, rvars, dvars, evars, avars, gvars>>

\* Arguments: pairs of fields, and a nested struct before another field.
MCStructs ==
  LET U2 == Sized("uint", 2)
      leaf == {Sized("bool", 1), Unsized("uint"), Unsized("int"), Sized("int", 3),
               Array(0, U2), Array(2, U2), Sliced(U2), Sliced(Sized("int", 3))}
  IN {<<s, t>> : s, t \in leaf}
       \cup {<<Struct(<<Unsized("uint"), s>>), t>> : s, t \in {Unsized("uint"), Sliced(U2)}}
MCInputs ==
  LET Text(form, num, digits) == [form |-> form, num |-> num, digits |-> digits]
  IN {Text("_", 0, 0), Text("word", 1, 0), Text("rep", 2, 1)}
       \cup {Text("dec", v, 0) : v \in {-4, -3, 0, 1, 6}}
       \cup {Text("hex", v, 1) : v \in {0, 2}} \cup {Text("hex", v, 2) : v \in {1, 13}}
=============================================================================
