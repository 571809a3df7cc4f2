------------------------------ MODULE Netlist ------------------------------
(***************************************************************************)
(* The circuit compiler (compiler/circuits): gates and wires that point at *)
(* each other are built, rewritten by ConstPropagate, ShortCircuitXORZero  *)
(* and Prune, and numbered and written out by Compile, in the order of     *)
(* Program.CompileCircuit (compiler/ssa/circuitgen.go).                    *)
(*                                                                         *)
(* Wires and gates are known by their numbers, in the order of their       *)
(* allocation.  One iteration of a loop over gates is one step, or a few   *)
(* when it loops itself: over the readers of a wire, whose number (num)    *)
(* and list (readers) the code keeps separately and changes differently.   *)
(*                                                                         *)
(* The meaning of a wire is the set of the inputs for which it is one; it  *)
(* is a history variable.                                                  *)
(***************************************************************************)
EXTENDS Integers, Sequences, FiniteSets

CONSTANTS NumInputs,   \* input wires
          Ops,         \* bound: the operations builders use
          MaxGates     \* bound: gates that are added, those of Ret included

ASSUME NetlistAssumption ==
    /\ NumInputs \in Nat \ {0} /\ MaxGates \in Nat
    /\ Ops \subseteq {"XOR", "XNOR", "AND", "OR"}

VARIABLES wire,     \* every wire allocated so far
          gate,     \* every gate allocated so far
          dead, visited, emitted,  \* gates with these flags
          list,     \* cc.Gates: gates in the order they were added
          outputs,  \* cc.OutputWires
          phase,    \* the loop that is running
          i,        \* how far it is
          todo,     \* readers of a wire still to be handled by it
          target,   \* ShortCircuit: the wire they are to read
          kept,     \* Prune: the gates that stay
          nextID,   \* the next wire id of Compile
          pending, assigned, compiled,  \* the lists of Compile
          panicked, \* a check of the code has failed
          optPrune, \* Params.OptPruneGates
          meaning   \* history: for which inputs each wire is one

netlist == <<wire, gate, dead, list, meaning>>
work == <<todo, target, kept>>
numbering == <<visited, emitted, nextID, pending, assigned, compiled>>
vars == <<wire, gate, dead, visited, emitted, list, outputs, phase, i, todo,
          target, kept, nextID, pending, assigned, compiled, panicked, optPrune, meaning>>

Unassigned == -1   \* UnassignedID
Nil == 0

InvI0Wire == NumInputs + 1
ZeroWire  == NumInputs + 2
OneWire   == NumInputs + 3

(***************************************************************************)
(* Meaning                                                                 *)
(***************************************************************************)
Assignments == SUBSET (1..NumInputs)
Meanings == SUBSET Assignments

Apply(op, a, b) ==
    CASE op = "XOR"  -> (a \ b) \cup (b \ a)
      [] op = "XNOR" -> Assignments \ ((a \ b) \cup (b \ a))
      [] op = "AND"  -> a \cap b
      [] op = "OR"   -> a \cup b
      [] op = "INV"  -> Assignments \ a

(***************************************************************************)
(* Building                                                                *)
(***************************************************************************)
NewWire(input) == [id |-> Unassigned, value |-> "?", num |-> 0, input |-> input,
                   readers |-> <<>>]

NewGate(op, a, b, o) == [op |-> op, A |-> a, B |-> b, O |-> o]

\* AddOutput and RemoveOutput: the number follows, the list only grows.
AddOutput(ws, w, g) == [ws EXCEPT ![w].num = @ + 1, ![w].readers = Append(@, g)]
RemoveOutput(ws, w) == [ws EXCEPT ![w].num = @ - 1]

\* The wires after BinaryGate or INVGate made gate g, its output a new wire.
Connect(ws, op, a, b, g) ==
    LET read == AddOutput(ws, a, g)
    IN  Append(IF op = "INV" THEN read ELSE AddOutput(read, b, g), NewWire(g))

\* A gate list and wires, extended by one gate.
Extend(n, op, a, b) ==
    LET g == Len(n.gate) + 1
    IN  [wire    |-> Connect(n.wire, op, a, b, g),
         gate    |-> Append(n.gate, NewGate(op, a, b, Len(n.wire) + 1)),
         meaning |-> Append(n.meaning,
                            Apply(op, n.meaning[a],
                                  IF op = "INV" THEN {} ELSE n.meaning[b]))]

\* ZeroWire and OneWire are made before anything else is compiled.
Constants ==
    LET n0 == [wire    |-> [w \in 1..NumInputs |-> NewWire(Nil)],
               gate    |-> <<>>,
               meaning |-> [w \in 1..NumInputs |-> {s \in Assignments : w \in s}]]
        n3 == Extend(Extend(Extend(n0, "INV", 1, Nil),
                            "AND", 1, InvI0Wire), "OR", 1, InvI0Wire)
    IN  [n3 EXCEPT !.wire[ZeroWire].value = "0", !.wire[OneWire].value = "1"]

Init ==
    /\ wire = Constants.wire /\ gate = Constants.gate /\ meaning = Constants.meaning
    /\ list = <<1, 2, 3>> /\ dead = {} /\ visited = {} /\ emitted = {}
    /\ outputs = <<>> /\ todo = <<>> /\ target = Nil /\ kept = <<>>
    /\ phase = "build" /\ i = 1
    /\ nextID = 0 /\ pending = <<>> /\ assigned = <<>> /\ compiled = <<>>
    /\ panicked = FALSE
    /\ optPrune \in BOOLEAN

\* AddGate with a gate that drives a new wire.
AddBinary(op, a, b) ==
    LET n == Extend([wire |-> wire, gate |-> gate, meaning |-> meaning], op, a, b)
    IN  /\ wire' = n.wire /\ gate' = n.gate /\ meaning' = n.meaning
        /\ list' = Append(list, Len(n.gate)) /\ UNCHANGED dead

\* The wires builders get at: nothing else asks for InvI0Wire.
Usable == 1..Len(wire) \ {InvI0Wire}

Build(op, a, b) ==
    /\ phase = "build" /\ outputs = <<>> /\ Len(gate) < 3 + MaxGates
    /\ AddBinary(op, a, b)
    /\ UNCHANGED <<outputs, phase, i, work, numbering, panicked, optPrune>>

Output(w) == \E k \in 1..Len(outputs) : outputs[k] = w

\* Ret: every returned wire is passed through a gate of its own (cc.ID), and
\* the outputs of these gates are the outputs of the circuit.
Ret(w) ==
    /\ phase = "build" /\ Len(gate) < 3 + MaxGates
    /\ ~Output(w)
    /\ AddBinary("XOR", w, ZeroWire)
    /\ outputs' = Append(outputs, Len(wire) + 1)
    /\ UNCHANGED <<phase, i, work, numbering, panicked, optPrune>>

Start ==
    /\ phase = "build" /\ outputs # <<>>
    /\ phase' = "const"
    /\ UNCHANGED <<netlist, outputs, i, work, numbering, panicked, optPrune>>

\* The gate the loop over cc.Gates is at.
InLoop == i \in 1..Len(list)
G == list[i]
ValueA == wire[gate[G].A].value
ValueB == wire[gate[G].B].value

(***************************************************************************)
(* ConstPropagate                                                          *)
(***************************************************************************)
\* The output of an operation, if it follows from what is known of a and b.
Known(op, a, b) ==
    CASE op \in {"XOR", "XNOR"} ->
           IF "?" \in {a, b} THEN "?"
           ELSE IF (a = b) = (op = "XOR") THEN "0" ELSE "1"
      [] op = "AND" ->
           IF "0" \in {a, b} THEN "0" ELSE IF {a, b} = {"1"} THEN "1" ELSE "?"
      [] op = "OR" ->
           IF "1" \in {a, b} THEN "1" ELSE IF {a, b} = {"0"} THEN "0" ELSE "?"

Folded == IF gate[G].op # "INV" THEN Known(gate[G].op, ValueA, ValueB)
          ELSE CASE ValueA = "1" -> "0" [] ValueA = "0" -> "1" [] OTHER -> "?"

\* The operand the gate passes on unchanged, if there is one.
Neutral == IF gate[G].op = "AND" THEN "1" ELSE "0"
\* Mutant: the neutral operand is passed on in place of the other one.
Passed_Swapped == IF gate[G].op \notin {"XOR", "AND", "OR"} \/ Folded # "?" THEN Nil
                  ELSE IF ValueA = Neutral THEN gate[G].A
                  ELSE IF ValueB = Neutral THEN gate[G].B ELSE Nil
Passed == IF gate[G].op \notin {"XOR", "AND", "OR"} \/ Folded # "?" THEN Nil
          ELSE IF ValueA = Neutral THEN gate[G].B
          ELSE IF ValueB = Neutral THEN gate[G].A ELSE Nil

\* The switch over the operation.  ShortCircuit leaves output wires alone.
FoldConst ==
    /\ phase = "const" /\ InLoop
    /\ LET o == gate[G].O IN
         /\ wire' = [wire EXCEPT ![o].value = IF Folded = "?" THEN @ ELSE Folded]
         /\ IF Passed # Nil /\ ~Output(o)
            THEN /\ phase' = "redirect" /\ todo' = wire[o].readers
                 /\ target' = Passed /\ UNCHANGED kept
            ELSE phase' = "rewire" /\ UNCHANGED work
    /\ UNCHANGED <<gate, dead, list, meaning, outputs, i, numbering, panicked,
                   optPrune>>

\* Wires after gate g reads "to" where it read "from".
Moved(ws, g, from, to) == AddOutput(RemoveOutput(ws, from), to, g)

\* Mutant: only the first operand is replaced.
Redirect_OnlyA ==
    /\ phase = "redirect" /\ todo # <<>>
    /\ LET h == Head(todo) from == gate[G].O IN
         \/ /\ gate[h].A = from
            /\ gate' = [gate EXCEPT ![h].A = target]
            /\ wire' = Moved(wire, h, from, target)
            /\ UNCHANGED panicked
         \/ gate[h].A # from /\ panicked' = TRUE /\ UNCHANGED <<gate, wire>>
    /\ todo' = Tail(todo)
    /\ UNCHANGED <<target, kept, dead, list, meaning, outputs, phase, i,
                   numbering, optPrune>>

\* ReplaceInput, for one of the readers of the short-circuited gate.
Redirect ==
    /\ phase = "redirect" /\ todo # <<>>
    /\ LET h == Head(todo) from == gate[G].O IN
         \/ /\ gate[h].A = from
            /\ gate' = [gate EXCEPT ![h].A = target]
            /\ wire' = Moved(wire, h, from, target)
            /\ UNCHANGED panicked
         \/ /\ gate[h].A # from /\ gate[h].B = from
            /\ gate' = [gate EXCEPT ![h].B = target]
            /\ wire' = Moved(wire, h, from, target)
            /\ UNCHANGED panicked
         \/ /\ from \notin {gate[h].A, gate[h].B}
            /\ panicked' = TRUE
            /\ UNCHANGED <<gate, wire>>
    /\ todo' = Tail(todo)
    /\ UNCHANGED <<target, kept, dead, list, meaning, outputs, phase, i,
                   numbering, optPrune>>

\* DisconnectOutputs, when the readers are gone.
Disconnect ==
    /\ phase = "redirect" /\ todo = <<>>
    /\ wire' = [wire EXCEPT ![gate[G].O].num = 0, ![gate[G].O].readers = <<>>]
    /\ phase' = "rewire"
    /\ UNCHANGED <<gate, dead, list, meaning, outputs, i, work, numbering,
                   panicked, optPrune>>

\* The end of the loop's body: constant operands are read from the two
\* constant wires.
ConstWire(w) == CASE wire[w].value = "0" -> ZeroWire
                  [] wire[w].value = "1" -> OneWire
                  [] OTHER -> w
\* Mutant: the constant wire gains a reader, the old wire keeps it.
Settled_NotRemoved(ws, g, w) ==
    IF wire[w].value = "?" THEN ws ELSE AddOutput(ws, ConstWire(w), g)
Settled(ws, g, w) == IF wire[w].value = "?" THEN ws ELSE Moved(ws, g, w, ConstWire(w))

Rewire ==
    /\ phase = "rewire"
    /\ LET a == gate[G].A b == gate[G].B IN
         /\ gate' = [gate EXCEPT ![G].A = ConstWire(a),
                                 ![G].B = IF b = Nil THEN Nil ELSE ConstWire(b)]
         /\ wire' = IF b = Nil THEN Settled(wire, G, a)
                    ELSE Settled(Settled(wire, G, a), G, b)
    /\ i' = i + 1 /\ phase' = "const"
    /\ UNCHANGED <<dead, list, meaning, outputs, work, numbering, panicked,
                   optPrune>>

ConstDone ==
    /\ phase = "const" /\ ~InLoop
    /\ phase' = "xorA" /\ i' = 1
    /\ UNCHANGED <<netlist, outputs, work, numbering, panicked, optPrune>>

(***************************************************************************)
(* ShortCircuitXORZero: the gate that drives the operand x of G drives the *)
(* output of G in its place, if the other operand is zero and x has no     *)
(* other reader.                                                           *)
(***************************************************************************)
\* Mutant: other readers of x are not asked for.
Skippable_AnyReaders(zero, x) ==
    gate[G].op = "XOR" /\ wire[zero].value = "0" /\ wire[x].input # Nil
Skippable(zero, x) ==
    /\ gate[G].op = "XOR"
    /\ wire[zero].value = "0"
    /\ wire[x].input # Nil
    /\ wire[gate[wire[x].input].O].num = 1

\* Mutant: the gate that is skipped is left without an output.
Skip_NoWire(p) ==
    /\ gate' = [gate EXCEPT ![p].O = gate[G].O, ![G].O = Nil]
    /\ UNCHANGED <<wire, meaning>>
Skip(p) ==
    /\ gate' = [gate EXCEPT ![p].O = gate[G].O, ![G].O = Len(wire) + 1]
    /\ wire' = Append(wire, NewWire(Nil))
    /\ meaning' = Append(meaning, meaning[gate[G].O])

\* The two tests of the loop's body, one after the other.
SkipXORZero(zero, x) ==
    /\ IF Skippable(zero, x) THEN Skip(wire[x].input)
       ELSE UNCHANGED <<gate, wire, meaning>>
    /\ UNCHANGED <<dead, list, outputs, work, numbering, panicked, optPrune>>
SkipByA ==
    /\ phase = "xorA" /\ InLoop
    /\ SkipXORZero(gate[G].A, gate[G].B)
    /\ phase' = "xorB" /\ UNCHANGED i
SkipByB ==
    /\ phase = "xorB"
    /\ SkipXORZero(gate[G].B, gate[G].A)
    /\ phase' = "xorA" /\ i' = i + 1

XORDone ==
    /\ phase = "xorA" /\ ~InLoop
    /\ IF optPrune THEN phase' = "prune" /\ i' = Len(list)
       ELSE phase' = "assign" /\ i' = 1
    /\ UNCHANGED <<netlist, outputs, work, numbering, panicked, optPrune>>

(***************************************************************************)
(* Prune, from the last gate to the first                                  *)
(***************************************************************************)
Unread(g) == g \notin dead /\ ~Output(gate[g].O) /\ wire[gate[g].O].num <= 0

\* Mutant: the second operand keeps the gate as its reader.
PruneGate_KeepsB ==
    /\ phase = "prune" /\ InLoop
    /\ IF Unread(G)
       THEN /\ dead' = dead \cup {G} /\ UNCHANGED kept
            /\ wire' = RemoveOutput(wire, gate[G].A)
       ELSE kept' = <<G>> \o kept /\ UNCHANGED <<dead, wire>>
    /\ i' = i - 1
    /\ UNCHANGED <<gate, list, meaning, outputs, phase, todo, target, numbering,
                   panicked, optPrune>>

PruneGate ==
    /\ phase = "prune" /\ InLoop
    /\ IF Unread(G)
       THEN /\ dead' = dead \cup {G} /\ UNCHANGED kept
            /\ wire' = LET ws == RemoveOutput(wire, gate[G].A)
                       IN  IF gate[G].op = "INV" THEN ws
                           ELSE RemoveOutput(ws, gate[G].B)
       ELSE kept' = <<G>> \o kept /\ UNCHANGED <<dead, wire>>
    /\ i' = i - 1
    /\ UNCHANGED <<gate, list, meaning, outputs, phase, todo, target, numbering,
                   panicked, optPrune>>

PruneDone ==
    /\ phase = "prune" /\ ~InLoop
    /\ list' = kept
    /\ phase' = "assign" /\ i' = 1
    /\ UNCHANGED <<wire, gate, dead, meaning, outputs, work, numbering,
                   panicked, optPrune>>

(***************************************************************************)
(* Compile: wires are numbered from the inputs on, gates are taken when    *)
(* both operands have a number, outputs are numbered last.                 *)
(***************************************************************************)
IsAssigned(w) == wire[w].id # Unassigned

\* Wire.Assign up to the visits of its readers.
AssignWire(w) ==
    IF Output(w) THEN UNCHANGED <<wire, nextID, todo>>
    ELSE /\ wire' = [wire EXCEPT ![w].id = IF IsAssigned(w) THEN @ ELSE nextID]
         /\ nextID' = IF IsAssigned(w) THEN nextID ELSE nextID + 1
         /\ todo' = wire[w].readers

AssignInput ==
    /\ phase = "assign" /\ todo = <<>> /\ i <= NumInputs
    /\ AssignWire(i)
    /\ i' = i + 1
    /\ UNCHANGED <<target, kept, gate, dead, list, meaning, outputs, phase,
                   visited, pending, assigned, emitted, compiled, panicked,
                   optPrune>>

\* Mutant: the second operand need not have a number yet.
Visitable_OnlyA(g) ==
    g \notin dead /\ g \notin visited /\ IsAssigned(gate[g].A)
Visitable(g) ==
    /\ g \notin dead /\ g \notin visited
    /\ IsAssigned(gate[g].A)
    /\ gate[g].op # "INV" => IsAssigned(gate[g].B)

Visit ==
    /\ phase = "assign" /\ todo # <<>>
    /\ IF Visitable(Head(todo))
       THEN /\ visited' = visited \cup {Head(todo)}
            /\ pending' = Append(pending, Head(todo))
       ELSE UNCHANGED <<visited, pending>>
    /\ todo' = Tail(todo)
    /\ UNCHANGED <<target, kept, netlist, outputs, phase, i, nextID, assigned,
                   emitted, compiled, panicked, optPrune>>

AssignGate ==
    /\ phase = "assign" /\ todo = <<>> /\ i > NumInputs /\ pending # <<>>
    /\ pending' = Tail(pending)
    /\ IF Head(pending) \in dead THEN UNCHANGED <<wire, nextID, todo, assigned>>
       ELSE /\ AssignWire(gate[Head(pending)].O)
            /\ assigned' = Append(assigned, Head(pending))
    /\ UNCHANGED <<target, kept, gate, dead, list, meaning, outputs, phase, i,
                   visited, emitted, compiled, panicked, optPrune>>

AssignOutputs ==
    /\ phase = "assign" /\ todo = <<>> /\ i > NumInputs /\ pending = <<>>
    /\ panicked' = \E k \in 1..Len(outputs) : IsAssigned(outputs[k])
    /\ wire' = [w \in 1..Len(wire) |->
                  IF \E k \in 1..Len(outputs) : outputs[k] = w
                  THEN [wire[w] EXCEPT !.id =
                          nextID + (CHOOSE k \in 1..Len(outputs) : outputs[k] = w) - 1]
                  ELSE wire[w]]
    /\ nextID' = nextID + Len(outputs)
    /\ phase' = "emit" /\ i' = 1
    /\ UNCHANGED <<gate, dead, list, meaning, outputs, work, visited, pending,
                   assigned, emitted, compiled, optPrune>>

EmitGate ==
    /\ phase = "emit" /\ i <= Len(assigned)
    /\ LET g == assigned[i] IN
         IF g \in dead \/ g \in emitted THEN UNCHANGED <<emitted, compiled>>
         ELSE /\ emitted' = emitted \cup {g}
              /\ compiled' = Append(compiled,
                   [op |-> gate[g].op, in0 |-> wire[gate[g].A].id,
                    in1 |-> IF gate[g].op = "INV" THEN 0 ELSE wire[gate[g].B].id,
                    out |-> wire[gate[g].O].id])
    /\ i' = i + 1
    /\ UNCHANGED <<netlist, outputs, phase, work, visited, nextID, pending,
                   assigned, panicked, optPrune>>

EmitDone ==
    /\ phase = "emit" /\ i > Len(assigned)
    /\ phase' = "done"
    /\ UNCHANGED <<netlist, outputs, i, work, numbering, panicked, optPrune>>

Next ==
    /\ ~panicked
    /\ \/ \E op \in Ops, a, b \in Usable : Build(op, a, b)
       \/ \E w \in Usable : Ret(w)
       \/ Start
       \/ FoldConst \/ Redirect \/ Disconnect \/ Rewire \/ ConstDone
       \/ SkipByA \/ SkipByB \/ XORDone
       \/ PruneGate \/ PruneDone
       \/ AssignInput \/ Visit \/ AssignGate \/ AssignOutputs
       \/ EmitGate \/ EmitDone

Spec == Init /\ [][Next]_vars

(***************************************************************************)
(* Properties                                                              *)
(***************************************************************************)
WireRecord == [id : Nat \cup {Unassigned}, value : {"?", "0", "1"}, num : Int,
               input : Nat, readers : Seq(Nat)]
GateRecord == [op : {"XOR", "XNOR", "AND", "OR", "INV"}, A : Nat, B : Nat, O : Nat]

TypeOK ==
    /\ wire \in Seq(WireRecord) /\ gate \in Seq(GateRecord)
    /\ meaning \in Seq(Meanings) /\ Len(meaning) = Len(wire)
    /\ \A w \in 1..Len(wire) :
         /\ wire[w].input \in 0..Len(gate)
         /\ wire[w].readers \in Seq(1..Len(gate))
    /\ \A g \in 1..Len(gate) :
         /\ gate[g].A \in 1..Len(wire) /\ gate[g].O \in 1..Len(wire)
         /\ gate[g].B \in IF gate[g].op = "INV" THEN {Nil} ELSE 1..Len(wire)
    /\ list \in Seq(1..Len(gate)) /\ outputs \in Seq(1..Len(wire))
    /\ todo \in Seq(1..Len(gate)) /\ kept \in Seq(1..Len(gate))
    /\ pending \in Seq(1..Len(gate)) /\ assigned \in Seq(1..Len(gate))
    /\ i \in Int /\ target \in 0..Len(wire) /\ nextID \in Nat

Live == {list[k] : k \in {j \in 1..Len(list) : list[j] \notin dead}}
Reads(g, w) == gate[g].A = w \/ gate[g].B = w

\* No pass runs into one of its own panics: a reader in a wire's list still
\* reads the wire when it is redirected (ReplaceInput), the number of readers
\* does not go below zero (SetNumOutputs), outputs are not numbered twice.
NeverPanics == ~panicked /\ \A w \in 1..Len(wire) : wire[w].num >= 0

\* The number of readers of a wire, which decides what is short-circuited
\* and what is removed, is the number of operands that read it, although the
\* list of readers keeps gates that were moved away (wire.go:194).
CountsAgree ==
    \A w \in 1..Len(wire) :
      wire[w].num = Cardinality({g \in Live : gate[g].A = w})
                      + Cardinality({g \in Live : gate[g].B = w})

\* Every rewriting step keeps what the wires mean, and a wire that is marked
\* constant is constant.
MeaningKept ==
    /\ \A g \in Live :
         meaning[gate[g].O] =
           Apply(gate[g].op, meaning[gate[g].A],
                 IF gate[g].B = Nil THEN {} ELSE meaning[gate[g].B])
    /\ \A w \in 1..Len(wire) :
         /\ wire[w].value = "0" => meaning[w] = {}
         /\ wire[w].value = "1" => meaning[w] = Assignments

\* After Prune every gate that is left has a reader or drives an output.
NothingUseless ==
    optPrune /\ phase \in {"assign", "emit", "done"} =>
      \A g \in Live : \/ Output(gate[g].O)
                      \/ \E h \in Live : Reads(h, gate[g].O)

\* What Compile writes is what circuit.Compute, Garble and Eval ask for: a
\* gate reads inputs or outputs of gates before it, and no wire is driven
\* twice.
WellOrdered ==
    \A k \in 1..Len(compiled) :
      LET before == 0..(NumInputs - 1) \cup {compiled[j].out : j \in 1..(k - 1)}
      IN  /\ compiled[k].in0 \in before /\ compiled[k].in1 \in before
          /\ compiled[k].out \in (0..(nextID - 1)) \ before

\* What the circuit computes, as circuit.Compute does: the values of its wires
\* after each of its gates.
Inputs == [id \in 0..(nextID - 1) |-> IF id < NumInputs THEN meaning[id + 1] ELSE {}]
After(c, m) == [m EXCEPT ![c.out] = Apply(c.op, m[c.in0], m[c.in1])]
Values ==
    LET v[k \in 0..Len(compiled)] ==
          IF k = 0 THEN Inputs ELSE After(compiled[k], v[k - 1])
    IN  v

\* The circuit computes what the builders asked for: its last wires, in
\* order, are the returned ones.
CompiledComputes ==
    phase = "done" =>
      \A k \in 1..Len(outputs) :
        Values[Len(compiled)][nextID - Len(outputs) + k - 1] = meaning[outputs[k]]
=============================================================================
