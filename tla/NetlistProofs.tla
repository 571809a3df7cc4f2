--------------------------- MODULE NetlistProofs ---------------------------
(***************************************************************************)
(* Proofs about module Netlist, for any number of inputs and any circuit a *)
(* builder can make: the wires and gates keep their types, and every pass  *)
(* keeps the meaning of every wire.                                        *)
(***************************************************************************)
EXTENDS Netlist, Integers, FiniteSetTheorems, WellFoundedInduction, TLAPS

(***************************************************************************)
(* Induction over the natural numbers, for a set: a definition is not an   *)
(* argument of a theorem the provers can use, a set is.                    *)
(***************************************************************************)
\* A set of naturals that is not empty has a least element.
LEMMA Least ==
  ASSUME NEW T \in SUBSET Nat, T # {}
  PROVE  \E m \in T : \A k \in T : m <= k
<1> DEFINE Less == {s \in Nat \X Nat : s[1] < s[2]}
<1>1. IsWellFoundedOn(Less, Nat)
  BY NatLessThanWellFounded DEF OpToRel
<1> HIDE DEF Less
<1>2. PICK m \in T : \A k \in T : ~ (<<k, m>> \in Less)
  BY <1>1, WFMin
<1>3. ASSUME NEW k \in T PROVE m <= k
  <2>1. ~ (<<k, m>> \in Less)
    BY <1>2
  <2>2. k < m => <<k, m>> \in Less
    BY DEF Less
  <2>3. QED
    BY <2>1, <2>2
<1>4. QED
  BY <1>3

\* Induction up to m, for a set: what is not in it would have a least element.
LEMMA Induction ==
  ASSUME NEW m \in Nat, NEW S, 0 \in S, \A k \in 0 .. m - 1 : k \in S => k + 1 \in S
  PROVE  0 .. m \subseteq S
<1> DEFINE T == (0 .. m) \ S
<1>1. SUFFICES ASSUME T # {} PROVE FALSE
  OBVIOUS
<1>2. T \in SUBSET Nat
  OBVIOUS
<1>3. PICK t \in T : \A k \in T : t <= k
  BY <1>1, <1>2, Least
<1>4. t - 1 \in 0 .. m - 1
  OBVIOUS
<1>5. t - 1 \in S
  BY <1>3, <1>4
<1>6. t = (t - 1) + 1
  BY <1>4
<1>7. QED
  BY <1>4, <1>5, <1>6

(***************************************************************************)
(* The invariant, as predicates on wires ws, gates gs and meanings ms.     *)
(***************************************************************************)
WiresTyped(ws, n) ==
    /\ ws \in Seq(WireRecord)
    /\ \A w \in 1..Len(ws) : ws[w].input \in 0..n /\ ws[w].readers \in Seq(1..n)

GatesTyped(gs, n) ==
    /\ gs \in Seq(GateRecord)
    /\ \A g \in 1..Len(gs) :
         /\ gs[g].A \in 1..n /\ gs[g].O \in 1..n
         /\ gs[g].op = "INV" => gs[g].B = Nil
         /\ gs[g].op # "INV" => gs[g].B \in 1..n

MeaningsTyped(ms, n) == ms \in Seq(Meanings) /\ Len(ms) = n

Second(ms, b) == IF b = Nil THEN {} ELSE ms[b]

GatesMean(gs, ms) ==
    \A g \in 1..Len(gs) :
      ms[gs[g].O] = Apply(gs[g].op, ms[gs[g].A], Second(ms, gs[g].B))

\* A wire means what the gate it points to drives, though after a skip it is
\* another wire that this gate drives.
WiresMean(ws, gs, ms) ==
    \A w \in 1..Len(ws) :
      /\ ws[w].value = "0" => ms[w] = {}
      /\ ws[w].value = "1" => ms[w] = Assignments
      /\ ws[w].input # Nil => ms[gs[ws[w].input].O] = ms[w]

Sound(ws, gs, ms) ==
    /\ WiresTyped(ws, Len(gs)) /\ GatesTyped(gs, Len(ws)) /\ MeaningsTyped(ms, Len(ws))
    /\ GatesMean(gs, ms) /\ WiresMean(ws, gs, ms)

ConstantsSound(ws, ms) ==
    /\ NumInputs + 3 <= Len(ws)
    /\ ms[ZeroWire] = {} /\ ms[OneWire] = Assignments

LoopsTyped ==
    /\ list \in Seq(1..Len(gate)) /\ outputs \in Seq(1..Len(wire))
    /\ todo \in Seq(1..Len(gate)) /\ kept \in Seq(1..Len(gate))
    /\ pending \in Seq(1..Len(gate)) /\ assigned \in Seq(1..Len(gate))
    /\ i \in Int /\ target \in 0..Len(wire) /\ nextID \in Nat

\* The body of a loop is about a gate of the list; the readers of a wire are
\* redirected to one that means the same.
LoopsSound ==
    /\ phase \in {"redirect", "rewire", "xorB"} => i \in 1..Len(list)
    /\ phase = "redirect" => target # Nil /\ meaning[target] = meaning[gate[G].O]
    /\ phase = "assign" => i >= 1

NInv == /\ Sound(wire, gate, meaning) /\ ConstantsSound(wire, meaning)
        /\ LoopsTyped /\ LoopsSound

(***************************************************************************)
(* Wires whose readers change                                              *)
(***************************************************************************)
SameWires(ws, ws2, n) ==
    /\ WiresTyped(ws2, n) /\ Len(ws2) = Len(ws)
    /\ \A w \in 1..Len(ws) : ws2[w].value = ws[w].value /\ ws2[w].input = ws[w].input

\* AddOutput changes no value and no driver.
LEMMA AddOutputSame ==
  ASSUME NEW n \in Nat, NEW ws, WiresTyped(ws, n), NEW w \in 1..Len(ws), NEW g \in 1..n
  PROVE  SameWires(ws, AddOutput(ws, w, g), n)
  <1> DEFINE rs == Append(ws[w].readers, g)
             k == ws[w].num + 1
             new == [ws[w] EXCEPT !.num = k, !.readers = rs]
  <1>1. AddOutput(ws, w, g) = [ws EXCEPT ![w] = new]
    BY DEF AddOutput, WiresTyped, WireRecord
  <1>2. ws[w] \in WireRecord /\ ws[w].readers \in Seq(1..n)
    BY DEF WiresTyped
  <1>3. rs \in Seq(1..n) /\ rs \in Seq(Nat) /\ k \in Int
    BY <1>2 DEF WireRecord
  <1> HIDE DEF rs, k
  <1>4. /\ new \in WireRecord /\ new.readers \in Seq(1..n)
        /\ new.value = ws[w].value /\ new.input = ws[w].input
    BY <1>2, <1>3 DEF WireRecord
  <1> HIDE DEF new
  <1> QED
    BY SMTT(30), <1>1, <1>4 DEF SameWires, WiresTyped

\* RemoveOutput changes no value and no driver.
LEMMA RemoveOutputSame ==
  ASSUME NEW n \in Nat, NEW ws, WiresTyped(ws, n), NEW w \in 1..Len(ws)
  PROVE  SameWires(ws, RemoveOutput(ws, w), n)
  <1> DEFINE new == [ws[w] EXCEPT !.num = @ - 1]
  <1>1. RemoveOutput(ws, w) = [ws EXCEPT ![w] = new]
    BY DEF RemoveOutput
  <1>2. ws[w] \in WireRecord /\ ws[w].readers \in Seq(1..n)
    BY DEF WiresTyped
  <1>3. /\ new \in WireRecord /\ new.readers \in Seq(1..n)
        /\ new.value = ws[w].value /\ new.input = ws[w].input
    BY <1>2 DEF WireRecord
  <1> HIDE DEF new
  <1> QED
    BY <1>1, <1>3 DEF SameWires, WiresTyped

\* Such changes compose.
LEMMA SameWiresTrans ==
  ASSUME NEW n, NEW ws, NEW mid, NEW ws2, SameWires(ws, mid, n), SameWires(mid, ws2, n)
  PROVE  SameWires(ws, ws2, n)
  BY DEF SameWires

FieldSet(ws, w, new, ws2) == ws2 = [ws EXCEPT ![w] = new]

\* Setting the id of a wire, or its readers, is such a change.
LEMMA FieldSame ==
  ASSUME NEW n, NEW ws, WiresTyped(ws, n), NEW w \in 1..Len(ws),
         NEW new \in WireRecord, new.readers \in Seq(1..n),
         new.value = ws[w].value, new.input = ws[w].input,
         NEW ws2, FieldSet(ws, w, new, ws2)
  PROVE  SameWires(ws, ws2, n)
  BY DEF SameWires, WiresTyped, FieldSet

\* So is moving a reader to another wire (ReplaceInput).
LEMMA MovedSame ==
  ASSUME NEW n \in Nat, NEW ws, WiresTyped(ws, n), NEW g \in 1..n,
         NEW from \in 1..Len(ws), NEW to \in 1..Len(ws)
  PROVE  SameWires(ws, Moved(ws, g, from, to), n)
  <1>1. SameWires(ws, RemoveOutput(ws, from), n)
    BY RemoveOutputSame
  <1>2. SameWires(RemoveOutput(ws, from), Moved(ws, g, from, to), n)
    BY <1>1, AddOutputSame DEF Moved, SameWires
  <1> QED
    BY <1>1, <1>2 DEF SameWires

\* They keep a netlist sound.
LEMMA SameWiresSound ==
  ASSUME NEW ws, NEW gs, NEW ms, Sound(ws, gs, ms), NEW ws2, SameWires(ws, ws2, Len(gs))
  PROVE  Sound(ws2, gs, ms)
  <1>1. WiresTyped(ws2, Len(gs)) /\ GatesTyped(gs, Len(ws2)) /\ MeaningsTyped(ms, Len(ws2))
    BY DEF Sound, SameWires
  <1>2. GatesMean(gs, ms)
    BY DEF Sound
  <1>3. WiresMean(ws2, gs, ms)
    BY DEF Sound, SameWires, WiresMean
  <1> QED
    BY <1>1, <1>2, <1>3 DEF Sound

(***************************************************************************)
(* Gates whose operands or outputs change to wires that mean the same      *)
(***************************************************************************)
SameGates(gs, gs2, ms, n) ==
    /\ GatesTyped(gs2, n) /\ Len(gs2) = Len(gs)
    /\ \A g \in 1..Len(gs) :
         /\ gs2[g].op = gs[g].op
         /\ ms[gs2[g].A] = ms[gs[g].A] /\ ms[gs2[g].O] = ms[gs[g].O]
         /\ Second(ms, gs2[g].B) = Second(ms, gs[g].B)

\* Gates that read and drive wires of the same meaning in place of theirs keep
\* it sound.
LEMMA SameGatesSound ==
  ASSUME NEW ws, NEW gs, NEW ms, Sound(ws, gs, ms),
         NEW gs2, SameGates(gs, gs2, ms, Len(ws))
  PROVE  Sound(ws, gs2, ms)
  <1>1. WiresTyped(ws, Len(gs2)) /\ GatesTyped(gs2, Len(ws)) /\ MeaningsTyped(ms, Len(ws))
    BY DEF Sound, SameGates
  <1>2. GatesMean(gs2, ms)
    <2> SUFFICES ASSUME NEW g \in 1..Len(gs)
                 PROVE  ms[gs2[g].O] = Apply(gs2[g].op, ms[gs2[g].A], Second(ms, gs2[g].B))
      BY DEF GatesMean, SameGates
    <2>1. ms[gs[g].O] = Apply(gs[g].op, ms[gs[g].A], Second(ms, gs[g].B))
      BY DEF Sound, GatesMean
    <2> QED
      BY <2>1 DEF SameGates
  <1>3. WiresMean(ws, gs2, ms)
    <2> SUFFICES ASSUME NEW w \in 1..Len(ws), ws[w].input # Nil
                 PROVE  ms[gs2[ws[w].input].O] = ms[w]
      BY DEF Sound, WiresMean
    <2>1. ws[w].input \in 1..Len(gs)
      BY DEF Sound, WiresTyped, Nil
    <2>2. ms[gs[ws[w].input].O] = ms[w]
      BY DEF Sound, WiresMean
    <2> QED
      BY <2>1, <2>2 DEF SameGates
  <1> QED
    BY <1>1, <1>2, <1>3 DEF Sound

(***************************************************************************)
(* Building                                                                *)
(***************************************************************************)
\* Elements of a sequence that grew by one.
LEMMA Appended ==
  ASSUME NEW S, NEW s \in Seq(S), NEW e \in S
  PROVE  /\ Append(s, e) \in Seq(S) /\ Len(Append(s, e)) = Len(s) + 1
         /\ Append(s, e)[Len(s) + 1] = e
         /\ \A k \in 1..Len(s) : Append(s, e)[k] = s[k]
  OBVIOUS

AllOps == {"XOR", "XNOR", "AND", "OR", "INV"}

\* A gate computes a set of inputs.
LEMMA ApplyTyped ==
  ASSUME NEW op \in AllOps, NEW a \in Meanings, NEW b \in Meanings
  PROVE  Apply(op, a, b) \in Meanings
  BY DEF Apply, AllOps, Meanings

\* A new wire has the type of one.
LEMMA NewWireTyped ==
  ASSUME NEW n \in Nat, NEW g \in 0..n
  PROVE  /\ NewWire(g) \in WireRecord /\ NewWire(g).readers \in Seq(1..n)
         /\ NewWire(g).value = "?" /\ NewWire(g).input = g
  BY DEF NewWire, WireRecord, Unassigned

\* Wires keep their types when gates are added.
LEMMA MoreGates ==
  ASSUME NEW n \in Nat, NEW ws, WiresTyped(ws, n)
  PROVE  WiresTyped(ws, n + 1)
  <1>1. \A s \in Seq(1..n) : s \in Seq(1..(n + 1))
    OBVIOUS
  <1> QED
    BY <1>1 DEF WiresTyped

\* BinaryGate and INVGate change readers of old wires only, and add one wire.
LEMMA ConnectSame ==
  ASSUME NEW n \in Nat, NEW ws, WiresTyped(ws, n), NEW op \in AllOps,
         NEW a \in 1..Len(ws), NEW b, op # "INV" => b \in 1..Len(ws)
  PROVE  \E mid : /\ SameWires(ws, mid, n + 1)
                  /\ Connect(ws, op, a, b, n + 1) = Append(mid, NewWire(n + 1))
  <1> DEFINE read == AddOutput(ws, a, n + 1)
             both == AddOutput(read, b, n + 1)
  <1>1. WiresTyped(ws, n + 1) /\ n + 1 \in Nat /\ n + 1 \in 1..(n + 1)
    BY MoreGates
  <1>2. SameWires(ws, read, n + 1)
    BY <1>1, AddOutputSame
  <1>3. CASE op = "INV"
    <2>1. Connect(ws, op, a, b, n + 1) = Append(read, NewWire(n + 1))
      BY <1>3, Zenon DEF Connect
    <2> QED
      BY <1>2, <2>1
  <1>4. CASE op # "INV"
    <2>1. SameWires(read, both, n + 1)
      BY <1>1, <1>2, <1>4, AddOutputSame DEF SameWires
    <2>2. SameWires(ws, both, n + 1)
      BY <1>2, <2>1 DEF SameWires
    <2>3. Connect(ws, op, a, b, n + 1) = Append(both, NewWire(n + 1))
      BY <1>4, Zenon DEF Connect
    <2> QED
      BY <2>2, <2>3
  <1> QED
    BY <1>3, <1>4

WireAdded(n, ws, g, ws2) ==
    n \in Nat /\ g \in 0..n /\ ws2 = Append(ws, NewWire(g))

WiresGrown(n, ws, g, ws2) ==
    /\ WiresTyped(ws2, n) /\ Len(ws2) = Len(ws) + 1
    /\ \A w \in 1..Len(ws) : ws2[w].value = ws[w].value /\ ws2[w].input = ws[w].input
    /\ ws2[Len(ws) + 1].value = "?" /\ ws2[Len(ws) + 1].input = g

\* A wire more, which an added gate drives or no gate at all.
LEMMA OneWireMore ==
  ASSUME NEW n, NEW ws, NEW mid, SameWires(ws, mid, n),
         NEW g, NEW ws2, WireAdded(n, mid, g, ws2)
  PROVE  WiresGrown(n, ws, g, ws2)
  <1>0. n \in Nat /\ g \in 0..n
    BY DEF WireAdded
  <1>1. /\ NewWire(g) \in WireRecord /\ NewWire(g).readers \in Seq(1..n)
        /\ NewWire(g).value = "?" /\ NewWire(g).input = g
    BY <1>0, NewWireTyped
  <1>2. mid \in Seq(WireRecord) /\ Len(mid) = Len(ws)
    BY DEF SameWires, WiresTyped
  <1>3. \A w \in 1..Len(mid) : Append(mid, NewWire(g))[w] = mid[w]
    BY <1>2
  <1>4. /\ Append(mid, NewWire(g))[Len(mid) + 1] = NewWire(g)
        /\ Len(Append(mid, NewWire(g))) = Len(mid) + 1
        /\ Append(mid, NewWire(g)) \in Seq(WireRecord)
    <2>1. mid \in Seq(WireRecord) /\ NewWire(g) \in WireRecord
      BY <1>1, <1>2
    <2> QED
      BY ONLY <2>1, Appended
  <1> QED
    BY <1>1, <1>2, <1>3, <1>4, SMTT(40) DEF SameWires, WiresTyped, WireAdded, WiresGrown

GateAdded(ws, gs, ms, op, a, b, ws2, gs2, ms2) ==
    /\ op \in AllOps /\ a \in 1..Len(ws)
    /\ op = "INV" => b = Nil
    /\ op # "INV" => b \in 1..Len(ws)
    /\ ws2 = Connect(ws, op, a, b, Len(gs) + 1)
    /\ gs2 = Append(gs, NewGate(op, a, b, Len(ws) + 1))
    /\ ms2 = Append(ms, Apply(op, ms[a], Second(ms, b)))

Grown(ws, gs, ms, ws2, gs2, ms2) ==
    /\ Len(ws2) = Len(ws) + 1 /\ Len(gs2) = Len(gs) + 1
    /\ \A w \in 1..Len(ws) : ms2[w] = ms[w]

\* A gate that drives a new wire of its meaning keeps a netlist sound.
LEMMA GateMore ==
  ASSUME NEW ws, NEW gs, NEW ms, Sound(ws, gs, ms),
         NEW op, NEW a, NEW b,
         NEW ws2, NEW gs2, NEW ms2, GateAdded(ws, gs, ms, op, a, b, ws2, gs2, ms2)
  PROVE  /\ Sound(ws2, gs2, ms2)
         /\ Grown(ws, gs, ms, ws2, gs2, ms2)
         /\ ms2[Len(ws) + 1] = Apply(op, ms[a], Second(ms, b))
  <1> DEFINE g == Len(gs) + 1
             o == Len(ws) + 1
             new == NewGate(op, a, b, o)
             val == Apply(op, ms[a], Second(ms, b))
  <1>0. /\ ws \in Seq(WireRecord) /\ Len(ws) \in Nat
        /\ gs \in Seq(GateRecord) /\ Len(gs) \in Nat
        /\ ms \in Seq(Meanings) /\ Len(ms) = Len(ws)
    BY DEF Sound, WiresTyped, GatesTyped, MeaningsTyped
  <1>a. /\ op \in AllOps /\ a \in 1..Len(ws)
        /\ op = "INV" => b = Nil
        /\ op # "INV" => b \in 1..Len(ws)
    BY DEF GateAdded
  <1>1. Second(ms, b) = IF op = "INV" THEN {} ELSE ms[b]
    BY <1>a DEF Second, Nil
  <1>2. ws2 = Connect(ws, op, a, b, g) /\ gs2 = Append(gs, new) /\ ms2 = Append(ms, val)
    BY DEF GateAdded
  <1> HIDE DEF new, val
  <1>3. PICK mid : SameWires(ws, mid, g) /\ ws2 = Append(mid, NewWire(g))
    <2>1. \E mid : /\ SameWires(ws, mid, Len(gs) + 1)
                   /\ Connect(ws, op, a, b, Len(gs) + 1)
                        = Append(mid, NewWire(Len(gs) + 1))
      BY <1>0, <1>a, ConnectSame, ZenonT(40) DEF Sound
    <2> QED
      BY <1>2, <2>1
  <1>4. WiresTyped(ws, g) /\ g \in Nat
    BY <1>0, MoreGates DEF Sound
  <1>5. /\ WiresTyped(ws2, g) /\ Len(ws2) = o
        /\ \A w \in 1..Len(ws) :
             ws2[w].value = ws[w].value /\ ws2[w].input = ws[w].input
        /\ ws2[o].value = "?" /\ ws2[o].input = g
    <2>1. WireAdded(g, mid, g, ws2)
      BY <1>0, <1>3 DEF WireAdded
    <2>2. WiresGrown(g, ws, g, ws2)
      BY <1>3, <2>1, OneWireMore
    <2> QED
      BY <2>2 DEF WiresGrown
  <1>6. /\ new \in GateRecord
        /\ new.op = op /\ new.A = a /\ new.B = b /\ new.O = o
    BY <1>0, <1>a DEF new, NewGate, GateRecord, AllOps, Nil
  <1>7. val \in Meanings
    <2>1. ms[a] \in Meanings /\ Second(ms, b) \in Meanings
      BY <1>0, <1>1, <1>a DEF Meanings
    <2> QED
      BY <2>1, <1>a, ApplyTyped DEF val
  <1>8. /\ gs2 \in Seq(GateRecord) /\ Len(gs2) = g /\ gs2[g] = new
        /\ \A h \in 1..Len(gs) : gs2[h] = gs[h]
    <2>1. /\ Append(gs, new) \in Seq(GateRecord) /\ Len(Append(gs, new)) = g
          /\ Append(gs, new)[g] = new
          /\ \A h \in 1..Len(gs) : Append(gs, new)[h] = gs[h]
      BY <1>0, <1>6, Appended
    <2> QED
      BY <1>2, <2>1
  <1>9. /\ ms2 \in Seq(Meanings) /\ Len(ms2) = o
        /\ ms2[o] = val
        /\ \A w \in 1..Len(ws) : ms2[w] = ms[w]
    <2>1. /\ Append(ms, val) \in Seq(Meanings)
          /\ Len(Append(ms, val)) = Len(ms) + 1
          /\ Append(ms, val)[Len(ms) + 1] = val
          /\ \A w \in 1..Len(ms) : Append(ms, val)[w] = ms[w]
      <3>1. ms \in Seq(Meanings) /\ val \in Meanings
        BY <1>0, <1>7
      <3> QED
        BY ONLY <3>1, Appended
    <2> QED
      BY <1>0, <1>2, <2>1
  <1>10. GatesTyped(gs2, o)
    <2> SUFFICES ASSUME NEW h \in 1..g
                 PROVE  /\ gs2[h].A \in 1..o /\ gs2[h].O \in 1..o
                        /\ gs2[h].op = "INV" => gs2[h].B = Nil
                        /\ gs2[h].op # "INV" => gs2[h].B \in 1..o
      BY <1>8 DEF GatesTyped
    <2>1. CASE h = g
      BY <2>1, <1>0, <1>6, <1>8, <1>a
    <2>2. CASE h # g
      <3>1. h \in 1..Len(gs) /\ gs2[h] = gs[h]
        BY <2>2, <1>0, <1>8
      <3>2. /\ gs[h].A \in 1..Len(ws) /\ gs[h].O \in 1..Len(ws)
            /\ gs[h].op = "INV" => gs[h].B = Nil
            /\ gs[h].op # "INV" => gs[h].B \in 1..Len(ws)
        BY <3>1 DEF Sound, GatesTyped
      <3> QED
        BY <3>1, <3>2, <1>0
    <2> QED
      BY <2>1, <2>2
  <1>11. GatesMean(gs2, ms2)
    <2> SUFFICES ASSUME NEW h \in 1..g
                 PROVE  ms2[gs2[h].O]
                          = Apply(gs2[h].op, ms2[gs2[h].A],
                                  Second(ms2, gs2[h].B))
      BY <1>8 DEF GatesMean
    <2>1. CASE h = g
      <3>1. ms2[a] = ms[a] /\ Second(ms2, b) = Second(ms, b)
        BY <1>9, <1>a DEF Second, Nil
      <3> QED
        BY <2>1, <3>1, <1>6, <1>8, <1>9 DEF val
    <2>2. CASE h # g
      <3>1. h \in 1..Len(gs) /\ gs2[h] = gs[h]
        BY <2>2, <1>0, <1>8
      <3>2. /\ gs[h].A \in 1..Len(ws) /\ gs[h].O \in 1..Len(ws)
            /\ gs[h].B = Nil \/ gs[h].B \in 1..Len(ws)
        BY <3>1 DEF Sound, GatesTyped
      <3>3. /\ ms2[gs[h].A] = ms[gs[h].A] /\ ms2[gs[h].O] = ms[gs[h].O]
            /\ Second(ms2, gs[h].B) = Second(ms, gs[h].B)
        BY <3>2, <1>9 DEF Second
      <3>4. ms[gs[h].O] = Apply(gs[h].op, ms[gs[h].A], Second(ms, gs[h].B))
        BY <3>1 DEF Sound, GatesMean
      <3> QED
        BY <3>1, <3>3, <3>4
    <2> QED
      BY <2>1, <2>2
  <1>12. WiresMean(ws2, gs2, ms2)
    <2> SUFFICES ASSUME NEW w \in 1..o
                 PROVE  /\ ws2[w].value = "0" => ms2[w] = {}
                        /\ ws2[w].value = "1" => ms2[w] = Assignments
                        /\ ws2[w].input # Nil =>
                             ms2[gs2[ws2[w].input].O] = ms2[w]
      BY <1>5 DEF WiresMean
    <2>1. CASE w = o
      <3>1. ws2[w].value = "?" /\ ws2[w].input = g
        BY <2>1, <1>5
      <3>2. gs2[g].O = w
        BY <2>1, <1>6, <1>8
      <3> HIDE DEF g
      <3> QED
        BY <3>1, <3>2
    <2>2. CASE w # o
      <3>0. w \in 1..Len(ws)
        BY <2>2, <1>0
      <3>1. w \in 1..Len(ws) /\ ws2[w].value = ws[w].value /\ ws2[w].input = ws[w].input
        BY <3>0, <1>5
      <3>2. ASSUME ws[w].input # Nil
            PROVE  ms2[gs2[ws[w].input].O] = ms2[w]
        <4>1. ws[w].input \in 1..Len(gs)
          BY <3>1, <3>2 DEF Sound, WiresTyped, Nil
        <4>2. gs2[ws[w].input] = gs[ws[w].input] /\ gs[ws[w].input].O \in 1..Len(ws)
          BY <4>1, <1>8 DEF Sound, GatesTyped
        <4>3. ms[gs[ws[w].input].O] = ms[w]
          BY <3>1, <3>2 DEF Sound, WiresMean
        <4> QED
          BY <3>1, <4>2, <4>3, <1>9
      <3> QED
        BY <3>1, <3>2, <1>9 DEF Sound, WiresMean
    <2> QED
      BY <2>1, <2>2
  <1>13. Sound(ws2, gs2, ms2)
    BY <1>5, <1>8, <1>9, <1>10, <1>11, <1>12 DEF Sound, MeaningsTyped
  <1> QED
    BY <1>5, <1>8, <1>9, <1>13 DEF val, Grown

\* What Extend makes of a sound netlist is sound.
LEMMA Extended ==
  ASSUME NEW m, NEW op \in AllOps, NEW a \in 1..Len(m.wire), NEW b,
         op = "INV" => b = Nil, op # "INV" => b \in 1..Len(m.wire),
         NEW n, n = Extend(m, op, a, b)
  PROVE  GateAdded(m.wire, m.gate, m.meaning, op, a, b, n.wire, n.gate, n.meaning)
  <1> DEFINE x == Connect(m.wire, op, a, b, Len(m.gate) + 1)
             y == Append(m.gate, NewGate(op, a, b, Len(m.wire) + 1))
             c == IF op = "INV" THEN {} ELSE m.meaning[b]
             z == Append(m.meaning, Apply(op, m.meaning[a], c))
  <1>1. n = [wire |-> x, gate |-> y, meaning |-> z]
    BY Zenon DEF Extend
  <1>2. c = Second(m.meaning, b)
    BY DEF Second, Nil
  <1>3. z = Append(m.meaning, Apply(op, m.meaning[a], Second(m.meaning, b)))
    BY <1>2, Zenon
  <1> HIDE DEF x, y, z
  <1>4. n.wire = x /\ n.gate = y /\ n.meaning = z
    BY <1>1
  <1> QED
    BY <1>3, <1>4, Zenon DEF x, y, GateAdded

(***************************************************************************)
(* A wire gets a value                                                     *)
(***************************************************************************)
ValueSet(ws, w, v, ws2) == ws2 = [ws EXCEPT ![w].value = v]

\* A wire may be marked constant when it means so.
LEMMA SetValueSound ==
  ASSUME NEW ws, NEW gs, NEW ms, Sound(ws, gs, ms), NEW w \in 1..Len(ws),
         NEW v \in {"?", "0", "1"}, v = "0" => ms[w] = {}, v = "1" => ms[w] = Assignments,
         NEW ws2, ValueSet(ws, w, v, ws2)
  PROVE  Sound(ws2, gs, ms) /\ Len(ws2) = Len(ws)
  <1> DEFINE new == [ws[w] EXCEPT !.value = v]
  <1>0. ws2 = [ws EXCEPT ![w] = new]
    BY Zenon DEF ValueSet
  <1>1. ws \in Seq(WireRecord) /\ ws[w] \in WireRecord
    BY DEF Sound, WiresTyped
  <1>2. /\ new \in WireRecord /\ new.value = v /\ new.input = ws[w].input
        /\ new.readers = ws[w].readers
    BY <1>1 DEF WireRecord
  <1> HIDE DEF new
  <1>3. /\ ws2 \in Seq(WireRecord) /\ Len(ws2) = Len(ws) /\ ws2[w] = new
        /\ \A u \in 1..Len(ws) : u # w => ws2[u] = ws[u]
    BY <1>0, <1>1, <1>2
  <1>4. WiresTyped(ws2, Len(gs))
    BY <1>2, <1>3 DEF Sound, WiresTyped
  <1>5. WiresMean(ws2, gs, ms)
    <2> SUFFICES ASSUME NEW u \in 1..Len(ws)
                 PROVE  /\ ws2[u].value = "0" => ms[u] = {}
                        /\ ws2[u].value = "1" => ms[u] = Assignments
                        /\ ws2[u].input # Nil => ms[gs[ws2[u].input].O] = ms[u]
      BY <1>3 DEF WiresMean
    <2>1. /\ ws[u].value = "0" => ms[u] = {}
          /\ ws[u].value = "1" => ms[u] = Assignments
          /\ ws[u].input # Nil => ms[gs[ws[u].input].O] = ms[u]
      BY DEF Sound, WiresMean
    <2>2. ws2[u].input = ws[u].input
      BY <1>2, <1>3
    <2>3. ws2[u].value = IF u = w THEN v ELSE ws[u].value
      BY <1>2, <1>3
    <2> QED
      BY <2>1, <2>2, <2>3
  <1>6. Sound(ws2, gs, ms)
    BY <1>3, <1>4, <1>5 DEF Sound
  <1> QED
    BY <1>3, <1>6

(***************************************************************************)
(* The initial state                                                       *)
(***************************************************************************)
\* The input wires alone are a sound netlist.
LEMMA InputsSound ==
  ASSUME NEW ws, ws = [w \in 1..NumInputs |-> NewWire(Nil)],
         NEW gs, gs = <<>>,
         NEW ms, ms = [w \in 1..NumInputs |-> {a \in Assignments : w \in a}]
  PROVE  Sound(ws, gs, ms) /\ Len(ws) = NumInputs /\ ms[1] \in Meanings
  <1>1. /\ NewWire(Nil) \in WireRecord /\ NewWire(Nil).readers \in Seq(1..0)
        /\ NewWire(Nil).value = "?" /\ NewWire(Nil).input = Nil
    BY NewWireTyped DEF Nil
  <1>2. NumInputs \in Nat /\ 1 \in 1..NumInputs
    BY NetlistAssumption
  <1>3. /\ ws \in Seq(WireRecord) /\ Len(ws) = NumInputs
        /\ \A w \in 1..NumInputs : ws[w] = NewWire(Nil)
    BY <1>1, <1>2
  <1>4. /\ ms \in Seq(Meanings) /\ Len(ms) = NumInputs /\ ms[1] \in Meanings
    <2>1. \A w \in 1..NumInputs : {a \in Assignments : w \in a} \in Meanings
      BY DEF Meanings
    <2> QED
      BY <1>2, <2>1
  <1>5. gs \in Seq(GateRecord) /\ Len(gs) = 0
    OBVIOUS
  <1>6. WiresTyped(ws, 0)
    <2> SUFFICES ASSUME NEW w \in 1..NumInputs
                 PROVE  ws[w].input \in 0..0 /\ ws[w].readers \in Seq(1..0)
      BY <1>3, Zenon DEF WiresTyped
    <2>1. ws[w] = NewWire(Nil)
      BY <1>3
    <2> QED
      BY <1>1, <2>1 DEF Nil
  <1>7. GatesTyped(gs, NumInputs) /\ GatesMean(gs, ms)
    BY <1>5 DEF GatesTyped, GatesMean
  <1>8. WiresMean(ws, gs, ms)
    <2> SUFFICES ASSUME NEW w \in 1..NumInputs
                 PROVE  ws[w].value = "?" /\ ws[w].input = Nil
      BY <1>3 DEF WiresMean
    <2> QED
      BY <1>1, <1>3
  <1> QED
    BY <1>3, <1>4, <1>5, <1>6, <1>7, <1>8 DEF Sound, MeaningsTyped

\* InvI0Wire is the other operand of the gates of ZeroWire and OneWire.
LEMMA ConstantsHold ==
  ASSUME NEW ws, NEW gs, NEW ms, Sound(ws, gs, ms),
         Len(ws) = NumInputs, Len(gs) = 0, ms[1] \in Meanings,
         NEW ws1, NEW gs1, NEW ms1,
         GateAdded(ws, gs, ms, "INV", 1, Nil, ws1, gs1, ms1),
         NEW ws2, NEW gs2, NEW ms2,
         GateAdded(ws1, gs1, ms1, "AND", 1, InvI0Wire, ws2, gs2, ms2),
         NEW ws3, NEW gs3, NEW ms3,
         GateAdded(ws2, gs2, ms2, "OR", 1, InvI0Wire, ws3, gs3, ms3)
  PROVE  /\ Sound(ws3, gs3, ms3)
         /\ Len(ws3) = NumInputs + 3 /\ Len(gs3) = 3
         /\ ms3[ZeroWire] = {} /\ ms3[OneWire] = Assignments
  <1> DEFINE m1 == ms[1]
             mi == Apply("INV", m1, {})
  <1>1. /\ NumInputs \in Nat /\ 1 <= NumInputs
        /\ InvI0Wire = NumInputs + 1 /\ ZeroWire = NumInputs + 2 /\ OneWire = NumInputs + 3
        /\ InvI0Wire # Nil
    BY NetlistAssumption DEF InvI0Wire, ZeroWire, OneWire, Nil
  <1>3. /\ Sound(ws1, gs1, ms1) /\ Len(ws1) = NumInputs + 1 /\ Len(gs1) = 1
        /\ ms1[1] = m1 /\ ms1[InvI0Wire] = mi
    <2>1. Second(ms, Nil) = {}
      BY DEF Second
    <2>2. 1 \in 1..Len(ws)
      BY <1>1
    <2>3. Sound(ws1, gs1, ms1)
      BY GateMore
    <2>4. Grown(ws, gs, ms, ws1, gs1, ms1)
      BY GateMore
    <2>5. /\ Len(ws1) = Len(ws) + 1 /\ Len(gs1) = Len(gs) + 1
          /\ \A w \in 1..Len(ws) : ms1[w] = ms[w]
      BY <2>4 DEF Grown
    <2>6. ms1[Len(ws) + 1] = Apply("INV", ms[1], Second(ms, Nil))
      BY GateMore
    <2> QED
      BY <1>1, <2>1, <2>2, <2>3, <2>5, <2>6
  <1> HIDE DEF m1, mi
  <1>4. /\ Sound(ws2, gs2, ms2) /\ Len(ws2) = NumInputs + 2 /\ Len(gs2) = 2
        /\ ms2[1] = m1 /\ ms2[InvI0Wire] = mi
        /\ ms2[ZeroWire] = Apply("AND", m1, mi)
    <2>1. Second(ms1, InvI0Wire) = mi
      BY <1>1, <1>3 DEF Second
    <2>2. 1 \in 1..Len(ws1) /\ InvI0Wire \in 1..Len(ws1)
      BY <1>1, <1>3
    <2>3. Sound(ws2, gs2, ms2)
      BY <1>3, GateMore
    <2>4. Grown(ws1, gs1, ms1, ws2, gs2, ms2)
      BY <1>3, GateMore
    <2>5. /\ Len(ws2) = Len(ws1) + 1 /\ Len(gs2) = Len(gs1) + 1
          /\ \A w \in 1..Len(ws1) : ms2[w] = ms1[w]
      BY <2>4 DEF Grown
    <2>6. ms2[Len(ws1) + 1] = Apply("AND", ms1[1], Second(ms1, InvI0Wire))
      BY <1>3, GateMore
    <2> QED
      BY <1>1, <1>3, <2>1, <2>2, <2>3, <2>5, <2>6
  <1>5. /\ Sound(ws3, gs3, ms3) /\ Len(ws3) = NumInputs + 3 /\ Len(gs3) = 3
        /\ ms3[ZeroWire] = Apply("AND", m1, mi)
        /\ ms3[OneWire] = Apply("OR", m1, mi)
    <2>1. Second(ms2, InvI0Wire) = mi
      BY <1>1, <1>4 DEF Second
    <2>2. /\ 1 \in 1..Len(ws2) /\ InvI0Wire \in 1..Len(ws2)
          /\ ZeroWire \in 1..Len(ws2)
      BY <1>1, <1>4
    <2>3. Sound(ws3, gs3, ms3)
      BY <1>4, GateMore
    <2>4. Grown(ws2, gs2, ms2, ws3, gs3, ms3)
      BY <1>4, GateMore
    <2>5. /\ Len(ws3) = Len(ws2) + 1 /\ Len(gs3) = Len(gs2) + 1
          /\ \A w \in 1..Len(ws2) : ms3[w] = ms2[w]
      BY <2>4 DEF Grown
    <2>6. ms3[Len(ws2) + 1] = Apply("OR", ms2[1], Second(ms2, InvI0Wire))
      BY <1>4, GateMore
    <2> QED
      BY <1>1, <1>4, <2>1, <2>2, <2>3, <2>5, <2>6
  <1>6. Apply("AND", m1, mi) = {} /\ Apply("OR", m1, mi) = Assignments
    <2>1. mi = Assignments \ m1
      BY Zenon DEF mi, Apply
    <2>2. m1 \subseteq Assignments
      BY DEF m1, Meanings
    <2>3. Apply("AND", m1, mi) = m1 \cap mi /\ Apply("OR", m1, mi) = m1 \cup mi
      BY DEF Apply
    <2> QED
      BY <2>1, <2>2, <2>3
  <1> QED
    BY <1>5, <1>6

\* Marking the two constant wires is right.
LEMMA ConstantsMarked ==
  /\ Sound(Constants.wire, Constants.gate, Constants.meaning)
  /\ ConstantsSound(Constants.wire, Constants.meaning)
  /\ Len(Constants.gate) = 3
  <1> DEFINE ws0 == [w \in 1..NumInputs |-> NewWire(Nil)]
             ms0 == [w \in 1..NumInputs |-> {s \in Assignments : w \in s}]
             n0 == [wire |-> ws0, gate |-> <<>>, meaning |-> ms0]
             n1 == Extend(n0, "INV", 1, Nil)
             n2 == Extend(n1, "AND", 1, InvI0Wire)
             n3 == Extend(n2, "OR", 1, InvI0Wire)
             n4 == [n3 EXCEPT !.wire[ZeroWire].value = "0", !.wire[OneWire].value = "1"]
             wz == [n3.wire EXCEPT ![ZeroWire].value = "0"]
             wo == [wz EXCEPT ![OneWire].value = "1"]
  <1>0. Constants = n4
    BY Zenon DEF Constants
  <1>1. /\ Sound(ws0, <<>>, ms0) /\ Len(ws0) = NumInputs /\ ms0[1] \in Meanings
    BY InputsSound
  <1> HIDE DEF ws0, ms0
  <1>2. n0.wire = ws0 /\ n0.gate = <<>> /\ n0.meaning = ms0
    OBVIOUS
  <1> HIDE DEF n0
  <1>3. /\ NumInputs \in Nat /\ 1 <= NumInputs /\ InvI0Wire = NumInputs + 1
        /\ "INV" \in AllOps /\ "AND" \in AllOps /\ "OR" \in AllOps
    BY NetlistAssumption DEF InvI0Wire, AllOps
  <1>4. /\ GateAdded(ws0, <<>>, ms0, "INV", 1, Nil, n1.wire, n1.gate, n1.meaning)
        /\ GateAdded(n1.wire, n1.gate, n1.meaning, "AND", 1, InvI0Wire,
                     n2.wire, n2.gate, n2.meaning)
        /\ GateAdded(n2.wire, n2.gate, n2.meaning, "OR", 1, InvI0Wire,
                     n3.wire, n3.gate, n3.meaning)
    <2>1. 1 \in 1..Len(n0.wire)
      BY <1>1, <1>2, <1>3
    <2>2. GateAdded(n0.wire, n0.gate, n0.meaning, "INV", 1, Nil,
                    n1.wire, n1.gate, n1.meaning)
      BY <1>3, <2>1, Extended
    <2>3. GateAdded(ws0, <<>>, ms0, "INV", 1, Nil, n1.wire, n1.gate, n1.meaning)
      <3> HIDE DEF n1
      <3> QED
        BY <1>2, <2>2, Zenon
    <2>4. GateAdded(n1.wire, n1.gate, n1.meaning, "AND", 1, InvI0Wire,
                    n2.wire, n2.gate, n2.meaning)
      <3> HIDE DEF n1
      <3>1. Len(n1.wire) = NumInputs + 1
        BY <1>1, <2>3, GateMore DEF Grown
      <3>2. 1 \in 1..Len(n1.wire) /\ InvI0Wire \in 1..Len(n1.wire)
        BY <1>3, <3>1
      <3> QED
        BY <1>3, <3>2, Extended
    <2>5. GateAdded(n2.wire, n2.gate, n2.meaning, "OR", 1, InvI0Wire,
                    n3.wire, n3.gate, n3.meaning)
      <3> HIDE DEF n1
      <3>1. Sound(n1.wire, n1.gate, n1.meaning) /\ Len(n1.wire) = NumInputs + 1
        BY <1>1, <2>3, GateMore DEF Grown
      <3> HIDE DEF n2
      <3>2. Len(n2.wire) = NumInputs + 2
        <4>1. Len(n2.wire) = Len(n1.wire) + 1
          BY <2>4, <3>1, GateMore DEF Grown
        <4> QED
          BY <1>3, <3>1, <4>1
      <3>3. 1 \in 1..Len(n2.wire) /\ InvI0Wire \in 1..Len(n2.wire)
        BY <1>3, <3>2
      <3> QED
        BY <1>3, <3>3, Extended
    <2> QED
      BY <2>3, <2>4, <2>5
  <1>5. \E x, y, z : n3 = [wire |-> x, gate |-> y, meaning |-> z]
    BY ZenonT(40) DEF Extend
  <1> HIDE DEF n1, n2, n3
  <1>6. /\ Sound(n3.wire, n3.gate, n3.meaning)
        /\ Len(n3.wire) = NumInputs + 3 /\ Len(n3.gate) = 3
        /\ n3.meaning[ZeroWire] = {} /\ n3.meaning[OneWire] = Assignments
    <2>1. Len(<<>>) = 0
      OBVIOUS
    <2> QED
      BY <1>1, <1>4, <2>1, ConstantsHold
  <1>7. n4.wire = wo /\ n4.gate = n3.gate /\ n4.meaning = n3.meaning
    <2>1. PICK x, y, z : n3 = [wire |-> x, gate |-> y, meaning |-> z]
      BY <1>5
    <2> QED
      BY <2>1
  <1> HIDE DEF n4
  <1>8. /\ NumInputs \in Nat
        /\ ZeroWire \in 1..(NumInputs + 3) /\ OneWire \in 1..(NumInputs + 3)
    BY NetlistAssumption DEF ZeroWire, OneWire
  <1>9. ValueSet(n3.wire, ZeroWire, "0", wz) /\ ValueSet(wz, OneWire, "1", wo)
    BY Zenon DEF ValueSet
  <1> HIDE DEF wz, wo
  <1>10. Sound(wz, n3.gate, n3.meaning) /\ Len(wz) = NumInputs + 3
    BY <1>6, <1>8, <1>9, SetValueSound
  <1>11. Sound(wo, n3.gate, n3.meaning) /\ Len(wo) = NumInputs + 3
    BY <1>6, <1>8, <1>9, <1>10, SetValueSound
  <1> QED
    BY <1>0, <1>6, <1>7, <1>8, <1>11 DEF ConstantsSound

\* The invariant holds initially.
LEMMA InitInvariant == Init => NInv
  <1> SUFFICES ASSUME Init PROVE NInv
    OBVIOUS
  <1>1. Sound(wire, gate, meaning) /\ ConstantsSound(wire, meaning) /\ Len(gate) = 3
    BY ConstantsMarked DEF Init
  <1>2. LoopsTyped
    BY <1>1, NetlistAssumption DEF Init, LoopsTyped, Sound, WiresTyped, Nil
  <1>3. LoopsSound
    BY DEF Init, LoopsSound
  <1> QED
    BY <1>1, <1>2, <1>3 DEF NInv

(***************************************************************************)
(* What the invariant says of the gate a loop is at                        *)
(***************************************************************************)
\* What the invariant says, part by part.
LEMMA NetlistFacts ==
  ASSUME NInv
  PROVE  /\ Len(wire) \in Nat /\ Len(gate) \in Nat
         /\ \A w \in 1..Len(wire) : /\ wire[w] \in WireRecord
                                    /\ wire[w].readers \in Seq(1..Len(gate))
                                    /\ meaning[w] \in Meanings
         /\ \A g \in 1..Len(gate) : gate[g] \in GateRecord
  <1>1. /\ wire \in Seq(WireRecord) /\ gate \in Seq(GateRecord)
        /\ meaning \in Seq(Meanings) /\ Len(meaning) = Len(wire)
        /\ \A w \in 1..Len(wire) : wire[w].readers \in Seq(1..Len(gate))
    BY DEF NInv, Sound, WiresTyped, GatesTyped, MeaningsTyped
  <1>2. Len(wire) \in Nat /\ Len(gate) \in Nat
    BY <1>1
  <1>3. \A w \in 1..Len(wire) : wire[w] \in WireRecord /\ meaning[w] \in Meanings
    BY <1>1
  <1>4. \A g \in 1..Len(gate) : gate[g] \in GateRecord
    BY <1>1
  <1> QED
    BY <1>1, <1>2, <1>3, <1>4

\* What the invariant says of one gate.
LEMMA GateFacts ==
  ASSUME NInv, NEW g \in 1..Len(gate)
  PROVE  /\ gate[g].op \in AllOps
         /\ gate[g].A \in 1..Len(wire) /\ gate[g].O \in 1..Len(wire)
         /\ gate[g].op = "INV" => gate[g].B = Nil
         /\ gate[g].op # "INV" => gate[g].B \in 1..Len(wire)
         /\ meaning[gate[g].O]
              = Apply(gate[g].op, meaning[gate[g].A], Second(meaning, gate[g].B))
  <1>1. gate[g].op \in AllOps
    BY NetlistFacts DEF GateRecord, AllOps
  <1>2. /\ gate[g].A \in 1..Len(wire) /\ gate[g].O \in 1..Len(wire)
        /\ gate[g].op = "INV" => gate[g].B = Nil
        /\ gate[g].op # "INV" => gate[g].B \in 1..Len(wire)
    BY DEF NInv, Sound, GatesTyped
  <1>3. meaning[gate[g].O]
          = Apply(gate[g].op, meaning[gate[g].A], Second(meaning, gate[g].B))
    BY DEF NInv, Sound, GatesMean
  <1> QED
    BY <1>1, <1>2, <1>3

\* The gate a loop is at is a gate.
LEMMA InLoopGate ==
  ASSUME NInv, InLoop
  PROVE  G \in 1..Len(gate)
  BY DEF NInv, LoopsTyped, InLoop, G

\* What the invariant says of one wire.
LEMMA WireFacts ==
  ASSUME NInv, NEW w \in 1..Len(wire)
  PROVE  /\ wire[w].value \in {"?", "0", "1"} /\ meaning[w] \in Meanings
         /\ wire[w].value = "0" => meaning[w] = {}
         /\ wire[w].value = "1" => meaning[w] = Assignments
         /\ wire[w].input # Nil =>
              /\ wire[w].input \in 1..Len(gate)
              /\ meaning[gate[wire[w].input].O] = meaning[w]
  <1>1. wire[w].value \in {"?", "0", "1"} /\ meaning[w] \in Meanings
    BY NetlistFacts DEF WireRecord
  <1>2. /\ wire[w].value = "0" => meaning[w] = {}
        /\ wire[w].value = "1" => meaning[w] = Assignments
        /\ wire[w].input # Nil => meaning[gate[wire[w].input].O] = meaning[w]
    BY DEF NInv, Sound, WiresMean
  <1>3. wire[w].input # Nil => wire[w].input \in 1..Len(gate)
    BY DEF NInv, Sound, WiresTyped, Nil
  <1> QED
    BY <1>1, <1>2, <1>3

\* What a wire known to be v may mean.
Fits(v, m) ==
    /\ v \in {"?", "0", "1"} /\ m \in Meanings
    /\ v = "0" => m = {}
    /\ v = "1" => m = Assignments

\* The function of each operation.
LEMMA ApplyIs ==
  ASSUME NEW a, NEW b
  PROVE  /\ Apply("XOR", a, b) = (a \ b) \cup (b \ a)
         /\ Apply("XNOR", a, b) = Assignments \ ((a \ b) \cup (b \ a))
         /\ Apply("AND", a, b) = a \cap b
         /\ Apply("OR", a, b) = a \cup b
         /\ Apply("INV", a, b) = Assignments \ a
  BY DEF Apply

\* Meanings are sets of inputs.
LEMMA MeaningSubset ==
  ASSUME NEW m \in Meanings
  PROVE  m \subseteq Assignments
  BY DEF Meanings

\* Operations on constants.
LEMMA ApplyConstant ==
  ASSUME NEW m \in Meanings
  PROVE  /\ Apply("XOR", {}, m) = m /\ Apply("XOR", m, {}) = m
         /\ Apply("XOR", m, m) = {} /\ Apply("XNOR", m, m) = Assignments
         /\ Apply("AND", {}, m) = {} /\ Apply("AND", m, {}) = {}
         /\ Apply("AND", Assignments, m) = m /\ Apply("AND", m, Assignments) = m
         /\ Apply("OR", Assignments, m) = Assignments
         /\ Apply("OR", m, Assignments) = Assignments
         /\ Apply("OR", {}, m) = m /\ Apply("OR", m, {}) = m
         /\ Apply("XNOR", {}, Assignments) = {} /\ Apply("XNOR", Assignments, {}) = {}
         /\ Apply("INV", {}, {}) = Assignments /\ Apply("INV", Assignments, {}) = {}
  <1>1. m \subseteq Assignments
    BY MeaningSubset
  <1>2. /\ Apply("XOR", {}, m) = m /\ Apply("XOR", m, {}) = m
        /\ Apply("XOR", m, m) = {}
    <2>1. ({} \ m) \cup (m \ {}) = m
      OBVIOUS
    <2>2. (m \ {}) \cup ({} \ m) = m
      OBVIOUS
    <2>3. (m \ m) \cup (m \ m) = {}
      OBVIOUS
    <2> QED
      BY <2>1, <2>2, <2>3, ApplyIs, Zenon
  <1>3. /\ Apply("XNOR", m, m) = Assignments /\ Apply("XNOR", {}, Assignments) = {}
        /\ Apply("XNOR", Assignments, {}) = {}
    <2>1. Assignments \ ((m \ m) \cup (m \ m)) = Assignments
      OBVIOUS
    <2>2. Assignments \ (({} \ Assignments) \cup (Assignments \ {})) = {}
      OBVIOUS
    <2>3. Assignments \ ((Assignments \ {}) \cup ({} \ Assignments)) = {}
      OBVIOUS
    <2> QED
      BY <2>1, <2>2, <2>3, ApplyIs, Zenon
  <1>4. /\ Apply("AND", {}, m) = {} /\ Apply("AND", m, {}) = {}
        /\ Apply("AND", Assignments, m) = m /\ Apply("AND", m, Assignments) = m
    <2>1. {} \cap m = {} /\ m \cap {} = {}
      OBVIOUS
    <2>2. Assignments \cap m = m /\ m \cap Assignments = m
      BY <1>1
    <2> QED
      BY <2>1, <2>2, ApplyIs, ZenonT(40)
  <1>5. /\ Apply("OR", Assignments, m) = Assignments
        /\ Apply("OR", m, Assignments) = Assignments
        /\ Apply("OR", {}, m) = m /\ Apply("OR", m, {}) = m
    <2>1. {} \cup m = m /\ m \cup {} = m
      OBVIOUS
    <2>2. Assignments \cup m = Assignments /\ m \cup Assignments = Assignments
      BY <1>1
    <2> QED
      BY <2>1, <2>2, ApplyIs, ZenonT(40)
  <1>6. Apply("INV", {}, {}) = Assignments /\ Apply("INV", Assignments, {}) = {}
    BY ApplyIs, SMTT(40)
  <1> QED
    BY <1>2, <1>3, <1>4, <1>5, <1>6

\* What Known says of an output is so.
LEMMA KnownFits ==
  ASSUME NEW op \in {"XOR", "XNOR", "AND", "OR"}, NEW va, NEW vb,
         NEW ma, NEW mb, Fits(va, ma), Fits(vb, mb)
  PROVE  Fits(Known(op, va, vb), Apply(op, ma, mb))
  <1> DEFINE k == Known(op, va, vb)
             m == Apply(op, ma, mb)
  <1>0. /\ va \in {"?", "0", "1"} /\ vb \in {"?", "0", "1"}
        /\ ma \in Meanings /\ mb \in Meanings
        /\ va = "0" => ma = {}
        /\ va = "1" => ma = Assignments
        /\ vb = "0" => mb = {}
        /\ vb = "1" => mb = Assignments
    BY DEF Fits
  <1>1. m \in Meanings
    BY <1>0, ApplyTyped DEF AllOps
  <1>2. {} \in Meanings /\ Assignments \in Meanings
    BY DEF Meanings
  <1>3. CASE op = "XOR"
    <2>1. k = IF va = "?" \/ vb = "?" THEN "?" ELSE IF va = vb THEN "0" ELSE "1"
      BY <1>3, <1>0 DEF Known
    <2>2. CASE va = "?" \/ vb = "?"
      BY <1>1, <2>1, <2>2 DEF Fits
    <2>3. CASE va # "?" /\ vb # "?"
      BY <1>0, <1>1, <1>2, <1>3, <2>1, <2>3, ApplyConstant DEF Fits
    <2> QED
      BY <2>2, <2>3
  <1>4. CASE op = "XNOR"
    <2>1. k = IF va = "?" \/ vb = "?" THEN "?" ELSE IF va = vb THEN "1" ELSE "0"
      BY <1>4, <1>0 DEF Known
    <2>2. CASE va = "?" \/ vb = "?"
      BY <1>1, <2>1, <2>2 DEF Fits
    <2>3. CASE va # "?" /\ vb # "?"
      BY <1>0, <1>1, <1>2, <1>4, <2>1, <2>3, ApplyConstant DEF Fits
    <2> QED
      BY <2>2, <2>3
  <1>5. CASE op = "AND"
    <2>1. k = IF va = "0" \/ vb = "0" THEN "0"
              ELSE IF va = "1" /\ vb = "1" THEN "1" ELSE "?"
      BY <1>5, <1>0 DEF Known
    <2> QED
      BY <1>0, <1>1, <1>2, <1>5, <2>1, ApplyConstant DEF Fits
  <1>6. CASE op = "OR"
    <2>1. k = IF va = "1" \/ vb = "1" THEN "1"
              ELSE IF va = "0" /\ vb = "0" THEN "0" ELSE "?"
      BY <1>6, <1>0 DEF Known
    <2> QED
      BY <1>0, <1>1, <1>2, <1>6, <2>1, ApplyConstant DEF Fits
  <1> QED
    BY <1>3, <1>4, <1>5, <1>6

\* What ConstPropagate learns of the output of a gate is so.
LEMMA FoldedFits ==
  ASSUME NInv, InLoop
  PROVE  Fits(Folded, meaning[gate[G].O])
  <1> DEFINE op == gate[G].op
             a == gate[G].A
             b == gate[G].B
             m == meaning[gate[G].O]
  <1>1. G \in 1..Len(gate)
    BY InLoopGate
  <1>2. /\ op \in AllOps /\ a \in 1..Len(wire)
        /\ op = "INV" => b = Nil
        /\ op # "INV" => b \in 1..Len(wire)
        /\ m = Apply(op, meaning[a], Second(meaning, b))
    BY <1>1, GateFacts
  <1>3. Fits(ValueA, meaning[a])
    BY <1>2, WireFacts DEF Fits, ValueA
  <1>4. CASE op = "INV"
    <2>1. m = Apply("INV", meaning[a], {}) /\ m \in Meanings
      BY <1>1, <1>2, <1>4, WireFacts, GateFacts DEF Second
    <2>2. Folded = IF ValueA = "1" THEN "0" ELSE IF ValueA = "0" THEN "1" ELSE "?"
      BY <1>4 DEF Folded
    <2>3. {} \in Meanings
      BY DEF Meanings
    <2>4. /\ ValueA = "0" => meaning[a] = {}
          /\ ValueA = "1" => meaning[a] = Assignments
      BY <1>3 DEF Fits
    <2>5. Apply("INV", {}, {}) = Assignments /\ Apply("INV", Assignments, {}) = {}
      BY <2>3, ApplyConstant
    <2>6. CASE ValueA = "0"
      BY <2>1, <2>2, <2>4, <2>5, <2>6 DEF Fits
    <2>7. CASE ValueA = "1"
      BY <2>1, <2>2, <2>4, <2>5, <2>7 DEF Fits
    <2>8. CASE ValueA \notin {"0", "1"}
      BY <2>1, <2>2, <2>8 DEF Fits
    <2> QED
      BY <2>6, <2>7, <2>8
  <1>5. CASE op # "INV"
    <2>1. Fits(ValueB, meaning[b])
      BY <1>2, <1>5, WireFacts DEF Fits, ValueB
    <2>2. m = Apply(op, meaning[a], meaning[b])
      BY <1>2, <1>5 DEF Second, Nil
    <2>3. Folded = Known(op, ValueA, ValueB)
      BY <1>5 DEF Folded
    <2>4. op \in {"XOR", "XNOR", "AND", "OR"}
      BY <1>2, <1>5 DEF AllOps
    <2>5. Fits(Known(op, ValueA, ValueB), Apply(op, meaning[a], meaning[b]))
      BY <1>3, <2>1, <2>4, KnownFits
    <2> QED
      BY <2>2, <2>3, <2>5
  <1> QED
    BY <1>4, <1>5

\* A gate that is short-circuited passes the wire on that its readers get.
LEMMA PassedMeans ==
  ASSUME NInv, InLoop, Passed # Nil
  PROVE  Passed \in 1..Len(wire) /\ meaning[Passed] = meaning[gate[G].O]
  <1> DEFINE op == gate[G].op
             a == gate[G].A
             b == gate[G].B
             ma == meaning[a]
             mb == meaning[b]
  <1>1. G \in 1..Len(gate)
    BY InLoopGate
  <1>2. op \in {"XOR", "AND", "OR"}
    BY DEF Passed
  <1>3. /\ a \in 1..Len(wire) /\ b \in 1..Len(wire)
        /\ meaning[gate[G].O] = Apply(op, ma, mb)
    BY <1>1, <1>2, GateFacts DEF Second, Nil
  <1>4. Fits(ValueA, ma) /\ Fits(ValueB, mb)
    BY <1>3, WireFacts DEF Fits, ValueA, ValueB
  <1>5. /\ ma \in Meanings /\ mb \in Meanings
        /\ ValueA = "0" => ma = {}
        /\ ValueA = "1" => ma = Assignments
        /\ ValueB = "0" => mb = {}
        /\ ValueB = "1" => mb = Assignments
    BY <1>4 DEF Fits
  <1>6. \/ Passed = b /\ ValueA = Neutral
        \/ Passed = a /\ ValueB = Neutral
    BY DEF Passed
  <1>7. Neutral = IF op = "AND" THEN "1" ELSE "0"
    BY DEF Neutral
  <1> HIDE DEF ma, mb
  <1>8. /\ ValueA = Neutral => Apply(op, ma, mb) = mb
        /\ ValueB = Neutral => Apply(op, ma, mb) = ma
    <2>1. CASE op = "AND"
      BY <2>1, <1>5, <1>7, ApplyConstant
    <2>2. CASE op = "XOR"
      BY <2>2, <1>5, <1>7, ApplyConstant
    <2>3. CASE op = "OR"
      BY <2>3, <1>5, <1>7, ApplyConstant
    <2> QED
      BY <1>2, <2>1, <2>2, <2>3
  <1> QED
    BY <1>3, <1>6, <1>8 DEF ma, mb

(***************************************************************************)
(* The steps                                                               *)
(***************************************************************************)
\* A sequence over a range is one over a larger range.
LEMMA SeqMore ==
  ASSUME NEW n \in Nat, NEW s \in Seq(1..n)
  PROVE  s \in Seq(1..(n + 1))
  OBVIOUS

\* The netlist after builders added a gate.
LEMMA AddBinarySound ==
  ASSUME NInv, NEW op \in AllOps \ {"INV"}, NEW a \in 1..Len(wire),
         NEW b \in 1..Len(wire), AddBinary(op, a, b)
  PROVE  /\ Sound(wire', gate', meaning') /\ ConstantsSound(wire', meaning')
         /\ Len(wire') = Len(wire) + 1 /\ Len(gate') = Len(gate) + 1
         /\ list' = Append(list, Len(gate) + 1)
  <1> DEFINE m == [wire |-> wire, gate |-> gate, meaning |-> meaning]
             n == Extend(m, op, a, b)
  <1>1. /\ wire' = n.wire /\ gate' = n.gate /\ meaning' = n.meaning
        /\ list' = Append(list, Len(n.gate))
    BY Zenon DEF AddBinary
  <1> HIDE DEF n
  <1>2. m.wire = wire /\ m.gate = gate /\ m.meaning = meaning
    OBVIOUS
  <1> HIDE DEF m
  <1>3. GateAdded(m.wire, m.gate, m.meaning, op, a, b, n.wire, n.gate, n.meaning)
    <2>1. op \in AllOps /\ op # "INV" /\ a \in 1..Len(m.wire) /\ b \in 1..Len(m.wire)
      BY <1>2
    <2>2. n = Extend(m, op, a, b)
      BY DEF n
    <2> QED
      BY <2>1, <2>2, Extended
  <1>4. GateAdded(wire, gate, meaning, op, a, b, wire', gate', meaning')
    BY <1>1, <1>2, <1>3, Zenon
  <1>5. Sound(wire, gate, meaning) /\ ConstantsSound(wire, meaning)
    BY DEF NInv
  <1>6. Sound(wire', gate', meaning')
    BY <1>4, <1>5, GateMore
  <1>7. Grown(wire, gate, meaning, wire', gate', meaning')
    BY <1>4, <1>5, GateMore
  <1>8. /\ Len(wire') = Len(wire) + 1 /\ Len(gate') = Len(gate) + 1
        /\ \A w \in 1..Len(wire) : meaning'[w] = meaning[w]
    BY <1>7 DEF Grown
  <1>9. ConstantsSound(wire', meaning')
    <2>1. ZeroWire \in 1..Len(wire) /\ OneWire \in 1..Len(wire)
      BY <1>5, NetlistFacts, NetlistAssumption DEF ConstantsSound, ZeroWire, OneWire
    <2>2. NumInputs + 3 <= Len(wire')
      BY <1>5, <1>8, NetlistFacts, NetlistAssumption DEF ConstantsSound
    <2> QED
      BY <1>5, <1>8, <2>1, <2>2 DEF ConstantsSound
  <1> QED
    BY <1>1, <1>6, <1>8, <1>9

\* Adding a gate keeps the types of the loops' variables.
LEMMA AddedLoops ==
  ASSUME NInv, Len(wire') = Len(wire) + 1, Len(gate') = Len(gate) + 1,
         list' = Append(list, Len(gate) + 1),
         outputs' \in {outputs, Append(outputs, Len(wire) + 1)},
         UNCHANGED <<todo, kept, pending, assigned, i, target, nextID>>
  PROVE  LoopsTyped'
  <1>1. Len(wire) \in Nat /\ Len(gate) \in Nat
    BY NetlistFacts
  <1>2. /\ list \in Seq(1..Len(gate)) /\ outputs \in Seq(1..Len(wire))
        /\ todo \in Seq(1..Len(gate)) /\ kept \in Seq(1..Len(gate))
        /\ pending \in Seq(1..Len(gate)) /\ assigned \in Seq(1..Len(gate))
        /\ i \in Int /\ target \in 0..Len(wire) /\ nextID \in Nat
    BY DEF NInv, LoopsTyped
  <1>a. /\ \A s \in Seq(1..Len(gate)) : s \in Seq(1..(Len(gate) + 1))
        /\ \A s \in Seq(1..Len(wire)) : s \in Seq(1..(Len(wire) + 1))
    BY <1>1, SeqMore
  <1>b. /\ list \in Seq(1..(Len(gate) + 1)) /\ outputs \in Seq(1..(Len(wire) + 1))
        /\ todo \in Seq(1..(Len(gate) + 1)) /\ kept \in Seq(1..(Len(gate) + 1))
        /\ pending \in Seq(1..(Len(gate) + 1)) /\ assigned \in Seq(1..(Len(gate) + 1))
    BY <1>2, <1>a, Zenon
  <1>3. /\ todo' \in Seq(1..(Len(gate) + 1)) /\ kept' \in Seq(1..(Len(gate) + 1))
        /\ pending' \in Seq(1..(Len(gate) + 1)) /\ assigned' \in Seq(1..(Len(gate) + 1))
    <2>1. /\ todo' = todo /\ kept' = kept /\ pending' = pending /\ assigned' = assigned
      OBVIOUS
    <2> QED
      BY ONLY <1>b, <2>1
  <1>4. list' \in Seq(1..(Len(gate) + 1)) /\ outputs' \in Seq(1..(Len(wire) + 1))
    <2>1. Len(gate) + 1 \in 1..(Len(gate) + 1) /\ Len(wire) + 1 \in 1..(Len(wire) + 1)
      BY <1>1
    <2>2. Append(list, Len(gate) + 1) \in Seq(1..(Len(gate) + 1))
      BY ONLY <1>b, <2>1, Appended
    <2>3. Append(outputs, Len(wire) + 1) \in Seq(1..(Len(wire) + 1))
      BY ONLY <1>b, <2>1, Appended
    <2> QED
      BY <1>b, <2>2, <2>3
  <1>5. i' \in Int /\ target' \in 0..(Len(wire) + 1) /\ nextID' \in Nat
    BY <1>1, <1>2
  <1> QED
    BY <1>3, <1>4, <1>5 DEF LoopsTyped

\* Building keeps the invariant.
LEMMA BuildStep ==
  ASSUME NInv, NEW op \in Ops, NEW a \in Usable, NEW b \in Usable, Build(op, a, b)
  PROVE  NInv'
  <1>1. /\ op \in AllOps \ {"INV"} /\ a \in 1..Len(wire) /\ b \in 1..Len(wire)
    BY NetlistAssumption DEF AllOps, Usable
  <1>2. AddBinary(op, a, b) /\ phase' = "build" /\ outputs' = outputs
    BY DEF Build
  <1>3. /\ Sound(wire', gate', meaning') /\ ConstantsSound(wire', meaning')
        /\ Len(wire') = Len(wire) + 1 /\ Len(gate') = Len(gate) + 1
        /\ list' = Append(list, Len(gate) + 1)
    BY <1>1, <1>2, AddBinarySound
  <1>4. LoopsTyped'
    BY <1>2, <1>3, AddedLoops DEF Build, work, numbering
  <1> QED
    BY <1>2, <1>3, <1>4 DEF NInv, LoopsSound

\* Ret keeps the invariant.
LEMMA RetStep ==
  ASSUME NInv, NEW w \in Usable, Ret(w)
  PROVE  NInv'
  <1>1. /\ w \in 1..Len(wire) /\ ZeroWire \in 1..Len(wire)
        /\ "XOR" \in AllOps \ {"INV"}
    BY NetlistFacts, NetlistAssumption
       DEF NInv, ConstantsSound, ZeroWire, AllOps, Usable
  <1>2. AddBinary("XOR", w, ZeroWire) /\ phase' = "build"
    BY DEF Ret
  <1>3. /\ Sound(wire', gate', meaning') /\ ConstantsSound(wire', meaning')
        /\ Len(wire') = Len(wire) + 1 /\ Len(gate') = Len(gate) + 1
        /\ list' = Append(list, Len(gate) + 1)
    BY <1>1, <1>2, AddBinarySound
  <1>4. LoopsTyped'
    BY <1>3, AddedLoops DEF Ret, work, numbering
  <1> QED
    BY <1>2, <1>3, <1>4 DEF NInv, LoopsSound

\* The other steps but Skip allocate nothing.
LEMMA SameLoops ==
  ASSUME NInv, Len(wire') = Len(wire), Len(gate') = Len(gate),
         UNCHANGED <<list, outputs>>,
         todo' \in Seq(1..Len(gate)), kept' \in Seq(1..Len(gate)),
         pending' \in Seq(1..Len(gate)), assigned' \in Seq(1..Len(gate)),
         i' \in Int, target' \in 0..Len(wire), nextID' \in Nat
  PROVE  LoopsTyped'
  BY DEF NInv, LoopsTyped

\* FoldConst keeps the invariant.
LEMMA ValueStep ==
  ASSUME NInv, FoldConst
  PROVE  NInv'
  <1> DEFINE o == gate[G].O
             v == IF Folded = "?" THEN wire[o].value ELSE Folded
  <1>1. InLoop /\ G \in 1..Len(gate) /\ o \in 1..Len(wire)
    BY InLoopGate, GateFacts DEF FoldConst
  <1>2. Fits(v, meaning[o])
    BY <1>1, FoldedFits, WireFacts DEF Fits
  <1>3. wire' = [wire EXCEPT ![o].value = v]
    BY DEF FoldConst
  <1>4. ValueSet(wire, o, v, wire')
    BY <1>3, Zenon DEF ValueSet
  <1> HIDE DEF v
  <1>5. Sound(wire', gate, meaning) /\ Len(wire') = Len(wire)
    <2>1. Sound(wire, gate, meaning) /\ v \in {"?", "0", "1"}
      BY <1>2 DEF NInv, Fits
    <2> QED
      BY <1>1, <1>2, <1>4, <2>1, SetValueSound DEF Fits
  <1>6. UNCHANGED <<gate, meaning, list, outputs, i, kept, pending, assigned, nextID>>
    BY DEF FoldConst, work, numbering
  <1>7. ConstantsSound(wire', meaning')
    BY <1>5, <1>6 DEF NInv, ConstantsSound
  <1>8. CASE /\ phase' = "redirect" /\ todo' = wire[o].readers
             /\ target' = Passed /\ Passed # Nil
    <2>1. Passed \in 1..Len(wire) /\ meaning[Passed] = meaning[o]
      BY <1>1, <1>8, PassedMeans
    <2>2. todo' \in Seq(1..Len(gate))
      BY <1>1, <1>8, NetlistFacts
    <2>3. LoopsTyped'
      BY <1>5, <1>6, <1>8, <2>1, <2>2, SameLoops DEF NInv, LoopsTyped
    <2>4. LoopsSound'
      BY <1>1, <1>6, <1>8, <2>1 DEF LoopsSound, InLoop, G
    <2> QED
      BY <1>5, <1>6, <1>7, <2>3, <2>4 DEF NInv
  <1>9. CASE phase' = "rewire" /\ UNCHANGED work
    <2>1. LoopsTyped'
      BY <1>5, <1>6, <1>9, SameLoops DEF NInv, LoopsTyped, work
    <2>2. LoopsSound'
      BY <1>1, <1>6, <1>9 DEF LoopsSound, InLoop
    <2> QED
      BY <1>5, <1>6, <1>7, <2>1, <2>2 DEF NInv
  <1> QED
    BY <1>8, <1>9 DEF FoldConst

\* The wires a loop body has rewritten, nothing else of the netlist.
LEMMA WiresStep ==
  ASSUME NInv, SameWires(wire, wire', Len(gate)), UNCHANGED <<gate, meaning>>
  PROVE  /\ Sound(wire', gate', meaning') /\ ConstantsSound(wire', meaning')
         /\ Len(wire') = Len(wire) /\ Len(gate') = Len(gate)
  <1>1. Sound(wire, gate, meaning)
    BY DEF NInv
  <1>2. Sound(wire', gate, meaning)
    BY <1>1, SameWiresSound
  <1>3. Len(wire') = Len(wire)
    BY DEF SameWires
  <1> QED
    BY <1>2, <1>3 DEF NInv, ConstantsSound

\* Wires and gates rewritten, so that gates read or drive wires that mean the same.
LEMMA GatesStep ==
  ASSUME NInv, SameWires(wire, wire', Len(gate)),
         SameGates(gate, gate', meaning, Len(wire)), UNCHANGED meaning
  PROVE  /\ Sound(wire', gate', meaning') /\ ConstantsSound(wire', meaning')
         /\ Len(wire') = Len(wire) /\ Len(gate') = Len(gate)
  <1>1. Sound(wire, gate, meaning)
    BY DEF NInv
  <1>2. Sound(wire', gate, meaning)
    BY <1>1, SameWiresSound
  <1>3. Len(wire') = Len(wire) /\ Len(gate') = Len(gate)
    BY DEF SameWires, SameGates
  <1>4. Sound(wire', gate', meaning)
    BY <1>2, <1>3, SameGatesSound
  <1> QED
    BY <1>3, <1>4 DEF NInv, ConstantsSound

\* The head and the tail of the readers still to be handled.
LEMMA HeadTail ==
  ASSUME NEW S, NEW s \in Seq(S), s # <<>>
  PROVE  Head(s) \in S /\ Tail(s) \in Seq(S)
  OBVIOUS

\* Gate h reads wire w as its first or second operand, which means what it read.
ReadsNow(h, field, w, gs2) ==
    /\ h \in 1..Len(gate) /\ w \in 1..Len(wire)
    /\ \/ /\ field = "A" /\ gs2 = [gate EXCEPT ![h].A = w]
          /\ meaning[w] = meaning[gate[h].A]
       \/ /\ field = "B" /\ gs2 = [gate EXCEPT ![h].B = w]
          /\ gate[h].op # "INV" /\ meaning[w] = meaning[gate[h].B]

\* A redirected gate reads a wire of the same meaning.
LEMMA ReadsNowSame ==
  ASSUME NInv, NEW h, NEW field, NEW to, NEW gs2, ReadsNow(h, field, to, gs2)
  PROVE  /\ SameGates(gate, gs2, meaning, Len(wire))
         /\ \A g \in 1..Len(gate) : gs2[g].O = gate[g].O
  <1> DEFINE new == IF field = "A" THEN [gate[h] EXCEPT !.A = to]
                                   ELSE [gate[h] EXCEPT !.B = to]
  <1>0. /\ h \in 1..Len(gate) /\ to \in 1..Len(wire) /\ field \in {"A", "B"}
        /\ field = "A" => meaning[to] = meaning[gate[h].A]
        /\ field = "B" => gate[h].op # "INV" /\ meaning[to] = meaning[gate[h].B]
    BY DEF ReadsNow
  <1>1. /\ gate \in Seq(GateRecord) /\ gate[h] \in GateRecord /\ Len(wire) \in Nat
        /\ to \in Nat
    BY <1>0, NetlistFacts DEF NInv, Sound, GatesTyped
  <1>2. gs2 = [gate EXCEPT ![h] = new]
    BY Zenon DEF ReadsNow
  <1>3. /\ new \in GateRecord /\ new.op = gate[h].op /\ new.O = gate[h].O
        /\ new.A = IF field = "A" THEN to ELSE gate[h].A
        /\ new.B = IF field = "A" THEN gate[h].B ELSE to
    <2>1. CASE field = "A"
      BY <1>1, <2>1 DEF GateRecord
    <2>2. CASE field # "A"
      BY <1>1, <2>2 DEF GateRecord
    <2> QED
      BY <2>1, <2>2
  <1> HIDE DEF new
  <1>4. /\ gs2 \in Seq(GateRecord) /\ Len(gs2) = Len(gate) /\ gs2[h] = new
        /\ \A g \in 1..Len(gate) : g # h => gs2[g] = gate[g]
    BY <1>0, <1>1, <1>2, <1>3
  <1>5. ASSUME NEW g \in 1..Len(gate)
        PROVE  /\ gs2[g].A \in 1..Len(wire) /\ gs2[g].O \in 1..Len(wire)
               /\ gs2[g].op = "INV" => gs2[g].B = Nil
               /\ gs2[g].op # "INV" => gs2[g].B \in 1..Len(wire)
               /\ gs2[g].op = gate[g].op /\ gs2[g].O = gate[g].O
               /\ meaning[gs2[g].A] = meaning[gate[g].A]
               /\ Second(meaning, gs2[g].B) = Second(meaning, gate[g].B)
    <2>1. /\ gate[g].A \in 1..Len(wire) /\ gate[g].O \in 1..Len(wire)
          /\ gate[g].op = "INV" => gate[g].B = Nil
          /\ gate[g].op # "INV" => gate[g].B \in 1..Len(wire)
      BY GateFacts
    <2>2. CASE g # h
      BY <1>4, <2>1, <2>2
    <2>3. CASE g = h /\ field = "A"
      BY <1>0, <1>3, <1>4, <2>1, <2>3
    <2>4. CASE g = h /\ field = "B"
      <3>1. gs2[g].B = to /\ gs2[g].A = gate[g].A /\ gs2[g].O = gate[g].O
            /\ gs2[g].op = gate[g].op
        BY <1>3, <1>4, <2>4
      <3>2. Second(meaning, to) = meaning[to]
        BY <1>0 DEF Second, Nil
      <3>3. Second(meaning, gate[g].B) = meaning[gate[g].B] /\ gate[g].op # "INV"
        BY <1>0, <2>1, <2>4 DEF Second, Nil
      <3>4. meaning[to] = meaning[gate[g].B]
        BY <1>0, <2>4
      <3> QED
        BY <1>0, <2>1, <3>1, <3>2, <3>3, <3>4
    <2> QED
      BY <1>0, <2>2, <2>3, <2>4
  <1> QED
    BY <1>4, <1>5 DEF SameGates, GatesTyped

\* Redirect keeps the invariant.
LEMMA RedirectStep ==
  ASSUME NInv, Redirect
  PROVE  NInv'
  <1> DEFINE h == Head(todo)
             from == gate[G].O
  <1>1. /\ phase = "redirect" /\ todo # <<>> /\ todo' = Tail(todo)
        /\ UNCHANGED <<target, kept, list, meaning, outputs, phase, i, numbering>>
    BY DEF Redirect
  <1>2. InLoop /\ target \in 1..Len(wire) /\ meaning[target] = meaning[from]
    BY <1>1, NetlistFacts DEF NInv, LoopsTyped, LoopsSound, InLoop, Nil
  <1>3. h \in 1..Len(gate) /\ todo' \in Seq(1..Len(gate))
    BY <1>1, HeadTail DEF NInv, LoopsTyped
  <1>4. G \in 1..Len(gate) /\ from \in 1..Len(wire)
    BY <1>2, InLoopGate, GateFacts
  <1>5. SameWires(wire, Moved(wire, h, from, target), Len(gate))
    BY <1>2, <1>3, <1>4, NetlistFacts, MovedSame DEF NInv, Sound
  <1>6. /\ Sound(wire', gate', meaning') /\ ConstantsSound(wire', meaning')
        /\ Len(wire') = Len(wire) /\ Len(gate') = Len(gate)
        /\ gate'[G].O = from
    <2>1. CASE /\ gate[h].A = from /\ gate' = [gate EXCEPT ![h].A = target]
               /\ wire' = Moved(wire, h, from, target)
      <3>1. /\ SameGates(gate, gate', meaning, Len(wire))
            /\ \A g \in 1..Len(gate) : gate'[g].O = gate[g].O
        <4>1. ReadsNow(h, "A", target, gate')
          BY <1>2, <1>3, <2>1 DEF ReadsNow
        <4> QED
          BY <4>1, ReadsNowSame
      <3> QED
        BY <1>1, <1>4, <1>5, <2>1, <3>1, GatesStep
    <2>2. CASE /\ gate[h].B = from /\ gate' = [gate EXCEPT ![h].B = target]
               /\ wire' = Moved(wire, h, from, target)
      <3>1. gate[h].op # "INV"
        BY <1>3, <1>4, <2>2, GateFacts DEF Nil
      <3>2. /\ SameGates(gate, gate', meaning, Len(wire))
            /\ \A g \in 1..Len(gate) : gate'[g].O = gate[g].O
        <4>1. ReadsNow(h, "B", target, gate')
          BY <1>2, <1>3, <2>2, <3>1 DEF ReadsNow
        <4> QED
          BY <4>1, ReadsNowSame
      <3> QED
        BY <1>1, <1>4, <1>5, <2>2, <3>2, GatesStep
    <2>3. CASE UNCHANGED <<gate, wire>>
      BY <1>1, <2>3 DEF NInv
    <2> QED
      BY <2>1, <2>2, <2>3 DEF Redirect
  <1>7. LoopsTyped'
    BY <1>1, <1>3, <1>6, SameLoops DEF NInv, LoopsTyped, numbering
  <1>8. LoopsSound'
    <2>1. G' = G
      BY <1>1 DEF G
    <2> QED
      BY <1>1, <1>2, <1>6, <2>1 DEF NInv, LoopsSound, InLoop
  <1> QED
    BY <1>6, <1>7, <1>8 DEF NInv

\* Disconnect keeps the invariant.
LEMMA DisconnectStep ==
  ASSUME NInv, Disconnect
  PROVE  NInv'
  <1> DEFINE o == gate[G].O
             ws == [wire EXCEPT ![o].num = 0]
  <1>1. /\ phase = "redirect" /\ phase' = "rewire"
        /\ UNCHANGED <<gate, list, meaning, outputs, i, work, numbering>>
        /\ wire' = [ws EXCEPT ![o].readers = <<>>]
    BY DEF Disconnect
  <1>2. InLoop /\ G \in 1..Len(gate) /\ o \in 1..Len(wire)
    <2>1. InLoop
      BY <1>1 DEF NInv, LoopsSound, InLoop
    <2> QED
      BY <2>1, InLoopGate, GateFacts
  <1>3. /\ WiresTyped(wire, Len(gate)) /\ wire[o] \in WireRecord /\ Len(gate) \in Nat
        /\ wire[o].readers \in Seq(1..Len(gate))
    BY <1>2, NetlistFacts DEF NInv, Sound
  <1>4. SameWires(wire, ws, Len(gate))
    <2> DEFINE new == [wire[o] EXCEPT !.num = 0]
    <2>1. FieldSet(wire, o, new, ws)
      BY Zenon DEF FieldSet
    <2>2. /\ new \in WireRecord /\ new.readers \in Seq(1..Len(gate))
          /\ new.value = wire[o].value /\ new.input = wire[o].input
      BY <1>3 DEF WireRecord
    <2> HIDE DEF new, ws
    <2> QED
      BY <1>2, <1>3, <2>1, <2>2, FieldSame
  <1>5. SameWires(ws, wire', Len(gate))
    <2> DEFINE new == [ws[o] EXCEPT !.readers = <<>>]
    <2>1. FieldSet(ws, o, new, wire')
      BY <1>1, Zenon DEF FieldSet
    <2> HIDE DEF ws
    <2>2. WiresTyped(ws, Len(gate)) /\ o \in 1..Len(ws) /\ ws[o] \in WireRecord
      BY <1>2, <1>4 DEF SameWires, WiresTyped
    <2> DEFINE r == ws[o]
    <2>3. r \in WireRecord
      BY <2>2
    <2>4. new = [r EXCEPT !.readers = <<>>]
      OBVIOUS
    <2> HIDE DEF new
    <2>5. new.value = r.value /\ new.input = r.input
      <3> HIDE DEF r
      <3> QED
        BY <2>3, <2>4 DEF WireRecord
    <2>6. new \in WireRecord /\ new.readers = <<>>
      <3> HIDE DEF r
      <3>1. <<>> \in Seq(Nat)
        OBVIOUS
      <3>2. new.readers = <<>>
        BY <2>3, <2>4 DEF WireRecord
      <3> DEFINE e == <<>>
      <3> HIDE DEF e
      <3>3. ASSUME NEW x \in WireRecord, NEW y \in Seq(Nat)
            PROVE  [x EXCEPT !.readers = y] \in WireRecord
        BY DEF WireRecord
      <3> QED
        BY <2>3, <2>4, <3>1, <3>2, <3>3
    <2>7. new.readers \in Seq(1..Len(gate))
      BY <2>6
    <2> HIDE DEF new
    <2> QED
      BY <1>3, <2>1, <2>2, <2>5, <2>6, <2>7, FieldSame
  <1>6. SameWires(wire, wire', Len(gate))
    BY <1>4, <1>5, SameWiresTrans
  <1>7. /\ Sound(wire', gate', meaning') /\ ConstantsSound(wire', meaning')
        /\ Len(wire') = Len(wire) /\ Len(gate') = Len(gate)
    BY <1>1, <1>6, WiresStep
  <1>8. LoopsTyped'
    BY <1>1, <1>7, SameLoops DEF NInv, LoopsTyped, work, numbering
  <1>9. LoopsSound'
    BY <1>1, <1>2 DEF LoopsSound, InLoop
  <1> QED
    BY <1>7, <1>8, <1>9 DEF NInv

\* The constant wire that replaces an operand means the same.
LEMMA ConstWireMeans ==
  ASSUME NInv, NEW w \in 1..Len(wire)
  PROVE  ConstWire(w) \in 1..Len(wire) /\ meaning[ConstWire(w)] = meaning[w]
  <1>1. /\ ZeroWire \in 1..Len(wire) /\ OneWire \in 1..Len(wire)
        /\ meaning[ZeroWire] = {} /\ meaning[OneWire] = Assignments
    BY NetlistFacts, NetlistAssumption DEF NInv, ConstantsSound, ZeroWire, OneWire
  <1>2. /\ wire[w].value = "0" => meaning[w] = {}
        /\ wire[w].value = "1" => meaning[w] = Assignments
    BY WireFacts
  <1>3. CASE wire[w].value = "0"
    BY <1>1, <1>2, <1>3 DEF ConstWire
  <1>4. CASE wire[w].value = "1"
    BY <1>1, <1>2, <1>4 DEF ConstWire
  <1>5. CASE wire[w].value \notin {"0", "1"}
    BY <1>5 DEF ConstWire
  <1> QED
    BY <1>3, <1>4, <1>5

\* Replacing a constant operand changes readers only.
LEMMA SettledSame ==
  ASSUME NInv, NEW ws, SameWires(wire, ws, Len(gate)),
         NEW g \in 1..Len(gate), NEW w \in 1..Len(wire)
  PROVE  SameWires(wire, Settled(ws, g, w), Len(gate))
  <1>1. CASE wire[w].value = "?"
    BY <1>1 DEF Settled
  <1>2. CASE wire[w].value # "?"
    <2>1. Settled(ws, g, w) = Moved(ws, g, w, ConstWire(w))
      BY <1>2 DEF Settled
    <2>2. WiresTyped(ws, Len(gate)) /\ Len(ws) = Len(wire)
      BY DEF SameWires
    <2>3. w \in 1..Len(ws) /\ ConstWire(w) \in 1..Len(ws)
      BY <2>2, ConstWireMeans
    <2>4. SameWires(ws, Settled(ws, g, w), Len(gate))
      BY <2>1, <2>2, <2>3, NetlistFacts, MovedSame
    <2> QED
      BY <2>4, SameWiresTrans
  <1> QED
    BY <1>1, <1>2

\* Rewire keeps the invariant.
LEMMA RewireStep ==
  ASSUME NInv, Rewire
  PROVE  NInv'
  <1> DEFINE a == gate[G].A
             b == gate[G].B
             ca == ConstWire(a)
             cb == IF b = Nil THEN Nil ELSE ConstWire(b)
             new == [gate[G] EXCEPT !.A = ca, !.B = cb]
  <1>1. /\ phase = "rewire" /\ phase' = "const" /\ i' = i + 1
        /\ UNCHANGED <<list, meaning, outputs, work, numbering>>
        /\ gate' = [gate EXCEPT ![G].A = ca, ![G].B = cb]
        /\ wire' = IF b = Nil THEN Settled(wire, G, a)
                   ELSE Settled(Settled(wire, G, a), G, b)
    BY DEF Rewire
  <1>2. InLoop /\ G \in 1..Len(gate)
    <2>1. InLoop
      BY <1>1 DEF NInv, LoopsSound, InLoop
    <2> QED
      BY <2>1, InLoopGate
  <1>3. /\ a \in 1..Len(wire)
        /\ gate[G].op = "INV" => b = Nil
        /\ gate[G].op # "INV" => b \in 1..Len(wire)
    BY <1>2, GateFacts
  <1>4. SameWires(wire, wire', Len(gate))
    <2>1. SameWires(wire, wire, Len(gate))
      BY DEF NInv, Sound, SameWires
    <2>2. SameWires(wire, Settled(wire, G, a), Len(gate))
      BY <1>2, <1>3, <2>1, SettledSame
    <2>3. b # Nil => SameWires(wire, Settled(Settled(wire, G, a), G, b), Len(gate))
      BY <1>2, <1>3, <2>2, SettledSame
    <2> QED
      BY <1>1, <2>2, <2>3
  <1>5. /\ ca \in 1..Len(wire) /\ meaning[ca] = meaning[a]
        /\ b = Nil => cb = Nil
        /\ b # Nil => cb \in 1..Len(wire) /\ meaning[cb] = meaning[b]
    BY <1>3, ConstWireMeans
  <1> HIDE DEF ca, cb
  <1>6. SameGates(gate, gate', meaning, Len(wire))
    <2>1. /\ gate \in Seq(GateRecord) /\ gate[G] \in GateRecord /\ Len(wire) \in Nat
          /\ ca \in Nat /\ cb \in Nat
      BY <1>2, <1>3, <1>5, NetlistFacts DEF NInv, Sound, GatesTyped, Nil
    <2>2. gate' = [gate EXCEPT ![G] = new]
      BY <1>1, <1>2, <2>1
    <2>3. /\ new \in GateRecord /\ new.op = gate[G].op /\ new.O = gate[G].O
          /\ new.A = ca /\ new.B = cb
      BY <2>1 DEF GateRecord
    <2> HIDE DEF new
    <2>4. /\ gate' \in Seq(GateRecord) /\ Len(gate') = Len(gate) /\ gate'[G] = new
          /\ \A g \in 1..Len(gate) : g # G => gate'[g] = gate[g]
      BY <1>2, <2>1, <2>2, <2>3
    <2>5. ASSUME NEW g \in 1..Len(gate)
          PROVE  /\ gate'[g].A \in 1..Len(wire) /\ gate'[g].O \in 1..Len(wire)
                 /\ gate'[g].op = "INV" => gate'[g].B = Nil
                 /\ gate'[g].op # "INV" => gate'[g].B \in 1..Len(wire)
                 /\ gate'[g].op = gate[g].op
                 /\ meaning[gate'[g].A] = meaning[gate[g].A]
                 /\ meaning[gate'[g].O] = meaning[gate[g].O]
                 /\ Second(meaning, gate'[g].B) = Second(meaning, gate[g].B)
      <3>1. /\ gate[g].A \in 1..Len(wire) /\ gate[g].O \in 1..Len(wire)
            /\ gate[g].op = "INV" => gate[g].B = Nil
            /\ gate[g].op # "INV" => gate[g].B \in 1..Len(wire)
        BY GateFacts
      <3>2. CASE g # G
        BY <2>4, <3>1, <3>2
      <3>3. CASE g = G /\ b = Nil
        BY <1>3, <1>5, <2>3, <2>4, <3>1, <3>3 DEF Nil
      <3>4. CASE g = G /\ b # Nil
        <4>1. gate[G].op # "INV" /\ cb \in 1..Len(wire) /\ meaning[cb] = meaning[b]
          BY <1>3, <1>5, <3>4
        <4>2. Second(meaning, cb) = Second(meaning, b)
          BY <4>1, <3>4 DEF Second, Nil
        <4> QED
          BY <1>5, <2>3, <2>4, <3>1, <3>4, <4>1, <4>2
      <3> QED
        BY <3>2, <3>3, <3>4
    <2> QED
      BY <2>4, <2>5 DEF SameGates, GatesTyped
  <1>7. /\ Sound(wire', gate', meaning') /\ ConstantsSound(wire', meaning')
        /\ Len(wire') = Len(wire) /\ Len(gate') = Len(gate)
    BY <1>1, <1>4, <1>6, GatesStep
  <1>8. LoopsTyped'
    BY <1>1, <1>7, SameLoops DEF NInv, LoopsTyped, work, numbering
  <1>9. LoopsSound'
    BY <1>1 DEF LoopsSound
  <1> QED
    BY <1>7, <1>8, <1>9 DEF NInv

(***************************************************************************)
(* ShortCircuitXORZero                                                     *)
(***************************************************************************)
MeaningAdded(ms, v, ms2) == v \in Meanings /\ ms2 = Append(ms, v)

MeaningsGrown(ws, ms, v, ws2, ms2) ==
    /\ Len(ws2) = Len(ws) + 1
    /\ \A w \in 1..Len(ws) : ms2[w] = ms[w]
    /\ ms2[Len(ws) + 1] = v

\* A wire that nothing drives is added.
LEMMA WireMore ==
  ASSUME NEW ws, NEW gs, NEW ms, Sound(ws, gs, ms),
         NEW ws2, WireAdded(Len(gs), ws, Nil, ws2),
         NEW v, NEW ms2, MeaningAdded(ms, v, ms2)
  PROVE  Sound(ws2, gs, ms2) /\ MeaningsGrown(ws, ms, v, ws2, ms2)
  <1>0. /\ Len(ws) \in Nat /\ gs \in Seq(GateRecord) /\ Len(gs) \in Nat
        /\ ms \in Seq(Meanings) /\ Len(ms) = Len(ws)
        /\ WiresTyped(ws, Len(gs))
    BY DEF Sound, WiresTyped, GatesTyped, MeaningsTyped
  <1>1. WiresGrown(Len(gs), ws, Nil, ws2)
    <2>1. SameWires(ws, ws, Len(gs))
      BY <1>0 DEF SameWires
    <2> QED
      BY <2>1, OneWireMore
  <1>2. /\ WiresTyped(ws2, Len(gs)) /\ Len(ws2) = Len(ws) + 1
        /\ \A w \in 1..Len(ws) : ws2[w].value = ws[w].value /\ ws2[w].input = ws[w].input
        /\ ws2[Len(ws) + 1].value = "?" /\ ws2[Len(ws) + 1].input = Nil
    BY <1>1 DEF WiresGrown
  <1>3. /\ ms2 \in Seq(Meanings) /\ Len(ms2) = Len(ws) + 1
        /\ \A w \in 1..Len(ws) : ms2[w] = ms[w]
        /\ ms2[Len(ws) + 1] = v
    <2>1. /\ Append(ms, v) \in Seq(Meanings) /\ Len(Append(ms, v)) = Len(ms) + 1
          /\ Append(ms, v)[Len(ms) + 1] = v
          /\ \A k \in 1..Len(ms) : Append(ms, v)[k] = ms[k]
      BY <1>0, Appended DEF MeaningAdded
    <2> QED
      BY <1>0, <2>1 DEF MeaningAdded
  <1>4. ASSUME NEW g \in 1..Len(gs)
        PROVE  /\ gs[g].A \in 1..Len(ws) /\ gs[g].O \in 1..Len(ws)
               /\ gs[g].op = "INV" => gs[g].B = Nil
               /\ gs[g].op # "INV" => gs[g].B \in 1..Len(ws)
    BY DEF Sound, GatesTyped
  <1>5. GatesTyped(gs, Len(ws2))
    BY <1>0, <1>2, <1>4 DEF GatesTyped
  <1>6. GatesMean(gs, ms2)
    <2> SUFFICES ASSUME NEW g \in 1..Len(gs)
                 PROVE  ms2[gs[g].O] = Apply(gs[g].op, ms2[gs[g].A], Second(ms2, gs[g].B))
      BY DEF GatesMean
    <2>1. ms[gs[g].O] = Apply(gs[g].op, ms[gs[g].A], Second(ms, gs[g].B))
      BY DEF Sound, GatesMean
    <2>2. ms2[gs[g].A] = ms[gs[g].A] /\ ms2[gs[g].O] = ms[gs[g].O]
      BY <1>3, <1>4
    <2>3. Second(ms2, gs[g].B) = Second(ms, gs[g].B)
      BY <1>3, <1>4 DEF Second
    <2> QED
      BY <2>1, <2>2, <2>3
  <1>7. WiresMean(ws2, gs, ms2)
    <2> SUFFICES ASSUME NEW w \in 1..(Len(ws) + 1)
                 PROVE  /\ ws2[w].value = "0" => ms2[w] = {}
                        /\ ws2[w].value = "1" => ms2[w] = Assignments
                        /\ ws2[w].input # Nil => ms2[gs[ws2[w].input].O] = ms2[w]
      BY <1>2 DEF WiresMean
    <2>1. CASE w = Len(ws) + 1
      BY <1>2, <2>1
    <2>2. CASE w # Len(ws) + 1
      <3>1. w \in 1..Len(ws)
        BY <1>0, <2>2
      <3>2. ws2[w].value = ws[w].value /\ ws2[w].input = ws[w].input /\ ms2[w] = ms[w]
        BY <1>2, <1>3, <3>1
      <3>3. /\ ws[w].value = "0" => ms[w] = {}
            /\ ws[w].value = "1" => ms[w] = Assignments
            /\ ws[w].input # Nil => ms[gs[ws[w].input].O] = ms[w]
        BY <3>1 DEF Sound, WiresMean
      <3>4. ws[w].input # Nil => ws[w].input \in 1..Len(gs)
        BY <3>1 DEF Sound, WiresTyped, Nil
      <3>5. ws[w].input # Nil => ms2[gs[ws[w].input].O] = ms[gs[ws[w].input].O]
        BY <1>3, <1>4, <3>4
      <3> QED
        BY <3>2, <3>3, <3>5
    <2> QED
      BY <2>1, <2>2
  <1> QED
    BY <1>2, <1>3, <1>5, <1>6, <1>7 DEF Sound, MeaningsTyped, MeaningsGrown

\* Skipping a gate keeps the netlist sound, whichever operand is zero.
LEMMA SkipSound ==
  ASSUME NInv, InLoop, NEW zero, NEW x, Skippable(zero, x), Skip(wire[x].input),
         \/ zero = gate[G].A /\ x = gate[G].B
         \/ zero = gate[G].B /\ x = gate[G].A
  PROVE  /\ Sound(wire', gate', meaning') /\ ConstantsSound(wire', meaning')
         /\ Len(wire') = Len(wire) + 1 /\ Len(gate') = Len(gate)
  <1> DEFINE p == wire[x].input
             o == gate[G].O
             new == Len(wire) + 1
             gs == [gate EXCEPT ![p].O = o]
  <1>1. /\ gate' = [gs EXCEPT ![G].O = new]
        /\ wire' = Append(wire, NewWire(Nil)) /\ meaning' = Append(meaning, meaning[o])
    BY Zenon DEF Skip
  <1>2. G \in 1..Len(gate) /\ o \in 1..Len(wire)
    BY InLoopGate, GateFacts
  <1>3. zero \in 1..Len(wire) /\ x \in 1..Len(wire)
    BY <1>2, GateFacts DEF Skippable
  <1>4. meaning[x] = meaning[o]
    <2>1. /\ meaning[zero] = {} /\ meaning[x] \in Meanings
      BY <1>3, WireFacts DEF Skippable
    <2>2. gate[G].op = "XOR"
      BY DEF Skippable
    <2>3. meaning[o] = Apply("XOR", meaning[gate[G].A], meaning[gate[G].B])
      BY <1>2, <2>2, GateFacts DEF Second, Nil
    <2>4. /\ Apply("XOR", {}, meaning[x]) = meaning[x]
          /\ Apply("XOR", meaning[x], {}) = meaning[x]
      BY <2>1, ApplyConstant
    <2> QED
      BY <2>1, <2>3, <2>4
  <1>5. p \in 1..Len(gate) /\ meaning[gate[p].O] = meaning[x]
    BY <1>3, WireFacts DEF Skippable
  <1>6. /\ Sound(wire', gate, meaning') /\ Len(wire') = new
        /\ \A w \in 1..Len(wire) : meaning'[w] = meaning[w]
        /\ meaning'[new] = meaning[o]
    <2>1. WireAdded(Len(gate), wire, Nil, wire')
      BY <1>1, NetlistFacts DEF WireAdded, Nil
    <2>2. Sound(wire, gate, meaning) /\ MeaningAdded(meaning, meaning[o], meaning')
      BY <1>1, <1>2, NetlistFacts DEF NInv, MeaningAdded
    <2>3. /\ Sound(wire', gate, meaning')
          /\ MeaningsGrown(wire, meaning, meaning[o], wire', meaning')
      BY <2>1, <2>2, WireMore
    <2> QED
      BY <2>3 DEF MeaningsGrown
  <1>7. SameGates(gate, gate', meaning', Len(wire'))
    <2>1. /\ gate \in Seq(GateRecord) /\ Len(wire) \in Nat /\ Len(gate) \in Nat
          /\ \A g \in 1..Len(gate) : gate[g] \in GateRecord
          /\ o \in Nat /\ new \in Nat
      BY <1>2, NetlistFacts DEF NInv, Sound, GatesTyped
    <2> DEFINE gp == [gate[p] EXCEPT !.O = o]
               gg == [gs[G] EXCEPT !.O = new]
    <2>2. gs = [gate EXCEPT ![p] = gp]
      BY Zenon
    <2>3. gate' = [gs EXCEPT ![G] = gg]
      BY <1>1, Zenon
    <2> HIDE DEF gs
    <2>4. /\ gp \in GateRecord /\ gp.op = gate[p].op /\ gp.A = gate[p].A
          /\ gp.B = gate[p].B /\ gp.O = o
      BY <1>5, <2>1 DEF GateRecord
    <2> HIDE DEF gp
    <2>5. /\ gs \in Seq(GateRecord) /\ Len(gs) = Len(gate) /\ gs[p] = gp
          /\ \A g \in 1..Len(gate) : g # p => gs[g] = gate[g]
      BY <1>5, <2>1, <2>2, <2>4
    <2>6. gs[G] \in GateRecord
      BY <1>2, <2>5
    <2>7. /\ gg \in GateRecord /\ gg.op = gs[G].op /\ gg.A = gs[G].A
          /\ gg.B = gs[G].B /\ gg.O = new
      BY <2>1, <2>6 DEF GateRecord
    <2> HIDE DEF gg
    <2>8. /\ gate' \in Seq(GateRecord) /\ Len(gate') = Len(gs) /\ gate'[G] = gg
          /\ \A g \in 1..Len(gs) : g # G => gate'[g] = gs[g]
      BY <1>2, <2>3, <2>5, <2>7
    <2>9. ASSUME NEW g \in 1..Len(gate)
          PROVE  /\ gate'[g].A \in 1..new /\ gate'[g].O \in 1..new
                 /\ gate'[g].op = "INV" => gate'[g].B = Nil
                 /\ gate'[g].op # "INV" => gate'[g].B \in 1..new
                 /\ gate'[g].op = gate[g].op
                 /\ gate'[g].A = gate[g].A /\ gate'[g].B = gate[g].B
                 /\ meaning'[gate'[g].O] = meaning'[gate[g].O]
      <3>1. /\ gate[g].A \in 1..Len(wire) /\ gate[g].O \in 1..Len(wire)
            /\ gate[g].op = "INV" => gate[g].B = Nil
            /\ gate[g].op # "INV" => gate[g].B \in 1..Len(wire)
        BY GateFacts
      <3>2. /\ gs[g].op = gate[g].op /\ gs[g].A = gate[g].A /\ gs[g].B = gate[g].B
            /\ gs[g].O = IF g = p THEN o ELSE gate[g].O
        BY <2>4, <2>5
      <3>3. /\ gate'[g].op = gate[g].op /\ gate'[g].A = gate[g].A
            /\ gate'[g].B = gate[g].B
            /\ gate'[g].O = IF g = G THEN new ELSE gs[g].O
        BY <2>5, <2>7, <2>8, <3>2
      <3>4. CASE g = G
        <4>1. meaning'[new] = meaning'[o] /\ gate[g].O = o
          BY <1>2, <1>6, <3>4
        <4> QED
          BY <2>1, <3>1, <3>3, <3>4, <4>1
      <3>5. CASE g # G /\ g = p
        <4>1. gate[p].O \in 1..Len(wire) /\ gate'[g].O = o
          BY <1>5, <3>2, <3>3, <3>5, GateFacts
        <4>2. meaning'[o] = meaning'[gate[p].O]
          BY <1>2, <1>4, <1>5, <1>6, <4>1
        <4> QED
          BY <1>2, <2>1, <3>1, <3>3, <3>5, <4>1, <4>2, SMTT(40)
      <3>6. CASE g # G /\ g # p
        BY <2>1, <3>1, <3>2, <3>3, <3>6
      <3> QED
        BY <3>4, <3>5, <3>6
    <2> QED
      BY <1>6, <2>5, <2>8, <2>9 DEF SameGates, GatesTyped
  <1>8. Sound(wire', gate', meaning')
    BY <1>6, <1>7, SameGatesSound
  <1>9. ConstantsSound(wire', meaning')
    <2>1. ZeroWire \in 1..Len(wire) /\ OneWire \in 1..Len(wire)
      BY NetlistFacts, NetlistAssumption DEF NInv, ConstantsSound, ZeroWire, OneWire
    <2>2. NumInputs + 3 <= Len(wire')
      BY <1>6, NetlistFacts, NetlistAssumption DEF NInv, ConstantsSound
    <2> QED
      BY <1>6, <2>1, <2>2 DEF NInv, ConstantsSound
  <1>10. Len(gate') = Len(gate)
    BY <1>7 DEF SameGates
  <1> QED
    BY <1>6, <1>8, <1>9, <1>10

\* The wires grew by none or one.
LEMMA GrownLoops ==
  ASSUME NInv, Len(wire') \in {Len(wire), Len(wire) + 1}, Len(gate') = Len(gate),
         UNCHANGED <<list, outputs, work, numbering>>, i' \in Int
  PROVE  LoopsTyped'
  <1>1. /\ list \in Seq(1..Len(gate)) /\ outputs \in Seq(1..Len(wire))
        /\ todo \in Seq(1..Len(gate)) /\ kept \in Seq(1..Len(gate))
        /\ pending \in Seq(1..Len(gate)) /\ assigned \in Seq(1..Len(gate))
        /\ target \in 0..Len(wire) /\ nextID \in Nat /\ Len(wire) \in Nat
    BY NetlistFacts DEF NInv, LoopsTyped
  <1>2. outputs \in Seq(1..Len(wire'))
    BY <1>1, SeqMore
  <1>3. target \in 0..Len(wire')
    BY <1>1
  <1> QED
    BY <1>1, <1>2, <1>3 DEF LoopsTyped, work, numbering

\* A test of ShortCircuitXORZero keeps the invariant.
LEMMA SkipStep ==
  ASSUME NInv, InLoop, NEW zero, NEW x, SkipXORZero(zero, x),
         \/ zero = gate[G].A /\ x = gate[G].B
         \/ zero = gate[G].B /\ x = gate[G].A,
         i' \in Int
  PROVE  /\ Sound(wire', gate', meaning') /\ ConstantsSound(wire', meaning')
         /\ LoopsTyped'
  <1>1. UNCHANGED <<list, outputs, work, numbering>>
    BY DEF SkipXORZero
  <1>2. CASE Skippable(zero, x)
    <2>1. Skip(wire[x].input)
      BY <1>2 DEF SkipXORZero
    <2>2. /\ Sound(wire', gate', meaning') /\ ConstantsSound(wire', meaning')
          /\ Len(wire') = Len(wire) + 1 /\ Len(gate') = Len(gate)
      BY <1>2, <2>1, SkipSound
    <2> QED
      BY <1>1, <2>2, GrownLoops
  <1>3. CASE ~Skippable(zero, x)
    <2>1. UNCHANGED <<gate, wire, meaning>>
      BY <1>3 DEF SkipXORZero
    <2>2. LoopsTyped'
      BY <1>1, <2>1, GrownLoops
    <2> QED
      BY <2>1, <2>2 DEF NInv
  <1> QED
    BY <1>2, <1>3

\* SkipByA keeps the invariant.
LEMMA SkipByAStep ==
  ASSUME NInv, SkipByA
  PROVE  NInv'
  <1>1. /\ InLoop /\ SkipXORZero(gate[G].A, gate[G].B) /\ phase' = "xorB" /\ i' = i
        /\ list' = list
    BY DEF SkipByA, SkipXORZero
  <1>2. i' \in Int
    BY <1>1 DEF NInv, LoopsTyped
  <1>3. /\ Sound(wire', gate', meaning') /\ ConstantsSound(wire', meaning')
        /\ LoopsTyped'
    BY <1>1, <1>2, SkipStep
  <1>4. LoopsSound'
    BY <1>1 DEF LoopsSound, InLoop
  <1> QED
    BY <1>3, <1>4 DEF NInv

\* SkipByB keeps the invariant.
LEMMA SkipByBStep ==
  ASSUME NInv, SkipByB
  PROVE  NInv'
  <1>1. /\ phase = "xorB" /\ SkipXORZero(gate[G].B, gate[G].A) /\ phase' = "xorA"
        /\ i' = i + 1
    BY DEF SkipByB
  <1>2. InLoop /\ i' \in Int
    BY <1>1 DEF NInv, LoopsSound, LoopsTyped, InLoop
  <1>3. /\ Sound(wire', gate', meaning') /\ ConstantsSound(wire', meaning')
        /\ LoopsTyped'
    BY <1>1, <1>2, SkipStep
  <1>4. LoopsSound'
    BY <1>1 DEF LoopsSound
  <1> QED
    BY <1>3, <1>4 DEF NInv

(***************************************************************************)
(* Prune and Compile                                                       *)
(***************************************************************************)
\* The wires before a step, as lemmas on wires ask for them.
LEMMA ReadWires ==
  ASSUME NInv
  PROVE  /\ SameWires(wire, wire, Len(gate)) /\ WiresTyped(wire, Len(gate))
         /\ wire \in Seq(WireRecord) /\ Len(gate) \in Nat /\ Len(wire) \in Nat
  BY NetlistFacts DEF NInv, Sound, SameWires, WiresTyped

\* A step of a loop that changes only what the loop keeps of wires and gates.
LEMMA WiresLoops ==
  ASSUME NInv, SameWires(wire, wire', Len(gate)),
         UNCHANGED <<gate, meaning, list, outputs>>,
         todo' \in Seq(1..Len(gate)), kept' \in Seq(1..Len(gate)),
         pending' \in Seq(1..Len(gate)), assigned' \in Seq(1..Len(gate)),
         i' \in Int, target' \in 0..Len(wire), nextID' \in Nat,
         phase' \notin {"redirect", "rewire", "xorB"}, phase' = "assign" => i' >= 1
  PROVE  NInv'
  <1>1. /\ Sound(wire', gate', meaning') /\ ConstantsSound(wire', meaning')
        /\ Len(wire') = Len(wire) /\ Len(gate') = Len(gate)
    BY WiresStep
  <1>2. LoopsTyped'
    BY <1>1, SameLoops
  <1> QED
    BY <1>1, <1>2 DEF NInv, LoopsSound

\* PruneGate keeps the invariant.
LEMMA PruneGateStep ==
  ASSUME NInv, PruneGate
  PROVE  NInv'
  <1>1. /\ phase = "prune" /\ phase' = phase /\ InLoop /\ i' = i - 1
        /\ UNCHANGED <<gate, meaning, list, outputs, todo, target, numbering>>
    BY DEF PruneGate
  <1>2. G \in 1..Len(gate)
    BY <1>1, InLoopGate
  <1>3. SameWires(wire, wire', Len(gate)) /\ kept' \in Seq(1..Len(gate))
    <2> DEFINE ws == RemoveOutput(wire, gate[G].A)
               ws2 == RemoveOutput(ws, gate[G].B)
    <2>1. CASE Unread(G)
      <3>1. SameWires(wire, ws, Len(gate))
        BY <1>2, GateFacts, ReadWires, RemoveOutputSame
      <3>2. gate[G].op # "INV" => SameWires(ws, ws2, Len(gate))
        BY <1>2, <3>1, GateFacts, ReadWires, RemoveOutputSame DEF SameWires
      <3>3. wire' = (IF gate[G].op = "INV" THEN ws ELSE ws2) /\ kept' = kept
        BY <1>1, <2>1 DEF PruneGate
      <3> HIDE DEF ws, ws2
      <3>4. SameWires(wire, wire', Len(gate))
        BY <3>1, <3>2, <3>3, SameWiresTrans
      <3> QED
        BY <3>3, <3>4 DEF NInv, LoopsTyped
    <2>2. CASE ~Unread(G)
      <3>1. wire' = wire /\ kept' = <<G>> \o kept
        BY <1>1, <2>2 DEF PruneGate
      <3>2. kept \in Seq(1..Len(gate))
        BY DEF NInv, LoopsTyped
      <3>3. <<G>> \o kept \in Seq(1..Len(gate))
        BY <1>2, <3>2
      <3> QED
        BY <3>1, <3>3, ReadWires
    <2> QED
      BY <2>1, <2>2
  <1> QED
    BY <1>1, <1>3, WiresLoops DEF NInv, LoopsTyped, numbering

\* PruneDone keeps the invariant.
LEMMA PruneDoneStep ==
  ASSUME NInv, PruneDone
  PROVE  NInv'
  <1>1. /\ UNCHANGED <<wire, gate, meaning, outputs, work, numbering>>
        /\ list' = kept /\ i' = 1 /\ phase' = "assign"
    BY DEF PruneDone
  <1>2. LoopsTyped'
    BY <1>1 DEF NInv, LoopsTyped, work, numbering
  <1> QED
    BY <1>1, <1>2 DEF NInv, LoopsSound

\* Numbering a wire changes no value and no driver.
LEMMA AssignWireSame ==
  ASSUME NInv, NEW w \in 1..Len(wire), AssignWire(w)
  PROVE  /\ SameWires(wire, wire', Len(gate)) /\ nextID' \in Nat
         /\ todo' \in Seq(1..Len(gate))
  <1>1. nextID \in Nat /\ todo \in Seq(1..Len(gate))
    BY DEF NInv, LoopsTyped
  <1>2. CASE Output(w)
    BY <1>1, <1>2, ReadWires DEF AssignWire
  <1>3. CASE ~Output(w)
    <2> DEFINE id == IF IsAssigned(w) THEN wire[w].id ELSE nextID
               new == [wire[w] EXCEPT !.id = id]
    <2>1. /\ wire' = [wire EXCEPT ![w] = new] /\ todo' = wire[w].readers
          /\ nextID' = IF IsAssigned(w) THEN nextID ELSE nextID + 1
      BY <1>3, Zenon DEF AssignWire
    <2>2. wire[w] \in WireRecord /\ wire[w].readers \in Seq(1..Len(gate))
      BY NetlistFacts
    <2>3. id \in Nat \cup {Unassigned}
      BY <1>1, <2>2 DEF WireRecord
    <2> HIDE DEF id
    <2>4. /\ new \in WireRecord /\ new.readers = wire[w].readers
          /\ new.value = wire[w].value /\ new.input = wire[w].input
      BY <2>2, <2>3 DEF WireRecord
    <2>5. FieldSet(wire, w, new, wire')
      BY <2>1, Zenon DEF FieldSet
    <2> HIDE DEF new
    <2>6. SameWires(wire, wire', Len(gate))
      <3>1. new.readers \in Seq(1..Len(gate))
        BY <2>2, <2>4
      <3> QED
        BY <2>4, <2>5, <3>1, ReadWires, FieldSame
    <2> QED
      BY <1>1, <2>1, <2>2, <2>6
  <1> QED
    BY <1>2, <1>3

\* AssignInput keeps the invariant.
LEMMA AssignInputStep ==
  ASSUME NInv, AssignInput
  PROVE  NInv'
  <1>1. /\ phase = "assign" /\ phase' = phase /\ AssignWire(i)
        /\ i <= NumInputs /\ i' = i + 1
        /\ UNCHANGED <<target, kept, gate, list, meaning, outputs, pending, assigned>>
    BY DEF AssignInput
  <1>2. i \in 1..Len(wire)
    BY <1>1, NetlistFacts, NetlistAssumption
       DEF NInv, ConstantsSound, LoopsTyped, LoopsSound
  <1>3. /\ SameWires(wire, wire', Len(gate)) /\ nextID' \in Nat
        /\ todo' \in Seq(1..Len(gate))
    BY <1>1, <1>2, AssignWireSame
  <1> QED
    BY <1>1, <1>2, <1>3, WiresLoops DEF NInv, LoopsTyped

\* Visit keeps the invariant.
LEMMA VisitStep ==
  ASSUME NInv, Visit
  PROVE  NInv'
  <1>1. /\ phase = "assign" /\ phase' = phase /\ todo # <<>> /\ todo' = Tail(todo)
        /\ UNCHANGED <<target, kept, netlist, outputs, i, nextID, assigned>>
        /\ pending' \in {pending, Append(pending, Head(todo))}
    BY DEF Visit
  <1>2. todo \in Seq(1..Len(gate)) /\ pending \in Seq(1..Len(gate))
    BY DEF NInv, LoopsTyped
  <1>3. Head(todo) \in 1..Len(gate) /\ todo' \in Seq(1..Len(gate))
    BY <1>1, <1>2, HeadTail
  <1>4. pending' \in Seq(1..Len(gate))
    <2>1. Append(pending, Head(todo)) \in Seq(1..Len(gate))
      BY ONLY <1>2, <1>3, Appended
    <2> QED
      BY <1>1, <1>2, <2>1
  <1> QED
    BY <1>1, <1>3, <1>4, ReadWires, WiresLoops DEF NInv, LoopsTyped, LoopsSound, netlist

\* AssignGate keeps the invariant.
LEMMA AssignGateStep ==
  ASSUME NInv, AssignGate
  PROVE  NInv'
  <1> DEFINE g == Head(pending)
  <1>1. /\ phase = "assign" /\ phase' = phase /\ pending # <<>> /\ pending' = Tail(pending)
        /\ UNCHANGED <<target, kept, gate, list, meaning, outputs, i>>
        /\ \/ UNCHANGED <<wire, nextID, todo, assigned>>
           \/ AssignWire(gate[g].O) /\ assigned' = Append(assigned, g)
    BY DEF AssignGate
  <1>2. pending \in Seq(1..Len(gate)) /\ assigned \in Seq(1..Len(gate))
    BY DEF NInv, LoopsTyped
  <1>3. g \in 1..Len(gate) /\ pending' \in Seq(1..Len(gate))
    BY <1>1, <1>2, HeadTail
  <1>4. CASE UNCHANGED <<wire, nextID, todo, assigned>>
    BY <1>1, <1>3, <1>4, ReadWires, WiresLoops DEF NInv, LoopsTyped, LoopsSound
  <1>5. CASE AssignWire(gate[g].O) /\ assigned' = Append(assigned, g)
    <2>1. gate[g].O \in 1..Len(wire)
      BY <1>3, GateFacts
    <2>2. /\ SameWires(wire, wire', Len(gate)) /\ nextID' \in Nat
          /\ todo' \in Seq(1..Len(gate))
      BY <1>5, <2>1, AssignWireSame
    <2>3. assigned' \in Seq(1..Len(gate))
      BY <1>2, <1>3, <1>5, Appended
    <2> QED
      BY <1>1, <1>3, <2>2, <2>3, WiresLoops DEF NInv, LoopsTyped, LoopsSound
  <1> QED
    BY <1>1, <1>4, <1>5

\* AssignOutputs keeps the invariant.
LEMMA AssignOutputsStep ==
  ASSUME NInv, AssignOutputs
  PROVE  NInv'
  <1> DEFINE driven(w) == \E k \in 1..Len(outputs) : outputs[k] = w
             number(w) == nextID + (CHOOSE k \in 1..Len(outputs) : outputs[k] = w) - 1
             new(w) == IF driven(w) THEN [wire[w] EXCEPT !.id = number(w)] ELSE wire[w]
  <1>1. /\ wire' = [w \in 1..Len(wire) |-> new(w)] /\ nextID' = nextID + Len(outputs)
        /\ phase' = "emit" /\ i' = 1
        /\ UNCHANGED <<gate, list, meaning, outputs, work, pending, assigned>>
    BY Zenon DEF AssignOutputs
  <1>2. nextID \in Nat /\ Len(outputs) \in Nat
    BY DEF NInv, LoopsTyped
  <1>3. ASSUME NEW w \in 1..Len(wire)
        PROVE  /\ new(w) \in WireRecord /\ new(w).readers = wire[w].readers
               /\ new(w).value = wire[w].value /\ new(w).input = wire[w].input
    <2>1. wire[w] \in WireRecord
      BY NetlistFacts
    <2>2. CASE driven(w)
      <3>1. (CHOOSE k \in 1..Len(outputs) : outputs[k] = w) \in 1..Len(outputs)
        BY <2>2
      <3>2. number(w) \in Nat \cup {Unassigned}
        BY <1>2, <3>1
      <3>3. new(w) = [wire[w] EXCEPT !.id = number(w)]
        BY <2>2
      <3> HIDE DEF number, new
      <3> QED
        BY <2>1, <3>2, <3>3 DEF WireRecord
    <2>3. CASE ~driven(w)
      BY <2>1, <2>3
    <2> QED
      BY <2>2, <2>3
  <1> HIDE DEF new
  <1>4. SameWires(wire, wire', Len(gate))
    <2>1. wire' \in Seq(WireRecord) /\ Len(wire') = Len(wire)
      BY <1>1, <1>3, NetlistFacts
    <2>2. \A w \in 1..Len(wire) : wire'[w] = new(w)
      BY <1>1
    <2> QED
      BY <1>3, <2>1, <2>2, ReadWires DEF SameWires, WiresTyped
  <1>5. nextID' \in Nat
    BY <1>1, <1>2
  <1> QED
    BY <1>1, <1>4, <1>5, WiresLoops DEF NInv, LoopsTyped, work

\* The steps that leave wires and gates alone.
LEMMA OtherSteps ==
  ASSUME NInv, Start \/ ConstDone \/ XORDone \/ EmitGate \/ EmitDone
  PROVE  NInv'
  <1>1. /\ UNCHANGED <<wire, gate, list, meaning, outputs, work, nextID, pending, assigned>>
        /\ i' \in Int /\ phase' \notin {"redirect", "rewire", "xorB"}
        /\ phase' = "assign" => i' >= 1
    <2>1. i \in Int /\ Len(list) \in Nat
      BY DEF NInv, LoopsTyped
    <2>2. CASE Start
      BY <2>1, <2>2 DEF Start, netlist, numbering
    <2>3. CASE ConstDone
      BY <2>3 DEF ConstDone, netlist, numbering
    <2>4. CASE XORDone
      BY <2>1, <2>4 DEF XORDone, netlist, numbering
    <2>5. CASE EmitGate
      BY <2>1, <2>5 DEF EmitGate, netlist
    <2>6. CASE EmitDone
      BY <2>1, <2>6 DEF EmitDone, netlist, numbering
    <2> QED
      BY <2>2, <2>3, <2>4, <2>5, <2>6
  <1> QED
    BY <1>1, ReadWires, WiresLoops DEF NInv, LoopsTyped, work

\* Stuttering keeps the invariant.
LEMMA StutterStep ==
  ASSUME NInv, UNCHANGED vars
  PROVE  NInv'
  <1>1. UNCHANGED <<wire, gate, meaning, list, outputs, phase, i, todo, target, kept,
                    nextID, pending, assigned>>
    BY DEF vars
  <1>2. LoopsTyped' /\ LoopsSound'
    BY <1>1 DEF NInv, LoopsTyped, LoopsSound, G
  <1> QED
    BY <1>1, <1>2 DEF NInv

\* Every step keeps the invariant.
LEMMA NextInvariant ==
  ASSUME NInv, [Next]_vars
  PROVE  NInv'
  <1>1. ASSUME NEW op \in Ops, NEW a \in Usable, NEW b \in Usable, Build(op, a, b)
        PROVE  NInv'
    BY <1>1, BuildStep
  <1>2. ASSUME NEW w \in Usable, Ret(w)
        PROVE  NInv'
    BY <1>2, RetStep
  <1>3. CASE FoldConst
    BY <1>3, ValueStep
  <1>4. CASE Redirect
    BY <1>4, RedirectStep
  <1>5. CASE Disconnect
    BY <1>5, DisconnectStep
  <1>6. CASE Rewire
    BY <1>6, RewireStep
  <1>7. CASE SkipByA
    BY <1>7, SkipByAStep
  <1>8. CASE SkipByB
    BY <1>8, SkipByBStep
  <1>9. CASE PruneGate
    BY <1>9, PruneGateStep
  <1>10. CASE PruneDone
    BY <1>10, PruneDoneStep
  <1>11. CASE AssignInput
    BY <1>11, AssignInputStep
  <1>12. CASE Visit
    BY <1>12, VisitStep
  <1>13. CASE AssignGate
    BY <1>13, AssignGateStep
  <1>14. CASE AssignOutputs
    BY <1>14, AssignOutputsStep
  <1>15. CASE Start \/ ConstDone \/ XORDone \/ EmitGate \/ EmitDone
    BY <1>15, OtherSteps
  <1>16. CASE UNCHANGED vars
    BY <1>16, StutterStep
  <1> QED
    BY <1>1, <1>2, <1>3, <1>4, <1>5, <1>6, <1>7, <1>8, <1>9, <1>10, <1>11, <1>12,
       <1>13, <1>14, <1>15, <1>16 DEF Next

\* The invariant holds throughout, for any number of inputs and gates.
THEOREM NetlistInvariant == Spec => []NInv
  <1>1. Init => NInv
    BY InitInvariant
  <1>2. NInv /\ [Next]_vars => NInv'
    BY NextInvariant
  <1> QED
    BY <1>1, <1>2, PTL DEF Spec

(***************************************************************************)
(* What follows from the invariant                                         *)
(***************************************************************************)
\* Wires, gates and lists keep their types through every pass, and point at
\* each other within bounds.
THEOREM NetlistTypeCorrect == Spec => []TypeOK
  <1>1. NInv => TypeOK
    <2> SUFFICES ASSUME NInv PROVE TypeOK
      OBVIOUS
    <2>1. /\ wire \in Seq(WireRecord) /\ gate \in Seq(GateRecord)
          /\ meaning \in Seq(Meanings) /\ Len(meaning) = Len(wire)
          /\ \A w \in 1..Len(wire) :
               wire[w].input \in 0..Len(gate) /\ wire[w].readers \in Seq(1..Len(gate))
      BY DEF NInv, Sound, WiresTyped, GatesTyped, MeaningsTyped
    <2>2. \A g \in 1..Len(gate) :
            /\ gate[g].A \in 1..Len(wire) /\ gate[g].O \in 1..Len(wire)
            /\ gate[g].B \in IF gate[g].op = "INV" THEN {Nil} ELSE 1..Len(wire)
      BY GateFacts
    <2> QED
      BY <2>1, <2>2 DEF NInv, LoopsTyped, TypeOK
  <1> QED
    BY <1>1, NetlistInvariant, PTL

\* ConstPropagate, ShortCircuitXORZero and Prune keep the meaning of every
\* wire, whatever circuit was built.
THEOREM NetlistMeaningKept == Spec => []MeaningKept
  <1>1. NInv => MeaningKept
    <2> SUFFICES ASSUME NInv PROVE MeaningKept
      OBVIOUS
    <2>1. \A g \in Live : g \in 1..Len(gate)
      BY DEF NInv, LoopsTyped, Live
    <2>2. ASSUME NEW g \in Live
          PROVE  meaning[gate[g].O] =
                   Apply(gate[g].op, meaning[gate[g].A],
                         IF gate[g].B = Nil THEN {} ELSE meaning[gate[g].B])
      BY <2>1, GateFacts DEF Second
    <2>3. \A w \in 1..Len(wire) :
            /\ wire[w].value = "0" => meaning[w] = {}
            /\ wire[w].value = "1" => meaning[w] = Assignments
      BY WireFacts
    <2> QED
      BY <2>2, <2>3 DEF MeaningKept
  <1> QED
    BY <1>1, NetlistInvariant, PTL

\* Numbers of operands: elements of S that f maps to v.
Is(x, y) == IF x = y THEN 1 ELSE 0
Number(f, S, v) == Cardinality({x \in S : f[x] = v})
Occurrences(s, v) == Number(s, 1..Len(s), v)

\* Such a number is a natural, and zero if no element is mapped to v.
LEMMA NumberIsNat ==
  ASSUME NEW f, NEW S, IsFiniteSet(S), NEW v
  PROVE  /\ Number(f, S, v) \in Nat /\ IsFiniteSet({x \in S : f[x] = v})
         /\ Number(f, S, v) > 0 <=> \E x \in S : f[x] = v
  <1> DEFINE T == {x \in S : f[x] = v}
  <1>1. IsFiniteSet(T)
    BY FS_Subset
  <1>2. Cardinality(T) \in Nat /\ (Cardinality(T) = 0 <=> T = {})
    BY <1>1, FS_CardinalityType, FS_EmptySet
  <1>3. Number(f, S, v) = Cardinality(T)
    BY Zenon DEF Number
  <1>4. T = {} <=> ~ \E x \in S : f[x] = v
    OBVIOUS
  <1> HIDE DEF T
  <1>5. Number(f, S, v) > 0 <=> ~ (T = {})
    BY <1>2, <1>3
  <1> QED
    BY <1>1, <1>2, <1>3, <1>4, <1>5 DEF T

\* One element more.
LEMMA NumberAdd ==
  ASSUME NEW f, NEW f2, NEW S, IsFiniteSet(S), NEW x, x \notin S,
         \A y \in S : f2[y] = f[y], NEW v
  PROVE  Number(f2, S \cup {x}, v) = Number(f, S, v) + Is(f2[x], v)
  <1> DEFINE T == {y \in S : f[y] = v}
             T2 == {y \in S \cup {x} : f2[y] = v}
  <1>1. IsFiniteSet(T)
    BY FS_Subset
  <1>2. Number(f, S, v) = Cardinality(T) /\ Number(f2, S \cup {x}, v) = Cardinality(T2)
    BY Zenon DEF Number
  <1>3. /\ f2[x] = v => T2 = T \cup {x} /\ x \notin T
        /\ f2[x] # v => T2 = T
    OBVIOUS
  <1> HIDE DEF T, T2
  <1>4. Cardinality(T) \in Nat
    BY <1>1, FS_CardinalityType
  <1>5. CASE f2[x] = v
    <2>1. Cardinality(T2) = Cardinality(T) + 1
      BY <1>1, <1>3, <1>5, FS_AddElement
    <2> QED
      BY <1>2, <1>5, <2>1 DEF Is
  <1>6. CASE f2[x] # v
    BY <1>2, <1>3, <1>4, <1>6 DEF Is
  <1> QED
    BY <1>5, <1>6

\* One element less.
LEMMA NumberRemove ==
  ASSUME NEW f, NEW S, IsFiniteSet(S), NEW x \in S, NEW v
  PROVE  Number(f, S \ {x}, v) = Number(f, S, v) - Is(f[x], v)
  <1>1. IsFiniteSet(S \ {x}) /\ x \notin S \ {x} /\ (S \ {x}) \cup {x} = S
    BY FS_RemoveElement
  <1>2. Number(f, S, v) = Number(f, S \ {x}, v) + Is(f[x], v)
    BY <1>1, NumberAdd
  <1>3. Number(f, S, v) \in Nat /\ Number(f, S \ {x}, v) \in Nat
    BY <1>1, NumberIsNat
  <1> QED
    BY <1>2, <1>3 DEF Is

\* One element mapped to another value.
LEMMA NumberMove ==
  ASSUME NEW f, NEW f2, NEW S, IsFiniteSet(S), NEW x \in S,
         \A y \in S \ {x} : f2[y] = f[y], NEW v
  PROVE  Number(f2, S, v) = Number(f, S, v) - Is(f[x], v) + Is(f2[x], v)
  <1>1. IsFiniteSet(S \ {x}) /\ x \notin S \ {x} /\ (S \ {x}) \cup {x} = S
    BY FS_RemoveElement
  <1>2. Number(f2, S, v) = Number(f, S \ {x}, v) + Is(f2[x], v)
    BY <1>1, NumberAdd
  <1>3. Number(f, S \ {x}, v) = Number(f, S, v) - Is(f[x], v)
    BY NumberRemove
  <1> QED
    BY <1>2, <1>3

\* Equal maps have equal numbers.
LEMMA NumberSame ==
  ASSUME NEW f, NEW f2, NEW S, \A y \in S : f2[y] = f[y], NEW v
  PROVE  Number(f2, S, v) = Number(f, S, v)
  <1>1. {x \in S : f2[x] = v} = {x \in S : f[x] = v}
    OBVIOUS
  <1> QED
    BY <1>1 DEF Number

\* A sequence's elements.
LEMMA OccurrencesAre ==
  ASSUME NEW R, NEW s \in Seq(R), NEW v
  PROVE  /\ Occurrences(s, v) \in Nat
         /\ Occurrences(s, v) > 0 <=> \E k \in 1..Len(s) : s[k] = v
         /\ IsFiniteSet(1..Len(s))
  <1>1. Len(s) \in Nat
    OBVIOUS
  <1>2. IsFiniteSet(1..Len(s))
    BY <1>1, FS_Interval
  <1> HIDE DEF Number
  <1> QED
    BY <1>2, NumberIsNat DEF Occurrences

\* Nothing is in the empty list.
LEMMA OccurrencesEmpty ==
  ASSUME NEW v
  PROVE  Occurrences(<<>>, v) = 0
  <1>1. <<>> \in Seq({})
    OBVIOUS
  <1>2. Occurrences(<<>>, v) \in Nat /\ (Occurrences(<<>>, v) > 0 => 1..Len(<<>>) # {})
    BY <1>1, OccurrencesAre
  <1>3. 1..Len(<<>>) = {}
    OBVIOUS
  <1> QED
    BY <1>2, <1>3

\* A list with an element more.
LEMMA OccurrencesAppend ==
  ASSUME NEW R, NEW s \in Seq(R), NEW e \in R, NEW v
  PROVE  Occurrences(Append(s, e), v) = Occurrences(s, v) + Is(e, v)
  <1> DEFINE t == Append(s, e)
             n == Len(s)
  <1>1. /\ n \in Nat /\ Len(t) = n + 1 /\ t[n + 1] = e
        /\ \A k \in 1..n : t[k] = s[k]
    OBVIOUS
  <1>2. 1..(n + 1) = (1..n) \cup {n + 1} /\ n + 1 \notin 1..n
    BY <1>1
  <1>3. IsFiniteSet(1..n)
    BY OccurrencesAre
  <1>a. \A y \in 1..n : t[y] = s[y]
    BY <1>1
  <1> HIDE DEF t, n
  <1>4. Number(t, (1..n) \cup {n + 1}, v) = Number(s, 1..n, v) + Is(t[n + 1], v)
    <2> DEFINE S == 1..n
               x == n + 1
    <2>1. IsFiniteSet(S) /\ x \notin S /\ \A y \in S : t[y] = s[y]
      BY <1>a, <1>2, <1>3
    <2> HIDE DEF S, x
    <2>2. Number(t, S \cup {x}, v) = Number(s, S, v) + Is(t[x], v)
      BY <2>1, NumberAdd
    <2> QED
      BY <2>2 DEF S, x
  <1> QED
    BY <1>1, <1>2, <1>4 DEF Occurrences, t, n

\* A list with an element more, as a predicate.
Added(s, e, t) == t = Append(s, e)

\* A sequence that may have grown.
LEMMA OccurrencesGrow ==
  ASSUME NEW R, NEW s \in Seq(R), NEW e \in R, NEW t, t = s \/ Added(s, e, t), NEW v
  PROVE  /\ t \in Seq(R)
         /\ Occurrences(t, v) \in Nat /\ Occurrences(s, v) \in Nat
         /\ Occurrences(t, v) >= Occurrences(s, v)
         /\ Added(s, e, t) /\ e = v => Occurrences(t, v) > 0
  <1> DEFINE x == Append(s, e)
  <1>1. Occurrences(x, v) = Occurrences(s, v) + Is(e, v) /\ Occurrences(s, v) \in Nat
    BY OccurrencesAppend, OccurrencesAre
  <1>2. x \in Seq(R)
    OBVIOUS
  <1> HIDE DEF x
  <1>3. CASE t = x
    BY <1>1, <1>2, <1>3 DEF Is, x, Added
  <1>4. CASE t = s /\ t # x
    BY <1>1, <1>4 DEF x, Added
  <1> QED
    BY <1>3, <1>4 DEF x, Added

\* A list without its first element.
LEMMA OccurrencesTail ==
  ASSUME NEW R, NEW s \in Seq(R), s # <<>>, NEW v
  PROVE  Occurrences(Tail(s), v) = Occurrences(s, v) - Is(Head(s), v)
  <1> DEFINE n == Len(s)
             S == {k \in 1..n : s[k] = v}
             T == {k \in 1..Len(Tail(s)) : Tail(s)[k] = v}
             U == S \ {1}
             f == [k \in U |-> k - 1]
  <1>1. /\ n \in Nat /\ n >= 1 /\ Len(Tail(s)) = n - 1 /\ Head(s) = s[1]
        /\ \A k \in 1..(n - 1) : Tail(s)[k] = s[k + 1]
    OBVIOUS
  <1>2. f \in Bijection(U, T)
    <2>1. U = {k \in 2..n : s[k] = v} /\ T = {k \in 1..(n - 1) : s[k + 1] = v}
      BY <1>1
    <2>2. f \in [U -> T]
      BY <1>1, <2>1
    <2>3. \A j, k \in U : f[j] = f[k] => j = k
      BY <1>1, <2>1
    <2>4. \A t \in T : t + 1 \in U /\ f[t + 1] = t
      BY <1>1, <2>1
    <2> HIDE DEF f, U, T
    <2>5. \A t \in T : \E k \in U : f[k] = t
      BY <2>4
    <2> QED
      BY <2>2, <2>3, <2>5, Zenon DEF Bijection, Injection, Surjection, IsInjective
  <1>3. IsFiniteSet(S)
    <2>1. IsFiniteSet(1..n) /\ S \in SUBSET (1..n)
      BY <1>1, FS_Interval
    <2> HIDE DEF S
    <2> QED
      BY <2>1, FS_Subset
  <1>4. IsFiniteSet(U) /\ Cardinality(U) = IF 1 \in S THEN Cardinality(S) - 1 ELSE Cardinality(S)
    BY <1>3, FS_RemoveElement
  <1>5. Cardinality(T) = Cardinality(U)
    <2>1. ExistsBijection(U, T)
      BY <1>2, Zenon DEF ExistsBijection
    <2> HIDE DEF U, T
    <2> QED
      BY <1>4, <2>1, FS_Bijection
  <1>6. 1 \in S <=> Head(s) = v
    BY <1>1
  <1>7. Occurrences(s, v) = Cardinality(S) /\ Occurrences(Tail(s), v) = Cardinality(T)
    BY Zenon DEF Occurrences, Number
  <1>8. Cardinality(S) \in Nat
    BY <1>3, FS_CardinalityType
  <1> HIDE DEF S, T, U
  <1> QED
    BY <1>4, <1>5, <1>6, <1>7, <1>8 DEF Is

(***************************************************************************)
(* What the steps do to the readers of wires                               *)
(***************************************************************************)
\* Every wire is what it was but for its readers and the fields of Compile.
Unmoved(ws, ws2) ==
    /\ Len(ws2) = Len(ws)
    /\ \A u \in 1..Len(ws) : ws2[u].value = ws[u].value /\ ws2[u].input = ws[u].input
                              /\ ws2[u].id = ws[u].id

\* Gate g reads wire w once more.
Gains(ws, ws2, w, g) ==
    \A u \in 1..Len(ws) :
      /\ ws2[u].num = ws[u].num + Is(w, u)
      /\ IF u = w THEN Added(ws[u].readers, g, ws2[u].readers)
                  ELSE ws2[u].readers = ws[u].readers

\* The fields of a wire.
LEMMA WireFields ==
  ASSUME NEW n, NEW ws, WiresTyped(ws, n)
  PROVE  /\ ws \in Seq(WireRecord) /\ Len(ws) \in Nat
         /\ \A u \in 1..Len(ws) : ws[u] \in WireRecord /\ ws[u].num \in Int
                                   /\ ws[u].readers \in Seq(1..n)
  <1>1. ws \in Seq(WireRecord) /\ \A u \in 1..Len(ws) : ws[u].readers \in Seq(1..n)
    BY DEF WiresTyped
  <1>2. \A u \in 1..Len(ws) : ws[u] \in WireRecord
    BY <1>1
  <1>3. \A r \in WireRecord : r.num \in Int
    BY DEF WireRecord
  <1> QED
    BY <1>1, <1>2, <1>3

\* AddOutput adds a reader to one wire.
LEMMA AddOutputGains ==
  ASSUME NEW n \in Nat, NEW ws, WiresTyped(ws, n), NEW w \in 1..Len(ws), NEW g \in 1..n
  PROVE  Unmoved(ws, AddOutput(ws, w, g)) /\ Gains(ws, AddOutput(ws, w, g), w, g)
  <1> DEFINE rs == Append(ws[w].readers, g)
             k == ws[w].num + 1
             new == [ws[w] EXCEPT !.num = k, !.readers = rs]
  <1>1. AddOutput(ws, w, g) = [ws EXCEPT ![w] = new]
    BY DEF AddOutput, WiresTyped, WireRecord
  <1>2. ws[w] \in WireRecord /\ ws \in Seq(WireRecord) /\ \A u \in 1..Len(ws) : ws[u].num \in Int
    BY WireFields
  <1>3. rs \in Seq(Nat) /\ k \in Int /\ k = ws[w].num + 1
    BY SMTT(30), <1>2 DEF WireRecord
  <1> HIDE DEF k
  <1>4. /\ new.num = k /\ new.readers = rs /\ new.id = ws[w].id
        /\ new.value = ws[w].value /\ new.input = ws[w].input
    <2> HIDE DEF rs
    <2> QED
      BY <1>2, <1>3 DEF WireRecord
  <1> HIDE DEF new
  <1>5. /\ Len(AddOutput(ws, w, g)) = Len(ws)
        /\ \A u \in 1..Len(ws) : AddOutput(ws, w, g)[u] = IF u = w THEN new ELSE ws[u]
    BY <1>1, <1>2
  <1> HIDE DEF rs
  <1>6. ASSUME NEW u \in 1..Len(ws)
        PROVE  AddOutput(ws, w, g)[u].num = ws[u].num + Is(w, u)
    BY <1>2, <1>3, <1>4, <1>5 DEF Is
  <1> QED
    BY <1>4, <1>5, <1>6 DEF Unmoved, Gains, Added, rs

\* A reader less: the list keeps it.
Loses(ws, ws2, w) ==
    \A u \in 1..Len(ws) :
      ws2[u].num = ws[u].num - Is(w, u) /\ ws2[u].readers = ws[u].readers

\* RemoveOutput takes a reader from the number, not from the list.
LEMMA RemoveOutputLoses ==
  ASSUME NEW n \in Nat, NEW ws, WiresTyped(ws, n), NEW w \in 1..Len(ws)
  PROVE  Unmoved(ws, RemoveOutput(ws, w)) /\ Loses(ws, RemoveOutput(ws, w), w)
  <1> DEFINE new == [ws[w] EXCEPT !.num = @ - 1]
  <1>1. RemoveOutput(ws, w) = [ws EXCEPT ![w] = new]
    BY DEF RemoveOutput
  <1>2. ws[w] \in WireRecord /\ ws \in Seq(WireRecord) /\ \A u \in 1..Len(ws) : ws[u].num \in Int
    BY WireFields
  <1>3. /\ new.num = ws[w].num - 1 /\ new.readers = ws[w].readers /\ new.id = ws[w].id
        /\ new.value = ws[w].value /\ new.input = ws[w].input
    BY <1>2 DEF WireRecord
  <1> HIDE DEF new
  <1>4. /\ Len(RemoveOutput(ws, w)) = Len(ws)
        /\ \A u \in 1..Len(ws) : RemoveOutput(ws, w)[u] = IF u = w THEN new ELSE ws[u]
    BY <1>1, <1>2
  <1>5. ASSUME NEW u \in 1..Len(ws)
        PROVE  RemoveOutput(ws, w)[u].num = ws[u].num - Is(w, u)
    BY <1>2, <1>3, <1>4 DEF Is
  <1> QED
    BY <1>3, <1>4, <1>5 DEF Unmoved, Loses

\* Gate g reads wire w2 where it read w.
Moves(ws, ws2, g, w, w2) ==
    \A u \in 1..Len(ws) :
      /\ ws2[u].num = ws[u].num - Is(w, u) + Is(w2, u)
      /\ \/ ws2[u].readers = ws[u].readers /\ (u = w2 => w = w2)
         \/ u = w2 /\ Added(ws[u].readers, g, ws2[u].readers)

\* A gate moves from one wire to another.
LEMMA MovedMoves ==
  ASSUME NEW n \in Nat, NEW ws, WiresTyped(ws, n), NEW g \in 1..n,
         NEW w \in 1..Len(ws), NEW w2 \in 1..Len(ws)
  PROVE  /\ WiresTyped(Moved(ws, g, w, w2), n) /\ Unmoved(ws, Moved(ws, g, w, w2))
         /\ Moves(ws, Moved(ws, g, w, w2), g, w, w2)
  <1> DEFINE mid == RemoveOutput(ws, w)
             ws2 == Moved(ws, g, w, w2)
  <1>1. /\ Unmoved(ws, mid) /\ Loses(ws, mid, w)
        /\ WiresTyped(mid, n) /\ Len(mid) = Len(ws)
    BY RemoveOutputLoses, RemoveOutputSame DEF SameWires
  <1>2. ws2 = AddOutput(mid, w2, g)
    BY Zenon DEF Moved
  <1> HIDE DEF mid, ws2
  <1>3. Unmoved(mid, ws2) /\ Gains(mid, ws2, w2, g) /\ WiresTyped(ws2, n)
    BY <1>1, <1>2, AddOutputGains, AddOutputSame DEF SameWires
  <1>4. Unmoved(ws, ws2)
    BY <1>1, <1>3 DEF Unmoved
  <1>5. Moves(ws, ws2, g, w, w2)
    BY <1>1, <1>3 DEF Loses, Gains, Moves
  <1> QED
    BY <1>3, <1>4, <1>5 DEF ws2

\* An operand is read from its constant wire, if it is constant.
LEMMA SettledMoves ==
  ASSUME NInv, NEW ws, WiresTyped(ws, Len(gate)), Len(ws) = Len(wire),
         NEW g \in 1..Len(gate), NEW w \in 1..Len(wire)
  PROVE  /\ WiresTyped(Settled(ws, g, w), Len(gate))
         /\ Unmoved(ws, Settled(ws, g, w))
         /\ Moves(ws, Settled(ws, g, w), g, w, ConstWire(w))
         /\ wire[w].value = "?" => Settled(ws, g, w) = ws /\ ConstWire(w) = w
  <1>1. CASE wire[w].value = "?"
    <2>1. Settled(ws, g, w) = ws
      BY <1>1 DEF Settled
    <2>2. \A u \in 1..Len(ws) : ws[u].num \in Int
      BY WireFields
    <2> QED
      BY <1>1, <2>1, <2>2 DEF Unmoved, Moves, Is, ConstWire
  <1>2. CASE wire[w].value # "?"
    <2>1. Settled(ws, g, w) = Moved(ws, g, w, ConstWire(w))
      BY <1>2 DEF Settled
    <2>2. w \in 1..Len(ws) /\ ConstWire(w) \in 1..Len(ws) /\ Len(gate) \in Nat
      BY ConstWireMeans, NetlistFacts
    <2> QED
      BY <1>2, <2>1, <2>2, MovedMoves
  <1> QED
    BY <1>1, <1>2

(***************************************************************************)
(* What the steps do to gates                                              *)
(***************************************************************************)
\* Gate h reads a and b, nothing else changes.
NowReads(gs, gs2, h, a, b) ==
    /\ Len(gs2) = Len(gs)
    /\ \A g \in 1..Len(gs) :
         /\ gs2[g].op = gs[g].op /\ gs2[g].O = gs[g].O
         /\ gs2[g].A = IF g = h THEN a ELSE gs[g].A
         /\ gs2[g].B = IF g = h THEN b ELSE gs[g].B

\* A gate that is replaced by one of the same operation and output.
LEMMA GateSet ==
  ASSUME NEW gs \in Seq(GateRecord), NEW h \in 1..Len(gs), NEW new \in GateRecord,
         new.op = gs[h].op, new.O = gs[h].O
  PROVE  NowReads(gs, [gs EXCEPT ![h] = new], h, new.A, new.B)
  <1>1. /\ Len([gs EXCEPT ![h] = new]) = Len(gs)
        /\ \A g \in 1..Len(gs) : [gs EXCEPT ![h] = new][g] = IF g = h THEN new ELSE gs[g]
    OBVIOUS
  <1> QED
    BY <1>1 DEF NowReads

\* One operand of a gate, or both.
LEMMA OperandSet ==
  ASSUME NEW gs \in Seq(GateRecord), NEW h \in 1..Len(gs), NEW a \in Nat
  PROVE  /\ NowReads(gs, [gs EXCEPT ![h].A = a], h, a, gs[h].B)
         /\ NowReads(gs, [gs EXCEPT ![h].B = a], h, gs[h].A, a)
  <1> DEFINE na == [gs[h] EXCEPT !.A = a]
             nb == [gs[h] EXCEPT !.B = a]
  <1>1. gs[h] \in GateRecord
    OBVIOUS
  <1>2. /\ na \in GateRecord /\ na.op = gs[h].op /\ na.O = gs[h].O /\ na.A = a /\ na.B = gs[h].B
        /\ nb \in GateRecord /\ nb.op = gs[h].op /\ nb.O = gs[h].O /\ nb.A = gs[h].A /\ nb.B = a
    BY <1>1 DEF GateRecord
  <1>3. /\ [gs EXCEPT ![h].A = a] = [gs EXCEPT ![h] = na]
        /\ [gs EXCEPT ![h].B = a] = [gs EXCEPT ![h] = nb]
    BY Zenon
  <1> HIDE DEF na, nb
  <1>4. /\ NowReads(gs, [gs EXCEPT ![h] = na], h, na.A, na.B)
        /\ NowReads(gs, [gs EXCEPT ![h] = nb], h, nb.A, nb.B)
    BY <1>2, GateSet
  <1> QED
    BY <1>2, <1>3, <1>4, Zenon

\* Both operands of a gate are set at once.
LEMMA OperandsSet ==
  ASSUME NEW gs \in Seq(GateRecord), NEW h \in 1..Len(gs), NEW a \in Nat, NEW b \in Nat
  PROVE  NowReads(gs, [gs EXCEPT ![h].A = a, ![h].B = b], h, a, b)
  <1> DEFINE new == [gs[h] EXCEPT !.A = a, !.B = b]
  <1>1. gs[h] \in GateRecord
    OBVIOUS
  <1>2. new \in GateRecord /\ new.op = gs[h].op /\ new.O = gs[h].O /\ new.A = a /\ new.B = b
    BY <1>1 DEF GateRecord
  <1>3. [gs EXCEPT ![h].A = a, ![h].B = b] = [gs EXCEPT ![h] = new]
    BY <1>1
  <1> HIDE DEF new
  <1> QED
    BY <1>2, <1>3, GateSet

\* Redirect moves the first operand that reads the wire, or finds none.
LEMMA RedirectEffect ==
  ASSUME NInv, Redirect
  PROVE  LET h == Head(todo) from == gate[G].O IN
         /\ h \in 1..Len(gate) /\ from \in 1..Len(wire) /\ target \in 1..Len(wire)
         /\ G \in 1..Len(gate)
         /\ \/ /\ gate[h].A = from \/ gate[h].B = from
               /\ \/ gate[h].A = from /\ NowReads(gate, gate', h, target, gate[h].B)
                  \/ gate[h].A # from /\ NowReads(gate, gate', h, gate[h].A, target)
               /\ Unmoved(wire, wire') /\ Moves(wire, wire', h, from, target)
               /\ panicked' = panicked
            \/ gate[h].A # from /\ gate[h].B # from /\ gate' = gate /\ wire' = wire
  <1> DEFINE h == Head(todo)
             from == gate[G].O
  <1>1. InLoop /\ target \in 1..Len(wire)
    BY NetlistFacts DEF NInv, LoopsTyped, LoopsSound, InLoop, Nil, Redirect
  <1>2. h \in 1..Len(gate)
    BY HeadTail DEF NInv, LoopsTyped, Redirect
  <1>3. G \in 1..Len(gate) /\ from \in 1..Len(wire)
    BY <1>1, InLoopGate, GateFacts
  <1>4. WiresTyped(wire, Len(gate)) /\ gate \in Seq(GateRecord) /\ Len(gate) \in Nat
    BY NetlistFacts DEF NInv, Sound, GatesTyped
  <1>5. Unmoved(wire, Moved(wire, h, from, target))
        /\ Moves(wire, Moved(wire, h, from, target), h, from, target)
    BY <1>1, <1>2, <1>3, <1>4, MovedMoves
  <1>6. /\ NowReads(gate, [gate EXCEPT ![h].A = target], h, target, gate[h].B)
        /\ NowReads(gate, [gate EXCEPT ![h].B = target], h, gate[h].A, target)
    <2>1. target \in Nat
      BY <1>1, NetlistFacts
    <2> QED
      BY <1>2, <1>4, <2>1, OperandSet, Zenon
  <1> QED
    BY <1>1, <1>2, <1>3, <1>5, <1>6 DEF Redirect

\* The operands after Rewire.
NowA == ConstWire(gate[G].A)
\* The second operand after Rewire.
NowB == IF gate[G].B = Nil THEN Nil ELSE ConstWire(gate[G].B)

\* Rewire moves two operands, those that are constant to another wire.
LEMMA RewireEffect ==
  ASSUME NInv, Rewire
  PROVE  /\ i \in 1..Len(list) /\ G \in 1..Len(gate)
         /\ NowA \in 1..Len(wire) /\ NowB \in Nat
         /\ NowReads(gate, gate', G, NowA, NowB)
         /\ Unmoved(wire, wire')
         /\ \A u \in 1..Len(wire) :
              /\ wire'[u].num = wire[u].num - Is(gate[G].A, u) + Is(NowA, u)
                                            - Is(gate[G].B, u) + Is(NowB, u)
              /\ \A h \in 1..Len(gate) :
                   Occurrences(wire'[u].readers, h) >= Occurrences(wire[u].readers, h)
              /\ \/ wire'[u].readers = wire[u].readers
                 \/ u = NowA /\ ValueA # "?"
                 \/ u = NowB /\ NowB # Nil /\ ValueB # "?"
              /\ (u = NowA /\ NowA # gate[G].A) \/ (u = NowB /\ NowB # gate[G].B)
                   => Occurrences(wire'[u].readers, G) > 0
  <1> DEFINE a == gate[G].A
             b == gate[G].B
             n == Len(gate)
             mid == Settled(wire, G, a)
             last == IF b = Nil THEN mid ELSE Settled(mid, G, b)
  <1>1. InLoop /\ G \in 1..n
    BY InLoopGate DEF NInv, LoopsSound, InLoop, Rewire
  <1>2. /\ a \in 1..Len(wire)
        /\ gate[G].op = "INV" => b = Nil
        /\ gate[G].op # "INV" => b \in 1..Len(wire)
    BY <1>1, GateFacts
  <1>3. /\ WiresTyped(wire, n) /\ gate \in Seq(GateRecord) /\ n \in Nat /\ Len(wire) \in Nat
        /\ Nil \notin 1..Len(wire)
    BY NetlistFacts DEF NInv, Sound, GatesTyped, Nil
  <1>4. /\ NowA \in 1..Len(wire) /\ NowB \in Nat
        /\ b = Nil => NowB = Nil
        /\ b # Nil => NowB \in 1..Len(wire) /\ NowB = ConstWire(b)
    BY <1>2, <1>3, ConstWireMeans DEF NowA, NowB, Nil
  <1>5. gate' = [gate EXCEPT ![G].A = NowA, ![G].B = NowB] /\ wire' = last
    BY Zenon DEF Rewire, NowA, NowB
  <1>6. NowReads(gate, gate', G, NowA, NowB)
    <2>1. NowA \in Nat
      BY <1>3, <1>4
    <2>2. NowReads(gate, [gate EXCEPT ![G].A = NowA, ![G].B = NowB], G, NowA, NowB)
      BY <1>1, <1>3, <1>4, <2>1, OperandsSet, Zenon
    <2> QED
      BY <1>5, <2>2, Zenon
  <1>a. ValueA = "?" => mid = wire
    BY <1>1, <1>2, <1>3, SettledMoves DEF ValueA
  <1>8. /\ WiresTyped(mid, n) /\ Unmoved(wire, mid) /\ Len(mid) = Len(wire)
        /\ Moves(wire, mid, G, a, NowA)
    BY <1>1, <1>2, <1>3, SettledMoves DEF NowA, Unmoved
  <1> HIDE DEF mid
  <1>9. b # Nil => /\ WiresTyped(last, n) /\ Unmoved(mid, last)
                   /\ Moves(mid, last, G, b, NowB)
    BY <1>1, <1>2, <1>3, <1>4, <1>8, SettledMoves
  <1>b. b # Nil /\ ValueB = "?" => last = mid
    BY <1>1, <1>2, <1>3, <1>8, SettledMoves DEF ValueB
  <1>10. b = Nil => last = mid
    OBVIOUS
  <1> HIDE DEF last
  <1>11. Unmoved(wire, wire')
    BY <1>5, <1>8, <1>9, <1>10 DEF Unmoved
  <1>12. ASSUME NEW u \in 1..Len(wire)
         PROVE  /\ wire'[u].num = wire[u].num - Is(a, u) + Is(NowA, u) - Is(b, u) + Is(NowB, u)
                /\ \A h \in 1..n :
                     Occurrences(wire'[u].readers, h) >= Occurrences(wire[u].readers, h)
                /\ \/ wire'[u].readers = wire[u].readers
                   \/ u = NowA /\ ValueA # "?"
                   \/ u = NowB /\ NowB # Nil /\ ValueB # "?"
                /\ (u = NowA /\ NowA # a) \/ (u = NowB /\ NowB # b)
                     => Occurrences(wire'[u].readers, G) > 0
    <2> DEFINE r0 == wire[u].readers
               r1 == mid[u].readers
               r2 == wire'[u].readers
    <2>1. /\ mid[u].num = wire[u].num - Is(a, u) + Is(NowA, u)
          /\ (r1 = r0 /\ (u = NowA => a = NowA)) \/ (u = NowA /\ Added(r0, G, r1))
      BY <1>8 DEF Moves
    <2>2. /\ b # Nil => wire'[u].num = mid[u].num - Is(b, u) + Is(NowB, u)
          /\ b = Nil => wire'[u].num = mid[u].num /\ r2 = r1
          /\ (r2 = r1 /\ (u = NowB => b = NowB)) \/ (u = NowB /\ Added(r1, G, r2))
      BY <1>4, <1>5, <1>8, <1>9, <1>10 DEF Moves
    <2>3. b = Nil => Is(b, u) = 0 /\ Is(NowB, u) = 0
      BY <1>3, <1>4 DEF Is
    <2>4. wire[u].num \in Int /\ r0 \in Seq(1..n) /\ r1 \in Seq(1..n)
      BY <1>3, <1>8, WireFields
    <2> HIDE DEF r0, r1, r2
    <2>5. /\ r1 = r0 \/ Added(r0, G, r1)
          /\ r2 = r1 \/ Added(r1, G, r2)
      BY <2>1, <2>2
    <2>6. \A h \in 1..n : /\ Occurrences(r1, h) >= Occurrences(r0, h)
                          /\ Occurrences(r0, h) \in Nat
                          /\ Added(r0, G, r1) => Occurrences(r1, G) > 0
      BY <1>1, <2>4, <2>5, OccurrencesGrow
    <2>a. \A h \in 1..n : /\ Occurrences(r2, h) >= Occurrences(r1, h)
                          /\ Occurrences(r1, h) \in Nat /\ Occurrences(r2, h) \in Nat
                          /\ Added(r1, G, r2) => Occurrences(r2, G) > 0
      BY <1>1, <2>4, <2>5, OccurrencesGrow
    <2>7. \A h \in 1..n : Occurrences(r2, h) >= Occurrences(r0, h)
      BY <2>6, <2>a
    <2>8. \/ r2 = r0
          \/ u = NowA /\ ValueA # "?"
          \/ u = NowB /\ NowB # Nil /\ ValueB # "?"
      <3>1. ValueA = "?" => r1 = r0
        BY <1>a DEF ValueA, r0, r1
      <3>2. b # Nil /\ ValueB = "?" => r2 = r1
        BY <1>5, <1>b DEF ValueB, r1, r2
      <3>3. r1 = r0 \/ (u = NowA /\ ValueA # "?")
        BY <2>1, <3>1
      <3>4. r2 = r1 \/ (u = NowB /\ NowB # Nil /\ ValueB # "?")
        BY <2>2, <3>2, <1>3, <1>4
      <3> QED
        BY <3>3, <3>4
    <2>9. u = NowA /\ NowA # a => Occurrences(r2, G) > 0
      <3>1. u = NowA /\ NowA # a => Added(r0, G, r1)
        BY <2>1
      <3>2. /\ Added(r0, G, r1) => Occurrences(r1, G) > 0
            /\ Occurrences(r2, G) >= Occurrences(r1, G)
            /\ Occurrences(r1, G) \in Nat /\ Occurrences(r2, G) \in Nat
        BY <1>1, <2>6, <2>a
      <3> QED
        BY <3>1, <3>2
    <2>10. u = NowB /\ NowB # b => Occurrences(r2, G) > 0
      <3>1. u = NowB /\ NowB # b => Added(r1, G, r2)
        BY <2>2
      <3> QED
        BY <1>1, <2>a, <3>1
    <2>11. wire'[u].num = wire[u].num - Is(a, u) + Is(NowA, u) - Is(b, u) + Is(NowB, u)
      <3>1. b = Nil => Is(b, u) = 0 /\ Is(NowB, u) = 0
        BY <2>3
      <3>2. /\ Is(a, u) \in Int /\ Is(b, u) \in Int /\ Is(NowA, u) \in Int /\ Is(NowB, u) \in Int
        BY DEF Is
      <3> QED
        BY <2>1, <2>2, <2>4, <3>1, <3>2, SMTT(40)
    <2> QED
      BY <2>7, <2>8, <2>9, <2>10, <2>11 DEF r0, r2
  <1> QED
    BY <1>1, <1>4, <1>6, <1>11, <1>12 DEF InLoop

(***************************************************************************)
(* A gate more                                                             *)
(***************************************************************************)
MoreGate(ws, gs, op, a, b, ws2, gs2) ==
    LET g == Len(gs) + 1 o == Len(ws) + 1 IN
    /\ Len(gs2) = g /\ Len(ws2) = o
    /\ \A h \in 1..Len(gs) : gs2[h] = gs[h]
    /\ gs2[g].op = op /\ gs2[g].A = a /\ gs2[g].B = b /\ gs2[g].O = o
    /\ \A u \in 1..Len(ws) :
         /\ ws2[u].value = ws[u].value /\ ws2[u].input = ws[u].input /\ ws2[u].id = ws[u].id
         /\ ws2[u].num = ws[u].num + Is(a, u) + Is(b, u)
         /\ \A h \in 1..Len(gs) :
              Occurrences(ws2[u].readers, h) = Occurrences(ws[u].readers, h)
         /\ Occurrences(ws2[u].readers, g) = Is(a, u) + Is(b, u)
    /\ ws2[o].id = Unassigned /\ ws2[o].value = "?" /\ ws2[o].input = g /\ ws2[o].num = 0
    /\ ws2[o].readers = <<>>

\* Readers that were added are new ones.
LEMMA NoneYet ==
  ASSUME NEW n \in Nat, NEW s \in Seq(1..n), NEW h, h \notin 1..n
  PROVE  Occurrences(s, h) = 0
  <1>1. Occurrences(s, h) \in Nat /\ (Occurrences(s, h) > 0 <=> \E k \in 1..Len(s) : s[k] = h)
    BY OccurrencesAre
  <1>2. \A k \in 1..Len(s) : s[k] # h
    OBVIOUS
  <1> QED
    BY <1>1, <1>2

\* Elements that are appended are found.
LEMMA AddedOccurs ==
  ASSUME NEW R, NEW s \in Seq(R), NEW e \in R, NEW t, Added(s, e, t), NEW v
  PROVE  t \in Seq(R) /\ Occurrences(t, v) = Occurrences(s, v) + Is(e, v)
  <1> DEFINE x == Append(s, e)
  <1>1. x \in Seq(R)
    OBVIOUS
  <1>2. Occurrences(x, v) = Occurrences(s, v) + Is(e, v)
    BY OccurrencesAppend
  <1>3. t = x
    BY DEF Added
  <1> HIDE DEF x
  <1> QED
    BY <1>1, <1>2, <1>3

\* BinaryGate and INVGate make a gate more.
LEMMA MoreGateMade ==
  ASSUME NEW ws, NEW gs, NEW ms, Sound(ws, gs, ms), NEW op, NEW a, NEW b,
         NEW ws2, NEW gs2, NEW ms2, GateAdded(ws, gs, ms, op, a, b, ws2, gs2, ms2)
  PROVE  MoreGate(ws, gs, op, a, b, ws2, gs2)
  <1> DEFINE n == Len(gs)
             g == Len(gs) + 1
             o == Len(ws) + 1
             read == AddOutput(ws, a, g)
             both == IF op = "INV" THEN read ELSE AddOutput(read, b, g)
             nw == NewWire(g)
             ng == NewGate(op, a, b, o)
  <1>1. /\ WiresTyped(ws, n) /\ gs \in Seq(GateRecord) /\ n \in Nat /\ Len(ws) \in Nat
        /\ g \in Nat /\ g \in 1..g
    BY DEF Sound, WiresTyped, GatesTyped
  <1>2. /\ op \in AllOps /\ a \in 1..Len(ws)
        /\ op = "INV" => b = Nil
        /\ op # "INV" => b \in 1..Len(ws)
        /\ gs2 = Append(gs, ng)
    BY DEF GateAdded
  <1>3. ws2 = Append(both, nw)
    BY Zenon DEF GateAdded, Connect
  <1>4. WiresTyped(ws, g)
    BY <1>1, MoreGates
  <1>5. Unmoved(ws, read) /\ Gains(ws, read, a, g) /\ WiresTyped(read, g) /\ Len(read) = Len(ws)
    BY <1>1, <1>2, <1>4, AddOutputGains, AddOutputSame DEF SameWires
  <1> HIDE DEF read
  <1>6. op # "INV" => /\ Unmoved(read, both) /\ Gains(read, both, b, g)
                      /\ WiresTyped(both, g) /\ Len(both) = Len(ws)
    BY <1>1, <1>2, <1>5, AddOutputGains, AddOutputSame DEF SameWires
  <1>7. op = "INV" => both = read
    OBVIOUS
  <1> HIDE DEF both
  <1>8. /\ Unmoved(ws, both) /\ WiresTyped(both, g) /\ Len(both) = Len(ws)
    BY <1>5, <1>6, <1>7 DEF Unmoved
  <1>9. ASSUME NEW u \in 1..Len(ws)
        PROVE  /\ both[u].num = ws[u].num + Is(a, u) + Is(b, u)
               /\ \A h \in 1..n :
                    Occurrences(both[u].readers, h) = Occurrences(ws[u].readers, h)
               /\ Occurrences(both[u].readers, g) = Is(a, u) + Is(b, u)
    <2> DEFINE r0 == ws[u].readers
               r1 == read[u].readers
               r2 == both[u].readers
    <2>1. /\ ws[u].num \in Int /\ read[u].num \in Int
          /\ r0 \in Seq(1..n) /\ r0 \in Seq(1..g) /\ r1 \in Seq(1..g)
      BY <1>1, <1>4, <1>5, WireFields
    <2>2. /\ read[u].num = ws[u].num + Is(a, u)
          /\ u = a => Added(r0, g, r1)
          /\ u # a => r1 = r0
      BY <1>5 DEF Gains
    <2>3. /\ op # "INV" => both[u].num = read[u].num + Is(b, u)
          /\ op = "INV" => both[u].num = read[u].num
          /\ u = b => Added(r1, g, r2)
          /\ u # b => r2 = r1
      BY <1>2, <1>5, <1>6, <1>7 DEF Gains, Nil
    <2>4. op = "INV" => Is(b, u) = 0
      BY <1>2 DEF Is, Nil
    <2>5. both[u].num = ws[u].num + Is(a, u) + Is(b, u)
      BY <2>1, <2>2, <2>3, <2>4
    <2> HIDE DEF r0, r1, r2
    <2>6. ASSUME NEW h \in 1..g
          PROVE  Occurrences(r2, h) = Occurrences(r0, h) + (IF h = g THEN Is(a, u) + Is(b, u) ELSE 0)
      <3>1. Occurrences(r1, h) = Occurrences(r0, h) + (IF u = a THEN Is(g, h) ELSE 0)
        <4>1. Occurrences(r0, h) \in Nat
          BY <2>1, OccurrencesAre
        <4>2. ASSUME Added(r0, g, r1)
              PROVE  Occurrences(r1, h) = Occurrences(r0, h) + Is(g, h)
          <5> DEFINE R == 1..g
          <5>1. r0 \in Seq(R) /\ g \in R
            BY <1>1, <2>1
          <5> HIDE DEF R, g
          <5> QED
            BY <4>2, <5>1, AddedOccurs
        <4> QED
          BY <2>2, <4>1, <4>2
      <3>2. Occurrences(r2, h) = Occurrences(r1, h) + (IF u = b THEN Is(g, h) ELSE 0)
        <4>1. Occurrences(r1, h) \in Nat
          BY <2>1, OccurrencesAre
        <4>2. ASSUME Added(r1, g, r2)
              PROVE  Occurrences(r2, h) = Occurrences(r1, h) + Is(g, h)
          <5> DEFINE R == 1..g
          <5>1. r1 \in Seq(R) /\ g \in R
            BY <1>1, <2>1
          <5> HIDE DEF R, g
          <5> QED
            BY <4>2, <5>1, AddedOccurs
        <4> QED
          BY <2>3, <4>1, <4>2
      <3>3. Occurrences(r0, h) \in Nat
        BY <2>1, OccurrencesAre
      <3> HIDE DEF g
      <3> QED
        BY <3>1, <3>2, <3>3 DEF Is
    <2>7. \A h \in 1..n : h \in 1..g /\ h # g
      BY <1>1
    <2>8. \A h \in 1..n : Occurrences(r2, h) = Occurrences(r0, h)
      <3> TAKE h \in 1..n
      <3>1. Occurrences(r0, h) \in Nat
        BY <2>1, OccurrencesAre
      <3> QED
        BY <2>6, <2>7, <3>1
    <2>9. Occurrences(r0, g) = 0
      BY <1>1, <2>1, NoneYet
    <2>10. Occurrences(r2, g) = Is(a, u) + Is(b, u)
      BY <1>1, <2>6, <2>9 DEF Is
    <2> QED
      BY <2>5, <2>8, <2>10 DEF r0, r2
  <1>10. /\ ng.op = op /\ ng.A = a /\ ng.B = b /\ ng.O = o /\ ng \in GateRecord
         /\ nw.id = Unassigned /\ nw.value = "?" /\ nw.num = 0 /\ nw.input = g
         /\ nw.readers = <<>> /\ nw \in WireRecord
    <2>1. nw \in WireRecord
      BY <1>1, NewWireTyped
    <2>2. ng \in GateRecord
      BY <1>1, <1>2 DEF NewGate, GateRecord, AllOps, Nil
    <2> QED
      BY <2>1, <2>2 DEF NewGate, NewWire
  <1> HIDE DEF ng, nw
  <1>11. /\ Len(gs2) = g /\ gs2[g] = ng
         /\ \A h \in 1..n : gs2[h] = gs[h]
    BY <1>1, <1>2, <1>10, Appended
  <1>12. both \in Seq(WireRecord)
    BY <1>8 DEF WiresTyped
  <1>13. /\ Len(ws2) = o /\ ws2[o] = nw
         /\ \A u \in 1..Len(ws) : ws2[u] = both[u]
    BY <1>3, <1>8, <1>10, <1>12, Appended
  <1> QED
    BY <1>8, <1>9, <1>10, <1>11, <1>13 DEF MoreGate, Unmoved

(***************************************************************************)
(* The shape of the netlist                                                *)
(***************************************************************************)
\* The first operands of gates, and the second ones.
As(gs) == [g \in 1..Len(gs) |-> gs[g].A]
Bs(gs) == [g \in 1..Len(gs) |-> gs[g].B]

\* Gate g was added with wire NumInputs + g, later gates drive later wires.
Wired(ws, gs) ==
    /\ Len(ws) >= NumInputs + Len(gs)
    /\ \A w \in 1..Len(ws) :
         ws[w].input = IF w \in (NumInputs + 1)..(NumInputs + Len(gs))
                       THEN w - NumInputs ELSE Nil
    /\ \A g \in 1..Len(gs) :
         /\ gs[g].A < NumInputs + g /\ gs[g].B < NumInputs + g
         /\ gs[g].O >= NumInputs + g
    /\ \A g, h \in 1..Len(gs) : gs[g].O = gs[h].O => g = h

\* Until outputs are exchanged.
OutputsInOrder(ws, gs) ==
    /\ Len(ws) = NumInputs + Len(gs)
    /\ \A g \in 1..Len(gs) : gs[g].O = NumInputs + g
    /\ \A w \in 1..Len(ws) : w <= NumInputs + 1 => ws[w].value = "?"

\* The number of readers of a wire is the number of operands that read it.
Counted(ws, gs, S) ==
    \A w \in 1..Len(ws) : ws[w].num = Number(As(gs), S, w) + Number(Bs(gs), S, w)

\* From wire lo on, a gate is in the list of readers as often as it reads.
ReadersExact(ws, gs, lo) ==
    \A w \in lo..(NumInputs + Len(gs)) : \A h \in 1..Len(gs) :
      Occurrences(ws[w].readers, h) = Is(gs[h].A, w) + Is(gs[h].B, w)

\* A gate is in the list of the wires it reads.
Listed(ws, gs) ==
    \A w \in 1..Len(ws) : \A h \in 1..Len(gs) :
      gs[h].A = w \/ gs[h].B = w => Occurrences(ws[w].readers, h) > 0

\* What builders make.
Built(ws, gs) ==
    /\ Wired(ws, gs) /\ OutputsInOrder(ws, gs) /\ Counted(ws, gs, 1..Len(gs))
    /\ ReadersExact(ws, gs, NumInputs + 1) /\ Listed(ws, gs)

\* Numbers of operands when there is a gate more.
LEMMA NumberMoreGate ==
  ASSUME NEW gs, NEW gs2, Len(gs) \in Nat, Len(gs2) = Len(gs) + 1,
         \A h \in 1..Len(gs) : gs2[h] = gs[h], NEW w
  PROVE  /\ Number(As(gs2), 1..Len(gs2), w)
              = Number(As(gs), 1..Len(gs), w) + Is(gs2[Len(gs) + 1].A, w)
         /\ Number(Bs(gs2), 1..Len(gs2), w)
              = Number(Bs(gs), 1..Len(gs), w) + Is(gs2[Len(gs) + 1].B, w)
  <1> DEFINE S == 1..Len(gs)
             x == Len(gs) + 1
             a == As(gs)
             a2 == As(gs2)
             b == Bs(gs)
             b2 == Bs(gs2)
  <1>1. IsFiniteSet(S) /\ x \notin S /\ 1..Len(gs2) = S \cup {x}
    <2>1. x \notin S /\ 1..x = S \cup {x}
      OBVIOUS
    <2>2. IsFiniteSet(S)
      BY FS_Interval
    <2> QED
      BY <2>1, <2>2
  <1>2. /\ \A y \in S : a2[y] = a[y] /\ b2[y] = b[y]
        /\ a2[x] = gs2[x].A /\ b2[x] = gs2[x].B
    BY DEF As, Bs
  <1> HIDE DEF S, x, a, a2, b, b2
  <1>3. Number(a2, S \cup {x}, w) = Number(a, S, w) + Is(a2[x], w)
    <2>1. \A y \in S : a2[y] = a[y]
      BY <1>2
    <2> QED
      BY <1>1, <2>1, NumberAdd
  <1>4. Number(b2, S \cup {x}, w) = Number(b, S, w) + Is(b2[x], w)
    <2>1. \A y \in S : b2[y] = b[y]
      BY <1>2
    <2> QED
      BY <1>1, <2>1, NumberAdd
  <1> QED
    BY <1>1, <1>2, <1>3, <1>4 DEF S, x, a, a2, b, b2

\* Builders keep the shape.
LEMMA MoreGateBuilt ==
  ASSUME NEW ws, NEW gs, NEW ms, Sound(ws, gs, ms), Built(ws, gs),
         NEW op, NEW a \in 1..Len(ws), NEW b \in 0..Len(ws),
         NEW ws2, NEW gs2, MoreGate(ws, gs, op, a, b, ws2, gs2)
  PROVE  Built(ws2, gs2)
  <1> DEFINE n == Len(gs)
             g == n + 1
             m == Len(ws)
             o == m + 1
  <1>1. /\ n \in Nat /\ m \in Nat /\ NumInputs \in Nat /\ m = NumInputs + n
        /\ NumInputs >= 1
    BY NetlistAssumption DEF Sound, WiresTyped, GatesTyped, Built, OutputsInOrder
  <1>2. /\ Len(gs2) = g /\ Len(ws2) = o
        /\ \A h \in 1..n : gs2[h] = gs[h]
        /\ gs2[g].op = op /\ gs2[g].A = a /\ gs2[g].B = b /\ gs2[g].O = o
    BY DEF MoreGate
  <1>3. \A u \in 1..m :
         /\ ws2[u].value = ws[u].value /\ ws2[u].input = ws[u].input
         /\ ws2[u].num = ws[u].num + Is(a, u) + Is(b, u)
         /\ Occurrences(ws2[u].readers, g) = Is(a, u) + Is(b, u)
         /\ \A h \in 1..n : Occurrences(ws2[u].readers, h) = Occurrences(ws[u].readers, h)
    BY DEF MoreGate
  <1>4. ws2[o].value = "?" /\ ws2[o].input = g /\ ws2[o].num = 0 /\ ws2[o].readers = <<>>
    BY DEF MoreGate
  <1>5. ASSUME NEW h \in 1..n
        PROVE  /\ gs[h].A \in 1..m /\ gs[h].B \in 0..m
               /\ gs[h].A < NumInputs + h /\ gs[h].B < NumInputs + h
               /\ gs[h].O = NumInputs + h
    <2>1. gs[h].A \in 1..m /\ (gs[h].op = "INV" => gs[h].B = Nil)
          /\ (gs[h].op # "INV" => gs[h].B \in 1..m)
      BY DEF Sound, GatesTyped
    <2> QED
      BY <2>1, <1>1, SMTT(40) DEF Built, Wired, OutputsInOrder, Nil
  <1>6. \A u \in 1..o : u \in 1..m \/ u = o
    BY <1>1
  <1>7. \A h \in 1..g : h \in 1..n \/ h = g
    BY <1>1
  <1>8. OutputsInOrder(ws2, gs2)
    <2>1. \A u \in 1..m : u <= NumInputs + 1 => ws2[u].value = "?"
      BY <1>3 DEF Built, OutputsInOrder
    <2>2. \A u \in 1..o : u <= NumInputs + 1 => ws2[u].value = "?"
      BY <1>4, <1>6, <2>1
    <2>3. \A h \in 1..g : gs2[h].O = NumInputs + h
      <3> TAKE h \in 1..g
      <3>1. CASE h = g
        BY <1>1, <1>2, <3>1
      <3>2. CASE h \in 1..n
        BY <1>2, <1>5, <3>2
      <3> QED
        BY <1>7, <3>1, <3>2
    <2>4. o = NumInputs + g
      BY <1>1
    <2> QED
      BY <1>2, <2>2, <2>3, <2>4 DEF OutputsInOrder
  <1>9. Wired(ws2, gs2)
    <2>1. ASSUME NEW u \in 1..o
          PROVE  ws2[u].input = IF u \in (NumInputs + 1)..(NumInputs + g)
                                THEN u - NumInputs ELSE Nil
      <3>1. CASE u = o
        BY <1>1, <1>4, <3>1
      <3>2. CASE u \in 1..m
        <4>1. ws[u].input = IF u \in (NumInputs + 1)..(NumInputs + n)
                            THEN u - NumInputs ELSE Nil
          BY <3>2 DEF Built, Wired
        <4>2. u \in (NumInputs + 1)..(NumInputs + g) <=> u \in (NumInputs + 1)..(NumInputs + n)
          BY <1>1, <3>2
        <4> QED
          BY <1>3, <3>2, <4>1, <4>2
      <3> QED
        BY <1>6, <3>1, <3>2
    <2>2. \A h \in 1..g : /\ gs2[h].A < NumInputs + h /\ gs2[h].B < NumInputs + h
                          /\ gs2[h].O = NumInputs + h
      <3> TAKE h \in 1..g
      <3>1. CASE h = g
        BY <1>1, <1>2, <3>1
      <3>2. CASE h \in 1..n
        BY <1>2, <1>5, <3>2
      <3> QED
        BY <1>7, <3>1, <3>2
    <2> QED
      BY <1>1, <1>2, <2>1, <2>2 DEF Wired
  <1>10. Counted(ws2, gs2, 1..g)
    <2> SUFFICES ASSUME NEW u \in 1..o
                 PROVE  ws2[u].num = Number(As(gs2), 1..g, u) + Number(Bs(gs2), 1..g, u)
      BY <1>2 DEF Counted
    <2>1. /\ Number(As(gs2), 1..g, u) = Number(As(gs), 1..n, u) + Is(a, u)
          /\ Number(Bs(gs2), 1..g, u) = Number(Bs(gs), 1..n, u) + Is(b, u)
      <3>1. /\ Len(gs) \in Nat /\ Len(gs2) = Len(gs) + 1
            /\ \A h \in 1..Len(gs) : gs2[h] = gs[h]
        BY <1>1, <1>2
      <3>2. /\ Number(As(gs2), 1..Len(gs2), u)
                 = Number(As(gs), 1..Len(gs), u) + Is(gs2[Len(gs) + 1].A, u)
            /\ Number(Bs(gs2), 1..Len(gs2), u)
                 = Number(Bs(gs), 1..Len(gs), u) + Is(gs2[Len(gs) + 1].B, u)
        BY ONLY <3>1, NumberMoreGate
      <3> QED
        BY <1>2, <3>2
    <2>2. Number(As(gs), 1..n, u) \in Nat /\ Number(Bs(gs), 1..n, u) \in Nat
      <3>1. IsFiniteSet(1..n)
        BY <1>1, FS_Interval
      <3> QED
        BY <3>1, NumberIsNat
    <2>a. /\ Number(As(gs), 1..n, u) > 0 <=> \E h \in 1..n : As(gs)[h] = u
          /\ Number(Bs(gs), 1..n, u) > 0 <=> \E h \in 1..n : Bs(gs)[h] = u
      <3>1. IsFiniteSet(1..n)
        BY <1>1, FS_Interval
      <3> QED
        BY <3>1, NumberIsNat
    <2>3. CASE u \in 1..m
      <3>1. ws[u].num = Number(As(gs), 1..n, u) + Number(Bs(gs), 1..n, u)
        BY <2>3 DEF Built, Counted
      <3>2. ws2[u].num = ws[u].num + Is(a, u) + Is(b, u)
        BY <1>3, <2>3
      <3>3. Is(a, u) \in Int /\ Is(b, u) \in Int
        BY DEF Is
      <3> QED
        BY <2>1, <2>2, <3>1, <3>2, <3>3
    <2>4. CASE u = o
      <3>1. \A h \in 1..n : As(gs)[h] # o /\ Bs(gs)[h] # o
        BY <1>1, <1>5 DEF As, Bs
      <3>2. Number(As(gs), 1..n, u) = 0 /\ Number(Bs(gs), 1..n, u) = 0
        BY <2>2, <2>4, <2>a, <3>1
      <3>3. Is(a, u) = 0 /\ Is(b, u) = 0
        BY <1>1, <2>4 DEF Is
      <3> QED
        BY <1>4, <2>1, <2>4, <3>2, <3>3
    <2> QED
      BY <1>6, <2>3, <2>4
  <1>11. ASSUME NEW u \in 1..o, NEW h \in 1..g
         PROVE  u \in (NumInputs + 1)..o \/ (gs2[h].A = u \/ gs2[h].B = u)
                  => /\ u \in (NumInputs + 1)..o
                          => Occurrences(ws2[u].readers, h) = Is(gs2[h].A, u) + Is(gs2[h].B, u)
                     /\ gs2[h].A = u \/ gs2[h].B = u => Occurrences(ws2[u].readers, h) > 0
    <2>1. CASE u = o
      <3>1. Occurrences(ws2[u].readers, h) = 0
        BY <1>4, <2>1, OccurrencesEmpty
      <3>2. gs2[h].A # u /\ gs2[h].B # u
        BY <1>1, <1>2, <1>5, <1>7, <2>1
      <3> QED
        BY <3>1, <3>2 DEF Is
    <2>2. CASE u \in 1..m /\ h = g
      BY <1>2, <1>3, <2>2 DEF Is
    <2>3. CASE u \in 1..m /\ h \in 1..n
      <3>1. Occurrences(ws2[u].readers, h) = Occurrences(ws[u].readers, h) /\ gs2[h] = gs[h]
        BY <1>2, <1>3, <2>3
      <3>2. u \in (NumInputs + 1)..o
              => Occurrences(ws[u].readers, h) = Is(gs[h].A, u) + Is(gs[h].B, u)
        BY <1>1, <2>3 DEF Built, ReadersExact
      <3>3. gs[h].A = u \/ gs[h].B = u => Occurrences(ws[u].readers, h) > 0
        BY <2>3 DEF Built, Listed
      <3> QED
        BY <3>1, <3>2, <3>3
    <2> QED
      BY <1>6, <1>7, <2>1, <2>2, <2>3
  <1>12. ReadersExact(ws2, gs2, NumInputs + 1)
    BY <1>1, <1>2, <1>11 DEF ReadersExact
  <1>13. Listed(ws2, gs2)
    BY <1>2, <1>11 DEF Listed
  <1> QED
    BY <1>2, <1>8, <1>9, <1>10, <1>12, <1>13 DEF Built

\* The phases before the first exchange of outputs, and those of Compile.
Building == {"build", "const", "redirect", "rewire"}
Numbering == {"assign", "emit", "done"}
Alive == (1..Len(gate)) \ dead

\* The loops run over all gates, in the order of their numbers, until Prune
\* leaves a list of those that are not dead.
Listing ==
    /\ phase \in Building \cup {"xorA", "xorB", "prune"} \cup Numbering
    /\ dead \subseteq 1..Len(gate)
    /\ phase \notin Numbering =>
         Len(list) = Len(gate) /\ \A k \in 1..Len(gate) : list[k] = k
    /\ phase \notin Numbering \cup {"prune"} => dead = {}
    /\ phase = "build" => i = 1
    /\ phase \in {"const", "xorA"} => i \in 1..(Len(gate) + 1)
    /\ phase \in {"redirect", "rewire", "xorB"} => i \in 1..Len(gate)
    /\ phase = "prune" =>
         /\ i \in 0..Len(gate) /\ dead \subseteq (i + 1)..Len(gate)
         /\ \A g \in Alive : g > i => \E k \in 1..Len(kept) : kept[k] = g
    /\ phase \in Numbering => \A g \in Alive : \E k \in 1..Len(list) : list[k] = g

\* The gates of the constant wires.
FirstGates(gs) ==
    /\ Len(gs) >= 3
    /\ gs[1].op = "INV" /\ gs[1].A = 1 /\ gs[1].B = Nil
    /\ \A g \in {2, 3} : gs[g].A = 1 /\ gs[g].B = NumInputs + 1

\* The netlist has its shape in every phase, and more of it before exchanges.
Shape ==
    /\ Wired(wire, gate) /\ Listed(wire, gate) /\ Len(gate) >= 3
    /\ phase \in Building => OutputsInOrder(wire, gate) /\ FirstGates(gate)

\* The outputs are distinct wires that no gate reads.
OutputsFree ==
    \A k \in 1..Len(outputs) :
      /\ outputs[k] \in (NumInputs + 4)..(NumInputs + Len(gate))
      /\ \A l \in 1..Len(outputs) : outputs[k] = outputs[l] => k = l
      /\ \A g \in 1..Len(gate) : gate[g].A # outputs[k] /\ gate[g].B # outputs[k]

\* ConstPropagate has not yet touched the readers of the wires it comes to.
ReadersKnown ==
    /\ phase \in {"build", "const"} => ReadersExact(wire, gate, NumInputs + i)
    /\ phase \in {"redirect", "rewire"} => ReadersExact(wire, gate, NumInputs + i + 1)
    /\ phase = "redirect" =>
         /\ target < NumInputs + i /\ i > 3 /\ ~Output(target) /\ ~Output(NumInputs + i)
         /\ \A h \in 1..Len(gate) :
              Occurrences(todo, h) = Is(gate[h].A, NumInputs + i) + Is(gate[h].B, NumInputs + i)

\* What holds of readers in every phase.
Structure == Listing /\ Shape /\ OutputsFree /\ ReadersKnown
KInv == Structure /\ Counted(wire, gate, Alive)

(***************************************************************************)
(* Initially                                                               *)
(***************************************************************************)
\* A wire's value is no matter of its readers.
SameReaders(ws, ws2) ==
    /\ Len(ws2) = Len(ws)
    /\ \A w \in 1..Len(ws) : /\ ws2[w].input = ws[w].input /\ ws2[w].num = ws[w].num
                             /\ ws2[w].readers = ws[w].readers

\* The number of readers depends on the numbers and the gates.
LEMMA SameReadersKeep ==
  ASSUME NEW ws, NEW ws2, NEW gs, Len(ws) = Len(ws2),
         \A w \in 1..Len(ws) : ws2[w].num = ws[w].num,
         NEW S, Counted(ws, gs, S)
  PROVE  Counted(ws2, gs, S)
  BY DEF Counted

\* A wire that is given a value.
LEMMA ValueSetEffect ==
  ASSUME NEW ws \in Seq(WireRecord), NEW w \in 1..Len(ws), NEW v \in {"?", "0", "1"},
         NEW ws2, ValueSet(ws, w, v, ws2)
  PROVE  /\ ws2 \in Seq(WireRecord) /\ SameReaders(ws, ws2)
         /\ \A u \in 1..Len(ws) : /\ ws2[u].value = IF u = w THEN v ELSE ws[u].value
                                  /\ ws2[u].id = ws[u].id
  <1> DEFINE new == [ws[w] EXCEPT !.value = v]
  <1>1. ws2 = [ws EXCEPT ![w] = new]
    BY Zenon DEF ValueSet
  <1>2. ws[w] \in WireRecord
    OBVIOUS
  <1>3. /\ new \in WireRecord /\ new.value = v /\ new.input = ws[w].input
        /\ new.readers = ws[w].readers /\ new.num = ws[w].num /\ new.id = ws[w].id
    BY <1>2 DEF WireRecord
  <1> HIDE DEF new
  <1>4. /\ ws2 \in Seq(WireRecord) /\ Len(ws2) = Len(ws) /\ ws2[w] = new
        /\ \A u \in 1..Len(ws) : u # w => ws2[u] = ws[u]
    BY <1>1, <1>3
  <1> QED
    BY <1>3, <1>4 DEF SameReaders

\* Wires that differ in values only have the same readers.
LEMMA SameReadersBuilt ==
  ASSUME NEW ws, NEW ws2, NEW gs, SameReaders(ws, ws2), Len(gs) \in Nat
  PROVE  /\ Wired(ws, gs) => Wired(ws2, gs)
         /\ \A S : Counted(ws, gs, S) => Counted(ws2, gs, S)
         /\ \A lo \in Nat : Len(ws) >= NumInputs + Len(gs) /\ lo > 0
              => (ReadersExact(ws, gs, lo) => ReadersExact(ws2, gs, lo))
         /\ Listed(ws, gs) => Listed(ws2, gs)
  <1>1. Wired(ws, gs) => Wired(ws2, gs)
    BY DEF Wired, SameReaders
  <1>2. \A S : Counted(ws, gs, S) => Counted(ws2, gs, S)
    BY SameReadersKeep DEF SameReaders
  <1>3. ASSUME NEW lo \in Nat, Len(ws) >= NumInputs + Len(gs), lo > 0, ReadersExact(ws, gs, lo)
        PROVE  ReadersExact(ws2, gs, lo)
    <2>1. \A w \in lo..(NumInputs + Len(gs)) : ws2[w].readers = ws[w].readers
      <3> TAKE w \in lo..(NumInputs + Len(gs))
      <3>1. w \in 1..Len(ws)
        BY <1>3, NetlistAssumption
      <3> QED
        BY <3>1 DEF SameReaders
    <2> QED
      BY <1>3, <2>1 DEF ReadersExact
  <1>4. Listed(ws, gs) => Listed(ws2, gs)
    BY DEF Listed, SameReaders
  <1> QED
    BY <1>1, <1>2, <1>3, <1>4

\* The input wires alone have that shape.
LEMMA InputsBuilt ==
  ASSUME NEW ws, ws = [w \in 1..NumInputs |-> NewWire(Nil)], NEW gs, gs = <<>>
  PROVE  /\ Built(ws, gs)
         /\ \A w \in 1..NumInputs : ws[w].id = Unassigned
  <1>1. NumInputs \in Nat /\ Len(ws) = NumInputs /\ Len(gs) = 0
    BY NetlistAssumption
  <1>2. \A w \in 1..NumInputs : /\ ws[w].id = Unassigned /\ ws[w].value = "?" /\ ws[w].num = 0
                                /\ ws[w].input = Nil
    BY DEF NewWire
  <1>3. 1..Len(gs) = {}
    BY <1>1
  <1>4. Wired(ws, gs) /\ OutputsInOrder(ws, gs) /\ ReadersExact(ws, gs, NumInputs + 1)
        /\ Listed(ws, gs)
    BY <1>1, <1>2, <1>3 DEF Wired, OutputsInOrder, ReadersExact, Listed
  <1>5. Counted(ws, gs, 1..Len(gs))
    <2>1. \A f, w : Number(f, 1..Len(gs), w) = 0
      BY <1>3, FS_EmptySet DEF Number
    <2> QED
      BY <1>1, <1>2, <2>1 DEF Counted
  <1> QED
    BY <1>1, <1>2, <1>4, <1>5 DEF Built

\* The calls that make the two constant wires.
LEMMA ConstantsMade ==
  \E ws0, ms0, ws1, gs1, ms1, ws2, gs2, ms2, ws3, wz :
    /\ ws0 = [w \in 1..NumInputs |-> NewWire(Nil)]
    /\ ms0 = [w \in 1..NumInputs |-> {s \in Assignments : w \in s}]
    /\ GateAdded(ws0, <<>>, ms0, "INV", 1, Nil, ws1, gs1, ms1)
    /\ GateAdded(ws1, gs1, ms1, "AND", 1, InvI0Wire, ws2, gs2, ms2)
    /\ GateAdded(ws2, gs2, ms2, "OR", 1, InvI0Wire, ws3, Constants.gate, Constants.meaning)
    /\ ValueSet(ws3, ZeroWire, "0", wz) /\ ValueSet(wz, OneWire, "1", Constants.wire)
  <1> DEFINE ws0 == [w \in 1..NumInputs |-> NewWire(Nil)]
             ms0 == [w \in 1..NumInputs |-> {s \in Assignments : w \in s}]
             n0 == [wire |-> ws0, gate |-> <<>>, meaning |-> ms0]
             n1 == Extend(n0, "INV", 1, Nil)
             n2 == Extend(n1, "AND", 1, InvI0Wire)
             n3 == Extend(n2, "OR", 1, InvI0Wire)
             n4 == [n3 EXCEPT !.wire[ZeroWire].value = "0", !.wire[OneWire].value = "1"]
             wz == [n3.wire EXCEPT ![ZeroWire].value = "0"]
             wo == [wz EXCEPT ![OneWire].value = "1"]
  <1>0. Constants = n4
    BY Zenon DEF Constants
  <1>1. /\ Sound(ws0, <<>>, ms0) /\ Len(ws0) = NumInputs /\ ms0[1] \in Meanings
    BY InputsSound
  <1>a. /\ ws0 = [w \in 1..NumInputs |-> NewWire(Nil)]
        /\ ms0 = [w \in 1..NumInputs |-> {s \in Assignments : w \in s}]
    OBVIOUS
  <1> HIDE DEF ws0, ms0
  <1>2. n0.wire = ws0 /\ n0.gate = <<>> /\ n0.meaning = ms0
    OBVIOUS
  <1> HIDE DEF n0
  <1>3. /\ NumInputs \in Nat /\ 1 <= NumInputs /\ InvI0Wire = NumInputs + 1
        /\ "INV" \in AllOps /\ "AND" \in AllOps /\ "OR" \in AllOps
    BY NetlistAssumption DEF InvI0Wire, AllOps
  <1>4. GateAdded(ws0, <<>>, ms0, "INV", 1, Nil, n1.wire, n1.gate, n1.meaning)
    <2>1. 1 \in 1..Len(n0.wire)
      BY <1>1, <1>2, <1>3
    <2>2. GateAdded(n0.wire, n0.gate, n0.meaning, "INV", 1, Nil,
                    n1.wire, n1.gate, n1.meaning)
      BY <1>3, <2>1, Extended
    <2> HIDE DEF n1
    <2> QED
      BY <1>2, <2>2, Zenon
  <1>5. GateAdded(n1.wire, n1.gate, n1.meaning, "AND", 1, InvI0Wire,
                  n2.wire, n2.gate, n2.meaning)
    <2> HIDE DEF n1
    <2>1. Len(n1.wire) = NumInputs + 1
      BY <1>1, <1>4, GateMore DEF Grown
    <2>2. 1 \in 1..Len(n1.wire) /\ InvI0Wire \in 1..Len(n1.wire)
      BY <1>3, <2>1
    <2> QED
      BY <1>3, <2>2, Extended
  <1>6. GateAdded(n2.wire, n2.gate, n2.meaning, "OR", 1, InvI0Wire,
                  n3.wire, n3.gate, n3.meaning)
    <2> HIDE DEF n1
    <2>1. Sound(n1.wire, n1.gate, n1.meaning) /\ Len(n1.wire) = NumInputs + 1
      BY <1>1, <1>4, GateMore DEF Grown
    <2> HIDE DEF n2
    <2>2. Len(n2.wire) = NumInputs + 2
      <3>1. Len(n2.wire) = Len(n1.wire) + 1
        BY <1>5, <2>1, GateMore DEF Grown
      <3> QED
        BY <1>3, <2>1, <3>1
    <2>3. 1 \in 1..Len(n2.wire) /\ InvI0Wire \in 1..Len(n2.wire)
      BY <1>3, <2>2
    <2> QED
      BY <1>3, <2>3, Extended
  <1>7. \E x, y, z : n3 = [wire |-> x, gate |-> y, meaning |-> z]
    BY ZenonT(40) DEF Extend
  <1> HIDE DEF n1, n2, n3
  <1>8. n4.wire = wo /\ n4.gate = n3.gate /\ n4.meaning = n3.meaning
    <2>1. PICK x, y, z : n3 = [wire |-> x, gate |-> y, meaning |-> z]
      BY <1>7
    <2> QED
      BY <2>1
  <1> HIDE DEF n4
  <1>9. ValueSet(n3.wire, ZeroWire, "0", wz) /\ ValueSet(wz, OneWire, "1", wo)
    BY Zenon DEF ValueSet
  <1> HIDE DEF wz, wo
  <1>10. /\ Constants.wire = wo /\ Constants.gate = n3.gate /\ Constants.meaning = n3.meaning
    BY <1>0, <1>8
  <1> QED
    BY <1>a, <1>4, <1>5, <1>6, <1>9, <1>10, Zenon

\* The constant wires are built like any other.
LEMMA ConstantsBuilt ==
  /\ Built(Constants.wire, Constants.gate) /\ FirstGates(Constants.gate)
  /\ Len(Constants.gate) = 3 /\ Len(Constants.wire) = NumInputs + 3
  /\ \A w \in 1..Len(Constants.wire) :
       /\ Constants.wire[w].id = Unassigned
       /\ Constants.wire[w].value = "0" => w = ZeroWire
  <1>1. PICK ws0, ms0, ws1, gs1, ms1, ws2, gs2, ms2, ws3, wz :
          /\ ws0 = [w \in 1..NumInputs |-> NewWire(Nil)]
          /\ ms0 = [w \in 1..NumInputs |-> {s \in Assignments : w \in s}]
          /\ GateAdded(ws0, <<>>, ms0, "INV", 1, Nil, ws1, gs1, ms1)
          /\ GateAdded(ws1, gs1, ms1, "AND", 1, InvI0Wire, ws2, gs2, ms2)
          /\ GateAdded(ws2, gs2, ms2, "OR", 1, InvI0Wire, ws3, Constants.gate, Constants.meaning)
          /\ ValueSet(ws3, ZeroWire, "0", wz) /\ ValueSet(wz, OneWire, "1", Constants.wire)
    BY ConstantsMade
  <1> DEFINE gs0 == <<>>
             gs3 == Constants.gate
             ms3 == Constants.meaning
             wo == Constants.wire
  <1>2. /\ NumInputs \in Nat /\ NumInputs >= 1
        /\ InvI0Wire = NumInputs + 1 /\ ZeroWire = NumInputs + 2 /\ OneWire = NumInputs + 3
        /\ Nil = 0
    BY NetlistAssumption DEF InvI0Wire, ZeroWire, OneWire, Nil
  <1>3. /\ Sound(ws0, gs0, ms0) /\ Built(ws0, gs0) /\ Len(ws0) = NumInputs /\ Len(gs0) = 0
        /\ \A w \in 1..NumInputs : ws0[w].id = Unassigned
    <2>1. Len(gs0) = 0
      OBVIOUS
    <2> QED
      BY <1>1, <2>1, InputsSound, InputsBuilt
  <1> HIDE DEF gs0, gs3, ms3, wo
  <1>4. /\ GateAdded(ws0, gs0, ms0, "INV", 1, Nil, ws1, gs1, ms1)
        /\ GateAdded(ws1, gs1, ms1, "AND", 1, InvI0Wire, ws2, gs2, ms2)
        /\ GateAdded(ws2, gs2, ms2, "OR", 1, InvI0Wire, ws3, gs3, ms3)
        /\ ValueSet(ws3, ZeroWire, "0", wz) /\ ValueSet(wz, OneWire, "1", wo)
    BY <1>1, Zenon DEF gs0, gs3, ms3, wo
  <1>5. /\ Sound(ws1, gs1, ms1) /\ MoreGate(ws0, gs0, "INV", 1, Nil, ws1, gs1)
        /\ Built(ws1, gs1) /\ Len(ws1) = NumInputs + 1 /\ Len(gs1) = 1
    <2>1. Sound(ws1, gs1, ms1) /\ MoreGate(ws0, gs0, "INV", 1, Nil, ws1, gs1)
      BY <1>3, <1>4, GateMore, MoreGateMade
    <2>2. 1 \in 1..Len(ws0) /\ Nil \in 0..Len(ws0)
      BY <1>2, <1>3
    <2>3. Built(ws1, gs1)
      BY <1>3, <2>1, <2>2, MoreGateBuilt
    <2>4. Len(ws1) = Len(ws0) + 1 /\ Len(gs1) = Len(gs0) + 1
      BY <2>1 DEF MoreGate
    <2> QED
      BY <1>3, <2>1, <2>3, <2>4
  <1>6. /\ Sound(ws2, gs2, ms2) /\ MoreGate(ws1, gs1, "AND", 1, InvI0Wire, ws2, gs2)
        /\ Built(ws2, gs2) /\ Len(ws2) = NumInputs + 2 /\ Len(gs2) = 2
    <2>1. Sound(ws2, gs2, ms2) /\ MoreGate(ws1, gs1, "AND", 1, InvI0Wire, ws2, gs2)
      BY <1>4, <1>5, GateMore, MoreGateMade
    <2>2. 1 \in 1..Len(ws1) /\ InvI0Wire \in 0..Len(ws1)
      BY <1>2, <1>5
    <2>3. Built(ws2, gs2)
      BY <1>5, <2>1, <2>2, MoreGateBuilt
    <2>4. Len(ws2) = Len(ws1) + 1 /\ Len(gs2) = Len(gs1) + 1
      BY <2>1 DEF MoreGate
    <2> QED
      BY <1>2, <1>5, <2>1, <2>3, <2>4
  <1>7. /\ Sound(ws3, gs3, ms3) /\ MoreGate(ws2, gs2, "OR", 1, InvI0Wire, ws3, gs3)
        /\ Built(ws3, gs3) /\ Len(ws3) = NumInputs + 3 /\ Len(gs3) = 3
    <2>1. Sound(ws3, gs3, ms3) /\ MoreGate(ws2, gs2, "OR", 1, InvI0Wire, ws3, gs3)
      BY <1>4, <1>6, GateMore, MoreGateMade
    <2>2. 1 \in 1..Len(ws2) /\ InvI0Wire \in 0..Len(ws2)
      BY <1>2, <1>6
    <2>3. Built(ws3, gs3)
      BY <1>6, <2>1, <2>2, MoreGateBuilt
    <2>4. Len(ws3) = Len(ws2) + 1 /\ Len(gs3) = Len(gs2) + 1
      BY <2>1 DEF MoreGate
    <2> QED
      BY <1>2, <1>6, <2>1, <2>3, <2>4
  <1>8. FirstGates(gs3)
    <2>1. gs1[1].op = "INV" /\ gs1[1].A = 1 /\ gs1[1].B = Nil
      BY <1>3, <1>5 DEF MoreGate
    <2>2. gs2[1] = gs1[1] /\ gs2[2].A = 1 /\ gs2[2].B = InvI0Wire
      <3>1. /\ \A h \in 1..Len(gs1) : gs2[h] = gs1[h]
            /\ gs2[Len(gs1) + 1].A = 1 /\ gs2[Len(gs1) + 1].B = InvI0Wire
        BY <1>6 DEF MoreGate
      <3> QED
        BY <1>5, <3>1
    <2>3. gs3[1] = gs2[1] /\ gs3[2] = gs2[2] /\ gs3[3].A = 1 /\ gs3[3].B = InvI0Wire
      <3>1. /\ \A h \in 1..Len(gs2) : gs3[h] = gs2[h]
            /\ gs3[Len(gs2) + 1].A = 1 /\ gs3[Len(gs2) + 1].B = InvI0Wire
        BY <1>7 DEF MoreGate
      <3> QED
        BY <1>6, <3>1
    <2> QED
      BY <1>2, <1>7, <2>1, <2>2, <2>3 DEF FirstGates
  <1>9. /\ ws3 \in Seq(WireRecord) /\ ZeroWire \in 1..Len(ws3) /\ OneWire \in 1..Len(ws3)
    BY <1>2, <1>7 DEF Sound, WiresTyped
  <1>10. /\ wz \in Seq(WireRecord) /\ SameReaders(ws3, wz)
         /\ \A u \in 1..Len(ws3) : /\ wz[u].value = IF u = ZeroWire THEN "0" ELSE ws3[u].value
                                   /\ wz[u].id = ws3[u].id
    BY <1>4, <1>9, ValueSetEffect
  <1>11. /\ SameReaders(wz, wo)
         /\ \A u \in 1..Len(ws3) : /\ wo[u].value = IF u = OneWire THEN "1" ELSE wz[u].value
                                   /\ wo[u].id = wz[u].id
    <2>1. Len(wz) = Len(ws3)
      BY <1>10 DEF SameReaders
    <2> QED
      BY <1>4, <1>9, <1>10, <2>1, ValueSetEffect
  <1>12. SameReaders(ws3, wo) /\ Len(wo) = NumInputs + 3
    BY <1>7, <1>10, <1>11 DEF SameReaders
  <1>13. \A u \in 1..Len(ws3) : ws3[u].id = Unassigned /\ ws3[u].value = "?"
    <2>1. \A u \in 1..NumInputs : ws0[u].id = Unassigned /\ ws0[u].value = "?"
      BY <1>3 DEF Built, OutputsInOrder
    <2>2. \A u \in 1..(NumInputs + 1) : ws1[u].id = Unassigned /\ ws1[u].value = "?"
      BY <1>2, <1>3, <1>5, <2>1 DEF MoreGate
    <2>3. \A u \in 1..(NumInputs + 2) : ws2[u].id = Unassigned /\ ws2[u].value = "?"
      BY <1>2, <1>5, <1>6, <2>2 DEF MoreGate
    <2> QED
      BY <1>2, <1>6, <1>7, <2>3 DEF MoreGate
  <1>14. Built(wo, gs3)
    <2>1. OutputsInOrder(wo, gs3)
      <3>1. /\ Len(ws3) = NumInputs + Len(gs3)
            /\ \A g \in 1..Len(gs3) : gs3[g].O = NumInputs + g
            /\ \A w \in 1..Len(ws3) : w <= NumInputs + 1 => ws3[w].value = "?"
        BY <1>7 DEF Built, OutputsInOrder
      <3>2. ASSUME NEW w \in 1..Len(ws3), w <= NumInputs + 1
            PROVE  wo[w].value = "?"
        <4>1. w # ZeroWire /\ w # OneWire
          BY <1>2, <3>2 DEF ZeroWire, OneWire
        <4>2. ws3[w].value = "?"
          BY <3>1, <3>2
        <4> QED
          BY <1>10, <1>11, <4>1, <4>2
      <3> QED
        BY <1>7, <1>12, <3>1, <3>2 DEF OutputsInOrder
    <2>2. /\ Wired(ws3, gs3) /\ Counted(ws3, gs3, 1..Len(gs3)) /\ Listed(ws3, gs3)
          /\ ReadersExact(ws3, gs3, NumInputs + 1)
      BY <1>7 DEF Built
    <2>3. /\ Len(gs3) \in Nat /\ NumInputs + 1 \in Nat /\ NumInputs + 1 > 0
          /\ Len(ws3) >= NumInputs + Len(gs3)
      BY <1>2, <1>7
    <2>4. Wired(wo, gs3) /\ Counted(wo, gs3, 1..Len(gs3)) /\ Listed(wo, gs3)
      BY <1>12, <2>2, <2>3, SameReadersBuilt
    <2>5. ReadersExact(wo, gs3, NumInputs + 1)
      BY <1>12, <2>2, <2>3, SameReadersBuilt
    <2> QED
      BY <2>1, <2>4, <2>5 DEF Built
  <1>15. \A w \in 1..Len(wo) : wo[w].id = Unassigned /\ (wo[w].value = "0" => w = ZeroWire)
    BY <1>7, <1>10, <1>11, <1>12, <1>13 DEF SameReaders
  <1> QED
    BY <1>7, <1>8, <1>12, <1>14, <1>15 DEF gs3, wo

\* The netlist has that shape initially.
LEMMA InitStructure == Init => KInv
  <1> SUFFICES ASSUME Init PROVE KInv
    OBVIOUS
  <1>1. /\ wire = Constants.wire /\ gate = Constants.gate /\ list = <<1, 2, 3>> /\ dead = {}
        /\ outputs = <<>> /\ phase = "build" /\ i = 1
    BY DEF Init
  <1>2. Built(wire, gate) /\ FirstGates(gate) /\ Len(gate) = 3
    BY <1>1, ConstantsBuilt
  <1>3. Listing
    <2>1. Len(list) = 3 /\ \A k \in 1..3 : list[k] = k
      BY <1>1
    <2> QED
      BY <1>1, <1>2, <2>1 DEF Listing, Building, Numbering, Alive
  <1>4. Shape /\ OutputsFree
    BY <1>1, <1>2 DEF Shape, OutputsFree, Built
  <1>5. ReadersKnown
    BY <1>1, <1>2 DEF ReadersKnown, Built
  <1>6. Counted(wire, gate, Alive)
    <2>1. Alive = 1..Len(gate)
      BY <1>1 DEF Alive
    <2> QED
      BY <1>2, <2>1 DEF Built
  <1> QED
    BY <1>3, <1>4, <1>5, <1>6 DEF KInv, Structure

(***************************************************************************)
(* Steps that leave readers alone                                          *)
(***************************************************************************)
\* The gate a loop is at, while the list is in order.
LEMMA AtGate ==
  ASSUME KInv, phase \notin Numbering
  PROVE  /\ Len(list) = Len(gate)
         /\ \A k \in 1..Len(gate) : list[k] = k
         /\ i \in 1..Len(gate) => G = i
  BY DEF KInv, Structure, Listing, G

\* Numbers of operands, once more.
LEMMA AliveFinite ==
  ASSUME Len(gate) \in Nat
  PROVE  IsFiniteSet(Alive) /\ Alive \subseteq 1..Len(gate)
  <1>1. IsFiniteSet(1..Len(gate)) /\ Alive \in SUBSET (1..Len(gate))
    BY FS_Interval DEF Alive
  <1> QED
    BY <1>1, FS_Subset

\* A step that changes values and ids only keeps what is known of readers.
LEMMA Steady ==
  ASSUME NInv, KInv, SameReaders(wire, wire'), UNCHANGED <<gate, dead, outputs>>
  PROVE  /\ Wired(wire', gate') /\ Listed(wire', gate') /\ Counted(wire', gate', Alive')
         /\ OutputsFree' /\ Len(gate') >= 3
         /\ \A lo \in Nat : lo > 0 =>
              (ReadersExact(wire, gate, lo) => ReadersExact(wire', gate', lo))
         /\ FirstGates(gate) => FirstGates(gate')
  <1>1. Len(gate) \in Nat
    BY NetlistFacts
  <1>2. /\ Wired(wire, gate) /\ Listed(wire, gate) /\ Counted(wire, gate, Alive)
        /\ OutputsFree /\ Len(gate) >= 3 /\ Len(wire) >= NumInputs + Len(gate)
    BY DEF KInv, Structure, Shape, Wired
  <1>3. Wired(wire', gate) /\ Listed(wire', gate) /\ Counted(wire', gate, Alive)
    BY <1>1, <1>2, SameReadersBuilt
  <1>4. \A lo \in Nat : lo > 0 => (ReadersExact(wire, gate, lo) => ReadersExact(wire', gate, lo))
    BY <1>1, <1>2, SameReadersBuilt
  <1>5. OutputsFree'
    BY <1>2 DEF OutputsFree
  <1>6. Alive' = Alive /\ gate' = gate
    BY DEF Alive
  <1> QED
    BY <1>2, <1>3, <1>4, <1>5, <1>6

\* Nothing at all changes.
LEMMA StillReaders ==
  ASSUME UNCHANGED wire
  PROVE  SameReaders(wire, wire')
  BY DEF SameReaders

\* Listing, when a step changes no list.
LEMMA ListingSame ==
  ASSUME KInv, Len(gate') = Len(gate), UNCHANGED <<dead, list, kept>>, Len(gate) \in Nat,
         \/ phase' = phase /\ i' = i
         \/ phase = "build" /\ phase' = "const" /\ i' = i
         \/ phase = "const" /\ phase' \in {"redirect", "rewire"} /\ i' = i /\ i <= Len(gate)
         \/ phase = "redirect" /\ phase' = "rewire" /\ i' = i
         \/ phase = "rewire" /\ phase' = "const" /\ i' = i + 1
         \/ phase = "const" /\ phase' = "xorA" /\ i' = 1
         \/ phase = "xorA" /\ phase' = "xorB" /\ i' = i /\ i <= Len(gate)
         \/ phase = "xorB" /\ phase' = "xorA" /\ i' = i + 1
         \/ phase \in Numbering /\ phase' \in Numbering
  PROVE  Listing'
  <1>1. Listing /\ Len(gate) >= 3
    BY DEF KInv, Structure, Shape
  <1>2. Alive' = Alive
    BY DEF Alive
  <1> QED
    BY <1>1, <1>2 DEF Listing, Building, Numbering

\* Start keeps the shape.
LEMMA StartKeeps ==
  ASSUME NInv, KInv, Start
  PROVE  KInv'
  <1>1. /\ phase = "build" /\ phase' = "const" /\ UNCHANGED <<netlist, outputs, i, work>>
    BY DEF Start
  <1>2. Listing'
    BY <1>1, NetlistFacts, ListingSame DEF netlist, work
  <1>3. SameReaders(wire, wire')
    BY <1>1, StillReaders DEF netlist
  <1>4. Shape'
    BY <1>1, <1>3, Steady DEF netlist, KInv, Structure, Shape, Building, OutputsInOrder
  <1>5. OutputsFree' /\ Counted(wire', gate', Alive')
    BY <1>1, <1>3, Steady DEF netlist
  <1>6. ReadersKnown'
    BY <1>1 DEF netlist, KInv, Structure, ReadersKnown
  <1> QED
    BY <1>2, <1>4, <1>5, <1>6 DEF KInv, Structure

\* ConstDone keeps the shape.
LEMMA ConstDoneKeeps ==
  ASSUME NInv, KInv, ConstDone
  PROVE  KInv'
  <1>1. /\ phase = "const" /\ phase' = "xorA" /\ i' = 1 /\ UNCHANGED <<netlist, outputs, work>>
    BY DEF ConstDone
  <1>2. Listing'
    BY <1>1, NetlistFacts, ListingSame DEF netlist, work
  <1>3. SameReaders(wire, wire')
    BY <1>1, StillReaders DEF netlist
  <1>4. Shape'
    BY <1>1, <1>3, Steady DEF netlist, Shape, Building
  <1>5. OutputsFree' /\ Counted(wire', gate', Alive')
    BY <1>1, <1>3, Steady DEF netlist
  <1>6. ReadersKnown'
    BY <1>1 DEF ReadersKnown
  <1> QED
    BY <1>2, <1>4, <1>5, <1>6 DEF KInv, Structure

\* XORDone keeps the shape.
LEMMA XORDoneKeeps ==
  ASSUME NInv, KInv, XORDone
  PROVE  KInv'
  <1>1. /\ phase = "xorA" /\ UNCHANGED <<netlist, outputs, work>>
        /\ \/ phase' = "prune" /\ i' = Len(list)
           \/ phase' = "assign" /\ i' = 1
    BY DEF XORDone
  <1>2. Listing'
    <2>1. Listing /\ Len(gate) \in Nat /\ Len(list) = Len(gate) /\ dead = {}
      BY <1>1, NetlistFacts DEF KInv, Structure, Listing, Numbering
    <2>2. Alive' = Alive /\ Alive = 1..Len(gate) /\ UNCHANGED <<list, gate, dead, kept>>
      BY <1>1, <2>1 DEF Alive, netlist, work
    <2> QED
      BY <1>1, <2>1, <2>2 DEF Listing, Building, Numbering
  <1>3. SameReaders(wire, wire')
    BY <1>1, StillReaders DEF netlist
  <1>4. Shape'
    BY <1>1, <1>3, Steady DEF netlist, Shape, Building
  <1>5. OutputsFree' /\ Counted(wire', gate', Alive')
    BY <1>1, <1>3, Steady DEF netlist
  <1>6. ReadersKnown'
    BY <1>1 DEF ReadersKnown
  <1> QED
    BY <1>2, <1>4, <1>5, <1>6 DEF KInv, Structure

\* PruneDone keeps the shape.
LEMMA PruneDoneKeeps ==
  ASSUME NInv, KInv, PruneDone
  PROVE  KInv'
  <1>1. /\ phase = "prune" /\ ~InLoop /\ list' = kept /\ phase' = "assign" /\ i' = 1
        /\ UNCHANGED <<wire, gate, dead, outputs, work>>
    BY DEF PruneDone
  <1>2. Listing'
    <2>1. Listing /\ Len(gate) \in Nat /\ Len(list) = Len(gate) /\ i \in 0..Len(gate)
      BY <1>1, NetlistFacts DEF KInv, Structure, Listing, Numbering
    <2>2. i = 0
      BY <1>1, <2>1 DEF InLoop
    <2>3. \A g \in Alive : \E k \in 1..Len(kept) : kept[k] = g
      BY <1>1, <2>1, <2>2 DEF Listing, Alive
    <2>4. Alive' = Alive
      BY <1>1 DEF Alive
    <2> QED
      BY <1>1, <2>1, <2>3, <2>4 DEF Listing, Building, Numbering
  <1>3. SameReaders(wire, wire')
    BY <1>1, StillReaders
  <1>4. Shape'
    BY <1>1, <1>3, Steady DEF Shape, Building
  <1>5. OutputsFree' /\ Counted(wire', gate', Alive')
    BY <1>1, <1>3, Steady
  <1>6. ReadersKnown'
    BY <1>1 DEF ReadersKnown
  <1> QED
    BY <1>2, <1>4, <1>5, <1>6 DEF KInv, Structure

\* The wires after Wire.Assign.
LEMMA AssignWireReaders ==
  ASSUME NInv, NEW w \in 1..Len(wire), AssignWire(w)
  PROVE  /\ SameReaders(wire, wire')
         /\ \A u \in 1..Len(wire) :
              /\ wire'[u].value = wire[u].value
              /\ wire'[u].id = IF u = w /\ ~Output(w) /\ ~IsAssigned(w) THEN nextID ELSE wire[u].id
         /\ nextID' = IF ~Output(w) /\ ~IsAssigned(w) THEN nextID + 1 ELSE nextID
         /\ Output(w) => todo' = todo
         /\ ~Output(w) => todo' = wire[w].readers
  <1>1. wire \in Seq(WireRecord) /\ wire[w] \in WireRecord /\ nextID \in Nat
    BY NetlistFacts DEF NInv, Sound, WiresTyped, LoopsTyped
  <1>2. CASE Output(w)
    BY <1>1, <1>2 DEF AssignWire, SameReaders
  <1>3. CASE ~Output(w)
    <2> DEFINE x == IF IsAssigned(w) THEN wire[w].id ELSE nextID
               new == [wire[w] EXCEPT !.id = x]
    <2>1. /\ wire' = [wire EXCEPT ![w].id = IF IsAssigned(w) THEN @ ELSE nextID]
          /\ nextID' = IF IsAssigned(w) THEN nextID ELSE nextID + 1
          /\ todo' = wire[w].readers
      BY <1>3 DEF AssignWire
    <2>2. wire' = [wire EXCEPT ![w] = new]
      BY <2>1, Zenon
    <2>3. x \in Nat \cup {Unassigned}
      BY <1>1 DEF WireRecord
    <2> HIDE DEF x
    <2>4. /\ new.id = x /\ new.value = wire[w].value /\ new.input = wire[w].input
          /\ new.num = wire[w].num /\ new.readers = wire[w].readers
      BY <1>1, <2>3 DEF WireRecord
    <2> HIDE DEF new
    <2>5. /\ Len(wire') = Len(wire)
          /\ \A u \in 1..Len(wire) : wire'[u] = IF u = w THEN new ELSE wire[u]
      BY <1>1, <2>2
    <2>6. SameReaders(wire, wire') /\ \A u \in 1..Len(wire) : wire'[u].value = wire[u].value
      BY <2>4, <2>5 DEF SameReaders
    <2>7. \A u \in 1..Len(wire) :
            wire'[u].id = IF u = w /\ ~IsAssigned(w) THEN nextID ELSE wire[u].id
      BY <2>4, <2>5 DEF x
    <2> QED
      BY <1>3, <2>1, <2>6, <2>7
  <1> QED
    BY <1>2, <1>3

\* Numbering keeps the shape.
LEMMA NumberingKeeps ==
  ASSUME NInv, KInv, phase \in Numbering, phase' \in Numbering,
         SameReaders(wire, wire'), UNCHANGED <<gate, dead, list, outputs, kept>>
  PROVE  KInv'
  <1>1. Listing'
    BY NetlistFacts, ListingSame
  <1>2. Shape'
    BY Steady DEF Shape, Building, Numbering
  <1>3. OutputsFree' /\ Counted(wire', gate', Alive')
    BY Steady
  <1>4. ReadersKnown'
    BY DEF ReadersKnown, Numbering
  <1> QED
    BY <1>1, <1>2, <1>3, <1>4 DEF KInv, Structure

\* The steps of Compile leave readers alone.
LEMMA CompileReaders ==
  ASSUME NInv,
         AssignInput \/ Visit \/ AssignGate \/ AssignOutputs \/ EmitGate \/ EmitDone
  PROVE  /\ phase \in Numbering /\ phase' \in Numbering /\ SameReaders(wire, wire')
         /\ UNCHANGED <<gate, dead, list, outputs, kept, optPrune>>
  <1>1. CASE AssignInput
    <2>1. /\ phase = "assign" /\ phase' = "assign" /\ AssignWire(i) /\ i \in 1..NumInputs
          /\ UNCHANGED <<gate, dead, list, outputs, kept, optPrune>>
      BY <1>1, NetlistAssumption DEF AssignInput, NInv, LoopsSound, LoopsTyped
    <2>2. i \in 1..Len(wire)
      BY <2>1, NetlistFacts, NetlistAssumption DEF NInv, ConstantsSound
    <2> QED
      BY <2>1, <2>2, AssignWireReaders DEF Numbering
  <1>2. CASE Visit
    BY <1>2, StillReaders DEF Visit, Numbering, netlist
  <1>3. CASE AssignGate
    <2>1. /\ phase = "assign" /\ phase' = "assign" /\ pending # <<>>
          /\ UNCHANGED <<gate, dead, list, outputs, kept, optPrune>>
          /\ UNCHANGED wire \/ AssignWire(gate[Head(pending)].O)
      BY <1>3 DEF AssignGate
    <2>2. gate[Head(pending)].O \in 1..Len(wire)
      BY <2>1, HeadTail, GateFacts DEF NInv, LoopsTyped
    <2> QED
      BY <2>1, <2>2, AssignWireReaders, StillReaders DEF Numbering
  <1>4. CASE AssignOutputs
    <2> DEFINE new(w) == nextID + (CHOOSE k \in 1..Len(outputs) : outputs[k] = w) - 1
    <2>1. /\ phase = "assign" /\ phase' = "emit"
          /\ UNCHANGED <<gate, dead, list, outputs, work, optPrune>>
          /\ wire' = [w \in 1..Len(wire) |->
                        IF \E k \in 1..Len(outputs) : outputs[k] = w
                        THEN [wire[w] EXCEPT !.id = new(w)] ELSE wire[w]]
      BY <1>4 DEF AssignOutputs
    <2>2. Len(wire) \in Nat /\ \A w \in 1..Len(wire) : wire[w] \in WireRecord
      BY NetlistFacts
    <2> HIDE DEF new
    <2>3. ASSUME NEW r \in WireRecord, NEW x
          PROVE  /\ [r EXCEPT !.id = x].input = r.input /\ [r EXCEPT !.id = x].num = r.num
                 /\ [r EXCEPT !.id = x].readers = r.readers
      BY DEF WireRecord
    <2>4. Len(wire') = Len(wire)
      BY <2>1, <2>2
    <2>5. SameReaders(wire, wire')
      BY <2>1, <2>2, <2>3, <2>4 DEF SameReaders
    <2> QED
      BY <2>1, <2>5 DEF Numbering, work
  <1>5. CASE EmitGate
    BY <1>5, StillReaders DEF EmitGate, Numbering, netlist, work
  <1>6. CASE EmitDone
    BY <1>6, StillReaders DEF EmitDone, Numbering, netlist, work
  <1> QED
    BY <1>1, <1>2, <1>3, <1>4, <1>5, <1>6

\* The steps of Compile keep the shape.
LEMMA CompileKeeps ==
  ASSUME NInv, KInv,
         AssignInput \/ Visit \/ AssignGate \/ AssignOutputs \/ EmitGate \/ EmitDone
  PROVE  KInv'
  BY CompileReaders, NumberingKeeps

(***************************************************************************)
(* ConstPropagate                                                          *)
(***************************************************************************)
\* What is known of a gate's wires.
LEMMA GateOrder ==
  ASSUME NInv, KInv
  PROVE  /\ NumInputs \in Nat /\ NumInputs >= 1 /\ Len(gate) \in Nat /\ Len(gate) >= 3
         /\ Len(wire) \in Nat /\ Len(wire) >= NumInputs + Len(gate)
         /\ phase \in Building => Len(wire) = NumInputs + Len(gate)
         /\ \A g \in 1..Len(gate) :
              /\ gate[g].A \in 1..Len(wire) /\ gate[g].A < NumInputs + g
              /\ gate[g].B \in 0..Len(wire) /\ gate[g].B < NumInputs + g
              /\ gate[g].O \in 1..Len(wire) /\ gate[g].O >= NumInputs + g
              /\ phase \in Building => gate[g].O = NumInputs + g
  <1>1. NumInputs \in Nat /\ NumInputs >= 1 /\ Len(gate) \in Nat /\ Len(wire) \in Nat
    BY NetlistFacts, NetlistAssumption
  <1>2. /\ Len(gate) >= 3 /\ Wired(wire, gate)
        /\ phase \in Building => OutputsInOrder(wire, gate)
    BY DEF KInv, Structure, Shape
  <1>3. ASSUME NEW g \in 1..Len(gate)
        PROVE  /\ gate[g].A \in 1..Len(wire) /\ gate[g].B \in 0..Len(wire)
               /\ gate[g].O \in 1..Len(wire)
    BY <1>1, GateFacts DEF Nil
  <1> QED
    BY <1>1, <1>2, <1>3 DEF Wired, OutputsInOrder

\* The first gates read wires that no value is known of.
LEMMA FirstUnknown ==
  ASSUME NInv, KInv, phase \in Building, NEW g \in 1..3
  PROVE  /\ wire[gate[g].A].value = "?"
         /\ gate[g].B # Nil => wire[gate[g].B].value = "?"
         /\ g = 1 => gate[g].op = "INV" /\ gate[g].B = Nil
  <1>1. FirstGates(gate) /\ OutputsInOrder(wire, gate)
    BY DEF KInv, Structure, Shape
  <1>2. 1 \in 1..Len(wire) /\ NumInputs + 1 \in 1..Len(wire) /\ 1 <= NumInputs + 1
    BY GateOrder
  <1>3. wire[1].value = "?" /\ wire[NumInputs + 1].value = "?"
    BY <1>1, <1>2 DEF OutputsInOrder
  <1> QED
    BY <1>1, <1>3 DEF FirstGates

\* FoldConst keeps the shape.
LEMMA FoldConstKeeps ==
  ASSUME NInv, KInv, FoldConst
  PROVE  KInv'
  <1> DEFINE o == gate[G].O
             v == IF Folded = "?" THEN wire[o].value ELSE Folded
  <1>1. /\ phase = "const" /\ InLoop
        /\ wire' = [wire EXCEPT ![gate[G].O].value = IF Folded = "?" THEN @ ELSE Folded]
        /\ \/ /\ Passed # Nil /\ ~Output(gate[G].O) /\ phase' = "redirect"
              /\ todo' = wire[gate[G].O].readers /\ target' = Passed
           \/ phase' = "rewire" /\ UNCHANGED work
        /\ UNCHANGED <<gate, dead, list, kept, outputs, i>>
    BY DEF FoldConst, work
  <1>2. /\ i \in 1..Len(gate) /\ G = i /\ o = NumInputs + i /\ o \in 1..Len(wire)
    <2>1. phase \notin Numbering /\ phase \in Building
      BY <1>1 DEF Numbering, Building
    <2>2. i \in 1..Len(gate) /\ G = i
      BY <1>1, <2>1, AtGate DEF InLoop
    <2> QED
      BY <2>1, <2>2, GateOrder
  <1>3. v \in {"?", "0", "1"} /\ ValueSet(wire, o, v, wire')
    <2>1. Folded \in {"?", "0", "1"}
      BY <1>1, FoldedFits DEF Fits
    <2>2. wire[o].value \in {"?", "0", "1"}
      BY <1>2, WireFacts
    <2>3. wire' = [wire EXCEPT ![o].value = v]
      BY <1>1, Zenon
    <2> QED
      BY <2>1, <2>2, <2>3 DEF ValueSet
  <1>4. /\ SameReaders(wire, wire')
        /\ \A u \in 1..Len(wire) : wire'[u].value = IF u = o THEN v ELSE wire[u].value
    BY <1>2, <1>3, ReadWires, ValueSetEffect
  <1>5. Listing'
    BY <1>1, <1>2, GateOrder, ListingSame
  <1>6. OutputsFree' /\ Counted(wire', gate', Alive')
    BY <1>1, <1>4, Steady
  <1>7. i > 3 \/ (Passed = Nil /\ (i = 1 => Folded = "?"))
    <2> SUFFICES ASSUME i <= 3 PROVE Passed = Nil /\ (i = 1 => Folded = "?")
      BY <1>2, GateOrder
    <2>1. /\ i \in 1..3 /\ ValueA = "?" /\ (gate[G].B # Nil => ValueB = "?")
          /\ i = 1 => gate[G].op = "INV"
      BY <1>1, <1>2, FirstUnknown DEF ValueA, ValueB, Building
    <2>2. i = 1 => Folded = "?"
      BY <2>1 DEF Folded
    <2>3. Passed = Nil
      <3>1. Neutral # "?"
        BY DEF Neutral
      <3>2. gate[G].op # "INV" => gate[G].B # Nil
        BY <1>2, GateFacts DEF Nil
      <3> QED
        BY <2>1, <3>1, <3>2 DEF Passed
    <2> QED
      BY <2>2, <2>3
  <1>8. Shape'
    <2>1. /\ Wired(wire', gate') /\ Listed(wire', gate') /\ Len(gate') >= 3
          /\ FirstGates(gate) => FirstGates(gate')
      BY <1>1, <1>4, Steady
    <2>2. FirstGates(gate) /\ OutputsInOrder(wire, gate)
      BY <1>1 DEF KInv, Structure, Shape, Building
    <2>3. ASSUME NEW w \in 1..Len(wire), w <= NumInputs + 1
          PROVE  wire'[w].value = "?"
      <3>1. wire[w].value = "?"
        BY <2>2, <2>3 DEF OutputsInOrder
      <3>2. w = o => v = "?"
        BY <1>2, <1>7, <2>3, <3>1, GateOrder
      <3> QED
        BY <1>4, <3>1, <3>2
    <2>4. OutputsInOrder(wire', gate')
      BY <1>1, <1>4, <2>2, <2>3 DEF OutputsInOrder, SameReaders
    <2> QED
      BY <2>1, <2>2, <2>4 DEF Shape
  <1>9. ReadersKnown'
    <2>1. ReadersExact(wire, gate, NumInputs + i)
      BY <1>1 DEF KInv, Structure, ReadersKnown
    <2>2. ReadersExact(wire', gate', NumInputs + i)
      <3>1. NumInputs + i \in Nat /\ NumInputs + i > 0
        BY <1>2, GateOrder
      <3>2. \A lo \in Nat : lo > 0 =>
              (ReadersExact(wire, gate, lo) => ReadersExact(wire', gate', lo))
        BY <1>1, <1>4, Steady
      <3> QED
        BY <2>1, <3>1, <3>2
    <2>3. ReadersExact(wire', gate', NumInputs + i + 1)
      BY <1>2, <2>2, GateOrder, SMTT(40) DEF ReadersExact
    <2>4. CASE phase' = "rewire"
      BY <1>1, <2>3, <2>4 DEF ReadersKnown
    <2>5. CASE /\ Passed # Nil /\ ~Output(o) /\ phase' = "redirect"
               /\ todo' = wire[o].readers /\ target' = Passed
      <3>1. Passed \in {gate[G].A, gate[G].B}
        BY <2>5 DEF Passed
      <3>2. Passed < NumInputs + i
        BY <1>2, <3>1, GateOrder
      <3>3. ~Output(Passed)
        BY <1>2, <3>1 DEF KInv, Structure, OutputsFree, Output
      <3>4. \A h \in 1..Len(gate) :
              Occurrences(todo', h) = Is(gate[h].A, NumInputs + i) + Is(gate[h].B, NumInputs + i)
        <4>1. NumInputs + i \in (NumInputs + i)..(NumInputs + Len(gate))
          BY <1>2, GateOrder
        <4> QED
          BY <1>2, <2>1, <2>5, <4>1 DEF ReadersExact
      <3>5. ~Output(target') /\ (~Output(target))' /\ (~Output(NumInputs + i))'
        BY <1>1, <1>2, <2>5, <3>3 DEF Output
      <3> QED
        BY <1>1, <1>7, <2>3, <2>5, <3>2, <3>4, <3>5 DEF ReadersKnown
    <2> QED
      BY <1>1, <2>4, <2>5
  <1> QED
    BY <1>5, <1>6, <1>8, <1>9 DEF KInv, Structure

\* Gate h is one of finitely many.
OneOf(S, h, gs) == IsFiniteSet(S) /\ h \in S /\ S \subseteq 1..Len(gs)

\* Operands that change at one gate are counted once.
LEMMA CountMove ==
  ASSUME NEW gs, NEW gs2, NEW h, NEW a, NEW b, NowReads(gs, gs2, h, a, b),
         NEW S, OneOf(S, h, gs), NEW u
  PROVE  /\ Number(As(gs2), S, u) = Number(As(gs), S, u) - Is(gs[h].A, u) + Is(a, u)
         /\ Number(Bs(gs2), S, u) = Number(Bs(gs), S, u) - Is(gs[h].B, u) + Is(b, u)
         /\ Number(As(gs), S, u) \in Nat /\ Number(Bs(gs), S, u) \in Nat
  <1> DEFINE fa == As(gs)
             fb == Bs(gs)
             ga == As(gs2)
             gb == Bs(gs2)
  <1>0. IsFiniteSet(S) /\ h \in S
    BY DEF OneOf
  <1>1. /\ \A y \in S \ {h} : ga[y] = fa[y] /\ gb[y] = fb[y]
        /\ ga[h] = a /\ gb[h] = b /\ fa[h] = gs[h].A /\ fb[h] = gs[h].B
    BY DEF NowReads, As, Bs, OneOf
  <1> HIDE DEF fa, fb, ga, gb
  <1>2. Number(ga, S, u) = Number(fa, S, u) - Is(fa[h], u) + Is(ga[h], u)
    <2>1. \A y \in S \ {h} : ga[y] = fa[y]
      BY <1>1
    <2> QED
      BY ONLY <1>0, <2>1, NumberMove
  <1>3. Number(gb, S, u) = Number(fb, S, u) - Is(fb[h], u) + Is(gb[h], u)
    <2>1. \A y \in S \ {h} : gb[y] = fb[y]
      BY <1>1
    <2> QED
      BY ONLY <1>0, <2>1, NumberMove
  <1>4. Number(fa, S, u) \in Nat /\ Number(fb, S, u) \in Nat
    BY <1>0, NumberIsNat
  <1> QED
    BY <1>1, <1>2, <1>3, <1>4 DEF fa, fb, ga, gb

\* The numbers of readers stay right.
LEMMA CountKept ==
  ASSUME NEW gs, NEW gs2, NEW h, NEW a, NEW b, NowReads(gs, gs2, h, a, b),
         NEW S, OneOf(S, h, gs),
         NEW ws, NEW ws2, Len(ws2) = Len(ws), Counted(ws, gs, S),
         \A u \in 1..Len(ws) :
           ws2[u].num = (ws[u].num - Is(gs[h].A, u) + Is(a, u)) - Is(gs[h].B, u) + Is(b, u)
  PROVE  Counted(ws2, gs2, S)
  <1> SUFFICES ASSUME NEW u \in 1..Len(ws)
               PROVE  ws2[u].num = Number(As(gs2), S, u) + Number(Bs(gs2), S, u)
    BY DEF Counted
  <1> DEFINE na == Number(As(gs), S, u)
             nb == Number(Bs(gs), S, u)
             na2 == Number(As(gs2), S, u)
             nb2 == Number(Bs(gs2), S, u)
             num == ws[u].num
             num2 == ws2[u].num
             da == Is(gs[h].A, u)
             db == Is(gs[h].B, u)
             ea == Is(a, u)
             eb == Is(b, u)
  <1>1. na2 = na - da + ea /\ nb2 = nb - db + eb /\ na \in Nat /\ nb \in Nat
    BY CountMove
  <1>2. num = na + nb
    BY DEF Counted
  <1>3. da \in Int /\ db \in Int /\ ea \in Int /\ eb \in Int
    BY DEF Is
  <1>4. num2 = (num - da + ea) - db + eb
    OBVIOUS
  <1>5. ASSUME num2 = na2 + nb2
        PROVE  ws2[u].num = Number(As(gs2), S, u) + Number(Bs(gs2), S, u)
    BY <1>5
  <1> HIDE DEF na, nb, na2, nb2, num, num2, da, db, ea, eb
  <1>6. num2 = na2 + nb2
    BY ONLY <1>1, <1>2, <1>3, <1>4
  <1> QED
    BY <1>5, <1>6

\* The reader to be redirected does read the output of the gate.
LEMMA RedirectReads ==
  ASSUME NInv, KInv, phase = "redirect", todo # <<>>
  PROVE  /\ i \in 4..Len(gate) /\ G = i /\ gate[G].O = NumInputs + i
         /\ Head(todo) \in (i + 1)..Len(gate)
         /\ gate[Head(todo)].A = NumInputs + i \/ gate[Head(todo)].B = NumInputs + i
         /\ \A h \in 1..Len(gate) : Occurrences(Tail(todo), h) = Occurrences(todo, h) - Is(Head(todo), h)
  <1>1. i \in 4..Len(gate) /\ G = i /\ gate[G].O = NumInputs + i
    <2>1. phase \in Building /\ phase \notin Numbering /\ i > 3 /\ i \in 1..Len(gate)
      BY DEF Building, Numbering, KInv, Structure, Listing, ReadersKnown
    <2> QED
      BY <2>1, AtGate, GateOrder
  <1>2. todo \in Seq(1..Len(gate)) /\ Head(todo) \in 1..Len(gate)
    BY HeadTail DEF NInv, LoopsTyped
  <1>3. Occurrences(todo, Head(todo)) > 0
    <2>1. Head(todo) = todo[1] /\ 1 \in 1..Len(todo)
      BY <1>2
    <2>2. Occurrences(todo, Head(todo)) > 0 <=> \E k \in 1..Len(todo) : todo[k] = Head(todo)
      BY <1>2, OccurrencesAre
    <2> QED
      BY <2>1, <2>2
  <1>4. gate[Head(todo)].A = NumInputs + i \/ gate[Head(todo)].B = NumInputs + i
    <2>1. Occurrences(todo, Head(todo))
            = Is(gate[Head(todo)].A, NumInputs + i) + Is(gate[Head(todo)].B, NumInputs + i)
      BY <1>2 DEF KInv, Structure, ReadersKnown
    <2> QED
      BY <1>3, <2>1 DEF Is
  <1>5. Head(todo) \in (i + 1)..Len(gate)
    BY <1>1, <1>2, <1>4, GateOrder, SMTT(40)
  <1>6. \A h : Occurrences(Tail(todo), h) = Occurrences(todo, h) - Is(Head(todo), h)
    BY <1>2, OccurrencesTail
  <1> QED
    BY <1>1, <1>4, <1>5, <1>6

\* Redirect replaces one operand.
LEMMA RedirectOne ==
  ASSUME NInv, KInv, Redirect
  PROVE  \E a, b :
           /\ NowReads(gate, gate', Head(todo), a, b)
           /\ \/ /\ gate[Head(todo)].A = NumInputs + i /\ a = target
                 /\ b = gate[Head(todo)].B
              \/ /\ gate[Head(todo)].B = NumInputs + i /\ b = target
                 /\ a = gate[Head(todo)].A
           /\ Unmoved(wire, wire') /\ Moves(wire, wire', Head(todo), NumInputs + i, target)
           /\ panicked' = panicked /\ target \in 1..Len(wire)
  <1>1. phase = "redirect" /\ todo # <<>>
    BY DEF Redirect
  <1>2. /\ gate[G].O = NumInputs + i
        /\ gate[Head(todo)].A = NumInputs + i \/ gate[Head(todo)].B = NumInputs + i
    BY <1>1, RedirectReads
  <1>3. /\ target \in 1..Len(wire)
        /\ \/ /\ \/ /\ gate[Head(todo)].A = NumInputs + i
                    /\ NowReads(gate, gate', Head(todo), target, gate[Head(todo)].B)
                 \/ /\ gate[Head(todo)].A # NumInputs + i
                    /\ NowReads(gate, gate', Head(todo), gate[Head(todo)].A, target)
              /\ Unmoved(wire, wire') /\ Moves(wire, wire', Head(todo), NumInputs + i, target)
              /\ panicked' = panicked
           \/ gate[Head(todo)].A # NumInputs + i /\ gate[Head(todo)].B # NumInputs + i
    BY <1>2, RedirectEffect
  <1> QED
    BY <1>2, <1>3

\* Redirect keeps the shape.
LEMMA RedirectKeeps ==
  ASSUME NInv, KInv, Redirect
  PROVE  KInv' /\ panicked' = panicked
  <1> DEFINE h == Head(todo)
             from == NumInputs + i
  <1>1. /\ phase = "redirect" /\ phase' = "redirect" /\ todo # <<>> /\ todo' = Tail(todo)
        /\ UNCHANGED <<dead, list, kept, outputs, i, target>>
    BY DEF Redirect
  <1>2. /\ i \in 4..Len(gate) /\ h \in (i + 1)..Len(gate) /\ h \in 1..Len(gate)
        /\ \A g \in 1..Len(gate) : Occurrences(todo', g) = Occurrences(todo, g) - Is(h, g)
    BY SMTT(30), <1>1, RedirectReads, GateOrder
  <1> HIDE DEF h, from
  <1>3. PICK a, b :
           /\ NowReads(gate, gate', h, a, b)
           /\ \/ gate[h].A = from /\ a = target /\ b = gate[h].B
              \/ gate[h].B = from /\ b = target /\ a = gate[h].A
           /\ Unmoved(wire, wire') /\ Moves(wire, wire', h, from, target)
           /\ panicked' = panicked /\ target \in 1..Len(wire)
    BY RedirectOne DEF h, from
  <1>4. /\ target < from /\ ~Output(target) /\ ~Output(from)
        /\ \A g \in 1..Len(gate) : Occurrences(todo, g) = Is(gate[g].A, from) + Is(gate[g].B, from)
        /\ ReadersExact(wire, gate, NumInputs + i + 1)
    BY <1>1 DEF KInv, Structure, ReadersKnown, from
  <1>a. /\ NumInputs \in Nat /\ Len(gate) \in Nat /\ Len(wire) \in Nat /\ target \in Nat
        /\ from = NumInputs + i /\ i \in Nat /\ h \in Nat /\ h > i /\ h > 4
        /\ Len(wire) = NumInputs + Len(gate)
        /\ \A g \in 1..Len(gate) :
             /\ gate[g].A \in Nat /\ gate[g].A < NumInputs + g
             /\ gate[g].B \in Nat /\ gate[g].B < NumInputs + g
    <2>1. phase \in Building
      BY <1>1 DEF Building
    <2>2. /\ NumInputs \in Nat /\ Len(gate) \in Nat /\ Len(wire) = NumInputs + Len(gate)
          /\ \A g \in 1..Len(gate) :
               /\ gate[g].A \in 1..Len(wire) /\ gate[g].A < NumInputs + g
               /\ gate[g].B \in 0..Len(wire) /\ gate[g].B < NumInputs + g
      BY <2>1, GateOrder
    <2>3. target \in 1..Len(wire)
      BY <1>3
    <2> QED
      BY <1>2, <2>2, <2>3 DEF from
  <1>b. \/ gate[h].A = from /\ a = target /\ b = gate[h].B
        \/ gate[h].B = from /\ b = target /\ a = gate[h].A
    BY <1>3
  <1>5. /\ Len(gate') = Len(gate) /\ Len(wire') = Len(wire)
        /\ \A g \in 1..Len(gate) :
             /\ gate'[g].op = gate[g].op /\ gate'[g].O = gate[g].O
             /\ gate'[g].A = IF g = h THEN a ELSE gate[g].A
             /\ gate'[g].B = IF g = h THEN b ELSE gate[g].B
        /\ \A u \in 1..Len(wire) : wire'[u].value = wire[u].value /\ wire'[u].input = wire[u].input
    BY <1>3 DEF NowReads, Unmoved
  <1>6. /\ phase \in Building /\ Wired(wire, gate) /\ Listed(wire, gate) /\ Len(gate) >= 3
        /\ OutputsInOrder(wire, gate) /\ FirstGates(gate) /\ OutputsFree
        /\ Counted(wire, gate, Alive) /\ dead = {}
    BY <1>1 DEF KInv, Structure, Shape, Listing, Building, Numbering
  <1>7. ASSUME NEW u \in 1..Len(wire)
        PROVE  /\ wire'[u].num = wire[u].num - Is(from, u) + Is(target, u)
               /\ u # target => wire'[u].readers = wire[u].readers
               /\ \A g \in 1..Len(gate) :
                    Occurrences(wire'[u].readers, g) >= Occurrences(wire[u].readers, g)
               /\ u = target => Occurrences(wire'[u].readers, h) > 0
    <2>1. wire[u].readers \in Seq(1..Len(gate))
      BY NetlistFacts
    <2>2. /\ wire'[u].num = wire[u].num - Is(from, u) + Is(target, u)
          /\ \/ wire'[u].readers = wire[u].readers /\ u # target
             \/ u = target /\ Added(wire[u].readers, h, wire'[u].readers)
      BY <1>2, <1>3, <1>4, GateOrder DEF Moves
    <2>3. \A g \in 1..Len(gate) :
             /\ Occurrences(wire'[u].readers, g) >= Occurrences(wire[u].readers, g)
             /\ u = target /\ g = h => Occurrences(wire'[u].readers, g) > 0
      BY <1>2, <2>1, <2>2, OccurrencesGrow
    <2> QED
      BY <1>2, <2>2, <2>3
  <1>8. Listing'
    BY <1>1, <1>5, GateOrder, ListingSame
  <1>9. Shape'
    <2>1. Wired(wire', gate')
      <3>1. a < NumInputs + h /\ b < NumInputs + h
        BY <1>a, <1>3, <1>4, <1>2, SMTT(40)
      <3> QED
        BY <1>5, <1>6, <3>1 DEF Wired
    <2>2. Listed(wire', gate')
      <3> SUFFICES ASSUME NEW w \in 1..Len(wire), NEW g \in 1..Len(gate),
                          gate'[g].A = w \/ gate'[g].B = w
                   PROVE  Occurrences(wire'[w].readers, g) > 0
        BY <1>5 DEF Listed
      <3>1. CASE gate[g].A = w \/ gate[g].B = w
        <4>1. Occurrences(wire[w].readers, g) > 0
          BY <1>6, <3>1 DEF Listed
        <4>2. wire[w].readers \in Seq(1..Len(gate))
          BY NetlistFacts
        <4>3. Occurrences(wire[w].readers, g) \in Nat
          BY <4>2, OccurrencesAre
        <4>4. wire'[w].readers \in Seq(1..Len(gate)) /\ Len(wire') = Len(wire)
          BY <1>3, RedirectStep DEF NInv, Sound, WiresTyped, Unmoved, NowReads
        <4>5. Occurrences(wire'[w].readers, g) \in Nat
          BY <4>4, OccurrencesAre
        <4> QED
          BY <1>7, <4>1, <4>3, <4>5
      <3>2. CASE gate[g].A # w /\ gate[g].B # w
        <4>1. g = h /\ w = target
          BY <1>3, <1>5, <3>2
        <4> QED
          BY <1>7, <4>1
      <3> QED
        BY <3>1, <3>2
    <2>3. OutputsInOrder(wire', gate')
      BY <1>5, <1>6 DEF OutputsInOrder
    <2>4. FirstGates(gate')
      <3>1. \A g \in {1, 2, 3} : g \in 1..Len(gate) /\ g # h
        BY <1>a, <1>6
      <3>2. \A g \in {1, 2, 3} : /\ gate'[g].op = gate[g].op /\ gate'[g].A = gate[g].A
                                 /\ gate'[g].B = gate[g].B
        BY <1>5, <3>1
      <3> QED
        BY <1>5, <1>6, <3>2 DEF FirstGates
    <2> QED
      BY <1>5, <1>6, <2>1, <2>2, <2>3, <2>4 DEF Shape
  <1>10. OutputsFree'
    <2> SUFFICES ASSUME NEW k \in 1..Len(outputs), NEW g \in 1..Len(gate)
                 PROVE  gate'[g].A # outputs[k] /\ gate'[g].B # outputs[k]
      BY <1>1, <1>5, <1>6 DEF OutputsFree
    <2>1. gate[g].A # outputs[k] /\ gate[g].B # outputs[k] /\ outputs[k] # target
      BY <1>4, <1>6 DEF OutputsFree, Output
    <2> QED
      BY <1>3, <1>5, <2>1
  <1>11. ReadersKnown'
    <2>1. ReadersExact(wire', gate', NumInputs + i + 1)
      <3> SUFFICES ASSUME NEW w \in (NumInputs + i + 1)..(NumInputs + Len(gate)),
                          NEW g \in 1..Len(gate)
                   PROVE  Occurrences(wire'[w].readers, g) = Is(gate'[g].A, w) + Is(gate'[g].B, w)
        BY <1>5 DEF ReadersExact
      <3>1. w \in 1..Len(wire) /\ w # target /\ w # from
        BY <1>a, <1>4
      <3>2. Occurrences(wire[w].readers, g) = Is(gate[g].A, w) + Is(gate[g].B, w)
        BY <1>a, <1>4 DEF ReadersExact
      <3>3. Is(gate'[g].A, w) = Is(gate[g].A, w) /\ Is(gate'[g].B, w) = Is(gate[g].B, w)
        BY <1>3, <1>5, <3>1 DEF Is
      <3> QED
        BY <1>7, <3>1, <3>2, <3>3
    <2>2. \A g \in 1..Len(gate) :
            Occurrences(todo', g) = Is(gate'[g].A, from) + Is(gate'[g].B, from)
      <3> TAKE g \in 1..Len(gate)
      <3>1. Occurrences(todo', g) = Is(gate[g].A, from) + Is(gate[g].B, from) - Is(h, g)
        <4>1. Occurrences(todo', g) = Occurrences(todo, g) - Is(h, g)
          BY <1>2
        <4>2. Occurrences(todo, g) = Is(gate[g].A, from) + Is(gate[g].B, from)
          BY <1>4
        <4> QED
          BY <4>1, <4>2 DEF Is
      <3>2. Is(gate'[g].A, from) + Is(gate'[g].B, from)
              = Is(gate[g].A, from) + Is(gate[g].B, from) - Is(h, g)
        <4>1. /\ gate'[g].A = IF g = h THEN a ELSE gate[g].A
              /\ gate'[g].B = IF g = h THEN b ELSE gate[g].B
          BY <1>5
        <4>2. target # from
          BY <1>a, <1>4
        <4>3. CASE g # h
          BY <4>1, <4>3 DEF Is
        <4>4. CASE g = h
          BY <1>3, <4>1, <4>2, <4>4 DEF Is
        <4> QED
          BY <4>3, <4>4
      <3> QED
        BY <3>1, <3>2
    <2>3. (~Output(target))' /\ (~Output(from))'
      BY <1>1, <1>4 DEF Output, from
    <2> QED
      <3>1. target < NumInputs + i /\ i > 3
        BY <1>2, <1>4 DEF from
      <3> QED
        BY <1>1, <1>5, <2>1, <2>2, <2>3, <3>1 DEF ReadersKnown, from
  <1>12. Counted(wire', gate', Alive')
    <2>1. Alive' = Alive /\ IsFiniteSet(Alive) /\ Alive \subseteq 1..Len(gate) /\ h \in Alive
      BY <1>1, <1>2, <1>5, <1>6, AliveFinite, GateOrder DEF Alive
    <2>2. ASSUME NEW u \in 1..Len(wire)
          PROVE  wire'[u].num = (wire[u].num - Is(gate[h].A, u) + Is(a, u))
                                  - Is(gate[h].B, u) + Is(b, u)
      <3>1. wire'[u].num = wire[u].num - Is(from, u) + Is(target, u)
        BY <1>7
      <3>2. wire[u].num \in Int
        BY NetlistFacts DEF WireRecord
      <3> QED
        BY <1>b, <3>1, <3>2 DEF Is
    <2>3. Counted(wire', gate', Alive)
      <3>1. /\ NowReads(gate, gate', h, a, b) /\ OneOf(Alive, h, gate)
            /\ Len(wire') = Len(wire) /\ Counted(wire, gate, Alive)
        BY <1>3, <1>5, <1>6, <2>1 DEF OneOf
      <3> QED
        BY ONLY <2>2, <3>1, CountKept
    <2> QED
      BY <2>1, <2>3
  <1> QED
    BY <1>3, <1>8, <1>9, <1>10, <1>11, <1>12 DEF KInv, Structure

\* A wire that has lost its readers.
Silenced(ws, w, ws2) == ws2 = [ws EXCEPT ![w].num = 0, ![w].readers = <<>>]

\* A wire that loses its readers.
LEMMA SilencedEffect ==
  ASSUME NEW ws \in Seq(WireRecord), NEW w \in 1..Len(ws), NEW ws2, Silenced(ws, w, ws2)
  PROVE  /\ Unmoved(ws, ws2) /\ ws2[w].num = 0 /\ ws2[w].readers = <<>>
         /\ \A u \in 1..Len(ws) : u # w => ws2[u] = ws[u]
  <1> DEFINE new == [ws[w] EXCEPT !.num = 0, !.readers = <<>>]
  <1>1. ws2 = [ws EXCEPT ![w] = new]
    <2> DEFINE mid == [ws EXCEPT ![w].num = 0]
    <2>1. ws2 = [mid EXCEPT ![w].readers = <<>>]
      BY DEF Silenced
    <2>2. ws[w] \in WireRecord
      OBVIOUS
    <2>3. new = [[ws[w] EXCEPT !.num = 0] EXCEPT !.readers = <<>>]
      OBVIOUS
    <2>4. mid = [ws EXCEPT ![w] = [ws[w] EXCEPT !.num = 0]]
      BY Zenon
    <2> DEFINE one == [ws[w] EXCEPT !.num = 0]
    <2>5. mid = [ws EXCEPT ![w] = one]
      BY <2>4
    <2> HIDE DEF one, mid
    <2>6. mid[w] = one /\ DOMAIN mid = DOMAIN ws /\ \A u \in DOMAIN ws : u # w => mid[u] = ws[u]
      BY <2>5
    <2>7. ws2 = [mid EXCEPT ![w] = [one EXCEPT !.readers = <<>>]]
      BY <2>1, <2>6, Zenon
    <2>8. new = [one EXCEPT !.readers = <<>>]
      BY <2>3 DEF one
    <2> HIDE DEF new
    <2> QED
      BY <2>5, <2>7, <2>8
  <1>2. ws[w] \in WireRecord
    OBVIOUS
  <1>3. /\ new.value = ws[w].value /\ new.input = ws[w].input /\ new.id = ws[w].id
        /\ new.num = 0 /\ new.readers = <<>>
    BY <1>2 DEF WireRecord
  <1> HIDE DEF new
  <1>4. Len(ws2) = Len(ws) /\ ws2[w] = new /\ \A u \in 1..Len(ws) : u # w => ws2[u] = ws[u]
    BY <1>1
  <1> QED
    BY <1>3, <1>4 DEF Unmoved

\* Disconnect keeps the shape: the gate's output has no reader left.
LEMMA DisconnectKeeps ==
  ASSUME NInv, KInv, Disconnect
  PROVE  KInv'
  <1> DEFINE from == NumInputs + i
  <1>1. /\ phase = "redirect" /\ phase' = "rewire" /\ todo = <<>>
        /\ wire' = [wire EXCEPT ![gate[G].O].num = 0, ![gate[G].O].readers = <<>>]
        /\ UNCHANGED <<gate, dead, list, kept, outputs, i>>
    BY DEF Disconnect, work
  <1>2. phase \in Building /\ phase \notin Numbering
    BY <1>1 DEF Building, Numbering
  <1>3. /\ i \in 1..Len(gate) /\ G = i /\ gate[G].O = from /\ from \in 1..Len(wire)
        /\ NumInputs \in Nat /\ Len(gate) \in Nat /\ Len(wire) = NumInputs + Len(gate)
    <2>1. i \in 1..Len(gate)
      BY <1>1 DEF KInv, Structure, Listing
    <2> QED
      BY <1>2, <2>1, AtGate, GateOrder
  <1>4. \A h \in 1..Len(gate) : gate[h].A # from /\ gate[h].B # from
    <2> TAKE h \in 1..Len(gate)
    <2>1. Occurrences(todo, h) = Is(gate[h].A, from) + Is(gate[h].B, from)
      BY <1>1 DEF KInv, Structure, ReadersKnown
    <2>2. Occurrences(todo, h) = 0
      BY <1>1, OccurrencesEmpty
    <2> QED
      BY <2>1, <2>2 DEF Is
  <1>5. /\ Unmoved(wire, wire') /\ wire'[from].num = 0 /\ wire'[from].readers = <<>>
        /\ \A u \in 1..Len(wire) : u # from => wire'[u] = wire[u]
    <2>1. Silenced(wire, from, wire')
      BY <1>1, <1>3, Zenon DEF Silenced
    <2> QED
      BY <1>3, <2>1, ReadWires, SilencedEffect
  <1> HIDE DEF from
  <1>6. /\ Wired(wire, gate) /\ Listed(wire, gate) /\ Len(gate) >= 3
        /\ OutputsInOrder(wire, gate) /\ FirstGates(gate) /\ OutputsFree
        /\ Counted(wire, gate, Alive) /\ ReadersExact(wire, gate, NumInputs + i + 1)
    BY <1>1, <1>2 DEF KInv, Structure, Shape, ReadersKnown
  <1>7. Listing'
    BY <1>1, <1>3, ListingSame
  <1>8. Shape'
    <2>1. Wired(wire', gate') /\ OutputsInOrder(wire', gate')
      BY <1>1, <1>5, <1>6, ZenonT(40) DEF Wired, OutputsInOrder, Unmoved
    <2>2. Listed(wire', gate')
      <3> SUFFICES ASSUME NEW w \in 1..Len(wire), NEW h \in 1..Len(gate),
                          gate[h].A = w \/ gate[h].B = w
                   PROVE  Occurrences(wire'[w].readers, h) > 0
        BY <1>1, <1>5 DEF Listed, Unmoved
      <3>1. wire'[w] = wire[w]
        BY <1>4, <1>5
      <3> QED
        BY <1>6, <3>1 DEF Listed
    <2> QED
      BY <1>1, <1>6, <2>1, <2>2 DEF Shape
  <1>9. OutputsFree'
    BY <1>1, <1>6 DEF OutputsFree
  <1>10. ReadersKnown'
    <2>1. ReadersExact(wire', gate', NumInputs + i + 1)
      <3> SUFFICES ASSUME NEW w \in (NumInputs + i + 1)..(NumInputs + Len(gate)),
                          NEW g \in 1..Len(gate)
                   PROVE  Occurrences(wire'[w].readers, g) = Is(gate[g].A, w) + Is(gate[g].B, w)
        BY <1>1 DEF ReadersExact
      <3>1. w \in 1..Len(wire) /\ w # from
        BY <1>3 DEF from
      <3>2. Occurrences(wire[w].readers, g) = Is(gate[g].A, w) + Is(gate[g].B, w)
        BY <1>6 DEF ReadersExact
      <3> QED
        BY <1>5, <3>1, <3>2
    <2> QED
      BY <1>1, <2>1 DEF ReadersKnown
  <1>11. Counted(wire', gate', Alive')
    <2>1. Alive' = Alive
      BY <1>1 DEF Alive
    <2>2. ASSUME NEW u \in 1..Len(wire)
          PROVE  wire'[u].num = Number(As(gate), Alive, u) + Number(Bs(gate), Alive, u)
      <3>1. CASE u # from
        BY <1>5, <1>6, <3>1 DEF Counted
      <3>2. CASE u = from
        <4>1. IsFiniteSet(Alive) /\ Alive \subseteq 1..Len(gate)
          BY <1>3, AliveFinite
        <4>2. \A x \in Alive : As(gate)[x] # u /\ Bs(gate)[x] # u
          BY <1>4, <3>2, <4>1 DEF As, Bs
        <4>3. /\ Number(As(gate), Alive, u) \in Nat /\ Number(Bs(gate), Alive, u) \in Nat
              /\ Number(As(gate), Alive, u) > 0 <=> \E x \in Alive : As(gate)[x] = u
              /\ Number(Bs(gate), Alive, u) > 0 <=> \E x \in Alive : Bs(gate)[x] = u
          BY <4>1, NumberIsNat
        <4>4. Number(As(gate), Alive, u) = 0 /\ Number(Bs(gate), Alive, u) = 0
          BY <4>2, <4>3
        <4> QED
          BY <1>5, <3>2, <4>4
      <3> QED
        BY <3>1, <3>2
    <2> QED
      BY <1>1, <1>5, <2>1, <2>2 DEF Counted, Unmoved
  <1> QED
    BY <1>7, <1>8, <1>9, <1>10, <1>11 DEF KInv, Structure

\* Rewire keeps the shape.
LEMMA RewireKeeps ==
  ASSUME NInv, KInv, Rewire
  PROVE  KInv'
  <1> DEFINE a == gate[G].A
             b == gate[G].B
             na == NowA
             nb == NowB
  <1>1. /\ phase = "rewire" /\ phase' = "const" /\ i' = i + 1
        /\ UNCHANGED <<dead, list, kept, outputs>>
    BY DEF Rewire, work
  <1>2. phase \in Building /\ phase \notin Numbering
    BY <1>1 DEF Building, Numbering
  <1>3. /\ i \in 1..Len(gate) /\ G = i
        /\ NumInputs \in Nat /\ Len(gate) \in Nat /\ Len(wire) = NumInputs + Len(gate)
        /\ a \in 1..Len(wire) /\ a < NumInputs + i
        /\ b \in 0..Len(wire) /\ b < NumInputs + i
    <2>1. i \in 1..Len(gate)
      BY <1>1 DEF KInv, Structure, Listing
    <2> QED
      BY <1>2, <2>1, AtGate, GateOrder
  <1>4. /\ na \in 1..Len(wire) /\ nb \in Nat
        /\ NowReads(gate, gate', G, na, nb) /\ Unmoved(wire, wire')
        /\ \A u \in 1..Len(wire) :
             /\ wire'[u].num = wire[u].num - Is(a, u) + Is(na, u) - Is(b, u) + Is(nb, u)
             /\ \A h \in 1..Len(gate) :
                  Occurrences(wire'[u].readers, h) >= Occurrences(wire[u].readers, h)
             /\ \/ wire'[u].readers = wire[u].readers
                \/ u = na /\ ValueA # "?"
                \/ u = nb /\ nb # Nil /\ ValueB # "?"
             /\ (u = na /\ na # a) \/ (u = nb /\ nb # b)
                  => Occurrences(wire'[u].readers, G) > 0
    BY RewireEffect
  <1>5. /\ ValueA = "?" => na = a
        /\ ValueA # "?" => na \in {NumInputs + 2, NumInputs + 3}
        /\ b = Nil => nb = Nil
        /\ b # Nil /\ ValueB = "?" => nb = b
        /\ b # Nil /\ ValueB # "?" => nb \in {NumInputs + 2, NumInputs + 3}
    <2>1. /\ wire[a].value \in {"?", "0", "1"}
          /\ b # Nil => wire[b].value \in {"?", "0", "1"}
      BY <1>3, WireFacts DEF Nil
    <2> QED
      BY <2>1 DEF NowA, NowB, ConstWire, ValueA, ValueB, ZeroWire, OneWire
  <1>6. i <= 3 => ValueA = "?" /\ (b # Nil => ValueB = "?")
    <2> SUFFICES ASSUME i <= 3 PROVE ValueA = "?" /\ (b # Nil => ValueB = "?")
      OBVIOUS
    <2>1. i \in 1..3
      BY <1>3
    <2> QED
      BY <1>2, <1>3, <2>1, FirstUnknown DEF ValueA, ValueB
  <1>7. /\ na < NumInputs + i /\ nb < NumInputs + i
        /\ i <= 3 => na = a /\ nb = b
    BY <1>3, <1>5, <1>6 DEF Nil
  <1> HIDE DEF a, b, na, nb
  <1>8. /\ Len(gate') = Len(gate) /\ Len(wire') = Len(wire)
        /\ \A g \in 1..Len(gate) :
             /\ gate'[g].op = gate[g].op /\ gate'[g].O = gate[g].O
             /\ gate'[g].A = IF g = i THEN na ELSE gate[g].A
             /\ gate'[g].B = IF g = i THEN nb ELSE gate[g].B
        /\ \A u \in 1..Len(wire) : wire'[u].value = wire[u].value /\ wire'[u].input = wire[u].input
    BY <1>3, <1>4 DEF NowReads, Unmoved
  <1>9. /\ Wired(wire, gate) /\ Listed(wire, gate) /\ Len(gate) >= 3
        /\ OutputsInOrder(wire, gate) /\ FirstGates(gate) /\ OutputsFree
        /\ Counted(wire, gate, Alive) /\ ReadersExact(wire, gate, NumInputs + i + 1)
        /\ dead = {}
    BY <1>1, <1>2 DEF KInv, Structure, Shape, ReadersKnown, Listing
  <1>10. Listing'
    BY <1>1, <1>3, <1>8, ListingSame
  <1>11. gate[i].A = a /\ gate[i].B = b
    BY <1>3 DEF a, b
  <1>12. Shape'
    <2>1. Wired(wire', gate')
      BY <1>7, <1>8, <1>9 DEF Wired
    <2>2. OutputsInOrder(wire', gate')
      BY <1>8, <1>9 DEF OutputsInOrder
    <2>3. FirstGates(gate')
      <3>1. \A g \in {1, 2, 3} : /\ gate'[g].op = gate[g].op /\ gate'[g].A = gate[g].A
                                 /\ gate'[g].B = gate[g].B
        <4> TAKE g \in {1, 2, 3}
        <4>1. g \in 1..Len(gate) /\ g <= 3
          BY <1>3, <1>9
        <4> QED
          BY <1>7, <1>8, <1>11, <4>1
      <3> QED
        BY <1>8, <1>9, <3>1 DEF FirstGates
    <2>4. Listed(wire', gate')
      <3> SUFFICES ASSUME NEW w \in 1..Len(wire), NEW g \in 1..Len(gate),
                          gate'[g].A = w \/ gate'[g].B = w
                   PROVE  Occurrences(wire'[w].readers, g) > 0
        BY <1>8 DEF Listed
      <3>1. CASE gate[g].A = w \/ gate[g].B = w
        <4>1. Occurrences(wire[w].readers, g) > 0
          BY <1>9, <3>1 DEF Listed
        <4>2. wire[w].readers \in Seq(1..Len(gate))
          BY NetlistFacts
        <4>3. Occurrences(wire[w].readers, g) \in Nat
          BY <4>2, OccurrencesAre
        <4>4. wire'[w].readers \in Seq(1..Len(gate))
          BY <1>8, RewireStep DEF NInv, Sound, WiresTyped
        <4>5. Occurrences(wire'[w].readers, g) \in Nat
          BY <4>4, OccurrencesAre
        <4>6. Occurrences(wire'[w].readers, g) >= Occurrences(wire[w].readers, g)
          BY <1>4
        <4> QED
          BY <4>1, <4>3, <4>5, <4>6
      <3>2. CASE gate[g].A # w /\ gate[g].B # w
        <4>1. g = i /\ ((w = na /\ na # a) \/ (w = nb /\ nb # b))
          BY <1>8, <1>11, <3>2
        <4> QED
          BY <1>3, <1>4, <4>1
      <3> QED
        BY <3>1, <3>2
    <2> QED
      BY <1>8, <1>9, <2>1, <2>2, <2>3, <2>4 DEF Shape
  <1>13. OutputsFree'
    <2> SUFFICES ASSUME NEW k \in 1..Len(outputs), NEW g \in 1..Len(gate)
                 PROVE  gate'[g].A # outputs[k] /\ gate'[g].B # outputs[k]
      BY <1>1, <1>8, <1>9 DEF OutputsFree
    <2>1. /\ gate[g].A # outputs[k] /\ gate[g].B # outputs[k]
          /\ a # outputs[k] /\ b # outputs[k] /\ outputs[k] \in (NumInputs + 4)..(NumInputs + Len(gate))
      BY <1>3, <1>9, <1>11 DEF OutputsFree
    <2>2. na # outputs[k] /\ nb # outputs[k]
      <3>1. outputs[k] # NumInputs + 2 /\ outputs[k] # NumInputs + 3 /\ outputs[k] # Nil
        BY <1>3, <2>1 DEF Nil
      <3> QED
        BY <1>5, <2>1, <3>1
    <2> QED
      BY <1>8, <2>1, <2>2
  <1>14. ReadersKnown'
    <2>1. ReadersExact(wire', gate', NumInputs + i + 1)
      <3> SUFFICES ASSUME NEW w \in (NumInputs + i + 1)..(NumInputs + Len(gate)),
                          NEW g \in 1..Len(gate)
                   PROVE  Occurrences(wire'[w].readers, g) = Is(gate'[g].A, w) + Is(gate'[g].B, w)
        BY <1>8 DEF ReadersExact
      <3>1. w \in 1..Len(wire) /\ w # na /\ w # nb /\ w # a /\ w # b
        <4>1. a < NumInputs + i /\ b < NumInputs + i /\ a \in Nat /\ b \in Nat
              /\ na \in Nat /\ nb \in Nat
          BY <1>3, <1>4 DEF a, b
        <4> QED
          BY <1>3, <1>7, <4>1
      <3>2. Occurrences(wire[w].readers, g) = Is(gate[g].A, w) + Is(gate[g].B, w)
        BY <1>9 DEF ReadersExact
      <3>3. wire'[w].readers = wire[w].readers
        BY <1>4, <3>1
      <3>4. Is(gate'[g].A, w) = Is(gate[g].A, w) /\ Is(gate'[g].B, w) = Is(gate[g].B, w)
        BY <1>8, <1>11, <3>1 DEF Is
      <3> QED
        BY <3>2, <3>3, <3>4
    <2> QED
      BY <1>1, <1>3, <2>1 DEF ReadersKnown
  <1>15. Counted(wire', gate', Alive')
    <2>1. Alive' = Alive /\ OneOf(Alive, i, gate)
      BY <1>1, <1>3, <1>8, <1>9, AliveFinite DEF Alive, OneOf
    <2>2. ASSUME NEW u \in 1..Len(wire)
          PROVE  wire'[u].num = (wire[u].num - Is(gate[i].A, u) + Is(na, u))
                                  - Is(gate[i].B, u) + Is(nb, u)
      <3>1. wire'[u].num = wire[u].num - Is(a, u) + Is(na, u) - Is(b, u) + Is(nb, u)
        BY <1>4
      <3>2. wire[u].num \in Int
        BY NetlistFacts DEF WireRecord
      <3>3. Is(a, u) \in Int /\ Is(na, u) \in Int /\ Is(b, u) \in Int /\ Is(nb, u) \in Int
        BY DEF Is
      <3> QED
        BY <1>11, <3>1, <3>2, <3>3
    <2>3. Counted(wire', gate', Alive)
      <3>1. /\ NowReads(gate, gate', i, na, nb) /\ OneOf(Alive, i, gate)
            /\ Len(wire') = Len(wire) /\ Counted(wire, gate, Alive)
        BY <1>3, <1>4, <1>8, <1>9, <2>1
      <3> QED
        BY ONLY <2>2, <3>1, CountKept
    <2> QED
      BY <2>1, <2>3
  <1> QED
    BY <1>10, <1>12, <1>13, <1>14, <1>15 DEF KInv, Structure

(***************************************************************************)
(* Building                                                                *)
(***************************************************************************)
\* What AddBinary does.
LEMMA AddBinaryMore ==
  ASSUME NInv, NEW op \in AllOps \ {"INV"}, NEW a \in 1..Len(wire),
         NEW b \in 1..Len(wire), AddBinary(op, a, b)
  PROVE  /\ MoreGate(wire, gate, op, a, b, wire', gate')
         /\ list' = Append(list, Len(gate) + 1) /\ dead' = dead
  <1> DEFINE m == [wire |-> wire, gate |-> gate, meaning |-> meaning]
             n == Extend(m, op, a, b)
  <1>1. /\ wire' = n.wire /\ gate' = n.gate /\ meaning' = n.meaning /\ dead' = dead
        /\ list' = Append(list, Len(n.gate))
    BY DEF AddBinary
  <1>2. m.wire = wire /\ m.gate = gate /\ m.meaning = meaning
    OBVIOUS
  <1> HIDE DEF m
  <1>3. GateAdded(wire, gate, meaning, op, a, b, wire', gate', meaning')
    BY <1>1, <1>2, Extended
  <1>4. Sound(wire, gate, meaning)
    BY DEF NInv
  <1> HIDE DEF n
  <1>5. MoreGate(wire, gate, op, a, b, wire', gate')
    BY ONLY <1>3, <1>4, MoreGateMade
  <1> QED
    BY <1>1, <1>5 DEF MoreGate

\* A gate more keeps the shape, if outputs stay unread.
LEMMA AddBinaryKeeps ==
  ASSUME NInv, KInv, phase = "build", phase' = "build", i' = i,
         NEW op \in AllOps \ {"INV"}, NEW a \in 1..Len(wire), NEW b \in 1..Len(wire),
         AddBinary(op, a, b), ~Output(a), ~Output(b),
         outputs' = outputs \/ outputs' = Append(outputs, Len(wire) + 1)
  PROVE  KInv'
  <1>1. MoreGate(wire, gate, op, a, b, wire', gate') /\ list' = Append(list, Len(gate) + 1)
        /\ dead' = dead
    BY AddBinaryMore
  <1>2. /\ Listing /\ Shape /\ OutputsFree /\ ReadersKnown /\ Counted(wire, gate, Alive)
        /\ i = 1 /\ dead = {} /\ Len(list) = Len(gate)
        /\ \A k \in 1..Len(gate) : list[k] = k
    BY DEF KInv, Structure, Listing, Numbering
  <1>3. /\ NumInputs \in Nat /\ NumInputs >= 1 /\ Len(gate) \in Nat /\ Len(gate) >= 3
        /\ Len(wire) = NumInputs + Len(gate)
        /\ \A g \in 1..Len(gate) : /\ gate[g].A \in 1..Len(wire) /\ gate[g].B \in 0..Len(wire)
    BY GateOrder DEF Building
  <1>4. Built(wire, gate)
    <2>1. Alive = 1..Len(gate)
      BY <1>2 DEF Alive
    <2> QED
      BY <1>2, <2>1 DEF Built, Shape, ReadersKnown, Building
  <1>5. Built(wire', gate')
    <2>1. Sound(wire, gate, meaning) /\ b \in 0..Len(wire)
      BY DEF NInv
    <2> QED
      BY <1>1, <1>4, <2>1, MoreGateBuilt
  <1>6. /\ Len(gate') = Len(gate) + 1
        /\ \A h \in 1..Len(gate) : gate'[h] = gate[h]
        /\ gate'[Len(gate) + 1].A = a /\ gate'[Len(gate) + 1].B = b
    BY <1>1 DEF MoreGate
  <1>7. Listing'
    <2>1. Len(list') = Len(gate') /\ \A k \in 1..Len(gate') : list'[k] = k
      <3>1. list \in Seq(1..Len(gate))
        BY DEF NInv, LoopsTyped
      <3> QED
        BY <1>1, <1>2, <1>6, <3>1
    <2>2. dead' = {} /\ i' = 1
      BY <1>1, <1>2
    <2> QED
      BY <2>1, <2>2 DEF Listing, Building, Numbering
  <1>8. FirstGates(gate')
    <2>1. FirstGates(gate)
      BY <1>2 DEF Shape, Building
    <2>2. \A g \in {1, 2, 3} : gate'[g] = gate[g]
      BY <1>3, <1>6
    <2> QED
      BY <1>3, <1>6, <2>1, <2>2 DEF FirstGates
  <1>9. Shape'
    BY <1>3, <1>5, <1>6, <1>8 DEF Shape, Built
  <1>10. ReadersKnown'
    BY <1>2, <1>5 DEF ReadersKnown, Built
  <1>11. Counted(wire', gate', Alive')
    <2>1. Alive' = 1..Len(gate')
      BY <1>1, <1>2 DEF Alive
    <2> QED
      BY <1>5, <2>1 DEF Built
  <1>12. OutputsFree'
    <2>1. outputs \in Seq(1..Len(wire))
      BY DEF NInv, LoopsTyped
    <2>2. ASSUME NEW k \in 1..Len(outputs)
          PROVE  /\ outputs[k] \in (NumInputs + 4)..(NumInputs + Len(gate))
                 /\ \A l \in 1..Len(outputs) : outputs[k] = outputs[l] => k = l
                 /\ \A g \in 1..Len(gate) : gate[g].A # outputs[k] /\ gate[g].B # outputs[k]
                 /\ a # outputs[k] /\ b # outputs[k]
      BY <1>2 DEF OutputsFree, Output
    <2>3. \A h \in 1..Len(gate') : h \in 1..Len(gate) \/ h = Len(gate) + 1
      BY <1>3, <1>6
    <2>4. \A k \in 1..Len(outputs) : \A h \in 1..Len(gate') :
            gate'[h].A # outputs[k] /\ gate'[h].B # outputs[k]
      BY <1>6, <2>2, <2>3
    <2>5. CASE outputs' = outputs
      BY <1>3, <1>6, <2>2, <2>4, <2>5 DEF OutputsFree
    <2>6. CASE outputs' = Append(outputs, Len(wire) + 1)
      <3> DEFINE o == Len(wire) + 1
      <3>1. \A h \in 1..Len(gate') : gate'[h].A # o /\ gate'[h].B # o
        BY <1>3, <1>6, <2>3
      <3>2. o \in (NumInputs + 4)..(NumInputs + Len(gate')) /\ o > NumInputs + Len(gate)
        BY <1>3, <1>6
      <3>3. /\ Len(outputs') = Len(outputs) + 1 /\ outputs'[Len(outputs) + 1] = o
            /\ \A k \in 1..Len(outputs) : outputs'[k] = outputs[k]
            /\ Len(outputs) \in Nat
        BY <2>1, <2>6
      <3> HIDE DEF o
      <3>4. \A k \in 1..Len(outputs') : k \in 1..Len(outputs) \/ k = Len(outputs) + 1
        BY <3>3
      <3>5. \A k \in 1..Len(outputs) : outputs[k] # o
            /\ outputs[k] \in (NumInputs + 4)..(NumInputs + Len(gate'))
        BY <1>3, <1>6, <2>2, <3>2, SMTT(40)
      <3>6. ASSUME NEW k \in 1..Len(outputs')
            PROVE  /\ outputs'[k] \in (NumInputs + 4)..(NumInputs + Len(gate'))
                   /\ \A g \in 1..Len(gate') : gate'[g].A # outputs'[k] /\ gate'[g].B # outputs'[k]
        BY <2>4, <3>1, <3>2, <3>3, <3>4, <3>5
      <3>7. ASSUME NEW k \in 1..Len(outputs'), NEW l \in 1..Len(outputs'), outputs'[k] = outputs'[l]
            PROVE  k = l
        BY <2>2, <3>3, <3>4, <3>5, <3>7
      <3> QED
        BY <3>6, <3>7 DEF OutputsFree
    <2> QED
      BY <2>5, <2>6
  <1> QED
    BY <1>7, <1>9, <1>10, <1>11, <1>12 DEF KInv, Structure

\* Build and Ret keep the shape.
LEMMA BuildKeeps ==
  ASSUME NInv, KInv, NEW op \in Ops, NEW a \in Usable, NEW b \in Usable, Build(op, a, b)
  PROVE  KInv'
  <1>1. /\ phase = "build" /\ phase' = "build" /\ i' = i /\ outputs = <<>> /\ outputs' = outputs
        /\ AddBinary(op, a, b)
    BY DEF Build
  <1>2. op \in AllOps \ {"INV"} /\ a \in 1..Len(wire) /\ b \in 1..Len(wire)
    BY NetlistAssumption DEF AllOps, Usable
  <1>3. ~Output(a) /\ ~Output(b)
    BY <1>1 DEF Output
  <1> QED
    BY <1>1, <1>2, <1>3, AddBinaryKeeps

\* Ret keeps the shape.
LEMMA RetKeeps ==
  ASSUME NInv, KInv, NEW w \in Usable, Ret(w)
  PROVE  KInv'
  <1>1. /\ phase = "build" /\ phase' = "build" /\ i' = i /\ ~Output(w)
        /\ outputs' = Append(outputs, Len(wire) + 1) /\ AddBinary("XOR", w, ZeroWire)
    BY DEF Ret
  <1>2. /\ "XOR" \in AllOps \ {"INV"} /\ w \in 1..Len(wire) /\ ZeroWire \in 1..Len(wire)
    BY GateOrder DEF AllOps, Usable, ZeroWire
  <1>3. ~Output(ZeroWire)
    BY GateOrder DEF KInv, Structure, OutputsFree, Output, ZeroWire
  <1> QED
    BY <1>1, <1>2, <1>3, AddBinaryKeeps

(***************************************************************************)
(* ShortCircuitXORZero                                                     *)
(***************************************************************************)
\* Gates p and g exchange outputs: p drives what g drove, g a new wire.
Exchanged(ws, gs, p, g, ws2, gs2) ==
    /\ gs2 = [gs EXCEPT ![p].O = gs[g].O, ![g].O = Len(ws) + 1]
    /\ ws2 = Append(ws, NewWire(Nil))

\* The same, wire by wire and gate by gate.
ExchangedWires(ws, ws2) ==
    /\ Len(ws2) = Len(ws) + 1
    /\ \A u \in 1..Len(ws) : ws2[u] = ws[u]
    /\ ws2[Len(ws) + 1].id = Unassigned /\ ws2[Len(ws) + 1].value = "?"
    /\ ws2[Len(ws) + 1].num = 0 /\ ws2[Len(ws) + 1].input = Nil

ExchangedGates(ws, gs, p, g, gs2) ==
    /\ Len(gs2) = Len(gs)
    /\ \A h \in 1..Len(gs) :
         /\ gs2[h].op = gs[h].op /\ gs2[h].A = gs[h].A /\ gs2[h].B = gs[h].B
         /\ gs2[h].O = IF h = g THEN Len(ws) + 1 ELSE IF h = p THEN gs[g].O ELSE gs[h].O

\* What an exchange does to the lists of wires and gates.
LEMMA ExchangedEffect ==
  ASSUME NEW ws \in Seq(WireRecord), NEW gs \in Seq(GateRecord),
         NEW p \in 1..Len(gs), NEW g \in 1..Len(gs), p # g,
         NEW ws2, NEW gs2, Exchanged(ws, gs, p, g, ws2, gs2)
  PROVE  ExchangedWires(ws, ws2) /\ ExchangedGates(ws, gs, p, g, gs2)
  <1> DEFINE new == Len(ws) + 1
             o == gs[g].O
             mid == [gs EXCEPT ![p].O = o]
             gp == [gs[p] EXCEPT !.O = o]
             gg == [gs[g] EXCEPT !.O = new]
  <1>1. gs2 = [mid EXCEPT ![g].O = new] /\ ws2 = Append(ws, NewWire(Nil))
    BY Zenon DEF Exchanged
  <1>2. /\ \A h \in 1..Len(gs) : gs[h] \in GateRecord
        /\ new \in Nat /\ o \in Nat
    <2>1. gs[g] \in GateRecord /\ \A h \in 1..Len(gs) : gs[h] \in GateRecord
      OBVIOUS
    <2>2. gs[g].O \in Nat
      BY <2>1 DEF GateRecord
    <2>3. new \in Nat
      OBVIOUS
    <2> QED
      BY <2>1, <2>2, <2>3
  <1>3. mid = [gs EXCEPT ![p] = gp]
    BY Zenon
  <1>4. /\ gp.op = gs[p].op /\ gp.A = gs[p].A /\ gp.B = gs[p].B /\ gp.O = o
        /\ gp \in GateRecord
        /\ gg.op = gs[g].op /\ gg.A = gs[g].A /\ gg.B = gs[g].B /\ gg.O = new
        /\ gg \in GateRecord
    BY <1>2 DEF GateRecord
  <1> HIDE DEF gp, mid
  <1>5. /\ mid \in Seq(GateRecord) /\ Len(mid) = Len(gs) /\ mid[p] = gp
        /\ \A h \in 1..Len(gs) : h # p => mid[h] = gs[h]
    BY <1>3, <1>4
  <1>6. gs2 = [mid EXCEPT ![g] = gg]
    <2>1. mid[g] = gs[g]
      BY <1>5
    <2>2. gs2 = [mid EXCEPT ![g] = [mid[g] EXCEPT !.O = new]]
      BY <1>1, Zenon
    <2> QED
      BY <2>1, <2>2
  <1> HIDE DEF gg
  <1>7. /\ Len(gs2) = Len(gs) /\ gs2[g] = gg
        /\ \A h \in 1..Len(gs) : h # g => gs2[h] = mid[h]
    BY <1>4, <1>5, <1>6
  <1>8. ExchangedGates(ws, gs, p, g, gs2)
    <2> SUFFICES ASSUME NEW h \in 1..Len(gs)
                 PROVE  /\ gs2[h].op = gs[h].op /\ gs2[h].A = gs[h].A /\ gs2[h].B = gs[h].B
                        /\ gs2[h].O = IF h = g THEN new ELSE IF h = p THEN o ELSE gs[h].O
      BY <1>7 DEF ExchangedGates
    <2>1. CASE h = g
      BY <1>4, <1>7, <2>1
    <2>2. CASE h = p
      BY <1>4, <1>5, <1>7, <2>2
    <2>3. CASE h # p /\ h # g
      BY <1>5, <1>7, <2>3
    <2> QED
      BY <2>1, <2>2, <2>3
  <1>9. ExchangedWires(ws, ws2)
    <2> DEFINE nw == NewWire(Nil)
    <2>1. /\ nw.id = Unassigned /\ nw.value = "?" /\ nw.num = 0 /\ nw.input = Nil
          /\ nw \in WireRecord
      <3>1. nw \in WireRecord
        BY NewWireTyped DEF Nil
      <3> QED
        BY <3>1 DEF NewWire
    <2>2. ws2 = Append(ws, nw)
      BY <1>1
    <2> HIDE DEF nw
    <2>3. /\ Len(ws2) = Len(ws) + 1 /\ ws2[Len(ws) + 1] = nw
          /\ \A u \in 1..Len(ws) : ws2[u] = ws[u]
      BY <2>1, <2>2
    <2> QED
      BY <2>1, <2>3 DEF ExchangedWires
  <1> QED
    BY <1>8, <1>9

\* The gate that is skipped to is an earlier one.
LEMMA SkipIs ==
  ASSUME NInv, KInv, phase \in {"xorA", "xorB"}, i \in 1..Len(gate),
         NEW zero, NEW x, SkipXORZero(zero, x),
         \/ zero = gate[G].A /\ x = gate[G].B
         \/ zero = gate[G].B /\ x = gate[G].A
  PROVE  \/ UNCHANGED <<gate, wire>>
         \/ /\ x \in 1..Len(wire) /\ wire[x].input \in 1..Len(gate) /\ wire[x].input < i
            /\ ExchangedWires(wire, wire')
            /\ ExchangedGates(wire, gate, wire[x].input, i, gate')
  <1> DEFINE p == wire[x].input
  <1>1. G = i /\ phase \notin Numbering
    BY AtGate DEF Numbering
  <1>2. CASE ~Skippable(zero, x)
    BY <1>2 DEF SkipXORZero
  <1>3. CASE Skippable(zero, x)
    <2>1. Exchanged(wire, gate, p, i, wire', gate')
      BY <1>1, <1>3 DEF SkipXORZero, Skip, Exchanged
    <2>2. /\ x \in 1..Len(wire) /\ x < NumInputs + i /\ p # Nil
          /\ NumInputs \in Nat /\ Len(gate) \in Nat
      <3>1. gate[i].op = "XOR" /\ p # Nil
        BY <1>1, <1>3 DEF Skippable
      <3>2. gate[i].A \in 1..Len(wire) /\ gate[i].B \in 1..Len(wire)
        BY <3>1, GateFacts
      <3> QED
        BY <1>1, <3>1, <3>2, GateOrder
    <2>3. x \in (NumInputs + 1)..(NumInputs + Len(gate)) /\ p = x - NumInputs
      <3>1. p = IF x \in (NumInputs + 1)..(NumInputs + Len(gate)) THEN x - NumInputs ELSE Nil
        BY <2>2 DEF KInv, Structure, Shape, Wired
      <3> QED
        BY <2>2, <3>1
    <2>4. p \in 1..Len(gate) /\ p < i
      BY <2>2, <2>3
    <2>5. wire \in Seq(WireRecord) /\ gate \in Seq(GateRecord)
      BY DEF NInv, Sound, WiresTyped, GatesTyped
    <2> HIDE DEF p
    <2>6. p # i
      BY <2>4
    <2>7. ExchangedWires(wire, wire') /\ ExchangedGates(wire, gate, p, i, gate')
      BY <2>1, <2>4, <2>5, <2>6, ExchangedEffect
    <2> QED
      BY <2>2, <2>4, <2>7 DEF p
  <1> QED
    BY <1>2, <1>3

\* Exchanging outputs keeps the shape.
LEMMA ExchangedKeeps ==
  ASSUME NInv, KInv, NEW p \in 1..Len(gate), p < i, i \in 1..Len(gate),
         ExchangedWires(wire, wire'), ExchangedGates(wire, gate, p, i, gate'),
         UNCHANGED <<dead, outputs>>
  PROVE  /\ Wired(wire', gate') /\ Listed(wire', gate') /\ Counted(wire', gate', Alive')
         /\ OutputsFree'
  <1> DEFINE new == Len(wire) + 1
  <1>1. /\ Wired(wire, gate) /\ Listed(wire, gate) /\ Counted(wire, gate, Alive) /\ OutputsFree
    BY DEF KInv, Structure, Shape
  <1>2. /\ NumInputs \in Nat /\ Len(gate) \in Nat /\ Len(wire) \in Nat
        /\ Len(wire) >= NumInputs + Len(gate)
        /\ \A g \in 1..Len(gate) :
             /\ gate[g].A \in 1..Len(wire) /\ gate[g].A < NumInputs + g
             /\ gate[g].B \in 0..Len(wire) /\ gate[g].B < NumInputs + g
             /\ gate[g].O \in 1..Len(wire) /\ gate[g].O >= NumInputs + g
    BY GateOrder
  <1>3. /\ Len(gate') = Len(gate)
        /\ \A h \in 1..Len(gate) :
             /\ gate'[h].op = gate[h].op /\ gate'[h].A = gate[h].A /\ gate'[h].B = gate[h].B
             /\ gate'[h].O = IF h = i THEN new ELSE IF h = p THEN gate[i].O ELSE gate[h].O
    BY DEF ExchangedGates
  <1>4. /\ Len(wire') = new
        /\ \A u \in 1..Len(wire) : wire'[u] = wire[u]
        /\ wire'[new].num = 0 /\ wire'[new].input = Nil
    BY DEF ExchangedWires
  <1>5. \A u \in 1..new : u \in 1..Len(wire) \/ u = new
    <2>1. Len(wire) \in Nat
      BY <1>2
    <2> QED
      BY ONLY <2>1
  <1>6. \A h \in 1..Len(gate) : gate[h].A # new /\ gate[h].B # new /\ gate[h].O # new
    BY <1>2
  <1>7. Wired(wire', gate')
    <2>1. ASSUME NEW u \in 1..new
          PROVE  wire'[u].input = IF u \in (NumInputs + 1)..(NumInputs + Len(gate))
                                  THEN u - NumInputs ELSE Nil
      <3>1. CASE u = new
        BY <1>2, <1>4, <3>1
      <3>2. CASE u \in 1..Len(wire)
        BY <1>1, <1>4, <3>2 DEF Wired
      <3> QED
        BY <1>5, <3>1, <3>2
    <2>2. ASSUME NEW h \in 1..Len(gate)
          PROVE  gate'[h].O >= NumInputs + h
      <3>1. /\ gate[h].O \in Nat /\ gate[h].O >= NumInputs + h /\ h <= Len(gate) /\ h \in Nat
            /\ gate[i].O \in Nat /\ gate[i].O >= NumInputs + i /\ i \in Nat
            /\ p < i /\ p \in Nat /\ NumInputs \in Nat /\ new \in Nat /\ new >= NumInputs + Len(gate) /\ Len(gate) \in Nat
        BY <1>2, SMTT(40)
      <3>2. gate'[h].O = IF h = i THEN new ELSE IF h = p THEN gate[i].O ELSE gate[h].O
        BY <1>3
      <3> HIDE DEF new
      <3>3. CASE h = i
        BY <3>1, <3>2, <3>3
      <3>4. CASE h # i /\ h = p
        BY <3>1, <3>2, <3>4
      <3>5. CASE h # i /\ h # p
        BY <3>1, <3>2, <3>5
      <3> QED
        BY <3>3, <3>4, <3>5
    <2>3. \A g, h \in 1..Len(gate) : gate'[g].O = gate'[h].O => g = h
      <3>1. \A g, h \in 1..Len(gate) : gate[g].O = gate[h].O => g = h
        BY <1>1 DEF Wired
      <3> QED
        BY <1>3, <1>6, <3>1
    <2>4. new >= NumInputs + Len(gate)
      BY <1>2
    <2> QED
      BY <1>2, <1>3, <1>4, <2>1, <2>2, <2>3, <2>4 DEF Wired
  <1>8. Listed(wire', gate')
    BY <1>1, <1>3, <1>4, <1>5, <1>6 DEF Listed
  <1>9. OutputsFree'
    BY <1>1, <1>3 DEF OutputsFree
  <1>10. Counted(wire', gate', Alive')
    <2>1. Alive' = Alive
      BY <1>3 DEF Alive
    <2>2. IsFiniteSet(Alive) /\ Alive \subseteq 1..Len(gate)
      BY <1>2, AliveFinite
    <2>3. /\ \A y \in Alive : As(gate')[y] = As(gate)[y]
          /\ \A y \in Alive : Bs(gate')[y] = Bs(gate)[y]
      BY <1>3, <2>2 DEF As, Bs
    <2>4. ASSUME NEW u \in 1..new
          PROVE  wire'[u].num = Number(As(gate'), Alive, u) + Number(Bs(gate'), Alive, u)
      <3>1. /\ Number(As(gate'), Alive, u) = Number(As(gate), Alive, u)
            /\ Number(Bs(gate'), Alive, u) = Number(Bs(gate), Alive, u)
        BY <2>3, NumberSame
      <3>2. CASE u \in 1..Len(wire)
        BY <1>1, <1>4, <3>1, <3>2 DEF Counted
      <3>3. CASE u = new
        <4>1. \A y \in Alive : As(gate)[y] # u /\ Bs(gate)[y] # u
          BY <1>6, <2>2, <3>3 DEF As, Bs
        <4>2. /\ Number(As(gate), Alive, u) \in Nat /\ Number(Bs(gate), Alive, u) \in Nat
              /\ Number(As(gate), Alive, u) > 0 <=> \E y \in Alive : As(gate)[y] = u
              /\ Number(Bs(gate), Alive, u) > 0 <=> \E y \in Alive : Bs(gate)[y] = u
          BY <2>2, NumberIsNat
        <4>3. Number(As(gate), Alive, u) = 0 /\ Number(Bs(gate), Alive, u) = 0
          BY <4>1, <4>2
        <4> QED
          BY <1>4, <3>1, <3>3, <4>3
      <3> QED
        BY <1>5, <3>2, <3>3
    <2> QED
      BY <1>4, <2>1, <2>4 DEF Counted
  <1> QED
    BY <1>7, <1>8, <1>9, <1>10

\* SkipByA and SkipByB keep the shape.
LEMMA SkipKeeps ==
  ASSUME NInv, KInv, SkipByA \/ SkipByB
  PROVE  KInv'
  <1>1. /\ phase \in {"xorA", "xorB"} /\ phase' \in {"xorA", "xorB"}
        /\ UNCHANGED <<dead, list, outputs, work>>
        /\ \/ phase = "xorA" /\ InLoop /\ phase' = "xorB" /\ i' = i
           \/ phase = "xorB" /\ phase' = "xorA" /\ i' = i + 1
        /\ \E zero, x : /\ SkipXORZero(zero, x)
                        /\ \/ zero = gate[G].A /\ x = gate[G].B
                           \/ zero = gate[G].B /\ x = gate[G].A
    BY DEF SkipByA, SkipByB, SkipXORZero
  <1>2. i \in 1..Len(gate)
    <2>1. Listing /\ Len(list) = Len(gate)
      BY <1>1, AtGate DEF KInv, Structure, Numbering
    <2> QED
      BY <1>1, <2>1 DEF Listing, InLoop
  <1>3. /\ Wired(wire, gate) /\ Listed(wire, gate) /\ Counted(wire, gate, Alive) /\ OutputsFree
        /\ Len(gate) \in Nat /\ Len(gate) >= 3
    BY GateOrder DEF KInv, Structure, Shape
  <1>4. /\ Wired(wire', gate') /\ Listed(wire', gate') /\ Counted(wire', gate', Alive')
        /\ OutputsFree' /\ Len(gate') = Len(gate)
    <2>1. CASE UNCHANGED <<gate, wire>>
      BY <1>1, <1>3, <2>1 DEF OutputsFree, Alive
    <2>2. CASE \E p \in 1..Len(gate) : /\ p < i /\ ExchangedWires(wire, wire')
                                       /\ ExchangedGates(wire, gate, p, i, gate')
      <3>1. PICK p \in 1..Len(gate) : /\ p < i /\ ExchangedWires(wire, wire')
                                      /\ ExchangedGates(wire, gate, p, i, gate')
        BY <2>2
      <3>2. Len(gate') = Len(gate)
        BY <3>1 DEF ExchangedGates
      <3> QED
        BY <1>1, <1>2, <3>1, <3>2, ExchangedKeeps
    <2> QED
      BY <1>1, <1>2, <2>1, <2>2, SkipIs
  <1>5. Listing'
    BY <1>1, <1>2, <1>3, <1>4, ListingSame DEF work
  <1>6. Shape'
    BY <1>1, <1>3, <1>4 DEF Shape, Building
  <1>7. ReadersKnown'
    BY <1>1 DEF ReadersKnown
  <1> QED
    BY <1>4, <1>5, <1>6, <1>7 DEF KInv, Structure

(***************************************************************************)
(* Prune                                                                   *)
(***************************************************************************)
\* Gate g no longer reads.
Released(ws, ws2, a, b) ==
    /\ Unmoved(ws, ws2)
    /\ \A u \in 1..Len(ws) : /\ ws2[u].num = (ws[u].num - Is(a, u)) - Is(b, u)
                             /\ ws2[u].readers = ws[u].readers

\* What Prune does with the gate it is at.
LEMMA PruneIs ==
  ASSUME NInv, KInv, PruneGate
  PROVE  /\ phase = "prune" /\ phase' = "prune" /\ i \in 1..Len(gate) /\ i' = i - 1
         /\ i \in Alive /\ UNCHANGED <<gate, list, outputs, optPrune>>
         /\ \/ /\ ~Output(gate[i].O) /\ wire[gate[i].O].num <= 0 /\ dead' = dead \cup {i}
               /\ kept' = kept /\ Released(wire, wire', gate[i].A, gate[i].B)
            \/ /\ (Output(gate[i].O) \/ ~(wire[gate[i].O].num <= 0))
               /\ kept' = <<i>> \o kept /\ UNCHANGED <<dead, wire>>
  <1>1. /\ phase = "prune" /\ phase' = "prune" /\ i' = i - 1 /\ InLoop
        /\ UNCHANGED <<gate, list, outputs, optPrune>>
        /\ \/ /\ Unread(G) /\ dead' = dead \cup {G} /\ kept' = kept
              /\ wire' = LET ws == RemoveOutput(wire, gate[G].A)
                         IN  IF gate[G].op = "INV" THEN ws
                             ELSE RemoveOutput(ws, gate[G].B)
           \/ ~Unread(G) /\ kept' = <<G>> \o kept /\ UNCHANGED <<dead, wire>>
    BY DEF PruneGate
  <1>2. phase \notin Numbering /\ Listing
    BY <1>1 DEF Numbering, KInv, Structure
  <1>3. i \in 1..Len(gate) /\ G = i /\ Len(gate) \in Nat
    BY <1>1, <1>2, AtGate, NetlistFacts DEF InLoop
  <1>4. i \in Alive
    <2>1. dead \subseteq (i + 1)..Len(gate)
      BY <1>1, <1>2 DEF Listing
    <2> QED
      BY <1>3, <2>1 DEF Alive
  <1>5. CASE Unread(G)
    <2> DEFINE ws == RemoveOutput(wire, gate[G].A)
               ws2 == RemoveOutput(ws, gate[G].B)
    <2>1. /\ gate[i].A \in 1..Len(wire) /\ WiresTyped(wire, Len(gate))
          /\ gate[i].op = "INV" => gate[i].B = Nil
          /\ gate[i].op # "INV" => gate[i].B \in 1..Len(wire)
      BY <1>3, GateFacts, ReadWires
    <2>2. Unmoved(wire, ws) /\ Loses(wire, ws, gate[i].A)
      BY <1>3, <2>1, RemoveOutputLoses
    <2>3. WiresTyped(ws, Len(gate)) /\ Len(ws) = Len(wire)
      BY <1>3, <2>1, RemoveOutputSame DEF SameWires
    <2>4. gate[i].op # "INV" => Unmoved(ws, ws2) /\ Loses(ws, ws2, gate[i].B)
      BY <1>3, <2>1, <2>3, RemoveOutputLoses
    <2>5. wire' = IF gate[i].op = "INV" THEN ws ELSE ws2
      BY <1>1, <1>3, <1>5
    <2> HIDE DEF ws, ws2
    <2>6. \A u \in 1..Len(wire) : ws[u].num \in Int
      BY <2>3, WireFields
    <2>7. Released(wire, wire', gate[i].A, gate[i].B)
      <3>1. CASE gate[i].op = "INV"
        <4>1. \A u \in 1..Len(wire) : Is(gate[i].B, u) = 0
          BY <2>1, <3>1 DEF Is, Nil
        <4>2. wire' = ws
          BY <2>5, <3>1
        <4> QED
          BY <2>2, <2>6, <4>1, <4>2 DEF Loses, Released
      <3>2. CASE gate[i].op # "INV"
        <4>1. wire' = ws2
          BY <2>5, <3>2
        <4>2. Unmoved(wire, wire')
          BY <2>2, <2>3, <2>4, <3>2, <4>1 DEF Unmoved
        <4> QED
          BY <2>2, <2>3, <2>4, <3>2, <4>1, <4>2 DEF Loses, Released
      <3> QED
        BY <3>1, <3>2
    <2>8. ~Output(gate[i].O) /\ wire[gate[i].O].num <= 0 /\ dead' = dead \cup {i} /\ kept' = kept
      BY <1>1, <1>3, <1>5 DEF Unread
    <2> QED
      BY <1>1, <1>3, <1>4, <2>7, <2>8
  <1>6. CASE ~Unread(G)
    <2>1. Output(gate[i].O) \/ ~(wire[gate[i].O].num <= 0)
      BY <1>3, <1>4, <1>6 DEF Unread, Alive
    <2> QED
      BY <1>1, <1>3, <1>4, <1>6, <2>1
  <1> QED
    BY <1>5, <1>6

\* PruneGate keeps the shape.
LEMMA PruneGateKeeps ==
  ASSUME NInv, KInv, PruneGate
  PROVE  KInv'
  <1>1. /\ phase = "prune" /\ phase' = "prune" /\ i \in 1..Len(gate) /\ i' = i - 1
        /\ i \in Alive /\ UNCHANGED <<gate, list, outputs>>
        /\ \/ /\ dead' = dead \cup {i}
              /\ kept' = kept /\ Released(wire, wire', gate[i].A, gate[i].B)
           \/ kept' = <<i>> \o kept /\ UNCHANGED <<dead, wire>>
    BY PruneIs
  <1>2. /\ Wired(wire, gate) /\ Listed(wire, gate) /\ Counted(wire, gate, Alive) /\ OutputsFree
        /\ Len(gate) \in Nat /\ Len(gate) >= 3 /\ Listing
    BY GateOrder DEF KInv, Structure, Shape
  <1>3. /\ kept \in Seq(1..Len(gate)) /\ dead \subseteq (i + 1)..Len(gate)
        /\ \A g \in Alive : g > i => \E k \in 1..Len(kept) : kept[k] = g
        /\ Len(list) = Len(gate) /\ \A k \in 1..Len(gate) : list[k] = k
    BY <1>1, <1>2 DEF NInv, LoopsTyped, Listing, Numbering
  <1>4. Listing'
    <2>1. i' \in 0..Len(gate) /\ dead' \subseteq (i' + 1)..Len(gate)
      <3>1. i' = i - 1 /\ i \in 1..Len(gate) /\ Len(gate) \in Nat
        BY <1>1, <1>2
      <3>2. \A x \in dead' : x \in dead \/ x = i
        BY <1>1
      <3>3. ASSUME NEW x \in dead'
            PROVE  x \in (i' + 1)..Len(gate)
        <4>1. x \in (i + 1)..Len(gate) \/ x = i
          BY <1>3, <3>2
        <4> QED
          BY ONLY <3>1, <4>1
      <3>4. i' \in 0..Len(gate)
        BY ONLY <3>1
      <3> QED
        BY <3>3, <3>4
    <2>2. ASSUME NEW g \in Alive', g > i'
          PROVE  \E k \in 1..Len(kept') : kept'[k] = g
      <3>1. CASE dead' = dead \cup {i} /\ kept' = kept
        <4>1. g \in Alive /\ g # i /\ g \in Int
          BY <1>1, <3>1 DEF Alive
        <4>2. g > i
          BY <1>1, <2>2, <4>1
        <4> QED
          BY <1>3, <3>1, <4>1, <4>2
      <3>2. CASE kept' = <<i>> \o kept /\ UNCHANGED dead
        <4>1. /\ Len(kept') = Len(kept) + 1 /\ kept'[1] = i
              /\ \A k \in 1..Len(kept) : kept'[k + 1] = kept[k]
              /\ Len(kept) \in Nat
          BY <1>1, <1>3, <3>2
        <4>2. g \in Alive /\ g \in Int
          BY <1>1, <3>2 DEF Alive
        <4>3. CASE g = i
          BY <4>1, <4>3
        <4>4. CASE g > i
          <5>1. PICK k \in 1..Len(kept) : kept[k] = g
            BY <1>3, <4>2, <4>4
          <5>2. k + 1 \in 1..Len(kept')
            BY <4>1
          <5> QED
            BY <4>1, <5>1, <5>2
        <4> QED
          BY <1>1, <2>2, <4>2, <4>3, <4>4
      <3> QED
        BY <1>1, <3>1, <3>2
    <2>3. dead' \subseteq 1..Len(gate)
      <3>1. \A x \in dead' : x \in dead \/ x = i
        BY <1>1
      <3> QED
        BY <1>1, <1>2, <3>1 DEF Listing
    <2> QED
      BY <1>1, <1>2, <1>3, <2>1, <2>2, <2>3 DEF Listing, Building, Numbering
  <1>5. /\ Wired(wire', gate') /\ Listed(wire', gate') /\ OutputsFree'
    BY <1>1, <1>2 DEF Wired, Listed, OutputsFree, Released, Unmoved
  <1>6. Counted(wire', gate', Alive')
    <2>1. CASE dead' = dead \cup {i} /\ Released(wire, wire', gate[i].A, gate[i].B)
      <3>1. Alive' = Alive \ {i}
        BY <1>1, <2>1 DEF Alive
      <3>2. IsFiniteSet(Alive) /\ Alive \subseteq 1..Len(gate)
        BY <1>2, AliveFinite
      <3> SUFFICES ASSUME NEW u \in 1..Len(wire)
                   PROVE  wire'[u].num = Number(As(gate), Alive \ {i}, u)
                                           + Number(Bs(gate), Alive \ {i}, u)
        BY <1>1, <2>1, <3>1 DEF Counted, Released, Unmoved
      <3> DEFINE f == As(gate)
                 f2 == Bs(gate)
      <3>3. f[i] = gate[i].A /\ f2[i] = gate[i].B
        BY <1>1 DEF As, Bs
      <3> HIDE DEF f, f2
      <3>4. IsFiniteSet(Alive) /\ i \in Alive
        BY <1>1, <3>2
      <3>5. /\ Number(f, Alive \ {i}, u) = Number(f, Alive, u) - Is(f[i], u)
            /\ Number(f2, Alive \ {i}, u) = Number(f2, Alive, u) - Is(f2[i], u)
        <4>1. Number(f, Alive \ {i}, u) = Number(f, Alive, u) - Is(f[i], u)
          BY ONLY <3>4, NumberRemove
        <4>2. Number(f2, Alive \ {i}, u) = Number(f2, Alive, u) - Is(f2[i], u)
          BY ONLY <3>4, NumberRemove
        <4> QED
          BY <4>1, <4>2
      <3>6. Number(f, Alive, u) \in Nat /\ Number(f2, Alive, u) \in Nat
        BY ONLY <3>4, NumberIsNat
      <3>7. wire[u].num = Number(f, Alive, u) + Number(f2, Alive, u)
        BY <1>2 DEF Counted, f, f2
      <3>8. wire'[u].num = (wire[u].num - Is(f[i], u)) - Is(f2[i], u)
        BY <2>1, <3>3 DEF Released
      <3>9. Is(f[i], u) \in Int /\ Is(f2[i], u) \in Int
        BY DEF Is
      <3>10. wire'[u].num = Number(f, Alive \ {i}, u) + Number(f2, Alive \ {i}, u)
        BY ONLY <3>5, <3>6, <3>7, <3>8, <3>9
      <3> QED
        BY <3>10 DEF f, f2
    <2>2. CASE UNCHANGED <<dead, wire>>
      BY <1>1, <1>2, <2>2 DEF Alive
    <2> QED
      BY <1>1, <2>1, <2>2
  <1>7. Shape'
    BY <1>1, <1>2, <1>5 DEF Shape, Building
  <1>8. ReadersKnown'
    BY <1>1 DEF ReadersKnown
  <1> QED
    BY <1>4, <1>5, <1>6, <1>7, <1>8 DEF KInv, Structure

(***************************************************************************)
(* The invariant                                                           *)
(***************************************************************************)
\* A step that changes nothing.
LEMMA StutterKeeps ==
  ASSUME KInv, UNCHANGED vars
  PROVE  KInv'
  BY DEF vars, KInv, Structure, Listing, Shape, OutputsFree, ReadersKnown, Alive, Output

\* Every step keeps the shape of the netlist.
LEMMA NextKeeps ==
  ASSUME NInv, KInv, [Next]_vars
  PROVE  KInv'
  <1>1. CASE \E op \in Ops, a, b \in Usable : Build(op, a, b)
    BY <1>1, BuildKeeps
  <1>2. CASE \E w \in Usable : Ret(w)
    BY <1>2, RetKeeps
  <1>3. CASE Start \/ ConstDone \/ XORDone \/ PruneDone
    BY <1>3, StartKeeps, ConstDoneKeeps, XORDoneKeeps, PruneDoneKeeps
  <1>4. CASE FoldConst \/ Redirect \/ Disconnect \/ Rewire
    BY <1>4, FoldConstKeeps, RedirectKeeps, DisconnectKeeps, RewireKeeps
  <1>5. CASE SkipByA \/ SkipByB
    BY <1>5, SkipKeeps
  <1>6. CASE PruneGate
    BY <1>6, PruneGateKeeps
  <1>7. CASE AssignInput \/ Visit \/ AssignGate \/ AssignOutputs \/ EmitGate \/ EmitDone
    BY <1>7, CompileKeeps
  <1>8. CASE UNCHANGED vars
    BY <1>8, StutterKeeps
  <1> QED
    BY <1>1, <1>2, <1>3, <1>4, <1>5, <1>6, <1>7, <1>8 DEF Next

\* The shape of the netlist is kept by every pass, and the numbers of readers
\* are those of the operands.
THEOREM NetlistKept == Spec => []KInv
  <1>1. Init => KInv
    BY InitStructure
  <1>2. NInv /\ KInv /\ [Next]_vars => KInv'
    BY NextKeeps
  <1> QED
    BY <1>1, <1>2, NetlistInvariant, PTL DEF Spec

\* The gates in the list that are not dead are the ones that are not dead.
LEMMA LiveIsAlive ==
  ASSUME NInv, KInv
  PROVE  Live = Alive
  <1>1. Listing /\ list \in Seq(1..Len(gate)) /\ Len(gate) \in Nat
    BY NetlistFacts DEF KInv, Structure, NInv, LoopsTyped
  <1>2. Live \subseteq Alive
    BY <1>1 DEF Live, Alive
  <1>3. ASSUME NEW g \in Alive
        PROVE  \E k \in 1..Len(list) : list[k] = g
    <2>1. CASE phase \in Numbering
      BY <1>1, <2>1 DEF Listing
    <2>2. CASE phase \notin Numbering
      BY <1>1, <2>2 DEF Listing, Alive
    <2> QED
      BY <2>1, <2>2
  <1>4. Alive \subseteq Live
    BY <1>3 DEF Live, Alive
  <1> QED
    BY <1>2, <1>4

\* The number of readers that a wire keeps is the number of operands of live
\* gates that read it, in every pass.
THEOREM NetlistCountsAgree == Spec => []CountsAgree
  <1>1. ASSUME NInv, KInv PROVE CountsAgree
    <2> SUFFICES ASSUME NEW w \in 1..Len(wire)
                 PROVE  wire[w].num = Cardinality({g \in Live : gate[g].A = w})
                                        + Cardinality({g \in Live : gate[g].B = w})
      BY DEF CountsAgree
    <2>1. wire[w].num = Number(As(gate), Alive, w) + Number(Bs(gate), Alive, w)
      BY <1>1 DEF KInv, Counted
    <2>2. Alive \subseteq 1..Len(gate)
      BY DEF Alive
    <2>3. /\ {g \in Alive : As(gate)[g] = w} = {g \in Alive : gate[g].A = w}
          /\ {g \in Alive : Bs(gate)[g] = w} = {g \in Alive : gate[g].B = w}
      BY <2>2 DEF As, Bs
    <2>4. Live = Alive
      BY <1>1, LiveIsAlive
    <2> QED
      BY <2>1, <2>3, <2>4 DEF Number
  <1> QED
    BY <1>1, NetlistInvariant, NetlistKept, PTL

\* A number of readers that is not zero stands for a reader.
LEMMA NumReads ==
  ASSUME NInv, KInv, NEW w \in 1..Len(wire)
  PROVE  /\ wire[w].num \in Nat
         /\ wire[w].num > 0 <=> \E h \in Alive : Reads(h, w)
  <1>1. wire[w].num = Number(As(gate), Alive, w) + Number(Bs(gate), Alive, w)
    BY DEF KInv, Counted
  <1>2. IsFiniteSet(Alive) /\ Alive \subseteq 1..Len(gate)
    BY NetlistFacts, AliveFinite
  <1>3. /\ Number(As(gate), Alive, w) \in Nat /\ Number(Bs(gate), Alive, w) \in Nat
        /\ Number(As(gate), Alive, w) > 0 <=> \E y \in Alive : As(gate)[y] = w
        /\ Number(Bs(gate), Alive, w) > 0 <=> \E y \in Alive : Bs(gate)[y] = w
    BY <1>2, NumberIsNat
  <1>4. \A y \in Alive : As(gate)[y] = gate[y].A /\ Bs(gate)[y] = gate[y].B
    BY <1>2 DEF As, Bs
  <1>5. Number(As(gate), Alive, w) > 0 \/ Number(Bs(gate), Alive, w) > 0
          <=> \E h \in Alive : Reads(h, w)
    BY <1>3, <1>4 DEF Reads
  <1> QED
    BY <1>1, <1>3, <1>5

(***************************************************************************)
(* What Prune leaves                                                       *)
(***************************************************************************)
\* Gates that Prune has passed are of use.
Useful ==
    /\ phase = "prune" => optPrune
    /\ phase = "prune" \/ (phase \in Numbering /\ optPrune) =>
         \A g \in Alive : \/ phase = "prune" /\ g <= i
                          \/ Output(gate[g].O)
                          \/ wire[gate[g].O].num > 0

\* No step makes a gate useless that Prune has passed.
LEMMA NextUseful ==
  ASSUME NInv, KInv, Useful, [Next]_vars
  PROVE  Useful'
  <1>1. CASE PruneGate
    <2>1. /\ phase = "prune" /\ phase' = "prune" /\ i \in 1..Len(gate) /\ i' = i - 1
          /\ i \in Alive /\ UNCHANGED <<gate, list, outputs, optPrune>>
          /\ \/ /\ dead' = dead \cup {i} /\ Released(wire, wire', gate[i].A, gate[i].B)
             \/ /\ (Output(gate[i].O) \/ ~(wire[gate[i].O].num <= 0))
                /\ UNCHANGED <<dead, wire>>
      BY <1>1, PruneIs
    <2>2. optPrune /\ \A g \in Alive : g <= i \/ Output(gate[g].O) \/ wire[gate[g].O].num > 0
      BY <2>1 DEF Useful
    <2>3. Alive \subseteq 1..Len(gate) /\ Alive' \subseteq Alive
      BY <2>1 DEF Alive
    <2>4. ASSUME NEW g \in Alive', ~(g <= i')
          PROVE  Output(gate[g].O) \/ wire'[gate[g].O].num > 0
      <3>1. g \in 1..Len(gate) /\ g >= i /\ i \in Int /\ g \in Int
        BY <2>1, <2>3, <2>4
      <3>2. gate[g].O \in 1..Len(wire)
        BY <3>1, GateOrder
      <3>3. CASE dead' = dead \cup {i} /\ Released(wire, wire', gate[i].A, gate[i].B)
        <4>1. g # i
          BY <2>4, <3>3 DEF Alive
        <4>2. Output(gate[g].O) \/ wire[gate[g].O].num > 0
          BY <2>2, <2>3, <3>1, <4>1
        <4>3. gate[i].A # gate[g].O /\ gate[i].B # gate[g].O
          <5>1. /\ gate[g].O >= NumInputs + g /\ gate[i].A < NumInputs + i
                /\ gate[i].B < NumInputs + i /\ NumInputs \in Nat
                /\ gate[i].A \in Int /\ gate[i].B \in Int /\ gate[g].O \in Int
            BY <2>1, <3>1, GateOrder, SMTT(40)
          <5> QED
            BY <3>1, <5>1
        <4>4. wire'[gate[g].O].num = wire[gate[g].O].num
          <5>1. wire'[gate[g].O].num
                  = (wire[gate[g].O].num - Is(gate[i].A, gate[g].O)) - Is(gate[i].B, gate[g].O)
            BY <3>2, <3>3 DEF Released
          <5>2. Is(gate[i].A, gate[g].O) = 0 /\ Is(gate[i].B, gate[g].O) = 0
            BY <4>3 DEF Is
          <5>3. wire[gate[g].O].num \in Nat
            BY <3>2, NumReads
          <5> QED
            BY <5>1, <5>2, <5>3
        <4> QED
          BY <4>2, <4>4
      <3>4. CASE /\ (Output(gate[i].O) \/ ~(wire[gate[i].O].num <= 0))
                 /\ UNCHANGED <<dead, wire>>
        <4>1. CASE g = i
          <5>1. wire[gate[i].O].num \in Nat
            BY <3>2, <4>1, NumReads
          <5> QED
            BY <3>4, <4>1, <5>1
        <4>2. CASE g # i
          BY <2>2, <2>3, <3>1, <3>4, <4>2
        <4> QED
          BY <4>1, <4>2
      <3> QED
        BY <2>1, <3>3, <3>4
    <2> QED
      BY <2>1, <2>2, <2>4 DEF Useful, Output, Numbering
  <1>2. CASE PruneDone
    <2>1. /\ phase = "prune" /\ phase' = "assign" /\ i = 0
          /\ UNCHANGED <<wire, gate, dead, outputs, optPrune>>
      <3>1. Listing /\ phase \notin Numbering /\ Len(list) = Len(gate)
        BY <1>2, AtGate DEF PruneDone, Numbering, KInv, Structure
      <3> QED
        BY <1>2, <3>1, NetlistFacts DEF PruneDone, Listing, InLoop
    <2>2. \A g \in Alive : ~(g <= i)
      BY <2>1, NetlistFacts DEF Alive
    <2> QED
      BY <2>1, <2>2 DEF Useful, Numbering, Alive, Output
  <1>3. CASE XORDone
    <2>1. /\ UNCHANGED <<wire, gate, dead, outputs, optPrune>>
          /\ \/ optPrune /\ phase' = "prune" /\ i' = Len(gate)
             \/ ~optPrune /\ phase' = "assign"
      BY <1>3, AtGate DEF XORDone, netlist, Numbering
    <2>2. \A g \in Alive' : g <= Len(gate)
      BY <2>1, NetlistFacts DEF Alive
    <2> QED
      BY <2>1, <2>2 DEF Useful, Numbering
  <1>4. CASE AssignInput \/ Visit \/ AssignGate \/ AssignOutputs \/ EmitGate \/ EmitDone
    <2>1. /\ phase \in Numbering /\ phase' \in Numbering /\ SameReaders(wire, wire')
          /\ UNCHANGED <<gate, dead, outputs, optPrune>>
      BY <1>4, CompileReaders
    <2>2. \A g \in Alive : wire'[gate[g].O].num = wire[gate[g].O].num
      BY <2>1, GateOrder DEF Alive, SameReaders
    <2> QED
      BY <2>1, <2>2 DEF Useful, Numbering, Alive, Output
  <1>5. CASE phase' \notin Numbering \cup {"prune"}
    BY <1>5 DEF Useful
  <1>6. CASE UNCHANGED vars
    BY <1>6 DEF vars, Useful, Alive, Output
  <1>7. CASE \E op \in Ops, a, b \in Usable : Build(op, a, b)
    BY <1>5, <1>7 DEF Build, Numbering
  <1>8. CASE \E w \in Usable : Ret(w)
    BY <1>5, <1>8 DEF Ret, Numbering
  <1>9. CASE \/ Start \/ ConstDone \/ FoldConst \/ Redirect \/ Disconnect \/ Rewire
             \/ SkipByA \/ SkipByB
    BY <1>5, <1>9 DEF Start, ConstDone, FoldConst, Redirect, Disconnect, Rewire, SkipByA, SkipByB,
                      Numbering
  <1> QED
    BY <1>1, <1>2, <1>3, <1>4, <1>6, <1>7, <1>8, <1>9 DEF Next

\* After Prune every gate that is left has a reader or drives an output: no
\* gate that Prune has passed loses its last reader to a gate that is removed
\* later.
THEOREM NetlistNothingUseless == Spec => []NothingUseless
  <1>1. Init => Useful
    BY DEF Init, Useful, Numbering
  <1>2. NInv /\ KInv /\ Useful /\ [Next]_vars => Useful'
    BY NextUseful
  <1>3. ASSUME NInv, KInv, Useful PROVE NothingUseless
    <2> SUFFICES ASSUME optPrune, phase \in Numbering, NEW g \in Alive
                 PROVE  Output(gate[g].O) \/ \E h \in Alive : Reads(h, gate[g].O)
      BY <1>3, LiveIsAlive DEF NothingUseless, Numbering
    <2>1. gate[g].O \in 1..Len(wire)
      BY <1>3, GateOrder DEF Alive
    <2>2. Output(gate[g].O) \/ wire[gate[g].O].num > 0
      BY <1>3 DEF Useful, Numbering
    <2> QED
      BY <1>3, <2>1, <2>2, NumReads
  <1> QED
    BY <1>1, <1>2, <1>3, NetlistInvariant, NetlistKept, PTL DEF Spec

(***************************************************************************)
(* Wire ids                                                                *)
(***************************************************************************)
\* Wires keep their ids, new ones have none.
SameIds(ws, ws2) ==
    /\ Len(ws2) >= Len(ws)
    /\ \A u \in 1..Len(ws2) :
         (u \in 1..Len(ws) /\ ws2[u].id = ws[u].id) \/ ws2[u].id = Unassigned

\* Wires that did not move keep their ids.
LEMMA SameWiresSameIds ==
  ASSUME Len(wire) \in Nat, wire' = wire \/ Unmoved(wire, wire')
  PROVE  SameIds(wire, wire')
  BY DEF Unmoved, SameIds

\* Until Compile starts no step gives a wire an id.
LEMMA EarlyIds ==
  ASSUME NInv, KInv, Next, phase \notin Numbering
  PROVE  SameIds(wire, wire')
  <1>0. Len(wire) \in Nat /\ Len(gate) \in Nat
    BY NetlistFacts
  <1>1. ASSUME NEW op, NEW a, NEW b, MoreGate(wire, gate, op, a, b, wire', gate')
        PROVE  SameIds(wire, wire')
    <2>1. /\ Len(wire') = Len(wire) + 1 /\ wire'[Len(wire) + 1].id = Unassigned
          /\ \A u \in 1..Len(wire) : wire'[u].id = wire[u].id
      BY <1>1 DEF MoreGate
    <2> QED
      BY <1>0, <2>1 DEF SameIds
  <1>2. CASE \E op \in Ops, a, b \in Usable : Build(op, a, b)
    <2>1. PICK op \in Ops, a \in Usable, b \in Usable : AddBinary(op, a, b)
      BY <1>2 DEF Build
    <2>2. op \in AllOps \ {"INV"} /\ a \in 1..Len(wire) /\ b \in 1..Len(wire)
      BY NetlistAssumption DEF AllOps, Usable
    <2> QED
      BY <1>1, <2>1, <2>2, AddBinaryMore
  <1>3. CASE \E w \in Usable : Ret(w)
    <2>1. PICK w \in Usable : AddBinary("XOR", w, ZeroWire)
      BY <1>3 DEF Ret
    <2>2. "XOR" \in AllOps \ {"INV"} /\ w \in 1..Len(wire) /\ ZeroWire \in 1..Len(wire)
      BY GateOrder DEF AllOps, Usable, ZeroWire
    <2> QED
      BY <1>1, <2>1, <2>2, AddBinaryMore
  <1>4. CASE Start \/ ConstDone \/ XORDone \/ PruneDone
    BY <1>0, <1>4, SameWiresSameIds DEF Start, ConstDone, XORDone, PruneDone, netlist
  <1>5. CASE FoldConst
    <2> DEFINE o == gate[G].O
               v == IF Folded = "?" THEN wire[o].value ELSE Folded
    <2>1. /\ InLoop
          /\ wire' = [wire EXCEPT ![gate[G].O].value = IF Folded = "?" THEN @ ELSE Folded]
      BY <1>5 DEF FoldConst
    <2>2. o \in 1..Len(wire)
      BY <2>1, InLoopGate, GateFacts
    <2>3. v \in {"?", "0", "1"}
      BY <2>1, <2>2, FoldedFits, WireFacts DEF Fits
    <2>4. wire' = [wire EXCEPT ![o].value = v]
      BY <2>1, Zenon
    <2>5. ValueSet(wire, o, v, wire')
      BY <2>4 DEF ValueSet
    <2> HIDE DEF v, o
    <2>6. SameReaders(wire, wire') /\ \A u \in 1..Len(wire) : wire'[u].id = wire[u].id
      BY <2>2, <2>3, <2>5, ReadWires, ValueSetEffect
    <2> QED
      BY <1>0, <2>6 DEF SameIds, SameReaders
  <1>6. CASE Redirect
    BY <1>0, <1>6, RedirectOne, SameWiresSameIds
  <1>7. CASE Disconnect
    <2>1. /\ phase = "redirect"
          /\ wire' = [wire EXCEPT ![gate[G].O].num = 0, ![gate[G].O].readers = <<>>]
      BY <1>7 DEF Disconnect
    <2>2. gate[G].O \in 1..Len(wire)
      BY <2>1, InLoopGate, GateFacts DEF NInv, LoopsSound, InLoop
    <2>3. Silenced(wire, gate[G].O, wire')
      BY <2>1, Zenon DEF Silenced
    <2>4. Unmoved(wire, wire')
      BY <2>2, <2>3, ReadWires, SilencedEffect
    <2> QED
      BY <1>0, <2>4, SameWiresSameIds
  <1>8. CASE Rewire
    BY <1>0, <1>8, RewireEffect, SameWiresSameIds
  <1>9. CASE SkipByA \/ SkipByB
    <2>1. /\ phase \in {"xorA", "xorB"} /\ (phase = "xorA" => InLoop)
          /\ \E zero, x : /\ SkipXORZero(zero, x)
                          /\ \/ zero = gate[G].A /\ x = gate[G].B
                             \/ zero = gate[G].B /\ x = gate[G].A
      BY <1>9 DEF SkipByA, SkipByB
    <2>2. i \in 1..Len(gate)
      <3>1. Listing /\ Len(list) = Len(gate)
        BY <2>1, AtGate DEF KInv, Structure, Numbering
      <3> QED
        BY <2>1, <3>1 DEF Listing, InLoop
    <2>3. wire' = wire \/ ExchangedWires(wire, wire')
      BY <2>1, <2>2, SkipIs
    <2> QED
      BY <1>0, <2>3 DEF ExchangedWires, SameIds
  <1>10. CASE PruneGate
    BY <1>0, <1>10, PruneIs, SameWiresSameIds DEF Released
  <1>11. CASE AssignInput \/ Visit \/ AssignGate \/ AssignOutputs \/ EmitGate \/ EmitDone
    BY <1>11, CompileReaders
  <1> QED
    BY <1>2, <1>3, <1>4, <1>5, <1>6, <1>7, <1>8, <1>9, <1>10, <1>11 DEF Next

\* No wire has an id before Compile gives it one; outputs are given theirs
\* last.
Fresh ==
    /\ phase \notin Numbering => \A w \in 1..Len(wire) : wire[w].id = Unassigned
    /\ phase = "assign" => \A k \in 1..Len(outputs) : wire[outputs[k]].id = Unassigned

\* Ids are given by Compile only, and to outputs last.
LEMMA NextFresh ==
  ASSUME NInv, KInv, Fresh, [Next]_vars
  PROVE  Fresh'
  <1>1. CASE Next /\ phase \notin Numbering
    <2>1. SameIds(wire, wire')
      BY <1>1, EarlyIds
    <2>2. \A w \in 1..Len(wire') : wire'[w].id = Unassigned
      BY <1>1, <2>1 DEF Fresh, SameIds
    <2>3. \A k \in 1..Len(outputs') : outputs'[k] \in 1..Len(wire')
      <3>1. NInv'
        BY <1>1, NextInvariant
      <3>2. outputs' \in Seq(1..Len(wire'))
        BY <3>1 DEF NInv, LoopsTyped
      <3> QED
        BY <3>2
    <2> QED
      BY <2>2, <2>3 DEF Fresh
  <1>2. CASE AssignInput
    <2>1. /\ phase = "assign" /\ phase' = "assign" /\ AssignWire(i) /\ i \in 1..NumInputs
          /\ UNCHANGED outputs
      BY <1>2, NetlistAssumption DEF AssignInput, NInv, LoopsSound, LoopsTyped
    <2>2. i \in 1..Len(wire)
      BY <2>1, NetlistFacts, NetlistAssumption DEF NInv, ConstantsSound
    <2>3. \A u \in 1..Len(wire) : Output(u) => wire'[u].id = wire[u].id
      BY <2>1, <2>2, AssignWireReaders
    <2>4. \A k \in 1..Len(outputs) : outputs[k] \in 1..Len(wire) /\ Output(outputs[k])
      BY DEF NInv, LoopsTyped, Output
    <2> QED
      BY <2>1, <2>3, <2>4 DEF Fresh, Numbering
  <1>3. CASE AssignGate
    <2>1. /\ phase = "assign" /\ phase' = "assign" /\ pending # <<>> /\ UNCHANGED outputs
          /\ UNCHANGED wire \/ AssignWire(gate[Head(pending)].O)
      BY <1>3 DEF AssignGate
    <2>2. gate[Head(pending)].O \in 1..Len(wire)
      BY <2>1, HeadTail, GateFacts DEF NInv, LoopsTyped
    <2>3. \A u \in 1..Len(wire) : Output(u) => wire'[u].id = wire[u].id
      BY <2>1, <2>2, AssignWireReaders
    <2>4. \A k \in 1..Len(outputs) : outputs[k] \in 1..Len(wire) /\ Output(outputs[k])
      BY DEF NInv, LoopsTyped, Output
    <2> QED
      BY <2>1, <2>3, <2>4 DEF Fresh, Numbering
  <1>4. CASE Visit \/ UNCHANGED vars
    BY <1>4 DEF Visit, netlist, vars, Fresh
  <1>5. CASE AssignOutputs \/ EmitGate \/ EmitDone
    <2>1. phase' \in Numbering /\ phase' # "assign"
      BY <1>5 DEF AssignOutputs, EmitGate, EmitDone, Numbering
    <2> QED
      BY <2>1 DEF Fresh
  <1>6. ASSUME Next, phase \in Numbering
        PROVE  AssignInput \/ Visit \/ AssignGate \/ AssignOutputs \/ EmitGate \/ EmitDone
    BY <1>6 DEF Next, Build, Ret, Start, FoldConst, Redirect, Disconnect, Rewire, ConstDone,
       SkipByA, SkipByB, XORDone, PruneGate, PruneDone, Numbering
  <1> QED
    BY <1>1, <1>2, <1>3, <1>4, <1>5, <1>6

\* No wire is numbered at first.
LEMMA InitFresh == Init => Fresh
  <1> SUFFICES ASSUME Init PROVE Fresh
    OBVIOUS
  <1>1. wire = Constants.wire /\ phase = "build"
    BY DEF Init
  <1>2. \A w \in 1..Len(wire) : wire[w].id = Unassigned
    BY <1>1, ConstantsBuilt
  <1> QED
    BY <1>1, <1>2 DEF Fresh

\* Wires are numbered by Compile only, outputs when everything else is.
THEOREM NetlistFresh == Spec => []Fresh
  <1>1. Init => Fresh
    BY InitFresh
  <1>2. NInv /\ KInv /\ Fresh /\ [Next]_vars => Fresh'
    BY NextFresh
  <1> QED
    BY <1>1, <1>2, NetlistInvariant, NetlistKept, PTL DEF Spec

\* No pass runs into one of its own panics.
THEOREM NetlistNeverPanics == Spec => []NeverPanics
  <1>1. Init => ~panicked
    BY DEF Init
  <1>2. NInv /\ KInv /\ Fresh /\ ~panicked /\ [Next]_vars => ~panicked'
    <2> SUFFICES ASSUME NInv, KInv, Fresh, ~panicked, [Next]_vars PROVE ~panicked'
      OBVIOUS
    <2>1. CASE Redirect
      BY <2>1, RedirectKeeps
    <2>2. CASE AssignOutputs
      <3>1. phase = "assign" /\ panicked' = \E k \in 1..Len(outputs) : IsAssigned(outputs[k])
        BY <2>2 DEF AssignOutputs
      <3> QED
        BY <3>1 DEF Fresh, IsAssigned
    <2>3. CASE UNCHANGED vars
      BY <2>3 DEF vars
    <2>4. CASE \/ \E op \in Ops, a, b \in Usable : Build(op, a, b)
               \/ \E w \in Usable : Ret(w)
      BY <2>4 DEF Build, Ret
    <2>5. CASE Start \/ FoldConst \/ Disconnect \/ Rewire \/ ConstDone \/ XORDone
      BY <2>5 DEF Start, FoldConst, Disconnect, Rewire, ConstDone, XORDone
    <2>6. CASE SkipByA \/ SkipByB \/ PruneGate \/ PruneDone
      BY <2>6 DEF SkipByA, SkipByB, SkipXORZero, PruneGate, PruneDone
    <2>7. CASE AssignInput \/ Visit \/ AssignGate \/ EmitGate \/ EmitDone
      BY <2>7 DEF AssignInput, Visit, AssignGate, EmitGate, EmitDone
    <2> QED
      BY <2>1, <2>2, <2>3, <2>4, <2>5, <2>6, <2>7 DEF Next
  <1>3. NInv /\ KInv /\ ~panicked => NeverPanics
    BY NumReads DEF NeverPanics
  <1> QED
    BY <1>1, <1>2, <1>3, NetlistInvariant, NetlistKept, NetlistFresh, PTL DEF Spec

(***************************************************************************)
(* The numbering of Compile                                                *)
(***************************************************************************)
\* Nothing is numbered before Compile, nothing is written before the numbers
\* are there.
Unstarted ==
    /\ phase \notin Numbering =>
         nextID = 0 /\ visited = {} /\ pending = <<>> /\ assigned = <<>>
    /\ phase \notin {"emit", "done"} => compiled = <<>> /\ emitted = {}

\* Ids are unique; inputs are numbered first.
Ids ==
    phase \in Numbering =>
      /\ \A u \in 1..Len(wire) : wire[u].id < nextID
      /\ \A u, v \in 1..Len(wire) : IsAssigned(u) /\ wire[u].id = wire[v].id => u = v
      /\ \A w \in 1..NumInputs : wire[w].id = w - 1 \/ (phase = "assign" /\ w >= i)
      /\ phase = "assign" /\ i <= NumInputs =>
           /\ nextID = i - 1 /\ assigned = <<>>
           /\ \A w \in 1..Len(wire) : IsAssigned(w) => w < i

\* Wire w is an input or driven by one of the first gates that were taken.
Driven(w, k) == w <= NumInputs \/ \E j \in 1..k : gate[assigned[j]].O = w

\* Wires with a number are there for the gates taken later.
Sources ==
    phase = "assign" =>
      \A u \in 1..Len(wire) : IsAssigned(u) => Driven(u, Len(assigned))

\* Gates that wait to be taken can be.
Ready ==
    phase = "assign" =>
      \A k \in 1..Len(pending) :
        /\ pending[k] \in visited /\ IsAssigned(gate[pending[k]].A)
        /\ gate[pending[k]].op # "INV" => IsAssigned(gate[pending[k]].B)
        /\ \A l \in 1..Len(pending) : pending[l] = pending[k] => l = k
        /\ \A j \in 1..Len(assigned) : assigned[j] # pending[k]

\* Gates are taken after the ones they read, once each.
Taken ==
    phase \in Numbering =>
      \A k \in 1..Len(assigned) :
        /\ assigned[k] \in visited /\ assigned[k] \notin dead
        /\ \A l \in 1..Len(assigned) : assigned[l] = assigned[k] => l = k
        /\ Driven(gate[assigned[k]].A, k - 1)
        /\ gate[assigned[k]].op # "INV" => Driven(gate[assigned[k]].B, k - 1)
        /\ IsAssigned(gate[assigned[k]].O) \/ (phase = "assign" /\ Output(gate[assigned[k]].O))

\* What is written of a gate.
Written(g) == [op |-> gate[g].op, in0 |-> wire[gate[g].A].id,
               in1 |-> IF gate[g].op = "INV" THEN 0 ELSE wire[gate[g].B].id,
               out |-> wire[gate[g].O].id]

\* A gate as Compile writes it.
Writing == [op : AllOps, in0 : Int, in1 : Int, out : Int]

\* The circuit is the list of the gates that were taken.
Emission ==
    /\ compiled \in Seq(Writing)
    /\ phase \in {"emit", "done"} =>
      /\ i \in 1..(Len(assigned) + 1) /\ Len(compiled) = i - 1
      /\ phase = "done" => i = Len(assigned) + 1
      /\ \A k \in 1..(i - 1) : compiled[k] = Written(assigned[k])
      /\ emitted = {assigned[k] : k \in 1..(i - 1)}

\* All of it together.
Order == Unstarted /\ Ids /\ Sources /\ Ready /\ Taken /\ Emission

\* What is known when wires are numbered.
LEMMA NumberingFacts ==
  ASSUME NInv, KInv
  PROVE  /\ NumInputs \in Nat /\ NumInputs >= 1 /\ Len(wire) \in Nat
         /\ NumInputs <= Len(wire) /\ nextID \in Nat /\ i \in Int
         /\ \A w \in 1..Len(wire) : wire[w].id \in Nat \cup {Unassigned}
         /\ \A w \in 1..NumInputs : ~Output(w)
         /\ \A g \in 1..Len(gate) :
              /\ gate[g].A \in 1..Len(wire) /\ ~Output(gate[g].A)
              /\ gate[g].op # "INV" => gate[g].B \in 1..Len(wire) /\ ~Output(gate[g].B)
              /\ gate[g].O \in 1..Len(wire) /\ gate[g].O > NumInputs
              /\ \A h \in 1..Len(gate) : gate[g].O = gate[h].O => g = h
         /\ \A k \in 1..Len(outputs) :
              /\ outputs[k] \in 1..Len(wire) /\ outputs[k] > NumInputs
              /\ \A l \in 1..Len(outputs) : outputs[k] = outputs[l] => k = l
         /\ assigned \in Seq(1..Len(gate)) /\ pending \in Seq(1..Len(gate))
  <1>1. /\ NumInputs \in Nat /\ NumInputs >= 1 /\ Len(wire) \in Nat /\ Len(gate) \in Nat
        /\ NumInputs <= Len(wire)
        /\ \A g \in 1..Len(gate) :
             /\ gate[g].A \in 1..Len(wire)
             /\ gate[g].O \in 1..Len(wire) /\ gate[g].O >= NumInputs + g
    BY GateOrder
  <1>2. nextID \in Nat /\ i \in Int /\ assigned \in Seq(1..Len(gate))
        /\ pending \in Seq(1..Len(gate)) /\ outputs \in Seq(1..Len(wire))
    BY DEF NInv, LoopsTyped
  <1>3. \A w \in 1..Len(wire) : wire[w].id \in Nat \cup {Unassigned}
    BY NetlistFacts DEF WireRecord
  <1>4. /\ \A k \in 1..Len(outputs) :
             /\ outputs[k] \in (NumInputs + 4)..(NumInputs + Len(gate))
             /\ \A l \in 1..Len(outputs) : outputs[k] = outputs[l] => k = l
             /\ \A g \in 1..Len(gate) : gate[g].A # outputs[k] /\ gate[g].B # outputs[k]
    BY DEF KInv, Structure, OutputsFree
  <1>5. \A k \in 1..Len(outputs) : outputs[k] \in 1..Len(wire) /\ outputs[k] > NumInputs
    BY <1>1, <1>2, <1>4, SMTT(40)
  <1>6. \A w \in 1..NumInputs : ~Output(w)
    BY <1>1, <1>5 DEF Output
  <1>7. ASSUME NEW g \in 1..Len(gate)
        PROVE  /\ gate[g].A \in 1..Len(wire) /\ ~Output(gate[g].A)
               /\ gate[g].op # "INV" => gate[g].B \in 1..Len(wire) /\ ~Output(gate[g].B)
               /\ gate[g].O \in 1..Len(wire) /\ gate[g].O > NumInputs
               /\ \A h \in 1..Len(gate) : gate[g].O = gate[h].O => g = h
    <2>1. gate[g].O \in 1..Len(wire) /\ gate[g].O > NumInputs
      BY <1>1
    <2>2. \A h \in 1..Len(gate) : gate[g].O = gate[h].O => g = h
      BY DEF KInv, Structure, Shape, Wired
    <2>3. gate[g].op # "INV" => gate[g].B \in 1..Len(wire)
      BY GateFacts
    <2>4. ~Output(gate[g].A) /\ ~Output(gate[g].B)
      BY <1>4 DEF Output
    <2> QED
      BY <1>1, <2>1, <2>2, <2>3, <2>4
  <1> QED
    BY <1>1, <1>2, <1>3, <1>4, <1>5, <1>6, <1>7

\* The order before Compile.
LEMMA EarlyOrder ==
  ASSUME NInv, KInv, Fresh, Order, [Next]_vars, phase \notin Numbering
  PROVE  Order'
  <1>1. /\ nextID = 0 /\ visited = {} /\ pending = <<>> /\ assigned = <<>>
        /\ compiled = <<>> /\ emitted = {}
    BY DEF Order, Unstarted, Numbering
  <1>2. UNCHANGED numbering
    BY DEF Next, Build, Ret, Start, FoldConst, Redirect, Disconnect, Rewire, ConstDone, SkipByA,
       SkipByB, SkipXORZero, XORDone, PruneGate, PruneDone, AssignInput, Visit, AssignGate,
       AssignOutputs, EmitGate, EmitDone, Numbering, vars, numbering
  <1>3. CASE phase' \notin Numbering
    BY <1>1, <1>2, <1>3 DEF Order, Unstarted, Ids, Sources, Ready, Taken, Emission, Numbering,
       numbering
  <1>4. CASE phase' \in Numbering
    <2>1. phase' = "assign" /\ i' = 1 /\ UNCHANGED wire
      BY <1>4 DEF Next, Build, Ret, Start, FoldConst, Redirect, Disconnect, Rewire, ConstDone,
         SkipByA, SkipByB, XORDone, PruneGate, PruneDone, AssignInput, Visit, AssignGate,
         AssignOutputs, EmitGate, EmitDone, Numbering, vars, netlist
    <2>2. \A w \in 1..Len(wire') : wire'[w].id = Unassigned /\ (~IsAssigned(w))'
      BY <2>1 DEF Fresh, IsAssigned
    <2>3. Unassigned < 0 /\ NumInputs \in Nat
      BY NumberingFacts DEF Unassigned
    <2>4. Ids'
      BY <1>1, <1>2, <2>1, <2>2, <2>3 DEF Ids, numbering
    <2>5. Unstarted' /\ Sources' /\ Ready' /\ Taken' /\ Emission'
      BY <1>1, <1>2, <1>4, <2>1, <2>2 DEF Unstarted, Sources, Ready, Taken, Emission, numbering
    <2> QED
      BY <2>4, <2>5 DEF Order
  <1> QED
    BY <1>3, <1>4

\* Wire.Assign in terms of ids.
LEMMA AssignWireIds ==
  ASSUME NInv, KInv, NEW w \in 1..Len(wire), AssignWire(w), ~Output(w), ~IsAssigned(w)
  PROVE  /\ Len(wire') = Len(wire) /\ nextID' = nextID + 1
         /\ \A u \in 1..Len(wire) : wire'[u].id = IF u = w THEN nextID ELSE wire[u].id
  BY AssignWireReaders DEF SameReaders

\* Numbering an input.
LEMMA AssignInputOrder ==
  ASSUME NInv, KInv, Fresh, Order, AssignInput
  PROVE  Order'
  <1>1. /\ phase = "assign" /\ phase' = "assign" /\ AssignWire(i) /\ i <= NumInputs /\ i' = i + 1
        /\ i \in 1..NumInputs
        /\ UNCHANGED <<gate, dead, outputs, visited, pending, assigned, emitted, compiled>>
    BY NumberingFacts DEF AssignInput, NInv, LoopsSound
  <1>2. /\ NumInputs \in Nat /\ Len(wire) \in Nat /\ NumInputs <= Len(wire) /\ nextID \in Nat
        /\ \A w \in 1..Len(wire) : wire[w].id \in Nat \cup {Unassigned}
        /\ ~Output(i) /\ i \in 1..Len(wire)
    BY <1>1, NumberingFacts
  <1>3. /\ \A u \in 1..Len(wire) : wire[u].id < nextID
        /\ \A u, v \in 1..Len(wire) : IsAssigned(u) /\ wire[u].id = wire[v].id => u = v
        /\ \A w \in 1..NumInputs : wire[w].id = w - 1 \/ w >= i
        /\ nextID = i - 1 /\ assigned = <<>>
        /\ \A w \in 1..Len(wire) : IsAssigned(w) => w < i
    BY <1>1 DEF Order, Ids, Numbering
  <1>4. ~IsAssigned(i)
    BY <1>1, <1>2, <1>3
  <1>5. /\ Len(wire') = Len(wire) /\ nextID' = nextID + 1
        /\ \A u \in 1..Len(wire) : wire'[u].id = IF u = i THEN nextID ELSE wire[u].id
    BY <1>1, <1>2, <1>4, AssignWireIds
  <1>6. Ids'
    <2>1. \A u \in 1..Len(wire) : wire'[u].id < nextID'
      <3> TAKE u \in 1..Len(wire)
      <3>1. wire[u].id < nextID /\ (wire[u].id \in Nat \/ wire[u].id = Unassigned)
        BY <1>2, <1>3
      <3> QED
        BY <1>2, <1>5, <3>1 DEF Unassigned
    <2>2. ASSUME NEW u \in 1..Len(wire), NEW v \in 1..Len(wire),
                 wire'[u].id # Unassigned, wire'[u].id = wire'[v].id
          PROVE  u = v
      <3>1. wire[u].id # nextID /\ wire[v].id # nextID
        <4>1. /\ wire[u].id < nextID /\ wire[v].id < nextID
              /\ wire[u].id \in Nat \/ wire[u].id = Unassigned
              /\ wire[v].id \in Nat \/ wire[v].id = Unassigned
          BY <1>2, <1>3
        <4> QED
          BY <1>2, <4>1 DEF Unassigned
      <3> QED
        BY <1>3, <1>5, <2>2, <3>1 DEF IsAssigned
    <2>3. \A w \in 1..NumInputs : wire'[w].id = w - 1 \/ w >= i'
      <3> TAKE w \in 1..NumInputs
      <3>1. w \in 1..Len(wire)
        BY <1>2
      <3>2. CASE w = i
        BY <1>3, <1>5, <3>1, <3>2
      <3>3. CASE w # i
        BY <1>1, <1>3, <1>5, <3>1, <3>3
      <3> QED
        BY <3>2, <3>3
    <2>4. nextID' = i' - 1 /\ assigned' = <<>>
      BY <1>1, <1>2, <1>3, <1>5
    <2>5. \A w \in 1..Len(wire) : wire'[w].id # Unassigned => w < i'
      BY <1>1, <1>2, <1>3, <1>5 DEF IsAssigned
    <2> QED
      BY <1>1, <1>5, <2>1, <2>2, <2>3, <2>4, <2>5 DEF Ids, IsAssigned
  <1>7. Sources'
    <2> SUFFICES ASSUME NEW u \in 1..Len(wire), wire'[u].id # Unassigned
                 PROVE  u <= NumInputs
      BY <1>5 DEF Sources, IsAssigned, Driven
    <2> QED
      BY <1>1, <1>2, <1>3, <1>5 DEF IsAssigned
  <1>8. Ready'
    <2>1. Ready
      BY DEF Order
    <2>2. \A u \in 1..Len(wire) : IsAssigned(u) => wire'[u].id # Unassigned
      BY <1>4, <1>5 DEF IsAssigned
    <2>3. \A k \in 1..Len(pending) : pending[k] \in 1..Len(gate)
      BY NumberingFacts
    <2>4. \A g \in 1..Len(gate) : gate[g].A \in 1..Len(wire)
                                  /\ (gate[g].op # "INV" => gate[g].B \in 1..Len(wire))
      BY NumberingFacts
    <2> QED
      BY <1>1, <2>1, <2>2, <2>3, <2>4 DEF Ready, IsAssigned
  <1>9. Taken' /\ Unstarted' /\ Emission'
    BY <1>1, <1>3 DEF Taken, Unstarted, Emission, Order, Numbering
  <1> QED
    BY <1>6, <1>7, <1>8, <1>9 DEF Order

\* Visiting a reader.
LEMMA VisitOrder ==
  ASSUME NInv, KInv, Order, Visit
  PROVE  Order'
  <1>1. /\ phase = "assign" /\ phase' = "assign" /\ todo # <<>>
        /\ \/ /\ Visitable(Head(todo)) /\ visited' = visited \cup {Head(todo)}
              /\ pending' = Append(pending, Head(todo))
           \/ UNCHANGED <<visited, pending>>
        /\ UNCHANGED <<wire, gate, dead, outputs, i, nextID, assigned, emitted, compiled>>
    BY DEF Visit, netlist
  <1>2. Ids' /\ Sources' /\ Unstarted' /\ Emission'
    BY <1>1 DEF Order, Ids, Sources, Unstarted, Emission, IsAssigned, Driven, Numbering
  <1>3. Ready /\ Taken /\ pending \in Seq(1..Len(gate)) /\ Head(todo) \in 1..Len(gate)
    BY <1>1, HeadTail DEF Order, NInv, LoopsTyped
  <1>4. Taken'
    <2>1. \A k \in 1..Len(assigned) :
            /\ assigned[k] \in visited /\ assigned[k] \notin dead
            /\ \A l \in 1..Len(assigned) : assigned[l] = assigned[k] => l = k
            /\ Driven(gate[assigned[k]].A, k - 1)
            /\ gate[assigned[k]].op # "INV" => Driven(gate[assigned[k]].B, k - 1)
            /\ IsAssigned(gate[assigned[k]].O) \/ Output(gate[assigned[k]].O)
      BY <1>1, <1>3 DEF Taken, Numbering
    <2>2. visited \subseteq visited'
      BY <1>1
    <2> QED
      BY <1>1, <2>1, <2>2, SMTT(40) DEF Taken, Driven, IsAssigned, Output
  <1>5. Ready'
    <2>1. CASE UNCHANGED <<visited, pending>>
      BY <1>1, <1>3, <2>1 DEF Ready, IsAssigned
    <2>2. CASE /\ Visitable(Head(todo)) /\ visited' = visited \cup {Head(todo)}
               /\ pending' = Append(pending, Head(todo))
      <3> DEFINE h == Head(todo)
                 m == Len(pending)
      <3>1. /\ h \notin visited /\ IsAssigned(gate[h].A)
            /\ gate[h].op # "INV" => IsAssigned(gate[h].B)
        BY <2>2 DEF Visitable
      <3> HIDE DEF h
      <3>2. /\ Len(pending') = m + 1 /\ pending'[m + 1] = h /\ m \in Nat
            /\ \A k \in 1..m : pending'[k] = pending[k]
        BY <1>3, <2>2 DEF h
      <3> HIDE DEF m
      <3>3. \A k \in 1..Len(pending') : k \in 1..m \/ k = m + 1
        BY <3>2
      <3>4. \A k \in 1..m :
              /\ pending[k] \in visited /\ pending[k] # h /\ IsAssigned(gate[pending[k]].A)
              /\ gate[pending[k]].op # "INV" => IsAssigned(gate[pending[k]].B)
              /\ \A l \in 1..m : pending[l] = pending[k] => l = k
              /\ \A j \in 1..Len(assigned) : assigned[j] # pending[k]
        BY <1>1, <1>3, <3>1 DEF Ready, m
      <3>5. \A j \in 1..Len(assigned) : assigned[j] # h
        BY <1>1, <1>3, <3>1 DEF Taken, Numbering
      <3>6. ASSUME NEW k \in 1..Len(pending')
            PROVE  /\ pending'[k] \in visited' /\ IsAssigned(gate[pending'[k]].A)
                   /\ gate[pending'[k]].op # "INV" => IsAssigned(gate[pending'[k]].B)
                   /\ \A l \in 1..Len(pending') : pending'[l] = pending'[k] => l = k
                   /\ \A j \in 1..Len(assigned) : assigned[j] # pending'[k]
        <4>1. CASE k = m + 1
          BY <2>2, <3>1, <3>2, <3>3, <3>4, <3>5, <4>1 DEF h
        <4>2. CASE k \in 1..m
          BY <2>2, <3>2, <3>3, <3>4, <4>2
        <4> QED
          BY <3>3, <4>1, <4>2
      <3> QED
        BY <1>1, <3>6 DEF Ready, IsAssigned
    <2> QED
      BY <1>1, <2>1, <2>2
  <1> QED
    BY <1>2, <1>4, <1>5 DEF Order

\* A wire is an input or driven by one of the first gates of a list.
DrivenBy(gs, as, w, k) == w <= NumInputs \/ \E j \in 1..k : gs[as[j]].O = w

\* Driven, in terms of it.
LEMMA DrivenIs ==
  ASSUME NEW w, NEW k
  PROVE  Driven(w, k) <=> DrivenBy(gate, assigned, w, k)
  BY DEF Driven, DrivenBy

\* A wire that is there stays there when more gates are taken.
LEMMA DrivenMore ==
  ASSUME NEW gs, NEW as, NEW as2, NEW k \in Nat, NEW w, DrivenBy(gs, as, w, k),
         \A j \in 1..k : as2[j] = as[j], NEW m \in Nat, k <= m
  PROVE  DrivenBy(gs, as2, w, m)
  <1>1. CASE w <= NumInputs
    BY <1>1 DEF DrivenBy
  <1>2. CASE \E j \in 1..k : gs[as[j]].O = w
    <2>1. PICK j \in 1..k : gs[as[j]].O = w
      BY <1>2
    <2>2. j \in 1..m
      OBVIOUS
    <2>3. as2[j] = as[j]
      OBVIOUS
    <2> QED
      BY <2>1, <2>2, <2>3 DEF DrivenBy
  <1> QED
    BY <1>1, <1>2 DEF DrivenBy

\* The next gate that waits is taken.
LEMMA AssignGateOrder ==
  ASSUME NInv, KInv, Fresh, Order, AssignGate
  PROVE  Order'
  <1> DEFINE h == Head(pending)
             o == gate[h].O
             m == Len(assigned)
             n == Len(pending)
  <1>1. /\ phase = "assign" /\ phase' = "assign" /\ i > NumInputs /\ i' = i
        /\ pending # <<>> /\ pending' = Tail(pending)
        /\ \/ h \in dead /\ UNCHANGED <<wire, nextID, assigned>>
           \/ h \notin dead /\ AssignWire(o) /\ assigned' = Append(assigned, h)
        /\ UNCHANGED <<gate, dead, outputs, visited, emitted, compiled>>
    BY DEF AssignGate
  <1>2. /\ NumInputs \in Nat /\ Len(wire) \in Nat /\ NumInputs <= Len(wire) /\ nextID \in Nat
        /\ \A w \in 1..Len(wire) : wire[w].id \in Nat \cup {Unassigned}
        /\ assigned \in Seq(1..Len(gate)) /\ pending \in Seq(1..Len(gate))
        /\ i \in Int
    BY NumberingFacts
  <1>3. /\ n \in Nat /\ n >= 1 /\ pending[1] = h /\ h \in 1..Len(gate)
        /\ Len(pending') = n - 1 /\ m \in Nat
        /\ \A k \in 1..(n - 1) : pending'[k] = pending[k + 1]
    BY <1>1, <1>2
  <1>4. /\ gate[h].A \in 1..Len(wire) /\ o \in 1..Len(wire) /\ o > NumInputs
        /\ gate[h].op # "INV" => gate[h].B \in 1..Len(wire)
        /\ \A g \in 1..Len(gate) : gate[g].O = o => g = h
    BY <1>3, NumberingFacts
  <1> HIDE DEF h, o, m, n
  <1>5. /\ \A k \in 1..n :
             /\ pending[k] \in visited /\ IsAssigned(gate[pending[k]].A)
             /\ gate[pending[k]].op # "INV" => IsAssigned(gate[pending[k]].B)
             /\ \A l \in 1..n : pending[l] = pending[k] => l = k
             /\ \A j \in 1..m : assigned[j] # pending[k]
    BY <1>1 DEF Order, Ready, m, n
  <1>6. /\ \A k \in 1..m :
             /\ assigned[k] \in visited /\ assigned[k] \notin dead
             /\ \A l \in 1..m : assigned[l] = assigned[k] => l = k
             /\ Driven(gate[assigned[k]].A, k - 1)
             /\ gate[assigned[k]].op # "INV" => Driven(gate[assigned[k]].B, k - 1)
             /\ IsAssigned(gate[assigned[k]].O) \/ Output(gate[assigned[k]].O)
    BY <1>1 DEF Order, Taken, m, Numbering
  <1>7. /\ \A u \in 1..Len(wire) : wire[u].id < nextID
        /\ \A u, v \in 1..Len(wire) : IsAssigned(u) /\ wire[u].id = wire[v].id => u = v
        /\ \A w \in 1..NumInputs : wire[w].id = w - 1
        /\ \A u \in 1..Len(wire) : IsAssigned(u) => Driven(u, m)
    <2>1. \A w \in 1..NumInputs : ~(w >= i)
      BY <1>1, <1>2
    <2> QED
      BY <1>1, <2>1 DEF Order, Ids, Sources, m, Numbering
  <1>8. Unstarted' /\ Emission'
    BY <1>1 DEF Order, Unstarted, Emission, Numbering
  <1>9. CASE h \in dead /\ UNCHANGED <<wire, nextID, assigned>>
    <2>1. Ids' /\ Sources' /\ Taken'
      <3>1. Ids'
        BY <1>1, <1>9 DEF Order, Ids, IsAssigned, Output, Numbering
      <3>2. Sources'
        BY <1>1, <1>9 DEF Order, Sources, IsAssigned, Driven
      <3>3. Taken'
        BY <1>1, <1>9 DEF Order, Taken, IsAssigned, Driven, Output, Numbering
      <3> QED
        BY <3>1, <3>2, <3>3
    <2>2. Ready'
      <3>1. \A k \in 1..(n - 1) : k + 1 \in 1..n
        BY <1>3
      <3>2. ASSUME NEW k \in 1..(n - 1)
            PROVE  /\ pending'[k] \in visited /\ IsAssigned(gate[pending'[k]].A)
                   /\ gate[pending'[k]].op # "INV" => IsAssigned(gate[pending'[k]].B)
                   /\ \A l \in 1..(n - 1) : pending'[l] = pending'[k] => l = k
                   /\ \A j \in 1..m : assigned[j] # pending'[k]
        <4>1. pending'[k] = pending[k + 1] /\ k + 1 \in 1..n
          BY <1>3, <3>1
        <4>2. \A l \in 1..(n - 1) : pending'[l] = pending[l + 1] /\ l + 1 \in 1..n
          BY <1>3, <3>1
        <4>3. /\ pending[k + 1] \in visited /\ IsAssigned(gate[pending[k + 1]].A)
              /\ gate[pending[k + 1]].op # "INV" => IsAssigned(gate[pending[k + 1]].B)
              /\ \A l \in 1..n : pending[l] = pending[k + 1] => l = k + 1
              /\ \A j \in 1..m : assigned[j] # pending[k + 1]
          BY <1>5, <4>1
        <4>4. \A l \in 1..(n - 1) : pending'[l] = pending'[k] => l = k
          <5> SUFFICES ASSUME NEW l \in 1..(n - 1), pending'[l] = pending'[k] PROVE l = k
            OBVIOUS
          <5>1. l + 1 = k + 1
            BY <4>1, <4>2, <4>3
          <5> QED
            BY <5>1, <1>3
        <4> QED
          BY ONLY <4>1, <4>3, <4>4
      <3>3. Len(assigned') = m /\ assigned' = assigned
        BY <1>9 DEF m
      <3>4. \A k \in 1..Len(pending') :
              /\ pending'[k] \in visited' /\ wire'[gate'[pending'[k]].A].id # Unassigned
              /\ gate'[pending'[k]].op # "INV" => wire'[gate'[pending'[k]].B].id # Unassigned
              /\ \A l \in 1..Len(pending') : pending'[l] = pending'[k] => l = k
              /\ \A j \in 1..Len(assigned') : assigned'[j] # pending'[k]
        <4>1. wire' = wire /\ gate' = gate /\ visited' = visited /\ Len(pending') = n - 1
          BY <1>1, <1>3, <1>9
        <4> QED
          BY ONLY <4>1, <3>2, <3>3 DEF IsAssigned
      <3> QED
        BY ONLY <3>4 DEF Ready, IsAssigned
    <2> QED
      BY <1>8, <2>1, <2>2 DEF Order
  <1>10. CASE h \notin dead /\ AssignWire(o) /\ assigned' = Append(assigned, h)
    <2>1. /\ Len(assigned') = m + 1 /\ assigned'[m + 1] = h
          /\ \A k \in 1..m : assigned'[k] = assigned[k]
      BY <1>2, <1>3, <1>10 DEF m
    <2>2. \A k \in 1..(m + 1) : k \in 1..m \/ k = m + 1
      BY <1>3
    <2>3. ~IsAssigned(o)
      <3> SUFFICES ASSUME IsAssigned(o) PROVE FALSE
        OBVIOUS
      <3>0. ~(o <= NumInputs)
        BY <1>2, <1>4
      <3>1. \E j \in 1..m : gate[assigned[j]].O = o
        BY <1>4, <1>7, <3>0 DEF Driven
      <3>2. \A j \in 1..m : assigned[j] \in 1..Len(gate)
        BY <1>2 DEF m
      <3>3. \A j \in 1..m : assigned[j] # h
        <4>1. 1 \in 1..n
          BY <1>3
        <4> QED
          BY <1>3, <1>5, <4>1
      <3> QED
        BY <1>4, <3>1, <3>2, <3>3
    <2>4. /\ Len(wire') = Len(wire)
          /\ nextID' = IF Output(o) THEN nextID ELSE nextID + 1
          /\ \A u \in 1..Len(wire) :
               wire'[u].id = IF u = o /\ ~Output(o) THEN nextID ELSE wire[u].id
      BY <1>4, <1>10, <2>3, AssignWireReaders DEF SameReaders
    <2>5. \A u \in 1..Len(wire) : IsAssigned(u) => wire'[u].id # Unassigned
      BY <1>2, <2>3, <2>4 DEF IsAssigned
    <2>6. Ids'
      <3>1. \A u \in 1..Len(wire) : wire'[u].id < nextID'
        <4> TAKE u \in 1..Len(wire)
        <4>1. wire[u].id < nextID /\ (wire[u].id \in Nat \/ wire[u].id = Unassigned)
          BY <1>2, <1>7
        <4>2. wire'[u].id = nextID \/ wire'[u].id = wire[u].id
          BY <2>4
        <4>3. CASE Output(o)
          BY <2>4, <4>1, <4>3
        <4>4. CASE ~Output(o)
          <5>1. nextID' = nextID + 1
            BY <2>4, <4>4
          <5> QED
            BY <1>2, <4>1, <4>2, <5>1 DEF Unassigned
        <4> QED
          BY <4>3, <4>4
      <3>2. ASSUME NEW u \in 1..Len(wire), NEW v \in 1..Len(wire),
                   wire'[u].id # Unassigned, wire'[u].id = wire'[v].id
            PROVE  u = v
        <4>1. wire[u].id # nextID /\ wire[v].id # nextID
          <5>1. /\ wire[u].id < nextID /\ wire[v].id < nextID
                /\ wire[u].id \in Nat \/ wire[u].id = Unassigned
                /\ wire[v].id \in Nat \/ wire[v].id = Unassigned
            BY <1>2, <1>7
          <5> QED
            BY <1>2, <5>1 DEF Unassigned
        <4> QED
          BY <1>7, <2>4, <3>2, <4>1 DEF IsAssigned
      <3>3. \A w \in 1..NumInputs : wire'[w].id = w - 1
        <4> TAKE w \in 1..NumInputs
        <4>1. w \in 1..Len(wire) /\ w # o
          BY <1>2, <1>4
        <4> QED
          BY <1>7, <2>4, <4>1
      <3>4. ~(i <= NumInputs)
        BY <1>1, <1>2
      <3> QED
        BY <1>1, <2>4, <3>1, <3>2, <3>3, <3>4 DEF Ids, IsAssigned
    <2>7. ASSUME NEW w, NEW k \in 0..m, Driven(w, k), NEW k2 \in Nat, k <= k2
          PROVE  DrivenBy(gate, assigned', w, k2)
      <3>1. k \in Nat /\ \A j \in 1..k : assigned'[j] = assigned[j]
        BY <1>3, <2>1
      <3> QED
        BY ONLY <2>7, <3>1, DrivenMore, DrivenIs
    <2>8. Sources'
      <3> SUFFICES ASSUME NEW u \in 1..Len(wire), wire'[u].id # Unassigned
                   PROVE  DrivenBy(gate, assigned', u, m + 1)
        <4>1. Len(wire') = Len(wire) /\ Len(assigned') = m + 1
          BY <2>1, <2>4
        <4> QED
          BY <1>1, <4>1 DEF Sources, IsAssigned, Driven, DrivenBy
      <3>1. CASE IsAssigned(u)
        <4>1. Driven(u, m)
          BY <1>7, <3>1
        <4>2. m \in 0..m /\ m + 1 \in Nat /\ m <= m + 1
          BY <1>3
        <4> QED
          BY <2>7, <4>1, <4>2
      <3>2. CASE ~IsAssigned(u)
        <4>1. u = o
          BY <2>4, <3>2 DEF IsAssigned
        <4>2. m + 1 \in 1..(m + 1)
          BY <1>3
        <4>3. gate[assigned'[m + 1]].O = u
          BY <2>1, <4>1 DEF o
        <4> QED
          BY ONLY <4>2, <4>3 DEF DrivenBy
      <3> QED
        BY <3>1, <3>2
    <2>9. Ready'
      <3>1. \A k \in 1..(n - 1) : k + 1 \in 1..n /\ k + 1 # 1
        BY <1>3
      <3>2. 1 \in 1..n
        BY <1>3
      <3>3. \A k \in 1..n : pending[k] \in 1..Len(gate)
        BY <1>2 DEF n
      <3>4. ASSUME NEW k \in 1..(n - 1)
            PROVE  /\ pending'[k] \in visited /\ pending'[k] \in 1..Len(gate)
                   /\ IsAssigned(gate[pending'[k]].A)
                   /\ gate[pending'[k]].op # "INV" => IsAssigned(gate[pending'[k]].B)
                   /\ \A l \in 1..(n - 1) : pending'[l] = pending'[k] => l = k
        <4>1. pending'[k] = pending[k + 1] /\ k + 1 \in 1..n
          BY <1>3, <3>1
        <4>2. \A l \in 1..(n - 1) : pending'[l] = pending[l + 1] /\ l + 1 \in 1..n
          BY <1>3, <3>1
        <4>3. /\ pending[k + 1] \in visited /\ IsAssigned(gate[pending[k + 1]].A)
              /\ gate[pending[k + 1]].op # "INV" => IsAssigned(gate[pending[k + 1]].B)
              /\ \A l \in 1..n : pending[l] = pending[k + 1] => l = k + 1
              /\ pending[k + 1] \in 1..Len(gate)
          BY <1>5, <3>3, <4>1
        <4>4. \A l \in 1..(n - 1) : pending'[l] = pending'[k] => l = k
          <5> SUFFICES ASSUME NEW l \in 1..(n - 1), pending'[l] = pending'[k] PROVE l = k
            OBVIOUS
          <5>1. l + 1 = k + 1
            BY <4>1, <4>2, <4>3
          <5> QED
            BY <5>1, <1>3
        <4> QED
          BY ONLY <4>1, <4>3, <4>4
      <3>5. ASSUME NEW k \in 1..(n - 1), NEW j \in 1..(m + 1)
            PROVE  assigned'[j] # pending'[k]
        <4>1. pending'[k] = pending[k + 1] /\ pending[k + 1] # h
          BY <1>3, <1>5, <3>1, <3>2
        <4> QED
          BY <1>5, <2>1, <2>2, <3>1, <4>1
      <3>6. \A g \in 1..Len(gate) : /\ gate[g].A \in 1..Len(wire)
                                    /\ gate[g].op # "INV" => gate[g].B \in 1..Len(wire)
        BY NumberingFacts
      <3>7. ASSUME NEW k \in 1..(n - 1)
            PROVE  /\ wire'[gate[pending'[k]].A].id # Unassigned
                   /\ gate[pending'[k]].op # "INV" => wire'[gate[pending'[k]].B].id # Unassigned
        BY <2>5, <3>4, <3>6
      <3> QED
        BY <1>1, <1>3, <2>1, <3>4, <3>5, <3>7 DEF Ready, IsAssigned
    <2>10. Taken'
      <3>1. \A k \in 1..m : assigned[k] \in 1..Len(gate) /\ assigned[k] # h
        <4>1. 1 \in 1..n
          BY <1>3
        <4>2. \A k \in 1..m : assigned[k] \in 1..Len(gate)
          BY <1>2 DEF m
        <4> QED
          BY <1>3, <1>5, <4>1, <4>2
      <3>2. ASSUME NEW k \in 1..m
            PROVE  /\ assigned[k] \in visited /\ assigned[k] \notin dead
                   /\ \A l \in 1..(m + 1) : assigned'[l] = assigned[k] => l = k
                   /\ DrivenBy(gate, assigned', gate[assigned[k]].A, k - 1)
                   /\ gate[assigned[k]].op # "INV"
                        => DrivenBy(gate, assigned', gate[assigned[k]].B, k - 1)
                   /\ wire'[gate[assigned[k]].O].id # Unassigned \/ Output(gate[assigned[k]].O)
        <4>1. k - 1 \in 0..m /\ k - 1 \in Nat /\ k - 1 <= k - 1
          BY <1>3
        <4>2. \A l \in 1..(m + 1) : assigned'[l] = assigned[k] => l = k
          BY <1>6, <2>1, <2>2, <3>1
        <4>3. /\ DrivenBy(gate, assigned', gate[assigned[k]].A, k - 1)
              /\ gate[assigned[k]].op # "INV"
                   => DrivenBy(gate, assigned', gate[assigned[k]].B, k - 1)
          BY <1>6, <2>7, <4>1
        <4>5. wire'[gate[assigned[k]].O].id # Unassigned \/ Output(gate[assigned[k]].O)
          <5>1. gate[assigned[k]].O \in 1..Len(wire)
            BY <3>1, NumberingFacts
          <5> QED
            BY <1>6, <2>5, <5>1
        <4> QED
          BY <1>6, <4>2, <4>3, <4>5
      <3>3. /\ h \in visited /\ h \notin dead
            /\ \A l \in 1..(m + 1) : assigned'[l] = h => l = m + 1
            /\ DrivenBy(gate, assigned', gate[h].A, m)
            /\ gate[h].op # "INV" => DrivenBy(gate, assigned', gate[h].B, m)
            /\ wire'[gate[h].O].id # Unassigned \/ Output(gate[h].O)
        <4>1. 1 \in 1..n
          BY <1>3
        <4>2. /\ h \in visited /\ IsAssigned(gate[h].A)
              /\ gate[h].op # "INV" => IsAssigned(gate[h].B)
          BY <1>3, <1>5, <4>1
        <4>3. \A l \in 1..(m + 1) : assigned'[l] = h => l = m + 1
          BY <2>1, <2>2, <3>1
        <4>4. m \in 0..m /\ m \in Nat /\ m <= m
          BY <1>3
        <4>5. /\ Driven(gate[h].A, m)
              /\ gate[h].op # "INV" => Driven(gate[h].B, m)
          BY <1>4, <1>7, <4>2
        <4>6. /\ DrivenBy(gate, assigned', gate[h].A, m)
              /\ gate[h].op # "INV" => DrivenBy(gate, assigned', gate[h].B, m)
          BY <2>7, <4>4, <4>5
        <4>7. wire'[o].id # Unassigned \/ Output(o)
          BY <1>2, <1>4, <2>4 DEF Unassigned
        <4> QED
          BY <1>10, <4>2, <4>3, <4>6, <4>7 DEF o
      <3>4. ASSUME NEW k \in 1..(m + 1)
            PROVE  /\ assigned'[k] \in visited /\ assigned'[k] \notin dead
                   /\ \A l \in 1..(m + 1) : assigned'[l] = assigned'[k] => l = k
                   /\ DrivenBy(gate, assigned', gate[assigned'[k]].A, k - 1)
                   /\ gate[assigned'[k]].op # "INV"
                        => DrivenBy(gate, assigned', gate[assigned'[k]].B, k - 1)
                   /\ wire'[gate[assigned'[k]].O].id # Unassigned \/ Output(gate[assigned'[k]].O)
        <4>1. CASE k \in 1..m
          BY <2>1, <3>2, <4>1
        <4>2. CASE k = m + 1
          <5>1. assigned'[k] = h /\ k - 1 = m
            BY <1>3, <2>1, <4>2
          <5> QED
            BY <3>3, <4>2, <5>1
        <4> QED
          BY <2>2, <4>1, <4>2
      <3>5. /\ Len(assigned') = m + 1 /\ gate' = gate /\ visited' = visited /\ dead' = dead
            /\ outputs' = outputs /\ phase' = "assign"
        BY <1>1, <2>1
      <3> QED
        BY ONLY <3>4, <3>5 DEF Taken, DrivenBy, Driven, IsAssigned, Output
    <2> QED
      BY <1>8, <2>6, <2>8, <2>9, <2>10 DEF Order
  <1> QED
    BY <1>1, <1>9, <1>10

\* Outputs are numbered last.
LEMMA AssignOutputsOrder ==
  ASSUME NInv, KInv, Fresh, Order, AssignOutputs
  PROVE  Order'
  <1> DEFINE P(w) == CHOOSE k \in 1..Len(outputs) : outputs[k] = w
  <1>1. /\ phase = "assign" /\ phase' = "emit" /\ i > NumInputs /\ i' = 1
        /\ wire' = [w \in 1..Len(wire) |->
                      IF Output(w) THEN [wire[w] EXCEPT !.id = nextID + P(w) - 1] ELSE wire[w]]
        /\ nextID' = nextID + Len(outputs)
        /\ UNCHANGED <<gate, dead, outputs, visited, pending, assigned, emitted, compiled>>
    BY DEF AssignOutputs, Output
  <1>2. /\ NumInputs \in Nat /\ Len(wire) \in Nat /\ NumInputs <= Len(wire) /\ nextID \in Nat
        /\ \A w \in 1..Len(wire) : wire[w].id \in Nat \cup {Unassigned}
        /\ \A w \in 1..NumInputs : ~Output(w)
        /\ assigned \in Seq(1..Len(gate)) /\ i \in Int
        /\ \A g \in 1..Len(gate) : gate[g].O \in 1..Len(wire)
        /\ outputs \in Seq(1..Len(wire)) /\ Len(outputs) \in Nat
    BY NumberingFacts DEF NInv, LoopsTyped
  <1>3. /\ \A u \in 1..Len(wire) : wire[u].id < nextID
        /\ \A u, v \in 1..Len(wire) : IsAssigned(u) /\ wire[u].id = wire[v].id => u = v
        /\ \A w \in 1..NumInputs : wire[w].id = w - 1
    <2>1. \A w \in 1..NumInputs : ~(w >= i)
      BY <1>1, <1>2
    <2> QED
      BY <1>1, <2>1 DEF Order, Ids, Numbering
  <1>4. \A w \in 1..Len(wire) : Output(w) => wire[w].id = Unassigned
    BY <1>1 DEF Fresh, Output
  <1>5. ASSUME NEW w, Output(w)
        PROVE  P(w) \in 1..Len(outputs) /\ outputs[P(w)] = w
    BY <1>5 DEF Output
  <1> HIDE DEF P
  <1>6. /\ Len(wire') = Len(wire)
        /\ \A u \in 1..Len(wire) :
             wire'[u].id = IF Output(u) THEN nextID + P(u) - 1 ELSE wire[u].id
    <2>1. Len(wire') = Len(wire)
      BY <1>1, <1>2
    <2>2. \A u \in 1..Len(wire) :
            wire'[u].id = IF Output(u) THEN nextID + P(u) - 1 ELSE wire[u].id
      <3> TAKE u \in 1..Len(wire)
      <3>1. wire[u] \in WireRecord
        BY NetlistFacts
      <3>2. wire'[u] = IF Output(u) THEN [wire[u] EXCEPT !.id = nextID + P(u) - 1] ELSE wire[u]
        BY <1>1
      <3> QED
        BY <3>1, <3>2 DEF WireRecord
    <2> QED
      BY <2>1, <2>2
  <1>7. \A u \in 1..Len(wire) :
          /\ Output(u) => wire'[u].id >= nextID /\ wire'[u].id < nextID'
          /\ ~Output(u) => wire'[u].id < nextID /\ wire'[u].id < nextID'
    <2> TAKE u \in 1..Len(wire)
    <2>1. CASE Output(u)
      <3>1. P(u) \in 1..Len(outputs) /\ wire'[u].id = nextID + P(u) - 1
        BY <1>5, <1>6, <2>1
      <3> QED
        BY <1>1, <1>2, <2>1, <3>1, SMTT(40)
    <2>2. CASE ~Output(u)
      <3>1. wire'[u].id = wire[u].id /\ wire[u].id < nextID
        BY <1>3, <1>6, <2>2
      <3>2. wire[u].id \in Int
        BY <1>2 DEF Unassigned
      <3> QED
        BY <1>1, <1>2, <2>2, <3>1, <3>2
    <2> QED
      BY <2>1, <2>2
  <1>8. Ids'
    <2>1. \A u \in 1..Len(wire) : wire'[u].id < nextID'
      BY <1>7
    <2>2. ASSUME NEW u \in 1..Len(wire), NEW v \in 1..Len(wire),
                 wire'[u].id # Unassigned, wire'[u].id = wire'[v].id
          PROVE  u = v
      <3>1. CASE Output(u) /\ Output(v)
        <4>1. nextID + P(u) - 1 = nextID + P(v) - 1
          BY <1>6, <2>2, <3>1
        <4>2. P(u) \in 1..Len(outputs) /\ P(v) \in 1..Len(outputs)
          BY <1>5, <3>1
        <4>3. P(u) = P(v)
          BY <1>2, <4>1, <4>2
        <4> QED
          BY <1>5, <3>1, <4>3
      <3>2. CASE ~Output(u) /\ ~Output(v)
        BY <1>3, <1>6, <2>2, <3>2 DEF IsAssigned
      <3>3. CASE Output(u) /\ ~Output(v)
        <4>1. wire'[u].id >= nextID /\ wire'[v].id < nextID
          BY <1>7, <3>3
        <4>2. wire'[v].id \in Int
          BY <1>2, <1>6, <3>3, SMTT(40) DEF Unassigned
        <4> QED
          BY <1>2, <2>2, <4>1, <4>2
      <3>4. CASE ~Output(u) /\ Output(v)
        <4>1. wire'[v].id >= nextID /\ wire'[u].id < nextID
          BY <1>7, <3>4
        <4>2. wire'[u].id \in Int
          BY <1>2, <1>6, <3>4 DEF Unassigned
        <4> QED
          BY <1>2, <2>2, <4>1, <4>2
      <3> QED
        BY <3>1, <3>2, <3>3, <3>4
    <2>3. \A w \in 1..NumInputs : wire'[w].id = w - 1
      <3> TAKE w \in 1..NumInputs
      <3>1. w \in 1..Len(wire)
        BY <1>2
      <3> QED
        BY <1>2, <1>3, <1>6, <3>1
    <2> QED
      BY <1>1, <1>6, <2>1, <2>2, <2>3 DEF Ids, IsAssigned
  <1>9. Taken'
    <2>1. ASSUME NEW k \in 1..Len(assigned)
          PROVE  /\ assigned[k] \in visited /\ assigned[k] \notin dead
                 /\ \A l \in 1..Len(assigned) : assigned[l] = assigned[k] => l = k
                 /\ Driven(gate[assigned[k]].A, k - 1)
                 /\ gate[assigned[k]].op # "INV" => Driven(gate[assigned[k]].B, k - 1)
                 /\ wire'[gate[assigned[k]].O].id # Unassigned
      <3>1. gate[assigned[k]].O \in 1..Len(wire)
        BY <1>2
      <3>2. IsAssigned(gate[assigned[k]].O) \/ Output(gate[assigned[k]].O)
        BY <1>1 DEF Order, Taken, Numbering
      <3>3. wire'[gate[assigned[k]].O].id # Unassigned
        BY <1>2, <1>6, <1>7, <3>1, <3>2, SMTT(40) DEF IsAssigned, Unassigned
      <3> QED
        BY <1>1, <3>3 DEF Order, Taken, Numbering
    <2> QED
      BY <1>1, <2>1 DEF Taken, IsAssigned, Driven
  <1>10. Sources' /\ Ready' /\ Unstarted'
    BY <1>1 DEF Sources, Ready, Unstarted, Order, Numbering
  <1>11. Emission'
    <2>1. compiled' = <<>> /\ emitted' = {} /\ Len(assigned') \in Nat
      BY <1>1, <1>2 DEF Order, Unstarted
    <2> QED
      BY <1>1, <2>1 DEF Emission
  <1> QED
    BY <1>8, <1>9, <1>10, <1>11 DEF Order

\* The next gate is written.
LEMMA EmitGateOrder ==
  ASSUME NInv, KInv, Order, EmitGate
  PROVE  Order'
  <1> DEFINE m == Len(assigned)
             g == assigned[i]
  <1>1. /\ phase = "emit" /\ phase' = "emit" /\ i <= m /\ i' = i + 1
        /\ UNCHANGED <<wire, gate, dead, outputs, visited, nextID, pending, assigned>>
        /\ IF g \in dead \/ g \in emitted THEN UNCHANGED <<emitted, compiled>>
           ELSE emitted' = emitted \cup {g} /\ compiled' = Append(compiled, Written(g))
    BY DEF EmitGate, netlist, Written
  <1>2. /\ i \in 1..(m + 1) /\ Len(compiled) = i - 1
        /\ \A k \in 1..(i - 1) : compiled[k] = Written(assigned[k])
        /\ emitted = {assigned[k] : k \in 1..(i - 1)}
    BY <1>1 DEF Order, Emission
  <1>3. /\ m \in Nat /\ i \in 1..m /\ i \in Int
    BY <1>1, <1>2, NumberingFacts
  <1>4. \A k \in 1..m : /\ assigned[k] \notin dead
                        /\ \A l \in 1..m : assigned[l] = assigned[k] => l = k
    BY <1>1 DEF Order, Taken, Numbering
  <1>5. Ids' /\ Sources' /\ Ready' /\ Taken' /\ Unstarted'
    BY <1>1 DEF Order, Ids, Sources, Ready, Taken, Unstarted, Numbering, IsAssigned, Driven, Output
  <1> HIDE DEF m, g
  <1>6. g \notin dead /\ g \notin emitted
    <2>1. \A k \in 1..(i - 1) : k \in 1..m /\ k # i
      BY <1>3
    <2> QED
      BY <1>2, <1>3, <1>4, <2>1 DEF g
  <1>7. emitted' = emitted \cup {g} /\ compiled' = Append(compiled, Written(g))
    BY <1>1, <1>6
  <1>8. compiled \in Seq(Writing) /\ Written(g) \in Writing
    <2>1. g \in 1..Len(gate)
      BY <1>3, NumberingFacts DEF g, m
    <2>2. /\ gate[g].op \in AllOps
          /\ gate[g].A \in 1..Len(wire) /\ gate[g].O \in 1..Len(wire)
          /\ gate[g].op # "INV" => gate[g].B \in 1..Len(wire)
      BY <2>1, GateFacts
    <2>3. \A w \in 1..Len(wire) : wire[w].id \in Int
      BY NumberingFacts DEF Unassigned
    <2>4. Written(g) \in Writing
      BY <2>2, <2>3 DEF Written, Writing
    <2> QED
      BY <2>4 DEF Order, Emission
  <1>9. /\ Len(compiled') = i /\ compiled'[i] = Written(g)
        /\ \A k \in 1..(i - 1) : compiled'[k] = compiled[k]
    BY <1>2, <1>3, <1>7, <1>8
  <1>10. \A k \in 1..i : k \in 1..(i - 1) \/ k = i
    BY <1>3
  <1>11. emitted' = {assigned[k] : k \in 1..i}
    BY <1>2, <1>3, <1>7, <1>10 DEF g
  <1>12. \A k \in 1..i : compiled'[k] = Written(assigned[k])
    BY <1>2, <1>9, <1>10 DEF g
  <1>13. i' - 1 = i /\ i' \in 1..(m + 1) /\ phase' # "done"
    BY <1>1, <1>3
  <1>14. \A k \in 1..i : compiled'[k] = Written(assigned[k])'
    BY <1>1, <1>12 DEF Written
  <1>15. Emission'
    <2>1. compiled' \in Seq(Writing)
      BY <1>7, <1>8
    <2>2. assigned' = assigned /\ i' \in 1..(Len(assigned') + 1) /\ Len(compiled') = i' - 1
      BY <1>1, <1>9, <1>13 DEF m
    <2>3. /\ \A k \in 1..(i' - 1) : compiled'[k] = Written(assigned[k])'
          /\ emitted' = {assigned'[k] : k \in 1..(i' - 1)}
      BY <1>11, <1>13, <1>14, <2>2
    <2> QED
      BY <1>13, <2>1, <2>2, <2>3 DEF Emission
  <1> QED
    BY <1>5, <1>15 DEF Order

\* What is numbered, taken and written stays in order.
LEMMA NextOrder ==
  ASSUME NInv, KInv, Fresh, Order, [Next]_vars
  PROVE  Order'
  <1>1. CASE UNCHANGED vars
    BY <1>1, SMTT(40) DEF vars, netlist, Order, Unstarted, Ids, Sources, Ready, Taken, Emission, IsAssigned,
       Driven, Output, Written, Numbering
  <1>2. CASE phase \notin Numbering
    BY <1>2, EarlyOrder
  <1>3. CASE AssignInput
    BY <1>3, AssignInputOrder
  <1>4. CASE Visit
    BY <1>4, VisitOrder
  <1>5. CASE AssignGate
    BY <1>5, AssignGateOrder
  <1>6. CASE AssignOutputs
    BY <1>6, AssignOutputsOrder
  <1>7. CASE EmitGate
    BY <1>7, EmitGateOrder
  <1>8. CASE EmitDone
    <2>1. /\ phase = "emit" /\ phase' = "done" /\ i > Len(assigned)
          /\ UNCHANGED <<wire, gate, dead, outputs, i, visited, nextID, pending, assigned,
                         emitted, compiled>>
      BY <1>8 DEF EmitDone, netlist, numbering
    <2>2. Len(assigned) \in Nat
      BY NumberingFacts
    <2>3. /\ i \in 1..(Len(assigned) + 1) /\ Len(compiled) = i - 1
          /\ \A k \in 1..(i - 1) : compiled[k] = Written(assigned[k])
          /\ emitted = {assigned[k] : k \in 1..(i - 1)} /\ compiled \in Seq(Writing)
      BY <2>1 DEF Order, Emission
    <2>4. i = Len(assigned) + 1
      BY <2>1, <2>2, <2>3
    <2>5. Emission'
      BY <2>1, <2>3, <2>4 DEF Emission, Written
    <2>6. Ids' /\ Sources' /\ Ready' /\ Taken' /\ Unstarted'
      BY <2>1 DEF Order, Ids, Sources, Ready, Taken, Unstarted, Numbering, IsAssigned, Driven,
         Output
    <2> QED
      BY <2>5, <2>6 DEF Order
  <1>9. CASE Next /\ phase \in Numbering
    BY <1>3, <1>4, <1>5, <1>6, <1>7, <1>8, <1>9 DEF Next, Build, Ret, Start, FoldConst, Redirect,
       Disconnect, Rewire, ConstDone, SkipByA, SkipByB, XORDone, PruneGate, PruneDone, Numbering
  <1> QED
    BY <1>1, <1>2, <1>9

\* Nothing is numbered at first.
LEMMA InitOrder == Init => Order
  <1> SUFFICES ASSUME Init PROVE Order
    OBVIOUS
  <1>1. /\ phase = "build" /\ nextID = 0 /\ visited = {} /\ pending = <<>> /\ assigned = <<>>
        /\ compiled = <<>> /\ emitted = {}
    BY DEF Init
  <1>2. <<>> \in Seq(Writing)
    OBVIOUS
  <1> QED
    BY <1>1, <1>2 DEF Order, Unstarted, Ids, Sources, Ready, Taken, Emission, Numbering

\* Gates are taken and written after the ones they read, and ids are unique.
THEOREM NetlistOrder == Spec => []Order
  <1>1. Init => Order
    BY InitOrder
  <1>2. NInv /\ KInv /\ Fresh /\ Order /\ [Next]_vars => Order'
    BY NextOrder
  <1> QED
    BY <1>1, <1>2, NetlistInvariant, NetlistKept, NetlistFresh, PTL DEF Spec

\* What has been written.
LEMMA WrittenFacts ==
  ASSUME NInv, KInv, Order, NEW k \in 1..Len(compiled)
  PROVE  /\ phase \in {"emit", "done"} /\ k \in 1..Len(assigned)
         /\ assigned[k] \in 1..Len(gate) /\ compiled[k] = Written(assigned[k])
  <1>1. phase \in {"emit", "done"}
    BY DEF Order, Unstarted
  <1>2. /\ i \in 1..(Len(assigned) + 1) /\ Len(compiled) = i - 1
        /\ \A l \in 1..(i - 1) : compiled[l] = Written(assigned[l])
    BY <1>1 DEF Order, Emission
  <1>3. assigned \in Seq(1..Len(gate)) /\ Len(assigned) \in Nat
    BY NumberingFacts
  <1>4. k \in 1..Len(assigned)
    BY <1>2, <1>3
  <1> QED
    BY <1>1, <1>2, <1>3, <1>4

\* A wire that is there before gate k is taken is written before k.
LEMMA DrivenIsBefore ==
  ASSUME NInv, KInv, Order, NEW k \in 1..Len(compiled), NEW w \in 1..Len(wire),
         Driven(w, k - 1)
  PROVE  wire[w].id \in 0..(NumInputs - 1) \cup {compiled[j].out : j \in 1..(k - 1)}
  <1>1. phase \in {"emit", "done"}
    BY WrittenFacts
  <1>2. NumInputs \in Nat /\ Len(compiled) \in Nat
    BY NumberingFacts DEF Order, Emission
  <1>3. CASE w <= NumInputs
    <2>1. w \in 1..NumInputs
      BY <1>2, <1>3
    <2>2. wire[w].id = w - 1
      BY <1>1, <2>1 DEF Order, Ids, Numbering
    <2> QED
      BY <1>2, <2>1, <2>2
  <1>4. CASE \E j \in 1..(k - 1) : gate[assigned[j]].O = w
    <2>1. PICK j \in 1..(k - 1) : gate[assigned[j]].O = w
      BY <1>4
    <2>2. j \in 1..Len(compiled)
      BY <1>2
    <2>3. compiled[j] = Written(assigned[j])
      BY <2>2, WrittenFacts
    <2>4. compiled[j].out = wire[w].id
      BY ONLY <2>1, <2>3 DEF Written
    <2> QED
      BY <2>4
  <1> QED
    BY <1>3, <1>4 DEF Driven

\* A gate reads inputs or outputs of gates before it, and no wire is driven
\* twice.
THEOREM NetlistWellOrdered == Spec => []WellOrdered
  <1>1. ASSUME NInv, KInv, Order PROVE WellOrdered
    <2>1. SUFFICES ASSUME NEW k \in 1..Len(compiled)
                   PROVE  LET before == 0..(NumInputs - 1) \cup {compiled[j].out : j \in 1..(k - 1)}
                          IN  /\ compiled[k].in0 \in before /\ compiled[k].in1 \in before
                              /\ compiled[k].out \in (0..(nextID - 1)) \ before
      BY DEF WellOrdered
    <2> DEFINE g == assigned[k]
               o == gate[g].O
               before == 0..(NumInputs - 1) \cup {compiled[j].out : j \in 1..(k - 1)}
    <2>2. /\ phase \in {"emit", "done"} /\ k \in 1..Len(assigned) /\ g \in 1..Len(gate)
          /\ compiled[k] = Written(g)
      BY <1>1, WrittenFacts
    <2>3. /\ NumInputs \in Nat /\ NumInputs >= 1 /\ Len(wire) \in Nat /\ nextID \in Nat
          /\ NumInputs <= Len(wire) /\ Len(compiled) \in Nat
          /\ \A w \in 1..Len(wire) : wire[w].id \in Nat \cup {Unassigned}
      BY <1>1, NumberingFacts DEF Order, Emission
    <2>4. /\ gate[g].A \in 1..Len(wire)
          /\ gate[g].op # "INV" => gate[g].B \in 1..Len(wire)
          /\ o \in 1..Len(wire) /\ o > NumInputs
      BY <1>1, <2>2, NumberingFacts
    <2>5. /\ Driven(gate[g].A, k - 1)
          /\ gate[g].op # "INV" => Driven(gate[g].B, k - 1)
          /\ IsAssigned(o)
          /\ \A l \in 1..Len(assigned) : assigned[l] = g => l = k
      BY <1>1, <2>2 DEF Order, Taken, Numbering
    <2>6. /\ \A u \in 1..Len(wire) : wire[u].id < nextID
          /\ \A u, v \in 1..Len(wire) : IsAssigned(u) /\ wire[u].id = wire[v].id => u = v
          /\ \A w \in 1..NumInputs : wire[w].id = w - 1
      BY <1>1, <2>2 DEF Order, Ids, Numbering
    <2> HIDE DEF g, o, before
    <2>7. compiled[k].in0 \in before
      <3>1. wire[gate[g].A].id \in before
        BY <1>1, <2>4, <2>5, DrivenIsBefore DEF before
      <3> QED
        BY <2>2, <3>1 DEF Written
    <2>8. compiled[k].in1 \in before
      <3>1. CASE gate[g].op = "INV"
        <4>1. 0 \in before
          BY <2>3 DEF before
        <4> QED
          BY <2>2, <3>1, <4>1 DEF Written
      <3>2. CASE gate[g].op # "INV"
        <4>1. wire[gate[g].B].id \in before
          BY <1>1, <2>4, <2>5, <3>2, DrivenIsBefore DEF before
        <4> QED
          BY <2>2, <3>2, <4>1 DEF Written
      <3> QED
        BY <3>1, <3>2
    <2>9. compiled[k].out = wire[o].id /\ wire[o].id \in 0..(nextID - 1)
      <3>1. compiled[k].out = wire[o].id
        BY <2>2 DEF Written, o
      <3> QED
        BY <2>3, <2>4, <2>5, <2>6, <3>1 DEF IsAssigned
    <2>10. wire[o].id \notin 0..(NumInputs - 1)
      <3> SUFFICES ASSUME wire[o].id \in 0..(NumInputs - 1) PROVE FALSE
        OBVIOUS
      <3> DEFINE v == wire[o].id + 1
      <3>1. v \in 1..NumInputs /\ v \in 1..Len(wire) /\ v - 1 = wire[o].id
        BY <2>3
      <3>2. wire[v].id = v - 1
        BY <2>6, <3>1
      <3> HIDE DEF v
      <3>3. o = v
        BY <2>4, <2>5, <2>6, <3>1, <3>2
      <3> QED
        BY <2>3, <2>4, <3>1, <3>3
    <2>11. ASSUME NEW j \in 1..(k - 1), compiled[j].out = wire[o].id
           PROVE  FALSE
      <3>1. j \in 1..Len(compiled) /\ j # k
        BY <2>3
      <3>2. /\ assigned[j] \in 1..Len(gate) /\ compiled[j] = Written(assigned[j])
            /\ j \in 1..Len(assigned)
        BY <1>1, <3>1, WrittenFacts
      <3>3. wire[gate[assigned[j]].O].id = wire[o].id
        BY <2>11, <3>2 DEF Written
      <3>4. gate[assigned[j]].O \in 1..Len(wire)
        BY <1>1, <3>2, NumberingFacts
      <3>5. gate[assigned[j]].O = o
        BY <2>4, <2>5, <2>6, <3>3, <3>4
      <3>6. assigned[j] = g
        BY <1>1, <2>2, <3>2, <3>5, NumberingFacts DEF o
      <3> QED
        BY <2>5, <3>1, <3>2, <3>6
    <2>12. wire[o].id \notin before
      BY <2>10, <2>11 DEF before
    <2> QED
      BY <2>7, <2>8, <2>9, <2>12 DEF before
  <1> QED
    BY <1>1, NetlistInvariant, NetlistKept, NetlistOrder, PTL

(***************************************************************************)
(* What outputs depend on                                                  *)
(***************************************************************************)
\* A wire with one reader is read once.
LEMMA OneReader ==
  ASSUME NInv, KInv, NEW w \in 1..Len(wire), wire[w].num = 1, NEW g \in Alive, Reads(g, w)
  PROVE  /\ gate[g].A # gate[g].B
         /\ \A h \in Alive : Reads(h, w) => h = g
  <1> DEFINE a == As(gate)
             b == Bs(gate)
             S == Alive
             T == Alive \ {g}
  <1>1. Number(a, S, w) + Number(b, S, w) = 1
    BY DEF KInv, Counted
  <1>2. IsFiniteSet(S) /\ Alive \subseteq 1..Len(gate)
    BY NetlistFacts, AliveFinite
  <1>3. \A h \in S : a[h] = gate[h].A /\ b[h] = gate[h].B
    BY <1>2 DEF As, Bs
  <1> HIDE DEF a, b, S, T
  <1>4. g \in S /\ T = S \ {g}
    BY DEF S, T
  <1>5. /\ Number(a, T, w) = Number(a, S, w) - Is(a[g], w)
        /\ Number(b, T, w) = Number(b, S, w) - Is(b[g], w)
    <2>1. IsFiniteSet(S) /\ g \in S
      BY <1>2, <1>4
    <2>2. Number(a, S \ {g}, w) = Number(a, S, w) - Is(a[g], w)
      BY ONLY <2>1, NumberRemove
    <2>3. Number(b, S \ {g}, w) = Number(b, S, w) - Is(b[g], w)
      BY ONLY <2>1, NumberRemove
    <2> QED
      BY <1>4, <2>2, <2>3
  <1>6. IsFiniteSet(T)
    BY <1>2, <1>4, FS_Subset
  <1>7. /\ Number(a, T, w) \in Nat /\ Number(b, T, w) \in Nat
        /\ Number(a, T, w) > 0 <=> \E h \in T : a[h] = w
        /\ Number(b, T, w) > 0 <=> \E h \in T : b[h] = w
        /\ Number(a, S, w) \in Nat /\ Number(b, S, w) \in Nat
    <2>1. /\ Number(a, T, w) \in Nat /\ Number(b, T, w) \in Nat
          /\ Number(a, T, w) > 0 <=> \E h \in T : a[h] = w
          /\ Number(b, T, w) > 0 <=> \E h \in T : b[h] = w
      BY ONLY <1>6, NumberIsNat
    <2>2. IsFiniteSet(S)
      BY <1>2
    <2>3. Number(a, S, w) \in Nat /\ Number(b, S, w) \in Nat
      BY ONLY <2>2, NumberIsNat
    <2> QED
      BY ONLY <2>1, <2>3
  <1>8. a[g] = w \/ b[g] = w
    BY <1>3, <1>4 DEF Reads
  <1>9. /\ Is(a[g], w) = IF a[g] = w THEN 1 ELSE 0
        /\ Is(b[g], w) = IF b[g] = w THEN 1 ELSE 0
    BY DEF Is
  <1>10. /\ Number(a, T, w) = 0 /\ Number(b, T, w) = 0
         /\ ~(a[g] = w /\ b[g] = w)
    <2> DEFINE n1 == Number(a, S, w)
               n2 == Number(b, S, w)
               t1 == Number(a, T, w)
               t2 == Number(b, T, w)
    <2>1. n1 + n2 = 1 /\ n1 \in Nat /\ n2 \in Nat /\ t1 \in Nat /\ t2 \in Nat
      BY <1>1, <1>7
    <2>2. t1 = n1 - Is(a[g], w) /\ t2 = n2 - Is(b[g], w)
      BY <1>5
    <2> HIDE DEF n1, n2, t1, t2
    <2>3. t1 = 0 /\ t2 = 0 /\ ~(a[g] = w /\ b[g] = w)
      BY <1>8, <1>9, <2>1, <2>2
    <2> QED
      BY <2>3 DEF t1, t2
  <1>11. gate[g].A # gate[g].B
    BY <1>3, <1>4, <1>8, <1>10
  <1>12. ASSUME NEW h \in Alive, Reads(h, w), h # g PROVE FALSE
    <2>1. h \in T /\ h \in S
      BY <1>12 DEF T, S
    <2>2. a[h] = w \/ b[h] = w
      BY <1>3, <1>12, <2>1 DEF Reads
    <2> QED
      BY <1>7, <1>10, <2>1, <2>2
  <1> QED
    BY <1>11, <1>12

\* Wires that are inputs or driven by a gate that is not dead.
Sourced(w) == w <= NumInputs \/ \E p \in Alive : gate[p].O = w

\* Gates that drive an output or a wire that is read.
Used(g) == Output(gate[g].O) \/ wire[gate[g].O].num > 0

\* What is used is driven: ShortCircuitXORZero leaves gates that read a wire
\* nobody drives, but nothing depends on them.
Fed ==
    /\ \A g \in Alive :
         Used(g) => /\ Sourced(gate[g].A)
                    /\ gate[g].op # "INV" => Sourced(gate[g].B)
    /\ \A k \in 1..Len(outputs) : Sourced(outputs[k])

\* A gate whose output was exchanged drives an unread wire, or was skipped to
\* by the only reader of its wire.
Swaps ==
    phase \in {"xorA", "xorB"} =>
      \A p \in 1..Len(gate) :
        \/ gate[p].O = NumInputs + p
        \/ wire[gate[p].O].num = 0
        \/ /\ wire[NumInputs + p].num = 1
           /\ \A h \in 1..Len(gate) :
                Reads(h, NumInputs + p) =>
                  h < i \/ (phase = "xorB" /\ h = i /\ gate[h].B = NumInputs + p)

\* What builders make and ConstPropagate rewires is all driven.
Early == phase \in Building => Fed

\* What a dead gate may miss is not needed before outputs are exchanged.
LEMMA EarlyFed ==
  ASSUME NInv, KInv
  PROVE  Early
  <1> SUFFICES ASSUME phase \in Building PROVE Fed
    BY DEF Early
  <1>1. /\ NumInputs \in Nat /\ Len(gate) \in Nat /\ Len(wire) = NumInputs + Len(gate)
        /\ \A g \in 1..Len(gate) : /\ gate[g].A \in 1..Len(wire)
                                   /\ gate[g].O = NumInputs + g
    BY GateOrder
  <1>2. Alive = 1..Len(gate)
    BY DEF Alive, KInv, Structure, Listing, Building, Numbering
  <1>3. \A w \in 1..Len(wire) : Sourced(w)
    <2> SUFFICES ASSUME NEW w \in 1..Len(wire), ~(w <= NumInputs)
                 PROVE  \E p \in 1..Len(gate) : gate[p].O = w
      BY <1>2 DEF Sourced
    <2>1. w - NumInputs \in 1..Len(gate) /\ NumInputs + (w - NumInputs) = w
      BY <1>1
    <2> QED
      BY <1>1, <2>1
  <1>4. \A g \in 1..Len(gate) : gate[g].op # "INV" => gate[g].B \in 1..Len(wire)
    BY GateFacts
  <1>5. \A k \in 1..Len(outputs) : outputs[k] \in 1..Len(wire)
    BY NumberingFacts
  <1> QED
    BY <1>1, <1>2, <1>3, <1>4, <1>5 DEF Fed

\* What ShortCircuitXORZero does: gate p still drives its own wire, which only
\* the gate the loop is at reads.
LEMMA SkipExact ==
  ASSUME NInv, KInv, Swaps, SkipByA \/ SkipByB
  PROVE  /\ phase \in {"xorA", "xorB"} /\ i \in 1..Len(gate) /\ dead = {}
         /\ UNCHANGED <<dead, outputs>>
         /\ \/ phase = "xorA" /\ phase' = "xorB" /\ i' = i
            \/ phase = "xorB" /\ phase' = "xorA" /\ i' = i + 1
         /\ \/ UNCHANGED <<gate, wire>>
            \/ \E p \in 1..Len(gate) :
                 /\ p < i /\ gate[p].O = NumInputs + p /\ wire[NumInputs + p].num = 1
                 /\ NumInputs + p \in 1..Len(wire)
                 /\ \A h \in 1..Len(gate) : Reads(h, NumInputs + p) <=> h = i
                 /\ phase = "xorA" => gate[i].B = NumInputs + p
                 /\ gate[i].op = "XOR"
                 /\ ExchangedWires(wire, wire') /\ ExchangedGates(wire, gate, p, i, gate')
  <1>1. /\ phase \in {"xorA", "xorB"}
        /\ UNCHANGED <<dead, outputs>>
        /\ \/ phase = "xorA" /\ InLoop /\ phase' = "xorB" /\ i' = i
           \/ phase = "xorB" /\ phase' = "xorA" /\ i' = i + 1
        /\ \E zero, x : /\ SkipXORZero(zero, x)
                        /\ \/ phase = "xorA" /\ zero = gate[G].A /\ x = gate[G].B
                           \/ phase = "xorB" /\ zero = gate[G].B /\ x = gate[G].A
    BY DEF SkipByA, SkipByB, SkipXORZero
  <1>2. /\ Len(list) = Len(gate) /\ (i \in 1..Len(gate) => G = i) /\ dead = {}
        /\ phase = "xorB" => i \in 1..Len(gate)
    BY <1>1, AtGate DEF Numbering, KInv, Structure, Listing
  <1>3. i \in 1..Len(gate) /\ G = i
    BY <1>1, <1>2 DEF InLoop
  <1>4. PICK zero, x : /\ SkipXORZero(zero, x)
                       /\ \/ phase = "xorA" /\ zero = gate[G].A /\ x = gate[G].B
                          \/ phase = "xorB" /\ zero = gate[G].B /\ x = gate[G].A
    BY <1>1
  <1>5. CASE ~Skippable(zero, x)
    BY <1>1, <1>2, <1>3, <1>4, <1>5 DEF SkipXORZero
  <1>6. CASE Skippable(zero, x)
    <2> DEFINE p == wire[x].input
    <2>1. /\ gate[i].op = "XOR" /\ p # Nil /\ wire[gate[p].O].num = 1
      BY <1>3, <1>6 DEF Skippable
    <2>2. \/ UNCHANGED <<gate, wire>>
          \/ /\ x \in 1..Len(wire) /\ p \in 1..Len(gate) /\ p < i
             /\ ExchangedWires(wire, wire') /\ ExchangedGates(wire, gate, p, i, gate')
      BY <1>1, <1>3, <1>4, SkipIs
    <2>3. ASSUME x \in 1..Len(wire), p \in 1..Len(gate), p < i
          PROVE  /\ gate[p].O = NumInputs + p /\ wire[NumInputs + p].num = 1
                 /\ NumInputs + p \in 1..Len(wire)
                 /\ \A h \in 1..Len(gate) : Reads(h, NumInputs + p) <=> h = i
                 /\ phase = "xorA" => gate[i].B = NumInputs + p
      <3>1. x = NumInputs + p /\ NumInputs \in Nat
        <4>1. p = IF x \in (NumInputs + 1)..(NumInputs + Len(gate)) THEN x - NumInputs ELSE Nil
          BY <2>3 DEF KInv, Structure, Shape, Wired
        <4> QED
          BY <2>1, <2>3, <4>1, NetlistAssumption
      <3>2. Reads(i, x) /\ (phase = "xorA" => gate[i].B = x)
        BY <1>3, <1>4 DEF Reads
      <3>3. Alive = 1..Len(gate)
        BY <1>2 DEF Alive
      <3> HIDE DEF p
      <3>4. gate[p].O = x
        <4> SUFFICES ASSUME gate[p].O # x PROVE FALSE
          OBVIOUS
        <4>1. wire[x].num = 1 /\ \A h \in 1..Len(gate) :
                Reads(h, x) => h < i \/ (phase = "xorB" /\ h = i /\ gate[h].B = x)
          BY <1>1, <2>1, <2>3, <3>1 DEF Swaps
        <4>2. ~(i < i)
          BY <1>3
        <4>3. phase = "xorB" /\ gate[i].B = x
          BY <1>3, <3>2, <4>1, <4>2
        <4>4. gate[i].A = x
          BY <1>3, <1>4, <4>3
        <4>5. gate[i].A # gate[i].B
          BY <1>3, <2>3, <3>2, <3>3, <4>1, OneReader
        <4> QED
          BY <4>3, <4>4, <4>5
      <3>5. wire[x].num = 1
        BY <2>1, <3>4
      <3>6. \A h \in 1..Len(gate) : Reads(h, x) => h = i
        BY <1>3, <2>3, <3>2, <3>3, <3>5, OneReader
      <3> QED
        BY <2>3, <3>1, <3>2, <3>4, <3>5, <3>6
    <2> HIDE DEF p
    <2> QED
      BY <1>1, <1>2, <1>3, <2>1, <2>2, <2>3
  <1> QED
    BY <1>5, <1>6

\* What reads a wire after an exchange of outputs.
LEMMA ExchangedReads ==
  ASSUME NEW p, ExchangedGates(wire, gate, p, i, gate')
  PROVE  \A h \in 1..Len(gate) : \A w :
           (gate'[h].A = w \/ gate'[h].B = w) <=> Reads(h, w)
  BY DEF ExchangedGates, Reads

\* Exchanged outputs stay as they were described.
LEMMA NextSwaps ==
  ASSUME NInv, KInv, Swaps, [Next]_vars
  PROVE  Swaps'
  <1>1. CASE phase' \notin {"xorA", "xorB"}
    BY <1>1 DEF Swaps
  <1>2. CASE ConstDone
    <2>1. phase \in Building /\ UNCHANGED <<wire, gate>>
      BY <1>2 DEF ConstDone, netlist, Building
    <2>2. \A p \in 1..Len(gate) : gate[p].O = NumInputs + p
      BY <2>1, GateOrder
    <2> QED
      BY <2>1, <2>2 DEF Swaps
  <1>3. CASE SkipByA \/ SkipByB
    <2>1. /\ phase \in {"xorA", "xorB"} /\ i \in 1..Len(gate)
          /\ \/ phase = "xorA" /\ phase' = "xorB" /\ i' = i
             \/ phase = "xorB" /\ phase' = "xorA" /\ i' = i + 1
          /\ \/ UNCHANGED <<gate, wire>>
             \/ \E p \in 1..Len(gate) :
                  /\ p < i /\ gate[p].O = NumInputs + p /\ wire[NumInputs + p].num = 1
                  /\ NumInputs + p \in 1..Len(wire)
                  /\ \A h \in 1..Len(gate) : Reads(h, NumInputs + p) <=> h = i
                  /\ phase = "xorA" => gate[i].B = NumInputs + p
                  /\ ExchangedWires(wire, wire') /\ ExchangedGates(wire, gate, p, i, gate')
      BY <1>3, SkipExact
    <2>2. /\ NumInputs \in Nat /\ Len(gate) \in Nat /\ Len(wire) \in Nat
          /\ Len(wire) >= NumInputs + Len(gate)
          /\ \A q \in 1..Len(gate) : gate[q].O \in 1..Len(wire) /\ NumInputs + q \in 1..Len(wire)
      BY GateOrder
    <2>3. ASSUME NEW h \in 1..Len(gate)
          PROVE  /\ h < i => h < i'
                 /\ h = i => h < i' \/ (phase = "xorA" /\ phase' = "xorB" /\ i' = i)
      BY <2>1
    <2>4. \A q \in 1..Len(gate) :
            \/ gate[q].O = NumInputs + q
            \/ wire[gate[q].O].num = 0
            \/ /\ wire[NumInputs + q].num = 1
               /\ \A h \in 1..Len(gate) :
                    Reads(h, NumInputs + q) =>
                      h < i \/ (phase = "xorB" /\ h = i /\ gate[h].B = NumInputs + q)
      BY <2>1 DEF Swaps
    <2>5. \A q \in 1..Len(gate) :
            \/ gate[q].O = NumInputs + q
            \/ wire[gate[q].O].num = 0
            \/ /\ wire[NumInputs + q].num = 1
               /\ \A h \in 1..Len(gate) : Reads(h, NumInputs + q) => h < i'
      <3> TAKE q \in 1..Len(gate)
      <3>1. \A h \in 1..Len(gate) :
              h < i \/ (phase = "xorB" /\ h = i /\ gate[h].B = NumInputs + q) => h < i'
        BY <2>1, <2>3
      <3> QED
        BY <2>4, <3>1
    <2>6. CASE UNCHANGED <<gate, wire>>
      BY <2>1, <2>5, <2>6 DEF Swaps, Reads
    <2>7. CASE \E p \in 1..Len(gate) :
                 /\ p < i /\ gate[p].O = NumInputs + p /\ wire[NumInputs + p].num = 1
                 /\ NumInputs + p \in 1..Len(wire)
                 /\ \A h \in 1..Len(gate) : Reads(h, NumInputs + p) <=> h = i
                 /\ phase = "xorA" => gate[i].B = NumInputs + p
                 /\ ExchangedWires(wire, wire') /\ ExchangedGates(wire, gate, p, i, gate')
      <3>1. PICK p \in 1..Len(gate) :
                 /\ p < i /\ gate[p].O = NumInputs + p /\ wire[NumInputs + p].num = 1
                 /\ NumInputs + p \in 1..Len(wire)
                 /\ \A h \in 1..Len(gate) : Reads(h, NumInputs + p) <=> h = i
                 /\ phase = "xorA" => gate[i].B = NumInputs + p
                 /\ ExchangedWires(wire, wire') /\ ExchangedGates(wire, gate, p, i, gate')
        BY <2>7
      <3>2. /\ Len(gate') = Len(gate)
            /\ \A q \in 1..Len(gate) :
                 gate'[q].O = IF q = i THEN Len(wire) + 1
                              ELSE IF q = p THEN gate[i].O ELSE gate[q].O
            /\ \A h \in 1..Len(gate) : gate'[h].A = gate[h].A /\ gate'[h].B = gate[h].B
        BY <3>1 DEF ExchangedGates
      <3>3. /\ \A u \in 1..Len(wire) : wire'[u].num = wire[u].num
            /\ wire'[Len(wire) + 1].num = 0
        BY <3>1 DEF ExchangedWires
      <3>4. \A h \in 1..Len(gate) : \A w : (Reads(h, w))' <=> Reads(h, w)
        BY <3>2 DEF Reads
      <3>5. ASSUME NEW q \in 1..Len(gate)
            PROVE  \/ gate'[q].O = NumInputs + q
                   \/ wire'[gate'[q].O].num = 0
                   \/ /\ wire'[NumInputs + q].num = 1
                      /\ \A h \in 1..Len(gate) : Reads(h, NumInputs + q) =>
                           h < i' \/ (phase' = "xorB" /\ h = i' /\ gate[h].B = NumInputs + q)
        <4>1. CASE q = i
          BY <3>2, <3>3, <4>1
        <4>2. CASE q = p
          <5>1. wire'[NumInputs + q].num = 1
            BY <3>1, <3>3, <4>2
          <5>2. i < i' \/ (phase' = "xorB" /\ i = i' /\ gate[i].B = NumInputs + q)
            BY <2>1, <2>3, <3>1, <4>2
          <5> QED
            BY <3>1, <4>2, <5>1, <5>2
        <4>3. CASE q # i /\ q # p
          <5>1. gate'[q].O = gate[q].O /\ wire'[gate[q].O].num = wire[gate[q].O].num
                /\ wire'[NumInputs + q].num = wire[NumInputs + q].num
            BY <2>2, <3>2, <3>3, <4>3
          <5> QED
            BY <2>5, <5>1
        <4> QED
          BY <4>1, <4>2, <4>3
      <3> QED
        BY <3>2, <3>4, <3>5 DEF Swaps, Reads
    <2> QED
      BY <2>1, <2>6, <2>7
  <1>4. CASE UNCHANGED vars
    BY <1>4 DEF vars, Swaps, Reads
  <1> QED
    BY <1>1, <1>2, <1>3, <1>4 DEF Next, Build, Ret, Start, FoldConst, Redirect, Disconnect, Rewire,
       XORDone, PruneGate, PruneDone, AssignInput, Visit, AssignGate, AssignOutputs, EmitGate,
       EmitDone

\* After an exchange of outputs what is used is still driven.
LEMMA SkipFed ==
  ASSUME NInv, KInv, Swaps, Fed, SkipByA \/ SkipByB
  PROVE  Fed'
  <1>1. /\ i \in 1..Len(gate) /\ dead = {} /\ UNCHANGED <<dead, outputs>>
        /\ \/ UNCHANGED <<gate, wire>>
           \/ \E p \in 1..Len(gate) :
                /\ p < i /\ gate[p].O = NumInputs + p /\ wire[NumInputs + p].num = 1
                /\ NumInputs + p \in 1..Len(wire)
                /\ \A h \in 1..Len(gate) : Reads(h, NumInputs + p) <=> h = i
                /\ ExchangedWires(wire, wire') /\ ExchangedGates(wire, gate, p, i, gate')
    BY SkipExact
  <1>2. /\ Len(gate) \in Nat /\ Len(wire) \in Nat
        /\ \A q \in 1..Len(gate) : gate[q].O \in 1..Len(wire)
        /\ \A k \in 1..Len(outputs) : outputs[k] \in 1..Len(wire)
    BY GateOrder, NumberingFacts
  <1>3. CASE UNCHANGED <<gate, wire>>
    BY <1>1, <1>3 DEF Fed, Used, Sourced, Alive, Output
  <1>4. ASSUME NEW p \in 1..Len(gate),
               p < i, gate[p].O = NumInputs + p, wire[NumInputs + p].num = 1,
               NumInputs + p \in 1..Len(wire),
               \A h \in 1..Len(gate) : Reads(h, NumInputs + p) <=> h = i,
               ExchangedWires(wire, wire'), ExchangedGates(wire, gate, p, i, gate')
        PROVE  Fed'
    <2>1. /\ Len(gate') = Len(gate) /\ i # p
          /\ \A q \in 1..Len(gate) :
               gate'[q].O = IF q = i THEN Len(wire) + 1
                            ELSE IF q = p THEN gate[i].O ELSE gate[q].O
          /\ \A h \in 1..Len(gate) : /\ gate'[h].A = gate[h].A /\ gate'[h].B = gate[h].B
                                     /\ gate'[h].op = gate[h].op
      BY <1>1, <1>4 DEF ExchangedGates
    <2>2. /\ \A u \in 1..Len(wire) : wire'[u].num = wire[u].num
          /\ wire'[Len(wire) + 1].num = 0
      BY <1>4 DEF ExchangedWires
    <2>3. Alive = 1..Len(gate) /\ Alive' = 1..Len(gate)
      BY <1>1, <2>1 DEF Alive
    <2> DEFINE Driving(w) == w <= NumInputs \/ \E q \in 1..Len(gate) : gate'[q].O = w
               Using(g) == Output(gate'[g].O) \/ wire'[gate'[g].O].num > 0
    <2>4. ASSUME NEW w, Sourced(w), w # NumInputs + p
          PROVE  Driving(w)
      <3>1. CASE w <= NumInputs
        BY <3>1
      <3>2. CASE \E q \in Alive : gate[q].O = w
        <4>1. PICK q \in 1..Len(gate) : gate[q].O = w
          BY <2>3, <3>2
        <4>2. q # p
          BY <1>4, <2>4, <4>1
        <4>3. CASE q = i
          BY <2>1, <4>1, <4>3
        <4>4. CASE q # i
          BY <2>1, <4>1, <4>2, <4>4
        <4> QED
          BY <4>3, <4>4
      <3> QED
        BY <2>4, <3>1, <3>2 DEF Sourced
    <2>5. ~Output(Len(wire) + 1)
      BY <1>2 DEF Output
    <2>6. ASSUME NEW g \in 1..Len(gate), Using(g)
          PROVE  g # i /\ Used(g)
      <3>1. g # i
        <4> SUFFICES ASSUME g = i PROVE FALSE
          OBVIOUS
        <4>1. gate'[g].O = Len(wire) + 1
          BY <2>1
        <4>2. ~(wire'[gate'[g].O].num > 0)
          BY <2>2, <4>1
        <4> QED
          BY <2>5, <2>6, <4>1, <4>2
      <3>2. CASE g = p
        BY <1>4, <3>2 DEF Used
      <3>3. CASE g # p
        <4>1. gate'[g].O = gate[g].O /\ gate[g].O \in 1..Len(wire)
          BY <1>2, <2>1, <3>1, <3>3
        <4>2. wire'[gate'[g].O].num = wire[gate[g].O].num
          BY <2>2, <4>1
        <4>3. Output(gate'[g].O) \/ wire'[gate'[g].O].num > 0
          BY <2>6
        <4>4. Output(gate[g].O) \/ wire[gate[g].O].num > 0
          BY <4>1, <4>2, <4>3
        <4> QED
          BY <3>1, <4>4 DEF Used
      <3> QED
        BY <3>1, <3>2, <3>3
    <2>7. ASSUME NEW g \in 1..Len(gate), Using(g)
          PROVE  Driving(gate[g].A) /\ (gate[g].op # "INV" => Driving(gate[g].B))
      <3>1. g # i /\ Used(g)
        BY <2>6, <2>7
      <3>2. gate[g].A # NumInputs + p /\ gate[g].B # NumInputs + p
        BY <1>4, <3>1 DEF Reads
      <3>3. Sourced(gate[g].A) /\ (gate[g].op # "INV" => Sourced(gate[g].B))
        BY <2>3, <3>1 DEF Fed
      <3> HIDE DEF Driving
      <3> QED
        BY <2>4, <3>2, <3>3
    <2>8. ASSUME NEW k \in 1..Len(outputs) PROVE Driving(outputs[k])
      <3>1. outputs[k] # NumInputs + p
        <4>1. gate[i].A # outputs[k] /\ gate[i].B # outputs[k]
          BY <1>1, <2>8 DEF KInv, Structure, OutputsFree
        <4>2. Reads(i, NumInputs + p)
          BY <1>1, <1>4
        <4> QED
          BY <4>1, <4>2 DEF Reads
      <3>2. Sourced(outputs[k])
        BY <2>8 DEF Fed
      <3> HIDE DEF Driving
      <3> QED
        BY <2>4, <3>1, <3>2
    <2>9. \A g \in 1..Len(gate) : Used(g)' => Using(g)
      BY <1>1 DEF Used, Output
    <2>10. \A w : Driving(w) => (w <= NumInputs \/ \E q \in Alive' : gate'[q].O = w)
      BY <2>3
    <2> HIDE DEF Driving, Using
    <2>11. \A g \in Alive' :
             Used(g)' => /\ Driving(gate'[g].A)
                         /\ gate'[g].op # "INV" => Driving(gate'[g].B)
      BY <2>1, <2>3, <2>7, <2>9
    <2>12. \A k \in 1..Len(outputs') : Driving(outputs'[k])
      BY <1>1, <2>8
    <2> QED
      BY <2>10, <2>11, <2>12 DEF Fed, Sourced
  <1> QED
    BY <1>1, <1>3, <1>4

\* Prune removes no gate that is needed.
LEMMA PruneFed ==
  ASSUME NInv, KInv, Fed, PruneGate
  PROVE  Fed'
  <1>1. /\ i \in 1..Len(gate) /\ i \in Alive /\ UNCHANGED <<gate, outputs>>
        /\ \/ /\ ~Output(gate[i].O) /\ wire[gate[i].O].num <= 0 /\ dead' = dead \cup {i}
              /\ Released(wire, wire', gate[i].A, gate[i].B)
           \/ UNCHANGED <<dead, wire>>
    BY PruneIs
  <1>2. /\ \A q \in 1..Len(gate) : gate[q].O \in 1..Len(wire)
        /\ \A u \in 1..Len(wire) : wire[u].num \in Nat
    BY GateOrder, NumReads
  <1>3. CASE UNCHANGED <<dead, wire>>
    BY <1>1, <1>3 DEF Fed, Used, Sourced, Alive, Output
  <1>4. CASE /\ ~Output(gate[i].O) /\ wire[gate[i].O].num <= 0 /\ dead' = dead \cup {i}
             /\ Released(wire, wire', gate[i].A, gate[i].B)
    <2> DEFINE Driving(w) == w <= NumInputs \/ \E q \in Alive \ {i} : gate[q].O = w
    <2>1. /\ Alive' = Alive \ {i} /\ Alive \subseteq 1..Len(gate)
      BY <1>1, <1>4 DEF Alive
    <2>2. ASSUME NEW w, Sourced(w), w # gate[i].O
          PROVE  Driving(w)
      BY <2>2 DEF Sourced
    <2> HIDE DEF Driving
    <2>3. \A h \in Alive : ~Reads(h, gate[i].O)
      <3>1. ~(wire[gate[i].O].num > 0) /\ gate[i].O \in 1..Len(wire)
        BY <1>1, <1>2, <1>4
      <3> QED
        BY <3>1, NumReads
    <2>4. ASSUME NEW g \in Alive \ {i}, Used(g)'
          PROVE  Used(g)
      <3>1. gate[g].O \in 1..Len(wire)
        BY <1>2, <2>1
      <3>2. CASE wire'[gate[g].O].num > 0
        <4>1. wire'[gate[g].O].num
                = (wire[gate[g].O].num - Is(gate[i].A, gate[g].O)) - Is(gate[i].B, gate[g].O)
          BY <1>4, <3>1 DEF Released
        <4>2. Is(gate[i].A, gate[g].O) \in {0, 1} /\ Is(gate[i].B, gate[g].O) \in {0, 1}
          BY DEF Is
        <4>3. wire[gate[g].O].num \in Nat
          BY <1>2, <3>1
        <4>4. wire[gate[g].O].num > 0
          BY <3>2, <4>1, <4>2, <4>3
        <4> QED
          BY <4>4 DEF Used
      <3>3. CASE Output(gate[g].O)
        BY <3>3 DEF Used
      <3> QED
        BY <1>1, <2>4, <3>2, <3>3 DEF Used, Output
    <2>5. ASSUME NEW g \in Alive \ {i}, Used(g)'
          PROVE  Driving(gate[g].A) /\ (gate[g].op # "INV" => Driving(gate[g].B))
      <3>1. Used(g) /\ g \in Alive
        BY <2>4, <2>5
      <3>2. Sourced(gate[g].A) /\ (gate[g].op # "INV" => Sourced(gate[g].B))
        BY <3>1 DEF Fed
      <3>3. gate[g].A # gate[i].O /\ gate[g].B # gate[i].O
        BY <2>3, <3>1 DEF Reads
      <3> QED
        BY <2>2, <3>2, <3>3
    <2>6. ASSUME NEW k \in 1..Len(outputs) PROVE Driving(outputs[k])
      <3>1. outputs[k] # gate[i].O
        BY <1>4 DEF Output
      <3>2. Sourced(outputs[k])
        BY DEF Fed
      <3> QED
        BY <2>2, <3>1, <3>2
    <2>7. \A w : Driving(w) => (w <= NumInputs \/ \E q \in Alive' : gate'[q].O = w)
      BY <1>1, <2>1 DEF Driving
    <2>8. /\ \A g \in Alive' : Used(g)' => /\ Driving(gate'[g].A)
                                           /\ gate'[g].op # "INV" => Driving(gate'[g].B)
          /\ \A k \in 1..Len(outputs') : Driving(outputs'[k])
      BY <1>1, <2>1, <2>5, <2>6
    <2> QED
      BY <2>7, <2>8 DEF Fed, Sourced
  <1> QED
    BY <1>1, <1>3, <1>4

\* What is used is driven after every step.
LEMMA NextFed ==
  ASSUME NInv, KInv, Swaps, Fed, Early', [Next]_vars
  PROVE  Fed'
  <1>1. CASE phase' \in Building
    BY <1>1 DEF Early
  <1>2. CASE SkipByA \/ SkipByB
    BY <1>2, SkipFed
  <1>3. CASE PruneGate
    BY <1>3, PruneFed
  <1>4. CASE ConstDone \/ XORDone \/ PruneDone \/ UNCHANGED vars
    <2>1. UNCHANGED <<wire, gate, dead, outputs>>
      BY <1>4 DEF ConstDone, XORDone, PruneDone, vars, netlist
    <2> QED
      BY <2>1 DEF Fed, Used, Sourced, Alive, Output
  <1>5. CASE AssignInput \/ Visit \/ AssignGate \/ AssignOutputs \/ EmitGate \/ EmitDone
    <2>1. SameReaders(wire, wire') /\ UNCHANGED <<gate, dead, outputs>>
      BY <1>5, CompileReaders
    <2>2. \A g \in Alive : wire'[gate[g].O].num = wire[gate[g].O].num
      BY <2>1, GateOrder DEF Alive, SameReaders
    <2> QED
      BY <2>1, <2>2 DEF Fed, Used, Sourced, Alive, Output
  <1> QED
    BY <1>1, <1>2, <1>3, <1>4, <1>5 DEF Next, Build, Ret, Start, FoldConst, Redirect, Disconnect,
       Rewire, Building

\* Initially.
LEMMA InitFed ==
  ASSUME Init
  PROVE  Swaps /\ Fed
  <1>1. NInv /\ KInv /\ phase = "build"
    BY InitInvariant, InitStructure DEF Init
  <1> QED
    BY <1>1, EarlyFed DEF Swaps, Early, Building

\* The outputs, and what they depend on, stay driven through every pass.
THEOREM NetlistFed == Spec => []Fed
  <1>1. Init => Swaps /\ Fed
    BY InitFed
  <1>2. NInv /\ KInv => Early
    BY EarlyFed
  <1>3. NInv /\ KInv /\ Swaps /\ [Next]_vars => Swaps'
    BY NextSwaps
  <1>4. NInv /\ KInv /\ Swaps /\ Fed /\ Early' /\ [Next]_vars => Fed'
    BY NextFed
  <1> QED
    BY <1>1, <1>2, <1>3, <1>4, NetlistInvariant, NetlistKept, PTL DEF Spec

(***************************************************************************)
(* No gate that is needed is missed                                        *)
(***************************************************************************)
In(s, x) == \E k \in 1..Len(s) : s[k] = x

\* What is in a list without its first element, and with one more.
LEMMA InTail ==
  ASSUME NEW T, NEW s \in Seq(T), s # <<>>, NEW x, In(s, x)
  PROVE  x = Head(s) \/ In(Tail(s), x)
  <1>1. PICK k \in 1..Len(s) : s[k] = x
    BY DEF In
  <1>2. CASE k = 1
    BY <1>1, <1>2
  <1>3. CASE k # 1
    <2>1. k - 1 \in 1..Len(Tail(s)) /\ Tail(s)[k - 1] = s[k]
      BY <1>3
    <2> QED
      BY <1>1, <2>1 DEF In
  <1> QED
    BY <1>2, <1>3

\* A list with one more element has its elements, and that one.
LEMMA InAppend ==
  ASSUME NEW T, NEW s \in Seq(T), NEW e \in T, NEW x, In(s, x) \/ x = e
  PROVE  In(Append(s, e), x)
  <1> DEFINE t == Append(s, e)
  <1>1. /\ Len(t) = Len(s) + 1 /\ t[Len(s) + 1] = e /\ Len(s) \in Nat
        /\ \A k \in 1..Len(s) : t[k] = s[k]
    OBVIOUS
  <1> HIDE DEF t
  <1>2. CASE In(s, x)
    <2>1. PICK k \in 1..Len(s) : s[k] = x
      BY <1>2 DEF In
    <2>2. k \in 1..Len(t) /\ t[k] = x
      BY <1>1, <2>1
    <2>3. In(t, x)
      BY <2>2 DEF In
    <2> QED
      BY <2>3 DEF t
  <1>3. CASE x = e
    <2>1. Len(s) + 1 \in 1..Len(t) /\ t[Len(s) + 1] = x
      BY <1>1, <1>3
    <2>2. In(t, x)
      BY <2>1 DEF In
    <2> QED
      BY <2>2 DEF t
  <1> QED
    BY <1>2, <1>3

\* The operands of a gate are numbered.
Operands(g) == IsAssigned(gate[g].A) /\ (gate[g].op # "INV" => IsAssigned(gate[g].B))

\* A gate whose operands are numbered has been visited or is about to be; what
\* has been visited waits or has been taken.
Reached ==
    phase = "assign" =>
      /\ \A g \in Alive : Operands(g) => g \in visited \/ In(todo, g)
      /\ \A g \in visited : g \in dead \/ In(pending, g) \/ In(assigned, g)

\* When a wire is numbered its readers are about to be visited.
LEMMA ReadersReached ==
  ASSUME NInv, KInv, Reached, phase = "assign", todo = <<>>, NEW w \in 1..Len(wire),
         AssignWire(w), ~Output(w), UNCHANGED <<gate, dead>>
  PROVE  \A g \in Alive : Operands(g)' => g \in visited \/ In(todo', g)
  <1> SUFFICES ASSUME NEW g \in Alive, Operands(g)' PROVE g \in visited \/ In(todo', g)
    OBVIOUS
  <1>1. /\ todo' = wire[w].readers
        /\ \A u \in 1..Len(wire) : u # w => wire'[u].id = wire[u].id
    BY AssignWireReaders
  <1>2. /\ g \in 1..Len(gate) /\ gate[g].A \in 1..Len(wire)
        /\ gate[g].op # "INV" => gate[g].B \in 1..Len(wire)
    BY GateFacts DEF Alive
  <1>3. CASE Reads(g, w)
    <2>1. Occurrences(wire[w].readers, g) > 0
      BY <1>2, <1>3 DEF KInv, Structure, Shape, Listed, Reads
    <2>2. wire[w].readers \in Seq(1..Len(gate))
      BY NetlistFacts
    <2> DEFINE s == wire[w].readers
    <2>3. IsFiniteSet(1..Len(s))
      <3>1. Len(s) \in Nat
        BY <2>2
      <3> HIDE DEF s
      <3> QED
        BY <3>1, FS_Interval
    <2>4. Number(s, 1..Len(s), g) > 0
      BY <2>1 DEF Occurrences
    <2> HIDE DEF s
    <2>5. \E k \in 1..Len(s) : s[k] = g
      BY <2>3, <2>4, NumberIsNat
    <2> QED
      BY <1>1, <2>5 DEF In, s
  <1>4. CASE ~Reads(g, w)
    <2>1. /\ gate[g].A # w /\ gate[g].B # w
      BY <1>4 DEF Reads
    <2>2. Operands(g)
      BY <1>1, <1>2, <2>1 DEF Operands, IsAssigned
    <2>3. ~In(todo, g)
      BY DEF In
    <2> QED
      BY <2>2, <2>3 DEF Reached
  <1> QED
    BY <1>3, <1>4

\* Every step keeps the readers of numbered wires in reach.
LEMMA NextReached ==
  ASSUME NInv, KInv, Fresh, Order, Reached, [Next]_vars
  PROVE  Reached'
  <1>1. CASE phase' # "assign"
    BY <1>1 DEF Reached
  <1>2. CASE XORDone \/ PruneDone
    <2>1. phase \notin Numbering /\ UNCHANGED <<wire, gate, dead, visited>>
      BY <1>2 DEF XORDone, PruneDone, Numbering, netlist, numbering
    <2>2. visited = {}
      BY <2>1 DEF Order, Unstarted
    <2>3. \A g \in Alive : ~IsAssigned(gate[g].A)
      <3>1. \A g \in Alive : gate[g].A \in 1..Len(wire)
        BY NumberingFacts DEF Alive
      <3> QED
        BY <2>1, <3>1 DEF Fresh, IsAssigned
    <2> QED
      BY <2>1, <2>2, <2>3 DEF Reached, Operands, Alive, IsAssigned
  <1>3. CASE AssignInput
    <2>1. /\ phase = "assign" /\ todo = <<>> /\ AssignWire(i) /\ i <= NumInputs
          /\ UNCHANGED <<gate, dead, visited, pending, assigned>>
      BY <1>3 DEF AssignInput
    <2>2. i \in 1..Len(wire) /\ ~Output(i)
      <3>1. i \in 1..NumInputs
        BY <2>1, NumberingFacts DEF NInv, LoopsSound
      <3> QED
        BY <3>1, NumberingFacts
    <2>3. \A g \in Alive : Operands(g)' => g \in visited \/ In(todo', g)
      BY <2>1, <2>2, ReadersReached
    <2> QED
      BY <2>1, <2>3 DEF Reached, Alive
  <1>4. CASE Visit
    <2>1. /\ phase = "assign" /\ todo # <<>> /\ todo' = Tail(todo)
          /\ IF Visitable(Head(todo))
             THEN visited' = visited \cup {Head(todo)} /\ pending' = Append(pending, Head(todo))
             ELSE UNCHANGED <<visited, pending>>
          /\ UNCHANGED <<wire, gate, dead, assigned>>
      BY <1>4 DEF Visit, netlist
    <2>2. /\ todo \in Seq(1..Len(gate)) /\ pending \in Seq(1..Len(gate))
          /\ Head(todo) \in 1..Len(gate)
      BY <2>1, HeadTail DEF NInv, LoopsTyped
    <2>3. ASSUME NEW g \in Alive, Operands(g)
          PROVE  g \in visited' \/ In(todo', g)
      <3>1. CASE g \in visited
        BY <2>1, <3>1
      <3>2. CASE g \notin visited
        <4>1. In(todo, g)
          BY <2>1, <2>3, <3>2 DEF Reached
        <4>2. g = Head(todo) \/ In(todo', g)
          BY <2>1, <2>2, <4>1, InTail
        <4>3. CASE g = Head(todo)
          <5>1. Visitable(g)
            BY <2>3, <3>2 DEF Visitable, Operands, Alive
          <5> QED
            BY <2>1, <4>3, <5>1
        <4> QED
          BY <4>2, <4>3
      <3> QED
        BY <3>1, <3>2
    <2>4. ASSUME NEW g \in visited'
          PROVE  g \in dead \/ In(pending', g) \/ In(assigned, g)
      <3>1. CASE g \in visited
        <4>1. g \in dead \/ In(pending, g) \/ In(assigned, g)
          BY <2>1, <3>1 DEF Reached
        <4>2. In(pending, g) => In(pending', g)
          BY <2>1, <2>2, InAppend, ZenonT(40)
        <4> QED
          BY <4>1, <4>2
      <3>2. CASE g \notin visited
        <4>1. g = Head(todo) /\ pending' = Append(pending, Head(todo))
          BY <2>1, <2>4, <3>2
        <4> QED
          BY <2>2, <4>1, InAppend
      <3> QED
        BY <3>1, <3>2
    <2>5. Alive' = Alive /\ \A g : Operands(g)' <=> Operands(g)
      BY <2>1 DEF Alive, Operands, IsAssigned
    <2> QED
      BY <2>1, <2>3, <2>4, <2>5 DEF Reached
  <1>5. CASE AssignGate
    <2> DEFINE h == Head(pending)
               o == gate[h].O
    <2>1. /\ phase = "assign" /\ todo = <<>> /\ pending # <<>> /\ pending' = Tail(pending)
          /\ \/ h \in dead /\ UNCHANGED <<wire, todo, assigned>>
             \/ h \notin dead /\ AssignWire(o) /\ assigned' = Append(assigned, h)
          /\ UNCHANGED <<gate, dead, visited>>
      BY <1>5 DEF AssignGate
    <2>2. /\ pending \in Seq(1..Len(gate)) /\ assigned \in Seq(1..Len(gate))
          /\ h \in 1..Len(gate) /\ o \in 1..Len(wire)
      BY <2>1, HeadTail, NumberingFacts DEF NInv, LoopsTyped
    <2> HIDE DEF h, o
    <2>3. \A g \in visited : g \in dead \/ In(pending, g) \/ In(assigned, g)
      BY <2>1 DEF Reached
    <2>4. \A g : In(pending, g) => g = h \/ In(pending', g)
      BY <2>1, <2>2, InTail DEF h
    <2>5. h \notin dead => \A g : In(assigned, g) \/ g = h => In(assigned', g)
      BY <2>1, <2>2, InAppend, ZenonT(40)
    <2>6. \A g \in visited : g \in dead \/ In(pending', g) \/ In(assigned', g)
      BY <2>1, <2>3, <2>4, <2>5
    <2>7. \A g \in Alive : Operands(g)' => g \in visited \/ In(todo', g)
      <3>1. CASE UNCHANGED <<wire, todo>>
        <4>1. \A g : Operands(g)' <=> Operands(g)
          BY <2>1, <3>1 DEF Operands, IsAssigned
        <4> QED
          BY <2>1, <3>1, <4>1 DEF Reached
      <3>2. CASE AssignWire(o) /\ ~Output(o)
        BY <2>1, <2>2, <3>2, ReadersReached
      <3>3. CASE AssignWire(o) /\ Output(o)
        BY <3>1, <3>3 DEF AssignWire
      <3> QED
        BY <2>1, <3>1, <3>2, <3>3
    <2> QED
      BY <2>1, <2>6, <2>7 DEF Reached, Alive
  <1>6. CASE UNCHANGED vars
    BY <1>6 DEF vars, work, Reached, Alive, Operands, IsAssigned
  <1> QED
    BY <1>1, <1>2, <1>3, <1>4, <1>5, <1>6 DEF Next, Build, Ret, Start, FoldConst, Redirect,
       Disconnect, Rewire, ConstDone, SkipByA, SkipByB, PruneGate, AssignOutputs, EmitGate,
       EmitDone

\* Compile has taken what is needed, and the outputs come last, in order.
Complete ==
    phase \in {"emit", "done"} =>
      /\ \A g \in Alive : Used(g) => In(assigned, g)
      /\ \A k \in 1..Len(outputs) : wire[outputs[k]].id = nextID - Len(outputs) + k - 1

\* A gate that was needed and not taken would read a wire of an earlier one
\* that was not taken either.
LEMMA AllTaken ==
  ASSUME NInv, KInv, Fed, Order, Reached,
         phase = "assign", todo = <<>>, pending = <<>>, i > NumInputs
  PROVE  \A g \in Alive : Used(g) => In(assigned, g)
  <1> DEFINE T == {g \in Alive : Used(g) /\ ~In(assigned, g)}
  <1>1. /\ NumInputs \in Nat /\ i \in Int /\ Len(wire) \in Nat /\ NumInputs <= Len(wire)
        /\ \A g \in 1..Len(gate) :
             /\ gate[g].A \in 1..Len(wire) /\ ~Output(gate[g].A)
             /\ gate[g].op # "INV" => gate[g].B \in 1..Len(wire) /\ ~Output(gate[g].B)
    BY NumberingFacts
  <1>2. \A g \in 1..Len(gate) :
          /\ gate[g].A < NumInputs + g /\ gate[g].B < NumInputs + g
          /\ gate[g].O \in 1..Len(wire) /\ gate[g].O >= NumInputs + g
    BY GateOrder
  <1>3. Alive \subseteq 1..Len(gate) /\ Len(gate) \in Nat
    BY NetlistFacts DEF Alive
  <1>4. \A w \in 1..NumInputs : IsAssigned(w)
    <2>1. \A w \in 1..NumInputs : wire[w].id = w - 1
      <3>1. \A w \in 1..NumInputs : ~(w >= i)
        BY <1>1
      <3> QED
        BY <3>1 DEF Order, Ids, Numbering
    <2> QED
      BY <1>1, <2>1 DEF IsAssigned, Unassigned
  <1>5. ASSUME T # {} PROVE FALSE
    <2>1. T \in SUBSET Nat
      <3>1. 1..Len(gate) \subseteq Nat
        BY <1>3
      <3>2. T \subseteq 1..Len(gate)
        BY <1>3
      <3> HIDE DEF T
      <3> QED
        BY <3>1, <3>2
    <2>2. PICK m \in T : \A g \in T : m <= g
      BY <1>5, <2>1, Least
    <2>3. m \in Alive /\ m \in 1..Len(gate) /\ Used(m) /\ ~In(assigned, m)
      BY <1>3, <2>2
    <2>4. ASSUME NEW w \in 1..Len(wire), Reads(m, w), Sourced(w), ~Output(w), w < NumInputs + m
          PROVE  IsAssigned(w)
      <3>1. CASE w <= NumInputs
        BY <1>4, <3>1
      <3>2. CASE \E p \in Alive : gate[p].O = w
        <4>1. PICK p \in Alive : gate[p].O = w
          BY <3>2
        <4>2. p \in 1..Len(gate) /\ gate[p].O >= NumInputs + p
          BY <1>2, <1>3
        <4>3. p < m
          BY <1>1, <2>3, <2>4, <4>1, <4>2
        <4>4. Used(p)
          <5>1. wire[w].num > 0
            BY <2>3, <2>4, NumReads
          <5> QED
            BY <4>1, <5>1 DEF Used
        <4>5. ~(m <= p)
          BY <2>3, <4>2, <4>3
        <4>6. In(assigned, p)
          BY <2>2, <4>4, <4>5
        <4>7. PICK k \in 1..Len(assigned) : assigned[k] = p
          BY <4>6 DEF In
        <4>8. IsAssigned(gate[assigned[k]].O) \/ Output(gate[assigned[k]].O)
          BY DEF Order, Taken, Numbering
        <4> QED
          BY <2>4, <4>1, <4>7, <4>8
      <3> QED
        BY <2>4, <3>1, <3>2 DEF Sourced
    <2>5. Sourced(gate[m].A) /\ (gate[m].op # "INV" => Sourced(gate[m].B))
      BY <2>3 DEF Fed
    <2>6. IsAssigned(gate[m].A)
      BY <1>1, <1>2, <2>3, <2>4, <2>5 DEF Reads
    <2>7. gate[m].op # "INV" => IsAssigned(gate[m].B)
      BY <1>1, <1>2, <2>3, <2>4, <2>5 DEF Reads
    <2>8. m \in visited
      <3>1. ~In(todo, m)
        BY DEF In
      <3> QED
        BY <2>3, <2>6, <2>7, <3>1 DEF Reached, Operands
    <2>9. m \notin dead /\ ~In(pending, m)
      BY <2>3 DEF Alive, In
    <2> QED
      BY <2>3, <2>8, <2>9 DEF Reached
  <1> QED
    BY <1>5

\* No step leaves a needed gate behind.
LEMMA NextComplete ==
  ASSUME NInv, KInv, Fed, Fresh, Order, Reached, Complete, [Next]_vars
  PROVE  Complete'
  <1>1. CASE phase' \notin {"emit", "done"}
    BY <1>1 DEF Complete
  <1>2. CASE AssignOutputs
    <2> DEFINE P(w) == CHOOSE k \in 1..Len(outputs) : outputs[k] = w
    <2>1. /\ phase = "assign" /\ todo = <<>> /\ pending = <<>> /\ i > NumInputs
          /\ wire' = [w \in 1..Len(wire) |->
                        IF Output(w) THEN [wire[w] EXCEPT !.id = nextID + P(w) - 1] ELSE wire[w]]
          /\ nextID' = nextID + Len(outputs)
          /\ UNCHANGED <<gate, dead, outputs, assigned>>
      BY <1>2 DEF AssignOutputs, Output
    <2>2. \A g \in Alive : Used(g) => In(assigned, g)
      BY <2>1, AllTaken
    <2>3. SameReaders(wire, wire')
      BY <1>2, CompileReaders
    <2>4. \A g \in Alive : gate[g].O \in 1..Len(wire)
      BY GateOrder DEF Alive
    <2>5. \A g \in Alive : Used(g)' => Used(g)
      BY <2>1, <2>3, <2>4 DEF SameReaders, Used, Output
    <2>6. /\ nextID \in Nat /\ Len(outputs) \in Nat
          /\ \A k \in 1..Len(outputs) :
              /\ outputs[k] \in 1..Len(wire)
              /\ \A l \in 1..Len(outputs) : outputs[k] = outputs[l] => k = l
      BY NumberingFacts DEF NInv, LoopsTyped
    <2>7. ASSUME NEW k \in 1..Len(outputs)
          PROVE  wire'[outputs[k]].id = nextID' - Len(outputs) + k - 1
      <3> DEFINE w == outputs[k]
      <3>1. w \in 1..Len(wire) /\ Output(w) /\ wire[w] \in WireRecord
        BY <2>6, NetlistFacts DEF Output
      <3>2. wire'[w] = [wire[w] EXCEPT !.id = nextID + P(w) - 1]
        BY <2>1, <3>1
      <3>3. P(w) = k
        <4>1. \E l \in 1..Len(outputs) : outputs[l] = w
          OBVIOUS
        <4>2. P(w) \in 1..Len(outputs) /\ outputs[P(w)] = w
          BY <4>1
        <4> HIDE DEF P
        <4> QED
          BY <2>6, <4>2
      <3> HIDE DEF w, P
      <3>4. wire'[w].id = nextID + k - 1
        BY <3>1, <3>2, <3>3 DEF WireRecord
      <3> QED
        BY <2>1, <2>6, <3>4 DEF w
    <2> QED
      BY <2>1, <2>2, <2>5, <2>7 DEF Complete, Alive, In
  <1>3. CASE EmitGate \/ EmitDone \/ UNCHANGED vars
    <2>1. /\ phase \in {"emit", "done"} \/ phase' = phase
          /\ UNCHANGED <<wire, gate, dead, outputs, assigned, nextID>>
      BY <1>3 DEF EmitGate, EmitDone, vars, netlist, numbering
    <2> QED
      BY <2>1 DEF Complete, Alive, In, Used, Output
  <1> QED
    BY <1>1, <1>2, <1>3 DEF Next, Build, Ret, Start, FoldConst, Redirect,
       Disconnect, Rewire, ConstDone, SkipByA, SkipByB, XORDone, PruneGate, PruneDone, AssignInput,
       Visit, AssignGate

\* Everything the outputs depend on is taken, and the outputs are numbered in
\* the order they were returned.
THEOREM NetlistComplete == Spec => []Complete
  <1>1. Init => Reached /\ Complete
    BY DEF Init, Reached, Complete
  <1>2. NInv /\ KInv /\ Fresh /\ Order /\ Reached /\ [Next]_vars => Reached'
    BY NextReached
  <1>3. NInv /\ KInv /\ Fed /\ Fresh /\ Order /\ Reached /\ Complete /\ [Next]_vars => Complete'
    BY NextComplete
  <1> QED
    BY <1>1, <1>2, <1>3, NetlistInvariant, NetlistKept, NetlistFed, NetlistFresh, NetlistOrder,
       PTL DEF Spec

(***************************************************************************)
(* What the compiled circuit computes                                      *)
(***************************************************************************)
\* There are values of wires after each gate.
LEMMA ValuesExist ==
  ASSUME Len(compiled) \in Nat
  PROVE  \E v : v = [k \in 0..Len(compiled) |->
                       IF k = 0 THEN Inputs ELSE After(compiled[k], v[k - 1])]
  <1> DEFINE n == Len(compiled)
             S == {t \in 0..n : \E v : v = [k \in 0..t |-> IF k = 0 THEN Inputs
                                                           ELSE After(compiled[k], v[k - 1])]}
  <1>1. 0 \in S
    <2> DEFINE v == [k \in 0..0 |-> Inputs]
    <2>1. \A k \in 0..0 : k = 0
      OBVIOUS
    <2>2. \A k \in 0..0 : v[k] = IF k = 0 THEN Inputs ELSE After(compiled[k], v[k - 1])
      BY <2>1
    <2>3. v = [k \in 0..0 |-> v[k]]
      OBVIOUS
    <2> HIDE DEF v
    <2>4. v = [k \in 0..0 |-> IF k = 0 THEN Inputs ELSE After(compiled[k], v[k - 1])]
      BY <2>2, <2>3
    <2> QED
      BY <2>4
  <1>2. ASSUME NEW t \in 0..(n - 1), t \in S PROVE t + 1 \in S
    <2>1. PICK v : v = [k \in 0..t |-> IF k = 0 THEN Inputs ELSE After(compiled[k], v[k - 1])]
      BY <1>2
    <2> DEFINE last == After(compiled[t + 1], v[t])
               u == [k \in 0..(t + 1) |-> IF k = t + 1 THEN last ELSE v[k]]
    <2>2. ASSUME NEW k \in 0..(t + 1)
          PROVE  u[k] = IF k = 0 THEN Inputs ELSE After(compiled[k], u[k - 1])
      <3>1. CASE k = t + 1
        <4>1. u[k] = last /\ k # 0 /\ u[k - 1] = v[t]
          BY <3>1
        <4> HIDE DEF u
        <4> QED
          BY <3>1, <4>1
      <3>2. CASE k # t + 1
        <4>1. k \in 0..t /\ u[k] = v[k] /\ (k # 0 => u[k - 1] = v[k - 1])
          BY <3>2
        <4>2. v[k] = IF k = 0 THEN Inputs ELSE After(compiled[k], v[k - 1])
          BY <2>1, <4>1
        <4> HIDE DEF u
        <4> QED
          BY <4>1, <4>2
      <3> QED
        BY <3>1, <3>2
    <2>3. u = [k \in 0..(t + 1) |-> IF k = 0 THEN Inputs ELSE After(compiled[k], u[k - 1])]
      <3>1. u = [k \in 0..(t + 1) |-> u[k]]
        OBVIOUS
      <3> HIDE DEF u
      <3> QED
        BY <2>2, <3>1
    <2>4. t + 1 \in 0..n
      OBVIOUS
    <2> HIDE DEF u
    <2> QED
      BY <2>3, <2>4
  <1>3. n \in S
    <2> HIDE DEF S
    <2>1. 0..n \subseteq S
      BY <1>1, <1>2, Induction
    <2> QED
      BY <2>1
  <1> QED
    BY <1>3

\* The recursive function of the values is what its definition says.
LEMMA ValuesDef ==
  ASSUME Len(compiled) \in Nat
  PROVE  /\ Values[0] = Inputs
         /\ \A k \in 1..Len(compiled) : Values[k] = After(compiled[k], Values[k - 1])
  <1> DEFINE n == Len(compiled)
             F(v) == [k \in 0..n |-> IF k = 0 THEN Inputs ELSE After(compiled[k], v[k - 1])]
  <1>1. \E v : v = F(v)
    BY ValuesExist
  <1>2. Values = F(Values)
    BY <1>1 DEF Values
  <1>3. \A k \in 0..n : Values[k] = IF k = 0 THEN Inputs ELSE After(compiled[k], Values[k - 1])
    BY <1>2
  <1> QED
    BY <1>3

\* A gate computes what its output means, from what its operands mean.
LEMMA GateComputes ==
  ASSUME NInv, NEW g \in 1..Len(gate), NEW a, NEW b, a = meaning[gate[g].A],
         gate[g].op # "INV" => b = meaning[gate[g].B]
  PROVE  Apply(gate[g].op, a, b) = meaning[gate[g].O]
  <1>1. /\ gate[g].op = "INV" => gate[g].B = Nil
        /\ gate[g].op # "INV" => gate[g].B \in 1..Len(wire)
        /\ meaning[gate[g].O]
             = Apply(gate[g].op, meaning[gate[g].A], Second(meaning, gate[g].B))
    BY GateFacts
  <1>2. CASE gate[g].op = "INV"
    BY <1>1, <1>2 DEF Apply
  <1>3. CASE gate[g].op # "INV"
    <2>1. gate[g].B # Nil
      BY <1>1, <1>3 DEF Nil
    <2>2. Second(meaning, gate[g].B) = meaning[gate[g].B]
      BY <2>1 DEF Second
    <2> QED
      BY <1>1, <1>3, <2>2
  <1> QED
    BY <1>2, <1>3

\* The values after the first k gates are what the wires mean that these gates
\* and the inputs drive.
Right(k) ==
    /\ DOMAIN Values[k] = 0..(nextID - 1)
    /\ \A w \in 1..Len(wire) : Driven(w, k) => Values[k][wire[w].id] = meaning[w]

\* Before the first gate these are the inputs.
LEMMA RightAtFirst ==
  ASSUME NInv, KInv, Order, phase \in {"emit", "done"}
  PROVE  Right(0)
  <1>1. Len(compiled) \in Nat
    BY DEF Order, Emission
  <1>2. Values[0] = Inputs
    BY <1>1, ValuesDef
  <1>3. /\ NumInputs \in Nat /\ Len(wire) \in Nat /\ NumInputs <= Len(wire) /\ nextID \in Nat
    BY NumberingFacts
  <1>4. ASSUME NEW w \in 1..Len(wire), Driven(w, 0)
        PROVE  Inputs[wire[w].id] = meaning[w]
    <2>1. w \in 1..NumInputs
      BY <1>3, <1>4 DEF Driven
    <2>2. wire[w].id = w - 1 /\ wire[w].id < nextID
      BY <1>3, <2>1 DEF Order, Ids, Numbering
    <2>3. w - 1 \in 0..(nextID - 1) /\ w - 1 < NumInputs /\ (w - 1) + 1 = w
      BY <1>3, <2>1, <2>2
    <2> QED
      BY <2>2, <2>3 DEF Inputs
  <1> QED
    BY <1>2, <1>4 DEF Right, Inputs

\* What is driven is numbered.
LEMMA DrivenIsNumbered ==
  ASSUME NInv, KInv, Order, phase \in {"emit", "done"}, NEW k \in Nat, k <= Len(assigned),
         NEW w \in 1..Len(wire), Driven(w, k)
  PROVE  wire[w].id \in 0..(nextID - 1)
  <1>1. /\ NumInputs \in Nat /\ nextID \in Nat
        /\ assigned \in Seq(1..Len(gate)) /\ Len(assigned) \in Nat
        /\ \A u \in 1..Len(wire) : wire[u].id \in Nat \cup {Unassigned}
    BY NumberingFacts
  <1>2. IsAssigned(w)
    <2>1. CASE w <= NumInputs
      <3>1. w \in 1..NumInputs
        BY <1>1, <2>1
      <3>2. wire[w].id = w - 1
        BY <3>1 DEF Order, Ids, Numbering
      <3> QED
        BY <1>1, <3>1, <3>2 DEF IsAssigned, Unassigned
    <2>2. CASE \E j \in 1..k : gate[assigned[j]].O = w
      <3>1. PICK j \in 1..k : gate[assigned[j]].O = w
        BY <2>2
      <3>2. j \in 1..Len(assigned)
        BY <1>1
      <3> QED
        BY <3>1, <3>2 DEF Order, Taken, Numbering
    <2> QED
      BY <2>1, <2>2 DEF Driven
  <1>3. wire[w].id < nextID
    BY DEF Order, Ids, Numbering
  <1> QED
    BY <1>1, <1>2, <1>3 DEF IsAssigned

\* One gate more is computed.
LEMMA RightAfterGate ==
  ASSUME NInv, KInv, Order, phase \in {"emit", "done"}, NEW k \in 0..(Len(compiled) - 1),
         Right(k)
  PROVE  Right(k + 1)
  <1> DEFINE m == Values[k]
             g == assigned[k + 1]
             c == compiled[k + 1]
             o == gate[g].O
  <1>1. Len(compiled) \in Nat /\ k \in Nat /\ k + 1 \in 1..Len(compiled) /\ (k + 1) - 1 = k
    BY DEF Order, Emission
  <1>2. g \in 1..Len(gate) /\ c = Written(g) /\ k + 1 \in 1..Len(assigned)
    BY <1>1, WrittenFacts
  <1>3. Values[k + 1] = After(c, m)
    BY <1>1, ValuesDef
  <1>4. /\ \A u, v \in 1..Len(wire) : IsAssigned(u) /\ wire[u].id = wire[v].id => u = v
        /\ \A u \in 1..Len(wire) : wire[u].id < nextID
    BY DEF Order, Ids, Numbering
  <1>5. /\ gate[g].A \in 1..Len(wire)
        /\ gate[g].op # "INV" => gate[g].B \in 1..Len(wire)
        /\ o \in 1..Len(wire) /\ nextID \in Nat
        /\ \A w \in 1..Len(wire) : wire[w].id \in Nat \cup {Unassigned}
    BY <1>2, NumberingFacts
  <1>6. /\ Driven(gate[g].A, k)
        /\ gate[g].op # "INV" => Driven(gate[g].B, k)
        /\ IsAssigned(o)
    BY <1>1, <1>2 DEF Order, Taken, Numbering
  <1>7. /\ DOMAIN m = 0..(nextID - 1)
        /\ \A w \in 1..Len(wire) : Driven(w, k) => m[wire[w].id] = meaning[w]
    BY DEF Right
  <1> HIDE DEF m, g, c, o
  <1>8. /\ c.op = gate[g].op /\ c.out = wire[o].id /\ c.in0 = wire[gate[g].A].id
        /\ gate[g].op # "INV" => c.in1 = wire[gate[g].B].id
    BY <1>2 DEF Written, o
  <1>9. Apply(c.op, m[c.in0], m[c.in1]) = meaning[o]
    <2>1. m[c.in0] = meaning[gate[g].A] /\ (gate[g].op # "INV" => m[c.in1] = meaning[gate[g].B])
      BY <1>5, <1>6, <1>7, <1>8
    <2>2. Apply(gate[g].op, m[c.in0], m[c.in1]) = meaning[gate[g].O]
      BY <1>2, <2>1, GateComputes
    <2> QED
      BY <1>8, <2>2 DEF o
  <1>10. wire[o].id \in 0..(nextID - 1)
    BY <1>4, <1>5, <1>6 DEF IsAssigned
  <1>11. /\ DOMAIN Values[k + 1] = 0..(nextID - 1)
         /\ Values[k + 1][wire[o].id] = meaning[o]
         /\ \A id \in 0..(nextID - 1) : id # wire[o].id => Values[k + 1][id] = m[id]
    <2>1. After(c, m) = [m EXCEPT ![wire[o].id] = meaning[o]]
      BY <1>8, <1>9 DEF After
    <2> QED
      BY <1>3, <1>7, <1>10, <2>1
  <1>12. ASSUME NEW w \in 1..Len(wire), Driven(w, k + 1)
         PROVE  Values[k + 1][wire[w].id] = meaning[w]
    <2>1. CASE w = o
      BY <1>11, <2>1
    <2>2. CASE w # o
      <3>1. Driven(w, k)
        <4>1. CASE w <= NumInputs
          BY <4>1 DEF Driven
        <4>2. CASE \E j \in 1..(k + 1) : gate[assigned[j]].O = w
          <5>1. PICK j \in 1..(k + 1) : gate[assigned[j]].O = w
            BY <4>2
          <5>2. j # k + 1
            BY <2>2, <5>1 DEF o, g
          <5>3. j \in 1..k
            BY <1>1, <5>2
          <5> QED
            BY <5>1, <5>3 DEF Driven
        <4> QED
          BY <1>12, <4>1, <4>2 DEF Driven
      <3>2. wire[w].id # wire[o].id
        BY <1>4, <1>5, <1>6, <2>2
      <3>3. wire[w].id \in 0..(nextID - 1)
        <4>1. k <= Len(assigned) /\ k \in Nat
          BY <1>1, <1>2, NumberingFacts
        <4> QED
          BY <3>1, <4>1, DrivenIsNumbered
      <3> QED
        BY <1>7, <1>11, <3>1, <3>2, <3>3
    <2> QED
      BY <2>1, <2>2
  <1> QED
    BY <1>11, <1>12 DEF Right

\* The compiled circuit computes what the builders asked for: whatever was
\* folded, redirected, skipped, pruned and numbered, the values of its last
\* wires are the meanings of the wires that were returned, in their order.
THEOREM NetlistCompiledComputes == Spec => []CompiledComputes
  <1>1. ASSUME NInv, KInv, Fed, Order, Complete PROVE CompiledComputes
    <2> SUFFICES ASSUME phase = "done", NEW k \in 1..Len(outputs)
                 PROVE  Values[Len(compiled)][nextID - Len(outputs) + k - 1]
                          = meaning[outputs[k]]
      BY DEF CompiledComputes
    <2> DEFINE n == Len(compiled)
               w == outputs[k]
               S == {t \in 0..n : Right(t)}
    <2>1. n \in Nat /\ n = Len(assigned)
      <3>1. i = Len(assigned) + 1 /\ n = i - 1 /\ n \in Nat
        BY <1>1 DEF Order, Emission
      <3>2. Len(assigned) \in Nat
        BY <1>1, NumberingFacts
      <3> QED
        BY <3>1, <3>2
    <2>2. 0 \in S
      BY <1>1, <2>1, RightAtFirst
    <2>3. ASSUME NEW t \in 0..(n - 1), t \in S PROVE t + 1 \in S
      <3>1. Right(t + 1)
        BY <1>1, <2>3, RightAfterGate
      <3> QED
        BY <2>1, <3>1
    <2>4. Right(n)
      <3> HIDE DEF S
      <3>1. 0..n \subseteq S
        BY <2>1, <2>2, <2>3, Induction
      <3>2. n \in S
        BY <2>1, <3>1
      <3> QED
        BY <3>2 DEF S
    <2>5. w \in 1..Len(wire) /\ w > NumInputs /\ NumInputs \in Nat
      BY <1>1, NumberingFacts
    <2>6. Sourced(w)
      BY <1>1 DEF Fed
    <2>7. PICK p \in Alive : gate[p].O = w
      BY <2>5, <2>6 DEF Sourced
    <2>8. In(assigned, p)
      <3>1. Used(p)
        BY <2>7 DEF Used, Output
      <3> QED
        BY <1>1, <2>7, <3>1 DEF Complete
    <2>9. Driven(w, n)
      BY <2>1, <2>7, <2>8 DEF In, Driven
    <2>10. Values[n][wire[w].id] = meaning[w]
      BY <2>4, <2>5, <2>9 DEF Right
    <2>11. wire[w].id = nextID - Len(outputs) + k - 1
      BY <1>1 DEF Complete
    <2> QED
      BY <2>10, <2>11
  <1> QED
    BY <1>1, NetlistInvariant, NetlistKept, NetlistFed, NetlistOrder, NetlistComplete, PTL
=============================================================================
