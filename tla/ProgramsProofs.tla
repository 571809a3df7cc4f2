--------------------------- MODULE ProgramsProofs ---------------------------
(***************************************************************************)
(* Proofs about Programs, for any arguments, names, conditions and bounds: *)
(* the names of the block that statements are added to stand for what the  *)
(* variables of the program are, in each world that is there, and what the *)
(* compiler returns for a function is what the function returns.           *)
(***************************************************************************)
EXTENDS GeneratorProofs

(***************************************************************************)
(* The generator's operations, seen in the picture.                        *)
(***************************************************************************)

\* A branch has a condition.
Tested(g) == \A b \in DOMAIN g.block : g.block[b].branch # None => g.block[b].cond # None
Fine(g) == GenOK(g) /\ Tested(g) /\ g.panic = FALSE
\* h has the picture of g.
Quiet(g, h) == Fine(h) /\ Extends(g, h) /\ Picture(h) = Picture(g) /\ Len(h.block) = Len(g.block)
\* Of the boxes, that of b is another one.
Paints(g, h, b, next, branch, dead, when, view) ==
  /\ Fine(h) /\ Extends(g, h) /\ Len(h.block) = Len(g.block) /\ OthersKept(g, h, b)
  /\ IsBox(Picture(h)[b], next, branch, dead, when, view)
\* One box is new.
Grown(g, h, view) ==
  /\ Fine(h) /\ Extends(g, h) /\ Drawn(Picture(g), Picture(h), {})
  /\ FreshBox(Picture(h)[Len(g.block) + 1], view) /\ Len(h.block) = Len(g.block) + 1
  /\ h.values = g.values /\ \A c \in DOMAIN g.block : SameShape(h.block[c], g.block[c])

\* What is said of a generator.
LEMMA FineFields ==
  ASSUME NEW g, Fine(g)
  PROVE  /\ GenOK(g) /\ Typed(g) /\ Tested(g) /\ g.panic = FALSE /\ Pic(Picture(g)) /\ Len(Picture(g)) = Len(g.block)
         /\ DOMAIN Picture(g) = DOMAIN g.block /\ DOMAIN g.block = 1 .. Len(g.block) /\ Len(g.block) \in Nat
         /\ g.values \in Nat /\ True \in 1 .. g.values /\ False \in 1 .. g.values
<1>1. GenOK(g) /\ Typed(g) /\ Tested(g) /\ g.panic = FALSE
  BY DEF Fine, GenOK
<1>2. DOMAIN Picture(g) = 1 .. Len(g.block) /\ Len(Picture(g)) = Len(g.block) /\ Len(g.block) \in Nat
  BY <1>1, PictureIs
<1>3. g.values \in Nat /\ g.values >= Arg(Len(Args) + 1) /\ DOMAIN g.block = 1 .. Len(g.block)
  BY <1>1, TypedFields
<1>4. True \in 1 .. g.values /\ False \in 1 .. g.values
  <2>1. Len(Args) \in Nat
    BY ArgsAssumption
  <2>2. QED
    BY <1>3, <2>1 DEF Arg, True, False
<1>5. QED
  BY <1>1, <1>2, <1>3, <1>4 DEF Pic

\* Two quiet steps are a quiet one.
LEMMA QuietBoth ==
  ASSUME NEW g, Fine(g), NEW h, Quiet(g, h), NEW i, Quiet(h, i)
  PROVE  Quiet(g, i)
<1>1. Typed(g) /\ Typed(h) /\ Typed(i)
  BY FineFields DEF Quiet
<1>2. Extends(g, i)
  BY <1>1, ExtendsBoth DEF Quiet
<1>3. QED
  BY <1>2 DEF Quiet

\* No step is a quiet one.
LEMMA QuietSelf ==
  ASSUME NEW g, Fine(g)
  PROVE  Quiet(g, g)
<1>1. Typed(g)
  BY FineFields
<1>2. QED
  BY <1>1, ExtendsSelf DEF Quiet

\* Branches have conditions when edges and conditions stay.
LEMMA TestedKept ==
  ASSUME NEW g, Tested(g), NEW h, DOMAIN h.block = DOMAIN g.block,
         \A b \in DOMAIN g.block : SameShape(h.block[b], g.block[b])
  PROVE  Tested(h)
BY DEF Tested, SameShape

\* More instructions are quiet.
LEMMA MoreQuiet ==
  ASSUME NEW g, Fine(g), NEW h, NEW b \in DOMAIN g.block, NEW new, More(g, h, b, new)
  PROVE  Quiet(g, h)
<1>1. Typed(g) /\ Tested(g) /\ g.panic = FALSE /\ DOMAIN g.block = 1 .. Len(g.block)
  BY FineFields
<1>2. Typed(h) /\ Len(h.block) = Len(g.block)
  BY DEF More, GenOK
<1>3. DOMAIN h.block = DOMAIN g.block
  BY <1>1, <1>2, TypedFields
<1>4. SameShape(h.block[b], g.block[b])
  <2>1. g.block[b].instr \o new = g.block[b].instr \o new /\ new \in Seq(Instructions) /\ h.block[b] = [g.block[b] EXCEPT !.instr = g.block[b].instr \o new]
    BY DEF More
  <2>2. SameShape(h.block[b], g.block[b])
    BY <1>1, <2>1, LongerBlock
  <2>3. QED
    BY <2>2
<1>5. \A c \in DOMAIN g.block : SameShape(h.block[c], g.block[c])
  BY <1>4 DEF More, SameShape
<1>6. Tested(h)
  BY <1>1, <1>3, <1>5, TestedKept
<1>7. QED
  BY <1>1, <1>6 DEF More, Quiet, Fine

\* NewEnv is quiet.
LEMMA NewEnvQuiet ==
  ASSUME NEW g, Fine(g), NEW b \in DOMAIN g.block
  PROVE  Quiet(g, NewEnv(g, b))
<1> DEFINE h == NewEnv(g, b)
<1>1. GenOK(g) /\ Tested(g) /\ g.panic = FALSE
  BY FineFields
<1>2. ClonedHandle(g, h, b)
  BY <1>1, CloneIs
<1> HIDE DEF h
<1>3. Tested(h)
  <2>1. DOMAIN h.block = DOMAIN g.block /\ \A c \in DOMAIN g.block : SameShape(h.block[c], g.block[c])
    BY <1>2 DEF ClonedHandle
  <2>2. QED
    BY <1>1, <2>1, TestedKept
<1>4. QED
  BY <1>1, <1>2, <1>3 DEF ClonedHandle, Quiet, Fine, h

\* What h carries for the instruction that is added.
AddedTo(g, h, i) ==
  /\ Quiet(g, h) /\ h.values = (IF i.out = None THEN g.values ELSE g.values + 1)
  /\ i.out # None => Car(h)[i.out] = Computed(i, Car(g))

\* AddInstr is quiet.
LEMMA AddInstrQuiet ==
  ASSUME NEW g, Fine(g), NEW b \in DOMAIN g.block, NEW i, Fits(g, i)
  PROVE  AddedTo(g, AddInstr(g, b, i), i)
<1>1. GenOK(g)
  BY FineFields
<1>2. InstrAdded(g, AddInstr(g, b, i), b, i)
  BY <1>1, AddInstrIs
<1>3. More(g, AddInstr(g, b, i), b, <<i>>)
  BY <1>2 DEF InstrAdded
<1>4. Quiet(g, AddInstr(g, b, i))
  BY <1>3, MoreQuiet
<1>5. QED
  BY <1>2, <1>4 DEF InstrAdded, AddedTo

Reads(g, h, v, ws) == Quiet(g, h) /\ v \in 1 .. h.values /\ Car(h)[v] = ws

\* Resolve is quiet, and its value carries what the bound means.
LEMMA ResolveQuiet ==
  ASSUME NEW g, Fine(g), NEW b \in DOMAIN g.block, NEW p \in Bounds, Within(g, p)
  PROVE  Reads(g, Resolve(g, b, p).gen, Resolve(g, b, p).v, Chosen(g, p))
<1> DEFINE h == Resolve(g, b, p).gen
           v == Resolve(g, b, p).v
<1>1. GenOK(g)
  BY FineFields
<1>2. ResolvedTo(g, b, p, h, v)
  BY <1>1, ResolveIs
<1> HIDE DEF h, v
<1>3. PICK new : More(g, h, b, new)
  BY <1>2 DEF ResolvedTo
<1>4. Quiet(g, h)
  BY <1>3, MoreQuiet
<1>5. Reads(g, h, v, Chosen(g, p))
  BY <1>2, <1>4 DEF ResolvedTo, Reads
<1>6. QED
  BY <1>5 DEF h, v

\* To skip a number is quiet.
LEMMA NumberedQuiet ==
  ASSUME NEW g, Fine(g), NEW b \in DOMAIN g.block
  PROVE  Quiet(g, Numbered(g)) /\ Numbered(g).values = g.values + 1
<1>1. GenOK(g) /\ Tested(g) /\ g.panic = FALSE
  BY FineFields
<1>2. NumberedIs(g, Numbered(g))
  BY <1>1, NumberIs
<1>3. Tested(Numbered(g))
  BY <1>1, <1>2 DEF NumberedIs, Tested
<1>4. QED
  BY <1>1, <1>2, <1>3 DEF NumberedIs, Quiet, Fine

\* Bindings.set in the picture.
LEMMA SetPaints ==
  ASSUME NEW g, Fine(g), NEW b \in DOMAIN g.block, NEW name \in Names, NEW bound \in Bounds, Within(g, bound)
  PROVE  Paints(g, Set(g, b, name, bound), b, Picture(g)[b].next, Picture(g)[b].branch, Picture(g)[b].dead,
                Picture(g)[b].when, Rebound(Picture(g)[b].view, name, Chosen(g, bound)))
<1> DEFINE h == Set(g, b, name, bound)
<1>1. GenOK(g) /\ Tested(g) /\ g.panic = FALSE /\ Typed(g)
  BY FineFields
<1>2. SetDone(g, h, b, name, bound)
  BY <1>1, SetIs
<1> HIDE DEF h
<1>3. Tested(h)
  <2>1. Typed(h) /\ Len(h.block) = Len(g.block)
    BY <1>2 DEF SetDone, GenOK
  <2>2. DOMAIN h.block = DOMAIN g.block
    BY <1>1, <2>1, TypedFields
  <2>3. \A c \in DOMAIN g.block : SameShape(h.block[c], g.block[c])
    BY <1>2 DEF SetDone, SameShape
  <2>4. QED
    BY <1>1, <2>2, <2>3, TestedKept
<1>4. QED
  BY <1>1, <1>2, <1>3 DEF SetDone, Paints, Fine, IsBox, h

\* One more block in the picture.
LEMMA GrownFrom ==
  ASSUME NEW g, Fine(g), NEW h, NEW view, BlockAdded(g, h, view)
  PROVE  Grown(g, h, view)
<1>1. GenOK(g) /\ Tested(g) /\ g.panic = FALSE /\ Typed(g) /\ DOMAIN g.block = 1 .. Len(g.block) /\ Len(g.block) \in Nat
      /\ Pic(Picture(g)) /\ Len(Picture(g)) = Len(g.block)
  BY FineFields
<1>2. GenOK(h) /\ Typed(h) /\ h.panic = FALSE /\ Len(h.block) = Len(g.block) + 1
  BY <1>1 DEF BlockAdded, GenOK
<1>3. DOMAIN h.block = 1 .. Len(g.block) + 1
  BY <1>2, TypedFields
<1>4. Tested(h)
  <2>1. \A c \in DOMAIN g.block : SameShape(h.block[c], g.block[c])
    BY DEF BlockAdded
  <2>2. h.block[Len(g.block) + 1].branch = None
    BY DEF BlockAdded, SameShape, Fresh
  <2>3. \A c \in DOMAIN h.block : c \in DOMAIN g.block \/ c = Len(g.block) + 1
    BY <1>1, <1>3
  <2>4. QED
    BY <1>1, <2>1, <2>2, <2>3 DEF Tested, SameShape
<1>5. Fine(h)
  BY <1>2, <1>4 DEF Fine
<1>6. Pic(Picture(h)) /\ Len(Picture(h)) = Len(h.block)
  BY <1>5, FineFields
<1>7. DOMAIN Picture(g) = DOMAIN g.block
  BY FineFields
<1>8. Drawn(Picture(g), Picture(h), {})
  BY <1>1, <1>2, <1>6, <1>7 DEF Drawn, BlockAdded
<1>9. QED
  BY <1>2, <1>5, <1>8 DEF Grown, BlockAdded

\* A block with a clone of bindings in the picture.
LEMMA AddCloneGrown ==
  ASSUME NEW g, Fine(g), NEW b \in DOMAIN g.block
  PROVE  Grown(g, AddClone(g, b), Picture(g)[b].view)
<1>1. BlockAdded(g, AddClone(g, b), Picture(g)[b].view)
  BY FineFields, AddCloneIs
<1>2. QED
  BY <1>1, GrownFrom

\* Generator.Block in the picture.
LEMMA AddBlockGrown ==
  ASSUME NEW g, Fine(g), NEW array \in Arrays, IsFiniteSet(DOMAIN array), \A n \in DOMAIN array : Within(g, array[n])
  PROVE  Grown(g, AddBlock(g, array), Worlds(g, array))
<1>1. BlockAdded(g, AddBlock(g, array), Worlds(g, array))
  BY FineFields, AddBlockIs
<1>2. QED
  BY <1>1, GrownFrom

\* A block with other fields.
WithNext(k, o) == [k EXCEPT !.next = o]
WithBranch(k, o) == [k EXCEPT !.branch = o]
WithCond(k, v) == [k EXCEPT !.cond = v]
WithDead(k) == [k EXCEPT !.dead = TRUE]

\* Other edges and marks of a block in the picture.
LEMMA ReshapePaints ==
  ASSUME NEW g, Fine(g), NEW b \in DOMAIN g.block, NEW k, Reshapes(g, b, k), k.branch # None => k.cond # None
  PROVE  Paints(g, Reshape(g, b, k, FALSE), b, k.next, k.branch, k.dead,
                IF k.cond = None THEN {} ELSE Car(g)[k.cond], Picture(g)[b].view)
<1> DEFINE h == Reshape(g, b, k, FALSE)
<1>1. GenOK(g) /\ Tested(g) /\ Typed(g) /\ DOMAIN g.block = 1 .. Len(g.block)
  BY FineFields
<1>2. Reshaped(g, h, b, k) /\ h.panic = FALSE
  BY <1>1, PutKeeps
<1> HIDE DEF h
<1>3. GenOK(h) /\ Len(h.block) = Len(g.block) /\ Extends(g, h)
  BY <1>2 DEF Reshaped, Kept
<1>4. DOMAIN h.block = DOMAIN g.block
  <2>1. Typed(h)
    BY <1>3 DEF GenOK
  <2>2. QED
    BY <1>1, <1>3, <2>1, TypedFields
<1>5. Tested(h)
  <2>1. h.block[b] = k /\ \A c \in DOMAIN g.block : c # b => h.block[c] = g.block[c]
    BY <1>2 DEF Reshaped
  <2>2. QED
    BY <1>1, <1>4, <2>1 DEF Tested
<1>6. Fine(h)
  BY <1>2, <1>3, <1>5 DEF Fine
<1>7. QED
  BY <1>2, <1>3, <1>6 DEF Reshaped, Paints, IsBox, h

\* What a block of g is, and what is shown of it.
BlockShown(g, b, x) ==
  /\ g.block[b] \in Blocks /\ g.block[b].cond \in 0 .. g.values /\ (g.block[b].branch # None => g.block[b].cond # None)
  /\ x.next = g.block[b].next /\ x.branch = g.block[b].branch /\ x.dead = g.block[b].dead
  /\ x.when = IF g.block[b].cond = None THEN {} ELSE Car(g)[g.block[b].cond]

\* A block and its box have the same edges.
LEMMA BlockShownIs ==
  ASSUME NEW g, Fine(g), NEW b \in DOMAIN g.block
  PROVE  BlockShown(g, b, Picture(g)[b])
<1>1. Typed(g) /\ Tested(g)
  BY FineFields
<1>2. Shown(g, b)
  BY ShownIs
<1>3. g.block[b] \in Blocks /\ g.block[b].cond \in 0 .. g.values
  BY <1>1, TypedFields DEF Typed, BlocksOK
<1>4. QED
  BY <1>1, <1>2, <1>3 DEF Shown, Tested, BlockShown

\* The record of a generator one of whose blocks is changed.
LEMMA ReshapeIs ==
  ASSUME NEW g, Fine(g), NEW b, NEW k, NEW h,
         h = [g EXCEPT !.block[b] = k] \/ h = [g EXCEPT !.block[b] = k, !.panic = FALSE]
  PROVE  h = Reshape(g, b, k, FALSE)
<1> DEFINE z == g.block
           l == g.array
           m == g.select
           x == g.values
           bs == [z EXCEPT ![b] = k]
           i == Reshape(g, b, k, FALSE)
<1>1. Typed(g) /\ g.panic = FALSE
  BY FineFields
<1>2. g = [block |-> z, array |-> l, select |-> m, values |-> x, panic |-> FALSE]
  BY <1>1, TypedFields
<1>3. i = [g EXCEPT !.block = bs, !.panic = FALSE]
  BY DEF Reshape
<1>4. h = [g EXCEPT !.block = bs] \/ h = [g EXCEPT !.block = bs, !.panic = FALSE]
  OBVIOUS
<1> HIDE DEF z, l, m, x, bs, i
<1>5. i = [block |-> bs, array |-> l, select |-> m, values |-> x, panic |-> FALSE]
  BY <1>2, <1>3
<1>6. h = [block |-> bs, array |-> l, select |-> m, values |-> x, panic |-> FALSE]
  BY <1>2, <1>4
<1>7. QED
  BY <1>5, <1>6 DEF i

\* Block.SetNext in the picture; it does not panic where next is unset or the same.
LEMMA SetNextPaints ==
  ASSUME NEW g, Fine(g), NEW b \in DOMAIN g.block, NEW o \in Nat, Picture(g)[b].next \in {None, o}
  PROVE  Paints(g, SetNext(g, b, o), b, o, Picture(g)[b].branch, Picture(g)[b].dead, Picture(g)[b].when, Picture(g)[b].view)
<1> DEFINE k == WithNext(g.block[b], o)
           h == SetNext(g, b, o)
           x == (g.panic \/ g.block[b].next \notin {None, o})
<1>1. BlockShown(g, b, Picture(g)[b])
  BY BlockShownIs
<1>2. /\ k \in Blocks /\ k.next = o /\ k.branch = g.block[b].branch /\ k.dead = g.block[b].dead /\ k.cond = g.block[b].cond
      /\ k.bindings = g.block[b].bindings /\ k.instr = g.block[b].instr
  BY <1>1 DEF BlockShown, Blocks, WithNext
<1>3. Reshapes(g, b, k)
  BY <1>1, <1>2 DEF Reshapes, BlockShown
<1>4. h = Reshape(g, b, k, FALSE)
  <2>1. x = FALSE
    BY <1>1, FineFields DEF BlockShown
  <2>2. h = [g EXCEPT !.block[b] = k, !.panic = x]
    BY DEF SetNext, WithNext
  <2> HIDE DEF k, x, h
  <2>3. h = [g EXCEPT !.block[b] = k, !.panic = FALSE]
    BY <2>1, <2>2
  <2>4. QED
    BY <2>3, ReshapeIs
<1>5. k.branch # None => k.cond # None
  BY <1>1, <1>2 DEF BlockShown
<1> HIDE DEF h, k
<1>6. Paints(g, h, b, k.next, k.branch, k.dead, IF k.cond = None THEN {} ELSE Car(g)[k.cond], Picture(g)[b].view)
  BY <1>3, <1>4, <1>5, ReshapePaints
<1>7. /\ k.next = o /\ k.branch = Picture(g)[b].branch /\ k.dead = Picture(g)[b].dead
      /\ (IF k.cond = None THEN {} ELSE Car(g)[k.cond]) = Picture(g)[b].when
  BY <1>1, <1>2 DEF BlockShown
<1>8. QED
  BY <1>6, <1>7 DEF h

Deaden(g, b) == [g EXCEPT !.block[b].dead = TRUE]

\* The flag Dead in the picture.
LEMMA DeadPaints ==
  ASSUME NEW g, Fine(g), NEW b \in DOMAIN g.block
  PROVE  Paints(g, Deaden(g, b), b, Picture(g)[b].next, Picture(g)[b].branch, TRUE, Picture(g)[b].when, Picture(g)[b].view)
<1> DEFINE k == WithDead(g.block[b])
           h == Deaden(g, b)
<1>1. BlockShown(g, b, Picture(g)[b])
  BY BlockShownIs
<1>2. /\ k \in Blocks /\ k.next = g.block[b].next /\ k.branch = g.block[b].branch /\ k.dead = TRUE /\ k.cond = g.block[b].cond
      /\ k.bindings = g.block[b].bindings /\ k.instr = g.block[b].instr
  BY <1>1 DEF BlockShown, Blocks, WithDead
<1>3. Reshapes(g, b, k)
  BY <1>1, <1>2 DEF Reshapes, BlockShown
<1>4. h = [g EXCEPT !.block[b] = k]
  BY DEF WithDead, Deaden
<1>5. k.branch # None => k.cond # None
  BY <1>1, <1>2 DEF BlockShown
<1> HIDE DEF k, h
<1>6. h = Reshape(g, b, k, FALSE)
  BY <1>4, ReshapeIs
<1>7. Paints(g, h, b, k.next, k.branch, k.dead, IF k.cond = None THEN {} ELSE Car(g)[k.cond], Picture(g)[b].view)
  BY <1>3, <1>5, <1>6, ReshapePaints
<1>8. /\ k.next = Picture(g)[b].next /\ k.branch = Picture(g)[b].branch /\ k.dead = TRUE
      /\ (IF k.cond = None THEN {} ELSE Car(g)[k.cond]) = Picture(g)[b].when
  BY <1>1, <1>2 DEF BlockShown
<1>9. QED
  BY <1>7, <1>8 DEF h

Condition(g, b, v) == [g EXCEPT !.block[b].cond = v]

\* The condition of a block in the picture.
LEMMA CondPaints ==
  ASSUME NEW g, Fine(g), NEW b \in DOMAIN g.block, NEW v \in 1 .. g.values
  PROVE  /\ Paints(g, Condition(g, b, v), b, Picture(g)[b].next, Picture(g)[b].branch, Picture(g)[b].dead, Car(g)[v], Picture(g)[b].view)
         /\ Condition(g, b, v).block[b].cond # None
<1> DEFINE k == WithCond(g.block[b], v)
           h == Condition(g, b, v)
<1>1. BlockShown(g, b, Picture(g)[b]) /\ g.values \in Nat
  BY BlockShownIs, FineFields
<1>2. v \in Nat /\ v # None /\ v \in 0 .. g.values
  BY <1>1 DEF None
<1>3. /\ k \in Blocks /\ k.next = g.block[b].next /\ k.branch = g.block[b].branch /\ k.dead = g.block[b].dead /\ k.cond = v
      /\ k.bindings = g.block[b].bindings /\ k.instr = g.block[b].instr
  BY <1>1, <1>2 DEF BlockShown, Blocks, WithCond
<1>4. Reshapes(g, b, k)
  BY <1>2, <1>3 DEF Reshapes
<1>5. h = [g EXCEPT !.block[b] = k]
  BY DEF WithCond, Condition
<1> HIDE DEF k, h
<1>6. h = Reshape(g, b, k, FALSE)
  BY <1>5, ReshapeIs
<1>7. Paints(g, h, b, k.next, k.branch, k.dead, IF k.cond = None THEN {} ELSE Car(g)[k.cond], Picture(g)[b].view)
  BY <1>2, <1>3, <1>4, <1>6, ReshapePaints
<1>8. /\ k.next = Picture(g)[b].next /\ k.branch = Picture(g)[b].branch /\ k.dead = Picture(g)[b].dead
      /\ (IF k.cond = None THEN {} ELSE Car(g)[k.cond]) = Car(g)[v]
  BY <1>1, <1>2, <1>3 DEF BlockShown
<1>9. Paints(g, h, b, Picture(g)[b].next, Picture(g)[b].branch, Picture(g)[b].dead, Car(g)[v], Picture(g)[b].view)
  BY <1>7, <1>8
<1>10. h.block[b] = k
  <2>1. GenOK(g)
    BY FineFields
  <2>2. Reshaped(g, h, b, k)
    BY <1>4, <1>6, <2>1, PutKeeps
  <2>3. QED
    BY <2>2 DEF Reshaped
<1>11. QED
  BY <1>2, <1>3, <1>9, <1>10 DEF h

\* Block.SetBranch in the picture.
LEMMA SetBranchPaints ==
  ASSUME NEW g, Fine(g), NEW b \in DOMAIN g.block, NEW o \in Nat, g.block[b].cond # None
  PROVE  Paints(g, SetBranch(g, b, o), b, Picture(g)[b].next, o, Picture(g)[b].dead, Picture(g)[b].when, Picture(g)[b].view)
<1> DEFINE k == WithBranch(g.block[b], o)
           h == SetBranch(g, b, o)
<1>1. BlockShown(g, b, Picture(g)[b])
  BY BlockShownIs
<1>2. /\ k \in Blocks /\ k.next = g.block[b].next /\ k.branch = o /\ k.dead = g.block[b].dead /\ k.cond = g.block[b].cond
      /\ k.bindings = g.block[b].bindings /\ k.instr = g.block[b].instr
  BY <1>1 DEF BlockShown, Blocks, WithBranch
<1>3. Reshapes(g, b, k)
  BY <1>1, <1>2 DEF Reshapes, BlockShown
<1>4. h = [g EXCEPT !.block[b] = k]
  BY DEF SetBranch, WithBranch
<1> HIDE DEF k, h
<1>5. h = Reshape(g, b, k, FALSE)
  BY <1>4, ReshapeIs
<1>6. Paints(g, h, b, k.next, k.branch, k.dead, IF k.cond = None THEN {} ELSE Car(g)[k.cond], Picture(g)[b].view)
  BY <1>2, <1>3, <1>5, ReshapePaints
<1>7. /\ k.next = Picture(g)[b].next /\ k.branch = o /\ k.dead = Picture(g)[b].dead
      /\ (IF k.cond = None THEN {} ELSE Car(g)[k.cond]) = Picture(g)[b].when
  BY <1>1, <1>2 DEF BlockShown
<1>8. QED
  BY <1>6, <1>7 DEF h

\* What holds of all that the generator does.
Onward(g, h) == Fine(h) /\ Extends(g, h)
\* Of the boxes of p, that of b is another one in q.
Boxed(p, q, b, next, branch, dead, when, view) ==
  /\ Pic(p) /\ Pic(q) /\ Len(q) = Len(p) /\ \A c \in DOMAIN p : c # b => q[c] = p[c]
  /\ IsBox(q[b], next, branch, dead, when, view)

\* To go on twice is to go on.
LEMMA OnwardBoth ==
  ASSUME NEW g, Fine(g), NEW h, Onward(g, h), NEW i, Onward(h, i)
  PROVE  Onward(g, i)
<1>1. Typed(g) /\ Typed(h) /\ Typed(i)
  BY FineFields DEF Onward
<1>2. Extends(g, i)
  BY <1>1, ExtendsBoth DEF Onward
<1>3. QED
  BY <1>2 DEF Onward

\* Values and bounds mean the same further on.
LEMMA OnwardCarries ==
  ASSUME NEW g, Fine(g), NEW h, Onward(g, h)
  PROVE  /\ \A v \in 1 .. g.values : v \in 1 .. h.values /\ Car(h)[v] = Car(g)[v]
         /\ \A p : Within(g, p) => Within(h, p) /\ Chosen(h, p) = Chosen(g, p)
<1>1. g.values \in Nat /\ h.values \in Nat /\ Typed(g) /\ Typed(h) /\ Extends(g, h) /\ g.values <= h.values
  BY FineFields DEF Onward, Extends
<1>2. \A v \in 1 .. g.values : v \in 1 .. h.values
  BY <1>1
<1>3. \A v \in 1 .. g.values : Car(h)[v] = Car(g)[v]
  BY <1>1 DEF Extends
<1>4. \A p : Within(g, p) => Within(h, p) /\ Chosen(h, p) = Chosen(g, p)
  BY <1>1, ExtendsWithin
<1>5. QED
  BY <1>2, <1>3, <1>4

\* The two ways to say that one box is another one.
LEMMA PaintsBoxed ==
  ASSUME NEW g, Fine(g), NEW h, NEW b, NEW next, NEW branch, NEW dead, NEW when, NEW view,
         Paints(g, h, b, next, branch, dead, when, view)
  PROVE  Onward(g, h) /\ Boxed(Picture(g), Picture(h), b, next, branch, dead, when, view)
<1>1. Pic(Picture(g)) /\ Len(Picture(g)) = Len(g.block) /\ DOMAIN Picture(g) = DOMAIN g.block
  BY FineFields
<1>2. Fine(h) /\ Extends(g, h) /\ Len(h.block) = Len(g.block)
  BY DEF Paints
<1>3. Pic(Picture(h)) /\ Len(Picture(h)) = Len(h.block)
  BY <1>2, FineFields
<1>4. QED
  BY <1>1, <1>2, <1>3 DEF Paints, OthersKept, Boxed, Onward

\* A clone of bindings that another block gets, in the picture.
LEMMA SharePaints ==
  ASSUME NEW g, Fine(g), NEW b \in DOMAIN g.block, NEW c \in DOMAIN g.block, b # c
  PROVE  Paints(g, Share(g, b, c), c, Picture(g)[c].next, Picture(g)[c].branch, Picture(g)[c].dead,
                Picture(g)[c].when, Picture(g)[b].view)
<1> DEFINE h == Share(g, b, c)
<1>1. GenOK(g) /\ Tested(g) /\ g.panic = FALSE /\ DOMAIN g.block = 1 .. Len(g.block)
  BY FineFields
<1>2. SharedWith(g, h, b, c)
  BY <1>1, ShareIs
<1> HIDE DEF h
<1>3. Tested(h)
  <2>1. Typed(h) /\ Len(h.block) = Len(g.block) /\ \A d \in DOMAIN g.block : SameShape(h.block[d], g.block[d])
    BY <1>2 DEF SharedWith, GenOK
  <2>2. DOMAIN h.block = DOMAIN g.block
    BY <1>1, <2>1, TypedFields
  <2>3. QED
    BY <1>1, <2>1, <2>2, TestedKept
<1>4. QED
  BY <1>1, <1>2, <1>3 DEF SharedWith, Paints, Fine, IsBox, h

\* New bindings of a block in the picture.
LEMMA SetBindingsPaints ==
  ASSUME NEW g, Fine(g), NEW b \in DOMAIN g.block,
         NEW array \in Arrays, IsFiniteSet(DOMAIN array), \A n \in DOMAIN array : Within(g, array[n])
  PROVE  Paints(g, SetBindings(g, b, array), b, Picture(g)[b].next, Picture(g)[b].branch, Picture(g)[b].dead,
                Picture(g)[b].when, Worlds(g, array))
<1> DEFINE h == SetBindings(g, b, array)
<1>1. GenOK(g) /\ Tested(g) /\ g.panic = FALSE /\ Typed(g) /\ DOMAIN g.block = 1 .. Len(g.block)
  BY FineFields
<1>2. h = SetNew(g, b, array)
  <2> DEFINE k == g.block
             l == g.array
             m == g.select
             x == g.values
             p == g.panic
             bs == [k EXCEPT ![b] = Rebind(k[b], Own(Len(l) + 1))]
             as == Append(l, array)
             i == SetNew(g, b, array)
  <2>1. i = [g EXCEPT !.block = bs, !.array = as, !.select = m]
    BY DEF SetNew, Store
  <2>2. h = [g EXCEPT !.array = as, !.block = bs]
    BY DEF SetBindings, Rebind, Own
  <2>3. g = [block |-> k, array |-> l, select |-> m, values |-> x, panic |-> p]
    BY <1>1, TypedFields
  <2> HIDE DEF k, l, m, x, p, bs, as, i, h
  <2>4. i = [block |-> bs, array |-> as, select |-> m, values |-> x, panic |-> p]
    BY <2>1, <2>3
  <2>5. h = [block |-> bs, array |-> as, select |-> m, values |-> x, panic |-> p]
    BY <2>2, <2>3
  <2>6. h = i
    BY <2>4, <2>5
  <2>7. QED
    BY <2>6 DEF i
<1> HIDE DEF h
<1>3. Rewrites(g, h, b, array) /\ h.panic = g.panic
  BY <1>1, <1>2, SetNewIs
<1>4. /\ GenOK(h) /\ Extends(g, h) /\ OthersKept(g, h, b) /\ DOMAIN h.block = DOMAIN g.block
      /\ Picture(h)[b].next = Picture(g)[b].next /\ Picture(h)[b].branch = Picture(g)[b].branch
      /\ Picture(h)[b].dead = Picture(g)[b].dead /\ Picture(h)[b].when = Picture(g)[b].when
      /\ Picture(h)[b].view = Worlds(h, array)
  <2>1. GenOK(g) /\ Rewrites(g, h, b, array)
    BY <1>1, <1>3
  <2>2. QED
    BY <2>1, RewritesShow
<1>5. Worlds(h, array) = Worlds(g, array)
  <2>1. Typed(h)
    BY <1>4 DEF GenOK
  <2>2. QED
    BY <1>1, <1>4, <2>1, WorldsKept
<1>6. Len(h.block) = Len(g.block) /\ \A c \in DOMAIN g.block : SameShape(h.block[c], g.block[c])
  BY <1>3 DEF Rewrites, SameShape
<1>7. Tested(h)
  BY <1>1, <1>4, <1>6, TestedKept
<1>8. QED
  BY <1>1, <1>3, <1>4, <1>5, <1>6, <1>7 DEF Paints, Fine, IsBox, h

\* What Merge makes, and the names it gives.
Mixed(g, h, array, view) ==
  /\ Quiet(g, h) /\ h.block = g.block /\ array \in Arrays /\ IsFiniteSet(DOMAIN array)
  /\ \A n \in DOMAIN array : Within(h, array[n])
  /\ Worlds(h, array) = view

\* Bindings.Merge in the picture: it is as before, and the array shows the joined names.
LEMMA MergeMixes ==
  ASSUME NEW g, Fine(g), NEW cond \in 1 .. g.values, NEW t \in DOMAIN g.block, NEW f \in DOMAIN g.block
  PROVE  Mixed(g, Merge(g, cond, t, f).gen, Merge(g, cond, t, f).array,
               Joined(Car(g)[cond], Picture(g)[t].view, Picture(g)[f].view))
<1> DEFINE h == Merge(g, cond, t, f).gen
           array == Merge(g, cond, t, f).array
<1>1. GenOK(g) /\ Tested(g) /\ g.panic = FALSE
  BY FineFields
<1>2. Merged(g, h, array, cond, t, f)
  BY <1>1, MergeIs
<1> HIDE DEF h, array
<1>3. Fine(h)
  <2>1. Tested(h)
    BY <1>1, <1>2 DEF Tested, Merged
  <2>2. QED
    BY <1>1, <1>2, <2>1 DEF Fine, Merged
<1>4. Quiet(g, h)
  BY <1>2, <1>3 DEF Quiet, Merged
<1>5. Mixed(g, h, array, Joined(Car(g)[cond], Picture(g)[t].view, Picture(g)[f].view))
  BY <1>2, <1>4 DEF Mixed, Merged
<1>6. QED
  BY <1>5 DEF h, array

(***************************************************************************)
(* What the statements make of the blocks.                                 *)
(***************************************************************************)

\* The block b has a new one that follows it, or that it branches to, with its names.
Forked(p, q, b, next, branch, when) ==
  /\ Drawn(p, q, {b}) /\ IsBox(q[b], next, branch, p[b].dead, when, p[b].view) /\ FreshBox(q[Len(p) + 1], p[b].view)

\* What one more block means for the picture.
LEMMA GrownIs ==
  ASSUME NEW g, Fine(g), NEW h, NEW view, Grown(g, h, view)
  PROVE  /\ Onward(g, h) /\ Drawn(Picture(g), Picture(h), {}) /\ FreshBox(Picture(h)[Len(Picture(g)) + 1], view)
         /\ DOMAIN g.block \subseteq DOMAIN h.block /\ Len(g.block) + 1 \in DOMAIN h.block
         /\ Len(h.block) = Len(g.block) + 1
<1>1. Len(Picture(g)) = Len(g.block) /\ DOMAIN g.block = 1 .. Len(g.block) /\ Len(g.block) \in Nat
  BY FineFields
<1>2. Fine(h) /\ Len(h.block) = Len(g.block) + 1
  BY DEF Grown
<1>3. DOMAIN h.block = 1 .. Len(g.block) + 1
  BY <1>2, FineFields
<1>4. QED
  BY <1>1, <1>2, <1>3 DEF Grown, Onward

\* A new block and the edge to it.
LEMMA ForkedIs ==
  ASSUME NEW p, NEW q, NEW r, NEW b \in DOMAIN p, Drawn(p, q, {}), FreshBox(q[Len(p) + 1], p[b].view),
         NEW next, NEW branch, NEW when, Boxed(q, r, b, next, branch, p[b].dead, when, p[b].view)
  PROVE  Forked(p, r, b, next, branch, when)
<1>1. Len(p) + 1 \in DOMAIN q /\ b # Len(p) + 1 /\ DOMAIN p \subseteq DOMAIN q
  BY DrawnIs
<1>2. r[Len(p) + 1] = q[Len(p) + 1] /\ \A c \in DOMAIN p : c # b => r[c] = p[c]
  BY <1>1 DEF Boxed, Drawn
<1>3. Drawn(p, r, {b})
  BY <1>2 DEF Boxed, Drawn
<1>4. QED
  BY <1>2, <1>3 DEF Forked, Boxed, FreshBox

\* Generator.NextBlock in the picture.
LEMMA NextBlockIs ==
  ASSUME NEW g, Fine(g), NEW b \in DOMAIN g.block, Picture(g)[b].next = None
  PROVE  LET p == Picture(g)
             h == NextBlock(g, b)
         IN Onward(g, h) /\ Forked(p, Picture(h), b, Len(p) + 1, p[b].branch, p[b].when)
<1> DEFINE p == Picture(g)
           h == AddClone(g, b)
           o == Len(g.block) + 1
           i == SetNext(h, b, o)
<1>1. Grown(g, h, p[b].view)
  BY AddCloneGrown
<1>2. i = NextBlock(g, b) /\ o = Len(p) + 1 /\ o \in Nat /\ b \in DOMAIN p
  <2>1. Len(Picture(g)) = Len(g.block) /\ Len(g.block) \in Nat /\ DOMAIN Picture(g) = DOMAIN g.block
    BY FineFields
  <2>2. i = NextBlock(g, b)
    BY DEF NextBlock
  <2> HIDE DEF h, i
  <2>3. QED
    BY <2>1, <2>2
<1> HIDE DEF p, h, o, i
<1>3. /\ Onward(g, h) /\ Drawn(p, Picture(h), {}) /\ FreshBox(Picture(h)[Len(p) + 1], p[b].view)
      /\ DOMAIN g.block \subseteq DOMAIN h.block
  BY <1>1, GrownIs DEF p
<1>4. Fine(h) /\ b \in DOMAIN h.block /\ Picture(h)[b] = p[b] /\ p[b].next = None
  BY <1>2, <1>3 DEF Onward, Drawn, p
<1>5. Paints(h, i, b, o, p[b].branch, p[b].dead, p[b].when, p[b].view)
  BY <1>2, <1>4, SetNextPaints DEF i
<1>6. Onward(h, i) /\ Boxed(Picture(h), Picture(i), b, o, p[b].branch, p[b].dead, p[b].when, p[b].view)
  BY <1>4, <1>5, PaintsBoxed
<1>7. Onward(g, i)
  BY <1>3, <1>6, OnwardBoth
<1>8. Forked(p, Picture(i), b, o, p[b].branch, p[b].when)
  BY <1>2, <1>3, <1>6, ForkedIs
<1>9. QED
  BY <1>2, <1>7, <1>8 DEF p

\* Generator.BranchBlock in the picture, with the condition set before it.
LEMMA BranchBlockIs ==
  ASSUME NEW g, Fine(g), NEW b \in DOMAIN g.block, NEW v \in 1 .. g.values
  PROVE  LET p == Picture(g)
             h == BranchBlock(Condition(g, b, v), b)
         IN Onward(g, h) /\ Forked(p, Picture(h), b, p[b].next, Len(p) + 1, Car(g)[v])
<1> DEFINE p == Picture(g)
           ws == Car(g)[v]
           c == Condition(g, b, v)
           h == AddClone(c, b)
           o == Len(c.block) + 1
           i == SetBranch(h, b, o)
<1>1. i = BranchBlock(c, b) /\ b \in DOMAIN p
  BY FineFields DEF BranchBlock
<1>2. Paints(g, c, b, p[b].next, p[b].branch, p[b].dead, ws, p[b].view) /\ c.block[b].cond # None
  BY CondPaints
<1> HIDE DEF p, ws, c, h, o, i
<1>3. Onward(g, c) /\ Boxed(p, Picture(c), b, p[b].next, p[b].branch, p[b].dead, ws, p[b].view)
  BY <1>2, PaintsBoxed DEF p
<1>4. Fine(c) /\ b \in DOMAIN c.block /\ Len(Picture(c)) = Len(c.block) /\ Len(p) = Len(c.block) /\ o \in Nat
  <2>1. Fine(c) /\ Len(c.block) = Len(g.block)
    BY <1>2 DEF Paints
  <2>2. /\ Len(Picture(c)) = Len(c.block) /\ Len(c.block) \in Nat /\ DOMAIN c.block = 1 .. Len(c.block)
        /\ Len(Picture(g)) = Len(g.block) /\ DOMAIN g.block = 1 .. Len(g.block)
    BY <2>1, FineFields
  <2>3. QED
    BY <2>1, <2>2 DEF p, o
<1>5. Picture(c)[b].view = p[b].view /\ IsBox(Picture(c)[b], p[b].next, p[b].branch, p[b].dead, ws, p[b].view)
  BY <1>3 DEF Boxed, IsBox
<1>6. Grown(c, h, p[b].view)
  BY <1>4, <1>5, AddCloneGrown DEF h
<1>7. /\ Onward(c, h) /\ Drawn(Picture(c), Picture(h), {}) /\ FreshBox(Picture(h)[Len(Picture(c)) + 1], p[b].view)
      /\ DOMAIN c.block \subseteq DOMAIN h.block
  BY <1>4, <1>6, GrownIs
<1>8. Fine(h) /\ b \in DOMAIN h.block /\ Picture(h)[b] = Picture(c)[b] /\ h.block[b].cond # None
  <2>1. b \in DOMAIN Picture(c)
    BY <1>4, FineFields
  <2>2. SameShape(h.block[b], c.block[b])
    BY <1>4, <1>6 DEF Grown
  <2>3. QED
    BY <1>2, <1>4, <1>7, <2>1, <2>2 DEF Onward, Drawn, SameShape
<1>9. Paints(h, i, b, p[b].next, o, p[b].dead, ws, p[b].view)
  <2>1. Paints(h, i, b, Picture(h)[b].next, o, Picture(h)[b].dead, Picture(h)[b].when, Picture(h)[b].view)
    BY <1>4, <1>8, SetBranchPaints DEF i
  <2>2. QED
    BY <1>5, <1>8, <2>1 DEF IsBox
<1>10. Onward(h, i) /\ Boxed(Picture(h), Picture(i), b, p[b].next, o, p[b].dead, ws, p[b].view)
  BY <1>8, <1>9, PaintsBoxed
<1>11. Onward(g, i)
  <2>1. Onward(g, h)
    BY <1>3, <1>7, OnwardBoth
  <2>2. QED
    BY <1>10, <2>1, OnwardBoth
<1>12. Forked(p, Picture(i), b, p[b].next, o, ws)
  <2> DEFINE q == Picture(c)
             r == Picture(h)
             s == Picture(i)
             n == Len(p)
  <2>1. /\ Pic(p) /\ Pic(q) /\ Pic(r) /\ Pic(s) /\ Len(q) = n /\ Len(r) = n + 1 /\ Len(s) = n + 1 /\ n \in Nat
        /\ o = n + 1
    BY <1>3, <1>4, <1>7, <1>10 DEF Boxed, Drawn, Pic, o
  <2>2. /\ \A d \in DOMAIN p : d # b => q[d] = p[d]
        /\ \A d \in DOMAIN q : r[d] = q[d]
        /\ \A d \in DOMAIN r : d # b => s[d] = r[d]
    BY <1>3, <1>7, <1>10 DEF Boxed, Drawn
  <2>3. IsBox(s[b], p[b].next, o, p[b].dead, ws, p[b].view)
    BY <1>10 DEF Boxed
  <2>4. FreshBox(r[n + 1], p[b].view)
    BY <1>7, <2>1
  <2> HIDE DEF q, r, s, n
  <2>5. DOMAIN p = 1 .. n /\ DOMAIN q = 1 .. n /\ DOMAIN r = 1 .. n + 1 /\ b \in 1 .. n
    <3>1. Len(p) = n
      BY DEF n
    <3>2. QED
      BY <1>1, <2>1, <3>1 DEF Pic
  <2>6. s[n + 1] = r[n + 1]
    BY <2>1, <2>2, <2>5
  <2>7. \A d \in DOMAIN p : d # b => s[d] = p[d]
    BY <2>1, <2>2, <2>5
  <2>8. Drawn(p, s, {b})
    <3>1. Len(s) = Len(p) + 1
      BY <2>1 DEF n
    <3>2. QED
      BY <2>1, <2>7, <3>1 DEF Drawn
  <2>9. FreshBox(s[Len(p) + 1], p[b].view)
    BY <2>4, <2>6 DEF n
  <2>10. QED
    BY <2>3, <2>8, <2>9 DEF Forked, s
<1>13. o = Len(p) + 1
  BY <1>4 DEF o
<1>14. QED
  BY <1>1, <1>11, <1>12, <1>13 DEF p, ws, c

\* A mov to a new value can be added.
LEMMA MovFits ==
  ASSUME NEW g, Fine(g), NEW v \in 1 .. g.values
  PROVE  LET i == Instr("mov", <<v>>, NewVal(g))
         IN Fits(g, i) /\ i.out = g.values + 1 /\ i.out # None /\ \A c : Computed(i, c) = c[v]
<1> DEFINE i == Instr("mov", <<v>>, NewVal(g))
<1>1. g.values \in Nat
  BY FineFields
<1>2. v \in Nat /\ g.values + 1 \in Nat /\ g.values + 1 # 0
  BY <1>1
<1>3. i.op = "mov" /\ i.in = <<v>> /\ i.out = g.values + 1 /\ i \in Instructions
  BY <1>2 DEF Instr, Instructions, NewVal
<1>4. Len(i.in) = 1 /\ DOMAIN i.in = {1} /\ i.in[1] = v
  BY <1>3
<1> HIDE DEF i
<1>5. Fits(g, i)
  BY <1>3, <1>4 DEF Fits
<1>6. \A c : Computed(i, c) = c[v]
  BY <1>3, <1>4 DEF Computed
<1>7. QED
  BY <1>2, <1>3, <1>5, <1>6 DEF i, None

\* A value as a bound.
LEMMA BoundIs ==
  ASSUME NEW g, Fine(g), NEW v \in 1 .. g.values
  PROVE  Bound(v) \in Bounds /\ Within(g, Bound(v)) /\ Chosen(g, Bound(v)) = Car(g)[v]
<1>1. Typed(g) /\ g.values \in Nat
  BY FineFields
<1>2. Bound(v) \in Bounds /\ Within(g, Bound(v)) /\ ~Bound(v).select /\ Bound(v).at = v
  BY <1>1 DEF Bound, Bounds, Within
<1>3. QED
  BY <1>1, <1>2, ChosenIs

\* A value is moved to a new one, and a name is bound to u, which is one of them.
Moved(g, b, name, v, u) == Set(AddInstr(g, b, Instr("mov", <<v>>, NewVal(g))), b, name, Bound(u))

\* A name is bound to a copy of a value.
LEMMA MovedIs ==
  ASSUME NEW g, Fine(g), NEW b \in DOMAIN g.block, NEW name \in Names, NEW v \in 1 .. g.values, NEW u \in {v, NewVal(g)}
  PROVE  LET p == Picture(g)
             h == Moved(g, b, name, v, u)
         IN /\ Onward(g, h)
            /\ Boxed(p, Picture(h), b, p[b].next, p[b].branch, p[b].dead, p[b].when, Rebound(p[b].view, name, Car(g)[v]))
<1> DEFINE p == Picture(g)
           m == Instr("mov", <<v>>, NewVal(g))
           h == AddInstr(g, b, m)
           n == NewVal(g)
           i == Set(h, b, name, Bound(u))
<1>1. Fits(g, m) /\ m.out = g.values + 1 /\ m.out # None /\ \A c : Computed(m, c) = c[v]
  BY MovFits
<1>2. i = Moved(g, b, name, v, u)
  BY DEF Moved
<1>3. n = g.values + 1 /\ g.values \in Nat
  BY FineFields DEF NewVal
<1> HIDE DEF p, m, h, i, n
<1>4. AddedTo(g, h, m)
  BY <1>1, AddInstrQuiet DEF h
<1>5. Quiet(g, h) /\ h.values = n /\ Car(h)[n] = Car(g)[v]
  BY <1>1, <1>3, <1>4 DEF AddedTo
<1>6. Fine(h) /\ Onward(g, h) /\ Picture(h) = p /\ b \in DOMAIN h.block
  <2>1. Fine(h) /\ Extends(g, h) /\ Picture(h) = Picture(g) /\ Len(h.block) = Len(g.block)
    BY <1>5 DEF Quiet
  <2>2. DOMAIN h.block = DOMAIN g.block
    BY <2>1, FineFields
  <2>3. QED
    BY <2>1, <2>2 DEF Onward, p
<1>7. u \in 1 .. h.values /\ Car(h)[u] = Car(g)[v]
  <2>1. CASE u = v
    BY <1>6, <2>1, OnwardCarries
  <2>2. CASE u = n
    BY <1>3, <1>5, <2>2
  <2>3. QED
    BY <2>1, <2>2 DEF n
<1>8. Bound(u) \in Bounds /\ Within(h, Bound(u)) /\ Chosen(h, Bound(u)) = Car(g)[v]
  BY <1>6, <1>7, BoundIs
<1>9. Paints(h, i, b, Picture(h)[b].next, Picture(h)[b].branch, Picture(h)[b].dead, Picture(h)[b].when,
             Rebound(Picture(h)[b].view, name, Chosen(h, Bound(u))))
  BY <1>6, <1>8, SetPaints DEF i
<1>10. Paints(h, i, b, p[b].next, p[b].branch, p[b].dead, p[b].when, Rebound(p[b].view, name, Car(g)[v]))
  BY <1>6, <1>8, <1>9
<1>11. /\ Onward(h, i)
       /\ Boxed(Picture(h), Picture(i), b, p[b].next, p[b].branch, p[b].dead, p[b].when, Rebound(p[b].view, name, Car(g)[v]))
  BY <1>6, <1>10, PaintsBoxed
<1>12. Onward(g, i)
  BY <1>6, <1>11, OnwardBoth
<1>13. QED
  BY <1>2, <1>6, <1>11, <1>12 DEF p

\* Nothing of this depends on steps that leave the picture.
LEMMA QuietOnward ==
  ASSUME NEW g, Fine(g), NEW h, Quiet(g, h)
  PROVE  /\ Fine(h) /\ Onward(g, h) /\ Picture(h) = Picture(g) /\ DOMAIN h.block = DOMAIN g.block
         /\ Len(h.block) = Len(g.block)
<1>1. Fine(h) /\ Extends(g, h) /\ Picture(h) = Picture(g) /\ Len(h.block) = Len(g.block)
  BY DEF Quiet
<1>2. DOMAIN h.block = DOMAIN g.block
  BY <1>1, FineFields
<1>3. QED
  BY <1>1, <1>2 DEF Onward

\* LRValue.Set: whatever the look for the name resolves, the name is bound to the value.
LEMMA MoveIs ==
  ASSUME NEW g, Fine(g), NEW b \in DOMAIN g.block, NEW name \in Names, NEW v \in 1 .. g.values
  PROVE  LET p == Picture(g)
             h == Move(g, b, name, v)
         IN /\ Onward(g, h)
            /\ Boxed(p, Picture(h), b, p[b].next, p[b].branch, p[b].dead, p[b].when, Rebound(p[b].view, name, Car(g)[v]))
<1> DEFINE old == Bindings(g, b)
           h == IF name \in DOMAIN old THEN Resolve(g, b, old[name]).gen ELSE g
           i == Move(g, b, name, v)
           p == Picture(g)
<1>1. i = Moved(h, b, name, v, v)
  <2>1. CASE name \in DOMAIN old
    <3>1. h = Resolve(g, b, old[name]).gen
      BY <2>1
    <3>2. i = LET x == Resolve(g, b, old[name]).gen IN Set(AddInstr(x, b, Instr("mov", <<v>>, NewVal(x))), b, name, Bound(v))
      BY <2>1 DEF Move
    <3> HIDE DEF i, h
    <3>3. QED
      BY <3>1, <3>2 DEF Moved
  <2>2. CASE name \notin DOMAIN old
    <3>1. h = g
      BY <2>2
    <3>2. i = Set(AddInstr(g, b, Instr("mov", <<v>>, NewVal(g))), b, name, Bound(v))
      BY <2>2 DEF Move
    <3> HIDE DEF i, h
    <3>3. QED
      BY <3>1, <3>2 DEF Moved
  <2>3. QED
    BY <2>1, <2>2
<1>2. Quiet(g, h)
  <2>1. CASE name \in DOMAIN old
    <3>1. old[name] \in Bounds /\ Within(g, old[name])
      BY <2>1, FineFields, BindingsIs
    <3>2. Reads(g, Resolve(g, b, old[name]).gen, Resolve(g, b, old[name]).v, Chosen(g, old[name]))
      BY <3>1, ResolveQuiet
    <3>3. QED
      BY <2>1, <3>2 DEF Reads
  <2>2. CASE name \notin DOMAIN old
    BY <2>2, QuietSelf
  <2>3. QED
    BY <2>1, <2>2
<1> HIDE DEF h, i, p
<1>3. Fine(h) /\ Onward(g, h) /\ Picture(h) = p /\ DOMAIN h.block = DOMAIN g.block
  BY <1>2, QuietOnward DEF p
<1>4. v \in 1 .. h.values /\ Car(h)[v] = Car(g)[v]
  BY <1>3, OnwardCarries
<1>5. /\ Onward(h, i)
      /\ Boxed(Picture(h), Picture(i), b, Picture(h)[b].next, Picture(h)[b].branch, Picture(h)[b].dead, Picture(h)[b].when,
               Rebound(Picture(h)[b].view, name, Car(h)[v]))
  BY <1>1, <1>3, <1>4, MovedIs
<1>6. Boxed(p, Picture(i), b, p[b].next, p[b].branch, p[b].dead, p[b].when, Rebound(p[b].view, name, Car(g)[v]))
  BY <1>3, <1>4, <1>5
<1>7. Onward(g, i)
  BY <1>3, <1>5, OnwardBoth
<1>8. QED
  BY <1>6, <1>7 DEF i, p

\* One box after the other is another one.
LEMMA BoxedTwice ==
  ASSUME NEW p, NEW q, NEW r, NEW b,
         NEW n1, NEW b1, NEW d1, NEW w1, NEW v1, Boxed(p, q, b, n1, b1, d1, w1, v1),
         NEW n2, NEW b2, NEW d2, NEW w2, NEW v2, Boxed(q, r, b, n2, b2, d2, w2, v2)
  PROVE  Boxed(p, r, b, n2, b2, d2, w2, v2)
<1>1. DOMAIN q = DOMAIN p
  BY DEF Boxed, Pic
<1>2. QED
  BY <1>1 DEF Boxed

\* The condition of a branch.
LEMMA ConditionIs ==
  ASSUME NEW g, Fine(g), NEW b \in DOMAIN g.block, Picture(g)[b].branch # None
  PROVE  g.block[b].cond \in 1 .. g.values /\ Picture(g)[b].when = Car(g)[g.block[b].cond]
<1>1. BlockShown(g, b, Picture(g)[b]) /\ g.values \in Nat
  BY BlockShownIs, FineFields
<1>2. QED
  BY <1>1 DEF BlockShown, None

\* The end of an if without else.
Joint(p, q, c, b) ==
  /\ Pic(p) /\ Pic(q) /\ Len(q) = Len(p) /\ \A d \in DOMAIN p : d # c /\ d # b => q[d] = p[d]
  /\ IsBox(q[b], c, p[b].branch, p[b].dead, p[b].when, p[b].view)
  /\ IsBox(q[c], p[c].next, p[c].branch, p[c].dead, p[c].when, Joined(p[b].when, p[c].view, p[b].view))
Join(g, m, c, b) == SetNext(SetBindings(m.gen, c, m.array), b, c)

\* The end of an if without else, in the picture.
LEMMA JoinIs ==
  ASSUME NEW g, Fine(g), NEW b \in DOMAIN g.block, NEW c \in DOMAIN g.block, b # c,
         Picture(g)[b].branch # None, Picture(g)[b].next = None
  PROVE  LET h == Join(g, Merge(g, g.block[b].cond, c, b), c, b) IN Onward(g, h) /\ Joint(Picture(g), Picture(h), c, b)
<1> DEFINE p == Picture(g)
           v == g.block[b].cond
           h == Merge(g, v, c, b).gen
           array == Merge(g, v, c, b).array
           i == SetBindings(h, c, array)
           j == SetNext(i, b, c)
           view == Joined(p[b].when, p[c].view, p[b].view)
<1>1. v \in 1 .. g.values /\ p[b].when = Car(g)[v]
  BY ConditionIs
<1>2. j = Join(g, Merge(g, v, c, b), c, b)
  BY DEF Join
<1>3. b \in DOMAIN p /\ c \in DOMAIN p /\ c \in Nat
  <2>1. DOMAIN Picture(g) = DOMAIN g.block /\ DOMAIN g.block = 1 .. Len(g.block)
    BY FineFields
  <2>2. QED
    BY <2>1
<1> HIDE DEF p, v, h, array, i, j
<1>4. Mixed(g, h, array, view)
  BY <1>1, MergeMixes DEF p, h, array
<1> HIDE DEF view
<1>5. Quiet(g, h) /\ array \in Arrays /\ IsFiniteSet(DOMAIN array) /\ (\A n \in DOMAIN array : Within(h, array[n]))
      /\ Worlds(h, array) = view
  BY <1>4 DEF Mixed
<1>6. Fine(h) /\ Onward(g, h) /\ Picture(h) = p /\ DOMAIN h.block = DOMAIN g.block
  BY <1>5, QuietOnward DEF p
<1>7. Paints(h, i, c, p[c].next, p[c].branch, p[c].dead, p[c].when, view)
  <2>1. Paints(h, i, c, Picture(h)[c].next, Picture(h)[c].branch, Picture(h)[c].dead, Picture(h)[c].when, Worlds(h, array))
    BY <1>5, <1>6, SetBindingsPaints DEF i
  <2>2. QED
    BY <1>5, <1>6, <2>1
<1>8. Onward(h, i) /\ Boxed(p, Picture(i), c, p[c].next, p[c].branch, p[c].dead, p[c].when, view)
  <2>1. Onward(h, i) /\ Boxed(Picture(h), Picture(i), c, p[c].next, p[c].branch, p[c].dead, p[c].when, view)
    BY <1>6, <1>7, PaintsBoxed
  <2>2. QED
    BY <1>6, <2>1
<1>9. Fine(i) /\ b \in DOMAIN i.block /\ Picture(i)[b] = p[b] /\ p[b].next = None
  <2>1. Fine(i) /\ Picture(i)[b] = p[b]
    BY <1>3, <1>8 DEF Onward, Boxed
  <2>2. DOMAIN Picture(i) = DOMAIN i.block /\ DOMAIN Picture(i) = DOMAIN p
    BY <1>8, <2>1, FineFields DEF Boxed, Pic
  <2>3. QED
    BY <1>3, <2>1, <2>2 DEF p
<1>10. Onward(i, j) /\ Boxed(Picture(i), Picture(j), b, c, p[b].branch, p[b].dead, p[b].when, p[b].view)
  <2>1. Paints(i, j, b, c, p[b].branch, p[b].dead, p[b].when, p[b].view)
    BY <1>3, <1>9, SetNextPaints DEF j
  <2>2. QED
    BY <1>9, <2>1, PaintsBoxed
<1>11. Onward(g, j)
  <2>1. Onward(g, i)
    BY <1>6, <1>8, OnwardBoth
  <2>2. QED
    BY <1>10, <2>1, OnwardBoth
<1>12. Joint(p, Picture(j), c, b)
  <2> DEFINE q == Picture(i)
             r == Picture(j)
  <2>1. Boxed(p, q, c, p[c].next, p[c].branch, p[c].dead, p[c].when, view)
        /\ Boxed(q, r, b, c, p[b].branch, p[b].dead, p[b].when, p[b].view)
    BY <1>8, <1>10
  <2> HIDE DEF q, r
  <2>2. DOMAIN q = DOMAIN p
    BY <2>1 DEF Boxed, Pic
  <2>3. r[c] = q[c] /\ IsBox(q[c], p[c].next, p[c].branch, p[c].dead, p[c].when, view)
    BY <1>3, <2>1, <2>2 DEF Boxed
  <2>4. Joint(p, r, c, b)
    BY <2>1, <2>2, <2>3 DEF Boxed, Joint, view
  <2>5. QED
    BY <2>4 DEF r
<1>13. QED
  BY <1>2, <1>11, <1>12 DEF p, v

\* A return.
Left(g, b, o) == Deaden(SetNext(g, b, o), b)

\* A return, in the picture.
LEMMA LeftIs ==
  ASSUME NEW g, Fine(g), NEW b \in DOMAIN g.block, NEW v \in 1 .. g.values, NEW o \in Nat, Picture(g)[b].next = None
  PROVE  LET p == Picture(g)
             h == Left(Moved(g, b, Ret, v, NewVal(g)), b, o)
         IN /\ Onward(g, h)
            /\ Boxed(p, Picture(h), b, o, p[b].branch, TRUE, p[b].when, Rebound(p[b].view, Ret, Car(g)[v]))
<1> DEFINE p == Picture(g)
           view == Rebound(p[b].view, Ret, Car(g)[v])
           h == Moved(g, b, Ret, v, NewVal(g))
           i == SetNext(h, b, o)
           j == Deaden(i, b)
<1>1. j = Left(h, b, o)
  BY DEF Left
<1>2. Ret \in Names
  BY DEF Names
<1>3. b \in DOMAIN p
  BY FineFields
<1> HIDE DEF p, view, h, i, j
<1>4. Onward(g, h) /\ Boxed(p, Picture(h), b, p[b].next, p[b].branch, p[b].dead, p[b].when, view)
  BY <1>2, MovedIs DEF p, view, h
<1>5. /\ Fine(h) /\ b \in DOMAIN h.block /\ Picture(h)[b].next = None /\ Picture(h)[b].branch = p[b].branch
      /\ Picture(h)[b].dead = p[b].dead /\ Picture(h)[b].when = p[b].when /\ Picture(h)[b].view = view
  <2>1. Fine(h) /\ IsBox(Picture(h)[b], p[b].next, p[b].branch, p[b].dead, p[b].when, view)
    BY <1>4 DEF Onward, Boxed
  <2>2. DOMAIN Picture(h) = DOMAIN h.block /\ DOMAIN Picture(h) = DOMAIN p
    BY <1>4, <2>1, FineFields DEF Boxed, Pic
  <2>3. QED
    BY <1>3, <2>1, <2>2 DEF IsBox, p
<1>6. Onward(h, i) /\ Boxed(Picture(h), Picture(i), b, o, p[b].branch, p[b].dead, p[b].when, view)
  <2>1. Paints(h, i, b, o, p[b].branch, p[b].dead, p[b].when, view)
    BY <1>5, SetNextPaints DEF i
  <2>2. QED
    BY <1>5, <2>1, PaintsBoxed
<1>7. /\ Fine(i) /\ b \in DOMAIN i.block /\ Picture(i)[b].next = o /\ Picture(i)[b].branch = p[b].branch
      /\ Picture(i)[b].when = p[b].when /\ Picture(i)[b].view = view
  <2>1. Fine(i) /\ IsBox(Picture(i)[b], o, p[b].branch, p[b].dead, p[b].when, view)
    BY <1>6 DEF Onward, Boxed
  <2>2. /\ DOMAIN Picture(i) = DOMAIN i.block /\ DOMAIN Picture(h) = DOMAIN h.block
        /\ DOMAIN Picture(i) = DOMAIN Picture(h)
    BY <1>5, <1>6, <2>1, FineFields DEF Boxed, Pic
  <2>3. QED
    BY <1>5, <2>1, <2>2 DEF IsBox
<1>8. Onward(i, j) /\ Boxed(Picture(i), Picture(j), b, o, p[b].branch, TRUE, p[b].when, view)
  <2>1. Paints(i, j, b, o, p[b].branch, TRUE, p[b].when, view)
    BY <1>7, DeadPaints DEF j
  <2>2. QED
    BY <1>7, <2>1, PaintsBoxed
<1>9. Onward(g, j)
  <2>1. Onward(g, i)
    BY <1>4, <1>6, OnwardBoth
  <2>2. QED
    BY <1>8, <2>1, OnwardBoth
<1>10. Boxed(p, Picture(j), b, o, p[b].branch, TRUE, p[b].when, view)
  <2>1. Boxed(p, Picture(i), b, o, p[b].branch, p[b].dead, p[b].when, view)
    BY <1>4, <1>6, BoxedTwice
  <2>2. \A d : Boxed(Picture(i), Picture(j), b, o, p[b].branch, d, p[b].when, view)
                => Boxed(p, Picture(j), b, o, p[b].branch, d, p[b].when, view)
    BY <2>1, BoxedTwice
  <2>3. QED
    BY <1>8, <2>2, Zenon
<1>11. QED
  BY <1>1, <1>9, <1>10 DEF p, view, h

\* The end of an if with else: both branches lead to a new block.
Met(p, q, t, c, view) ==
  /\ Drawn(p, q, {t, c})
  /\ IsBox(q[t], Len(p) + 1, p[t].branch, p[t].dead, p[t].when, p[t].view)
  /\ IsBox(q[c], Len(p) + 1, p[c].branch, p[c].dead, p[c].when, p[c].view)
  /\ FreshBox(q[Len(p) + 1], view)
Meet(g, m, t, c, new) == SetNext(SetNext(AddBlock(m.gen, m.array), t, new), c, new)

\* The end of an if with else, in the picture.
LEMMA MeetIs ==
  ASSUME NEW g, Fine(g), NEW b \in DOMAIN g.block, NEW t \in DOMAIN g.block, NEW c \in DOMAIN g.block, t # c,
         Picture(g)[b].branch # None, Picture(g)[t].next = None, Picture(g)[c].next = None
  PROVE  LET p == Picture(g)
             h == Meet(g, Merge(g, g.block[b].cond, t, c), t, c, Len(g.block) + 1)
         IN Onward(g, h) /\ Met(p, Picture(h), t, c, Joined(p[b].when, p[t].view, p[c].view))
<1> DEFINE p == Picture(g)
           v == g.block[b].cond
           n == Len(g.block) + 1
           h == Merge(g, v, t, c).gen
           array == Merge(g, v, t, c).array
           i == AddBlock(h, array)
           j == SetNext(i, t, n)
           k == SetNext(j, c, n)
           view == Joined(p[b].when, p[t].view, p[c].view)
<1>1. v \in 1 .. g.values /\ p[b].when = Car(g)[v]
  BY ConditionIs
<1>2. k = Meet(g, Merge(g, v, t, c), t, c, n)
  BY DEF Meet
<1>3. t \in DOMAIN p /\ c \in DOMAIN p /\ n = Len(p) + 1 /\ n \in Nat /\ Pic(p)
  <2>1. /\ DOMAIN Picture(g) = DOMAIN g.block /\ Len(Picture(g)) = Len(g.block) /\ Len(g.block) \in Nat
        /\ Pic(Picture(g))
    BY FineFields
  <2> HIDE DEF h, array, i, j, k
  <2>2. QED
    BY <2>1
<1>4. p[t].next = None /\ p[c].next = None
  OBVIOUS
<1> HIDE DEF p, v, h, array, i, j, k, n
<1>5. Mixed(g, h, array, view)
  BY <1>1, MergeMixes DEF p, h, array
<1> HIDE DEF view
<1>6. Quiet(g, h) /\ array \in Arrays /\ IsFiniteSet(DOMAIN array) /\ (\A x \in DOMAIN array : Within(h, array[x]))
      /\ Worlds(h, array) = view
  BY <1>5 DEF Mixed
<1>7. Fine(h) /\ Onward(g, h) /\ Picture(h) = p /\ DOMAIN h.block = DOMAIN g.block
  BY <1>6, QuietOnward DEF p
<1>8. Onward(h, i) /\ Drawn(p, Picture(i), {}) /\ FreshBox(Picture(i)[n], view)
  <2>1. Grown(h, i, Worlds(h, array))
    BY <1>6, <1>7, AddBlockGrown DEF i
  <2>2. Onward(h, i) /\ Drawn(Picture(h), Picture(i), {}) /\ FreshBox(Picture(i)[Len(Picture(h)) + 1], Worlds(h, array))
    BY <1>7, <2>1, GrownIs
  <2>3. QED
    BY <1>3, <1>6, <1>7, <2>2
<1>9. Fine(i) /\ t \in DOMAIN i.block /\ c \in DOMAIN i.block /\ Picture(i)[t] = p[t] /\ Picture(i)[c] = p[c]
  <2>1. Fine(i) /\ Picture(i)[t] = p[t] /\ Picture(i)[c] = p[c]
    BY <1>3, <1>8 DEF Onward, Drawn
  <2>2. DOMAIN Picture(i) = DOMAIN i.block /\ DOMAIN p \subseteq DOMAIN Picture(i)
    BY <1>8, <2>1, FineFields, DrawnIs
  <2>3. QED
    BY <1>3, <2>1, <2>2
<1>10. Onward(i, j) /\ Boxed(Picture(i), Picture(j), t, n, p[t].branch, p[t].dead, p[t].when, p[t].view)
  <2>1. Paints(i, j, t, n, p[t].branch, p[t].dead, p[t].when, p[t].view)
    BY <1>3, <1>4, <1>9, SetNextPaints DEF j
  <2>2. QED
    BY <1>9, <2>1, PaintsBoxed
<1>11. Fine(j) /\ c \in DOMAIN j.block /\ Picture(j)[c] = p[c]
  <2>1. DOMAIN Picture(i) = DOMAIN i.block
    BY <1>9, FineFields
  <2>2. Fine(j) /\ Picture(j)[c] = Picture(i)[c]
    BY <1>9, <1>10, <2>1 DEF Onward, Boxed
  <2>3. DOMAIN Picture(j) = DOMAIN j.block /\ DOMAIN Picture(j) = DOMAIN Picture(i)
    BY <1>10, <2>2, FineFields DEF Boxed, Pic
  <2>4. QED
    BY <1>9, <2>1, <2>2, <2>3
<1>12. Onward(j, k) /\ Boxed(Picture(j), Picture(k), c, n, p[c].branch, p[c].dead, p[c].when, p[c].view)
  <2>1. Paints(j, k, c, n, p[c].branch, p[c].dead, p[c].when, p[c].view)
    BY <1>3, <1>4, <1>11, SetNextPaints DEF k
  <2>2. QED
    BY <1>11, <2>1, PaintsBoxed
<1>13. Onward(g, k)
  <2>1. Onward(g, i)
    BY <1>7, <1>8, OnwardBoth
  <2>2. Onward(g, j)
    BY <1>10, <2>1, OnwardBoth
  <2>3. QED
    BY <1>12, <2>2, OnwardBoth
<1>14. Met(p, Picture(k), t, c, view)
  <2> DEFINE q == Picture(i)
             r == Picture(j)
             s == Picture(k)
  <2>1. /\ Drawn(p, q, {}) /\ FreshBox(q[n], view)
        /\ Boxed(q, r, t, n, p[t].branch, p[t].dead, p[t].when, p[t].view)
        /\ Boxed(r, s, c, n, p[c].branch, p[c].dead, p[c].when, p[c].view)
    BY <1>8, <1>10, <1>12
  <2> HIDE DEF q, r, s
  <2>2. DOMAIN r = DOMAIN q /\ n \in DOMAIN q /\ n \notin DOMAIN p /\ DOMAIN p \subseteq DOMAIN q
    BY <1>3, <2>1, DrawnIs DEF Boxed, Pic
  <2>3. /\ \A d \in DOMAIN p : d # t /\ d # c => s[d] = p[d]
        /\ s[n] = q[n] /\ s[t] = r[t]
    BY <1>3, <2>1, <2>2 DEF Boxed, Drawn
  <2>4. Pic(p) /\ Pic(s) /\ Len(s) = Len(p) + 1
    BY <2>1 DEF Boxed, Drawn
  <2>5. Drawn(p, s, {t, c})
    BY <2>3, <2>4 DEF Drawn
  <2>6. IsBox(s[t], n, p[t].branch, p[t].dead, p[t].when, p[t].view) /\ IsBox(s[c], n, p[c].branch, p[c].dead, p[c].when, p[c].view)
    BY <2>1, <2>3 DEF Boxed
  <2>7. FreshBox(s[n], view)
    BY <2>1, <2>3
  <2>8. Met(p, s, t, c, view)
    BY <1>3, <2>5, <2>6, <2>7 DEF Met
  <2>9. QED
    BY <2>8 DEF s
<1>15. QED
  BY <1>2, <1>13, <1>14 DEF p, v, n, view

\* The bindings of a block that has no names.
LEMMA NoBindingsIs ==
  ASSUME NEW g
  PROVE  /\ NoBindings \in Arrays /\ DOMAIN NoBindings = {} /\ IsFiniteSet(DOMAIN NoBindings)
         /\ \A n \in DOMAIN NoBindings : Within(g, NoBindings[n])
         /\ DOMAIN Worlds(g, NoBindings) = {}
<1>1. DOMAIN NoBindings = {} /\ NoBindings \in [{} -> Bounds]
  BY DEF NoBindings
<1>2. NoBindings \in Arrays
  BY <1>1 DEF Arrays
<1>3. IsFiniteSet({})
  BY FS_EmptySet
<1>4. DOMAIN Worlds(g, NoBindings) = {}
  BY <1>1 DEF Worlds
<1>5. QED
  BY <1>1, <1>2, <1>3, <1>4

\* The end of an if both of whose branches have returned: a block that is dead.
DeadEnd(p, q) ==
  /\ Drawn(p, q, {}) /\ q[Len(p) + 1].next = None /\ q[Len(p) + 1].branch = None /\ q[Len(p) + 1].dead
  /\ q[Len(p) + 1].when = {}

\* The dead block after two branches that returned.
LEMMA DeadEndIs ==
  ASSUME NEW g, Fine(g)
  PROVE  LET h == Deaden(AddBlock(g, NoBindings), Len(g.block) + 1) IN Onward(g, h) /\ DeadEnd(Picture(g), Picture(h))
<1> DEFINE p == Picture(g)
           n == Len(g.block) + 1
           h == AddBlock(g, NoBindings)
           i == Deaden(h, n)
<1>1. n = Len(p) + 1
  BY FineFields
<1> HIDE DEF p, n, h, i
<1>2. Grown(g, h, Worlds(g, NoBindings))
  BY NoBindingsIs, AddBlockGrown DEF h
<1>3. Onward(g, h) /\ Drawn(p, Picture(h), {}) /\ FreshBox(Picture(h)[n], Worlds(g, NoBindings)) /\ n \in DOMAIN h.block
  BY <1>1, <1>2, GrownIs DEF p, n
<1>4. Fine(h)
  BY <1>3 DEF Onward
<1>5. Onward(h, i) /\ Boxed(Picture(h), Picture(i), n, Picture(h)[n].next, Picture(h)[n].branch, TRUE, Picture(h)[n].when, Picture(h)[n].view)
  <2>1. Paints(h, i, n, Picture(h)[n].next, Picture(h)[n].branch, TRUE, Picture(h)[n].when, Picture(h)[n].view)
    BY <1>3, <1>4, DeadPaints DEF i
  <2>2. QED
    BY <1>4, <2>1, PaintsBoxed
<1>6. Onward(g, i)
  BY <1>3, <1>5, OnwardBoth
<1>7. DeadEnd(p, Picture(i))
  <2> DEFINE q == Picture(h)
             r == Picture(i)
  <2>1. /\ Drawn(p, q, {}) /\ FreshBox(q[n], Worlds(g, NoBindings))
        /\ Boxed(q, r, n, q[n].next, q[n].branch, TRUE, q[n].when, q[n].view)
    BY <1>3, <1>5
  <2> HIDE DEF q, r
  <2>2. n \notin DOMAIN p /\ DOMAIN p \subseteq DOMAIN q
    BY <1>1, <2>1, DrawnIs
  <2>3. Drawn(p, r, {})
    BY <2>1, <2>2 DEF Boxed, Drawn
  <2>4. DeadEnd(p, r)
    BY <1>1, <2>1, <2>3 DEF DeadEnd, Boxed, IsBox, FreshBox
  <2>5. QED
    BY <2>4 DEF r
<1>8. QED
  BY <1>6, <1>7 DEF p, h, n, i

\* What Set does, for its two cases.
SetIn(g, b, array) ==
  IF g.block[b].bindings.shared
  THEN [g EXCEPT !.array = Append(g.array, array),
                 !.block = [g.block EXCEPT ![b] = Rebind(g.block[b], Own(Len(g.array) + 1))]]
  ELSE [g EXCEPT !.array = [g.array EXCEPT ![g.block[b].bindings.at] = array]]

\* Set writes the array in which the name is bound anew.
LEMMA SetInIs ==
  ASSUME NEW g, NEW b, NEW name, NEW bound
  PROVE  Set(g, b, name, bound) = SetIn(g, b, Bind(Bindings(g, b), name, bound))
BY DEF Set, SetIn, Bind, Rebind, Own

\* To give a number to a value before or after it is bound is the same.
LEMMA SetNumbered ==
  ASSUME NEW g, Typed(g), NEW b \in DOMAIN g.block, NEW name, NEW bound
  PROVE  [Set(g, b, name, bound) EXCEPT !.values = @ + 1] = Set(Numbered(g), b, name, bound)
<1> DEFINE h == Numbered(g)
           array == Bind(Bindings(g, b), name, bound)
           k == g.block
           l == g.array
           m == g.select
           x == g.values
           p == g.panic
           bs == [k EXCEPT ![b] = Rebind(k[b], Own(Len(l) + 1))]
           a1 == Append(l, array)
           a2 == [l EXCEPT ![k[b].bindings.at] = array]
           i == Set(g, b, name, bound)
           j == Set(h, b, name, bound)
           sh == k[b].bindings.shared
<1>1. g = [block |-> k, array |-> l, select |-> m, values |-> x, panic |-> p]
  BY TypedFields
<1>2. h = [g EXCEPT !.values = x + 1]
  BY DEF Numbered
<1> HIDE DEF h
<1>3. h.block = k /\ h.array = l /\ h = [block |-> k, array |-> l, select |-> m, values |-> x + 1, panic |-> p]
  <2> HIDE DEF k, l, m, x, p
  <2>1. QED
    BY <1>1, <1>2
<1>4. Bindings(h, b) = Bindings(g, b)
  BY <1>3 DEF Bindings
<1>5. i = SetIn(g, b, array) /\ j = SetIn(h, b, array)
  BY <1>4, SetInIs
<1>6. i = IF sh THEN [g EXCEPT !.array = a1, !.block = bs] ELSE [g EXCEPT !.array = a2]
  BY <1>5 DEF SetIn
<1>7. j = IF sh THEN [h EXCEPT !.array = a1, !.block = bs] ELSE [h EXCEPT !.array = a2]
  <2> HIDE DEF k, l, m, x, p, array, i, j
  <2>1. j = SetIn(h, b, array)
    BY <1>5
  <2>2. QED
    BY <1>3, <2>1 DEF SetIn
<1> HIDE DEF i, j, k, l, m, x, p, bs, a1, a2, sh
<1>8. CASE sh
  <2>1. i = [block |-> bs, array |-> a1, select |-> m, values |-> x, panic |-> p]
    BY <1>1, <1>6, <1>8
  <2>2. j = [block |-> bs, array |-> a1, select |-> m, values |-> x + 1, panic |-> p]
    <3>1. h = [block |-> k, array |-> l, select |-> m, values |-> x + 1, panic |-> p] /\ j = [h EXCEPT !.array = a1, !.block = bs]
      BY <1>3, <1>7, <1>8
    <3>2. QED
      BY <3>1
  <2>3. [i EXCEPT !.values = @ + 1] = j
    BY <2>1, <2>2
  <2>4. QED
    BY <2>3 DEF i, j, h
<1>9. CASE ~sh
  <2>1. i = [block |-> k, array |-> a2, select |-> m, values |-> x, panic |-> p]
    BY <1>1, <1>6, <1>9
  <2>2. j = [block |-> k, array |-> a2, select |-> m, values |-> x + 1, panic |-> p]
    BY <1>3, <1>7, <1>9
  <2>3. [i EXCEPT !.values = @ + 1] = j
    BY <2>1, <2>2
  <2>4. QED
    BY <2>3 DEF i, j, h
<1>10. QED
  BY <1>8, <1>9

\* So it is with an instruction of the block.
LEMMA RebindMore ==
  ASSUME NEW z \in Blocks, NEW handle, NEW i
  PROVE  LET a == Rebind(z, handle)
             c == [z EXCEPT !.instr = Append(z.instr, i)]
         IN [a EXCEPT !.instr = Append(a.instr, i)] = Rebind(c, handle)
<1> DEFINE q == z.bindings
           r == z.instr
           s == z.next
           t == z.branch
           u == z.cond
           v == z.dead
           a == Rebind(z, handle)
           c == [z EXCEPT !.instr = Append(z.instr, i)]
           d == Rebind(c, handle)
<1>1. z = [bindings |-> q, instr |-> r, next |-> s, branch |-> t, cond |-> u, dead |-> v]
  BY BlockFields
<1>2. a = [z EXCEPT !.bindings = handle] /\ c = [z EXCEPT !.instr = Append(r, i)] /\ d = [c EXCEPT !.bindings = handle]
  BY DEF Rebind
<1> HIDE DEF q, r, s, t, u, v, a, c, d
<1>3. a = [bindings |-> handle, instr |-> r, next |-> s, branch |-> t, cond |-> u, dead |-> v]
  BY <1>1, <1>2
<1>4. c = [bindings |-> q, instr |-> Append(r, i), next |-> s, branch |-> t, cond |-> u, dead |-> v]
  BY <1>1, <1>2
<1>5. d = [bindings |-> handle, instr |-> Append(r, i), next |-> s, branch |-> t, cond |-> u, dead |-> v]
  <2> DEFINE x == Append(r, i)
  <2>1. d = [c EXCEPT !.bindings = handle] /\ c = [bindings |-> q, instr |-> x, next |-> s, branch |-> t, cond |-> u, dead |-> v]
    BY <1>2, <1>4
  <2> HIDE DEF x
  <2>2. d = [bindings |-> handle, instr |-> x, next |-> s, branch |-> t, cond |-> u, dead |-> v]
    BY <2>1
  <2>3. QED
    BY <2>2 DEF x
<1>6. [a EXCEPT !.instr = Append(a.instr, i)] = [bindings |-> handle, instr |-> Append(r, i), next |-> s, branch |-> t, cond |-> u, dead |-> v]
  BY <1>3
<1>7. QED
  BY <1>5, <1>6 DEF a, c, d

\* To add the instruction before or after the name is bound is the same.
LEMMA SetAdded ==
  ASSUME NEW g, Typed(g), NEW b \in DOMAIN g.block, NEW name, NEW bound, NEW i
  PROVE  AddInstr(Set(g, b, name, bound), b, i) = Set(AddInstr(g, b, i), b, name, bound)
<1> DEFINE array == Bind(Bindings(g, b), name, bound)
           k == g.block
           l == g.array
           m == g.select
           x == g.values
           p == g.panic
           z == k[b]
           y == [z EXCEPT !.instr = Append(z.instr, i)]
           own == Own(Len(l) + 1)
           a == Rebind(z, own)
           k1 == [k EXCEPT ![b] = y]
           k2 == [k EXCEPT ![b] = a]
           k3 == [k EXCEPT ![b] = Rebind(y, own)]
           a1 == Append(l, array)
           a2 == [l EXCEPT ![z.bindings.at] = array]
           n == IF i.out > x THEN i.out ELSE x
           sh == z.bindings.shared
           h == AddInstr(g, b, i)
           d == Set(g, b, name, bound)
           e == Set(h, b, name, bound)
           f == AddInstr(d, b, i)
<1>1. g = [block |-> k, array |-> l, select |-> m, values |-> x, panic |-> p] /\ z \in Blocks /\ k \in Seq(Blocks)
  BY TypedFields
<1>2. h = [g EXCEPT !.block = k1, !.values = n]
  BY DEF AddInstr
<1>3. y.bindings = z.bindings
  BY <1>1 DEF Blocks
<1>4. d = IF sh THEN [g EXCEPT !.array = a1, !.block = k2] ELSE [g EXCEPT !.array = a2]
  BY SetInIs, Zenon DEF SetIn
<1>5. [a EXCEPT !.instr = Append(a.instr, i)] = Rebind(y, own)
  BY <1>1, RebindMore
<1>6. f = [d EXCEPT !.block = [d.block EXCEPT ![b] = [d.block[b] EXCEPT !.instr = Append(d.block[b].instr, i)]],
                    !.values = IF i.out > d.values THEN i.out ELSE d.values]
  BY DEF AddInstr
<1>7. b \in DOMAIN k
  OBVIOUS
<1> HIDE DEF h, d, e, f, a, y, own
<1>8. /\ h = [block |-> k1, array |-> l, select |-> m, values |-> n, panic |-> p] /\ h.block[b] = y /\ h.array = l
      /\ h.block = k1
  <2>1. k1[b] = y
    OBVIOUS
  <2> HIDE DEF k, l, m, x, p, k1, n
  <2>2. QED
    BY <1>1, <1>2, <2>1
<1>9. Bindings(h, b) = Bindings(g, b)
  BY <1>3, <1>8 DEF Bindings
<1>10. e = IF sh THEN [h EXCEPT !.array = a1, !.block = k3] ELSE [h EXCEPT !.array = a2]
  <2>1. e = SetIn(h, b, array)
    BY <1>9, SetInIs DEF e
  <2>2. h.block[b].bindings = z.bindings /\ h.block[b] = y /\ h.array = l /\ h.block = k1
    BY <1>3, <1>8
  <2>3. [k1 EXCEPT ![b] = Rebind(y, own)] = k3
    BY <1>7
  <2> HIDE DEF k, l, m, x, p, z, k1, k3, array
  <2>4. e = IF z.bindings.shared THEN [h EXCEPT !.array = Append(l, array), !.block = [k1 EXCEPT ![b] = Rebind(y, Own(Len(l) + 1))]]
            ELSE [h EXCEPT !.array = [l EXCEPT ![z.bindings.at] = array]]
    BY <2>1, <2>2 DEF SetIn
  <2>5. QED
    BY <2>3, <2>4 DEF own
<1>11. CASE sh
  <2>1. [k2 EXCEPT ![b] = Rebind(y, own)] = k3 /\ k2[b] = a
    BY <1>7
  <2> HIDE DEF k, l, m, x, p, z, k1, k2, k3, a1, a2, sh, n
  <2>2. d = [block |-> k2, array |-> a1, select |-> m, values |-> x, panic |-> p]
    BY <1>1, <1>4, <1>11
  <2>3. e = [block |-> k3, array |-> a1, select |-> m, values |-> n, panic |-> p]
    BY <1>8, <1>10, <1>11
  <2>4. d.block = k2 /\ d.values = x
    BY <2>2
  <2>5. [d.block EXCEPT ![b] = [d.block[b] EXCEPT !.instr = Append(d.block[b].instr, i)]] = k3
    BY <1>5, <2>1, <2>4
  <2>6. (IF i.out > d.values THEN i.out ELSE d.values) = n
    BY <2>4 DEF n
  <2>7. f = [d EXCEPT !.block = k3, !.values = n]
    BY <1>6, <2>5, <2>6
  <2>8. f = [block |-> k3, array |-> a1, select |-> m, values |-> n, panic |-> p]
    BY <2>2, <2>7
  <2>9. QED
    BY <2>3, <2>8 DEF d, e, f, h
<1>12. CASE ~sh
  <2> HIDE DEF k, l, m, x, p, z, k2, k3, a1, a2, sh, n
  <2>1. d = [block |-> k, array |-> a2, select |-> m, values |-> x, panic |-> p]
    BY <1>1, <1>4, <1>12
  <2>2. e = [block |-> k1, array |-> a2, select |-> m, values |-> n, panic |-> p]
    <3> HIDE DEF k1
    <3>1. QED
      BY <1>8, <1>10, <1>12
  <2>3. d.block = k /\ d.values = x
    BY <2>1
  <2>4. [d.block EXCEPT ![b] = [d.block[b] EXCEPT !.instr = Append(d.block[b].instr, i)]] = k1
    BY <2>3 DEF y, z
  <2>5. (IF i.out > d.values THEN i.out ELSE d.values) = n
    BY <2>3 DEF n
  <2> HIDE DEF k1
  <2>6. f = [d EXCEPT !.block = k1, !.values = n]
    BY <1>6, <2>4, <2>5
  <2>7. f = [block |-> k1, array |-> a2, select |-> m, values |-> n, panic |-> p]
    BY <2>1, <2>6
  <2>8. QED
    BY <2>2, <2>7 DEF d, e, f, h
<1>13. QED
  BY <1>11, <1>12

\* The constants are true in all worlds and in none.
LEMMA ConstantsCarry ==
  ASSUME NEW g, Fine(g)
  PROVE  Car(g)[True] = World /\ Car(g)[False] = {}
<1>1. Typed(g) /\ True \in 1 .. g.values /\ False \in 1 .. g.values
  BY FineFields
<1>2. Car(g)[True] = CarriedBy(MadeBy(g), Car(g), True) /\ Car(g)[False] = CarriedBy(MadeBy(g), Car(g), False)
  BY <1>1, CarIs
<1>3. True # False
  BY DEF True, False
<1>4. QED
  BY <1>2, <1>3 DEF CarriedBy

\* A name is bound to a value there is.
LEMMA SetValueIs ==
  ASSUME NEW g, Fine(g), NEW b \in DOMAIN g.block, NEW name \in Names, NEW v \in 1 .. g.values
  PROVE  LET p == Picture(g)
             h == Set(g, b, name, Bound(v))
         IN /\ Onward(g, h)
            /\ Boxed(p, Picture(h), b, p[b].next, p[b].branch, p[b].dead, p[b].when, Rebound(p[b].view, name, Car(g)[v]))
<1>1. Bound(v) \in Bounds /\ Within(g, Bound(v)) /\ Chosen(g, Bound(v)) = Car(g)[v]
  BY BoundIs
<1>2. Paints(g, Set(g, b, name, Bound(v)), b, Picture(g)[b].next, Picture(g)[b].branch, Picture(g)[b].dead,
                Picture(g)[b].when, Rebound(Picture(g)[b].view, name, Car(g)[v]))
  BY <1>1, SetPaints
<1>3. QED
  BY <1>2, PaintsBoxed

\* The definition of a variable: its value has a number before the instruction is there.
Defined(g, b, name) == AddInstr(Set(g, b, name, Bound(NewVal(g))), b, Instr("mov", <<False>>, NewVal(g)))

\* A variable that is defined is bound to false.
LEMMA DefinedIs ==
  ASSUME NEW g, Fine(g), NEW b \in DOMAIN g.block, NEW name \in Names
  PROVE  LET p == Picture(g)
             h == Defined(g, b, name)
         IN /\ Onward(g, h)
            /\ Boxed(p, Picture(h), b, p[b].next, p[b].branch, p[b].dead, p[b].when, Rebound(p[b].view, name, {}))
<1>1. Typed(g) /\ False \in 1 .. g.values
  BY FineFields
<1>2. Defined(g, b, name) = Moved(g, b, name, False, NewVal(g))
  BY <1>1, SetAdded DEF Defined, Moved
<1>3. Car(g)[False] = {}
  BY ConstantsCarry
<1>4. NewVal(g) \in {False, NewVal(g)}
  OBVIOUS
<1> DEFINE p == Picture(g)
           h == Moved(g, b, name, False, NewVal(g))
<1>5. /\ Onward(g, h)
      /\ Boxed(p, Picture(h), b, p[b].next, p[b].branch, p[b].dead, p[b].when, Rebound(p[b].view, name, Car(g)[False]))
  BY <1>1, <1>4, MovedIs
<1> HIDE DEF p, h
<1>6. QED
  BY <1>2, <1>3, <1>5 DEF p, h

\* The blocks of a call, and the value of the argument.
Callee(v) == [n \in {Param} |-> Bound(v)]
CalleeView(ws) == [n \in {Param} |-> ws]

\* The bindings of the called function: its argument.
LEMMA CalleeIs ==
  ASSUME NEW g, Fine(g), NEW v \in 1 .. g.values
  PROVE  /\ Callee(v) \in Arrays /\ IsFiniteSet(DOMAIN Callee(v)) /\ \A n \in DOMAIN Callee(v) : Within(g, Callee(v)[n])
         /\ Worlds(g, Callee(v)) = CalleeView(Car(g)[v])
<1>1. Bound(v) \in Bounds /\ Within(g, Bound(v)) /\ Chosen(g, Bound(v)) = Car(g)[v]
  BY BoundIs
<1>2. DOMAIN Callee(v) = {Param} /\ Callee(v)[Param] = Bound(v) /\ Callee(v) \in [{Param} -> Bounds]
  BY <1>1 DEF Callee
<1>3. Param \in Names
  BY ArgsAssumption DEF Names
<1>4. {Param} \in SUBSET Names
  BY <1>3
<1>5. Callee(v) \in Arrays
  BY <1>2, <1>4 DEF Arrays
<1>6. IsFiniteSet({Param})
  BY FS_Singleton
<1>7. Worlds(g, Callee(v)) = CalleeView(Car(g)[v])
  BY <1>1, <1>2 DEF Worlds, CalleeView
<1>8. QED
  BY <1>1, <1>2, <1>5, <1>6, <1>7

CallBlocks(g, b, v) == AddBlock(AddClone(g, b), Callee(v))
CallStart(g, b, v) ==
  AddInstr(AddBlock(CallBlocks(g, b, v), NoBindings), b, Instr("mov", <<v>>, NewVal(CallBlocks(g, b, v))))
CallGen(g, b, v) ==
  [Set(CallStart(g, b, v), Len(g.block) + 2, Ret, Bound(NewVal(CallStart(g, b, v)))) EXCEPT !.values = @ + 1]
CallDrawn(p, q, ws) ==
  /\ Pic(p) /\ Pic(q) /\ Len(q) = Len(p) + 3 /\ \A b \in DOMAIN p : q[b] = p[b]
  /\ \A b \in Len(p) + 1 .. Len(p) + 3 : Idle(q[b]) /\ q[b].when = {}
  /\ Param \in DOMAIN q[Len(p) + 2].view /\ q[Len(p) + 2].view[Param] = ws /\ DOMAIN q[Len(p) + 3].view = {}

\* The three blocks of a call, made one after the other.
LEMMA DrawnCall ==
  ASSUME NEW p, NEW q, NEW r, NEW s, NEW t, NEW w1, NEW w2, NEW w3, NEW ws, NEW us,
         Drawn(p, q, {}), FreshBox(q[Len(p) + 1], w1), Drawn(q, r, {}), FreshBox(r[Len(q) + 1], CalleeView(ws)),
         Drawn(r, s, {}), FreshBox(s[Len(r) + 1], w3), DOMAIN w3 = {}, NEW c, c = Len(p) + 2,
         Boxed(s, t, c, s[c].next, s[c].branch, s[c].dead, s[c].when, Rebound(s[c].view, Ret, us))
  PROVE  CallDrawn(p, t, ws)
<1> DEFINE n == Len(p)
<1>1. /\ DOMAIN p = 1 .. n /\ DOMAIN q = 1 .. n + 1 /\ DOMAIN r = 1 .. n + 2 /\ DOMAIN s = 1 .. n + 3 /\ DOMAIN t = 1 .. n + 3
      /\ Len(q) = n + 1 /\ Len(r) = n + 2 /\ Len(t) = n + 3 /\ n \in Nat /\ Pic(p) /\ Pic(t)
  <2>1. Pic(p) /\ Pic(q) /\ Pic(r) /\ Pic(s) /\ Pic(t) /\ Len(q) = Len(p) + 1 /\ Len(r) = Len(q) + 1 /\ Len(s) = Len(r) + 1
        /\ Len(t) = Len(s)
    BY DEF Drawn, Boxed
  <2>2. QED
    BY <2>1 DEF Pic
<1>2. /\ \A b \in 1 .. n : q[b] = p[b]
      /\ \A b \in 1 .. n + 1 : r[b] = q[b]
      /\ \A b \in 1 .. n + 2 : s[b] = r[b]
      /\ \A b \in 1 .. n + 3 : b # c => t[b] = s[b]
  BY <1>1 DEF Drawn, Boxed
<1>3. /\ FreshBox(q[n + 1], w1) /\ FreshBox(r[n + 2], CalleeView(ws)) /\ FreshBox(s[n + 3], w3) /\ c = n + 2
      /\ IsBox(t[c], s[c].next, s[c].branch, s[c].dead, s[c].when, Rebound(s[c].view, Ret, us))
  BY <1>1 DEF Boxed
<1>4. Len(p) = n
  OBVIOUS
<1> HIDE DEF n
<1>5. \A b \in 1 .. n : t[b] = p[b]
  BY <1>1, <1>2, <1>3
<1>6. t[n + 1] = q[n + 1] /\ s[n + 2] = r[n + 2] /\ t[n + 3] = s[n + 3]
  <2>1. n + 1 \in 1 .. n + 1 /\ n + 1 \in 1 .. n + 2 /\ n + 1 \in 1 .. n + 3 /\ n + 1 # n + 2
        /\ n + 2 \in 1 .. n + 2 /\ n + 3 \in 1 .. n + 3 /\ n + 3 # n + 2
    BY <1>1
  <2>2. QED
    BY <1>2, <1>3, <2>1
<1>7. Idle(t[n + 1]) /\ t[n + 1].when = {}
  BY <1>3, <1>6 DEF FreshBox, Idle
<1>8. Idle(t[n + 2]) /\ t[n + 2].when = {} /\ t[n + 2].view = Rebound(CalleeView(ws), Ret, us)
  <2>1. FreshBox(s[n + 2], CalleeView(ws))
    BY <1>3, <1>6
  <2>2. QED
    BY <1>3, <2>1 DEF FreshBox, Idle, IsBox
<1>9. Idle(t[n + 3]) /\ t[n + 3].when = {} /\ DOMAIN t[n + 3].view = {}
  BY <1>3, <1>6 DEF FreshBox, Idle
<1>10. \A b \in n + 1 .. n + 3 : Idle(t[b]) /\ t[b].when = {}
  <2>1. \A b \in n + 1 .. n + 3 : b = n + 1 \/ b = n + 2 \/ b = n + 3
    BY <1>1
  <2>2. QED
    BY <2>1, <1>7, <1>8, <1>9
<1>11. Param \in DOMAIN t[n + 2].view /\ t[n + 2].view[Param] = ws
  <2>1. Param # Ret
    BY ArgsAssumption, NamesAssumption DEF Ret
  <2>2. DOMAIN CalleeView(ws) = {Param} /\ CalleeView(ws)[Param] = ws
    BY DEF CalleeView
  <2>3. QED
    BY <1>8, <2>1, <2>2 DEF Rebound
<1>12. QED
  BY <1>1, <1>4, <1>5, <1>9, <1>10, <1>11 DEF CallDrawn

\* What a call does to the blocks.
LEMMA CallGenIs ==
  ASSUME NEW g, Fine(g), NEW b \in DOMAIN g.block, NEW v \in 1 .. g.values
  PROVE  Onward(g, CallGen(g, b, v)) /\ CallDrawn(Picture(g), Picture(CallGen(g, b, v)), Car(g)[v])
<1> DEFINE g1 == AddClone(g, b)
           g2 == AddBlock(g1, Callee(v))
           g3 == AddBlock(g2, NoBindings)
           m == Instr("mov", <<v>>, NewVal(g3))
           g4 == AddInstr(g3, b, m)
           u == NewVal(g4)
           g5 == Numbered(g4)
           c == Len(g.block) + 2
           g6 == Set(g5, c, Ret, Bound(u))
<1>0. b \in 1 .. Len(g.block) /\ Len(g.block) \in Nat /\ Ret \in Names /\ Len(Picture(g)) = Len(g.block)
  BY FineFields DEF Names
<1>1. g2 = CallBlocks(g, b, v) /\ g3 = AddBlock(CallBlocks(g, b, v), NoBindings)
  BY DEF CallBlocks
<1> HIDE DEF g1, g2, g3, m, g4, u, g5, g6, c
<1>2. Onward(g, g1) /\ Fine(g1) /\ Drawn(Picture(g), Picture(g1), {}) /\ FreshBox(Picture(g1)[Len(Picture(g)) + 1], Picture(g)[b].view)
      /\ Len(g1.block) = Len(g.block) + 1
  <2>1. Grown(g, g1, Picture(g)[b].view)
    BY AddCloneGrown DEF g1
  <2>2. QED
    BY <2>1, GrownIs DEF Onward
<1>3. v \in 1 .. g1.values /\ Car(g1)[v] = Car(g)[v]
  BY <1>2, OnwardCarries
<1>4. /\ Onward(g1, g2) /\ Fine(g2) /\ Drawn(Picture(g1), Picture(g2), {})
      /\ FreshBox(Picture(g2)[Len(Picture(g1)) + 1], CalleeView(Car(g)[v])) /\ Len(g2.block) = Len(g1.block) + 1
  <2>1. Callee(v) \in Arrays /\ IsFiniteSet(DOMAIN Callee(v)) /\ (\A n \in DOMAIN Callee(v) : Within(g1, Callee(v)[n]))
        /\ Worlds(g1, Callee(v)) = CalleeView(Car(g)[v])
    BY <1>2, <1>3, CalleeIs
  <2>2. Grown(g1, g2, CalleeView(Car(g)[v]))
    BY <1>2, <2>1, AddBlockGrown DEF g2
  <2>3. QED
    BY <1>2, <2>2, GrownIs DEF Onward
<1> DEFINE none == Worlds(g2, NoBindings)
<1>5. DOMAIN none = {}
  BY NoBindingsIs
<1> HIDE DEF none
<1>6. /\ Onward(g2, g3) /\ Fine(g3) /\ Drawn(Picture(g2), Picture(g3), {}) /\ FreshBox(Picture(g3)[Len(Picture(g2)) + 1], none)
      /\ Len(g3.block) = Len(g2.block) + 1 /\ g3.values = g2.values
  <2>1. Grown(g2, g3, none)
    BY <1>4, NoBindingsIs, AddBlockGrown DEF g3, none
  <2>2. QED
    BY <1>4, <2>1, GrownIs DEF Onward, Grown
<1>7. Onward(g, g2) /\ Onward(g, g3)
  <2>1. Onward(g, g2)
    BY <1>2, <1>4, OnwardBoth
  <2>2. QED
    BY <1>6, <2>1, OnwardBoth
<1>8. v \in 1 .. g3.values
  BY <1>7, OnwardCarries
<1>9. Len(g3.block) = Len(g.block) + 3 /\ DOMAIN g3.block = 1 .. Len(g.block) + 3 /\ b \in DOMAIN g3.block /\ c \in DOMAIN g3.block
  <2>1. Len(g3.block) = Len(g.block) + 3 /\ DOMAIN g3.block = 1 .. Len(g3.block)
    BY <1>0, <1>2, <1>4, <1>6, FineFields
  <2>2. QED
    BY <1>0, <2>1 DEF c
<1>10. Quiet(g3, g4)
  <2>1. Fits(g3, m)
    BY <1>6, <1>8, MovFits DEF m
  <2>2. AddedTo(g3, g4, m)
    BY <1>6, <1>9, <2>1, AddInstrQuiet DEF g4
  <2>3. QED
    BY <2>2 DEF AddedTo
<1>11. Fine(g4) /\ Onward(g3, g4) /\ Picture(g4) = Picture(g3) /\ DOMAIN g4.block = DOMAIN g3.block
  BY <1>6, <1>10, QuietOnward
<1>12. Quiet(g4, g5) /\ g5.values = g4.values + 1
  BY <1>9, <1>11, NumberedQuiet DEF g5
<1>13. Fine(g5) /\ Onward(g4, g5) /\ Picture(g5) = Picture(g4) /\ DOMAIN g5.block = DOMAIN g4.block
  BY <1>11, <1>12, QuietOnward
<1>14. u \in 1 .. g5.values
  <2>1. g4.values \in Nat
    BY <1>11, FineFields
  <2>2. QED
    BY <1>12, <2>1 DEF u, NewVal
<1> DEFINE s == Picture(g3)
           us == Car(g5)[u]
<1>15. Onward(g5, g6) /\ Boxed(s, Picture(g6), c, s[c].next, s[c].branch, s[c].dead, s[c].when, Rebound(s[c].view, Ret, us))
  <2>1. Picture(g5) = s
    BY <1>11, <1>13
  <2> HIDE DEF s
  <2>2. c \in DOMAIN g5.block
    BY <1>9, <1>11, <1>13
  <2>3. LET p == Picture(g5)
        IN Onward(g5, g6) /\ Boxed(p, Picture(g6), c, p[c].next, p[c].branch, p[c].dead, p[c].when, Rebound(p[c].view, Ret, us))
    BY <1>0, <1>13, <1>14, <2>2, SetValueIs DEF g6
  <2>4. QED
    BY <2>1, <2>3
<1>16. CallDrawn(Picture(g), Picture(g6), Car(g)[v])
  <2>1. c = Len(Picture(g)) + 2
    BY <1>0 DEF c
  <2> HIDE DEF s, us
  <2>2. Drawn(Picture(g2), s, {}) /\ FreshBox(s[Len(Picture(g2)) + 1], none)
    BY <1>6 DEF s
  <2>3. QED
    BY <1>2, <1>4, <1>5, <1>15, <2>1, <2>2, DrawnCall
<1>17. Onward(g, g6)
  <2>1. Onward(g, g4)
    BY <1>7, <1>11, OnwardBoth
  <2>2. Onward(g, g5)
    BY <1>13, <2>1, OnwardBoth
  <2>3. QED
    BY <1>15, <2>2, OnwardBoth
<1>18. g6 = CallGen(g, b, v)
  <2>1. NewVal(g3) = NewVal(g2)
    BY <1>6 DEF NewVal
  <2>2. g4 = CallStart(g, b, v)
    BY <1>1, <2>1 DEF g4, m, CallStart
  <2>3. Typed(g4) /\ c \in DOMAIN g4.block
    BY <1>9, <1>11, FineFields
  <2>4. [Set(g4, c, Ret, Bound(u)) EXCEPT !.values = @ + 1] = g6
    BY <2>3, SetNumbered DEF g6, g5
  <2>5. QED
    BY <2>2, <2>4 DEF CallGen, u, c
<1>19. QED
  BY <1>16, <1>17, <1>18

\* A call is over: the caller goes on with what the function returns.
Resume(g, f, name, v) ==
  Move(SetNext(Share(SetNext(g, f.target.block, f.start), f.target.block, f.caller), f.ret, f.caller), f.caller, name, v)

\* The three edges of a call, made one after the other.
LEMMA JoinsFrom ==
  ASSUME NEW p, NEW q, NEW r, NEW s, NEW t, NEW f, NEW name, NEW ws, NEW B, NEW R, NEW C,
         B = f.target.block, R = f.ret, C = f.caller, B \in DOMAIN p, R \in DOMAIN p, C \in DOMAIN p,
         B # C, B # R, R # C,
         Boxed(p, q, B, f.start, p[B].branch, p[B].dead, p[B].when, p[B].view),
         Boxed(q, r, C, q[C].next, q[C].branch, q[C].dead, q[C].when, q[B].view),
         Boxed(r, s, R, C, r[R].branch, r[R].dead, r[R].when, r[R].view),
         Boxed(s, t, C, s[C].next, s[C].branch, s[C].dead, s[C].when, Rebound(s[C].view, name, ws))
  PROVE  Joins(p, t, f, name, ws)
<1>1. DOMAIN q = DOMAIN p /\ DOMAIN r = DOMAIN p /\ DOMAIN s = DOMAIN p /\ Len(t) = Len(p) /\ Pic(p) /\ Pic(t)
  BY DEF Boxed, Pic
<1>2. /\ \A b \in DOMAIN p : b # B => q[b] = p[b]
      /\ \A b \in DOMAIN p : b # C => r[b] = q[b]
      /\ \A b \in DOMAIN p : b # R => s[b] = r[b]
      /\ \A b \in DOMAIN p : b # C => t[b] = s[b]
  BY <1>1 DEF Boxed
<1>3. /\ IsBox(q[B], f.start, p[B].branch, p[B].dead, p[B].when, p[B].view)
      /\ IsBox(r[C], q[C].next, q[C].branch, q[C].dead, q[C].when, q[B].view)
      /\ IsBox(s[R], C, r[R].branch, r[R].dead, r[R].when, r[R].view)
      /\ IsBox(t[C], s[C].next, s[C].branch, s[C].dead, s[C].when, Rebound(s[C].view, name, ws))
  BY DEF Boxed
<1>4. t[B] = q[B] /\ t[R] = s[R] /\ r[R] = p[R] /\ s[C] = r[C] /\ q[C] = p[C]
  BY <1>2
<1>5. IsBox(t[C], p[C].next, p[C].branch, p[C].dead, p[C].when, Rebound(p[B].view, name, ws))
  <2>1. s[C].view = p[B].view /\ s[C].next = p[C].next /\ s[C].branch = p[C].branch /\ s[C].dead = p[C].dead /\ s[C].when = p[C].when
    BY <1>3, <1>4 DEF IsBox
  <2>2. QED
    BY <1>3, <2>1
<1>6. IsBox(t[R], C, p[R].branch, p[R].dead, p[R].when, p[R].view)
  BY <1>3, <1>4
<1>7. IsBox(t[B], f.start, p[B].branch, p[B].dead, p[B].when, p[B].view)
  BY <1>3, <1>4
<1>8. \A b \in DOMAIN p : b \notin {B, R, C} => t[b] = p[b]
  BY <1>2
<1>9. QED
  BY <1>1, <1>5, <1>6, <1>7, <1>8 DEF Joins

\* What the end of a call does to the blocks.
LEMMA ResumeIs ==
  ASSUME NEW g, Fine(g), NEW f, f.target.block \in DOMAIN g.block, f.ret \in DOMAIN g.block, f.caller \in DOMAIN g.block,
         f.target.block # f.caller, f.target.block # f.ret, f.ret # f.caller, f.start \in Nat, f.start # None,
         Picture(g)[f.target.block].next = None, Picture(g)[f.ret].next = None,
         NEW name \in Names, NEW v \in 1 .. g.values
  PROVE  Onward(g, Resume(g, f, name, v)) /\ Joins(Picture(g), Picture(Resume(g, f, name, v)), f, name, Car(g)[v])
<1> DEFINE B == f.target.block
           R == f.ret
           C == f.caller
           F == f.start
           h == SetNext(g, B, F)
           i == Share(h, B, C)
           j == SetNext(i, R, C)
           k == Move(j, C, name, v)
           p == Picture(g)
           q == Picture(h)
           r == Picture(i)
           s == Picture(j)
<1>1. B \in DOMAIN g.block /\ R \in DOMAIN g.block /\ C \in DOMAIN g.block /\ B # C /\ B # R /\ R # C /\ F \in Nat
      /\ p[B].next = None /\ p[R].next = None
  OBVIOUS
<1>2. k = Resume(g, f, name, v)
  BY DEF Resume
<1>3. DOMAIN p = DOMAIN g.block /\ C \in Nat
  <2>1. DOMAIN g.block = 1 .. Len(g.block) /\ DOMAIN Picture(g) = DOMAIN g.block
    BY FineFields
  <2> HIDE DEF h, i, j, k, q, r, s
  <2>2. QED
    BY <1>1, <2>1
<1>4. B = f.target.block /\ R = f.ret /\ C = f.caller /\ F = f.start
  OBVIOUS
<1> HIDE DEF B, R, C, F, h, i, j, k, p, q, r, s
<1>5. Onward(g, h) /\ Boxed(p, q, B, F, p[B].branch, p[B].dead, p[B].when, p[B].view)
  <2>1. Picture(g)[B].next \in {None, F}
    BY <1>1 DEF p
  <2>2. Paints(g, h, B, F, p[B].branch, p[B].dead, p[B].when, p[B].view)
    BY <1>1, <2>1, SetNextPaints DEF h, p
  <2>3. QED
    BY <2>2, PaintsBoxed DEF p, q
<1>6. Fine(h) /\ DOMAIN h.block = DOMAIN g.block
  <2>1. Fine(h)
    BY <1>5 DEF Onward
  <2>2. DOMAIN Picture(h) = DOMAIN h.block
    BY <2>1, FineFields
  <2>3. DOMAIN q = DOMAIN p
    BY <1>5 DEF Boxed, Pic
  <2>4. QED
    BY <1>3, <2>1, <2>2, <2>3 DEF q
<1>7. Onward(h, i) /\ Boxed(q, r, C, q[C].next, q[C].branch, q[C].dead, q[C].when, q[B].view)
  <2>1. Paints(h, i, C, q[C].next, q[C].branch, q[C].dead, q[C].when, q[B].view)
    BY <1>1, <1>6, SharePaints DEF i, q
  <2>2. QED
    BY <1>6, <2>1, PaintsBoxed DEF q, r
<1>8. Fine(i) /\ DOMAIN i.block = DOMAIN g.block /\ r[R].next = None
  <2>1. Fine(i)
    BY <1>7 DEF Onward
  <2>2. DOMAIN Picture(i) = DOMAIN i.block /\ DOMAIN Picture(h) = DOMAIN h.block
    BY <1>6, <2>1, FineFields
  <2>3. DOMAIN r = DOMAIN q
    BY <1>7 DEF Boxed, Pic
  <2>4. DOMAIN i.block = DOMAIN g.block /\ DOMAIN q = DOMAIN p
    BY <1>3, <1>6, <2>2, <2>3 DEF q, r
  <2>5. r[R] = q[R] /\ q[R] = p[R]
    BY <1>1, <1>3, <1>5, <1>7, <2>4 DEF Boxed
  <2>6. QED
    BY <1>1, <2>1, <2>4, <2>5
<1>9. Onward(i, j) /\ Boxed(r, s, R, C, r[R].branch, r[R].dead, r[R].when, r[R].view)
  <2>1. Paints(i, j, R, C, r[R].branch, r[R].dead, r[R].when, r[R].view)
    BY <1>1, <1>3, <1>8, SetNextPaints DEF j, r
  <2>2. QED
    BY <1>8, <2>1, PaintsBoxed DEF r, s
<1>10. Fine(j) /\ DOMAIN j.block = DOMAIN g.block
  <2>1. Fine(j)
    BY <1>9 DEF Onward
  <2>2. DOMAIN Picture(j) = DOMAIN j.block /\ DOMAIN Picture(i) = DOMAIN i.block
    BY <1>8, <2>1, FineFields
  <2>3. DOMAIN s = DOMAIN r
    BY <1>9 DEF Boxed, Pic
  <2>4. QED
    BY <1>8, <2>1, <2>2, <2>3 DEF r, s
<1>11. Onward(g, j)
  <2>1. Onward(g, i)
    BY <1>5, <1>7, OnwardBoth
  <2>2. QED
    BY <1>9, <2>1, OnwardBoth
<1>12. v \in 1 .. j.values /\ Car(j)[v] = Car(g)[v]
  BY <1>11, OnwardCarries
<1>13. Onward(j, k) /\ Boxed(s, Picture(k), C, s[C].next, s[C].branch, s[C].dead, s[C].when, Rebound(s[C].view, name, Car(g)[v]))
  <2>1. LET x == Picture(j)
        IN /\ Onward(j, k)
           /\ Boxed(x, Picture(k), C, x[C].next, x[C].branch, x[C].dead, x[C].when, Rebound(x[C].view, name, Car(j)[v]))
    BY <1>1, <1>10, <1>12, MoveIs DEF k
  <2>2. QED
    BY <1>12, <2>1 DEF s
<1>14. Onward(g, k)
  BY <1>11, <1>13, OnwardBoth
<1>15. Joins(p, Picture(k), f, name, Car(g)[v])
  <2>1. B \in DOMAIN p /\ R \in DOMAIN p /\ C \in DOMAIN p
    BY <1>1, <1>3
  <2>2. Boxed(p, q, B, f.start, p[B].branch, p[B].dead, p[B].when, p[B].view)
    BY <1>4, <1>5
  <2>3. QED
    BY <1>1, <1>4, <1>7, <1>9, <1>13, <2>1, <2>2, JoinsFrom
<1>16. QED
  BY <1>2, <1>14, <1>15 DEF p

(***************************************************************************)
(* Frames, with one field or another replaced.                             *)
(***************************************************************************)

\* The last element of a sequence is another one.
LEMMA LastIs ==
  ASSUME NEW S, NEW fr \in Seq(S), fr # <<>>
  PROVE  /\ Len(fr) \in DOMAIN fr /\ Len(fr) \in Nat /\ Len(fr) >= 1 /\ Last(fr) = fr[Len(fr)] /\ Last(fr) \in S
         /\ Front(fr) \in Seq(S) /\ Len(Front(fr)) = Len(fr) - 1 /\ DOMAIN Front(fr) = 1 .. Len(fr) - 1
         /\ \A k \in 1 .. Len(fr) - 1 : Front(fr)[k] = fr[k]
<1>1. Len(fr) \in Nat /\ DOMAIN fr = 1 .. Len(fr) /\ Len(fr) # 0
  OBVIOUS
<1> DEFINE n == Len(fr)
<1>2. n \in Nat /\ DOMAIN fr = 1 .. n /\ n >= 1
  BY <1>1
<1>3. Front(fr) = SubSeq(fr, 1, n - 1) /\ Last(fr) = fr[n]
  BY DEF Front, Last
<1>4. \A k \in 1 .. n : fr[k] \in S
  BY <1>2
<1>5. /\ Front(fr) = [k \in 1 .. n - 1 |-> fr[k]] /\ n - 1 \in Nat
  BY <1>2, <1>3
<1>6. n \in DOMAIN fr /\ fr[n] \in S
  BY <1>2
<1> HIDE DEF n
<1>7. Front(fr) \in Seq(S) /\ Len(Front(fr)) = n - 1 /\ DOMAIN Front(fr) = 1 .. n - 1
  BY <1>2, <1>4, <1>5
<1>8. QED
  BY <1>2, <1>3, <1>5, <1>6, <1>7 DEF n

\* A sequence whose last element is replaced.
LEMMA ReplacedIs ==
  ASSUME NEW S, NEW fr \in Seq(S), fr # <<>>, NEW g \in S
  PROVE  LET new == Append(Front(fr), g)
         IN /\ new \in Seq(S) /\ Len(new) = Len(fr) /\ new[Len(fr)] = g /\ \A k \in 1 .. Len(fr) - 1 : new[k] = fr[k]
<1> DEFINE s == Front(fr)
           n == Len(fr)
<1>1. n \in Nat /\ n >= 1 /\ s \in Seq(S) /\ Len(s) = n - 1 /\ DOMAIN s = 1 .. n - 1 /\ \A k \in 1 .. n - 1 : s[k] = fr[k]
  BY LastIs
<1> HIDE DEF s, n
<1>2. Append(s, g) \in Seq(S) /\ Len(Append(s, g)) = n /\ Append(s, g)[n] = g /\ \A k \in 1 .. n - 1 : Append(s, g)[k] = s[k]
  BY <1>1
<1>3. QED
  BY <1>1, <1>2 DEF s, n

\* The stack of frames when that on top is replaced.
LEMMA TopReplaced ==
  ASSUME NEW fr \in Seq(Frames), fr # <<>>, NEW g \in Frames
  PROVE  Upto(fr, Append(Front(fr), g), Len(fr), g)
BY ReplacedIs DEF Upto

\* The stack of frames when that on top is gone, and the next one is replaced.
LEMMA UnderReplaced ==
  ASSUME NEW fr \in Seq(Frames), Len(fr) > 1, NEW g \in Frames
  PROVE  /\ Upto(fr, Append(Front(Front(fr)), g), Len(fr) - 1, g)
         /\ Last(Front(fr)) = fr[Len(fr) - 1] /\ Last(Front(fr)) \in Frames
<1> DEFINE s == Front(fr)
           n == Len(fr)
<1>1. fr # <<>>
  OBVIOUS
<1>2. n \in Nat /\ n > 1 /\ s \in Seq(Frames) /\ Len(s) = n - 1 /\ \A k \in 1 .. n - 1 : s[k] = fr[k]
  BY <1>1, LastIs
<1> HIDE DEF s, n
<1>3. s # <<>>
  BY <1>2
<1>4. Last(s) = s[n - 1] /\ Last(s) \in Frames
  BY <1>2, <1>3, LastIs
<1>5. s[n - 1] = fr[n - 1]
  BY <1>2
<1>6. /\ Append(Front(s), g) \in Seq(Frames) /\ Len(Append(Front(s), g)) = n - 1 /\ Append(Front(s), g)[n - 1] = g
      /\ \A k \in 1 .. n - 1 - 1 : Append(Front(s), g)[k] = s[k]
  BY <1>2, <1>3, ReplacedIs
<1>7. \A k \in 1 .. n - 1 - 1 : s[k] = fr[k]
  BY <1>2
<1>8. Upto(fr, Append(Front(s), g), n - 1, g)
  BY <1>6, <1>7 DEF Upto
<1>9. QED
  BY <1>4, <1>5, <1>8 DEF s, n

\* A frame with other fields.
Rec(a,b,c,d,e,s,r,h) == [start |-> a, ret |-> b, caller |-> c, target |-> d, ifs |-> e, store |-> s, result |-> r, here |-> h]
Changes(f, ifs, store, result) == Rec(f.start, f.ret, f.caller, f.target, ifs, store, result, f.here)
SetStore(f, x) == [f EXCEPT !.store = x]
SetIfs(f, x) == [f EXCEPT !.ifs = x]
SetResult(f, x) == [f EXCEPT !.result = x]

\* One field of a frame replaced.
LEMMA RecStore == ASSUME NEW a, NEW b, NEW c, NEW d, NEW e, NEW s, NEW r, NEW h, NEW x
  PROVE  /\ SetStore(Rec(a,b,c,d,e,s,r,h), x) = Rec(a,b,c,d,e,x,r,h)
         /\ SetIfs(Rec(a,b,c,d,e,s,r,h), x) = Rec(a,b,c,d,x,s,r,h)
         /\ SetResult(Rec(a,b,c,d,e,s,r,h), x) = Rec(a,b,c,d,e,s,x,h)
BY DEF Rec, SetStore, SetIfs, SetResult

\* A frame is its fields.
LEMMA RecIs == ASSUME NEW f \in Frames PROVE f = Changes(f, f.ifs, f.store, f.result)
  BY DEF Frames, Changes, Rec

\* A frame with other ifs, variables or results.
LEMMA ChangeIs ==
  ASSUME NEW f \in Frames, NEW x, NEW y
  PROVE  /\ [f EXCEPT !.store = x] = Changes(f, f.ifs, x, f.result)
         /\ [f EXCEPT !.ifs = x] = Changes(f, x, f.store, f.result)
         /\ [f EXCEPT !.result = x] = Changes(f, f.ifs, f.store, x)
         /\ [f EXCEPT !.ifs = x, !.store = y] = Changes(f, x, y, f.result)
<1> DEFINE a == f.start
           b == f.ret
           c == f.caller
           d == f.target
           e == f.ifs
           s == f.store
           r == f.result
           h == f.here
<1>1. f = Rec(a,b,c,d,e,s,r,h)
  BY RecIs DEF Changes
<1>2. /\ Changes(f, f.ifs, x, f.result) = Rec(a,b,c,d,e,x,r,h)
      /\ Changes(f, x, f.store, f.result) = Rec(a,b,c,d,x,s,r,h)
      /\ Changes(f, f.ifs, f.store, x) = Rec(a,b,c,d,e,s,x,h)
      /\ Changes(f, x, y, f.result) = Rec(a,b,c,d,x,y,r,h)
  BY DEF Changes
<1> HIDE DEF a, b, c, d, e, s, r, h
<1>3. SetStore(f, x) = Rec(a,b,c,d,e,x,r,h)
  BY <1>1, RecStore
<1>4. SetIfs(f, x) = Rec(a,b,c,d,x,s,r,h)
  BY <1>1, RecStore
<1>5. SetResult(f, x) = Rec(a,b,c,d,e,s,x,h)
  BY <1>1, RecStore
<1>6. SetStore(SetIfs(f, x), y) = Rec(a,b,c,d,x,y,r,h)
  BY <1>4, RecStore
<1>7. [f EXCEPT !.ifs = x, !.store = y] = SetStore(SetIfs(f, x), y)
  BY DEF SetStore, SetIfs
<1>8. QED
  BY <1>2, <1>3, <1>4, <1>5, <1>6, <1>7 DEF SetStore, SetIfs, SetResult
IsChange(f, g, ifs, store, result) ==
  g \in Frames /\ Alike(f, g) /\ g.ifs = ifs /\ g.store = store /\ g.result = result

\* Such a frame is one.
LEMMA ChangesIs ==
  ASSUME NEW f \in Frames, NEW ifs \in Seq(Ifs), NEW store \in Stores, NEW result \in SUBSET World
  PROVE  IsChange(f, Changes(f, ifs, store, result), ifs, store, result)
BY DEF IsChange, Changes, Rec, Frames, Alike

\* The variables of a frame.
LEMMA StoreFields ==
  ASSUME NEW f \in Frames
  PROVE  f.store \in Stores /\ f.store = [n \in DOMAIN f.store |-> f.store[n]] /\ f.result \in SUBSET World /\ f.ifs \in Seq(Ifs)
<1>1. f.store \in Stores /\ f.result \in SUBSET World /\ f.ifs \in Seq(Ifs)
  BY DEF Frames
<1>2. PICK S \in SUBSET Names : f.store \in [S -> SUBSET World]
  BY <1>1 DEF Stores
<1>3. QED
  BY <1>1, <1>2

\* A function from names to worlds is a store.
LEMMA StoresAre ==
  ASSUME NEW S \in SUBSET Names, NEW s, \A n \in S : s[n] \in SUBSET World
  PROVE  [n \in S |-> s[n]] \in Stores
<1>1. [n \in S |-> s[n]] \in [S -> SUBSET World]
  OBVIOUS
<1>2. QED
  BY <1>1 DEF Stores

\* A frame in which a variable is assigned.
LEMMA StoredFrame ==
  ASSUME NEW f \in Frames, NEW name \in Names, NEW ws \in SUBSET World, NEW e \in SUBSET World
  PROVE  Stored(f, [f EXCEPT !.store = Assigned(@, name, ws, e)], name, ws, e)
<1> DEFINE s == Assigned(f.store, name, ws, e)
           g == Changes(f, f.ifs, s, f.result)
<1>1. f.store \in Stores /\ f.result \in SUBSET World /\ f.ifs \in Seq(Ifs)
  BY StoreFields
<1>2. DOMAIN f.store \subseteq Names /\ \A n \in DOMAIN f.store : f.store[n] \in SUBSET World
  BY FrameFields
<1>3. s \in Stores
  <2>1. DOMAIN s = DOMAIN f.store \cup {name}
    BY DEF Assigned
  <2>2. \A n \in DOMAIN f.store \cup {name} : s[n] \in SUBSET World
    BY <1>2 DEF Assigned
  <2>3. s \in [DOMAIN f.store \cup {name} -> SUBSET World]
    BY <2>1, <2>2 DEF Assigned
  <2>4. DOMAIN f.store \cup {name} \in SUBSET Names
    BY <1>2
  <2>5. QED
    BY <2>3, <2>4 DEF Stores
<1> HIDE DEF s, g
<1>4. IsChange(f, g, f.ifs, s, f.result)
  BY <1>1, <1>3, ChangesIs DEF g
<1>5. [f EXCEPT !.store = s] = g
  BY ChangeIs DEF g
<1>6. Stored(f, g, name, ws, e)
  BY <1>4 DEF IsChange, Stored, s
<1>7. QED
  BY <1>5, <1>6 DEF s

\* What ChainOK says of the names.
NamesNested(f) ==
  /\ \A j \in DOMAIN f.ifs : f.ifs[j].names \subseteq DOMAIN f.store
  /\ \A j, l \in DOMAIN f.ifs : j < l => f.ifs[j].names \subseteq f.ifs[l].names

\* An open if remembers names that those in it remember, too.
LEMMA NestedIs ==
  ASSUME NEW f, NEW c, ChainOK(f, c)
  PROVE  NamesNested(f)
BY DEF ChainOK, NamesNested

\* A frame in which an if is opened.
LEMMA OpenedFrame ==
  ASSUME NEW f \in Frames, NamesNested(f), NEW i \in Ifs, i.names = DOMAIN f.store
  PROVE  LET g == [f EXCEPT !.ifs = Append(@, i)] IN g \in Frames /\ Opened(f, g, i)
<1> DEFINE s == Append(f.ifs, i)
           g == Changes(f, s, f.store, f.result)
           n == Len(f.ifs)
<1>1. f.ifs \in Seq(Ifs) /\ f.store \in Stores /\ f.result \in SUBSET World
  BY StoreFields
<1>2. n \in Nat /\ DOMAIN f.ifs = 1 .. n
  BY <1>1
<1>3. s \in Seq(Ifs) /\ Len(s) = n + 1 /\ s[n + 1] = i /\ \A j \in 1 .. n : s[j] = f.ifs[j]
  BY <1>1
<1>4. [f EXCEPT !.ifs = s] = g
  BY ChangeIs
<1>5. \A j \in 1 .. n : f.ifs[j].names \subseteq DOMAIN f.store
  BY <1>2 DEF NamesNested
<1> HIDE DEF s, g
<1>6. IsChange(f, g, s, f.store, f.result)
  BY <1>1, <1>3, ChangesIs DEF g
<1>7. /\ g \in Frames /\ Alike(f, g) /\ g.ifs = s /\ g.store = f.store /\ g.result = f.result
  BY <1>6 DEF IsChange
<1> HIDE DEF n
<1>8. n \in 0 .. n /\ n + 1 \in {n, n + 1}
  BY <1>2
<1>9. KeepsIfs(f, g, n)
  BY <1>3, <1>5, <1>7, <1>8 DEF KeepsIfs, n
<1>10. Opened(f, g, i)
  BY <1>3, <1>7, <1>9 DEF Opened, n
<1>11. QED
  BY <1>4, <1>7, <1>10 DEF s

\* What a frame keeps under the innermost if.
Innards(f, i) ==
  LET n == Len(f.ifs)
  IN /\ n \in Nat /\ n >= 1 /\ n - 1 \in 0 .. n /\ i = f.ifs[n] /\ i \in Ifs
     /\ Front(f.ifs) \in Seq(Ifs) /\ Len(Front(f.ifs)) = n - 1 /\ \A j \in 1 .. n - 1 : Front(f.ifs)[j] = f.ifs[j]
     /\ i.names \subseteq DOMAIN f.store /\ \A j \in 1 .. n - 1 : f.ifs[j].names \subseteq i.names
     /\ [m \in i.names |-> f.store[m]] \in Stores

\* What a frame keeps below its innermost open if.
LEMMA InnardsAre ==
  ASSUME NEW f \in Frames, NamesNested(f), f.ifs # <<>>
  PROVE  Innards(f, Last(f.ifs))
<1> DEFINE n == Len(f.ifs)
           i == Last(f.ifs)
<1>1. f.ifs \in Seq(Ifs) /\ f.store \in Stores
  BY StoreFields
<1>2. /\ n \in DOMAIN f.ifs /\ n \in Nat /\ n >= 1 /\ i = f.ifs[n] /\ i \in Ifs
      /\ Front(f.ifs) \in Seq(Ifs) /\ Len(Front(f.ifs)) = n - 1 /\ \A j \in 1 .. n - 1 : Front(f.ifs)[j] = f.ifs[j]
  BY <1>1, LastIs
<1>3. DOMAIN f.ifs = 1 .. n
  BY <1>1
<1>4. DOMAIN f.store \subseteq Names /\ \A m \in DOMAIN f.store : f.store[m] \in SUBSET World
  BY FrameFields
<1> HIDE DEF n, i
<1>5. i.names \subseteq DOMAIN f.store
  BY <1>2 DEF NamesNested
<1>6. \A j \in 1 .. n - 1 : f.ifs[j].names \subseteq i.names
  <2>1. SUFFICES ASSUME NEW j \in 1 .. n - 1 PROVE f.ifs[j].names \subseteq i.names
    OBVIOUS
  <2>2. j \in DOMAIN f.ifs /\ j < n
    BY <1>2, <1>3
  <2>3. QED
    BY <1>2, <2>2 DEF NamesNested
<1>7. [m \in i.names |-> f.store[m]] \in Stores
  BY <1>4, <1>5, StoresAre
<1>8. n - 1 \in 0 .. n
  BY <1>2
<1>9. QED
  BY <1>2, <1>5, <1>6, <1>7, <1>8 DEF Innards, n, i

\* Leaving an if, or going on with its other branch: the names that were there before it are kept.
Dropped(f, i, ifs) == [f EXCEPT !.ifs = ifs, !.store = [n \in i.names |-> @[n]]]

\* A frame that drops the names of a branch.
LEMMA DroppedIs ==
  ASSUME NEW f \in Frames, NEW i, Innards(f, i), NEW ifs \in Seq(Ifs), NEW m, m = Len(f.ifs) - 1, Len(ifs) \in {m, m + 1},
         \A j \in 1 .. m : ifs[j] = f.ifs[j]
  PROVE  LET g == Dropped(f, i, ifs)
         IN g \in Frames /\ KeepsIfs(f, g, m) /\ g.ifs = ifs /\ g.result = f.result /\ DOMAIN g.store = i.names
<1> DEFINE s == [n \in i.names |-> f.store[n]]
           g == Changes(f, ifs, s, f.result)
<1>1. f.result \in SUBSET World
  BY StoreFields
<1>2. s \in Stores /\ i.names \subseteq DOMAIN f.store /\ m \in 0 .. Len(f.ifs) /\ \A j \in 1 .. m : f.ifs[j].names \subseteq i.names
  BY DEF Innards
<1>3. DOMAIN s = i.names /\ \A n \in i.names : s[n] = f.store[n]
  OBVIOUS
<1>4. [f EXCEPT !.ifs = ifs, !.store = s] = g
  BY ChangeIs
<1>5. [f EXCEPT !.ifs = ifs, !.store = s] = Dropped(f, i, ifs)
  BY DEF Dropped
<1> HIDE DEF s, g
<1>6. IsChange(f, g, ifs, s, f.result)
  BY <1>1, <1>2, ChangesIs DEF g
<1>7. /\ g \in Frames /\ Alike(f, g) /\ g.ifs = ifs /\ g.store = s /\ g.result = f.result
  BY <1>6 DEF IsChange
<1>8. KeepsIfs(f, g, m)
  BY <1>2, <1>3, <1>7 DEF KeepsIfs
<1>9. QED
  BY <1>3, <1>4, <1>5, <1>7, <1>8

\* A frame in which the innermost if is closed.
LEMMA ClosedFrame ==
  ASSUME NEW f \in Frames, NamesNested(f), f.ifs # <<>>
  PROVE  LET i == Last(f.ifs)
             g == [f EXCEPT !.ifs = Front(@), !.store = [n \in i.names |-> @[n]]]
         IN g \in Frames /\ Closed(f, g, i)
<1> DEFINE i == Last(f.ifs)
           s == Front(f.ifs)
           m == Len(f.ifs) - 1
           g == Dropped(f, i, s)
<1>1. Innards(f, i)
  BY InnardsAre
<1>2. s \in Seq(Ifs) /\ Len(s) = m /\ (\A j \in 1 .. m : s[j] = f.ifs[j]) /\ i = f.ifs[Len(f.ifs)]
  BY <1>1 DEF Innards
<1>3. [f EXCEPT !.ifs = Front(@), !.store = [n \in i.names |-> @[n]]] = g
  BY DEF Dropped
<1> HIDE DEF i, s, g
<1>4. g \in Frames /\ KeepsIfs(f, g, m) /\ g.ifs = s /\ g.result = f.result /\ DOMAIN g.store = i.names
  BY <1>1, <1>2, DroppedIs DEF g
<1>5. Closed(f, g, i)
  BY <1>2, <1>4 DEF Closed, m
<1>6. QED
  BY <1>3, <1>4, <1>5 DEF i

\* A frame in which the innermost if goes on with its other branch.
LEMMA TurnedFrame ==
  ASSUME NEW f \in Frames, NamesNested(f), f.ifs # <<>>, NEW k \in Ifs, k.names = Last(f.ifs).names
  PROVE  LET i == Last(f.ifs)
             g == [f EXCEPT !.ifs = Append(Front(@), k), !.store = [n \in i.names |-> @[n]]]
         IN g \in Frames /\ Turned(f, g, i, k)
<1> DEFINE i == Last(f.ifs)
           s == Append(Front(f.ifs), k)
           m == Len(f.ifs) - 1
           n == Len(f.ifs)
           g == Dropped(f, i, s)
<1>1. Innards(f, i)
  BY InnardsAre
<1>2. f.ifs \in Seq(Ifs)
  BY StoreFields
<1>3. s \in Seq(Ifs) /\ Len(s) = n /\ s[n] = k /\ \A j \in 1 .. m : s[j] = f.ifs[j]
  BY <1>2, ReplacedIs
<1>4. i = f.ifs[n] /\ n \in Nat
  BY <1>1 DEF Innards
<1>5. [f EXCEPT !.ifs = Append(Front(@), k), !.store = [x \in i.names |-> @[x]]] = g
  BY DEF Dropped
<1> HIDE DEF i, s, g
<1>6. Len(s) \in {m, m + 1}
  BY <1>3, <1>4
<1>7. g \in Frames /\ KeepsIfs(f, g, m) /\ g.ifs = s /\ g.result = f.result /\ DOMAIN g.store = i.names
  BY <1>1, <1>3, <1>6, DroppedIs DEF g
<1>8. k.names = i.names
  BY DEF i
<1>9. Turned(f, g, i, k)
  BY <1>3, <1>4, <1>7, <1>8 DEF Turned
<1>10. QED
  BY <1>5, <1>7, <1>9 DEF i

\* A frame in which more worlds have returned true.
LEMMA ResultFrame ==
  ASSUME NEW f \in Frames, NEW ws \in SUBSET World
  PROVE  LET g == [f EXCEPT !.result = @ \cup ws]
         IN g \in Frames /\ Alike(f, g) /\ g.ifs = f.ifs /\ g.store = f.store /\ g.result = f.result \cup ws
<1> DEFINE r == f.result \cup ws
           g == Changes(f, f.ifs, f.store, r)
<1>1. f.store \in Stores /\ f.result \in SUBSET World /\ f.ifs \in Seq(Ifs)
  BY StoreFields
<1>2. r \in SUBSET World
  BY <1>1
<1>3. [f EXCEPT !.result = r] = g
  BY ChangeIs
<1> HIDE DEF r, g
<1>4. IsChange(f, g, f.ifs, f.store, r)
  BY <1>1, <1>2, ChangesIs DEF g
<1>5. QED
  BY <1>3, <1>4 DEF IsChange, r
FrameOf(a, name, b, ws, here) ==
  Frame(a + 1, a + 2, a, [name |-> name, block |-> b], [n \in {Param} |-> ws], here)
IsCalled(F, a, name, b, ws, here) ==
  /\ F \in Frames /\ F.start = a + 1 /\ F.ret = a + 2 /\ F.caller = a /\ F.ifs = <<>> /\ F.result = {}
  /\ F.here = here /\ F.store = CalleeView(ws) /\ F.target \in [name : Targets, block : Nat]
  /\ F.target.block = b /\ F.target.name = name

\* The frame of a called function.
LEMMA CalledFrame ==
  ASSUME NEW a \in Nat, NEW name \in Targets, NEW b \in Nat, NEW ws \in SUBSET World, NEW here \in SUBSET World
  PROVE  IsCalled(FrameOf(a, name, b, ws, here), a, name, b, ws, here)
<1> DEFINE s == [n \in {Param} |-> ws]
           t == [name |-> name, block |-> b]
<1>1. s \in Stores
  <2>1. {Param} \in SUBSET Names
    BY ArgsAssumption DEF Names
  <2>2. s \in [{Param} -> SUBSET World]
    OBVIOUS
  <2>3. QED
    BY <2>1, <2>2 DEF Stores
<1>2. t \in Calls /\ t \in [name : Targets, block : Nat] /\ t.block = b /\ t.name = name
  BY DEF Calls
<1> HIDE DEF s, t
<1>3. {} \in SUBSET World /\ <<>> \in Seq(Ifs)
  OBVIOUS
<1>4. QED
  BY <1>1, <1>2, <1>3 DEF IsCalled, FrameOf, Frame, Frames, CalleeView, s, t

IfRec(k, b, t, s, e, n) == [kind |-> k, block |-> b, t |-> t, start |-> s, end |-> e, names |-> n]
SetBlock(i, x) == [i EXCEPT !.block = x]
SetStart(i, x) == [i EXCEPT !.start = x]

\* One field of an open if replaced.
LEMMA IfRecIs ==
  ASSUME NEW k, NEW b, NEW t, NEW s, NEW e, NEW n, NEW x
  PROVE  /\ SetBlock(IfRec(k, b, t, s, e, n), x) = IfRec(k, x, t, s, e, n)
         /\ SetStart(IfRec(k, b, t, s, e, n), x) = IfRec(k, b, t, x, e, n)
BY DEF IfRec, SetBlock, SetStart

\* The ifs that IfConst and Branch open.
LEMMA IfIs ==
  ASSUME NEW names \in SUBSET Names, NEW b \in Nat, NEW ws \in SUBSET World
  PROVE  LET i(kind) == [kind |-> kind, block |-> None, t |-> None, start |-> {}, end |-> {}, names |-> names]
             c == [i("const") EXCEPT !.end = ws]
             t == [i("then") EXCEPT !.block = b, !.start = ws]
         IN /\ c \in Ifs /\ c.kind = "const" /\ c.block = None /\ c.t = None /\ c.end = ws /\ c.names = names
            /\ t \in Ifs /\ t.kind = "then" /\ t.block = b /\ t.t = None /\ t.start = ws /\ t.names = names
<1> DEFINE i(kind) == [kind |-> kind, block |-> None, t |-> None, start |-> {}, end |-> {}, names |-> names]
<1>1. [i("const") EXCEPT !.end = ws] = [kind |-> "const", block |-> None, t |-> None, start |-> {}, end |-> ws, names |-> names]
  OBVIOUS
<1>2. [i("then") EXCEPT !.block = b, !.start = ws]
        = [kind |-> "then", block |-> b, t |-> None, start |-> ws, end |-> {}, names |-> names]
  <2> DEFINE k == IfRec("then", None, None, {}, {}, names)
  <2>1. i("then") = k
    BY DEF IfRec
  <2>2. [k EXCEPT !.block = b, !.start = ws] = SetStart(SetBlock(k, b), ws)
    <3> HIDE DEF k
    <3>1. QED
      BY DEF SetStart, SetBlock
  <2>3. SetBlock(k, b) = IfRec("then", b, None, {}, {}, names)
    BY IfRecIs
  <2>4. SetStart(IfRec("then", b, None, {}, {}, names), ws) = IfRec("then", b, None, ws, {}, names)
    BY IfRecIs
  <2>5. SetStart(SetBlock(k, b), ws) = IfRec("then", b, None, ws, {}, names)
    BY <2>3, <2>4
  <2>6. QED
    BY <2>1, <2>2, <2>5 DEF IfRec
<1>3. None \in Nat /\ {} \in SUBSET World /\ {"const", "then"} \subseteq Kinds
  BY DEF None, Kinds
<1>4. QED
  BY <1>1, <1>2, <1>3 DEF Ifs
Turning(i, c, ws) == [i EXCEPT !.kind = "else", !.t = c, !.end = ws]

\* An if that goes on with its else.
LEMMA ElseIs ==
  ASSUME NEW i \in Ifs, NEW c \in Nat, NEW ws \in SUBSET World
  PROVE  LET k == Turning(i, c, ws)
         IN k \in Ifs /\ k.kind = "else" /\ k.t = c /\ k.end = ws /\ k.names = i.names /\ k.block = i.block
BY DEF Ifs, Kinds, Turning

(***************************************************************************)
(* One lemma per action: it keeps the invariant.                           *)
(***************************************************************************)

\* What holds while a function is compiled.
Compiled(g, at, fr, c, w) == Fine(g) /\ Top(Picture(g), at, fr, c, w, Last(fr))
\* What it says of the state.
Stated(g, at, fr, c, w) ==
  LET f == Last(fr)
      p == Picture(g)
  IN /\ Fine(g) /\ Top(p, at, fr, c, w, f) /\ fr \in Seq(Frames) /\ fr # <<>> /\ f \in Frames
     /\ c \in DOMAIN g.block /\ c \in Nat /\ w \in SUBSET World /\ NamesNested(f)
     /\ p[c].dead = g.block[c].dead /\ p[c].next = g.block[c].next /\ p[c].branch = g.block[c].branch
     /\ ~p[c].dead => Idle(p[c]) /\ at[c] \subseteq w /\ Agrees(p[c].view, f.store, DOMAIN f.store, w)

\* The invariant says it of the state.
LEMMA StatedIs ==
  ASSUME NEW g, NEW at, NEW fr, NEW c, NEW w, Compiled(g, at, fr, c, w)
  PROVE  Stated(g, at, fr, c, w)
<1> DEFINE f == Last(fr)
           p == Picture(g)
<1>1. Fine(g) /\ Top(p, at, fr, c, w, f)
  BY DEF Compiled
<1>2. fr \in Seq(Frames) /\ Len(fr) \in DOMAIN fr
  BY <1>1 DEF Top
<1>3. fr # <<>>
  BY <1>2
<1>4. f \in Frames /\ FrameOK(p, at, f, c, w) /\ c \in 1 .. Len(p)
  BY <1>1, TopIs
<1>5. DOMAIN g.block = 1 .. Len(g.block) /\ Len(p) = Len(g.block) /\ Len(g.block) \in Nat
  BY <1>1, FineFields
<1>6. c \in DOMAIN g.block /\ c \in Nat
  BY <1>4, <1>5
<1>7. BlockShown(g, c, p[c])
  BY <1>1, <1>6, BlockShownIs
<1>8. p[c].dead = g.block[c].dead /\ p[c].next = g.block[c].next /\ p[c].branch = g.block[c].branch
  BY <1>7 DEF BlockShown
<1>9. ChainOK(f, c) /\ CurOK(p, at, f, c, w) /\ HereOK(f, w)
  BY <1>4 DEF FrameOK
<1>10. NamesNested(f)
  BY <1>9, NestedIs
<1>11. w \in SUBSET World
  <2>1. f.here \in SUBSET World
    BY <1>4, FrameFields
  <2>2. w \subseteq f.here
    BY <1>9 DEF HereOK
  <2>3. QED
    BY <2>1, <2>2
<1>12. ~p[c].dead => Idle(p[c]) /\ at[c] \subseteq w /\ Agrees(p[c].view, f.store, DOMAIN f.store, w)
  BY <1>9 DEF CurOK
<1>13. QED
  BY <1>1, <1>2, <1>3, <1>4, <1>6, <1>8, <1>10, <1>11, <1>12 DEF Stated

\* Names.
LEMMA NamesAre ==
  ASSUME NEW fr, NEW f \in Frames, f = Last(fr)
  PROVE  /\ Targets \subseteq Names /\ Ret \in Names /\ DOMAIN f.store \subseteq Names
         /\ "true" \notin Names /\ "false" \notin Names
<1>1. DOMAIN f.store \subseteq Names
  BY FrameFields
<1>2. "true" # "%ret0" /\ "false" # "%ret0"
  OBVIOUS
<1>3. QED
  BY <1>1, <1>2, NamesAssumption DEF Names, Ret

\* The bound of a name.
LEMMA BindingIs ==
  ASSUME NEW g, Fine(g), NEW b \in DOMAIN g.block
  PROVE  /\ Picture(g)[b].view = [n \in DOMAIN Bindings(g, b) |-> Chosen(g, Bindings(g, b)[n])]
         /\ \A n \in DOMAIN Bindings(g, b) : Bindings(g, b)[n] \in Bounds /\ Within(g, Bindings(g, b)[n])
<1>1. Typed(g)
  BY FineFields
<1>2. g \in Gens /\ ArraysOK(g) /\ BlocksOK(g)
  BY <1>1 DEF Typed
<1>3. g.block[b].bindings.at \in DOMAIN g.array
  BY <1>2 DEF BlocksOK
<1>4. Bindings(g, b) \in Arrays
  BY <1>2, <1>3 DEF Bindings, Gens
<1>5. \A n \in DOMAIN Bindings(g, b) : Within(g, Bindings(g, b)[n])
  BY <1>2, <1>3 DEF ArraysOK, Bindings
<1>6. \A n \in DOMAIN Bindings(g, b) : Bindings(g, b)[n] \in Bounds
  BY <1>4 DEF Arrays
<1>7. Picture(g)[b].view = Worlds(g, g.array[g.block[b].bindings.at])
  BY DEF Picture, Box
<1>8. QED
  BY <1>5, <1>6, <1>7, Zenon DEF Worlds, Bindings

\* What an expression is: a value that carries what is meant.
Evaluates(g, r, w, e) ==
  /\ Quiet(g, r.gen) /\ r.v \in 1 .. r.gen.values /\ Car(r.gen)[r.v] \cap w = e \cap w

\* What an expression means is a set of worlds.
LEMMA MeantIs ==
  ASSUME NEW at, Compiled(gen, at, frames, cur, path), NEW e \in Visible \cup {"true", "false"}
  PROVE  Meant(e) \in SUBSET World /\ (e \in Visible => Meant(e) = top.store[e] /\ e \in Names)
         /\ (e \notin Visible => e \in {"true", "false"})
<1>1. Stated(gen, at, frames, cur, path)
  BY StatedIs
<1>2. top \in Frames
  BY <1>1 DEF Stated, top
<1>3. "true" \notin Visible /\ "false" \notin Visible /\ Visible \subseteq Names
  BY <1>2, NamesAre DEF Visible, top
<1>4. \A n \in Visible : top.store[n] \in SUBSET World
  BY <1>2, FrameFields DEF Visible
<1>5. QED
  BY <1>3, <1>4 DEF Meant

\* The code's value of an expression carries what the expression means, where the program is.
LEMMA ValueIs ==
  ASSUME NEW at, Compiled(gen, at, frames, cur, path), ~gen.block[cur].dead, NEW e \in Visible \cup {"true", "false"}
  PROVE  Evaluates(gen, Value(NewEnv(gen, cur), e), path, Meant(e))
<1> DEFINE g == NewEnv(gen, cur)
           r == Value(g, e)
<1>1. Stated(gen, at, frames, cur, path)
  BY StatedIs
<1>2. Fine(gen) /\ cur \in DOMAIN gen.block /\ Agrees(Picture(gen)[cur].view, top.store, Visible, path)
  BY <1>1 DEF Stated, top, Visible
<1>3. Quiet(gen, g)
  BY <1>2, NewEnvQuiet
<1>4. Fine(g) /\ Picture(g) = Picture(gen) /\ DOMAIN g.block = DOMAIN gen.block
  BY <1>2, <1>3, QuietOnward
<1>5. CASE e \in Visible
  <2> DEFINE p == Bindings(g, cur)[e]
  <2>1. e \in DOMAIN Picture(g)[cur].view /\ Picture(g)[cur].view[e] \cap path = top.store[e] \cap path
    BY <1>2, <1>4, <1>5 DEF Agrees
  <2>2. /\ Picture(g)[cur].view = [n \in DOMAIN Bindings(g, cur) |-> Chosen(g, Bindings(g, cur)[n])]
        /\ \A n \in DOMAIN Bindings(g, cur) : Bindings(g, cur)[n] \in Bounds /\ Within(g, Bindings(g, cur)[n])
    BY <1>2, <1>4, BindingIs
  <2>3. p \in Bounds /\ Within(g, p) /\ Chosen(g, p) \cap path = top.store[e] \cap path
    BY <2>1, <2>2
  <2>4. r = Resolve(g, cur, p)
    BY <1>5 DEF Value
  <2> HIDE DEF p, g, r
  <2>5. Reads(g, Resolve(g, cur, p).gen, Resolve(g, cur, p).v, Chosen(g, p))
    BY <1>2, <1>4, <2>3, ResolveQuiet
  <2>6. Quiet(g, r.gen) /\ r.v \in 1 .. r.gen.values /\ Car(r.gen)[r.v] = Chosen(g, p)
    BY <2>4, <2>5 DEF Reads
  <2>7. Quiet(gen, r.gen)
    BY <1>2, <1>3, <2>6, QuietBoth
  <2>8. Meant(e) = top.store[e]
    BY <1>5, MeantIs
  <2>9. QED
    BY <2>3, <2>6, <2>7, <2>8 DEF Evaluates, r, g
<1>6. CASE e \notin Visible
  <2>1. r.gen = g /\ r.v = IF e = "true" THEN True ELSE False
    BY <1>6 DEF Value
  <2>2. e \in {"true", "false"}
    BY <1>6, MeantIs
  <2>3. Car(g)[True] = World /\ Car(g)[False] = {} /\ True \in 1 .. g.values /\ False \in 1 .. g.values
    BY <1>4, ConstantsCarry, FineFields
  <2> HIDE DEF g, r
  <2>4. r.v \in 1 .. r.gen.values /\ Car(r.gen)[r.v] = Meant(e)
    BY <2>1, <2>2, <2>3 DEF Meant
  <2>5. QED
    BY <1>3, <2>1, <2>4 DEF Evaluates, r, g
<1>7. QED
  BY <1>5, <1>6

\* The function on top is g now.
LEMMA CompiledFrom ==
  ASSUME NEW h, Fine(h), NEW bt, NEW fr \in Seq(Frames), fr # <<>>, NEW g \in Frames, NEW c, NEW w,
         NEW K, Upto(fr, Append(Front(fr), g), K, g), K = Len(fr), Top(Picture(h), bt, Append(Front(fr), g), c, w, g)
  PROVE  Compiled(h, bt, Append(Front(fr), g), c, w)
<1> DEFINE s == Append(Front(fr), g)
<1>1. s \in Seq(Frames) /\ Len(s) = Len(fr) /\ s[Len(fr)] = g
  BY ReplacedIs
<1>2. Len(fr) \in Nat /\ Len(fr) # 0
  OBVIOUS
<1> HIDE DEF s
<1>3. Last(s) = g
  BY <1>1, <1>2 DEF Last
<1>4. QED
  BY <1>3 DEF Compiled, s

\* The step of any assignment, from what it does to the picture.
LEMMA StoreStep ==
  ASSUME NEW g, NEW at, NEW fr, NEW c, NEW w, Compiled(g, at, fr, c, w), ~g.block[c].dead,
         NEW h, Fine(h), NEW name \in Names, NEW ws, NEW e \in SUBSET World, ws \cap w = e \cap w,
         NEW p, p = Picture(g), Boxed(p, Picture(h), c, p[c].next, p[c].branch, p[c].dead, p[c].when, Rebound(p[c].view, name, ws))
  PROVE  Compiled(h, at, Append(Front(fr), [Last(fr) EXCEPT !.store = Assigned(@, name, w, e)]), c, w)
<1> DEFINE f == Last(fr)
           k == [f EXCEPT !.store = Assigned(@, name, w, e)]
           q == Picture(h)
           fr2 == Append(Front(fr), k)
<1>1. Stated(g, at, fr, c, w)
  BY StatedIs
<1>2. /\ Top(p, at, fr, c, w, f) /\ fr \in Seq(Frames) /\ fr # <<>> /\ f \in Frames
      /\ w \in SUBSET World /\ ~p[c].dead
  BY <1>1 DEF Stated
<1>3. Stored(f, k, name, w, e)
  BY <1>2, StoredFrame
<1> HIDE DEF f, k
<1>4. k \in Frames
  BY <1>3 DEF Stored
<1>5. Upto(fr, fr2, Len(fr), k)
  BY <1>2, <1>4, TopReplaced
<1>6. Renamed(p, q, c, Rebound(p[c].view, name, ws))
  BY DEF Boxed, Renamed, IsBox
<1> HIDE DEF q, fr2
<1>7. Top(q, at, fr2, c, w, k)
  BY <1>2, <1>3, <1>5, <1>6, AssignSound
<1>8. Compiled(h, at, fr2, c, w)
  BY <1>2, <1>4, <1>5, <1>7, CompiledFrom DEF q, fr2
<1>9. QED
  BY <1>8 DEF fr2, f, k

\* Assign.SSA keeps the invariant.
LEMMA AssignStep ==
  ASSUME NEW at, Compiled(gen, at, frames, cur, path), NEW name \in Targets, NEW e \in Expr, Assign(name, e)
  PROVE  Compiled(gen', at, frames', cur', path')
<1> DEFINE r == Value(NewEnv(gen, cur), e)
           h == Move(r.gen, cur, name, r.v)
           p == Picture(gen)
<1>1. /\ ~gen.block[cur].dead /\ gen' = h /\ cur' = cur /\ path' = path
      /\ frames' = Append(Front(frames), [Last(frames) EXCEPT !.store = Assigned(@, name, path, Meant(e))])
  BY DEF Assign, Alive, Grow, SetTop, top
<1>2. Evaluates(gen, r, path, Meant(e))
  <2>1. e \in Visible \cup {"true", "false"}
    BY DEF Expr
  <2>2. QED
    BY <1>1, <2>1, ValueIs
<1>3. Fine(gen) /\ cur \in DOMAIN gen.block
  BY StatedIs DEF Stated
<1> HIDE DEF r, h, p
<1>4. Quiet(gen, r.gen) /\ r.v \in 1 .. r.gen.values /\ Car(r.gen)[r.v] \cap path = Meant(e) \cap path
  BY <1>2 DEF Evaluates
<1>5. Fine(r.gen) /\ Picture(r.gen) = p /\ cur \in DOMAIN r.gen.block
  BY <1>3, <1>4, QuietOnward DEF p
<1>6. name \in Names
  BY DEF Names
<1>7. /\ Onward(r.gen, h)
      /\ Boxed(p, Picture(h), cur, p[cur].next, p[cur].branch, p[cur].dead, p[cur].when, Rebound(p[cur].view, name, Car(r.gen)[r.v]))
  BY <1>4, <1>5, <1>6, MoveIs DEF h
<1>8. Fine(h) /\ Meant(e) \in SUBSET World
  <2>1. e \in Visible \cup {"true", "false"}
    BY DEF Expr
  <2>2. QED
    BY <1>7, <2>1, MeantIs DEF Onward
<1>9. Compiled(h, at, Append(Front(frames), [Last(frames) EXCEPT !.store = Assigned(@, name, path, Meant(e))]), cur, path)
  BY <1>1, <1>4, <1>6, <1>7, <1>8, StoreStep DEF p
<1>10. QED
  BY <1>1, <1>9

\* Assign.Eval, which a loop's increment goes through, keeps it.
LEMMA LoopAssignStep ==
  ASSUME NEW at, Compiled(gen, at, frames, cur, path), NEW name \in Targets, NEW e \in {"true", "false"}, LoopAssign(name, e)
  PROVE  Compiled(gen', at, frames', cur', path')
<1> DEFINE g == NewEnv(gen, cur)
           v == IF e = "true" THEN True ELSE False
           h == Set(g, cur, name, Bound(v))
           p == Picture(gen)
<1>1. /\ ~gen.block[cur].dead /\ gen' = h /\ cur' = cur /\ path' = path
      /\ frames' = Append(Front(frames), [Last(frames) EXCEPT !.store = Assigned(@, name, path, Meant(e))])
  BY DEF LoopAssign, Alive, Grow, SetTop, top
<1>2. Fine(gen) /\ cur \in DOMAIN gen.block
  BY StatedIs DEF Stated
<1>3. Quiet(gen, g)
  BY <1>2, NewEnvQuiet
<1> HIDE DEF g, h, p
<1>4. Fine(g) /\ Picture(g) = p /\ cur \in DOMAIN g.block
  BY <1>2, <1>3, QuietOnward DEF p
<1>5. Car(g)[True] = World /\ Car(g)[False] = {} /\ True \in 1 .. g.values /\ False \in 1 .. g.values
  BY <1>4, ConstantsCarry, FineFields
<1>6. v \in 1 .. g.values /\ Car(g)[v] = Meant(e) /\ Meant(e) \in SUBSET World
  BY <1>5 DEF Meant
<1>7. name \in Names
  BY DEF Names
<1> HIDE DEF v
<1>8. /\ Onward(g, h)
      /\ Boxed(p, Picture(h), cur, p[cur].next, p[cur].branch, p[cur].dead, p[cur].when, Rebound(p[cur].view, name, Car(g)[v]))
  BY <1>4, <1>6, <1>7, SetValueIs DEF h
<1>9. Fine(h)
  BY <1>8 DEF Onward
<1>10. Compiled(h, at, Append(Front(frames), [Last(frames) EXCEPT !.store = Assigned(@, name, path, Meant(e))]), cur, path)
  BY <1>1, <1>6, <1>7, <1>8, <1>9, StoreStep DEF p
<1>11. QED
  BY <1>1, <1>10

\* VariableDef.SSA keeps it.
LEMMA VariableDefStep ==
  ASSUME NEW at, Compiled(gen, at, frames, cur, path), NEW name \in Targets, VariableDef(name)
  PROVE  Compiled(gen', at, frames', cur', path')
<1> DEFINE g == NewEnv(gen, cur)
           h == Defined(g, cur, name)
           p == Picture(gen)
<1>1. /\ ~gen.block[cur].dead /\ gen' = h /\ cur' = cur /\ path' = path
      /\ frames' = Append(Front(frames), [Last(frames) EXCEPT !.store = Assigned(@, name, path, {})])
  BY DEF VariableDef, Alive, Grow, SetTop, top, Defined
<1>2. Fine(gen) /\ cur \in DOMAIN gen.block
  BY StatedIs DEF Stated
<1>3. Quiet(gen, g)
  BY <1>2, NewEnvQuiet
<1> HIDE DEF g, h, p
<1>4. Fine(g) /\ Picture(g) = p /\ cur \in DOMAIN g.block
  BY <1>2, <1>3, QuietOnward DEF p
<1>5. name \in Names
  BY DEF Names
<1>6. /\ Onward(g, h)
      /\ Boxed(p, Picture(h), cur, p[cur].next, p[cur].branch, p[cur].dead, p[cur].when, Rebound(p[cur].view, name, {}))
  BY <1>4, <1>5, DefinedIs DEF h
<1>7. Fine(h)
  BY <1>6 DEF Onward
<1>8. Compiled(h, at, Append(Front(frames), [Last(frames) EXCEPT !.store = Assigned(@, name, path, {})]), cur, path)
  BY <1>1, <1>5, <1>6, <1>7, StoreStep DEF p
<1>9. QED
  BY <1>1, <1>8

\* A new block is entered in the worlds ws.
More1(p, at, ws) == [b \in 1 .. Len(p) + 1 |-> IF b = Len(p) + 1 THEN ws ELSE at[b]]

\* The worlds at which blocks are entered when one is new.
LEMMA SpreadIs ==
  ASSUME NEW p, Pic(p), NEW at, NEW ws
  PROVE  Spread(p, at, More1(p, at, ws), ws)
<1> DEFINE n == Len(p)
<1>1. n \in Nat /\ DOMAIN p = 1 .. n
  BY DEF Pic
<1>2. More1(p, at, ws) = [b \in 1 .. n + 1 |-> IF b = n + 1 THEN ws ELSE at[b]]
  BY DEF More1
<1> HIDE DEF n
<1>3. n + 1 \in 1 .. n + 1 /\ \A b \in 1 .. n : b \in 1 .. n + 1 /\ b # n + 1
  BY <1>1
<1>4. (\A b \in DOMAIN p : More1(p, at, ws)[b] = at[b]) /\ More1(p, at, ws)[n + 1] = ws
  BY <1>1, <1>2, <1>3
<1>5. QED
  BY <1>4 DEF Spread, n

\* If.SSA with a constant condition keeps the invariant.
LEMMA IfConstStep ==
  ASSUME NEW at, Compiled(gen, at, frames, cur, path), NEW name \in Visible, IfConst(name)
  PROVE  Compiled(gen', at, frames', cur', path')
<1> DEFINE g == NewEnv(gen, cur)
           here == IF ConstOf(g, name) = True THEN path \cap Meant(name) ELSE path \ Meant(name)
           i == [If("const") EXCEPT !.end = path \ here]
           k == [top EXCEPT !.ifs = Append(@, i)]
           p == Picture(gen)
           fr2 == Append(Front(frames), k)
<1>1. /\ ~gen.block[cur].dead /\ ConstOf(g, name) # None /\ gen' = g /\ cur' = cur /\ path' = here
      /\ frames' = fr2
  BY DEF IfConst, Alive, Grow, SetTop
<1>2. Stated(gen, at, frames, cur, path)
  BY StatedIs
<1>3. /\ Fine(gen) /\ cur \in DOMAIN gen.block /\ Top(p, at, frames, cur, path, top) /\ frames \in Seq(Frames)
      /\ frames # <<>> /\ top \in Frames /\ NamesNested(top) /\ path \in SUBSET World
      /\ Agrees(p[cur].view, top.store, Visible, path)
  BY <1>1, <1>2 DEF Stated, top, Visible
<1>4. Quiet(gen, g)
  BY <1>3, NewEnvQuiet
<1>5. Fine(g) /\ Picture(g) = p /\ DOMAIN g.block = DOMAIN gen.block
  BY <1>3, <1>4, QuietOnward
<1>6. Meant(name) = top.store[name] /\ Meant(name) \in SUBSET World
  BY MeantIs
<1>7. here = path
  <2> DEFINE b == Bindings(g, cur)[name]
  <2>1. name \in DOMAIN p[cur].view /\ p[cur].view[name] \cap path = Meant(name) \cap path
    BY <1>3, <1>6 DEF Agrees
  <2>2. Picture(g)[cur].view = [n \in DOMAIN Bindings(g, cur) |-> Chosen(g, Bindings(g, cur)[n])]
    BY <1>3, <1>5, BindingIs
  <2>3. Chosen(g, b) \cap path = Meant(name) \cap path
    BY <1>5, <2>1, <2>2
  <2>4. ~b.select /\ b.at \in {True, False} /\ ConstOf(g, name) = b.at
    BY <1>1 DEF ConstOf, IsConst
  <2>5. Chosen(g, b) = Car(g)[b.at]
    BY <2>4 DEF Chosen, WorldsOf, Car
  <2>6. Car(g)[True] = World /\ Car(g)[False] = {}
    BY <1>5, ConstantsCarry
  <2> HIDE DEF b, g
  <2>7. b.at = True => path \subseteq Meant(name)
    BY <1>3, <2>3, <2>5, <2>6
  <2>8. b.at = False => path \cap Meant(name) = {}
    BY <1>3, <2>3, <2>5, <2>6
  <2>9. True # False
    BY DEF True, False
  <2>10. QED
    BY <2>4, <2>7, <2>8, <2>9
<1>8. DOMAIN top.store \in SUBSET Names /\ path \ here \in SUBSET World
  BY <1>3, FrameFields
<1>9. /\ i \in Ifs /\ i.kind = "const" /\ i.block = None /\ i.t = None /\ i.end = path \ here /\ i.names = DOMAIN top.store
  <2> HIDE DEF here
  <2>1. None \in Nat
    BY DEF None
  <2>2. QED
    BY <1>8, <2>1, IfIs DEF If
<1>10. i.end = {}
  BY <1>7, <1>9
<1> HIDE DEF here, i, g, p
<1>11. k \in Frames /\ Opened(top, k, i)
  BY <1>3, <1>9, OpenedFrame
<1> HIDE DEF k
<1>12. Upto(frames, fr2, Len(frames), k)
  BY <1>3, <1>11, TopReplaced
<1> HIDE DEF fr2
<1>13. Top(p, at, fr2, cur, path, k)
  BY <1>3, <1>9, <1>10, <1>11, <1>12, ConstSound
<1>14. Compiled(g, at, fr2, cur, path)
  BY <1>3, <1>5, <1>11, <1>12, <1>13, CompiledFrom DEF fr2
<1>15. QED
  BY <1>1, <1>7, <1>14

\* If.SSA up to its then branch keeps it.
LEMMA BranchStep ==
  ASSUME NEW at, Compiled(gen, at, frames, cur, path), NEW name \in Visible, Branch(name)
  PROVE  \E bt : Compiled(gen', bt, frames', cur', path')
<1> DEFINE r == Value(NewEnv(gen, cur), name)
           h == BranchBlock(Condition(r.gen, cur, r.v), cur)
           e == Meant(name)
           i == [If("then") EXCEPT !.block = cur, !.start = path \ e]
           k == [top EXCEPT !.ifs = Append(@, i)]
           p == Picture(gen)
           fr2 == Append(Front(frames), k)
           bt == More1(p, at, path \cap e)
           c == Len(p) + 1
<1>1. /\ ~gen.block[cur].dead /\ gen' = h /\ cur' = Len(gen.block) + 1 /\ path' = path \cap e /\ frames' = fr2
  BY DEF Branch, Alive, Grow, SetTop, Condition
<1>2. Stated(gen, at, frames, cur, path)
  BY StatedIs
<1>3. /\ Fine(gen) /\ cur \in DOMAIN gen.block /\ cur \in Nat /\ Top(p, at, frames, cur, path, top) /\ frames \in Seq(Frames)
      /\ frames # <<>> /\ top \in Frames /\ NamesNested(top) /\ path \in SUBSET World /\ ~p[cur].dead
  BY <1>1, <1>2 DEF Stated, top
<1>4. Evaluates(gen, r, path, e)
  BY <1>1, ValueIs
<1>5. Quiet(gen, r.gen) /\ r.v \in 1 .. r.gen.values /\ Car(r.gen)[r.v] \cap path = e \cap path
  BY <1>4 DEF Evaluates
<1> HIDE DEF r
<1>6. Fine(r.gen) /\ Picture(r.gen) = p /\ cur \in DOMAIN r.gen.block
  BY <1>3, <1>5, QuietOnward
<1>7. Onward(r.gen, h) /\ Forked(p, Picture(h), cur, p[cur].next, c, Car(r.gen)[r.v])
  BY <1>5, <1>6, BranchBlockIs
<1>8. DOMAIN top.store \in SUBSET Names /\ path \ e \in SUBSET World
  BY <1>3, FrameFields
<1>9. /\ i \in Ifs /\ i.kind = "then" /\ i.block = cur /\ i.t = None /\ i.start = path \ e /\ i.names = DOMAIN top.store
  <2> DEFINE ws == path \ e
             names == DOMAIN top.store
             t == [[kind |-> "then", block |-> None, t |-> None, start |-> {}, end |-> {}, names |-> names]
                     EXCEPT !.block = cur, !.start = ws]
  <2>1. i = t
    BY DEF If
  <2>2. ws \in SUBSET World /\ names \in SUBSET Names
    BY <1>8
  <2> HIDE DEF ws, names, i
  <2>3. /\ t \in Ifs /\ t.kind = "then" /\ t.block = cur /\ t.t = None /\ t.start = ws /\ t.names = names
    BY <1>3, <2>2, IfIs
  <2> HIDE DEF t
  <2>4. QED
    BY <2>1, <2>3 DEF ws, names
<1>10. Pic(p) /\ Len(p) = Len(gen.block)
  BY <1>3, FineFields
<1> HIDE DEF p, i, h, e
<1>11. k \in Frames /\ Opened(top, k, i)
  BY <1>3, <1>9, OpenedFrame
<1> HIDE DEF k
<1>12. Upto(frames, fr2, Len(frames), k)
  BY <1>3, <1>11, TopReplaced
<1>13. Spread(p, at, bt, path \cap e)
  BY <1>10, SpreadIs
<1> HIDE DEF fr2, bt
<1>14. /\ Drawn(p, Picture(h), {cur}) /\ IsBox(Picture(h)[cur], p[cur].next, c, p[cur].dead, Car(r.gen)[r.v], p[cur].view)
       /\ FreshBox(Picture(h)[c], p[cur].view)
  BY <1>7 DEF Forked
<1>15. Top(Picture(h), bt, fr2, c, path \cap e, k)
  BY <1>3, <1>5, <1>9, <1>11, <1>12, <1>13, <1>14, BranchSound
<1>16. Fine(h)
  BY <1>7 DEF Onward
<1>17. Compiled(h, bt, fr2, c, path \cap e)
  BY <1>3, <1>11, <1>12, <1>15, <1>16, CompiledFrom DEF fr2
<1>18. QED
  BY <1>1, <1>10, <1>17

\* The innermost open if of the function on top.
Inner(g, at, fr, c, w, i) ==
  LET p == Picture(g)
  IN /\ Stated(g, at, fr, c, w) /\ Innermost(p, at, Last(fr), c, w, i) /\ i = Last(Last(fr).ifs)
     /\ (i.kind # "const" => i.block \in DOMAIN g.block /\ i.block # c)
     /\ (i.kind = "else" => i.t \in DOMAIN g.block /\ i.t # c)
     /\ i.start \in SUBSET World /\ i.end \in SUBSET World
     /\ Pic(p) /\ Len(p) = Len(g.block) /\ DOMAIN p = DOMAIN g.block

\* What holds of the innermost open if in a state.
LEMMA InnerIs ==
  ASSUME NEW g, NEW at, NEW fr, NEW c, NEW w, Compiled(g, at, fr, c, w), Last(fr).ifs # <<>>
  PROVE  Inner(g, at, fr, c, w, Last(Last(fr).ifs))
<1> DEFINE f == Last(fr)
           i == Last(f.ifs)
           p == Picture(g)
<1>1. Stated(g, at, fr, c, w)
  BY StatedIs
<1>2. Fine(g) /\ Top(p, at, fr, c, w, f) /\ f \in Frames /\ c \in DOMAIN g.block /\ c \in Nat
  BY <1>1 DEF Stated
<1>3. FrameOK(p, at, f, c, w) /\ f.start \in 1 .. Len(p)
  BY <1>2, TopIs
<1>4. f.ifs \in Seq(Ifs)
  BY <1>2, StoreFields
<1>5. i = f.ifs[Len(f.ifs)] /\ i \in Ifs
  BY <1>4, LastIs
<1>6. Innermost(p, at, f, c, w, i)
  BY <1>2, <1>3, <1>5, InnermostIs
<1>7. Pic(p) /\ Len(p) = Len(g.block) /\ DOMAIN g.block = 1 .. Len(g.block) /\ Len(g.block) \in Nat /\ DOMAIN p = DOMAIN g.block
  BY <1>2, FineFields
<1>8. i.start \in SUBSET World /\ i.end \in SUBSET World
  BY <1>5, IfFields
<1> HIDE DEF f, i, p
<1>9. i.kind # "const" => i.block \in Nat /\ f.start <= i.block /\ i.block < c
  BY <1>6 DEF Innermost
<1>10. i.kind = "else" => i.t \in Nat /\ f.start <= i.t /\ i.t < c
  BY <1>6 DEF Innermost
<1>11. /\ (i.kind # "const" => i.block \in DOMAIN g.block /\ i.block # c)
       /\ (i.kind = "else" => i.t \in DOMAIN g.block /\ i.t # c)
  BY <1>2, <1>3, <1>7, <1>9, <1>10
<1>12. QED
  BY <1>1, <1>5, <1>6, <1>7, <1>8, <1>11 DEF Inner, f, i, p

\* If.SSA from its then to its else branch keeps the invariant.
LEMMA ElseStep ==
  ASSUME NEW at, Compiled(gen, at, frames, cur, path), Else
  PROVE  \E bt : Compiled(gen', bt, frames', cur', path')
<1> DEFINE i == Last(top.ifs)
           h == NextBlock(gen, i.block)
           j == [i EXCEPT !.kind = "else", !.t = cur, !.end = path]
           k == [top EXCEPT !.ifs = Append(Front(@), j), !.store = [n \in i.names |-> @[n]]]
           p == Picture(gen)
           fr2 == Append(Front(frames), k)
           bt == More1(p, at, i.start)
           c == Len(p) + 1
<1>1. /\ top.ifs # <<>> /\ i.kind = "then" /\ gen' = h /\ cur' = Len(gen.block) + 1 /\ path' = i.start /\ frames' = fr2
  BY DEF Else, Grow, SetTop
<1>2. Inner(gen, at, frames, cur, path, i)
  BY <1>1, InnerIs DEF top
<1>3. Stated(gen, at, frames, cur, path) /\ Pic(p) /\ Len(p) = Len(gen.block) /\ Innermost(p, at, top, cur, path, i)
      /\ i.block \in DOMAIN gen.block
  BY <1>1, <1>2 DEF Inner, top
<1>4. /\ Fine(gen) /\ cur \in Nat /\ Top(p, at, frames, cur, path, top) /\ frames \in Seq(Frames)
      /\ frames # <<>> /\ top \in Frames /\ NamesNested(top) /\ path \in SUBSET World
  BY <1>3 DEF Stated, top
<1>5. p[i.block].next = None /\ i \in Ifs
  BY <1>1, <1>3 DEF Innermost
<1>6. Onward(gen, h) /\ Forked(p, Picture(h), i.block, c, p[i.block].branch, p[i.block].when)
  BY <1>3, <1>4, <1>5, NextBlockIs
<1>7. j \in Ifs /\ j.kind = "else" /\ j.t = cur /\ j.end = path /\ j.names = i.names /\ j.block = i.block
  <2> HIDE DEF i, k, fr2, bt, p
  <2>1. i \in Ifs /\ cur \in Nat /\ path \in SUBSET World
    BY <1>4, <1>5
  <2>2. j = Turning(i, cur, path)
    BY DEF Turning
  <2> HIDE DEF j
  <2>3. QED
    BY <2>1, <2>2, ElseIs
<1>8. k \in Frames /\ Turned(top, k, i, j)
  <2> HIDE DEF j
  <2>1. QED
    BY <1>1, <1>4, <1>7, TurnedFrame
<1> HIDE DEF p, i, h, j, k
<1>9. Upto(frames, fr2, Len(frames), k)
  BY <1>4, <1>8, TopReplaced
<1>10. Spread(p, at, bt, i.start)
  BY <1>3, SpreadIs
<1> HIDE DEF fr2, bt
<1>11. /\ Drawn(p, Picture(h), {i.block})
       /\ IsBox(Picture(h)[i.block], c, p[i.block].branch, p[i.block].dead, p[i.block].when, p[i.block].view)
       /\ FreshBox(Picture(h)[c], p[i.block].view)
  BY <1>6 DEF Forked
<1>12. Top(Picture(h), bt, fr2, c, i.start, k)
  <2>1. NextDrawn(p, cur, path, top, k, i, j, Picture(h))
    BY <1>1, <1>7, <1>8, <1>11 DEF NextDrawn
  <2>2. QED
    BY <1>4, <1>9, <1>10, <2>1, NextSound
<1>13. Fine(h)
  BY <1>6 DEF Onward
<1>14. Compiled(h, bt, fr2, c, i.start)
  BY <1>4, <1>8, <1>9, <1>12, <1>13, CompiledFrom DEF fr2
<1>15. QED
  BY <1>1, <1>3, <1>14

\* What the end of an if comes from.
Ending(at, i, k, fr2) ==
  LET p == Picture(gen)
  IN /\ Fine(gen) /\ cur \in DOMAIN gen.block /\ Top(p, at, frames, cur, path, top) /\ frames \in Seq(Frames) /\ frames # <<>>
     /\ Pic(p) /\ Len(p) = Len(gen.block) /\ DOMAIN p = DOMAIN gen.block
     /\ k \in Frames /\ Closed(top, k, i) /\ fr2 = Append(Front(frames), k) /\ Upto(frames, fr2, Len(frames), k)
     /\ (i.kind # "const" => i.block \in DOMAIN gen.block /\ i.block # cur /\ p[i.block].branch # None)
     /\ (i.kind = "then" => p[i.block].next = None)
     /\ (i.kind = "else" => i.t \in DOMAIN gen.block /\ i.t # cur /\ (~p[i.t].dead => p[i.t].next = None)
                            /\ p[i.t].dead = gen.block[i.t].dead)
     /\ p[cur].dead = gen.block[cur].dead /\ (p[cur].dead => path = {}) /\ (~p[cur].dead => p[cur].next = None)

\* What holds when an if ends.
LEMMA EndingIs ==
  ASSUME NEW at, Compiled(gen, at, frames, cur, path), top.ifs # <<>>
  PROVE  LET i == Last(top.ifs)
             k == [top EXCEPT !.ifs = Front(@), !.store = [n \in i.names |-> @[n]]]
         IN Ending(at, i, k, Append(Front(frames), k))
<1> DEFINE i == Last(top.ifs)
           k == [top EXCEPT !.ifs = Front(@), !.store = [n \in i.names |-> @[n]]]
           p == Picture(gen)
           fr2 == Append(Front(frames), k)
<1>1. Inner(gen, at, frames, cur, path, i)
  BY InnerIs DEF top
<1>2. /\ Stated(gen, at, frames, cur, path) /\ Pic(p) /\ Len(p) = Len(gen.block) /\ DOMAIN p = DOMAIN gen.block
      /\ Innermost(p, at, top, cur, path, i)
      /\ (i.kind # "const" => i.block \in DOMAIN gen.block /\ i.block # cur)
      /\ (i.kind = "else" => i.t \in DOMAIN gen.block /\ i.t # cur)
  BY <1>1 DEF Inner, top
<1>3. /\ Fine(gen) /\ cur \in DOMAIN gen.block /\ Top(p, at, frames, cur, path, top) /\ frames \in Seq(Frames)
      /\ frames # <<>> /\ top \in Frames /\ NamesNested(top)
      /\ p[cur].dead = gen.block[cur].dead /\ (~p[cur].dead => Idle(p[cur]))
  BY <1>2 DEF Stated, top
<1>4. k \in Frames /\ Closed(top, k, i)
  BY <1>3, ClosedFrame
<1> HIDE DEF p, i, k
<1>5. Upto(frames, fr2, Len(frames), k)
  BY <1>3, <1>4, TopReplaced
<1>6. p[cur].dead => path = {}
  <2>1. FrameOK(p, at, top, cur, path)
    BY <1>3, TopIs
  <2>2. CurOK(p, at, top, cur, path)
    BY <2>1 DEF FrameOK
  <2>3. QED
    BY <2>2 DEF CurOK
<1>7. i.kind = "else" => (~p[i.t].dead => p[i.t].next = None) /\ p[i.t].dead = gen.block[i.t].dead
  <2>1. SUFFICES ASSUME i.kind = "else" PROVE (~p[i.t].dead => p[i.t].next = None) /\ p[i.t].dead = gen.block[i.t].dead
    OBVIOUS
  <2>2. IfOK(p, at, top, i)
    BY <1>2 DEF Innermost
  <2>3. ~p[i.t].dead => Idle(p[i.t])
    BY <2>1, <2>2 DEF IfOK
  <2>4. BlockShown(gen, i.t, p[i.t])
    BY <1>2, <1>3, <2>1, BlockShownIs DEF p
  <2>5. QED
    BY <2>3, <2>4 DEF BlockShown, Idle
<1>8. (i.kind # "const" => p[i.block].branch # None) /\ (i.kind = "then" => p[i.block].next = None)
  BY <1>2 DEF Innermost
<1>9. ~p[cur].dead => p[cur].next = None
  BY <1>3 DEF Idle
<1>10. Ending(at, i, k, fr2)
  BY <1>2, <1>3, <1>4, <1>5, <1>6, <1>7, <1>8, <1>9 DEF Ending, p
<1>11. QED
  BY <1>10 DEF i, k

\* The state after the end of an if.
LEMMA EndsIn ==
  ASSUME NEW at, NEW i, NEW k, NEW fr2, Ending(at, i, k, fr2), NEW h, Fine(h), NEW bt, NEW c, NEW w,
         Top(Picture(h), bt, fr2, c, w, k)
  PROVE  Compiled(h, bt, fr2, c, w)
<1>1. frames \in Seq(Frames) /\ frames # <<>> /\ k \in Frames /\ fr2 = Append(Front(frames), k) /\ Upto(frames, fr2, Len(frames), k)
  BY DEF Ending
<1>2. QED
  BY <1>1, CompiledFrom

\* The ends of an if that make no block.
LEMMA CloseStep ==
  ASSUME NEW at, NEW i, NEW k, NEW fr2, Ending(at, i, k, fr2), NEW d,
         \/ i.kind = "const" /\ d = cur
         \/ i.kind = "else" /\ gen.block[i.t].dead /\ ~gen.block[cur].dead /\ d = cur
         \/ i.kind = "else" /\ ~gen.block[i.t].dead /\ gen.block[cur].dead /\ d = i.t
  PROVE  Compiled(gen, at, fr2, d, path \cup i.end)
<1> DEFINE p == Picture(gen)
           v == path \cup i.end
<1>1. /\ Fine(gen) /\ Top(p, at, frames, cur, path, top) /\ Closed(top, k, i) /\ Upto(frames, fr2, Len(frames), k)
      /\ (i.kind = "else" => p[i.t].dead = gen.block[i.t].dead) /\ p[cur].dead = gen.block[cur].dead
  BY DEF Ending
<1> HIDE DEF p
<1>2. \/ i.kind = "const" /\ d = cur /\ v = path \cup i.end
      \/ i.kind = "else" /\ p[i.t].dead /\ ~p[cur].dead /\ d = cur /\ v = path \cup i.end
      \/ i.kind = "else" /\ ~p[i.t].dead /\ p[cur].dead /\ d = i.t /\ v = path \cup i.end
  BY <1>1
<1> HIDE DEF v
<1>3. Top(p, at, fr2, d, v, k)
  BY <1>1, <1>2, CloseSound
<1>4. QED
  BY <1>1, <1>3, EndsIn DEF p, v

\* The end of an if without else that returned: the code goes on in a new block.
LEMMA EndDeadThen ==
  ASSUME NEW at, NEW i, NEW k, NEW fr2, Ending(at, i, k, fr2), i.kind = "then", gen.block[cur].dead
  PROVE  \E bt : Compiled(NextBlock(gen, i.block), bt, fr2, Len(gen.block) + 1, path \cup i.start)
<1> DEFINE p == Picture(gen)
           h == NextBlock(gen, i.block)
           bt == More1(p, at, i.start)
           c == Len(p) + 1
<1>1. /\ Fine(gen) /\ Top(p, at, frames, cur, path, top) /\ Closed(top, k, i) /\ Upto(frames, fr2, Len(frames), k)
      /\ Pic(p) /\ Len(p) = Len(gen.block) /\ i.block \in DOMAIN gen.block /\ p[i.block].next = None
      /\ p[cur].dead /\ path = {}
  BY DEF Ending
<1>2. Onward(gen, h) /\ Forked(p, Picture(h), i.block, c, p[i.block].branch, p[i.block].when)
  BY <1>1, NextBlockIs
<1> HIDE DEF p, h
<1>3. Spread(p, at, bt, i.start)
  BY <1>1, SpreadIs
<1> HIDE DEF bt
<1>4. /\ Drawn(p, Picture(h), {i.block})
      /\ IsBox(Picture(h)[i.block], c, p[i.block].branch, p[i.block].dead, p[i.block].when, p[i.block].view)
      /\ FreshBox(Picture(h)[c], p[i.block].view)
  BY <1>2 DEF Forked
<1>5. Top(Picture(h), bt, fr2, c, i.start, k)
  <2>1. NextDrawn(p, cur, path, top, k, i, i, Picture(h))
    BY <1>1, <1>4 DEF NextDrawn
  <2>2. QED
    BY <1>1, <1>3, <2>1, NextSound
<1>6. Fine(h)
  BY <1>2 DEF Onward
<1>7. Compiled(h, bt, fr2, c, i.start)
  BY <1>5, <1>6, EndsIn
<1>8. i.start = path \cup i.start
  BY <1>1
<1>9. QED
  BY <1>1, <1>7, <1>8 DEF h

\* The end of an if without else that did not: the names are merged.
LEMMA EndLiveThen ==
  ASSUME NEW at, NEW i, NEW k, NEW fr2, Ending(at, i, k, fr2), i.kind = "then", ~gen.block[cur].dead
  PROVE  \E bt : Compiled(Join(gen, Merge(gen, gen.block[i.block].cond, cur, i.block), cur, i.block), bt, fr2, cur,
                          path \cup i.start)
<1> DEFINE p == Picture(gen)
           h == Join(gen, Merge(gen, gen.block[i.block].cond, cur, i.block), cur, i.block)
           v == path \cup i.start
           bt == [b \in DOMAIN p |-> IF b = cur THEN v ELSE at[b]]
<1>1. /\ Fine(gen) /\ Top(p, at, frames, cur, path, top) /\ Closed(top, k, i) /\ Upto(frames, fr2, Len(frames), k)
      /\ Pic(p) /\ Len(p) = Len(gen.block) /\ DOMAIN p = DOMAIN gen.block
      /\ i.block \in DOMAIN gen.block /\ p[i.block].next = None
      /\ cur \in DOMAIN gen.block /\ i.block # cur /\ p[i.block].branch # None /\ ~p[cur].dead
  BY DEF Ending
<1>2. Onward(gen, h) /\ Joint(p, Picture(h), cur, i.block)
  BY <1>1, JoinIs
<1> HIDE DEF p, h, v
<1>3. (\A b \in DOMAIN p : b # cur => bt[b] = at[b]) /\ bt[cur] = v
  BY <1>1
<1> HIDE DEF bt
<1>4. /\ Pic(Picture(h)) /\ Len(Picture(h)) = Len(p) /\ \A b \in DOMAIN p : b # cur /\ b # i.block => Picture(h)[b] = p[b]
      /\ IsBox(Picture(h)[i.block], cur, p[i.block].branch, p[i.block].dead, p[i.block].when, p[i.block].view)
      /\ IsBox(Picture(h)[cur], p[cur].next, p[cur].branch, p[cur].dead, p[cur].when,
               Joined(p[i.block].when, p[cur].view, p[i.block].view))
  BY <1>2 DEF Joint
<1>5. Top(Picture(h), bt, fr2, cur, v, k)
  <2>1. JoinDrawn(p, at, cur, path, top, k, i, Picture(h), bt)
    BY <1>1, <1>3, <1>4 DEF JoinDrawn, v
  <2>2. QED
    BY <1>1, <2>1, JoinSound DEF v
<1>6. Fine(h)
  BY <1>2 DEF Onward
<1>7. Compiled(h, bt, fr2, cur, v)
  BY <1>5, <1>6, EndsIn
<1>8. QED
  BY <1>7 DEF h, v

\* The end of an if both of whose branches returned.
LEMMA EndDeadElse ==
  ASSUME NEW at, NEW i, NEW k, NEW fr2, Ending(at, i, k, fr2), i.kind = "else", gen.block[cur].dead, gen.block[i.t].dead
  PROVE  \E bt : Compiled(Deaden(AddBlock(gen, NoBindings), Len(gen.block) + 1), bt, fr2, Len(gen.block) + 1, path \cup i.end)
<1> DEFINE p == Picture(gen)
           h == Deaden(AddBlock(gen, NoBindings), Len(gen.block) + 1)
           v == path \cup i.end
           bt == More1(p, at, v)
           c == Len(p) + 1
<1>1. /\ Fine(gen) /\ Top(p, at, frames, cur, path, top) /\ Closed(top, k, i) /\ Upto(frames, fr2, Len(frames), k)
      /\ Pic(p) /\ Len(p) = Len(gen.block) /\ p[cur].dead /\ p[i.t].dead
  BY DEF Ending
<1>2. Onward(gen, h) /\ DeadEnd(p, Picture(h))
  BY <1>1, DeadEndIs
<1> HIDE DEF p, h, v
<1>3. Spread(p, at, bt, v)
  BY <1>1, SpreadIs
<1> HIDE DEF bt
<1>4. /\ Drawn(p, Picture(h), {}) /\ Picture(h)[c].next = None /\ Picture(h)[c].branch = None /\ Picture(h)[c].dead
      /\ Picture(h)[c].when = {}
  BY <1>2 DEF DeadEnd
<1>5. Top(Picture(h), bt, fr2, c, v, k)
  <2>1. MeetDrawn(p, cur, top, k, i, Picture(h))
    BY <1>1, <1>4 DEF MeetDrawn
  <2>2. QED
    BY <1>1, <1>3, <2>1, MeetSound DEF v
<1>6. Fine(h)
  BY <1>2 DEF Onward
<1>7. Compiled(h, bt, fr2, c, v)
  BY <1>5, <1>6, EndsIn
<1>8. QED
  BY <1>1, <1>7 DEF h, v

\* The end of an if neither of whose branches returned: the names are merged in a new block.
LEMMA EndLiveElse ==
  ASSUME NEW at, NEW i, NEW k, NEW fr2, Ending(at, i, k, fr2), i.kind = "else", ~gen.block[cur].dead, ~gen.block[i.t].dead
  PROVE  \E bt : Compiled(Meet(gen, Merge(gen, gen.block[i.block].cond, i.t, cur), i.t, cur, Len(gen.block) + 1), bt, fr2,
                          Len(gen.block) + 1, path \cup i.end)
<1> DEFINE p == Picture(gen)
           h == Meet(gen, Merge(gen, gen.block[i.block].cond, i.t, cur), i.t, cur, Len(gen.block) + 1)
           v == path \cup i.end
           bt == More1(p, at, v)
           c == Len(p) + 1
<1>1. /\ Fine(gen) /\ Top(p, at, frames, cur, path, top) /\ Closed(top, k, i) /\ Upto(frames, fr2, Len(frames), k)
      /\ Pic(p) /\ Len(p) = Len(gen.block) /\ ~p[cur].dead /\ ~p[i.t].dead
      /\ i.block \in DOMAIN gen.block /\ i.t \in DOMAIN gen.block /\ cur \in DOMAIN gen.block /\ i.t # cur
      /\ p[i.block].branch # None /\ p[i.t].next = None /\ p[cur].next = None
  BY DEF Ending
<1>2. Onward(gen, h) /\ Met(p, Picture(h), i.t, cur, Joined(p[i.block].when, p[i.t].view, p[cur].view))
  BY <1>1, MeetIs
<1> HIDE DEF p, h, v
<1>3. Spread(p, at, bt, v)
  BY <1>1, SpreadIs
<1> HIDE DEF bt
<1>4. /\ Drawn(p, Picture(h), {i.t, cur})
      /\ IsBox(Picture(h)[i.t], c, p[i.t].branch, p[i.t].dead, p[i.t].when, p[i.t].view)
      /\ IsBox(Picture(h)[cur], c, p[cur].branch, p[cur].dead, p[cur].when, p[cur].view)
      /\ FreshBox(Picture(h)[c], Joined(p[i.block].when, p[i.t].view, p[cur].view))
  BY <1>2 DEF Met
<1>5. Top(Picture(h), bt, fr2, c, v, k)
  <2>1. MeetDrawn(p, cur, top, k, i, Picture(h))
    BY <1>1, <1>4 DEF MeetDrawn
  <2>2. QED
    BY <1>1, <1>3, <2>1, MeetSound DEF v
<1>6. Fine(h)
  BY <1>2 DEF Onward
<1>7. Compiled(h, bt, fr2, c, v)
  BY <1>5, <1>6, EndsIn
<1>8. QED
  BY <1>1, <1>7 DEF h, v

\* The four cases of If.SSA after an else.
LEMMA EndElseIs ==
  ASSUME NEW i, EndElse(i)
  PROVE  \/ /\ gen.block[i.t].dead /\ gen.block[cur].dead
            /\ gen' = Deaden(AddBlock(gen, NoBindings), Len(gen.block) + 1) /\ cur' = Len(gen.block) + 1
         \/ ~gen.block[i.t].dead /\ gen.block[cur].dead /\ cur' = i.t /\ gen' = gen
         \/ gen.block[i.t].dead /\ ~gen.block[cur].dead /\ cur' = cur /\ gen' = gen
         \/ /\ ~gen.block[i.t].dead /\ ~gen.block[cur].dead
            /\ gen' = Meet(gen, Merge(gen, gen.block[i.block].cond, i.t, cur), i.t, cur, Len(gen.block) + 1)
            /\ cur' = Len(gen.block) + 1
<1> DEFINE dead == [b \in {i.t, cur} |-> gen.block[b].dead]
           new == Len(gen.block) + 1
           m == Merge(gen, gen.block[i.block].cond, i.t, cur)
           A == gen' = Deaden(AddBlock(gen, NoBindings), new) /\ cur' = new
           B == cur' = i.t /\ UNCHANGED gen
           C == UNCHANGED <<gen, cur>>
           D == gen' = Meet(gen, m, i.t, cur, new) /\ cur' = new
<1>1. (CASE dead[i.t] /\ dead[cur] -> A [] ~dead[i.t] /\ dead[cur] -> B [] dead[i.t] /\ ~dead[cur] -> C [] OTHER -> D)
  BY DEF EndElse, Deaden, Meet
<1>2. dead[i.t] = gen.block[i.t].dead /\ dead[cur] = gen.block[cur].dead
  OBVIOUS
<1>3. B => cur' = i.t /\ gen' = gen
  OBVIOUS
<1>4. C => cur' = cur /\ gen' = gen
  OBVIOUS
<1>5. A => gen' = Deaden(AddBlock(gen, NoBindings), new) /\ cur' = new
  OBVIOUS
<1>6. D => gen' = Meet(gen, m, i.t, cur, new) /\ cur' = new
  OBVIOUS
<1> HIDE DEF dead, A, B, C, D
<1>7. \/ dead[i.t] /\ dead[cur] /\ A
      \/ ~dead[i.t] /\ dead[cur] /\ B
      \/ dead[i.t] /\ ~dead[cur] /\ C
      \/ ~dead[i.t] /\ ~dead[cur] /\ D
  BY <1>1
<1>8. QED
  BY <1>2, <1>3, <1>4, <1>5, <1>6, <1>7

\* The end of If.SSA keeps the invariant.
LEMMA EndIfStep ==
  ASSUME NEW at, Compiled(gen, at, frames, cur, path), EndIf
  PROVE  \E bt : Compiled(gen', bt, frames', cur', path')
<1> DEFINE i == Last(top.ifs)
           k == [top EXCEPT !.ifs = Front(@), !.store = [n \in i.names |-> @[n]]]
           fr2 == Append(Front(frames), k)
<1>1. /\ top.ifs # <<>> /\ frames' = fr2
      /\ \/ i.kind = "then" /\ EndThen(i) /\ path' = path \cup i.start
         \/ i.kind = "else" /\ EndElse(i) /\ path' = path \cup i.end
         \/ i.kind = "const" /\ gen' = gen /\ cur' = cur /\ path' = path \cup i.end
  BY DEF EndIf, SetTop
<1>2. Ending(at, i, k, fr2)
  BY <1>1, EndingIs
<1> HIDE DEF i, k, fr2
<1>3. CASE i.kind = "then" /\ EndThen(i) /\ path' = path \cup i.start
  <2>1. CASE gen.block[cur].dead
    <3>1. gen' = NextBlock(gen, i.block) /\ cur' = Len(gen.block) + 1
      BY <1>3, <2>1 DEF EndThen
    <3>2. QED
      BY <1>1, <1>2, <1>3, <2>1, <3>1, EndDeadThen
  <2>2. CASE ~gen.block[cur].dead
    <3>1. gen' = Join(gen, Merge(gen, gen.block[i.block].cond, cur, i.block), cur, i.block) /\ cur' = cur
      BY <1>3, <2>2 DEF EndThen, Join
    <3>2. QED
      BY <1>1, <1>2, <1>3, <2>2, <3>1, EndLiveThen
  <2>3. QED
    BY <2>1, <2>2
<1>4. CASE i.kind = "else" /\ EndElse(i) /\ path' = path \cup i.end
  <2>1. \/ /\ gen.block[i.t].dead /\ gen.block[cur].dead
           /\ gen' = Deaden(AddBlock(gen, NoBindings), Len(gen.block) + 1) /\ cur' = Len(gen.block) + 1
        \/ ~gen.block[i.t].dead /\ gen.block[cur].dead /\ cur' = i.t /\ gen' = gen
        \/ gen.block[i.t].dead /\ ~gen.block[cur].dead /\ cur' = cur /\ gen' = gen
        \/ /\ ~gen.block[i.t].dead /\ ~gen.block[cur].dead
           /\ gen' = Meet(gen, Merge(gen, gen.block[i.block].cond, i.t, cur), i.t, cur, Len(gen.block) + 1)
           /\ cur' = Len(gen.block) + 1
    BY <1>4, EndElseIs
  <2>2. CASE gen.block[i.t].dead /\ gen.block[cur].dead
    BY <1>1, <1>2, <1>4, <2>1, <2>2, EndDeadElse
  <2>3. CASE ~gen.block[i.t].dead /\ gen.block[cur].dead
    <3>1. cur' = i.t /\ gen' = gen
      BY <2>1, <2>3
    <3>2. Compiled(gen, at, fr2, i.t, path \cup i.end)
      BY <1>2, <1>4, <2>3, CloseStep
    <3>3. QED
      BY <1>1, <1>4, <3>1, <3>2
  <2>4. CASE gen.block[i.t].dead /\ ~gen.block[cur].dead
    <3>1. cur' = cur /\ gen' = gen
      BY <2>1, <2>4
    <3>2. Compiled(gen, at, fr2, cur, path \cup i.end)
      BY <1>2, <1>4, <2>4, CloseStep
    <3>3. QED
      BY <1>1, <1>4, <3>1, <3>2
  <2>5. CASE ~gen.block[i.t].dead /\ ~gen.block[cur].dead
    BY <1>1, <1>2, <1>4, <2>1, <2>5, EndLiveElse
  <2>6. QED
    BY <2>2, <2>3, <2>4, <2>5
<1>5. CASE i.kind = "const" /\ gen' = gen /\ cur' = cur /\ path' = path \cup i.end
  <2>1. Compiled(gen, at, fr2, cur, path \cup i.end)
    BY <1>2, <1>5, CloseStep
  <2>2. QED
    BY <1>1, <1>5, <2>1
<1>6. QED
  BY <1>1, <1>3, <1>4, <1>5

\* Return.SSA keeps it.
LEMMA ReturnStep ==
  ASSUME NEW at, Compiled(gen, at, frames, cur, path), NEW e \in Expr, Return(e)
  PROVE  Compiled(gen', at, frames', cur', path')
<1> DEFINE r == Value(NewEnv(gen, cur), e)
           h == Left(Moved(r.gen, cur, Ret, r.v, NewVal(r.gen)), cur, top.ret)
           ws == path \cap Meant(e)
           k == [top EXCEPT !.result = @ \cup ws]
           p == Picture(gen)
           fr2 == Append(Front(frames), k)
<1>1. ~gen.block[cur].dead /\ gen' = h /\ cur' = cur /\ path' = {} /\ frames' = fr2
  BY DEF Return, Alive, Grow, SetTop, Left, Deaden, Moved
<1>2. e \in Visible \cup {"true", "false"}
  BY DEF Expr
<1>3. Stated(gen, at, frames, cur, path)
  BY StatedIs
<1>4. /\ Fine(gen) /\ cur \in DOMAIN gen.block /\ Top(p, at, frames, cur, path, top) /\ frames \in Seq(Frames)
      /\ frames # <<>> /\ top \in Frames /\ path \in SUBSET World /\ ~p[cur].dead /\ Idle(p[cur])
  BY <1>1, <1>3 DEF Stated, top
<1>5. Evaluates(gen, r, path, Meant(e))
  BY <1>1, <1>2, ValueIs
<1>6. Quiet(gen, r.gen) /\ r.v \in 1 .. r.gen.values /\ Car(r.gen)[r.v] \cap path = Meant(e) \cap path
  BY <1>5 DEF Evaluates
<1> HIDE DEF r
<1>7. Fine(r.gen) /\ Picture(r.gen) = p /\ cur \in DOMAIN r.gen.block
  BY <1>4, <1>6, QuietOnward
<1>8. Picture(r.gen)[cur].next = None /\ top.ret \in Nat
  BY <1>4, <1>7, FrameFields DEF Idle
<1>9. /\ Onward(r.gen, h)
      /\ Boxed(p, Picture(h), cur, top.ret, p[cur].branch, TRUE, p[cur].when, Rebound(p[cur].view, Ret, Car(r.gen)[r.v]))
  BY <1>6, <1>7, <1>8, LeftIs
<1>10. ws \in SUBSET World
  BY <1>4
<1> HIDE DEF p, h, ws
<1>11. k \in Frames /\ Alike(top, k) /\ k.ifs = top.ifs /\ k.store = top.store /\ k.result = top.result \cup ws
  BY <1>4, <1>10, ResultFrame
<1> HIDE DEF k
<1>12. Upto(frames, fr2, Len(frames), k)
  BY <1>4, <1>11, TopReplaced
<1> HIDE DEF fr2
<1>13. /\ Pic(Picture(h)) /\ Len(Picture(h)) = Len(p) /\ \A b \in DOMAIN p : b # cur => Picture(h)[b] = p[b]
       /\ IsBox(Picture(h)[cur], top.ret, p[cur].branch, TRUE, p[cur].when, Rebound(p[cur].view, Ret, Car(r.gen)[r.v]))
  BY <1>9 DEF Boxed
<1>14. k.result = top.result \cup (path \cap Meant(e))
  BY <1>11 DEF ws
<1>15. Top(Picture(h), at, fr2, cur, {}, k)
  BY <1>4, <1>6, <1>11, <1>12, <1>13, <1>14, ReturnSound
<1>16. Fine(h)
  BY <1>9 DEF Onward
<1>17. Compiled(h, at, fr2, cur, {})
  BY <1>4, <1>11, <1>12, <1>15, <1>16, CompiledFrom DEF fr2
<1>18. QED
  BY <1>1, <1>17

\* Three new blocks are entered in the worlds ws.
More3(p, at, ws) == [b \in 1 .. Len(p) + 3 |-> IF b > Len(p) THEN ws ELSE at[b]]

\* The blocks of a call, with the worlds they are entered in.
LEMMA CalledIs ==
  ASSUME NEW p, NEW q, NEW e, NEW ws, NEW w, CallDrawn(p, q, ws), ws \cap w = e \cap w, NEW at, NEW cu
  PROVE  Called(p, q, at, More3(p, at, w), cu, w, CalleeView(e))
<1> DEFINE n == Len(p)
           bt == More3(p, at, w)
           store == CalleeView(e)
<1>1. /\ Pic(p) /\ Pic(q) /\ Len(q) = n + 3 /\ \A b \in DOMAIN p : q[b] = p[b]
      /\ \A b \in n + 1 .. n + 3 : Idle(q[b]) /\ q[b].when = {}
      /\ Param \in DOMAIN q[n + 2].view /\ q[n + 2].view[Param] = ws /\ DOMAIN q[n + 3].view = {}
  BY DEF CallDrawn
<1>2. n \in Nat /\ DOMAIN p = 1 .. n
  BY <1>1 DEF Pic
<1>3. bt = [b \in 1 .. n + 3 |-> IF b > n THEN w ELSE at[b]]
  BY DEF More3
<1>4. Agrees(q[n + 2].view, store, DOMAIN store, w)
  BY <1>1 DEF Agrees, CalleeView
<1> HIDE DEF n, bt, store
<1>5. (\A b \in DOMAIN p : bt[b] = at[b]) /\ \A b \in n + 1 .. n + 3 : bt[b] = w
  BY <1>2, <1>3
<1>6. QED
  BY <1>1, <1>4, <1>5 DEF Called, n, bt, store

\* Call.SSA up to the body of the function keeps the invariant.
LEMMA CallStep ==
  ASSUME NEW at, Compiled(gen, at, frames, cur, path), NEW name \in Targets, NEW e \in Expr, Call(name, e)
  PROVE  \E bt : Compiled(gen', bt, frames', cur', path')
<1> DEFINE r == Value(NewEnv(gen, cur), e)
           p == Picture(gen)
           n == Len(gen.block)
           a == n + 1
           h == CallGen(r.gen, cur, r.v)
           ws == Meant(e)
           F == FrameOf(a, name, cur, ws, path)
           bt == More3(p, at, path)
<1>1. e \in Visible \cup {"true", "false"}
  BY DEF Expr
<1>2. Stated(gen, at, frames, cur, path)
  BY StatedIs
<1>3. ~gen.block[cur].dead /\ cur' = a + 1 /\ path' = path /\ frames' = Append(frames, F)
  BY DEF Call, Alive, FrameOf
<1>4. /\ Fine(gen) /\ cur \in DOMAIN gen.block /\ cur \in Nat /\ Top(p, at, frames, cur, path, top) /\ frames \in Seq(Frames)
      /\ frames # <<>> /\ path \in SUBSET World /\ ~p[cur].dead
  BY <1>2, <1>3 DEF Stated, top
<1>5. Evaluates(gen, r, path, Meant(e))
  BY <1>1, <1>3, ValueIs
<1>6. Quiet(gen, r.gen) /\ r.v \in 1 .. r.gen.values /\ Car(r.gen)[r.v] \cap path = Meant(e) \cap path
  BY <1>5 DEF Evaluates
<1>7. Fine(r.gen) /\ Picture(r.gen) = p /\ cur \in DOMAIN r.gen.block /\ Len(r.gen.block) = n
  <2> HIDE DEF r
  <2>1. QED
    BY <1>4, <1>6, QuietOnward
<1>8. n \in Nat /\ a \in Nat /\ a + 1 = n + 2 /\ Len(p) = n
  <2>1. n \in Nat /\ Len(p) = n
    BY <1>4, FineFields
  <2> HIDE DEF n, p
  <2>2. QED
    BY <2>1
<1>9. gen' = h
  <2>1. gen' = [Set(CallStart(r.gen, cur, r.v), a + 1, Ret, Bound(NewVal(CallStart(r.gen, cur, r.v)))) EXCEPT !.values = @ + 1]
    BY DEF Call, Grow, CallStart, CallBlocks, Callee
  <2> HIDE DEF r, a
  <2>2. QED
    BY <1>7, <1>8, <2>1 DEF CallGen
<1> HIDE DEF r
<1>10. Onward(r.gen, h) /\ CallDrawn(p, Picture(h), Car(r.gen)[r.v])
  BY <1>6, <1>7, CallGenIs
<1>11. ws \in SUBSET World
  BY <1>1, MeantIs
<1> HIDE DEF p, n, h, ws
<1>12. /\ F \in Frames /\ F.start = a + 1 /\ F.ret = a + 2 /\ F.caller = a /\ F.ifs = <<>> /\ F.result = {}
       /\ F.here = path /\ F.store = CalleeView(ws) /\ F.target \in [name : Targets, block : Nat]
       /\ F.target.block = cur /\ F.target.name = name
  <2>1. a \in Nat /\ cur \in Nat /\ ws \in SUBSET World /\ path \in SUBSET World
    BY <1>4, <1>8, <1>11
  <2> HIDE DEF a, bt
  <2>2. IsCalled(F, a, name, cur, ws, path)
    BY <2>1, CalledFrame
  <2> HIDE DEF F
  <2>3. QED
    BY <2>2 DEF IsCalled
<1> HIDE DEF F, bt
<1>13. Called(p, Picture(h), at, bt, cur, path, F.store)
  <2>1. Car(r.gen)[r.v] \cap path = ws \cap path
    BY <1>6 DEF ws
  <2>2. Called(p, Picture(h), at, bt, cur, path, CalleeView(ws))
    BY <1>10, <2>1, CalledIs DEF bt
  <2>3. QED
    BY <1>12, <2>2
<1>14. FrameMade(p, F, path)
  BY <1>8, <1>12 DEF FrameMade
<1>15. Top(Picture(h), bt, Append(frames, F), Len(p) + 2, path, F)
  BY <1>4, <1>12, <1>13, <1>14, CallSound
<1>16. Last(Append(frames, F)) = F
  BY <1>4, <1>12 DEF Last
<1>17. Fine(h)
  BY <1>10 DEF Onward
<1>18. Compiled(h, bt, Append(frames, F), Len(p) + 2, path)
  BY <1>15, <1>16, <1>17 DEF Compiled
<1>19. QED
  BY <1>3, <1>8, <1>9, <1>18

\* What holds while the blocks of the function on top are asked what they return.
Walked(g, at, fr, c, st, an) ==
  Walking(Picture(g), fr, Last(fr), c, st, an) /\ Answered(at, Last(fr), an, g.values, Car(g))

\* The walk begins at the first block of the function, with no answers.
LEMMA ReturnWalkStep ==
  ASSUME NEW at, Compiled(gen, at, frames, cur, path), ReturnWalk
  PROVE  Compiled(gen', at, frames', cur', path') /\ Walked(gen', at, frames', cur', stack', answers')
<1> DEFINE p == Picture(gen)
<1>1. /\ top.ifs = <<>> /\ gen.block[cur].dead /\ stack' = <<top.start>> /\ answers' = NoAnswers
      /\ gen' = gen /\ cur' = cur /\ frames' = frames /\ path' = path
  BY DEF ReturnWalk
<1>2. Stated(gen, at, frames, cur, path)
  BY StatedIs
<1>3. Fine(gen) /\ Top(p, at, frames, cur, path, top) /\ top \in Frames /\ p[cur].dead
  BY <1>1, <1>2 DEF Stated, top
<1>4. top.start \in 1 .. Len(p) /\ Len(p) \in Nat /\ Len(frames) \in DOMAIN frames /\ top = frames[Len(frames)]
  BY <1>3, TopIs DEF Top
<1> HIDE DEF p
<1>5. Visited(p, frames, top, top.start)
  <2>1. top.start \in top.start .. Len(p)
    BY <1>4
  <2>2. Linked(p, frames, top.start)
    BY <1>4 DEF Linked
  <2>3. QED
    BY <2>1, <2>2 DEF Visited
<1>6. <<top.start>> \in Seq(Nat) /\ <<top.start>> # <<>> /\ <<top.start>>[1] = top.start
      /\ \A j \in DOMAIN <<top.start>> : <<top.start>>[j] = top.start
  BY <1>4
<1>7. DOMAIN NoAnswers = {}
  BY DEF NoAnswers
<1>8. Walking(p, frames, top, cur, <<top.start>>, NoAnswers)
  BY <1>1, <1>3, <1>5, <1>6, <1>7 DEF Walking
<1>9. Answered(at, top, NoAnswers, gen.values, Car(gen))
  BY <1>7 DEF Answered
<1>10. Walked(gen, at, frames, cur, <<top.start>>, NoAnswers)
  BY <1>8, <1>9 DEF Walked, top, p
<1>11. QED
  BY <1>1, <1>10

\* The block on top of the stack.
Stop(g, at, fr, c, w, st, an, b) ==
  LET p == Picture(g)
      f == Last(fr)
  IN /\ Fine(g) /\ Top(p, at, fr, c, w, f) /\ fr \in Seq(Frames) /\ f \in Frames
     /\ Walking(p, fr, f, c, st, an) /\ Answered(at, f, an, g.values, Car(g))
     /\ f.ifs = <<>> /\ p[c].dead /\ b \in DOMAIN g.block /\ b \in Nat /\ b # None /\ b \in DOMAIN p /\ Visited(p, fr, f, b)
     /\ p[b].next = g.block[b].next /\ p[b].branch = g.block[b].branch
     /\ p[b].next = None <=> b = f.ret
     /\ b = f.ret => p[b].branch = None /\ DOMAIN p[b].view = {}
     /\ p[b].next \in Nat /\ p[b].branch \in Nat
     /\ p[b].next # None => Visited(p, fr, f, p[b].next)
     /\ p[b].branch # None => Visited(p, fr, f, p[b].branch) /\ p[b].branch # f.ret
     /\ f.ret \in DOMAIN g.block

\* What holds of the block on top of the walk's stack.
LEMMA StopIs ==
  ASSUME NEW g, NEW at, NEW fr, NEW c, NEW w, NEW st, NEW an, Compiled(g, at, fr, c, w), Walked(g, at, fr, c, st, an), st # <<>>
  PROVE  Stop(g, at, fr, c, w, st, an, Last(st))
<1> DEFINE p == Picture(g)
           f == Last(fr)
           b == Last(st)
<1>1. Stated(g, at, fr, c, w)
  BY StatedIs
<1>2. Fine(g) /\ Top(p, at, fr, c, w, f) /\ fr \in Seq(Frames) /\ f \in Frames
  BY <1>1 DEF Stated
<1>3. Walking(p, fr, f, c, st, an) /\ Answered(at, f, an, g.values, Car(g))
  BY DEF Walked
<1>4. f.ifs = <<>> /\ p[c].dead
  BY <1>3 DEF Walking
<1> HIDE DEF f, b, p
<1>5. Visited(p, fr, f, b)
  BY <1>3, WalkVisits DEF b
<1>6. /\ b \in DOMAIN p /\ b # None /\ b \in Nat
      /\ p[b].next = None <=> b = f.ret
      /\ b = f.ret => p[b].branch = None /\ p[b].view = p[f.ret].view
      /\ p[b].next # None => Visited(p, fr, f, p[b].next)
      /\ p[b].branch # None => Visited(p, fr, f, p[b].branch) /\ p[b].branch # f.ret
  BY <1>2, <1>4, <1>5, VisitedIs
<1>7. DOMAIN p = DOMAIN g.block
  BY <1>2, FineFields DEF p
<1>8. BlockShown(g, b, p[b])
  BY <1>2, <1>6, <1>7, BlockShownIs DEF p
<1>9. p[b].next = g.block[b].next /\ p[b].branch = g.block[b].branch /\ p[b].next \in Nat /\ p[b].branch \in Nat
  BY <1>8 DEF BlockShown, Blocks
<1>10. FrameOK(p, at, f, c, w) /\ f.ret \in 1 .. Len(p) /\ DOMAIN p = 1 .. Len(p)
  BY <1>2, TopIs
<1>11. DOMAIN p[f.ret].view = {}
  BY <1>10 DEF FrameOK, EndOK
<1>12. b = f.ret => DOMAIN p[b].view = {}
  BY <1>6, <1>11
<1>13. f.ret \in DOMAIN g.block
  BY <1>7, <1>10
<1>14. QED
  BY <1>2, <1>3, <1>4, <1>5, <1>6, <1>7, <1>9, <1>12, <1>13 DEF Stop, b, f, p

\* The walk goes on to a block that is linked.
LEMMA VisitBlockStep ==
  ASSUME NEW at, Compiled(gen, at, frames, cur, path), Walked(gen, at, frames, cur, stack, answers), VisitBlock
  PROVE  Compiled(gen', at, frames', cur', path') /\ Walked(gen', at, frames', cur', stack', answers')
<1> DEFINE b == Last(stack)
           k == gen.block[b]
           p == Picture(gen)
           c == IF k.branch \in Asked(k) \ DOMAIN answers THEN k.branch ELSE k.next
<1>1. /\ stack # <<>> /\ Asked(k) \ DOMAIN answers # {} /\ stack' = Append(stack, c)
      /\ gen' = gen /\ cur' = cur /\ frames' = frames /\ path' = path /\ answers' = answers
  BY DEF VisitBlock
<1>2. Stop(gen, at, frames, cur, path, stack, answers, b)
  BY <1>1, StopIs
<1>3. /\ Walking(p, frames, top, cur, stack, answers) /\ Answered(at, top, answers, gen.values, Car(gen))
      /\ p[b].next = k.next /\ p[b].branch = k.branch
      /\ p[b].next = None <=> b = top.ret
      /\ b = top.ret => p[b].branch = None
      /\ p[b].next \in Nat /\ p[b].branch \in Nat
      /\ p[b].next # None => Visited(p, frames, top, p[b].next)
      /\ p[b].branch # None => Visited(p, frames, top, p[b].branch)
  BY <1>2 DEF Stop, top
<1> HIDE DEF p, b, k
<1>4. c # None
  <2>1. CASE Sequential(k)
    <3>1. Asked(k) = {k.next} \ {None}
      BY <2>1 DEF Asked
    <3>2. k.next # None
      BY <1>1, <3>1
    <3>3. k.branch \in Asked(k) => k.branch # None
      BY <3>1
    <3>4. QED
      BY <3>2, <3>3
  <2>2. CASE ~Sequential(k)
    <3>1. k.branch # None
      BY <2>2 DEF Sequential
    <3>2. k.next # None
      BY <1>3, <3>1
    <3>3. QED
      BY <3>1, <3>2
  <2>3. QED
    BY <2>1, <2>2
<1>5. c \in Nat /\ Visited(p, frames, top, c)
  BY <1>3, <1>4
<1> HIDE DEF c
<1>6. Walking(p, frames, top, cur, Append(stack, c), answers)
  BY <1>1, <1>3, <1>5, WalkVisits
<1>7. Walked(gen, at, frames, cur, Append(stack, c), answers)
  BY <1>3, <1>6 DEF Walked, p, top
<1>8. QED
  BY <1>1, <1>7

\* An answer v for the block b, with the phis that it needs in h.
Replies(h, at, f, b, v) == Quiet(gen, h) /\ IF b = f.ret THEN v = None ELSE Right(at, f, b, v, h.values, Car(h))

\* A right answer for the block on top keeps what holds during the walk.
LEMMA ReplyStep ==
  ASSUME NEW at, Compiled(gen, at, frames, cur, path), Walked(gen, at, frames, cur, stack, answers), stack # <<>>,
         NEW h, NEW v, Replies(h, at, top, Last(stack), v),
         NEW new, new = [c \in DOMAIN answers \cup {Last(stack)} |-> IF c = Last(stack) THEN v ELSE answers[c]]
  PROVE  Compiled(h, at, frames, cur, path) /\ Walked(h, at, frames, cur, Front(stack), new)
<1> DEFINE b == Last(stack)
           p == Picture(gen)
<1>1. Stop(gen, at, frames, cur, path, stack, answers, b)
  BY StopIs
<1>2. /\ Walking(p, frames, top, cur, stack, answers) /\ Answered(at, top, answers, gen.values, Car(gen))
      /\ Fine(gen) /\ Top(p, at, frames, cur, path, top)
  BY <1>1 DEF Stop, top
<1>3. Quiet(gen, h) /\ IF b = top.ret THEN v = None ELSE Right(at, top, b, v, h.values, Car(h))
  BY DEF Replies
<1>4. Onward(gen, h) /\ Fine(h) /\ Picture(h) = p
  BY <1>2, <1>3, QuietOnward
<1>5. \A u \in 1 .. gen.values : u \in 1 .. h.values /\ Car(h)[u] = Car(gen)[u]
  BY <1>2, <1>4, OnwardCarries
<1> HIDE DEF b, p
<1>6. 1 .. gen.values \subseteq 1 .. h.values /\ \A u \in 1 .. gen.values : Car(h)[u] = Car(gen)[u]
  BY <1>5
<1>7. new = WithAnswer(answers, b, v) /\ DOMAIN new = DOMAIN answers \cup {b}
  BY DEF b, WithAnswer
<1>8. Answered(at, top, new, h.values, Car(h))
  BY <1>2, <1>3, <1>6, <1>7, AnsweredMore
<1>9. Walking(p, frames, top, cur, Front(stack), new)
  BY <1>2, <1>7, WalkVisits DEF b
<1>10. Top(Picture(h), at, frames, cur, path, top)
  BY <1>2, <1>4
<1>11. QED
  BY <1>4, <1>8, <1>9, <1>10 DEF Compiled, Walked, top

\* A block that has one way to go on.
LEMMA ReplySequential ==
  ASSUME NEW at, NEW b, Stop(gen, at, frames, cur, path, stack, answers, b), Sequential(gen.block[b]),
         Asked(gen.block[b]) \subseteq DOMAIN answers
  PROVE  LET n == gen.block[b].next
             own == Resolve(gen, top.ret, Bindings(gen, b)[Ret])
         IN /\ n # None => n \in DOMAIN answers
            /\ n # None /\ answers[n] # None => Replies(gen, at, top, b, answers[n])
            /\ n = None \/ answers[n] = None =>
                 IF Ret \in DOMAIN Bindings(gen, b) THEN Replies(own.gen, at, top, b, own.v) ELSE Replies(gen, at, top, b, None)
<1> DEFINE p == Picture(gen)
           n == gen.block[b].next
           own == Resolve(gen, top.ret, Bindings(gen, b)[Ret])
<1>1. /\ Answered(at, top, answers, gen.values, Car(gen))
      /\ Fine(gen) /\ Top(p, at, frames, cur, path, top) /\ b \in DOMAIN gen.block /\ b \in DOMAIN p
      /\ p[b].next = n /\ p[b].branch = gen.block[b].branch /\ n \in Nat
      /\ p[b].next = None <=> b = top.ret
      /\ b = top.ret => DOMAIN p[b].view = {}
      /\ top.ret \in DOMAIN gen.block
  BY DEF Stop, top
<1>2. n # None => n \in DOMAIN answers
  BY DEF Asked
<1>3. p[b].branch \in {None, p[b].next}
  BY <1>1 DEF Sequential
<1>4. Quiet(gen, gen)
  BY <1>1, QuietSelf
<1>5. /\ p[b].view = [m \in DOMAIN Bindings(gen, b) |-> Chosen(gen, Bindings(gen, b)[m])]
      /\ \A m \in DOMAIN Bindings(gen, b) : Bindings(gen, b)[m] \in Bounds /\ Within(gen, Bindings(gen, b)[m])
  BY <1>1, BindingIs
<1>6. DOMAIN p[b].view = DOMAIN Bindings(gen, b)
  BY <1>5
<1>7. ASSUME n # None, answers[n] # None
      PROVE  Replies(gen, at, top, b, answers[n])
  <2> HIDE DEF n, p, own
  <2>1. n # top.ret /\ b # top.ret
    BY <1>1, <1>2, <1>7 DEF Answered
  <2>2. Right(at, top, n, answers[n], gen.values, Car(gen))
    BY <1>1, <1>2, <1>7, <2>1 DEF Answered
  <2>3. Right(at, top, p[b].next, answers[n], gen.values, Car(gen))
    BY <1>1, <2>2
  <2>4. Right(at, top, b, answers[n], gen.values, Car(gen))
    BY <1>1, <1>3, <1>7, <2>3, RightNext
  <2>5. QED
    BY <1>4, <2>1, <2>4 DEF Replies
<1>8. ASSUME n = None \/ answers[n] = None
      PROVE  IF Ret \in DOMAIN Bindings(gen, b) THEN Replies(own.gen, at, top, b, own.v) ELSE Replies(gen, at, top, b, None)
  <2>1. CASE n = None
    <3>1. b = top.ret /\ Ret \notin DOMAIN Bindings(gen, b)
      BY <1>1, <1>6, <2>1
    <3>2. QED
      BY <1>4, <3>1 DEF Replies
  <2>2. CASE n # None /\ answers[n] = None
    <3>1. n = top.ret
      <4> HIDE DEF n, p, own
      <4>1. SUFFICES ASSUME n # top.ret PROVE FALSE
        OBVIOUS
      <4>2. Right(at, top, n, answers[n], gen.values, Car(gen))
        BY <1>1, <1>2, <2>2, <4>1 DEF Answered
      <4>3. gen.values \in Nat
        BY <1>1, FineFields
      <4>4. QED
        BY <2>2, <4>2, <4>3 DEF Right, None
    <3>2. p[b].next = top.ret /\ b # top.ret
      BY <1>1, <2>2, <3>1
    <3>3. /\ Ret \in DOMAIN p[b].view
          /\ \A v, values, carried : v \in 1 .. values /\ carried[v] = p[b].view[Ret] => Right(at, top, b, v, values, carried)
      <4> HIDE DEF p
      <4>1. QED
        BY <1>1, <3>2, RightReturn
    <3> DEFINE x == Bindings(gen, b)[Ret]
    <3>4. Ret \in DOMAIN Bindings(gen, b) /\ x \in Bounds /\ Within(gen, x) /\ p[b].view[Ret] = Chosen(gen, x)
      BY <1>5, <1>6, <3>3
    <3> HIDE DEF x, p
    <3>5. Reads(gen, Resolve(gen, top.ret, x).gen, Resolve(gen, top.ret, x).v, Chosen(gen, x))
      BY <1>1, <3>4, ResolveQuiet
    <3>6. Quiet(gen, own.gen) /\ own.v \in 1 .. own.gen.values /\ Car(own.gen)[own.v] = p[b].view[Ret]
      BY <3>4, <3>5 DEF Reads, x
    <3> HIDE DEF own
    <3>7. Right(at, top, b, own.v, own.gen.values, Car(own.gen))
      BY <3>3, <3>6
    <3>8. QED
      BY <3>2, <3>4, <3>6, <3>7 DEF Replies, own
  <2>3. QED
    BY <1>8, <2>1, <2>2
<1>9. QED
  BY <1>2, <1>7, <1>8

\* A block that branches.
Split(g, r, b, cond, t, e) == AddInstr(g, r, Instr("phi", <<cond, t, e>>, NewVal(g)))

\* A block that branches has two answers, which one phi joins unless they are one value.
LEMMA ReplyBranch ==
  ASSUME NEW at, NEW b, Stop(gen, at, frames, cur, path, stack, answers, b), ~Sequential(gen.block[b]),
         Asked(gen.block[b]) \subseteq DOMAIN answers
  PROVE  LET k == gen.block[b]
             t == answers[k.branch]
             e == answers[k.next]
         IN /\ k.branch # None /\ k.next # None /\ t # None /\ e # None
            /\ e = t => Replies(gen, at, top, b, e)
            /\ Replies(Split(gen, top.ret, b, k.cond, t, e), at, top, b, NewVal(gen))
<1> DEFINE p == Picture(gen)
           k == gen.block[b]
           t == answers[k.branch]
           e == answers[k.next]
           h == Split(gen, top.ret, b, k.cond, t, e)
           i == Instr("phi", <<k.cond, t, e>>, NewVal(gen))
<1>1. /\ Answered(at, top, answers, gen.values, Car(gen))
      /\ Fine(gen) /\ Top(p, at, frames, cur, path, top) /\ b \in DOMAIN gen.block /\ b \in DOMAIN p
      /\ p[b].next = k.next /\ p[b].branch = k.branch
      /\ p[b].next = None <=> b = top.ret
      /\ b = top.ret => p[b].branch = None
      /\ p[b].branch # None => p[b].branch # top.ret
      /\ top.ret \in DOMAIN gen.block
  BY DEF Stop, top
<1>2. k.branch # None /\ k.branch # k.next
  BY DEF Sequential
<1>3. k.branch \in DOMAIN answers /\ (t # None => k.next \in DOMAIN answers)
  BY <1>2 DEF Asked
<1>4. gen.values \in Nat /\ Quiet(gen, gen)
  BY <1>1, FineFields, QuietSelf
<1> HIDE DEF p, k, t, e, h, i
<1>5. Right(at, top, p[b].branch, t, gen.values, Car(gen)) /\ t # None /\ t \in 1 .. gen.values
  <2>1. Right(at, top, k.branch, t, gen.values, Car(gen))
    BY <1>1, <1>2, <1>3 DEF Answered, t
  <2>2. t \in 1 .. gen.values
    BY <2>1 DEF Right
  <2>3. QED
    BY <1>1, <1>4, <2>1, <2>2 DEF None
<1>6. k.next # None /\ b # top.ret /\ k.next # top.ret
  <2>1. k.next # None /\ b # top.ret
    BY <1>1, <1>2
  <2>2. p[b].next = top.ret => p[b].branch = None
    BY <1>1, RightReturn
  <2>3. QED
    BY <1>1, <1>2, <2>1, <2>2
<1>7. Right(at, top, p[b].next, e, gen.values, Car(gen)) /\ e # None /\ e \in 1 .. gen.values
  <2>1. Right(at, top, k.next, e, gen.values, Car(gen))
    BY <1>1, <1>3, <1>5, <1>6 DEF Answered, e
  <2>2. e \in 1 .. gen.values
    BY <2>1 DEF Right
  <2>3. QED
    BY <1>1, <1>4, <2>1, <2>2 DEF None
<1>8. p[b].branch # None /\ p[b].next # None
  BY <1>1, <1>2, <1>6
<1>9. /\ t = e => Right(at, top, b, e, gen.values, Car(gen))
      /\ \A v, more, now : v \in 1 .. more /\ now[v] = Choice(p[b].when, Car(gen)[t], Car(gen)[e]) =>
           Right(at, top, b, v, more, now)
  BY <1>1, <1>5, <1>7, <1>8, RightBranch
<1>10. k.cond \in 1 .. gen.values /\ p[b].when = Car(gen)[k.cond]
  BY <1>1, <1>8, ConditionIs DEF p, k
<1>11. Fits(gen, i) /\ i.out = gen.values + 1 /\ i.out # None
       /\ Computed(i, Car(gen)) = Choice(Car(gen)[k.cond], Car(gen)[t], Car(gen)[e])
  <2>1. i = [op |-> "phi", in |-> <<k.cond, t, e>>, out |-> gen.values + 1]
    BY DEF i, Instr, NewVal
  <2>2. /\ <<k.cond, t, e>> \in Seq(Nat) /\ Len(<<k.cond, t, e>>) = 3 /\ DOMAIN <<k.cond, t, e>> = 1 .. 3
        /\ \A j \in 1 .. 3 : <<k.cond, t, e>>[j] \in 1 .. gen.values
    BY <1>4, <1>5, <1>7, <1>10
  <2>3. gen.values + 1 \in Nat /\ gen.values + 1 # None
    BY <1>4 DEF None
  <2>4. i \in Instructions
    BY <2>1, <2>2, <2>3 DEF Instructions
  <2>5. QED
    BY <2>1, <2>2, <2>3, <2>4 DEF Fits, Computed
<1>12. AddedTo(gen, h, i)
  BY <1>1, <1>11, AddInstrQuiet DEF h, Split, i
<1>13. Quiet(gen, h) /\ h.values = gen.values + 1 /\ Car(h)[gen.values + 1] = Choice(p[b].when, Car(gen)[t], Car(gen)[e])
  BY <1>10, <1>11, <1>12 DEF AddedTo
<1>14. NewVal(gen) = gen.values + 1 /\ gen.values + 1 \in 1 .. h.values
  BY <1>4, <1>13 DEF NewVal
<1>15. Right(at, top, b, NewVal(gen), h.values, Car(h))
  BY <1>9, <1>13, <1>14
<1>16. Replies(h, at, top, b, NewVal(gen))
  BY <1>6, <1>13, <1>15 DEF Replies
<1>17. e = t => Replies(gen, at, top, b, e)
  BY <1>4, <1>6, <1>9 DEF Replies
<1>18. QED
  BY <1>2, <1>5, <1>6, <1>7, <1>16, <1>17 DEF h, t, e, k

\* AnswerBlock, written out.
LEMMA AnswerBlockIs ==
  ASSUME AnswerBlock
  PROVE  LET b == Last(stack)
             k == gen.block[b]
             Of(c) == IF c = None THEN None ELSE answers[c]
             own == Resolve(gen, top.ret, Bindings(gen, b)[Ret])
             Answer(g, v) == gen' = g /\ answers' = [c \in DOMAIN answers \cup {b} |-> IF c = b THEN v ELSE answers[c]]
         IN /\ stack # <<>> /\ Asked(k) \subseteq DOMAIN answers /\ stack' = Front(stack)
            /\ cur' = cur /\ frames' = frames /\ path' = path
            /\ IF Sequential(k)
               THEN IF Of(k.next) # None THEN Answer(gen, Of(k.next))
                    ELSE IF Ret \in DOMAIN Bindings(gen, b) THEN Answer(own.gen, own.v)
                    ELSE Answer(gen, None)
               ELSE IF Of(k.branch) = None THEN Answer(gen, None)
                    ELSE IF Of(k.next) \in {None, Of(k.branch)} THEN Answer(gen, Of(k.next))
                    ELSE Answer(Split(gen, top.ret, b, k.cond, Of(k.branch), Of(k.next)), NewVal(gen))
BY DEF AnswerBlock, Split

\* Every answer of Block.ReturnBinding is right.
LEMMA AnswerBlockStep ==
  ASSUME NEW at, Compiled(gen, at, frames, cur, path), Walked(gen, at, frames, cur, stack, answers), AnswerBlock
  PROVE  Compiled(gen', at, frames', cur', path') /\ Walked(gen', at, frames', cur', stack', answers')
<1> DEFINE b == Last(stack)
           k == gen.block[b]
           Of(c) == IF c = None THEN None ELSE answers[c]
           own == Resolve(gen, top.ret, Bindings(gen, b)[Ret])
           Answer(g, v) == gen' = g /\ answers' = [c \in DOMAIN answers \cup {b} |-> IF c = b THEN v ELSE answers[c]]
<1>1. /\ stack # <<>> /\ Asked(k) \subseteq DOMAIN answers /\ stack' = Front(stack)
      /\ cur' = cur /\ frames' = frames /\ path' = path
      /\ IF Sequential(k)
         THEN IF Of(k.next) # None THEN Answer(gen, Of(k.next))
              ELSE IF Ret \in DOMAIN Bindings(gen, b) THEN Answer(own.gen, own.v)
              ELSE Answer(gen, None)
         ELSE IF Of(k.branch) = None THEN Answer(gen, None)
              ELSE IF Of(k.next) \in {None, Of(k.branch)} THEN Answer(gen, Of(k.next))
              ELSE Answer(Split(gen, top.ret, b, k.cond, Of(k.branch), Of(k.next)), NewVal(gen))
  BY AnswerBlockIs
<1>2. Stop(gen, at, frames, cur, path, stack, answers, b)
  BY <1>1, StopIs
<1>3. \E g, v : Answer(g, v) /\ Replies(g, at, top, b, v)
  <2>1. CASE Sequential(k)
    <3>1. /\ k.next # None => k.next \in DOMAIN answers
          /\ k.next # None /\ answers[k.next] # None => Replies(gen, at, top, b, answers[k.next])
          /\ k.next = None \/ answers[k.next] = None =>
               IF Ret \in DOMAIN Bindings(gen, b) THEN Replies(own.gen, at, top, b, own.v) ELSE Replies(gen, at, top, b, None)
      BY <1>1, <1>2, <2>1, ReplySequential
    <3> HIDE DEF own, k, b, Answer
    <3>2. CASE Of(k.next) # None
      BY <1>1, <2>1, <3>1, <3>2
    <3>3. CASE Of(k.next) = None
      BY <1>1, <2>1, <3>1, <3>3
    <3>4. QED
      BY <3>2, <3>3
  <2>2. CASE ~Sequential(k)
    <3> DEFINE t == answers[k.branch]
               e == answers[k.next]
    <3>1. /\ k.branch # None /\ k.next # None /\ t # None /\ e # None
          /\ e = t => Replies(gen, at, top, b, e)
          /\ Replies(Split(gen, top.ret, b, k.cond, t, e), at, top, b, NewVal(gen))
      BY <1>1, <1>2, <2>2, ReplyBranch
    <3>2. Of(k.branch) = t /\ Of(k.next) = e
      BY <3>1
    <3> HIDE DEF own, k, b, Answer, Of, t, e
    <3>3. IF e = t THEN Answer(gen, e) ELSE Answer(Split(gen, top.ret, b, k.cond, t, e), NewVal(gen))
      BY <1>1, <2>2, <3>1, <3>2
    <3>4. QED
      BY <3>1, <3>3
  <2>3. QED
    BY <2>1, <2>2
<1>4. PICK g, v : Answer(g, v) /\ Replies(g, at, top, b, v)
  BY <1>3
<1>5. gen' = g /\ answers' = [c \in DOMAIN answers \cup {b} |-> IF c = b THEN v ELSE answers[c]]
  BY <1>4
<1>6. Compiled(g, at, frames, cur, path) /\ Walked(g, at, frames, cur, Front(stack), answers')
  BY <1>1, <1>4, <1>5, ReplyStep
<1>7. QED
  BY <1>1, <1>5, <1>6

\* What the function on top has answered when the walk over its blocks is over.
Ended(g, at, fr, c, w, v) ==
  LET f == Last(fr)
  IN /\ Stated(g, at, fr, c, w) /\ Picture(g)[c].dead /\ f.ifs = <<>> /\ Right(at, f, f.start, v, g.values, Car(g))

\* The answer for the first block is the function's result in the worlds that called it.
LEMMA EndedIs ==
  ASSUME NEW g, NEW at, NEW fr, NEW c, NEW w, NEW an, Compiled(g, at, fr, c, w), Walked(g, at, fr, c, <<>>, an)
  PROVE  Ended(g, at, fr, c, w, an[Last(fr).start])
<1> DEFINE f == Last(fr)
           p == Picture(g)
<1>1. Stated(g, at, fr, c, w)
  BY StatedIs
<1>2. Top(p, at, fr, c, w, f)
  BY <1>1 DEF Stated
<1>3. Walking(p, fr, f, c, <<>>, an) /\ Answered(at, f, an, g.values, Car(g))
  BY DEF Walked
<1> HIDE DEF f, p
<1>4. f.ifs = <<>> /\ p[c].dead /\ f.start \in DOMAIN an
  BY <1>3 DEF Walking
<1>5. f.start \in 1 .. Len(p) /\ f.ret = f.start + 1
  BY <1>2, TopIs
<1>6. f.start # f.ret
  BY <1>5
<1>7. Right(at, f, f.start, an[f.start], g.values, Car(g))
  BY <1>3, <1>4, <1>6 DEF Answered
<1>8. QED
  BY <1>1, <1>4, <1>7 DEF Ended, f, p

\* The caller's block, the ones that a called function begins and ends in, and the one after it.
Caller(g, at, fr, c, w) ==
  LET f == Last(fr)
      p == Picture(g)
      B == f.target.block
  IN /\ f.start \in Nat /\ f.start # None
     /\ B \in DOMAIN g.block /\ f.ret \in DOMAIN g.block /\ f.caller \in DOMAIN g.block
     /\ B # f.caller /\ B # f.ret /\ f.ret # f.caller
     /\ p[B].next = None /\ p[f.ret].next = None
     /\ f.target.name \in Targets /\ f.result \in SUBSET World
     /\ fr[Len(fr) - 1] \in Frames

\* The blocks that the end of a call links are three, and lead nowhere yet.
LEMMA CallerIs ==
  ASSUME NEW g, NEW at, NEW fr, NEW c, NEW w, Stated(g, at, fr, c, w), Len(fr) > 1
  PROVE  Caller(g, at, fr, c, w)
<1> DEFINE f == Last(fr)
           p == Picture(g)
           n == Len(fr)
           B == f.target.block
<1>1. Fine(g) /\ Top(p, at, fr, c, w, f) /\ fr \in Seq(Frames) /\ f \in Frames
  BY DEF Stated
<1>2. n \in Nat /\ DOMAIN fr = 1 .. n /\ n \in DOMAIN fr /\ f = fr[n] /\ n - 1 \in DOMAIN fr /\ n > 1 /\ fr[n - 1] \in Frames
  BY <1>1 DEF Top, Last
<1>3. Sound(p, at, fr, c, w) /\ Pic(p)
  BY <1>1 DEF Top
<1> HIDE DEF f, p, n
<1>4. StackOK(p, at, fr, c)
  BY <1>3 DEF Sound
<1>5. /\ f.caller = f.start - 1 /\ f.target \in [name : Targets, block : Nat] /\ B < f.caller
      /\ Idle(p[f.caller]) /\ ~p[B].dead
  BY <1>2, <1>4 DEF StackOK
<1>6. f.start \in 1 .. Len(p) /\ f.ret = f.start + 1 /\ f.ret \in 1 .. Len(p) /\ DOMAIN p = 1 .. Len(p) /\ Len(p) \in Nat
  BY <1>1, TopIs DEF f
<1>7. FrameOK(p, at, f, c, w)
  BY <1>1, TopIs DEF f
<1>8. Idle(p[f.ret])
  BY <1>7 DEF FrameOK, EndOK
<1>9. CurOf(fr, c, n - 1) = B
  <2>1. n - 1 # n /\ n - 1 + 1 = n
    BY <1>2
  <2>2. n = Len(fr)
    BY DEF n
  <2>3. QED
    BY <1>2, <2>1, <2>2, Zenon DEF CurOf
<1>10. FrameOK(p, at, fr[n - 1], B, PathOf(fr, w, n - 1))
  BY <1>2, <1>3, <1>9 DEF Sound
<1>11. CurOK(p, at, fr[n - 1], B, PathOf(fr, w, n - 1)) /\ IdsOK(p, fr[n - 1], B)
  BY <1>10 DEF FrameOK
<1>12. p[B].next = None
  BY <1>5, <1>11 DEF CurOK, Idle
<1>13. fr[n - 1].start \in 1 .. Len(p) /\ B \in fr[n - 1].start .. Len(p)
  BY <1>11 DEF IdsOK
<1>14. B \in 1 .. Len(p) /\ B \in Nat
  BY <1>6, <1>13
<1>15. f.target.name \in Targets
  BY <1>5
<1>16. f.caller \in 1 .. Len(p) /\ B # f.caller /\ B # f.ret /\ f.ret # f.caller
  <2> DEFINE x == f.start
             y == f.caller
             z == f.ret
             m == Len(p)
  <2>1. x \in 1 .. m /\ y = x - 1 /\ z = x + 1 /\ B < y /\ B \in 1 .. m /\ m \in Nat
    BY <1>5, <1>6, <1>14
  <2> HIDE DEF x, y, z, m, B
  <2>2. y \in 1 .. m /\ B # y /\ B # z /\ z # y
    BY <2>1
  <2>3. QED
    BY <2>2 DEF x, y, z, m
<1>17. DOMAIN p = DOMAIN g.block
  BY <1>1, FineFields DEF p
<1>18. f.result \in SUBSET World /\ f.start \in Nat /\ f.start # None
  BY <1>1, <1>6, FrameFields DEF None
<1>19. p[f.ret].next = None
  BY <1>8 DEF Idle
<1>20. f.ret \in DOMAIN g.block /\ f.caller \in DOMAIN g.block /\ B \in DOMAIN g.block
  BY <1>6, <1>14, <1>16, <1>17
<1> HIDE DEF B
<1>21. QED
  BY <1>2, <1>12, <1>15, <1>16, <1>18, <1>19, <1>20 DEF Caller, f, p, n, B

\* Call.SSA after the body of the function keeps the invariant.
LEMMA EndCallStep ==
  ASSUME NEW at, Compiled(gen, at, frames, cur, path), Walked(gen, at, frames, cur, stack, answers), EndCall
  PROVE  Compiled(gen', at, frames', cur', path')
<1> DEFINE v == answers[top.start]
           name == top.target.name
           h == Resume(gen, top, name, v)
           under == Last(Front(frames))
           k == [under EXCEPT !.store = Assigned(@, name, top.here, top.result)]
           fr2 == Append(Front(Front(frames)), k)
           p == Picture(gen)
           n == Len(frames)
<1>1. stack = <<>> /\ n > 1 /\ gen' = h /\ frames' = fr2 /\ cur' = top.caller /\ path' = top.here
  BY DEF EndCall, Resume, Share
<1>2. Ended(gen, at, frames, cur, path, v)
  BY <1>1, EndedIs DEF top
<1>3. Stated(gen, at, frames, cur, path) /\ p[cur].dead /\ top.ifs = <<>> /\ Right(at, top, top.start, v, gen.values, Car(gen))
  BY <1>2 DEF Ended, top
<1>4. Fine(gen) /\ Top(p, at, frames, cur, path, top) /\ frames \in Seq(Frames) /\ top \in Frames
  BY <1>3 DEF Stated, top
<1>5. Caller(gen, at, frames, cur, path)
  BY <1>1, <1>3, CallerIs
<1>6. /\ top.start \in Nat /\ top.start # None
      /\ top.target.block \in DOMAIN gen.block /\ top.ret \in DOMAIN gen.block /\ top.caller \in DOMAIN gen.block
      /\ top.target.block # top.caller /\ top.target.block # top.ret /\ top.ret # top.caller
      /\ p[top.target.block].next = None /\ p[top.ret].next = None
      /\ name \in Targets /\ top.result \in SUBSET World /\ frames[n - 1] \in Frames
  BY <1>5 DEF Caller, top
<1>7. v \in 1 .. gen.values /\ Car(gen)[v] \cap at[top.start] = top.result \cap at[top.start] /\ name \in Names
  BY <1>3, <1>6 DEF Right, Names
<1>8. top.here \in SUBSET World
  BY <1>4, FrameFields
<1> HIDE DEF v, name, h
<1>9. Onward(gen, h) /\ Joins(p, Picture(h), top, name, Car(gen)[v])
  BY <1>4, <1>6, <1>7, ResumeIs DEF h
<1>10. under = frames[n - 1] /\ under \in Frames
  BY <1>1, <1>4, UnderReplaced
<1> HIDE DEF under, p
<1>11. Stored(under, k, name, top.here, top.result)
  BY <1>6, <1>7, <1>8, <1>10, StoredFrame
<1> HIDE DEF k
<1>12. k \in Frames
  BY <1>11 DEF Stored
<1>13. Upto(frames, fr2, n - 1, k)
  BY <1>1, <1>4, <1>12, UnderReplaced
<1> HIDE DEF fr2
<1>14. Top(Picture(h), at, fr2, top.caller, top.here, k)
  BY <1>1, <1>3, <1>4, <1>7, <1>9, <1>10, <1>11, <1>13, EndCallSound
<1>15. Last(fr2) = k
  BY <1>14 DEF Top, Last
<1>16. Fine(h)
  BY <1>9 DEF Onward
<1>17. Compiled(h, at, fr2, top.caller, top.here)
  BY <1>14, <1>15, <1>16 DEF Compiled
<1>18. QED
  BY <1>1, <1>17

\* The result of main, in all worlds.
Returning(g, fr, an) ==
  LET f == fr[1]
  IN Len(fr) = 1 /\ an[f.start] \in 1 .. g.values /\ Car(g)[an[f.start]] = f.result

\* Package.Compile adds the instruction ret, which returns the result of main.
LEMMA EndMainStep ==
  ASSUME NEW at, Compiled(gen, at, frames, cur, path), Walked(gen, at, frames, cur, stack, answers), EndMain
  PROVE  Compiled(gen', at, frames', cur', path') /\ Returning(gen', frames', answers')
<1> DEFINE v == answers[top.start]
           i == Instr("ret", <<v>>, None)
           h == AddInstr(gen, top.ret, i)
           p == Picture(gen)
<1>1. /\ stack = <<>> /\ Len(frames) = 1 /\ gen' = h /\ frames' = frames /\ cur' = cur /\ path' = path /\ answers' = answers
  BY DEF EndMain
<1>2. Ended(gen, at, frames, cur, path, v)
  BY <1>1, EndedIs DEF top
<1>3. Stated(gen, at, frames, cur, path) /\ Right(at, top, top.start, v, gen.values, Car(gen))
  BY <1>2 DEF Ended, top
<1>4. Fine(gen) /\ Top(p, at, frames, cur, path, top) /\ frames \in Seq(Frames) /\ top \in Frames /\ top = frames[1]
  BY <1>1, <1>3 DEF Stated, top, Last
<1>5. v \in 1 .. gen.values /\ Car(gen)[v] \cap at[top.start] = top.result \cap at[top.start]
  BY <1>3 DEF Right
<1>6. top.ret \in 1 .. Len(p) /\ FrameOK(p, at, top, cur, path)
  BY <1>4, TopIs
<1>7. top.ret \in DOMAIN gen.block /\ gen.values \in Nat
  BY <1>4, <1>6, FineFields
<1> HIDE DEF v, i, h, p
<1>8. Fits(gen, i) /\ i.out = None
  <2>1. i = [op |-> "ret", in |-> <<v>>, out |-> None]
    BY DEF i, Instr
  <2>2. v \in Nat /\ <<v>> \in Seq(Nat) /\ Len(<<v>>) = 1 /\ DOMAIN <<v>> = {1} /\ <<v>>[1] = v
    BY <1>5, <1>7
  <2>3. QED
    BY <1>5, <2>1, <2>2 DEF Fits, Instructions, None
<1>9. AddedTo(gen, h, i)
  BY <1>4, <1>7, <1>8, AddInstrQuiet DEF h
<1>10. Quiet(gen, h)
  BY <1>9 DEF AddedTo
<1>11. Onward(gen, h) /\ Fine(h) /\ Picture(h) = p
  BY <1>4, <1>10, QuietOnward DEF p
<1>12. v \in 1 .. h.values /\ Car(h)[v] = Car(gen)[v]
  BY <1>4, <1>5, <1>11, OnwardCarries
<1>13. Sound(p, at, frames, cur, path)
  BY <1>4 DEF Top
<1>14. frames[1].here = World
  BY <1>13 DEF Sound, StackOK
<1>15. World \subseteq at[top.start]
  BY <1>4, <1>6, <1>14 DEF FrameOK, EndOK
<1>16. top.result \in SUBSET World
  BY <1>4, FrameFields
<1>17. Car(gen)[v] \in SUBSET World
  BY <1>4, <1>5, FineFields, CarIs
<1>18. Car(gen)[v] = top.result
  BY <1>5, <1>15, <1>16, <1>17
<1>19. Compiled(h, at, frames, cur, path)
  BY <1>4, <1>11 DEF Compiled, top
<1>20. Returning(h, frames, answers)
  BY <1>1, <1>4, <1>12, <1>18 DEF Returning, v
<1>21. QED
  BY <1>1, <1>19, <1>20

(***************************************************************************)
(* The beginning.                                                          *)
(***************************************************************************)

\* Main, before its first statement.
FirstStore == [n \in Range(Args) |-> {w \in World : \E k \in w : Args[k] = n}]
FirstArray == [n \in Range(Args) \cup {Ret} |->
                 Bound(IF n = Ret THEN Arg(Len(Args) + 1) ELSE Arg(CHOOSE k \in DOMAIN Args : Args[k] = n))]
FirstBlocks == <<Fresh([shared |-> TRUE, at |-> 1]), Fresh([shared |-> FALSE, at |-> 2])>>
FirstGen == [block |-> FirstBlocks, array |-> <<FirstArray, NoBindings>>, select |-> <<>>,
             values |-> Arg(Len(Args) + 1), panic |-> FALSE]
Main == Frame(1, 2, None, None, FirstStore, World)

\* The arguments.
ArgOf(n) == CHOOSE k \in DOMAIN Args : Args[k] = n

\* The arguments and the numbers of their values.
LEMMA ArgsAre ==
  /\ Len(Args) \in Nat /\ DOMAIN Args = 1 .. Len(Args) /\ Arg(Len(Args) + 1) = Len(Args) + 3
  /\ \A n \in Range(Args) : /\ ArgOf(n) \in 1 .. Len(Args) /\ Args[ArgOf(n)] = n /\ Arg(ArgOf(n)) = ArgOf(n) + 2
                            /\ \A k \in DOMAIN Args : Args[k] = n => k = ArgOf(n)
  /\ Ret \notin Range(Args)
<1>1. Len(Args) \in Nat /\ DOMAIN Args = 1 .. Len(Args)
  BY ArgsAssumption
<1>2. ASSUME NEW n \in Range(Args)
      PROVE  /\ ArgOf(n) \in 1 .. Len(Args) /\ Args[ArgOf(n)] = n /\ Arg(ArgOf(n)) = ArgOf(n) + 2
             /\ \A k \in DOMAIN Args : Args[k] = n => k = ArgOf(n)
  <2>1. \E k \in DOMAIN Args : Args[k] = n
    BY DEF Range
  <2>2. ArgOf(n) \in DOMAIN Args /\ Args[ArgOf(n)] = n
    BY <2>1 DEF ArgOf
  <2>3. \A k \in DOMAIN Args : Args[k] = n => k = ArgOf(n)
    BY <2>2, ArgsAssumption
  <2>4. QED
    BY <1>1, <2>2, <2>3 DEF Arg
<1>3. Ret \notin Range(Args)
  BY NamesAssumption DEF Ret
<1>4. QED
  BY <1>1, <1>2, <1>3 DEF Arg

\* The bindings of main's first block.
LEMMA FirstArrayIs ==
  /\ FirstArray \in Arrays /\ IsFiniteSet(DOMAIN FirstArray)
  /\ \A n \in DOMAIN FirstArray : ~FirstArray[n].select /\ FirstArray[n].at \in 1 .. Arg(Len(Args) + 1)
  /\ \A n \in Range(Args) : FirstArray[n] = Bound(Arg(ArgOf(n)))
  /\ DOMAIN FirstArray = Range(Args) \cup {Ret}
<1> DEFINE m == Len(Args)
           S == Range(Args) \cup {Ret}
<1>1. m \in Nat /\ DOMAIN Args = 1 .. m /\ Arg(m + 1) = m + 3 /\ Ret \notin Range(Args)
  BY ArgsAre
<1>2. DOMAIN FirstArray = S
  BY DEF FirstArray
<1>3. FirstArray[Ret] = Bound(m + 3)
  BY <1>1 DEF FirstArray
<1>4. \A n \in Range(Args) : FirstArray[n] = Bound(Arg(ArgOf(n)))
  BY <1>1 DEF FirstArray, ArgOf
<1>5. \A n \in Range(Args) : Arg(ArgOf(n)) \in 1 .. m + 3
  <2>1. SUFFICES ASSUME NEW n \in Range(Args) PROVE Arg(ArgOf(n)) \in 1 .. m + 3
    OBVIOUS
  <2>2. ArgOf(n) \in 1 .. m /\ Arg(ArgOf(n)) = ArgOf(n) + 2
    BY ArgsAre
  <2> HIDE DEF m
  <2>3. QED
    BY <1>1, <2>2
<1>6. \A n \in S : FirstArray[n] = Bound(IF n = Ret THEN m + 3 ELSE Arg(ArgOf(n)))
  BY <1>1, <1>3, <1>4
<1>7. m + 3 \in 1 .. m + 3 /\ m + 3 \in Nat
  BY <1>1
<1>8. \A n \in S : FirstArray[n] \in Bounds /\ ~FirstArray[n].select /\ FirstArray[n].at \in 1 .. m + 3
  <2> HIDE DEF m, S
  <2>1. SUFFICES ASSUME NEW n \in S PROVE FirstArray[n] \in Bounds /\ ~FirstArray[n].select /\ FirstArray[n].at \in 1 .. m + 3
    OBVIOUS
  <2>2. PICK v \in 1 .. m + 3 : FirstArray[n] = Bound(v)
    BY <1>5, <1>6, <1>7 DEF S
  <2>3. v \in Nat
    BY <1>1
  <2>4. QED
    BY <2>2, <2>3 DEF Bound, Bounds
<1>9. IsFiniteSet(S)
  <2> DEFINE R == Range(Args)
             f == [k \in 1 .. m |-> Args[k]]
  <2>1. (\A k \in 1 .. m : Args[k] \in R) /\ \A n \in R : \E k \in 1 .. m : Args[k] = n
    BY <1>1 DEF Range
  <2>2. IsFiniteSet(1 .. m)
    BY <1>1, FS_Interval
  <2> HIDE DEF R, m
  <2>3. f \in Surjection(1 .. m, R)
    BY <2>1 DEF Surjection
  <2> HIDE DEF f
  <2>4. IsFiniteSet(R)
    BY <2>2, <2>3, FS_Surjection
  <2>5. QED
    BY <2>4, FS_AddElement DEF R
<1>10. S \in SUBSET Names
  BY DEF Names
<1>11. FirstArray \in [S -> Bounds]
  BY <1>2, <1>8 DEF FirstArray
<1>12. FirstArray \in Arrays
  BY <1>10, <1>11 DEF Arrays
<1>13. QED
  BY <1>1, <1>2, <1>4, <1>8, <1>9, <1>12

\* The blocks of main.
LEMMA FirstBlocksAre ==
  /\ FirstBlocks \in Seq(Blocks) /\ Len(FirstBlocks) = 2 /\ DOMAIN FirstBlocks = 1 .. 2
  /\ FirstBlocks[1] = Fresh([shared |-> TRUE, at |-> 1]) /\ FirstBlocks[2] = Fresh([shared |-> FALSE, at |-> 2])
  /\ \A b \in 1 .. 2 : /\ FirstBlocks[b].bindings.at = b /\ FirstBlocks[b].instr = <<>> /\ FirstBlocks[b].next = None
                       /\ FirstBlocks[b].branch = None /\ FirstBlocks[b].cond = None /\ FirstBlocks[b].dead = FALSE
<1>1. ASSUME NEW s \in BOOLEAN, NEW a \in Nat
      PROVE  LET k == Fresh([shared |-> s, at |-> a])
             IN k \in Blocks /\ k.bindings.at = a /\ k.instr = <<>> /\ k.next = None /\ k.branch = None /\ k.cond = None
                /\ k.dead = FALSE
  <2>1. [shared |-> s, at |-> a] \in Handles /\ <<>> \in Seq(Instructions) /\ None \in Nat
    BY DEF Handles, None
  <2>2. QED
    BY <2>1 DEF Fresh, Blocks
<1> DEFINE x == Fresh([shared |-> TRUE, at |-> 1])
           y == Fresh([shared |-> FALSE, at |-> 2])
<1>2. x \in Blocks /\ x.bindings.at = 1 /\ x.instr = <<>> /\ x.next = None /\ x.branch = None /\ x.cond = None /\ x.dead = FALSE
  BY <1>1
<1>3. y \in Blocks /\ y.bindings.at = 2 /\ y.instr = <<>> /\ y.next = None /\ y.branch = None /\ y.cond = None /\ y.dead = FALSE
  BY <1>1
<1>4. FirstBlocks = <<x, y>>
  BY DEF FirstBlocks
<1> HIDE DEF x, y
<1>5. FirstBlocks \in Seq(Blocks) /\ Len(FirstBlocks) = 2 /\ DOMAIN FirstBlocks = 1 .. 2 /\ FirstBlocks[1] = x /\ FirstBlocks[2] = y
  BY <1>2, <1>3, <1>4
<1>6. \A b \in 1 .. 2 : b = 1 \/ b = 2
  OBVIOUS
<1>7. QED
  BY <1>2, <1>3, <1>5, <1>6 DEF x, y

\* The generator before the first statement is well formed.
LEMMA FirstFine == Fine(FirstGen)
<1> DEFINE g == FirstGen
           m == Arg(Len(Args) + 1)
<1>1. /\ g.block = FirstBlocks /\ g.array = <<FirstArray, NoBindings>> /\ g.select = <<>> /\ g.values = m /\ g.panic = FALSE
      /\ g = [block |-> FirstBlocks, array |-> <<FirstArray, NoBindings>>, select |-> <<>>, values |-> m, panic |-> FALSE]
  BY DEF FirstGen
<1>2. m \in Nat
  BY ArgsAre
<1>3. /\ FirstArray \in Arrays /\ IsFiniteSet(DOMAIN FirstArray)
      /\ \A n \in DOMAIN FirstArray : ~FirstArray[n].select /\ FirstArray[n].at \in 1 .. m
  BY FirstArrayIs
<1>4. NoBindings \in Arrays /\ DOMAIN NoBindings = {} /\ IsFiniteSet(DOMAIN NoBindings)
  BY NoBindingsIs
<1>5. /\ FirstBlocks \in Seq(Blocks) /\ DOMAIN FirstBlocks = 1 .. 2
      /\ \A b \in 1 .. 2 : /\ FirstBlocks[b].bindings.at = b /\ FirstBlocks[b].instr = <<>> /\ FirstBlocks[b].next = None
                           /\ FirstBlocks[b].branch = None /\ FirstBlocks[b].cond = None /\ FirstBlocks[b].dead = FALSE
  BY FirstBlocksAre
<1> HIDE DEF g, m
<1>6. <<FirstArray, NoBindings>> \in Seq(Arrays) /\ DOMAIN g.array = 1 .. 2 /\ g.array[1] = FirstArray /\ g.array[2] = NoBindings
  BY <1>1, <1>3, <1>4
<1>7. g \in Gens
  BY <1>1, <1>2, <1>5, <1>6 DEF Gens
<1>8. DOMAIN g.select = {} /\ \A b \in DOMAIN g.block : DOMAIN g.block[b].instr = {}
  BY <1>1, <1>5
<1>9. ArraysOK(g)
  <2>1. \A a \in 1 .. 2 : a = 1 \/ a = 2
    OBVIOUS
  <2>2. \A n \in DOMAIN FirstArray : Within(g, FirstArray[n])
    BY <1>1, <1>3 DEF Within
  <2>3. QED
    BY <1>3, <1>4, <1>6, <2>1, <2>2 DEF ArraysOK
<1>10. BlocksOK(g)
  <2>1. 0 \in 0 .. m
    BY <1>2
  <2>2. QED
    BY <1>1, <1>5, <1>6, <1>8, <2>1 DEF BlocksOK, None
<1>11. SelectsOK(g) /\ Resolved(g)
  BY <1>8 DEF SelectsOK, Resolved
<1>12. Once(g)
  BY <1>8 DEF Once
<1>13. CopyOnWrite(g)
  BY <1>1, <1>5 DEF CopyOnWrite
<1>14. Tested(g)
  BY <1>1, <1>5 DEF Tested
<1>15. g.values >= m
  BY <1>1, <1>2
<1>16. Typed(g)
  BY <1>7, <1>9, <1>10, <1>11, <1>15 DEF Typed, m
<1>17. QED
  BY <1>1, <1>11, <1>12, <1>13, <1>14, <1>16 DEF Fine, GenOK, g

\* Main's block, and the one it ends in.
LEMMA FirstPicture ==
  LET p == Picture(FirstGen)
  IN /\ Pic(p) /\ Len(p) = 2 /\ DOMAIN p = 1 .. 2
     /\ \A b \in 1 .. 2 : Idle(p[b]) /\ p[b].when = {} /\ p[b].next = None /\ p[b].branch = None /\ ~p[b].dead
     /\ DOMAIN p[2].view = {}
     /\ Agrees(p[1].view, FirstStore, DOMAIN FirstStore, World)
<1> DEFINE g == FirstGen
           p == Picture(g)
<1>1. Fine(g) /\ g.block = FirstBlocks /\ g.array = <<FirstArray, NoBindings>> /\ g.values = Arg(Len(Args) + 1)
  BY FirstFine DEF FirstGen
<1>2. /\ DOMAIN FirstBlocks = 1 .. 2 /\ Len(FirstBlocks) = 2
      /\ \A b \in 1 .. 2 : /\ FirstBlocks[b].bindings.at = b /\ FirstBlocks[b].next = None
                           /\ FirstBlocks[b].branch = None /\ FirstBlocks[b].cond = None /\ FirstBlocks[b].dead = FALSE
  BY FirstBlocksAre
<1> HIDE DEF g
<1>3. Pic(p) /\ Len(p) = 2 /\ DOMAIN p = 1 .. 2
  BY <1>1, <1>2, FineFields
<1>4. ASSUME NEW b \in 1 .. 2
      PROVE  /\ p[b].when = {} /\ p[b].next = None /\ p[b].branch = None /\ ~p[b].dead
             /\ p[b].view = Worlds(g, g.array[b])
  BY <1>1, <1>2, <1>4 DEF Picture, Box
<1>5. g.array[1] = FirstArray /\ g.array[2] = NoBindings
  BY <1>1
<1>6. DOMAIN p[2].view = {}
  BY <1>4, <1>5, NoBindingsIs
<1>7. p[1].view = [n \in DOMAIN FirstArray |-> Chosen(g, FirstArray[n])]
  BY <1>4, <1>5 DEF Worlds
<1>8. ASSUME NEW n \in Range(Args)
      PROVE  n \in DOMAIN p[1].view /\ p[1].view[n] = FirstStore[n]
  <2> DEFINE k == ArgOf(n)
             v == Arg(k)
             m == Len(Args)
  <2>1. n \in DOMAIN FirstArray /\ FirstArray[n] = Bound(v)
    BY FirstArrayIs
  <2>2. /\ m \in Nat /\ k \in 1 .. m /\ Args[k] = n /\ v = k + 2 /\ (\A l \in DOMAIN Args : Args[l] = n => l = k)
        /\ Arg(m + 1) = m + 3
    BY ArgsAre
  <2> HIDE DEF k, v, m
  <2>3. v \in 1 .. m + 3 /\ v # 1 /\ v # 2 /\ v <= m + 2 /\ v - 2 = k
    BY <2>2
  <2>4. v \in 1 .. g.values
    BY <1>1, <2>2, <2>3 DEF m
  <2>5. Chosen(g, Bound(v)) = Car(g)[v]
    BY <1>1, <2>4, BoundIs
  <2>6. Car(g)[v] = CarriedBy(MadeBy(g), Car(g), v)
    BY <1>1, <2>4, FineFields, CarIs
  <2>7. Arg(0) = 2 /\ Arg(Len(Args)) = m + 2
    BY <2>2 DEF Arg, m
  <2>8. CarriedBy(MadeBy(g), Car(g), v) = {w \in World : k \in w}
    BY <2>3, <2>7 DEF CarriedBy, True, False
  <2>9. FirstStore[n] = {w \in World : \E l \in w : Args[l] = n}
    BY DEF FirstStore
  <2>10. \A w \in World : (\E l \in w : Args[l] = n) <=> k \in w
    BY <2>2 DEF World
  <2>11. FirstStore[n] = {w \in World : k \in w}
    BY <2>9, <2>10
  <2>12. QED
    BY <1>7, <2>1, <2>5, <2>6, <2>8, <2>11
<1>9. DOMAIN FirstStore = Range(Args)
  BY DEF FirstStore
<1>10. Agrees(p[1].view, FirstStore, DOMAIN FirstStore, World)
  <2> HIDE DEF p
  <2>1. QED
    BY <1>8, <1>9 DEF Agrees
<1>11. \A b \in 1 .. 2 : Idle(p[b])
  BY <1>4 DEF Idle
<1>12. QED
  BY <1>3, <1>4, <1>6, <1>10, <1>11 DEF g

\* The frame of main.
LEMMA MainIs ==
  /\ Main \in Frames /\ Main.start = 1 /\ Main.ret = 2 /\ Main.ifs = <<>> /\ Main.store = FirstStore
  /\ Main.result = {} /\ Main.here = World
<1>1. FirstStore \in Stores
  <2>1. Range(Args) \in SUBSET Names
    BY DEF Names
  <2>2. FirstStore \in [Range(Args) -> SUBSET World]
    BY DEF FirstStore
  <2>3. QED
    BY <2>1, <2>2 DEF Stores
<1>2. World \in SUBSET World /\ {} \in SUBSET World /\ <<>> \in Seq(Ifs) /\ None \in Calls /\ None \in Nat
  BY DEF Calls, None
<1>3. QED
  BY <1>1, <1>2 DEF Main, Frame, Frames

\* The picture before the first statement: every argument is its own value.
LEMMA FirstTop == Top(Picture(FirstGen), <<World, World>>, <<Main>>, 1, World, Main)
<1> DEFINE p == Picture(FirstGen)
           at == <<World, World>>
           fr == <<Main>>
<1>1. /\ Pic(p) /\ Len(p) = 2 /\ DOMAIN p = 1 .. 2
      /\ \A b \in 1 .. 2 : Idle(p[b]) /\ p[b].when = {} /\ p[b].next = None /\ p[b].branch = None /\ ~p[b].dead
      /\ DOMAIN p[2].view = {}
      /\ Agrees(p[1].view, FirstStore, DOMAIN FirstStore, World)
  BY FirstPicture
<1>2. /\ Main \in Frames /\ Main.start = 1 /\ Main.ret = 2 /\ Main.ifs = <<>> /\ Main.store = FirstStore
      /\ Main.result = {} /\ Main.here = World
  BY MainIs
<1>3. /\ fr \in Seq(Frames) /\ Len(fr) = 1 /\ DOMAIN fr = {1} /\ fr[1] = Main /\ fr # <<>>
  BY <1>2
<1>4. at[1] = World /\ at[2] = World
  OBVIOUS
<1>5. DOMAIN Main.ifs = {}
  BY <1>2
<1> HIDE DEF p, at, fr
<1>6. FlowOK(p, at)
  <2>1. None \in 0 .. 2
    BY DEF None
  <2>2. QED
    BY <1>1, <2>1 DEF FlowOK
<1>7. ClosedOK(p, fr)
  BY <1>1 DEF ClosedOK
<1>8. CurOf(fr, 1, 1) = 1 /\ PathOf(fr, World, 1) = World
  BY <1>3 DEF CurOf, PathOf
<1>9. LinksOK(p, fr, 1)
  <2>1. SUFFICES ASSUME NEW b \in DOMAIN p, Linked(p, fr, b)
                 PROVE  ~p[b].dead /\ \E k \in DOMAIN fr : b \in OpenIn(fr[k], CurOf(fr, 1, k))
    BY DEF LinksOK
  <2>2. b \in 1 .. 2 /\ b # None
    BY <1>1 DEF None
  <2>3. b = 1
    BY <1>1, <1>2, <1>3, <2>1, <2>2 DEF Linked
  <2>4. 1 \in OpenIn(fr[1], CurOf(fr, 1, 1))
    BY <1>8 DEF OpenIn
  <2>5. QED
    BY <1>1, <1>3, <2>3, <2>4
<1>10. StackOK(p, at, fr, 1)
  BY <1>2, <1>3 DEF StackOK
<1>11. FrameOK(p, at, Main, 1, World)
  <2>1. IdsOK(p, Main, 1)
    BY <1>1, <1>2 DEF IdsOK
  <2>2. ChainOK(Main, 1) /\ SidesOK(p, Main, World) /\ HereOK(Main, World) /\ ApartOK(Main, World, Main.result)
    BY <1>2, <1>5 DEF ChainOK, SidesOK, HereOK, ApartOK
  <2>3. EndOK(p, at, Main)
    BY <1>1, <1>2, <1>4 DEF EndOK
  <2>4. CurOK(p, at, Main, 1, World)
    BY <1>1, <1>2, <1>4 DEF CurOK
  <2>5. ReturnedOK(p, at, Main, World)
    BY <1>1, <1>2 DEF ReturnedOK, None
  <2>6. QED
    BY <1>5, <2>1, <2>2, <2>3, <2>4, <2>5 DEF FrameOK
<1>12. Sound(p, at, fr, 1, World)
  BY <1>3, <1>6, <1>7, <1>8, <1>9, <1>10, <1>11 DEF Sound
<1>13. QED
  BY <1>1, <1>3, <1>12 DEF Top, p, at, fr

\* The invariant holds before the first statement.
LEMMA InitCompiled == Init => phase = "statements" /\ \E at : Compiled(gen, at, frames, cur, path)
<1> SUFFICES ASSUME Init PROVE phase = "statements" /\ \E at : Compiled(gen, at, frames, cur, path)
  OBVIOUS
<1>1. gen = FirstGen /\ cur = 1 /\ frames = <<Main>> /\ path = World /\ phase = "statements"
  BY DEF Init, FirstGen, FirstBlocks, FirstArray, Main, FirstStore
<1>2. Last(<<Main>>) = Main
  BY DEF Last
<1>3. Compiled(FirstGen, <<World, World>>, <<Main>>, 1, World)
  BY <1>2, FirstFine, FirstTop DEF Compiled
<1>4. QED
  BY <1>1, <1>3

(***************************************************************************)
(* The inductive invariant, and the theorems.                              *)
(***************************************************************************)

\* While statements are compiled, what Sound says of the picture holds; while a
\* function is asked what it returns, so do the right answers; in the end there
\* is an answer for main.
IInv ==
  /\ phase \in {"statements", "return", "serialize"}
  /\ \E at : /\ Compiled(gen, at, frames, cur, path)
             /\ phase = "return" => Walked(gen, at, frames, cur, stack, answers)
  /\ phase = "serialize" => Returning(gen, frames, answers)

\* IInv holds in the beginning.
LEMMA InitIInv == Init => IInv
BY InitCompiled DEF IInv

\* Assignments, definitions and calls keep IInv.
LEMMA StatementIInv ==
  ASSUME IInv, NEW name \in Targets,
         \/ \E e \in Expr : Assign(name, e) \/ Call(name, e)
         \/ \E e \in {"true", "false"} : LoopAssign(name, e)
         \/ VariableDef(name)
  PROVE  IInv'
<1>1. PICK at : Compiled(gen, at, frames, cur, path)
  BY DEF IInv
<1>2. phase = "statements" /\ phase' = phase
  BY DEF Assign, Call, LoopAssign, VariableDef, Alive, walk
<1>3. \E bt : Compiled(gen', bt, frames', cur', path')
  <2>1. CASE \E e \in Expr : Assign(name, e)
    BY <1>1, <2>1, AssignStep
  <2>2. CASE \E e \in Expr : Call(name, e)
    BY <1>1, <2>2, CallStep
  <2>3. CASE \E e \in {"true", "false"} : LoopAssign(name, e)
    BY <1>1, <2>3, LoopAssignStep
  <2>4. CASE VariableDef(name)
    BY <1>1, <2>4, VariableDefStep
  <2>5. QED
    BY <2>1, <2>2, <2>3, <2>4
<1>4. QED
  BY <1>2, <1>3 DEF IInv

\* The beginning of an if keeps IInv.
LEMMA BranchIInv ==
  ASSUME IInv, NEW name \in Visible, IfConst(name) \/ Branch(name)
  PROVE  IInv'
<1>1. PICK at : Compiled(gen, at, frames, cur, path)
  BY DEF IInv
<1>2. phase = "statements" /\ phase' = phase
  BY DEF IfConst, Branch, Alive, walk
<1>3. \E bt : Compiled(gen', bt, frames', cur', path')
  <2>1. CASE IfConst(name)
    BY <1>1, <2>1, IfConstStep
  <2>2. CASE Branch(name)
    BY <1>1, <2>2, BranchStep
  <2>3. QED
    BY <2>1, <2>2
<1>4. QED
  BY <1>2, <1>3 DEF IInv

\* Return, else and the end of an if keep IInv.
LEMMA BlockIInv ==
  ASSUME IInv, (\E e \in Expr : Return(e)) \/ Else \/ EndIf
  PROVE  IInv'
<1>1. PICK at : Compiled(gen, at, frames, cur, path)
  BY DEF IInv
<1>2. phase = "statements" /\ phase' = phase
  BY Zenon DEF Return, Else, EndIf, Alive, walk
<1>3. \E bt : Compiled(gen', bt, frames', cur', path')
  <2>1. CASE \E e \in Expr : Return(e)
    BY <1>1, <2>1, ReturnStep
  <2>2. CASE Else
    BY <1>1, <2>2, ElseStep
  <2>3. CASE EndIf
    BY <1>1, <2>3, EndIfStep
  <2>4. QED
    BY <2>1, <2>2, <2>3
<1>4. QED
  BY <1>2, <1>3 DEF IInv

\* The walks over the blocks keep IInv.
LEMMA WalkIInv ==
  ASSUME IInv, ReturnWalk \/ VisitBlock \/ AnswerBlock \/ EndCall \/ EndMain \/ SerializeBlock
  PROVE  IInv'
<1>1. PICK at : Compiled(gen, at, frames, cur, path) /\ (phase = "return" => Walked(gen, at, frames, cur, stack, answers))
  BY DEF IInv
<1>2. CASE ReturnWalk
  <2>1. phase' = "return"
    BY <1>2 DEF ReturnWalk
  <2>2. Compiled(gen', at, frames', cur', path') /\ Walked(gen', at, frames', cur', stack', answers')
    BY <1>1, <1>2, ReturnWalkStep
  <2>3. QED
    BY <2>1, <2>2 DEF IInv
<1>3. CASE VisitBlock
  <2>1. phase = "return" /\ phase' = "return"
    BY <1>3 DEF VisitBlock
  <2>2. Compiled(gen', at, frames', cur', path') /\ Walked(gen', at, frames', cur', stack', answers')
    BY <1>1, <1>3, <2>1, VisitBlockStep
  <2>3. QED
    BY <2>1, <2>2 DEF IInv
<1>4. CASE AnswerBlock
  <2>1. phase = "return" /\ phase' = "return"
    BY <1>4 DEF AnswerBlock
  <2>2. Compiled(gen', at, frames', cur', path') /\ Walked(gen', at, frames', cur', stack', answers')
    BY <1>1, <1>4, <2>1, AnswerBlockStep
  <2>3. QED
    BY <2>1, <2>2 DEF IInv
<1>5. CASE EndCall
  <2>1. phase = "return" /\ phase' = "statements"
    BY <1>5, Zenon DEF EndCall
  <2>2. Compiled(gen', at, frames', cur', path')
    BY <1>1, <1>5, <2>1, EndCallStep
  <2>3. QED
    BY <2>1, <2>2 DEF IInv
<1>6. CASE EndMain
  <2>1. phase = "return" /\ phase' = "serialize"
    BY <1>6 DEF EndMain
  <2>2. Compiled(gen', at, frames', cur', path') /\ Returning(gen', frames', answers')
    BY <1>1, <1>6, <2>1, EndMainStep
  <2>3. QED
    BY <2>1, <2>2 DEF IInv
<1>7. CASE SerializeBlock
  <2>1. /\ phase = "serialize" /\ phase' = phase
        /\ gen' = gen /\ frames' = frames /\ cur' = cur /\ path' = path /\ answers' = answers
    BY <1>7 DEF SerializeBlock
  <2>2. Returning(gen, frames, answers)
    BY <2>1 DEF IInv
  <2>3. QED
    BY <1>1, <2>1, <2>2 DEF IInv
<1>8. QED
  BY <1>2, <1>3, <1>4, <1>5, <1>6, <1>7

\* IInv is inductive.
LEMMA NextIInv == IInv /\ [Next]_vars => IInv'
<1> SUFFICES ASSUME IInv, [Next]_vars PROVE IInv'
  OBVIOUS
<1>1. CASE Next
  <2>1. \/ \E name \in Targets :
             \/ \E e \in Expr : Assign(name, e) \/ Call(name, e)
             \/ \E e \in {"true", "false"} : LoopAssign(name, e)
             \/ VariableDef(name)
        \/ \E name \in Conditions \cap Visible : IfConst(name) \/ Branch(name)
        \/ (\E e \in Expr : Return(e)) \/ Else \/ EndIf
        \/ ReturnWalk \/ VisitBlock \/ AnswerBlock \/ EndCall \/ EndMain \/ SerializeBlock
    BY <1>1 DEF Next
  <2>2. QED
    BY <2>1, StatementIInv, BranchIInv, BlockIInv, WalkIInv
<1>2. CASE UNCHANGED vars
  BY <1>2 DEF vars, walk, IInv
<1>3. QED
  BY <1>1, <1>2

\* The invariant of the compilation: see IInv.
THEOREM Inductive == Spec => []IInv
<1>1. Init => IInv
  BY InitIInv
<1>2. IInv /\ [Next]_vars => IInv'
  BY NextIInv
<1>3. QED
  BY <1>1, <1>2, PTL DEF Spec

\* IInv says what BindingsAgree says.
LEMMA Agreement == IInv => BindingsAgree
<1> SUFFICES ASSUME IInv, phase = "statements", ~gen.block[cur].dead, NEW n \in Visible
             PROVE  Chosen(gen, Bindings(gen, cur)[n]) \cap path = top.store[n] \cap path
  BY DEF BindingsAgree
<1>1. PICK at : Compiled(gen, at, frames, cur, path)
  BY DEF IInv
<1>2. Stated(gen, at, frames, cur, path)
  BY <1>1, StatedIs
<1>3. Fine(gen) /\ cur \in DOMAIN gen.block /\ Agrees(Picture(gen)[cur].view, top.store, Visible, path)
  BY <1>2 DEF Stated, top, Visible
<1>4. n \in DOMAIN Picture(gen)[cur].view /\ Picture(gen)[cur].view[n] \cap path = top.store[n] \cap path
  BY <1>3 DEF Agrees
<1>5. Picture(gen)[cur].view = [m \in DOMAIN Bindings(gen, cur) |-> Chosen(gen, Bindings(gen, cur)[m])]
  BY <1>3, BindingIs
<1>6. QED
  BY <1>4, <1>5

\* After each statement that bindings.go and ssagen.go compile, whatever is
\* shared, merged or resolved, each name has the value that the variable has, in
\* each world that is at this point of the program.
THEOREM NamesAgree == Spec => []BindingsAgree
BY Inductive, Agreement, PTL

\* Block.SetNext never panics, a value is made by one instruction, no block
\* writes an array that another one has, and the phi a select was given carries
\* what the select means.
THEOREM Generated == Spec => [](GenOK(gen) /\ ~gen.panic)
<1>1. IInv => GenOK(gen) /\ ~gen.panic
  BY DEF IInv, Compiled, Fine
<1>2. QED
  BY <1>1, Inductive, PTL

\* The blocks and the run of the program agree, for some worlds "at" in which the
\* code enters each block. All worlds enter the first block, and they flow along
\* the edges by the conditions of the branches (FlowOK). The block that statements
\* are added to is entered only in worlds that are at this point of the program,
\* and its names stand for the variables there; so do the names of the blocks that
\* an open if, or a function that has called another, comes back to; and a block
\* that has returned has the function's result bound (FrameOK, for each function
\* on the stack).
CodeFollowsRun == \E at : Sound(Picture(gen), at, frames, cur, path)
\* The statements of ssagen.go make blocks that do what the program does.
THEOREM CodeAgreesWithRun == Spec => []CodeFollowsRun
<1>1. IInv => CodeFollowsRun
  <2> SUFFICES ASSUME IInv PROVE CodeFollowsRun
    OBVIOUS
  <2>1. PICK at : Compiled(gen, at, frames, cur, path)
    BY DEF IInv
  <2>2. Sound(Picture(gen), at, frames, cur, path)
    BY <2>1 DEF Compiled, Top
  <2>3. QED
    BY <2>2 DEF CodeFollowsRun
<1>2. QED
  BY <1>1, Inductive, PTL

\* The value that Package.Compile returns for main (Block.ReturnBinding of its
\* first block) carries the result of the program, in all worlds.
ResultCarried ==
  phase = "serialize" => Len(frames) = 1 /\ Carried(MadeBy(gen), gen.values)[answers[1]] = frames[1].result
\* Package.Compile: the circuit returns what the program does.
THEOREM MainReturns == Spec => []ResultCarried
<1>1. IInv => ResultCarried
  <2> SUFFICES ASSUME IInv, phase = "serialize"
               PROVE  Len(frames) = 1 /\ Carried(MadeBy(gen), gen.values)[answers[1]] = frames[1].result
    BY DEF ResultCarried
  <2>1. Returning(gen, frames, answers)
    BY DEF IInv
  <2>2. PICK at : Compiled(gen, at, frames, cur, path)
    BY DEF IInv
  <2>3. Top(Picture(gen), at, frames, cur, path, Last(frames))
    BY <2>2 DEF Compiled
  <2>4. Sound(Picture(gen), at, frames, cur, path)
    BY <2>3 DEF Top
  <2>5. frames[1].start = 1
    BY <2>4 DEF Sound, StackOK
  <2>6. QED
    BY <2>1, <2>5 DEF Returning, Car
<1>2. QED
  BY <1>1, Inductive, PTL

\* What Block.ReturnBinding finds for a function, main or a called one, is what
\* the function returns, in the worlds that called it, however its returns are
\* nested in branches.
CallAnswered ==
  phase = "return" /\ stack = <<>> =>
    Carried(MadeBy(gen), gen.values)[answers[top.start]] \cap top.here = top.result \cap top.here
\* Func.SSA: a call has the value that the function returns.
THEOREM CallReturns == Spec => []CallAnswered
<1>1. IInv => CallAnswered
  <2> SUFFICES ASSUME IInv, phase = "return", stack = <<>>
               PROVE  Carried(MadeBy(gen), gen.values)[answers[top.start]] \cap top.here = top.result \cap top.here
    BY DEF CallAnswered
  <2>1. PICK at : Compiled(gen, at, frames, cur, path) /\ Walked(gen, at, frames, cur, stack, answers)
    BY DEF IInv
  <2>2. Ended(gen, at, frames, cur, path, answers[top.start])
    BY <2>1, EndedIs DEF top
  <2>3. Stated(gen, at, frames, cur, path) /\ Right(at, top, top.start, answers[top.start], gen.values, Car(gen))
    BY <2>2 DEF Ended, top
  <2>4. Top(Picture(gen), at, frames, cur, path, top)
    BY <2>3 DEF Stated, top
  <2>5. FrameOK(Picture(gen), at, top, cur, path)
    BY <2>4, TopIs
  <2>6. top.here \subseteq at[top.start]
    BY <2>5 DEF FrameOK, EndOK
  <2>7. Car(gen)[answers[top.start]] \cap at[top.start] = top.result \cap at[top.start]
    BY <2>3 DEF Right
  <2>8. QED
    BY <2>6, <2>7 DEF Car
<1>2. QED
  BY <1>1, Inductive, PTL
=============================================================================
