--------------------------- MODULE GeneratorProofs --------------------------
(***************************************************************************)
(* Lemmas about Programs, for any arguments, names, conditions and bounds: *)
(* what values, selects and bindings stand for in each world, how blocks   *)
(* and bindings that copies share keep that, and what statements, ifs,     *)
(* returns and calls make of the picture of the blocks.  ProgramsProofs has *)
(* the theorems.                                                           *)
(***************************************************************************)
EXTENDS Programs, Integers, FiniteSetTheorems, WellFoundedInduction, TLAPS

(***************************************************************************)
(* What the generator has made.  Names are bound to values and to selects, *)
(* and both are numbered in the order in which they are made.              *)
(***************************************************************************)
Names == Range(Args) \cup Targets \cup {Ret}
Bounds == [select : BOOLEAN, at : Nat]
Instructions == [op : {"mov", "phi", "ret"}, in : Seq(Nat), out : Nat]
Handles == [shared : BOOLEAN, at : Nat]
Blocks == [bindings : Handles, instr : Seq(Instructions), next : Nat, branch : Nat, cond : Nat, dead : BOOLEAN]
Selects == [cond : Nat, t : Bounds, f : Bounds, resolved : Nat]
Arrays == UNION {[S -> Bounds] : S \in SUBSET Names}
Gens == [block : Seq(Blocks), array : Seq(Arrays), select : Seq(Selects), values : Nat, panic : BOOLEAN]

\* There is what p is bound to.
Within(g, p) == IF p.select THEN p.at \in DOMAIN g.select ELSE p.at \in 1 .. g.values
\* Instructions read values that were made before their own.
InstrOK(g, i) ==
  /\ \A k \in DOMAIN i.in : i.in[k] \in 1 .. g.values
  /\ IF i.op = "ret" THEN i.out = None /\ Len(i.in) = 1
     ELSE /\ i.out \in Arg(Len(Args)) + 1 .. g.values
          /\ \A k \in DOMAIN i.in : i.in[k] < i.out
          /\ Len(i.in) = IF i.op = "mov" THEN 1 ELSE 3
ArraysOK(g) ==
  \A a \in DOMAIN g.array :
    IsFiniteSet(DOMAIN g.array[a]) /\ \A n \in DOMAIN g.array[a] : Within(g, g.array[a][n])
BlocksOK(g) ==
  \A b \in DOMAIN g.block :
    /\ g.block[b].bindings.at \in DOMAIN g.array
    /\ g.block[b].cond \in 0 .. g.values
    /\ \A k \in DOMAIN g.block[b].instr : InstrOK(g, g.block[b].instr[k])
\* Selects choose from values, and from selects that were made before.
SelectsOK(g) ==
  \A s \in DOMAIN g.select :
    LET x == g.select[s]
    IN /\ x.cond \in 1 .. g.values /\ x.resolved \in 0 .. g.values
       /\ Within(g, x.t) /\ (x.t.select => x.t.at < s)
       /\ Within(g, x.f) /\ (x.f.select => x.f.at < s)
\* A value is made by one instruction only.
Once(g) ==
  \A b, c \in DOMAIN g.block : \A k \in DOMAIN g.block[b].instr, l \in DOMAIN g.block[c].instr :
    g.block[b].instr[k].out = g.block[c].instr[l].out /\ g.block[b].instr[k].out # None => b = c /\ k = l
\* A block that has an array with others knows that it is shared, so that it
\* copies the array before it writes.
CopyOnWrite(g) ==
  \A b, c \in DOMAIN g.block :
    b # c /\ g.block[b].bindings.at = g.block[c].bindings.at => g.block[b].bindings.shared
\* The phi that a select has been given carries what the select means.
Resolved(g) ==
  \A s \in DOMAIN g.select : g.select[s].resolved # None =>
    Carried(MadeBy(g), g.values)[g.select[s].resolved] = SelectsOf(g)[s]
Typed(g) ==
  /\ g \in Gens /\ g.values >= Arg(Len(Args) + 1)
  /\ ArraysOK(g) /\ BlocksOK(g) /\ SelectsOK(g)
GenOK(g) == Typed(g) /\ Once(g) /\ CopyOnWrite(g) /\ Resolved(g)

(***************************************************************************)
(* The picture of a generator: of each block its edges, the worlds in      *)
(* which its condition holds, and the worlds that each of its names stands *)
(* for.  What follows about functions and open ifs is about pictures; what *)
(* values, selects and shared arrays are behind one does not matter there. *)
(***************************************************************************)
Worlds(g, array) == [n \in DOMAIN array |-> Chosen(g, array[n])]
Box(g, k) ==
  [next |-> k.next, branch |-> k.branch, dead |-> k.dead,
   when |-> IF k.cond = None THEN {} ELSE Carried(MadeBy(g), g.values)[k.cond],
   view |-> Worlds(g, g.array[k.bindings.at])]
Picture(g) == [b \in DOMAIN g.block |-> Box(g, g.block[b])]

\* The blocks that an open if will come back to, and those of a function that
\* something may still be linked to.
Held(i) == {i.block, i.t} \ {None}
OpenIn(f, c) == {f.ret, c} \cup UNION {Held(f.ifs[j]) : j \in DOMAIN f.ifs}
\* Where the function k of the stack fr is, and the worlds that are there.
CurOf(fr, cu, k) == IF k = Len(fr) THEN cu ELSE fr[k + 1].target.block
PathOf(fr, pa, k) == IF k = Len(fr) THEN pa ELSE fr[k + 1].here
\* The worlds that wait for the end of an if, or for its else.
Aside(i) == IF i.kind = "then" THEN i.start ELSE i.end
Linked(p, fr, b) == (\E k \in DOMAIN fr : b = fr[k].start) \/ \E c \in DOMAIN p : b \in {p[c].next, p[c].branch}
Agrees(view, store, names, w) == \A n \in names : n \in DOMAIN view /\ view[n] \cap w = store[n] \cap w
Idle(x) == x.next = None /\ x.branch = None /\ ~x.dead

\* What holds of a function f on the stack that is at block c in worlds w; at
\* has the worlds in which the code enters each block.
IdsOK(p, f, c) ==
  /\ f.start \in 1 .. Len(p) /\ f.ret = f.start + 1 /\ f.ret <= Len(p)
  /\ c \in f.start .. Len(p) /\ c # f.ret
\* Ifs that are open are nested: their blocks come in that order.
ChainOK(f, c) ==
  \A j \in DOMAIN f.ifs :
    LET i == f.ifs[j]
    IN /\ i.kind = "const" => i.block = None /\ i.t = None
       /\ i.kind = "then" => i.block # None /\ i.t = None
       /\ i.kind = "else" => i.block # None /\ i.block < i.t
       /\ \A x \in Held(i) : f.start <= x /\ x < c /\ x # f.ret
       /\ \A l \in DOMAIN f.ifs : j < l => \A x \in Held(i), y \in Held(f.ifs[l]) : x < y
       /\ i.names \subseteq DOMAIN f.store
       /\ \A l \in DOMAIN f.ifs : j < l => i.names \subseteq f.ifs[l].names
\* The block it ends in is entered in all worlds that called it.
EndOK(p, at, f) == Idle(p[f.ret]) /\ DOMAIN p[f.ret].view = {} /\ at[f.ret] = f.here /\ f.here \subseteq at[f.start]
\* Names have the values of the variables, in the worlds that are here.
CurOK(p, at, f, c, w) ==
  IF p[c].dead THEN w = {}
  ELSE Idle(p[c]) /\ at[c] \subseteq w /\ Agrees(p[c].view, f.store, DOMAIN f.store, w)
\* So they have at the blocks an open if comes back to, in the worlds that wait.
IfOK(p, at, f, i) ==
  /\ i.kind # "const" => p[i.block].branch # None /\ ~p[i.block].dead
  /\ i.kind = "then" => /\ p[i.block].next = None
                        /\ at[i.block] \ p[i.block].when \subseteq i.start
                        /\ Agrees(p[i.block].view, f.store, i.names, i.start)
  /\ i.kind = "else" => p[i.block].next # None
  /\ i.kind = "else" => IF p[i.t].dead THEN i.end = {}
                        ELSE Idle(p[i.t]) /\ at[i.t] \subseteq i.end /\ Agrees(p[i.t].view, f.store, i.names, i.end)
  /\ i.kind = "const" => i.end = {}
\* The condition of an if tells the worlds of its branches from each other, so
\* that a phi with it takes the value of the right branch.
SideOK(p, i, w) ==
  /\ i.kind = "then" => w \subseteq p[i.block].when /\ i.start \cap p[i.block].when = {}
  /\ i.kind = "else" => w \cap p[i.block].when = {} /\ i.end \subseteq p[i.block].when
SidesOK(p, f, w) ==
  \A j \in DOMAIN f.ifs :
    /\ SideOK(p, f.ifs[j], w)
    /\ \A l \in DOMAIN f.ifs : j < l => SideOK(p, f.ifs[j], Aside(f.ifs[l]))
\* The worlds ws have neither come to this point nor do they wait.
ApartOK(f, w, ws) == w \cap ws = {} /\ \A j \in DOMAIN f.ifs : Aside(f.ifs[j]) \cap ws = {}
HereOK(f, w) == w \subseteq f.here /\ \A j \in DOMAIN f.ifs : Aside(f.ifs[j]) \subseteq f.here
\* A block that returns has the result bound, in the worlds that enter it, and
\* these have left the function.
ReturnedOK(p, at, f, w) ==
  \A b \in DOMAIN p :
    /\ p[b].branch # f.ret
    /\ p[b].next = f.ret =>
         /\ p[b].dead /\ p[b].branch = None
         /\ Ret \in DOMAIN p[b].view /\ p[b].view[Ret] \cap at[b] = f.result \cap at[b]
         /\ ApartOK(f, w, at[b])
FrameOK(p, at, f, c, w) ==
  /\ IdsOK(p, f, c) /\ ChainOK(f, c) /\ EndOK(p, at, f) /\ CurOK(p, at, f, c, w)
  /\ \A j \in DOMAIN f.ifs : IfOK(p, at, f, f.ifs[j])
  /\ SidesOK(p, f, w) /\ HereOK(f, w) /\ ApartOK(f, w, f.result) /\ ReturnedOK(p, at, f, w)

\* Of all blocks: worlds flow along the edges, a branch takes those in which
\* the condition holds.
FlowOK(p, at) ==
  \A b \in DOMAIN p :
    /\ p[b].next \in 0 .. Len(p) /\ p[b].branch \in 0 .. Len(p)
    /\ p[b].branch = None => p[b].when = {}
    /\ p[b].branch # None => at[b] \cap p[b].when \subseteq at[p[b].branch]
    /\ p[b].next # None => at[b] \ p[b].when \subseteq at[p[b].next]
\* No edge leaves a function.
ClosedOK(p, fr) ==
  \A k \in DOMAIN fr : \A b \in DOMAIN p : b >= fr[k].start =>
    /\ p[b].next # None => p[b].next >= fr[k].start
    /\ p[b].branch # None => p[b].branch >= fr[k].start
\* A block that leads nowhere is one that something will be linked to.
LinksOK(p, fr, cu) ==
  \A b \in DOMAIN p : Linked(p, fr, b) =>
    /\ p[b].dead => p[b].next # None
    /\ p[b].next = None => \E k \in DOMAIN fr : b \in OpenIn(fr[k], CurOf(fr, cu, k))
\* The caller waits in the block before that of the function it has called.
StackOK(p, at, fr, cu) ==
  /\ fr # <<>> /\ fr[1].start = 1 /\ fr[1].here = World
  /\ \A k \in DOMAIN fr : k > 1 =>
       /\ fr[k].caller = fr[k].start - 1
       /\ fr[k].target \in [name : Targets, block : Nat]
       /\ \A l \in DOMAIN fr : l < k => fr[l].ret < fr[k].caller
       /\ fr[k].target.block < fr[k].caller
       /\ Idle(p[fr[k].caller]) /\ at[fr[k].caller] = fr[k].here
       /\ ~p[fr[k].target.block].dead
Sound(p, at, fr, cu, pa) ==
  /\ FlowOK(p, at) /\ ClosedOK(p, fr) /\ LinksOK(p, fr, cu) /\ StackOK(p, at, fr, cu)
  /\ \A k \in DOMAIN fr : FrameOK(p, at, fr[k], CurOf(fr, cu, k), PathOf(fr, pa, k))

(***************************************************************************)
(* Induction, and functions defined by recursion, for sets: a definition   *)
(* is not an argument of a theorem the provers can use, a set is.          *)
(***************************************************************************)

\* A set of naturals that is not empty has a least element.
LEMMA Least ==
  ASSUME NEW T \in SUBSET Nat, T # {}
  PROVE  \E m \in T : \A k \in T : m <= k
<1> DEFINE Less == {s \in Nat \X Nat : s[1] < s[2]}
<1>1. IsWellFoundedOn(Less, Nat)
  BY NatLessThanWellFounded DEF OpToRel
<1> HIDE DEF Less
<1>2. PICK m \in T : \A k \in T : ~ (<<k, m>> \in Less)
  BY <1>1, WFMin
<1>3. ASSUME NEW k \in T PROVE m <= k
  <2>1. ~ (<<k, m>> \in Less)
    BY <1>2
  <2>2. k < m => <<k, m>> \in Less
    BY DEF Less
  <2>3. QED
    BY <2>1, <2>2
<1>4. QED
  BY <1>3

\* Induction up to m, for a set: what is not in it would have a least element.
LEMMA Induction ==
  ASSUME NEW m \in Nat, NEW S, 0 \in S, \A k \in 0 .. m - 1 : k \in S => k + 1 \in S
  PROVE  0 .. m \subseteq S
<1> DEFINE T == (0 .. m) \ S
<1>1. SUFFICES ASSUME T # {} PROVE FALSE
  OBVIOUS
<1>2. T \in SUBSET Nat
  OBVIOUS
<1>3. PICK t \in T : \A k \in T : t <= k
  BY <1>1, <1>2, Least
<1>4. t - 1 \in 0 .. m - 1
  OBVIOUS
<1>5. t - 1 \in S
  BY <1>3, <1>4
<1>6. t = (t - 1) + 1
  BY <1>4
<1>7. QED
  BY <1>4, <1>5, <1>6

\* Induction over all the values below one.
LEMMA CompleteInduction ==
  ASSUME NEW n \in Nat, NEW S, \A k \in 1 .. n : (\A j \in 1 .. k - 1 : j \in S) => k \in S
  PROVE  \A k \in 1 .. n : k \in S
<1> DEFINE T == {k \in 1 .. n : k \notin S}
<1>1. SUFFICES ASSUME T # {} PROVE FALSE
  OBVIOUS
<1>2. PICK m \in T : \A k \in T : m <= k
  <2>1. T \in SUBSET Nat
    OBVIOUS
  <2>2. QED
    BY <1>1, <2>1, Least
<1>3. \A j \in 1 .. m - 1 : j \in S
  BY <1>2
<1>4. QED
  BY <1>2, <1>3

\* A recursive definition of a function on 1 .. n, whose step is G, has a
\* solution when each of its values depends on earlier ones only.
Causal(n, V, G) ==
  /\ V # {} /\ G \in [1 .. n -> [[1 .. n -> V] -> V]]
  /\ \A k \in 1 .. n : \A e, f \in [1 .. n -> V] : (\A j \in 1 .. k - 1 : e[j] = f[j]) => G[k][e] = G[k][f]
Solved(n, V, G) == \E f \in [1 .. n -> V] : \A k \in 1 .. n : f[k] = G[k][f]

\* A causal step has a solution: the solutions up to m are extended one value at a time.
LEMMA Recursion ==
  ASSUME NEW n \in Nat, NEW V, NEW G, Causal(n, V, G)
  PROVE  Solved(n, V, G)
<1> USE DEF Causal
<1> DEFINE Solves(f, m) == \A k \in 1 .. m : f[k] = G[k][f]
           S == {m \in 0 .. n : \E f \in [1 .. n -> V] : Solves(f, m)}
<1>1. 0 \in S
  <2>1. PICK v \in V : TRUE
    OBVIOUS
  <2> DEFINE e == [k \in 1 .. n |-> v]
  <2>2. e \in [1 .. n -> V]
    OBVIOUS
  <2> HIDE DEF e
  <2>3. Solves(e, 0)
    OBVIOUS
  <2>4. QED
    BY <2>2, <2>3
<1>2. ASSUME NEW m \in 0 .. n - 1, m \in S PROVE m + 1 \in S
  <2>1. PICK e \in [1 .. n -> V] : Solves(e, m)
    BY <1>2
  <2>2. m + 1 \in 1 .. n /\ G[m + 1][e] \in V
    OBVIOUS
  <2> DEFINE f == [e EXCEPT ![m + 1] = G[m + 1][e]]
  <2>3. f \in [1 .. n -> V]
    BY <2>2
  <2>4. \A j \in 1 .. n : f[j] = IF j = m + 1 THEN G[m + 1][e] ELSE e[j]
    OBVIOUS
  <2> HIDE DEF f
  <2>5. ASSUME NEW k \in 1 .. m + 1 PROVE f[k] = G[k][f]
    <3>1. k \in 1 .. n /\ \A j \in 1 .. k - 1 : e[j] = f[j]
      BY <2>4
    <3>2. G[k][e] = G[k][f]
      BY <3>1, <2>3
    <3>3. f[k] = G[k][e]
      BY <2>1, <2>4, <3>1
    <3>4. QED
      BY <3>2, <3>3
  <2>6. QED
    BY <2>3, <2>5
<1>3. n \in S
  <2> HIDE DEF S
  <2>1. 0 .. n \subseteq S
    BY <1>1, <1>2, Induction
  <2>2. n \in 0 .. n
    OBVIOUS
  <2>3. QED
    BY <2>1, <2>2
<1>4. PICK f \in [1 .. n -> V] : Solves(f, n)
  BY <1>3
<1>5. QED
  BY <1>4 DEF Solved

(***************************************************************************)
(* What values, selects and bounds mean: the recursive definitions of      *)
(* Programs have solutions.                                                *)
(***************************************************************************)

WellMade(is, n) ==
  \A i \in is : i \in Instructions /\ (i.out # None =>
    /\ Len(i.in) = IF i.op = "mov" THEN 1 ELSE 3
    /\ \A k \in DOMAIN i.in : i.in[k] \in 1 .. n /\ i.in[k] < i.out)
WorldSets(n) == [1 .. n -> SUBSET World]

\* An instruction carries a set of worlds, and only the values before its output count.
LEMMA ComputedIs ==
  ASSUME NEW n \in Nat, NEW is, WellMade(is, n), NEW i \in is, i.out # None, NEW c
  PROVE  /\ (\A j \in 1 .. i.out - 1 : j <= n => c[j] \in SUBSET World) => Computed(i, c) \in SUBSET World
         /\ \A e : (\A j \in 1 .. i.out - 1 : j <= n => c[j] = e[j]) => Computed(i, c) = Computed(i, e)
<1>1. i \in Instructions /\ Len(i.in) = (IF i.op = "mov" THEN 1 ELSE 3)
  BY DEF WellMade
<1>2. i.in \in Seq(Nat) /\ i.out \in Nat
  BY <1>1 DEF Instructions
<1>3. DOMAIN i.in = 1 .. Len(i.in)
  BY <1>2
<1>4. 1 \in DOMAIN i.in /\ (i.op # "mov" => 2 \in DOMAIN i.in /\ 3 \in DOMAIN i.in)
  BY <1>1, <1>3
<1>5. \A k \in DOMAIN i.in : i.in[k] \in 1 .. n /\ i.in[k] < i.out
  BY DEF WellMade
<1>6. \A k \in DOMAIN i.in : i.in[k] \in 1 .. i.out - 1 /\ i.in[k] <= n
  BY <1>5, <1>2
<1>7. ASSUME \A j \in 1 .. i.out - 1 : j <= n => c[j] \in SUBSET World PROVE Computed(i, c) \in SUBSET World
  <2>1. \A k \in DOMAIN i.in : c[i.in[k]] \in SUBSET World
    BY <1>6, <1>7
  <2>2. QED
    BY <1>4, <2>1 DEF Computed, Choice
<1>8. ASSUME NEW e, \A j \in 1 .. i.out - 1 : j <= n => c[j] = e[j] PROVE Computed(i, c) = Computed(i, e)
  <2>1. \A k \in DOMAIN i.in : c[i.in[k]] = e[i.in[k]]
    BY <1>6, <1>8
  <2>2. QED
    BY <2>1, <1>4 DEF Computed
<1>9. QED
  BY <1>7, <1>8

\* So it is with any value: a constant, an argument or the output of an instruction.
LEMMA CarriedByIs ==
  ASSUME NEW n \in Nat, NEW is, WellMade(is, n), NEW v \in 1 .. n, NEW c
  PROVE  /\ (\A j \in 1 .. v - 1 : c[j] \in SUBSET World) => CarriedBy(is, c, v) \in SUBSET World
         /\ \A e : (\A j \in 1 .. v - 1 : c[j] = e[j]) => CarriedBy(is, c, v) = CarriedBy(is, e, v)
<1>1. CASE \E i \in is : i.out = v
  <2> DEFINE i == CHOOSE i \in is : i.out = v
  <2>1. i \in is /\ i.out = v
    BY <1>1
  <2>2. \A e : CarriedBy(is, e, v) = IF v = True THEN World ELSE IF v = False THEN {}
                ELSE IF v <= Arg(Len(Args)) THEN {w \in World : v - Arg(0) \in w} ELSE Computed(i, e)
    BY <1>1 DEF CarriedBy
  <2> HIDE DEF i
  <2>3. i.out # None
    BY <2>1 DEF None
  <2>4. /\ (\A j \in 1 .. i.out - 1 : j <= n => c[j] \in SUBSET World) => Computed(i, c) \in SUBSET World
        /\ \A e : (\A j \in 1 .. i.out - 1 : j <= n => c[j] = e[j]) => Computed(i, c) = Computed(i, e)
    BY <2>1, <2>3, ComputedIs
  <2>5. QED
    BY <2>1, <2>2, <2>4
<1>2. CASE ~ \E i \in is : i.out = v
  BY <1>2 DEF CarriedBy
<1>3. QED
  BY <1>1, <1>2

\* Carried is a solution of its recursive definition: an instruction reads earlier values.
LEMMA CarriedEquation ==
  ASSUME NEW n \in Nat, NEW is, WellMade(is, n)
  PROVE  /\ Carried(is, n) \in WorldSets(n)
         /\ \A v \in 1 .. n : Carried(is, n)[v] = CarriedBy(is, Carried(is, n), v)
<1> DEFINE G == [v \in 1 .. n |-> [c \in [1 .. n -> SUBSET World] |-> CarriedBy(is, c, v)]]
<1>1. G \in [1 .. n -> [[1 .. n -> SUBSET World] -> SUBSET World]]
  BY CarriedByIs
<1>2. \A k \in 1 .. n : \A e, f \in [1 .. n -> SUBSET World] :
        (\A j \in 1 .. k - 1 : e[j] = f[j]) => G[k][e] = G[k][f]
  BY CarriedByIs
<1>3. \A k \in 1 .. n : \A e \in [1 .. n -> SUBSET World] : G[k][e] = CarriedBy(is, e, k)
  OBVIOUS
<1> HIDE DEF G
<1>4. Solved(n, SUBSET World, G)
  <2>1. Causal(n, SUBSET World, G)
    BY <1>1, <1>2 DEF Causal
  <2>2. QED
    BY <2>1, Recursion
<1>5. PICK f \in [1 .. n -> SUBSET World] : \A k \in 1 .. n : f[k] = CarriedBy(is, f, k)
  BY <1>4, <1>3 DEF Solved
<1>6. f = [v \in 1 .. n |-> CarriedBy(is, f, v)]
  BY <1>5
<1> DEFINE c == CHOOSE c : c = [v \in 1 .. n |-> CarriedBy(is, c, v)]
<1>7. c = [v \in 1 .. n |-> CarriedBy(is, c, v)]
  BY <1>6
<1>8. Carried(is, n) = c
  BY DEF Carried
<1> HIDE DEF c
<1>9. \A v \in 1 .. n : c[v] = CarriedBy(is, c, v)
  BY <1>7
<1> DEFINE S == {v \in 1 .. n : c[v] \in SUBSET World}
<1>10. \A v \in 1 .. n : v \in S
  <2>1. ASSUME NEW k \in 1 .. n, \A j \in 1 .. k - 1 : j \in S PROVE k \in S
    BY <1>9, <2>1, CarriedByIs
  <2> HIDE DEF S
  <2>2. QED
    BY <2>1, CompleteInduction
<1>11. c \in [1 .. n -> SUBSET World]
  BY <1>7, <1>10
<1>12. QED
  BY <1>8, <1>9, <1>11 DEF WorldSets

Car(g) == Carried(MadeBy(g), g.values)

\* The parts of a generator's record.
LEMMA TypedFields ==
  ASSUME NEW g, Typed(g)
  PROVE  /\ g.values \in Nat /\ g.values >= Arg(Len(Args) + 1) /\ g.panic \in BOOLEAN
         /\ g.select \in Seq(Selects) /\ DOMAIN g.select = 1 .. Len(g.select) /\ Len(g.select) \in Nat
         /\ g.array \in Seq(Arrays) /\ DOMAIN g.array = 1 .. Len(g.array) /\ Len(g.array) \in Nat
         /\ g.block \in Seq(Blocks) /\ DOMAIN g.block = 1 .. Len(g.block) /\ Len(g.block) \in Nat
         /\ \A s \in DOMAIN g.select : g.select[s] \in Selects
         /\ \A a \in DOMAIN g.array : g.array[a] \in Arrays
         /\ \A b \in DOMAIN g.block : g.block[b] \in Blocks
         /\ g = [block |-> g.block, array |-> g.array, select |-> g.select, values |-> g.values, panic |-> g.panic]
BY DEF Typed, Gens

\* The parts of a block.
LEMMA BlockFields ==
  ASSUME NEW k \in Blocks
  PROVE  /\ k.bindings \in Handles /\ k.bindings.shared \in BOOLEAN /\ k.bindings.at \in Nat
         /\ k.instr \in Seq(Instructions) /\ DOMAIN k.instr = 1 .. Len(k.instr) /\ Len(k.instr) \in Nat
         /\ \A l \in DOMAIN k.instr : k.instr[l] \in Instructions
         /\ k.next \in Nat /\ k.branch \in Nat /\ k.cond \in Nat /\ k.dead \in BOOLEAN
         /\ k = [bindings |-> k.bindings, instr |-> k.instr, next |-> k.next, branch |-> k.branch, cond |-> k.cond, dead |-> k.dead]
BY DEF Blocks, Handles

\* The parts of an instruction.
LEMMA InstructionFields ==
  ASSUME NEW i \in Instructions
  PROVE  /\ i.op \in {"mov", "phi", "ret"} /\ i.in \in Seq(Nat) /\ i.out \in Nat
         /\ DOMAIN i.in = 1 .. Len(i.in) /\ Len(i.in) \in Nat
         /\ \A k \in DOMAIN i.in : i.in[k] \in Nat
BY DEF Instructions

\* The parts of a select.
LEMMA SelectFields ==
  ASSUME NEW x \in Selects
  PROVE  /\ x.cond \in Nat /\ x.resolved \in Nat /\ x.t \in Bounds /\ x.f \in Bounds
         /\ x.t.select \in BOOLEAN /\ x.t.at \in Nat /\ x.f.select \in BOOLEAN /\ x.f.at \in Nat
         /\ x = [cond |-> x.cond, t |-> x.t, f |-> x.f, resolved |-> x.resolved]
BY DEF Selects, Bounds

\* The instructions of the blocks.
LEMMA MadeIs ==
  ASSUME NEW g, Typed(g)
  PROVE  /\ \A i \in MadeBy(g) : \E b \in DOMAIN g.block : \E k \in DOMAIN g.block[b].instr : i = g.block[b].instr[k]
         /\ \A b \in DOMAIN g.block : \A k \in DOMAIN g.block[b].instr : g.block[b].instr[k] \in MadeBy(g)
BY DEF MadeBy, Range

\* All instructions of a generator read values numbered before their own (Generator.NewVal counts up).
LEMMA MadeWell ==
  ASSUME NEW g, Typed(g)
  PROVE  WellMade(MadeBy(g), g.values)
<1> SUFFICES ASSUME NEW i \in MadeBy(g)
             PROVE  i \in Instructions /\ (i.out # None =>
                      /\ Len(i.in) = IF i.op = "mov" THEN 1 ELSE 3
                      /\ \A k \in DOMAIN i.in : i.in[k] \in 1 .. g.values /\ i.in[k] < i.out)
  BY DEF WellMade
<1>1. PICK b \in DOMAIN g.block : \E k \in DOMAIN g.block[b].instr : i = g.block[b].instr[k]
  BY MadeIs
<1>2. PICK k \in DOMAIN g.block[b].instr : i = g.block[b].instr[k]
  BY <1>1
<1>3. i \in Instructions
  BY <1>2, TypedFields, BlockFields
<1>4. InstrOK(g, i)
  BY <1>2 DEF Typed, BlocksOK
<1>5. QED
  BY <1>3, <1>4 DEF InstrOK

\* What a generator's values carry obeys the recursive definition.
LEMMA CarIs ==
  ASSUME NEW g, Typed(g)
  PROVE  /\ \A v \in 1 .. g.values : Car(g)[v] \in SUBSET World
         /\ \A v \in 1 .. g.values : Car(g)[v] = CarriedBy(MadeBy(g), Car(g), v)
BY MadeWell, TypedFields, CarriedEquation DEF Car, WorldSets

\* A select chooses from values, or from selects that were made before it (Bindings.Merge).
LEMMA SelectIs ==
  ASSUME NEW g, Typed(g), NEW s \in DOMAIN g.select
  PROVE  LET x == g.select[s]
         IN /\ x.cond \in 1 .. g.values /\ x.resolved \in 0 .. g.values
            /\ x.t \in Bounds /\ x.f \in Bounds /\ x.t.select \in BOOLEAN /\ x.f.select \in BOOLEAN
            /\ Within(g, x.t) /\ IF x.t.select THEN x.t.at \in 1 .. s - 1 ELSE x.t.at \in 1 .. g.values
            /\ Within(g, x.f) /\ IF x.f.select THEN x.f.at \in 1 .. s - 1 ELSE x.f.at \in 1 .. g.values
<1> DEFINE x == g.select[s]
<1>1. x \in Selects /\ s \in Nat /\ DOMAIN g.select = 1 .. Len(g.select)
  BY TypedFields
<1>2. /\ x.cond \in 1 .. g.values /\ x.resolved \in 0 .. g.values
      /\ Within(g, x.t) /\ (x.t.select => x.t.at < s)
      /\ Within(g, x.f) /\ (x.f.select => x.f.at < s)
  BY DEF Typed, SelectsOK
<1>3. /\ x.t \in Bounds /\ x.t.select \in BOOLEAN /\ x.t.at \in Nat
      /\ x.f \in Bounds /\ x.f.select \in BOOLEAN /\ x.f.at \in Nat
  BY <1>1, SelectFields
<1> HIDE DEF x
<1>4. /\ IF x.t.select THEN x.t.at \in 1 .. s - 1 ELSE x.t.at \in 1 .. g.values
      /\ IF x.f.select THEN x.f.at \in 1 .. s - 1 ELSE x.f.at \in 1 .. g.values
  BY <1>1, <1>2, <1>3 DEF Within
<1>5. QED
  BY <1>2, <1>3, <1>4 DEF x

\* The meaning of a select needs those of the selects before it only.
LEMMA SelectedByIs ==
  ASSUME NEW g, Typed(g), NEW s \in DOMAIN g.select, NEW c
  PROVE  /\ (\A j \in 1 .. s - 1 : c[j] \in SUBSET World) => SelectedBy(g.select[s], Car(g), c) \in SUBSET World
         /\ \A e : (\A j \in 1 .. s - 1 : c[j] = e[j]) => SelectedBy(g.select[s], Car(g), c) = SelectedBy(g.select[s], Car(g), e)
<1> DEFINE x == g.select[s]
<1>2. x.cond \in 1 .. g.values
  BY SelectIs
<1>4. /\ IF x.t.select THEN x.t.at \in 1 .. s - 1 ELSE x.t.at \in 1 .. g.values
      /\ IF x.f.select THEN x.f.at \in 1 .. s - 1 ELSE x.f.at \in 1 .. g.values
  BY SelectIs
<1> HIDE DEF x
<1>5. ASSUME \A j \in 1 .. s - 1 : c[j] \in SUBSET World PROVE SelectedBy(x, Car(g), c) \in SUBSET World
  BY <1>2, <1>4, <1>5, CarIs DEF SelectedBy, WorldsOf, Choice
<1>6. ASSUME NEW e, \A j \in 1 .. s - 1 : c[j] = e[j] PROVE SelectedBy(x, Car(g), c) = SelectedBy(x, Car(g), e)
  BY <1>4, <1>6 DEF SelectedBy, WorldsOf
<1>7. QED
  BY <1>5, <1>6 DEF x

\* SelectsOf is a solution of its recursive definition.
LEMMA SelectsEquation ==
  ASSUME NEW g, Typed(g)
  PROVE  \A s \in DOMAIN g.select :
           SelectsOf(g)[s] \in SUBSET World /\ SelectsOf(g)[s] = SelectedBy(g.select[s], Car(g), SelectsOf(g))
<1> DEFINE n == Len(g.select)
           G == [s \in 1 .. n |-> [c \in [1 .. n -> SUBSET World] |-> SelectedBy(g.select[s], Car(g), c)]]
<1>1. n \in Nat /\ DOMAIN g.select = 1 .. n
  BY TypedFields
<1> HIDE DEF n
<1>2. G \in [1 .. n -> [[1 .. n -> SUBSET World] -> SUBSET World]]
  BY <1>1, SelectedByIs
<1>3. \A k \in 1 .. n : \A e, f \in [1 .. n -> SUBSET World] :
        (\A j \in 1 .. k - 1 : e[j] = f[j]) => G[k][e] = G[k][f]
  BY <1>1, SelectedByIs
<1>4. \A k \in 1 .. n : \A e \in [1 .. n -> SUBSET World] : G[k][e] = SelectedBy(g.select[k], Car(g), e)
  OBVIOUS
<1> HIDE DEF G
<1>5. Solved(n, SUBSET World, G)
  <2>1. Causal(n, SUBSET World, G)
    BY <1>2, <1>3 DEF Causal
  <2>2. QED
    BY <2>1, <1>1, Recursion
<1>6. PICK f \in [1 .. n -> SUBSET World] : \A k \in 1 .. n : f[k] = SelectedBy(g.select[k], Car(g), f)
  BY <1>4, <1>5 DEF Solved
<1>7. f = [s \in DOMAIN g.select |-> SelectedBy(g.select[s], Car(g), f)]
  BY <1>1, <1>6
<1> DEFINE c == CHOOSE c : c = [s \in DOMAIN g.select |-> SelectedBy(g.select[s], Car(g), c)]
<1>8. c = [s \in DOMAIN g.select |-> SelectedBy(g.select[s], Car(g), c)]
  BY <1>7
<1>9. SelectsOf(g) = c
  BY DEF SelectsOf, Car
<1> HIDE DEF c
<1>10. \A s \in 1 .. n : c[s] = SelectedBy(g.select[s], Car(g), c)
  BY <1>1, <1>8
<1> DEFINE S == {s \in 1 .. n : c[s] \in SUBSET World}
<1>11. \A s \in 1 .. n : s \in S
  <2>1. ASSUME NEW k \in 1 .. n, \A j \in 1 .. k - 1 : j \in S PROVE k \in S
    <3>1. \A j \in 1 .. k - 1 : c[j] \in SUBSET World
      BY <2>1
    <3>2. SelectedBy(g.select[k], Car(g), c) \in SUBSET World
      BY <1>1, <3>1, SelectedByIs
    <3>3. QED
      BY <1>10, <3>2
  <2> HIDE DEF S
  <2>2. QED
    BY <1>1, <2>1, CompleteInduction
<1>12. QED
  BY <1>1, <1>9, <1>10, <1>11

\* What a bound stands for: the worlds of its value or of its select.
LEMMA ChosenIs ==
  ASSUME NEW g, Typed(g), NEW p, Within(g, p)
  PROVE  Chosen(g, p) \in SUBSET World /\ Chosen(g, p) = IF p.select THEN SelectsOf(g)[p.at] ELSE Car(g)[p.at]
BY SelectsEquation, CarIs DEF Within, Chosen, WorldsOf, Car

\* Equals is a solution of its recursive definition (Select.Equal).
LEMMA EqualsEquation ==
  ASSUME NEW g, Typed(g)
  PROVE  \A s, o \in DOMAIN g.select : Equals(g)[s][o] = EqualsBy(Equals(g), g.select[s], g.select[o])
<1> DEFINE n == Len(g.select)
           V == [1 .. n -> BOOLEAN]
           Row(c, s) == [o \in 1 .. n |-> EqualsBy(c, g.select[s], g.select[o])]
           G == [s \in 1 .. n |-> [c \in [1 .. n -> V] |-> Row(c, s)]]
<1>1. n \in Nat /\ DOMAIN g.select = 1 .. n
  BY TypedFields
<1>2. \A s \in 1 .. n : /\ g.select[s].t.select => g.select[s].t.at \in 1 .. s - 1
                        /\ g.select[s].f.select => g.select[s].f.at \in 1 .. s - 1
  BY <1>1, SelectIs
<1> HIDE DEF n
<1>3. G \in [1 .. n -> [[1 .. n -> V] -> V]]
  <2>1. ASSUME NEW s \in 1 .. n, NEW c \in [1 .. n -> V], NEW o \in 1 .. n
        PROVE  EqualsBy(c, g.select[s], g.select[o]) \in BOOLEAN
    BY DEF EqualsBy
  <2>2. QED
    BY <2>1
<1>4. \A k \in 1 .. n : \A e, f \in [1 .. n -> V] : (\A j \in 1 .. k - 1 : e[j] = f[j]) => G[k][e] = G[k][f]
  <2>1. ASSUME NEW k \in 1 .. n, NEW e \in [1 .. n -> V], NEW f \in [1 .. n -> V],
               \A j \in 1 .. k - 1 : e[j] = f[j], NEW o \in 1 .. n
        PROVE  EqualsBy(e, g.select[k], g.select[o]) = EqualsBy(f, g.select[k], g.select[o])
    BY <1>2, <2>1 DEF EqualsBy, Same
  <2>2. \A k \in 1 .. n : \A e, f \in [1 .. n -> V] : (\A j \in 1 .. k - 1 : e[j] = f[j]) => Row(e, k) = Row(f, k)
    BY <2>1
  <2> HIDE DEF V, Row
  <2>3. QED
    BY <2>2
<1>5. \A k \in 1 .. n : \A e \in [1 .. n -> V] : G[k][e] = Row(e, k)
  OBVIOUS
<1>6. V # {}
  <2>1. [o \in 1 .. n |-> TRUE] \in V
    OBVIOUS
  <2>2. QED
    BY <2>1
<1> HIDE DEF G, V
<1>7. Solved(n, V, G)
  <2>1. Causal(n, V, G)
    BY <1>3, <1>4, <1>6 DEF Causal
  <2>2. QED
    BY <2>1, <1>1, Recursion
<1>8. PICK f \in [1 .. n -> V] : \A k \in 1 .. n : f[k] = Row(f, k)
  BY <1>5, <1>7 DEF Solved
<1>9. f = [s \in DOMAIN g.select |-> [o \in DOMAIN g.select |-> EqualsBy(f, g.select[s], g.select[o])]]
  BY <1>1, <1>8
<1> DEFINE c == CHOOSE c : c = [s \in DOMAIN g.select |-> [o \in DOMAIN g.select |-> EqualsBy(c, g.select[s], g.select[o])]]
<1>10. c = [s \in DOMAIN g.select |-> [o \in DOMAIN g.select |-> EqualsBy(c, g.select[s], g.select[o])]]
  BY <1>9
<1>11. Equals(g) = c
  BY DEF Equals
<1> HIDE DEF c
<1>12. QED
  BY <1>10, <1>11

\* What Equal takes for the same is the same in each world.
LEMMA EqualMeans ==
  ASSUME NEW g, Typed(g), NEW p, Within(g, p), NEW q, Within(g, q), Equal(g, p, q)
  PROVE  Chosen(g, p) = Chosen(g, q)
<1> DEFINE n == Len(g.select)
           S == {s \in 1 .. n : \A o \in 1 .. n : Equals(g)[s][o] => SelectsOf(g)[s] = SelectsOf(g)[o]}
<1>1. n \in Nat /\ DOMAIN g.select = 1 .. n
  BY TypedFields
<1>2. \A s \in 1 .. n :
        /\ g.select[s].t.select => g.select[s].t.at \in 1 .. s - 1
        /\ g.select[s].f.select => g.select[s].f.at \in 1 .. s - 1
        /\ g.select[s].t.select \in BOOLEAN /\ g.select[s].f.select \in BOOLEAN
  BY <1>1, SelectIs
<1> HIDE DEF n
<1>3. \A s \in 1 .. n : s \in S
  <2>1. ASSUME NEW k \in 1 .. n, \A j \in 1 .. k - 1 : j \in S PROVE k \in S
    <3> SUFFICES ASSUME NEW o \in 1 .. n, Equals(g)[k][o] PROVE SelectsOf(g)[k] = SelectsOf(g)[o]
      OBVIOUS
    <3> DEFINE x == g.select[k]
               y == g.select[o]
    <3>1. x.cond = y.cond /\ Same(Equals(g), x.t, y.t) /\ Same(Equals(g), x.f, y.f)
      BY <1>1, EqualsEquation DEF EqualsBy
    <3>2. /\ x.t.select => x.t.at \in 1 .. k - 1
          /\ x.f.select => x.f.at \in 1 .. k - 1
          /\ y.t.select => y.t.at \in 1 .. n
          /\ y.f.select => y.f.at \in 1 .. n
      BY <1>1, <1>2
    <3>3. /\ SelectsOf(g)[k] = SelectedBy(x, Car(g), SelectsOf(g))
          /\ SelectsOf(g)[o] = SelectedBy(y, Car(g), SelectsOf(g))
      BY <1>1, SelectsEquation
    <3> HIDE DEF x, y
    <3>4. WorldsOf(Car(g), SelectsOf(g), x.t) = WorldsOf(Car(g), SelectsOf(g), y.t)
      BY <3>1, <3>2, <2>1 DEF WorldsOf, Same
    <3>5. WorldsOf(Car(g), SelectsOf(g), x.f) = WorldsOf(Car(g), SelectsOf(g), y.f)
      BY <3>1, <3>2, <2>1 DEF WorldsOf, Same
    <3>6. QED
      BY <3>1, <3>3, <3>4, <3>5 DEF SelectedBy
  <2> HIDE DEF S
  <2>2. QED
    BY <1>1, <2>1, CompleteInduction
<1>4. Same(Equals(g), p, q)
  BY DEF Equal
<1>5. QED
  BY <1>1, <1>3, <1>4 DEF Same, Within, Chosen, WorldsOf

(***************************************************************************)
(* A generator only grows, and what it has keeps its meaning.              *)
(***************************************************************************)

\* h has what g has, and carries the same.
Extends(g, h) ==
  /\ g.values <= h.values /\ Len(g.select) <= Len(h.select)
  /\ \A v \in 1 .. g.values : Car(h)[v] = Car(g)[v]
  /\ \A s \in DOMAIN g.select : SelectsOf(h)[s] = SelectsOf(g)[s]
Grows(g, h) ==
  /\ g.values <= h.values /\ Len(g.select) <= Len(h.select)
  /\ MadeBy(g) \subseteq MadeBy(h)
  /\ \A i \in MadeBy(h) : i \in MadeBy(g) \/ i.out = None \/ i.out > g.values
  /\ \A s \in DOMAIN g.select :
       /\ h.select[s].cond = g.select[s].cond
       /\ h.select[s].t = g.select[s].t /\ h.select[s].f = g.select[s].f

\* Two instructions with one output are the same.
LEMMA OnceMade ==
  ASSUME NEW g, Typed(g), Once(g), NEW i \in MadeBy(g), NEW j \in MadeBy(g), i.out = j.out, i.out # None
  PROVE  i = j
<1>1. PICK b \in DOMAIN g.block : \E k \in DOMAIN g.block[b].instr : i = g.block[b].instr[k]
  BY MadeIs
<1>2. PICK c \in DOMAIN g.block : \E l \in DOMAIN g.block[c].instr : j = g.block[c].instr[l]
  BY MadeIs
<1>3. QED
  BY <1>1, <1>2 DEF Once

\* If h has the instructions of g and new ones make new values, h carries what g does.
LEMMA GrowExtends ==
  ASSUME NEW g, Typed(g), NEW h, Typed(h), Once(h), Grows(g, h)
  PROVE  Extends(g, h)
<1>1. g.values \in Nat /\ h.values \in Nat /\ g.values <= h.values
  BY TypedFields DEF Grows
<1> DEFINE S == {v \in 1 .. g.values : Car(h)[v] = Car(g)[v]}
<1>2. ASSUME NEW v \in 1 .. g.values PROVE CarriedBy(MadeBy(h), Car(g), v) = CarriedBy(MadeBy(g), Car(g), v)
  <2>1. v # None /\ v \in Nat
    BY DEF None
  <2>2. \A i \in MadeBy(h) : i.out = v => i \in MadeBy(g)
    BY <1>1, <2>1 DEF Grows
  <2>3. MadeBy(g) \subseteq MadeBy(h)
    BY DEF Grows
  <2>4. CASE \E i \in MadeBy(g) : i.out = v
    <3> DEFINE i == CHOOSE k \in MadeBy(g) : k.out = v
               j == CHOOSE k \in MadeBy(h) : k.out = v
    <3>1. i \in MadeBy(g) /\ i.out = v /\ i \in MadeBy(h)
      BY <2>3, <2>4
    <3>2. j \in MadeBy(h) /\ j.out = v
      BY <3>1
    <3> HIDE DEF i, j
    <3>3. i = j
      BY <3>1, <3>2, <2>1, OnceMade
    <3>4. Computed(i, Car(g)) = Computed(j, Car(g))
      BY <3>3
    <3>5. \E k \in MadeBy(h) : k.out = v
      BY <3>2
    <3>6. QED
      BY <2>4, <3>4, <3>5 DEF CarriedBy, i, j
  <2>5. CASE ~ \E i \in MadeBy(g) : i.out = v
    <3>1. ~ \E i \in MadeBy(h) : i.out = v
      BY <2>2, <2>5
    <3>2. QED
      BY <2>5, <3>1 DEF CarriedBy
  <2>6. QED
    BY <2>4, <2>5
<1>3. \A v \in 1 .. g.values : v \in S
  <2>1. ASSUME NEW k \in 1 .. g.values, \A j \in 1 .. k - 1 : j \in S PROVE k \in S
    <3>1. k \in 1 .. h.values
      BY <1>1
    <3>2. \A j \in 1 .. k - 1 : Car(h)[j] = Car(g)[j]
      BY <2>1
    <3>3. Car(h)[k] = CarriedBy(MadeBy(h), Car(h), k)
      BY <3>1, CarIs
    <3>4. CarriedBy(MadeBy(h), Car(h), k) = CarriedBy(MadeBy(h), Car(g), k)
      BY <1>1, <3>1, <3>2, MadeWell, CarriedByIs
    <3>5. Car(g)[k] = CarriedBy(MadeBy(g), Car(g), k)
      BY CarIs
    <3>6. QED
      BY <3>3, <3>4, <3>5, <1>2
  <2> HIDE DEF S
  <2>2. QED
    BY <1>1, <2>1, CompleteInduction
<1> DEFINE n == Len(g.select)
           T == {s \in 1 .. n : SelectsOf(h)[s] = SelectsOf(g)[s]}
<1>4. n \in Nat /\ DOMAIN g.select = 1 .. n /\ \A s \in 1 .. n : s \in DOMAIN h.select
  BY TypedFields DEF Grows
<1> HIDE DEF n
<1>5. \A s \in 1 .. n : s \in T
  <2>1. ASSUME NEW k \in 1 .. n, \A j \in 1 .. k - 1 : j \in T PROVE k \in T
    <3>1. \A j \in 1 .. k - 1 : SelectsOf(h)[j] = SelectsOf(g)[j]
      BY <2>1
    <3>2. SelectsOf(g)[k] = SelectedBy(g.select[k], Car(g), SelectsOf(g))
      BY <1>4, SelectsEquation
    <3>3. SelectsOf(h)[k] = SelectedBy(h.select[k], Car(h), SelectsOf(h))
      BY <1>4, SelectsEquation
    <3>4. SelectedBy(h.select[k], Car(h), SelectsOf(h)) = SelectedBy(h.select[k], Car(h), SelectsOf(g))
      BY <1>4, <3>1, SelectedByIs
    <3>5. SelectedBy(h.select[k], Car(h), SelectsOf(g)) = SelectedBy(g.select[k], Car(g), SelectsOf(g))
      <4> DEFINE x == g.select[k]
                 y == h.select[k]
      <4>1. y.cond = x.cond /\ y.t = x.t /\ y.f = x.f
        BY <1>4 DEF Grows
      <4>2. /\ x.cond \in 1 .. g.values
            /\ ~x.t.select => x.t.at \in 1 .. g.values
            /\ ~x.f.select => x.f.at \in 1 .. g.values
        BY <1>4, SelectIs
      <4>3. \A v \in 1 .. g.values : Car(h)[v] = Car(g)[v]
        BY <1>3
      <4> HIDE DEF x, y
      <4>4. SelectedBy(y, Car(h), SelectsOf(g)) = SelectedBy(x, Car(g), SelectsOf(g))
        BY <4>1, <4>2, <4>3 DEF SelectedBy, WorldsOf
      <4>5. QED
        BY <4>4 DEF x, y
    <3>6. QED
      BY <3>2, <3>3, <3>4, <3>5
  <2> HIDE DEF T
  <2>2. QED
    BY <1>4, <2>1, CompleteInduction
<1>6. QED
  BY <1>3, <1>4, <1>5 DEF Grows, Extends

\* A bound means the same in what extends a generator.
LEMMA ExtendsWithin ==
  ASSUME NEW g, Typed(g), NEW h, Typed(h), Extends(g, h), NEW p, Within(g, p)
  PROVE  Within(h, p) /\ Chosen(h, p) = Chosen(g, p)
<1>1. Within(h, p)
  BY TypedFields DEF Within, Extends
<1>2. QED
  BY <1>1, ChosenIs DEF Within, Extends

\* A generator extends itself.
LEMMA ExtendsSelf ==
  ASSUME NEW g, Typed(g)
  PROVE  Extends(g, g)
BY TypedFields DEF Extends

\* Extending is transitive.
LEMMA ExtendsBoth ==
  ASSUME NEW g, Typed(g), NEW h, Typed(h), NEW i, Typed(i), Extends(g, h), Extends(h, i)
  PROVE  Extends(g, i)
<1>1. /\ g.values \in Nat /\ h.values \in Nat /\ i.values \in Nat
      /\ Len(g.select) \in Nat /\ Len(h.select) \in Nat /\ Len(i.select) \in Nat
      /\ DOMAIN g.select = 1 .. Len(g.select) /\ DOMAIN h.select = 1 .. Len(h.select)
  BY TypedFields
<1>2. QED
  BY <1>1 DEF Extends

\* What a box shows of its block.
LEMMA BoxIs ==
  ASSUME NEW g, NEW b, NEW p, p = Box(g, g.block[b])
  PROVE  /\ p.next = g.block[b].next /\ p.branch = g.block[b].branch /\ p.dead = g.block[b].dead
         /\ p.when = IF g.block[b].cond = None THEN {} ELSE Car(g)[g.block[b].cond]
         /\ p.view = Worlds(g, Bindings(g, b))
<1>1. p.next = g.block[b].next /\ p.branch = g.block[b].branch
  BY DEF Box
<1>2. p.dead = g.block[b].dead
  BY DEF Box
<1>3. p.when = IF g.block[b].cond = None THEN {} ELSE Car(g)[g.block[b].cond]
  BY DEF Box, Car
<1>4. p.view = Worlds(g, Bindings(g, b))
  BY DEF Box, Bindings
<1>5. QED
  BY <1>1, <1>2, <1>3, <1>4

\* What the picture shows of a block.
LEMMA PictureIs ==
  ASSUME NEW g, Typed(g)
  PROVE  /\ DOMAIN Picture(g) = 1 .. Len(g.block) /\ Len(Picture(g)) = Len(g.block) /\ Len(g.block) \in Nat
         /\ \A b \in 1 .. Len(g.block) :
              /\ Picture(g)[b].next = g.block[b].next /\ Picture(g)[b].branch = g.block[b].branch
              /\ Picture(g)[b].dead = g.block[b].dead
              /\ Picture(g)[b].when = IF g.block[b].cond = None THEN {} ELSE Car(g)[g.block[b].cond]
              /\ DOMAIN Picture(g)[b].view = DOMAIN Bindings(g, b)
              /\ \A n \in DOMAIN Bindings(g, b) : Picture(g)[b].view[n] = Chosen(g, Bindings(g, b)[n])
<1>1. DOMAIN g.block = 1 .. Len(g.block) /\ Len(g.block) \in Nat
  BY TypedFields
<1>2. Picture(g) = [b \in 1 .. Len(g.block) |-> Box(g, g.block[b])]
  BY <1>1 DEF Picture
<1>3. DOMAIN Picture(g) = 1 .. Len(g.block) /\ Len(Picture(g)) = Len(g.block)
  BY <1>1, <1>2
<1>4. \A b \in 1 .. Len(g.block) : Picture(g)[b] = Box(g, g.block[b])
  BY <1>2
<1>5. ASSUME NEW b \in 1 .. Len(g.block)
      PROVE  /\ Picture(g)[b].next = g.block[b].next /\ Picture(g)[b].branch = g.block[b].branch
             /\ Picture(g)[b].dead = g.block[b].dead
             /\ Picture(g)[b].when = IF g.block[b].cond = None THEN {} ELSE Car(g)[g.block[b].cond]
             /\ Picture(g)[b].view = Worlds(g, Bindings(g, b))
  BY <1>4, BoxIs
<1>6. \A array : /\ DOMAIN Worlds(g, array) = DOMAIN array
                  /\ \A n \in DOMAIN array : Worlds(g, array)[n] = Chosen(g, array[n])
  BY DEF Worlds
<1>7. QED
  BY <1>1, <1>3, <1>5, <1>6

Shown(g, b) ==
  /\ Picture(g)[b].next = g.block[b].next /\ Picture(g)[b].branch = g.block[b].branch
  /\ Picture(g)[b].dead = g.block[b].dead
  /\ Picture(g)[b].when = IF g.block[b].cond = None THEN {} ELSE Car(g)[g.block[b].cond]
  /\ Picture(g)[b].view = Worlds(g, Bindings(g, b))

\* What the picture shows of one block.
LEMMA ShownIs ==
  ASSUME NEW g, NEW b \in DOMAIN g.block
  PROVE  Shown(g, b)
<1>1. Picture(g)[b] = Box(g, g.block[b])
  BY DEF Picture
<1>2. QED
  BY <1>1, BoxIs DEF Shown

\* The array of a block's bindings is a finite one of bounds within the generator.
LEMMA BindingsIs ==
  ASSUME NEW g, Typed(g), NEW b \in DOMAIN g.block
  PROVE  /\ Bindings(g, b) \in Arrays /\ IsFiniteSet(DOMAIN Bindings(g, b))
         /\ DOMAIN Bindings(g, b) \subseteq Names
         /\ \A n \in DOMAIN Bindings(g, b) : Bindings(g, b)[n] \in Bounds /\ Within(g, Bindings(g, b)[n])
<1>1. g.block[b].bindings.at \in DOMAIN g.array
  BY DEF Typed, BlocksOK
<1>2. Bindings(g, b) \in Arrays
  BY <1>1, TypedFields DEF Bindings
<1>3. QED
  BY <1>1, <1>2 DEF Bindings, Typed, ArraysOK, Arrays

\* A block with the edges and the names of another has its box.
LEMMA BoxKept ==
  ASSUME NEW g, Typed(g), NEW h, Typed(h), Extends(g, h), NEW b \in DOMAIN g.block, NEW c \in DOMAIN h.block,
         Bindings(h, c) = Bindings(g, b)
  PROVE  /\ Worlds(h, Bindings(h, c)) = Worlds(g, Bindings(g, b))
         /\ h.block[c].next = g.block[b].next /\ h.block[c].branch = g.block[b].branch
            /\ h.block[c].dead = g.block[b].dead /\ h.block[c].cond = g.block[b].cond
            => Picture(h)[c] = Picture(g)[b]
<1>1. \A n \in DOMAIN Bindings(g, b) : Chosen(h, Bindings(g, b)[n]) = Chosen(g, Bindings(g, b)[n])
  BY BindingsIs, ExtendsWithin
<1>2. Worlds(h, Bindings(h, c)) = Worlds(g, Bindings(g, b))
  BY <1>1 DEF Worlds
<1>3. ASSUME h.block[c].cond = g.block[b].cond, g.block[b].cond # None
      PROVE  Car(h)[h.block[c].cond] = Car(g)[g.block[b].cond]
  <2>1. g.block[b].cond \in 0 .. g.values /\ g.values \in Nat
    BY TypedFields DEF Typed, BlocksOK
  <2>2. g.block[b].cond \in 1 .. g.values
    BY <1>3, <2>1 DEF None
  <2>3. QED
    BY <1>3, <2>2 DEF Extends
<1>4. QED
  BY <1>2, <1>3, Zenon DEF Picture, Box, Bindings, Car

(***************************************************************************)
(* One block is changed.                                                   *)
(***************************************************************************)

\* h is g with other fields of the block b, and with instructions new in it.
Edits(g, h, b, new) ==
  /\ h \in Gens /\ h.array = g.array /\ Len(h.block) = Len(g.block)
  /\ \A c \in DOMAIN g.block : c # b => h.block[c] = g.block[c]
  /\ h.block[b].bindings.at = g.block[b].bindings.at
  /\ g.block[b].bindings.shared => h.block[b].bindings.shared
  /\ new \in Seq(Instructions) /\ h.block[b].instr = g.block[b].instr \o new
  /\ h.block[b].cond \in 0 .. h.values /\ g.values <= h.values
  /\ \A l \in DOMAIN new : InstrOK(h, new[l]) /\ (new[l].out = None \/ new[l].out > g.values)
  /\ \A l, m \in DOMAIN new : new[l].out = new[m].out /\ new[l].out # None => l = m
  /\ Len(h.select) = Len(g.select)
  /\ \A s \in DOMAIN g.select :
       /\ h.select[s].cond = g.select[s].cond /\ h.select[s].t = g.select[s].t /\ h.select[s].f = g.select[s].f
       /\ h.select[s].resolved \in 0 .. h.values

\* What fits a generator fits one with more values and selects.
LEMMA WithinGrows ==
  ASSUME NEW g, Typed(g), NEW h, h \in Gens, g.values <= h.values, Len(g.select) <= Len(h.select)
  PROVE  /\ \A p : Within(g, p) => Within(h, p)
         /\ \A i \in Instructions : InstrOK(g, i) => InstrOK(h, i)
<1>1. /\ h.values \in Nat /\ g.values \in Nat /\ h.select \in Seq(Selects)
      /\ DOMAIN h.select = 1 .. Len(h.select) /\ Len(h.select) \in Nat
      /\ DOMAIN g.select = 1 .. Len(g.select) /\ Len(g.select) \in Nat
  BY TypedFields DEF Gens
<1>2. \A p : Within(g, p) => Within(h, p)
  BY <1>1 DEF Within
<1>3. ASSUME NEW i \in Instructions, InstrOK(g, i) PROVE InstrOK(h, i)
  <2>1. Arg(Len(Args)) + 1 \in Nat /\ i.out \in Nat
    BY ArgsAssumption DEF Arg, Instructions
  <2>2. QED
    BY <2>1, <1>1, <1>3 DEF InstrOK
<1>4. QED
  BY <1>2, <1>3

InstrEdited(g, h, b, new) ==
  \A c \in DOMAIN g.block :
    /\ DOMAIN h.block[c].instr = 1 .. Len(h.block[c].instr) /\ Len(h.block[c].instr) \in Nat
    /\ \A k \in DOMAIN g.block[c].instr : k \in DOMAIN h.block[c].instr /\ h.block[c].instr[k] = g.block[c].instr[k]
    /\ \A k \in DOMAIN h.block[c].instr :
         \/ k \in DOMAIN g.block[c].instr
         \/ /\ c = b /\ k - Len(g.block[b].instr) \in DOMAIN new
            /\ h.block[c].instr[k] = new[k - Len(g.block[b].instr)]

\* The instructions of an edited block are the old ones and the new ones.
LEMMA EditInstr ==
  ASSUME NEW g, Typed(g), NEW h, NEW b \in DOMAIN g.block, NEW new, Edits(g, h, b, new)
  PROVE  InstrEdited(g, h, b, new)
<1> SUFFICES ASSUME NEW c \in DOMAIN g.block
             PROVE
        /\ DOMAIN h.block[c].instr = 1 .. Len(h.block[c].instr) /\ Len(h.block[c].instr) \in Nat
        /\ \A k \in DOMAIN g.block[c].instr : k \in DOMAIN h.block[c].instr /\ h.block[c].instr[k] = g.block[c].instr[k]
        /\ \A k \in DOMAIN h.block[c].instr :
             \/ k \in DOMAIN g.block[c].instr
             \/ /\ c = b /\ k - Len(g.block[b].instr) \in DOMAIN new
                /\ h.block[c].instr[k] = new[k - Len(g.block[b].instr)]
  BY DEF InstrEdited
<1>1. g.block[c].instr \in Seq(Instructions)
  BY TypedFields, BlockFields
<1>2. new \in Seq(Instructions)
  BY DEF Edits
<1>3. h.block[c].instr = IF c = b THEN g.block[c].instr \o new ELSE g.block[c].instr
  BY DEF Edits
<1>4. QED
  BY <1>1, <1>2, <1>3

\* An edited generator is typed.
LEMMA EditTyped ==
  ASSUME NEW g, Typed(g), NEW h, NEW b \in DOMAIN g.block, NEW new, Edits(g, h, b, new)
  PROVE  Typed(h) /\ DOMAIN h.block = DOMAIN g.block /\ DOMAIN h.select = DOMAIN g.select
<1>1. h \in Gens
  BY DEF Edits
<1>2. /\ DOMAIN g.block = 1 .. Len(g.block) /\ DOMAIN g.select = 1 .. Len(g.select)
      /\ g.values \in Nat /\ g.values >= Arg(Len(Args) + 1) /\ Arg(Len(Args) + 1) \in Nat
  BY TypedFields, ArgsAssumption DEF Arg
<1>3. /\ h.block \in Seq(Blocks) /\ DOMAIN h.block = 1 .. Len(h.block) /\ h.select \in Seq(Selects)
      /\ DOMAIN h.select = 1 .. Len(h.select) /\ h.values \in Nat
  BY <1>1 DEF Gens
<1>4. DOMAIN h.block = DOMAIN g.block /\ DOMAIN h.select = DOMAIN g.select
  BY <1>2, <1>3 DEF Edits
<1>5. /\ \A p : Within(g, p) => Within(h, p)
      /\ \A i \in Instructions : InstrOK(g, i) => InstrOK(h, i)
  BY <1>1, WithinGrows DEF Edits
<1>9. InstrEdited(g, h, b, new)
  BY EditInstr
<1>10. \A c \in DOMAIN g.block :
        /\ DOMAIN h.block[c].instr = 1 .. Len(h.block[c].instr) /\ Len(h.block[c].instr) \in Nat
        /\ \A k \in DOMAIN g.block[c].instr : k \in DOMAIN h.block[c].instr /\ h.block[c].instr[k] = g.block[c].instr[k]
        /\ \A k \in DOMAIN h.block[c].instr :
             \/ k \in DOMAIN g.block[c].instr
             \/ /\ c = b /\ k - Len(g.block[b].instr) \in DOMAIN new
                /\ h.block[c].instr[k] = new[k - Len(g.block[b].instr)]
  BY <1>9 DEF InstrEdited
<1>11. \A l \in DOMAIN new : InstrOK(h, new[l])
  BY DEF Edits
<1>6. ArraysOK(h)
  BY <1>5 DEF ArraysOK, Edits, Typed
<1>7. BlocksOK(h)
  <2> SUFFICES ASSUME NEW c \in DOMAIN g.block
               PROVE  /\ h.block[c].bindings.at \in DOMAIN h.array
                      /\ h.block[c].cond \in 0 .. h.values
                      /\ \A k \in DOMAIN h.block[c].instr : InstrOK(h, h.block[c].instr[k])
    BY <1>4 DEF BlocksOK
  <2>1. /\ g.block[c].bindings.at \in DOMAIN g.array /\ g.block[c].cond \in 0 .. g.values
        /\ \A k \in DOMAIN g.block[c].instr : InstrOK(g, g.block[c].instr[k])
    BY DEF Typed, BlocksOK
  <2>2. h.block[c].bindings.at \in DOMAIN h.array
    BY <2>1 DEF Edits
  <2>3. h.block[c].cond \in 0 .. h.values
    <3>1. (c # b => h.block[c] = g.block[c]) /\ h.block[b].cond \in 0 .. h.values /\ g.values <= h.values
      BY DEF Edits
    <3>2. CASE c = b
      BY <3>1, <3>2
    <3>3. CASE c # b
      <4>1. h.block[c].cond = g.block[c].cond
        BY <3>1, <3>3
      <4>2. QED
        BY <1>2, <1>3, <2>1, <3>1, <4>1
    <3>4. QED
      BY <3>2, <3>3
  <2>4. ASSUME NEW k \in DOMAIN h.block[c].instr PROVE InstrOK(h, h.block[c].instr[k])
    <3>1. CASE k \in DOMAIN g.block[c].instr
      <4>1. g.block[c].instr[k] \in Instructions
        BY <3>1, TypedFields, BlockFields
      <4>2. h.block[c].instr[k] = g.block[c].instr[k]
        BY <3>1, <1>10
      <4>3. QED
        BY <2>1, <3>1, <4>1, <4>2, <1>5
    <3>2. CASE k \notin DOMAIN g.block[c].instr
      BY <3>2, <1>10, <1>11
    <3>3. QED
      BY <3>1, <3>2
  <2>5. QED
    BY <2>2, <2>3, <2>4
<1>8. SelectsOK(h)
  <2> SUFFICES ASSUME NEW s \in DOMAIN g.select
               PROVE  LET x == h.select[s]
                      IN /\ x.cond \in 1 .. h.values /\ x.resolved \in 0 .. h.values
                         /\ Within(h, x.t) /\ (x.t.select => x.t.at < s)
                         /\ Within(h, x.f) /\ (x.f.select => x.f.at < s)
    BY <1>4 DEF SelectsOK
  <2>1. LET x == g.select[s]
        IN /\ x.cond \in 1 .. g.values
           /\ Within(g, x.t) /\ (x.t.select => x.t.at < s)
           /\ Within(g, x.f) /\ (x.f.select => x.f.at < s)
    BY DEF Typed, SelectsOK
  <2>2. /\ h.select[s].cond = g.select[s].cond /\ h.select[s].t = g.select[s].t /\ h.select[s].f = g.select[s].f
        /\ h.select[s].resolved \in 0 .. h.values /\ g.values <= h.values
    BY DEF Edits
  <2>3. QED
    BY SMTT(30), <2>1, <2>2, <1>2, <1>3, <1>5
<1>12. QED
  BY <1>1, <1>2, <1>3, <1>4, <1>6, <1>7, <1>8 DEF Typed, Edits

\* An edited generator makes each value once, and extends the one it comes from.
LEMMA EditKeeps ==
  ASSUME NEW g, Typed(g), Once(g), CopyOnWrite(g), NEW h, NEW b \in DOMAIN g.block, NEW new, Edits(g, h, b, new)
  PROVE  Once(h) /\ CopyOnWrite(h) /\ Extends(g, h) /\ \A l \in DOMAIN new : new[l] \in MadeBy(h)
<1>1. Typed(h) /\ DOMAIN h.block = DOMAIN g.block /\ DOMAIN h.select = DOMAIN g.select
  BY EditTyped
<1>2. g.values \in Nat /\ h.values \in Nat
  BY <1>1, TypedFields
<1>3. ASSUME NEW c \in DOMAIN g.block, NEW k \in DOMAIN g.block[c].instr
      PROVE  g.block[c].instr[k].out <= g.values /\ g.block[c].instr[k].out \in Nat
  <2>1. g.block[c].instr[k] \in Instructions /\ InstrOK(g, g.block[c].instr[k])
    BY TypedFields, BlockFields DEF Typed, BlocksOK
  <2>2. QED
    BY <2>1, <1>2 DEF InstrOK, Instructions, None
<1>9. InstrEdited(g, h, b, new)
  BY EditInstr
<1>10. \A c \in DOMAIN g.block :
        /\ DOMAIN h.block[c].instr = 1 .. Len(h.block[c].instr) /\ Len(h.block[c].instr) \in Nat
        /\ \A k \in DOMAIN g.block[c].instr : k \in DOMAIN h.block[c].instr /\ h.block[c].instr[k] = g.block[c].instr[k]
        /\ \A k \in DOMAIN h.block[c].instr :
             \/ k \in DOMAIN g.block[c].instr
             \/ /\ c = b /\ k - Len(g.block[b].instr) \in DOMAIN new
                /\ h.block[c].instr[k] = new[k - Len(g.block[b].instr)]
  BY <1>9 DEF InstrEdited
<1>11. /\ \A l \in DOMAIN new : new[l].out = None \/ new[l].out > g.values
       /\ \A l, m \in DOMAIN new : new[l].out = new[m].out /\ new[l].out # None => l = m
  BY DEF Edits
<1>12. Len(g.block[b].instr) \in Nat
  BY TypedFields, BlockFields
<1>4. Once(h)
  <2> SUFFICES ASSUME NEW c \in DOMAIN g.block, NEW d \in DOMAIN g.block,
                      NEW k \in DOMAIN h.block[c].instr, NEW l \in DOMAIN h.block[d].instr,
                      h.block[c].instr[k].out = h.block[d].instr[l].out, h.block[c].instr[k].out # None
               PROVE  c = d /\ k = l
    BY <1>1 DEF Once
  <2>1. k \in Nat /\ l \in Nat /\ Len(g.block[b].instr) \in Nat
    BY <1>10, <1>12
  <2>2. CASE k \in DOMAIN g.block[c].instr /\ l \in DOMAIN g.block[d].instr
    <3>1. h.block[c].instr[k] = g.block[c].instr[k] /\ h.block[d].instr[l] = g.block[d].instr[l]
      BY <2>2, <1>10
    <3>2. QED
      BY <2>2, <3>1 DEF Once
  <2>3. CASE k \in DOMAIN g.block[c].instr /\ l \notin DOMAIN g.block[d].instr
    <3>1. h.block[c].instr[k] = g.block[c].instr[k] /\ g.block[c].instr[k].out <= g.values
      BY <2>3, <1>3, <1>10
    <3>2. h.block[d].instr[l].out = None \/ h.block[d].instr[l].out > g.values
      BY <2>3, <1>10, <1>11
    <3>3. QED
      BY <3>1, <3>2, <1>2, <1>3, <2>3
  <2>4. CASE k \notin DOMAIN g.block[c].instr /\ l \in DOMAIN g.block[d].instr
    <3>1. h.block[d].instr[l] = g.block[d].instr[l] /\ g.block[d].instr[l].out <= g.values
      BY <2>4, <1>3, <1>10
    <3>2. h.block[c].instr[k].out = None \/ h.block[c].instr[k].out > g.values
      BY SMTT(30), <2>4, <1>10, <1>11
    <3>3. QED
      BY <3>1, <3>2, <1>2, <1>3, <2>4
  <2>5. CASE k \notin DOMAIN g.block[c].instr /\ l \notin DOMAIN g.block[d].instr
    <3> DEFINE n == Len(g.block[b].instr)
    <3>1. c = b /\ d = b /\ k - n \in DOMAIN new /\ l - n \in DOMAIN new
          /\ h.block[c].instr[k] = new[k - n] /\ h.block[d].instr[l] = new[l - n]
      BY <2>5, <1>10
    <3>2. k - n = l - n
      BY <3>1, <1>11
    <3>3. QED
      BY <3>1, <3>2, <2>1, <1>12
  <2>6. QED
    BY <2>2, <2>3, <2>4, <2>5
<1>5. CopyOnWrite(h)
  <2>1. \A c \in DOMAIN g.block : /\ h.block[c].bindings.at = g.block[c].bindings.at
                                  /\ g.block[c].bindings.shared => h.block[c].bindings.shared
    BY DEF Edits
  <2>2. QED
    BY <1>1, <2>1 DEF CopyOnWrite
<1>6. Grows(g, h)
  <2>1. MadeBy(g) \subseteq MadeBy(h)
    <3> SUFFICES ASSUME NEW i \in MadeBy(g) PROVE i \in MadeBy(h)
      OBVIOUS
    <3>1. PICK c \in DOMAIN g.block : \E k \in DOMAIN g.block[c].instr : i = g.block[c].instr[k]
      BY MadeIs
    <3>2. PICK k \in DOMAIN g.block[c].instr : i = g.block[c].instr[k]
      BY <3>1
    <3>3. k \in DOMAIN h.block[c].instr /\ h.block[c].instr[k] = i
      BY <3>2, <1>10
    <3>4. QED
      BY <3>3, <1>1, MadeIs
  <2>2. ASSUME NEW i \in MadeBy(h) PROVE i \in MadeBy(g) \/ i.out = None \/ i.out > g.values
    <3>1. PICK c \in DOMAIN h.block : \E k \in DOMAIN h.block[c].instr : i = h.block[c].instr[k]
      BY <1>1, MadeIs
    <3>2. PICK k \in DOMAIN h.block[c].instr : i = h.block[c].instr[k]
      BY <3>1
    <3>3. c \in DOMAIN g.block
      BY <1>1
    <3>4. CASE k \in DOMAIN g.block[c].instr
      <4>1. g.block[c].instr[k] \in MadeBy(g)
        BY <3>3, <3>4, MadeIs
      <4>2. QED
        BY <4>1, <3>2, <3>3, <3>4, <1>10
    <3>5. CASE k \notin DOMAIN g.block[c].instr
      BY <3>2, <3>3, <3>5, <1>10, <1>11
    <3>6. QED
      BY <3>4, <3>5
  <2>3. g.values <= h.values /\ Len(g.select) <= Len(h.select)
    BY TypedFields DEF Edits
  <2>4. QED
    BY <2>1, <2>2, <2>3 DEF Grows, Edits
<1>7. \A l \in DOMAIN new : new[l] \in MadeBy(h)
  <2> SUFFICES ASSUME NEW l \in DOMAIN new PROVE new[l] \in MadeBy(h)
    OBVIOUS
  <2>1. g.block[b].instr \in Seq(Instructions) /\ new \in Seq(Instructions) /\ h.block[b].instr = g.block[b].instr \o new
    BY TypedFields, BlockFields DEF Edits
  <2> DEFINE k == l + Len(g.block[b].instr)
  <2>2. k \in DOMAIN h.block[b].instr /\ h.block[b].instr[k] = new[l]
    <3> DEFINE o == g.block[b].instr
    <3>1. o \in Seq(Instructions) /\ l \in 1 .. Len(new)
      BY <2>1
    <3> HIDE DEF o
    <3>2. l + Len(o) \in 1 .. Len(o \o new) /\ (o \o new)[l + Len(o)] = new[l]
      BY <3>1, <2>1
    <3>3. DOMAIN (o \o new) = 1 .. Len(o \o new)
      BY <3>1, <2>1
    <3>4. QED
      BY <2>1, <3>2, <3>3 DEF o
  <2> HIDE DEF k
  <2>3. QED
    BY <2>2, <1>1, MadeIs
<1>8. QED
  BY <1>1, <1>4, <1>5, <1>6, <1>7, GrowExtends

\* An edit that adds no select keeps the resolved ones right.
LEMMA EditResolved ==
  ASSUME NEW g, GenOK(g), NEW h, NEW b \in DOMAIN g.block, NEW new, Edits(g, h, b, new), h.select = g.select
  PROVE  GenOK(h)
<1>1. Typed(g) /\ Once(g) /\ CopyOnWrite(g) /\ Resolved(g)
  BY DEF GenOK
<1>2. Typed(h) /\ Once(h) /\ CopyOnWrite(h) /\ Extends(g, h)
  BY <1>1, EditTyped, EditKeeps
<1>3. Resolved(h)
  <2> SUFFICES ASSUME NEW s \in DOMAIN g.select, g.select[s].resolved # None
               PROVE  Car(h)[g.select[s].resolved] = SelectsOf(h)[s]
    BY DEF Resolved, Car
  <2>1. Car(g)[g.select[s].resolved] = SelectsOf(g)[s]
    BY <1>1 DEF Resolved, Car
  <2>2. g.select[s].resolved \in 1 .. g.values
    BY <1>1, TypedFields, SelectIs DEF None
  <2>3. QED
    BY <2>1, <2>2, <1>2 DEF Extends
<1>4. QED
  BY <1>2, <1>3 DEF GenOK

OthersKept(g, h, b) ==
  DOMAIN Picture(h) = DOMAIN Picture(g) /\ \A c \in DOMAIN g.block : c # b => Picture(h)[c] = Picture(g)[c]
SameShape(k, l) == k.next = l.next /\ k.branch = l.branch /\ k.dead = l.dead /\ k.cond = l.cond
PictureEdited(g, h, b) ==
  /\ OthersKept(g, h, b) /\ Picture(h)[b].view = Picture(g)[b].view
  /\ SameShape(h.block[b], g.block[b]) => Picture(h) = Picture(g)

\* An edit of one block leaves the boxes of the others.
LEMMA EditPicture ==
  ASSUME NEW g, Typed(g), Once(g), CopyOnWrite(g), NEW h, NEW b \in DOMAIN g.block, NEW new, Edits(g, h, b, new)
  PROVE  PictureEdited(g, h, b)
<1>1. Typed(h) /\ DOMAIN h.block = DOMAIN g.block /\ Extends(g, h)
  BY EditTyped, EditKeeps
<1>2. DOMAIN Picture(h) = DOMAIN Picture(g) /\ DOMAIN Picture(g) = DOMAIN g.block
  BY <1>1 DEF Picture
<1>3. \A c \in DOMAIN g.block : Bindings(h, c) = Bindings(g, c)
  BY DEF Bindings, Edits
<1>4. ASSUME NEW c \in DOMAIN g.block, c # b PROVE Picture(h)[c] = Picture(g)[c]
  <2>1. h.block[c] = g.block[c]
    BY <1>4 DEF Edits
  <2>2. Bindings(h, c) = Bindings(g, c) /\ c \in DOMAIN h.block
    BY <1>1, <1>3
  <2>3. QED
    BY <1>1, <2>1, <2>2, BoxKept
<1>5. Picture(h)[b].view = Picture(g)[b].view
  <2>1. Shown(h, b) /\ Shown(g, b)
    BY <1>1, ShownIs
  <2>2. Picture(h)[b].view = Worlds(h, Bindings(h, b)) /\ Picture(g)[b].view = Worlds(g, Bindings(g, b))
    BY <2>1 DEF Shown
  <2>3. QED
    BY <2>2, <1>1, <1>3, BoxKept
<1>6. ASSUME SameShape(h.block[b], g.block[b])
      PROVE  Picture(h) = Picture(g)
  <2>1. \A c \in DOMAIN g.block : Picture(h)[c] = Picture(g)[c]
    BY <1>1, <1>3, <1>4, <1>6, BoxKept DEF SameShape
  <2>2. Picture(h) = [c \in DOMAIN g.block |-> Picture(h)[c]] /\ Picture(g) = [c \in DOMAIN g.block |-> Picture(g)[c]]
    BY <1>1 DEF Picture
  <2>3. QED
    BY <2>1, <2>2
<1>7. QED
  BY <1>2, <1>4, <1>5, <1>6 DEF PictureEdited, OthersKept

\* What an instruction makes is what it computes.
LEMMA MadeCarries ==
  ASSUME NEW g, Typed(g), Once(g), NEW i \in MadeBy(g), i.out # None
  PROVE  i.out \in 1 .. g.values /\ Car(g)[i.out] = Computed(i, Car(g))
<1>1. PICK b \in DOMAIN g.block : \E k \in DOMAIN g.block[b].instr : i = g.block[b].instr[k]
  BY MadeIs
<1>2. PICK k \in DOMAIN g.block[b].instr : i = g.block[b].instr[k]
  BY <1>1
<1>3. InstrOK(g, i)
  BY <1>2 DEF Typed, BlocksOK
<1>4. /\ Len(Args) \in Nat /\ g.values \in Nat /\ i.out \in Arg(Len(Args)) + 1 .. g.values
  BY <1>3, TypedFields, ArgsAssumption DEF InstrOK
<1>5. i.out \in 1 .. g.values /\ i.out # True /\ i.out # False /\ ~ i.out <= Arg(Len(Args))
  BY <1>4 DEF Arg, True, False
<1>6. Car(g)[i.out] = CarriedBy(MadeBy(g), Car(g), i.out)
  BY <1>5, CarIs
<1> DEFINE j == CHOOSE j \in MadeBy(g) : j.out = i.out
<1>7. j \in MadeBy(g) /\ j.out = i.out
  OBVIOUS
<1>8. CarriedBy(MadeBy(g), Car(g), i.out) = Computed(j, Car(g))
  BY <1>5 DEF CarriedBy
<1> HIDE DEF j
<1>9. j = i
  BY <1>7, OnceMade
<1>10. QED
  BY <1>5, <1>6, <1>8, <1>9

\* An instruction computes the same in what extends a generator.
LEMMA ComputedKept ==
  ASSUME NEW g, Typed(g), NEW h, Typed(h), Extends(g, h), NEW i \in Instructions,
         Len(i.in) = (IF i.op = "mov" THEN 1 ELSE 3), \A k \in DOMAIN i.in : i.in[k] \in 1 .. g.values
  PROVE  Computed(i, Car(h)) = Computed(i, Car(g))
<1>1. DOMAIN i.in = 1 .. Len(i.in)
  BY InstructionFields
<1>2. \A k \in DOMAIN i.in : Car(h)[i.in[k]] = Car(g)[i.in[k]]
  BY DEF Extends
<1>3. QED
  BY <1>1, <1>2 DEF Computed

\* h is g with k for the block b.
Put(g, b, k, x, q) == [g EXCEPT !.block[b] = k, !.values = x, !.panic = q]
Reshape(g, b, k, q) == [g EXCEPT !.block[b] = k, !.panic = q]
IsPut(g, h, b, k, x, q) ==
  /\ h \in Gens /\ h.array = g.array /\ h.select = g.select /\ h.values = x /\ h.panic = q
  /\ Len(h.block) = Len(g.block) /\ DOMAIN h.block = DOMAIN g.block /\ h.block[b] = k
  /\ \A c \in DOMAIN g.block : c # b => h.block[c] = g.block[c]

\* The parts of a generator one of whose blocks is replaced.
LEMMA PutIs ==
  ASSUME NEW g, Typed(g), NEW b \in DOMAIN g.block, NEW k \in Blocks, NEW x \in Nat, NEW q \in BOOLEAN
  PROVE  IsPut(g, Put(g, b, k, x, q), b, k, x, q)
<1> DEFINE h == [g EXCEPT !.block[b] = k, !.values = x, !.panic = q]
           bs == [g.block EXCEPT ![b] = k]
<1>1. /\ g.block \in Seq(Blocks) /\ DOMAIN g.block = 1 .. Len(g.block) /\ Len(g.block) \in Nat
      /\ \A c \in DOMAIN g.block : g.block[c] \in Blocks
      /\ g.array \in Seq(Arrays) /\ g.select \in Seq(Selects)
      /\ g = [block |-> g.block, array |-> g.array, select |-> g.select, values |-> g.values, panic |-> g.panic]
  BY TypedFields
<1>2. bs \in [1 .. Len(g.block) -> Blocks]
  BY <1>1
<1>3. bs \in Seq(Blocks) /\ Len(bs) = Len(g.block) /\ DOMAIN bs = DOMAIN g.block
  BY <1>1, <1>2
<1>4. bs[b] = k /\ \A c \in DOMAIN g.block : c # b => bs[c] = g.block[c]
  OBVIOUS
<1>5. h = [block |-> bs, array |-> g.array, select |-> g.select, values |-> x, panic |-> q]
  <2>1. h = [g EXCEPT !.block = bs, !.values = x, !.panic = q]
    OBVIOUS
  <2> HIDE DEF h, bs
  <2>2. QED
    BY <1>1, <2>1
<1> HIDE DEF h, bs
<1>6. /\ h.block = bs /\ h.array = g.array /\ h.select = g.select /\ h.values = x /\ h.panic = q
  BY <1>5
<1>7. h \in Gens
  BY <1>1, <1>3, <1>5 DEF Gens
<1>8. IsPut(g, h, b, k, x, q)
  BY <1>3, <1>4, <1>6, <1>7 DEF IsPut
<1>9. QED
  BY <1>8 DEF h, Put

\* k has the bindings and the instructions of the block b.
Reshapes(g, b, k) ==
  /\ k \in Blocks /\ k.bindings.at = g.block[b].bindings.at
  /\ g.block[b].bindings.shared => k.bindings.shared
  /\ k.instr = g.block[b].instr /\ k.cond \in 0 .. g.values
Kept(g, h) == GenOK(h) /\ Extends(g, h) /\ Len(h.block) = Len(g.block) /\ h.values = g.values /\ h.array = g.array
Reshaped(g, h, b, k) ==
  /\ Kept(g, h) /\ OthersKept(g, h, b) /\ h.block[b] = k
  /\ \A c \in DOMAIN g.block : c # b => h.block[c] = g.block[c]
  /\ Picture(h)[b].next = k.next /\ Picture(h)[b].branch = k.branch /\ Picture(h)[b].dead = k.dead
  /\ Picture(h)[b].when = IF k.cond = None THEN {} ELSE Car(g)[k.cond]
  /\ Picture(h)[b].view = Picture(g)[b].view
  /\ SameShape(k, g.block[b]) => Picture(h) = Picture(g)

\* A block may get other edges and marks: Block.SetNext, SetBranch and the flag Dead.
LEMMA PutKeeps ==
  ASSUME NEW g, GenOK(g), NEW b \in DOMAIN g.block, NEW k, Reshapes(g, b, k), NEW q \in BOOLEAN
  PROVE  Reshaped(g, Reshape(g, b, k, q), b, k) /\ Reshape(g, b, k, q).panic = q
<1> DEFINE h == Reshape(g, b, k, q)
<1>1. Typed(g) /\ Once(g) /\ CopyOnWrite(g)
  BY DEF GenOK
<1>2. g.values \in Nat /\ g.block[b].instr \in Seq(Instructions) /\ DOMAIN g.block = 1 .. Len(g.block)
  BY <1>1, TypedFields, BlockFields
<1>3. /\ g.block \in Seq(Blocks) /\ k \in Blocks
      /\ g = [block |-> g.block, array |-> g.array, select |-> g.select, values |-> g.values, panic |-> g.panic]
  BY <1>1, TypedFields DEF Reshapes
<1>4. h = Put(g, b, k, g.values, q)
  BY <1>3 DEF Put, Reshape
<1> HIDE DEF h
<1>5. IsPut(g, h, b, k, g.values, q)
  BY <1>1, <1>2, <1>3, <1>4, PutIs
<1> USE DEF IsPut
<1>6. Edits(g, h, b, <<>>)
  <2>1. \A s \in DOMAIN g.select : h.select[s].resolved \in 0 .. h.values
    BY <1>1, <1>5, SelectIs
  <2>2. k.instr = g.block[b].instr \o <<>>
    BY <1>2 DEF Reshapes
  <2>3. QED
    BY <1>2, <1>5, <2>1, <2>2 DEF Edits, Reshapes
<1>7. GenOK(h)
  BY <1>5, <1>6, EditResolved
<1>8. Extends(g, h)
  BY <1>1, <1>6, EditKeeps
<1>9. PictureEdited(g, h, b)
  BY <1>1, <1>6, EditPicture
<1>10. /\ Picture(h)[b].next = k.next /\ Picture(h)[b].branch = k.branch /\ Picture(h)[b].dead = k.dead
       /\ Picture(h)[b].when = IF k.cond = None THEN {} ELSE Car(g)[k.cond]
  <2>1. Shown(h, b)
    BY <1>5, ShownIs
  <2>2. /\ Picture(h)[b].next = k.next /\ Picture(h)[b].branch = k.branch /\ Picture(h)[b].dead = k.dead
        /\ Picture(h)[b].when = IF k.cond = None THEN {} ELSE Car(h)[k.cond]
    BY <2>1, <1>5 DEF Shown
  <2>3. k.cond # None => k.cond \in 1 .. g.values
    BY <1>2 DEF Reshapes, None
  <2>4. QED
    BY <2>2, <2>3, <1>8 DEF Extends
<1>11. Reshaped(g, h, b, k) /\ h.panic = q
  BY <1>5, <1>7, <1>8, <1>9, <1>10 DEF Kept, Reshaped, PictureEdited
<1>12. QED
  BY <1>11 DEF h

\* NewEnv marks the bindings as shared, and the picture is as before.
LEMMA NewEnvIs ==
  ASSUME NEW g, GenOK(g), NEW b \in DOMAIN g.block
  PROVE  /\ Reshaped(g, NewEnv(g, b), b, [g.block[b] EXCEPT !.bindings.shared = TRUE])
         /\ NewEnv(g, b).panic = g.panic /\ Picture(NewEnv(g, b)) = Picture(g)
<1> DEFINE h == NewEnv(g, b)
           k == [g.block[b] EXCEPT !.bindings.shared = TRUE]
<1>1. Typed(g)
  BY DEF GenOK
<1>2. /\ g.block[b] \in Blocks /\ g.block[b].bindings \in Handles /\ g.panic \in BOOLEAN
      /\ g.block[b].cond \in 0 .. g.values
  BY <1>1, TypedFields, BlockFields DEF Typed, BlocksOK
<1>3. k \in Blocks
  BY <1>2 DEF Blocks, Handles
<1>4. /\ k.bindings.at = g.block[b].bindings.at /\ k.bindings.shared = TRUE /\ k.instr = g.block[b].instr
      /\ k.next = g.block[b].next /\ k.branch = g.block[b].branch /\ k.dead = g.block[b].dead /\ k.cond = g.block[b].cond
  BY <1>2 DEF Blocks, Handles
<1>5. Reshapes(g, b, k)
  BY <1>2, <1>3, <1>4 DEF Reshapes
<1>6. h = Reshape(g, b, k, g.panic)
  <2>1. g = [block |-> g.block, array |-> g.array, select |-> g.select, values |-> g.values, panic |-> g.panic]
    BY <1>1, TypedFields
  <2>2. [g.block[b].bindings EXCEPT !.shared = TRUE] = k.bindings
    BY <1>2 DEF Blocks
  <2>3. h = [g EXCEPT !.block[b] = [g.block[b] EXCEPT !.bindings = [g.block[b].bindings EXCEPT !.shared = TRUE]]]
    BY DEF NewEnv, Clone
  <2>4. k = [g.block[b] EXCEPT !.bindings = [g.block[b].bindings EXCEPT !.shared = TRUE]]
    OBVIOUS
  <2> HIDE DEF k
  <2>5. QED
    BY <2>1, <2>3, <2>4 DEF Reshape
<1> HIDE DEF h, k
<1>7. Reshaped(g, h, b, k) /\ h.panic = g.panic
  BY <1>2, <1>5, <1>6, PutKeeps
<1>8. SameShape(k, g.block[b])
  BY <1>4 DEF SameShape
<1>9. QED
  BY <1>7, <1>8 DEF h, k, Reshaped

\* An instruction that can be added to g.
Fits(g, i) ==
  /\ i \in Instructions /\ \A k \in DOMAIN i.in : i.in[k] \in 1 .. g.values
  /\ IF i.op = "ret" THEN i.out = None /\ Len(i.in) = 1
     ELSE i.out = g.values + 1 /\ Len(i.in) = IF i.op = "mov" THEN 1 ELSE 3
\* h is g with more instructions in block b.
More(g, h, b, new) ==
  /\ GenOK(h) /\ Extends(g, h) /\ Picture(h) = Picture(g) /\ Len(h.block) = Len(g.block)
  /\ h.panic = g.panic /\ h.array = g.array
  /\ \A c \in DOMAIN g.block : c # b => h.block[c] = g.block[c]
  /\ h.block[b] = [g.block[b] EXCEPT !.instr = @ \o new] /\ new \in Seq(Instructions)
InstrAdded(g, h, b, i) ==
  /\ More(g, h, b, <<i>>) /\ h.select = g.select
  /\ h.values = IF i.out = None THEN g.values ELSE g.values + 1
  /\ i.out # None => i.out = h.values /\ Car(h)[i.out] = Computed(i, Car(g))

\* A block with more instructions.
LEMMA LongerBlock ==
  ASSUME NEW g, Typed(g), NEW b \in DOMAIN g.block, NEW new \in Seq(Instructions),
         NEW k, k = [g.block[b] EXCEPT !.instr = g.block[b].instr \o new]
  PROVE  /\ k \in Blocks /\ k.bindings = g.block[b].bindings /\ k.cond = g.block[b].cond
         /\ k.instr = g.block[b].instr \o new /\ SameShape(k, g.block[b])
<1>1. g.block[b] \in Blocks /\ g.block[b].instr \in Seq(Instructions)
  BY TypedFields, BlockFields
<1>2. g.block[b].instr \o new \in Seq(Instructions)
  BY <1>1
<1>3. QED
  BY <1>1, <1>2 DEF Blocks, SameShape

\* Block.AddInstr: the output carries what is computed, the picture is as before.
LEMMA AddInstrIs ==
  ASSUME NEW g, GenOK(g), NEW b \in DOMAIN g.block, NEW i, Fits(g, i)
  PROVE  InstrAdded(g, AddInstr(g, b, i), b, i)
<1> DEFINE h == AddInstr(g, b, i)
           k == [g.block[b] EXCEPT !.instr = g.block[b].instr \o <<i>>]
           x == IF i.out = None THEN g.values ELSE g.values + 1
<1>1. Typed(g) /\ Once(g) /\ CopyOnWrite(g)
  BY DEF GenOK
<1>2. /\ g.values \in Nat /\ g.panic \in BOOLEAN /\ g.block \in Seq(Blocks)
      /\ g.values >= Arg(Len(Args) + 1) /\ Len(Args) \in Nat
      /\ g.block[b].instr \in Seq(Instructions)
      /\ g = [block |-> g.block, array |-> g.array, select |-> g.select, values |-> g.values, panic |-> g.panic]
  BY <1>1, TypedFields, BlockFields, ArgsAssumption
<1>3. i \in Instructions /\ i.op \in {"mov", "phi", "ret"} /\ i.out \in Nat
  BY InstructionFields DEF Fits
<1>4. <<i>> \in Seq(Instructions) /\ x \in Nat /\ g.values <= x
  BY <1>2, <1>3
<1>5. /\ k \in Blocks /\ k.bindings = g.block[b].bindings /\ k.cond = g.block[b].cond
      /\ k.instr = g.block[b].instr \o <<i>> /\ SameShape(k, g.block[b])
  BY <1>1, <1>4, LongerBlock
<1>6. h = Put(g, b, k, x, g.panic)
  <2>1. Append(g.block[b].instr, i) = g.block[b].instr \o <<i>>
    BY <1>2, <1>3
  <2>2. (IF i.out > g.values THEN i.out ELSE g.values) = x
    BY <1>2, <1>3 DEF Fits, None
  <2>3. h = [g EXCEPT !.block[b] = [g.block[b] EXCEPT !.instr = Append(g.block[b].instr, i)],
                      !.values = IF i.out > g.values THEN i.out ELSE g.values]
    BY DEF AddInstr
  <2> HIDE DEF x, h
  <2>4. QED
    BY <1>2, <2>1, <2>2, <2>3 DEF Put
<1> HIDE DEF h, k, x
<1>7. IsPut(g, h, b, k, x, g.panic)
  BY <1>1, <1>2, <1>4, <1>5, <1>6, PutIs
<1>8. InstrOK(h, i)
  <2>1. h.values = x
    BY <1>7 DEF IsPut
  <2>2. CASE i.op = "ret"
    BY <1>2, <1>4, <2>1, <2>2 DEF InstrOK, Fits
  <2>3. CASE i.op # "ret"
    <3>1. i.out = g.values + 1 /\ Len(i.in) = IF i.op = "mov" THEN 1 ELSE 3
      BY <2>3 DEF Fits
    <3>2. x = g.values + 1
      BY <3>1, <1>2 DEF x, None
    <3>3. \A l \in DOMAIN i.in : i.in[l] \in 1 .. g.values
      BY DEF Fits
    <3>4. i.out \in Arg(Len(Args)) + 1 .. x
      BY <1>2, <3>1, <3>2 DEF Arg
    <3>5. \A l \in DOMAIN i.in : i.in[l] \in 1 .. x /\ i.in[l] < i.out
      BY <3>3, <3>1, <3>2, <1>2
    <3>6. QED
      BY <2>1, <2>3, <3>1, <3>4, <3>5 DEF InstrOK
  <2>4. QED
    BY <2>2, <2>3
<1>9. Edits(g, h, b, <<i>>)
  <2>1. \A s \in DOMAIN g.select : g.select[s].resolved \in 0 .. g.values
    BY <1>1, SelectIs
  <2>2. g.block[b].cond \in 0 .. g.values
    BY <1>1 DEF Typed, BlocksOK
  <2>3. i.out = None \/ i.out > g.values
    BY <1>2 DEF Fits
  <2>4. DOMAIN <<i>> = {1} /\ <<i>>[1] = i
    OBVIOUS
  <2>5. /\ h \in Gens /\ h.array = g.array /\ Len(h.block) = Len(g.block)
        /\ \A c \in DOMAIN g.block : c # b => h.block[c] = g.block[c]
        /\ h.block[b] = k /\ h.values = x /\ h.select = g.select
    BY <1>7 DEF IsPut
  <2>6. h.block[b].cond \in 0 .. h.values /\ \A s \in DOMAIN g.select : h.select[s].resolved \in 0 .. h.values
    BY <2>1, <2>2, <2>5, <1>2, <1>4, <1>5
  <2>7. \A l, m \in DOMAIN <<i>> : l = m
    BY <2>4
  <2>8. \A l \in DOMAIN <<i>> : InstrOK(h, <<i>>[l]) /\ (<<i>>[l].out = None \/ <<i>>[l].out > g.values)
    BY <1>8, <2>3, <2>4
  <2>9. QED
    BY <1>4, <1>5, <2>5, <2>6, <2>7, <2>8 DEF Edits
<1>10. h.select = g.select /\ h.values = x /\ h.panic = g.panic /\ h.array = g.array /\ h.block[b] = k
       /\ Len(h.block) = Len(g.block) /\ \A c \in DOMAIN g.block : c # b => h.block[c] = g.block[c]
  BY <1>7 DEF IsPut
<1>11. GenOK(h)
  BY <1>9, <1>10, EditResolved
<1>12. Extends(g, h) /\ \A l \in DOMAIN <<i>> : <<i>>[l] \in MadeBy(h)
  BY <1>1, <1>9, EditKeeps
<1>13. Picture(h) = Picture(g)
  <2>1. PictureEdited(g, h, b)
    BY <1>1, <1>9, EditPicture
  <2>2. QED
    BY <2>1, <1>5, <1>10 DEF PictureEdited
<1>14. ASSUME i.out # None PROVE i.out = x /\ Car(h)[i.out] = Computed(i, Car(g))
  <2>1. i.out = x /\ Len(i.in) = (IF i.op = "mov" THEN 1 ELSE 3) /\ \A l \in DOMAIN i.in : i.in[l] \in 1 .. g.values
    BY <1>14 DEF Fits, x
  <2>2. Typed(h) /\ Once(h)
    BY <1>11 DEF GenOK
  <2>3. i \in MadeBy(h)
    BY <1>12
  <2>4. Car(h)[i.out] = Computed(i, Car(h))
    BY <1>14, <2>2, <2>3, MadeCarries
  <2>5. Computed(i, Car(h)) = Computed(i, Car(g))
    BY <1>1, <1>3, <1>12, <2>1, <2>2, ComputedKept
  <2>6. QED
    BY <2>1, <2>4, <2>5
<1>15. More(g, h, b, <<i>>)
  BY <1>4, <1>10, <1>11, <1>12, <1>13 DEF More, k
<1>16. InstrAdded(g, h, b, i)
  BY <1>10, <1>14, <1>15 DEF InstrAdded, x
<1>17. QED
  BY <1>16 DEF h

(***************************************************************************)
(* Binding.Value: the selects a value needs get their phis.                *)
(***************************************************************************)

\* A list of selects that get a phi: each once, after those it chooses from.
Has(g, q, p) == p.select => g.select[p.at].resolved # None \/ \E j \in DOMAIN q : q[j] = p.at
Before(g, q, k, p) == p.select => g.select[p.at].resolved # None \/ \E j \in 1 .. k - 1 : q[j] = p.at
TodoOK(g, q) ==
  /\ q \in Seq(Nat)
  /\ \A k \in DOMAIN q : q[k] \in DOMAIN g.select /\ g.select[q[k]].resolved = None
  /\ \A k, l \in DOMAIN q : q[k] = q[l] => k = l
  /\ \A k \in DOMAIN q : Before(g, q, k, g.select[q[k]].t) /\ Before(g, q, k, g.select[q[k]].f)
Longer(q, r, s) ==
  /\ Len(q) <= Len(r) /\ \A j \in DOMAIN q : r[j] = q[j]
  /\ \A k \in Len(q) + 1 .. Len(r) : r[k] <= s
Visits(g, s, q, r) == TodoOK(g, r) /\ Longer(q, r, s) /\ Has(g, r, Selected(s))

\* The list of selects to resolve needs the visits of the selects before s only.
LEMMA UnresolvedByIs ==
  ASSUME NEW g, Typed(g), NEW s \in DOMAIN g.select, NEW c, NEW q \in Seq(Nat),
         \A j \in 1 .. s - 1 : c[j] \in [Seq(Nat) -> Seq(Nat)]
  PROVE  /\ UnresolvedBy(g, c, s, q) \in Seq(Nat)
         /\ \A e : (\A j \in 1 .. s - 1 : c[j] = e[j]) => UnresolvedBy(g, c, s, q) = UnresolvedBy(g, e, s, q)
<1> DEFINE x == g.select[s]
<1>1. /\ x.t.select => x.t.at \in 1 .. s - 1
      /\ x.f.select => x.f.at \in 1 .. s - 1
      /\ s \in Nat
  BY SelectIs, TypedFields
<1>2. \A u \in Seq(Nat) : Under(c, x.t, u) \in Seq(Nat) /\ Under(c, x.f, u) \in Seq(Nat)
  BY <1>1 DEF Under
<1>3. Append(Under(c, x.f, Under(c, x.t, q)), s) \in Seq(Nat)
  BY <1>1, <1>2
<1>4. ASSUME NEW e, \A j \in 1 .. s - 1 : c[j] = e[j]
      PROVE  \A u : Under(c, x.t, u) = Under(e, x.t, u) /\ Under(c, x.f, u) = Under(e, x.f, u)
  BY <1>1, <1>4 DEF Under
<1>5. UnresolvedBy(g, c, s, q) \in Seq(Nat)
  BY <1>3 DEF UnresolvedBy
<1>6. ASSUME NEW e, \A j \in 1 .. s - 1 : c[j] = e[j]
      PROVE  UnresolvedBy(g, c, s, q) = UnresolvedBy(g, e, s, q)
  <2>1. Under(c, x.t, q) = Under(e, x.t, q)
    BY <1>4, <1>6
  <2>2. Under(c, x.f, Under(c, x.t, q)) = Under(e, x.f, Under(e, x.t, q))
    BY <1>4, <1>6, <2>1
  <2>3. QED
    BY <2>2 DEF UnresolvedBy
<1>7. QED
  BY <1>5, <1>6

\* Unresolved is a solution of its recursive definition (Select.Value calls itself).
LEMMA UnresolvedEquation ==
  ASSUME NEW g, Typed(g)
  PROVE  \A s \in DOMAIN g.select : \A q \in Seq(Nat) :
           Unresolved(g)[s][q] = UnresolvedBy(g, Unresolved(g), s, q)
<1> DEFINE n == Len(g.select)
           V == [Seq(Nat) -> Seq(Nat)]
           Row(c, s) == [q \in Seq(Nat) |-> UnresolvedBy(g, c, s, q)]
           G == [s \in 1 .. n |-> [c \in [1 .. n -> V] |-> Row(c, s)]]
<1>1. n \in Nat /\ DOMAIN g.select = 1 .. n
  BY TypedFields
<1> HIDE DEF n
<1>2. G \in [1 .. n -> [[1 .. n -> V] -> V]]
  <2>1. ASSUME NEW s \in 1 .. n, NEW c \in [1 .. n -> V], NEW q \in Seq(Nat)
        PROVE  UnresolvedBy(g, c, s, q) \in Seq(Nat)
    <3>1. \A j \in 1 .. s - 1 : c[j] \in [Seq(Nat) -> Seq(Nat)]
      BY <1>1
    <3>2. QED
      BY <1>1, <3>1, UnresolvedByIs
  <2>2. QED
    BY <2>1
<1>3. \A k \in 1 .. n : \A e, f \in [1 .. n -> V] : (\A j \in 1 .. k - 1 : e[j] = f[j]) => G[k][e] = G[k][f]
  <2>1. ASSUME NEW k \in 1 .. n, NEW e \in [1 .. n -> V], NEW f \in [1 .. n -> V],
               \A j \in 1 .. k - 1 : e[j] = f[j], NEW q \in Seq(Nat)
        PROVE  UnresolvedBy(g, e, k, q) = UnresolvedBy(g, f, k, q)
    <3>1. \A j \in 1 .. k - 1 : e[j] \in [Seq(Nat) -> Seq(Nat)]
      BY <1>1
    <3>2. k \in DOMAIN g.select
      BY <1>1
    <3>3. \A h : (\A j \in 1 .. k - 1 : e[j] = h[j]) => UnresolvedBy(g, e, k, q) = UnresolvedBy(g, h, k, q)
      BY <3>1, <3>2, UnresolvedByIs
    <3>4. QED
      BY <2>1, <3>3
  <2>2. \A k \in 1 .. n : \A e, f \in [1 .. n -> V] : (\A j \in 1 .. k - 1 : e[j] = f[j]) => Row(e, k) = Row(f, k)
    BY <2>1
  <2> HIDE DEF V, Row
  <2>3. QED
    BY <2>2
<1>4. \A k \in 1 .. n : \A e \in [1 .. n -> V] : G[k][e] = Row(e, k)
  OBVIOUS
<1>5. V # {}
  <2>1. [q \in Seq(Nat) |-> q] \in V
    OBVIOUS
  <2>2. QED
    BY <2>1
<1> HIDE DEF G, V
<1>6. Solved(n, V, G)
  <2>1. Causal(n, V, G)
    BY <1>2, <1>3, <1>5 DEF Causal
  <2>2. QED
    BY <2>1, <1>1, Recursion
<1>7. PICK f \in [1 .. n -> V] : \A k \in 1 .. n : f[k] = Row(f, k)
  BY <1>4, <1>6 DEF Solved
<1>8. f = [s \in DOMAIN g.select |-> [q \in Seq(Nat) |-> UnresolvedBy(g, f, s, q)]]
  BY <1>1, <1>7
<1> DEFINE c == CHOOSE c : c = [s \in DOMAIN g.select |-> [q \in Seq(Nat) |-> UnresolvedBy(g, c, s, q)]]
<1>9. c = [s \in DOMAIN g.select |-> [q \in Seq(Nat) |-> UnresolvedBy(g, c, s, q)]]
  BY <1>8
<1>10. Unresolved(g) = c
  BY DEF Unresolved
<1> HIDE DEF c
<1>11. QED
  BY <1>9, <1>10

\* What the visit of a bound needs of those before it.
LEMMA UnderIs ==
  ASSUME NEW g, Typed(g), NEW c, NEW p \in Bounds, Within(g, p), NEW q, TodoOK(g, q), NEW s \in Nat,
         p.select => p.at <= s /\ \A u : TodoOK(g, u) => Visits(g, p.at, u, c[p.at][u])
  PROVE  TodoOK(g, Under(c, p, q)) /\ Longer(q, Under(c, p, q), s) /\ Has(g, Under(c, p, q), p)
<1>1. CASE ~p.select
  <2>1. q \in Seq(Nat)
    BY DEF TodoOK
  <2>2. Longer(q, q, s)
    BY <2>1 DEF Longer
  <2>3. QED
    BY <1>1, <2>2 DEF Under, Has
<1>2. CASE p.select
  <2>1. p = Selected(p.at) /\ p.at \in Nat
    BY <1>2 DEF Selected, Bounds
  <2> DEFINE r == c[p.at][q]
  <2>2. Visits(g, p.at, q, r) /\ p.at <= s
    BY <1>2
  <2>3. Under(c, p, q) = r
    BY <1>2 DEF Under
  <2> HIDE DEF r
  <2>4. TodoOK(g, r) /\ Longer(q, r, p.at) /\ Has(g, r, Selected(p.at))
    BY <2>2 DEF Visits
  <2>5. r \in Seq(Nat) /\ q \in Seq(Nat)
    BY <2>4 DEF TodoOK
  <2>6. Longer(q, r, s)
    BY <2>1, <2>2, <2>4, <2>5 DEF Longer
  <2>7. QED
    BY <2>1, <2>3, <2>4, <2>6
<1>3. QED
  BY <1>1, <1>2

\* Lists grow at their end, and so do lists that grew.
LEMMA LongerBoth ==
  ASSUME NEW q \in Seq(Nat), NEW r \in Seq(Nat), NEW u \in Seq(Nat), NEW s \in Nat, Longer(q, r, s), Longer(r, u, s)
  PROVE  Longer(q, u, s)
<1>1. Len(q) <= Len(u) /\ \A j \in DOMAIN q : u[j] = q[j]
  <2>1. /\ Len(q) <= Len(r) /\ \A j \in DOMAIN q : r[j] = q[j]
        /\ Len(r) <= Len(u) /\ \A j \in DOMAIN r : u[j] = r[j]
    BY Zenon DEF Longer
  <2>2. \A j \in DOMAIN q : j \in DOMAIN r
    BY <2>1
  <2>3. Len(q) <= Len(u)
    BY <2>1
  <2>4. QED
    BY <2>1, <2>2, <2>3, Zenon
<1>2. ASSUME NEW k \in Len(q) + 1 .. Len(u) PROVE u[k] <= s
  <2>1. CASE k <= Len(r)
    <3>1. Len(q) \in Nat /\ Len(r) \in Nat /\ DOMAIN r = 1 .. Len(r)
      OBVIOUS
    <3>2. k \in DOMAIN r /\ k \in Len(q) + 1 .. Len(r)
      BY <2>1, <3>1
    <3>3. u[k] = r[k] /\ r[k] <= s
      BY <3>2 DEF Longer
    <3>4. QED
      BY <3>3
  <2>2. CASE k > Len(r)
    BY <2>2 DEF Longer
  <2>3. QED
    BY <2>1, <2>2
<1>3. QED
  BY <1>1, <1>2 DEF Longer

\* A longer list still has what the shorter one had.
LEMMA HasMore ==
  ASSUME NEW g, NEW r \in Seq(Nat), NEW u \in Seq(Nat), NEW s \in Nat, Longer(r, u, s), NEW p, Has(g, r, p)
  PROVE  Has(g, u, p)
<1>1. Len(r) <= Len(u) /\ \A j \in DOMAIN r : u[j] = r[j]
  BY Zenon DEF Longer
<1>2. \A j \in DOMAIN r : j \in DOMAIN u
  BY <1>1
<1>3. QED
  BY <1>1, <1>2, Zenon DEF Has

\* A select is put after those it chooses from.
LEMMA TodoAdded ==
  ASSUME NEW g, Typed(g), NEW s \in DOMAIN g.select, g.select[s].resolved = None, NEW q, TodoOK(g, q),
         \A k \in DOMAIN q : q[k] # s, Has(g, q, g.select[s].t), Has(g, q, g.select[s].f)
  PROVE  TodoOK(g, Append(q, s))
<1> DEFINE r == Append(q, s)
<1>1. q \in Seq(Nat) /\ s \in Nat
  BY TypedFields DEF TodoOK
<1>2. r \in Seq(Nat) /\ DOMAIN r = 1 .. Len(q) + 1 /\ DOMAIN q = 1 .. Len(q) /\ r[Len(q) + 1] = s
      /\ Len(q) \in Nat /\ \A k \in DOMAIN q : r[k] = q[k]
  BY <1>1
<1> HIDE DEF r
<1>3. \A k \in DOMAIN r : r[k] \in DOMAIN g.select /\ g.select[r[k]].resolved = None
  BY <1>2 DEF TodoOK
<1>4. \A k, l \in DOMAIN r : r[k] = r[l] => k = l
  BY <1>2 DEF TodoOK
<1>5. ASSUME NEW k \in DOMAIN r, NEW p, Before(g, q, k, p) \/ (k = Len(q) + 1 /\ Has(g, q, p))
      PROVE  Before(g, r, k, p)
  <2>1. \A j \in 1 .. k - 1 : j \in DOMAIN q
    BY <1>2
  <2>2. CASE Before(g, q, k, p)
    BY <1>2, <2>1, <2>2 DEF Before
  <2>3. CASE k = Len(q) + 1 /\ Has(g, q, p)
    BY <1>2, <2>1, <2>3 DEF Before, Has
  <2>4. QED
    BY <1>5, <2>2, <2>3
<1>6. ASSUME NEW k \in DOMAIN r PROVE Before(g, r, k, g.select[r[k]].t) /\ Before(g, r, k, g.select[r[k]].f)
  <2>1. CASE k \in DOMAIN q
    <3>1. Before(g, q, k, g.select[r[k]].t) /\ Before(g, q, k, g.select[r[k]].f)
      BY <1>2, <2>1 DEF TodoOK
    <3>2. QED
      BY <1>5, <3>1
  <2>2. CASE k = Len(q) + 1
    BY <1>2, <1>5, <2>2
  <2>3. QED
    BY <1>2, <2>1, <2>2
<1>7. TodoOK(g, r)
  BY <1>2, <1>3, <1>4, <1>6 DEF TodoOK
<1>8. QED
  BY <1>7 DEF r

\* Every visit lists the select, after all those it needs, and no select twice.
LEMMA VisitIs ==
  ASSUME NEW g, Typed(g)
  PROVE  \A s \in DOMAIN g.select : \A q : TodoOK(g, q) => Visits(g, s, q, Unresolved(g)[s][q])
<1> DEFINE n == Len(g.select)
           S == {s \in 1 .. n : \A q : TodoOK(g, q) => Visits(g, s, q, Unresolved(g)[s][q])}
           c == Unresolved(g)
<1>1. n \in Nat /\ DOMAIN g.select = 1 .. n
  BY TypedFields
<1>2. ASSUME NEW s \in 1 .. n, NEW q, TodoOK(g, q) PROVE c[s][q] = UnresolvedBy(g, c, s, q)
  <2>1. q \in Seq(Nat)
    BY <1>2 DEF TodoOK
  <2>2. QED
    BY <1>1, <2>1, UnresolvedEquation
<1> HIDE DEF n, c
<1>3. ASSUME NEW s \in 1 .. n, \A j \in 1 .. s - 1 : j \in S PROVE s \in S
  <2> SUFFICES ASSUME NEW q, TodoOK(g, q) PROVE Visits(g, s, q, c[s][q])
    BY DEF c
  <2> DEFINE x == g.select[s]
             u == Under(c, x.t, q)
             r == Under(c, x.f, u)
  <2>1. c[s][q] = IF x.resolved # None \/ s \in Range(q) THEN q ELSE Append(r, s)
    BY <1>2 DEF UnresolvedBy
  <2>2. q \in Seq(Nat)
    BY DEF TodoOK
  <2>3. CASE x.resolved # None \/ s \in Range(q)
    <3>1. Longer(q, q, s)
      BY <2>2 DEF Longer
    <3>2. Has(g, q, Selected(s))
      BY <2>3 DEF Has, Selected, Range
    <3>3. QED
      BY <2>1, <2>3, <3>1, <3>2 DEF Visits
  <2>4. CASE ~(x.resolved # None \/ s \in Range(q))
    <3>1. /\ x.t \in Bounds /\ x.f \in Bounds /\ Within(g, x.t) /\ Within(g, x.f)
          /\ x.t.select => x.t.at \in 1 .. s - 1
          /\ x.f.select => x.f.at \in 1 .. s - 1
      BY <1>1, SelectIs
    <3>2. s - 1 \in Nat /\ s \in Nat
      OBVIOUS
    <3>3. \A j \in 1 .. s - 1 : \A v : TodoOK(g, v) => Visits(g, j, v, c[j][v])
      BY <1>3 DEF c
    <3> HIDE DEF x
    <3>14. /\ x.t.select => x.t.at <= s - 1 /\ \A v : TodoOK(g, v) => Visits(g, x.t.at, v, c[x.t.at][v])
           /\ x.f.select => x.f.at <= s - 1 /\ \A v : TodoOK(g, v) => Visits(g, x.f.at, v, c[x.f.at][v])
      BY <3>1, <3>3
    <3>4. TodoOK(g, u) /\ Longer(q, u, s - 1) /\ Has(g, u, x.t)
      BY <3>1, <3>2, <3>14, UnderIs
    <3> HIDE DEF u
    <3>5. TodoOK(g, r) /\ Longer(u, r, s - 1) /\ Has(g, r, x.f)
      BY <3>1, <3>2, <3>14, <3>4, UnderIs
    <3> HIDE DEF r
    <3>6. u \in Seq(Nat) /\ r \in Seq(Nat)
      BY <3>4, <3>5 DEF TodoOK
    <3>7. Longer(q, r, s - 1) /\ Has(g, r, x.t)
      BY <2>2, <3>2, <3>4, <3>5, <3>6, LongerBoth, HasMore
    <3>8. \A k \in DOMAIN r : r[k] # s
      <4>1. \A k \in DOMAIN q : q[k] # s
        BY <2>2, <2>4 DEF Range
      <4>2. ASSUME NEW k \in DOMAIN r, r[k] = s PROVE FALSE
        <5>1. /\ DOMAIN q = 1 .. Len(q) /\ DOMAIN r = 1 .. Len(r) /\ Len(q) \in Nat /\ Len(r) \in Nat
          BY <2>2, <3>6
        <5>2. CASE k \in DOMAIN q
          BY <5>2, <4>1, <4>2, <3>7 DEF Longer
        <5>3. CASE k \in Len(q) + 1 .. Len(r)
          BY <5>3, <4>2, <3>7 DEF Longer
        <5>4. QED
          BY <5>1, <5>2, <5>3
      <4>3. QED
        BY <4>2
    <3>9. TodoOK(g, Append(r, s))
      <4>1. x.resolved = None
        BY <2>4
      <4>2. QED
        BY <1>1, <3>5, <3>7, <3>8, <4>1, TodoAdded DEF x
    <3>10. Longer(q, Append(r, s), s)
      <4>1. Len(q) <= Len(r) /\ (\A j \in DOMAIN q : r[j] = q[j]) /\ \A k \in Len(q) + 1 .. Len(r) : r[k] <= s - 1
        BY <3>7, Zenon DEF Longer
      <4> DEFINE z == Append(r, s)
      <4>2. Len(z) = Len(r) + 1 /\ z[Len(r) + 1] = s /\ \A j \in 1 .. Len(r) : z[j] = r[j]
        BY <2>2, <3>6
      <4> HIDE DEF z
      <4>3. Len(q) \in Nat /\ Len(r) \in Nat /\ DOMAIN q = 1 .. Len(q) /\ s \in Nat /\ \A k \in 1 .. Len(r) : r[k] \in Nat
        BY <2>2, <3>6
      <4>4. Len(q) <= Len(z) /\ \A j \in DOMAIN q : z[j] = q[j]
        BY <4>1, <4>2, <4>3
      <4>5. \A k \in Len(q) + 1 .. Len(z) : z[k] <= s
        BY <4>1, <4>2, <4>3
      <4>6. Longer(q, z, s)
        BY <4>4, <4>5 DEF Longer
      <4>7. QED
        BY <4>6 DEF z
    <3>11. Has(g, Append(r, s), Selected(s))
      <4>1. Len(r) + 1 \in DOMAIN Append(r, s) /\ Append(r, s)[Len(r) + 1] = s
        BY <3>6
      <4>2. QED
        BY <4>1 DEF Has, Selected
    <3>12. c[s][q] = Append(r, s)
      BY <2>1, <2>4 DEF r, u
    <3>13. QED
      BY <3>9, <3>10, <3>11, <3>12 DEF Visits
  <2>5. QED
    BY <2>3, <2>4
<1>4. \A s \in 1 .. n : s \in S
  <2> HIDE DEF S
  <2>1. QED
    BY <1>1, <1>3, CompleteInduction
<1>5. QED
  BY <1>1, <1>4

ValueFits(g, q, k, p) == IF p.select THEN Before(g, q, k, p) /\ p.at \in DOMAIN g.select ELSE p.at \in 1 .. g.values

\* The value of a bound whose selects have their phis.
LEMMA ValueOfIs ==
  ASSUME NEW g, Typed(g), NEW q, TodoOK(g, q), NEW k \in 1 .. Len(q) + 1, NEW p, ValueFits(g, q, k, p)
  PROVE  /\ ValueOf(g, q, p) \in 1 .. g.values + k - 1
         /\ IF ~p.select THEN ValueOf(g, q, p) = p.at
            ELSE \/ /\ g.select[p.at].resolved # None /\ ValueOf(g, q, p) = g.select[p.at].resolved
                    /\ ValueOf(g, q, p) \in 1 .. g.values
                 \/ \E j \in 1 .. k - 1 : j \in DOMAIN q /\ q[j] = p.at /\ ValueOf(g, q, p) = g.values + j
<1>1. /\ q \in Seq(Nat) /\ g.values \in Nat /\ Len(q) \in Nat /\ DOMAIN q = 1 .. Len(q) /\ k \in Nat
      /\ \A i, j \in DOMAIN q : q[i] = q[j] => i = j
      /\ \A i \in DOMAIN q : g.select[q[i]].resolved = None
  BY TypedFields DEF TodoOK
<1>2. CASE ~p.select
  BY <1>1, <1>2 DEF ValueOf, ValueFits
<1>3. CASE p.select /\ g.select[p.at].resolved # None
  <2>1. p.at \notin Range(q)
    BY <1>1, <1>3 DEF Range
  <2>2. ValueOf(g, q, p) = g.select[p.at].resolved
    BY <1>3, <2>1 DEF ValueOf
  <2>3. g.select[p.at].resolved \in 1 .. g.values
    BY <1>1, <1>3, SelectIs DEF ValueFits, None
  <2>4. QED
    BY <1>1, <1>3, <2>2, <2>3
<1>4. CASE p.select /\ g.select[p.at].resolved = None
  <2>1. PICK j \in 1 .. k - 1 : q[j] = p.at
    BY <1>4 DEF ValueFits, Before
  <2>2. j \in DOMAIN q
    BY <1>1
  <2>3. p.at \in Range(q)
    BY <2>1, <2>2 DEF Range
  <2>4. j = CHOOSE i \in DOMAIN q : q[i] = p.at
    BY <1>1, <2>1, <2>2
  <2>5. ValueOf(g, q, p) = g.values + j
    BY <1>4, <2>3, <2>4 DEF ValueOf
  <2>6. QED
    BY <1>1, <1>4, <2>1, <2>2, <2>5
<1>5. QED
  BY <1>2, <1>3, <1>4

\* Each phi on the list reads values there are, or outputs of phis before it.
LEMMA TodoFits ==
  ASSUME NEW g, Typed(g), NEW q, TodoOK(g, q)
  PROVE  /\ \A k \in DOMAIN q : /\ k \in 1 .. Len(q) + 1 /\ q[k] \in DOMAIN g.select
                                /\ ValueFits(g, q, k, g.select[q[k]].t) /\ ValueFits(g, q, k, g.select[q[k]].f)
         /\ \A p : Within(g, p) /\ Has(g, q, p) => ValueFits(g, q, Len(q) + 1, p)
<1>1. q \in Seq(Nat) /\ DOMAIN q = 1 .. Len(q) /\ Len(q) \in Nat /\ (Len(q) + 1) - 1 = Len(q)
  BY DEF TodoOK
<1>2. ASSUME NEW k \in DOMAIN q
      PROVE  /\ q[k] \in DOMAIN g.select
             /\ ValueFits(g, q, k, g.select[q[k]].t) /\ ValueFits(g, q, k, g.select[q[k]].f)
  <2> DEFINE x == g.select[q[k]]
  <2>1. q[k] \in DOMAIN g.select /\ Before(g, q, k, x.t) /\ Before(g, q, k, x.f)
    BY DEF TodoOK
  <2>2. Within(g, x.t) /\ Within(g, x.f)
    BY <2>1, SelectIs
  <2>3. QED
    BY <2>1, <2>2 DEF ValueFits, Within
<1>3. ASSUME NEW p, Within(g, p), Has(g, q, p) PROVE ValueFits(g, q, Len(q) + 1, p)
  BY <1>1, <1>3 DEF Within, Has, ValueFits, Before
<1>4. QED
  BY <1>1, <1>2, <1>3

\* The phis.
Phis(g, q) == [k \in DOMAIN q |-> Phi(g, q, k)]
PhisOK(g, q) ==
  /\ Phis(g, q) \in Seq(Instructions) /\ DOMAIN Phis(g, q) = DOMAIN q /\ Len(Phis(g, q)) = Len(q)
  /\ \A k \in DOMAIN q :
       LET i == Phis(g, q)[k]
           x == g.select[q[k]]
       IN /\ i.op = "phi" /\ i.out = g.values + k /\ Len(i.in) = 3 /\ i \in Instructions
          /\ i.in[1] = x.cond /\ i.in[2] = ValueOf(g, q, x.t) /\ i.in[3] = ValueOf(g, q, x.f)
          /\ \A l \in DOMAIN i.in : i.in[l] \in 1 .. g.values + k - 1

\* The phis of a list are instructions that read earlier values.
LEMMA PhisAre ==
  ASSUME NEW g, Typed(g), NEW q, TodoOK(g, q)
  PROVE  PhisOK(g, q)
<1>1. q \in Seq(Nat) /\ g.values \in Nat /\ Len(q) \in Nat /\ DOMAIN q = 1 .. Len(q)
  BY TypedFields DEF TodoOK
<1>2. ASSUME NEW k \in DOMAIN q
      PROVE  LET i == Phis(g, q)[k]
                 x == g.select[q[k]]
             IN /\ i.op = "phi" /\ i.out = g.values + k /\ Len(i.in) = 3 /\ i \in Instructions
                /\ i.in[1] = x.cond /\ i.in[2] = ValueOf(g, q, x.t) /\ i.in[3] = ValueOf(g, q, x.f)
                /\ \A l \in DOMAIN i.in : i.in[l] \in 1 .. g.values + k - 1
  <2> DEFINE x == g.select[q[k]]
             vt == ValueOf(g, q, x.t)
             vf == ValueOf(g, q, x.f)
             i == Instr("phi", <<x.cond, vt, vf>>, g.values + k)
  <2>1. Phis(g, q)[k] = i
    BY DEF Phis, Phi
  <2>2. x.cond \in 1 .. g.values /\ k \in Nat
    BY <1>1, TodoFits, SelectIs
  <2>3. vt \in 1 .. g.values + k - 1 /\ vf \in 1 .. g.values + k - 1
    BY TodoFits, ValueOfIs
  <2> HIDE DEF x, vt, vf
  <2>4. x.cond \in 1 .. g.values + k - 1
    BY <1>1, <2>2
  <2>5. i \in Instructions /\ i.op = "phi" /\ i.out = g.values + k /\ i.in = <<x.cond, vt, vf>>
    <3>1. x.cond \in Nat /\ vt \in Nat /\ vf \in Nat /\ g.values + k \in Nat
      BY <1>1, <2>2, <2>3, <2>4
    <3>2. <<x.cond, vt, vf>> \in Seq(Nat)
      BY <3>1
    <3>3. QED
      BY <3>1, <3>2 DEF Instr, Instructions
  <2> HIDE DEF i
  <2>6. Len(i.in) = 3 /\ DOMAIN i.in = 1 .. 3 /\ i.in[1] = x.cond /\ i.in[2] = vt /\ i.in[3] = vf
    BY <2>5
  <2>7. \A l \in DOMAIN i.in : i.in[l] \in 1 .. g.values + k - 1
    BY <2>3, <2>4, <2>6
  <2>8. QED
    BY <2>1, <2>5, <2>6, <2>7 DEF x, vt, vf
<1>3. Phis(g, q) \in [1 .. Len(q) -> Instructions]
  <2>1. DOMAIN Phis(g, q) = 1 .. Len(q) /\ \A k \in DOMAIN q : Phis(g, q)[k] \in Instructions
    BY <1>1, <1>2 DEF Phis
  <2>2. Phis(g, q) = [k \in DOMAIN q |-> Phis(g, q)[k]]
    BY DEF Phis
  <2>3. QED
    BY <1>1, <2>1, <2>2
<1>4. Phis(g, q) \in Seq(Instructions) /\ DOMAIN Phis(g, q) = DOMAIN q /\ Len(Phis(g, q)) = Len(q)
  BY <1>1, <1>3
<1>5. QED
  BY <1>2, <1>4 DEF PhisOK

PhisPut(g, h, b, q) ==
  /\ h \in Gens /\ h.array = g.array /\ h.panic = g.panic /\ h.values = g.values + Len(q)
  /\ Len(h.block) = Len(g.block) /\ DOMAIN h.block = DOMAIN g.block
  /\ h.block[b] = [g.block[b] EXCEPT !.instr = g.block[b].instr \o Phis(g, q)]
  /\ \A c \in DOMAIN g.block : c # b => h.block[c] = g.block[c]
  /\ Len(h.select) = Len(g.select) /\ DOMAIN h.select = DOMAIN g.select
  /\ \A s \in DOMAIN g.select :
       /\ h.select[s].cond = g.select[s].cond /\ h.select[s].t = g.select[s].t /\ h.select[s].f = g.select[s].f
       /\ h.select[s].resolved = ValueOf(g, q, Selected(s))
       /\ h.select[s].resolved \in 0 .. h.values
       /\ \/ h.select[s].resolved = g.select[s].resolved
          \/ \E j \in DOMAIN q : q[j] = s /\ h.select[s].resolved = g.values + j

\* The parts of a generator to which the phis of a list are added.
LEMMA AddPhisPut ==
  ASSUME NEW g, Typed(g), NEW b \in DOMAIN g.block, NEW q, TodoOK(g, q)
  PROVE  PhisPut(g, AddPhis(g, b, q), b, q)
<1> DEFINE k == [g.block[b] EXCEPT !.instr = g.block[b].instr \o Phis(g, q)]
           h == Put(g, b, k, g.values + Len(q), g.panic)
           ss == [s \in DOMAIN g.select |-> [g.select[s] EXCEPT !.resolved = ValueOf(g, q, Selected(s))]]
           i == AddPhis(g, b, q)
<1>1. /\ q \in Seq(Nat) /\ g.values \in Nat /\ Len(q) \in Nat /\ DOMAIN q = 1 .. Len(q) /\ g.panic \in BOOLEAN
      /\ g.select \in Seq(Selects) /\ DOMAIN g.select = 1 .. Len(g.select) /\ Len(g.select) \in Nat
      /\ g = [block |-> g.block, array |-> g.array, select |-> g.select, values |-> g.values, panic |-> g.panic]
  BY TypedFields DEF TodoOK
<1>2. Phis(g, q) \in Seq(Instructions)
  BY PhisAre DEF PhisOK
<1>3. k \in Blocks
  BY <1>2, LongerBlock
<1>4. IsPut(g, h, b, k, g.values + Len(q), g.panic)
  <2>1. g.values + Len(q) \in Nat
    BY <1>1
  <2> HIDE DEF k
  <2>2. QED
    BY <1>1, <1>3, <2>1, PutIs
<1>5. i = [g EXCEPT !.block[b] = k, !.values = g.values + Len(q), !.select = ss]
  BY DEF AddPhis, Phis
<1>6. ASSUME NEW s \in DOMAIN g.select
      PROVE  /\ ValueOf(g, q, Selected(s)) \in 0 .. g.values + Len(q)
             /\ \/ ValueOf(g, q, Selected(s)) = g.select[s].resolved
                \/ \E j \in DOMAIN q : q[j] = s /\ ValueOf(g, q, Selected(s)) = g.values + j
  <2>1. Selected(s).select /\ Selected(s).at = s
    BY DEF Selected
  <2>2. CASE \E j \in DOMAIN q : q[j] = s
    <3>1. PICK j \in DOMAIN q : q[j] = s
      BY <2>2
    <3>2. s \in Range(q)
      BY <3>1 DEF Range
    <3>3. j = CHOOSE l \in DOMAIN q : q[l] = s
      BY <3>1 DEF TodoOK
    <3>4. ValueOf(g, q, Selected(s)) = g.values + j
      BY <2>1, <3>2, <3>3 DEF ValueOf
    <3>5. QED
      BY <1>1, <3>1, <3>4
  <2>3. CASE ~ \E j \in DOMAIN q : q[j] = s
    <3>1. s \notin Range(q)
      BY <2>3 DEF Range
    <3>2. ValueOf(g, q, Selected(s)) = g.select[s].resolved
      BY <2>1, <3>1 DEF ValueOf
    <3>3. g.select[s].resolved \in 0 .. g.values
      BY SelectIs
    <3>4. QED
      BY <1>1, <3>2, <3>3
  <2>4. QED
    BY <2>2, <2>3
<1>7. ASSUME NEW s \in DOMAIN g.select
      PROVE  /\ ss[s] \in Selects /\ ss[s].resolved = ValueOf(g, q, Selected(s))
             /\ ss[s].cond = g.select[s].cond /\ ss[s].t = g.select[s].t /\ ss[s].f = g.select[s].f
  <2>1. g.select[s] \in Selects /\ ValueOf(g, q, Selected(s)) \in Nat
    BY <1>1, <1>6
  <2>2. ss[s] = [g.select[s] EXCEPT !.resolved = ValueOf(g, q, Selected(s))]
    OBVIOUS
  <2> HIDE DEF ss
  <2>3. QED
    BY <2>1, <2>2 DEF Selects
<1>8. DOMAIN ss = 1 .. Len(g.select)
  BY <1>1
<1> HIDE DEF k, ss
<1>9. ss \in Seq(Selects) /\ Len(ss) = Len(g.select) /\ DOMAIN ss = DOMAIN g.select
  <2>1. ss = [s \in 1 .. Len(g.select) |-> ss[s]]
    BY <1>8 DEF ss
  <2>2. ss \in [1 .. Len(g.select) -> Selects]
    BY <1>1, <1>7, <2>1
  <2>3. QED
    BY <1>1, <2>2
<1>10. i = [block |-> h.block, array |-> g.array, select |-> ss, values |-> h.values, panic |-> g.panic]
  <2>1. h.block = [g.block EXCEPT ![b] = k] /\ h.values = g.values + Len(q)
    BY <1>1 DEF Put
  <2> HIDE DEF h, i
  <2>2. QED
    BY <1>1, <1>5, <2>1
<1> HIDE DEF h, i
<1>11. i.block = h.block /\ i.array = g.array /\ i.select = ss /\ i.values = h.values /\ i.panic = g.panic
  BY <1>10
<1>12. i \in Gens
  BY <1>4, <1>9, <1>10, <1>1 DEF IsPut, Gens
<1>13. PhisPut(g, i, b, q)
  <2>1. /\ h.values = g.values + Len(q) /\ h.block[b] = k /\ Len(h.block) = Len(g.block)
        /\ DOMAIN h.block = DOMAIN g.block
        /\ \A c \in DOMAIN g.block : c # b => h.block[c] = g.block[c]
    BY <1>4 DEF IsPut
  <2>2. QED
    BY <2>1, <1>6, <1>7, <1>9, <1>11, <1>12 DEF PhisPut, k
<1>14. QED
  BY <1>13 DEF i

WithMore(k, new) == [k EXCEPT !.instr = k.instr \o new]

\* A block with more instructions keeps the rest.
LEMMA WithMoreIs ==
  ASSUME NEW g, Typed(g), NEW b \in DOMAIN g.block, NEW new \in Seq(Instructions)
  PROVE  /\ WithMore(g.block[b], new).bindings = g.block[b].bindings
         /\ WithMore(g.block[b], new).cond = g.block[b].cond
         /\ WithMore(g.block[b], new).instr = g.block[b].instr \o new
         /\ SameShape(WithMore(g.block[b], new), g.block[b])
<1>1. g.block[b] \in Blocks /\ g.block[b].instr \in Seq(Instructions)
  BY TypedFields, BlockFields
<1>2. QED
  BY <1>1 DEF Blocks, SameShape, WithMore

\* To add phis is an edit of the block that first uses them.
LEMMA AddPhisEdits ==
  ASSUME NEW g, Typed(g), NEW b \in DOMAIN g.block, NEW q, TodoOK(g, q), NEW h, PhisPut(g, h, b, q)
  PROVE  Edits(g, h, b, Phis(g, q)) /\ SameShape(h.block[b], g.block[b])
<1>1. /\ q \in Seq(Nat) /\ g.values \in Nat /\ Len(q) \in Nat /\ DOMAIN q = 1 .. Len(q)
      /\ g.values >= Arg(Len(Args) + 1) /\ Len(Args) \in Nat
  BY TypedFields, ArgsAssumption DEF TodoOK
<1>2. PhisOK(g, q)
  BY PhisAre
<1>3. Phis(g, q) \in Seq(Instructions) /\ DOMAIN Phis(g, q) = DOMAIN q
  BY <1>2 DEF PhisOK
<1>4. /\ h.block[b].bindings = g.block[b].bindings /\ h.block[b].cond = g.block[b].cond
      /\ h.block[b].instr = g.block[b].instr \o Phis(g, q) /\ SameShape(h.block[b], g.block[b])
  <2>1. h.block[b] = [g.block[b] EXCEPT !.instr = g.block[b].instr \o Phis(g, q)]
    BY DEF PhisPut
  <2>2. h.block[b] = WithMore(g.block[b], Phis(g, q))
    BY <2>1 DEF WithMore
  <2>3. QED
    BY <1>3, <2>2, WithMoreIs
<1>5. h.values = g.values + Len(q)
  BY DEF PhisPut
<1>6. ASSUME NEW l \in DOMAIN q
      PROVE  InstrOK(h, Phis(g, q)[l]) /\ Phis(g, q)[l].out = g.values + l /\ g.values + l > g.values
  <2> DEFINE i == Phis(g, q)[l]
  <2>1. /\ i.op = "phi" /\ i.out = g.values + l /\ Len(i.in) = 3
        /\ \A k \in DOMAIN i.in : i.in[k] \in 1 .. g.values + l - 1
    BY <1>2 DEF PhisOK
  <2> HIDE DEF i
  <2>2. l \in 1 .. Len(q)
    BY <1>1
  <2>3. g.values + l \in Arg(Len(Args)) + 1 .. h.values
    BY <1>1, <1>5, <2>2 DEF Arg
  <2>4. \A k \in DOMAIN i.in : i.in[k] \in 1 .. h.values /\ i.in[k] < i.out
    BY <1>1, <1>5, <2>1, <2>2
  <2>5. InstrOK(h, i)
    BY <2>1, <2>3, <2>4 DEF InstrOK
  <2>6. QED
    BY <1>1, <2>1, <2>2, <2>5 DEF i
<1>7. h.block[b].cond \in 0 .. h.values /\ g.values <= h.values
  <2>1. g.block[b].cond \in 0 .. g.values
    BY DEF Typed, BlocksOK
  <2>2. QED
    BY <1>1, <1>4, <1>5, <2>1
<1>8. \A l, m \in DOMAIN q : Phis(g, q)[l].out = Phis(g, q)[m].out => l = m
  BY SMTT(30), <1>1, <1>6
<1>9. QED
  BY SMTT(30), <1>3, <1>4, <1>6, <1>7, <1>8 DEF Edits, PhisPut

\* A value that a phi reads carries what the bound it stands for is.
LEMMA PhiReads ==
  ASSUME NEW g, GenOK(g), NEW h, Extends(g, h), NEW q, TodoOK(g, q), NEW k \in 1 .. Len(q) + 1,
         \A j \in 1 .. k - 1 : Car(h)[g.values + j] = SelectsOf(g)[q[j]],
         NEW p, ValueFits(g, q, k, p)
  PROVE  Car(h)[ValueOf(g, q, p)] = WorldsOf(Car(g), SelectsOf(g), p)
<1>1. Typed(g) /\ Resolved(g) /\ g.values \in Nat
  BY TypedFields DEF GenOK
<1>2. \A v \in 1 .. g.values : Car(h)[v] = Car(g)[v]
  BY DEF Extends
<1>3. CASE ~p.select
  <2>1. ValueOf(g, q, p) = p.at /\ p.at \in 1 .. g.values
    BY <1>1, <1>3, ValueOfIs DEF ValueFits
  <2>2. QED
    BY <1>2, <1>3, <2>1 DEF WorldsOf
<1>4. CASE p.select
  <2> DEFINE v == ValueOf(g, q, p)
  <2>1. \/ g.select[p.at].resolved # None /\ v = g.select[p.at].resolved /\ v \in 1 .. g.values
        \/ \E j \in 1 .. k - 1 : j \in DOMAIN q /\ q[j] = p.at /\ v = g.values + j
    BY <1>1, <1>4, ValueOfIs
  <2> HIDE DEF v
  <2>2. p.at \in DOMAIN g.select
    BY <1>4 DEF ValueFits
  <2>3. g.select[p.at].resolved # None => Car(g)[g.select[p.at].resolved] = SelectsOf(g)[p.at]
    BY <1>1, <2>2 DEF Resolved, Car
  <2>4. Car(h)[v] = SelectsOf(g)[p.at]
    BY <1>2, <2>1, <2>3
  <2>5. QED
    BY <1>4, <2>4 DEF WorldsOf, v
<1>5. QED
  BY <1>3, <1>4

\* The phi of a select carries what the select means; by induction along the list.
LEMMA PhisCarry ==
  ASSUME NEW g, GenOK(g), NEW h, Typed(h), Once(h), Extends(g, h), NEW q, TodoOK(g, q),
         \A k \in DOMAIN q : Phis(g, q)[k] \in MadeBy(h)
  PROVE  \A k \in DOMAIN q : Car(h)[g.values + k] = SelectsOf(g)[q[k]]
<1>1. Typed(g) /\ g.values \in Nat
  BY TypedFields DEF GenOK
<1>2. q \in Seq(Nat) /\ Len(q) \in Nat /\ DOMAIN q = 1 .. Len(q)
  BY DEF TodoOK
<1>3. PhisOK(g, q)
  BY <1>1, PhisAre
<1> DEFINE S == {k \in 1 .. Len(q) : Car(h)[g.values + k] = SelectsOf(g)[q[k]]}
<1>4. ASSUME NEW k \in 1 .. Len(q), \A j \in 1 .. k - 1 : j \in S PROVE k \in S
  <2> DEFINE i == Phis(g, q)[k]
             x == g.select[q[k]]
             vt == ValueOf(g, q, x.t)
             vf == ValueOf(g, q, x.f)
  <2>1. \A j \in 1 .. k - 1 : Car(h)[g.values + j] = SelectsOf(g)[q[j]]
    BY <1>4
  <2>2. /\ k \in 1 .. Len(q) + 1 /\ q[k] \in DOMAIN g.select
        /\ ValueFits(g, q, k, x.t) /\ ValueFits(g, q, k, x.f)
    BY <1>1, <1>2, TodoFits
  <2>3. /\ i.op = "phi" /\ i.out = g.values + k /\ i \in Instructions
        /\ i.in[1] = x.cond /\ i.in[2] = vt /\ i.in[3] = vf
    BY <1>2, <1>3 DEF PhisOK
  <2>4. SelectsOf(g)[q[k]] = SelectedBy(x, Car(g), SelectsOf(g))
    BY <1>1, <2>2, SelectsEquation
  <2>5. Car(h)[x.cond] = Car(g)[x.cond]
    <3>1. x.cond \in 1 .. g.values
      BY <1>1, <2>2, SelectIs
    <3>2. QED
      BY <3>1 DEF Extends
  <2> HIDE DEF x, i
  <2>6. Car(h)[vt] = WorldsOf(Car(g), SelectsOf(g), x.t) /\ Car(h)[vf] = WorldsOf(Car(g), SelectsOf(g), x.f)
    BY <2>1, <2>2, PhiReads
  <2>7. Car(h)[i.out] = Computed(i, Car(h))
    <3>1. i \in MadeBy(h) /\ i.out # None
      BY <1>1, <1>2, <2>3 DEF i, None
    <3>2. QED
      BY <3>1, MadeCarries
  <2>8. Computed(i, Car(h)) = Choice(Car(h)[x.cond], Car(h)[vt], Car(h)[vf])
    BY <2>3 DEF Computed
  <2>9. QED
    BY <2>3, <2>4, <2>5, <2>6, <2>7, <2>8 DEF SelectedBy
<1>5. \A k \in 1 .. Len(q) : k \in S
  <2> HIDE DEF S
  <2>1. QED
    BY <1>2, <1>4, CompleteInduction
<1>6. QED
  BY <1>2, <1>5

\* Select.Value adds phis that carry their selects, and changes no picture.
LEMMA AddPhisIs ==
  ASSUME NEW g, GenOK(g), NEW b \in DOMAIN g.block, NEW q, TodoOK(g, q)
  PROVE  LET h == AddPhis(g, b, q)
         IN /\ More(g, h, b, Phis(g, q)) /\ h.values = g.values + Len(q)
            /\ \A k \in DOMAIN q : Car(h)[g.values + k] = SelectsOf(g)[q[k]]
<1> DEFINE h == AddPhis(g, b, q)
<1>1. Typed(g) /\ Once(g) /\ CopyOnWrite(g) /\ Resolved(g) /\ g.values \in Nat
  BY TypedFields DEF GenOK
<1>2. PhisPut(g, h, b, q)
  BY <1>1, AddPhisPut
<1> HIDE DEF h
<1>3. Edits(g, h, b, Phis(g, q)) /\ SameShape(h.block[b], g.block[b])
  BY <1>1, <1>2, AddPhisEdits
<1>4. Typed(h)
  BY <1>1, <1>3, EditTyped
<1>5. Once(h) /\ CopyOnWrite(h) /\ Extends(g, h) /\ \A l \in DOMAIN Phis(g, q) : Phis(g, q)[l] \in MadeBy(h)
  BY <1>1, <1>3, EditKeeps
<1>6. Picture(h) = Picture(g)
  <2>1. PictureEdited(g, h, b)
    BY <1>1, <1>3, EditPicture
  <2>2. QED
    BY <2>1, <1>3 DEF PictureEdited
<1>7. PhisOK(g, q)
  BY <1>1, PhisAre
<1>8. \A k \in DOMAIN q : Car(h)[g.values + k] = SelectsOf(g)[q[k]]
  <2>1. \A k \in DOMAIN q : Phis(g, q)[k] \in MadeBy(h)
    BY <1>5, <1>7 DEF PhisOK
  <2>2. QED
    BY <2>1, <1>4, <1>5, PhisCarry
<1>9. Resolved(h)
  <2> SUFFICES ASSUME NEW s \in DOMAIN h.select, h.select[s].resolved # None
               PROVE  Car(h)[h.select[s].resolved] = SelectsOf(h)[s]
    BY DEF Resolved, Car
  <2>1. /\ s \in DOMAIN g.select
        /\ \/ h.select[s].resolved = g.select[s].resolved
           \/ \E j \in DOMAIN q : q[j] = s /\ h.select[s].resolved = g.values + j
    BY <1>2 DEF PhisPut
  <2>2. SelectsOf(h)[s] = SelectsOf(g)[s]
    BY <1>5, <2>1 DEF Extends
  <2>3. CASE h.select[s].resolved = g.select[s].resolved
    <3>1. Car(g)[g.select[s].resolved] = SelectsOf(g)[s]
      BY <1>1, <2>1, <2>3 DEF Resolved, Car
    <3>2. g.select[s].resolved \in 1 .. g.values
      BY <1>1, <2>1, <2>3, SelectIs DEF None
    <3>3. QED
      BY <2>2, <2>3, <3>1, <3>2, <1>5 DEF Extends
  <2>4. CASE \E j \in DOMAIN q : q[j] = s /\ h.select[s].resolved = g.values + j
    BY <2>2, <2>4, <1>8
  <2>5. QED
    BY <2>1, <2>3, <2>4
<1>10. GenOK(h)
  BY <1>4, <1>5, <1>9 DEF GenOK
<1>11. Phis(g, q) \in Seq(Instructions)
  BY <1>7 DEF PhisOK
<1>12. More(g, h, b, Phis(g, q)) /\ h.values = g.values + Len(q)
  BY <1>2, <1>5, <1>6, <1>10, <1>11 DEF More, PhisPut
<1>13. QED
  BY <1>8, <1>12 DEF h

\* Binding.Value: phis are added to the block, and the value carries what the bound is.
ResolvedTo(g, b, p, h, v) ==
  /\ \E new : More(g, h, b, new)
  /\ v \in 1 .. h.values /\ Car(h)[v] = Chosen(g, p)

\* Resolve returns a value that carries what the bound means in every world.
LEMMA ResolveIs ==
  ASSUME NEW g, GenOK(g), NEW b \in DOMAIN g.block, NEW p \in Bounds, Within(g, p)
  PROVE  ResolvedTo(g, b, p, Resolve(g, b, p).gen, Resolve(g, b, p).v)
<1> DEFINE q == Under(Unresolved(g), p, <<>>)
           h == AddPhis(g, b, q)
           v == ValueOf(g, q, p)
<1>1. Typed(g) /\ g.values \in Nat
  BY TypedFields DEF GenOK
<1>2. Resolve(g, b, p).gen = h /\ Resolve(g, b, p).v = v
  BY DEF Resolve
<1>3. TodoOK(g, <<>>)
  BY DEF TodoOK
<1>4. TodoOK(g, q) /\ Has(g, q, p)
  <2>1. PICK s \in Nat : p.select => p.at <= s /\ p.at \in DOMAIN g.select
    BY DEF Bounds, Within
  <2>2. p.select => p.at <= s /\ \A u : TodoOK(g, u) => Visits(g, p.at, u, Unresolved(g)[p.at][u])
    BY <1>1, <2>1, VisitIs
  <2>3. QED
    BY <1>1, <1>3, <2>2, UnderIs
<1> HIDE DEF q
<1>5. More(g, h, b, Phis(g, q)) /\ h.values = g.values + Len(q)
      /\ \A k \in DOMAIN q : Car(h)[g.values + k] = SelectsOf(g)[q[k]]
  BY <1>4, AddPhisIs
<1> HIDE DEF h
<1>6. q \in Seq(Nat) /\ Len(q) \in Nat /\ DOMAIN q = 1 .. Len(q) /\ Len(q) + 1 \in 1 .. Len(q) + 1
  BY <1>4 DEF TodoOK
<1>7. ValueFits(g, q, Len(q) + 1, p)
  BY <1>1, <1>4, TodoFits
<1>8. v \in 1 .. h.values
  <2>1. v \in 1 .. g.values + (Len(q) + 1) - 1
    BY <1>1, <1>4, <1>6, <1>7, ValueOfIs
  <2> HIDE DEF v
  <2>2. QED
    BY <1>1, <1>5, <1>6, <2>1
<1>9. Car(h)[v] = Chosen(g, p)
  <2>1. Extends(g, h)
    BY <1>5 DEF More
  <2>2. \A j \in 1 .. (Len(q) + 1) - 1 : Car(h)[g.values + j] = SelectsOf(g)[q[j]]
    BY <1>5, <1>6
  <2>3. Car(h)[v] = WorldsOf(Car(g), SelectsOf(g), p)
    BY <1>4, <1>6, <1>7, <2>1, <2>2, PhiReads
  <2>4. QED
    BY <2>3 DEF Chosen, Car
<1>10. QED
  BY <1>2, <1>5, <1>8, <1>9 DEF ResolvedTo

(***************************************************************************)
(* Bindings that copies share until one of them writes.                    *)
(***************************************************************************)

\* h is g with other blocks, arrays and selects, and the same instructions.
Rebinds(g, h) ==
  /\ h \in Gens /\ h.values = g.values
  /\ Len(g.block) <= Len(h.block) /\ Len(g.select) <= Len(h.select)
  /\ \A c \in DOMAIN g.block : h.block[c].instr = g.block[c].instr
  /\ \A c \in DOMAIN h.block : c \notin DOMAIN g.block => h.block[c].instr = <<>>
  /\ \A c \in DOMAIN h.block : h.block[c].cond \in 0 .. h.values /\ h.block[c].bindings.at \in DOMAIN h.array
  /\ ArraysOK(h) /\ SelectsOK(h) /\ CopyOnWrite(h)
  /\ \A s \in DOMAIN g.select : h.select[s] = g.select[s]
  /\ \A s \in DOMAIN h.select : s \notin DOMAIN g.select => h.select[s].resolved = None

\* Other arrays and selects leave what is carried, if a written array is one block's own.
LEMMA RebindsKeeps ==
  ASSUME NEW g, GenOK(g), NEW h, Rebinds(g, h)
  PROVE  GenOK(h) /\ Extends(g, h)
<1>1. Typed(g) /\ Once(g) /\ Resolved(g)
  BY DEF GenOK
<1>2. /\ DOMAIN g.block = 1 .. Len(g.block) /\ DOMAIN g.select = 1 .. Len(g.select)
      /\ g.values \in Nat /\ g.values >= Arg(Len(Args) + 1)
      /\ Len(g.block) \in Nat /\ Len(g.select) \in Nat
  BY <1>1, TypedFields
<1>3. /\ h \in Gens /\ h.block \in Seq(Blocks) /\ DOMAIN h.block = 1 .. Len(h.block) /\ h.select \in Seq(Selects)
      /\ DOMAIN h.select = 1 .. Len(h.select) /\ h.values = g.values
      /\ Len(h.block) \in Nat /\ Len(h.select) \in Nat
  BY DEF Gens, Rebinds
<1>4. /\ \A c \in DOMAIN g.block : c \in DOMAIN h.block /\ h.block[c].instr = g.block[c].instr
      /\ \A c \in DOMAIN h.block : \A k \in DOMAIN h.block[c].instr : c \in DOMAIN g.block
      /\ \A s \in DOMAIN g.select : s \in DOMAIN h.select
  BY <1>2, <1>3 DEF Rebinds
<1>5. /\ \A p : Within(g, p) => Within(h, p)
      /\ \A i \in Instructions : InstrOK(g, i) => InstrOK(h, i)
  BY <1>1, <1>2, <1>3, WithinGrows DEF Rebinds
<1>6. Typed(h)
  <2>1. ASSUME NEW c \in DOMAIN h.block, NEW k \in DOMAIN h.block[c].instr PROVE InstrOK(h, h.block[c].instr[k])
    <3>1. c \in DOMAIN g.block /\ h.block[c].instr = g.block[c].instr
      BY <1>4
    <3>2. InstrOK(g, g.block[c].instr[k]) /\ g.block[c].instr[k] \in Instructions
      BY <1>1, <3>1, TypedFields, BlockFields DEF Typed, BlocksOK
    <3>3. QED
      BY <1>5, <3>1, <3>2
  <2>2. BlocksOK(h)
    BY <2>1 DEF Rebinds, BlocksOK
  <2>3. QED
    BY <1>2, <1>3, <2>2 DEF Typed, Rebinds
<1>7. Once(h)
  <2> SUFFICES ASSUME NEW b \in DOMAIN h.block, NEW c \in DOMAIN h.block,
                      NEW k \in DOMAIN h.block[b].instr, NEW l \in DOMAIN h.block[c].instr,
                      h.block[b].instr[k].out = h.block[c].instr[l].out, h.block[b].instr[k].out # None
               PROVE  b = c /\ k = l
    BY DEF Once
  <2>1. /\ b \in DOMAIN g.block /\ c \in DOMAIN g.block
        /\ h.block[b].instr = g.block[b].instr /\ h.block[c].instr = g.block[c].instr
    BY <1>4
  <2>2. QED
    BY <1>1, <2>1 DEF Once
<1>8. MadeBy(h) = MadeBy(g)
  <2>1. ASSUME NEW i \in MadeBy(h) PROVE i \in MadeBy(g)
    <3>1. PICK b \in DOMAIN h.block : \E k \in DOMAIN h.block[b].instr : i = h.block[b].instr[k]
      BY <1>6, MadeIs
    <3>2. b \in DOMAIN g.block /\ h.block[b].instr = g.block[b].instr
      BY <1>4, <3>1
    <3>3. QED
      BY <1>1, <3>1, <3>2, MadeIs
  <2>2. ASSUME NEW i \in MadeBy(g) PROVE i \in MadeBy(h)
    <3>1. PICK b \in DOMAIN g.block : \E k \in DOMAIN g.block[b].instr : i = g.block[b].instr[k]
      BY <1>1, MadeIs
    <3>2. b \in DOMAIN h.block /\ h.block[b].instr = g.block[b].instr
      BY <1>4
    <3>3. QED
      BY <1>6, <3>1, <3>2, MadeIs
  <2>3. QED
    BY <2>1, <2>2
<1>9. Extends(g, h)
  <2>1. Grows(g, h)
    BY <1>2, <1>3, <1>8 DEF Grows, Rebinds
  <2>2. QED
    BY <1>1, <1>6, <1>7, <2>1, GrowExtends
<1>10. Resolved(h)
  <2> SUFFICES ASSUME NEW s \in DOMAIN h.select, h.select[s].resolved # None
               PROVE  Car(h)[h.select[s].resolved] = SelectsOf(h)[s]
    BY DEF Resolved, Car
  <2>1. s \in DOMAIN g.select /\ h.select[s] = g.select[s]
    BY DEF Rebinds
  <2>2. Car(g)[g.select[s].resolved] = SelectsOf(g)[s]
    BY <1>1, <2>1 DEF Resolved, Car
  <2>3. g.select[s].resolved \in 1 .. g.values
    BY <1>1, <1>2, <2>1, SelectIs DEF None
  <2>4. QED
    BY <1>9, <2>1, <2>2, <2>3 DEF Extends
<1>11. QED
  BY <1>6, <1>7, <1>9, <1>10 DEF GenOK, Rebinds

\* h is g with these blocks, arrays and selects.
Store(g, bs, as, ss) == [g EXCEPT !.block = bs, !.array = as, !.select = ss]
IsStore(g, h, bs, as, ss) ==
  /\ h \in Gens /\ h.block = bs /\ h.array = as /\ h.select = ss
  /\ h.values = g.values /\ h.panic = g.panic

\* The parts of a generator with other blocks, arrays and selects.
LEMMA StoreIs ==
  ASSUME NEW g, Typed(g), NEW bs \in Seq(Blocks), NEW as \in Seq(Arrays), NEW ss \in Seq(Selects)
  PROVE  IsStore(g, Store(g, bs, as, ss), bs, as, ss)
<1> DEFINE k == g.block
           l == g.array
           m == g.select
           x == g.values
           q == g.panic
           h == [block |-> bs, array |-> as, select |-> ss, values |-> x, panic |-> q]
<1>1. x \in Nat /\ q \in BOOLEAN /\ g = [block |-> k, array |-> l, select |-> m, values |-> x, panic |-> q]
  BY TypedFields
<1> HIDE DEF k, l, m, x, q
<1>2. Store(g, bs, as, ss) = h
  <2> DEFINE i == Store(g, bs, as, ss)
  <2>1. i = [g EXCEPT !.block = bs, !.array = as, !.select = ss]
    BY DEF Store
  <2> HIDE DEF i
  <2>2. i = h
    BY <1>1, <2>1
  <2>3. QED
    BY <2>2 DEF i
<1>3. h \in Gens
  BY <1>1 DEF Gens
<1>4. h.block = bs /\ h.array = as /\ h.select = ss /\ h.values = x /\ h.panic = q
  OBVIOUS
<1> HIDE DEF h
<1>5. QED
  BY <1>2, <1>3, <1>4 DEF x, q, IsStore

\* A name of a block is bound.
Bind(array, name, bound) == [n \in DOMAIN array \cup {name} |-> IF n = name THEN bound ELSE array[n]]
Rebound(view, name, ws) == [n \in DOMAIN view \cup {name} |-> IF n = name THEN ws ELSE view[n]]

\* An array in which a name is bound anew.
LEMMA BindIs ==
  ASSUME NEW g, Typed(g), NEW b \in DOMAIN g.block, NEW name \in Names, NEW bound \in Bounds, Within(g, bound)
  PROVE  /\ Bind(Bindings(g, b), name, bound) \in Arrays
         /\ DOMAIN Bind(Bindings(g, b), name, bound) = DOMAIN Bindings(g, b) \cup {name}
         /\ IsFiniteSet(DOMAIN Bind(Bindings(g, b), name, bound))
         /\ \A n \in DOMAIN Bind(Bindings(g, b), name, bound) : Within(g, Bind(Bindings(g, b), name, bound)[n])
         /\ Worlds(g, Bind(Bindings(g, b), name, bound)) = Rebound(Worlds(g, Bindings(g, b)), name, Chosen(g, bound))
<1> DEFINE old == Bindings(g, b)
           new == Bind(old, name, bound)
<1>1. /\ old \in Arrays /\ IsFiniteSet(DOMAIN old) /\ DOMAIN old \subseteq Names
      /\ \A n \in DOMAIN old : old[n] \in Bounds /\ Within(g, old[n])
  BY BindingsIs
<1> HIDE DEF old
<1>2. DOMAIN new = DOMAIN old \cup {name}
  BY DEF Bind
<1>3. IsFiniteSet(DOMAIN old \cup {name})
  BY <1>1, FS_AddElement
<1>4. \A n \in DOMAIN old \cup {name} : new[n] = IF n = name THEN bound ELSE old[n]
  BY DEF Bind
<1>5. new \in [DOMAIN old \cup {name} -> Bounds]
  BY <1>1, <1>4 DEF Bind
<1>6. new \in Arrays
  BY <1>1, <1>5 DEF Arrays
<1>7. Worlds(g, new) = Rebound(Worlds(g, old), name, Chosen(g, bound))
  BY <1>2, <1>4 DEF Worlds, Rebound
<1>8. QED
  BY <1>1, <1>2, <1>3, <1>4, <1>6, <1>7 DEF old

\* The boxes of the blocks, all but b, are what they were.
SetDone(g, h, b, name, bound) ==
  /\ GenOK(h) /\ Extends(g, h) /\ h.values = g.values /\ h.panic = g.panic /\ h.select = g.select
  /\ Len(h.block) = Len(g.block) /\ OthersKept(g, h, b)
  /\ \A c \in DOMAIN g.block : c # b => h.block[c] = g.block[c]
  /\ SameShape(h.block[b], g.block[b]) /\ h.block[b].instr = g.block[b].instr
  /\ Picture(h)[b].next = Picture(g)[b].next /\ Picture(h)[b].branch = Picture(g)[b].branch
  /\ Picture(h)[b].dead = Picture(g)[b].dead /\ Picture(h)[b].when = Picture(g)[b].when
  /\ Picture(h)[b].view = Rebound(Picture(g)[b].view, name, Chosen(g, bound))

\* Whatever writes the bindings of one block only.
Rewrites(g, h, b, array) ==
  /\ Rebinds(g, h) /\ Bindings(h, b) = array
  /\ Len(h.block) = Len(g.block)
  /\ \A c \in DOMAIN g.block : c # b => h.block[c] = g.block[c] /\ Bindings(h, c) = Bindings(g, c)
  /\ SameShape(h.block[b], g.block[b])

\* To write the bindings of one block changes the names in its box and nothing else.
LEMMA RewritesShow ==
  ASSUME NEW g, GenOK(g), NEW h, NEW b \in DOMAIN g.block, NEW array, Rewrites(g, h, b, array)
  PROVE  /\ GenOK(h) /\ Extends(g, h) /\ OthersKept(g, h, b) /\ DOMAIN h.block = DOMAIN g.block
         /\ Picture(h)[b].next = Picture(g)[b].next /\ Picture(h)[b].branch = Picture(g)[b].branch
         /\ Picture(h)[b].dead = Picture(g)[b].dead /\ Picture(h)[b].when = Picture(g)[b].when
         /\ Picture(h)[b].view = Worlds(h, array)
<1>1. GenOK(h) /\ Extends(g, h) /\ Typed(g) /\ Typed(h)
  BY RebindsKeeps DEF Rewrites, GenOK
<1>2. DOMAIN h.block = DOMAIN g.block
  BY <1>1, TypedFields DEF Rewrites
<1>3. OthersKept(g, h, b)
  <2>1. ASSUME NEW c \in DOMAIN g.block, c # b PROVE Picture(h)[c] = Picture(g)[c]
    <3>1. h.block[c] = g.block[c] /\ Bindings(h, c) = Bindings(g, c) /\ c \in DOMAIN h.block
      BY <1>2, <2>1 DEF Rewrites
    <3>2. QED
      BY <1>1, <3>1, BoxKept
  <2>2. DOMAIN Picture(h) = DOMAIN Picture(g)
    BY <1>2 DEF Picture
  <2>3. QED
    BY <2>1, <2>2 DEF OthersKept
<1>4. Shown(g, b) /\ Shown(h, b)
  BY <1>2, ShownIs
<1>5. SameShape(h.block[b], g.block[b]) /\ Bindings(h, b) = array
  BY DEF Rewrites
<1>6. g.block[b].cond # None => Car(h)[g.block[b].cond] = Car(g)[g.block[b].cond]
  <2>1. g.block[b].cond \in 0 .. g.values /\ g.values \in Nat
    BY <1>1, TypedFields DEF Typed, BlocksOK
  <2>2. QED
    BY <2>1, <1>1 DEF Extends, None
<1>7. /\ Picture(h)[b].next = Picture(g)[b].next /\ Picture(h)[b].branch = Picture(g)[b].branch
      /\ Picture(h)[b].dead = Picture(g)[b].dead
  BY <1>4, <1>5 DEF Shown, SameShape
<1>8. Picture(h)[b].when = Picture(g)[b].when
  BY <1>4, <1>5, <1>6 DEF Shown, SameShape
<1>9. Picture(h)[b].view = Worlds(h, array)
  BY <1>4, <1>5 DEF Shown
<1>10. QED
  BY <1>1, <1>2, <1>3, <1>7, <1>8, <1>9

\* An array shows the same in what extends a generator.
LEMMA WorldsKept ==
  ASSUME NEW g, Typed(g), NEW h, Typed(h), Extends(g, h), NEW array, \A n \in DOMAIN array : Within(g, array[n])
  PROVE  Worlds(h, array) = Worlds(g, array)
<1>1. \A n \in DOMAIN array : Chosen(h, array[n]) = Chosen(g, array[n])
  BY ExtendsWithin
<1>2. QED
  BY <1>1 DEF Worlds

\* The array of a block is written: its own one, or a new one.
Own(at) == [shared |-> FALSE, at |-> at]
Rebind(k, handle) == [k EXCEPT !.bindings = handle]

\* A block with other bindings keeps the rest.
LEMMA RebindIs ==
  ASSUME NEW k \in Blocks, NEW handle \in Handles
  PROVE  /\ Rebind(k, handle) \in Blocks /\ Rebind(k, handle).bindings = handle
         /\ Rebind(k, handle).instr = k.instr /\ SameShape(Rebind(k, handle), k)
<1> DEFINE l == Rebind(k, handle)
<1>1. l = [k EXCEPT !.bindings = handle]
  BY DEF Rebind
<1> HIDE DEF l
<1>2. l = [bindings |-> handle, instr |-> k.instr, next |-> k.next, branch |-> k.branch, cond |-> k.cond, dead |-> k.dead]
  BY <1>1 DEF Blocks
<1>3. l \in Blocks
  BY <1>2 DEF Blocks
<1>4. l.bindings = handle /\ l.instr = k.instr /\ SameShape(l, k)
  BY <1>2 DEF SameShape
<1>5. QED
  BY <1>3, <1>4 DEF l

\* The handle of an array that is one block's own.
LEMMA OwnIs ==
  ASSUME NEW at \in Nat
  PROVE  Own(at) \in Handles /\ Own(at).at = at /\ Own(at).shared = FALSE
BY DEF Own, Handles
SetOwn(g, b, array) == Store(g, g.block, [g.array EXCEPT ![g.block[b].bindings.at] = array], g.select)
SetNew(g, b, array) ==
  Store(g, [g.block EXCEPT ![b] = Rebind(g.block[b], Own(Len(g.array) + 1))], Append(g.array, array), g.select)

\* Arrays and selects stay well formed when one array is added or written.
LEMMA ArrayFits ==
  ASSUME NEW g, Typed(g), NEW array \in Arrays, IsFiniteSet(DOMAIN array), \A n \in DOMAIN array : Within(g, array[n]),
         NEW h \in Gens, h.values = g.values, h.select = g.select,
         \A a \in DOMAIN h.array : h.array[a] = array \/ \E l \in DOMAIN g.array : h.array[a] = g.array[l]
  PROVE  ArraysOK(h) /\ SelectsOK(h)
<1>1. \A p : Within(h, p) = Within(g, p)
  BY DEF Within
<1>2. ArraysOK(g) /\ SelectsOK(g)
  BY DEF Typed
<1>3. SelectsOK(h)
  BY <1>1, <1>2 DEF SelectsOK
<1>4. ArraysOK(h)
  BY <1>1, <1>2 DEF ArraysOK
<1>5. QED
  BY <1>3, <1>4

\* Bindings.set on an array that is not shared writes it in place.
LEMMA SetOwnIs ==
  ASSUME NEW g, GenOK(g), NEW b \in DOMAIN g.block, ~g.block[b].bindings.shared,
         NEW array \in Arrays, IsFiniteSet(DOMAIN array), \A n \in DOMAIN array : Within(g, array[n])
  PROVE  LET h == SetOwn(g, b, array)
         IN Rewrites(g, h, b, array) /\ h.panic = g.panic /\ h.select = g.select /\ h.block[b].instr = g.block[b].instr
<1> DEFINE as == [g.array EXCEPT ![g.block[b].bindings.at] = array]
           h == SetOwn(g, b, array)
<1>1. Typed(g) /\ CopyOnWrite(g)
  BY DEF GenOK
<1>2. /\ g.block \in Seq(Blocks) /\ g.array \in Seq(Arrays) /\ g.select \in Seq(Selects)
      /\ DOMAIN g.array = 1 .. Len(g.array) /\ Len(g.array) \in Nat /\ Len(g.block) \in Nat /\ Len(g.select) \in Nat
      /\ \A a \in DOMAIN g.array : g.array[a] \in Arrays
  BY <1>1, TypedFields
<1>3. \A c \in DOMAIN g.block : g.block[c].bindings.at \in DOMAIN g.array /\ g.block[c].cond \in 0 .. g.values
  BY <1>1 DEF Typed, BlocksOK
<1>4. as \in [1 .. Len(g.array) -> Arrays]
  BY <1>2
<1>5. as \in Seq(Arrays) /\ DOMAIN as = DOMAIN g.array
  BY <1>2, <1>4
<1>6. \A a \in DOMAIN g.array : as[a] = IF a = g.block[b].bindings.at THEN array ELSE g.array[a]
  OBVIOUS
<1>15. h = Store(g, g.block, as, g.select)
  BY DEF SetOwn
<1> HIDE DEF h, as
<1>16. IsStore(g, h, g.block, as, g.select)
  BY <1>1, <1>2, <1>5, <1>15, StoreIs
<1>7. /\ h \in Gens /\ h.block = g.block /\ h.array = as /\ h.select = g.select
      /\ h.values = g.values /\ h.panic = g.panic
  BY <1>16 DEF IsStore
<1>8. Bindings(h, b) = array
  BY <1>3, <1>6, <1>7 DEF Bindings
<1>9. ASSUME NEW c \in DOMAIN g.block, c # b PROVE Bindings(h, c) = Bindings(g, c)
  <2>1. g.block[c].bindings.at # g.block[b].bindings.at
    BY <1>1, <1>9 DEF CopyOnWrite
  <2>2. QED
    BY <2>1, <1>3, <1>6, <1>7 DEF Bindings
<1>10. ArraysOK(h) /\ SelectsOK(h)
  <2>1. \A a \in DOMAIN h.array : h.array[a] = array \/ \E l \in DOMAIN g.array : h.array[a] = g.array[l]
    BY <1>5, <1>6, <1>7
  <2>2. h \in Gens /\ h.values = g.values /\ h.select = g.select
    BY <1>7
  <2>3. QED
    BY <1>1, <2>1, <2>2, ArrayFits
<1>11. CopyOnWrite(h)
  BY <1>1, <1>7 DEF CopyOnWrite
<1>12. Rebinds(g, h)
  BY <1>2, <1>3, <1>5, <1>7, <1>10, <1>11 DEF Rebinds
<1>13. Rewrites(g, h, b, array)
  BY <1>7, <1>8, <1>9, <1>12 DEF Rewrites, SameShape
<1>14. QED
  BY <1>7, <1>13 DEF h

\* Bindings.set on a shared array writes a copy, which is the block's own from then on.
LEMMA SetNewIs ==
  ASSUME NEW g, GenOK(g), NEW b \in DOMAIN g.block,
         NEW array \in Arrays, IsFiniteSet(DOMAIN array), \A n \in DOMAIN array : Within(g, array[n])
  PROVE  LET h == SetNew(g, b, array)
         IN Rewrites(g, h, b, array) /\ h.panic = g.panic /\ h.select = g.select /\ h.block[b].instr = g.block[b].instr
<1> DEFINE as == Append(g.array, array)
           k == Rebind(g.block[b], Own(Len(g.array) + 1))
           bs == [g.block EXCEPT ![b] = k]
           h == SetNew(g, b, array)
<1>1. Typed(g) /\ CopyOnWrite(g)
  BY DEF GenOK
<1>2. /\ g.block \in Seq(Blocks) /\ g.array \in Seq(Arrays) /\ g.select \in Seq(Selects)
      /\ DOMAIN g.array = 1 .. Len(g.array) /\ Len(g.array) \in Nat /\ Len(g.block) \in Nat /\ Len(g.select) \in Nat
      /\ DOMAIN g.block = 1 .. Len(g.block) /\ g.block[b] \in Blocks
  BY <1>1, TypedFields
<1>3. \A c \in DOMAIN g.block : g.block[c].bindings.at \in DOMAIN g.array /\ g.block[c].cond \in 0 .. g.values
  BY <1>1 DEF Typed, BlocksOK
<1>4. /\ k \in Blocks /\ k.bindings.at = Len(g.array) + 1 /\ k.instr = g.block[b].instr
      /\ SameShape(k, g.block[b])
  <2>1. Len(g.array) + 1 \in Nat
    BY <1>2
  <2> DEFINE o == Own(Len(g.array) + 1)
  <2>2. o \in Handles /\ o.at = Len(g.array) + 1
    BY <2>1, OwnIs
  <2> HIDE DEF o
  <2>3. k \in Blocks /\ k.bindings = o /\ k.instr = g.block[b].instr /\ SameShape(k, g.block[b])
    BY <1>2, <2>2, RebindIs DEF o
  <2>4. QED
    BY <2>2, <2>3
<1> HIDE DEF k
<1>5. bs \in [1 .. Len(g.block) -> Blocks]
  BY <1>2, <1>4
<1>6. bs \in Seq(Blocks) /\ DOMAIN bs = DOMAIN g.block /\ Len(bs) = Len(g.block)
  BY <1>2, <1>5
<1>7. \A c \in DOMAIN g.block : bs[c] = IF c = b THEN k ELSE g.block[c]
  OBVIOUS
<1>8. /\ as \in Seq(Arrays) /\ DOMAIN as = 1 .. Len(g.array) + 1 /\ as[Len(g.array) + 1] = array
      /\ \A a \in DOMAIN g.array : as[a] = g.array[a] /\ a \in DOMAIN as
  BY <1>2
<1>17. h = Store(g, bs, as, g.select)
  BY DEF SetNew, k
<1> HIDE DEF h, as, bs
<1>18. IsStore(g, h, bs, as, g.select)
  BY <1>1, <1>2, <1>6, <1>8, <1>17, StoreIs
<1>9. /\ h \in Gens /\ h.block = bs /\ h.array = as /\ h.select = g.select
      /\ h.values = g.values /\ h.panic = g.panic
  BY <1>18 DEF IsStore
<1>10. Bindings(h, b) = array
  BY <1>4, <1>7, <1>8, <1>9 DEF Bindings
<1>11. ASSUME NEW c \in DOMAIN g.block, c # b PROVE Bindings(h, c) = Bindings(g, c) /\ h.block[c] = g.block[c]
  BY <1>3, <1>7, <1>8, <1>9, <1>11 DEF Bindings
<1>12. ArraysOK(h) /\ SelectsOK(h)
  <2>1. ASSUME NEW a \in DOMAIN h.array
        PROVE  h.array[a] = array \/ \E l \in DOMAIN g.array : h.array[a] = g.array[l]
    <3> DEFINE n == Len(g.array)
    <3>1. a \in 1 .. n + 1 /\ h.array[a] = as[a] /\ n \in Nat
      BY <1>2, <1>8, <1>9
    <3>2. as[n + 1] = array /\ \A l \in 1 .. n : l \in DOMAIN g.array /\ as[l] = g.array[l]
      BY <1>2, <1>8
    <3> HIDE DEF n
    <3>3. a = n + 1 \/ a \in 1 .. n
      BY <3>1
    <3>4. QED
      BY <3>1, <3>2, <3>3
  <2>2. h \in Gens /\ h.values = g.values /\ h.select = g.select
    BY <1>9
  <2>3. QED
    BY <1>1, <2>1, <2>2, ArrayFits
<1>13. CopyOnWrite(h)
  <2>1. h.block[b].bindings.at = Len(g.array) + 1
    BY <1>4, <1>7, <1>9
  <2>2. ASSUME NEW c \in DOMAIN g.block, c # b
        PROVE  h.block[c] = g.block[c] /\ h.block[c].bindings.at # Len(g.array) + 1
    <3>1. h.block[c] = g.block[c]
      BY <1>11, <2>2
    <3>2. g.block[c].bindings.at \in 1 .. Len(g.array) /\ Len(g.array) \in Nat
      BY <1>2, <1>3
    <3>3. QED
      BY <3>1, <3>2
  <2>3. DOMAIN h.block = DOMAIN g.block
    BY <1>6, <1>9
  <2>4. QED
    BY <1>1, <2>1, <2>2, <2>3 DEF CopyOnWrite
<1>14. Rebinds(g, h)
  <2>1. ASSUME NEW c \in DOMAIN g.block
        PROVE  /\ h.block[c].instr = g.block[c].instr /\ h.block[c].cond \in 0 .. g.values
               /\ h.block[c].bindings.at \in DOMAIN as
    <3>1. CASE c = b
      <4>1. h.block[c] = k /\ Len(g.array) + 1 \in DOMAIN as
        BY <1>2, <1>7, <1>8, <1>9, <3>1
      <4>2. QED
        BY <1>3, <1>4, <3>1, <4>1 DEF SameShape
    <3>2. CASE c # b
      <4>1. h.block[c] = g.block[c]
        BY <1>11, <3>2
      <4>2. QED
        BY <1>3, <1>8, <4>1
    <3>3. QED
      BY <3>1, <3>2
  <2>2. /\ h \in Gens /\ h.values = g.values /\ Len(h.block) = Len(g.block) /\ h.select = g.select
        /\ DOMAIN h.block = DOMAIN g.block /\ h.array = as /\ Len(g.block) \in Nat /\ Len(g.select) \in Nat
    BY <1>2, <1>6, <1>9
  <2>3. \A c \in DOMAIN h.block : h.block[c].cond \in 0 .. h.values /\ h.block[c].bindings.at \in DOMAIN h.array
    BY <2>1, <2>2
  <2>4. /\ Len(g.block) <= Len(h.block) /\ Len(g.select) <= Len(h.select)
        /\ \A c \in DOMAIN h.block : c \in DOMAIN g.block
        /\ \A s \in DOMAIN h.select : s \in DOMAIN g.select
    BY <2>2
  <2>5. \A c \in DOMAIN g.block : h.block[c].instr = g.block[c].instr
    BY <2>1
  <2>6. QED
    BY <1>12, <1>13, <2>2, <2>3, <2>4, <2>5 DEF Rebinds
<1>15. Rewrites(g, h, b, array) /\ h.block[b].instr = g.block[b].instr
  BY <1>4, <1>6, <1>7, <1>9, <1>10, <1>11, <1>14 DEF Rewrites
<1>16. QED
  BY <1>9, <1>15 DEF h

\* The elements of a set, one after the other.
Lists(q, S) == /\ q \in Seq(S) /\ \A n \in S : \E k \in DOMAIN q : q[k] = n
               /\ \A k, l \in DOMAIN q : q[k] = q[l] => k = l

\* A finite set has a list of its elements.
LEMMA SetToSeqIs ==
  ASSUME NEW S, IsFiniteSet(S)
  PROVE  Lists(SetToSeq(S), S)
<1> DEFINE m == Cardinality(S)
<1>1. m \in Nat /\ ExistsBijection(1 .. m, S)
  BY FS_CardinalityType
<1>2. \E f \in [1 .. m -> S] : IsInjective(f)
  BY <1>1 DEF ExistsBijection, Bijection, Injection
<1> DEFINE q == SetToSeq(S)
<1>3. q \in [1 .. m -> S] /\ IsInjective(q)
  BY <1>2 DEF SetToSeq
<1> HIDE DEF q
<1>4. q \in Injection(1 .. m, S)
  BY <1>3 DEF Injection
<1>5. IsFiniteSet(1 .. m) /\ Cardinality(1 .. m) = m
  <2>1. IsFiniteSet(1 .. m) /\ Cardinality(1 .. m) = IF 1 > m THEN 0 ELSE m - 1 + 1
    BY <1>1, FS_Interval
  <2> HIDE DEF m
  <2>2. QED
    BY <1>1, <2>1
<1>6. q \in Surjection(1 .. m, S)
  BY <1>4, <1>5, FS_Injection
<1> HIDE DEF m
<1>7. q \in Seq(S) /\ DOMAIN q = 1 .. m
  BY <1>1, <1>3
<1>8. \A n \in S : \E k \in DOMAIN q : q[k] = n
  BY <1>6, <1>7 DEF Surjection
<1>9. \A k, l \in DOMAIN q : q[k] = q[l] => k = l
  BY <1>3 DEF IsInjective
<1>10. QED
  BY <1>7, <1>8, <1>9 DEF Lists, q

\* Bindings.set changes what one name of one block is bound to.
LEMMA SetIs ==
  ASSUME NEW g, GenOK(g), NEW b \in DOMAIN g.block, NEW name \in Names, NEW bound \in Bounds, Within(g, bound)
  PROVE  SetDone(g, Set(g, b, name, bound), b, name, bound)
<1> DEFINE array == Bind(Bindings(g, b), name, bound)
           h == Set(g, b, name, bound)
<1>1. Typed(g)
  BY DEF GenOK
<1>2. /\ array \in Arrays /\ IsFiniteSet(DOMAIN array) /\ \A n \in DOMAIN array : Within(g, array[n])
      /\ Worlds(g, array) = Rebound(Worlds(g, Bindings(g, b)), name, Chosen(g, bound))
  BY <1>1, BindIs
<1>3. h = IF g.block[b].bindings.shared THEN SetNew(g, b, array) ELSE SetOwn(g, b, array)
  <2>1. /\ g.block \in Seq(Blocks) /\ g.array \in Seq(Arrays) /\ g.select \in Seq(Selects)
        /\ g = [block |-> g.block, array |-> g.array, select |-> g.select, values |-> g.values, panic |-> g.panic]
    BY <1>1, TypedFields
  <2>2. h = IF g.block[b].bindings.shared
            THEN [g EXCEPT !.array = Append(g.array, array),
                           !.block = [g.block EXCEPT ![b] = Rebind(g.block[b], Own(Len(g.array) + 1))]]
            ELSE [g EXCEPT !.array = [g.array EXCEPT ![g.block[b].bindings.at] = array]]
    BY DEF Set, Bind, Rebind, Own
  <2> DEFINE k == g.block
             l == g.array
             m == g.select
             x == g.values
             p == g.panic
             bs == [k EXCEPT ![b] = Rebind(k[b], Own(Len(l) + 1))]
             a1 == Append(l, array)
             a2 == [l EXCEPT ![k[b].bindings.at] = array]
             i1 == SetNew(g, b, array)
             i2 == SetOwn(g, b, array)
  <2>3. /\ i1 = [g EXCEPT !.block = bs, !.array = a1, !.select = m]
        /\ i2 = [g EXCEPT !.block = k, !.array = a2, !.select = m]
    BY DEF SetNew, SetOwn, Store
  <2>4. /\ g = [block |-> k, array |-> l, select |-> m, values |-> x, panic |-> p]
        /\ h = IF g.block[b].bindings.shared THEN [g EXCEPT !.array = a1, !.block = bs] ELSE [g EXCEPT !.array = a2]
    BY <2>1, <2>2
  <2> HIDE DEF k, l, m, x, p, bs, a1, a2, i1, i2, h
  <2>5. i1 = [block |-> bs, array |-> a1, select |-> m, values |-> x, panic |-> p]
    BY <2>3, <2>4
  <2>6. i2 = [block |-> k, array |-> a2, select |-> m, values |-> x, panic |-> p]
    BY <2>3, <2>4
  <2>7. CASE g.block[b].bindings.shared
    <3>1. h = [g EXCEPT !.array = a1, !.block = bs]
      BY <2>4, <2>7
    <3>2. h = [block |-> bs, array |-> a1, select |-> m, values |-> x, panic |-> p]
      BY <2>4, <3>1
    <3>3. h = i1
      BY <2>5, <3>2
    <3>4. QED
      BY <2>7, <3>3 DEF i1
  <2>8. CASE ~g.block[b].bindings.shared
    <3>1. h = [g EXCEPT !.array = a2]
      BY <2>4, <2>8
    <3>2. h = [block |-> k, array |-> a2, select |-> m, values |-> x, panic |-> p]
      BY <2>4, <3>1
    <3>3. h = i2
      BY <2>6, <3>2
    <3>4. QED
      BY <2>8, <3>3 DEF i2
  <2>9. QED
    BY <2>7, <2>8
<1> HIDE DEF h, array
<1>4. Rewrites(g, h, b, array) /\ h.panic = g.panic /\ h.select = g.select /\ h.block[b].instr = g.block[b].instr
  BY <1>2, <1>3, SetOwnIs, SetNewIs
<1>5. /\ GenOK(h) /\ Extends(g, h) /\ OthersKept(g, h, b)
      /\ Picture(h)[b].next = Picture(g)[b].next /\ Picture(h)[b].branch = Picture(g)[b].branch
      /\ Picture(h)[b].dead = Picture(g)[b].dead /\ Picture(h)[b].when = Picture(g)[b].when
      /\ Picture(h)[b].view = Worlds(h, array)
  BY <1>4, RewritesShow
<1>6. Worlds(h, array) = Worlds(g, array)
  <2>1. Typed(h)
    BY <1>5 DEF GenOK
  <2>2. QED
    BY <1>1, <1>2, <1>5, <2>1, WorldsKept
<1>7. Picture(g)[b].view = Worlds(g, Bindings(g, b))
  <2>1. Shown(g, b)
    BY ShownIs
  <2>2. QED
    BY <2>1 DEF Shown
<1>8. /\ Len(h.block) = Len(g.block) /\ h.values = g.values
      /\ \A c \in DOMAIN g.block : c # b => h.block[c] = g.block[c]
      /\ SameShape(h.block[b], g.block[b])
  BY <1>4 DEF Rewrites, Rebinds
<1>9. QED
  BY <1>2, <1>4, <1>5, <1>6, <1>7, <1>8 DEF SetDone, h

(***************************************************************************)
(* New blocks.                                                             *)
(***************************************************************************)

\* A block is added whose names are worlds view; the boxes of the others stay.
FreshBox(k, view) ==
  k.next = None /\ k.branch = None /\ k.dead = FALSE /\ k.when = {} /\ k.view = view
BlockAdded(g, h, view) ==
  /\ GenOK(h) /\ Extends(g, h) /\ h.values = g.values /\ h.panic = g.panic /\ h.select = g.select
  /\ Len(h.block) = Len(g.block) + 1
  /\ \A c \in DOMAIN g.block : /\ Picture(h)[c] = Picture(g)[c] /\ SameShape(h.block[c], g.block[c])
                               /\ h.block[c].instr = g.block[c].instr /\ Bindings(h, c) = Bindings(g, c)
  /\ FreshBox(Picture(h)[Len(g.block) + 1], view)
  /\ SameShape(h.block[Len(g.block) + 1], Fresh(Own(1))) /\ h.block[Len(g.block) + 1].instr = <<>>

FreshIs(k, handle) ==
  /\ k \in Blocks /\ k.bindings = handle /\ k.instr = <<>> /\ k.next = None /\ k.branch = None /\ k.cond = None
  /\ k.dead = FALSE

\* The parts of a fresh block.
LEMMA FreshFields ==
  ASSUME NEW handle \in Handles
  PROVE  FreshIs(Fresh(handle), handle)
<1> DEFINE k == Fresh(handle)
<1>1. k = [bindings |-> handle, instr |-> <<>>, next |-> 0, branch |-> 0, cond |-> 0, dead |-> FALSE]
  BY DEF Fresh, None
<1> HIDE DEF k
<1>2. <<>> \in Seq(Instructions)
  OBVIOUS
<1>3. k \in Blocks
  BY <1>1, <1>2 DEF Blocks
<1>4. /\ k.bindings = handle /\ k.instr = <<>> /\ k.next = 0 /\ k.branch = 0 /\ k.cond = 0
      /\ k.dead = FALSE
  BY <1>1
<1>5. QED
  BY <1>3, <1>4 DEF FreshIs, k, None

\* h is g with one more block that has a handle on the array last of h.
Appended(g, h, handle) ==
  /\ h \in Gens /\ h.values = g.values /\ h.panic = g.panic /\ h.select = g.select
  /\ h.block = Append(g.block, Fresh(handle))
  /\ handle \in Handles /\ handle.at \in DOMAIN h.array
  /\ \A a \in DOMAIN g.array : a \in DOMAIN h.array /\ h.array[a] = g.array[a]
  /\ ArraysOK(h)
  /\ \A c \in DOMAIN g.block : g.block[c].bindings.at = handle.at => g.block[c].bindings.shared /\ handle.shared

\* One more block leaves the boxes of the others.
LEMMA AppendedIs ==
  ASSUME NEW g, GenOK(g), NEW h, NEW handle, Appended(g, h, handle)
  PROVE  BlockAdded(g, h, Worlds(h, h.array[handle.at]))
<1> DEFINE n == Len(g.block)
           k == Fresh(handle)
<1>1. Typed(g) /\ CopyOnWrite(g)
  BY DEF GenOK
<1>2. /\ g.block \in Seq(Blocks) /\ DOMAIN g.block = 1 .. n /\ n \in Nat
      /\ g.select \in Seq(Selects) /\ Len(g.select) \in Nat
      /\ \A c \in 1 .. n : g.block[c] \in Blocks
  BY <1>1, TypedFields
<1>3. FreshIs(k, handle)
  BY FreshFields DEF Appended
<1>4. /\ k \in Blocks /\ k.bindings = handle /\ k.instr = <<>> /\ k.next = None /\ k.branch = None /\ k.cond = None
      /\ k.dead = FALSE
  BY <1>3 DEF FreshIs
<1>5. h.block = Append(g.block, k)
  BY DEF Appended
<1> HIDE DEF k
<1>6. /\ DOMAIN h.block = 1 .. n + 1 /\ Len(h.block) = n + 1 /\ h.block[n + 1] = k
      /\ \A c \in 1 .. n : h.block[c] = g.block[c]
  BY <1>2, <1>4, <1>5
<1> HIDE DEF n
<1>7. \A c \in 1 .. n : g.block[c].bindings.at \in DOMAIN g.array /\ g.block[c].cond \in 0 .. g.values
  BY <1>1, <1>2 DEF Typed, BlocksOK
<1>8. \A c \in DOMAIN h.block : c \in 1 .. n \/ c = n + 1
  BY <1>2, <1>6
<1>9. /\ h \in Gens /\ h.values = g.values /\ h.panic = g.panic /\ h.select = g.select
      /\ handle.at \in DOMAIN h.array /\ ArraysOK(h)
      /\ \A a \in DOMAIN g.array : a \in DOMAIN h.array /\ h.array[a] = g.array[a]
  BY DEF Appended
<1>10. g.values \in Nat
  BY <1>1, TypedFields
<1>11. SelectsOK(h)
  <2>1. SelectsOK(g)
    BY <1>1 DEF Typed
  <2>2. \A p : Within(h, p) = Within(g, p)
    BY <1>9 DEF Within
  <2>3. QED
    BY <2>1, <2>2, <1>9 DEF SelectsOK
<1>12. CopyOnWrite(h)
  <2> SUFFICES ASSUME NEW c \in DOMAIN h.block, NEW d \in DOMAIN h.block, c # d,
                      h.block[c].bindings.at = h.block[d].bindings.at
               PROVE  h.block[c].bindings.shared
    BY DEF CopyOnWrite
  <2>1. \A e \in 1 .. n : g.block[e].bindings.at = handle.at => g.block[e].bindings.shared /\ handle.shared
    BY <1>2 DEF Appended
  <2>2. CASE c \in 1 .. n /\ d \in 1 .. n
    BY <1>1, <1>2, <1>6, <2>2 DEF CopyOnWrite
  <2>3. CASE c \in 1 .. n /\ d = n + 1
    BY <1>4, <1>6, <2>1, <2>3
  <2>4. CASE c = n + 1 /\ d \in 1 .. n
    BY <1>4, <1>6, <2>1, <2>4
  <2>5. QED
    BY <1>8, <2>2, <2>3, <2>4
<1>13. Rebinds(g, h)
  <2>1. ASSUME NEW c \in DOMAIN h.block
        PROVE  h.block[c].cond \in 0 .. h.values /\ h.block[c].bindings.at \in DOMAIN h.array
    <3>1. CASE c \in 1 .. n
      BY <1>6, <1>7, <1>9, <3>1
    <3>2. CASE c = n + 1
      BY <1>4, <1>6, <1>9, <1>10, <3>2 DEF None
    <3>3. QED
      BY <1>8, <3>1, <3>2
  <2>2. \A c \in DOMAIN h.block : c \notin DOMAIN g.block => h.block[c].instr = <<>>
    BY <1>2, <1>4, <1>6, <1>8
  <2>3. \A c \in DOMAIN g.block : h.block[c].instr = g.block[c].instr
    BY <1>2, <1>6
  <2>4. Len(g.block) <= Len(h.block) /\ Len(g.select) <= Len(h.select)
    BY <1>2, <1>6, <1>9 DEF n
  <2>5. QED
    BY <1>9, <1>11, <1>12, <2>1, <2>2, <2>3, <2>4 DEF Rebinds
<1>14. GenOK(h) /\ Extends(g, h)
  BY <1>13, RebindsKeeps
<1>15. Typed(h)
  BY <1>14 DEF GenOK
<1>16. ASSUME NEW c \in 1 .. n PROVE Picture(h)[c] = Picture(g)[c] /\ Bindings(h, c) = Bindings(g, c)
  <2>1. Bindings(h, c) = Bindings(g, c) /\ c \in DOMAIN h.block /\ c \in DOMAIN g.block
    BY SMTT(30), <1>2, <1>6, <1>7, <1>9 DEF Bindings
  <2>2. h.block[c] = g.block[c]
    BY <1>6
  <2>3. QED
    BY <1>1, <1>14, <1>15, <2>1, <2>2, BoxKept
<1>17. n + 1 \in DOMAIN h.block
  BY <1>2, <1>6
<1>18. Shown(h, n + 1)
  BY <1>17, ShownIs
<1>19. FreshBox(Picture(h)[n + 1], Worlds(h, h.array[handle.at]))
  BY <1>4, <1>6, <1>18 DEF Shown, FreshBox, Bindings
<1>20. SameShape(h.block[n + 1], Fresh(Own(1))) /\ h.block[n + 1].instr = <<>>
  BY <1>4, <1>6 DEF SameShape, Fresh
<1>21. \A c \in DOMAIN g.block : /\ Picture(h)[c] = Picture(g)[c] /\ SameShape(h.block[c], g.block[c])
                                 /\ h.block[c].instr = g.block[c].instr /\ Bindings(h, c) = Bindings(g, c)
  BY <1>2, <1>6, <1>16 DEF SameShape
<1>22. QED
  BY <1>6, <1>9, <1>14, <1>19, <1>20, <1>21 DEF BlockAdded, n

\* Generator.Block adds a block with the given names.
LEMMA AddBlockIs ==
  ASSUME NEW g, GenOK(g), NEW array \in Arrays, IsFiniteSet(DOMAIN array), \A n \in DOMAIN array : Within(g, array[n])
  PROVE  BlockAdded(g, AddBlock(g, array), Worlds(g, array))
<1> DEFINE handle == Own(Len(g.array) + 1)
           as == Append(g.array, array)
           bs == Append(g.block, Fresh(handle))
           h == AddBlock(g, array)
<1>1. Typed(g)
  BY DEF GenOK
<1>2. /\ g.block \in Seq(Blocks) /\ g.array \in Seq(Arrays) /\ g.select \in Seq(Selects)
      /\ DOMAIN g.array = 1 .. Len(g.array) /\ Len(g.array) \in Nat
      /\ g = [block |-> g.block, array |-> g.array, select |-> g.select, values |-> g.values, panic |-> g.panic]
  BY <1>1, TypedFields
<1>3. handle \in Handles /\ handle.at = Len(g.array) + 1 /\ handle.shared = FALSE
  <2>1. Len(g.array) + 1 \in Nat
    BY <1>2
  <2>2. QED
    BY <2>1, OwnIs
<1>4. Fresh(handle) \in Blocks
  BY <1>3, FreshFields DEF FreshIs
<1>5. h = [g EXCEPT !.array = as, !.block = bs]
  BY DEF AddBlock, Own
<1> HIDE DEF handle
<1>6. bs \in Seq(Blocks)
  BY <1>2, <1>4
<1>7. /\ as \in Seq(Arrays) /\ DOMAIN as = 1 .. Len(g.array) + 1 /\ as[Len(g.array) + 1] = array
      /\ \A a \in DOMAIN g.array : as[a] = g.array[a] /\ a \in DOMAIN as
  BY <1>2
<1>8. h = Store(g, bs, as, g.select)
  <2> DEFINE i == Store(g, bs, as, g.select)
             k == g.block
             l == g.array
             m == g.select
             x == g.values
             p == g.panic
  <2>1. i = [g EXCEPT !.block = bs, !.array = as, !.select = m]
    BY DEF Store
  <2>2. g = [block |-> k, array |-> l, select |-> m, values |-> x, panic |-> p]
    BY <1>2
  <2> HIDE DEF i, k, l, m, x, p, bs, as, h
  <2>3. i = [block |-> bs, array |-> as, select |-> m, values |-> x, panic |-> p]
    BY <2>1, <2>2
  <2>4. h = [block |-> bs, array |-> as, select |-> m, values |-> x, panic |-> p]
    BY <2>2, <1>5
  <2>5. h = i
    BY <2>3, <2>4
  <2>6. QED
    BY <2>5 DEF i, m
<1> HIDE DEF h, as, bs
<1>9. IsStore(g, h, bs, as, g.select)
  BY <1>1, <1>2, <1>6, <1>7, <1>8, StoreIs
<1>10. /\ h \in Gens /\ h.block = bs /\ h.array = as /\ h.select = g.select
       /\ h.values = g.values /\ h.panic = g.panic
  BY <1>9 DEF IsStore
<1>11. handle.at \in DOMAIN h.array /\ h.array[handle.at] = array
  <2> DEFINE n == Len(g.array)
  <2>1. n \in Nat /\ DOMAIN as = 1 .. n + 1 /\ as[n + 1] = array /\ handle.at = n + 1
    BY <1>2, <1>3, <1>7
  <2> HIDE DEF n
  <2>2. n + 1 \in DOMAIN as
    BY <2>1
  <2>3. QED
    BY <1>10, <2>1, <2>2
<1>12. ArraysOK(h)
  <2>1. ASSUME NEW a \in DOMAIN h.array
        PROVE  h.array[a] = array \/ \E l \in DOMAIN g.array : h.array[a] = g.array[l]
    <3> DEFINE n == Len(g.array)
    <3>1. a \in 1 .. n + 1 /\ h.array[a] = as[a] /\ n \in Nat
      BY <1>2, <1>7, <1>10
    <3>2. as[n + 1] = array /\ \A l \in 1 .. n : l \in DOMAIN g.array /\ as[l] = g.array[l]
      BY <1>2, <1>7
    <3> HIDE DEF n
    <3>3. a = n + 1 \/ a \in 1 .. n
      BY <3>1
    <3>4. QED
      BY <3>1, <3>2, <3>3
  <2>2. h \in Gens /\ h.values = g.values /\ h.select = g.select
    BY <1>10
  <2>3. QED
    BY <1>1, <2>1, <2>2, ArrayFits
<1>13. \A c \in DOMAIN g.block : g.block[c].bindings.at # handle.at
  <2>1. \A c \in DOMAIN g.block : g.block[c].bindings.at \in 1 .. Len(g.array)
    BY <1>1, <1>2 DEF Typed, BlocksOK
  <2>2. QED
    BY <1>2, <1>3, <2>1
<1>14. Appended(g, h, handle)
  BY <1>3, <1>7, <1>10, <1>11, <1>12, <1>13 DEF Appended, bs
<1>15. BlockAdded(g, h, Worlds(h, array))
  BY <1>11, <1>14, AppendedIs
<1>16. Worlds(h, array) = Worlds(g, array)
  <2>1. Extends(g, h) /\ Typed(h)
    BY <1>15 DEF BlockAdded, GenOK
  <2>2. QED
    BY <1>1, <2>1, WorldsKept
<1>17. QED
  BY <1>15, <1>16 DEF h

\* The handle that both have after Clone.
Handle(g, b) == [g.block[b].bindings EXCEPT !.shared = TRUE]
ClonedHandle(g, h, b) ==
  /\ Handle(g, b) \in Handles /\ Handle(g, b).shared = TRUE /\ Handle(g, b).at = g.block[b].bindings.at
  /\ GenOK(h) /\ Extends(g, h) /\ h.values = g.values /\ h.panic = g.panic /\ h.array = g.array /\ h.select = g.select
  /\ Len(h.block) = Len(g.block) /\ DOMAIN h.block = DOMAIN g.block
  /\ Picture(h) = Picture(g) /\ h.block[b].bindings = Handle(g, b)
  /\ \A c \in DOMAIN g.block : SameShape(h.block[c], g.block[c]) /\ h.block[c].instr = g.block[c].instr
                               /\ Bindings(h, c) = Bindings(g, c)
                               /\ (c # b => h.block[c] = g.block[c])

\* Clone marks both handles, and leaves the picture.
LEMMA CloneIs ==
  ASSUME NEW g, GenOK(g), NEW b \in DOMAIN g.block
  PROVE  /\ ClonedHandle(g, NewEnv(g, b), b)
         /\ Clone(g, b).gen = NewEnv(g, b) /\ Clone(g, b).bindings = Handle(g, b)
<1> DEFINE h == NewEnv(g, b)
           o == Handle(g, b)
           k == [g.block[b] EXCEPT !.bindings.shared = TRUE]
<1>1. Typed(g) /\ g.block[b] \in Blocks /\ g.block[b].bindings \in Handles
  BY TypedFields, BlockFields DEF GenOK
<1>2. /\ Reshaped(g, h, b, k) /\ h.panic = g.panic /\ Picture(h) = Picture(g)
  BY NewEnvIs
<1>3. Clone(g, b).gen = h /\ Clone(g, b).bindings = o
  BY DEF NewEnv, Clone, Handle
<1>4. o \in Handles /\ o.shared = TRUE /\ o.at = g.block[b].bindings.at
  <2>1. o = [g.block[b].bindings EXCEPT !.shared = TRUE]
    BY DEF Handle
  <2> HIDE DEF o
  <2>2. o = [shared |-> TRUE, at |-> g.block[b].bindings.at]
    BY <1>1, <2>1 DEF Handles
  <2>3. QED
    BY <1>1, <2>2 DEF Handles
<1>5. k.bindings = o /\ k.instr = g.block[b].instr /\ SameShape(k, g.block[b])
  <2>1. k = Rebind(g.block[b], o)
    BY DEF Rebind, Handle
  <2> HIDE DEF k, o
  <2>2. QED
    BY <1>1, <1>4, <2>1, RebindIs
<1>6. h.select = g.select
  <2>1. h = [g EXCEPT !.block[b].bindings = o]
    BY DEF NewEnv, Clone, Handle
  <2> HIDE DEF o
  <2>2. QED
    BY <1>1, <2>1, TypedFields
<1> HIDE DEF h, k, o
<1>7. /\ GenOK(h) /\ Extends(g, h) /\ Len(h.block) = Len(g.block) /\ h.values = g.values /\ h.array = g.array
      /\ h.block[b] = k
      /\ \A c \in DOMAIN g.block : c # b => h.block[c] = g.block[c]
  BY <1>2 DEF Reshaped, Kept
<1>8. DOMAIN h.block = DOMAIN g.block
  <2>1. Typed(h)
    BY <1>7 DEF GenOK
  <2>2. QED
    BY <1>1, <1>7, <2>1, TypedFields
<1>9. ASSUME NEW c \in DOMAIN g.block
      PROVE  SameShape(h.block[c], g.block[c]) /\ h.block[c].instr = g.block[c].instr /\ Bindings(h, c) = Bindings(g, c)
  <2>1. CASE c = b
    BY <1>4, <1>5, <1>7, <2>1 DEF Bindings
  <2>2. CASE c # b
    BY <1>7, <2>2 DEF SameShape, Bindings
  <2>3. QED
    BY <2>1, <2>2
<1>10. h.block[b].bindings = o
  BY <1>5, <1>7
<1>11. ClonedHandle(g, h, b)
  BY <1>2, <1>4, <1>6, <1>7, <1>8, <1>9, <1>10 DEF ClonedHandle, o
<1>12. QED
  BY <1>3, <1>11 DEF h, o

\* To clone and then to add a block is to add a block.
LEMMA BlockAddedAfter ==
  ASSUME NEW g, GenOK(g), NEW h, NEW b \in DOMAIN g.block, ClonedHandle(g, h, b), NEW i, NEW view, BlockAdded(h, i, view)
  PROVE  BlockAdded(g, i, view)
<1> USE DEF SameShape
<1>1. Typed(g) /\ Typed(h) /\ Typed(i)
  BY DEF GenOK, ClonedHandle, BlockAdded
<1>2. Extends(g, i)
  BY <1>1, ExtendsBoth DEF ClonedHandle, BlockAdded
<1>3. \A c \in DOMAIN g.block : c \in DOMAIN h.block /\ SameShape(h.block[c], g.block[c])
        /\ h.block[c].instr = g.block[c].instr /\ Bindings(h, c) = Bindings(g, c)
  BY DEF ClonedHandle
<1>4. \A c \in DOMAIN h.block : Picture(i)[c] = Picture(h)[c] /\ SameShape(i.block[c], h.block[c])
        /\ i.block[c].instr = h.block[c].instr /\ Bindings(i, c) = Bindings(h, c)
  BY DEF BlockAdded
<1>5. /\ Picture(h) = Picture(g) /\ Len(h.block) = Len(g.block) /\ h.values = g.values /\ h.panic = g.panic
      /\ h.select = g.select
  BY DEF ClonedHandle
<1>6. /\ GenOK(i) /\ i.values = h.values /\ i.panic = h.panic /\ i.select = h.select
      /\ Len(i.block) = Len(h.block) + 1
      /\ FreshBox(Picture(i)[Len(h.block) + 1], view)
      /\ SameShape(i.block[Len(h.block) + 1], Fresh(Own(1))) /\ i.block[Len(h.block) + 1].instr = <<>>
  BY DEF BlockAdded
<1>7. \A c \in DOMAIN g.block : /\ Picture(i)[c] = Picture(g)[c] /\ SameShape(i.block[c], g.block[c])
                                /\ i.block[c].instr = g.block[c].instr /\ Bindings(i, c) = Bindings(g, c)
  BY <1>3, <1>4, <1>5
<1>8. QED
  BY <1>2, <1>5, <1>6, <1>7 DEF BlockAdded

\* A block that is added with a clone of b's bindings shows the names of b.
LEMMA AddCloneIs ==
  ASSUME NEW g, GenOK(g), NEW b \in DOMAIN g.block
  PROVE  BlockAdded(g, AddClone(g, b), Picture(g)[b].view)
<1> DEFINE h == NewEnv(g, b)
           o == Handle(g, b)
           i == AddClone(g, b)
           bs == Append(h.block, Fresh(o))
<1>1. ClonedHandle(g, h, b) /\ Clone(g, b).gen = h /\ Clone(g, b).bindings = o
  BY CloneIs
<1>2. i = [h EXCEPT !.block = bs]
  BY <1>1 DEF AddClone
<1> HIDE DEF h, o, i
<1>3. /\ GenOK(h) /\ o \in Handles /\ o.shared = TRUE /\ h.block[b].bindings = o /\ b \in DOMAIN h.block
      /\ Picture(h) = Picture(g)
  BY <1>1 DEF ClonedHandle, o
<1>4. Typed(h) /\ CopyOnWrite(h)
  BY <1>3 DEF GenOK
<1>5. /\ h.block \in Seq(Blocks) /\ h.array \in Seq(Arrays) /\ h.select \in Seq(Selects)
      /\ h = [block |-> h.block, array |-> h.array, select |-> h.select, values |-> h.values, panic |-> h.panic]
  BY <1>4, TypedFields
<1>6. Fresh(o) \in Blocks
  BY <1>3, FreshFields DEF FreshIs
<1>7. bs \in Seq(Blocks)
  BY <1>5, <1>6
<1>8. i = Store(h, bs, h.array, h.select)
  <2> DEFINE j == Store(h, bs, h.array, h.select)
             k == h.block
             l == h.array
             m == h.select
             x == h.values
             p == h.panic
  <2>1. j = [h EXCEPT !.block = bs, !.array = l, !.select = m]
    BY DEF Store
  <2>2. h = [block |-> k, array |-> l, select |-> m, values |-> x, panic |-> p]
    BY <1>5
  <2> HIDE DEF j, k, l, m, x, p, bs
  <2>3. j = [block |-> bs, array |-> l, select |-> m, values |-> x, panic |-> p]
    BY <2>1, <2>2
  <2>4. i = [block |-> bs, array |-> l, select |-> m, values |-> x, panic |-> p]
    BY <2>2, <1>2
  <2>5. i = j
    BY <2>3, <2>4
  <2>6. QED
    BY <2>5 DEF j, l, m
<1> HIDE DEF bs
<1>9. IsStore(h, i, bs, h.array, h.select)
  BY <1>4, <1>5, <1>7, <1>8, StoreIs
<1>10. /\ i \in Gens /\ i.block = bs /\ i.array = h.array /\ i.select = h.select
       /\ i.values = h.values /\ i.panic = h.panic
  BY <1>9 DEF IsStore
<1>11. o.at \in DOMAIN h.array /\ h.array[o.at] = Bindings(h, b)
  BY <1>3, <1>4 DEF Typed, BlocksOK, Bindings
<1>12. ArraysOK(i)
  <2>1. ArraysOK(h)
    BY <1>4 DEF Typed
  <2>2. \A p : Within(i, p) = Within(h, p)
    BY <1>10 DEF Within
  <2>3. QED
    BY <1>10, <2>1, <2>2 DEF ArraysOK
<1>13. \A c \in DOMAIN h.block : h.block[c].bindings.at = o.at => h.block[c].bindings.shared
  BY <1>3, <1>4 DEF CopyOnWrite
<1>14. Appended(h, i, o)
  BY <1>3, <1>10, <1>11, <1>12, <1>13 DEF Appended, bs
<1>15. BlockAdded(h, i, Worlds(i, Bindings(h, b)))
  <2>1. BlockAdded(h, i, Worlds(i, i.array[o.at]))
    BY <1>3, <1>14, AppendedIs
  <2>2. QED
    BY <1>10, <1>11, <2>1
<1>16. Worlds(i, Bindings(h, b)) = Picture(g)[b].view
  <2>1. Extends(h, i) /\ Typed(i)
    BY <1>15 DEF BlockAdded, GenOK
  <2>2. \A n \in DOMAIN Bindings(h, b) : Within(h, Bindings(h, b)[n])
    BY <1>3, <1>4, BindingsIs
  <2>3. Worlds(i, Bindings(h, b)) = Worlds(h, Bindings(h, b))
    BY <1>4, <2>1, <2>2, WorldsKept
  <2>4. Shown(h, b)
    BY <1>3, ShownIs
  <2>5. QED
    BY <1>3, <2>3, <2>4 DEF Shown
<1>17. BlockAdded(g, i, Picture(g)[b].view)
  BY <1>1, <1>15, <1>16, BlockAddedAfter
<1>18. QED
  BY <1>17 DEF i

\* Block c gets the names of block b.
Share(g, b, c) == [Clone(g, b).gen EXCEPT !.block[c].bindings = Clone(g, b).bindings]
SharedWith(g, h, b, c) ==
  /\ GenOK(h) /\ Extends(g, h) /\ h.values = g.values /\ h.panic = g.panic /\ h.select = g.select
  /\ Len(h.block) = Len(g.block) /\ OthersKept(g, h, c)
  /\ \A d \in DOMAIN g.block : SameShape(h.block[d], g.block[d]) /\ h.block[d].instr = g.block[d].instr
  /\ Picture(h)[c].next = Picture(g)[c].next /\ Picture(h)[c].branch = Picture(g)[c].branch
  /\ Picture(h)[c].dead = Picture(g)[c].dead /\ Picture(h)[c].when = Picture(g)[c].when
  /\ Picture(h)[c].view = Picture(g)[b].view

\* A block that gets a clone of b's bindings shows the names of b.
LEMMA ShareIs ==
  ASSUME NEW g, GenOK(g), NEW b \in DOMAIN g.block, NEW c \in DOMAIN g.block, b # c
  PROVE  SharedWith(g, Share(g, b, c), b, c)
<1> DEFINE h == NewEnv(g, b)
           o == Handle(g, b)
           k == Rebind(h.block[c], o)
           bs == [h.block EXCEPT ![c] = k]
           i == Share(g, b, c)
<1>1. ClonedHandle(g, h, b) /\ Clone(g, b).gen = h /\ Clone(g, b).bindings = o
  BY CloneIs
<1>2. i = [h EXCEPT !.block = bs]
  BY <1>1 DEF Share, Rebind
<1> HIDE DEF h, o, i
<1>3. /\ GenOK(h) /\ o \in Handles /\ o.shared = TRUE /\ h.block[b].bindings = o
      /\ b \in DOMAIN h.block /\ c \in DOMAIN h.block /\ Picture(h) = Picture(g)
      /\ h.values = g.values /\ h.panic = g.panic /\ h.select = g.select
      /\ DOMAIN h.block = DOMAIN g.block /\ Len(h.block) = Len(g.block) /\ Extends(g, h)
  BY <1>1 DEF ClonedHandle, o
<1>4. Typed(h) /\ CopyOnWrite(h) /\ Typed(g)
  BY <1>3 DEF GenOK
<1>5. /\ h.block \in Seq(Blocks) /\ h.array \in Seq(Arrays) /\ h.select \in Seq(Selects)
      /\ DOMAIN h.block = 1 .. Len(h.block) /\ Len(h.block) \in Nat /\ Len(h.select) \in Nat
      /\ \A d \in DOMAIN h.block : h.block[d] \in Blocks
      /\ h = [block |-> h.block, array |-> h.array, select |-> h.select, values |-> h.values, panic |-> h.panic]
  BY <1>4, TypedFields
<1>6. k \in Blocks /\ k.bindings = o /\ k.instr = h.block[c].instr /\ SameShape(k, h.block[c])
  BY <1>3, <1>5, RebindIs
<1> HIDE DEF k
<1>7. bs \in [1 .. Len(h.block) -> Blocks]
  BY <1>5, <1>6
<1>8. bs \in Seq(Blocks) /\ DOMAIN bs = DOMAIN h.block /\ Len(bs) = Len(h.block)
  BY <1>5, <1>7
<1>9. \A d \in DOMAIN h.block : bs[d] = IF d = c THEN k ELSE h.block[d]
  OBVIOUS
<1>10. i = Store(h, bs, h.array, h.select)
  <2> DEFINE j == Store(h, bs, h.array, h.select)
             z == h.block
             l == h.array
             m == h.select
             x == h.values
             p == h.panic
  <2>1. j = [h EXCEPT !.block = bs, !.array = l, !.select = m]
    BY DEF Store
  <2>2. h = [block |-> z, array |-> l, select |-> m, values |-> x, panic |-> p]
    BY <1>5
  <2> HIDE DEF j, z, l, m, x, p, bs
  <2>3. j = [block |-> bs, array |-> l, select |-> m, values |-> x, panic |-> p]
    BY <2>1, <2>2
  <2>4. i = [block |-> bs, array |-> l, select |-> m, values |-> x, panic |-> p]
    BY <2>2, <1>2
  <2>5. i = j
    BY <2>3, <2>4
  <2>6. QED
    BY <2>5 DEF j, l, m
<1> HIDE DEF bs
<1>11. IsStore(h, i, bs, h.array, h.select)
  BY <1>4, <1>5, <1>8, <1>10, StoreIs
<1>12. /\ i \in Gens /\ i.block = bs /\ i.array = h.array /\ i.select = h.select
       /\ i.values = h.values /\ i.panic = h.panic
  BY <1>11 DEF IsStore
<1>13. \A d \in DOMAIN h.block : h.block[d].bindings.at \in DOMAIN h.array /\ h.block[d].cond \in 0 .. h.values
  BY <1>4 DEF Typed, BlocksOK
<1>14. Bindings(i, c) = Bindings(h, b)
  BY <1>3, <1>6, <1>9, <1>12 DEF Bindings
<1>15. \A d \in DOMAIN h.block : d # c => i.block[d] = h.block[d] /\ Bindings(i, d) = Bindings(h, d)
  BY <1>9, <1>12 DEF Bindings
<1>16. ArraysOK(i) /\ SelectsOK(i)
  <2>1. ArraysOK(h) /\ SelectsOK(h)
    BY <1>4 DEF Typed
  <2>2. \A p : Within(i, p) = Within(h, p)
    BY <1>12 DEF Within
  <2>3. QED
    BY <1>12, <2>1, <2>2 DEF ArraysOK, SelectsOK
<1>17. CopyOnWrite(i)
  <2> SUFFICES ASSUME NEW d \in DOMAIN h.block, NEW e \in DOMAIN h.block, d # e,
                      i.block[d].bindings.at = i.block[e].bindings.at
               PROVE  i.block[d].bindings.shared
    BY <1>8, <1>12 DEF CopyOnWrite
  <2>1. i.block[c].bindings = o
    BY <1>3, <1>6, <1>9, <1>12
  <2>2. CASE d = c
    BY <1>3, <2>1, <2>2
  <2>3. CASE d # c /\ e # c
    BY <1>4, <1>15, <2>3 DEF CopyOnWrite
  <2>4. CASE d # c /\ e = c
    <3>1. i.block[d] = h.block[d] /\ h.block[d].bindings.at = h.block[b].bindings.at
      BY <1>3, <1>15, <2>1, <2>4
    <3>2. QED
      BY <1>3, <1>4, <3>1 DEF CopyOnWrite
  <2>5. QED
    BY <2>2, <2>3, <2>4
<1>18. Rebinds(h, i)
  <2>1. ASSUME NEW d \in DOMAIN h.block
        PROVE  /\ i.block[d].instr = h.block[d].instr /\ i.block[d].cond \in 0 .. i.values
               /\ i.block[d].bindings.at \in DOMAIN i.array
    <3>1. CASE d = c
      <4>1. i.block[d] = k
        BY <1>9, <1>12, <3>1
      <4>2. k.bindings.at \in DOMAIN h.array
        BY <1>3, <1>6, <1>13
      <4>3. QED
        BY <1>6, <1>12, <1>13, <3>1, <4>1, <4>2 DEF SameShape
    <3>2. CASE d # c
      BY <1>12, <1>13, <1>15, <3>2
    <3>3. QED
      BY <3>1, <3>2
  <2>2. DOMAIN i.block = DOMAIN h.block /\ Len(i.block) = Len(h.block) /\ i.select = h.select /\ i.values = h.values
    BY <1>8, <1>12
  <2>3. /\ Len(h.block) <= Len(i.block) /\ Len(h.select) <= Len(i.select)
        /\ \A d \in DOMAIN i.block : d \in DOMAIN h.block
        /\ \A s \in DOMAIN i.select : s \in DOMAIN h.select
    BY <1>5, <2>2
  <2>4. QED
    BY <1>12, <1>16, <1>17, <2>1, <2>2, <2>3 DEF Rebinds
<1>19. SameShape(i.block[c], h.block[c]) /\ i.block[c].instr = h.block[c].instr
  BY <1>3, <1>6, <1>9, <1>12
<1>20. Rewrites(h, i, c, Bindings(h, b))
  BY <1>8, <1>12, <1>14, <1>15, <1>18, <1>19 DEF Rewrites
<1>21. /\ GenOK(i) /\ Extends(h, i) /\ OthersKept(h, i, c)
       /\ Picture(i)[c].next = Picture(h)[c].next /\ Picture(i)[c].branch = Picture(h)[c].branch
       /\ Picture(i)[c].dead = Picture(h)[c].dead /\ Picture(i)[c].when = Picture(h)[c].when
       /\ Picture(i)[c].view = Worlds(i, Bindings(h, b))
  BY <1>3, <1>20, RewritesShow
<1>22. Worlds(i, Bindings(h, b)) = Picture(h)[b].view
  <2>1. Typed(i)
    BY <1>21 DEF GenOK
  <2>2. \A n \in DOMAIN Bindings(h, b) : Within(h, Bindings(h, b)[n])
    BY <1>3, <1>4, BindingsIs
  <2>3. Worlds(i, Bindings(h, b)) = Worlds(h, Bindings(h, b))
    BY <1>4, <1>21, <2>1, <2>2, WorldsKept
  <2>4. Shown(h, b)
    BY <1>3, ShownIs
  <2>5. QED
    BY <2>3, <2>4 DEF Shown
<1>23. Extends(g, i)
  <2>1. Typed(i)
    BY <1>21 DEF GenOK
  <2>2. QED
    BY <1>3, <1>4, <1>21, <2>1, ExtendsBoth
<1>24. OthersKept(g, i, c)
  BY <1>3, <1>21 DEF OthersKept
<1>25. ASSUME NEW d \in DOMAIN g.block
       PROVE  SameShape(i.block[d], g.block[d]) /\ i.block[d].instr = g.block[d].instr
  <2>1. SameShape(h.block[d], g.block[d]) /\ h.block[d].instr = g.block[d].instr /\ d \in DOMAIN h.block
    BY <1>1 DEF ClonedHandle
  <2>2. SameShape(i.block[d], h.block[d]) /\ i.block[d].instr = h.block[d].instr
    BY <1>15, <1>19, <2>1 DEF SameShape
  <2>3. QED
    BY <2>1, <2>2 DEF SameShape
<1>26. /\ i.values = g.values /\ i.panic = g.panic /\ i.select = g.select /\ Len(i.block) = Len(g.block)
  BY <1>3, <1>8, <1>12
<1>27. SharedWith(g, i, b, c)
  BY <1>3, <1>21, <1>22, <1>23, <1>24, <1>25, <1>26 DEF SharedWith
<1>28. QED
  BY <1>27 DEF i

\* A value is numbered.
Numbered(g) == [g EXCEPT !.values = @ + 1]
NumberedIs(g, h) ==
  /\ GenOK(h) /\ Extends(g, h) /\ h.values = g.values + 1 /\ h.panic = g.panic /\ Picture(h) = Picture(g)
  /\ h.block = g.block /\ h.select = g.select /\ h.array = g.array

\* To skip a number for a value changes nothing.
LEMMA NumberIs ==
  ASSUME NEW g, GenOK(g), NEW b \in DOMAIN g.block
  PROVE  NumberedIs(g, Numbered(g))
<1> DEFINE h == Numbered(g)
           k == g.block[b]
<1>1. Typed(g) /\ Once(g) /\ CopyOnWrite(g)
  BY DEF GenOK
<1>2. /\ g.block \in Seq(Blocks) /\ DOMAIN g.block = 1 .. Len(g.block) /\ k \in Blocks
      /\ k.instr \in Seq(Instructions) /\ g.values \in Nat /\ g.panic \in BOOLEAN
      /\ DOMAIN g.select = 1 .. Len(g.select)
      /\ g = [block |-> g.block, array |-> g.array, select |-> g.select, values |-> g.values, panic |-> g.panic]
  BY <1>1, TypedFields, BlockFields
<1>3. h = Put(g, b, k, g.values + 1, g.panic)
  <2> DEFINE i == Put(g, b, k, g.values + 1, g.panic)
             z == g.block
             l == g.array
             m == g.select
             x == g.values
             p == g.panic
  <2>1. i = [g EXCEPT !.block = z, !.values = x + 1, !.panic = p]
    <3>1. [z EXCEPT ![b] = z[b]] = z
      BY <1>2
    <3>2. QED
      BY <3>1 DEF Put
  <2>2. g = [block |-> z, array |-> l, select |-> m, values |-> x, panic |-> p]
    BY <1>2
  <2>3. h = [g EXCEPT !.values = x + 1]
    BY DEF Numbered
  <2> HIDE DEF i, z, l, m, x, p, h
  <2>4. i = [block |-> z, array |-> l, select |-> m, values |-> x + 1, panic |-> p]
    BY <2>1, <2>2
  <2>5. h = [block |-> z, array |-> l, select |-> m, values |-> x + 1, panic |-> p]
    BY <2>2, <2>3
  <2>6. h = i
    BY <2>4, <2>5
  <2>7. QED
    BY <2>6 DEF i, x, p
<1> HIDE DEF h
<1>4. IsPut(g, h, b, k, g.values + 1, g.panic)
  <2>1. g.values + 1 \in Nat
    BY <1>2
  <2>2. QED
    BY <1>1, <1>2, <1>3, <2>1, PutIs
<1>5. /\ h \in Gens /\ h.array = g.array /\ h.select = g.select /\ h.values = g.values + 1 /\ h.panic = g.panic
      /\ Len(h.block) = Len(g.block) /\ DOMAIN h.block = DOMAIN g.block
      /\ \A c \in DOMAIN g.block : h.block[c] = g.block[c]
  BY <1>4 DEF IsPut
<1>6. h.block = g.block
  <2>1. h = [g EXCEPT !.values = g.values + 1]
    BY DEF h, Numbered
  <2>2. QED
    BY <1>2, <2>1
<1>7. Edits(g, h, b, <<>>)
  <2>1. \A s \in DOMAIN g.select : g.select[s].resolved \in 0 .. g.values
    BY <1>1, SelectIs
  <2>2. k.instr = k.instr \o <<>>
    BY <1>2
  <2>3. g.block[b].cond \in 0 .. g.values
    BY <1>1 DEF Typed, BlocksOK
  <2>4. g.block[b].cond \in 0 .. h.values /\ g.values <= h.values
    BY <1>2, <1>5, <2>3
  <2>5. \A s \in DOMAIN g.select : g.select[s].resolved \in 0 .. h.values
    BY <1>2, <1>5, <2>1
  <2>6. QED
    BY <1>5, <1>6, <2>2, <2>4, <2>5 DEF Edits
<1>8. GenOK(h)
  BY <1>5, <1>7, EditResolved
<1>9. Extends(g, h)
  BY <1>1, <1>7, EditKeeps
<1>10. Picture(h) = Picture(g)
  <2>1. PictureEdited(g, h, b)
    BY <1>1, <1>7, EditPicture
  <2>2. QED
    BY <2>1, <1>6 DEF PictureEdited, SameShape
<1>11. QED
  BY <1>5, <1>6, <1>8, <1>9, <1>10 DEF NumberedIs, h

(***************************************************************************)
(* Bindings.Merge.                                                         *)
(***************************************************************************)

\* What the names of block t are when cond chooses between them and those of block f.
Joined(when, t, f) == [n \in DOMAIN t |-> IF n \in DOMAIN f THEN Choice(when, t[n], f[n]) ELSE t[n]]
Merged(g, h, array, cond, t, f) ==
  /\ GenOK(h) /\ Extends(g, h) /\ h.values = g.values /\ h.panic = g.panic /\ h.block = g.block
  /\ Picture(h) = Picture(g)
  /\ array \in Arrays /\ IsFiniteSet(DOMAIN array) /\ \A n \in DOMAIN array : Within(h, array[n])
  /\ Worlds(h, array) = Joined(Car(g)[cond], Picture(g)[t].view, Picture(g)[f].view)

\* The selects that Merge makes.
NewSelect(g, cond, t, f, n) == [cond |-> cond, t |-> Bindings(g, t)[n], f |-> Bindings(g, f)[n], resolved |-> None]
DifferAt(g, t, f) ==
  {n \in DOMAIN Bindings(g, t) \cap DOMAIN Bindings(g, f) : ~Equal(g, Bindings(g, t)[n], Bindings(g, f)[n])}
MergedGen(g, h, cond, t, f, q) ==
  /\ h \in Gens /\ h.block = g.block /\ h.array = g.array /\ h.values = g.values /\ h.panic = g.panic
  /\ Len(h.select) = Len(g.select) + Len(q)
  /\ \A s \in DOMAIN g.select : s \in DOMAIN h.select /\ h.select[s] = g.select[s]
  /\ \A k \in DOMAIN q : /\ Len(g.select) + k \in DOMAIN h.select
                         /\ h.select[Len(g.select) + k] = NewSelect(g, cond, t, f, q[k])
  /\ \A s \in DOMAIN h.select : s \in DOMAIN g.select \/ \E k \in DOMAIN q : s = Len(g.select) + k

\* The parts of a select that Merge makes.
LEMMA NewSelectFields ==
  ASSUME NEW g, Typed(g), NEW cond \in Nat, NEW t \in DOMAIN g.block, NEW f \in DOMAIN g.block,
         NEW n \in DOMAIN Bindings(g, t) \cap DOMAIN Bindings(g, f)
  PROVE  NewSelect(g, cond, t, f, n) \in Selects
<1>1. Bindings(g, t)[n] \in Bounds /\ Bindings(g, f)[n] \in Bounds
  BY BindingsIs
<1>2. QED
  BY <1>1 DEF NewSelect, Selects, None

\* The parts of a generator to which the selects of a merge are added.
LEMMA MergedGenIs ==
  ASSUME NEW g, Typed(g), NEW cond \in Nat, NEW t \in DOMAIN g.block, NEW f \in DOMAIN g.block,
         NEW q, Lists(q, DifferAt(g, t, f)),
         NEW h, h = [g EXCEPT !.select = @ \o [k \in DOMAIN q |-> NewSelect(g, cond, t, f, q[k])]]
  PROVE  MergedGen(g, h, cond, t, f, q)
<1> DEFINE D == DifferAt(g, t, f)
           new == [k \in DOMAIN q |-> NewSelect(g, cond, t, f, q[k])]
           m == Len(g.select)
           ss == g.select \o new
<1>1. /\ g.select \in Seq(Selects) /\ m \in Nat /\ DOMAIN g.select = 1 .. m
      /\ g.block \in Seq(Blocks) /\ g.array \in Seq(Arrays) /\ g.values \in Nat /\ g.panic \in BOOLEAN
      /\ g = [block |-> g.block, array |-> g.array, select |-> g.select, values |-> g.values, panic |-> g.panic]
  BY TypedFields
<1>2. q \in Seq(D) /\ DOMAIN q = 1 .. Len(q) /\ Len(q) \in Nat
  BY DEF Lists
<1>3. \A k \in DOMAIN q : q[k] \in DOMAIN Bindings(g, t) \cap DOMAIN Bindings(g, f)
  BY <1>2 DEF DifferAt
<1>4. new \in [1 .. Len(q) -> Selects]
  <2>1. \A k \in DOMAIN q : NewSelect(g, cond, t, f, q[k]) \in Selects
    BY <1>3, NewSelectFields
  <2>2. QED
    BY <1>2, <2>1
<1>5. new \in Seq(Selects) /\ Len(new) = Len(q) /\ DOMAIN new = DOMAIN q
  BY <1>2, <1>4
<1>6. \A k \in DOMAIN q : new[k] = NewSelect(g, cond, t, f, q[k])
  OBVIOUS
<1>7. h = [block |-> g.block, array |-> g.array, select |-> ss, values |-> g.values, panic |-> g.panic]
  <2> DEFINE z == g.block
             l == g.array
             x == g.values
             p == g.panic
             o == g.select
  <2>1. h = [g EXCEPT !.select = ss]
    OBVIOUS
  <2>2. g = [block |-> z, array |-> l, select |-> o, values |-> x, panic |-> p]
    BY <1>1
  <2> HIDE DEF z, l, x, p, o, ss
  <2>3. h = [block |-> z, array |-> l, select |-> ss, values |-> x, panic |-> p]
    BY <2>1, <2>2
  <2>4. QED
    BY <2>3 DEF z, l, x, p
<1> DEFINE n == Len(q)
           o == g.select
           dq == DOMAIN q
<1>8. o \in Seq(Selects) /\ m \in Nat /\ n \in Nat /\ DOMAIN o = 1 .. m /\ m = Len(o) /\ dq = 1 .. n /\ n = Len(q)
  BY <1>1, <1>2
<1>9. new \in Seq(Selects) /\ Len(new) = n /\ DOMAIN new = dq
  BY <1>5
<1>10. ss = o \o new
  OBVIOUS
<1> HIDE DEF new, D, ss, m, n, o, dq
<1>11. ss \in Seq(Selects)
  BY <1>8, <1>9, <1>10
<1>12. Len(ss) = m + n
  <2>1. o \in Seq(Selects) /\ new \in Seq(Selects)
    BY <1>8, <1>9
  <2>2. Len(o \o new) = Len(o) + Len(new)
    BY <2>1
  <2>3. QED
    BY <1>8, <1>9, <1>10, <2>2
<1>13. DOMAIN ss = 1 .. m + n
  BY <1>11, <1>12
<1>14. \A s \in 1 .. m : ss[s] = o[s]
  BY <1>8, <1>9, <1>10
<1>15. \A k \in 1 .. n : ss[m + k] = new[k]
  BY <1>8, <1>9, <1>10
<1>17. /\ h.block = g.block /\ h.array = g.array /\ h.select = ss /\ h.values = g.values /\ h.panic = g.panic
  BY <1>7
<1>18. h \in Gens
  <2> DEFINE i == [block |-> g.block, array |-> g.array, select |-> ss, values |-> g.values, panic |-> g.panic]
  <2>1. i \in Gens
    BY <1>1, <1>11 DEF Gens
  <2>2. h = i
    BY <1>7
  <2> HIDE DEF i
  <2>3. QED
    BY <2>1, <2>2
<1>19. \A s \in 1 .. m : s \in 1 .. m + n
  BY <1>8
<1>20. \A k \in 1 .. n : m + k \in 1 .. m + n
  BY <1>8
<1>21. \A s \in 1 .. m + n : s \in 1 .. m \/ \E k \in 1 .. n : s = m + k
  <2> TAKE s \in 1 .. m + n
  <2>1. CASE s <= m
    BY <1>8, <2>1
  <2>2. CASE ~ s <= m
    <3>1. s - m \in 1 .. n /\ s = m + (s - m)
      BY <1>8, <2>2
    <3>2. QED
      BY <3>1
  <2>3. QED
    BY <2>1, <2>2
<1>22. \A s \in DOMAIN g.select : s \in DOMAIN ss /\ ss[s] = g.select[s]
  BY <1>8, <1>13, <1>14, <1>19 DEF o
<1>23. \A k \in DOMAIN q : m + k \in DOMAIN ss /\ ss[m + k] = NewSelect(g, cond, t, f, q[k])
  BY <1>6, <1>8, <1>13, <1>15, <1>20 DEF dq
<1>24. \A s \in DOMAIN ss : s \in DOMAIN g.select \/ \E k \in DOMAIN q : s = m + k
  BY <1>8, <1>13, <1>21 DEF o, dq
<1>16. QED
  BY <1>12, <1>17, <1>18, <1>22, <1>23, <1>24 DEF MergedGen, m, n

\* Those selects mean the choice of the condition between the two branches.
LEMMA MergedKeeps ==
  ASSUME NEW g, GenOK(g), NEW cond \in 1 .. g.values, NEW t \in DOMAIN g.block, NEW f \in DOMAIN g.block,
         NEW q, Lists(q, DifferAt(g, t, f)), NEW h, MergedGen(g, h, cond, t, f, q)
  PROVE  /\ GenOK(h) /\ Extends(g, h) /\ Picture(h) = Picture(g)
         /\ \A k \in DOMAIN q :
              SelectsOf(h)[Len(g.select) + k] =
                Choice(Car(g)[cond], Chosen(g, Bindings(g, t)[q[k]]), Chosen(g, Bindings(g, f)[q[k]]))
<1> DEFINE m == Len(g.select)
<1>1. Typed(g) /\ CopyOnWrite(g)
  BY DEF GenOK
<1>2. /\ DOMAIN g.select = 1 .. m /\ m \in Nat /\ g.values \in Nat /\ Len(g.block) \in Nat
      /\ DOMAIN q = 1 .. Len(q) /\ Len(q) \in Nat
  BY <1>1, TypedFields DEF Lists
<1>3. /\ h \in Gens /\ h.block = g.block /\ h.array = g.array /\ h.values = g.values
      /\ Len(h.select) = m + Len(q)
      /\ \A s \in DOMAIN g.select : s \in DOMAIN h.select /\ h.select[s] = g.select[s]
      /\ \A k \in DOMAIN q : m + k \in DOMAIN h.select /\ h.select[m + k] = NewSelect(g, cond, t, f, q[k])
      /\ \A s \in DOMAIN h.select : s \in DOMAIN g.select \/ \E k \in DOMAIN q : s = m + k
  BY DEF MergedGen
<1> HIDE DEF m
<1>4. \A p : Within(g, p) => Within(h, p)
  BY <1>3 DEF Within
<1>5. \A k \in DOMAIN q : q[k] \in DOMAIN Bindings(g, t) /\ q[k] \in DOMAIN Bindings(g, f)
  <2>1. \A k \in DOMAIN q : q[k] \in DifferAt(g, t, f)
    BY DEF Lists
  <2>2. QED
    BY <2>1 DEF DifferAt
<1>6. ASSUME NEW k \in DOMAIN q
      PROVE  LET x == h.select[m + k]
             IN /\ x.cond = cond /\ x.resolved = None
                /\ x.t = Bindings(g, t)[q[k]] /\ x.f = Bindings(g, f)[q[k]]
                /\ Within(g, x.t) /\ Within(g, x.f)
  <2>1. h.select[m + k] = NewSelect(g, cond, t, f, q[k])
    BY <1>3
  <2>2. Within(g, Bindings(g, t)[q[k]]) /\ Within(g, Bindings(g, f)[q[k]])
    BY <1>1, <1>5, BindingsIs
  <2>3. QED
    BY <2>1, <2>2 DEF NewSelect
<1>7. SelectsOK(h)
  <2> SUFFICES ASSUME NEW s \in DOMAIN h.select
               PROVE  LET x == h.select[s]
                      IN /\ x.cond \in 1 .. h.values /\ x.resolved \in 0 .. h.values
                         /\ Within(h, x.t) /\ (x.t.select => x.t.at < s)
                         /\ Within(h, x.f) /\ (x.f.select => x.f.at < s)
    BY DEF SelectsOK
  <2>1. CASE s \in DOMAIN g.select
    <3>1. h.select[s] = g.select[s]
      BY <1>3, <2>1
    <3>2. LET x == g.select[s]
          IN /\ x.cond \in 1 .. g.values /\ x.resolved \in 0 .. g.values
             /\ Within(g, x.t) /\ (x.t.select => x.t.at < s)
             /\ Within(g, x.f) /\ (x.f.select => x.f.at < s)
      BY <1>1, <2>1 DEF Typed, SelectsOK
    <3>3. QED
      BY <1>3, <1>4, <3>1, <3>2
  <2>2. CASE s \notin DOMAIN g.select
    <3>1. PICK k \in DOMAIN q : s = m + k
      BY <1>3, <2>2
    <3> DEFINE x == h.select[s]
    <3>2. /\ x.cond = cond /\ x.resolved = None /\ Within(g, x.t) /\ Within(g, x.f)
      BY <1>6, <3>1
    <3> HIDE DEF x
    <3>3. (x.t.select => x.t.at < s) /\ (x.f.select => x.f.at < s)
      BY <1>2, <3>1, <3>2 DEF Within
    <3>4. QED
      BY <1>2, <1>3, <1>4, <3>2, <3>3 DEF x, None
  <2>3. QED
    BY <2>1, <2>2
<1>8. ArraysOK(h)
  <2>1. ArraysOK(g)
    BY <1>1 DEF Typed
  <2>2. QED
    BY <1>3, <1>4, <2>1 DEF ArraysOK
<1>9. CopyOnWrite(h)
  BY <1>1, <1>3 DEF CopyOnWrite
<1>10. Rebinds(g, h)
  <2>1. \A c \in DOMAIN g.block : g.block[c].cond \in 0 .. g.values /\ g.block[c].bindings.at \in DOMAIN g.array
    BY <1>1 DEF Typed, BlocksOK
  <2>2. \A s \in DOMAIN h.select : s \notin DOMAIN g.select => h.select[s].resolved = None
    BY <1>3, <1>6
  <2>3. Len(g.select) <= Len(h.select)
    BY <1>2, <1>3 DEF m
  <2>4. QED
    BY <1>2, <1>3, <1>7, <1>8, <1>9, <2>1, <2>2, <2>3 DEF Rebinds
<1>11. GenOK(h) /\ Extends(g, h)
  BY <1>10, RebindsKeeps
<1>12. Typed(h)
  BY <1>11 DEF GenOK
<1>13. Picture(h) = Picture(g)
  <2>1. \A c \in DOMAIN g.block : Bindings(h, c) = Bindings(g, c)
    BY <1>3 DEF Bindings
  <2>2. \A c \in DOMAIN g.block : Picture(h)[c] = Picture(g)[c]
    BY <1>1, <1>3, <1>11, <1>12, <2>1, BoxKept
  <2>3. Picture(h) = [c \in DOMAIN g.block |-> Picture(h)[c]] /\ Picture(g) = [c \in DOMAIN g.block |-> Picture(g)[c]]
    BY <1>3 DEF Picture
  <2>4. QED
    BY <2>2, <2>3
<1>14. ASSUME NEW k \in DOMAIN q
       PROVE  SelectsOf(h)[m + k] =
                Choice(Car(g)[cond], Chosen(g, Bindings(g, t)[q[k]]), Chosen(g, Bindings(g, f)[q[k]]))
  <2> DEFINE x == h.select[m + k]
  <2>1. /\ x.cond = cond /\ x.t = Bindings(g, t)[q[k]] /\ x.f = Bindings(g, f)[q[k]]
        /\ Within(g, x.t) /\ Within(g, x.f) /\ m + k \in DOMAIN h.select
    BY <1>3, <1>6
  <2>2. SelectsOf(h)[m + k] = SelectedBy(x, Car(h), SelectsOf(h))
    BY <1>12, <2>1, SelectsEquation
  <2> HIDE DEF x
  <2>3. Car(h)[cond] = Car(g)[cond]
    BY <1>11 DEF Extends
  <2>4. Chosen(h, x.t) = Chosen(g, x.t) /\ Chosen(h, x.f) = Chosen(g, x.f)
    BY <1>1, <1>11, <1>12, <2>1, ExtendsWithin
  <2>5. QED
    BY <2>1, <2>2, <2>3, <2>4 DEF SelectedBy, Chosen, Car
<1>15. QED
  BY <1>11, <1>13, <1>14 DEF m

\* Bindings.Merge: each name of both blocks is what the condition chooses, whether Equal saved a select or not.
LEMMA MergeIs ==
  ASSUME NEW g, GenOK(g), NEW cond \in 1 .. g.values, NEW t \in DOMAIN g.block, NEW f \in DOMAIN g.block
  PROVE  Merged(g, Merge(g, cond, t, f).gen, Merge(g, cond, t, f).array, cond, t, f)
<1> DEFINE q == Differing(g, t, f)
           h == Merge(g, cond, t, f).gen
           array == Merge(g, cond, t, f).array
           m == Len(g.select)
           T == Bindings(g, t)
           F == Bindings(g, f)
<1>1. Typed(g) /\ cond \in Nat
  BY DEF GenOK
<1>2. /\ T \in Arrays /\ IsFiniteSet(DOMAIN T) /\ DOMAIN T \subseteq Names
      /\ \A n \in DOMAIN T : T[n] \in Bounds /\ Within(g, T[n])
      /\ \A n \in DOMAIN F : F[n] \in Bounds /\ Within(g, F[n])
  BY <1>1, BindingsIs
<1>3. Lists(q, DifferAt(g, t, f))
  <2>1. IsFiniteSet(DifferAt(g, t, f))
    <3>1. DifferAt(g, t, f) \in SUBSET DOMAIN T
      BY DEF DifferAt
    <3> HIDE DEF T
    <3>2. QED
      BY <1>2, <3>1, FS_Subset
  <2>2. q = SetToSeq(DifferAt(g, t, f))
    BY DEF Differing, DifferAt
  <2>3. QED
    BY <2>1, <2>2, SetToSeqIs
<1>4. h = [g EXCEPT !.select = @ \o [k \in DOMAIN q |-> NewSelect(g, cond, t, f, q[k])]]
  BY DEF Merge, NewSelect
<1>5. array = [n \in DOMAIN T |-> IF n \in Range(q) THEN Selected(m + CHOOSE k \in DOMAIN q : q[k] = n) ELSE T[n]]
  BY DEF Merge
<1> HIDE DEF q, h, array
<1>6. MergedGen(g, h, cond, t, f, q)
  BY <1>1, <1>3, <1>4, MergedGenIs
<1>7. /\ GenOK(h) /\ Extends(g, h) /\ Picture(h) = Picture(g)
      /\ \A k \in DOMAIN q : SelectsOf(h)[m + k] = Choice(Car(g)[cond], Chosen(g, T[q[k]]), Chosen(g, F[q[k]]))
  BY <1>3, <1>6, MergedKeeps
<1>8. Typed(h)
  BY <1>7 DEF GenOK
<1>9. /\ h.block = g.block /\ h.values = g.values /\ h.panic = g.panic
      /\ \A k \in DOMAIN q : m + k \in DOMAIN h.select
  BY <1>6 DEF MergedGen
<1>10. m \in Nat /\ DOMAIN q \subseteq Nat
  BY <1>1, <1>3, TypedFields DEF Lists
<1> HIDE DEF T, F, m
<1>11. ASSUME NEW n \in DOMAIN T
       PROVE  /\ array[n] \in Bounds /\ Within(h, array[n])
              /\ Chosen(h, array[n]) = IF n \in DOMAIN F THEN Choice(Car(g)[cond], Chosen(g, T[n]), Chosen(g, F[n]))
                                       ELSE Chosen(g, T[n])
  <2>1. CASE n \in Range(q)
    <3> DEFINE k == CHOOSE k \in DOMAIN q : q[k] = n
    <3>1. k \in DOMAIN q /\ q[k] = n
      BY <2>1 DEF Range
    <3>2. array[n] = Selected(m + k)
      BY <1>5, <2>1
    <3> HIDE DEF k
    <3>3. n \in DOMAIN F
      <4>1. n \in DifferAt(g, t, f)
        BY <1>3, <3>1 DEF Lists
      <4>2. QED
        BY <4>1 DEF DifferAt, F
    <3>4. array[n] \in Bounds /\ array[n].select /\ array[n].at = m + k
      BY <1>10, <3>1, <3>2 DEF Selected, Bounds
    <3>5. Within(h, array[n])
      BY <1>9, <3>1, <3>4 DEF Within
    <3>6. Chosen(h, array[n]) = SelectsOf(h)[m + k]
      BY <1>8, <3>4, <3>5, ChosenIs
    <3>7. QED
      BY <1>7, <3>1, <3>3, <3>4, <3>5, <3>6
  <2>2. CASE n \notin Range(q)
    <3>1. array[n] = T[n]
      BY <1>5, <2>2
    <3>2. array[n] \in Bounds /\ Within(h, array[n]) /\ Chosen(h, array[n]) = Chosen(g, T[n])
      BY <1>1, <1>2, <1>7, <1>8, <3>1, ExtendsWithin
    <3>3. ASSUME n \in DOMAIN F PROVE Chosen(g, T[n]) = Chosen(g, F[n])
      <4>1. n \notin DifferAt(g, t, f)
        BY <1>3, <2>2 DEF Lists, Range
      <4>2. Equal(g, T[n], F[n])
        BY <3>3, <4>1 DEF DifferAt, T, F
      <4>3. QED
        BY <1>1, <1>2, <3>3, <4>2, EqualMeans
    <3>4. QED
      BY <3>2, <3>3 DEF Choice
  <2>3. QED
    BY <2>1, <2>2
<1>12. DOMAIN array = DOMAIN T
  BY <1>5
<1>13. array \in Arrays
  <2>1. array \in [DOMAIN T -> Bounds]
    BY <1>5, <1>11, <1>12
  <2>2. QED
    BY <1>2, <2>1 DEF Arrays
<1>14. Worlds(h, array) = Joined(Car(g)[cond], Picture(g)[t].view, Picture(g)[f].view)
  <2>1. Shown(g, t) /\ Shown(g, f)
    BY ShownIs
  <2>2. Picture(g)[t].view = Worlds(g, T) /\ Picture(g)[f].view = Worlds(g, F)
    BY <2>1 DEF Shown, T, F
  <2>3. Worlds(h, array) = [n \in DOMAIN T |-> Chosen(h, array[n])]
    BY <1>12 DEF Worlds
  <2>4. Joined(Car(g)[cond], Worlds(g, T), Worlds(g, F)) =
          [n \in DOMAIN T |-> IF n \in DOMAIN F THEN Choice(Car(g)[cond], Chosen(g, T[n]), Chosen(g, F[n])) ELSE Chosen(g, T[n])]
    BY DEF Joined, Worlds
  <2>5. QED
    BY <1>11, <2>2, <2>3, <2>4
<1>15. Merged(g, h, array, cond, t, f)
  BY <1>2, <1>7, <1>9, <1>11, <1>12, <1>13, <1>14 DEF Merged
<1>16. QED
  BY <1>15 DEF h, array

(***************************************************************************)
(* Functions under way, in the picture: a step of the one on top leaves    *)
(* what holds of those below.                                              *)
(***************************************************************************)

Kinds == {"const", "then", "else"}
Ifs == [kind : Kinds, block : Nat, t : Nat, start : SUBSET World, end : SUBSET World, names : SUBSET Names]
Stores == UNION {[S -> SUBSET World] : S \in SUBSET Names}
Calls == [name : Targets, block : Nat] \cup {None}
Frames == [start : Nat, ret : Nat, caller : Nat, target : Calls, ifs : Seq(Ifs), store : Stores,
           result : SUBSET World, here : SUBSET World]

\* The parts of an open if.
LEMMA IfFields ==
  ASSUME NEW i \in Ifs
  PROVE  /\ i.kind \in Kinds /\ i.block \in Nat /\ i.t \in Nat /\ i.start \in SUBSET World
         /\ i.end \in SUBSET World /\ i.names \in SUBSET Names
         /\ i = [kind |-> i.kind, block |-> i.block, t |-> i.t, start |-> i.start, end |-> i.end, names |-> i.names]
         /\ Held(i) \subseteq Nat \ {0}
BY DEF Ifs, Held, None

\* The parts of a frame.
LEMMA FrameFields ==
  ASSUME NEW f \in Frames
  PROVE  /\ f.start \in Nat /\ f.ret \in Nat /\ f.caller \in Nat /\ f.target \in Calls
         /\ f.ifs \in Seq(Ifs) /\ DOMAIN f.ifs = 1 .. Len(f.ifs) /\ Len(f.ifs) \in Nat
         /\ \A j \in DOMAIN f.ifs : f.ifs[j] \in Ifs
         /\ DOMAIN f.store \subseteq Names /\ \A n \in DOMAIN f.store : f.store[n] \in SUBSET World
         /\ f.result \in SUBSET World /\ f.here \in SUBSET World
         /\ f = [start |-> f.start, ret |-> f.ret, caller |-> f.caller, target |-> f.target, ifs |-> f.ifs,
                 store |-> f.store, result |-> f.result, here |-> f.here]
<1>1. /\ f.start \in Nat /\ f.ret \in Nat /\ f.caller \in Nat /\ f.target \in Calls
      /\ f.ifs \in Seq(Ifs) /\ f.store \in Stores /\ f.result \in SUBSET World /\ f.here \in SUBSET World
      /\ f = [start |-> f.start, ret |-> f.ret, caller |-> f.caller, target |-> f.target, ifs |-> f.ifs,
              store |-> f.store, result |-> f.result, here |-> f.here]
  BY DEF Frames
<1>2. PICK S \in SUBSET Names : f.store \in [S -> SUBSET World]
  BY <1>1 DEF Stores
<1>3. DOMAIN f.store \subseteq Names /\ \A n \in DOMAIN f.store : f.store[n] \in SUBSET World
  BY <1>2
<1>4. DOMAIN f.ifs = 1 .. Len(f.ifs) /\ Len(f.ifs) \in Nat /\ \A j \in DOMAIN f.ifs : f.ifs[j] \in Ifs
  BY <1>1
<1>5. QED
  BY <1>1, <1>3, <1>4

\* The blocks that an open if holds.
LEMMA HeldIs ==
  ASSUME NEW f \in Frames, NEW c, ChainOK(f, c), NEW j \in DOMAIN f.ifs
  PROVE  LET i == f.ifs[j]
         IN /\ i.kind = "const" => i.block = None /\ i.t = None
            /\ i.kind # "const" => i.block \in Nat /\ i.block # None /\ i.block \in Held(i)
                                   /\ f.start <= i.block /\ i.block < c /\ i.block # f.ret
            /\ i.kind = "then" => i.t = None /\ Held(i) = {i.block}
            /\ i.kind = "else" => i.t \in Nat /\ i.t # None /\ i.t \in Held(i) /\ i.block < i.t
                                  /\ f.start <= i.t /\ i.t < c /\ i.t # f.ret
<1> DEFINE i == f.ifs[j]
<1>1. i \in Ifs
  BY FrameFields
<1>2. i.kind \in Kinds /\ i.block \in Nat /\ i.t \in Nat
  BY <1>1, IfFields
<1>3. /\ i.kind = "const" => i.block = None /\ i.t = None
      /\ i.kind = "then" => i.block # None /\ i.t = None
      /\ i.kind = "else" => i.block # None /\ i.block < i.t
      /\ \A x \in Held(i) : f.start <= x /\ x < c /\ x # f.ret
  BY DEF ChainOK
<1> HIDE DEF i
<1>4. QED
  BY <1>2, <1>3 DEF Held, Kinds, None, i

\* Two pictures that agree on the blocks before s; those from s on lead to such.
Pic(p) == DOMAIN p = 1 .. Len(p) /\ Len(p) \in Nat
Low(p, q, at, bt, s) ==
  /\ Pic(p) /\ Pic(q) /\ Len(p) <= Len(q) /\ s \in 1 .. Len(p) + 1
  /\ \A b \in 1 .. s - 1 : q[b] = p[b] /\ bt[b] = at[b]
  /\ \A b \in DOMAIN q : b >= s => (q[b].next # None => q[b].next >= s) /\ (q[b].branch # None => q[b].branch >= s)

\* What is said of a frame whose blocks come before s holds in any picture that agrees below s.
LEMMA FrameKept ==
  ASSUME NEW p, NEW q, NEW at, NEW bt, NEW s, Low(p, q, at, bt, s),
         NEW f \in Frames, NEW c, NEW w, FrameOK(p, at, f, c, w), f.ret < s, c < s
  PROVE  FrameOK(q, bt, f, c, w)
<1>1. /\ Len(p) \in Nat /\ Len(q) \in Nat /\ DOMAIN p = 1 .. Len(p) /\ DOMAIN q = 1 .. Len(q)
      /\ Len(p) <= Len(q) /\ s \in 1 .. Len(p) + 1
      /\ \A b \in 1 .. s - 1 : q[b] = p[b] /\ bt[b] = at[b]
      /\ \A b \in DOMAIN q : b >= s => (q[b].next # None => q[b].next >= s) /\ (q[b].branch # None => q[b].branch >= s)
  BY DEF Low, Pic
<1>2. /\ IdsOK(p, f, c) /\ ChainOK(f, c) /\ EndOK(p, at, f) /\ CurOK(p, at, f, c, w)
      /\ \A j \in DOMAIN f.ifs : IfOK(p, at, f, f.ifs[j])
      /\ SidesOK(p, f, w) /\ HereOK(f, w) /\ ApartOK(f, w, f.result) /\ ReturnedOK(p, at, f, w)
  BY DEF FrameOK
<1>3. /\ f.start \in 1 .. Len(p) /\ f.ret = f.start + 1 /\ f.ret <= Len(p) /\ c \in f.start .. Len(p) /\ c # f.ret
      /\ f.start \in Nat
  BY <1>2, FrameFields DEF IdsOK
<1>4. IdsOK(q, f, c)
  BY <1>1, <1>3 DEF IdsOK
<1>5. f.start \in 1 .. s - 1 /\ f.ret \in 1 .. s - 1 /\ c \in 1 .. s - 1
  BY <1>1, <1>3
<1>6. EndOK(q, bt, f) /\ CurOK(q, bt, f, c, w)
  BY <1>1, <1>2, <1>5 DEF EndOK, CurOK
<1>7. ASSUME NEW j \in DOMAIN f.ifs
      PROVE  LET i == f.ifs[j]
             IN /\ i.kind # "const" => q[i.block] = p[i.block] /\ bt[i.block] = at[i.block]
                /\ i.kind = "else" => q[i.t] = p[i.t] /\ bt[i.t] = at[i.t]
                /\ i.kind \in Kinds
  <2> DEFINE i == f.ifs[j]
  <2>1. /\ i.kind # "const" => i.block \in Nat /\ f.start <= i.block /\ i.block < c
        /\ i.kind = "else" => i.t \in Nat /\ f.start <= i.t /\ i.t < c
    BY <1>2, HeldIs
  <2>2. i.kind \in Kinds
    BY FrameFields, IfFields
  <2> HIDE DEF i
  <2>3. /\ i.kind # "const" => i.block \in 1 .. s - 1
        /\ i.kind = "else" => i.t \in 1 .. s - 1
    BY <1>1, <1>3, <1>5, <2>1
  <2>4. QED
    BY <1>1, <2>2, <2>3 DEF i
<1>8. \A j \in DOMAIN f.ifs : IfOK(q, bt, f, f.ifs[j])
  <2> TAKE j \in DOMAIN f.ifs
  <2> DEFINE i == f.ifs[j]
  <2>1. /\ i.kind # "const" => q[i.block] = p[i.block] /\ bt[i.block] = at[i.block]
        /\ i.kind = "else" => q[i.t] = p[i.t] /\ bt[i.t] = at[i.t]
        /\ i.kind \in Kinds
    BY <1>7
  <2>2. IfOK(p, at, f, i)
    BY <1>2
  <2> HIDE DEF i
  <2>3. IfOK(q, bt, f, i)
    BY <2>1, <2>2 DEF IfOK, Kinds
  <2>4. QED
    BY <2>3 DEF i
<1>9. ASSUME NEW j \in DOMAIN f.ifs, NEW ws, SideOK(p, f.ifs[j], ws)
      PROVE  SideOK(q, f.ifs[j], ws)
  BY <1>7, <1>9 DEF SideOK, Kinds
<1>10. SidesOK(q, f, w)
  BY <1>2, <1>9 DEF SidesOK
<1>11. ReturnedOK(q, bt, f, w)
  <2> SUFFICES ASSUME NEW b \in DOMAIN q
               PROVE  /\ q[b].branch # f.ret
                      /\ q[b].next = f.ret =>
                           /\ q[b].dead /\ q[b].branch = None
                           /\ Ret \in DOMAIN q[b].view /\ q[b].view[Ret] \cap bt[b] = f.result \cap bt[b]
                           /\ ApartOK(f, w, bt[b])
    BY DEF ReturnedOK
  <2>1. CASE b < s
    <3>1. b \in 1 .. s - 1 /\ b \in DOMAIN p
      BY <1>1, <2>1
    <3>2. q[b] = p[b] /\ bt[b] = at[b]
      BY <1>1, <3>1
    <3>3. /\ p[b].branch # f.ret
          /\ p[b].next = f.ret =>
               /\ p[b].dead /\ p[b].branch = None
               /\ Ret \in DOMAIN p[b].view /\ p[b].view[Ret] \cap at[b] = f.result \cap at[b]
               /\ ApartOK(f, w, at[b])
      BY <1>2, <3>1 DEF ReturnedOK
    <3>4. QED
      BY <3>2, <3>3
  <2>2. CASE ~ b < s
    <3>1. b >= s /\ f.ret # None /\ ~ f.ret >= s
      BY <1>1, <1>3, <1>5, <2>2 DEF None
    <3>2. QED
      BY <1>1, <3>1
  <2>3. QED
    BY <2>1, <2>2
<1>12. QED
  BY <1>2, <1>4, <1>6, <1>8, <1>10, <1>11 DEF FrameOK

Alike(f, g) == g.start = f.start /\ g.ret = f.ret /\ g.caller = f.caller /\ g.target = f.target /\ g.here = f.here
\* fr2 is fr up to the function K, which is g now.
Upto(fr, fr2, K, g) ==
  /\ fr2 \in Seq(Frames) /\ Len(fr2) = K /\ fr2[K] = g /\ \A k \in 1 .. K - 1 : fr2[k] = fr[k]
\* What the blocks of the function on top must not be.
TopLinks(q, fr, g, cu) ==
  \A b \in DOMAIN q : b >= g.start /\ Linked(q, fr, b) =>
    (q[b].dead => q[b].next # None) /\ (q[b].next = None => b \in OpenIn(g, cu))

\* The functions below: their blocks come before those of the ones above.
Stacked(fr, cu, k, n) ==
  /\ fr[k] \in Frames /\ fr[k].start \in 1 .. n /\ fr[k].ret = fr[k].start + 1 /\ fr[k].ret <= n
  /\ CurOf(fr, cu, k) \in fr[k].start .. n
  /\ OpenIn(fr[k], CurOf(fr, cu, k)) \subseteq Nat
  /\ \A b \in OpenIn(fr[k], CurOf(fr, cu, k)) : fr[k].start <= b

\* The blocks of the functions under way come one function after the other.
LEMMA StackedIs ==
  ASSUME NEW p, NEW at, NEW fr \in Seq(Frames), NEW cu, NEW pa, Sound(p, at, fr, cu, pa), Pic(p), NEW k \in DOMAIN fr
  PROVE  /\ Stacked(fr, cu, k, Len(p))
         /\ \A l \in DOMAIN fr : k < l => fr[k].ret < fr[l].start
         /\ \A l \in DOMAIN fr : k < l => CurOf(fr, cu, k) < fr[l].start
<1>1. DOMAIN fr = 1 .. Len(fr) /\ Len(fr) \in Nat /\ \A l \in DOMAIN fr : fr[l] \in Frames
  OBVIOUS
<1>2. \A l \in DOMAIN fr : FrameOK(p, at, fr[l], CurOf(fr, cu, l), PathOf(fr, pa, l))
  BY DEF Sound
<1>3. \A l \in DOMAIN fr : /\ fr[l].start \in 1 .. Len(p) /\ fr[l].ret = fr[l].start + 1 /\ fr[l].ret <= Len(p)
                           /\ CurOf(fr, cu, l) \in fr[l].start .. Len(p)
  BY <1>2 DEF FrameOK, IdsOK
<1>4. \A l \in DOMAIN fr : l > 1 =>
        /\ fr[l].caller = fr[l].start - 1
        /\ \A m \in DOMAIN fr : m < l => fr[m].ret < fr[l].caller
        /\ fr[l].target.block < fr[l].caller
  BY DEF Sound, StackOK
<1>5. Stacked(fr, cu, k, Len(p))
  <2> DEFINE f == fr[k]
             c == CurOf(fr, cu, k)
  <2>1. f \in Frames /\ f.start \in 1 .. Len(p) /\ f.ret = f.start + 1 /\ f.ret <= Len(p) /\ c \in f.start .. Len(p)
    BY <1>1, <1>3
  <2>2. ChainOK(f, c)
    BY <1>2 DEF FrameOK
  <2> HIDE DEF f, c
  <2>3. ASSUME NEW j \in DOMAIN f.ifs PROVE Held(f.ifs[j]) \subseteq Nat /\ \A x \in Held(f.ifs[j]) : f.start <= x
    BY <2>1, <2>2, <2>3, FrameFields, IfFields DEF ChainOK
  <2>4. OpenIn(f, c) \subseteq Nat /\ \A b \in OpenIn(f, c) : f.start <= b
    <3> SUFFICES ASSUME NEW b \in OpenIn(f, c) PROVE b \in Nat /\ f.start <= b
      OBVIOUS
    <3>1. CASE b \in {f.ret, c}
      BY <2>1, <3>1 DEF Pic
    <3>2. CASE b \notin {f.ret, c}
      <4>1. PICK j \in DOMAIN f.ifs : b \in Held(f.ifs[j])
        BY <3>2 DEF OpenIn
      <4>2. QED
        BY <2>3, <4>1
    <3>3. QED
      BY <3>1, <3>2
  <2>5. QED
    BY <2>1, <2>4 DEF Stacked, f, c
<1>6. ASSUME NEW l \in DOMAIN fr, k < l PROVE fr[k].ret < fr[l].start
  <2>1. l > 1
    BY <1>1, <1>6
  <2>2. fr[k].ret < fr[l].caller /\ fr[l].caller = fr[l].start - 1
    BY <1>4, <1>6, <2>1
  <2>3. fr[l].start \in Nat /\ fr[k].ret \in Nat
    BY <1>1, FrameFields
  <2>4. QED
    BY <2>2, <2>3
<1>7. ASSUME NEW l \in DOMAIN fr, k < l PROVE CurOf(fr, cu, k) < fr[l].start
  <2>1. k + 1 \in DOMAIN fr /\ k + 1 > 1 /\ k # Len(fr)
    BY <1>1, <1>7
  <2>2. CurOf(fr, cu, k) = fr[k + 1].target.block
    BY <2>1 DEF CurOf
  <2>3. CurOf(fr, cu, k) < fr[k + 1].caller /\ fr[k + 1].caller = fr[k + 1].start - 1
    BY <1>4, <2>1, <2>2
  <2>4. CASE l = k + 1
    BY <1>3, <2>1, <2>3, <2>4 DEF Pic
  <2>5. CASE l # k + 1
    <3>1. k + 1 < l /\ l > 1
      BY <1>1, <1>7, <2>5
    <3>2. fr[k + 1].ret < fr[l].caller /\ fr[l].caller = fr[l].start - 1
      BY <1>4, <2>1, <3>1
    <3>3. fr[k + 1].ret = fr[k + 1].start + 1
      BY <1>3, <2>1
    <3>4. /\ fr[k + 1].start \in Nat /\ fr[k + 1].caller \in Nat /\ fr[k + 1].ret \in Nat
          /\ fr[l].start \in Nat /\ fr[l].caller \in Nat
      BY <1>1, <2>1, FrameFields
    <3>5. CurOf(fr, cu, k) \in Nat
      BY <1>3 DEF Pic
    <3> DEFINE c == CurOf(fr, cu, k)
               s1 == fr[k + 1].start
               c1 == fr[k + 1].caller
               r1 == fr[k + 1].ret
               s2 == fr[l].start
               c2 == fr[l].caller
    <3>6. c < c1 /\ c1 = s1 - 1 /\ r1 = s1 + 1 /\ r1 < c2 /\ c2 = s2 - 1
      BY <2>3, <3>2, <3>3
    <3>7. c \in Nat /\ s1 \in Nat /\ c1 \in Nat /\ r1 \in Nat /\ s2 \in Nat /\ c2 \in Nat
      BY <3>4, <3>5
    <3> HIDE DEF c, s1, c1, r1, s2, c2
    <3>8. c < s2
      BY <3>6, <3>7
    <3>9. QED
      BY <3>8 DEF c, s2
  <2>6. QED
    BY <2>4, <2>5
<1>8. QED
  BY <1>5, <1>6, <1>7

\* The functions below are not touched by what happens in the one on top.
LEMMA Lift ==
  ASSUME NEW p, NEW at, NEW fr \in Seq(Frames), NEW cu, NEW pa, Sound(p, at, fr, cu, pa),
         NEW K \in DOMAIN fr, NEW g \in Frames, Alike(fr[K], g), NEW fr2, Upto(fr, fr2, K, g),
         NEW q, NEW bt, NEW cu2, NEW pa2,
         Low(p, q, at, bt, g.start), FlowOK(q, bt), FrameOK(q, bt, g, cu2, pa2), TopLinks(q, fr2, g, cu2)
  PROVE  Sound(q, bt, fr2, cu2, pa2)
<1> DEFINE s == g.start
<1>1. /\ DOMAIN fr = 1 .. Len(fr) /\ Len(fr) \in Nat /\ \A l \in DOMAIN fr : fr[l] \in Frames
      /\ K \in 1 .. Len(fr) /\ DOMAIN fr2 = 1 .. K /\ fr2[K] = g
      /\ \A k \in 1 .. K - 1 : fr2[k] = fr[k] /\ k \in DOMAIN fr /\ k < K
      /\ K \in Nat /\ K <= Len(fr) /\ Len(fr2) = K
  <2>1. DOMAIN fr = 1 .. Len(fr) /\ Len(fr) \in Nat /\ \A l \in DOMAIN fr : fr[l] \in Frames
    OBVIOUS
  <2>2. K \in 1 .. Len(fr) /\ K \in Nat /\ K <= Len(fr)
    BY <2>1
  <2>3. fr2 \in Seq(Frames) /\ Len(fr2) = K /\ fr2[K] = g /\ \A k \in 1 .. K - 1 : fr2[k] = fr[k]
    BY DEF Upto
  <2>4. DOMAIN fr2 = 1 .. K
    BY <2>3
  <2>5. \A k \in 1 .. K - 1 : k \in 1 .. Len(fr) /\ k < K
    BY <2>1, <2>2
  <2>6. QED
    BY <2>1, <2>2, <2>3, <2>4, <2>5
<1>2. /\ Len(p) \in Nat /\ Len(q) \in Nat /\ DOMAIN p = 1 .. Len(p) /\ DOMAIN q = 1 .. Len(q)
      /\ Len(p) <= Len(q) /\ s \in 1 .. Len(p) + 1
      /\ \A b \in 1 .. s - 1 : q[b] = p[b] /\ bt[b] = at[b]
      /\ \A b \in DOMAIN q : b >= s => (q[b].next # None => q[b].next >= s) /\ (q[b].branch # None => q[b].branch >= s)
      /\ Pic(p)
  BY DEF Low, Pic
<1>3. /\ FlowOK(p, at) /\ ClosedOK(p, fr) /\ LinksOK(p, fr, cu) /\ StackOK(p, at, fr, cu)
      /\ \A k \in DOMAIN fr : FrameOK(p, at, fr[k], CurOf(fr, cu, k), PathOf(fr, pa, k))
  BY DEF Sound
<1>4. fr[K].start = s /\ fr[K].ret = g.ret /\ fr[K].caller = g.caller /\ fr[K].target = g.target /\ fr[K].here = g.here
  BY DEF Alike
<1>5. \A k \in 1 .. K - 1 : CurOf(fr2, cu2, k) = CurOf(fr, cu, k) /\ PathOf(fr2, pa2, k) = PathOf(fr, pa, k)
  <2> TAKE k \in 1 .. K - 1
  <2>1. /\ Len(fr2) = K /\ k # K /\ k # Len(fr) /\ k + 1 \in 1 .. K
        /\ k + 1 # K => k + 1 \in 1 .. K - 1
    <3>1. K \in Nat /\ Len(fr) \in Nat /\ K <= Len(fr) /\ Len(fr2) = K
      BY <1>1
    <3>2. k \in Nat /\ 1 <= k /\ k < K
      BY <3>1
    <3>3. QED
      BY <3>1, <3>2
  <2>2. fr2[k + 1].target = fr[k + 1].target /\ fr2[k + 1].here = fr[k + 1].here
    <3>1. CASE k + 1 = K
      BY <1>1, <1>4, <3>1
    <3>2. CASE k + 1 # K
      BY <1>1, <2>1, <3>2, Zenon
    <3>3. QED
      BY <3>1, <3>2
  <2>3. QED
    BY <2>1, <2>2 DEF CurOf, PathOf
<1>6. CurOf(fr2, cu2, K) = cu2 /\ PathOf(fr2, pa2, K) = pa2
  BY DEF Upto, CurOf, PathOf
<1>7. \A k \in 1 .. K - 1 : /\ fr[k].ret < s /\ CurOf(fr, cu, k) < s /\ Stacked(fr, cu, k, Len(p))
  <2> TAKE k \in 1 .. K - 1
  <2>1. k \in DOMAIN fr /\ K \in DOMAIN fr /\ k < K /\ Pic(p)
    BY <1>1, <1>2
  <2>2. Stacked(fr, cu, k, Len(p)) /\ fr[k].ret < fr[K].start /\ CurOf(fr, cu, k) < fr[K].start
    BY <2>1, StackedIs
  <2>3. QED
    BY <1>4, <2>2
<1>8. \A k \in DOMAIN fr : Stacked(fr, cu, k, Len(p))
  BY <1>2, StackedIs
<1>9. \A k \in DOMAIN fr : k >= K => fr[k].start >= s
  <2> TAKE k \in DOMAIN fr
  <2> HAVE k >= K
  <2>1. CASE k = K
    BY <1>2, <1>4, <2>1
  <2>2. CASE k # K
    <3>1. fr[K].ret < fr[k].start
      <4>1. K \in DOMAIN fr /\ K < k
        BY <1>1, <2>2
      <4>2. QED
        BY <1>2, <4>1, StackedIs
    <3>2. fr[K].ret = fr[K].start + 1 /\ fr[K].start \in Nat /\ fr[k].start \in Nat
      BY <1>1, <1>8, FrameFields DEF Stacked
    <3>3. QED
      BY <1>4, <3>1, <3>2
  <2>3. QED
    BY <2>1, <2>2
<1>10. \A k \in 1 .. K - 1 : fr[k].start \in Nat /\ fr[k].start <= s
  BY <1>1, <1>2, <1>7 DEF Stacked
<1>11. \A k \in DOMAIN fr2 : FrameOK(q, bt, fr2[k], CurOf(fr2, cu2, k), PathOf(fr2, pa2, k))
  <2> TAKE k \in DOMAIN fr2
  <2>1. CASE k = K
    BY <1>1, <1>6, <2>1
  <2>2. CASE k # K
    <3>1. k \in 1 .. K - 1
      BY <1>1, <2>2
    <3>2. FrameOK(p, at, fr[k], CurOf(fr, cu, k), PathOf(fr, pa, k)) /\ fr[k] \in Frames
      BY <1>1, <1>3, <3>1
    <3>3. FrameOK(q, bt, fr[k], CurOf(fr, cu, k), PathOf(fr, pa, k))
      BY <1>7, <3>1, <3>2, FrameKept
    <3>4. QED
      BY <1>1, <1>5, <3>1, <3>3
  <2>3. QED
    BY <2>1, <2>2
<1>12. ClosedOK(q, fr2)
  <2> SUFFICES ASSUME NEW k \in DOMAIN fr2, NEW b \in DOMAIN q, b >= fr2[k].start
               PROVE  (q[b].next # None => q[b].next >= fr2[k].start) /\ (q[b].branch # None => q[b].branch >= fr2[k].start)
    BY DEF ClosedOK
  <2>1. CASE k = K
    BY <1>1, <1>2, <2>1
  <2>2. CASE k # K
    <3>1. k \in 1 .. K - 1 /\ k \in DOMAIN fr /\ fr2[k] = fr[k] /\ fr[k].start \in Nat /\ fr[k].start <= s
      BY <1>1, <1>10, <2>2
    <3>2. CASE b < s
      <4>1. b \in 1 .. s - 1 /\ b \in DOMAIN p
        BY <1>2, <3>2
      <4>2. (p[b].next # None => p[b].next >= fr[k].start) /\ (p[b].branch # None => p[b].branch >= fr[k].start)
        BY <1>3, <3>1, <4>1 DEF ClosedOK
      <4>3. QED
        BY <1>2, <3>1, <4>1, <4>2
    <3>3. CASE ~ b < s
      <4>1. b >= s
        BY <1>2, <3>3
      <4>2. (q[b].next # None => q[b].next >= s) /\ (q[b].branch # None => q[b].branch >= s)
        BY <1>2, <4>1
      <4>3. q[b].next \in Nat /\ q[b].branch \in Nat
        BY <1>2 DEF FlowOK
      <4>4. QED
        BY <1>2, <3>1, <4>2, <4>3
    <3>4. QED
      BY <3>2, <3>3
  <2>3. QED
    BY <2>1, <2>2
<1>13. ASSUME NEW b \in DOMAIN q, b < s, Linked(q, fr2, b) PROVE b \in DOMAIN p /\ q[b] = p[b] /\ Linked(p, fr, b)
  <2>1. b \in 1 .. s - 1 /\ b \in DOMAIN p /\ q[b] = p[b]
    BY <1>2, <1>13
  <2>2. CASE \E k \in DOMAIN fr2 : b = fr2[k].start
    <3>1. PICK k \in DOMAIN fr2 : b = fr2[k].start
      BY <2>2
    <3>2. k # K
      BY <1>1, <1>2, <2>1, <3>1
    <3>3. k \in DOMAIN fr /\ b = fr[k].start
      BY <1>1, <3>1, <3>2
    <3>4. QED
      BY <2>1, <3>3 DEF Linked
  <2>3. CASE \E c \in DOMAIN q : b \in {q[c].next, q[c].branch}
    <3>1. PICK c \in DOMAIN q : b \in {q[c].next, q[c].branch}
      BY <2>3
    <3>2. b # None /\ ~ b >= s
      BY <1>2, <2>1 DEF None
    <3>3. ~ c >= s
      BY <1>2, <3>1, <3>2
    <3>4. c \in 1 .. s - 1 /\ c \in DOMAIN p
      BY <1>2, <3>1, <3>3
    <3>5. q[c] = p[c]
      BY <1>2, <3>4
    <3>6. QED
      BY <2>1, <3>1, <3>4, <3>5 DEF Linked
  <2>4. QED
    BY <1>13, <2>2, <2>3 DEF Linked
<1>14. LinksOK(q, fr2, cu2)
  <2> SUFFICES ASSUME NEW b \in DOMAIN q, Linked(q, fr2, b)
               PROVE  /\ q[b].dead => q[b].next # None
                      /\ q[b].next = None => \E k \in DOMAIN fr2 : b \in OpenIn(fr2[k], CurOf(fr2, cu2, k))
    BY DEF LinksOK
  <2>1. CASE b < s
    <3>1. b \in DOMAIN p /\ q[b] = p[b] /\ Linked(p, fr, b)
      BY <1>13, <2>1
    <3>2. /\ p[b].dead => p[b].next # None
          /\ p[b].next = None => \E k \in DOMAIN fr : b \in OpenIn(fr[k], CurOf(fr, cu, k))
      BY <1>3, <3>1 DEF LinksOK
    <3>3. ASSUME NEW k \in DOMAIN fr, b \in OpenIn(fr[k], CurOf(fr, cu, k))
          PROVE  k \in 1 .. K - 1
      <4>1. fr[k].start <= b /\ fr[k].start \in Nat
        BY <1>8, <3>3 DEF Stacked
      <4>2. ~ fr[k].start >= s
        BY <1>2, <2>1, <4>1
      <4>3. QED
        BY <1>1, <1>9, <4>2
    <3>4. \A k \in 1 .. K - 1 : k \in DOMAIN fr2 /\ OpenIn(fr2[k], CurOf(fr2, cu2, k)) = OpenIn(fr[k], CurOf(fr, cu, k))
      BY <1>1, <1>5
    <3>5. QED
      BY <3>1, <3>2, <3>3, <3>4
  <2>2. CASE ~ b < s
    <3>1. b >= g.start
      BY <1>2, <2>2
    <3>2. (q[b].dead => q[b].next # None) /\ (q[b].next = None => b \in OpenIn(g, cu2))
      BY <3>1 DEF TopLinks
    <3>3. QED
      BY <1>1, <1>6, <3>2
  <2>3. QED
    BY <2>1, <2>2
<1>15. StackOK(q, bt, fr2, cu2)
  <2>1. fr2 # <<>>
    BY <1>1
  <2>2. fr2[1].start = 1 /\ fr2[1].here = World
    <3>1. fr[1].start = 1 /\ fr[1].here = World
      BY <1>3 DEF StackOK
    <3>2. CASE K = 1
      BY <1>1, <1>4, <3>1, <3>2
    <3>3. CASE K # 1
      BY <1>1, <3>1, <3>3
    <3>4. QED
      BY <3>2, <3>3
  <2>3. ASSUME NEW k \in DOMAIN fr2, k > 1
        PROVE  /\ fr2[k].caller = fr2[k].start - 1
               /\ fr2[k].target \in [name : Targets, block : Nat]
               /\ \A l \in DOMAIN fr2 : l < k => fr2[l].ret < fr2[k].caller
               /\ fr2[k].target.block < fr2[k].caller
               /\ Idle(q[fr2[k].caller]) /\ bt[fr2[k].caller] = fr2[k].here
               /\ ~q[fr2[k].target.block].dead
    <3>1. k \in DOMAIN fr
      BY <1>1
    <3>2. Alike(fr[k], fr2[k])
      <4>1. CASE k = K
        BY <1>1, <4>1
      <4>2. CASE k # K
        BY <1>1, <4>2 DEF Alike
      <4>3. QED
        BY <4>1, <4>2
    <3>3. \A l \in DOMAIN fr2 : l < k => l \in DOMAIN fr /\ fr2[l] = fr[l]
      BY <1>1
    <3>4. /\ fr[k].caller = fr[k].start - 1
          /\ fr[k].target \in [name : Targets, block : Nat]
          /\ \A l \in DOMAIN fr : l < k => fr[l].ret < fr[k].caller
          /\ fr[k].target.block < fr[k].caller
          /\ Idle(p[fr[k].caller]) /\ at[fr[k].caller] = fr[k].here
          /\ ~p[fr[k].target.block].dead
      BY <1>3, <2>3, <3>1 DEF StackOK
    <3>5. fr[k].start \in Nat /\ fr[k].start <= s
      <4>1. CASE k = K
        BY <1>2, <1>4, <4>1
      <4>2. CASE k # K
        BY <1>1, <1>10, <4>2
      <4>3. QED
        BY <4>1, <4>2
    <3>6. k - 1 \in DOMAIN fr /\ k - 1 < k /\ k - 1 # Len(fr)
      BY <1>1, <2>3
    <3>7. CurOf(fr, cu, k - 1) = fr[k].target.block
      BY <2>3, <3>1, <3>6, <1>1 DEF CurOf
    <3>8. fr[k].target.block \in fr[k - 1].start .. Len(p) /\ fr[k - 1].start \in 1 .. Len(p) /\ fr[k - 1].ret = fr[k - 1].start + 1
      BY <1>8, <3>6, <3>7 DEF Stacked
    <3>9. fr[k].target.block \in 1 .. s - 1 /\ fr[k].caller \in 1 .. s - 1
      <4> DEFINE u == fr[k].target.block
                 x == fr[k].caller
                 y == fr[k].start
                 z == fr[k - 1].start
                 r == fr[k - 1].ret
                 n == Len(p)
      <4>1. k - 1 \in DOMAIN fr2
        BY <1>1, <2>3
      <4>2. n \in Nat /\ s \in Nat /\ y \in Nat /\ y <= s /\ u \in z .. n /\ z \in 1 .. n /\ r = z + 1
            /\ u < x /\ x = y - 1 /\ r < x
        BY <1>2, <3>4, <3>5, <3>6, <3>8, <4>1
      <4> HIDE DEF u, x, y, z, r, n, s
      <4>3. u \in 1 .. s - 1 /\ x \in 1 .. s - 1
        BY <4>2
      <4>4. QED
        BY <4>3 DEF u, x
    <3>10. fr[k].caller \in 1 .. s - 1
      BY <3>9
    <3>11. /\ q[fr[k].caller] = p[fr[k].caller] /\ bt[fr[k].caller] = at[fr[k].caller]
           /\ q[fr[k].target.block] = p[fr[k].target.block]
      BY <1>2, <3>9, <3>10
    <3>12. QED
      BY <3>2, <3>3, <3>4, <3>11 DEF Alike
  <2>4. QED
    BY <2>1, <2>2, <2>3 DEF StackOK
<1>16. QED
  BY <1>11, <1>12, <1>14, <1>15 DEF Sound

\* f is the function on top.
Top(p, at, fr, cu, pa, f) ==
  /\ fr \in Seq(Frames) /\ Pic(p) /\ Sound(p, at, fr, cu, pa)
  /\ Len(fr) \in DOMAIN fr /\ f = fr[Len(fr)]

\* What holds of the function on top.
LEMMA TopIs ==
  ASSUME NEW p, NEW at, NEW fr, NEW cu, NEW pa, NEW f, Top(p, at, fr, cu, pa, f)
  PROVE  /\ f \in Frames /\ FrameOK(p, at, f, cu, pa) /\ FlowOK(p, at) /\ TopLinks(p, fr, f, cu)
         /\ \A b \in DOMAIN p : b >= f.start =>
              (p[b].next # None => p[b].next >= f.start) /\ (p[b].branch # None => p[b].branch >= f.start)
         /\ f.start \in 1 .. Len(p) /\ f.ret = f.start + 1 /\ f.ret \in 1 .. Len(p)
         /\ cu \in f.start .. Len(p) /\ cu \in 1 .. Len(p) /\ cu # f.ret
         /\ DOMAIN p = 1 .. Len(p) /\ Len(p) \in Nat
<1> DEFINE K == Len(fr)
<1>1. fr \in Seq(Frames) /\ Pic(p) /\ Sound(p, at, fr, cu, pa) /\ K \in DOMAIN fr /\ f = fr[K]
  BY DEF Top
<1>2. f \in Frames /\ DOMAIN fr = 1 .. K /\ K \in Nat
  BY <1>1
<1>3. FrameOK(p, at, f, cu, pa)
  BY <1>1 DEF Sound, CurOf, PathOf
<1>4. FlowOK(p, at) /\ ClosedOK(p, fr) /\ LinksOK(p, fr, cu)
  BY <1>1 DEF Sound
<1>5. f.start \in 1 .. Len(p) /\ f.ret = f.start + 1 /\ f.ret <= Len(p) /\ cu \in f.start .. Len(p) /\ cu # f.ret
  BY <1>3 DEF FrameOK, IdsOK
<1>6. DOMAIN p = 1 .. Len(p) /\ Len(p) \in Nat
  BY <1>1 DEF Pic
<1>7. f.ret \in 1 .. Len(p) /\ cu \in 1 .. Len(p)
  BY <1>5, <1>6
<1>8. \A b \in DOMAIN p : b >= f.start =>
        (p[b].next # None => p[b].next >= f.start) /\ (p[b].branch # None => p[b].branch >= f.start)
  BY <1>1, <1>4 DEF ClosedOK
<1>9. TopLinks(p, fr, f, cu)
  <2> SUFFICES ASSUME NEW b \in DOMAIN p, b >= f.start, Linked(p, fr, b)
               PROVE  (p[b].dead => p[b].next # None) /\ (p[b].next = None => b \in OpenIn(f, cu))
    BY DEF TopLinks
  <2>1. /\ p[b].dead => p[b].next # None
        /\ p[b].next = None => \E k \in DOMAIN fr : b \in OpenIn(fr[k], CurOf(fr, cu, k))
    BY <1>4 DEF LinksOK
  <2>2. ASSUME NEW k \in DOMAIN fr, b \in OpenIn(fr[k], CurOf(fr, cu, k)) PROVE k = K
    <3> SUFFICES ASSUME k # K PROVE FALSE
      OBVIOUS
    <3> DEFINE l == fr[k]
               c == CurOf(fr, cu, k)
    <3>1. k < K /\ l \in Frames
      BY <1>1, <1>2
    <3>2. l.ret < f.start /\ c < f.start
      BY <1>1, <3>1, StackedIs
    <3>3. ChainOK(l, c) /\ c \in l.start .. Len(p)
      BY <1>1 DEF Sound, FrameOK, IdsOK
    <3>4. b \in OpenIn(l, c)
      BY <2>2
    <3> HIDE DEF l, c
    <3>5. b < f.start /\ b \in Nat
      <4>1. CASE b \in {l.ret, c}
        BY <3>2, <4>1, <1>6
      <4>2. CASE b \notin {l.ret, c}
        <5>1. PICK j \in DOMAIN l.ifs : b \in Held(l.ifs[j])
          BY <3>4, <4>2 DEF OpenIn
        <5>2. b < c /\ b \in Nat
          BY <3>1, <3>3, <5>1, FrameFields, IfFields DEF ChainOK
        <5>3. c \in Nat
          BY <3>1, <3>3, <1>6, FrameFields
        <5>4. QED
          BY <1>5, <1>6, <3>2, <5>2, <5>3
      <4>3. QED
        BY <4>1, <4>2
    <3>6. QED
      BY <1>5, <1>6, <3>5
  <2>3. CurOf(fr, cu, K) = cu
    BY DEF CurOf
  <2>4. QED
    BY <1>1, <2>1, <2>2, <2>3
<1>10. QED
  BY <1>2, <1>3, <1>4, <1>5, <1>6, <1>7, <1>8, <1>9

\* What is to show of a step of the function on top.
LEMMA LiftTop ==
  ASSUME NEW p, NEW at, NEW fr, NEW cu, NEW pa, NEW f, Top(p, at, fr, cu, pa, f),
         NEW g \in Frames, Alike(f, g), NEW fr2, Upto(fr, fr2, Len(fr), g),
         NEW q, NEW bt, NEW cu2, NEW pa2,
         Low(p, q, at, bt, g.start), FlowOK(q, bt), FrameOK(q, bt, g, cu2, pa2), TopLinks(q, fr2, g, cu2)
  PROVE  Top(q, bt, fr2, cu2, pa2, g)
<1>1. fr \in Seq(Frames) /\ Pic(p) /\ Sound(p, at, fr, cu, pa) /\ Len(fr) \in DOMAIN fr /\ f = fr[Len(fr)]
  BY DEF Top
<1>2. Sound(q, bt, fr2, cu2, pa2)
  BY <1>1, Lift
<1>3. fr2 \in Seq(Frames) /\ Len(fr2) = Len(fr) /\ fr2[Len(fr)] = g
  BY DEF Upto
<1>4. Pic(q)
  BY DEF Low
<1>5. Len(fr2) \in DOMAIN fr2
  BY <1>1, <1>3
<1>6. QED
  BY <1>2, <1>3, <1>4, <1>5 DEF Top

\* The edges of q that are not in p lead to T.
EdgesFrom(p, q, T) ==
  \A c \in DOMAIN q : \A b \in {q[c].next, q[c].branch} :
    b = None \/ b \in T \/ (c \in DOMAIN p /\ b \in {p[c].next, p[c].branch})
LinksFrom(p, fr, q, fr2, T) == \A b : b # None /\ Linked(q, fr2, b) => b \in T \/ Linked(p, fr, b)

\* A block that is linked now was, or is a target of a new edge.
LEMMA LinkedFrom ==
  ASSUME NEW p, NEW fr, NEW K \in DOMAIN fr, fr \in Seq(Frames), NEW g, Alike(fr[K], g), NEW fr2, Upto(fr, fr2, K, g),
         NEW q, NEW T, EdgesFrom(p, q, T)
  PROVE  LinksFrom(p, fr, q, fr2, T)
<1> SUFFICES ASSUME NEW b, b # None, Linked(q, fr2, b), b \notin T PROVE Linked(p, fr, b)
  BY DEF LinksFrom
<1>1. \A k \in DOMAIN fr2 : k \in DOMAIN fr /\ fr2[k].start = fr[k].start
  <2>1. fr2 \in Seq(Frames) /\ Len(fr2) = K /\ fr2[K] = g /\ \A k \in 1 .. K - 1 : fr2[k] = fr[k]
    BY DEF Upto
  <2>2. K \in 1 .. Len(fr) /\ DOMAIN fr = 1 .. Len(fr) /\ Len(fr) \in Nat /\ DOMAIN fr2 = 1 .. K
    BY <2>1
  <2>3. QED
    BY <2>1, <2>2 DEF Alike
<1>2. QED
  BY <1>1 DEF Linked, EdgesFrom

\* The same for the function on top.
LEMMA TopLinkedFrom ==
  ASSUME NEW p, NEW at, NEW fr, NEW cu, NEW pa, NEW f, Top(p, at, fr, cu, pa, f), NEW g, Alike(f, g),
         NEW fr2, Upto(fr, fr2, Len(fr), g), NEW q, NEW T, EdgesFrom(p, q, T)
  PROVE  LinksFrom(p, fr, q, fr2, T)
<1>1. Len(fr) \in DOMAIN fr /\ fr \in Seq(Frames) /\ f = fr[Len(fr)]
  BY DEF Top
<1>2. Alike(fr[Len(fr)], g)
  BY <1>1
<1>3. QED
  BY <1>1, <1>2, LinkedFrom

\* The worlds of an open if that are not at this point are apart from those that are.
LEMMA AsideApart ==
  ASSUME NEW p, NEW at, NEW f \in Frames, NEW c, NEW w, FrameOK(p, at, f, c, w)
  PROVE  /\ \A j \in DOMAIN f.ifs : w \cap Aside(f.ifs[j]) = {}
         /\ \A j, l \in DOMAIN f.ifs : j < l => Aside(f.ifs[j]) \cap Aside(f.ifs[l]) = {}
<1>1. SidesOK(p, f, w) /\ \A j \in DOMAIN f.ifs : IfOK(p, at, f, f.ifs[j])
  BY DEF FrameOK
<1>2. \A j \in DOMAIN f.ifs : f.ifs[j].kind \in Kinds
  BY FrameFields, IfFields
<1>3. ASSUME NEW j \in DOMAIN f.ifs, NEW ws, SideOK(p, f.ifs[j], ws) PROVE ws \cap Aside(f.ifs[j]) = {}
  BY <1>1, <1>2, <1>3 DEF SideOK, IfOK, Aside, Kinds
<1>4. QED
  BY <1>1, <1>3 DEF SidesOK

(***************************************************************************)
(* Assignments, in the picture.                                            *)
(***************************************************************************)

\* A variable of the function is assigned e in the worlds w.
Stored(f, g, name, w, e) ==
  /\ Alike(f, g) /\ g \in Frames /\ g.ifs = f.ifs /\ g.result = f.result
  /\ g.store = Assigned(f.store, name, w, e)
IsAssigned(new, store, name, w, e) ==
  /\ DOMAIN new = DOMAIN store \cup {name}
  /\ \A n \in DOMAIN store : \A ws : ws \cap w = {} => new[n] \cap ws = store[n] \cap ws
  /\ \A n \in DOMAIN store : n # name => new[n] = store[n]
  /\ new[name] \cap w = e \cap w

\* What an assignment does to the variables of the run.
LEMMA AssignedIs ==
  ASSUME NEW store, NEW name, NEW w, NEW e
  PROVE  IsAssigned(Assigned(store, name, w, e), store, name, w, e)
BY DEF Assigned, IsAssigned

\* The names agree with the variables after both got one value.
LEMMA ReboundAgrees ==
  ASSUME NEW view, NEW store, NEW name, NEW w, NEW e, NEW ws, ws \cap w = e \cap w,
         Agrees(view, store, DOMAIN store, w)
  PROVE  LET new == Assigned(store, name, w, e) IN Agrees(Rebound(view, name, ws), new, DOMAIN new, w)
<1> DEFINE new == Assigned(store, name, w, e)
           v == Rebound(view, name, ws)
<1>1. /\ DOMAIN new = DOMAIN store \cup {name}
      /\ \A n \in DOMAIN store : n # name => new[n] = store[n]
      /\ new[name] \cap w = e \cap w
  <2>1. IsAssigned(new, store, name, w, e)
    BY AssignedIs
  <2>2. QED
    BY <2>1 DEF IsAssigned
<1>2. DOMAIN v = DOMAIN view \cup {name} /\ v[name] = ws /\ \A n \in DOMAIN view : n # name => v[n] = view[n]
  BY DEF Rebound
<1> HIDE DEF new, v
<1>3. \A n \in DOMAIN store : n \in DOMAIN view /\ view[n] \cap w = store[n] \cap w
  BY DEF Agrees
<1>4. Agrees(v, new, DOMAIN new, w)
  BY <1>1, <1>2, <1>3 DEF Agrees
<1>5. QED
  BY <1>4 DEF new, v

\* The picture changes only from block c on, and no new block leads to where f returns.
After(p, q, f, c) ==
  /\ Pic(p) /\ Pic(q) /\ Len(p) <= Len(q)
  /\ \A b \in DOMAIN p : b < c \/ b = f.ret => q[b] = p[b]
  /\ \A b \in DOMAIN q : q[b].branch # f.ret /\ (q[b].next = f.ret => b \in DOMAIN p /\ q[b] = p[b])

\* An assignment keeps what is said of its frame.
LEMMA FrameStored ==
  ASSUME NEW p, NEW at, NEW f \in Frames, NEW c, NEW w, FrameOK(p, at, f, c, w),
         NEW g, NEW name, NEW e, Stored(f, g, name, w, e), NEW q, After(p, q, f, c),
         NEW d \in c .. Len(q), d # f.ret, CurOK(q, at, g, d, w)
  PROVE  FrameOK(q, at, g, d, w)
<1>1. /\ IdsOK(p, f, c) /\ ChainOK(f, c) /\ EndOK(p, at, f)
      /\ \A j \in DOMAIN f.ifs : IfOK(p, at, f, f.ifs[j])
      /\ SidesOK(p, f, w) /\ HereOK(f, w) /\ ApartOK(f, w, f.result) /\ ReturnedOK(p, at, f, w)
  BY DEF FrameOK
<1>2. /\ g.start = f.start /\ g.ret = f.ret /\ g.here = f.here /\ g.ifs = f.ifs /\ g.result = f.result
      /\ g.store = Assigned(f.store, name, w, e)
  BY DEF Stored, Alike
<1>3. /\ DOMAIN p = 1 .. Len(p) /\ Len(p) \in Nat /\ DOMAIN q = 1 .. Len(q) /\ Len(q) \in Nat /\ Len(p) <= Len(q)
      /\ \A b \in DOMAIN p : b < c \/ b = f.ret => q[b] = p[b]
      /\ \A b \in DOMAIN q : q[b].branch # f.ret /\ (q[b].next = f.ret => b \in DOMAIN p /\ q[b] = p[b])
  BY DEF After, Pic
<1>4. f.start \in 1 .. Len(p) /\ f.ret = f.start + 1 /\ f.ret <= Len(p) /\ c \in f.start .. Len(p) /\ f.start \in Nat
  BY <1>1, FrameFields DEF IdsOK
<1>5. IdsOK(q, g, d)
  BY <1>2, <1>3, <1>4 DEF IdsOK
<1>6. /\ DOMAIN g.store = DOMAIN f.store \cup {name}
      /\ \A n \in DOMAIN f.store : \A ws : ws \cap w = {} => g.store[n] \cap ws = f.store[n] \cap ws
  <2>1. IsAssigned(g.store, f.store, name, w, e)
    BY <1>2, AssignedIs
  <2>2. QED
    BY <2>1 DEF IsAssigned
<1>7. ChainOK(g, d)
  <2>1. \A j \in DOMAIN f.ifs : \A x \in Held(f.ifs[j]) : x \in Nat
    BY FrameFields, IfFields
  <2>2. \A j \in DOMAIN f.ifs : \A x \in Held(f.ifs[j]) : f.start <= x /\ x < c /\ x # f.ret
    BY <1>1 DEF ChainOK
  <2>3. \A j \in DOMAIN f.ifs : \A x \in Held(f.ifs[j]) : x < d
    <3>1. c \in Nat /\ d \in Nat /\ c <= d
      BY <1>3, <1>4
    <3>2. QED
      BY <2>1, <2>2, <3>1
  <2>4. QED
    BY <1>1, <1>2, <1>6, <2>2, <2>3 DEF ChainOK
<1>8. EndOK(q, at, g)
  BY <1>1, <1>2, <1>3, <1>4 DEF EndOK
<1>9. ASSUME NEW j \in DOMAIN f.ifs
      PROVE  LET i == f.ifs[j]
             IN /\ i.kind # "const" => q[i.block] = p[i.block]
                /\ i.kind = "else" => q[i.t] = p[i.t]
                /\ i.kind \in Kinds
  <2> DEFINE i == f.ifs[j]
  <2>1. /\ i.kind # "const" => i.block \in Nat /\ f.start <= i.block /\ i.block < c
        /\ i.kind = "else" => i.t \in Nat /\ f.start <= i.t /\ i.t < c
    BY <1>1, HeldIs
  <2>2. i.kind \in Kinds
    BY FrameFields, IfFields
  <2> HIDE DEF i
  <2>3. /\ i.kind # "const" => i.block \in DOMAIN p
        /\ i.kind = "else" => i.t \in DOMAIN p
    BY <1>3, <1>4, <2>1
  <2>4. QED
    BY <1>3, <2>1, <2>2, <2>3 DEF i
<1>10. \A j \in DOMAIN f.ifs : IfOK(q, at, g, f.ifs[j])
  <2> TAKE j \in DOMAIN f.ifs
  <2> DEFINE i == f.ifs[j]
  <2>1. /\ i.kind # "const" => q[i.block] = p[i.block]
        /\ i.kind = "else" => q[i.t] = p[i.t]
        /\ i.kind \in Kinds
    BY <1>9
  <2>2. IfOK(p, at, f, i) /\ i.names \subseteq DOMAIN f.store
    BY <1>1 DEF ChainOK
  <2>3. w \cap Aside(i) = {}
    BY AsideApart
  <2> HIDE DEF i
  <2>4. \A view : Agrees(view, f.store, i.names, Aside(i)) => Agrees(view, g.store, i.names, Aside(i))
    BY <1>6, <2>2, <2>3 DEF Agrees
  <2>5. IfOK(q, at, g, i)
    BY <2>1, <2>2, <2>4 DEF IfOK, Aside, Kinds
  <2>6. QED
    BY <2>5 DEF i
<1>11. ASSUME NEW j \in DOMAIN f.ifs, NEW ws, SideOK(p, f.ifs[j], ws)
       PROVE  SideOK(q, f.ifs[j], ws)
  BY <1>9, <1>11 DEF SideOK, Kinds
<1>12. SidesOK(q, g, w)
  BY <1>1, <1>2, <1>11 DEF SidesOK
<1>13. HereOK(g, w) /\ ApartOK(g, w, g.result)
  BY <1>1, <1>2 DEF HereOK, ApartOK
<1>14. ReturnedOK(q, at, g, w)
  <2>1. \A ws : ApartOK(f, w, ws) = ApartOK(g, w, ws)
    BY <1>2 DEF ApartOK
  <2>2. QED
    BY <1>1, <1>2, <1>3, <2>1 DEF ReturnedOK
<1>15. QED
  BY <1>2, <1>5, <1>7, <1>8, <1>10, <1>12, <1>13, <1>14 DEF FrameOK

\* An assignment: of the boxes only the names of cu change.
Renamed(p, q, c, view) ==
  /\ Pic(p) /\ Pic(q) /\ Len(q) = Len(p) /\ \A b \in DOMAIN p : b # c => q[b] = p[b]
  /\ q[c].next = p[c].next /\ q[c].branch = p[c].branch /\ q[c].dead = p[c].dead /\ q[c].when = p[c].when
  /\ q[c].view = view

\* To change names leaves the worlds at which blocks are entered.
LEMMA RenamedKeeps ==
  ASSUME NEW p, NEW q, NEW c, NEW view, Renamed(p, q, c, view), NEW at, FlowOK(p, at)
  PROVE  /\ DOMAIN q = DOMAIN p
         /\ \A b \in DOMAIN p : q[b].next = p[b].next /\ q[b].branch = p[b].branch /\ q[b].dead = p[b].dead
                                /\ q[b].when = p[b].when
         /\ FlowOK(q, at)
<1>1. DOMAIN q = DOMAIN p /\ Len(q) = Len(p)
  BY DEF Renamed, Pic
<1>2. \A b \in DOMAIN p : q[b].next = p[b].next /\ q[b].branch = p[b].branch /\ q[b].dead = p[b].dead
                          /\ q[b].when = p[b].when
  BY DEF Renamed
<1>3. FlowOK(q, at)
  BY <1>1, <1>2 DEF FlowOK
<1>4. QED
  BY <1>1, <1>2, <1>3

\* An assignment in the function on top keeps the invariant.
LEMMA AssignSound ==
  ASSUME NEW p, NEW at, NEW fr, NEW cu, NEW pa, NEW f, Top(p, at, fr, cu, pa, f), ~p[cu].dead,
         NEW g, NEW name, NEW e, Stored(f, g, name, pa, e), NEW fr2, Upto(fr, fr2, Len(fr), g),
         NEW ws, ws \cap pa = e \cap pa, NEW q, Renamed(p, q, cu, Rebound(p[cu].view, name, ws))
  PROVE  Top(q, at, fr2, cu, pa, g)
<1>1. /\ f \in Frames /\ FrameOK(p, at, f, cu, pa) /\ FlowOK(p, at) /\ TopLinks(p, fr, f, cu)
      /\ \A b \in DOMAIN p : b >= f.start =>
           (p[b].next # None => p[b].next >= f.start) /\ (p[b].branch # None => p[b].branch >= f.start)
      /\ f.start \in 1 .. Len(p) /\ f.ret = f.start + 1 /\ f.ret \in 1 .. Len(p)
      /\ cu \in f.start .. Len(p) /\ cu \in 1 .. Len(p) /\ cu # f.ret
      /\ DOMAIN p = 1 .. Len(p) /\ Len(p) \in Nat
  BY TopIs
<1>2. /\ DOMAIN q = DOMAIN p
      /\ \A b \in DOMAIN p : q[b].next = p[b].next /\ q[b].branch = p[b].branch /\ q[b].dead = p[b].dead
                             /\ q[b].when = p[b].when
      /\ FlowOK(q, at)
  BY <1>1, RenamedKeeps
<1>3. Len(q) = Len(p) /\ Pic(p) /\ Pic(q) /\ \A b \in DOMAIN p : b # cu => q[b] = p[b]
  BY DEF Renamed
<1>4. Alike(f, g) /\ g \in Frames /\ g.start = f.start /\ g.ifs = f.ifs /\ g.store = Assigned(f.store, name, pa, e)
      /\ g.ret = f.ret
  BY DEF Stored, Alike
<1>5. CurOK(p, at, f, cu, pa) /\ ReturnedOK(p, at, f, pa)
  BY <1>1 DEF FrameOK
<1>6. Idle(p[cu]) /\ at[cu] \subseteq pa /\ Agrees(p[cu].view, f.store, DOMAIN f.store, pa)
  BY <1>5 DEF CurOK
<1>7. Agrees(q[cu].view, g.store, DOMAIN g.store, pa)
  <2>1. q[cu].view = Rebound(p[cu].view, name, ws)
    BY DEF Renamed
  <2>2. QED
    BY <1>4, <1>6, <2>1, ReboundAgrees
<1>8. CurOK(q, at, g, cu, pa)
  BY <1>1, <1>2, <1>6, <1>7 DEF CurOK, Idle
<1>9. After(p, q, f, cu)
  <2>1. \A b \in DOMAIN p : b < cu \/ b = f.ret => b # cu
    BY <1>1
  <2>2. \A b \in DOMAIN q : q[b].branch # f.ret /\ (q[b].next = f.ret => b # cu)
    BY <1>1, <1>2, <1>5, <1>6 DEF ReturnedOK, Idle, None
  <2>3. QED
    BY <1>2, <1>3, <2>1, <2>2 DEF After
<1>10. FrameOK(q, at, g, cu, pa)
  <2>1. cu \in cu .. Len(q)
    BY <1>1, <1>3
  <2>2. QED
    BY <1>1, <1>8, <1>9, <2>1, FrameStored
<1>11. Low(p, q, at, at, g.start)
  <2>1. \A b \in 1 .. g.start - 1 : q[b] = p[b]
    BY <1>1, <1>3, <1>4
  <2>2. g.start \in 1 .. Len(p) + 1
    BY <1>1, <1>4
  <2>3. QED
    BY <1>1, <1>2, <1>3, <1>4, <2>1, <2>2 DEF Low
<1>12. TopLinks(q, fr2, g, cu)
  <2>1. \A b : b # None /\ Linked(q, fr2, b) => Linked(p, fr, b)
    <3>1. EdgesFrom(p, q, {})
      BY <1>2 DEF EdgesFrom
    <3>2. LinksFrom(p, fr, q, fr2, {})
      BY <1>4, <3>1, TopLinkedFrom
    <3>3. QED
      BY <3>2 DEF LinksFrom
  <2>2. OpenIn(g, cu) = OpenIn(f, cu)
    BY <1>4 DEF OpenIn
  <2>3. \A b \in DOMAIN q : b # None
    BY <1>1, <1>2 DEF None
  <2>4. QED
    BY <1>1, <1>2, <1>4, <2>1, <2>2, <2>3 DEF TopLinks
<1>13. QED
  BY <1>2, <1>4, <1>10, <1>11, <1>12, LiftTop

(***************************************************************************)
(* Ifs that open, go on with their else and close, in the picture.         *)
(***************************************************************************)

\* The first m open ifs of f are those of g, which has at most one more.
KeepsIfs(f, g, m) ==
  /\ f \in Frames /\ g \in Frames /\ Alike(f, g)
  /\ m \in 0 .. Len(f.ifs) /\ Len(g.ifs) \in {m, m + 1} /\ \A j \in 1 .. m : g.ifs[j] = f.ifs[j]
  /\ DOMAIN g.store \subseteq DOMAIN f.store /\ \A n \in DOMAIN g.store : g.store[n] = f.store[n]
  /\ \A j \in 1 .. m : f.ifs[j].names \subseteq DOMAIN g.store
KeepsBlocks(p, q, at, bt, f, m, d) ==
  /\ \A j \in 1 .. m : \A x \in Held(f.ifs[j]) : q[x] = p[x] /\ bt[x] = at[x] /\ x < d
  /\ q[f.ret] = p[f.ret] /\ bt[f.ret] = at[f.ret] /\ bt[f.start] = at[f.start]
\* The worlds v are at this point or aside in an if after the first m.
Narrow(f, w, m, v) == v \subseteq w \cup UNION {Aside(f.ifs[l]) : l \in m + 1 .. Len(f.ifs)}
LastIf(q, bt, f, g, m, w, d, v) ==
  LET i == g.ifs[m + 1]
  IN Len(g.ifs) = m + 1 =>
       /\ i.kind = "const" => i.block = None /\ i.t = None
       /\ i.kind = "then" => i.block # None /\ i.t = None
       /\ i.kind = "else" => i.block # None /\ i.block < i.t
       /\ \A x \in Held(i) : f.start <= x /\ x < d /\ x # f.ret
       /\ \A j \in 1 .. m : \A x \in Held(f.ifs[j]), y \in Held(i) : x < y
       /\ i.names \subseteq DOMAIN g.store /\ \A j \in 1 .. m : f.ifs[j].names \subseteq i.names
       /\ IfOK(q, bt, g, i) /\ SideOK(q, i, v) /\ Narrow(f, w, m, Aside(i))

\* A branch whose condition separates worlds separates any set made of them.
LEMMA SideBoth ==
  ASSUME NEW p, NEW i, NEW v, \A x \in v : \E ws : x \in ws /\ SideOK(p, i, ws),
         NEW u, SideOK(p, i, u)
  PROVE  SideOK(p, i, v)
BY DEF SideOK

\* The open ifs that stay separate fewer worlds, too.
LEMMA NarrowSides ==
  ASSUME NEW p, NEW f \in Frames, NEW w, SidesOK(p, f, w), NEW m \in 0 .. Len(f.ifs), NEW v, Narrow(f, w, m, v)
  PROVE  \A j \in 1 .. m : SideOK(p, f.ifs[j], v)
<1> TAKE j \in 1 .. m
<1>1. Len(f.ifs) \in Nat /\ DOMAIN f.ifs = 1 .. Len(f.ifs) /\ j \in DOMAIN f.ifs
  BY FrameFields
<1>2. SideOK(p, f.ifs[j], w) /\ \A l \in DOMAIN f.ifs : j < l => SideOK(p, f.ifs[j], Aside(f.ifs[l]))
  BY <1>1 DEF SidesOK
<1>3. ASSUME NEW x \in v PROVE \E ws : x \in ws /\ SideOK(p, f.ifs[j], ws)
  <2>1. CASE x \in w
    BY <1>2, <2>1
  <2>2. CASE x \notin w
    <3>1. PICK l \in m + 1 .. Len(f.ifs) : x \in Aside(f.ifs[l])
      BY <2>2 DEF Narrow
    <3>2. l \in DOMAIN f.ifs /\ j < l
      BY <1>1
    <3>3. QED
      BY <1>2, <3>1, <3>2
  <2>3. QED
    BY <2>1, <2>2
<1>4. QED
  BY <1>2, <1>3, SideBoth

\* Worlds that were apart stay apart when an if is closed.
LEMMA NarrowApart ==
  ASSUME NEW f, NEW g, NEW m, KeepsIfs(f, g, m), NEW w, NEW v, Narrow(f, w, m, v),
         Len(g.ifs) = m + 1 => Narrow(f, w, m, Aside(g.ifs[m + 1]))
  PROVE  /\ \A ws : ApartOK(f, w, ws) => ApartOK(g, v, ws)
         /\ HereOK(f, w) => HereOK(g, v)
<1>1. /\ f \in Frames /\ g \in Frames /\ m \in 0 .. Len(f.ifs) /\ Len(g.ifs) \in {m, m + 1}
      /\ \A j \in 1 .. m : g.ifs[j] = f.ifs[j]
      /\ g.here = f.here
  BY DEF KeepsIfs, Alike
<1>2. Len(f.ifs) \in Nat /\ DOMAIN f.ifs = 1 .. Len(f.ifs) /\ DOMAIN g.ifs = 1 .. Len(g.ifs)
  BY <1>1, FrameFields
<1>3. \A l \in m + 1 .. Len(f.ifs) : l \in DOMAIN f.ifs
  BY <1>1, <1>2
<1>4. ASSUME NEW x \in v PROVE x \in w \/ \E l \in DOMAIN f.ifs : x \in Aside(f.ifs[l])
  BY <1>3 DEF Narrow
<1>5. ASSUME NEW j \in DOMAIN g.ifs, NEW x \in Aside(g.ifs[j])
      PROVE  x \in w \/ \E l \in DOMAIN f.ifs : x \in Aside(f.ifs[l])
  <2>1. CASE j \in 1 .. m
    <3>1. j \in DOMAIN f.ifs /\ g.ifs[j] = f.ifs[j]
      BY <1>1, <1>2, <2>1
    <3>2. QED
      BY <3>1
  <2>2. CASE j \notin 1 .. m
    <3>1. j = m + 1 /\ Len(g.ifs) = m + 1
      BY <1>1, <1>2, <2>2
    <3>2. Narrow(f, w, m, Aside(g.ifs[j]))
      BY <3>1
    <3>3. QED
      BY <1>3, <3>2 DEF Narrow
  <2>3. QED
    BY <2>1, <2>2
<1>6. \A ws : ApartOK(f, w, ws) => ApartOK(g, v, ws)
  BY <1>4, <1>5 DEF ApartOK
<1>7. HereOK(f, w) => HereOK(g, v)
  BY <1>1, <1>4, <1>5 DEF HereOK
<1>8. QED
  BY <1>6, <1>7

\* A step of a function that opens, turns or closes an if.
LEMMA Reframe ==
  ASSUME NEW p, NEW at, NEW f, NEW c, NEW w, FrameOK(p, at, f, c, w),
         NEW g, NEW m, KeepsIfs(f, g, m), NEW q, NEW bt, NEW d, KeepsBlocks(p, q, at, bt, f, m, d),
         NEW v, Narrow(f, w, m, v), LastIf(q, bt, f, g, m, w, d, v),
         IdsOK(q, g, d), CurOK(q, bt, g, d, v), ApartOK(g, v, g.result), ReturnedOK(q, bt, g, v)
  PROVE  FrameOK(q, bt, g, d, v)
<1> DEFINE i == g.ifs[m + 1]
<1>1. /\ IdsOK(p, f, c) /\ ChainOK(f, c) /\ EndOK(p, at, f) /\ CurOK(p, at, f, c, w)
      /\ \A j \in DOMAIN f.ifs : IfOK(p, at, f, f.ifs[j])
      /\ SidesOK(p, f, w) /\ HereOK(f, w)
  BY DEF FrameOK
<1>2. /\ f \in Frames /\ g \in Frames /\ m \in 0 .. Len(f.ifs) /\ Len(g.ifs) \in {m, m + 1}
      /\ \A j \in 1 .. m : g.ifs[j] = f.ifs[j]
      /\ g.start = f.start /\ g.ret = f.ret /\ g.here = f.here
      /\ DOMAIN g.store \subseteq DOMAIN f.store /\ \A n \in DOMAIN g.store : g.store[n] = f.store[n]
      /\ \A j \in 1 .. m : f.ifs[j].names \subseteq DOMAIN g.store
  BY DEF KeepsIfs, Alike
<1>3. /\ Len(f.ifs) \in Nat /\ DOMAIN f.ifs = 1 .. Len(f.ifs) /\ DOMAIN g.ifs = 1 .. Len(g.ifs) /\ m \in Nat
  BY <1>2, FrameFields
<1>4. \A j \in DOMAIN g.ifs : j \in 1 .. m \/ (j = m + 1 /\ Len(g.ifs) = m + 1)
  BY <1>2, <1>3
<1>5. \A j \in 1 .. m : j \in DOMAIN f.ifs
  BY <1>2, <1>3
<1>6. /\ \A j \in 1 .. m : \A x \in Held(f.ifs[j]) : q[x] = p[x] /\ bt[x] = at[x] /\ x < d
      /\ q[f.ret] = p[f.ret] /\ bt[f.ret] = at[f.ret] /\ bt[f.start] = at[f.start]
  BY DEF KeepsBlocks
<1>7. Len(g.ifs) = m + 1 =>
       /\ i.kind = "const" => i.block = None /\ i.t = None
       /\ i.kind = "then" => i.block # None /\ i.t = None
       /\ i.kind = "else" => i.block # None /\ i.block < i.t
       /\ \A x \in Held(i) : f.start <= x /\ x < d /\ x # f.ret
       /\ \A j \in 1 .. m : \A x \in Held(f.ifs[j]), y \in Held(i) : x < y
       /\ i.names \subseteq DOMAIN g.store /\ \A j \in 1 .. m : f.ifs[j].names \subseteq i.names
       /\ IfOK(q, bt, g, i) /\ SideOK(q, i, v) /\ Narrow(f, w, m, Aside(i))
  BY DEF LastIf
<1>8. \A j, l \in 1 .. m + 1 : j < l => j \in 1 .. m
  BY <1>3
<1> HIDE DEF i
<1>9. ChainOK(g, d)
  <2> SUFFICES ASSUME NEW j \in DOMAIN g.ifs
               PROVE  LET k == g.ifs[j]
                      IN /\ k.kind = "const" => k.block = None /\ k.t = None
                         /\ k.kind = "then" => k.block # None /\ k.t = None
                         /\ k.kind = "else" => k.block # None /\ k.block < k.t
                         /\ \A x \in Held(k) : f.start <= x /\ x < d /\ x # f.ret
                         /\ \A l \in DOMAIN g.ifs : j < l => \A x \in Held(k), y \in Held(g.ifs[l]) : x < y
                         /\ k.names \subseteq DOMAIN g.store
                         /\ \A l \in DOMAIN g.ifs : j < l => k.names \subseteq g.ifs[l].names
    BY <1>2 DEF ChainOK
  <2>1. CASE j = m + 1 /\ Len(g.ifs) = m + 1
    <3>1. \A l \in DOMAIN g.ifs : ~ j < l
      BY <1>3, <2>1
    <3>2. g.ifs[j] = i
      BY <2>1 DEF i
    <3>3. QED
      BY <1>7, <2>1, <3>1, <3>2
  <2>2. CASE j \in 1 .. m
    <3> DEFINE k == f.ifs[j]
    <3>1. g.ifs[j] = k /\ j \in DOMAIN f.ifs
      BY <1>2, <1>5, <2>2
    <3>2. /\ k.kind = "const" => k.block = None /\ k.t = None
          /\ k.kind = "then" => k.block # None /\ k.t = None
          /\ k.kind = "else" => k.block # None /\ k.block < k.t
          /\ \A x \in Held(k) : f.start <= x /\ x # f.ret
          /\ \A l \in DOMAIN f.ifs : j < l => \A x \in Held(k), y \in Held(f.ifs[l]) : x < y
          /\ \A l \in DOMAIN f.ifs : j < l => k.names \subseteq f.ifs[l].names
      BY <1>1, <3>1 DEF ChainOK
    <3>3. \A x \in Held(k) : x < d
      BY <1>6, <2>2
    <3>4. ASSUME NEW l \in DOMAIN g.ifs, j < l
          PROVE  (\A x \in Held(k), y \in Held(g.ifs[l]) : x < y) /\ k.names \subseteq g.ifs[l].names
      <4>1. CASE l \in 1 .. m
        BY <1>2, <1>5, <3>2, <3>4, <4>1
      <4>2. CASE l = m + 1 /\ Len(g.ifs) = m + 1
        BY <1>7, <2>2, <4>2 DEF i
      <4>3. QED
        BY <1>4, <4>1, <4>2
    <3>5. k.names \subseteq DOMAIN g.store
      BY <1>2, <2>2
    <3> HIDE DEF k
    <3>6. QED
      BY <3>1, <3>2, <3>3, <3>4, <3>5
  <2>3. QED
    BY <1>4, <2>1, <2>2
<1>10. EndOK(q, bt, g)
  BY <1>1, <1>2, <1>6 DEF EndOK
<1>11. ASSUME NEW j \in 1 .. m
       PROVE  LET k == f.ifs[j]
              IN /\ k.kind # "const" => q[k.block] = p[k.block] /\ bt[k.block] = at[k.block]
                 /\ k.kind = "else" => q[k.t] = p[k.t] /\ bt[k.t] = at[k.t]
                 /\ k.kind \in Kinds
  <2> DEFINE k == f.ifs[j]
  <2>1. j \in DOMAIN f.ifs
    BY <1>5
  <2>2. /\ k.kind # "const" => k.block \in Held(k)
        /\ k.kind = "else" => k.t \in Held(k)
    BY <1>1, <1>2, <2>1, HeldIs
  <2>3. k.kind \in Kinds
    BY <1>2, <2>1, FrameFields, IfFields
  <2>4. \A x \in Held(k) : q[x] = p[x] /\ bt[x] = at[x]
    BY <1>6
  <2> HIDE DEF k
  <2>5. QED
    BY <2>2, <2>3, <2>4 DEF k
<1>12. \A j \in DOMAIN g.ifs : IfOK(q, bt, g, g.ifs[j])
  <2> TAKE j \in DOMAIN g.ifs
  <2>1. CASE j = m + 1 /\ Len(g.ifs) = m + 1
    BY <1>7, <2>1 DEF i
  <2>2. CASE j \in 1 .. m
    <3> DEFINE k == f.ifs[j]
    <3>1. g.ifs[j] = k /\ j \in DOMAIN f.ifs /\ k.names \subseteq DOMAIN g.store
      BY <1>2, <1>5, <2>2
    <3>2. /\ k.kind # "const" => q[k.block] = p[k.block] /\ bt[k.block] = at[k.block]
          /\ k.kind = "else" => q[k.t] = p[k.t] /\ bt[k.t] = at[k.t]
          /\ k.kind \in Kinds
      BY <1>11, <2>2
    <3>3. IfOK(p, at, f, k)
      BY <1>1, <3>1
    <3> HIDE DEF k
    <3>4. \A view, ws : Agrees(view, f.store, k.names, ws) => Agrees(view, g.store, k.names, ws)
      BY <1>2, <3>1 DEF Agrees
    <3>5. IfOK(q, bt, g, k)
      BY <3>2, <3>3, <3>4 DEF IfOK, Kinds
    <3>6. QED
      BY <3>1, <3>5
  <2>3. QED
    BY <1>4, <2>1, <2>2
<1>13. SidesOK(q, g, v)
  <2>1. ASSUME NEW j \in 1 .. m, NEW ws, SideOK(p, f.ifs[j], ws) PROVE SideOK(q, f.ifs[j], ws)
    BY <1>11, <2>1 DEF SideOK, Kinds
  <2>2. \A j \in 1 .. m : SideOK(p, f.ifs[j], v)
    BY <1>1, <1>2, NarrowSides
  <2>3. Len(g.ifs) = m + 1 => \A j \in 1 .. m : SideOK(p, f.ifs[j], Aside(i))
    BY <1>1, <1>2, <1>7, NarrowSides
  <2> SUFFICES ASSUME NEW j \in DOMAIN g.ifs
               PROVE  /\ SideOK(q, g.ifs[j], v)
                      /\ \A l \in DOMAIN g.ifs : j < l => SideOK(q, g.ifs[j], Aside(g.ifs[l]))
    BY DEF SidesOK
  <2>4. CASE j = m + 1 /\ Len(g.ifs) = m + 1
    <3>1. \A l \in DOMAIN g.ifs : ~ j < l
      BY <1>3, <2>4
    <3>2. QED
      BY <1>7, <2>4, <3>1 DEF i
  <2>5. CASE j \in 1 .. m
    <3>1. g.ifs[j] = f.ifs[j] /\ j \in DOMAIN f.ifs
      BY <1>2, <1>5, <2>5
    <3>2. SideOK(q, f.ifs[j], v)
      BY <2>1, <2>2, <2>5
    <3>3. ASSUME NEW l \in DOMAIN g.ifs, j < l PROVE SideOK(q, f.ifs[j], Aside(g.ifs[l]))
      <4>1. CASE l \in 1 .. m
        <5>1. l \in DOMAIN f.ifs /\ g.ifs[l] = f.ifs[l]
          BY <1>2, <1>5, <4>1
        <5>2. SideOK(p, f.ifs[j], Aside(f.ifs[l]))
          BY <1>1, <3>1, <3>3, <5>1 DEF SidesOK
        <5>3. QED
          BY <2>1, <2>5, <5>1, <5>2
      <4>2. CASE l = m + 1 /\ Len(g.ifs) = m + 1
        BY <2>1, <2>3, <2>5, <4>2 DEF i
      <4>3. QED
        BY <1>4, <4>1, <4>2
    <3>4. QED
      BY <3>1, <3>2, <3>3
  <2>6. QED
    BY <1>4, <2>4, <2>5
<1>14. HereOK(g, v)
  <2>1. Len(g.ifs) = m + 1 => Narrow(f, w, m, Aside(g.ifs[m + 1]))
    BY <1>7 DEF i
  <2>2. QED
    BY <1>1, <2>1, NarrowApart
<1>15. QED
  BY <1>9, <1>10, <1>12, <1>13, <1>14 DEF FrameOK

\* No new block leads to where f returns.
NoReturn(p, q, at, bt, f) ==
  \A b \in DOMAIN q : q[b].branch # f.ret /\ (q[b].next = f.ret => b \in DOMAIN p /\ q[b] = p[b] /\ bt[b] = at[b])

\* The worlds that have returned are accounted for as before.
LEMMA ReturnedKept ==
  ASSUME NEW p, NEW at, NEW f, NEW w, ReturnedOK(p, at, f, w), NEW g, g.ret = f.ret, g.result = f.result,
         NEW v, \A ws : ApartOK(f, w, ws) => ApartOK(g, v, ws), NEW q, NEW bt, NoReturn(p, q, at, bt, f)
  PROVE  ReturnedOK(q, bt, g, v)
BY DEF ReturnedOK, NoReturn

\* A block that is linked goes on or is open.
Ready(p, b, open) == (p[b].dead => p[b].next # None) /\ (p[b].next = None => b \in open)

\* Blocks that lead nowhere yet are open, or become linked.
LEMMA OpensKept ==
  ASSUME NEW p, NEW at, NEW fr, NEW cu, NEW pa, NEW f, Top(p, at, fr, cu, pa, f), NEW g, Alike(f, g),
         NEW fr2, Upto(fr, fr2, Len(fr), g), NEW q, Pic(q), NEW T, EdgesFrom(p, q, T), NEW d,
         \A b \in DOMAIN q : b >= f.start /\ (b \in T \/ (b \in DOMAIN p /\ Ready(p, b, OpenIn(f, cu)))) =>
           Ready(q, b, OpenIn(g, d))
  PROVE  TopLinks(q, fr2, g, d)
<1>1. LinksFrom(p, fr, q, fr2, T)
  BY TopLinkedFrom
<1>2. /\ FlowOK(p, at) /\ TopLinks(p, fr, f, cu) /\ DOMAIN p = 1 .. Len(p) /\ Len(p) \in Nat
  BY TopIs
<1>3. fr \in Seq(Frames) /\ Sound(p, at, fr, cu, pa) /\ Pic(p)
  BY DEF Top
<1>4. \A k \in DOMAIN fr : fr[k].start \in 1 .. Len(p)
  BY <1>3, StackedIs DEF Stacked
<1>5. ASSUME NEW b, b # None, Linked(p, fr, b) PROVE b \in DOMAIN p
  <2>1. CASE \E k \in DOMAIN fr : b = fr[k].start
    BY <1>2, <1>4, <2>1
  <2>2. CASE \E c \in DOMAIN p : b \in {p[c].next, p[c].branch}
    <3>1. \A c \in DOMAIN p : p[c].next \in 0 .. Len(p) /\ p[c].branch \in 0 .. Len(p)
      BY <1>2 DEF FlowOK
    <3>2. b \in 0 .. Len(p)
      BY <2>2, <3>1
    <3>3. QED
      BY <1>2, <1>5, <3>2 DEF None
  <2>3. QED
    BY <1>5, <2>1, <2>2 DEF Linked
<1>6. g.start = f.start
  BY DEF Alike
<1>7. SUFFICES ASSUME NEW b \in DOMAIN q, b >= g.start, Linked(q, fr2, b) PROVE Ready(q, b, OpenIn(g, d))
  BY DEF TopLinks, Ready
<1>8. b # None
  BY DEF Pic, None
<1>9. CASE b \in T
  BY <1>6, <1>7, <1>9
<1>10. CASE b \notin T
  <2>1. Linked(p, fr, b)
    BY <1>1, <1>7, <1>8, <1>10 DEF LinksFrom
  <2>2. b \in DOMAIN p
    BY <1>5, <1>8, <2>1
  <2>3. Ready(p, b, OpenIn(f, cu))
    BY <1>2, <1>6, <1>7, <2>1, <2>2 DEF TopLinks, Ready
  <2>4. QED
    BY <1>6, <1>7, <2>2, <2>3
<1>11. QED
  BY <1>9, <1>10

\* What an if that is opened or closed does to the set of open blocks.
LEMMA OpenIs ==
  ASSUME NEW f, NEW g, NEW m, KeepsIfs(f, g, m), NEW c
  PROVE  /\ \A b \in OpenIn(f, c) :
              \/ b = c \/ (\E l \in m + 1 .. Len(f.ifs) : b \in Held(f.ifs[l]))
              \/ \A d : b \in OpenIn(g, d)
         /\ \A d : d \in OpenIn(g, d) /\ f.ret \in OpenIn(g, d)
                   /\ (Len(g.ifs) = m + 1 => Held(g.ifs[m + 1]) \subseteq OpenIn(g, d))
<1>1. /\ f \in Frames /\ g \in Frames /\ m \in 0 .. Len(f.ifs) /\ Len(g.ifs) \in {m, m + 1}
      /\ \A j \in 1 .. m : g.ifs[j] = f.ifs[j]
      /\ g.ret = f.ret
  BY DEF KeepsIfs, Alike
<1>2. /\ Len(f.ifs) \in Nat /\ DOMAIN f.ifs = 1 .. Len(f.ifs) /\ DOMAIN g.ifs = 1 .. Len(g.ifs) /\ m \in Nat
  BY <1>1, FrameFields
<1>3. \A j \in DOMAIN f.ifs : j \in 1 .. m \/ j \in m + 1 .. Len(f.ifs)
  BY <1>1, <1>2
<1>4. \A j \in 1 .. m : j \in DOMAIN g.ifs
  BY <1>1, <1>2
<1>5. Len(g.ifs) = m + 1 => m + 1 \in DOMAIN g.ifs
  BY <1>1, <1>2
<1>6. \A d : d \in OpenIn(g, d) /\ f.ret \in OpenIn(g, d)
              /\ (Len(g.ifs) = m + 1 => Held(g.ifs[m + 1]) \subseteq OpenIn(g, d))
  BY <1>1, <1>5 DEF OpenIn
<1>7. ASSUME NEW b \in OpenIn(f, c), b # c, b # f.ret
      PROVE  (\E l \in m + 1 .. Len(f.ifs) : b \in Held(f.ifs[l])) \/ \A d : b \in OpenIn(g, d)
  <2>1. PICK j \in DOMAIN f.ifs : b \in Held(f.ifs[j])
    BY <1>7 DEF OpenIn
  <2>2. CASE j \in 1 .. m
    <3>1. j \in DOMAIN g.ifs /\ b \in Held(g.ifs[j])
      BY <1>1, <1>4, <2>1, <2>2
    <3>2. QED
      BY <3>1 DEF OpenIn
  <2>3. CASE j \in m + 1 .. Len(f.ifs)
    BY <2>1, <2>3
  <2>4. QED
    BY <1>3, <2>2, <2>3
<1>8. QED
  BY <1>6, <1>7

\* An if is opened or closed, and the picture stays.
LEMMA StaySound ==
  ASSUME NEW p, NEW at, NEW fr, NEW cu, NEW pa, NEW f, Top(p, at, fr, cu, pa, f),
         NEW g, NEW m, KeepsIfs(f, g, m), g.result = f.result, NEW fr2, Upto(fr, fr2, Len(fr), g),
         NEW d, d \in f.start .. Len(p), d # f.ret, \A j \in 1 .. m : \A x \in Held(f.ifs[j]) : x < d,
         NEW v, Narrow(f, pa, m, v), LastIf(p, at, f, g, m, pa, d, v),
         CurOK(p, at, g, d, v),
         \A b \in DOMAIN p : Ready(p, b, OpenIn(f, cu)) => Ready(p, b, OpenIn(g, d))
  PROVE  Top(p, at, fr2, d, v, g)
<1>1. /\ f \in Frames /\ FrameOK(p, at, f, cu, pa) /\ FlowOK(p, at)
      /\ \A b \in DOMAIN p : b >= f.start =>
           (p[b].next # None => p[b].next >= f.start) /\ (p[b].branch # None => p[b].branch >= f.start)
      /\ f.start \in 1 .. Len(p) /\ f.ret = f.start + 1 /\ f.ret \in 1 .. Len(p)
      /\ DOMAIN p = 1 .. Len(p) /\ Len(p) \in Nat
  BY TopIs
<1>2. g \in Frames /\ Alike(f, g) /\ g.start = f.start /\ g.ret = f.ret /\ Len(g.ifs) \in {m, m + 1}
  BY DEF KeepsIfs, Alike
<1>3. Pic(p)
  BY DEF Top
<1>4. Len(g.ifs) = m + 1 => Narrow(f, pa, m, Aside(g.ifs[m + 1]))
  BY DEF LastIf
<1>5. \A ws : ApartOK(f, pa, ws) => ApartOK(g, v, ws)
  BY <1>4, NarrowApart
<1>6. ReturnedOK(p, at, f, pa) /\ ApartOK(f, pa, f.result)
  BY <1>1 DEF FrameOK
<1>7. NoReturn(p, p, at, at, f)
  BY <1>6 DEF NoReturn, ReturnedOK
<1>8. ReturnedOK(p, at, g, v)
  BY <1>2, <1>5, <1>6, <1>7, ReturnedKept
<1>9. ApartOK(g, v, g.result)
  BY <1>5, <1>6
<1>10. IdsOK(p, g, d)
  BY <1>1, <1>2 DEF IdsOK
<1>11. KeepsBlocks(p, p, at, at, f, m, d)
  BY DEF KeepsBlocks
<1>12. FrameOK(p, at, g, d, v)
  BY <1>1, <1>8, <1>9, <1>10, <1>11, Reframe
<1>13. Low(p, p, at, at, g.start)
  <2>1. g.start \in 1 .. Len(p) + 1
    BY <1>1, <1>2
  <2>2. QED
    BY <1>1, <1>2, <1>3, <2>1 DEF Low
<1>14. TopLinks(p, fr2, g, d)
  <2>1. EdgesFrom(p, p, {})
    BY DEF EdgesFrom
  <2>2. \A b \in DOMAIN p : b >= f.start /\ (b \in {} \/ (b \in DOMAIN p /\ Ready(p, b, OpenIn(f, cu)))) =>
          Ready(p, b, OpenIn(g, d))
    OBVIOUS
  <2>3. QED
    BY <1>2, <1>3, <2>1, <2>2, OpensKept
<1>15. QED
  BY <1>1, <1>2, <1>12, <1>13, <1>14, LiftTop

\* The last if that is open.
Innermost(p, at, f, cu, pa, i) ==
  LET n == Len(f.ifs)
  IN /\ n \in Nat /\ n - 1 \in 0 .. n /\ n \in DOMAIN f.ifs /\ i = f.ifs[n] /\ i \in Ifs /\ i.kind \in Kinds
     /\ i.kind = "const" => i.block = None /\ i.t = None /\ Held(i) = {} /\ i.end = {} /\ Aside(i) = {}
     /\ i.kind # "const" => /\ i.block \in Nat /\ i.block # None /\ i.block \in Held(i) /\ f.start <= i.block
                            /\ i.block < cu /\ i.block # f.ret /\ p[i.block].branch # None /\ ~p[i.block].dead
     /\ i.kind = "then" => i.t = None /\ Held(i) = {i.block} /\ p[i.block].next = None
     /\ i.kind = "else" => /\ i.t \in Nat /\ i.t # None /\ Held(i) = {i.block, i.t} /\ i.block < i.t
                           /\ f.start <= i.t /\ i.t < cu /\ i.t # f.ret /\ p[i.block].next # None
     /\ IfOK(p, at, f, i) /\ SideOK(p, i, pa) /\ i.names \subseteq DOMAIN f.store
     /\ pa \cap Aside(i) = {}
     /\ \A j \in 1 .. n - 1 : j \in DOMAIN f.ifs /\ f.ifs[j].names \subseteq i.names
     /\ \A j \in 1 .. n - 1 : \A x \in Held(f.ifs[j]) : /\ x \in Nat /\ f.start <= x /\ x < cu /\ x # f.ret
                                                        /\ \A y \in Held(i) : x < y
     /\ \A v : v \subseteq pa \cup Aside(i) => Narrow(f, pa, n - 1, v)

\* What holds of the innermost open if.
LEMMA InnermostIs ==
  ASSUME NEW p, NEW at, NEW f \in Frames, NEW cu, NEW pa, FrameOK(p, at, f, cu, pa), f.ifs # <<>>
  PROVE  Innermost(p, at, f, cu, pa, f.ifs[Len(f.ifs)])
<1> DEFINE n == Len(f.ifs)
           i == f.ifs[n]
<1>1. f.ifs \in Seq(Ifs) /\ DOMAIN f.ifs = 1 .. n /\ n \in Nat /\ f.start \in Nat
  BY FrameFields
<1>2. n \in DOMAIN f.ifs /\ n - 1 \in 0 .. n
  BY <1>1
<1>3. ChainOK(f, cu) /\ IfOK(p, at, f, i) /\ SidesOK(p, f, pa)
  BY <1>2 DEF FrameOK
<1>4. i \in Ifs /\ i.kind \in Kinds /\ i.block \in Nat /\ i.t \in Nat
  BY <1>2, FrameFields, IfFields
<1>5. /\ i.kind = "const" => i.block = None /\ i.t = None
      /\ i.kind # "const" => i.block \in Nat /\ i.block # None /\ i.block \in Held(i)
                             /\ f.start <= i.block /\ i.block < cu /\ i.block # f.ret
      /\ i.kind = "then" => i.t = None /\ Held(i) = {i.block}
      /\ i.kind = "else" => i.t \in Nat /\ i.t # None /\ i.t \in Held(i) /\ i.block < i.t
                            /\ f.start <= i.t /\ i.t < cu /\ i.t # f.ret
  BY <1>2, <1>3, HeldIs
<1>6. \A j \in 1 .. n - 1 : j \in DOMAIN f.ifs /\ j < n
  BY <1>1
<1>7. /\ \A j \in 1 .. n - 1 : f.ifs[j].names \subseteq i.names /\ i.names \subseteq DOMAIN f.store
      /\ \A j \in 1 .. n - 1 : \A x \in Held(f.ifs[j]) : /\ f.start <= x /\ x < cu /\ x # f.ret
                                                         /\ \A y \in Held(i) : x < y
      /\ i.names \subseteq DOMAIN f.store
  BY <1>2, <1>3, <1>6 DEF ChainOK
<1>8. \A j \in 1 .. n - 1 : \A x \in Held(f.ifs[j]) : x \in Nat
  BY <1>6, FrameFields, IfFields
<1>9. SideOK(p, i, pa) /\ pa \cap Aside(i) = {}
  BY <1>2, <1>3, AsideApart DEF SidesOK
<1>10. \A v : v \subseteq pa \cup Aside(i) => Narrow(f, pa, n - 1, v)
  <2>1. n \in n - 1 + 1 .. n
    BY <1>1
  <2>2. QED
    BY <2>1 DEF Narrow
<1> HIDE DEF n, i
<1>11. i.kind = "const" => Held(i) = {} /\ i.end = {} /\ Aside(i) = {}
  BY <1>3, <1>5 DEF IfOK, Held, Aside
<1>12. i.kind = "else" => Held(i) = {i.block, i.t} /\ p[i.block].next # None
  BY <1>3, <1>5 DEF IfOK, Held
<1>13. i.kind # "const" => p[i.block].branch # None /\ ~p[i.block].dead
  BY <1>3 DEF IfOK
<1>14. i.kind = "then" => p[i.block].next = None
  BY <1>3 DEF IfOK
<1>15. n = Len(f.ifs) /\ i = f.ifs[n]
  BY DEF n, i
<1>16. Innermost(p, at, f, cu, pa, i)
  BY <1>1, <1>2, <1>3, <1>4, <1>5, <1>6, <1>7, <1>8, <1>9, <1>10, <1>11, <1>12, <1>13, <1>14, <1>15 DEF Innermost
<1>17. QED
  BY <1>15, <1>16

Closed(f, g, i) ==
  /\ f.ifs # <<>> /\ i = f.ifs[Len(f.ifs)] /\ KeepsIfs(f, g, Len(f.ifs) - 1) /\ Len(g.ifs) = Len(f.ifs) - 1
  /\ g.result = f.result /\ DOMAIN g.store = i.names
Opened(f, g, i) ==
  /\ KeepsIfs(f, g, Len(f.ifs)) /\ Len(g.ifs) = Len(f.ifs) + 1 /\ g.ifs[Len(f.ifs) + 1] = i
  /\ g.result = f.result /\ g.store = f.store /\ i.names = DOMAIN f.store

\* Fewer names in fewer worlds agree, if more do.
LEMMA AgreesLess ==
  ASSUME NEW view, NEW store, NEW names, NEW w, Agrees(view, store, names, w), NEW v, v \subseteq w,
         NEW less, less \subseteq names, NEW new, \A n \in less : new[n] = store[n]
  PROVE  Agrees(view, new, less, v)
BY DEF Agrees

\* The end of an if with a constant condition, and that of one of whose branches one has returned.
LEMMA CloseSound ==
  ASSUME NEW p, NEW at, NEW fr, NEW cu, NEW pa, NEW f, Top(p, at, fr, cu, pa, f), NEW g, NEW i, Closed(f, g, i),
         NEW fr2, Upto(fr, fr2, Len(fr), g), NEW d, NEW v,
         \/ i.kind = "const" /\ d = cu /\ v = pa \cup i.end
         \/ i.kind = "else" /\ p[i.t].dead /\ ~p[cu].dead /\ d = cu /\ v = pa \cup i.end
         \/ i.kind = "else" /\ ~p[i.t].dead /\ p[cu].dead /\ d = i.t /\ v = pa \cup i.end
  PROVE  Top(p, at, fr2, d, v, g)
<1> DEFINE n == Len(f.ifs)
<1>1. /\ f \in Frames /\ FrameOK(p, at, f, cu, pa) /\ FlowOK(p, at)
      /\ f.start \in 1 .. Len(p) /\ f.ret = f.start + 1 /\ f.ret \in 1 .. Len(p)
      /\ cu \in f.start .. Len(p) /\ cu # f.ret
      /\ DOMAIN p = 1 .. Len(p) /\ Len(p) \in Nat
  BY TopIs
<1>2. /\ f.ifs # <<>> /\ i = f.ifs[n] /\ KeepsIfs(f, g, n - 1) /\ Len(g.ifs) = n - 1
      /\ g.result = f.result /\ DOMAIN g.store = i.names
  BY DEF Closed
<1>3. Innermost(p, at, f, cu, pa, i)
  BY <1>1, <1>2, InnermostIs
<1>4. g \in Frames /\ g.start = f.start /\ g.ret = f.ret /\ \A x \in DOMAIN g.store : g.store[x] = f.store[x]
  BY <1>2 DEF KeepsIfs, Alike
<1>5. CurOK(p, at, f, cu, pa)
  BY <1>1 DEF FrameOK
<1>6. IfOK(p, at, f, i) /\ i.names \subseteq DOMAIN f.store
  BY <1>3 DEF Innermost
<1>7. n \in Nat
  BY <1>1, FrameFields
<1>8. d \in f.start .. Len(p) /\ d # f.ret
  <2>1. CASE d = cu
    BY <1>1, <2>1
  <2>2. CASE d = i.t /\ i.kind = "else"
    <3>1. i.t \in Nat /\ f.start <= i.t /\ i.t < cu /\ i.t # f.ret
      BY <1>3, <2>2 DEF Innermost
    <3>2. QED
      BY <1>1, <2>2, <3>1
  <2>3. QED
    BY <2>1, <2>2
<1>9. \A j \in 1 .. n - 1 : \A x \in Held(f.ifs[j]) : x < d
  <2>1. CASE d = cu
    BY <1>3, <2>1 DEF Innermost
  <2>2. CASE d = i.t /\ i.kind = "else"
    BY <1>3, <2>2 DEF Innermost
  <2>3. QED
    BY <2>1, <2>2
<1>10. Narrow(f, pa, n - 1, v)
  <2>1. v \subseteq pa \cup Aside(i)
    BY <1>3 DEF Innermost, Aside
  <2>2. QED
    BY <1>3, <2>1 DEF Innermost
<1>11. LastIf(p, at, f, g, n - 1, pa, d, v)
  BY <1>2, <1>7 DEF LastIf
<1>12. CurOK(p, at, g, d, v)
  <2>1. CASE i.kind = "const"
    <3>1. v = pa /\ d = cu
      BY <1>3, <2>1 DEF Innermost
    <3>2. CASE p[cu].dead
      BY <1>5, <3>1, <3>2 DEF CurOK
    <3>3. CASE ~p[cu].dead
      <4>1. Idle(p[cu]) /\ at[cu] \subseteq pa /\ Agrees(p[cu].view, f.store, DOMAIN f.store, pa)
        BY <1>5, <3>3 DEF CurOK
      <4>2. Agrees(p[cu].view, g.store, DOMAIN g.store, pa)
        BY <1>2, <1>4, <1>6, <4>1, AgreesLess
      <4>3. QED
        BY <3>1, <3>3, <4>1, <4>2 DEF CurOK
    <3>4. QED
      BY <3>2, <3>3
  <2>2. CASE i.kind = "else" /\ p[i.t].dead /\ ~p[cu].dead /\ d = cu /\ v = pa \cup i.end
    <3>1. v = pa
      BY <1>6, <2>2 DEF IfOK
    <3>2. Idle(p[cu]) /\ at[cu] \subseteq pa /\ Agrees(p[cu].view, f.store, DOMAIN f.store, pa)
      BY <1>5, <2>2 DEF CurOK
    <3>3. Agrees(p[cu].view, g.store, DOMAIN g.store, pa)
      BY <1>2, <1>4, <1>6, <3>2, AgreesLess
    <3>4. QED
      BY <2>2, <3>1, <3>2, <3>3 DEF CurOK
  <2>3. CASE i.kind = "else" /\ ~p[i.t].dead /\ p[cu].dead /\ d = i.t /\ v = pa \cup i.end
    <3>1. v = i.end
      BY <1>5, <2>3 DEF CurOK
    <3>2. Idle(p[d]) /\ at[d] \subseteq i.end /\ Agrees(p[d].view, f.store, i.names, i.end)
      BY <1>6, <2>3 DEF IfOK
    <3>3. Agrees(p[d].view, g.store, DOMAIN g.store, i.end)
      BY <1>2, <1>4, <3>2, AgreesLess
    <3>4. QED
      BY <2>3, <3>1, <3>2, <3>3 DEF CurOK
  <2>4. QED
    BY <2>1, <2>2, <2>3
<1>13. ASSUME NEW b \in DOMAIN p, Ready(p, b, OpenIn(f, cu)) PROVE Ready(p, b, OpenIn(g, d))
  <2>1. p[b].dead => p[b].next # None
    BY <1>13 DEF Ready
  <2>2. ASSUME p[b].next = None PROVE b \in OpenIn(g, d)
    <3>1. b \in OpenIn(f, cu)
      BY <1>13, <2>2 DEF Ready
    <3>2. /\ b = cu \/ (\E l \in n - 1 + 1 .. n : b \in Held(f.ifs[l])) \/ b \in OpenIn(g, d)
          /\ d \in OpenIn(g, d)
      BY <1>2, <3>1, OpenIs
    <3>3. \A l \in n - 1 + 1 .. n : l = n
      BY <1>7
    <3>4. b = d \/ b = cu \/ b \in Held(i) \/ b \in OpenIn(g, d)
      BY <1>2, <3>2, <3>3
    <3>5. ASSUME b = cu, b # d PROVE FALSE
      BY <2>1, <2>2, <3>5
    <3>6. ASSUME b \in Held(i), b # d PROVE FALSE
      <4>1. i.kind = "else"
        BY <1>3, <3>6 DEF Innermost
      <4>2. Held(i) = {i.block, i.t} /\ p[i.block].next # None
        BY <1>3, <4>1 DEF Innermost
      <4>3. b = i.t
        BY <2>2, <3>6, <4>2
      <4>4. p[i.t].dead
        BY <3>6, <4>1, <4>3
      <4>5. QED
        BY <2>1, <2>2, <4>3, <4>4
    <3>7. QED
      BY <3>2, <3>4, <3>5, <3>6
  <2>3. QED
    BY <2>1, <2>2 DEF Ready
<1>14. QED
  BY <1>2, <1>8, <1>9, <1>10, <1>11, <1>12, <1>13, StaySound

\* An if with a constant condition begins.
LEMMA ConstSound ==
  ASSUME NEW p, NEW at, NEW fr, NEW cu, NEW pa, NEW f, Top(p, at, fr, cu, pa, f), NEW g, NEW i, Opened(f, g, i),
         NEW fr2, Upto(fr, fr2, Len(fr), g), i.kind = "const", i.block = None, i.t = None, i.end = {}
  PROVE  Top(p, at, fr2, cu, pa, g)
<1> DEFINE n == Len(f.ifs)
<1>1. /\ f \in Frames /\ FrameOK(p, at, f, cu, pa) /\ FlowOK(p, at)
      /\ cu \in f.start .. Len(p) /\ cu # f.ret
  BY TopIs
<1>2. /\ KeepsIfs(f, g, n) /\ Len(g.ifs) = n + 1 /\ g.ifs[n + 1] = i
      /\ g.result = f.result /\ g.store = f.store /\ i.names = DOMAIN f.store
  BY DEF Opened
<1>3. n \in Nat /\ DOMAIN f.ifs = 1 .. n
  BY <1>1, FrameFields
<1>4. CurOK(p, at, f, cu, pa) /\ ChainOK(f, cu)
  BY <1>1 DEF FrameOK
<1>5. \A j \in 1 .. n : f.ifs[j].names \subseteq DOMAIN f.store /\ \A x \in Held(f.ifs[j]) : x < cu
  BY <1>3, <1>4 DEF ChainOK
<1>6. Narrow(f, pa, n, pa) /\ Narrow(f, pa, n, {})
  BY DEF Narrow
<1>7. LastIf(p, at, f, g, n, pa, cu, pa)
  <2>1. Held(i) = {} /\ Aside(i) = {} /\ IfOK(p, at, g, i) /\ SideOK(p, i, pa)
    BY DEF Held, Aside, IfOK, SideOK
  <2>2. QED
    BY <1>2, <1>5, <1>6, <2>1 DEF LastIf
<1>8. CurOK(p, at, g, cu, pa)
  BY <1>2, <1>4 DEF CurOK
<1>9. ASSUME NEW b \in DOMAIN p, Ready(p, b, OpenIn(f, cu)) PROVE Ready(p, b, OpenIn(g, cu))
  <2>1. ASSUME b \in OpenIn(f, cu) PROVE b \in OpenIn(g, cu)
    <3>1. /\ b = cu \/ (\E l \in n + 1 .. n : b \in Held(f.ifs[l])) \/ b \in OpenIn(g, cu)
          /\ cu \in OpenIn(g, cu)
      BY <1>2, <2>1, OpenIs
    <3>2. \A l \in n + 1 .. n : FALSE
      BY <1>3
    <3>3. QED
      BY <3>1, <3>2
  <2>2. QED
    BY <1>9, <2>1 DEF Ready
<1>10. QED
  BY <1>1, <1>2, <1>5, <1>6, <1>7, <1>8, <1>9, StaySound

\* Of the blocks of f, those in C change and new ones come; e is in more worlds than before.
Changed(p, q, at, bt, f, C, e) ==
  /\ Pic(p) /\ Pic(q) /\ Len(p) <= Len(q)
  /\ \A b \in DOMAIN p : (b \notin C => q[b] = p[b]) /\ (b # e => bt[b] = at[b])
  /\ \A b \in C : b \in DOMAIN p /\ b >= f.start /\ b # f.ret
  /\ e = None \/ (e \in C /\ at[e] \subseteq bt[e] /\ e # f.start)
BlockFlow(q, bt, b) ==
  /\ q[b].next \in 0 .. Len(q) /\ q[b].branch \in 0 .. Len(q)
  /\ q[b].branch = None => q[b].when = {}
  /\ q[b].branch # None => bt[b] \cap q[b].when \subseteq bt[q[b].branch]
  /\ q[b].next # None => bt[b] \ q[b].when \subseteq bt[q[b].next]
\* The blocks that change lead to T, or to where they did.
NewBoxes(p, q, bt, f, C, T) ==
  /\ \A x \in T : x \in Nat /\ x >= f.start /\ x # f.ret
  /\ \A b \in DOMAIN q : b \in C \/ b \notin DOMAIN p =>
       /\ BlockFlow(q, bt, b)
       /\ \A x \in {q[b].next, q[b].branch} : x = None \/ x \in T \/ (b \in DOMAIN p /\ x = p[b].branch /\ x = q[b].branch)

\* Worlds flow along the edges after a step, if they do at the blocks that changed.
LEMMA StepFlow ==
  ASSUME NEW p, NEW q, NEW at, NEW bt, NEW f, NEW C, NEW e, Changed(p, q, at, bt, f, C, e), FlowOK(p, at),
         NEW T, NewBoxes(p, q, bt, f, C, T)
  PROVE  FlowOK(q, bt)
<1>1. /\ DOMAIN p = 1 .. Len(p) /\ Len(p) \in Nat /\ DOMAIN q = 1 .. Len(q) /\ Len(q) \in Nat /\ Len(p) <= Len(q)
      /\ \A b \in DOMAIN p : (b \notin C => q[b] = p[b]) /\ (b # e => bt[b] = at[b])
      /\ e = None \/ (e \in C /\ at[e] \subseteq bt[e] /\ e # f.start)
  BY DEF Changed, Pic
<1>2. \A b \in DOMAIN p : at[b] \subseteq bt[b]
  BY <1>1 DEF None
<1>3. ASSUME NEW b \in DOMAIN q PROVE BlockFlow(q, bt, b)
  <2>1. CASE b \in C \/ b \notin DOMAIN p
    BY <2>1 DEF NewBoxes
  <2>2. CASE ~(b \in C \/ b \notin DOMAIN p)
    <3>1. q[b] = p[b] /\ bt[b] = at[b]
      <4>1. b # e
        BY <1>1, <2>2 DEF None
      <4>2. QED
        BY <1>1, <2>2, <4>1
    <3>2. /\ p[b].next \in 0 .. Len(p) /\ p[b].branch \in 0 .. Len(p)
          /\ p[b].branch = None => p[b].when = {}
          /\ p[b].branch # None => at[b] \cap p[b].when \subseteq at[p[b].branch]
          /\ p[b].next # None => at[b] \ p[b].when \subseteq at[p[b].next]
      BY <2>2 DEF FlowOK
    <3>3. /\ p[b].next \in 0 .. Len(q) /\ p[b].branch \in 0 .. Len(q)
          /\ p[b].next # None => p[b].next \in DOMAIN p
          /\ p[b].branch # None => p[b].branch \in DOMAIN p
      BY <1>1, <3>2 DEF None
    <3>4. /\ p[b].branch # None => at[b] \cap p[b].when \subseteq bt[p[b].branch]
          /\ p[b].next # None => at[b] \ p[b].when \subseteq bt[p[b].next]
      BY <1>2, <3>2, <3>3
    <3>5. QED
      BY <3>1, <3>2, <3>3, <3>4 DEF BlockFlow
  <2>3. QED
    BY <2>1, <2>2
<1>4. QED
  BY <1>3 DEF FlowOK, BlockFlow

\* A step of the function on top, other than a return.
LEMMA StepSound ==
  ASSUME NEW p, NEW at, NEW fr, NEW cu, NEW pa, NEW f, Top(p, at, fr, cu, pa, f),
         NEW g, NEW m, KeepsIfs(f, g, m), g.result = f.result, NEW fr2, Upto(fr, fr2, Len(fr), g),
         NEW q, NEW bt, NEW C, NEW e, Changed(p, q, at, bt, f, C, e), NEW T, NewBoxes(p, q, bt, f, C, T),
         NEW d, d \in f.start .. Len(q), d # f.ret,
         \A j \in 1 .. m : \A x \in Held(f.ifs[j]) : x \in Nat /\ x < d /\ x < cu /\ f.start <= x /\ x \notin C,
         NEW v, Narrow(f, pa, m, v), LastIf(q, bt, f, g, m, pa, d, v), CurOK(q, bt, g, d, v),
         \A b \in DOMAIN q : b \in T \/ (b \in DOMAIN p /\ Ready(p, b, OpenIn(f, cu))) => Ready(q, b, OpenIn(g, d))
  PROVE  Top(q, bt, fr2, d, v, g)
<1>1. /\ f \in Frames /\ FrameOK(p, at, f, cu, pa) /\ FlowOK(p, at)
      /\ \A b \in DOMAIN p : b >= f.start =>
           (p[b].next # None => p[b].next >= f.start) /\ (p[b].branch # None => p[b].branch >= f.start)
      /\ f.start \in 1 .. Len(p) /\ f.ret = f.start + 1 /\ f.ret \in 1 .. Len(p) /\ cu \in f.start .. Len(p)
      /\ DOMAIN p = 1 .. Len(p) /\ Len(p) \in Nat
  BY TopIs
<1>2. g \in Frames /\ Alike(f, g) /\ g.start = f.start /\ g.ret = f.ret /\ Len(g.ifs) \in {m, m + 1}
  BY DEF KeepsIfs, Alike
<1>3. /\ Pic(p) /\ Pic(q) /\ Len(p) <= Len(q) /\ DOMAIN q = 1 .. Len(q) /\ Len(q) \in Nat
      /\ \A b \in DOMAIN p : (b \notin C => q[b] = p[b]) /\ (b # e => bt[b] = at[b])
      /\ \A b \in C : b \in DOMAIN p /\ b >= f.start /\ b # f.ret
      /\ e = None \/ (e \in C /\ at[e] \subseteq bt[e] /\ e # f.start)
  BY DEF Changed, Pic
<1>4. /\ \A x \in T : x \in Nat /\ x >= f.start /\ x # f.ret
      /\ \A b \in DOMAIN q : b \in C \/ b \notin DOMAIN p =>
           \A x \in {q[b].next, q[b].branch} : x = None \/ x \in T \/ (b \in DOMAIN p /\ x = p[b].branch /\ x = q[b].branch)
  BY DEF NewBoxes
<1>5. FlowOK(q, bt)
  BY <1>1, StepFlow
<1>6. Len(g.ifs) = m + 1 => Narrow(f, pa, m, Aside(g.ifs[m + 1]))
  BY DEF LastIf
<1>7. \A ws : ApartOK(f, pa, ws) => ApartOK(g, v, ws)
  BY <1>6, NarrowApart
<1>8. ReturnedOK(p, at, f, pa) /\ ApartOK(f, pa, f.result)
  BY <1>1 DEF FrameOK
<1>9. f.ret # None
  BY <1>1 DEF None
<1>10. NoReturn(p, q, at, bt, f)
  <2> SUFFICES ASSUME NEW b \in DOMAIN q
               PROVE  q[b].branch # f.ret /\ (q[b].next = f.ret => b \in DOMAIN p /\ q[b] = p[b] /\ bt[b] = at[b])
    BY DEF NoReturn
  <2>1. \A c \in DOMAIN p : p[c].branch # f.ret
    BY <1>8 DEF ReturnedOK
  <2>2. CASE b \in C \/ b \notin DOMAIN p
    <3>1. q[b].branch # f.ret
      BY <1>4, <1>9, <2>1, <2>2
    <3>2. q[b].next # f.ret
      BY <1>4, <1>9, <2>1, <2>2
    <3>3. QED
      BY <3>1, <3>2
  <2>3. CASE ~(b \in C \/ b \notin DOMAIN p)
    <3>1. q[b] = p[b]
      BY <1>3, <2>3
    <3>2. b # e
      BY <1>1, <1>3, <2>3 DEF None
    <3>3. bt[b] = at[b]
      BY <1>3, <2>3, <3>2
    <3>4. QED
      BY <2>1, <2>3, <3>1, <3>3
  <2>4. QED
    BY <2>2, <2>3
<1>11. ReturnedOK(q, bt, g, v)
  BY <1>2, <1>7, <1>8, <1>10, ReturnedKept
<1>12. ApartOK(g, v, g.result)
  BY <1>7, <1>8
<1>13. IdsOK(q, g, d)
  BY <1>1, <1>2, <1>3 DEF IdsOK
<1>14. KeepsBlocks(p, q, at, bt, f, m, d)
  <2>1. ASSUME NEW j \in 1 .. m, NEW x \in Held(f.ifs[j]) PROVE q[x] = p[x] /\ bt[x] = at[x] /\ x < d
    <3>1. x \in Nat /\ x < d /\ x < cu /\ f.start <= x /\ x \notin C
      OBVIOUS
    <3>2. x \in DOMAIN p
      BY <1>1, <3>1
    <3>3. x # e
      BY <1>1, <1>3, <3>1 DEF None
    <3>4. QED
      BY <1>3, <3>1, <3>2, <3>3
  <2>2. q[f.ret] = p[f.ret] /\ bt[f.ret] = at[f.ret]
    BY <1>1, <1>3, <1>9
  <2>3. bt[f.start] = at[f.start]
    BY <1>1, <1>3 DEF None
  <2>4. QED
    BY <2>1, <2>2, <2>3 DEF KeepsBlocks
<1>15. FrameOK(q, bt, g, d, v)
  BY <1>1, <1>11, <1>12, <1>13, <1>14, Reframe
<1>16. Low(p, q, at, bt, g.start)
  <2>1. g.start \in 1 .. Len(p) + 1
    BY <1>1, <1>2
  <2>2. ASSUME NEW b \in 1 .. g.start - 1 PROVE q[b] = p[b] /\ bt[b] = at[b]
    <3>1. b \in DOMAIN p /\ b \notin C /\ b # e
      BY <1>1, <1>2, <1>3 DEF None
    <3>2. QED
      BY <1>3, <3>1
  <2>3. ASSUME NEW b \in DOMAIN q, b >= g.start
        PROVE  (q[b].next # None => q[b].next >= g.start) /\ (q[b].branch # None => q[b].branch >= g.start)
    <3>1. CASE b \in C \/ b \notin DOMAIN p
      BY <1>1, <1>2, <1>4, <2>3, <3>1
    <3>2. CASE ~(b \in C \/ b \notin DOMAIN p)
      BY <1>1, <1>2, <1>3, <2>3, <3>2
    <3>3. QED
      BY <3>1, <3>2
  <2>4. QED
    BY <1>3, <2>1, <2>2, <2>3 DEF Low
<1>17. TopLinks(q, fr2, g, d)
  <2>1. EdgesFrom(p, q, T)
    BY <1>3, <1>4 DEF EdgesFrom
  <2>2. QED
    BY <1>2, <1>3, <2>1, OpensKept
<1>18. QED
  BY <1>2, <1>5, <1>15, <1>16, <1>17, LiftTop

IsBox(k, next, branch, dead, when, view) ==
  k.next = next /\ k.branch = branch /\ k.dead = dead /\ k.when = when /\ k.view = view
\* The boxes of C change, and one is new, which is entered in the worlds ws.
Drawn(p, q, C) == Pic(p) /\ Pic(q) /\ Len(q) = Len(p) + 1 /\ \A b \in DOMAIN p : b \notin C => q[b] = p[b]
Spread(p, at, bt, ws) == (\A b \in DOMAIN p : bt[b] = at[b]) /\ bt[Len(p) + 1] = ws

\* Numbers of the blocks when one is new.
LEMMA DrawnIs ==
  ASSUME NEW p, NEW q, NEW C, Drawn(p, q, C)
  PROVE  /\ DOMAIN p = 1 .. Len(p) /\ Len(p) \in Nat /\ DOMAIN q = 1 .. Len(q) /\ Len(q) \in Nat /\ Len(q) = Len(p) + 1
         /\ Len(p) + 1 \in DOMAIN q /\ Len(p) + 1 \notin DOMAIN p /\ Len(p) + 1 # None /\ Len(p) <= Len(q)
         /\ \A b \in DOMAIN q : b \in DOMAIN p \/ b = Len(p) + 1
         /\ \A b \in DOMAIN p : b \in DOMAIN q /\ b # Len(p) + 1
         /\ None \in 0 .. Len(q) /\ Len(p) + 1 \in 0 .. Len(q) /\ \A b \in DOMAIN p : b \in 0 .. Len(q)
BY DEF Drawn, Pic, None

\* A new block is a change of the picture.
LEMMA DrawnChanges ==
  ASSUME NEW p, NEW q, NEW C, Drawn(p, q, C), NEW at, NEW bt, NEW ws, Spread(p, at, bt, ws), NEW f,
         \A b \in C : b \in DOMAIN p /\ b >= f.start /\ b # f.ret
  PROVE  Changed(p, q, at, bt, f, C, None)
<1>1. Len(p) <= Len(q)
  BY DrawnIs
<1>2. QED
  BY <1>1 DEF Drawn, Spread, Changed

\* if name {
LEMMA BranchSound ==
  ASSUME NEW p, NEW at, NEW fr, NEW cu, NEW pa, NEW f, Top(p, at, fr, cu, pa, f), ~p[cu].dead,
         NEW g, NEW i, Opened(f, g, i), NEW fr2, Upto(fr, fr2, Len(fr), g), NEW ws, NEW e, ws \cap pa = e \cap pa,
         i.kind = "then", i.block = cu, i.t = None, i.start = pa \ e,
         NEW q, Drawn(p, q, {cu}), IsBox(q[cu], p[cu].next, Len(p) + 1, p[cu].dead, ws, p[cu].view),
         FreshBox(q[Len(p) + 1], p[cu].view), NEW bt, Spread(p, at, bt, pa \cap e)
  PROVE  Top(q, bt, fr2, Len(p) + 1, pa \cap e, g)
<1> DEFINE n == Len(f.ifs)
           new == Len(p) + 1
           v == pa \cap e
<1>1. /\ f \in Frames /\ FrameOK(p, at, f, cu, pa) /\ FlowOK(p, at)
      /\ f.start \in 1 .. Len(p) /\ f.ret = f.start + 1 /\ f.ret \in 1 .. Len(p)
      /\ cu \in f.start .. Len(p) /\ cu \in 1 .. Len(p) /\ cu # f.ret
      /\ DOMAIN p = 1 .. Len(p) /\ Len(p) \in Nat
  BY TopIs
<1>2. /\ KeepsIfs(f, g, n) /\ Len(g.ifs) = n + 1 /\ g.ifs[n + 1] = i
      /\ g.result = f.result /\ g.store = f.store /\ i.names = DOMAIN f.store
  BY DEF Opened
<1>3. n \in Nat /\ DOMAIN f.ifs = 1 .. n
  BY <1>1, FrameFields
<1>4. CurOK(p, at, f, cu, pa) /\ ChainOK(f, cu)
  BY <1>1 DEF FrameOK
<1>5. Idle(p[cu]) /\ at[cu] \subseteq pa /\ Agrees(p[cu].view, f.store, DOMAIN f.store, pa)
  BY <1>4 DEF CurOK
<1>6. /\ DOMAIN q = 1 .. Len(q) /\ Len(q) \in Nat /\ Len(q) = new /\ new \in DOMAIN q /\ new \notin DOMAIN p /\ new # None
      /\ \A b \in DOMAIN q : b \in DOMAIN p \/ b = new
      /\ None \in 0 .. Len(q) /\ new \in 0 .. Len(q)
  BY DrawnIs
<1>7. q[cu].next = None /\ q[cu].branch = new /\ ~q[cu].dead /\ q[cu].when = ws /\ q[cu].view = p[cu].view
  BY <1>5 DEF IsBox, Idle
<1>8. q[new].next = None /\ q[new].branch = None /\ ~q[new].dead /\ q[new].when = {} /\ q[new].view = p[cu].view
  BY DEF FreshBox
<1>9. bt[new] = v /\ bt[cu] = at[cu] /\ \A b \in DOMAIN p : b # cu => q[b] = p[b]
  BY <1>1 DEF Spread, Drawn
<1>10. Changed(p, q, at, bt, f, {cu}, None)
  <2>1. \A b \in {cu} : b \in DOMAIN p /\ b >= f.start /\ b # f.ret
    BY <1>1
  <2>2. QED
    BY <2>1, DrawnChanges
<1>11. new \in Nat /\ new >= f.start /\ new # f.ret /\ new \in f.start .. Len(q) /\ cu < new
  BY <1>1, <1>6
<1> HIDE DEF new, v, n
<1>12. NewBoxes(p, q, bt, f, {cu}, {new})
  <2>1. at[cu] \cap ws \subseteq v
    BY <1>5 DEF v
  <2>2. BlockFlow(q, bt, cu)
    BY <1>6, <1>7, <1>9, <2>1 DEF BlockFlow
  <2>3. BlockFlow(q, bt, new)
    BY <1>6, <1>8 DEF BlockFlow
  <2>4. \A b \in DOMAIN q : b \in {cu} \/ b \notin DOMAIN p => b = cu \/ b = new
    BY <1>6
  <2>5. QED
    BY <1>7, <1>8, <1>11, <2>2, <2>3, <2>4 DEF NewBoxes
<1>13. \A j \in 1 .. n : \A x \in Held(f.ifs[j]) : x \in Nat /\ x < new /\ x < cu /\ f.start <= x /\ x \notin {cu}
  <2>1. \A j \in 1 .. n : \A x \in Held(f.ifs[j]) : x \in Nat
    BY <1>1, <1>3, FrameFields, IfFields
  <2>2. \A j \in 1 .. n : \A x \in Held(f.ifs[j]) : x < cu /\ f.start <= x
    BY <1>3, <1>4 DEF ChainOK
  <2>3. cu \in Nat /\ new \in Nat /\ cu < new
    BY <1>1, <1>11
  <2>4. ASSUME NEW j \in 1 .. n, NEW x \in Held(f.ifs[j])
        PROVE  x \in Nat /\ x < new /\ x < cu /\ f.start <= x /\ x \notin {cu}
    <3>1. x \in Nat /\ x < cu /\ f.start <= x
      BY <2>1, <2>2
    <3>2. QED
      BY <2>3, <3>1
  <2>5. QED
    BY <2>4
<1>14. Narrow(f, pa, n, v) /\ Narrow(f, pa, n, pa \ e)
  BY DEF Narrow, v
<1>15. Agrees(p[cu].view, g.store, DOMAIN g.store, v) /\ Agrees(p[cu].view, g.store, i.names, pa \ e)
  BY <1>2, <1>5, AgreesLess DEF v
<1>16. CurOK(q, bt, g, new, v)
  BY <1>8, <1>9, <1>15 DEF CurOK, Idle
<1>17. LastIf(q, bt, f, g, n, pa, new, v)
  <2>1. Held(i) = {cu} /\ Aside(i) = pa \ e /\ cu # None
    BY <1>1 DEF Held, Aside, None
  <2>2. IfOK(q, bt, g, i)
    <3>1. bt[cu] \ ws \subseteq pa \ e
      BY <1>5, <1>9
    <3>2. QED
      BY <1>6, <1>7, <1>15, <3>1 DEF IfOK
  <2>3. SideOK(q, i, v)
    BY <1>7 DEF SideOK, v
  <2>4. \A j \in 1 .. n : f.ifs[j].names \subseteq DOMAIN f.store
    BY <1>3, <1>4 DEF ChainOK
  <2>5. /\ i.kind = "const" => i.block = None /\ i.t = None
        /\ i.kind = "then" => i.block # None /\ i.t = None
        /\ i.kind = "else" => i.block # None /\ i.block < i.t
    BY <2>1
  <2>6. \A x \in Held(i) : f.start <= x /\ x < new /\ x # f.ret
    BY <1>1, <1>11, <2>1
  <2>7. \A j \in 1 .. n : \A x \in Held(f.ifs[j]), y \in Held(i) : x < y
    BY <1>13, <2>1
  <2>8. QED
    BY <1>2, <1>14, <2>1, <2>2, <2>3, <2>4, <2>5, <2>6, <2>7 DEF LastIf
<1>18. ASSUME NEW b \in DOMAIN q, b \in {new} \/ (b \in DOMAIN p /\ Ready(p, b, OpenIn(f, cu)))
       PROVE  Ready(q, b, OpenIn(g, new))
  <2>1. new \in OpenIn(g, new) /\ cu \in OpenIn(g, new)
    <3>1. Held(i) = {cu}
      BY <1>1 DEF Held, None
    <3>2. QED
      BY <1>2, <3>1, OpenIs
  <2>2. CASE b = new
    BY <1>8, <2>1, <2>2 DEF Ready
  <2>3. CASE b = cu
    BY <1>7, <2>1, <2>3 DEF Ready
  <2>4. CASE b # new /\ b # cu
    <3>1. b \in DOMAIN p /\ Ready(p, b, OpenIn(f, cu)) /\ q[b] = p[b]
      BY <1>9, <1>18, <2>4
    <3>2. ASSUME b \in OpenIn(f, cu) PROVE b \in OpenIn(g, new)
      <4>1. b = cu \/ (\E l \in n + 1 .. Len(f.ifs) : b \in Held(f.ifs[l])) \/ b \in OpenIn(g, new)
        BY <1>2, <3>2, OpenIs
      <4>2. \A l \in n + 1 .. Len(f.ifs) : FALSE
        BY <1>3 DEF n
      <4>3. QED
        BY <2>4, <4>1, <4>2
    <3>3. QED
      BY <3>1, <3>2 DEF Ready
  <2>5. QED
    BY <2>2, <2>3, <2>4
<1>19. Top(q, bt, fr2, new, v, g)
  BY <1>2, <1>10, <1>11, <1>12, <1>13, <1>14, <1>16, <1>17, <1>18, StepSound
<1>20. QED
  BY <1>19 DEF new, v

\* The last if of f is k now.
Turned(f, g, i, k) ==
  /\ f.ifs # <<>> /\ i = f.ifs[Len(f.ifs)] /\ KeepsIfs(f, g, Len(f.ifs) - 1)
  /\ Len(g.ifs) = Len(f.ifs) /\ g.ifs[Len(f.ifs)] = k
  /\ g.result = f.result /\ DOMAIN g.store = i.names /\ k.names = i.names

\* A block for the other branch: } else {, or the end of an if without one whose branch has returned.
NextDrawn(p, cu, pa, f, g, i, k, q) ==
  /\ i.kind = "then" /\ Drawn(p, q, {i.block})
  /\ \/ Closed(f, g, i) /\ p[cu].dead
     \/ Turned(f, g, i, k) /\ k.kind = "else" /\ k.block = i.block /\ k.t = cu /\ k.end = pa
  /\ IsBox(q[i.block], Len(p) + 1, p[i.block].branch, p[i.block].dead, p[i.block].when, p[i.block].view)
  /\ FreshBox(q[Len(p) + 1], p[i.block].view)
LEMMA NextSound ==
  ASSUME NEW p, NEW at, NEW fr, NEW cu, NEW pa, NEW f, Top(p, at, fr, cu, pa, f),
         NEW g, NEW i, NEW k, NEW fr2, Upto(fr, fr2, Len(fr), g), NEW q, NextDrawn(p, cu, pa, f, g, i, k, q),
         NEW bt, Spread(p, at, bt, i.start)
  PROVE  Top(q, bt, fr2, Len(p) + 1, i.start, g)
<1> DEFINE n == Len(f.ifs)
           new == Len(p) + 1
           v == i.start
           B == i.block
           m == n - 1
<1>0. /\ i.kind = "then" /\ Drawn(p, q, {B})
      /\ \/ Closed(f, g, i) /\ p[cu].dead
         \/ Turned(f, g, i, k) /\ k.kind = "else" /\ k.block = B /\ k.t = cu /\ k.end = pa
      /\ IsBox(q[B], new, p[B].branch, p[B].dead, p[B].when, p[B].view)
      /\ FreshBox(q[new], p[B].view)
  BY DEF NextDrawn
<1>1. /\ f \in Frames /\ FrameOK(p, at, f, cu, pa) /\ FlowOK(p, at)
      /\ f.start \in 1 .. Len(p) /\ f.ret = f.start + 1 /\ f.ret \in 1 .. Len(p)
      /\ cu \in f.start .. Len(p) /\ cu \in 1 .. Len(p) /\ cu # f.ret
      /\ DOMAIN p = 1 .. Len(p) /\ Len(p) \in Nat
  BY TopIs
<1>2. /\ f.ifs # <<>> /\ i = f.ifs[n] /\ KeepsIfs(f, g, m)
      /\ g.result = f.result /\ DOMAIN g.store = i.names
  BY <1>0 DEF Closed, Turned
<1>3. Innermost(p, at, f, cu, pa, i)
  <2>1. f \in Frames /\ FrameOK(p, at, f, cu, pa) /\ f.ifs # <<>> /\ i = f.ifs[Len(f.ifs)]
    BY <1>1, <1>2
  <2>2. QED
    BY <2>1, InnermostIs
<1>4. /\ n \in Nat /\ m \in 0 .. n /\ B \in Nat /\ B # None /\ f.start <= B /\ B < cu /\ B # f.ret
      /\ p[B].branch # None /\ ~p[B].dead /\ Held(i) = {B} /\ p[B].next = None
      /\ IfOK(p, at, f, i) /\ SideOK(p, i, pa) /\ i.names \subseteq DOMAIN f.store
      /\ \A j \in 1 .. m : f.ifs[j].names \subseteq i.names
      /\ \A j \in 1 .. m : \A x \in Held(f.ifs[j]) : /\ x \in Nat /\ f.start <= x /\ x < cu /\ x # f.ret
                                                     /\ \A y \in Held(i) : x < y
      /\ \A u : u \subseteq pa \cup Aside(i) => Narrow(f, pa, m, u)
      /\ i.kind \in Kinds
  BY <1>0, <1>3, Zenon DEF Innermost
<1>5. /\ at[B] \ p[B].when \subseteq i.start /\ Agrees(p[B].view, f.store, i.names, i.start)
  BY <1>0, <1>4 DEF IfOK
<1>6. CurOK(p, at, f, cu, pa)
  BY <1>1 DEF FrameOK
<1>7. /\ DOMAIN q = 1 .. Len(q) /\ Len(q) \in Nat /\ Len(q) = new /\ new \in DOMAIN q /\ new \notin DOMAIN p /\ new # None
      /\ \A b \in DOMAIN q : b \in DOMAIN p \/ b = new
      /\ None \in 0 .. Len(q) /\ new \in 0 .. Len(q) /\ \A b \in DOMAIN p : b \in 0 .. Len(q)
  BY <1>0, DrawnIs
<1>8. /\ q[B].next = new /\ q[B].branch = p[B].branch /\ ~q[B].dead /\ q[B].when = p[B].when /\ q[B].view = p[B].view
  BY <1>0, <1>4 DEF IsBox
<1>9. q[new].next = None /\ q[new].branch = None /\ ~q[new].dead /\ q[new].when = {} /\ q[new].view = p[B].view
  BY <1>0 DEF FreshBox
<1>10. B \in DOMAIN p /\ B < new /\ B # cu /\ cu < new
  BY <1>1, <1>4
<1>11. /\ bt[new] = v /\ \A b \in DOMAIN p : bt[b] = at[b]
       /\ \A b \in DOMAIN p : b # B => q[b] = p[b]
  BY <1>0 DEF Spread, Drawn
<1>12. Changed(p, q, at, bt, f, {B}, None)
  <2>1. \A b \in {B} : b \in DOMAIN p /\ b >= f.start /\ b # f.ret
    BY <1>1, <1>4, <1>10
  <2>2. QED
    BY <1>0, <2>1, DrawnChanges
<1>13. new \in Nat /\ new >= f.start /\ new # f.ret /\ new \in f.start .. Len(q)
  BY <1>1, <1>7
<1>14. KeepsIfs(f, g, m) /\ (Len(g.ifs) = m + 1 => Turned(f, g, i, k) /\ k.kind = "else" /\ k.block = B /\ k.t = cu
                                                  /\ k.end = pa /\ g.ifs[m + 1] = k /\ k.names = i.names)
       /\ (Len(g.ifs) # m + 1 => p[cu].dead)
  <2>1. m + 1 = n /\ m # m + 1
    BY <1>4
  <2>2. CASE Closed(f, g, i) /\ p[cu].dead
    <3>1. Len(g.ifs) = m
      BY <2>2 DEF Closed
    <3>2. QED
      BY <1>2, <2>1, <2>2, <3>1
  <2>3. CASE Turned(f, g, i, k) /\ k.kind = "else" /\ k.block = B /\ k.t = cu /\ k.end = pa
    <3>1. Len(g.ifs) = n /\ g.ifs[n] = k /\ k.names = i.names
      BY <2>3 DEF Turned
    <3>2. QED
      BY <1>2, <2>1, <2>3, <3>1
  <2>4. QED
    BY <1>0, <2>2, <2>3
<1> HIDE DEF new, v, n, m, B
<1>15. NewBoxes(p, q, bt, f, {B}, {new})
  <2>1. /\ p[B].branch \in 0 .. Len(p) /\ at[B] \cap p[B].when \subseteq at[p[B].branch]
    BY <1>1, <1>4, <1>10 DEF FlowOK
  <2>2. p[B].branch \in DOMAIN p
    BY <1>1, <1>4, <2>1 DEF None
  <2>3. BlockFlow(q, bt, B)
    BY <1>4, <1>5, <1>7, <1>8, <1>10, <1>11, <2>1, <2>2 DEF BlockFlow, v
  <2>4. BlockFlow(q, bt, new)
    BY <1>7, <1>9 DEF BlockFlow
  <2>5. \A b \in DOMAIN q : b \in {B} \/ b \notin DOMAIN p => b = B \/ b = new
    BY <1>7
  <2>6. QED
    BY <1>8, <1>9, <1>10, <1>13, <2>3, <2>4, <2>5 DEF NewBoxes
<1>16. \A j \in 1 .. m : \A x \in Held(f.ifs[j]) : x \in Nat /\ x < new /\ x < cu /\ f.start <= x /\ x \notin {B}
  <2>1. ASSUME NEW j \in 1 .. m, NEW x \in Held(f.ifs[j])
        PROVE  x \in Nat /\ x < new /\ x < cu /\ f.start <= x /\ x \notin {B}
    <3>1. x \in Nat /\ x < cu /\ f.start <= x /\ x < B
      BY <1>4
    <3>2. QED
      BY <1>1, <1>4, <1>10, <1>13, <3>1
  <2>2. QED
    BY <2>1
<1>17. Narrow(f, pa, m, v) /\ Narrow(f, pa, m, pa)
  <2>1. Aside(i) = i.start
    BY <1>0 DEF Aside
  <2>2. QED
    BY <1>4, <2>1 DEF v
<1>18. \A x \in DOMAIN g.store : g.store[x] = f.store[x]
  BY <1>2 DEF KeepsIfs
<1>19. CurOK(q, bt, g, new, v)
  <2>1. Agrees(p[B].view, g.store, DOMAIN g.store, v)
    BY <1>2, <1>5, <1>18, AgreesLess DEF v
  <2>2. QED
    BY <1>9, <1>11, <2>1 DEF CurOK, Idle
<1>20. LastIf(q, bt, f, g, m, pa, new, v)
  <2> SUFFICES ASSUME Len(g.ifs) = m + 1 PROVE LastIf(q, bt, f, g, m, pa, new, v)
    BY DEF LastIf
  <2>1. k.kind = "else" /\ k.block = B /\ k.t = cu /\ k.end = pa /\ g.ifs[m + 1] = k /\ k.names = i.names
    BY <1>14
  <2>2. cu \in Nat /\ cu # None /\ cu >= f.start /\ f.start \in Nat
    BY <1>1 DEF None
  <2>3. Held(k) = {B, cu} /\ Aside(k) = pa
    BY <1>4, <2>1, <2>2 DEF Held, Aside
  <2>4. q[cu] = p[cu] /\ bt[cu] = at[cu]
    BY <1>1, <1>10, <1>11
  <2>5. IfOK(q, bt, g, k)
    <3>1. CASE p[cu].dead
      BY <1>4, <1>6, <1>7, <1>8, <2>1, <2>4, <3>1 DEF IfOK, CurOK
    <3>2. CASE ~p[cu].dead
      <4>1. Idle(p[cu]) /\ at[cu] \subseteq pa /\ Agrees(p[cu].view, f.store, DOMAIN f.store, pa)
        BY <1>6, <3>2 DEF CurOK
      <4>2. Agrees(p[cu].view, g.store, i.names, pa)
        BY <1>2, <1>4, <1>18, <4>1, AgreesLess
      <4>3. QED
        BY <1>4, <1>7, <1>8, <2>1, <2>4, <3>2, <4>1, <4>2 DEF IfOK
    <3>3. QED
      BY <3>1, <3>2
  <2>6. SideOK(q, k, v)
    BY <1>0, <1>4, <1>8, <2>1 DEF SideOK, v, B
  <2>7. \A x \in Held(k) : f.start <= x /\ x < new /\ x # f.ret
    BY <1>1, <1>4, <1>10, <2>2, <2>3
  <2>8. \A j \in 1 .. m : \A x \in Held(f.ifs[j]), y \in Held(k) : x < y
    BY <1>4, <2>3
  <2>9. /\ k.kind = "const" => k.block = None /\ k.t = None
        /\ k.kind = "then" => k.block # None /\ k.t = None
        /\ k.kind = "else" => k.block # None /\ k.block < k.t
    BY <1>4, <2>1
  <2>10. k.names \subseteq DOMAIN g.store /\ \A j \in 1 .. m : f.ifs[j].names \subseteq k.names
    BY <1>2, <1>4, <2>1
  <2>11. QED
    BY <1>17, <2>1, <2>3, <2>5, <2>6, <2>7, <2>8, <2>9, <2>10 DEF LastIf
<1>21. ASSUME NEW b \in DOMAIN q, b \in {new} \/ (b \in DOMAIN p /\ Ready(p, b, OpenIn(f, cu)))
       PROVE  Ready(q, b, OpenIn(g, new))
  <2>1. new \in OpenIn(g, new) /\ (Len(g.ifs) = m + 1 => cu \in OpenIn(g, new))
    <3>1. new \in OpenIn(g, new) /\ (Len(g.ifs) = m + 1 => Held(g.ifs[m + 1]) \subseteq OpenIn(g, new))
      BY <1>2, OpenIs
    <3>2. Len(g.ifs) = m + 1 => cu \in Held(g.ifs[m + 1])
      BY <1>1, <1>14 DEF Held, None
    <3>3. QED
      BY <3>1, <3>2
  <2>2. CASE b = new
    BY <1>9, <2>1, <2>2 DEF Ready
  <2>3. CASE b = B
    BY <1>7, <1>8, <2>3 DEF Ready
  <2>4. CASE b # new /\ b # B
    <3>1. b \in DOMAIN p /\ Ready(p, b, OpenIn(f, cu)) /\ q[b] = p[b]
      BY <1>7, <1>11, <1>21, <2>4
    <3>2. ASSUME b \in OpenIn(f, cu), p[b].next = None PROVE b \in OpenIn(g, new)
      <4>1. b = cu \/ (\E l \in m + 1 .. Len(f.ifs) : b \in Held(f.ifs[l])) \/ b \in OpenIn(g, new)
        BY <1>2, <3>2, OpenIs
      <4>2. \A l \in m + 1 .. Len(f.ifs) : l = n
        BY <1>4 DEF n, m
      <4>3. b # cu \/ Len(g.ifs) = m + 1
        BY <1>14, <3>1, <3>2 DEF Ready
      <4>4. \A l \in m + 1 .. Len(f.ifs) : b \notin Held(f.ifs[l])
        BY <1>2, <1>4, <2>4, <4>2
      <4>5. QED
        BY <2>1, <4>1, <4>3, <4>4
    <3>3. QED
      BY <3>1, <3>2 DEF Ready
  <2>5. QED
    BY <2>2, <2>3, <2>4
<1>22. Top(q, bt, fr2, new, v, g)
  <2>1. Drawn(p, q, {B}) /\ g.result = f.result /\ KeepsIfs(f, g, m) /\ new \in f.start .. Len(q) /\ new # f.ret
    BY <1>0, <1>2, <1>13 DEF B
  <2>2. QED
    BY <2>1, <1>12, <1>15, <1>16, <1>17, <1>19, <1>20, <1>21, StepSound
<1>23. QED
  BY <1>22 DEF new, v

\* The choice between the names of two branches agrees with the run in the worlds of both.
LEMMA JoinedAgrees ==
  ASSUME NEW when, NEW t, NEW f, NEW store, NEW names, NEW w, NEW u,
         Agrees(t, store, names, w), Agrees(f, store, names, u), w \subseteq when, u \cap when = {}
  PROVE  Agrees(Joined(when, t, f), store, names, w \cup u)
<1> DEFINE j == Joined(when, t, f)
<1>1. DOMAIN j = DOMAIN t /\ \A n \in DOMAIN t : n \in DOMAIN f => j[n] = Choice(when, t[n], f[n])
  BY DEF Joined
<1> HIDE DEF j
<1>2. ASSUME NEW n \in names PROVE n \in DOMAIN j /\ j[n] \cap (w \cup u) = store[n] \cap (w \cup u)
  <2>1. /\ n \in DOMAIN t /\ t[n] \cap w = store[n] \cap w
        /\ n \in DOMAIN f /\ f[n] \cap u = store[n] \cap u
    BY DEF Agrees
  <2>2. j[n] = Choice(when, t[n], f[n]) /\ n \in DOMAIN j
    BY <1>1, <2>1
  <2>3. QED
    BY <2>1, <2>2 DEF Choice
<1>3. Agrees(j, store, names, w \cup u)
  BY <1>2 DEF Agrees
<1>4. QED
  BY <1>3 DEF j

\* The end of an if without else: the branch goes on with the names of both.
JoinDrawn(p, at, cu, pa, f, g, i, q, bt) ==
  /\ Closed(f, g, i) /\ i.kind = "then" /\ ~p[cu].dead /\ Pic(q) /\ Len(q) = Len(p)
  /\ \A b \in DOMAIN p : b # cu /\ b # i.block => q[b] = p[b]
  /\ IsBox(q[i.block], cu, p[i.block].branch, p[i.block].dead, p[i.block].when, p[i.block].view)
  /\ IsBox(q[cu], p[cu].next, p[cu].branch, p[cu].dead, p[cu].when,
           Joined(p[i.block].when, p[cu].view, p[i.block].view))
  /\ (\A b \in DOMAIN p : b # cu => bt[b] = at[b]) /\ bt[cu] = pa \cup i.start
LEMMA JoinSound ==
  ASSUME NEW p, NEW at, NEW fr, NEW cu, NEW pa, NEW f, Top(p, at, fr, cu, pa, f),
         NEW g, NEW i, NEW fr2, Upto(fr, fr2, Len(fr), g), NEW q, NEW bt, JoinDrawn(p, at, cu, pa, f, g, i, q, bt)
  PROVE  Top(q, bt, fr2, cu, pa \cup i.start, g)
<1> DEFINE n == Len(f.ifs)
           v == pa \cup i.start
           B == i.block
           m == n - 1
<1>0. /\ Closed(f, g, i) /\ i.kind = "then" /\ ~p[cu].dead /\ Pic(q) /\ Len(q) = Len(p)
      /\ \A b \in DOMAIN p : b # cu /\ b # B => q[b] = p[b]
      /\ IsBox(q[B], cu, p[B].branch, p[B].dead, p[B].when, p[B].view)
      /\ IsBox(q[cu], p[cu].next, p[cu].branch, p[cu].dead, p[cu].when, Joined(p[B].when, p[cu].view, p[B].view))
      /\ (\A b \in DOMAIN p : b # cu => bt[b] = at[b]) /\ bt[cu] = v
  BY DEF JoinDrawn
<1>1. /\ f \in Frames /\ FrameOK(p, at, f, cu, pa) /\ FlowOK(p, at)
      /\ f.start \in 1 .. Len(p) /\ f.ret = f.start + 1 /\ f.ret \in 1 .. Len(p)
      /\ cu \in f.start .. Len(p) /\ cu \in 1 .. Len(p) /\ cu # f.ret
      /\ DOMAIN p = 1 .. Len(p) /\ Len(p) \in Nat
  BY TopIs
<1>2. /\ f.ifs # <<>> /\ i = f.ifs[n] /\ KeepsIfs(f, g, m) /\ Len(g.ifs) = m
      /\ g.result = f.result /\ DOMAIN g.store = i.names
  BY <1>0, Zenon DEF Closed
<1>3. Innermost(p, at, f, cu, pa, i)
  <2>1. f \in Frames /\ FrameOK(p, at, f, cu, pa) /\ f.ifs # <<>> /\ i = f.ifs[Len(f.ifs)]
    BY <1>1, <1>2
  <2>2. QED
    BY <2>1, InnermostIs
<1>4. /\ n \in Nat /\ m \in 0 .. n /\ B \in Nat /\ B # None /\ f.start <= B /\ B < cu /\ B # f.ret
      /\ p[B].branch # None /\ ~p[B].dead /\ Held(i) = {B}
      /\ IfOK(p, at, f, i) /\ SideOK(p, i, pa) /\ i.names \subseteq DOMAIN f.store
      /\ \A j \in 1 .. m : \A x \in Held(f.ifs[j]) : /\ x \in Nat /\ f.start <= x /\ x < cu /\ x # f.ret
                                                     /\ \A y \in Held(i) : x < y
      /\ \A u : u \subseteq pa \cup Aside(i) => Narrow(f, pa, m, u)
  BY <1>0, <1>3, Zenon DEF Innermost
<1>5. /\ at[B] \ p[B].when \subseteq i.start /\ Agrees(p[B].view, f.store, i.names, i.start)
      /\ pa \subseteq p[B].when /\ i.start \cap p[B].when = {}
  BY <1>0, <1>4 DEF IfOK, SideOK
<1>6. CurOK(p, at, f, cu, pa)
  BY <1>1 DEF FrameOK
<1>7. Idle(p[cu]) /\ at[cu] \subseteq pa /\ Agrees(p[cu].view, f.store, DOMAIN f.store, pa)
  BY <1>0, <1>6 DEF CurOK
<1>8. DOMAIN q = DOMAIN p /\ Len(q) \in Nat /\ Pic(p) /\ Len(p) <= Len(q)
  BY <1>0, <1>1 DEF Pic, Top
<1>9. /\ q[B].next = cu /\ q[B].branch = p[B].branch /\ ~q[B].dead /\ q[B].when = p[B].when
      /\ q[cu].next = None /\ q[cu].branch = None /\ ~q[cu].dead /\ q[cu].when = p[cu].when
      /\ q[cu].view = Joined(p[B].when, p[cu].view, p[B].view)
  BY <1>0, <1>4, <1>7 DEF IsBox, Idle
<1>10. B \in DOMAIN p /\ B # cu /\ cu \in DOMAIN p /\ cu # f.start /\ cu # None
  BY <1>1, <1>4 DEF None
<1>11. /\ bt[cu] = v /\ at[cu] \subseteq bt[cu] /\ i.start \subseteq bt[cu]
       /\ \A b \in DOMAIN p : b # cu => bt[b] = at[b]
       /\ \A b \in DOMAIN p : at[b] \subseteq bt[b]
  BY <1>0, <1>7
<1> HIDE DEF v, n, m, B
<1>12. Changed(p, q, at, bt, f, {B, cu}, cu)
  <2>1. \A b \in {B, cu} : b \in DOMAIN p /\ b >= f.start /\ b # f.ret
    BY <1>1, <1>4, <1>10
  <2>2. \A b \in DOMAIN p : b \notin {B, cu} => q[b] = p[b]
    BY <1>0 DEF B
  <2>3. QED
    BY <1>0, <1>8, <1>10, <1>11, <2>1, <2>2 DEF Changed
<1>13. NewBoxes(p, q, bt, f, {B, cu}, {cu})
  <2>1. /\ p[B].branch \in 0 .. Len(p) /\ at[B] \cap p[B].when \subseteq at[p[B].branch]
        /\ p[cu].when = {}
    BY <1>1, <1>4, <1>7, <1>10 DEF FlowOK, Idle
  <2>2. p[B].branch \in DOMAIN p
    BY <1>1, <1>4, <2>1 DEF None
  <2>3. BlockFlow(q, bt, B)
    <3>1. q[B].next \in 0 .. Len(q) /\ q[B].branch \in 0 .. Len(q)
      BY <1>0, <1>1, <1>9, <2>1
    <3>2. bt[B] \cap q[B].when \subseteq bt[q[B].branch]
      BY <1>9, <1>10, <1>11, <2>1, <2>2
    <3>3. bt[B] \ q[B].when \subseteq bt[q[B].next]
      BY <1>5, <1>9, <1>10, <1>11
    <3>4. QED
      BY <1>4, <1>9, <3>1, <3>2, <3>3 DEF BlockFlow
  <2>4. BlockFlow(q, bt, cu)
    BY <1>8, <1>9, <2>1 DEF BlockFlow, None
  <2>5. cu \in Nat /\ cu >= f.start
    BY <1>1
  <2>6. QED
    BY <1>1, <1>8, <1>9, <1>10, <2>3, <2>4, <2>5 DEF NewBoxes
<1>14. ASSUME NEW j \in 1 .. m, NEW x \in Held(f.ifs[j])
       PROVE  x \in Nat /\ x < cu /\ f.start <= x /\ x \notin {B, cu}
  <2>1. x \in Nat /\ x < cu /\ f.start <= x /\ x < B
    BY <1>4
  <2>2. QED
    BY <1>1, <1>4, <2>1
<1>15. Narrow(f, pa, m, v)
  <2>1. Aside(i) = i.start
    BY <1>0 DEF Aside
  <2>2. QED
    BY <1>4, <2>1 DEF v
<1>16. CurOK(q, bt, g, cu, v)
  <2>1. \A x \in DOMAIN g.store : g.store[x] = f.store[x]
    BY <1>2 DEF KeepsIfs
  <2>2. Agrees(p[cu].view, g.store, i.names, pa) /\ Agrees(p[B].view, g.store, i.names, i.start)
    <3>1. Agrees(p[B].view, f.store, i.names, i.start) /\ Agrees(p[cu].view, f.store, DOMAIN f.store, pa)
      BY <1>5, <1>7
    <3>2. i.names \subseteq DOMAIN f.store /\ i.names \subseteq i.names /\ \A x \in i.names : g.store[x] = f.store[x]
      BY <1>2, <1>4, <2>1
    <3>3. Agrees(p[cu].view, g.store, i.names, pa)
      BY <3>1, <3>2, AgreesLess
    <3>4. Agrees(p[B].view, g.store, i.names, i.start)
      BY <3>1, <3>2, AgreesLess
    <3>5. QED
      BY <3>3, <3>4
  <2>3. Agrees(q[cu].view, g.store, i.names, v)
    BY <1>5, <1>9, <2>2, JoinedAgrees DEF v
  <2>4. QED
    BY <1>2, <1>9, <1>11, <2>3 DEF CurOK, Idle
<1>17. LastIf(q, bt, f, g, m, pa, cu, v)
  <2>1. Len(g.ifs) # m + 1
    BY <1>2, <1>4
  <2>2. QED
    BY <2>1 DEF LastIf
<1>18. ASSUME NEW b \in DOMAIN q, b \in {cu} \/ (b \in DOMAIN p /\ Ready(p, b, OpenIn(f, cu)))
       PROVE  Ready(q, b, OpenIn(g, cu))
  <2>1. cu \in OpenIn(g, cu)
    BY <1>2, OpenIs
  <2>2. CASE b = cu
    BY <1>9, <2>1, <2>2 DEF Ready
  <2>3. CASE b = B
    BY <1>9, <1>10, <2>3 DEF Ready
  <2>4. CASE b # cu /\ b # B
    <3>1. b \in DOMAIN p /\ Ready(p, b, OpenIn(f, cu)) /\ q[b] = p[b]
      BY <1>0, <1>18, <2>4 DEF B
    <3>2. ASSUME b \in OpenIn(f, cu) PROVE b \in OpenIn(g, cu)
      <4>1. b = cu \/ (\E l \in m + 1 .. Len(f.ifs) : b \in Held(f.ifs[l])) \/ b \in OpenIn(g, cu)
        BY <1>2, <3>2, OpenIs
      <4>2. \A l \in m + 1 .. Len(f.ifs) : l = n
        BY <1>4 DEF n, m
      <4>3. \A l \in m + 1 .. Len(f.ifs) : b \notin Held(f.ifs[l])
        BY <1>2, <1>4, <2>4, <4>2
      <4>4. QED
        BY <2>4, <4>1, <4>3
    <3>3. QED
      BY <3>1, <3>2 DEF Ready
  <2>5. QED
    BY <2>2, <2>3, <2>4
<1>19. Top(q, bt, fr2, cu, v, g)
  <2>1. cu \in f.start .. Len(q)
    BY <1>0, <1>1
  <2>2. \A j \in 1 .. m : \A x \in Held(f.ifs[j]) : x \in Nat /\ x < cu /\ x < cu /\ f.start <= x /\ x \notin {B, cu}
    BY <1>14
  <2>3. QED
    BY <1>1, <1>2, <1>12, <1>13, <1>15, <1>16, <1>17, <1>18, <2>1, <2>2, StepSound
<1>20. QED
  BY <1>19 DEF v

\* The end of an if with else.
MeetDrawn(p, cu, f, g, i, q) ==
  /\ Closed(f, g, i) /\ i.kind = "else"
  /\ \/ /\ ~p[cu].dead /\ ~p[i.t].dead /\ Drawn(p, q, {i.t, cu})
        /\ IsBox(q[i.t], Len(p) + 1, p[i.t].branch, p[i.t].dead, p[i.t].when, p[i.t].view)
        /\ IsBox(q[cu], Len(p) + 1, p[cu].branch, p[cu].dead, p[cu].when, p[cu].view)
        /\ FreshBox(q[Len(p) + 1], Joined(p[i.block].when, p[i.t].view, p[cu].view))
     \/ /\ p[cu].dead /\ p[i.t].dead /\ Drawn(p, q, {})
        /\ q[Len(p) + 1].next = None /\ q[Len(p) + 1].branch = None /\ q[Len(p) + 1].dead
        /\ q[Len(p) + 1].when = {}
LEMMA MeetSound ==
  ASSUME NEW p, NEW at, NEW fr, NEW cu, NEW pa, NEW f, Top(p, at, fr, cu, pa, f),
         NEW g, NEW i, NEW fr2, Upto(fr, fr2, Len(fr), g), NEW q, MeetDrawn(p, cu, f, g, i, q),
         NEW bt, Spread(p, at, bt, pa \cup i.end)
  PROVE  Top(q, bt, fr2, Len(p) + 1, pa \cup i.end, g)
<1> DEFINE n == Len(f.ifs)
           new == Len(p) + 1
           v == pa \cup i.end
           B == i.block
           t == i.t
           m == n - 1
           C == IF p[cu].dead THEN {} ELSE {t, cu}
           T == IF p[cu].dead THEN {} ELSE {new}
<1>0. /\ Closed(f, g, i) /\ i.kind = "else"
      /\ \/ /\ ~p[cu].dead /\ ~p[t].dead /\ Drawn(p, q, {t, cu})
            /\ IsBox(q[t], new, p[t].branch, p[t].dead, p[t].when, p[t].view)
            /\ IsBox(q[cu], new, p[cu].branch, p[cu].dead, p[cu].when, p[cu].view)
            /\ FreshBox(q[new], Joined(p[B].when, p[t].view, p[cu].view))
         \/ /\ p[cu].dead /\ p[t].dead /\ Drawn(p, q, {})
            /\ q[new].next = None /\ q[new].branch = None /\ q[new].dead /\ q[new].when = {}
  BY DEF MeetDrawn
<1>1. /\ f \in Frames /\ FrameOK(p, at, f, cu, pa) /\ FlowOK(p, at)
      /\ f.start \in 1 .. Len(p) /\ f.ret = f.start + 1 /\ f.ret \in 1 .. Len(p)
      /\ cu \in f.start .. Len(p) /\ cu \in 1 .. Len(p) /\ cu # f.ret
      /\ DOMAIN p = 1 .. Len(p) /\ Len(p) \in Nat
  BY TopIs
<1>2. /\ f.ifs # <<>> /\ i = f.ifs[n] /\ KeepsIfs(f, g, m) /\ Len(g.ifs) = m
      /\ g.result = f.result /\ DOMAIN g.store = i.names
  BY <1>0, Zenon DEF Closed
<1>3. Innermost(p, at, f, cu, pa, i)
  <2>1. f \in Frames /\ FrameOK(p, at, f, cu, pa) /\ f.ifs # <<>> /\ i = f.ifs[Len(f.ifs)]
    BY <1>1, <1>2
  <2>2. QED
    BY <2>1, InnermostIs
<1>4. /\ n \in Nat /\ m \in 0 .. n /\ B \in Nat /\ B # None /\ f.start <= B /\ B < cu /\ B # f.ret
      /\ p[B].branch # None /\ ~p[B].dead /\ p[B].next # None
      /\ t \in Nat /\ t # None /\ Held(i) = {B, t} /\ B < t /\ f.start <= t /\ t < cu /\ t # f.ret
      /\ IfOK(p, at, f, i) /\ SideOK(p, i, pa) /\ i.names \subseteq DOMAIN f.store
      /\ \A j \in 1 .. m : \A x \in Held(f.ifs[j]) : /\ x \in Nat /\ f.start <= x /\ x < cu /\ x # f.ret
                                                     /\ \A y \in Held(i) : x < y
      /\ \A u : u \subseteq pa \cup Aside(i) => Narrow(f, pa, m, u)
  BY <1>0, <1>3, Zenon DEF Innermost
<1>5. /\ IF p[t].dead THEN i.end = {}
         ELSE Idle(p[t]) /\ at[t] \subseteq i.end /\ Agrees(p[t].view, f.store, i.names, i.end)
      /\ pa \cap p[B].when = {} /\ i.end \subseteq p[B].when
  BY <1>0, <1>4 DEF IfOK, SideOK
<1>6. CurOK(p, at, f, cu, pa)
  BY <1>1 DEF FrameOK
<1>7. IF p[cu].dead THEN pa = {}
      ELSE Idle(p[cu]) /\ at[cu] \subseteq pa /\ Agrees(p[cu].view, f.store, DOMAIN f.store, pa)
  BY <1>6 DEF CurOK
<1>8. t \in DOMAIN p /\ t # cu /\ B # t /\ B # cu /\ B \in DOMAIN p
  BY <1>1, <1>4
<1>9. Drawn(p, q, C) /\ (p[cu].dead <=> p[t].dead) /\ C \subseteq {t, cu} /\ T \subseteq {new}
  BY <1>0
<1>10. /\ DOMAIN q = 1 .. Len(q) /\ Len(q) \in Nat /\ Len(q) = new /\ new \in DOMAIN q /\ new \notin DOMAIN p /\ new # None
       /\ \A b \in DOMAIN q : b \in DOMAIN p \/ b = new
       /\ None \in 0 .. Len(q) /\ new \in 0 .. Len(q) /\ \A b \in DOMAIN p : b \in 0 .. Len(q)
  BY <1>9, DrawnIs
<1>11. bt[new] = v /\ \A b \in DOMAIN p : bt[b] = at[b]
  BY DEF Spread
<1>12. \A b \in DOMAIN p : b \notin C => q[b] = p[b]
  BY <1>9 DEF Drawn
<1>13. ~p[cu].dead => /\ q[t].next = new /\ q[t].branch = None /\ q[t].when = p[t].when /\ ~q[t].dead
                      /\ q[cu].next = new /\ q[cu].branch = None /\ q[cu].when = p[cu].when /\ ~q[cu].dead
                      /\ p[t].when = {} /\ p[cu].when = {}
                      /\ q[new].view = Joined(p[B].when, p[t].view, p[cu].view) /\ ~q[new].dead
  BY <1>0, <1>1, <1>5, <1>7, <1>8 DEF IsBox, Idle, FreshBox, FlowOK
<1>14. q[new].next = None /\ q[new].branch = None /\ q[new].when = {} /\ (p[cu].dead => q[new].dead)
  BY <1>0 DEF FreshBox
<1>15. Changed(p, q, at, bt, f, C, None)
  <2>1. \A b \in {t, cu} : b \in DOMAIN p /\ b >= f.start /\ b # f.ret
    BY <1>1, <1>4, <1>8
  <2>2. \A b \in C : b \in DOMAIN p /\ b >= f.start /\ b # f.ret
    BY <1>9, <2>1
  <2> HIDE DEF C
  <2>3. QED
    BY <1>9, <2>2, DrawnChanges
<1>16. new \in Nat /\ new >= f.start /\ new # f.ret /\ new \in f.start .. Len(q) /\ cu < new
  BY <1>1, <1>10
<1>17. (C = {} /\ T = {} /\ p[cu].dead) \/ (C = {t, cu} /\ T = {new} /\ ~p[cu].dead)
  OBVIOUS
<1> HIDE DEF v, n, m, B, t, new, C, T
<1>18. NewBoxes(p, q, bt, f, C, T)
  <2>1. BlockFlow(q, bt, new)
    BY <1>10, <1>14 DEF BlockFlow
  <2>2. ~p[cu].dead => BlockFlow(q, bt, t) /\ BlockFlow(q, bt, cu)
    <3>1. ~p[cu].dead => bt[t] \subseteq v /\ bt[cu] \subseteq v
      BY <1>1, <1>5, <1>7, <1>8, <1>9, <1>11 DEF v
    <3>2. QED
      BY <1>10, <1>11, <1>13, <3>1 DEF BlockFlow
  <2>3. \A b \in DOMAIN q : b \in C \/ b \notin DOMAIN p => b = new \/ (b \in C /\ ~p[cu].dead /\ b \in {t, cu})
    BY <1>9, <1>10, <1>17
  <2>4. \A b \in DOMAIN q : b \in C \/ b \notin DOMAIN p => BlockFlow(q, bt, b)
    BY <2>1, <2>2, <2>3
  <2>5. \A b \in DOMAIN q : b \in C \/ b \notin DOMAIN p => \A x \in {q[b].next, q[b].branch} : x = None \/ x \in T
    BY <1>13, <1>14, <1>17, <2>3
  <2>6. QED
    BY <1>9, <1>16, <2>4, <2>5 DEF NewBoxes
<1>19. \A j \in 1 .. m : \A x \in Held(f.ifs[j]) : x \in Nat /\ x < new /\ x < cu /\ f.start <= x /\ x \notin C
  <2>1. ASSUME NEW j \in 1 .. m, NEW x \in Held(f.ifs[j])
        PROVE  x \in Nat /\ x < new /\ x < cu /\ f.start <= x /\ x \notin C
    <3>1. x \in Nat /\ x < cu /\ f.start <= x /\ x < t
      BY <1>4
    <3>2. x \notin {t, cu} /\ x < new
      BY <1>1, <1>4, <1>16, <3>1
    <3>3. QED
      BY <1>9, <3>1, <3>2
  <2>2. QED
    BY <2>1
<1>20. Narrow(f, pa, m, v)
  <2>1. Aside(i) = i.end
    BY <1>0 DEF Aside
  <2>2. QED
    BY <1>4, <2>1 DEF v
<1>21. CurOK(q, bt, g, new, v)
  <2>1. CASE p[cu].dead
    BY <1>5, <1>7, <1>9, <1>14, <2>1 DEF CurOK, v
  <2>2. CASE ~p[cu].dead
    <3>1. \A x \in DOMAIN g.store : g.store[x] = f.store[x]
      BY <1>2 DEF KeepsIfs
    <3>2. Agrees(p[cu].view, g.store, i.names, pa) /\ Agrees(p[t].view, g.store, i.names, i.end)
      BY <1>2, <1>4, <1>5, <1>7, <1>9, <2>2, <3>1, AgreesLess
    <3>3. Agrees(q[new].view, g.store, i.names, i.end \cup pa)
      BY <1>5, <1>13, <2>2, <3>2, JoinedAgrees
    <3>4. Agrees(q[new].view, g.store, i.names, v)
      <4>1. i.end \cup pa = v
        BY DEF v
      <4>2. QED
        BY <3>3, <4>1
    <3>5. QED
      BY <1>2, <1>11, <1>13, <1>14, <2>2, <3>4 DEF CurOK, Idle
  <2>3. QED
    BY <2>1, <2>2
<1>22. LastIf(q, bt, f, g, m, pa, new, v)
  BY <1>2, <1>4 DEF LastIf
<1>23. ASSUME NEW b \in DOMAIN q, b \in T \/ (b \in DOMAIN p /\ Ready(p, b, OpenIn(f, cu)))
       PROVE  Ready(q, b, OpenIn(g, new))
  <2>1. new \in OpenIn(g, new)
    BY <1>2, OpenIs
  <2>2. CASE b = new
    <3>1. ~p[cu].dead
      BY <1>10, <1>17, <1>23, <2>2
    <3>2. QED
      BY <1>13, <1>14, <2>1, <2>2, <3>1 DEF Ready
  <2>3. CASE b # new /\ b \in C
    <3>1. ~p[cu].dead /\ b \in {t, cu}
      BY <1>17, <2>3
    <3>2. QED
      BY <1>10, <1>13, <3>1 DEF Ready
  <2>4. CASE b # new /\ b \notin C
    <3>1. b \in DOMAIN p /\ Ready(p, b, OpenIn(f, cu)) /\ q[b] = p[b]
      BY <1>9, <1>12, <1>23, <2>4
    <3>2. ASSUME b \in OpenIn(f, cu), p[b].next = None PROVE b \in OpenIn(g, new)
      <4>1. b = cu \/ (\E l \in m + 1 .. Len(f.ifs) : b \in Held(f.ifs[l])) \/ b \in OpenIn(g, new)
        BY <1>2, <3>2, OpenIs
      <4>2. \A l \in m + 1 .. Len(f.ifs) : l = n
        BY <1>4 DEF n, m
      <4>3. ~p[b].dead
        BY <3>1, <3>2 DEF Ready
      <4>4. b # cu /\ b # t
        BY <1>9, <1>17, <2>4, <4>3
      <4>5. b # B
        BY <1>4, <3>2
      <4>6. \A l \in m + 1 .. Len(f.ifs) : b \notin Held(f.ifs[l])
        BY <1>2, <1>4, <4>2, <4>4, <4>5
      <4>7. QED
        BY <4>1, <4>4, <4>6
    <3>3. QED
      BY <3>1, <3>2 DEF Ready
  <2>5. QED
    BY <2>2, <2>3, <2>4
<1>24. Top(q, bt, fr2, new, v, g)
  BY <1>2, <1>15, <1>16, <1>18, <1>19, <1>20, <1>21, <1>22, <1>23, StepSound
<1>25. QED
  BY <1>24 DEF v, new

(***************************************************************************)
(* Returns and calls, in the picture.                                      *)
(***************************************************************************)

\* A return in the function on top: cu leads to where the function ends.
LEMMA ReturnSound ==
  ASSUME NEW p, NEW at, NEW fr, NEW cu, NEW pa, NEW f, Top(p, at, fr, cu, pa, f), ~p[cu].dead,
         NEW g \in Frames, NEW e, Alike(f, g), g.ifs = f.ifs, g.store = f.store, g.result = f.result \cup (pa \cap e),
         NEW fr2, Upto(fr, fr2, Len(fr), g), NEW ws, ws \cap pa = e \cap pa,
         NEW q, Pic(q), Len(q) = Len(p), \A b \in DOMAIN p : b # cu => q[b] = p[b],
         IsBox(q[cu], f.ret, p[cu].branch, TRUE, p[cu].when, Rebound(p[cu].view, Ret, ws))
  PROVE  Top(q, at, fr2, cu, {}, g)
<1>1. /\ f \in Frames /\ FrameOK(p, at, f, cu, pa) /\ FlowOK(p, at)
      /\ \A b \in DOMAIN p : b >= f.start =>
           (p[b].next # None => p[b].next >= f.start) /\ (p[b].branch # None => p[b].branch >= f.start)
      /\ f.start \in 1 .. Len(p) /\ f.ret = f.start + 1 /\ f.ret \in 1 .. Len(p)
      /\ cu \in f.start .. Len(p) /\ cu \in 1 .. Len(p) /\ cu # f.ret
      /\ DOMAIN p = 1 .. Len(p) /\ Len(p) \in Nat
  BY TopIs
<1>2. DOMAIN q = DOMAIN p /\ Len(q) \in Nat /\ Pic(p) /\ Len(p) <= Len(q)
  BY <1>1 DEF Pic, Top
<1>3. /\ CurOK(p, at, f, cu, pa) /\ ReturnedOK(p, at, f, pa) /\ ChainOK(f, cu) /\ EndOK(p, at, f)
      /\ HereOK(f, pa) /\ ApartOK(f, pa, f.result) /\ IdsOK(p, f, cu)
  BY <1>1 DEF FrameOK
<1>4. Idle(p[cu]) /\ at[cu] \subseteq pa
  BY <1>3 DEF CurOK
<1>5. /\ q[cu].next = f.ret /\ q[cu].branch = None /\ q[cu].dead /\ q[cu].when = {}
      /\ q[cu].view = Rebound(p[cu].view, Ret, ws)
  BY <1>1, <1>4 DEF IsBox, Idle, FlowOK
<1>6. Idle(p[f.ret]) /\ at[f.ret] = f.here /\ pa \subseteq f.here
  BY <1>3 DEF EndOK, HereOK
<1>7. f.ret # None /\ g.start = f.start /\ g.ret = f.ret
  BY <1>1 DEF None, Alike
<1>8. \A j \in DOMAIN f.ifs : pa \cap Aside(f.ifs[j]) = {}
  BY <1>1, AsideApart
<1> DEFINE m == Len(f.ifs)
<1>9. KeepsIfs(f, g, m) /\ m \in Nat /\ Len(g.ifs) # m + 1
  <2>1. m \in Nat /\ DOMAIN f.ifs = 1 .. m
    BY <1>1, FrameFields
  <2>2. \A j \in 1 .. m : f.ifs[j].names \subseteq DOMAIN g.store
    BY <1>3, <2>1 DEF ChainOK
  <2>3. m \in 0 .. Len(f.ifs) /\ Len(g.ifs) \in {m, m + 1} /\ Len(g.ifs) # m + 1
    BY <2>1
  <2>4. QED
    BY <1>1, <2>1, <2>2, <2>3 DEF KeepsIfs
<1>10. KeepsBlocks(p, q, at, at, f, m, cu)
  <2>1. ASSUME NEW j \in 1 .. m, NEW x \in Held(f.ifs[j]) PROVE q[x] = p[x] /\ x < cu
    <3>1. j \in DOMAIN f.ifs
      BY <1>1, FrameFields
    <3>2. f.start <= x /\ x < cu /\ x \in Nat
      BY <1>1, <1>3, <3>1, FrameFields, IfFields DEF ChainOK
    <3>3. x \in DOMAIN p /\ x # cu
      BY <1>1, <3>2
    <3>4. QED
      BY <3>2, <3>3
  <2>2. q[f.ret] = p[f.ret]
    BY <1>1
  <2> HIDE DEF m
  <2>3. QED
    BY <2>1, <2>2 DEF KeepsBlocks
<1>11. Narrow(f, pa, m, {}) /\ LastIf(q, at, f, g, m, pa, cu, {})
  <2> HIDE DEF m
  <2>1. QED
    BY <1>9 DEF Narrow, LastIf
<1>12. CurOK(q, at, g, cu, {})
  BY <1>5 DEF CurOK
<1>13. IdsOK(q, g, cu)
  BY <1>3, <1>7 DEF IdsOK
<1>14. ApartOK(g, {}, g.result)
  BY <1>3, <1>8 DEF ApartOK
<1>15. ReturnedOK(q, at, g, {})
  <2> SUFFICES ASSUME NEW b \in DOMAIN q
               PROVE  /\ q[b].branch # f.ret
                      /\ q[b].next = f.ret =>
                           /\ q[b].dead /\ q[b].branch = None
                           /\ Ret \in DOMAIN q[b].view /\ q[b].view[Ret] \cap at[b] = g.result \cap at[b]
                           /\ ApartOK(g, {}, at[b])
    BY <1>7 DEF ReturnedOK
  <2>1. CASE b = cu
    <3>1. Ret \in DOMAIN q[cu].view /\ q[cu].view[Ret] = ws
      BY <1>5 DEF Rebound
    <3>2. ws \cap at[cu] = g.result \cap at[cu]
      BY <1>3, <1>4 DEF ApartOK
    <3>3. ApartOK(g, {}, at[cu])
      BY <1>4, <1>8 DEF ApartOK
    <3>4. QED
      BY <1>5, <1>7, <2>1, <3>1, <3>2, <3>3
  <2>2. CASE b # cu
    <3>1. b \in DOMAIN p /\ q[b] = p[b]
      BY <1>2, <2>2
    <3>2. /\ p[b].branch # f.ret
          /\ p[b].next = f.ret =>
               /\ p[b].dead /\ p[b].branch = None
               /\ Ret \in DOMAIN p[b].view /\ p[b].view[Ret] \cap at[b] = f.result \cap at[b]
               /\ ApartOK(f, pa, at[b])
      BY <1>3, <3>1 DEF ReturnedOK
    <3>3. ApartOK(f, pa, at[b]) => pa \cap at[b] = {} /\ ApartOK(g, {}, at[b])
      BY DEF ApartOK
    <3>4. pa \cap at[b] = {} => g.result \cap at[b] = f.result \cap at[b]
      OBVIOUS
    <3>5. QED
      BY <3>1, <3>2, <3>3, <3>4
  <2>3. QED
    BY <2>1, <2>2
<1> HIDE DEF m
<1>16. FrameOK(q, at, g, cu, {})
  BY <1>1, <1>9, <1>10, <1>11, <1>12, <1>13, <1>14, <1>15, Reframe
<1>17. FlowOK(q, at)
  <2> SUFFICES ASSUME NEW b \in DOMAIN q
               PROVE  /\ q[b].next \in 0 .. Len(q) /\ q[b].branch \in 0 .. Len(q)
                      /\ q[b].branch = None => q[b].when = {}
                      /\ q[b].branch # None => at[b] \cap q[b].when \subseteq at[q[b].branch]
                      /\ q[b].next # None => at[b] \ q[b].when \subseteq at[q[b].next]
    BY DEF FlowOK
  <2>1. CASE b = cu
    <3>1. q[cu].next \in 0 .. Len(q) /\ q[cu].branch \in 0 .. Len(q)
      BY <1>1, <1>2, <1>5 DEF None
    <3>2. QED
      BY <1>4, <1>5, <1>6, <2>1, <3>1
  <2>2. CASE b # cu
    <3>1. b \in DOMAIN p /\ q[b] = p[b]
      BY <1>2, <2>2
    <3>2. QED
      BY <1>1, <3>1 DEF FlowOK
  <2>3. QED
    BY <2>1, <2>2
<1>18. Low(p, q, at, at, g.start)
  <2>1. g.start \in 1 .. Len(p) + 1
    BY <1>1, <1>7
  <2>2. \A b \in 1 .. g.start - 1 : q[b] = p[b]
    BY <1>1, <1>7
  <2>3. ASSUME NEW b \in DOMAIN q, b >= g.start
        PROVE  (q[b].next # None => q[b].next >= g.start) /\ (q[b].branch # None => q[b].branch >= g.start)
    <3>1. CASE b = cu
      BY <1>1, <1>5, <1>7, <3>1
    <3>2. CASE b # cu
      BY <1>1, <1>2, <1>7, <2>3, <3>2
    <3>3. QED
      BY <3>1, <3>2
  <2>4. QED
    BY <1>2, <2>1, <2>2, <2>3 DEF Low
<1>19. TopLinks(q, fr2, g, cu)
  <2>1. EdgesFrom(p, q, {f.ret})
    <3>1. ASSUME NEW c \in DOMAIN q, NEW b \in {q[c].next, q[c].branch}
          PROVE  b = None \/ b \in {f.ret} \/ (c \in DOMAIN p /\ b \in {p[c].next, p[c].branch})
      <4>1. CASE c = cu
        BY <1>5, <4>1
      <4>2. CASE c # cu
        BY <1>2, <4>2
      <4>3. QED
        BY <4>1, <4>2
    <3>2. QED
      BY <3>1 DEF EdgesFrom
  <2>2. OpenIn(g, cu) = OpenIn(f, cu) /\ f.ret \in OpenIn(g, cu)
    BY <1>7 DEF OpenIn
  <2>3. ASSUME NEW b \in DOMAIN q, b \in {f.ret} \/ (b \in DOMAIN p /\ Ready(p, b, OpenIn(f, cu)))
        PROVE  Ready(q, b, OpenIn(g, cu))
    <3>1. CASE b = f.ret
      BY <1>1, <1>6, <2>2, <3>1 DEF Ready, Idle
    <3>2. CASE b = cu
      BY <1>5, <1>7, <3>2 DEF Ready
    <3>3. CASE b # f.ret /\ b # cu
      BY <1>2, <2>2, <2>3, <3>3 DEF Ready
    <3>4. QED
      BY <3>1, <3>2, <3>3
  <2>4. QED
    BY <2>1, <2>3, OpensKept
<1>20. QED
  BY <1>16, <1>17, <1>18, <1>19, LiftTop

\* The blocks of a call: the one the caller goes on in, and those where the
\* function starts and ends.
Called(p, q, at, bt, cu, pa, store) ==
  /\ Pic(p) /\ Pic(q) /\ Len(q) = Len(p) + 3
  /\ \A b \in DOMAIN p : q[b] = p[b] /\ bt[b] = at[b]
  /\ \A b \in Len(p) + 1 .. Len(p) + 3 : Idle(q[b]) /\ q[b].when = {} /\ bt[b] = pa
  /\ Agrees(q[Len(p) + 2].view, store, DOMAIN store, pa) /\ DOMAIN q[Len(p) + 3].view = {}
FrameMade(p, F, pa) ==
  /\ F.start = Len(p) + 2 /\ F.ret = Len(p) + 3 /\ F.caller = Len(p) + 1 /\ F.ifs = <<>> /\ F.result = {}
  /\ F.here = pa

\* The function that is called starts and ends in blocks of its own.
LEMMA CallFrame ==
  ASSUME NEW p, NEW at, NEW cu, NEW pa, NEW q, NEW bt, NEW F \in Frames, Called(p, q, at, bt, cu, pa, F.store),
         FlowOK(p, at), FrameMade(p, F, pa)
  PROVE  FlowOK(q, bt) /\ FrameOK(q, bt, F, Len(p) + 2, pa)
<1>0. F.start = Len(p) + 2 /\ F.ret = Len(p) + 3 /\ F.ifs = <<>> /\ F.result = {} /\ F.here = pa
  BY DEF FrameMade
<1>1. /\ DOMAIN p = 1 .. Len(p) /\ Len(p) \in Nat /\ DOMAIN q = 1 .. Len(q) /\ Len(q) = Len(p) + 3
      /\ \A b \in DOMAIN p : q[b] = p[b] /\ bt[b] = at[b]
      /\ \A b \in Len(p) + 1 .. Len(p) + 3 : Idle(q[b]) /\ q[b].when = {} /\ bt[b] = pa
      /\ Agrees(q[Len(p) + 2].view, F.store, DOMAIN F.store, pa) /\ DOMAIN q[Len(p) + 3].view = {}
  BY DEF Called, Pic
<1>2. \A b \in DOMAIN q : b \in DOMAIN p \/ b \in Len(p) + 1 .. Len(p) + 3
  BY <1>0, <1>1
<1>3. /\ \A b \in DOMAIN p : p[b].next \in 0 .. Len(p) /\ p[b].branch \in 0 .. Len(p)
      /\ \A b \in Len(p) + 1 .. Len(p) + 3 : q[b].next = None /\ q[b].branch = None /\ ~q[b].dead
  BY <1>0, <1>1 DEF FlowOK, Idle
<1>4. FlowOK(q, bt)
  <2> SUFFICES ASSUME NEW b \in DOMAIN q
               PROVE  /\ q[b].next \in 0 .. Len(q) /\ q[b].branch \in 0 .. Len(q)
                      /\ q[b].branch = None => q[b].when = {}
                      /\ q[b].branch # None => bt[b] \cap q[b].when \subseteq bt[q[b].branch]
                      /\ q[b].next # None => bt[b] \ q[b].when \subseteq bt[q[b].next]
    BY DEF FlowOK
  <2>1. CASE b \in DOMAIN p
    <3>1. /\ p[b].next \in 0 .. Len(q) /\ p[b].branch \in 0 .. Len(q)
          /\ p[b].next # None => p[b].next \in DOMAIN p
          /\ p[b].branch # None => p[b].branch \in DOMAIN p
      BY <1>0, <1>1, <1>3, <2>1 DEF None
    <3>2. /\ p[b].branch = None => p[b].when = {}
          /\ p[b].branch # None => at[b] \cap p[b].when \subseteq at[p[b].branch]
          /\ p[b].next # None => at[b] \ p[b].when \subseteq at[p[b].next]
      BY <2>1 DEF FlowOK
    <3>3. QED
      BY <1>0, <1>1, <2>1, <3>1, <3>2
  <2>2. CASE b \in Len(p) + 1 .. Len(p) + 3
    BY <1>0, <1>1, <1>3, <2>2 DEF None
  <2>3. QED
    BY <1>2, <2>1, <2>2
<1>5. DOMAIN F.ifs = {} /\ F.start \in Len(p) + 1 .. Len(p) + 3 /\ F.ret \in Len(p) + 1 .. Len(p) + 3 /\ F.ret # None
  BY <1>0, <1>1 DEF None
<1>6. IdsOK(q, F, F.start)
  BY <1>0, <1>1 DEF IdsOK
<1>7. ChainOK(F, F.start) /\ SidesOK(q, F, pa) /\ HereOK(F, pa) /\ ApartOK(F, pa, F.result)
  BY <1>0, <1>5 DEF ChainOK, SidesOK, HereOK, ApartOK
<1>8. EndOK(q, bt, F)
  BY <1>0, <1>1, <1>5 DEF EndOK
<1>9. CurOK(q, bt, F, F.start, pa)
  BY <1>0, <1>1, <1>5 DEF CurOK, Idle
<1>10. ReturnedOK(q, bt, F, pa)
  <2>1. \A b \in DOMAIN q : q[b].branch # F.ret /\ q[b].next # F.ret
    BY <1>0, <1>1, <1>2, <1>3, <1>5
  <2>2. QED
    BY <2>1 DEF ReturnedOK
<1>11. QED
  BY <1>0, <1>4, <1>5, <1>6, <1>7, <1>8, <1>9, <1>10 DEF FrameOK

\* A call: the blocks of the function follow those there are.
LEMMA CallSound ==
  ASSUME NEW p, NEW at, NEW fr, NEW cu, NEW pa, NEW f, Top(p, at, fr, cu, pa, f), ~p[cu].dead,
         NEW F \in Frames, NEW q, NEW bt, Called(p, q, at, bt, cu, pa, F.store),
         FrameMade(p, F, pa),
         F.target \in [name : Targets, block : Nat], F.target.block = cu
  PROVE  Top(q, bt, Append(fr, F), Len(p) + 2, pa, F)
<1> DEFINE K == Len(fr)
           n == Len(p)
           fr2 == Append(fr, F)
<1>0. F.start = n + 2 /\ F.ret = n + 3 /\ F.caller = n + 1 /\ F.here = pa
  BY DEF FrameMade
<1>1. /\ fr \in Seq(Frames) /\ Pic(p) /\ Sound(p, at, fr, cu, pa) /\ K \in DOMAIN fr /\ f = fr[K]
  BY DEF Top
<1>2. /\ K \in Nat /\ K >= 1 /\ DOMAIN fr = 1 .. K /\ fr2 \in Seq(Frames) /\ Len(fr2) = K + 1 /\ DOMAIN fr2 = 1 .. K + 1
      /\ fr2[K + 1] = F /\ \A k \in 1 .. K : fr2[k] = fr[k] /\ fr[k] \in Frames
  BY <1>1
<1>3. /\ FlowOK(p, at) /\ ClosedOK(p, fr) /\ LinksOK(p, fr, cu) /\ StackOK(p, at, fr, cu)
      /\ \A k \in DOMAIN fr : FrameOK(p, at, fr[k], CurOf(fr, cu, k), PathOf(fr, pa, k))
  BY <1>1 DEF Sound
<1>4. cu \in 1 .. n /\ n \in Nat /\ DOMAIN p = 1 .. n
  BY TopIs
<1>5. /\ DOMAIN q = 1 .. n + 3 /\ Len(q) = n + 3 /\ Pic(q)
      /\ \A b \in DOMAIN p : q[b] = p[b] /\ bt[b] = at[b]
      /\ \A b \in n + 1 .. n + 3 : Idle(q[b]) /\ q[b].when = {} /\ bt[b] = pa
  BY DEF Called, Pic
<1>6. FlowOK(q, bt) /\ FrameOK(q, bt, F, n + 2, pa)
  <2>1. FlowOK(p, at)
    BY <1>3
  <2> HIDE DEF K, n, fr2
  <2>2. FlowOK(q, bt) /\ FrameOK(q, bt, F, Len(p) + 2, pa)
    BY <2>1, CallFrame
  <2>3. QED
    BY <2>2 DEF n
<1>7. \A b \in n + 1 .. n + 3 : q[b].next = None /\ q[b].branch = None /\ ~q[b].dead
  BY <1>5 DEF Idle
<1>8. \A b \in DOMAIN q : b \in 1 .. n \/ b \in n + 1 .. n + 3
  BY <1>4, <1>5
<1>9. \A k \in 1 .. K : CurOf(fr2, n + 2, k) = CurOf(fr, cu, k) /\ PathOf(fr2, pa, k) = PathOf(fr, pa, k)
  <2> TAKE k \in 1 .. K
  <2>1. K \in Nat
    BY <1>2
  <2>2. k # K + 1 /\ (k # K => k + 1 \in 1 .. K)
    <3> HIDE DEF K
    <3>1. QED
      BY <2>1
  <2>3. QED
    BY <1>0, <1>2, <2>2, Zenon DEF CurOf, PathOf
<1>10. CurOf(fr2, n + 2, K + 1) = n + 2 /\ PathOf(fr2, pa, K + 1) = pa
  BY <1>2 DEF CurOf, PathOf
<1>11. \A k \in 1 .. K : Stacked(fr, cu, k, n)
  BY <1>1, <1>2, StackedIs
<1>12. \A k \in 1 .. K : /\ fr[k].start \in 1 .. n /\ fr[k].ret = fr[k].start + 1 /\ fr[k].ret <= n
                         /\ CurOf(fr, cu, k) \in 1 .. n
  <2> TAKE k \in 1 .. K
  <2>1. fr[k].start \in 1 .. n /\ fr[k].ret = fr[k].start + 1 /\ fr[k].ret <= n /\ CurOf(fr, cu, k) \in fr[k].start .. n
    BY <1>11 DEF Stacked
  <2>2. QED
    BY <1>4, <2>1
<1>13. Low(p, q, at, bt, n + 1)
  <2>1. \A b \in 1 .. n + 1 - 1 : q[b] = p[b] /\ bt[b] = at[b]
    BY <1>4, <1>5
  <2>2. \A b \in DOMAIN q : b >= n + 1 => q[b].next = None /\ q[b].branch = None
    BY <1>4, <1>5, <1>7, <1>8
  <2>3. QED
    BY <1>1, <1>4, <1>5, <2>1, <2>2 DEF Low
<1> HIDE DEF fr2, n, K
<1>14. \A k \in DOMAIN fr2 : FrameOK(q, bt, fr2[k], CurOf(fr2, n + 2, k), PathOf(fr2, pa, k))
  <2> TAKE k \in DOMAIN fr2
  <2>1. CASE k \in 1 .. K
    <3>1. FrameOK(p, at, fr[k], CurOf(fr, cu, k), PathOf(fr, pa, k)) /\ fr[k] \in Frames
      BY <1>2, <1>3, <2>1
    <3>2. fr[k].ret < n + 1 /\ CurOf(fr, cu, k) < n + 1
      BY <1>4, <1>12, <2>1
    <3>3. FrameOK(q, bt, fr[k], CurOf(fr, cu, k), PathOf(fr, pa, k))
      BY <1>13, <3>1, <3>2, FrameKept
    <3>4. QED
      BY <1>2, <1>9, <2>1, <3>3
  <2>2. CASE k \notin 1 .. K
    <3>1. k = K + 1 /\ F.start = n + 2
      BY <1>0, <1>2, <2>2
    <3>2. QED
      BY <1>2, <1>6, <1>10, <3>1
  <2>3. QED
    BY <2>1, <2>2
<1>15. ClosedOK(q, fr2)
  <2> SUFFICES ASSUME NEW k \in DOMAIN fr2, NEW b \in DOMAIN q, b >= fr2[k].start
               PROVE  /\ q[b].next # None => q[b].next >= fr2[k].start
                      /\ q[b].branch # None => q[b].branch >= fr2[k].start
    BY DEF ClosedOK
  <2>1. CASE b \in n + 1 .. n + 3
    BY <1>7, <2>1
  <2>2. CASE b \in 1 .. n
    <3>1. k \in 1 .. K
      <4>1. ~ b >= n + 2
        BY <1>4, <2>2
      <4>2. k # K + 1
        BY <1>0, <1>2, <4>1
      <4>3. QED
        BY <1>2, <4>2
    <3>2. fr2[k] = fr[k] /\ k \in DOMAIN fr /\ b \in DOMAIN p /\ q[b] = p[b]
      BY <1>2, <1>4, <1>5, <2>2, <3>1
    <3>3. QED
      BY <1>3, <3>2 DEF ClosedOK
  <2>3. QED
    BY <1>8, <2>1, <2>2
<1>16. LinksOK(q, fr2, n + 2)
  <2> SUFFICES ASSUME NEW b \in DOMAIN q, Linked(q, fr2, b)
               PROVE  /\ q[b].dead => q[b].next # None
                      /\ q[b].next = None => \E k \in DOMAIN fr2 : b \in OpenIn(fr2[k], CurOf(fr2, n + 2, k))
    BY DEF LinksOK
  <2>1. CASE b = n + 2
    <3>1. ~q[b].dead
      BY <1>4, <1>7, <2>1
    <3>2. b \in OpenIn(fr2[K + 1], CurOf(fr2, n + 2, K + 1)) /\ K + 1 \in DOMAIN fr2
      BY <1>2, <1>10, <2>1 DEF OpenIn
    <3>3. QED
      BY <3>1, <3>2
  <2>2. CASE b # n + 2
    <3>1. Linked(p, fr, b) /\ b \in DOMAIN p
      <4>1. CASE \E k \in DOMAIN fr2 : b = fr2[k].start
        <5>1. PICK k \in DOMAIN fr2 : b = fr2[k].start
          BY <4>1
        <5>2. k # K + 1
          BY <1>0, <1>2, <2>2, <5>1
        <5>3. k \in 1 .. K
          BY <1>2, <5>2
        <5>4. QED
          BY <1>2, <1>4, <1>12, <5>1, <5>3 DEF Linked
      <4>2. CASE \E c \in DOMAIN q : b \in {q[c].next, q[c].branch}
        <5>1. PICK c \in DOMAIN q : b \in {q[c].next, q[c].branch}
          BY <4>2
        <5>2. b # None
          BY <1>5 DEF None
        <5>3. c \in DOMAIN p /\ q[c] = p[c]
          BY <1>4, <1>5, <1>7, <1>8, <5>1, <5>2
        <5>4. p[c].next \in 0 .. n /\ p[c].branch \in 0 .. n
          BY <1>3, <5>3 DEF FlowOK, n
        <5>5. b \in 1 .. n
          BY <1>4, <5>1, <5>2, <5>3, <5>4 DEF None
        <5>6. QED
          BY <1>4, <5>1, <5>3, <5>5 DEF Linked
      <4>3. QED
        BY <4>1, <4>2 DEF Linked
    <3>2. q[b] = p[b]
      BY <1>5, <3>1
    <3>3. /\ p[b].dead => p[b].next # None
          /\ p[b].next = None => \E k \in DOMAIN fr : b \in OpenIn(fr[k], CurOf(fr, cu, k))
      BY <1>3, <3>1 DEF LinksOK
    <3>4. \A k \in DOMAIN fr : k \in DOMAIN fr2 /\ OpenIn(fr2[k], CurOf(fr2, n + 2, k)) = OpenIn(fr[k], CurOf(fr, cu, k))
      BY <1>2, <1>9
    <3>5. QED
      BY <3>2, <3>3, <3>4
  <2>3. QED
    BY <2>1, <2>2
<1>17. StackOK(q, bt, fr2, n + 2)
  <2>1. fr2 # <<>> /\ fr2[1].start = 1 /\ fr2[1].here = World
    <3>1. fr[1].start = 1 /\ fr[1].here = World
      BY <1>3 DEF StackOK
    <3>2. 1 \in 1 .. K /\ fr2 # <<>>
      BY <1>2
    <3>3. QED
      BY <1>2, <3>1, <3>2
  <2>2. ASSUME NEW k \in DOMAIN fr2, k > 1
        PROVE  /\ fr2[k].caller = fr2[k].start - 1
               /\ fr2[k].target \in [name : Targets, block : Nat]
               /\ \A l \in DOMAIN fr2 : l < k => fr2[l].ret < fr2[k].caller
               /\ fr2[k].target.block < fr2[k].caller
               /\ Idle(q[fr2[k].caller]) /\ bt[fr2[k].caller] = fr2[k].here
               /\ ~q[fr2[k].target.block].dead
    <3>1. CASE k = K + 1
      <4>1. fr2[k] = F /\ F.caller = n + 1 /\ F.start = n + 2 /\ F.here = pa
        BY <1>0, <1>2, <3>1
      <4>2. \A l \in DOMAIN fr2 : l < k => l \in 1 .. K
        BY <1>2, <3>1
      <4>3. ASSUME NEW l \in DOMAIN fr2, l < k PROVE fr2[l].ret < n + 1
        <5>1. l \in 1 .. K /\ fr2[l] = fr[l]
          BY <1>2, <4>2, <4>3
        <5>2. fr[l].start \in 1 .. n /\ fr[l].ret = fr[l].start + 1 /\ fr[l].ret <= n
          BY <1>12, <5>1
        <5>3. QED
          BY <1>4, <5>1, <5>2
      <4>4. n + 1 \in n + 1 .. n + 3
        BY <1>4
      <4>5. Idle(q[n + 1]) /\ bt[n + 1] = pa
        BY <1>5, <4>4
      <4>6. ~q[cu].dead
        BY <1>4, <1>5
      <4>7. n + 1 = n + 2 - 1 /\ cu < n + 1
        BY <1>4
      <4>8. /\ F.caller = F.start - 1 /\ F.target \in [name : Targets, block : Nat]
            /\ \A l \in DOMAIN fr2 : l < k => fr2[l].ret < F.caller
            /\ F.target.block < F.caller /\ Idle(q[F.caller]) /\ bt[F.caller] = F.here /\ ~q[F.target.block].dead
        <5>1. F.caller = F.start - 1
          BY <1>4, <4>1, <4>7
        <5>2. \A l \in DOMAIN fr2 : l < k => fr2[l].ret < F.caller
          BY <4>1, <4>3
        <5>3. Idle(q[F.caller])
          BY <4>1, <4>5
        <5>4. bt[F.caller] = F.here
          BY <4>1, <4>5
        <5>5. F.target.block < F.caller /\ ~q[F.target.block].dead
          BY <4>1, <4>6, <4>7
        <5>6. QED
          BY <5>1, <5>2, <5>3, <5>4, <5>5
      <4>9. QED
        BY <4>1, <4>8
    <3>2. CASE k # K + 1
      <4>1. k \in 1 .. K /\ fr2[k] = fr[k] /\ k - 1 \in 1 .. K /\ k - 1 # K /\ k - 1 + 1 = k /\ k - 1 < k
        BY <1>2, <2>2, <3>2
      <4>2. \A l \in DOMAIN fr2 : l < k => l \in DOMAIN fr /\ fr2[l] = fr[l]
        BY <1>2, <4>1
      <4>3. /\ fr[k].caller = fr[k].start - 1
            /\ fr[k].target \in [name : Targets, block : Nat]
            /\ \A l \in DOMAIN fr : l < k => fr[l].ret < fr[k].caller
            /\ fr[k].target.block < fr[k].caller
            /\ Idle(p[fr[k].caller]) /\ at[fr[k].caller] = fr[k].here
            /\ ~p[fr[k].target.block].dead
        BY <1>2, <1>3, <2>2, <4>1 DEF StackOK
      <4>4. CurOf(fr, cu, k - 1) = fr[k].target.block
        BY <4>1 DEF CurOf, K
      <4>5. fr[k].target.block \in 1 .. n
        BY <1>12, <4>1, <4>4
      <4>6. fr[k].caller \in 1 .. n
        <5>1. fr[k - 1].ret < fr[k].caller
          BY <1>2, <4>1, <4>3
        <5>2. fr[k - 1].start \in 1 .. n /\ fr[k - 1].ret = fr[k - 1].start + 1
          BY <1>12, <4>1
        <5>3. fr[k].start \in 1 .. n /\ fr[k].caller = fr[k].start - 1
          BY <1>12, <4>1, <4>3
        <5>4. QED
          BY <1>4, <5>1, <5>2, <5>3
      <4>7. QED
        BY <1>4, <1>5, <4>1, <4>2, <4>3, <4>5, <4>6
    <3>3. QED
      BY <3>1, <3>2
  <2>3. QED
    BY <2>1, <2>2 DEF StackOK
<1>18. Sound(q, bt, fr2, n + 2, pa)
  BY <1>6, <1>14, <1>15, <1>16, <1>17 DEF Sound
<1>19. QED
  <2>1. Len(fr2) \in DOMAIN fr2 /\ F = fr2[Len(fr2)]
    BY <1>2
  <2>2. QED
    BY <1>2, <1>5, <1>18, <2>1 DEF Top, fr2, n

\* The open blocks of a function come before those of the ones above it.
LEMMA OpenBelow ==
  ASSUME NEW p, NEW at, NEW fr \in Seq(Frames), NEW cu, NEW pa, Sound(p, at, fr, cu, pa), Pic(p),
         NEW k \in DOMAIN fr, NEW l \in DOMAIN fr, k < l, NEW b \in OpenIn(fr[k], CurOf(fr, cu, k))
  PROVE  b < fr[l].start /\ b \in Nat
<1> DEFINE f == fr[k]
           c == CurOf(fr, cu, k)
<1>1. f.ret < fr[l].start /\ c < fr[l].start /\ f \in Frames /\ fr[l] \in Frames
  <2>1. fr[k].ret < fr[l].start /\ CurOf(fr, cu, k) < fr[l].start
    BY StackedIs
  <2>2. fr[k] \in Frames /\ fr[l] \in Frames
    OBVIOUS
  <2>3. QED
    BY <2>1, <2>2
<1>2. ChainOK(f, c) /\ c \in f.start .. Len(p) /\ f.ret = f.start + 1 /\ f.start \in Nat /\ Len(p) \in Nat
  BY <1>1, FrameFields DEF Sound, FrameOK, IdsOK, Pic
<1>3. b \in OpenIn(f, c) /\ fr[l].start \in Nat /\ c \in Nat /\ f.ret \in Nat
  BY <1>1, <1>2, FrameFields
<1> HIDE DEF f, c
<1>4. CASE b \in {f.ret, c}
  BY <1>1, <1>3, <1>4
<1>5. CASE b \notin {f.ret, c}
  <2>1. PICK j \in DOMAIN f.ifs : b \in Held(f.ifs[j])
    BY <1>3, <1>5 DEF OpenIn
  <2>2. b < c /\ b \in Nat
    BY <1>1, <1>2, <2>1, FrameFields, IfFields DEF ChainOK
  <2>3. QED
    BY <1>1, <1>3, <2>2
<1>6. QED
  BY <1>4, <1>5

\* The picture when a call is over: the function is between the block of the
\* caller before it and that after it, which has a variable more.
Joins(p, q, f, name, ws) ==
  LET B == f.target.block
  IN /\ Pic(p) /\ Pic(q) /\ Len(q) = Len(p)
     /\ \A b \in DOMAIN p : b \notin {B, f.ret, f.caller} => q[b] = p[b]
     /\ IsBox(q[B], f.start, p[B].branch, p[B].dead, p[B].when, p[B].view)
     /\ IsBox(q[f.ret], f.caller, p[f.ret].branch, p[f.ret].dead, p[f.ret].when, p[f.ret].view)
     /\ IsBox(q[f.caller], p[f.caller].next, p[f.caller].branch, p[f.caller].dead, p[f.caller].when,
              Rebound(p[B].view, name, ws))

\* When a call is over the caller goes on, with the result in its variable.
LEMMA EndCallSound ==
  ASSUME NEW p, NEW at, NEW fr, NEW cu, NEW pa, NEW f, Top(p, at, fr, cu, pa, f), p[cu].dead, f.ifs = <<>>,
         Len(fr) > 1, NEW g, NEW name, Stored(fr[Len(fr) - 1], g, name, f.here, f.result),
         NEW fr2, Upto(fr, fr2, Len(fr) - 1, g),
         NEW ws, ws \cap at[f.start] = f.result \cap at[f.start], NEW q, Joins(p, q, f, name, ws)
  PROVE  Top(q, at, fr2, f.caller, f.here, g)
<1> DEFINE K == Len(fr)
           u == fr[K - 1]
           B == f.target.block
           d == f.caller
           here == f.here
<1>1. /\ fr \in Seq(Frames) /\ Pic(p) /\ Sound(p, at, fr, cu, pa) /\ K \in DOMAIN fr /\ f = fr[K]
  BY DEF Top
<1>2. /\ K \in Nat /\ K > 1 /\ DOMAIN fr = 1 .. K /\ K - 1 \in 1 .. K /\ K - 1 < K /\ K - 1 # K /\ K - 1 + 1 = K
      /\ u \in Frames /\ f \in Frames
  BY <1>1
<1>3. /\ FlowOK(p, at) /\ ClosedOK(p, fr) /\ LinksOK(p, fr, cu) /\ StackOK(p, at, fr, cu)
      /\ \A k \in DOMAIN fr : FrameOK(p, at, fr[k], CurOf(fr, cu, k), PathOf(fr, pa, k))
  BY <1>1 DEF Sound
<1>4. CurOf(fr, cu, K - 1) = B /\ PathOf(fr, pa, K - 1) = here
  BY <1>1, <1>2, Zenon DEF CurOf, PathOf
<1>5. FrameOK(p, at, u, B, here)
  BY <1>2, <1>3, <1>4, Zenon
<1>6. FrameOK(p, at, f, cu, pa)
  BY TopIs
<1>7. /\ d = f.start - 1 /\ u.ret < d /\ B < d /\ Idle(p[d]) /\ at[d] = here /\ ~p[B].dead
  <2>1. /\ fr[K].caller = fr[K].start - 1
        /\ \A l \in DOMAIN fr : l < K => fr[l].ret < fr[K].caller
        /\ fr[K].target.block < fr[K].caller
        /\ Idle(p[fr[K].caller]) /\ at[fr[K].caller] = fr[K].here
        /\ ~p[fr[K].target.block].dead
    <3>1. K \in DOMAIN fr /\ K > 1 /\ StackOK(p, at, fr, cu)
      BY <1>1, <1>2, <1>3, Zenon
    <3> HIDE DEF K
    <3>2. QED
      BY <3>1 DEF StackOK
  <2>2. K - 1 \in DOMAIN fr /\ K - 1 < K
    BY <1>2, Zenon
  <2>3. QED
    BY <1>1, <2>1, <2>2
<1>8. /\ u.start \in 1 .. Len(p) /\ u.ret = u.start + 1 /\ u.ret <= Len(p) /\ B \in u.start .. Len(p) /\ B # u.ret
      /\ CurOK(p, at, u, B, here) /\ ReturnedOK(p, at, u, here)
  BY <1>5 DEF FrameOK, IdsOK
<1>9. Idle(p[B]) /\ at[B] \subseteq here /\ Agrees(p[B].view, u.store, DOMAIN u.store, here)
  BY <1>7, <1>8 DEF CurOK
<1>10. /\ f.start \in 1 .. Len(p) /\ f.ret = f.start + 1 /\ f.ret <= Len(p)
       /\ Idle(p[f.ret]) /\ at[f.ret] = here /\ here \subseteq at[f.start]
  BY <1>6 DEF FrameOK, IdsOK, EndOK
<1>11. /\ DOMAIN p = 1 .. Len(p) /\ Len(p) \in Nat /\ DOMAIN q = DOMAIN p /\ Len(q) = Len(p) /\ Pic(q) /\ Pic(p)
       /\ \A b \in DOMAIN p : b \notin {B, f.ret, d} => q[b] = p[b]
       /\ IsBox(q[B], f.start, p[B].branch, p[B].dead, p[B].when, p[B].view)
       /\ IsBox(q[f.ret], d, p[f.ret].branch, p[f.ret].dead, p[f.ret].when, p[f.ret].view)
       /\ IsBox(q[d], p[d].next, p[d].branch, p[d].dead, p[d].when, Rebound(p[B].view, name, ws))
  BY DEF Joins, Pic
<1> HIDE DEF B, d, here, u, K
<1>12. /\ B \in DOMAIN p /\ d \in DOMAIN p /\ f.ret \in DOMAIN p /\ B # d /\ B # f.ret /\ d # f.ret /\ d # u.ret
       /\ f.ret # u.ret /\ f.start # u.ret /\ d < f.ret /\ B < f.ret /\ u.start <= B /\ u.start <= d /\ u.start <= f.start
       /\ u.start \in Nat /\ d \in B .. Len(q) /\ f.start \in Nat /\ B \in Nat /\ d \in Nat
       /\ u.ret # None /\ d # None /\ f.start # None /\ f.start \in DOMAIN p
  <2> DEFINE s == f.start
             r == f.ret
             us == u.start
             ur == u.ret
             n == Len(p)
  <2>1. /\ s \in 1 .. n /\ r = s + 1 /\ r <= n /\ us \in 1 .. n /\ ur = us + 1 /\ ur <= n /\ B \in us .. n
        /\ d = s - 1 /\ ur < d /\ B < d /\ B # ur /\ n \in Nat /\ DOMAIN p = 1 .. n /\ Len(q) = n
    BY <1>7, <1>8, <1>10, <1>11
  <2> HIDE DEF s, r, us, ur, n
  <2>2. s \in Nat /\ us \in Nat /\ B \in Nat /\ d \in Nat
    BY <2>1
  <2>3. /\ B \in 1 .. n /\ d \in 1 .. n /\ r \in 1 .. n /\ s \in 1 .. n /\ d \in B .. n
    BY <2>1, <2>2
  <2>4. /\ B # d /\ B # r /\ d # r /\ d # ur /\ r # ur /\ s # ur /\ d < r /\ B < r /\ us <= B /\ us <= d /\ us <= s
        /\ ur # None /\ d # None /\ s # None
    BY <2>1, <2>2 DEF None
  <2>5. QED
    BY <2>1, <2>2, <2>3, <2>4 DEF s, r, us, ur
<1>13. /\ p[B].when = {} /\ p[d].when = {} /\ p[f.ret].when = {}
       /\ \A b \in {B, d, f.ret} : p[b].branch = None /\ ~p[b].dead /\ p[b].next = None
  BY <1>3, <1>7, <1>9, <1>10, <1>12 DEF FlowOK, Idle
<1>14. /\ q[B].next = f.start /\ q[B].branch = None /\ ~q[B].dead /\ q[B].when = {}
       /\ q[f.ret].next = d /\ q[f.ret].branch = None /\ ~q[f.ret].dead /\ q[f.ret].when = {}
       /\ q[d].next = None /\ q[d].branch = None /\ ~q[d].dead /\ q[d].when = {}
       /\ q[d].view = Rebound(p[B].view, name, ws)
  BY <1>11, <1>13 DEF IsBox
<1>15. \A b \in DOMAIN q : b \in {B, f.ret, d} \/ (b \in DOMAIN p /\ q[b] = p[b])
  BY <1>11
<1>16. /\ Alike(u, g) /\ g \in Frames /\ g.start = u.start /\ g.ret = u.ret /\ g.ifs = u.ifs
       /\ g.store = Assigned(u.store, name, here, f.result)
  BY DEF Stored, Alike, u, K, here
<1>17. CurOK(q, at, g, d, here)
  <2>1. ws \cap here = f.result \cap here
    BY <1>10
  <2>2. Agrees(q[d].view, g.store, DOMAIN g.store, here)
    BY <1>9, <1>14, <1>16, <2>1, ReboundAgrees
  <2>3. QED
    BY <1>7, <1>14, <2>2 DEF CurOK, Idle
<1>18. FrameOK(q, at, g, d, here)
  <2>1. \A b \in DOMAIN p : b < B \/ b = u.ret => b \notin {B, f.ret, d}
    BY <1>8, <1>11, <1>12
  <2>2. \A b \in DOMAIN p : p[b].branch # u.ret
    BY <1>8 DEF ReturnedOK
  <2>3. \A b \in DOMAIN q : q[b].branch # u.ret /\ (q[b].next = u.ret => b \in DOMAIN p /\ q[b] = p[b])
    BY <1>12, <1>14, <1>15, <2>2
  <2>4. After(p, q, u, B)
    BY <1>11, <2>1, <2>3 DEF After
  <2>5. Stored(u, g, name, here, f.result)
    BY DEF u, K, here
  <2>6. QED
    BY <1>2, <1>5, <1>12, <1>17, <2>4, <2>5, FrameStored
<1>19. FlowOK(q, at)
  <2> SUFFICES ASSUME NEW b \in DOMAIN q
               PROVE  /\ q[b].next \in 0 .. Len(q) /\ q[b].branch \in 0 .. Len(q)
                      /\ q[b].branch = None => q[b].when = {}
                      /\ q[b].branch # None => at[b] \cap q[b].when \subseteq at[q[b].branch]
                      /\ q[b].next # None => at[b] \ q[b].when \subseteq at[q[b].next]
    BY DEF FlowOK
  <2>1. None \in 0 .. Len(q) /\ f.start \in 0 .. Len(q) /\ d \in 0 .. Len(q)
    BY <1>11, <1>12 DEF None
  <2>2. CASE b = B
    BY <1>9, <1>10, <1>14, <2>1, <2>2
  <2>3. CASE b = f.ret
    BY <1>7, <1>10, <1>14, <2>1, <2>3
  <2>4. CASE b = d
    BY <1>14, <2>1, <2>4
  <2>5. CASE b \in DOMAIN p /\ q[b] = p[b]
    BY <1>3, <1>11, <2>5 DEF FlowOK
  <2>6. QED
    BY <1>15, <2>2, <2>3, <2>4, <2>5
<1>20. Low(p, q, at, at, g.start)
  <2>1. g.start \in 1 .. Len(p) + 1
    BY <1>8, <1>11, <1>16
  <2>2. \A b \in 1 .. g.start - 1 : q[b] = p[b]
    <3>1. \A b \in 1 .. g.start - 1 : b \in DOMAIN p /\ b \notin {B, f.ret, d}
      BY <1>8, <1>11, <1>12, <1>16
    <3>2. QED
      BY <1>11, <3>1
  <2>3. ASSUME NEW b \in DOMAIN q, b >= g.start
        PROVE  (q[b].next # None => q[b].next >= g.start) /\ (q[b].branch # None => q[b].branch >= g.start)
    <3>1. CASE b \in {B, f.ret, d}
      BY <1>12, <1>14, <1>16, <3>1
    <3>2. CASE b \in DOMAIN p /\ q[b] = p[b]
      BY <1>2, <1>3, <1>16, <2>3, <3>2 DEF ClosedOK, u
    <3>3. QED
      BY <1>15, <3>1, <3>2
  <2>4. QED
    BY <1>11, <2>1, <2>2, <2>3 DEF Low
<1>21. TopLinks(q, fr2, g, d)
  <2>1. EdgesFrom(p, q, {f.start, d})
    BY <1>14, <1>15 DEF EdgesFrom
  <2>2. K - 1 \in DOMAIN fr /\ Upto(fr, fr2, K - 1, g) /\ Alike(fr[K - 1], g)
    BY <1>2, <1>16, Zenon DEF K, u
  <2>3. LinksFrom(p, fr, q, fr2, {f.start, d})
    BY <1>1, <2>1, <2>2, LinkedFrom
  <2>4. Linked(p, fr, f.start)
    BY <1>1 DEF Linked
  <2>5. OpenIn(g, d) = {u.ret, d} \cup UNION {Held(u.ifs[j]) : j \in DOMAIN u.ifs}
    BY <1>16 DEF OpenIn
  <2> SUFFICES ASSUME NEW b \in DOMAIN q, b >= g.start, Linked(q, fr2, b)
               PROVE  (q[b].dead => q[b].next # None) /\ (q[b].next = None => b \in OpenIn(g, d))
    BY DEF TopLinks
  <2>6. CASE b \in {B, f.ret, d}
    BY <1>12, <1>14, <2>5, <2>6
  <2>7. CASE b \notin {B, f.ret, d}
    <3>1. b \in DOMAIN p /\ q[b] = p[b] /\ b # None
      BY <1>11, <2>7 DEF None
    <3>2. Linked(p, fr, b)
      BY <2>3, <2>4, <2>7, <3>1 DEF LinksFrom
    <3>3. /\ p[b].dead => p[b].next # None
          /\ p[b].next = None => \E k \in DOMAIN fr : b \in OpenIn(fr[k], CurOf(fr, cu, k))
      BY <1>3, <3>1, <3>2 DEF LinksOK
    <3>4. ASSUME NEW k \in DOMAIN fr, b \in OpenIn(fr[k], CurOf(fr, cu, k)), p[b].next = None PROVE b \in OpenIn(g, d)
      <4>1. CASE k = K
        <5>1. b \in OpenIn(f, cu)
          BY <1>1, <3>4, <4>1 DEF CurOf, K
        <5>2. OpenIn(f, cu) = {f.ret, cu}
          BY DEF OpenIn
        <5>3. b = cu
          BY <2>7, <5>1, <5>2
        <5>4. QED
          BY <3>3, <3>4, <5>3
      <4>2. CASE k = K - 1
        <5>1. b \in OpenIn(u, B)
          BY <1>4, <3>4, <4>2 DEF u
        <5>2. OpenIn(u, B) = {u.ret, B} \cup UNION {Held(u.ifs[j]) : j \in DOMAIN u.ifs}
          BY DEF OpenIn
        <5>3. QED
          BY <2>5, <2>7, <5>1, <5>2
      <4>3. CASE k < K - 1
        <5>1. b < fr[K - 1].start
          BY <1>1, <2>2, <3>4, <4>3, OpenBelow
        <5>2. QED
          BY <1>11, <1>12, <1>16, <5>1 DEF u
      <4>4. QED
        BY <1>2, <4>1, <4>2, <4>3
    <3>5. QED
      BY <3>1, <3>3, <3>4
  <2>8. QED
    BY <2>6, <2>7
<1>22. Sound(q, at, fr2, d, here)
  <2>1. K - 1 \in DOMAIN fr /\ Upto(fr, fr2, K - 1, g) /\ Alike(fr[K - 1], g)
    BY <1>2, <1>16 DEF K, u
  <2>2. QED
    BY <1>1, <1>16, <1>18, <1>19, <1>20, <1>21, <2>1, Lift
<1>23. QED
  <2>1. fr2 \in Seq(Frames) /\ Len(fr2) = K - 1 /\ fr2[K - 1] = g
    BY DEF Upto, K
  <2>2. Len(fr2) \in DOMAIN fr2 /\ g = fr2[Len(fr2)]
    BY <1>2, <2>1
  <2>3. QED
    BY <1>11, <1>22, <2>1, <2>2 DEF Top, d, here

(***************************************************************************)
(* Block.ReturnBinding, in the picture: what a block answers is what the   *)
(* function returns in the worlds that enter it.                           *)
(***************************************************************************)

\* The walk over the blocks of f: those it has come to, and its answers.
Visited(p, fr, f, b) == b \in f.start .. Len(p) /\ Linked(p, fr, b)
Right(at, f, b, v, values, carried) == v \in 1 .. values /\ carried[v] \cap at[b] = f.result \cap at[b]
Answered(at, f, an, values, carried) ==
  \A b \in DOMAIN an : IF b = f.ret THEN an[b] = None ELSE Right(at, f, b, an[b], values, carried)
Walking(p, fr, f, cu, st, an) ==
  /\ f.ifs = <<>> /\ p[cu].dead /\ st \in Seq(Nat)
  /\ \A j \in DOMAIN st : Visited(p, fr, f, st[j])
  /\ \A b \in DOMAIN an : Visited(p, fr, f, b)
  /\ IF st = <<>> THEN f.start \in DOMAIN an ELSE st[1] = f.start

\* All paths through f have returned: only the block it ends in leads nowhere.
LEMMA VisitedIs ==
  ASSUME NEW p, NEW at, NEW fr, NEW cu, NEW pa, NEW f, Top(p, at, fr, cu, pa, f), f.ifs = <<>>, p[cu].dead,
         NEW b, Visited(p, fr, f, b)
  PROVE  /\ b \in DOMAIN p /\ b # None /\ b \in Nat
         /\ p[b].next = None <=> b = f.ret
         /\ b = f.ret => p[b].branch = None /\ ~p[b].dead /\ p[b].view = p[f.ret].view
         /\ p[b].next # None => Visited(p, fr, f, p[b].next)
         /\ p[b].branch # None => Visited(p, fr, f, p[b].branch) /\ p[b].branch # f.ret
<1>1. /\ f \in Frames /\ FrameOK(p, at, f, cu, pa) /\ FlowOK(p, at) /\ TopLinks(p, fr, f, cu)
      /\ \A c \in DOMAIN p : c >= f.start =>
           (p[c].next # None => p[c].next >= f.start) /\ (p[c].branch # None => p[c].branch >= f.start)
      /\ f.start \in 1 .. Len(p) /\ DOMAIN p = 1 .. Len(p) /\ Len(p) \in Nat
  BY TopIs
<1>2. b \in DOMAIN p /\ b >= f.start /\ b \in Nat /\ b # None /\ Linked(p, fr, b)
  BY <1>1 DEF Visited, None
<1>3. (p[b].dead => p[b].next # None) /\ (p[b].next = None => b \in OpenIn(f, cu))
  BY <1>1, <1>2 DEF TopLinks
<1>4. OpenIn(f, cu) = {f.ret, cu}
  BY DEF OpenIn
<1>5. Idle(p[f.ret]) /\ ReturnedOK(p, at, f, pa)
  BY <1>1 DEF FrameOK, EndOK
<1>6. p[b].next = None <=> b = f.ret
  BY <1>3, <1>4, <1>5 DEF Idle
<1>7. b = f.ret => p[b].branch = None /\ ~p[b].dead /\ p[b].view = p[f.ret].view
  BY <1>5 DEF Idle
<1>8. p[b].next \in 0 .. Len(p) /\ p[b].branch \in 0 .. Len(p) /\ p[b].branch # f.ret
  BY <1>1, <1>2, <1>5 DEF FlowOK, ReturnedOK
<1>9. p[b].next # None => Visited(p, fr, f, p[b].next)
  BY <1>1, <1>2, <1>8 DEF Visited, Linked, None
<1>10. p[b].branch # None => Visited(p, fr, f, p[b].branch)
  BY <1>1, <1>2, <1>8 DEF Visited, Linked, None
<1>11. QED
  BY <1>2, <1>6, <1>7, <1>8, <1>9, <1>10

\* The walk comes to blocks of the function that are linked, and nothing else.
LEMMA WalkVisits ==
  ASSUME NEW p, NEW fr, NEW f, NEW cu, NEW st, NEW an, Walking(p, fr, f, cu, st, an), st # <<>>
  PROVE  /\ Len(st) \in DOMAIN st /\ Last(st) = st[Len(st)] /\ Visited(p, fr, f, Last(st))
         /\ \A c \in Nat : Visited(p, fr, f, c) => Walking(p, fr, f, cu, Append(st, c), an)
         /\ \A new : DOMAIN new = DOMAIN an \cup {Last(st)} => Walking(p, fr, f, cu, Front(st), new)
<1>1. /\ f.ifs = <<>> /\ p[cu].dead /\ st \in Seq(Nat)
      /\ \A j \in DOMAIN st : Visited(p, fr, f, st[j])
      /\ \A b \in DOMAIN an : Visited(p, fr, f, b)
      /\ st[1] = f.start
  BY DEF Walking
<1>2. Len(st) \in Nat /\ Len(st) > 0 /\ DOMAIN st = 1 .. Len(st) /\ Len(st) \in DOMAIN st /\ Last(st) = st[Len(st)]
  BY <1>1 DEF Last
<1>3. Visited(p, fr, f, Last(st))
  BY <1>1, <1>2
<1>4. ASSUME NEW c \in Nat, Visited(p, fr, f, c) PROVE Walking(p, fr, f, cu, Append(st, c), an)
  <2> DEFINE s == Append(st, c)
  <2>1. /\ s \in Seq(Nat) /\ s # <<>> /\ s[1] = st[1] /\ DOMAIN s = 1 .. Len(st) + 1
        /\ \A j \in 1 .. Len(st) + 1 : s[j] = IF j = Len(st) + 1 THEN c ELSE st[j]
    BY <1>1, <1>2
  <2> HIDE DEF s
  <2>2. \A j \in DOMAIN s : Visited(p, fr, f, s[j])
    BY <1>1, <1>2, <1>4, <2>1
  <2>3. Walking(p, fr, f, cu, s, an)
    BY <1>1, <2>1, <2>2 DEF Walking
  <2>4. QED
    BY <2>3 DEF s
<1>5. ASSUME NEW new, DOMAIN new = DOMAIN an \cup {Last(st)} PROVE Walking(p, fr, f, cu, Front(st), new)
  <2> DEFINE s == Front(st)
  <2>1. /\ s \in Seq(Nat) /\ Len(s) = Len(st) - 1 /\ DOMAIN s = 1 .. Len(st) - 1
        /\ \A j \in 1 .. Len(st) - 1 : s[j] = st[j]
    BY <1>1, <1>2 DEF Front
  <2>7. \A j \in 1 .. Len(st) - 1 : j \in DOMAIN st
    BY <1>2
  <2>8. s = <<>> => Len(s) = 0
    OBVIOUS
  <2> HIDE DEF s
  <2>2. \A j \in DOMAIN s : Visited(p, fr, f, s[j])
    BY <1>1, <2>1, <2>7
  <2>3. \A b \in DOMAIN new : Visited(p, fr, f, b)
    BY <1>1, <1>3, <1>5
  <2>4. IF s = <<>> THEN f.start \in DOMAIN new ELSE s[1] = f.start
    <3>1. CASE s = <<>>
      <4>1. Len(st) = 1
        <5>1. Len(s) = 0 /\ Len(s) = Len(st) - 1 /\ Len(st) \in Nat
          BY <1>2, <2>1, <2>8, <3>1
        <5>2. QED
          BY <5>1
      <4>2. QED
        BY <1>1, <1>2, <1>5, <3>1, <4>1
    <3>2. CASE s # <<>>
      <4>1. 1 \in 1 .. Len(st) - 1
        BY <1>2, <2>1, <3>2
      <4>2. QED
        BY <1>1, <2>1, <3>2, <4>1
    <3>3. QED
      BY <3>1, <3>2
  <2>5. Walking(p, fr, f, cu, s, new)
    BY <1>1, <2>1, <2>2, <2>3, <2>4 DEF Walking
  <2>6. QED
    BY <2>5 DEF s
<1>6. QED
  BY <1>2, <1>3, <1>4, <1>5

\* The value of a block: that of the next one, or of the one it leads to.
LEMMA RightNext ==
  ASSUME NEW p, NEW at, NEW fr, NEW cu, NEW pa, NEW f, Top(p, at, fr, cu, pa, f), NEW b \in DOMAIN p,
         p[b].branch \in {None, p[b].next}, p[b].next # None,
         NEW v, NEW values, NEW carried, Right(at, f, p[b].next, v, values, carried)
  PROVE  Right(at, f, b, v, values, carried)
<1>1. FlowOK(p, at)
  BY TopIs
<1>2. at[b] \subseteq at[p[b].next]
  BY <1>1 DEF FlowOK
<1>3. QED
  BY <1>2 DEF Right
\* The value that a block has bound when it returns.
LEMMA RightReturn ==
  ASSUME NEW p, NEW at, NEW fr, NEW cu, NEW pa, NEW f, Top(p, at, fr, cu, pa, f), NEW b \in DOMAIN p, p[b].next = f.ret
  PROVE  /\ p[b].branch = None /\ Ret \in DOMAIN p[b].view
         /\ \A v, values, carried : v \in 1 .. values /\ carried[v] = p[b].view[Ret] => Right(at, f, b, v, values, carried)
<1>1. FrameOK(p, at, f, cu, pa)
  BY TopIs
<1>2. ReturnedOK(p, at, f, pa)
  BY <1>1 DEF FrameOK
<1>3. QED
  BY <1>2 DEF ReturnedOK, Right
\* The value chosen between those of two blocks.
LEMMA RightBranch ==
  ASSUME NEW p, NEW at, NEW fr, NEW cu, NEW pa, NEW f, Top(p, at, fr, cu, pa, f), NEW b \in DOMAIN p,
         p[b].branch # None, p[b].next # None, NEW t, NEW e, NEW values, NEW carried,
         Right(at, f, p[b].branch, t, values, carried), Right(at, f, p[b].next, e, values, carried)
  PROVE  /\ t = e => Right(at, f, b, e, values, carried)
         /\ \A v, more, now : v \in 1 .. more /\ now[v] = Choice(p[b].when, carried[t], carried[e]) =>
              Right(at, f, b, v, more, now)
<1>1. FlowOK(p, at)
  BY TopIs
<1>2. at[b] \cap p[b].when \subseteq at[p[b].branch] /\ at[b] \ p[b].when \subseteq at[p[b].next]
  BY <1>1 DEF FlowOK
<1>3. /\ carried[t] \cap at[p[b].branch] = f.result \cap at[p[b].branch]
      /\ carried[e] \cap at[p[b].next] = f.result \cap at[p[b].next] /\ e \in 1 .. values
  BY DEF Right
<1>4. Choice(p[b].when, carried[t], carried[e]) \cap at[b] = f.result \cap at[b]
  BY <1>2, <1>3 DEF Choice
<1>5. t = e => carried[e] \cap at[b] = f.result \cap at[b]
  BY <1>2, <1>3
<1>6. QED
  BY <1>3, <1>4, <1>5 DEF Right

\* More answers, when more is carried.
WithAnswer(an, b, v) == [c \in DOMAIN an \cup {b} |-> IF c = b THEN v ELSE an[c]]

\* Answers stay right when more values are made, and a right one can be added.
LEMMA AnsweredMore ==
  ASSUME NEW at, NEW f, NEW an, NEW values, NEW carried, Answered(at, f, an, values, carried),
         NEW more, NEW now, 1 .. values \subseteq 1 .. more, \A v \in 1 .. values : now[v] = carried[v],
         NEW b, NEW v, IF b = f.ret THEN v = None ELSE Right(at, f, b, v, more, now),
         NEW new, new = WithAnswer(an, b, v)
  PROVE  Answered(at, f, new, more, now)
<1>0. new = [c \in DOMAIN an \cup {b} |-> IF c = b THEN v ELSE an[c]]
  BY DEF WithAnswer
<1> SUFFICES ASSUME NEW c \in DOMAIN new
             PROVE  IF c = f.ret THEN new[c] = None ELSE Right(at, f, c, new[c], more, now)
  BY DEF Answered
<1>1. CASE c = b
  BY <1>0, <1>1
<1>2. CASE c # b
  <2>1. c \in DOMAIN an /\ new[c] = an[c]
    BY <1>0, <1>2
  <2>2. IF c = f.ret THEN an[c] = None ELSE Right(at, f, c, an[c], values, carried)
    BY <2>1 DEF Answered
  <2>3. Right(at, f, c, an[c], values, carried) => Right(at, f, c, an[c], more, now)
    BY DEF Right
  <2>4. QED
    BY <2>1, <2>2, <2>3
<1>3. QED
  BY <1>1, <1>2
=============================================================================
