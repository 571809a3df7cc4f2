--------------------------- MODULE BuilderProofs ----------------------------
\* The adders, subtractors, comparators and dividers of compiler/circuits
\* compute what they promise for operands of every width.
EXTENDS Ripple, LongDivision, Integers, WellFoundedInduction, TLAPS

(***************************************************************************)
(* Induction over the natural numbers, for a set: a definition is not an   *)
(* argument of a theorem the provers can use, a set is.                    *)
(***************************************************************************)
\* A set of naturals that is not empty has a least element.
LEMMA Least ==
  ASSUME NEW T \in SUBSET Nat, T # {}
  PROVE  \E m \in T : \A k \in T : m <= k
<1> DEFINE Less == {s \in Nat \X Nat : s[1] < s[2]}
<1>1. IsWellFoundedOn(Less, Nat)
  BY NatLessThanWellFounded DEF OpToRel
<1> HIDE DEF Less
<1>2. PICK m \in T : \A k \in T : ~ (<<k, m>> \in Less)
  BY <1>1, WFMin
<1>3. ASSUME NEW k \in T PROVE m <= k
  <2>1. ~ (<<k, m>> \in Less)
    BY <1>2
  <2>2. k < m => <<k, m>> \in Less
    BY DEF Less
  <2>3. QED
    BY <2>1, <2>2
<1>4. QED
  BY <1>3

\* Induction up to m, for a set: what is not in it would have a least element.
LEMMA Induction ==
  ASSUME NEW m \in Nat, NEW S, 0 \in S, \A k \in 0 .. m - 1 : k \in S => k + 1 \in S
  PROVE  0 .. m \subseteq S
<1> DEFINE T == (0 .. m) \ S
<1>1. SUFFICES ASSUME T # {} PROVE FALSE
  OBVIOUS
<1>2. T \in SUBSET Nat
  OBVIOUS
<1>3. PICK t \in T : \A k \in T : t <= k
  BY <1>1, <1>2, Least
<1>4. t - 1 \in 0 .. m - 1
  OBVIOUS
<1>5. t - 1 \in S
  BY <1>3, <1>4
<1>6. t = (t - 1) + 1
  BY <1>4
<1>7. QED
  BY <1>4, <1>5, <1>6

(***************************************************************************)
(* Numbers on wires                                                        *)
(***************************************************************************)
\* The recurrences of Pow, Number and Leading have one solution.
Solves(v, e, d, g, t) ==
  /\ v \in [0 .. t -> Nat]
  /\ v[0] = e
  /\ \A k \in 1 .. t : v[k] = d * v[k - 1] + g[k]

LEMMA Recurrence ==
  ASSUME NEW e \in Nat, NEW d \in Nat, NEW g \in [Index -> Nat]
  PROVE  \E v : Solves(v, e, d, g, W)
<1> DEFINE S == {t \in 0 .. W : \E v : Solves(v, e, d, g, t)}
<1>1. 0 \in S
  <2>1. Solves([k \in 0 .. 0 |-> e], e, d, g, 0)
    BY DEF Solves
  <2>2. QED
    BY <2>1, WidthAssumption
<1>2. ASSUME NEW t \in 0 .. W - 1, t \in S PROVE t + 1 \in S
  <2>1. PICK v : Solves(v, e, d, g, t)
    BY <1>2
  <2> DEFINE u == [k \in 0 .. t + 1 |-> IF k = t + 1 THEN d * v[t] + g[t + 1] ELSE v[k]]
  <2>2. v[t] \in Nat /\ g[t + 1] \in Nat
    BY <2>1, WidthAssumption DEF Solves, Index
  <2>3. d * v[t] + g[t + 1] \in Nat
    BY <2>2
  <2>4. u \in [0 .. t + 1 -> Nat] /\ u[0] = e
    BY <2>1, <2>3 DEF Solves
  <2>5. ASSUME NEW k \in 1 .. t + 1 PROVE u[k] = d * u[k - 1] + g[k]
    <3>1. u[k - 1] = v[k - 1]
      OBVIOUS
    <3>2. CASE k = t + 1
      BY <3>1, <3>2
    <3>3. CASE k # t + 1
      <4>1. k \in 1 .. t /\ u[k] = v[k]
        BY <3>3
      <4>2. v[k] = d * v[k - 1] + g[k]
        BY <2>1, <4>1 DEF Solves
      <4>3. QED
        BY <3>1, <4>1, <4>2
    <3>4. QED
      BY <3>2, <3>3
  <2>6. Solves(u, e, d, g, t + 1)
    BY <2>4, <2>5 DEF Solves
  <2>7. QED
    BY <2>6, WidthAssumption
<1>3. W \in S
  <2>1. 0 .. W \subseteq S
    BY <1>1, <1>2, Induction, WidthAssumption
  <2>2. QED
    BY <2>1, WidthAssumption
<1>4. QED
  BY <1>3

LEMMA Solution ==
  ASSUME NEW e \in Nat, NEW d \in Nat, NEW g \in [Index -> Nat], NEW w,
         w = [m \in 0 .. W |-> IF m = 0 THEN e ELSE d * w[m - 1] + g[m]]
  PROVE  Solves(w, e, d, g, W)
<1> DEFINE S == {m \in 0 .. W : w[m] \in Nat}
<1>1. \A m \in 0 .. W : w[m] = IF m = 0 THEN e ELSE d * w[m - 1] + g[m]
  OBVIOUS
<1>2. 0 \in S
  BY <1>1, WidthAssumption
<1>3. ASSUME NEW m \in 0 .. W - 1, m \in S PROVE m + 1 \in S
  <2>1. w[m + 1] = d * w[m] + g[m + 1] /\ m + 1 \in 0 .. W
    BY <1>1, WidthAssumption
  <2>2. w[m] \in Nat /\ g[m + 1] \in Nat
    BY <1>3, WidthAssumption DEF Index
  <2>3. d * w[m] + g[m + 1] \in Nat
    BY SMTT(30), <2>2
  <2>4. QED
    BY <2>1, <2>3
<1>4. 0 .. W \subseteq S
  <2> HIDE DEF S
  <2>1. QED
    BY <1>2, <1>3, Induction, WidthAssumption
<1>5. w \in [0 .. W -> Nat]
  BY <1>4
<1>6. QED
  BY <1>1, <1>5, WidthAssumption DEF Solves

LEMMA PowDef ==
  /\ Pow \in [0 .. W -> Nat \ {0}]
  /\ Pow[0] = 1
  /\ \A k \in Index : Pow[k] = 2 * Pow[k - 1]
<1> DEFINE g == [k \in Index |-> 0]
           F(w) == [m \in 0 .. W |-> IF m = 0 THEN 1 ELSE 2 * w[m - 1]]
<1>1. g \in [Index -> Nat]
  OBVIOUS
<1>2. \E w : w = F(w)
  <2>1. PICK v : Solves(v, 1, 2, g, W)
    BY <1>1, Recurrence
  <2>2. v = F(v)
    BY <2>1, WidthAssumption DEF Solves, Index
  <2>3. QED
    BY <2>2
<1>3. Pow = F(Pow)
  BY <1>2 DEF Pow
<1>4. \A m \in 0 .. W : Pow[m] = IF m = 0 THEN 1 ELSE 2 * Pow[m - 1]
  BY <1>3
<1> DEFINE S == {m \in 0 .. W : Pow[m] \in Nat \ {0}}
<1>5. 0 .. W \subseteq S
  <2>1. 0 \in S
    BY <1>4, WidthAssumption
  <2>2. ASSUME NEW m \in 0 .. W - 1, m \in S PROVE m + 1 \in S
    <3>1. Pow[m + 1] = 2 * Pow[m] /\ m + 1 \in 0 .. W
      BY <1>4, WidthAssumption
    <3>2. QED
      BY <2>2, <3>1
  <2> HIDE DEF S
  <2>3. QED
    BY <2>1, <2>2, Induction, WidthAssumption
<1>6. Pow = [m \in 0 .. W |-> Pow[m]]
  BY <1>3
<1>7. \A m \in 0 .. W : Pow[m] \in Nat \ {0}
  BY <1>5
<1> HIDE DEF S, F
<1>8. Pow \in [0 .. W -> Nat \ {0}]
  BY <1>6, <1>7
<1>9. ASSUME NEW k \in Index PROVE Pow[k] = 2 * Pow[k - 1]
  BY <1>4, WidthAssumption DEF Index
<1>10. QED
  BY <1>4, <1>8, <1>9, WidthAssumption

LEMMA PowGrows ==
  ASSUME NEW k \in 0 .. W, NEW m \in 0 .. W, k <= m
  PROVE  Pow[k] <= Pow[m]
<1> DEFINE S == {t \in 0 .. m - k : Pow[k] <= Pow[k + t]}
<1>1. 0 \in S
  BY PowDef
<1>2. ASSUME NEW t \in 0 .. (m - k) - 1, t \in S PROVE t + 1 \in S
  <2>1. k + t + 1 \in Index /\ k + t \in 0 .. W /\ k + (t + 1) = k + t + 1 /\ (k + t + 1) - 1 = k + t
    BY WidthAssumption DEF Index
  <2>2. Pow[k + t + 1] = 2 * Pow[k + t] /\ Pow[k + t] \in Nat /\ Pow[k] \in Nat
    BY <2>1, PowDef
  <2>3. Pow[k] <= Pow[k + t]
    BY <1>2
  <2>4. QED
    BY <2>1, <2>2, <2>3
<1>3. 0 .. m - k \subseteq S
  <2> HIDE DEF S
  <2>1. QED
    BY <1>1, <1>2, Induction
<1>4. m - k \in S /\ k + (m - k) = m
  BY <1>3
<1>5. QED
  BY <1>4

LEMMA NumberDef ==
  ASSUME NEW f \in [Index -> WireValue]
  PROVE  /\ Number(f) \in [0 .. W -> Nat]
         /\ Number(f)[0] = 0
         /\ \A k \in Index : Number(f)[k] = Number(f)[k - 1] + f[k] * Pow[k - 1]
<1> DEFINE g == [k \in Index |-> f[k] * Pow[k - 1]]
           F(w) == [m \in 0 .. W |-> IF m = 0 THEN 0 ELSE w[m - 1] + f[m] * Pow[m - 1]]
           G(w) == [m \in 0 .. W |-> IF m = 0 THEN 0 ELSE 1 * w[m - 1] + g[m]]
<1>1. g \in [Index -> Nat]
  <2>1. ASSUME NEW k \in Index PROVE f[k] * Pow[k - 1] \in Nat
    <3>1. f[k] \in {0, 1, 2} /\ Pow[k - 1] \in Nat
      BY PowDef, WidthAssumption DEF Index, WireValue, Bit, U
    <3>2. QED
      BY <3>1
  <2>2. QED
    BY <2>1
<1>2. PICK v : Solves(v, 0, 1, g, W)
  BY <1>1, Recurrence
<1>3. v = F(v)
  <2>1. ASSUME NEW m \in 0 .. W PROVE v[m] = F(v)[m]
    <3>1. CASE m = 0
      BY <1>2, <3>1 DEF Solves
    <3>2. CASE m # 0
      <4>1. m \in 1 .. W /\ m \in Index /\ m - 1 \in 0 .. W
        BY <3>2, WidthAssumption DEF Index
      <4>2. v[m] = 1 * v[m - 1] + g[m] /\ v[m - 1] \in Nat /\ g[m] \in Nat
        BY <1>1, <1>2, <4>1 DEF Solves
      <4>3. QED
        BY <3>2, <4>1, <4>2
    <3>3. QED
      BY <3>1, <3>2
  <2>2. QED
    BY <1>2, <2>1 DEF Solves
<1>4. Number(f) = F(Number(f))
  BY <1>3 DEF Number
<1> DEFINE w == Number(f)
<1>5. \A m \in 0 .. W : w[m] = IF m = 0 THEN 0 ELSE w[m - 1] + g[m]
  BY <1>4, WidthAssumption DEF Index
<1> HIDE DEF w, g
<1> DEFINE S == {m \in 0 .. W : w[m] \in Nat}
<1>6. 0 .. W \subseteq S
  <2>1. 0 \in S
    BY <1>5, WidthAssumption
  <2>2. ASSUME NEW m \in 0 .. W - 1, m \in S PROVE m + 1 \in S
    <3>1. w[m + 1] = w[m] + g[m + 1] /\ m + 1 \in 0 .. W /\ g[m + 1] \in Nat
      BY <1>1, <1>5, WidthAssumption DEF Index
    <3>2. QED
      BY <2>2, <3>1
  <2> HIDE DEF S
  <2>3. QED
    BY <2>1, <2>2, Induction, WidthAssumption
<1>7. w = [m \in 0 .. W |-> w[m]]
  BY <1>4 DEF w
<1>8. \A m \in 0 .. W : w[m] \in Nat
  BY <1>6
<1> HIDE DEF S, F, G
<1>9. w \in [0 .. W -> Nat]
  BY <1>7, <1>8
<1>10. w[0] = 0
  BY <1>5, WidthAssumption
<1>11. ASSUME NEW k \in Index PROVE w[k] = w[k - 1] + f[k] * Pow[k - 1]
  <2>1. k \in 0 .. W /\ k # 0
    BY WidthAssumption DEF Index
  <2>2. g[k] = f[k] * Pow[k - 1]
    BY DEF g
  <2>3. QED
    BY <1>5, <2>1, <2>2
<1>12. QED
  BY <1>9, <1>10, <1>11 DEF w

LEMMA LeadingDef ==
  ASSUME NEW f \in [Index -> WireValue]
  PROVE  /\ Leading(f) \in [0 .. W -> Nat]
         /\ Leading(f)[0] = 0
         /\ \A k \in Index : Leading(f)[k] = 2 * Leading(f)[k - 1] + f[W + 1 - k]
<1> DEFINE g == [k \in Index |-> f[W + 1 - k]]
           F(w) == [m \in 0 .. W |-> IF m = 0 THEN 0 ELSE 2 * w[m - 1] + f[W + 1 - m]]
           G(w) == [m \in 0 .. W |-> IF m = 0 THEN 0 ELSE 2 * w[m - 1] + g[m]]
<1>1. g \in [Index -> Nat]
  <2>1. ASSUME NEW k \in Index PROVE f[W + 1 - k] \in Nat
    <3>1. W + 1 - k \in Index
      BY WidthAssumption DEF Index
    <3>2. QED
      BY <3>1 DEF WireValue, Bit, U
  <2>2. QED
    BY <2>1
<1>2. \A w : G(w) = F(w)
  BY WidthAssumption DEF Index
<1> HIDE DEF g, F, G
<1>3. PICK v : Solves(v, 0, 2, g, W)
  BY <1>1, Recurrence
<1>4. v = G(v)
  BY <1>3, WidthAssumption DEF Solves, Index, G
<1>5. Leading(f) = F(Leading(f))
  BY <1>2, <1>4 DEF Leading, F
<1> USE DEF F, G
<1>6. Solves(Leading(f), 0, 2, g, W)
  BY <1>1, <1>2, <1>5, Solution
<1>7. \A k \in Index : g[k] = f[W + 1 - k]
  BY DEF g
<1>8. QED
  BY <1>6, <1>7 DEF Solves, Index

\* The number on n wires does not depend on the others.
LEMMA NumberLocal ==
  ASSUME NEW f \in [Index -> WireValue], NEW h \in [Index -> WireValue],
         NEW m \in 0 .. W, \A k \in 1 .. m : f[k] = h[k]
  PROVE  Number(f)[m] = Number(h)[m]
<1> DEFINE S == {k \in 0 .. m : Number(f)[k] = Number(h)[k]}
<1>1. 0 \in S
  BY NumberDef
<1>2. ASSUME NEW k \in 0 .. m - 1, k \in S PROVE k + 1 \in S
  <2>1. k + 1 \in Index /\ f[k + 1] = h[k + 1]
    BY WidthAssumption DEF Index
  <2>2. Number(f)[k + 1] = Number(f)[k] + f[k + 1] * Pow[k]
    BY <2>1, NumberDef
  <2>3. Number(h)[k + 1] = Number(h)[k] + h[k + 1] * Pow[k]
    BY <2>1, NumberDef
  <2>4. QED
    BY <1>2, <2>1, <2>2, <2>3
<1>3. 0 .. m \subseteq S
  <2> HIDE DEF S
  <2>1. QED
    BY <1>1, <1>2, Induction
<1>4. QED
  BY <1>3

LEMMA LeadingLocal ==
  ASSUME NEW f \in [Index -> WireValue], NEW h \in [Index -> WireValue],
         NEW m \in 0 .. W, \A k \in W + 1 - m .. W : f[k] = h[k]
  PROVE  Leading(f)[m] = Leading(h)[m]
<1> DEFINE S == {k \in 0 .. m : Leading(f)[k] = Leading(h)[k]}
<1>1. 0 \in S
  BY LeadingDef
<1>2. ASSUME NEW k \in 0 .. m - 1, k \in S PROVE k + 1 \in S
  <2>1. k + 1 \in Index /\ f[W - k] = h[W - k] /\ W + 1 - (k + 1) = W - k
    BY WidthAssumption DEF Index
  <2>2. Leading(f)[k + 1] = 2 * Leading(f)[k] + f[W - k]
    BY <2>1, LeadingDef
  <2>3. Leading(h)[k + 1] = 2 * Leading(h)[k] + h[W - k]
    BY <2>1, LeadingDef
  <2>4. QED
    BY <1>2, <2>1, <2>2, <2>3
<1>3. 0 .. m \subseteq S
  <2> HIDE DEF S
  <2>1. QED
    BY <1>1, <1>2, Induction
<1>4. QED
  BY <1>3

\* Bits only: the number on m wires is below the m-th power of two.
LEMMA NumberBound ==
  ASSUME NEW f \in [Index -> WireValue], NEW m \in 0 .. W, \A k \in 1 .. m : f[k] \in Bit
  PROVE  Number(f)[m] < Pow[m]
<1> DEFINE S == {k \in 0 .. m : Number(f)[k] < Pow[k]}
<1>1. 0 \in S
  BY NumberDef, PowDef
<1>2. ASSUME NEW k \in 0 .. m - 1, k \in S PROVE k + 1 \in S
  <2>1. k + 1 \in Index /\ k \in 0 .. W /\ f[k + 1] \in {0, 1}
    BY WidthAssumption DEF Index, Bit
  <2>2. Number(f)[k + 1] = Number(f)[k] + f[k + 1] * Pow[k]
    BY <2>1, NumberDef
  <2>3. Pow[k + 1] = 2 * Pow[k]
    BY <2>1, PowDef
  <2>4. Number(f)[k] \in Nat /\ Pow[k] \in Nat
    BY <2>1, NumberDef, PowDef
  <2>5. Number(f)[k] < Pow[k]
    BY <1>2
  <2>6. Number(f)[k + 1] < Pow[k + 1]
    <3>1. CASE f[k + 1] = 0
      BY <3>1, <2>2, <2>3, <2>4, <2>5
    <3>2. CASE f[k + 1] = 1
      BY <3>2, <2>2, <2>3, <2>4, <2>5
    <3>3. QED
      BY <2>1, <3>1, <3>2
  <2>7. QED
    BY <2>6
<1>3. 0 .. m \subseteq S
  <2> HIDE DEF S
  <2>1. QED
    BY <1>1, <1>2, Induction
<1>4. QED
  BY <1>3

\* A shift by one bit doubles the number and adds the bit that comes in.
LEMMA NumberShift ==
  ASSUME NEW f \in [Index -> WireValue], NEW h \in [Index -> WireValue],
         \A k \in 1 .. W - 1 : h[k + 1] = f[k]
  PROVE  \A m \in 0 .. W - 1 : Number(h)[m + 1] = 2 * Number(f)[m] + h[1]
<1> DEFINE S == {k \in 0 .. W - 1 : Number(h)[k + 1] = 2 * Number(f)[k] + h[1]}
<1>1. 0 \in S
  <2>1. 1 \in Index /\ h[1] \in Nat
    BY WidthAssumption DEF Index, WireValue, Bit, U
  <2>2. Number(h)[1] = Number(h)[0] + h[1] * Pow[0]
    BY <2>1, NumberDef
  <2>3. h[1] * 1 = h[1] /\ 0 + h[1] = h[1] /\ 2 * 0 + h[1] = h[1]
    BY <2>1
  <2>4. Number(h)[0 + 1] = h[1] /\ Number(f)[0] = 0
    BY <2>2, <2>3, NumberDef, PowDef
  <2>5. 0 \in 0 .. W - 1
    BY WidthAssumption
  <2>6. QED
    BY <2>3, <2>4, <2>5
<1>2. ASSUME NEW k \in 0 .. W - 2, k \in S PROVE k + 1 \in S
  <2>1. k + 1 \in Index /\ k + 2 \in Index /\ h[k + 2] = f[k + 1] /\ h[1] \in Nat
    BY WidthAssumption DEF Index, WireValue, Bit, U
  <2>2. Number(h)[k + 2] = Number(h)[k + 1] + f[k + 1] * Pow[k + 1]
    BY <2>1, NumberDef
  <2>3. Number(f)[k + 1] = Number(f)[k] + f[k + 1] * Pow[k]
    BY <2>1, NumberDef
  <2>4. Pow[k + 1] = 2 * Pow[k]
    BY <2>1, PowDef
  <2>5. Number(f)[k] \in Nat /\ Pow[k] \in Nat /\ f[k + 1] \in {0, 1, 2}
    <3>1. k \in 0 .. W
      BY WidthAssumption
    <3>2. f[k + 1] \in {0, 1, 2}
      BY <2>1 DEF WireValue, Bit, U
    <3>3. QED
      BY <3>1, <3>2, NumberDef, PowDef
  <2>6. Number(h)[k + 1] = 2 * Number(f)[k] + h[1]
    BY <1>2
  <2>7. Number(h)[k + 2] = 2 * Number(f)[k + 1] + h[1]
    BY <2>1, <2>2, <2>3, <2>4, <2>5, <2>6
  <2>8. QED
    BY <2>7, WidthAssumption
<1>3. 0 .. W - 1 \subseteq S
  <2> HIDE DEF S
  <2>1. W - 1 \in Nat /\ (W - 1) - 1 = W - 2
    BY WidthAssumption
  <2>2. QED
    BY <1>1, <1>2, <2>1, Induction
<1>4. QED
  BY <1>3

\* All wires, read from the highest, carry the number read from the lowest.
LEMMA LeadingIsNumber ==
  ASSUME NEW f \in [Index -> WireValue]
  PROVE  Leading(f)[W] = Number(f)[W]
<1> DEFINE S == {k \in 0 .. W : Number(f)[W] = Leading(f)[k] * Pow[W - k] + Number(f)[W - k]}
<1>1. 0 \in S
  BY NumberDef, LeadingDef, PowDef, WidthAssumption
<1>2. ASSUME NEW k \in 0 .. W - 1, k \in S PROVE k + 1 \in S
  <2>1. k + 1 \in Index /\ W - k \in Index /\ W - (k + 1) = (W - k) - 1 /\ W + 1 - (k + 1) = W - k
    BY WidthAssumption DEF Index
  <2>2. Leading(f)[k + 1] = 2 * Leading(f)[k] + f[W - k]
    BY <2>1, LeadingDef
  <2>3. Number(f)[W - k] = Number(f)[W - (k + 1)] + f[W - k] * Pow[W - (k + 1)]
    BY <2>1, NumberDef
  <2>4. Pow[W - k] = 2 * Pow[W - (k + 1)]
    BY <2>1, PowDef
  <2> DEFINE l == Leading(f)[k]
             p == Pow[W - (k + 1)]
             t == f[W - k]
             u == Number(f)[W - (k + 1)]
  <2>5. l \in Nat /\ p \in Nat /\ t \in {0, 1, 2} /\ u \in Nat
    <3>1. k \in 0 .. W /\ W - (k + 1) \in 0 .. W
      BY WidthAssumption
    <3>2. QED
      BY <2>1, <3>1, LeadingDef, PowDef, NumberDef DEF WireValue, Bit, U
  <2>6. Number(f)[W] = l * (2 * p) + (u + t * p)
    BY <1>2, <2>3, <2>4
  <2> HIDE DEF l, p, t, u
  <2>7. l * (2 * p) + (u + t * p) = (2 * l + t) * p + u
    <3>1. CASE t = 0
      BY <2>5, <3>1
    <3>2. CASE t = 1
      BY <2>5, <3>2
    <3>3. CASE t = 2
      BY <2>5, <3>3
    <3>4. QED
      BY <2>5, <3>1, <3>2, <3>3
  <2>8. Number(f)[W] = Leading(f)[k + 1] * Pow[W - (k + 1)] + Number(f)[W - (k + 1)]
    BY <2>2, <2>6, <2>7 DEF l, p, t, u
  <2>9. QED
    BY <2>8, WidthAssumption
<1>3. 0 .. W \subseteq S
  <2> HIDE DEF S
  <2>1. QED
    BY <1>1, <1>2, Induction, WidthAssumption
<1>4. Number(f)[W] = Leading(f)[W] * Pow[W - W] + Number(f)[W - W]
  BY <1>3, WidthAssumption
<1>5. W - W = 0 /\ Leading(f)[W] \in Nat
  BY LeadingDef, WidthAssumption
<1>6. QED
  BY <1>4, <1>5, PowDef, NumberDef

(***************************************************************************)
(* NewAdder, NewSubtractor and the comparators                             *)
(***************************************************************************)
\* The cells, as arithmetic on bits.
LEMMA HalfAdderCell ==
  ASSUME NEW p \in Bit, NEW q \in Bit
  PROVE  /\ HalfSum(p, q) \in Bit /\ HalfCarry(p, q) \in Bit
         /\ HalfSum(p, q) + 2 * HalfCarry(p, q) = p + q
BY DEF Bit, U, HalfSum, HalfCarry, Xor, And

LEMMA FullAdderCell ==
  ASSUME NEW p \in Bit, NEW q \in Bit, NEW s \in Bit
  PROVE  /\ FullSum(p, q, s) \in Bit /\ FullCarry(p, q, s) \in Bit
         /\ FullSum(p, q, s) + 2 * FullCarry(p, q, s) = p + q + s
BY DEF Bit, U, FullSum, FullCarry, Xor, And

LEMMA SubtractorCell ==
  ASSUME NEW p \in Bit, NEW q \in Bit, NEW s \in Bit
  PROVE  /\ FullDiff(q, p, s) \in Bit /\ FullBorrow(q, p, s) \in Bit
         /\ FullDiff(q, p, s) + q + s = p + 2 * FullBorrow(q, p, s)
BY DEF Bit, U, FullDiff, FullBorrow, Xor, Xnor, And

LEMMA ComparatorCell ==
  ASSUME NEW p \in Bit, NEW q \in Bit, NEW s \in Bit
  PROVE  /\ CompareCell(p, q, s) \in Bit
         /\ CompareCell(p, q, s) = IF p = q THEN s ELSE p
BY DEF Bit, U, CompareCell, Xor, Xnor, And

LEMMA SignCell ==
  ASSUME NEW p \in Bit, NEW q \in Bit, NEW s \in Bit
  PROVE  Mux(Xor(p, q), q, s) = IF p = q THEN s ELSE q
BY DEF Bit, U, Mux, Xor, And
-----------------------------------------------------------------------------
\* A comparator's carry compares the bits read so far.
Compared ==
  /\ op \in {"ugt", "igt"} => (c = 1 <=> Number(x)[i] > Number(y)[i])
  /\ op \in {"uge", "ige"} => (c = 1 <=> Number(x)[i] >= Number(y)[i])

\* The inductive invariant.
RInv ==
  /\ RTypeOK
  /\ i = 0 => c = CarryIn(op)
  /\ PartialSum
  /\ Compared
  /\ r # U => i = W
  /\ Compares

LEMMA RInitInv == RInit => RInv
<1> SUFFICES ASSUME RInit PROVE RInv
  OBVIOUS
<1>1. c \in Bit /\ U \notin Bit
  BY DEF RInit, CarryIn, Bit, U
<1>2. RTypeOK
  BY <1>1, WidthAssumption DEF RInit, RTypeOK, Op, WireValue, Operand
<1>3. /\ Number(x)[0] = 0
      /\ Number(y)[0] = 0
      /\ Number(z)[0] = 0
  BY <1>2, NumberDef DEF RTypeOK, Operand, WireValue
<1>4. PartialSum
  BY <1>3, PowDef DEF RInit, PartialSum, CarryIn
<1>5. Compared
  BY <1>3 DEF RInit, Compared, CarryIn
<1>6. QED
  BY <1>2, <1>4, <1>5 DEF RInit, RInv, Compares

\* Facts about the state every step starts from.
LEMMA StepFacts ==
  ASSUME RTypeOK, i < W
  PROVE  /\ i + 1 \in Index /\ i \in 0 .. W /\ i + 1 \in 0 .. W
         /\ x[i + 1] \in Bit /\ y[i + 1] \in Bit
         /\ Pow[i] \in Nat \ {0} /\ Pow[i + 1] = 2 * Pow[i]
         /\ \A f \in [Index -> WireValue] :
              /\ Number(f)[i] \in Nat
              /\ Number(f)[i + 1] = Number(f)[i] + f[i + 1] * Pow[i]
         /\ x \in [Index -> WireValue] /\ y \in [Index -> WireValue]
<1>1. i + 1 \in Index /\ i \in 0 .. W /\ i + 1 \in 0 .. W /\ (i + 1) - 1 = i
  BY WidthAssumption DEF RTypeOK, Index
<1>2. x[i + 1] \in Bit /\ y[i + 1] \in Bit
  BY <1>1 DEF RTypeOK, Operand
<1>3. Pow[i] \in Nat \ {0} /\ Pow[i + 1] = 2 * Pow[i]
  BY <1>1, PowDef
<1>4. ASSUME NEW f \in [Index -> WireValue]
      PROVE  /\ Number(f)[i] \in Nat
             /\ Number(f)[i + 1] = Number(f)[i] + f[i + 1] * Pow[i]
  BY <1>1, NumberDef
<1>5. x \in [Index -> WireValue] /\ y \in [Index -> WireValue]
  BY DEF RTypeOK, Operand, WireValue
<1>6. QED
  BY <1>1, <1>2, <1>3, <1>4, <1>5

\* Adding a bit above the ones built keeps the number on those.
LEMMA NextBit ==
  ASSUME RTypeOK, i < W, NEW v \in Bit
  PROVE  LET zz == [z EXCEPT ![i + 1] = v] IN
         /\ zz \in [Index -> WireValue]
         /\ Number(zz)[i + 1] = Number(z)[i] + v * Pow[i]
<1> DEFINE zz == [z EXCEPT ![i + 1] = v]
<1>1. i + 1 \in Index /\ i \in 0 .. W /\ z \in [Index -> WireValue] /\ i \in Nat
  BY StepFacts DEF RTypeOK
<1>2. zz \in [Index -> WireValue] /\ zz[i + 1] = v
  BY <1>1 DEF WireValue
<1>3. \A k \in 1 .. i : zz[k] = z[k]
  BY <1>1 DEF Index
<1> HIDE DEF zz
<1>4. Number(zz)[i] = Number(z)[i]
  BY <1>1, <1>2, <1>3, NumberLocal
<1>5. QED
  BY <1>2, <1>4, StepFacts DEF zz

LEMMA AddCellInv == RInv /\ AddCell => RInv'
<1> SUFFICES ASSUME RInv, AddCell PROVE RInv'
  OBVIOUS
<1> DEFINE p == x[i + 1]
           q == y[i + 1]
           P == Pow[i]
           X == Number(x)[i]
           Y == Number(y)[i]
           N == Number(z)[i]
<1>1. RTypeOK /\ i < W /\ op = "add" /\ r = U
  BY DEF RInv, AddCell, RTypeOK
<1>2. N + c * P = X + Y /\ (i = 0 => c = 0)
  BY <1>1 DEF RInv, PartialSum, CarryIn
<1>3. PICK s \in Bit, t \in Bit : /\ z' = [z EXCEPT ![i + 1] = s]
                                  /\ c' = t
                                  /\ s + 2 * t = p + q + c
  <2>1. p \in Bit /\ q \in Bit /\ c \in Bit
    BY <1>1, StepFacts DEF RTypeOK
  <2>2. CASE i = 0
    <3>1. z' = [z EXCEPT ![i + 1] = HalfSum(p, q)] /\ c' = HalfCarry(p, q)
      BY <2>2 DEF AddCell
    <3>2. p + q + c = p + q
      BY <1>2, <2>1, <2>2 DEF Bit
    <3>3. HalfSum(p, q) \in Bit /\ HalfCarry(p, q) \in Bit /\ HalfSum(p, q) + 2 * HalfCarry(p, q) = p + q
      BY <2>1, HalfAdderCell
    <3>4. QED
      BY <3>1, <3>2, <3>3
  <2>3. CASE i # 0
    <3>1. z' = [z EXCEPT ![i + 1] = FullSum(p, q, c)] /\ c' = FullCarry(p, q, c)
      BY <2>3 DEF AddCell
    <3>2. FullSum(p, q, c) \in Bit /\ FullCarry(p, q, c) \in Bit /\ FullSum(p, q, c) + 2 * FullCarry(p, q, c) = p + q + c
      BY <2>1, FullAdderCell
    <3>3. QED
      BY <3>1, <3>2
  <2>4. QED
    BY <2>2, <2>3
<1>4. /\ z' \in [Index -> WireValue]
      /\ Number(z')[i + 1] = N + s * P
  BY <1>1, <1>3, NextBit
<1>5. i' = i + 1 /\ x' = x /\ y' = y /\ op' = op /\ r' = r /\ top' = top
  BY DEF AddCell
<1>6. RTypeOK'
  BY <1>1, <1>3, <1>4, <1>5, StepFacts DEF RTypeOK
<1>7. Number(z')[i'] + c' * Pow[i'] = Number(x')[i'] + Number(y')[i']
  <2>1. /\ Pow[i + 1] = 2 * P
        /\ Number(x)[i + 1] = X + p * P
        /\ Number(y)[i + 1] = Y + q * P
        /\ X \in Nat /\ Y \in Nat /\ N \in Nat /\ P \in Nat
    BY <1>1, StepFacts DEF RTypeOK
  <2>2. p \in {0, 1} /\ q \in {0, 1} /\ c \in {0, 1} /\ s \in {0, 1} /\ t \in {0, 1}
    BY <1>1, StepFacts DEF RTypeOK, Bit
  <2> HIDE DEF p, q, P, X, Y, N
  <2>3. N + s * P + t * (2 * P) = X + p * P + (Y + q * P)
    <3>1. CASE s = 0 /\ t = 0
      BY <1>2, <1>3, <2>1, <2>2, <3>1
    <3>2. CASE s = 1 /\ t = 0
      BY <1>2, <1>3, <2>1, <2>2, <3>2
    <3>3. CASE s = 0 /\ t = 1
      BY <1>2, <1>3, <2>1, <2>2, <3>3
    <3>4. CASE s = 1 /\ t = 1
      BY <1>2, <1>3, <2>1, <2>2, <3>4
    <3>5. QED
      BY <2>2, <3>1, <3>2, <3>3, <3>4
  <2>4. QED
    BY <1>3, <1>4, <1>5, <2>1, <2>3
<1>8. i' # 0
  BY <1>1, <1>5 DEF RTypeOK
<1>9. QED
  BY <1>1, <1>5, <1>6, <1>7, <1>8 DEF RInv, PartialSum, Compared, Compares

LEMMA SubCellInv == RInv /\ SubCell => RInv'
<1> SUFFICES ASSUME RInv, SubCell PROVE RInv'
  OBVIOUS
<1> DEFINE p == x[i + 1]
           q == y[i + 1]
           P == Pow[i]
           X == Number(x)[i]
           Y == Number(y)[i]
           N == Number(z)[i]
           s == FullDiff(q, p, c)
           t == FullBorrow(q, p, c)
<1>1. RTypeOK /\ i < W /\ op = "sub" /\ r = U
  BY DEF RInv, SubCell, RTypeOK
<1>2. N + Y = X + c * P
  BY <1>1 DEF RInv, PartialSum
<1>3. s \in Bit /\ t \in Bit /\ s + q + c = p + 2 * t
  <2>1. p \in Bit /\ q \in Bit /\ c \in Bit
    BY <1>1, StepFacts DEF RTypeOK
  <2>2. QED
    BY <2>1, SubtractorCell
<1>4. z' = [z EXCEPT ![i + 1] = s] /\ c' = t /\ i' = i + 1 /\ x' = x /\ y' = y /\ op' = op /\ r' = r /\ top' = top
  BY DEF SubCell
<1> HIDE DEF s, t
<1>5. /\ z' \in [Index -> WireValue]
      /\ Number(z')[i + 1] = N + s * P
  BY <1>1, <1>3, <1>4, NextBit
<1>6. RTypeOK'
  BY <1>1, <1>3, <1>4, <1>5, StepFacts DEF RTypeOK
<1>7. Number(z')[i'] + Number(y')[i'] = Number(x')[i'] + c' * Pow[i']
  <2>1. /\ Pow[i + 1] = 2 * P
        /\ Number(x)[i + 1] = X + p * P
        /\ Number(y)[i + 1] = Y + q * P
        /\ X \in Nat /\ Y \in Nat /\ N \in Nat /\ P \in Nat
    BY <1>1, StepFacts DEF RTypeOK
  <2>2. p \in {0, 1} /\ q \in {0, 1} /\ c \in {0, 1} /\ s \in {0, 1} /\ t \in {0, 1}
    BY <1>1, <1>3, StepFacts DEF RTypeOK, Bit
  <2> HIDE DEF p, q, P, X, Y, N
  <2>3. N + s * P + (Y + q * P) = X + p * P + t * (2 * P)
    <3>1. CASE s = 0 /\ t = 0
      BY <1>2, <1>3, <2>1, <2>2, <3>1
    <3>2. CASE s = 1 /\ t = 0
      BY <1>2, <1>3, <2>1, <2>2, <3>2
    <3>3. CASE s = 0 /\ t = 1
      BY <1>2, <1>3, <2>1, <2>2, <3>3
    <3>4. CASE s = 1 /\ t = 1
      BY <1>2, <1>3, <2>1, <2>2, <3>4
    <3>5. QED
      BY <2>2, <3>1, <3>2, <3>3, <3>4
  <2>4. QED
    BY <1>4, <1>5, <2>1, <2>3
<1>8. i' # 0
  BY <1>1, <1>4 DEF RTypeOK
<1>9. QED
  BY <1>1, <1>4, <1>6, <1>7, <1>8 DEF RInv, PartialSum, Compared, Compares

\* A higher bit decides a comparison, whatever the bits below it say.
LEMMA HigherBitDecides ==
  ASSUME NEW p \in Bit, NEW q \in Bit, NEW P \in Nat, NEW X \in Nat, NEW Y \in Nat, X < P, Y < P
  PROVE  /\ p = q => (X + p * P > Y + q * P <=> X > Y) /\ (X + p * P >= Y + q * P <=> X >= Y)
         /\ p # q => (X + p * P > Y + q * P <=> p = 1) /\ (X + p * P >= Y + q * P <=> p = 1)
<1>1. p \in {0, 1} /\ q \in {0, 1}
  BY DEF Bit
<1>2. CASE p = 0 /\ q = 0
  BY <1>2
<1>3. CASE p = 1 /\ q = 1
  BY <1>3
<1>4. CASE p = 0 /\ q = 1
  BY <1>4
<1>5. CASE p = 1 /\ q = 0
  BY <1>5
<1>6. QED
  BY <1>1, <1>2, <1>3, <1>4, <1>5

LEMMA TestCellInv == RInv /\ TestCell => RInv'
<1> SUFFICES ASSUME RInv, TestCell PROVE RInv'
  OBVIOUS
<1> DEFINE p == x[i + 1]
           q == y[i + 1]
           P == Pow[i]
           X == Number(x)[i]
           Y == Number(y)[i]
<1>1. RTypeOK /\ i < W /\ op \in {"ugt", "uge", "igt", "ige"} /\ r = U
  BY DEF RInv, TestCell, RTypeOK
<1>2. /\ Number(x)[i + 1] = X + p * P
      /\ Number(y)[i + 1] = Y + q * P
      /\ X \in Nat /\ Y \in Nat /\ P \in Nat
      /\ p \in Bit /\ q \in Bit /\ c \in Bit
  BY <1>1, StepFacts DEF RTypeOK
<1>3. X < P /\ Y < P
  <2>1. /\ x \in [Index -> WireValue] /\ \A k \in 1 .. i : x[k] \in Bit
        /\ y \in [Index -> WireValue] /\ \A k \in 1 .. i : y[k] \in Bit
        /\ i \in 0 .. W
    BY <1>1, WidthAssumption DEF RTypeOK, Operand, Index, WireValue
  <2>2. QED
    BY <2>1, NumberBound
<1>4. c' = (IF p = q THEN c ELSE p) /\ c' \in Bit
  <2>1. c' = CompareCell(p, q, c)
    BY DEF TestCell
  <2>2. QED
    BY <1>2, <2>1, ComparatorCell
<1>5. i' = i + 1 /\ x' = x /\ y' = y /\ op' = op /\ r' = r /\ z' = z /\ top' = top
  BY DEF TestCell
<1>6. RTypeOK'
  BY <1>1, <1>4, <1>5, StepFacts DEF RTypeOK
<1>7. Compared'
  <2> HIDE DEF p, q, P, X, Y
  <2>1. /\ p = q => (X + p * P > Y + q * P <=> X > Y) /\ (X + p * P >= Y + q * P <=> X >= Y)
        /\ p # q => (X + p * P > Y + q * P <=> p = 1) /\ (X + p * P >= Y + q * P <=> p = 1)
    BY <1>2, <1>3, HigherBitDecides
  <2>2. /\ op \in {"ugt", "igt"} => (c = 1 <=> X > Y)
        /\ op \in {"uge", "ige"} => (c = 1 <=> X >= Y)
    BY DEF RInv, Compared, X, Y
  <2>3. op \in {"ugt", "igt"} => (c' = 1 <=> X + p * P > Y + q * P)
    BY <1>4, <2>1, <2>2
  <2>4. op \in {"uge", "ige"} => (c' = 1 <=> X + p * P >= Y + q * P)
    BY <1>4, <2>1, <2>2
  <2>5. QED
    BY <1>2, <1>5, <2>3, <2>4 DEF Compared
<1>8. i' # 0
  BY <1>1, <1>5 DEF RTypeOK
<1>9. QED
  BY <1>1, <1>5, <1>6, <1>7, <1>8 DEF RInv, PartialSum, Compares

LEMMA CarryInv == RInv /\ Carry => RInv'
<1> SUFFICES ASSUME RInv, Carry PROVE RInv'
  OBVIOUS
<1>1. RTypeOK'
  BY DEF RInv, RTypeOK, Carry, WireValue, Bit
<1>2. QED
  BY <1>1 DEF RInv, RTypeOK, Carry, PartialSum, Compared, Compares

LEMMA UnsignInv == RInv /\ Unsign => RInv'
<1> SUFFICES ASSUME RInv, Unsign PROVE RInv'
  OBVIOUS
<1>1. RTypeOK'
  BY DEF RInv, RTypeOK, Unsign, WireValue
<1>2. QED
  BY <1>1 DEF RInv, RTypeOK, Unsign, PartialSum, Compared, Compares

LEMMA SignInv == RInv /\ Sign => RInv'
<1> SUFFICES ASSUME RInv, Sign PROVE RInv'
  OBVIOUS
<1> DEFINE p == x[W]
           q == y[W]
           P == Pow[W]
           X == Number(x)[W]
           Y == Number(y)[W]
<1>1. RTypeOK /\ op \in {"igt", "ige"} /\ i = W
  BY DEF RInv, Sign
<1>2. p \in Bit /\ q \in Bit /\ c \in Bit /\ W \in Index /\ W \in 0 .. W
  BY <1>1, WidthAssumption DEF RTypeOK, Operand, Index
<1>3. r' = IF p = q THEN c ELSE q
  BY <1>2, SignCell DEF Sign
<1>4. i' = i /\ x' = x /\ y' = y /\ op' = op /\ c' = c /\ z' = z /\ top' = top
  BY DEF Sign
<1>5. RTypeOK'
  BY <1>1, <1>2, <1>3, <1>4 DEF RTypeOK, WireValue
<1>6. /\ x \in [Index -> WireValue] /\ \A k \in 1 .. W : x[k] \in Bit
      /\ y \in [Index -> WireValue] /\ \A k \in 1 .. W : y[k] \in Bit
  BY <1>1 DEF RTypeOK, Operand, Index, WireValue
<1>7. X < P /\ Y < P /\ X \in Nat /\ Y \in Nat /\ P \in Nat
  BY <1>2, <1>6, NumberBound, NumberDef, PowDef
<1>8. /\ op = "igt" => (c = 1 <=> X > Y)
      /\ op = "ige" => (c = 1 <=> X >= Y)
  BY <1>1 DEF RInv, Compared
<1>9. /\ op = "igt" => (r' = 1 <=> X - p * P > Y - q * P)
      /\ op = "ige" => (r' = 1 <=> X - p * P >= Y - q * P)
  <2> HIDE DEF p, q, P, X, Y
  <2>1. p \in {0, 1} /\ q \in {0, 1}
    BY <1>2 DEF Bit
  <2>2. CASE p = 0 /\ q = 0
    BY <1>3, <1>7, <1>8, <2>2
  <2>3. CASE p = 1 /\ q = 1
    BY <1>3, <1>7, <1>8, <2>3
  <2>4. CASE p = 0 /\ q = 1
    BY <1>3, <1>7, <2>4
  <2>5. CASE p = 1 /\ q = 0
    BY <1>3, <1>7, <2>5
  <2>6. QED
    BY <2>1, <2>2, <2>3, <2>4, <2>5
<1>10. Compares'
  BY <1>1, <1>4, <1>9 DEF Compares, Signed
<1>11. QED
  BY <1>1, <1>4, <1>5, <1>10 DEF RInv, PartialSum, Compared

LEMMA RStepInv == RInv /\ [RNext]_rvars => RInv'
<1> SUFFICES ASSUME RInv, [RNext]_rvars PROVE RInv'
  OBVIOUS
<1>1. CASE UNCHANGED rvars
  BY <1>1 DEF rvars, RInv, RTypeOK, PartialSum, Compared, Compares
<1>2. QED
  BY <1>1, AddCellInv, SubCellInv, TestCellInv, CarryInv, UnsignInv, SignInv DEF RNext

\* Operands of every width: wires and carries of the loops have the values
\* of NewAdder, NewSubtractor and the comparators at all times.
THEOREM RTypeCorrect == RSpec => []RTypeOK
<1>1. RInv => RTypeOK
  BY DEF RInv
<1>2. QED
  BY <1>1, RInitInv, RStepInv, PTL DEF RSpec

\* The bits that NewAdder and NewSubtractor have built are with the carry the
\* sum, or the difference, of the bits they have read.
THEOREM SumIsRight == RSpec => []PartialSum
<1>1. RInv => PartialSum
  BY DEF RInv
<1>2. QED
  BY <1>1, RInitInv, RStepInv, PTL DEF RSpec

\* The comparators decide > and >= for signed and for unsigned numbers.
THEOREM ComparisonIsRight == RSpec => []Compares
<1>1. RInv => Compares
  BY DEF RInv
<1>2. QED
  BY <1>1, RInitInv, RStepInv, PTL DEF RSpec

(***************************************************************************)
(* NewUDividerLong                                                         *)
(***************************************************************************)
LEMMA BorrowCell ==
  ASSUME NEW p \in Bit, NEW q \in Bit, NEW s \in Bit
  PROVE  /\ FullDiff(q, p, s) \in Bit /\ FullBorrow(q, p, s) \in Bit
         /\ FullDiff(q, p, s) + q + s = p + 2 * FullBorrow(q, p, s)
BY DEF Bit, U, FullDiff, FullBorrow, Xor, Xnor, And

LEMMA MuxCell ==
  ASSUME NEW s \in Bit, NEW t \in Bit, NEW f \in Bit
  PROVE  Mux(s, t, f) = IF s = 1 THEN t ELSE f
BY DEF Bit, U, Mux, Xor, And

\* While the subtractor runs, the quotient is that of the bits before, and the
\* remainder has the next bit shifted in.
Between ==
  phase = "subtract" =>
    /\ n < W
    /\ A(n + 1) = 2 * Q(n) * B + R
    /\ B # 0 => R < 2 * B
    /\ B = 0 => Q(n) = Pow[n] - 1

\* The subtractor: bits of the difference and the borrow.
Subtracts ==
  phase = "subtract" =>
    /\ Number(diff)[j] + Number(b)[j] = Number(rem)[j] + borrow * Pow[j]
    /\ \A k \in 1 .. j : diff[k] \in Bit

\* The remainder of n bits has at most n bits: the shift drops a zero.
Fits ==
  /\ phase = "shift" => R < Pow[n]
  /\ phase = "subtract" => R < Pow[n + 1]

\* The inductive invariant.
DInv ==
  /\ DTypeOK
  /\ Divides
  /\ DivideByZero
  /\ Between
  /\ Subtracts
  /\ Fits

\* All zeros are the number zero.
LEMMA ZeroNumber ==
  ASSUME NEW f \in [Index -> WireValue], \A k \in Index : f[k] = 0
  PROVE  \A m \in 0 .. W : Number(f)[m] = 0
<1> DEFINE S == {k \in 0 .. W : Number(f)[k] = 0}
<1>1. 0 \in S
  BY NumberDef, WidthAssumption
<1>2. ASSUME NEW k \in 0 .. W - 1, k \in S PROVE k + 1 \in S
  <2>1. k + 1 \in Index /\ k \in 0 .. W /\ k + 1 \in 0 .. W
    BY WidthAssumption DEF Index
  <2>2. Number(f)[k + 1] = Number(f)[k] + f[k + 1] * Pow[k]
    BY <2>1, NumberDef
  <2>3. Pow[k] \in Nat
    BY <2>1, PowDef
  <2>4. QED
    BY <1>2, <2>1, <2>2, <2>3
<1>3. 0 .. W \subseteq S
  <2> HIDE DEF S
  <2>1. QED
    BY <1>1, <1>2, Induction, WidthAssumption
<1>4. QED
  BY <1>3

\* Numbers and powers are naturals; all operands are wire values.
LEMMA DTyped ==
  ASSUME DTypeOK
  PROVE  /\ a \in [Index -> WireValue] /\ b \in [Index -> WireValue] /\ rem \in [Index -> WireValue]
         /\ \A k \in 0 .. W : A(k) \in Nat /\ Q(k) \in Nat /\ Pow[k] \in Nat \ {0}
         /\ B \in Nat /\ R \in Nat
         /\ n \in 0 .. W /\ 0 \in 0 .. W /\ W \in 0 .. W
<1>1. a \in [Index -> WireValue] /\ b \in [Index -> WireValue] /\ rem \in [Index -> WireValue]
      /\ quo \in [Index -> WireValue]
  BY DEF DTypeOK, Operand, WireValue
<1>2. n \in 0 .. W /\ 0 \in 0 .. W /\ W \in 0 .. W
  BY WidthAssumption DEF DTypeOK
<1>3. QED
  BY <1>1, <1>2, LeadingDef, NumberDef, PowDef DEF A, Q, B, R

LEMMA DInitInv == DInit => DInv
<1> SUFFICES ASSUME DInit PROVE DInv
  OBVIOUS
<1>1. DTypeOK
  BY WidthAssumption DEF DInit, DTypeOK, Operand, WireValue, Bit
<1>2. A(0) = 0 /\ Q(0) = 0 /\ B \in Nat
  BY <1>1, DTyped, LeadingDef DEF A, Q, DTypeOK
<1>3. R = 0
  BY <1>1, DTyped, ZeroNumber, WidthAssumption DEF DInit, R, Index
<1>4. QED
  BY <1>1, <1>2, <1>3, PowDef DEF DInit, DInv, Divides, DivideByZero, Between, Subtracts, Fits

LEMMA ShiftInv == DInv /\ Shift => DInv'
<1> SUFFICES ASSUME DInv, Shift PROVE DInv'
  OBVIOUS
<1>1. DTypeOK /\ phase = "shift" /\ n < W
  BY DEF DInv, Shift
<1>2. /\ n + 1 \in Index /\ n \in 0 .. W /\ n + 1 \in 0 .. W /\ W - n \in Index
      /\ W + 1 - (n + 1) = W - n /\ (n + 1) - 1 = n
  BY <1>1, WidthAssumption DEF DTypeOK, Index
<1>3. a[W - n] \in Bit
  BY <1>1, <1>2 DEF DTypeOK, Operand
<1>4. /\ rem' = [k \in Index |-> IF k = 1 THEN a[W - n] ELSE rem[k - 1]]
      /\ j' = 0 /\ borrow' = 0 /\ diff' = [k \in Index |-> U] /\ phase' = "subtract"
      /\ a' = a /\ b' = b /\ n' = n /\ quo' = quo
  BY DEF Shift
<1>5. rem' \in Operand
  <2>1. ASSUME NEW k \in Index, k # 1 PROVE rem[k - 1] \in Bit
    <3>1. k - 1 \in Index
      BY <2>1, WidthAssumption DEF Index
    <3>2. QED
      BY <1>1, <3>1 DEF DTypeOK, Operand
  <2>2. QED
    BY <1>3, <1>4, <2>1 DEF Operand
<1>6. DTypeOK'
  BY <1>1, <1>4, <1>5, WidthAssumption DEF DTypeOK, WireValue, Bit
<1>7. rem \in [Index -> WireValue] /\ rem' \in [Index -> WireValue]
  BY <1>1, <1>5 DEF DTypeOK, Operand, WireValue
\* The bit that is dropped is zero.
<1>8. R' = 2 * R + a[W - n]
  <2>1. rem'[1] = a[W - n] /\ \A k \in 1 .. W - 1 : rem'[k + 1] = rem[k]
    BY <1>4, WidthAssumption DEF Index
  <2>2. \A m \in 0 .. W - 1 : Number(rem')[m + 1] = 2 * Number(rem)[m] + rem'[1]
    BY <1>7, <2>1, NumberShift
  <2>3. W - 1 \in 0 .. W - 1 /\ (W - 1) + 1 = W /\ W - 1 \in 0 .. W /\ W \in Index
    BY WidthAssumption DEF Index
  <2>4. Number(rem')[W] = 2 * Number(rem)[W - 1] + a[W - n]
    BY <2>1, <2>2, <2>3
  <2>5. Number(rem)[W] = Number(rem)[W - 1] + rem[W] * Pow[W - 1]
    BY <1>7, <2>3, NumberDef
  <2>6. rem[W] = 0
    <3>1. R < Pow[n]
      BY <1>1 DEF DInv, Fits
    <3>2. Pow[n] <= Pow[W - 1]
      BY <1>1, <1>2, <2>3, PowGrows
    <3>3. rem[W] \in {0, 1} /\ Pow[W - 1] \in Nat /\ Pow[n] \in Nat /\ Number(rem)[W - 1] \in Nat
      BY <1>1, <1>2, <1>7, <2>3, PowDef, NumberDef DEF DTypeOK, Operand, Bit
    <3>4. CASE rem[W] = 1
      BY <2>5, <3>1, <3>2, <3>3, <3>4 DEF R
    <3>5. QED
      BY <3>3, <3>4
  <2>7. Number(rem)[W - 1] = R
    <3>1. Number(rem)[W - 1] \in Nat /\ Pow[W - 1] \in Nat
      BY <1>7, <2>3, PowDef, NumberDef
    <3>2. QED
      BY <2>5, <2>6, <3>1 DEF R
  <2>8. QED
    BY <2>4, <2>7 DEF R
<1>9. A(n + 1) = 2 * A(n) + a[W - n]
  BY <1>1, <1>2, DTyped, LeadingDef DEF A
<1>10. Pow[n + 1] = 2 * Pow[n]
  BY <1>2, PowDef
<1>11. /\ A(n) \in Nat /\ Q(n) \in Nat /\ R \in Nat /\ B \in Nat /\ Pow[n] \in Nat
       /\ a[W - n] \in {0, 1}
  BY <1>1, <1>2, <1>3, DTyped DEF Bit
<1>12. A(n) = Q(n) * B + R /\ (B # 0 => R < B) /\ (B = 0 => Q(n) = Pow[n] - 1) /\ R < Pow[n]
  BY <1>1 DEF DInv, Divides, DivideByZero, Fits
<1>13. A(n)' = A(n) /\ A(n + 1)' = A(n + 1) /\ Q(n)' = Q(n) /\ B' = B
  BY <1>4 DEF A, Q, B
<1>14. Between'
  <2>1. 2 * (Q(n) * B) = 2 * Q(n) * B
    BY <1>11
  <2>2. A(n + 1) = 2 * Q(n) * B + R'
    BY <1>8, <1>9, <1>11, <1>12, <2>1
  <2>3. B # 0 => R' < 2 * B
    BY <1>8, <1>11, <1>12
  <2>4. QED
    BY <1>1, <1>4, <1>12, <1>13, <2>2, <2>3 DEF Between
<1>15. Subtracts'
  <2>1. Number(diff')[0] = 0 /\ Number(b)[0] = 0 /\ Number(rem')[0] = 0
    BY <1>1, <1>6, <1>7, DTyped, NumberDef DEF DTypeOK
  <2>2. QED
    BY <1>4, <2>1, PowDef DEF Subtracts
<1>16. Fits'
  BY <1>4, <1>8, <1>10, <1>11, <1>12 DEF Fits
<1>17. QED
  BY <1>4, <1>6, <1>14, <1>15, <1>16 DEF DInv, Divides, DivideByZero

LEMMA SubtractInv == DInv /\ Subtract => DInv'
<1> SUFFICES ASSUME DInv, Subtract PROVE DInv'
  OBVIOUS
<1> DEFINE p == rem[j + 1]
           q == b[j + 1]
           P == Pow[j]
           X == Number(rem)[j]
           Y == Number(b)[j]
           N == Number(diff)[j]
           s == FullDiff(q, p, borrow)
           t == FullBorrow(q, p, borrow)
<1>1. DTypeOK /\ j < W /\ phase = "subtract"
  BY DEF DInv, Subtract
<1>2. j + 1 \in Index /\ j \in 0 .. W /\ j + 1 \in 0 .. W /\ (j + 1) - 1 = j /\ j \in Nat
  BY <1>1, WidthAssumption DEF DTypeOK, Index
<1>3. p \in Bit /\ q \in Bit /\ borrow \in Bit
  BY <1>1, <1>2 DEF DTypeOK, Operand
<1>4. s \in Bit /\ t \in Bit /\ s + q + borrow = p + 2 * t
  BY <1>3, BorrowCell
<1>5. /\ diff' = [diff EXCEPT ![j + 1] = s] /\ borrow' = t /\ j' = j + 1
      /\ a' = a /\ b' = b /\ n' = n /\ quo' = quo /\ rem' = rem /\ phase' = phase
  BY DEF Subtract
<1> HIDE DEF s, t
<1>6. diff' \in [Index -> WireValue] /\ diff \in [Index -> WireValue] /\ diff'[j + 1] = s
  BY <1>1, <1>2, <1>4, <1>5 DEF DTypeOK, WireValue
<1>7. DTypeOK'
  BY <1>1, <1>2, <1>4, <1>5, <1>6 DEF DTypeOK
<1>8. \A k \in 1 .. j : diff'[k] = diff[k]
  BY <1>2, <1>5, <1>6 DEF Index
<1>9. Number(diff')[j] = N
  BY <1>2, <1>6, <1>8, NumberLocal
<1>10. N + Y = X + borrow * P /\ \A k \in 1 .. j : diff[k] \in Bit
  BY <1>1 DEF DInv, Subtracts
<1>11. Number(diff')[j + 1] + Number(b)[j + 1] = Number(rem)[j + 1] + t * Pow[j + 1]
  <2>1. /\ Pow[j + 1] = 2 * P
        /\ Number(rem)[j + 1] = X + p * P
        /\ Number(b)[j + 1] = Y + q * P
        /\ Number(diff')[j + 1] = N + s * P
        /\ X \in Nat /\ Y \in Nat /\ N \in Nat /\ P \in Nat
    <3>1. rem \in [Index -> WireValue] /\ b \in [Index -> WireValue]
      BY <1>1, DTyped
    <3>2. Number(rem)[j + 1] = X + p * P /\ X \in Nat
      BY <1>2, <3>1, NumberDef
    <3>3. Number(b)[j + 1] = Y + q * P /\ Y \in Nat
      BY <1>2, <3>1, NumberDef
    <3>4. Number(diff')[j + 1] = Number(diff')[j] + diff'[j + 1] * P
      BY <1>2, <1>6, NumberDef
    <3>5. N \in Nat
      BY <1>2, <1>6, NumberDef
    <3>6. Pow[j + 1] = 2 * P /\ P \in Nat
      BY <1>2, PowDef
    <3>7. QED
      BY <1>6, <1>9, <3>2, <3>3, <3>4, <3>5, <3>6
  <2>2. p \in {0, 1} /\ q \in {0, 1} /\ borrow \in {0, 1} /\ s \in {0, 1} /\ t \in {0, 1}
    BY <1>3, <1>4 DEF Bit
  <2> HIDE DEF p, q, P, X, Y, N
  <2>3. N + s * P + (Y + q * P) = X + p * P + t * (2 * P)
    <3>1. CASE s = 0 /\ t = 0
      BY <1>4, <1>10, <2>1, <2>2, <3>1
    <3>2. CASE s = 1 /\ t = 0
      BY <1>4, <1>10, <2>1, <2>2, <3>2
    <3>3. CASE s = 0 /\ t = 1
      BY <1>4, <1>10, <2>1, <2>2, <3>3
    <3>4. CASE s = 1 /\ t = 1
      BY <1>4, <1>10, <2>1, <2>2, <3>4
    <3>5. QED
      BY <2>2, <3>1, <3>2, <3>3, <3>4
  <2>4. QED
    BY <2>1, <2>3
<1>12. \A k \in 1 .. j + 1 : diff'[k] \in Bit
  BY <1>2, <1>4, <1>6, <1>8, <1>10
<1>13. Subtracts'
  BY <1>5, <1>11, <1>12 DEF Subtracts
<1>14. A(n + 1)' = A(n + 1) /\ Q(n)' = Q(n) /\ B' = B /\ R' = R
  BY <1>5 DEF A, Q, B, R
<1>15. QED
  BY <1>1, <1>5, <1>7, <1>13, <1>14 DEF DInv, Divides, DivideByZero, Between, Fits

LEMMA SelectInv == DInv /\ Select => DInv'
<1> SUFFICES ASSUME DInv, Select PROVE DInv'
  OBVIOUS
<1> DEFINE D == Number(diff)[W]
           P == Pow[W]
           s == borrow
<1>1. DTypeOK /\ j = W /\ phase = "subtract" /\ n < W
  BY DEF DInv, Select, Between
<1>2. /\ n + 1 \in Index /\ n \in 0 .. W /\ n + 1 \in 0 .. W /\ W - n \in Index /\ W \in 0 .. W
      /\ W + 1 - (n + 1) = W - n /\ (n + 1) - 1 = n
  BY <1>1, WidthAssumption DEF DTypeOK, Index
<1>3. \A k \in Index : rem[k] \in Bit /\ diff[k] \in Bit
  BY <1>1 DEF DInv, Subtracts, DTypeOK, Operand, Index
<1>4. s \in {0, 1} /\ s \in Bit
  BY <1>1 DEF DTypeOK, Bit
<1>5. quo' = [quo EXCEPT ![W - n] = 1 - s]
  <2>1. Mux(borrow, 0, 1) = 1 - s
    BY <1>4, MuxCell DEF Bit
  <2>2. QED
    BY <2>1 DEF Select
<1>6. rem' = IF s = 1 THEN rem ELSE diff
  <2>1. rem' = [k \in Index |-> IF s = 1 THEN rem[k] ELSE diff[k]]
    BY <1>3, <1>4, MuxCell DEF Select
  <2>2. rem = [k \in Index |-> rem[k]] /\ diff = [k \in Index |-> diff[k]]
    BY <1>1 DEF DTypeOK, Operand
  <2>3. QED
    BY <2>1, <2>2
<1>7. /\ a' = a /\ b' = b /\ n' = n + 1 /\ phase' = "shift"
      /\ j' = j /\ borrow' = borrow /\ diff' = diff
  BY DEF Select
<1>8. rem \in [Index -> WireValue] /\ diff \in [Index -> WireValue] /\ rem \in Operand /\ diff \in Operand
  BY <1>1, <1>3 DEF DTypeOK, Operand, WireValue
<1>9. quo \in [Index -> WireValue] /\ quo' \in [Index -> WireValue] /\ quo'[W - n] = 1 - s
  <2>1. 1 - s \in WireValue
    BY <1>4 DEF WireValue, Bit, U
  <2>2. QED
    BY <1>1, <1>2, <1>5, <2>1 DEF DTypeOK
<1>10. DTypeOK'
  BY <1>1, <1>2, <1>6, <1>7, <1>8, <1>9 DEF DTypeOK
<1>11. /\ A(n + 1) = 2 * Q(n) * B + R /\ (B # 0 => R < 2 * B) /\ (B = 0 => Q(n) = Pow[n] - 1)
       /\ D + B = R + s * P
       /\ R < Pow[n + 1]
  BY <1>1 DEF DInv, Between, Subtracts, Fits, B, R
<1>12. /\ A(n + 1) \in Nat /\ Q(n) \in Nat /\ B \in Nat /\ R \in Nat /\ D \in Nat /\ P \in Nat
       /\ Pow[n] \in Nat /\ Pow[n + 1] \in Nat
  <2>1. D \in Nat /\ P \in Nat /\ Pow[n + 1] \in Nat
    BY <1>2, <1>8, NumberDef, PowDef
  <2>2. QED
    BY <1>1, <1>2, <2>1, DTyped
<1>13. D < P /\ R < P
  <2>1. \A k \in 1 .. W : rem[k] \in Bit /\ diff[k] \in Bit
    BY <1>3 DEF Index
  <2>2. QED
    BY <1>2, <1>8, <2>1, NumberBound DEF R
<1>14. R' = IF s = 1 THEN R ELSE D
  BY <1>6 DEF R
<1>15. Leading(quo')[n + 1] = 2 * Q(n) + (1 - s)
  <2>1. \A k \in W + 1 - n .. W : quo'[k] = quo[k]
    BY <1>2, <1>5, <1>9, WidthAssumption DEF Index
  <2>2. Leading(quo')[n] = Leading(quo)[n]
    BY <1>2, <1>9, <2>1, LeadingLocal
  <2>3. Leading(quo')[n + 1] = 2 * Leading(quo')[n] + quo'[W - n]
    BY <1>2, <1>9, LeadingDef
  <2>4. QED
    BY <1>9, <2>2, <2>3 DEF Q
<1>16. Pow[n + 1] = 2 * Pow[n]
  BY <1>2, PowDef
<1>17. A(n + 1) = (2 * Q(n) + (1 - s)) * B + R'
  <2>1. CASE s = 1
    BY <1>11, <1>12, <1>14, <2>1
  <2>2. CASE s = 0
    <3>1. (2 * Q(n) + (1 - s)) * B = 2 * Q(n) * B + B
      BY <1>12, <2>2
    <3>2. R' = D /\ D + B = R /\ 2 * Q(n) * B \in Nat
      BY <1>11, <1>12, <1>14, <2>2
    <3>3. QED
      BY <1>11, <1>12, <3>1, <3>2
  <2>3. QED
    BY <1>4, <2>1, <2>2
<1>18. (B # 0 => R' < B) /\ R' < Pow[n + 1] /\ (B = 0 => s = 0)
  <2> HIDE DEF D, P, s
  <2>1. CASE s = 1
    BY <1>11, <1>12, <1>13, <1>14, <2>1
  <2>2. CASE s = 0
    BY <1>11, <1>12, <1>13, <1>14, <2>2
  <2>3. QED
    BY <1>4, <2>1, <2>2
<1>19. A(n)' = A(n + 1) /\ Q(n)' = 2 * Q(n) + (1 - s) /\ B' = B
  BY <1>7, <1>15 DEF A, Q, B
<1>20. Divides'
  BY <1>17, <1>18, <1>19 DEF Divides
<1>21. DivideByZero'
  <2> SUFFICES ASSUME B = 0 PROVE Q(n)' = Pow[n'] - 1 /\ R' = A(n)'
    BY <1>19 DEF DivideByZero
  <2>1. 2 * Q(n) + (1 - s) = Pow[n + 1] - 1
    BY <1>11, <1>12, <1>16, <1>18
  <2>2. R' \in Nat /\ (2 * Q(n) + (1 - s)) * B = 0
    BY <1>4, <1>12, <1>14
  <2>3. R' = A(n + 1)
    BY <1>17, <2>2
  <2>4. QED
    BY <1>7, <1>19, <2>1, <2>3
<1>22. Fits'
  BY <1>7, <1>18 DEF Fits
<1>23. QED
  BY <1>7, <1>10, <1>20, <1>21, <1>22 DEF DInv, Between, Subtracts

LEMMA DStepInv == DInv /\ [DNext]_dvars => DInv'
<1> SUFFICES ASSUME DInv, [DNext]_dvars PROVE DInv'
  OBVIOUS
<1>1. CASE UNCHANGED dvars
  BY <1>1 DEF dvars, DInv, DTypeOK, Divides, DivideByZero, Between, Subtracts, Fits, A, Q, B, R
<1>2. QED
  BY <1>1, ShiftInv, SubtractInv, SelectInv DEF DNext

\* The wires of the divider hold bits, for every width and in all its phases.
THEOREM DTypeCorrect == DSpec => []DTypeOK
<1>1. DInv => DTypeOK
  BY DEF DInv
<1>2. QED
  BY <1>1, DInitInv, DStepInv, PTL DEF DSpec

\* Long division keeps dividend = quotient * divisor + remainder in every pass.
THEOREM DivisionIsRight == DSpec => []Divides
<1>1. DInv => Divides
  BY DEF DInv
<1>2. QED
  BY <1>1, DInitInv, DStepInv, PTL DEF DSpec

\* A divisor of zero sets every bit of the quotient and keeps the dividend.
THEOREM ZeroDivisor == DSpec => []DivideByZero
<1>1. DInv => DivideByZero
  BY DEF DInv
<1>2. QED
  BY <1>1, DInitInv, DStepInv, PTL DEF DSpec

\* The result, as numbers: dividend = quotient * divisor + remainder.
THEOREM DividesNumbers == DSpec => [](phase = "shift" /\ n = W => Number(a)[W] = Number(quo)[W] * B + R)
<1>1. DInv => (phase = "shift" /\ n = W => Number(a)[W] = Number(quo)[W] * B + R)
  <2> SUFFICES ASSUME DInv, phase = "shift", n = W
               PROVE  Number(a)[W] = Number(quo)[W] * B + R
    OBVIOUS
  <2>1. a \in [Index -> WireValue] /\ quo \in [Index -> WireValue]
    BY DTyped DEF DInv, DTypeOK
  <2>2. Leading(a)[W] = Number(a)[W] /\ Leading(quo)[W] = Number(quo)[W]
    BY <2>1, LeadingIsNumber
  <2>3. QED
    BY <2>2 DEF DInv, Divides, A, Q
<1>2. QED
  BY <1>1, DInitInv, DStepInv, PTL DEF DSpec
=============================================================================
