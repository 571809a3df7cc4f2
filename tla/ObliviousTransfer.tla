------------------------- MODULE ObliviousTransfer -------------------------
(***************************************************************************)
(* The Chou-Orlandi transfer of a batch of wire labels: the helpers of     *)
(* ot/co_helpers.go in the order in which CO.Send and CO.Receive call them.*)
(* The sender has two labels for each of its wires and the receiver a      *)
(* choice flag for each of its flags; the counts may differ.               *)
(*                                                                         *)
(* The curve is any commutative group of prime order with a generator; its *)
(* identity has no affine coordinates that are on the curve.  A pad is     *)
(* known by the point and the index that deriveMask hashes, so opening a   *)
(* ciphertext with another pad yields no label.                            *)
(***************************************************************************)
EXTENDS Naturals

CONSTANTS Scalar,              \* 0..(N - 1)
          Point, Infinity, G,  \* the group, its identity, the base point
          Plus(_, _), Neg(_),  \* Add and the change of sign of y
          Mul(_, _),           \* ScalarMult
          MaxCount,            \* bound: wires in a batch
          NoLabel              \* bits that are no label of the sender

ASSUME GroupAssumption ==
    /\ G \in Point /\ Infinity \in Point
    /\ \A p \in Point : /\ Neg(p) \in Point /\ Plus(p, Neg(p)) = Infinity
                        /\ Plus(p, Infinity) = p
    /\ \A p, q \in Point : Plus(p, q) \in Point /\ Plus(p, q) = Plus(q, p)
    /\ \A p, q, o \in Point : Plus(Plus(p, q), o) = Plus(p, Plus(q, o))

\* Multiples: ScalarMult is linear and commutes, every point is a multiple
\* of the base point, and only zero makes the identity of another point.
ASSUME MultiplesAssumption ==
    /\ \A a \in Scalar : \A p \in Point : Mul(a, p) \in Point
    /\ \A a \in Scalar : \A p, q \in Point :
         Mul(a, Plus(p, q)) = Plus(Mul(a, p), Mul(a, q))
    /\ \A a, b \in Scalar : \A p \in Point : Mul(a, Mul(b, p)) = Mul(b, Mul(a, p))
    /\ \A p \in Point : \E a \in Scalar : p = Mul(a, G)
    /\ \A a \in Scalar : \A p \in Point :
         Mul(a, p) = Infinity /\ p # Infinity => Mul(a, G) = Infinity

Label == [wire : 1..MaxCount, bit : {0, 1}]
LabelOf(i, bit) == [wire |-> i, bit |-> bit]
ASSUME CountAssumption == MaxCount \in Nat \ {0} /\ NoLabel \notin Label

VARIABLES phase,     \* "start", "setup", "chosen", "sealed", "done", "failed"
          wires,     \* how many wires the sender has labels for
          flags,     \* the receiver's choice flags
          a, A,      \* the sender's scalar and its point
          scalars,   \* the receiver's scalars
          points,    \* the receiver's points
          sealed,    \* the ciphertexts: what is sealed under which pad
          result     \* the labels the receiver gets

vars == <<phase, wires, flags, a, A, scalars, points, sealed, result>>

Count == DOMAIN flags
Chosen(i) == IF flags[i] THEN 1 ELSE 0

\* ensureOnCurve for points of the group.
\* Mutant: nothing is checked.
OnCurve_Any(p) == p \in Point
OnCurve(p) == p # Infinity

\* deriveMask, and xor of a pad with a label or a ciphertext.
\* Mutant: the index is not hashed.
Pad_NoIndex(p, i) == [point |-> p, index |-> 1]
Pad(p, i) == [point |-> p, index |-> i]
Seal(pad, l) == [pad |-> pad, label |-> l]
Open(pad, c) == IF c.pad = pad THEN c.label ELSE NoLabel
Ciphertext == [pad : [point : Point, index : 1..MaxCount], label : Label]

Init ==
    /\ phase = "start"
    /\ wires \in 1..MaxCount
    /\ \E n \in 1..MaxCount : flags \in [1..n -> BOOLEAN]
    /\ a \in Scalar /\ A = Infinity
    /\ scalars = [i \in {} |-> a] /\ points = [i \in {} |-> G]
    /\ sealed = [i \in {} |-> NoLabel] /\ result = [i \in {} |-> NoLabel]

(***************************************************************************)
(* GenerateCOSenderSetup; the scalar was drawn in Init.                    *)
(***************************************************************************)
GenerateCOSenderSetup ==
    /\ phase = "start"
    /\ phase' = "setup"
    /\ A' = Mul(a, G)
    /\ UNCHANGED <<wires, flags, a, scalars, points, sealed, result>>

\* A^{-a}, which is kept in the setup.
AaInv == Neg(Mul(a, A))

(***************************************************************************)
(* BuildCOChoices                                                          *)
(***************************************************************************)
\* Mutant: zero is never drawn.
Drawn_NonZero == {s \in Scalar : Mul(s, G) # Infinity}
Drawn == Scalar

\* Mutant: the other bit adds A.
Choice_Swapped(bit, s) == IF bit THEN Mul(s, G) ELSE Plus(Mul(s, G), A)
Choice(bit, s) == IF bit THEN Plus(Mul(s, G), A) ELSE Mul(s, G)

Fail ==
    /\ phase' = "failed"
    /\ UNCHANGED <<wires, flags, a, A, scalars, points, sealed, result>>

RefuseSetup == phase = "setup" /\ ~OnCurve(A) /\ Fail

BuildCOChoices ==
    /\ phase = "setup" /\ OnCurve(A)
    /\ phase' = "chosen"
    /\ scalars' \in [Count -> Drawn]
    /\ points' = [i \in Count |-> Choice(flags[i], scalars'[i])]
    /\ UNCHANGED <<wires, flags, a, A, sealed, result>>

(***************************************************************************)
(* EncryptCOCiphertexts                                                    *)
(***************************************************************************)
Encryptable == /\ OnCurve(A) /\ Count = 1..wires
               /\ \A i \in Count : OnCurve(points[i])

RefuseChoices == phase = "chosen" /\ ~Encryptable /\ Fail

\* The points whose hashes seal the labels of wire i.
Zero(i) == Mul(a, points[i])
One(i) == Plus(Mul(a, points[i]), AaInv)

EncryptCOCiphertexts ==
    /\ phase = "chosen" /\ Encryptable
    /\ phase' = "sealed"
    /\ sealed' = [i \in Count |->
         [zero |-> Seal(Pad(Zero(i), i), LabelOf(i, 0)),
          one  |-> Seal(Pad(One(i), i), LabelOf(i, 1))]]
    /\ UNCHANGED <<wires, flags, a, A, scalars, points, result>>

(***************************************************************************)
(* DecryptCOCiphertexts.  The sender never answers with another count than *)
(* that of the points, so the count test cannot fail here.                 *)
(***************************************************************************)
ReceiverPad(i) == Pad(Mul(scalars[i], A), i)

DecryptCOCiphertexts ==
    /\ phase = "sealed" /\ DOMAIN sealed = Count
    /\ phase' = "done"
    /\ result' = [i \in Count |->
         Open(ReceiverPad(i), IF flags[i] THEN sealed[i].one ELSE sealed[i].zero)]
    /\ UNCHANGED <<wires, flags, a, A, scalars, points, sealed>>

Next == \/ GenerateCOSenderSetup \/ RefuseSetup \/ BuildCOChoices
        \/ RefuseChoices \/ EncryptCOCiphertexts \/ DecryptCOCiphertexts

Spec == Init /\ [][Next]_vars

(***************************************************************************)
(* Properties                                                              *)
(***************************************************************************)
\* Types; labels are sealed only for received points with coordinates.
TypeOK ==
    /\ phase \in {"start", "setup", "chosen", "sealed", "done", "failed"}
    /\ wires \in 1..MaxCount
    /\ \E n \in 1..MaxCount : flags \in [1..n -> BOOLEAN]
    /\ a \in Scalar /\ A \in Point
    /\ phase \in {"chosen", "sealed", "done"} =>
         scalars \in [Count -> Scalar] /\ points \in [Count -> Point]
    /\ phase \in {"sealed", "done"} =>
         /\ \A i \in Count : points[i] # Infinity
         /\ sealed \in [Count -> [zero : Ciphertext, one : Ciphertext]]
    /\ phase = "done" => result \in [Count -> Label \cup {NoLabel}]

\* Whatever the scalars drawn, the receiver gets the label of each chosen
\* bit: the pads of the two sides agree (co_helpers.go:104-145, 199-227).
ChosenLabels ==
    phase = "done" =>
      \A i \in Count : result[i] = LabelOf(i, Chosen(i))

\* A pad of the receiver opens the one ciphertext it chose and no other,
\* neither the other label of that wire nor a label of another wire.
OpensOnlyChosen ==
    phase \in {"sealed", "done"} =>
      \A i, j \in Count :
        /\ Open(ReceiverPad(i), sealed[j].zero) # NoLabel => i = j /\ ~flags[i]
        /\ Open(ReceiverPad(i), sealed[j].one) # NoLabel => i = j /\ flags[i]

\* A point the receiver sends could have been drawn for the other bit too:
\* the sender learns nothing of the flags (co_helpers.go:148-185).
ChoiceHidden ==
    phase \in {"chosen", "sealed", "done"} =>
      \A i \in Count : \E s \in Drawn : points[i] = Choice(~flags[i], s)
=============================================================================
