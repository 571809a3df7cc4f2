---------------------- MODULE ObliviousTransferProofs ----------------------
(***************************************************************************)
(* Proofs about module ObliviousTransfer, for every group of prime order,  *)
(* every batch and every draw of the scalars.                              *)
(***************************************************************************)
EXTENDS ObliviousTransfer, TLAPS

(***************************************************************************)
(* Groups.                                                                 *)
(***************************************************************************)
LEMMA Closed ==
  /\ \A p \in Point : Neg(p) \in Point
  /\ \A p, q \in Point : Plus(p, q) \in Point
  /\ \A s \in Scalar : \A p \in Point : Mul(s, p) \in Point
  /\ G \in Point /\ Infinity \in Point
  BY GroupAssumption, MultiplesAssumption

\* Adding and subtracting a point cancel.
LEMMA Cancel ==
  ASSUME NEW p \in Point, NEW q \in Point
  PROVE  /\ Plus(Plus(p, q), Neg(q)) = p
         /\ Plus(Plus(p, Neg(q)), q) = p
  <1>1. /\ Plus(Plus(p, q), Neg(q)) = Plus(p, Plus(q, Neg(q)))
        /\ Plus(Plus(p, Neg(q)), q) = Plus(p, Plus(Neg(q), q))
    BY Closed, GroupAssumption
  <1>2. Plus(q, Neg(q)) = Infinity /\ Plus(Neg(q), q) = Infinity
    BY Closed, GroupAssumption
  <1> QED
    BY <1>1, <1>2, GroupAssumption

\* Adding a point that is not the identity changes a point.
LEMMA Moves ==
  ASSUME NEW p \in Point, NEW q \in Point, q # Infinity
  PROVE  Plus(p, q) # p /\ Plus(p, Neg(q)) # p
  <1>1. ASSUME NEW o \in Point, Plus(p, o) = p PROVE o = Infinity
    <2>1. Plus(Plus(o, p), Neg(p)) = o
      BY Cancel
    <2>2. Plus(o, p) = p
      BY <1>1, GroupAssumption
    <2> QED
      BY <2>1, <2>2, GroupAssumption
  <1>2. Neg(q) # Infinity
    <2>1. Plus(q, Neg(q)) = Infinity /\ Plus(q, Infinity) = q
      BY GroupAssumption
    <2> QED
      BY <2>1
  <1> QED
    BY <1>1, <1>2, Closed

(***************************************************************************)
(* The pads.  Without the state: the sender's scalar s, its point B = s G, *)
(* the receiver's scalar t and flag.                                       *)
(***************************************************************************)
LEMMA SamePad ==
  ASSUME NEW s \in Scalar, NEW t \in Scalar, NEW B, B = Mul(s, G)
  PROVE  /\ Mul(s, Mul(t, G)) = Mul(t, B)
         /\ Plus(Mul(s, Plus(Mul(t, G), B)), Neg(Mul(s, B))) = Mul(t, B)
  <1>1. B \in Point /\ Mul(t, G) \in Point /\ Mul(s, B) \in Point /\ Mul(t, B) \in Point
    BY Closed
  <1>2. Mul(s, Mul(t, G)) = Mul(t, B)
    BY Closed, MultiplesAssumption
  <1>3. Mul(s, Plus(Mul(t, G), B)) = Plus(Mul(t, B), Mul(s, B))
    BY <1>1, <1>2, MultiplesAssumption
  <1> QED
    BY <1>1, <1>2, <1>3, Cancel

\* The pad of the flag that was not chosen is another point.
LEMMA OtherPad ==
  ASSUME NEW s \in Scalar, NEW t \in Scalar, NEW B, B = Mul(s, G), B # Infinity
  PROVE  /\ Mul(s, Plus(Mul(t, G), B)) # Mul(t, B)
         /\ Plus(Mul(s, Mul(t, G)), Neg(Mul(s, B))) # Mul(t, B)
  <1>1. B \in Point /\ Mul(t, G) \in Point /\ Mul(s, B) \in Point /\ Mul(t, B) \in Point
    BY Closed
  <1>2. Mul(s, B) # Infinity
    BY <1>1, MultiplesAssumption
  <1>3. Mul(s, Mul(t, G)) = Mul(t, B)
    BY SamePad
  <1>4. Mul(s, Plus(Mul(t, G), B)) = Plus(Mul(t, B), Mul(s, B))
    BY <1>1, <1>3, MultiplesAssumption
  <1> QED
    BY <1>1, <1>2, <1>3, <1>4, Moves

(***************************************************************************)
(* The invariant: everything is what its maker computes.                   *)
(***************************************************************************)
SetupInv == phase # "start" => A = Mul(a, G)

ChoiceInv == phase \in {"chosen", "sealed", "done"} =>
    /\ A # Infinity
    /\ scalars \in [Count -> Scalar]
    /\ points = [i \in Count |-> Choice(flags[i], scalars[i])]

SealInv == phase \in {"sealed", "done"} =>
    /\ Count = 1..wires
    /\ \A i \in Count : points[i] # Infinity
    /\ sealed = [i \in Count |->
         [zero |-> Seal(Pad(Zero(i), i), LabelOf(i, 0)),
          one  |-> Seal(Pad(One(i), i), LabelOf(i, 1))]]

ResultInv == phase = "done" =>
    result = [i \in Count |->
      Open(ReceiverPad(i), IF flags[i] THEN sealed[i].one ELSE sealed[i].zero)]

BasicInv ==
    /\ phase \in {"start", "setup", "chosen", "sealed", "done", "failed"}
    /\ wires \in 1..MaxCount
    /\ \E n \in 1..MaxCount : flags \in [1..n -> BOOLEAN]
    /\ a \in Scalar /\ A \in Point

Inv == BasicInv /\ SetupInv /\ ChoiceInv /\ SealInv /\ ResultInv

\* Flags are bits, and indices are within bounds.
LEMMA FlagFacts ==
  ASSUME BasicInv
  PROVE  \A i \in Count : flags[i] \in BOOLEAN /\ i \in 1..MaxCount
  BY CountAssumption DEF BasicInv, Count

\* The invariant holds throughout.
LEMMA InvHolds == Spec => []Inv
  <1>1. Init => Inv
    BY Closed DEF Init, Inv, BasicInv, SetupInv, ChoiceInv, SealInv, ResultInv
  <1>2. ASSUME Inv, GenerateCOSenderSetup PROVE Inv'
    BY <1>2, Closed DEF GenerateCOSenderSetup, Inv, BasicInv, SetupInv, ChoiceInv,
                        SealInv, ResultInv
  <1>3. ASSUME Inv, RefuseSetup PROVE Inv'
    BY <1>3 DEF RefuseSetup, Fail, Inv, BasicInv, SetupInv, ChoiceInv, SealInv, ResultInv
  <1>4. ASSUME Inv, BuildCOChoices PROVE Inv'
    <2>1. phase' = "chosen" /\ UNCHANGED <<wires, flags, a, A>>
      BY <1>4 DEF BuildCOChoices
    <2>2. BasicInv' /\ SetupInv' /\ SealInv' /\ ResultInv'
      BY <1>4, <2>1 DEF BuildCOChoices, Inv, BasicInv, SetupInv, SealInv, ResultInv
    <2>3. ChoiceInv'
      BY <1>4, <2>1 DEF BuildCOChoices, ChoiceInv, OnCurve, Drawn, Count, Choice
    <2> QED
      BY <2>2, <2>3 DEF Inv
  <1>5. ASSUME Inv, RefuseChoices PROVE Inv'
    BY <1>5 DEF RefuseChoices, Fail, Inv, BasicInv, SetupInv, ChoiceInv, SealInv, ResultInv
  <1>6. ASSUME Inv, EncryptCOCiphertexts PROVE Inv'
    <2>1. /\ phase = "chosen" /\ phase' = "sealed" /\ Encryptable
          /\ UNCHANGED <<wires, flags, a, A, scalars, points>>
      BY <1>6 DEF EncryptCOCiphertexts
    <2>2. BasicInv' /\ SetupInv' /\ ResultInv'
      BY <1>6, <2>1 DEF Inv, BasicInv, SetupInv, ResultInv
    <2>3. ChoiceInv'
      BY <1>6, <2>1 DEF Inv, ChoiceInv, Count, Choice
    <2>4. SealInv'
      BY <1>6, <2>1 DEF EncryptCOCiphertexts, SealInv, Encryptable, OnCurve, Count,
                        Zero, One, AaInv
    <2> QED
      BY <2>2, <2>3, <2>4 DEF Inv
  <1>7. ASSUME Inv, DecryptCOCiphertexts PROVE Inv'
    <2>1. /\ phase = "sealed" /\ phase' = "done"
          /\ UNCHANGED <<wires, flags, a, A, scalars, points, sealed>>
      BY <1>7 DEF DecryptCOCiphertexts
    <2>2. BasicInv' /\ SetupInv'
      BY <1>7, <2>1 DEF Inv, BasicInv, SetupInv
    <2>3. ChoiceInv'
      BY <1>7, <2>1 DEF Inv, ChoiceInv, Count, Choice
    <2>4. SealInv'
      BY <1>7, <2>1 DEF Inv, SealInv, Count, Zero, One, AaInv
    <2>5. ResultInv'
      BY <1>7, <2>1 DEF DecryptCOCiphertexts, ResultInv, Count, ReceiverPad
    <2> QED
      BY <2>2, <2>3, <2>4, <2>5 DEF Inv
  <1>8. ASSUME Inv, UNCHANGED vars PROVE Inv'
    BY <1>8 DEF vars, Inv, BasicInv, SetupInv, ChoiceInv, SealInv, ResultInv, Count,
                Choice, Zero, One, AaInv, ReceiverPad
  <1> QED
    BY <1>1, <1>2, <1>3, <1>4, <1>5, <1>6, <1>7, <1>8, PTL DEF Spec, Next

\* What the pads of the two sides are, in a state of the protocol.
LEMMA Pads ==
  ASSUME Inv, phase \in {"sealed", "done"}, NEW i \in Count
  PROVE  /\ Mul(scalars[i], A) \in Point /\ Zero(i) \in Point /\ One(i) \in Point
         /\ flags[i] => Mul(scalars[i], A) = One(i) /\ Mul(scalars[i], A) # Zero(i)
         /\ ~flags[i] => Mul(scalars[i], A) = Zero(i) /\ Mul(scalars[i], A) # One(i)
  <1>1. /\ a \in Scalar /\ A \in Point /\ A = Mul(a, G) /\ A # Infinity
        /\ scalars[i] \in Scalar /\ points[i] = Choice(flags[i], scalars[i])
    BY DEF Inv, BasicInv, SetupInv, ChoiceInv
  <1>2. Mul(scalars[i], A) \in Point /\ Mul(scalars[i], G) \in Point /\ Mul(a, A) \in Point
    BY <1>1, Closed
  <1>3. points[i] \in Point
    BY <1>1, <1>2, Closed DEF Choice
  <1>4. Zero(i) \in Point /\ One(i) \in Point
    BY <1>1, <1>2, <1>3, Closed DEF Zero, One, AaInv
  <1>5. CASE flags[i]
    BY <1>1, <1>2, <1>4, <1>5, SamePad, OtherPad DEF Choice, Zero, One, AaInv
  <1>6. CASE ~flags[i]
    BY <1>1, <1>2, <1>4, <1>6, SamePad, OtherPad DEF Choice, Zero, One, AaInv
  <1> QED
    BY <1>2, <1>4, <1>5, <1>6
LEMMA Opens ==
  ASSUME NEW pad, NEW other, NEW l
  PROVE  /\ Open(pad, Seal(pad, l)) = l
         /\ other # pad => Open(other, Seal(pad, l)) = NoLabel
         /\ Seal(pad, l).label = l
  BY DEF Open, Seal

\* Different points or indices give different pads.
LEMMA PadsDiffer ==
  ASSUME NEW p, NEW q, NEW i, NEW j, p # q \/ i # j
  PROVE  Pad(p, i) # Pad(q, j)
  <1>1. /\ Pad(p, i).point = p /\ Pad(p, i).index = i
        /\ Pad(q, j).point = q /\ Pad(q, j).index = j
    BY DEF Pad
  <1> QED
    BY <1>1

\* What the ciphertexts of a wire are.
LEMMA Ciphertexts ==
  ASSUME Inv, phase \in {"sealed", "done"}, NEW i \in Count
  PROVE  /\ sealed[i].zero = Seal(Pad(Zero(i), i), LabelOf(i, 0))
         /\ sealed[i].one = Seal(Pad(One(i), i), LabelOf(i, 1))
  BY DEF Inv, SealInv

\* A wire's labels are labels.
LEMMA LabelTyped ==
  ASSUME Inv, NEW i \in Count, NEW b \in {0, 1}
  PROVE  LabelOf(i, b) \in Label /\ LabelOf(i, b) # NoLabel
  BY FlagFacts, CountAssumption DEF Inv, Label, LabelOf

(***************************************************************************)
(* The theorems.                                                           *)
(***************************************************************************)
\* The receiver gets the labels of its flags, for every group, batch and
\* draw (co_helpers.go:104-145, 148-185, 199-227).
THEOREM TransferCorrect == Spec => []ChosenLabels
  <1>1. Inv => ChosenLabels
    <2> SUFFICES ASSUME Inv, phase = "done", NEW i \in Count
                 PROVE  result[i] = LabelOf(i, Chosen(i))
      BY DEF ChosenLabels
    <2>1. result[i] = Open(ReceiverPad(i), IF flags[i] THEN sealed[i].one ELSE sealed[i].zero)
      BY DEF Inv, ResultInv
    <2>3. CASE flags[i]
      <3>1. Chosen(i) = 1
        BY <2>3 DEF Chosen
      <3>2. ReceiverPad(i) = Pad(One(i), i)
        BY <2>3, Pads DEF ReceiverPad
      <3>3. sealed[i].one = Seal(Pad(One(i), i), LabelOf(i, 1))
        BY Ciphertexts
      <3>4. result[i] = Open(ReceiverPad(i), sealed[i].one)
        BY <2>1, <2>3
      <3> QED
        BY <3>1, <3>2, <3>3, <3>4, Opens
    <2>4. CASE ~flags[i]
      <3>1. Chosen(i) = 0
        BY <2>4 DEF Chosen
      <3>2. ReceiverPad(i) = Pad(Zero(i), i)
        BY <2>4, Pads DEF ReceiverPad
      <3>3. sealed[i].zero = Seal(Pad(Zero(i), i), LabelOf(i, 0))
        BY Ciphertexts
      <3>4. result[i] = Open(ReceiverPad(i), sealed[i].zero)
        BY <2>1, <2>4
      <3> QED
        BY <3>1, <3>2, <3>3, <3>4, Opens
    <2> QED
      BY <2>3, <2>4
  <1> QED
    BY <1>1, InvHolds, PTL

\* The receiver's pads open nothing but the chosen labels: this is where
\* the identity check on A and the index under the hash are needed.
THEOREM OneLabelPerWire == Spec => []OpensOnlyChosen
  <1>1. Inv => OpensOnlyChosen
    <2> SUFFICES ASSUME Inv, phase \in {"sealed", "done"}, NEW i \in Count, NEW j \in Count
                 PROVE  /\ Open(ReceiverPad(i), sealed[j].zero) # NoLabel => i = j /\ ~flags[i]
                        /\ Open(ReceiverPad(i), sealed[j].one) # NoLabel => i = j /\ flags[i]
      BY Zenon DEF OpensOnlyChosen
    <2>1. ASSUME i # j \/ flags[i]
          PROVE  Open(ReceiverPad(i), sealed[j].zero) = NoLabel
      <3>1. ReceiverPad(i) # Pad(Zero(j), j)
        BY <2>1, Pads, PadsDiffer DEF ReceiverPad
      <3> QED
        BY <3>1, Ciphertexts, Opens
    <2>2. ASSUME i # j \/ ~flags[i]
          PROVE  Open(ReceiverPad(i), sealed[j].one) = NoLabel
      <3>1. ReceiverPad(i) # Pad(One(j), j)
        BY <2>2, Pads, PadsDiffer DEF ReceiverPad
      <3> QED
        BY <3>1, Ciphertexts, Opens
    <2> QED
      BY <2>1, <2>2
  <1> QED
    BY <1>1, InvHolds, PTL

\* Each point of the receiver is a choice of the other bit, too, for some
\* scalar it could have drawn (co_helpers.go:160-173).
THEOREM FlagsStayHidden == Spec => []ChoiceHidden
  <1>1. Inv => ChoiceHidden
    <2> SUFFICES ASSUME Inv, phase \in {"chosen", "sealed", "done"}, NEW i \in Count
                 PROVE  \E s \in Scalar : points[i] = Choice(~flags[i], s)
      BY DEF ChoiceHidden, Drawn
    <2>1. /\ A \in Point /\ scalars[i] \in Scalar
          /\ points[i] = Choice(flags[i], scalars[i])
      BY DEF Inv, BasicInv, ChoiceInv
    <2>2. points[i] \in Point
      BY <2>1, Closed DEF Choice
    <2>3. CASE flags[i]
      <3>1. PICK s \in Scalar : points[i] = Mul(s, G)
        BY <2>2, MultiplesAssumption
      <3> QED
        BY <2>3, <3>1 DEF Choice
    <2>4. CASE ~flags[i]
      <3>1. Plus(points[i], Neg(A)) \in Point
        BY <2>1, <2>2, Closed
      <3>2. PICK s \in Scalar : Plus(points[i], Neg(A)) = Mul(s, G)
        BY <3>1, MultiplesAssumption
      <3>3. Plus(Mul(s, G), A) = points[i]
        BY <2>1, <2>2, <3>2, Cancel
      <3> QED
        BY <2>4, <3>3 DEF Choice
    <2> QED
      BY <2>3, <2>4
  <1> QED
    BY <1>1, InvHolds, PTL

\* All values keep their types; the sender seals labels only for received points
\* that have coordinates (co_helpers.go:119-129).
THEOREM TransferTypeCorrect == Spec => []TypeOK
  <1>1. Inv => TypeOK
    <2> SUFFICES ASSUME Inv PROVE TypeOK
      OBVIOUS
    <2>1. BasicInv
      BY DEF Inv
    <2>2. ASSUME phase \in {"chosen", "sealed", "done"}
          PROVE  scalars \in [Count -> Scalar] /\ points \in [Count -> Point]
      <3>1. /\ scalars \in [Count -> Scalar] /\ A \in Point
            /\ points = [i \in Count |-> Choice(flags[i], scalars[i])]
        BY <2>2 DEF Inv, BasicInv, ChoiceInv
      <3>2. \A i \in Count : Choice(flags[i], scalars[i]) \in Point
        BY <3>1, Closed DEF Choice
      <3> QED
        BY <3>1, <3>2
    <2>3. ASSUME phase \in {"sealed", "done"}
          PROVE  /\ \A i \in Count : points[i] # Infinity
                 /\ sealed \in [Count -> [zero : Ciphertext, one : Ciphertext]]
      <3>1. \A i \in Count : /\ sealed[i].zero \in Ciphertext
                             /\ sealed[i].one \in Ciphertext
        <4> TAKE i \in Count
        <4>1. i \in 1..MaxCount /\ Zero(i) \in Point /\ One(i) \in Point
          BY <2>1, <2>3, FlagFacts, Pads
        <4>2. Pad(Zero(i), i) \in [point : Point, index : 1..MaxCount]
              /\ Pad(One(i), i) \in [point : Point, index : 1..MaxCount]
          BY <4>1 DEF Pad
        <4> QED
          <5>1. LabelOf(i, 0) \in Label /\ LabelOf(i, 1) \in Label
            BY LabelTyped
          <5>2. /\ sealed[i].zero = Seal(Pad(Zero(i), i), LabelOf(i, 0))
                /\ sealed[i].one = Seal(Pad(One(i), i), LabelOf(i, 1))
            BY <2>3, Ciphertexts
          <5> QED
            BY <4>2, <5>1, <5>2 DEF Seal, Ciphertext
      <3>2. sealed = [i \in Count |-> [zero |-> sealed[i].zero, one |-> sealed[i].one]]
        BY <2>3 DEF Inv, SealInv
      <3>3. \A i \in Count : points[i] # Infinity
        BY <2>3 DEF Inv, SealInv
      <3> QED
        BY <3>1, <3>2, <3>3
    <2>4. ASSUME phase = "done"
          PROVE  result \in [Count -> Label \cup {NoLabel}]
      <3>1. result = [i \in Count |->
              Open(ReceiverPad(i), IF flags[i] THEN sealed[i].one ELSE sealed[i].zero)]
        BY <2>4 DEF Inv, ResultInv
      <3>2. \A i \in Count : /\ sealed[i].zero.label \in Label
                             /\ sealed[i].one.label \in Label
        <4> TAKE i \in Count
        <4>1. /\ sealed[i].zero.label = LabelOf(i, 0)
              /\ sealed[i].one.label = LabelOf(i, 1)
          BY <2>4, Ciphertexts, Opens
        <4> QED
          BY <4>1, LabelTyped
      <3> QED
        BY <3>1, <3>2 DEF Open
    <2> QED
      BY <2>1, <2>2, <2>3, <2>4 DEF TypeOK, BasicInv
  <1> QED
    BY <1>1, InvHolds, PTL

\* Which of the points that labels are sealed under has no coordinates: never the
\* one for a zero, because the received point is checked (co_helpers.go:126), and
\* the one for a one when the received point is the sender's own, which nothing
\* checks.
SealedWithoutCoordinates ==
  phase \in {"sealed", "done"} =>
    \A i \in Count : /\ sealed[i].zero.pad.point # Infinity
                    /\ sealed[i].one.pad.point = Infinity <=> points[i] = A
\* EncryptCOCiphertexts, for every group, batch and draw.
THEOREM OnlyOwnPointCancels == Spec => []SealedWithoutCoordinates
  <1>1. Inv => SealedWithoutCoordinates
    <2> SUFFICES ASSUME Inv, phase \in {"sealed", "done"}, NEW i \in Count
                 PROVE  /\ sealed[i].zero.pad.point # Infinity
                        /\ sealed[i].one.pad.point = Infinity <=> points[i] = A
      BY DEF SealedWithoutCoordinates
    <2> DEFINE p == points[i]
    <2>1. /\ a \in Scalar /\ A \in Point /\ A = Mul(a, G) /\ A # Infinity
          /\ scalars[i] \in Scalar /\ p = Choice(flags[i], scalars[i])
      BY DEF Inv, BasicInv, SetupInv, ChoiceInv
    <2>2. p \in Point /\ p # Infinity
      BY <2>1, Closed DEF Choice, Inv, SealInv
    <2>3. sealed[i].zero.pad.point = Mul(a, p) /\ sealed[i].one.pad.point = Plus(Mul(a, p), Neg(Mul(a, A)))
      <3>1. /\ sealed[i].zero = Seal(Pad(Zero(i), i), LabelOf(i, 0))
            /\ sealed[i].one = Seal(Pad(One(i), i), LabelOf(i, 1))
        BY Ciphertexts
      <3>2. sealed[i].zero.pad.point = Zero(i) /\ sealed[i].one.pad.point = One(i)
        BY <3>1 DEF Seal, Pad
      <3> QED
        BY <3>2 DEF Zero, One, AaInv
    <2> HIDE DEF p
    <2>4. ASSUME NEW q \in Point, Mul(a, q) = Infinity PROVE q = Infinity
      BY <2>1, <2>4, MultiplesAssumption
    <2>5. Plus(p, Neg(A)) \in Point /\ Plus(Plus(p, Neg(A)), A) = p
      BY <2>1, <2>2, Closed, Cancel
    <2>6. Plus(Mul(a, p), Neg(Mul(a, A))) = Mul(a, Plus(p, Neg(A)))
      <3>1. Mul(a, p) = Plus(Mul(a, Plus(p, Neg(A))), Mul(a, A))
        BY <2>1, <2>5, MultiplesAssumption
      <3>2. Mul(a, Plus(p, Neg(A))) \in Point /\ Mul(a, A) \in Point
        BY <2>1, <2>5, Closed
      <3> QED
        BY <3>1, <3>2, Cancel
    <2>7. Plus(p, Neg(A)) = Infinity <=> p = A
      <3>1. Plus(A, Neg(A)) = Infinity
        BY <2>1, GroupAssumption
      <3>2. Plus(Infinity, A) = A
        BY <2>1, Closed, GroupAssumption
      <3> QED
        BY <2>5, <3>1, <3>2
    <2>8. Mul(a, Infinity) = Infinity
      <3>1. Mul(a, Infinity) \in Point /\ Infinity \in Point
        BY <2>1, Closed
      <3>2. Plus(Infinity, Infinity) = Infinity
        BY <3>1, GroupAssumption
      <3>3. Plus(Mul(a, Infinity), Mul(a, Infinity)) = Mul(a, Infinity)
        BY <2>1, <3>1, <3>2, MultiplesAssumption
      <3> QED
        BY <3>1, <3>3, Moves
    <2> QED
      BY <2>2, <2>3, <2>4, <2>5, <2>6, <2>7, <2>8 DEF p
  <1> QED
    BY <1>1, InvHolds, PTL
=============================================================================
