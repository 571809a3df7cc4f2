------------------------------- MODULE Arrays -------------------------------
\* An array or slice variable of the circuit language: the statements that
\* change it, of compiler/ast, and what its wires carry after them. Its
\* elements have E bits. Pointers to arrays are left out.
EXTENDS CircuitGen

CONSTANTS E, MaxSize
ASSUME ArrayAssumption == E \in Nat \ {0} /\ MaxSize \in Nat \ {0}

Element == [1 .. E -> Bit]
Lists == UNION {[1 .. n -> Element] : n \in 0 .. MaxSize}
Flat(l) == FlattenSeq(l)

VARIABLES
  arr,    \* the variable: its kind, its number of elements and its wires
  list,   \* the elements that the last statement should leave it with
  short   \* history: that was a copy which fills the beginning only
avars == <<arr, list, short>>

Value(kind, l) == [kind |-> kind, size |-> Len(l), w |-> Flat(l)]
\* The elements the variable has on its wires.
Held == [i \in 1 .. arr.size |-> SubSeq(arr.w, (i - 1) * E + 1, i * E)]

\* VariableDef of an array and make of a slice: initValue sets zeros.
AInit ==
  \E n \in 1 .. MaxSize, kind \in {"array", "slice"} :
    /\ list = [i \in 1 .. n |-> Zeros(E)]
    /\ arr = [kind |-> kind, size |-> n, w |-> Zeros(n * E)]
    /\ short = FALSE

\* LRValue.Set: an array takes values of its own length only, a slice the
\* length of the value.
CanSet(v) == arr.kind = "slice" \/ v.size = arr.size
Set(v) == CanSet(v) /\ arr' = [arr EXCEPT !.size = v.size, !.w = Mov(v.w, 0, v.size * E)]

\* arr[i] = v for a constant i; a constant element has more wires than it
\* needs, or fewer.
SetElement(i, v, wires) ==
  /\ i < arr.size
  /\ Set([arr EXCEPT !.w = Amov(Extend(v, wires), arr.w, i * E, (i + 1) * E, arr.size * E)])
  /\ list' = [Held EXCEPT ![i + 1] = v]
  /\ short' = FALSE

\* arr = arr[from:to]
Limits(from, to, size) == 0 <= from /\ from <= to /\ to <= size
Cut(from, to) ==
  /\ Limits(from, to, arr.size)
  /\ Set([kind |-> "slice", size |-> to - from,
          w |-> IF from = to THEN <<>> ELSE Slice(arr.w, from * E, to * E, (to - from) * E)])
  /\ list' = SubSeq(Held, from + 1, to)
  /\ short' = FALSE

\* arr = arr + v, or v + arr.
Add(l, front) ==
  LET v == Value("slice", l)
      both == IF front THEN <<v.w, arr.w>> ELSE <<arr.w, v.w>>
  IN /\ Set([kind |-> "slice", size |-> arr.size + v.size, w |-> Concat(both[1], both[2], (arr.size + v.size) * E)])
     /\ list' = IF front THEN l \o Held ELSE Held \o l
     /\ short' = FALSE

\* Mutant: any part that the source fills is taken for all of the variable.
Copy_AnyPart(from, to, src) ==
  LET dst == to - from
      count == Min({src.size, dst})
      tmp == Mov(arr.w, 0, arr.size * E)
  IN /\ Limits(from, to, arr.size)
     /\ dst > 0
     /\ Set(IF src.size >= dst
            THEN [kind |-> arr.kind, size |-> dst, w |-> Slice(src.w, 0, dst * E, dst * E)]
            ELSE [arr EXCEPT !.w = Amov(src.w, tmp, from * E, (from + count) * E, arr.size * E)])

\* copy(arr[from:to], src). When the limits begin at the beginning and the source
\* fills them, the variable becomes what was copied, also if that is a part of it
\* only; a slice takes that, and loses the rest, an array does not.
Copy(from, to, src) ==
  LET dst == to - from
      full == from = 0 /\ src.size >= dst
      count == Min({src.size, dst})
      tmp == Mov(arr.w, 0, arr.size * E)
  IN /\ Limits(from, to, arr.size)
     /\ full => dst > 0
     /\ Set(IF full
            THEN [kind |-> arr.kind, size |-> dst, w |-> Slice(src.w, 0, dst * E, dst * E)]
            ELSE [arr EXCEPT !.w = Mov(IF count > 0 THEN Amov(src.w, tmp, from * E, (from + count) * E, arr.size * E)
                                     ELSE tmp, 0, arr.size * E)])

\* "Slice specifies the copy limits for the destination": the elements within
\* them become those of the source, as far as it has any, and the others stay.
CopyFrom(from, to, l) ==
  LET count == Min({Len(l), to - from})
  IN /\ Copy(from, to, Value("slice", l))
     /\ list' = [k \in 1 .. arr.size |-> IF k - from \in 1 .. count THEN l[k - from] ELSE Held[k]]
     /\ short' = (from = 0 /\ to < arr.size /\ Len(l) >= to)

ANext ==
  \/ \E i \in 0 .. MaxSize, v \in Element, wires \in E .. E + 1 : SetElement(i, v, wires)
  \/ \E from, to \in 0 .. MaxSize : Cut(from, to)
  \/ \E l \in Lists, front \in BOOLEAN : arr.size + Len(l) <= MaxSize /\ Add(l, front)
  \/ \E from, to \in 0 .. MaxSize, l \in Lists : CopyFrom(from, to, l)
ASpec == AInit /\ [][ANext]_avars
-----------------------------------------------------------------------------
\* Index.constIndex and Index.index of one element.
ConstIndex(i) == Slice(arr.w, i * E, (i + 1) * E, E)
DynamicIndex(w) == NewIndex(E, arr.w, w, E)
IndexWires(i, n) == [k \in 1 .. n |-> (i \div 2 ^ (k - 1)) % 2]

Reads(i) ==
  /\ ConstIndex(i) = list[i + 1]
  /\ \A n \in 1 .. 3 : i < 2 ^ n => DynamicIndex(IndexWires(i, n)) = list[i + 1]

\* After any sequence of assignments, slices, concatenations and copies the
\* variable has the elements it should have, and reading one gives the same with
\* a constant index and with an index on any number of wires that can hold it.
\* Copies to the beginning only lose the rest of a slice (CopyKeepsRest); what
\* they leave is right too.
ArrayIsList ==
  /\ Len(arr.w) = arr.size * E
  /\ short \/ arr.size = Len(list)
  /\ \A i \in 0 .. Min({arr.size, Len(list)}) - 1 : Reads(i)

\* "Slice specifies the copy limits for the destination" (ssagen.go:2256): a copy
\* changes elements within the limits and keeps the others.
CopyKeepsRest == arr.size = Len(list)
=============================================================================
