---------------------------- MODULE MCGarbling ----------------------------
\* A circuit with every operation, gates that share inputs and a gate with
\* one wire on both inputs, and labels of a few bits.
EXTENDS Garbling

G(op, a, b, c) == [op |-> op, in0 |-> a, in1 |-> b, out |-> c]
MCGates == << G("AND", 0, 1, 2), G("INV", 2, 0, 3), G("OR", 3, 1, 4),
              G("XNOR", 4, 2, 5), G("AND", 5, 5, 6), G("XOR", 6, 0, 7) >>

\* Two functions on labels that mix all bits.
MCAES == [k \in Key |-> [l \in Label |->
            IF k = 1 THEN {i \in Bit : (i \in l) # (((i + 1) % Width) \in l)} \cup (l \cap {0})
            ELSE {i \in Bit : (i \in l) => ({0, Width - 1} \subseteq l)}]]
===========================================================================
