----------------------------- MODULE MCSession -----------------------------
\* Instances of Session for TLC: inputs are numbers of different lengths,
\* and F tells all pairs of them apart.
EXTENDS Session, TLC

MCSizeOf == [x \in Input |-> x]
MCDeclared == [p \in Party |-> 2]
MCF == [x \in Input |-> [y \in Input |-> ToString(10 * x + y)]]
MCResult == {MCF[x][y] : x \in Input, y \in Input}
=============================================================================
