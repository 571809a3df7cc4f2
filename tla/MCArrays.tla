------------------------------ MODULE MCArrays ------------------------------
\* Arrays alone, without the other modules about numbers on wires.
EXTENDS Arrays
=============================================================================
