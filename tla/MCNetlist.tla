----------------------------- MODULE MCNetlist -----------------------------
\* Instances of Netlist for TLC.
EXTENDS Netlist
=============================================================================
