------------------------ MODULE MCObliviousTransfer ------------------------
\* The group of the integers modulo a prime.
EXTENDS ObliviousTransfer

CONSTANT Order
MCScalar == 0..(Order - 1)
MCPlus(p, q) == (p + q) % Order
MCNeg(p) == (Order - p) % Order
MCMul(s, p) == (s * p) % Order
=============================================================================
