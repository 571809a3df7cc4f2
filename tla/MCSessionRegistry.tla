------------------------- MODULE MCSessionRegistry -------------------------
\* SessionRegistry alone, without the message store beside it.
EXTENDS SessionRegistry
=============================================================================
