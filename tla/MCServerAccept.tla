--------------------------- MODULE MCServerAccept ---------------------------
EXTENDS ServerAccept

CONSTANTS c1, c2
=============================================================================
