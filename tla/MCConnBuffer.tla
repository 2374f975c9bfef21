--------------------------- MODULE MCConnBuffer ---------------------------
EXTENDS ConnBuffer
=============================================================================
