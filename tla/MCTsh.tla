------------------------------- MODULE MCTsh -------------------------------
EXTENDS Tsh
=============================================================================
