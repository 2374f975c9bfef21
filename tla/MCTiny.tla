------------------------------ MODULE MCTiny ------------------------------
EXTENDS Tiny
===========================================================================
