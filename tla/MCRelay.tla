----------------------------- MODULE MCRelay -----------------------------
EXTENDS Relay
==========================================================================
