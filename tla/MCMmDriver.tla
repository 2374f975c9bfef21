----------------------------- MODULE MCMmDriver -----------------------------
EXTENDS MmDriver
=============================================================================
