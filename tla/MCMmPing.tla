------------------------------ MODULE MCMmPing ------------------------------
\* One instance of MmPing for TLC.
EXTENDS MmPing
=============================================================================
