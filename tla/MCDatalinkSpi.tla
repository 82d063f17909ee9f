--------------------------- MODULE MCDatalinkSpi ---------------------------
EXTENDS DatalinkSpi, TLC
\* The Agent's buffers are interchangeable.
BufSymmetry == Permutations(Bufs)
=============================================================================
