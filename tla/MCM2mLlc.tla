------------------------------ MODULE MCM2mLlc ------------------------------
EXTENDS M2mLlc, TLC
CONSTANTS t1, t2, s0, s1, c1, c2
\* Each task has a stream to itself, as a TCP connection has.
OwnStreams == t1 :> s0 @@ t2 :> s1
\* Both tasks use one stream, which a restart of the Agent closes.
SharedStream == t1 :> s1 @@ t2 :> s1
=============================================================================
