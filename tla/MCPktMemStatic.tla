--------------------------- MODULE MCPktMemStatic ---------------------------
EXTENDS PktMemStatic, TLC
\* One block of each receive pool.
OneOfEach == "command" :> 1 @@ "data" :> 1
=============================================================================
