--------------------------- MODULE MCAgentStreams ---------------------------
\* Small instances of the stream table.
EXTENDS AgentStreams
=============================================================================
