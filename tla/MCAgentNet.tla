----------------------------- MODULE MCAgentNet -----------------------------
EXTENDS AgentNet
=============================================================================
