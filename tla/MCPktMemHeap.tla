---------------------------- MODULE MCPktMemHeap ----------------------------
\* A small instance of the heap manager; its constants are in the cfg.
EXTENDS PktMemHeap
=============================================================================
