----------------------------- MODULE MCPeersLock -----------------------------
EXTENDS PeersLock
=============================================================================
