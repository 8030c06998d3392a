--------------------------- MODULE MCTunnelConnect ---------------------------
EXTENDS TunnelConnect
=============================================================================
