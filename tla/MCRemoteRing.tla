----------------------------- MODULE MCRemoteRing -----------------------------
EXTENDS RemoteRingInv
=============================================================================
