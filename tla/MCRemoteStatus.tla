-------------------------- MODULE MCRemoteStatus --------------------------
EXTENDS RemoteStatus, TLC
=============================================================================
