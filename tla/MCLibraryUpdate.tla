-------------------------- MODULE MCLibraryUpdate --------------------------
EXTENDS LibraryUpdate, TLC

\* The two libraries of the script, in its order.
MCSweeps == <<"movies", "shows">>
=============================================================================
