-------------------------- MODULE MCServiceControl --------------------------
EXTENDS ServiceControl, TLC
Everything == AllKinds
DashboardItself == Kind("dashboard", {"launchd"}, {Both})
Threads == Permutations(Callers)
=============================================================================
