-------------------------- MODULE MCTaskLifecycle ---------------------------
EXTENDS TaskLifecycle, TLC

MCSymmetry == Permutations(Clients) \cup Permutations(Subtasks)

=============================================================================
