---------------------------- MODULE MCHostUpdate ----------------------------
(* Instances of HostUpdate for TLC. *)
EXTENDS HostUpdate, TLC

\* Executors are interchangeable; used where no liveness is checked.
MCSymmetry == Permutations(Executors)

=============================================================================
