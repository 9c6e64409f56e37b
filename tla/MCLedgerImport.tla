-------------------------- MODULE MCLedgerImport ---------------------------
(* Instances of LedgerImport for TLC. *)
EXTENDS LedgerImport, TLC

\* Requests are interchangeable, and so are files.
MCSymmetry == Permutations(Clients) \cup Permutations(Jobs)

=============================================================================
