-------------------------- MODULE MCStartupUpgrade --------------------------
(***************************************************************************)
(* StartupUpgrade for TLC.  Two crashes and two faults let a crash hit the  *)
(* recovery of an earlier crash, and a fault hit a rollback that a fault    *)
(* began.                                                                   *)
(***************************************************************************)
EXTENDS StartupUpgrade
=============================================================================
