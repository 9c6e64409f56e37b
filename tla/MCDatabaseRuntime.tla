-------------------------- MODULE MCDatabaseRuntime --------------------------
(* Small instances of DatabaseRuntime: requests, a cycle, a restore and the *)
(* workers of the pool are model values.                                    *)
EXTENDS DatabaseRuntime

CONSTANTS s1, a1, a2, c1, r1, w1, w2
=============================================================================
