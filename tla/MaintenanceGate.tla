--------------------------- MODULE MaintenanceGate ---------------------------
(***************************************************************************)
(* What the runtime's maintenance gate promises to whoever exchanges the    *)
(* database files: they are exchanged while no transaction is open, and no  *)
(* transaction begins until the gate is open again.                         *)
(***************************************************************************)
EXTENDS Naturals

CONSTANT Sessions

VARIABLES
  open,        \* sessions with a transaction on the current database
  exclusive,   \* is somebody alone with the database files?
  generation   \* how often the files have been exchanged

gateVars == <<open, exclusive, generation>>

Init ==
  /\ open = {}
  /\ exclusive = FALSE
  /\ generation = 0

Begin(s) ==
  /\ ~exclusive
  /\ s \notin open
  /\ open' = open \cup {s}
  /\ UNCHANGED <<exclusive, generation>>

End(s) ==
  /\ s \in open
  /\ open' = open \ {s}
  /\ UNCHANGED <<exclusive, generation>>

Exclude ==
  /\ ~exclusive
  /\ open = {}
  /\ exclusive' = TRUE
  /\ UNCHANGED <<open, generation>>

Exchange ==
  /\ exclusive
  /\ generation' = generation + 1
  /\ UNCHANGED <<open, exclusive>>

Readmit ==
  /\ exclusive
  /\ exclusive' = FALSE
  /\ UNCHANGED <<open, generation>>

Next ==
  \/ \E s \in Sessions : Begin(s) \/ End(s)
  \/ Exclude \/ Exchange \/ Readmit

Spec == Init /\ [][Next]_gateVars
=============================================================================
