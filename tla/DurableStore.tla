---------------------------- MODULE DurableStore ----------------------------
(***************************************************************************)
(* What the host's startup promises about the business database, with no   *)
(* journal, snapshot or file in sight: one logical store whose schema is    *)
(* brought to the head revision in a single step, that is open only at the  *)
(* head revision and whose committed business data no start, crash or       *)
(* failed migration ever changes.  StartupUpgrade implements it.            *)
(***************************************************************************)
EXTENDS Naturals

VARIABLES
  schema,   \* "none" (nothing created yet), "old" or "head"
  data,     \* number of business transactions the store holds
  open      \* TRUE while requests are served

vars == <<schema, data, open>>

Init ==
  /\ schema \in {"none", "old"}
  /\ data \in Nat
  /\ schema = "none" => data = 0
  /\ open = FALSE

\* A business transaction commits; only an open store takes one.
Write ==
  /\ open
  /\ data' = data + 1
  /\ UNCHANGED <<schema, open>>

\* The whole upgrade (or the first creation) takes effect at once.
Upgrade ==
  /\ ~open
  /\ schema # "head"
  /\ schema' = "head"
  /\ UNCHANGED <<data, open>>

Open ==
  /\ ~open
  /\ schema = "head"
  /\ open' = TRUE
  /\ UNCHANGED <<schema, data>>

Close ==
  /\ open
  /\ open' = FALSE
  /\ UNCHANGED <<schema, data>>

Next == Write \/ Upgrade \/ Open \/ Close

Spec == Init /\ [][Next]_vars

=============================================================================
