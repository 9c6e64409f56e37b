----------------------------- MODULE Occurrences -----------------------------
(***************************************************************************)
(* What a recurrence rule promises about the tasks that its occurrences     *)
(* become, apart from who runs it and when.  SchedulerCycle has the steps   *)
(* that keep it.                                                            *)
(***************************************************************************)
EXTENDS Integers, Sequences

CONSTANT
  Limit       \* max_occurrences of the rule

VARIABLES
  tasks,      \* the tasks its occurrences became
  overlapped, \* history: two runners have worked on the rule at once
  moved,      \* history: tasks whose due date was changed, or that were deleted
  lost        \* history: occurrences made whose count was lost

\* An occurrence becomes one task (recurrence.py: the look for one with its due
\* date before it is made), through failures and crashes between the task's
\* commit and the rule's; not once its task was moved or deleted, and not when
\* two runners have been at it.
OccurrencesOnce ==
  ~overlapped =>
    \A i, j \in DOMAIN tasks : i < j /\ tasks[i].occ = tasks[j].occ => i \in moved

\* A rule makes no more tasks than max_occurrences, except for one for each
\* time the cycle was lost after an occurrence was made and before the rule
\* was written.
LimitIsKept == ~overlapped => Len(tasks) <= Limit + lost

=============================================================================
