--------------------------- MODULE SchedulerCycle ---------------------------
(***************************************************************************)
(* The minute cycle of the host (scheduler.py: _run_scheduler_cycle): one   *)
(* session runs the due recurrence rules (recurrence.py), projects task     *)
(* events onto the period reports (projections.py, reports.py) and brings   *)
(* the deadline notices up to date (notifications.py).  Creating a task and *)
(* leaving a rule commit on their own; the rest is one transaction that is  *)
(* committed at the end.  An exception drops the cycle, the next one comes  *)
(* a minute later.                                                          *)
(*                                                                          *)
(* Meanwhile users move, complete, reopen and delete the tasks and read     *)
(* their notices, and an administrator may run the due rules by hand.  The  *)
(* session flushes only where the code says so: what it has pending is not  *)
(* seen by its own queries, and the write lock is taken at the first flush. *)
(*                                                                          *)
(* One rule, one user, a day as the unit of time; the reports are the       *)
(* weekly ones, all drafts, those of the longer periods being there already; *)
(* a task has a due date but no planned dates.                              *)
(*                                                                          *)
(* The rule's limit, its tasks and what is said of them are in Occurrences.  *)
(***************************************************************************)
EXTENDS Integers, Sequences, SequencesExt, Occurrences

CONSTANTS
  FirstDay,     \* the day it begins; occurrences before it are overdue
  LastDay,      \* the last day of the calendar
  WeekLength,   \* days of a week, the period of a report
  Skips,        \* occurrences with an exception of kind "skip"
  ReminderDays, \* reminder_days of the user's preference
  MaxTasks,     \* bound on the tasks, which no behaviour reaches
  MaxEvents,    \* bound on what users do, and on failures and crashes, together;
                \* a run by hand counts twice
  Nobody        \* no update of a task under way

Days == 0..LastDay

ASSUME BoundsAssumption ==
  /\ {LastDay, MaxTasks, MaxEvents} \subseteq Nat /\ FirstDay \in 0..LastDay
  /\ {WeekLength, Limit} \subseteq Nat \ {0}
  /\ Skips \subseteq Nat
  /\ ReminderDays \subseteq Nat

Scheduler == "scheduler"
ByHand == "by hand"
Runners == {Scheduler, ByHand}

\* A rule falls due once a day: its n-th occurrence is that of day n.
RuleRow == [next : Nat, count : 0..Limit, active : BOOLEAN]

\* The days a task can be due; some lie in the week after the calendar's end.
DueDays == 0..LastDay + 1
NoDay == -1
TaskRow == [occ : Days, due : DueDays, done : Days \cup {NoDay}, gone : BOOLEAN]
Open(task) == task.done = NoDay

Week(d) == d \div WeekLength
Weeks == 0..Week(LastDay + 1)
TaskIds == 1..MaxTasks

\* A report has rows for a task, at most one of them intended.
MaxCopies == 2   \* further copies are not told apart
NoRows == [w \in Weeks |-> [t \in TaskIds |-> <<>>]]
SmallerOf(m, n) == IF m < n THEN m ELSE n
Capped(rows) == SubSeq(rows, 1, SmallerOf(Len(rows), MaxCopies))

\* Keys of a task's deadline notices: the days left, or overdue.
Overdue == -1
Keys == ReminderDays \cup {Overdue}
NoticeStates == {"absent", "unread", "read", "revoked"}
NoNotices == [k \in Keys |-> "absent"]

VARIABLES
  day,        \* today
  rule,       \* the RecurrenceRule row
  outbox,     \* EventOutbox: the task each "task.%" event is about
  checkpoint, \* ProjectionCheckpoint: last event, and whether it backs off
  weeks,      \* weeks that have a report
  items,      \* per week and task: sections of the report's rows for the task
  twice,      \* history: the weeks and tasks with rows that the last sync doubled
  notice,     \* per task and key: state of the row that has the key
  run,        \* per runner of due rules: where it is, and its copy of the rule
  draft,      \* what the scheduler's session has read and has pending
  owed,       \* the task a PATCH has committed and whose notices it owes
  passed,     \* history: occurrences passed over for another one's task
  quiet,      \* history: a task was changed without an event since the last one
  events      \* acts of users, failures and crashes so far

database == <<rule, tasks, outbox, checkpoint, weeks, items, twice, notice>>
history == <<overlapped, moved, passed, lost, quiet>>
vars == <<day, database, run, draft, owed, history, events>>

-----------------------------------------------------------------------------
\* The report of a week: where a task belongs in it.

Section(w, task) ==
  IF task.gone THEN "none"
  ELSE IF ~Open(task)
       THEN IF Week(task.done) = w THEN "completed" ELSE "none"
       ELSE IF Week(task.due) = w + 1 THEN "next_plan" ELSE "none"


SectionOf(all, w, t) == IF t \in DOMAIN all THEN Section(w, all[t]) ELSE "none"

\* auto_fill_report once: rows of a task that does not belong go, of several the
\* first stays, and a task that belongs and has no row gets one.
FaultyFilled(all, w) == [t \in TaskIds |-> <<SectionOf(all, w, t)>>]
Filled(all, w) ==
  [t \in TaskIds |-> IF SectionOf(all, w, t) = "none" THEN <<>> ELSE <<SectionOf(all, w, t)>>]

\* _sync_reports ensures the report of each anchor's week, and fills it, and then
\* fills every draft once more.  Creating a report that is missing flushes; what
\* is added after the last flush is not seen by the fills that follow, and is
\* added again by each.
Created(ws, i) == ws[i] \notin weeks /\ \A j \in 1..i - 1 : ws[j] # ws[i]
LastFlush(ws) ==
  CHOOSE i \in 0..Len(ws) :
    /\ i > 0 => Created(ws, i)
    /\ \A j \in i + 1..Len(ws) : ~Created(ws, j)
Fills(ws, w) == 1 + Cardinality({i \in DOMAIN ws : i >= LastFlush(ws) /\ ws[i] = w})
FilledBefore(ws, w) == \E i \in 1..LastFlush(ws) - 1 : ws[i] = w

\* The session's view after that: the reports it knows, their rows as it leaves
\* them, the rows it adds to them, and whether it has flushed.
Known(ws) == weeks \cup {ws[i] : i \in DOMAIN ws}
HasRows(ws, w, t) ==
  items[w][t] # <<>> \/ (FilledBefore(ws, w) /\ SectionOf(tasks, w, t) # "none")
Sync(ws) ==
  [known |-> Known(ws),
   rows  |-> [w \in Weeks |-> [t \in TaskIds |->
                IF w \in Known(ws) /\ HasRows(ws, w, t) THEN Filled(tasks, w)[t] ELSE <<>>]],
   added |-> [w \in Weeks |-> [t \in TaskIds |->
                IF w \in Known(ws) /\ ~HasRows(ws, w, t) /\ SectionOf(tasks, w, t) # "none"
                THEN [i \in 1..SmallerOf(Fills(ws, w), MaxCopies) |-> SectionOf(tasks, w, t)]
                ELSE <<>>]],
   flushed |-> LastFlush(ws) > 0]

\* The weeks and tasks that a sync leaves with more rows than one: what it adds
\* twice, or adds next to a row it has not seen.  Of several rows it has seen it
\* leaves one.
Doubled(seen, now, sync) ==
  LET of(rows, p) == rows[p[1]][p[2]] IN
  {p \in Weeks \X TaskIds :
     \/ p \in twice /\ Len(of(seen, p)) < 2
     \/ of(sync.added, p) # <<>> /\ Len(of(now, p) \o of(sync.added, p)) > 1}

\* completed_at and the due date of a task, as far as they are set, and the weeks
\* of the dates of several.
Dates(task) == (IF Open(task) THEN <<>> ELSE <<task.done>>) \o <<task.due>>
AnchorWeeks(lists) ==
  LET dates == FlattenSeq(<< <<day>> >> \o lists)
  IN [i \in DOMAIN dates |-> Week(dates[i])]

-----------------------------------------------------------------------------
\* The deadline notices of a task.

Desired(task, today) ==
  LET remaining == task.due - today IN
  IF ~Open(task) THEN {}
  ELSE IF remaining \in ReminderDays THEN {remaining}
  ELSE IF remaining < 0 THEN {Overdue} ELSE {}

\* A read or revoked row gives its key up and becomes history; as that is not
\* flushed, the key is still taken and the new notice has to wait.
FaultyReconciled(row, want) ==
  [k \in Keys |->
     IF k \in want
     THEN IF row[k] = "absent" THEN "unread" ELSE row[k]
     ELSE IF row[k] \in {"unread", "read"} THEN "revoked" ELSE row[k]]
Reconciled(row, want) ==
  [k \in Keys |->
     IF k \in want
     THEN IF row[k] \in {"absent", "unread"} THEN "unread" ELSE "absent"
     ELSE IF row[k] \in {"unread", "read"} THEN "revoked" ELSE row[k]]

\* Pending changes are written to the rows they were computed from.
Written(now, seen, new) ==
  [k \in Keys |->
     IF new[k] = seen[k] \/ (new[k] # "unread" /\ now[k] = "absent") THEN now[k]
     ELSE IF now[k] = "unread" /\ seen[k] # "unread" THEN now[k] ELSE new[k]]

-----------------------------------------------------------------------------
\* Sessions.

NoDraft ==
  [sync |-> [known |-> {}, rows |-> NoRows, added |-> NoRows, flushed |-> FALSE], base |-> NoRows, synced |-> FALSE, taken |-> 0,
   failed |-> FALSE, seen |-> <<>>, next |-> 1, pending |-> <<>>, locked |-> FALSE]
NewRule == [next |-> 0, count |-> 0, active |-> TRUE]
OffRule(pc) == [pc |-> pc, mine |-> NewRule, base |-> NewRule, today |-> 0]
Resting == OffRule("idle")
RulePcs == {"rule", "make", "save"}
OnRule(r) == run[r].pc \in RulePcs

\* Only the cycle holds the write lock from one of its steps to the next.
LockFree == ~draft.locked

\* The columns a runner changed since it last wrote them.
RuleWith(r) ==
  [c \in DOMAIN rule |-> IF run[r].mine[c] = run[r].base[c] THEN rule[c] ELSE run[r].mine[c]]

Event(t) == outbox' = Append(outbox, t) /\ quiet' = FALSE

Init ==
  /\ day = FirstDay
  /\ rule = NewRule
  /\ tasks = <<>> /\ outbox = <<>>
  /\ checkpoint = [last |-> 0, backoff |-> FALSE]
  /\ weeks = {} /\ items = NoRows /\ twice = {}
  /\ notice = [t \in TaskIds |-> NoNotices]
  /\ run = [r \in Runners |-> Resting]
  /\ draft = NoDraft
  /\ owed = Nobody
  /\ overlapped = FALSE /\ moved = {} /\ passed = {} /\ lost = 0 /\ quiet = FALSE
  /\ events = 0

-----------------------------------------------------------------------------
\* run_due_rules, by the scheduler and by hand.

AfterRules(r) == IF r = Scheduler THEN OffRule("project") ELSE Resting

Begin(r) ==
  /\ run[r].pc = "idle"
  /\ events' = IF r = ByHand THEN events + 2 ELSE events
  /\ events' <= MaxEvents
  /\ run' = [run EXCEPT ![r] =
       IF rule.active THEN [pc |-> "rule", mine |-> rule, base |-> rule, today |-> day]
       ELSE AfterRules(r)]
  /\ overlapped' = (overlapped \/ (rule.active /\ \E o \in Runners \ {r} : OnRule(o)))
  /\ UNCHANGED <<day, database, draft, owed, moved, passed, lost, quiet>>

\* One round of the loop; a change is pending until a commit.
Round(r, due, mine, pc) ==
  /\ run[r].pc = "rule"
  /\ due
  /\ run' = [run EXCEPT ![r].mine = mine, ![r].pc = pc]
  /\ UNCHANGED <<day, database, draft, owed, overlapped, moved, lost, quiet, events>>

FaultyExhausted(mine) == mine.count > Limit
Exhausted(mine) == mine.count >= Limit

FaultyDueNow(r) ==
  ~Exhausted(run[r].mine) /\ run[r].mine.next \notin Skips /\ run[r].mine.next < run[r].today
DueNow(r) ==
  /\ ~Exhausted(run[r].mine)
  /\ run[r].mine.next \notin Skips
  /\ run[r].mine.next <= run[r].today
Advanced(mine) == [mine EXCEPT !.next = @ + 1]

\* The occurrence's task, found by its due date.
FaultyAlreadyMade(o) ==
  \E t \in DOMAIN tasks : tasks[t].due = o /\ ~tasks[t].gone /\ Open(tasks[t])
AlreadyMade(o) == \E t \in DOMAIN tasks : tasks[t].due = o /\ ~tasks[t].gone

RuleEnds(r) ==
  /\ Round(r, Exhausted(run[r].mine), [run[r].mine EXCEPT !.active = FALSE], "save")
  /\ UNCHANGED passed
RuleSkips(r) ==
  LET mine == run[r].mine IN
  /\ Round(r, ~Exhausted(mine) /\ mine.next \in Skips, Advanced(mine), "rule")
  /\ UNCHANGED passed
RuleWaits(r) ==
  LET mine == run[r].mine IN
  /\ Round(r, ~Exhausted(mine) /\ mine.next \notin Skips /\ mine.next > run[r].today, mine, "save")
  /\ UNCHANGED passed
RuleFinds(r) ==
  LET mine == run[r].mine IN
  /\ Round(r, DueNow(r) /\ AlreadyMade(mine.next), Advanced(mine), "rule")
  /\ passed' = IF \E t \in DOMAIN tasks : tasks[t].occ = mine.next
               THEN passed ELSE passed \cup {mine.next}
RuleMisses(r) ==
  LET mine == run[r].mine IN
  /\ Round(r, DueNow(r) /\ ~AlreadyMade(mine.next), mine, "make")
  /\ UNCHANGED passed

\* create_task commits, and with the task what was pending on the rule; only
\* then is the occurrence counted.
Make(r) ==
  LET mine == run[r].mine IN
  /\ run[r].pc = "make" /\ LockFree /\ Len(tasks) < MaxTasks
  /\ tasks' = Append(tasks, [occ |-> mine.next, due |-> mine.next, done |-> NoDay, gone |-> FALSE])
  /\ rule' = RuleWith(r)
  /\ Event(Len(tasks) + 1)
  /\ run' = [run EXCEPT ![r].base = mine, ![r].pc = "rule",
                        ![r].mine = [Advanced(mine) EXCEPT !.count = @ + 1]]
  /\ UNCHANGED <<day, checkpoint, weeks, items, twice, notice, draft, owed,
                 overlapped, moved, passed, lost, events>>

SaveRule(r) ==
  /\ run[r].pc = "save" /\ LockFree
  /\ rule' = RuleWith(r)
  /\ run' = [run EXCEPT ![r] = AfterRules(r)]
  /\ UNCHANGED <<day, tasks, outbox, checkpoint, weeks, items, twice, notice, draft, owed,
                 history, events>>

-----------------------------------------------------------------------------
\* The rest of the cycle.

Cycle(from, to) ==
  /\ run[Scheduler].pc = from
  /\ run' = [run EXCEPT ![Scheduler].pc = to]

\* Backing off.  Nothing is pending then, unless it is from the recommendations
\* that follow.
BackOff ==
  /\ Cycle("project", "flush") \/ Cycle("project", "list")
  /\ checkpoint.backoff
  /\ UNCHANGED <<day, database, draft, owed, history, events>>

\* No event since the checkpoint, whose status is set all the same.
SkipProjection ==
  /\ Cycle("project", "flush")
  /\ ~checkpoint.backoff /\ checkpoint.last = Len(outbox)
  /\ UNCHANGED <<day, database, draft, owed, history, events>>

Unprojected == SubSeq(outbox, checkpoint.last + 1, Len(outbox))

Project ==
  /\ Cycle("project", "flush")
  /\ ~checkpoint.backoff /\ Unprojected # <<>>
  /\ \E ws \in {AnchorWeeks([i \in DOMAIN Unprojected |-> Dates(tasks[Unprojected[i]])])} :
     \E sync \in {Sync(ws)} :
       draft' = [draft EXCEPT !.sync = sync, !.base = items, !.synced = TRUE,
                              !.taken = Len(outbox), !.locked = sync.flushed]
  /\ UNCHANGED <<day, database, owed, history, events>>

\* The projection's failure is caught: it is rolled back and noted.
ProjectFails ==
  /\ Cycle("project", "flush")
  /\ ~checkpoint.backoff /\ Unprojected # <<>>
  /\ events < MaxEvents /\ events' = events + 1
  /\ draft' = [draft EXCEPT !.failed = TRUE]
  /\ UNCHANGED <<day, database, owed, history>>

\* The recommendations of each user end in a flush of what is pending, which
\* takes the write lock until the end of the cycle.
Flush ==
  /\ Cycle("flush", "list")
  /\ draft' = [draft EXCEPT !.locked = TRUE]
  /\ UNCHANGED <<day, database, owed, history, events>>

\* All tasks are loaded once, and the time is taken.
ListTasks ==
  /\ run[Scheduler].pc = "list"
  /\ run' = [run EXCEPT ![Scheduler].pc = "remind", ![Scheduler].today = day]
  /\ draft' = [draft EXCEPT !.seen = tasks]
  /\ UNCHANGED <<day, database, owed, history, events>>

\* The next of them, against its notices as they are now.
Remind ==
  LET t == draft.next
      row == notice[t]
      new == IF tasks[t].gone THEN row
             ELSE Reconciled(row, Desired(draft.seen[t], run[Scheduler].today))
  IN
  /\ run[Scheduler].pc = "remind"
  /\ t \in DOMAIN draft.seen
  /\ draft' = [draft EXCEPT
       !.next = t + 1,
       !.pending = Append(@, [seen |-> row, new |-> new]),
       !.locked = @ \/ \E k \in Keys : new[k] = "unread" /\ row[k] # "unread"]
  /\ UNCHANGED <<day, database, run, owed, history, events>>

\* Report rows as the session leaves them, with those added since it read them.
\* (Should a row it updates be gone by then, the cycle fails, as in CycleFails.)
Merged(now, seen, new, added) ==
  Capped((IF new = seen THEN now ELSE new \o SubSeq(now, Len(seen) + 1, Len(now))) \o added)

\* The checkpoint moves to the last event the session had read.
FaultyConsumed == Len(outbox)
Consumed == draft.taken

CommitCycle ==
  /\ run[Scheduler].pc = "remind" /\ draft.next > Len(draft.seen)
  /\ IF draft.synced
     THEN /\ weeks' = weeks \cup draft.sync.known
          /\ twice' = Doubled(draft.base, items, draft.sync)
          /\ items' = [w \in Weeks |-> [t \in TaskIds |->
               Merged(items[w][t], draft.base[w][t], draft.sync.rows[w][t], draft.sync.added[w][t])]]
          /\ checkpoint' = [last |-> Consumed, backoff |-> FALSE]
     ELSE /\ checkpoint' = [checkpoint EXCEPT !.backoff = @ \/ draft.failed]
          /\ UNCHANGED <<weeks, items, twice>>
  /\ notice' = [t \in TaskIds |->
       IF t \in DOMAIN draft.pending
       THEN Written(notice[t], draft.pending[t].seen, draft.pending[t].new)
       ELSE notice[t]]
  /\ run' = [run EXCEPT ![Scheduler] = Resting]
  /\ draft' = NoDraft
  /\ UNCHANGED <<day, rule, tasks, outbox, owed, history, events>>

\* An exception drops the cycle; an occurrence made but not counted stays so.
Uncounted(r) == OnRule(r) /\ run[r].mine.count > run[r].base.count
Dropped(runners) ==
  /\ run' = [r \in Runners |-> IF r \in runners THEN Resting ELSE run[r]]
  /\ draft' = NoDraft
  /\ lost' = lost + Cardinality({r \in runners : Uncounted(r)})

CycleFails ==
  /\ run[Scheduler].pc # "idle"
  /\ events < MaxEvents /\ events' = events + 1
  /\ Dropped({Scheduler})
  /\ UNCHANGED <<day, database, owed, overlapped, moved, passed, quiet>>

Crash ==
  /\ events < MaxEvents /\ events' = events + 1
  /\ Dropped(Runners)
  /\ owed' = Nobody
  /\ UNCHANGED <<day, database, overlapped, moved, passed, quiet>>

BackoffPasses ==
  /\ checkpoint.backoff
  /\ checkpoint' = [checkpoint EXCEPT !.backoff = FALSE]
  /\ UNCHANGED <<day, rule, tasks, outbox, weeks, items, twice, notice, run, draft, owed,
                 history, events>>

-----------------------------------------------------------------------------
\* Users.

Act ==
  /\ LockFree /\ events < MaxEvents /\ events' = events + 1
  /\ UNCHANGED <<day, rule, run, draft, overlapped, passed, lost>>

Present(t) == t \in DOMAIN tasks /\ ~tasks[t].gone

\* PATCH of a due date; the notices follow in a transaction of their own, with
\* the row as this one left it.
Reschedule(t, d) ==
  /\ Act /\ Present(t) /\ tasks[t].due # d /\ owed = Nobody
  /\ tasks' = [tasks EXCEPT ![t].due = d]
  /\ Event(t)
  /\ owed' = [task |-> t, row |-> tasks'[t]]
  /\ moved' = moved \cup {t}
  /\ UNCHANGED <<checkpoint, weeks, items, twice, notice>>

ReconcileOwed ==
  /\ owed # Nobody /\ LockFree
  /\ notice' = IF Present(owed.task)
               THEN [notice EXCEPT ![owed.task] = Reconciled(@, Desired(owed.row, day))]
               ELSE notice
  /\ owed' = Nobody
  /\ UNCHANGED <<day, rule, tasks, outbox, checkpoint, weeks, items, twice, run, draft,
                 history, events>>

\* The batch's date change tells nobody: no event, no notices.
BatchMove(t, d) ==
  /\ Act /\ Present(t) /\ tasks[t].due # d
  /\ tasks' = [tasks EXCEPT ![t].due = d]
  /\ quiet' = TRUE
  /\ moved' = moved \cup {t}
  /\ UNCHANGED <<outbox, checkpoint, weeks, items, twice, notice, owed>>

\* Completing brings the report of its week up to date in the same transaction.
Complete(t) ==
  /\ Act /\ Present(t) /\ Open(tasks[t])
  /\ tasks' = [tasks EXCEPT ![t].done = day]
  /\ weeks' = weeks \cup {Week(day)}
  /\ items' = [items EXCEPT ![Week(day)] = Filled(tasks', Week(day))]
  /\ twice' = {p \in twice : p[1] # Week(day)}
  /\ Event(t)
  /\ UNCHANGED <<checkpoint, notice, owed, moved>>

\* Reopening and deleting leave the reports to the projection.
Reopen(t) ==
  /\ Act /\ Present(t) /\ ~Open(tasks[t])
  /\ tasks' = [tasks EXCEPT ![t].done = NoDay]
  /\ Event(t)
  /\ UNCHANGED <<checkpoint, weeks, items, twice, notice, owed, moved>>

Delete(t) ==
  /\ Act /\ Present(t)
  /\ tasks' = [tasks EXCEPT ![t].gone = TRUE]
  /\ Event(t)
  /\ moved' = moved \cup {t}
  /\ UNCHANGED <<checkpoint, weeks, items, twice, notice, owed>>

ReadNotice(t, k) ==
  /\ Act /\ notice[t][k] = "unread"
  /\ notice' = [notice EXCEPT ![t][k] = "read"]
  /\ UNCHANGED <<tasks, outbox, checkpoint, weeks, items, twice, owed, moved, quiet>>

\* An administrator rebuilds the projection, all of it under the write lock.
Rebuild ==
  /\ Act
  /\ \E ws \in {AnchorWeeks([t \in DOMAIN tasks |-> IF Present(t) THEN Dates(tasks[t]) ELSE <<>>])} :
     \E sync \in {Sync(ws)} :
       /\ weeks' = sync.known
       /\ twice' = Doubled(items, items, sync)
       /\ items' = [w \in Weeks |-> [t \in TaskIds |-> sync.rows[w][t] \o sync.added[w][t]]]
  /\ checkpoint' = [last |-> Len(outbox), backoff |-> FALSE]
  /\ UNCHANGED <<tasks, outbox, notice, owed, moved, quiet>>

NextDay ==
  /\ day < LastDay
  /\ day' = day + 1
  /\ UNCHANGED <<database, run, draft, owed, history, events>>

-----------------------------------------------------------------------------
RunRule(r) ==
  \/ RuleEnds(r) \/ RuleSkips(r) \/ RuleWaits(r) \/ RuleFinds(r) \/ RuleMisses(r)
  \/ Make(r) \/ SaveRule(r)

RunCycle ==
  \/ BackOff \/ SkipProjection \/ Project \/ Flush \/ ListTasks \/ Remind \/ CommitCycle

User ==
  \/ \E t \in TaskIds :
       \/ \E d \in DueDays : Reschedule(t, d) \/ BatchMove(t, d)
       \/ Complete(t) \/ Reopen(t) \/ Delete(t)
       \/ \E k \in Keys : ReadNotice(t, k)
  \/ Rebuild

Trouble == ProjectFails \/ CycleFails \/ Crash

Next ==
  \/ \E r \in Runners : Begin(r) \/ RunRule(r)
  \/ RunCycle \/ ReconcileOwed \/ BackoffPasses \/ NextDay
  \/ User \/ Trouble

\* The loop of the scheduler goes on, and between two cycles it rests for a
\* minute, in which a request that waits for the lock gets it.
Fairness ==
  /\ WF_vars(Begin(Scheduler)) /\ WF_vars(RunRule(Scheduler)) /\ WF_vars(RunCycle)
  /\ WF_vars(BackoffPasses)
  /\ SF_vars(ReconcileOwed)

Spec == Init /\ [][Next]_vars /\ Fairness

-----------------------------------------------------------------------------
\* Types.

Rows == UNION {[1..n -> {"completed", "next_plan"}] : n \in 0..MaxCopies}
ItemRows == [Weeks -> [TaskIds -> Rows]]
NoticeRows == [Keys -> NoticeStates]
RunRow == [pc : {"idle", "rule", "make", "save", "project", "flush", "list", "remind"},
           mine : RuleRow, base : RuleRow, today : Days]

TypeOK ==
  /\ day \in Days /\ rule \in RuleRow
  /\ tasks \in Seq(TaskRow) /\ Len(tasks) <= MaxTasks
  /\ outbox \in Seq(TaskIds)
  /\ checkpoint \in [last : 0..Len(outbox), backoff : BOOLEAN]
  /\ weeks \subseteq Weeks /\ items \in ItemRows /\ twice \subseteq Weeks \X TaskIds
  /\ notice \in [TaskIds -> NoticeRows]
  /\ run \in [Runners -> RunRow]
  /\ draft.sync.known \subseteq Weeks
  /\ draft.sync.rows \in ItemRows /\ draft.sync.added \in ItemRows /\ draft.base \in ItemRows
  /\ draft.synced \in BOOLEAN /\ draft.failed \in BOOLEAN /\ draft.locked \in BOOLEAN
  /\ draft.taken \in 0..Len(outbox)
  /\ draft.seen \in Seq(TaskRow) /\ draft.next = Len(draft.pending) + 1
  /\ draft.pending \in Seq([seen : NoticeRows, new : NoticeRows])
  /\ owed = Nobody \/ owed \in [task : TaskIds, row : TaskRow]
  /\ overlapped \in BOOLEAN /\ moved \subseteq TaskIds /\ passed \subseteq Days /\ lost \in Nat /\ quiet \in BOOLEAN
  /\ events \in 0..MaxEvents

\* In the end every occurrence whose day has come, and that is within the limit,
\* has been made, unless a task of another occurrence was moved to its date and is taken for it.
Within(o) == o \notin Skips /\ Cardinality({p \in 0..o - 1 : p \notin Skips}) < Limit
DueAreMade ==
  \A o \in 0..day : Within(o) => o \in passed \/ \E t \in DOMAIN tasks : tasks[t].occ = o
OccurrencesAreMade == <>[]DueAreMade

\* In the end every draft report has exactly the rows of the tasks that belong in
\* it: each task once ("重复调用不会重复生成条目", projections.py:85; duplicates
\* go with the next sync, reports.py:152-154), in its section.  Excepted are a last
\* change that left no event, and, as to how often, the rows that the last sync
\* itself doubled: it fills a report anew for each anchor and does not see what it
\* added since its last flush (projections.py:66-79, database.py:48), nor what a
\* rebuild added before it took the write lock.
Shown(w, t) == {items[w][t][i] : i \in DOMAIN items[w][t]}
ReportsMatch ==
  \A w \in weeks, t \in DOMAIN tasks :
    IF <<w, t>> \in twice THEN Shown(w, t) = {Section(w, tasks[t])} \ {"none"}
    ELSE items[w][t] = Filled(tasks, w)[t]
ReportsConverge == <>[](quiet \/ ReportsMatch)

\* In the end the notices in force are those the tasks' dates ask for, however
\* a task was changed and whatever became of the update's own reconciliation.
InForce(t) == {k \in Keys : notice[t][k] \in {"unread", "read"}}
NoticesMatch ==
  \A t \in DOMAIN tasks : ~tasks[t].gone => InForce(t) = Desired(tasks[t], day)
NoticesConverge == <>[]NoticesMatch

=============================================================================
