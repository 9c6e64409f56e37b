---------------------------- MODULE LedgerImport ----------------------------
(***************************************************************************)
(* Imports of ledger files into the archives or into the party development  *)
(* register (ledger_imports.py, routers/ledger_imports.py): a job keeps its *)
(* parsed rows in a private stage file, is mapped and validated, committed  *)
(* in one transaction and can be undone in another.                         *)
(*                                                                          *)
(* A request loads the job's row, checks it and decides what each row of    *)
(* the file will do before it takes the write lock; under the lock it reads *)
(* the records again, but neither the job nor what was decided.  The row of *)
(* the job is written as the ORM does: only the attributes that differ from *)
(* what was loaded, with no condition on the version.                       *)
(*                                                                          *)
(* A record's contents are one text, the values of a row or what a person   *)
(* wrote; new fields, progress events and templates are left out, and all   *)
(* rows are well-formed.                                                    *)
(***************************************************************************)
EXTENDS Integers, Sequences, FiniteSets

CONSTANTS
  Jobs,        \* files that may be imported, each by a job
  LastRow,     \* number of rows of a file
  Keys,        \* what records are recognised by: a document number, a person
  Clients,     \* requests under way at once
  Nobody,      \* stands where the text of a row has its job
  MaxRecords,  \* bound on the records imports may make
  MaxRequests, \* bound on the requests sent to jobs
  MaxUpsets    \* bound on what people do to records, and on crashes, failing
               \* transactions and busy files

ASSUME BoundsAssumption ==
  /\ LastRow \in Nat \ {0}
  /\ MaxRecords \in Nat /\ MaxRequests \in Nat
  /\ MaxUpsets \in Nat
ASSUME NobodyAssumption == Nobody \notin Jobs

Rows == 1..LastRow

\* The text of a row, and the texts of people: 0 is the one a record had before
\* any import, the others are numbered by their edits.
RowText(j, r) == <<j, r>>
HumanText(n) == <<Nobody, n>>
Texts == (Jobs \X Rows) \cup ({Nobody} \X (0..MaxUpsets))

Ended == {"committed", "undone"}
JobRow == [status : {"none", "inspected", "mapped", "validated",
                     "validation_failed", "expired"} \cup Ended,
           version : Nat, mapped : BOOLEAN]

\* The user's choices for rows that may be duplicates.  "fill" is an update of
\* what is empty.
Choices == {"new", "skip", "update"}

VARIABLES
  target,   \* "archive" or "party": what the jobs import into
  file,     \* [Jobs -> [Rows -> Keys]]: the files
  job,      \* [Jobs -> LedgerImportJob]
  stage,    \* the jobs with a stage file
  record,   \* the records, by what made them
  commits,  \* number of the commits so far
  change,   \* LedgerImportChange rows
  call,     \* [Clients -> the request a client waits for]
  asked, upsets,
  stale,    \* history: jobs whose row was written by a request that had loaded
            \* an older one, or that reset the status of an ended job
  overrun   \* history: records an undo changed after they had changed since
            \* its check

vars == <<target, file, job, stage, record, commits, change, call, asked, upsets,
          stale, overrun>>

\* A record is known by the commit and the row that made it; commit 0 stands for
\* what was there before.
Ids == Nat \X Rows

\* `said` is history: the last text a person gave or restored to the record.
Records == [key : Keys, text : Texts, version : Nat \ {0}, live : BOOLEAN,
            said : Texts \cup {Nobody}]
Changes == [job : Jobs, row : Rows, entity : Ids, created : BOOLEAN,
            before : [text : Texts, live : BOOLEAN], after : Nat,
            active : BOOLEAN]
\* What a row will do: make a record, change nothing, or update a record.
Create == <<0, 0>>
Skip == <<0, -1>>
Plans == [Rows -> {Create, Skip} \cup Ids]
NoPlan == [r \in Rows |-> Skip]
NoJob == [status |-> "none", version |-> 0, mapped |-> FALSE]
Mapped == [status |-> "mapped", version |-> 2, mapped |-> TRUE]
Idle == [op |-> "idle", job |-> Nobody, seen |-> NoJob, new |-> NoJob,
         plan |-> NoPlan, undoes |-> {}]

Record == DOMAIN record

TypeOK ==
  /\ target \in {"archive", "party"}
  /\ file \in [Jobs -> [Rows -> Keys]]
  /\ job \in [Jobs -> JobRow]
  /\ stage \subseteq Jobs /\ stale \subseteq Jobs
  /\ Record \subseteq Ids /\ record \in [Record -> Records] /\ commits \in Nat
  /\ change \subseteq Changes
  /\ call \in [Clients ->
                [op : {"idle", "save", "commit", "undo", "unstage"},
                 job : Jobs \cup {Nobody}, seen : JobRow, new : JobRow,
                 plan : Plans, undoes : SUBSET Changes]]
  /\ asked \in 0..MaxRequests /\ upsets \in 0..MaxUpsets
  /\ overrun \subseteq Record

\* Some files have been read and mapped, and a record may be there before the first
\* import.
Init ==
  /\ target \in {"archive", "party"}
  /\ file \in [Jobs -> [Rows -> Keys]]
  /\ job \in [Jobs -> {NoJob, Mapped}]
  /\ stage = {j \in Jobs : job[j] = Mapped}
  /\ stale = {} /\ overrun = {}
  /\ \E I \in SUBSET {<<0, 1>>} :
       record \in [I -> [key : Keys, text : {HumanText(0)}, version : {1},
                        live : {TRUE}, said : {HumanText(0)}]]
  /\ commits = 0
  /\ change = {}
  /\ call = [c \in Clients |-> Idle]
  /\ asked = 0 /\ upsets = 0

Upset == upsets < MaxUpsets /\ upsets' = upsets + 1
NoUpset == UNCHANGED upsets

----------------------------------------------------------------------------
\* Loading and writing the job's row.

\* Reads of a file create its job; the stage file is removed when that fails.
Inspect(j) ==
  /\ job[j].status = "none"
  /\ job' = [job EXCEPT ![j] = [status |-> "inspected", version |-> 1,
                                mapped |-> FALSE]]
  /\ stage' = stage \cup {j}
  /\ UNCHANGED <<target, file, record, commits, change, call, asked, upsets, stale, overrun>>

\* What lets a request go on with the job it loaded.
Loads(c, j) == call[c] = Idle /\ job[j].status \notin {"none", "expired"}

Ask(c, op, j, new, plan, undoes) ==
  /\ asked < MaxRequests /\ asked' = asked + 1
  /\ call' = [call EXCEPT ![c] = [op |-> op, job |-> j, seen |-> job[j], new |-> new,
                                  plan |-> plan, undoes |-> undoes]]
Save(c, j, new) == Ask(c, "save", j, new, NoPlan, {})

Aside == <<target, file, record, commits, change, stale, overrun>>

\* A request that finds the job's 24 hours gone removes the stage and marks the job;
\* that may be at any time.
Expire(c, j) ==
  /\ Loads(c, j) /\ job[j].status \notin Ended
  /\ \/ NoUpset /\ stage' = stage \ {j}
     \/ Upset /\ UNCHANGED stage
  /\ Save(c, j, [job[j] EXCEPT !.status = "expired"])
  /\ UNCHANGED <<job, Aside>>

Bumped(s, status, mapped) ==
  [status |-> status, version |-> s.version + 1, mapped |-> mapped]

\* Choosing another sheet or header, and mapping columns to fields.
Remap(c, j) ==
  /\ Loads(c, j)
  /\ job[j].status \notin Ended /\ j \in stage
  /\ \E m \in BOOLEAN :
       Save(c, j, Bumped(job[j], IF m THEN "mapped" ELSE "inspected", m))
  /\ UNCHANGED <<job, stage, upsets, Aside>>

\* The record a row is taken for: those that an undo or an administrator has
\* withdrawn count as well in the party's register.
Matches(k) == {i \in Record : record[i].key = k /\ (target = "party" \/ record[i].live)}
\* A row that may be a duplicate needs a choice, without which the job fails.
MayLackChoice(j) == \E r \in Rows : Matches(file[j][r]) # {}

\* A choice counts only for a row that is taken for exactly one record.
PlanOf(j, choice) ==
  [r \in Rows |-> LET M == Matches(file[j][r]) IN
     IF Cardinality(M) # 1 \/ choice[r] = "new" THEN Create
     ELSE IF choice[r] = "skip" THEN Skip ELSE CHOOSE i \in M : TRUE]

\* Validation looks at the rows and not at the status of the job.
Validate(c, j) ==
  /\ Loads(c, j)
  /\ job[j].mapped /\ j \in stage
  /\ \/ Save(c, j, Bumped(job[j], "validated", TRUE))
     \/ MayLackChoice(j) /\ Save(c, j, Bumped(job[j], "validation_failed", TRUE))
  /\ UNCHANGED <<job, stage, upsets, Aside>>

\* The attributes that differ from what was loaded are written, and no others.
Kept(old, seen, new) == IF new = seen THEN old ELSE new
Written(j, seen, new) ==
  [status |-> Kept(job[j].status, seen.status, new.status),
   version |-> Kept(job[j].version, seen.version, new.version),
   mapped |-> Kept(job[j].mapped, seen.mapped, new.mapped)]

\* Whether the row is written as if nothing had happened to it.
Doubted(c) ==
  IF job[call[c].job] # call[c].seen THEN {call[c].job} ELSE {}

SaveJob(c) ==
  LET j == call[c].job IN
  /\ call[c].op = "save"
  /\ job' = [job EXCEPT ![j] = Written(j, call[c].seen, call[c].new)]
  /\ stale' = stale \cup Doubted(c) \cup (IF job[j].status \in Ended THEN {j} ELSE {})
  /\ call' = [call EXCEPT ![c] = Idle]
  /\ UNCHANGED <<target, file, stage, record, commits, change, asked, upsets, overrun>>

----------------------------------------------------------------------------
\* Committing.

FaultyMayCommit(s) == s.status # "undone"
MayCommit(s) == s.status \notin Ended

\* The rows are validated once more, before the lock is taken.
StartCommit(c, j) ==
  /\ Loads(c, j)
  /\ MayCommit(job[j])
  /\ job[j].mapped /\ j \in stage
  /\ \/ \E p \in {PlanOf(j, choice) : choice \in [Rows -> Choices]} :
          Ask(c, "commit", j, Bumped(job[j], "committed", TRUE), p, {})
     \/ MayLackChoice(j) /\ Save(c, j, Bumped(job[j], "validation_failed", TRUE))
  /\ UNCHANGED <<job, stage, upsets, Aside>>

\* Under the lock the rows are carried out in their order, a record that several
\* rows are taken for being updated by each.
Updating(p, i, upto) == {r \in 1..upto : p[r] = i}
Creating(p) == {r \in Rows : p[r] = Create}
Made(p) == {<<commits + 1, r>> : r \in Creating(p)}

LastOf(S) == CHOOSE r \in S : \A q \in S : q <= r
TextBefore(j, p, r) ==
  LET U == Updating(p, p[r], r - 1)
  IN IF U = {} THEN record[p[r]].text ELSE RowText(j, LastOf(U))
FaultyBefore(j, p, r) == [text |-> RowText(j, r), live |-> record[p[r]].live]
Before(j, p, r) ==
  [text |-> TextBefore(j, p, r), live |-> record[p[r]].live]

Updated(j, p, i) ==
  LET U == Updating(p, i, LastRow)
  IN IF U = {} THEN record[i]
     ELSE [record[i] EXCEPT !.text = RowText(j, LastOf(U)),
                            !.version = @ + Cardinality(U)]
NewRecord(j, r) ==
  [key |-> file[j][r], text |-> RowText(j, r), version |-> 1, live |-> TRUE,
   said |-> Nobody]
EntityOf(p, r) ==
  IF p[r] = Create THEN <<commits + 1, r>> ELSE p[r]
ChangeOf(j, p, r) ==
  [job |-> j, row |-> r, entity |-> EntityOf(p, r), created |-> p[r] = Create,
   before |-> IF p[r] = Create THEN [text |-> RowText(j, r), live |-> FALSE]
              ELSE Before(j, p, r),
   after |-> IF p[r] = Create THEN 1
             ELSE record[p[r]].version + Cardinality(Updating(p, p[r], r)),
   active |-> TRUE]

\* A row has at most one change of a record (a constraint of the table).
Repeats(j, p) ==
  \E ch \in change : ch.job = j /\ p[ch.row] = ch.entity

Commit(c) ==
  LET j == call[c].job
      p == call[c].plan
  IN
  /\ call[c].op = "commit" /\ ~Repeats(j, p)
  /\ Cardinality(Record \cup Made(p)) <= MaxRecords
  /\ record' = [i \in Record \cup Made(p) |->
                  IF i \in Record THEN Updated(j, p, i) ELSE NewRecord(j, i[2])]
  /\ commits' = commits + 1
  /\ change' = change \cup {ChangeOf(j, p, r) : r \in {q \in Rows : p[q] # Skip}}
  /\ job' = [job EXCEPT ![j] = Written(j, call[c].seen, call[c].new)]
  /\ stale' = stale \cup Doubted(c)
  /\ call' = [call EXCEPT ![c] = [Idle EXCEPT !.op = "unstage", !.job = j]]
  /\ UNCHANGED <<target, file, stage, asked, upsets, overrun>>

\* The transaction is rolled back, and the request with it.
CommitFails(c) ==
  /\ call[c].op = "commit"
  /\ \/ NoUpset /\ Repeats(call[c].job, call[c].plan)
     \/ Upset
  /\ call' = [call EXCEPT ![c] = Idle]
  /\ UNCHANGED <<job, stage, asked, Aside>>

\* The stage is removed after the commit; that it cannot be is passed over.
Unstage(c) ==
  /\ call[c].op = "unstage"
  /\ \/ NoUpset /\ stage' = stage \ {call[c].job}
     \/ Upset /\ UNCHANGED stage
  /\ call' = [call EXCEPT ![c] = Idle]
  /\ UNCHANGED <<job, asked, Aside>>

----------------------------------------------------------------------------
\* Undoing.

ActiveOf(j) == {ch \in change : ch.job = j /\ ch.active}

\* A record that is not as the import left it stands in the way.
Undisturbed(ch) == record[ch.entity].version = ch.after

StartUndo(c, j) ==
  /\ Loads(c, j)
  /\ job[j].status = "committed"
  /\ \A ch \in ActiveOf(j) : Undisturbed(ch)
  /\ Ask(c, "undo", j, Bumped(job[j], "undone", job[j].mapped), NoPlan, ActiveOf(j))
  /\ UNCHANGED <<job, stage, upsets, Aside>>

FaultyReverted(i, U) ==
  LET ch == CHOOSE d \in U : d.entity = i
  IN [record[i] EXCEPT !.live = @ /\ ~ch.created, !.version = ch.after + 1]
\* Under the lock the check is not repeated.  The record that was checked last,
\* that of the first row, is still in memory: it gets the version after the one it
\* had then, and nothing is written that it had then.  The others are read again.
Reverted(i, U) ==
  LET ch == CHOOSE d \in U : d.entity = i
      inMemory == \A d \in U : ch.row <= d.row
  IN [record[i] EXCEPT
        !.text = IF ch.created THEN @ ELSE ch.before.text,
        !.live = IF ch.created THEN FALSE
                 ELSE IF inMemory THEN @ ELSE ch.before.live,
        !.version = (IF inMemory THEN ch.after ELSE @) + 1]

Undo(c) ==
  LET j == call[c].job
      U == call[c].undoes
  IN
  /\ call[c].op = "undo"
  /\ record' = [i \in Record |->
                  IF \E ch \in U : ch.entity = i THEN Reverted(i, U) ELSE record[i]]
  /\ change' = (change \ U) \cup {[ch EXCEPT !.active = FALSE] : ch \in U}
  /\ job' = [job EXCEPT ![j] = Written(j, call[c].seen, call[c].new)]
  /\ stale' = stale \cup Doubted(c)
  /\ overrun' = overrun \cup {ch.entity : ch \in {d \in U : ~Undisturbed(d)}}
  /\ call' = [call EXCEPT ![c] = Idle]
  /\ UNCHANGED <<target, file, stage, commits, asked, upsets>>

----------------------------------------------------------------------------
\* What else happens to jobs and records.

\* People edit a record, withdraw it, or put it back; each handler compares the
\* version it was shown.  Only the party's register asks for the status, and an
\* edit does not ask there either.
Person(i, new) ==
  /\ Upset
  /\ record' = [record EXCEPT ![i] = new]
  /\ UNCHANGED <<target, file, job, stage, commits, change, call, asked, stale, overrun>>
Edit(i) ==
  Person(i, [record[i] EXCEPT !.text = HumanText(upsets + 1),
                              !.said = HumanText(upsets + 1),
                              !.version = @ + 1])
Withdraw(i) ==
  /\ target = "archive" \/ record[i].live
  /\ Person(i, [record[i] EXCEPT !.live = FALSE, !.version = @ + 1])
Reinstate(i) ==
  /\ target = "archive" \/ ~record[i].live
  /\ Person(i, [record[i] EXCEPT !.live = TRUE, !.version = @ + 1,
                                 !.said = record[i].text])

\* The host stops; requests under way are gone, files and rows stay.
Crash ==
  /\ Upset
  /\ \E c \in Clients : call[c] # Idle
  /\ call' = [c \in Clients |-> Idle]
  /\ UNCHANGED <<job, stage, asked, Aside>>

Request(c, j) ==
  Expire(c, j) \/ Remap(c, j) \/ Validate(c, j) \/ StartCommit(c, j) \/ StartUndo(c, j)
Finish(c) ==
  SaveJob(c) \/ Commit(c) \/ CommitFails(c) \/ Unstage(c) \/ Undo(c)

Next ==
  \/ \E j \in Jobs : Inspect(j)
  \/ \E c \in Clients, j \in Jobs : Request(c, j)
  \/ \E c \in Clients : Finish(c)
  \/ \E i \in Record : Edit(i) \/ Withdraw(i) \/ Reinstate(i)
  \/ Crash

Spec == Init /\ [][Next]_vars

----------------------------------------------------------------------------
\* Properties.

\* A row of a file becomes at most one record, however often the job's requests
\* are sent; not so when two requests overlapped, or when a validation reset the
\* status of an ended job whose stage was still there.
RowsImportOnce ==
  \A one, two \in change :
    one.created /\ two.created /\ one.job = two.job /\ one.row = two.row =>
      one.entity = two.entity \/ one.job \in stale

\* Nothing of an undone import is to be seen, also when other imports went over
\* the same records or were undone; what a person put back is that person's.  Not
\* so for a record that changed between the check and the lock of an undo.
UndoneIsUndone ==
  \A j \in Jobs \ stale, i \in Record \ overrun :
    job[j].status = "undone" /\ record[i].live /\ record[i].text[1] = j =>
      record[i].said = record[i].text

\* What a person last wrote is in the record or can be had back: a change that
\* has not been undone replaced it.  Not so for a record that was edited between
\* the check and the lock of an undo.
EditsCanBeHadBack ==
  \A i \in Record \ overrun :
    \/ record[i].said \in {Nobody, record[i].text}
    \/ \E ch \in change : ch.entity = i /\ ch.active /\ ~ch.created
                          /\ ch.before.text = record[i].said

=============================================================================
