--------------------------- MODULE TaskLifecycle ----------------------------
(***************************************************************************)
(* One project, its subtasks and its required material, worked on from      *)
(* several computers at once (task_service.py, state_machine.py,            *)
(* routers/tasks.py, routers/productivity.py, storage.py).                  *)
(*                                                                          *)
(* Every request loads the task's row in a session of its own, checks what  *)
(* it has to check and then writes.  The process-wide write lock is held    *)
(* from the first write to the commit, so that part is one step; what was   *)
(* loaded before is not read again unless the handler says so.  Three kinds *)
(* of handler differ in how they write the row's version:                   *)
(*   - PATCH, the status actions and DELETE compare and set: UPDATE ...     *)
(*     WHERE version = <the version that was checked>;                      *)
(*   - new materials and the files' handlers refresh the row under the lock;*)
(*   - all others assign task.version + 1 to the object they loaded, which  *)
(*     the ORM writes without any condition.                                *)
(*                                                                          *)
(* Who may do what is left out: a request is one its sender may make.       *)
(***************************************************************************)
EXTENDS Integers, FiniteSets

CONSTANTS
  Clients,     \* the computers people work at
  Project,     \* a task of type project
  Subtasks,    \* tasks that are created under it
  NoMatch,     \* the request carries no If-Match header
  MaxRequests, \* bound on the requests sent
  StartStatuses \* bound: the statuses the project starts from

ASSUME BoundsAssumption == MaxRequests \in Nat \ {0}
ASSUME ProjectAssumption == Project \notin Subtasks

Tasks == {Project} \cup Subtasks

Closed == {"completed", "archived"}
Statuses == {"pending_receipt", "pending_breakdown", "in_progress",
             "waiting_feedback", "pending_review", "returned"} \cup Closed

ASSUME StartsAssumption == StartStatuses \subseteq Statuses

\* A subtask that has not been created has no row.
Absent == "absent"

Versions == Nat
Contents == 0..MaxRequests

ASSUME NoMatchAssumption == NoMatch \notin Versions

TargetsOf(action) ==
  CASE action = "accept" -> [from |-> {"pending_receipt"}, to |-> "in_progress"]
    [] action = "start" -> [from |-> {"pending_breakdown", "returned"},
                            to |-> "in_progress"]
    [] action = "wait_feedback" -> [from |-> {"in_progress"},
                                    to |-> "waiting_feedback"]
    [] action = "resume" -> [from |-> {"waiting_feedback"},
                             to |-> "in_progress"]
    [] action = "submit_review" -> [from |-> {"in_progress", "waiting_feedback"},
                                    to |-> "pending_review"]
    [] action = "return" -> [from |-> {"pending_review"}, to |-> "returned"]
    [] action = "approve" -> [from |-> {"pending_review"}, to |-> "completed"]
    [] action = "complete" -> [from |-> {"in_progress", "waiting_feedback"},
                               to |-> "completed"]
    [] action = "archive" -> [from |-> {"completed"}, to |-> "archived"]
    [] action = "reopen" -> [from |-> Closed, to |-> "in_progress"]

Actions == {"accept", "start", "wait_feedback", "resume", "submit_review",
            "return", "approve", "complete", "archive", "reopen"}
Closing == {"complete", "approve", "archive"}

\* PATCH /tasks/{id}, with or without a change of reviewer, and the endpoint
\* that sends a conflict draft again.
Patches == {"edit", "assign", "dismiss", "apply"}
Materials == {"add", "waive", "require", "upload", "remove", "restore"}
Ops == Patches \cup Actions \cup Materials
         \cup {"touch", "subtask", "batch", "delete"}

NoAction == "none"

VARIABLES
  row,       \* [Tasks -> row]: status, version, content, reviewer set, deleted
  event,     \* [Tasks -> the task's latest TaskStatusEvent]
  material,  \* the project's required material item: marked as not applicable,
             \* with a final version, with one in the recycle bin
  page,      \* [Clients -> the project as the client last saw it]
  draft,     \* [Clients -> texts kept as ConflictDraft rows]
  req,       \* [Clients -> the client's request on the host]
  sent,      \* requests sent so far, which number the texts they carry
  regressed  \* history: a version was written that the row had had before

vars == <<row, event, material, page, draft, req, sent, regressed>>

Rows == [status : Statuses \cup {Absent}, version : Versions,
         content : Contents, reviewer : BOOLEAN, deleted : BOOLEAN]
Events == [from : Statuses \cup {Absent}, to : Statuses \cup {Absent}]
Items == [there : BOOLEAN, waived : BOOLEAN, final : BOOLEAN,
          binned : BOOLEAN]
Loads == [version : Versions, status : Statuses \cup {Absent},
          reviewer : BOOLEAN, waived : BOOLEAN]
Pages == [version : Versions, content : Contents]
Requests ==
  [at : {"idle", "loaded", "checked", "applied"}, op : Ops, task : Tasks,
   text : Contents, expected : Versions \cup {NoMatch}, saw : Contents,
   seen : Loads, pick : Actions \cup {NoAction}, fields : BOOLEAN,
   sure : BOOLEAN]

TypeOK ==
  /\ row \in [Tasks -> Rows]
  /\ event \in [Tasks -> Events]
  /\ material \in Items
  /\ page \in [Clients -> Pages]
  /\ draft \in [Clients -> SUBSET Contents]
  /\ req \in [Clients -> Requests]
  /\ sent \in 0..MaxRequests
  /\ regressed \in BOOLEAN

NoRow == [status |-> Absent, version |-> 0, content |-> 0,
          reviewer |-> FALSE, deleted |-> FALSE]
NewRow(status) == [NoRow EXCEPT !.status = status, !.version = 1]
NoLoad == [version |-> 0, status |-> Absent, reviewer |-> FALSE,
           waived |-> FALSE]
NoItem == [there |-> FALSE, waived |-> FALSE, final |-> FALSE,
           binned |-> FALSE]
Idle == [at |-> "idle", op |-> "edit", task |-> Project, text |-> 0,
         expected |-> NoMatch, saw |-> 0, seen |-> NoLoad,
         pick |-> NoAction, fields |-> FALSE, sure |-> TRUE]

\* A project that has been worked on before: nothing is under way.
Init ==
  /\ \E st \in StartStatuses, reviewed \in BOOLEAN,
        subs \in [Subtasks -> {NoRow, NewRow("in_progress"),
                               NewRow("completed")}] :
       /\ st = "archived" => \A t \in Subtasks : subs[t] # NewRow("in_progress")
       /\ row = [t \in Tasks |->
                   IF t = Project THEN [NewRow(st) EXCEPT !.reviewer = reviewed]
                                  ELSE subs[t]]
       /\ event = [t \in Tasks |-> [from |-> Absent, to |-> row[t].status]]
       /\ material \in {NoItem, [NoItem EXCEPT !.there = TRUE],
                        [NoItem EXCEPT !.there = TRUE, !.final = TRUE]}
       /\ st = "archived" => material # [NoItem EXCEPT !.there = TRUE]
  /\ page = [c \in Clients |-> [version |-> 1, content |-> 0]]
  /\ draft = [c \in Clients |-> {}]
  /\ req = [c \in Clients |-> Idle]
  /\ sent = 0
  /\ regressed = FALSE

-----------------------------------------------------------------------------
(* What a request checks                                                    *)

Unfinished(t) ==
  {s \in Subtasks : /\ t = Project
                    /\ row[s].status \notin Closed \cup {Absent}
                    /\ ~row[s].deleted}

\* Only the project has a material item.
Missing(t) == /\ t = Project
              /\ material.there /\ ~material.waived /\ ~material.final

\* The checks of apply_task_action between the load and the lock.
MayAct(action, t, seen) ==
  /\ action = "complete" => ~seen.reviewer
  /\ action \in Closing => Unfinished(t) = {}
  /\ action = "archive" => ~Missing(t)
  /\ seen.status \in TargetsOf(action).from

\* Some handlers ask for If-Match, some look at it if it is there, and the
\* rest of the endpoints do not read it.
Asking == Patches \cup {"remove", "restore", "delete"}
Looking == Actions \cup {"touch", "add", "upload"}
Expectations(c, op, t) ==
  CASE t # Project    -> {NoMatch}
    [] op \in Asking  -> {page[c].version}
    [] op \in Looking -> {NoMatch, page[c].version}
    [] OTHER          -> {NoMatch}

\* Those that compare it again under the lock.
Comparing == Asking \cup {"add"}

\* The checks a handler makes on the objects it has loaded.
MayLoad(op, pick) ==
  /\ op = "subtask" => \E s \in Subtasks : row[s].status = Absent
  /\ op \in Materials \ {"add"} => material.there
  /\ op = "upload" => row[Project].status # "archived" /\ ~material.final
  /\ op \in {"remove", "restore"} => row[Project].status \notin Closed
  /\ op = "remove" => material.final
  /\ op = "restore" => material.binned
  /\ op = "batch" /\ pick # NoAction =>
       row[Project].status \in TargetsOf(pick).from

\* Bound: what the requests about a subtask do.
SubtaskOps == {"complete", "reopen"}

-----------------------------------------------------------------------------
(* Loading                                                                  *)

\* The client opens or refreshes the project.
View(c) ==
  LET now == [version |-> row[Project].version,
              content |-> row[Project].content]
  IN /\ req[c].at = "idle"
     /\ ~row[Project].deleted
     /\ page[c] # now
     /\ page' = [page EXCEPT ![c] = now]
     /\ UNCHANGED <<row, event, material, draft, req, sent, regressed>>

\* A text that is sent is new, or that of a draft; other requests carry none.
CarriesText(c, op, fields, text) ==
  CASE op = "apply" -> text \in draft[c]
    [] op \in Patches \/ fields -> text = sent + 1
    [] OTHER -> text = 0

\* What the handler holds once it has looked at the task.
Loaded(c, op, t, exp, text, pick, fields) ==
  [at |-> "loaded", op |-> op, task |-> t, text |-> text,
   expected |-> IF op \in Comparing THEN exp ELSE NoMatch,
   saw |-> IF op \in Patches THEN page[c].content ELSE 0,
   seen |-> [version |-> row[t].version, status |-> row[t].status,
             reviewer |-> row[t].reviewer, waived |-> material.waived],
   pick |-> pick, fields |-> fields, sure |-> TRUE]

\* get_task_or_404 and the checks that follow it.  One that a version or a
\* check refuses leaves nothing behind and is not followed, except PATCH.
Load(c, op, t) ==
  /\ req[c].at = "idle"
  /\ sent < MaxRequests
  /\ t # Project => op \in SubtaskOps
  /\ row[t].status # Absent /\ ~row[t].deleted
  /\ \E exp \in Expectations(c, op, t), text \in Contents,
        pick \in Actions \cup {NoAction}, fields \in BOOLEAN :
       /\ exp # NoMatch => exp = row[t].version
       /\ op # "batch" => pick = NoAction /\ ~fields
       /\ op = "batch" => pick # NoAction \/ fields
       /\ CarriesText(c, op, fields, text)
       /\ MayLoad(op, pick)
       /\ req' = [req EXCEPT ![c] = Loaded(c, op, t, exp, text, pick, fields)]
  /\ sent' = sent + 1
  /\ UNCHANGED <<row, event, material, page, draft, regressed>>

\* update_task finds another version than its sender saw: the text is kept.
RefuseStalePage(c, op) ==
  /\ req[c].at = "idle" /\ op \in Patches
  /\ sent < MaxRequests
  /\ ~row[Project].deleted
  /\ page[c].version # row[Project].version
  /\ \E text \in Contents :
       /\ CarriesText(c, op, FALSE, text)
       /\ draft' = [draft EXCEPT ![c] = @ \cup {text}]
  /\ sent' = sent + 1
  /\ UNCHANGED <<row, event, material, page, req, regressed>>

\* apply_task_action reads the subtasks and the materials.
Check(c) ==
  LET r == req[c]
  IN /\ r.at = "loaded" /\ r.op \in Actions
     /\ req' = [req EXCEPT ![c] = IF MayAct(r.op, r.task, r.seen)
                                    THEN [r EXCEPT !.at = "checked"] ELSE Idle]
     /\ UNCHANGED <<row, event, material, page, draft, sent, regressed>>

-----------------------------------------------------------------------------
(* Writing: from the lock to the commit                                     *)

Answered(c) == req' = [req EXCEPT ![c] = Idle]

\* The answer carries the row as it was written.
Shown(c, r) ==
  page' = [page EXCEPT ![c] = [version |-> r.version, content |-> r.content]]

\* The version was compared when the row was loaded, and that is all.
FaultyVersionHolds(c) == TRUE

\* UPDATE tasks ... WHERE id = :id AND version = :checked
VersionHolds(c) == row[req[c].task].version = req[c].expected

FaultyCasHolds(c) == TRUE

\* ... AND version = :observed AND status = :previous
CasHolds(c) == /\ row[req[c].task].version = req[c].seen.version
               /\ row[req[c].task].status = req[c].seen.status

Refused(c) ==
  Answered(c) /\ UNCHANGED <<row, event, material, page, draft, sent, regressed>>

SavePatch(c) ==
  LET r == req[c]
      new == [row[Project] EXCEPT
                !.version = r.expected + 1, !.content = r.text,
                !.reviewer = CASE r.op = "assign"  -> TRUE
                               [] r.op = "dismiss" -> FALSE
                               [] OTHER            -> @]
  IN /\ r.at = "loaded" /\ r.op \in Patches
     /\ VersionHolds(c)
     /\ row' = [row EXCEPT ![Project] = new]
     /\ Shown(c, new)
     /\ req' = [req EXCEPT ![c] = IF r.op = "apply"
                                    THEN [r EXCEPT !.at = "applied"] ELSE Idle]
     /\ UNCHANGED <<event, material, draft, sent, regressed>>

KeepAsDraft(c) ==
  /\ req[c].at = "loaded" /\ req[c].op \in Patches
  /\ ~VersionHolds(c)
  /\ draft' = [draft EXCEPT ![c] = @ \cup {req[c].text}]
  /\ Answered(c)
  /\ UNCHANGED <<row, event, material, page, sent, regressed>>

\* apply_conflict_draft drops the draft in a commit of its own.
DropDraft(c) ==
  /\ req[c].at = "applied"
  /\ draft' = [draft EXCEPT ![c] = @ \ {req[c].text}]
  /\ Answered(c)
  /\ UNCHANGED <<row, event, material, page, sent, regressed>>

\* A reopened subtask makes what others have read of it out of date.
Doubted(t, action, others) ==
  [x \in Clients |->
     IF t # Project /\ action = "reopen" /\ others[x].at = "checked"
       THEN [others[x] EXCEPT !.sure = FALSE] ELSE others[x]]

\* The event a status action adds: previous is the status that was loaded.
StatusEvent(c, action) ==
  [from |-> req[c].seen.status, to |-> TargetsOf(action).to]

Act(c) ==
  LET r == req[c]
      new == [row[r.task] EXCEPT !.status = TargetsOf(r.op).to,
                                 !.version = r.seen.version + 1]
  IN /\ r.at = "checked"
     /\ CasHolds(c)
     /\ row' = [row EXCEPT ![r.task] = new]
     /\ event' = [event EXCEPT ![r.task] = StatusEvent(c, r.op)]
     /\ req' = Doubted(r.task, r.op, [req EXCEPT ![c] = Idle])
     /\ IF r.task = Project THEN Shown(c, new) ELSE UNCHANGED page
     /\ UNCHANGED <<material, draft, sent, regressed>>

RefuseAct(c) == req[c].at = "checked" /\ ~CasHolds(c) /\ Refused(c)

\* batch_tasks: the status goes through apply_task_action, all of it under the
\* lock, the fields onto the object that was loaded or, after a change of
\* status, refreshed.
BatchMayAct(c) == /\ MayAct(req[c].pick, Project, req[c].seen)
                  /\ CasHolds(c)

Batch(c) ==
  LET r == req[c]
      moves == r.pick # NoAction
      version == r.seen.version + (IF moves THEN 1 ELSE 0)
                                + (IF r.fields THEN 1 ELSE 0)
      new == [row[Project] EXCEPT
                !.status = IF moves THEN TargetsOf(r.pick).to ELSE @,
                !.content = IF r.fields THEN r.text ELSE @,
                !.version = version]
  IN /\ r.at = "loaded" /\ r.op = "batch"
     /\ moves => BatchMayAct(c)
     /\ row' = [row EXCEPT ![Project] = new]
     /\ event' = IF moves
                   THEN [event EXCEPT ![Project] = StatusEvent(c, r.pick)]
                   ELSE event
     /\ regressed' = (regressed \/ r.seen.version # row[Project].version)
     /\ Answered(c)
     /\ UNCHANGED <<material, page, draft, sent>>

RefuseBatch(c) == /\ req[c].at = "loaded" /\ req[c].op = "batch"
                  /\ req[c].pick # NoAction /\ ~BatchMayAct(c)
                  /\ Refused(c)

\* task.version += 1 on the object that was loaded.
Bumped(c) == [row[Project] EXCEPT !.version = req[c].seen.version + 1]
Bump(c) == /\ req[c].at = "loaded"
           /\ Answered(c)
           /\ regressed' = (regressed \/ req[c].seen.version # row[Project].version)

\* add_participant, remove_participant, add_step, patch_step, delete_step
Touch(c) ==
  /\ req[c].op = "touch"
  /\ Bump(c)
  /\ row' = [row EXCEPT ![Project] = Bumped(c)]
  /\ Shown(c, Bumped(c))
  /\ UNCHANGED <<event, material, draft, sent>>

\* The new subtask leaves the project's row alone.
FaultyAddSubtask(c) ==
  /\ req[c].op = "subtask" /\ req[c].at = "loaded"
  /\ Answered(c)
  /\ \E s \in Subtasks :
       /\ row[s].status = Absent
       /\ row' = [row EXCEPT ![s] = NewRow("in_progress")]
       /\ event' = [event EXCEPT ![s] = [from |-> Absent, to |-> "in_progress"]]
  /\ UNCHANGED <<material, page, draft, sent, regressed>>

\* create_task with a parent
AddSubtask(c) ==
  /\ req[c].op = "subtask"
  /\ Bump(c)
  /\ \E s \in Subtasks :
       /\ row[s].status = Absent
       /\ row' = [row EXCEPT ![Project] = Bumped(c),
                             ![s] = NewRow("in_progress")]
       /\ event' = [event EXCEPT ![s] = [from |-> Absent, to |-> "in_progress"]]
  /\ UNCHANGED <<material, page, draft, sent>>

\* patch_material: the ORM writes not_applicable if it changes what was loaded.
PatchMaterial(c) ==
  LET waived == req[c].op = "waive"
  IN /\ req[c].op \in {"waive", "require"}
     /\ Bump(c)
     /\ row' = [row EXCEPT ![Project] = Bumped(c)]
     /\ material' = [material EXCEPT
                       !.waived = IF waived # req[c].seen.waived THEN waived
                                                                 ELSE @]
     /\ UNCHANGED <<event, page, draft, sent>>

-----------------------------------------------------------------------------
(* Handlers that refresh the row under the lock                             *)

Fresh(c, op) == /\ req[c].at = "loaded" /\ req[c].op = op
                /\ req[c].expected # NoMatch => VersionHolds(c)

Renewed == [row[Project] EXCEPT !.version = @ + 1]

AddMaterial(c) ==
  /\ Fresh(c, "add")
  /\ ~material.there
  /\ material' = [NoItem EXCEPT !.there = TRUE]
  /\ row' = [row EXCEPT ![Project] = Renewed]
  /\ Answered(c)
  /\ UNCHANGED <<event, page, draft, sent, regressed>>

\* save_attachment with the final version: the status and the item are looked
\* at again, the version the client sent is not.
UploadFinal(c) ==
  /\ Fresh(c, "upload")
  /\ row[Project].status # "archived" /\ ~material.final
  /\ material' = [material EXCEPT !.final = TRUE]
  /\ row' = [row EXCEPT ![Project] = Renewed]
  /\ Shown(c, Renewed)
  /\ Answered(c)
  /\ UNCHANGED <<event, draft, sent, regressed>>

\* Nothing is looked at again.
FaultyRemoveFinal(c) ==
  /\ req[c].at = "loaded" /\ req[c].op = "remove"
  /\ material.final
  /\ material' = [material EXCEPT !.final = FALSE, !.binned = TRUE]
  /\ row' = [row EXCEPT ![Project] = Renewed]
  /\ Shown(c, Renewed)
  /\ Answered(c)
  /\ UNCHANGED <<event, draft, sent, regressed>>

\* delete_attachment_version: only the version is looked at again.
RemoveFinal(c) ==
  /\ Fresh(c, "remove")
  /\ material.final
  /\ material' = [material EXCEPT !.final = FALSE, !.binned = TRUE]
  /\ row' = [row EXCEPT ![Project] = Renewed]
  /\ Shown(c, Renewed)
  /\ Answered(c)
  /\ UNCHANGED <<event, draft, sent, regressed>>

\* restore_attachment_version: final again unless there is another by now.
RestoreFinal(c) ==
  /\ Fresh(c, "restore")
  /\ material.binned
  /\ material' = [material EXCEPT !.final = TRUE, !.binned = FALSE]
  /\ row' = [row EXCEPT ![Project] = Renewed]
  /\ Shown(c, Renewed)
  /\ Answered(c)
  /\ UNCHANGED <<event, draft, sent, regressed>>

DeleteTask(c) ==
  /\ Fresh(c, "delete")
  /\ ~row[Project].deleted
  /\ row' = [row EXCEPT ![Project] = [Renewed EXCEPT !.deleted = TRUE]]
  /\ Answered(c)
  /\ UNCHANGED <<event, material, page, draft, sent, regressed>>

RefuseRefreshed(c) ==
  /\ req[c].at = "loaded"
  /\ \/ req[c].op = "add" /\ (material.there \/ ~Fresh(c, "add"))
     \/ req[c].op = "upload" /\ (row[Project].status = "archived" \/ material.final)
     \/ req[c].op = "remove" /\ (~material.final \/ ~VersionHolds(c))
     \/ req[c].op = "restore" /\ (~material.binned \/ ~VersionHolds(c))
     \/ req[c].op = "delete" /\ (row[Project].deleted \/ ~VersionHolds(c))
  /\ Refused(c)

Handle(c) ==
  \/ Check(c) \/ SavePatch(c) \/ KeepAsDraft(c) \/ DropDraft(c)
  \/ Act(c) \/ RefuseAct(c) \/ Batch(c) \/ RefuseBatch(c)
  \/ Touch(c) \/ AddSubtask(c) \/ PatchMaterial(c) \/ AddMaterial(c)
  \/ UploadFinal(c) \/ RemoveFinal(c) \/ RestoreFinal(c)
  \/ DeleteTask(c) \/ RefuseRefreshed(c)

Next ==
  \E c \in Clients :
    \/ View(c)
    \/ \E op \in Ops, t \in Tasks : Load(c, op, t)
    \/ \E op \in Patches : RefuseStalePage(c, op)
    \/ Handle(c)

Spec == Init /\ [][Next]_vars

-----------------------------------------------------------------------------
(* Properties                                                               *)

Saves(c) == /\ req[c].at = "loaded" /\ req[c].op \in Patches
            /\ row' # row /\ req'[c] # req[c]

\* An edit that is saved replaces exactly what its author was looking at
\* (docs/user-guide.md:55), unless some handler has written a version that the
\* row had had before, from an object it loaded too early.
EditsReplaceWhatWasSeen ==
  [][\A c \in Clients :
       Saves(c) => row[Project].content = req[c].saw \/ regressed]_vars

\* The same without the exception, which is what the guide says.
NoEditIsOverwritten ==
  [][\A c \in Clients : Saves(c) => row[Project].content = req[c].saw]_vars

\* The status events of a task form a chain: each one starts from the status
\* that the one before it ended in, and the row has the status of the last.
\* That holds even where a version comes back, because a status action also
\* compares the status (apply_task_action).
StatusChain ==
  [][\A t \in Tasks :
       /\ event'[t] # event[t] => event'[t].from = event[t].to
       /\ row'[t].status = event'[t].to]_vars

\* A project is completed or archived on facts that still hold at the commit:
\* its subtasks are finished, but for one that was reopened since they were
\* read, the materials of an archived one are complete, and one that has a
\* reviewer does not get past him.  A subtask that is created or a material
\* that is added in between changes the row's version.
ClosedOnCurrentFacts ==
  [][\A c \in Clients :
       LET was == row[Project].status
           is == row'[Project].status
           action == IF req[c].op = "batch" THEN req[c].pick ELSE req[c].op
       IN (is # was /\ is \in Closed /\ req'[c] # req[c] /\ ~regressed) =>
            /\ Unfinished(Project) = {} \/ ~req[c].sure
            /\ is = "archived" => ~Missing(Project)
            /\ action = "complete" => ~row[Project].reviewer]_vars

\* A final version is neither removed from a project nor put back into one that
\* was completed or archived after the request had looked at its status
\* (delete_attachment_version and restore_attachment_version look once).
FilesOfClosedStay ==
  [][material'.binned # material.binned =>
       row[Project].status \notin Closed \/ regressed]_vars

=============================================================================
