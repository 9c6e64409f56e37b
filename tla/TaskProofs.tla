----------------------------- MODULE TaskProofs -----------------------------
(***************************************************************************)
(* Proofs about tasks: their life in the hands of users (TaskLifecycle),    *)
(* for any number of computers, subtasks and requests and any starting      *)
(* status, and, at the end, their making by the scheduler (SchedulerCycle), *)
(* for any calendar, rule and number of disturbances.                       *)
(*                                                                          *)
(* The inductive invariant of a task's life says what a version stands for: *)
(* as long as no handler has put an old one back, whoever holds the         *)
(* project's present version, a client on its screen or a request on the    *)
(* host, holds what is still true of the project.  Each step either moves   *)
(* the version on (Advances) or keeps everything a version stands for       *)
(* (Keeps).                                                                 *)
(***************************************************************************)
EXTENDS TaskLifecycle, Occurrences, Sequences, FiniteSetTheorems, WellFoundedInduction, TLAPS

\* What a request on the host is, by the way it was loaded.
Placed ==
  \A c \in Clients :
    LET r == req[c]
    IN /\ r.at = "checked" => r.op \in Actions
       /\ r.op \notin Actions => r.task = Project
       /\ r.task # Project => r.op \in SubtaskOps
       /\ r.at = "loaded" /\ r.op \in Asking => r.expected = r.seen.version
       /\ r.at = "loaded" /\ r.op = "batch" => r.pick # NoAction \/ r.fields

\* The row's status is that of its last event.
Chained == \A t \in Tasks : event[t].to = row[t].status

\* Files belong to an item that is there, which never goes again.
Filed ==
  /\ material.binned \/ material.final => material.there
  /\ \A c \in Clients :
       req[c].at = "loaded" /\ req[c].op = "upload" => material.there

\* What a request saw and checked, which is so as long as the version is.
StillTrue(r) ==
  /\ r.seen.reviewer = row[Project].reviewer
  /\ r.op \in Patches => r.saw = row[Project].content
  /\ r.op \in {"remove", "restore"} => row[Project].status \notin Closed
  /\ r.at = "checked" =>
       /\ r.op \in Closing => Unfinished(Project) = {} \/ ~r.sure
       /\ r.op = "archive" => ~Missing(Project)
       /\ r.op = "complete" => ~r.seen.reviewer

SeenHolds(r) ==
  r.at # "idle" /\ r.task = Project =>
    /\ r.seen.version <= row[Project].version
    /\ r.seen.version = row[Project].version => StillTrue(r)

PageHolds(p) ==
  /\ p.version <= row[Project].version
  /\ p.version = row[Project].version => p.content = row[Project].content

Seen == ~regressed => \A c \in Clients : PageHolds(page[c]) /\ SeenHolds(req[c])

Inv == TypeOK /\ Placed /\ Chained /\ Filed /\ Seen

-----------------------------------------------------------------------------
(* Types                                                                    *)

(* Every action leads to one of the statuses (ACTION_TARGETS). *)
LEMMA TargetsTyped ==
  \A a \in Actions : TargetsOf(a).to \in Statuses
  BY DEF Actions, TargetsOf, Statuses, Closed

(* The shape of the values that the actions build. *)
LEMMA Shapes ==
  /\ \A st \in Statuses : NewRow(st) \in Rows
  /\ NoRow \in Rows
  /\ "in_progress" \in Statuses /\ "completed" \in Statuses
  /\ Absent \notin Statuses
  /\ NoItem \in Items
<1>1. 0 \in Contents /\ 0 \in Versions /\ 1 \in Versions
  BY BoundsAssumption DEF Contents, Versions
<1>2. NoRow \in Rows
  BY <1>1 DEF NoRow, Rows
<1>3. \A st \in Statuses : NewRow(st) \in Rows
  BY <1>1 DEF NewRow, NoRow, Rows
<1>4. NoItem \in Items
  BY DEF NoItem, Items
<1>5. QED
  BY <1>2, <1>3, <1>4 DEF Statuses, Closed, Absent

(* A client without a request. *)
LEMMA Idling == Idle \in Requests
<1>1. 0 \in Contents /\ 0 \in Versions /\ "edit" \in Ops /\ Project \in Tasks
  BY BoundsAssumption DEF Contents, Versions, Ops, Patches, Tasks
<1>2. NoLoad \in Loads
  BY <1>1 DEF NoLoad, Loads
<1>3. QED
  BY <1>1, <1>2 DEF Idle, Requests

(* Initially everything has its type. *)
LEMMA InitTyped == Init => TypeOK
<1> SUFFICES ASSUME Init PROVE TypeOK
  OBVIOUS
<1>1. row \in [Tasks -> Rows]
  <2>1. PICK st \in StartStatuses, reviewed \in BOOLEAN,
             subs \in [Subtasks -> {NoRow, NewRow("in_progress"),
                                    NewRow("completed")}] :
          row = [t \in Tasks |->
                   IF t = Project THEN [NewRow(st) EXCEPT !.reviewer = reviewed]
                                  ELSE subs[t]]
    BY DEF Init
  <2>2. [NewRow(st) EXCEPT !.reviewer = reviewed] \in Rows
    BY Shapes, StartsAssumption DEF NewRow, NoRow, Rows
  <2>3. \A t \in Subtasks : subs[t] \in Rows
    BY Shapes
  <2>4. QED
    BY <2>1, <2>2, <2>3 DEF Tasks
<1>2. event \in [Tasks -> Events]
  BY <1>1 DEF Init, Events, Rows
<1>3. material \in Items
  <2>1. material \in {NoItem, [NoItem EXCEPT !.there = TRUE],
                     [NoItem EXCEPT !.there = TRUE, !.final = TRUE]}
    BY DEF Init
  <2>2. /\ [NoItem EXCEPT !.there = TRUE] \in Items
        /\ [NoItem EXCEPT !.there = TRUE, !.final = TRUE] \in Items
    BY DEF NoItem, Items
  <2>3. QED
    BY <2>1, <2>2, Shapes
<1>4. /\ page = [c \in Clients |-> [version |-> 1, content |-> 0]]
      /\ draft = [c \in Clients |-> {}]
      /\ req = [c \in Clients |-> Idle]
      /\ sent = 0
      /\ regressed = FALSE
  BY DEF Init
<1>5. /\ req \in [Clients -> Requests] /\ page \in [Clients -> Pages]
      /\ draft \in [Clients -> SUBSET Contents]
      /\ sent \in 0..MaxRequests /\ regressed \in BOOLEAN
  <2>1. [version |-> 1, content |-> 0] \in Pages
    BY BoundsAssumption DEF Pages, Versions, Contents
  <2>3. req \in [Clients -> Requests]
    BY <1>4, Idling
  <2>4. page \in [Clients -> Pages]
    BY <1>4, <2>1
  <2>5. draft \in [Clients -> SUBSET Contents]
    BY <1>4
  <2>6. sent \in 0..MaxRequests
    BY <1>4, BoundsAssumption
  <2>7. regressed \in BOOLEAN
    BY <1>4
  <2>8. QED
    BY <2>3, <2>4, <2>5, <2>6, <2>7
<1>6. QED
  BY <1>1, <1>2, <1>3, <1>5 DEF TypeOK

(* A written row and the page that shows it are of their types. *)
LEMMA Shows ==
  ASSUME TypeOK, NEW c \in Clients, NEW r \in Rows, Shown(c, r)
  PROVE  page' \in [Clients -> Pages]
  BY DEF TypeOK, Shown, Rows, Pages

LEMMA Answers ==
  ASSUME TypeOK, NEW c \in Clients, Answered(c)
  PROVE  req' \in [Clients -> Requests]
  BY Idling DEF TypeOK, Answered

(* Loading a request. *)
Loading(c, op, t, exp, text, pick, fields) ==
  /\ exp # NoMatch => exp = row[t].version
  /\ op # "batch" => pick = NoAction /\ ~fields
  /\ op = "batch" => pick # NoAction \/ fields
  /\ CarriesText(c, op, fields, text)
  /\ MayLoad(op, pick)
  /\ req' = [req EXCEPT ![c] = Loaded(c, op, t, exp, text, pick, fields)]

LEMMA LoadIs ==
  ASSUME NEW c, NEW op, NEW t, Load(c, op, t)
  PROVE  \E exp \in Expectations(c, op, t), text \in Contents,
            pick \in Actions \cup {NoAction}, fields \in BOOLEAN :
           Loading(c, op, t, exp, text, pick, fields)
  BY DEF Load, Loading

LEMMA LoadTyped ==
  ASSUME TypeOK, NEW c \in Clients, NEW op \in Ops, NEW t \in Tasks, Load(c, op, t)
  PROVE  TypeOK'
<1>1. PICK exp \in Expectations(c, op, t), text \in Contents,
           pick \in Actions \cup {NoAction}, fields \in BOOLEAN :
        req' = [req EXCEPT ![c] = Loaded(c, op, t, exp, text, pick, fields)]
  <2>1. PICK exp \in Expectations(c, op, t), text \in Contents,
             pick \in Actions \cup {NoAction}, fields \in BOOLEAN :
          Loading(c, op, t, exp, text, pick, fields)
    BY LoadIs
  <2>2. QED
    BY <2>1 DEF Loading
<1>2. page[c] \in Pages /\ row[t] \in Rows /\ material \in Items
  BY DEF TypeOK
<1>3. exp \in Versions \cup {NoMatch}
  BY <1>2 DEF Expectations, Pages
<1>4. req' \in [Clients -> Requests]
  <2>1. (IF op \in Patches THEN page[c].content ELSE 0) \in Contents
    BY <1>2, BoundsAssumption DEF Pages, Contents
  <2>2. [version |-> row[t].version, status |-> row[t].status,
         reviewer |-> row[t].reviewer, waived |-> material.waived] \in Loads
    BY <1>2 DEF Rows, Items, Loads
  <2>3. (IF op \in Comparing THEN exp ELSE NoMatch) \in Versions \cup {NoMatch}
    BY <1>3
  <2>4. Loaded(c, op, t, exp, text, pick, fields) \in Requests
    BY <2>1, <2>2, <2>3 DEF Loaded, Requests
  <2>5. QED
    BY <1>1, <2>4 DEF TypeOK
<1>5. sent' \in 0..MaxRequests
  BY BoundsAssumption DEF Load, TypeOK
<1>6. QED
  BY <1>4, <1>5 DEF TypeOK, Load

(* Every action of a request keeps the types. *)
LEMMA HandleTyped ==
  ASSUME TypeOK, NEW c \in Clients, Handle(c), Placed
  PROVE  TypeOK'
<1> DEFINE r == req[c]
<1>1. r \in Requests /\ row[r.task] \in Rows /\ row[Project] \in Rows
  BY DEF TypeOK, Requests, Tasks
<1>2. /\ r.seen \in Loads /\ r.text \in Contents /\ r.task \in Tasks
      /\ r.fields \in BOOLEAN /\ r.pick \in Actions \cup {NoAction}
  BY <1>1 DEF Requests
<1>3. Project \in Tasks /\ Subtasks \subseteq Tasks
  BY DEF Tasks
<1>4. r.seen.version + 1 \in Versions /\ r.seen.version + 2 \in Versions
  BY <1>2 DEF Loads, Versions
<1>5. Bumped(c) \in Rows
  BY <1>1, <1>4 DEF Bumped, Rows
<1>6. Renewed \in Rows
  BY <1>1 DEF Renewed, Rows, Versions
<1>7. \A w \in BOOLEAN : [material EXCEPT !.waived = w] \in Items
  BY DEF TypeOK, Items
<1>8. CASE Check(c)
  <2>1. req' \in [Clients -> Requests]
    BY <1>1, <1>8, Idling DEF Check, TypeOK, Requests
  <2>2. QED
    BY <1>8, <2>1 DEF Check, TypeOK
<1>9. CASE SavePatch(c)
  <2> DEFINE new == [row[Project] EXCEPT
                !.version = r.expected + 1, !.content = r.text,
                !.reviewer = CASE r.op = "assign"  -> TRUE
                               [] r.op = "dismiss" -> FALSE
                               [] OTHER            -> @]
  <2>1. r.expected = r.seen.version
    BY <1>9 DEF SavePatch, Placed, Asking
  <2>2. new \in Rows
    BY <1>1, <1>2, <1>4, <2>1 DEF Rows
  <2>3. row' \in [Tasks -> Rows] /\ page' \in [Clients -> Pages]
    BY <1>9, <1>3, <2>2, Shows DEF SavePatch, TypeOK
  <2>4. req' \in [Clients -> Requests]
    BY <1>1, <1>9, Idling DEF SavePatch, TypeOK, Requests
  <2>5. QED
    BY <1>9, <2>3, <2>4 DEF SavePatch, TypeOK
<1>10. CASE KeepAsDraft(c)
  BY <1>2, <1>10, Answers DEF KeepAsDraft, TypeOK
<1>11. CASE DropDraft(c)
  BY <1>11, Answers DEF DropDraft, TypeOK
<1>12. CASE Act(c)
  <2> DEFINE new == [row[r.task] EXCEPT !.status = TargetsOf(r.op).to,
                                        !.version = r.seen.version + 1]
  <2>1. r.op \in Actions
    BY <1>12 DEF Act, Placed
  <2>2. new \in Rows
    BY <1>1, <1>4, <2>1, TargetsTyped DEF Rows
  <2>3. StatusEvent(c, r.op) \in Events
    BY <1>2, <2>1, TargetsTyped DEF StatusEvent, Events, Loads
  <2>4. row' \in [Tasks -> Rows] /\ event' \in [Tasks -> Events]
    BY <1>2, <1>12, <2>2, <2>3 DEF Act, TypeOK
  <2>5. page' \in [Clients -> Pages]
    BY <1>12, <2>2, Shows DEF Act, TypeOK
  <2>6. req' \in [Clients -> Requests]
    <3>1. [req EXCEPT ![c] = Idle] \in [Clients -> Requests]
      BY Idling DEF TypeOK
    <3>2. \A q \in Requests : [q EXCEPT !.sure = FALSE] \in Requests
      BY DEF Requests
    <3>3. QED
      BY <1>12, <3>1, <3>2 DEF Act, Doubted
  <2>7. QED
    BY <1>12, <2>4, <2>5, <2>6 DEF Act, TypeOK
<1>13. CASE Batch(c)
  <2> DEFINE moves == r.pick # NoAction
             version == r.seen.version + (IF moves THEN 1 ELSE 0)
                                       + (IF r.fields THEN 1 ELSE 0)
             new == [row[Project] EXCEPT
                       !.status = IF moves THEN TargetsOf(r.pick).to ELSE @,
                       !.content = IF r.fields THEN r.text ELSE @,
                       !.version = version]
  <2>1. version \in Versions
    BY <1>2 DEF Loads, Versions
  <2>2. new \in Rows
    BY <1>1, <1>2, <2>1, TargetsTyped DEF Rows
  <2>3. moves => StatusEvent(c, r.pick) \in Events
    BY <1>2, TargetsTyped DEF StatusEvent, Events, Loads
  <2>4. row' \in [Tasks -> Rows] /\ event' \in [Tasks -> Events]
    BY <1>3, <1>13, <2>2, <2>3 DEF Batch, TypeOK
  <2>5. QED
    BY <1>13, <2>4, Answers DEF Batch, TypeOK
<1>14. CASE RefuseAct(c) \/ RefuseBatch(c) \/ RefuseRefreshed(c)
  BY <1>14, Answers DEF RefuseAct, RefuseBatch, RefuseRefreshed, Refused, TypeOK
<1>15. CASE Touch(c)
  BY <1>3, <1>5, <1>15, Answers, Shows DEF Touch, Bump, TypeOK
<1>16. CASE AddSubtask(c)
  <2>1. PICK s \in Subtasks :
          /\ row' = [row EXCEPT ![Project] = Bumped(c), ![s] = NewRow("in_progress")]
          /\ event' = [event EXCEPT ![s] = [from |-> Absent, to |-> "in_progress"]]
    BY <1>16 DEF AddSubtask
  <2>2. row' \in [Tasks -> Rows]
    BY <1>3, <1>5, <2>1, Shapes DEF TypeOK
  <2>3. event' \in [Tasks -> Events]
    BY <2>1, Shapes DEF TypeOK, Events
  <2>4. QED
    BY <1>16, <2>2, <2>3, Answers DEF AddSubtask, Bump, TypeOK
<1>17. CASE PatchMaterial(c)
  <2>1. material' \in Items
    BY <1>17 DEF PatchMaterial, TypeOK, Items
  <2>2. QED
    BY <1>3, <1>5, <1>17, <2>1, Answers DEF PatchMaterial, Bump, TypeOK
<1>18. CASE AddMaterial(c)
  <2>1. material' \in Items
    BY <1>18 DEF AddMaterial, NoItem, Items
  <2>2. QED
    BY <1>3, <1>6, <1>18, <2>1, Answers DEF AddMaterial, TypeOK
<1>19. CASE UploadFinal(c)
  <2>1. material' \in Items
    BY <1>19 DEF UploadFinal, TypeOK, Items
  <2>2. QED
    BY <1>3, <1>6, <1>19, <2>1, Answers, Shows DEF UploadFinal, TypeOK
<1>20. CASE RemoveFinal(c) \/ RestoreFinal(c)
  <2>1. material' \in Items
    BY <1>20 DEF RemoveFinal, RestoreFinal, TypeOK, Items
  <2>2. QED
    BY <1>3, <1>6, <1>20, <2>1, Answers, Shows DEF RemoveFinal, RestoreFinal, TypeOK
<1>21. CASE DeleteTask(c)
  <2>1. [Renewed EXCEPT !.deleted = TRUE] \in Rows
    BY <1>6 DEF Rows
  <2>2. QED
    BY <1>3, <1>21, <2>1, Answers DEF DeleteTask, TypeOK
<1>22. QED
  BY <1>8, <1>9, <1>10, <1>11, <1>12, <1>13, <1>14, <1>15, <1>16, <1>17,
     <1>18, <1>19, <1>20, <1>21 DEF Handle

(* Initially nothing is under way. *)
LEMMA InitPlaced == Init => Placed /\ Chained /\ Filed /\ Seen
<1> SUFFICES ASSUME Init PROVE Placed /\ Chained /\ Filed /\ Seen
  OBVIOUS
<1>1. /\ req = [c \in Clients |-> Idle]
      /\ page = [c \in Clients |-> [version |-> 1, content |-> 0]]
      /\ event = [t \in Tasks |-> [from |-> Absent, to |-> row[t].status]]
  BY DEF Init
<1>2. Placed
  BY <1>1 DEF Placed, Idle, Asking, Patches
<1>3. Chained
  BY <1>1 DEF Chained
<1>4. Filed
  <2>1. material \in {NoItem, [NoItem EXCEPT !.there = TRUE],
                     [NoItem EXCEPT !.there = TRUE, !.final = TRUE]}
    BY DEF Init
  <2>2. /\ ~NoItem.binned /\ ~NoItem.final
        /\ [NoItem EXCEPT !.there = TRUE].there
        /\ [NoItem EXCEPT !.there = TRUE, !.final = TRUE].there
    BY DEF NoItem
  <2>3. /\ material.binned \/ material.final => material.there
        /\ \A c \in Clients : req[c].at = "idle"
    BY <1>1, <2>1, <2>2 DEF Idle
  <2>4. QED
    BY <2>3 DEF Filed
<1>5. Seen
  <2>1. row[Project].version = 1 /\ row[Project].content = 0
    <3>1. PICK st \in StartStatuses, reviewed \in BOOLEAN :
            row[Project] = [NewRow(st) EXCEPT !.reviewer = reviewed]
      BY DEF Init, Tasks
    <3>2. QED
      BY <3>1 DEF NewRow, NoRow
  <2>2. \A c \in Clients : PageHolds(page[c])
    BY <1>1, <2>1 DEF PageHolds
  <2>3. \A c \in Clients : SeenHolds(req[c])
    BY <1>1 DEF SeenHolds, Idle
  <2>4. QED
    BY <2>2, <2>3 DEF Seen
<1>6. QED
  BY <1>2, <1>3, <1>4, <1>5

-----------------------------------------------------------------------------
(* Requests stay what they were loaded as                                   *)

Carried(c) == req'[c] \in {req[c], [req[c] EXCEPT !.sure = FALSE], Idle}

(* A step of one client leaves the others' requests alone, but for a doubt, and *)
(* its own goes on only from Load to Check and from an edit to its draft. *)
LEMMA StepCarries ==
  ASSUME TypeOK, Next
  PROVE  \/ \A x \in Clients : Carried(x)
         \/ \E c \in Clients, op \in Ops, t \in Tasks : Load(c, op, t)
         \/ \E c \in Clients : Check(c) \/ SavePatch(c)
<1>1. PICK c \in Clients :
        \/ View(c)
        \/ \E op \in Ops, t \in Tasks : Load(c, op, t)
        \/ \E op \in Patches : RefuseStalePage(c, op)
        \/ Handle(c)
  BY DEF Next
<1>2. CASE View(c) \/ \E op \in Patches : RefuseStalePage(c, op)
  BY <1>2 DEF View, RefuseStalePage, Carried
<1>3. CASE Answered(c)
  BY <1>3 DEF Answered, Carried, TypeOK
<1>4. CASE Act(c)
  <2>1. req' = Doubted(req[c].task, req[c].op, [req EXCEPT ![c] = Idle])
    BY <1>4 DEF Act
  <2>2. \A x \in Clients :
          req'[x] \in {[req EXCEPT ![c] = Idle][x],
                      [[req EXCEPT ![c] = Idle][x] EXCEPT !.sure = FALSE]}
    BY <2>1 DEF Doubted
  <2>3. \A x \in Clients \ {c} : Carried(x)
    BY <2>2 DEF Carried, TypeOK
  <2>4. req'[c] = Idle
    BY <2>1 DEF Doubted, Idle, TypeOK
  <2>5. QED
    BY <2>3, <2>4 DEF Carried
<1>5. CASE /\ Handle(c)
           /\ ~Check(c) /\ ~SavePatch(c) /\ ~Act(c)
  <2>1. Answered(c)
    BY <1>5 DEF Handle, KeepAsDraft, DropDraft, RefuseAct, Refused, Batch,
                RefuseBatch, Touch, Bump, AddSubtask, PatchMaterial, AddMaterial,
                UploadFinal, RemoveFinal, RestoreFinal, DeleteTask,
                RefuseRefreshed
  <2>2. QED
    BY <1>3, <2>1
<1>6. QED
  BY <1>1, <1>2, <1>4, <1>5

(* A request that is carried over stays in its place. *)
LEMMA PlacedStays ==
  ASSUME TypeOK, Placed, Next
  PROVE  Placed'
<1> DEFINE P(r) ==
       /\ r.at = "checked" => r.op \in Actions
       /\ r.op \notin Actions => r.task = Project
       /\ r.task # Project => r.op \in SubtaskOps
       /\ r.at = "loaded" /\ r.op \in Asking => r.expected = r.seen.version
       /\ r.at = "loaded" /\ r.op = "batch" => r.pick # NoAction \/ r.fields
<1>1. \A c \in Clients : P(req[c]) /\ req[c] \in Requests
  BY DEF Placed, TypeOK
<1>2. P(Idle)
  BY DEF Idle, Asking, Patches, Actions
<1>3. SUFFICES \A c \in Clients : P(req'[c])
  BY DEF Placed
<1>4. CASE \A x \in Clients : Carried(x)
  <2>1. \A q \in Requests : P(q) => P([q EXCEPT !.sure = FALSE])
    BY DEF Requests
  <2> HIDE DEF P
  <2>2. QED
    BY <1>1, <1>2, <1>4, <2>1 DEF Carried
<1>5. ASSUME NEW c \in Clients, NEW op \in Ops, NEW t \in Tasks, Load(c, op, t)
      PROVE  \A x \in Clients : P(req'[x])
  <2>1. PICK exp \in Expectations(c, op, t), text \in Contents,
             pick \in Actions \cup {NoAction}, fields \in BOOLEAN :
          Loading(c, op, t, exp, text, pick, fields)
    BY <1>5, LoadIs
  <2>l. /\ exp # NoMatch => exp = row[t].version
        /\ op = "batch" => pick # NoAction \/ fields
        /\ req' = [req EXCEPT ![c] = Loaded(c, op, t, exp, text, pick, fields)]
    BY <2>1 DEF Loading
  <2>2. t # Project => op \in SubtaskOps
    BY <1>5 DEF Load
  <2>3. op \in Asking => op \in Comparing /\ exp # NoMatch
    <3>1. op \in Asking => t = Project
      BY <2>2 DEF Asking, Patches, SubtaskOps
    <3>2. page[c].version \in Nat
      BY DEF TypeOK, Pages, Versions
    <3>3. op \in Asking => Expectations(c, op, t) = {page[c].version}
      BY <3>1 DEF Expectations, Asking, Looking, Patches, Actions
    <3>4. QED
      BY <3>2, <3>3, NoMatchAssumption DEF Comparing, Versions
  <2>4. P(Loaded(c, op, t, exp, text, pick, fields))
    BY <2>l, <2>2, <2>3 DEF Loaded, SubtaskOps, Actions
  <2> HIDE DEF P
  <2>5. QED
    BY <1>1, <2>l, <2>4 DEF TypeOK
<1>6. ASSUME NEW c \in Clients, Check(c)
      PROVE  \A x \in Clients : P(req'[x])
  <2>1. req[c].at = "loaded" /\ req[c].op \in Actions
    BY <1>6 DEF Check
  <2>2. P([req[c] EXCEPT !.at = "checked"])
    BY <1>1, <2>1 DEF Requests
  <2>3. req' \in {[req EXCEPT ![c] = [req[c] EXCEPT !.at = "checked"]],
                 [req EXCEPT ![c] = Idle]}
    BY <1>6 DEF Check
  <2> HIDE DEF P
  <2>4. QED
    BY <1>1, <1>2, <2>2, <2>3 DEF TypeOK
<1>7. ASSUME NEW c \in Clients, SavePatch(c)
      PROVE  \A x \in Clients : P(req'[x])
  <2>1. P([req[c] EXCEPT !.at = "applied"])
    BY <1>1 DEF Requests
  <2>2. req' \in {[req EXCEPT ![c] = [req[c] EXCEPT !.at = "applied"]],
                 [req EXCEPT ![c] = Idle]}
    BY <1>7 DEF SavePatch
  <2> HIDE DEF P
  <2>3. QED
    BY <1>1, <1>2, <2>1, <2>2 DEF TypeOK
<1>8. QED
  BY <1>4, <1>5, <1>6, <1>7, StepCarries

-----------------------------------------------------------------------------
(* Status events                                                            *)

(* A step adds to the chain of events, or leaves the task's status alone. *)
LEMMA StepChains ==
  ASSUME TypeOK, Chained, Placed, Next, NEW t \in Tasks
  PROVE  /\ event'[t] # event[t] => event'[t].from = event[t].to
         /\ row'[t].status = event'[t].to
<1> DEFINE Links == /\ event'[t] # event[t] => event'[t].from = event[t].to
                   /\ row'[t].status = event'[t].to
<1>1. event[t].to = row[t].status
  BY DEF Chained
<1>2. ASSUME event' = event, row' = row PROVE Links
  BY <1>1, <1>2
<1>4. \A c \in Clients : row[Project] \in Rows /\ req[c] \in Requests
  BY DEF TypeOK, Tasks
<1>5. ASSUME NEW c \in Clients, Act(c) PROVE Links
  <2>1. /\ req[c].task \in Tasks
        /\ row[req[c].task] \in Rows
        /\ row[req[c].task].status = req[c].seen.status
    BY <1>4, <1>5 DEF Act, CasHolds, Requests, TypeOK
  <2>2. CASE t = req[c].task
    <3>1. /\ event'[t] = StatusEvent(c, req[c].op)
          /\ row'[t].status = TargetsOf(req[c].op).to
      BY <1>5, <2>1, <2>2 DEF Act, TypeOK, Rows
    <3>2. QED
      BY <1>1, <2>1, <2>2, <3>1 DEF StatusEvent
  <2>3. CASE t # req[c].task
    BY <1>1, <1>5, <2>3 DEF Act, TypeOK
  <2>4. QED
    BY <2>2, <2>3
<1>6. ASSUME NEW c \in Clients, Batch(c) PROVE Links
  <2>1. req[c].task = Project
    BY <1>6 DEF Batch, Placed, Actions
  <2>2. CASE t = Project /\ req[c].pick # NoAction
    <3>1. row[Project].status = req[c].seen.status
      BY <1>6, <2>1, <2>2 DEF Batch, BatchMayAct, CasHolds
    <3>2. /\ event'[t] = StatusEvent(c, req[c].pick)
          /\ row'[t].status = TargetsOf(req[c].pick).to
      BY <1>4, <1>6, <2>2 DEF Batch, TypeOK, Rows
    <3>3. QED
      BY <1>1, <2>2, <3>1, <3>2 DEF StatusEvent
  <2>3. CASE t = Project /\ req[c].pick = NoAction
    <3>1. event' = event /\ row'[t].status = row[t].status
      BY <1>4, <1>6, <2>3 DEF Batch, TypeOK, Rows
    <3>2. QED
      BY <1>1, <3>1
  <2>4. CASE t # Project
    BY <1>1, <1>6, <2>4 DEF Batch, TypeOK
  <2>5. QED
    BY <2>2, <2>3, <2>4
<1>7. ASSUME NEW c \in Clients, AddSubtask(c) PROVE Links
  <2>1. PICK s \in Subtasks :
          /\ row[s].status = Absent
          /\ row' = [row EXCEPT ![Project] = Bumped(c), ![s] = NewRow("in_progress")]
          /\ event' = [event EXCEPT ![s] = [from |-> Absent, to |-> "in_progress"]]
    BY <1>7 DEF AddSubtask
  <2>2. s # Project /\ s \in Tasks
    BY ProjectAssumption DEF Tasks
  <2>3. Bumped(c).status = row[Project].status
    BY <1>4 DEF Bumped, Rows
  <2>4. NewRow("in_progress").status = "in_progress"
    BY DEF NewRow, NoRow
  <2>5. CASE t = s
    BY <1>1, <2>1, <2>2, <2>4, <2>5 DEF TypeOK
  <2>6. CASE t = Project
    BY <1>1, <2>1, <2>2, <2>3, <2>6 DEF TypeOK
  <2>7. CASE t # s /\ t # Project
    BY <1>1, <2>1, <2>7 DEF TypeOK
  <2>8. QED
    BY <2>5, <2>6, <2>7
<1>8. ASSUME NEW c \in Clients, SavePatch(c) PROVE Links
  <2>1. PICK new :
          /\ new = [row[Project] EXCEPT
                !.version = req[c].expected + 1, !.content = req[c].text,
                !.reviewer = CASE req[c].op = "assign"  -> TRUE
                               [] req[c].op = "dismiss" -> FALSE
                               [] OTHER            -> @]
          /\ row' = [row EXCEPT ![Project] = new]
    BY <1>8 DEF SavePatch
  <2>2. new.status = row[Project].status
    BY <1>4, <2>1 DEF Rows
  <2>3. event' = event
    BY <1>8 DEF SavePatch
  <2>4. QED
    BY <1>1, <2>1, <2>2, <2>3 DEF TypeOK
<1>9. \A c \in Clients : Bumped(c).status = row[Project].status
  BY <1>4 DEF Bumped, Rows
<1>10. Renewed.status = row[Project].status
  BY <1>4 DEF Renewed, Rows
<1>11. ASSUME NEW c \in Clients, Touch(c) \/ PatchMaterial(c) PROVE Links
  <2>1. event' = event /\ row' = [row EXCEPT ![Project] = Bumped(c)]
    BY <1>11 DEF Touch, PatchMaterial
  <2>2. QED
    BY <1>1, <1>9, <2>1 DEF TypeOK
<1>12. ASSUME NEW c \in Clients,
              \/ AddMaterial(c) \/ UploadFinal(c) \/ RemoveFinal(c) \/ RestoreFinal(c)
       PROVE Links
  <2>1. event' = event /\ row' = [row EXCEPT ![Project] = Renewed]
    BY <1>12 DEF AddMaterial, UploadFinal, RemoveFinal, RestoreFinal
  <2>2. QED
    BY <1>1, <1>10, <2>1 DEF TypeOK
<1>13. ASSUME NEW c \in Clients, DeleteTask(c) PROVE Links
  <2>1. event' = event /\ row' = [row EXCEPT ![Project] = [Renewed EXCEPT !.deleted = TRUE]]
    BY <1>13 DEF DeleteTask
  <2>2. [Renewed EXCEPT !.deleted = TRUE].status = row[Project].status
    BY <1>4 DEF Renewed, Rows
  <2>3. QED
    BY <1>1, <2>1, <2>2 DEF TypeOK
<1>14. ASSUME NEW c \in Clients,
              \/ View(c)
              \/ \E op \in Ops, x \in Tasks : Load(c, op, x)
              \/ \E op \in Patches : RefuseStalePage(c, op)
              \/ Check(c) \/ KeepAsDraft(c) \/ DropDraft(c) \/ RefuseAct(c)
              \/ RefuseBatch(c) \/ RefuseRefreshed(c)
       PROVE Links
  BY <1>2, <1>14 DEF View, Load, RefuseStalePage, Check, KeepAsDraft, DropDraft,
                     RefuseAct, RefuseBatch, RefuseRefreshed, Refused
<1>15. QED
  BY <1>5, <1>6, <1>7, <1>8, <1>11, <1>12, <1>13, <1>14 DEF Next, Handle

-----------------------------------------------------------------------------
(* What was seen is so until the version moves on                           *)

Advances == row'[Project].version > row[Project].version

\* Nothing that requests check about the project gets worse unnoticed.
Keeps == /\ row'[Project] = row[Project]
         /\ material' = material
         /\ \/ Unfinished(Project)' \subseteq Unfinished(Project)
            \/ \A x \in Clients : req'[x].at = "checked" => ~req'[x].sure

(* Every step moves the project's version on or keeps what was checked, unless *)
(* it writes an old version, and what a page shows anew is the row. *)
LEMMA StepAdvances ==
  ASSUME TypeOK, TypeOK', Placed, Next, ~regressed'
  PROVE  /\ ~regressed
         /\ Advances \/ Keeps
         /\ \A x \in Clients :
              \/ page'[x] = page[x]
              \/ /\ page'[x].version = row'[Project].version
                 /\ page'[x].content = row'[Project].content
<1> DEFINE Current == \A x \in Clients :
              \/ page'[x] = page[x]
              \/ /\ page'[x].version = row'[Project].version
                 /\ page'[x].content = row'[Project].content
           Goal == ~regressed /\ (Advances \/ Keeps) /\ Current
<1>1. \A c \in Clients : row[Project] \in Rows /\ req[c] \in Requests /\ req[c].seen \in Loads
  BY DEF TypeOK, Tasks, Requests
<1>2. Project \in Tasks /\ \A s \in Subtasks : s \in Tasks /\ s # Project
  BY ProjectAssumption DEF Tasks
<1>3. ASSUME row' = row PROVE Unfinished(Project)' = Unfinished(Project)
  BY <1>3 DEF Unfinished
<1>4. ASSUME NEW c \in Clients, NEW r, Shown(c, r), row'[Project] = r PROVE Current
  BY <1>4 DEF Shown, TypeOK
<1>5. ASSUME NEW c \in Clients, View(c) PROVE Goal
  BY <1>3, <1>5 DEF View, Keeps, TypeOK
<1>6. ASSUME NEW c \in Clients,
             \/ \E op \in Ops, x \in Tasks : Load(c, op, x)
             \/ \E op \in Patches : RefuseStalePage(c, op)
             \/ Check(c) \/ KeepAsDraft(c) \/ DropDraft(c) \/ RefuseAct(c)
             \/ RefuseBatch(c) \/ RefuseRefreshed(c)
      PROVE  Goal
  <2>1. row' = row /\ material' = material /\ page' = page /\ regressed' = regressed
    BY <1>6 DEF Load, RefuseStalePage, Check, KeepAsDraft, DropDraft, RefuseAct,
                RefuseBatch, RefuseRefreshed, Refused
  <2>2. QED
    BY <1>3, <2>1 DEF Keeps
<1>7. ASSUME NEW c \in Clients, SavePatch(c) PROVE Goal
  <2> DEFINE new == [row[Project] EXCEPT
                !.version = req[c].expected + 1, !.content = req[c].text,
                !.reviewer = CASE req[c].op = "assign"  -> TRUE
                               [] req[c].op = "dismiss" -> FALSE
                               [] OTHER            -> @]
  <2>1. row' = [row EXCEPT ![Project] = new] /\ Shown(c, new) /\ regressed' = regressed
    BY <1>7 DEF SavePatch
  <2>2. row'[Project] = new
    BY <1>2, <2>1 DEF TypeOK
  <2>3. req[c].task = Project
    BY <1>7 DEF SavePatch, Placed, Patches, Actions
  <2>4. new.version = row[Project].version + 1
    BY <1>1, <1>7, <2>3 DEF SavePatch, VersionHolds, Rows
  <2>5. Advances
    BY <1>1, <2>2, <2>4 DEF Advances, Rows, Versions
  <2>6. QED
    BY <1>4, <2>1, <2>2, <2>5
<1>8. ASSUME NEW c \in Clients, Act(c) PROVE Goal
  <2> DEFINE new == [row[req[c].task] EXCEPT !.status = TargetsOf(req[c].op).to,
                                            !.version = req[c].seen.version + 1]
  <2>1. /\ row' = [row EXCEPT ![req[c].task] = new]
        /\ material' = material /\ regressed' = regressed
        /\ req' = Doubted(req[c].task, req[c].op, [req EXCEPT ![c] = Idle])
        /\ IF req[c].task = Project THEN Shown(c, new) ELSE UNCHANGED page
    BY <1>8 DEF Act
  <2>2. req[c].task \in Tasks /\ row[req[c].task] \in Rows
    BY <1>1 DEF TypeOK, Requests
  <2>3. CASE req[c].task = Project
    <3>1. row'[Project] = new /\ new.version = row[Project].version + 1
      BY <1>1, <1>2, <1>8, <2>1, <2>3 DEF Act, CasHolds, Rows, TypeOK
    <3>2. Advances
      BY <1>1, <3>1 DEF Advances, Rows, Versions
    <3>3. QED
      BY <1>4, <2>1, <2>3, <3>1, <3>2
  <2>4. CASE req[c].task # Project
    <3>1. row'[Project] = row[Project] /\ page' = page
      BY <2>1, <2>4 DEF TypeOK
    <3>2. CASE req[c].op = "reopen"
      <4>1. \A x \in Clients : req'[x].at = "checked" => ~req'[x].sure
        <5>1. [req EXCEPT ![c] = Idle] \in [Clients -> Requests]
          BY Idling DEF TypeOK
        <5>2. \A q \in Requests : ~[q EXCEPT !.sure = FALSE].sure
          BY DEF Requests
        <5>3. QED
          BY <2>1, <2>4, <3>2, <5>1, <5>2 DEF Doubted
      <4>2. QED
        BY <2>1, <3>1, <4>1 DEF Keeps
    <3>3. CASE req[c].op = "complete"
      <4>1. new.status = "completed" /\ row'[req[c].task] = new
        BY <2>1, <2>2, <3>3 DEF TargetsOf, Rows, TypeOK
      <4>2. Unfinished(Project)' \subseteq Unfinished(Project)
        BY <2>1, <4>1 DEF Unfinished, Closed, TypeOK
      <4>3. QED
        BY <2>1, <3>1, <4>2 DEF Keeps
    <3>4. QED
      BY <2>4, <3>2, <3>3 DEF Placed, SubtaskOps
  <2>5. QED
    BY <2>3, <2>4
<1>9. ASSUME NEW c \in Clients, Batch(c) PROVE Goal
  <2> DEFINE moves == req[c].pick # NoAction
             version == req[c].seen.version + (IF moves THEN 1 ELSE 0)
                                            + (IF req[c].fields THEN 1 ELSE 0)
  <2>1. row'[Project].version = version
    BY <1>1, <1>2, <1>9 DEF Batch, TypeOK, Rows
  <2>2. moves \/ req[c].fields
    BY <1>9 DEF Batch, Placed
  <2>3. ~regressed /\ req[c].seen.version = row[Project].version /\ page' = page
    BY <1>9 DEF Batch
  <2>4. Advances
    BY <1>1, <2>1, <2>2, <2>3 DEF Advances, Rows, Versions
  <2>5. QED
    BY <2>3, <2>4
<1>10. ASSUME NEW c \in Clients, Bump(c), row'[Project] = Bumped(c)
       PROVE  ~regressed /\ Advances
  <2>1. ~regressed /\ req[c].seen.version = row[Project].version
    BY <1>10 DEF Bump
  <2>2. Bumped(c).version = row[Project].version + 1
    BY <1>1, <2>1 DEF Bumped, Rows
  <2>3. QED
    BY <1>1, <1>10, <2>1, <2>2 DEF Advances, Rows, Versions
<1>11. ASSUME NEW c \in Clients, Touch(c) \/ PatchMaterial(c) PROVE Goal
  <2>1. /\ row'[Project] = Bumped(c) /\ Bump(c)
        /\ Shown(c, Bumped(c)) \/ page' = page
    BY <1>2, <1>11 DEF Touch, PatchMaterial, TypeOK
  <2>2. QED
    BY <1>4, <1>10, <2>1
<1>12. ASSUME NEW c \in Clients, AddSubtask(c) PROVE Goal
  <2>1. row'[Project] = Bumped(c) /\ Bump(c) /\ page' = page
    BY <1>2, <1>12 DEF AddSubtask, TypeOK
  <2>2. QED
    BY <1>10, <2>1
<1>13. ASSUME row'[Project] = Renewed \/ row'[Project] = [Renewed EXCEPT !.deleted = TRUE]
       PROVE  Advances
  <2>1. row[Project] \in Rows
    BY DEF TypeOK, Tasks
  <2>2. /\ Renewed.version = row[Project].version + 1
        /\ [Renewed EXCEPT !.deleted = TRUE].version = row[Project].version + 1
    BY <2>1 DEF Renewed, Rows
  <2>3. row'[Project].version = row[Project].version + 1
    BY <1>13, <2>2
  <2>4. QED
    BY <2>1, <2>3 DEF Advances, Rows, Versions
<1>14. ASSUME NEW c \in Clients,
              \/ AddMaterial(c) \/ UploadFinal(c) \/ RemoveFinal(c) \/ RestoreFinal(c)
              \/ DeleteTask(c)
       PROVE  Goal
  <2>1. /\ row'[Project] \in {Renewed, [Renewed EXCEPT !.deleted = TRUE]}
        /\ (Shown(c, Renewed) /\ row'[Project] = Renewed) \/ page' = page
        /\ regressed' = regressed
    BY <1>2, <1>14 DEF AddMaterial, UploadFinal, RemoveFinal, RestoreFinal,
                       DeleteTask, TypeOK
  <2>2. QED
    BY <1>4, <1>13, <2>1
<1>15. QED
  BY <1>5, <1>6, <1>7, <1>8, <1>9, <1>11, <1>12, <1>14 DEF Next, Handle

(* What a request saw stays so, or the version has moved on. *)
LEMMA SeenCarries ==
  ASSUME TypeOK, TypeOK', Advances \/ Keeps,
         NEW x \in Clients, SeenHolds(req[x]),
         /\ req[x].at # "idle"
         /\ req'[x].op = req[x].op /\ req'[x].task = req[x].task
         /\ req'[x].seen = req[x].seen /\ req'[x].saw = req[x].saw
         /\ req'[x].at = "checked" =>
              req[x].at = "checked" /\ (req'[x].sure => req[x].sure)
  PROVE  SeenHolds(req[x])' 
<1>1. /\ row[Project].version \in Nat /\ row'[Project].version \in Nat
      /\ req[x].seen.version \in Nat
  BY DEF TypeOK, Rows, Requests, Loads, Versions, Tasks
<1>2. SUFFICES ASSUME req[x].task = Project
               PROVE  /\ req[x].seen.version <= row'[Project].version
                      /\ req[x].seen.version = row'[Project].version =>
                           StillTrue(req[x])'
  BY DEF SeenHolds
<1>3. /\ req[x].seen.version <= row[Project].version
      /\ req[x].seen.version = row[Project].version => StillTrue(req[x])
  BY <1>2 DEF SeenHolds
<1>4. CASE Advances
  BY <1>1, <1>3, <1>4 DEF Advances
<1>5. CASE Keeps
  <2>1. row'[Project] = row[Project] /\ Missing(Project)' = Missing(Project)
    BY <1>5 DEF Keeps, Missing
  <2>2. req'[x].at = "checked" /\ req'[x].sure =>
          Unfinished(Project)' \subseteq Unfinished(Project)
    BY <1>5 DEF Keeps
  <2>3. StillTrue(req[x]) => StillTrue(req[x])'
    BY <2>1, <2>2 DEF StillTrue
  <2>4. QED
    BY <1>3, <2>1, <2>3
<1>6. QED
  BY <1>4, <1>5

(* The facts about what was seen are inductive. *)
LEMMA SeenStays ==
  ASSUME TypeOK, TypeOK', Placed, Seen, Next
  PROVE  Seen'
<1> SUFFICES ASSUME ~regressed'
             PROVE  \A x \in Clients : PageHolds(page[x])' /\ SeenHolds(req[x])'
  BY DEF Seen
<1>1. /\ ~regressed
      /\ Advances \/ Keeps
      /\ \A x \in Clients :
           \/ page'[x] = page[x]
           \/ /\ page'[x].version = row'[Project].version
              /\ page'[x].content = row'[Project].content
  BY StepAdvances
<1>2. \A x \in Clients : PageHolds(page[x]) /\ SeenHolds(req[x])
  BY <1>1 DEF Seen
<1>3. \A x \in Clients : /\ page[x].version \in Nat /\ req[x] \in Requests
                        /\ req[x].seen \in Loads
  BY DEF TypeOK, Pages, Versions, Requests
<1>4. row[Project] \in Rows /\ row[Project].version \in Nat /\ row'[Project].version \in Nat
  BY DEF TypeOK, Rows, Versions, Tasks
<1>5. ASSUME NEW x \in Clients PROVE PageHolds(page[x])'
  BY <1>1, <1>2, <1>3, <1>4 DEF PageHolds, Advances, Keeps
<1>6. ASSUME NEW x \in Clients, req'[x] = Idle PROVE SeenHolds(req[x])'
  BY <1>6 DEF SeenHolds, Idle
<1>7. ASSUME NEW x \in Clients, Carried(x) PROVE SeenHolds(req[x])'
  <2>1. CASE req'[x] = Idle \/ req'[x].at = "idle"
    BY <1>6, <2>1 DEF SeenHolds
  <2>2. CASE req'[x].at # "idle" /\ req'[x] \in {req[x], [req[x] EXCEPT !.sure = FALSE]}
    <3>1. /\ req[x].at # "idle"
          /\ req'[x].op = req[x].op /\ req'[x].task = req[x].task
          /\ req'[x].seen = req[x].seen /\ req'[x].saw = req[x].saw
          /\ req'[x].at = "checked" =>
               req[x].at = "checked" /\ (req'[x].sure => req[x].sure)
      BY <1>3, <2>2 DEF Requests
    <3>2. QED
      BY <1>1, <1>2, <3>1, SeenCarries
  <2>3. QED
    BY <1>7, <2>1, <2>2 DEF Carried
<1>8. ASSUME NEW c \in Clients, NEW op \in Ops, NEW t \in Tasks, Load(c, op, t),
             NEW x \in Clients
      PROVE  SeenHolds(req[x])'
  <2>1. PICK exp \in Expectations(c, op, t), text \in Contents,
             pick \in Actions \cup {NoAction}, fields \in BOOLEAN :
          Loading(c, op, t, exp, text, pick, fields)
    BY <1>8, LoadIs
  <2>l. /\ exp # NoMatch => exp = row[t].version
        /\ MayLoad(op, pick)
        /\ req' = [req EXCEPT ![c] = Loaded(c, op, t, exp, text, pick, fields)]
    BY <2>1 DEF Loading
  <2>2. CASE x # c
    BY <1>7, <2>l, <2>2 DEF Carried, TypeOK
  <2>3. CASE x = c
    <3>1. row' = row /\ req'[x] = Loaded(c, op, t, exp, text, pick, fields)
      BY <1>8, <2>l, <2>3 DEF Load, TypeOK
    <3>2. SUFFICES ASSUME t = Project
                   PROVE  /\ req'[x].seen.version <= row'[Project].version
                          /\ StillTrue(req[x])'
      BY <3>1 DEF SeenHolds, Loaded
    <3>3. req'[x].seen.version = row[Project].version
      BY <3>1, <3>2 DEF Loaded
    <3>4. op \in Patches => page[c].content = row[Project].content
      <4>1. op \in Patches => Expectations(c, op, t) = {page[c].version}
        BY <3>2 DEF Expectations, Asking, Looking, Patches, Actions
      <4>2. op \in Patches => page[c].version = row[Project].version
        BY <1>3, <2>1, <2>l, <3>2, <4>1, NoMatchAssumption DEF Versions
      <4>3. QED
        BY <1>2, <4>2 DEF PageHolds
    <3>5. op \in {"remove", "restore"} => row[Project].status \notin Closed
      BY <2>l DEF MayLoad, Materials
    <3>6. StillTrue(req[x])'
      BY <3>1, <3>2, <3>4, <3>5 DEF StillTrue, Loaded
    <3>7. QED
      BY <1>4, <3>1, <3>3, <3>6
  <2>4. QED
    BY <2>2, <2>3
<1>9. ASSUME NEW c \in Clients, Check(c), NEW x \in Clients
      PROVE  SeenHolds(req[x])'
  <2>1. /\ req' = [req EXCEPT ![c] = IF MayAct(req[c].op, req[c].task, req[c].seen)
                                    THEN [req[c] EXCEPT !.at = "checked"] ELSE Idle]
        /\ row' = row /\ material' = material /\ req[c].at = "loaded"
    BY <1>9 DEF Check
  <2>2. CASE x # c
    BY <1>7, <2>1, <2>2 DEF Carried, TypeOK
  <2>3. CASE x = c /\ MayAct(req[c].op, req[c].task, req[c].seen)
    <3>1. req'[x] = [req[c] EXCEPT !.at = "checked"]
      BY <2>1, <2>3 DEF TypeOK
    <3>2. /\ req'[x].op = req[c].op /\ req'[x].task = req[c].task
          /\ req'[x].seen = req[c].seen /\ req'[x].saw = req[c].saw
      BY <1>3, <3>1 DEF Requests
    <3>3. Unfinished(Project)' = Unfinished(Project) /\ Missing(Project)' = Missing(Project)
      BY <2>1 DEF Unfinished, Missing
    <3>4. req[c].task = Project =>
            /\ req[c].op \in Closing => Unfinished(Project) = {}
            /\ req[c].op = "archive" => ~Missing(Project)
            /\ req[c].op = "complete" => ~req[c].seen.reviewer
      BY <2>3 DEF MayAct
    <3>5. SeenHolds(req[c])
      BY <1>2
    <3>6. QED
      BY <2>1, <2>3, <3>2, <3>3, <3>4, <3>5 DEF SeenHolds, StillTrue
  <2>4. CASE x = c /\ ~MayAct(req[c].op, req[c].task, req[c].seen)
    BY <1>6, <2>1, <2>4 DEF TypeOK
  <2>5. QED
    BY <2>2, <2>3, <2>4
<1>10. ASSUME NEW c \in Clients, SavePatch(c), NEW x \in Clients
       PROVE  SeenHolds(req[x])'
  <2>1. /\ req' \in {[req EXCEPT ![c] = [req[c] EXCEPT !.at = "applied"]],
                    [req EXCEPT ![c] = Idle]}
        /\ req[c].at = "loaded"
    BY <1>10 DEF SavePatch
  <2>2. CASE x # c \/ req'[x] = Idle
    BY <1>6, <1>7, <2>1, <2>2 DEF Carried, TypeOK
  <2>3. CASE x = c /\ req'[x] # Idle
    <3>1. req'[x] = [req[c] EXCEPT !.at = "applied"]
      BY <2>1, <2>3 DEF TypeOK
    <3>2. /\ req[x].at # "idle"
          /\ req'[x].op = req[x].op /\ req'[x].task = req[x].task
          /\ req'[x].seen = req[x].seen /\ req'[x].saw = req[x].saw
          /\ req'[x].at # "checked"
      BY <1>3, <2>1, <2>3, <3>1 DEF Requests
    <3>3. QED
      BY <1>1, <1>2, <3>2, SeenCarries
  <2>4. QED
    BY <2>2, <2>3
<1>11. QED
  BY <1>5, <1>7, <1>8, <1>9, <1>10, StepCarries

(* Only a handler that goes on writes the rows. *)
LEMMA Handlers ==
  ASSUME Next, row' # row
  PROVE  \E c \in Clients : Handle(c)
<1>1. PICK c \in Clients :
        \/ View(c)
        \/ \E op \in Ops, t \in Tasks : Load(c, op, t)
        \/ \E op \in Patches : RefuseStalePage(c, op)
        \/ Handle(c)
  BY DEF Next
<1>2. ~View(c)
  BY DEF View
<1>3. \A op \in Ops, t \in Tasks : ~Load(c, op, t)
  BY DEF Load
<1>4. \A op \in Patches : ~RefuseStalePage(c, op)
  BY DEF RefuseStalePage
<1>5. QED
  BY <1>1, <1>2, <1>3, <1>4

(* What changes the item. *)
LEMMA ItemWriters ==
  ASSUME Next, material' # material
  PROVE  \E c \in Clients : \/ PatchMaterial(c) \/ AddMaterial(c) \/ UploadFinal(c)
                            \/ RemoveFinal(c) \/ RestoreFinal(c)
<1>1. PICK c \in Clients :
        \/ View(c)
        \/ \E op \in Ops, t \in Tasks : Load(c, op, t)
        \/ \E op \in Patches : RefuseStalePage(c, op)
        \/ Handle(c)
  BY DEF Next
<1>2. ~View(c)
  BY DEF View
<1>3. \A op \in Ops, t \in Tasks : ~Load(c, op, t)
  BY DEF Load
<1>4. \A op \in Patches : ~RefuseStalePage(c, op)
  BY DEF RefuseStalePage
<1>5. ~Refused(c)
  BY DEF Refused
<1>6. ~Check(c) /\ ~SavePatch(c) /\ ~KeepAsDraft(c) /\ ~DropDraft(c)
  BY <1>5 DEF Check, SavePatch, KeepAsDraft, DropDraft
<1>7. ~Act(c) /\ ~RefuseAct(c)
  BY <1>5 DEF Act, RefuseAct
<1>8. ~Batch(c) /\ ~RefuseBatch(c)
  BY <1>5 DEF Batch, RefuseBatch
<1>9. ~Touch(c) /\ ~AddSubtask(c) /\ ~DeleteTask(c) /\ ~RefuseRefreshed(c)
  BY <1>5 DEF Touch, AddSubtask, DeleteTask, RefuseRefreshed
<1>10. QED
  BY ONLY c \in Clients, <1>1, <1>2, <1>3, <1>4, <1>6, <1>7, <1>8, <1>9 DEF Handle

(* Files and uploads belong to an item that is there. *)
LEMMA FiledStays ==
  ASSUME TypeOK, Filed, Next
  PROVE  Filed'
<1>1. material \in Items /\ \A c \in Clients : req[c] \in Requests
  BY DEF TypeOK
<1>2. /\ material'.binned \/ material'.final => material'.there
      /\ material.there => material'.there
  <2>1. CASE material' = material
    BY <2>1 DEF Filed
  <2>2. ASSUME NEW c \in Clients,
               \/ PatchMaterial(c) \/ AddMaterial(c) \/ UploadFinal(c)
               \/ RemoveFinal(c) \/ RestoreFinal(c)
        PROVE  /\ material'.binned \/ material'.final => material'.there
               /\ material.there => material'.there
    <3>1. CASE PatchMaterial(c)
      BY <1>1, <3>1 DEF PatchMaterial, Filed, Items
    <3>2. CASE AddMaterial(c)
      BY <3>2 DEF AddMaterial, NoItem
    <3>3. CASE UploadFinal(c)
      <4>1. material.there
        BY <3>3 DEF UploadFinal, Fresh, Filed
      <4>2. QED
        BY <1>1, <3>3, <4>1 DEF UploadFinal, Items
    <3>4. CASE RemoveFinal(c) \/ RestoreFinal(c)
      <4>1. material.there
        BY <3>4 DEF RemoveFinal, RestoreFinal, Filed
      <4>2. QED
        BY <1>1, <3>4, <4>1 DEF RemoveFinal, RestoreFinal, Items
    <3>5. QED
      BY <2>2, <3>1, <3>2, <3>3, <3>4
  <2>3. QED
    BY <2>1, <2>2, ItemWriters
<1>3. \A x \in Clients :
        req'[x].at = "loaded" /\ req'[x].op = "upload" => material'.there
  <2>1. ASSUME NEW x \in Clients, Carried(x),
               req'[x].at = "loaded", req'[x].op = "upload"
        PROVE  material'.there
    <3>1. req[x].at = "loaded" /\ req[x].op = "upload"
      BY <1>1, <2>1 DEF Carried, Idle, Requests
    <3>2. QED
      BY <1>2, <3>1 DEF Filed
  <2>2. ASSUME NEW c \in Clients, NEW op \in Ops, NEW t \in Tasks, Load(c, op, t),
               NEW x \in Clients, req'[x].at = "loaded", req'[x].op = "upload"
        PROVE  material'.there
    <3>1. PICK exp \in Expectations(c, op, t), text \in Contents,
               pick \in Actions \cup {NoAction}, fields \in BOOLEAN :
            Loading(c, op, t, exp, text, pick, fields)
      BY <2>2, LoadIs
    <3>l. /\ MayLoad(op, pick)
          /\ req' = [req EXCEPT ![c] = Loaded(c, op, t, exp, text, pick, fields)]
      BY <3>1 DEF Loading
    <3>2. CASE x # c
      <4>1. req'[x] = req[x]
        BY <3>l, <3>2 DEF TypeOK
      <4>2. QED
        BY <2>1, <2>2, <4>1 DEF Carried
    <3>3. CASE x = c
      <4>1. op = "upload"
        BY <2>2, <3>l, <3>3 DEF Loaded, TypeOK
      <4>2. material.there
        BY <3>l, <4>1 DEF MayLoad, Materials
      <4>3. QED
        BY <1>2, <4>2
    <3>4. QED
      BY <3>2, <3>3
  <2>3. ASSUME NEW c \in Clients, Check(c) \/ SavePatch(c),
               NEW x \in Clients, req'[x].at = "loaded", req'[x].op = "upload"
        PROVE  material'.there
    <3>1. req' \in {[req EXCEPT ![c] = [req[c] EXCEPT !.at = "checked"]],
                   [req EXCEPT ![c] = [req[c] EXCEPT !.at = "applied"]],
                   [req EXCEPT ![c] = Idle]}
      BY <2>3 DEF Check, SavePatch
    <3>2. x # c
      BY <1>1, <2>3, <3>1 DEF Idle, Requests, TypeOK
    <3>3. QED
      BY <2>1, <2>3, <3>1, <3>2 DEF Carried, TypeOK
  <2>4. QED
    BY <2>1, <2>2, <2>3, StepCarries
<1>4. QED
  BY <1>2, <1>3 DEF Filed

-----------------------------------------------------------------------------
(* The theorems                                                             *)

LEMMA InvInductive == Inv /\ [Next]_vars => Inv'
<1> SUFFICES ASSUME Inv, [Next]_vars PROVE Inv'
  OBVIOUS
<1>1. CASE UNCHANGED vars
  BY <1>1 DEF vars, Inv, TypeOK, Placed, Chained, Filed, Seen, PageHolds, SeenHolds,
     StillTrue, Unfinished, Missing
<1>2. CASE Next
  <2>1. TypeOK'
    <3>1. ASSUME NEW c \in Clients,
                 View(c) \/ \E op \in Patches : RefuseStalePage(c, op)
          PROVE  TypeOK'
      <4>1. CASE View(c)
        <5>1. row[Project] \in Rows
          BY DEF Inv, TypeOK, Tasks
        <5>2. QED
          BY <4>1, <5>1 DEF View, Inv, TypeOK, Rows, Pages
      <4>2. ASSUME NEW op \in Patches, RefuseStalePage(c, op) PROVE TypeOK'
        <5>1. sent' \in 0..MaxRequests
          BY <4>2, BoundsAssumption DEF RefuseStalePage, Inv, TypeOK
        <5>2. draft' \in [Clients -> SUBSET Contents]
          BY <4>2 DEF RefuseStalePage, Inv, TypeOK
        <5>3. QED
          BY <4>2, <5>1, <5>2 DEF RefuseStalePage, Inv, TypeOK
      <4>3. QED
        BY <3>1, <4>1, <4>2
    <3>2. QED
      BY <1>2, <3>1, LoadTyped, HandleTyped DEF Next, Inv
  <2>2. Placed' /\ Filed' /\ Seen'
    BY <1>2, <2>1, PlacedStays, FiledStays, SeenStays DEF Inv
  <2>3. Chained'
    BY <1>2, StepChains DEF Inv, Chained
  <2>4. QED
    BY <2>1, <2>2, <2>3 DEF Inv
<1>3. QED
  BY <1>1, <1>2

LEMMA Invariant == Spec => []Inv
<1>1. Init => Inv
  BY InitTyped, InitPlaced DEF Inv
<1>2. QED
  BY <1>1, InvInductive, PTL DEF Spec

(* Every variable keeps its type. *)
THEOREM TypeCorrect == Spec => []TypeOK
<1>1. Inv => TypeOK
  BY DEF Inv
<1>2. QED
  BY <1>1, Invariant, PTL

(* The status events of every task form a chain that ends in its row's status, *)
(* whatever handlers run at the same time (apply_task_action, task_service.py). *)
THEOREM EventsChain == Spec => StatusChain
<1> DEFINE A == \A t \in Tasks :
                  /\ event'[t] # event[t] => event'[t].from = event[t].to
                  /\ row'[t].status = event'[t].to
<1>1. Inv /\ [Next]_vars => [A]_vars
  BY StepChains DEF Inv
<1>2. QED
  BY <1>1, Invariant, PTL DEF Spec, StatusChain

(* An edit is saved only by SavePatch, from the request that asks for it. *)
LEMMA SavesArePatches ==
  ASSUME Inv, Next, NEW c \in Clients, Saves(c)
  PROVE  SavePatch(c)
<1>1. /\ req[c].at = "loaded" /\ req[c].op \in Patches
      /\ row' # row /\ req'[c] # req[c]
  BY DEF Saves
<1>2. ASSUME NEW d \in Clients, Handle(d) PROVE d = c
  <2>1. CASE Act(d)
    <3>1. d # c => req'[c] \in {req[c], req[c]}
      BY <1>1, <2>1 DEF Act, Doubted, Inv, TypeOK
    <3>2. QED
      BY <1>1, <3>1
  <2>2. CASE Check(d) \/ SavePatch(d)
    BY <1>1, <2>2 DEF Check, SavePatch, Inv, TypeOK
  <2>3. CASE ~Act(d) /\ ~Check(d) /\ ~SavePatch(d)
    <3>1. Answered(d)
      BY <1>2, <2>3 DEF Handle, KeepAsDraft, DropDraft, RefuseAct, Refused, Batch,
                  RefuseBatch, Touch, Bump, AddSubtask, PatchMaterial, AddMaterial,
                  UploadFinal, RemoveFinal, RestoreFinal, DeleteTask,
                  RefuseRefreshed
    <3>2. QED
      BY <1>1, <3>1 DEF Answered, Inv, TypeOK
  <2>4. QED
    BY <2>1, <2>2, <2>3
<1>3. Handle(c)
  BY <1>1, <1>2 DEF Next, View, Load, RefuseStalePage
<1>4. req[c].op \notin {"batch", "touch", "subtask", "waive", "require", "add",
                        "upload", "remove", "restore", "delete"}
  BY <1>1 DEF Patches
<1>5. QED
  BY <1>1, <1>3, <1>4 DEF Handle, Check, KeepAsDraft, DropDraft, Act, RefuseAct,
     Refused, Batch, RefuseBatch, Touch, AddSubtask, PatchMaterial, AddMaterial,
     UploadFinal, RemoveFinal, RestoreFinal, DeleteTask, RefuseRefreshed, Fresh

(* An edit that is saved replaces the text its author was looking at, unless a *)
(* handler has put an old version back (update_task, task_service.py). *)
THEOREM EditsReplaceTheSeen == Spec => EditsReplaceWhatWasSeen
<1> DEFINE A == \A c \in Clients :
                  Saves(c) => row[Project].content = req[c].saw \/ regressed
<1>1. ASSUME Inv, Next, NEW c \in Clients, Saves(c)
      PROVE  row[Project].content = req[c].saw \/ regressed
  <2>1. SavePatch(c)
    BY <1>1, SavesArePatches
  <2>2. /\ req[c].at = "loaded" /\ req[c].op \in Patches /\ req[c].task = Project
        /\ row[Project].version = req[c].expected
    BY <2>1, <1>1 DEF SavePatch, VersionHolds, Inv, Placed, Patches, Actions
  <2>3. req[c].expected = req[c].seen.version
    BY <1>1, <2>2 DEF Inv, Placed, Asking
  <2>4. QED
    BY <1>1, <2>2, <2>3 DEF Inv, Seen, SeenHolds, StillTrue
<1>2. Inv /\ [Next]_vars => [A]_vars
  BY <1>1
<1>3. QED
  BY <1>2, Invariant, PTL DEF Spec, EditsReplaceWhatWasSeen

(* A completed or archived project's final version neither goes to the bin nor *)
(* comes back from it (delete_attachment_version and restore_attachment_version, *)
(* storage.py, which look at the status only before the lock). *)
THEOREM ClosedFilesStay == Spec => FilesOfClosedStay
<1> DEFINE A == material'.binned # material.binned =>
                  row[Project].status \notin Closed \/ regressed
<1>1. ASSUME Inv, Next, material'.binned # material.binned
      PROVE  row[Project].status \notin Closed \/ regressed
  <2>1. material \in Items
    BY <1>1 DEF Inv, TypeOK
  <2>2. PICK c \in Clients :
          \/ PatchMaterial(c) \/ AddMaterial(c) \/ UploadFinal(c)
          \/ RemoveFinal(c) \/ RestoreFinal(c)
    BY <1>1, ItemWriters
  <2>3. ~PatchMaterial(c) /\ ~UploadFinal(c)
    BY <1>1, <2>1 DEF PatchMaterial, UploadFinal, Items
  <2>4. ~AddMaterial(c)
    BY <1>1, <2>1 DEF AddMaterial, NoItem, Inv, Filed, Items
  <2>5. \E op \in {"remove", "restore"} : Fresh(c, op)
    BY <2>2, <2>3, <2>4 DEF RemoveFinal, RestoreFinal
  <2>6. /\ req[c].at = "loaded" /\ req[c].op \in {"remove", "restore"}
        /\ req[c].task = Project
    BY <1>1, <2>5 DEF Fresh, Inv, Placed, Actions
  <2>7. req[c].expected = req[c].seen.version /\ req[c].seen.version \in Nat
    BY <1>1, <2>6 DEF Inv, Placed, Asking, TypeOK, Requests, Loads, Versions
  <2>8. row[Project].version = req[c].seen.version
    BY <2>5, <2>6, <2>7, NoMatchAssumption DEF Fresh, VersionHolds, Versions
  <2>9. QED
    BY <1>1, <2>6, <2>8 DEF Inv, Seen, SeenHolds, StillTrue
<1>2. Inv /\ [Next]_vars => [A]_vars
  BY <1>1
<1>3. QED
  BY <1>2, Invariant, PTL DEF Spec, FilesOfClosedStay

(* Only a status action or a batch with one changes the project's status. *)
LEMMA StatusChanges ==
  ASSUME Inv, Next, row'[Project].status # row[Project].status
  PROVE  \E c \in Clients :
           /\ \/ Act(c) /\ req[c].task = Project
              \/ Batch(c) /\ req[c].pick # NoAction
           /\ \A x \in Clients : req'[x] # req[x] => x = c
<1>1. \A c \in Clients : row[Project] \in Rows /\ req[c] \in Requests
  BY DEF Inv, TypeOK, Tasks
<1>2. Project \in Tasks /\ \A s \in Subtasks : s # Project
  BY ProjectAssumption DEF Tasks
<1>3. PICK c \in Clients : Handle(c)
  BY Handlers
<1>4. ~SavePatch(c)
  <2>1. ASSUME NEW new, new = [row[Project] EXCEPT
                !.version = req[c].expected + 1, !.content = req[c].text,
                !.reviewer = CASE req[c].op = "assign"  -> TRUE
                               [] req[c].op = "dismiss" -> FALSE
                               [] OTHER            -> @],
               row' = [row EXCEPT ![Project] = new]
        PROVE  FALSE
    BY <1>1, <1>2, <2>1 DEF Inv, TypeOK, Rows
  <2>2. QED
    BY <2>1 DEF SavePatch
<1>5. /\ Bumped(c).status = row[Project].status
      /\ Renewed.status = row[Project].status
      /\ [Renewed EXCEPT !.deleted = TRUE].status = row[Project].status
  BY <1>1 DEF Bumped, Renewed, Rows
<1>6. /\ ~Touch(c) /\ ~PatchMaterial(c) /\ ~AddMaterial(c) /\ ~UploadFinal(c)
      /\ ~RemoveFinal(c) /\ ~RestoreFinal(c) /\ ~DeleteTask(c)
  BY <1>2, <1>5 DEF Touch, PatchMaterial, AddMaterial, UploadFinal, RemoveFinal,
     RestoreFinal, DeleteTask, Inv, TypeOK
<1>7. ~AddSubtask(c)
  BY <1>2, <1>5 DEF AddSubtask, Inv, TypeOK
<1>8. ~Check(c) /\ ~KeepAsDraft(c) /\ ~DropDraft(c) /\ ~RefuseAct(c)
      /\ ~RefuseBatch(c) /\ ~RefuseRefreshed(c)
  BY DEF Check, KeepAsDraft, DropDraft, RefuseAct, RefuseBatch, RefuseRefreshed, Refused
<1>9. CASE Act(c)
  <2>1. req[c].task = Project
    BY <1>9 DEF Act, Inv, TypeOK
  <2>2. \A x \in Clients : x # c => req'[x] = req[x]
    BY <1>9, <2>1 DEF Act, Doubted, Inv, TypeOK
  <2>3. QED
    BY <1>9, <2>1, <2>2
<1>10. CASE Batch(c)
  <2>1. req[c].pick # NoAction
    BY <1>1, <1>2, <1>10 DEF Batch, Inv, TypeOK, Rows
  <2>2. \A x \in Clients : x # c => req'[x] = req[x]
    BY <1>10 DEF Batch, Answered, Inv, TypeOK
  <2>3. QED
    BY <1>10, <2>1, <2>2
<1>11. QED
  BY <1>3, <1>4, <1>6, <1>7, <1>8, <1>9, <1>10 DEF Handle

(* A project closes on facts that hold at the commit, unless a version has come *)
(* back or a subtask was reopened meanwhile (apply_task_action reads subtasks,  *)
(* materials and the reviewer before it takes the lock). *)
THEOREM ClosesOnFacts == Spec => ClosedOnCurrentFacts
<1> DEFINE A == \A c \in Clients :
       LET was == row[Project].status
           is == row'[Project].status
           action == IF req[c].op = "batch" THEN req[c].pick ELSE req[c].op
       IN (is # was /\ is \in Closed /\ req'[c] # req[c] /\ ~regressed) =>
            /\ Unfinished(Project) = {} \/ ~req[c].sure
            /\ is = "archived" => ~Missing(Project)
            /\ action = "complete" => ~row[Project].reviewer
<1>1. ASSUME Inv, Next, NEW c \in Clients,
             row'[Project].status # row[Project].status,
             row'[Project].status \in Closed, req'[c] # req[c], ~regressed
      PROVE  LET action == IF req[c].op = "batch" THEN req[c].pick ELSE req[c].op
             IN  /\ Unfinished(Project) = {} \/ ~req[c].sure
                 /\ row'[Project].status = "archived" => ~Missing(Project)
                 /\ action = "complete" => ~row[Project].reviewer
  <2>1. \/ Act(c) /\ req[c].task = Project
        \/ Batch(c) /\ req[c].pick # NoAction
    BY <1>1, StatusChanges
  <2>2. row[Project] \in Rows /\ req[c] \in Requests /\ Project \in Tasks
    BY <1>1 DEF Inv, TypeOK, Tasks
  <2>3. CASE Act(c) /\ req[c].task = Project
    <3>1. /\ req[c].at = "checked" /\ req[c].op \in Actions
          /\ row[Project].version = req[c].seen.version
      BY <1>1, <2>3 DEF Act, CasHolds, Inv, Placed
    <3>2. StillTrue(req[c])
      BY <1>1, <2>3, <3>1 DEF Inv, Seen, SeenHolds
    <3>3. row'[Project].status = TargetsOf(req[c].op).to
      BY <1>1, <2>2, <2>3 DEF Act, Inv, TypeOK, Rows
    <3>4. req[c].op # "batch"
      BY <3>1 DEF Actions
    <3>5. req[c].op \in Closing /\ (row'[Project].status = "archived"
                                      => req[c].op = "archive")
      <4>1. TargetsOf(req[c].op).to \in Closed
        BY <1>1, <3>3
      <4>2. row'[Project].status = "archived" => TargetsOf(req[c].op).to = "archived"
        BY <3>3
      <4>3. QED
        BY <3>1, <4>1, <4>2 DEF Actions, TargetsOf, Closed, Closing
    <3>6. Unfinished(Project) = {} \/ ~req[c].sure
      BY <3>1, <2>3, <3>2, <3>5 DEF StillTrue
    <3>7. req[c].op = "archive" => ~Missing(Project)
      BY <3>1, <2>3, <3>2 DEF StillTrue
    <3>8. req[c].op = "complete" => ~row[Project].reviewer
      BY <3>1, <2>3, <3>2 DEF StillTrue
    <3>9. QED
      BY <3>4, <3>5, <3>6, <3>7, <3>8
  <2>4. CASE Batch(c) /\ req[c].pick # NoAction
    <3>1. /\ req[c].op = "batch" /\ req[c].task = Project
          /\ MayAct(req[c].pick, Project, req[c].seen)
          /\ row[Project].version = req[c].seen.version
      BY <1>1, <2>4 DEF Batch, BatchMayAct, CasHolds, Inv, Placed, Actions
    <3>2. row[Project].reviewer = req[c].seen.reviewer
      BY <1>1, <2>4, <3>1 DEF Batch, Inv, Seen, SeenHolds, StillTrue
    <3>3. row'[Project].status = TargetsOf(req[c].pick).to
      BY <1>1, <2>2, <2>4 DEF Batch, Inv, TypeOK, Rows
    <3>4. req[c].pick \in Actions
      BY <2>2, <2>4 DEF Requests
    <3>5. req[c].pick \in Closing /\ (row'[Project].status = "archived"
                                        => req[c].pick = "archive")
      <4>1. TargetsOf(req[c].pick).to \in Closed
        BY <1>1, <3>3
      <4>2. row'[Project].status = "archived" => TargetsOf(req[c].pick).to = "archived"
        BY <3>3
      <4>3. QED
        BY <3>4, <4>1, <4>2 DEF Actions, TargetsOf, Closed, Closing
    <3>6. /\ Unfinished(Project) = {}
          /\ req[c].pick = "archive" => ~Missing(Project)
          /\ req[c].pick = "complete" => ~row[Project].reviewer
      BY <3>1, <3>2, <3>5 DEF MayAct
    <3>7. QED
      BY <3>1, <3>5, <3>6
  <2>5. QED
    BY <2>1, <2>3, <2>4
<1>2. Inv /\ [Next]_vars => [A]_vars
  BY <1>1
<1>3. QED
  BY <1>2, Invariant, PTL DEF Spec, ClosedOnCurrentFacts

(* Who has the project's present version on the screen has its present text.  *)
VersionTellsText ==
  ~regressed => \A c \in Clients :
    page[c].version = row[Project].version => page[c].content = row[Project].content

(* A version stands for one text, on every screen and for as long as it is the *)
(* row's: no handler changes the text and leaves the version, whichever of     *)
(* them overlap, unless one has put an old version back (update_task,          *)
(* task_service.py, compares versions only).                                   *)
THEOREM VersionsTell == Spec => []VersionTellsText
<1>1. Inv => VersionTellsText
  BY DEF Inv, Seen, PageHolds, VersionTellsText
<1>2. QED
  BY <1>1, Invariant, PTL

-----------------------------------------------------------------------------
(* The tasks the scheduler makes                                            *)

(* The other way a task comes into being: the runners of due rules, modelled *)
(* in SchedulerCycle.  What makes an occurrence one task is that a runner    *)
(* looks for a task with its due date, which is that of its making as long   *)
(* as nobody moved or deleted it; what keeps the limit is that a runner's    *)
(* copy of the rule counts every task there is, but for those whose count    *)
(* was lost.                                                                 *)

CONSTANTS FirstDay, LastDay, WeekLength, Skips, ReminderDays, MaxTasks, MaxEvents,
          Nobody
VARIABLES day, rule, outbox, checkpoint, weeks, items, twice, notice, run, session,
          owed, passed, quiet, events

Cycle == INSTANCE SchedulerCycle WITH draft <- session

Runners == Cycle!Runners
OnRule(r) == Cycle!OnRule(r)

\* What the steps need to know of the values they change.
RuleShape == [next : Nat, count : Nat, active : BOOLEAN]
TaskShape == [occ : Nat, due : Int, done : Int, gone : BOOLEAN]
RunShape == [pc : {"idle", "rule", "make", "save", "project", "flush", "list", "remind"},
             mine : RuleShape, base : RuleShape, today : Nat]

Shaped ==
  /\ day \in Nat
  /\ rule \in RuleShape
  /\ tasks \in Seq(TaskShape)
  /\ run \in [Runners -> RunShape]
  /\ lost \in Nat
  /\ moved \subseteq DOMAIN tasks

\* A task nobody moved or deleted is due on the day of its occurrence.
Unmoved == DOMAIN tasks \ moved
InPlace == \A t \in Unmoved : tasks[t].due = tasks[t].occ /\ ~tasks[t].gone

Alone == \A r, o \in Runners : OnRule(r) /\ OnRule(o) => r = o

\* Before it makes a task, a runner knows that there is room for it and none yet.
Looked ==
  \A r \in Runners : run[r].pc = "make" =>
    /\ run[r].mine.count < Limit
    /\ \A t \in Unmoved : tasks[t].occ # run[r].mine.next

\* A runner's copy of the rule counts the tasks, one more than the row at most.
Counting ==
  \A r \in Runners : OnRule(r) =>
    /\ rule = run[r].base
    /\ run[r].mine.count \in {run[r].base.count, run[r].base.count + 1}
    /\ run[r].mine.count <= Limit
    /\ Len(tasks) = run[r].mine.count + lost

\* Between two runs the row does.
Counted ==
  (\A r \in Runners : ~OnRule(r)) => /\ rule.count <= Limit
                                     /\ Len(tasks) = rule.count + lost

Careful == Alone /\ Looked /\ Counting /\ Counted

CycleInv ==
  /\ Shaped /\ InPlace /\ overlapped \in BOOLEAN
  /\ ~overlapped => Careful /\ OccurrencesOnce

\* The instance counts as this module does.
LEMMA SameCardinality == \A S : Cycle!Cardinality(S) = Cardinality(S)
  BY DEF Cardinality, Cycle!Cardinality

LEMMA TwoRunners ==
  /\ Runners = {"scheduler", "by hand"} /\ Runners' = Runners
  /\ Cycle!Scheduler = "scheduler" /\ Cycle!ByHand = "by hand"
  /\ \A r \in Runners : OnRule(r) <=> run[r].pc \in {"rule", "make", "save"}
  BY DEF Runners, Cycle!Runners, Cycle!Scheduler, Cycle!ByHand, OnRule, Cycle!OnRule,
     Cycle!RulePcs

LEMMA CycleShapes ==
  /\ Cycle!NewRule \in RuleShape /\ Cycle!NewRule.count = 0
  /\ Cycle!Resting \in RunShape /\ Cycle!Resting.pc = "idle"
  /\ Cycle!OffRule("project") \in RunShape /\ Cycle!OffRule("project").pc = "project"
  BY DEF RuleShape, RunShape, Cycle!NewRule, Cycle!Resting, Cycle!OffRule

LEMMA CycleInit ==
  ASSUME FirstDay \in Nat, Limit \in Nat, Cycle!Init
  PROVE  CycleInv
<1>1. /\ day = FirstDay /\ rule = Cycle!NewRule /\ tasks = <<>> /\ moved = {} /\ lost = 0
      /\ overlapped = FALSE
      /\ run = [r \in Runners |-> Cycle!Resting]
  BY DEF Cycle!Init, Runners
<1>2. Shaped
  BY <1>1, CycleShapes DEF Shaped
<1>3. \A r \in Runners : ~OnRule(r) /\ run[r].pc = "idle"
  BY <1>1, CycleShapes, TwoRunners
<1>4. InPlace /\ OccurrencesOnce
  BY <1>1 DEF InPlace, Unmoved, OccurrencesOnce
<1>5. Careful
  BY <1>1, <1>3, CycleShapes DEF Careful, Alone, Looked, Counting, Counted
<1>6. overlapped \in BOOLEAN
  BY <1>1
<1>7. QED
  BY <1>2, <1>4, <1>5, <1>6 DEF CycleInv

\* A step that leaves the rule, its tasks and those at work on it alone.
Aside ==
  /\ UNCHANGED <<rule, tasks, moved, lost, overlapped>>
  /\ \A r \in Runners : \/ run'[r] = run[r]
                        \/ ~OnRule(r) /\ run'[r].pc \notin {"rule", "make", "save"}

LEMMA AsideStep ==
  ASSUME CycleInv, Shaped', Aside
  PROVE  CycleInv'
<1>1. \A r \in Runners : /\ OnRule(r)' <=> OnRule(r)
                         /\ OnRule(r) => run'[r] = run[r]
                         /\ run'[r].pc = "make" => run'[r] = run[r]
  BY TwoRunners DEF Aside, OnRule, Cycle!OnRule, Cycle!RulePcs
<1>2. UNCHANGED <<rule, tasks, moved, lost, overlapped>>
  BY DEF Aside
<1>3. InPlace'
  BY <1>2 DEF CycleInv, InPlace, Unmoved
<1>4. ASSUME ~overlapped PROVE (Careful /\ OccurrencesOnce)'
  <2>1. Careful /\ OccurrencesOnce
    BY <1>4 DEF CycleInv
  <2>2. Runners' = Runners
    BY DEF Runners, Cycle!Runners, Cycle!Scheduler, Cycle!ByHand
  <2>3. Alone' /\ Counting' /\ Counted'
    BY <1>1, <1>2, <2>1, <2>2 DEF Careful, Alone, Counting, Counted
  <2>4. Looked'
    BY <1>1, <1>2, <2>1, <2>2 DEF Careful, Looked, Unmoved
  <2>5. OccurrencesOnce'
    BY <1>2, <2>1 DEF OccurrencesOnce
  <2>6. QED
    BY <2>3, <2>4, <2>5 DEF Careful
<1>5. QED
  BY <1>2, <1>3, <1>4 DEF CycleInv

\* The next-state relation, by what is done to the rule and its tasks.
Rest == \/ Cycle!RunCycle \/ Cycle!ReconcileOwed \/ Cycle!BackoffPasses
        \/ Cycle!NextDay \/ Cycle!ProjectFails \/ Cycle!Rebuild
        \/ \E t \in Cycle!TaskIds : \E k \in Cycle!Keys : Cycle!ReadNotice(t, k)
Touches(t) == \/ \E d \in Cycle!DueDays : Cycle!Reschedule(t, d) \/ Cycle!BatchMove(t, d)
              \/ Cycle!Complete(t) \/ Cycle!Reopen(t) \/ Cycle!Delete(t)
Rounds(r) == \/ Cycle!RuleEnds(r) \/ Cycle!RuleSkips(r) \/ Cycle!RuleWaits(r)
             \/ Cycle!RuleFinds(r) \/ Cycle!RuleMisses(r)

LEMMA CycleSteps ==
  Cycle!Next <=> \/ Rest
                 \/ \E t \in Cycle!TaskIds : Touches(t)
                 \/ \E r \in Runners : \/ Cycle!Begin(r) \/ Rounds(r) \/ Cycle!Make(r)
                                       \/ Cycle!SaveRule(r)
                 \/ Cycle!CycleFails \/ Cycle!Crash
  BY DEF Cycle!Next, Rest, Touches, Rounds, Runners, Cycle!RunRule, Cycle!User,
     Cycle!Trouble

\* One runner's record changes.
LEMMA OneRuns ==
  ASSUME Shaped, NEW r \in Runners, NEW x, run' = [run EXCEPT ![r] = x]
  PROVE  /\ run'[r] = x
         /\ \A o \in Runners : o # r => run'[o] = run[o]
         /\ x \in RunShape => run' \in [Runners -> RunShape]
  BY DEF Shaped

\* The rest of the cycle leaves the rule and the tasks alone, and takes the
\* scheduler's record from step to step.
RulesRest ==
  /\ UNCHANGED <<rule, tasks, moved, lost, overlapped>>
  /\ day' \in {day, day + 1}

CycleGoesOn ==
  \/ run' = run
  \/ /\ run[Cycle!Scheduler].pc \in {"project", "flush", "list", "remind"}
     /\ \/ \E pc \in {"flush", "list", "remind"} :
             run' = [run EXCEPT ![Cycle!Scheduler].pc = pc]
        \/ run' = [run EXCEPT ![Cycle!Scheduler].pc = "remind",
                              ![Cycle!Scheduler].today = day]
        \/ run' = [run EXCEPT ![Cycle!Scheduler] = Cycle!Resting]

LEMMA RestRests ==
  ASSUME Rest
  PROVE  RulesRest /\ CycleGoesOn
<1>1. CASE Cycle!BackOff
  BY <1>1 DEF Cycle!BackOff, Cycle!Cycle, Cycle!database, Cycle!history, RulesRest,
     CycleGoesOn
<1>2. CASE Cycle!SkipProjection
  BY <1>2 DEF Cycle!SkipProjection, Cycle!Cycle, Cycle!database, Cycle!history,
     RulesRest, CycleGoesOn
<1>3. CASE Cycle!Project
  BY <1>3 DEF Cycle!Project, Cycle!Cycle, Cycle!database, Cycle!history, RulesRest,
     CycleGoesOn
<1>4. CASE Cycle!Flush
  BY <1>4 DEF Cycle!Flush, Cycle!Cycle, Cycle!database, Cycle!history, RulesRest,
     CycleGoesOn
<1>5. CASE Cycle!ListTasks
  BY <1>5 DEF Cycle!ListTasks, Cycle!database, Cycle!history, RulesRest, CycleGoesOn
<1>6. CASE Cycle!Remind
  BY <1>6 DEF Cycle!Remind, Cycle!database, Cycle!history, RulesRest, CycleGoesOn
<1>7. CASE Cycle!CommitCycle
  BY <1>7 DEF Cycle!CommitCycle, Cycle!history, RulesRest, CycleGoesOn
<1>8. CASE Cycle!ReconcileOwed
  BY <1>8 DEF Cycle!ReconcileOwed, Cycle!history, RulesRest, CycleGoesOn
<1>9. CASE Cycle!BackoffPasses
  BY <1>9 DEF Cycle!BackoffPasses, Cycle!history, RulesRest, CycleGoesOn
<1>10. CASE Cycle!NextDay
  BY <1>10 DEF Cycle!NextDay, Cycle!database, Cycle!history, RulesRest, CycleGoesOn
<1>11. CASE Cycle!ProjectFails
  BY <1>11 DEF Cycle!ProjectFails, Cycle!Cycle, Cycle!database, Cycle!history,
     RulesRest, CycleGoesOn
<1>12. CASE Cycle!Rebuild
  BY <1>12 DEF Cycle!Rebuild, Cycle!Act, RulesRest, CycleGoesOn
<1>13. CASE \E t \in Cycle!TaskIds : \E k \in Cycle!Keys : Cycle!ReadNotice(t, k)
  BY <1>13 DEF Cycle!ReadNotice, Cycle!Act, RulesRest, CycleGoesOn
<1>14. QED
  BY <1>1, <1>2, <1>3, <1>4, <1>5, <1>6, <1>7, <1>8, <1>9, <1>10, <1>11, <1>12, <1>13
     DEF Rest, Cycle!RunCycle

LEMMA RestIsAside ==
  ASSUME CycleInv, Rest
  PROVE  Aside /\ Shaped'
<1>1. Shaped
  BY ONLY CycleInv DEF CycleInv
<1>2. /\ UNCHANGED <<rule, tasks, moved, lost, overlapped>>
      /\ day' \in {day, day + 1}
  BY RestRests DEF RulesRest
<1>3. \/ run' = run
      \/ /\ run[Cycle!Scheduler].pc \in {"project", "flush", "list", "remind"}
         /\ \/ \E pc \in {"flush", "list", "remind"} :
                 run' = [run EXCEPT ![Cycle!Scheduler].pc = pc]
            \/ run' = [run EXCEPT ![Cycle!Scheduler].pc = "remind",
                                  ![Cycle!Scheduler].today = day]
            \/ run' = [run EXCEPT ![Cycle!Scheduler] = Cycle!Resting]
  BY RestRests DEF CycleGoesOn
<1>4. CASE run' = run
  <2>1. Aside
    BY <1>2, <1>4 DEF Aside
  <2>2. day' \in Nat
    BY <1>1, <1>2 DEF Shaped
  <2>3. QED
    BY <1>1, <1>2, <1>4, <2>1, <2>2, TwoRunners DEF Shaped
<1>5. CASE run' # run
  <2> DEFINE s == Cycle!Scheduler
  <2>1. s \in Runners /\ run[s] \in RunShape /\ ~OnRule(s)
    BY <1>1, <1>3, <1>5, TwoRunners DEF Shaped
  <2>2. \E x \in RunShape : /\ run' = [run EXCEPT ![s] = x]
                            /\ x.pc \in {"flush", "list", "remind", "idle"}
    <3>1. \A pc \in {"flush", "list", "remind"} :
            /\ [run[s] EXCEPT !.pc = pc] \in RunShape
            /\ [run[s] EXCEPT !.pc = pc].pc = pc
            /\ [run[s] EXCEPT !.pc = pc, !.today = day] \in RunShape
            /\ [run[s] EXCEPT !.pc = pc, !.today = day].pc = pc
      BY <1>1, <2>1 DEF RunShape, Shaped
    <3>2. \/ \E pc \in {"flush", "list", "remind"} :
               run' = [run EXCEPT ![s] = [run[s] EXCEPT !.pc = pc]]
          \/ run' = [run EXCEPT ![s] = [run[s] EXCEPT !.pc = "remind", !.today = day]]
          \/ run' = [run EXCEPT ![s] = Cycle!Resting]
      BY <1>1, <1>3, <1>5, <2>1 DEF Shaped
    <3>3. CASE \E pc \in {"flush", "list", "remind"} :
                 run' = [run EXCEPT ![s] = [run[s] EXCEPT !.pc = pc]]
      BY <3>1, <3>3, Zenon
    <3>4. CASE run' = [run EXCEPT ![s] = [run[s] EXCEPT !.pc = "remind", !.today = day]]
      BY <3>1, <3>4
    <3>5. CASE run' = [run EXCEPT ![s] = Cycle!Resting]
      BY <3>5, CycleShapes
    <3>6. QED
      BY ONLY <3>2, <3>3, <3>4, <3>5
  <2>3. PICK x \in RunShape : /\ run' = [run EXCEPT ![s] = x]
                              /\ x.pc \in {"flush", "list", "remind", "idle"}
    BY <2>2
  <2>4. /\ run' \in [Runners -> RunShape] /\ run'[s] = x
        /\ \A o \in Runners : o # s => run'[o] = run[o]
    BY <1>1, <2>1, <2>3, OneRuns
  <2>5. Aside
    BY <1>2, <2>1, <2>3, <2>4 DEF Aside
  <2>6. day' \in Nat
    BY <1>1, <1>2 DEF Shaped
  <2>7. QED
    BY <1>1, <1>2, <2>4, <2>5, <2>6, TwoRunners DEF Shaped
<1>6. QED
  BY <1>4, <1>5

\* What a user does to a task leaves it where it is, or marks it as moved.
LEMMA Touched ==
  ASSUME Shaped, NEW t \in Cycle!TaskIds, Touches(t)
  PROVE  /\ UNCHANGED <<rule, run, lost, overlapped>>
         /\ tasks' \in Seq(TaskShape) /\ Len(tasks') = Len(tasks)
         /\ DOMAIN tasks' = DOMAIN tasks
         /\ \A s \in DOMAIN tasks : tasks'[s].occ = tasks[s].occ
         /\ moved \subseteq moved' /\ moved' \subseteq DOMAIN tasks'
         /\ \A s \in DOMAIN tasks' \ moved' :
              tasks'[s].due = tasks[s].due /\ tasks'[s].gone = tasks[s].gone
<1>1. t \in DOMAIN tasks /\ UNCHANGED <<day, rule, run, lost, overlapped>>
  BY DEF Touches, Cycle!Reschedule, Cycle!BatchMove, Cycle!Complete, Cycle!Reopen,
     Cycle!Delete, Cycle!Act, Cycle!Present
<1>2. tasks \in Seq(TaskShape) /\ moved \subseteq DOMAIN tasks /\ day \in Int
  BY DEF Shaped
<1>3. \/ moved' = moved \cup {t} /\ \E d \in Int : tasks' = [tasks EXCEPT ![t].due = d]
      \/ moved' = moved \cup {t} /\ tasks' = [tasks EXCEPT ![t].gone = TRUE]
      \/ moved' = moved /\ \E d \in Int : tasks' = [tasks EXCEPT ![t].done = d]
  <2>1. Cycle!DueDays \subseteq Int /\ Cycle!NoDay \in Int
    BY DEF Cycle!DueDays, Cycle!NoDay
  <2>2. QED
    BY <1>2, <2>1 DEF Touches, Cycle!Reschedule, Cycle!BatchMove, Cycle!Complete,
       Cycle!Reopen, Cycle!Delete, Cycle!Act
<1>4. tasks[t] \in TaskShape
  BY <1>1, <1>2
<1>5. \E x \in TaskShape : /\ tasks' = [tasks EXCEPT ![t] = x] /\ x.occ = tasks[t].occ
                          /\ \/ moved' = moved \cup {t}
                             \/ /\ moved' = moved /\ x.due = tasks[t].due
                                /\ x.gone = tasks[t].gone
  <2>1. CASE \E d \in Int : /\ moved' = moved \cup {t}
                            /\ tasks' = [tasks EXCEPT ![t].due = d]
    <3>1. PICK d \in Int : tasks' = [tasks EXCEPT ![t] = [tasks[t] EXCEPT !.due = d]]
      BY <1>1, <1>2, <2>1
    <3>2. /\ [tasks[t] EXCEPT !.due = d] \in TaskShape
          /\ [tasks[t] EXCEPT !.due = d].occ = tasks[t].occ
      BY <1>4 DEF TaskShape
    <3>3. QED
      BY <2>1, <3>1, <3>2
  <2>2. CASE moved' = moved \cup {t} /\ tasks' = [tasks EXCEPT ![t].gone = TRUE]
    <3>1. tasks' = [tasks EXCEPT ![t] = [tasks[t] EXCEPT !.gone = TRUE]]
      BY <1>1, <1>2, <2>2
    <3>2. /\ [tasks[t] EXCEPT !.gone = TRUE] \in TaskShape
          /\ [tasks[t] EXCEPT !.gone = TRUE].occ = tasks[t].occ
      BY <1>4 DEF TaskShape
    <3>3. QED
      BY <2>2, <3>1, <3>2
  <2>3. CASE moved' = moved /\ \E d \in Int : tasks' = [tasks EXCEPT ![t].done = d]
    <3>1. PICK d \in Int : tasks' = [tasks EXCEPT ![t] = [tasks[t] EXCEPT !.done = d]]
      BY <1>1, <1>2, <2>3
    <3>2. /\ [tasks[t] EXCEPT !.done = d] \in TaskShape
          /\ [tasks[t] EXCEPT !.done = d].occ = tasks[t].occ
          /\ [tasks[t] EXCEPT !.done = d].due = tasks[t].due
          /\ [tasks[t] EXCEPT !.done = d].gone = tasks[t].gone
      BY <1>4 DEF TaskShape
    <3>3. QED
      BY <2>3, <3>1, <3>2
  <2>4. QED
    BY <1>3, <2>1, <2>2, <2>3
<1>6. QED
  BY <1>1, <1>2, <1>5

LEMMA TouchStep ==
  ASSUME CycleInv, NEW t \in Cycle!TaskIds, Touches(t)
  PROVE  CycleInv'
<1>1. Shaped
  BY DEF CycleInv
<1>2. /\ UNCHANGED <<rule, run, lost, overlapped>>
      /\ tasks' \in Seq(TaskShape) /\ Len(tasks') = Len(tasks)
      /\ DOMAIN tasks' = DOMAIN tasks
      /\ \A s \in DOMAIN tasks : tasks'[s].occ = tasks[s].occ
      /\ moved \subseteq moved' /\ moved' \subseteq DOMAIN tasks'
      /\ \A s \in DOMAIN tasks' \ moved' :
           tasks'[s].due = tasks[s].due /\ tasks'[s].gone = tasks[s].gone
  BY <1>1, Touched
<1>3. day' = day /\ Runners' = Runners
  BY DEF Touches, Cycle!Reschedule, Cycle!BatchMove, Cycle!Complete, Cycle!Reopen,
     Cycle!Delete, Cycle!Act, Runners, Cycle!Runners, Cycle!Scheduler, Cycle!ByHand
<1>4. Shaped'
  BY <1>1, <1>2, <1>3 DEF Shaped
<1>5. InPlace'
  BY <1>2 DEF CycleInv, InPlace, Unmoved
<1>6. ASSUME ~overlapped PROVE Careful' /\ OccurrencesOnce'
  <2>1. Careful /\ OccurrencesOnce
    BY <1>6 DEF CycleInv
  <2>2. \A r \in Runners : OnRule(r)' <=> OnRule(r)
    BY <1>2 DEF OnRule, Cycle!OnRule, Cycle!RulePcs
  <2>3. Alone' /\ Counting' /\ Counted'
    BY <1>2, <1>3, <2>1, <2>2 DEF Careful, Alone, Counting, Counted
  <2>4. Looked'
    BY <1>2, <1>3, <2>1 DEF Careful, Looked, Unmoved
  <2>5. OccurrencesOnce'
    BY <1>2, <1>6, <2>1 DEF OccurrencesOnce
  <2>6. QED
    BY <2>3, <2>4, <2>5 DEF Careful
<1>7. QED
  BY <1>2, <1>4, <1>5, <1>6 DEF CycleInv

\* When one runner is at the rule, no other is.
LEMMA OnlyOne ==
  ASSUME CycleInv, ~overlapped, NEW r \in Runners, OnRule(r)
  PROVE  /\ \A o \in Runners : o # r => ~OnRule(o) /\ run[o].pc # "make"
         /\ rule = run[r].base
         /\ run[r].mine.count \in {run[r].base.count, run[r].base.count + 1}
         /\ run[r].mine.count <= Limit
         /\ Len(tasks) = run[r].mine.count + lost
  BY TwoRunners DEF CycleInv, Careful, Alone, Counting

LEMMA BeginStep ==
  ASSUME CycleInv, Limit \in Nat, NEW r \in Runners, Cycle!Begin(r)
  PROVE  CycleInv'
<1>1. /\ Shaped /\ UNCHANGED <<day, rule, tasks, moved, lost>> /\ ~OnRule(r)
      /\ Runners' = Runners
  BY TwoRunners DEF CycleInv, Cycle!Begin, Cycle!database
<1>2. ASSUME NEW x \in RunShape, run' = [run EXCEPT ![r] = x]
      PROVE  Shaped' /\ run'[r] = x /\ \A o \in Runners : o # r => run'[o] = run[o]
  <2>1. QED
    BY <1>1, <1>2, OneRuns, TwoRunners DEF Shaped
<1>3. CASE ~rule.active
  <2>1. /\ run' = [run EXCEPT ![r] = Cycle!AfterRules(r)] /\ overlapped' = overlapped
        /\ Cycle!AfterRules(r) \in RunShape
        /\ Cycle!AfterRules(r).pc \in {"idle", "project"}
    BY <1>1, <1>3, CycleShapes DEF CycleInv, Cycle!Begin, Cycle!AfterRules, Shaped
  <2>2. QED
    BY <1>1, <1>2, <2>1, AsideStep DEF Aside
<1>4. CASE rule.active
  <2> DEFINE x == [pc |-> "rule", mine |-> rule, base |-> rule, today |-> day]
  <2>1. run' = [run EXCEPT ![r] = x] /\ x \in RunShape
    BY <1>1, <1>4 DEF Cycle!Begin, Shaped, RunShape
  <2>2. Shaped' /\ run'[r] = x /\ \A o \in Runners : o # r => run'[o] = run[o]
    BY <1>2, <2>1
  <2>3. InPlace'
    BY <1>1 DEF CycleInv, InPlace, Unmoved
  <2>4. ASSUME ~overlapped' PROVE Careful' /\ OccurrencesOnce'
    <3>1. ~overlapped /\ \A o \in Runners : ~OnRule(o)
      BY <1>1, <1>4, <2>4 DEF Cycle!Begin, OnRule, Runners
    <3>2. Careful /\ OccurrencesOnce
      BY <3>1 DEF CycleInv
    <3>3. \A o \in Runners : /\ OnRule(o)' <=> o = r
                             /\ run'[o].pc # "make"
      <4>1. x.pc = "rule" /\ run'[r].pc = "rule"
        BY <2>2
      <4>2. \A o \in Runners : OnRule(o)' <=> run'[o].pc \in {"rule", "make", "save"}
        BY DEF OnRule, Cycle!OnRule, Cycle!RulePcs
      <4>3. \A o \in Runners : o # r => run'[o].pc \notin {"rule", "make", "save"}
        BY <2>2, <3>1, TwoRunners
      <4>4. QED
        BY <4>1, <4>2, <4>3
    <3>4. rule.count <= Limit /\ Len(tasks) = rule.count + lost
      BY <3>1, <3>2 DEF Careful, Counted
    <3>5. Alone' /\ Looked' /\ Counting' /\ Counted'
      BY <1>1, <2>2, <3>3, <3>4 DEF Alone, Looked, Counting, Counted
    <3>6. OccurrencesOnce'
      BY <1>1, <3>1, <3>2 DEF OccurrencesOnce
    <3>7. QED
      BY <3>5, <3>6 DEF Careful
  <2>5. overlapped' \in BOOLEAN
    BY DEF Cycle!Begin
  <2>6. QED
    BY <2>2, <2>3, <2>4, <2>5 DEF CycleInv
<1>5. QED
  BY <1>3, <1>4

\* A round of the loop changes the runner's copy of the rule but not its count.
LEMMA RoundShape ==
  ASSUME CycleInv, NEW r \in Runners, Rounds(r)
  PROVE  /\ UNCHANGED <<day, rule, tasks, moved, lost, overlapped>>
         /\ OnRule(r)
         /\ \E x \in RunShape :
              /\ run' = [run EXCEPT ![r] = x]
              /\ x.pc \in {"rule", "make", "save"} /\ x.base = run[r].base
              /\ x.mine.count = run[r].mine.count
              /\ x.pc = "make" => Cycle!RuleMisses(r) /\ x.mine = run[r].mine
<1>1. run[r] \in RunShape /\ run[r].mine \in RuleShape /\ run \in [Runners -> RunShape]
  BY DEF CycleInv, Shaped, RunShape
<1>2. /\ UNCHANGED <<day, rule, tasks, moved, lost, overlapped>> /\ run[r].pc = "rule"
  BY DEF Rounds, Cycle!RuleEnds, Cycle!RuleSkips, Cycle!RuleWaits, Cycle!RuleFinds,
     Cycle!RuleMisses, Cycle!Round, Cycle!database
<1>3. \E m \in RuleShape, pc \in {"rule", "make", "save"} :
        /\ run' = [run EXCEPT ![r].mine = m, ![r].pc = pc]
        /\ m.count = run[r].mine.count
        /\ pc = "make" => Cycle!RuleMisses(r) /\ m = run[r].mine
  <2>1. /\ Cycle!Advanced(run[r].mine) \in RuleShape
        /\ Cycle!Advanced(run[r].mine).count = run[r].mine.count
        /\ [run[r].mine EXCEPT !.active = FALSE] \in RuleShape
        /\ [run[r].mine EXCEPT !.active = FALSE].count = run[r].mine.count
    <3>1. ASSUME NEW m \in RuleShape
          PROVE  Cycle!Advanced(m) \in RuleShape /\ Cycle!Advanced(m).count = m.count
      <4>1. m.next + 1 \in Nat
        BY DEF RuleShape
      <4>2. Cycle!Advanced(m) = [m EXCEPT !.next = m.next + 1]
        BY DEF Cycle!Advanced
      <4>3. QED
        BY <4>1, <4>2 DEF RuleShape
    <3>2. ASSUME NEW m \in RuleShape
          PROVE  /\ [m EXCEPT !.active = FALSE] \in RuleShape
                 /\ [m EXCEPT !.active = FALSE].count = m.count
      BY DEF RuleShape
    <3>3. QED
      BY <1>1, <3>1, <3>2
  <2>2. QED
    BY <1>1, <2>1 DEF Rounds, Cycle!RuleEnds, Cycle!RuleSkips, Cycle!RuleWaits,
       Cycle!RuleFinds, Cycle!RuleMisses, Cycle!Round
<1>4. PICK m \in RuleShape, pc \in {"rule", "make", "save"} :
        /\ run' = [run EXCEPT ![r].mine = m, ![r].pc = pc]
        /\ m.count = run[r].mine.count
        /\ pc = "make" => Cycle!RuleMisses(r) /\ m = run[r].mine
  BY <1>3
<1> DEFINE x == [run[r] EXCEPT !.mine = m, !.pc = pc]
<1>5. run' = [run EXCEPT ![r] = x]
  BY <1>1, <1>4
<1>6. /\ x \in RunShape /\ x.pc = pc /\ x.mine = m /\ x.base = run[r].base
  BY <1>1 DEF RunShape
<1>7. QED
  BY <1>2, <1>4, <1>5, <1>6, TwoRunners

LEMMA RoundStep ==
  ASSUME CycleInv, Limit \in Nat, NEW r \in Runners, Rounds(r)
  PROVE  CycleInv'
<1>1. Shaped /\ UNCHANGED <<day, rule, tasks, moved, lost, overlapped>> /\ OnRule(r)
  BY RoundShape DEF CycleInv
<1>2. PICK x \in RunShape :
        /\ run' = [run EXCEPT ![r] = x]
        /\ x.pc \in {"rule", "make", "save"} /\ x.base = run[r].base
        /\ x.mine.count = run[r].mine.count
        /\ x.pc = "make" => Cycle!RuleMisses(r) /\ x.mine = run[r].mine
  BY RoundShape
<1>3. /\ run'[r] = x /\ \A o \in Runners : o # r => run'[o] = run[o]
      /\ run' \in [Runners -> RunShape]
  BY <1>1, <1>2, OneRuns
<1>4. Shaped' /\ InPlace' /\ overlapped' \in BOOLEAN
  BY <1>1, <1>3, TwoRunners DEF CycleInv, Shaped, InPlace, Unmoved
<1>5. ASSUME ~overlapped PROVE Careful' /\ OccurrencesOnce'
  <2>1. Careful /\ OccurrencesOnce
    BY <1>5 DEF CycleInv
  <2>2. /\ \A o \in Runners : o # r => ~OnRule(o) /\ run[o].pc # "make"
        /\ rule = run[r].base
        /\ run[r].mine.count \in {run[r].base.count, run[r].base.count + 1}
        /\ run[r].mine.count <= Limit
        /\ Len(tasks) = run[r].mine.count + lost
    BY <1>1, <1>5, OnlyOne
  <2>3. \A o \in Runners : OnRule(o)' <=> o = r
    <3>1. \A o \in Runners : OnRule(o)' <=> run'[o].pc \in {"rule", "make", "save"}
      BY DEF OnRule, Cycle!OnRule, Cycle!RulePcs
    <3>2. QED
      BY <1>2, <1>3, <2>2, <3>1, TwoRunners
  <2>4. Alone' /\ Counting' /\ Counted'
    BY <1>1, <1>2, <1>3, <2>2, <2>3, TwoRunners DEF Alone, Counting, Counted
  <2>5. Looked'
    <3> SUFFICES ASSUME NEW o \in Runners, run'[o].pc = "make"
                 PROVE  /\ run'[o].mine.count < Limit
                        /\ \A t \in Unmoved' : tasks'[t].occ # run'[o].mine.next
      BY TwoRunners DEF Looked
    <3>1. o = r /\ Cycle!RuleMisses(r) /\ run'[r].mine = run[r].mine
      BY <1>2, <1>3, <2>2
    <3>2. /\ ~(run[r].mine.count >= Limit)
          /\ \A t \in DOMAIN tasks : tasks[t].due # run[r].mine.next \/ tasks[t].gone
      BY <3>1 DEF Cycle!RuleMisses, Cycle!Round, Cycle!DueNow, Cycle!Exhausted,
         Cycle!AlreadyMade
    <3>3. run[r].mine.count < Limit
      <4>1. run[r].mine.count \in Nat /\ Limit \in Nat
        BY <1>1 DEF Shaped, RunShape, RuleShape
      <4>2. QED
        BY <3>2, <4>1
    <3>4. \A t \in Unmoved : tasks[t].due = tasks[t].occ /\ ~tasks[t].gone
      BY DEF CycleInv, InPlace
    <3>5. QED
      BY <1>1, <3>1, <3>2, <3>3, <3>4 DEF Unmoved
  <2>6. OccurrencesOnce'
    BY <1>1, <2>1 DEF OccurrencesOnce
  <2>7. QED
    BY <2>4, <2>5, <2>6 DEF Careful
<1>6. QED
  BY <1>1, <1>4, <1>5 DEF CycleInv

\* What a runner writes: its copy of the rule, if the row is as it was read.
LEMMA WhatIsWritten ==
  ASSUME Shaped, NEW r \in Runners
  PROVE  /\ Cycle!RuleWith(r) \in RuleShape
         /\ rule = run[r].base => Cycle!RuleWith(r) = run[r].mine
<1>1. rule \in RuleShape /\ run[r].mine \in RuleShape
  BY DEF Shaped, RunShape
<1> DEFINE w == Cycle!RuleWith(r)
<1>2. /\ DOMAIN rule = {"next", "count", "active"}
      /\ w = [c \in DOMAIN rule |-> IF run[r].mine[c] = run[r].base[c] THEN rule[c]
                                    ELSE run[r].mine[c]]
  BY <1>1 DEF RuleShape, Cycle!RuleWith
<1> HIDE DEF w
<1>3. w = [next |-> w.next, count |-> w.count, active |-> w.active]
  BY <1>2
<1>4. \A c \in {"next", "count", "active"} :
        /\ w[c] \in {rule[c], run[r].mine[c]}
        /\ rule = run[r].base => w[c] = run[r].mine[c]
  BY <1>2
<1>5. w.next \in Nat /\ w.count \in Nat /\ w.active \in BOOLEAN
  BY <1>1, <1>4 DEF RuleShape
<1>6. rule = run[r].base => w = run[r].mine
  BY <1>1, <1>3, <1>4 DEF RuleShape
<1>7. QED
  BY <1>3, <1>5, <1>6 DEF w, RuleShape

LEMMA MakeStep ==
  ASSUME CycleInv, Limit \in Nat, NEW r \in Runners, Cycle!Make(r)
  PROVE  CycleInv'
<1> DEFINE mine == run[r].mine
           made == [occ |-> mine.next, due |-> mine.next, done |-> Cycle!NoDay,
                    gone |-> FALSE]
           counted == [Cycle!Advanced(mine) EXCEPT !.count = @ + 1]
           x == [run[r] EXCEPT !.base = mine, !.pc = "rule", !.mine = counted]
           new == Len(tasks) + 1
<1>1. /\ Shaped /\ run[r] \in RunShape /\ mine \in RuleShape
      /\ run \in [Runners -> RunShape] /\ OnRule(r) /\ run[r].pc = "make"
  BY TwoRunners DEF CycleInv, Shaped, RunShape, Cycle!Make
<1>2. /\ tasks' = Append(tasks, made) /\ rule' = Cycle!RuleWith(r)
      /\ UNCHANGED <<day, moved, lost, overlapped>>
  BY DEF Cycle!Make
<1>3. counted \in RuleShape /\ counted.count = mine.count + 1
  <2>1. /\ Cycle!Advanced(mine) \in RuleShape /\ Cycle!Advanced(mine).count = mine.count
    <3>1. mine.next + 1 \in Nat
      BY <1>1 DEF RuleShape
    <3>2. Cycle!Advanced(mine) = [mine EXCEPT !.next = mine.next + 1]
      BY DEF Cycle!Advanced
    <3>3. QED
      BY <1>1, <3>1, <3>2 DEF RuleShape
  <2>2. mine.count + 1 \in Nat
    BY <1>1 DEF RuleShape
  <2>3. QED
    BY <2>1, <2>2 DEF RuleShape
<1>4. run' = [run EXCEPT ![r] = x]
  BY <1>1 DEF Cycle!Make
<1> HIDE DEF counted
<1>5. x \in RunShape /\ x.pc = "rule" /\ x.mine = counted /\ x.base = mine
  BY <1>1, <1>3 DEF RunShape
<1> HIDE DEF x
<1>6. /\ run'[r] = x /\ \A o \in Runners : o # r => run'[o] = run[o]
      /\ run' \in [Runners -> RunShape]
  BY <1>1, <1>4, <1>5, OneRuns
<1>7. made \in TaskShape /\ made.occ = mine.next /\ made.due = mine.next /\ ~made.gone
  BY <1>1 DEF RuleShape, TaskShape, Cycle!NoDay
<1> HIDE DEF made
<1>8. /\ tasks \in Seq(TaskShape) /\ tasks' \in Seq(TaskShape)
      /\ Len(tasks') = new /\ tasks'[new] = made
      /\ DOMAIN tasks = 1..Len(tasks) /\ DOMAIN tasks' = 1..new
      /\ \A t \in DOMAIN tasks : tasks'[t] = tasks[t]
      /\ DOMAIN tasks' = DOMAIN tasks \cup {new} /\ new \notin DOMAIN tasks
  BY <1>1, <1>2, <1>7 DEF Shaped
<1>9. moved' = moved /\ moved \subseteq DOMAIN tasks
  BY <1>1, <1>2 DEF Shaped
<1> HIDE DEF new
<1>10. Unmoved' = Unmoved \cup {new}
  BY <1>8, <1>9 DEF Unmoved
<1>11. Shaped'
  BY <1>1, <1>2, <1>6, <1>8, <1>9, WhatIsWritten, TwoRunners DEF Shaped
<1>12. InPlace' /\ overlapped' \in BOOLEAN
  BY <1>2, <1>7, <1>8, <1>10 DEF CycleInv, InPlace, Unmoved
<1>13. ASSUME ~overlapped PROVE Careful' /\ OccurrencesOnce'
  <2>1. Careful /\ OccurrencesOnce
    BY <1>13 DEF CycleInv
  <2>2. /\ \A o \in Runners : o # r => ~OnRule(o) /\ run[o].pc # "make"
        /\ rule = run[r].base
        /\ Len(tasks) = mine.count + lost
    BY <1>1, <1>13, OnlyOne
  <2>3. mine.count < Limit /\ \A t \in Unmoved : tasks[t].occ # mine.next
    BY <1>1, <2>1 DEF Careful, Looked
  <2>4. \A o \in Runners : OnRule(o)' <=> o = r
    <3>1. \A o \in Runners : OnRule(o)' <=> run'[o].pc \in {"rule", "make", "save"}
      BY DEF OnRule, Cycle!OnRule, Cycle!RulePcs
    <3>2. QED
      BY <1>5, <1>6, <2>2, <3>1, TwoRunners
  <2>5. Alone' /\ Looked' /\ Counted'
    BY <1>5, <1>6, <2>2, <2>4, TwoRunners DEF Alone, Looked, Counted
  <2>6. Counting'
    <3>1. rule' = x.base
      BY <1>1, <1>2, <1>5, <2>2, WhatIsWritten
    <3>2. x.mine.count = x.base.count + 1 /\ x.mine.count <= Limit
      BY <1>1, <1>3, <1>5, <2>3 DEF RuleShape
    <3>3. Len(tasks') = x.mine.count + lost'
      BY <1>1, <1>2, <1>3, <1>5, <1>8, <2>2 DEF Shaped, RuleShape, new
    <3>4. QED
      BY <1>6, <2>4, <3>1, <3>2, <3>3, TwoRunners DEF Counting
  <2>7. OccurrencesOnce'
    <3> SUFFICES ASSUME NEW i \in DOMAIN tasks', NEW j \in DOMAIN tasks', i < j,
                        tasks'[i].occ = tasks'[j].occ
                 PROVE  i \in moved
      BY <1>9 DEF OccurrencesOnce
    <3>1. i \in DOMAIN tasks
      BY <1>8 DEF new
    <3>2. CASE j \in DOMAIN tasks
      BY <1>8, <1>13, <2>1, <3>1, <3>2 DEF OccurrencesOnce
    <3>3. CASE j = new
      BY <1>7, <1>8, <2>3, <3>1, <3>3 DEF Unmoved
    <3>4. QED
      BY <1>8, <3>2, <3>3
  <2>8. QED
    BY <2>5, <2>6, <2>7 DEF Careful
<1>14. QED
  BY <1>2, <1>11, <1>12, <1>13 DEF CycleInv

LEMMA SaveStep ==
  ASSUME CycleInv, NEW r \in Runners, Cycle!SaveRule(r)
  PROVE  CycleInv'
<1> DEFINE x == Cycle!AfterRules(r)
<1>1. Shaped /\ OnRule(r)
  BY TwoRunners DEF CycleInv, Cycle!SaveRule
<1>2. /\ rule' = Cycle!RuleWith(r) /\ run' = [run EXCEPT ![r] = x]
      /\ UNCHANGED <<day, tasks, moved, lost, overlapped>>
  BY DEF Cycle!SaveRule, Cycle!history
<1>3. x \in RunShape /\ x.pc \in {"idle", "project"}
  BY CycleShapes DEF Cycle!AfterRules
<1> HIDE DEF x
<1>4. /\ run'[r] = x /\ \A o \in Runners : o # r => run'[o] = run[o]
      /\ run' \in [Runners -> RunShape]
  BY <1>1, <1>2, <1>3, OneRuns
<1>5. Shaped'
  BY <1>1, <1>2, <1>4, WhatIsWritten, TwoRunners DEF Shaped
<1>6. InPlace' /\ overlapped' \in BOOLEAN
  BY <1>2 DEF CycleInv, InPlace, Unmoved
<1>7. ASSUME ~overlapped PROVE Careful' /\ OccurrencesOnce'
  <2>1. Careful /\ OccurrencesOnce
    BY <1>7 DEF CycleInv
  <2>2. /\ \A o \in Runners : o # r => ~OnRule(o) /\ run[o].pc # "make"
        /\ rule = run[r].base
        /\ run[r].mine.count <= Limit
        /\ Len(tasks) = run[r].mine.count + lost
    BY <1>1, <1>7, OnlyOne
  <2>3. \A o \in Runners : ~OnRule(o)' /\ run'[o].pc # "make"
    <3>1. \A o \in Runners : OnRule(o)' <=> run'[o].pc \in {"rule", "make", "save"}
      BY DEF OnRule, Cycle!OnRule, Cycle!RulePcs
    <3>2. QED
      BY <1>3, <1>4, <2>2, <3>1, TwoRunners
  <2>4. rule' = run[r].mine
    BY <1>1, <1>2, <2>2, WhatIsWritten
  <2>5. Careful'
    BY <1>2, <2>2, <2>3, <2>4, TwoRunners DEF Careful, Alone, Looked, Counting, Counted
  <2>6. OccurrencesOnce'
    BY <1>2, <2>1 DEF OccurrencesOnce
  <2>7. QED
    BY <2>5, <2>6
<1>8. QED
  BY <1>2, <1>5, <1>6, <1>7 DEF CycleInv

\* Runners that are dropped lose the count of what they have made since they
\* last wrote.
LEMMA DropStep ==
  ASSUME CycleInv, Limit \in Nat, NEW D \in SUBSET Runners, Cycle!Dropped(D),
         UNCHANGED <<day, rule, tasks, moved, overlapped>>
  PROVE  CycleInv'
<1> DEFINE U == {r \in D : Cycle!Uncounted(r)}
<1>1. /\ Shaped /\ lost' = lost + Cardinality(U)
      /\ run' = [r \in Runners |-> IF r \in D THEN Cycle!Resting ELSE run[r]]
  BY SameCardinality DEF CycleInv, Cycle!Dropped, Runners
<1>2. Cardinality(U) \in Nat
  <2>1. IsFiniteSet({"scheduler", "by hand"})
    <3>1. IsFiniteSet({"by hand"})
      BY FS_Singleton
    <3>2. IsFiniteSet({"by hand"} \cup {"scheduler"})
      BY <3>1, FS_AddElement
    <3>3. {"scheduler", "by hand"} = {"by hand"} \cup {"scheduler"}
      OBVIOUS
    <3>4. QED
      BY <3>2, <3>3
  <2>2. U \subseteq {"scheduler", "by hand"}
    BY TwoRunners
  <2> HIDE DEF U
  <2>3. QED
    BY <2>1, <2>2, FS_Subset, FS_CardinalityType
<1>3. \A r \in U : /\ r \in D /\ r \in Runners
                   /\ OnRule(r) /\ run[r].mine.count > run[r].base.count
  BY DEF Cycle!Uncounted, OnRule
<1>4. \A r \in D : OnRule(r) /\ run[r].mine.count > run[r].base.count => r \in U
  BY DEF Cycle!Uncounted, OnRule
<1> HIDE DEF U
<1>5. Shaped'
  <2>1. lost' \in Nat
    BY <1>1, <1>2 DEF Shaped
  <2>2. run' \in [Runners -> RunShape]
    BY <1>1, CycleShapes DEF Shaped
  <2>3. QED
    BY <1>1, <2>1, <2>2, TwoRunners DEF Shaped
<1>6. InPlace' /\ overlapped' \in BOOLEAN
  BY DEF CycleInv, InPlace, Unmoved
<1>7. ASSUME ~overlapped PROVE Careful' /\ OccurrencesOnce'
  <2>1. Careful /\ OccurrencesOnce
    BY <1>7 DEF CycleInv
  <2>2. \A o \in Runners : OnRule(o)' <=> OnRule(o) /\ o \notin D
    <3>1. \A o \in Runners : OnRule(o)' <=> run'[o].pc \in {"rule", "make", "save"}
      BY DEF OnRule, Cycle!OnRule, Cycle!RulePcs
    <3>2. QED
      BY <1>1, <3>1, TwoRunners, CycleShapes
  <2>3. \A o \in Runners : /\ o \notin D => run'[o] = run[o]
                           /\ o \in D => run'[o].pc = "idle"
    BY <1>1, CycleShapes
  <2>4. Alone' /\ Looked'
    <3>1. Unmoved' = Unmoved /\ Runners' = Runners
      BY TwoRunners DEF Unmoved
    <3>2. \A o \in Runners : run'[o].pc = "make" => run'[o] = run[o]
      BY <2>3
    <3>3. Alone'
      BY <2>1, <2>2, <3>1 DEF Careful, Alone
    <3>4. Looked'
      BY <2>1, <3>1, <3>2 DEF Careful, Looked
    <3>5. QED
      BY <3>3, <3>4
  <2>5. OccurrencesOnce'
    BY <2>1 DEF OccurrencesOnce
  <2>6. CASE \A o \in D : ~OnRule(o)
    <3>1. U = {}
      BY <1>3, <2>6
    <3>2. lost' = lost
      BY <1>1, <3>1, FS_EmptySet DEF Shaped
    <3>3. \A o \in Runners : OnRule(o)' => OnRule(o) /\ run'[o] = run[o]
      BY <2>2, <2>3
    <3>c. Runners' = Runners
      BY TwoRunners
    <3>4. Counting'
      BY <2>1, <3>2, <3>3, <3>c DEF Careful, Counting
    <3>5. Counted'
      BY <2>1, <2>2, <2>6, <3>2, <3>c DEF Careful, Counted
    <3>6. QED
      BY <2>4, <2>5, <3>4, <3>5 DEF Careful
  <2>7. CASE \E o \in D : OnRule(o)
    <3>1. PICK r \in D : OnRule(r)
      BY <2>7
    <3>2. /\ \A o \in Runners : o # r => ~OnRule(o)
          /\ rule = run[r].base
          /\ run[r].mine.count \in {run[r].base.count, run[r].base.count + 1}
          /\ run[r].mine.count <= Limit
          /\ Len(tasks) = run[r].mine.count + lost
      BY <1>7, <3>1, OnlyOne
    <3>3. \A o \in Runners : ~OnRule(o)'
      BY <2>2, <3>1, <3>2
    <3>4. rule.count \in Nat /\ run[r].mine.count \in Nat /\ lost \in Nat
      BY <1>1, <3>1 DEF Shaped, RunShape, RuleShape
    <3>5. CASE run[r].mine.count = run[r].base.count
      <4>1. U = {}
        BY <1>3, <3>2, <3>4, <3>5
      <4>2. lost' = lost
        BY <1>1, <3>4, <4>1, FS_EmptySet
      <4>3. rule.count <= Limit /\ Len(tasks) = rule.count + lost'
        BY <3>2, <3>5, <4>2
      <4>4. QED
        BY <2>4, <2>5, <3>3, <4>3, TwoRunners DEF Careful, Counting, Counted
    <3>6. CASE run[r].mine.count = run[r].base.count + 1
      <4>1. U = {r}
        <5>1. r \in U
          BY <1>4, <3>1, <3>2, <3>4, <3>6
        <5>2. \A o \in U : o = r
          BY <1>3, <3>2
        <5>3. QED
          BY ONLY <5>1, <5>2
      <4>2. lost' = lost + 1
        BY <1>1, <4>1, FS_Singleton
      <4>3. rule.count <= Limit /\ Len(tasks) = rule.count + lost'
        <5>1. run[r].mine.count = rule.count + 1
          BY <3>2, <3>6
        <5>2. run[r].mine.count <= Limit /\ Len(tasks) = run[r].mine.count + lost
          BY <3>2
        <5>3. QED
          BY ONLY Limit \in Nat, <3>4, <4>2, <5>1, <5>2
      <4>4. QED
        BY <2>4, <2>5, <3>3, <4>3, TwoRunners DEF Careful, Counting, Counted
    <3>7. QED
      BY <3>2, <3>5, <3>6
  <2>8. QED
    BY <2>6, <2>7
<1>8. QED
  BY <1>5, <1>6, <1>7 DEF CycleInv

LEMMA CycleStep ==
  ASSUME Limit \in Nat, CycleInv, [Cycle!Next]_Cycle!vars
  PROVE  CycleInv'
<1>1. CASE UNCHANGED Cycle!vars
  <2>1. UNCHANGED <<day, rule, tasks, run, moved, lost, overlapped>>
    BY <1>1 DEF Cycle!vars, Cycle!database, Cycle!history
  <2>2. Aside /\ Shaped'
    BY <2>1, TwoRunners DEF Aside, CycleInv, Shaped
  <2>3. QED
    BY <2>2, AsideStep
<1>2. CASE Rest
  BY <1>2, RestIsAside, AsideStep
<1>3. CASE \E t \in Cycle!TaskIds : Touches(t)
  BY <1>3, TouchStep
<1>4. CASE \E r \in Runners : Cycle!Begin(r) \/ Rounds(r) \/ Cycle!Make(r) \/ Cycle!SaveRule(r)
  BY <1>4, BeginStep, RoundStep, MakeStep, SaveStep
<1>5. CASE Cycle!CycleFails \/ Cycle!Crash
  <2>1. \E D \in SUBSET Runners : Cycle!Dropped(D)
    BY <1>5, TwoRunners DEF Cycle!CycleFails, Cycle!Crash, Runners
  <2>2. UNCHANGED <<day, rule, tasks, moved, overlapped>>
    BY <1>5 DEF Cycle!CycleFails, Cycle!Crash, Cycle!database
  <2>3. QED
    BY <2>1, <2>2, DropStep
<1>6. QED
  BY <1>1, <1>2, <1>3, <1>4, <1>5, CycleSteps

(* However often the scheduler fails or crashes between making a task and     *)
(* counting it, an occurrence becomes one task, as long as no one moved or    *)
(* deleted that task and no second runner was at the rule (recurrence.py      *)
(* looks for a task with the occurrence's date before it makes one).          *)
THEOREM OccurrencesBecomeOneTask ==
  ASSUME FirstDay \in Nat, Limit \in Nat
  PROVE  Cycle!Spec => []OccurrencesOnce
<1>1. Cycle!Init => CycleInv
  BY CycleInit
<1>2. CycleInv /\ [Cycle!Next]_Cycle!vars => CycleInv'
  BY CycleStep
<1>3. CycleInv => OccurrencesOnce
  BY DEF CycleInv, OccurrencesOnce
<1>4. QED
  BY <1>1, <1>2, <1>3, PTL DEF Cycle!Spec

(* A rule makes no more tasks than max_occurrences, plus one for each time    *)
(* its runner was lost between the commit of a task and that of its count.    *)
THEOREM LimitIsRespected ==
  ASSUME FirstDay \in Nat, Limit \in Nat
  PROVE  Cycle!Spec => []LimitIsKept
<1>1. Cycle!Init => CycleInv
  BY CycleInit
<1>2. CycleInv /\ [Cycle!Next]_Cycle!vars => CycleInv'
  BY CycleStep
<1>3. CycleInv => LimitIsKept
  <2> SUFFICES ASSUME CycleInv, ~overlapped PROVE Len(tasks) <= Limit + lost
    BY DEF LimitIsKept
  <2>1. /\ Careful /\ lost \in Nat /\ rule.count \in Nat
        /\ \A r \in Runners : run[r].mine.count \in Nat
    BY DEF CycleInv, Shaped, RunShape, RuleShape
  <2>2. CASE \E r \in Runners : OnRule(r)
    <3>1. PICK r \in Runners : OnRule(r)
      BY <2>2
    <3>2. run[r].mine.count <= Limit /\ Len(tasks) = run[r].mine.count + lost
      BY <2>1, <3>1 DEF Careful, Counting
    <3>3. QED
      BY <2>1, <3>2
  <2>3. CASE \A r \in Runners : ~OnRule(r)
    BY <2>1, <2>3 DEF Careful, Counted
  <2>4. QED
    BY <2>2, <2>3
<1>4. QED
  BY <1>1, <1>2, <1>3, PTL DEF Cycle!Spec

(* Between two runs the rule counts every task there is, but for those whose  *)
(* count was lost.                                                            *)
CountIsRight ==
  ~overlapped /\ (\A r \in Runners : ~OnRule(r)) => Len(tasks) = rule.count + lost

(* What the rule's row says was made was made, neither more nor less: a task  *)
(* without its count comes only of a runner lost between its two commits, and *)
(* the next runner does not count it afterwards, nor one task twice           *)
(* (recurrence.py). *)
THEOREM TasksAreCounted ==
  ASSUME FirstDay \in Nat, Limit \in Nat
  PROVE  Cycle!Spec => []CountIsRight
<1>1. Cycle!Init => CycleInv
  BY CycleInit
<1>2. CycleInv /\ [Cycle!Next]_Cycle!vars => CycleInv'
  BY CycleStep
<1>3. CycleInv => CountIsRight
  BY DEF CycleInv, Careful, Counted, CountIsRight
<1>4. QED
  BY <1>1, <1>2, <1>3, PTL DEF Cycle!Spec

-----------------------------------------------------------------------------
(* The types of the minute cycle                                            *)

(* Beside the types: events, the session's list and the checkpoint refer to  *)
(* tasks and events there are, and a runner about to make a task has room    *)
(* for it.  The weeks a projection touches come from FlattenSeq, which is    *)
(* defined by recursion; what it returns is shown by the least position at   *)
(* which it would not.                                                       *)

LEMMA LeastOf ==
  ASSUME NEW n \in Nat, NEW S \in SUBSET (1..n), S # {}
  PROVE  \E x \in S : \A y \in S : x <= y
<1> DEFINE R == StrictSubsetOrdering(1..n)
           Below(x) == {y \in S : y < x}
<1>1. IsWellFoundedOn(R, SUBSET (1..n))
  <2>1. IsFiniteSet(1..n)
    BY FS_Interval
  <2>2. QED
    BY <2>1, FS_FiniteSubsetsOfFinite, FS_StrictSubsetOrderingWellFounded
<1>2. {Below(x) : x \in S} \subseteq SUBSET (1..n) /\ {Below(x) : x \in S} # {}
  OBVIOUS
<1>3. PICK B \in {Below(x) : x \in S} : \A C \in {Below(x) : x \in S} : <<C, B>> \notin R
  BY ONLY <1>1, <1>2, WFMin
<1>4. PICK x \in S : B = Below(x)
  OBVIOUS
<1>5. S \subseteq Int
  OBVIOUS
<1>6. ASSUME NEW y \in S, y < x PROVE FALSE
  <2>1. x \in Int /\ y \in Int
    BY <1>5
  <2>2. \A z \in S : z < y => z < x
    BY <1>5, <1>6, <2>1
  <2>3. y \in Below(x) /\ Below(y) \subseteq Below(x)
    BY <1>6, <2>2
  <2>4. y \notin Below(y)
    BY <2>1
  <2>5. <<Below(y), Below(x)>> \in R
    BY <2>3, <2>4 DEF StrictSubsetOrdering
  <2>6. QED
    BY <1>3, <1>4, <2>5
<1>7. QED
  BY <1>5, <1>6

\* FlattenSeq is defined by recursion on the position; there is such a function.
LEMMA Joined ==
  ASSUME NEW n \in Nat, NEW q
  PROVE  \E f : f = [i \in 1..n |-> IF i = 1 THEN q[i] ELSE f[i - 1] \o q[i]]
<1> DEFINE Body(f, i) == IF i = 1 THEN q[i] ELSE f[i - 1] \o q[i]
           Upto(m) == \E f : f = [i \in 1..m |-> Body(f, i)]
           bad == {m \in 1..n : ~Upto(m)}
<1>1. Upto(0)
  <2>1. <<>> = [i \in 1..0 |-> Body(<<>>, i)]
    OBVIOUS
  <2>2. QED
    BY <2>1
<1>2. ASSUME NEW m \in 1..n, Upto(m - 1) PROVE Upto(m)
  <2>1. PICK f : f = [i \in 1..m - 1 |-> Body(f, i)]
    BY <1>2
  <2>g. PICK g : g = [i \in 1..m |-> Body(f, i)]
    OBVIOUS
  <2>2. \A i \in 1..m : i # 1 => i - 1 \in 1..m - 1 /\ i - 1 \in 1..m
    OBVIOUS
  <2>3. \A i \in 1..m - 1 : f[i] = Body(f, i)
    BY ONLY <2>1
  <2>4. \A i \in 1..m : i # 1 => g[i - 1] = f[i - 1]
    <3> HIDE DEF Body
    <3>1. \A i \in 1..m : g[i] = Body(f, i)
      BY ONLY <2>g
    <3>2. QED
      BY ONLY <2>2, <2>3, <3>1
  <2>5. \A i \in 1..m : Body(f, i) = Body(g, i)
    BY ONLY <2>4
  <2>6. g = [i \in 1..m |-> Body(g, i)]
    <3> HIDE DEF Body
    <3>1. QED
      BY ONLY <2>g, <2>5
  <2>7. QED
    <3> HIDE DEF Body
    <3>1. QED
      BY ONLY <2>6
<1>3. CASE bad = {}
  <2>1. n = 0 \/ n \in 1..n
    OBVIOUS
  <2> HIDE DEF Upto
  <2>2. \A m \in 1..n : Upto(m)
    BY ONLY <1>3
  <2>3. Upto(n)
    <3> HIDE DEF bad
    <3>1. QED
      BY ONLY <1>1, <2>1, <2>2
  <2>4. QED
    BY ONLY <2>3 DEF Upto, Body
<1>4. CASE bad # {}
  <2>1. bad \in SUBSET (1..n)
    OBVIOUS
  <2>2. PICK m \in bad : \A k \in bad : m <= k
    <3> HIDE DEF bad
    <3>1. QED
      BY ONLY n \in Nat, <1>4, <2>1, LeastOf
  <2>3. m \in 1..n /\ ~Upto(m) /\ \A k \in 1..n : k < m => Upto(k)
    <3> HIDE DEF Upto
    <3>1. \A k \in 1..n : k < m => k \notin bad
      BY <2>1, <2>2
    <3>2. QED
      BY <2>2, <3>1
  <2> HIDE DEF Upto
  <2>4. Upto(m - 1)
    <3>1. CASE m = 1
      BY <1>1, <3>1
    <3>2. CASE m # 1
      BY <2>3, <3>2
    <3>3. QED
      BY <3>1, <3>2
  <2>5. QED
    BY <1>2, <2>3, <2>4
<1>5. QED
  BY <1>3, <1>4

LEMMA Flattened ==
  ASSUME NEW S, NEW q \in Seq(Seq(S))
  PROVE  Cycle!FlattenSeq(q) \in Seq(S)
<1> DEFINE n == Len(q)
           F == CHOOSE f : f = [i \in 1..n |-> IF i = 1 THEN q[i] ELSE f[i - 1] \o q[i]]
<1>1. n \in Nat /\ \A i \in 1..n : q[i] \in Seq(S)
  OBVIOUS
<1>2. CASE n = 0
  BY <1>2 DEF Cycle!FlattenSeq
<1>3. CASE n # 0
  <2>1. F = [i \in 1..n |-> IF i = 1 THEN q[i] ELSE F[i - 1] \o q[i]]
    BY ONLY <1>1, Joined, Zenon
  <2>2. Cycle!FlattenSeq(q) = F[n]
    BY <1>3 DEF Cycle!FlattenSeq
  <2> HIDE DEF F
  <2> DEFINE off == {m \in 1..n : F[m] \notin Seq(S)}
  <2>3. CASE off # {}
    <3>1. off \in SUBSET (1..n)
      OBVIOUS
    <3>2. PICK m \in off : \A k \in off : m <= k
      BY ONLY <1>1, <2>3, <3>1, LeastOf
    <3>3. m \in 1..n /\ F[m] \notin Seq(S) /\ q[m] \in Seq(S)
      BY <1>1, <3>2
    <3>4. F[m] = IF m = 1 THEN q[m] ELSE F[m - 1] \o q[m]
      BY ONLY <2>1, <3>3
    <3>5. m # 1 => F[m - 1] \in Seq(S)
      BY <3>2, <3>3
    <3>6. QED
      BY ONLY <3>3, <3>4, <3>5
  <2>4. CASE off = {}
    <3>1. n \in 1..n
      BY <1>1, <1>3
    <3>2. QED
      BY <2>2, <2>4, <3>1
  <2>5. QED
    BY <2>3, <2>4
<1>4. QED
  BY <1>2, <1>3


\* What SchedulerCycle assumes of its parameters, as far as types need it.
Bounds ==
  /\ {LastDay, MaxTasks, MaxEvents} \subseteq Nat /\ FirstDay \in 0..LastDay
  /\ {WeekLength, Limit} \subseteq Nat \ {0}
  /\ ReminderDays \subseteq Nat

Sections == {"completed", "next_plan"}

LEMMA WeeksGrow ==
  ASSUME NEW n \in Nat \ {0}, NEW d \in Nat, NEW e \in Nat, d <= e
  PROVE  d \div n \in Nat /\ d \div n <= e \div n
<1> DEFINE p == d \div n
           q == e \div n
<1>1. /\ p \in Int /\ q \in Int
      /\ d = n * p + (d % n) /\ e = n * q + (e % n)
      /\ d % n \in 0..n - 1 /\ e % n \in 0..n - 1
  BY Z3
<1>2. p >= 0
  BY Z3
<1>3. QED
  BY Z3, <1>2

LEMMA WeekIsOne ==
  ASSUME Bounds, NEW d \in Cycle!DueDays
  PROVE  Cycle!Week(d) \in Cycle!Weeks
<1>1. d \in Nat /\ d <= LastDay + 1 /\ LastDay + 1 \in Nat /\ WeekLength \in Nat \ {0}
  BY DEF Bounds, Cycle!DueDays
<1>2. d \div WeekLength \in Nat /\ d \div WeekLength <= (LastDay + 1) \div WeekLength
  BY ONLY <1>1, WeeksGrow
<1>3. (LastDay + 1) \div WeekLength \in Nat
  BY ONLY <1>1, WeeksGrow
<1>4. QED
  BY ONLY <1>2, <1>3 DEF Cycle!Week, Cycle!Weeks

LEMMA SmallerTwo ==
  \A n \in Nat : /\ n <= 2 => n \in 0..2
                 /\ Cycle!SmallerOf(n, 2) \in 0..2 /\ Cycle!SmallerOf(n, 2) <= n
  BY DEF Cycle!SmallerOf

LEMMA RowsAre ==
  Cycle!Rows = {s \in Seq(Sections) : Len(s) <= 2}
<1>1. ASSUME NEW s \in Cycle!Rows PROVE s \in Seq(Sections) /\ Len(s) <= 2
  <2>1. PICK n \in 0..2 : s \in [1..n -> Sections]
    BY <1>1 DEF Cycle!Rows, Cycle!MaxCopies, Sections
  <2>2. QED
    BY <2>1
<1>2. ASSUME NEW s \in Seq(Sections), Len(s) <= 2 PROVE s \in Cycle!Rows
  <2>1. Len(s) \in Nat
    OBVIOUS
  <2>2. Len(s) \in 0..2
    BY ONLY <1>2, <2>1, SmallerTwo
  <2>3. s \in [1..Len(s) -> Sections]
    OBVIOUS
  <2>4. QED
    BY <2>2, <2>3 DEF Cycle!Rows, Cycle!MaxCopies, Sections
<1>3. QED
  BY <1>1, <1>2

LEMMA SectionIsOne ==
  ASSUME NEW all, NEW w, NEW t
  PROVE  Cycle!SectionOf(all, w, t) \in Sections \cup {"none"}
  BY DEF Cycle!SectionOf, Cycle!Section, Sections

LEMMA FilledRows ==
  ASSUME NEW all, NEW w
  PROVE  /\ Cycle!Filled(all, w) \in [Cycle!TaskIds -> Cycle!Rows]
         /\ \A t \in Cycle!TaskIds : Len(Cycle!Filled(all, w)[t]) <= 1
<1>1. ASSUME NEW t
      PROVE  Cycle!SectionOf(all, w, t) # "none" =>
               <<Cycle!SectionOf(all, w, t)>> \in Cycle!Rows
  BY SectionIsOne, RowsAre
<1>2. <<>> \in Cycle!Rows
  BY RowsAre
<1>3. QED
  BY <1>1, <1>2 DEF Cycle!Filled

LEMMA CappedRows ==
  ASSUME NEW s \in Seq(Sections)
  PROVE  Cycle!Capped(s) \in Cycle!Rows
<1>1. Cycle!SmallerOf(Len(s), 2) \in 0..2 /\ Cycle!SmallerOf(Len(s), 2) <= Len(s)
  <2>1. Len(s) \in Nat
    OBVIOUS
  <2>2. QED
    BY ONLY <2>1, SmallerTwo
<1>2. QED
  BY <1>1, RowsAre DEF Cycle!Capped, Cycle!MaxCopies

LEMMA MergedRows ==
  ASSUME NEW now \in Cycle!Rows, NEW seen \in Cycle!Rows, NEW new \in Cycle!Rows,
         NEW added \in Cycle!Rows
  PROVE  Cycle!Merged(now, seen, new, added) \in Cycle!Rows
<1>1. /\ now \in Seq(Sections) /\ seen \in Seq(Sections)
      /\ new \in Seq(Sections) /\ added \in Seq(Sections)
  BY RowsAre
<1>2. SubSeq(now, Len(seen) + 1, Len(now)) \in Seq(Sections)
  BY <1>1
<1>3. (IF new = seen THEN now ELSE new \o SubSeq(now, Len(seen) + 1, Len(now))) \o added
        \in Seq(Sections)
  BY <1>1, <1>2
<1>4. QED
  BY <1>3, CappedRows DEF Cycle!Merged

LEMMA DatesAre ==
  ASSUME Bounds, NEW task \in Cycle!TaskRow
  PROVE  Cycle!Dates(task) \in Seq(Cycle!DueDays)
<1>1. task.due \in Cycle!DueDays /\ (Cycle!Open(task) \/ task.done \in Cycle!DueDays)
  BY DEF Bounds, Cycle!TaskRow, Cycle!Open, Cycle!NoDay, Cycle!Days, Cycle!DueDays
<1>2. (IF Cycle!Open(task) THEN <<>> ELSE <<task.done>>) \in Seq(Cycle!DueDays)
  BY <1>1
<1>3. <<task.due>> \in Seq(Cycle!DueDays)
  BY <1>1
<1>4. QED
  BY <1>2, <1>3 DEF Cycle!Dates

LEMMA AnchorsAre ==
  ASSUME Bounds, day \in Cycle!Days, NEW lists \in Seq(Seq(Cycle!DueDays))
  PROVE  Cycle!AnchorWeeks(lists) \in Seq(Cycle!Weeks)
<1> DEFINE dates == Cycle!FlattenSeq(<< <<day>> >> \o lists)
<1>1. day \in Cycle!DueDays
  BY DEF Bounds, Cycle!Days, Cycle!DueDays
<1>2. << <<day>> >> \o lists \in Seq(Seq(Cycle!DueDays))
  BY <1>1
<1>3. dates \in Seq(Cycle!DueDays)
  BY <1>2, Flattened
<1> HIDE DEF dates
<1>4. [i \in DOMAIN dates |-> Cycle!Week(dates[i])] \in Seq(Cycle!Weeks)
  <2>1. DOMAIN dates = 1..Len(dates) /\ Len(dates) \in Nat
    BY <1>3
  <2>2. \A i \in DOMAIN dates : Cycle!Week(dates[i]) \in Cycle!Weeks
    BY <1>3, WeekIsOne
  <2>3. QED
    BY <2>1, <2>2
<1>5. QED
  BY <1>4 DEF Cycle!AnchorWeeks, dates


SyncShape == [known : SUBSET Cycle!Weeks, rows : Cycle!ItemRows, added : Cycle!ItemRows,
              flushed : BOOLEAN]

\* What a synchronisation leaves and adds in a report are rows, of a task the one
\* or the other.
LEMMA SyncIs ==
  ASSUME Bounds, weeks \subseteq Cycle!Weeks, NEW ws \in Seq(Cycle!Weeks)
  PROVE  /\ Cycle!Sync(ws) \in SyncShape
         /\ [w \in Cycle!Weeks |-> [t \in Cycle!TaskIds |->
               Cycle!Sync(ws).rows[w][t] \o Cycle!Sync(ws).added[w][t]]] \in Cycle!ItemRows
<1> DEFINE Where(w, t) == Cycle!SectionOf(tasks, w, t)
           Old(w, t) == w \in Cycle!Known(ws) /\ Cycle!HasRows(ws, w, t)
           New(w, t) == w \in Cycle!Known(ws) /\ ~Cycle!HasRows(ws, w, t)
                          /\ Where(w, t) # "none"
           Many(w, t) == [i \in 1..Cycle!SmallerOf(Cycle!Fills(ws, w), Cycle!MaxCopies) |->
                            Where(w, t)]
           kept(w, t) == IF Old(w, t) THEN Cycle!Filled(tasks, w)[t] ELSE <<>>
           more(w, t) == IF New(w, t) THEN Many(w, t) ELSE <<>>
           flushed == Cycle!LastFlush(ws) > 0
<1>1. Cycle!Known(ws) \subseteq Cycle!Weeks
  BY DEF Cycle!Known
<1>2. <<>> \in Cycle!Rows
  BY RowsAre
<1>3. ASSUME NEW w, NEW t PROVE Where(w, t) # "none" => Many(w, t) \in Cycle!Rows
  <2> DEFINE I == {i \in DOMAIN ws : i >= Cycle!LastFlush(ws) /\ ws[i] = w}
  <2>1. IsFiniteSet(DOMAIN ws)
    BY FS_Interval
  <2>2. IsFiniteSet(I)
    BY <2>1, FS_Subset
  <2>3. Cardinality(I) \in Nat
    BY ONLY <2>2, FS_CardinalityType
  <2>4. Cycle!Fills(ws, w) = 1 + Cardinality(I)
    BY SameCardinality DEF Cycle!Fills
  <2>5. Cycle!SmallerOf(Cycle!Fills(ws, w), Cycle!MaxCopies) \in 0..2
    BY ONLY <2>3, <2>4 DEF Cycle!SmallerOf, Cycle!MaxCopies
  <2>6. QED
    BY <2>5, SectionIsOne, RowsAre
<1>4. \A w, t : t \in Cycle!TaskIds => kept(w, t) \in Cycle!Rows
  BY <1>2, FilledRows
<1>5. \A w, t : more(w, t) \in Cycle!Rows
  BY <1>2, <1>3
<1>6. \A w, t : t \in Cycle!TaskIds => kept(w, t) \o more(w, t) \in Cycle!Rows
  <2>1. \A w, t : kept(w, t) = <<>> \/ more(w, t) = <<>>
    OBVIOUS
  <2> HIDE DEF kept, more
  <2>2. \A s \in Cycle!Rows : s \o <<>> = s /\ <<>> \o s = s
    BY RowsAre
  <2>3. QED
    <3> SUFFICES ASSUME NEW w, NEW t \in Cycle!TaskIds
                 PROVE  kept(w, t) \o more(w, t) \in Cycle!Rows
      OBVIOUS
    <3>1. kept(w, t) \in Cycle!Rows /\ more(w, t) \in Cycle!Rows
      BY <1>4, <1>5
    <3>2. CASE kept(w, t) = <<>>
      BY <2>2, <3>1, <3>2
    <3>3. CASE more(w, t) = <<>>
      BY <2>2, <3>1, <3>3
    <3>4. QED
      BY <2>1, <3>2, <3>3
<1>7. Cycle!Sync(ws) =
        [known |-> Cycle!Known(ws),
         rows |-> [w \in Cycle!Weeks |-> [t \in Cycle!TaskIds |-> kept(w, t)]],
         added |-> [w \in Cycle!Weeks |-> [t \in Cycle!TaskIds |-> more(w, t)]],
         flushed |-> flushed]
  BY DEF Cycle!Sync
<1>8. flushed \in BOOLEAN
  OBVIOUS
<1> HIDE DEF kept, more, flushed
<1>9. [w \in Cycle!Weeks |-> [t \in Cycle!TaskIds |-> kept(w, t)]] \in Cycle!ItemRows
  BY <1>4 DEF Cycle!ItemRows
<1>10. [w \in Cycle!Weeks |-> [t \in Cycle!TaskIds |-> more(w, t)]] \in Cycle!ItemRows
  BY <1>5 DEF Cycle!ItemRows
<1>11. Cycle!Sync(ws) \in SyncShape
  BY <1>1, <1>7, <1>8, <1>9, <1>10 DEF SyncShape
<1>12. [w \in Cycle!Weeks |-> [t \in Cycle!TaskIds |-> kept(w, t) \o more(w, t)]]
         \in Cycle!ItemRows
  BY <1>6 DEF Cycle!ItemRows
<1>13. \A w \in Cycle!Weeks : \A t \in Cycle!TaskIds :
         Cycle!Sync(ws).rows[w][t] = kept(w, t) /\ Cycle!Sync(ws).added[w][t] = more(w, t)
  BY <1>7
<1>14. QED
  <2> DEFINE a == [w \in Cycle!Weeks |-> [t \in Cycle!TaskIds |->
                     Cycle!Sync(ws).rows[w][t] \o Cycle!Sync(ws).added[w][t]]]
             b == [w \in Cycle!Weeks |-> [t \in Cycle!TaskIds |-> kept(w, t) \o more(w, t)]]
  <2>1. \A w \in Cycle!Weeks : a[w] = b[w]
    BY <1>13
  <2>2. a = b
    BY ONLY <2>1
  <2>3. QED
    BY ONLY <1>11, <1>12, <2>2

LEMMA NoticesAre ==
  /\ \A old \in Cycle!NoticeRows : \A want : Cycle!Reconciled(old, want) \in Cycle!NoticeRows
  /\ \A now, seen, new \in Cycle!NoticeRows : Cycle!Written(now, seen, new) \in Cycle!NoticeRows
<1>1. ASSUME NEW old \in Cycle!NoticeRows, NEW want
      PROVE  Cycle!Reconciled(old, want) \in Cycle!NoticeRows
  BY DEF Cycle!Reconciled, Cycle!NoticeRows, Cycle!NoticeStates
<1>2. ASSUME NEW now \in Cycle!NoticeRows, NEW seen \in Cycle!NoticeRows,
             NEW new \in Cycle!NoticeRows
      PROVE  Cycle!Written(now, seen, new) \in Cycle!NoticeRows
  BY DEF Cycle!Written, Cycle!NoticeRows
<1>3. QED
  BY <1>1, <1>2


PendingShape == [seen : Cycle!NoticeRows, new : Cycle!NoticeRows]
SessionShape ==
  [sync : SyncShape, base : Cycle!ItemRows, synced : BOOLEAN, taken : Nat, failed : BOOLEAN,
   seen : Seq(Cycle!TaskRow), next : Nat,
   pending : Seq(PendingShape), locked : BOOLEAN]

RuleTyped ==
  /\ day \in Cycle!Days /\ rule \in Cycle!RuleRow
  /\ run \in [Runners -> Cycle!RunRow]
  /\ \A r \in Runners : run[r].pc = "make" =>
       run[r].mine.count < Limit /\ run[r].mine.next <= run[r].today
TasksTyped ==
  /\ tasks \in Seq(Cycle!TaskRow) /\ Len(tasks) <= MaxTasks
  /\ outbox \in Seq(DOMAIN tasks)
SessionTyped ==
  /\ session \in SessionShape
  /\ session.taken <= Len(outbox) /\ Len(session.seen) <= Len(tasks)
  /\ session.next = Len(session.pending) + 1
ReportsTyped ==
  /\ checkpoint \in [last : Nat, backoff : BOOLEAN] /\ checkpoint.last <= Len(outbox)
  /\ weeks \subseteq Cycle!Weeks /\ items \in Cycle!ItemRows
  /\ twice \subseteq Cycle!Weeks \X Cycle!TaskIds
NoticesTyped ==
  /\ notice \in [Cycle!TaskIds -> Cycle!NoticeRows]
  /\ owed = Nobody \/ owed \in [task : Cycle!TaskIds, row : Cycle!TaskRow]
HistoryTyped ==
  /\ overlapped \in BOOLEAN /\ moved \subseteq Cycle!TaskIds /\ passed \subseteq Cycle!Days
  /\ lost \in Nat /\ quiet \in BOOLEAN /\ events \in 0..MaxEvents

CycleTyped ==
  RuleTyped /\ TasksTyped /\ SessionTyped /\ ReportsTyped /\ NoticesTyped /\ HistoryTyped

\* Lengths of sequences are naturals, in a form the provers take.
LEMMA Lengths == \A S : \A s \in Seq(S) : Len(s) \in Nat /\ DOMAIN s = 1..Len(s)
  OBVIOUS

LEMMA UpTo == \A m, n \in Nat : m <= n <=> m \in 0..n
  OBVIOUS

LEMMA CycleTypedIs ==
  ASSUME Bounds, CycleTyped
  PROVE  Cycle!TypeOK
<1> USE DEF CycleTyped
<1>1. DOMAIN tasks \subseteq Cycle!TaskIds
  BY Lengths DEF Bounds, TasksTyped, Cycle!TaskIds
<1>2. Len(outbox) \in Nat
  BY Lengths DEF TasksTyped
<1>3. checkpoint \in [last : 0..Len(outbox), backoff : BOOLEAN]
  <2>1. checkpoint.last \in 0..Len(outbox)
    BY <1>2, UpTo DEF ReportsTyped
  <2>2. QED
    BY <2>1 DEF ReportsTyped
<1>4. session.taken \in 0..Len(outbox)
  <2>1. session.taken \in Nat
    BY DEF SessionTyped, SessionShape
  <2>2. QED
    BY <1>2, <2>1, UpTo DEF SessionTyped
<1>5. outbox \in Seq(Cycle!TaskIds)
  BY <1>1 DEF TasksTyped
<1>6. /\ session.sync.known \subseteq Cycle!Weeks
      /\ session.sync.rows \in Cycle!ItemRows /\ session.sync.added \in Cycle!ItemRows
  BY DEF SessionTyped, SessionShape, SyncShape
<1>7. /\ session.base \in Cycle!ItemRows
      /\ session.synced \in BOOLEAN /\ session.failed \in BOOLEAN /\ session.locked \in BOOLEAN
      /\ session.seen \in Seq(Cycle!TaskRow) /\ session.next = Len(session.pending) + 1
      /\ session.pending \in Seq([seen : Cycle!NoticeRows, new : Cycle!NoticeRows])
  BY DEF SessionTyped, SessionShape, PendingShape
<1>8. QED
  BY <1>3, <1>4, <1>5, <1>6, <1>7
     DEF Cycle!TypeOK, RuleTyped, TasksTyped, ReportsTyped, NoticesTyped, HistoryTyped, Runners

\* What a step leaves alone keeps its type.
LEMMA Frames ==
  ASSUME CycleTyped
  PROVE  /\ UNCHANGED <<day, rule, run>> => RuleTyped'
         /\ UNCHANGED <<tasks, outbox>> => TasksTyped'
         /\ UNCHANGED <<tasks, outbox, session>> => SessionTyped'
         /\ UNCHANGED <<outbox, checkpoint, weeks, items, twice>> => ReportsTyped'
         /\ UNCHANGED <<notice, owed>> => NoticesTyped'
         /\ UNCHANGED <<overlapped, moved, passed, lost, quiet, events>> => HistoryTyped'
<1>1. UNCHANGED <<day, rule, run>> => RuleTyped'
  BY TwoRunners DEF CycleTyped, RuleTyped, Cycle!RunRow
<1>2. UNCHANGED <<tasks, outbox>> => TasksTyped'
  BY DEF CycleTyped, TasksTyped
<1>3. UNCHANGED <<tasks, outbox, session>> => SessionTyped'
  BY DEF CycleTyped, SessionTyped
<1>4. UNCHANGED <<outbox, checkpoint, weeks, items, twice>> => ReportsTyped'
  BY DEF CycleTyped, ReportsTyped
<1>5. UNCHANGED <<notice, owed>> => NoticesTyped'
  BY DEF CycleTyped, NoticesTyped
<1>6. UNCHANGED <<overlapped, moved, passed, lost, quiet, events>> => HistoryTyped'
  BY DEF CycleTyped, HistoryTyped
<1>7. QED
  BY <1>1, <1>2, <1>3, <1>4, <1>5, <1>6

\* A task or an event more, and a task rewritten.
LEMMA Grown ==
  ASSUME Bounds, CycleTyped, tasks' \in Seq(Cycle!TaskRow),
         Len(tasks) <= Len(tasks'), Len(tasks') <= MaxTasks
  PROVE  /\ UNCHANGED outbox => TasksTyped'
         /\ UNCHANGED <<outbox, session>> => SessionTyped'
         /\ \A t \in DOMAIN tasks' : outbox' = Append(outbox, t) =>
              /\ TasksTyped'
              /\ UNCHANGED session => SessionTyped'
              /\ UNCHANGED <<checkpoint, weeks, items, twice>> => ReportsTyped'
<1> USE DEF CycleTyped
<1>1. /\ DOMAIN tasks \subseteq DOMAIN tasks' /\ DOMAIN tasks' \subseteq Cycle!TaskIds
      /\ Len(tasks) \in Nat /\ Len(tasks') \in Nat /\ Len(outbox) \in Nat
  BY Lengths DEF TasksTyped, Bounds, Cycle!TaskIds
<1>2. outbox \in Seq(DOMAIN tasks')
  BY <1>1 DEF TasksTyped
<1>3. UNCHANGED outbox => TasksTyped'
  BY <1>2 DEF TasksTyped
<1>4. Len(session.seen) \in Nat /\ session.taken \in Nat
  BY Lengths DEF SessionTyped, SessionShape
<1>5. UNCHANGED <<outbox, session>> => SessionTyped'
  BY <1>1, <1>4 DEF SessionTyped
<1>6. ASSUME NEW t \in DOMAIN tasks', outbox' = Append(outbox, t)
      PROVE  /\ TasksTyped'
             /\ UNCHANGED session => SessionTyped'
             /\ UNCHANGED <<checkpoint, weeks, items, twice>> => ReportsTyped'
  <2>1. outbox' \in Seq(DOMAIN tasks') /\ Len(outbox') = Len(outbox) + 1
    BY <1>2, <1>6
  <2>2. TasksTyped'
    BY <2>1 DEF TasksTyped
  <2>3. UNCHANGED session => SessionTyped'
    BY <1>1, <1>4, <2>1 DEF SessionTyped
  <2>4. UNCHANGED <<checkpoint, weeks, items, twice>> => ReportsTyped'
    BY <1>1, <2>1 DEF ReportsTyped
  <2>5. QED
    BY <2>2, <2>3, <2>4
<1>7. QED
  BY <1>3, <1>5, <1>6


LEMMA RestingTyped ==
  ASSUME Bounds, NEW pc \in {"idle", "project"}
  PROVE  Cycle!OffRule(pc) \in Cycle!RunRow /\ Cycle!OffRule(pc).pc = pc
<1>1. Cycle!NewRule \in Cycle!RuleRow /\ 0 \in Cycle!Days
  BY DEF Bounds, Cycle!NewRule, Cycle!RuleRow, Cycle!Days
<1>2. QED
  BY <1>1 DEF Cycle!OffRule, Cycle!RunRow

LEMMA NoDraftTyped ==
  /\ Cycle!NoRows \in Cycle!ItemRows /\ Cycle!NoDraft \in SessionShape
  /\ Cycle!NoDraft.taken = 0 /\ Cycle!NoDraft.seen = <<>> /\ Cycle!NoDraft.next = 1
  /\ Cycle!NoDraft.pending = <<>>
<1>1. Cycle!NoRows \in Cycle!ItemRows
  BY RowsAre DEF Cycle!NoRows, Cycle!ItemRows
<1>2. [known |-> {}, rows |-> Cycle!NoRows, added |-> Cycle!NoRows, flushed |-> FALSE]
        \in SyncShape
  BY <1>1 DEF SyncShape
<1>3. QED
  BY <1>1, <1>2 DEF Cycle!NoDraft, SessionShape

LEMMA DoubledWhere ==
  ASSUME NEW seen, NEW now, NEW sync
  PROVE  Cycle!Doubled(seen, now, sync) \subseteq Cycle!Weeks \X Cycle!TaskIds
  BY DEF Cycle!Doubled

LEMMA CycleInitTyped ==
  ASSUME Bounds, Cycle!Init
  PROVE  CycleTyped
<1>1. /\ day = FirstDay /\ rule = Cycle!NewRule /\ tasks = <<>> /\ outbox = <<>>
      /\ checkpoint = [last |-> 0, backoff |-> FALSE] /\ weeks = {} /\ items = Cycle!NoRows
      /\ twice = {}
      /\ notice = [t \in Cycle!TaskIds |-> Cycle!NoNotices]
      /\ run = [r \in Runners |-> Cycle!Resting]
      /\ session = Cycle!NoDraft /\ owed = Nobody
      /\ overlapped = FALSE /\ moved = {} /\ passed = {} /\ lost = 0 /\ quiet = FALSE
      /\ events = 0
  BY DEF Cycle!Init, Runners
<1>2. RuleTyped
  <2>1. Cycle!Resting \in Cycle!RunRow /\ Cycle!Resting.pc = "idle"
    BY RestingTyped DEF Cycle!Resting
  <2>2. rule \in Cycle!RuleRow /\ day \in Cycle!Days
    BY <1>1 DEF Bounds, Cycle!NewRule, Cycle!RuleRow, Cycle!Days
  <2>3. QED
    BY <1>1, <2>1, <2>2 DEF RuleTyped
<1>3. TasksTyped /\ SessionTyped
  BY <1>1, NoDraftTyped DEF TasksTyped, SessionTyped, Bounds
<1>4. ReportsTyped
  BY <1>1, NoDraftTyped DEF ReportsTyped
<1>5. NoticesTyped
  BY <1>1 DEF NoticesTyped, Cycle!NoNotices, Cycle!NoticeRows, Cycle!NoticeStates
<1>6. HistoryTyped
  <2>1. 0 \in 0..MaxEvents
    BY DEF Bounds
  <2>2. QED
    BY <1>1, <2>1 DEF HistoryTyped
<1>7. QED
  BY <1>2, <1>3, <1>4, <1>5, <1>6 DEF CycleTyped

\* One runner moves to a row of its type.
LEMMA RunnerTyped ==
  ASSUME CycleTyped, NEW r \in Runners, NEW x \in Cycle!RunRow,
         x.pc = "make" => x.mine.count < Limit /\ x.mine.next <= x.today,
         run' = [run EXCEPT ![r] = x], UNCHANGED day, rule' \in Cycle!RuleRow
  PROVE  RuleTyped'
<1>1. run' \in [Runners -> Cycle!RunRow]
  BY DEF CycleTyped, RuleTyped
<1>2. \A o \in Runners : run'[o] = IF o = r THEN x ELSE run[o]
  BY DEF CycleTyped, RuleTyped
<1>3. QED
  BY <1>1, <1>2, TwoRunners DEF CycleTyped, RuleTyped

LEMMA BeginTyped ==
  ASSUME Bounds, CycleTyped, NEW r \in Runners, Cycle!Begin(r)
  PROVE  CycleTyped'
<1> DEFINE x == IF rule.active
                THEN [pc |-> "rule", mine |-> rule, base |-> rule, today |-> day]
                ELSE Cycle!AfterRules(r)
<1>1. /\ UNCHANGED <<day, rule, tasks, outbox, checkpoint, weeks, items, twice, notice, session,
                     owed, moved, passed, lost, quiet>>
      /\ run' = [run EXCEPT ![r] = x]
  BY DEF Cycle!Begin, Cycle!database
<1>2. Cycle!AfterRules(r) \in Cycle!RunRow /\ Cycle!AfterRules(r).pc \in {"idle", "project"}
  BY RestingTyped DEF Cycle!AfterRules, Cycle!Resting
<1>3. rule.active =>
        [pc |-> "rule", mine |-> rule, base |-> rule, today |-> day] \in Cycle!RunRow
  BY DEF CycleTyped, RuleTyped, Cycle!RunRow
<1>4. x \in Cycle!RunRow /\ x.pc # "make"
  BY <1>2, <1>3
<1>5. RuleTyped'
  <2>1. rule' \in Cycle!RuleRow
    BY <1>1 DEF CycleTyped, RuleTyped
  <2>2. QED
    BY ONLY CycleTyped, r \in Runners, <1>1, <1>4, <2>1, RunnerTyped
<1>6. HistoryTyped'
  <2>1. events' \in Nat /\ events' <= MaxEvents
    BY DEF CycleTyped, HistoryTyped, Cycle!Begin, Bounds
  <2>2. overlapped' \in BOOLEAN
    BY DEF CycleTyped, HistoryTyped, Cycle!Begin
  <2>3. QED
    BY <1>1, <2>1, <2>2 DEF CycleTyped, HistoryTyped, Bounds
<1>7. QED
  BY <1>1, <1>5, <1>6, Frames DEF CycleTyped

\* A round of the loop: the copy is advanced or closed, or there is a task to make.
LEMMA RoundTyped ==
  ASSUME Bounds, CycleTyped, NEW r \in Runners, Rounds(r)
  PROVE  CycleTyped'
<1>1. /\ UNCHANGED <<day, rule, tasks, outbox, checkpoint, weeks, items, twice, notice, session,
                     owed, overlapped, moved, lost, quiet, events>>
  BY DEF Rounds, Cycle!RuleEnds, Cycle!RuleSkips, Cycle!RuleWaits, Cycle!RuleFinds,
     Cycle!RuleMisses, Cycle!Round, Cycle!database
<1>2. /\ run[r] \in Cycle!RunRow /\ run[r].mine \in Cycle!RuleRow
      /\ run \in [Runners -> Cycle!RunRow] /\ run[r].today \in Cycle!Days
  BY DEF CycleTyped, RuleTyped, Cycle!RunRow
<1>3. /\ Cycle!Advanced(run[r].mine) \in Cycle!RuleRow
      /\ [run[r].mine EXCEPT !.active = FALSE] \in Cycle!RuleRow
  <2>1. run[r].mine.next + 1 \in Nat
    BY <1>2 DEF Cycle!RuleRow
  <2>2. QED
    BY <1>2, <2>1 DEF Cycle!RuleRow, Cycle!Advanced
<1>4. \E m \in Cycle!RuleRow, pc \in {"rule", "make", "save"} :
        /\ run' = [run EXCEPT ![r].mine = m, ![r].pc = pc]
        /\ pc = "make" => Cycle!DueNow(r) /\ m = run[r].mine
  BY <1>2, <1>3 DEF Rounds, Cycle!RuleEnds, Cycle!RuleSkips, Cycle!RuleWaits,
     Cycle!RuleFinds, Cycle!RuleMisses, Cycle!Round
<1>5. PICK m \in Cycle!RuleRow, pc \in {"rule", "make", "save"} :
        /\ run' = [run EXCEPT ![r].mine = m, ![r].pc = pc]
        /\ pc = "make" => Cycle!DueNow(r) /\ m = run[r].mine
  BY <1>4
<1> DEFINE x == [run[r] EXCEPT !.mine = m, !.pc = pc]
<1>6. run' = [run EXCEPT ![r] = x]
  BY <1>2, <1>5
<1>7. x \in Cycle!RunRow /\ x.pc = pc /\ x.mine = m /\ x.today = run[r].today
  BY <1>2 DEF Cycle!RunRow
<1>8. Cycle!DueNow(r) => /\ run[r].mine.count < Limit
                         /\ run[r].mine.next <= run[r].today
                         /\ run[r].mine.next \in Cycle!Days
  <2>1. /\ run[r].mine.count \in Nat /\ Limit \in Nat /\ run[r].mine.next \in Nat
        /\ run[r].today \in Nat /\ run[r].today <= LastDay /\ LastDay \in Nat
    BY <1>2 DEF Cycle!RuleRow, Cycle!Days, Bounds
  <2>2. QED
    BY <2>1 DEF Cycle!DueNow, Cycle!Exhausted, Cycle!Days
<1>9. RuleTyped'
  <2>1. rule' \in Cycle!RuleRow
    BY <1>1 DEF CycleTyped, RuleTyped
  <2>2. x.pc = "make" => x.mine.count < Limit /\ x.mine.next <= x.today
    BY <1>5, <1>7, <1>8
  <2> HIDE DEF x
  <2>3. QED
    BY ONLY CycleTyped, r \in Runners, <1>1, <1>6, <1>7, <2>1, <2>2, RunnerTyped
<1>10. HistoryTyped'
  <2>1. passed' = passed \/ (Cycle!DueNow(r) /\ passed' = passed \cup {run[r].mine.next})
    BY DEF Rounds, Cycle!RuleEnds, Cycle!RuleSkips, Cycle!RuleWaits, Cycle!RuleFinds,
       Cycle!RuleMisses, Cycle!Round
  <2>2. QED
    BY <1>1, <1>8, <2>1 DEF CycleTyped, HistoryTyped
<1>11. QED
  BY <1>1, <1>9, <1>10, Frames DEF CycleTyped


LEMMA WrittenTyped ==
  ASSUME CycleTyped, NEW r \in Runners
  PROVE  Cycle!RuleWith(r) \in Cycle!RuleRow
<1>1. rule \in Cycle!RuleRow /\ run[r].mine \in Cycle!RuleRow
  BY DEF CycleTyped, RuleTyped, Cycle!RunRow
<1> DEFINE w == Cycle!RuleWith(r)
<1>2. /\ DOMAIN rule = {"next", "count", "active"}
      /\ w = [c \in DOMAIN rule |-> IF run[r].mine[c] = run[r].base[c] THEN rule[c]
                                    ELSE run[r].mine[c]]
  BY <1>1 DEF Cycle!RuleRow, Cycle!RuleWith
<1> HIDE DEF w
<1>3. w = [next |-> w.next, count |-> w.count, active |-> w.active]
  BY <1>2
<1>4. w.next \in Nat /\ w.count \in 0..Limit /\ w.active \in BOOLEAN
  BY <1>1, <1>2 DEF Cycle!RuleRow
<1>5. QED
  BY <1>3, <1>4 DEF w, Cycle!RuleRow

LEMMA MakeTyped ==
  ASSUME Bounds, CycleTyped, NEW r \in Runners, Cycle!Make(r)
  PROVE  CycleTyped'
<1> DEFINE mine == run[r].mine
           made == [occ |-> mine.next, due |-> mine.next, done |-> Cycle!NoDay,
                    gone |-> FALSE]
           counted == [Cycle!Advanced(mine) EXCEPT !.count = @ + 1]
           x == [run[r] EXCEPT !.base = mine, !.pc = "rule", !.mine = counted]
           new == Len(tasks) + 1
<1>1. /\ tasks' = Append(tasks, made) /\ rule' = Cycle!RuleWith(r)
      /\ outbox' = Append(outbox, new) /\ quiet' = FALSE /\ Len(tasks) < MaxTasks
      /\ UNCHANGED <<day, checkpoint, weeks, items, twice, notice, session, owed, overlapped, moved,
                     passed, lost, events>>
      /\ run[r].pc = "make"
      /\ run' = [run EXCEPT ![r].base = mine, ![r].pc = "rule", ![r].mine = counted]
  BY DEF Cycle!Make, Cycle!Event
<1>2. /\ run[r] \in Cycle!RunRow /\ mine \in Cycle!RuleRow
      /\ mine.count < Limit /\ mine.next <= run[r].today
      /\ run \in [Runners -> Cycle!RunRow]
  BY <1>1 DEF CycleTyped, RuleTyped, Cycle!RunRow
<1>3. mine.next \in Cycle!Days /\ mine.next + 1 \in Nat /\ mine.count + 1 \in 0..Limit
  <2>1. /\ mine.next \in Nat /\ mine.count \in Nat /\ Limit \in Nat /\ run[r].today \in Nat
        /\ run[r].today <= LastDay /\ LastDay \in Nat
    BY <1>2 DEF Cycle!RuleRow, Cycle!RunRow, Cycle!Days, Bounds
  <2>2. QED
    BY <1>2, <2>1 DEF Cycle!Days
<1>4. counted \in Cycle!RuleRow
  <2>1. Cycle!Advanced(mine) = [mine EXCEPT !.next = mine.next + 1]
    BY DEF Cycle!Advanced
  <2>2. Cycle!Advanced(mine) \in Cycle!RuleRow /\ Cycle!Advanced(mine).count = mine.count
    BY <1>2, <1>3, <2>1 DEF Cycle!RuleRow
  <2>3. counted = [Cycle!Advanced(mine) EXCEPT !.count = mine.count + 1]
    BY <2>2
  <2>4. QED
    BY <1>3, <2>2, <2>3 DEF Cycle!RuleRow
<1>5. made \in Cycle!TaskRow
  BY <1>3 DEF Cycle!TaskRow, Cycle!Days, Cycle!DueDays, Bounds
<1>6. x \in Cycle!RunRow /\ x.pc = "rule" /\ run' = [run EXCEPT ![r] = x]
  <2> HIDE DEF counted
  <2>1. QED
    BY <1>1, <1>2, <1>4 DEF Cycle!RunRow
<1> HIDE DEF x, made, counted
<1>7. RuleTyped'
  <2>1. Cycle!RuleWith(r) \in Cycle!RuleRow
    BY WrittenTyped
  <2>2. rule' \in Cycle!RuleRow
    BY <1>1, <2>1
  <2>3. QED
    BY ONLY CycleTyped, r \in Runners, <1>1, <1>6, <2>2, RunnerTyped
<1>8. TasksTyped' /\ SessionTyped' /\ ReportsTyped'
  <2>1. tasks \in Seq(Cycle!TaskRow) /\ Len(tasks) \in Nat
    BY Lengths DEF CycleTyped, TasksTyped
  <2>2. tasks' \in Seq(Cycle!TaskRow) /\ Len(tasks') = new
    BY <1>1, <1>5, <2>1
  <2>3. Len(tasks) <= Len(tasks') /\ Len(tasks') <= MaxTasks /\ new \in DOMAIN tasks'
    BY <1>1, <2>1, <2>2 DEF Bounds
  <2>4. QED
    BY <1>1, <2>2, <2>3, Grown
<1>9. HistoryTyped'
  BY <1>1 DEF CycleTyped, HistoryTyped
<1>10. QED
  BY <1>1, <1>7, <1>8, <1>9, Frames DEF CycleTyped

LEMMA SaveTyped ==
  ASSUME Bounds, CycleTyped, NEW r \in Runners, Cycle!SaveRule(r)
  PROVE  CycleTyped'
<1>1. /\ rule' = Cycle!RuleWith(r) /\ run' = [run EXCEPT ![r] = Cycle!AfterRules(r)]
      /\ UNCHANGED <<day, tasks, outbox, checkpoint, weeks, items, twice, notice, session, owed,
                     overlapped, moved, passed, lost, quiet, events>>
  BY DEF Cycle!SaveRule, Cycle!history
<1>2. Cycle!AfterRules(r) \in Cycle!RunRow /\ Cycle!AfterRules(r).pc # "make"
  BY RestingTyped DEF Cycle!AfterRules, Cycle!Resting
<1>3. Cycle!RuleWith(r) \in Cycle!RuleRow
  BY WrittenTyped
<1>4. rule' \in Cycle!RuleRow
  BY <1>1, <1>3
<1>5. RuleTyped'
  BY ONLY CycleTyped, r \in Runners, <1>1, <1>2, <1>4, RunnerTyped
<1>6. QED
  BY <1>1, <1>5, Frames DEF CycleTyped

LEMMA DropTyped ==
  ASSUME Bounds, CycleTyped, NEW D \in SUBSET Runners, Cycle!Dropped(D),
         UNCHANGED <<day, rule, tasks, outbox, checkpoint, weeks, items, twice, notice,
                     overlapped, moved, passed, quiet>>,
         events < MaxEvents, events' = events + 1, owed' \in {owed, Nobody}
  PROVE  CycleTyped'
<1> DEFINE U == {r \in D : Cycle!Uncounted(r)}
<1>1. /\ lost' = lost + Cardinality(U) /\ session' = Cycle!NoDraft
      /\ run' = [r \in Runners |-> IF r \in D THEN Cycle!Resting ELSE run[r]]
  BY SameCardinality DEF Cycle!Dropped, Runners
<1>2. Cardinality(U) \in Nat
  <2>1. IsFiniteSet(Runners)
    <3>1. IsFiniteSet({"by hand"})
      BY FS_Singleton
    <3>2. IsFiniteSet({"by hand"} \cup {"scheduler"})
      BY <3>1, FS_AddElement
    <3>3. Runners = {"by hand"} \cup {"scheduler"}
      BY TwoRunners
    <3>4. QED
      BY <3>2, <3>3
  <2>2. U \subseteq Runners
    OBVIOUS
  <2> HIDE DEF U
  <2>3. QED
    BY <2>1, <2>2, FS_Subset, FS_CardinalityType
<1> HIDE DEF U
<1>3. RuleTyped'
  <2>1. Cycle!Resting \in Cycle!RunRow /\ Cycle!Resting.pc = "idle"
    BY RestingTyped DEF Cycle!Resting
  <2>2. run' \in [Runners -> Cycle!RunRow]
    BY <1>1, <2>1 DEF CycleTyped, RuleTyped
  <2>3. QED
    BY <1>1, <2>1, <2>2, TwoRunners DEF CycleTyped, RuleTyped
<1>4. SessionTyped'
  <2>1. Len(outbox) \in Nat /\ Len(tasks) \in Nat
    BY Lengths DEF CycleTyped, TasksTyped
  <2>2. QED
    BY <1>1, <2>1, NoDraftTyped DEF SessionTyped
<1>5. HistoryTyped'
  BY <1>1, <1>2 DEF CycleTyped, HistoryTyped, Bounds
<1>6. NoticesTyped'
  BY DEF CycleTyped, NoticesTyped
<1>7. QED
  BY <1>3, <1>4, <1>5, <1>6, Frames DEF CycleTyped


\* The steps of the cycle after the rules.
LEMMA CycleMoves ==
  ASSUME CycleTyped, NEW from, NEW to \in {"flush", "list"}, Cycle!Cycle(from, to),
         UNCHANGED <<day, rule>>
  PROVE  RuleTyped'
<1> DEFINE s == Cycle!Scheduler
           x == [run[s] EXCEPT !.pc = to]
<1>1. s \in Runners /\ run[s] \in Cycle!RunRow /\ run \in [Runners -> Cycle!RunRow]
  BY TwoRunners DEF CycleTyped, RuleTyped
<1>2. run' = [run EXCEPT ![s] = x]
  BY <1>1 DEF Cycle!Cycle
<1>3. x \in Cycle!RunRow /\ x.pc # "make"
  BY <1>1 DEF Cycle!RunRow
<1>4. rule' \in Cycle!RuleRow
  BY DEF CycleTyped, RuleTyped
<1> HIDE DEF s, x
<1>5. QED
  BY ONLY CycleTyped, UNCHANGED day, <1>1, <1>2, <1>3, <1>4, RunnerTyped

LEMMA ProjectTyped ==
  ASSUME Bounds, CycleTyped, Cycle!Project
  PROVE  CycleTyped'
<1> DEFINE un == Cycle!Unprojected
           lists == [i \in DOMAIN un |-> Cycle!Dates(tasks[un[i]])]
<1>1. UNCHANGED <<day, rule, tasks, outbox, checkpoint, weeks, items, twice, notice, owed,
                  overlapped, moved, passed, lost, quiet, events>>
  BY DEF Cycle!Project, Cycle!database, Cycle!history
<1>2. RuleTyped'
  BY <1>1, CycleMoves DEF Cycle!Project
<1>3. lists \in Seq(Seq(Cycle!DueDays))
  <2>1. outbox \in Seq(DOMAIN tasks) /\ tasks \in Seq(Cycle!TaskRow)
    BY DEF CycleTyped, TasksTyped
  <2>2. checkpoint.last + 1 \in Int /\ checkpoint.last + 1 >= 1
    BY DEF CycleTyped, ReportsTyped
  <2>3. un \in Seq(DOMAIN tasks)
    BY <2>1, <2>2 DEF Cycle!Unprojected
  <2> HIDE DEF un
  <2>4. DOMAIN un = 1..Len(un) /\ Len(un) \in Nat
    BY <2>3
  <2>5. \A i \in DOMAIN un : Cycle!Dates(tasks[un[i]]) \in Seq(Cycle!DueDays)
    <3> SUFFICES ASSUME NEW i \in DOMAIN un
                 PROVE  Cycle!Dates(tasks[un[i]]) \in Seq(Cycle!DueDays)
      OBVIOUS
    <3>1. un[i] \in DOMAIN tasks
      BY <2>3
    <3>2. tasks[un[i]] \in Cycle!TaskRow
      BY <2>1, <3>1
    <3>3. QED
      BY <3>2, DatesAre
  <2>6. QED
    BY <2>4, <2>5
<1>4. Cycle!AnchorWeeks(lists) \in Seq(Cycle!Weeks)
  <2>1. day \in Cycle!Days
    BY DEF CycleTyped, RuleTyped
  <2> HIDE DEF lists
  <2>2. QED
    BY ONLY Bounds, <1>3, <2>1, AnchorsAre
<1> DEFINE sync == Cycle!Sync(Cycle!AnchorWeeks(lists))
<1>5. sync \in SyncShape
  <2>1. weeks \subseteq Cycle!Weeks
    BY DEF CycleTyped, ReportsTyped
  <2> HIDE DEF lists
  <2>2. QED
    BY ONLY Bounds, <1>4, <2>1, SyncIs
<1>6. session' = [session EXCEPT !.sync = sync, !.base = items, !.synced = TRUE,
                                 !.taken = Len(outbox), !.locked = sync.flushed]
  BY DEF Cycle!Project
<1> HIDE DEF sync
<1>7. SessionTyped'
  <2>1. Len(outbox) \in Nat
    BY Lengths DEF CycleTyped, TasksTyped
  <2>2. items \in Cycle!ItemRows /\ sync.flushed \in BOOLEAN
    BY <1>5 DEF CycleTyped, ReportsTyped, SyncShape
  <2>3. session \in SessionShape
    BY DEF CycleTyped, SessionTyped
  <2>4. /\ session' \in SessionShape /\ session'.taken = Len(outbox)
        /\ session'.seen = session.seen /\ session'.next = session.next
        /\ session'.pending = session.pending
    BY <1>5, <1>6, <2>1, <2>2, <2>3 DEF SessionShape
  <2>5. QED
    BY <1>1, <2>1, <2>4 DEF CycleTyped, SessionTyped
<1>8. QED
  BY <1>1, <1>2, <1>7, Frames DEF CycleTyped

LEMMA ListTyped ==
  ASSUME Bounds, CycleTyped, Cycle!ListTasks
  PROVE  CycleTyped'
<1> DEFINE s == Cycle!Scheduler
           x == [run[s] EXCEPT !.pc = "remind", !.today = day]
<1>1. /\ UNCHANGED <<day, rule, tasks, outbox, checkpoint, weeks, items, twice, notice, owed,
                     overlapped, moved, passed, lost, quiet, events>>
      /\ session' = [session EXCEPT !.seen = tasks]
  BY DEF Cycle!ListTasks, Cycle!database, Cycle!history
<1>2. s \in Runners /\ run[s] \in Cycle!RunRow /\ run \in [Runners -> Cycle!RunRow]
  BY TwoRunners DEF CycleTyped, RuleTyped
<1>3. run' = [run EXCEPT ![s] = x]
  BY <1>2 DEF Cycle!ListTasks
<1>4. x \in Cycle!RunRow /\ x.pc # "make"
  BY <1>2 DEF Cycle!RunRow, CycleTyped, RuleTyped
<1>5. rule' \in Cycle!RuleRow
  BY <1>1 DEF CycleTyped, RuleTyped
<1>6. RuleTyped'
  <2> HIDE DEF s, x
  <2>1. QED
    BY ONLY CycleTyped, <1>1, <1>2, <1>3, <1>4, <1>5, RunnerTyped
<1>7. SessionTyped'
  <2>1. session \in SessionShape /\ tasks \in Seq(Cycle!TaskRow) /\ Len(tasks) \in Nat
    BY Lengths DEF CycleTyped, SessionTyped, TasksTyped
  <2>2. /\ session' \in SessionShape /\ session'.taken = session.taken
        /\ session'.seen = tasks /\ session'.next = session.next
        /\ session'.pending = session.pending
    BY <1>1, <2>1 DEF SessionShape
  <2>3. QED
    BY <1>1, <2>1, <2>2 DEF CycleTyped, SessionTyped
<1>8. QED
  BY <1>1, <1>6, <1>7, Frames DEF CycleTyped

LEMMA RemindTyped ==
  ASSUME Bounds, CycleTyped, Cycle!Remind
  PROVE  CycleTyped'
<1> DEFINE t == session.next
           old == notice[t]
           new == IF tasks[t].gone THEN old
                  ELSE Cycle!Reconciled(old,
                         Cycle!Desired(session.seen[t], run[Cycle!Scheduler].today))
           told == \E k \in Cycle!Keys : new[k] = "unread" /\ old[k] # "unread"
<1>1. /\ UNCHANGED <<day, rule, tasks, outbox, checkpoint, weeks, items, twice, notice, run, owed,
                     overlapped, moved, passed, lost, quiet, events>>
      /\ session' = [session EXCEPT !.next = t + 1,
                                    !.pending = Append(@, [seen |-> old, new |-> new]),
                                    !.locked = @ \/ told]
      /\ t \in DOMAIN session.seen
  BY DEF Cycle!Remind, Cycle!database, Cycle!history
<1>2. session \in SessionShape
  BY DEF CycleTyped, SessionTyped
<1>3. t \in Cycle!TaskIds
  <2>1. /\ DOMAIN session.seen = 1..Len(session.seen) /\ Len(session.seen) \in Nat
        /\ Len(tasks) \in Nat
    BY <1>2, Lengths DEF SessionShape, CycleTyped, TasksTyped
  <2>2. QED
    BY <1>1, <2>1 DEF CycleTyped, SessionTyped, TasksTyped, Bounds, Cycle!TaskIds
<1>4. old \in Cycle!NoticeRows
  BY <1>3 DEF CycleTyped, NoticesTyped
<1>5. new \in Cycle!NoticeRows
  BY <1>4, NoticesAre
<1>6. told \in BOOLEAN
  OBVIOUS
<1> HIDE DEF old, new, told
<1>7. /\ session' \in SessionShape
      /\ session'.taken = session.taken /\ session'.seen = session.seen
      /\ session'.next = Len(session'.pending) + 1
  <2>1. [seen |-> old, new |-> new] \in PendingShape
    BY <1>4, <1>5 DEF PendingShape
  <2> DEFINE p == Append(session.pending, [seen |-> old, new |-> new])
             l == session.locked \/ told
  <2>2. /\ p \in Seq(PendingShape)
        /\ Len(p) = Len(session.pending) + 1
    BY <1>2, <2>1 DEF SessionShape
  <2>3. t = Len(session.pending) + 1 /\ t \in Nat
    BY <1>2 DEF CycleTyped, SessionTyped, SessionShape
  <2>4. l \in BOOLEAN
    BY <1>6
  <2>5. session' = [session EXCEPT !.next = t + 1, !.pending = p, !.locked = l]
    BY <1>1
  <2> HIDE DEF p, l
  <2>6. /\ session' \in SessionShape
        /\ session'.taken = session.taken /\ session'.seen = session.seen
        /\ session'.next = t + 1 /\ session'.pending = p
    <3>1. t + 1 \in Nat /\ p \in Seq(PendingShape)
      BY <2>2, <2>3
    <3> DEFINE n == t + 1
    <3>2. session' = [session EXCEPT !.next = n, !.pending = p, !.locked = l]
      BY <2>5
    <3> HIDE DEF n
    <3>3. n \in Nat
      BY <3>1 DEF n
    <3>4. session' \in SessionShape /\ session'.next = n /\ session'.pending = p
      BY ONLY <1>2, <2>4, <3>1, <3>2, <3>3 DEF SessionShape
    <3>5. session'.taken = session.taken /\ session'.seen = session.seen
      BY ONLY <1>2, <3>2 DEF SessionShape
    <3>6. QED
      BY <3>4, <3>5 DEF n
  <2>7. Len(p) = t
    BY <2>2, <2>3
  <2>8. QED
    BY <2>6, <2>7
<1>8. SessionTyped'
  BY <1>1, <1>7 DEF CycleTyped, SessionTyped
<1>9. QED
  BY <1>1, <1>8, Frames DEF CycleTyped

LEMMA CommitTyped ==
  ASSUME Bounds, CycleTyped, Cycle!CommitCycle
  PROVE  CycleTyped'
<1>1. /\ UNCHANGED <<day, rule, tasks, outbox, owed, overlapped, moved, passed, lost, quiet,
                     events>>
      /\ session' = Cycle!NoDraft
      /\ run' = [run EXCEPT ![Cycle!Scheduler] = Cycle!Resting]
  BY DEF Cycle!CommitCycle, Cycle!history
<1>2. session \in SessionShape
  BY DEF CycleTyped, SessionTyped
<1>3. RuleTyped'
  <2>1. Cycle!Resting \in Cycle!RunRow /\ Cycle!Resting.pc # "make"
    BY RestingTyped DEF Cycle!Resting
  <2>2. rule' \in Cycle!RuleRow /\ Cycle!Scheduler \in Runners
    BY <1>1, TwoRunners DEF CycleTyped, RuleTyped
  <2>3. QED
    BY ONLY CycleTyped, <1>1, <2>1, <2>2, RunnerTyped
<1>4. SessionTyped'
  <2>1. Len(outbox) \in Nat /\ Len(tasks) \in Nat
    BY Lengths DEF CycleTyped, TasksTyped
  <2>2. QED
    BY <1>1, <2>1, NoDraftTyped DEF SessionTyped
<1>5. ReportsTyped'
  <2>1. CASE session.synced
    <3>1. /\ weeks' = weeks \cup session.sync.known
          /\ twice' = Cycle!Doubled(session.base, items, session.sync)
          /\ checkpoint' = [last |-> session.taken, backoff |-> FALSE]
          /\ items' = [w \in Cycle!Weeks |-> [t \in Cycle!TaskIds |->
               Cycle!Merged(items[w][t], session.base[w][t], session.sync.rows[w][t],
                            session.sync.added[w][t])]]
      BY <2>1 DEF Cycle!CommitCycle, Cycle!Consumed
    <3>2. /\ session.base \in Cycle!ItemRows /\ session.sync.rows \in Cycle!ItemRows
          /\ session.sync.added \in Cycle!ItemRows /\ items \in Cycle!ItemRows
          /\ session.sync.known \subseteq Cycle!Weeks /\ session.taken \in Nat
      BY <1>2 DEF SessionShape, SyncShape, CycleTyped, ReportsTyped
    <3>3. \A w \in Cycle!Weeks : \A t \in Cycle!TaskIds :
            Cycle!Merged(items[w][t], session.base[w][t], session.sync.rows[w][t],
                         session.sync.added[w][t]) \in Cycle!Rows
      BY <3>2, MergedRows DEF Cycle!ItemRows
    <3>4. items' \in Cycle!ItemRows
      BY <3>1, <3>3 DEF Cycle!ItemRows
    <3>5. twice' \subseteq Cycle!Weeks \X Cycle!TaskIds
      BY ONLY <3>1, DoubledWhere
    <3>6. QED
      BY <1>1, <3>1, <3>2, <3>4, <3>5 DEF CycleTyped, ReportsTyped, SessionTyped
  <2>2. CASE ~session.synced
    <3>1. /\ UNCHANGED <<weeks, items, twice>>
          /\ checkpoint' = [checkpoint EXCEPT !.backoff = @ \/ session.failed]
      BY <2>2 DEF Cycle!CommitCycle
    <3>2. checkpoint.backoff \in BOOLEAN /\ session.failed \in BOOLEAN
      BY <1>2 DEF SessionShape, CycleTyped, ReportsTyped
    <3>3. (checkpoint.backoff \/ session.failed) \in BOOLEAN
      BY <3>2
    <3>4. checkpoint' \in [last : Nat, backoff : BOOLEAN] /\ checkpoint'.last = checkpoint.last
      BY <3>1, <3>3 DEF CycleTyped, ReportsTyped
    <3>5. QED
      BY <1>1, <3>1, <3>4 DEF CycleTyped, ReportsTyped
  <2>3. QED
    BY <2>1, <2>2
<1>6. NoticesTyped'
  <2> DEFINE p == session.pending
             now(t) == IF t \in DOMAIN p
                       THEN Cycle!Written(notice[t], p[t].seen, p[t].new) ELSE notice[t]
  <2>1. notice' = [t \in Cycle!TaskIds |-> now(t)]
    BY DEF Cycle!CommitCycle
  <2>2. p \in Seq(PendingShape)
    BY <1>2 DEF SessionShape
  <2>3. \A t \in DOMAIN p : p[t].seen \in Cycle!NoticeRows /\ p[t].new \in Cycle!NoticeRows
    <3>1. \A t \in DOMAIN p : p[t] \in PendingShape
      BY <2>2
    <3>2. QED
      BY <3>1 DEF PendingShape
  <2>4. \A t \in Cycle!TaskIds : now(t) \in Cycle!NoticeRows
    BY <2>3, NoticesAre DEF CycleTyped, NoticesTyped
  <2> HIDE DEF now
  <2>5. QED
    BY <1>1, <2>1, <2>4 DEF CycleTyped, NoticesTyped
<1>7. QED
  BY <1>1, <1>3, <1>4, <1>5, <1>6, Frames DEF CycleTyped


\* What users do.
LEMMA ActTyped ==
  ASSUME Bounds, CycleTyped, Cycle!Act
  PROVE  /\ RuleTyped' /\ events' \in 0..MaxEvents
         /\ UNCHANGED <<session, overlapped, passed, lost>>
<1>1. /\ UNCHANGED <<day, rule, run, session, overlapped, passed, lost>>
      /\ events < MaxEvents /\ events' = events + 1
  BY DEF Cycle!Act
<1>2. events' \in 0..MaxEvents
  BY <1>1 DEF CycleTyped, HistoryTyped, Bounds
<1>3. QED
  BY <1>1, <1>2, Frames

\* A task is rewritten: its due date, its completion or its deletion.
LEMMA RewriteTyped ==
  ASSUME Bounds, CycleTyped, NEW t \in DOMAIN tasks, NEW x \in Cycle!TaskRow,
         tasks' = [tasks EXCEPT ![t] = x]
  PROVE  /\ tasks' \in Seq(Cycle!TaskRow) /\ tasks'[t] = x
         /\ Len(tasks') = Len(tasks) /\ Len(tasks) <= Len(tasks') /\ Len(tasks') <= MaxTasks
         /\ DOMAIN tasks' = DOMAIN tasks /\ t \in Cycle!TaskIds
<1>1. tasks \in Seq(Cycle!TaskRow) /\ Len(tasks) \in Nat /\ DOMAIN tasks = 1..Len(tasks)
  BY Lengths DEF CycleTyped, TasksTyped
<1>2. tasks' \in Seq(Cycle!TaskRow) /\ tasks'[t] = x /\ Len(tasks') = Len(tasks)
  BY <1>1
<1>3. DOMAIN tasks' = DOMAIN tasks
  BY <1>1
<1>4. Len(tasks) <= MaxTasks /\ MaxTasks \in Nat
  BY DEF CycleTyped, TasksTyped, Bounds
<1>5. Len(tasks) <= Len(tasks') /\ Len(tasks') <= MaxTasks /\ t \in Cycle!TaskIds
  BY <1>1, <1>2, <1>4 DEF Cycle!TaskIds
<1>6. QED
  BY <1>2, <1>3, <1>5

LEMMA TouchTyped ==
  ASSUME Bounds, CycleTyped, NEW t \in Cycle!TaskIds, Touches(t)
  PROVE  CycleTyped'
<1>1. Cycle!Act /\ t \in DOMAIN tasks
  BY DEF Touches, Cycle!Reschedule, Cycle!BatchMove, Cycle!Complete, Cycle!Reopen,
     Cycle!Delete, Cycle!Present
<1>2. /\ RuleTyped' /\ events' \in 0..MaxEvents
      /\ UNCHANGED <<session, overlapped, passed, lost>>
  BY <1>1, ActTyped
<1>3. tasks[t] \in Cycle!TaskRow /\ day \in Cycle!Days
  BY <1>1 DEF CycleTyped, TasksTyped, RuleTyped
<1>4. PICK x \in Cycle!TaskRow : tasks' = [tasks EXCEPT ![t] = x]
  <2>1. ASSUME NEW d \in Cycle!DueDays, tasks' = [tasks EXCEPT ![t].due = d]
        PROVE  \E x \in Cycle!TaskRow : tasks' = [tasks EXCEPT ![t] = x]
    <3>1. [tasks[t] EXCEPT !.due = d] \in Cycle!TaskRow
      BY <1>3 DEF Cycle!TaskRow
    <3>2. tasks' = [tasks EXCEPT ![t] = [tasks[t] EXCEPT !.due = d]]
      BY <2>1
    <3>3. QED
      BY <3>1, <3>2
  <2>2. ASSUME NEW d \in Cycle!Days \cup {Cycle!NoDay}, tasks' = [tasks EXCEPT ![t].done = d]
        PROVE  \E x \in Cycle!TaskRow : tasks' = [tasks EXCEPT ![t] = x]
    <3>1. [tasks[t] EXCEPT !.done = d] \in Cycle!TaskRow
      BY <1>3 DEF Cycle!TaskRow
    <3>2. tasks' = [tasks EXCEPT ![t] = [tasks[t] EXCEPT !.done = d]]
      BY <2>2
    <3>3. QED
      BY <3>1, <3>2
  <2>3. ASSUME tasks' = [tasks EXCEPT ![t].gone = TRUE]
        PROVE  \E x \in Cycle!TaskRow : tasks' = [tasks EXCEPT ![t] = x]
    <3>1. [tasks[t] EXCEPT !.gone = TRUE] \in Cycle!TaskRow
      BY <1>3 DEF Cycle!TaskRow
    <3>2. tasks' = [tasks EXCEPT ![t] = [tasks[t] EXCEPT !.gone = TRUE]]
      BY <2>3
    <3>3. QED
      BY <3>1, <3>2
  <2>4. \/ \E d \in Cycle!DueDays : tasks' = [tasks EXCEPT ![t].due = d]
        \/ \E d \in Cycle!Days \cup {Cycle!NoDay} : tasks' = [tasks EXCEPT ![t].done = d]
        \/ tasks' = [tasks EXCEPT ![t].gone = TRUE]
    BY <1>3 DEF Touches, Cycle!Reschedule, Cycle!BatchMove, Cycle!Complete, Cycle!Reopen,
       Cycle!Delete
  <2>5. QED
    BY <2>1, <2>2, <2>3, <2>4
<1>5. /\ tasks' \in Seq(Cycle!TaskRow) /\ tasks'[t] = x
      /\ Len(tasks) <= Len(tasks') /\ Len(tasks') <= MaxTasks
      /\ DOMAIN tasks' = DOMAIN tasks /\ t \in Cycle!TaskIds
  BY <1>1, <1>4, RewriteTyped
<1>6. /\ moved' \in {moved, moved \cup {t}}
      /\ owed' \in {owed, [task |-> t, row |-> tasks'[t]]}
      /\ notice' = notice /\ checkpoint' = checkpoint
      /\ outbox' \in {outbox, Append(outbox, t)} /\ quiet' \in BOOLEAN
      /\ UNCHANGED <<weeks, items, twice>> \/ Cycle!Complete(t)
  BY DEF Touches, Cycle!Reschedule, Cycle!BatchMove, Cycle!Complete, Cycle!Reopen,
     Cycle!Delete, Cycle!Event
<1>7. TasksTyped' /\ SessionTyped'
  BY <1>1, <1>2, <1>5, <1>6, Grown
<1>8. NoticesTyped' /\ HistoryTyped'
  BY <1>2, <1>4, <1>5, <1>6 DEF CycleTyped, NoticesTyped, HistoryTyped
<1>9. /\ weeks' \subseteq Cycle!Weeks /\ items' \in Cycle!ItemRows
      /\ twice' \subseteq Cycle!Weeks \X Cycle!TaskIds
  <2>1. CASE UNCHANGED <<weeks, items, twice>>
    BY <2>1 DEF CycleTyped, ReportsTyped
  <2>2. CASE Cycle!Complete(t)
    <3> DEFINE w == Cycle!Week(day)
    <3>1. w \in Cycle!Weeks
      BY <1>3, WeekIsOne DEF Cycle!Days, Cycle!DueDays, Bounds
    <3>2. /\ weeks' = weeks \cup {w}
          /\ items' = [items EXCEPT ![w] = Cycle!Filled(tasks', w)]
          /\ twice' \subseteq twice
      BY <2>2 DEF Cycle!Complete
    <3>3. Cycle!Filled(tasks', w) \in [Cycle!TaskIds -> Cycle!Rows]
      BY FilledRows
    <3>4. QED
      BY <3>1, <3>2, <3>3 DEF CycleTyped, ReportsTyped, Cycle!ItemRows
  <2>3. QED
    BY <1>6, <2>1, <2>2
<1>10. ReportsTyped'
  <2>1. Len(outbox) \in Nat /\ outbox \in Seq(DOMAIN tasks)
    BY Lengths DEF CycleTyped, TasksTyped
  <2>2. Len(outbox') \in Nat /\ Len(outbox) <= Len(outbox')
    BY <1>6, <2>1
  <2>3. QED
    BY <1>6, <1>9, <2>1, <2>2 DEF CycleTyped, ReportsTyped
<1>11. QED
  BY <1>2, <1>7, <1>8, <1>10 DEF CycleTyped

LEMMA RebuildTyped ==
  ASSUME Bounds, CycleTyped, Cycle!Rebuild
  PROVE  CycleTyped'
<1> DEFINE lists == [t \in DOMAIN tasks |->
                       IF Cycle!Present(t) THEN Cycle!Dates(tasks[t]) ELSE <<>>]
           sync == Cycle!Sync(Cycle!AnchorWeeks(lists))
<1>1. Cycle!Act /\ UNCHANGED <<tasks, outbox, notice, owed, moved, quiet>>
  BY DEF Cycle!Rebuild
<1>r. /\ checkpoint' = [last |-> Len(outbox), backoff |-> FALSE]
      /\ weeks' = sync.known
      /\ twice' = Cycle!Doubled(items, items, sync)
      /\ items' = [w \in Cycle!Weeks |-> [t \in Cycle!TaskIds |->
                     sync.rows[w][t] \o sync.added[w][t]]]
  BY Zenon DEF Cycle!Rebuild
<1>2. /\ RuleTyped' /\ events' \in 0..MaxEvents
      /\ UNCHANGED <<session, overlapped, passed, lost>>
  BY <1>1, ActTyped
<1>3. lists \in Seq(Seq(Cycle!DueDays))
  <2>1. tasks \in Seq(Cycle!TaskRow) /\ DOMAIN tasks = 1..Len(tasks) /\ Len(tasks) \in Nat
    BY Lengths DEF CycleTyped, TasksTyped
  <2>2. \A t \in DOMAIN tasks : Cycle!Dates(tasks[t]) \in Seq(Cycle!DueDays)
    BY <2>1, DatesAre
  <2>3. <<>> \in Seq(Cycle!DueDays)
    OBVIOUS
  <2>4. QED
    BY <2>1, <2>2, <2>3
<1>4. Cycle!AnchorWeeks(lists) \in Seq(Cycle!Weeks)
  <2>1. day \in Cycle!Days
    BY DEF CycleTyped, RuleTyped
  <2> HIDE DEF lists
  <2>2. QED
    BY ONLY Bounds, <1>3, <2>1, AnchorsAre
<1>5. /\ sync \in SyncShape
      /\ [w \in Cycle!Weeks |-> [t \in Cycle!TaskIds |-> sync.rows[w][t] \o sync.added[w][t]]]
           \in Cycle!ItemRows
  <2>1. weeks \subseteq Cycle!Weeks
    BY DEF CycleTyped, ReportsTyped
  <2> HIDE DEF lists
  <2>2. QED
    BY ONLY Bounds, <1>4, <2>1, SyncIs
<1> HIDE DEF sync
<1>6. ReportsTyped'
  <2>1. Len(outbox) \in Nat
    BY Lengths DEF CycleTyped, TasksTyped
  <2>2. sync.known \subseteq Cycle!Weeks
    BY <1>5 DEF SyncShape
  <2>3. /\ items' \in Cycle!ItemRows /\ weeks' \subseteq Cycle!Weeks
        /\ twice' \subseteq Cycle!Weeks \X Cycle!TaskIds
    BY ONLY <1>r, <1>5, <2>2, DoubledWhere
  <2>4. outbox' = outbox /\ checkpoint' = [last |-> Len(outbox), backoff |-> FALSE]
    BY <1>1, <1>r
  <2>5. QED
    BY ONLY <2>1, <2>3, <2>4 DEF ReportsTyped
<1>7. HistoryTyped'
  BY <1>1, <1>2 DEF CycleTyped, HistoryTyped
<1>8. TasksTyped' /\ SessionTyped' /\ NoticesTyped'
  BY <1>1, <1>2, Frames, Zenon
<1>9. QED
  BY ONLY <1>2, <1>6, <1>7, <1>8, Zenon DEF CycleTyped

LEMMA RestTyped ==
  ASSUME Bounds, CycleTyped, Rest
  PROVE  CycleTyped'
<1>1. CASE Cycle!BackOff \/ Cycle!SkipProjection
  <2>1. UNCHANGED <<day, rule, tasks, outbox, checkpoint, weeks, items, twice, notice, session, owed,
                    overlapped, moved, passed, lost, quiet, events>>
    BY <1>1 DEF Cycle!BackOff, Cycle!SkipProjection, Cycle!database, Cycle!history
  <2>2. RuleTyped'
    BY <1>1, <2>1, CycleMoves DEF Cycle!BackOff, Cycle!SkipProjection
  <2>3. QED
    BY <2>1, <2>2, Frames DEF CycleTyped
<1>2. CASE Cycle!Flush \/ Cycle!ProjectFails
  <2>1. /\ UNCHANGED <<day, rule, tasks, outbox, checkpoint, weeks, items, twice, notice, owed,
                       overlapped, moved, passed, lost, quiet>>
        /\ session' \in {[session EXCEPT !.locked = TRUE], [session EXCEPT !.failed = TRUE]}
        /\ \/ events' = events
           \/ events < MaxEvents /\ events' = events + 1
    BY <1>2 DEF Cycle!Flush, Cycle!ProjectFails, Cycle!database, Cycle!history
  <2>2. RuleTyped'
    BY <1>2, <2>1, CycleMoves DEF Cycle!Flush, Cycle!ProjectFails
  <2>3. SessionTyped'
    BY <2>1 DEF CycleTyped, SessionTyped, SessionShape
  <2>4. HistoryTyped'
    BY <2>1 DEF CycleTyped, HistoryTyped, Bounds
  <2>5. QED
    BY <2>1, <2>2, <2>3, <2>4, Frames DEF CycleTyped
<1>3. CASE Cycle!ReconcileOwed
  <2>1. /\ UNCHANGED <<day, rule, run, tasks, outbox, checkpoint, weeks, items, twice, session,
                       overlapped, moved, passed, lost, quiet, events>>
        /\ owed # Nobody /\ owed' = Nobody
        /\ \/ notice' = notice
           \/ notice' = [notice EXCEPT ![owed.task] =
                           Cycle!Reconciled(@, Cycle!Desired(owed.row, day))]
    BY <1>3 DEF Cycle!ReconcileOwed, Cycle!history
  <2>2. owed.task \in Cycle!TaskIds /\ notice[owed.task] \in Cycle!NoticeRows
    BY <2>1 DEF CycleTyped, NoticesTyped
  <2>3. Cycle!Reconciled(notice[owed.task], Cycle!Desired(owed.row, day)) \in Cycle!NoticeRows
    BY <2>2, NoticesAre
  <2>4. NoticesTyped'
    BY <2>1, <2>2, <2>3 DEF CycleTyped, NoticesTyped
  <2>5. QED
    BY <2>1, <2>4, Frames DEF CycleTyped
<1>4. CASE Cycle!BackoffPasses
  <2>1. /\ UNCHANGED <<day, rule, run, tasks, outbox, weeks, items, twice, notice, session, owed,
                       overlapped, moved, passed, lost, quiet, events>>
        /\ checkpoint' = [checkpoint EXCEPT !.backoff = FALSE]
    BY <1>4 DEF Cycle!BackoffPasses, Cycle!history
  <2>2. ReportsTyped'
    BY <2>1 DEF CycleTyped, ReportsTyped
  <2>3. QED
    BY <2>1, <2>2, Frames DEF CycleTyped
<1>5. CASE Cycle!NextDay
  <2>1. /\ UNCHANGED <<rule, run, tasks, outbox, checkpoint, weeks, items, twice, notice, session,
                       owed, overlapped, moved, passed, lost, quiet, events>>
        /\ day < LastDay /\ day' = day + 1
    BY <1>5 DEF Cycle!NextDay, Cycle!database, Cycle!history
  <2>2. day' \in Cycle!Days
    BY <2>1 DEF CycleTyped, RuleTyped, Cycle!Days, Bounds
  <2>3. RuleTyped'
    BY <2>1, <2>2, TwoRunners DEF CycleTyped, RuleTyped
  <2>4. QED
    BY <2>1, <2>3, Frames DEF CycleTyped
<1>6. ASSUME NEW t \in Cycle!TaskIds, NEW k \in Cycle!Keys, Cycle!ReadNotice(t, k)
      PROVE  CycleTyped'
  <2>1. /\ Cycle!Act /\ UNCHANGED <<tasks, outbox, checkpoint, weeks, items, twice, owed, moved, quiet>>
        /\ notice' = [notice EXCEPT ![t][k] = "read"]
    BY <1>6 DEF Cycle!ReadNotice
  <2>2. /\ RuleTyped' /\ events' \in 0..MaxEvents
        /\ UNCHANGED <<session, overlapped, passed, lost>>
    BY <2>1, ActTyped
  <2>3. NoticesTyped'
    BY <2>1 DEF CycleTyped, NoticesTyped, Cycle!NoticeRows, Cycle!NoticeStates
  <2>4. HistoryTyped'
    BY <2>1, <2>2 DEF CycleTyped, HistoryTyped
  <2>5. QED
    BY <2>1, <2>2, <2>3, <2>4, Frames DEF CycleTyped
<1>7. QED
  BY <1>1, <1>2, <1>3, <1>4, <1>5, <1>6, ProjectTyped, ListTyped, RemindTyped, CommitTyped,
     RebuildTyped DEF Rest, Cycle!RunCycle

LEMMA CycleStepTyped ==
  ASSUME Bounds, CycleTyped, [Cycle!Next]_Cycle!vars
  PROVE  CycleTyped'
<1>1. ASSUME NEW r \in Runners, Cycle!Begin(r) \/ Rounds(r) \/ Cycle!Make(r) \/ Cycle!SaveRule(r)
      PROVE  CycleTyped'
  BY <1>1, BeginTyped, RoundTyped, MakeTyped, SaveTyped
<1>2. CASE Rest
  BY <1>2, RestTyped
<1>3. ASSUME NEW t \in Cycle!TaskIds, Touches(t) PROVE CycleTyped'
  BY <1>3, TouchTyped
<1>4. CASE Cycle!CycleFails
  <2>1. /\ Cycle!Dropped({Cycle!Scheduler}) /\ {Cycle!Scheduler} \in SUBSET Runners
        /\ UNCHANGED <<day, rule, tasks, outbox, checkpoint, weeks, items, twice, notice,
                       overlapped, moved, passed, quiet>>
        /\ events < MaxEvents /\ events' = events + 1 /\ owed' \in {owed, Nobody}
    BY <1>4, TwoRunners DEF Cycle!CycleFails, Cycle!database
  <2>2. QED
    BY ONLY Bounds, CycleTyped, <2>1, DropTyped
<1>5. CASE Cycle!Crash
  <2>1. /\ Cycle!Dropped(Runners) /\ Runners \in SUBSET Runners
        /\ UNCHANGED <<day, rule, tasks, outbox, checkpoint, weeks, items, twice, notice,
                       overlapped, moved, passed, quiet>>
        /\ events < MaxEvents /\ events' = events + 1 /\ owed' \in {owed, Nobody}
    BY <1>5 DEF Cycle!Crash, Cycle!database, Runners
  <2>2. QED
    BY ONLY Bounds, CycleTyped, <2>1, DropTyped
<1>6. CASE UNCHANGED Cycle!vars
  <2>1. UNCHANGED <<day, rule, run, tasks, outbox, checkpoint, weeks, items, twice, notice, session,
                    owed, overlapped, moved, passed, lost, quiet, events>>
    BY <1>6 DEF Cycle!vars, Cycle!database, Cycle!history
  <2>2. QED
    BY <2>1, Frames DEF CycleTyped
<1>7. QED
  BY <1>1, <1>2, <1>3, <1>4, <1>5, <1>6, CycleSteps

(* Every variable of the minute cycle keeps its type: events are of tasks     *)
(* there are, the session's lists, the checkpoint and the notices refer to    *)
(* those only, reports have rows of known sections, at most two of a task,    *)
(* and no copy of the rule counts beyond the limit, whichever runners, users, *)
(* failures and crashes interleave.                                           *)
THEOREM CycleTypeCorrect ==
  ASSUME Bounds
  PROVE  Cycle!Spec => []Cycle!TypeOK
<1>1. Cycle!Init => CycleTyped
  BY CycleInitTyped
<1>2. CycleTyped /\ [Cycle!Next]_Cycle!vars => CycleTyped'
  BY CycleStepTyped
<1>3. CycleTyped => Cycle!TypeOK
  BY CycleTypedIs
<1>4. QED
  BY <1>1, <1>2, <1>3, PTL DEF Cycle!Spec

=============================================================================
