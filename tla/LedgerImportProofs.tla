------------------------- MODULE LedgerImportProofs -------------------------
(***************************************************************************)
(* Proofs about imports, for any number of files, rows, records and         *)
(* overlapping requests.                                                    *)
(*                                                                          *)
(* A record's version tells which change of it can be undone: at most one,  *)
(* the one that left the record at the version it has (Tops).  Everything   *)
(* that happens to a record moves its version on, so what an undo puts back *)
(* is what was there before that one change.                                *)
(***************************************************************************)
EXTENDS LedgerImport, FiniteSetTheorems, WellFoundedInduction, TLAPS

\* What a request that waits has loaded and decided.
Requested(c) ==
  LET q == call[c]
  IN /\ q.op # "idle" => q.job \in Jobs
     /\ q.op = "commit" =>
          /\ q.seen.status \notin Ended /\ q.new.status = "committed"
          /\ \A r \in Rows : q.plan[r] \in Record \cup {Create, Skip}
     /\ q.op = "undo" =>
          /\ q.seen.status = "committed" /\ q.new.status = "undone"
          /\ \A d \in q.undoes :
               /\ d.job = q.job /\ d.active
               /\ d \in change \/ [d EXCEPT !.active = FALSE] \in change
          /\ q.job \notin stale =>
               job[q.job].status \in Ended /\ ActiveOf(q.job) \subseteq q.undoes

\* Changes are of records that are there and of jobs that have ended.
Filed(ch) ==
  /\ ch.entity \in Record
  /\ ch.job \in stale \/ job[ch.job].status \in Ended

Settled(j) == j \notin stale /\ job[j].status = "undone" => ActiveOf(j) = {}

Inv ==
  /\ TypeOK
  /\ \A c \in Clients : Requested(c)
  /\ \A ch \in change : Filed(ch)
  /\ \A j \in Jobs : Settled(j)
  /\ \A i \in Record : i[1] <= commits
  /\ RowsImportOnce

\* The changes of a record that left it at the version it has.
Tops(i) == {ch \in change : ch.entity = i /\ ch.after = record[i].version}

\* Whether an active change of the record, other than e, is of this job.
Holds(i, j, e) ==
  \E ch \in change : ch # e /\ ch.active /\ ch.entity = i /\ ch.job = j

\* What a record's changes tell: there is one at the top at most, which can be
\* undone; a person's text is in an active change, or in the record and then none is
\* at the top; the text of a job, and what is beneath the top, is a job's with an
\* active change.
Traced(i) ==
  /\ \A ch \in change : ch.entity = i => ch.after <= record[i].version
  /\ \A e, f \in Tops(i) : e = f
  /\ \A e \in Tops(i) : e.active /\ (e.created \/ e.before.live = record[i].live)

Carried(i) ==
  \/ record[i].said = Nobody
  \/ \E ch \in change : ch.entity = i /\ ch.active /\ ~ch.created
                        /\ ch.before.text = record[i].said
  \/ record[i].said = record[i].text /\ Tops(i) = {}

Owned(i) ==
  record[i].live /\ record[i].text[1] \in Jobs /\ record[i].said # record[i].text =>
    \E ch \in change : ch.active /\ ch.entity = i /\ ch.job = record[i].text[1]

Beneath(i) ==
  \A e \in Tops(i) :
    ~e.created /\ e.before.live /\ e.before.text[1] \in Jobs
    /\ e.before.text # record[i].said => Holds(i, e.before.text[1], e)

Known(i) == Traced(i) /\ Carried(i) /\ Owned(i) /\ Beneath(i)

RecordsKnown == \A i \in Record \ overrun : Known(i)

-----------------------------------------------------------------------------
(* Rows                                                                     *)

\* Rows have a first and a last one.
LEMMA Extremes ==
  ASSUME NEW n \in Nat, NEW S \in SUBSET (1..n), S # {}
  PROVE  /\ \E x \in S : \A y \in S : x <= y
         /\ \E x \in S : \A y \in S : y <= x
<1> DEFINE R == StrictSubsetOrdering(1..n)
           Below(x) == {y \in S : y < x}
           Above(x) == {y \in S : x < y}
<1>1. IsFiniteSet(1..n)
  BY FS_Interval
<1>2. IsWellFoundedOn(R, SUBSET (1..n))
  BY <1>1, FS_FiniteSubsetsOfFinite, FS_StrictSubsetOrderingWellFounded
<1>3. \A x \in S : x \in Int
  OBVIOUS
<1>4. \E x \in S : \A y \in S : x <= y
  <2>1. {Below(x) : x \in S} \subseteq SUBSET (1..n) /\ {Below(x) : x \in S} # {}
    OBVIOUS
  <2>2. PICK B \in {Below(x) : x \in S} : \A C \in {Below(x) : x \in S} : <<C, B>> \notin R
    BY ONLY <1>2, <2>1, WFMin
  <2>3. PICK x \in S : B = Below(x)
    OBVIOUS
  <2>4. ASSUME NEW y \in S, y < x PROVE FALSE
    <3>1. y \in Below(x)
      BY <2>4
    <3>2. y \notin Below(y)
      BY <1>3
    <3>3. Below(y) \subseteq Below(x)
      <4>1. x \in Int /\ y \in Int
        BY <1>3
      <4>2. ASSUME NEW z \in S, z < y PROVE z < x
        BY <1>3, <4>1, <4>2, <2>4
      <4> QED BY <4>2
    <3>4. <<Below(y), Below(x)>> \in R
      BY <3>1, <3>2, <3>3 DEF StrictSubsetOrdering
    <3> QED BY <2>2, <2>3, <3>4
  <2> QED BY <1>3, <2>4
<1>5. \E x \in S : \A y \in S : y <= x
  <2>1. {Above(x) : x \in S} \subseteq SUBSET (1..n) /\ {Above(x) : x \in S} # {}
    OBVIOUS
  <2>2. PICK B \in {Above(x) : x \in S} : \A C \in {Above(x) : x \in S} : <<C, B>> \notin R
    BY ONLY <1>2, <2>1, WFMin
  <2>3. PICK x \in S : B = Above(x)
    OBVIOUS
  <2>4. ASSUME NEW y \in S, x < y PROVE FALSE
    <3>1. y \in Above(x)
      BY <2>4
    <3>2. y \notin Above(y)
      BY <1>3
    <3>3. Above(y) \subseteq Above(x)
      <4>1. x \in Int /\ y \in Int
        BY <1>3
      <4>2. ASSUME NEW z \in S, y < z PROVE x < z
        BY <1>3, <4>1, <4>2, <2>4
      <4> QED BY <4>2
    <3>4. <<Above(y), Above(x)>> \in R
      BY <3>1, <3>2, <3>3 DEF StrictSubsetOrdering
    <3> QED BY <2>2, <2>3, <3>4
  <2> QED BY <1>3, <2>4
<1> QED BY <1>4, <1>5

(* LastOf is the greatest of some rows, and they can be counted. *)
LEMMA LastOfRows ==
  ASSUME NEW S \in SUBSET Rows, S # {}
  PROVE  /\ LastOf(S) \in S
         /\ \A q \in S : q <= LastOf(S)
<1>1. LastRow \in Nat
  BY BoundsAssumption
<1>2. \E r \in S : \A q \in S : q <= r
  BY <1>1, Extremes DEF Rows
<1> QED BY <1>2 DEF LastOf

LEMMA RowsCounted ==
  ASSUME NEW S \in SUBSET Rows
  PROVE  /\ IsFiniteSet(S)
         /\ Cardinality(S) \in Nat
         /\ S # {} => Cardinality(S) > 0
<1>1. IsFiniteSet(Rows)
  BY BoundsAssumption, FS_Interval DEF Rows
<1>2. IsFiniteSet(S)
  BY <1>1, FS_Subset
<1> QED BY <1>2, FS_CardinalityType, FS_EmptySet

-----------------------------------------------------------------------------
(* Types                                                                    *)

JobType == job \in [Jobs -> JobRow]
RecordType == Record \subseteq Ids /\ record \in [Record -> Records]
Calls == [op : {"idle", "save", "commit", "undo", "unstage"},
          job : Jobs \cup {Nobody}, seen : JobRow, new : JobRow,
          plan : Plans, undoes : SUBSET Changes]

LEMMA Constants ==
  /\ NoJob \in JobRow /\ Mapped \in JobRow /\ NoPlan \in Plans /\ Idle \in Calls
  /\ Create \notin Ids /\ Skip \notin Ids /\ Create # Skip
  /\ Rows \subseteq Nat \ {0}
  /\ \A j \in Jobs, r \in Rows : RowText(j, r) \in Texts
<1>1. NoJob \in JobRow /\ Mapped \in JobRow
  BY DEF NoJob, Mapped, JobRow, Ended
<1>2. Rows \subseteq Nat \ {0}
  BY BoundsAssumption DEF Rows
<1>3. Create \notin Ids /\ Skip \notin Ids /\ Create # Skip
  BY <1>2 DEF Create, Skip, Ids
<1>4. NoPlan \in Plans
  BY DEF NoPlan, Plans
<1>5. Idle \in Calls
  BY <1>1, <1>4 DEF Idle, Calls
<1>6. \A j \in Jobs, r \in Rows : RowText(j, r) \in Texts
  BY DEF RowText, Texts
<1> QED BY <1>1, <1>2, <1>3, <1>4, <1>5, <1>6

LEMMA BumpedTyped ==
  ASSUME NEW s \in JobRow, NEW m \in BOOLEAN,
         NEW t \in {"inspected", "mapped", "validated", "validation_failed"} \cup Ended
  PROVE  Bumped(s, t, m) \in JobRow /\ Bumped(s, t, m).status = t
BY DEF Bumped, JobRow

LEMMA WrittenTyped ==
  ASSUME JobType, NEW j \in Jobs, NEW s \in JobRow, NEW n \in JobRow
  PROVE  /\ Written(j, s, n) \in JobRow
         /\ n.status # s.status => Written(j, s, n).status = n.status
BY DEF JobType, Written, Kept, JobRow

LEMMA AskTyped ==
  ASSUME TypeOK, NEW c \in Clients, NEW j \in Jobs, NEW new \in JobRow,
         NEW op \in {"save", "commit", "undo"}, NEW plan \in Plans,
         NEW undoes \in SUBSET Changes, Ask(c, op, j, new, plan, undoes)
  PROVE  /\ call' \in [Clients -> Calls]
         /\ asked' \in 0..MaxRequests
BY BoundsAssumption DEF TypeOK, Ask, Calls

(* A plan names records that are there. *)
LEMMA PlanTyped ==
  ASSUME TypeOK, NEW j \in Jobs, NEW choice
  PROVE  /\ PlanOf(j, choice) \in Plans
         /\ \A r \in Rows : PlanOf(j, choice)[r] \in Record \cup {Create, Skip}
<1>1. ASSUME NEW M, Cardinality(M) = 1
      PROVE  (CHOOSE i \in M : TRUE) \in M
  BY <1>1, FS_EmptySet
<1>2. \A k : Matches(k) \subseteq Record
  BY DEF Matches
<1>3. \A r \in Rows : PlanOf(j, choice)[r] \in Record \cup {Create, Skip}
  BY <1>1, <1>2 DEF PlanOf
<1>4. PlanOf(j, choice) \in [Rows -> Record \cup {Create, Skip}]
  BY <1>3 DEF PlanOf
<1> QED BY <1>3, <1>4 DEF TypeOK, Plans

(* What the rows of a commit make of records, and the changes they leave. *)
LEMMA UpdatedTyped ==
  ASSUME TypeOK, NEW j \in Jobs, NEW p, NEW i \in Record
  PROVE  Updated(j, p, i) \in Records
<1> DEFINE U == Updating(p, i, LastRow)
<1>1. U \in SUBSET Rows
  BY DEF Updating, Rows
<1>2. record[i] \in Records
  BY DEF TypeOK
<1>3. ASSUME U # {} PROVE Updated(j, p, i) \in Records
  <2>1. RowText(j, LastOf(U)) \in Texts
    BY <1>1, <1>3, LastOfRows, Constants
  <2>2. record[i].version + Cardinality(U) \in Nat \ {0}
    BY <1>1, <1>2, RowsCounted DEF Records
  <2>3. Updated(j, p, i) = [record[i] EXCEPT !.text = RowText(j, LastOf(U)),
                                            !.version = @ + Cardinality(U)]
    BY <1>3 DEF Updated
  <2> QED BY <1>2, <2>1, <2>2, <2>3 DEF Records
<1> QED BY <1>2, <1>3 DEF Updated

LEMMA ChangeTyped ==
  ASSUME TypeOK, NEW j \in Jobs, NEW p, NEW r \in Rows, p[r] \in Record \cup {Create}
  PROVE  ChangeOf(j, p, r) \in Changes
<1>1. EntityOf(p, r) \in Ids
  BY DEF EntityOf, Ids, TypeOK
<1>2. RowText(j, r) \in Texts
  BY Constants
<1>3. CASE p[r] = Create
  BY <1>1, <1>2, <1>3 DEF ChangeOf, Changes
<1>4. CASE p[r] # Create
  <2>1. record[p[r]] \in Records
    BY <1>4 DEF TypeOK
  <2> DEFINE U == Updating(p, p[r], r - 1)
             W == Updating(p, p[r], r)
  <2>2. U \in SUBSET Rows /\ W \in SUBSET Rows
    BY BoundsAssumption DEF Updating, Rows
  <2>3. TextBefore(j, p, r) \in Texts
    <3>1. U # {} => RowText(j, LastOf(U)) \in Texts
      BY <2>2, LastOfRows, Constants
    <3> QED BY <2>1, <3>1 DEF TextBefore, Records
  <2>4. Before(j, p, r) \in [text : Texts, live : BOOLEAN]
    BY <2>1, <2>3 DEF Before, Records
  <2>5. record[p[r]].version + Cardinality(W) \in Nat
    BY <2>1, <2>2, RowsCounted DEF Records
  <2> QED BY <1>1, <1>4, <2>4, <2>5 DEF ChangeOf, Changes
<1> QED BY <1>3, <1>4

LEMMA RevertedTyped ==
  ASSUME TypeOK, NEW U \in SUBSET Changes, NEW i \in Record, \E ch \in U : ch.entity = i
  PROVE  Reverted(i, U) \in Records
<1> DEFINE ch == CHOOSE d \in U : d.entity = i
<1>1. ch \in Changes
  OBVIOUS
<1>2. record[i] \in Records
  BY DEF TypeOK
<1>3. ch.before.text \in Texts /\ ch.before.live \in BOOLEAN /\ ch.after \in Nat
  BY <1>1 DEF Changes
<1> HIDE DEF ch
<1> DEFINE inMemory == \A d \in U : ch.row <= d.row
           T == IF ch.created THEN record[i].text ELSE ch.before.text
           L == IF ch.created THEN FALSE
                ELSE IF inMemory THEN record[i].live ELSE ch.before.live
           V == (IF inMemory THEN ch.after ELSE record[i].version) + 1
<1>4. T \in Texts /\ L \in BOOLEAN /\ V \in Nat \ {0}
  <2> HIDE DEF inMemory
  <2>1. /\ record[i].text \in Texts /\ record[i].live \in BOOLEAN
        /\ record[i].version \in Nat
    BY <1>2 DEF Records
  <2>2. T \in Texts
    BY <1>3, <2>1
  <2>3. L \in BOOLEAN
    BY <1>3, <2>1, Zenon
  <2>4. V \in Nat \ {0}
    BY <1>3, <2>1
  <2> QED BY <2>2, <2>3, <2>4
<1>5. Reverted(i, U) = [record[i] EXCEPT !.text = T, !.live = L, !.version = V]
  BY DEF Reverted, ch
<1> HIDE DEF T, L, V
<1> QED BY <1>2, <1>4, <1>5 DEF Records

(* A request that is sent. *)
LEMMA RequestTypes ==
  ASSUME TypeOK, NEW c \in Clients, NEW j \in Jobs, Request(c, j)
  PROVE  TypeOK'
<1>1. job[j] \in JobRow /\ NoPlan \in Plans /\ {} \in SUBSET Changes
  BY Constants DEF TypeOK
<1>2. job[j].mapped \in BOOLEAN
  BY <1>1 DEF JobRow
<1>3. ASSUME call' \in [Clients -> Calls], asked' \in 0..MaxRequests,
             stage' \subseteq Jobs, upsets' \in 0..MaxUpsets, UNCHANGED <<job, Aside>>
      PROVE  TypeOK'
  BY <1>3 DEF TypeOK, Aside, Calls, Record
<1>4. CASE Expire(c, j)
  <2>1. [job[j] EXCEPT !.status = "expired"] \in JobRow
    BY <1>1 DEF JobRow
  <2>2. call' \in [Clients -> Calls] /\ asked' \in 0..MaxRequests
    BY <1>1, <1>4, <2>1, AskTyped DEF Expire, Save
  <2>3. stage' \subseteq Jobs /\ upsets' \in 0..MaxUpsets
    BY <1>4, BoundsAssumption DEF Expire, Upset, NoUpset, TypeOK
  <2> QED BY <1>3, <1>4, <2>2, <2>3 DEF Expire
<1>5. CASE Remap(c, j)
  <2>1. PICK m \in BOOLEAN :
          Save(c, j, Bumped(job[j], IF m THEN "mapped" ELSE "inspected", m))
    BY <1>5 DEF Remap
  <2>2. Bumped(job[j], IF m THEN "mapped" ELSE "inspected", m) \in JobRow
    BY <1>1, BumpedTyped
  <2>3. call' \in [Clients -> Calls] /\ asked' \in 0..MaxRequests
    BY <1>1, <2>1, <2>2, AskTyped DEF Save
  <2> QED BY <1>3, <1>5, <2>3 DEF Remap, TypeOK
<1>6. ASSUME NEW s \in {"validated", "validation_failed"},
             Save(c, j, Bumped(job[j], s, TRUE))
      PROVE  call' \in [Clients -> Calls] /\ asked' \in 0..MaxRequests
  <2>1. Bumped(job[j], s, TRUE) \in JobRow
    BY <1>1, BumpedTyped
  <2> QED BY <1>1, <1>6, <2>1, AskTyped DEF Save
<1>7. CASE Validate(c, j)
  <2>1. call' \in [Clients -> Calls] /\ asked' \in 0..MaxRequests
    BY <1>6, <1>7 DEF Validate
  <2> QED BY <1>3, <1>7, <2>1 DEF Validate, TypeOK
<1>8. CASE StartCommit(c, j)
  <2>1. ASSUME NEW choice, 
               Ask(c, "commit", j, Bumped(job[j], "committed", TRUE), PlanOf(j, choice), {})
        PROVE  call' \in [Clients -> Calls] /\ asked' \in 0..MaxRequests
    <3>1. Bumped(job[j], "committed", TRUE) \in JobRow
      BY <1>1, BumpedTyped DEF Ended
    <3>2. PlanOf(j, choice) \in Plans
      BY PlanTyped
    <3> QED BY <1>1, <2>1, <3>1, <3>2, AskTyped
  <2>2. call' \in [Clients -> Calls] /\ asked' \in 0..MaxRequests
    BY <1>6, <1>8, <2>1 DEF StartCommit
  <2> QED BY <1>3, <1>8, <2>2 DEF StartCommit, TypeOK
<1>9. CASE StartUndo(c, j)
  <2>1. Bumped(job[j], "undone", job[j].mapped) \in JobRow
    BY <1>1, <1>2, BumpedTyped DEF Ended
  <2>2. ActiveOf(j) \in SUBSET Changes
    BY DEF ActiveOf, TypeOK
  <2>3. call' \in [Clients -> Calls] /\ asked' \in 0..MaxRequests
    BY <1>1, <1>9, <2>1, <2>2, AskTyped DEF StartUndo
  <2> QED BY <1>3, <1>9, <2>3 DEF StartUndo, TypeOK
<1> QED BY <1>4, <1>5, <1>7, <1>8, <1>9 DEF Request

(* A request that ends. *)
LEMMA WrittenJobs ==
  ASSUME TypeOK, NEW c \in Clients, call[c].job \in Jobs,
         job' = [job EXCEPT ![call[c].job] =
                   Written(call[c].job, call[c].seen, call[c].new)]
  PROVE  JobType'
<1>1. call[c] \in Calls
  BY DEF TypeOK, Calls
<1>2. Written(call[c].job, call[c].seen, call[c].new) \in JobRow
  BY <1>1, WrittenTyped DEF Calls, TypeOK, JobType
<1> QED BY <1>2 DEF JobType, TypeOK

LEMMA FinishTypes ==
  ASSUME Inv, NEW c \in Clients, Finish(c)
  PROVE  TypeOK'
<1>1. TypeOK /\ Idle \in Calls /\ call[c] \in Calls /\ Requested(c)
  BY Constants DEF Inv, TypeOK, Calls
<1>2. [call EXCEPT ![c] = Idle] \in [Clients -> Calls]
  BY <1>1 DEF TypeOK, Calls
<1>3. Doubted(c) \subseteq {call[c].job}
  BY DEF Doubted
<1>4. CASE SaveJob(c)
  <2>1. call[c].job \in Jobs
    BY <1>1, <1>4 DEF SaveJob, Requested
  <2>2. JobType'
    BY <1>1, <1>4, <2>1, WrittenJobs DEF SaveJob
  <2>3. stale' \subseteq Jobs
    BY <1>1, <1>3, <1>4, <2>1 DEF SaveJob, TypeOK
  <2> QED BY <1>1, <1>2, <1>4, <2>2, <2>3 DEF SaveJob, TypeOK, JobType, Calls, Record
<1>5. CASE Commit(c)
  <2> DEFINE j == call[c].job
             p == call[c].plan
  <2>1. j \in Jobs /\ \A r \in Rows : p[r] \in Record \cup {Create, Skip}
    BY <1>1, <1>5 DEF Commit, Requested
  <2>2. JobType'
    BY <1>1, <1>5, <2>1, WrittenJobs DEF Commit
  <2>3. stale' \subseteq Jobs
    BY <1>1, <1>3, <1>5, <2>1 DEF Commit, TypeOK
  <2>4. Made(p) \subseteq Ids /\ \A i \in Made(p) : i[2] \in Rows
    BY <1>1 DEF Made, Creating, Ids, TypeOK
  <2>5. \A i \in Record : Updated(j, p, i) \in Records
    BY <1>1, <2>1, UpdatedTyped
  <2>6. \A r \in Rows : NewRecord(j, r) \in Records
    <3>1. \A r \in Rows : RowText(j, r) \in Texts /\ file[j][r] \in Keys
      BY <1>1, <2>1, Constants DEF TypeOK
    <3> QED BY <3>1 DEF NewRecord, Records
  <2>7. RecordType'
    <3>1. record' = [i \in Record \cup Made(p) |->
                       IF i \in Record THEN Updated(j, p, i) ELSE NewRecord(j, i[2])]
      BY <1>5 DEF Commit
    <3>2. Record' = Record \cup Made(p)
      BY <3>1 DEF Record
    <3>3. \A i \in Record' : record'[i] \in Records
      BY <2>4, <2>5, <2>6, <3>1, <3>2
    <3> QED BY <1>1, <2>4, <3>1, <3>2, <3>3 DEF RecordType, TypeOK
  <2>8. change' \subseteq Changes
    <3>1. \A r \in {q \in Rows : p[q] # Skip} : ChangeOf(j, p, r) \in Changes
      BY <1>1, <2>1, ChangeTyped
    <3> QED BY <1>1, <1>5, <3>1 DEF Commit, TypeOK
  <2>9. call' \in [Clients -> Calls]
    <3>1. [Idle EXCEPT !.op = "unstage", !.job = j] \in Calls
      BY <1>1, <2>1 DEF Calls
    <3> QED BY <1>1, <1>5, <3>1 DEF Commit, TypeOK, Calls
  <2>10. commits' \in Nat /\ overrun' \subseteq Record'
    BY <1>1, <1>5 DEF Commit, TypeOK, Record
  <2> QED BY <1>1, <1>5, <2>2, <2>3, <2>7, <2>8, <2>9, <2>10
          DEF Commit, TypeOK, JobType, RecordType, Calls
<1>6. CASE CommitFails(c)
  <2>1. upsets' \in 0..MaxUpsets
    BY <1>1, <1>6, BoundsAssumption DEF CommitFails, Upset, NoUpset, TypeOK
  <2> QED BY <1>1, <1>2, <1>6, <2>1 DEF CommitFails, TypeOK, Calls, Record, Aside
<1>7. CASE Unstage(c)
  <2>1. upsets' \in 0..MaxUpsets
    BY <1>1, <1>7, BoundsAssumption DEF Unstage, Upset, NoUpset, TypeOK
  <2>2. stage' \subseteq Jobs
    BY <1>1, <1>7 DEF Unstage, TypeOK
  <2> QED BY <1>1, <1>2, <1>7, <2>1, <2>2 DEF Unstage, TypeOK, Calls, Record, Aside
<1>8. CASE Undo(c)
  <2> DEFINE U == call[c].undoes
  <2>1. call[c].job \in Jobs /\ U \subseteq Changes
    BY <1>1, <1>8 DEF Undo, Requested, Calls
  <2>2. JobType'
    BY <1>1, <1>8, <2>1, WrittenJobs DEF Undo
  <2>3. stale' \subseteq Jobs
    BY <1>1, <1>3, <1>8, <2>1 DEF Undo, TypeOK
  <2>4. Record' = Record /\ RecordType'
    <3>1. record' = [i \in Record |->
                       IF \E ch \in U : ch.entity = i THEN Reverted(i, U) ELSE record[i]]
      BY <1>8 DEF Undo
    <3>2. Record' = Record
      BY <3>1 DEF Record
    <3>3. \A i \in Record : record'[i] \in Records
      BY <1>1, <2>1, <3>1, RevertedTyped DEF TypeOK
    <3> QED BY <1>1, <3>1, <3>2, <3>3 DEF RecordType, TypeOK
  <2>5. change' \subseteq Changes
    <3>1. \A d \in U : [d EXCEPT !.active = FALSE] \in Changes
      BY <2>1 DEF Changes
    <3> QED BY <1>1, <1>8, <3>1 DEF Undo, TypeOK
  <2>6. overrun' \subseteq Record
    <3>1. \A d \in U : d.entity \in Record
      <4>1. \A d \in U : d \in change \/ [d EXCEPT !.active = FALSE] \in change
        BY <1>1, <1>8 DEF Undo, Requested
      <4>2. \A d \in U : [d EXCEPT !.active = FALSE].entity = d.entity
        BY <2>1 DEF Changes
      <4> QED BY <4>1, <4>2 DEF Inv, Filed
    <3> QED BY <1>1, <1>8, <3>1 DEF Undo, TypeOK
  <2> QED BY <1>1, <1>2, <1>8, <2>2, <2>3, <2>4, <2>5, <2>6
          DEF Undo, TypeOK, JobType, RecordType, Calls
<1> QED BY <1>4, <1>5, <1>6, <1>7, <1>8 DEF Finish

(* What people do, and crashes. *)
LEMMA PersonTypes ==
  ASSUME TypeOK, NEW i \in Record, Edit(i) \/ Withdraw(i) \/ Reinstate(i)
  PROVE  TypeOK'
<1>1. record[i] \in Records
  BY DEF TypeOK
<1>2. upsets' \in 0..MaxUpsets /\ upsets + 1 \in 0..MaxUpsets
  BY BoundsAssumption DEF Edit, Withdraw, Reinstate, Person, Upset, TypeOK
<1>3. HumanText(upsets + 1) \in Texts
  BY <1>2 DEF HumanText, Texts
<1>4. \E new \in Records : Person(i, new)
  <2>1. /\ record[i].text \in Texts
        /\ record[i].version + 1 \in Nat \ {0}
    BY <1>1 DEF Records
  <2>2. [record[i] EXCEPT !.text = HumanText(upsets + 1), !.said = HumanText(upsets + 1),
                          !.version = @ + 1] \in Records
    BY <1>1, <1>3, <2>1 DEF Records
  <2>3. [record[i] EXCEPT !.live = FALSE, !.version = @ + 1] \in Records
    BY <1>1, <2>1 DEF Records
  <2>4. [record[i] EXCEPT !.live = TRUE, !.version = @ + 1,
                          !.said = record[i].text] \in Records
    BY <1>1, <2>1 DEF Records
  <2> QED BY <2>2, <2>3, <2>4 DEF Edit, Withdraw, Reinstate
<1>5. PICK new \in Records : Person(i, new)
  BY <1>4
<1>6. Record' = Record /\ RecordType'
  BY <1>5 DEF Person, RecordType, TypeOK, Record
<1> QED BY <1>2, <1>5, <1>6 DEF Person, TypeOK, RecordType

LEMMA OtherTypes ==
  ASSUME TypeOK
  PROVE  /\ \A j \in Jobs : Inspect(j) => TypeOK'
         /\ Crash => TypeOK'
<1>1. ASSUME NEW j \in Jobs, Inspect(j) PROVE TypeOK'
  <2>1. [status |-> "inspected", version |-> 1, mapped |-> FALSE] \in JobRow
    BY DEF JobRow
  <2> QED BY <1>1, <2>1 DEF Inspect, TypeOK, Record
<1>2. ASSUME Crash PROVE TypeOK'
  <2>1. call' \in [Clients -> Calls]
    BY <1>2, Constants DEF Crash
  <2>2. upsets' \in 0..MaxUpsets
    BY <1>2, BoundsAssumption DEF Crash, Upset, TypeOK
  <2> QED BY <1>2, <2>1, <2>2 DEF Crash, TypeOK, Calls, Aside, Record
<1> QED BY <1>1, <1>2

-----------------------------------------------------------------------------
(* Requests, jobs and changes                                               *)

(* A step that touches neither jobs nor changes. *)
LEMMA Quiet ==
  ASSUME Inv, TypeOK', UNCHANGED <<job, change, stale, commits>>, Record' = Record,
         \A c \in Clients : call'[c] = call[c] \/ Requested(c)'
  PROVE  Inv'
<1>1. \A c \in Clients : Requested(c)'
  BY DEF Inv, Requested, ActiveOf
<1>2. \A ch \in change' : Filed(ch)'
  BY DEF Inv, Filed
<1>3. \A j \in Jobs : Settled(j)'
  BY DEF Inv, Settled, ActiveOf
<1>4. RowsImportOnce' /\ \A i \in Record' : i[1] <= commits'
  BY DEF Inv, RowsImportOnce
<1> QED BY <1>1, <1>2, <1>3, <1>4 DEF Inv

LEMMA RequestInv ==
  ASSUME Inv, NEW c \in Clients, NEW j \in Jobs, Request(c, j)
  PROVE  Inv'
<1>1. TypeOK /\ TypeOK'
  BY RequestTypes DEF Inv
<1>2. UNCHANGED <<job, change, stale, commits, record>>
  BY DEF Request, Expire, Remap, Validate, StartCommit, StartUndo, Aside
<1>3. \A x \in Clients : x # c => call'[x] = call[x]
  BY <1>1 DEF Request, Expire, Remap, Validate, StartCommit, StartUndo, Save, Ask, TypeOK
<1>4. ASSUME NEW new, Save(c, j, new) PROVE Requested(c)'
  <2>1. call'[c].op = "save" /\ call'[c].job = j
    BY <1>1, <1>4 DEF Save, Ask, TypeOK
  <2> QED BY <2>1 DEF Requested
<1>5. ASSUME StartCommit(c, j) PROVE Requested(c)'
  <2>1. ASSUME NEW choice,
               Ask(c, "commit", j, Bumped(job[j], "committed", TRUE), PlanOf(j, choice), {})
        PROVE  Requested(c)'
    <3>1. /\ call'[c].op = "commit" /\ call'[c].job = j /\ call'[c].seen = job[j]
          /\ call'[c].new = Bumped(job[j], "committed", TRUE)
          /\ call'[c].plan = PlanOf(j, choice)
      BY <1>1, <2>1 DEF Ask, TypeOK
    <3>2. \A r \in Rows : PlanOf(j, choice)[r] \in Record \cup {Create, Skip}
      BY <1>1, PlanTyped
    <3>3. job[j].status \notin Ended /\ Bumped(job[j], "committed", TRUE).status = "committed"
      BY <1>5 DEF StartCommit, MayCommit, Bumped
    <3>4. Record' = Record
      BY <1>2 DEF Record
    <3> QED BY <3>1, <3>2, <3>3, <3>4 DEF Requested
  <2> QED BY <1>4, <1>5, <2>1 DEF StartCommit
<1>6. ASSUME StartUndo(c, j) PROVE Requested(c)'
  <2>1. /\ call'[c].op = "undo" /\ call'[c].job = j /\ call'[c].seen = job[j]
        /\ call'[c].new = Bumped(job[j], "undone", job[j].mapped)
        /\ call'[c].undoes = ActiveOf(j)
    BY <1>1, <1>6 DEF StartUndo, Ask, TypeOK
  <2>2. Bumped(job[j], "undone", job[j].mapped).status = "undone"
    BY DEF Bumped
  <2>3. job[j].status = "committed" /\ ActiveOf(j)' = ActiveOf(j)
    BY <1>2, <1>6 DEF StartUndo, ActiveOf
  <2>4. \A d \in ActiveOf(j) : d.job = j /\ d.active /\ d \in change
    BY DEF ActiveOf
  <2> QED BY <1>2, <2>1, <2>2, <2>3, <2>4 DEF Requested, Ended
<1>7. Requested(c)'
  BY <1>4, <1>5, <1>6 DEF Request, Expire, Remap, Validate
<1>8. Record' = Record
  BY <1>2 DEF Record
<1> QED BY <1>1, <1>2, <1>3, <1>7, <1>8, Quiet

(* A job that no change belongs to may be written in any way. *)
LEMMA JobInv ==
  ASSUME Inv, TypeOK', NEW j \in Jobs,
         UNCHANGED <<record, change, commits>>,
         stale \subseteq stale',
         \A k \in Jobs : k # j => job'[k] = job[k],
         j \in stale' \/ job[j].status \notin Ended,
         \A c \in Clients : call'[c] = call[c] \/ Requested(c)'
  PROVE  Inv'
<1>1. Record' = Record /\ \A k : ActiveOf(k)' = ActiveOf(k)
  BY DEF Record, ActiveOf
<1>2. \A c \in Clients : call[c].op = "undo" => call[c].job \in Jobs
  BY DEF Inv, Requested
<1>3. ASSUME NEW c \in Clients, call'[c] = call[c] PROVE Requested(c)'
  <2>1. Requested(c)
    BY DEF Inv
  <2>2. ASSUME call[c].op = "undo", call[c].job \notin stale'
        PROVE  job'[call[c].job].status \in Ended
    BY <1>2, <2>1, <2>2 DEF Requested
  <2> QED BY <1>1, <1>3, <2>1, <2>2 DEF Requested
<1>4. \A ch \in change' : Filed(ch)'
  <2>1. \A ch \in change : ch.job \in Jobs
    BY DEF Inv, TypeOK, Changes
  <2> QED BY <1>1, <2>1 DEF Inv, Filed
<1>5. \A k \in Jobs : Settled(k)'
  <2>1. j \notin stale' => ActiveOf(j) = {}
    BY DEF Inv, Filed, ActiveOf
  <2> QED BY <1>1, <2>1 DEF Inv, Settled
<1>6. RowsImportOnce' /\ \A i \in Record' : i[1] <= commits'
  BY <1>1 DEF Inv, RowsImportOnce
<1> QED BY <1>3, <1>4, <1>5, <1>6 DEF Inv

LEMMA SaveInv ==
  ASSUME Inv, NEW c \in Clients, SaveJob(c)
  PROVE  Inv'
<1> DEFINE j == call[c].job
<1>1. TypeOK' /\ j \in Jobs
  BY FinishTypes DEF Inv, Requested, SaveJob, Finish
<1>2. \A k \in Jobs : k # j => job'[k] = job[k]
  BY DEF SaveJob, Inv, TypeOK
<1>3. j \in stale' \/ job[j].status \notin Ended
  BY DEF SaveJob
<1>4. \A x \in Clients : call'[x] = call[x] \/ Requested(x)'
  <2>1. \A x \in Clients : call'[x] = IF x = c THEN Idle ELSE call[x]
    BY DEF SaveJob, Inv, TypeOK
  <2> QED BY <2>1 DEF Requested, Idle
<1> QED BY <1>1, <1>2, <1>3, <1>4, JobInv DEF SaveJob

LEMMA InspectInv ==
  ASSUME Inv, NEW j \in Jobs, Inspect(j)
  PROVE  Inv'
<1>1. TypeOK'
  BY OtherTypes DEF Inv
<1>2. job[j].status \notin Ended
  BY DEF Inspect, Ended
<1>3. \A k \in Jobs : k # j => job'[k] = job[k]
  BY DEF Inspect, Inv, TypeOK
<1> QED BY <1>1, <1>2, <1>3, JobInv DEF Inspect

LEMMA EndInv ==
  ASSUME Inv, NEW c \in Clients, CommitFails(c) \/ Unstage(c)
  PROVE  Inv'
<1>1. TypeOK'
  BY FinishTypes DEF Finish
<1>2. \A x \in Clients : call'[x] = IF x = c THEN Idle ELSE call[x]
  BY DEF CommitFails, Unstage, Inv, TypeOK
<1>3. \A x \in Clients : call'[x] = call[x] \/ Requested(x)'
  BY <1>2 DEF Requested, Idle
<1> QED BY <1>1, <1>3, Quiet DEF CommitFails, Unstage, Aside, Record

LEMMA CrashInv ==
  ASSUME Inv, Crash
  PROVE  Inv'
<1>1. TypeOK'
  BY OtherTypes DEF Inv
<1>2. \A x \in Clients : Requested(x)'
  BY DEF Crash, Requested, Idle
<1> QED BY <1>1, <1>2, Quiet DEF Crash, Aside, Record

LEMMA PersonInv ==
  ASSUME Inv, NEW i \in Record, Edit(i) \/ Withdraw(i) \/ Reinstate(i)
  PROVE  Inv'
<1>1. TypeOK'
  BY PersonTypes DEF Inv
<1>2. Record' = Record
  BY DEF Edit, Withdraw, Reinstate, Person, Inv, TypeOK, Record
<1>3. UNCHANGED <<job, change, stale, commits, call>>
  BY DEF Edit, Withdraw, Reinstate, Person
<1> QED BY <1>1, <1>2, <1>3, Quiet

-----------------------------------------------------------------------------
(* Commits and undos                                                        *)

(* What a commit of another state of the job than it has, or of its state, leaves. *)
LEMMA CommitChanges ==
  ASSUME Inv, NEW c \in Clients, Commit(c)
  PROVE  LET j == call[c].job
             p == call[c].plan
         IN /\ j \in Jobs
            /\ j \notin stale' => job[j].status \notin Ended /\ ActiveOf(j) = {}
            /\ job'[j].status = "committed"
            /\ \A k \in Jobs : k # j => job'[k] = job[k]
            /\ Record' = Record \cup Made(p)
            /\ \A r \in Rows : p[r] # Skip => EntityOf(p, r) \in Record'
            /\ \A ch \in change' \ change :
                 \E r \in Rows : p[r] # Skip /\ ch = ChangeOf(j, p, r)
<1> DEFINE j == call[c].job
           p == call[c].plan
<1>1. /\ j \in Jobs /\ call[c].seen.status \notin Ended
      /\ call[c].new.status = "committed"
      /\ \A r \in Rows : p[r] \in Record \cup {Create, Skip}
  BY DEF Commit, Inv, Requested
<1>2. call[c].seen \in JobRow /\ call[c].new \in JobRow
  BY DEF Inv, TypeOK
<1>3. job'[j] = Written(j, call[c].seen, call[c].new) /\ JobType
  BY <1>1 DEF Commit, Inv, TypeOK, JobType
<1>4. job'[j].status = "committed"
  BY <1>1, <1>2, <1>3, WrittenTyped DEF Ended
<1>5. j \notin stale' => job[j] = call[c].seen /\ j \notin stale
  BY DEF Commit, Doubted
<1>6. j \notin stale' => job[j].status \notin Ended /\ ActiveOf(j) = {}
  BY <1>1, <1>5 DEF Inv, Filed, ActiveOf
<1>7. \A k \in Jobs : k # j => job'[k] = job[k]
  BY DEF Commit, Inv, TypeOK
<1>8. Record' = Record \cup Made(p)
  BY DEF Commit, Record
<1>9. \A r \in Rows : p[r] # Skip => EntityOf(p, r) \in Record'
  BY <1>1, <1>8 DEF EntityOf, Made, Creating
<1>10. \A ch \in change' \ change :
         \E r \in Rows : p[r] # Skip /\ ch = ChangeOf(j, p, r)
  BY DEF Commit
<1> QED BY <1>1, <1>4, <1>6, <1>7, <1>8, <1>9, <1>10

LEMMA CommitInv ==
  ASSUME Inv, NEW c \in Clients, Commit(c)
  PROVE  Inv'
<1> DEFINE j == call[c].job
           p == call[c].plan
<1>1. TypeOK'
  BY FinishTypes DEF Finish
<1>2. /\ j \in Jobs
      /\ j \notin stale' => job[j].status \notin Ended /\ ActiveOf(j) = {}
      /\ job'[j].status = "committed"
      /\ \A k \in Jobs : k # j => job'[k] = job[k]
      /\ Record' = Record \cup Made(p)
      /\ \A r \in Rows : p[r] # Skip => EntityOf(p, r) \in Record'
      /\ \A ch \in change' \ change :
           \E r \in Rows : p[r] # Skip /\ ch = ChangeOf(j, p, r)
  BY CommitChanges
<1>3. change \subseteq change' /\ stale \subseteq stale'
  BY DEF Commit
<1>4. \A r \in Rows :
        /\ ChangeOf(j, p, r).job = j /\ ChangeOf(j, p, r).row = r
        /\ ChangeOf(j, p, r).entity = EntityOf(p, r)
  BY DEF ChangeOf
<1>5. \A k \in Jobs : k # j => ActiveOf(k)' = ActiveOf(k)
  BY <1>2, <1>3, <1>4 DEF ActiveOf
<1>6. ASSUME NEW x \in Clients PROVE Requested(x)'
  <2>1. CASE x = c
    <3>1. call'[c].op = "unstage" /\ call'[c].job = j
      BY DEF Commit, Inv, TypeOK, Idle
    <3> QED BY <1>2, <2>1, <3>1 DEF Requested
  <2>2. CASE x # c
    <3>1. call'[x] = call[x] /\ Requested(x)
      BY <2>2 DEF Commit, Inv, TypeOK
    <3>2. ASSUME call[x].op = "undo", call[x].job \notin stale'
          PROVE  /\ job'[call[x].job].status \in Ended
                 /\ ActiveOf(call[x].job)' \subseteq call[x].undoes
      <4>1. /\ call[x].job \in Jobs /\ job[call[x].job].status \in Ended
            /\ ActiveOf(call[x].job) \subseteq call[x].undoes
        BY <1>3, <3>1, <3>2 DEF Requested
      <4>2. call[x].job # j
        BY <1>2, <3>2, <4>1
      <4> QED BY <1>2, <1>5, <3>1, <4>1, <4>2
    <3>3. call[x].op = "commit" =>
            \A r \in Rows : call[x].plan[r] \in Record' \cup {Create, Skip}
      BY <1>2, <3>1 DEF Requested
    <3>4. call[x].op = "undo" =>
            \A d \in call[x].undoes :
              /\ d.job = call[x].job /\ d.active
              /\ d \in change' \/ [d EXCEPT !.active = FALSE] \in change'
      BY <1>3, <3>1 DEF Requested
    <3> QED BY <3>1, <3>2, <3>3, <3>4 DEF Requested
  <2> QED BY <2>1, <2>2
<1>7. ASSUME NEW ch \in change' PROVE Filed(ch)'
  <2>1. CASE ch \in change
    <3>1. Filed(ch) /\ ch.job \in Jobs
      BY <2>1 DEF Inv, TypeOK, Changes
    <3> QED BY <1>2, <1>3, <3>1 DEF Filed, Ended
  <2>2. CASE ch \notin change
    BY <1>2, <1>4, <2>2 DEF Filed, Ended
  <2> QED BY <2>1, <2>2
<1>8. ASSUME NEW k \in Jobs PROVE Settled(k)'
  BY <1>2, <1>3, <1>5 DEF Inv, Settled
<1>9. \A i \in Record' : i[1] <= commits'
  <2>1. commits' = commits + 1 /\ commits \in Nat
    BY DEF Commit, Inv, TypeOK
  <2>2. \A i \in Record : i[1] <= commits /\ i[1] \in Nat
    BY DEF Inv, TypeOK, Ids
  <2> QED BY <1>2, <2>1, <2>2 DEF Made
<1>10. RowsImportOnce'
  <2>1. SUFFICES ASSUME NEW one \in change', NEW two \in change',
                        one.created, two.created, one.job = two.job,
                        one.row = two.row, one.job \notin stale'
                 PROVE  one.entity = two.entity
    BY DEF RowsImportOnce
  <2>2. CASE one.job = j
    <3>1. \A ch \in change : ch.job # j
      BY <1>2, <1>3, <2>1, <2>2 DEF Inv, Filed
    <3>2. PICK r \in Rows : one = ChangeOf(j, p, r)
      BY <1>2, <2>2, <3>1
    <3>3. PICK q \in Rows : two = ChangeOf(j, p, q)
      BY <1>2, <2>1, <2>2, <3>1
    <3> QED BY <1>4, <2>1, <3>2, <3>3
  <2>3. CASE one.job # j
    BY <1>2, <1>3, <1>4, <2>1, <2>3 DEF Inv, RowsImportOnce
  <2> QED BY <2>2, <2>3
<1> QED BY <1>1, <1>6, <1>7, <1>8, <1>9, <1>10 DEF Inv

(* The change that one is after an undo, and is called. *)
Off(d) == [d EXCEPT !.active = FALSE]

LEMMA OffKeeps ==
  ASSUME NEW d \in Changes
  PROVE  /\ Off(d) \in Changes /\ ~Off(d).active
         /\ Off(d).job = d.job /\ Off(d).row = d.row /\ Off(d).entity = d.entity
         /\ Off(d).created = d.created /\ Off(d).after = d.after
         /\ Off(d).before = d.before
BY DEF Off, Changes

(* What an undo leaves of the job and of the changes. *)
LEMMA UndoChanges ==
  ASSUME Inv, NEW c \in Clients, Undo(c)
  PROVE  LET j == call[c].job
             U == call[c].undoes
         IN /\ j \in Jobs /\ U \subseteq Changes
            /\ \A d \in U : d.job = j /\ d.active /\ (d \in change \/ Off(d) \in change)
            /\ job'[j].status = "undone"
            /\ \A k \in Jobs : k # j => job'[k] = job[k]
            /\ change' = (change \ U) \cup {Off(d) : d \in U}
            /\ Record' = Record
            /\ j \notin stale' => ActiveOf(j) \subseteq U
<1> DEFINE j == call[c].job
           U == call[c].undoes
<1>1. /\ Requested(c) /\ call[c].op = "undo"
      /\ call[c].seen \in JobRow /\ call[c].new \in JobRow /\ U \subseteq Changes
  BY DEF Undo, Inv, TypeOK
<1>2. /\ j \in Jobs /\ call[c].seen.status = "committed" /\ call[c].new.status = "undone"
      /\ \A d \in U : d.job = j /\ d.active /\ (d \in change \/ Off(d) \in change)
      /\ j \notin stale => ActiveOf(j) \subseteq U
  BY <1>1 DEF Requested, Off
<1>3. job'[j] = Written(j, call[c].seen, call[c].new) /\ JobType
  BY <1>2 DEF Undo, Inv, TypeOK, JobType
<1>4. job'[j].status = "undone"
  BY <1>1, <1>2, <1>3, WrittenTyped
<1>5. \A k \in Jobs : k # j => job'[k] = job[k]
  BY DEF Undo, Inv, TypeOK
<1>6. change' = (change \ U) \cup {Off(d) : d \in U}
  BY DEF Undo, Off
<1>7. Record' = Record
  BY DEF Undo, Record
<1>8. stale \subseteq stale'
  BY DEF Undo
<1> QED BY <1>1, <1>2, <1>4, <1>5, <1>6, <1>7, <1>8

(* Every change after an undo is one that was there, perhaps reverted. *)
LEMMA UndoneFrom ==
  ASSUME Inv, NEW c \in Clients, Undo(c), NEW ch \in change'
  PROVE  \E old \in change :
           /\ ch = old \/ ch = Off(old)
           /\ ch.active => ch = old
<1> DEFINE U == call[c].undoes
<1>1. /\ U \subseteq Changes /\ change \subseteq Changes
      /\ \A d \in U : d \in change \/ Off(d) \in change
      /\ change' = (change \ U) \cup {Off(d) : d \in U}
  BY UndoChanges DEF Inv, TypeOK
<1>2. \A d \in Changes : Off(Off(d)) = Off(d) /\ ~Off(d).active
  BY DEF Off, Changes
<1> QED BY <1>1, <1>2

LEMMA UndoInv ==
  ASSUME Inv, NEW c \in Clients, Undo(c)
  PROVE  Inv'
<1> DEFINE j == call[c].job
           U == call[c].undoes
<1>1. TypeOK' /\ change \subseteq Changes /\ change' \subseteq Changes
  BY FinishTypes DEF Finish, Inv, TypeOK
<1>2. /\ j \in Jobs /\ U \subseteq Changes
      /\ \A d \in U : d.job = j /\ d.active /\ (d \in change \/ Off(d) \in change)
      /\ job'[j].status = "undone"
      /\ \A k \in Jobs : k # j => job'[k] = job[k]
      /\ change' = (change \ U) \cup {Off(d) : d \in U}
      /\ Record' = Record
      /\ j \notin stale' => ActiveOf(j) \subseteq U
  BY UndoChanges
<1>3. stale \subseteq stale'
  BY DEF Undo
<1>4. \A k : ActiveOf(k)' \subseteq ActiveOf(k) \ U
  BY <1>2, OffKeeps DEF ActiveOf
<1>5. ASSUME NEW x \in Clients PROVE Requested(x)'
  <2>1. CASE x = c
    <3>1. call'[c] = Idle
      BY DEF Undo, Inv, TypeOK
    <3> QED BY <2>1, <3>1 DEF Requested, Idle
  <2>2. CASE x # c
    <3>1. call'[x] = call[x] /\ Requested(x) /\ call[x].undoes \subseteq Changes
      BY <2>2 DEF Undo, Inv, TypeOK
    <3>2. ASSUME NEW d \in Changes, d.active, d \in change \/ Off(d) \in change
          PROVE  d \in change' \/ Off(d) \in change'
      <4>1. Off(d) \notin U
        BY <1>2, OffKeeps
      <4> QED BY <1>2, <3>2, <4>1
    <3>3. call[x].op = "undo" => call[x].job \in Jobs
      BY <3>1 DEF Requested
    <3>4. ASSUME call[x].op = "undo", call[x].job \notin stale'
          PROVE  /\ job'[call[x].job].status \in Ended
                 /\ ActiveOf(call[x].job)' \subseteq call[x].undoes
      BY <1>2, <1>3, <1>4, <3>1, <3>3, <3>4 DEF Requested, Ended
    <3>5. call[x].op = "undo" =>
            \A d \in call[x].undoes :
              d.job = call[x].job /\ d.active /\ (d \in change' \/ Off(d) \in change')
      BY <3>1, <3>2 DEF Requested, Off
    <3>6. /\ call[x].op # "idle" => call[x].job \in Jobs
          /\ call[x].op = "commit" =>
               /\ call[x].seen.status \notin Ended
               /\ call[x].new.status = "committed"
               /\ \A r \in Rows : call[x].plan[r] \in Record' \cup {Create, Skip}
          /\ call[x].op = "undo" =>
               call[x].seen.status = "committed" /\ call[x].new.status = "undone"
      BY <1>2, <3>1 DEF Requested
    <3> QED BY ONLY <3>1, <3>4, <3>5, <3>6 DEF Requested, Off
  <2> QED BY <2>1, <2>2
<1>6. ASSUME NEW ch \in change' PROVE Filed(ch)'
  <2>1. PICK old \in change : ch = old \/ ch = Off(old)
    BY UndoneFrom
  <2>2. Filed(old) /\ ch.job = old.job /\ ch.entity = old.entity /\ old.job \in Jobs
    BY <1>1, <2>1, OffKeeps DEF Inv, Changes
  <2> QED BY <1>2, <1>3, <2>2 DEF Filed, Ended
<1>7. ASSUME NEW k \in Jobs PROVE Settled(k)'
  BY <1>2, <1>3, <1>4 DEF Inv, Settled
<1>8. \A i \in Record' : i[1] <= commits'
  BY <1>2 DEF Undo, Inv
<1>9. RowsImportOnce'
  <2>1. SUFFICES ASSUME NEW one \in change', NEW two \in change',
                        one.created, two.created, one.job = two.job,
                        one.row = two.row, one.job \notin stale'
                 PROVE  one.entity = two.entity
    BY DEF RowsImportOnce
  <2>2. PICK a \in change : one = a \/ one = Off(a)
    BY UndoneFrom
  <2>3. PICK b \in change : two = b \/ two = Off(b)
    BY UndoneFrom
  <2>4. /\ a.created = one.created /\ a.job = one.job /\ a.row = one.row
        /\ a.entity = one.entity
        /\ b.created = two.created /\ b.job = two.job /\ b.row = two.row
        /\ b.entity = two.entity
    BY <1>1, <2>2, <2>3, OffKeeps
  <2> QED BY <1>3, <2>1, <2>4 DEF Inv, RowsImportOnce
<1> QED BY <1>1, <1>5, <1>6, <1>7, <1>8, <1>9 DEF Inv

-----------------------------------------------------------------------------
(* Records and their changes                                                *)

LEMMA KnownSame ==
  ASSUME NEW i \in Record, Known(i), record'[i] = record[i],
         \A ch : ch.entity = i => (ch \in change' <=> ch \in change)
  PROVE  Known(i)'
<1>1. Tops(i)' = Tops(i)
  BY DEF Tops
<1>2. Traced(i)' /\ Carried(i)' /\ Owned(i)'
  BY <1>1 DEF Known, Traced, Carried, Owned
<1>3. Beneath(i)'
  BY <1>1 DEF Known, Beneath, Holds
<1> QED BY <1>2, <1>3 DEF Known

(* A person's step moves the version on, so that no change is at the top. *)
LEMMA PersonKnown ==
  ASSUME Inv, RecordsKnown, NEW i \in Record, Edit(i) \/ Withdraw(i) \/ Reinstate(i)
  PROVE  RecordsKnown'
<1>1. /\ record[i] \in Records /\ record[i].version \in Nat
      /\ \A ch \in change : ch.after \in Nat
  BY DEF Inv, TypeOK, Records, Changes
<1>2. /\ change' = change /\ overrun' = overrun /\ Record' = Record
      /\ \A k \in Record : k # i => record'[k] = record[k]
      /\ record'[i].version = record[i].version + 1
      /\ \/ record'[i].said = record'[i].text
         \/ /\ ~record'[i].live
            /\ record'[i].said = record[i].said /\ record'[i].text = record[i].text
  <2>1. record \in [Record -> Records]
    BY DEF Inv, TypeOK
  <2> DEFINE edited == [record[i] EXCEPT !.text = HumanText(upsets + 1),
                                         !.said = HumanText(upsets + 1), !.version = @ + 1]
             withdrawn == [record[i] EXCEPT !.live = FALSE, !.version = @ + 1]
             reinstated == [record[i] EXCEPT !.live = TRUE, !.version = @ + 1,
                                             !.said = record[i].text]
  <2>2. PICK new \in {edited, withdrawn, reinstated} : Person(i, new)
    BY DEF Edit, Withdraw, Reinstate
  <2>3. new.version = record[i].version + 1
    BY <1>1, <2>2 DEF Records
  <2>4. \/ new.said = new.text
        \/ ~new.live /\ new.said = record[i].said /\ new.text = record[i].text
    <3>1. edited.said = edited.text /\ reinstated.said = reinstated.text
      BY <1>1 DEF Records
    <3>2. ~withdrawn.live /\ withdrawn.said = record[i].said /\ withdrawn.text = record[i].text
      BY <1>1 DEF Records
    <3> QED BY <2>2, <3>1, <3>2
  <2>5. record' = [record EXCEPT ![i] = new] /\ change' = change /\ overrun' = overrun
    BY <2>2 DEF Person
  <2> HIDE DEF edited, withdrawn, reinstated
  <2> QED BY <2>1, <2>3, <2>4, <2>5 DEF Record
<1>3. ASSUME NEW k \in Record \ overrun, k # i PROVE Known(k)'
  BY <1>2, <1>3, KnownSame DEF RecordsKnown
<1>4. ASSUME i \notin overrun PROVE Known(i)'
  <2>1. Known(i)
    BY <1>4 DEF RecordsKnown
  <2>2. \A ch \in change : ch.entity = i => ch.after <= record[i].version
    BY <2>1 DEF Known, Traced
  <2>3. \A ch \in change : ch.entity = i => ch.after < record'[i].version
    BY <1>1, <1>2, <2>2
  <2>4. Tops(i)' = {}
    BY <1>1, <1>2, <2>3 DEF Tops
  <2>5. Traced(i)' /\ Beneath(i)'
    BY <1>1, <1>2, <2>3, <2>4 DEF Traced, Beneath
  <2>6. Carried(i)' /\ Owned(i)'
    BY <1>2, <2>1, <2>4 DEF Known, Carried, Owned
  <2> QED BY <2>5, <2>6 DEF Known
<1> QED BY <1>2, <1>3, <1>4 DEF RecordsKnown

(* What a commit leaves of a record that was there. *)
LEMMA CommitOn ==
  ASSUME Inv, NEW c \in Clients, Commit(c), NEW i \in Record
  PROVE  LET j == call[c].job
             p == call[c].plan
             U == Updating(p, i, LastRow)
         IN /\ U \in SUBSET Rows
            /\ record'[i] = Updated(j, p, i)
            /\ change \subseteq change'
            /\ \A ch \in change' : ch.entity = i =>
                 ch \in change \/ \E r \in U : ch = ChangeOf(j, p, r)
            /\ \A r \in U :
                 /\ p[r] = i /\ ChangeOf(j, p, r) \in change'
                 /\ ChangeOf(j, p, r).job = j /\ ChangeOf(j, p, r).row = r
                 /\ ChangeOf(j, p, r).entity = i /\ ChangeOf(j, p, r).active
                 /\ ~ChangeOf(j, p, r).created
                 /\ ChangeOf(j, p, r).before = Before(j, p, r)
                 /\ ChangeOf(j, p, r).after =
                      record[i].version + Cardinality(Updating(p, i, r))
<1> DEFINE j == call[c].job
           p == call[c].plan
           U == Updating(p, i, LastRow)
<1>1. U \in SUBSET Rows /\ \A r \in Rows : p[r] = i => r \in U
  BY DEF Updating, Rows
<1>2. record'[i] = Updated(j, p, i) /\ change \subseteq change'
  BY DEF Commit
<1>3. i \in Ids /\ i[1] <= commits /\ commits \in Nat /\ i # Create /\ i # Skip
  BY Constants DEF Inv, TypeOK
<1>4. \A r \in Rows : EntityOf(p, r) = i => p[r] = i
  <2>1. \A r \in Rows : <<commits + 1, r>> # i
    BY <1>3 DEF Ids
  <2> QED BY <2>1 DEF EntityOf
<1>5. \A r \in Rows : ChangeOf(j, p, r).entity = EntityOf(p, r)
  BY DEF ChangeOf
<1>6. change' = change \cup {ChangeOf(j, p, r) : r \in {q \in Rows : p[q] # Skip}}
  BY DEF Commit
<1>7. \A ch \in change' : ch.entity = i =>
        ch \in change \/ \E r \in U : ch = ChangeOf(j, p, r)
  BY <1>1, <1>4, <1>5, <1>6
<1>8. \A r \in U : p[r] = i
  BY DEF Updating
<1>9. \A r \in U : ChangeOf(j, p, r) \in change'
  BY <1>1, <1>3, <1>6, <1>8
<1>10. \A r \in U :
         /\ ChangeOf(j, p, r).job = j /\ ChangeOf(j, p, r).row = r
         /\ ChangeOf(j, p, r).entity = i /\ ChangeOf(j, p, r).active
         /\ ~ChangeOf(j, p, r).created
         /\ ChangeOf(j, p, r).before = Before(j, p, r)
         /\ ChangeOf(j, p, r).after = record[i].version + Cardinality(Updating(p, i, r))
  BY <1>3, <1>8 DEF ChangeOf, EntityOf
<1> QED BY <1>1, <1>2, <1>7, <1>8, <1>9, <1>10

LEMMA CommitUpdates ==
  ASSUME Inv, NEW c \in Clients, Commit(c), NEW i \in Record, Known(i),
         Updating(call[c].plan, i, LastRow) # {}
  PROVE  Known(i)'
<1> DEFINE j == call[c].job
           p == call[c].plan
           U == Updating(p, i, LastRow)
           v == record[i].version
           C(r) == ChangeOf(j, p, r)
           l == LastOf(U)
<1> HIDE DEF C
<1>1. /\ U \in SUBSET Rows
      /\ record'[i] = Updated(j, p, i)
      /\ change \subseteq change'
      /\ \A ch \in change' : ch.entity = i => ch \in change \/ \E r \in U : ch = C(r)
  BY CommitOn DEF C
<1>2. \A r \in U :
        /\ p[r] = i /\ C(r) \in change'
        /\ C(r).job = j /\ C(r).row = r /\ C(r).entity = i /\ C(r).active
        /\ ~C(r).created /\ C(r).before = Before(j, p, r)
        /\ C(r).after = v + Cardinality(Updating(p, i, r))
  BY CommitOn DEF C
<1>3. /\ record[i] \in Records /\ v \in Nat /\ \A ch \in change : ch.after \in Nat
      /\ j \in Jobs
  BY CommitChanges DEF Inv, TypeOK, Records, Changes
<1>4. l \in U /\ (\A q \in U : q <= l) /\ U \subseteq Int /\ l \in Rows
  BY <1>1, LastOfRows DEF Rows
<1>5. Cardinality(U) \in Nat /\ Cardinality(U) > 0
  BY <1>1, RowsCounted
<1>6. \A r \in U : Updating(p, i, r) \subseteq U
  BY <1>1, BoundsAssumption DEF Updating, Rows
<1>7. ASSUME NEW r \in U
      PROVE  /\ Cardinality(Updating(p, i, r)) \in Nat
             /\ Cardinality(Updating(p, i, r)) <= Cardinality(U)
             /\ Cardinality(Updating(p, i, r)) = Cardinality(U) => r = l
  <2>1. IsFiniteSet(U) /\ Updating(p, i, r) \in SUBSET U
    BY <1>1, <1>6, RowsCounted
  <2>2. /\ Cardinality(Updating(p, i, r)) \in Nat
        /\ Cardinality(Updating(p, i, r)) <= Cardinality(U)
        /\ Cardinality(Updating(p, i, r)) = Cardinality(U) => Updating(p, i, r) = U
    BY <1>1, <2>1, FS_Subset, RowsCounted
  <2>3. ASSUME Updating(p, i, r) = U PROVE l <= r
    <3>1. \A q \in Updating(p, i, r) : q <= r
      BY ONLY DEF Updating
    <3> HIDE DEF U, l
    <3> QED BY ONLY <1>4, <2>3, <3>1
  <2> QED BY <1>4, <2>2, <2>3
<1>8. Updating(p, i, l) = U
  <2>1. U \subseteq Updating(p, i, l)
    BY <1>1, <1>4 DEF Updating, Rows
  <2> QED BY <1>4, <1>6, <2>1
<1>9. /\ record'[i].version = v + Cardinality(U)
      /\ record'[i].text = RowText(j, l)
      /\ record'[i].live = record[i].live /\ record'[i].said = record[i].said
  <2>1. record'[i] = [record[i] EXCEPT !.text = RowText(j, l), !.version = @ + Cardinality(U)]
    BY <1>1 DEF Updated
  <2> HIDE DEF l, U
  <2> QED BY <1>3, <2>1 DEF Records
<1>10. \A ch \in change : ch.entity = i => ch.after < record'[i].version
  BY <1>3, <1>5, <1>9 DEF Known, Traced
<1>11. Tops(i)' = {C(l)}
  <2>1. C(l) \in Tops(i)'
    BY <1>2, <1>4, <1>8, <1>9 DEF Tops
  <2>2. \A ch \in Tops(i)' : ch = C(l)
    <3>1. SUFFICES ASSUME NEW ch \in change', ch.entity = i, ch.after = record'[i].version
                   PROVE  ch = C(l)
      BY DEF Tops
    <3>2. ch \notin change
      BY <1>3, <1>10, <3>1
    <3>3. PICK r \in U : ch = C(r)
      BY <1>1, <3>1, <3>2
    <3>4. v + Cardinality(Updating(p, i, r)) = v + Cardinality(U)
      BY <1>2, <1>9, <3>1, <3>3
    <3> QED BY <1>3, <1>5, <1>7, <3>3, <3>4
  <2> QED BY <2>1, <2>2
<1>12. ASSUME NEW r \in U
       PROVE  /\ C(r).before.live = record[i].live
              /\ C(r).before.text = TextBefore(j, p, r)
  <2>1. C(r).before = Before(j, p, r) /\ p[r] = i
    BY <1>2
  <2>2. /\ Before(j, p, r).live = record[p[r]].live
        /\ Before(j, p, r).text = TextBefore(j, p, r)
    BY DEF Before
  <2> QED BY <2>1, <2>2
<1>13. Traced(i)'
  <2>1. \A ch \in change' : ch.entity = i => ch.after <= record'[i].version
    <3>1. \A r \in U : C(r).after <= record'[i].version
      BY <1>2, <1>3, <1>5, <1>7, <1>9
    <3> QED BY <1>1, <1>3, <1>5, <1>9, <1>10, <3>1
  <2> QED BY <1>2, <1>4, <1>9, <1>11, <1>12, <2>1 DEF Traced
<1>14. Carried(i)'
  <2>1. CASE record[i].said = Nobody
    BY <1>9, <2>1 DEF Carried
  <2>2. CASE \E ch \in change : ch.entity = i /\ ch.active /\ ~ch.created
                                /\ ch.before.text = record[i].said
    BY <1>1, <1>9, <2>2 DEF Carried
  <2>3. CASE record[i].said = record[i].text
    <3>1. PICK f \in U : \A q \in U : f <= q
      <4>1. LastRow \in Nat
        BY BoundsAssumption
      <4> QED BY <1>1, <1>4, <4>1, Extremes DEF Rows
    <3>2. Updating(p, p[f], f - 1) = {}
      <4>1. \A q \in Updating(p, p[f], f - 1) : q \in U /\ q < f
        BY <1>1, <1>2, BoundsAssumption DEF Updating, Rows
      <4> QED BY <1>4, <3>1, <4>1
    <3>3. C(f).before.text = record[i].text
      BY <1>2, <1>12, <3>2 DEF TextBefore
    <3> QED BY <1>2, <1>9, <2>3, <3>3 DEF Carried
  <2> QED BY <2>1, <2>2, <2>3 DEF Known, Carried
<1>15. Owned(i)'
  <2>1. record'[i].text[1] = j
    BY <1>9 DEF RowText
  <2> QED BY <1>2, <1>4, <2>1 DEF Owned
<1>16. Beneath(i)'
  <2> DEFINE W == Updating(p, i, l - 1)
  <2>1. SUFFICES ASSUME C(l).before.live, C(l).before.text[1] \in Jobs,
                        C(l).before.text # record[i].said
                 PROVE  \E ch \in change' : /\ ch # C(l) /\ ch.active /\ ch.entity = i
                                            /\ ch.job = C(l).before.text[1]
    <3>1. SUFFICES ASSUME NEW e \in Tops(i)', ~e.created, e.before.live,
                          e.before.text[1] \in Jobs, e.before.text # record'[i].said
                   PROVE  Holds(i, e.before.text[1], e)'
      BY DEF Beneath
    <3>2. e = C(l)
      BY <1>11
    <3> QED BY <1>9, <2>1, <3>1, <3>2 DEF Holds
  <2>2. C(l).before.text = IF W = {} THEN record[i].text ELSE RowText(j, LastOf(W))
    <3>1. C(l).before.text = TextBefore(j, p, l) /\ p[l] = i
      BY <1>2, <1>4, <1>12
    <3> QED BY <3>1 DEF TextBefore
  <2>3. CASE W = {}
    <3>1. /\ record[i].live /\ record[i].text[1] \in Jobs
          /\ record[i].said # record[i].text /\ C(l).before.text = record[i].text
      BY <1>4, <1>12, <2>1, <2>2, <2>3
    <3>2. PICK ch \in change : ch.active /\ ch.entity = i /\ ch.job = record[i].text[1]
      BY <3>1 DEF Known, Owned
    <3>3. ch # C(l)
      BY <1>2, <1>3, <1>4, <1>8, <1>9, <1>10, <3>2
    <3> QED BY <1>1, <3>1, <3>2, <3>3
  <2>4. CASE W # {}
    <3>1. W \in SUBSET Rows /\ W \subseteq U /\ \A q \in W : q < l
      <4>1. l \in 1..LastRow /\ LastRow \in Nat
        BY <1>4, BoundsAssumption DEF Rows
      <4>2. \A q \in W : q \in 1..LastRow /\ q < l /\ q \in U
        BY <4>1 DEF Updating
      <4> QED BY <4>2 DEF Rows
    <3>2. LastOf(W) \in W
      BY <2>4, <3>1, LastOfRows
    <3>3. PICK q \in U : q = LastOf(W) /\ q # l
      BY <1>4, <3>1, <3>2
    <3>4. C(q) # C(l) /\ C(q) \in change' /\ C(q).active /\ C(q).entity = i /\ C(q).job = j
      BY <1>2, <1>4, <3>3
    <3>5. C(l).before.text[1] = j
      BY <2>2, <2>4 DEF RowText
    <3> QED BY <3>4, <3>5
  <2> QED BY <2>3, <2>4
<1> QED BY <1>13, <1>14, <1>15, <1>16 DEF Known

LEMMA CommitKnown ==
  ASSUME Inv, RecordsKnown, NEW c \in Clients, Commit(c)
  PROVE  RecordsKnown'
<1> DEFINE j == call[c].job
           p == call[c].plan
<1>1. overrun' = overrun /\ Record' = Record \cup Made(p) /\ j \in Jobs
  BY CommitChanges DEF Commit
<1>2. ASSUME NEW i \in Record \ overrun PROVE Known(i)'
  <2> DEFINE U == Updating(p, i, LastRow)
  <2>1. Known(i)
    BY DEF RecordsKnown
  <2>2. CASE U = {}
    <3>1. record'[i] = record[i]
      BY <2>2, CommitOn DEF Updated
    <3>2. \A ch : ch.entity = i => (ch \in change' <=> ch \in change)
      BY <2>2, CommitOn
    <3> QED BY <2>1, <3>1, <3>2, KnownSame, Zenon
  <2>3. CASE U # {}
    BY <2>1, <2>3, CommitUpdates, Zenon
  <2> QED BY <2>2, <2>3
<1>3. ASSUME NEW i \in Made(p), i \notin Record PROVE Known(i)'
  <2>1. PICK r \in Rows : p[r] = Create /\ i = <<commits + 1, r>>
    BY DEF Made, Creating
  <2>2. record'[i] = NewRecord(j, r)
    BY <1>3, <2>1 DEF Commit
  <2>3. /\ record'[i].version = 1 /\ record'[i].said = Nobody
        /\ record'[i].text = RowText(j, r)
    BY <2>2 DEF NewRecord
  <2>4. \A ch \in change' : ch.entity = i => ch = ChangeOf(j, p, r)
    <3>1. \A ch \in change : ch.entity # i
      BY <1>3 DEF Inv, Filed
    <3>2. \A q \in Rows : p[q] \in Record \cup {Create, Skip}
      BY DEF Commit, Inv, Requested
    <3>3. ASSUME NEW q \in Rows, p[q] # Skip, ChangeOf(j, p, q).entity = i PROVE q = r
      <4>1. ChangeOf(j, p, q).entity = EntityOf(p, q)
        BY DEF ChangeOf
      <4> QED BY <1>3, <2>1, <3>2, <3>3, <4>1 DEF EntityOf
    <3> QED BY <3>1, <3>3, CommitChanges
  <2>5. /\ ChangeOf(j, p, r) \in change'
        /\ ChangeOf(j, p, r).entity = i /\ ChangeOf(j, p, r).job = j
        /\ ChangeOf(j, p, r).active /\ ChangeOf(j, p, r).created
        /\ ChangeOf(j, p, r).after = 1
    <3>1. p[r] # Skip
      BY <2>1, Constants
    <3>2. ChangeOf(j, p, r) \in change'
      BY <3>1 DEF Commit
    <3> QED BY <2>1, <3>2 DEF ChangeOf, EntityOf
  <2>6. Traced(i)' /\ Carried(i)' /\ Owned(i)' /\ Beneath(i)'
    <3>1. \A e \in Tops(i)' : e = ChangeOf(j, p, r)
      BY <2>4 DEF Tops
    <3>2. Traced(i)'
      BY <2>3, <2>4, <2>5, <3>1 DEF Traced
    <3>3. Owned(i)'
      <4>1. record'[i].text[1] = j
        BY <2>3 DEF RowText
      <4> QED BY <2>5, <4>1 DEF Owned
    <3> QED BY <2>3, <2>5, <3>1, <3>2, <3>3 DEF Carried, Beneath
  <2> QED BY <2>6 DEF Known
<1> QED BY <1>1, <1>2, <1>3 DEF RecordsKnown

(* An undo whose check still holds takes back the change at the top of the record, *)
(* which uncovers what was there before.                                           *)
LEMMA UndoReverts ==
  ASSUME Inv, NEW c \in Clients, Undo(c), NEW i \in Record \ overrun', Known(i),
         \E ch \in call[c].undoes : ch.entity = i
  PROVE  Known(i)'
<1> DEFINE U == call[c].undoes
           v == record[i].version
<1>1. /\ U \subseteq Changes /\ change \subseteq Changes
      /\ \A d \in U : d.active /\ (d \in change \/ Off(d) \in change)
      /\ change' = (change \ U) \cup {Off(d) : d \in U}
  BY UndoChanges DEF Inv, TypeOK
<1>2. \A d \in U : d.entity = i => d.after = v
  BY DEF Undo, Undisturbed
<1>3. ASSUME NEW d \in U, d.entity = i PROVE d \in Tops(i)
  <2>1. Off(d).entity = i /\ Off(d).after = v /\ ~Off(d).active
    BY <1>1, <1>2, <1>3, OffKeeps
  <2>2. Off(d) \notin change
    BY <2>1 DEF Known, Traced, Tops
  <2> QED BY <1>1, <1>2, <1>3, <2>2 DEF Tops
<1>4. PICK e \in U : e.entity = i
  OBVIOUS
<1>5. /\ e \in Tops(i) /\ e \in change /\ e.after = v /\ e.active
      /\ e.created \/ e.before.live = record[i].live
      /\ \A d \in U : d.entity = i => d = e
  BY <1>2, <1>3, <1>4 DEF Known, Traced, Tops
<1>6. /\ record[i] \in Records /\ v \in Nat /\ \A ch \in change : ch.after \in Nat
      /\ e.created \in BOOLEAN
  BY <1>1 DEF Inv, TypeOK, Records, Changes
<1>7. /\ record'[i].version = v + 1
      /\ record'[i].said = record[i].said
      /\ e.created => ~record'[i].live
      /\ ~e.created => /\ record'[i].text = e.before.text
                       /\ record'[i].live = e.before.live
  <2> DEFINE inMemory == \A d \in U : e.row <= d.row
  <2>1. record'[i] = Reverted(i, U)
    BY <1>4 DEF Undo
  <2>2. (CHOOSE d \in U : d.entity = i) = e
    BY <1>4, <1>5
  <2> DEFINE T == IF e.created THEN record[i].text ELSE e.before.text
             L == IF e.created THEN FALSE
                  ELSE IF inMemory THEN record[i].live ELSE e.before.live
             V == (IF inMemory THEN e.after ELSE v) + 1
  <2>3. record'[i] = [record[i] EXCEPT !.text = T, !.live = L, !.version = V]
    BY <2>1, <2>2 DEF Reverted
  <2> HIDE DEF inMemory
  <2>4. /\ e.created => ~L
        /\ ~e.created => T = e.before.text
    OBVIOUS
  <2>5. ~e.created => L = e.before.live
    BY <1>5
  <2>6. V = v + 1
    BY <1>5
  <2> HIDE DEF T, L, V, v
  <2>7. /\ record'[i].text = T /\ record'[i].live = L /\ record'[i].version = V
        /\ record'[i].said = record[i].said
    BY <1>6, <2>3 DEF Records
  <2> QED BY <2>4, <2>5, <2>6, <2>7
<1>8. ASSUME NEW ch \in change' PROVE ch.entity = i => ch.after < record'[i].version
  <2>1. PICK old \in change : ch = old \/ ch = Off(old)
    BY UndoneFrom
  <2>2. ch.entity = old.entity /\ ch.after = old.after
    BY <1>1, <2>1, OffKeeps
  <2>3. old.entity = i => old.after <= v
    BY DEF Known, Traced
  <2>4. old.after \in Nat /\ v \in Nat /\ record'[i].version = v + 1
    BY <1>6, <1>7
  <2> HIDE DEF v
  <2> QED BY <2>2, <2>3, <2>4
<1>9. Tops(i)' = {}
  <2>1. \A ch \in change' : ch.entity = i => ch.after \in Nat
    BY FinishTypes DEF Finish, TypeOK, Changes
  <2> QED BY <1>6, <1>7, <1>8, <2>1 DEF Tops
<1>10. \A ch \in change : ch.entity = i /\ ch # e => ch \in change'
  BY <1>1, <1>5
<1>11. Traced(i)' /\ Beneath(i)'
  <2>1. \A ch \in change' : ch.entity = i => ch.after <= record'[i].version
    BY <1>6, <1>7, <1>8, FinishTypes DEF Finish, TypeOK, Changes
  <2> QED BY <1>9, <2>1 DEF Traced, Beneath
<1>12. Carried(i)'
  <2>1. CASE record[i].said = Nobody
    BY <1>7, <2>1 DEF Carried
  <2>2. ASSUME NEW ch \in change, ch.entity = i, ch.active, ~ch.created,
               ch.before.text = record[i].said
        PROVE  Carried(i)'
    <3>1. CASE ch = e
      BY <1>7, <1>9, <2>2, <3>1 DEF Carried
    <3>2. CASE ch # e
      BY <1>7, <1>10, <2>2, <3>2 DEF Carried
    <3> QED BY <3>1, <3>2
  <2> QED BY <1>5, <2>1, <2>2 DEF Known, Carried
<1>13. Owned(i)'
  <2>1. SUFFICES ASSUME record'[i].live, record'[i].text[1] \in Jobs,
                        record'[i].said # record'[i].text
                 PROVE  \E ch \in change' : ch.active /\ ch.entity = i
                                            /\ ch.job = record'[i].text[1]
    BY DEF Owned
  <2>2. Holds(i, e.before.text[1], e) /\ record'[i].text = e.before.text
    BY <1>5, <1>7, <2>1 DEF Known, Beneath
  <2> QED BY <1>10, <2>2 DEF Holds
<1> QED BY <1>11, <1>12, <1>13 DEF Known

LEMMA UndoKnown ==
  ASSUME Inv, RecordsKnown, NEW c \in Clients, Undo(c)
  PROVE  RecordsKnown'
<1> DEFINE U == call[c].undoes
<1>1. Record' = Record /\ overrun \subseteq overrun'
  BY UndoChanges DEF Undo
<1>2. ASSUME NEW i \in Record \ overrun', ~ \E ch \in U : ch.entity = i
      PROVE  Known(i)'
  <2>1. Known(i) /\ record'[i] = record[i]
    BY <1>1, <1>2 DEF RecordsKnown, Undo
  <2>2. \A ch : ch.entity = i => (ch \in change' <=> ch \in change)
    <3>1. \A d \in U : Off(d).entity # i
      BY <1>2, UndoChanges, OffKeeps
    <3> QED BY <1>2, <3>1, UndoChanges
  <2> QED BY <2>1, <2>2, KnownSame
<1> QED BY <1>1, <1>2, UndoReverts DEF RecordsKnown

-----------------------------------------------------------------------------
(* Theorems                                                                 *)

LEMMA InitInv == Init => Inv /\ RecordsKnown
<1> SUFFICES ASSUME Init PROVE Inv /\ RecordsKnown
  OBVIOUS
<1>1. PICK I \in SUBSET {<<0, 1>>} :
        record \in [I -> [key : Keys, text : {HumanText(0)}, version : {1},
                          live : {TRUE}, said : {HumanText(0)}]]
  BY DEF Init
<1>2. Record = I /\ \A i \in Record : i = <<0, 1>>
  BY <1>1 DEF Record
<1>3. TypeOK
  <2>1. HumanText(0) \in Texts
    BY BoundsAssumption DEF HumanText, Texts
  <2>2. RecordType
    <3>1. <<0, 1>> \in Ids
      BY BoundsAssumption DEF Ids, Rows
    <3>2. [key : Keys, text : {HumanText(0)}, version : {1},
           live : {TRUE}, said : {HumanText(0)}] \subseteq Records
      <4>1. 1 \in Nat \ {0} /\ TRUE \in BOOLEAN
        OBVIOUS
      <4> HIDE DEF HumanText
      <4> QED BY <2>1, <4>1 DEF Records
    <3> QED BY <1>1, <1>2, <3>1, <3>2 DEF RecordType
  <2>3. job \in [Jobs -> JobRow] /\ call \in [Clients -> Calls]
    BY Constants DEF Init
  <2>4. stage \subseteq Jobs
    BY DEF Init
  <2> QED BY <2>2, <2>3, <2>4, BoundsAssumption DEF Init, TypeOK, RecordType, Calls
<1>4. (\A c \in Clients : Requested(c)) /\ (\A ch \in change : Filed(ch)) /\ RowsImportOnce
  BY DEF Init, Requested, Idle, RowsImportOnce
<1>5. \A j \in Jobs : Settled(j)
  BY DEF Init, Settled, ActiveOf
<1>6. \A i \in Record : i[1] <= commits
  BY <1>2 DEF Init
<1>7. ASSUME NEW i \in Record PROVE Known(i)
  <2>1. change = {} /\ record[i].said = record[i].text
    BY <1>1, <1>2 DEF Init
  <2> QED BY <2>1 DEF Known, Traced, Carried, Owned, Beneath, Tops
<1> QED BY <1>3, <1>4, <1>5, <1>6, <1>7 DEF Inv, RecordsKnown

(* A step that touches neither records nor changes tells nothing new of them. *)
LEMMA QuietKnown ==
  ASSUME RecordsKnown, UNCHANGED <<record, change, overrun>>
  PROVE  RecordsKnown'
BY DEF RecordsKnown, Known, Traced, Carried, Owned, Beneath, Holds, Tops, Record

LEMMA StepInv ==
  ASSUME Inv, RecordsKnown, [Next]_vars
  PROVE  Inv' /\ RecordsKnown'
<1>1. ASSUME NEW j \in Jobs, Inspect(j) PROVE Inv' /\ RecordsKnown'
  <2>1. UNCHANGED <<record, change, overrun>>
    BY <1>1 DEF Inspect
  <2> QED BY <1>1, <2>1, InspectInv, QuietKnown
<1>2. ASSUME NEW c \in Clients, NEW j \in Jobs, Request(c, j) PROVE Inv' /\ RecordsKnown'
  <2>1. UNCHANGED <<record, change, overrun>>
    BY <1>2 DEF Request, Expire, Remap, Validate, StartCommit, StartUndo, Aside
  <2> QED BY <1>2, <2>1, RequestInv, QuietKnown
<1>3. ASSUME NEW c \in Clients, SaveJob(c) PROVE Inv' /\ RecordsKnown'
  <2>1. UNCHANGED <<record, change, overrun>>
    BY <1>3 DEF SaveJob
  <2> QED BY <1>3, <2>1, SaveInv, QuietKnown
<1>4. ASSUME NEW c \in Clients, CommitFails(c) \/ Unstage(c) PROVE Inv' /\ RecordsKnown'
  <2>1. UNCHANGED <<record, change, overrun>>
    BY <1>4 DEF CommitFails, Unstage, Aside
  <2> QED BY <1>4, <2>1, EndInv, QuietKnown
<1>5. ASSUME Crash PROVE Inv' /\ RecordsKnown'
  <2>1. UNCHANGED <<record, change, overrun>>
    BY <1>5 DEF Crash, Aside
  <2> QED BY <1>5, <2>1, CrashInv, QuietKnown
<1>6. ASSUME UNCHANGED vars PROVE Inv' /\ RecordsKnown'
  <2>1. TypeOK' /\ Record' = Record
    BY <1>6 DEF vars, Inv, TypeOK, Record
  <2>2. Inv'
    BY <1>6, <2>1, Quiet DEF vars
  <2> QED BY <1>6, <2>2, QuietKnown DEF vars
<1> QED BY <1>1, <1>2, <1>3, <1>4, <1>5, <1>6, CommitInv, CommitKnown, UndoInv,
           UndoKnown, PersonInv, PersonKnown DEF Next, Finish

LEMMA Invariance == Spec => [](Inv /\ RecordsKnown)
<1>1. Inv /\ RecordsKnown /\ [Next]_vars => (Inv /\ RecordsKnown)'
  BY StepInv
<1> QED BY InitInv, <1>1, PTL DEF Spec

(* The states of jobs, records, changes and requests are what TypeOK says they are. *)
THEOREM TypeCorrect == Spec => []TypeOK
<1>1. Inv => TypeOK
  BY DEF Inv
<1> QED BY Invariance, <1>1, PTL

(* A row becomes at most one record, however often its job is committed, unless    *)
(* requests overlapped or a validation reset an ended job (commit_import).          *)
THEOREM RowsOnce == Spec => []RowsImportOnce
<1>1. Inv => RowsImportOnce
  BY DEF Inv
<1> QED BY Invariance, <1>1, PTL

(* No record shows an undone import, whatever other imports did to it before and    *)
(* after, unless a person put it back or it changed while the undo waited for the   *)
(* lock (undo_import).                                                              *)
THEOREM UndoUndoes == Spec => []UndoneIsUndone
<1>1. ASSUME Inv, RecordsKnown PROVE UndoneIsUndone
  <2>1. SUFFICES ASSUME NEW j \in Jobs \ stale, NEW i \in Record \ overrun,
                        job[j].status = "undone", record[i].live,
                        record[i].text[1] = j, record[i].said # record[i].text
                 PROVE  FALSE
    BY DEF UndoneIsUndone
  <2>2. \E ch \in change : ch.active /\ ch.job = j
    BY <1>1, <2>1 DEF RecordsKnown, Known, Owned
  <2> QED BY <1>1, <2>1, <2>2 DEF Inv, Settled, ActiveOf
<1> QED BY Invariance, <1>1, PTL

(* What a person last gave a record is in it, or in a change that can be undone,    *)
(* unless it changed while an undo waited for the lock (undo_import).               *)
THEOREM EditsAreKept == Spec => []EditsCanBeHadBack
<1>1. ASSUME RecordsKnown PROVE EditsCanBeHadBack
  BY <1>1 DEF RecordsKnown, Known, Carried, EditsCanBeHadBack
<1> QED BY Invariance, <1>1, PTL

(* At most one change of a record meets the check of an undo, and that one is of an *)
(* import that has not been undone; an undone import has no change left to undo.    *)
OneCanBeUndone ==
  /\ \A i \in Record \ overrun : \A d, e \in change :
       /\ d.entity = i /\ Undisturbed(d) => d.active
       /\ d.entity = i /\ e.entity = i /\ Undisturbed(d) /\ Undisturbed(e) => d = e
  /\ \A j \in Jobs \ stale : job[j].status = "undone" => ActiveOf(j) = {}

(* Imports that met at the same records can be undone in one order only, the last   *)
(* first, whatever people did to the records (undo_import compares versions).       *)
THEOREM UndoneInOrder == Spec => []OneCanBeUndone
<1>1. ASSUME Inv, RecordsKnown PROVE OneCanBeUndone
  <2>1. ASSUME NEW i \in Record \ overrun, NEW d \in change, d.entity = i, Undisturbed(d)
        PROVE  d \in Tops(i)
    BY <2>1 DEF Tops, Undisturbed
  <2>2. \A i \in Record \ overrun : Traced(i)
    BY <1>1 DEF RecordsKnown, Known
  <2>3. \A j \in Jobs : Settled(j)
    BY <1>1 DEF Inv
  <2> QED BY <2>1, <2>2, <2>3 DEF OneCanBeUndone, Traced, Settled
<1> QED BY Invariance, <1>1, PTL

=============================================================================
