--------------------------- MODULE TransferProofs ---------------------------
(***************************************************************************)
(* Proofs about a transfer of any number of chunks and versions of its      *)
(* source, with any number of faults and troubles: that completed transfers *)
(* have arrived, that what arrives is one version of the source, and that   *)
(* somebody is at work on an active one.                                    *)
(***************************************************************************)
EXTENDS Transfer, FiniteSetTheorems, TLAPS

-----------------------------------------------------------------------------
(* Types                                                                    *)

LEMMA Constants ==
  /\ Last \in Nat /\ MaxVersions \in Nat /\ 1 \in Versions
  /\ Nothing \in Contents
  /\ \A v \in Versions : Snapshot(v) \in Contents
  /\ NoHash \notin Contents
  /\ Nobody \notin Edits
  BY BoundsAssumption, NoHashAssumption, NobodyAssumption
  DEF Versions, Nothing, Contents, Snapshot, Gap

LEMMA Fields ==
  ASSUME NEW r \in TransferRow
  PROVE  /\ r.status \in Statuses /\ r.done \in 0..Last + 1
         /\ r.staged \in BOOLEAN /\ r.sha \in Contents \cup {NoHash}
         /\ DOMAIN r = {"status", "done", "staged", "sha"}
  BY DEF TransferRow

\* A row that is written takes the changed columns alone.
LEMMA WrittenRow ==
  ASSUME row \in TransferRow, NEW seen \in TransferRow, NEW new \in TransferRow
  PROVE  LET w == Written(seen, new)
         IN /\ w \in TransferRow
            /\ w.status = IF new.status = seen.status THEN row.status ELSE new.status
            /\ w.done = IF new.done = seen.done THEN row.done ELSE new.done
            /\ w.sha = IF new.sha = seen.sha THEN row.sha ELSE new.sha
<1> DEFINE w == Written(seen, new)
<1>1. /\ DOMAIN w = {"status", "done", "staged", "sha"}
      /\ \A f \in {"status", "done", "staged", "sha"} :
           w[f] = IF new[f] = seen[f] THEN row[f] ELSE new[f]
  BY Fields DEF Written
<1>2. w = [status |-> w.status, done |-> w.done, staged |-> w.staged, sha |-> w.sha]
  BY <1>1 DEF Written
<1>3. /\ w.status \in Statuses /\ w.done \in 0..Last + 1
      /\ w.staged \in BOOLEAN /\ w.sha \in Contents \cup {NoHash}
  BY <1>1, Fields
<1>4. w \in TransferRow
  BY <1>2, <1>3 DEF TransferRow
<1>5. QED
  BY <1>1, <1>4

LEMMA EmptiedRow ==
  ASSUME NEW r \in TransferRow
  PROVE  /\ Emptied(r) \in TransferRow
         /\ Emptied(r).status = r.status
         /\ Emptied(r).done = 0
         /\ Emptied(r).sha = r.sha
<1>1. 0 \in 0..Last + 1
  BY BoundsAssumption
<1>2. QED
  BY <1>1 DEF Emptied, TransferRow

\* What one request sees of the chunks.
LEMMA ChunkCount ==
  ASSUME NEW S \in SUBSET Chunk
  PROVE  /\ Cardinality(S) \in 0..Last + 1
         /\ Cardinality(S) > Last => S = Chunk
<1>1. IsFiniteSet(Chunk) /\ Cardinality(Chunk) = Last + 1
  BY FS_Interval, BoundsAssumption DEF Chunk
<1>2. /\ IsFiniteSet(S) /\ Cardinality(S) <= Last + 1
      /\ Cardinality(S) = Last + 1 => S = Chunk
  BY <1>1, FS_Subset
<1>3. Cardinality(S) \in Nat
  BY <1>2, FS_CardinalityType
<1>4. QED
  BY <1>2, <1>3, BoundsAssumption

LEMMA InitType == Init => TypeOK
<1> SUFFICES ASSUME Init PROVE TypeOK
  OBVIOUS
<1>1. row \in TransferRow
  <2>1. 0 \in 0..Last + 1
    BY BoundsAssumption
  <2>2. /\ row \in [status : Statuses, done : {0}, staged : BOOLEAN,
                    sha : {IF kind = "host_to_device" THEN Snapshot(1) ELSE NoHash}]
        /\ Snapshot(1) \in Contents
    BY Constants DEF Init, Statuses
  <2>3. QED
    BY ONLY <2>1, <2>2 DEF TransferRow
<1>2. part \in Contents /\ kind \in Kinds /\ src \in Versions
  BY Constants DEF Init
<1>3. cmd \in [Legs -> {"none", "queued", "leased", "completed", "failed"}]
  BY DEF Init
<1>4. local \in Seq(Versions \cup {Gap}) /\ Len(local) <= Last + 1
  BY BoundsAssumption DEF Init
<1>5. /\ edit \in Edits \cup {Nobody}
      /\ calls = {} /\ notices = {} /\ acks = {} /\ arrived = {} /\ chunks = {}
      /\ sweeps = 0 /\ faults = 0 /\ troubles = 0
      /\ late = FALSE /\ exposed = FALSE
  BY DEF Init
<1>6. /\ sender \in [at : {"idle", "start", "send", "wait", "finalize", "report"},
                     have : SUBSET Chunk]
      /\ receiver \in [at : {"idle", "start", "get", "report"},
                       want : Contents \cup {NoHash}]
  BY DEF Init
<1>7. /\ faults \in Nat /\ troubles \in Nat /\ faults + troubles <= MaxEvents
      /\ sweeps \in 0..1
  BY <1>5, BoundsAssumption
<1>8. late \in BOOLEAN /\ exposed \in BOOLEAN
  BY <1>5
<1>9. QED
  BY <1>1, <1>2, <1>3, <1>4, <1>5, <1>6, <1>7, <1>8 DEF TypeOK

Senders == [at : {"idle", "start", "send", "wait", "finalize", "report"},
            have : SUBSET Chunk]
Receivers == [at : {"idle", "start", "get", "report"},
              want : Contents \cup {NoHash}]
Acks == [leg : Legs, ok : BOOLEAN, awaited : BOOLEAN]

\* The sorts of change a step makes.
LEMMA Counters ==
  ASSUME TypeOK, Fault \/ Trouble \/ Quiet
  PROVE  faults' \in Nat /\ troubles' \in Nat /\ faults' + troubles' <= MaxEvents
<1>1. CASE Fault
  BY <1>1, BoundsAssumption DEF TypeOK, Fault, May
<1>2. CASE Trouble
  BY <1>2, BoundsAssumption DEF TypeOK, Trouble, May
<1>3. CASE Quiet
  BY <1>3 DEF TypeOK, Quiet, events
<1>4. QED
  BY <1>1, <1>2, <1>3

LEMMA Outcomes ==
  ASSUME TypeOK, NEW ok \in BOOLEAN
  PROVE  /\ SenderReports(ok) => sender' \in Senders /\ acks' \subseteq Acks
         /\ SenderStops => sender' \in Senders /\ acks' \subseteq Acks
         /\ ReceiverReports(ok) => receiver' \in Receivers /\ acks' \subseteq Acks
         /\ SenderIdle \in Senders /\ ReceiverIdle \in Receivers
<1>1. /\ SenderIdle \in Senders /\ ReceiverIdle \in Receivers
      /\ [at |-> "report", have |-> {}] \in Senders
      /\ [at |-> "report", want |-> NoHash] \in Receivers
  BY DEF SenderIdle, ReceiverIdle, Senders, Receivers
<1>2. \A leg \in Legs : Report(leg, ok) => acks' \subseteq Acks
  <2>1. \A leg \in Legs : [leg |-> leg, ok |-> ok, awaited |-> TRUE] \in Acks
    BY DEF Acks
  <2>2. QED
    BY <2>1 DEF TypeOK, Report, Acks
<1>3. acks \subseteq Acks
  BY DEF TypeOK, Acks
<1>4. QED
  BY <1>1, <1>2, <1>3 DEF SenderReports, SenderStops, ReceiverReports, Legs

LEMMA Calls ==
  ASSUME TypeOK, NEW h \in calls
  PROVE  /\ h.seen \in TransferRow
         /\ [h EXCEPT !.awaited = FALSE] \in ChunkCalls \cup FinalizeCalls
         /\ h.op \in {"chunk", "finalize"}
         /\ h.op = "chunk" => /\ h.chunk \in Chunk /\ h.body \in Versions
                              /\ [h EXCEPT !.wrote = TRUE] \in ChunkCalls
<1>1. CASE h \in ChunkCalls
  BY <1>1 DEF ChunkCalls
<1>2. CASE h \in FinalizeCalls
  BY <1>2 DEF FinalizeCalls
<1>3. QED
  BY <1>1, <1>2 DEF TypeOK

LEMMA Unwaited ==
  ASSUME TypeOK
  PROVE  /\ Unawaited(calls) \subseteq ChunkCalls \cup FinalizeCalls
         /\ \A S \in SUBSET acks : Unawaited(S) \subseteq Acks
<1>1. \A a \in Acks : [a EXCEPT !.awaited = FALSE] \in Acks
  BY ONLY DEF Acks
<1>a. acks \subseteq Acks
  BY DEF TypeOK, Acks
<1>2. QED
  BY <1>1, <1>a, Calls DEF Unawaited

LEMMA Queueing ==
  ASSUME TypeOK, NEW r \in TransferRow
  PROVE  Queue(r) \in [Legs -> {"none", "queued", "leased", "completed", "failed"}]
  BY DEF TypeOK, Queue, Requeued

LEMMA Expiry ==
  ASSUME TypeOK, Expire
  PROVE  /\ row' \in TransferRow /\ chunks' = {} /\ sweeps' \in 0..1
         /\ row'.status = "expired" /\ row'.done = 0 /\ row'.sha = row.sha
<1> DEFINE r == [row EXCEPT !.status = "expired"]
<1>1. r \in TransferRow /\ r.status = "expired" /\ r.sha = row.sha
  BY DEF TypeOK, TransferRow, Statuses
<1>2. row' = Emptied(r) /\ chunks' = {} /\ sweeps' = 1
  BY DEF Expire, Sweep
<1>3. QED
  <2> HIDE DEF r
  <2>1. QED
    BY <1>1, <1>2, EmptiedRow

LEMMA NewStatusRow ==
  ASSUME NEW r \in TransferRow, NEW st \in Statuses
  PROVE  /\ [r EXCEPT !.status = st] \in TransferRow
         /\ [r EXCEPT !.status = st].status = st
         /\ [r EXCEPT !.status = st].done = r.done
         /\ [r EXCEPT !.status = st].sha = r.sha
  BY DEF TransferRow

LEMMA PollTypes == TypeOK /\ (PollUpload \/ PollDownload) => TypeOK'
<1> SUFFICES ASSUME TypeOK, PollUpload \/ PollDownload PROVE TypeOK'
  OBVIOUS
<1>1. faults' \in Nat /\ troubles' \in Nat /\ faults' + troubles' <= MaxEvents
  BY Counters DEF PollUpload, PollDownload
<1>2. cmd' \in [Legs -> {"none", "queued", "leased", "completed", "failed"}]
  BY DEF TypeOK, PollUpload, PollDownload
<1>3. sender' \in Senders /\ receiver' \in Receivers
  BY DEF TypeOK, PollUpload, PollDownload, Senders, Receivers
<1>4. QED
  BY <1>1, <1>2, <1>3 DEF TypeOK, PollUpload, PollDownload, Senders, Receivers

LEMMA SenderTypes ==
  ASSUME TypeOK, BeginUpload \/ AskFinalize \/ ChunkTimesOut \/ FinalizeTimesOut
                 \/ SenderRestarts
  PROVE  TypeOK'
<1>1. faults' \in Nat /\ troubles' \in Nat /\ faults' + troubles' <= MaxEvents
  BY Counters DEF BeginUpload, AskFinalize, ChunkTimesOut, FinalizeTimesOut,
     SenderRestarts
<1>2. sender' \in Senders /\ acks' \subseteq Acks
  <2>1. CASE BeginUpload
    <3>1. [at |-> "send", have |-> chunks] \in Senders /\ acks \subseteq Acks
      BY DEF TypeOK, Senders, Acks
    <3>2. QED
      BY <2>1, <3>1, Outcomes DEF BeginUpload
  <2>2. CASE AskFinalize
    <3>1. [sender EXCEPT !.at = "finalize"] \in Senders /\ acks \subseteq Acks
      BY DEF TypeOK, Senders, Acks
    <3>2. QED
      BY <2>2, <3>1, Outcomes DEF AskFinalize
  <2>3. CASE ChunkTimesOut \/ FinalizeTimesOut
    BY <2>3, Outcomes DEF ChunkTimesOut, FinalizeTimesOut
  <2>4. CASE SenderRestarts
    <3>1. acks \subseteq Acks
      BY DEF TypeOK, Acks
    <3>2. QED
      BY <2>4, <3>1, Outcomes, Unwaited DEF SenderRestarts
  <2>5. QED
    BY <2>1, <2>2, <2>3, <2>4
<1>3. calls' \subseteq ChunkCalls \cup FinalizeCalls
  <2>1. FinalizeCall \in FinalizeCalls
    BY DEF TypeOK, FinalizeCall, FinalizeCalls
  <2>2. QED
    BY <2>1, Unwaited DEF TypeOK, BeginUpload, AskFinalize, ChunkTimesOut,
       FinalizeTimesOut, SenderRestarts, host
<1>4. QED
  BY <1>1, <1>2, <1>3 DEF TypeOK, BeginUpload, AskFinalize, ChunkTimesOut,
     FinalizeTimesOut, SenderRestarts, host, Senders, Acks

LEMMA SendChunkType ==
  ASSUME TypeOK, SendChunk
  PROVE  TypeOK'
<1>1. faults' \in Nat /\ troubles' \in Nat /\ faults' + troubles' <= MaxEvents
  BY Counters DEF SendChunk
<1>2. sender' \in Senders /\ acks' \subseteq Acks
  <2>1. \A c \in Chunk : [at |-> "wait", have |-> sender.have \cup {c}] \in Senders
    BY DEF TypeOK, Senders
  <2>2. acks \subseteq Acks
    BY DEF TypeOK, Acks
  <2>3. QED
    BY <2>1, <2>2, Outcomes DEF SendChunk, Missing
<1>3. calls' \subseteq ChunkCalls \cup FinalizeCalls
  <2>1. \A c \in Chunk : ChunkCall(c) \in ChunkCalls
    BY DEF TypeOK, ChunkCall, ChunkCalls
  <2>2. QED
    BY <2>1 DEF TypeOK, SendChunk, Missing
<1>4. row' \in TransferRow /\ chunks' \subseteq Chunk /\ sweeps' \in 0..1
  <2>1. [row EXCEPT !.status = "paused"] \in TransferRow
    BY NewStatusRow DEF TypeOK, Statuses
  <2>2. QED
    BY <2>1, Expiry DEF TypeOK, SendChunk
<1>5. QED
  BY <1>1, <1>2, <1>3, <1>4 DEF TypeOK, SendChunk, Senders, Acks

LEMMA WriteChunkType ==
  ASSUME TypeOK, NEW h \in calls, WriteChunk(h)
  PROVE  TypeOK'
<1>1. part' \in Contents /\ calls' \subseteq ChunkCalls \cup FinalizeCalls
  <2>1. /\ h.chunk \in Chunk /\ h.body \in Versions
        /\ [h EXCEPT !.wrote = TRUE] \in ChunkCalls
    BY Calls DEF WriteChunk
  <2>2. part' \in Contents
    BY <2>1 DEF TypeOK, WriteChunk, Contents
  <2>3. calls' \subseteq ChunkCalls \cup FinalizeCalls
    BY <2>1 DEF TypeOK, WriteChunk
  <2>4. QED
    BY <2>2, <2>3
<1>2. QED
  BY <1>1 DEF TypeOK, WriteChunk, agents, events

\* The rows that storing a chunk and finalizing write.
StoredRow(seen, S) == [seen EXCEPT !.status = "transferring", !.staged = TRUE,
                                   !.done = Counted(seen, S)]
FailedRow(seen) == Emptied([seen EXCEPT !.status = "failed"])
FinalRow(seen) == [seen EXCEPT !.sha = part, !.staged = TRUE]
EndedRow(seen, st) == [FinalRow(seen) EXCEPT !.status = st]

LEMMA Failed ==
  ASSUME NEW seen \in TransferRow
  PROVE  /\ FailedRow(seen) \in TransferRow /\ FailedRow(seen).status = "failed"
         /\ FailedRow(seen).done = 0 /\ FailedRow(seen).sha = seen.sha
<1> DEFINE f == [seen EXCEPT !.status = "failed"]
<1>1. f \in TransferRow /\ f.status = "failed" /\ f.sha = seen.sha
  BY NewStatusRow DEF Statuses
<1> HIDE DEF f
<1>2. /\ Emptied(f) \in TransferRow /\ Emptied(f).status = "failed"
      /\ Emptied(f).done = 0 /\ Emptied(f).sha = seen.sha
  BY <1>1, EmptiedRow
<1>3. QED
  BY <1>2 DEF f, FailedRow

\* What storing a chunk makes of the row the request has seen.
LEMMA Stored ==
  ASSUME NEW seen \in TransferRow, NEW c \in Chunk, NEW S \in SUBSET Chunk,
         part \in Contents
  PROVE  LET new == StoredRow(seen, S)
         IN /\ new \in TransferRow /\ new.done = Cardinality(S)
            /\ new.status = "transferring" /\ new.sha = seen.sha
            /\ AllReceived(new) \in TransferRow
            /\ AllReceived(new).sha = part
            /\ AllReceived(new).done = Cardinality(S)
            /\ AllReceived(new).status = "transferring"
            /\ FailedRow(new) \in TransferRow /\ FailedRow(new).status = "failed"
            /\ FailedRow(new).done = 0 /\ FailedRow(new).sha = seen.sha
<1> DEFINE new == StoredRow(seen, S)
<1>1. /\ new \in TransferRow /\ new.done = Cardinality(S)
      /\ new.status = "transferring" /\ new.sha = seen.sha
  BY ChunkCount DEF StoredRow, TransferRow, Counted, Statuses
<1> HIDE DEF new
<1>2. /\ AllReceived(new) \in TransferRow
      /\ AllReceived(new).sha = part
      /\ AllReceived(new).done = new.done
      /\ AllReceived(new).status = new.status
  BY <1>1 DEF TransferRow, AllReceived
<1>3. /\ FailedRow(new) \in TransferRow /\ FailedRow(new).status = "failed"
      /\ FailedRow(new).done = 0 /\ FailedRow(new).sha = new.sha
  BY <1>1, Failed
<1>4. QED
  BY <1>1, <1>2, <1>3 DEF new

LEMMA StoreChunkType ==
  ASSUME TypeOK, NEW h \in calls, StoreChunk(h)
  PROVE  TypeOK'
<1>1. h.seen \in TransferRow /\ h.chunk \in Chunk
  BY Calls DEF StoreChunk
<1> DEFINE S == chunks \cup {h.chunk}
<1>2. S \in SUBSET Chunk
  BY <1>1 DEF TypeOK
<1>3. row' \in TransferRow /\ chunks' \subseteq Chunk /\ sweeps' \in 0..1
  <2> DEFINE new == StoredRow(h.seen, S)
             failed == FailedRow(new)
  <2>1. /\ new \in TransferRow /\ AllReceived(new) \in TransferRow
        /\ failed \in TransferRow
    <3>1. part \in Contents
      BY DEF TypeOK
    <3>2. QED
      BY ONLY <1>1, <1>2, <3>1, Stored
  <2>2. /\ Written(h.seen, new) \in TransferRow
        /\ Written(h.seen, AllReceived(new)) \in TransferRow
        /\ Written(h.seen, failed) \in TransferRow
    <3> HIDE DEF new, failed
    <3>1. QED
      BY <1>1, <2>1, WrittenRow DEF TypeOK
  <2>3. row' \in {row, Written(h.seen, new), Written(h.seen, AllReceived(new)),
                 Written(h.seen, failed)}
    BY DEF StoreChunk, StoredRow, FailedRow
  <2>4. row' \in TransferRow
    <3> HIDE DEF new, failed
    <3>1. QED
      BY <2>2, <2>3 DEF TypeOK
  <2>5. chunks' \in {chunks, S, {}} /\ sweeps' \in {sweeps, 1}
    BY DEF StoreChunk, Sweep
  <2>6. QED
    BY <1>2, <2>4, <2>5 DEF TypeOK
<1>4. sender' \in Senders /\ acks' \subseteq Acks
  <2>1. [sender EXCEPT !.at = "send"] \in Senders /\ sender \in Senders
        /\ acks \subseteq Acks
    BY DEF TypeOK, Senders, Acks
  <2>2. QED
    BY <2>1, Outcomes DEF StoreChunk, SenderGoesOn
<1>5. exposed' \in BOOLEAN
  BY DEF StoreChunk, Expose
<1>6. QED
  BY <1>3, <1>4, <1>5 DEF TypeOK, StoreChunk, events, Senders, Acks

LEMMA FailCallType ==
  ASSUME TypeOK, NEW h \in calls, FailCall(h)
  PROVE  TypeOK'
<1>1. faults' \in Nat /\ troubles' \in Nat /\ faults' + troubles' <= MaxEvents
  BY Counters DEF FailCall
<1>2. sender' \in Senders /\ acks' \subseteq Acks
  BY Outcomes DEF FailCall, TypeOK, Senders, Acks
<1>3. QED
  BY <1>1, <1>2 DEF TypeOK, FailCall, Senders, Acks

\* The row finalize writes.
LEMMA Finalized ==
  ASSUME NEW seen \in TransferRow, NEW st \in Statuses, part \in Contents
  PROVE  /\ FinalRow(seen) \in TransferRow /\ FinalRow(seen).done = seen.done
         /\ EndedRow(seen, st) \in TransferRow /\ EndedRow(seen, st).status = st
         /\ EndedRow(seen, st).done = seen.done /\ EndedRow(seen, st).sha = part
<1>1. /\ FinalRow(seen) \in TransferRow /\ FinalRow(seen).done = seen.done
      /\ FinalRow(seen).sha = part
  BY DEF FinalRow, TransferRow
<1>2. QED
  BY <1>1, NewStatusRow DEF EndedRow

\* The rows finalize may leave.
LEMMA FinalizeRows ==
  ASSUME TypeOK, NEW h \in calls, Finalize(h)
  PROVE  row' \in {row, Written(h.seen, FailedRow(h.seen)),
                  Written(h.seen, EndedRow(h.seen, "completed")),
                  Written(h.seen, EndedRow(h.seen, "transferring"))}
  BY DEF Finalize, FailedRow, EndedRow, FinalRow

LEMMA FinalizeType ==
  ASSUME TypeOK, NEW h \in calls, Finalize(h)
  PROVE  TypeOK'
<1>1. h.seen \in TransferRow
  BY Calls
<1> DEFINE new == FinalRow(h.seen)
           failed == FailedRow(h.seen)
           completed == EndedRow(h.seen, "completed")
           moving == EndedRow(h.seen, "transferring")
<1>2. /\ failed \in TransferRow /\ completed \in TransferRow
      /\ moving \in TransferRow /\ new \in TransferRow
  <2>1. "completed" \in Statuses /\ "transferring" \in Statuses /\ part \in Contents
    BY DEF TypeOK, Statuses
  <2>2. QED
    BY ONLY <1>1, <2>1, Finalized, Failed
<1>3. row' \in {row, Written(h.seen, failed), Written(h.seen, completed),
               Written(h.seen, moving)}
  BY FinalizeRows
<1>4. row' \in TransferRow
  <2> HIDE DEF failed, completed, moving
  <2>1. QED
    BY <1>1, <1>2, <1>3, WrittenRow DEF TypeOK
<1>5. cmd' \in [Legs -> {"none", "queued", "leased", "completed", "failed"}]
  <2>1. cmd' \in {cmd, Queue(new)}
    BY DEF Finalize, FinalRow
  <2>2. Queue(new) \in [Legs -> {"none", "queued", "leased", "completed", "failed"}]
    <3> HIDE DEF new
    <3>1. QED
      BY <1>2, Queueing
  <2>3. QED
    <3> HIDE DEF new
    <3>1. QED
      BY <2>1, <2>2 DEF TypeOK
<1>6. sender' \in Senders /\ acks' \subseteq Acks
  <2>1. \/ SenderReports(TRUE) \/ SenderReports(FALSE) \/ UNCHANGED <<sender, acks>>
    BY DEF Finalize
  <2>2. QED
    BY <2>1, Outcomes DEF TypeOK, Senders, Acks
<1>7. /\ chunks' \in {chunks, {}} /\ sweeps' \in {sweeps, 1}
      /\ arrived' \in {arrived, arrived \cup {part}}
  BY DEF Finalize, Sweep
<1>8. /\ calls' \subseteq calls
      /\ UNCHANGED <<kind, part, edit, notices, receiver, src, local, late, events,
                    exposed>>
  BY DEF Finalize
<1>9. QED
  BY <1>4, <1>5, <1>6, <1>7, <1>8 DEF TypeOK, events, Senders, Acks

LEMMA ReceiverTypes ==
  ASSUME TypeOK, BeginDownload \/ ReceiverRestarts
  PROVE  TypeOK'
<1>1. faults' \in Nat /\ troubles' \in Nat /\ faults' + troubles' <= MaxEvents
  BY Counters DEF BeginDownload, ReceiverRestarts
<1>2. receiver' \in Receivers /\ acks' \subseteq Acks
  <2>1. [at |-> "get", want |-> row.sha] \in Receivers /\ acks \subseteq Acks
    BY Fields DEF TypeOK, Receivers, Acks
  <2>2. QED
    BY <2>1, Outcomes, Unwaited DEF BeginDownload, ReceiverRestarts
<1>3. QED
  BY <1>1, <1>2 DEF TypeOK, BeginDownload, ReceiverRestarts, host, Receivers, Acks

LEMMA GetChunkType ==
  ASSUME TypeOK, GetChunk
  PROVE  TypeOK'
<1>1. faults' \in Nat /\ troubles' \in Nat /\ faults' + troubles' <= MaxEvents
  BY Counters DEF GetChunk
<1>2. receiver' \in Receivers /\ acks' \subseteq Acks
  BY Outcomes DEF GetChunk, TypeOK, Receivers, Acks
<1>3. local' \in Seq(Versions \cup {Gap}) /\ Len(local') <= Last + 1
  <2>1. Len(local) \in Nat /\ Len(local) <= Last => Len(local) \in Chunk
    BY BoundsAssumption DEF TypeOK, Chunk
  <2>2. CASE local' = local
    BY <2>2 DEF TypeOK
  <2>3. CASE Len(local) <= Last /\ local' = Append(local, part[Len(local)])
    <3>1. part[Len(local)] \in Versions \cup {Gap}
      BY <2>1, <2>3 DEF TypeOK, Contents
    <3>2. /\ local' \in Seq(Versions \cup {Gap})
          /\ Len(local') = Len(local) + 1
      BY <2>3, <3>1 DEF TypeOK
    <3>3. QED
      BY <2>1, <2>3, <3>2, BoundsAssumption
  <2>4. QED
    BY <2>2, <2>3 DEF GetChunk
<1>4. row' \in TransferRow /\ chunks' \subseteq Chunk /\ sweeps' \in 0..1
  <2>1. [row EXCEPT !.status = "paused"] \in TransferRow
    BY NewStatusRow DEF TypeOK, Statuses
  <2>2. QED
    BY <2>1, Expiry DEF TypeOK, GetChunk
<1>5. QED
  BY <1>1, <1>2, <1>3, <1>4 DEF TypeOK, GetChunk, Receivers, Acks

LEMMA FinishDownloadType ==
  ASSUME TypeOK, FinishDownload
  PROVE  TypeOK'
<1>1. faults' \in Nat /\ troubles' \in Nat /\ faults' + troubles' <= MaxEvents
  BY DEF TypeOK, FinishDownload, events
<1>2. receiver' \in Receivers /\ acks' \subseteq Acks
  BY Outcomes DEF FinishDownload
<1>3. local' \in Seq(Versions \cup {Gap}) /\ Len(local') <= Last + 1
  BY BoundsAssumption DEF FinishDownload
<1>4. Received \in Contents
  <2>1. \A c \in Chunk : c + 1 \in 1..Len(local)
    BY BoundsAssumption DEF TypeOK, FinishDownload, Chunk
  <2>2. \A c \in Chunk : local[c + 1] \in Versions \cup {Gap}
    BY <2>1 DEF TypeOK
  <2>3. QED
    BY <2>2 DEF Received, Contents
<1>5. QED
  BY <1>1, <1>2, <1>3, <1>4 DEF TypeOK, FinishDownload, host, Receivers, Acks

LEMMA AckTypes ==
  ASSUME TypeOK, NEW a \in acks, Ack(a) \/ AckFails(a)
  PROVE  TypeOK'
<1>1. faults' \in Nat /\ troubles' \in Nat /\ faults' + troubles' <= MaxEvents
  BY Counters DEF Ack, AckFails, Quiet
<1>2. sender' \in Senders /\ receiver' \in Receivers /\ acks' \subseteq Acks
  <2>1. sender' \in Senders /\ receiver' \in Receivers
    BY Outcomes DEF Ack, AckFails, Answered, TypeOK, Senders, Receivers
  <2>2. acks \subseteq Acks
    BY DEF TypeOK, Acks
  <2>3. acks' \subseteq Acks
    BY <2>2, Unwaited DEF Ack, AckFails
  <2>4. QED
    BY <2>1, <2>3
<1>3. row' \in TransferRow
  <2>1. CASE AckFails(a)
    BY <2>1 DEF AckFails, host, TypeOK
  <2>2. CASE Ack(a)
    <3>1. [row EXCEPT !.status = "failed"] \in TransferRow
      BY NewStatusRow DEF TypeOK, Statuses
    <3>2. [row EXCEPT !.status = "completed", !.done = Last + 1] \in TransferRow
      <4>1. Last + 1 \in 0..Last + 1
        BY BoundsAssumption
      <4>2. QED
        BY <4>1 DEF TypeOK, TransferRow, Statuses
    <3>3. QED
      BY <2>2, <3>1, <3>2 DEF Ack, TypeOK
  <2>3. QED
    BY <2>1, <2>2
<1>4. /\ cmd' \in [Legs -> {"none", "queued", "leased", "completed", "failed"}]
      /\ sweeps' \in 0..1
      /\ notices' \subseteq {"completed", "failed"}
  BY DEF TypeOK, Ack, AckFails, host, Sweep
<1>5. /\ chunks' = chunks /\ part' = part /\ calls' = calls /\ edit' = edit
      /\ UNCHANGED <<kind, src, local, arrived, late, exposed>>
  BY DEF Ack, AckFails, host
<1>6. QED
  BY <1>1, <1>2, <1>3, <1>4, <1>5 DEF TypeOK, Senders, Receivers, Acks

LEMMA EditedRow ==
  ASSUME NEW e \in Edits
  PROVE  /\ e.act \in Acts /\ e.seen \in TransferRow
         /\ Edited(e) \in TransferRow
         /\ Edited(e).status = NewStatus(e.act)
         /\ Edited(e).sha = e.seen.sha
         /\ Edited(e).done = IF Drops(e.act) THEN 0 ELSE e.seen.done
<1>1. e.act \in Acts /\ e.seen \in TransferRow
  BY DEF Edits
<1>2. NewStatus(e.act) \in Statuses
  BY DEF NewStatus, Statuses
<1> DEFINE r == [e.seen EXCEPT !.status = NewStatus(e.act)]
<1>3. /\ r \in TransferRow /\ r.status = NewStatus(e.act)
      /\ r.done = e.seen.done /\ r.sha = e.seen.sha
  BY <1>1, <1>2, NewStatusRow
<1>4. Edited(e) = IF Drops(e.act) THEN Emptied(r) ELSE r
  BY DEF Edited
<1>5. QED
  <2> HIDE DEF r
  <2>1. QED
    BY <1>1, <1>3, <1>4, EmptiedRow

LEMMA EditTypes ==
  ASSUME TypeOK, CommitEdit \/ \E act \in Acts : OpenEdit(act)
  PROVE  TypeOK'
<1>1. CASE \E act \in Acts : OpenEdit(act)
  <2>1. edit' \in Edits
    BY <1>1 DEF TypeOK, OpenEdit, Edits
  <2>2. faults' \in Nat /\ troubles' \in Nat /\ faults' + troubles' <= MaxEvents
    BY <1>1, Counters DEF OpenEdit
  <2>3. QED
    BY <1>1, <2>1, <2>2 DEF TypeOK, OpenEdit, agents
<1>2. CASE CommitEdit
  <2>1. edit \in Edits
    BY <1>2 DEF CommitEdit, TypeOK
  <2>2. row' \in TransferRow
    BY <1>2, <2>1, EditedRow, WrittenRow DEF TypeOK, CommitEdit
  <2>3. cmd' \in [Legs -> {"none", "queued", "leased", "completed", "failed"}]
    BY <1>2, <2>1, EditedRow, Queueing DEF TypeOK, CommitEdit
  <2>4. exposed' \in BOOLEAN
    BY <1>2 DEF CommitEdit, Expose
  <2>5. chunks' \in {chunks, {}} /\ sweeps' \in {sweeps, 1}
    BY <1>2 DEF CommitEdit, Sweep
  <2>6. QED
    BY <1>2, <2>2, <2>3, <2>4, <2>5 DEF TypeOK, CommitEdit, agents, events
<1>3. QED
  BY <1>1, <1>2

LEMMA OtherTypes ==
  ASSUME TypeOK, \/ Cleanup \/ Reclaim \/ TimePasses \/ SourceChanges
                 \/ HostRestarts
  PROVE  TypeOK'
<1>1. CASE Cleanup
  BY <1>1, Constants DEF TypeOK, Cleanup, Expose, agents, events
<1>2. CASE Reclaim
  <2>1. faults' \in Nat /\ troubles' \in Nat /\ faults' + troubles' <= MaxEvents
    BY <1>2, Counters DEF Reclaim
  <2> DEFINE r == [row EXCEPT !.status = IF @ \in Ended THEN @ ELSE "expired"]
  <2>2. r \in TransferRow
    BY DEF TypeOK, TransferRow, Statuses
  <2>3. Emptied(r) \in TransferRow
    <3> HIDE DEF r
    <3>1. QED
      BY <2>2, EmptiedRow
  <2>4. row' \in {row, Emptied(r)} /\ chunks' \in {chunks, {}}
    BY <1>2 DEF Reclaim
  <2>5. exposed' \in BOOLEAN
    BY <1>2 DEF TypeOK, Reclaim, Expose
  <2>6. part' \in Contents
    BY <1>2, Constants DEF Reclaim
  <2>7. UNCHANGED <<kind, cmd, calls, edit, sweeps, notices, agents, src, local,
                    arrived, late>>
    BY <1>2 DEF Reclaim
  <2>8. QED
    <3> HIDE DEF r
    <3>1. QED
      BY <2>1, <2>3, <2>4, <2>5, <2>6, <2>7 DEF TypeOK, agents
<1>3. CASE TimePasses \/ SourceChanges
  <2>1. faults' \in Nat /\ troubles' \in Nat /\ faults' + troubles' <= MaxEvents
    BY <1>3, Counters DEF TimePasses, SourceChanges
  <2>2. src' \in Versions
    BY <1>3, BoundsAssumption DEF TypeOK, TimePasses, SourceChanges, Versions
  <2>3. QED
    BY <1>3, <2>1, <2>2 DEF TypeOK, TimePasses, SourceChanges, host, agents
<1>4. CASE HostRestarts
  <2>1. faults' \in Nat /\ troubles' \in Nat /\ faults' + troubles' <= MaxEvents
    BY <1>4, Counters DEF HostRestarts
  <2>2. sender' \in Senders /\ acks' \subseteq Acks
    BY <1>4, Outcomes DEF HostRestarts, TypeOK, Senders, Acks
  <2>3. QED
    BY <1>4, <2>1, <2>2 DEF TypeOK, HostRestarts, Senders, Acks
<1>5. QED
  BY <1>1, <1>2, <1>3, <1>4

LEMMA TypeStep == TypeOK /\ [Next]_vars => TypeOK'
<1> SUFFICES ASSUME TypeOK, [Next]_vars PROVE TypeOK'
  OBVIOUS
<1>1. CASE UNCHANGED vars
  BY <1>1 DEF TypeOK, vars, host, agents, events
<1>2. CASE Next
  BY <1>2, PollTypes, SenderTypes, SendChunkType, WriteChunkType, StoreChunkType,
     FailCallType, FinalizeType, ReceiverTypes, GetChunkType, FinishDownloadType,
     AckTypes, EditTypes, OtherTypes
  DEF Next, SenderSteps, ReceiverSteps, HostSteps, Disturbances
<1>3. QED
  BY <1>1, <1>2

(* Every variable keeps to its type; in particular no more chunks are counted *)
(* than the file has (upload_chunk counts the rows again, however often a     *)
(* chunk was sent). *)
THEOREM TypeCorrect == Spec => []TypeOK
  BY InitType, TypeStep, PTL DEF Spec
-----------------------------------------------------------------------------
(* Completed transfers have arrived                                         *)

\* A download is reported done only when its file is in place.
Reported == \A a \in acks : a.leg = "download" /\ a.ok => arrived # {}

\* What storing a chunk leaves of the row and of its chunks.
LEMMA StoreChunkRow ==
  ASSUME TypeOK, NEW h \in calls, StoreChunk(h)
  PROVE  LET S == chunks \cup {h.chunk}
             n == Cardinality(S)
         IN \/ row' = row /\ chunks' = chunks
            \/ /\ chunks' = S
               /\ row'.status = IF h.seen.status = "transferring" THEN row.status
                                ELSE "transferring"
               /\ row'.done = IF n = h.seen.done THEN row.done ELSE n
               /\ \/ n <= Last /\ row'.sha = row.sha
                  \/ /\ S = Chunk /\ n = Last + 1
                     /\ h.seen.sha \in {NoHash, part}
                     /\ row'.sha = IF h.seen.sha = part THEN row.sha ELSE part
            \/ /\ chunks' = {}
               /\ row'.status = IF h.seen.status = "failed" THEN row.status
                                ELSE "failed"
               /\ row'.done = IF h.seen.done = 0 THEN row.done ELSE 0
               /\ row'.sha = row.sha
<1> DEFINE S == chunks \cup {h.chunk}
           n == Cardinality(S)
           new == StoredRow(h.seen, S)
           failed == FailedRow(new)
<1>1. /\ h.seen \in TransferRow /\ h.chunk \in Chunk /\ S \in SUBSET Chunk
      /\ row \in TransferRow /\ part \in Contents
  BY Calls DEF StoreChunk, TypeOK
<1>2. /\ new \in TransferRow /\ new.done = n /\ new.sha = h.seen.sha
      /\ new.status = "transferring"
      /\ AllReceived(new) \in TransferRow /\ AllReceived(new).done = n
      /\ AllReceived(new).sha = part
      /\ AllReceived(new).status = "transferring"
      /\ failed \in TransferRow /\ failed.status = "failed"
      /\ failed.done = 0 /\ failed.sha = h.seen.sha
  BY ONLY <1>1, Stored
<1>3. \/ row' = row /\ chunks' = chunks
      \/ /\ chunks' = S
         /\ \/ ~(new.done > Last) /\ row' = Written(h.seen, new)
            \/ /\ new.done > Last /\ h.seen.sha \in {NoHash, part}
               /\ row' = Written(h.seen, AllReceived(new))
      \/ chunks' = {} /\ row' = Written(h.seen, failed)
  BY DEF StoreChunk, StoredRow, FailedRow
<1>4. n \in 0..Last + 1 /\ (n > Last => S = Chunk)
  <2> HIDE DEF S
  <2>1. QED
    BY <1>1, ChunkCount
<1>5. ASSUME NEW x \in TransferRow, row' = Written(h.seen, x)
      PROVE  /\ row'.status = IF x.status = h.seen.status THEN row.status ELSE x.status
             /\ row'.done = IF x.done = h.seen.done THEN row.done ELSE x.done
             /\ row'.sha = IF x.sha = h.seen.sha THEN row.sha ELSE x.sha
  BY <1>1, <1>5, WrittenRow
<1> HIDE DEF new, failed, S, n
<1>6. CASE row' = row /\ chunks' = chunks
  BY <1>6
<1>7. CASE chunks' = S /\ ~(new.done > Last) /\ row' = Written(h.seen, new)
  <2>1. n <= Last
    BY <1>2, <1>4, <1>7, BoundsAssumption
  <2>2. QED
    BY <1>2, <1>5, <1>7, <2>1 DEF S, n
<1>8. CASE /\ chunks' = S /\ new.done > Last /\ h.seen.sha \in {NoHash, part}
           /\ row' = Written(h.seen, AllReceived(new))
  <2>1. n = Last + 1 /\ S = Chunk
    BY <1>2, <1>4, <1>8, BoundsAssumption
  <2>2. QED
    BY <1>2, <1>5, <1>8, <2>1 DEF S, n
<1>9. CASE chunks' = {} /\ row' = Written(h.seen, failed)
  BY <1>2, <1>5, <1>9
<1>10. QED
  BY <1>3, <1>6, <1>7, <1>8, <1>9

\* What finalize leaves.
LEMMA FinalizeRow ==
  ASSUME TypeOK, NEW h \in calls, Finalize(h)
  PROVE  \/ row' = row /\ chunks' = chunks /\ arrived' = arrived /\ cmd' = cmd
         \/ /\ row'.status = IF h.seen.status = "failed" THEN row.status
                             ELSE "failed"
            /\ row'.done = IF h.seen.done = 0 THEN row.done ELSE 0
            /\ row'.sha = row.sha
            /\ chunks' = {} /\ arrived' = arrived /\ cmd' = cmd
         \/ /\ h.seen.done > Last /\ h.seen.sha \in {NoHash, part}
            /\ row'.done = row.done
            /\ row'.sha = IF h.seen.sha = part THEN row.sha ELSE part
            /\ chunks' = chunks
            /\ \/ /\ kind = "device_to_host" /\ cmd' = cmd
                  /\ row'.status = IF h.seen.status = "completed" THEN row.status
                                   ELSE "completed"
                  /\ arrived' = arrived \cup {part}
               \/ /\ kind # "device_to_host"
                  /\ row'.status = IF h.seen.status = "transferring" THEN row.status
                                   ELSE "transferring"
                  /\ arrived' = arrived
                  /\ \E r \in TransferRow : r.done > Last /\ cmd' = Queue(r)
<1> DEFINE new == FinalRow(h.seen)
           failed == FailedRow(h.seen)
           completed == EndedRow(h.seen, "completed")
           moving == EndedRow(h.seen, "transferring")
<1>1. h.seen \in TransferRow /\ row \in TransferRow /\ part \in Contents
  BY Calls DEF TypeOK
<1>2. /\ failed \in TransferRow /\ failed.status = "failed"
      /\ failed.done = 0 /\ failed.sha = h.seen.sha
      /\ moving \in TransferRow /\ moving.status = "transferring"
      /\ moving.done = h.seen.done /\ moving.sha = part
      /\ completed \in TransferRow /\ completed.status = "completed"
      /\ completed.done = h.seen.done /\ completed.sha = part
      /\ new \in TransferRow /\ new.done = h.seen.done
  <2>1. "completed" \in Statuses /\ "transferring" \in Statuses
    BY DEF Statuses
  <2>2. QED
    BY ONLY <1>1, <2>1, Finalized, Failed
<1>3. \/ UNCHANGED <<row, chunks, arrived, cmd>>
      \/ /\ row' = Written(h.seen, failed) /\ chunks' = {}
         /\ UNCHANGED <<arrived, cmd>>
      \/ /\ h.seen.done > Last /\ h.seen.sha \in {NoHash, part}
         /\ chunks' = chunks
         /\ \/ /\ kind = "device_to_host" /\ cmd' = cmd
               /\ row' = Written(h.seen, completed)
               /\ arrived' = arrived \cup {part}
            \/ /\ kind # "device_to_host" /\ cmd' = Queue(new)
               /\ row' = Written(h.seen, moving)
               /\ arrived' = arrived
  BY DEF Finalize, FailedRow, FinalRow, EndedRow
<1>5. ASSUME NEW x \in TransferRow, row' = Written(h.seen, x)
      PROVE  /\ row'.status = IF x.status = h.seen.status THEN row.status ELSE x.status
             /\ row'.done = IF x.done = h.seen.done THEN row.done ELSE x.done
             /\ row'.sha = IF x.sha = h.seen.sha THEN row.sha ELSE x.sha
  BY <1>1, <1>5, WrittenRow
<1> HIDE DEF new, failed, completed, moving
<1>6. CASE UNCHANGED <<row, chunks, arrived, cmd>>
  BY <1>6
<1>7. CASE /\ row' = Written(h.seen, failed) /\ chunks' = {}
           /\ UNCHANGED <<arrived, cmd>>
  BY <1>2, <1>5, <1>7
<1>8. CASE /\ h.seen.done > Last /\ h.seen.sha \in {NoHash, part}
           /\ chunks' = chunks
           /\ kind = "device_to_host" /\ cmd' = cmd
           /\ row' = Written(h.seen, completed)
           /\ arrived' = arrived \cup {part}
  BY <1>2, <1>5, <1>8
<1>9. CASE /\ h.seen.done > Last /\ h.seen.sha \in {NoHash, part}
           /\ chunks' = chunks
           /\ kind # "device_to_host" /\ cmd' = Queue(new)
           /\ row' = Written(h.seen, moving)
           /\ arrived' = arrived
  BY <1>2, <1>5, <1>9
<1>10. QED
  BY <1>3, <1>6, <1>7, <1>8, <1>9

\* An acknowledgement that is no longer waited for says the same.
LEMMA UnawaitedSays ==
  ASSUME TypeOK, NEW S \in SUBSET acks, NEW x \in Unawaited(S)
  PROVE  \E y \in S : y.leg = x.leg /\ y.ok = x.ok
<1>1. PICK y \in S : x = [y EXCEPT !.awaited = FALSE]
  BY DEF Unawaited
<1>2. y \in Acks
  BY DEF TypeOK, Acks
<1>3. QED
  BY <1>1, <1>2 DEF Acks

LEMMA RestartedSays ==
  ASSUME TypeOK, SenderRestarts \/ ReceiverRestarts
  PROVE  \A x \in acks' : \E y \in acks : y.leg = x.leg /\ y.ok = x.ok
<1> DEFINE Of(leg) == {a \in acks : a.leg = leg}
<1>1. \A leg \in Legs : \A x \in Unawaited(Of(leg)) :
        \E y \in acks : y.leg = x.leg /\ y.ok = x.ok
  <2> TAKE leg \in Legs
  <2>1. Of(leg) \in SUBSET acks
    OBVIOUS
  <2> HIDE DEF Of
  <2>2. QED
    BY <2>1, UnawaitedSays
<1>2. \E leg \in Legs : acks' \subseteq acks \cup Unawaited(Of(leg))
  BY DEF SenderRestarts, ReceiverRestarts, Legs
<1>3. QED
  <2> HIDE DEF Of
  <2>1. QED
    BY <1>1, <1>2

LEMMA EditStatus ==
  ASSUME TypeOK, CommitEdit, row'.status = "completed"
  PROVE  row.status = "completed"
<1>1. edit \in Edits /\ row' = Written(edit.seen, Edited(edit))
  BY DEF CommitEdit, TypeOK
<1>2. NewStatus(edit.act) # "completed"
  BY DEF NewStatus
<1>3. QED
  BY <1>1, <1>2, EditedRow, WrittenRow DEF TypeOK

LEMMA ArrivedGrows == [Next]_vars => arrived \subseteq arrived'
  BY Zenon DEF Next, vars, host, agents, PollUpload, PollDownload, SenderSteps,
     BeginUpload, SendChunk, AskFinalize, ReceiverSteps, BeginDownload, GetChunk,
     FinishDownload, HostSteps, WriteChunk, StoreChunk, Finalize, Ack, Cleanup,
     CommitEdit, Reclaim, Disturbances, FailCall, AckFails, ChunkTimesOut,
     FinalizeTimesOut, OpenEdit, TimePasses, SourceChanges, HostRestarts,
     SenderRestarts, ReceiverRestarts

LEMMA ArrivedStep ==
  TypeOK /\ CompletedMeansArrived /\ Reported /\ [Next]_vars
    => CompletedMeansArrived' /\ Reported'
<1> SUFFICES ASSUME TypeOK, CompletedMeansArrived, Reported, [Next]_vars
             PROVE  CompletedMeansArrived' /\ Reported'
  OBVIOUS
<1>1. arrived \subseteq arrived'
  BY ArrivedGrows
<1>2. CASE UNCHANGED vars
  BY <1>2 DEF vars, host, agents, CompletedMeansArrived, Reported
<1>3. CASE PollUpload \/ PollDownload \/ BeginUpload \/ AskFinalize
  BY <1>3 DEF PollUpload, PollDownload, BeginUpload, AskFinalize, host, agents,
     SenderReports, Report, CompletedMeansArrived, Reported
<1>4. CASE SendChunk
  BY <1>4, Expiry, NewStatusRow DEF TypeOK, SendChunk, SenderStops,
     CompletedMeansArrived, Reported, Statuses
<1>5. CASE BeginDownload \/ GetChunk
  <2>1. acks' = acks \/ Report("download", FALSE)
    BY <1>5 DEF BeginDownload, GetChunk, ReceiverReports
  <2>2. row'.status = "completed" => row.status = "completed"
    BY <1>5, Expiry, NewStatusRow DEF TypeOK, BeginDownload, GetChunk, host, Statuses
  <2>3. QED
    BY <1>1, <2>1, <2>2 DEF Report, CompletedMeansArrived, Reported
<1>6. CASE FinishDownload
  BY <1>1, <1>6 DEF FinishDownload, ReceiverReports, Report, host,
     CompletedMeansArrived, Reported
<1>7. CASE \E h \in calls : WriteChunk(h) \/ FailCall(h)
  BY <1>7 DEF WriteChunk, FailCall, agents, SenderStops, SenderReports, Report,
     CompletedMeansArrived, Reported
<1>8. CASE \E h \in calls : StoreChunk(h)
  <2>1. PICK h \in calls : StoreChunk(h)
    BY <1>8
  <2>2. CompletedMeansArrived'
    BY <1>1, <2>1, StoreChunkRow DEF CompletedMeansArrived
  <2>3. acks' = acks \/ Report("upload", FALSE)
    BY <2>1 DEF StoreChunk, SenderReports, SenderStops, SenderGoesOn
  <2>4. QED
    BY <1>1, <2>2, <2>3 DEF Report, Reported
<1>9. CASE \E h \in calls : Finalize(h)
  <2>1. CompletedMeansArrived'
    BY <1>1, <1>9, FinalizeRow DEF CompletedMeansArrived
  <2>2. acks' = acks \/ \E ok \in BOOLEAN : Report("upload", ok)
    BY <1>9 DEF Finalize, SenderReports
  <2>3. QED
    BY <1>1, <2>1, <2>2 DEF Report, Reported
<1>10. CASE \E a \in acks : Ack(a)
  <2>1. PICK a \in acks : Ack(a)
    BY <1>10
  <2>2. Reported'
    BY <1>1, <2>1 DEF Ack, Reported
  <2>3. CompletedMeansArrived'
    BY <1>1, <2>1, NewStatusRow DEF TypeOK, Ack, Reported, CompletedMeansArrived,
       Statuses
  <2>4. QED
    BY <2>2, <2>3
<1>11. CASE \E a \in acks : AckFails(a)
  BY <1>11, UnawaitedSays DEF AckFails, host, CompletedMeansArrived, Reported
<1>12. CASE Cleanup \/ \E act \in Acts : OpenEdit(act)
  BY <1>12 DEF Cleanup, OpenEdit, agents, CompletedMeansArrived, Reported
<1>13. CASE CommitEdit
  BY <1>1, <1>13, EditStatus DEF CommitEdit, agents, CompletedMeansArrived, Reported
<1>14. CASE Reclaim
  <2> DEFINE r == [row EXCEPT !.status = IF @ \in Ended THEN @ ELSE "expired"]
  <2>1. r \in TransferRow /\ r.status # "completed"
    BY DEF TypeOK, TransferRow, Statuses, Ended
  <2>2. Emptied(r).status # "completed"
    <3> HIDE DEF r
    <3>1. QED
      BY <2>1, EmptiedRow
  <2>3. QED
    BY <1>14, <2>2 DEF Reclaim, agents, CompletedMeansArrived, Reported
<1>15. CASE ChunkTimesOut \/ FinalizeTimesOut
  BY <1>15 DEF ChunkTimesOut, FinalizeTimesOut, SenderStops, SenderReports, Report,
     CompletedMeansArrived, Reported
<1>16. CASE TimePasses \/ SourceChanges
  BY <1>16 DEF TimePasses, SourceChanges, host, agents, CompletedMeansArrived,
     Reported
<1>17. CASE HostRestarts
  BY <1>17 DEF HostRestarts, SenderStops, SenderReports, Report,
     CompletedMeansArrived, Reported
<1>18. CASE SenderRestarts \/ ReceiverRestarts
  <2>1. \A x \in acks' : \E y \in acks : y.leg = x.leg /\ y.ok = x.ok
    BY <1>18, RestartedSays
  <2>2. QED
    BY <1>1, <1>18, <2>1 DEF SenderRestarts, ReceiverRestarts, host,
       CompletedMeansArrived, Reported
<1>19. QED
  BY <1>2, <1>3, <1>4, <1>5, <1>6, <1>7, <1>8, <1>9, <1>10, <1>11, <1>12, <1>13,
     <1>14, <1>15, <1>16, <1>17, <1>18
  DEF Next, SenderSteps, ReceiverSteps, HostSteps, Disturbances

(* A transfer is shown as completed only once its file is where it was to go *)
(* (ack_command and finalize_device_upload set the status; what they rest on *)
(* is a report that may be late or repeated). *)
THEOREM CompletedHaveArrived == Spec => []CompletedMeansArrived
<1>1. Init => CompletedMeansArrived /\ Reported
  BY DEF Init, CompletedMeansArrived, Reported
<1>2. QED
  BY <1>1, TypeCorrect, ArrivedStep, PTL DEF Spec
-----------------------------------------------------------------------------
(* What arrives is one version                                              *)

(* The source is still its first version when finalize is asked for, so what *)
(* was hashed by then is of that version alone; the recorded hash never      *)
(* changes again, and what arrives matches it.                               *)

First == Snapshot(1)

\* Nothing is newer than the source.
Bounded ==
  /\ \A c \in Chunk : part[c] <= src
  /\ \A h \in calls : h.op = "chunk" => h.body <= src
  /\ row.sha # NoHash => \A c \in Chunk : row.sha[c] <= src

\* Nothing happens before the approval.
Waiting ==
  row.status = "awaiting_approval" =>
    /\ row.done = 0 /\ chunks = {} /\ calls = {} /\ acks = {}
    /\ sender.at = "idle" /\ receiver.at = "idle"
    /\ cmd = [leg \in Legs |-> "none"]
    /\ edit # Nobody => edit.seen.status = "awaiting_approval"

EditFits ==
  edit # Nobody =>
    /\ edit.act = "pause" => edit.seen.status \in Active
    /\ edit.act = "resume" => edit.seen.status = "paused"
    /\ edit.act = "retry" => edit.seen.status \in {"failed", "expired"}
    /\ edit.act = "cancel" => edit.seen.status # "cancelled"
    /\ edit.seen.status = "awaiting_approval" => edit.seen.done = 0

\* A file of the host is uploaded by nobody.
OfHost ==
  kind = "host_to_device" =>
    /\ row.sha = First /\ chunks = {} /\ calls = {}
    /\ sender.at = "idle" /\ cmd["upload"] = "none"
    /\ \A a \in acks : a.leg # "upload"

\* Nobody downloads a file for the host.
ToHost ==
  kind = "device_to_host" =>
    /\ cmd["download"] = "none" /\ receiver.at = "idle"
    /\ \A a \in acks : a.leg # "download"

Basic == Bounded /\ Waiting /\ EditFits /\ OfHost /\ ToHost

SeenRows == {h.seen : h \in calls} \cup {e.seen : e \in {edit} \ {Nobody}}

\* All chunks are counted only when their hash is recorded.
Hashed ==
  FromDevice =>
    /\ row.done > Last => row.sha # NoHash
    /\ \A r \in SeenRows : r.done > Last => r.sha # NoHash

WrittenOnce == \A r \in SeenRows : r.sha # NoHash => row.sha = r.sha

\* What counts as received is in the file.
Present ==
  /\ row.sha # NoHash => \A c \in Chunk : row.sha[c] # Gap
  /\ (row.status \in Active \/ (row.status = "paused" /\ row.done <= Last)) =>
       \A c \in chunks : part[c] # Gap
  /\ row.status = "completed" /\ kind = "device_to_device" =>
       row.done > Last \/ chunks = {}

Final ==
  \A h \in calls : h.op = "finalize" /\ h.seen.sha # NoHash => h.seen.sha = First

\* A download is of the first version, whole.
Downloads ==
  /\ cmd["download"] # "none" => row.sha = First
  /\ receiver.at # "idle" => cmd["download"] # "none"
  /\ receiver.at = "get" => receiver.want = First
  /\ \A a \in acks : a.leg = "download" => cmd["download"] # "none"
  /\ \A f \in arrived : f = First

Intact == Hashed /\ WrittenOnce /\ Present /\ Final /\ Downloads

Inv == TypeOK /\ Basic /\ (~exposed => Intact)

\* The next-state relation, action by action.
AgentStep == PollUpload \/ PollDownload \/ BeginUpload \/ AskFinalize
             \/ BeginDownload \/ FinishDownload \/ ChunkTimesOut
             \/ FinalizeTimesOut \/ SenderRestarts \/ ReceiverRestarts
             \/ (\E a \in acks : AckFails(a)) \/ TimePasses \/ SourceChanges
HostStep == (\E h \in calls : WriteChunk(h) \/ FailCall(h)) \/ Cleanup
            \/ HostRestarts \/ \E act \in Acts : OpenEdit(act)

LEMMA Steps ==
  Next <=> \/ AgentStep \/ HostStep \/ SendChunk \/ GetChunk \/ Reclaim \/ CommitEdit
           \/ \E a \in acks : Ack(a)
           \/ \E h \in calls : StoreChunk(h) \/ Finalize(h)
  BY DEF Next, SenderSteps, ReceiverSteps, HostSteps, Disturbances, AgentStep, HostStep

LEMMA AgentsKeepRow == AgentStep => UNCHANGED <<row, chunks, part, kind, edit>>
  BY DEF AgentStep, PollUpload, PollDownload, BeginUpload, AskFinalize,
     BeginDownload, FinishDownload, ChunkTimesOut, FinalizeTimesOut,
     SenderRestarts, ReceiverRestarts, AckFails, TimePasses, SourceChanges, host

LEMMA HostKeepsRow == HostStep => UNCHANGED <<row, chunks, cmd, kind, receiver, src, arrived>>
  BY DEF HostStep, WriteChunk, FailCall, Cleanup, HostRestarts, OpenEdit, agents

\* Where the requests on the host come from.
Same(h, k) == /\ h.op = k.op /\ h.seen = k.seen
              /\ h.op = "chunk" => h.body = k.body

LEMMA UnawaitedIsSame ==
  ASSUME TypeOK, NEW h \in Unawaited(calls)
  PROVE  \E k \in calls : Same(h, k)
<1>1. PICK k \in calls : h = [k EXCEPT !.awaited = FALSE]
  BY DEF Unawaited
<1>2. k \in ChunkCalls \/ k \in FinalizeCalls
  BY DEF TypeOK
<1>3. Same(h, k)
  BY <1>1, <1>2 DEF Same, ChunkCalls, FinalizeCalls
<1>4. QED
  BY <1>3

LEMMA CallsCome ==
  ASSUME TypeOK, Next, NEW h \in calls'
  PROVE  \/ \E k \in calls : Same(h, k)
         \/ /\ SendChunk /\ sender.at = "send" /\ row.status \in Active
            /\ h.op = "chunk" /\ h.seen = row /\ h.body = src
         \/ /\ AskFinalize /\ sender.at = "send" /\ src = 1
            /\ h.op = "finalize" /\ h.seen = row
<1>1. CASE h \in calls
  BY <1>1 DEF Same
<1>2. CASE h \in Unawaited(calls)
  BY <1>2, UnawaitedIsSame
<1>3. CASE AskFinalize /\ h \notin calls
  <2>1. h = FinalizeCall /\ SourceUnchanged /\ sender.at = "send"
    BY <1>3 DEF AskFinalize
  <2>2. FinalizeCall.op = "finalize" /\ FinalizeCall.seen = row
    BY DEF FinalizeCall
  <2>3. QED
    BY <1>3, <2>1, <2>2 DEF SourceUnchanged
<1>4. CASE SendChunk /\ h \notin calls
  BY <1>4 DEF SendChunk, ChunkCall
<1>5. CASE (\E k \in calls : WriteChunk(k)) /\ h \notin calls
  <2>1. PICK k \in calls : WriteChunk(k)
    BY <1>5
  <2>2. k \in ChunkCalls /\ h = [k EXCEPT !.wrote = TRUE]
    BY <1>5, <2>1 DEF WriteChunk, TypeOK, FinalizeCalls
  <2>3. Same(h, k)
    BY <2>2 DEF Same, ChunkCalls
  <2>4. QED
    BY <2>3
<1>6. CASE AgentStep /\ ~AskFinalize
  BY <1>1, <1>2, <1>6 DEF AgentStep, PollUpload, PollDownload, BeginUpload,
     BeginDownload, FinishDownload, ChunkTimesOut, FinalizeTimesOut,
     SenderRestarts, ReceiverRestarts, AckFails, TimePasses, SourceChanges, host
<1>7. CASE HostStep /\ ~\E k \in calls : WriteChunk(k)
  BY <1>1, <1>7 DEF HostStep, FailCall, Cleanup, HostRestarts, OpenEdit
<1>8. CASE GetChunk \/ Reclaim \/ CommitEdit \/ \E a \in acks : Ack(a)
  BY <1>1, <1>8 DEF GetChunk, Reclaim, CommitEdit, Ack
<1>9. CASE \E k \in calls : StoreChunk(k) \/ Finalize(k)
  BY <1>1, <1>9 DEF StoreChunk, Finalize
<1>10. QED
  BY <1>1, <1>3, <1>4, <1>5, <1>6, <1>7, <1>8, <1>9, Steps

LEMMA EditsCome ==
  ASSUME TypeOK, Next, edit' # Nobody, edit' # edit
  PROVE  /\ edit'.seen = row /\ UNCHANGED <<row, calls, acks, sender, receiver, cmd>>
         /\ Allowed(edit'.act) /\ edit' \in Edits
<1>1. \E act \in Acts : OpenEdit(act)
  BY Steps, AgentsKeepRow, Zenon DEF HostStep, SendChunk, GetChunk, Reclaim, CommitEdit, Ack,
     StoreChunk, Finalize, WriteChunk, FailCall, Cleanup, HostRestarts
<1>2. QED
  BY <1>1 DEF OpenEdit, agents, TypeOK, Edits

LEMMA SeenCome ==
  ASSUME TypeOK, Next, NEW r \in SeenRows'
  PROVE  r \in SeenRows \/ r = row
  BY CallsCome, EditsCome DEF SeenRows, Same

\* What becomes of the row, but for the steps that write what they have seen.
LEMMA RowChanges ==
  ASSUME TypeOK, Next,
         ~ \E h \in calls : StoreChunk(h) \/ Finalize(h), ~CommitEdit
  PROVE  /\ row'.sha = row.sha
         /\ \/ row' = row /\ chunks' = chunks
            \/ /\ row'.status \in Ended /\ row'.done = 0 /\ chunks' = {}
            \/ /\ row'.status = "paused" /\ row'.done = row.done /\ chunks' = chunks
               /\ \/ row.status \in Active
                  \/ row.status = "completed" /\ receiver.at = "get"
            \/ /\ row'.status = "failed" /\ row'.done = row.done /\ chunks' = chunks
               /\ acks # {}
            \/ /\ row'.status = "completed" /\ row'.done = Last + 1
               /\ chunks' = chunks
               /\ \E a \in acks : a.leg = "download"
<1>1. row \in TransferRow
  BY DEF TypeOK
<1>2. CASE AgentStep \/ HostStep
  BY <1>2, AgentsKeepRow, HostKeepsRow
<1>3. CASE SendChunk
  <2>1. CASE Expire
    BY <2>1, Expiry DEF Ended
  <2>2. CASE ~Expire
    <3> DEFINE p == [row EXCEPT !.status = "paused"]
    <3>1. p.status = "paused" /\ p.done = row.done /\ p.sha = row.sha
      BY <1>1, NewStatusRow DEF Statuses
    <3>2. \/ row' = row /\ chunks' = chunks
          \/ /\ row' = p /\ chunks' = chunks
             /\ \/ row.status \in Active
                \/ row.status = "completed" /\ receiver.at = "get"
      BY <1>3, <2>2 DEF SendChunk
    <3> HIDE DEF p
    <3>3. QED
      BY <3>1, <3>2
  <2>3. QED
    BY <2>1, <2>2
<1>4. CASE GetChunk
  <2>1. CASE Expire
    BY <2>1, Expiry DEF Ended
  <2>2. CASE ~Expire
    <3> DEFINE p == [row EXCEPT !.status = "paused"]
    <3>1. p.status = "paused" /\ p.done = row.done /\ p.sha = row.sha
      BY <1>1, NewStatusRow DEF Statuses
    <3>2. \/ row' = row /\ chunks' = chunks
          \/ /\ row' = p /\ chunks' = chunks
             /\ \/ row.status \in Active
                \/ row.status = "completed" /\ receiver.at = "get"
      BY <1>4, <2>2 DEF GetChunk
    <3> HIDE DEF p
    <3>3. QED
      BY <3>1, <3>2
  <2>3. QED
    BY <2>1, <2>2
<1>5. CASE Reclaim
  <2> DEFINE r == [row EXCEPT !.status = IF @ \in Ended THEN @ ELSE "expired"]
  <2>1. r \in TransferRow /\ r.status \in Ended /\ r.sha = row.sha
    BY <1>1 DEF TransferRow, Statuses, Ended
  <2>2. \/ row' = row /\ chunks' = chunks
        \/ row' = Emptied(r) /\ chunks' = {}
    BY <1>5 DEF Reclaim
  <2>3. QED
    <3> HIDE DEF r
    <3>1. QED
      BY <2>1, <2>2, EmptiedRow
<1>6. CASE \E a \in acks : Ack(a)
  <2>1. PICK a \in acks : Ack(a)
    BY <1>6
  <2>2. chunks' = chunks
    BY <2>1 DEF Ack
  <2>3. CASE row' = [row EXCEPT !.status = "failed"]
    BY <1>1, <2>1, <2>2, <2>3, NewStatusRow DEF Statuses
  <2>4. CASE a.leg = "download" /\ row' = [row EXCEPT !.status = "completed", !.done = Last + 1]
    BY <1>1, <2>1, <2>2, <2>4 DEF TransferRow
  <2>5. CASE row' = row
    BY <2>2, <2>5
  <2>6. QED
    BY <2>1, <2>3, <2>4, <2>5 DEF Ack
<1>7. QED
  BY <1>2, <1>3, <1>4, <1>5, <1>6, Steps

LEMMA EditedSha ==
  ASSUME TypeOK, CommitEdit
  PROVE  /\ edit \in Edits /\ row'.sha = row.sha /\ row'.done \in {0, row.done}
         /\ row'.status = IF NewStatus(edit.act) = edit.seen.status THEN row.status
                          ELSE NewStatus(edit.act)
         /\ ~Drops(edit.act) => row'.done = row.done
<1>1. edit \in Edits /\ row' = Written(edit.seen, Edited(edit))
  BY DEF CommitEdit, TypeOK
<1>2. QED
  BY <1>1, EditedRow, WrittenRow DEF TypeOK

LEMMA ShaChanges ==
  ASSUME TypeOK, Next, row'.sha # row.sha
  PROVE  \E h \in calls : /\ StoreChunk(h) \/ Finalize(h)
                          /\ row'.sha = part /\ h.seen.sha = NoHash
  BY RowChanges, EditedSha, StoreChunkRow, FinalizeRow

LEMMA PartChanges ==
  ASSUME TypeOK, Next
  PROVE  \/ part' = part
         \/ part' = Nothing /\ (Cleanup \/ Reclaim)
         \/ \E h \in calls : WriteChunk(h)
  BY Steps, AgentsKeepRow, Zenon DEF HostStep, FailCall, HostRestarts, OpenEdit, SendChunk,
     GetChunk, Reclaim, CommitEdit, Ack, StoreChunk, Finalize, Cleanup

LEMMA SrcGrows ==
  ASSUME TypeOK, Next
  PROVE  src \in Nat /\ src' \in Nat /\ src <= src'
<1>1. src' = src \/ src' = src + 1
  BY Steps, HostKeepsRow, Zenon DEF AgentStep, PollUpload, PollDownload, BeginUpload,
     AskFinalize, BeginDownload, FinishDownload, ChunkTimesOut, FinalizeTimesOut,
     SenderRestarts, ReceiverRestarts, AckFails, TimePasses, SourceChanges,
     SendChunk, GetChunk, Reclaim, CommitEdit, Ack, StoreChunk, Finalize
<1>2. src \in Nat
  BY BoundsAssumption DEF TypeOK, Versions
<1>3. QED
  BY <1>1, <1>2

LEMMA BoundedStep ==
  ASSUME TypeOK, TypeOK', Bounded, Next
  PROVE  Bounded'
<1>1. src \in Nat /\ src' \in Nat /\ src <= src'
  BY SrcGrows
<1>2. \A v \in Versions : v \in Nat
  BY BoundsAssumption DEF Versions
<1>3. \A h \in calls : h.op = "chunk" => h.body \in Nat /\ h.body <= src'
  <2>1. \A h \in calls : h.op = "chunk" => h.body \in Nat /\ h.body <= src
    BY <1>2, Calls DEF Bounded
  <2>2. QED
    BY <1>1, <2>1
<1>4. \A c \in Chunk : part[c] \in Nat /\ part[c] <= src'
  BY <1>1, BoundsAssumption DEF TypeOK, Contents, Bounded, Versions, Gap
<1>5. \A c \in Chunk : part'[c] <= src'
  <2>1. CASE part' = part
    BY <1>4, <2>1
  <2>2. CASE part' = Nothing
    BY <1>1, <2>2 DEF Nothing, Gap
  <2>3. CASE \E h \in calls : WriteChunk(h)
    <3>1. PICK h \in calls : WriteChunk(h)
      BY <2>3
    <3>2. h.body \in Nat /\ h.body <= src' /\ h.chunk \in Chunk
      BY <1>3, <3>1, Calls DEF WriteChunk
    <3>3. part' = [part EXCEPT ![h.chunk] = h.body] /\ part \in Contents
      BY <3>1 DEF WriteChunk, TypeOK
    <3>4. QED
      BY <1>4, <3>2, <3>3 DEF Contents
  <2>4. QED
    BY <2>1, <2>2, <2>3, PartChanges
<1>6. \A h \in calls' : h.op = "chunk" => h.body <= src'
  <2> TAKE h \in calls'
  <2> HAVE h.op = "chunk"
  <2>1. CASE \E k \in calls : Same(h, k)
    <3>1. PICK k \in calls : Same(h, k)
      BY <2>1
    <3>2. k.op = "chunk" /\ h.body = k.body
      BY <3>1 DEF Same
    <3>3. QED
      BY <1>3, <3>2
  <2>2. CASE h.body = src
    BY <1>1, <2>2
  <2>3. QED
    BY <2>1, <2>2, CallsCome
<1>7. row'.sha # NoHash => \A c \in Chunk : row'.sha[c] <= src'
  <2>1. CASE row'.sha = row.sha
    <3>1. row.sha # NoHash => \A c \in Chunk : row.sha[c] \in Nat
      BY Fields, BoundsAssumption DEF TypeOK, Contents, Versions, Gap
    <3>2. QED
      BY <1>1, <2>1, <3>1 DEF Bounded
  <2>2. CASE row'.sha = part
    BY <1>4, <2>2
  <2>3. QED
    BY <2>1, <2>2, ShaChanges
<1>8. QED
  BY <1>5, <1>6, <1>7 DEF Bounded

LEMMA EditFitsStep ==
  ASSUME TypeOK, EditFits, Waiting, Next
  PROVE  EditFits'
<1>1. CASE edit' = Nobody \/ edit' = edit
  BY <1>1 DEF EditFits
<1>2. CASE edit' # Nobody /\ edit' # edit
  BY <1>2, EditsCome DEF EditFits, Waiting, Allowed
<1>3. QED
  BY <1>1, <1>2

LEMMA OfHostStep ==
  ASSUME TypeOK, OfHost, Next, kind' = kind
  PROVE  OfHost'
<1> SUFFICES ASSUME kind = "host_to_device" PROVE OfHost'
  BY DEF OfHost
<1>1. /\ row.sha = First /\ chunks = {} /\ calls = {}
      /\ sender.at = "idle" /\ cmd["upload"] = "none"
      /\ \A a \in acks : a.leg # "upload"
      /\ ~FromDevice
  BY DEF OfHost, FromDevice
<1>2. row'.sha = First
  BY <1>1, ShaChanges
<1>3. calls' = {}
  BY <1>1, CallsCome
<1>4. /\ ~PollUpload /\ ~BeginUpload /\ ~AskFinalize /\ ~SendChunk
      /\ ~ChunkTimesOut /\ ~FinalizeTimesOut /\ ~SenderRestarts
      /\ ~SourceChanges
  BY <1>1 DEF PollUpload, Deliverable, BeginUpload, AskFinalize, SendChunk,
     ChunkTimesOut, FinalizeTimesOut, SenderRestarts, SourceChanges
<1>5. chunks' = {}
  BY <1>1, <1>4, Steps, AgentsKeepRow, HostKeepsRow DEF GetChunk, Expire, Reclaim,
     CommitEdit, Ack
<1>6. cmd'["upload"] = "none"
  <2>1. CASE CommitEdit
    BY <1>1, <2>1 DEF CommitEdit, Queue, Requeued, TypeOK, Legs
  <2>2. CASE \E a \in acks : Ack(a)
    BY <1>1, <2>2 DEF Ack, TypeOK, Legs
  <2>3. CASE PollDownload
    BY <1>1, <2>3 DEF PollDownload, TypeOK, Legs
  <2>4. QED
    BY <1>1, <1>4, <2>1, <2>2, <2>3, Steps, HostKeepsRow DEF AgentStep, BeginDownload,
       FinishDownload, ReceiverRestarts, AckFails, TimePasses, GetChunk, Reclaim, host
<1>7. \A a \in acks' : a.leg # "upload"
  <2>1. CASE ReceiverRestarts
    BY <1>1, <2>1, RestartedSays
  <2>2. CASE \E a \in acks : AckFails(a)
    BY <1>1, <2>2, UnawaitedSays DEF AckFails
  <2>3. CASE acks' \subseteq acks \/ \E ok \in BOOLEAN : Report("download", ok)
    BY <1>1, <2>3 DEF Report
  <2>4. AgentStep => <2>1!1 \/ <2>2!1 \/ <2>3!1
    BY <1>1, <1>4 DEF AgentStep, PollDownload, BeginDownload, FinishDownload,
       TimePasses, ReceiverReports, host, agents
  <2>5. HostStep \/ GetChunk \/ Reclaim \/ CommitEdit \/ (\E a \in acks : Ack(a))
          => <2>3!1
    BY <1>1 DEF HostStep, HostRestarts, Cleanup, OpenEdit, agents, GetChunk,
       ReceiverReports, Reclaim, CommitEdit, Ack
  <2>6. QED
    BY <1>1, <1>4, <2>1, <2>2, <2>3, <2>4, <2>5, Steps
<1>8. sender'.at = "idle"
  BY <1>1, <1>4, Steps DEF AgentStep, PollDownload, BeginDownload, FinishDownload,
     TimePasses, ReceiverRestarts, AckFails, Answered, SenderIdle, HostStep, HostRestarts,
     Cleanup, OpenEdit, agents, GetChunk, Reclaim, CommitEdit, Ack
<1>9. QED
  BY <1>2, <1>3, <1>5, <1>6, <1>7, <1>8 DEF OfHost

LEMMA WaitingStep ==
  ASSUME TypeOK, Waiting, Next, row'.status = "awaiting_approval"
  PROVE  Waiting'
<1>1. NewStatus(edit.act) # "awaiting_approval"
  BY DEF NewStatus
<1>2. row.status = "awaiting_approval"
  BY <1>1, RowChanges, EditedSha, StoreChunkRow, FinalizeRow DEF Ended
<1>3. /\ row.done = 0 /\ chunks = {} /\ calls = {} /\ acks = {}
      /\ sender.at = "idle" /\ receiver.at = "idle"
      /\ cmd = [leg \in Legs |-> "none"]
      /\ edit # Nobody => edit.seen.status = "awaiting_approval"
  BY <1>2 DEF Waiting
<1>4. ~CommitEdit
  BY <1>1, <1>3, EditedSha DEF CommitEdit
<1>5. row' = row /\ chunks' = chunks
  BY <1>2, <1>3, <1>4, RowChanges DEF Ended
<1>6. ~Deliverable("upload") /\ ~Deliverable("download")
  BY <1>3 DEF Deliverable, Legs
<1>7. /\ ~(\E a \in acks : Ack(a) \/ AckFails(a))
      /\ ~(\E h \in calls : StoreChunk(h) \/ Finalize(h) \/ WriteChunk(h) \/ FailCall(h))
      /\ ~PollUpload /\ ~PollDownload /\ ~BeginUpload /\ ~AskFinalize /\ ~SendChunk
      /\ ~BeginDownload /\ ~GetChunk /\ ~FinishDownload /\ ~ChunkTimesOut
      /\ ~FinalizeTimesOut /\ ~SenderRestarts /\ ~ReceiverRestarts
  BY <1>3, <1>6 DEF PollUpload, PollDownload, BeginUpload, AskFinalize, SendChunk,
     BeginDownload, GetChunk, FinishDownload, ChunkTimesOut, FinalizeTimesOut,
     SenderRestarts, ReceiverRestarts
<1>8. UNCHANGED <<acks, sender, receiver, cmd>> /\ calls' = {}
  BY <1>3, <1>4, <1>7, Steps DEF AgentStep, TimePasses, SourceChanges, HostStep,
     Cleanup, HostRestarts, OpenEdit, Reclaim, host, agents
<1>9. edit' # Nobody => edit'.seen.status = "awaiting_approval"
  BY <1>2, <1>3, EditsCome
<1>10. QED
  BY <1>3, <1>5, <1>8, <1>9 DEF Waiting

LEMMA ToHostStep ==
  ASSUME TypeOK, ToHost, Next, kind' = kind
  PROVE  ToHost'
<1> SUFFICES ASSUME kind = "device_to_host" PROVE ToHost'
  BY DEF ToHost
<1>1. /\ cmd["download"] = "none" /\ receiver.at = "idle"
      /\ \A a \in acks : a.leg # "download"
      /\ FromDevice /\ ~ToDevice
  BY DEF ToHost, FromDevice, ToDevice
<1>2. /\ ~PollDownload /\ ~BeginDownload /\ ~GetChunk /\ ~FinishDownload
      /\ ~ReceiverRestarts
  BY <1>1 DEF PollDownload, Deliverable, BeginDownload, GetChunk, FinishDownload,
     ReceiverRestarts
<1>3. cmd'["download"] = "none"
  <2>1. CASE CommitEdit
    BY <1>1, <2>1 DEF CommitEdit, Queue, Requeued, TypeOK, Legs
  <2>2. CASE \E h \in calls : Finalize(h)
    BY <1>1, <2>2, FinalizeRow
  <2>3. CASE \E a \in acks : Ack(a)
    BY <1>1, <2>3 DEF Ack, TypeOK, Legs
  <2>4. CASE PollUpload
    BY <1>1, <2>4 DEF PollUpload, TypeOK, Legs
  <2>5. QED
    BY <1>1, <1>2, <2>1, <2>2, <2>3, <2>4, Steps, HostKeepsRow, Zenon DEF AgentStep,
       BeginUpload, AskFinalize, ChunkTimesOut, FinalizeTimesOut, SenderRestarts,
       AckFails, TimePasses, SourceChanges, SendChunk, Reclaim, StoreChunk, host
<1>4. receiver'.at = "idle"
  BY <1>1, <1>2, Steps, HostKeepsRow, Zenon DEF AgentStep, PollUpload, BeginUpload, AskFinalize,
     ChunkTimesOut, FinalizeTimesOut, SenderRestarts, AckFails, Answered, ReceiverIdle,
     TimePasses, SourceChanges, SendChunk, Reclaim, StoreChunk, Finalize, CommitEdit,
     Ack, agents
<1>5. \A a \in acks' : a.leg # "download"
  <2>1. CASE SenderRestarts
    BY <1>1, <2>1, RestartedSays
  <2>2. CASE \E a \in acks : AckFails(a)
    BY <1>1, <2>2, UnawaitedSays DEF AckFails
  <2>3. CASE acks' \subseteq acks \/ \E ok \in BOOLEAN : Report("upload", ok)
    BY <1>1, <2>3 DEF Report
  <2>4. AgentStep => <2>1!1 \/ <2>2!1 \/ <2>3!1
    BY <1>2 DEF AgentStep, PollUpload, BeginUpload, AskFinalize, ChunkTimesOut,
       FinalizeTimesOut, TimePasses, SourceChanges, SenderReports, SenderStops, host,
       agents
  <2>5. HostStep \/ SendChunk \/ Reclaim \/ CommitEdit => <2>3!1
    BY DEF HostStep, WriteChunk, FailCall, Cleanup, HostRestarts, OpenEdit, agents,
       SendChunk, SenderReports, SenderStops, Reclaim, CommitEdit
  <2>6. (\E a \in acks : Ack(a)) => <2>3!1
    BY DEF Ack
  <2>7. (\E h \in calls : StoreChunk(h) \/ Finalize(h)) => <2>3!1
    BY DEF StoreChunk, Finalize, SenderReports, SenderStops, SenderGoesOn
  <2>8. QED
    BY <1>2, <2>1, <2>2, <2>3, <2>4, <2>5, <2>6, <2>7, Steps
<1>6. QED
  BY <1>3, <1>4, <1>5 DEF ToHost

LEMMA KindStays == Next => kind' = kind
  BY Steps, AgentsKeepRow, HostKeepsRow, Zenon DEF SendChunk, GetChunk, Reclaim, CommitEdit,
     Ack, StoreChunk, Finalize

LEMMA BasicStep ==
  ASSUME TypeOK, TypeOK', Basic, Next
  PROVE  Basic'
<1>1. Waiting'
  BY WaitingStep DEF Basic, Waiting
<1>2. QED
  BY <1>1, BoundedStep, EditFitsStep, OfHostStep, ToHostStep, KindStays DEF Basic

\* A step that does not expose, on a transfer that is not exposed.
Sane == TypeOK /\ Basic /\ Intact /\ Next /\ ~exposed'

LEMMA StoredSoundly ==
  ASSUME NEW h \in calls, StoreChunk(h), ~exposed'
  PROVE  /\ row.status \in Active /\ part[h.chunk] # Gap
         /\ row.sha = h.seen.sha
  BY DEF StoreChunk, Expose

LEMMA HostHasCallsFromDevices == Basic /\ calls # {} => FromDevice \/ kind \notin Kinds
  BY DEF Basic, OfHost, FromDevice, Kinds

LEMMA FirstIsHash ==
  First \in Contents /\ First # NoHash /\ \A c \in Chunk : First[c] # Gap
<1>1. First \in Contents
  BY Constants DEF First
<1>2. \A c \in Chunk : First[c] # Gap
  BY DEF First, Snapshot, Gap
<1>3. QED
  BY <1>1, <1>2, Constants

\* Finalize finds the file it was told of, which is the one on record.
LEMMA FinalizedIsFirst ==
  ASSUME Sane, NEW h \in calls, Finalize(h), h.seen.done > Last,
         h.seen.sha \in {NoHash, part}
  PROVE  /\ h.seen.sha = First /\ part = First /\ row.sha = First /\ row'.sha = row.sha
<1>1. FromDevice
  BY HostHasCallsFromDevices DEF Sane, TypeOK
<1>2. h.seen.sha # NoHash
  BY <1>1 DEF Sane, Intact, Hashed, SeenRows
<1>3. h.seen.sha = First /\ row.sha = First
  BY <1>2 DEF Sane, Intact, Final, WrittenOnce, SeenRows, Finalize
<1>4. QED
  BY <1>2, <1>3, ShaChanges, FinalizeRow DEF Sane, TypeOK

\* A recorded hash stays.
LEMMA ShaStays ==
  ASSUME Sane, row.sha # NoHash
  PROVE  row'.sha = row.sha
<1> SUFFICES ASSUME row'.sha # row.sha PROVE FALSE
  OBVIOUS
<1>1. PICK h \in calls : /\ StoreChunk(h) \/ Finalize(h)
                        /\ row'.sha = part /\ h.seen.sha = NoHash
  BY ShaChanges DEF Sane
<1>2. ~StoreChunk(h)
  BY <1>1, StoredSoundly DEF Sane
<1>3. Finalize(h)
  BY <1>1, <1>2
<1>4. h.seen.done > Last /\ h.seen.sha \in {NoHash, part}
  BY <1>3, FinalizeRow DEF Sane
<1>5. QED
  BY <1>1, <1>3, <1>4, FinalizedIsFirst, FirstIsHash

LEMMA HashedStep == ASSUME Sane PROVE Hashed'
<1> SUFFICES ASSUME FromDevice
             PROVE  /\ row'.done > Last => row'.sha # NoHash
                    /\ \A r \in SeenRows' : r.done > Last => r.sha # NoHash
  BY KindStays DEF Hashed, FromDevice, Sane
<1>1. row.done > Last => row.sha # NoHash
  BY DEF Sane, Intact, Hashed
<1>2. \A r \in SeenRows' : r.done > Last => r.sha # NoHash
  BY <1>1, SeenCome DEF Sane, Intact, Hashed
<1>3. ~(0 > Last)
  BY BoundsAssumption
<1>4. row'.done > Last => row'.sha # NoHash
  <2>1. CASE row'.done \in {0, row.done}
    BY <1>1, <1>3, <2>1, ShaStays
  <2>2. CASE \E a \in acks : a.leg = "download"
    BY <2>2, ShaStays, FirstIsHash DEF Sane, Intact, Downloads
  <2>3. CASE \E h \in calls : StoreChunk(h)
    <3>1. PICK h \in calls : StoreChunk(h)
      BY <2>3
    <3>2. /\ h.seen.sha = row.sha /\ part \in Contents
          /\ row.done \in 0..Last + 1 /\ Cardinality(chunks \cup {h.chunk}) \in Nat
      <4>1. chunks \cup {h.chunk} \in SUBSET Chunk
        BY <3>1, Calls DEF Sane, TypeOK, StoreChunk
      <4>2. QED
        BY <3>1, <4>1, StoredSoundly, ChunkCount, Fields, BoundsAssumption
        DEF Sane, TypeOK
    <3>3. CASE row'.done \notin {0, row.done}
      <4>1. \/ row'.done <= Last
            \/ row'.sha = (IF h.seen.sha = part THEN row.sha ELSE part)
        BY <3>1, <3>3, StoreChunkRow DEF Sane
      <4>2. row'.done \in 0..Last + 1
        BY <3>1, StoreChunkType, Fields DEF Sane, TypeOK
      <4>3. QED
        BY <3>2, <4>1, <4>2, Constants
    <3>4. QED
      BY <2>1, <3>3
  <2>4. CASE CommitEdit
    BY <2>1, <2>4, EditedSha DEF Sane
  <2>5. CASE \E h \in calls : Finalize(h)
    BY <2>1, <2>5, FinalizeRow DEF Sane
  <2>6. QED
    BY <2>1, <2>2, <2>3, <2>4, <2>5, RowChanges DEF Sane
<1>5. QED
  BY <1>2, <1>4

LEMMA WrittenOnceStep == ASSUME Sane PROVE WrittenOnce'
<1> SUFFICES ASSUME NEW r \in SeenRows', r.sha # NoHash
             PROVE  row'.sha = r.sha
  BY DEF WrittenOnce
<1>1. row.sha = r.sha
  BY SeenCome DEF Sane, Intact, WrittenOnce
<1>2. QED
  BY <1>1, ShaStays

LEMMA FinalStep == ASSUME Sane PROVE Final'
<1> SUFFICES ASSUME NEW h \in calls', h.op = "finalize", h.seen.sha # NoHash
             PROVE  h.seen.sha = First
  BY DEF Final
<1>1. CASE \E k \in calls : Same(h, k)
  BY <1>1 DEF Same, Sane, Intact, Final
<1>2. CASE h.seen = row /\ src = 1
  <2>1. row.sha \in Contents
    BY <1>2, Fields DEF Sane, TypeOK
  <2>2. \A c \in Chunk : row.sha[c] <= 1 /\ row.sha[c] # Gap
    BY <1>2 DEF Sane, Basic, Bounded, Intact, Present
  <2>3. \A c \in Chunk : row.sha[c] = 1
    BY <2>1, <2>2, BoundsAssumption DEF Contents, Versions, Gap
  <2>4. row.sha = First
    BY <2>1, <2>3 DEF Contents, First, Snapshot
  <2>5. QED
    BY <1>2, <2>4
<1>3. QED
  BY <1>1, <1>2, CallsCome DEF Sane

LEMMA PresentStep == ASSUME Sane PROVE Present'
<1> DEFINE In(st, n) == st \in Active \/ (st = "paused" /\ n <= Last)
<1>1. /\ row.sha # NoHash => \A c \in Chunk : row.sha[c] # Gap
      /\ In(row.status, row.done) => \A c \in chunks : part[c] # Gap
      /\ row.status = "completed" /\ kind = "device_to_device" =>
           row.done > Last \/ chunks = {}
      /\ kind = "host_to_device" => chunks = {} /\ calls = {}
      /\ kind = "device_to_host" => receiver.at = "idle"
      /\ row.status \in Statuses /\ kind \in Kinds
  BY Fields DEF Sane, Intact, Present, Basic, OfHost, ToHost, TypeOK
<1>2. row'.sha # NoHash => \A c \in Chunk : row'.sha[c] # Gap
  <2>1. CASE row'.sha = row.sha
    BY <1>1, <2>1
  <2>2. CASE row'.sha # row.sha
    <3>1. PICK h \in calls : /\ StoreChunk(h) \/ Finalize(h)
                            /\ row'.sha = part /\ h.seen.sha = NoHash
      BY <2>2, ShaChanges DEF Sane
    <3>2. ~(h.seen.done > Last /\ h.seen.sha \in {NoHash, part} /\ Finalize(h))
      BY <2>2, FinalizedIsFirst
    <3>3. StoreChunk(h)
      BY <2>2, <3>1, <3>2, FinalizeRow DEF Sane
    <3>4. chunks \cup {h.chunk} = Chunk
      BY <2>2, <3>3, StoreChunkRow DEF Sane
    <3>5. \A c \in chunks \cup {h.chunk} : part[c] # Gap
      BY <1>1, <3>3, StoredSoundly DEF Sane
    <3>6. QED
      BY <3>1, <3>4, <3>5
  <2>3. QED
    BY <2>1, <2>2
<1>3. CASE \E h \in calls : StoreChunk(h)
  <2>1. PICK h \in calls : StoreChunk(h)
    BY <1>3
  <2>2. \A c \in chunks \cup {h.chunk} : part[c] # Gap
    BY <1>1, <2>1, StoredSoundly DEF Sane
  <2>3. chunks' \subseteq chunks \cup {h.chunk} /\ part' = part
    BY <2>1, StoreChunkRow, Zenon DEF Sane, StoreChunk
  <2>4. row'.status # "completed"
    <3>1. row.status # "completed"
      BY <2>1, StoredSoundly DEF Sane, Active
    <3>2. QED
      BY <2>1, <3>1, StoreChunkRow DEF Sane
  <2>5. QED
    BY <1>2, <2>2, <2>3, <2>4 DEF Present
<1>4. CASE \E h \in calls : Finalize(h)
  <2>1. PICK h \in calls : Finalize(h)
    BY <1>4
  <2>2. part' = part
    BY <2>1 DEF Finalize
  <2>3. CASE row' = row /\ chunks' = chunks
    BY <1>1, <1>2, <2>2, <2>3, KindStays DEF Present, Sane
  <2>4. CASE chunks' = {}
    BY <1>2, <2>4 DEF Present
  <2>5. CASE h.seen.done > Last /\ h.seen.sha \in {NoHash, part}
    <3>1. \A c \in Chunk : part[c] # Gap
      BY <2>1, <2>5, FinalizedIsFirst, FirstIsHash
    <3>2. chunks' \subseteq Chunk
      BY <2>1, FinalizeType DEF Sane, TypeOK
    <3>3. CASE chunks' = chunks /\ row'.done = row.done
               /\ (kind # "device_to_host" => row'.status \in {row.status, "transferring"})
      BY <1>1, <1>2, <2>2, <3>1, <3>2, <3>3, KindStays DEF Present, Sane
    <3>4. QED
      BY <2>1, <2>3, <2>4, <3>3, FinalizeRow DEF Sane
  <2>6. QED
    BY <2>1, <2>3, <2>4, <2>5, FinalizeRow DEF Sane
<1>5. CASE CommitEdit
  <2>1. /\ edit \in Edits /\ Sound(edit) /\ part' = part
        /\ edit # Nobody /\ edit.act \in Acts
    BY <1>5 DEF CommitEdit, Expose, Sane, TypeOK, Edits
  <2>2. /\ row.status = edit.seen.status
        /\ edit.act = "pause" => row.status \in Active
        /\ edit.act = "resume" => row.status = "paused" /\ row.done <= Last
        /\ edit.act = "approve" => chunks = {}
    BY <2>1 DEF Sound, Sane, Basic, EditFits, Waiting
  <2>3. chunks' = {} \/ (chunks' = chunks /\ ~Drops(edit.act))
    BY <1>5 DEF CommitEdit
  <2>4. NewStatus(edit.act) # "completed"
    BY DEF NewStatus
  <2>5. row'.status # "completed"
    BY <1>5, <2>2, <2>4, EditedSha DEF Sane
  <2>6. CASE edit.act \in {"pause", "resume"} /\ chunks' = chunks
    BY <1>1, <1>2, <2>1, <2>2, <2>5, <2>6 DEF Present
  <2>7. CASE chunks' = {}
    BY <1>2, <2>7 DEF Present
  <2>8. edit.act \in {"pause", "resume"} \/ chunks' = {}
    BY <1>1, <2>1, <2>2, <2>3 DEF Acts, Drops, FromDevice, Kinds
  <2>9. QED
    BY <2>3, <2>6, <2>7, <2>8
<1>6. CASE row' = row /\ chunks' = chunks
  <2>1. In(row.status, row.done) => \A c \in chunks : part'[c] # Gap
    <3> SUFFICES ASSUME In(row.status, row.done) PROVE \A c \in chunks : part'[c] # Gap
      OBVIOUS
    <3>1. CASE part' = part
      BY <1>1, <3>1
    <3>2. CASE Cleanup
      BY <3>2 DEF Cleanup, Expose, Sane, Active
    <3>3. CASE Reclaim
      <4>1. chunks' = {}
        BY <3>3 DEF Reclaim, Expose, Sane
      <4>2. QED
        BY <1>6, <4>1
    <3>4. CASE \E h \in calls : WriteChunk(h)
      <4>1. PICK h \in calls : WriteChunk(h)
        BY <3>4
      <4>2. /\ part' = [part EXCEPT ![h.chunk] = h.body]
            /\ h.body \in Versions /\ part \in Contents
        BY <4>1, Calls DEF WriteChunk, Sane, TypeOK
      <4>3. h.body # Gap
        BY <4>2, BoundsAssumption DEF Versions, Gap
      <4>4. chunks \subseteq Chunk
        BY DEF Sane, TypeOK
      <4>5. QED
        BY <1>1, <4>2, <4>3, <4>4 DEF Contents
    <3>5. QED
      BY <3>1, <3>2, <3>3, <3>4, PartChanges DEF Sane
  <2>2. QED
    BY <1>1, <1>2, <1>6, <2>1, KindStays DEF Present, Sane
<1>7. CASE chunks' = {}
  BY <1>2, <1>7 DEF Present
<1>8. CASE /\ row'.status = "paused" /\ row'.done = row.done /\ chunks' = chunks
           /\ \/ row.status \in Active
              \/ row.status = "completed" /\ receiver.at = "get"
           /\ row' # row /\ chunks' # {}
  <2>1. part' = part
    <3>1. ~Cleanup /\ ~\E h \in calls : WriteChunk(h)
      BY <1>8 DEF Cleanup, WriteChunk
    <3>2. ~Reclaim
      BY <1>8 DEF Reclaim, Expose, Sane
    <3>3. QED
      BY <3>1, <3>2, PartChanges DEF Sane
  <2>2. row.done <= Last => \A c \in chunks : part[c] # Gap
    <3>1. row.done <= Last => ~(row.done > Last)
      BY BoundsAssumption, Fields DEF Sane, TypeOK
    <3>2. QED
      BY <1>1, <1>8, <3>1 DEF Kinds
  <2>3. QED
    BY <1>2, <1>8, <2>1, <2>2 DEF Present, Active
<1>9. CASE row'.status = "failed"
  BY <1>2, <1>9 DEF Present, Active
<1>10. CASE row'.status = "completed" /\ row'.done = Last + 1
  <2>1. row'.done > Last
    BY <1>10, BoundsAssumption
  <2>2. QED
    BY <1>2, <1>10, <2>1 DEF Present, Active
<1>11. QED
  BY <1>3, <1>4, <1>5, <1>6, <1>7, <1>8, <1>9, <1>10, RowChanges DEF Sane

\* Queueing makes a command of one that is wanted, never the reverse.
LEMMA QueueOnly ==
  ASSUME TypeOK, NEW r \in TransferRow
  PROVE  /\ cmd["download"] # "none" => Queue(r)["download"] # "none"
         /\ FromDevice /\ r.done <= Last => Queue(r)["download"] = cmd["download"]
         /\ kind = "device_to_host" => Queue(r)["download"] = cmd["download"]
<1>1. r.done <= Last => r.done < Last + 1
  BY BoundsAssumption DEF TransferRow
<1>2. QED
  BY <1>1 DEF Queue, Requeued, TypeOK, Legs, FromDevice, ToDevice

LEMMA CommandsStay ==
  ASSUME TypeOK, Next, cmd["download"] # "none"
  PROVE  cmd'["download"] # "none"
<1>1. CASE CommitEdit
  BY <1>1, QueueOnly, EditedRow DEF CommitEdit, TypeOK
<1>2. CASE \E h \in calls : Finalize(h)
  BY <1>2, FinalizeRow, QueueOnly
<1>3. CASE \E a \in acks : Ack(a)
  BY <1>3 DEF Ack, TypeOK, Legs
<1>4. CASE PollUpload \/ PollDownload
  BY <1>4 DEF PollUpload, PollDownload, TypeOK, Legs
<1>5. QED
  BY <1>1, <1>2, <1>3, <1>4, Steps, HostKeepsRow, Zenon DEF AgentStep, BeginUpload,
     AskFinalize, BeginDownload, FinishDownload, ChunkTimesOut, FinalizeTimesOut,
     SenderRestarts, ReceiverRestarts, AckFails, TimePasses, SourceChanges, SendChunk,
     GetChunk, Reclaim, StoreChunk, host

\* An edit that queues a file of a device leaves chunks to be sent.
LEMMA EditedLacks ==
  ASSUME Sane, CommitEdit, FromDevice, NewStatus(edit.act) = "queued"
  PROVE  Edited(edit).done <= Last
<1>1. edit \in Edits /\ Sound(edit) /\ edit # Nobody
  BY DEF CommitEdit, Expose, Sane, TypeOK
<1>2. 0 <= Last
  BY BoundsAssumption
<1>3. CASE Drops(edit.act)
  BY <1>1, <1>2, <1>3, EditedRow
<1>4. CASE ~Drops(edit.act)
  <2>1. edit.act \in {"approve", "resume"}
    BY <1>1, <1>4, EditedRow DEF Drops, Acts, NewStatus
  <2>2. edit.seen.done <= Last
    BY <1>1, <1>2, <2>1 DEF Sound, Sane, Basic, EditFits
  <2>3. QED
    BY <1>1, <1>4, <2>2, EditedRow
<1>5. QED
  BY <1>3, <1>4

\* A download is queued by finalize, or by an edit of a file of the host.
LEMMA DownloadQueued ==
  ASSUME Sane, cmd["download"] = "none", cmd'["download"] # "none"
  PROVE  row.sha = First
<1>1. \A a \in acks : a.leg # "download"
  BY DEF Sane, Intact, Downloads
<1>2. ~PollDownload
  BY DEF PollDownload, Deliverable
<1>3. CommitEdit \/ \E h \in calls : Finalize(h)
  <2>1. CASE \E a \in acks : Ack(a)
    BY <1>1, <2>1 DEF Ack, Sane, TypeOK, Legs
  <2>2. CASE PollUpload
    BY <2>2 DEF PollUpload, Sane, TypeOK, Legs
  <2>3. QED
    BY <1>2, <2>1, <2>2, Steps, HostKeepsRow, Zenon DEF Sane, AgentStep, BeginUpload,
       AskFinalize, BeginDownload, FinishDownload, ChunkTimesOut, FinalizeTimesOut,
       SenderRestarts, ReceiverRestarts, AckFails, TimePasses, SourceChanges,
       SendChunk, GetChunk, Reclaim, StoreChunk, host
<1>4. CASE \E h \in calls : Finalize(h)
  <2>1. PICK h \in calls : Finalize(h)
    BY <1>4
  <2>2. h.seen.done > Last /\ h.seen.sha \in {NoHash, part}
    BY <2>1, FinalizeRow DEF Sane
  <2>3. QED
    BY <2>1, <2>2, FinalizedIsFirst
<1>5. CASE CommitEdit
  <2>1. CASE kind = "host_to_device"
    BY <2>1 DEF Sane, Basic, OfHost
  <2>2. CASE kind # "host_to_device"
    <3>1. FromDevice
      BY <2>2 DEF Sane, TypeOK, Kinds, FromDevice
    <3>2. /\ edit \in Edits /\ Sound(edit) /\ edit # Nobody
          /\ NewStatus(edit.act) = "queued"
          /\ cmd' = Queue(Edited(edit))
      BY <1>5 DEF CommitEdit, Expose, Sane, TypeOK
    <3>3. Edited(edit).done <= Last
      BY <1>5, <3>1, <3>2, EditedLacks
    <3>4. QED
      BY <3>1, <3>2, <3>3, QueueOnly, EditedRow DEF Sane
  <2>3. QED
    BY <2>1, <2>2
<1>6. QED
  BY <1>3, <1>4, <1>5

\* Where the receiver and its reports come from.
LEMMA ReceiverCome ==
  ASSUME TypeOK, Next
  PROVE  /\ receiver'.at # "idle" =>
              receiver.at # "idle" \/ cmd'["download"] # "none"
         /\ receiver'.at = "get" =>
              receiver' = receiver \/ (receiver.at = "start" /\ receiver'.want = row.sha)
         /\ \A a \in acks' : a.leg = "download" =>
              receiver.at # "idle" \/ \E b \in acks : b.leg = "download"
<1>1. CASE PollDownload
  BY <1>1 DEF PollDownload, TypeOK, Legs
<1>2. CASE BeginDownload \/ GetChunk \/ FinishDownload
  BY <1>2 DEF BeginDownload, GetChunk, FinishDownload, ReceiverReports, Report, ReceiverIdle
<1>3. CASE SenderRestarts \/ ReceiverRestarts
  <2>1. \A a \in acks' : a.leg = "download" => \E b \in acks : b.leg = "download"
    BY <1>3, RestartedSays
  <2>2. QED
    BY <1>3, <2>1 DEF SenderRestarts, ReceiverRestarts, ReceiverIdle
<1>4. CASE \E a \in acks : AckFails(a)
  <2>1. PICK a \in acks : AckFails(a)
    BY <1>4
  <2>2. \A x \in acks' : x.leg = "download" => \E b \in acks : b.leg = "download"
    BY <2>1, UnawaitedSays DEF AckFails
  <2>3. QED
    BY <2>1, <2>2 DEF AckFails, Answered, ReceiverIdle
<1>5. CASE \E a \in acks : Ack(a)
  BY <1>5 DEF Ack, Answered, ReceiverIdle
<1>6. CASE /\ receiver' = receiver
           /\ acks' \subseteq acks \/ \E ok \in BOOLEAN : Report("upload", ok)
  BY <1>6 DEF Report
<1>7. PollUpload \/ BeginUpload \/ AskFinalize \/ ChunkTimesOut \/ FinalizeTimesOut
        \/ TimePasses \/ SourceChanges \/ SendChunk \/ Reclaim \/ CommitEdit
        => <1>6!1
  BY DEF PollUpload, BeginUpload, AskFinalize, ChunkTimesOut, FinalizeTimesOut,
     TimePasses, SourceChanges, SendChunk, SenderReports, SenderStops, Reclaim,
     CommitEdit, agents
<1>8. HostStep => <1>6!1
  BY DEF HostStep, WriteChunk, FailCall, Cleanup, HostRestarts, OpenEdit, agents,
     SenderReports, SenderStops
<1>9. (\E h \in calls : StoreChunk(h) \/ Finalize(h)) => <1>6!1
  BY DEF StoreChunk, Finalize, SenderReports, SenderStops, SenderGoesOn
<1>10. QED
  BY <1>1, <1>2, <1>3, <1>4, <1>5, <1>6, <1>7, <1>8, <1>9, Steps DEF AgentStep

LEMMA DownloadsStep == ASSUME Sane PROVE Downloads'
<1>1. cmd'["download"] # "none" => row'.sha = First
  <2>1. cmd'["download"] # "none" => row.sha = First
    BY DownloadQueued DEF Sane, Intact, Downloads
  <2>2. QED
    BY <2>1, ShaStays, FirstIsHash
<1>2. receiver.at # "idle" => cmd["download"] # "none" /\ row.sha = First
  BY DEF Sane, Intact, Downloads
<1>3. receiver'.at # "idle" => cmd'["download"] # "none"
  BY <1>2, ReceiverCome, CommandsStay DEF Sane
<1>4. receiver'.at = "get" => receiver'.want = First
  BY <1>2, ReceiverCome DEF Sane, Intact, Downloads
<1>5. \A a \in acks' : a.leg = "download" => cmd'["download"] # "none"
  BY <1>2, ReceiverCome, CommandsStay DEF Sane, Intact, Downloads
<1>6. \A f \in arrived' : f = First
  <2>1. CASE FinishDownload
    <3>1. \/ arrived' = arrived
          \/ arrived' = arrived \cup {Received} /\ receiver.want \in {NoHash, Received}
      BY <2>1 DEF FinishDownload
    <3>2. receiver.want = First
      BY <2>1 DEF FinishDownload, Sane, Intact, Downloads
    <3>3. QED
      BY <3>1, <3>2, FirstIsHash DEF Sane, Intact, Downloads
  <2>2. CASE \E h \in calls : Finalize(h)
    <3>1. PICK h \in calls : Finalize(h)
      BY <2>2
    <3>2. \/ arrived' = arrived
          \/ /\ h.seen.done > Last /\ h.seen.sha \in {NoHash, part}
             /\ arrived' = arrived \cup {part}
      BY <3>1, FinalizeRow DEF Sane
    <3>3. QED
      BY <3>1, <3>2, FinalizedIsFirst DEF Sane, Intact, Downloads
  <2>3. CASE arrived' = arrived
    BY <2>3 DEF Sane, Intact, Downloads
  <2>4. AgentStep => FinishDownload \/ arrived' = arrived
    BY DEF AgentStep, PollUpload, PollDownload, BeginUpload, AskFinalize,
       BeginDownload, ChunkTimesOut, FinalizeTimesOut, SenderRestarts,
       ReceiverRestarts, AckFails, TimePasses, SourceChanges
  <2>5. QED
    BY <2>1, <2>2, <2>3, <2>4, Steps, HostKeepsRow, Zenon DEF Sane, SendChunk, GetChunk,
       Reclaim, CommitEdit, Ack, StoreChunk
<1>7. QED
  BY <1>1, <1>3, <1>4, <1>5, <1>6 DEF Downloads

LEMMA ExposedStays == Next => (exposed => exposed')
  BY Steps, Zenon DEF AgentStep, PollUpload, PollDownload, BeginUpload, AskFinalize,
     BeginDownload, FinishDownload, ChunkTimesOut, FinalizeTimesOut, SenderRestarts,
     ReceiverRestarts, AckFails, TimePasses, SourceChanges, HostStep, WriteChunk,
     FailCall, Cleanup, HostRestarts, OpenEdit, SendChunk, GetChunk, Reclaim,
     CommitEdit, Ack, StoreChunk, Finalize, Expose

LEMMA InvInit == Init => Inv
<1> SUFFICES ASSUME Init PROVE Inv
  OBVIOUS
<1>1. TypeOK
  BY InitType
<1>2. /\ row.status \in {"awaiting_approval", "queued"} /\ row.done = 0
      /\ row.sha = IF kind = "host_to_device" THEN First ELSE NoHash
      /\ part = IF kind = "host_to_device" THEN First ELSE Nothing
      /\ chunks = {} /\ calls = {} /\ acks = {} /\ arrived = {} /\ src = 1
      /\ edit = Nobody /\ sender.at = "idle" /\ receiver.at = "idle"
  BY DEF Init, First
<1>3. /\ cmd["upload"] # "none" => kind # "host_to_device"
      /\ cmd["download"] # "none" => kind = "host_to_device"
      /\ row.status = "awaiting_approval" => cmd = [leg \in Legs |-> "none"]
  BY DEF Init, Legs
<1>4. \A c \in Chunk : First[c] = 1 /\ Nothing[c] = 0
  BY DEF First, Snapshot, Nothing, Gap
<1>5. Basic
  <2>1. Bounded
    BY <1>2, <1>4 DEF Bounded
  <2>2. Waiting /\ EditFits /\ OfHost /\ ToHost
    BY <1>2, <1>3 DEF Waiting, EditFits, OfHost, ToHost
  <2>3. QED
    BY <2>1, <2>2 DEF Basic
<1>6. ~(0 > Last) /\ SeenRows = {}
  BY <1>2, BoundsAssumption DEF SeenRows
<1>7. Intact
  BY <1>2, <1>3, <1>6, FirstIsHash DEF Intact, Hashed, WrittenOnce, Present, Final,
     Downloads
<1>8. QED
  BY <1>1, <1>5, <1>7 DEF Inv

LEMMA InvStep == Inv /\ [Next]_vars => Inv'
<1> SUFFICES ASSUME Inv, [Next]_vars PROVE Inv'
  OBVIOUS
<1>1. CASE UNCHANGED vars
  BY <1>1, TypeStep DEF Inv, vars, host, agents, Basic, Bounded, Waiting, EditFits,
     OfHost, ToHost, Intact, Hashed, WrittenOnce, Present, Final, Downloads, SeenRows,
     FromDevice
<1>2. CASE Next
  <2>1. TypeOK' /\ Basic'
    BY <1>2, TypeStep, BasicStep DEF Inv
  <2>2. ASSUME ~exposed' PROVE Intact'
    <3>1. Sane
      BY <1>2, <2>2, ExposedStays DEF Inv, Sane
    <3>2. QED
      BY <3>1, HashedStep, WrittenOnceStep, PresentStep, FinalStep, DownloadsStep
      DEF Intact
  <2>3. QED
    BY <2>1, <2>2 DEF Inv
<1>3. QED
  BY <1>1, <1>2

(* Whatever changes, repeats, restarts and retries there are, a file that     *)
(* arrives is one version of its source from end to end, unless one of the    *)
(* steps that make row, chunks and file disagree came between (the check of   *)
(* the source before finalize and the hash decide, upload_transfer and        *)
(* download_transfer). *)
THEOREM ArrivalsAreSnapshots == Spec => []ArrivedAreSnapshots
<1>1. Inv => ArrivedAreSnapshots
  BY Constants DEF Inv, Intact, Downloads, ArrivedAreSnapshots, First
<1>2. QED
  BY <1>1, InvInit, InvStep, PTL DEF Spec

-----------------------------------------------------------------------------
(* Active transfers are worked on                                           *)

\* A command leaves its place with an agent by an acknowledgement alone.
LEMMA CommandsKept ==
  ASSUME TypeOK, Next, ~\E a \in acks : Ack(a), NEW leg \in Legs
  PROVE  \/ cmd'[leg] = cmd[leg]
         \/ cmd'[leg] \in {"queued", "leased"} /\ cmd[leg] # "completed"
<1>1. \A r \in TransferRow :
        \/ Queue(r)[leg] = cmd[leg]
        \/ Queue(r)[leg] = "queued" /\ cmd[leg] # "completed"
  BY DEF Queue, Requeued, TypeOK, Legs
<1>2. CASE CommitEdit
  BY <1>1, <1>2, EditedRow DEF CommitEdit, TypeOK
<1>3. CASE \E h \in calls : Finalize(h)
  BY <1>1, <1>3, FinalizeRow
<1>4. CASE PollUpload \/ PollDownload
  BY <1>4 DEF PollUpload, PollDownload, Deliverable, TypeOK, Legs
<1>5. CASE cmd' = cmd
  BY <1>5
<1>6. QED
  BY <1>2, <1>3, <1>4, <1>5, Steps, HostKeepsRow, Zenon DEF AgentStep, BeginUpload,
     AskFinalize, BeginDownload, FinishDownload, ChunkTimesOut, FinalizeTimesOut,
     SenderRestarts, ReceiverRestarts, AckFails, TimePasses, SourceChanges, SendChunk,
     GetChunk, Reclaim, StoreChunk, host

\* The leg at whose end the file is where it was to go.
Ends(leg) == leg = "download" \/ kind = "device_to_host"

\* That leg is done, or reported done, only when the file has arrived.
Delivered ==
  /\ \A leg \in Legs : Ends(leg) /\ cmd[leg] = "completed" => arrived # {}
  /\ \A a \in acks : Ends(a.leg) /\ a.ok => arrived # {}

\* An active transfer has a command to be taken up, but for those exempted.
Commanded ==
  row.status \in Active =>
    \/ \E leg \in Legs : cmd[leg] \in {"queued", "leased"}
    \/ arrived # {}
    \/ kind = "device_to_device" /\ cmd["upload"] = "completed"

\* Where the reports of success come from.
LEMMA SuccessComes ==
  ASSUME TypeOK, Next, NEW x \in acks', x.ok, Ends(x.leg)
  PROVE  arrived' # {} \/ \E y \in acks : y.leg = x.leg /\ y.ok
<1>1. CASE FinishDownload
  BY <1>1 DEF FinishDownload, ReceiverReports, Report
<1>2. CASE \E h \in calls : Finalize(h)
  <2>1. PICK h \in calls : Finalize(h)
    BY <1>2
  <2>2. \/ acks' = acks
        \/ Report("upload", FALSE)
        \/ Report("upload", TRUE) /\ (kind = "device_to_host" => arrived' # {})
    BY <2>1 DEF Finalize, SenderReports
  <2>3. QED
    BY <2>2 DEF Report, Ends
<1>3. CASE SenderRestarts \/ ReceiverRestarts
  BY <1>3, RestartedSays
<1>4. CASE \E a \in acks : AckFails(a)
  <2>1. PICK a \in acks : acks' \subseteq acks \cup Unawaited({a})
    BY <1>4 DEF AckFails
  <2>2. {a} \in SUBSET acks
    OBVIOUS
  <2>3. \A z \in Unawaited({a}) : \E y \in acks : y.leg = z.leg /\ y.ok = z.ok
    BY <2>2, UnawaitedSays
  <2>4. QED
    BY <2>1, <2>3
<1>5. CASE acks' \subseteq acks \/ \E leg \in Legs : Report(leg, FALSE)
  BY <1>5 DEF Report
<1>6. AgentStep => <1>1!1 \/ <1>3!1 \/ <1>4!1 \/ <1>5!1
  BY DEF AgentStep, PollUpload, PollDownload, BeginUpload, AskFinalize,
     BeginDownload, ChunkTimesOut, FinalizeTimesOut, TimePasses, SourceChanges,
     SenderReports, SenderStops, ReceiverReports, Legs, agents
<1>7. HostStep => <1>5!1
  BY DEF HostStep, WriteChunk, FailCall, Cleanup, HostRestarts, OpenEdit, agents,
     SenderReports, SenderStops, Legs
<1>8. SendChunk \/ GetChunk \/ Reclaim \/ CommitEdit \/ (\E a \in acks : Ack(a))
        => <1>5!1
  BY DEF SendChunk, GetChunk, Reclaim, CommitEdit, Ack, agents, SenderStops,
     ReceiverReports, Legs
<1>9. (\E h \in calls : StoreChunk(h)) => <1>5!1
  BY DEF StoreChunk, SenderReports, SenderStops, SenderGoesOn, Legs
<1>10. QED
  BY <1>1, <1>2, <1>3, <1>4, <1>5, <1>6, <1>7, <1>8, <1>9, Steps, Zenon

LEMMA DeliveredStep ==
  ASSUME TypeOK, Delivered, Next
  PROVE  Delivered'
<1>1. arrived \subseteq arrived' /\ kind' = kind
  BY ArrivedGrows, KindStays
<1>2. \A leg \in Legs : Ends(leg) /\ cmd'[leg] = "completed" => arrived' # {}
  <2> TAKE leg \in Legs
  <2> HAVE Ends(leg) /\ cmd'[leg] = "completed"
  <2>1. CASE cmd[leg] = "completed"
    BY <1>1, <2>1 DEF Delivered
  <2>2. CASE cmd[leg] # "completed"
    <3>1. PICK a \in acks : Ack(a)
      BY <2>2, CommandsKept
    <3>2. a.leg = leg /\ a.ok
      BY <2>2, <3>1 DEF Ack, TypeOK, Legs
    <3>3. QED
      BY <1>1, <3>2 DEF Delivered
  <2>3. QED
    BY <2>1, <2>2
<1>3. \A a \in acks' : Ends(a.leg) /\ a.ok => arrived' # {}
  BY <1>1, SuccessComes DEF Delivered
<1>4. QED
  BY <1>1, <1>2, <1>3 DEF Delivered, Ends

LEMMA CommandedStep ==
  ASSUME Sane, Delivered, Commanded
  PROVE  Commanded'
<1> SUFFICES ASSUME row'.status \in Active
             PROVE  \/ \E leg \in Legs : cmd'[leg] \in {"queued", "leased"}
                    \/ arrived' # {}
                    \/ kind = "device_to_device" /\ cmd'["upload"] = "completed"
  BY KindStays DEF Commanded, Sane
<1>1. /\ arrived \subseteq arrived' /\ kind \in Kinds
      /\ cmd \in [Legs -> {"none", "queued", "leased", "completed", "failed"}]
  BY ArrivedGrows DEF Sane, TypeOK
<1>2. CASE \E a \in acks : Ack(a)
  <2>1. PICK a \in acks : Ack(a)
    BY <1>2
  <2>2. a \in Acks /\ (kind = "host_to_device" => a.leg # "upload")
    BY DEF Sane, TypeOK, Basic, OfHost, Acks
  <2>3. a.ok /\ a.leg = "upload"
    <3>1. /\ row \in TransferRow
          /\ [row EXCEPT !.status = "failed"].status = "failed"
          /\ [row EXCEPT !.status = "completed", !.done = Last + 1].status
               = "completed"
      BY NewStatusRow DEF Sane, TypeOK, TransferRow, Statuses
    <3>2. row'.status \in {"failed", "completed"} \/ (a.ok /\ a.leg = "upload")
      BY <2>1, <3>1 DEF Ack
    <3>3. QED
      BY <3>2 DEF Active
  <2>4. cmd'["upload"] = "completed"
    BY <1>1, <2>1, <2>3 DEF Ack, Legs
  <2>5. kind = "device_to_host" => arrived # {}
    BY <2>3 DEF Delivered, Ends
  <2>6. QED
    BY <1>1, <2>2, <2>3, <2>4, <2>5 DEF Kinds
<1>3. CASE row.status \in Active /\ ~\E a \in acks : Ack(a)
  <2>1. \A leg \in Legs : \/ cmd'[leg] = cmd[leg]
                          \/ /\ cmd'[leg] \in {"queued", "leased"}
                             /\ cmd[leg] # "completed"
    BY <1>3, CommandsKept DEF Sane
  <2>2. QED
    BY <1>1, <1>3, <2>1 DEF Commanded, Legs
<1>4. CASE row.status \notin Active /\ ~\E a \in acks : Ack(a)
  <2>1. CommitEdit \/ \E h \in calls : Finalize(h)
    <3>1. ~\E h \in calls : StoreChunk(h)
      BY <1>4, StoredSoundly DEF Sane
    <3>2. QED
      BY <1>4, <3>1, RowChanges DEF Sane, Active, Ended
  <2>2. CASE \E h \in calls : Finalize(h)
    <3>1. PICK h \in calls : Finalize(h)
      BY <2>2
    <3>2. PICK r \in TransferRow : /\ kind # "device_to_host" /\ r.done > Last
                                   /\ cmd' = Queue(r)
      BY <1>4, <3>1, FinalizeRow DEF Sane, Active
    <3>3. ToDevice /\ FromDevice
      BY <1>1, <3>1, <3>2, HostHasCallsFromDevices DEF Sane, Kinds, FromDevice,
         ToDevice
    <3>4. cmd' = Requeued("download")
      <4>1. ~(r.done < Last + 1)
        BY <3>2, BoundsAssumption DEF TransferRow
      <4>2. QED
        BY <3>2, <3>3, <4>1 DEF Queue
    <3>5. QED
      BY <1>1, <3>4 DEF Requeued, Legs, Delivered, Ends
  <2>3. CASE CommitEdit
    <3>1. edit \in Edits /\ Sound(edit)
      BY <2>3 DEF CommitEdit, Expose, Sane, TypeOK
    <3>2. NewStatus(edit.act) = "queued"
      BY <1>4, <2>3, <3>1, EditedSha DEF Sane, Sound, NewStatus, Active
    <3>3. cmd' = Queue(Edited(edit)) /\ Edited(edit) \in TransferRow
      BY <2>3, <3>1, <3>2, EditedRow DEF CommitEdit
    <3>4. CASE FromDevice
      <4>1. Edited(edit).done < Last + 1
        BY <2>3, <3>2, <3>3, <3>4, EditedLacks, BoundsAssumption DEF TransferRow
      <4>2. cmd' = Requeued("upload")
        BY <3>3, <3>4, <4>1 DEF Queue
      <4>3. QED
        BY <1>1, <3>4, <4>2 DEF Requeued, Legs, Delivered, Ends, FromDevice
    <3>5. CASE ~FromDevice
      <4>1. cmd' = Requeued("download")
        BY <1>1, <3>3, <3>5 DEF Queue, FromDevice, ToDevice, Kinds
      <4>2. QED
        BY <1>1, <4>1 DEF Requeued, Legs, Delivered, Ends
    <3>6. QED
      BY <3>4, <3>5
  <2>4. QED
    BY <2>1, <2>2, <2>3
<1>5. QED
  BY <1>2, <1>3, <1>4

WorkInv == Inv /\ Delivered /\ (~exposed => Commanded)

LEMMA WorkInit == Init => WorkInv
<1> SUFFICES ASSUME Init PROVE WorkInv
  OBVIOUS
<1>1. Inv
  BY InvInit
<1>2. /\ acks = {} /\ row.status \in {"awaiting_approval", "queued"}
      /\ \A leg \in Legs : cmd[leg] \in {"none", "queued"}
      /\ row.status = "queued" => \E leg \in Legs : cmd[leg] = "queued"
  BY DEF Init, Legs
<1>3. QED
  BY <1>1, <1>2 DEF WorkInv, Delivered, Commanded, Active

LEMMA WorkStep == WorkInv /\ [Next]_vars => WorkInv'
<1> SUFFICES ASSUME WorkInv, [Next]_vars PROVE WorkInv'
  OBVIOUS
<1>1. Inv'
  BY InvStep DEF WorkInv
<1>2. CASE UNCHANGED vars
  BY <1>1, <1>2 DEF WorkInv, vars, host, agents, Delivered, Commanded, Ends
<1>3. CASE Next
  <2>1. Delivered'
    BY <1>3, DeliveredStep DEF WorkInv, Inv
  <2>2. ASSUME ~exposed' PROVE Commanded'
    <3>1. Sane /\ Commanded
      BY <1>3, <2>2, ExposedStays DEF WorkInv, Inv, Sane
    <3>2. QED
      BY <3>1, CommandedStep DEF WorkInv
  <2>3. QED
    BY <1>1, <2>1, <2>2 DEF WorkInv
<1>4. QED
  BY <1>2, <1>3

(* A transfer that is shown as active and has not arrived has a command for   *)
(* some agent to take up, whatever reports are late, repeated or lost, and    *)
(* whatever is paused, resumed or retried; the exception is one between       *)
(* devices whose upload was reported done (queue_transfer_commands leaves a   *)
(* completed command as it is).                                               *)
THEOREM OnlyReuploadsAreStranded == Spec => []OnlyReuploadsStrand
<1>1. WorkInv => OnlyReuploadsStrand
  BY DEF WorkInv, Commanded, OnlyReuploadsStrand, Stranded
<1>2. QED
  BY <1>1, WorkInit, WorkStep, PTL DEF Spec

(* The recorded hash of a transfer is not replaced, and what counts as received is *)
(* in the file, as long as nothing exposed the transfer. *)
RecordedStays ==
  [][~exposed' /\ row.sha # NoHash => row'.sha = row.sha]_vars
ReceivedIsThere ==
  ~exposed /\ row.status \in Active => \A c \in chunks : part[c] # Gap

(* However requests of the sender overlap, are repeated or come late, the hash *)
(* that the first complete upload recorded is the one every later finalize and *)
(* every download is held against (upload_chunk, finalize_device_upload). *)
THEOREM HashesStay == Spec => RecordedStays
<1>1. ASSUME Inv, [Next]_vars, ~exposed', row.sha # NoHash
      PROVE  row'.sha = row.sha
  <2>1. CASE UNCHANGED vars
    BY <2>1 DEF vars, host
  <2>2. CASE Next
    <3>1. Sane
      BY <1>1, <2>2, ExposedStays DEF Inv, Sane
    <3>2. QED
      BY <1>1, <3>1, ShaStays
  <2>3. QED
    BY <1>1, <2>1, <2>2
<1>2. Inv /\ [Next]_vars
        => [~exposed' /\ row.sha # NoHash => row'.sha = row.sha]_vars
  BY <1>1
<1>3. QED
  BY <1>2, InvInit, InvStep, PTL DEF Spec, RecordedStays

(* An active transfer counts no chunk whose bytes are not in its file, so that a *)
(* sender that goes on where the count ends leaves no hole (upload_chunk). *)
THEOREM ReceivedAreThere == Spec => []ReceivedIsThere
<1>1. Inv => ReceivedIsThere
  BY DEF Inv, Intact, Present, ReceivedIsThere
<1>2. QED
  BY <1>1, InvInit, InvStep, PTL DEF Spec

=============================================================================
