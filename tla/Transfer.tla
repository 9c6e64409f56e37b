------------------------------ MODULE Transfer ------------------------------
(***************************************************************************)
(* One file on its way between the host and its devices (routers/fleet.py,  *)
(* client_agent.py, scheduler.py): the transfer's row, its chunk rows, the  *)
(* .part file, the commands the device agents poll for, the requests in     *)
(* flight on the host, and the agents themselves, each of which works off   *)
(* one command at a time.                                                   *)
(*                                                                          *)
(* A request reads the row when it arrives and writes at its end only the   *)
(* columns it changed: what others committed meanwhile in those columns is  *)
(* lost, what they committed in the others stays.  Files are written and    *)
(* removed outside any transaction.                                         *)
(*                                                                          *)
(* The file is a single one that a device shares by its index, which knows  *)
(* no hash of it, or one of the host; its size stays what the index says.   *)
(***************************************************************************)
EXTENDS Integers, Sequences, FiniteSets

CONSTANTS
  Last,        \* number of the last chunk
  MaxVersions, \* bound on the versions the source file goes through
  MaxEvents,   \* bound on faults and troubles together
  NoHash,      \* the empty sha256 column
  Nobody       \* no edit under way

ASSUME BoundsAssumption ==
  /\ Last \in Nat
  /\ MaxVersions \in Nat \ {0}
  /\ MaxEvents \in Nat

Chunk == 0..Last
Versions == 1..MaxVersions

\* A chunk of a file holds the bytes of a version of the source, or nothing.
Gap == 0
Contents == [Chunk -> Versions \cup {Gap}]
Nothing == [c \in Chunk |-> Gap]
Snapshot(v) == [c \in Chunk |-> v]

ASSUME NoHashAssumption == NoHash \notin Contents

Kinds == {"device_to_host", "host_to_device", "device_to_device"}
Statuses == {"awaiting_approval", "queued", "transferring", "paused",
             "completed", "failed", "cancelled", "expired"}
Active == {"queued", "transferring"}
Legs == {"upload", "download"}

TransferRow == [status : Statuses, done : 0..Last + 1, staged : BOOLEAN,
                sha : Contents \cup {NoHash}]

ChunkCalls == [op : {"chunk"}, chunk : Chunk, body : Versions,
               seen : TransferRow, wrote : BOOLEAN, awaited : BOOLEAN]
FinalizeCalls == [op : {"finalize"}, seen : TransferRow, awaited : BOOLEAN]
Acts == {"approve", "pause", "resume", "cancel", "retry"}
Edits == [act : Acts, seen : TransferRow]

ASSUME NobodyAssumption == \A e \in Edits : e # Nobody

VARIABLES
  kind,     \* direction of the transfer
  row,      \* its row: status, completed_chunks, transit_path, sha256
  chunks,   \* numbers of its TransferChunk rows
  part,     \* the bytes of its .part file; all Gap: there is no file
  cmd,      \* status of the two DeviceCommands it may have
  calls,    \* upload_chunk and finalize requests in flight on the host
  edit,     \* the user's request in flight, or Nobody
  sweeps,   \* cleanups of the .part file that are due after a commit
  notices,  \* outcomes the requester was notified of
  acks,     \* acknowledgements on their way to the host
  src,      \* version of the source file on its device
  sender,   \* the source device's agent, and the chunks it need not send
  receiver, \* the destination device's agent, and the hash it expects
  local,    \* the chunks in the receiver's own .part file
  arrived,  \* contents of the files that reached their destination
  late,     \* expires_at has passed
  faults,   \* interruptions so far, which the agents mean to survive
  troubles, \* other disturbances so far
  exposed   \* history: a request, cleanup or cycle ended in a way that leaves
            \* the row, the chunks and the file to disagree

host == <<row, chunks, part, cmd, calls, edit, sweeps, notices>>
agents == <<acks, sender, receiver>>
events == <<faults, troubles>>
vars == <<kind, host, agents, src, local, arrived, late, events, exposed>>

May == faults + troubles < MaxEvents
Fault == May /\ faults' = faults + 1 /\ UNCHANGED troubles
Trouble == May /\ troubles' = troubles + 1 /\ UNCHANGED faults
Quiet == UNCHANGED events

-----------------------------------------------------------------------------
(* The host's side: what the row and the commands become.  Faulty...        *)
(* variants are mistakes a change of this code could make; they are not     *)
(* part of the specification.                                               *)

FromDevice == kind \in {"device_to_host", "device_to_device"}
ToDevice == kind \in {"host_to_device", "device_to_device"}

\* SQLAlchemy writes the columns whose value differs from the one it read.
Written(seen, new) ==
  [f \in DOMAIN row |-> IF new[f] = seen[f] THEN row[f] ELSE new[f]]

\* A failed command is forgotten.
FaultyRequeued(leg) ==
  [cmd EXCEPT ![leg] = IF @ = "none" THEN "queued" ELSE @]

\* A command is queued when it is new, and again only once it has failed.
Requeued(leg) ==
  [cmd EXCEPT ![leg] = IF @ \in {"none", "failed"} THEN "queued" ELSE @]

\* queue_transfer_commands, with the row as the request has it in memory.
Queue(r) ==
  IF FromDevice /\ r.done < Last + 1 THEN Requeued("upload")
  ELSE IF ToDevice THEN Requeued("download")
  ELSE cmd

\* The columns of a row whose chunks are dropped.
Emptied(r) == [r EXCEPT !.done = 0, !.staged = FALSE]

\* One cleanup is pending at most: the next waits for it.
Sweep == sweeps = 0 /\ sweeps' = 1

\* The transfer is found to be past its time.
Expire ==
  /\ row' = Emptied([row EXCEPT !.status = "expired"])
  /\ chunks' = {}
  /\ Sweep

Init ==
  /\ kind \in Kinds
  /\ row \in [status : {"awaiting_approval", "queued"}, done : {0},
              staged : {kind = "host_to_device"},
              sha : {IF kind = "host_to_device" THEN Snapshot(1) ELSE NoHash}]
  /\ chunks = {}
  /\ part = IF kind = "host_to_device" THEN Snapshot(1) ELSE Nothing
  /\ LET first == IF kind = "host_to_device" THEN "download" ELSE "upload"
     IN  cmd = [leg \in Legs |-> IF leg = first /\ row.status = "queued"
                                 THEN "queued" ELSE "none"]
  /\ calls = {}
  /\ edit = Nobody
  /\ sweeps = 0
  /\ notices = {}
  /\ acks = {}
  /\ src = 1
  /\ sender = [at |-> "idle", have |-> {}]
  /\ receiver = [at |-> "idle", want |-> NoHash]
  /\ local = <<>>
  /\ arrived = {}
  /\ late = FALSE
  /\ faults = 0
  /\ troubles = 0
  /\ exposed = FALSE

-----------------------------------------------------------------------------
(* The agents poll.  A command once delivered is delivered again when its   *)
(* lease of 45 seconds has run out, which it has whenever the agent polls   *)
(* with that command unfinished.                                            *)

\* No lease: what was delivered is never delivered again.
FaultyDeliverable(leg) == cmd[leg] = "queued"

Deliverable(leg) == cmd[leg] \in {"queued", "leased"}

\* The host's answer may be lost: then nobody is at work.
PollUpload ==
  /\ sender.at = "idle" /\ Deliverable("upload")
  /\ cmd' = [cmd EXCEPT !["upload"] = "leased"]
  /\ \/ sender' = [sender EXCEPT !.at = "start"] /\ Quiet
     \/ Fault /\ UNCHANGED sender
  /\ UNCHANGED <<kind, row, chunks, part, calls, edit, sweeps, notices, acks,
                 receiver, src, local, arrived, late, exposed>>

PollDownload ==
  /\ receiver.at = "idle" /\ Deliverable("download")
  /\ cmd' = [cmd EXCEPT !["download"] = "leased"]
  /\ \/ receiver' = [receiver EXCEPT !.at = "start"] /\ Quiet
     \/ Fault /\ UNCHANGED receiver
  /\ UNCHANGED <<kind, row, chunks, part, calls, edit, sweeps, notices, acks,
                 sender, src, local, arrived, late, exposed>>

-----------------------------------------------------------------------------
(* The sender: upload_transfer.                                             *)

SenderIdle == [at |-> "idle", have |-> {}]

\* The agent reports the outcome and waits for the host's answer.
Report(leg, ok) ==
  acks' = acks \cup {[leg |-> leg, ok |-> ok, awaited |-> TRUE]}

SenderReports(ok) ==
  /\ sender' = [at |-> "report", have |-> {}]
  /\ Report("upload", ok)

SenderStops == sender' = SenderIdle /\ UNCHANGED acks

\* The source is not compared with what it was.
FaultySourceUnchanged == TRUE

\* The file is still the one indexed, by its size and its modification time.
SourceUnchanged == src = 1

\* To fail to fetch the transfer's status is an outcome, and is not retried.
BeginUpload ==
  /\ sender.at = "start"
  /\ \/ /\ SourceUnchanged /\ Quiet
        /\ sender' = [at |-> "send", have |-> chunks]
        /\ UNCHANGED acks
     \/ ~SourceUnchanged /\ SenderReports(FALSE) /\ Quiet
     \/ Trouble /\ SenderReports(FALSE)
  /\ UNCHANGED <<kind, host, receiver, src, local, arrived, late, exposed>>

Missing == Chunk \ sender.have
IsNext(c) == \A d \in Missing : c <= d

ChunkCall(c) == [op |-> "chunk", chunk |-> c, body |-> src, seen |-> row,
                 wrote |-> FALSE, awaited |-> TRUE]
FinalizeCall == [op |-> "finalize", seen |-> row, awaited |-> TRUE]

\* The agent reads a chunk and sends it; the host checks the row it reads, the
\* transfer's time and the permission.  To the agent a refusal is a network
\* error: it stops without a report.
SendChunk ==
  /\ sender.at = "send" /\ Missing # {}
  /\ \/ /\ row.status \in Active /\ ~late /\ Quiet
        /\ \E c \in Missing :
             /\ IsNext(c)
             /\ calls' = calls \cup {ChunkCall(c)}
             /\ sender' = [at |-> "wait", have |-> sender.have \cup {c}]
        /\ UNCHANGED <<row, chunks, sweeps, acks>>
     \/ /\ row.status \notin Active /\ Quiet
        /\ SenderStops
        /\ UNCHANGED <<row, chunks, calls, sweeps>>
     \/ /\ row.status \in Active /\ late /\ Quiet
        /\ Expire /\ SenderStops
        /\ UNCHANGED calls
     \/ /\ row.status \in Active /\ ~late /\ Trouble
        /\ row' = [row EXCEPT !.status = "paused"]
        /\ SenderStops
        /\ UNCHANGED <<chunks, calls, sweeps>>
  /\ UNCHANGED <<kind, part, cmd, edit, notices, receiver, src, local, arrived,
                 late, exposed>>

\* Past its checks, the request writes the bytes in a thread.
WriteChunk(h) ==
  /\ h.op = "chunk" /\ ~h.wrote
  /\ part' = [part EXCEPT ![h.chunk] = h.body]
  /\ calls' = (calls \ {h}) \cup {[h EXCEPT !.wrote = TRUE]}
  /\ UNCHANGED <<kind, row, chunks, cmd, edit, sweeps, notices, agents, src,
                 local, arrived, late, events, exposed>>

Expose(b) == exposed' = (exposed \/ b)

\* The agent's patience may have ended.
SenderGoesOn(h) ==
  /\ sender' = IF h.awaited THEN [sender EXCEPT !.at = "send"] ELSE sender
  /\ UNCHANGED acks

Counted(seen, stored) == Cardinality(stored)

\* The last chunk ends the transfer.
FaultyAllReceived(new) == [new EXCEPT !.sha = part, !.status = "completed"]

\* The source's agent has yet to confirm that the file did not change.
AllReceived(new) == [new EXCEPT !.sha = part]

FullSize == part[Last] # Gap

\* The chunk's row, the recount, and with the last chunk the whole file's size
\* and hash: one transaction.  With no file there is an error and no commit.  The
\* size and the hash are awaited between flush and commit, where rows cannot
\* change, since the flush has the database's only write transaction; what is
\* written to the file meanwhile comes before this step if the hash saw it, after
\* it otherwise.
StoreChunk(h) ==
  LET stored == chunks \cup {h.chunk}
      new == [h.seen EXCEPT !.status = "transferring", !.staged = TRUE,
                            !.done = Counted(h.seen, stored)]
      whole == new.done > Last
      good == FullSize /\ h.seen.sha \in {NoHash, part}
  IN
  /\ h.op = "chunk" /\ h.wrote
  /\ calls' = calls \ {h}
  /\ \/ /\ ~whole \/ (part # Nothing /\ good)
        /\ row' = Written(h.seen, IF whole THEN AllReceived(new) ELSE new)
        /\ chunks' = stored
        /\ SenderGoesOn(h)
        /\ UNCHANGED sweeps
     \/ /\ whole /\ part # Nothing /\ ~good
        /\ row' = Written(h.seen, Emptied([new EXCEPT !.status = "failed"]))
        /\ chunks' = {} /\ Sweep
        /\ IF h.awaited THEN SenderReports(FALSE) ELSE UNCHANGED <<sender, acks>>
     \/ /\ whole /\ part = Nothing
        /\ IF h.awaited THEN SenderStops ELSE UNCHANGED <<sender, acks>>
        /\ UNCHANGED <<row, chunks, sweeps>>
  /\ Expose(\/ row.status \notin Active
            \/ part[h.chunk] = Gap
            \/ row.sha # h.seen.sha)
  /\ UNCHANGED <<kind, part, cmd, edit, notices, receiver, src, local, arrived,
                 late, events>>

\* A request fails on the host: no space left, the database busy.
FailCall(h) ==
  /\ calls' = calls \ {h}
  /\ IF h.op = "chunk"
     THEN Fault /\ (IF h.awaited THEN SenderStops ELSE UNCHANGED <<sender, acks>>)
     ELSE Trouble /\ (IF h.awaited THEN SenderReports(FALSE)
                      ELSE UNCHANGED <<sender, acks>>)
  /\ UNCHANGED <<kind, row, chunks, part, cmd, edit, sweeps, notices, receiver,
                 src, local, arrived, late, exposed>>

\* The agent stops waiting; the host goes on with the request.
Unawaited(S) == {[x EXCEPT !.awaited = FALSE] : x \in S}

ChunkTimesOut ==
  /\ sender.at = "wait" /\ Fault
  /\ calls' = Unawaited(calls)
  /\ SenderStops
  /\ UNCHANGED <<kind, row, chunks, part, cmd, edit, sweeps, notices, receiver,
                 src, local, arrived, late, exposed>>

FinalizeTimesOut ==
  /\ sender.at = "finalize" /\ Trouble
  /\ calls' = Unawaited(calls)
  /\ SenderReports(FALSE)
  /\ UNCHANGED <<kind, row, chunks, part, cmd, edit, sweeps, notices, receiver,
                 src, local, arrived, late, exposed>>

\* All chunks are there: is the source still the file the agent began with?
\* The host looks at the permission alone before it turns to the file.
AskFinalize ==
  /\ sender.at = "send" /\ Missing = {}
  /\ \/ /\ SourceUnchanged /\ Quiet
        /\ calls' = calls \cup {FinalizeCall}
        /\ sender' = [sender EXCEPT !.at = "finalize"]
        /\ UNCHANGED acks
     \/ ~SourceUnchanged /\ SenderReports(FALSE) /\ Quiet /\ UNCHANGED calls
     \/ Trouble /\ SenderReports(FALSE) /\ UNCHANGED calls
  /\ UNCHANGED <<kind, row, chunks, part, cmd, edit, sweeps, notices, receiver,
                 src, local, arrived, late, exposed>>

Finalize(h) ==
  LET complete == FullSize /\ h.seen.done > Last
      matches == h.seen.sha \in {NoHash, part}
      new == [h.seen EXCEPT !.sha = part, !.staged = TRUE]
      answer(ok) == IF h.awaited THEN SenderReports(ok)
                    ELSE UNCHANGED <<sender, acks>>
  IN
  /\ h.op = "finalize"
  /\ calls' = calls \ {h}
  /\ \/ /\ ~complete
        /\ answer(FALSE)
        /\ UNCHANGED <<row, chunks, cmd, sweeps, arrived>>
     \/ /\ complete /\ ~matches
        /\ row' = Written(h.seen, Emptied([h.seen EXCEPT !.status = "failed"]))
        /\ chunks' = {} /\ Sweep
        /\ answer(FALSE)
        /\ UNCHANGED <<cmd, arrived>>
     \/ /\ complete /\ matches /\ kind = "device_to_host"
        /\ row' = Written(h.seen, [new EXCEPT !.status = "completed"])
        /\ arrived' = arrived \cup {part}
        /\ Sweep
        /\ answer(TRUE)
        /\ UNCHANGED <<chunks, cmd>>
     \/ /\ complete /\ matches /\ kind # "device_to_host"
        /\ row' = Written(h.seen, [new EXCEPT !.status = "transferring"])
        /\ cmd' = Queue(new)
        /\ answer(TRUE)
        /\ UNCHANGED <<chunks, sweeps, arrived>>
  /\ UNCHANGED <<kind, part, edit, notices, receiver, src, local, late, events,
                 exposed>>

-----------------------------------------------------------------------------
(* The receiver: download_transfer.                                         *)

ReceiverIdle == [at |-> "idle", want |-> NoHash]

ReceiverReports(ok) ==
  /\ receiver' = [at |-> "report", want |-> NoHash]
  /\ Report("download", ok)

BeginDownload ==
  /\ receiver.at = "start"
  /\ \/ /\ receiver' = [at |-> "get", want |-> row.sha] /\ Quiet
        /\ UNCHANGED acks
     \/ Trouble /\ ReceiverReports(FALSE)
  /\ UNCHANGED <<kind, host, sender, src, local, arrived, late, exposed>>

\* The file reaches to the last chunk written in it.
Holds(c) == \E d \in Chunk : d >= c /\ part[d] # Gap

\* One chunk, from where the receiver's own file ends.  What is not there yet is
\* asked for later; a transfer past its time or not permitted is a failure.
GetChunk ==
  LET served == row.status \in Active \cup {"completed"}
      c == Len(local)
  IN
  /\ receiver.at = "get" /\ c <= Last
  /\ \/ /\ served /\ ~late /\ Holds(c) /\ Quiet
        /\ local' = Append(local, part[c])
        /\ UNCHANGED <<row, chunks, sweeps, receiver, acks>>
     \/ /\ ~served \/ (~late /\ ~Holds(c))
        /\ receiver' = ReceiverIdle /\ Quiet
        /\ UNCHANGED <<row, chunks, sweeps, local, acks>>
     \/ /\ served /\ late /\ Quiet
        /\ Expire /\ ReceiverReports(FALSE)
        /\ UNCHANGED local
     \/ /\ served /\ ~late /\ Trouble
        /\ row' = [row EXCEPT !.status = "paused"]
        /\ ReceiverReports(FALSE)
        /\ UNCHANGED <<chunks, sweeps, local>>
     \/ /\ Fault
        /\ receiver' = ReceiverIdle
        /\ UNCHANGED <<row, chunks, sweeps, local, acks>>
  /\ UNCHANGED <<kind, part, cmd, calls, edit, notices, sender, src, arrived,
                 late, exposed>>

Received == [c \in Chunk |-> local[c + 1]]

\* The hash decides; a file that does not match it is not kept.
FinishDownload ==
  /\ receiver.at = "get" /\ Len(local) > Last
  /\ \/ /\ receiver.want \in {NoHash, Received}
        /\ arrived' = arrived \cup {Received}
        /\ ReceiverReports(TRUE)
     \/ /\ receiver.want \notin {NoHash, Received}
        /\ ReceiverReports(FALSE)
        /\ UNCHANGED arrived
  /\ local' = <<>>
  /\ UNCHANGED <<kind, host, sender, src, late, events, exposed>>

-----------------------------------------------------------------------------
(* Acknowledgements and cleanups.                                           *)

\* The agent goes back to polling.
Answered(a) ==
  /\ sender' = IF a.awaited /\ a.leg = "upload" THEN SenderIdle ELSE sender
  /\ receiver' = IF a.awaited /\ a.leg = "download" THEN ReceiverIdle
                 ELSE receiver

\* ack_command looks neither at the transfer's status nor at the command's.
Ack(a) ==
  /\ acks' = acks \ {a}
  /\ cmd' = [cmd EXCEPT ![a.leg] = IF a.ok THEN "completed" ELSE "failed"]
  /\ \/ /\ ~a.ok
        /\ row' = [row EXCEPT !.status = "failed"]
        /\ Sweep
     \/ /\ a.ok /\ a.leg = "download"
        /\ row' = [row EXCEPT !.status = "completed", !.done = Last + 1]
        /\ Sweep
     \/ /\ a.ok /\ a.leg = "upload"
        /\ UNCHANGED <<row, sweeps>>
  /\ notices' = notices \cup {IF a.ok THEN "completed" ELSE "failed"}
  /\ Answered(a)
  /\ UNCHANGED <<kind, chunks, part, calls, edit, src, local, arrived, late,
                 events, exposed>>

\* The report is lost, or takes longer than the agent waits.
AckFails(a) ==
  /\ a.awaited /\ Fault
  /\ \/ acks' = acks \ {a}
     \/ acks' = (acks \ {a}) \cup Unawaited({a})
  /\ Answered(a)
  /\ UNCHANGED <<kind, host, src, local, arrived, late, exposed>>

\* cleanup_transfer_part, some time after the commit that asked for it.
Cleanup ==
  /\ sweeps = 1
  /\ sweeps' = 0
  /\ part' = Nothing
  /\ Expose(row.status \in Active \cup {"paused"})
  /\ UNCHANGED <<kind, row, chunks, cmd, calls, edit, notices, agents, src,
                 local, arrived, late, events>>

-----------------------------------------------------------------------------
(* The user, the scheduler and the environment.                             *)

Allowed(act) ==
  \/ act = "approve"
  \/ act = "pause"  /\ row.status \in Active
  \/ act = "resume" /\ row.status = "paused"
  \/ act = "cancel" /\ row.status \notin {"completed", "cancelled"}
  \/ act = "retry"  /\ row.status \in {"failed", "expired"}

\* The request of a user who knows the current version of the row.
OpenEdit(act) ==
  /\ edit = Nobody /\ Allowed(act) /\ Trouble
  /\ edit' = [act |-> act, seen |-> row]
  /\ UNCHANGED <<kind, row, chunks, part, cmd, calls, sweeps, notices, agents,
                 src, local, arrived, late, exposed>>

\* The chunks go with a cancelled transfer and, if they can come from the
\* device again, with one that is retried.
Drops(act) == act = "cancel" \/ (act = "retry" /\ FromDevice)

NewStatus(act) ==
  IF act = "cancel" THEN "cancelled" ELSE IF act = "pause" THEN "paused"
  ELSE "queued"

Edited(e) ==
  LET r == [e.seen EXCEPT !.status = NewStatus(e.act)]
  IN  IF Drops(e.act) THEN Emptied(r) ELSE r

\* What the edit rests on: it saw the row's status as it is, it approves what
\* waits for approval, and it resumes with the chunks it saw, not with all.
Sound(e) ==
  /\ row.status = e.seen.status
  /\ e.act = "approve" => row.status = "awaiting_approval"
  /\ e.act = "resume" => row.done = e.seen.done /\ row.done <= Last

CommitEdit ==
  /\ edit # Nobody
  /\ edit' = Nobody
  /\ row' = Written(edit.seen, Edited(edit))
  /\ cmd' = IF NewStatus(edit.act) = "queued" THEN Queue(Edited(edit)) ELSE cmd
  /\ IF Drops(edit.act) THEN chunks' = {} /\ Sweep
     ELSE UNCHANGED <<chunks, sweeps>>
  /\ Expose(~Sound(edit))
  /\ UNCHANGED <<kind, part, calls, notices, agents, src, local, arrived, late,
                 events>>

\* cleanup_transfer_storage, in the scheduler's transaction.  When a later part
\* of the cycle fails, the row and the chunks are back, the file is not.
Ended == {"cancelled", "failed", "expired"}

Reclaim ==
  /\ row.status \in Ended \/ late
  /\ part' = Nothing
  /\ \/ /\ row' = Emptied([row EXCEPT !.status = IF @ \in Ended THEN @
                                                 ELSE "expired"])
        /\ chunks' = {}
        /\ Quiet /\ UNCHANGED exposed
     \/ Trouble /\ Expose(TRUE) /\ UNCHANGED <<row, chunks>>
  /\ UNCHANGED <<kind, cmd, calls, edit, sweeps, notices, agents, src, local,
                 arrived, late>>

TimePasses ==
  /\ ~late /\ late' = TRUE /\ Trouble
  /\ UNCHANGED <<kind, host, agents, src, local, arrived, exposed>>

SourceChanges ==
  /\ FromDevice /\ src < MaxVersions /\ Trouble
  /\ src' = src + 1
  /\ UNCHANGED <<kind, host, agents, local, arrived, late, exposed>>

\* Requests and cleanups in flight die with the host; an agent that waits for
\* the end of an upload takes that for its outcome.
HostRestarts ==
  /\ calls # {} \/ edit # Nobody \/ sweeps = 1
  /\ calls' = {}
  /\ edit' = Nobody
  /\ sweeps' = 0
  /\ \/ sender.at = "wait" /\ SenderStops /\ Fault
     \/ sender.at = "finalize" /\ SenderReports(FALSE) /\ Trouble
     \/ sender.at \notin {"wait", "finalize"} /\ UNCHANGED <<sender, acks>> /\ Fault
  /\ UNCHANGED <<kind, row, chunks, part, cmd, notices, receiver, src, local,
                 arrived, late, exposed>>

SenderRestarts ==
  /\ sender.at # "idle" /\ Fault
  /\ sender' = SenderIdle
  /\ calls' = Unawaited(calls)
  /\ acks' = {a \in acks : a.leg # "upload"}
             \cup Unawaited({a \in acks : a.leg = "upload"})
  /\ UNCHANGED <<kind, row, chunks, part, cmd, edit, sweeps, notices, receiver,
                 src, local, arrived, late, exposed>>

ReceiverRestarts ==
  /\ receiver.at # "idle" /\ Fault
  /\ receiver' = ReceiverIdle
  /\ acks' = {a \in acks : a.leg # "download"}
             \cup Unawaited({a \in acks : a.leg = "download"})
  /\ UNCHANGED <<kind, host, sender, src, local, arrived, late, exposed>>

-----------------------------------------------------------------------------

SenderSteps == BeginUpload \/ SendChunk \/ AskFinalize
ReceiverSteps == BeginDownload \/ GetChunk \/ FinishDownload
HostSteps ==
  \/ \E h \in calls : WriteChunk(h) \/ StoreChunk(h) \/ Finalize(h)
  \/ \E a \in acks : Ack(a)
  \/ Cleanup
  \/ CommitEdit

Disturbances ==
  \/ \E h \in calls : FailCall(h)
  \/ \E a \in acks : AckFails(a)
  \/ ChunkTimesOut \/ FinalizeTimesOut
  \/ \E act \in Acts : OpenEdit(act)
  \/ TimePasses \/ SourceChanges
  \/ HostRestarts \/ SenderRestarts \/ ReceiverRestarts

Next ==
  \/ PollUpload \/ PollDownload
  \/ SenderSteps \/ ReceiverSteps \/ HostSteps
  \/ Reclaim
  \/ Disturbances

\* The agents' loops and the host's threads run on; users, time and the
\* scheduler owe nothing.
Fairness ==
  /\ WF_vars(PollUpload)
  /\ WF_vars(PollDownload)
  /\ WF_vars(SenderSteps)
  /\ WF_vars(ReceiverSteps)
  /\ WF_vars(HostSteps)

Spec == Init /\ [][Next]_vars /\ Fairness

-----------------------------------------------------------------------------
(* Properties.                                                              *)

\* Every variable keeps to its type; in particular no more chunks are counted
\* than the file has, however often a chunk is sent.
TypeOK ==
  /\ kind \in Kinds
  /\ row \in TransferRow
  /\ chunks \subseteq Chunk
  /\ part \in Contents
  /\ cmd \in [Legs -> {"none", "queued", "leased", "completed", "failed"}]
  /\ calls \subseteq ChunkCalls \cup FinalizeCalls
  /\ edit \in Edits \cup {Nobody}
  /\ sweeps \in 0..1
  /\ notices \subseteq {"completed", "failed"}
  /\ acks \subseteq [leg : Legs, ok : BOOLEAN, awaited : BOOLEAN]
  /\ src \in Versions
  /\ sender \in [at : {"idle", "start", "send", "wait", "finalize", "report"},
                 have : SUBSET Chunk]
  /\ receiver \in [at : {"idle", "start", "get", "report"},
                   want : Contents \cup {NoHash}]
  /\ local \in Seq(Versions \cup {Gap}) /\ Len(local) <= Last + 1
  /\ arrived \subseteq Contents
  /\ late \in BOOLEAN
  /\ faults \in Nat /\ troubles \in Nat /\ faults + troubles <= MaxEvents
  /\ exposed \in BOOLEAN

\* A transfer that is shown as completed has put its file where it was to go,
\* however late, repeated or lost the agents' reports are.
CompletedMeansArrived == row.status = "completed" => arrived # {}

\* A file that arrives is one version of the source from end to end, although
\* the source may change in between, chunks are sent again after a break, and
\* retries start over: unless a stale request, a late cleanup, a resume between
\* the last chunk and finalize, or a failed cycle of the scheduler came between.
ArrivedAreSnapshots ==
  ~exposed => \A f \in arrived : \E v \in Versions : f = Snapshot(v)

\* Nobody is at work on a transfer that is shown as active.
Stranded ==
  /\ row.status \in Active
  /\ \A leg \in Legs : cmd[leg] \notin {"queued", "leased"}
  /\ acks = {} /\ calls = {} /\ edit = Nobody

\* An active transfer whose file has not arrived has a command some agent will
\* take up; the exception is one between devices whose upload was reported done:
\* to retry it drops the chunks and does not queue the upload again.
OnlyReuploadsStrand ==
  Stranded /\ arrived = {} /\ ~exposed =>
    kind = "device_to_device" /\ cmd["upload"] = "completed"

\* A queued transfer that is only interrupted (lost answers and reports, chunk
\* requests that fail or time out, agents that restart) goes on where it was and
\* completes.
InterruptedTransfersComplete ==
  row.status = "queued" => <>(row.status = "completed" \/ troubles > 0)

=============================================================================
