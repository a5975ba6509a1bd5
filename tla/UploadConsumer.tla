--------------------------- MODULE UploadConsumer ---------------------------
(***************************************************************************)
(* The copy pipeline of one copier process: the listing loop of `run`      *)
(* feeds a bounded channel; the driver `upload_consumer` pulls objects     *)
(* from it, hands each one to an upload task of the current CAS session,   *)
(* seals full sessions, and commits every sealed session (finalize, then   *)
(* POST /batch) in a background task once its last upload has ended.       *)
(*                                                                         *)
(* The driver is one task: its handlers run to completion, but they await  *)
(* in two places (the commit back-pressure of spawn_commit, the opening of *)
(* a session), and upload and commit tasks keep running meanwhile.  Those  *)
(* two awaits are the driver's program counters "commit" and "open".       *)
(*                                                                         *)
(* Objects are numbered in listing order, so the channel holds the numbers *)
(* recvd+1 .. sent.  A SessionSlot's counters are kept as sets of files:   *)
(* `assigned` is Assigned(s), `completed` is Completed(s).                 *)
(***************************************************************************)
EXTENDS Integers, FiniteSets, FiniteSetsExt

CONSTANTS
  N,            \* most objects the lister hands over in one run
  Size,         \* listed size of each object
  Parallel,     \* --parallel-files, after memory sizing
  CommitChunk,  \* --commit-chunk: files per session
  CommitBytes,  \* --commit-gib: bytes per session, 0 = no byte trigger
  ChanCap       \* capacity of the listing channel

Files    == 1..N
Sessions == 0..N

NoFile    == 0
NoSession == -1

ASSUME ConstantsOK ==
  /\ N \in Nat
  /\ Size \in [Files -> Nat]
  /\ Parallel \in Nat
  /\ CommitChunk \in Nat
  /\ CommitBytes \in Nat
  /\ ChanCap \in Nat \ {0}

\* Commit tasks that may run at once.
MAX_PENDING_COMMITS == 2

VARIABLES
  run,       \* the copier's run(): "listing", "awaiting" the consumer, "ok", "err"
  sent,      \* objects put into the channel so far
  recvd,     \* objects the driver took out of it
  rxOpen,    \* the driver's rx_open
  pc,        \* the driver: "select", "commit", "open", or returned "ok" / "err"
  held,      \* the object the driver pulled and has not assigned yet
  sid,       \* the session spawn_commit is waiting to commit
  cur,       \* cur_id
  sessions,  \* keys of the driver's session map
  sealed,    \* sessions that take no more files
  owner,     \* the session each file was assigned to
  task,      \* the upload task of each file
  joined,    \* files whose task the driver has joined
  ops,       \* files whose op sits in its session's collector
  batch,     \* files whose op a commit task has taken out of the collector
  ctask,     \* the commit task of each session
  dest,      \* files the destination has applied
  filesDone, committedFiles, shardsPending, filesPendingAck   \* Metrics

listVars   == <<run, sent>>
driverVars == <<recvd, rxOpen, pc, held, sid, cur, sessions, sealed, owner, joined>>
gauges     == <<filesDone, committedFiles, shardsPending, filesPendingAck>>
vars == <<run, sent, recvd, rxOpen, pc, held, sid, cur, sessions, sealed, owner,
          task, joined, ops, batch, ctask, dest,
          filesDone, committedFiles, shardsPending, filesPendingAck>>

-----------------------------------------------------------------------------
(* Operators named Bad... are faulty variants of the definition after them, *)
(* used only to see that a property notices the fault.                     *)

AtLeastOne(n) == IF n = 0 THEN 1 ELSE n

chunk == AtLeastOne(CommitChunk)

parallel == AtLeastOne(Parallel)

Assigned(s)  == {f \in Files : owner[f] = s}
Completed(s) == Assigned(s) \cap joined
Bytes(s)     == MapThenSumSet(LAMBDA f : Size[f], Assigned(s))

\* The two JoinSets: tasks spawned and not joined yet.
Inflight == {f \in Files : task[f] # "none" /\ f \notin joined}
Commits  == {s \in Sessions : ctask[s] \notin {"none", "joined"}}

\* A session takes no further file: file count or byte threshold reached.
Full(s) == \/ Cardinality(Assigned(s)) >= chunk
           \/ CommitBytes > 0 /\ Bytes(s) >= CommitBytes

\* The object rx.recv() yields.
NextObject == recvd + 1

\* cur_id after a rotation.
NextSession == cur + 1

\* No file of session s is left in flight when it is sealed.
BadReadyAtSeal(s) == FALSE              \* left to the last join, which is over
ReadyAtSeal(s)    == Completed(s) = Assigned(s)

\* f is the last file of a sealed session to be joined.
BadLastOfSealed(f) == owner[f] \in sealed
LastOfSealed(f)    == /\ owner[f] \in sealed
                      /\ Completed(owner[f]) \cup {f} = Assigned(owner[f])

\* spawn_commit may start another commit task.
BadCommitSlotFree == Cardinality(Commits) <= MAX_PENDING_COMMITS
CommitSlotFree    == Cardinality(Commits) < MAX_PENDING_COMMITS

\* The driver awaits a commit task: in its select loop, or in spawn_commit's
\* wait for a free slot.
BadMayJoinCommit == pc = "select"       \* the wait never reaps
MayJoinCommit    == pc = "select" \/ (pc = "commit" /\ ~CommitSlotFree)

\* The driver's loop has nothing left to wait for.
BadDrained == ~rxOpen /\ Inflight = {}  \* commits not waited for
Drained    == ~rxOpen /\ Inflight = {} /\ Commits = {}

\* Gauges: what a seal adds, what an acknowledged shard leaves.
BadPendingFiles(s) == Cardinality(Completed(s))
PendingFiles(s)    == Cardinality(Assigned(s))
ShardAcked == shardsPending - 1

\* The ops a commit task took out, and how many of them batch() reports the
\* destination confirmed.
Batch(s) == batch \cap Assigned(s)
BadConfirmed(s) == Cardinality(Batch(s))  \* what was handed over, not confirmed
Confirmed(s)    == Cardinality(Batch(s) \cap dest)

Init ==
  /\ run = "listing" /\ sent = 0
  /\ recvd = 0 /\ rxOpen = TRUE /\ pc = "select"
  /\ held = NoFile /\ sid = NoSession /\ cur = 0
  /\ sessions = {} /\ sealed = {}
  /\ owner = [f \in Files |-> NoSession]
  /\ task  = [f \in Files |-> "none"]
  /\ ctask = [s \in Sessions |-> "none"]
  /\ joined = {} /\ ops = {} /\ batch = {} /\ dest = {}
  /\ filesDone = 0 /\ committedFiles = 0
  /\ shardsPending = 0 /\ filesPendingAck = 0

-----------------------------------------------------------------------------
(* run(): the listing loop, then the wait for the consumer.                *)

\* send().await: waits while the channel is full; an error once rx is dropped
\* ends the listing.
ListerSend ==
  /\ run = "listing" /\ sent < N
  /\ \/ pc # "err" /\ sent - recvd < ChanCap /\ sent' = sent + 1 /\ UNCHANGED run
     \/ pc = "err" /\ run' = "awaiting" /\ UNCHANGED sent
  /\ UNCHANGED <<driverVars, task, ops, batch, ctask, dest, gauges>>

\* The listing ends (last page, stop_at or --limit-gib): tx is dropped.
ListerDone ==
  /\ run = "listing"
  /\ run' = "awaiting"
  /\ UNCHANGED <<sent, driverVars, task, ops, batch, ctask, dest, gauges>>

\* A page or paths-info lookup fails for good: run() returns, dropping tx.
ListerFail ==
  /\ run = "listing"
  /\ run' = "err"
  /\ UNCHANGED <<sent, driverVars, task, ops, batch, ctask, dest, gauges>>

\* run() joins the consumer and compares the two file counters.
RunJoin ==
  /\ run = "awaiting" /\ pc \in {"ok", "err"}
  /\ run' = IF pc = "ok" /\ committedFiles = filesDone THEN "ok" ELSE "err"
  /\ UNCHANGED <<sent, driverVars, task, ops, batch, ctask, dest, gauges>>

-----------------------------------------------------------------------------
(* upload_consumer: the driver.                                            *)

\* Returning Err drops rx and both JoinSets, which aborts their tasks.
Abort == pc' = "err"

\* seal_session(s), then `next`; a session with no file left in flight goes
\* through spawn_commit first.
SealSession(s, next) ==
  /\ sealed' = sealed \cup {s}
  /\ shardsPending' = shardsPending + 1
  /\ filesPendingAck' = filesPendingAck + PendingFiles(s)
  /\ IF ReadyAtSeal(s)
     THEN pc' = "commit" /\ sid' = s
     ELSE pc' = next     /\ UNCHANGED sid

\* rx.recv() yields an object; a full current session is sealed first.
Recv ==
  /\ pc = "select" /\ rxOpen /\ Cardinality(Inflight) < parallel
  /\ recvd < sent
  /\ recvd' = recvd + 1 /\ held' = NextObject
  /\ \/ /\ cur \in sessions /\ Full(cur)
        /\ SealSession(cur, "open")
        /\ cur' = NextSession
     \/ /\ ~(cur \in sessions /\ Full(cur))
        /\ pc' = "open"
        /\ UNCHANGED <<sealed, shardsPending, filesPendingAck, sid, cur>>
  /\ UNCHANGED <<listVars, rxOpen, sessions, owner, joined, task, ops, batch, ctask,
                 dest, filesDone, committedFiles>>

\* rx.recv() yields None: the channel is closed and drained.
RecvClosed ==
  /\ pc = "select" /\ rxOpen /\ Cardinality(Inflight) < parallel
  /\ recvd = sent /\ run # "listing"
  /\ rxOpen' = FALSE
  /\ \/ cur \in sessions /\ SealSession(cur, "select")
     \/ /\ cur \notin sessions
        /\ UNCHANGED <<sealed, shardsPending, filesPendingAck, sid, pc>>
  /\ UNCHANGED <<listVars, recvd, held, cur, sessions, owner, joined, task, ops, batch,
                 ctask, dest, filesDone, committedFiles>>

\* The current session exists or opens: the held object is assigned to it and
\* its upload task spawned.
Assign ==
  /\ pc = "open"
  /\ sessions' = sessions \cup {cur}
  /\ owner' = [owner EXCEPT ![held] = cur]
  /\ task'  = [task EXCEPT ![held] = "running"]
  /\ held' = NoFile
  /\ pc' = "select"
  /\ UNCHANGED <<listVars, recvd, rxOpen, sid, cur, sealed, joined, ops, batch, ctask,
                 dest, gauges>>

\* The CAS token or session cannot be obtained.
OpenFail ==
  /\ pc = "open" /\ cur \notin sessions
  /\ Abort
  /\ UNCHANGED <<listVars, recvd, rxOpen, held, sid, cur, sessions, sealed, owner,
                 joined, task, ops, batch, ctask, dest, gauges>>

\* inflight.join_next(): a failed file aborts the copier, any other outcome
\* counts as completed and may be the last of a sealed session.
JoinUpload(f) ==
  /\ pc = "select" /\ f \in Inflight
  /\ \/ task[f] = "failed" /\ Abort /\ UNCHANGED <<joined, sid>>
     \/ /\ task[f] \in {"uploaded", "skipped"}
        /\ joined' = joined \cup {f}
        /\ IF LastOfSealed(f)
           THEN pc' = "commit" /\ sid' = owner[f]
           ELSE UNCHANGED <<pc, sid>>
  /\ UNCHANGED <<listVars, recvd, rxOpen, held, cur, sessions, sealed, owner, task,
                 ops, batch, ctask, dest, gauges>>

\* commits.join_next(): a failed commit aborts the copier.
JoinCommit(s) ==
  /\ MayJoinCommit
  /\ \/ ctask[s] = "failed" /\ Abort /\ UNCHANGED ctask
     \/ ctask[s] = "done" /\ ctask' = [ctask EXCEPT ![s] = "joined"] /\ UNCHANGED pc
  /\ UNCHANGED <<listVars, recvd, rxOpen, held, sid, cur, sessions, sealed, owner,
                 joined, task, ops, batch, dest, gauges>>

\* spawn_commit, below the cap: the session leaves the map, its task starts.
SpawnCommit ==
  /\ pc = "commit" /\ CommitSlotFree
  /\ sessions' = sessions \ {sid}
  /\ ctask' = [ctask EXCEPT ![sid] = "finalizing"]
  /\ sid' = NoSession
  /\ pc' = IF held = NoFile THEN "select" ELSE "open"
  /\ UNCHANGED <<listVars, recvd, rxOpen, held, cur, sealed, owner, joined, task, ops,
                 batch, dest, gauges>>

\* Channel closed, nothing in flight, no commit left.
Exit ==
  /\ pc = "select" /\ Drained
  /\ pc' = "ok"
  /\ UNCHANGED <<listVars, recvd, rxOpen, held, sid, cur, sessions, sealed, owner,
                 joined, task, ops, batch, ctask, dest, gauges>>

-----------------------------------------------------------------------------
(* Upload tasks (upload_one).                                              *)

\* The transfer succeeded: op queued and file counted, with no await between.
UploadDone(f) ==
  /\ pc # "err" /\ task[f] = "running"
  /\ task' = [task EXCEPT ![f] = "uploaded"]
  /\ ops' = ops \cup {f}
  /\ filesDone' = filesDone + 1
  /\ UNCHANGED <<listVars, driverVars, batch, ctask, dest,
                 committedFiles, shardsPending, filesPendingAck>>

\* The source object is gone (404), or every attempt failed: no op.
UploadNone(f) ==
  /\ pc # "err" /\ task[f] = "running"
  /\ \E o \in {"skipped", "failed"} : task' = [task EXCEPT ![f] = o]
  /\ UNCHANGED <<listVars, driverVars, ops, batch, ctask, dest, gauges>>

-----------------------------------------------------------------------------
(* Commit tasks.                                                           *)

\* finalize() in time: the shard is acknowledged and the ops are taken out.
FinalizeOk(s) ==
  /\ pc # "err" /\ ctask[s] = "finalizing"
  /\ ctask' = [ctask EXCEPT ![s] = "posting"]
  /\ batch' = batch \cup (ops \cap Assigned(s))
  /\ ops' = ops \ Assigned(s)
  /\ shardsPending' = ShardAcked
  /\ UNCHANGED <<listVars, driverVars, task, dest, filesDone, committedFiles,
                 filesPendingAck>>

\* finalize() fails or outlives its deadline.
FinalizeFail(s) ==
  /\ pc # "err" /\ ctask[s] = "finalizing"
  /\ ctask' = [ctask EXCEPT ![s] = "failed"]
  /\ UNCHANGED <<listVars, driverVars, task, ops, batch, dest, gauges>>

\* The destination applies some of the ops of a POST; it may do so after the
\* copier stopped listening.
BatchLand(s) ==
  /\ ctask[s] = "posting"
  /\ \E C \in SUBSET (Batch(s) \ dest) : C # {} /\ dest' = dest \cup C
  /\ UNCHANGED <<listVars, driverVars, task, ops, batch, ctask, gauges>>

\* batch() returns what the destination confirmed; anything short of all the
\* ops fails the chunk.
BatchReturn(s) ==
  /\ pc # "err" /\ ctask[s] = "posting"
  /\ LET n == Cardinality(Batch(s)) IN
       /\ filesPendingAck' = filesPendingAck - n
       /\ committedFiles' = committedFiles + Confirmed(s)
       /\ ctask' = [ctask EXCEPT ![s] = IF Confirmed(s) = n THEN "done" ELSE "failed"]
  /\ UNCHANGED <<listVars, driverVars, task, ops, batch, dest, filesDone, shardsPending>>

\* batch() returns an error.
BatchFail(s) ==
  /\ pc # "err" /\ ctask[s] = "posting"
  /\ ctask' = [ctask EXCEPT ![s] = "failed"]
  /\ UNCHANGED <<listVars, driverVars, task, ops, batch, dest, gauges>>

-----------------------------------------------------------------------------
Lister == ListerSend \/ ListerDone \/ ListerFail

Driver == \/ Recv \/ RecvClosed \/ Assign \/ OpenFail \/ SpawnCommit \/ Exit
          \/ \E f \in Files : JoinUpload(f)
          \/ \E s \in Sessions : JoinCommit(s)

UploadTask(f) == UploadDone(f) \/ UploadNone(f)

CommitTask(s) == FinalizeOk(s) \/ FinalizeFail(s) \/ BatchLand(s) \/ BatchReturn(s)
                 \/ BatchFail(s)

\* The process has returned from run(); a detached consumer has stopped too.
Finished == /\ run \in {"ok", "err"} /\ pc \in {"ok", "err"}
            /\ UNCHANGED vars

Next == \/ Lister \/ RunJoin \/ Driver
        \/ \E f \in Files : UploadTask(f)
        \/ \E s \in Sessions : CommitTask(s)
        \/ Finished

\* Every await of these tasks is bounded: page retries, the 120 s zero-progress
\* abort, the finalize deadline, the HTTP timeouts.  Each task is its own.
Fairness == /\ WF_vars(Lister) /\ WF_vars(RunJoin) /\ WF_vars(Driver)
            /\ \A f \in Files : WF_vars(UploadTask(f))
            /\ \A s \in Sessions : WF_vars(CommitTask(s))

Spec     == Init /\ [][Next]_vars
FairSpec == Spec /\ Fairness

-----------------------------------------------------------------------------
(* Properties.                                                             *)

TaskState   == {"none", "running", "uploaded", "skipped", "failed"}
CommitState == {"none", "finalizing", "posting", "done", "failed", "joined"}

\* Every variable of the pipeline keeps its type.
TypeOK ==
  /\ run \in {"listing", "awaiting", "ok", "err"}
  /\ sent \in 0..N /\ recvd \in 0..N
  /\ rxOpen \in BOOLEAN
  /\ pc \in {"select", "commit", "open", "ok", "err"}
  /\ held \in Files \cup {NoFile}
  /\ sid \in Sessions \cup {NoSession}
  /\ cur \in Sessions
  /\ sessions \in SUBSET Sessions /\ sealed \in SUBSET Sessions
  /\ owner \in [Files -> Sessions \cup {NoSession}]
  /\ task \in [Files -> TaskState]
  /\ ctask \in [Sessions -> CommitState]
  /\ joined \in SUBSET Files /\ ops \in SUBSET Files
  /\ batch \in SUBSET Files /\ dest \in SUBSET Files
  /\ filesDone \in Nat /\ committedFiles \in Nat
  /\ shardsPending \in Int /\ filesPendingAck \in Int

\* A sealed session never gets stuck in the map: either one of its uploads has
\* still to be joined (the join that will commit it), or spawn_commit is at work
\* on it.  The two places that fire a commit (the seal and the last join) cover
\* every order of the two.
SealedHasTrigger ==
  \A s \in sessions \cap sealed :
    pc = "err" \/ sid = s \/ Assigned(s) \cap Inflight # {}

\* A session's ops are taken out of its collector only when no upload task can
\* still add one: an op pushed after split_off would never be posted.
NoStrandedOp ==
  \A f \in ops : ctask[owner[f]] \in {"none", "finalizing", "failed"}

\* The driver returns Ok only when every session was committed (the
\* debug_assert at its exit) and every object it received is at the destination
\* or was gone from the source.
ExitComplete ==
  pc = "ok" => /\ sessions = {}
               /\ \A f \in 1..recvd : f \in dest \/ task[f] = "skipped"

\* run() returns Ok only when all the objects the lister handed over are at the
\* destination or were gone from the source.
RunComplete ==
  run = "ok" => \A f \in 1..sent : f \in dest \/ task[f] = "skipped"

\* `committed_files` never overstates what landed, even when the copier fails
\* with POSTs in flight.
NeverOverstated == committedFiles <= Cardinality(dest)

\* When the driver returned Ok the two counters run() compares agree: the
\* cross-check fires only for a fault of the destination's reports, never for a
\* 404 skip or an interleaving of sessions.
CountersAgree == pc = "ok" => committedFiles = filesDone

\* Memory is bounded: the map, the commit tasks and the uploads hold at most
\* parallel + 1 + MAX_PENDING_COMMITS sessions' worth of state.
SessionsBounded ==
  /\ Cardinality(Inflight) <= parallel
  /\ Cardinality(Commits) <= MAX_PENDING_COMMITS
  /\ Cardinality(sessions) <= parallel + 1

\* The copier ends: run() returns whatever the tasks do.
RunEnds == <>(run \in {"ok", "err"})

\* The two gauges are u64 counters: a fetch_sub below zero would wrap around.
GaugesNonNegative == shardsPending >= 0 /\ filesPendingAck >= 0

\* files_pending_ack counts the "Files in sealed sessions whose /batch ack
\* hasn't landed yet" (its documentation), as long as no commit has failed.
PendingAckGauge ==
  \/ filesPendingAck = Cardinality({f \in Files : /\ owner[f] \in sealed
                                      /\ ctask[owner[f]] \notin {"done", "joined"}})
  \/ \E s \in Sessions : ctask[s] = "failed"

-----------------------------------------------------------------------------
(* The inductive invariant behind the safety properties.                   *)

\* Where the driver stands relative to the channel and to run().
ChannelInv ==
  /\ recvd <= sent /\ cur <= recvd
  /\ held # NoFile => held = recvd
  /\ pc = "open" => held # NoFile
  /\ pc \in {"select", "ok"} => held = NoFile
  /\ ~rxOpen => recvd = sent /\ run # "listing" /\ held = NoFile
  /\ run = "ok" => pc = "ok"
  /\ pc = "ok" => ~rxOpen /\ Inflight = {} /\ Commits = {} /\ sessions = {}

\* Exactly the received objects, but for the one held, have a task and a session.
TaskInv ==
  \A f \in Files :
    /\ task[f] # "none" <=> f <= recvd /\ f # held
    /\ task[f] # "none" <=> owner[f] # NoSession
    /\ f \in joined => task[f] \in {"uploaded", "skipped"}

\* The life of a session: open while current, sealed, out of the map, committed.
SessionInv ==
  /\ \A s \in sessions : s <= cur /\ ctask[s] = "none" /\ (s < cur \/ ~rxOpen => s \in sealed)
  /\ \A s \in sealed : s < cur \/ (s = cur /\ ~rxOpen)
  /\ \A s \in Sessions : ctask[s] # "none" => s \in sealed /\ Assigned(s) \subseteq joined
  /\ \A f \in Files : owner[f] # NoSession =>
                        owner[f] \in sessions \/ ctask[owner[f]] # "none"

\* The session spawn_commit works on has no upload left.
CommitInv ==
  /\ pc = "commit" => sid \in sessions \cap sealed /\ Assigned(sid) \subseteq joined
  /\ pc \in {"select", "open", "ok"} => sid = NoSession

\* Where the op of each uploaded file is.
OpInv ==
  \A f \in Files :
    /\ f \in ops => /\ task[f] = "uploaded"
                    /\ ctask[owner[f]] \in {"none", "finalizing", "failed"}
    /\ f \in batch => /\ task[f] = "uploaded"
                      /\ ctask[owner[f]] \in {"posting", "done", "failed", "joined"}
    /\ f \in dest => f \in batch
    /\ task[f] = "uploaded" => f \in ops \/ f \in batch
    /\ f \in batch /\ ctask[owner[f]] \in {"done", "joined"} => f \in dest

\* The inductive invariant of the pipeline.
IInv == /\ TypeOK /\ ChannelInv /\ TaskInv /\ SessionInv /\ CommitInv /\ OpInv
        /\ SealedHasTrigger

\* What the two file counters count: uploaded files, and files at the
\* destination whose commit task has ended.
Uploaded == {f \in Files : task[f] = "uploaded"}
Settled  == {f \in batch \cap dest : ctask[owner[f]] \in {"done", "joined", "failed"}}

CounterInv ==
  /\ filesDone = Cardinality(Uploaded)
  /\ committedFiles <= Cardinality(Settled)
  /\ (\A s \in Sessions : ctask[s] # "failed") => committedFiles = Cardinality(Settled)

-----------------------------------------------------------------------------
(* What the copier promises, whatever happens inside: see RangeCopy.       *)
Promise == INSTANCE RangeCopy WITH
  Objects <- Files,
  offered <- 1..sent,
  gone    <- {f \in Files : task[f] = "skipped"},
  landed  <- dest,
  result  <- IF run \in {"ok", "err"} THEN run ELSE "running"

\* The pipeline implements the promise: files land only after they were handed
\* over, and success is reported only when all of them landed or were gone.
CopierPromise == Promise!Spec
=============================================================================
