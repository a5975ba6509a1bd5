------------------------ MODULE UploadConsumer_proofs ------------------------
(***************************************************************************)
(* Proofs about UploadConsumer for every number of objects, parallelism,   *)
(* chunk size and channel capacity.  IInv is inductive (one lemma per      *)
(* action); the safety properties of the pipeline follow from it.          *)
(***************************************************************************)
EXTENDS UploadConsumer, FiniteSetTheorems, TLAPS

USE DEF Files, Sessions, NoFile, NoSession, listVars, driverVars, gauges

\* A set of files is finite.
LEMMA FileSets ==
  ASSUME NEW S \in SUBSET Files
  PROVE  IsFiniteSet(S) /\ Cardinality(S) \in Nat
<1>1. IsFiniteSet(Files)
  BY FS_Interval, ConstantsOK
<1>2. IsFiniteSet(S)
  BY <1>1, FS_Subset
<1>3. QED
  BY <1>2, FS_CardinalityType

\* A set of files that loses no member to an intersection lies within it.
LEMMA AllConfirmed ==
  ASSUME NEW S \in SUBSET Files, NEW D, Cardinality(S \cap D) = Cardinality(S)
  PROVE  S \subseteq D
<1>1. IsFiniteSet(S)
  BY FileSets
<1>2. S \cap D \in SUBSET S
  OBVIOUS
<1>3. S \cap D = S
  BY <1>1, <1>2, FS_Subset
<1>4. QED
  BY <1>3

\* The initial state satisfies the inductive invariant.
LEMMA InitInv == Init => IInv
  BY ConstantsOK DEF Init, IInv, TypeOK, ChannelInv, TaskInv, SessionInv, CommitInv, OpInv,
     SealedHasTrigger, Assigned, Inflight, Commits, TaskState, CommitState

\* The lister only moves sent and run.
LEMMA ListerSendInv ==
  ASSUME IInv, ListerSend
  PROVE  IInv'
  BY ConstantsOK DEF ListerSend, IInv, TypeOK, TaskState, CommitState, ChannelInv, TaskInv,
     SessionInv, CommitInv, OpInv, SealedHasTrigger, Assigned, Inflight, Commits

\* ListerDone preserves the inductive invariant.
LEMMA ListerDoneInv ==
  ASSUME IInv, ListerDone
  PROVE  IInv'
  BY ConstantsOK DEF ListerDone, IInv, TypeOK, TaskState, CommitState, ChannelInv, TaskInv,
     SessionInv, CommitInv, OpInv, SealedHasTrigger, Assigned, Inflight, Commits

\* ListerFail preserves the inductive invariant.
LEMMA ListerFailInv ==
  ASSUME IInv, ListerFail
  PROVE  IInv'
  BY ConstantsOK DEF ListerFail, IInv, TypeOK, TaskState, CommitState, ChannelInv, TaskInv,
     SessionInv, CommitInv, OpInv, SealedHasTrigger, Assigned, Inflight, Commits

\* run() reports Ok only for a driver that returned Ok.
LEMMA RunJoinInv ==
  ASSUME IInv, RunJoin
  PROVE  IInv'
  BY ConstantsOK DEF RunJoin, IInv, TypeOK, TaskState, CommitState, ChannelInv, TaskInv,
     SessionInv, CommitInv, OpInv, SealedHasTrigger, Assigned, Inflight, Commits

\* A rotation seals the current session; with no upload of it left in flight,
\* spawn_commit takes it at once, otherwise one of its files is the trigger.
LEMMA RecvInv ==
  ASSUME IInv, Recv
  PROVE  IInv'
<1> USE ConstantsOK DEF IInv, Recv, SealSession, NextObject, NextSession, ReadyAtSeal, Completed
<1>0. Cardinality(Assigned(cur)) \in Nat
  BY FileSets DEF Assigned
<1>1. TypeOK'
  <2>1. recvd' \in 0..N /\ held' \in Files /\ cur' \in Sessions
    BY DEF TypeOK, ChannelInv
  <2>2. shardsPending' \in Int /\ filesPendingAck' \in Int
    BY <1>0 DEF TypeOK, PendingFiles
  <2>3. /\ sealed' \in SUBSET Sessions /\ sid' \in Sessions \cup {NoSession}
        /\ pc' \in {"commit", "open"}
    BY DEF TypeOK
  <2>4. QED
    BY <2>1, <2>2, <2>3 DEF TypeOK
<1>2. ChannelInv'
  BY DEF TypeOK, TaskState, CommitState, ChannelInv, CommitInv, SessionInv, SealedHasTrigger,
         TaskInv, Assigned, Inflight, Commits
<1>3. TaskInv'
  BY DEF TypeOK, ChannelInv, TaskInv, Inflight
<1>4. SessionInv'
  <2>1. \A s \in Sessions : Assigned(s)' = Assigned(s)
    BY DEF Assigned
  <2>2. CASE cur' = cur /\ sealed' = sealed
    BY <2>1, <2>2 DEF TypeOK, SessionInv
  <2>3. CASE cur' = cur + 1 /\ sealed' = sealed \cup {cur}
    BY <2>1, <2>3 DEF TypeOK, SessionInv
  <2>4. QED
    BY <2>2, <2>3
<1>5. CommitInv'
  BY DEF TypeOK, ChannelInv, TaskInv, SessionInv, CommitInv, Assigned, Inflight
<1>6. OpInv'
  BY DEF TypeOK, TaskInv, SessionInv, OpInv, CommitInv, ChannelInv, Assigned
<1>7. SealedHasTrigger'
  BY DEF TypeOK, ChannelInv, TaskInv, SessionInv, CommitInv, SealedHasTrigger, Assigned,
         Inflight
<1>8. QED
  BY <1>1, <1>2, <1>3, <1>4, <1>5, <1>6, <1>7

\* Closing the channel seals the last session, so ~rxOpen implies that every
\* session of the map is sealed.
LEMMA RecvClosedInv ==
  ASSUME IInv, RecvClosed
  PROVE  IInv'
<1> USE ConstantsOK DEF IInv, RecvClosed, SealSession, ReadyAtSeal, Completed
<1>0. Cardinality(Assigned(cur)) \in Nat
  BY FileSets DEF Assigned
<1>1. TypeOK'
  <2>1. shardsPending' \in Int /\ filesPendingAck' \in Int
    BY <1>0 DEF TypeOK, PendingFiles
  <2>2. /\ sealed' \in SUBSET Sessions /\ sid' \in Sessions \cup {NoSession}
        /\ pc' \in {"commit", "select"}
    BY DEF TypeOK
  <2>3. QED
    BY <2>1, <2>2 DEF TypeOK
<1>2. ChannelInv'
  BY DEF TypeOK, TaskState, CommitState, ChannelInv, CommitInv, SessionInv, SealedHasTrigger,
         TaskInv, Assigned, Inflight, Commits
<1>3. TaskInv'
  BY DEF TypeOK, ChannelInv, TaskInv, Inflight
<1>4. SessionInv'
  <2>1. \A s \in Sessions : Assigned(s)' = Assigned(s)
    BY DEF Assigned
  <2>2. CASE cur \notin sessions /\ sealed' = sealed
    BY <2>1, <2>2 DEF TypeOK, SessionInv
  <2>3. CASE cur \in sessions /\ sealed' = sealed \cup {cur}
    BY <2>1, <2>3 DEF TypeOK, SessionInv
  <2>4. QED
    BY <2>2, <2>3
<1>5. CommitInv'
  BY DEF TypeOK, ChannelInv, TaskInv, SessionInv, CommitInv, Assigned, Inflight
<1>6. OpInv'
  BY DEF TypeOK, TaskInv, SessionInv, OpInv, CommitInv, ChannelInv, Assigned
<1>7. SealedHasTrigger'
  BY DEF TypeOK, ChannelInv, TaskInv, SessionInv, CommitInv, SealedHasTrigger, Assigned,
         Inflight
<1>8. QED
  BY <1>1, <1>2, <1>3, <1>4, <1>5, <1>6, <1>7

\* The held object gets a session that is neither sealed nor committed.
LEMMA AssignInv ==
  ASSUME IInv, Assign
  PROVE  IInv'
<1> USE ConstantsOK DEF IInv, Assign
<1>1. TypeOK'
  BY DEF TypeOK, TaskState, CommitState, ChannelInv
<1>2. ChannelInv'
  BY DEF TypeOK, TaskState, CommitState, ChannelInv, CommitInv, SessionInv, SealedHasTrigger,
         TaskInv, Assigned, Inflight, Commits
<1>3. TaskInv'
  <2>1. held \in Files /\ held = recvd /\ cur # NoSession
    BY DEF TypeOK, ChannelInv
  <2>2. SUFFICES ASSUME NEW f \in Files
                 PROVE  TaskInv!(f)'
    BY DEF TaskInv
  <2>3. CASE f = held
    <3>1. task[f] = "none" /\ f \notin joined
      BY <2>1, <2>3 DEF TaskInv
    <3>2. task'[f] = "running" /\ owner'[f] = cur
      BY <2>3 DEF TypeOK
    <3>3. QED
      BY <2>1, <2>3, <3>1, <3>2 DEF TaskInv
  <2>4. CASE f # held
    BY <2>1, <2>4 DEF TypeOK, TaskInv
  <2>5. QED
    BY <2>3, <2>4
<1>4. SessionInv'
  BY DEF TypeOK, ChannelInv, TaskInv, SessionInv, CommitInv, Assigned
<1>5. CommitInv'
  BY DEF TypeOK, ChannelInv, TaskInv, SessionInv, CommitInv, Assigned, Inflight
<1>6. OpInv'
  BY DEF TypeOK, TaskInv, SessionInv, OpInv, CommitInv, ChannelInv, Assigned
<1>7. SealedHasTrigger'
  BY DEF TypeOK, ChannelInv, TaskInv, SessionInv, CommitInv, SealedHasTrigger, Assigned,
         Inflight
<1>8. QED
  BY <1>1, <1>2, <1>3, <1>4, <1>5, <1>6, <1>7

\* OpenFail preserves the inductive invariant.
LEMMA OpenFailInv ==
  ASSUME IInv, OpenFail
  PROVE  IInv'
  BY ConstantsOK DEF OpenFail, Abort, IInv, TypeOK, TaskState, CommitState, ChannelInv, TaskInv,
     SessionInv, CommitInv, OpInv, SealedHasTrigger, Assigned, Inflight, Commits

\* The session leaves the map with all its files joined.
LEMMA SpawnCommitInv ==
  ASSUME IInv, SpawnCommit
  PROVE  IInv'
<1> USE ConstantsOK DEF IInv, SpawnCommit
<1>1. TypeOK'
  BY DEF TypeOK, TaskState, CommitState, ChannelInv
<1>2. ChannelInv'
  BY DEF TypeOK, TaskState, CommitState, ChannelInv, CommitInv, SessionInv, SealedHasTrigger,
         TaskInv, Assigned, Inflight, Commits
<1>3. TaskInv'
  BY DEF TypeOK, ChannelInv, TaskInv, Inflight
<1>4. SessionInv'
  BY DEF TypeOK, ChannelInv, TaskInv, SessionInv, CommitInv, Assigned
<1>5. CommitInv'
  BY DEF TypeOK, ChannelInv, TaskInv, SessionInv, CommitInv, Assigned, Inflight
<1>6. OpInv'
  BY DEF TypeOK, TaskInv, SessionInv, OpInv, CommitInv, ChannelInv, Assigned
<1>7. SealedHasTrigger'
  BY DEF TypeOK, ChannelInv, TaskInv, SessionInv, CommitInv, SealedHasTrigger, Assigned,
         Inflight
<1>8. QED
  BY <1>1, <1>2, <1>3, <1>4, <1>5, <1>6, <1>7

\* Nothing in flight and every session sealed: SealedHasTrigger empties the map.
LEMMA ExitInv ==
  ASSUME IInv, Exit
  PROVE  IInv'
  BY ConstantsOK DEF Exit, Drained, IInv, TypeOK, TaskState, CommitState, ChannelInv, TaskInv,
     SessionInv, CommitInv, OpInv, SealedHasTrigger, Assigned, Inflight, Commits

\* If the joined file is not the last one of its sealed session, another one is
\* still to be joined.
LEMMA JoinUploadInv ==
  ASSUME IInv, NEW f \in Files, JoinUpload(f)
  PROVE  IInv'
<1> USE ConstantsOK DEF IInv, JoinUpload, LastOfSealed, Completed, Abort
<1>1. TypeOK'
  BY DEF TypeOK, TaskState, CommitState, ChannelInv
<1>2. ChannelInv'
  BY DEF TypeOK, TaskState, CommitState, ChannelInv, CommitInv, SessionInv, SealedHasTrigger,
         TaskInv, Assigned, Inflight, Commits
<1>3. TaskInv'
  BY DEF TypeOK, ChannelInv, TaskInv, Inflight
<1>4. SessionInv'
  BY DEF TypeOK, ChannelInv, TaskInv, SessionInv, CommitInv, Assigned
<1>5. CommitInv'
  BY DEF TypeOK, ChannelInv, TaskInv, SessionInv, CommitInv, Assigned, Inflight
<1>6. OpInv'
  BY DEF TypeOK, TaskInv, SessionInv, OpInv, CommitInv, ChannelInv, Assigned
<1>7. SealedHasTrigger'
  BY DEF TypeOK, ChannelInv, TaskInv, SessionInv, CommitInv, SealedHasTrigger, Assigned,
         Inflight
<1>8. QED
  BY <1>1, <1>2, <1>3, <1>4, <1>5, <1>6, <1>7

\* JoinCommit preserves the inductive invariant.
LEMMA JoinCommitInv ==
  ASSUME IInv, NEW s \in Sessions, JoinCommit(s)
  PROVE  IInv'
<1> USE ConstantsOK DEF IInv, JoinCommit, MayJoinCommit, Abort
<1>1. TypeOK'
  BY DEF TypeOK, TaskState, CommitState, ChannelInv
<1>2. ChannelInv'
  BY DEF TypeOK, TaskState, CommitState, ChannelInv, CommitInv, SessionInv, SealedHasTrigger,
         TaskInv, Assigned, Inflight, Commits
<1>3. TaskInv'
  BY DEF TypeOK, ChannelInv, TaskInv, Inflight
<1>4. SessionInv'
  BY DEF TypeOK, ChannelInv, TaskInv, SessionInv, CommitInv, Assigned
<1>5. CommitInv'
  BY DEF TypeOK, ChannelInv, TaskInv, SessionInv, CommitInv, Assigned, Inflight
<1>6. OpInv'
  BY DEF TypeOK, TaskInv, SessionInv, OpInv, CommitInv, ChannelInv, Assigned
<1>7. SealedHasTrigger'
  BY DEF TypeOK, ChannelInv, TaskInv, SessionInv, CommitInv, SealedHasTrigger, Assigned,
         Inflight
<1>8. QED
  BY <1>1, <1>2, <1>3, <1>4, <1>5, <1>6, <1>7

\* A task that still runs belongs to a session that has no commit task.
LEMMA UploadDoneInv ==
  ASSUME IInv, NEW f \in Files, UploadDone(f)
  PROVE  IInv'
<1> USE ConstantsOK DEF IInv, UploadDone
<1>0. ctask[owner[f]] = "none"
  BY DEF TypeOK, TaskInv, SessionInv, Assigned
<1>1. TypeOK'
  BY DEF TypeOK, TaskState, CommitState, ChannelInv
<1>2. ChannelInv'
  BY DEF TypeOK, TaskState, CommitState, ChannelInv, CommitInv, SessionInv, SealedHasTrigger,
         TaskInv, Assigned, Inflight, Commits
<1>3. TaskInv'
  BY DEF TypeOK, ChannelInv, TaskInv, Inflight
<1>4. SessionInv'
  BY DEF TypeOK, ChannelInv, TaskInv, SessionInv, CommitInv, Assigned
<1>5. CommitInv'
  BY DEF TypeOK, ChannelInv, TaskInv, SessionInv, CommitInv, Assigned, Inflight
<1>6. OpInv'
  BY <1>0 DEF TypeOK, TaskInv, SessionInv, OpInv, CommitInv, ChannelInv, Assigned
<1>7. SealedHasTrigger'
  BY DEF TypeOK, ChannelInv, TaskInv, SessionInv, CommitInv, SealedHasTrigger, Assigned,
         Inflight
<1>8. QED
  BY <1>1, <1>2, <1>3, <1>4, <1>5, <1>6, <1>7

\* UploadNone preserves the inductive invariant.
LEMMA UploadNoneInv ==
  ASSUME IInv, NEW f \in Files, UploadNone(f)
  PROVE  IInv'
<1> USE ConstantsOK DEF IInv, UploadNone
<1>1. TypeOK'
  BY DEF TypeOK, TaskState, CommitState, ChannelInv
<1>2. ChannelInv'
  BY DEF TypeOK, TaskState, CommitState, ChannelInv, CommitInv, SessionInv, SealedHasTrigger,
         TaskInv, Assigned, Inflight, Commits
<1>3. TaskInv'
  BY DEF TypeOK, ChannelInv, TaskInv, Inflight
<1>4. SessionInv'
  BY DEF TypeOK, ChannelInv, TaskInv, SessionInv, CommitInv, Assigned
<1>5. CommitInv'
  BY DEF TypeOK, ChannelInv, TaskInv, SessionInv, CommitInv, Assigned, Inflight
<1>6. OpInv'
  BY DEF TypeOK, TaskInv, SessionInv, OpInv, CommitInv, ChannelInv, Assigned
<1>7. SealedHasTrigger'
  BY DEF TypeOK, ChannelInv, TaskInv, SessionInv, CommitInv, SealedHasTrigger, Assigned,
         Inflight
<1>8. QED
  BY <1>1, <1>2, <1>3, <1>4, <1>5, <1>6, <1>7

\* All the session's ops move from the collector to the batch.
LEMMA FinalizeOkInv ==
  ASSUME IInv, NEW s \in Sessions, FinalizeOk(s)
  PROVE  IInv'
<1> USE ConstantsOK DEF IInv, FinalizeOk
<1>1. TypeOK'
  <2>1. batch' \in SUBSET Files /\ ops' \in SUBSET Files
    BY DEF TypeOK
  <2>2. ctask' \in [Sessions -> CommitState] /\ shardsPending' \in Int
    BY DEF TypeOK, CommitState, ShardAcked
  <2>3. QED
    BY <2>1, <2>2 DEF TypeOK
<1>2. ChannelInv'
  BY DEF TypeOK, TaskState, CommitState, ChannelInv, CommitInv, SessionInv, SealedHasTrigger,
         TaskInv, Assigned, Inflight, Commits
<1>3. TaskInv'
  BY DEF TypeOK, ChannelInv, TaskInv, Inflight
<1>4. SessionInv'
  BY DEF TypeOK, ChannelInv, TaskInv, SessionInv, CommitInv, Assigned
<1>5. CommitInv'
  BY DEF TypeOK, ChannelInv, TaskInv, SessionInv, CommitInv, Assigned, Inflight
<1>6. OpInv'
  BY DEF TypeOK, TaskInv, SessionInv, OpInv, CommitInv, ChannelInv, Assigned
<1>7. SealedHasTrigger'
  BY DEF TypeOK, ChannelInv, TaskInv, SessionInv, CommitInv, SealedHasTrigger, Assigned,
         Inflight
<1>8. QED
  BY <1>1, <1>2, <1>3, <1>4, <1>5, <1>6, <1>7

\* FinalizeFail preserves the inductive invariant.
LEMMA FinalizeFailInv ==
  ASSUME IInv, NEW s \in Sessions, FinalizeFail(s)
  PROVE  IInv'
<1> USE ConstantsOK DEF IInv, FinalizeFail
<1>1. TypeOK'
  BY DEF TypeOK, TaskState, CommitState, ChannelInv
<1>2. ChannelInv'
  BY DEF TypeOK, TaskState, CommitState, ChannelInv, CommitInv, SessionInv, SealedHasTrigger,
         TaskInv, Assigned, Inflight, Commits
<1>3. TaskInv'
  BY DEF TypeOK, ChannelInv, TaskInv, Inflight
<1>4. SessionInv'
  BY DEF TypeOK, ChannelInv, TaskInv, SessionInv, CommitInv, Assigned
<1>5. CommitInv'
  BY DEF TypeOK, ChannelInv, TaskInv, SessionInv, CommitInv, Assigned, Inflight
<1>6. OpInv'
  BY DEF TypeOK, TaskInv, SessionInv, OpInv, CommitInv, ChannelInv, Assigned
<1>7. SealedHasTrigger'
  BY DEF TypeOK, ChannelInv, TaskInv, SessionInv, CommitInv, SealedHasTrigger, Assigned,
         Inflight
<1>8. QED
  BY <1>1, <1>2, <1>3, <1>4, <1>5, <1>6, <1>7

\* BatchLand preserves the inductive invariant.
LEMMA BatchLandInv ==
  ASSUME IInv, NEW s \in Sessions, BatchLand(s)
  PROVE  IInv'
<1> USE ConstantsOK DEF IInv, BatchLand, Batch
<1>1. TypeOK'
  BY DEF TypeOK, TaskState, CommitState, ChannelInv
<1>2. ChannelInv'
  BY DEF TypeOK, TaskState, CommitState, ChannelInv, CommitInv, SessionInv, SealedHasTrigger,
         TaskInv, Assigned, Inflight, Commits
<1>3. TaskInv'
  BY DEF TypeOK, ChannelInv, TaskInv, Inflight
<1>4. SessionInv'
  BY DEF TypeOK, ChannelInv, TaskInv, SessionInv, CommitInv, Assigned
<1>5. CommitInv'
  BY DEF TypeOK, ChannelInv, TaskInv, SessionInv, CommitInv, Assigned, Inflight
<1>6. OpInv'
  BY DEF TypeOK, TaskInv, SessionInv, OpInv, CommitInv, ChannelInv, Assigned
<1>7. SealedHasTrigger'
  BY DEF TypeOK, ChannelInv, TaskInv, SessionInv, CommitInv, SealedHasTrigger, Assigned,
         Inflight
<1>8. QED
  BY <1>1, <1>2, <1>3, <1>4, <1>5, <1>6, <1>7

\* A fully confirmed batch is at the destination.
LEMMA BatchReturnInv ==
  ASSUME IInv, NEW s \in Sessions, BatchReturn(s)
  PROVE  IInv'
<1> USE ConstantsOK DEF IInv, BatchReturn, Batch, Confirmed
<1>a. Batch(s) \in SUBSET Files /\ Batch(s) \cap dest \in SUBSET Batch(s)
  BY DEF TypeOK
<1>b. Cardinality(Batch(s)) \in Nat /\ Cardinality(Batch(s) \cap dest) \in Nat
  BY <1>a, FileSets
<1>c. Cardinality(Batch(s) \cap dest) = Cardinality(Batch(s)) => Batch(s) \subseteq dest
  BY <1>a, AllConfirmed
<1>1. TypeOK'
  <2>1. filesPendingAck' \in Int /\ committedFiles' \in Nat
    BY <1>b DEF TypeOK
  <2>2. ctask' \in [Sessions -> CommitState]
    BY DEF TypeOK, CommitState
  <2>3. QED
    BY <2>1, <2>2 DEF TypeOK
<1>2. ChannelInv'
  BY DEF TypeOK, TaskState, CommitState, ChannelInv, CommitInv, SessionInv, SealedHasTrigger,
         TaskInv, Assigned, Inflight, Commits
<1>3. TaskInv'
  BY DEF TypeOK, ChannelInv, TaskInv, Inflight
<1>4. SessionInv'
  BY DEF TypeOK, ChannelInv, TaskInv, SessionInv, CommitInv, Assigned
<1>5. CommitInv'
  BY DEF TypeOK, ChannelInv, TaskInv, SessionInv, CommitInv, Assigned, Inflight
<1>6. OpInv'
  <2> USE DEF TypeOK, OpInv, Assigned
  <2> SUFFICES ASSUME NEW f \in Files
               PROVE  /\ f \in ops => /\ task[f] = "uploaded"
                                      /\ ctask'[owner[f]] \in {"none", "finalizing", "failed"}
                      /\ f \in batch => /\ task[f] = "uploaded"
                                        /\ ctask'[owner[f]] \in
                                             {"posting", "done", "failed", "joined"}
                      /\ f \in dest => f \in batch
                      /\ task[f] = "uploaded" => f \in ops \/ f \in batch
                      /\ f \in batch /\ ctask'[owner[f]] \in {"done", "joined"} => f \in dest
    OBVIOUS
  <2>1. CASE owner[f] = s
    BY <1>c, <2>1
  <2>2. CASE owner[f] # s
    <3>1. ctask'[owner[f]] = ctask[owner[f]] \/ owner[f] = NoSession
      BY <2>2
    <3>2. owner[f] = NoSession => f \notin ops /\ f \notin batch
      BY DEF TaskInv
    <3>3. QED
      BY <3>1, <3>2
  <2>3. QED
    BY <2>1, <2>2
<1>7. SealedHasTrigger'
  BY DEF TypeOK, ChannelInv, TaskInv, SessionInv, CommitInv, SealedHasTrigger, Assigned,
         Inflight
<1>8. QED
  BY <1>1, <1>2, <1>3, <1>4, <1>5, <1>6, <1>7

\* BatchFail preserves the inductive invariant.
LEMMA BatchFailInv ==
  ASSUME IInv, NEW s \in Sessions, BatchFail(s)
  PROVE  IInv'
<1> USE ConstantsOK DEF IInv, BatchFail
<1>1. TypeOK'
  BY DEF TypeOK, TaskState, CommitState, ChannelInv
<1>2. ChannelInv'
  BY DEF TypeOK, TaskState, CommitState, ChannelInv, CommitInv, SessionInv, SealedHasTrigger,
         TaskInv, Assigned, Inflight, Commits
<1>3. TaskInv'
  BY DEF TypeOK, ChannelInv, TaskInv, Inflight
<1>4. SessionInv'
  BY DEF TypeOK, ChannelInv, TaskInv, SessionInv, CommitInv, Assigned
<1>5. CommitInv'
  BY DEF TypeOK, ChannelInv, TaskInv, SessionInv, CommitInv, Assigned, Inflight
<1>6. OpInv'
  BY DEF TypeOK, TaskInv, SessionInv, OpInv, CommitInv, ChannelInv, Assigned
<1>7. SealedHasTrigger'
  BY DEF TypeOK, ChannelInv, TaskInv, SessionInv, CommitInv, SealedHasTrigger, Assigned,
         Inflight
<1>8. QED
  BY <1>1, <1>2, <1>3, <1>4, <1>5, <1>6, <1>7

\* Every step preserves the inductive invariant.
LEMMA NextInv == IInv /\ [Next]_vars => IInv'
<1> SUFFICES ASSUME IInv, [Next]_vars
             PROVE  IInv'
  OBVIOUS
<1>1. CASE Lister \/ RunJoin
  BY <1>1, ListerSendInv, ListerDoneInv, ListerFailInv, RunJoinInv DEF Lister
<1>2. CASE Driver
  BY <1>2, RecvInv, RecvClosedInv, AssignInv, OpenFailInv, SpawnCommitInv, ExitInv,
     JoinUploadInv, JoinCommitInv DEF Driver
<1>3. CASE \E f \in Files : UploadTask(f)
  BY <1>3, UploadDoneInv, UploadNoneInv DEF UploadTask
<1>4. CASE \E s \in Sessions : CommitTask(s)
  BY <1>4, FinalizeOkInv, FinalizeFailInv, BatchLandInv, BatchReturnInv, BatchFailInv
     DEF CommitTask
<1>5. CASE Finished \/ UNCHANGED vars
  <2>1. UNCHANGED vars
    BY <1>5 DEF Finished
  <2>2. TypeOK'
    BY <2>1 DEF vars, IInv, TypeOK
  <2>3. ChannelInv' /\ TaskInv' /\ CommitInv'
    BY <2>1 DEF vars, IInv, ChannelInv, TaskInv, CommitInv, Assigned, Inflight, Commits
  <2>4. SessionInv' /\ OpInv' /\ SealedHasTrigger'
    BY <2>1 DEF vars, IInv, SessionInv, OpInv, SealedHasTrigger, Assigned, Inflight
  <2>5. QED
    BY <2>2, <2>3, <2>4 DEF IInv
<1>6. QED
  BY <1>1, <1>2, <1>3, <1>4, <1>5 DEF Next

\* IInv holds in every reachable state of the pipeline.
THEOREM Invariance == Spec => []IInv
  BY InitInv, NextInv, PTL DEF Spec

\* Type correctness of the pipeline.
THEOREM TypeCorrect == Spec => []TypeOK
<1>1. IInv => TypeOK
  BY DEF IInv
<1>2. QED
  BY <1>1, Invariance, PTL

\* No sealed session is forgotten in the driver's map: the seal and the last
\* join, in whatever order they come, leave one of them to fire the commit.
THEOREM SealedSessionsCommit == Spec => []SealedHasTrigger
<1>1. IInv => SealedHasTrigger
  BY DEF IInv
<1>2. QED
  BY <1>1, Invariance, PTL

\* No upload task pushes an op into a collector that was already drained.
THEOREM OpsNotStranded == Spec => []NoStrandedOp
<1>1. IInv => NoStrandedOp
  BY DEF IInv, TypeOK, OpInv, NoStrandedOp
<1>2. QED
  BY <1>1, Invariance, PTL

\* In a driver that returned Ok every received object landed or was skipped.
LEMMA ExitCompleteInv == IInv => ExitComplete
<1> SUFFICES ASSUME IInv, pc = "ok"
             PROVE  sessions = {} /\ \A f \in 1..recvd : f \in dest \/ task[f] = "skipped"
  BY DEF ExitComplete
<1> USE ConstantsOK DEF IInv, TypeOK
<1>1. sessions = {} /\ held = NoFile /\ Inflight = {} /\ Commits = {}
  BY DEF ChannelInv
<1>2. ASSUME NEW f \in 1..recvd
      PROVE  f \in dest \/ task[f] = "skipped"
  <2>a. f \in Files /\ f <= recvd /\ f # held
    BY <1>1
  <2>b. task[f] # "none" /\ owner[f] # NoSession
    BY <2>a DEF TaskInv
  <2>1. f \in Files /\ f \in joined /\ owner[f] \in Sessions
    BY <1>1, <2>a, <2>b DEF Inflight
  <2>2. ctask[owner[f]] = "joined"
    BY <1>1, <2>1 DEF SessionInv, Commits
  <2>3. QED
    BY <2>1, <2>2 DEF TaskInv, OpInv
<1>3. QED
  BY <1>1, <1>2

\* The driver returns Ok only with every session committed and every received
\* object at the destination or gone from the source.
THEOREM DriverExitComplete == Spec => []ExitComplete
  BY ExitCompleteInv, Invariance, PTL

\* In a run that returned Ok every object handed over landed or was skipped.
LEMMA RunCompleteInv == IInv => RunComplete
  BY ExitCompleteInv DEF IInv, ChannelInv, ExitComplete, RunComplete

\* run() returns Ok only when every object the lister handed over is at the
\* destination or gone from the source.
THEOREM RunIsComplete == Spec => []RunComplete
  BY RunCompleteInv, Invariance, PTL

-----------------------------------------------------------------------------
(* The file counters.                                                      *)

\* A step that changes neither the counters nor what they count, or only lets
\* more files count as settled after a failure, preserves CounterInv.
LEMMA CounterFrame ==
  ASSUME IInv, CounterInv,
         filesDone' = filesDone, committedFiles' = committedFiles,
         Uploaded' = Uploaded,
         \/ Settled' = Settled
            /\ \A s \in Sessions : ctask[s] = "failed" => ctask'[s] = "failed"
         \/ Settled \subseteq Settled' /\ Settled' \subseteq Files
            /\ \E s \in Sessions : ctask'[s] = "failed"
  PROVE  CounterInv'
<1>1. CASE /\ Settled' = Settled
           /\ \A s \in Sessions : ctask[s] = "failed" => ctask'[s] = "failed"
  BY <1>1 DEF CounterInv
<1>2. CASE /\ Settled \subseteq Settled' /\ Settled' \subseteq Files
           /\ \E s \in Sessions : ctask'[s] = "failed"
  <2>1. IsFiniteSet(Settled') /\ Cardinality(Settled') \in Nat
    BY <1>2, FileSets
  <2>2. Cardinality(Settled) \in Nat /\ Cardinality(Settled) <= Cardinality(Settled')
    BY <1>2, <2>1, FS_Subset, FileSets
  <2>3. QED
    BY <1>2, <2>1, <2>2 DEF CounterInv, IInv, TypeOK
<1>3. QED
  BY <1>1, <1>2

\* BatchReturn counts exactly the files it settles.
LEMMA BatchReturnCounts ==
  ASSUME IInv, CounterInv, NEW s \in Sessions, BatchReturn(s)
  PROVE  CounterInv'
<1> DEFINE New == Batch(s) \cap dest
<1> USE DEF IInv, BatchReturn
<1>1. Uploaded' = Uploaded
  BY DEF Uploaded
<1>2. Settled' = Settled \cup New
  <2>1. \A f \in batch : f \in Files /\ owner[f] \in Sessions
    BY DEF TypeOK, OpInv, TaskInv
  <2>2. \A f \in batch : IF owner[f] = s
                           THEN /\ ctask'[owner[f]] \in {"done", "failed"}
                                /\ ctask[owner[f]] = "posting"
                           ELSE ctask'[owner[f]] = ctask[owner[f]]
    BY <2>1 DEF TypeOK
  <2>3. QED
    BY <2>1, <2>2 DEF Settled, Batch, Assigned
<1>3. Settled \cap New = {}
  BY DEF TypeOK, Settled, Batch, Assigned
<1>4. Settled \in SUBSET Files /\ New \in SUBSET Files
  BY DEF TypeOK, Settled, Batch
<1>5. IsFiniteSet(Settled) /\ IsFiniteSet(New)
      /\ Cardinality(Settled) \in Nat /\ Cardinality(New) \in Nat
  BY <1>4, FileSets
<1>6. Cardinality(Settled') = Cardinality(Settled) + Cardinality(New)
  <2> HIDE DEF New
  <2>1. Cardinality(Settled \cap New) = 0
    BY <1>3, FS_EmptySet
  <2>2. Cardinality(Settled \cup New)
          = Cardinality(Settled) + Cardinality(New) - Cardinality(Settled \cap New)
    BY <1>5, FS_Union
  <2>3. QED
    BY <1>2, <1>5, <2>1, <2>2
<1>7. committedFiles' = committedFiles + Cardinality(New)
  BY DEF Confirmed
<1>8. \A x \in Sessions : ctask[x] = "failed" => ctask'[x] = "failed"
  BY DEF TypeOK
<1>9. QED
  <2> HIDE DEF New, BatchReturn
  <2>1. filesDone' = filesDone
    BY DEF BatchReturn
  <2>2. QED
    BY <1>1, <1>5, <1>6, <1>7, <1>8, <2>1 DEF CounterInv, TypeOK

\* UploadDone counts the file it finishes.
LEMMA UploadDoneCounts ==
  ASSUME IInv, CounterInv, NEW f \in Files, UploadDone(f)
  PROVE  CounterInv'
<1> USE DEF IInv, UploadDone
<1>1. Uploaded' = Uploaded \cup {f} /\ f \notin Uploaded
  BY DEF TypeOK, Uploaded
<1>2. IsFiniteSet(Uploaded) /\ Cardinality(Uploaded) \in Nat
  BY FileSets DEF Uploaded
<1>3. Cardinality(Uploaded') = Cardinality(Uploaded) + 1
  BY <1>1, <1>2, FS_AddElement
<1>4. Settled' = Settled
  BY DEF Settled
<1>5. QED
  BY <1>1, <1>2, <1>3, <1>4 DEF CounterInv

\* Every step preserves CounterInv.
LEMMA NextCounterInv == IInv /\ CounterInv /\ [Next]_vars => CounterInv'
<1> SUFFICES ASSUME IInv, CounterInv, [Next]_vars
             PROVE  CounterInv'
  OBVIOUS
<1> USE DEF IInv
<1>1. CASE Lister \/ RunJoin \/ Recv \/ RecvClosed \/ OpenFail \/ Exit \/ Finished \/ UNCHANGED vars
  <2>1. UNCHANGED <<filesDone, committedFiles, task, owner, batch, dest, ctask>>
    BY <1>1 DEF Lister, ListerSend, ListerDone, ListerFail, RunJoin, Recv, RecvClosed, OpenFail,
       Exit, Finished, vars
  <2>2. QED
    BY <2>1 DEF CounterInv, Uploaded, Settled
<1>2. CASE Assign
  <2>1. held \in Files /\ task[held] = "none" /\ held \notin batch
    BY <1>2 DEF Assign, TypeOK, ChannelInv, TaskInv, OpInv
  <2>2. Uploaded' = Uploaded
    BY <1>2, <2>1 DEF Assign, TypeOK, Uploaded
  <2>3. Settled' = Settled
    BY <1>2, <2>1 DEF Assign, TypeOK, Settled
  <2>4. QED
    BY <1>2, <2>2, <2>3, CounterFrame DEF Assign
<1>3. CASE SpawnCommit
  <2>1. ctask[sid] = "none" /\ sid \in Sessions
    BY <1>3 DEF SpawnCommit, TypeOK, CommitInv, SessionInv
  <2>2. Settled' = Settled
    BY <1>3, <2>1 DEF SpawnCommit, TypeOK, OpInv, Settled
  <2>3. QED
    BY <1>3, <2>1, <2>2, CounterFrame DEF SpawnCommit, TypeOK, Uploaded
<1>4. ASSUME NEW f \in Files, JoinUpload(f) PROVE CounterInv'
  BY <1>4 DEF JoinUpload, CounterInv, Uploaded, Settled
<1>5. ASSUME NEW s \in Sessions, JoinCommit(s) PROVE CounterInv'
  <2>1. Settled' = Settled
    <3>1. \A f \in batch : f \in Files /\ owner[f] \in Sessions
      BY DEF TypeOK, OpInv, TaskInv
    <3>2. \A f \in batch : \/ ctask'[owner[f]] = ctask[owner[f]]
                           \/ ctask[owner[f]] = "done" /\ ctask'[owner[f]] = "joined"
      BY <1>5, <3>1 DEF JoinCommit, TypeOK
    <3>3. batch' = batch /\ dest' = dest /\ owner' = owner
      BY <1>5 DEF JoinCommit
    <3>4. QED
      BY <3>2, <3>3 DEF Settled
  <2>2. QED
    BY <1>5, <2>1, CounterFrame DEF JoinCommit, TypeOK, Uploaded
<1>6. ASSUME NEW f \in Files, UploadNone(f) PROVE CounterInv'
  <2>1. Uploaded' = Uploaded
    BY <1>6 DEF UploadNone, TypeOK, Uploaded
  <2>2. QED
    BY <1>6, <2>1 DEF UploadNone, CounterInv, Settled
<1>7. ASSUME NEW s \in Sessions, FinalizeOk(s) PROVE CounterInv'
  <2>1. Settled' = Settled
    BY <1>7 DEF FinalizeOk, TypeOK, OpInv, Settled, Assigned
  <2>2. QED
    BY <1>7, <2>1, CounterFrame DEF FinalizeOk, TypeOK, Uploaded
<1>8. ASSUME NEW s \in Sessions, FinalizeFail(s) \/ BatchFail(s) PROVE CounterInv'
  <2>1. Settled \subseteq Settled' /\ Settled' \subseteq Files /\ ctask'[s] = "failed"
    <3>1. \A f \in batch : f \in Files /\ owner[f] \in Sessions
      BY DEF TypeOK, OpInv, TaskInv
    <3>2. \A f \in batch : ctask'[owner[f]] \in {ctask[owner[f]], "failed"}
      BY <1>8, <3>1 DEF FinalizeFail, BatchFail, TypeOK
    <3>3. batch' = batch /\ dest' = dest /\ owner' = owner /\ ctask'[s] = "failed"
      BY <1>8 DEF FinalizeFail, BatchFail, TypeOK
    <3>4. QED
      BY <3>1, <3>2, <3>3 DEF Settled
  <2>2. QED
    BY <1>8, <2>1, CounterFrame DEF FinalizeFail, BatchFail, Uploaded
<1>9. ASSUME NEW s \in Sessions, BatchLand(s) PROVE CounterInv'
  <2>1. Settled' = Settled
    BY <1>9 DEF BatchLand, Batch, Assigned, TypeOK, Settled
  <2>2. QED
    BY <1>9, <2>1, CounterFrame DEF BatchLand, Uploaded
<1>10. QED
  BY <1>1, <1>2, <1>3, <1>4, <1>5, <1>6, <1>7, <1>8, <1>9, UploadDoneCounts, BatchReturnCounts
     DEF Next, Driver, UploadTask, CommitTask

\* CounterInv holds in every reachable state.
THEOREM CounterInvariance == Spec => []CounterInv
<1>1. Init => CounterInv
  <2> SUFFICES ASSUME Init
               PROVE  CounterInv
    OBVIOUS
  <2>1. Uploaded = {} /\ Settled = {} /\ filesDone = 0 /\ committedFiles = 0
    BY DEF Init, Uploaded, Settled
  <2>2. Cardinality({}) = 0
    BY FS_EmptySet
  <2>3. QED
    BY <2>1, <2>2 DEF CounterInv
<1>2. QED
  BY <1>1, NextCounterInv, Invariance, PTL DEF Spec

\* committed_files never exceeds what the destination holds, also while a
\* copier is failing.
THEOREM CommittedNeverOverstated == Spec => []NeverOverstated
<1>1. IInv /\ CounterInv => NeverOverstated
  <2> SUFFICES ASSUME IInv, CounterInv
               PROVE  committedFiles <= Cardinality(dest)
    BY DEF NeverOverstated
  <2>1. Settled \subseteq dest /\ dest \in SUBSET Files
    BY DEF Settled, IInv, TypeOK
  <2>2. IsFiniteSet(dest) /\ Cardinality(dest) \in Nat
    BY <2>1, FileSets
  <2>3. Cardinality(Settled) <= Cardinality(dest) /\ Cardinality(Settled) \in Nat
    BY <2>1, <2>2, FS_Subset, FileSets
  <2>4. QED
    BY <2>2, <2>3 DEF CounterInv, IInv, TypeOK
<1>2. QED
  BY <1>1, Invariance, CounterInvariance, PTL

\* A driver that returned Ok leaves files_done and committed_files equal, so
\* run()'s cross-check never fails a copy that is complete.
THEOREM CountersAgreeAtExit == Spec => []CountersAgree
<1>1. IInv /\ CounterInv => CountersAgree
  <2> SUFFICES ASSUME IInv, CounterInv, pc = "ok"
               PROVE  committedFiles = filesDone
    BY DEF CountersAgree
  <2> USE DEF IInv, TypeOK
  <2>1. sessions = {} /\ Inflight = {} /\ Commits = {}
    BY DEF ChannelInv
  <2>2. \A s \in Sessions : ctask[s] # "failed"
    BY <2>1 DEF Commits
  <2>3. Settled \subseteq Uploaded
    BY DEF Settled, Uploaded, OpInv
  <2>4. ASSUME NEW f \in Uploaded
        PROVE  f \in Settled
    <3>1. f \in Files /\ task[f] = "uploaded" /\ owner[f] \in Sessions
      BY DEF Uploaded, TaskInv
    <3>2. ctask[owner[f]] = "joined"
      BY <2>1, <3>1 DEF SessionInv, Commits
    <3>3. QED
      BY <3>1, <3>2 DEF OpInv, Settled
  <2>5. Settled = Uploaded
    BY <2>3, <2>4
  <2>6. QED
    BY <2>2, <2>5 DEF CounterInv
<1>2. QED
  BY <1>1, Invariance, CounterInvariance, PTL

-----------------------------------------------------------------------------
(* What the copier holds in memory.                                        *)

\* The uploads in flight are within --parallel-files, one below while the driver
\* holds an object or commits; the map of sessions is bounded with them.
BoundInv ==
  /\ Cardinality(Inflight) <= parallel
  /\ pc \in {"commit", "open"} => Cardinality(Inflight) < parallel
  /\ Cardinality(Commits) <= MAX_PENDING_COMMITS
  /\ Cardinality(sessions) <= parallel + 1

\* A set of sessions is finite.
LEMMA SessionSets ==
  ASSUME NEW S \in SUBSET Sessions
  PROVE  IsFiniteSet(S) /\ Cardinality(S) \in Nat
<1>1. IsFiniteSet(Sessions)
  BY FS_Interval, ConstantsOK
<1>2. IsFiniteSet(S)
  BY <1>1, FS_Subset
<1>3. QED
  BY <1>2, FS_CardinalityType

\* Files belong to at most as many sessions as there are files.
LEMMA OwnersBounded ==
  ASSUME NEW F \in SUBSET Files, NEW o, NEW S, \A s \in S : \E f \in F : o[f] = s
  PROVE  IsFiniteSet(S) /\ Cardinality(S) \in Nat /\ Cardinality(S) <= Cardinality(F)
<1> DEFINE G == {f \in F : o[f] \in S}
           g == [f \in G |-> o[f]]
<1>1. IsFiniteSet(F) /\ Cardinality(F) \in Nat /\ IsFiniteSet(G) /\ Cardinality(G) \in Nat
  BY FileSets
<1>2. Cardinality(G) <= Cardinality(F)
  BY <1>1, FS_Subset
<1>3. g \in Surjection(G, S)
  BY DEF Surjection
<1> HIDE DEF G, g
<1>4. IsFiniteSet(S) /\ Cardinality(S) <= Cardinality(G)
  BY <1>1, <1>3, FS_Surjection
<1>5. Cardinality(S) \in Nat
  BY <1>4, FS_CardinalityType
<1>6. QED
  BY <1>1, <1>2, <1>4, <1>5

\* Adding one element adds at most one.
LEMMA OneMore ==
  ASSUME NEW S, NEW x, IsFiniteSet(S)
  PROVE  /\ IsFiniteSet(S \cup {x}) /\ Cardinality(S \cup {x}) \in Nat
         /\ Cardinality(S \cup {x}) <= Cardinality(S) + 1
<1>1. Cardinality(S) \in Nat /\ IsFiniteSet(S \cup {x})
  BY FS_CardinalityType, FS_AddElement
<1>2. Cardinality(S \cup {x}) = Cardinality(S) \/ Cardinality(S \cup {x}) = Cardinality(S) + 1
  BY FS_AddElement
<1>3. QED
  BY <1>1, <1>2

\* A map that holds, besides the current session and the one being committed,
\* only the sessions T has at most two more of them.
LEMMA MapBounded ==
  ASSUME NEW T, IsFiniteSet(T), NEW c, NEW d, NEW S, S \subseteq (T \cup {c}) \cup {d}
  PROVE  /\ Cardinality(S) \in Nat /\ Cardinality(S) <= Cardinality(T) + 2
         /\ d \notin S => Cardinality(S) <= Cardinality(T) + 1
<1>1. /\ IsFiniteSet(T \cup {c}) /\ Cardinality(T \cup {c}) \in Nat
      /\ Cardinality(T \cup {c}) <= Cardinality(T) + 1 /\ Cardinality(T) \in Nat
  BY OneMore, FS_CardinalityType
<1>2. /\ IsFiniteSet((T \cup {c}) \cup {d}) /\ Cardinality((T \cup {c}) \cup {d}) \in Nat
      /\ Cardinality((T \cup {c}) \cup {d}) <= Cardinality(T \cup {c}) + 1
  BY <1>1, OneMore
<1>3. Cardinality(S) <= Cardinality((T \cup {c}) \cup {d}) /\ Cardinality(S) \in Nat
  BY <1>2, FS_Subset, FS_CardinalityType
<1>4. ASSUME d \notin S
      PROVE  Cardinality(S) <= Cardinality(T \cup {c})
  <2>1. S \subseteq T \cup {c}
    BY <1>4
  <2>2. QED
    BY <1>1, <2>1, FS_Subset
<1>5. QED
  BY <1>1, <1>2, <1>3, <1>4

\* Every step keeps the uploads in flight within --parallel-files.
LEMMA InflightStep ==
  ASSUME IInv, BoundInv, [Next]_vars
  PROVE  /\ Cardinality(Inflight)' <= parallel
         /\ pc' \in {"commit", "open"} => Cardinality(Inflight)' < parallel
<1>0. /\ Inflight \in SUBSET Files /\ IsFiniteSet(Inflight) /\ Cardinality(Inflight) \in Nat
      /\ parallel \in Nat /\ parallel >= 1
  BY FileSets, ConstantsOK DEF Inflight, parallel, AtLeastOne
<1>1. ASSUME Inflight' = Inflight,
             pc' \in {"commit", "open"} =>
               pc \in {"commit", "open"} \/ Cardinality(Inflight) < parallel
      PROVE  /\ Cardinality(Inflight)' <= parallel
             /\ pc' \in {"commit", "open"} => Cardinality(Inflight)' < parallel
  BY <1>0, <1>1 DEF BoundInv
<1>2. CASE Assign
  <2>1. Inflight' \subseteq Inflight \cup {held}
    BY <1>2 DEF Assign, IInv, TypeOK, Inflight
  <2>2. pc = "open" /\ pc' = "select"
    BY <1>2 DEF Assign
  <2>3. /\ IsFiniteSet(Inflight \cup {held}) /\ Cardinality(Inflight \cup {held}) \in Nat
        /\ Cardinality(Inflight \cup {held}) <= Cardinality(Inflight) + 1
    BY <1>0, OneMore
  <2>4. /\ Cardinality(Inflight') <= Cardinality(Inflight \cup {held})
        /\ Cardinality(Inflight') \in Nat
    BY <2>1, <2>3, FS_Subset, FS_CardinalityType
  <2>5. Cardinality(Inflight) < parallel
    BY <2>2 DEF BoundInv
  <2>6. QED
    BY <1>0, <2>2, <2>3, <2>4, <2>5
<1>3. ASSUME NEW f \in Files, JoinUpload(f), task[f] # "failed"
      PROVE  /\ Cardinality(Inflight)' <= parallel
             /\ pc' \in {"commit", "open"} => Cardinality(Inflight)' < parallel
  <2>1. f \in Inflight /\ Inflight' = Inflight \ {f}
    BY <1>3 DEF JoinUpload, Inflight
  <2>2. Cardinality(Inflight \ {f}) = Cardinality(Inflight) - 1
    BY <1>0, <2>1, FS_RemoveElement
  <2>3. QED
    BY <1>0, <2>1, <2>2 DEF BoundInv
<1>4. ASSUME NEW f \in Files, JoinUpload(f), task[f] = "failed"
      PROVE  Inflight' = Inflight /\ pc' = "err"
  BY <1>4 DEF JoinUpload, Inflight, Abort
<1>5. CASE Recv \/ RecvClosed
  <2>1. Inflight' = Inflight /\ Cardinality(Inflight) < parallel
    BY <1>5 DEF Recv, RecvClosed, Inflight
  <2>2. QED
    BY <1>1, <2>1
<1>6. CASE Lister \/ RunJoin \/ OpenFail \/ Exit \/ Finished \/ UNCHANGED vars
  <2>1. UNCHANGED <<task, joined>> /\ (pc' = pc \/ pc' \in {"err", "ok"})
    BY <1>6 DEF Lister, ListerSend, ListerDone, ListerFail, RunJoin, OpenFail, Exit, Finished, vars,
                Abort
  <2>2. Inflight' = Inflight
    BY <2>1 DEF Inflight
  <2>3. QED
    BY <1>1, <2>1, <2>2
<1>7. CASE SpawnCommit
  <2>1. Inflight' = Inflight /\ pc = "commit"
    BY <1>7 DEF SpawnCommit, Inflight
  <2>2. QED
    BY <1>1, <2>1
<1>8. ASSUME NEW s \in Sessions, JoinCommit(s) \/ CommitTask(s)
      PROVE  Inflight' = Inflight /\ (pc' = pc \/ pc' = "err")
  BY <1>8 DEF JoinCommit, CommitTask, FinalizeOk, FinalizeFail, BatchLand, BatchReturn, BatchFail,
              Inflight, Abort
<1>9. ASSUME NEW f \in Files, UploadTask(f)
      PROVE  Inflight' = Inflight /\ pc' = pc
  <2>1. task[f] = "running" /\ task' \in {[task EXCEPT ![f] = o] : o \in TaskState \ {"none"}}
        /\ joined' = joined /\ pc' = pc
    BY <1>9 DEF UploadTask, UploadDone, UploadNone, TaskState
  <2>2. QED
    BY <2>1 DEF Inflight, IInv, TypeOK
<1>10. QED
  BY <1>1, <1>2, <1>3, <1>4, <1>5, <1>6, <1>7, <1>8, <1>9 DEF Next, Driver

\* Every step keeps the commit tasks within MAX_PENDING_COMMITS.
LEMMA CommitsStep ==
  ASSUME IInv, BoundInv, [Next]_vars
  PROVE  Cardinality(Commits)' <= MAX_PENDING_COMMITS
<1>0. /\ Commits \in SUBSET Sessions /\ IsFiniteSet(Commits) /\ Cardinality(Commits) \in Nat
      /\ MAX_PENDING_COMMITS \in Nat
  BY SessionSets DEF Commits, MAX_PENDING_COMMITS
<1>1. ASSUME Commits' \subseteq Commits
      PROVE  Cardinality(Commits)' <= MAX_PENDING_COMMITS
  <2>1. Cardinality(Commits') <= Cardinality(Commits) /\ Cardinality(Commits') \in Nat
    BY <1>0, <1>1, FS_Subset, FS_CardinalityType
  <2>2. QED
    BY <1>0, <2>1 DEF BoundInv
<1>2. CASE SpawnCommit
  <2>1. Commits' \subseteq Commits \cup {sid} /\ Cardinality(Commits) < MAX_PENDING_COMMITS
    BY <1>2 DEF SpawnCommit, CommitSlotFree, Commits, IInv, TypeOK
  <2>2. /\ IsFiniteSet(Commits \cup {sid}) /\ Cardinality(Commits \cup {sid}) \in Nat
        /\ Cardinality(Commits \cup {sid}) <= Cardinality(Commits) + 1
    BY <1>0, OneMore
  <2>3. Cardinality(Commits') <= Cardinality(Commits \cup {sid}) /\ Cardinality(Commits') \in Nat
    BY <2>1, <2>2, FS_Subset, FS_CardinalityType
  <2>4. QED
    BY <1>0, <2>1, <2>2, <2>3
<1>3. ASSUME NEW s \in Sessions, JoinCommit(s) \/ CommitTask(s)
      PROVE  Commits' \subseteq Commits
  <2>1. \/ ctask' = ctask
        \/ /\ ctask[s] \in {"finalizing", "posting", "done"}
           /\ ctask' \in {[ctask EXCEPT ![s] = o] : o \in CommitState}
    BY <1>3 DEF JoinCommit, CommitTask, FinalizeOk, FinalizeFail, BatchLand, BatchReturn, BatchFail,
                CommitState
  <2>2. QED
    BY <2>1 DEF Commits, IInv, TypeOK
<1>4. CASE \/ Lister \/ RunJoin \/ OpenFail \/ Exit \/ Finished \/ UNCHANGED vars
           \/ Recv \/ RecvClosed \/ Assign
  <2>1. ctask' = ctask
    BY <1>4 DEF Lister, ListerSend, ListerDone, ListerFail, RunJoin, OpenFail, Exit, Finished, vars,
                Recv, RecvClosed, Assign
  <2>2. QED
    BY <1>1, <2>1 DEF Commits
<1>5. ASSUME NEW f \in Files, JoinUpload(f) \/ UploadTask(f)
      PROVE  Commits' \subseteq Commits
  BY <1>5 DEF JoinUpload, UploadTask, UploadDone, UploadNone, Commits
<1>6. QED
  BY <1>1, <1>2, <1>3, <1>4, <1>5 DEF Next, Driver

\* Every step keeps the bounds.  While the driver runs, each session of the map is
\* the current one, the one being committed, or has an upload in flight.
LEMMA BoundStep ==
  ASSUME IInv, BoundInv, [Next]_vars
  PROVE  BoundInv'
<1>1. /\ Cardinality(Inflight)' <= parallel
      /\ pc' \in {"commit", "open"} => Cardinality(Inflight)' < parallel
  BY InflightStep
<1>2. Cardinality(Commits)' <= MAX_PENDING_COMMITS
  BY CommitsStep
<1>3. IInv'
  BY NextInv
<1>4. parallel \in Nat /\ parallel' = parallel
  BY ConstantsOK DEF parallel, AtLeastOne
<1>5. CASE pc' = "err"
  <2>1. sessions' = sessions
    BY <1>5 DEF Next, Lister, ListerSend, ListerDone, ListerFail, RunJoin, Driver, Recv, RecvClosed,
       SealSession, Assign, OpenFail, SpawnCommit, Exit, JoinUpload, JoinCommit, UploadTask,
       UploadDone, UploadNone, CommitTask, FinalizeOk, FinalizeFail, BatchLand, BatchReturn,
       BatchFail, Finished, vars
  <2>2. QED
    BY <1>1, <1>2, <1>4, <2>1 DEF BoundInv
<1>6. CASE pc' # "err"
  <2>1. \A s \in sessions' : s = cur' \/ s = sid' \/ \E f \in Inflight' : owner'[f] = s
    <3> TAKE s \in sessions'
    <3>1. s \in Sessions /\ s <= cur' /\ (s < cur' => s \in sealed') /\ cur' \in Sessions
      BY <1>3 DEF IInv, SessionInv, TypeOK
    <3>2. s # cur' => s \in sealed'
      BY <3>1
    <3>3. s \in sealed' => s = sid' \/ \E f \in Inflight' : owner'[f] = s
      BY <1>3, <1>6 DEF IInv, SealedHasTrigger, Assigned
    <3>4. QED
      BY <3>2, <3>3
  <2>2. sid' \in sessions' => pc' = "commit"
    BY <1>3, <1>6 DEF IInv, CommitInv, TypeOK
  <2>3. Inflight' \in SUBSET Files
    BY DEF Inflight
  <2>4. Cardinality(sessions') <= parallel + 1
    <3> DEFINE T == {s \in sessions' : \E f \in Inflight' : owner'[f] = s}
    <3>1. IsFiniteSet(T) /\ Cardinality(T) \in Nat /\ Cardinality(T) <= Cardinality(Inflight')
      BY <2>3, OwnersBounded
    <3>2. sessions' \subseteq (T \cup {cur'}) \cup {sid'}
      BY <2>1
    <3>3. Cardinality(Inflight') \in Nat
      BY <2>3, FileSets
    <3> HIDE DEF T
    <3>4. /\ Cardinality(sessions') \in Nat /\ Cardinality(sessions') <= Cardinality(T) + 2
          /\ sid' \notin sessions' => Cardinality(sessions') <= Cardinality(T) + 1
      BY <3>1, <3>2, MapBounded
    <3>5. QED
      BY <1>1, <1>4, <2>2, <3>1, <3>3, <3>4
  <2>5. QED
    BY <1>1, <1>2, <1>4, <2>4 DEF BoundInv
<1>7. QED
  BY <1>5, <1>6

\* The memory of the pipeline is bounded for any listing: uploads in flight by
\* --parallel-files, commit tasks by MAX_PENDING_COMMITS, sessions by one more than
\* the uploads.
THEOREM MemoryIsBounded == Spec => []SessionsBounded
<1>1. Init => BoundInv
  <2> SUFFICES ASSUME Init
               PROVE  BoundInv
    OBVIOUS
  <2>1. Inflight = {} /\ Commits = {} /\ sessions = {} /\ pc = "select"
    BY DEF Init, Inflight, Commits
  <2>2. parallel \in Nat
    BY ConstantsOK DEF parallel, AtLeastOne
  <2>3. QED
    BY <2>1, <2>2, FS_EmptySet DEF BoundInv, MAX_PENDING_COMMITS
<1>2. IInv /\ BoundInv /\ [Next]_vars => BoundInv'
  BY BoundStep
<1>3. BoundInv => SessionsBounded
  BY DEF BoundInv, SessionsBounded
<1>4. QED
  BY <1>1, <1>2, <1>3, Invariance, PTL DEF Spec

-----------------------------------------------------------------------------
(* The gauges.                                                             *)

\* Sealed sessions whose shard is still to be acknowledged; files of sealed
\* sessions whose POST has still to return.
Unacked  == {s \in sealed : ctask[s] \in {"none", "finalizing"}}
Awaiting == {f \in Files : owner[f] \in sealed
                           /\ ctask[owner[f]] \in {"none", "finalizing", "posting"}}

\* The gauges count at least those: a failed commit leaves its part in them.
GaugeInv ==
  /\ shardsPending >= Cardinality(Unacked)
  /\ filesPendingAck >= Cardinality(Awaiting)

\* What the gauges count are finite sets.
LEMMA GaugeSets ==
  ASSUME IInv
  PROVE  /\ IsFiniteSet(Unacked) /\ Cardinality(Unacked) \in Nat
         /\ IsFiniteSet(Awaiting) /\ Cardinality(Awaiting) \in Nat
<1>1. Unacked \in SUBSET Sessions /\ Awaiting \in SUBSET Files
  BY DEF IInv, TypeOK, Unacked, Awaiting
<1>2. QED
  BY <1>1, SessionSets, FileSets

\* The gauges and what they count are numbers.
LEMMA GaugeNumbers ==
  ASSUME IInv, GaugeInv
  PROVE  /\ shardsPending \in Int /\ shardsPending >= Cardinality(Unacked)
         /\ filesPendingAck \in Int /\ filesPendingAck >= Cardinality(Awaiting)
         /\ Cardinality(Unacked) \in Nat /\ Cardinality(Awaiting) \in Nat
BY GaugeSets DEF GaugeInv, IInv, TypeOK

\* A step that leaves the gauges alone and adds nothing to what they count.
LEMMA GaugeFrame ==
  ASSUME IInv, GaugeInv, Unacked' \subseteq Unacked, Awaiting' \subseteq Awaiting,
         shardsPending' = shardsPending, filesPendingAck' = filesPendingAck
  PROVE  GaugeInv'
<1>1. /\ Cardinality(Unacked') <= Cardinality(Unacked) /\ Cardinality(Unacked') \in Nat
      /\ Cardinality(Awaiting') <= Cardinality(Awaiting) /\ Cardinality(Awaiting') \in Nat
  BY GaugeSets, FS_Subset, FS_CardinalityType
<1>2. QED
  BY <1>1, GaugeNumbers DEF GaugeInv

\* Sealing a session adds it, and all its files, to the gauges.
LEMMA SealCounts ==
  ASSUME IInv, GaugeInv, NEW next, SealSession(cur, next), ctask' = ctask, owner' = owner
  PROVE  GaugeInv'
<1>1. /\ Unacked' \subseteq Unacked \cup {cur}
      /\ Awaiting' \subseteq Awaiting \cup Assigned(cur)
      /\ shardsPending' = shardsPending + 1
      /\ filesPendingAck' = filesPendingAck + Cardinality(Assigned(cur))
  BY DEF SealSession, Unacked, Awaiting, Assigned, PendingFiles
<1>2. /\ IsFiniteSet(Unacked) /\ Cardinality(Unacked) \in Nat
      /\ IsFiniteSet(Awaiting) /\ Cardinality(Awaiting) \in Nat
  BY GaugeSets
<1>3. /\ IsFiniteSet(Unacked \cup {cur}) /\ Cardinality(Unacked \cup {cur}) \in Nat
      /\ Cardinality(Unacked \cup {cur}) <= Cardinality(Unacked) + 1
  BY <1>2, OneMore
<1>4. Cardinality(Unacked') <= Cardinality(Unacked \cup {cur}) /\ Cardinality(Unacked') \in Nat
  BY <1>1, <1>3, FS_Subset, FS_CardinalityType
<1>5. IsFiniteSet(Assigned(cur)) /\ Cardinality(Assigned(cur)) \in Nat
  BY FileSets DEF Assigned
<1> HIDE DEF Assigned
<1>6. /\ IsFiniteSet(Awaiting \cup Assigned(cur))
      /\ Cardinality(Awaiting \cap Assigned(cur)) \in Nat
      /\ Cardinality(Awaiting \cup Assigned(cur))
           = Cardinality(Awaiting) + Cardinality(Assigned(cur))
             - Cardinality(Awaiting \cap Assigned(cur))
  BY <1>2, <1>5, FS_Union, FS_Intersection, FS_CardinalityType
<1>7. Cardinality(Awaiting') <= Cardinality(Awaiting \cup Assigned(cur))
      /\ Cardinality(Awaiting') \in Nat
  BY <1>1, <1>6, FS_Subset, FS_CardinalityType
<1>8. shardsPending' >= Cardinality(Unacked')
  BY <1>1, <1>3, <1>4, GaugeNumbers
<1>9. filesPendingAck' >= Cardinality(Awaiting')
  BY <1>1, <1>5, <1>6, <1>7, GaugeNumbers
<1>10. QED
  BY <1>8, <1>9 DEF GaugeInv

\* An acknowledged shard leaves the gauge that counted it.
LEMMA FinalizeCounts ==
  ASSUME IInv, GaugeInv, NEW s \in Sessions, FinalizeOk(s)
  PROVE  GaugeInv'
<1>1. s \in Unacked
  BY DEF FinalizeOk, IInv, SessionInv, Unacked
<1>2. Unacked' \subseteq Unacked \ {s} /\ Awaiting' \subseteq Awaiting
  BY DEF FinalizeOk, IInv, TypeOK, Unacked, Awaiting
<1>3. /\ IsFiniteSet(Unacked \ {s}) /\ Cardinality(Unacked \ {s}) = Cardinality(Unacked) - 1
  BY <1>1, GaugeSets, FS_RemoveElement
<1>4. Cardinality(Unacked') <= Cardinality(Unacked) - 1 /\ Cardinality(Unacked') \in Nat
  BY <1>2, <1>3, FS_Subset, FS_CardinalityType
<1>5. Cardinality(Awaiting') <= Cardinality(Awaiting) /\ Cardinality(Awaiting') \in Nat
  BY <1>2, GaugeSets, FS_Subset, FS_CardinalityType
<1>6. shardsPending' = shardsPending - 1 /\ filesPendingAck' = filesPendingAck
  BY DEF FinalizeOk, ShardAcked
<1>7. QED
  BY <1>4, <1>5, <1>6, GaugeNumbers DEF GaugeInv

\* A POST that returns takes its ops off the gauge, at most the files its session
\* had added.
LEMMA BatchReturnGauge ==
  ASSUME IInv, GaugeInv, NEW s \in Sessions, BatchReturn(s)
  PROVE  GaugeInv'
<1>1. s \in sealed /\ ctask[s] = "posting"
  BY DEF BatchReturn, IInv, SessionInv
<1>2. Assigned(s) \subseteq Awaiting /\ Batch(s) \subseteq Assigned(s)
  BY <1>1 DEF Awaiting, Assigned, Batch
<1>3. /\ Unacked' \subseteq Unacked
      /\ Awaiting' \cap Assigned(s) = {} /\ Awaiting' \subseteq Awaiting
      /\ shardsPending' = shardsPending
      /\ filesPendingAck' = filesPendingAck - Cardinality(Batch(s))
  BY DEF BatchReturn, IInv, TypeOK, Unacked, Awaiting, Assigned
<1>4. IsFiniteSet(Assigned(s)) /\ Cardinality(Assigned(s)) \in Nat
  BY FileSets DEF Assigned
<1>5. Cardinality(Batch(s)) <= Cardinality(Assigned(s)) /\ Cardinality(Batch(s)) \in Nat
  BY <1>2, <1>4, FS_Subset, FS_CardinalityType
<1>6. Cardinality(Awaiting') + Cardinality(Assigned(s)) <= Cardinality(Awaiting)
      /\ Cardinality(Awaiting') \in Nat
  <2>1. IsFiniteSet(Awaiting') /\ Cardinality(Awaiting') \in Nat
    BY <1>3, GaugeSets, FS_Subset, FS_CardinalityType
  <2>2. Cardinality(Awaiting' \cap Assigned(s)) = 0
    BY <1>3, FS_EmptySet
  <2>3. Cardinality(Awaiting' \cup Assigned(s))
          = Cardinality(Awaiting') + Cardinality(Assigned(s))
            - Cardinality(Awaiting' \cap Assigned(s))
    BY <1>4, <2>1, FS_Union
  <2>4. Cardinality(Awaiting' \cup Assigned(s)) <= Cardinality(Awaiting)
    BY <1>2, <1>3, GaugeSets, FS_Subset
  <2>5. QED
    BY <1>4, <2>1, <2>2, <2>3, <2>4
<1>7. Cardinality(Unacked') <= Cardinality(Unacked) /\ Cardinality(Unacked') \in Nat
  BY <1>3, GaugeSets, FS_Subset, FS_CardinalityType
<1>8. shardsPending' >= Cardinality(Unacked')
  BY <1>3, <1>7, GaugeNumbers
<1>9. filesPendingAck' >= Cardinality(Awaiting')
  BY <1>3, <1>4, <1>5, <1>6, GaugeNumbers
<1>10. QED
  BY <1>8, <1>9 DEF GaugeInv

\* Every step keeps the gauges at what they count, or above.
LEMMA GaugeStep ==
  ASSUME IInv, GaugeInv, [Next]_vars
  PROVE  GaugeInv'
<1>1. CASE Lister \/ RunJoin \/ OpenFail \/ Exit \/ Finished \/ UNCHANGED vars
  <2>1. UNCHANGED <<sealed, ctask, owner, shardsPending, filesPendingAck>>
    BY <1>1 DEF Lister, ListerSend, ListerDone, ListerFail, RunJoin, OpenFail, Exit, Finished, vars
  <2>2. QED
    BY <2>1, GaugeFrame DEF Unacked, Awaiting
<1>2. CASE Recv \/ RecvClosed
  <2>1. ctask' = ctask /\ owner' = owner
    BY <1>2 DEF Recv, RecvClosed
  <2>2. \/ \E next \in {"open", "select"} : SealSession(cur, next)
        \/ UNCHANGED <<sealed, shardsPending, filesPendingAck>>
    BY <1>2 DEF Recv, RecvClosed
  <2>3. QED
    BY <2>1, <2>2, SealCounts, GaugeFrame DEF Unacked, Awaiting
<1>3. CASE Assign
  <2>1. held \in Files /\ rxOpen /\ cur \notin sealed
    BY <1>3 DEF Assign, IInv, TypeOK, ChannelInv, SessionInv
  <2>2. Unacked' \subseteq Unacked /\ Awaiting' \subseteq Awaiting
    BY <1>3, <2>1 DEF Assign, IInv, TypeOK, Unacked, Awaiting
  <2>3. QED
    BY <1>3, <2>2, GaugeFrame DEF Assign
<1>4. CASE SpawnCommit
  <2>1. ctask[sid] = "none" /\ sid \in Sessions
    BY <1>4 DEF SpawnCommit, IInv, TypeOK, CommitInv, SessionInv
  <2>2. Unacked' \subseteq Unacked /\ Awaiting' \subseteq Awaiting
    BY <1>4, <2>1 DEF SpawnCommit, IInv, TypeOK, Unacked, Awaiting
  <2>3. QED
    BY <1>4, <2>2, GaugeFrame DEF SpawnCommit
<1>5. ASSUME NEW f \in Files, JoinUpload(f) \/ UploadTask(f)
      PROVE  GaugeInv'
  <2>1. UNCHANGED <<sealed, ctask, owner, shardsPending, filesPendingAck>>
    BY <1>5 DEF JoinUpload, UploadTask, UploadDone, UploadNone
  <2>2. QED
    BY <2>1, GaugeFrame DEF Unacked, Awaiting
<1>6. ASSUME NEW s \in Sessions,
             JoinCommit(s) \/ FinalizeFail(s) \/ BatchFail(s) \/ BatchLand(s)
      PROVE  GaugeInv'
  <2>1. UNCHANGED <<sealed, owner, shardsPending, filesPendingAck>>
    BY <1>6 DEF JoinCommit, FinalizeFail, BatchFail, BatchLand
  <2>2. ctask' = ctask \/ ctask' \in {[ctask EXCEPT ![s] = o] : o \in {"joined", "failed"}}
    BY <1>6 DEF JoinCommit, FinalizeFail, BatchFail, BatchLand
  <2>3. Unacked' \subseteq Unacked /\ Awaiting' \subseteq Awaiting
    BY <2>1, <2>2 DEF IInv, TypeOK, Unacked, Awaiting
  <2>4. QED
    BY <2>1, <2>3, GaugeFrame
<1>7. QED
  BY <1>1, <1>2, <1>3, <1>4, <1>5, <1>6, FinalizeCounts, BatchReturnGauge
     DEF Next, Driver, CommitTask

\* The u64 gauges never wrap: what a commit task subtracts was added when its
\* session was sealed, in any order of seals, commits and failures.
THEOREM GaugesNeverWrap == Spec => []GaugesNonNegative
<1>1. Init => GaugeInv
  <2> SUFFICES ASSUME Init
               PROVE  GaugeInv
    OBVIOUS
  <2>1. Unacked = {} /\ Awaiting = {} /\ shardsPending = 0 /\ filesPendingAck = 0
    BY DEF Init, Unacked, Awaiting
  <2>2. QED
    BY <2>1, FS_EmptySet DEF GaugeInv
<1>2. IInv /\ GaugeInv /\ [Next]_vars => GaugeInv'
  BY GaugeStep
<1>3. IInv /\ GaugeInv => GaugesNonNegative
  BY GaugeSets DEF GaugeInv, GaugesNonNegative, IInv, TypeOK
<1>4. QED
  BY <1>1, <1>2, <1>3, Invariance, PTL DEF Spec

-----------------------------------------------------------------------------
(* The pipeline implements RangeCopy.                                      *)

\* A step that leaves what RangeCopy sees alone is a stuttering step of it.
LEMMA Stutter ==
  ASSUME sent' = sent, dest' = dest, run' = run \/ {run, run'} \subseteq {"listing", "awaiting"},
         \A f \in Files : task'[f] = "skipped" <=> task[f] = "skipped"
  PROVE  UNCHANGED Promise!vars
  BY DEF Promise!vars

\* Every step of the pipeline is a step of RangeCopy, or one it does not see.
LEMMA StepRefines == IInv /\ [Next]_vars => [Promise!Next]_(Promise!vars)
<1> SUFFICES ASSUME IInv, [Next]_vars
             PROVE  [Promise!Next]_(Promise!vars)
  OBVIOUS
<1> USE DEF IInv, TypeOK
<1>1. CASE ListerSend
  <2>1. CASE sent' = sent
    BY <1>1, <2>1, Stutter DEF ListerSend
  <2>2. CASE sent' = sent + 1
    <3>1. sent + 1 \in Files \ (1..sent) /\ 1..(sent + 1) = (1..sent) \cup {sent + 1}
      BY <1>1, ConstantsOK DEF ListerSend
    <3>2. Promise!Offer
      BY <1>1, <2>2, <3>1 DEF ListerSend, Promise!Offer
    <3>3. QED
      BY <3>2 DEF Promise!Next
  <2>3. QED
    BY <1>1, <2>1, <2>2 DEF ListerSend
<1>2. CASE ListerDone
  BY <1>2, Stutter DEF ListerDone
<1>3. CASE ListerFail
  <2>1. Promise!Fail
    BY <1>3 DEF ListerFail, Promise!Fail
  <2>2. QED
    BY <2>1 DEF Promise!Next
<1>4. CASE RunJoin
  <2>1. CASE run' = "ok"
    <3>1. \A f \in 1..sent : f \in dest \/ task[f] = "skipped"
      BY <1>4, <2>1, ExitCompleteInv DEF RunJoin, ChannelInv, ExitComplete
    <3>2. 1..sent \subseteq dest \cup {f \in Files : task[f] = "skipped"}
      BY <3>1, ConstantsOK
    <3>3. Promise!Succeed
      BY <1>4, <2>1, <3>2 DEF RunJoin, Promise!Succeed
    <3>4. QED
      BY <3>3 DEF Promise!Next
  <2>2. CASE run' = "err"
    <3>1. Promise!Fail
      BY <1>4, <2>2 DEF RunJoin, Promise!Fail
    <3>2. QED
      BY <3>1 DEF Promise!Next
  <2>3. QED
    BY <1>4, <2>1, <2>2 DEF RunJoin
<1>5. CASE Assign
  <2>1. held \in Files /\ task[held] = "none"
    BY <1>5 DEF Assign, ChannelInv, TaskInv
  <2>2. QED
    BY <1>5, <2>1, Stutter DEF Assign
<1>6. CASE \/ Recv \/ RecvClosed \/ OpenFail \/ SpawnCommit \/ Exit \/ Finished \/ UNCHANGED vars
           \/ \E f \in Files : JoinUpload(f)
           \/ \E s \in Sessions : JoinCommit(s)
  <2>1. UNCHANGED <<sent, dest, run, task>>
    BY <1>6 DEF Recv, RecvClosed, OpenFail, SpawnCommit, Exit, Finished, vars, JoinUpload,
       JoinCommit
  <2>2. QED
    BY <2>1, Stutter
<1>7. ASSUME NEW f \in Files, UploadDone(f)
      PROVE  [Promise!Next]_(Promise!vars)
  BY <1>7, Stutter DEF UploadDone
<1>8. ASSUME NEW f \in Files, UploadNone(f)
      PROVE  [Promise!Next]_(Promise!vars)
  <2>1. CASE task' = [task EXCEPT ![f] = "failed"]
    BY <1>8, <2>1, Stutter DEF UploadNone
  <2>2. CASE task' = [task EXCEPT ![f] = "skipped"]
    <3>1. f \in 1..sent /\ f \notin dest
      BY <1>8, <2>2 DEF UploadNone, ChannelInv, TaskInv, OpInv
    <3>2. run # "ok"
      BY <1>8 DEF UploadNone, ChannelInv, TaskInv, Inflight
    <3>3. {g \in Files : task'[g] = "skipped"} = {g \in Files : task[g] = "skipped"} \cup {f}
      BY <2>2
    <3>4. Promise!Vanish
      BY <1>8, <3>1, <3>2, <3>3 DEF UploadNone, Promise!Vanish
    <3>5. QED
      BY <3>4 DEF Promise!Next
  <2>3. QED
    BY <1>8, <2>1, <2>2 DEF UploadNone
<1>9. ASSUME NEW s \in Sessions, BatchLand(s)
      PROVE  [Promise!Next]_(Promise!vars)
  <2>1. PICK C \in SUBSET (Batch(s) \ dest) : dest' = dest \cup C
    BY <1>9 DEF BatchLand
  <2>2. C \in SUBSET (1..sent \ {f \in Files : task[f] = "skipped"})
    BY <2>1 DEF Batch, ChannelInv, TaskInv, OpInv
  <2>3. run # "ok"
    BY <1>9 DEF BatchLand, ChannelInv, Commits
  <2>4. Promise!Land
    BY <1>9, <2>1, <2>2, <2>3 DEF BatchLand, Promise!Land
  <2>5. QED
    BY <2>4 DEF Promise!Next
<1>10. ASSUME NEW s \in Sessions, FinalizeOk(s) \/ FinalizeFail(s) \/ BatchReturn(s) \/ BatchFail(s)
       PROVE  [Promise!Next]_(Promise!vars)
  BY <1>10, Stutter DEF FinalizeOk, FinalizeFail, BatchReturn, BatchFail
<1>11. QED
  BY <1>1, <1>2, <1>3, <1>4, <1>5, <1>6, <1>7, <1>8, <1>9, <1>10
     DEF Next, Lister, Driver, UploadTask, CommitTask

\* The copier keeps its promise: whatever the interleaving, objects land only
\* after they were handed over, and Ok is reported only when all of them landed
\* or were gone from the source.
THEOREM Refinement == Spec => CopierPromise
<1>1. Init => Promise!Init
  BY DEF Init, Promise!Init
<1>2. QED
  BY <1>1, StepRefines, Invariance, PTL DEF Spec, CopierPromise, Promise!Spec

=============================================================================
