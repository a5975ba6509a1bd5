---------------------------- MODULE FileTransfer ----------------------------
(***************************************************************************)
(* The transfer of one file (`upload_one`): attempts that read the object  *)
(* from S3, with one GET or in parts, and feed it to the CAS cleaner, each *)
(* raced against a poll every 15 s that drops an attempt which moved no    *)
(* byte for STALL_ABORT_SECS.                                              *)
(*                                                                         *)
(* Time is counted in polls.  A part is two units of data, so that an      *)
(* object may end within one.  The source may change under the transfer:   *)
(* `source` is the history of its length.  Slots of the part pool and the  *)
(* channel of the reader task are the subject of PartPool; here a part     *)
(* GET may start late.  The counters that only feed the PROGRESS lines are *)
(* left out.                                                               *)
(***************************************************************************)
EXTENDS Integers, Sequences

CONSTANTS
  Parts,              \* parts (or chunks of a single GET) of the listed size
  Concurrency,        \* ranged GETs in flight
  MAX_FILE_ATTEMPTS,  \* 4 in the code
  MAX_PART_ATTEMPTS,  \* 3 in the code
  STALL_POLLS,        \* STALL_ABORT_SECS in polls: 8 (120 s)
  REQUEST_POLLS,      \* timeout of one S3 request in polls: 12 (180 s)
  MaxChanges          \* bound: changes of the source object

ASSUME TransferConstants ==
  /\ Parts \in Nat \ {0} /\ Concurrency \in Nat \ {0}
  /\ MAX_FILE_ATTEMPTS \in Nat \ {0} /\ MAX_PART_ATTEMPTS \in Nat \ {0}
  /\ STALL_POLLS \in Nat \ {0} /\ REQUEST_POLLS \in Nat \ {0} /\ MaxChanges \in Nat

VARIABLES
  multi,       \* the object is read in parts
  pc,          \* "new", "response" (single GET sent), "stream", "finish", "push",
               \* "backoff", and how it ended: "uploaded", "skipped", "failed", "dropped"
  attempt,     \* attempts started
  quiet,       \* polls since a byte moved for this attempt (its InflightFile)
  age,         \* polls of this attempt
  get,         \* the GET of each part; for a single GET, entry 1
  opened,      \* version of the object a single GET returns
  read,        \* parts credited by on_s3_chunk
  fed,         \* parts accepted by add_data, credited by on_ingest
  total,       \* units accepted by add_data
  content,     \* versions of the object the accepted parts came from
  dead,        \* the reader task died
  ops,         \* ops pushed to the session's collector
  files_done,
  source,      \* lengths the object has had; the last one is its present length
  since        \* version of the object when the attempt started

vars == <<multi, pc, attempt, quiet, age, get, opened, read, fed, total, content, dead, ops,
          files_done, source, since>>
data == <<get, opened, read, fed, total, content, dead>>
fixed == <<multi, source>>

NoObject == -1
Expected == 2 * Parts                 \* obj.size, from the listing
Lengths  == {NoObject, Expected - 1, Expected, Expected + 1}

Final   == {"uploaded", "skipped", "failed", "dropped"}
Running == {"response", "stream", "finish", "push"}

version == Len(source)
len(v)  == source[v]

Idle   == [st |-> "idle", tries |-> 0, age |-> 0, ver |-> 0]
Flying == [Idle EXCEPT !.st = "flying"]
NoGets == [p \in 1..Parts |-> Idle]

-----------------------------------------------------------------------------
(* Operators named Bad... are faulty variants of the definition after them, *)
(* used only to see that a property notices the fault.                     *)

\* split_ranges: units of range p that an object of length l has.
Units(p, l) == (IF 2 * p <= l THEN 2 * p ELSE l) - (2 * p - 2)

\* Parts a single GET streams of an object of length l.
Chunks(l) == (l + 1) \div 2

Init ==
  /\ multi \in BOOLEAN
  /\ pc = "new" /\ attempt = 0 /\ quiet = 0 /\ age = 0
  /\ get = NoGets /\ opened = 0 /\ read = 0 /\ fed = 0 /\ total = 0 /\ content = <<>>
  /\ dead = FALSE /\ ops = <<>> /\ files_done = 0
  /\ source \in {<<Expected>>, <<NoObject>>}   \* listed, or a phantom entry
  /\ since = 1

-----------------------------------------------------------------------------
(* The end of an attempt: its future, streams and cleaner are dropped.     *)

DropAttempt ==
  /\ get' = NoGets /\ opened' = 0 /\ read' = 0 /\ fed' = 0 /\ total' = 0
  /\ content' = <<>> /\ dead' = FALSE

Ends(how) ==
  /\ pc' = how /\ DropAttempt
  /\ UNCHANGED <<fixed, attempt, quiet, age, ops, files_done, since>>

\* Any error but a missing source: try again after a pause, or give up.
AttemptFails == Ends(IF attempt < MAX_FILE_ATTEMPTS THEN "backoff" ELSE "failed")

\* metrics.track(): a fresh registration for each attempt.
BadFreshClock == quiet                     \* the last attempt's is kept
FreshClock    == 0

StartAttempt ==
  /\ pc \in {"new", "backoff"}
  /\ attempt' = attempt + 1
  /\ quiet' = FreshClock /\ age' = 0 /\ since' = version
  /\ IF multi THEN pc' = "stream" /\ UNCHANGED get
     ELSE pc' = "response" /\ get' = [get EXCEPT ![1] = Flying]
  /\ UNCHANGED <<fixed, opened, read, fed, total, content, dead, ops, files_done>>

-----------------------------------------------------------------------------
(* The single GET.                                                         *)

Response ==
  /\ pc = "response" /\ len(version) # NoObject
  /\ pc' = "stream" /\ opened' = version
  /\ UNCHANGED <<fixed, attempt, quiet, age, get, read, fed, total, content, dead, ops,
                 files_done, since>>

\* 404: skip the file.
ResponseGone == pc = "response" /\ len(version) = NoObject /\ Ends("skipped")

\* An error status, a broken connection or the request timeout, before or in the
\* middle of the body.
SingleFails ==
  /\ ~multi /\ \/ pc = "response"
               \/ pc = "stream" /\ fed = read /\ read < Chunks(len(opened))
  /\ AttemptFails

\* The next chunk of the body: the stream is only polled between two add_data.
Chunk ==
  /\ ~multi /\ pc = "stream" /\ read = fed /\ read < Chunks(len(opened))
  /\ read' = read + 1 /\ quiet' = 0
  /\ UNCHANGED <<fixed, pc, attempt, age, get, opened, fed, total, content, dead, ops,
                 files_done, since>>

-----------------------------------------------------------------------------
(* Ranged GETs, and the reader task that passes the parts on in order.     *)

SetGet(p, g) ==
  /\ get' = [get EXCEPT ![p] = g]
  /\ UNCHANGED <<fixed, pc, attempt, quiet, age, opened, read, fed, total, content, dead, ops,
                 files_done, since>>

Reads == multi /\ pc = "stream" /\ ~dead

Launch(p) ==
  /\ Reads /\ get[p].st = "idle" /\ p <= read + Concurrency
  /\ \A q \in 1..p - 1 : get[q].st # "idle"
  /\ SetGet(p, Flying)

InRange(p) == len(version) > 2 * p - 2

Arrive(p) ==
  /\ Reads /\ get[p].st = "flying" /\ InRange(p)
  /\ SetGet(p, [Idle EXCEPT !.st = "ok", !.ver = version])

\* NotFound is never retried.
PartGone(p) ==
  /\ Reads /\ get[p].st = "flying" /\ len(version) = NoObject
  /\ SetGet(p, [Idle EXCEPT !.st = "gone"])

\* Any other error, also a range past the end and the request timeout: sent again
\* on another connection while tries are left.
PartFails(p) ==
  /\ Reads /\ get[p].st = "flying"
  /\ SetGet(p, IF get[p].tries + 1 < MAX_PART_ATTEMPTS
               THEN [Flying EXCEPT !.tries = get[p].tries + 1]
               ELSE [Idle EXCEPT !.st = "err"])

\* on_part: the part is credited when it leaves the GETs, in order.
Yield ==
  /\ Reads /\ read < Parts /\ get[read + 1].st = "ok"
  /\ read' = read + 1 /\ quiet' = 0
  /\ UNCHANGED <<fixed, pc, attempt, age, get, opened, fed, total, content, dead, ops,
                 files_done, since>>

\* An error comes to the cleaner after the parts before it.
NextFailed(st) == Reads /\ read < Parts /\ get[read + 1].st = st /\ fed = read
BadNotFound == {"gone", "err"}             \* any part error skips the file
NotFound    == {"gone"}
PartError   == (\E st \in {"gone", "err"} \ NotFound : NextFailed(st)) /\ AttemptFails
SourceGone  == (\E st \in NotFound : NextFailed(st)) /\ Ends("skipped")

\* The task panics: its channel closes behind the parts already sent.
ReaderDies ==
  /\ Reads /\ dead' = TRUE
  /\ UNCHANGED <<fixed, pc, attempt, quiet, age, get, opened, read, fed, total, content, ops,
                 files_done, since>>

-----------------------------------------------------------------------------
(* The cleaner: upload_stream, then the op.                                *)

Ver(p) == IF multi THEN get[p].ver ELSE opened

Ingest ==
  /\ pc = "stream" /\ fed < read
  /\ fed' = fed + 1 /\ quiet' = 0
  /\ total' = total + Units(fed + 1, len(Ver(fed + 1)))
  /\ content' = Append(content, Ver(fed + 1))
  /\ UNCHANGED <<fixed, pc, attempt, age, get, opened, read, dead, ops, files_done, since>>

\* start_clean or add_data fails.
IngestFails == pc = "stream" /\ (fed = 0 \/ fed < read) /\ AttemptFails

StreamEnd ==
  /\ pc = "stream" /\ fed = read
  /\ \/ multi /\ (read = Parts \/ dead)
     \/ ~multi /\ read = Chunks(len(opened))

\* The integrity guard.
BadWhole == total > 0                      \* a short read is finalized
Whole    == total = Expected

EndOfStream ==
  /\ StreamEnd /\ Whole
  /\ pc' = "finish"
  /\ UNCHANGED <<fixed, attempt, quiet, age, data, ops, files_done, since>>

Truncated == StreamEnd /\ ~Whole /\ AttemptFails

\* cleaner.finish(): the remaining xorbs are uploaded.
Finish ==
  /\ pc = "finish" /\ pc' = "push"
  /\ UNCHANGED <<fixed, attempt, quiet, age, data, ops, files_done, since>>

FinishFails == pc = "finish" /\ AttemptFails

\* Once the collector's lock is taken, the push, the count and the return happen
\* without another await.
BadPush ==                                 \* an await between the push and the return
  /\ pc = "push"
  /\ ops' = Append(ops, [content |-> content, total |-> total, since |-> since,
                         until |-> version])
  /\ IF ops = <<>> THEN pc' = pc /\ UNCHANGED files_done
     ELSE pc' = "uploaded" /\ files_done' = files_done + 1
  /\ UNCHANGED <<fixed, attempt, quiet, age, data, since>>
Push ==
  /\ pc = "push"
  /\ pc' = "uploaded"
  /\ ops' = Append(ops, [content |-> content, total |-> total, since |-> since,
                         until |-> version])
  /\ files_done' = files_done + 1
  /\ DropAttempt
  /\ UNCHANGED <<fixed, attempt, quiet, age, since>>

-----------------------------------------------------------------------------
(* The poll, the copier and the source.                                    *)

\* The requests somebody waits for: a single GET only while the next chunk is asked
\* of it, ranged GETs surely while the reader task is not held up by the cleaner.
Awaited(p) ==
  /\ get[p].st = "flying"
  /\ IF multi THEN Reads /\ fed = read
     ELSE pc = "response" \/ (pc = "stream" /\ fed = read /\ read < Chunks(len(opened)))

\* A request that is waited for and has reached its timeout ends before the next poll.
TimedOut == \E p \in 1..Parts : Awaited(p) /\ get[p].age >= REQUEST_POLLS

Older(p) == IF get[p].st = "flying" /\ get[p].age < REQUEST_POLLS
            THEN [get[p] EXCEPT !.age = @ + 1] ELSE get[p]

BadWatched == pc \in {"response", "stream"}   \* only while bytes are read
Watched    == pc \in Running

\* The idle time is not a multiple of the poll: at STALL_POLLS it may be short of
\* the limit, one poll later it is not.
PollMayAbort  == Watched /\ ~TimedOut /\ quiet + 1 >= STALL_POLLS
PollMustAbort == Watched /\ ~TimedOut /\ quiet + 1 > STALL_POLLS

StallAbort == PollMayAbort /\ AttemptFails

Poll ==
  /\ pc \in Running /\ ~TimedOut /\ ~PollMustAbort
  /\ quiet' = (IF quiet > STALL_POLLS THEN quiet ELSE quiet + 1)
  /\ age' = (IF age < STALL_POLLS THEN age + 1 ELSE age)
  /\ get' = [p \in 1..Parts |-> Older(p)]
  /\ UNCHANGED <<fixed, pc, attempt, opened, read, fed, total, content, dead, ops, files_done,
                 since>>

\* The copier fails elsewhere: its upload tasks are dropped.
Drop == pc \notin Final /\ Ends("dropped")

SourceChanges ==
  /\ pc \notin Final /\ version <= MaxChanges
  /\ \E l \in Lengths : source' = Append(source, l)
  /\ UNCHANGED <<multi, pc, attempt, quiet, age, data, ops, files_done, since>>

Over == pc \in Final /\ UNCHANGED vars

-----------------------------------------------------------------------------
PartStep == \E p \in 1..Parts : Launch(p) \/ Arrive(p) \/ PartGone(p) \/ PartFails(p)

Timers == StartAttempt \/ Poll \/ StallAbort

Next == \/ Timers
        \/ Response \/ ResponseGone \/ SingleFails \/ Chunk
        \/ PartStep \/ Yield \/ PartError \/ SourceGone \/ ReaderDies
        \/ Ingest \/ IngestFails \/ EndOfStream \/ Truncated \/ Finish \/ FinishFails \/ Push
        \/ Drop \/ SourceChanges \/ Over

Spec == Init /\ [][Next]_vars

\* Only timers are fair: backoffs end, polls come, a request that timed out fails.
\* S3, the CAS server and the lock may never answer.
FairSpec ==
  /\ Spec
  /\ WF_vars(Timers)
  /\ WF_vars(TimedOut /\ (SingleFails \/ \E p \in 1..Parts : PartFails(p)))

-----------------------------------------------------------------------------
(* Properties.                                                             *)

GetRecord == [st : {"idle", "flying", "ok", "gone", "err"},
              tries : 0..MAX_PART_ATTEMPTS - 1, age : 0..REQUEST_POLLS,
              ver : 0..MaxChanges + 1]

\* Every variable keeps its type; a file is never attempted more than
\* MAX_FILE_ATTEMPTS times, a part no more than MAX_PART_ATTEMPTS times.
TypeOK ==
  /\ multi \in BOOLEAN /\ pc \in Running \cup Final \cup {"new", "backoff"}
  /\ attempt \in 0..MAX_FILE_ATTEMPTS
  /\ quiet \in 0..STALL_POLLS + 1 /\ age \in 0..STALL_POLLS
  /\ get \in [1..Parts -> GetRecord]
  /\ opened \in 0..version /\ read \in 0..Parts + 1 /\ fed \in 0..read
  /\ total \in 0..Expected + 1 /\ Len(content) = fed /\ dead \in BOOLEAN
  /\ files_done \in 0..1 /\ since \in 1..version
  /\ Len(source) \in 1..MaxChanges + 1 /\ \A v \in DOMAIN source : source[v] \in Lengths

\* A queued op stands for a whole file: as many bytes as were listed, each part
\* read during the attempt that queued it, and all from one version of the object
\* if it was read with one GET or did not change during that attempt.  Nothing of
\* an attempt that was dropped, cut short or lost its reader gets in.
OpIsWhole ==
  \A i \in DOMAIN ops :
    LET op == ops[i]
    IN  /\ op.total = Expected /\ Len(op.content) = Parts
        /\ \A p \in DOMAIN op.content : op.content[p] \in op.since..op.until
        /\ ~multi => \A p \in DOMAIN op.content : op.content[p] = op.content[1]

\* A file is skipped, which the copier counts as success, only when its object was
\* really absent during the attempt that says so: no error is taken for a 404.
SkippedMeansGone == pc = "skipped" => \E v \in since..version : len(v) = NoObject

\* The stall-abort measures the attempt it drops, from its own start: no attempt
\* is dropped before it ran for the whole stall time.
NoEarlyAbort == [][StallAbort => age + 1 >= STALL_POLLS]_vars

\* The transfer implements FileOutcome: whatever is dropped, retried or aborted and
\* when, the op is queued once, with the count, exactly when the file ends Uploaded.
Outcome == INSTANCE FileOutcome WITH
             outcome <- IF pc \in Final THEN pc ELSE "running", queued <- Len(ops)
KeepsPromise == Outcome!Spec

\* The transfer ends although no connection, upload or lock ever has to answer.
TransferEnds == <>(pc \in Final)

\* "A part killed by the request timeout (stalled connection) is re-fetched on a
\* fresh connection instead of failing -- and re-reading -- the whole file"
\* (upload_one_attempt): an attempt whose cleaner waits for the next part is not
\* dropped while the GET of that part, sent before the idle time began, has tries
\* left.
PartRetriedFirst ==
  [][StallAbort /\ multi /\ fed = read /\ read < Parts =>
       LET g == get[read + 1]
       IN  ~(g.st = "flying" /\ g.age >= quiet /\ g.tries + 1 < MAX_PART_ATTEMPTS)]_vars
=============================================================================
