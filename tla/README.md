# A TLA+ development of hf-s3ream

hf-s3ream copies objects from an S3 bucket into a Hugging Face bucket. A *planner*
lists the source once, cuts it into contiguous key ranges, and starts one *copier*
Job per range on HF Jobs. A copier lists its range, streams every object through a
CAS upload session, and commits finished sessions to the destination with
`POST /batch`. This directory holds the TLA+ modules that model the program, the TLC
configurations that check them on small instances, and TLAPS proofs for every value
of the constants. Source paths below are relative to `src/src/`.

## 1. Inventory

| Component | State it keeps | Operations | Interacts with |
|---|---|---|---|
| Copier pipeline: `run`, `upload_consumer`, `seal_session`, `spawn_commit` (sync.rs) | listing channel, map of open and sealed sessions, two JoinSets, `Metrics` counters | list, receive, rotate, assign, join, seal, commit, exit | S3 (list, GET), CAS, `/batch` |
| Part pool: `PartPool`, `PoolReader`, `PartSlot` (memory.rs), `read_parts` (sync.rs) | semaphore, number of readers, slots held per file, two `Notify` | register, acquire, release, drop | the multipart reads of all files of a copier |
| Batch settlement: `batch`, `Settlement`, `send_retry` (bucket_client.rs) | pending ops, attempts | post, judge a response, re-send | the destination, the commit tasks |
| Planner and fleet: `Planner` (sync.rs), `JobsClient` (jobs_client.rs) | current range, list of copiers with their believed stage | list, cut, wait for a slot, post a Job, poll, respawn, verdict | HF Jobs, the copiers, the destination check |
| Stopping: `stop.rs`, `Planner::stop`, `cancel_active` | planner link of each copier | signal, cancel the fleet, watch the planner, cancel oneself | HF Jobs |
| File transfer: `upload_one`, `upload_one_attempt`, ranged GETs (sync.rs), `upload_stream` (cas_uploader.rs) | attempt, parts read and fed, idle clock | attempt, part retry, ingest, stall abort, push | S3, part pool, CAS, the session's collector |
| Listing, filters, key paths (sync.rs) | continuation token, window, limit | page, filter, skip existing, map a key to a path | S3, paths-info |
| Memory sizing (memory.rs) | none (one computation) | `lowest_cgroup_limit`, `fit` | the part pool, the number of uploads |
| Destination check (verify.rs) | planned and found keys | settle, compare, judge | destination tree, S3 |
| Metrics and watchdog (progress.rs) | counters | print, warn | none (observer) |
| Web Space (space/) | page state | launch, observe, stop copy | HF Jobs |
| CLI, credentials, CAS wrapper | none | parse, one-shot I/O | the libraries |

What is hard in this code:

* **Two triggers, one commit.** A session is committed by whichever comes last, its
  seal or the join of its last upload. The driver awaits in the middle of both.
* **Counters kept by different tasks** that must agree at the end, for every mix of
  uploaded files, files gone from the source, and failures.
* **A fair share checked before a wait** and used after it; wake-ups that must not
  fall between a check and a wait; a task that holds a granted permit and is not polled.
* **Answers that are lost, partial or contradictory** from `/batch`.
* **Stale beliefs**: the planner counts slots with stages from an earlier poll, and a
  Job may exist that it never heard of.
* **Stopping a fleet** when the planner may die at any await.
* **An attempt raced against a poll**: two timeouts of different length, retries inside
  retries, and a source that changes while it is read.
* **Arithmetic that decides whether the copier lives**: a pool sized a little too large
  is killed by the kernel hours later, a pool of zero slots never moves.
* **A listing that is long-lived**: keys come and go between its pages while the copy
  commits to the bucket that `--skip-existing` looks at.

`PROJECT.json` lists each hazard at its line with the properties that watch it.

## 2. Modules and what they model

### UploadConsumer (with MCUploadConsumer, RangeCopy, UploadConsumer_proofs)

One copier process. `run` is the listing loop and the final join; `pc` is the driver
task: `select` (its `tokio::select!`), `commit` (`spawn_commit` waiting for a commit
slot) and `open` (the await that opens a session). Those two awaits are separate
states because uploads and commits go on meanwhile; everything else a handler does is
one step. `task[f]` is the upload task of a file, `ctask[s]` the commit task of a
session. Session counters (`assigned`, `completed`, bytes) are derived from the sets
of files they count. The channel holds the objects `recvd+1..sent`.

Left out of the data: payloads, hashes, paths. An upload succeeds, finds the object
gone (404), or fails; how it gets there is the FileTransfer module. The
destination (`BatchLand`) is external: it applies any part of a posted batch at any
time, also after the copier failed. `BatchReturn` uses what the Settlement module
establishes: a count is confirmed only for ops that were applied.

`RangeCopy` is the abstract specification: what a copier promises its planner. Objects
are offered, vanish or land; the result is `ok` only when every offered one landed or
vanished. `CopierPromise` is the refinement (`INSTANCE RangeCopy WITH ...`), and
`Fleet!Complete` relies on it.

### PartPool (with PartPool_proofs)

`memory.rs`'s pool with the reader task and cleaner of every read. `cfg` is the sizing of
the copier: pool size, part concurrency and the number of files in flight. `acquire` is
split at its awaits: `Begin` (enable the two waiters), `Check` (share), `Wake`, the
semaphore queue, `Take`. The drop of a `PartSlot` is three steps (permit, `held`,
notify) since other threads run between them. While the reader task waits for room in
the channel it polls nothing (`Polls`), not even a permit just granted to it. `Cancel`
drops an attempt at any moment; its parts then go one by one. The semaphore and
`Notify` are tokio's and are modelled from how memory.rs uses them: a FIFO queue, and
a waiter that is registered by `enable`, with one stored token. Only reads in parts are
modelled, so a read has two parts or more; with one GET at a time (`Concurrency` 1) no read
uses the pool.

### Sizing and CopierMemory (with MCCopierMemory, CopierMemory_proofs)

`Sizing` holds operators only: the lowest limit among the cgroup files from the process's
own directory to the root, the budget taken from it, and `fit`. A file's content is a
number, `NoLimit` (`max`, or unreadable) or `Absent`. Numbers are not bounded: the code's
`u64` arithmetic saturates, which no real setting reaches.

`CopierMemory` composes it with PartPool: `Sized` is what `run` makes of a container and a
command line, and PartPool runs with it. `InUse` is the memory of the reads, an xorb
window per open file and a part per slot taken. `Enforced` is external: the limits the
kernel applies, which the copier only sees through the files. `NoNeedlessWait` states the
promise of the code's `part_pool_unlimited`.

### FileTransfer (with FileOutcome, FileTransfer_proofs)

One file, from its listing entry to its op. An attempt is one GET with a body in chunks, or
ranged GETs with a reader task; it feeds the CAS cleaner, whose input is checked against
the listed size (`Whole`), and ends by pushing the op. Time is counted in the polls that
race every attempt. The source object may change or vanish at any step (`source` is the
history of its length); a part is two units, so an object may end within a part. GETs stall, fail
and time out, the reader task may die, ingest and finish may fail, and the copier may drop
the transfer. The push, the count and the return are one step, as no await lies between
them. `since` and the fields of an op are history for the properties. The part pool and the
channel are PartPool's subject: here a GET may simply start late.

`FileOutcome` is the abstract specification, what UploadConsumer assumes of an upload
task; `KeepsPromise` is the refinement. So the chain is FileTransfer => FileOutcome, used by
UploadConsumer => RangeCopy, used by Fleet.

### Listing and KeyPaths (with MCListing, Listing_proofs)

`KeyPaths` holds `filter_key`, the map from a key to its destination path, and its
inverse `source_key` of verify.rs. Keys are sequences of tokens, so that a string prefix
need not end at a segment and a slash may be doubled or trailing.

`Listing` is the listing loop of `run`: a page (`ListPage`, retried by `ListFails`), its
lookup for `--skip-existing`, and pass 2, one step per key: `SkipExisting`, `Cut`,
`Queue`. Meanwhile the consumer commits queued files and the source changes. A key is its
rank in byte order; `Nth` puts the keys a page yields in that order. `planned` and `steady`
are history. `copied_window` is the window that
a single-process copy has checked.

### Settlement (with Settlement_proofs)

`batch()` for the ops of one session. A request is lost, throttled, rejected,
answered by something unreadable, or answered by a report. A report may leave ops
out, name a path that was not sent, carry a wrong `success` flag and lack either
counter; counters that are present are true of what the server did. `sure`
and `unsettled` are history variables that only the properties read.

### Fleet (with MCFleet, Fleet_proofs)

The planner, HF Jobs and the stop paths. Keys are numbered in listing order; the
`cur_*` counters are those of the kept keys listed since the last cut. `pc` is the
planner: `list`, `wait` (for a slot), `post`, `poll`, `respawn`, `verify`, `cancel`,
`exit`. A Job is created by HF Jobs after the POST was sent (`Create`), even when the
sender has gone; the planner hears of it (`Ack`), or not (`lost`). `Signal` and `Die`
may come at any step. A poll refreshes any subset of the active copiers, which covers
polls that fail and answers without a status.

HF Jobs is external: a running Job completes (with RangeCopy's promise), breaks,
is canceled or is deleted. `WatchStops` is `watch_planner` and `cancel_self`. What the Web
Space's Stop copy does to a run, canceling the planner and then Jobs one by one, are the
steps `Signal` and the break of a Job as CANCELED, in any order.

### Verify (with MCVerify, Verify_proofs)

The destination check, which the planner runs at its end (`Fleet!VerifyOk` is its abstract
form) and a single-process copy runs for its own window. A key is a number and stands for
its destination path; an object is its size or `Absent`. `settle`, the destination
listing, each page of the re-listing, its `paths-info` and each HEAD are separate steps,
and between them an op in flight may land (`LateOp`) and the source may change
(`SourceChanges`). `touched` is a history variable. `Report.outside` and the paths it samples
are left out: nothing depends on them.

## 3. Runs

| Run | What it shows |
|---|---|
| `consumer` | Four objects, three parallel uploads, sessions sealed by the byte and by the count trigger. Sealed sessions always get their commit, no op is stranded, `Ok` means every object landed or was gone, the two counters agree, gauges never wrap, memory is bounded, the pipeline implements RangeCopy, and the copier ends. |
| `consumer_ackgauge` | *Violation*: `files_pending_ack` keeps counting a file skipped with a 404. |
| `pool` | Copiers sized by `fit` in four containers, reads dropped at any moment: slots are conserved, no wake-up is lost, memory stays within every enforced limit, an unlimited copy never waits, and every read ends, also where not one slot fits beside the window. |
| `settlement` | Three ops: `Ok` on counted reports means applied, nothing named as failed is counted as done, every settlement ends. |
| `fleet` | Five keys (one filtered out, one a range of its own) under a byte limit and `max_inflight` 0: ranges tile the listing, one Job per range but for hidden ones, `Ok` means copied (what no Job copied is found by the check), a canceled range is never restarted, the planner ends. |
| `fleet_stop` | One key per range, a cap of two, no destination check: the cap and the commit budget hold while listing, and no Job outlives the planner for good, however it ended, also a Job created behind a 5xx or after the planner was gone. |
| `fleet_cap` | *Violation*: restarted copiers exceed `max_inflight`. |
| `verify` | Four keys in two ranges, every state of both sides, one change during the check: a pass means every planned file of an undisturbed source is there, a quiet report is exact, a file found in order is never blamed, and the check ends although the bucket keeps changing. |
| `transfer` | Three parts or one GET, three attempts: only whole files are queued, once, with their count; only an absent object is skipped; no attempt is dropped early; it implements FileOutcome and ends although nothing has to answer. |
| `transfer_parttimeout` | *Violation*: the stall-abort drops an attempt before its stalled GET can time out and be sent again. |
| `listing` | Seven keys around a prefix, pages of two, twelve command lines: keys are taken up once and in order, the checked window is the copied one, the limit is exact, a skipped file stays in place, paths lead back to keys but for one exception, the listing ends. |
| `listing_collision` | *Violation*: that exception, `PREFIX/PREFIX`. |

**Bounds.** `N`, `NumKeys`, `Parts` and `Reads` are the instance sizes. Four objects give
three sessions, so a third commit meets the cap of two; three uploads let a session of two
files be sealed with both in flight. The containers of `pool` (MCCopierMemory, in MiB) are
one without a limit, one limited by a parent, one where two files share a pool smaller than
both could hold, and one that does not fit a single file: the share shrinks while parts are
in GETs, in the channel and with the cleaner. Three ops allow a report to
confirm one, name one and leave one out. `MaxJobs` caps the Jobs of one behaviour: four cover
a range that uses all its attempts beside another range. `MAX_ATTEMPTS` of Fleet is
the request budget of the client (6 in the code): the retries of one POST differ only in how
many Jobs they may hide. Its budget for commit-heavy ranges
(`MAX_INFLIGHT_SMALL_FILE_COPIERS`) is 1 in the runs, so that few ranges meet it.

FileTransfer: `STALL_POLLS` 2 and `REQUEST_POLLS` 3 keep the ratio of the code's 120 s and
180 s; two of the three tries of a part and three of the four attempts of a file already
give a first, a middle and a last one. Three parts with two GETs in flight let a later part
arrive before an earlier one fails. Listing: pages of two over
seven keys give up to four pages, so a change can come between any two; two requests per page
give one retry. `MaxChanges` caps changes of the source in one behaviour.
Verify starts from every combination of stale, unplanned
and missing files that its two sizes allow; `MaxPolls` caps the polls
of `settle()` (12 in the code), and one HEAD for two missing keys reaches the cap.

**Fairness.** UploadConsumer: each task is fair on its own, since page reads, transfers,
`finalize` and HTTP requests all have deadlines (120 s zero-progress abort, finalize
deadline, request timeouts). PartPool: the runtime polls woken tasks, GETs and ingests
end or fail, a drop completes; nothing makes a read fail. Settlement: requests have a
180 s timeout and backoffs are sleeps. Verify: requests time out and retry a bounded
number of times. Listing: requests are answered or time out, and the consumer drains
its channel or dies. FileTransfer assumes timers only: backoffs end, polls come, and a
request that is waited for fails at its timeout; S3, CAS and the collector's lock may stay
silent for ever. Fleet `FairSpec`: the planner keeps taking steps,
polls may fail but not for ever (strong fairness of a full poll), HF Jobs answers and
ends every Job by its timeout. Fleet `StopSpec` assumes much less: only that HF Jobs
ends the planner's Job and that copiers poll it (`watch_planner` loops until it sees a
terminal stage); copiers may otherwise run for ever.

The runs leave out what the proofs establish for every instance: the `TypeOK` of every module
but PartPool, and the inductive invariants.

Every property has a mutant: a definition of the model replaced by a faulty variant
(`Bad...`, before the definition), which the run must then refute.

## 4. Proofs

`UploadConsumer_proofs` proves, for any number of objects, any sizes, parallelism,
chunk, byte trigger and channel capacity (`ConstantsOK`):

* `Invariance`: `Spec => []IInv`. None of the properties is inductive by itself. `IInv`
  conjoins where the driver stands relative to the channel (`ChannelInv`), that exactly
  the received objects have a task and a session (`TaskInv`), the life of a session
  (`SessionInv`: it gets a commit task only when sealed and all its uploads joined),
  what `spawn_commit` waits on (`CommitInv`), where the op of each uploaded file is
  (`OpInv`), and `SealedHasTrigger`. The last one is what rules out a session left
  behind at the exit: when nothing is in flight and `spawn_commit` is idle, no sealed
  session can be in the map.
* From it `TypeCorrect`, `SealedSessionsCommit`, `OpsNotStranded`,
  `DriverExitComplete` and `RunIsComplete`.
* `CommittedNeverOverstated` and `CountersAgreeAtExit`, through `CounterInv`:
  `files_done` is the number of uploaded files, `committed_files` the number of
  applied files of settled commits, exactly so while no commit has failed.
* `MemoryIsBounded`: `Spec => []SessionsBounded`, from `BoundInv`. Every session in the map but
  the current one and the one waiting for a commit slot has an upload in flight
  (`SealedHasTrigger` again), and there is one upload less while the driver waits.
* `GaugesNeverWrap`: `Spec => []GaugesNonNegative`, from `GaugeInv`: the gauges are at least the
  number of sealed sessions and of files whose acknowledgement is still to come. At least, not
  exactly: what a failed commit or a 404 leaves behind stays in them (finding 1).
* `Refinement`: `Spec => CopierPromise`; every step maps to a step of RangeCopy or a stutter.

`Settlement_proofs` proves, for any finite batch and request budget:

* `ConfirmedMeansApplied` and `NamedOpsSettled`, from the inductive invariant `IInv`:
  while reports carried both counters, every op that is no longer pending was applied.
  The step that needs care is a report that adds up: `succeeded` equals the ops sent
  minus the ones to retry, so no op was left out silently (a cardinality argument).

`FileTransfer_proofs` proves, for any number of parts, part concurrency, attempts, tries,
timeouts and changes of the source (`TransferConstants`):

* `Invariance`: `Spec => []IInv`. `IInv` adds to the properties that nothing of an attempt
  survives it (`CleanInv`), that what a ranged GET brought or reported belongs to the
  attempt's own time (`PartInv`), that a single GET reads one version from its start
  (`SingleInv`), and that the cleaner's input is at most two units per part (`ContentInv`). The last one
  is why the integrity guard is enough: a total equal to the listed size leaves no room for a
  missing or an extra part.
* From it `TypeCorrect`, `QueuedIsWhole` and `OnlyGoneIsSkipped`.
* `Refinement`: `Spec => KeepsPromise`; only the push maps to an upload, every other end to `End`.
* `NoAttemptDroppedEarly`, an action property, from `ClockInv`: an attempt was never quiet for
  longer than it ran.

`PartPool_proofs` proves, for any number of reads, parts and slots (`PoolConstants`):

* `NoSlotIsLost` and `PoolTypeCorrect`, from `PoolInv`. A sum over sets is not inductive when
  the sets are only known by their sizes, so `PoolInv` says which parts of a read hold a slot:
  those after the one its cleaner gave back last, up to the one taken last (`SlotsInv`), or what
  is left of a dropped attempt (`ClosedInv`); and that the semaphore's queue holds every read that
  waits in it, once (`QueueInv`).
* `NoWakeupIsLost`, from the stronger fact that no read is `Stranded`: a sleeping read with
  neither wake-up on its way has as many slots as its share, also counting the slot whose drop
  has yet to notify. The share only grows when a reader leaves, which notifies everyone.
* `PoolUsage`, an invariant about what a read leaves behind and how far it reads ahead, which the
  memory proofs need.

`CopierMemory_proofs` proves, for any containers, command lines, reads and constants
(`SizingConstants`, `PoolConstants`, `CopierConstants`):

* `SizingIsSound`: what `fit` returns for every limit and setting. It picks between one and
  the requested number of files, at least one slot when files are read in parts, leaves
  the reserve when it reports a fit, reports none only when one file is above the budget, and
  does not pick less than would fit. The lemmas below it are facts about products, division
  and the least element of a set (well-foundedness of `Nat`), since the prover does no
  nonlinear arithmetic by itself.
* `MemoryStaysWithinLimits`: `Spec => []MemoryWithinLimits`. The inductive invariant
  `MemInv` says that the semaphore never goes below zero and that no more files are open
  than the sizing allows; `LowestIsEnforced` ties the limit the copier read to each limit
  the kernel enforces; `SizingIsSound` does the rest.
* `LargerPoolIsOfNoUse`: `Spec => []NoNeedlessWait`. A pool of `parallel * parts_per_file` slots
  is enough: were a read queued, the slots in use and its own request would inject into the
  places (file, slot of a file), and the place of the request would be free. This is where
  `Concurrency + read_ahead_depth + 2` of `parts_per_file` is shown to be enough for all the
  parts a file can have on the way.

`Fleet_proofs` proves, for any listing, filter, limits and number of Jobs (`ConstantsOK`):

* `FleetInvariant`: `Spec => []FleetInv`. Its parts: the Job of a copier was made for its range,
  and a copier the planner takes for ended has ended that way (`CopierInv`); ranges follow each
  other from the start (`TileInv`), nothing is left to cut once the fleet is monitored
  (`CutInv`); where a POST can be in flight (`PostInv`); what is left to respawn failed
  (`TodoInv`); a running Job is the one of its range's copier, the one being acknowledged, or
  one the planner was never told of (`JobsInv`).
* From it `FleetTypeCorrect`, `EveryKeyIsPlanned`, `NoRangeCopiedTwice`, `OkIsHonest`, and the
  action property `CancelIsRespected`: a range is posted again only when its Job's stage, as
  polled, is ERROR, and an ended Job does not change its stage, so the poll cannot be stale.
* `CapsHoldWhileListing`, from `CapInv`: the copiers the planner takes for active are within the
  caps, and those that run are among them, since stages only go from running to ended.

`Verify_proofs` proves, for any keys, ranges, sizes and polls (`VerifyConstants`):

* `VerifyInvariant`: `Spec => []VerifyInv`. What the check knows is of earlier moments;
  `VerifyInv` says what of it stays true: a file that pass 1 saw stays (`ListedInv`), a key whose
  source was not touched has its planned size in every page (`SourceInv`), verdicts on such keys
  agree with the destination (`VerdictInv`), and the re-listing leaves none out (`CoverInv`).
* From it `VerifyTypeCorrect`, `NothingIsBlamedFalsely` and `OkIsSound`. The last one is a
  counting argument: in a range whose files and bytes add up and that has no unplanned file, all
  planned keys are there, and at most one with another size would change the bytes.
* `QuietReportIsExact`, from `QuietInv`: the same without changes, with equalities.

`Listing_proofs` proves, for any universe of keys, command line, page size and changes of the
source (`ListingConstants`). About the order of keys it assumes only that a key comes after its
own prefixes, as it does in byte order.

* `ListingInvariant`: `Spec => []ListingInv`. The listing is a walk along the keys: `planned`,
  the rest of the page, then what is past the token. They follow each other (`OrderInv`), the
  walk goes forward and ends early only past `stop_at` (`PagingInv`), no object that was there
  all along is behind it unseen (`CoverInv`), and counters and limit account for `planned`
  (`AccountInv`, `LimitInv`). `ExistInv` is about the lookup being older than the commits.
* From it `ListingTypeCorrect`, `KeysTakenInOrder`, `WindowIsExact`, `LimitIsExact` and
  `SkippedFilesStay`.
* `PathsAreInvertible`: `Spec => []PathsInvert`, for all strings, prefixes and destinations. A
  kept key is the prefix itself, or the prefix and its relative path with at most one slash in
  between (`RelativePath`; it has no empty segment, so trimming drops exactly one slash), and
  `source_key` undoes each case except `PREFIX/PREFIX` (finding 4).

Sums of bytes are counted as cardinalities in Verify and Listing (a byte is a file and an offset
in it), which TLC evaluates and the prover can reason about without induction.

Only model-checked: all liveness (`RunEnds`, `AllReadsEnd`, `Settles`, `PlannerEnds`,
`NoneOutlivesPlanner`, `CheckEnds`, `TransferEnds`, `ListingEnds`), which is out of the
prover's reach. Every invariant and action property of the passing runs is proved.

## 5. Findings

The four violation runs each show a place where the code and its own documentation
disagree; none of them loses data, but for the shared path of the last.

1. `files_pending_ack` is raised by the files of a session and lowered by its ops, so a 404
   skip stays in the gauge (sync.rs:1556, 1633; progress.rs:107).
2. `max_inflight` is documented as a cap on active copiers; restarts bypass it (sync.rs:534, 910).
3. A stalled ranged GET is said to be fetched again on a fresh connection instead of failing
   the file (sync.rs:1928-1930), but the attempt is dropped after 120 s without bytes, and the GET
   times out after 180 s (sync.rs:1685, 2250): the whole file is read again.
4. `source_key` is called the inverse of the path mapping (verify.rs:237). With a source
   prefix `foo`, the key `foo/foo` maps to the path of the key `foo`; if both exist, one
   overwrites the other (sync.rs:2356, verify.rs:246).

Observations without a run of their own:

* The fair share is checked once, before the wait for a permit (memory.rs:145); the
  repository's README words it for the moment the slot is taken. Each check lets through at most
  one slot, and the semaphore bounds the memory in any case.
* `batch()` trusts a first 2xx with an unreadable body and returns `Ok` without a report
  (bucket_client.rs:270-283); `SureMeansApplied` is therefore about counted reports.
* Ranged GETs carry no version: an object replaced by one of the same length during an
  attempt may be put together from both. `OpIsWhole` asks for one version only where the
  code can give it, a file read with one GET.
* Verify: files of other sizes may cancel out in a range's bytes, as a missing and an unplanned
  file may; and a key deleted from the source before the re-listing is in none of the counts, so
  `raced` only counts keys deleted between the re-listing and the HEAD.

## 6. Not modelled

* CLI parsing, credentials, region detection, the token exchange, request formatting and the
  set-up of xet-core: I/O and formatting over libraries.
* The PROGRESS printer and the watchdog: they only observe the counters.
* Which cgroup directory `/proc/self/cgroup` names, and the reading of the resident memory.
* The glob syntax of `--exclude`: a glob is the set of keys it matches.
* The Web Space: a page that launches and observes. Its effects on a run are steps of Fleet.

## 7. Plan

Done, in this order: UploadConsumer with RangeCopy and its proofs; PartPool;
Settlement with its proofs; Fleet, which composes the copier's promise with the
planner, HF Jobs and the stop paths; Verify; FileTransfer with FileOutcome and its proofs; Sizing and
CopierMemory with their proofs; KeyPaths and Listing.

The proofs of every invariant and action property of the passing runs are done: UploadConsumer,
Settlement, FileTransfer, PartPool, CopierMemory, Fleet, Verify, Listing.

What is left:

1. An abstract specification of the planner (ranges offered, copied, verdict) that Fleet
   implements, in the way RangeCopy is one of the copier, so that a whole copy is one refinement.
2. `Locate` of Verify against its reference (the range a key falls in), for any list of stops.
3. Settlement as the abstract `/batch` that UploadConsumer assumes.
