------------------------------ MODULE PartPool ------------------------------
(***************************************************************************)
(* The pool of part slots shared by all multipart reads of a copier        *)
(* (memory.rs), and the reader task and cleaner of each read (read_parts). *)
(*                                                                         *)
(* A read takes one slot per part, in part order, before the part's GET    *)
(* starts.  `acquire` first waits until the read holds less than its fair  *)
(* share of the pool, then queues for a permit of a FIFO semaphore.  The   *)
(* GETs sit in a `buffered` stream driven by a reader task that passes     *)
(* finished parts, in order, into a bounded channel; while that task waits *)
(* for room in the channel it polls nothing, not even a permit that was    *)
(* just granted to it.  The cleaner gives a part's slot back when it asks  *)
(* for the next part.                                                      *)
(*                                                                         *)
(* The semaphore and the two Notify objects are tokio's, modelled from how *)
(* memory.rs uses them.  A retry of a file is a read of its own, which may *)
(* start while the tasks of the dropped attempt still hold slots.          *)
(***************************************************************************)
EXTENDS Integers, Sequences, FiniteSets, Sizing

CONSTANTS
  Reads,   \* multipart reads (file transfer attempts)
  Configs  \* what a copier may start with: slots of the pool (size), ranged GETs
           \* per read (concurrency), files at a time (parallel), parts per read

ASSUME PoolConstants ==
  /\ IsFiniteSet(Reads)
  /\ \A c \in Configs : /\ c.size \in Nat /\ c.concurrency \in Nat \ {0}
                         /\ c.parallel \in Nat \ {0}
                         /\ c.parts \in [Reads -> Nat \ {0, 1}]

VARIABLES
  cfg,      \* the configuration of this copier
  st,       \* a read: "new", "open", "dropping" (its attempt was dropped), "done"
  reg,      \* reads with a live PoolReader
  free,     \* permits left in the semaphore
  queue,    \* reads waiting for a permit, in arrival order
  taken,    \* parts of the read that took a slot so far
  live,     \* <<read, part>> pairs whose PartSlot holds a permit
  held,     \* FileSlots.held
  acq,      \* acquire(): "idle", "check", "wait", "queue", "granted"
  own,      \* the read's `released` Notify and its waiter
  share,    \* the read's waiter on `readers_changed` was woken
  fetched,  \* <<read, part>> pairs whose GET is complete
  out,      \* parts that left the `buffered` stream
  inhand,   \* the reader task holds a part it is sending
  recv,     \* parts the cleaner got
  cln       \* the cleaner: "await", "busy", and the steps "permit", "held" of a slot's drop

vars == <<cfg, st, reg, free, queue, taken, live, held, acq, own, share, fetched, out,
          inhand, recv, cln>>

Size        == cfg.size
Concurrency == cfg.concurrency
Parts(r)    == cfg.parts[r]

-----------------------------------------------------------------------------
(* Operators named Bad... are faulty variants of the definition after them, *)
(* used only to see that a property notices the fault.                     *)

AtLeastOne(n) == IF n = 0 THEN 1 ELSE n

\* Most slots one read may hold while the registered reads are reading.
fair_share == AtLeastOne(Size \div AtLeastOne(Cardinality(reg)))

Init ==
  /\ cfg \in Configs
  /\ st = [r \in Reads |-> "new"] /\ reg = {}
  /\ free = Size /\ queue = <<>> /\ live = {}
  /\ taken = [r \in Reads |-> 0] /\ held = [r \in Reads |-> 0]
  /\ acq = [r \in Reads |-> "idle"]
  /\ own = [r \in Reads |-> "empty"]
  /\ share = [r \in Reads |-> FALSE]
  /\ fetched = {}
  /\ out = [r \in Reads |-> 0] /\ inhand = [r \in Reads |-> FALSE]
  /\ recv = [r \in Reads |-> 0] /\ cln = [r \in Reads |-> "await"]

-----------------------------------------------------------------------------
(* tokio's semaphore and Notify, as far as memory.rs uses them.            *)

\* A released permit goes to the waiter at the head of the queue, polled or not.
\* `a` is acq as the rest of the action leaves it.
Release(a) ==
  IF queue = <<>>
  THEN free' = free + 1 /\ acq' = a /\ UNCHANGED queue
  ELSE free' = free /\ queue' = Tail(queue) /\ acq' = [a EXCEPT ![Head(queue)] = "granted"]

\* A pending acquire of the semaphore is dropped: its waiter leaves the queue.
LeaveQueue(r) ==
  \E i \in 1..Len(queue) :
    /\ queue[i] = r
    /\ queue' = [j \in 1..Len(queue) - 1 |-> queue[IF j < i THEN j ELSE j + 1]]

\* notify_one: wakes the registered waiter, or is remembered for the next one.
NotifyOne(o) == IF o \in {"waiting", "notified"} THEN "notified"
                ELSE IF o = "consumed" THEN "consumed+token" ELSE "token"

\* enable(): a remembered notification is consumed at once.
Enable(o) == IF o = "token" THEN "consumed" ELSE "waiting"

\* A waiter is dropped: a notification it was sent but never saw is passed on.
DropWaiter(o) == IF o \in {"notified", "consumed+token"} THEN "token" ELSE "empty"

\* notify_waiters on readers_changed: every acquire() registered at that moment.
BadNotifyShare == UNCHANGED share       \* the other reads are not told
NotifyShare == share' = [r \in Reads |-> share[r] \/ acq[r] \in {"check", "wait"}]

-----------------------------------------------------------------------------
(* The reader task.                                                        *)

\* read_parts(): the read registers with the pool and its task starts.  With one
\* GET at a time, or for a file of one part, upload_one_attempt takes no slot.
Start(r) ==
  /\ st[r] = "new" /\ Concurrency > 1
  /\ Cardinality({x \in Reads : st[x] = "open"}) < cfg.parallel
  /\ st' = [st EXCEPT ![r] = "open"]
  /\ reg' = reg \cup {r} /\ NotifyShare
  /\ UNCHANGED <<free, queue, taken, live, held, acq, own, fetched, out, inhand, recv, cln>>

\* The task runs its stream: it is not waiting for room in the channel.
Polls(r) == st[r] = "open" /\ r \in reg /\ ~inhand[r]

\* acquire(), for the next part, when `buffered` has room for one more: register
\* for both wake-ups, then check the share.
BadMoreParts(r) == taken[r] <= Parts(r)    \* one range too many
MoreParts(r)    == taken[r] < Parts(r)

Begin(r) ==
  /\ Polls(r) /\ acq[r] = "idle"
  /\ MoreParts(r) /\ taken[r] - out[r] < Concurrency
  /\ acq' = [acq EXCEPT ![r] = "check"]
  /\ own' = [own EXCEPT ![r] = Enable(@)]
  /\ share' = [share EXCEPT ![r] = FALSE]
  /\ UNCHANGED <<st, reg, free, queue, taken, live, held, fetched, out, inhand, recv, cln>>

\* Below the share: take a permit or join the queue.  Otherwise wait.
Check(r) ==
  /\ Polls(r) /\ acq[r] = "check"
  /\ \/ /\ held[r] < fair_share
        /\ own' = [own EXCEPT ![r] = DropWaiter(@)]
        /\ \/ free > 0 /\ free' = free - 1 /\ acq' = [acq EXCEPT ![r] = "granted"]
              /\ UNCHANGED queue
           \/ free = 0 /\ queue' = Append(queue, r) /\ acq' = [acq EXCEPT ![r] = "queue"]
              /\ UNCHANGED free
        /\ share' = [share EXCEPT ![r] = FALSE]
     \/ /\ held[r] >= fair_share
        /\ acq' = [acq EXCEPT ![r] = "wait"]
        /\ UNCHANGED <<own, share, free, queue>>
  /\ UNCHANGED <<st, reg, taken, live, held, fetched, out, inhand, recv, cln>>

\* Either wake-up sends acquire() round its loop.
Wake(r) ==
  /\ Polls(r) /\ acq[r] = "wait"
  /\ \/ own[r] # "waiting"
        /\ own' = [own EXCEPT ![r] = IF @ = "consumed+token" THEN "token" ELSE "empty"]
     \/ share[r] /\ own' = [own EXCEPT ![r] = DropWaiter(@)]
  /\ acq' = [acq EXCEPT ![r] = "idle"] /\ share' = [share EXCEPT ![r] = FALSE]
  /\ UNCHANGED <<st, reg, free, queue, taken, live, held, fetched, out, inhand, recv, cln>>

\* The permit arrived: the next part has its slot and its GET starts.
Take(r) ==
  /\ Polls(r) /\ acq[r] = "granted"
  /\ taken' = [taken EXCEPT ![r] = @ + 1]
  /\ live' = live \cup {<<r, taken[r] + 1>>}
  /\ held' = [held EXCEPT ![r] = @ + 1]
  /\ acq' = [acq EXCEPT ![r] = "idle"]
  /\ UNCHANGED <<st, reg, free, queue, own, share, fetched, out, inhand, recv, cln>>

\* A ranged GET completes, in any order among the parts in flight.
Fetch(r) ==
  /\ Polls(r)
  /\ \E p \in out[r] + 1 .. taken[r] : /\ <<r, p>> \notin fetched
                                      /\ fetched' = fetched \cup {<<r, p>>}
  /\ UNCHANGED <<st, reg, free, queue, taken, live, held, acq, own, share, out, inhand, recv,
                 cln>>

\* `buffered` yields the parts in order; the task then waits for room.
Yield(r) ==
  /\ Polls(r) /\ <<r, out[r] + 1>> \in fetched
  /\ out' = [out EXCEPT ![r] = @ + 1]
  /\ inhand' = [inhand EXCEPT ![r] = TRUE]
  /\ UNCHANGED <<st, reg, free, queue, taken, live, held, acq, own, share, fetched, recv, cln>>

Send(r) ==
  /\ st[r] = "open" /\ inhand[r]
  /\ out[r] - 1 - recv[r] < read_ahead_depth(Concurrency)
  /\ inhand' = [inhand EXCEPT ![r] = FALSE]
  /\ UNCHANGED <<st, reg, free, queue, taken, live, held, acq, own, share, fetched, out, recv,
                 cln>>

\* After the last part the task ends and drops the PoolReader.
ReaderEnd(r) ==
  /\ Polls(r) /\ out[r] = Parts(r)
  /\ reg' = reg \ {r} /\ NotifyShare
  /\ UNCHANGED <<st, free, queue, taken, live, held, acq, own, fetched, out, inhand, recv, cln>>

-----------------------------------------------------------------------------
(* The cleaner side: the stream handed to upload_stream.                   *)

CleanerRecv(r) ==
  /\ st[r] = "open" /\ cln[r] = "await"
  /\ recv[r] < out[r] - (IF inhand[r] THEN 1 ELSE 0)
  /\ recv' = [recv EXCEPT ![r] = @ + 1]
  /\ cln' = [cln EXCEPT ![r] = "busy"]
  /\ UNCHANGED <<st, reg, free, queue, taken, live, held, acq, own, share, fetched, out, inhand>>

\* Asking for the next part drops the slot of the last one, in three steps: the
\* permit, the read's count, the wake-up.
DropPermit(r) ==
  /\ st[r] = "open" /\ cln[r] = "busy"
  /\ live' = live \ {<<r, recv[r]>>}
  /\ Release(acq)
  /\ cln' = [cln EXCEPT ![r] = "permit"]
  /\ UNCHANGED <<st, reg, taken, held, own, share, fetched, out, inhand, recv>>

DropHeld(r) ==
  /\ cln[r] = "permit"
  /\ held' = [held EXCEPT ![r] = @ - 1]
  /\ cln' = [cln EXCEPT ![r] = "held"]
  /\ UNCHANGED <<st, reg, free, queue, taken, live, acq, own, share, fetched, out, inhand, recv>>

DropNotify(r) ==
  /\ cln[r] = "held"
  /\ own' = [own EXCEPT ![r] = NotifyOne(@)]
  /\ cln' = [cln EXCEPT ![r] = "await"]
  /\ UNCHANGED <<st, reg, free, queue, taken, live, held, acq, share, fetched, out, inhand, recv>>

\* What is left of a read that is over or dropped: the slots it holds, its count
\* and the acquire() that is pending.
ForgetParts(r) ==
  /\ taken' = [taken EXCEPT ![r] = 0] /\ out' = [out EXCEPT ![r] = 0]
  /\ recv' = [recv EXCEPT ![r] = 0] /\ inhand' = [inhand EXCEPT ![r] = FALSE]
  /\ fetched' = {x \in fetched : x[1] # r} /\ cln' = [cln EXCEPT ![r] = "await"]

\* The channel is closed and empty: the read is over.
CleanerEnd(r) ==
  /\ st[r] = "open" /\ r \notin reg /\ cln[r] = "await" /\ recv[r] = Parts(r)
  /\ st' = [st EXCEPT ![r] = "done"] /\ own' = [own EXCEPT ![r] = "empty"]
  /\ ForgetParts(r)
  /\ UNCHANGED <<reg, free, queue, live, held, acq, share>>

-----------------------------------------------------------------------------
(* A dropped attempt (failed GET, stall-abort, copier error).              *)

Cancel(r) ==
  /\ st[r] = "open" /\ cln[r] \in {"await", "busy"}
  /\ st' = [st EXCEPT ![r] = "dropping"]
  /\ ForgetParts(r)
  /\ UNCHANGED <<reg, free, queue, live, held, acq, own, share>>

\* A slot in a GET, in the channel or with the cleaner is dropped.
CancelSlot(r) ==
  /\ st[r] = "dropping"
  /\ \E p \in 1..Parts(r) : <<r, p>> \in live /\ live' = live \ {<<r, p>>}
  /\ Release(acq)
  /\ held' = [held EXCEPT ![r] = @ - 1]
  /\ UNCHANGED <<st, reg, taken, own, share, fetched, out, inhand, recv, cln>>

\* The pending acquire() is dropped: it leaves the queue, or returns a permit it
\* was granted and never saw.
BadCancelAcquire(r) ==         \* a permit granted to an unpolled waiter is lost
  /\ st[r] = "dropping" /\ acq[r] # "idle"
  /\ IF acq[r] = "queue" THEN LeaveQueue(r) ELSE UNCHANGED queue
  /\ acq' = [acq EXCEPT ![r] = "idle"]
  /\ own' = [own EXCEPT ![r] = "empty"] /\ share' = [share EXCEPT ![r] = FALSE]
  /\ UNCHANGED <<st, reg, free, taken, live, held, fetched, out, inhand, recv, cln>>
CancelAcquire(r) ==
  /\ st[r] = "dropping" /\ acq[r] # "idle"
  /\ \/ acq[r] = "granted" /\ Release([acq EXCEPT ![r] = "idle"])
     \/ /\ \/ acq[r] = "queue" /\ LeaveQueue(r)
           \/ acq[r] \in {"check", "wait"} /\ UNCHANGED queue
        /\ acq' = [acq EXCEPT ![r] = "idle"]
        /\ UNCHANGED free
  /\ own' = [own EXCEPT ![r] = "empty"] /\ share' = [share EXCEPT ![r] = FALSE]
  /\ UNCHANGED <<st, reg, taken, live, held, fetched, out, inhand, recv, cln>>

\* The PoolReader goes with the reader task's stream.
CancelReader(r) ==
  /\ st[r] = "dropping" /\ r \in reg /\ acq[r] = "idle"
  /\ reg' = reg \ {r} /\ NotifyShare
  /\ UNCHANGED <<st, free, queue, taken, live, held, acq, own, fetched, out, inhand, recv, cln>>

CancelEnd(r) ==
  /\ st[r] = "dropping" /\ r \notin reg /\ \A p \in 1..Parts(r) : <<r, p>> \notin live
  /\ st' = [st EXCEPT ![r] = "done"] /\ own' = [own EXCEPT ![r] = "empty"]
  /\ UNCHANGED <<reg, free, queue, taken, live, held, acq, share, fetched, out, inhand,
                 recv, cln>>

-----------------------------------------------------------------------------
ReaderStep(r)  == \/ Start(r) \/ Begin(r) \/ Check(r) \/ Wake(r) \/ Take(r) \/ Fetch(r)
                  \/ Yield(r) \/ Send(r) \/ ReaderEnd(r)
CleanerStep(r) == \/ CleanerRecv(r) \/ DropPermit(r) \/ DropHeld(r) \/ DropNotify(r)
                  \/ CleanerEnd(r)
CancelStep(r)  == CancelSlot(r) \/ CancelAcquire(r) \/ CancelReader(r) \/ CancelEnd(r)

AllDone == \A r \in Reads : st[r] = "done"
Finished == AllDone /\ UNCHANGED vars

ReaderMoves(r)  == ReaderStep(r) /\ UNCHANGED cfg
CleanerMoves(r) == CleanerStep(r) /\ UNCHANGED cfg
CancelMoves(r)  == CancelStep(r) /\ UNCHANGED cfg

Next == \/ \E r \in Reads : \/ ReaderMoves(r) \/ CleanerMoves(r) \/ CancelMoves(r)
                            \/ Cancel(r) /\ UNCHANGED cfg
        \/ Finished

\* The runtime polls a woken task, a GET and an ingest end or fail in bounded
\* time, and a dropped future is dropped completely.  Nothing makes a read fail.
Fairness == \A r \in Reads : /\ WF_vars(ReaderMoves(r)) /\ WF_vars(CleanerMoves(r))
                              /\ WF_vars(CancelMoves(r))

Spec     == Init /\ [][Next]_vars
FairSpec == Spec /\ Fairness

-----------------------------------------------------------------------------
(* Properties.                                                             *)

\* Every variable of the pool and its reads keeps its type.
TypeOK ==
  /\ st \in [Reads -> {"new", "open", "dropping", "done"}]
  /\ reg \in SUBSET Reads
  /\ free \in 0..Size
  /\ queue \in Seq(Reads)
  /\ cfg \in Configs
  /\ \A c \in {taken, out, recv, held} : DOMAIN c = Reads /\ \A r \in Reads : c[r] \in 0..Parts(r)
  /\ \A S \in {live, fetched} : \A x \in S : x[1] \in Reads /\ x[2] \in 1..Parts(x[1])
  /\ acq \in [Reads -> {"idle", "check", "wait", "queue", "granted"}]
  /\ own \in [Reads -> {"empty", "token", "waiting", "notified", "consumed", "consumed+token"}]
  /\ share \in [Reads -> BOOLEAN] /\ inhand \in [Reads -> BOOLEAN]
  /\ cln \in [Reads -> {"await", "busy", "permit", "held"}]

\* No slot is lost or created, whatever is dropped when: free permits, live slots
\* and permits granted to a task that has not run yet make up the pool.
SlotsConserved ==
  free + Cardinality(live) + Cardinality({r \in Reads : acq[r] = "granted"}) = Size

\* No wake-up is lost: a read that waits below its fair share has been woken, or
\* the slot drop that brought it there is about to wake it.
NoLostWakeup ==
  \A r \in Reads :
    acq[r] = "wait" /\ st[r] = "open" /\ held[r] < fair_share
      => own[r] # "waiting" \/ share[r] \/ cln[r] = "held"

\* Every read ends, however small the pool: neither the share, the permits, the
\* channel nor a granted permit in the hands of a blocked task can hold up all
\* of them.
AllReadsEnd == <>AllDone

=============================================================================
