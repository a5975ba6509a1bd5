--------------------------- MODULE PartPool_proofs --------------------------
(***************************************************************************)
(* The part pool for every number of reads, parts and slots: its types, no *)
(* slot lost or made, no wake-up lost.                                     *)
(*                                                                         *)
(* The invariant ties the counters of a read to the slots it holds: the    *)
(* parts of an open read that hold a slot are those after the one its      *)
(* cleaner gave back last, up to the one taken last.                       *)
(***************************************************************************)
EXTENDS PartPool, FiniteSetTheorems, TLAPS

\* Parts of a read that hold a slot.
PartsOf(r) == {p \in 1..Parts(r) : <<r, p>> \in live}

\* Reads to which a permit was granted that they have not seen.
Granted(a) == {r \in Reads : a[r] = "granted"}

\* The states of acquire(), and of the read's Notify.
States  == {"idle", "check", "wait", "queue", "granted"}
Waiters == {"empty", "token", "waiting", "notified", "consumed", "consumed+token"}

\* Plain types, without the bounds on the counters.
PoolTypes ==
  /\ cfg \in Configs
  /\ st \in [Reads -> {"new", "open", "dropping", "done"}]
  /\ reg \in SUBSET Reads
  /\ free \in Nat
  /\ queue \in Seq(Reads)
  /\ taken \in [Reads -> Int] /\ out \in [Reads -> Int]
  /\ recv \in [Reads -> Int] /\ held \in [Reads -> Int]
  /\ live \in SUBSET (Reads \X Int) /\ IsFiniteSet(live)
  /\ fetched \in SUBSET (Reads \X Int)
  /\ acq \in [Reads -> States]
  /\ own \in [Reads -> Waiters]
  /\ share \in [Reads -> BOOLEAN] /\ inhand \in [Reads -> BOOLEAN]
  /\ cln \in [Reads -> {"await", "busy", "permit", "held"}]

\* The queue holds, once each, the reads whose acquire() waits in it.
InQueue(r) == \E i \in 1..Len(queue) : queue[i] = r
QueueInv ==
  /\ \A i \in 1..Len(queue) : acq[queue[i]] = "queue"
  /\ \A i, j \in 1..Len(queue) : queue[i] = queue[j] => i = j
  /\ \A r \in Reads : acq[r] = "queue" => InQueue(r)

\* The counters of an open read.
CountsInv(r) ==
  /\ 0 <= recv[r] /\ recv[r] <= out[r] - (IF inhand[r] THEN 1 ELSE 0)
  /\ out[r] <= taken[r] /\ taken[r] <= Parts(r)
  /\ acq[r] # "idle" => taken[r] < Parts(r)
  /\ \A p \in Int : <<r, p>> \in fetched => p \in 1..taken[r]
  /\ cln[r] \in {"busy", "permit"} => recv[r] > 0

\* The slots of an open read: those after the last one given back.
SlotsInv(r) ==
  /\ \A p \in Int : <<r, p>> \in live
                      <=> p \in recv[r] + (IF cln[r] = "busy" THEN 0 ELSE 1) .. taken[r]
  /\ held[r] = taken[r] - recv[r] + (IF cln[r] \in {"busy", "permit"} THEN 1 ELSE 0)

\* A read that is not open has no part under way; slots it still holds are those
\* of a dropped attempt.
ClosedInv(r) ==
  /\ taken[r] = 0 /\ out[r] = 0 /\ recv[r] = 0 /\ inhand[r] = FALSE /\ cln[r] = "await"
  /\ \A p \in Int : <<r, p>> \notin fetched
  /\ \A p \in Int : <<r, p>> \in live => p \in 1..Parts(r)
  /\ held[r] = Cardinality(PartsOf(r))
  /\ st[r] = "new" => acq[r] = "idle" /\ \A p \in Int : <<r, p>> \notin live

ReadInv(r) == IF st[r] = "open" THEN CountsInv(r) /\ SlotsInv(r) ELSE ClosedInv(r)

\* The inductive invariant.
PoolInv == PoolTypes /\ QueueInv /\ (\A r \in Reads : ReadInv(r)) /\ SlotsConserved

-----------------------------------------------------------------------------
(* Types.                                                                  *)

\* The configuration of a copier has the types the proofs need.
LEMMA ConfigTypes ==
  ASSUME cfg \in Configs
  PROVE  /\ Size \in Nat /\ Concurrency \in Nat \ {0}
         /\ \A r \in Reads : Parts(r) \in Nat \ {0}
<1>1. cfg.size \in Nat /\ cfg.concurrency \in Nat \ {0} /\ cfg.parts \in [Reads -> Nat \ {0}]
  BY PoolConstants
<1> QED BY <1>1 DEF Size, Concurrency, Parts

\* What happens to a Notify leaves it in one of its states.
LEMMA WaiterTypes ==
  ASSUME NEW o \in Waiters
  PROVE  /\ Enable(o) \in Waiters /\ DropWaiter(o) \in Waiters /\ NotifyOne(o) \in Waiters
         /\ NotifyOne(o) # "waiting"
BY DEF Waiters, Enable, DropWaiter, NotifyOne

\* Releasing a permit keeps the types of what it changes.
LEMMA ReleaseTypes ==
  ASSUME PoolTypes, Release(acq) \/ \E r \in Reads : Release([acq EXCEPT ![r] = "idle"])
  PROVE  /\ free' \in Nat /\ queue' \in Seq(Reads)
         /\ acq' \in [Reads -> States]
<1>1. queue # <<>> => Tail(queue) \in Seq(Reads) /\ Head(queue) \in Reads
  BY DEF PoolTypes
<1>2. PICK a \in [Reads -> States] : Release(a)
  BY DEF PoolTypes, States, Waiters
<1>3. CASE queue = <<>>
  BY <1>2, <1>3 DEF PoolTypes, Release
<1>4. CASE queue # <<>>
  <2>1. free' = free /\ queue' = Tail(queue) /\ acq' = [a EXCEPT ![Head(queue)] = "granted"]
    BY <1>2, <1>4 DEF Release
  <2> QED BY <1>1, <1>4, <2>1 DEF PoolTypes, States, Waiters
<1> QED BY <1>3, <1>4

\* The wake-up of all waiters keeps its type.
LEMMA NotifyShareTypes ==
  ASSUME PoolTypes, NotifyShare
  PROVE  share' \in [Reads -> BOOLEAN]
BY DEF PoolTypes, NotifyShare

\* Forgetting the parts of a read keeps the types of its counters.
LEMMA ForgetTypes ==
  ASSUME PoolTypes, NEW r \in Reads, ForgetParts(r)
  PROVE  /\ taken' \in [Reads -> Int] /\ out' \in [Reads -> Int] /\ recv' \in [Reads -> Int]
         /\ inhand' \in [Reads -> BOOLEAN] /\ fetched' \in SUBSET (Reads \X Int)
         /\ cln' \in [Reads -> {"await", "busy", "permit", "held"}]
<1>1. taken' \in [Reads -> Int] /\ out' \in [Reads -> Int] /\ recv' \in [Reads -> Int]
  BY DEF PoolTypes, ForgetParts
<1>2. inhand' \in [Reads -> BOOLEAN]
  BY DEF PoolTypes, ForgetParts
<1>3. fetched' \in SUBSET (Reads \X Int)
  BY DEF PoolTypes, ForgetParts
<1>4. cln' \in [Reads -> {"await", "busy", "permit", "held"}]
  BY DEF PoolTypes, ForgetParts
<1> QED BY <1>1, <1>2, <1>3, <1>4

\* A waiter that leaves the queue leaves a queue.
LEMMA LeaveQueueTypes ==
  ASSUME PoolTypes, NEW r \in Reads, LeaveQueue(r)
  PROVE  queue' \in Seq(Reads)
<1>1. PICK i \in 1..Len(queue) :
        queue' = [j \in 1..Len(queue) - 1 |-> queue[IF j < i THEN j ELSE j + 1]]
  BY DEF LeaveQueue
<1>2. Len(queue) \in Nat /\ \A j \in 1..Len(queue) : queue[j] \in Reads
  BY DEF PoolTypes
<1>3. Len(queue) - 1 \in Nat
  BY <1>2
<1>4. \A j \in 1..Len(queue) - 1 : queue[IF j < i THEN j ELSE j + 1] \in Reads
  BY <1>2
<1>5. queue' \in [1..Len(queue) - 1 -> Reads]
  BY <1>1, <1>4
<1> QED BY <1>3, <1>5

\* What acquire() does after it looked at its share: it has a permit, joins the
\* queue, or waits.
LEMMA CheckOutcomes ==
  ASSUME NEW r \in Reads, Check(r)
  PROVE  \/ /\ free > 0 /\ free' = free - 1 /\ queue' = queue
            /\ acq' = [acq EXCEPT ![r] = "granted"]
         \/ /\ free' = free /\ queue' = Append(queue, r)
            /\ acq' = [acq EXCEPT ![r] = "queue"]
         \/ /\ held[r] >= fair_share /\ free' = free /\ queue' = queue
            /\ acq' = [acq EXCEPT ![r] = "wait"]
BY DEF Check

\* Every step keeps the types.
LEMMA TypesStep ==
  ASSUME PoolTypes, [Next]_vars
  PROVE  PoolTypes'
<1>1. CASE UNCHANGED vars \/ Finished
  BY <1>1 DEF PoolTypes, vars, Finished
<1>2. ASSUME NEW r \in Reads, ReaderStep(r), UNCHANGED cfg PROVE PoolTypes'
  <2>1. CASE Start(r)
    BY <1>2, <2>1, NotifyShareTypes DEF PoolTypes, Start
  <2>2. CASE Begin(r)
    <3>1. own' \in [Reads -> Waiters]
      <4>1. own' = [own EXCEPT ![r] = Enable(own[r])] /\ own \in [Reads -> Waiters]
        BY <2>2 DEF PoolTypes, Begin
      <4> QED BY <4>1, WaiterTypes
    <3>2. share' \in [Reads -> BOOLEAN]
      BY <2>2 DEF PoolTypes, Begin
    <3> QED BY <1>2, <2>2, <3>1, <3>2 DEF PoolTypes, Begin, States, Waiters
  <2>3. CASE Check(r)
    <3>1. own' \in [Reads -> Waiters]
      <4>1. own' = own \/ own' = [own EXCEPT ![r] = DropWaiter(own[r])]
        BY <2>3 DEF Check
      <4>2. own \in [Reads -> Waiters]
        BY DEF PoolTypes
      <4> QED BY <4>1, <4>2, WaiterTypes
    <3>2. share' \in [Reads -> BOOLEAN]
      BY <2>3 DEF PoolTypes, Check
    <3>3. free' \in Nat /\ queue' \in Seq(Reads)
      <4>1. \/ free > 0 /\ free' = free - 1
            \/ free' = free
        BY <2>3 DEF Check
      <4>2. free' \in Nat
        BY <4>1 DEF PoolTypes
      <4>3. queue' = queue \/ queue' = Append(queue, r)
        BY <2>3 DEF Check
      <4>4. Append(queue, r) \in Seq(Reads) /\ queue \in Seq(Reads)
        BY DEF PoolTypes
      <4>5. queue' \in Seq(Reads)
        BY <4>3, <4>4
      <4> QED BY <4>2, <4>5
    <3>4. acq' \in [Reads -> States]
      <4>1. \E v \in States : acq' = [acq EXCEPT ![r] = v]
        BY <2>3, CheckOutcomes DEF States
      <4> QED BY <4>1 DEF PoolTypes
    <3> QED BY <1>2, <2>3, <3>1, <3>2, <3>3, <3>4 DEF PoolTypes, Check
  <2>4. CASE Wake(r)
    <3>1. own' \in [Reads -> Waiters]
      <4>1. \/ own' = [own EXCEPT ![r] = DropWaiter(own[r])]
            \/ own' = [own EXCEPT ![r] = IF own[r] = "consumed+token" THEN "token" ELSE "empty"]
        BY <2>4 DEF Wake
      <4>2. own \in [Reads -> Waiters] /\ "token" \in Waiters /\ "empty" \in Waiters
        BY DEF PoolTypes, Waiters
      <4> QED BY <4>1, <4>2, WaiterTypes
    <3>2. share' \in [Reads -> BOOLEAN]
      BY <2>4 DEF PoolTypes, Wake
    <3> QED BY <1>2, <2>4, <3>1, <3>2 DEF PoolTypes, Wake, States, Waiters
  <2>5. CASE Take(r)
    <3>1. IsFiniteSet(live')
      BY <2>5, FS_AddElement DEF PoolTypes, Take
    <3>2. live' \in SUBSET (Reads \X Int)
      BY <2>5 DEF PoolTypes, Take
    <3>3. taken' \in [Reads -> Int] /\ held' \in [Reads -> Int]
      BY <2>5 DEF PoolTypes, Take
    <3> QED BY <1>2, <2>5, <3>1, <3>2, <3>3 DEF PoolTypes, Take, States, Waiters
  <2>6. CASE Fetch(r)
    <3>1. fetched' \in SUBSET (Reads \X Int)
      BY <2>6 DEF PoolTypes, Fetch
    <3> QED BY <1>2, <2>6, <3>1 DEF PoolTypes, Fetch
  <2>7. CASE Yield(r)
    <3>1. inhand' \in [Reads -> BOOLEAN]
      BY <2>7 DEF PoolTypes, Yield
    <3> QED BY <1>2, <2>7, <3>1 DEF PoolTypes, Yield
  <2>8. CASE Send(r)
    <3>1. inhand' \in [Reads -> BOOLEAN]
      BY <2>8 DEF PoolTypes, Send
    <3> QED BY <1>2, <2>8, <3>1 DEF PoolTypes, Send
  <2>9. CASE ReaderEnd(r)
    BY <1>2, <2>9, NotifyShareTypes DEF PoolTypes, ReaderEnd
  <2> QED BY <1>2, <2>1, <2>2, <2>3, <2>4, <2>5, <2>6, <2>7, <2>8, <2>9 DEF ReaderStep
<1>3. ASSUME NEW r \in Reads, CleanerStep(r), UNCHANGED cfg PROVE PoolTypes'
  <2>1. CASE CleanerRecv(r)
    <3>1. recv' \in [Reads -> Int]
      BY <2>1 DEF PoolTypes, CleanerRecv
    <3>2. cln' \in [Reads -> {"await", "busy", "permit", "held"}]
      BY <2>1 DEF PoolTypes, CleanerRecv
    <3> QED BY <1>3, <2>1, <3>1, <3>2 DEF PoolTypes, CleanerRecv
  <2>2. CASE DropPermit(r)
    <3>1. IsFiniteSet(live') /\ live' \in SUBSET (Reads \X Int)
      BY <2>2, FS_RemoveElement DEF PoolTypes, DropPermit
    <3>2. /\ free' \in Nat /\ queue' \in Seq(Reads)
          /\ acq' \in [Reads -> States]
      BY <2>2, ReleaseTypes DEF DropPermit
    <3> QED BY <1>3, <2>2, <3>1, <3>2 DEF PoolTypes, DropPermit
  <2>3. CASE DropHeld(r)
    <3>1. held' \in [Reads -> Int]
      BY <2>3 DEF PoolTypes, DropHeld
    <3>2. cln' \in [Reads -> {"await", "busy", "permit", "held"}]
      BY <2>3 DEF PoolTypes, DropHeld
    <3> QED BY <1>3, <2>3, <3>1, <3>2 DEF PoolTypes, DropHeld
  <2>4. CASE DropNotify(r)
    <3>1. own' \in [Reads -> Waiters]
      <4>1. own' = [own EXCEPT ![r] = NotifyOne(own[r])] /\ own \in [Reads -> Waiters]
        BY <2>4 DEF PoolTypes, DropNotify
      <4> QED BY <4>1, WaiterTypes
    <3> QED BY <1>3, <2>4, <3>1 DEF PoolTypes, DropNotify
  <2>5. CASE CleanerEnd(r)
    BY <1>3, <2>5, ForgetTypes DEF PoolTypes, CleanerEnd, States, Waiters
  <2> QED BY <1>3, <2>1, <2>2, <2>3, <2>4, <2>5 DEF CleanerStep
<1>4. ASSUME NEW r \in Reads, CancelStep(r), UNCHANGED cfg PROVE PoolTypes'
  <2>1. CASE CancelSlot(r)
    <3>1. IsFiniteSet(live') /\ live' \in SUBSET (Reads \X Int)
      <4>1. PICK p \in 1..Parts(r) : live' = live \ {<<r, p>>}
        BY <2>1 DEF CancelSlot
      <4> QED BY <4>1, FS_RemoveElement DEF PoolTypes
    <3>2. /\ free' \in Nat /\ queue' \in Seq(Reads)
          /\ acq' \in [Reads -> States]
      BY <2>1, ReleaseTypes DEF CancelSlot
    <3>3. held' \in [Reads -> Int]
      BY <2>1 DEF PoolTypes, CancelSlot
    <3> QED BY <1>4, <2>1, <3>1, <3>2, <3>3 DEF PoolTypes, CancelSlot
  <2>2. CASE CancelAcquire(r)
    <3>1. /\ free' \in Nat /\ queue' \in Seq(Reads)
          /\ acq' \in [Reads -> States]
      <4>1. CASE Release([acq EXCEPT ![r] = "idle"])
        BY <4>1, ReleaseTypes
      <4>2. CASE LeaveQueue(r) /\ acq' = [acq EXCEPT ![r] = "idle"] /\ UNCHANGED free
        BY <4>2, LeaveQueueTypes DEF PoolTypes, States, Waiters
      <4>3. CASE UNCHANGED queue /\ acq' = [acq EXCEPT ![r] = "idle"] /\ UNCHANGED free
        BY <4>3 DEF PoolTypes, States, Waiters
      <4> QED BY <2>2, <4>1, <4>2, <4>3 DEF CancelAcquire
    <3>2. share' \in [Reads -> BOOLEAN]
      BY <2>2 DEF PoolTypes, CancelAcquire
    <3> QED BY <1>4, <2>2, <3>1, <3>2 DEF PoolTypes, CancelAcquire, States, Waiters
  <2>3. CASE CancelReader(r)
    BY <1>4, <2>3, NotifyShareTypes DEF PoolTypes, CancelReader
  <2>4. CASE CancelEnd(r)
    BY <1>4, <2>4 DEF PoolTypes, CancelEnd, States, Waiters
  <2> QED BY <1>4, <2>1, <2>2, <2>3, <2>4 DEF CancelStep
<1>5. ASSUME NEW r \in Reads, Cancel(r), UNCHANGED cfg PROVE PoolTypes'
  BY <1>5, ForgetTypes DEF PoolTypes, Cancel
<1> QED
  BY <1>1, <1>2, <1>3, <1>4, <1>5 DEF Next, ReaderMoves, CleanerMoves, CancelMoves

-----------------------------------------------------------------------------
(* The semaphore.                                                          *)

\* A permit that is granted, and one that is no longer, count once.
LEMMA GrantedCount ==
  ASSUME NEW a \in [Reads -> States], NEW r \in Reads, NEW v \in States
  PROVE  LET b == [a EXCEPT ![r] = v]
         IN  /\ Cardinality(Granted(a)) \in Nat /\ Cardinality(Granted(b)) \in Nat
             /\ (a[r] = "granted" <=> v = "granted") =>
                   Cardinality(Granted(b)) = Cardinality(Granted(a))
             /\ a[r] # "granted" /\ v = "granted" =>
                   Cardinality(Granted(b)) = Cardinality(Granted(a)) + 1
             /\ a[r] = "granted" /\ v # "granted" =>
                   Cardinality(Granted(b)) = Cardinality(Granted(a)) - 1
<1> DEFINE b == [a EXCEPT ![r] = v]
<1>1. IsFiniteSet(Granted(a)) /\ IsFiniteSet(Granted(b))
  BY PoolConstants, FS_Subset DEF Granted
<1>2. Cardinality(Granted(a)) \in Nat /\ Cardinality(Granted(b)) \in Nat
  BY <1>1, FS_CardinalityType
<1>3. CASE (a[r] = "granted" <=> v = "granted")
  <2>1. Granted(b) = Granted(a)
    BY <1>3 DEF Granted
  <2> QED BY <1>2, <1>3, <2>1
<1>4. CASE a[r] # "granted" /\ v = "granted"
  <2>1. Granted(b) = Granted(a) \cup {r} /\ r \notin Granted(a)
    BY <1>4 DEF Granted
  <2>2. Cardinality(Granted(b)) = Cardinality(Granted(a)) + 1
    BY <1>1, <2>1, FS_AddElement
  <2> QED BY <1>2, <1>4, <2>2
<1>5. CASE a[r] = "granted" /\ v # "granted"
  <2>1. Granted(b) = Granted(a) \ {r} /\ r \in Granted(a)
    BY <1>5 DEF Granted
  <2>2. Cardinality(Granted(b)) = Cardinality(Granted(a)) - 1
    BY <1>1, <2>1, FS_RemoveElement
  <2> QED BY <1>2, <1>5, <2>2
<1> QED BY <1>3, <1>4, <1>5

\* A released permit is free or granted to the waiter at the head, which leaves the
\* queue; nobody else notices.
LEMMA ReleaseEffect ==
  ASSUME PoolTypes, NEW a \in [Reads -> States], Release(a),
         \A i \in 1..Len(queue) : a[queue[i]] = "queue",
         \A i, j \in 1..Len(queue) : queue[i] = queue[j] => i = j,
         \A x \in Reads : a[x] = "queue" => InQueue(x)
  PROVE  /\ free' + Cardinality(Granted(acq')) = free + Cardinality(Granted(a)) + 1
         /\ QueueInv'
         /\ \A x \in Reads : acq'[x] = a[x] \/ (a[x] = "queue" /\ acq'[x] = "granted")
<1>1. CASE queue = <<>>
  <2>1. free' = free + 1 /\ acq' = a /\ queue' = queue
    BY <1>1 DEF Release
  <2>2. Cardinality(Granted(a)) \in Nat
    <3>1. IsFiniteSet(Granted(a))
      BY PoolConstants, FS_Subset DEF Granted
    <3> QED BY <3>1, FS_CardinalityType
  <2>3. QueueInv'
    BY <2>1 DEF QueueInv, InQueue
  <2> QED BY <2>1, <2>2, <2>3 DEF PoolTypes
<1>2. CASE queue # <<>>
  <2> DEFINE h == Head(queue)
  <2>1. free' = free /\ queue' = Tail(queue) /\ acq' = [a EXCEPT ![h] = "granted"]
    BY <1>2 DEF Release
  <2>2. /\ Len(queue) \in Nat /\ 1 \in 1..Len(queue) /\ h = queue[1] /\ h \in Reads
        /\ Len(queue') = Len(queue) - 1
        /\ \A i \in 1..Len(queue') : queue'[i] = queue[i + 1] /\ i + 1 \in 1..Len(queue)
        /\ \A i \in 1..Len(queue) : queue[i] \in Reads
    BY <1>2, <2>1 DEF PoolTypes
  <2>3. a[h] = "queue"
    BY <2>2
  <2> HIDE DEF h
  <2>4. Cardinality(Granted(acq')) = Cardinality(Granted(a)) + 1
        /\ Cardinality(Granted(a)) \in Nat
    BY <2>1, <2>2, <2>3, GrantedCount DEF States
  <2>5. QueueInv'
    <3>1. ASSUME NEW i \in 1..Len(queue') PROVE acq'[queue'[i]] = "queue"
      <4>1. queue'[i] = queue[i + 1] /\ i + 1 \in 1..Len(queue) /\ i + 1 # 1
        BY <2>2, <3>1
      <4>2. queue[i + 1] # h /\ queue[i + 1] \in Reads
        BY <2>2, <4>1
      <4> QED BY <2>1, <4>1, <4>2
    <3>2. ASSUME NEW i \in 1..Len(queue'), NEW j \in 1..Len(queue'), queue'[i] = queue'[j]
          PROVE  i = j
      <4>1. i + 1 = j + 1
        BY <2>2, <3>2
      <4> QED BY <2>2, <4>1
    <3>3. ASSUME NEW x \in Reads, acq'[x] = "queue" PROVE InQueue(x)'
      <4>1. x # h /\ a[x] = "queue"
        BY <2>1, <2>2, <3>3
      <4>2. PICK i \in 1..Len(queue) : queue[i] = x
        BY <4>1 DEF InQueue
      <4>3. i # 1
        BY <2>2, <4>1, <4>2
      <4>4. i - 1 \in 1..Len(queue') /\ queue'[i - 1] = queue[i]
        BY <2>2, <4>3
      <4> QED BY <4>2, <4>4 DEF InQueue
    <3> QED BY <3>1, <3>2, <3>3 DEF QueueInv
  <2>6. \A x \in Reads : acq'[x] = a[x] \/ (a[x] = "queue" /\ acq'[x] = "granted")
    BY <2>1, <2>2, <2>3
  <2> QED BY <2>1, <2>4, <2>5, <2>6 DEF PoolTypes
<1> QED BY <1>1, <1>2

\* A read that is not waiting in the queue is not in it.
LEMMA NotQueued ==
  ASSUME PoolTypes, QueueInv, NEW r \in Reads, acq[r] # "queue"
  PROVE  \A i \in 1..Len(queue) : queue[i] \in Reads /\ queue[i] # r
<1>1. queue \in Seq(Reads)
  BY DEF PoolTypes
<1>2. \A i \in 1..Len(queue) : queue[i] \in Reads
  BY <1>1
<1> QED BY <1>2 DEF QueueInv

\* A permit returned by a read that never saw it finds the queue as it was.
LEMMA ReturnedPermit ==
  ASSUME PoolTypes, QueueInv, NEW r \in Reads, acq[r] = "granted",
         NEW a, a = [acq EXCEPT ![r] = "idle"]
  PROVE  /\ a \in [Reads -> States] /\ \A x \in Reads \ {r} : a[x] = acq[x]
         /\ \A i \in 1..Len(queue) : a[queue[i]] = "queue"
         /\ \A x \in Reads : a[x] = "queue" => InQueue(x)
<1>1. a \in [Reads -> States] /\ \A x \in Reads \ {r} : a[x] = acq[x]
  BY DEF PoolTypes, States
<1>2. \A i \in 1..Len(queue) : queue[i] \in Reads /\ queue[i] # r
  BY NotQueued
<1>3. a[r] = "idle"
  BY DEF PoolTypes
<1> QED BY <1>1, <1>2, <1>3 DEF QueueInv

\* A queue without the waiter that left it.
LEMMA LeaveQueueEffect ==
  ASSUME PoolTypes, QueueInv, NEW r \in Reads, LeaveQueue(r),
         acq' = [acq EXCEPT ![r] = "idle"]
  PROVE  QueueInv'
<1>1. PICK i \in 1..Len(queue) :
        /\ queue[i] = r
        /\ queue' = [j \in 1..Len(queue) - 1 |-> queue[IF j < i THEN j ELSE j + 1]]
  BY DEF LeaveQueue
<1>2. Len(queue) \in Nat /\ Len(queue) - 1 \in Nat
      /\ \A j \in 1..Len(queue) : queue[j] \in Reads
  <2>1. queue \in Seq(Reads)
    BY DEF PoolTypes
  <2>2. Len(queue) \in Nat /\ \A j \in 1..Len(queue) : queue[j] \in Reads
    BY <2>1
  <2>3. Len(queue) >= 1
    BY <1>1, <2>2
  <2> QED BY <2>2, <2>3
<1>3. Len(queue') = Len(queue) - 1
  BY <1>1, <1>2
<1> DEFINE k(j) == IF j < i THEN j ELSE j + 1
<1>4. ASSUME NEW j \in 1..Len(queue')
      PROVE  queue'[j] = queue[k(j)] /\ k(j) \in 1..Len(queue) /\ k(j) # i
  BY <1>1, <1>2, <1>3, <1>4
<1>5. ASSUME NEW j \in 1..Len(queue') PROVE acq'[queue'[j]] = "queue"
  <2>1. queue[k(j)] # r /\ queue[k(j)] \in Reads /\ acq[queue[k(j)]] = "queue"
    BY <1>1, <1>2, <1>4 DEF QueueInv
  <2> QED BY <1>4, <2>1 DEF PoolTypes
<1>6. ASSUME NEW j \in 1..Len(queue'), NEW m \in 1..Len(queue'), queue'[j] = queue'[m]
      PROVE  j = m
  <2>1. queue[k(j)] = queue[k(m)] /\ k(j) \in 1..Len(queue) /\ k(m) \in 1..Len(queue)
    BY <1>4, <1>6
  <2> HIDE DEF k
  <2>2. k(j) = k(m)
    BY <2>1 DEF QueueInv
  <2> QED BY <1>2, <1>3, <2>2 DEF k
<1>7. ASSUME NEW x \in Reads, acq'[x] = "queue" PROVE InQueue(x)'
  <2>1. x # r /\ acq[x] = "queue"
    BY <1>7 DEF PoolTypes
  <2>2. PICK m \in 1..Len(queue) : queue[m] = x
    BY <2>1 DEF QueueInv, InQueue
  <2>3. m # i
    BY <1>1, <2>1, <2>2
  <2> DEFINE j == IF m < i THEN m ELSE m - 1
  <2>4. j \in 1..Len(queue') /\ k(j) = m
    BY <1>2, <1>3, <2>3
  <2>5. queue'[j] = x
    BY <1>4, <2>2, <2>4
  <2> QED BY <2>4, <2>5 DEF InQueue
<1> QED BY <1>5, <1>6, <1>7 DEF QueueInv

\* The queue keeps to the reads that wait in it when one that is not in it moves.
LEMMA QueueKept ==
  ASSUME PoolTypes, QueueInv, NEW r \in Reads, NEW v, acq[r] # "queue", v # "queue",
         acq' = [acq EXCEPT ![r] = v], queue' = queue
  PROVE  QueueInv'
<1>1. \A i \in 1..Len(queue) : queue[i] \in Reads /\ queue[i] # r
  BY NotQueued
<1>2. \A x \in Reads : acq'[x] = "queue" => acq[x] = "queue"
  BY DEF PoolTypes
<1>3. \A x \in Reads \ {r} : acq'[x] = acq[x]
  BY DEF PoolTypes
<1>4. \A i \in 1..Len(queue) : acq'[queue[i]] = "queue"
  BY <1>1, <1>3 DEF QueueInv
<1>5. \A x \in Reads : acq'[x] = "queue" => InQueue(x)
  BY <1>2 DEF QueueInv
<1> QED BY <1>4, <1>5 DEF QueueInv, InQueue

\* Every step keeps the queue.
LEMMA QueueStep ==
  ASSUME PoolTypes, QueueInv, [Next]_vars
  PROVE  QueueInv'
<1>1. CASE acq' = acq /\ queue' = queue
  BY <1>1 DEF QueueInv, InQueue
<1>2. ASSUME NEW r \in Reads, Begin(r) \/ Wake(r) \/ Take(r) PROVE QueueInv'
  <2>1. /\ acq[r] # "queue" /\ queue' = queue
        /\ \E v \in States \ {"queue"} : acq' = [acq EXCEPT ![r] = v]
    BY <1>2 DEF Begin, Wake, Take, States
  <2> QED BY <2>1, QueueKept
<1>3. ASSUME NEW r \in Reads, Check(r) PROVE QueueInv'
  <2>1. acq[r] = "check"
    BY <1>3 DEF Check
  <2>2. CASE queue' = queue /\ \E v \in States \ {"queue"} : acq' = [acq EXCEPT ![r] = v]
    BY <2>1, <2>2, QueueKept
  <2>3. CASE queue' = Append(queue, r) /\ acq' = [acq EXCEPT ![r] = "queue"]
    <3>1. /\ Len(queue) \in Nat /\ Len(queue') = Len(queue) + 1 /\ queue'[Len(queue) + 1] = r
          /\ \A i \in 1..Len(queue) : queue'[i] = queue[i] /\ queue[i] \in Reads
      BY <2>3 DEF PoolTypes
    <3>2. \A i \in 1..Len(queue) : queue[i] # r
      BY <2>1 DEF QueueInv
    <3>3. ASSUME NEW i \in 1..Len(queue') PROVE acq'[queue'[i]] = "queue"
      <4>1. i \in 1..Len(queue) \/ i = Len(queue) + 1
        BY <3>1
      <4> QED BY <2>3, <3>1, <3>2, <4>1 DEF PoolTypes, QueueInv
    <3>4. ASSUME NEW i \in 1..Len(queue'), NEW j \in 1..Len(queue'), queue'[i] = queue'[j]
          PROVE  i = j
      <4>1. /\ i \in 1..Len(queue) \/ i = Len(queue) + 1
            /\ j \in 1..Len(queue) \/ j = Len(queue) + 1
        BY <3>1
      <4> QED BY <3>1, <3>2, <3>4, <4>1 DEF QueueInv
    <3>5. ASSUME NEW x \in Reads, acq'[x] = "queue" PROVE InQueue(x)'
      <4>1. CASE x = r
        <5>1. Len(queue) + 1 \in 1..Len(queue') /\ queue'[Len(queue) + 1] = x
          BY <3>1, <4>1
        <5> QED BY <5>1 DEF InQueue
      <4>2. CASE x # r
        <5>1. acq[x] = "queue"
          BY <2>3, <3>5, <4>2 DEF PoolTypes
        <5>2. PICK i \in 1..Len(queue) : queue[i] = x
          BY <5>1 DEF QueueInv, InQueue
        <5>3. i \in 1..Len(queue') /\ queue'[i] = x
          BY <3>1, <5>2
        <5> QED BY <5>3 DEF InQueue
      <4> QED BY <4>1, <4>2
    <3> QED BY <3>3, <3>4, <3>5 DEF QueueInv
  <2> QED BY <1>3, <2>2, <2>3, CheckOutcomes DEF States
<1>4. CASE Release(acq)
  BY <1>4, ReleaseEffect DEF PoolTypes, QueueInv, States
<1>5. ASSUME NEW r \in Reads, CancelAcquire(r) PROVE QueueInv'
  <2>1. CASE acq[r] = "granted" /\ Release([acq EXCEPT ![r] = "idle"])
    <3> DEFINE a == [acq EXCEPT ![r] = "idle"]
    <3>1. a \in [Reads -> States] /\ (\A i \in 1..Len(queue) : a[queue[i]] = "queue")
          /\ \A x \in Reads : a[x] = "queue" => InQueue(x)
      BY <2>1, ReturnedPermit
    <3>2. Release(a)
      BY <2>1
    <3> HIDE DEF a
    <3> QED BY <3>1, <3>2, ReleaseEffect DEF QueueInv
  <2>2. CASE LeaveQueue(r) /\ acq' = [acq EXCEPT ![r] = "idle"]
    BY <2>2, LeaveQueueEffect
  <2>3. CASE acq[r] \in {"check", "wait"} /\ queue' = queue /\ acq' = [acq EXCEPT ![r] = "idle"]
    BY <2>3, QueueKept
  <2> QED BY <1>5, <2>1, <2>2, <2>3 DEF CancelAcquire
<1>6. ASSUME NEW r \in Reads, ReaderStep(r) PROVE QueueInv'
  <2>1. CASE Start(r) \/ Fetch(r) \/ Yield(r) \/ Send(r) \/ ReaderEnd(r)
    BY <1>1, <2>1 DEF Start, Fetch, Yield, Send, ReaderEnd
  <2> QED BY <1>2, <1>3, <1>6, <2>1 DEF ReaderStep
<1>7. ASSUME NEW r \in Reads, CleanerStep(r) PROVE QueueInv'
  <2>1. CASE CleanerRecv(r) \/ DropHeld(r) \/ DropNotify(r) \/ CleanerEnd(r)
    BY <1>1, <2>1 DEF CleanerRecv, DropHeld, DropNotify, CleanerEnd
  <2> QED BY <1>4, <1>7, <2>1 DEF CleanerStep, DropPermit
<1>8. ASSUME NEW r \in Reads, CancelStep(r) PROVE QueueInv'
  <2>1. CASE CancelReader(r) \/ CancelEnd(r)
    BY <1>1, <2>1 DEF CancelReader, CancelEnd
  <2> QED BY <1>4, <1>5, <1>8, <2>1 DEF CancelStep, CancelSlot
<1>9. ASSUME NEW r \in Reads, Cancel(r) PROVE QueueInv'
  BY <1>1, <1>9 DEF Cancel
<1>10. CASE UNCHANGED vars \/ Finished
  BY <1>1, <1>10 DEF vars, Finished
<1> QED
  BY <1>6, <1>7, <1>8, <1>9, <1>10 DEF Next, ReaderMoves, CleanerMoves, CancelMoves

-----------------------------------------------------------------------------
(* The reads.                                                              *)

\* A read that a step does not touch, except to grant it the permit it queued for.
LEMMA Untouched ==
  ASSUME PoolTypes, NEW x \in Reads, ReadInv(x), cfg' = cfg,
         st'[x] = st[x], taken'[x] = taken[x], out'[x] = out[x], recv'[x] = recv[x],
         held'[x] = held[x], inhand'[x] = inhand[x], cln'[x] = cln[x],
         acq'[x] = acq[x] \/ (acq[x] = "queue" /\ acq'[x] = "granted"),
         \A p \in Int : <<x, p>> \in live' <=> <<x, p>> \in live,
         \A p \in Int : <<x, p>> \in fetched' <=> <<x, p>> \in fetched
  PROVE  ReadInv(x)'
<1>1. Parts(x)' = Parts(x)
  BY DEF Parts
<1>2. CASE st[x] = "open"
  <2>1. CountsInv(x)'
    BY <1>1, <1>2 DEF ReadInv, CountsInv
  <2>2. SlotsInv(x)'
    BY <1>1, <1>2 DEF ReadInv, SlotsInv
  <2> QED BY <1>2, <2>1, <2>2 DEF ReadInv
<1>3. CASE st[x] # "open"
  <2>1. PartsOf(x)' = PartsOf(x)
    BY <1>1 DEF PartsOf
  <2>2. ClosedInv(x)'
    BY <1>1, <1>3, <2>1 DEF ReadInv, ClosedInv
  <2> QED BY <1>3, <2>2 DEF ReadInv
<1> QED BY <1>2, <1>3

\* The part of the state that belongs to the reads other than r is left alone.
OthersKept(r) ==
  \A x \in Reads \ {r} :
    /\ st'[x] = st[x] /\ taken'[x] = taken[x] /\ out'[x] = out[x] /\ recv'[x] = recv[x]
    /\ held'[x] = held[x] /\ inhand'[x] = inhand[x] /\ cln'[x] = cln[x]
    /\ acq'[x] = acq[x] \/ (acq[x] = "queue" /\ acq'[x] = "granted")
    /\ \A p \in Int : <<x, p>> \in live' <=> <<x, p>> \in live
    /\ \A p \in Int : <<x, p>> \in fetched' <=> <<x, p>> \in fetched

\* A released permit changes no read but the one that queued for it.
LEMMA ReleaseOthers ==
  ASSUME PoolTypes, QueueInv, Release(acq)
  PROVE  \A x \in Reads : acq'[x] = acq[x] \/ (acq[x] = "queue" /\ acq'[x] = "granted")
BY ReleaseEffect DEF PoolTypes, QueueInv, States

\* A read at its start.
LEMMA StartRead ==
  ASSUME PoolTypes, NEW r \in Reads, ReadInv(r), Start(r), UNCHANGED cfg
  PROVE  ReadInv(r)' /\ OthersKept(r)
<1>1. st[r] = "new" /\ st'[r] = "open" /\ Parts(r)' = Parts(r) /\ Parts(r) \in Nat \ {0}
  BY ConfigTypes DEF Start, PoolTypes, Parts
<1>2. ClosedInv(r)
  BY <1>1 DEF ReadInv
<1>3. PartsOf(r) = {}
  BY <1>1, <1>2 DEF ClosedInv, PartsOf
<1>4. held[r] = 0
  BY <1>2, <1>3, FS_EmptySet DEF ClosedInv
<1>5. CountsInv(r)'
  BY <1>1, <1>2 DEF Start, ClosedInv, CountsInv
<1>6. SlotsInv(r)'
  BY <1>1, <1>2, <1>4 DEF Start, ClosedInv, SlotsInv
<1>7. OthersKept(r)
  BY DEF OthersKept, Start, PoolTypes
<1> QED BY <1>1, <1>5, <1>6, <1>7 DEF ReadInv

\* A step of the reader task.
LEMMA ReaderRead ==
  ASSUME PoolTypes, NEW r \in Reads, ReadInv(r), ReaderStep(r), ~Start(r), UNCHANGED cfg
  PROVE  ReadInv(r)' /\ OthersKept(r)
<1>1. /\ st[r] = "open" /\ st' = st /\ cln' = cln /\ recv' = recv
      /\ Parts(r)' = Parts(r) /\ Parts(r) \in Nat \ {0}
  <2>1. st[r] = "open" /\ st' = st /\ cln' = cln /\ recv' = recv
    BY DEF ReaderStep, Begin, Check, Wake, Take, Fetch, Yield, Send, ReaderEnd, Polls
  <2> QED BY <2>1, ConfigTypes DEF PoolTypes, Parts
<1>2. CountsInv(r) /\ SlotsInv(r)
  BY <1>1 DEF ReadInv
<1>3. SUFFICES CountsInv(r)' /\ SlotsInv(r)' /\ OthersKept(r)
  BY <1>1 DEF ReadInv
<1>4. CASE Begin(r)
  <2>1. CountsInv(r)'
    BY <1>1, <1>2, <1>4 DEF Begin, MoreParts, CountsInv, PoolTypes
  <2>2. SlotsInv(r)'
    BY <1>1, <1>2, <1>4 DEF Begin, SlotsInv
  <2> QED BY <1>4, <2>1, <2>2 DEF Begin, OthersKept, PoolTypes
<1>5. CASE Check(r) \/ Wake(r)
  <2>1. /\ acq[r] # "idle" /\ \A x \in Reads \ {r} : acq'[x] = acq[x]
        /\ taken' = taken /\ live' = live /\ held' = held /\ fetched' = fetched
        /\ out' = out /\ inhand' = inhand
    BY <1>5 DEF Check, Wake, PoolTypes
  <2>2. CountsInv(r)'
    BY <1>1, <1>2, <2>1 DEF CountsInv
  <2>3. SlotsInv(r)'
    BY <1>1, <1>2, <2>1 DEF SlotsInv
  <2> QED BY <1>1, <2>1, <2>2, <2>3 DEF OthersKept
<1>6. CASE Take(r)
  <2>1. /\ taken'[r] = taken[r] + 1 /\ held'[r] = held[r] + 1 /\ acq'[r] = "idle"
        /\ taken[r] \in Int /\ held[r] \in Int /\ recv[r] \in Int /\ out[r] \in Int
        /\ acq[r] = "granted" /\ out' = out /\ inhand' = inhand /\ fetched' = fetched
        /\ live' = live \cup {<<r, taken[r] + 1>>}
    BY <1>6 DEF Take, PoolTypes
  <2>2. CountsInv(r)'
    BY <1>1, <1>2, <2>1 DEF CountsInv
  <2>3. recv[r] <= taken[r]
    BY <1>2, <2>1 DEF CountsInv
  <2>4. SlotsInv(r)'
    <3>1. held'[r] = taken'[r] - recv'[r] + (IF cln'[r] \in {"busy", "permit"} THEN 1 ELSE 0)
      BY <1>1, <1>2, <2>1 DEF SlotsInv
    <3>2. ASSUME NEW p \in Int
          PROVE  <<r, p>> \in live'
                   <=> p \in recv'[r] + (IF cln'[r] = "busy" THEN 0 ELSE 1) .. taken'[r]
      <4>1. <<r, p>> \in live' <=> <<r, p>> \in live \/ p = taken[r] + 1
        BY <2>1
      <4> QED BY <1>1, <1>2, <2>1, <2>3, <4>1 DEF SlotsInv
    <3> QED BY <3>1, <3>2 DEF SlotsInv
  <2>5. OthersKept(r)
    BY <1>6 DEF Take, OthersKept, PoolTypes
  <2> QED BY <2>2, <2>4, <2>5
<1>7. CASE Fetch(r)
  <2>1. PICK p \in out[r] + 1 .. taken[r] : fetched' = fetched \cup {<<r, p>>}
    BY <1>7 DEF Fetch
  <2>2. p \in 1..taken[r]
    BY <1>2, <2>1 DEF CountsInv, PoolTypes
  <2>3. CountsInv(r)'
    BY <1>1, <1>2, <1>7, <2>1, <2>2 DEF Fetch, CountsInv
  <2>4. SlotsInv(r)'
    BY <1>1, <1>2, <1>7 DEF Fetch, SlotsInv
  <2>5. OthersKept(r)
    BY <1>7, <2>1 DEF Fetch, OthersKept, PoolTypes
  <2> QED BY <2>3, <2>4, <2>5
<1>8. CASE Yield(r)
  <2>1. /\ out'[r] = out[r] + 1 /\ inhand'[r] = TRUE /\ inhand[r] = FALSE
        /\ out[r] \in Int /\ taken[r] \in Int /\ recv[r] \in Int
    BY <1>8 DEF Yield, Polls, PoolTypes
  <2>2. out[r] + 1 <= taken[r]
    BY <1>2, <1>8, <2>1 DEF Yield, CountsInv
  <2>3. CountsInv(r)'
    BY <1>1, <1>2, <1>8, <2>1, <2>2 DEF Yield, CountsInv
  <2>4. SlotsInv(r)'
    BY <1>1, <1>2, <1>8 DEF Yield, SlotsInv
  <2>5. OthersKept(r)
    BY <1>8 DEF Yield, OthersKept, PoolTypes
  <2> QED BY <2>3, <2>4, <2>5
<1>9. CASE Send(r)
  <2>1. inhand'[r] = FALSE /\ out[r] \in Int /\ taken[r] \in Int /\ recv[r] \in Int
    BY <1>9 DEF Send, PoolTypes
  <2>2. CountsInv(r)'
    BY <1>1, <1>2, <1>9, <2>1 DEF Send, CountsInv
  <2>3. SlotsInv(r)'
    BY <1>1, <1>2, <1>9 DEF Send, SlotsInv
  <2>4. OthersKept(r)
    BY <1>9 DEF Send, OthersKept, PoolTypes
  <2> QED BY <2>2, <2>3, <2>4
<1>10. CASE ReaderEnd(r)
  <2>1. CountsInv(r)'
    BY <1>1, <1>2, <1>10 DEF ReaderEnd, CountsInv
  <2>2. SlotsInv(r)'
    BY <1>1, <1>2, <1>10 DEF ReaderEnd, SlotsInv
  <2> QED BY <1>10, <2>1, <2>2 DEF ReaderEnd, OthersKept, PoolTypes
<1> QED BY <1>4, <1>5, <1>6, <1>7, <1>8, <1>9, <1>10 DEF ReaderStep

\* Forgetting the parts of a read leaves the other reads alone.
LEMMA ForgetOthers ==
  ASSUME PoolTypes, NEW r \in Reads, ForgetParts(r), live' = live, held' = held, acq' = acq,
         \A x \in Reads \ {r} : st'[x] = st[x]
  PROVE  OthersKept(r)
<1>1. \A x \in Reads \ {r} : /\ taken'[x] = taken[x] /\ out'[x] = out[x] /\ recv'[x] = recv[x]
                             /\ inhand'[x] = inhand[x] /\ cln'[x] = cln[x]
  BY DEF ForgetParts, PoolTypes
<1>2. \A x \in Reads \ {r} : \A p \in Int : <<x, p>> \in fetched' <=> <<x, p>> \in fetched
  BY DEF ForgetParts
<1> QED BY <1>1, <1>2 DEF OthersKept

\* A read that is over or dropped keeps the count of the slots it holds.
LEMMA ForgetRead ==
  ASSUME PoolTypes, NEW r \in Reads, st[r] = "open", ReadInv(r), ForgetParts(r), cfg' = cfg,
         live' = live, held' = held, st'[r] \in {"dropping", "done"}, cln[r] \in {"await", "busy"}
  PROVE  ReadInv(r)'
<1>1. CountsInv(r) /\ SlotsInv(r) /\ Parts(r)' = Parts(r) /\ Parts(r) \in Nat \ {0}
  BY ConfigTypes DEF ReadInv, PoolTypes, Parts
<1>2. /\ taken'[r] = 0 /\ out'[r] = 0 /\ recv'[r] = 0 /\ inhand'[r] = FALSE /\ cln'[r] = "await"
      /\ \A p \in Int : <<r, p>> \notin fetched'
  BY DEF ForgetParts, PoolTypes
<1> DEFINE lo == recv[r] + (IF cln[r] = "busy" THEN 0 ELSE 1)
<1>3. /\ lo \in Int /\ lo >= 1 /\ lo <= taken[r] + 1 /\ taken[r] \in Int /\ taken[r] <= Parts(r)
      /\ held[r] = taken[r] - lo + 1 /\ held[r] \in Int
      /\ \A p \in Int : <<r, p>> \in live <=> p \in lo..taken[r]
  <2>1. recv[r] \in Int /\ out[r] \in Int /\ taken[r] \in Int /\ held[r] \in Int
    BY DEF PoolTypes
  <2>2. /\ 0 <= recv[r] /\ recv[r] <= out[r] /\ out[r] <= taken[r] /\ taken[r] <= Parts(r)
        /\ cln[r] = "busy" => recv[r] > 0
    BY <1>1, <2>1 DEF CountsInv
  <2>3. /\ held[r] = taken[r] - lo + 1
        /\ \A p \in Int : <<r, p>> \in live <=> p \in lo..taken[r]
    BY <1>1, <2>1 DEF SlotsInv
  <2> QED BY <2>1, <2>2, <2>3
<1> HIDE DEF lo
<1>4. PartsOf(r) = lo..taken[r]
  BY <1>1, <1>3 DEF PartsOf
<1>5. held[r] = Cardinality(PartsOf(r))
  BY <1>3, <1>4, FS_Interval
<1>6. PartsOf(r)' = PartsOf(r)
  BY <1>1 DEF PartsOf
<1>7. \A p \in Int : <<r, p>> \in live => p \in 1..Parts(r)
  BY <1>1, <1>3
<1>8. ClosedInv(r)'
  BY <1>1, <1>2, <1>5, <1>6, <1>7 DEF ClosedInv
<1> QED BY <1>8 DEF ReadInv

\* A step of the cleaner.
LEMMA CleanerRead ==
  ASSUME PoolTypes, QueueInv, NEW r \in Reads, ReadInv(r), CleanerStep(r), UNCHANGED cfg
  PROVE  ReadInv(r)' /\ OthersKept(r)
<1>1. /\ st[r] = "open" /\ Parts(r)' = Parts(r) /\ Parts(r) \in Nat \ {0}
      /\ taken[r] \in Int /\ out[r] \in Int /\ recv[r] \in Int /\ held[r] \in Int
  <2>1. cln[r] # "await" => st[r] = "open"
    BY DEF ReadInv, ClosedInv
  <2>2. st[r] = "open"
    BY <2>1 DEF CleanerStep, CleanerRecv, DropPermit, DropHeld, DropNotify, CleanerEnd
  <2> QED BY <2>2, ConfigTypes DEF PoolTypes, Parts
<1>2. CountsInv(r) /\ SlotsInv(r)
  BY <1>1 DEF ReadInv
<1>3. CASE CleanerRecv(r)
  <2>1. /\ recv'[r] = recv[r] + 1 /\ cln'[r] = "busy" /\ cln[r] = "await"
        /\ recv[r] < out[r] - (IF inhand[r] THEN 1 ELSE 0)
    BY <1>3 DEF CleanerRecv, PoolTypes
  <2>2. CountsInv(r)'
    BY <1>1, <1>2, <1>3, <2>1 DEF CleanerRecv, CountsInv
  <2>3. SlotsInv(r)'
    BY <1>1, <1>2, <1>3, <2>1 DEF CleanerRecv, SlotsInv
  <2>4. OthersKept(r)
    BY <1>3 DEF CleanerRecv, OthersKept, PoolTypes
  <2> QED BY <1>1, <1>3, <2>2, <2>3, <2>4 DEF ReadInv, CleanerRecv
<1>4. CASE DropPermit(r)
  <2>1. /\ cln'[r] = "permit" /\ cln[r] = "busy" /\ live' = live \ {<<r, recv[r]>>}
        /\ taken' = taken /\ out' = out /\ recv' = recv /\ held' = held /\ inhand' = inhand
        /\ fetched' = fetched /\ st' = st
    BY <1>4 DEF DropPermit, PoolTypes
  <2>2. \A x \in Reads : acq'[x] = acq[x] \/ (acq[x] = "queue" /\ acq'[x] = "granted")
    BY <1>4, ReleaseOthers DEF DropPermit
  <2>3. CountsInv(r)'
    BY <1>1, <1>2, <2>1, <2>2 DEF CountsInv
  <2>4. SlotsInv(r)'
    BY <1>1, <1>2, <2>1 DEF SlotsInv, CountsInv
  <2>5. \A x \in Reads \ {r} : cln'[x] = cln[x]
    BY <1>4 DEF DropPermit, PoolTypes
  <2>6. OthersKept(r)
    BY <2>1, <2>2, <2>5 DEF OthersKept
  <2> QED BY <1>1, <2>1, <2>3, <2>4, <2>6 DEF ReadInv
<1>5. CASE DropHeld(r)
  <2>1. cln[r] = "permit" /\ cln'[r] = "held" /\ held'[r] = held[r] - 1
    BY <1>5 DEF DropHeld, PoolTypes
  <2>2. CountsInv(r)'
    BY <1>1, <1>2, <1>5, <2>1 DEF DropHeld, CountsInv
  <2>3. SlotsInv(r)'
    BY <1>1, <1>2, <1>5, <2>1 DEF DropHeld, SlotsInv
  <2>4. OthersKept(r)
    BY <1>5 DEF DropHeld, OthersKept, PoolTypes
  <2> QED BY <1>1, <1>5, <2>2, <2>3, <2>4 DEF ReadInv, DropHeld
<1>6. CASE DropNotify(r)
  <2>1. cln[r] = "held" /\ cln'[r] = "await"
    BY <1>6 DEF DropNotify, PoolTypes
  <2>2. CountsInv(r)'
    BY <1>1, <1>2, <1>6, <2>1 DEF DropNotify, CountsInv
  <2>3. SlotsInv(r)'
    BY <1>1, <1>2, <1>6, <2>1 DEF DropNotify, SlotsInv
  <2>4. OthersKept(r)
    BY <1>6 DEF DropNotify, OthersKept, PoolTypes
  <2> QED BY <1>1, <1>6, <2>2, <2>3, <2>4 DEF ReadInv, DropNotify
<1>7. CASE CleanerEnd(r)
  <2>1. /\ st'[r] = "done" /\ \A x \in Reads \ {r} : st'[x] = st[x]
        /\ ForgetParts(r) /\ live' = live /\ held' = held /\ acq' = acq /\ cln[r] = "await"
    BY <1>7 DEF CleanerEnd, PoolTypes
  <2> QED BY <1>1, <2>1, ForgetRead, ForgetOthers
<1> QED BY <1>3, <1>4, <1>5, <1>6, <1>7 DEF CleanerStep

\* A step of a dropped attempt.
LEMMA CancelRead ==
  ASSUME PoolTypes, QueueInv, NEW r \in Reads, ReadInv(r), CancelStep(r), UNCHANGED cfg
  PROVE  ReadInv(r)' /\ OthersKept(r)
<1>1. st[r] = "dropping" /\ ClosedInv(r) /\ Parts(r)' = Parts(r) /\ Parts(r) \in Nat \ {0}
  <2>1. st[r] = "dropping"
    BY DEF CancelStep, CancelSlot, CancelAcquire, CancelReader, CancelEnd
  <2> QED BY <2>1, ConfigTypes DEF PoolTypes, Parts, ReadInv
<1>2. CASE CancelSlot(r)
  <2>1. PICK p \in 1..Parts(r) : <<r, p>> \in live /\ live' = live \ {<<r, p>>}
    BY <1>2 DEF CancelSlot
  <2>2. /\ held'[r] = held[r] - 1 /\ held[r] \in Int
        /\ st' = st /\ taken' = taken /\ out' = out /\ recv' = recv /\ inhand' = inhand
        /\ cln' = cln /\ fetched' = fetched /\ \A x \in Reads \ {r} : held'[x] = held[x]
    BY <1>2 DEF CancelSlot, PoolTypes
  <2>3. \A x \in Reads : acq'[x] = acq[x] \/ (acq[x] = "queue" /\ acq'[x] = "granted")
    BY <1>2, ReleaseOthers DEF CancelSlot
  <2>4. PartsOf(r)' = PartsOf(r) \ {p} /\ p \in PartsOf(r)
    BY <1>1, <2>1 DEF PartsOf
  <2>5. IsFiniteSet(PartsOf(r))
    <3>1. IsFiniteSet(1..Parts(r)) /\ PartsOf(r) \subseteq 1..Parts(r)
      BY <1>1, FS_Interval DEF PartsOf
    <3> QED BY <3>1, FS_Subset
  <2>6. held'[r] = Cardinality(PartsOf(r)')
    BY <1>1, <2>2, <2>4, <2>5, FS_RemoveElement DEF ClosedInv
  <2>7. \A q \in Int : <<r, q>> \in live' => <<r, q>> \in live
    BY <2>1
  <2>8. ClosedInv(r)'
    BY <1>1, <2>2, <2>6, <2>7 DEF ClosedInv
  <2>9. OthersKept(r)
    BY <2>1, <2>2, <2>3 DEF OthersKept
  <2> QED BY <1>1, <2>2, <2>8, <2>9 DEF ReadInv
<1>3. CASE CancelAcquire(r)
  <2>1. /\ st' = st /\ taken' = taken /\ out' = out /\ recv' = recv /\ inhand' = inhand
        /\ cln' = cln /\ fetched' = fetched /\ held' = held /\ live' = live
    BY <1>3 DEF CancelAcquire
  <2>2. PartsOf(r)' = PartsOf(r)
    BY <1>1, <2>1 DEF PartsOf
  <2>3. ClosedInv(r)'
    BY <1>1, <2>1, <2>2 DEF ClosedInv
  <2>4. \A x \in Reads \ {r} : acq'[x] = acq[x] \/ (acq[x] = "queue" /\ acq'[x] = "granted")
    <3>1. CASE acq' = [acq EXCEPT ![r] = "idle"]
      BY <3>1 DEF PoolTypes
    <3>2. CASE acq[r] = "granted" /\ Release([acq EXCEPT ![r] = "idle"])
      <4> DEFINE a == [acq EXCEPT ![r] = "idle"]
      <4>1. /\ a \in [Reads -> States] /\ \A x \in Reads \ {r} : a[x] = acq[x]
            /\ \A i \in 1..Len(queue) : a[queue[i]] = "queue"
            /\ \A x \in Reads : a[x] = "queue" => InQueue(x)
        BY <3>2, ReturnedPermit
      <4>2. Release(a)
        BY <3>2
      <4> HIDE DEF a
      <4>3. \A x \in Reads : acq'[x] = a[x] \/ (a[x] = "queue" /\ acq'[x] = "granted")
        BY <4>1, <4>2, ReleaseEffect DEF QueueInv
      <4> QED BY <4>1, <4>3
    <3> QED BY <1>3, <3>1, <3>2 DEF CancelAcquire
  <2>5. OthersKept(r)
    BY <2>1, <2>4 DEF OthersKept
  <2> QED BY <1>1, <2>1, <2>3, <2>5 DEF ReadInv
<1>4. CASE CancelReader(r) \/ CancelEnd(r)
  <2>1. /\ taken' = taken /\ out' = out /\ recv' = recv /\ inhand' = inhand /\ cln' = cln
        /\ fetched' = fetched /\ held' = held /\ live' = live /\ acq' = acq
        /\ st'[r] \in {"dropping", "done"} /\ \A x \in Reads \ {r} : st'[x] = st[x]
    BY <1>1, <1>4 DEF CancelReader, CancelEnd, PoolTypes
  <2>2. PartsOf(r)' = PartsOf(r)
    BY <1>1, <2>1 DEF PartsOf
  <2>3. ClosedInv(r)'
    BY <1>1, <2>1, <2>2 DEF ClosedInv
  <2>4. OthersKept(r)
    BY <2>1 DEF OthersKept
  <2> QED BY <1>1, <2>1, <2>3, <2>4 DEF ReadInv
<1> QED BY <1>2, <1>3, <1>4 DEF CancelStep

\* The drop of an attempt.
LEMMA DropRead ==
  ASSUME PoolTypes, NEW r \in Reads, ReadInv(r), Cancel(r), UNCHANGED cfg
  PROVE  ReadInv(r)' /\ OthersKept(r)
<1>1. /\ st[r] = "open" /\ st'[r] = "dropping" /\ \A x \in Reads \ {r} : st'[x] = st[x]
      /\ ForgetParts(r) /\ live' = live /\ held' = held /\ acq' = acq
      /\ cln[r] \in {"await", "busy"}
  BY DEF Cancel, PoolTypes
<1> QED BY <1>1, ForgetRead, ForgetOthers

\* Every step keeps the invariant of every read.
LEMMA ReadsStep ==
  ASSUME PoolTypes, QueueInv, \A x \in Reads : ReadInv(x), [Next]_vars
  PROVE  \A x \in Reads : ReadInv(x)'
<1>1. ASSUME NEW r \in Reads, ReadInv(r)', OthersKept(r), cfg' = cfg
      PROVE  \A x \in Reads : ReadInv(x)'
  <2> TAKE x \in Reads
  <2>1. CASE x = r
    BY <1>1, <2>1
  <2>2. CASE x # r
    BY <1>1, <2>2, Untouched DEF OthersKept
  <2> QED BY <2>1, <2>2
<1>2. ASSUME NEW r \in Reads, ReaderStep(r), UNCHANGED cfg PROVE \A x \in Reads : ReadInv(x)'
  BY <1>1, <1>2, StartRead, ReaderRead
<1>3. ASSUME NEW r \in Reads, CleanerStep(r), UNCHANGED cfg PROVE \A x \in Reads : ReadInv(x)'
  BY <1>1, <1>3, CleanerRead
<1>4. ASSUME NEW r \in Reads, CancelStep(r), UNCHANGED cfg PROVE \A x \in Reads : ReadInv(x)'
  BY <1>1, <1>4, CancelRead
<1>5. ASSUME NEW r \in Reads, Cancel(r), UNCHANGED cfg PROVE \A x \in Reads : ReadInv(x)'
  BY <1>1, <1>5, DropRead
<1>6. CASE UNCHANGED vars \/ Finished
  BY <1>6, Untouched DEF vars, Finished
<1> QED
  BY <1>2, <1>3, <1>4, <1>5, <1>6 DEF Next, ReaderMoves, CleanerMoves, CancelMoves

-----------------------------------------------------------------------------
(* The slots of the pool.                                                  *)

\* SlotsConserved, with the granted permits named.
LEMMA SlotsEquation ==
  SlotsConserved <=> free + Cardinality(live) + Cardinality(Granted(acq)) = Size
BY DEF SlotsConserved, Granted

\* A step that moves no permit.
LEMMA NoPermitMoves ==
  ASSUME PoolTypes, SlotsConserved, cfg' = cfg, free' = free, live' = live,
         \/ acq' = acq
         \/ \E r \in Reads : \E v \in States \ {"granted"} :
              acq[r] # "granted" /\ acq' = [acq EXCEPT ![r] = v]
  PROVE  SlotsConserved'
<1>1. Cardinality(Granted(acq')) = Cardinality(Granted(acq))
  <2>1. CASE acq' = acq
    BY <2>1
  <2>2. CASE acq' # acq
    <3>1. PICK r \in Reads, v \in States \ {"granted"} :
            acq[r] # "granted" /\ acq' = [acq EXCEPT ![r] = v]
      BY <2>2
    <3>2. acq \in [Reads -> States]
      BY DEF PoolTypes, States
    <3>3. acq[r] = "granted" <=> v = "granted"
      BY <3>1
    <3>4. v \in States
      BY <3>1
    <3>5. Cardinality(Granted([acq EXCEPT ![r] = v])) = Cardinality(Granted(acq))
      BY <3>2, <3>3, <3>4, GrantedCount
    <3> QED BY <3>1, <3>5
  <2> QED BY <2>1, <2>2
<1> QED BY <1>1 DEF SlotsConserved, Granted, Size

\* A slot is dropped and its permit released.
LEMMA SlotDropped ==
  ASSUME PoolTypes, QueueInv, SlotsConserved, cfg' = cfg, NEW slot \in live,
         live' = live \ {slot}, Release(acq)
  PROVE  SlotsConserved'
<1>1. free' + Cardinality(Granted(acq')) = free + Cardinality(Granted(acq)) + 1
  BY ReleaseEffect DEF PoolTypes, QueueInv, States
<1>2. Cardinality(live') = Cardinality(live) - 1 /\ IsFiniteSet(live) /\ IsFiniteSet(live')
  BY FS_RemoveElement DEF PoolTypes
<1>3. Cardinality(live) \in Nat
  BY <1>2, FS_CardinalityType
<1>4. /\ Cardinality(Granted(acq)) \in Nat /\ Cardinality(Granted(acq')) \in Nat
      /\ free \in Nat /\ free' \in Nat
  <2>1. IsFiniteSet(Granted(acq)) /\ IsFiniteSet(Granted(acq'))
    BY PoolConstants, FS_Subset DEF Granted
  <2> QED BY <2>1, FS_CardinalityType, ReleaseTypes DEF PoolTypes
<1>5. free + Cardinality(live) + Cardinality(Granted(acq)) = Size
  BY SlotsEquation
<1>6. free' + Cardinality(live') + Cardinality(Granted(acq')) = Size
  BY <1>1, <1>2, <1>3, <1>4, <1>5
<1> QED BY <1>6 DEF SlotsConserved, Granted, Size

\* Every step keeps the slots of the pool: none is lost, none is made.
LEMMA SlotsStep ==
  ASSUME PoolTypes, QueueInv, \A x \in Reads : ReadInv(x), SlotsConserved, [Next]_vars
  PROVE  SlotsConserved'
<1>1. /\ free + Cardinality(live) + Cardinality(Granted(acq)) = Size
      /\ acq \in [Reads -> States] /\ free \in Nat /\ IsFiniteSet(live)
      /\ Cardinality(live) \in Nat /\ Cardinality(Granted(acq)) \in Nat
  <2>1. acq \in [Reads -> States] /\ IsFiniteSet(Granted(acq))
    BY PoolConstants, FS_Subset DEF PoolTypes, States, Granted
  <2> QED BY <2>1, SlotsEquation, FS_CardinalityType DEF PoolTypes
<1>2. ASSUME NEW r \in Reads, ReaderStep(r), UNCHANGED cfg PROVE SlotsConserved'
  <2>1. CASE Start(r) \/ Fetch(r) \/ Yield(r) \/ Send(r) \/ ReaderEnd(r)
    BY <1>2, <2>1, NoPermitMoves DEF Start, Fetch, Yield, Send, ReaderEnd
  <2>2. CASE Begin(r) \/ Wake(r)
    <3>1. /\ acq[r] # "granted" /\ free' = free /\ live' = live
          /\ \E v \in States \ {"granted"} : acq' = [acq EXCEPT ![r] = v]
      BY <2>2 DEF Begin, Wake, States
    <3> QED BY <1>2, <3>1, NoPermitMoves
  <2>3. CASE Check(r)
    <3>1. acq[r] # "granted" /\ live' = live
      BY <2>3 DEF Check
    <3>2. CASE free' = free /\ \E v \in States \ {"granted"} : acq' = [acq EXCEPT ![r] = v]
      BY <1>2, <3>1, <3>2, NoPermitMoves
    <3>3. CASE free > 0 /\ free' = free - 1 /\ acq' = [acq EXCEPT ![r] = "granted"]
      <4>1. Cardinality(Granted(acq')) = Cardinality(Granted(acq)) + 1
        BY <1>1, <3>1, <3>3, GrantedCount DEF States
      <4>2. free' + Cardinality(live') + Cardinality(Granted(acq')) = Size
        BY <1>1, <3>1, <3>3, <4>1
      <4> QED BY <1>2, <4>2 DEF SlotsConserved, Granted, Size
    <3> QED BY <2>3, <3>2, <3>3, CheckOutcomes DEF States
  <2>4. CASE Take(r)
    <3>1. /\ acq[r] = "granted" /\ acq' = [acq EXCEPT ![r] = "idle"] /\ free' = free
          /\ live' = live \cup {<<r, taken[r] + 1>>} /\ st[r] = "open" /\ taken[r] \in Int
      BY <2>4 DEF Take, Polls, PoolTypes
    <3>2. <<r, taken[r] + 1>> \notin live
      BY <3>1 DEF ReadInv, SlotsInv
    <3>3. Cardinality(live') = Cardinality(live) + 1
      BY <1>1, <3>1, <3>2, FS_AddElement
    <3>4. Cardinality(Granted(acq')) = Cardinality(Granted(acq)) - 1
      BY <1>1, <3>1, GrantedCount DEF States
    <3>5. free' + Cardinality(live') + Cardinality(Granted(acq')) = Size
      BY <1>1, <3>1, <3>3, <3>4
    <3> QED BY <1>2, <3>5 DEF SlotsConserved, Granted, Size
  <2> QED BY <1>2, <2>1, <2>2, <2>3, <2>4 DEF ReaderStep
<1>3. ASSUME NEW r \in Reads, CleanerStep(r), UNCHANGED cfg PROVE SlotsConserved'
  <2>1. CASE CleanerRecv(r) \/ DropHeld(r) \/ DropNotify(r) \/ CleanerEnd(r)
    BY <1>3, <2>1, NoPermitMoves DEF CleanerRecv, DropHeld, DropNotify, CleanerEnd
  <2>2. CASE DropPermit(r)
    <3>1. st[r] = "open" /\ cln[r] = "busy" /\ live' = live \ {<<r, recv[r]>>} /\ Release(acq)
      BY <2>2 DEF DropPermit
    <3>2. CountsInv(r) /\ SlotsInv(r)
      BY <3>1 DEF ReadInv
    <3>3. <<r, recv[r]>> \in live
      <4>1. recv[r] \in Int /\ recv[r] <= taken[r] /\ taken[r] \in Int
        BY <3>2 DEF CountsInv, PoolTypes
      <4> QED BY <3>1, <3>2, <4>1 DEF SlotsInv
    <3> QED BY <1>3, <3>1, <3>3, SlotDropped
  <2> QED BY <1>3, <2>1, <2>2 DEF CleanerStep
<1>4. ASSUME NEW r \in Reads, CancelStep(r), UNCHANGED cfg PROVE SlotsConserved'
  <2>1. CASE CancelReader(r) \/ CancelEnd(r)
    BY <1>4, <2>1, NoPermitMoves DEF CancelReader, CancelEnd
  <2>2. CASE CancelSlot(r)
    <3>1. \E p \in 1..Parts(r) : <<r, p>> \in live /\ live' = live \ {<<r, p>>}
      BY <2>2 DEF CancelSlot
    <3> QED BY <1>4, <2>2, <3>1, SlotDropped DEF CancelSlot
  <2>3. CASE CancelAcquire(r)
    <3>1. live' = live
      BY <2>3 DEF CancelAcquire
    <3>2. CASE /\ acq[r] # "granted" /\ free' = free
               /\ acq' = [acq EXCEPT ![r] = "idle"]
      BY <1>4, <3>1, <3>2, NoPermitMoves DEF States
    <3>3. CASE acq[r] = "granted" /\ Release([acq EXCEPT ![r] = "idle"])
      <4> DEFINE a == [acq EXCEPT ![r] = "idle"]
      <4>1. a \in [Reads -> States] /\ (\A i \in 1..Len(queue) : a[queue[i]] = "queue")
          /\ \A x \in Reads : a[x] = "queue" => InQueue(x)
        BY <3>3, ReturnedPermit
      <4>2. Release(a)
        BY <3>3
      <4>3. Cardinality(Granted(a)) = Cardinality(Granted(acq)) - 1
        BY <1>1, <3>3, GrantedCount DEF States
      <4> HIDE DEF a
      <4>4. free' + Cardinality(Granted(acq')) = free + Cardinality(Granted(a)) + 1
        BY <4>1, <4>2, ReleaseEffect DEF QueueInv
      <4>5. free' \in Nat /\ Cardinality(Granted(acq')) \in Nat
        <5>1. IsFiniteSet(Granted(acq'))
          BY PoolConstants, FS_Subset DEF Granted
        <5>2. free' \in Nat
          BY <3>3, ReleaseTypes
        <5> QED BY <5>1, <5>2, FS_CardinalityType
      <4>6. free' + Cardinality(live') + Cardinality(Granted(acq')) = Size
        BY <1>1, <3>1, <4>3, <4>4, <4>5
      <4> QED BY <1>4, <4>6 DEF SlotsConserved, Granted, Size
    <3> QED BY <2>3, <3>2, <3>3 DEF CancelAcquire
  <2> QED BY <1>4, <2>1, <2>2, <2>3 DEF CancelStep
<1>5. ASSUME NEW r \in Reads, Cancel(r), UNCHANGED cfg PROVE SlotsConserved'
  BY <1>5, NoPermitMoves DEF Cancel
<1>6. CASE UNCHANGED vars \/ Finished
  BY <1>6, NoPermitMoves DEF vars, Finished
<1> QED
  BY <1>2, <1>3, <1>4, <1>5, <1>6 DEF Next, ReaderMoves, CleanerMoves, CancelMoves

-----------------------------------------------------------------------------
(* The theorems.                                                           *)

\* A copier starts in the invariant.
LEMMA PoolInvInit == Init => PoolInv
<1> SUFFICES ASSUME Init PROVE PoolInv
  OBVIOUS
<1>1. /\ cfg \in Configs /\ Size \in Nat /\ \A r \in Reads : Parts(r) \in Nat \ {0}
  BY ConfigTypes DEF Init
<1>2. PoolTypes
  <2>1. share \in [Reads -> BOOLEAN] /\ inhand \in [Reads -> BOOLEAN]
    BY DEF Init
  <2>2. IsFiniteSet(live) /\ live \in SUBSET (Reads \X Int) /\ fetched \in SUBSET (Reads \X Int)
    BY FS_EmptySet DEF Init
  <2> QED BY <1>1, <2>1, <2>2 DEF Init, PoolTypes, States, Waiters
<1>3. QueueInv
  BY DEF Init, QueueInv
<1>4. ASSUME NEW r \in Reads PROVE ReadInv(r)
  <2>1. PartsOf(r) = {} /\ Cardinality(PartsOf(r)) = 0
    BY FS_EmptySet DEF Init, PartsOf
  <2> QED BY <2>1 DEF Init, ReadInv, ClosedInv
<1>5. SlotsConserved
  <2>1. Granted(acq) = {} /\ live = {} /\ free = Size
    BY DEF Init, Granted
  <2> QED BY <1>1, <2>1, FS_EmptySet, SlotsEquation
<1> QED BY <1>2, <1>3, <1>4, <1>5 DEF PoolInv

\* Every step keeps the invariant.
LEMMA PoolInvStep == PoolInv /\ [Next]_vars => PoolInv'
<1> SUFFICES ASSUME PoolInv, [Next]_vars PROVE PoolInv'
  OBVIOUS
<1>1. PoolTypes /\ QueueInv /\ (\A r \in Reads : ReadInv(r)) /\ SlotsConserved
  BY DEF PoolInv
<1>2. PoolTypes'
  BY <1>1, TypesStep
<1>3. QueueInv'
  BY <1>1, QueueStep
<1>4. \A r \in Reads : ReadInv(r)'
  BY <1>1, ReadsStep
<1>5. SlotsConserved'
  BY <1>1, SlotsStep
<1> QED BY <1>2, <1>3, <1>4, <1>5 DEF PoolInv

\* The invariant holds of every state of a copier's pool.
THEOREM PoolInvariant == Spec => []PoolInv
BY PoolInvInit, PoolInvStep, PTL DEF Spec

\* For every number of reads, parts and slots, and whatever is dropped when: free
\* permits, slots held and permits granted to a task that has not run make up the
\* pool.
THEOREM NoSlotIsLost == Spec => []SlotsConserved
<1>1. PoolInv => SlotsConserved
  BY DEF PoolInv
<1> QED BY <1>1, PoolInvariant, PTL

\* Every variable of the pool keeps its type; in particular no count of slots that
\* a read holds goes below zero or above its parts, nor the free permits above the
\* size of the pool.
THEOREM PoolTypeCorrect == Spec => []TypeOK
<1>1. PoolInv => TypeOK
  <2> SUFFICES ASSUME PoolInv PROVE TypeOK
    OBVIOUS
  <2>1. PoolTypes /\ (\A r \in Reads : ReadInv(r)) /\ SlotsConserved
    BY DEF PoolInv
  <2>2. Size \in Nat /\ \A r \in Reads : Parts(r) \in Nat \ {0}
    BY <2>1, ConfigTypes DEF PoolTypes
  <2>3. free \in 0..Size
    <3>1. IsFiniteSet(live) /\ IsFiniteSet(Granted(acq))
      BY <2>1, PoolConstants, FS_Subset DEF PoolTypes, Granted
    <3>2. Cardinality(live) \in Nat /\ Cardinality(Granted(acq)) \in Nat
      BY <3>1, FS_CardinalityType
    <3>3. free + Cardinality(live) + Cardinality(Granted(acq)) = Size
      BY <2>1, SlotsEquation
    <3> QED BY <2>1, <2>2, <3>2, <3>3 DEF PoolTypes
  <2>4. ASSUME NEW r \in Reads
        PROVE  /\ taken[r] \in 0..Parts(r) /\ out[r] \in 0..Parts(r) /\ recv[r] \in 0..Parts(r)
               /\ held[r] \in 0..Parts(r)
               /\ \A p \in Int : <<r, p>> \in live => p \in 1..Parts(r)
               /\ \A p \in Int : <<r, p>> \in fetched => p \in 1..Parts(r)
    <3>1. /\ taken[r] \in Int /\ out[r] \in Int /\ recv[r] \in Int /\ held[r] \in Int
          /\ Parts(r) \in Nat
      BY <2>1, <2>2 DEF PoolTypes
    <3>2. CASE st[r] = "open"
      <4>1. CountsInv(r) /\ SlotsInv(r)
        BY <2>1, <3>2 DEF ReadInv
      <4>2. taken[r] \in 0..Parts(r) /\ out[r] \in 0..Parts(r) /\ recv[r] \in 0..Parts(r)
        BY <3>1, <4>1 DEF CountsInv
      <4>3. held[r] \in 0..Parts(r)
        BY <3>1, <4>1, <4>2 DEF CountsInv, SlotsInv
      <4>4. \A p \in Int : <<r, p>> \in live => p \in 1..Parts(r)
        BY <3>1, <4>1, <4>2 DEF CountsInv, SlotsInv
      <4>5. \A p \in Int : <<r, p>> \in fetched => p \in 1..Parts(r)
        BY <3>1, <4>1, <4>2 DEF CountsInv
      <4> QED BY <4>2, <4>3, <4>4, <4>5
    <3>3. CASE st[r] # "open"
      <4>1. ClosedInv(r)
        BY <2>1, <3>3 DEF ReadInv
      <4>2. IsFiniteSet(1..Parts(r)) /\ Cardinality(1..Parts(r)) = Parts(r)
        BY <2>2, FS_Interval
      <4>3. PartsOf(r) \subseteq 1..Parts(r)
        BY DEF PartsOf
      <4>4. Cardinality(PartsOf(r)) \in Nat /\ Cardinality(PartsOf(r)) <= Parts(r)
        BY <4>2, <4>3, FS_Subset, FS_CardinalityType
      <4> QED BY <3>1, <4>1, <4>4 DEF ClosedInv
    <3> QED BY <3>2, <3>3
  <2>5. \A c \in {taken, out, recv, held} :
          DOMAIN c = Reads /\ \A r \in Reads : c[r] \in 0..Parts(r)
    BY <2>1, <2>4 DEF PoolTypes
  <2>6. \A S \in {live, fetched} : \A x \in S : x[1] \in Reads /\ x[2] \in 1..Parts(x[1])
    <3> SUFFICES ASSUME NEW x \in live \cup fetched
                 PROVE  x[1] \in Reads /\ x[2] \in 1..Parts(x[1])
      OBVIOUS
    <3>1. PICK r \in Reads, p \in Int : x = <<r, p>>
      BY <2>1 DEF PoolTypes
    <3> QED BY <2>4, <3>1
  <2> QED BY <2>1, <2>3, <2>5, <2>6 DEF PoolTypes, TypeOK, States, Waiters
<1> QED BY <1>1, PoolInvariant, PTL

-----------------------------------------------------------------------------
(* The wake-ups.                                                           *)

\* Slots of a read, with the one whose wake-up is still to come.
Unannounced(r) == held[r] + (IF cln[r] = "held" THEN 1 ELSE 0)

\* A read sleeps: it waits for its share and nothing has woken it.
Asleep(r) == acq[r] = "wait" /\ st[r] = "open" /\ own[r] = "waiting" /\ ~share[r]

\* A sleeping read below its share that nothing is about to wake.
Stranded(r) == Asleep(r) /\ Unannounced(r) < fair_share

\* The fair share is a number.
LEMMA FairShareType ==
  ASSUME PoolTypes
  PROVE  fair_share \in Nat \ {0} /\ Cardinality(reg) \in Nat
<1>1. Size \in Nat
  BY ConfigTypes DEF PoolTypes
<1>2. Cardinality(reg) \in Nat
  BY PoolConstants, FS_Subset, FS_CardinalityType DEF PoolTypes
<1>3. AtLeastOne(Cardinality(reg)) \in Nat \ {0}
  BY <1>2 DEF AtLeastOne
<1> HIDE DEF AtLeastOne
<1>4. Size \div AtLeastOne(Cardinality(reg)) \in Nat
  BY <1>1, <1>3
<1> QED BY <1>2, <1>4 DEF fair_share, AtLeastOne

\* A step after which a read waits unnoticed left it so: it changed neither the
\* read nor the share it waits for.
LEMMA NotStranded ==
  ASSUME PoolTypes, NEW r \in Reads, ~Stranded(r), acq'[r] = "wait" => acq[r] = "wait",
         st'[r] = "open" => st[r] = "open", held'[r] = held[r],
         own'[r] = "waiting" => own[r] = "waiting", share[r] => share'[r],
         cln[r] = "held" => cln'[r] = "held" \/ own'[r] # "waiting" \/ st'[r] # "open",
         reg' = reg, cfg' = cfg
  PROVE  ~Stranded(r)'
<1>1. fair_share' = fair_share /\ fair_share \in Nat /\ held[r] \in Int
  BY FairShareType DEF fair_share, Size, PoolTypes
<1>2. CASE ~Asleep(r)'
  BY <1>2 DEF Stranded
<1>3. CASE Asleep(r)'
  <2>1. Asleep(r) /\ (cln[r] = "held" => cln'[r] = "held")
    BY <1>3 DEF Asleep
  <2>2. Unannounced(r) >= fair_share
    BY <1>1, <2>1 DEF Stranded, Unannounced
  <2>3. Unannounced(r)' >= Unannounced(r) /\ Unannounced(r) \in Int /\ Unannounced(r)' \in Int
    BY <1>1, <2>1 DEF Unannounced
  <2> QED BY <1>1, <2>2, <2>3 DEF Stranded
<1> QED BY <1>2, <1>3

\* When the readers change, every read that waits is woken.
LEMMA WokenByReaders ==
  ASSUME PoolTypes, NEW r \in Reads, NotifyShare, acq' = acq
  PROVE  ~Stranded(r)'
BY DEF Stranded, Asleep, NotifyShare, PoolTypes

\* Every step keeps every waiting read noticed.
LEMMA WakeupStep ==
  ASSUME PoolTypes, \A x \in Reads : ~Stranded(x), [Next]_vars,
         NEW x \in Reads
  PROVE  ~Stranded(x)'
<1>1. CASE UNCHANGED vars \/ Finished
  BY <1>1, NotStranded DEF vars, Finished
<1>2. ASSUME NEW r \in Reads, ReaderStep(r), UNCHANGED cfg PROVE ~Stranded(x)'
  <2>1. CASE Start(r) \/ ReaderEnd(r)
    BY <2>1, WokenByReaders DEF Start, ReaderEnd
  <2>2. CASE Fetch(r) \/ Yield(r) \/ Send(r)
    BY <1>2, <2>2, NotStranded DEF Fetch, Yield, Send
  <2>3. CASE Begin(r)
    <3>1. CASE x = r
      BY <2>3, <3>1 DEF Begin, PoolTypes, Stranded, Asleep
    <3>2. CASE x # r
      BY <1>2, <2>3, <3>2, NotStranded DEF Begin, PoolTypes
    <3> QED BY <3>1, <3>2
  <2>4. CASE Check(r)
    <3>1. CASE x = r
      <4>1. acq'[r] # "wait" \/ held[r] >= fair_share
        <5>1. acq' = [acq EXCEPT ![r] = "granted"] \/ acq' = [acq EXCEPT ![r] = "queue"]
              \/ held[r] >= fair_share
          BY <2>4, CheckOutcomes
        <5> QED BY <5>1 DEF PoolTypes
      <4>2. held'[r] = held[r] /\ fair_share' = fair_share
        BY <1>2, <2>4 DEF Check, fair_share, Size
      <4>3. fair_share \in Nat /\ held[r] \in Int
        BY FairShareType DEF PoolTypes
      <4>4. Asleep(r)' => Unannounced(r)' >= held[r]
        BY <4>2, <4>3 DEF Asleep, Unannounced
      <4>5. Asleep(r)' => Unannounced(r)' >= fair_share /\ Unannounced(r)' \in Int
        BY <4>1, <4>2, <4>3, <4>4 DEF Asleep, Unannounced
      <4> QED BY <3>1, <4>2, <4>3, <4>5 DEF Stranded
    <3>2. CASE x # r
      <4>1. acq'[x] = acq[x] /\ own'[x] = own[x] /\ share'[x] = share[x]
        BY <2>4, <3>2 DEF Check, PoolTypes
      <4> QED BY <1>2, <2>4, <4>1, NotStranded DEF Check
    <3> QED BY <3>1, <3>2
  <2>5. CASE Wake(r)
    <3>1. CASE x = r
      BY <2>5, <3>1 DEF Wake, PoolTypes, Stranded, Asleep
    <3>2. CASE x # r
      <4>1. acq'[x] = acq[x] /\ own'[x] = own[x] /\ share'[x] = share[x]
        BY <2>5, <3>2 DEF Wake, PoolTypes
      <4> QED BY <1>2, <2>5, <4>1, NotStranded DEF Wake
    <3> QED BY <3>1, <3>2
  <2>6. CASE Take(r)
    <3>1. CASE x = r
      BY <2>6, <3>1 DEF Take, PoolTypes, Stranded, Asleep
    <3>2. CASE x # r
      BY <1>2, <2>6, <3>2, NotStranded DEF Take, PoolTypes
    <3> QED BY <3>1, <3>2
  <2> QED BY <1>2, <2>1, <2>2, <2>3, <2>4, <2>5, <2>6 DEF ReaderStep
<1>3. ASSUME NEW r \in Reads, CleanerStep(r), UNCHANGED cfg PROVE ~Stranded(x)'
  <2>1. CASE CleanerRecv(r)
    BY <1>3, <2>1, NotStranded DEF CleanerRecv, PoolTypes
  <2>2. CASE DropPermit(r)
    <3>1. acq'[x] = "wait" => acq[x] = "wait"
      BY <2>2 DEF DropPermit, Release, PoolTypes
    <3>2. cln[x] = "held" => cln'[x] = "held"
      BY <2>2 DEF DropPermit, PoolTypes
    <3> QED BY <1>3, <2>2, <3>1, <3>2, NotStranded DEF DropPermit
  <2>3. CASE DropHeld(r)
    <3>1. CASE x = r
      <4>1. /\ Unannounced(r)' = Unannounced(r) /\ fair_share' = fair_share
            /\ Asleep(r)' <=> Asleep(r)
        <5>1. cln[r] = "permit" /\ cln'[r] = "held" /\ held'[r] = held[r] - 1 /\ held[r] \in Int
          BY <2>3 DEF DropHeld, PoolTypes
        <5>2. fair_share' = fair_share /\ (Asleep(r)' <=> Asleep(r))
          BY <1>3, <2>3 DEF DropHeld, fair_share, Size, Asleep
        <5> QED BY <5>1, <5>2 DEF Unannounced
      <4> QED BY <3>1, <4>1 DEF Stranded, Asleep
    <3>2. CASE x # r
      BY <1>3, <2>3, <3>2, NotStranded DEF DropHeld, PoolTypes
    <3> QED BY <3>1, <3>2
  <2>4. CASE DropNotify(r)
    <3>1. CASE x = r
      <4>1. own'[r] # "waiting"
        BY <2>4, WaiterTypes DEF DropNotify, PoolTypes
      <4> QED BY <3>1, <4>1 DEF Stranded, Asleep
    <3>2. CASE x # r
      BY <1>3, <2>4, <3>2, NotStranded DEF DropNotify, PoolTypes
    <3> QED BY <3>1, <3>2
  <2>5. CASE CleanerEnd(r)
    <3>1. CASE x = r
      BY <2>5, <3>1 DEF CleanerEnd, PoolTypes, Stranded, Asleep
    <3>2. CASE x # r
      <4>1. st'[x] = st[x] /\ own'[x] = own[x] /\ cln'[x] = cln[x]
        BY <2>5, <3>2 DEF CleanerEnd, ForgetParts, PoolTypes
      <4> QED BY <1>3, <2>5, <4>1, NotStranded DEF CleanerEnd
    <3> QED BY <3>1, <3>2
  <2> QED BY <1>3, <2>1, <2>2, <2>3, <2>4, <2>5 DEF CleanerStep
<1>4. ASSUME NEW r \in Reads, CancelStep(r), UNCHANGED cfg PROVE ~Stranded(x)'
  <2>1. CASE x = r
    <3>1. st'[r] # "open"
      BY <1>4 DEF CancelStep, CancelSlot, CancelAcquire, CancelReader, CancelEnd, PoolTypes
    <3> QED BY <2>1, <3>1 DEF Stranded, Asleep
  <2>2. CASE x # r
    <3>1. CASE CancelReader(r)
      BY <3>1, WokenByReaders DEF CancelReader
    <3>2. CASE CancelEnd(r)
      BY <1>4, <2>2, <3>2, NotStranded DEF CancelEnd, PoolTypes
    <3>3. CASE CancelSlot(r)
      <4>1. acq'[x] = "wait" => acq[x] = "wait"
        BY <3>3 DEF CancelSlot, Release, PoolTypes
      <4>2. held'[x] = held[x]
        BY <2>2, <3>3 DEF CancelSlot, PoolTypes
      <4> QED BY <1>4, <3>3, <4>1, <4>2, NotStranded DEF CancelSlot
    <3>4. CASE CancelAcquire(r)
      <4>1. acq'[x] = "wait" => acq[x] = "wait"
        BY <2>2, <3>4 DEF CancelAcquire, Release, PoolTypes
      <4>2. own'[x] = own[x] /\ share'[x] = share[x]
        BY <2>2, <3>4 DEF CancelAcquire, PoolTypes
      <4> QED BY <1>4, <3>4, <4>1, <4>2, NotStranded DEF CancelAcquire
    <3> QED BY <1>4, <3>1, <3>2, <3>3, <3>4 DEF CancelStep
  <2> QED BY <2>1, <2>2
<1>5. ASSUME NEW r \in Reads, Cancel(r), UNCHANGED cfg PROVE ~Stranded(x)'
  <2>1. CASE x = r
    BY <1>5, <2>1 DEF Cancel, PoolTypes, Stranded, Asleep
  <2>2. CASE x # r
    <3>1. st'[x] = st[x] /\ cln'[x] = cln[x]
      BY <1>5, <2>2 DEF Cancel, ForgetParts, PoolTypes
    <3> QED BY <1>5, <3>1, NotStranded DEF Cancel
  <2> QED BY <2>1, <2>2
<1> QED
  BY <1>1, <1>2, <1>3, <1>4, <1>5 DEF Next, ReaderMoves, CleanerMoves, CancelMoves

\* No read is stranded, for every number of reads, parts and slots.
LEMMA NoneStranded == Spec => [](\A x \in Reads : ~Stranded(x))
<1> DEFINE I == \A x \in Reads : ~Stranded(x)
<1>1. Init => I
  BY DEF Init, Stranded, Asleep
<1>2. PoolInv /\ I /\ [Next]_vars => I'
  BY WakeupStep DEF PoolInv
<1> HIDE DEF I
<1>3. Spec => []I
  BY <1>1, <1>2, PoolInvariant, PTL DEF Spec
<1> QED BY <1>3 DEF I

\* For every number of reads, parts and slots: a read that waits below its fair
\* share has been woken, or the slot drop that brought it there is about to wake it.
THEOREM NoWakeupIsLost == Spec => []NoLostWakeup
<1>1. PoolInv /\ (\A x \in Reads : ~Stranded(x)) => NoLostWakeup
  <2> SUFFICES ASSUME PoolInv, \A x \in Reads : ~Stranded(x), NEW r \in Reads,
                      acq[r] = "wait", st[r] = "open", held[r] < fair_share,
                      own[r] = "waiting", ~share[r], cln[r] # "held"
               PROVE  FALSE
    BY DEF NoLostWakeup
  <2>1. Asleep(r) /\ Unannounced(r) = held[r]
    BY DEF Asleep, Unannounced, PoolInv, PoolTypes
  <2> QED BY <2>1 DEF Stranded
<1> QED BY <1>1, PoolInvariant, NoneStranded, PTL

-----------------------------------------------------------------------------
(* How much of the pool the reads use.                                     *)

\* The GETs in flight stay within the concurrency, and the parts on the way to the
\* cleaner within the channel and the hand of the reader task.
FlowInv(r) ==
  st[r] = "open" =>
    /\ taken[r] - out[r] <= Concurrency
    /\ acq[r] # "idle" => taken[r] - out[r] < Concurrency
    /\ out[r] - recv[r] <= read_ahead_depth(Concurrency) + (IF inhand[r] THEN 1 ELSE 0)

\* What a read leaves behind: no pending acquire() without a PoolReader, no slot
\* before it started or after it ended.
LeftInv(r) ==
  /\ r \in reg => st[r] \in {"open", "dropping"}
  /\ r \notin reg => acq[r] = "idle"
  /\ st[r] # "new" => Concurrency > 1
  /\ st[r] \in {"new", "done"} => \A p \in Int : <<r, p>> \notin live

\* Nobody queues while permits are free.
QueueFree == queue # <<>> => free = 0

UsageInv == (\A r \in Reads : FlowInv(r) /\ LeftInv(r)) /\ QueueFree

\* The channel has room for one part at least.
LEMMA DepthType ==
  ASSUME PoolTypes
  PROVE  read_ahead_depth(Concurrency) \in Nat /\ Concurrency \in Nat
<1>1. Concurrency \in Nat \ {0}
  BY ConfigTypes DEF PoolTypes
<1> QED BY <1>1 DEF read_ahead_depth, Lesser, Greater, MAX_READ_AHEAD_CHUNKS

\* A read that a step does not touch, except to grant it the permit it queued for,
\* flows as before.
LEMMA FlowKept ==
  ASSUME NEW r \in Reads, OthersKept(r), NEW x \in Reads \ {r}, FlowInv(x), cfg' = cfg
  PROVE  FlowInv(x)'
<1>1. /\ st'[x] = st[x] /\ taken'[x] = taken[x] /\ out'[x] = out[x] /\ recv'[x] = recv[x]
      /\ inhand'[x] = inhand[x] /\ (acq'[x] # "idle" => acq[x] # "idle")
  BY DEF OthersKept
<1>2. Concurrency' = Concurrency
  BY DEF Concurrency
<1> QED BY <1>1, <1>2 DEF FlowInv

\* The flow of a read whose reader task or cleaner makes a step.
LEMMA FlowOfOpen ==
  ASSUME PoolInv, NEW r \in Reads, FlowInv(r), ReaderStep(r) \/ CleanerStep(r), UNCHANGED cfg
  PROVE  FlowInv(r)'
<1>1. /\ Concurrency' = Concurrency /\ Concurrency \in Nat
      /\ read_ahead_depth(Concurrency) \in Nat
      /\ taken[r] \in Int /\ out[r] \in Int /\ recv[r] \in Int /\ inhand[r] \in BOOLEAN
  BY DepthType DEF PoolInv, PoolTypes, Concurrency
<1> DEFINE depth == read_ahead_depth(Concurrency)
<1> HIDE DEF depth
<1>2. CASE Start(r)
  <2>1. taken'[r] = 0 /\ out'[r] = 0 /\ recv'[r] = 0 /\ inhand'[r] = FALSE /\ acq'[r] = "idle"
    BY <1>2 DEF Start, PoolInv, ReadInv, ClosedInv
  <2> QED BY <1>1, <2>1 DEF FlowInv
<1>3. CASE Begin(r)
  <2>1. /\ st[r] = "open" /\ taken' = taken /\ out' = out /\ recv' = recv /\ inhand' = inhand
        /\ taken[r] - out[r] < Concurrency /\ st' = st
    BY <1>3 DEF Begin, Polls
  <2> QED BY <1>1, <2>1 DEF FlowInv
<1>4. CASE Check(r) \/ Wake(r)
  <2>1. /\ st[r] = "open" /\ taken' = taken /\ out' = out /\ recv' = recv /\ inhand' = inhand
        /\ acq[r] # "idle" /\ st' = st
    BY <1>4 DEF Check, Wake, Polls
  <2> QED BY <1>1, <2>1 DEF FlowInv
<1>5. CASE Take(r)
  <2>1. /\ st[r] = "open" /\ taken'[r] = taken[r] + 1 /\ out' = out /\ recv' = recv
        /\ inhand' = inhand /\ acq[r] = "granted" /\ acq'[r] = "idle" /\ st' = st
    BY <1>5 DEF Take, Polls, PoolInv, PoolTypes
  <2> QED BY <1>1, <2>1 DEF FlowInv
<1>6. CASE Yield(r)
  <2>1. /\ st[r] = "open" /\ taken' = taken /\ out'[r] = out[r] + 1 /\ recv' = recv
        /\ inhand[r] = FALSE /\ inhand'[r] = TRUE /\ acq' = acq /\ st' = st
    BY <1>6 DEF Yield, Polls, PoolInv, PoolTypes
  <2> QED BY <1>1, <2>1 DEF FlowInv
<1>7. CASE Send(r)
  <2>1. /\ st[r] = "open" /\ taken' = taken /\ out' = out /\ recv' = recv
        /\ inhand'[r] = FALSE /\ acq' = acq /\ st' = st
        /\ out[r] - 1 - recv[r] < read_ahead_depth(Concurrency)
    BY <1>7 DEF Send, PoolInv, PoolTypes
  <2>2. out[r] - recv[r] <= read_ahead_depth(Concurrency)
    BY <1>1, <2>1
  <2> QED BY <1>1, <2>1, <2>2 DEF FlowInv
<1>8. CASE CleanerRecv(r)
  <2>1. /\ st[r] = "open" /\ taken' = taken /\ out' = out /\ recv'[r] = recv[r] + 1
        /\ inhand' = inhand /\ acq' = acq /\ st' = st
    BY <1>8 DEF CleanerRecv, PoolInv, PoolTypes
  <2> QED BY <1>1, <2>1 DEF FlowInv
<1>9. CASE Fetch(r) \/ ReaderEnd(r) \/ DropHeld(r) \/ DropNotify(r)
  <2>1. /\ taken' = taken /\ out' = out /\ recv' = recv /\ inhand' = inhand /\ acq' = acq
        /\ st' = st
    BY <1>9 DEF Fetch, ReaderEnd, DropHeld, DropNotify
  <2> QED BY <1>1, <2>1 DEF FlowInv
<1>10. CASE DropPermit(r)
  <2>1. /\ taken' = taken /\ out' = out /\ recv' = recv /\ inhand' = inhand /\ st' = st
    BY <1>10 DEF DropPermit
  <2>2. acq'[r] # "idle" => acq[r] # "idle"
    BY <1>10, ReleaseOthers DEF DropPermit, PoolInv
  <2> QED BY <1>1, <2>1, <2>2 DEF FlowInv
<1>11. CASE CleanerEnd(r)
  BY <1>11 DEF CleanerEnd, FlowInv, PoolInv, PoolTypes
<1> QED
  BY <1>2, <1>3, <1>4, <1>5, <1>6, <1>7, <1>8, <1>9, <1>10, <1>11 DEF ReaderStep, CleanerStep

\* Every step keeps the flow of every read.
LEMMA FlowStep ==
  ASSUME PoolInv, \A x \in Reads : FlowInv(x), [Next]_vars
  PROVE  \A x \in Reads : FlowInv(x)'
<1> USE DEF PoolInv
<1>1. ASSUME NEW r \in Reads, FlowInv(r)', OthersKept(r), cfg' = cfg
      PROVE  \A x \in Reads : FlowInv(x)'
  BY <1>1, FlowKept
<1>2. ASSUME NEW r \in Reads, ReaderStep(r), UNCHANGED cfg PROVE \A x \in Reads : FlowInv(x)'
  <2>1. OthersKept(r)
    BY <1>2, StartRead, ReaderRead
  <2> QED BY <1>1, <1>2, <2>1, FlowOfOpen
<1>3. ASSUME NEW r \in Reads, CleanerStep(r), UNCHANGED cfg PROVE \A x \in Reads : FlowInv(x)'
  <2>1. OthersKept(r)
    BY <1>3, CleanerRead
  <2> QED BY <1>1, <1>3, <2>1, FlowOfOpen
<1>4. ASSUME NEW r \in Reads, CancelStep(r) \/ Cancel(r), UNCHANGED cfg
      PROVE  \A x \in Reads : FlowInv(x)'
  <2>1. OthersKept(r)
    BY <1>4, CancelRead, DropRead
  <2>2. st'[r] # "open"
    BY <1>4 DEF CancelStep, CancelSlot, CancelAcquire, CancelReader, CancelEnd, Cancel, PoolTypes
  <2>3. FlowInv(r)'
    BY <2>2 DEF FlowInv
  <2> QED BY <1>1, <1>4, <2>1, <2>3
<1>5. CASE UNCHANGED vars \/ Finished
  BY <1>5 DEF FlowInv, Concurrency, vars, Finished
<1> QED
  BY <1>2, <1>3, <1>4, <1>5 DEF Next, ReaderMoves, CleanerMoves, CancelMoves

\* Every step leaves nothing behind.
LEMMA LeftStep ==
  ASSUME PoolInv, \A x \in Reads : LeftInv(x), [Next]_vars
  PROVE  \A x \in Reads : LeftInv(x)'
<1> USE DEF PoolInv
<1>1. ASSUME NEW r \in Reads, OthersKept(r), cfg' = cfg, NEW x \in Reads \ {r},
             x \in reg' <=> x \in reg
      PROVE  LeftInv(x)'
  <2>1. /\ st'[x] = st[x] /\ (acq'[x] # "idle" => acq[x] # "idle")
        /\ \A p \in Int : <<x, p>> \in live' <=> <<x, p>> \in live
    BY <1>1 DEF OthersKept
  <2>2. Concurrency' = Concurrency
    BY <1>1 DEF Concurrency
  <2> QED BY <1>1, <2>1, <2>2 DEF LeftInv
<1>2. ASSUME NEW r \in Reads, ReaderStep(r), UNCHANGED cfg PROVE \A x \in Reads : LeftInv(x)'
  <2>1. OthersKept(r)
    BY <1>2, StartRead, ReaderRead
  <2>2. \A x \in Reads \ {r} : x \in reg' <=> x \in reg
    BY <1>2 DEF ReaderStep, Start, Begin, Check, Wake, Take, Fetch, Yield, Send, ReaderEnd
  <2>3. Concurrency' = Concurrency
    BY <1>2 DEF Concurrency
  <2>4. LeftInv(r)'
    <3>1. CASE Start(r)
      BY <2>3, <3>1 DEF Start, LeftInv, PoolTypes
    <3>2. CASE ReaderEnd(r)
      <4>1. st[r] = "open" /\ out[r] = Parts(r) /\ acq' = acq /\ st' = st /\ reg' = reg \ {r}
        BY <3>2 DEF ReaderEnd, Polls
      <4>2. /\ out[r] <= taken[r] /\ (acq[r] # "idle" => taken[r] < Parts(r))
            /\ out[r] \in Int /\ taken[r] \in Int
        BY <4>1 DEF ReadInv, CountsInv, PoolTypes
      <4>3. acq[r] = "idle"
        BY <4>1, <4>2
      <4> QED BY <2>3, <4>1, <4>3 DEF LeftInv
    <3>3. CASE ~Start(r) /\ ~ReaderEnd(r)
      <4>1. st[r] = "open" /\ st' = st /\ reg' = reg /\ (r \in reg \/ acq' = acq)
        BY <1>2, <3>3 DEF ReaderStep, Begin, Check, Wake, Take, Fetch, Yield, Send, Polls
      <4> QED BY <2>3, <4>1 DEF LeftInv
    <3> QED BY <3>1, <3>2, <3>3
  <2> QED BY <1>1, <1>2, <2>1, <2>2, <2>4
<1>3. ASSUME NEW r \in Reads, CleanerStep(r), UNCHANGED cfg PROVE \A x \in Reads : LeftInv(x)'
  <2>1. OthersKept(r) /\ reg' = reg
    BY <1>3, CleanerRead
    DEF CleanerStep, CleanerRecv, DropPermit, DropHeld, DropNotify, CleanerEnd
  <2>2. Concurrency' = Concurrency
    BY <1>3 DEF Concurrency
  <2>3. st[r] = "open"
    BY <1>3 DEF CleanerStep, CleanerRecv, DropPermit, DropHeld, DropNotify, CleanerEnd, ReadInv,
                ClosedInv
  <2>4. acq'[r] # "idle" => acq[r] # "idle"
    <3>1. CASE DropPermit(r)
      BY <3>1, ReleaseOthers DEF DropPermit
    <3>2. CASE ~DropPermit(r)
      BY <1>3, <3>2 DEF CleanerStep, CleanerRecv, DropHeld, DropNotify, CleanerEnd
    <3> QED BY <3>1, <3>2
  <2>5. st'[r] = "open" \/ (st'[r] = "done" /\ \A p \in Int : <<r, p>> \notin live')
    <3>1. CASE CleanerEnd(r)
      <4>1. /\ st'[r] = "done" /\ live' = live /\ cln[r] = "await" /\ recv[r] = Parts(r)
            /\ taken[r] \in Int /\ recv[r] \in Int
        BY <3>1 DEF CleanerEnd, PoolTypes
      <4>2. CountsInv(r) /\ SlotsInv(r)
        BY <2>3 DEF ReadInv
      <4>3. taken[r] <= recv[r]
        BY <4>1, <4>2 DEF CountsInv
      <4> QED BY <4>1, <4>2, <4>3 DEF SlotsInv
    <3>2. CASE ~CleanerEnd(r)
      BY <1>3, <2>3, <3>2 DEF CleanerStep, CleanerRecv, DropPermit, DropHeld, DropNotify
    <3> QED BY <3>1, <3>2
  <2>6. LeftInv(r)'
    <3>1. r \in reg' => st'[r] \in {"open", "dropping"}
      BY <1>3, <2>1, <2>3, <2>5 DEF CleanerStep, CleanerRecv, DropPermit, DropHeld, DropNotify,
                                   CleanerEnd
    <3> QED BY <2>1, <2>2, <2>3, <2>4, <2>5, <3>1 DEF LeftInv
  <2> QED BY <1>1, <1>3, <2>1, <2>6
<1>4. ASSUME NEW r \in Reads, CancelStep(r) \/ Cancel(r), UNCHANGED cfg
      PROVE  \A x \in Reads : LeftInv(x)'
  <2>1. OthersKept(r)
    BY <1>4, CancelRead, DropRead
  <2>2. \A x \in Reads \ {r} : x \in reg' <=> x \in reg
    BY <1>4 DEF CancelStep, CancelSlot, CancelAcquire, CancelReader, CancelEnd, Cancel
  <2>3. Concurrency' = Concurrency /\ st[r] # "new"
    BY <1>4 DEF Concurrency, CancelStep, CancelSlot, CancelAcquire, CancelReader, CancelEnd, Cancel
  <2>4. LeftInv(r)'
    <3>1. CASE CancelSlot(r)
      <4>1. acq'[r] # "idle" => acq[r] # "idle"
        BY <3>1, ReleaseOthers DEF CancelSlot
      <4>2. st[r] = "dropping" /\ st' = st /\ reg' = reg
        BY <3>1 DEF CancelSlot
      <4> QED BY <2>3, <4>1, <4>2 DEF LeftInv
    <3>2. CASE CancelAcquire(r)
      <4>1. st[r] = "dropping" /\ st' = st /\ reg' = reg /\ acq[r] # "idle"
        BY <3>2 DEF CancelAcquire
      <4> QED BY <2>3, <4>1 DEF LeftInv
    <3>3. CASE CancelReader(r)
      BY <2>3, <3>3 DEF CancelReader, LeftInv
    <3>4. CASE CancelEnd(r)
      <4>1. /\ st'[r] = "done" /\ r \notin reg /\ reg' = reg /\ acq' = acq /\ live' = live
            /\ \A p \in 1..Parts(r) : <<r, p>> \notin live
        BY <3>4 DEF CancelEnd, PoolTypes
      <4>2. \A p \in Int : <<r, p>> \notin live
        BY <3>4, <4>1 DEF CancelEnd, ReadInv, ClosedInv
      <4> QED BY <2>3, <4>1, <4>2 DEF LeftInv
    <3>5. CASE Cancel(r)
      <4>1. st'[r] = "dropping" /\ reg' = reg /\ acq' = acq
        BY <3>5 DEF Cancel, PoolTypes
      <4> QED BY <2>3, <4>1 DEF LeftInv
    <3> QED BY <1>4, <3>1, <3>2, <3>3, <3>4, <3>5 DEF CancelStep
  <2> QED BY <1>1, <1>4, <2>1, <2>2, <2>4
<1>5. CASE UNCHANGED vars \/ Finished
  BY <1>5 DEF LeftInv, Concurrency, vars, Finished
<1> QED
  BY <1>2, <1>3, <1>4, <1>5 DEF Next, ReaderMoves, CleanerMoves, CancelMoves

\* Releasing a permit while reads queue leaves none free.
LEMMA ReleaseQueueFree ==
  ASSUME PoolTypes, QueueFree, NEW a, Release(a)
  PROVE  QueueFree'
BY DEF PoolTypes, QueueFree, Release

\* A permit is free only when nobody queues for one.
LEMMA QueueFreeStep ==
  ASSUME PoolInv, QueueFree, [Next]_vars
  PROVE  QueueFree'
<1> USE DEF PoolInv
<1>1. CASE queue' = queue /\ free' = free
  BY <1>1 DEF QueueFree
<1>2. ASSUME NEW r \in Reads, ReaderStep(r) PROVE QueueFree'
  <2>1. CASE Check(r)
    <3>1. \/ free > 0 /\ free' = free - 1 /\ queue' = queue
          \/ free = 0 /\ free' = free
          \/ free' = free /\ queue' = queue
      BY <2>1 DEF Check
    <3>2. free \in Nat
      BY DEF PoolTypes
    <3> QED BY <3>1, <3>2 DEF QueueFree
  <2>2. CASE ~Check(r)
    BY <1>1, <1>2, <2>2 DEF ReaderStep, Start, Begin, Wake, Take, Fetch, Yield, Send, ReaderEnd
  <2> QED BY <2>1, <2>2
<1>3. ASSUME NEW r \in Reads, CleanerStep(r) PROVE QueueFree'
  <2>1. CASE DropPermit(r)
    BY <2>1, ReleaseQueueFree DEF DropPermit
  <2>2. CASE ~DropPermit(r)
    BY <1>1, <1>3, <2>2 DEF CleanerStep, CleanerRecv, DropHeld, DropNotify, CleanerEnd
  <2> QED BY <2>1, <2>2
<1>4. ASSUME NEW r \in Reads, CancelStep(r) \/ Cancel(r) PROVE QueueFree'
  <2>1. CASE CancelSlot(r)
    BY <2>1, ReleaseQueueFree DEF CancelSlot
  <2>2. CASE CancelAcquire(r)
    <3>1. CASE Release([acq EXCEPT ![r] = "idle"])
      BY <3>1, ReleaseQueueFree
    <3>2. CASE LeaveQueue(r) /\ free' = free
      <4>1. queue # <<>>
        BY <3>2 DEF LeaveQueue, PoolTypes
      <4> QED BY <3>2, <4>1 DEF QueueFree
    <3>3. CASE queue' = queue /\ free' = free
      BY <1>1, <3>3
    <3> QED BY <2>2, <3>1, <3>2, <3>3 DEF CancelAcquire
  <2>3. CASE CancelReader(r) \/ CancelEnd(r) \/ Cancel(r)
    BY <1>1, <2>3 DEF CancelReader, CancelEnd, Cancel
  <2> QED BY <1>4, <2>1, <2>2, <2>3 DEF CancelStep
<1>5. CASE UNCHANGED vars \/ Finished
  BY <1>1, <1>5 DEF vars, Finished
<1> QED
  BY <1>2, <1>3, <1>4, <1>5 DEF Next, ReaderMoves, CleanerMoves, CancelMoves

\* How the reads use the pool, for every number of reads, parts and slots: GETs
\* within the concurrency, read-ahead within the channel, no slot and no pending
\* acquire() left behind by a read, and no permit free while one is queued for.
THEOREM PoolUsage == Spec => []UsageInv
<1>1. Init => UsageInv
  <2> SUFFICES ASSUME Init PROVE UsageInv
    OBVIOUS
  <2>1. \A r \in Reads : FlowInv(r) /\ LeftInv(r)
    BY DEF Init, FlowInv, LeftInv
  <2> QED BY <2>1 DEF Init, UsageInv, QueueFree
<1>2. PoolInv /\ UsageInv /\ [Next]_vars => UsageInv'
  <2> SUFFICES ASSUME PoolInv, UsageInv, [Next]_vars PROVE UsageInv'
    OBVIOUS
  <2>1. (\A r \in Reads : FlowInv(r)) /\ (\A r \in Reads : LeftInv(r)) /\ QueueFree
    BY DEF UsageInv
  <2>2. \A r \in Reads : FlowInv(r)'
    BY <2>1, FlowStep
  <2>3. \A r \in Reads : LeftInv(r)'
    BY <2>1, LeftStep
  <2>4. QueueFree'
    BY <2>1, QueueFreeStep
  <2> QED BY <2>2, <2>3, <2>4 DEF UsageInv
<1> QED BY <1>1, <1>2, PoolInvariant, PTL DEF Spec
=============================================================================
