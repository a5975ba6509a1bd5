------------------------ MODULE FileTransfer_proofs -------------------------
(***************************************************************************)
(* Proofs about the transfer of one file, for any number of parts, any     *)
(* part concurrency, any numbers of attempts and tries, any timeouts, and  *)
(* any changes of the source object.                                       *)
(***************************************************************************)
EXTENDS FileTransfer, TLAPS

Fed == {"stream", "finish", "push"}   \* states in which an attempt has a stream

\* An attempt is only started while attempts are left.
AttemptInv == pc \in {"new", "backoff"} => attempt < MAX_FILE_ATTEMPTS

\* Between attempts nothing of the last one is left.
CleanInv ==
  /\ pc \notin Fed => read = 0 /\ fed = 0 /\ total = 0 /\ content = <<>> /\ opened = 0
  /\ pc \notin Running => get = NoGets
  /\ pc = "response" => ~multi

\* What a ranged GET brought belongs to this attempt, and parts are read in order.
PartInv ==
  /\ \A p \in 1..Parts :
       /\ get[p].st = "ok"   => /\ get[p].ver \in since..version
                                /\ source[get[p].ver] > 2 * p - 2
       /\ get[p].st = "gone" => \E v \in since..version : source[v] = NoObject
  /\ multi => /\ read <= Parts
              /\ \A p \in 1..read : get[p].st = "ok"

\* A single GET reads one version, from its start.
SingleInv ==
  ~multi /\ pc \in Fed =>
    /\ opened \in since..version /\ source[opened] # NoObject
    /\ read <= Chunks(source[opened])
    /\ total = (IF 2 * fed <= source[opened] THEN 2 * fed ELSE source[opened])

\* What the cleaner has taken: parts of this attempt, two units each at most.
ContentInv ==
  /\ content \in Seq(Nat) /\ source \in Seq(Int)
  /\ \A p \in DOMAIN content : /\ content[p] \in since..version
                               /\ ~multi => content[p] = opened
  /\ total <= 2 * fed
  /\ pc \in {"finish", "push"} => total = Expected /\ fed = Parts

\* Op, count and outcome go together.
OutcomeInv ==
  /\ ops \in Seq([content : Seq(Nat), total : Int, since : Nat, until : Nat])
  /\ Len(ops) = files_done
  /\ files_done = (IF pc = "uploaded" THEN 1 ELSE 0)

IInv == /\ TypeOK /\ AttemptInv /\ CleanInv /\ PartInv /\ SingleInv /\ ContentInv
        /\ OutcomeInv /\ OpIsWhole /\ SkippedMeansGone

-----------------------------------------------------------------------------
(* Lemmas on the operators.                                                *)

\* A part has two units at most, and one at least where the object reaches it.
LEMMA UnitsBound ==
  ASSUME NEW p \in Nat, NEW l \in Int
  PROVE  /\ Units(p, l) \in Int /\ Units(p, l) <= 2
         /\ l > 2 * p - 2 => Units(p, l) >= 1
BY DEF Units

\* The chunks of a single GET: all but the last are whole.
LEMMA ChunksBound ==
  ASSUME NEW l \in Lengths, l # NoObject
  PROVE  /\ Chunks(l) \in Nat /\ Chunks(l) <= Parts + 1
         /\ l <= 2 * Chunks(l) /\ 2 * Chunks(l) <= l + 1
BY TransferConstants DEF Lengths, NoObject, Expected, Chunks

\* The two states a GET starts in.
LEMMA IdleType == Idle \in GetRecord /\ Idle.st = "idle"
BY TransferConstants DEF Idle, GetRecord

\* A request that has just been sent.
LEMMA FlyingType == Flying \in GetRecord /\ Flying.st = "flying"
BY IdleType DEF Flying, GetRecord

\* An attempt without GETs.
LEMMA NoGetsType ==
  /\ NoGets \in [1..Parts -> GetRecord]
  /\ \A p \in 1..Parts : NoGets[p].st = "idle"
BY IdleType DEF NoGets

-----------------------------------------------------------------------------
(* IInv is inductive.                                                      *)

\* The initial states satisfy it.
LEMMA InitInv == Init => IInv
<1> SUFFICES ASSUME Init PROVE IInv
  OBVIOUS
<1> USE TransferConstants
<1>0. source \in Seq(Int) /\ Len(source) = 1 /\ source[1] \in {Expected, NoObject}
  <2>1. PICK l \in {Expected, NoObject} : source = <<l>>
    BY DEF Init
  <2>2. l \in Int
    BY DEF Expected, NoObject
  <2> QED BY <2>1, <2>2
<1>1. TypeOK
  <2>1. \A v \in DOMAIN source : source[v] \in Lengths
    BY <1>0 DEF Lengths
  <2>2. Len(content) = 0 /\ total \in 0..Expected + 1
    BY DEF Init, Expected
  <2>3. dead \in BOOLEAN /\ multi \in BOOLEAN
    BY DEF Init
  <2>4. pc \in Running \cup Final \cup {"new", "backoff"} /\ get \in [1..Parts -> GetRecord]
    BY NoGetsType DEF Init
  <2>5. /\ attempt \in 0..MAX_FILE_ATTEMPTS /\ quiet \in 0..STALL_POLLS + 1
        /\ age \in 0..STALL_POLLS /\ opened \in 0..version /\ read \in 0..Parts + 1
        /\ fed \in 0..read /\ fed = 0 /\ files_done \in 0..1 /\ since \in 1..version
        /\ Len(source) \in 1..MaxChanges + 1
    BY <1>0 DEF Init, version
  <2> QED BY <2>1, <2>2, <2>3, <2>4, <2>5 DEF TypeOK
<1>2. AttemptInv /\ CleanInv /\ SingleInv
  BY DEF Init, AttemptInv, CleanInv, SingleInv, Fed, Running
<1>3. PartInv
  BY NoGetsType DEF Init, PartInv
<1>4. ContentInv
  BY <1>0 DEF Init, ContentInv
<1>5. OutcomeInv /\ OpIsWhole /\ SkippedMeansGone
  BY DEF Init, OutcomeInv, OpIsWhole, SkippedMeansGone
<1> QED BY <1>1, <1>2, <1>3, <1>4, <1>5 DEF IInv

\* The end of an attempt, whatever ended it.
LEMMA EndsInv ==
  ASSUME IInv, pc \notin Final, NEW how \in {"backoff", "failed", "skipped", "dropped"},
         how = "backoff" => attempt < MAX_FILE_ATTEMPTS,
         how = "skipped" => \E v \in since..version : len(v) = NoObject,
         Ends(how)
  PROVE  IInv'
<1> USE TransferConstants DEF IInv, Ends, DropAttempt, fixed, version, len
<1>1. TypeOK'
  <2>1. pc' \in Final \cup {"backoff"}
    BY DEF Final
  <2>2. Len(content') = 0 /\ total' \in 0..Expected + 1
    BY DEF Expected
  <2>3. dead' \in BOOLEAN /\ multi' \in BOOLEAN
    BY DEF TypeOK
  <2>4. get' \in [1..Parts -> GetRecord] /\ opened' \in 0..version' /\ read' \in 0..Parts + 1
          /\ fed' \in 0..read' /\ fed' = 0
    BY NoGetsType DEF TypeOK
  <2>5. /\ attempt' \in 0..MAX_FILE_ATTEMPTS /\ quiet' \in 0..STALL_POLLS + 1
        /\ age' \in 0..STALL_POLLS /\ files_done' \in 0..1 /\ since' \in 1..version'
        /\ Len(source') \in 1..MaxChanges + 1 /\ \A v \in DOMAIN source' : source'[v] \in Lengths
    BY DEF TypeOK
  <2> QED BY <2>1, <2>2, <2>3, <2>4, <2>5 DEF TypeOK
<1>2. AttemptInv' /\ CleanInv' /\ SingleInv'
  BY DEF AttemptInv, CleanInv, SingleInv, Fed, Running, TypeOK
<1>3. PartInv'
  BY NoGetsType DEF PartInv, TypeOK
<1>4. ContentInv'
  BY DEF ContentInv
<1>5. OutcomeInv'
  BY DEF OutcomeInv, Final
<1>6. OpIsWhole'
  BY DEF OpIsWhole
<1>7. SkippedMeansGone'
  BY DEF SkippedMeansGone
<1> QED BY <1>1, <1>2, <1>3, <1>4, <1>5, <1>6, <1>7

\* An attempt that fails is followed by another one or is the last.
LEMMA AttemptFailsInv ==
  ASSUME IInv, pc \notin Final, AttemptFails
  PROVE  IInv'
BY EndsInv DEF AttemptFails

\* An attempt starts with nothing read, from the object as it is now.
LEMMA StartAttemptInv ==
  ASSUME IInv, StartAttempt
  PROVE  IInv'
<1> USE TransferConstants DEF IInv, StartAttempt, fixed, version, len, FreshClock
<1>0. get = NoGets /\ read = 0 /\ fed = 0 /\ total = 0 /\ content = <<>>
  BY DEF CleanInv, Fed, Running
<1>1. TypeOK'
  BY NoGetsType, FlyingType, <1>0 DEF TypeOK, AttemptInv, Running
<1>2. AttemptInv' /\ CleanInv' 
  BY <1>0 DEF AttemptInv, CleanInv, Fed, Running, TypeOK
<1>3. PartInv'
  BY NoGetsType, FlyingType, <1>0 DEF PartInv, TypeOK
<1>4. ContentInv'
  BY <1>0 DEF ContentInv
<1>5. SingleInv'
  BY DEF SingleInv, Fed
<1>6. OutcomeInv' /\ OpIsWhole'
  BY DEF OutcomeInv, OpIsWhole
<1>7. SkippedMeansGone'
  BY DEF SkippedMeansGone
<1> QED BY <1>1, <1>2, <1>3, <1>4, <1>5, <1>6, <1>7

\* A step of the single GET or of the reader task credits bytes.
LEMMA ReadInv ==
  ASSUME IInv, Chunk \/ Yield
  PROVE  IInv'
<1> USE TransferConstants DEF IInv, fixed, version, len
<1>0. /\ pc = "stream" /\ read' = read + 1 /\ quiet' = 0
      /\ UNCHANGED <<multi, source, pc, attempt, age, get, opened, fed, total, content, dead,
                     ops, files_done, since>>
  BY DEF Chunk, Yield, Reads
<1>1. multi => read < Parts /\ get[read + 1].st = "ok"
  BY DEF Chunk, Yield
<1>2. ~multi => read < Chunks(source[opened]) /\ Chunks(source[opened]) <= Parts + 1
  <2> SUFFICES ASSUME ~multi
               PROVE  read < Chunks(source[opened]) /\ Chunks(source[opened]) <= Parts + 1
    OBVIOUS
  <2>1. source[opened] \in Lengths /\ source[opened] # NoObject
    BY <1>0 DEF SingleInv, Fed, TypeOK, ContentInv
  <2> QED BY <2>1, ChunksBound DEF Chunk, Yield, Reads
<1>3. read' \in 0..Parts + 1 /\ fed' \in 0..read'
  <2>1. CASE multi BY <1>0, <1>1, <2>1 DEF TypeOK
  <2>2. CASE ~multi
    <3>1. Chunks(source[opened]) \in Int
      BY <1>0, <2>2, ChunksBound DEF SingleInv, Fed, TypeOK, ContentInv
    <3> QED BY <1>0, <1>2, <2>2, <3>1 DEF TypeOK
  <2> QED BY <2>1, <2>2
<1>4. TypeOK'
  BY <1>0, <1>3 DEF TypeOK
<1>5. AttemptInv' /\ CleanInv'
  BY <1>0 DEF AttemptInv, CleanInv, Fed
<1>6. PartInv'
  <2>1. multi => \A p \in 1..read + 1 : get[p].st = "ok"
    BY <1>1 DEF PartInv, TypeOK
  <2> QED BY <1>0, <1>1, <2>1 DEF PartInv, TypeOK
<1>7. SingleInv'
  <2>1. ~multi => Chunks(source[opened]) \in Int
    BY <1>0, ChunksBound DEF SingleInv, Fed, TypeOK, ContentInv
  <2> QED BY <1>0, <1>2, <2>1 DEF SingleInv, TypeOK
<1>8. ContentInv'
  BY <1>0 DEF ContentInv
<1>9. OutcomeInv' /\ OpIsWhole' /\ SkippedMeansGone'
  BY <1>0 DEF OutcomeInv, OpIsWhole, SkippedMeansGone
<1> QED BY <1>4, <1>5, <1>6, <1>7, <1>8, <1>9

\* A GET changes its state: what it reports is true of the object now.
LEMMA SetGetInv ==
  ASSUME IInv, Reads, NEW p \in 1..Parts, get[p].st # "ok", NEW g \in GetRecord, SetGet(p, g),
         g.st = "ok"   => g.ver = version /\ source[version] > 2 * p - 2,
         g.st = "gone" => source[version] = NoObject
  PROVE  IInv'
<1> USE TransferConstants DEF IInv, SetGet, fixed, version, len
<1>1. TypeOK'
  BY DEF TypeOK
<1>2. AttemptInv' /\ CleanInv' /\ SingleInv'
  BY DEF AttemptInv, CleanInv, SingleInv, Fed, Running, Reads
<1>3. version \in since..version
  BY DEF TypeOK
<1>4. PartInv'
  <2>1. \A q \in 1..Parts : get'[q] = IF q = p THEN g ELSE get[q]
    BY DEF TypeOK
  <2>2. multi /\ read \in Nat /\ read <= Parts /\ p \notin 1..read
    BY DEF PartInv, Reads, TypeOK
  <2>3. \A q \in 1..read : get'[q].st = "ok"
    BY <2>1, <2>2 DEF PartInv
  <2>4. ASSUME NEW q \in 1..Parts
        PROVE  /\ get'[q].st = "ok" => /\ get'[q].ver \in since'..version'
                                       /\ source'[get'[q].ver] > 2 * q - 2
               /\ get'[q].st = "gone" => \E v \in since'..version' : source'[v] = NoObject
    BY <1>3, <2>1 DEF PartInv
  <2> QED BY <2>2, <2>3, <2>4 DEF PartInv
<1>5. ContentInv' /\ OutcomeInv' /\ OpIsWhole' /\ SkippedMeansGone'
  BY DEF ContentInv, OutcomeInv, OpIsWhole, SkippedMeansGone
<1> QED BY <1>1, <1>2, <1>4, <1>5

\* The ranged GETs.
LEMMA PartStepInv ==
  ASSUME IInv, NEW p \in 1..Parts, Launch(p) \/ Arrive(p) \/ PartGone(p) \/ PartFails(p)
  PROVE  IInv'
<1> USE TransferConstants DEF version, len
<1>0. get[p] \in GetRecord
  BY DEF IInv, TypeOK
<1>1. CASE Launch(p)
  BY <1>1, FlyingType, SetGetInv DEF Launch
<1>2. CASE Arrive(p)
  <2> DEFINE g == [Idle EXCEPT !.st = "ok", !.ver = version]
  <2>1. version \in 0..MaxChanges + 1
    BY DEF IInv, TypeOK
  <2>2. g \in GetRecord /\ g.st = "ok" /\ g.ver = version
    BY <2>1, IdleType DEF GetRecord
  <2> QED BY <1>2, <2>2, SetGetInv DEF Arrive, InRange
<1>3. CASE PartGone(p)
  <2>1. [Idle EXCEPT !.st = "gone"] \in GetRecord /\ [Idle EXCEPT !.st = "gone"].st = "gone"
    BY IdleType DEF GetRecord
  <2> QED BY <1>3, <2>1, SetGetInv DEF PartGone
<1>4. CASE PartFails(p)
  <2> DEFINE again == [Flying EXCEPT !.tries = get[p].tries + 1]
             over  == [Idle EXCEPT !.st = "err"]
  <2>1. over \in GetRecord /\ over.st = "err"
    BY IdleType DEF GetRecord
  <2>2. get[p].tries + 1 < MAX_PART_ATTEMPTS => again \in GetRecord /\ again.st = "flying"
    BY <1>0, FlyingType DEF GetRecord
  <2> QED BY <1>4, <2>1, <2>2, SetGetInv DEF PartFails
<1> QED BY <1>1, <1>2, <1>3, <1>4

\* A GET sent or answered, the reader task dead, the end of the stream: no data moves.
LEMMA ControlInv ==
  ASSUME IInv, Response \/ ReaderDies \/ Finish
  PROVE  IInv'
<1> USE TransferConstants DEF IInv, fixed, data, version, len
<1>0. /\ UNCHANGED <<multi, source, attempt, quiet, age, get, read, fed, total, content, ops,
                     files_done, since>>
      /\ pc \in Running /\ pc' \in Fed
  BY DEF Response, ReaderDies, Finish, Running, Fed, Reads
<1>1. opened' \in 0..version /\ dead' \in BOOLEAN
  <2>1. CASE Response BY <2>1 DEF Response, TypeOK
  <2>2. CASE ReaderDies
    <3>1. dead' \in BOOLEAN
      BY <2>2 DEF ReaderDies
    <3> QED BY <2>2, <3>1 DEF ReaderDies, TypeOK
  <2>3. CASE Finish BY <2>3 DEF Finish, TypeOK
  <2> QED BY <2>1, <2>2, <2>3
<1>2. TypeOK'
  <2>1. pc' \in Running
    BY <1>0 DEF Running, Fed
  <2> QED BY <1>0, <1>1, <2>1 DEF TypeOK
<1>3. AttemptInv'
  BY <1>0 DEF AttemptInv, Fed
<1>4. CleanInv'
  BY <1>0 DEF CleanInv, Fed, Running
<1>5. PartInv'
  BY <1>0 DEF PartInv
<1>6. SingleInv'
  <2>1. CASE Response
    <3>1. version \in since..version /\ source[version] \in Lengths /\ source[version] # NoObject
      BY <2>1 DEF Response, TypeOK, ContentInv
    <3>2. read = 0 /\ fed = 0 /\ total = 0
      BY <2>1 DEF Response, CleanInv, Fed
    <3>3. source[version] >= 0
      BY <3>1 DEF Lengths, NoObject, Expected
    <3> QED BY <1>0, <2>1, <3>1, <3>2, <3>3, ChunksBound DEF SingleInv, Response
  <2>2. CASE ReaderDies \/ Finish
    <3>1. opened' = opened /\ pc \in Fed
      BY <2>2 DEF ReaderDies, Finish, Fed, Reads
    <3> QED BY <1>0, <3>1 DEF SingleInv
  <2> QED BY <2>1, <2>2
<1>7. ContentInv'
  <2>1. CASE Response
    BY <1>0, <2>1 DEF Response, ContentInv, CleanInv, Fed
  <2>2. CASE ReaderDies \/ Finish
    BY <1>0, <2>2 DEF ReaderDies, Finish, ContentInv, Reads
  <2> QED BY <2>1, <2>2
<1>8. OutcomeInv' /\ OpIsWhole' /\ SkippedMeansGone'
  BY <1>0 DEF OutcomeInv, OpIsWhole, SkippedMeansGone, Fed, Running
<1> QED BY <1>2, <1>3, <1>4, <1>5, <1>6, <1>7, <1>8

\* The end of a stream that passed the integrity guard: exactly the listed parts.
LEMMA EndOfStreamInv ==
  ASSUME IInv, EndOfStream
  PROVE  IInv'
<1> USE TransferConstants DEF IInv, EndOfStream, fixed, data, version, len
<1>0. pc = "stream" /\ fed = read /\ total = 2 * Parts
  BY DEF StreamEnd, Whole, Expected
<1>1. fed = Parts
  <2>1. fed \in Nat /\ read \in Nat /\ fed >= Parts
    BY <1>0 DEF ContentInv, TypeOK
  <2>2. CASE multi
    BY <1>0, <2>1, <2>2 DEF PartInv
  <2>3. CASE ~multi
    <3> DEFINE l == source[opened]
    <3>1. l \in Lengths /\ l # NoObject /\ l \in Int
      BY <1>0, <2>3 DEF SingleInv, Fed, TypeOK, ContentInv
    <3>2. read = Chunks(l)
      BY <2>3 DEF StreamEnd
    <3>3. total = (IF 2 * fed <= l THEN 2 * fed ELSE l)
      BY <1>0, <2>3 DEF SingleInv, Fed
    <3>4. l <= 2 * Chunks(l) /\ 2 * Chunks(l) <= l + 1
      BY <3>1, ChunksBound
    <3> HIDE DEF l
    <3> QED BY <1>0, <2>1, <3>1, <3>2, <3>3, <3>4
  <2> QED BY <2>2, <2>3
<1>2. TypeOK'
  BY DEF TypeOK, Running
<1>3. AttemptInv' /\ CleanInv' /\ SingleInv'
  BY <1>0 DEF AttemptInv, CleanInv, SingleInv, Fed, Running
<1>4. PartInv'
  BY DEF PartInv
<1>5. ContentInv'
  BY <1>0, <1>1 DEF ContentInv, Expected
<1>6. OutcomeInv' /\ OpIsWhole' /\ SkippedMeansGone'
  BY <1>0 DEF OutcomeInv, OpIsWhole, SkippedMeansGone
<1> QED BY <1>2, <1>3, <1>4, <1>5, <1>6

\* The cleaner takes the next part.
LEMMA IngestInv ==
  ASSUME IInv, Ingest
  PROVE  IInv'
<1> USE TransferConstants DEF IInv, Ingest, fixed, version, len
<1> DEFINE n == fed + 1
           v == Ver(n)
           u == Units(n, source[v])
<1>0. fed \in Nat /\ read \in Nat /\ n \in 1..read /\ read <= Parts + 1 /\ total \in Nat
  BY DEF TypeOK, Expected
<1>1. v \in since..version /\ (~multi => v = opened) /\ source[v] > 2 * n - 2
  <2>1. CASE multi
    <3>1. v = get[n].ver
      BY <2>1 DEF Ver
    <3>2. n \in 1..Parts /\ get[n].st = "ok"
      BY <1>0, <2>1 DEF PartInv
    <3> HIDE DEF n, v
    <3>3. get[n].ver \in since..version /\ source[get[n].ver] > 2 * n - 2
      BY <3>2 DEF PartInv
    <3> QED BY <2>1, <3>1, <3>3
  <2>2. CASE ~multi
    <3> DEFINE l == source[opened]
    <3>1. l \in Lengths /\ l # NoObject /\ l \in Int /\ read <= Chunks(l) /\ v = opened
          /\ opened \in since..version
      BY <2>2 DEF SingleInv, Fed, TypeOK, ContentInv, Ver
    <3>2. Chunks(l) \in Nat /\ 2 * Chunks(l) <= l + 1
      BY <3>1, ChunksBound
    <3>3. l > 2 * n - 2
      <4> HIDE DEF l
      <4> QED BY <1>0, <3>1, <3>2
    <3> QED BY <2>2, <3>1, <3>3
  <2> QED BY <2>1, <2>2
<1>2. v \in 1..version /\ source[v] \in Int /\ source[v] \in Lengths
  BY <1>1 DEF TypeOK, ContentInv
<1>3. u \in Int /\ u <= 2 /\ u >= 1
  <2>1. n \in Nat
    BY <1>0
  <2> HIDE DEF n, v
  <2> QED BY <1>1, <1>2, <2>1, UnitsBound
<1>4. total' = total + u /\ fed' = n /\ content' = Append(content, v)
  OBVIOUS
<1>5. total' <= 2 * fed' /\ total' \in Nat
  <2> HIDE DEF u
  <2> QED BY <1>0, <1>3, <1>4 DEF ContentInv
<1>6. SingleInv'
  <2> SUFFICES ASSUME ~multi
               PROVE  total + u = (IF 2 * n <= source[v] THEN 2 * n ELSE source[v])
    BY <1>1, <1>4 DEF SingleInv, Fed
  <2>1. total = (IF 2 * fed <= source[v] THEN 2 * fed ELSE source[v])
    BY <1>1 DEF SingleInv, Fed
  <2> QED BY <1>0, <1>1, <1>2, <2>1 DEF Units
<1>7. total' \in 0..Expected + 1
  <2>1. CASE multi
    BY <1>0, <1>4, <1>5, <2>1 DEF PartInv, Expected
  <2>2. CASE ~multi
    <3>1. total' <= source[v]
      BY <1>0, <1>1, <1>2, <1>4, <1>6, <2>2 DEF SingleInv, Fed
    <3> QED BY <1>2, <1>5, <3>1 DEF Lengths, Expected, NoObject
  <2> QED BY <2>1, <2>2
<1>8. /\ content' \in Seq(Nat) /\ Len(content') = fed'
      /\ \A p \in DOMAIN content' :
           content'[p] \in since..version /\ (~multi => content'[p] = opened)
  <2>1. content \in Seq(Nat) /\ v \in Nat /\ Len(content) = fed
    BY <1>2 DEF ContentInv, TypeOK
  <2>2. /\ content' \in Seq(Nat) /\ Len(content') = fed + 1
        /\ \A p \in 1..fed + 1 : content'[p] = IF p = fed + 1 THEN v ELSE content[p]
    BY <1>4, <2>1
  <2> QED BY <1>0, <1>1, <1>4, <2>1, <2>2 DEF ContentInv
<1>9. TypeOK'
  <2>1. fed' \in 0..read'
    BY <1>0, <1>4
  <2> QED BY <1>7, <1>8, <2>1 DEF TypeOK
<1>10. AttemptInv' /\ CleanInv'
  BY DEF AttemptInv, CleanInv, Fed
<1>11. PartInv'
  BY DEF PartInv
<1>12. ContentInv'
  BY <1>5, <1>8 DEF ContentInv
<1>13. OutcomeInv' /\ OpIsWhole' /\ SkippedMeansGone'
  BY DEF OutcomeInv, OpIsWhole, SkippedMeansGone
<1> QED BY <1>6, <1>9, <1>10, <1>11, <1>12, <1>13

\* The op is pushed and counted.
LEMMA PushInv ==
  ASSUME IInv, Push
  PROVE  IInv'
<1> USE TransferConstants DEF IInv, Push, DropAttempt, fixed, version, len
<1> DEFINE op == [content |-> content, total |-> total, since |-> since, until |-> version]
<1>0. ops = <<>> /\ files_done = 0
  BY DEF OutcomeInv
<1>1. op \in [content : Seq(Nat), total : Int, since : Nat, until : Nat]
  BY DEF ContentInv, TypeOK
<1>2. ops' = <<op>>
  BY <1>0
<1>3. TypeOK'
  <2>1. dead' \in BOOLEAN /\ multi' \in BOOLEAN /\ pc' \in Final
    BY DEF TypeOK, Final
  <2>2. Len(content') = 0 /\ total' \in 0..Expected + 1
    BY DEF Expected
  <2>3. get' \in [1..Parts -> GetRecord] /\ opened' \in 0..version' /\ read' \in 0..Parts + 1
          /\ fed' \in 0..read' /\ fed' = 0
    BY NoGetsType DEF TypeOK
  <2>4. /\ attempt' \in 0..MAX_FILE_ATTEMPTS /\ quiet' \in 0..STALL_POLLS + 1
        /\ age' \in 0..STALL_POLLS /\ files_done' \in 0..1 /\ since' \in 1..version'
        /\ Len(source') \in 1..MaxChanges + 1 /\ \A v \in DOMAIN source' : source'[v] \in Lengths
    BY <1>0 DEF TypeOK
  <2> QED BY <2>1, <2>2, <2>3, <2>4 DEF TypeOK
<1>4. AttemptInv' /\ CleanInv' /\ SingleInv'
  BY DEF AttemptInv, CleanInv, SingleInv, Fed, Running, TypeOK
<1>5. PartInv'
  BY NoGetsType DEF PartInv, TypeOK
<1>6. ContentInv'
  BY DEF ContentInv
<1>7. OutcomeInv'
  BY <1>0, <1>1, <1>2 DEF OutcomeInv
<1>8. OpIsWhole'
  <2>1. op.total = Expected /\ Len(op.content) = Parts
    BY DEF ContentInv, TypeOK
  <2>2. \A p \in DOMAIN op.content : op.content[p] \in op.since..op.until
    BY DEF ContentInv
  <2>3. ~multi => \A p \in DOMAIN op.content : op.content[p] = op.content[1]
    <3>1. 1 \in DOMAIN content
      BY <2>1 DEF ContentInv
    <3> QED BY <3>1 DEF ContentInv
  <2> HIDE DEF op
  <2>4. \A i \in DOMAIN ops' : ops'[i] = op
    <3>1. ops' = <<op>>
      BY <1>2
    <3> HIDE DEF Push
    <3> QED BY <3>1
  <2> QED BY <2>1, <2>2, <2>3, <2>4 DEF OpIsWhole
<1>9. SkippedMeansGone'
  BY DEF SkippedMeansGone
<1> QED BY <1>3, <1>4, <1>5, <1>6, <1>7, <1>8, <1>9

\* A poll that does not abort ages the GETs.
LEMMA PollInv ==
  ASSUME IInv, Poll
  PROVE  IInv'
<1> USE TransferConstants DEF IInv, Poll, fixed, version, len
<1>1. \A p \in 1..Parts : /\ Older(p) \in GetRecord
                          /\ Older(p).st = get[p].st /\ Older(p).ver = get[p].ver
  <2> SUFFICES ASSUME NEW p \in 1..Parts
               PROVE  /\ Older(p) \in GetRecord
                      /\ Older(p).st = get[p].st /\ Older(p).ver = get[p].ver
    OBVIOUS
  <2>1. get[p] \in GetRecord
    BY DEF TypeOK
  <2> HIDE DEF IInv, Poll
  <2> QED BY <2>1 DEF Older, GetRecord
<1>2. quiet' \in 0..STALL_POLLS + 1 /\ age' \in 0..STALL_POLLS
  BY DEF TypeOK
<1>3. TypeOK'
  BY <1>1, <1>2 DEF TypeOK
<1>4. AttemptInv' /\ CleanInv' /\ SingleInv'
  BY DEF AttemptInv, CleanInv, SingleInv, Fed, Running
<1>5. PartInv'
  <2>1. \A p \in 1..Parts : get'[p].st = get[p].st /\ get'[p].ver = get[p].ver
    BY <1>1
  <2>2. multi => \A p \in 1..read : p \in 1..Parts
    BY DEF PartInv, TypeOK
  <2> QED BY <2>1, <2>2 DEF PartInv
<1>6. ContentInv' /\ OutcomeInv' /\ OpIsWhole' /\ SkippedMeansGone'
  BY DEF ContentInv, OutcomeInv, OpIsWhole, SkippedMeansGone
<1> QED BY <1>3, <1>4, <1>5, <1>6

\* The object changes: the versions read so far keep their lengths.
LEMMA SourceChangesInv ==
  ASSUME IInv, SourceChanges
  PROVE  IInv'
<1> USE TransferConstants DEF IInv, fixed, data, version, len
<1>0. PICK l \in Lengths : source' = Append(source, l)
  BY DEF SourceChanges
<1>1. UNCHANGED <<multi, pc, attempt, quiet, age, get, opened, read, fed, total, content, dead,
                  ops, files_done, since>> /\ pc \notin Final /\ version <= MaxChanges
  BY DEF SourceChanges
<1>2. l \in Int
  BY DEF Lengths, NoObject, Expected
<1>3. /\ source' \in Seq(Int) /\ Len(source') = Len(source) + 1
      /\ \A v \in 1..Len(source) : source'[v] = source[v]
      /\ source'[Len(source) + 1] = l
  BY <1>0, <1>2 DEF ContentInv
<1>4. TypeOK'
  <2>1. /\ DOMAIN source = 1..Len(source) /\ DOMAIN source' = 1..Len(source) + 1
        /\ Len(source) \in Nat
    BY <1>3 DEF ContentInv
  <2>2. \A v \in DOMAIN source' : source'[v] \in Lengths
    BY <1>3, <2>1 DEF TypeOK
  <2>3. Len(source') \in 1..MaxChanges + 1 /\ since' \in 1..Len(source')
          /\ opened' \in 0..Len(source')
    BY <1>1, <1>3, <2>1 DEF TypeOK
  <2> QED BY <1>1, <2>2, <2>3 DEF TypeOK
<1>5. AttemptInv' /\ CleanInv'
  BY <1>1 DEF AttemptInv, CleanInv
<1>6. ASSUME NEW v \in since..version
      PROVE  v \in since'..version' /\ source'[v] = source[v]
  <2>1. since \in Nat \ {0} /\ Len(source) \in Nat
    BY DEF TypeOK
  <2>2. v \in 1..Len(source) /\ since' = since
    BY <1>1, <1>6, <2>1
  <2> HIDE DEF IInv
  <2> QED BY <1>3, <1>6, <2>1, <2>2
<1>7. PartInv'
  <2>1. ASSUME NEW p \in 1..Parts
        PROVE  /\ get'[p].st = "ok" => /\ get'[p].ver \in since'..version'
                                       /\ source'[get'[p].ver] > 2 * p - 2
               /\ get'[p].st = "gone" => \E v \in since'..version' : source'[v] = NoObject
    BY <1>1, <1>6 DEF PartInv
  <2> QED BY <1>1, <2>1 DEF PartInv
<1>8. SingleInv'
  BY <1>1, <1>6 DEF SingleInv
<1>9. ContentInv'
  BY <1>1, <1>3, <1>6 DEF ContentInv
<1>10. OutcomeInv' /\ OpIsWhole' /\ SkippedMeansGone'
  BY <1>1 DEF OutcomeInv, OpIsWhole, SkippedMeansGone, Final
<1> QED BY <1>4, <1>5, <1>7, <1>8, <1>9, <1>10

\* Every step keeps it: one case per action.
LEMMA NextInv == IInv /\ [Next]_vars => IInv'
<1> SUFFICES ASSUME IInv, [Next]_vars PROVE IInv'
  OBVIOUS
<1>1. CASE StartAttempt BY <1>1, StartAttemptInv
<1>2. CASE Poll BY <1>2, PollInv
<1>3. CASE StallAbort
  BY <1>3, AttemptFailsInv DEF StallAbort, PollMayAbort, Watched, Running, Final
<1>4. CASE Response \/ ReaderDies \/ Finish BY <1>4, ControlInv
<1>5. CASE ResponseGone
  <2>1. pc \notin Final /\ len(version) = NoObject
    BY <1>5 DEF ResponseGone, Final
  <2>2. version \in since..version
    BY TransferConstants DEF IInv, TypeOK, version
  <2> QED BY <1>5, <2>1, <2>2, EndsInv DEF ResponseGone
<1>6. CASE SingleFails BY <1>6, AttemptFailsInv DEF SingleFails, Final
<1>7. CASE Chunk \/ Yield BY <1>7, ReadInv
<1>8. CASE PartStep BY <1>8, PartStepInv DEF PartStep
<1>9. CASE PartError BY <1>9, AttemptFailsInv DEF PartError, NextFailed, Reads, Final
<1>10. CASE SourceGone
  <2>1. NextFailed("gone") /\ Ends("skipped")
    BY <1>10 DEF SourceGone, NotFound
  <2>2. pc \notin Final
    BY <2>1 DEF NextFailed, Reads, Final
  <2>3. \E v \in since..version : len(v) = NoObject
    <3>1. read + 1 \in 1..Parts /\ get[read + 1].st = "gone"
      BY <2>1, TransferConstants DEF NextFailed, IInv, TypeOK
    <3> QED BY <3>1 DEF IInv, PartInv, len
  <2> QED BY <2>1, <2>2, <2>3, EndsInv
<1>11. CASE Ingest BY <1>11, IngestInv
<1>12. CASE IngestFails BY <1>12, AttemptFailsInv DEF IngestFails, Final
<1>13. CASE EndOfStream BY <1>13, EndOfStreamInv
<1>14. CASE Truncated BY <1>14, AttemptFailsInv DEF Truncated, StreamEnd, Final
<1>15. CASE FinishFails BY <1>15, AttemptFailsInv DEF FinishFails, Final
<1>16. CASE Push BY <1>16, PushInv
<1>17. CASE Drop BY <1>17, EndsInv DEF Drop
<1>18. CASE SourceChanges BY <1>18, SourceChangesInv
<1>19. CASE Over \/ UNCHANGED vars
  <2> USE <1>19 DEF Over, vars, IInv, version, len
  <2>1. TypeOK' BY DEF TypeOK
  <2>2. AttemptInv' /\ CleanInv' BY DEF AttemptInv, CleanInv
  <2>3. PartInv' BY DEF PartInv
  <2>4. SingleInv' BY DEF SingleInv
  <2>5. ContentInv' BY DEF ContentInv
  <2>6. OutcomeInv' BY DEF OutcomeInv
  <2>7. OpIsWhole' /\ SkippedMeansGone' BY DEF OpIsWhole, SkippedMeansGone
  <2> QED BY <2>1, <2>2, <2>3, <2>4, <2>5, <2>6, <2>7
<1> QED BY <1>1, <1>2, <1>3, <1>4, <1>5, <1>6, <1>7, <1>8, <1>9, <1>10, <1>11, <1>12, <1>13,
           <1>14, <1>15, <1>16, <1>17, <1>18, <1>19 DEF Next, Timers

-----------------------------------------------------------------------------
(* The results.                                                            *)

\* The inductive invariant of a transfer.
THEOREM Invariance == Spec => []IInv
BY InitInv, NextInv, PTL DEF Spec

\* Type correctness; the attempts and tries allowed are never exceeded.
THEOREM TypeCorrect == Spec => []TypeOK
<1>1. IInv => TypeOK
  BY DEF IInv
<1> QED BY <1>1, Invariance, PTL

\* A queued op stands for a whole file, read during the attempt that queued it.
THEOREM QueuedIsWhole == Spec => []OpIsWhole
<1>1. IInv => OpIsWhole
  BY DEF IInv
<1> QED BY <1>1, Invariance, PTL

\* upload_one skips a file only when its object was absent during the attempt.
THEOREM OnlyGoneIsSkipped == Spec => []SkippedMeansGone
<1>1. IInv => SkippedMeansGone
  BY DEF IInv
<1> QED BY <1>1, Invariance, PTL

\* The transfer implements FileOutcome, which UploadConsumer takes its upload tasks
\* to be: the op is queued once, and counted, exactly when the file ends Uploaded.
THEOREM Refinement == Spec => KeepsPromise
<1> USE DEF Outcome!Init, Outcome!Next, Outcome!Upload, Outcome!End
<1>1. Init => Outcome!Init
  BY DEF Init, Final
<1>2. IInv /\ [Next]_vars =>
        [Outcome!Next]_<<(IF pc \in Final THEN pc ELSE "running"), Len(ops), files_done>>
  <2> SUFFICES ASSUME IInv, [Next]_vars
               PROVE  [Outcome!Next]_<<(IF pc \in Final THEN pc ELSE "running"), Len(ops),
                                        files_done>>
    OBVIOUS
  <2>1. ASSUME NEW how \in {"backoff", "failed", "skipped", "dropped"}, Ends(how),
               pc \notin Final
        PROVE  [Outcome!Next]_<<(IF pc \in Final THEN pc ELSE "running"), Len(ops), files_done>>
    BY <2>1 DEF Ends, Final
  <2>2. CASE Push
    <3>1. Len(ops') = Len(ops) + 1
      BY <2>2 DEF Push, IInv, OutcomeInv
    <3> QED BY <2>2, <3>1 DEF Push, Final
  <2>3. CASE AttemptFails /\ pc \notin Final
    BY <2>1, <2>3 DEF AttemptFails
  <2>4. CASE (\E how \in {"skipped", "dropped"} : Ends(how)) /\ pc \notin Final
    BY <2>1, <2>4
  <2>5. CASE UNCHANGED <<ops, files_done>> /\ (pc' = pc \/ (pc \notin Final /\ pc' \notin Final))
    BY <2>5
  <2>6. CASE Next
    <3>1. CASE StallAbort \/ SingleFails \/ PartError \/ IngestFails \/ Truncated \/ FinishFails
      BY <2>3, <3>1 DEF StallAbort, PollMayAbort, Watched, SingleFails, PartError, NextFailed,
                        Reads, IngestFails, Truncated, StreamEnd, FinishFails, Running, Final
    <3>2. CASE ResponseGone \/ SourceGone \/ Drop
      BY <2>4, <3>2 DEF ResponseGone, SourceGone, NextFailed, Reads, Drop, Final
    <3>3. CASE StartAttempt \/ Poll \/ Response \/ Chunk \/ Yield \/ ReaderDies
      BY <2>5, <3>3 DEF StartAttempt, Poll, Response, Chunk, Yield, ReaderDies, Reads, Final
    <3>4. CASE PartStep
      BY <2>5, <3>4 DEF PartStep, Launch, Arrive, PartGone, PartFails, SetGet
    <3>5. CASE Ingest \/ EndOfStream \/ Finish \/ SourceChanges \/ Over
      BY <2>5, <3>5 DEF Ingest, EndOfStream, StreamEnd, Finish, SourceChanges, Over, vars, Final
    <3> QED BY <2>2, <2>6, <3>1, <3>2, <3>3, <3>4, <3>5 DEF Next, Timers
  <2>7. CASE UNCHANGED vars
    BY <2>5, <2>7 DEF vars
  <2> QED BY <2>6, <2>7
<1> QED BY <1>1, <1>2, Invariance, PTL DEF Spec, KeepsPromise, Outcome!Spec

\* An attempt has not been quiet for longer than it runs.
ClockInv == quiet <= age \/ age = STALL_POLLS

\* The stall-abort drops no attempt before it ran for the whole stall time.
THEOREM NoAttemptDroppedEarly == Spec => NoEarlyAbort
<1> USE TransferConstants
<1>1. Init => ClockInv
  BY DEF Init, ClockInv
<1>2. TypeOK /\ ClockInv /\ [Next]_vars => ClockInv'
  <2> SUFFICES ASSUME TypeOK, ClockInv, [Next]_vars PROVE ClockInv'
    OBVIOUS
  <2>0. quiet \in Nat /\ age \in 0..STALL_POLLS
    BY DEF TypeOK
  <2>1. CASE UNCHANGED <<quiet, age>>
    BY <2>1 DEF ClockInv
  <2>2. CASE quiet' = 0 /\ (age' = age \/ age' = 0)
    BY <2>0, <2>2 DEF ClockInv
  <2>3. CASE Poll
    BY <2>0, <2>3 DEF ClockInv, Poll
  <2>4. CASE \E how : Ends(how)
    BY <2>1, <2>4 DEF Ends
  <2>5. CASE Next
    <3>1. CASE StartAttempt \/ Chunk \/ Yield \/ Ingest
      BY <2>2, <3>1 DEF StartAttempt, FreshClock, Chunk, Yield, Ingest
    <3>2. CASE StallAbort \/ SingleFails \/ PartError \/ IngestFails \/ Truncated \/ FinishFails
      BY <2>4, <3>2 DEF StallAbort, SingleFails, PartError, IngestFails, Truncated, FinishFails,
                        AttemptFails
    <3>3. CASE ResponseGone \/ SourceGone \/ Drop
      BY <2>4, <3>3 DEF ResponseGone, SourceGone, Drop
    <3>4. CASE PartStep
      BY <2>1, <3>4 DEF PartStep, Launch, Arrive, PartGone, PartFails, SetGet
    <3>5. CASE Response \/ ReaderDies \/ EndOfStream \/ Finish \/ Push \/ SourceChanges \/ Over
      BY <2>1, <3>5 DEF Response, ReaderDies, EndOfStream, Finish, Push, SourceChanges, Over, vars
    <3> QED BY <2>3, <2>5, <3>1, <3>2, <3>3, <3>4, <3>5 DEF Next, Timers
  <2>6. CASE UNCHANGED vars
    BY <2>1, <2>6 DEF vars
  <2> QED BY <2>5, <2>6
<1>3. TypeOK /\ ClockInv => (StallAbort => age + 1 >= STALL_POLLS)
  BY DEF TypeOK, ClockInv, StallAbort, PollMayAbort
<1>4. TypeOK /\ ClockInv /\ [Next]_vars => [StallAbort => age + 1 >= STALL_POLLS]_vars
  BY <1>3
<1> QED BY <1>1, <1>2, <1>4, TypeCorrect, PTL DEF Spec, NoEarlyAbort

=============================================================================
