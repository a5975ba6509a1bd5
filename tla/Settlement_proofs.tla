-------------------------- MODULE Settlement_proofs --------------------------
(***************************************************************************)
(* Proofs about Settlement for every batch and every request budget: an Ok *)
(* that rests on counted reports means that every op was applied.          *)
(***************************************************************************)
EXTENDS Settlement, FiniteSetTheorems, TLAPS

\* A report whose counters add up leaves no op out: with `succeeded` equal to
\* the ops sent minus the ops named, every op not named was applied.
LEMMA CountersCover ==
  ASSUME NEW sent, IsFiniteSet(sent), NEW ok \in SUBSET sent, NEW retry \in SUBSET sent,
         ok \cap retry = {},
         Cardinality(ok) = Cardinality(sent) - Cardinality(retry)
  PROVE  sent \ retry \subseteq ok
<1>1. IsFiniteSet(ok) /\ IsFiniteSet(retry) /\ ok \cup retry \in SUBSET sent
  BY FS_Subset
<1>2. /\ Cardinality(sent) \in Nat /\ Cardinality(ok) \in Nat /\ Cardinality(retry) \in Nat
      /\ Cardinality(ok \cap retry) = 0
  BY <1>1, FS_CardinalityType, FS_EmptySet
<1>3. Cardinality(ok \cup retry)
        = Cardinality(ok) + Cardinality(retry) - Cardinality(ok \cap retry)
  BY <1>1, FS_Union
<1>4. Cardinality(ok \cup retry) = Cardinality(sent)
  BY <1>2, <1>3
<1>5. ok \cup retry = sent
  BY <1>1, <1>4, FS_Subset
<1>6. QED
  BY <1>5

\* The initial state satisfies the inductive invariant.
LEMMA InitInv == Init => IInv
  BY OpsAssumption, TriesAssumption
     DEF Init, IInv, TypeOK, SureMeansApplied, NothingUnsettled, BATCH_ATTEMPTS

\* A readable report preserves the inductive invariant.
LEMMA ReportInv ==
  ASSUME IInv, Report
  PROVE  IInv'
<1> USE OpsAssumption, TriesAssumption DEF IInv, TypeOK
<1>0. PICK tried \in SUBSET pending : \E ok \in SUBSET tried :
        \E failed \in SUBSET ((tried \ ok) \cup {Unknown}) :
        \E processed \in {None, Cardinality(tried)}, succeeded \in {None, Cardinality(ok)} :
        \E success \in BOOLEAN : Judge(ok, failed, processed, succeeded, success)
  BY Zenon DEF Report
<1>a. PICK ok \in SUBSET tried :
        \E failed \in SUBSET ((tried \ ok) \cup {Unknown}) :
        \E processed \in {None, Cardinality(tried)}, succeeded \in {None, Cardinality(ok)} :
        \E success \in BOOLEAN : Judge(ok, failed, processed, succeeded, success)
  BY <1>0, Zenon
<1>b. PICK failed \in SUBSET ((tried \ ok) \cup {Unknown}) :
        \E processed \in {None, Cardinality(tried)}, succeeded \in {None, Cardinality(ok)} :
        \E success \in BOOLEAN : Judge(ok, failed, processed, succeeded, success)
  BY <1>a, Zenon
<1>c. PICK processed \in {None, Cardinality(tried)}, succeeded \in {None, Cardinality(ok)},
           success \in BOOLEAN : Judge(ok, failed, processed, succeeded, success)
  BY <1>b, Zenon
<1> DEFINE retry == retry_ops(failed)
           accepted == /\ ProcessedOK(processed) /\ AllNamedSent(failed)
                       /\ SucceededOK(succeeded, retry)
<1>1. /\ applied' = applied \cup ok
      /\ \/ /\ ~accepted \/ (retry = {} /\ ~success)
            /\ st' = "err"
            /\ UNCHANGED <<pending, sure, unsettled>>
         \/ /\ accepted /\ retry = {} /\ success
            /\ st' = "done"
            /\ sure' = (sure /\ processed # None /\ succeeded # None)
            /\ unsettled' = {}
            /\ UNCHANGED pending
         \/ /\ accepted /\ retry # {}
            /\ st' = NextAttempt
            /\ pending' = retry
            /\ sure' = (sure /\ processed # None /\ succeeded # None)
            /\ unsettled' = retry
  BY <1>c, Zenon DEF Judge
<1>2. /\ st = "post" /\ attempt' = attempt + 1 /\ tries' = tries
      /\ attempt < BATCH_ATTEMPTS /\ tries < MAX_TRIES
  BY DEF Report
<1>3. retry \in SUBSET pending /\ ok \cap retry = {}
  BY DEF retry_ops
<1>4. IsFiniteSet(pending)
  BY FS_Subset
<1>5. accepted /\ succeeded # None => pending \ retry \subseteq ok
  <2> SUFFICES ASSUME accepted, succeeded # None
               PROVE  pending \ retry \subseteq ok
    OBVIOUS
  <2>1. Cardinality(ok) = Cardinality(pending) - Cardinality(retry)
    BY DEF SucceededOK
  <2>2. QED
    BY <1>3, <1>4, <2>1, CountersCover
<1> HIDE DEF retry, accepted
<1>6. CASE st' = "err" /\ UNCHANGED <<pending, sure, unsettled>>
  BY <1>1, <1>2, <1>6 DEF SureMeansApplied, NothingUnsettled, BATCH_ATTEMPTS
<1>7. CASE /\ accepted /\ retry = {} /\ st' = "done"
           /\ sure' = (sure /\ processed # None /\ succeeded # None)
           /\ unsettled' = {} /\ pending' = pending
  <2>1. sure' => applied' = Ops
    BY <1>1, <1>2, <1>5, <1>7
  <2>2. QED
    BY <1>1, <1>2, <1>7, <2>1 DEF SureMeansApplied, NothingUnsettled, BATCH_ATTEMPTS
<1>8. CASE /\ accepted /\ st' = NextAttempt /\ pending' = retry
           /\ sure' = (sure /\ processed # None /\ succeeded # None)
           /\ unsettled' = retry
  <2>1. sure' => Ops \ pending' \subseteq applied'
    BY <1>1, <1>2, <1>5, <1>8
  <2>2. st' \in {"err", "sleep"} /\ (st' = "sleep" => attempt' < BATCH_ATTEMPTS)
    BY <1>2, <1>8 DEF NextAttempt, BATCH_ATTEMPTS
  <2>3. QED
    BY <1>1, <1>2, <1>3, <1>8, <2>1, <2>2 DEF SureMeansApplied, NothingUnsettled, BATCH_ATTEMPTS
<1>9. QED
  BY <1>1, <1>6, <1>7, <1>8 DEF retry, accepted

\* Every step preserves the inductive invariant.
LEMMA NextInv == IInv /\ [Next]_vars => IInv'
<1> SUFFICES ASSUME IInv, [Next]_vars
             PROVE  IInv'
  OBVIOUS
<1> USE OpsAssumption, TriesAssumption
        DEF IInv, TypeOK, SureMeansApplied, NothingUnsettled, BATCH_ATTEMPTS
<1>1. CASE RequestLost
  BY <1>1 DEF RequestLost, ApplySome
<1>2. CASE Throttled
  BY <1>2 DEF Throttled, ApplySome
<1>3. CASE Rejected
  BY <1>3 DEF Rejected, ApplySome
<1>4. CASE Unreadable
  <2>1. PICK ok \in SUBSET pending : applied' = applied \cup ok
    BY <1>4 DEF Unreadable, ApplySome
  <2>2. /\ st = "post" /\ attempt' = attempt + 1 /\ sure' = FALSE
        /\ st' = IF attempt = 0 THEN "done"
                 ELSE IF attempt + 1 >= BATCH_ATTEMPTS THEN "err" ELSE "sleep"
        /\ UNCHANGED <<pending, tries, unsettled>>
    BY <1>4 DEF Unreadable, Trusts, NextAttempt
  <2>3. sure' \in BOOLEAN /\ ~sure'
    BY <2>2
  <2>4. /\ attempt' \in 0..BATCH_ATTEMPTS /\ attempt' # 0
        /\ st' \in {"done", "err", "sleep"}
        /\ st' = "sleep" => attempt' < BATCH_ATTEMPTS
        /\ st' = "done" => unsettled' = {}
    BY <2>2
  <2>5. /\ pending' \in SUBSET Ops /\ applied' \in SUBSET Ops
        /\ tries' \in 0..MAX_TRIES /\ unsettled' \in SUBSET Ops
    BY <2>1, <2>2
  <2>6. QED
    BY <2>3, <2>4, <2>5
<1>5. CASE Resend
  BY <1>5 DEF Resend
<1>6. CASE Finished \/ UNCHANGED vars
  BY <1>6 DEF Finished, vars
<1>7. QED
  BY <1>1, <1>2, <1>3, <1>4, <1>5, <1>6, ReportInv DEF Next, Request

\* IInv holds in every reachable state of a settlement.
THEOREM Invariance == Spec => []IInv
  BY InitInv, NextInv, PTL DEF Spec

\* Type correctness; BATCH_ATTEMPTS and MAX_TRIES are never exceeded.
THEOREM TypeCorrect == Spec => []TypeOK
<1>1. IInv => TypeOK
  BY DEF IInv
<1>2. QED
  BY <1>1, Invariance, PTL

\* batch() returns Ok on counted reports only when every op has been applied.
THEOREM ConfirmedMeansApplied == Spec => []SureMeansApplied
<1>1. IInv => SureMeansApplied
  BY DEF IInv
<1>2. QED
  BY <1>1, Invariance, PTL

\* batch() never returns Ok over an op the server last named as failed.
THEOREM NamedOpsSettled == Spec => []NothingUnsettled
<1>1. IInv => NothingUnsettled
  BY DEF IInv
<1>2. QED
  BY <1>1, Invariance, PTL
=============================================================================
