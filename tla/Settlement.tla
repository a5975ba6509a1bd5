----------------------------- MODULE Settlement -----------------------------
(***************************************************************************)
(* BucketClient::batch, which commits the ops of one session: POST the     *)
(* pending ops (send_retry repeats a request that was lost or throttled),  *)
(* let Settlement::observe judge the response, and re-send the ops the     *)
(* response names as failed, a bounded number of times.                    *)
(*                                                                         *)
(* The destination is external.  For each request it handles it attempts   *)
(* some of the ops (`tried`), applies some of those (`ok`), and answers    *)
(* with a report that names some of the failed ones.  A report may leave   *)
(* ops out, carry a wrong `success` flag, or lack either counter; the      *)
(* counters it does carry are true of what it did.  An op is an upsert     *)
(* identified by its path, and no two ops of a batch share a path.         *)
(***************************************************************************)
EXTENDS Integers, FiniteSets

CONSTANTS
  Ops,      \* the ops of the batch
  Unknown,  \* a path that is not one of them
  MAX_TRIES \* requests per attempt (send_retry's MAX_ATTEMPTS, 6)

ASSUME OpsAssumption == IsFiniteSet(Ops) /\ Unknown \notin Ops
ASSUME TriesAssumption == MAX_TRIES \in Nat \ {0}

BATCH_ATTEMPTS == 3

VARIABLES
  pending,   \* ops the server has not confirmed
  attempt,   \* responses observed
  tries,     \* requests of this attempt that failed so far
  st,        \* "post", "sleep", or the outcome "done" / "err"
  applied,   \* external: ops the destination has applied
  sure,      \* history: every report acted on carried both counters
  unsettled  \* history: ops the last readable report named as failed

vars == <<pending, attempt, tries, st, applied, sure, unsettled>>

-----------------------------------------------------------------------------
(* Operators named Bad... are faulty variants of the definition after them, *)
(* used only to see that a property notices the fault.                     *)

\* batch(): no op, no request.
Init ==
  /\ pending = Ops /\ attempt = 0 /\ tries = 0
  /\ st = IF Ops = {} THEN "done" ELSE "post"
  /\ applied = {} /\ sure = TRUE /\ unsettled = {}

\* The destination applies some of the ops of a request whose answer tells
\* nothing about them.
ApplySome == \E ok \in SUBSET pending : applied' = applied \cup ok

\* next_attempt(), after `attempt` was advanced.
NextAttempt == IF attempt + 1 >= BATCH_ATTEMPTS THEN "err" ELSE "sleep"

\* The connection fails or times out.
RequestLost ==
  /\ st = "post"
  /\ tries' = tries + 1
  /\ st' = IF tries + 1 >= MAX_TRIES THEN "err" ELSE "post"
  /\ ApplySome
  /\ UNCHANGED <<pending, attempt, sure, unsettled>>

\* 429 or 5xx: repeated while tries last, then final.
Throttled ==
  /\ st = "post"
  /\ \/ tries + 1 < MAX_TRIES /\ tries' = tries + 1 /\ UNCHANGED <<st, attempt>>
     \/ tries + 1 >= MAX_TRIES /\ st' = "err" /\ attempt' = attempt + 1 /\ UNCHANGED tries
  /\ ApplySome
  /\ UNCHANGED <<pending, sure, unsettled>>

\* Any other status, or a 422 whose body cannot be read.
Rejected ==
  /\ st = "post"
  /\ st' = "err" /\ attempt' = attempt + 1
  /\ ApplySome
  /\ UNCHANGED <<pending, tries, sure, unsettled>>

\* A 2xx whose body cannot be read: trusted on the first attempt only.
BadTrusts == TRUE                       \* on a re-send as well
Trusts    == attempt = 0

Unreadable ==
  /\ st = "post"
  /\ attempt' = attempt + 1
  /\ st' = IF Trusts THEN "done" ELSE NextAttempt
  /\ sure' = FALSE
  /\ ApplySome
  /\ UNCHANGED <<pending, tries, unsettled>>

\* The checks of a readable report against the ops sent.  `processed` and
\* `succeeded` are counts, or None when the report lacks them.
None == -1

ProcessedOK(processed) == processed = None \/ processed = Cardinality(pending)

BadSucceededOK(succeeded, retry) == TRUE   \* ops left out go unnoticed
SucceededOK(succeeded, retry) ==
  succeeded = None \/ succeeded = Cardinality(pending) - Cardinality(retry)

\* retry_ops: every named path must be one that was sent.
retry_ops(failed)  == pending \cap failed
AllNamedSent(failed) == failed \subseteq pending

\* A readable 200 or 422 report.
Judge(ok, failed, processed, succeeded, success) ==
  LET retry == retry_ops(failed)
      accepted == /\ ProcessedOK(processed) /\ AllNamedSent(failed)
                  /\ SucceededOK(succeeded, retry)
  IN
  /\ applied' = applied \cup ok
  /\ \/ /\ ~accepted \/ (retry = {} /\ ~success)
        /\ st' = "err"
        /\ UNCHANGED <<pending, sure, unsettled>>
     \/ /\ accepted /\ retry = {} /\ success
        /\ st' = "done"
        /\ sure' = (sure /\ processed # None /\ succeeded # None)
        /\ unsettled' = {}
        /\ UNCHANGED pending
     \/ /\ accepted /\ retry # {}
        /\ st' = NextAttempt
        /\ pending' = retry
        /\ sure' = (sure /\ processed # None /\ succeeded # None)
        /\ unsettled' = retry
Report ==
  /\ st = "post"
  /\ attempt' = attempt + 1
  /\ \E tried \in SUBSET pending : \E ok \in SUBSET tried :
     \E failed \in SUBSET ((tried \ ok) \cup {Unknown}) :
     \E processed \in {None, Cardinality(tried)}, succeeded \in {None, Cardinality(ok)} :
     \E success \in BOOLEAN : Judge(ok, failed, processed, succeeded, success)
  /\ UNCHANGED tries

\* The backoff is over: the next attempt has its own request budget.
BadResend ==                            \* and its own attempt count
  /\ st = "sleep"
  /\ st' = "post" /\ tries' = 0 /\ attempt' = 0
  /\ UNCHANGED <<pending, applied, sure, unsettled>>
Resend ==
  /\ st = "sleep"
  /\ st' = "post" /\ tries' = 0
  /\ UNCHANGED <<pending, attempt, applied, sure, unsettled>>

Request == RequestLost \/ Throttled \/ Rejected \/ Unreadable \/ Report

Finished == st \in {"done", "err"} /\ UNCHANGED vars

Next == Request \/ Resend \/ Finished

Spec     == Init /\ [][Next]_vars
\* Requests carry a 180 s timeout and the backoffs are sleeps.
FairSpec == Spec /\ WF_vars(Request) /\ WF_vars(Resend)

-----------------------------------------------------------------------------
(* Properties.                                                             *)

\* Every variable of a settlement keeps its type; in particular an attempt is
\* never made beyond BATCH_ATTEMPTS.
TypeOK ==
  /\ pending \in SUBSET Ops
  /\ attempt \in 0..BATCH_ATTEMPTS
  /\ tries \in 0..MAX_TRIES
  /\ st \in {"post", "sleep", "done", "err"}
  /\ applied \in SUBSET Ops /\ unsettled \in SUBSET Ops
  /\ sure \in BOOLEAN

\* batch() returns Ok on counted reports only when every op has been applied,
\* also over several attempts, lost answers and reports that left ops out.
SureMeansApplied == st = "done" /\ sure => applied = Ops

\* batch() never returns Ok while the last word of the server on some op is that
\* it failed.
NothingUnsettled == st = "done" => unsettled = {}

\* A settlement ends.
Settles == <>(st \in {"done", "err"})

\* The inductive invariant behind SureMeansApplied: what is no longer pending
\* was applied.
IInv ==
  /\ TypeOK
  /\ st \in {"post", "sleep"} /\ sure => Ops \ pending \subseteq applied
  /\ st = "post" => attempt < BATCH_ATTEMPTS /\ tries < MAX_TRIES
  /\ st = "sleep" => attempt < BATCH_ATTEMPTS
  /\ attempt = 0 => unsettled = {}
  /\ SureMeansApplied /\ NothingUnsettled
=============================================================================
