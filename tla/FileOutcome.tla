---------------------------- MODULE FileOutcome -----------------------------
(***************************************************************************)
(* What the transfer of one file (`upload_one`) promises the copier that   *)
(* runs it: it ends once; its op is queued and the file counted in the     *)
(* same step as it ends Uploaded, and in no other.  UploadConsumer takes   *)
(* its upload tasks to behave like this (UploadDone, UploadNone, Abort).   *)
(***************************************************************************)
EXTENDS Naturals

VARIABLES
  outcome,    \* "running", "uploaded", "skipped", "failed" or "dropped"
  queued,     \* ops the file has put in its session's collector
  files_done  \* what it added to Metrics::files_done

Init == outcome = "running" /\ queued = 0 /\ files_done = 0

Upload == /\ outcome = "running" /\ outcome' = "uploaded"
          /\ queued' = queued + 1 /\ files_done' = files_done + 1

\* Gone from the source (404), out of attempts, or dropped with the copier.
End(how) == /\ outcome = "running" /\ outcome' = how
            /\ UNCHANGED <<queued, files_done>>

Next == Upload \/ \E how \in {"skipped", "failed", "dropped"} : End(how)

Spec == Init /\ [][Next]_<<outcome, queued, files_done>>
=============================================================================
