------------------------------ MODULE MCVerify ------------------------------
(* Constants for model-checking Verify. *)
EXTENDS Verify

\* Two ranges of two keys.  Key 1, an empty file, and key 3 are planned; key 2
\* is kept but was not there when the plan was made; a glob excludes key 4.
MCKept    == {1, 2, 3}
MCPlanned == [k \in {1, 3} |-> IF k = 1 THEN 0 ELSE 1]
MCStops   == <<2, 4>>
=============================================================================
