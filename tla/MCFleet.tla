------------------------------ MODULE MCFleet -------------------------------
(* Instances of Fleet for TLC.                                             *)
EXTENDS Fleet

\* Five keys, the second one excluded by a glob.
MCKept == {1, 3, 4, 5}
MCSize == [k \in Keys |-> IF k = 1 THEN 5 ELSE 1]
=============================================================================
