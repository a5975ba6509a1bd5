------------------------------ MODULE RangeCopy ------------------------------
(***************************************************************************)
(* What one copier promises its planner about the objects of its range.    *)
(* Objects are offered one by one; each ends up at the destination, or     *)
(* turns out to be gone from the source.  The result is "ok" only when     *)
(* that holds for all of them.  A failed copier promises nothing about     *)
(* what landed: requests on the wire may still be applied.                 *)
(***************************************************************************)
CONSTANT Objects

VARIABLES
  offered,   \* objects the listing handed to the pipeline
  gone,      \* objects the source no longer has
  landed,    \* objects at the destination
  result     \* "running", "ok" or "err"

vars == <<offered, gone, landed, result>>

Init == offered = {} /\ gone = {} /\ landed = {} /\ result = "running"

Offer == /\ result = "running"
         /\ \E o \in Objects \ offered : offered' = offered \cup {o}
         /\ UNCHANGED <<gone, landed, result>>

Vanish == /\ result # "ok"
          /\ \E o \in offered \ landed : gone' = gone \cup {o}
          /\ UNCHANGED <<offered, landed, result>>

Land == /\ result # "ok"
        /\ \E C \in SUBSET (offered \ gone) : landed' = landed \cup C
        /\ UNCHANGED <<offered, gone, result>>

Succeed == /\ result = "running"
           /\ offered \subseteq landed \cup gone
           /\ result' = "ok"
           /\ UNCHANGED <<offered, gone, landed>>

Fail == /\ result = "running"
        /\ result' = "err"
        /\ UNCHANGED <<offered, gone, landed>>

Next == Offer \/ Vanish \/ Land \/ Succeed \/ Fail

Spec == Init /\ [][Next]_vars
=============================================================================
