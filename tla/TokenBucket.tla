---------------------------- MODULE TokenBucket -----------------------------
(***************************************************************************)
(* What a rate limit promises: a user may make burst + 1 requests at once  *)
(* and one more per emission interval.  A bucket holds at most Capacity    *)
(* units, gains one per tick and pays Cost for every request.              *)
(***************************************************************************)
EXTENDS Integers

CONSTANTS Users, Capacity, Cost

VARIABLE level

Init == level = [u \in Users |-> Capacity]

Admit(u) == level[u] >= Cost /\ level' = [level EXCEPT ![u] = @ - Cost]
Refill == level' = [u \in Users |-> IF level[u] < Capacity THEN level[u] + 1 ELSE Capacity]

Next == Refill \/ \E u \in Users : Admit(u)
Spec == Init /\ [][Next]_level
=============================================================================
