------------------------------ MODULE MCBatch -------------------------------
(***************************************************************************)
(* Small instances of Batch.  A behaviour makes one retry, which may cross *)
(* anything, among two mishaps; or two retries, which overlap each other   *)
(* and the downloads without mishaps, or keep their turn with one.         *)
(***************************************************************************)
EXTENDS Batch, TLC

CONSTANTS p1, p2, w1, w2, c1

OnePage == {p1}
TwoPages == {p1, p2}
OneWorker == {w1}
TwoWorkers == {w1, w2}
OneClient == {c1}
Symmetry == Permutations(TwoPages) \cup Permutations(TwoWorkers)

InTurn == \A k \in Retries : UnderWay(k) => /\ \A m \in Retries : UnderWay(m) => m = k
                                         /\ \A c \in Clients : dl[c].at = "idle"
Total(m) == m.deaths + m.sweeps
Bounded ==
    \/ \A k \in Retries : k > 1 => Asking(k) = "idle"
    \/ Total(mishaps) = 0
    \/ Total(mishaps) = 1 /\ crossed = {} /\ InTurn

\* A sweep takes at most one object of each page.
Few == {old \in SUBSET JobIds : \A i, j \in old : i[1] = j[1] => i = j}

MCNext == /\ Step \/ \E old \in Few, arch \in BOOLEAN : Sweep(old, arch)
          /\ Bounded'
MCSpec == Init /\ [][MCNext]_vars
=============================================================================
