---------------------------- MODULE BatchPromise ----------------------------
(***************************************************************************)
(* What a batch promises its user: a status and a set of pages to settle.  *)
(* A queued batch becomes finished in the very step that settles its last  *)
(* page; only new pages (a retry) reopen it.                               *)
(***************************************************************************)
CONSTANT Items     \* everything that may ever have to be settled for the batch

VARIABLES
    status,        \* "none", "open", "queued", "finished" or "deleted"
    todo           \* the items not settled yet

pvars == <<status, todo>>

Init == status = "none" /\ todo = {}

\* The archive is being read; its pages appear as they are stored.
Open == status = "none" /\ status' = "open" /\ todo' = todo
Store(more) == status = "open" /\ status' = status /\ todo' = todo \cup more

\* The archive is read whole, with at least one page.
Accept(more) ==
    /\ status = "open" /\ todo \cup more # {}
    /\ status' = "queued" /\ todo' = todo \cup more

Settle(i) ==
    /\ i \in todo /\ todo' = todo \ {i}
    /\ status' = IF status = "queued" /\ todo' = {} THEN "finished" ELSE status

Reopen(more) ==
    /\ status \in {"queued", "finished"} /\ more # {}
    /\ status' = "queued" /\ todo' = todo \cup more

Delete == status # "none" /\ status' = "deleted" /\ todo' = {}

Next ==
    \/ Open \/ Delete
    \/ \E more \in SUBSET Items : Store(more) \/ Accept(more) \/ Reopen(more)
    \/ \E i \in Items : Settle(i)

Spec == Init /\ [][Next]_pvars
=============================================================================
