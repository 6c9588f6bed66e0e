------------------------- MODULE BatchArchiveProofs -------------------------
(***************************************************************************)
(* The rows, the objects and the results archive of a batch agree with     *)
(* each other (BatchSoundness), and its counters reach its total           *)
(* (CountsReach), for any archive, workers, clients and number of retries, *)
(* deaths and retention sweeps.                                            *)
(***************************************************************************)
EXTENDS BatchProofs

\* Storing an archive takes less than the queued deadline, and the storage cap never
\* reaches the results of a page that is not settled yet.
Unhurried == PromptSubmit /\ TightCap = FALSE

\* The request that made a job has enqueued it; or it has not ended yet.
Enqueued(j) == IF j[2] = 0 THEN sub.at = "answered" ELSE retry[j[2]].at = "end"
Unreaped(j) == IF j[2] = 0 THEN sub.at \notin {"dead", "answered"} ELSE retry[j[2]].at # "end"
Attended(j) == \E w \in Workers : txn[w].job = j

\* A job is worked on, has results and loses them only after its request enqueued it;
\* it has a result row exactly when it is done; and what is still to be settled in
\* Redis has neither failed nor lost its results.
PageInv ==
    \A j \in JobIds :
        /\ (j \in live \/ Attended(j) \/ result[j] # "none" \/ j \in cln.evict) => Enqueued(j)
        /\ Unreaped(j) => job[j] \in {"none", "queued"}
        /\ result[j] # "none" <=> job[j] = "done"
        /\ (j \in live \/ Attended(j)) => job[j] # "failed"
        /\ j \in live => result[j] # "evicted" /\ j \notin cln.evict

\* A page is settled by one worker at a time; a harvest leaves its hash live until it
\* has counted the page, a failure has ended it before.
TxnInv ==
    \A w \in Workers :
        /\ txn[w].at = "idle" => txn[w] = IdleTxn
        /\ txn[w].at # "idle" => /\ txn[w].job \in JobIds
                                 /\ txn[w].ok <=> txn[w].job \in live
                                 /\ \A v \in Workers \ {w} : txn[v].job # txn[w].job

\* Stored results have their object until retention deletes it, and so have those a
\* harvest is about to store, if the results bucket keeps them (LongResults).
ObjectInv ==
    /\ \A j \in JobIds : result[j] = "stored" => \/ j \in objects \/ cln.at = "delete"
                                                 \/ cln.at = "mark" /\ j \in cln.evict
    /\ \A w \in Workers : txn[w].ok /\ txn[w].at # "count" =>
           txn[w].job \in objects \/ cln.at = "delete" \/ job[txn[w].job] = "none"

\* A finished batch has nothing to settle.  As long as no retry has crossed the
\* building of an archive, one that is not finished has no archive and nobody builds
\* one, and a retry that loaded a batch with no archive commits one with none.
AskInv ==
    /\ status = "finished" => \A j \in JobIds : job[j] # "queued"
    /\ "archive" \notin crossed =>
          /\ status \in {"none", "open", "queued"} => ~built /\ \A c \in Clients : dl[c].at = "idle"
          /\ \A k \in Retries : BlindToArchive(k) => ~built

\* The content an archive of the batch must have.
Good(a) == /\ a \subseteq Current
           /\ \A p \in PagesIn("done") : result[Latest(p)] = "stored" => Latest(p) \in a

\* A download that is building the archive has read at least the stored results, and
\* exactly the current jobs; the archive it has stored, or committed, is good, as long
\* as no retry has crossed it.
ArchiveInv ==
    "archive" \notin crossed /\ status = "finished" =>
        /\ \A c \in Clients :
            /\ dl[c].at \in {"pages", "build"}
                  => {j \in JobIds : result[j] = "stored"} \subseteq dl[c].stored
            /\ dl[c].at = "build" => dl[c].pages = Current
            /\ dl[c].at = "commit" => archive = NoArchive \/ Good(archive)
        /\ built => archive = NoArchive \/ Good(archive)

SoundInv ==
    /\ PromiseInv /\ UploadInv /\ PageInv /\ TxnInv
    /\ (LongResults => ObjectInv) /\ AskInv /\ ArchiveInv

USE DEF dbVars, storeVars, redisVars

-----------------------------------------------------------------------------
\* Jobs, requests and transactions.

LEMMA NoJob == <<>> \notin JobIds
BY DEF JobIds

LEMMA JobParts == \A j \in JobIds : j[1] \in Pages /\ (j[2] = 0 \/ j[2] \in Retries)
BY BatchAssumption DEF JobIds, Retries

\* No job is both enqueued and out of the reaper's reach.
LEMMA EnqueuedReaped == ASSUME NEW j, Enqueued(j) PROVE ~Unreaped(j)
BY DEF Enqueued, Unreaped

\* A step that takes up no job and changes no row keeps PageInv.
LEMMA PageFrame ==
    ASSUME PageInv, job' = job, result' = result, live' \subseteq live,
           cln'.evict \subseteq cln.evict,
           \A w \in Workers : txn'[w].job = txn[w].job \/ txn'[w].job = <<>>,
           \A j \in JobIds : (Enqueued(j) => Enqueued(j)') /\ (Unreaped(j)' => Unreaped(j))
    PROVE  PageInv'
<1>1. \A j \in JobIds : Attended(j)' => Attended(j)
  BY NoJob DEF Attended
<1> QED
  BY <1>1 DEF PageInv

LEMMA SubmitFrame ==
    ASSUME retry' = retry, sub'.at = sub.at
    PROVE  \A j : (Enqueued(j)' <=> Enqueued(j)) /\ (Unreaped(j)' <=> Unreaped(j))
BY DEF Enqueued, Unreaped

-----------------------------------------------------------------------------
\* PageInv.

\* What a job is like before its request has enqueued it.
LEMMA Fresh ==
    ASSUME PageInv, NEW j \in JobIds, ~Enqueued(j)
    PROVE  j \notin live /\ ~Attended(j) /\ result[j] = "none" /\ j \notin cln.evict
BY DEF PageInv

LEMMA PageSubmit ==
    ASSUME Types, SubmitInv, UploadInv, PageInv,
           \/ SubmitStep \/ ApiDies
           \/ \E p \in Pages : UploadEnds(p, FALSE)
           \/ \E landed \in SUBSET Pages : Refuse(landed)
    PROVE  PageInv'
<1> USE DEF SubmitOnly
<1>0. /\ result' = result /\ txn' = txn /\ retry' = retry /\ cln' = cln
      /\ sub.at # "answered"
      /\ sub'.at = "dead" \/ (sub.at # "dead" /\ sub'.at # "dead")
      /\ sub'.at # "answered" \/ EnqueuePages
  BY DEF UploadInv, SubmitStep, ApiDies, UploadEnds, Refuse, SubmitBatch, AbandonObjects,
     AbandonRows, SubmitCommit, InitBatch, EnqueuePages, StorePage, Types, Submits
<1>1. \A j \in JobIds : (Enqueued(j) => Enqueued(j)') /\ (Unreaped(j)' => Unreaped(j))
  BY <1>0 DEF Enqueued, Unreaped
<1>2. \A j \in JobIds : Attended(j)' <=> Attended(j)
  BY <1>0 DEF Attended
<1>3. \A j \in JobIds : j[2] = 0 <=> j \in Orig
  BY DEF JobIds, Orig
<1>4. ASSUME live' = live, \A j \in JobIds : job'[j] = job[j] \/ (j \in Orig /\ job'[j] = "queued")
      PROVE  PageInv'
  <2> SUFFICES ASSUME NEW j \in JobIds
               PROVE  /\ (j \in live \/ Attended(j) \/ result[j] # "none" \/ j \in cln.evict)
                            => Enqueued(j)
                      /\ Unreaped(j)' => job'[j] \in {"none", "queued"}
                      /\ result[j] # "none" <=> job'[j] = "done"
                      /\ (j \in live \/ Attended(j)) => job'[j] # "failed"
                      /\ j \in live => result[j] # "evicted" /\ j \notin cln.evict
    BY <1>0, <1>1, <1>2, <1>4 DEF PageInv
  <2>1. CASE job'[j] = job[j]
    BY <2>1, <1>1 DEF PageInv
  <2>2. CASE j \in Orig /\ job'[j] = "queued"
    <3>1. ~Enqueued(j)
      BY <1>0, <1>3, <2>2 DEF Enqueued
    <3> QED
      BY <2>2, <3>1, Fresh
  <2> QED
    BY <1>4, <2>1, <2>2
<1>5. ASSUME NEW p \in Pages, StorePage(p) PROVE PageInv'
  BY <1>3, <1>4, <1>5 DEF StorePage, Types, TypeOK
<1>6. CASE SubmitCommit
  BY <1>3, <1>4, <1>6 DEF SubmitCommit, Types, TypeOK
<1>7. CASE AbandonRows
  <2>1. \A j \in JobIds : result[j] = "none" /\ j \notin live /\ ~Attended(j)
    BY <1>7, NoJob DEF AbandonRows, SubmitInv, Quiet, Attended, IdleTxn
  <2>2. live' = live /\ \A j \in JobIds : job'[j] = "none"
    BY <1>7 DEF AbandonRows
  <2> QED
    BY <1>0, <1>1, <1>2, <2>1, <2>2 DEF PageInv
<1>8. CASE EnqueuePages
  <2>1. job' = job /\ live' = live \cup Orig /\ sub.at = "enqueue" /\ sub'.at = "answered"
    BY <1>8 DEF EnqueuePages, Types, Submits
  <2> SUFFICES ASSUME NEW j \in JobIds
               PROVE  /\ (j \in live' \/ Attended(j) \/ result[j] # "none" \/ j \in cln.evict)
                            => Enqueued(j)'
                      /\ Unreaped(j)' => job[j] \in {"none", "queued"}
                      /\ result[j] # "none" <=> job[j] = "done"
                      /\ (j \in live' \/ Attended(j)) => job[j] # "failed"
                      /\ j \in live' => result[j] # "evicted" /\ j \notin cln.evict
    BY <1>0, <1>1, <1>2, <2>1 DEF PageInv
  <2>2. CASE j \in Orig
    <3>1. j[2] = 0
      BY <1>3, <2>2
    <3>2. ~Enqueued(j) /\ Enqueued(j)' /\ Unreaped(j)
      BY <2>1, <3>1 DEF Enqueued, Unreaped
    <3>3. job[j] \in {"none", "queued"}
      BY <3>2 DEF PageInv
    <3> QED
      BY <3>2, <3>3, Fresh
  <2>3. CASE j \notin Orig
    BY <1>1, <2>1, <2>3 DEF PageInv
  <2> QED
    BY <2>2, <2>3
<1>9. CASE ~(AbandonRows \/ SubmitCommit \/ EnqueuePages \/ \E p \in Pages : StorePage(p))
  <2>1. job' = job /\ live' = live
    BY <1>9 DEF SubmitStep, ApiDies, UploadEnds, Refuse, SubmitBatch, AbandonObjects, InitBatch
  <2> QED
    BY <2>1, <1>4
<1> QED
  BY <1>5, <1>6, <1>7, <1>8, <1>9

LEMMA PageWorker ==
    ASSUME Types, LockInv, PageInv, TxnInv, NEW w \in Workers, WorkerStep(w) \/ WorkerDies(w)
    PROVE  PageInv'
<1> USE DEF WorkerOnly
<1>0. sub' = sub /\ retry' = retry /\ cln' = cln
  BY DEF WorkerStep, WorkerDies, Harvest, FailPage, LockBatch, FinishIfDone, CommitTxn, CountDone
<1>1. \A j \in JobIds : (Enqueued(j) <=> Enqueued(j)') /\ (Unreaped(j)' <=> Unreaped(j))
  BY <1>0 DEF Enqueued, Unreaped
<1>2. \A v \in Workers : v # w => txn'[v] = txn[v]
  BY DEF WorkerStep, WorkerDies, Harvest, FailPage, LockBatch, FinishIfDone, CommitTxn, CountDone,
     Types
<1>3. ASSUME NEW j \in JobIds, Harvest(w, j) \/ FailPage(w, j) PROVE PageInv'
  <2>1. txn'[w].job = j /\ j \in live
    BY <1>3 DEF Harvest, FailPage, Types, IdleTxn
  <2>2. \A i \in JobIds : Attended(i)' => Attended(i) \/ i = j
    BY <1>2, <2>1 DEF Attended
  <2>3. job' = job /\ result' = result /\ live' \subseteq live
    BY <1>3 DEF Harvest, FailPage
  <2> QED
    BY <1>0, <1>1, <2>1, <2>2, <2>3 DEF PageInv
<1>4. CASE CommitTxn(w)
  <2>0. txn[w].job \in JobIds /\ txn[w].at = "commit"
    BY <1>4 DEF CommitTxn, LockInv
  <2> PICK j \in JobIds : j = txn[w].job
    BY <2>0
  <2>1. txn'[w].job = j \/ txn'[w].job = <<>>
    BY <1>4 DEF CommitTxn, Types, Txns, IdleTxn
  <2>2. Attended(j) /\ \A i \in JobIds : Attended(i)' => Attended(i)
    BY <1>2, <2>1, NoJob DEF Attended
  <2>3. live' \subseteq live /\ (txn[w].ok <=> j \in live) /\ Enqueued(j) /\ ~Unreaped(j)
    BY <1>4, <2>0, <2>2, EnqueuedReaped DEF CommitTxn, TxnInv, PageInv
  <2>4. \A i \in JobIds : i # j => job'[i] = job[i] /\ result'[i] = result[i]
    BY <1>4 DEF CommitTxn, Types, TypeOK
  <2>5. ASSUME NEW i \in JobIds, i # j
        PROVE  /\ (i \in live' \/ Attended(i)' \/ result'[i] # "none" \/ i \in cln'.evict)
                     => Enqueued(i)'
               /\ Unreaped(i)' => job'[i] \in {"none", "queued"}
               /\ result'[i] # "none" <=> job'[i] = "done"
               /\ (i \in live' \/ Attended(i)') => job'[i] # "failed"
               /\ i \in live' => result'[i] # "evicted" /\ i \notin cln'.evict
    BY <1>0, <1>1, <2>2, <2>3, <2>4, <2>5 DEF PageInv
  <2>6. /\ result'[j] # "none" <=> job'[j] = "done"
        /\ (j \in live' \/ Attended(j)') => job'[j] # "failed"
        /\ j \in live' => result'[j] # "evicted"
    <3>1. CASE job[j] = "none" \/ (job[j] = "done" /\ ~txn[w].ok)
      <4>1. job' = job /\ result' = result
        BY <1>4, <3>1 DEF CommitTxn
      <4> QED
        BY <2>2, <2>3, <4>1 DEF PageInv
    <3>2. CASE job[j] # "none" /\ txn[w].ok
      <4>1. job'[j] = "done" /\ result'[j] = "stored"
        BY <1>4, <3>2 DEF CommitTxn, Types, TypeOK
      <4> QED
        BY <4>1
    <3>3. CASE job[j] \notin {"none", "done"} /\ ~txn[w].ok
      <4>1. job'[j] = "failed" /\ result' = result
        BY <1>4, <3>3 DEF CommitTxn, Types, TypeOK
      <4>2. txn'[w].job = <<>>
        BY <1>4, <3>3 DEF CommitTxn, Types, IdleTxn
      <4>3. ~Attended(j)'
        BY <1>2, <2>0, <4>2, NoJob DEF Attended, TxnInv
      <4> QED
        BY <2>3, <3>3, <4>1, <4>3 DEF PageInv
    <3> QED
      BY <3>1, <3>2, <3>3
  <2> QED
    BY <1>0, <1>1, <2>3, <2>5, <2>6 DEF PageInv
<1>5. CASE LockBatch(w) \/ FinishIfDone(w) \/ CountDone(w) \/ WorkerDies(w)
  <2>1. txn'[w].job = txn[w].job \/ txn'[w].job = <<>>
    BY <1>5 DEF LockBatch, FinishIfDone, CountDone, WorkerDies, Types, Txns, IdleTxn
  <2>2. job' = job /\ result' = result /\ live' \subseteq live
    BY <1>5 DEF LockBatch, FinishIfDone, CountDone, WorkerDies
  <2> QED
    BY <1>0, <1>1, <1>2, <2>1, <2>2, PageFrame
<1> QED
  BY <1>3, <1>4, <1>5 DEF WorkerStep

LEMMA PageRetry ==
    ASSUME Types, PageInv, NEW k \in Retries, RetryOwned(k) \/ RetryStep(k) \/ RetryDies(k)
    PROVE  PageInv'
<1> USE DEF RetryOnly, Asking
<1>0. sub' = sub /\ txn' = txn /\ cln' = cln /\ result' = result /\ k # 0
  <2>1. k # 0
    BY DEF Retries
  <2> QED
    BY <2>1 DEF RetryOwned, RetryStep, RetryDies, RetryPages, RetryCopy, RetryCommit,
       RetryOfDeleted, RetryCounts, RetryInit, RetryEnqueue
<1>1. /\ \A m \in Retries : m # k => retry'[m] = retry[m]
      /\ retry[k].at # "end"
  BY DEF RetryOwned, RetryStep, RetryDies, RetryPages, RetryCopy, RetryCommit, RetryOfDeleted,
     RetryCounts, RetryInit, RetryEnqueue, Types
<1>2. \A j \in JobIds : (Enqueued(j) => Enqueued(j)') /\ (Unreaped(j)' => Unreaped(j))
  BY <1>0, <1>1, JobParts DEF Enqueued, Unreaped
<1>3. ASSUME NEW j \in JobIds, j[2] = k
      PROVE  ~Enqueued(j) /\ Unreaped(j)
  BY <1>0, <1>1, <1>3 DEF Enqueued, Unreaped
<1>4. CASE RetryCommit(k)
  <2>1. live' = live /\ \A j \in JobIds : job'[j] = job[j] \/ (j[2] = k /\ job'[j] = "queued")
    BY <1>4 DEF RetryCommit
  <2> SUFFICES ASSUME NEW j \in JobIds
               PROVE  /\ (j \in live \/ Attended(j) \/ result[j] # "none" \/ j \in cln.evict)
                            => Enqueued(j)
                      /\ Unreaped(j)' => job'[j] \in {"none", "queued"}
                      /\ result[j] # "none" <=> job'[j] = "done"
                      /\ (j \in live \/ Attended(j)) => job'[j] # "failed"
                      /\ j \in live => result[j] # "evicted" /\ j \notin cln.evict
    BY <1>0, <1>2, <2>1 DEF PageInv, Attended
  <2>2. CASE job'[j] = job[j]
    BY <1>2, <2>2 DEF PageInv
  <2>3. CASE j[2] = k /\ job'[j] = "queued"
    BY <1>3, <2>3, Fresh
  <2> QED
    BY <2>1, <2>2, <2>3
<1>5. CASE RetryEnqueue(k)
  <2>1. job' = job /\ live' = live \cup {<<p, k>> : p \in retry[k].pages}
    BY <1>5 DEF RetryEnqueue
  <2>2. retry'[k].at = "end"
    BY <1>5 DEF RetryEnqueue, EndedRetry, IdleRetry, Types
  <2> SUFFICES ASSUME NEW j \in JobIds
               PROVE  /\ (j \in live' \/ Attended(j) \/ result[j] # "none" \/ j \in cln.evict)
                            => Enqueued(j)'
                      /\ Unreaped(j)' => job[j] \in {"none", "queued"}
                      /\ result[j] # "none" <=> job[j] = "done"
                      /\ (j \in live' \/ Attended(j)) => job[j] # "failed"
                      /\ j \in live' => result[j] # "evicted" /\ j \notin cln.evict
    BY <1>0, <1>2, <2>1 DEF PageInv, Attended
  <2>3. CASE j[2] = k
    <3>1. Enqueued(j)' /\ job[j] \in {"none", "queued"}
      BY <1>0, <1>3, <2>2, <2>3 DEF Enqueued, PageInv
    <3> QED
      BY <1>3, <2>3, <3>1, Fresh
  <2>4. CASE j[2] # k
    <3>1. j \in live' => j \in live
      BY <2>1, <2>4
    <3> QED
      BY <1>2, <3>1 DEF PageInv
  <2> QED
    BY <2>3, <2>4
<1>6. CASE ~(RetryCommit(k) \/ RetryEnqueue(k))
  <2>1. job' = job /\ live' = live
    BY <1>6 DEF RetryOwned, RetryStep, RetryDies, RetryPages, RetryCopy, RetryOfDeleted,
       RetryCounts, RetryInit
  <2> QED
    BY <1>0, <1>2, <2>1, PageFrame
<1> QED
  BY <1>4, <1>5, <1>6

LEMMA PageClean ==
    ASSUME Types, PromptSubmit, TightCap = FALSE, PageInv,
           \/ \E j \in JobIds : Reap(j)
           \/ ExpireSelect \/ RetentionStep
           \/ \E old \in SUBSET JobIds, arch \in BOOLEAN : Sweep(old, arch)
    PROVE  PageInv'
<1> USE DEF CleanOnly
<1>0. sub' = sub /\ retry' = retry /\ txn' = txn /\ live' = live
  BY DEF Reap, ExpireSelect, RetentionStep, Sweep, PurgeUploads, PurgeResults, EvictSelect,
     ExpireObjects, ExpireCommit, EvictObjects, EvictCommit
<1>1. \A j \in JobIds : /\ (Enqueued(j)' <=> Enqueued(j)) /\ (Unreaped(j)' <=> Unreaped(j))
                        /\ (Attended(j)' <=> Attended(j))
  BY <1>0 DEF Enqueued, Unreaped, Attended
<1>2. ASSUME NEW j \in JobIds, Reap(j) PROVE PageInv'
  <2>1. /\ result' = result /\ cln' = cln /\ job[j] = "queued" /\ j \notin live /\ ~Attended(j)
        /\ job'[j] = "failed" /\ \A i \in JobIds : i # j => job'[i] = job[i]
    BY <1>2 DEF Reap, Unattended, Attended, Types, TypeOK
  <2>2. ~Unreaped(j)
    BY <1>2, JobParts DEF Reap, Unreaped, PromptSubmit, Retries
  <2> QED
    BY <1>0, <1>1, <2>1, <2>2 DEF PageInv
<1>3. CASE ExpireCommit
  <2>1. cln'.evict = {} /\ \A j \in JobIds : job'[j] = "none" /\ result'[j] = "none"
    BY <1>3 DEF ExpireCommit, IdleCln
  <2> QED
    BY <1>0, <1>1, <2>1 DEF PageInv
<1>4. CASE EvictCommit
  <2>1. /\ job' = job /\ cln'.evict = {}
        /\ \A j \in JobIds : \/ result'[j] = result[j]
                             \/ j \in cln.evict /\ result[j] # "none" /\ result'[j] = "evicted"
    BY <1>4 DEF EvictCommit, IdleCln
  <2> QED
    BY <1>0, <1>1, <2>1 DEF PageInv
<1>5. ASSUME NEW old \in SUBSET JobIds, NEW arch \in BOOLEAN, EvictSelect(old, arch)
      PROVE  PageInv'
  <2>1. job' = job /\ result' = result /\ cln'.evict = old
    BY <1>5 DEF EvictSelect, Types, Cleanings
  <2>2. \A j \in old : result[j] = "stored" /\ j \notin live
    BY <1>5 DEF EvictSelect
  <2> QED
    BY <1>0, <1>1, <2>1, <2>2 DEF PageInv
<1>6. CASE \/ ExpireSelect \/ ExpireObjects \/ EvictObjects
           \/ \E old \in SUBSET JobIds, arch \in BOOLEAN : PurgeResults(old, arch) \/ PurgeUploads(old)
  <2>1. job' = job /\ result' = result /\ cln'.evict = cln.evict
    BY <1>6 DEF ExpireSelect, ExpireObjects, EvictObjects, PurgeResults, PurgeUploads, Types, Cleanings
  <2> QED
    BY <1>0, <1>1, <2>1 DEF PageInv
<1> QED
  BY <1>2, <1>3, <1>4, <1>5, <1>6 DEF RetentionStep, Sweep

LEMMA PageInvStep ==
    ASSUME Unhurried, PromiseInv, UploadInv, PageInv, TxnInv, [Next]_vars PROVE PageInv'
<1>1. CASE \E c \in Clients : ResultsOwned(c) \/ ResultsStep(c)
  <2>1. /\ sub' = sub /\ retry' = retry /\ txn' = txn /\ live' = live /\ job' = job
        /\ result' = result /\ cln' = cln
    BY <1>1 DEF ResultsOwned, ResultsStep, StoredResults, ListPages, BuildArchive, ResultsCommit,
       ResultsOnly
  <2> QED
    BY <2>1, PageFrame, SubmitFrame
<1>2. CASE UNCHANGED vars
  BY <1>2, PageFrame, SubmitFrame DEF vars
<1> QED
  BY <1>1, <1>2, PageSubmit, PageWorker, PageRetry, PageClean DEF Next, Step, PromiseInv, Unhurried

-----------------------------------------------------------------------------
\* TxnInv.

LEMMA TxnInvStep ==
    ASSUME PromiseInv, UploadInv, PageInv, TxnInv, [Next]_vars PROVE TxnInv'
<1> USE DEF PromiseInv
<1>1. ASSUME txn' = txn, live \subseteq live', \A j \in live' \ live : j \in JobIds => ~Enqueued(j)
      PROVE  TxnInv'
  <2>1. \A w \in Workers : txn[w].job \in JobIds => Enqueued(txn[w].job)
    BY DEF PageInv, Attended
  <2> QED
    BY <1>1, <2>1 DEF TxnInv
<1>2. ASSUME NEW w \in Workers, WorkerStep(w) \/ WorkerDies(w) PROVE TxnInv'
  <2>0. txn \in [Workers -> Txns] /\ \A v \in Workers : v # w => txn'[v] = txn[v]
    BY <1>2 DEF WorkerStep, WorkerDies, Harvest, FailPage, LockBatch, FinishIfDone, CommitTxn,
       CountDone, Types
  <2>1. ASSUME NEW j \in JobIds, Harvest(w, j) \/ FailPage(w, j) PROVE TxnInv'
    <3>1. j \in live /\ \A v \in Workers : txn[v].job # j
      BY <2>1 DEF Harvest, FailPage, Unattended
    <3>2. /\ txn'[w].at = "update" /\ txn'[w].job = j /\ (txn'[w].ok <=> j \in live')
          /\ (live' = live \/ live' = live \ {j})
      <4>1. CASE Harvest(w, j)
        BY <2>0, <3>1, <4>1 DEF Harvest, IdleTxn
      <4>2. CASE FailPage(w, j)
        <5>1. txn'[w] = [IdleTxn EXCEPT !.at = "update", !.job = j] /\ live' = live \ {j}
          BY <2>0, <4>2 DEF FailPage
        <5> QED
          BY <5>1 DEF IdleTxn
      <4> QED
        BY <2>1, <4>1, <4>2
    <3> QED
      BY <2>0, <3>1, <3>2 DEF TxnInv
  <2>2. CASE LockBatch(w) \/ FinishIfDone(w)
    <3>1. /\ txn[w].at # "idle" /\ txn'[w].at # "idle" /\ txn'[w].job = txn[w].job
          /\ txn'[w].ok = txn[w].ok /\ live' = live
      BY <2>0, <2>2 DEF LockBatch, FinishIfDone, Txns
    <3> QED
      BY <2>0, <3>1 DEF TxnInv
  <2>3. CASE CommitTxn(w) \/ CountDone(w) \/ WorkerDies(w)
    <3>1. txn[w].at # "idle" /\ (live' = live \/ live' = live \ {txn[w].job})
      BY <2>3 DEF CommitTxn, CountDone, WorkerDies
    <3>2. txn'[w] = IdleTxn \/ (/\ txn'[w].at = "count" /\ txn'[w].job = txn[w].job
                                /\ txn'[w].ok = txn[w].ok /\ live' = live)
      BY <2>0, <2>3 DEF CommitTxn, CountDone, WorkerDies, Txns
    <3>3. \A v \in Workers : v # w /\ txn[v].at # "idle"
                             => txn[v].job # txn[w].job /\ (txn[v].job \in live' <=> txn[v].job \in live)
      BY <3>1 DEF TxnInv
    <3>4. IdleTxn.at = "idle" /\ IdleTxn.job = <<>>
      BY DEF IdleTxn
    <3> QED
      BY <2>0, <3>1, <3>2, <3>3, <3>4, NoJob DEF TxnInv
  <2> QED
    BY <1>2, <2>1, <2>2, <2>3 DEF WorkerStep
<1>3. CASE \/ SubmitStep \/ ApiDies
           \/ \E p \in Pages : UploadEnds(p, FALSE)
           \/ \E landed \in SUBSET Pages : Refuse(landed)
  <2>1. txn' = txn /\ (live' = live \/ EnqueuePages)
    BY <1>3 DEF SubmitStep, ApiDies, UploadEnds, Refuse, SubmitBatch, AbandonObjects,
       AbandonRows, SubmitCommit, InitBatch, StorePage, SubmitOnly, EnqueuePages
  <2>2. EnqueuePages => live' = live \cup Orig /\ \A j \in Orig : ~Enqueued(j)
    BY DEF EnqueuePages, Enqueued, Orig
  <2> QED
    BY <1>1, <2>1, <2>2
<1>4. ASSUME NEW k \in Retries, RetryOwned(k) \/ RetryStep(k) \/ RetryDies(k) PROVE TxnInv'
  <2>1. txn' = txn /\ (live' = live \/ RetryEnqueue(k))
    BY <1>4 DEF RetryOwned, RetryStep, RetryDies, RetryPages, RetryCopy, RetryCommit,
       RetryOfDeleted, RetryCounts, RetryInit, RetryEnqueue, RetryOnly
  <2>2. RetryEnqueue(k) => /\ live' = live \cup {<<p, k>> : p \in retry[k].pages}
                           /\ \A j \in {<<p, k>> : p \in retry[k].pages} : ~Enqueued(j)
    BY DEF RetryEnqueue, Enqueued, Retries, Asking
  <2> QED
    BY <1>1, <2>1, <2>2
<1>5. CASE \E c \in Clients : ResultsOwned(c) \/ ResultsStep(c)
  <2>1. txn' = txn /\ live' = live
    BY <1>5 DEF ResultsOwned, ResultsStep, StoredResults, ListPages, BuildArchive, ResultsCommit,
       ResultsOnly
  <2> QED
    BY <1>1, <2>1
<1>6. CASE \/ \E j \in JobIds : Reap(j)
           \/ ExpireSelect \/ RetentionStep
           \/ \E old \in SUBSET JobIds, arch \in BOOLEAN : Sweep(old, arch)
  <2>1. txn' = txn /\ live' = live
    BY <1>6 DEF Reap, ExpireSelect, RetentionStep, Sweep, PurgeUploads, PurgeResults,
       EvictSelect, ExpireObjects, ExpireCommit, EvictObjects, EvictCommit, CleanOnly
  <2> QED
    BY <1>1, <2>1
<1>7. CASE UNCHANGED vars
  BY <1>1, <1>7 DEF vars
<1> QED
  BY <1>2, <1>3, <1>4, <1>5, <1>6, <1>7 DEF Next, Step

-----------------------------------------------------------------------------
\* ObjectInv.

\* A step that deletes no object, stores no result and starts no harvest.
LEMMA ObjectFrame ==
    ASSUME ObjectInv, objects \subseteq objects', cln' = cln, txn' = txn,
           \A j \in JobIds : result'[j] = "stored" => result[j] = "stored",
           \A w \in Workers : txn[w].ok /\ job[txn[w].job] = "none" => job'[txn[w].job] = "none"
    PROVE  ObjectInv'
BY DEF ObjectInv

LEMMA ObjectWorker ==
    ASSUME PromiseInv, PageInv, TxnInv, ObjectInv,
           NEW w \in Workers, WorkerStep(w) \/ WorkerDies(w)
    PROVE  ObjectInv'
<1> USE DEF WorkerOnly, PromiseInv
<1>0. /\ txn \in [Workers -> Txns] /\ cln' = cln
      /\ \A v \in Workers : v # w => txn'[v] = txn[v]
  BY DEF WorkerStep, WorkerDies, Harvest, FailPage, LockBatch, FinishIfDone, CommitTxn, CountDone,
     Types
<1>1. ASSUME NEW j \in JobIds, Harvest(w, j) PROVE ObjectInv'
  <2>1. /\ txn'[w].job = j /\ objects' = objects \cup {j} /\ job' = job /\ result' = result
    BY <1>0, <1>1 DEF Harvest, IdleTxn
  <2> QED
    BY <1>0, <2>1 DEF ObjectInv
<1>2. ASSUME NEW j \in JobIds, FailPage(w, j) PROVE ObjectInv'
  <2>1. txn'[w] = [IdleTxn EXCEPT !.at = "update", !.job = j]
    BY <1>0, <1>2 DEF FailPage
  <2>2. txn'[w].ok = FALSE
    BY <2>1 DEF IdleTxn
  <2>3. objects' = objects /\ job' = job /\ result' = result
    BY <1>2 DEF FailPage
  <2> QED
    BY <1>0, <2>2, <2>3 DEF ObjectInv
<1>3. CASE LockBatch(w) \/ FinishIfDone(w)
  <2>1. /\ txn'[w].job = txn[w].job /\ txn'[w].ok = txn[w].ok /\ txn[w].at # "count"
        /\ objects' = objects /\ job' = job /\ result' = result
    BY <1>0, <1>3 DEF LockBatch, FinishIfDone, Txns
  <2> QED
    BY <1>0, <2>1 DEF ObjectInv
<1>4. CASE CommitTxn(w)
  <2>0. txn[w].job \in JobIds /\ txn[w].at = "commit"
    BY <1>4 DEF CommitTxn, LockInv
  <2> PICK j \in JobIds : j = txn[w].job
    BY <2>0
  <2>1. \A i \in JobIds : i # j => job'[i] = job[i] /\ result'[i] = result[i]
    BY <1>4 DEF CommitTxn, Types, TypeOK
  <2>2. result'[j] = "stored" => result[j] = "stored" \/ (txn[w].ok /\ job[j] # "none")
    BY <1>4 DEF CommitTxn, Types, TypeOK
  <2>3. txn'[w] = IdleTxn \/ txn'[w].at = "count"
    BY <1>0, <1>4 DEF CommitTxn, Txns
  <2>4. \A v \in Workers : v # w /\ txn[v].ok => txn[v].job \in JobIds /\ txn[v].job # j
    BY <1>0, <2>0 DEF TxnInv, IdleTxn
  <2>5. objects' = objects
    BY <1>4 DEF CommitTxn
  <2>6. txn[w].ok /\ job[j] # "none" => j \in objects \/ cln.at = "delete"
    BY <2>0 DEF ObjectInv
  <2>7. \A i \in JobIds : result'[i] = "stored" => \/ i \in objects' \/ cln'.at = "delete"
                                                   \/ cln'.at = "mark" /\ i \in cln'.evict
    BY <1>0, <2>1, <2>2, <2>5, <2>6 DEF ObjectInv
  <2>8. ASSUME NEW v \in Workers, txn'[v].ok, txn'[v].at # "count"
        PROVE  txn'[v].job \in objects' \/ cln'.at = "delete" \/ job'[txn'[v].job] = "none"
    <3>1. v # w
      BY <2>3, <2>8 DEF IdleTxn
    <3> QED
      BY <1>0, <2>1, <2>4, <2>5, <2>8, <3>1 DEF ObjectInv
  <2> QED
    BY <2>7, <2>8 DEF ObjectInv
<1>5. CASE CountDone(w) \/ WorkerDies(w)
  <2>1. txn'[w].ok = FALSE /\ objects' = objects /\ job' = job /\ result' = result
    BY <1>0, <1>5 DEF CountDone, WorkerDies, IdleTxn
  <2> QED
    BY <1>0, <2>1 DEF ObjectInv
<1> QED
  BY <1>1, <1>2, <1>3, <1>4, <1>5 DEF WorkerStep

LEMMA ObjectClean ==
    ASSUME LongResults, PromiseInv, PageInv, TxnInv, ObjectInv,
           \/ \E j \in JobIds : Reap(j)
           \/ ExpireSelect \/ RetentionStep
           \/ \E old \in SUBSET JobIds, arch \in BOOLEAN : Sweep(old, arch)
    PROVE  ObjectInv'
<1> USE DEF CleanOnly, PromiseInv
<1>0. cln \in Cleanings /\ \A w \in Workers : txn[w].ok => txn[w].job \in JobIds \cap live
  BY DEF Types, TxnInv, IdleTxn
<1>1. ASSUME NEW j \in JobIds, Reap(j) PROVE ObjectInv'
  <2>1. /\ objects' = objects /\ result' = result /\ cln' = cln /\ txn' = txn
        /\ \A i \in JobIds : job[i] = "none" => job'[i] = "none"
    BY <1>1 DEF Reap, Types, TypeOK
  <2> QED
    BY <1>0, <2>1, ObjectFrame
<1>2. CASE ExpireObjects
  BY <1>0, <1>2 DEF ExpireObjects, ObjectInv, Cleanings
<1>3. CASE ExpireCommit
  <2>1. txn' = txn /\ \A j \in JobIds : job'[j] = "none" /\ result'[j] = "none"
    BY <1>3 DEF ExpireCommit
  <2> QED
    BY <1>0, <2>1 DEF ObjectInv
<1>4. CASE EvictObjects
  <2>1. /\ objects' = objects \ cln.evict /\ cln.at = "evict" /\ cln'.at = "mark"
        /\ cln'.evict = cln.evict /\ txn' = txn /\ job' = job /\ result' = result
    BY <1>0, <1>4 DEF EvictObjects, Cleanings
  <2>2. \A w \in Workers : txn[w].ok => txn[w].job \notin cln.evict
    BY <1>0 DEF PageInv
  <2> QED
    BY <2>1, <2>2 DEF ObjectInv
<1>5. CASE EvictCommit
  <2>1. /\ objects' = objects /\ cln.at = "mark" /\ txn' = txn /\ job' = job
        /\ \A j \in JobIds : result'[j] = "stored" => result[j] = "stored" /\ j \notin cln.evict
    BY <1>5 DEF EvictCommit
  <2> QED
    BY <2>1 DEF ObjectInv
<1>6. CASE \/ ExpireSelect
           \/ \E old \in SUBSET JobIds, arch \in BOOLEAN : EvictSelect(old, arch) \/ PurgeUploads(old)
  <2>1. cln.at = "idle" /\ objects' = objects /\ txn' = txn /\ job' = job /\ result' = result
    BY <1>6 DEF ExpireSelect, PurgeUploads, EvictSelect
  <2> QED
    BY <2>1 DEF ObjectInv
<1>7. ASSUME NEW old \in SUBSET JobIds, NEW arch \in BOOLEAN, PurgeResults(old, arch)
      PROVE  ObjectInv'
  <2>1. /\ objects' = objects \ old /\ cln' = cln /\ txn' = txn /\ job' = job /\ result' = result
        /\ \A j \in old : Unattended(j) /\ result[j] # "stored"
    BY <1>7 DEF PurgeResults
  <2>2. \A w \in Workers : txn[w].job \notin old
    BY <2>1 DEF Unattended
  <2> QED
    BY <2>1, <2>2 DEF ObjectInv
<1> QED
  BY <1>1, <1>2, <1>3, <1>4, <1>5, <1>6, <1>7 DEF RetentionStep, Sweep

LEMMA ObjectInvStep ==
    ASSUME LongResults, PromiseInv, UploadInv, PageInv, TxnInv, ObjectInv, [Next]_vars
    PROVE  ObjectInv'
<1> USE DEF PromiseInv
<1>0. \A w \in Workers : txn[w].ok => txn[w].job \in JobIds /\ Enqueued(txn[w].job)
  BY DEF TxnInv, IdleTxn, PageInv, Attended
<1>1. CASE \/ SubmitStep \/ ApiDies
           \/ \E p \in Pages : UploadEnds(p, FALSE)
           \/ \E landed \in SUBSET Pages : Refuse(landed)
  <2>1. objects' = objects /\ cln' = cln /\ txn' = txn /\ result' = result
    BY <1>1 DEF SubmitStep, ApiDies, UploadEnds, Refuse, SubmitBatch, AbandonObjects, AbandonRows,
       SubmitCommit, InitBatch, EnqueuePages, StorePage, SubmitOnly
  <2>2. ASSUME NEW j \in JobIds, Enqueued(j), job[j] = "none" PROVE job'[j] = "none"
    <3>1. job' = job \/ AbandonRows \/ SubmitCommit \/ \E p \in Pages : StorePage(p)
      BY <1>1 DEF SubmitStep, ApiDies, UploadEnds, Refuse, SubmitBatch, AbandonObjects, InitBatch,
         EnqueuePages
    <3>2. CASE SubmitCommit \/ \E p \in Pages : StorePage(p)
      <4>1. sub.at # "answered"
        BY <3>2 DEF SubmitCommit, StorePage
      <4>2. j[2] # 0 /\ j \notin Orig
        BY <2>2, <4>1 DEF Enqueued, Orig
      <4> QED
        BY <2>2, <3>2, <4>2 DEF SubmitCommit, StorePage
    <3>3. CASE AbandonRows
      BY <3>3 DEF AbandonRows
    <3> QED
      BY <2>2, <3>1, <3>2, <3>3
  <2> QED
    BY <1>0, <2>1, <2>2, ObjectFrame
<1>2. ASSUME NEW k \in Retries, RetryOwned(k) \/ RetryStep(k) \/ RetryDies(k) PROVE ObjectInv'
  <2>1. objects' = objects /\ cln' = cln /\ txn' = txn /\ result' = result
    BY <1>2 DEF RetryOwned, RetryStep, RetryDies, RetryPages, RetryCopy, RetryCommit,
       RetryOfDeleted, RetryCounts, RetryInit, RetryEnqueue, RetryOnly
  <2>2. ASSUME NEW j \in JobIds, Enqueued(j), job[j] = "none" PROVE job'[j] = "none"
    <3>1. CASE RetryCommit(k)
      <4>1. j[2] # k
        BY <2>2, <3>1 DEF RetryCommit, Asking, Enqueued, Retries
      <4> QED
        BY <2>2, <3>1, <4>1 DEF RetryCommit
    <3>2. CASE ~RetryCommit(k)
      BY <1>2, <2>2, <3>2 DEF RetryOwned, RetryStep, RetryDies, RetryPages, RetryCopy,
         RetryOfDeleted, RetryCounts, RetryInit, RetryEnqueue
    <3> QED
      BY <3>1, <3>2
  <2> QED
    BY <1>0, <2>1, <2>2, ObjectFrame
<1>3. CASE \E c \in Clients : ResultsOwned(c) \/ ResultsStep(c)
  <2>1. objects' = objects /\ cln' = cln /\ txn' = txn /\ result' = result /\ job' = job
    BY <1>3 DEF ResultsOwned, ResultsStep, StoredResults, ListPages, BuildArchive, ResultsCommit,
       ResultsOnly
  <2> QED
    BY <2>1, ObjectFrame
<1>4. CASE UNCHANGED vars
  BY <1>4, ObjectFrame DEF vars
<1> QED
  BY <1>1, <1>2, <1>3, <1>4, ObjectWorker, ObjectClean DEF Next, Step

-----------------------------------------------------------------------------
\* AskInv.

\* A step of anything but the user's requests, that queues no page, sets no archive
\* and moves the batch only to finished (with nothing left) or deleted.
LEMMA AskFrame ==
    ASSUME AskInv, dl' = dl, retry' = retry, crossed' = crossed, built' => built,
           \A j \in JobIds : job'[j] = "queued" => job[j] = "queued",
           \/ status' = status \/ status' = "deleted"
           \/ status = "queued" /\ status' = "finished" /\ \A j \in JobIds : job'[j] # "queued"
    PROVE  AskInv'
BY DEF AskInv, BlindToArchive, Asking

LEMMA AskSubmit ==
    ASSUME PromiseInv, AskInv,
           \/ SubmitStep \/ ApiDies
           \/ \E p \in Pages : UploadEnds(p, FALSE)
           \/ \E landed \in SUBSET Pages : Refuse(landed)
    PROVE  AskInv'
<1> USE DEF SubmitOnly, PromiseInv
<1>1. dl' = dl /\ retry' = retry /\ built' = built /\ crossed' = crossed
  BY DEF SubmitStep, ApiDies, UploadEnds, Refuse, SubmitBatch, AbandonObjects, AbandonRows,
     SubmitCommit, InitBatch, EnqueuePages, StorePage
<1>2. CASE SubmitBatch \/ SubmitCommit \/ \E p \in Pages : StorePage(p)
  <2>1. status \in {"none", "open"} /\ status' \in {"open", "queued"}
    BY <1>2 DEF SubmitBatch, SubmitCommit, StorePage, SubmitInv
  <2> QED
    BY <1>1, <2>1 DEF AskInv, BlindToArchive, Asking
<1>3. CASE AbandonRows
  BY <1>1, <1>3, AskFrame DEF AbandonRows
<1>4. CASE ~(SubmitBatch \/ SubmitCommit \/ AbandonRows \/ \E p \in Pages : StorePage(p))
  <2>1. status' = status /\ job' = job
    BY <1>4 DEF SubmitStep, ApiDies, UploadEnds, Refuse, AbandonObjects, InitBatch, EnqueuePages
  <2> QED
    BY <1>1, <2>1, AskFrame
<1> QED
  BY <1>2, <1>3, <1>4

LEMMA AskWorker ==
    ASSUME PromiseInv, AskInv, NEW w \in Workers, WorkerStep(w) \/ WorkerDies(w)
    PROVE  AskInv'
<1> USE DEF WorkerOnly, PromiseInv
<1>1. dl' = dl /\ retry' = retry /\ built' = built /\ crossed' = crossed
  BY DEF WorkerStep, WorkerDies, Harvest, FailPage, LockBatch, FinishIfDone, CommitTxn, CountDone
<1>2. CASE CommitTxn(w)
  <2>1. \A j \in JobIds : job'[j] = "queued" => job[j] = "queued" /\ (j # txn[w].job)
    <3>1. txn[w].job \in JobIds
      BY <1>2 DEF CommitTxn, LockInv
    <3>2. CASE job[txn[w].job] = "none" \/ job[txn[w].job] = "done"
      BY <1>2, <3>2 DEF CommitTxn
    <3>3. CASE ~(job[txn[w].job] = "none" \/ job[txn[w].job] = "done")
      BY <1>2, <3>1, <3>3 DEF CommitTxn, Types, TypeOK
    <3> QED
      BY <3>2, <3>3
  <2>2. status' = status \/ (txn[w].fin /\ status' = "finished")
    BY <1>2 DEF CommitTxn
  <2>3. txn[w].fin => status = "queued" /\ \A j \in JobIds : job[j] = "queued" => j = txn[w].job
    BY <1>2 DEF CommitTxn, LockInv
  <2> QED
    BY <1>1, <2>1, <2>2, <2>3, AskFrame
<1>3. CASE ~CommitTxn(w)
  <2>1. status' = status /\ job' = job
    BY <1>3 DEF WorkerStep, WorkerDies, Harvest, FailPage, LockBatch, FinishIfDone, CountDone
  <2> QED
    BY <1>1, <2>1, AskFrame
<1> QED
  BY <1>2, <1>3

LEMMA AskRetry ==
    ASSUME PromiseInv, AskInv, NEW k \in Retries, RetryOwned(k) \/ RetryStep(k) \/ RetryDies(k)
    PROVE  AskInv'
<1> USE DEF RetryOnly, PromiseInv, Asking
<1>0. /\ dl' = dl /\ retry \in [Retries -> RetryAsks] /\ retry' \in [Retries -> RetryAsks]
      /\ \A m \in Retries : m # k => retry'[m] = retry[m]
  BY RetryTypes DEF RetryOwned, RetryStep, RetryDies, RetryPages, RetryCopy, RetryCommit,
     RetryOfDeleted, RetryCounts, RetryInit, RetryEnqueue, Types
<1>1. CASE RetryCommit(k)
  <2>1. /\ status' = "queued" /\ built' = (built /\ ~retry[k].built)
        /\ retry[k].at = "commit"
    BY <1>1 DEF RetryCommit
  <2>2. ASSUME "archive" \notin crossed'
        PROVE  "archive" \notin crossed /\ \A c \in Clients : dl[c].at = "idle"
    BY <1>1, <2>2 DEF RetryCommit, Crossing
  <2>3. ASSUME "archive" \notin crossed' PROVE ~built'
    BY <2>1, <2>2, <2>3 DEF AskInv, BlindToArchive
  <2> QED
    BY <1>0, <2>1, <2>2, <2>3 DEF AskInv
<1>2. CASE RetryOwned(k)
  <2>1. /\ retry'[k].built = built /\ status' = status /\ job' = job /\ built' = built
        /\ "archive" \in crossed' <=> "archive" \in crossed
    BY <1>0, <1>2 DEF RetryOwned, RetryAsks, Crossing
  <2> QED
    BY <1>0, <2>1 DEF AskInv, BlindToArchive
<1>3. CASE ~(RetryCommit(k) \/ RetryOwned(k))
  <2>1. status' = status /\ job' = job /\ built' = built /\ crossed' = crossed
    BY <1>3 DEF RetryStep, RetryDies, RetryPages, RetryCopy, RetryOfDeleted, RetryCounts,
       RetryInit, RetryEnqueue
  <2>2. \/ retry'[k].at \notin {"owned", "copy", "commit"}
        \/ retry'[k].built = retry[k].built /\ retry[k].at \in {"owned", "copy"}
    <3>1. CASE RetryPages(k)
      <4> DEFINE old == {Latest(p) : p \in PagesIn("failed")}
      <4>1. /\ retry[k].at = "owned"
            /\ retry' = [retry EXCEPT ![k] = [@ EXCEPT !.at = "copy", !.old = old]]
        BY <3>1 DEF RetryPages
      <4> HIDE DEF old
      <4> QED
        BY <1>0, <4>1 DEF RetryAsks
    <3>2. CASE RetryCopy(k)
      <4> DEFINE pages == {j[1] : j \in retry[k].old \cap uploads}
      <4>1. /\ retry[k].at = "copy"
            /\ \/ retry'[k] = EndedRetry
               \/ retry'[k] = [retry[k] EXCEPT !.at = "commit", !.old = {}, !.pages = pages]
        BY <1>0, <3>2 DEF RetryCopy
      <4> HIDE DEF pages
      <4> QED
        BY <1>0, <4>1 DEF RetryAsks, EndedRetry, IdleRetry
    <3>3. CASE RetryOfDeleted(k) \/ RetryEnqueue(k) \/ RetryDies(k)
      BY <1>0, <3>3 DEF RetryOfDeleted, RetryEnqueue, RetryDies, EndedRetry, IdleRetry
    <3>4. CASE RetryCounts(k)
      BY <1>0, <3>4 DEF RetryCounts, RetryAsks
    <3>5. CASE RetryInit(k)
      BY <1>0, <3>5 DEF RetryInit, RetryAsks
    <3> QED
      BY <1>3, <3>1, <3>2, <3>3, <3>4, <3>5 DEF RetryStep
  <2>3. ASSUME NEW m \in Retries, BlindToArchive(m)' PROVE BlindToArchive(m)
    BY <1>0, <2>2, <2>3 DEF BlindToArchive
  <2> QED
    BY <1>0, <2>1, <2>3 DEF AskInv
<1> QED
  BY <1>1, <1>2, <1>3

LEMMA AskResults ==
    ASSUME AskInv, NEW c \in Clients, ResultsOwned(c) \/ ResultsStep(c), Types
    PROVE  AskInv'
<1> USE DEF ResultsOnly
<1>0. /\ status' = status /\ job' = job /\ retry' = retry
      /\ \A d \in Clients : d # c => dl'[d] = dl[d]
  BY DEF ResultsOwned, ResultsStep, StoredResults, ListPages, BuildArchive, ResultsCommit, Types
<1>1. "archive" \notin crossed => status \notin {"none", "open", "queued"}
  BY DEF ResultsOwned, ResultsStep, StoredResults, ListPages, BuildArchive, ResultsCommit, AskInv
<1>2. \/ built' = built /\ crossed' = crossed
      \/ "archive" \notin crossed' => /\ "archive" \notin crossed
                                      /\ \A k \in Retries : ~BlindToArchive(k)
  BY DEF ResultsOwned, ResultsStep, StoredResults, ListPages, BuildArchive, ResultsCommit, Crossing
<1>3. \A k \in Retries : BlindToArchive(k)' <=> BlindToArchive(k)
  BY <1>0 DEF BlindToArchive, Asking
<1> QED
  BY <1>0, <1>1, <1>2, <1>3 DEF AskInv

LEMMA AskClean ==
    ASSUME PromiseInv, AskInv,
           \/ \E j \in JobIds : Reap(j)
           \/ ExpireSelect \/ RetentionStep
           \/ \E old \in SUBSET JobIds, arch \in BOOLEAN : Sweep(old, arch)
    PROVE  AskInv'
<1> USE DEF CleanOnly, PromiseInv
<1>0. dl' = dl /\ retry' = retry /\ crossed' = crossed
  BY DEF Reap, ExpireSelect, RetentionStep, Sweep, PurgeUploads, PurgeResults, EvictSelect,
     ExpireObjects, ExpireCommit, EvictObjects, EvictCommit
<1>1. ASSUME NEW j \in JobIds, Reap(j) PROVE AskInv'
  <2>1. \A i \in JobIds : job'[i] = "queued" <=> (job[i] = "queued" /\ i # j)
    BY <1>1 DEF Reap, Types, TypeOK
  <2>2. /\ built' = built
        /\ \/ status' = status
           \/ /\ status = "queued" /\ status' = "finished"
              /\ \A i \in JobIds : job[i] = "queued" => i = j
    BY <1>1 DEF Reap
  <2> QED
    BY <1>0, <2>1, <2>2, AskFrame
<1>2. CASE ExpireCommit
  BY <1>0, <1>2, AskFrame DEF ExpireCommit
<1>3. CASE /\ ~ExpireCommit
           /\ \/ ExpireSelect \/ RetentionStep
              \/ \E old \in SUBSET JobIds, arch \in BOOLEAN : Sweep(old, arch)
  <2>1. status' = status /\ job' = job /\ (built' = built \/ EvictCommit)
    BY <1>3 DEF ExpireSelect, RetentionStep, Sweep, PurgeUploads, PurgeResults, EvictSelect,
       ExpireObjects, EvictObjects, EvictCommit
  <2>2. EvictCommit => (built' => built)
    BY DEF EvictCommit
  <2>3. built' => built
    BY <2>1, <2>2
  <2> QED
    BY <1>0, <2>1, <2>3, AskFrame
<1> QED
  BY <1>1, <1>2, <1>3

LEMMA AskInvStep ==
    ASSUME PromiseInv, AskInv, [Next]_vars PROVE AskInv'
<1>1. CASE UNCHANGED vars
  BY <1>1, AskFrame DEF vars
<1> QED
  BY <1>1, AskSubmit, AskWorker, AskRetry, AskResults, AskClean DEF Next, Step, PromiseInv

-----------------------------------------------------------------------------
\* ArchiveInv.

\* What has crossed is never forgotten.
LEMMA CrossedStep == ASSUME [Next]_vars PROVE crossed \subseteq crossed'
<1>1. CASE \/ SubmitStep \/ ApiDies
           \/ \E p \in Pages : UploadEnds(p, FALSE)
           \/ \E landed \in SUBSET Pages : Refuse(landed)
  BY <1>1 DEF SubmitStep, ApiDies, UploadEnds, Refuse, SubmitBatch, AbandonObjects, AbandonRows,
     SubmitCommit, InitBatch, EnqueuePages, StorePage, SubmitOnly
<1>2. CASE \E w \in Workers : WorkerStep(w) \/ WorkerDies(w)
  BY <1>2 DEF WorkerStep, WorkerDies, Harvest, FailPage, LockBatch, FinishIfDone, CommitTxn,
     CountDone, WorkerOnly
<1>3. CASE \E k \in Retries : RetryOwned(k) \/ RetryStep(k) \/ RetryDies(k)
  BY <1>3 DEF RetryOwned, RetryStep, RetryDies, RetryPages, RetryCopy, RetryCommit,
     RetryOfDeleted, RetryCounts, RetryInit, RetryEnqueue, RetryOnly, Crossing
<1>4. CASE \E c \in Clients : ResultsOwned(c) \/ ResultsStep(c)
  BY <1>4 DEF ResultsOwned, ResultsStep, StoredResults, ListPages, BuildArchive, ResultsCommit,
     ResultsOnly, Crossing
<1>5. CASE \/ \E j \in JobIds : Reap(j)
           \/ ExpireSelect \/ RetentionStep
           \/ \E old \in SUBSET JobIds, arch \in BOOLEAN : Sweep(old, arch)
  BY <1>5 DEF Reap, ExpireSelect, RetentionStep, Sweep, PurgeUploads, PurgeResults, EvictSelect,
     ExpireObjects, ExpireCommit, EvictObjects, EvictCommit, CleanOnly
<1>6. CASE UNCHANGED vars
  BY <1>6 DEF vars
<1> QED
  BY <1>1, <1>2, <1>3, <1>4, <1>5, <1>6 DEF Next, Step

\* The current jobs depend on the job rows alone.
LEMMA CurrentFrame ==
    ASSUME job' = job
    PROVE  /\ Current' = Current /\ PagesIn("done")' = PagesIn("done")
           /\ \A p \in Pages : Latest(p)' = Latest(p)
BY DEF Current, PagesIn, Latest

\* An archive stays good while the rows stay and results are only evicted.
LEMMA GoodFrame ==
    ASSUME job' = job, \A j \in JobIds : result'[j] = "stored" => result[j] = "stored",
           archive' = archive, Good(archive)
    PROVE  Good(archive)'
<1>1. \A p \in PagesIn("done") : Latest(p) \in JobIds
  BY LatestJob DEF PagesIn
<1> QED
  BY <1>1, CurrentFrame DEF Good, PagesIn

\* A step of anything but a download: the batch was finished and its rows stay, or it
\* has no archive yet, and nobody is downloading it.
LEMMA ArchiveFrame ==
    ASSUME AskInv, ArchiveInv, dl' = dl, built' => built, archive' \in {archive, NoArchive},
           crossed \subseteq crossed',
           \/ status' # "finished"
           \/ status \in {"none", "open", "queued"}
           \/ /\ status = "finished" /\ job' = job
              /\ \A j \in JobIds : result'[j] = "stored" => result[j] = "stored"
    PROVE  ArchiveInv'
<1> SUFFICES ASSUME "archive" \notin crossed', "archive" \notin crossed PROVE ArchiveInv'
  BY DEF ArchiveInv
<1>1. CASE status' # "finished"
  BY <1>1 DEF ArchiveInv
<1>2. CASE status \in {"none", "open", "queued"}
  <2>1. ~built' /\ \A c \in Clients : dl'[c].at = "idle"
    BY <1>2 DEF AskInv
  <2> QED
    BY <2>1 DEF ArchiveInv
<1>3. CASE /\ status = "finished" /\ job' = job
           /\ \A j \in JobIds : result'[j] = "stored" => result[j] = "stored"
  <2>1. archive = NoArchive \/ Good(archive) => archive' = NoArchive \/ Good(archive)'
    BY <1>3, GoodFrame
  <2> QED
    BY <1>3, <2>1, CurrentFrame DEF ArchiveInv
<1> QED
  BY <1>1, <1>2, <1>3

\* While a batch is finished, its workers change neither rows nor results.
LEMMA FinishedFrozen ==
    ASSUME PromiseInv, PageInv, TxnInv, AskInv, status = "finished",
           NEW w \in Workers, WorkerStep(w) \/ WorkerDies(w)
    PROVE  job' = job /\ result' = result /\ status' = status
<1> USE DEF PromiseInv
<1>1. CASE CommitTxn(w)
  <2>0. txn[w].job \in JobIds /\ txn[w].at = "commit" /\ Attended(txn[w].job) /\ ~txn[w].fin
    BY <1>1 DEF CommitTxn, LockInv, Attended
  <2>1. job[txn[w].job] \in {"none", "done"}
    BY <2>0 DEF AskInv, PageInv, Types, TypeOK, JobStatuses
  <2>2. job' = job /\ status' = status
    BY <1>1, <2>0, <2>1 DEF CommitTxn
  <2>3. CASE txn[w].ok /\ job[txn[w].job] = "done"
    <3>1. txn[w].job \in live
      BY <2>0, <2>3 DEF TxnInv
    <3>2. result[txn[w].job] = "stored"
      BY <2>0, <2>3, <3>1 DEF PageInv, Types, TypeOK
    <3>3. result' = [result EXCEPT ![txn[w].job] = "stored"]
      BY <1>1, <2>3 DEF CommitTxn
    <3>4. result' = result
      BY <3>2, <3>3 DEF Types, TypeOK
    <3> QED
      BY <2>2, <3>4
  <2>4. CASE ~(txn[w].ok /\ job[txn[w].job] = "done")
    BY <1>1, <2>1, <2>2, <2>4 DEF CommitTxn
  <2> QED
    BY <2>3, <2>4
<1>2. CASE ~CommitTxn(w)
  BY <1>2 DEF WorkerStep, WorkerDies, Harvest, FailPage, LockBatch, FinishIfDone, CountDone
<1> QED
  BY <1>1, <1>2

LEMMA ArchiveResults ==
    ASSUME PromiseInv, AskInv, ArchiveInv, NEW c \in Clients, ResultsOwned(c) \/ ResultsStep(c)
    PROVE  ArchiveInv'
<1> USE DEF ResultsOnly, PromiseInv
<1>0. /\ status' = status /\ job' = job /\ result' = result
      /\ dl \in [Clients -> Downloads] /\ \A d \in Clients : d # c => dl'[d] = dl[d]
  BY DEF ResultsOwned, ResultsStep, StoredResults, ListPages, BuildArchive, ResultsCommit, Types
<1>1. SUFFICES ASSUME "archive" \notin crossed', "archive" \notin crossed, status = "finished"
               PROVE  ArchiveInv'
  BY <1>0, CrossedStep DEF ArchiveInv, Next, Step
<1>2. Current' = Current
  BY <1>0, CurrentFrame
<1>3. archive' = archive => (Good(archive) => Good(archive)')
  BY <1>0, GoodFrame
<1>4. CASE ResultsOwned(c)
  <2>1. dl'[c].at = "stored" /\ archive' = archive /\ built' = built
    BY <1>0, <1>4 DEF ResultsOwned, Downloads
  <2> QED
    BY <1>0, <1>1, <1>2, <1>3, <2>1 DEF ArchiveInv
<1>5. CASE StoredResults(c)
  <2> DEFINE stored == {j \in JobIds : result[j] = "stored"}
  <2>1. dl' = [dl EXCEPT ![c] = [@ EXCEPT !.at = "pages", !.stored = stored]]
    BY <1>5 DEF StoredResults
  <2>2. dl'[c].at = "pages" /\ dl'[c].stored = stored
    <3> HIDE DEF stored
    <3> QED
      BY <1>0, <2>1 DEF Downloads
  <2>3. archive' = archive /\ built' = built
    BY <1>5 DEF StoredResults
  <2> QED
    BY <1>0, <1>1, <1>2, <1>3, <2>2, <2>3 DEF ArchiveInv
<1>6. CASE ListPages(c)
  <2>1. /\ dl[c].at = "pages" /\ archive' = archive /\ built' = built
        /\ dl' = [dl EXCEPT ![c] = [@ EXCEPT !.at = "build", !.pages = Current]]
    BY <1>6 DEF ListPages
  <2>2. dl'[c].at = "build" /\ dl'[c].pages = Current /\ dl'[c].stored = dl[c].stored
    BY <1>0, <2>1 DEF Downloads
  <2> QED
    BY <1>0, <1>1, <1>2, <1>3, <2>1, <2>2 DEF ArchiveInv
<1>7. CASE BuildArchive(c)
  <2>1. /\ dl[c].at = "build" /\ built' = built
        /\ \/ archive' = dl[c].pages \cap dl[c].stored /\ dl'[c].at = "commit"
           \/ archive' = archive /\ dl'[c].at = "idle"
    BY <1>0, <1>7 DEF BuildArchive, IdleDl
  <2>2. CASE archive' = archive /\ dl'[c].at = "idle"
    BY <1>0, <1>1, <1>2, <1>3, <2>1, <2>2 DEF ArchiveInv
  <2>3. CASE archive' = dl[c].pages \cap dl[c].stored /\ dl'[c].at = "commit"
    <3>1. dl[c].pages = Current /\ {j \in JobIds : result[j] = "stored"} \subseteq dl[c].stored
      BY <1>1, <2>1 DEF ArchiveInv
    <3>2. \A p \in PagesIn("done") : Latest(p) \in JobIds /\ Latest(p) \in Current
      BY LatestJob DEF PagesIn, Current
    <3>3. /\ archive' \subseteq Current
          /\ \A p \in PagesIn("done") : result[Latest(p)] = "stored" => Latest(p) \in archive'
      BY <2>3, <3>1, <3>2
    <3>4. Good(archive)'
      BY <1>0, <3>3, CurrentFrame DEF Good, PagesIn
    <3> QED
      BY <1>0, <1>1, <1>2, <2>1, <2>3, <3>4 DEF ArchiveInv
  <2> QED
    BY <2>1, <2>2, <2>3
<1>8. CASE ResultsCommit(c)
  <2>1. dl[c].at = "commit" /\ archive' = archive /\ dl'[c].at = "idle"
    BY <1>0, <1>8 DEF ResultsCommit, IdleDl
  <2>2. archive = NoArchive \/ Good(archive)
    BY <1>1, <2>1 DEF ArchiveInv
  <2> QED
    BY <1>0, <1>1, <1>2, <1>3, <2>1, <2>2 DEF ArchiveInv
<1> QED
  BY <1>4, <1>5, <1>6, <1>7, <1>8 DEF ResultsStep

LEMMA ArchiveInvStep ==
    ASSUME PromiseInv, PageInv, TxnInv, AskInv, ArchiveInv, [Next]_vars
    PROVE  ArchiveInv'
<1> USE DEF PromiseInv
<1>0. crossed \subseteq crossed'
  BY CrossedStep
<1>1. CASE \/ SubmitStep \/ ApiDies
           \/ \E p \in Pages : UploadEnds(p, FALSE)
           \/ \E landed \in SUBSET Pages : Refuse(landed)
  <2>1. dl' = dl /\ built' = built /\ archive' = archive /\ result' = result
    BY <1>1 DEF SubmitStep, ApiDies, UploadEnds, Refuse, SubmitBatch, AbandonObjects, AbandonRows,
       SubmitCommit, InitBatch, EnqueuePages, StorePage, SubmitOnly
  <2>2. status' # "finished" \/ (status' = status /\ job' = job)
    BY <1>1 DEF SubmitStep, ApiDies, UploadEnds, Refuse, SubmitBatch, AbandonObjects, AbandonRows,
       SubmitCommit, InitBatch, EnqueuePages, StorePage, SubmitInv
  <2> QED
    BY <1>0, <2>1, <2>2, ArchiveFrame
<1>2. ASSUME NEW w \in Workers, WorkerStep(w) \/ WorkerDies(w) PROVE ArchiveInv'
  <2>1. dl' = dl /\ built' = built /\ archive' = archive
    BY <1>2 DEF WorkerStep, WorkerDies, Harvest, FailPage, LockBatch, FinishIfDone, CommitTxn,
       CountDone, WorkerOnly
  <2>2. status = "finished" => job' = job /\ result' = result
    BY <1>2, FinishedFrozen
  <2>3. status = "deleted" => status' # "finished"
    BY <1>2 DEF WorkerStep, WorkerDies, Harvest, FailPage, LockBatch, FinishIfDone, CommitTxn,
       CountDone, LockInv
  <2> QED
    BY <1>0, <2>1, <2>2, <2>3, ArchiveFrame DEF Types, TypeOK
<1>3. ASSUME NEW k \in Retries, RetryOwned(k) \/ RetryStep(k) \/ RetryDies(k) PROVE ArchiveInv'
  <2>1. dl' = dl /\ archive' = archive /\ result' = result
    BY <1>3 DEF RetryOwned, RetryStep, RetryDies, RetryPages, RetryCopy, RetryCommit,
       RetryOfDeleted, RetryCounts, RetryInit, RetryEnqueue, RetryOnly
  <2>2. \/ status' = "queued"
        \/ status' = status /\ job' = job /\ built' = built
    BY <1>3 DEF RetryOwned, RetryStep, RetryDies, RetryPages, RetryCopy, RetryCommit,
       RetryOfDeleted, RetryCounts, RetryInit, RetryEnqueue
  <2> QED
    BY <1>0, <2>1, <2>2, ArchiveFrame DEF ArchiveInv
<1>4. ASSUME NEW j \in JobIds, Reap(j) PROVE ArchiveInv'
  <2>1. /\ dl' = dl /\ archive' = archive /\ built' = built /\ job[j] = "queued"
        /\ status' = status \/ status = "queued"
    BY <1>4 DEF Reap, CleanOnly
  <2>2. status # "finished"
    BY <2>1 DEF AskInv
  <2> QED
    BY <1>0, <2>1, <2>2, ArchiveFrame
<1>5. CASE \/ ExpireSelect \/ RetentionStep
           \/ \E old \in SUBSET JobIds, arch \in BOOLEAN : Sweep(old, arch)
  <2>1. CASE ExpireCommit
    BY <2>1 DEF ExpireCommit, ArchiveInv
  <2>2. CASE EvictCommit
    <3>1. /\ dl' = dl /\ archive' = archive /\ job' = job /\ status' = status /\ (built' => built)
          /\ \A j \in JobIds : result'[j] = "stored" => result[j] = "stored"
      BY <2>2 DEF EvictCommit, CleanOnly
    <3> QED
      BY <1>0, <3>1, ArchiveFrame
  <2>3. CASE ~(ExpireCommit \/ EvictCommit)
    <3>1. /\ dl' = dl /\ archive' \in {archive, NoArchive} /\ job' = job /\ status' = status
          /\ built' = built /\ result' = result
      BY <1>5, <2>3 DEF ExpireSelect, RetentionStep, Sweep, PurgeUploads, PurgeResults,
         EvictSelect, ExpireObjects, EvictObjects, CleanOnly
    <3> QED
      BY <1>0, <3>1, ArchiveFrame
  <2> QED
    BY <2>1, <2>2, <2>3
<1>6. CASE UNCHANGED vars
  BY <1>0, <1>6, ArchiveFrame DEF vars
<1> QED
  BY <1>1, <1>2, <1>3, <1>4, <1>5, <1>6, ArchiveResults DEF Next, Step

-----------------------------------------------------------------------------

\* Every row, transaction, object, request and archive of a batch is in step with the
\* others in every state (batch_store, retention, get_batch_results, retry_batch).
THEOREM SoundInvariant == ASSUME Unhurried PROVE Spec => []SoundInv
<1>1. Init => UploadInv /\ PageInv /\ TxnInv /\ (LongResults => ObjectInv) /\ AskInv /\ ArchiveInv
  <2> SUFFICES ASSUME Init PROVE UploadInv /\ PageInv /\ TxnInv /\ ObjectInv /\ AskInv /\ ArchiveInv
    OBVIOUS
  <2>1. \A j \in JobIds : ~Attended(j)
    BY NoJob DEF Init, Attended, IdleTxn
  <2>2. PageInv
    BY <2>1 DEF Init, PageInv, IdleCln
  <2>3. UploadInv /\ TxnInv /\ ObjectInv /\ AskInv /\ ArchiveInv
    BY DEF Init, UploadInv, TxnInv, ObjectInv, AskInv, ArchiveInv, IdleTxn, IdleDl, IdleRetry,
       BlindToArchive, Asking
  <2> QED
    BY <2>2, <2>3
<1>2. SoundInv /\ [Next]_vars =>
         UploadInv' /\ PageInv' /\ TxnInv' /\ (LongResults => ObjectInv)' /\ AskInv' /\ ArchiveInv'
  BY UploadInvStep, PageInvStep, TxnInvStep, ObjectInvStep, AskInvStep, ArchiveInvStep
     DEF SoundInv, PromiseInv
<1>3. Spec => []PromiseInv
  BY PromiseInvariant DEF Unhurried
<1> QED
  BY <1>1, <1>2, <1>3, PTL DEF Spec, SoundInv

\* Rows, objects and archive of a batch agree: a result row that is not evicted has
\* its object if the results bucket keeps objects long enough (LongResults), and until
\* a retry crosses the building of an archive, which nothing in the code prevents, the
\* archive served for a finished batch has the results of each page's newest job and
\* of no other (get_batch_results, evict_results, _purge_expired, retry_batch).
THEOREM BatchSoundness == ASSUME Unhurried PROVE Spec => []BatchSound
<1>1. SoundInv => BatchSound
  <2> SUFFICES ASSUME SoundInv PROVE BatchSound
    OBVIOUS
  <2>1. TypeOK
    BY DEF SoundInv, PromiseInv, Types
  <2>2. StoredHasObject
    BY DEF SoundInv, ObjectInv, StoredHasObject
  <2>3. ArchiveCurrent
    BY DEF SoundInv, ArchiveInv, Good, ArchiveCurrent, ArchiveIsNewest
  <2> QED
    BY <2>1, <2>2, <2>3 DEF BatchSound
<1> QED
  BY <1>1, SoundInvariant, PTL

-----------------------------------------------------------------------------
\* The counters of the progress events.

\* The jobs whose page the counters still wait for: what a worker may take up, and what
\* a request has made and not enqueued yet.
Pend == {j \in JobIds : j \in live \/ (job[j] = "queued" /\ ~Enqueued(j))}
Waiting == {j[1] : j \in Pend}

\* A batch that was queued has a row for every page; what is worked on has a row, and
\* was queued last when nobody has died; a submit that is still to enqueue its pages
\* finds them queued.
RowsInv ==
    /\ status \in {"queued", "finished"} => \A p \in Pages : job[<<p, 0>>] # "none"
    /\ status # "deleted" => \A j \in JobIds : j \in live \/ Attended(j) => job[j] # "none"
    /\ status # "deleted" /\ sub.at \in {"init", "enqueue"} => \A p \in Pages : job[<<p, 0>>] = "queued"
    /\ status # "deleted" /\ mishaps.deaths = 0 => \A j \in live : job[j] = "queued" \/ Attended(j)
    /\ sub.at = "dead" => mishaps.deaths > 0

\* No two retries have overlapped.
RetriesApart == "retries" \notin crossed

\* One retry at a time; it commits its rows to a finished batch, and until it has
\* enqueued them they are the queued rows.
RoundInv ==
    \A k \in Retries :
        /\ retry[k].at \in {"owned", "copy", "commit"} => status \in {"finished", "deleted"}
        /\ retry[k].at \notin {"idle", "end"}
              => \A m \in Retries \ {k} : retry[m].at \in {"idle", "end"}
        /\ retry[k].at \in {"count", "init", "enqueue"} /\ status # "deleted"
              => \A j \in JobIds : job[j] = "queued" <=> j[2] = k /\ j[1] \in retry[k].pages

\* Without deaths, what is counted and what is waited for make up the batch, and so do
\* what a retry is about to count and its own pages.
TallyInv ==
    mishaps.deaths = 0 /\ status # "deleted" =>
        /\ counts.done + counts.failed + Cardinality(Waiting) >= counts.total
        /\ \A k \in Retries : retry[k].at = "init" =>
              retry[k].done + retry[k].failed + Cardinality(retry[k].pages) >= Cardinality(Pages)

\* The counters of a batch whose retries do not overlap.
CountInv == RetriesApart => RowsInv /\ RoundInv /\ TallyInv

\* Deaths are never forgotten.
LEMMA DeathStep ==
    ASSUME Types, [Next]_vars
    PROVE  /\ mishaps.deaths \in Nat /\ mishaps'.deaths \in Nat /\ mishaps'.deaths >= mishaps.deaths
           /\ (ApiDies \/ (\E w \in Workers : WorkerDies(w)) \/ (\E k \in Retries : RetryDies(k)))
                 => mishaps'.deaths > 0
<1>1. mishaps \in [{"deaths", "sweeps"} -> 0..MaxMishaps] /\ MaxMishaps \in Nat
  BY BatchAssumption DEF Types, TypeOK
<1>2. mishaps.deaths \in Nat /\ mishaps.sweeps \in Nat
  BY <1>1
<1>3. ASSUME Mishap("deaths")
      PROVE  mishaps'.deaths \in Nat /\ mishaps'.deaths >= mishaps.deaths /\ mishaps'.deaths > 0
  <2>1. mishaps'.deaths = mishaps.deaths + 1
    BY <1>1, <1>3 DEF Mishap
  <2> QED
    BY <1>2, <2>1
<1>4. ASSUME Mishap("sweeps") PROVE mishaps'.deaths = mishaps.deaths
  BY <1>1, <1>4 DEF Mishap
<1>5. CASE ApiDies \/ (\E w \in Workers : WorkerDies(w)) \/ (\E k \in Retries : RetryDies(k))
  BY <1>2, <1>3, <1>5 DEF ApiDies, WorkerDies, RetryDies
<1>6. ASSUME ~(ApiDies \/ (\E w \in Workers : WorkerDies(w)) \/ (\E k \in Retries : RetryDies(k)))
      PROVE  mishaps'.deaths = mishaps.deaths
  <2>1. ASSUME \/ SubmitStep \/ \E p \in Pages : UploadEnds(p, FALSE)
               \/ \E landed \in SUBSET Pages : Refuse(landed)
        PROVE  mishaps' = mishaps
    BY <2>1 DEF SubmitStep, SubmitBatch, StorePage, UploadEnds, Refuse, AbandonObjects,
       AbandonRows, SubmitCommit, InitBatch, EnqueuePages
  <2>2. ASSUME NEW w \in Workers, WorkerStep(w) PROVE mishaps' = mishaps
    BY <2>2 DEF WorkerStep, Harvest, FailPage, LockBatch, FinishIfDone, CommitTxn, CountDone
  <2>3. ASSUME NEW k \in Retries, RetryOwned(k) \/ RetryStep(k) PROVE mishaps' = mishaps
    BY <2>3 DEF RetryStep, RetryOwned, RetryPages, RetryCopy, RetryCommit, RetryOfDeleted,
       RetryCounts, RetryInit, RetryEnqueue
  <2>4. ASSUME NEW c \in Clients, ResultsOwned(c) \/ ResultsStep(c) PROVE mishaps' = mishaps
    BY <2>4 DEF ResultsStep, ResultsOwned, StoredResults, ListPages, BuildArchive, ResultsCommit
  <2>5. ASSUME \/ \E j \in JobIds : Reap(j)
               \/ ExpireSelect \/ RetentionStep
               \/ \E old \in SUBSET JobIds, arch \in BOOLEAN : Sweep(old, arch)
        PROVE  mishaps' = mishaps \/ Mishap("sweeps")
    BY <2>5 DEF Reap, RetentionStep, ExpireSelect, ExpireObjects, ExpireCommit, Sweep, EvictSelect,
       EvictObjects, EvictCommit, PurgeResults, PurgeUploads
  <2>6. ASSUME UNCHANGED vars PROVE mishaps' = mishaps
    BY <2>6 DEF vars
  <2>7. mishaps' = mishaps \/ Mishap("sweeps")
    BY <1>6, <2>1, <2>2, <2>3, <2>4, <2>5, <2>6 DEF Next, Step
  <2> QED
    BY <1>4, <2>7
<1>7. CASE ~(ApiDies \/ (\E w \in Workers : WorkerDies(w)) \/ (\E k \in Retries : RetryDies(k)))
  BY <1>2, <1>6, <1>7
<1> QED
  BY <1>5, <1>7

\* The steps that change the status of a batch, its rows, or what is live.
LEMMA StatusStep ==
    ASSUME SoundInv, [Next]_vars
    PROVE  /\ status = "deleted" => status' = "deleted"
           /\ status' \in {"queued", "finished"} => status \in {"queued", "finished"} \/ SubmitCommit
           /\ status = "finished" => status' \in {"finished", "deleted"} \/ \E k \in Retries : RetryCommit(k)
<1> USE DEF SoundInv, PromiseInv
<1>1. CASE \/ SubmitStep \/ ApiDies
           \/ \E p \in Pages : UploadEnds(p, FALSE)
           \/ \E landed \in SUBSET Pages : Refuse(landed)
  <2>1. CASE SubmitBatch
    BY <2>1 DEF SubmitBatch, SubmitInv
  <2>2. CASE AbandonRows
    BY <2>2 DEF AbandonRows
  <2>3. CASE SubmitCommit
    BY <2>3 DEF SubmitCommit, SubmitInv
  <2>4. CASE ~(SubmitBatch \/ AbandonRows \/ SubmitCommit)
    <3>1. status' = status
      BY <1>1, <2>4 DEF SubmitStep, ApiDies, UploadEnds, Refuse, AbandonObjects, InitBatch,
         EnqueuePages, StorePage
    <3> QED
      BY <3>1
  <2> QED
    BY <2>1, <2>2, <2>3, <2>4
<1>2. ASSUME NEW w \in Workers, WorkerStep(w) \/ WorkerDies(w)
      PROVE  status' = status \/ (status = "queued" /\ status' = "finished")
  <2>1. CASE CommitTxn(w)
    BY <2>1 DEF CommitTxn, LockInv
  <2>2. CASE ~CommitTxn(w)
    BY <1>2, <2>2 DEF WorkerStep, WorkerDies, Harvest, FailPage, LockBatch, FinishIfDone, CountDone
  <2> QED
    BY <2>1, <2>2
<1>3. ASSUME NEW k \in Retries, RetryOwned(k) \/ RetryStep(k) \/ RetryDies(k)
      PROVE  status' = status \/ (RetryCommit(k) /\ status # "deleted" /\ status' = "queued"
                                  /\ status \in {"queued", "finished"})
  <2>1. CASE RetryCommit(k)
    <3>1. ~Quiet
      BY <2>1 DEF RetryCommit, Asking, Quiet
    <3> QED
      BY <2>1, <3>1, Late DEF RetryCommit, Types, TypeOK
  <2>2. CASE ~RetryCommit(k)
    BY <1>3, <2>2 DEF RetryOwned, RetryStep, RetryDies, RetryPages, RetryCopy, RetryOfDeleted,
       RetryCounts, RetryInit, RetryEnqueue
  <2> QED
    BY <2>1, <2>2
<1>4. ASSUME NEW c \in Clients, ResultsOwned(c) \/ ResultsStep(c) PROVE status' = status
  BY <1>4 DEF ResultsOwned, ResultsStep, StoredResults, ListPages, BuildArchive, ResultsCommit
<1>5. ASSUME NEW j \in JobIds, Reap(j)
      PROVE  status' = status \/ (status = "queued" /\ status' = "finished")
  BY <1>5 DEF Reap
<1>6. CASE \/ ExpireSelect \/ RetentionStep
           \/ \E old \in SUBSET JobIds, arch \in BOOLEAN : Sweep(old, arch)
  <2>1. status' = status \/ status' = "deleted"
    BY <1>6 DEF ExpireSelect, RetentionStep, Sweep, PurgeUploads, PurgeResults, EvictSelect,
       ExpireObjects, ExpireCommit, EvictObjects, EvictCommit
  <2> QED
    BY <2>1
<1>7. CASE UNCHANGED vars
  BY <1>7 DEF vars
<1> QED
  BY <1>1, <1>2, <1>3, <1>4, <1>5, <1>6, <1>7 DEF Next, Step

\* While nobody dies, no request and no transaction is cut short.
LEMMA Deathless ==
    ASSUME Types, [Next]_vars, mishaps'.deaths = 0
    PROVE  /\ mishaps.deaths = 0 /\ ~ApiDies
           /\ \A w \in Workers : ~WorkerDies(w)
           /\ \A k \in Retries : ~RetryDies(k)
<1>1. /\ mishaps.deaths \in Nat /\ mishaps'.deaths >= mishaps.deaths
      /\ (ApiDies \/ (\E w \in Workers : WorkerDies(w)) \/ (\E k \in Retries : RetryDies(k)))
            => mishaps'.deaths > 0
  BY DeathStep
<1>2. mishaps.deaths = 0
  BY <1>1
<1>3. ~(ApiDies \/ (\E w \in Workers : WorkerDies(w)) \/ (\E k \in Retries : RetryDies(k)))
  BY <1>1
<1> QED
  BY <1>2, <1>3

\* A row is added while the archive is stored or by a retry; once its request is over it
\* is settled by the worker that has the page, or by the reaper when none may take it.
LEMMA RowStep ==
    ASSUME Unhurried, SoundInv, [Next]_vars, status' # "deleted",
           NEW j \in JobIds, job'[j] # job[j]
    PROVE  \/ j \in Orig /\ job[j] = "none" /\ job'[j] = "queued" /\ status = "open"
           \/ \E k \in Retries : /\ RetryCommit(k) /\ job'[j] = "queued"
                                 /\ j[2] = k /\ j[1] \in retry[k].pages
           \/ /\ job'[j] \in {"done", "failed"} /\ job[j] = "queued" /\ ~Unreaped(j)
              /\ Attended(j) \/ j \notin live
<1> USE DEF SoundInv, PromiseInv
<1>1. CASE \/ SubmitStep \/ ApiDies
           \/ \E p \in Pages : UploadEnds(p, FALSE)
           \/ \E landed \in SUBSET Pages : Refuse(landed)
  <2>1. ASSUME NEW p \in Pages, StorePage(p)
        PROVE  j \in Orig /\ job[j] = "none" /\ job'[j] = "queued" /\ status = "open"
    BY <2>1 DEF StorePage, SubmitInv, Types, Submits, Orig, JobIds
  <2>2. CASE SubmitCommit
    BY <2>2 DEF SubmitCommit, SubmitInv
  <2>3. CASE AbandonRows
    BY <2>3 DEF AbandonRows
  <2>4. CASE ~(AbandonRows \/ SubmitCommit \/ \E p \in Pages : StorePage(p))
    BY <1>1, <2>4 DEF SubmitStep, ApiDies, UploadEnds, Refuse, SubmitBatch, AbandonObjects,
       InitBatch, EnqueuePages
  <2> QED
    BY <2>1, <2>2, <2>3, <2>4
<1>2. ASSUME NEW w \in Workers, WorkerStep(w) \/ WorkerDies(w)
      PROVE  /\ job'[j] \in {"done", "failed"} /\ job[j] = "queued" /\ ~Unreaped(j)
             /\ Attended(j)
  <2>1. CASE CommitTxn(w)
    <3>1. j = txn[w].job /\ job'[j] \in {"done", "failed"} /\ job[j] \notin {"none", "done"}
      BY <2>1 DEF CommitTxn, Types, TypeOK
    <3>2. Attended(j) /\ job[j] \in {"none", "queued", "done", "failed"}
      BY <3>1 DEF Attended, Types, TypeOK, JobStatuses
    <3> QED
      BY <3>1, <3>2, EnqueuedReaped DEF PageInv
  <2>2. CASE ~CommitTxn(w)
    BY <1>2, <2>2 DEF WorkerStep, WorkerDies, Harvest, FailPage, LockBatch, FinishIfDone, CountDone
  <2> QED
    BY <2>1, <2>2
<1>3. ASSUME NEW k \in Retries, RetryOwned(k) \/ RetryStep(k) \/ RetryDies(k)
      PROVE  RetryCommit(k) /\ job'[j] = "queued" /\ j[2] = k /\ j[1] \in retry[k].pages
  <2>1. CASE RetryCommit(k)
    BY <2>1 DEF RetryCommit
  <2>2. CASE ~RetryCommit(k)
    BY <1>3, <2>2 DEF RetryOwned, RetryStep, RetryDies, RetryPages, RetryCopy, RetryOfDeleted,
       RetryCounts, RetryInit, RetryEnqueue
  <2> QED
    BY <2>1, <2>2
<1>4. ASSUME NEW c \in Clients, ResultsOwned(c) \/ ResultsStep(c) PROVE job' = job
  BY <1>4 DEF ResultsOwned, ResultsStep, StoredResults, ListPages, BuildArchive, ResultsCommit
<1>5. ASSUME NEW i \in JobIds, Reap(i)
      PROVE  /\ job'[j] \in {"done", "failed"} /\ job[j] = "queued" /\ ~Unreaped(j)
             /\ j \notin live
  <2>1. i = j /\ job'[j] = "failed" /\ job[j] = "queued" /\ j \notin live
    BY <1>5 DEF Reap, Types, TypeOK
  <2>2. ~Unreaped(j)
    BY <1>5, <2>1, BatchAssumption DEF Reap, Unreaped, JobIds, Unhurried, PromptSubmit
  <2> QED
    BY <2>1, <2>2
<1>6. CASE \/ ExpireSelect \/ RetentionStep
           \/ \E old \in SUBSET JobIds, arch \in BOOLEAN : Sweep(old, arch)
  <2>1. job' = job \/ status' = "deleted"
    BY <1>6 DEF ExpireSelect, RetentionStep, Sweep, PurgeUploads, PurgeResults, EvictSelect,
       ExpireObjects, ExpireCommit, EvictObjects, EvictCommit
  <2> QED
    BY <2>1
<1>7. CASE UNCHANGED vars
  BY <1>7 DEF vars
<1> QED
  BY <1>1, <1>2, <1>3, <1>4, <1>5, <1>6, <1>7 DEF Next, Step

\* A page is taken up in Redis by the request that made its job.
LEMMA LiveStep ==
    ASSUME [Next]_vars, NEW j \in JobIds, j \in live', j \notin live
    PROVE  \/ EnqueuePages /\ j \in Orig
           \/ \E k \in Retries : RetryEnqueue(k) /\ j[2] = k /\ j[1] \in retry[k].pages
<1>1. CASE \/ SubmitStep \/ ApiDies
           \/ \E p \in Pages : UploadEnds(p, FALSE)
           \/ \E landed \in SUBSET Pages : Refuse(landed)
  BY <1>1 DEF SubmitStep, ApiDies, UploadEnds, Refuse, SubmitBatch, AbandonObjects, AbandonRows,
     SubmitCommit, StorePage, InitBatch, EnqueuePages
<1>2. ASSUME NEW w \in Workers, WorkerStep(w) \/ WorkerDies(w) PROVE live' \subseteq live
  BY <1>2 DEF WorkerStep, WorkerDies, Harvest, FailPage, LockBatch, FinishIfDone, CommitTxn,
     CountDone
<1>3. ASSUME NEW k \in Retries, RetryOwned(k) \/ RetryStep(k) \/ RetryDies(k)
      PROVE  RetryEnqueue(k) /\ j[2] = k /\ j[1] \in retry[k].pages
  <2>1. live' = live \/ RetryEnqueue(k)
    BY <1>3 DEF RetryOwned, RetryStep, RetryDies, RetryPages, RetryCopy, RetryCommit,
       RetryOfDeleted, RetryCounts, RetryInit
  <2> QED
    BY <2>1 DEF RetryEnqueue
<1>4. ASSUME NEW c \in Clients, ResultsOwned(c) \/ ResultsStep(c) PROVE live' = live
  BY <1>4 DEF ResultsOwned, ResultsStep, StoredResults, ListPages, BuildArchive, ResultsCommit
<1>5. CASE \/ \E i \in JobIds : Reap(i)
           \/ ExpireSelect \/ RetentionStep
           \/ \E old \in SUBSET JobIds, arch \in BOOLEAN : Sweep(old, arch)
  BY <1>5 DEF Reap, ExpireSelect, RetentionStep, Sweep, PurgeUploads, PurgeResults, EvictSelect,
     ExpireObjects, ExpireCommit, EvictObjects, EvictCommit
<1>6. CASE UNCHANGED vars
  BY <1>6 DEF vars
<1> QED
  BY <1>1, <1>2, <1>3, <1>4, <1>5, <1>6 DEF Next, Step

\* A worker takes up a page that is live, and while nobody dies leaves one that is not.
LEMMA AttendStep ==
    ASSUME SoundInv, [Next]_vars, NEW j \in JobIds
    PROVE  /\ Attended(j)' => Attended(j) \/ j \in live
           /\ Attended(j) /\ ~Attended(j)' /\ mishaps'.deaths = 0 => j \notin live'
<1> USE DEF SoundInv, PromiseInv
<1>1. ASSUME NEW w \in Workers, WorkerStep(w) \/ WorkerDies(w)
      PROVE  /\ Attended(j)' => Attended(j) \/ j \in live
             /\ Attended(j) /\ ~Attended(j)' /\ mishaps'.deaths = 0 => j \notin live'
  <2>0. txn \in [Workers -> Txns] /\ \A v \in Workers : v # w => txn'[v] = txn[v]
    BY <1>1 DEF WorkerStep, WorkerDies, Harvest, FailPage, LockBatch, FinishIfDone, CommitTxn,
       CountDone, Types
  <2>1. ASSUME NEW i \in JobIds, Harvest(w, i) \/ FailPage(w, i)
        PROVE  txn[w].job = <<>> /\ txn'[w].job = i /\ i \in live
    <3>1. txn[w] = IdleTxn /\ i \in live
      BY <2>0, <2>1 DEF Harvest, FailPage, TxnInv
    <3>2. CASE Harvest(w, i)
      <4>1. txn'[w] = [IdleTxn EXCEPT !.at = "update", !.job = i, !.ok = TRUE]
        BY <2>0, <3>2 DEF Harvest
      <4> QED
        BY <3>1, <4>1 DEF IdleTxn
    <3>3. CASE FailPage(w, i)
      <4>1. txn'[w] = [IdleTxn EXCEPT !.at = "update", !.job = i]
        BY <2>0, <3>3 DEF FailPage
      <4> QED
        BY <3>1, <4>1 DEF IdleTxn
    <3> QED
      BY <2>1, <3>2, <3>3
  <2>2. CASE LockBatch(w) \/ FinishIfDone(w)
    <3>1. txn'[w].job = txn[w].job
      BY <2>0, <2>2 DEF LockBatch, FinishIfDone, Txns
    <3> QED
      BY <2>0, <3>1 DEF Attended
  <2>3. CASE CommitTxn(w) \/ CountDone(w)
    <3>1. txn[w].job \in JobIds /\ (txn[w].ok <=> txn[w].job \in live)
      BY <2>3 DEF CommitTxn, CountDone, TxnInv
    <3>2. txn'[w].job = txn[w].job \/ (txn'[w].job = <<>> /\ txn[w].job \notin live')
      <4>1. IdleTxn.job = <<>>
        BY DEF IdleTxn
      <4>2. CASE CommitTxn(w)
        <5>1. \/ txn[w].ok /\ txn'[w] = [txn[w] EXCEPT !.at = "count"]
              \/ txn'[w] = IdleTxn /\ txn[w].job \notin live'
          BY <2>0, <3>1, <4>2 DEF CommitTxn
        <5> QED
          BY <2>0, <4>1, <5>1 DEF Txns
      <4>3. CASE CountDone(w)
        BY <2>0, <4>1, <4>3 DEF CountDone
      <4> QED
        BY <2>3, <4>2, <4>3
    <3> QED
      BY <2>0, <3>2, NoJob DEF Attended
  <2>4. CASE WorkerDies(w)
    <3>1. mishaps'.deaths # 0
      BY <2>4, Deathless
    <3>2. txn'[w].job = <<>>
      BY <2>0, <2>4 DEF WorkerDies, IdleTxn
    <3> QED
      BY <2>0, <3>1, <3>2, NoJob DEF Attended
  <2>5. ASSUME NEW i \in JobIds, Harvest(w, i) \/ FailPage(w, i)
        PROVE  /\ Attended(j)' => Attended(j) \/ j \in live
               /\ Attended(j) => Attended(j)'
    BY <2>0, <2>1, <2>5, NoJob DEF Attended
  <2> QED
    BY <1>1, <2>2, <2>3, <2>4, <2>5 DEF WorkerStep
<1>2. CASE ~\E w \in Workers : WorkerStep(w) \/ WorkerDies(w)
  <2>1. CASE \/ SubmitStep \/ ApiDies
             \/ \E p \in Pages : UploadEnds(p, FALSE)
             \/ \E landed \in SUBSET Pages : Refuse(landed)
    BY <2>1 DEF SubmitStep, ApiDies, UploadEnds, Refuse, SubmitBatch, AbandonObjects,
       AbandonRows, SubmitCommit, InitBatch, StorePage, SubmitOnly, EnqueuePages, Attended
  <2>2. ASSUME NEW k \in Retries, RetryOwned(k) \/ RetryStep(k) \/ RetryDies(k) PROVE txn' = txn
    BY <2>2 DEF RetryOwned, RetryStep, RetryDies, RetryPages, RetryCopy, RetryCommit,
       RetryOfDeleted, RetryCounts, RetryInit, RetryEnqueue, RetryOnly
  <2>3. ASSUME NEW c \in Clients, ResultsOwned(c) \/ ResultsStep(c) PROVE txn' = txn
    BY <2>3 DEF ResultsOwned, ResultsStep, StoredResults, ListPages, BuildArchive, ResultsCommit,
       ResultsOnly
  <2>4. CASE \/ \E i \in JobIds : Reap(i)
             \/ ExpireSelect \/ RetentionStep
             \/ \E old \in SUBSET JobIds, arch \in BOOLEAN : Sweep(old, arch)
    BY <2>4 DEF Reap, ExpireSelect, RetentionStep, Sweep, PurgeUploads, PurgeResults,
       EvictSelect, ExpireObjects, ExpireCommit, EvictObjects, EvictCommit, CleanOnly, Attended
  <2>5. txn' = txn => (Attended(j)' <=> Attended(j))
    BY DEF Attended
  <2> QED
    BY <1>2, <2>1, <2>2, <2>3, <2>4, <2>5 DEF Next, Step, vars
<1> QED
  BY <1>1, <1>2

\* What the submit request does next.
LEMMA SubStep ==
    ASSUME SoundInv, [Next]_vars
    PROVE  /\ sub'.at \in {"init", "enqueue"} => sub.at \in {"init", "enqueue"} \/ SubmitCommit
           /\ sub'.at = "dead" => sub.at = "dead" \/ ApiDies
           /\ sub.at = "answered" => sub'.at = "answered"
           /\ sub'.at = "answered" => sub.at = "answered" \/ EnqueuePages
<1> USE DEF SoundInv, PromiseInv
<1>1. CASE \/ SubmitStep \/ ApiDies
           \/ \E p \in Pages : UploadEnds(p, FALSE)
           \/ \E landed \in SUBSET Pages : Refuse(landed)
  BY <1>1 DEF SubmitStep, ApiDies, UploadEnds, Refuse, SubmitBatch, AbandonObjects, AbandonRows,
     SubmitCommit, InitBatch, StorePage, EnqueuePages, Types, Submits, UploadInv
<1>2. CASE ~(\/ SubmitStep \/ ApiDies
             \/ \E p \in Pages : UploadEnds(p, FALSE)
             \/ \E landed \in SUBSET Pages : Refuse(landed))
  <2>1. ASSUME NEW w \in Workers, WorkerStep(w) \/ WorkerDies(w) PROVE sub' = sub
    BY <2>1 DEF WorkerStep, WorkerDies, Harvest, FailPage, LockBatch, FinishIfDone, CommitTxn,
       CountDone, WorkerOnly
  <2>2. ASSUME NEW k \in Retries, RetryOwned(k) \/ RetryStep(k) \/ RetryDies(k) PROVE sub' = sub
    BY <2>2 DEF RetryOwned, RetryStep, RetryDies, RetryPages, RetryCopy, RetryCommit,
       RetryOfDeleted, RetryCounts, RetryInit, RetryEnqueue, RetryOnly
  <2>3. ASSUME NEW c \in Clients, ResultsOwned(c) \/ ResultsStep(c) PROVE sub' = sub
    BY <2>3 DEF ResultsOwned, ResultsStep, StoredResults, ListPages, BuildArchive, ResultsCommit,
       ResultsOnly
  <2>4. ASSUME \/ \E i \in JobIds : Reap(i)
               \/ ExpireSelect \/ RetentionStep
               \/ \E old \in SUBSET JobIds, arch \in BOOLEAN : Sweep(old, arch)
        PROVE  sub' = sub
    BY <2>4 DEF Reap, ExpireSelect, RetentionStep, Sweep, PurgeUploads, PurgeResults,
       EvictSelect, ExpireObjects, ExpireCommit, EvictObjects, EvictCommit, CleanOnly
  <2>5. sub' = sub
    BY <1>2, <2>1, <2>2, <2>3, <2>4 DEF Next, Step, vars
  <2> QED
    BY <2>5
<1> QED
  BY <1>1, <1>2

\* What a retry request does next.
LEMMA RetryMoves ==
    ASSUME [Next]_vars, NEW k \in Retries, retry'[k] # retry[k], Types
    PROVE  RetryOwned(k) \/ RetryStep(k) \/ RetryDies(k)
<1>1. ASSUME \/ SubmitStep \/ ApiDies
             \/ \E p \in Pages : UploadEnds(p, FALSE)
             \/ \E landed \in SUBSET Pages : Refuse(landed)
      PROVE  retry' = retry
  BY <1>1 DEF SubmitStep, ApiDies, UploadEnds, Refuse, SubmitBatch, AbandonObjects, AbandonRows,
     SubmitCommit, InitBatch, StorePage, EnqueuePages, SubmitOnly
<1>2. ASSUME NEW w \in Workers, WorkerStep(w) \/ WorkerDies(w) PROVE retry' = retry
  BY <1>2 DEF WorkerStep, WorkerDies, Harvest, FailPage, LockBatch, FinishIfDone, CommitTxn,
     CountDone, WorkerOnly
<1>3. ASSUME NEW m \in Retries, RetryOwned(m) \/ RetryStep(m) \/ RetryDies(m) PROVE m = k
  BY <1>3 DEF RetryOwned, RetryStep, RetryDies, RetryPages, RetryCopy, RetryCommit,
     RetryOfDeleted, RetryCounts, RetryInit, RetryEnqueue, Types
<1>4. ASSUME NEW c \in Clients, ResultsOwned(c) \/ ResultsStep(c) PROVE retry' = retry
  BY <1>4 DEF ResultsOwned, ResultsStep, StoredResults, ListPages, BuildArchive, ResultsCommit,
     ResultsOnly
<1>5. ASSUME \/ \E i \in JobIds : Reap(i)
             \/ ExpireSelect \/ RetentionStep
             \/ \E old \in SUBSET JobIds, arch \in BOOLEAN : Sweep(old, arch)
      PROVE  retry' = retry
  BY <1>5 DEF Reap, ExpireSelect, RetentionStep, Sweep, PurgeUploads, PurgeResults, EvictSelect,
     ExpireObjects, ExpireCommit, EvictObjects, EvictCommit, CleanOnly
<1> QED
  BY <1>1, <1>2, <1>3, <1>4, <1>5 DEF Next, Step, vars

LEMMA RowsInvStep ==
    ASSUME Unhurried, SoundInv, RowsInv, RoundInv, [Next]_vars PROVE RowsInv'
<1>0. Types /\ 0 \in 0..MaxRetries
  BY OrigJobs DEF SoundInv, PromiseInv
<1>1. ASSUME status' # "deleted", NEW j \in JobIds, job[j] # "none" PROVE job'[j] # "none"
  BY <1>1, RowStep
<1>2. ASSUME status' \in {"queued", "finished"}, NEW p \in Pages PROVE job'[<<p, 0>>] # "none"
  <2>1. <<p, 0>> \in JobIds /\ <<p, 0>> \in Orig
    BY <1>0, JobOf DEF Orig
  <2>2. CASE status \in {"queued", "finished"}
    BY <1>1, <1>2, <2>1, <2>2 DEF RowsInv
  <2>3. CASE SubmitCommit
    BY <2>1, <2>3 DEF SubmitCommit
  <2> QED
    BY <1>2, <2>2, <2>3, StatusStep
<1>3. ASSUME status' # "deleted", NEW j \in JobIds, j \in live', j \notin live
      PROVE  job'[j] = "queued" /\ job[j] = "queued"
  <2>1. job' = job /\ job[j] = "queued"
    <3>1. CASE EnqueuePages /\ j \in Orig
      <4>1. job' = job /\ status' = status /\ sub.at = "enqueue"
        BY <3>1 DEF EnqueuePages
      <4> QED
        BY <1>3, <3>1, <4>1 DEF RowsInv, Orig
    <3>2. ASSUME NEW k \in Retries, RetryEnqueue(k), j[2] = k, j[1] \in retry[k].pages
          PROVE  job' = job /\ job[j] = "queued"
      <4>1. job' = job /\ status' = status /\ retry[k].at = "enqueue"
        BY <3>2 DEF RetryEnqueue, Asking
      <4> QED
        BY <1>3, <3>2, <4>1 DEF RoundInv
    <3> QED
      BY <1>3, <3>1, <3>2, LiveStep
  <2> QED
    BY <2>1
<1>4. ASSUME status' # "deleted", NEW j \in JobIds, j \in live' \/ Attended(j)'
      PROVE  job'[j] # "none"
  <2>1. status # "deleted"
    BY <1>4, StatusStep
  <2>2. CASE j \in live \/ Attended(j)
    BY <1>1, <1>4, <2>1, <2>2 DEF RowsInv
  <2>3. CASE j \in live' /\ j \notin live
    BY <1>3, <1>4, <2>3
  <2> QED
    BY <1>4, <2>2, <2>3, AttendStep
<1>5. ASSUME status' # "deleted", sub'.at \in {"init", "enqueue"}, NEW p \in Pages
      PROVE  job'[<<p, 0>>] = "queued"
  <2>1. <<p, 0>> \in JobIds /\ <<p, 0>> \in Orig /\ status # "deleted"
    BY <1>0, <1>5, JobOf, StatusStep DEF Orig
  <2>2. CASE SubmitCommit
    BY <2>1, <2>2 DEF SubmitCommit, SoundInv, PromiseInv, SubmitInv
  <2>3. CASE sub.at \in {"init", "enqueue"}
    <3>1. job[<<p, 0>>] = "queued" /\ Unreaped(<<p, 0>>)
      BY <2>1, <2>3 DEF RowsInv, Unreaped
    <3> QED
      BY <1>5, <2>1, <3>1, RowStep
  <2> QED
    BY <1>5, <2>2, <2>3, SubStep
<1>6. ASSUME status' # "deleted", mishaps'.deaths = 0, NEW j \in live'
      PROVE  job'[j] = "queued" \/ Attended(j)'
  <2>1. status # "deleted" /\ mishaps.deaths = 0 /\ j \in JobIds
    <3>1. live' \subseteq JobIds
      BY <1>0, NextTypes DEF Types, TypeOK
    <3> QED
      BY <1>0, <1>6, <3>1, Deathless, StatusStep
  <2>2. CASE j \notin live
    BY <1>3, <1>6, <2>1, <2>2
  <2>3. CASE j \in live /\ Attended(j)
    BY <1>6, <2>1, <2>3, AttendStep
  <2>4. CASE j \in live /\ ~Attended(j)
    <3>1. job[j] = "queued"
      BY <2>1, <2>4 DEF RowsInv
    <3> QED
      BY <1>6, <2>1, <2>4, <3>1, RowStep
  <2> QED
    BY <2>2, <2>3, <2>4
<1>7. sub'.at = "dead" => mishaps'.deaths > 0
  BY <1>0, SubStep, DeathStep DEF RowsInv
<1> QED
  BY <1>2, <1>4, <1>5, <1>6, <1>7 DEF RowsInv

\* The stages of a retry request, in order.
LEMMA RetryStages ==
    ASSUME Types, NEW k \in Retries, RetryOwned(k) \/ RetryStep(k) \/ RetryDies(k)
    PROVE  /\ RetryOwned(k) => retry'[k].at = "owned"
           /\ retry'[k].at = "owned" => RetryOwned(k)
           /\ retry'[k].at = "copy" => retry[k].at = "owned"
           /\ retry'[k].at = "commit" => retry[k].at = "copy"
           /\ retry'[k].at = "count" => RetryCommit(k)
           /\ RetryCommit(k) => retry'[k].at = "count" /\ retry'[k].pages = retry[k].pages
           /\ retry'[k].at = "init" => RetryCounts(k)
           /\ retry'[k].at = "enqueue" => RetryInit(k)
           /\ retry'[k].at \in {"init", "enqueue"} => retry'[k].pages = retry[k].pages
           /\ retry'[k].at # "idle"
           /\ retry[k].at \in {"idle", "end"} => RetryOwned(k)
           /\ retry'[k].at = "end" => \/ RetryCopy(k) \/ RetryOfDeleted(k)
                                     \/ RetryEnqueue(k) \/ RetryDies(k)
<1> retry \in [Retries -> RetryAsks] /\ IdleRetry.at = "idle" /\ EndedRetry.at = "end"
  BY DEF Types, EndedRetry, IdleRetry
<1>1. CASE RetryOwned(k)
  <2>1. retry[k].at = "idle" /\ retry'[k].at = "owned"
    BY <1>1 DEF RetryOwned, Asking, RetryAsks
  <2>2. ~RetryCommit(k)
    BY <2>1 DEF RetryCommit, Asking
  <2> QED
    BY <1>1, <2>1, <2>2
<1>2. CASE RetryPages(k)
  <2>1. retry[k].at = "owned" /\ retry'[k].at = "copy"
    BY <1>2 DEF RetryPages, Asking, RetryAsks
  <2>2. ~RetryCommit(k) /\ ~RetryOwned(k)
    BY <2>1 DEF RetryCommit, RetryOwned, Asking
  <2> QED
    BY <2>1, <2>2
<1>3. CASE RetryCopy(k)
  <2>1. retry[k].at = "copy" /\ retry'[k].at \in {"commit", "end"}
    <3>1. \/ retry'[k] = EndedRetry
          \/ \E pages : retry'[k] = [retry[k] EXCEPT !.at = "commit", !.old = {}, !.pages = pages]
      BY <1>3 DEF RetryCopy
    <3> QED
      BY <1>3, <3>1 DEF RetryCopy, Asking, RetryAsks
  <2>2. ~RetryCommit(k) /\ ~RetryOwned(k)
    BY <2>1 DEF RetryCommit, RetryOwned, Asking
  <2> QED
    BY <1>3, <2>1, <2>2
<1>4. CASE RetryCommit(k)
  <2>1. /\ retry[k].at = "commit" /\ retry'[k].at = "count"
        /\ retry'[k].pages = retry[k].pages
    BY <1>4 DEF RetryCommit, Asking, RetryAsks
  <2>2. ~RetryOwned(k)
    BY <2>1 DEF RetryOwned, Asking
  <2> QED
    BY <1>4, <2>1, <2>2
<1>5. CASE RetryOfDeleted(k) \/ RetryEnqueue(k) \/ RetryDies(k)
  <2>1. retry'[k].at = "end" /\ retry[k].at \notin {"idle", "end"} /\ ~RetryOwned(k)
    BY <1>5 DEF RetryOfDeleted, RetryEnqueue, RetryDies, RetryOwned, Asking
  <2>2. ~RetryCommit(k)
    BY <2>1 DEF RetryCommit, RetryAsks
  <2> QED
    BY <1>5, <2>1, <2>2
<1>6. CASE RetryCounts(k)
  <2>1. retry[k].at = "count" /\ retry'[k].at = "init" /\ retry'[k].pages = retry[k].pages
    <3> DEFINE d == Cardinality(PagesIn("done"))
               f == Cardinality(PagesIn("failed"))
    <3>1. retry'[k] = [[[retry[k] EXCEPT !.at = "init"] EXCEPT !.done = d] EXCEPT !.failed = f]
      BY <1>6 DEF RetryCounts
    <3> HIDE DEF d, f
    <3> QED
      BY <1>6, <3>1 DEF RetryCounts, Asking, RetryAsks
  <2>2. ~RetryCommit(k) /\ ~RetryOwned(k)
    BY <2>1 DEF RetryCommit, RetryOwned, Asking
  <2> QED
    BY <1>6, <2>1, <2>2
<1>7. CASE RetryInit(k)
  <2>1. retry[k].at = "init" /\ retry'[k].at = "enqueue" /\ retry'[k].pages = retry[k].pages
    BY <1>7 DEF RetryInit, Asking, RetryAsks
  <2>2. ~RetryCommit(k) /\ ~RetryOwned(k)
    BY <2>1 DEF RetryCommit, RetryOwned, Asking
  <2> QED
    BY <1>7, <2>1, <2>2
<1> QED
  BY <1>1, <1>2, <1>3, <1>4, <1>5, <1>6, <1>7 DEF RetryStep

LEMMA RoundInvStep ==
    ASSUME Unhurried, SoundInv, RowsInv, RoundInv, [Next]_vars, RetriesApart' PROVE RoundInv'
<1>0. Types /\ SubmitInv
  BY DEF SoundInv, PromiseInv
<1>1. ASSUME NEW k \in Retries, retry'[k].at \in {"owned", "copy", "commit"}
      PROVE  status' \in {"finished", "deleted"}
  <2>1. CASE RetryOwned(k)
    BY <2>1 DEF RetryOwned
  <2>2. CASE ~RetryOwned(k)
    <3>1. retry[k].at \in {"owned", "copy", "commit"}
      BY <1>0, <1>1, <2>2, RetryMoves, RetryStages
    <3>2. \A m \in Retries : m # k => retry[m].at \in {"idle", "end"}
      BY <3>1 DEF RoundInv
    <3>3. ~RetryCommit(k)
      BY <1>0, <1>1, RetryStages DEF RetryStep
    <3>4. ASSUME NEW m \in Retries, RetryCommit(m) PROVE FALSE
      <4>1. retry[m].at = "commit"
        BY <3>4 DEF RetryCommit, Asking
      <4> QED
        BY <3>2, <3>3, <3>4, <4>1
    <3> QED
      BY <3>1, <3>4, StatusStep DEF RoundInv
  <2> QED
    BY <2>1, <2>2
<1>2. ASSUME NEW k \in Retries, NEW m \in Retries \ {k}, retry'[k].at \notin {"idle", "end"}
      PROVE  retry'[m].at \in {"idle", "end"}
  <2>1. ASSUME NEW n \in Retries, RetryOwned(n) PROVE \A i \in Retries : retry[i].at \in {"idle", "end"}
    BY <2>1 DEF RetryOwned, Crossing, RetriesApart, UnderWay, Asking
  <2>2. CASE RetryOwned(k)
    <3>1. retry'[m] = retry[m]
      BY <1>0, <2>2 DEF RetryOwned, Types
    <3> QED
      BY <2>1, <2>2, <3>1
  <2>3. CASE ~RetryOwned(k)
    <3>1. retry[k].at \notin {"idle", "end"}
      BY <1>0, <1>2, <2>3, RetryMoves, RetryStages
    <3>2. retry[m].at \in {"idle", "end"}
      BY <3>1 DEF RoundInv
    <3>3. ~RetryOwned(m)
      BY <2>1, <3>1
    <3> QED
      BY <1>0, <3>2, <3>3, RetryMoves, RetryStages
  <2> QED
    BY <2>2, <2>3
<1>3. ASSUME NEW k \in Retries, retry'[k].at \in {"count", "init", "enqueue"}, status' # "deleted",
             NEW j \in JobIds
      PROVE  job'[j] = "queued" <=> j[2] = k /\ j[1] \in retry'[k].pages
  <2>1. CASE RetryCommit(k)
    <3>1. retry[k].at = "commit" /\ status # "deleted" /\ retry'[k].pages = retry[k].pages
      BY <1>0, <2>1, RetryStages DEF RetryCommit, Asking, RetryStep
    <3>2. job[j] # "queued"
      BY <3>1 DEF RoundInv, SoundInv, AskInv
    <3> QED
      BY <2>1, <3>1, <3>2 DEF RetryCommit
  <2>2. CASE ~RetryCommit(k)
    <3>1. retry[k].at \in {"count", "init", "enqueue"} /\ retry'[k].pages = retry[k].pages
      <4>1. CASE retry'[k] = retry[k]
        BY <1>3, <4>1
      <4>2. CASE retry'[k] # retry[k]
        <5>1. RetryOwned(k) \/ RetryStep(k) \/ RetryDies(k)
          BY <1>0, <4>2, RetryMoves
        <5>2. RetryCounts(k) => retry[k].at = "count"
          BY DEF RetryCounts, Asking
        <5>3. RetryInit(k) => retry[k].at = "init"
          BY DEF RetryInit, Asking
        <5> QED
          BY <1>0, <1>3, <2>2, <5>1, <5>2, <5>3, RetryStages
      <4> QED
        BY <4>1, <4>2
    <3>2. status # "deleted"
      BY <1>3, StatusStep
    <3>3. job[j] = "queued" <=> j[2] = k /\ j[1] \in retry[k].pages
      BY <3>1, <3>2 DEF RoundInv
    <3>4. job'[j] = job[j]
      <4>1. status # "open"
        BY <1>0, <3>1, Late DEF Quiet
      <4>2. \A m \in Retries : ~RetryCommit(m)
        BY <2>2, <3>1 DEF RoundInv, RetryCommit, Asking
      <4>3. job[j] # "none" /\ ~Unreaped(j) => job[j] # "queued"
        BY <3>1, <3>3, BatchAssumption DEF Unreaped, Retries
      <4>4. job'[j] # job[j] => job[j] = "queued"
        BY <1>3, <4>1, <4>2, RowStep DEF SoundInv
      <4> QED
        BY <1>3, <4>1, <4>2, <4>3, <4>4, RowStep
    <3> QED
      BY <3>1, <3>3, <3>4
  <2> QED
    BY <2>1, <2>2
<1> QED
  BY <1>1, <1>2, <1>3 DEF RoundInv

\* A page leaves the live ones when a worker settles it.
LEMMA LeaveStep ==
    ASSUME [Next]_vars, NEW j \in live, j \notin live'
    PROVE  /\ live' = live \ {j}
           /\ \E w \in Workers :
                 \/ FailPage(w, j)
                 \/ txn[w].job = j /\ (CountDone(w) \/ (CommitTxn(w) /\ job[j] = "none"))
<1>1. ASSUME NEW w \in Workers, WorkerStep(w) \/ WorkerDies(w)
      PROVE  /\ live' = live \ {j}
             /\ \/ FailPage(w, j)
                \/ txn[w].job = j /\ (CountDone(w) \/ (CommitTxn(w) /\ job[j] = "none"))
  <2>1. ASSUME NEW i \in JobIds, Harvest(w, i) \/ FailPage(w, i)
        PROVE  i = j /\ FailPage(w, i) /\ live' = live \ {j}
    BY <2>1 DEF Harvest, FailPage
  <2>2. CASE CommitTxn(w)
    BY <2>2 DEF CommitTxn
  <2>3. CASE CountDone(w)
    BY <2>3 DEF CountDone
  <2>4. CASE LockBatch(w) \/ FinishIfDone(w) \/ WorkerDies(w)
    BY <2>4 DEF LockBatch, FinishIfDone, WorkerDies
  <2> QED
    BY <1>1, <2>1, <2>2, <2>3, <2>4 DEF WorkerStep
<1>2. CASE ~\E w \in Workers : WorkerStep(w) \/ WorkerDies(w)
  <2>1. CASE \/ SubmitStep \/ ApiDies
             \/ \E p \in Pages : UploadEnds(p, FALSE)
             \/ \E landed \in SUBSET Pages : Refuse(landed)
    BY <2>1 DEF SubmitStep, ApiDies, UploadEnds, Refuse, SubmitBatch, AbandonObjects,
       AbandonRows, SubmitCommit, InitBatch, StorePage, EnqueuePages
  <2>2. ASSUME NEW k \in Retries, RetryOwned(k) \/ RetryStep(k) \/ RetryDies(k)
        PROVE  live \subseteq live'
    BY <2>2 DEF RetryOwned, RetryStep, RetryDies, RetryPages, RetryCopy, RetryCommit,
       RetryOfDeleted, RetryCounts, RetryInit, RetryEnqueue
  <2>3. ASSUME NEW c \in Clients, ResultsOwned(c) \/ ResultsStep(c) PROVE live' = live
    BY <2>3 DEF ResultsOwned, ResultsStep, StoredResults, ListPages, BuildArchive, ResultsCommit
  <2>4. CASE \/ \E i \in JobIds : Reap(i)
             \/ ExpireSelect \/ RetentionStep
             \/ \E old \in SUBSET JobIds, arch \in BOOLEAN : Sweep(old, arch)
    BY <2>4 DEF Reap, ExpireSelect, RetentionStep, Sweep, PurgeUploads, PurgeResults,
       EvictSelect, ExpireObjects, ExpireCommit, EvictObjects, EvictCommit
  <2> QED
    BY <1>2, <2>1, <2>2, <2>3, <2>4 DEF Next, Step, vars
<1> QED
  BY <1>1, <1>2

\* Only a worker that settles and counts a page takes it off what the counters wait for.
LEMMA PendStep ==
    ASSUME Unhurried, SoundInv, RowsInv, RoundInv, [Next]_vars,
           mishaps'.deaths = 0, status' # "deleted", NEW j \in Pend, j \notin Pend'
    PROVE  /\ j \in live /\ live' = live \ {j}
           /\ \E w \in Workers : FailPage(w, j) \/ (CountDone(w) /\ txn[w].job = j)
<1>0. Types /\ j \in JobIds /\ status # "deleted" /\ mishaps.deaths = 0
  BY StatusStep, Deathless DEF Pend, SoundInv, PromiseInv
<1>1. j \notin live'
  BY <1>0 DEF Pend
<1>2. CASE j \in live
  <2>1. job[j] # "none"
    BY <1>0, <1>2 DEF RowsInv
  <2> QED
    BY <1>1, <1>2, <2>1, LeaveStep
<1>3. CASE j \notin live
  <2>1. job[j] = "queued" /\ ~Enqueued(j)
    BY <1>3 DEF Pend
  <2>2. Unreaped(j)
    BY <1>0, <2>1 DEF Enqueued, Unreaped, RowsInv
  <2>3. job'[j] = "queued"
    BY <1>0, <2>1, <2>2, RowStep
  <2>4. Enqueued(j)'
    BY <1>0, <2>3 DEF Pend
  <2>5. CASE j[2] = 0
    <3>1. EnqueuePages /\ j \in Orig
      BY <1>0, <2>1, <2>4, <2>5, SubStep DEF Enqueued, JobIds, Orig
    <3> QED
      BY <1>1, <3>1 DEF EnqueuePages
  <2>6. CASE j[2] # 0
    <3> PICK k \in Retries : k = j[2]
      BY <1>0, <2>6, JobParts
    <3>1. retry[k].at # "end" /\ retry'[k].at = "end"
      BY <2>1, <2>4, <2>6 DEF Enqueued
    <3>2. RetryCopy(k) \/ RetryOfDeleted(k) \/ RetryEnqueue(k)
      BY <1>0, <3>1, RetryMoves, RetryStages, Deathless
    <3>3. ~RetryCopy(k)
      BY <1>0, <2>1 DEF RetryCopy, Asking, RoundInv, SoundInv, AskInv
    <3>4. ~RetryOfDeleted(k)
      BY <1>0 DEF RetryOfDeleted
    <3>5. CASE RetryEnqueue(k)
      <4>1. j[1] \in retry[k].pages /\ j = <<j[1], k>>
        BY <1>0, <2>1, <3>5 DEF RetryEnqueue, Asking, RoundInv, JobIds
      <4> QED
        BY <1>1, <3>5, <4>1 DEF RetryEnqueue
    <3> QED
      BY <3>2, <3>3, <3>4, <3>5
  <2> QED
    BY <2>5, <2>6
<1> QED
  BY <1>2, <1>3

LEMMA WaitingSize == Waiting \subseteq Pages /\ IsFiniteSet(Waiting) /\ Cardinality(Waiting) \in Nat
<1>1. Waiting \subseteq Pages
  BY JobParts DEF Waiting, Pend
<1> QED
  BY <1>1, BatchAssumption, FS_Subset, FS_CardinalityType

\* The pages the counters wait for become at most one fewer, when a worker has counted it.
LEMMA WaitingStep ==
    ASSUME Unhurried, SoundInv, RowsInv, RoundInv, [Next]_vars,
           mishaps'.deaths = 0, status' # "deleted"
    PROVE  /\ Cardinality(Waiting') \in Nat
           /\ \/ Cardinality(Waiting) <= Cardinality(Waiting')
              \/ /\ Cardinality(Waiting) <= Cardinality(Waiting') + 1
                 /\ \E w \in Workers, j \in live : FailPage(w, j) \/ (CountDone(w) /\ txn[w].job = j)
<1>1. IsFiniteSet(Waiting) /\ Cardinality(Waiting) \in Nat
  BY WaitingSize
<1>2. Waiting' \subseteq Pages /\ IsFiniteSet(Waiting') /\ Cardinality(Waiting') \in Nat
  <2>1. Waiting' \subseteq Pages
    BY JobParts DEF Waiting, Pend
  <2> QED
    BY <2>1, BatchAssumption, FS_Subset, FS_CardinalityType
<1>3. CASE Pend \subseteq Pend'
  <2>1. Waiting \subseteq Waiting'
    BY <1>3 DEF Waiting
  <2> QED
    BY <1>1, <1>2, <2>1, FS_Subset
<1>4. CASE ~(Pend \subseteq Pend')
  <2> PICK j \in Pend : j \notin Pend'
    BY <1>4
  <2>1. j \in live /\ live' = live \ {j}
    BY PendStep
  <2>2. \E w \in Workers : FailPage(w, j) \/ (CountDone(w) /\ txn[w].job = j)
    BY PendStep
  <2>3. ASSUME NEW i \in Pend, i \notin Pend' PROVE i = j
    <3>1. i \in live /\ live' = live \ {i}
      BY <2>3, PendStep
    <3> QED
      BY <2>1, <3>1
  <2>4. Waiting \subseteq Waiting' \cup {j[1]}
    BY <2>3 DEF Waiting
  <2>5. /\ IsFiniteSet(Waiting' \cup {j[1]})
        /\ Cardinality(Waiting' \cup {j[1]}) \in {Cardinality(Waiting'), Cardinality(Waiting') + 1}
    BY <1>2, FS_AddElement
  <2>6. Cardinality(Waiting) <= Cardinality(Waiting' \cup {j[1]})
    BY <2>4, <2>5, FS_Subset
  <2>7. Cardinality(Waiting) <= Cardinality(Waiting') + 1
    BY <1>1, <1>2, <2>5, <2>6
  <2> QED
    BY <1>2, <2>1, <2>2, <2>7
<1> QED
  BY <1>3, <1>4

\* Who writes the counters of a batch.
LEMMA CountsStep ==
    ASSUME [Next]_vars,
           ~\E w \in Workers, j \in live : FailPage(w, j) \/ (CountDone(w) /\ txn[w].job = j)
    PROVE  counts' = counts \/ InitBatch \/ \E k \in Retries : RetryInit(k)
<1>1. CASE \/ SubmitStep \/ ApiDies
           \/ \E p \in Pages : UploadEnds(p, FALSE)
           \/ \E landed \in SUBSET Pages : Refuse(landed)
  BY <1>1 DEF SubmitStep, ApiDies, UploadEnds, Refuse, SubmitBatch, AbandonObjects,
     AbandonRows, SubmitCommit, StorePage, EnqueuePages
<1>2. ASSUME NEW w \in Workers, WorkerStep(w) \/ WorkerDies(w)
      PROVE  counts' = counts \/ \E j \in live : FailPage(w, j) \/ (CountDone(w) /\ txn[w].job = j)
  <2>1. ASSUME NEW i \in JobIds, Harvest(w, i) \/ FailPage(w, i)
        PROVE  counts' = counts \/ \E j \in live : FailPage(w, j)
    BY <2>1 DEF Harvest, FailPage
  <2>2. CASE CountDone(w)
    BY <2>2 DEF CountDone
  <2>3. CASE CommitTxn(w) \/ LockBatch(w) \/ FinishIfDone(w) \/ WorkerDies(w)
    BY <2>3 DEF CommitTxn, LockBatch, FinishIfDone, WorkerDies
  <2> QED
    BY <1>2, <2>1, <2>2, <2>3 DEF WorkerStep
<1>3. ASSUME NEW k \in Retries, RetryOwned(k) \/ RetryStep(k) \/ RetryDies(k)
      PROVE  counts' = counts \/ RetryInit(k)
  BY <1>3 DEF RetryOwned, RetryStep, RetryDies, RetryPages, RetryCopy, RetryCommit,
     RetryOfDeleted, RetryCounts, RetryEnqueue
<1>4. ASSUME NEW c \in Clients, ResultsOwned(c) \/ ResultsStep(c) PROVE counts' = counts
  BY <1>4 DEF ResultsOwned, ResultsStep, StoredResults, ListPages, BuildArchive, ResultsCommit
<1>5. CASE \/ \E i \in JobIds : Reap(i)
           \/ ExpireSelect \/ RetentionStep
           \/ \E old \in SUBSET JobIds, arch \in BOOLEAN : Sweep(old, arch)
  BY <1>5 DEF Reap, ExpireSelect, RetentionStep, Sweep, PurgeUploads, PurgeResults, EvictSelect,
     ExpireObjects, ExpireCommit, EvictObjects, EvictCommit
<1> QED
  BY <1>1, <1>2, <1>3, <1>4, <1>5 DEF Next, Step, vars

\* What a retry counts, and the pages it is about to enqueue, are all the pages.
LEMMA RetryTally ==
    ASSUME SoundInv, RowsInv, RoundInv, status # "deleted", NEW k \in Retries, RetryCounts(k)
    PROVE  retry'[k].done + retry'[k].failed + Cardinality(retry'[k].pages) >= Cardinality(Pages)
<1>0. Types /\ SubmitInv /\ retry[k].at = "count" /\ retry[k] \in RetryAsks
  BY DEF SoundInv, PromiseInv, Types, RetryCounts, Asking
<1> DEFINE D == PagesIn("done")
           F == PagesIn("failed")
           Q == retry[k].pages
<1>1. retry'[k].done = Cardinality(D) /\ retry'[k].failed = Cardinality(F) /\ retry'[k].pages = Q
  <2> DEFINE d == Cardinality(D)
             f == Cardinality(F)
  <2>1. retry'[k] = [[[retry[k] EXCEPT !.at = "init"] EXCEPT !.done = d] EXCEPT !.failed = f]
    BY <1>0 DEF RetryCounts, Types
  <2>2. retry[k] \in RetryAsks
    BY <1>0
  <2> HIDE DEF d, f
  <2>3. retry'[k].done = d /\ retry'[k].failed = f /\ retry'[k].pages = Q
    BY ONLY <2>1, <2>2 DEF RetryAsks
  <2> QED
    BY <2>3 DEF d, f
<1>2. status \in {"queued", "finished"}
  BY <1>0, Late DEF Quiet, Types, TypeOK
<1>3. Pages \subseteq D \cup F \cup Q
  <2> SUFFICES ASSUME NEW p \in Pages, p \notin D, p \notin F PROVE p \in Q
    OBVIOUS
  <2>1. job[<<p, 0>>] # "none"
    BY <1>2 DEF RowsInv
  <2>2. Latest(p) \in JobIds /\ Latest(p)[1] = p /\ job[Latest(p)] # "none"
    BY <2>1, LatestJob
  <2>3. job[Latest(p)] = "queued"
    BY <1>0, <2>1, <2>2 DEF PagesIn, Types, TypeOK, JobStatuses
  <2> QED
    BY <1>0, <2>2, <2>3 DEF RoundInv
<1>4. /\ IsFiniteSet(D) /\ IsFiniteSet(F) /\ IsFiniteSet(Q)
      /\ Cardinality(D) \in Nat /\ Cardinality(F) \in Nat /\ Cardinality(Q) \in Nat
  <2>1. Q \subseteq Pages
    BY <1>0 DEF RetryAsks
  <2> QED
    BY <2>1, PagesInCount, BatchAssumption, FS_Subset, FS_CardinalityType
<1> HIDE DEF D, F, Q
<1>5. IsFiniteSet(D \cup F) /\ Cardinality(D \cup F) <= Cardinality(D) + Cardinality(F)
  <2>1. /\ IsFiniteSet(D \cup F)
        /\ Cardinality(D \cup F) = Cardinality(D) + Cardinality(F) - Cardinality(D \cap F)
    BY <1>4, FS_Union
  <2>2. Cardinality(D \cap F) \in Nat
    BY <1>4, FS_Subset, FS_CardinalityType
  <2> QED
    BY <1>4, <2>1, <2>2
<1>6. /\ IsFiniteSet(D \cup F \cup Q)
      /\ Cardinality(D \cup F \cup Q) <= Cardinality(D \cup F) + Cardinality(Q)
  <2>1. /\ IsFiniteSet(D \cup F \cup Q)
        /\ Cardinality(D \cup F \cup Q)
             = Cardinality(D \cup F) + Cardinality(Q) - Cardinality((D \cup F) \cap Q)
    BY <1>4, <1>5, FS_Union
  <2>2. Cardinality((D \cup F) \cap Q) \in Nat /\ Cardinality(D \cup F) \in Nat
    BY <1>5, FS_Subset, FS_CardinalityType
  <2> QED
    BY <1>4, <2>1, <2>2
<1>7. Cardinality(Pages) <= Cardinality(D \cup F \cup Q)
  BY <1>3, <1>6, FS_Subset
<1>8. /\ Cardinality(Pages) \in Nat /\ Cardinality(D \cup F) \in Nat
      /\ Cardinality(D \cup F \cup Q) \in Nat
  BY <1>5, <1>6, BatchAssumption, FS_CardinalityType
<1> QED
  BY <1>1, <1>4, <1>5, <1>6, <1>7, <1>8

LEMMA TallyInvStep ==
    ASSUME Unhurried, SoundInv, RowsInv, RoundInv, TallyInv, [Next]_vars PROVE TallyInv'
<1> SUFFICES ASSUME mishaps'.deaths = 0, status' # "deleted"
             PROVE  /\ counts'.done + counts'.failed + Cardinality(Waiting') >= counts'.total
                    /\ \A k \in Retries : retry'[k].at = "init" =>
                          retry'[k].done + retry'[k].failed + Cardinality(retry'[k].pages)
                             >= Cardinality(Pages)
  BY DEF TallyInv
<1>0. /\ Types /\ status # "deleted" /\ mishaps.deaths = 0
      /\ counts.done \in Nat /\ counts.failed \in Nat /\ counts.total \in Nat
      /\ Cardinality(Waiting) \in Nat /\ Cardinality(Waiting') \in Nat
      /\ counts.done + counts.failed + Cardinality(Waiting) >= counts.total
      /\ 0 \in 0..MaxRetries /\ Retries \subseteq 0..MaxRetries
  <2>1. Types /\ status # "deleted" /\ mishaps.deaths = 0
    BY StatusStep, Deathless DEF SoundInv, PromiseInv
  <2>2. counts.done \in Nat /\ counts.failed \in Nat /\ counts.total \in Nat
    BY <2>1 DEF Types, TypeOK
  <2>3. Cardinality(Waiting) \in Nat /\ Cardinality(Waiting') \in Nat
    BY WaitingSize, WaitingStep
  <2> QED
    BY <2>1, <2>2, <2>3, OrigJobs DEF TallyInv
<1>1. ASSUME NEW k \in Retries, retry'[k].at = "init"
      PROVE  retry'[k].done + retry'[k].failed + Cardinality(retry'[k].pages) >= Cardinality(Pages)
  <2>1. CASE retry'[k] = retry[k]
    BY <1>0, <1>1, <2>1 DEF TallyInv
  <2>2. CASE retry'[k] # retry[k]
    BY <1>0, <1>1, <2>2, RetryMoves, RetryStages, RetryTally
  <2> QED
    BY <2>1, <2>2
<1>2. ASSUME NEW w \in Workers, NEW j \in live, FailPage(w, j) \/ (CountDone(w) /\ txn[w].job = j)
      PROVE  counts'.done + counts'.failed + Cardinality(Waiting') >= counts'.total
  <2>1. counts'.done + counts'.failed = counts.done + counts.failed + 1 /\ counts'.total = counts.total
    <3>1. counts \in [total : Nat, done : Nat, failed : Nat]
      BY <1>0 DEF Types, TypeOK
    <3>2. \/ counts' = [counts EXCEPT !.failed = @ + 1]
          \/ counts' = [counts EXCEPT !.done = @ + 1]
      BY <1>2 DEF FailPage, CountDone
    <3> QED
      BY <1>0, <3>1, <3>2
  <2>2. Cardinality(Waiting) <= Cardinality(Waiting') + 1
    BY <1>0, WaitingStep
  <2>3. counts'.done + counts'.failed + Cardinality(Waiting')
           = counts.done + counts.failed + Cardinality(Waiting') + 1
    BY <1>0, <2>1
  <2> QED
    BY <1>0, <2>1, <2>2, <2>3
<1>3. ASSUME InitBatch
      PROVE  counts'.done + counts'.failed + Cardinality(Waiting') >= counts'.total
  <2>1. counts' = [total |-> Cardinality(Pages), done |-> 0, failed |-> 0] /\ job' = job
    BY <1>3 DEF InitBatch
  <2>2. sub.at = "init" /\ sub'.at = "enqueue"
    BY <1>0, <1>3 DEF InitBatch, Types, Submits
  <2>3. ASSUME NEW p \in Pages PROVE p \in Waiting'
    <3>1. <<p, 0>> \in JobIds /\ job'[<<p, 0>>] = "queued"
      BY <1>0, <2>1, <2>2, JobOf DEF RowsInv
    <3>2. ~Enqueued(<<p, 0>>)'
      BY <2>2 DEF Enqueued
    <3>3. <<p, 0>> \in Pend'
      BY <3>1, <3>2 DEF Pend
    <3> QED
      BY <3>3 DEF Waiting
  <2>4. Cardinality(Pages) <= Cardinality(Waiting') /\ Cardinality(Pages) \in Nat
    <3>1. Waiting' \subseteq Pages
      BY JobParts DEF Waiting, Pend
    <3>2. Waiting' = Pages
      BY <2>3, <3>1
    <3> QED
      BY <1>0, <3>2, BatchAssumption, FS_CardinalityType
  <2> QED
    BY <1>0, <2>1, <2>4
<1>4. ASSUME NEW k \in Retries, RetryInit(k)
      PROVE  counts'.done + counts'.failed + Cardinality(Waiting') >= counts'.total
  <2>1. /\ counts' = [total |-> Cardinality(Pages), done |-> retry[k].done, failed |-> retry[k].failed]
        /\ job' = job /\ retry[k].at = "init"
    BY <1>4 DEF RetryInit, Asking
  <2>2. retry'[k].at = "enqueue"
    BY <1>0, <1>4 DEF RetryInit, Types
  <2>3. retry[k].pages \subseteq Pages /\ retry[k].done \in Nat /\ retry[k].failed \in Nat
    BY <1>0 DEF Types, RetryAsks
  <2>4. ASSUME NEW p \in retry[k].pages PROVE p \in Waiting'
    <3>1. <<p, k>> \in JobIds
      BY <1>0, <2>3, JobOf
    <3>2. job'[<<p, k>>] = "queued"
      BY <1>0, <2>1, <3>1 DEF RoundInv
    <3>3. ~Enqueued(<<p, k>>)'
      BY <1>0, <2>2, BatchAssumption DEF Enqueued, Retries
    <3>4. <<p, k>> \in Pend'
      BY <3>1, <3>2, <3>3 DEF Pend
    <3> QED
      BY <3>4 DEF Waiting
  <2>5. /\ Cardinality(retry[k].pages) <= Cardinality(Waiting')
        /\ Cardinality(retry[k].pages) \in Nat /\ Cardinality(Pages) \in Nat
    <3>1. Waiting' \subseteq Pages
      BY JobParts DEF Waiting, Pend
    <3>2. IsFiniteSet(Waiting') /\ retry[k].pages \subseteq Waiting'
      BY <2>4, <3>1, BatchAssumption, FS_Subset
    <3> QED
      BY <2>3, <3>2, BatchAssumption, FS_Subset, FS_CardinalityType
  <2>6. retry[k].done + retry[k].failed + Cardinality(retry[k].pages) >= Cardinality(Pages)
    BY <1>0, <2>1 DEF TallyInv
  <2> QED
    BY <1>0, <2>1, <2>3, <2>5, <2>6
<1>5. ASSUME ~\E w \in Workers, j \in live : FailPage(w, j) \/ (CountDone(w) /\ txn[w].job = j)
      PROVE  counts'.done + counts'.failed + Cardinality(Waiting') >= counts'.total
  <2>1. Cardinality(Waiting) <= Cardinality(Waiting')
    BY <1>5, WaitingStep
  <2>2. counts' = counts => counts'.done + counts'.failed + Cardinality(Waiting') >= counts'.total
    BY <1>0, <2>1
  <2> QED
    BY <1>3, <1>4, <1>5, <2>2, CountsStep
<1> QED
  BY <1>1, <1>2, <1>5

\* Without crashes, and unless two retries have overlapped, the counters of a finished
\* batch reach its total, so that the last progress event wakes whoever waits for it
\* (set_done, set_failed, init_batch, _enqueue_pages): nothing is left that they wait for.
THEOREM CountsReach == ASSUME Unhurried PROVE Spec => []CountsReachTotal
<1>1. Init => CountInv
  <2> SUFFICES ASSUME Init PROVE RowsInv /\ RoundInv /\ TallyInv
    BY DEF CountInv
  <2>1. \A j \in JobIds : ~Attended(j)
    BY NoJob DEF Init, Attended, IdleTxn
  <2>2. RowsInv /\ RoundInv
    BY <2>1 DEF Init, RowsInv, RoundInv, IdleRetry
  <2>3. Waiting = {} /\ counts.total = 0 /\ counts.done = 0 /\ counts.failed = 0
    BY DEF Init, Waiting, Pend
  <2>4. \A k \in Retries : retry[k].at # "init"
    BY DEF Init, IdleRetry
  <2> QED
    BY <2>2, <2>3, <2>4, FS_EmptySet DEF TallyInv
<1>2. SoundInv /\ CountInv /\ [Next]_vars => CountInv'
  <2> SUFFICES ASSUME SoundInv, CountInv, [Next]_vars, RetriesApart'
               PROVE  RowsInv' /\ RoundInv' /\ TallyInv'
    BY DEF CountInv
  <2>1. RetriesApart
    BY CrossedStep DEF RetriesApart
  <2> QED
    BY <2>1, RowsInvStep, RoundInvStep, TallyInvStep DEF CountInv
<1>3. SoundInv /\ CountInv => CountsReachTotal
  <2> SUFFICES ASSUME SoundInv, RowsInv, TallyInv, status = "finished", mishaps.deaths = 0,
                      \A w \in Workers : txn[w].at = "idle"
               PROVE  counts.done + counts.failed >= counts.total
    BY DEF CountsReachTotal, CountInv, RetriesApart
  <2>1. \A j \in JobIds : ~Attended(j)
    BY NoJob DEF SoundInv, TxnInv, Attended, IdleTxn
  <2>2. \A j \in JobIds : job[j] # "queued"
    BY DEF SoundInv, AskInv
  <2>3. Waiting = {}
    BY <2>1, <2>2 DEF Waiting, Pend, RowsInv
  <2>4. Cardinality(Waiting) = 0
    BY <2>3, FS_EmptySet
  <2>5. counts.done \in Nat /\ counts.failed \in Nat /\ counts.total \in Nat
    BY DEF SoundInv, PromiseInv, Types, TypeOK
  <2>6. counts.done + counts.failed + Cardinality(Waiting) >= counts.total
    BY DEF TallyInv
  <2> QED
    BY <2>4, <2>5, <2>6
<1>4. Spec => []SoundInv
  BY SoundInvariant
<1> QED
  BY <1>1, <1>2, <1>3, <1>4, PTL DEF Spec
=============================================================================
