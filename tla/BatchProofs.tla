---------------------------- MODULE BatchProofs -----------------------------
(***************************************************************************)
(* Theorems about Batch, for any archive, workers, clients and number of   *)
(* retries, deaths and retention sweeps.                                   *)
(***************************************************************************)
EXTENDS Batch, FiniteSetTheorems, WellFoundedInduction, NaturalsInduction, TLAPS

\* What the requests, the workers and the retention step remember.
Submits == [at : {"idle", "storing", "abandon", "undo", "refused", "init", "enqueue",
                  "answered", "dead"},
            stored : SUBSET Pages, running : SUBSET Pages, broken : BOOLEAN]
Txns == [at : {"idle", "update", "locked", "commit", "count"},
         job : JobIds \cup {<<>>}, ok : BOOLEAN, fin : BOOLEAN]
RetryAsks == [at : {"idle", "owned", "copy", "commit", "count", "init", "enqueue", "end"},
              built : BOOLEAN, old : SUBSET JobIds, pages : SUBSET Pages,
              done : Nat, failed : Nat]
Downloads == [at : {"idle", "stored", "pages", "build", "commit"},
              stored : SUBSET JobIds, pages : SUBSET JobIds]
Cleanings == [at : {"idle", "expire", "delete", "evict", "mark"},
              evict : SUBSET JobIds, arch : BOOLEAN]

Types ==
    /\ TypeOK
    /\ sub \in Submits
    /\ txn \in [Workers -> Txns]
    /\ retry \in [Retries -> RetryAsks]
    /\ dl \in [Clients -> Downloads]
    /\ cln \in Cleanings

\* No worker has a page, no retry has been asked for, no results are being deleted.
Quiet ==
    /\ live = {}
    /\ \A w \in Workers : txn[w] = IdleTxn
    /\ \A k \in Retries : retry[k].at = "idle"
    /\ \A c \in Clients : dl[c].at = "idle"
    /\ cln.at \notin {"expire", "delete"}
    /\ \A j \in JobIds : result[j] = "none" /\ (j \notin Orig => job[j] = "none")

\* A batch is open exactly while its archive is read, or for ever after its API died;
\* nothing else happens to it before it is queued.
SubmitInv ==
    /\ sub.at = "idle" <=> status = "none"
    /\ sub.at \in {"storing", "abandon", "undo"} => status = "open"
    /\ sub.at = "refused" => status = "deleted"
    /\ status = "open" => sub.at \in {"storing", "abandon", "undo", "dead"}
    /\ status \in {"none", "open"} \/ sub.at = "refused" => Quiet
    /\ sub.at \in {"idle", "refused"} => \A j \in JobIds : job[j] = "none"
    /\ sub.at = "storing" => \A j \in Orig : job[j] \in {"none", "queued"}

\* The uploads of an archive that may still be refused are of stored pages.
UploadInv ==
    /\ sub.running \subseteq sub.stored /\ (sub.at # "storing" => sub.running = {})
    /\ sub.at \in {"storing", "abandon"} => uploads \subseteq {<<p, 0>> : p \in sub.stored}
    /\ sub.at \in {"idle", "undo", "refused"} => uploads = {}

\* The row lock is held from finish_if_done to the commit, and what finish_if_done
\* found is true until then.
LockInv ==
    \A w \in Workers :
        /\ txn[w].at \in {"locked", "commit"} <=> lock = w
        /\ txn[w].at # "idle" => txn[w].job \in JobIds
        /\ txn[w].at = "commit" =>
              txn[w].fin = (/\ status = "queued"
                            /\ \A j \in JobIds : job[j] = "queued" => j = txn[w].job)

\* A queued batch has a page to settle.
ActiveInv == status = "queued" => \E j \in JobIds : job[j] = "queued"

\* A retry request that commits has a page to retry.
RetryInv == \A k \in Retries : retry[k].at = "commit" => retry[k].pages # {}

\* What the promise of a batch rests on.
PromiseInv == Types /\ SubmitInv /\ LockInv /\ ActiveInv /\ RetryInv

USE DEF dbVars, storeVars, redisVars

-----------------------------------------------------------------------------
\* The sets of jobs.

\* A page and the number of a request make a job.
LEMMA JobOf ==
    ASSUME NEW p \in Pages, NEW k \in 0..MaxRetries PROVE <<p, k>> \in JobIds
BY DEF JobIds

LEMMA OrigJobs ==
    /\ Orig \subseteq JobIds /\ Orig # {} /\ 0 \in 0..MaxRetries
    /\ Retries \subseteq 0..MaxRetries
<1>1. 0 \in 0..MaxRetries /\ Retries \subseteq 0..MaxRetries
  BY BatchAssumption DEF Retries
<1>2. Orig \subseteq JobIds
  BY <1>1, JobOf DEF Orig
<1>3. Orig # {}
  BY BatchAssumption DEF Orig
<1> QED
  BY <1>1, <1>2, <1>3

\* A nonempty set of naturals with an upper bound has a greatest element.
LEMMA Greatest ==
    ASSUME NEW n \in Nat, NEW S \in SUBSET (0..n), S # {}
    PROVE  \E k \in S : \A m \in S : m <= k
<1> DEFINE D == {n - k : k \in S}
           R == {ss \in Nat \X Nat : ss[1] < ss[2]}
<1>1. D \subseteq Nat /\ D # {}
  <2>1. \A k \in S : n - k \in Nat
    OBVIOUS
  <2>2. D # {}
    OBVIOUS
  <2> QED
    BY <2>1, <2>2
<1>2. IsWellFoundedOn(R, Nat)
  BY NatLessThanWellFounded DEF OpToRel
<1>3. PICK d \in D : \A e \in D : ~(<<e, d>> \in R)
  <2> HIDE DEF D, R
  <2> QED
    BY <1>1, <1>2, WFMin
<1>4. PICK k \in S : d = n - k
  OBVIOUS
<1>5. ASSUME NEW m \in S PROVE m <= k
  <2>1. n - m \in D /\ n - m \in Nat /\ n - k \in Nat
    OBVIOUS
  <2>2. ~(n - m < n - k)
    BY <1>3, <1>4, <2>1
  <2> QED
    BY <2>2
<1> QED
  BY <1>5

-----------------------------------------------------------------------------
\* Types.

\* Latest picks a job of the page.
LEMMA LatestJob ==
    ASSUME NEW p \in Pages, job[<<p, 0>>] # "none"
    PROVE  /\ Latest(p) \in JobIds /\ Latest(p)[1] = p /\ job[Latest(p)] # "none"
           /\ \A m \in 0..MaxRetries : job[<<p, m>>] # "none" => m <= Latest(p)[2]
<1> DEFINE ks == {k \in 0..MaxRetries : job[<<p, k>>] # "none"}
           top == CHOOSE k \in ks : \A m \in ks : m <= k
<1>1. ks \subseteq 0..MaxRetries /\ ks # {}
  BY OrigJobs
<1>2. \E k \in ks : \A m \in ks : m <= k
  <2> HIDE DEF ks
  <2> QED
    BY <1>1, Greatest, BatchAssumption
<1>3. top \in ks /\ \A m \in ks : m <= top
  <2> HIDE DEF ks
  <2> QED
    BY <1>2
<1>4. Latest(p) = <<p, top>>
  BY DEF Latest
<1>5. top \in 0..MaxRetries /\ <<p, top>> \in JobIds
  BY <1>1, <1>3, JobOf
<1> HIDE DEF top
<1> QED
  BY <1>3, <1>4, <1>5

LEMMA CurrentJobs == Current \subseteq JobIds
BY LatestJob DEF Current

LEMMA LatestIn ==
    ASSUME NEW s PROVE {Latest(p) : p \in PagesIn(s)} \subseteq JobIds
BY LatestJob DEF PagesIn

LEMMA PagesInCount ==
    ASSUME NEW s PROVE IsFiniteSet(PagesIn(s)) /\ Cardinality(PagesIn(s)) \in Nat
BY BatchAssumption, FS_Subset, FS_CardinalityType DEF PagesIn

LEMMA InitTypes == Init => Types
<1> SUFFICES ASSUME Init PROVE Types
  OBVIOUS
<1>0. mishaps \in [{"deaths", "sweeps"} -> 0..MaxMishaps]
  <2>1. mishaps = [k \in {"deaths", "sweeps"} |-> 0]
    BY DEF Init
  <2> QED
    BY <2>1, BatchAssumption
<1>1. TypeOK
  BY <1>0, BatchAssumption DEF Init, TypeOK, JobStatuses
<1>2. sub \in Submits /\ cln \in Cleanings
  BY DEF Init, Submits, Cleanings, IdleCln
<1>3. txn \in [Workers -> Txns] /\ retry \in [Retries -> RetryAsks] /\ dl \in [Clients -> Downloads]
  BY DEF Init, Txns, RetryAsks, Downloads, IdleTxn, IdleRetry, IdleDl
<1> QED
  BY <1>1, <1>2, <1>3 DEF Types

\* A death or a sweep is counted up to its bound.
LEMMA MishapType ==
    ASSUME Types, NEW kind \in {"deaths", "sweeps"}, Mishap(kind)
    PROVE  mishaps' \in [{"deaths", "sweeps"} -> 0..MaxMishaps]
<1>1. mishaps \in [{"deaths", "sweeps"} -> 0..MaxMishaps] /\ MaxMishaps \in Nat
  BY BatchAssumption DEF Types, TypeOK
<1>2. mishaps["deaths"] + mishaps["sweeps"] < MaxMishaps
  BY DEF Mishap
<1>3. mishaps[kind] + 1 \in 0..MaxMishaps
  BY <1>1, <1>2
<1> QED
  BY <1>1, <1>3 DEF Mishap

\* The submit request's steps keep the types.
LEMMA SubmitTypes ==
    ASSUME Types,
           \/ SubmitStep \/ ApiDies
           \/ \E p \in Pages : UploadEnds(p, FALSE)
           \/ \E landed \in SUBSET Pages : Refuse(landed)
    PROVE  Types'
<1> USE DEF SubmitOnly
<1>1. CASE SubmitBatch
  BY <1>1 DEF SubmitBatch, Types, TypeOK, Submits
<1>2. ASSUME NEW p \in Pages, NEW ok \in BOOLEAN, UploadEnds(p, ok) PROVE Types'
  BY <1>2, OrigJobs, JobOf DEF UploadEnds, Types, TypeOK, Submits
<1>3. ASSUME NEW landed \in SUBSET Pages, Refuse(landed) PROVE Types'
  <2>1. {<<p, 0>> : p \in landed} \subseteq JobIds
    BY OrigJobs DEF Orig
  <2>2. sub' \in Submits
    BY <1>3 DEF Refuse, Types, Submits
  <2> QED
    BY <1>3, <2>1, <2>2 DEF Refuse, Types, TypeOK
<1>4. CASE AbandonObjects
  BY <1>4 DEF AbandonObjects, Types, TypeOK, Submits
<1>5. CASE AbandonRows
  BY <1>5 DEF AbandonRows, Types, TypeOK, Submits, JobStatuses
<1>6. CASE SubmitCommit
  BY <1>6 DEF SubmitCommit, Types, TypeOK, Submits, JobStatuses
<1>7. CASE InitBatch
  BY <1>7, BatchAssumption, FS_CardinalityType DEF InitBatch, Types, TypeOK, Submits
<1>8. CASE EnqueuePages
  BY <1>8, OrigJobs DEF EnqueuePages, Types, TypeOK, Submits
<1>9. ASSUME NEW p \in Pages, StorePage(p) PROVE Types'
  <2>1. job' \in [JobIds -> JobStatuses]
    BY <1>9 DEF StorePage, Types, TypeOK, JobStatuses
  <2>2. sub' \in Submits
    BY <1>9 DEF StorePage, Types, Submits
  <2> QED
    BY <1>9, <2>1, <2>2 DEF StorePage, Types, TypeOK
<1>10. CASE ApiDies
  BY <1>10, MishapType DEF ApiDies, Types, TypeOK, Submits
<1> QED
  BY <1>1, <1>2, <1>3, <1>4, <1>5, <1>6, <1>7, <1>8, <1>9, <1>10 DEF SubmitStep

\* The steps of the workers that settle pages.
LEMMA WorkerTypes ==
    ASSUME Types, NEW w \in Workers, WorkerStep(w) \/ WorkerDies(w)
    PROVE  Types'
<1> USE DEF WorkerOnly
<1>0. IdleTxn \in Txns /\ txn[w] \in Txns
  BY DEF IdleTxn, Txns, Types
<1>1. ASSUME NEW j \in JobIds, Harvest(w, j) PROVE Types'
  BY <1>1 DEF Harvest, Types, TypeOK, Txns, IdleTxn
<1>2. ASSUME NEW j \in JobIds, FailPage(w, j) PROVE Types'
  <2>1. counts' \in [total : Nat, done : Nat, failed : Nat]
    BY <1>2 DEF FailPage, Types, TypeOK
  <2>2. txn' \in [Workers -> Txns]
    BY <1>2 DEF FailPage, Types, Txns, IdleTxn
  <2> QED
    BY <1>2, <2>1, <2>2 DEF FailPage, Types, TypeOK
<1>3. CASE LockBatch(w)
  BY <1>3 DEF LockBatch, Types, TypeOK, Txns
<1>4. CASE FinishIfDone(w)
  <2> DEFINE fin == status = "queued" /\ \A j \in JobIds : job[j] = "queued" => j = txn[w].job
  <2>1. fin \in BOOLEAN /\ txn' = [txn EXCEPT ![w] = [@ EXCEPT !.at = "commit", !.fin = fin]]
    BY <1>4, <1>0 DEF FinishIfDone, Types, Txns
  <2> HIDE DEF fin
  <2>2. txn' \in [Workers -> Txns]
    BY <2>1, <1>0 DEF Types, Txns
  <2> QED
    BY <1>4, <2>2 DEF FinishIfDone, Types, TypeOK
<1>5. CASE CommitTxn(w)
  BY <1>5, <1>0 DEF CommitTxn, Types, TypeOK, Txns, JobStatuses
<1>6. CASE CountDone(w)
  BY <1>6, <1>0 DEF CountDone, Types, TypeOK
<1>7. CASE WorkerDies(w)
  BY <1>7, <1>0, MishapType DEF WorkerDies, Types, TypeOK
<1> QED
  BY <1>1, <1>2, <1>3, <1>4, <1>5, <1>6, <1>7 DEF WorkerStep

\* The steps of a retry request.
LEMMA RetryTypes ==
    ASSUME Types, NEW k \in Retries, RetryOwned(k) \/ RetryStep(k) \/ RetryDies(k)
    PROVE  Types'
<1> USE DEF RetryOnly, Asking
<1>0. EndedRetry \in RetryAsks /\ retry[k] \in RetryAsks /\ k \in 0..MaxRetries
  BY OrigJobs DEF EndedRetry, IdleRetry, RetryAsks, Types
<1>1. CASE RetryOwned(k)
  <2>1. retry' = [retry EXCEPT ![k] = [@ EXCEPT !.at = "owned", !.built = built]]
    BY <1>1 DEF RetryOwned
  <2>2. retry' \in [Retries -> RetryAsks]
    BY <1>0, <2>1 DEF Types, TypeOK, RetryAsks
  <2> QED
    BY <1>1, <2>2 DEF RetryOwned, Types, TypeOK, Crossing
<1>2. CASE RetryPages(k)
  <2> DEFINE old == {Latest(p) : p \in PagesIn("failed")}
  <2>1. old \subseteq JobIds
    BY LatestIn
  <2>2. retry' = [retry EXCEPT ![k] = [@ EXCEPT !.at = "copy", !.old = old]]
    BY <1>2 DEF RetryPages
  <2> HIDE DEF old
  <2>3. retry' \in [Retries -> RetryAsks]
    BY <1>0, <2>1, <2>2 DEF Types, RetryAsks
  <2> QED
    BY <1>2, <2>3 DEF RetryPages, Types, TypeOK
<1>3. CASE RetryCopy(k)
  <2> DEFINE pages == {j[1] : j \in retry[k].old \cap uploads}
  <2>1. pages \in SUBSET Pages
    BY DEF Types, TypeOK, JobIds
  <2>2. retry' \in [Retries -> RetryAsks]
    <3>1. [retry[k] EXCEPT !.at = "commit", !.old = {}, !.pages = pages] \in RetryAsks
      BY <1>0, <2>1 DEF RetryAsks
    <3> QED
      BY <1>0, <1>3, <3>1 DEF RetryCopy, Types
  <2>3. {<<p, k>> : p \in pages} \subseteq JobIds
    BY <1>0, <2>1, JobOf
  <2> QED
    BY <1>3, <2>2, <2>3 DEF RetryCopy, Types, TypeOK
<1>4. CASE RetryCommit(k)
  <2>1. crossed' \subseteq {"archive", "retries"}
    BY <1>4 DEF RetryCommit, Types, TypeOK, Crossing
  <2>2. job' \in [JobIds -> JobStatuses] /\ retry' \in [Retries -> RetryAsks]
    BY <1>4 DEF RetryCommit, Types, TypeOK, RetryAsks, JobStatuses
  <2> QED
    BY <1>4, <2>1, <2>2 DEF RetryCommit, Types, TypeOK
<1>5. CASE RetryOfDeleted(k)
  BY <1>5, <1>0 DEF RetryOfDeleted, Types, TypeOK
<1>6. CASE RetryCounts(k)
  <2>1. Cardinality(PagesIn("done")) \in Nat /\ Cardinality(PagesIn("failed")) \in Nat
    BY PagesInCount
  <2>2. retry' = [retry EXCEPT ![k] = [@ EXCEPT !.at = "init",
                        !.done = Cardinality(PagesIn("done")),
                        !.failed = Cardinality(PagesIn("failed"))]]
    BY <1>6 DEF RetryCounts
  <2>3. retry' \in [Retries -> RetryAsks]
    BY <1>0, <2>1, <2>2 DEF Types, RetryAsks
  <2> QED
    BY <1>6, <2>3 DEF RetryCounts, Types, TypeOK
<1>7. CASE RetryInit(k)
  <2>1. counts' \in [total : Nat, done : Nat, failed : Nat]
    BY <1>0, <1>7, BatchAssumption, FS_CardinalityType DEF RetryInit, RetryAsks
  <2> QED
    BY <1>7, <2>1 DEF RetryInit, Types, TypeOK, RetryAsks
<1>8. CASE RetryEnqueue(k)
  <2>1. {<<p, k>> : p \in retry[k].pages} \subseteq JobIds
    BY <1>0, JobOf DEF RetryAsks
  <2> QED
    BY <1>0, <1>8, <2>1 DEF RetryEnqueue, Types, TypeOK
<1>9. CASE RetryDies(k)
  BY <1>0, <1>9, MishapType DEF RetryDies, Types, TypeOK
<1> QED
  BY <1>1, <1>2, <1>3, <1>4, <1>5, <1>6, <1>7, <1>8, <1>9 DEF RetryStep

\* The steps of a download.
LEMMA ResultsTypes ==
    ASSUME Types, NEW c \in Clients, ResultsOwned(c) \/ ResultsStep(c)
    PROVE  Types'
<1> USE DEF ResultsOnly
<1>0. IdleDl \in Downloads /\ dl[c] \in Downloads
  BY DEF IdleDl, Downloads, Types
<1>1. CASE ResultsOwned(c)
  BY <1>1 DEF ResultsOwned, Types, TypeOK, Downloads
<1>2. CASE StoredResults(c)
  <2> DEFINE stored == {j \in JobIds : result[j] = "stored"}
  <2>1. dl' = [dl EXCEPT ![c] = [@ EXCEPT !.at = "pages", !.stored = stored]]
    BY <1>2 DEF StoredResults
  <2>2. stored \subseteq JobIds
    OBVIOUS
  <2> HIDE DEF stored
  <2>3. dl' \in [Clients -> Downloads]
    BY <1>0, <2>1, <2>2 DEF Types, Downloads
  <2> QED
    BY <1>2, <2>3 DEF StoredResults, Types, TypeOK
<1>3. CASE ListPages(c)
  <2>1. dl' = [dl EXCEPT ![c] = [@ EXCEPT !.at = "build", !.pages = Current]]
    BY <1>3 DEF ListPages
  <2>2. dl' \in [Clients -> Downloads]
    BY <1>0, <2>1, CurrentJobs DEF Types, Downloads
  <2> QED
    BY <1>3, <2>2 DEF ListPages, Types, TypeOK
<1>4. CASE BuildArchive(c)
  <2>1. dl[c].pages \cap dl[c].stored \subseteq JobIds
    BY <1>0 DEF Downloads
  <2>2. archive' = NoArchive \/ archive' \subseteq JobIds
    BY <1>4, <2>1 DEF BuildArchive, Types, TypeOK
  <2>3. [IdleDl EXCEPT !.at = "commit"] \in Downloads
    BY DEF IdleDl, Downloads
  <2>4. dl' \in [Clients -> Downloads]
    BY <1>0, <1>4, <2>3 DEF BuildArchive, Types
  <2> QED
    BY <1>4, <2>2, <2>4 DEF BuildArchive, Types, TypeOK
<1>5. CASE ResultsCommit(c)
  BY <1>0, <1>5 DEF ResultsCommit, Types, TypeOK, Crossing
<1> QED
  BY <1>1, <1>2, <1>3, <1>4, <1>5 DEF ResultsStep

\* The steps of the reaper, the retention and the purge.
LEMMA CleanTypes ==
    ASSUME Types,
           \/ \E j \in JobIds : Reap(j)
           \/ ExpireSelect \/ RetentionStep
           \/ \E old \in SUBSET JobIds, arch \in BOOLEAN : Sweep(old, arch)
    PROVE  Types'
<1> USE DEF CleanOnly
<1>0. IdleCln \in Cleanings
  BY DEF IdleCln, Cleanings
<1>1. ASSUME NEW j \in JobIds, Reap(j) PROVE Types'
  BY <1>1 DEF Reap, Types, TypeOK, JobStatuses
<1>2. CASE ExpireSelect
  BY <1>2, MishapType DEF ExpireSelect, Types, TypeOK, Cleanings
<1>3. CASE ExpireObjects
  BY <1>3 DEF ExpireObjects, Types, TypeOK, Cleanings
<1>4. CASE ExpireCommit
  BY <1>0, <1>4 DEF ExpireCommit, Types, TypeOK, JobStatuses
<1>5. ASSUME NEW old \in SUBSET JobIds, NEW arch \in BOOLEAN, Sweep(old, arch)
      PROVE  Types'
  <2>1. CASE EvictSelect(old, arch)
    BY <2>1, MishapType DEF EvictSelect, Types, TypeOK, Cleanings
  <2>2. CASE PurgeResults(old, arch)
    BY <2>2, MishapType DEF PurgeResults, Types, TypeOK
  <2>3. CASE PurgeUploads(old)
    BY <2>3, MishapType DEF PurgeUploads, Types, TypeOK
  <2> QED
    BY <1>5, <2>1, <2>2, <2>3 DEF Sweep
<1>6. CASE EvictObjects
  BY <1>6 DEF EvictObjects, Types, TypeOK, Cleanings
<1>7. CASE EvictCommit
  BY <1>0, <1>7 DEF EvictCommit, Types, TypeOK
<1> QED
  BY <1>1, <1>2, <1>3, <1>4, <1>5, <1>6, <1>7 DEF RetentionStep

LEMMA StutterTypes == ASSUME Types, UNCHANGED vars PROVE Types'
BY DEF Types, TypeOK, vars

LEMMA NextTypes == ASSUME Types, [Next]_vars PROVE Types'
BY SubmitTypes, WorkerTypes, RetryTypes, ResultsTypes, CleanTypes, StutterTypes DEF Next, Step

-----------------------------------------------------------------------------
\* The submit request and the rest of the batch's life.

\* Storing an archive takes less than the queued deadline: the reaper fails no page
\* of a batch that is still being stored.
PromptSubmit == SlowSubmit = FALSE

\* Once anything but the submit request acts on the batch, it is no longer open.
LEMMA Late ==
    ASSUME Types, SubmitInv, ~Quiet \/ status \in {"queued", "finished"}
    PROVE  status \notin {"none", "open"} /\ sub.at \in {"init", "enqueue", "answered", "dead"}
BY DEF SubmitInv, Types, Submits, TypeOK

LEMMA LateStep ==
    ASSUME Types, SubmitInv, status \notin {"none", "open"},
           sub.at \in {"init", "enqueue", "answered", "dead"},
           sub'.at \in {"init", "enqueue", "answered", "dead"}, status' \notin {"none", "open"}
    PROVE  SubmitInv'
BY DEF SubmitInv

LEMMA SubmitInvSubmit ==
    ASSUME Types, SubmitInv,
           \/ SubmitStep \/ ApiDies
           \/ \E p \in Pages : UploadEnds(p, FALSE)
           \/ \E landed \in SUBSET Pages : Refuse(landed)
    PROVE  SubmitInv'
<1> USE DEF SubmitOnly
<1>1. CASE SubmitBatch
  BY <1>1, OrigJobs DEF SubmitBatch, SubmitInv, Quiet, Types, Submits
<1>2. ASSUME NEW p \in Pages, NEW ok \in BOOLEAN, UploadEnds(p, ok) PROVE SubmitInv'
  BY <1>2 DEF UploadEnds, SubmitInv, Quiet, Types, Submits
<1>3. ASSUME NEW landed \in SUBSET Pages, Refuse(landed) PROVE SubmitInv'
  BY <1>3 DEF Refuse, SubmitInv, Quiet, Types, Submits
<1>4. CASE AbandonObjects
  BY <1>4 DEF AbandonObjects, SubmitInv, Quiet, Types, Submits
<1>5. CASE AbandonRows
  BY <1>5 DEF AbandonRows, SubmitInv, Quiet, Types, Submits
<1>6. CASE SubmitCommit
  BY <1>6 DEF SubmitCommit, SubmitInv, Quiet, Types, Submits
<1>7. CASE InitBatch
  BY <1>7 DEF InitBatch, SubmitInv, Quiet, Types, Submits
<1>8. CASE EnqueuePages
  BY <1>8 DEF EnqueuePages, SubmitInv, Quiet, Types, Submits
<1>9. ASSUME NEW p \in Pages, StorePage(p) PROVE SubmitInv'
  <2>1. sub'.at = "storing" /\ status' = "open"
    BY <1>9 DEF StorePage, SubmitInv, Types, Submits
  <2>2. \A j \in JobIds : job'[j] = job[j] \/ (j[2] = 0 /\ job'[j] = "queued")
    BY <1>9 DEF StorePage, Types, TypeOK
  <2>3. \A j \in JobIds : j[2] = 0 => j \in Orig
    BY DEF JobIds, Orig
  <2>4. Quiet /\ sub.at = "storing"
    BY <1>9 DEF StorePage, SubmitInv
  <2>5. Quiet'
    BY <1>9, <2>2, <2>3, <2>4 DEF StorePage, Quiet
  <2> QED
    BY <2>1, <2>2, <2>4, <2>5, OrigJobs DEF SubmitInv
<1>10. CASE ApiDies
  BY <1>10 DEF ApiDies, SubmitInv, Quiet, Types, Submits
<1> QED
  BY <1>1, <1>2, <1>3, <1>4, <1>5, <1>6, <1>7, <1>8, <1>9, <1>10 DEF SubmitStep

LEMMA SubmitInvWorker ==
    ASSUME Types, SubmitInv, NEW w \in Workers, WorkerStep(w) \/ WorkerDies(w)
    PROVE  SubmitInv'
<1>1. ASSUME Quiet PROVE FALSE
  <2>1. txn[w].at = "idle" /\ live = {}
    BY <1>1 DEF Quiet, IdleTxn
  <2> QED
    BY <2>1 DEF WorkerStep, WorkerDies, Harvest, FailPage, LockBatch, FinishIfDone, CommitTxn,
       CountDone
<1>2. sub' = sub /\ (status' = status \/ status' = "finished")
  BY DEF WorkerStep, WorkerDies, Harvest, FailPage, LockBatch, FinishIfDone, CommitTxn,
     CountDone, WorkerOnly
<1> QED
  BY <1>1, <1>2, Late, LateStep

LEMMA SubmitInvRetry ==
    ASSUME Types, SubmitInv, NEW k \in Retries, RetryOwned(k) \/ RetryStep(k) \/ RetryDies(k)
    PROVE  SubmitInv'
<1>1. ~Quiet \/ status = "finished"
  BY DEF RetryOwned, RetryStep, RetryDies, RetryPages, RetryCopy, RetryCommit, RetryOfDeleted,
     RetryCounts, RetryInit, RetryEnqueue, Asking, Quiet
<1>2. sub' = sub /\ (status' = status \/ status' = "queued")
  BY DEF RetryOwned, RetryStep, RetryDies, RetryPages, RetryCopy, RetryCommit, RetryOfDeleted,
     RetryCounts, RetryInit, RetryEnqueue, RetryOnly
<1> QED
  BY <1>1, <1>2, Late, LateStep

LEMMA SubmitInvResults ==
    ASSUME Types, SubmitInv, NEW c \in Clients, ResultsOwned(c) \/ ResultsStep(c)
    PROVE  SubmitInv'
<1>1. ~Quiet \/ status = "finished"
  BY DEF ResultsOwned, ResultsStep, StoredResults, ListPages, BuildArchive, ResultsCommit, Quiet
<1>2. sub' = sub /\ status' = status
  BY DEF ResultsOwned, ResultsStep, StoredResults, ListPages, BuildArchive, ResultsCommit,
     ResultsOnly
<1> QED
  BY <1>1, <1>2, Late, LateStep

LEMMA SubmitInvClean ==
    ASSUME Types, SubmitInv, PromptSubmit,
           \/ \E j \in JobIds : Reap(j)
           \/ ExpireSelect \/ RetentionStep
           \/ \E old \in SUBSET JobIds, arch \in BOOLEAN : Sweep(old, arch)
    PROVE  SubmitInv'
<1> USE DEF CleanOnly
<1>1. ASSUME NEW j \in JobIds, Reap(j) PROVE SubmitInv'
  <2>1. CASE status \in {"none", "open"} \/ sub.at = "refused"
    <3>1. Quiet /\ sub.at = "dead" /\ status = "open"
      BY <1>1, <2>1, OrigJobs DEF Reap, SubmitInv, Quiet, PromptSubmit, Orig, JobIds
    <3>2. j \in Orig
      BY <1>1, <3>1 DEF Reap, Quiet
    <3>3. sub' = sub /\ status' = status /\ Quiet'
      BY <1>1, <3>1, <3>2 DEF Reap, Quiet, Types, TypeOK
    <3> QED
      BY <3>1, <3>3 DEF SubmitInv
  <2>2. CASE ~(status \in {"none", "open"} \/ sub.at = "refused")
    <3>1. sub.at \in {"init", "enqueue", "answered", "dead"}
      BY <2>2 DEF SubmitInv, Types, Submits
    <3> QED
      BY <1>1, <2>2, <3>1, LateStep DEF Reap
  <2> QED
    BY <2>1, <2>2
<1>2. CASE ExpireSelect
  BY <1>2, Late, LateStep DEF ExpireSelect
<1>3. CASE ExpireObjects
  <2>1. ~Quiet
    BY <1>3 DEF ExpireObjects, Quiet
  <2> QED
    BY <1>3, <2>1, Late, LateStep DEF ExpireObjects
<1>4. CASE ExpireCommit
  <2>1. ~Quiet
    BY <1>4 DEF ExpireCommit, Quiet
  <2> QED
    BY <1>4, <2>1, Late, LateStep DEF ExpireCommit
<1>5. CASE \/ EvictObjects \/ EvictCommit
           \/ \E old \in SUBSET JobIds, arch \in BOOLEAN : Sweep(old, arch)
  <2>1. /\ sub' = sub /\ status' = status /\ job' = job /\ live' = live /\ txn' = txn
        /\ retry' = retry /\ dl' = dl
    BY <1>5 DEF Sweep, PurgeUploads, PurgeResults, EvictSelect, EvictObjects, EvictCommit
  <2>2. cln'.at \notin {"expire", "delete"}
    <3>1. cln \in Cleanings
      BY DEF Types
    <3>2. CASE EvictObjects \/ EvictCommit
      BY <3>1, <3>2 DEF EvictObjects, EvictCommit, IdleCln, Cleanings
    <3>3. ASSUME NEW old \in SUBSET JobIds, NEW arch \in BOOLEAN, Sweep(old, arch)
          PROVE  cln'.at \in {"idle", "evict"}
      BY <3>1, <3>3 DEF Sweep, EvictSelect, PurgeResults, PurgeUploads, Cleanings
    <3> QED
      BY <1>5, <3>2, <3>3
  <2>3. ASSUME NEW j \in JobIds, result[j] = "none" PROVE result'[j] = "none"
    BY <1>5, <2>3 DEF Sweep, PurgeUploads, PurgeResults, EvictSelect, EvictObjects, EvictCommit
  <2>4. Quiet => Quiet'
    BY <2>1, <2>2, <2>3 DEF Quiet
  <2> QED
    BY <2>1, <2>4 DEF SubmitInv
<1> QED
  BY <1>1, <1>2, <1>3, <1>4, <1>5 DEF RetentionStep

LEMMA SubmitInvStep ==
    ASSUME Types, SubmitInv, PromptSubmit, [Next]_vars PROVE SubmitInv'
<1>1. ASSUME UNCHANGED vars PROVE SubmitInv'
  BY <1>1 DEF vars, SubmitInv, Quiet
<1> QED
  BY <1>1, SubmitInvSubmit, SubmitInvWorker, SubmitInvRetry, SubmitInvResults, SubmitInvClean
     DEF Next, Step

-----------------------------------------------------------------------------
\* The row lock, and what finish_if_done found under it.

\* A step that waits for the lock, or leaves the active rows and the status alone,
\* leaves finish_if_done's finding true.
LEMMA LockFrame ==
    ASSUME Types, LockInv, lock' = lock, txn' = txn,
           \/ RowLockFree
           \/ /\ status' = status
              /\ \A j \in JobIds : job'[j] = "queued" <=> job[j] = "queued"
    PROVE  LockInv'
BY BatchAssumption DEF LockInv, RowLockFree

LEMMA QuietLock == ASSUME Types, LockInv, Quiet PROVE RowLockFree
<1>1. \A w \in Workers : txn[w].at = "idle"
  BY DEF Quiet, IdleTxn
<1>2. lock \in Workers \cup {NoOne}
  BY DEF Types, TypeOK
<1> QED
  BY <1>1, <1>2 DEF LockInv, RowLockFree

\* What one worker does to its own transaction.
Found(w) == status = "queued" /\ \A j \in JobIds : job[j] = "queued" => j = txn[w].job

LEMMA LockAfter ==
    ASSUME LockInv, NEW w \in Workers,
           \A v \in Workers \ {w} : txn'[v] = txn[v] /\ (lock' = v <=> lock = v),
           txn'[w].at \in {"locked", "commit"} <=> lock' = w,
           txn'[w].at # "idle" => txn'[w].job \in JobIds,
           txn'[w].at = "commit" => txn'[w].fin = Found(w)',
           \/ status' = status /\ job' = job
           \/ \A v \in Workers \ {w} : txn[v].at # "commit"
    PROVE  LockInv'
<1> SUFFICES ASSUME NEW v \in Workers
             PROVE  /\ txn'[v].at \in {"locked", "commit"} <=> lock' = v
                    /\ txn'[v].at # "idle" => txn'[v].job \in JobIds
                    /\ txn'[v].at = "commit" => txn'[v].fin = Found(v)'
  BY DEF LockInv, Found
<1>1. CASE v = w
  BY <1>1
<1>2. CASE v # w
  BY <1>2 DEF LockInv, Found
<1> QED
  BY <1>1, <1>2

LEMMA LockInvWorker ==
    ASSUME Types, LockInv, SubmitInv, ActiveInv, NEW w \in Workers, WorkerStep(w) \/ WorkerDies(w)
    PROVE  LockInv'
<1> USE BatchAssumption DEF WorkerOnly
<1>0. txn[w] \in Txns /\ txn \in [Workers -> Txns] /\ lock \in Workers \cup {NoOne}
  BY DEF Types, TypeOK
<1>1. ASSUME NEW j \in JobIds, Harvest(w, j) \/ FailPage(w, j) PROVE LockInv'
  <2>1. \A v \in Workers : v # w => txn'[v] = txn[v]
    BY <1>0, <1>1 DEF Harvest, FailPage
  <2>2. txn[w].at = "idle" /\ txn'[w].at = "update" /\ txn'[w].job = j
    BY <1>0, <1>1 DEF Harvest, FailPage, IdleTxn
  <2>3. lock' = lock /\ status' = status /\ job' = job
    BY <1>1 DEF Harvest, FailPage
  <2> QED
    BY <2>1, <2>2, <2>3, LockAfter DEF LockInv, Found
<1>2. CASE LockBatch(w)
  <2>1. \A v \in Workers : v # w => txn'[v] = txn[v]
    BY <1>0, <1>2 DEF LockBatch
  <2>2. txn[w].at = "update" /\ txn'[w].at = "locked" /\ txn'[w].job = txn[w].job
    BY <1>0, <1>2 DEF LockBatch, Txns
  <2>3. lock = NoOne /\ lock' = w /\ status' = status /\ job' = job
    BY <1>2 DEF LockBatch, RowLockFree
  <2> QED
    BY <2>1, <2>2, <2>3, LockAfter DEF LockInv, Found
<1>3. CASE FinishIfDone(w)
  <2>1. \A v \in Workers : v # w => txn'[v] = txn[v]
    BY <1>0, <1>3 DEF FinishIfDone
  <2>2. /\ txn[w].at = "locked" /\ txn'[w].at = "commit" /\ txn'[w].job = txn[w].job
        /\ txn'[w].fin = (status = "queued"
                          /\ \A j \in JobIds : job[j] = "queued" => j = txn[w].job)
    BY <1>0, <1>3 DEF FinishIfDone, Txns
  <2>3. lock' = lock /\ status' = status /\ job' = job
    BY <1>3 DEF FinishIfDone
  <2>4. txn'[w].fin = Found(w)'
    BY <2>2, <2>3 DEF Found
  <2>5. lock = w /\ txn'[w].job \in JobIds
    BY <2>2 DEF LockInv
  <2>6. \A v \in Workers \ {w} : txn'[v] = txn[v] /\ (lock' = v <=> lock = v)
    BY <2>1, <2>3
  <2> QED
    BY <2>2, <2>3, <2>4, <2>5, <2>6, LockAfter
<1>4. CASE CommitTxn(w)
  <2>1. \A v \in Workers : v # w => txn'[v] = txn[v] /\ txn[v].at \notin {"locked", "commit"}
    BY <1>0, <1>4 DEF CommitTxn, LockInv
  <2>2. txn'[w].at \in {"idle", "count"} /\ (txn'[w].at # "idle" => txn'[w].job = txn[w].job)
    BY <1>0, <1>4 DEF CommitTxn, IdleTxn, Txns
  <2>3. lock = w /\ lock' = NoOne /\ txn[w].at = "commit"
    BY <1>4 DEF CommitTxn, LockInv
  <2> QED
    BY <2>1, <2>2, <2>3, LockAfter DEF LockInv, Found
<1>5. CASE CountDone(w)
  <2>1. \A v \in Workers : v # w => txn'[v] = txn[v]
    BY <1>0, <1>5 DEF CountDone
  <2>2. txn[w].at = "count" /\ txn'[w].at = "idle"
    BY <1>0, <1>5 DEF CountDone, IdleTxn
  <2>3. lock' = lock /\ status' = status /\ job' = job
    BY <1>5 DEF CountDone
  <2> QED
    BY <2>1, <2>2, <2>3, LockAfter DEF LockInv, Found
<1>6. CASE WorkerDies(w)
  <2>1. \A v \in Workers : v # w => txn'[v] = txn[v]
    BY <1>0, <1>6 DEF WorkerDies
  <2>2. txn'[w].at = "idle"
    BY <1>0, <1>6 DEF WorkerDies, IdleTxn
  <2>3. lock' = (IF lock = w THEN NoOne ELSE lock) /\ status' = status /\ job' = job
    BY <1>6 DEF WorkerDies
  <2> QED
    BY <2>1, <2>2, <2>3, LockAfter DEF LockInv, Found
<1> QED
  BY <1>1, <1>2, <1>3, <1>4, <1>5, <1>6 DEF WorkerStep

LEMMA LockInvStep ==
    ASSUME Types, LockInv, SubmitInv, ActiveInv, [Next]_vars PROVE LockInv'
<1>1. CASE \/ SubmitStep \/ ApiDies
           \/ \E p \in Pages : UploadEnds(p, FALSE)
           \/ \E landed \in SUBSET Pages : Refuse(landed)
  <2>1. lock' = lock /\ txn' = txn
    BY <1>1 DEF SubmitStep, ApiDies, UploadEnds, Refuse, SubmitBatch, AbandonObjects, AbandonRows,
       SubmitCommit, InitBatch, EnqueuePages, StorePage, SubmitOnly
  <2>2. RowLockFree \/ (status' = status /\ job' = job)
    <3>1. CASE SubmitBatch \/ \E p \in Pages : StorePage(p)
      BY <3>1, QuietLock DEF SubmitBatch, StorePage, SubmitInv
    <3> QED
      BY <1>1, <3>1 DEF SubmitStep, ApiDies, UploadEnds, Refuse, AbandonObjects, AbandonRows,
         SubmitCommit, InitBatch, EnqueuePages
  <2> QED
    BY <2>1, <2>2, LockFrame
<1>2. CASE \E k \in Retries : RetryOwned(k) \/ RetryStep(k) \/ RetryDies(k)
  <2>1. lock' = lock /\ txn' = txn /\ (RowLockFree \/ (status' = status /\ job' = job))
    BY <1>2 DEF RetryOwned, RetryStep, RetryDies, RetryPages, RetryCopy, RetryCommit,
       RetryOfDeleted, RetryCounts, RetryInit, RetryEnqueue, RetryOnly
  <2> QED
    BY <2>1, LockFrame
<1>3. CASE \E c \in Clients : ResultsOwned(c) \/ ResultsStep(c)
  <2>1. lock' = lock /\ txn' = txn /\ status' = status /\ job' = job
    BY <1>3 DEF ResultsOwned, ResultsStep, StoredResults, ListPages, BuildArchive, ResultsCommit,
       ResultsOnly
  <2> QED
    BY <2>1, LockFrame
<1>4. CASE \/ \E j \in JobIds : Reap(j)
           \/ ExpireSelect \/ RetentionStep
           \/ \E old \in SUBSET JobIds, arch \in BOOLEAN : Sweep(old, arch)
  <2>1. lock' = lock /\ txn' = txn /\ (RowLockFree \/ (status' = status /\ job' = job))
    BY <1>4 DEF Reap, ExpireSelect, RetentionStep, Sweep, PurgeUploads, PurgeResults,
       EvictSelect, ExpireObjects, ExpireCommit, EvictObjects, EvictCommit, CleanOnly
  <2> QED
    BY <2>1, LockFrame
<1>5. CASE UNCHANGED vars
  BY <1>5, LockFrame DEF vars
<1> QED
  BY <1>1, <1>2, <1>3, <1>4, <1>5, LockInvWorker DEF Next, Step

-----------------------------------------------------------------------------
\* A queued batch has pages to settle.

LEMMA ActiveInvStep ==
    ASSUME Types, SubmitInv, LockInv, ActiveInv, RetryInv, [Next]_vars PROVE ActiveInv'
<1>1. CASE /\ status' = status \/ status' # "queued"
           /\ \A j \in JobIds : job[j] = "queued" => job'[j] = "queued"
  BY <1>1 DEF ActiveInv
<1>2. CASE \/ SubmitStep \/ ApiDies
           \/ \E p \in Pages : UploadEnds(p, FALSE)
           \/ \E landed \in SUBSET Pages : Refuse(landed)
  <2>1. CASE SubmitCommit
    <3>1. \A j \in Orig : job'[j] = "queued"
      BY <2>1, OrigJobs DEF SubmitCommit, SubmitInv
    <3> QED
      BY <3>1, OrigJobs DEF ActiveInv
  <2>2. ASSUME NEW p \in Pages, StorePage(p) PROVE ActiveInv'
    BY <2>2 DEF StorePage, SubmitInv, ActiveInv
  <2>3. CASE AbandonRows \/ SubmitBatch
    BY <2>3 DEF AbandonRows, SubmitBatch, ActiveInv
  <2>4. CASE ~(SubmitCommit \/ AbandonRows \/ SubmitBatch \/ \E p \in Pages : StorePage(p))
    <3>1. status' = status /\ job' = job
      BY <1>2, <2>4 DEF SubmitStep, ApiDies, UploadEnds, Refuse, AbandonObjects, InitBatch,
         EnqueuePages
    <3> QED
      BY <3>1, <1>1
  <2> QED
    BY <2>1, <2>2, <2>3, <2>4
<1>3. ASSUME NEW w \in Workers, WorkerStep(w) \/ WorkerDies(w) PROVE ActiveInv'
  <2>1. CASE CommitTxn(w)
    <3>1. CASE txn[w].fin /\ job[txn[w].job] # "none"
      BY <2>1, <3>1 DEF CommitTxn, ActiveInv
    <3>2. CASE ~txn[w].fin /\ status = "queued"
      <4>1. PICK i \in JobIds : job[i] = "queued" /\ i # txn[w].job
        BY <2>1, <3>2 DEF CommitTxn, LockInv
      <4>2. job'[i] = "queued"
        BY <2>1, <4>1 DEF CommitTxn, Types, TypeOK
      <4> QED
        BY <4>2 DEF ActiveInv
    <3>3. CASE (~txn[w].fin /\ status # "queued") \/ job[txn[w].job] = "none"
      BY <2>1, <3>3 DEF CommitTxn, ActiveInv
    <3> QED
      BY <3>1, <3>2, <3>3
  <2> QED
    BY <1>1, <1>3, <2>1 DEF WorkerStep, WorkerDies, Harvest, FailPage, LockBatch, FinishIfDone,
       CountDone
<1>4. ASSUME NEW k \in Retries, RetryOwned(k) \/ RetryStep(k) \/ RetryDies(k) PROVE ActiveInv'
  <2>1. CASE RetryCommit(k)
    <3>1. PICK p \in retry[k].pages : TRUE
      BY <2>1 DEF RetryCommit, Asking, RetryInv
    <3>2. p \in Pages /\ <<p, k>> \in JobIds
      BY <3>1, OrigJobs, JobOf DEF Types, RetryAsks
    <3>3. job'[<<p, k>>] = "queued"
      BY <2>1, <3>1, <3>2 DEF RetryCommit
    <3> QED
      BY <3>2, <3>3 DEF ActiveInv
  <2> QED
    BY <1>1, <1>4, <2>1 DEF RetryOwned, RetryStep, RetryDies, RetryPages, RetryCopy,
       RetryOfDeleted, RetryCounts, RetryInit, RetryEnqueue
<1>5. CASE \E c \in Clients : ResultsOwned(c) \/ ResultsStep(c)
  BY <1>1, <1>5 DEF ResultsOwned, ResultsStep, StoredResults, ListPages, BuildArchive,
     ResultsCommit
<1>6. ASSUME NEW j \in JobIds, Reap(j) PROVE ActiveInv'
  <2>1. CASE \A i \in JobIds : job[i] = "queued" => i = j
    BY <1>6, <2>1 DEF Reap, ActiveInv
  <2>2. CASE ~(\A i \in JobIds : job[i] = "queued" => i = j)
    BY <1>6, <2>2 DEF Reap, ActiveInv, Types, TypeOK
  <2> QED
    BY <2>1, <2>2
<1>7. CASE \/ ExpireSelect \/ RetentionStep
           \/ \E old \in SUBSET JobIds, arch \in BOOLEAN : Sweep(old, arch)
  <2>1. CASE ExpireCommit
    BY <2>1 DEF ExpireCommit, ActiveInv
  <2>2. CASE ~ExpireCommit
    <3>1. status' = status /\ job' = job
      BY <1>7, <2>2 DEF ExpireSelect, RetentionStep, Sweep, PurgeUploads, PurgeResults,
         EvictSelect, ExpireObjects, EvictObjects, EvictCommit
    <3> QED
      BY <3>1, <1>1
  <2> QED
    BY <2>1, <2>2
<1>8. CASE UNCHANGED vars
  BY <1>1, <1>8 DEF vars
<1> QED
  BY <1>2, <1>3, <1>4, <1>5, <1>6, <1>7, <1>8 DEF Next, Step

LEMMA RetryInvStep == ASSUME Types, RetryInv, [Next]_vars PROVE RetryInv'
<1>1. CASE retry' = retry
  BY <1>1 DEF RetryInv
<1>2. ASSUME NEW k \in Retries, RetryOwned(k) \/ RetryStep(k) \/ RetryDies(k) PROVE RetryInv'
  <2>1. \A m \in Retries : m # k => retry'[m] = retry[m]
    BY <1>2 DEF RetryOwned, RetryStep, RetryDies, RetryPages, RetryCopy, RetryCommit,
       RetryOfDeleted, RetryCounts, RetryInit, RetryEnqueue, Types
  <2>2. retry'[k].at = "commit" => retry'[k].pages # {}
    BY <1>2 DEF RetryOwned, RetryStep, RetryDies, RetryPages, RetryCopy, RetryCommit,
       RetryOfDeleted, RetryCounts, RetryInit, RetryEnqueue, Types, RetryAsks, EndedRetry,
       IdleRetry
  <2> QED
    BY <2>1, <2>2 DEF RetryInv
<1>3. CASE UNCHANGED vars
  BY <1>1, <1>3 DEF vars
<1>4. CASE \E w \in Workers : WorkerStep(w) \/ WorkerDies(w)
  BY <1>1, <1>4 DEF WorkerStep, WorkerDies, Harvest, FailPage, LockBatch, FinishIfDone, CommitTxn,
     CountDone, WorkerOnly
<1>5. CASE \/ SubmitStep \/ ApiDies
           \/ \E p \in Pages : UploadEnds(p, FALSE)
           \/ \E landed \in SUBSET Pages : Refuse(landed)
  BY <1>1, <1>5 DEF SubmitStep, ApiDies, UploadEnds, Refuse, SubmitBatch, AbandonObjects,
     AbandonRows, SubmitCommit, InitBatch, EnqueuePages, StorePage, SubmitOnly
<1>6. CASE \E c \in Clients : ResultsOwned(c) \/ ResultsStep(c)
  BY <1>1, <1>6 DEF ResultsOwned, ResultsStep, StoredResults, ListPages, BuildArchive,
     ResultsCommit, ResultsOnly
<1>7. CASE \/ \E j \in JobIds : Reap(j)
           \/ ExpireSelect \/ RetentionStep
           \/ \E old \in SUBSET JobIds, arch \in BOOLEAN : Sweep(old, arch)
  BY <1>1, <1>7 DEF Reap, ExpireSelect, RetentionStep, Sweep, PurgeUploads, PurgeResults,
     EvictSelect, ExpireObjects, ExpireCommit, EvictObjects, EvictCommit, CleanOnly
<1> QED
  BY <1>2, <1>3, <1>4, <1>5, <1>6, <1>7 DEF Next, Step

LEMMA InitPromise == Init => PromiseInv
<1> SUFFICES ASSUME Init PROVE PromiseInv
  OBVIOUS
<1>1. SubmitInv
  BY OrigJobs DEF Init, SubmitInv, Quiet, IdleTxn, IdleRetry, IdleDl, IdleCln
<1>2. LockInv
  BY BatchAssumption DEF Init, LockInv, IdleTxn
<1>3. ActiveInv /\ RetryInv
  BY DEF Init, ActiveInv, RetryInv, IdleRetry
<1> QED
  BY <1>1, <1>2, <1>3, InitTypes DEF PromiseInv

LEMMA PromiseInvStep == ASSUME PromptSubmit, PromiseInv, [Next]_vars PROVE PromiseInv'
BY NextTypes, SubmitInvStep, LockInvStep, ActiveInvStep, RetryInvStep DEF PromiseInv

-----------------------------------------------------------------------------
\* The batch keeps its promise.  Each step is a step of the promise or changes
\* neither the status nor the pages to settle.

Todo == {j \in JobIds : job[j] = "queued"}

LEMMA StutterPromise ==
    ASSUME status' = status, Todo' = Todo
    PROVE  [Promise!Next]_(Promise!pvars)
BY DEF Promise!pvars, Todo

LEMMA SubmitPromise ==
    ASSUME PromiseInv,
           \/ SubmitStep \/ ApiDies
           \/ \E p \in Pages : UploadEnds(p, FALSE)
           \/ \E landed \in SUBSET Pages : Refuse(landed)
    PROVE  [Promise!Next]_(Promise!pvars)
<1> USE DEF PromiseInv
<1>1. CASE SubmitBatch
  <2>1. Promise!Open
    BY <1>1 DEF SubmitBatch, SubmitInv, Promise!Open
  <2> QED
    BY <2>1 DEF Promise!Next
<1>2. ASSUME NEW p \in Pages, StorePage(p) PROVE [Promise!Next]_(Promise!pvars)
  <2>1. status = "open" /\ status' = status
    BY <1>2 DEF StorePage, SubmitInv
  <2>2. Todo \subseteq Todo'
    BY <1>2 DEF StorePage, Types, TypeOK, Todo
  <2> PICK more \in SUBSET JobIds : more = Todo'
    BY DEF Todo
  <2>3. Promise!Store(more)
    BY <2>1, <2>2 DEF Promise!Store, Todo
  <2> QED
    BY <2>3 DEF Promise!Next
<1>3. CASE AbandonRows
  <2>1. status = "open" /\ status' = "deleted" /\ Todo' = {}
    BY <1>3 DEF AbandonRows, SubmitInv, Todo
  <2>2. Promise!Delete
    BY <2>1 DEF Promise!Delete, Todo
  <2> QED
    BY <2>2 DEF Promise!Next
<1>4. CASE SubmitCommit
  <2>1. status = "open" /\ status' = "queued" /\ \A j \in Orig : job[j] \in {"none", "queued"}
    BY <1>4 DEF SubmitCommit, SubmitInv
  <2>2. Todo' = Todo \cup Orig
    BY <1>4, <2>1, OrigJobs DEF SubmitCommit, Types, TypeOK, Todo
  <2>3. Promise!Accept(Orig) /\ Orig \in SUBSET JobIds
    BY <2>1, <2>2, OrigJobs DEF Promise!Accept, Todo
  <2> QED
    BY <2>3 DEF Promise!Next
<1>5. CASE ~(SubmitBatch \/ AbandonRows \/ SubmitCommit \/ \E p \in Pages : StorePage(p))
  <2>1. status' = status /\ job' = job
    BY <1>5 DEF SubmitStep, ApiDies, UploadEnds, Refuse, AbandonObjects, InitBatch, EnqueuePages
  <2> QED
    BY <2>1, StutterPromise DEF Todo
<1> QED
  BY <1>1, <1>2, <1>3, <1>4, <1>5

LEMMA WorkerPromise ==
    ASSUME PromiseInv, NEW w \in Workers, WorkerStep(w) \/ WorkerDies(w)
    PROVE  [Promise!Next]_(Promise!pvars)
<1> USE DEF PromiseInv
<1>1. CASE CommitTxn(w)
  <2>0. txn[w].job \in JobIds
    BY <1>1 DEF CommitTxn, LockInv
  <2> PICK i \in JobIds : i = txn[w].job
    BY <2>0
  <2>1. txn[w].fin = (status = "queued" /\ \A j \in JobIds : job[j] = "queued" => j = i)
    BY <1>1 DEF CommitTxn, LockInv
  <2>2. CASE job[i] = "queued"
    <3>1. job'[i] # "queued" /\ \A j \in JobIds : j # i => job'[j] = job[j]
      BY <1>1, <2>1, <2>2 DEF CommitTxn, Types, TypeOK
    <3>2. Todo' = Todo \ {i} /\ i \in Todo
      BY <2>1, <2>2, <3>1 DEF Todo
    <3>3. status' = IF txn[w].fin THEN "finished" ELSE status
      BY <1>1, <2>2 DEF CommitTxn
    <3>4. txn[w].fin = (status = "queued" /\ Todo' = {})
      BY <2>1, <3>2 DEF Todo
    <3>5. Promise!Settle(i)
      BY <3>2, <3>3, <3>4 DEF Promise!Settle, Todo
    <3> QED
      BY <2>1, <3>5 DEF Promise!Next
  <2>3. CASE job[i] # "queued"
    <3>1. ~txn[w].fin
      BY <2>1, <2>3 DEF ActiveInv
    <3>2. status' = status
      BY <1>1, <3>1 DEF CommitTxn
    <3>3. \A j \in JobIds : job'[j] = "queued" <=> job[j] = "queued"
      BY <1>1, <2>1, <2>3 DEF CommitTxn, Types, TypeOK
    <3> QED
      BY <3>2, <3>3, StutterPromise DEF Todo
  <2> QED
    BY <2>2, <2>3
<1>2. CASE ~CommitTxn(w)
  <2>1. status' = status /\ job' = job
    BY <1>2 DEF WorkerStep, WorkerDies, Harvest, FailPage, LockBatch, FinishIfDone, CountDone
  <2> QED
    BY <2>1, StutterPromise DEF Todo
<1> QED
  BY <1>1, <1>2

LEMMA RetryPromise ==
    ASSUME PromiseInv, NEW k \in Retries, RetryOwned(k) \/ RetryStep(k) \/ RetryDies(k)
    PROVE  [Promise!Next]_(Promise!pvars)
<1> USE DEF PromiseInv
<1>1. CASE RetryCommit(k)
  <2>1. ~Quiet /\ status # "deleted" /\ status' = "queued"
    BY <1>1 DEF RetryCommit, Asking, Quiet
  <2>2. status \in {"queued", "finished"}
    BY <2>1, Late DEF Types, TypeOK
  <2>3. retry[k].pages \subseteq Pages /\ retry[k].pages # {} /\ k \in 0..MaxRetries
    BY <1>1, OrigJobs DEF RetryCommit, Asking, RetryInv, Types, RetryAsks
  <2> PICK more \in SUBSET JobIds : more = {<<p, k>> : p \in retry[k].pages}
    BY <2>3, JobOf
  <2>4. \A j \in JobIds : j[2] = k /\ j[1] \in retry[k].pages <=> j \in more
    BY DEF JobIds
  <2>5. Todo' = Todo \cup more
    BY <1>1, <2>4 DEF RetryCommit, Types, TypeOK, Todo
  <2>6. Promise!Reopen(more)
    BY <2>1, <2>2, <2>3, <2>5 DEF Promise!Reopen, Todo
  <2> QED
    BY <2>3, <2>6 DEF Promise!Next
<1>2. CASE ~RetryCommit(k)
  <2>1. status' = status /\ job' = job
    BY <1>2 DEF RetryOwned, RetryStep, RetryDies, RetryPages, RetryCopy, RetryOfDeleted,
       RetryCounts, RetryInit, RetryEnqueue
  <2> QED
    BY <2>1, StutterPromise DEF Todo
<1> QED
  BY <1>1, <1>2

LEMMA CleanPromise ==
    ASSUME PromiseInv,
           \/ \E j \in JobIds : Reap(j)
           \/ ExpireSelect \/ RetentionStep
           \/ \E old \in SUBSET JobIds, arch \in BOOLEAN : Sweep(old, arch)
    PROVE  [Promise!Next]_(Promise!pvars)
<1> USE DEF PromiseInv
<1>1. ASSUME NEW j \in JobIds, Reap(j) PROVE [Promise!Next]_(Promise!pvars)
  <2>1. Todo' = Todo \ {j} /\ j \in Todo
    BY <1>1 DEF Reap, Types, TypeOK, Todo
  <2>2. status' = IF status = "queued" /\ Todo' = {} THEN "finished" ELSE status
    BY <1>1, <2>1 DEF Reap, Todo
  <2>3. Promise!Settle(j)
    BY <2>1, <2>2 DEF Promise!Settle, Todo
  <2> QED
    BY <2>3 DEF Promise!Next
<1>2. CASE ExpireCommit
  <2>1. ~Quiet /\ status' = "deleted" /\ Todo' = {}
    BY <1>2 DEF ExpireCommit, Quiet, Todo
  <2>2. status # "none"
    BY <2>1, Late
  <2>3. Promise!Delete
    BY <2>1, <2>2 DEF Promise!Delete, Todo
  <2> QED
    BY <2>3 DEF Promise!Next
<1>3. CASE /\ ~ExpireCommit
           /\ \/ ExpireSelect \/ RetentionStep
              \/ \E old \in SUBSET JobIds, arch \in BOOLEAN : Sweep(old, arch)
  <2>1. status' = status /\ job' = job
    BY <1>3 DEF ExpireSelect, RetentionStep, Sweep, PurgeUploads, PurgeResults, EvictSelect,
       ExpireObjects, EvictObjects, EvictCommit
  <2> QED
    BY <2>1, StutterPromise DEF Todo
<1> QED
  BY <1>1, <1>2, <1>3

LEMMA PromiseStep ==
    ASSUME PromiseInv, [Next]_vars PROVE [Promise!Next]_(Promise!pvars)
<1>1. CASE \E c \in Clients : ResultsOwned(c) \/ ResultsStep(c)
  <2>1. status' = status /\ job' = job
    BY <1>1 DEF ResultsOwned, ResultsStep, StoredResults, ListPages, BuildArchive, ResultsCommit
  <2> QED
    BY <2>1, StutterPromise DEF Todo
<1>2. CASE UNCHANGED vars
  BY <1>2, StutterPromise DEF vars, Todo
<1> QED
  BY <1>1, <1>2, SubmitPromise, WorkerPromise, RetryPromise, CleanPromise DEF Next, Step

\* What the promise rests on holds in every state (submit_batch, finish_if_done,
\* retry_batch, reap_stale_jobs): the row lock, the rows a batch starts with, and that
\* a queued batch has a page to settle.
THEOREM PromiseInvariant == ASSUME PromptSubmit PROVE Spec => []PromiseInv
<1>1. PromiseInv /\ [Next]_vars => PromiseInv'
  BY PromiseInvStep
<1> QED
  BY <1>1, InitPromise, PTL DEF Spec

\* A batch is finished by the step that settles its last page and by no other, and
\* reopened only with pages to settle (batch_store.finish_if_done, reaper, retry_batch).
THEOREM PromiseKept == ASSUME PromptSubmit PROVE Spec => KeepsPromise
<1>1. Init => Promise!Init
  BY DEF Init, Promise!Init
<1>2. PromiseInv /\ [Next]_vars => [Promise!Next]_(Promise!pvars)
  BY PromiseStep
<1> QED
  BY <1>1, <1>2, PromiseInvariant, PTL DEF Spec, KeepsPromise, Promise!Spec

-----------------------------------------------------------------------------
\* A refused archive.

LEMMA UploadInvSubmit ==
    ASSUME Types, UploadInv,
           \/ SubmitStep \/ ApiDies
           \/ \E p \in Pages : UploadEnds(p, FALSE)
           \/ \E landed \in SUBSET Pages : Refuse(landed)
    PROVE  UploadInv'
<1> USE DEF SubmitOnly
<1>1. CASE SubmitBatch
  BY <1>1 DEF SubmitBatch, UploadInv, Types, Submits
<1>2. ASSUME NEW p \in Pages, NEW ok \in BOOLEAN, UploadEnds(p, ok) PROVE UploadInv'
  <2>1. sub.at = "storing" /\ p \in sub.stored
    BY <1>2 DEF UploadEnds, UploadInv
  <2>2. sub' = [sub EXCEPT !.running = @ \ {p}, !.broken = @ \/ ~ok]
    BY <1>2 DEF UploadEnds
  <2>3. sub'.at = "storing" /\ sub'.stored = sub.stored /\ sub'.running = sub.running \ {p}
    BY <2>1, <2>2 DEF Types, Submits
  <2>4. uploads' \subseteq {<<q, 0>> : q \in sub.stored}
    BY <1>2, <2>1 DEF UploadEnds, UploadInv
  <2> QED
    BY <2>1, <2>3, <2>4 DEF UploadInv
<1>3. ASSUME NEW landed \in SUBSET Pages, Refuse(landed) PROVE UploadInv'
  <2>1. sub'.at = "abandon" /\ sub'.stored = sub.stored /\ sub'.running = {}
    BY <1>3 DEF Refuse, Types, Submits
  <2>2. uploads' \subseteq {<<q, 0>> : q \in sub.stored}
    BY <1>3 DEF Refuse, UploadInv
  <2> QED
    BY <2>1, <2>2 DEF UploadInv
<1>4. CASE AbandonObjects
  BY <1>4 DEF AbandonObjects, UploadInv, Types, Submits
<1>5. CASE AbandonRows
  BY <1>5 DEF AbandonRows, UploadInv, Types, Submits
<1>6. CASE SubmitCommit
  BY <1>6 DEF SubmitCommit, UploadInv, Types, Submits
<1>7. CASE InitBatch
  BY <1>7 DEF InitBatch, UploadInv, Types, Submits
<1>8. CASE EnqueuePages
  BY <1>8 DEF EnqueuePages, UploadInv, Types, Submits
<1>9. ASSUME NEW p \in Pages, StorePage(p) PROVE UploadInv'
  <2>1. /\ sub.at = "storing" /\ sub'.at = "storing" /\ sub'.stored = sub.stored \cup {p}
        /\ sub'.running = sub.running \cup {p} /\ uploads' = uploads
    BY <1>9 DEF StorePage, Types, Submits
  <2> QED
    BY <2>1 DEF UploadInv
<1>10. CASE ApiDies
  BY <1>10 DEF ApiDies, UploadInv, Types, Submits
<1> QED
  BY <1>1, <1>2, <1>3, <1>4, <1>5, <1>6, <1>7, <1>8, <1>9, <1>10 DEF SubmitStep

LEMMA UploadInvStep ==
    ASSUME Types, SubmitInv, UploadInv, [Next]_vars PROVE UploadInv'
<1>1. CASE sub' = sub /\ uploads' \subseteq uploads
  BY <1>1 DEF UploadInv
<1>2. ASSUME NEW k \in Retries, RetryOwned(k) \/ RetryStep(k) \/ RetryDies(k) PROVE UploadInv'
  <2>1. ~Quiet \/ status = "finished"
    BY <1>2 DEF RetryOwned, RetryStep, RetryDies, RetryPages, RetryCopy, RetryCommit,
       RetryOfDeleted, RetryCounts, RetryInit, RetryEnqueue, Asking, Quiet
  <2>2. sub' = sub
    BY <1>2 DEF RetryOwned, RetryStep, RetryDies, RetryPages, RetryCopy, RetryCommit,
       RetryOfDeleted, RetryCounts, RetryInit, RetryEnqueue, RetryOnly
  <2> QED
    BY <2>1, <2>2, Late DEF UploadInv
<1>3. CASE UNCHANGED vars
  BY <1>1, <1>3 DEF vars
<1>4. CASE \E w \in Workers : WorkerStep(w) \/ WorkerDies(w)
  <2>1. sub' = sub /\ uploads' \subseteq uploads
    BY <1>4 DEF WorkerStep, WorkerDies, Harvest, FailPage, LockBatch, FinishIfDone, CommitTxn,
       CountDone, WorkerOnly
  <2> QED
    BY <2>1, <1>1
<1>5. CASE \E c \in Clients : ResultsOwned(c) \/ ResultsStep(c)
  <2>1. sub' = sub /\ uploads' \subseteq uploads
    BY <1>5 DEF ResultsOwned, ResultsStep, StoredResults, ListPages, BuildArchive, ResultsCommit,
       ResultsOnly
  <2> QED
    BY <2>1, <1>1
<1>6. CASE \/ \E j \in JobIds : Reap(j)
           \/ ExpireSelect \/ RetentionStep
           \/ \E old \in SUBSET JobIds, arch \in BOOLEAN : Sweep(old, arch)
  <2>1. sub' = sub /\ uploads' \subseteq uploads
    BY <1>6 DEF Reap, ExpireSelect, RetentionStep, Sweep, PurgeUploads, PurgeResults,
       EvictSelect, ExpireObjects, ExpireCommit, EvictObjects, EvictCommit, CleanOnly
  <2> QED
    BY <2>1, <1>1
<1> QED
  BY <1>2, <1>3, <1>4, <1>5, <1>6, UploadInvSubmit DEF Next, Step

\* A refused archive leaves no row and no uploaded page, whatever had been stored or
\* was still being uploaded when it was refused (Uploads.cancel, _abandon).
THEOREM NothingLeft == ASSUME PromptSubmit PROVE Spec => []RefusedLeavesNothing
<1>1. Init => UploadInv
  BY DEF Init, UploadInv
<1>2. PromiseInv /\ UploadInv /\ [Next]_vars => UploadInv'
  BY UploadInvStep DEF PromiseInv
<1>3. PromiseInv /\ UploadInv => RefusedLeavesNothing
  BY DEF PromiseInv, SubmitInv, UploadInv, RefusedLeavesNothing
<1> QED
  BY <1>1, <1>2, <1>3, PromiseInvariant, PTL DEF Spec
=============================================================================
