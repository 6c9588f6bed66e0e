------------------------------- MODULE Batch --------------------------------
(***************************************************************************)
(* One batch: an archive of pages submitted together (app/routers/         *)
(* batches.py), finished by the workers that settle its pages              *)
(* (app/services/batch_store.py), downloaded as one results archive        *)
(* (app/services/batch_archive.py), retried, evicted and deleted           *)
(* (app/services/retention.py).                                            *)
(*                                                                         *)
(* What happens to a page between its queue and its last transaction is    *)
(* the subject of JobPipeline; here a worker stores a page's results or    *)
(* fails it, in the transaction that also calls finish_if_done.            *)
(* Postgres is READ COMMITTED: a statement sees the committed rows.  An    *)
(* update of the batch row waits for the row lock.                         *)
(***************************************************************************)
EXTENDS Integers, FiniteSets

CONSTANTS
    Pages,        \* source names of the archive's images
    Workers,      \* processes that settle pages (poller tasks, submit workers)
    Clients,      \* concurrent GET .../results requests
    MaxRetries,   \* how many POST .../retry requests are made
    CommitEvery,  \* job rows committed at a time while the archive is read
    LongResults,  \* the TTL of the results bucket outlives rows, jobs and requests
    SlowSubmit,   \* storing an archive may take longer than the queued deadline
    TightCap,     \* the storage cap reaches results of jobs that are not settled yet
    MaxMishaps,   \* how many processes die and how often retention takes something
    NoArchive,    \* no object at the path of the results archive
    NoOne         \* nobody holds the lock of the batch row

ASSUME BatchAssumption ==
    /\ Pages # {} /\ IsFiniteSet(Pages)
    /\ MaxRetries \in Nat /\ CommitEvery \in Nat \ {0} /\ MaxMishaps \in Nat
    /\ {LongResults, SlowSubmit, TightCap} \subseteq BOOLEAN
    /\ NoOne \notin Workers

\* A page has one job per submit: the original (0) and one per retry request.
\* Job.submitted_at is the start of the inserting transaction, so a later
\* request's job is the newer one.
Retries == 1..MaxRetries
JobIds == Pages \X (0..MaxRetries)
Orig == {<<p, 0>> : p \in Pages}

VARIABLES
    status,    \* batches.status; "none" before the insert, "deleted" after the delete
    built,     \* archive_built_at is set
    job,       \* jobs.status per job: "none", "queued" (active), "done" or "failed"
    result,    \* job_results per job: "none", "stored", or "evicted" (evicted_at set)
    lock,      \* the worker that holds the batch row FOR UPDATE
    uploads,   \* incoming bucket: the jobs whose image is there
    objects,   \* results bucket: the jobs whose outputs are there
    archive,   \* results bucket: the jobs in the batch archive, or NoArchive
    live,      \* Redis: the jobs whose hash is not terminal
    counts,    \* Redis batch:<id>: total, done, failed
    sub,       \* the submit request
    txn,       \* per worker: the page it settles and how far it is
    retry,     \* per retry request: where it is and what it has read
    dl,        \* per results request: where it is and what it has read
    cln,       \* the cleanup worker's retention step
    mishaps,   \* processes that have died, and retention sweeps that took something
    crossed    \* history: "archive" once a retry has committed while an archive was
               \* built, or the other way round; "retries" once two retries overlapped

dbVars == <<status, built, job, result>>
storeVars == <<uploads, objects, archive>>
redisVars == <<live, counts>>
vars == <<dbVars, lock, storeVars, redisVars, sub, txn, retry, dl, cln, mishaps, crossed>>

IdleTxn == [at |-> "idle", job |-> <<>>, ok |-> FALSE, fin |-> FALSE]
IdleRetry == [at |-> "idle", built |-> FALSE, old |-> {}, pages |-> {}, done |-> 0, failed |-> 0]
EndedRetry == [IdleRetry EXCEPT !.at = "end"]
IdleDl == [at |-> "idle", stored |-> {}, pages |-> {}]
IdleCln == [at |-> "idle", evict |-> {}, arch |-> FALSE]

Init ==
    /\ status = "none" /\ built = FALSE
    /\ job = [j \in JobIds |-> "none"]
    /\ result = [j \in JobIds |-> "none"]
    /\ lock = NoOne
    /\ uploads = {} /\ objects = {} /\ archive = NoArchive
    /\ live = {} /\ counts = [total |-> 0, done |-> 0, failed |-> 0]
    /\ sub = [at |-> "idle", stored |-> {}, running |-> {}, broken |-> FALSE]
    /\ txn = [w \in Workers |-> IdleTxn]
    /\ retry = [k \in Retries |-> IdleRetry]
    /\ dl = [c \in Clients |-> IdleDl]
    /\ cln = IdleCln
    /\ mishaps = [deaths |-> 0, sweeps |-> 0]
    /\ crossed = {}

\* _latest_pages: the newest job of each page.
Latest(p) == LET ks == {k \in 0..MaxRetries : job[<<p, k>>] # "none"}
             IN  <<p, CHOOSE k \in ks : \A m \in ks : m <= k>>
PagesIn(s) == {p \in Pages : job[<<p, 0>>] # "none" /\ job[Latest(p)] = s}
Current == {Latest(p) : p \in {q \in Pages : job[<<q, 0>>] # "none"}}
NotExistsActive == \A j \in JobIds : job[j] # "queued"
RowLockFree == lock = NoOne
Mishap(kind) ==
    /\ mishaps.deaths + mishaps.sweeps < MaxMishaps
    /\ mishaps' = [mishaps EXCEPT ![kind] = @ + 1]
Crossing(what, happens) == crossed' = IF happens THEN crossed \cup {what} ELSE crossed

-----------------------------------------------------------------------------
\* POST /batches

SubmitOnly == UNCHANGED <<txn, retry, dl, cln, crossed>>

\* The batch row is committed open before the archive is read.
SubmitBatch ==
    /\ sub.at = "idle"
    /\ status' = "open" /\ sub' = [sub EXCEPT !.at = "storing"]
    /\ SubmitOnly /\ UNCHANGED <<built, job, result, lock, storeVars, redisVars, mishaps>>

\* _store_page: the upload starts (Uploads.start raises an earlier failure first)
\* and the row is added; every CommitEvery-th page commits the rows so far.
StorePage(p) ==
    /\ sub.at = "storing" /\ ~sub.broken /\ p \notin sub.stored
    /\ LET stored == sub.stored \cup {p}
       IN  /\ sub' = [sub EXCEPT !.stored = stored, !.running = @ \cup {p}]
           /\ job' = IF Cardinality(stored) % CommitEvery = 0
                     THEN [j \in JobIds |-> IF j[1] \in stored /\ j[2] = 0 /\ job[j] = "none"
                                            THEN "queued" ELSE job[j]]
                     ELSE job
    /\ SubmitOnly /\ UNCHANGED <<status, built, result, lock, storeVars, redisVars, mishaps>>

\* An upload task ends: the object is there, or the failure waits to be raised.
UploadEnds(p, ok) ==
    /\ p \in sub.running
    /\ uploads' = IF ok THEN uploads \cup {<<p, 0>>} ELSE uploads
    /\ sub' = [sub EXCEPT !.running = @ \ {p}, !.broken = @ \/ ~ok]
    /\ SubmitOnly /\ UNCHANGED <<dbVars, lock, objects, archive, redisVars, mishaps>>

\* Mutant: the objects are deleted while uploads are still running.
RefuseWithoutCancel(landed) ==
    /\ sub.at = "storing" /\ landed = {}
    /\ sub' = [sub EXCEPT !.at = "abandon"]
    /\ uploads' = uploads
    /\ SubmitOnly /\ UNCHANGED <<dbVars, lock, objects, archive, redisVars, mishaps>>

\* A failed upload, an oversized member, too many pages, no page, an unreadable
\* archive: the running uploads are cancelled (some have landed), and the rows not
\* yet committed are rolled back.
Refuse(landed) ==
    /\ sub.at = "storing" /\ landed \subseteq sub.running
    /\ uploads' = uploads \cup {<<p, 0>> : p \in landed}
    /\ sub' = [sub EXCEPT !.at = "abandon", !.running = {}]
    /\ SubmitOnly /\ UNCHANGED <<dbVars, lock, objects, archive, redisVars, mishaps>>

\* _abandon: the objects, then the batch row; its jobs cascade.
AbandonObjects ==
    /\ sub.at = "abandon"
    /\ uploads' = uploads \ {<<p, 0>> : p \in sub.stored}
    /\ sub' = [sub EXCEPT !.at = "undo"]
    /\ SubmitOnly /\ UNCHANGED <<dbVars, lock, objects, archive, redisVars, mishaps>>

AbandonRows ==
    /\ sub.at = "undo" /\ RowLockFree
    /\ status' = "deleted" /\ job' = [j \in JobIds |-> "none"]
    /\ sub' = [sub EXCEPT !.at = "refused", !.stored = {}, !.broken = FALSE]
    /\ SubmitOnly /\ UNCHANGED <<built, result, lock, storeVars, redisVars, mishaps>>

\* Every upload has landed: the remaining rows, total and status queued in one
\* commit.  A row the reaper failed meanwhile stays failed.
SubmitCommit ==
    /\ sub.at = "storing" /\ sub.stored = Pages /\ sub.running = {} /\ ~sub.broken
    /\ RowLockFree
    /\ status' = "queued"
    /\ job' = [j \in JobIds |-> IF j \in Orig /\ job[j] = "none" THEN "queued" ELSE job[j]]
    /\ sub' = [sub EXCEPT !.at = "init"]
    /\ SubmitOnly /\ UNCHANGED <<built, result, lock, storeVars, redisVars, mishaps>>

\* _enqueue_pages: init_batch, then enqueue_jobs.
InitBatch ==
    /\ sub.at = "init"
    /\ counts' = [total |-> Cardinality(Pages), done |-> 0, failed |-> 0]
    /\ sub' = [sub EXCEPT !.at = "enqueue"]
    /\ SubmitOnly /\ UNCHANGED <<dbVars, lock, storeVars, live, mishaps>>

EnqueuePages ==
    /\ sub.at = "enqueue"
    /\ live' = live \cup Orig
    /\ sub' = [sub EXCEPT !.at = "answered", !.stored = {}]
    /\ SubmitOnly /\ UNCHANGED <<dbVars, lock, storeVars, counts, mishaps>>

\* The API process dies in the request: nothing is undone but the open transaction.
ApiDies ==
    /\ sub.at \notin {"idle", "refused", "answered", "dead"} /\ Mishap("deaths")
    /\ sub' = [sub EXCEPT !.at = "dead", !.running = {}, !.stored = {}, !.broken = FALSE]
    /\ SubmitOnly /\ UNCHANGED <<dbVars, lock, storeVars, redisVars>>

-----------------------------------------------------------------------------
\* The workers: a page's last transaction (_record_done, mark_failed, _fail_job)

WorkerOnly == UNCHANGED <<sub, retry, dl, cln, crossed>>
Unattended(j) == \A w \in Workers : txn[w].job # j

\* The submit worker hands a page to an engine and sets its row running, whatever
\* the row says; only a row that the reaper failed early is changed by it.
Dispatch(j) ==
    /\ j \in live /\ job[j] = "failed" /\ Unattended(j)
    /\ job' = [job EXCEPT ![j] = "queued"]
    /\ WorkerOnly /\ UNCHANGED <<status, built, result, lock, storeVars, redisVars, txn, mishaps>>

\* The outputs are stored; then the transaction updates the job row.
Harvest(w, j) ==
    /\ txn[w].at = "idle" /\ j \in live /\ Unattended(j)
    /\ objects' = objects \cup {j}
    /\ txn' = [txn EXCEPT ![w] = [IdleTxn EXCEPT !.at = "update", !.job = j, !.ok = TRUE]]
    /\ WorkerOnly /\ UNCHANGED <<dbVars, lock, uploads, archive, redisVars, mishaps>>

\* set_failed counts the page and ends its hash before the transaction.
FailPage(w, j) ==
    /\ txn[w].at = "idle" /\ j \in live /\ Unattended(j)
    /\ live' = live \ {j} /\ counts' = [counts EXCEPT !.failed = @ + 1]
    /\ txn' = [txn EXCEPT ![w] = [IdleTxn EXCEPT !.at = "update", !.job = j]]
    /\ WorkerOnly /\ UNCHANGED <<dbVars, lock, storeVars, mishaps>>

\* finish_if_done, _LOCK: SELECT ... FOR UPDATE waits for the other transaction.
LockBatch(w) ==
    /\ txn[w].at = "update" /\ RowLockFree
    /\ txn' = [txn EXCEPT ![w].at = "locked"]
    /\ lock' = w
    /\ WorkerOnly /\ UNCHANGED <<dbVars, storeVars, redisVars, mishaps>>

\* Mutant: only the job itself is looked at.
FinishIfDoneOwn(w) ==
    /\ txn[w].at = "locked"
    /\ txn' = [txn EXCEPT ![w].at = "commit", ![w].fin = status = "queued"]
    /\ WorkerOnly /\ UNCHANGED <<dbVars, lock, storeVars, redisVars, mishaps>>

\* finish_if_done, _FINISH: the committed rows and the transaction's own update.
FinishIfDone(w) ==
    /\ txn[w].at = "locked"
    /\ txn' = [txn EXCEPT ![w].at = "commit",
                  ![w].fin = status = "queued"
                             /\ \A j \in JobIds : job[j] = "queued" => j = txn[w].job]
    /\ WorkerOnly /\ UNCHANGED <<dbVars, lock, storeVars, redisVars, mishaps>>

\* The commit.  A done row stays done; a row that is gone takes no result (the
\* foreign key), so the harvest is rolled back and its hash is left to its TTL.
CommitTxn(w) ==
    LET j == txn[w].job
        gone == job[j] = "none"
    IN  /\ txn[w].at = "commit"
        /\ job' = IF gone \/ job[j] = "done" THEN job
                  ELSE [job EXCEPT ![j] = IF txn[w].ok THEN "done" ELSE "failed"]
        /\ result' = IF txn[w].ok /\ ~gone THEN [result EXCEPT ![j] = "stored"] ELSE result
        /\ status' = IF txn[w].fin /\ ~gone THEN "finished" ELSE status
        /\ lock' = IF lock = w THEN NoOne ELSE lock
        /\ txn' = [txn EXCEPT ![w] = IF txn[w].ok /\ ~gone THEN [@ EXCEPT !.at = "count"]
                                     ELSE IdleTxn]
        /\ live' = IF gone THEN live \ {j} ELSE live
        /\ WorkerOnly /\ UNCHANGED <<built, storeVars, counts, mishaps>>

\* set_done: the hash ends and the page is counted, unless it has ended already.
CountDone(w) ==
    LET j == txn[w].job
    IN  /\ txn[w].at = "count"
        /\ counts' = IF j \in live THEN [counts EXCEPT !.done = @ + 1] ELSE counts
        /\ live' = live \ {j}
        /\ txn' = [txn EXCEPT ![w] = IdleTxn]
        /\ WorkerOnly /\ UNCHANGED <<dbVars, lock, storeVars, mishaps>>

\* A worker dies: its transaction is rolled back and the row lock goes.
WorkerDies(w) ==
    /\ txn[w].at # "idle" /\ Mishap("deaths")
    /\ txn' = [txn EXCEPT ![w] = IdleTxn]
    /\ lock' = IF lock = w THEN NoOne ELSE lock
    /\ WorkerOnly /\ UNCHANGED <<dbVars, storeVars, redisVars>>

-----------------------------------------------------------------------------
\* POST /batches/{id}/retry

RetryOnly == UNCHANGED <<sub, txn, dl, cln, crossed>>
Asking(k) == retry[k].at
UnderWay(k) == Asking(k) \notin {"idle", "end"}
\* It has loaded the batch without an archive and will leave archive_built_at alone.
BlindToArchive(k) == Asking(k) \in {"owned", "copy", "commit"} /\ ~retry[k].built

\* _owned_batch: only a finished batch.  Requests are numbered as they start.
RetryOwned(k) ==
    /\ Asking(k) = "idle" /\ status = "finished"
    /\ \A m \in Retries : m < k => Asking(m) # "idle"
    /\ retry' = [retry EXCEPT ![k].at = "owned", ![k].built = built]
    /\ Crossing("retries", \E m \in Retries : UnderWay(m))
    /\ UNCHANGED <<sub, txn, dl, cln, dbVars, lock, storeVars, redisVars, mishaps>>

RetryPages(k) ==
    /\ Asking(k) = "owned"
    /\ retry' = [retry EXCEPT ![k].at = "copy", ![k].old = {Latest(p) : p \in PagesIn("failed")}]
    /\ RetryOnly /\ UNCHANGED <<dbVars, lock, storeVars, redisVars, mishaps>>

\* copy_object of every failed page's upload; the pages whose upload has expired
\* are left out, and with none left the request ends.
RetryCopy(k) ==
    LET pages == {j[1] : j \in retry[k].old \cap uploads}
    IN  /\ Asking(k) = "copy"
        /\ uploads' = uploads \cup {<<p, k>> : p \in pages}
        /\ retry' = [retry EXCEPT ![k] = IF pages = {} THEN EndedRetry
                                         ELSE [@ EXCEPT !.at = "commit", !.old = {}, !.pages = pages]]
        /\ RetryOnly /\ UNCHANGED <<dbVars, lock, objects, archive, redisVars, mishaps>>

\* Mutant: the batch keeps its archive.
RetryCommitKeepsArchive(k) ==
    /\ Asking(k) = "commit" /\ RowLockFree /\ status # "deleted"
    /\ status' = "queued" /\ built' = built
    /\ job' = [j \in JobIds |-> IF j[2] = k /\ j[1] \in retry[k].pages THEN "queued" ELSE job[j]]
    /\ retry' = [retry EXCEPT ![k].at = "count"]
    /\ Crossing("archive", \E c \in Clients : dl[c].at # "idle")
    /\ UNCHANGED <<sub, txn, dl, cln, result, lock, storeVars, redisVars, mishaps>>

\* The new rows and the reopened batch, in one commit.  The session writes only
\* the columns whose value differs from the one it loaded, so archive_built_at is
\* cleared only if it was set when the batch was loaded.
RetryCommit(k) ==
    /\ Asking(k) = "commit" /\ RowLockFree /\ status # "deleted"
    /\ status' = "queued"
    /\ built' = (built /\ ~retry[k].built)
    /\ job' = [j \in JobIds |-> IF j[2] = k /\ j[1] \in retry[k].pages THEN "queued" ELSE job[j]]
    /\ retry' = [retry EXCEPT ![k].at = "count"]
    /\ Crossing("archive", \E c \in Clients : dl[c].at # "idle")
    /\ UNCHANGED <<sub, txn, dl, cln, result, lock, storeVars, redisVars, mishaps>>

\* The batch row is gone: the update matches nothing and the request fails.
RetryOfDeleted(k) ==
    /\ Asking(k) = "commit" /\ status = "deleted"
    /\ retry' = [retry EXCEPT ![k] = EndedRetry]
    /\ RetryOnly /\ UNCHANGED <<dbVars, lock, storeVars, redisVars, mishaps>>

\* Mutant: the failed pages that cannot be retried are forgotten.
RetryCountsDone(k) ==
    /\ Asking(k) = "count"
    /\ retry' = [retry EXCEPT ![k].at = "init", ![k].done = Cardinality(PagesIn("done"))]
    /\ RetryOnly /\ UNCHANGED <<dbVars, lock, storeVars, redisVars, mishaps>>

\* The counters restart from page_counts.
RetryCounts(k) ==
    /\ Asking(k) = "count"
    /\ retry' = [retry EXCEPT ![k].at = "init", ![k].done = Cardinality(PagesIn("done")),
                              ![k].failed = Cardinality(PagesIn("failed"))]
    /\ RetryOnly /\ UNCHANGED <<dbVars, lock, storeVars, redisVars, mishaps>>

RetryInit(k) ==
    /\ Asking(k) = "init"
    /\ counts' = [total |-> Cardinality(Pages), done |-> retry[k].done, failed |-> retry[k].failed]
    /\ retry' = [retry EXCEPT ![k].at = "enqueue"]
    /\ RetryOnly /\ UNCHANGED <<dbVars, lock, storeVars, live, mishaps>>

RetryEnqueue(k) ==
    /\ Asking(k) = "enqueue"
    /\ live' = live \cup {<<p, k>> : p \in retry[k].pages}
    /\ retry' = [retry EXCEPT ![k] = EndedRetry]
    /\ RetryOnly /\ UNCHANGED <<dbVars, lock, storeVars, counts, mishaps>>

RetryDies(k) ==
    /\ Asking(k) \notin {"idle", "end"} /\ Mishap("deaths")
    /\ retry' = [retry EXCEPT ![k] = EndedRetry]
    /\ RetryOnly /\ UNCHANGED <<dbVars, lock, storeVars, redisVars>>

-----------------------------------------------------------------------------
\* GET /batches/{id}/results (not partial).  With the archive built, the answer is
\* its URL and nothing changes.  Otherwise:

ResultsOnly == UNCHANGED <<sub, txn, retry, cln, crossed>>

ResultsOwned(c) ==
    /\ dl[c].at = "idle" /\ status = "finished" /\ ~built
    /\ dl' = [dl EXCEPT ![c].at = "stored"]
    /\ ResultsOnly /\ UNCHANGED <<dbVars, lock, storeVars, redisVars, mishaps>>

StoredResults(c) ==
    /\ dl[c].at = "stored"
    /\ dl' = [dl EXCEPT ![c].at = "pages", ![c].stored = {j \in JobIds : result[j] = "stored"}]
    /\ ResultsOnly /\ UNCHANGED <<dbVars, lock, storeVars, redisVars, mishaps>>

ListPages(c) ==
    /\ dl[c].at = "pages"
    /\ dl' = [dl EXCEPT ![c].at = "build", ![c].pages = Current]
    /\ ResultsOnly /\ UNCHANGED <<dbVars, lock, storeVars, redisVars, mishaps>>

\* build_results_archive: a missing object fails the request.
BuildArchive(c) ==
    LET content == dl[c].pages \cap dl[c].stored
    IN  /\ dl[c].at = "build"
        /\ IF content \subseteq objects
           THEN archive' = content /\ dl' = [dl EXCEPT ![c] = [IdleDl EXCEPT !.at = "commit"]]
           ELSE archive' = archive /\ dl' = [dl EXCEPT ![c] = IdleDl]
        /\ ResultsOnly /\ UNCHANGED <<dbVars, lock, uploads, objects, redisVars, mishaps>>

\* archive_built_at is set on the row as it is now (nothing if it is gone).
ResultsCommit(c) ==
    /\ dl[c].at = "commit" /\ RowLockFree
    /\ built' = (built \/ status # "deleted")
    /\ dl' = [dl EXCEPT ![c] = IdleDl]
    /\ Crossing("archive", \E k \in Retries : BlindToArchive(k))
    /\ UNCHANGED <<sub, txn, retry, cln, status, job, result, lock, storeVars, redisVars, mishaps>>

-----------------------------------------------------------------------------
\* The cleanup worker

CleanOnly == UNCHANGED <<sub, txn, retry, dl, crossed>>

\* reap_stale_jobs: an active row past the queued or running deadline whose hash
\* has ended or was never written.  Rows of a batch that is still being stored are
\* not exempt (SlowSubmit); a retry request is shorter than the deadline.  One
\* transaction, with finish_if_done under the row lock.
Reap(j) ==
    /\ job[j] = "queued" /\ j \notin live /\ Unattended(j) /\ RowLockFree
    /\ j[2] > 0 => retry[j[2]].at = "end"
    /\ j[2] = 0 => sub.at \in {"dead", "answered"} \/ (SlowSubmit /\ sub.at = "storing")
    /\ job' = [job EXCEPT ![j] = "failed"]
    /\ status' = IF status = "queued" /\ \A i \in JobIds : job[i] = "queued" => i = j
                 THEN "finished" ELSE status
    /\ CleanOnly /\ UNCHANGED <<built, result, lock, storeVars, redisVars, cln, mishaps>>

\* delete_expired_batches: the finished batches past their TTL are listed ...
ExpireSelect ==
    /\ cln.at = "idle" /\ Mishap("sweeps") /\ status = "finished"
    /\ cln' = [cln EXCEPT !.at = "expire"]
    /\ CleanOnly /\ UNCHANGED <<dbVars, lock, storeVars, redisVars>>

\* ... then for each one the objects of its live results and its archive go ...
ExpireObjects ==
    /\ cln.at = "expire"
    /\ objects' = {j \in objects : result[j] # "stored"}
    /\ archive' = NoArchive
    /\ cln' = [cln EXCEPT !.at = "delete"]
    /\ CleanOnly /\ UNCHANGED <<dbVars, lock, uploads, redisVars, mishaps>>

\* ... and its rows, with no second look at its status.
ExpireCommit ==
    /\ cln.at = "delete" /\ RowLockFree
    /\ status' = "deleted" /\ built' = FALSE
    /\ job' = [j \in JobIds |-> "none"] /\ result' = [j \in JobIds |-> "none"]
    /\ cln' = IdleCln
    /\ CleanOnly /\ UNCHANGED <<lock, storeVars, redisVars, mishaps>>

\* evict_results: results past their age or over the cap, and the archive (which
\* goes first over the cap, but may be younger than an aged result).
EvictSelect(evict, arch) ==
    /\ cln.at = "idle" /\ Mishap("sweeps") /\ (evict # {} \/ arch)
    /\ \A j \in evict : result[j] = "stored" /\ (j \in live => TightCap)
    /\ arch => built
    /\ cln' = [cln EXCEPT !.at = "evict", !.evict = evict, !.arch = arch]
    /\ CleanOnly /\ UNCHANGED <<dbVars, lock, storeVars, redisVars>>

EvictObjects ==
    /\ cln.at = "evict"
    /\ objects' = objects \ cln.evict
    /\ archive' = IF cln.arch THEN NoArchive ELSE archive
    /\ cln' = [cln EXCEPT !.at = "mark"]
    /\ CleanOnly /\ UNCHANGED <<dbVars, lock, uploads, redisVars, mishaps>>

EvictCommit ==
    /\ cln.at = "mark" /\ RowLockFree
    /\ result' = [j \in JobIds |-> IF j \in cln.evict /\ result[j] # "none"
                                   THEN "evicted" ELSE result[j]]
    /\ built' = (built /\ ~cln.arch)
    /\ cln' = IdleCln
    /\ CleanOnly /\ UNCHANGED <<status, job, lock, storeVars, redisVars, mishaps>>

\* Mutant: the wrong status.
FinishStalledOpen ==
    /\ cln.at = "idle" /\ RowLockFree /\ status = "open" /\ NotExistsActive
    /\ status' = "finished"
    /\ CleanOnly /\ UNCHANGED <<built, job, result, lock, storeVars, redisVars, cln, mishaps>>

\* finish_stalled: one statement over the queued batches.
FinishStalled ==
    /\ cln.at = "idle" /\ RowLockFree /\ status = "queued" /\ NotExistsActive
    /\ status' = "finished"
    /\ CleanOnly /\ UNCHANGED <<built, job, result, lock, storeVars, redisVars, cln, mishaps>>

\* _purge_expired of either bucket takes objects by their age alone.  The uploads'
\* TTL outlives every active job and every submit request ...
PurgeUploads(old) ==
    /\ cln.at = "idle" /\ Mishap("sweeps") /\ sub.at \in {"dead", "answered"}
    /\ old # {} /\ old \subseteq {j \in uploads : job[j] # "queued" /\ j \notin live}
    /\ uploads' = uploads \ old
    /\ CleanOnly /\ UNCHANGED <<dbVars, lock, objects, archive, redisVars, cln>>

\* ... and the results', 60 minutes by default, a harvest and a request (what is
\* being stored is not old), but a row and its archive only if it is set to.
PurgeResults(old, arch) ==
    /\ cln.at = "idle" /\ Mishap("sweeps")
    /\ old \subseteq objects /\ arch => archive # NoArchive
    /\ old # {} \/ arch
    /\ \A j \in old : Unattended(j) /\ (LongResults => result[j] # "stored")
    /\ arch => \A c \in Clients : dl[c].at # "commit"
    /\ LongResults => ~(arch /\ built)
    /\ objects' = objects \ old
    /\ archive' = IF arch THEN NoArchive ELSE archive
    /\ CleanOnly /\ UNCHANGED <<dbVars, lock, uploads, redisVars, cln>>

-----------------------------------------------------------------------------
SubmitStep ==
    \/ SubmitBatch \/ AbandonObjects \/ AbandonRows \/ SubmitCommit \/ InitBatch \/ EnqueuePages
    \/ \E p \in Pages : StorePage(p) \/ UploadEnds(p, TRUE)
WorkerStep(w) ==
    \/ \E j \in JobIds : Harvest(w, j) \/ FailPage(w, j)
    \/ LockBatch(w) \/ FinishIfDone(w) \/ CommitTxn(w) \/ CountDone(w)
RetryStep(k) ==
    \/ RetryPages(k) \/ RetryCopy(k) \/ RetryCommit(k) \/ RetryOfDeleted(k)
    \/ RetryCounts(k) \/ RetryInit(k) \/ RetryEnqueue(k)
ResultsStep(c) ==
    StoredResults(c) \/ ListPages(c) \/ BuildArchive(c) \/ ResultsCommit(c)
RetentionStep ==
    ExpireObjects \/ ExpireCommit \/ EvictObjects \/ EvictCommit

Sweep(old, arch) == EvictSelect(old, arch) \/ PurgeResults(old, arch) \/ PurgeUploads(old)

Step ==
    \/ SubmitStep
    \/ \E p \in Pages : UploadEnds(p, FALSE)
    \/ \E landed \in SUBSET Pages : Refuse(landed)
    \/ ApiDies
    \/ \E w \in Workers : WorkerStep(w) \/ WorkerDies(w)
    \/ \E k \in Retries : RetryOwned(k) \/ RetryStep(k) \/ RetryDies(k)
    \/ \E c \in Clients : ResultsOwned(c) \/ ResultsStep(c)
    \/ \E j \in JobIds : Reap(j)
    \/ ExpireSelect \/ RetentionStep

Next == Step \/ \E old \in SUBSET JobIds, arch \in BOOLEAN : Sweep(old, arch)

\* With a submit slower than the queued deadline the reaper fails pages of a batch
\* that is still open: only then can a dispatch revive a failed row, or a queued
\* batch be left without active pages for finish_stalled.
SlowNext == Next \/ FinishStalled \/ \E j \in JobIds : Dispatch(j)

Spec == Init /\ [][Next]_vars

\* Requests and retention steps that have started go on, the workers settle the
\* pages they find, and every cleanup tick looks at the stale rows and batches.
Fairness ==
    /\ WF_vars(SubmitStep)
    /\ \A w \in Workers : WF_vars(WorkerStep(w))
    /\ \A k \in Retries : WF_vars(RetryStep(k))
    /\ WF_vars(RetentionStep)
    /\ \A j \in JobIds : WF_vars(Reap(j))
    /\ WF_vars(FinishStalled)
FairSpec == Init /\ [][SlowNext]_vars /\ Fairness

-----------------------------------------------------------------------------
JobStatuses == {"none", "queued", "done", "failed"}

\* The values of the batch's rows, counters and requests.
TypeOK ==
    /\ status \in {"none", "open", "queued", "finished", "deleted"}
    /\ built \in BOOLEAN
    /\ job \in [JobIds -> JobStatuses]
    /\ result \in [JobIds -> {"none", "stored", "evicted"}]
    /\ lock \in Workers \cup {NoOne}
    /\ uploads \subseteq JobIds /\ objects \subseteq JobIds /\ live \subseteq JobIds
    /\ archive = NoArchive \/ archive \subseteq JobIds
    /\ counts \in [total : Nat, done : Nat, failed : Nat]
    /\ mishaps \in [{"deaths", "sweeps"} -> 0..MaxMishaps]
    /\ crossed \subseteq {"archive", "retries"}

\* The batch keeps the promise of BatchPromise, with its active rows as the pages to
\* settle: between its answers to the user, nothing but the step that settles the
\* last page finishes it, and that step always does.
Promise == INSTANCE BatchPromise
             WITH Items <- JobIds, todo <- {j \in JobIds : job[j] = "queued"}
KeepsPromise == Promise!Spec

\* A refused archive leaves nothing behind: no row, no uploaded page (_abandon).
RefusedLeavesNothing ==
    sub.at = "refused" => /\ status = "deleted" /\ uploads = {}
                          /\ \A j \in JobIds : job[j] = "none"

\* The archive served for a finished batch has the results of each page's newest
\* job and of no other (get_batch_results, retry_batch).  Results evicted since
\* then may still be in it.
ArchiveIsNewest ==
    (status = "finished" /\ built /\ archive # NoArchive)
        => /\ archive \subseteq Current
           /\ \A p \in PagesIn("done") : result[Latest(p)] = "stored" => Latest(p) \in archive

\* So it is as long as no retry has crossed the building of an archive: neither
\* request looks at the other.  Two retries may overlap.
ArchiveCurrent == "archive" \notin crossed => ArchiveIsNewest

\* A result row that is not evicted has its object (evict_results, _record_done),
\* except while a retention step is between the two, if the results bucket keeps
\* its objects for as long as the rows offer them.
StoredHasObject ==
    (LongResults /\ cln.at = "idle") => \A j \in JobIds : result[j] = "stored" => j \in objects

\* Rows, objects and archive of a batch agree with each other, over any stores,
\* evictions, purges, and retries that do not cross the building of an archive.
BatchSound == TypeOK /\ StoredHasObject /\ ArchiveCurrent

\* Without crashes, and unless two retries overlap (the later one restarts the
\* counters under pages of the earlier one), the counters of a finished batch reach
\* its total, so the last progress event wakes whoever waits for the batch
\* (set_done, init_batch).
CountsReachTotal ==
    (/\ status = "finished" /\ mishaps.deaths = 0 /\ "retries" \notin crossed /\ sub.at = "answered"
     /\ \A w \in Workers : txn[w].at = "idle" /\ \A k \in Retries : retry[k].at \in {"idle", "end"})
        => counts.done + counts.failed >= counts.total

\* A queued batch finishes, whatever crashes, and even when the reaper failed its
\* pages before it was queued (finish_stalled).
BatchFinishes == []<>(status # "queued")
=============================================================================
