------------------------------ MODULE Results -------------------------------
(***************************************************************************)
(* The results of single jobs: stored by a harvest (app/workers/poller/    *)
(* worker.py), read by their user (app/routers/jobs.py), taken away by the *)
(* cleanup worker: job rows past their TTL, objects past their age or over *)
(* the storage cap (app/services/retention.py), and whatever is in the     *)
(* bucket for too long (app/workers/cleanup.py, app/services/storage.py).  *)
(*                                                                         *)
(* Times are kept as ages that stop one past the longest TTL.  Postgres is *)
(* READ COMMITTED; object storage is not part of a transaction.  The pages *)
(* of a batch go with their batch: that is module Batch.                   *)
(***************************************************************************)
EXTENDS Integers, FiniteSets, SequencesExt

CONSTANTS
    SingleJobs, Formats,
    ReadJob, ReadFormat, \* the result that the client asks for, over and over
    SizeOf,              \* stored size per format
    DoneTTL, FailedTTL,  \* jobs.done_ttl_seconds, jobs.failed_ttl_seconds
    MaxAge,              \* storage.results_max_age_seconds
    CapBytes,            \* storage.results_max_bytes, or NoCap
    BucketTTLs,          \* the storage.<bucket>_ttl_minutes rows
    DefaultBucketTTL,    \* STORAGE_TTL_DEFAULT_MINUTES
    LateHarvest,         \* how long a harvest may take, and outlive its job's failure
    HeavyEvery,          \* every how many ticks the buckets are purged
    MaxTroubles,         \* deletes that fail, exceptions and deaths of the cleanup
    NoCap, NoObject

Outputs == SingleJobs \X Formats
StorageTTL == IF "results" \in DOMAIN BucketTTLs THEN BucketTTLs["results"] ELSE DefaultBucketTTL
AgeMax == Max({DoneTTL, FailedTTL, MaxAge, StorageTTL}) + 1

ASSUME ResultsAssumption ==
    /\ ReadJob \in SingleJobs /\ ReadFormat \in Formats
    /\ IsFiniteSet(SingleJobs) /\ IsFiniteSet(Formats)
    /\ {DoneTTL, FailedTTL, MaxAge, StorageTTL, LateHarvest, MaxTroubles} \subseteq Nat
    /\ HeavyEvery \in Nat \ {0} /\ CapBytes \in Nat \cup {NoCap} /\ NoObject \notin Nat
    /\ \A f \in Formats : SizeOf[f] \in Nat

VARIABLES
    row,     \* jobs.status: "active", "done", "failed", or "deleted" once there is none
    age,     \* per job: age of finished_at, and of stored_at, which is the same here
    res,     \* job_results per output: "none", "live", or "evicted" (evicted_at is set)
    object,  \* results bucket per output: age of the object, or NoObject
    put,     \* jobs with a harvest whose objects are stored and whose rows are not
    ticks,   \* CleanupWorker.ticks, modulo HeavyEvery
    cleaner, \* the cleanup tick: step, jobs and outputs it has selected, is it heavy
    capped,  \* outputs that the storage cap has taken
    ask,     \* the client's request: step, answer
    last,    \* the answer to its request before
    troubles

resultVars == <<row, age, res, object, put, ticks, cleaner, capped, ask, last, troubles>>

Idle == [at |-> "idle", jobs |-> {}, outs |-> {}, heavy |-> FALSE]

\* A job is submitted, stored just now, or long gone; its user reads results or not.
ResultsInit ==
    /\ row \in [SingleJobs -> {"active", "done", "deleted"}]
    /\ age = [j \in SingleJobs |-> 0]
    /\ res = [o \in Outputs |-> IF row[o[1]] = "done" THEN "live" ELSE "none"]
    /\ object = [o \in Outputs |-> IF row[o[1]] = "done" THEN 0 ELSE NoObject]
    /\ put = {} /\ ticks = 0 /\ cleaner = Idle /\ capped = {}
    /\ ask \in [at : {"idle", "off"}, kind : {"download"}, answer : {"none"}] /\ last = "none"
    /\ troubles = 0

-----------------------------------------------------------------------------
\* The clock, and what the workers do to a job

Older(a) == IF a \in 0..(AgeMax - 1) THEN a + 1 ELSE a
AgeTick ==
    /\ age' = [j \in SingleJobs |-> IF row[j] \in {"done", "failed"} THEN Older(age[j]) ELSE age[j]]
    /\ object' = [o \in Outputs |-> Older(object[o])]
    /\ UNCHANGED <<row, res, put, ticks, cleaner, capped, ask, last, troubles>>

\* A job's harvest, retries included, takes less time than its objects are kept.
Harvesting(j) ==
    /\ row[j] = "active" \/ (row[j] = "failed" /\ age[j] <= LateHarvest)
    /\ \A f \in Formats : object[<<j, f>>] \in 0..LateHarvest \cup {NoObject}

\* _store_output for each output, before any row says so.
HarvestPut(j) ==
    /\ Harvesting(j) /\ j \notin put
    /\ object' = [o \in Outputs |-> IF o[1] = j THEN 0 ELSE object[o]]
    /\ put' = put \cup {j}
    /\ UNCHANGED <<row, age, res, ticks, cleaner, capped, ask, last, troubles>>

\* _record_done: the result rows and the job's, in one transaction.  The job may have
\* been failed meanwhile.
HarvestCommit(j) ==
    /\ j \in put /\ put' = put \ {j}
    /\ Harvesting(j) /\ \A f \in Formats : object[<<j, f>>] # NoObject
    /\ res' = [o \in Outputs |-> IF o[1] = j THEN "live" ELSE res[o]]
    /\ row' = [row EXCEPT ![j] = "done"] /\ age' = [age EXCEPT ![j] = 0]
    /\ UNCHANGED <<object, ticks, cleaner, capped, ask, last, troubles>>

\* The harvest breaks off; what it has stored stays.
HarvestBreaks(j) ==
    /\ j \in put /\ put' = put \ {j}
    /\ UNCHANGED <<row, age, res, object, ticks, cleaner, capped, ask, last, troubles>>

\* mark_failed, or the reaper.
FailJob(j) ==
    /\ row[j] = "active" /\ row' = [row EXCEPT ![j] = "failed"]
    /\ UNCHANGED <<age, res, object, put, ticks, cleaner, capped, ask, last, troubles>>

-----------------------------------------------------------------------------
\* GET /jobs/{id}/result/{fmt}/download and GET /jobs/{id}/result

Watched == <<ReadJob, ReadFormat>>
Answer(a) ==
    /\ ask' = [ask EXCEPT !.at = "idle", !.answer = a]
    /\ UNCHANGED <<row, age, res, object, put, ticks, cleaner, capped, last, troubles>>
Proceed(step) ==
    /\ ask' = [ask EXCEPT !.at = step]
    /\ UNCHANGED <<row, age, res, object, put, ticks, cleaner, capped, last, troubles>>

Request(kind) ==
    /\ ask.at = "idle"
    /\ ask' = [at |-> "job", kind |-> kind, answer |-> "none"]
    /\ last' = IF ask.kind = "download" /\ ask.answer # "none" THEN ask.answer ELSE last
    /\ UNCHANGED <<row, age, res, object, put, ticks, cleaner, capped, troubles>>

\* The job row decides first, then the result rows.
ReadJobRow ==
    /\ ask.at = "job"
    /\ CASE row[ReadJob] = "deleted" -> Answer("404")
         [] row[ReadJob] = "failed" -> Answer(IF ask.kind = "download" THEN "409" ELSE "failed")
         [] row[ReadJob] = "active" -> Answer("202")
         [] row[ReadJob] = "done" -> Proceed("rows")

DownloadRow ==
    /\ ask.at = "rows" /\ ask.kind = "download"
    /\ CASE res[Watched] = "none" -> Answer("404")
         [] res[Watched] = "evicted" -> Answer("410")
         [] res[Watched] = "live" -> Proceed("object")

\* storage.get_object; an object that is not there is an unhandled error.
DownloadObject ==
    /\ ask.at = "object"
    /\ Answer(IF object[Watched] = NoObject THEN "500" ELSE "200")

\* get_job_result: which URLs have run out is left open.
ResultRows(refresh) ==
    /\ ask.at = "rows" /\ ask.kind = "result"
    /\ LET rows == {res[<<ReadJob, f>>] : f \in Formats} \ {"none"}
       IN  CASE rows = {"evicted"} -> ~refresh /\ Answer("410")
             [] rows # {"evicted"} /\ (rows = {} \/ ~refresh) -> ~refresh /\ Answer("200")
             [] rows \notin {{}, {"evicted"}} /\ refresh -> Proceed("presign")

\* The new URL is written to a row that may be gone by now.
Presign ==
    /\ ask.at = "presign"
    /\ Answer(IF row[ReadJob] = "deleted" THEN "500" ELSE "200")

-----------------------------------------------------------------------------
\* The cleanup worker

Trouble == troubles < MaxTroubles /\ troubles' = troubles + 1
ExpiredDone(j) == row[j] = "done" /\ age[j] > DoneTTL
Expired(j) ==
    \/ row[j] = "done" /\ age[j] > DoneTTL
    \/ row[j] = "failed" /\ age[j] > FailedTTL
AfterRetention == IF cleaner.heavy THEN [Idle EXCEPT !.at = "purge", !.heavy = TRUE] ELSE Idle

\* run_tick; requeue_lost_jobs and the reaper are in JobLifecycle.
CleanTick ==
    /\ cleaner.at = "idle"
    /\ cleaner' = [Idle EXCEPT !.at = "jobs", !.heavy = (ticks = 0)]
    /\ ticks' = (ticks + 1) % HeavyEvery
    /\ UNCHANGED <<row, age, res, object, put, capped, ask, last, troubles>>

\* delete_finished_jobs: rows past their TTL, until there are none.
JobsSelect ==
    /\ cleaner.at = "jobs"
    /\ LET gone == {j \in SingleJobs : Expired(j)}
       IN  cleaner' = IF gone = {} THEN [cleaner EXCEPT !.at = "evict"]
                      ELSE [cleaner EXCEPT !.at = "jobsObjects", !.jobs = gone,
                               !.outs = {o \in Outputs : o[1] \in gone /\ res[o] = "live"}]
    /\ UNCHANGED <<row, age, res, object, put, ticks, capped, ask, last, troubles>>

\* delete_objects: an object that cannot be deleted is logged and left.
DeleteObjects(failed) ==
    /\ IF failed = {} THEN UNCHANGED troubles ELSE Trouble
    /\ object' = [o \in Outputs |-> IF o \in cleaner.outs \ failed THEN NoObject ELSE object[o]]
JobsObjects(failed) ==
    /\ cleaner.at = "jobsObjects" /\ DeleteObjects(failed)
    /\ cleaner' = [cleaner EXCEPT !.at = "jobsCommit"]
    /\ UNCHANGED <<row, age, res, put, ticks, capped, ask, last>>

JobsCommit ==
    /\ cleaner.at = "jobsCommit"
    /\ res' = [o \in Outputs |-> IF o[1] \in cleaner.jobs THEN "none" ELSE res[o]]
    /\ row' = [j \in SingleJobs |-> IF j \in cleaner.jobs THEN "deleted" ELSE row[j]]
    /\ cleaner' = [cleaner EXCEPT !.at = "jobs", !.jobs = {}, !.outs = {}]
    /\ UNCHANGED <<age, object, put, ticks, capped, ask, last, troubles>>

\* evict_results: what is live, and what of it is too old.
Live == {o \in Outputs : res[o] = "live"}
AgedEarly == {o \in Live : age[o[1]] >= MaxAge}
Aged == {o \in Live : age[o[1]] > MaxAge}
Sizes(S) == SumFunctionOnSet([o \in Outputs |-> SizeOf[o[2]]], S)
Oldest == {s \in SetToSeqs(Live \ Aged) :
              \A m, n \in DOMAIN s : m < n => age[s[m][1]] >= age[s[n][1]]}

\* plan_eviction: oldest first, until 90 % of the cap are left.
PlanEvictionToCap(oldest, used) ==
    LET left[n \in 0..Len(oldest)] ==
            IF n = 0 THEN used
            ELSE IF left[n - 1] <= CapBytes THEN left[n - 1] ELSE left[n - 1] - SizeOf[oldest[n][2]]
    IN  {oldest[n] : n \in {m \in 1..Len(oldest) : left[m - 1] > CapBytes}}
PlanEviction(oldest, used) ==
    LET left[n \in 0..Len(oldest)] ==
            IF n = 0 THEN used
            ELSE IF 10 * left[n - 1] <= 9 * CapBytes THEN left[n - 1] ELSE left[n - 1] - SizeOf[oldest[n][2]]
    IN  IF used <= CapBytes THEN {}
        ELSE {oldest[n] : n \in {m \in 1..Len(oldest) : 10 * left[m - 1] > 9 * CapBytes}}

SweepSelect ==
    /\ cleaner.at = "evict"
    /\ \E oldest \in Oldest :
          LET over == IF CapBytes = NoCap THEN {} ELSE PlanEviction(oldest, Sizes(Live \ Aged))
          IN  /\ cleaner' = IF Aged \cup over = {} THEN AfterRetention
                            ELSE [cleaner EXCEPT !.at = "evictObjects", !.outs = Aged \cup over]
              /\ capped' = capped \cup over
    /\ UNCHANGED <<row, age, res, object, put, ticks, ask, last, troubles>>

SweepObjects(failed) ==
    /\ cleaner.at = "evictObjects" /\ DeleteObjects(failed)
    /\ cleaner' = [cleaner EXCEPT !.at = "evictCommit"]
    /\ UNCHANGED <<row, age, res, put, ticks, capped, ask, last>>

SweepCommit ==
    /\ cleaner.at = "evictCommit" /\ cleaner' = AfterRetention
    /\ res' = [o \in Outputs |-> IF o \in cleaner.outs /\ res[o] # "none" THEN "evicted" ELSE res[o]]
    /\ UNCHANGED <<row, age, object, put, ticks, capped, ask, last, troubles>>

\* _purge_expired of the results bucket, whatever the rows say.
PurgeList ==
    /\ cleaner.at = "purge"
    /\ LET old == {o \in Outputs : object[o] # NoObject /\ object[o] > StorageTTL}
       IN  cleaner' = IF old = {} THEN Idle ELSE [cleaner EXCEPT !.at = "purgeObjects", !.outs = old]
    /\ UNCHANGED <<row, age, res, object, put, ticks, capped, ask, last, troubles>>

PurgeObjects(failed) ==
    /\ cleaner.at = "purgeObjects" /\ DeleteObjects(failed)
    /\ cleaner' = Idle
    /\ UNCHANGED <<row, age, res, put, ticks, capped, ask, last>>

\* _guard: an exception ends the step and rolls its transaction back; the next runs.
CleanFails ==
    /\ Trouble /\ cleaner.at # "idle"
    /\ cleaner' = IF cleaner.at \in {"purge", "purgeObjects"} THEN Idle ELSE AfterRetention
    /\ UNCHANGED <<row, age, res, object, put, ticks, capped, ask, last>>

\* The worker dies; the next one starts with a heavy tick.
CleanDies ==
    /\ Trouble /\ cleaner' = Idle /\ ticks' = 0
    /\ UNCHANGED <<row, age, res, object, put, capped, ask, last>>

CleanGoesOn ==
    \/ CleanTick \/ JobsSelect \/ JobsObjects({}) \/ JobsCommit
    \/ SweepSelect \/ SweepObjects({}) \/ SweepCommit \/ PurgeList \/ PurgeObjects({})

ResultsNext ==
    \/ AgeTick
    \/ \E j \in SingleJobs : HarvestPut(j) \/ HarvestCommit(j) \/ HarvestBreaks(j) \/ FailJob(j)
    \/ \E kind \in {"download", "result"} : Request(kind)
    \/ ReadJobRow \/ DownloadRow \/ DownloadObject \/ Presign
    \/ \E refresh \in BOOLEAN : ResultRows(refresh)
    \/ CleanTick \/ JobsSelect \/ JobsCommit \/ SweepSelect \/ SweepCommit \/ PurgeList
    \/ \E failed \in SUBSET cleaner.outs : JobsObjects(failed) \/ SweepObjects(failed) \/ PurgeObjects(failed)
    \/ CleanFails \/ CleanDies

ResultsSpec == ResultsInit /\ [][ResultsNext]_resultVars

\* Time passes and the cleanup worker goes on.
ResultsFairness == WF_resultVars(AgeTick) /\ WF_resultVars(CleanGoesOn)

-----------------------------------------------------------------------------
\* The variables keep their types, and a result row has its job's (the foreign key).
ResultsTypeOK ==
    /\ row \in [SingleJobs -> {"active", "done", "failed", "deleted"}]
    /\ age \in [SingleJobs -> 0..AgeMax]
    /\ res \in [Outputs -> {"none", "live", "evicted"}]
    /\ object \in [Outputs -> 0..AgeMax \cup {NoObject}]
    /\ put \subseteq SingleJobs /\ capped \subseteq Outputs /\ ticks \in 0..(HeavyEvery - 1)
    /\ cleaner.outs \subseteq Outputs /\ cleaner.jobs \subseteq SingleJobs
    /\ \A o \in Outputs : res[o] # "none" => row[o[1]] # "deleted"

\* A result can be downloaded, any number of times, until its age, its job's TTL or
\* the storage cap takes it: no sooner does a read answer that it is gone, or break on
\* a missing object, in whatever order the cleanup deletes objects and rows and
\* wherever it fails.
DownloadableUntil ==
    ask.at = "idle" /\ ask.answer \in {"410", "500", "404"}
        => \/ age[ReadJob] > MaxAge
           \/ age[ReadJob] > Min({DoneTTL, FailedTTL})
           \/ \E f \in Formats : <<ReadJob, f>> \in capped

\* The answers to one user's downloads only go forward: pending, failed, there,
\* going, evicted, deleted.  What was gone does not come back.
Rank(a) == CASE a = "none" -> 0 [] a = "202" -> 1 [] a = "409" -> 2 [] a = "200" -> 3
             [] a = "500" -> 4 [] a = "410" -> 5 [] a = "404" -> 6
ReadsGoForward ==
    ask.at = "idle" /\ ask.kind = "download" /\ ask.answer # "none" => Rank(last) <= Rank(ask.answer)

\* What a user sees of a result: there until it is due, and gone for good after.
ReadsSound == ResultsTypeOK /\ DownloadableUntil /\ ReadsGoForward

\* The storage cap takes the oldest results, as many as it takes to come under 90 %
\* of it and no more.
TakesOldest ==
    LET over == cleaner'.outs \ Aged
        stays == Live \ cleaner'.outs
    IN  /\ \A o \in over, p \in stays : age[o[1]] >= age[p[1]]
        /\ CapBytes # NoCap =>
              /\ Sizes(stays) <= CapBytes
              /\ over # {} => /\ Sizes(stays \cup over) > CapBytes
                              /\ stays = {} \/ 10 * Sizes(stays) <= 9 * CapBytes
                              /\ \E o \in over : 10 * Sizes(stays \cup {o}) > 9 * CapBytes
CapTakesOldest == [][cleaner.at = "evict" /\ cleaner'.at = "evictObjects" => TakesOldest]_resultVars

\* A job that has ended leaves nothing behind: its rows go, and so does every object,
\* one whose deletion failed or that a late harvest stored for a failed job included.
NothingStays ==
    \A j \in SingleJobs :
        <>[](row[j] # "active") => <>[](row[j] = "deleted" /\ \A f \in Formats : object[<<j, f>>] = NoObject)
=============================================================================
