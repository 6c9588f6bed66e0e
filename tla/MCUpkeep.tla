------------------------------ MODULE MCUpkeep ------------------------------
(***************************************************************************)
(* What the gateway keeps and offers: the results of single jobs and how   *)
(* long they are kept, a batch that nobody finishes, the totals of the     *)
(* load counters, what a submit may ask for, and a GPU box with up-hours,  *)
(* on a week of three days of two minutes and schedules of one entry.      *)
(* They share no state of these modules, so a behaviour follows one.       *)
(***************************************************************************)
EXTENDS Results, Batch, Load, JobSpec, Box

CONSTANTS j1, j2, alto, txt, p1, w1, s1, s2

VARIABLE focus

upkeepVars == <<focus, resultVars, vars, loadVars, specVars, boxSystem>>

InResults == focus = "results" /\ UNCHANGED <<focus, vars, loadVars, specVars, boxSystem>>
InBatch == focus = "batch" /\ UNCHANGED <<focus, resultVars, loadVars, specVars, boxSystem>>
InSpec == focus = "spec" /\ UNCHANGED <<focus, resultVars, vars, loadVars, boxSystem>>
InBox == focus = "box" /\ UNCHANGED <<focus, resultVars, vars, loadVars, specVars>>

\* One row, hash, table or box stands for the parts that are not followed.  Of the results,
\* either the user reads one while it lives its life, or two jobs share the storage cap.
OneOfResults ==
    /\ row = [j \in SingleJobs |-> "active"]
    /\ ask = [at |-> "off", kind |-> "download", answer |-> "none"]
OneBox == text.word = "always" /\ now = 0
OneOfLoad == queued = <<>> /\ inflight = <<>> /\ links = {}
Reads == row[j1] = "active" /\ row[j2] = "deleted" /\ ask.at = "idle"
Shares == row[j1] = "active" /\ row[j2] = "done" /\ ask.at = "off"

MCInit ==
    /\ focus \in {"results", "batch", "load", "spec", "box"}
    /\ focus = "results" \/ OneOfResults
    /\ ResultsInit
    /\ focus = "results" => Reads \/ Shares
    /\ focus = "load" \/ OneOfLoad
    /\ LoadInit
    /\ focus = "spec" \/ served = 1
    /\ SpecInit
    /\ BoxInit
    /\ focus = "box" \/ OneBox
    /\ Init

MCNext ==
    \/ InResults /\ AgeTick
    \/ \E j \in SingleJobs :
          \/ InResults /\ HarvestPut(j)
          \/ InResults /\ HarvestCommit(j)
          \/ InResults /\ HarvestBreaks(j)
          \/ InResults /\ FailJob(j)
    \/ \E kind \in {"download", "result"} : InResults /\ Request(kind)
    \/ InResults /\ ReadJobRow
    \/ InResults /\ DownloadRow
    \/ InResults /\ DownloadObject
    \/ \E refresh \in BOOLEAN : InResults /\ ResultRows(refresh)
    \/ InResults /\ Presign
    \/ InResults /\ CleanTick
    \/ InResults /\ JobsSelect
    \/ InResults /\ JobsCommit
    \/ InResults /\ SweepSelect
    \/ InResults /\ SweepCommit
    \/ InResults /\ PurgeList
    \/ \E failed \in SUBSET cleaner.outs :
          \/ InResults /\ JobsObjects(failed)
          \/ InResults /\ SweepObjects(failed)
          \/ InResults /\ PurgeObjects(failed)
    \/ InResults /\ CleanFails
    \/ InResults /\ CleanDies
    \/ InBatch /\ SubmitStep
    \/ InBatch /\ \E p \in Pages : UploadEnds(p, FALSE)
    \/ InBatch /\ \E landed \in SUBSET Pages : Refuse(landed)
    \/ InBatch /\ ApiDies
    \/ \E w \in Workers : (InBatch /\ WorkerStep(w)) \/ (InBatch /\ WorkerDies(w))
    \/ \E k \in Retries : (InBatch /\ RetryOwned(k)) \/ (InBatch /\ RetryStep(k)) \/ (InBatch /\ RetryDies(k))
    \/ \E j \in JobIds : (InBatch /\ Dispatch(j)) \/ (InBatch /\ Reap(j))
    \/ InBatch /\ ExpireSelect
    \/ InBatch /\ RetentionStep
    \/ InBatch /\ FinishStalled
    \/ \E old \in SUBSET JobIds, arch \in BOOLEAN :
          \/ InBatch /\ EvictSelect(old, arch)
          \/ InBatch /\ PurgeResults(old, arch)
    \/ \E old \in SUBSET JobIds : InBatch /\ PurgeUploads(old)
    \/ InSpec /\ EditTables
    \/ InSpec /\ SpecTick
    \/ \E s \in Submits :
          \/ InSpec /\ \E form \in Asks, key \in Keys : RefuseForm(s, form, key)
          \/ InSpec /\ \E form \in Asks, key \in Keys : CapabilitiesHit(s, form, key)
          \/ InSpec /\ \E form \in Asks, key \in Keys : CapabilitiesMiss(s, form, key)
          \/ InSpec /\ CapabilitiesRead(s)
          \/ InSpec /\ CapabilitiesStore(s)
    \/ InBox /\ ClockTick
    \/ InBox /\ TickStart
    \/ InBox /\ DockerStart
    \/ InBox /\ TickClose
    \/ InBox /\ TickStop
    \/ InBox /\ DockerStop
    \/ InBox /\ DockerFails
    \/ InBox /\ SchedulerRestarts
    \/ InBox /\ ComposeUp
    \/ InBox /\ ComposeDown
    \/ InBox /\ CheckHealth
    \/ \E p \in BoxPages :
          \/ InBox /\ PassGate(p)
          \/ InBox /\ EngineAccepts(p)
          \/ InBox /\ EngineFinishes(p)
          \/ InBox /\ Requeue(p)

\* The fairness of each module, for the part that is followed.
MCFairness ==
    /\ WF_upkeepVars(InResults /\ AgeTick) /\ WF_upkeepVars(InResults /\ CleanGoesOn)
    /\ WF_upkeepVars(InBatch /\ SubmitStep) /\ WF_upkeepVars(InBatch /\ RetentionStep)
    /\ WF_upkeepVars(InBatch /\ FinishStalled)
    /\ \A w \in Workers : WF_upkeepVars(InBatch /\ WorkerStep(w))
    /\ \A k \in Retries : WF_upkeepVars(InBatch /\ RetryStep(k))
    /\ \A j \in JobIds : WF_upkeepVars(InBatch /\ Reap(j))
    /\ WF_upkeepVars(InBox /\ ClockTick) /\ WF_upkeepVars(InBox /\ SchedulerTick)

MCSpec == MCInit /\ [][MCNext]_upkeepVars /\ MCFairness

-----------------------------------------------------------------------------
\* Two jobs of two outputs; a row says how long the bucket keeps its objects

TwoJobs == {j1, j2}
TwoFormats == {alto, txt}
TwoSizes == [f \in TwoFormats |-> IF f = alto THEN 2 ELSE 1]
KeptLong == [b \in {"results"} |-> 2]
NotSet == <<>>

\* A batch of one page

BatchPages == {p1}     \* and the page on the box
OneWorker == {w1}
NoClient == {}

\* Counters of two domains, and what three backends of two adapters serve

ThreeFields == {<<"ocr", {"alto"}>>, <<"ocr", {"alto", "txt"}>>, <<"maps", {"alto"}>>}
AroundZero == -1..1
TwoAdapters == [h \in {"h1", "h2", "h3"} |-> IF h = "h3" THEN "tuzkam" ELSE "tuzkaocr"]
LinkTables == {{}, {<<"h1", "ocr", {"alto"}>>, <<"h2", "ocr", {"alto", "txt"}>>},
               {<<"h1", "ocr", {"alto", "txt"}>>, <<"h2", "maps", {"alto"}>>, <<"h3", "ocr", {"alto"}>>}}
OneMeasured == [d \in {"ocr"} |-> 2]

\* Two domains and two backends: both serve maps, or one, or neither all of its outputs.

TwoDomains == {"default", "maps"}
Maps(kind, outputs, enabled) ==
    [adapter |-> kind, outputs |-> outputs, enabled |-> enabled, schema |-> {"georef off"}]
Table(maps) == [d \in TwoDomains |-> IF d = "maps" THEN maps ELSE {}]
ThreeTables ==
    <<Table({Maps("tuzkam", {"alto", "geojson"}, TRUE), Maps("tuzkaocr", {"alto", "geojson"}, TRUE)}),
      Table({Maps("tuzkam", {"alto", "geojson"}, TRUE), Maps("tuzkaocr", {"alto", "geojson"}, FALSE)}),
      Table({Maps("tuzkam", {"geojson"}, TRUE), Maps("tuzkaocr", {"alto"}, TRUE)})>>

TwoSubmits == {s1, s2}
Form(domain, raw, options) == [domain |-> domain, fmt |-> "multi", raw |-> raw, options |-> options]
SomeAsks ==
    {Form("default", NotGiven, {}), Form("maps", {"alto", "geojson"}, {}), Form("maps", {"alto", Blank}, {}),
     Form("maps", {"geojson"}, {"georef off"})}
SomeKeys == {[domains |-> NotGiven, outputs |-> NotGiven], [domains |-> {"default"}, outputs |-> {"alto"}]}

\* Ranges of days from the first or the last day, wrapping or not, and every window.

Word(w) == [word |-> w, entries |-> {}]
Entries == [days : {{r} : r \in {0, 2} \X (0..2)}, start : 0..2, end : 0..2]
EverySchedule == {Word("always"), Word("never")} \cup {[word |-> "entries", entries |-> {e}] : e \in Entries}
=============================================================================
