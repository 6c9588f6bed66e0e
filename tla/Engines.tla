------------------------------ MODULE Engines -------------------------------
(***************************************************************************)
(* What an engine adapter tells the gateway of its engine                  *)
(* (app/engines/tuzkaocr/adapter.py, app/engines/tuzkam/adapter.py): the   *)
(* domains, their outputs and the schema of their options, derived from an *)
(* OpenAPI document that the adapter caches, failed lookups included; and  *)
(* what the submit worker's domain sync keeps of it                        *)
(* (app/services/domain_sync.py), over releases of the engines, outages of *)
(* one endpoint or of all, and scaling to zero.                            *)
(*                                                                         *)
(* DomainSync has the races of several workers that sync one engine; here  *)
(* one worker syncs several engines.  A tick is longer than a describe().  *)
(***************************************************************************)
EXTENDS Integers

CONSTANTS
    Engines,
    Adapters,      \* the assignments of an adapter to each engine: "tuzkaocr" or "tuzkam"
    Releases,
    DomainsOf,     \* selectable_via_domain of a release's /api/v1/models
    SchemaOf,      \* what a release's OpenAPI document says of the options, or NoSchema
    MapDomains,    \* TUZKAM_DOMAINS
    OpenapiTTL,    \* _OPENAPI_CACHE_TTL_SECONDS
    SyncEvery,     \* domain_sync_seconds
    MaxUpsets,     \* releases and outages
    NoSpec,        \* no OpenAPI document
    NoSchema       \* no options schema

\* TuzkaM's domains are its own; on one domain all engines run the same software.
ASSUME EnginesAssumption ==
    /\ OpenapiTTL \in Nat \ {0} /\ SyncEvery \in Nat \ {0} /\ MaxUpsets \in Nat
    /\ NoSpec \notin Releases
    /\ \A r \in Releases : DomainsOf[r] # {} /\ DomainsOf[r] \cap MapDomains = {}

VARIABLES
    adapter,    \* per engine
    release,    \* what it runs
    answers,    \* its endpoints that answer
    document,   \* _openapi_cache of its adapter: the release it is of
    documentAge,\* ticks since _openapi_cached_at, up to OpenapiTTL
    describe,   \* its sync task: [at, doc, models, age]
    syncAge,    \* ticks since domains_synced_at, up to SyncEvery
    linked,     \* backend_domains: the domains of its rows
    schema,     \* domains.options_schema
    unran,      \* per release: ticks since an engine ran it
    upsets

engineVars == <<adapter, release, answers, document, documentAge, describe, syncAge, linked,
                schema, unran, upsets>>

AllDomains == MapDomains \cup UNION {DomainsOf[r] : r \in Releases}
NoTask == [at |-> "idle", doc |-> NoSpec, models |-> NoSpec, age |-> 0]
Endpoints == {"healthz", "openapi", "models"}
Forgotten == OpenapiTTL + 1
Runs(r) == \E e \in Engines : release[e] = r /\ answers[e] # {}

EnginesInit ==
    /\ adapter \in Adapters
    /\ release \in [Engines -> Releases] /\ answers \in [Engines -> {{}, Endpoints}]
    /\ document = [e \in Engines |-> NoSpec] /\ documentAge = [e \in Engines |-> OpenapiTTL]
    /\ describe = [e \in Engines |-> NoTask] /\ syncAge = [e \in Engines |-> SyncEvery]
    /\ linked = [e \in Engines |-> {}] /\ schema = [d \in AllDomains |-> NoSchema]
    /\ unran = [r \in Releases |-> IF Runs(r) THEN 0 ELSE Forgotten]
    /\ upsets = 0

-----------------------------------------------------------------------------
\* The engines and the clock

Upset == upsets < MaxUpsets /\ upsets' = upsets + 1

\* A new release; the adapter of the backend, and its cache, stay.
Upgrade(e) ==
    /\ Upset /\ \E r \in Releases \ {release[e]} : release' = [release EXCEPT ![e] = r]
    /\ unran' = [unran EXCEPT ![release'[e]] = IF answers[e] = {} THEN @ ELSE 0]
    /\ UNCHANGED <<adapter, answers, document, documentAge, describe, syncAge, linked, schema>>

\* Scaled to zero, one endpoint fails, or the engine is back.
Disturb(e) ==
    /\ Upset
    /\ \E up \in {{}, Endpoints} \cup {Endpoints \ {x} : x \in {"openapi", "models"}} :
          /\ up # answers[e] /\ answers' = [answers EXCEPT ![e] = up]
          /\ unran' = [unran EXCEPT ![release[e]] = IF up = {} THEN @ ELSE 0]
    /\ UNCHANGED <<adapter, release, document, documentAge, describe, syncAge, linked, schema>>

\* Each request of a describe() times out after five seconds.
EngineTick ==
    /\ \A e \in Engines : describe[e].age = 0
    /\ documentAge' = [e \in Engines |-> IF documentAge[e] < OpenapiTTL THEN documentAge[e] + 1 ELSE OpenapiTTL]
    /\ syncAge' = [e \in Engines |-> IF syncAge[e] < SyncEvery THEN syncAge[e] + 1 ELSE SyncEvery]
    /\ describe' = [e \in Engines |-> IF describe[e] = NoTask THEN NoTask ELSE [describe[e] EXCEPT !.age = 1]]
    /\ unran' = [r \in Releases |-> IF Runs(r) THEN 0 ELSE IF unran[r] < Forgotten THEN unran[r] + 1 ELSE Forgotten]
    /\ UNCHANGED <<adapter, release, answers, document, linked, schema, upsets>>

-----------------------------------------------------------------------------
\* The adapter

\* _openapi: the cached document, a failed lookup's absence of one included, or a new one.
Fetched(e) == IF "openapi" \in answers[e] THEN release[e] ELSE NoSpec
IsCached(e) == documentAge[e] < OpenapiTTL
OpenapiSliding(e) ==
    /\ document' = [document EXCEPT ![e] = IF IsCached(e) THEN @ ELSE Fetched(e)]
    /\ documentAge' = [documentAge EXCEPT ![e] = 0]
Openapi(e) ==
    /\ document' = [document EXCEPT ![e] = IF IsCached(e) THEN @ ELSE Fetched(e)]
    /\ documentAge' = [documentAge EXCEPT ![e] = IF IsCached(e) THEN @ ELSE 0]

\* options_schema_from_openapi, of a document that may not describe the form.
OptionsSchema(doc) == IF doc = NoSpec THEN NoSchema ELSE SchemaOf[doc]

\* The domains of a describe(): TuzkaM's are configured and are there if its document is,
\* TuzkaOCR's come from /models.
MapInfo(doc) == IF doc = NoSpec THEN {} ELSE MapDomains
OcrInfo(models) == IF models = NoSpec THEN {} ELSE DomainsOf[models]
InfoDomainsOfAny(e, doc, models) == IF doc # NoSpec THEN MapInfo(doc) ELSE OcrInfo(models)
InfoDomains(e, doc, models) == IF adapter[e] = "tuzkam" THEN MapInfo(doc) ELSE OcrInfo(models)

\* version(), after a dispatch: it may be the one that looks the document up.
Version(e) ==
    /\ "healthz" \in answers[e] /\ ~IsCached(e) /\ Openapi(e)
    /\ UNCHANGED <<adapter, release, answers, describe, syncAge, linked, schema, unran, upsets>>

-----------------------------------------------------------------------------
\* The domain sync

\* spawn_domain_sync, from a health check that found the engine healthy.
DescribeStarts(e) ==
    /\ describe[e] = NoTask /\ syncAge[e] >= SyncEvery /\ "healthz" \in answers[e]
    /\ Openapi(e)
    /\ describe' = [describe EXCEPT ![e] = [NoTask EXCEPT !.at = "models", !.doc = document'[e]]]
    /\ UNCHANGED <<adapter, release, answers, syncAge, linked, schema, unran, upsets>>

\* The second request of TuzkaOCR's describe().  One without domains ends the sync.
ModelsAnswer(e) ==
    /\ describe[e].at = "models"
    /\ LET models == IF adapter[e] = "tuzkaocr" /\ "models" \in answers[e] THEN release[e] ELSE NoSpec
       IN  describe' = [describe EXCEPT ![e] =
                          IF InfoDomains(e, @.doc, models) = {} THEN NoTask
                          ELSE [@ EXCEPT !.at = "apply", !.models = models]]
    /\ UNCHANGED <<adapter, release, answers, document, documentAge, syncAge, linked, schema, unran, upsets>>

\* plan_domain_links: the newest schema wins, and no schema leaves the stored one.
StoredSchemaFirst(domains, new) == [d \in AllDomains |-> IF d \in domains /\ schema[d] = NoSchema THEN new ELSE schema[d]]
StoredSchema(domains, new) == [d \in AllDomains |-> IF d \in domains /\ new # NoSchema THEN new ELSE schema[d]]

SyncApplies(e) ==
    /\ describe[e].at = "apply"
    /\ LET domains == InfoDomains(e, describe[e].doc, describe[e].models)
       IN  /\ linked' = [linked EXCEPT ![e] = domains]
           /\ schema' = StoredSchema(domains, OptionsSchema(describe[e].doc))
    /\ describe' = [describe EXCEPT ![e] = NoTask] /\ syncAge' = [syncAge EXCEPT ![e] = 0]
    /\ UNCHANGED <<adapter, release, answers, document, documentAge, unran, upsets>>

-----------------------------------------------------------------------------
EnginesNext ==
    \/ EngineTick
    \/ \E e \in Engines :
          \/ Upgrade(e) \/ Disturb(e) \/ Version(e)
          \/ DescribeStarts(e) \/ ModelsAnswer(e) \/ SyncApplies(e)

EnginesSpec == EnginesInit /\ [][EnginesNext]_engineVars

\* Time passes, a healthy engine is synced when it is due, and a sync goes on.
SyncContinues(e) == DescribeStarts(e) \/ ModelsAnswer(e) \/ SyncApplies(e)
EnginesFairness == WF_engineVars(EngineTick) /\ \A e \in Engines : WF_engineVars(SyncContinues(e))

-----------------------------------------------------------------------------
\* The variables keep their types; what an engine serves is what one of its adapters'
\* answers can be, and a TuzkaM is never linked to a domain of the other kind.
EnginesTypeOK ==
    /\ \A e \in Engines :
          /\ document[e] \in Releases \cup {NoSpec} /\ documentAge[e] \in 0..OpenapiTTL
          /\ describe[e].at \in {"idle", "models", "apply"} /\ syncAge[e] \in 0..SyncEvery
          /\ linked[e] \in {{}} \cup (IF adapter[e] = "tuzkam" THEN {MapDomains} ELSE {DomainsOf[r] : r \in Releases})
    /\ schema \in [AllDomains -> {SchemaOf[r] : r \in Releases} \cup {NoSchema}]
    /\ upsets \in 0..MaxUpsets

\* A stored options schema is not lost: not by a failed lookup, which is cached as no
\* document, nor by a release whose document does not describe the form.
SchemaKept == [][\A d \in AllDomains : schema[d] # NoSchema => schema'[d] # NoSchema]_engineVars

\* A schema that is stored belongs to a release that some engine ran within
\* _OPENAPI_CACHE_TTL_SECONDS: links and schema come from two requests, of which the
\* first may be answered by the cache, but never from a document older than that.
SchemaIsRecent ==
    [][\A d \in AllDomains : schema'[d] # schema[d] =>
          \E r \in Releases : SchemaOf[r] = schema'[d] /\ unran[r] <= OpenapiTTL]_engineVars

\* The options schema of a domain is never lost and never replaced by an old one.
SchemaSound == SchemaKept /\ SchemaIsRecent

\* Once releases and outages are over, the domains of each engine that answers become
\* the ones it serves, one whose lookup had failed included; and where the engines that
\* serve a domain run one release, its schema becomes that release's, for good.
Serving(d) == {e \in Engines : answers[e] # {} /\ d \in InfoDomains(e, release[e], release[e])}
Calm(E) == upsets = MaxUpsets /\ E # {} /\ \A e, f \in E : answers[e] = Endpoints /\ release[e] = release[f]
Learned ==
    /\ \A e \in Engines :
          <>[]Calm({e}) => <>[](linked[e] = InfoDomains(e, release[e], release[e]))
    /\ \A d \in AllDomains :
          <>[]Calm(Serving(d))
             => <>[](\A e \in Serving(d) : SchemaOf[release[e]] # NoSchema => schema[d] = SchemaOf[release[e]])
=============================================================================
