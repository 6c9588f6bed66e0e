------------------------------ MODULE JobSpec -------------------------------
(***************************************************************************)
(* What a submit may ask for: the key's scope (app/services/scopes.py) and *)
(* the domain, outputs and options of the job, checked against what the    *)
(* enabled backends serve (app/services/job_spec.py), with the cache of    *)
(* that answer; and the domains that GET /domains lists.                   *)
(*                                                                         *)
(* The tables (domains, backends and their links) are edited by an         *)
(* operator or a domain sync at any moment.  A tick is a unit of the       *)
(* process's monotonic clock.                                              *)
(***************************************************************************)
EXTENDS Integers

CONSTANTS
    Domains,          \* names of domains
    Tables,           \* the versions the tables may have: per domain, a set of rows
    Asks,             \* what a form says: domain, fmt, raw outputs, options
    Keys,             \* principals: allowed domains and outputs
    Submits,          \* concurrent submit requests of one API process
    CapabilitiesTTL,  \* CAPABILITIES_TTL_SECONDS
    ReadMax,          \* a query takes at most so many ticks
    MaxTableEdits,
    NotGiven,         \* a form field that is absent, a scope that is NULL
    Blank             \* an empty item of a comma-separated list

\* A row is a backend's link to a domain; the options schema is the domain's, and is
\* the set of the settings it takes (none while no schema is stored).
ASSUME SpecAssumption ==
    /\ CapabilitiesTTL \in Nat \ {0} /\ ReadMax \in Nat /\ MaxTableEdits \in Nat
    /\ \A v \in DOMAIN Tables : \A d \in Domains : \A r, s \in Tables[v][d] : r.schema = s.schema
    /\ \A v \in DOMAIN Tables : \A d \in Domains : \A r \in Tables[v][d] :
          \A o \in r.outputs : {o} # NotGiven
    /\ \A a \in Asks : a.domain \in Domains /\ a.raw # {}

VARIABLES
    served,      \* the version of the tables
    unserved,    \* per version: ticks since it was last in the tables
    caps,        \* per domain: [rows, age] of its _capabilities entry; no rows if it has none
    submit,      \* per request whose query runs: [at, ask, age, rows]
    decision,    \* what the last step decided, if it did: [ask, age, answer]
    tableEdits

specVars == <<served, unserved, caps, submit, decision, tableEdits>>

NoSubmit == [at |-> "idle", ask |-> NotGiven, age |-> 0, rows |-> {}]
Undecided == [ask |-> NotGiven, age |-> 0, answer |-> "none"]
LongAgo == CapabilitiesTTL + ReadMax
Aging(age) == IF age < LongAgo THEN age + 1 ELSE LongAgo

SpecInit ==
    /\ served \in DOMAIN Tables
    /\ unserved = [v \in DOMAIN Tables |-> IF v = served THEN 0 ELSE LongAgo]
    /\ caps = [d \in Domains |-> [rows |-> {}, age |-> LongAgo]]
    /\ submit = [s \in Submits |-> NoSubmit] /\ decision = Undecided
    /\ tableEdits = 0

\* A backend is added, changed, enabled, disabled or deleted, or a sync rewrites its
\* domains.
EditTables ==
    /\ tableEdits < MaxTableEdits /\ tableEdits' = tableEdits + 1
    /\ served' \in DOMAIN Tables \ {served}
    /\ unserved' = [unserved EXCEPT ![served'] = 0]
    /\ decision' = Undecided /\ UNCHANGED <<caps, submit>>

Reading(s) == submit[s].at \in {"reading", "read"}

SpecTick ==
    /\ \A s \in Submits : Reading(s) => submit[s].age < ReadMax
    /\ unserved' = [v \in DOMAIN Tables |-> IF v = served THEN 0 ELSE Aging(unserved[v])]
    /\ caps' = [d \in Domains |-> [caps[d] EXCEPT !.age = Aging(@)]]
    /\ submit' = [s \in Submits |-> IF Reading(s) THEN [submit[s] EXCEPT !.age = @ + 1] ELSE submit[s]]
    /\ decision' = Undecided /\ UNCHANGED <<served, tableEdits>>

-----------------------------------------------------------------------------
\* The decision

FmtOutputs(fmt) == IF fmt = "multi" THEN {"alto", "txt"} ELSE {fmt}
ParseFails(ask) == ask.raw # NotGiven /\ Blank \in ask.raw
ParseOutputs(ask) == IF ask.raw = NotGiven THEN FmtOutputs(ask.fmt) ELSE ask.raw

CheckScope(key, ask) ==
    /\ key.domains # NotGiven => ask.domain \in key.domains
    /\ key.outputs # NotGiven => ParseOutputs(ask) \subseteq key.outputs

\* _domain_capabilities: the rows of the enabled backends that serve the domain.
Capabilities(version, domain) == {r \in Tables[version][domain] : r.enabled}

OptionsValid(rows, options) == \A r \in rows : options \subseteq r.schema

\* TuzkaM's outputs with coordinates need georeferencing; TuzkaOCR takes anything.
ValidateRequest(adapter, ask) ==
    ~(adapter = "tuzkam" /\ ParseOutputs(ask) \cap {"geojson", "gcp"} # {} /\ "georef off" \in ask.options)

\* adapter_rejection: the request is fine if one of the adapters takes it.
AdapterRejection(adapters, ask) == \A a \in adapters : ~ValidateRequest(a, ask)

\* resolve_job_spec: one backend has to produce all of the outputs, and the adapter of
\* one that does has to take the request.
ResolveJobSpec(rows, ask) ==
    LET able == {r \in rows : ParseOutputs(ask) \subseteq r.outputs}
    IN  able # {} /\ OptionsValid(rows, ask.options) /\ ~AdapterRejection({r.adapter : r \in able}, ask)

Verdict(rows, ask) == IF ResolveJobSpec(rows, ask) THEN "accepted" ELSE "422"

-----------------------------------------------------------------------------
\* POST /jobs, up to its decision

TablesStay == UNCHANGED <<served, unserved, tableEdits>>
Admissible(key, ask) == ~ParseFails(ask) /\ CheckScope(key, ask)
Cached(d) == caps[d].rows # {} /\ caps[d].age < CapabilitiesTTL
Decides(ask, age, rows) == decision' = [ask |-> ask, age |-> age, answer |-> Verdict(rows, ask)]

\* The form does not parse, or the key's scope does not cover it.
RefuseForm(s, ask, key) ==
    /\ submit[s].at = "idle" /\ ~Admissible(key, ask)
    /\ decision' = [ask |-> ask, age |-> 0, answer |-> IF ParseFails(ask) THEN "bad form" ELSE "403"]
    /\ UNCHANGED <<caps, submit>> /\ TablesStay

\* A decision on a cached answer is at most as old as an entry may get.
CapabilitiesHit(s, ask, key) ==
    /\ submit[s].at = "idle" /\ Admissible(key, ask) /\ Cached(ask.domain)
    /\ Decides(ask, CapabilitiesTTL - 1, caps[ask.domain].rows)
    /\ UNCHANGED <<caps, submit>> /\ TablesStay

\* The clock is read, then the tables are asked.
CapabilitiesMiss(s, ask, key) ==
    /\ submit[s].at = "idle" /\ Admissible(key, ask) /\ ~Cached(ask.domain)
    /\ submit' = [submit EXCEPT ![s] = [NoSubmit EXCEPT !.at = "reading", !.ask = ask]]
    /\ decision' = Undecided /\ UNCHANGED caps /\ TablesStay

CapabilitiesRead(s) ==
    /\ submit[s].at = "reading"
    /\ submit' = [submit EXCEPT ![s].at = "read", ![s].rows = Capabilities(served, submit[s].ask.domain)]
    /\ decision' = Undecided /\ UNCHANGED caps /\ TablesStay

\* Only a domain that somebody serves is cached, with the time before the query.
EntryStampedNow(s) == [rows |-> submit[s].rows, age |-> 0]
Entry(s) == [rows |-> submit[s].rows, age |-> submit[s].age]
Stored(s) == IF submit[s].rows = {} THEN caps ELSE [caps EXCEPT ![submit[s].ask.domain] = Entry(s)]
CapabilitiesStore(s) ==
    /\ submit[s].at = "read"
    /\ caps' = Stored(s)
    /\ Decides(submit[s].ask, submit[s].age, submit[s].rows)
    /\ submit' = [submit EXCEPT ![s] = NoSubmit]
    /\ TablesStay

\* GET /domains: the union of what the enabled backends produce, as far as the key goes.
ServedOutputs(version, domain) == UNION {r.outputs : r \in Capabilities(version, domain)}
VisibleOutputs(key, domain, outputs) ==
    IF key.domains # NotGiven /\ domain \notin key.domains THEN {}
    ELSE IF key.outputs = NotGiven THEN outputs ELSE outputs \cap key.outputs
ListDomains(key) == [d \in Domains |-> VisibleOutputs(key, d, ServedOutputs(served, d))]

SpecNext ==
    \/ EditTables \/ SpecTick
    \/ \E s \in Submits :
          \/ CapabilitiesRead(s) \/ CapabilitiesStore(s)
          \/ \E ask \in Asks, key \in Keys :
                RefuseForm(s, ask, key) \/ CapabilitiesHit(s, ask, key) \/ CapabilitiesMiss(s, ask, key)

SpecSpec == SpecInit /\ [][SpecNext]_specVars

-----------------------------------------------------------------------------
\* Types, and what the cache may hold: a domain is cached only with backends, so that
\* names nobody serves cannot fill it.
SpecTypeOK ==
    /\ served \in DOMAIN Tables /\ unserved \in [DOMAIN Tables -> 0..LongAgo]
    /\ tableEdits \in 0..MaxTableEdits
    /\ \A d \in Domains :
          /\ caps[d].age \in 0..LongAgo /\ (caps[d].rows = {} => caps[d].age = LongAgo)
          /\ \A r \in caps[d].rows : r.enabled /\ \E v \in DOMAIN Tables : r \in Tables[v][d]
    /\ \A s \in Submits : submit[s].at \in {"idle", "reading", "read"} /\ submit[s].age \in 0..ReadMax
    /\ decision.answer \in {"none", "bad form", "403", "422", "accepted"}

\* One backend that the dispatcher could give the job to, and whose adapter takes it.
Servable(version, ask) ==
    \E r \in Tables[version][ask.domain] :
        /\ r.enabled /\ ParseOutputs(ask) \subseteq r.outputs
        /\ ask.options \subseteq r.schema /\ ValidateRequest(r.adapter, ask)

\* A decision is never older than the cache allows: whatever the requests interleave
\* with and however slow a query is, a job is accepted only if one enabled backend could
\* take it, and refused only if none could, at some moment of the last
\* CAPABILITIES_TTL_SECONDS or since its own query was sent (job_spec.py:27 promises
\* that a change shows up within seconds).
DecisionIsRecent ==
    decision.answer \in {"accepted", "422"} =>
        \E v \in DOMAIN Tables :
            unserved[v] <= decision.age /\ (Servable(v, decision.ask) <=> decision.answer = "accepted")

\* What is listed can be had: every output GET /domains shows a key, it may submit to
\* that domain alone, and some backend takes it.
ListedIsAccepted ==
    \A key \in Keys : \A d \in Domains : \A o \in ListDomains(key)[d] :
        LET ask == [domain |-> d, fmt |-> "alto", raw |-> {o}, options |-> {}]
        IN  CheckScope(key, ask) /\ ResolveJobSpec(Capabilities(served, d), ask)

\* A submit is judged by what the backends serve, now or a moment ago, and a user who
\* goes by the list of domains is not refused.
SubmitSound == SpecTypeOK /\ DecisionIsRecent /\ ListedIsAccepted
=============================================================================
