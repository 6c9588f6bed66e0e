-------------------------------- MODULE Load --------------------------------
(***************************************************************************)
(* GET /load, what an autoscaler sees of the queue: the load counters of   *)
(* Redis turned into totals, by domain or by the adapter that could serve  *)
(* the work (app/services/load.py, app/routers/load.py and                 *)
(* adapter_capabilities of app/services/domain_sync.py).                   *)
(*                                                                         *)
(* The counters themselves are kept by JobPipeline and repaired by         *)
(* JobLifecycle; between a crash and the repair one may be below zero.     *)
(* This is a pure computation: its inputs are chosen in LoadInit.          *)
(***************************************************************************)
EXTENDS Integers, FiniteSets, Functions

CONSTANTS
    LoadFields,    \* the counter fields: <<domain, outputs>>
    CounterValues, \* what a counter may hold
    AdapterOf,     \* the adapter of each registered backend, enabled or not
    LinkSets,      \* the backend_domains tables: sets of <<backend, domain, outputs>>
    Measured,      \* seconds per page of the domains that have a measurement
    DefaultSpp     \* load.default_seconds_per_page

ASSUME LoadAssumption ==
    /\ CounterValues \subseteq Int /\ DefaultSpp \in Nat \ {0}
    /\ IsFiniteSet(LoadFields) /\ \A f \in LoadFields : f[1] # "any" \* the filter that is not given
    /\ \A d \in DOMAIN Measured : Measured[d] \in Nat \ {0}

VARIABLES
    queued, inflight, \* load:queued and load:inflight: only the fields that exist
    links             \* backend_domains

loadVars == <<queued, inflight, links>>

Hashes == UNION {[S -> CounterValues] : S \in SUBSET LoadFields}
LoadInit == queued \in Hashes /\ inflight \in Hashes /\ links \in LinkSets

-----------------------------------------------------------------------------
\* A total, for the fields of S; _counts reads a missing field as 0.
Value(hash, f) == IF f \in DOMAIN hash THEN hash[f] ELSE 0
Counts == DOMAIN queued \cup DOMAIN inflight
Clamp(n) == IF n < 0 THEN 0 ELSE n
Spp(d) == IF d \in DOMAIN Measured THEN Measured[d] ELSE DefaultSpp

\* _matches: `any` stands for a filter that is not given.
Matches(f, domains, caps) ==
    /\ domains = {"any"} \/ f[1] \in domains
    /\ caps = <<>> \/ \E c \in caps[1] : c[1] = f[1] /\ f[2] \subseteq c[2]

\* compute_load; a negative counter counts as zero, field by field.
ComputeLoadClampedLate(domains, caps) ==
    LET S == {f \in Counts : Matches(f, domains, caps)}
        q == [f \in S |-> Value(queued, f)]
        i == [f \in S |-> Value(inflight, f)]
    IN  [queued |-> Clamp(SumFunction(q)), inflight |-> Clamp(SumFunction(i)),
         backlog |-> SumFunction([f \in S |-> Clamp(q[f] + i[f]) * Spp(f[1])])]
ComputeLoad(domains, caps) ==
    LET S == {f \in Counts : Matches(f, domains, caps)}
        q == [f \in S |-> Clamp(Value(queued, f))]
        i == [f \in S |-> Clamp(Value(inflight, f))]
    IN  [queued |-> SumFunction(q), inflight |-> SumFunction(i),
         backlog |-> SumFunction([f \in S |-> (q[f] + i[f]) * Spp(f[1])])]

\* adapter_capabilities: domain and outputs, the union over the adapter's backends.
AdapterCapabilities(adapter) ==
    LET mine == {l \in links : AdapterOf[l[1]] = adapter}
    IN  {<<d, UNION {l[3] : l \in {m \in mine : m[2] = d}}>> : d \in {l[2] : l \in mine}}

\* group_load, by domain and by adapter.
LoadByDomain(domains) ==
    [d \in {f[1] : f \in {g \in Counts : domains = {"any"} \/ g[1] \in domains}} |-> ComputeLoad({d}, <<>>)]
LoadByAdapter(domains) ==
    [a \in {AdapterOf[l[1]] : l \in links} |-> ComputeLoad(domains, <<AdapterCapabilities(a)>>)]

\* get_load without group_by.
GetLoad(domains, adapter) ==
    ComputeLoad(domains, IF adapter = "any" THEN <<>> ELSE <<AdapterCapabilities(adapter)>>)

-----------------------------------------------------------------------------
Filters == {{"any"}} \cup SUBSET {f[1] : f \in LoadFields}

\* /load grouped by domain adds up to /load itself, with the same filter: no counter,
\* and none below zero, lowers the load of another field.
GroupsAddUp ==
    \A domains \in Filters :
        LET groups == LoadByDomain(domains)
            Total(part) == SumFunction([d \in DOMAIN groups |-> groups[d][part]])
        IN  \A part \in {"queued", "inflight", "backlog"} :
                Total(part) = GetLoad(domains, "any")[part]

\* Demand is never hidden: while pages are counted that some backend of an adapter
\* could serve alone, the adapter's own load has at least their seconds of work, so a
\* workload scaled to zero is asked for again.
DemandSeen ==
    \A l \in links, f \in Counts :
        l[2] = f[1] /\ f[2] \subseteq l[3]
            => \A seen \in {GetLoad({"any"}, AdapterOf[l[1]]), LoadByAdapter({"any"})[AdapterOf[l[1]]]} :
                  seen.backlog >= (Clamp(Value(queued, f)) + Clamp(Value(inflight, f))) * Spp(f[1])

\* The load that an autoscaler reads is all of the load, however it is grouped.
LoadFaithful == GroupsAddUp /\ DemandSeen
=============================================================================
