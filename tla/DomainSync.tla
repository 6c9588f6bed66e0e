----------------------------- MODULE DomainSync -----------------------------
(***************************************************************************)
(* What the gateway knows of one backend's capabilities: the engine's      *)
(* describe() is written to backend_domains by a background task of every  *)
(* submit worker (app/services/domain_sync.py), an operator may declare    *)
(* capabilities before the engine has reported any                         *)
(* (app/services/admin_ops.py), and each submit worker dispatches from a   *)
(* snapshot of the table (app/workers/submit/worker.py).                   *)
(*                                                                         *)
(* Postgres is READ COMMITTED: a DELETE waits for another transaction that *)
(* deletes the same rows and then does not see what that one has inserted; *)
(* an INSERT of a (backend, domain) that is there already fails.           *)
(***************************************************************************)
EXTENDS Integers, FiniteSets

CONSTANTS
    Workers,      \* submit workers; two during a rollout
    Reader,       \* the one whose snapshot is followed: no snapshot influences another
    Domains,
    Versions,     \* what the engine may describe, one per release
    Serves,       \* the domains a version serves; their outputs are the version's
    Declared,     \* the domains of backend upsert --declare
    NoLink, ByHand,  \* no row, and a row with source = 'declared'
    Refresh,      \* backend_refresh_seconds in ticks
    MaxChanges    \* releases, outages, registrations and failed syncs

\* Two releases of an engine have a domain in common.
ASSUME SyncAssumption ==
    /\ Serves \in [Versions -> SUBSET Domains \ {{}}]
    /\ \A v, u \in Versions : Serves[v] \cap Serves[u] # {}
    /\ Reader \in Workers /\ Declared \subseteq Domains /\ Refresh \in Nat \ {0} /\ MaxChanges \in Nat
    /\ NoLink # ByHand /\ NoLink \notin Versions /\ ByHand \notin Versions

VARIABLES
    version,  \* what the engine runs
    up,       \* the engine answers /models
    links,    \* backend_domains: per domain no row, a declared row or a version's
    sync,     \* per worker: its sync task: [at, v, gone]
    caps,     \* self.capabilities of Reader
    cage,     \* ticks since its capabilities_loaded_at, up to Refresh
    reading,  \* the result of the query it awaits
    stale,    \* for how many ticks its caps have differed from the table
    changes

syncVars == <<version, up, links, sync, caps, cage, reading, stale, changes>>

Idle == [at |-> "idle", v |-> NoLink, gone |-> {}]
Rows(l) == {d \in Domains : l[d] # NoLink}
EngineRows(l) == {d \in Domains : l[d] \in Versions}
NothingRead == [d \in {} |-> NoLink]
Empty == [d \in Domains |-> NoLink]

SyncInit ==
    /\ version \in Versions /\ up = TRUE
    /\ links = Empty
    /\ sync = [w \in Workers |-> Idle]
    /\ caps = Empty /\ cage = Refresh /\ reading = NothingRead /\ stale = 0
    /\ changes = 0

Change == changes < MaxChanges /\ changes' = changes + 1
\* The snapshot is up to date again, or the clock of its staleness goes on.
Stale(l) == IF caps = l THEN 0 ELSE stale

-----------------------------------------------------------------------------
\* The engine, the operator and the clock

ReleaseEngine ==
    /\ Change /\ \E v \in Versions \ {version} : version' = v
    /\ UNCHANGED <<up, links, sync, caps, cage, reading, stale>>

Outage ==
    /\ Change /\ up' = ~up
    /\ UNCHANGED <<version, links, sync, caps, cage, reading, stale>>

\* apply_declared_capabilities: an upsert per domain that leaves the engine's rows alone.
WithDeclared(l) == [d \in Domains |-> IF d \in Declared /\ l[d] = NoLink THEN ByHand ELSE l[d]]

\* upsert_backend with declared capabilities.  It waits for a sync that has deleted one
\* of the rows.
Declare ==
    /\ Change /\ \A w \in Workers : sync[w].at = "deleted" => sync[w].gone \cap Declared = {}
    /\ links' = WithDeclared(links)
    /\ stale' = Stale(links')
    /\ UNCHANGED <<version, up, sync, caps, cage, reading>>

\* A query takes less than a tick.
SyncTick ==
    /\ reading = NothingRead
    /\ cage' = IF cage < Refresh THEN cage + 1 ELSE Refresh
    /\ stale' = IF caps # links /\ stale <= Refresh THEN stale + 1 ELSE stale
    /\ UNCHANGED <<version, up, links, sync, caps, reading, changes>>

-----------------------------------------------------------------------------
\* sync_domains, at most one task per worker (domain_sync_inflight)

\* describe(): an engine that is down, or says nothing, ends the sync.
Describe(w) ==
    /\ sync[w] = Idle /\ up
    /\ sync' = [sync EXCEPT ![w] = [at |-> "described", v |-> version, gone |-> {}]]
    /\ UNCHANGED <<version, up, links, caps, cage, reading, stale, changes>>

\* The DELETE of apply_domain_sync: first the rows it sees, then their locks.
DeleteSees(w) ==
    /\ sync[w].at = "described"
    /\ sync' = [sync EXCEPT ![w].at = "deleting", ![w].gone = Rows(links)]
    /\ UNCHANGED <<version, up, links, caps, cage, reading, stale, changes>>

Deletes(w) ==
    /\ sync[w].at = "deleting"
    /\ \A u \in Workers : sync[u].at = "deleted" => sync[u].gone \cap sync[w].gone = {}
    /\ sync' = [sync EXCEPT ![w].at = "deleted"]
    /\ UNCHANGED <<version, up, links, caps, cage, reading, stale, changes>>

\* The INSERT of the described rows and the commit, after which the snapshot is due
\* for a reload; a DELETE that waits finds its rows deleted.
DescribedIfUp(v, kept) == [d \in Domains |-> IF up /\ d \in Serves[v] THEN v ELSE kept[d]]
Described(v, kept) == [d \in Domains |-> IF d \in Serves[v] THEN v ELSE kept[d]]
KeptDeclared(w) == [d \in Domains |-> IF d \in sync[w].gone /\ links[d] # ByHand THEN NoLink ELSE links[d]]
Kept(w) == [d \in Domains |-> IF d \in sync[w].gone THEN NoLink ELSE links[d]]
Conflicts(w) == Serves[sync[w].v] \cap Rows(Kept(w)) # {}
CommitFresh(w) == IF w = Reader THEN 0 ELSE cage
CommitDue(w) == IF w = Reader THEN Refresh ELSE cage

SyncCommits(w) ==
    /\ sync[w].at = "deleted" /\ ~Conflicts(w)
    /\ links' = Described(sync[w].v, Kept(w))
    /\ sync' = [u \in Workers |-> IF u = w THEN Idle
                                  ELSE IF sync[u].at = "deleting"
                                       THEN [sync[u] EXCEPT !.gone = @ \ sync[w].gone] ELSE sync[u]]
    /\ cage' = CommitDue(w)
    /\ stale' = Stale(links')
    /\ UNCHANGED <<version, up, caps, reading, changes>>

\* The unique key is violated: the transaction is rolled back, the next health check
\* starts another sync.
SyncConflicts(w) ==
    /\ sync[w].at = "deleted" /\ Conflicts(w)
    /\ sync' = [sync EXCEPT ![w] = Idle]
    /\ UNCHANGED <<version, up, links, caps, cage, reading, stale, changes>>

\* The worker stops, or the database fails: nothing is committed.
SyncFails(w) ==
    /\ Change /\ sync[w] # Idle /\ sync' = [sync EXCEPT ![w] = Idle]
    /\ UNCHANGED <<version, up, links, caps, cage, reading, stale>>

-----------------------------------------------------------------------------
\* served_domains: the query, and what is done with its result

LoadRead ==
    /\ cage >= Refresh /\ reading = NothingRead
    /\ reading' = links
    /\ UNCHANGED <<version, up, links, sync, caps, cage, stale, changes>>

LoadStamp ==
    /\ reading # NothingRead
    /\ caps' = reading /\ cage' = 0 /\ reading' = NothingRead /\ stale' = 0
    /\ UNCHANGED <<version, up, links, sync, changes>>

-----------------------------------------------------------------------------
SyncNext ==
    \/ ReleaseEngine \/ Outage \/ Declare \/ SyncTick \/ LoadRead \/ LoadStamp
    \/ \E w \in Workers :
          \/ Describe(w) \/ DeleteSees(w) \/ Deletes(w)
          \/ SyncCommits(w) \/ SyncConflicts(w) \/ SyncFails(w)

SyncSpec == SyncInit /\ [][SyncNext]_syncVars

\* Every tick of a submit worker checks the health of the backend and so starts the
\* next sync once domain_sync_seconds have passed; its task and its queries go on.
SyncGoesOn(w) == Describe(w) \/ DeleteSees(w) \/ Deletes(w) \/ SyncCommits(w) \/ SyncConflicts(w)
LoadGoesOn == LoadRead \/ LoadStamp
SyncFairness ==
    /\ WF_syncVars(SyncTick) /\ WF_syncVars(LoadGoesOn)
    /\ \A w \in Workers : WF_syncVars(SyncGoesOn(w))

-----------------------------------------------------------------------------
\* The variables keep their types; a sync that has ended has left nothing of itself.
SyncTypeOK ==
    /\ version \in Versions /\ up \in BOOLEAN
    /\ links \in [Domains -> Versions \cup {NoLink, ByHand}]
    /\ \A w \in Workers : /\ sync[w].at \in {"idle", "described", "deleting", "deleted"}
                          /\ sync[w].gone \subseteq Domains
                          /\ sync[w].at = "idle" => sync[w] = Idle
    /\ cage \in 0..Refresh /\ stale \in 0..(Refresh + 1)
    /\ changes \in 0..MaxChanges

\* The engine's rows are those of one describe() in full: syncs of two workers, of
\* two releases, and a registration in between never leave a mixture.
LinksWhole ==
    \/ EngineRows(links) = {}
    \/ \E v \in Versions : EngineRows(links) = Serves[v] /\ \A d \in Serves[v] : links[d] = v

\* What an engine once reported is never forgotten: an outage, a failed sync or a
\* registration leaves its last rows, so that /load can still ask for it.
NeverForgotten == [][EngineRows(links) # {} => EngineRows(links)' # {}]_syncVars

\* A snapshot that is not due for a reload is never staler than the time since it
\* was loaded: what a worker dispatches from is at most Refresh old, even when its own
\* sync commits while the query is on its way.
SnapshotBounded == cage < Refresh => stale <= cage

\* The table holds one describe(), and a worker dispatches from one that is recent.
SyncSound == SyncTypeOK /\ LinksWhole /\ SnapshotBounded

\* Once releases, outages and failures end with the engine up, the engine's
\* rows become its describe() and the worker dispatches from them, for good.
CatchesUp ==
    <>[](changes = MaxChanges /\ up)
        => <>[](/\ \A d \in Serves[version] : links[d] = version
                /\ EngineRows(links) = Serves[version]
                /\ caps = links)
=============================================================================
