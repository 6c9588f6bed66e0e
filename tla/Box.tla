-------------------------------- MODULE Box ---------------------------------
(***************************************************************************)
(* A GPU box that serves OCR only in its up-hours: the scheduler           *)
(* (deploy/box/scheduler/schedule.py) reconciles the box with a weekly     *)
(* schedule, closes the dispatch gate at the end of a window, lets the     *)
(* engine drain and stops it.  The submit worker of the gateway sees the   *)
(* box through its cached health check (app/workers/submit/worker.py), the *)
(* gate (deploy/box/gate/nginx.conf) lets a page in only while it is open, *)
(* and the poller requeues the pages of an engine that does not answer.    *)
(*                                                                         *)
(* A week has DaysPerWeek days of MinutesPerDay minutes; the clock runs    *)
(* round it.  Deadlines are kept as the minutes that are left, ages are    *)
(* capped where nothing depends on more.                                   *)
(***************************************************************************)
EXTENDS Integers, FiniteSets

CONSTANTS
    BoxPages,       \* pages of the gateway that the box can serve
    DaysPerWeek, MinutesPerDay,
    Schedules,      \* the OCR_UP_SCHEDULEs: [word, entries]; an entry has ranges of days,
                    \* a start and an end
    Drain,          \* OCR_DRAIN_MINUTES
    HealthTTL,      \* health_cache_seconds, in minutes
    StopTunnel,     \* OCR_STOP_TUNNEL
    MaxBoxMishaps,  \* failed docker commands, restarts, containers started by hand
    NoDeadline      \* the scheduler has no drain deadline

ASSUME BoxAssumption ==
    /\ {DaysPerWeek, MinutesPerDay} \subseteq Nat \ {0}
    /\ {Drain, HealthTTL, MaxBoxMishaps} \subseteq Nat /\ NoDeadline \notin Nat
    /\ StopTunnel \in BOOLEAN
    /\ \A s \in Schedules :
          /\ s.word \in {"always", "never", "entries"}
          /\ \A e \in s.entries : /\ e.days \subseteq (0..(DaysPerWeek - 1)) \X (0..(DaysPerWeek - 1))
                                  /\ {e.start, e.end} \subseteq Nat

VARIABLES
    text,     \* OCR_UP_SCHEDULE
    windows,  \* cfg.windows of the scheduler
    now,      \* minute of the week
    gate,     \* the flag file exists: the gate is closed
    engine,   \* the engine's container runs
    tunnel,   \* frpc runs
    made,     \* the containers exist (docker compose up)
    left,     \* deadline - now, or NoDeadline
    at,       \* the scheduler's tick: "idle", "starting" or "stopping" (in docker)
    health,   \* the submit worker's cached health check
    hage,     \* its age, up to HealthTTL
    page,     \* per page: "queued", "posted" (past the gate), "running" or "done"
    pageAge,  \* per page: minutes since it passed the gate, up to Drain
    boxMishaps

boxVars == <<text, windows, now, gate, engine, tunnel, made, left, at, boxMishaps>>
boxSystem == <<boxVars, health, hage, page, pageAge>>

Week == DaysPerWeek * MinutesPerDay
Day == now \div MinutesPerDay
Minute == now % MinutesPerDay
Yesterday == (Day + DaysPerWeek - 1) % DaysPerWeek
Reachable == engine /\ tunnel
OnBox == {p \in BoxPages : page[p] \in {"posted", "running"}}

-----------------------------------------------------------------------------
\* The configuration

\* parse_days: inclusive ranges, wrapping through Sunday; a single day is a range too.
ParseDays(ranges) ==
    UNION {{(r[1] + i) % DaysPerWeek : i \in 0..((r[2] - r[1]) % DaysPerWeek)} : r \in ranges}

\* parse_time, and the windows that parse_schedule refuses; an unreadable expression
\* ends the scheduler before it has done anything.
Parses(s) ==
    s.word = "entries" =>
        /\ s.entries # {}
        /\ \A e \in s.entries : {e.start, e.end} \subseteq 0..MinutesPerDay /\ e.start # e.end /\ e.days # {}
ParseSchedule(s) ==
    CASE s.word = "always" -> {[days |-> 0..(DaysPerWeek - 1), start |-> 0, end |-> MinutesPerDay]}
      [] s.word = "never" -> {}
      [] s.word = "entries" -> {[days |-> ParseDays(e.days), start |-> e.start, end |-> e.end] : e \in s.entries}

BoxInit ==
    /\ text \in {s \in Schedules : Parses(s)} /\ windows = ParseSchedule(text)
    /\ now \in 0..(Week - 1)
    /\ gate = FALSE /\ engine = TRUE /\ tunnel = TRUE /\ made = TRUE
    /\ left = NoDeadline /\ at = "idle"
    /\ health = FALSE /\ hage = HealthTTL
    /\ page = [p \in BoxPages |-> "queued"] /\ pageAge = [p \in BoxPages |-> 0]
    /\ boxMishaps = 0

\* A minute passes.
ClockTick ==
    /\ now' = (now + 1) % Week
    /\ left' = IF left \in Nat \ {0} THEN left - 1 ELSE left
    /\ hage' = IF hage < HealthTTL THEN hage + 1 ELSE hage
    /\ pageAge' = [p \in BoxPages |-> IF p \in OnBox /\ pageAge[p] < Drain THEN pageAge[p] + 1 ELSE pageAge[p]]
    /\ UNCHANGED <<text, windows, gate, engine, tunnel, made, at, health, page, boxMishaps>>

-----------------------------------------------------------------------------
\* The scheduler

\* is_up: a window that wraps past midnight has its tail on the day after each
\* listed day.
IsUpNoTail ==
    \E w \in windows :
        IF w.end > w.start
        THEN Day \in w.days /\ w.start <= Minute /\ Minute < w.end
        ELSE Day \in w.days /\ Minute >= w.start
IsUp ==
    \E w \in windows :
        IF w.end > w.start
        THEN Day \in w.days /\ w.start <= Minute /\ Minute < w.end
        ELSE \/ Day \in w.days /\ Minute >= w.start
             \/ Yesterday \in w.days /\ Minute < w.end

\* plan: what a tick does, from what it observes.
PlanStaleDeadline ==
    CASE IsUp -> IF engine /\ ~gate THEN "none" ELSE "start"
      [] ~IsUp /\ ~engine -> IF gate THEN "none" ELSE "close_stop"
      [] ~IsUp /\ engine /\ Drain = 0 -> "close_stop"
      [] ~IsUp /\ engine /\ Drain > 0 ->
            CASE left = NoDeadline -> "close"
              [] left = 0 -> "stop_engine"
              [] OTHER -> "wait"
PlanIgnoresGate ==
    CASE IsUp -> IF engine /\ ~gate THEN "none" ELSE "start"
      [] ~IsUp /\ ~engine -> "none"
      [] ~IsUp /\ engine /\ Drain = 0 -> "close_stop"
      [] ~IsUp /\ engine /\ Drain > 0 ->
            CASE ~gate \/ left = NoDeadline -> "close"
              [] gate /\ left = 0 -> "stop_engine"
              [] OTHER -> "wait"
Plan ==
    CASE IsUp -> IF engine /\ ~gate THEN "none" ELSE "start"
      [] ~IsUp /\ ~engine -> IF gate THEN "none" ELSE "close_stop"
      [] ~IsUp /\ engine /\ Drain = 0 -> "close_stop"
      [] ~IsUp /\ engine /\ Drain > 0 ->
            CASE ~gate \/ left = NoDeadline -> "close"
              [] gate /\ left = 0 -> "stop_engine"
              [] OTHER -> "wait"

\* _start: the gate opens before the containers are started.
TickStart ==
    /\ at = "idle" /\ Plan = "start" /\ made
    /\ gate' = FALSE /\ at' = "starting"
    /\ UNCHANGED <<text, windows, now, engine, tunnel, made, left, health, hage, page, pageAge, boxMishaps>>

DockerStart ==
    /\ at = "starting" /\ at' = "idle"
    /\ engine' = TRUE /\ tunnel' = TRUE /\ left' = NoDeadline
    /\ UNCHANGED <<text, windows, now, gate, made, health, hage, page, pageAge, boxMishaps>>

\* _close: the drain clock starts.
TickClose ==
    /\ at = "idle" /\ Plan = "close"
    /\ gate' = TRUE /\ left' = Drain
    /\ UNCHANGED <<text, windows, now, engine, tunnel, made, at, health, hage, page, pageAge, boxMishaps>>

\* _stop: the gate is closed, and docker stops the containers that were observed.
TickStop ==
    /\ at = "idle" /\ Plan \in {"stop_engine", "close_stop"}
    /\ gate' = TRUE
    /\ IF engine \/ (StopTunnel /\ tunnel)
       THEN at' = "stopping" /\ UNCHANGED left
       ELSE at' = "idle" /\ left' = NoDeadline
    /\ UNCHANGED <<text, windows, now, engine, tunnel, made, health, hage, page, pageAge, boxMishaps>>

DockerStop ==
    /\ at = "stopping" /\ at' = "idle"
    /\ engine' = FALSE /\ tunnel' = (tunnel /\ ~StopTunnel) /\ left' = NoDeadline
    /\ UNCHANGED <<text, windows, now, gate, made, health, hage, page, pageAge, boxMishaps>>

BoxMishap == boxMishaps < MaxBoxMishaps /\ boxMishaps' = boxMishaps + 1

\* A docker command fails: the tick ends there and the next one reconciles again.
DockerFails ==
    /\ BoxMishap /\ at # "idle" /\ at' = "idle"
    /\ UNCHANGED <<text, windows, now, gate, engine, tunnel, made, left, health, hage, page, pageAge>>

\* The scheduler is restarted, in mid-tick or not: only the flag file survives.
SchedulerRestarts ==
    /\ BoxMishap /\ at' = "idle" /\ left' = NoDeadline
    /\ UNCHANGED <<text, windows, now, gate, engine, tunnel, made, health, hage, page, pageAge>>

\* Somebody starts the containers by hand, or takes the box down.
ComposeUp ==
    /\ BoxMishap /\ made' = TRUE /\ engine' = TRUE /\ tunnel' = TRUE
    /\ UNCHANGED <<text, windows, now, gate, left, at, health, hage, page, pageAge>>

ComposeDown ==
    /\ BoxMishap /\ at = "idle" /\ made' = FALSE /\ engine' = FALSE /\ tunnel' = FALSE
    /\ UNCHANGED <<text, windows, now, gate, left, at, health, hage, page, pageAge>>

-----------------------------------------------------------------------------
\* The gateway

\* check_health, when the cached answer is too old; /healthz answers 503 behind a
\* closed gate.
CheckHealth ==
    /\ hage >= HealthTTL
    /\ health' = (Reachable /\ ~gate) /\ hage' = 0
    /\ UNCHANGED <<boxVars, page, pageAge>>

\* A dispatch to a box that was healthy: its POST passes the open gate, or is
\* refused and the page goes back to the queue.
PassGate(p) ==
    /\ page[p] = "queued" /\ health /\ hage < HealthTTL
    /\ Reachable /\ ~gate
    /\ page' = [page EXCEPT ![p] = "posted"]
    /\ pageAge' = [pageAge EXCEPT ![p] = 0]
    /\ UNCHANGED <<boxVars, health, hage>>

\* The engine has the whole upload and takes the page.
EngineAccepts(p) ==
    /\ page[p] = "posted" /\ Reachable
    /\ page' = [page EXCEPT ![p] = "running"]
    /\ UNCHANGED <<boxVars, health, hage, pageAge>>

\* The page is finished and harvested, closed gate or not.
EngineFinishes(p) ==
    /\ page[p] = "running" /\ Reachable
    /\ page' = [page EXCEPT ![p] = "done"]
    /\ UNCHANGED <<boxVars, health, hage, pageAge>>

\* The upload breaks, or the poller finds the engine unreachable and requeues.
Requeue(p) ==
    /\ p \in OnBox /\ ~Reachable
    /\ page' = [page EXCEPT ![p] = "queued"] /\ pageAge' = [pageAge EXCEPT ![p] = 0]
    /\ UNCHANGED <<boxVars, health, hage>>

-----------------------------------------------------------------------------
SchedulerTick == TickStart \/ DockerStart \/ TickClose \/ TickStop \/ DockerStop

BoxNext ==
    \/ ClockTick
    \/ TickStart \/ DockerStart \/ TickClose \/ TickStop \/ DockerStop
    \/ DockerFails \/ SchedulerRestarts \/ ComposeUp \/ ComposeDown
    \/ CheckHealth
    \/ \E p \in BoxPages : PassGate(p) \/ EngineAccepts(p) \/ EngineFinishes(p) \/ Requeue(p)

BoxSpec == BoxInit /\ [][BoxNext]_boxSystem

\* The clock runs and the scheduler's loop goes on; nothing else is needed.
BoxFairSpec == BoxSpec /\ WF_boxSystem(ClockTick) /\ WF_boxSystem(SchedulerTick)

-----------------------------------------------------------------------------
\* The variables keep their types; a drain deadline is never further away than a
\* whole drain.
BoxTypeOK ==
    /\ text \in Schedules /\ now \in 0..(Week - 1)
    /\ {gate, engine, tunnel, made, health} \subseteq BOOLEAN
    /\ left \in 0..Drain \cup {NoDeadline}
    /\ at \in {"idle", "starting", "stopping"}
    /\ hage \in 0..HealthTTL /\ boxMishaps \in 0..MaxBoxMishaps
    /\ page \in [BoxPages -> {"queued", "posted", "running", "done"}]
    /\ pageAge \in [BoxPages -> 0..Drain]

\* The minutes a schedule means: on each day of an entry its window, laid out from the
\* start for as long as it lasts, over the end of the day and of the week.
OnDay(e, d) ==
    \E r \in e.days : IF r[1] <= r[2] THEN r[1] <= d /\ d <= r[2] ELSE d >= r[1] \/ d <= r[2]
Lasts(e) == IF e.end > e.start THEN e.end - e.start ELSE e.end - e.start + MinutesPerDay
Minutes(e) ==
    {(d * MinutesPerDay + e.start + i) % Week :
        d \in {d \in 0..(DaysPerWeek - 1) : OnDay(e, d)}, i \in 0..(Lasts(e) - 1)}
Covered ==
    CASE text.word = "always" -> 0..(Week - 1)
      [] text.word = "never" -> {}
      [] text.word = "entries" -> UNION {Minutes(e) : e \in text.entries}

\* The parsed windows and is_up, which looks at today and yesterday only, agree with
\* what the schedule means in every minute of the week: ranges of days that wrap,
\* windows that wrap past midnight or past Sunday and ones that end at 24:00 included.
UpAsScheduled == IsUp <=> now \in Covered

BoxSound == BoxTypeOK /\ UpAsScheduled

\* When the scheduler stops the engine, every page it cuts off passed the gate at
\* least a whole drain ago: no page is let in shortly before the stop, whatever
\* restarts, failed docker commands and re-opened windows came before.
FullDrain ==
    [][at = "stopping" /\ engine /\ ~engine' /\ Drain > 0
          => \A p \in OnBox : pageAge[p] >= Drain]_boxSystem

\* A box that is never scheduled ends up stopped behind a closed gate, one that
\* always is ends up running behind an open one (or is not there at all).
ObeysSchedule ==
    /\ <>[](text.word = "never") => <>[](gate /\ ~engine)
    /\ <>[](\A t \in 0..(Week - 1) : t \in Covered) => <>[]((~gate /\ engine) \/ ~made)
=============================================================================
