---------------------------- MODULE EventStream -----------------------------
(***************************************************************************)
(* How a user learns that a job has ended: the workers publish an event on *)
(* the user's Redis channel, each WebSocket of the API (app/routers/ws.py) *)
(* first replays the recently finished jobs and then forwards the channel, *)
(* and the client libraries (clients/python, clients/java) call the user   *)
(* back, reconnect, and let the user wait for all jobs or for one batch.   *)
(*                                                                         *)
(* One user, whose clients all get all of the user's events.  A pub/sub    *)
(* message reaches who is subscribed when it is published, nobody else.    *)
(* Whether a connection is let in (the key, the limiter) is the subject of *)
(* ApiCache and RateLimit; here it may take any time.                      *)
(***************************************************************************)
EXTENDS Integers, Sequences, FiniteSets

CONSTANTS
    Clients,           \* client objects of the user
    Java,              \* those of the Java library; the others are Python's
    Jobs,              \* per-page jobs
    Owner,             \* which client submits which job
    NoJob,             \* no event is being handled
    BatchDone,         \* the progress event that counts every page of the batch
    EarlyMax,          \* _FINISHED_EARLY_MAX
    MaxFaults          \* how often a connection drops or a result cannot be fetched

ASSUME EventAssumption ==
    /\ IsFiniteSet(Jobs)
    /\ Java \subseteq Clients /\ Owner \in [Jobs -> Clients]
    /\ NoJob \notin Jobs /\ BatchDone \notin Jobs
    /\ EarlyMax \in Nat \ {0} /\ MaxFaults \in Nat

VARIABLES
    row,      \* jobs.status: "none", "queued", "done" or "failed"
    unsent,   \* finished jobs whose event is not published yet
    recent,   \* finished within ws_catch_up_seconds
    batch,    \* a batch: "none", "running", "finished" (committed) or "told" (published)
    conn,     \* per client: "off" (not started), "down", "accepted", "gap" (caught up), "live"
    snap,     \* per client: the jobs its catch-up query has returned
    missed,   \* per client: the jobs published between its catch-up and its subscribe
    wire,     \* per client: the frames on their way, in order
    hnd,      \* per client: the event whose callback has run and that is not resolved
    sub,      \* per job: its submit call is "todo", "posting", "back" or "never"
    pending,  \* per client: _pending
    early,    \* per client: _finished_early, oldest first
    alldone,  \* per client: _all_done (Python), doneLatch at zero (Java)
    told,     \* per client: the jobs its callbacks were called for
    got,      \* per client: those of them with the outputs, or the error, in hand
    wait,     \* per client: wait() is "idle", "blocked", "returned" or "never"
    waitfor,  \* per client: the jobs submitted when wait() was called
    wb,       \* per client: wait_batch() "idle", "asking", "answered", "asleep", "woken", "returned"
    flag,     \* per client: the event of _batch_waiters is set
    heard,    \* per client: the finished progress event was handled
    faults    \* connections dropped and fetches failed

server == <<row, unsent, recent, batch>>
link == <<conn, snap, missed, wire>>
book == <<pending, early, alldone>>
calls == <<told, got>>
waits == <<wait, waitfor>>
bwait == <<wb, flag, heard>>
vars == <<server, link, hnd, sub, book, calls, waits, bwait, faults>>

Ended(j) == row[j] \in {"done", "failed"}
Items(s) == {s[i] : i \in 1..Len(s)}
\* A frame: what it is about, and whether it carries the presigned URLs.
Frame(j, url) == [job |-> j, url |-> url]

Init ==
    /\ row = [j \in Jobs |-> "none"] /\ unsent = {} /\ recent = {} /\ batch \in {"none", "running"}
    /\ conn \in [Clients -> {"down", "off"}] /\ snap = [c \in Clients |-> {}]
    /\ missed = [c \in Clients |-> {}] /\ wire = [c \in Clients |-> <<>>]
    /\ hnd = [c \in Clients |-> NoJob] /\ sub \in [Jobs -> {"todo", "never"}]
    /\ pending = [c \in Clients |-> {}] /\ early = [c \in Clients |-> <<>>]
    /\ alldone = [c \in Clients |-> FALSE]
    /\ told = [c \in Clients |-> {}] /\ got = [c \in Clients |-> {}]
    /\ wait \in [Clients -> {"idle", "never"}] /\ waitfor = [c \in Clients |-> {}]
    /\ wb \in [Clients -> {"idle", "never"}] /\ flag = [c \in Clients |-> FALSE]
    /\ heard = [c \in Clients |-> FALSE]
    /\ faults = 0

-----------------------------------------------------------------------------
\* The workers and the clock

\* A job ends: its row is committed before its event is published.
Finish(j) ==
    /\ row[j] = "queued"
    /\ \E s \in {"done", "failed"} : row' = [row EXCEPT ![j] = s]
    /\ unsent' = unsent \cup {j} /\ recent' = recent \cup {j}
    /\ UNCHANGED <<batch, link, hnd, sub, book, calls, waits, bwait, faults>>

\* PUBLISH: the sockets that are subscribed forward it, the others never see it.
Sent(frame) == [c \in Clients |-> IF conn[c] = "live" THEN Append(wire[c], frame) ELSE wire[c]]

Publish(j) ==
    /\ j \in unsent
    /\ unsent' = unsent \ {j}
    /\ wire' = Sent(Frame(j, row[j] = "done"))
    /\ missed' = [c \in Clients |-> IF conn[c] = "gap" /\ j \notin snap[c]
                                    THEN missed[c] \cup {j} ELSE missed[c]]
    /\ UNCHANGED <<row, recent, batch, conn, snap, hnd, sub, book, calls, waits, bwait, faults>>

\* The last page of a batch: its transaction finishes the batch, and the progress
\* event of its set_done, which counts every page, follows.
BatchFinish ==
    /\ batch = "running" /\ batch' = "finished"
    /\ UNCHANGED <<row, unsent, recent, link, hnd, sub, book, calls, waits, bwait, faults>>

BatchPublish ==
    /\ batch = "finished" /\ batch' = "told"
    /\ wire' = Sent(Frame(BatchDone, FALSE))
    /\ UNCHANGED <<row, unsent, recent, conn, snap, missed, hnd, sub, book, calls, waits, bwait, faults>>

\* A finished job leaves the catch-up window.  Drops are brief: what a client
\* still waits for is replayed to it before ws_catch_up_seconds have passed.
WindowPasses(j) ==
    /\ j \in recent /\ sub[j] = "back" /\ j \notin pending[Owner[j]]
    /\ recent' = recent \ {j}
    /\ UNCHANGED <<row, unsent, batch, link, hnd, sub, book, calls, waits, bwait, faults>>

-----------------------------------------------------------------------------
\* The WebSocket endpoint

\* The listener connects, again after a pause, once the frames and the callback of
\* the last connection are done with; authentication and limiter let it in.
Connect(c) ==
    /\ conn[c] = "down" /\ wire[c] = <<>> /\ hnd[c] = NoJob
    /\ conn' = [conn EXCEPT ![c] = "accepted"]
    /\ UNCHANGED <<server, snap, missed, wire, hnd, sub, book, calls, waits, bwait, faults>>

\* The catch-up query and its frames, which carry no URLs.
Orders(S) == {s \in [1..Cardinality(S) -> S] : Items(s) = S}
CatchUp(c) ==
    /\ conn[c] = "accepted"
    /\ LET found == {j \in recent : Ended(j)}
       IN  /\ snap' = [snap EXCEPT ![c] = found]
           /\ \E s \in Orders(found) :
                wire' = [wire EXCEPT ![c] = [i \in 1..Len(s) |-> Frame(s[i], FALSE)]]
    /\ missed' = [missed EXCEPT ![c] = {}]
    /\ conn' = [conn EXCEPT ![c] = "gap"]
    /\ UNCHANGED <<server, hnd, sub, book, calls, waits, bwait, faults>>

Subscribe(c) ==
    /\ conn[c] = "gap"
    /\ conn' = [conn EXCEPT ![c] = "live"]
    /\ snap' = [snap EXCEPT ![c] = {}]
    /\ UNCHANGED <<server, missed, wire, hnd, sub, book, calls, waits, bwait, faults>>

\* The connection breaks; the frames still on their way are lost, from any one on.
Drop(c) ==
    /\ conn[c] \notin {"off", "down"} /\ faults < MaxFaults
    /\ faults' = faults + 1
    /\ conn' = [conn EXCEPT ![c] = "down"]
    /\ snap' = [snap EXCEPT ![c] = {}]
    /\ \E n \in 0..Len(wire[c]) : wire' = [wire EXCEPT ![c] = SubSeq(wire[c], 1, n)]
    /\ UNCHANGED <<server, missed, hnd, sub, book, calls, waits, bwait>>

-----------------------------------------------------------------------------
\* The client libraries

\* submit(): the request, and the bookkeeping under the lock once it is answered.
SubmitPost(j) ==
    /\ sub[j] = "todo" /\ row[j] = "none"
    /\ row' = [row EXCEPT ![j] = "queued"]
    /\ sub' = [sub EXCEPT ![j] = "posting"]
    /\ UNCHANGED <<unsent, recent, batch, link, hnd, book, calls, waits, bwait, faults>>

Without(s, j) ==
    LET k == CHOOSE k \in 1..Len(s) : s[k] = j
    IN  [i \in 1..(Len(s) - 1) |-> IF i < k THEN s[i] ELSE s[i + 1]]
Remember(j, done) ==
    LET c == Owner[j]
    IN  /\ sub[j] = "posting" /\ sub' = [sub EXCEPT ![j] = "back"]
        /\ IF j \in Items(early[c])
           THEN /\ early' = [early EXCEPT ![c] = Without(@, j)]
                /\ UNCHANGED <<pending, alldone>>
           ELSE /\ pending' = [pending EXCEPT ![c] = @ \cup {j}]
                /\ alldone' = [alldone EXCEPT ![c] = done]
                /\ UNCHANGED early
        /\ UNCHANGED <<server, link, hnd, calls, waits, bwait, faults>>

SubmitBackUncleared(j) == Owner[j] \notin Java /\ Remember(j, alldone[Owner[j]])
SubmitBack(j) == Owner[j] \notin Java /\ Remember(j, FALSE)
\* Java's doneLatch counts down once and is never set up again.
SubmitBackJava(j) == Owner[j] \in Java /\ Remember(j, alldone[Owner[j]])

\* _handle_event up to the callback: on_error, or the fetches and on_result.  A
\* replayed event has no URL to fetch: the result of a job that is done is empty then.
Callback(c) ==
    /\ wire[c] # <<>> /\ hnd[c] = NoJob /\ Head(wire[c]).job \in Jobs
    /\ LET e == Head(wire[c])
       IN  /\ told' = [told EXCEPT ![c] = @ \cup {e.job}]
           /\ got' = [got EXCEPT ![c] = IF e.url \/ row[e.job] = "failed" THEN @ \cup {e.job} ELSE @]
           /\ hnd' = [hnd EXCEPT ![c] = e.job]
    /\ wire' = [wire EXCEPT ![c] = Tail(@)]
    /\ UNCHANGED <<server, conn, snap, missed, sub, book, waits, bwait, faults>>

\* A fetch fails.  Python leaves the connection for a new one; Java logs the error
\* and goes on with the next frame.
FetchFails(c) ==
    /\ wire[c] # <<>> /\ hnd[c] = NoJob /\ Head(wire[c]).url /\ faults < MaxFaults
    /\ faults' = faults + 1
    /\ UNCHANGED <<server, missed, hnd, sub, book, calls, waits, bwait>>

FetchFailsPython(c) ==
    /\ c \notin Java /\ FetchFails(c)
    /\ conn' = [conn EXCEPT ![c] = "down"]
    /\ snap' = [snap EXCEPT ![c] = {}]
    /\ wire' = [wire EXCEPT ![c] = <<>>]

FetchFailsJava(c) ==
    /\ c \in Java /\ FetchFails(c)
    /\ wire' = [wire EXCEPT ![c] = Tail(@)]
    /\ UNCHANGED <<conn, snap>>

\* _resolve, under the lock: a job that is not pending is remembered, the oldest
\* of more than EarlyMax is forgotten.
Capped(s) == IF Len(s) > EarlyMax THEN Tail(s) ELSE s
ResolveForgetful(c) ==
    /\ hnd[c] # NoJob /\ hnd' = [hnd EXCEPT ![c] = NoJob]
    /\ LET left == pending[c] \ {hnd[c]}
       IN  /\ pending' = [pending EXCEPT ![c] = left]
           /\ alldone' = [alldone EXCEPT ![c] = @ \/ left = {}]
    /\ UNCHANGED <<server, link, sub, early, calls, waits, bwait, faults>>
Resolve(c) ==
    /\ hnd[c] # NoJob /\ hnd' = [hnd EXCEPT ![c] = NoJob]
    /\ LET j == hnd[c]
           left == pending[c] \ {j}
       IN  IF j \in pending[c]
           THEN /\ pending' = [pending EXCEPT ![c] = left]
                /\ alldone' = [alldone EXCEPT ![c] = @ \/ left = {}]
                /\ UNCHANGED early
           ELSE /\ early' = [early EXCEPT ![c] = IF j \in Items(@) THEN @ ELSE Capped(Append(@, j))]
                /\ UNCHANGED <<pending, alldone>>
    /\ UNCHANGED <<server, link, sub, calls, waits, bwait, faults>>

\* A progress event sets the waiter of its batch, if somebody waits.
BatchEvent(c) ==
    /\ wire[c] # <<>> /\ hnd[c] = NoJob /\ Head(wire[c]).job = BatchDone
    /\ wire' = [wire EXCEPT ![c] = Tail(@)]
    /\ flag' = [flag EXCEPT ![c] = wb[c] \notin {"never", "idle", "returned"}]
    /\ heard' = [heard EXCEPT ![c] = TRUE]
    /\ UNCHANGED <<server, conn, snap, missed, hnd, sub, book, calls, waits, wb, faults>>

\* wait(): returns at once with nothing pending, else blocks until _all_done.
WaitCall(c) ==
    /\ wait[c] = "idle"
    /\ wait' = [wait EXCEPT ![c] = IF pending[c] = {} THEN "returned" ELSE "blocked"]
    /\ waitfor' = [waitfor EXCEPT ![c] = {j \in Jobs : Owner[j] = c /\ sub[j] = "back"}]
    /\ UNCHANGED <<server, link, hnd, sub, book, calls, bwait, faults>>

WaitWakes(c) ==
    /\ wait[c] = "blocked" /\ alldone[c]
    /\ wait' = [wait EXCEPT ![c] = "returned"]
    /\ UNCHANGED <<server, link, hnd, sub, book, calls, waitfor, bwait, faults>>

WaitAgain(c) ==
    /\ wait[c] = "returned" /\ wait' = [wait EXCEPT ![c] = "idle"]
    /\ waitfor' = [waitfor EXCEPT ![c] = {}]
    /\ UNCHANGED <<server, link, hnd, sub, book, calls, bwait, faults>>

\* wait_batch(): ask, sleep until the waiter is set or the poll interval is over,
\* clear the waiter, ask again.
BatchCall(c) ==
    /\ batch # "none" /\ wb[c] = "idle" /\ wb' = [wb EXCEPT ![c] = "asking"]
    /\ UNCHANGED <<server, link, hnd, sub, book, calls, waits, flag, heard, faults>>

\* get_batch answers from the row: a batch is finished once its finish is committed,
\* told of or not.
Unfinished == batch = "running"

\* The status is read by the API; the client acts upon it one round trip later.
BatchAsk(c) ==
    /\ wb[c] = "asking"
    /\ wb' = [wb EXCEPT ![c] = IF Unfinished THEN "answered" ELSE "returned"]
    /\ flag' = [flag EXCEPT ![c] = @ /\ Unfinished]
    /\ UNCHANGED <<server, link, hnd, sub, book, calls, waits, heard, faults>>

BatchSleep(c) ==
    /\ wb[c] = "answered" /\ wb' = [wb EXCEPT ![c] = "asleep"]
    /\ UNCHANGED <<server, link, hnd, sub, book, calls, waits, flag, heard, faults>>

\* The waiter is set, or the poll interval is over.
BatchWakes(c) ==
    /\ wb[c] = "asleep" /\ wb' = [wb EXCEPT ![c] = "woken"]
    /\ UNCHANGED <<server, link, hnd, sub, book, calls, waits, flag, heard, faults>>

BatchClear(c) ==
    /\ wb[c] = "woken" /\ wb' = [wb EXCEPT ![c] = "asking"]
    /\ flag' = [flag EXCEPT ![c] = FALSE]
    /\ UNCHANGED <<server, link, hnd, sub, book, calls, waits, heard, faults>>

-----------------------------------------------------------------------------
Socket(c) == Connect(c) \/ CatchUp(c) \/ Subscribe(c)
Listen(c) == Callback(c) \/ Resolve(c) \/ BatchEvent(c)
Batching(c) == BatchAsk(c) \/ BatchSleep(c) \/ BatchWakes(c) \/ BatchClear(c)

Next ==
    \/ BatchFinish \/ BatchPublish
    \/ \E j \in Jobs :
          \/ Finish(j) \/ Publish(j) \/ WindowPasses(j)
          \/ SubmitPost(j) \/ SubmitBack(j) \/ SubmitBackJava(j)
    \/ \E c \in Clients :
          \/ Socket(c) \/ Listen(c) \/ Batching(c)
          \/ Drop(c) \/ FetchFailsPython(c) \/ FetchFailsJava(c)
          \/ WaitCall(c) \/ WaitWakes(c) \/ WaitAgain(c) \/ BatchCall(c)

Spec == Init /\ [][Next]_vars

\* The event loops of the API and of the clients go on, a worker publishes what it
\* has committed and the API answers.  That a job ever ends, a connection drops or
\* the user calls anything is not assumed.
Fairness ==
    /\ WF_vars(BatchPublish)
    /\ \A j \in Jobs : WF_vars(Publish(j)) /\ WF_vars(SubmitBack(j))
    /\ \A c \in Clients :
          /\ WF_vars(Socket(c))
          /\ WF_vars(Listen(c)) /\ WF_vars(Batching(c)) /\ WF_vars(WaitWakes(c))

FairSpec == Spec /\ Fairness

-----------------------------------------------------------------------------
Frames == [job : Jobs, url : BOOLEAN] \cup {Frame(BatchDone, FALSE)}

\* Every variable keeps its type; _finished_early, which replays add to for as long
\* as the client lives, holds each job once and never outgrows its cap.
TypeOK ==
    /\ row \in [Jobs -> {"none", "queued", "done", "failed"}]
    /\ unsent \subseteq Jobs /\ recent \subseteq Jobs
    /\ batch \in {"none", "running", "finished", "told"}
    /\ conn \in [Clients -> {"off", "down", "accepted", "gap", "live"}]
    /\ {snap, missed, pending, told, got, waitfor} \subseteq [Clients -> SUBSET Jobs]
    /\ \A c \in Clients : Items(wire[c]) \subseteq Frames /\ Items(early[c]) \subseteq Jobs
    /\ \A c \in Clients : Len(early[c]) = Cardinality(Items(early[c])) /\ Len(early[c]) <= EarlyMax
    /\ hnd \in [Clients -> Jobs \cup {NoJob}]
    /\ sub \in [Jobs -> {"never", "todo", "posting", "back"}]
    /\ {alldone, flag, heard} \subseteq [Clients -> BOOLEAN]
    /\ wait \in [Clients -> {"never", "idle", "blocked", "returned"}]
    /\ wb \in [Clients -> {"never", "idle", "asking", "answered", "asleep", "woken", "returned"}]
    /\ faults \in 0..MaxFaults

\* When Python's wait() returns, every job whose submit had returned when wait()
\* was called has had its callback: an early result, a replay or another job's
\* result never makes _all_done true too soon, whatever order submit, the event
\* and the callbacks come in.
WaitSound ==
    \A c \in Clients \ Java : wait[c] = "returned" => waitfor[c] \subseteq told[c]

\* wait_batch() never sleeps through the event that ends its batch: once the
\* finished progress event was handled, either the waiter is set or the batch has
\* been asked for since.
NoLostWake ==
    \A c \in Clients : wb[c] \in {"answered", "asleep"} /\ heard[c] => flag[c]

\* Whoever waits is woken neither too soon nor never: wait() by the last result,
\* wait_batch() by the end of its batch.
WaitersSound == TypeOK /\ WaitSound /\ NoLostWake

\* The callback of a Python client's job that has ended comes, and wait() no longer
\* waits for the job, whatever drops, fetch failures, pauses and replays come in
\* between.  That the callback has the result in its hands is not said, see
\* DropLosesNothing; and one case is left out: the event was published between the
\* catch-up query of the client's connection and its subscribe, and the connection
\* has held since.
CallbackComes ==
    \A j \in Jobs :
        Owner[j] \notin Java =>
            (<>[]Ended(j) => []<>\/ j \in told[Owner[j]] /\ sub[j] = "back" /\ j \notin pending[Owner[j]]
                                 \/ j \in missed[Owner[j]])

\* What clients/README.md says of a dropped connection: the results that arrived
\* during the gap are not lost.  A job that its client has crossed off after a drop has
\* had a callback with its result, unless an event of it is still to come.
DropLosesNothing ==
    \A j \in Jobs :
        LET c == Owner[j]
            toCome == j \in unsent \cup {f.job : f \in Items(wire[c])} \cup {hnd[c]}
        IN  faults > 0 /\ sub[j] = "back" /\ j \notin pending[c] /\ ~toCome => j \in got[c]
=============================================================================
