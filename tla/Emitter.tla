------------------------------ MODULE Emitter -------------------------------
(***************************************************************************)
(* The emitter of job events (app/services/event_emitter.py): a worker or  *)
(* the API puts rows on a bounded queue and never waits; a background task *)
(* posts them to ClickHouse in batches; at shutdown the task is cancelled  *)
(* and what is left is posted within a time limit.  ClickHouse may be down *)
(* or not answer at all.                                                   *)
(*                                                                         *)
(* A row is one event.  A post that fails may have been stored; the        *)
(* emitter never tries again.                                              *)
(***************************************************************************)
EXTENDS Integers, Sequences, FiniteSets

CONSTANTS
    EventRows,    \* the events of the process
    QueueMax,     \* QUEUE_MAX
    BatchRows     \* BATCH_ROWS

ASSUME EmitterAssumption == {QueueMax, BatchRows} \subseteq Nat \ {0}

VARIABLES
    unborn,    \* events that have not happened yet
    queue,     \* _queue
    batch,     \* _batch
    posting,   \* the rows of the _post under way
    runner,    \* _run: "get" (waits for a row), "fill", "post" or "cancelled"
    closing,   \* aclose(): "no", "flush", "flushing" (in _post) or "closed"
    stored,    \* what ClickHouse has, one entry per insert
    dropped,   \* the rows _dropped counts
    cut        \* the rows of a _post that was cancelled

emitterVars == <<unborn, queue, batch, posting, runner, closing, stored, dropped, cut>>

RowsOf(s) == {s[i] : i \in 1..Len(s)}
FirstRows(s, n) == SubSeq(s, 1, IF Len(s) < n THEN Len(s) ELSE n)
AfterRows(s, n) == SubSeq(s, (IF Len(s) < n THEN Len(s) ELSE n) + 1, Len(s))

EmitterInit ==
    /\ unborn = EventRows /\ queue = <<>> /\ batch = <<>> /\ posting = <<>>
    /\ runner = "get" /\ closing = "no"
    /\ stored = <<>> /\ dropped = {} /\ cut = {}

\* emit: never blocks, never raises; a full queue drops the row.
Emit(e) ==
    /\ closing = "no" /\ e \in unborn /\ unborn' = unborn \ {e}
    /\ IF Len(queue) < QueueMax
       THEN queue' = Append(queue, e) /\ UNCHANGED dropped
       ELSE dropped' = dropped \cup {e} /\ UNCHANGED queue
    /\ UNCHANGED <<batch, posting, runner, closing, stored, cut>>

-----------------------------------------------------------------------------
\* _run

\* The first row of a batch, and the others that come within FLUSH_SECONDS.
TakeRow ==
    /\ runner \in {"get", "fill"} /\ Len(batch) < BatchRows /\ queue # <<>>
    /\ batch' = Append(batch, Head(queue)) /\ queue' = Tail(queue) /\ runner' = "fill"
    /\ UNCHANGED <<unborn, posting, closing, stored, dropped, cut>>

\* The batch is full or its time is over.
RunPosts ==
    /\ runner = "fill" /\ posting' = batch /\ batch' = <<>> /\ runner' = "post"
    /\ UNCHANGED <<unborn, queue, closing, stored, dropped, cut>>

\* _post: the insert succeeds, or fails, in time or after ClickHouse has stored it.
Posted(ok, reached) ==
    /\ (ok => reached) /\ posting # <<>> /\ posting' = <<>>
    /\ stored' = IF reached THEN stored \o posting ELSE stored
    /\ dropped' = IF ok THEN dropped ELSE dropped \cup RowsOf(posting)

RunPosted ==
    /\ runner = "post" /\ runner' = "get"
    /\ \E ok, reached \in BOOLEAN : Posted(ok, reached)
    /\ UNCHANGED <<unborn, queue, batch, closing, cut>>

-----------------------------------------------------------------------------
\* aclose

\* The task is cancelled: what it waits for stays where it is, a post under way is
\* given up, stored or not, and its rows are nowhere any more.
CloseRetries ==
    /\ closing = "no" /\ closing' = "flush" /\ runner' = "cancelled"
    /\ batch' = posting \o batch /\ posting' = <<>>
    /\ \E reached \in BOOLEAN : stored' = IF reached THEN stored \o posting ELSE stored
    /\ UNCHANGED <<unborn, queue, dropped, cut>>
Close ==
    /\ closing = "no" /\ closing' = "flush" /\ runner' = "cancelled"
    /\ cut' = cut \cup RowsOf(posting) /\ posting' = <<>>
    /\ \E reached \in BOOLEAN : stored' = IF reached THEN stored \o posting ELSE stored
    /\ UNCHANGED <<unborn, queue, batch, dropped>>

\* flush: the batch the task had begun, then the queue.
FlushBatch ==
    /\ closing = "flush" /\ batch # <<>>
    /\ posting' = batch /\ batch' = <<>> /\ closing' = "flushing"
    /\ UNCHANGED <<unborn, queue, runner, stored, dropped, cut>>

FlushTake ==
    /\ closing = "flush" /\ batch = <<>> /\ queue # <<>>
    /\ posting' = FirstRows(queue, BatchRows) /\ queue' = AfterRows(queue, BatchRows)
    /\ closing' = "flushing"
    /\ UNCHANGED <<unborn, batch, runner, stored, dropped, cut>>

FlushPosted ==
    /\ closing = "flushing" /\ closing' = "flush"
    /\ \E ok, reached \in BOOLEAN : Posted(ok, reached)
    /\ UNCHANGED <<unborn, queue, batch, runner, cut>>

FlushEnds ==
    /\ closing = "flush" /\ batch = <<>> /\ queue = <<>> /\ closing' = "closed"
    /\ UNCHANGED <<unborn, queue, batch, posting, runner, stored, dropped, cut>>

\* CLOSE_TIMEOUT_SECONDS are over: the post is given up, the rest is dropped.
FlushTimeoutIdle ==
    /\ closing = "flush" /\ batch = <<>> /\ closing' = "closed"
    /\ dropped' = dropped \cup RowsOf(queue) /\ queue' = <<>>
    /\ UNCHANGED <<unborn, batch, posting, runner, stored, cut>>
FlushTimeout ==
    /\ closing = "flushing" /\ closing' = "closed"
    /\ cut' = cut \cup RowsOf(posting) /\ posting' = <<>>
    /\ \E reached \in BOOLEAN : stored' = IF reached THEN stored \o posting ELSE stored
    /\ dropped' = dropped \cup RowsOf(queue) /\ queue' = <<>>
    /\ UNCHANGED <<unborn, batch, runner>>

EmitterNext ==
    \/ \E e \in EventRows : Emit(e)
    \/ TakeRow \/ RunPosts \/ RunPosted
    \/ Close \/ FlushBatch \/ FlushTake \/ FlushPosted \/ FlushEnds \/ FlushTimeout

EmitterSpec == EmitterInit /\ [][EmitterNext]_emitterVars

\* The timeout comes, and what does not wait for ClickHouse goes on.
CloseGoesOn == FlushBatch \/ FlushTake \/ FlushEnds \/ FlushTimeout
EmitterFairness == WF_emitterVars(CloseGoesOn)

-----------------------------------------------------------------------------
\* The variables keep their types, the queue and the batch their limits.
EmitterTypeOK ==
    /\ unborn \subseteq EventRows /\ dropped \subseteq EventRows /\ cut \subseteq EventRows
    /\ RowsOf(queue) \cup RowsOf(batch) \cup RowsOf(posting) \cup RowsOf(stored) \subseteq EventRows
    /\ Len(queue) <= QueueMax /\ Len(batch) <= BatchRows /\ Len(posting) <= BatchRows
    /\ runner \in {"get", "fill", "post", "cancelled"}
    /\ closing \in {"no", "flush", "flushing", "closed"}

\* No event is stored twice, whatever fails and however the shutdown cuts into a
\* batch: what may have been posted is never posted again.
StoredOnce == Len(stored) = Cardinality(RowsOf(stored))

\* After the shutdown every event is stored, counted as dropped, or was in a post
\* that was cancelled; none is left behind in the queue or in the task's batch.
NothingLeftBehind ==
    closing = "closed" => EventRows \ unborn \subseteq RowsOf(stored) \cup dropped \cup cut

\* Every event is accounted for once.
EmitterSound == EmitterTypeOK /\ StoredOnce /\ NothingLeftBehind

\* The shutdown ends, whether ClickHouse answers or not: analytics never hold a worker.
CloseEnds == <>[](closing # "no") => <>[](closing = "closed")
=============================================================================
