-------------------------- MODULE WorkerLoopsProofs --------------------------
(***************************************************************************)
(* Theorems about the loops of the workers: the emitter of events          *)
(* (Emitter), the syncs of an engine's capabilities (DomainSync) and the   *)
(* loop of the poller (PollLoop), for any number of events, workers,       *)
(* releases, jobs and faults and any limits.                               *)
(***************************************************************************)
EXTENDS DomainSync, PollLoop, Emitter, FiniteSetTheorems, SequenceTheorems, TLAPS

-----------------------------------------------------------------------------
\* The emitter: rows in sequences.

\* A sequence of events in which none comes twice.
Lines == Seq(EventRows)
Uniq(s) == \A m, n \in 1..Len(s) : s[m] = s[n] => m = n

LEMMA RowsEmpty == RowsOf(<<>>) = {} /\ Uniq(<<>>) /\ <<>> \in Lines /\ Len(<<>>) = 0
BY DEF RowsOf, Uniq, Lines

\* Where a member of a concatenation comes from.
LEMMA SeqConcat ==
    ASSUME NEW S, NEW s \in Seq(S), NEW t \in Seq(S)
    PROVE  /\ s \o t \in Seq(S) /\ Len(s \o t) = Len(s) + Len(t)
           /\ RowsOf(s \o t) = RowsOf(s) \cup RowsOf(t)
           /\ Uniq(s) /\ Uniq(t) /\ RowsOf(s) \cap RowsOf(t) = {} => Uniq(s \o t)
<1>0. /\ Len(s) \in Nat /\ Len(t) \in Nat
      /\ s \o t \in Seq(S) /\ Len(s \o t) = Len(s) + Len(t)
      /\ \A i \in 1..Len(s) + Len(t) : (s \o t)[i] = IF i <= Len(s) THEN s[i] ELSE t[i - Len(s)]
  BY ConcatProperties, LenProperties
<1>1. RowsOf(s) \cup RowsOf(t) \subseteq RowsOf(s \o t)
  <2>1. ASSUME NEW i \in 1..Len(s) PROVE s[i] \in RowsOf(s \o t)
    <3>1. i \in 1..Len(s) + Len(t) /\ (s \o t)[i] = s[i]
      BY <1>0
    <3> QED
      BY <1>0, <3>1 DEF RowsOf
  <2>2. ASSUME NEW i \in 1..Len(t) PROVE t[i] \in RowsOf(s \o t)
    <3>1. Len(s) + i \in 1..Len(s) + Len(t) /\ (s \o t)[Len(s) + i] = t[i]
      BY <1>0
    <3> QED
      BY <1>0, <3>1 DEF RowsOf
  <2> QED
    BY <2>1, <2>2 DEF RowsOf
<1>2. RowsOf(s \o t) \subseteq RowsOf(s) \cup RowsOf(t)
  BY <1>0 DEF RowsOf
<1>3. ASSUME Uniq(s), Uniq(t), RowsOf(s) \cap RowsOf(t) = {} PROVE Uniq(s \o t)
  <2> SUFFICES ASSUME NEW m \in 1..Len(s) + Len(t), NEW n \in 1..Len(s) + Len(t),
                      (s \o t)[m] = (s \o t)[n]
               PROVE  m = n
    BY <1>0 DEF Uniq
  <2>1. CASE m <= Len(s) /\ n <= Len(s)
    BY <1>0, <1>3, <2>1 DEF Uniq
  <2>2. CASE m > Len(s) /\ n > Len(s)
    <3>1. t[m - Len(s)] = t[n - Len(s)] /\ m - Len(s) \in 1..Len(t) /\ n - Len(s) \in 1..Len(t)
      BY <1>0, <2>2
    <3>2. m - Len(s) = n - Len(s)
      BY <1>3, <3>1 DEF Uniq
    <3> QED
      BY <1>0, <3>2
  <2>3. CASE m <= Len(s) /\ n > Len(s)
    <3>1. s[m] = t[n - Len(s)] /\ m \in 1..Len(s) /\ n - Len(s) \in 1..Len(t)
      BY <1>0, <2>3
    <3> QED
      BY <1>3, <3>1 DEF RowsOf
  <2>4. CASE m > Len(s) /\ n <= Len(s)
    <3>1. s[n] = t[m - Len(s)] /\ n \in 1..Len(s) /\ m - Len(s) \in 1..Len(t)
      BY <1>0, <2>4
    <3> QED
      BY <1>3, <3>1 DEF RowsOf
  <2> QED
    BY <1>0, <2>1, <2>2, <2>3, <2>4
<1> QED
  BY <1>0, <1>1, <1>2, <1>3

LEMMA RowsConcat ==
    ASSUME NEW s \in Lines, NEW t \in Lines
    PROVE  /\ s \o t \in Lines /\ Len(s \o t) = Len(s) + Len(t)
           /\ RowsOf(s \o t) = RowsOf(s) \cup RowsOf(t)
           /\ Uniq(s) /\ Uniq(t) /\ RowsOf(s) \cap RowsOf(t) = {} => Uniq(s \o t)
BY SeqConcat DEF Lines

LEMMA RowsOne ==
    ASSUME NEW e \in EventRows
    PROVE  <<e>> \in Lines /\ Len(<<e>>) = 1 /\ RowsOf(<<e>>) = {e} /\ Uniq(<<e>>)
BY DEF Lines, RowsOf, Uniq

\* A sequence in two parts.
LEMMA SeqSplit ==
    ASSUME NEW S, NEW s \in Seq(S), NEW k \in 0..Len(s)
    PROVE  /\ SubSeq(s, 1, k) \in Seq(S) /\ SubSeq(s, k + 1, Len(s)) \in Seq(S)
           /\ Len(SubSeq(s, 1, k)) = k /\ Len(SubSeq(s, k + 1, Len(s))) = Len(s) - k
           /\ \A i \in 1..k : SubSeq(s, 1, k)[i] = s[i]
           /\ \A i \in 1..Len(s) - k : SubSeq(s, k + 1, Len(s))[i] = s[k + i]
           /\ RowsOf(s) = RowsOf(SubSeq(s, 1, k)) \cup RowsOf(SubSeq(s, k + 1, Len(s)))
           /\ Uniq(s) => /\ Uniq(SubSeq(s, 1, k)) /\ Uniq(SubSeq(s, k + 1, Len(s)))
                         /\ RowsOf(SubSeq(s, 1, k)) \cap RowsOf(SubSeq(s, k + 1, Len(s))) = {}
<1>0. Len(s) \in Nat /\ \A i \in 1..Len(s) : s[i] \in S
  BY LenProperties, ElementOfSeq
<1> DEFINE f == SubSeq(s, 1, k)
           a == SubSeq(s, k + 1, Len(s))
<1>1. f \in Seq(S) /\ Len(f) = k /\ \A i \in 1..k : f[i] = s[i]
  BY <1>0, SubSeqProperties
<1>2. a \in Seq(S) /\ Len(a) = Len(s) - k /\ \A i \in 1..Len(s) - k : a[i] = s[k + i]
  BY <1>0, SubSeqProperties
<1> HIDE DEF f, a
<1>3. \A i \in 1..Len(s) : s[i] \in RowsOf(f) \cup RowsOf(a)
  <2> TAKE i \in 1..Len(s)
  <2>1. CASE i <= k
    BY <1>0, <1>1, <2>1 DEF RowsOf
  <2>2. CASE i > k
    <3>1. i - k \in 1..Len(a) /\ a[i - k] = s[i]
      BY <1>0, <1>2, <2>2
    <3> QED
      BY <3>1 DEF RowsOf
  <2> QED
    BY <1>0, <2>1, <2>2
<1>4. RowsOf(f) \subseteq RowsOf(s) /\ RowsOf(a) \subseteq RowsOf(s)
  BY <1>0, <1>1, <1>2 DEF RowsOf
<1>5. RowsOf(s) = RowsOf(f) \cup RowsOf(a)
  BY <1>3, <1>4 DEF RowsOf
<1>6. ASSUME Uniq(s) PROVE Uniq(f) /\ Uniq(a) /\ RowsOf(f) \cap RowsOf(a) = {}
  <2>1. Uniq(f)
    BY <1>0, <1>1, <1>6 DEF Uniq
  <2>2. Uniq(a)
    <3> SUFFICES ASSUME NEW x \in 1..Len(a), NEW y \in 1..Len(a), a[x] = a[y] PROVE x = y
      BY DEF Uniq
    <3>1. k + x \in 1..Len(s) /\ k + y \in 1..Len(s) /\ s[k + x] = s[k + y]
      BY <1>0, <1>2
    <3>2. k + x = k + y
      BY <1>6, <3>1 DEF Uniq
    <3> QED
      BY <1>0, <3>2
  <2>3. ASSUME NEW x \in 1..Len(f), NEW y \in 1..Len(a), f[x] = a[y] PROVE FALSE
    <3>1. x \in 1..Len(s) /\ k + y \in 1..Len(s) /\ s[x] = s[k + y] /\ x <= k /\ y > 0
      BY <1>0, <1>1, <1>2, <2>3
    <3>2. x = k + y
      BY <1>6, <3>1 DEF Uniq
    <3> QED
      BY <1>0, <3>1, <3>2
  <2> QED
    BY <2>1, <2>2, <2>3 DEF RowsOf
<1> QED
  BY <1>0, <1>1, <1>2, <1>5, <1>6 DEF f, a

\* What is taken off the front of a sequence, and what stays.
LEMMA RowsSplit ==
    ASSUME NEW s \in Lines, NEW n \in Nat
    PROVE  /\ FirstRows(s, n) \in Lines /\ AfterRows(s, n) \in Lines
           /\ Len(FirstRows(s, n)) <= n /\ Len(AfterRows(s, n)) <= Len(s)
           /\ RowsOf(s) = RowsOf(FirstRows(s, n)) \cup RowsOf(AfterRows(s, n))
           /\ Uniq(s) => /\ Uniq(FirstRows(s, n)) /\ Uniq(AfterRows(s, n))
                         /\ RowsOf(FirstRows(s, n)) \cap RowsOf(AfterRows(s, n)) = {}
<1> DEFINE k == IF Len(s) < n THEN Len(s) ELSE n
<1>1. Len(s) \in Nat /\ k \in 0..Len(s) /\ k <= n
  BY LenProperties DEF Lines
<1>2. FirstRows(s, n) = SubSeq(s, 1, k) /\ AfterRows(s, n) = SubSeq(s, k + 1, Len(s))
  BY DEF FirstRows, AfterRows
<1> HIDE DEF k
<1>3. s \in Seq(EventRows)
  BY DEF Lines
<1> QED
  BY <1>1, <1>2, <1>3, SeqSplit DEF Lines

\* A row is taken off the head.
LEMMA RowsTail ==
    ASSUME NEW s \in Lines, s # <<>>
    PROVE  /\ Head(s) \in EventRows /\ Tail(s) \in Lines /\ Len(Tail(s)) <= Len(s)
           /\ RowsOf(s) = {Head(s)} \cup RowsOf(Tail(s))
           /\ Uniq(s) => Uniq(Tail(s)) /\ Head(s) \notin RowsOf(Tail(s))
<1>0. /\ Len(s) \in Nat /\ Len(s) >= 1 /\ Head(s) \in EventRows /\ Head(s) = s[1]
      /\ Tail(s) \in Lines /\ Len(Tail(s)) = Len(s) - 1
      /\ \A i \in 1..Len(s) - 1 : Tail(s)[i] = s[i + 1]
  BY HeadTailProperties, LenProperties, EmptySeq DEF Lines
<1>1. \A i \in 1..Len(s) : s[i] \in {Head(s)} \cup RowsOf(Tail(s))
  <2> TAKE i \in 1..Len(s)
  <2>1. CASE i = 1
    BY <1>0, <2>1
  <2>2. CASE i # 1
    <3>1. i - 1 \in 1..Len(Tail(s)) /\ Tail(s)[i - 1] = s[i]
      BY <1>0, <2>2
    <3> QED
      BY <3>1 DEF RowsOf
  <2> QED
    BY <2>1, <2>2
<1>2. {Head(s)} \cup RowsOf(Tail(s)) \subseteq RowsOf(s)
  BY <1>0 DEF RowsOf
<1>3. ASSUME Uniq(s) PROVE Uniq(Tail(s)) /\ Head(s) \notin RowsOf(Tail(s))
  BY <1>0, <1>3 DEF Uniq, RowsOf
<1> QED
  BY <1>0, <1>1, <1>2, <1>3 DEF RowsOf

\* A sequence in which nothing comes twice has as many members as places.
LEMMA UniqCount ==
    ASSUME NEW s \in Lines, Uniq(s)
    PROVE  Len(s) = Cardinality(RowsOf(s))
<1>0. Len(s) \in Nat /\ s \in [1..Len(s) -> EventRows]
  BY LenProperties DEF Lines
<1>1. s \in Bijection(1..Len(s), RowsOf(s))
  <2>1. s \in [1..Len(s) -> RowsOf(s)]
    <3>1. \A i \in 1..Len(s) : s[i] \in RowsOf(s)
      BY DEF RowsOf
    <3> QED
      BY <1>0, <3>1
  <2>2. s \in Injection(1..Len(s), RowsOf(s))
    BY <2>1 DEF Injection, IsInjective, Uniq
  <2>3. s \in Surjection(1..Len(s), RowsOf(s))
    <3>1. \A r \in RowsOf(s) : \E i \in 1..Len(s) : s[i] = r
      BY DEF RowsOf
    <3> QED
      BY <2>1, <3>1 DEF Surjection
  <2> QED
    BY <2>2, <2>3 DEF Bijection
<1>2. IsFiniteSet(1..Len(s)) /\ Cardinality(1..Len(s)) = Len(s)
  BY <1>0, FS_Interval
<1> QED
  BY <1>1, <1>2, FS_Bijection DEF ExistsBijection

-----------------------------------------------------------------------------
\* The emitter: each event is in one place.

\* A task that waits or is over has no rows in its post; a flush begins a post only when
\* the batch is empty; and nothing is left once the emitter is closed.
StepsInv ==
    /\ queue \in Lines /\ batch \in Lines /\ posting \in Lines /\ stored \in Lines
    /\ posting # <<>> => runner = "post" \/ closing = "flushing"
    /\ runner \in {"get", "post"} => batch = <<>>
    /\ closing # "no" <=> runner = "cancelled"
    /\ closing = "flushing" => batch = <<>>
    /\ closing = "closed" => queue = <<>> /\ batch = <<>>

\* No event is in two places, or twice in one, and none is nowhere.
PlacesInv ==
    /\ Uniq(queue) /\ Uniq(batch) /\ Uniq(posting) /\ Uniq(stored)
    /\ unborn \cap (RowsOf(queue) \cup RowsOf(batch) \cup RowsOf(posting) \cup RowsOf(stored)) = {}
    /\ RowsOf(queue) \cap (RowsOf(batch) \cup RowsOf(posting) \cup RowsOf(stored)) = {}
    /\ RowsOf(batch) \cap (RowsOf(posting) \cup RowsOf(stored)) = {}
    /\ RowsOf(posting) \cap RowsOf(stored) = {}
    /\ EventRows \subseteq unborn \cup RowsOf(queue) \cup RowsOf(batch) \cup RowsOf(posting)
                         \cup RowsOf(stored) \cup dropped \cup cut

EmitterInv == EmitterTypeOK /\ StepsInv /\ PlacesInv

\* What a post leaves behind, cut short or not, if it ends with the rows stored or lost.
LEMMA PostEnds ==
    ASSUME EmitterInv, NEW reached \in BOOLEAN,
           stored' = (IF reached THEN stored \o posting ELSE stored)
    PROVE  /\ stored' \in Lines /\ Uniq(stored')
           /\ RowsOf(stored') \subseteq RowsOf(stored) \cup RowsOf(posting)
           /\ RowsOf(stored) \subseteq RowsOf(stored')
           /\ reached => RowsOf(posting) \subseteq RowsOf(stored')
BY RowsConcat DEF EmitterInv, StepsInv, PlacesInv

LEMMA PostedRows ==
    ASSUME EmitterInv, NEW ok \in BOOLEAN, NEW reached \in BOOLEAN, Posted(ok, reached)
    PROVE  /\ posting' = <<>> /\ stored' \in Lines /\ Uniq(stored')
           /\ RowsOf(stored') \subseteq RowsOf(stored) \cup RowsOf(posting)
           /\ RowsOf(stored) \subseteq RowsOf(stored')
           /\ dropped \subseteq dropped' /\ dropped' \subseteq EventRows
           /\ RowsOf(posting) \subseteq RowsOf(stored') \cup dropped'
BY PostEnds DEF Posted, EmitterInv, EmitterTypeOK

LEMMA EmitterInitial == EmitterInit => EmitterInv
BY RowsEmpty, EmitterAssumption DEF EmitterInit, EmitterInv, EmitterTypeOK, StepsInv, PlacesInv

LEMMA EmitterStep == EmitterInv /\ [EmitterNext]_emitterVars => EmitterInv'
<1> SUFFICES ASSUME EmitterInv, [EmitterNext]_emitterVars PROVE EmitterInv'
  OBVIOUS
<1> USE EmitterAssumption DEF EmitterInv, EmitterTypeOK, StepsInv, PlacesInv
<1>0. /\ queue \in Lines /\ batch \in Lines /\ posting \in Lines /\ stored \in Lines
      /\ \A s \in Lines : Len(s) \in Nat
  BY LenProperties DEF Lines
<1>1. ASSUME NEW e \in EventRows, Emit(e) PROVE EmitterInv'
  <2>1. CASE Len(queue) < QueueMax
    <3>1. /\ queue' = queue \o <<e>> /\ unborn' = unborn \ {e} /\ e \in unborn
          /\ UNCHANGED <<batch, posting, runner, closing, stored, dropped, cut>>
          /\ closing = "no"
      <4>1. /\ queue' = Append(queue, e) /\ unborn' = unborn \ {e} /\ e \in unborn
            /\ UNCHANGED <<batch, posting, runner, closing, stored, dropped, cut>>
            /\ closing = "no"
        BY <1>1, <2>1 DEF Emit
      <4>2. Append(queue, e) = queue \o <<e>>
        BY <1>0 DEF Lines
      <4> QED
        BY <4>1, <4>2
    <3>2. /\ queue' \in Lines /\ RowsOf(queue') = RowsOf(queue) \cup {e} /\ Uniq(queue')
          /\ Len(queue') = Len(queue) + 1
      BY <1>0, <3>1, RowsConcat, RowsOne
    <3> QED
      BY <1>0, <2>1, <3>1, <3>2
  <2>2. CASE ~(Len(queue) < QueueMax)
    BY <1>0, <1>1, <2>2 DEF Emit
  <2> QED
    BY <2>1, <2>2
<1>2. CASE TakeRow
  <2>1. /\ batch' = batch \o <<Head(queue)>> /\ queue' = Tail(queue) /\ runner' = "fill"
        /\ UNCHANGED <<unborn, posting, closing, stored, dropped, cut>>
        /\ runner \in {"get", "fill"} /\ Len(batch) < BatchRows /\ queue # <<>>
    BY <1>0, <1>2 DEF TakeRow, Lines
  <2>2. /\ Head(queue) \in EventRows /\ queue' \in Lines /\ Len(queue') <= Len(queue)
        /\ RowsOf(queue) = {Head(queue)} \cup RowsOf(queue') /\ Uniq(queue')
        /\ Head(queue) \notin RowsOf(queue')
    BY <1>0, <2>1, RowsTail
  <2>3. /\ batch' \in Lines /\ RowsOf(batch') = RowsOf(batch) \cup {Head(queue)} /\ Uniq(batch')
        /\ Len(batch') = Len(batch) + 1
    BY <1>0, <2>1, <2>2, RowsConcat, RowsOne
  <2> QED
    BY <1>0, <2>1, <2>2, <2>3
<1>3. CASE RunPosts
  BY <1>0, <1>3, RowsEmpty DEF RunPosts
<1>4. CASE RunPosted
  <2> PICK ok \in BOOLEAN, reached \in BOOLEAN : Posted(ok, reached)
    BY <1>4 DEF RunPosted
  <2> QED
    BY <1>0, <1>4, PostedRows, RowsEmpty DEF RunPosted
<1>5. CASE Close
  <2> PICK reached \in BOOLEAN : stored' = IF reached THEN stored \o posting ELSE stored
    BY <1>5 DEF Close
  <2> QED
    BY <1>0, <1>5, PostEnds, RowsEmpty DEF Close
<1>6. CASE FlushBatch
  BY <1>0, <1>6, RowsEmpty DEF FlushBatch
<1>7. CASE FlushTake
  <2>1. /\ FirstRows(queue, BatchRows) \in Lines /\ AfterRows(queue, BatchRows) \in Lines
        /\ Len(FirstRows(queue, BatchRows)) <= BatchRows
        /\ Len(AfterRows(queue, BatchRows)) <= Len(queue)
        /\ RowsOf(queue) = RowsOf(FirstRows(queue, BatchRows)) \cup RowsOf(AfterRows(queue, BatchRows))
        /\ Uniq(FirstRows(queue, BatchRows)) /\ Uniq(AfterRows(queue, BatchRows))
        /\ RowsOf(FirstRows(queue, BatchRows)) \cap RowsOf(AfterRows(queue, BatchRows)) = {}
    BY <1>0, RowsSplit
  <2> QED
    BY <1>0, <1>7, <2>1, RowsEmpty DEF FlushTake
<1>8. CASE FlushPosted
  <2> PICK ok \in BOOLEAN, reached \in BOOLEAN : Posted(ok, reached)
    BY <1>8 DEF FlushPosted
  <2> QED
    BY <1>0, <1>8, PostedRows, RowsEmpty DEF FlushPosted
<1>9. CASE FlushEnds
  BY <1>0, <1>9 DEF FlushEnds
<1>10. CASE FlushTimeout
  <2> PICK reached \in BOOLEAN : stored' = IF reached THEN stored \o posting ELSE stored
    BY <1>10 DEF FlushTimeout
  <2> QED
    BY <1>0, <1>10, PostEnds, RowsEmpty DEF FlushTimeout
<1>11. CASE UNCHANGED emitterVars
  BY <1>11 DEF emitterVars
<1> QED
  BY <1>1, <1>2, <1>3, <1>4, <1>5, <1>6, <1>7, <1>8, <1>9, <1>10, <1>11 DEF EmitterNext

\* Whatever fails and however a shutdown cuts into a batch, no event is stored twice, and
\* after the shutdown each is stored, counted as dropped or was in the one post that was
\* cancelled (_run, _post, aclose).
THEOREM EmitterAccounts == EmitterSpec => []EmitterSound
<1>1. EmitterInv => EmitterSound
  <2> SUFFICES ASSUME EmitterInv PROVE EmitterSound
    OBVIOUS
  <2>1. EmitterTypeOK
    BY DEF EmitterInv
  <2>2. StoredOnce
    BY UniqCount DEF EmitterInv, StepsInv, PlacesInv, StoredOnce
  <2>3. NothingLeftBehind
    BY RowsEmpty DEF EmitterInv, StepsInv, PlacesInv, NothingLeftBehind
  <2> QED
    BY <2>1, <2>2, <2>3 DEF EmitterSound
<1> QED
  BY <1>1, EmitterInitial, EmitterStep, PTL DEF EmitterSpec
-----------------------------------------------------------------------------
\* Capability syncs: the rows of an engine.

\* A sync that is under way, and what it has seen of the table and locked.
Syncs == [at : {"idle", "described", "deleting", "deleted"},
          v : Versions \cup {NoLink}, gone : SUBSET Domains]
Deleting(w) == sync[w].at \in {"deleting", "deleted"}

\* The rows that a sync is about to delete, or has deleted, are in the table, and are its
\* alone once they are deleted; and they are either all rows of the engine or, after
\* another sync has committed, none of them.
GoneInv ==
    /\ sync \in [Workers -> Syncs] /\ links \in [Domains -> Versions \cup {NoLink, ByHand}]
    /\ \A w \in Workers : sync[w].at # "idle" => sync[w].v \in Versions
    /\ \A w \in Workers : Deleting(w) =>
          /\ sync[w].gone \subseteq Rows(links)
          /\ EngineRows(links) \subseteq sync[w].gone \/ EngineRows(links) \cap sync[w].gone = {}
    /\ \A w, u \in Workers : w # u /\ sync[w].at = "deleted" /\ sync[u].at = "deleted" =>
          sync[w].gone \cap sync[u].gone = {}

SyncInv == SyncTypeOK /\ GoneInv /\ LinksWhole /\ SnapshotBounded

\* A commit without a conflict replaces every row of the engine.
LEMMA CommitReplaces ==
    ASSUME GoneInv, LinksWhole, NEW w \in Workers, SyncCommits(w)
    PROVE  /\ sync[w].v \in Versions /\ links' \in [Domains -> Versions \cup {NoLink, ByHand}]
           /\ EngineRows(links') = Serves[sync[w].v]
           /\ \A d \in Serves[sync[w].v] : links'[d] = sync[w].v
           /\ Rows(links) \ sync[w].gone \subseteq Rows(links')
           /\ (Rows(links) \ sync[w].gone) \cap EngineRows(links') = {}
<1> DEFINE v == sync[w].v
           g == sync[w].gone
<1>0. /\ sync[w].at = "deleted" /\ ~Conflicts(w) /\ v \in Versions /\ g \subseteq Rows(links)
      /\ Serves[v] \subseteq Domains
      /\ links' = [d \in Domains |-> IF d \in Serves[v] THEN v ELSE Kept(w)[d]]
      /\ Kept(w) = [d \in Domains |-> IF d \in g THEN NoLink ELSE links[d]]
  BY SyncAssumption DEF SyncCommits, GoneInv, Deleting, Syncs, Described, Kept
<1>1. \A d \in Domains : links'[d] = IF d \in Serves[v] THEN v
                                     ELSE IF d \in g THEN NoLink ELSE links[d]
  BY <1>0
<1>2. Serves[v] \cap (Rows(links) \ g) = {}
  BY <1>0 DEF Conflicts, Rows
<1>3. EngineRows(links) \subseteq g
  <2>1. CASE EngineRows(links) \cap g = {} /\ EngineRows(links) # {}
    <3>1. PICK u \in Versions : EngineRows(links) = Serves[u]
      BY <2>1 DEF LinksWhole
    <3>2. PICK d \in Serves[v] : d \in EngineRows(links)
      BY <1>0, <3>1, SyncAssumption
    <3>3. d \in Rows(links) \ g
      BY <2>1, <3>2, SyncAssumption DEF EngineRows, Rows
    <3> QED
      BY <1>2, <3>2, <3>3
  <2> QED
    BY <1>0, <2>1 DEF GoneInv, Deleting
<1>4. EngineRows(links') = Serves[v]
  BY <1>0, <1>1, <1>3, SyncAssumption DEF EngineRows
<1>5. links' \in [Domains -> Versions \cup {NoLink, ByHand}]
  <2>1. \A d \in Domains : links'[d] \in Versions \cup {NoLink, ByHand}
    BY <1>0, <1>1 DEF GoneInv
  <2> QED
    BY <1>0, <2>1
<1> QED
  BY <1>0, <1>1, <1>2, <1>4, <1>5, SyncAssumption DEF Rows

LEMMA GoneStep ==
    ASSUME SyncTypeOK, GoneInv, LinksWhole, [SyncNext]_syncVars
    PROVE GoneInv' /\ LinksWhole'
<1> DEFINE Kinds == Versions \cup {NoLink, ByHand}
<1>1. ASSUME links' = links, sync' = sync PROVE GoneInv' /\ LinksWhole'
  BY <1>1 DEF GoneInv, LinksWhole, Deleting
<1>2. ASSUME NEW w \in Workers, links' = links, NEW s \in Syncs, sync' = [sync EXCEPT ![w] = s],
             s.at # "idle" => s.v \in Versions,
             s.at \in {"deleting", "deleted"} =>
                /\ s.gone \subseteq Rows(links)
                /\ EngineRows(links) \subseteq s.gone \/ EngineRows(links) \cap s.gone = {},
             s.at = "deleted" =>
                \A u \in Workers \ {w} : sync[u].at = "deleted" => s.gone \cap sync[u].gone = {}
      PROVE  GoneInv' /\ LinksWhole'
  <2>1. sync'[w] = s /\ \A u \in Workers : u # w => sync'[u] = sync[u]
    BY <1>2 DEF GoneInv
  <2>2. sync' \in [Workers -> Syncs]
    BY <1>2 DEF GoneInv
  <2> QED
    BY <1>2, <2>1, <2>2 DEF GoneInv, LinksWhole, Deleting
<1>3. CASE Declare
  <2>1. /\ sync' = sync
        /\ links' = [d \in Domains |-> IF d \in Declared /\ links[d] = NoLink THEN ByHand ELSE links[d]]
    BY <1>3 DEF Declare, WithDeclared
  <2>2. links' \in [Domains -> Kinds]
    BY <2>1 DEF GoneInv
  <2>3. \A d \in Domains : links'[d] = links[d] \/ (links[d] = NoLink /\ links'[d] = ByHand)
    BY <2>1
  <2>4. EngineRows(links') = EngineRows(links) /\ Rows(links) \subseteq Rows(links')
        /\ \A d \in EngineRows(links) : links'[d] = links[d]
    BY <2>3, SyncAssumption DEF EngineRows, Rows
  <2>5. GoneInv'
    BY <2>1, <2>2, <2>4 DEF GoneInv, Deleting
  <2>6. LinksWhole'
    BY <2>4 DEF LinksWhole
  <2> QED
    BY <2>5, <2>6
<1>4. ASSUME NEW w \in Workers, Describe(w) PROVE GoneInv' /\ LinksWhole'
  <2> DEFINE s == [at |-> "described", v |-> version, gone |-> {}]
  <2>1. links' = links /\ sync' = [sync EXCEPT ![w] = s]
    BY <1>4 DEF Describe
  <2>2. s \in Syncs /\ s.at = "described" /\ s.v \in Versions
    BY DEF SyncTypeOK, Syncs
  <2> HIDE DEF s
  <2> QED
    BY <1>2, <2>1, <2>2
<1>5. ASSUME NEW w \in Workers, DeleteSees(w) PROVE GoneInv' /\ LinksWhole'
  <2> DEFINE seen == Rows(links)
             s == [sync[w] EXCEPT !.at = "deleting", !.gone = seen]
  <2>1. links' = links /\ sync[w].at = "described" /\ sync[w].v \in Versions
        /\ sync' = [sync EXCEPT ![w] = s]
    BY <1>5 DEF DeleteSees, GoneInv
  <2>2. sync[w] \in Syncs /\ seen \in SUBSET Domains
    BY DEF GoneInv, Rows
  <2>3. EngineRows(links) \subseteq seen
    BY SyncAssumption DEF EngineRows, Rows
  <2>4. s \in Syncs /\ s.at = "deleting" /\ s.v = sync[w].v /\ s.gone = seen
    <3> HIDE DEF seen
    <3> QED
      BY <2>2 DEF Syncs
  <2>5. s.gone \subseteq Rows(links) /\ EngineRows(links) \subseteq s.gone
    BY <2>3, <2>4
  <2> HIDE DEF s, seen
  <2> QED
    BY <1>2, <2>1, <2>4, <2>5
<1>6. ASSUME NEW w \in Workers, Deletes(w) PROVE GoneInv' /\ LinksWhole'
  <2> DEFINE s == [at |-> "deleted", v |-> sync[w].v, gone |-> sync[w].gone]
  <2>1. /\ links' = links /\ sync[w].at = "deleting"
        /\ sync' = [sync EXCEPT ![w] = [@ EXCEPT !.at = "deleted"]]
        /\ \A u \in Workers : sync[u].at = "deleted" => sync[u].gone \cap sync[w].gone = {}
    BY <1>6 DEF Deletes
  <2>2. s \in Syncs /\ s.at = "deleted" /\ s.v \in Versions /\ s.gone = sync[w].gone
    BY <2>1 DEF GoneInv, Syncs
  <2>3. [sync[w] EXCEPT !.at = "deleted"] = s
    BY DEF GoneInv, Syncs
  <2>4. sync' = [sync EXCEPT ![w] = s]
    BY <2>1, <2>3
  <2>5. /\ s.gone \subseteq Rows(links)
        /\ EngineRows(links) \subseteq s.gone \/ EngineRows(links) \cap s.gone = {}
    BY <2>1, <2>2 DEF GoneInv, Deleting
  <2> HIDE DEF s
  <2> QED
    BY <1>2, <2>1, <2>2, <2>4, <2>5
<1>7. ASSUME NEW w \in Workers, SyncConflicts(w) \/ SyncFails(w) PROVE GoneInv' /\ LinksWhole'
  <2>1. links' = links /\ sync' = [sync EXCEPT ![w] = Idle]
    BY <1>7 DEF SyncConflicts, SyncFails
  <2>2. Idle \in Syncs /\ Idle.at = "idle"
    BY DEF Idle, Syncs
  <2> QED
    BY <1>2, <2>1, <2>2
<1>8. ASSUME NEW w \in Workers, SyncCommits(w) PROVE GoneInv' /\ LinksWhole'
  <2> DEFINE Less(u) == [at |-> sync[u].at, v |-> sync[u].v, gone |-> sync[u].gone \ sync[w].gone]
  <2>1. /\ sync[w].at = "deleted"
        /\ sync' = [u \in Workers |->
                      IF u = w THEN Idle
                      ELSE IF sync[u].at = "deleting"
                           THEN [sync[u] EXCEPT !.gone = @ \ sync[w].gone] ELSE sync[u]]
    BY <1>8 DEF SyncCommits
  <2>2. \A u \in Workers : /\ u = w => sync'[u] = Idle
                           /\ u # w /\ sync[u].at = "deleting" => sync'[u] = Less(u)
                           /\ u # w /\ sync[u].at # "deleting" => sync'[u] = sync[u]
    BY <2>1 DEF GoneInv, Syncs
  <2>3. \A u \in Workers : sync[u] \in Syncs /\ Less(u) \in Syncs /\ Idle \in Syncs
    BY DEF GoneInv, Syncs, Idle
  <2>4. sync' \in [Workers -> Syncs]
    <3>1. \A u \in Workers : sync'[u] \in Syncs
      BY <2>2, <2>3
    <3> QED
      BY <2>1, <3>1
  <2>5. LinksWhole'
    BY <1>8, CommitReplaces DEF LinksWhole
  <2>6. ASSUME NEW u \in Workers
        PROVE  /\ sync'[u].at # "idle" => sync'[u].v \in Versions
               /\ Deleting(u)' => /\ u # w /\ sync'[u].gone \subseteq sync[u].gone
                                  /\ sync'[u].gone \subseteq Rows(links) \ sync[w].gone
               /\ sync'[u].at = "deleted" => u # w /\ sync[u].at = "deleted" /\ sync'[u] = sync[u]
    <3>1. CASE u = w
      <4>1. sync'[u] = Idle
        BY <2>2, <3>1
      <4>2. Idle.at = "idle"
        BY DEF Idle
      <4> QED
        BY <3>1, <4>1, <4>2 DEF Deleting
    <3>2. CASE u # w /\ sync[u].at = "deleting"
      <4>1. sync'[u] = Less(u)
        BY <2>2, <3>2
      <4>2. sync[u].gone \subseteq Rows(links) /\ sync[u].v \in Versions
        BY <3>2 DEF GoneInv, Deleting
      <4> QED
        BY <3>2, <4>1, <4>2 DEF Deleting
    <3>3. CASE u # w /\ sync[u].at # "deleting"
      <4>1. sync'[u] = sync[u]
        BY <2>2, <3>3
      <4>2. sync[u].at = "deleted" => /\ sync[u].gone \subseteq Rows(links)
                                      /\ sync[u].gone \cap sync[w].gone = {}
        BY <2>1, <3>3 DEF GoneInv, Deleting
      <4> QED
        BY <3>3, <4>1, <4>2 DEF Deleting, GoneInv
    <3> QED
      BY <3>1, <3>2, <3>3
  <2>7. /\ links' \in [Domains -> Kinds]
        /\ Rows(links) \ sync[w].gone \subseteq Rows(links')
        /\ (Rows(links) \ sync[w].gone) \cap EngineRows(links') = {}
    BY <1>8, CommitReplaces
  <2>8. ASSUME NEW u \in Workers, NEW x \in Workers, u # x, sync'[u].at = "deleted",
               sync'[x].at = "deleted"
        PROVE  sync'[u].gone \cap sync'[x].gone = {}
    BY <2>6, <2>8 DEF GoneInv
  <2>9. GoneInv'
    BY <2>4, <2>6, <2>7, <2>8 DEF GoneInv
  <2> QED
    BY <2>5, <2>9
<1>9. CASE UNCHANGED syncVars \/ ReleaseEngine \/ Outage \/ SyncTick \/ LoadRead \/ LoadStamp
  <2>1. links' = links /\ sync' = sync
    BY <1>9 DEF syncVars, ReleaseEngine, Outage, SyncTick, LoadRead, LoadStamp
  <2> QED
    BY <1>1, <2>1
<1> QED
  BY <1>3, <1>4, <1>5, <1>6, <1>7, <1>8, <1>9 DEF SyncNext

\* The clocks.
LEMMA SnapshotStep ==
    ASSUME SyncTypeOK, GoneInv, SnapshotBounded, [SyncNext]_syncVars
    PROVE  /\ SnapshotBounded'
           /\ cage' \in 0..Refresh /\ stale' \in 0..(Refresh + 1) /\ changes' \in 0..MaxChanges
           /\ version' \in Versions /\ up' \in BOOLEAN
<1> USE SyncAssumption DEF SyncTypeOK, SnapshotBounded, Change
<1>1. CASE SyncTick
  BY <1>1 DEF SyncTick
<1>2. CASE LoadStamp
  BY <1>2 DEF LoadStamp
<1>3. CASE Declare
  BY <1>3 DEF Declare, Stale
<1>4. ASSUME NEW w \in Workers, SyncCommits(w)
      PROVE  /\ SnapshotBounded'
             /\ cage' \in 0..Refresh /\ stale' \in 0..(Refresh + 1) /\ changes' \in 0..MaxChanges
             /\ version' \in Versions /\ up' \in BOOLEAN
  <2>1. /\ cage' \in {cage, Refresh} /\ stale' \in {stale, 0}
        /\ changes' = changes /\ version' = version /\ up' = up
    BY <1>4 DEF SyncCommits, CommitDue, Stale
  <2> QED
    BY <2>1
<1>5. CASE ReleaseEngine
  BY <1>5 DEF ReleaseEngine
<1>6. CASE Outage
  BY <1>6 DEF Outage
<1>7. CASE \/ UNCHANGED syncVars \/ LoadRead
           \/ \E w \in Workers : Describe(w) \/ DeleteSees(w) \/ Deletes(w) \/ SyncConflicts(w)
                                 \/ SyncFails(w)
  <2>1. cage' = cage /\ stale' = stale /\ version' = version /\ up' = up
        /\ changes' \in {changes, changes + 1} /\ (changes' = changes \/ changes < MaxChanges)
    BY <1>7 DEF syncVars, LoadRead, Describe, DeleteSees, Deletes, SyncConflicts, SyncFails
  <2> QED
    BY <2>1
<1> QED
  BY <1>1, <1>2, <1>3, <1>4, <1>5, <1>6, <1>7 DEF SyncNext

\* A sync that has ended has left nothing of itself.
LEMMA EndedIsIdle ==
    ASSUME GoneInv, \A w \in Workers : sync[w].at = "idle" => sync[w] = Idle, [SyncNext]_syncVars
    PROVE  \A w \in Workers : sync'[w].at = "idle" => sync'[w] = Idle
<1>1. CASE sync' = sync
  BY <1>1
<1>2. ASSUME NEW w \in Workers,
             Describe(w) \/ DeleteSees(w) \/ Deletes(w) \/ SyncConflicts(w) \/ SyncFails(w)
      PROVE  \A u \in Workers : sync'[u].at = "idle" => sync'[u] = Idle
  <2>1. /\ \A u \in Workers : u # w => sync'[u] = sync[u]
        /\ sync'[w] = Idle \/ sync'[w].at # "idle"
    BY <1>2 DEF Describe, DeleteSees, Deletes, SyncConflicts, SyncFails, GoneInv, Syncs
  <2> QED
    BY <2>1
<1>3. ASSUME NEW w \in Workers, SyncCommits(w)
      PROVE  \A u \in Workers : sync'[u].at = "idle" => sync'[u] = Idle
  BY <1>3 DEF SyncCommits, GoneInv, Syncs
<1> QED
  BY <1>1, <1>2, <1>3 DEF SyncNext, syncVars, ReleaseEngine, Outage, Declare, SyncTick, LoadRead,
     LoadStamp

LEMMA SyncInitial == SyncInit => SyncInv
BY SyncAssumption DEF SyncInit, SyncInv, SyncTypeOK, GoneInv, LinksWhole, SnapshotBounded, Deleting,
   Idle, Empty, Syncs, Rows, EngineRows

LEMMA SyncStep == SyncInv /\ [SyncNext]_syncVars => SyncInv'
<1> SUFFICES ASSUME SyncInv, [SyncNext]_syncVars PROVE SyncInv'
  OBVIOUS
<1>1. GoneInv' /\ LinksWhole'
  BY GoneStep DEF SyncInv
<1>2. /\ SnapshotBounded'
      /\ cage' \in 0..Refresh /\ stale' \in 0..(Refresh + 1) /\ changes' \in 0..MaxChanges
      /\ version' \in Versions /\ up' \in BOOLEAN
  BY SnapshotStep DEF SyncInv
<1>3. \A w \in Workers : sync'[w].at = "idle" => sync'[w] = Idle
  <2>1. GoneInv /\ \A w \in Workers : sync[w].at = "idle" => sync[w] = Idle
    BY DEF SyncInv, SyncTypeOK
  <2> QED
    BY <2>1, EndedIsIdle
<1>4. SyncTypeOK'
  BY <1>1, <1>2, <1>3 DEF SyncTypeOK, GoneInv, Syncs
<1> QED
  BY <1>1, <1>2, <1>4 DEF SyncInv

\* The syncs of several submit workers, of several releases of an engine, and the
\* registrations between them never leave a mixture of two describe() answers, and a
\* worker dispatches from a snapshot no staler than its age (apply_domain_sync,
\* apply_declared_capabilities, served_domains).
THEOREM SyncsAreWhole == SyncSpec => []SyncSound
<1>1. SyncInv => SyncSound
  BY DEF SyncInv, SyncSound
<1> QED
  BY <1>1, SyncInitial, SyncStep, PTL DEF SyncSpec

\* An engine's last report outlives every outage, failed sync and registration
\* (apply_domain_sync deletes and inserts in one transaction).
THEOREM ReportsRemain == SyncSpec => NeverForgotten
<1>1. SyncInv /\ [SyncNext]_syncVars => [EngineRows(links) # {} => EngineRows(links)' # {}]_syncVars
  <2> SUFFICES ASSUME SyncInv, SyncNext, EngineRows(links) # {} PROVE EngineRows(links') # {}
    OBVIOUS
  <2>1. ASSUME NEW w \in Workers, SyncCommits(w) PROVE EngineRows(links') # {}
    <3>1. sync[w].v \in Versions /\ EngineRows(links') = Serves[sync[w].v]
      BY <2>1, CommitReplaces DEF SyncInv
    <3> QED
      BY <3>1, SyncAssumption
  <2>2. CASE Declare
    <3>1. \A d \in EngineRows(links) : links'[d] = links[d]
      BY <2>2, SyncAssumption DEF Declare, WithDeclared, EngineRows
    <3> QED
      BY <3>1 DEF EngineRows
  <2>3. CASE links' = links
    BY <2>3
  <2> QED
    BY <2>1, <2>2, <2>3 DEF SyncNext, ReleaseEngine, Outage, SyncTick, LoadRead, LoadStamp,
       Describe, DeleteSees, Deletes, SyncConflicts, SyncFails
<1> QED
  BY <1>1, SyncInitial, SyncStep, PTL DEF SyncSpec, NeverForgotten

-----------------------------------------------------------------------------
\* The poll loop.

\* The variables that are counters, flags and clocks keep their types.
PollTypes ==
    /\ place \in [Jobs -> {"new", "joined", "inflight", "storing", "ended"}]
    /\ tries \in [Jobs -> 0..RequeueLimit] /\ runs \in [Jobs -> 0..MaxRuns]
    /\ pollIn \in [Jobs -> 0..BackoffMax] /\ gap \in [Jobs -> {0} \cup BackoffInitial..BackoffMax]
    /\ late \in [Jobs -> 0..(PollerTick + 1)] /\ harvestIn \in [Jobs -> 0..HarvestBackoff]
    /\ token \in BOOLEAN /\ skipped \in BOOLEAN /\ stopping \in BOOLEAN
    /\ loop \in {"pass", "harvest", "harvesting", "wait", "drain", "finish", "stopped"}
    /\ soonest \in {NoDeadline} \cup 0..BackoffMax /\ left \in 0..BackoffMax
    /\ task \in {"none", "running", "ended"} /\ todo \subseteq Jobs /\ checks \subseteq Jobs
    /\ asked \in [Jobs -> 0..CheckMax] /\ harvests \subseteq Jobs /\ hage \in 0..CheckMax
    /\ troubles \in 0..MaxTroubles

\* jobs:pending_harvest holds each job that waits for its harvest, and once.
LineInv == line \in Seq(Jobs) /\ Uniq(line) /\ RowsOf(line) = {j \in Jobs : place[j] = "storing"}

\* A job is released to its harvest at most once.
ReleasedInv ==
    released \in Nat /\ released <= Cardinality({j \in Jobs : place[j] \in {"storing", "ended"}})

\* What is under way belongs to a batch that runs or a gather that is waited for; a
\* batch with jobs to begin has its window filled until the poller stops.
BatchInv ==
    /\ task # "running" => checks = {} /\ todo = {}
    /\ todo \cap checks = {} /\ todo \cup checks \subseteq InFlight
    /\ task = "running" /\ ~stopping /\ checks = {} => todo = {}
    /\ loop # "harvesting" => harvests = {}
    /\ \A j \in harvests : place[j] = "storing"
    /\ loop = "stopped" => task # "running"

\* Only a wait with no batch running makes a check late, and by no more than the wait has
\* lasted: the next pass begins all that is due.
LateInv ==
    \A j \in Jobs :
       /\ late[j] > 0 => /\ j \in DueJobs /\ task # "running"
                         /\ loop \notin {"harvest", "harvesting"}
       /\ late[j] <= PollerTick
       /\ loop = "wait" => late[j] + left <= PollerTick

\* Between a look at jobs:inflight and the wake-up, a job that has not been checked yet is
\* in the batch, or was seen with its deadline; else its token is still there.
Watched(j) ==
    \/ task = "running" /\ j \in todo \cup checks
    \/ loop # "wait" /\ soonest # NoDeadline /\ soonest <= pollIn[j]
    \/ loop = "wait" /\ left <= pollIn[j]
WakeInv ==
    loop \in {"harvest", "harvesting", "wait"} /\ ~token /\ ~skipped /\ ~stopping
        => \A j \in Jobs : place[j] = "inflight" /\ gap[j] = 0 => Watched(j)

PollInv == PollTypes /\ LineInv /\ ReleasedInv /\ BatchInv /\ LateInv /\ WakeInv

LEMMA PollConstants ==
    /\ IsFiniteSet(Jobs) /\ Cardinality(Jobs) \in Nat
    /\ PollConcurrency \in Nat /\ PollConcurrency >= 1
    /\ HarvestConcurrency \in Nat /\ HarvestConcurrency >= 1
    /\ PollerTick \in Nat /\ PollerTick >= 1
    /\ BackoffInitial \in Nat /\ BackoffInitial >= 1 /\ BackoffMax \in Nat
    /\ BackoffInitial <= BackoffMax /\ PollerTick <= BackoffInitial
    /\ HarvestBackoff \in Nat /\ CheckMax \in Nat /\ RequeueLimit \in Nat
    /\ MaxRuns \in Nat /\ MaxTroubles \in Nat
<1>1. IsFiniteSet(Jobs)
  BY PollAssumption
<1>2. Cardinality(Jobs) \in Nat
  BY <1>1, FS_CardinalityType
<1>3. {PollConcurrency, HarvestConcurrency, PollerTick, BackoffInitial} \subseteq Nat \ {0}
  BY PollAssumption
<1>4. {BackoffMax, HarvestBackoff, CheckMax, RequeueLimit, MaxRuns, MaxTroubles} \subseteq Nat
  BY PollAssumption
<1>5. BackoffInitial <= BackoffMax /\ PollerTick <= BackoffInitial
  BY PollAssumption
<1> QED
  BY <1>1, <1>2, <1>3, <1>4, <1>5

\* Out of the line ...
LEMMA OutOfLine ==
    ASSUME NEW s \in Seq(Jobs), Uniq(s), NEW j \in RowsOf(s)
    PROVE  /\ Without(s, j) \in Seq(Jobs) /\ Uniq(Without(s, j))
           /\ RowsOf(Without(s, j)) = RowsOf(s) \ {j}
<1> DEFINE k == CHOOSE k \in 1..Len(s) : s[k] = j
<1>1. k \in 1..Len(s) /\ s[k] = j
  BY DEF RowsOf
<1>2. Without(s, j) = SubSeq(s, 1, k - 1) \o SubSeq(s, k + 1, Len(s))
  BY DEF Without
<1> HIDE DEF k
<1>3. Len(s) \in Nat /\ k \in 0..Len(s) /\ k - 1 \in 0..Len(s)
  BY <1>1, LenProperties
<1> DEFINE f == SubSeq(s, 1, k - 1)
           a == SubSeq(s, k + 1, Len(s))
<1>4. f \in Seq(Jobs) /\ Len(f) = k - 1 /\ Uniq(f) /\ \A i \in 1..k - 1 : f[i] = s[i]
  BY <1>3, SeqSplit
<1>5. a \in Seq(Jobs) /\ Len(a) = Len(s) - k /\ Uniq(a) /\ \A i \in 1..Len(s) - k : a[i] = s[k + i]
  BY <1>3, SeqSplit
<1> HIDE DEF f, a
<1>6. ASSUME NEW m \in 1..Len(f), NEW n \in 1..Len(a), f[m] = a[n] PROVE FALSE
  <2>1. m \in 1..Len(s) /\ k + n \in 1..Len(s) /\ s[m] = s[k + n] /\ m < k + n
    BY <1>1, <1>3, <1>4, <1>5, <1>6
  <2> QED
    BY <1>3, <2>1 DEF Uniq
<1>7. j \notin RowsOf(f) \cup RowsOf(a)
  <2>1. ASSUME NEW m \in 1..Len(f), f[m] = j PROVE FALSE
    <3>1. m \in 1..Len(s) /\ s[m] = s[k] /\ m # k
      BY <1>1, <1>3, <1>4, <2>1
    <3> QED
      BY <1>1, <3>1 DEF Uniq
  <2>2. ASSUME NEW n \in 1..Len(a), a[n] = j PROVE FALSE
    <3>1. k + n \in 1..Len(s) /\ s[k + n] = s[k] /\ k + n # k
      BY <1>1, <1>3, <1>5, <2>2
    <3> QED
      BY <1>1, <3>1 DEF Uniq
  <2> QED
    BY <2>1, <2>2 DEF RowsOf
<1>8. RowsOf(s) \ {j} = RowsOf(f) \cup RowsOf(a)
  <2>1. \A i \in 1..Len(s) : s[i] # j => s[i] \in RowsOf(f) \cup RowsOf(a)
    <3> TAKE i \in 1..Len(s)
    <3>1. CASE i < k
      <4>1. i \in 1..Len(f) /\ f[i] = s[i]
        BY <1>3, <1>4, <3>1
      <4> QED
        BY <4>1 DEF RowsOf
    <3>2. CASE i > k
      <4>1. i - k \in 1..Len(a) /\ a[i - k] = s[i]
        BY <1>1, <1>3, <1>5, <3>2
      <4> QED
        BY <4>1 DEF RowsOf
    <3> QED
      BY <1>1, <1>3, <3>1, <3>2
  <2>2. \A i \in 1..Len(f) : f[i] \in RowsOf(s)
    BY <1>1, <1>3, <1>4 DEF RowsOf
  <2>3. \A i \in 1..Len(a) : a[i] \in RowsOf(s)
    <3> TAKE i \in 1..Len(a)
    <3>1. k + i \in 1..Len(s) /\ a[i] = s[k + i]
      BY <1>1, <1>3, <1>5
    <3> QED
      BY <3>1 DEF RowsOf
  <2> QED
    BY <1>7, <2>1, <2>2, <2>3 DEF RowsOf
<1>9. RowsOf(f) \cap RowsOf(a) = {}
  BY <1>6 DEF RowsOf
<1> QED
  <2>1. f \o a \in Seq(Jobs) /\ RowsOf(f \o a) = RowsOf(f) \cup RowsOf(a) /\ Uniq(f \o a)
    BY <1>4, <1>5, <1>9, SeqConcat
  <2>2. Without(s, j) = f \o a
    BY <1>2 DEF f, a
  <2> QED
    BY <1>8, <2>1, <2>2

\* ... and into it, at any score.
LEMMA IntoLine ==
    ASSUME NEW s \in Seq(Jobs), Uniq(s), NEW j \in Jobs, j \notin RowsOf(s), NEW d, Queued(s, j, d)
    PROVE  line' \in Seq(Jobs) /\ Uniq(line') /\ RowsOf(line') = RowsOf(s) \cup {j}
<1> PICK k \in 0..Len(s) : line' = SubSeq(s, 1, k) \o <<j>> \o SubSeq(s, k + 1, Len(s))
  BY DEF Queued
<1> DEFINE f == SubSeq(s, 1, k)
           a == SubSeq(s, k + 1, Len(s))
<1>1. /\ f \in Seq(Jobs) /\ a \in Seq(Jobs) /\ Uniq(f) /\ Uniq(a)
      /\ RowsOf(s) = RowsOf(f) \cup RowsOf(a) /\ RowsOf(f) \cap RowsOf(a) = {}
  BY SeqSplit
<1> DEFINE u == <<j>>
<1>2. line' = (f \o u) \o a
  OBVIOUS
<1>3. u \in Seq(Jobs) /\ RowsOf(u) = {j} /\ Uniq(u)
  BY DEF RowsOf, Uniq
<1> HIDE DEF f, a, u
<1>4. RowsOf(f) \cap RowsOf(u) = {}
  BY <1>1, <1>3
<1>5. f \o u \in Seq(Jobs) /\ RowsOf(f \o u) = RowsOf(f) \cup {j} /\ Uniq(f \o u)
  BY <1>1, <1>3, <1>4, SeqConcat
<1> DEFINE v == f \o u
<1>6. /\ line' = v \o a /\ v \in Seq(Jobs) /\ Uniq(v)
      /\ RowsOf(v) = RowsOf(f) \cup {j} /\ RowsOf(v) \cap RowsOf(a) = {}
  BY <1>1, <1>2, <1>5
<1> HIDE DEF v
<1>7. v \o a \in Seq(Jobs) /\ Uniq(v \o a) /\ RowsOf(v \o a) = RowsOf(v) \cup RowsOf(a)
  BY <1>1, <1>6, SeqConcat
<1> QED
  BY <1>1, <1>6, <1>7

\* What a status check does to its job.
LEMMA CheckCases ==
    ASSUME NEW j \in Jobs, NEW outcomes, CheckGives(j, outcomes)
    PROVE  \/ ProcessDone(j)
           \/ ProcessRunning(j)
           \/ ProcessFailed(j, "fail")
           \/ ProcessFailed(j, "requeue") /\ tries[j] < RequeueLimit
BY DEF CheckGives, Classify

LEMMA DelayBounds ==
    ASSUME PollTypes, NEW j \in Jobs
    PROVE  NextPollDelay(j) \in BackoffInitial..BackoffMax
<1>1. gap[j] \in Nat
  BY PollConstants DEF PollTypes
<1> QED
  BY <1>1, PollConstants DEF NextPollDelay, Higher, Lower

LEMMA CheckTypes ==
    ASSUME PollTypes, NEW j \in Jobs, NEW outcomes, CheckGives(j, outcomes), troubles' \in 0..MaxTroubles
    PROVE  PollTypes'
<1> USE PollConstants DEF PollTypes, Forgotten
<1>1. asked' \in [Jobs -> 0..CheckMax] /\ todo' \subseteq Jobs /\ checks' \subseteq Jobs /\ task' = task
  BY DEF CheckGives, SlotFreed
<1>2. CASE ProcessDone(j)
  BY <1>1, <1>2 DEF ProcessDone
<1>3. CASE ProcessRunning(j)
  <2>1. NextPollDelay(j) \in BackoffInitial..BackoffMax
    BY DelayBounds
  <2> QED
    BY <1>1, <1>3, <2>1 DEF ProcessRunning, loopVars
<1>4. CASE ProcessFailed(j, "fail")
  BY <1>1, <1>4 DEF ProcessFailed, loopVars
<1>5. CASE ProcessFailed(j, "requeue") /\ tries[j] < RequeueLimit
  BY <1>1, <1>5 DEF ProcessFailed, loopVars
<1> QED
  BY <1>2, <1>3, <1>4, <1>5, CheckCases

LEMMA TimeoutBounds ==
    ASSUME PollTypes, LineInv
    PROVE  /\ WaitTimeout \in 0..PollerTick
           /\ soonest # NoDeadline => WaitTimeout <= soonest
<1> USE PollConstants DEF PollTypes, NoDeadline
<1>1. PollTimeout \in 0..PollerTick /\ (soonest # NoDeadline => PollTimeout <= soonest)
  BY DEF PollTimeout, Lower
<1>2. line # <<>> => Head(line) \in Jobs
  BY HeadTailProperties DEF LineInv
<1> QED
  BY <1>1, <1>2 DEF WaitTimeout, Lower

LEMMA PollTypesStep ==
    ASSUME PollTypes, LineInv, ReleasedInv, BatchInv, [PollNext]_pollVars
    PROVE  PollTypes'
<1> USE PollConstants DEF PollTypes, Trouble, timeVars, loopVars, batchVars, NoDeadline
<1>1. CASE PollTick
  <2>1. /\ pollIn' \in [Jobs -> 0..BackoffMax] /\ harvestIn' \in [Jobs -> 0..HarvestBackoff]
        /\ left' \in 0..BackoffMax /\ soonest' \in {NoDeadline} \cup 0..BackoffMax
    BY <1>1 DEF PollTick, Down
  <2>2. late' \in [Jobs -> 0..(PollerTick + 1)]
    BY <1>1 DEF PollTick, Lower
  <2>3. asked' \in [Jobs -> 0..CheckMax] /\ hage' \in 0..CheckMax
    BY <1>1 DEF PollTick
  <2> QED
    BY <1>1, <2>1, <2>2, <2>3 DEF PollTick
<1>2. CASE PassStarts
  <2>1. CASE StartPolls
    <3>1. checks' \subseteq Jobs /\ todo' \subseteq Jobs
      BY <2>1 DEF StartPolls, Filled, DueJobs, InFlight
    <3>2. soonest' \in {NoDeadline} \cup 0..BackoffMax
      BY <2>1 DEF StartPolls, InFlight
    <3>3. late' \in [Jobs -> 0..(PollerTick + 1)]
      BY <2>1 DEF StartPolls
    <3>4. asked' \in [Jobs -> 0..CheckMax]
      BY <2>1 DEF StartPolls
    <3>5. task' \in {"none", "running", "ended"} /\ skipped' \in BOOLEAN
      BY <2>1 DEF StartPolls
    <3> QED
      BY <1>2, <3>1, <3>2, <3>3, <3>4, <3>5 DEF PassStarts
  <2>2. CASE Skip
    BY <1>2, <2>2 DEF PassStarts, Skip
  <2> QED
    BY <1>2, <2>1, <2>2 DEF PassStarts
<1>3. CASE HarvestDue
  <2>1. harvests' \subseteq Jobs
    <3>1. \A i \in 1..Len(line) : line[i] \in Jobs
      BY ElementOfSeq DEF LineInv
    <3>2. Len(line) \in Nat
      BY LenProperties DEF LineInv
    <3>3. RipeFirst \subseteq Jobs
      BY <3>1, <3>2 DEF ReleasedInv, RipeFirst, Lower, HarvestLimit, Higher
    <3> QED
      BY <1>3, <3>3 DEF HarvestDue
  <2> QED
    BY <1>3, <2>1 DEF HarvestDue
<1>4. CASE WaitStarts
  BY <1>4, TimeoutBounds DEF WaitStarts, Waits
<1>5. CASE Wakes \/ DrainTokens \/ LeaveLoop \/ FinishPolls
  <2>1. CASE Wakes
    BY <2>1 DEF Wakes
  <2>2. CASE DrainTokens
    <3>1. token' \in BOOLEAN
      BY <2>2 DEF DrainTokens
    <3>2. left' \in 0..BackoffMax
      BY <2>2 DEF DrainTokens
    <3> QED
      BY <2>2, <3>1, <3>2 DEF DrainTokens
  <2>3. CASE LeaveLoop \/ FinishPolls
    BY <2>3 DEF LeaveLoop, FinishPolls
  <2> QED
    BY <1>5, <2>1, <2>2, <2>3
<1>6. CASE BatchEnds \/ BatchFails \/ StopRequested
  <2>1. CASE BatchEnds
    BY <2>1 DEF BatchEnds
  <2>2. CASE BatchFails
    BY <2>2 DEF BatchFails
  <2>3. CASE StopRequested
    BY <2>3 DEF StopRequested
  <2> QED
    BY <1>6, <2>1, <2>2, <2>3
<1>7. CASE PollerStarts \/ PollerKilled
  <2>1. troubles' \in 0..MaxTroubles
    BY <1>7 DEF PollerStarts, PollerKilled
  <2>2. Fresh
    BY <1>7 DEF PollerStarts, PollerKilled
  <2>3. skipped' \in BOOLEAN /\ stopping' \in BOOLEAN
    BY <2>2 DEF Fresh
  <2>4. left' \in 0..BackoffMax /\ hage' \in 0..CheckMax
    BY <2>2 DEF Fresh
  <2>5. asked' \in [Jobs -> 0..CheckMax]
    BY <2>2 DEF Fresh
  <2> QED
    BY <2>1, <2>2, <2>3, <2>4, <2>5 DEF Fresh
<1>8. ASSUME NEW j \in Jobs, Join(j) \/ SignalPoll(j) PROVE PollTypes'
  <2>1. CASE Join(j)
    BY <2>1 DEF Join
  <2>2. CASE SignalPoll(j)
    BY <2>2 DEF SignalPoll
  <2> QED
    BY <1>8, <2>1, <2>2
<1>9. ASSUME NEW j \in Jobs, HarvestEnds(j) \/ HarvestAgain(j) PROVE PollTypes'
  BY <1>9 DEF HarvestEnds, HarvestAgain
<1>10. ASSUME NEW j \in Jobs, CheckRuns(j) \/ CheckEnds(j) \/ CheckGoesWrong(j) PROVE PollTypes'
  <2>1. troubles' \in 0..MaxTroubles
    BY <1>10 DEF CheckRuns, CheckEnds, CheckGoesWrong
  <2> QED
    BY <1>10, <2>1, CheckTypes DEF CheckRuns, CheckEnds, CheckGoesWrong
<1>11. CASE UNCHANGED pollVars
  BY <1>11 DEF pollVars
<1> QED
  BY <1>1, <1>2, <1>3, <1>4, <1>5, <1>6, <1>7, <1>8, <1>9, <1>10, <1>11 DEF PollNext

\* The line and the places change with a submit, a harvest or a check only.
LEMMA PollMoves ==
    ASSUME [PollNext]_pollVars
    PROVE  \/ UNCHANGED <<line, place>>
           \/ \E j \in Jobs : Join(j) \/ SignalPoll(j)
           \/ \E j \in Jobs : HarvestEnds(j) \/ HarvestAgain(j)
           \/ \E j \in Jobs : CheckGives(j, StillRunning \cup Outcomes \cup BadOutcomes)
BY DEF PollNext, pollVars, PollTick, BatchEnds, BatchFails, StopRequested, PollerKilled, PassStarts,
   HarvestDue, WaitStarts, Waits, Wakes, DrainTokens, LeaveLoop, FinishPolls, PollerStarts, Fresh,
   CheckRuns, CheckEnds, CheckGoesWrong, CheckGives, Classify

LEMMA LineAfter ==
    ASSUME line' \in Seq(Jobs), Uniq(line'), RowsOf(line') = {j \in Jobs : place'[j] = "storing"}
    PROVE  LineInv'
BY DEF LineInv, Uniq, RowsOf

\* The place of a job and the line change together.
LEMMA LineStep ==
    ASSUME PollTypes, LineInv, BatchInv, [PollNext]_pollVars
    PROVE  LineInv'
<1> USE DEF LineInv, PollTypes
<1>1. CASE UNCHANGED <<line, place>>
  BY <1>1, LineAfter
<1>2. ASSUME NEW j \in Jobs, Join(j) \/ SignalPoll(j) PROVE LineInv'
  <2>1. line' = line /\ {i \in Jobs : place'[i] = "storing"} = {i \in Jobs : place[i] = "storing"}
    BY <1>2 DEF Join, SignalPoll
  <2> QED
    BY <2>1, LineAfter
<1>3. ASSUME NEW j \in Jobs, HarvestEnds(j) \/ HarvestAgain(j) PROVE LineInv'
  <2>1. j \in RowsOf(line)
    BY <1>3 DEF HarvestEnds, HarvestAgain, BatchInv
  <2>2. /\ Without(line, j) \in Seq(Jobs) /\ Uniq(Without(line, j))
        /\ RowsOf(Without(line, j)) = RowsOf(line) \ {j}
    BY <2>1, OutOfLine
  <2>3. CASE HarvestEnds(j)
    <3>1. line' = Without(line, j) /\ place' = [place EXCEPT ![j] = "ended"]
      BY <2>3 DEF HarvestEnds
    <3>2. {i \in Jobs : place'[i] = "storing"} = {i \in Jobs : place[i] = "storing"} \ {j}
      BY <3>1
    <3>3. Uniq(line') /\ RowsOf(line') = RowsOf(line) \ {j}
      BY <2>2, <3>1
    <3> QED
      BY <2>2, <3>1, <3>2, <3>3, LineAfter
  <2>4. CASE HarvestAgain(j)
    <3>1. place' = place
      BY <2>4 DEF HarvestAgain
    <3> PICK d \in 0..HarvestBackoff : Queued(Without(line, j), j, d)
      BY <2>4 DEF HarvestAgain
    <3>2. line' \in Seq(Jobs) /\ Uniq(line') /\ RowsOf(line') = RowsOf(Without(line, j)) \cup {j}
      BY <2>2, IntoLine
    <3> QED
      BY <2>1, <2>2, <3>1, <3>2, LineAfter
  <2> QED
    BY <1>3, <2>3, <2>4
<1>4. ASSUME NEW j \in Jobs, NEW outcomes, CheckGives(j, outcomes) PROVE LineInv'
  <2>1. place[j] \in {"joined", "inflight"} /\ j \notin RowsOf(line)
    BY <1>4 DEF CheckGives, SlotFreed, BatchInv, InFlight
  <2>2. CASE ProcessDone(j)
    <3>1. place' = [place EXCEPT ![j] = "storing"] /\ Queued(line, j, 0)
      BY <2>2 DEF ProcessDone
    <3>2. {i \in Jobs : place'[i] = "storing"} = {i \in Jobs : place[i] = "storing"} \cup {j}
      BY <3>1
    <3>3. line' \in Seq(Jobs) /\ Uniq(line') /\ RowsOf(line') = RowsOf(line) \cup {j}
      BY <2>1, <3>1, IntoLine
    <3> QED
      BY <3>2, <3>3, LineAfter
  <2>3. CASE ProcessRunning(j)
    BY <2>3, LineAfter DEF ProcessRunning
  <2>4. ASSUME NEW action, ProcessFailed(j, action) PROVE LineInv'
    <3>1. line' = line /\ {i \in Jobs : place'[i] = "storing"} = {i \in Jobs : place[i] = "storing"}
      BY <2>1, <2>4 DEF ProcessFailed
    <3> QED
      BY <3>1, LineAfter
  <2> QED
    BY <1>4, <2>2, <2>3, <2>4, CheckCases
<1> QED
  BY <1>1, <1>2, <1>3, <1>4, PollMoves

\* The jobs that have been released to their harvest, or ended before it.
Past == {j \in Jobs : place[j] \in {"storing", "ended"}}

LEMMA PastSize == IsFiniteSet(Past) /\ Cardinality(Past) \in Nat /\ Cardinality(Past) <= Cardinality(Jobs)
<1>1. Past \subseteq Jobs
  BY DEF Past
<1>2. IsFiniteSet(Past) /\ Cardinality(Past) <= Cardinality(Jobs)
  BY <1>1, PollConstants, FS_Subset
<1> QED
  BY <1>2, FS_CardinalityType

\* Counted once: the count grows with the set, or starts again.
LEMMA ReleasedStep ==
    ASSUME PollTypes, ReleasedInv, BatchInv, [PollNext]_pollVars
    PROVE  ReleasedInv'
<1> USE DEF PollTypes
<1>0. /\ released \in Nat /\ released <= Cardinality(Past) /\ Cardinality(Past) \in Nat
      /\ IsFiniteSet(Past) /\ IsFiniteSet(Past') /\ Cardinality(Past') \in Nat
  <2>1. Past' \subseteq Jobs
    BY DEF Past
  <2>2. IsFiniteSet(Past')
    BY <2>1, PollConstants, FS_Subset
  <2>3. Cardinality(Past') \in Nat
    BY <2>2, FS_CardinalityType
  <2> QED
    BY <2>2, <2>3, PastSize DEF ReleasedInv, Past
<1>1. ASSUME released' \in {released, 0}, Past \subseteq Past' PROVE ReleasedInv'
  <2>1. Cardinality(Past) <= Cardinality(Past')
    BY <1>0, <1>1, FS_Subset
  <2>2. released' \in Nat /\ released' <= Cardinality(Past')
    BY <1>0, <1>1, <2>1
  <2> QED
    BY <2>2 DEF ReleasedInv, Past
<1>2. ASSUME NEW j \in Jobs, Join(j) \/ SignalPoll(j) \/ HarvestEnds(j) \/ HarvestAgain(j) PROVE ReleasedInv'
  <2>1. released' = released /\ Past \subseteq Past'
    BY <1>2 DEF Join, SignalPoll, HarvestEnds, HarvestAgain, Past, loopVars
  <2> QED
    BY <1>1, <2>1
<1>3. ASSUME NEW j \in Jobs, NEW outcomes, CheckGives(j, outcomes) PROVE ReleasedInv'
  <2>1. j \notin Past
    BY <1>3 DEF CheckGives, SlotFreed, BatchInv, InFlight, Past
  <2>2. CASE ProcessDone(j)
    <3>1. released' = released + 1 /\ Past' = Past \cup {j}
      BY <2>2 DEF ProcessDone, Past
    <3>2. Cardinality(Past \cup {j}) = Cardinality(Past) + 1
      BY <1>0, <2>1, FS_AddElement
    <3>3. released' \in Nat /\ released' <= Cardinality(Past')
      BY <1>0, <3>1, <3>2
    <3> QED
      BY <3>3 DEF ReleasedInv, Past
  <2>3. CASE ProcessRunning(j)
    BY <1>1, <2>3 DEF ProcessRunning, loopVars, Past
  <2>4. ASSUME NEW action, ProcessFailed(j, action) PROVE ReleasedInv'
    <3>1. released' = released /\ Past \subseteq Past'
      BY <2>1, <2>4 DEF ProcessFailed, loopVars, Past
    <3> QED
      BY <1>1, <3>1
  <2> QED
    BY <1>3, <2>2, <2>3, <2>4, CheckCases
<1>4. ASSUME UNCHANGED place, released' \in {released, 0} PROVE ReleasedInv'
  <2>1. Past' = Past
    BY <1>4 DEF Past
  <2> QED
    BY <1>1, <1>4, <2>1
<1> QED
  BY <1>2, <1>3, <1>4 DEF PollNext, pollVars, loopVars, PollTick, BatchEnds, BatchFails, StopRequested,
     PollerKilled, PassStarts, HarvestDue, WaitStarts, Waits, Wakes, DrainTokens, LeaveLoop,
     FinishPolls, PollerStarts, Fresh, CheckRuns, CheckEnds, CheckGoesWrong

\* A window is filled with something when there is something to begin.
LEMMA WindowFilled ==
    ASSUME NEW w \in Filled(DueJobs, {}), w = {}
    PROVE  DueJobs = {}
<1>1. DueJobs \subseteq Jobs
  BY DEF DueJobs, InFlight
<1>2. IsFiniteSet(DueJobs)
  BY <1>1, PollConstants, FS_Subset
<1>3. Cardinality(DueJobs) \in Nat
  BY <1>2, FS_CardinalityType
<1>4. Cardinality(w) = Lower(Cardinality(DueJobs), PollConcurrency) /\ Cardinality(w) = 0
  BY FS_EmptySet DEF Filled
<1>5. Cardinality(DueJobs) = 0
  BY <1>3, <1>4, PollConstants DEF Lower
<1> QED
  BY <1>2, <1>5, FS_EmptySet

\* What _harvest_due takes waits for its harvest.
LEMMA RipeInLine ==
    ASSUME LineInv, ReleasedInv
    PROVE  \A j \in RipeFirst : j \in Jobs /\ place[j] = "storing"
<1>1. Len(line) \in Nat
  BY LenProperties DEF LineInv
<1>2. HarvestLimit \in Nat
  BY PollConstants DEF HarvestLimit, Higher, ReleasedInv
<1>3. RipeFirst \subseteq RowsOf(line)
  BY <1>1, <1>2 DEF RipeFirst, RowsOf, Lower
<1> QED
  BY <1>3 DEF LineInv

LEMMA CheckBatch ==
    ASSUME PollTypes, BatchInv, NEW j \in Jobs, NEW outcomes, CheckGives(j, outcomes)
    PROVE  BatchInv'
<1> USE DEF BatchInv, InFlight
<1>1. /\ task = "running" /\ task' = task /\ j \in checks /\ j \notin todo
      /\ place[j] \in {"joined", "inflight"}
      /\ todo' \subseteq todo /\ checks' \subseteq (checks \cup todo) \ {j}
      /\ todo' \cap checks' = {}
      /\ ~stopping /\ checks' = {} => todo' = {}
  BY DEF CheckGives, SlotFreed
<1>2. /\ loop' = loop /\ harvests' = harvests /\ stopping' = stopping
      /\ \A i \in Jobs \ {j} : place'[i] = place[i]
  <2>1. CASE ProcessDone(j)
    BY <2>1 DEF PollTypes, ProcessDone
  <2>2. CASE ProcessRunning(j)
    BY <2>2 DEF PollTypes, ProcessRunning, loopVars
  <2>3. ASSUME NEW action, ProcessFailed(j, action)
        PROVE  /\ loop' = loop /\ harvests' = harvests /\ stopping' = stopping
               /\ \A i \in Jobs \ {j} : place'[i] = place[i]
    BY <2>3 DEF PollTypes, ProcessFailed, loopVars
  <2> QED
    BY <2>1, <2>2, <2>3, CheckCases
<1>3. j \notin harvests /\ loop # "stopped"
  BY <1>1
<1> QED
  BY <1>1, <1>2, <1>3 DEF PollTypes

LEMMA BatchStep ==
    ASSUME PollTypes, LineInv, ReleasedInv, BatchInv, [PollNext]_pollVars
    PROVE  BatchInv'
<1> USE DEF BatchInv, InFlight, timeVars, loopVars, batchVars
<1>1. CASE PollTick
  BY <1>1 DEF PollTick
<1>2. CASE PassStarts
  <2>1. CASE CollectPolls /\ StartPolls
    <3> PICK w \in Filled(DueJobs, {}) : checks' = w /\ todo' = DueJobs \ w
      BY <2>1 DEF StartPolls
    <3>1. w \subseteq DueJobs /\ (w = {} => DueJobs = {})
      BY WindowFilled DEF Filled
    <3> QED
      BY <1>2, <2>1, <3>1 DEF PassStarts, StartPolls, DueJobs
  <2>2. CASE ~CollectPolls /\ Skip
    BY <1>2, <2>2 DEF PassStarts, Skip, CollectPolls
  <2> QED
    BY <1>2, <2>1, <2>2 DEF PassStarts
<1>3. CASE HarvestDue
  BY <1>3, RipeInLine DEF HarvestDue
<1>4. CASE WaitStarts
  BY <1>4 DEF WaitStarts, Waits
<1>5. CASE Wakes \/ DrainTokens \/ LeaveLoop \/ FinishPolls
  BY <1>5 DEF Wakes, DrainTokens, LeaveLoop, FinishPolls
<1>6. CASE BatchEnds \/ BatchFails \/ StopRequested
  BY <1>6 DEF BatchEnds, BatchFails, StopRequested
<1>7. CASE PollerStarts \/ PollerKilled
  BY <1>7 DEF PollerStarts, PollerKilled, Fresh
<1>8. ASSUME NEW j \in Jobs, Join(j) \/ SignalPoll(j) PROVE BatchInv'
  <2>1. /\ UNCHANGED <<loopVars, batchVars>> /\ place[j] \in {"new", "joined"}
        /\ place'[j] \in {"joined", "inflight"} /\ \A i \in Jobs \ {j} : place'[i] = place[i]
    BY <1>8 DEF Join, SignalPoll, PollTypes
  <2> QED
    BY <2>1 DEF PollTypes
<1>9. ASSUME NEW j \in Jobs, HarvestEnds(j) \/ HarvestAgain(j) PROVE BatchInv'
  <2>1. /\ UNCHANGED <<task, todo, checks, loop, stopping>> /\ harvests' = harvests \ {j}
        /\ place[j] = "storing" /\ \A i \in Jobs \ {j} : place'[i] = place[i]
    BY <1>9 DEF HarvestEnds, HarvestAgain, PollTypes
  <2> QED
    BY <2>1 DEF PollTypes
<1>10. ASSUME NEW j \in Jobs, CheckRuns(j) \/ CheckEnds(j) \/ CheckGoesWrong(j) PROVE BatchInv'
  BY <1>10, CheckBatch DEF CheckRuns, CheckEnds, CheckGoesWrong
<1>11. CASE UNCHANGED pollVars
  BY <1>11 DEF pollVars
<1> QED
  BY <1>1, <1>2, <1>3, <1>4, <1>5, <1>6, <1>7, <1>8, <1>9, <1>10, <1>11 DEF PollNext

\* Time that a due check loses is time of one wait.
LEMMA LateStep ==
    ASSUME PollTypes, LineInv, BatchInv, LateInv, [PollNext]_pollVars
    PROVE  LateInv'
<1> USE PollConstants DEF LateInv, DueJobs, InFlight, timeVars, loopVars, batchVars
<1>0. \A j \in Jobs : late[j] \in Nat /\ pollIn[j] \in Nat /\ left \in Nat
  BY DEF PollTypes
<1>1. CASE PollTick
  <2> SUFFICES ASSUME NEW j \in Jobs
               PROVE  /\ late'[j] > 0 => /\ place'[j] \in {"joined", "inflight"} /\ pollIn'[j] = 0
                                         /\ task' # "running" /\ loop' \notin {"harvest", "harvesting"}
                      /\ late'[j] <= PollerTick
                      /\ loop' = "wait" => late'[j] + left' <= PollerTick
    OBVIOUS
  <2>1. UNCHANGED <<place, task, loop>> /\ left' = Down(left) /\ pollIn'[j] = Down(pollIn[j])
    BY <1>1 DEF PollTick
  <2>2. CASE j \in DueJobs /\ loop = "wait" /\ task # "running"
    <3>1. left > 0 /\ late'[j] = Lower(late[j] + 1, PollerTick + 1)
      BY <1>1, <2>2 DEF PollTick
    <3> QED
      BY <1>0, <2>1, <2>2, <3>1 DEF Lower, Down
  <2>3. CASE ~(j \in DueJobs /\ loop = "wait" /\ task # "running")
    <3>1. late'[j] = late[j]
      BY <1>1, <2>3 DEF PollTick
    <3> QED
      BY <1>0, <2>1, <3>1 DEF Down
  <2> QED
    BY <2>2, <2>3
<1>2. CASE PassStarts
  <2>1. CASE CollectPolls /\ StartPolls
    <3>1. \A j \in Jobs : late'[j] = 0
      BY <1>0, <2>1 DEF StartPolls
    <3> QED
      BY <1>2, <3>1 DEF PassStarts
  <2>2. CASE ~CollectPolls /\ Skip
    <3>1. \A j \in Jobs : late'[j] = 0
      BY <1>0, <2>2 DEF CollectPolls, Skip
    <3> QED
      BY <1>2, <3>1 DEF PassStarts
  <2> QED
    BY <1>2, <2>1, <2>2 DEF PassStarts
<1>3. CASE HarvestDue
  BY <1>0, <1>3 DEF HarvestDue
<1>4. CASE WaitStarts
  <2>1. \A j \in Jobs : late'[j] = 0
    BY <1>0, <1>4 DEF WaitStarts, Waits
  <2>2. left' \in 0..PollerTick
    BY <1>4, TimeoutBounds DEF WaitStarts, Waits
  <2> QED
    BY <2>1, <2>2
<1>5. CASE Wakes \/ DrainTokens \/ LeaveLoop \/ FinishPolls
  BY <1>5 DEF Wakes, DrainTokens, LeaveLoop, FinishPolls
<1>6. CASE BatchEnds
  BY <1>0, <1>6 DEF BatchEnds
<1>7. CASE BatchFails
  BY <1>0, <1>7 DEF BatchFails
<1>8. CASE StopRequested
  BY <1>8 DEF StopRequested
<1>9. CASE PollerStarts \/ PollerKilled
  BY <1>9 DEF PollerStarts, PollerKilled, Fresh
<1>10. ASSUME NEW j \in Jobs, Join(j) PROVE LateInv'
  <2>1. place[j] = "new" /\ late[j] = 0
    BY <1>0, <1>10 DEF Join
  <2>2. \A i \in Jobs \ {j} : place'[i] = place[i] /\ pollIn'[i] = pollIn[i]
    BY <1>10 DEF Join, PollTypes
  <2> QED
    BY <1>10, <2>1, <2>2 DEF Join
<1>11. ASSUME NEW j \in Jobs, SignalPoll(j) PROVE LateInv'
  <2>1. \A i \in Jobs : place[i] \in {"joined", "inflight"} => place'[i] \in {"joined", "inflight"}
    BY <1>11 DEF SignalPoll, PollTypes
  <2> QED
    BY <1>11, <2>1 DEF SignalPoll
<1>12. ASSUME NEW j \in Jobs, HarvestEnds(j) \/ HarvestAgain(j) PROVE LateInv'
  <2>1. UNCHANGED <<late, pollIn, loop, left, task>>
    BY <1>12 DEF HarvestEnds, HarvestAgain
  <2>2. \A i \in Jobs : place[i] \in {"joined", "inflight"} => place'[i] \in {"joined", "inflight"}
    BY <1>12 DEF HarvestEnds, HarvestAgain, BatchInv, PollTypes
  <2> QED
    BY <2>1, <2>2
<1>13. ASSUME NEW j \in Jobs, NEW outcomes, CheckGives(j, outcomes) PROVE LateInv'
  <2>1. task = "running"
    BY <1>13 DEF CheckGives, SlotFreed, BatchInv
  <2>2. late' = late /\ left' = left
    BY <1>13, CheckCases DEF ProcessDone, ProcessRunning, ProcessFailed
  <2>3. \A i \in Jobs : late'[i] = 0
    BY <1>0, <2>1, <2>2
  <2>4. left <= PollerTick \/ loop # "wait" \/ Jobs = {}
    BY <1>0
  <2>5. loop' = loop
    BY <1>13, CheckCases DEF ProcessDone, ProcessRunning, ProcessFailed
  <2> QED
    BY <1>0, <2>2, <2>3, <2>4, <2>5
<1>14. CASE UNCHANGED pollVars
  BY <1>14 DEF pollVars
<1> QED
  BY <1>1, <1>2, <1>3, <1>4, <1>5, <1>6, <1>7, <1>8, <1>9, <1>10, <1>11, <1>12, <1>13, <1>14
     DEF PollNext, CheckRuns, CheckEnds, CheckGoesWrong

\* No job that an engine has just taken is overlooked by a sleep.
LEMMA WakeStep ==
    ASSUME PollTypes, LineInv, BatchInv, WakeInv, [PollNext]_pollVars
    PROVE  WakeInv'
<1> USE DEF WakeInv, Watched, timeVars, loopVars, batchVars
<1>0. /\ \A j \in Jobs : pollIn[j] \in Nat
      /\ left \in Nat /\ soonest \in {NoDeadline} \cup Nat /\ NoDeadline = -1
  BY PollConstants DEF PollTypes, NoDeadline
<1>1. CASE PollTick
  <2>1. /\ UNCHANGED <<place, gap, token, skipped, stopping, task, todo, checks, loop>>
        /\ left' = Down(left) /\ soonest' = Down(soonest) /\ \A j \in Jobs : pollIn'[j] = Down(pollIn[j])
    BY <1>1 DEF PollTick
  <2> QED
    BY <1>0, <2>1 DEF Down
<1>2. CASE PassStarts
  <2>1. CASE CollectPolls /\ StartPolls
    <3> SUFFICES ASSUME NEW j \in Jobs, place'[j] = "inflight"
                 PROVE  \/ task' = "running" /\ j \in todo' \cup checks'
                        \/ soonest' # NoDeadline /\ soonest' <= pollIn'[j]
      BY <1>2 DEF PassStarts
    <3>1. place[j] = "inflight" /\ pollIn'[j] = pollIn[j]
      BY <1>2 DEF PassStarts
    <3>2. CASE j \in DueJobs
      BY <2>1, <3>2 DEF StartPolls, Filled
    <3>3. CASE j \notin DueJobs
      <4> DEFINE ahead == {pollIn[i] : i \in InFlight \ DueJobs}
      <4>1. pollIn[j] \in ahead
        BY <3>1, <3>3 DEF InFlight
      <4>2. soonest' \in ahead /\ \A m \in ahead : soonest' <= m
        BY <2>1, <4>1 DEF StartPolls
      <4>3. soonest' \in Nat
        BY <1>0, <4>2 DEF InFlight
      <4> QED
        BY <1>0, <3>1, <4>1, <4>2, <4>3
    <3> QED
      BY <3>2, <3>3
  <2>2. CASE ~CollectPolls /\ Skip
    BY <2>2 DEF Skip
  <2> QED
    BY <1>2, <2>1, <2>2 DEF PassStarts
<1>3. CASE HarvestDue
  BY <1>3 DEF HarvestDue
<1>4. CASE WaitStarts
  <2>1. /\ UNCHANGED <<place, gap, pollIn, skipped, stopping, task, todo, checks>>
        /\ loop \in {"harvest", "harvesting"} /\ left' = WaitTimeout /\ loop' \in {"pass", "wait"}
    BY <1>4 DEF WaitStarts, Waits
  <2>2. WaitTimeout \in Nat /\ (soonest # NoDeadline => WaitTimeout <= soonest)
    BY PollConstants, TimeoutBounds
  <2>3. token' <=> token
    BY <1>4 DEF WaitStarts, Waits
  <2> QED
    BY <1>0, <2>1, <2>2, <2>3
<1>5. CASE Wakes \/ DrainTokens \/ LeaveLoop \/ FinishPolls
  BY <1>5 DEF Wakes, DrainTokens, LeaveLoop, FinishPolls
<1>6. CASE BatchEnds
  BY <1>6 DEF BatchEnds, BatchInv
<1>7. CASE BatchFails
  BY <1>7 DEF BatchFails
<1>8. CASE StopRequested
  BY <1>8 DEF StopRequested
<1>9. CASE PollerStarts \/ PollerKilled
  BY <1>9 DEF PollerStarts, PollerKilled, Fresh
<1>10. ASSUME NEW j \in Jobs, Join(j) PROVE WakeInv'
  <2>1. /\ UNCHANGED <<token, loopVars, batchVars>> /\ place'[j] # "inflight"
        /\ \A i \in Jobs \ {j} : place'[i] = place[i] /\ pollIn'[i] = pollIn[i] /\ gap'[i] = gap[i]
    BY <1>10 DEF Join, PollTypes
  <2> QED
    BY <2>1
<1>11. ASSUME NEW j \in Jobs, SignalPoll(j) PROVE WakeInv'
  BY <1>11 DEF SignalPoll
<1>12. ASSUME NEW j \in Jobs, HarvestEnds(j) \/ HarvestAgain(j) PROVE WakeInv'
  <2>1. UNCHANGED <<gap, pollIn, token, skipped, stopping, task, todo, checks, loop, left, soonest>>
    BY <1>12 DEF HarvestEnds, HarvestAgain
  <2>2. \A i \in Jobs : place'[i] = "inflight" => place[i] = "inflight"
    BY <1>12 DEF HarvestEnds, HarvestAgain, PollTypes
  <2> QED
    BY <2>1, <2>2
<1>13. ASSUME NEW j \in Jobs, NEW outcomes, CheckGives(j, outcomes) PROVE WakeInv'
  <2>1. task' = task /\ (todo \cup checks) \ {j} \subseteq todo' \cup checks'
    BY <1>13 DEF CheckGives, SlotFreed
  <2>2. CASE ProcessDone(j)
    BY <2>2 DEF ProcessDone
  <2>3. CASE ProcessRunning(j)
    <3>1. NextPollDelay(j) \in BackoffInitial..BackoffMax
      BY DelayBounds
    <3>2. gap'[j] # 0
      BY <2>3, <3>1, PollConstants DEF ProcessRunning, PollTypes
    <3>3. /\ UNCHANGED <<place, token, loopVars>>
          /\ \A i \in Jobs \ {j} : gap'[i] = gap[i] /\ pollIn'[i] = pollIn[i]
      BY <2>3 DEF ProcessRunning, PollTypes
    <3> QED
      BY <2>1, <3>2, <3>3
  <2>4. ASSUME NEW action, ProcessFailed(j, action) PROVE WakeInv'
    <3>1. /\ UNCHANGED <<token, loopVars>> /\ place'[j] # "inflight"
          /\ \A i \in Jobs \ {j} : place'[i] = place[i] /\ gap'[i] = gap[i] /\ pollIn'[i] = pollIn[i]
      BY <2>4 DEF ProcessFailed, Forgotten, PollTypes
    <3> QED
      BY <2>1, <3>1
  <2> QED
    BY <1>13, <2>2, <2>3, <2>4, CheckCases
<1>14. CASE UNCHANGED pollVars
  BY <1>14 DEF pollVars
<1> QED
  BY <1>1, <1>2, <1>3, <1>4, <1>5, <1>6, <1>7, <1>8, <1>9, <1>10, <1>11, <1>12, <1>13, <1>14
     DEF PollNext, CheckRuns, CheckEnds, CheckGoesWrong

LEMMA PollInitial == PollInit => PollInv
<1> SUFFICES ASSUME PollInit PROVE PollInv
  OBVIOUS
<1> USE PollConstants DEF PollInit
<1>1. PollTypes
  <2>1. token \in BOOLEAN /\ skipped \in BOOLEAN /\ stopping \in BOOLEAN
    OBVIOUS
  <2>2. /\ place \in [Jobs -> {"new", "joined", "inflight", "storing", "ended"}]
        /\ tries \in [Jobs -> 0..RequeueLimit] /\ runs \in [Jobs -> 0..MaxRuns]
        /\ pollIn \in [Jobs -> 0..BackoffMax] /\ gap \in [Jobs -> {0} \cup BackoffInitial..BackoffMax]
    OBVIOUS
  <2>3. /\ late \in [Jobs -> 0..(PollerTick + 1)] /\ harvestIn \in [Jobs -> 0..HarvestBackoff]
        /\ asked \in [Jobs -> 0..CheckMax]
    OBVIOUS
  <2> QED
    BY <2>1, <2>2, <2>3 DEF PollTypes
<1>2. LineInv
  BY DEF LineInv, Uniq, RowsOf
<1>3. ReleasedInv
  <2>1. released = 0 /\ released <= Cardinality(Past)
    BY PastSize
  <2> QED
    BY <2>1 DEF ReleasedInv, Past
<1>4. BatchInv
  BY DEF BatchInv
<1>5. LateInv /\ WakeInv
  BY DEF LateInv, WakeInv
<1> QED
  BY <1>1, <1>2, <1>3, <1>4, <1>5 DEF PollInv

LEMMA PollStep == PollInv /\ [PollNext]_pollVars => PollInv'
BY PollTypesStep, LineStep, ReleasedStep, BatchStep, LateStep, WakeStep DEF PollInv

\* A job is in line as often as it should be.
LEMMA InLineOnce ==
    ASSUME LineInv, NEW j \in Jobs
    PROVE  Cardinality({i \in 1..Len(line) : line[i] = j}) = IF place[j] = "storing" THEN 1 ELSE 0
<1>1. CASE place[j] = "storing"
  <2>1. \E i \in 1..Len(line) : line[i] = j
    BY <1>1 DEF LineInv, RowsOf
  <2> PICK i \in 1..Len(line) : line[i] = j
    BY <2>1
  <2>2. {k \in 1..Len(line) : line[k] = j} = {i}
    BY DEF LineInv, Uniq
  <2> QED
    BY <1>1, <2>2, FS_Singleton
<1>2. CASE place[j] # "storing"
  <2>1. {k \in 1..Len(line) : line[k] = j} = {}
    BY <1>2 DEF LineInv, RowsOf
  <2> QED
    BY <1>2, <2>1, FS_EmptySet
<1> QED
  BY <1>1, <1>2

\* Whatever fails and whenever the poller is stopped or killed, no wake-up is lost, sleep
\* delays a status check by one tick at most, and a stop cuts nothing off (run_pass,
\* wait_for_poll_signal, drain_poll_queue, _finish_polls).
THEOREM PollerIsOnTime == PollSpec => []PollSound
<1>1. PollInv => PollSound
  <2> SUFFICES ASSUME PollInv PROVE PollSound
    OBVIOUS
  <2>1. released \in 0..Cardinality(Jobs)
    <3>1. released \in Nat /\ released <= Cardinality(Past)
      BY DEF PollInv, ReleasedInv, Past
    <3> QED
      BY <3>1, PastSize, PollConstants
  <2>2. {token, skipped, stopping} \subseteq BOOLEAN
    BY DEF PollInv, PollTypes
  <2>3. PollTypeOK
    BY <2>1, <2>2, InLineOnce DEF PollInv, PollTypes, PollTypeOK
  <2>4. WakesInTime
    BY DEF PollInv, WakeInv, Watched, WakesInTime
  <2>5. OnTime
    BY DEF PollInv, LateInv, OnTime
  <2>6. StopsCleanly
    BY DEF PollInv, BatchInv, StopsCleanly
  <2> QED
    BY <2>3, <2>4, <2>5, <2>6 DEF PollSound
<1> QED
  BY <1>1, PollInitial, PollStep, PTL DEF PollSpec
=============================================================================
