------------------------- MODULE EventStreamProofs --------------------------
(***************************************************************************)
(* Theorems about EventStream, for any clients, jobs, drops and fetches    *)
(* that fail: whoever waits is woken neither too soon nor never.           *)
(***************************************************************************)
EXTENDS EventStream, FiniteSetTheorems, SequenceTheorems, TLAPS

USE DEF calls

\* The frames that can be on their way: the one that ends the batch only after it.
Sendable == [job : Jobs, url : BOOLEAN] \cup (IF batch = "told" THEN {Frame(BatchDone, FALSE)} ELSE {})
Uniq(s) == \A m, n \in 1..Len(s) : s[m] = s[n] => m = n

ServerTypes ==
    /\ row \in [Jobs -> {"none", "queued", "done", "failed"}]
    /\ unsent \subseteq Jobs /\ recent \subseteq Jobs
    /\ batch \in {"none", "running", "finished", "told"}

LinkTypes ==
    /\ conn \in [Clients -> {"off", "down", "accepted", "gap", "live"}]
    /\ snap \in [Clients -> SUBSET Jobs] /\ missed \in [Clients -> SUBSET Jobs]
    /\ wire \in [Clients -> Seq(Sendable)]

ClientTypes ==
    /\ hnd \in [Clients -> Jobs \cup {NoJob}]
    /\ sub \in [Jobs -> {"never", "todo", "posting", "back"}]
    /\ pending \in [Clients -> SUBSET Jobs] /\ told \in [Clients -> SUBSET Jobs]
    /\ got \in [Clients -> SUBSET Jobs]
    /\ waitfor \in [Clients -> SUBSET Jobs] /\ early \in [Clients -> Seq(Jobs)]
    /\ wait \in [Clients -> {"never", "idle", "blocked", "returned"}]
    /\ wb \in [Clients -> {"never", "idle", "asking", "answered", "asleep", "woken", "returned"}]
    /\ faults \in 0..MaxFaults

FlagTypes == alldone \in [Clients -> BOOLEAN] /\ flag \in [Clients -> BOOLEAN] /\ heard \in [Clients -> BOOLEAN]

\* _finished_early holds each job once, and jobs whose callback has run only.
EarlyInv ==
    \A c \in Clients : /\ Uniq(early[c]) /\ Len(early[c]) <= EarlyMax
                       /\ Items(early[c]) \subseteq told[c]

\* A job that is submitted is pending until its callback has run; _all_done of a Python
\* client says that nothing is.
WaitInv ==
    /\ \A c \in Clients : hnd[c] # NoJob => hnd[c] \in told[c]
    /\ \A j \in Jobs : sub[j] = "back" => j \in pending[Owner[j]] \cup told[Owner[j]]
    /\ \A c \in Clients : waitfor[c] \subseteq {j \in Jobs : Owner[j] = c /\ sub[j] = "back"}
    /\ \A c \in Clients \ Java : alldone[c] => pending[c] = {}
    /\ WaitSound

\* Nobody hears of a batch's end before it has ended.
HeardInv ==
    /\ \A c \in Clients : heard[c] => batch = "told"
    /\ NoLostWake

StreamInv == ServerTypes /\ LinkTypes /\ ClientTypes /\ FlagTypes /\ EarlyInv /\ WaitInv /\ HeardInv

LEMMA EventConstants ==
    /\ IsFiniteSet(Jobs) /\ Owner \in [Jobs -> Clients] /\ Java \subseteq Clients
    /\ NoJob \notin Jobs /\ BatchDone \notin Jobs
    /\ EarlyMax \in Nat /\ EarlyMax >= 1 /\ MaxFaults \in Nat
BY EventAssumption

-----------------------------------------------------------------------------
\* Sequences

LEMMA IsSeq ==
    ASSUME NEW S, NEW n \in Nat, NEW s \in [1..n -> S]
    PROVE  s \in Seq(S) /\ Len(s) = n
BY LenProperties, SeqDef

LEMMA SeqIn ==
    ASSUME NEW S, NEW s \in Seq(S)
    PROVE  /\ Len(s) \in Nat /\ s \in [1..Len(s) -> S] /\ Items(s) \subseteq S
           /\ \A i \in 1..Len(s) : s[i] \in S /\ s[i] \in Items(s)
BY LenProperties, ElementOfSeq DEF Items

LEMMA SeqWider ==
    ASSUME NEW A, NEW B, A \subseteq B, NEW s \in Seq(A)
    PROVE  s \in Seq(B)
<1>1. s \in [1..Len(s) -> B] /\ Len(s) \in Nat
  BY SeqIn
<1> QED
  BY <1>1, IsSeq

LEMMA SeqTail ==
    ASSUME NEW S, NEW s \in Seq(S), s # <<>>
    PROVE  /\ Head(s) \in S /\ Tail(s) \in Seq(S) /\ Len(Tail(s)) = Len(s) - 1
           /\ Items(Tail(s)) \subseteq Items(s) /\ (Uniq(s) => Uniq(Tail(s)))
<1>1. /\ Head(s) \in S /\ Tail(s) \in Seq(S) /\ Len(s) \in Nat /\ Len(Tail(s)) = Len(s) - 1
      /\ \A i \in 1..Len(s) - 1 : Tail(s)[i] = s[i + 1]
  BY HeadTailProperties, LenProperties
<1>2. Items(Tail(s)) \subseteq Items(s)
  BY <1>1 DEF Items
<1>3. Uniq(s) => Uniq(Tail(s))
  <2> SUFFICES ASSUME Uniq(s), NEW m \in 1..Len(s) - 1, NEW n \in 1..Len(s) - 1, s[m + 1] = s[n + 1]
               PROVE  m = n
    BY <1>1 DEF Uniq
  <2>1. m + 1 \in 1..Len(s) /\ n + 1 \in 1..Len(s)
    BY <1>1
  <2>2. m + 1 = n + 1
    BY <2>1 DEF Uniq
  <2> QED
    BY <1>1, <2>2
<1> QED
  BY <1>1, <1>2, <1>3

LEMMA SeqAppend ==
    ASSUME NEW S, NEW s \in Seq(S), NEW x \in S
    PROVE  /\ Append(s, x) \in Seq(S) /\ Len(Append(s, x)) = Len(s) + 1 /\ Append(s, x) # <<>>
           /\ Items(Append(s, x)) = Items(s) \cup {x}
           /\ Uniq(s) /\ x \notin Items(s) => Uniq(Append(s, x))
<1>1. /\ Append(s, x) \in Seq(S) /\ Len(s) \in Nat /\ Len(Append(s, x)) = Len(s) + 1
      /\ \A i \in 1..Len(s) : Append(s, x)[i] = s[i]
      /\ Append(s, x)[Len(s) + 1] = x
  BY AppendProperties, LenProperties
<1>2. Items(Append(s, x)) = Items(s) \cup {x}
  <2>1. \A i \in 1..Len(s) + 1 : Append(s, x)[i] \in Items(s) \cup {x}
    BY <1>1 DEF Items
  <2>2. Len(s) + 1 \in 1..Len(s) + 1 /\ \A i \in 1..Len(s) : i \in 1..Len(s) + 1
    BY <1>1
  <2> QED
    BY <1>1, <2>1, <2>2 DEF Items
<1>3. Uniq(s) /\ x \notin Items(s) => Uniq(Append(s, x))
  BY <1>1 DEF Uniq, Items
<1>4. Append(s, x) # <<>>
  BY <1>1
<1> QED
  BY <1>1, <1>2, <1>3, <1>4

LEMMA SeqWithout ==
    ASSUME NEW S, NEW s \in Seq(S), Uniq(s), NEW j \in Items(s)
    PROVE  /\ Without(s, j) \in Seq(S) /\ Len(Without(s, j)) = Len(s) - 1
           /\ Items(Without(s, j)) \subseteq Items(s) /\ Uniq(Without(s, j))
<1> DEFINE k == CHOOSE k \in 1..Len(s) : s[k] = j
           t == [i \in 1..(Len(s) - 1) |-> IF i < k THEN s[i] ELSE s[i + 1]]
<1>1. k \in 1..Len(s) /\ Without(s, j) = t
  BY DEF Items, Without
<1> HIDE DEF k
<1>2. Len(s) \in Nat /\ Len(s) - 1 \in Nat /\ \A i \in 1..Len(s) : s[i] \in S
  BY <1>1, SeqIn
<1>3. t \in [1..(Len(s) - 1) -> S]
  BY <1>2
<1>4. \A i \in 1..(Len(s) - 1) : t[i] = IF i < k THEN s[i] ELSE s[i + 1]
  OBVIOUS
<1> HIDE DEF t
<1>5. t \in Seq(S) /\ Len(t) = Len(s) - 1
  BY <1>2, <1>3, IsSeq
<1>6. Items(t) \subseteq Items(s)
  BY <1>1, <1>2, <1>4, <1>5 DEF Items
<1>7. Uniq(t)
  BY <1>1, <1>2, <1>4, <1>5 DEF Uniq
<1> QED
  BY <1>1, <1>5, <1>6, <1>7

\* What a drop leaves of the frames.
LEMMA SeqCut ==
    ASSUME NEW S, NEW s \in Seq(S), NEW n \in 0..Len(s)
    PROVE  SubSeq(s, 1, n) \in Seq(S)
BY LenProperties, SubSeqProperties

\* A sequence in which nothing comes twice has as many members as places.
LEMMA UniqCount ==
    ASSUME NEW s \in Seq(Jobs), Uniq(s)
    PROVE  Len(s) = Cardinality(Items(s))
<1>0. Len(s) \in Nat /\ s \in [1..Len(s) -> Jobs]
  BY LenProperties
<1>1. s \in Bijection(1..Len(s), Items(s))
  <2>1. s \in [1..Len(s) -> Items(s)]
    BY <1>0 DEF Items
  <2>2. s \in Injection(1..Len(s), Items(s))
    BY <2>1 DEF Injection, IsInjective, Uniq
  <2>3. s \in Surjection(1..Len(s), Items(s))
    BY <2>1 DEF Surjection, Items
  <2> QED
    BY <2>2, <2>3 DEF Bijection
<1>2. IsFiniteSet(1..Len(s)) /\ Cardinality(1..Len(s)) = Len(s)
  BY <1>0, FS_Interval
<1> QED
  BY <1>1, <1>2, FS_Bijection DEF ExistsBijection

-----------------------------------------------------------------------------
\* The server and the connections

LEMMA ServerStep ==
    ASSUME ServerTypes, [Next]_vars
    PROVE  ServerTypes' /\ (batch = "told" => batch' = "told")
<1> USE DEF ServerTypes, server
<1>1. ASSUME NEW j \in Jobs, Finish(j) PROVE ServerTypes' /\ batch' = batch
  BY <1>1 DEF Finish
<1>2. ASSUME NEW j \in Jobs, Publish(j) \/ WindowPasses(j) PROVE ServerTypes' /\ batch' = batch
  BY <1>2 DEF Publish, WindowPasses
<1>3. ASSUME NEW j \in Jobs, SubmitPost(j) PROVE ServerTypes' /\ batch' = batch
  BY <1>3 DEF SubmitPost
<1>4. CASE BatchFinish \/ BatchPublish
  BY <1>4 DEF BatchFinish, BatchPublish
<1>5. CASE UNCHANGED server
  BY <1>5
<1> QED
  BY <1>1, <1>2, <1>3, <1>4, <1>5 DEF Next, vars, SubmitBack, SubmitBackJava, Remember, Socket, Connect,
     CatchUp, Subscribe, Listen, Callback, Resolve, BatchEvent, Batching, BatchAsk, BatchSleep,
     BatchWakes, BatchClear, Drop, FetchFailsPython, FetchFailsJava, FetchFails, WaitCall, WaitWakes,
     WaitAgain, BatchCall

LEMMA SendableGrows ==
    ASSUME batch = "told" => batch' = "told"
    PROVE  Sendable \subseteq Sendable'
BY DEF Sendable

\* A message reaches who is subscribed.
LEMMA SentFrames ==
    ASSUME LinkTypes, NEW S, Sendable \subseteq S, NEW f \in S
    PROVE  Sent(f) \in [Clients -> Seq(S)]
<1>1. ASSUME NEW c \in Clients PROVE Sent(f)[c] \in Seq(S)
  <2>1. wire[c] \in Seq(S)
    BY SeqWider DEF LinkTypes
  <2>2. Append(wire[c], f) \in Seq(S)
    BY <2>1, SeqAppend
  <2> QED
    BY <2>1, <2>2 DEF Sent
<1> QED
  BY <1>1 DEF Sent

\* The frames of a catch-up.
LEMMA OrderOf ==
    ASSUME NEW S \in SUBSET Jobs, NEW s \in Orders(S)
    PROVE  /\ Cardinality(S) \in Nat /\ Len(s) = Cardinality(S)
           /\ [i \in 1..Len(s) |-> Frame(s[i], FALSE)] \in Seq([job : Jobs, url : BOOLEAN])
<1>1. IsFiniteSet(S)
  BY EventConstants, FS_Subset
<1>2. Cardinality(S) \in Nat
  BY <1>1, FS_CardinalityType
<1>3. s \in [1..Cardinality(S) -> Jobs]
  BY DEF Orders
<1>4. Len(s) = Cardinality(S)
  BY <1>2, <1>3, IsSeq
<1>5. \A i \in 1..Len(s) : Frame(s[i], FALSE) \in [job : Jobs, url : BOOLEAN]
  BY <1>3, <1>4 DEF Frame
<1>6. [i \in 1..Len(s) |-> Frame(s[i], FALSE)] \in [1..Len(s) -> [job : Jobs, url : BOOLEAN]]
  BY <1>5
<1> QED
  BY <1>2, <1>4, <1>6, IsSeq

LEMMA LinkStep ==
    ASSUME ServerTypes, LinkTypes, [Next]_vars
    PROVE  LinkTypes'
<1>0. Sendable \subseteq Sendable'
  BY ServerStep, SendableGrows
<1>w. \A c \in Clients : wire[c] \in Seq(Sendable')
  BY <1>0, SeqWider DEF LinkTypes
<1> USE DEF LinkTypes, link
<1>1. CASE UNCHANGED link
  BY <1>w, <1>1
<1>2. CASE BatchPublish
  <2>1. Frame(BatchDone, FALSE) \in Sendable'
    BY <1>2 DEF BatchPublish, Sendable
  <2>2. wire' \in [Clients -> Seq(Sendable')]
    BY <1>0, <1>2, <2>1, SentFrames DEF BatchPublish
  <2> QED
    BY <1>2, <2>2 DEF BatchPublish
<1>3. ASSUME NEW j \in Jobs, Publish(j) PROVE LinkTypes'
  <2>1. Frame(j, row[j] = "done") \in Sendable
    BY DEF Frame, Sendable
  <2>2. wire' \in [Clients -> Seq(Sendable')]
    BY <1>0, <1>3, <2>1, SentFrames DEF Publish
  <2>3. missed' \in [Clients -> SUBSET Jobs]
    BY <1>3 DEF Publish
  <2> QED
    BY <1>3, <2>2, <2>3 DEF Publish
<1>4. ASSUME NEW c \in Clients, Connect(c) \/ Subscribe(c) PROVE LinkTypes'
  <2>1. wire' = wire
    BY <1>4 DEF Connect, Subscribe
  <2> QED
    BY <1>w, <1>4, <2>1 DEF Connect, Subscribe
<1>5. ASSUME NEW c \in Clients, CatchUp(c) PROVE LinkTypes'
  <2> DEFINE found == {j \in recent : Ended(j)}
  <2>1. found \subseteq Jobs
    BY DEF ServerTypes
  <2> PICK s \in Orders(found) : wire' = [wire EXCEPT ![c] = [i \in 1..Len(s) |-> Frame(s[i], FALSE)]]
    BY <1>5 DEF CatchUp
  <2> DEFINE t == [i \in 1..Len(s) |-> Frame(s[i], FALSE)]
  <2>2. t \in Seq([job : Jobs, url : BOOLEAN]) /\ wire' = [wire EXCEPT ![c] = t]
    BY <2>1, OrderOf
  <2> HIDE DEF t
  <2>3. [job : Jobs, url : BOOLEAN] \subseteq Sendable'
    BY DEF Sendable
  <2>4. t \in Seq(Sendable')
    BY <2>2, <2>3, SeqWider
  <2>5. wire' \in [Clients -> Seq(Sendable')]
    BY <1>w, <2>2, <2>4
  <2>6. snap' = [snap EXCEPT ![c] = found] /\ snap' \in [Clients -> SUBSET Jobs]
    BY <1>5, <2>1 DEF CatchUp
  <2> QED
    BY <1>5, <2>5, <2>6 DEF CatchUp
<1>6. ASSUME NEW c \in Clients, Drop(c) PROVE LinkTypes'
  <2> PICK n \in 0..Len(wire[c]) : wire' = [wire EXCEPT ![c] = SubSeq(wire[c], 1, n)]
    BY <1>6 DEF Drop
  <2>1. SubSeq(wire[c], 1, n) \in Seq(Sendable')
    BY <1>w, SeqCut
  <2> QED
    BY <1>w, <1>6, <2>1 DEF Drop
<1>7. ASSUME NEW c \in Clients, Callback(c) \/ BatchEvent(c) \/ FetchFailsJava(c) PROVE LinkTypes'
  <2>1. wire[c] # <<>> /\ wire' = [wire EXCEPT ![c] = Tail(wire[c])] /\ UNCHANGED <<conn, snap, missed>>
    BY <1>7 DEF Callback, BatchEvent, FetchFailsJava, FetchFails
  <2>2. Tail(wire[c]) \in Seq(Sendable')
    BY <1>w, <2>1, SeqTail
  <2> QED
    BY <1>w, <2>1, <2>2
<1>8. ASSUME NEW c \in Clients, FetchFailsPython(c) PROVE LinkTypes'
  BY <1>w, <1>8 DEF FetchFailsPython, FetchFails
<1> QED
  BY <1>1, <1>2, <1>3, <1>4, <1>5, <1>6, <1>7, <1>8 DEF Next, vars, BatchFinish, Finish, WindowPasses,
     SubmitPost, SubmitBack, SubmitBackJava, Remember, Socket, Listen, Resolve, Batching, BatchAsk,
     BatchSleep, BatchWakes, BatchClear, WaitCall, WaitWakes, WaitAgain, BatchCall

-----------------------------------------------------------------------------
\* The client libraries

\* What a frame on its way is about.
LEMMA FirstFrame ==
    ASSUME LinkTypes, NEW c \in Clients, wire[c] # <<>>
    PROVE  /\ Head(wire[c]).job \in Jobs \cup {BatchDone}
           /\ Head(wire[c]).job = BatchDone => batch = "told"
<1>1. Head(wire[c]) \in Sendable
  BY SeqTail DEF LinkTypes
<1> QED
  BY <1>1, EventConstants DEF Sendable, Frame

\* submit() returns: the job is pending, or its callback has run.
LEMMA Remembered ==
    ASSUME ClientTypes, FlagTypes, EarlyInv, NEW j \in Jobs, NEW done \in BOOLEAN, Remember(j, done)
    PROVE  /\ Owner[j] \in Clients /\ sub' = [sub EXCEPT ![j] = "back"]
           /\ UNCHANGED <<server, link, hnd, calls, waits, bwait, faults>>
           /\ early' \in [Clients -> Seq(Jobs)] /\ pending' \in [Clients -> SUBSET Jobs]
           /\ alldone' \in [Clients -> BOOLEAN]
           /\ \A c \in Clients : /\ Uniq(early'[c]) /\ Len(early'[c]) <= EarlyMax
                                 /\ Items(early'[c]) \subseteq told[c]
                                 /\ pending[c] \subseteq pending'[c]
           /\ j \in pending'[Owner[j]] \cup told[Owner[j]]
           /\ \/ UNCHANGED <<pending, alldone>>
              \/ /\ pending' = [pending EXCEPT ![Owner[j]] = @ \cup {j}]
                 /\ alldone' = [alldone EXCEPT ![Owner[j]] = done]
<1> DEFINE c == Owner[j]
<1>0. c \in Clients
  BY EventConstants
<1>1. sub' = [sub EXCEPT ![j] = "back"] /\ UNCHANGED <<server, link, hnd, calls, waits, bwait, faults>>
  BY DEF Remember
<1>2. CASE j \in Items(early[c])
  <2>1. early' = [early EXCEPT ![c] = Without(early[c], j)] /\ UNCHANGED <<pending, alldone>>
    BY <1>2 DEF Remember
  <2>2. early[c] \in Seq(Jobs) /\ Uniq(early[c]) /\ Len(early[c]) \in Nat
    BY <1>0, LenProperties DEF ClientTypes, EarlyInv
  <2>3. /\ Without(early[c], j) \in Seq(Jobs) /\ Len(Without(early[c], j)) = Len(early[c]) - 1
        /\ Items(Without(early[c], j)) \subseteq Items(early[c]) /\ Uniq(Without(early[c], j))
    BY <1>2, <2>2, SeqWithout
  <2>4. early' \in [Clients -> Seq(Jobs)]
    BY <2>1, <2>3 DEF ClientTypes
  <2>5. \A d \in Clients : /\ Uniq(early'[d]) /\ Len(early'[d]) <= EarlyMax
                           /\ Items(early'[d]) \subseteq told[d]
    <3> TAKE d \in Clients
    <3>1. CASE d = c
      <4>1. early'[d] = Without(early[c], j)
        BY <1>0, <2>1, <3>1 DEF ClientTypes
      <4>2. Len(early[c]) - 1 <= EarlyMax
        BY <1>0, <2>2, EventConstants DEF EarlyInv
      <4> QED
        BY <1>0, <2>3, <3>1, <4>1, <4>2 DEF EarlyInv
    <3>2. CASE d # c
      <4>1. early'[d] = early[d]
        BY <2>1, <3>2 DEF ClientTypes
      <4> QED
        BY <4>1 DEF EarlyInv
    <3> QED
      BY <3>1, <3>2
  <2>6. j \in told[c]
    BY <1>0, <1>2 DEF EarlyInv
  <2> QED
    BY <1>0, <1>1, <2>1, <2>4, <2>5, <2>6 DEF ClientTypes, FlagTypes
<1>3. CASE j \notin Items(early[c])
  <2>1. /\ pending' = [pending EXCEPT ![c] = @ \cup {j}] /\ alldone' = [alldone EXCEPT ![c] = done]
        /\ early' = early
    BY <1>3 DEF Remember
  <2>2. alldone' \in [Clients -> BOOLEAN]
    BY <1>0, <2>1 DEF FlagTypes
  <2>3. /\ pending' \in [Clients -> SUBSET Jobs] /\ j \in pending'[c]
        /\ \A d \in Clients : pending[d] \subseteq pending'[d]
    BY <1>0, <2>1 DEF ClientTypes
  <2> QED
    BY <1>0, <1>1, <2>1, <2>2, <2>3 DEF ClientTypes, EarlyInv
<1> QED
  BY <1>2, <1>3

\* _resolve: the job is pending no longer, or remembered; at most EarlyMax are.
LEMMA Resolved ==
    ASSUME ClientTypes, FlagTypes, EarlyInv, WaitInv, NEW c \in Clients, Resolve(c)
    PROVE  /\ UNCHANGED <<server, link, sub, calls, waits, bwait, faults>>
           /\ hnd' = [hnd EXCEPT ![c] = NoJob] /\ hnd[c] \in Jobs /\ hnd[c] \in told[c]
           /\ early' \in [Clients -> Seq(Jobs)] /\ pending' \in [Clients -> SUBSET Jobs]
           /\ alldone' \in [Clients -> BOOLEAN]
           /\ \A d \in Clients : /\ Uniq(early'[d]) /\ Len(early'[d]) <= EarlyMax
                                 /\ Items(early'[d]) \subseteq told[d]
                                 /\ pending'[d] \subseteq pending[d]
                                 /\ pending[d] \subseteq pending'[d] \cup told[d]
           /\ \/ UNCHANGED <<pending, alldone>>
              \/ /\ alldone' = [alldone EXCEPT ![c] = @ \/ pending'[c] = {}]
<1> DEFINE j == hnd[c]
<1>1. /\ UNCHANGED <<server, link, sub, calls, waits, bwait, faults>> /\ hnd' = [hnd EXCEPT ![c] = NoJob]
      /\ j \in Jobs /\ j \in told[c]
  BY DEF Resolve, ClientTypes, WaitInv
<1>2. CASE j \in pending[c]
  <2>1. /\ pending' = [pending EXCEPT ![c] = pending[c] \ {j}] /\ early' = early
        /\ alldone' = [alldone EXCEPT ![c] = @ \/ pending[c] \ {j} = {}]
    BY <1>2 DEF Resolve
  <2>2. /\ pending' \in [Clients -> SUBSET Jobs] /\ pending'[c] = pending[c] \ {j}
        /\ \A d \in Clients : pending'[d] \subseteq pending[d] /\ pending[d] \subseteq pending'[d] \cup told[d]
    BY <1>1, <2>1 DEF ClientTypes
  <2>3. alldone' \in [Clients -> BOOLEAN]
    BY <2>1 DEF FlagTypes
  <2>4. alldone' = [alldone EXCEPT ![c] = @ \/ pending'[c] = {}]
    BY <2>1, <2>2
  <2> QED
    BY <1>1, <2>1, <2>2, <2>3, <2>4 DEF ClientTypes, EarlyInv
<1>3. CASE j \notin pending[c]
  <2> DEFINE s == early[c]
             n == IF j \in Items(s) THEN s ELSE Capped(Append(s, j))
  <2>1. early' = [early EXCEPT ![c] = n] /\ UNCHANGED <<pending, alldone>>
    BY <1>3 DEF Resolve
  <2>2. /\ s \in Seq(Jobs) /\ Uniq(s) /\ Len(s) \in Nat /\ Len(s) <= EarlyMax /\ Items(s) \subseteq told[c]
    BY LenProperties DEF ClientTypes, EarlyInv
  <2> HIDE DEF s
  <2>3. n \in Seq(Jobs) /\ Uniq(n) /\ Len(n) <= EarlyMax /\ Items(n) \subseteq told[c]
    <3>1. CASE j \in Items(s)
      BY <2>2, <3>1
    <3>2. CASE j \notin Items(s)
      <4> DEFINE a == Append(s, j)
      <4>1. /\ a \in Seq(Jobs) /\ Len(a) = Len(s) + 1 /\ a # <<>> /\ Uniq(a)
            /\ Items(a) = Items(s) \cup {j}
        BY <1>1, <2>2, <3>2, SeqAppend
      <4>2. n = IF Len(a) > EarlyMax THEN Tail(a) ELSE a
        BY <3>2 DEF Capped
      <4> HIDE DEF a, n
      <4>3. /\ Tail(a) \in Seq(Jobs) /\ Len(Tail(a)) = Len(a) - 1 /\ Uniq(Tail(a))
            /\ Items(Tail(a)) \subseteq Items(a)
        BY <4>1, SeqTail
      <4>4. n \in Seq(Jobs) /\ Uniq(n) /\ Items(n) \subseteq told[c]
        BY <1>1, <2>2, <4>1, <4>2, <4>3
      <4>5. Len(n) <= EarlyMax
        BY <2>2, <4>1, <4>2, <4>3, EventConstants
      <4> QED
        BY <4>4, <4>5
    <3> QED
      BY <3>1, <3>2
  <2> HIDE DEF n
  <2>4. early' \in [Clients -> Seq(Jobs)]
    BY <2>1, <2>3 DEF ClientTypes
  <2>5. \A d \in Clients : early'[d] = IF d = c THEN n ELSE early[d]
    BY <2>1 DEF ClientTypes
  <2>6. \A d \in Clients : /\ Uniq(early'[d]) /\ Len(early'[d]) <= EarlyMax
                           /\ Items(early'[d]) \subseteq told[d]
    BY <2>3, <2>5 DEF EarlyInv
  <2> QED
    BY <1>1, <2>1, <2>4, <2>6 DEF ClientTypes, FlagTypes
<1> QED
  BY <1>2, <1>3

\* What a step leaves alone of the books of the client libraries.
booksVars == <<hnd, sub, pending, early, alldone, told, got, wait, waitfor>>

LEMMA BooksFrame ==
    ASSUME ClientTypes, FlagTypes, EarlyInv, WaitInv, UNCHANGED booksVars,
           wb' \in [Clients -> {"never", "idle", "asking", "answered", "asleep", "woken", "returned"}],
           flag' \in [Clients -> BOOLEAN], heard' \in [Clients -> BOOLEAN], faults' \in 0..MaxFaults
    PROVE  ClientTypes' /\ FlagTypes' /\ EarlyInv' /\ WaitInv'
<1>1. ClientTypes' /\ FlagTypes'
  BY DEF ClientTypes, FlagTypes, booksVars
<1>2. EarlyInv'
  BY DEF EarlyInv, Uniq, Items, booksVars
<1>3. WaitInv'
  BY DEF WaitInv, WaitSound, booksVars
<1> QED
  BY <1>1, <1>2, <1>3

\* _finished_early after a step that is described by what it holds.
LEMMA EarlyAfter ==
    ASSUME \A c \in Clients : /\ Uniq(early'[c]) /\ Len(early'[c]) <= EarlyMax
                              /\ Items(early'[c]) \subseteq told'[c]
    PROVE  EarlyInv'
BY DEF EarlyInv, Uniq, Items

LEMMA BooksRemember ==
    ASSUME ClientTypes, FlagTypes, EarlyInv, WaitInv, NEW j \in Jobs, SubmitBack(j) \/ SubmitBackJava(j)
    PROVE  ClientTypes' /\ FlagTypes' /\ EarlyInv' /\ WaitInv'
<1> USE EventConstants
<1>0. PICK done \in BOOLEAN : Remember(j, done) /\ (Owner[j] \notin Java => done = FALSE)
  <2>1. alldone[Owner[j]] \in BOOLEAN
    BY DEF FlagTypes
  <2> QED
    BY <2>1 DEF SubmitBack, SubmitBackJava
<1>1. /\ Owner[j] \in Clients /\ sub' = [sub EXCEPT ![j] = "back"]
      /\ UNCHANGED <<server, link, hnd, calls, waits, bwait, faults>>
      /\ early' \in [Clients -> Seq(Jobs)] /\ pending' \in [Clients -> SUBSET Jobs]
      /\ alldone' \in [Clients -> BOOLEAN]
      /\ \A c \in Clients : /\ Uniq(early'[c]) /\ Len(early'[c]) <= EarlyMax
                            /\ Items(early'[c]) \subseteq told[c]
                            /\ pending[c] \subseteq pending'[c]
      /\ j \in pending'[Owner[j]] \cup told[Owner[j]]
      /\ \/ UNCHANGED <<pending, alldone>>
         \/ /\ pending' = [pending EXCEPT ![Owner[j]] = @ \cup {j}]
            /\ alldone' = [alldone EXCEPT ![Owner[j]] = done]
  BY <1>0, Remembered
<1>2. ClientTypes' /\ FlagTypes'
  BY <1>1 DEF ClientTypes, FlagTypes, waits, bwait
<1>3. EarlyInv'
  BY <1>1, EarlyAfter
<1>4. \A c \in Clients \ Java : alldone'[c] => pending'[c] = {}
  <2>1. CASE UNCHANGED <<pending, alldone>>
    BY <2>1 DEF WaitInv
  <2>2. CASE /\ pending' = [pending EXCEPT ![Owner[j]] = @ \cup {j}]
             /\ alldone' = [alldone EXCEPT ![Owner[j]] = done]
    <3> SUFFICES ASSUME NEW c \in Clients \ Java, alldone'[c] PROVE pending'[c] = {}
      OBVIOUS
    <3>1. CASE c = Owner[j]
      <4>1. alldone'[c] = FALSE
        BY <1>0, <2>2, <3>1 DEF FlagTypes
      <4> QED
        BY <4>1
    <3>2. CASE c # Owner[j]
      <4>1. alldone'[c] = alldone[c] /\ pending'[c] = pending[c]
        BY <2>2, <3>2 DEF FlagTypes, ClientTypes
      <4> QED
        BY <4>1 DEF WaitInv
    <3> QED
      BY <3>1, <3>2
  <2> QED
    BY <1>1, <2>1, <2>2
<1>5. \A i \in Jobs : sub'[i] = "back" => i \in pending'[Owner[i]] \cup told[Owner[i]]
  <2> TAKE i \in Jobs
  <2>1. Owner[i] \in Clients
    OBVIOUS
  <2>2. i # j => sub'[i] = sub[i]
    BY <1>1 DEF ClientTypes
  <2> QED
    BY <1>1, <2>1, <2>2 DEF WaitInv
<1>6. \A c \in Clients : waitfor[c] \subseteq {i \in Jobs : Owner[i] = c /\ sub'[i] = "back"}
  BY <1>1 DEF WaitInv, ClientTypes
<1>7. WaitInv'
  BY <1>1, <1>4, <1>5, <1>6 DEF WaitInv, WaitSound, waits
<1> QED
  BY <1>2, <1>3, <1>7

LEMMA BooksResolve ==
    ASSUME ClientTypes, FlagTypes, EarlyInv, WaitInv, NEW c \in Clients, Resolve(c)
    PROVE  ClientTypes' /\ FlagTypes' /\ EarlyInv' /\ WaitInv'
<1> USE EventConstants
<1>1. /\ UNCHANGED <<server, link, sub, calls, waits, bwait, faults>>
      /\ hnd' = [hnd EXCEPT ![c] = NoJob] /\ hnd[c] \in Jobs /\ hnd[c] \in told[c]
      /\ early' \in [Clients -> Seq(Jobs)] /\ pending' \in [Clients -> SUBSET Jobs]
      /\ alldone' \in [Clients -> BOOLEAN]
      /\ \A d \in Clients : /\ Uniq(early'[d]) /\ Len(early'[d]) <= EarlyMax
                            /\ Items(early'[d]) \subseteq told[d]
                            /\ pending'[d] \subseteq pending[d]
                            /\ pending[d] \subseteq pending'[d] \cup told[d]
      /\ \/ UNCHANGED <<pending, alldone>>
         \/ alldone' = [alldone EXCEPT ![c] = @ \/ pending'[c] = {}]
  BY Resolved
<1>2. ClientTypes' /\ FlagTypes'
  BY <1>1 DEF ClientTypes, FlagTypes, waits, bwait
<1>3. EarlyInv'
  BY <1>1, EarlyAfter
<1>4. \A d \in Clients \ Java : alldone'[d] => pending'[d] = {}
  <2>1. CASE UNCHANGED <<pending, alldone>>
    BY <2>1 DEF WaitInv
  <2>2. CASE alldone' = [alldone EXCEPT ![c] = @ \/ pending'[c] = {}]
    <3> SUFFICES ASSUME NEW d \in Clients \ Java, alldone'[d] PROVE pending'[d] = {}
      OBVIOUS
    <3>1. alldone[d] \/ pending'[d] = {}
      BY <2>2 DEF FlagTypes
    <3>2. alldone[d] => pending[d] = {}
      BY DEF WaitInv
    <3> QED
      BY <1>1, <3>1, <3>2
  <2> QED
    BY <1>1, <2>1, <2>2
<1>5. \A i \in Jobs : sub[i] = "back" => i \in pending'[Owner[i]] \cup told[Owner[i]]
  BY <1>1 DEF WaitInv
<1>6. \A d \in Clients : hnd'[d] # NoJob => hnd'[d] \in told[d]
  BY <1>1 DEF WaitInv, ClientTypes
<1>7. WaitInv'
  BY <1>1, <1>4, <1>5, <1>6 DEF WaitInv, WaitSound, waits
<1> QED
  BY <1>2, <1>3, <1>7

LEMMA BooksCallback ==
    ASSUME LinkTypes, ClientTypes, FlagTypes, EarlyInv, WaitInv, NEW c \in Clients, Callback(c)
    PROVE  ClientTypes' /\ FlagTypes' /\ EarlyInv' /\ WaitInv'
<1> DEFINE j == Head(wire[c]).job
<1>1. /\ j \in Jobs /\ told' = [told EXCEPT ![c] = @ \cup {j}] /\ hnd' = [hnd EXCEPT ![c] = j]
      /\ UNCHANGED <<sub, book, waits, bwait, faults>>
  BY DEF Callback
<1>g. got' \in [Clients -> SUBSET Jobs]
  <2>1. got' = [got EXCEPT ![c] = IF Head(wire[c]).url \/ row[j] = "failed" THEN @ \cup {j} ELSE @]
    BY DEF Callback
  <2>2. (IF Head(wire[c]).url \/ row[j] = "failed" THEN got[c] \cup {j} ELSE got[c]) \in SUBSET Jobs
    BY <1>1 DEF ClientTypes
  <2> QED
    BY <2>1, <2>2 DEF ClientTypes
<1> HIDE DEF j
<1>2. ClientTypes' /\ FlagTypes'
  BY <1>1, <1>g DEF ClientTypes, FlagTypes, book, waits, bwait
<1>3. told'[c] = told[c] \cup {j} /\ \A d \in Clients : told[d] \subseteq told'[d]
  BY <1>1 DEF ClientTypes
<1>4. EarlyInv'
  BY <1>1, <1>3, EarlyAfter DEF EarlyInv, book
<1>5. WaitInv'
  <2>1. \A d \in Clients : hnd'[d] # NoJob => hnd'[d] \in told'[d]
    BY <1>1, <1>3 DEF WaitInv, ClientTypes
  <2>2. \A i \in Jobs : sub[i] = "back" => i \in pending[Owner[i]] \cup told'[Owner[i]]
    BY <1>3, EventConstants DEF WaitInv
  <2>3. \A d \in Clients \ Java : wait[d] = "returned" => waitfor[d] \subseteq told'[d]
    BY <1>3 DEF WaitInv, WaitSound
  <2> QED
    BY <1>1, <2>1, <2>2, <2>3 DEF WaitInv, WaitSound, book, waits
<1> QED
  BY <1>2, <1>4, <1>5

LEMMA BooksWait ==
    ASSUME ClientTypes, FlagTypes, EarlyInv, WaitInv, NEW c \in Clients,
           WaitCall(c) \/ WaitWakes(c) \/ WaitAgain(c)
    PROVE  ClientTypes' /\ FlagTypes' /\ EarlyInv' /\ WaitInv'
<1> USE EventConstants
<1>1. UNCHANGED <<hnd, sub, book, calls, bwait, faults>>
  BY DEF WaitCall, WaitWakes, WaitAgain
<1>2. /\ wait' \in [Clients -> {"never", "idle", "blocked", "returned"}]
      /\ waitfor' \in [Clients -> SUBSET Jobs]
      /\ \A d \in Clients \ {c} : wait'[d] = wait[d] /\ waitfor'[d] = waitfor[d]
  <2> DEFINE mine == {j \in Jobs : Owner[j] = c /\ sub[j] = "back"}
  <2>0. wait \in [Clients -> {"never", "idle", "blocked", "returned"}] /\ waitfor \in [Clients -> SUBSET Jobs]
    BY DEF ClientTypes
  <2>1. \E w \in {"idle", "blocked", "returned"} : wait' = [wait EXCEPT ![c] = w]
    <3>1. CASE pending[c] = {}
      BY <3>1 DEF WaitCall, WaitWakes, WaitAgain
    <3>2. CASE pending[c] # {}
      BY <3>2 DEF WaitCall, WaitWakes, WaitAgain
    <3> QED
      BY <3>1, <3>2
  <2>2. \E m \in SUBSET Jobs : waitfor' = [waitfor EXCEPT ![c] = m]
    <3>1. CASE WaitCall(c)
      <4>1. mine \in SUBSET Jobs /\ waitfor' = [waitfor EXCEPT ![c] = mine]
        BY <3>1 DEF WaitCall
      <4> QED
        BY <4>1
    <3>2. CASE WaitWakes(c)
      <4>1. waitfor' = [waitfor EXCEPT ![c] = waitfor[c]] /\ waitfor[c] \in SUBSET Jobs
        BY <2>0, <3>2 DEF WaitWakes
      <4> QED
        BY <4>1
    <3>3. CASE WaitAgain(c)
      <4>1. waitfor' = [waitfor EXCEPT ![c] = {}] /\ {} \in SUBSET Jobs
        BY <3>3 DEF WaitAgain
      <4> QED
        BY <4>1
    <3> QED
      BY <3>1, <3>2, <3>3
  <2> HIDE DEF mine
  <2>3. /\ wait' \in [Clients -> {"never", "idle", "blocked", "returned"}]
        /\ \A d \in Clients \ {c} : wait'[d] = wait[d]
    BY <2>0, <2>1
  <2>4. waitfor' \in [Clients -> SUBSET Jobs] /\ \A d \in Clients \ {c} : waitfor'[d] = waitfor[d]
    BY <2>0, <2>2
  <2> QED
    BY <2>3, <2>4
<1>3. /\ waitfor'[c] \subseteq {j \in Jobs : Owner[j] = c /\ sub[j] = "back"}
      /\ c \notin Java /\ wait'[c] = "returned" => waitfor'[c] \subseteq told[c]
  <2>0. \A j \in Jobs : Owner[j] = c /\ sub[j] = "back" /\ pending[c] = {} => j \in told[c]
    BY DEF WaitInv
  <2>1. CASE WaitCall(c)
    <3>1. /\ waitfor'[c] = {j \in Jobs : Owner[j] = c /\ sub[j] = "back"}
          /\ wait'[c] = IF pending[c] = {} THEN "returned" ELSE "blocked"
      BY <2>1 DEF WaitCall, ClientTypes
    <3> QED
      BY <2>0, <3>1
  <2>2. CASE WaitWakes(c)
    <3>1. waitfor'[c] = waitfor[c] /\ alldone[c]
      BY <2>2 DEF WaitWakes
    <3>2. waitfor[c] \subseteq {j \in Jobs : Owner[j] = c /\ sub[j] = "back"}
      BY DEF WaitInv
    <3>3. c \notin Java => pending[c] = {}
      BY <3>1 DEF WaitInv
    <3> QED
      BY <2>0, <3>1, <3>2, <3>3
  <2>3. CASE WaitAgain(c)
    BY <2>3 DEF WaitAgain, ClientTypes
  <2> QED
    BY <2>1, <2>2, <2>3
<1>4. ClientTypes' /\ FlagTypes'
  BY <1>1, <1>2 DEF ClientTypes, FlagTypes, book, bwait
<1>5. EarlyInv'
  BY <1>1, EarlyAfter DEF EarlyInv, book
<1>6. \A d \in Clients : waitfor'[d] \subseteq {j \in Jobs : Owner[j] = d /\ sub[j] = "back"}
  BY <1>2, <1>3 DEF WaitInv
<1>7. \A d \in Clients \ Java : wait'[d] = "returned" => waitfor'[d] \subseteq told[d]
  BY <1>2, <1>3 DEF WaitInv, WaitSound
<1>8. WaitInv'
  BY <1>1, <1>6, <1>7 DEF WaitInv, WaitSound, book
<1> QED
  BY <1>4, <1>5, <1>8

\* Every step keeps the books.
LEMMA BooksStep ==
    ASSUME LinkTypes, ClientTypes, FlagTypes, EarlyInv, WaitInv, [Next]_vars
    PROVE  ClientTypes' /\ FlagTypes' /\ EarlyInv' /\ WaitInv'
<1> DEFINE states == {"never", "idle", "asking", "answered", "asleep", "woken", "returned"}
           Rest == /\ UNCHANGED booksVars
                   /\ wb' \in [Clients -> states] /\ flag' \in [Clients -> BOOLEAN]
                   /\ heard' \in [Clients -> BOOLEAN] /\ faults' \in 0..MaxFaults
<1>0. /\ wb \in [Clients -> states] /\ flag \in [Clients -> BOOLEAN] /\ heard \in [Clients -> BOOLEAN]
      /\ faults \in 0..MaxFaults /\ MaxFaults \in Nat
  BY EventConstants DEF ClientTypes, FlagTypes
<1>1. ASSUME NEW j \in Jobs, SubmitBack(j) \/ SubmitBackJava(j)
      PROVE  ClientTypes' /\ FlagTypes' /\ EarlyInv' /\ WaitInv'
  BY <1>1, BooksRemember
<1>2. ASSUME NEW c \in Clients, Resolve(c) PROVE ClientTypes' /\ FlagTypes' /\ EarlyInv' /\ WaitInv'
  BY <1>2, BooksResolve
<1>3. ASSUME NEW c \in Clients, Callback(c) PROVE ClientTypes' /\ FlagTypes' /\ EarlyInv' /\ WaitInv'
  BY <1>3, BooksCallback
<1>4. ASSUME NEW c \in Clients, WaitCall(c) \/ WaitWakes(c) \/ WaitAgain(c)
      PROVE  ClientTypes' /\ FlagTypes' /\ EarlyInv' /\ WaitInv'
  BY <1>4, BooksWait
<1>5. ASSUME NEW c \in Clients, BatchEvent(c) PROVE Rest
  <2>1. UNCHANGED booksVars /\ wb' = wb /\ faults' = faults
    BY <1>5 DEF BatchEvent, booksVars, book, waits
  <2>2. flag' = [flag EXCEPT ![c] = wb[c] \notin {"never", "idle", "returned"}]
    BY <1>5 DEF BatchEvent
  <2>3. flag' \in [Clients -> BOOLEAN]
    BY <1>0, <2>2
  <2>4. heard' \in [Clients -> BOOLEAN]
    BY <1>0, <1>5 DEF BatchEvent
  <2> QED
    BY <1>0, <2>1, <2>3, <2>4
<1>6. ASSUME NEW c \in Clients, BatchAsk(c) PROVE Rest
  <2>1. UNCHANGED booksVars /\ heard' = heard /\ faults' = faults
    BY <1>6 DEF BatchAsk, booksVars, book, waits
  <2>2. flag' = [flag EXCEPT ![c] = @ /\ Unfinished] /\ Unfinished \in BOOLEAN
    BY <1>6 DEF BatchAsk, Unfinished
  <2>3. flag' \in [Clients -> BOOLEAN]
    BY <1>0, <2>2
  <2>4. wb' \in [Clients -> states]
    BY <1>0, <1>6 DEF BatchAsk
  <2> QED
    BY <1>0, <2>1, <2>3, <2>4
<1>7. ASSUME NEW c \in Clients, BatchCall(c) \/ BatchSleep(c) \/ BatchWakes(c) \/ BatchClear(c) PROVE Rest
  <2>1. UNCHANGED booksVars /\ heard' = heard /\ faults' = faults
    BY <1>7 DEF BatchCall, BatchSleep, BatchWakes, BatchClear, booksVars, book, waits
  <2>2. wb' \in [Clients -> states]
    BY <1>0, <1>7 DEF BatchCall, BatchSleep, BatchWakes, BatchClear
  <2>3. flag' \in [Clients -> BOOLEAN]
    BY <1>0, <1>7 DEF BatchCall, BatchSleep, BatchWakes, BatchClear
  <2> QED
    BY <1>0, <2>1, <2>2, <2>3
<1>8. ASSUME NEW c \in Clients, Drop(c) \/ FetchFailsPython(c) \/ FetchFailsJava(c) PROVE Rest
  <2>1. UNCHANGED booksVars /\ UNCHANGED bwait /\ faults < MaxFaults /\ faults' = faults + 1
    BY <1>8 DEF Drop, FetchFailsPython, FetchFailsJava, FetchFails, booksVars, book, waits
  <2>2. faults' \in 0..MaxFaults
    BY <1>0, <2>1
  <2> QED
    BY <1>0, <2>1, <2>2 DEF bwait
<1>9. ASSUME NEW c \in Clients, Socket(c) PROVE Rest
  BY <1>0, <1>9 DEF Socket, Connect, CatchUp, Subscribe, booksVars, book, waits, bwait
<1>10. CASE BatchFinish \/ BatchPublish \/ UNCHANGED vars
  <2>1. Rest
    BY <1>0, <1>10 DEF BatchFinish, BatchPublish, vars, booksVars, book, waits, bwait
  <2> QED
    BY <2>1, BooksFrame
<1>11. ASSUME NEW j \in Jobs, Finish(j) \/ Publish(j) \/ WindowPasses(j) PROVE Rest
  BY <1>0, <1>11 DEF Finish, Publish, WindowPasses, booksVars, book, waits, bwait
<1>12. ASSUME NEW j \in Jobs, SubmitPost(j) PROVE ClientTypes' /\ FlagTypes' /\ EarlyInv' /\ WaitInv'
  <2>1. /\ sub' = [sub EXCEPT ![j] = "posting"] /\ sub[j] = "todo"
        /\ UNCHANGED <<hnd, book, calls, waits, bwait, faults>>
    BY <1>12 DEF SubmitPost
  <2>2. ClientTypes' /\ FlagTypes'
    BY <2>1 DEF ClientTypes, FlagTypes, book, waits, bwait
  <2>3. EarlyInv'
    BY <2>1, EarlyAfter DEF EarlyInv, book
  <2>4. \A i \in Jobs : sub'[i] = "back" <=> sub[i] = "back"
    BY <2>1 DEF ClientTypes
  <2>5. WaitInv'
    BY <2>1, <2>4 DEF WaitInv, WaitSound, book, waits
  <2> QED
    BY <2>2, <2>3, <2>5
<1>13. Rest => ClientTypes' /\ FlagTypes' /\ EarlyInv' /\ WaitInv'
  BY BooksFrame
<1> HIDE DEF Rest
<1> QED
  BY <1>1, <1>2, <1>3, <1>4, <1>5, <1>6, <1>7, <1>8, <1>9, <1>10, <1>11, <1>12, <1>13
     DEF Next, Listen, Batching

\* The waiter of a batch: an answer that the batch runs is older than the event of its
\* end, so the event finds whoever acts on that answer waiting.
LEMMA HeardStep ==
    ASSUME ServerTypes, LinkTypes, ClientTypes, FlagTypes, HeardInv, [Next]_vars
    PROVE  HeardInv'
<1>0. batch = "told" => batch' = "told"
  BY ServerStep
<1>1. CASE UNCHANGED bwait
  BY <1>0, <1>1 DEF HeardInv, NoLostWake, bwait
<1>2. ASSUME NEW c \in Clients, BatchEvent(c) PROVE HeardInv'
  <2>1. batch = "told"
    BY <1>2, FirstFrame DEF BatchEvent
  <2>2. \A d \in Clients : heard'[d] => batch' = "told"
    BY <1>0, <2>1
  <2>3. ASSUME NEW d \in Clients, wb'[d] \in {"answered", "asleep"}, heard'[d] PROVE flag'[d]
    <3>1. wb' = wb
      BY <1>2 DEF BatchEvent
    <3>2. CASE d = c
      <4>1. flag' = [flag EXCEPT ![c] = wb[c] \notin {"never", "idle", "returned"}]
        BY <1>2 DEF BatchEvent
      <4>2. wb[c] \notin {"never", "idle", "returned"}
        BY <2>3, <3>1, <3>2
      <4> QED
        BY <3>2, <4>1, <4>2 DEF FlagTypes
    <3>3. CASE d # c
      <4>1. flag'[d] = flag[d] /\ heard'[d] = heard[d]
        BY <1>2, <3>3 DEF BatchEvent, FlagTypes
      <4> QED
        BY <2>3, <3>1, <4>1 DEF HeardInv, NoLostWake
    <3> QED
      BY <3>2, <3>3
  <2> QED
    BY <2>2, <2>3 DEF HeardInv, NoLostWake
<1>3. ASSUME NEW c \in Clients, BatchAsk(c) PROVE HeardInv'
  <2>1. heard' = heard /\ batch' = batch
    BY <1>3 DEF BatchAsk, server
  <2>2. ASSUME NEW d \in Clients, wb'[d] \in {"answered", "asleep"}, heard'[d] PROVE flag'[d]
    <3>1. CASE d = c
      <4>1. wb' = [wb EXCEPT ![c] = IF Unfinished THEN "answered" ELSE "returned"]
        BY <1>3 DEF BatchAsk
      <4>2. Unfinished
        BY <2>2, <3>1, <4>1 DEF ClientTypes
      <4> QED
        BY <2>1, <2>2, <4>2 DEF HeardInv, Unfinished
    <3>2. CASE d # c
      <4>1. flag'[d] = flag[d] /\ wb'[d] = wb[d]
        BY <1>3, <3>2 DEF BatchAsk, FlagTypes, ClientTypes
      <4> QED
        BY <2>1, <2>2, <4>1 DEF HeardInv, NoLostWake
    <3> QED
      BY <3>1, <3>2
  <2> QED
    BY <2>1, <2>2 DEF HeardInv, NoLostWake
<1>4. ASSUME NEW c \in Clients, BatchSleep(c) PROVE HeardInv'
  <2>1. heard' = heard /\ batch' = batch /\ flag' = flag
        /\ wb[c] = "answered" /\ wb' = [wb EXCEPT ![c] = "asleep"]
    BY <1>4 DEF BatchSleep, server
  <2>2. \A d \in Clients : wb'[d] \in {"answered", "asleep"} => wb[d] \in {"answered", "asleep"}
    BY <2>1 DEF ClientTypes
  <2> QED
    BY <2>1, <2>2 DEF HeardInv, NoLostWake
<1>5. ASSUME NEW c \in Clients, BatchCall(c) \/ BatchWakes(c) \/ BatchClear(c) PROVE HeardInv'
  <2>1. heard' = heard /\ batch' = batch
    BY <1>5 DEF BatchCall, BatchWakes, BatchClear, server
  <2>2. /\ wb'[c] \notin {"answered", "asleep"}
        /\ \A d \in Clients \ {c} : wb'[d] = wb[d]
    BY <1>5 DEF BatchCall, BatchWakes, BatchClear, ClientTypes
  <2>3. \A d \in Clients \ {c} : flag'[d] = flag[d]
    BY <1>5 DEF BatchCall, BatchWakes, BatchClear, FlagTypes
  <2> QED
    BY <2>1, <2>2, <2>3 DEF HeardInv, NoLostWake
<1> QED
  BY <1>1, <1>2, <1>3, <1>4, <1>5 DEF Next, vars, BatchFinish, BatchPublish, Finish, Publish,
     WindowPasses, SubmitPost, SubmitBack, SubmitBackJava, Remember, Socket, Connect, CatchUp, Subscribe,
     Listen, Callback, Resolve, Batching, Drop, FetchFailsPython, FetchFailsJava, FetchFails, WaitCall,
     WaitWakes, WaitAgain

-----------------------------------------------------------------------------
\* The whole

LEMMA StreamInit == Init => StreamInv
<1> SUFFICES ASSUME Init PROVE StreamInv
  OBVIOUS
<1> USE EventConstants DEF Init
<1>0. \A S : <<>> \in Seq(S) /\ Len(<<>>) = 0 /\ Items(<<>>) = {} /\ Uniq(<<>>)
  BY DEF Items, Uniq
<1>1. ServerTypes
  BY DEF ServerTypes
<1>2. LinkTypes
  <2>1. wire \in [Clients -> Seq(Sendable)]
    BY <1>0
  <2> QED
    BY <2>1 DEF LinkTypes
<1>3. ClientTypes
  <2>1. early \in [Clients -> Seq(Jobs)]
    BY <1>0
  <2>2. wb \in [Clients -> {"never", "idle", "asking", "answered", "asleep", "woken", "returned"}]
        /\ wait \in [Clients -> {"never", "idle", "blocked", "returned"}]
        /\ sub \in [Jobs -> {"never", "todo", "posting", "back"}]
    OBVIOUS
  <2> QED
    BY <2>1, <2>2 DEF ClientTypes
<1>4. FlagTypes
  BY DEF FlagTypes
<1>5. EarlyInv
  BY <1>0 DEF EarlyInv
<1>6. WaitInv
  BY DEF WaitInv, WaitSound
<1>7. HeardInv
  BY DEF HeardInv, NoLostWake
<1> QED
  BY <1>1, <1>2, <1>3, <1>4, <1>5, <1>6, <1>7 DEF StreamInv

LEMMA StreamStep == StreamInv /\ [Next]_vars => StreamInv'
<1> SUFFICES ASSUME StreamInv, [Next]_vars PROVE StreamInv'
  OBVIOUS
<1>1. ServerTypes /\ LinkTypes /\ ClientTypes /\ FlagTypes /\ EarlyInv /\ WaitInv /\ HeardInv
  BY DEF StreamInv
<1>2. ServerTypes'
  BY <1>1, ServerStep
<1>3. LinkTypes'
  BY <1>1, LinkStep
<1>4. ClientTypes' /\ FlagTypes' /\ EarlyInv' /\ WaitInv'
  BY <1>1, BooksStep
<1>5. HeardInv'
  BY <1>1, HeardStep
<1> QED
  BY <1>2, <1>3, <1>4, <1>5 DEF StreamInv

LEMMA StreamSound == StreamInv => WaitersSound
<1> SUFFICES ASSUME StreamInv PROVE WaitersSound
  OBVIOUS
<1>0. ServerTypes /\ LinkTypes /\ ClientTypes /\ FlagTypes /\ EarlyInv /\ WaitInv /\ HeardInv
  BY DEF StreamInv
<1>1. \A c \in Clients : Items(wire[c]) \subseteq Frames
  <2> TAKE c \in Clients
  <2>1. Items(wire[c]) \subseteq Sendable
    BY <1>0, SeqIn DEF LinkTypes
  <2> QED
    BY <2>1 DEF Sendable, Frames
<1>2. \A c \in Clients : /\ Items(early[c]) \subseteq Jobs
                         /\ Len(early[c]) = Cardinality(Items(early[c])) /\ Len(early[c]) <= EarlyMax
  <2> TAKE c \in Clients
  <2>1. early[c] \in Seq(Jobs) /\ Uniq(early[c]) /\ Len(early[c]) <= EarlyMax
    BY <1>0 DEF ClientTypes, EarlyInv
  <2>2. Len(early[c]) = Cardinality(Items(early[c])) /\ Items(early[c]) \subseteq Jobs
    BY <2>1, UniqCount, SeqIn
  <2> QED
    BY <2>1, <2>2
<1>3. {snap, missed, pending, told, got, waitfor} \subseteq [Clients -> SUBSET Jobs]
  BY <1>0 DEF LinkTypes, ClientTypes
<1>4. {alldone, flag, heard} \subseteq [Clients -> BOOLEAN]
  BY <1>0 DEF FlagTypes
<1>5. TypeOK
  BY <1>0, <1>1, <1>2, <1>3, <1>4 DEF TypeOK, ServerTypes, LinkTypes, ClientTypes
<1> QED
  BY <1>0, <1>5 DEF WaitersSound, WaitInv, HeardInv

\* Whoever waits is woken neither too soon nor never: when Python's wait() returns, each
\* job whose submit had returned has had its callback, whatever order submit, _handle_event
\* and _resolve come in and whatever drops and replays; wait_batch() never sleeps through
\* the event that ends its batch; and _finished_early stays within its cap.
THEOREM WaitersAreWoken == Spec => []WaitersSound
<1>1. Init => StreamInv
  BY StreamInit
<1>2. StreamInv /\ [Next]_vars => StreamInv'
  BY StreamStep
<1>3. StreamInv => WaitersSound
  BY StreamSound
<1> QED
  BY <1>1, <1>2, <1>3, PTL DEF Spec
=============================================================================
