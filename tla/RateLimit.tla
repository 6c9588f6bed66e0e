----------------------------- MODULE RateLimit ------------------------------
(***************************************************************************)
(* The GCRA limiter of app/services/rate_limit.py: one Redis key per user  *)
(* and limit class holds the theoretical arrival time (tat) of the next    *)
(* request and expires by itself.  The script runs on the Redis server,    *)
(* atomically and with its clock, so the state is kept relative to it:     *)
(* tat - now in ticks, of which Second make a second.                      *)
(***************************************************************************)
EXTENDS Integers

CONSTANTS
    Users,
    Limit,     \* [t, burst]: the emission interval 60 / per_minute in ticks; 0 for a rate of 0
    NoKey      \* the key is not there

ASSUME LimitAssumption ==
    /\ Limit \in [t : Nat, burst : Nat]
    /\ NoKey \notin Int

VARIABLES
    rest,      \* per user: tat - now, or NoKey; what lies in the past counts as -1
    ttl        \* per user: what is left of the key's EX

rlVars == <<rest, ttl>>

Second == 2

Tau(l) == l.t * l.burst
\* The script's tat - now, after its "tat == nil or tat < now".
Debt(u) == IF rest[u] = NoKey \/ rest[u] < 0 THEN 0 ELSE rest[u]
AllowsOneMore(u, l) == l.t > 0 /\ Debt(u) <= Tau(l) + l.t
Allows(u, l) == l.t > 0 /\ Debt(u) <= Tau(l)
\* EX math.ceil(tau + T) + 1, in ticks.
Expiry(l) == Second * ((Tau(l) + l.t + Second - 1) \div Second + 1)

RLInit == rest = [u \in Users |-> NoKey] /\ ttl = [u \in Users |-> 0]

\* check: the request is let through and its cost is booked ...
Admit(u, l) ==
    /\ Allows(u, l)
    /\ rest' = [rest EXCEPT ![u] = Debt(u) + l.t]
    /\ ttl' = [ttl EXCEPT ![u] = Expiry(l)]

\* ... or refused, with the seconds to wait; nothing is written.
Refused(u, l) == ~Allows(u, l) /\ UNCHANGED rlVars
RetryAfter(u, l) == IF l.t = 0 THEN 60 ELSE (Debt(u) - Tau(l) + Second - 1) \div Second

\* The server's clock; a key whose EX is over is gone.
RLTick ==
    /\ rest' = [u \in Users |-> IF rest[u] = NoKey \/ ttl[u] <= 1 THEN NoKey
                                ELSE IF rest[u] < 0 THEN -1 ELSE rest[u] - 1]
    /\ ttl' = [u \in Users |-> IF ttl[u] > 0 THEN ttl[u] - 1 ELSE 0]

RLNext == RLTick \/ \E u \in Users : Admit(u, Limit) \/ Refused(u, Limit)
RLSpec == RLInit /\ [][RLNext]_rlVars

-----------------------------------------------------------------------------
\* The key is typed, and it outlives the debt it records.
RLTypeOK ==
    /\ rest \in [Users -> Int \cup {NoKey}] /\ ttl \in [Users -> Nat]
    /\ \A u \in Users : rest[u] # NoKey => rest[u] >= -1 /\ ttl[u] > 0

\* Nothing is forgotten by the expiry of a key: a debt that is left is smaller than
\* what is left of the key's life.
DebtOutlived == \A u \in Users : rest[u] # NoKey => ttl[u] > rest[u]

\* A user is never in debt for more than the burst and one request.
DebtBounded == \A u \in Users : Debt(u) <= Tau(Limit) + Limit.t

Full == Tau(Limit) + Limit.t
Level == [u \in Users |-> Full - Debt(u)]
Bucket == INSTANCE TokenBucket WITH Capacity <- Full, Cost <- Limit.t, level <- Level
\* The limiter, expiring keys included, is a bucket of burst + 1 requests that
\* refills by one request per emission interval (docstring of check).
ActsAsBucket == Bucket!Spec
=============================================================================
