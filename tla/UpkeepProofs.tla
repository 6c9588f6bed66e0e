----------------------------- MODULE UpkeepProofs ------------------------------
(***************************************************************************)
(* Theorems about the far side of the gateway (Box, Engines), the results  *)
(* it keeps (Results) and the load it reports (Load), for any schedule,    *)
(* week and drain, any engines, releases and outages, any jobs, TTLs and   *)
(* storage cap, and any counters.                                          *)
(***************************************************************************)
EXTENDS Box, Engines, Results, Load, Functions, FiniteSetTheorems, WellFoundedInduction, TLAPS

-----------------------------------------------------------------------------
\* Division and remainder, and the places of a week.

LEMMA ModRange ==
    ASSUME NEW n \in Nat, NEW w \in Nat \ {0}
    PROVE  n % w \in 0..(w - 1)
OBVIOUS

LEMMA ModSmall ==
    ASSUME NEW w \in Nat \ {0}, NEW n \in 0..(w - 1)
    PROVE  n % w = n
OBVIOUS

LEMMA ModWrap ==
    ASSUME NEW w \in Nat \ {0}, NEW n \in w..(2 * w - 1)
    PROVE  n % w = n - w
OBVIOUS

LEMMA DivMod ==
    ASSUME NEW w \in Nat \ {0}, NEW n \in Nat
    PROVE  /\ n \div w \in Nat /\ n % w \in 0..(w - 1)
           /\ n = ((n \div w) * w) + (n % w)
OBVIOUS

LEMMA Place ==
    ASSUME NEW w \in Nat \ {0}, NEW q \in Nat, NEW r \in 0..(w - 1)
    PROVE  ((q * w) + r) \div w = q /\ ((q * w) + r) % w = r
OBVIOUS

LEMMA TimesGrow ==
    ASSUME NEW a \in Nat, NEW b \in Nat, a >= b, NEW m \in Nat
    PROVE  a * m >= b * m
OBVIOUS

\* A negative remainder is brought up by the modulus.
LEMMA ModNegative ==
    ASSUME NEW w \in Nat \ {0}, NEW n \in (1 - w)..(-1)
    PROVE  n % w = n + w
OBVIOUS

-----------------------------------------------------------------------------
\* The hours of a box: what the scheduler parses is what its schedule means.

Days == 0..(DaysPerWeek - 1)

LEMMA WeekIsLong ==
    /\ DaysPerWeek \in Nat \ {0} /\ MinutesPerDay \in Nat \ {0} /\ Week \in Nat \ {0}
    /\ Drain \in Nat /\ HealthTTL \in Nat /\ MaxBoxMishaps \in Nat /\ NoDeadline \notin Nat
    /\ StopTunnel \in BOOLEAN
<1>1. DaysPerWeek \in Nat \ {0} /\ MinutesPerDay \in Nat \ {0}
  BY BoxAssumption
<1>2. \A a, b \in Nat \ {0} : a * b \in Nat \ {0}
  OBVIOUS
<1> QED
  BY <1>1, <1>2, BoxAssumption DEF Week

\* Day and Minute of a minute of the week.
LEMMA MinuteOfWeek ==
    ASSUME NEW t \in 0..(Week - 1)
    PROVE  /\ t \div MinutesPerDay \in Days /\ t % MinutesPerDay \in 0..(MinutesPerDay - 1)
           /\ t = ((t \div MinutesPerDay) * MinutesPerDay) + (t % MinutesPerDay)
<1> DEFINE q == t \div MinutesPerDay
           r == t % MinutesPerDay
<1>1. t \in Nat /\ t < Week
  BY WeekIsLong
<1>2. q \in Nat /\ r \in 0..(MinutesPerDay - 1) /\ t = (q * MinutesPerDay) + r
  BY <1>1, WeekIsLong, DivMod
<1> HIDE DEF q, r
<1>3. ASSUME q >= DaysPerWeek PROVE FALSE
  <2>1. q * MinutesPerDay >= DaysPerWeek * MinutesPerDay
    BY <1>2, <1>3, WeekIsLong, TimesGrow
  <2>2. q * MinutesPerDay \in Int /\ DaysPerWeek * MinutesPerDay \in Int
    BY <1>2, WeekIsLong
  <2> QED
    BY <1>1, <1>2, <2>1, <2>2, WeekIsLong DEF Week
<1>4. q \in Days
  BY <1>2, <1>3, WeekIsLong DEF Days
<1> QED
  BY <1>2, <1>4 DEF q, r

\* The minute that is x minutes after midnight of day d, if that is today or tomorrow.
LEMMA MinutesLater ==
    ASSUME NEW d \in Days, NEW x \in 0..(2 * MinutesPerDay - 1), NEW t, t = (d * MinutesPerDay + x) % Week
    PROVE  /\ t \in 0..(Week - 1)
           /\ x < MinutesPerDay => t \div MinutesPerDay = d /\ t % MinutesPerDay = x
           /\ x >= MinutesPerDay =>
                /\ t % MinutesPerDay = x - MinutesPerDay
                /\ t \div MinutesPerDay = IF d = DaysPerWeek - 1 THEN 0 ELSE d + 1
<1> DEFINE M == MinutesPerDay
           W == Week
           D == DaysPerWeek
           dm == d * M
<1>0. /\ M \in Nat \ {0} /\ D \in Nat \ {0} /\ W \in Nat \ {0} /\ W = D * M /\ d \in Nat /\ d <= D - 1
      /\ x \in Nat /\ x <= 2 * M - 1
  BY WeekIsLong DEF Week, Days
<1>1. dm \in Nat
  BY <1>0
<1>2. (d + 1) * M = dm + M /\ (d + 2) * M = dm + 2 * M
  BY <1>0
<1>3. t = (dm + x) % W /\ dm + x \in Nat
  BY <1>0, <1>1
<1>4. t \in 0..(W - 1)
  BY <1>0, <1>3, ModRange
<1>5. dm + M <= W
  BY <1>0, <1>2, TimesGrow
<1>6. \A q \in Nat, r \in 0..(M - 1) : ((q * M) + r) \div M = q /\ ((q * M) + r) % M = r
  BY <1>0, Place
<1>7. CASE x < M
  <2>1. dm + x \in 0..(W - 1)
    BY <1>0, <1>1, <1>5, <1>7
  <2>2. t = dm + x
    BY <1>0, <1>3, <2>1, ModSmall
  <2>3. x \in 0..(M - 1)
    BY <1>0, <1>7
  <2>4. t \div M = d /\ t % M = x
    BY <1>0, <1>6, <2>2, <2>3
  <2> QED
    BY <1>0, <1>4, <1>7, <2>4
<1>8. CASE x >= M /\ d # D - 1
  <2>1. dm + 2 * M <= W
    <3>1. d + 2 \in Nat /\ D >= d + 2
      BY <1>0, <1>8
    <3>2. D * M >= (d + 2) * M
      BY <1>0, <3>1, TimesGrow
    <3> QED
      BY <1>0, <1>2, <3>2
  <2>2. dm + x \in 0..(W - 1)
    BY <1>0, <1>1, <2>1
  <2>3. t = dm + x
    BY <1>0, <1>3, <2>2, ModSmall
  <2>4. x - M \in 0..(M - 1) /\ d + 1 \in Nat
    BY <1>0, <1>8
  <2>5. t = ((d + 1) * M) + (x - M)
    BY <1>0, <1>1, <1>2, <2>3
  <2>6. t \div M = d + 1 /\ t % M = x - M
    BY <1>6, <2>4, <2>5
  <2> QED
    BY <1>0, <1>4, <1>8, <2>6
<1>9. CASE x >= M /\ d = D - 1
  <2>1. dm + M = W
    BY <1>0, <1>2, <1>9
  <2>2. dm + x \in W..(2 * W - 1) /\ dm + x - W = x - M /\ x - M \in 0..(M - 1)
    BY <1>0, <1>1, <1>9, <2>1
  <2>3. t = x - M
    <3> DEFINE y == dm + x
    <3>1. y \in W..(2 * W - 1) /\ t = y % W /\ y - W = x - M
      BY <1>0, <1>1, <1>3, <2>2
    <3> HIDE DEF y
    <3>2. y % W = y - W
      BY <1>0, <3>1, ModWrap
    <3> QED
      BY <3>1, <3>2
  <2>4. t = (0 * M) + (x - M)
    BY <1>0, <2>2, <2>3
  <2>5. t \div M = 0 /\ t % M = x - M
    BY <1>6, <2>2, <2>4
  <2> QED
    BY <1>0, <1>4, <1>9, <2>5
<1> QED
  BY <1>0, <1>7, <1>8, <1>9

\* parse_days: the days of a range, one that wraps through Sunday included.
LEMMA RangeParsed ==
    ASSUME NEW a \in Days, NEW b \in Days, NEW d \in Days
    PROVE  (\E i \in 0..((b - a) % DaysPerWeek) : d = (a + i) % DaysPerWeek)
             <=> IF a <= b THEN a <= d /\ d <= b ELSE d >= a \/ d <= b
<1> DEFINE D == DaysPerWeek
           n == (b - a) % D
           in == IF a <= b THEN a <= d /\ d <= b ELSE d >= a \/ d <= b
<1>0. /\ D \in Nat \ {0} /\ a \in 0..(D - 1) /\ b \in 0..(D - 1) /\ d \in 0..(D - 1)
      /\ a \in Nat /\ b \in Nat /\ d \in Nat
  BY WeekIsLong DEF Days
<1>1. n = IF a <= b THEN b - a ELSE b - a + D
  <2>1. CASE a <= b
    <3>1. b - a \in 0..(D - 1)
      BY <1>0, <2>1
    <3> QED
      BY <1>0, <2>1, <3>1, ModSmall
  <2>2. CASE a > b
    <3>1. b - a \in (1 - D)..(-1)
      BY <1>0, <2>2
    <3> QED
      BY <1>0, <2>2, <3>1, ModNegative
  <2> QED
    BY <1>0, <2>1, <2>2
<1>2. n \in 0..(D - 1)
  BY <1>0, <1>1
<1> HIDE DEF n
<1>3. ASSUME NEW i \in 0..n PROVE (a + i) % D = IF a + i < D THEN a + i ELSE a + i - D
  <2>1. CASE a + i < D
    <3>1. a + i \in 0..(D - 1)
      BY <1>0, <1>2, <2>1
    <3> QED
      BY <1>0, <2>1, <3>1, ModSmall
  <2>2. CASE a + i >= D
    <3> DEFINE y == a + i
    <3>1. y \in D..(2 * D - 1)
      BY <1>0, <1>2, <2>2
    <3> HIDE DEF y
    <3>2. y % D = y - D
      BY <1>0, <3>1, ModWrap
    <3> QED
      BY <1>0, <1>2, <2>2, <3>2 DEF y
  <2> QED
    BY <1>0, <1>2, <2>1, <2>2
<1>4. ASSUME NEW i \in 0..n, d = (a + i) % D PROVE in
  BY <1>0, <1>1, <1>2, <1>3, <1>4
<1>5. ASSUME in PROVE \E i \in 0..n : d = (a + i) % D
  <2> DEFINE i == IF d >= a THEN d - a ELSE d - a + D
  <2>1. i \in 0..n
    BY <1>0, <1>1, <1>5
  <2>2. (a + i) % D = IF a + i < D THEN a + i ELSE a + i - D
    BY <1>3, <2>1
  <2>3. d = (a + i) % D
    BY <1>0, <2>2
  <2> QED
    BY <2>1, <2>3
<1> QED
  BY <1>4, <1>5 DEF n

LEMMA DaysParsed ==
    ASSUME NEW ranges, ranges \subseteq Days \X Days, NEW d \in Days
    PROVE  d \in ParseDays(ranges)
             <=> \E r \in ranges : IF r[1] <= r[2] THEN r[1] <= d /\ d <= r[2] ELSE d >= r[1] \/ d <= r[2]
<1>1. d \in ParseDays(ranges)
        <=> \E r \in ranges : \E i \in 0..((r[2] - r[1]) % DaysPerWeek) : d = (r[1] + i) % DaysPerWeek
  BY DEF ParseDays
<1>2. \A r \in ranges : r[1] \in Days /\ r[2] \in Days
  OBVIOUS
<1>3. \A r \in ranges :
        (\E i \in 0..((r[2] - r[1]) % DaysPerWeek) : d = (r[1] + i) % DaysPerWeek)
           <=> IF r[1] <= r[2] THEN r[1] <= d /\ d <= r[2] ELSE d >= r[1] \/ d <= r[2]
  <2> TAKE r \in ranges
  <2>1. r[1] \in Days /\ r[2] \in Days
    BY <1>2
  <2> QED
    BY <2>1, RangeParsed
<1> QED
  BY <1>1, <1>3

\* The windows of an entry, with days as they were parsed.
Window(e) == [days |-> ParseDays(e.days), start |-> e.start, end |-> e.end]
In(w, day, minute, before) ==
    IF w.end > w.start
    THEN day \in w.days /\ w.start <= minute /\ minute < w.end
    ELSE (day \in w.days /\ minute >= w.start) \/ (before \in w.days /\ minute < w.end)

\* is_up over one window, and the minutes its entry means.
LEMMA EntryCovered ==
    ASSUME NEW e, e.days \subseteq Days \X Days, e.start \in 0..MinutesPerDay, e.end \in 0..MinutesPerDay,
           e.start # e.end, now \in 0..(Week - 1)
    PROVE  In(Window(e), Day, Minute, Yesterday) <=> now \in Minutes(e)
<1> DEFINE M == MinutesPerDay
           D == DaysPerWeek
           up == In(Window(e), Day, Minute, Yesterday)
           a == e.start
           b == e.end
           n == Lasts(e)
<1>0. /\ M \in Nat \ {0} /\ D \in Nat \ {0} /\ a \in 0..M /\ b \in 0..M /\ a # b /\ a \in Nat /\ b \in Nat
      /\ n = IF b > a THEN b - a ELSE b - a + M
  BY WeekIsLong DEF Lasts
<1>1. Day \in Days /\ Minute \in 0..(M - 1) /\ now = (Day * M) + Minute /\ Minute \in Nat
  <2>1. Day \in Days /\ Minute \in 0..(M - 1) /\ now = (Day * M) + Minute
    BY MinuteOfWeek DEF Day, Minute
  <2> QED
    BY <1>0, <2>1
<1>2. /\ Yesterday \in Days
      /\ Yesterday = IF Day = 0 THEN D - 1 ELSE Day - 1
  <2>1. CASE Day = 0
    <3>1. D - 1 \in 0..(D - 1)
      BY <1>0
    <3>2. (D - 1) % D = D - 1
      BY <1>0, <3>1, ModSmall
    <3>3. Day + D - 1 = D - 1
      BY <1>0, <2>1
    <3> QED
      BY <2>1, <3>1, <3>2, <3>3 DEF Yesterday, Days
  <2>2. CASE Day # 0
    <3> DEFINE y == Day + D - 1
    <3>1. y \in D..(2 * D - 1) /\ y - D = Day - 1 /\ Day - 1 \in 0..(D - 1)
      BY <1>0, <1>1, <2>2 DEF Days
    <3>2. Yesterday = y % D
      BY DEF Yesterday
    <3> HIDE DEF y
    <3>3. y % D = y - D
      BY <1>0, <3>1, ModWrap
    <3> QED
      BY <2>2, <3>1, <3>2, <3>3 DEF Days
  <2> QED
    BY <2>1, <2>2
<1>3. \A d \in Days : d \in ParseDays(e.days) <=> OnDay(e, d)
  BY DaysParsed DEF OnDay
<1>4. /\ OnDay(e, Day) <=> Day \in ParseDays(e.days)
      /\ OnDay(e, Yesterday) <=> Yesterday \in ParseDays(e.days)
  BY <1>1, <1>2, <1>3
<1>5. up <=> IF b > a THEN OnDay(e, Day) /\ a <= Minute /\ Minute < b
             ELSE (OnDay(e, Day) /\ Minute >= a) \/ (OnDay(e, Yesterday) /\ Minute < b)
  BY <1>4 DEF In, Window
<1>6. now \in Minutes(e)
        <=> \E d \in Days : OnDay(e, d) /\ \E i \in 0..(n - 1) : now = (d * M + a + i) % Week
  BY DEF Minutes, Days
<1> HIDE DEF n, up, a, b
<1>7. ASSUME NEW d \in Days, OnDay(e, d), NEW i \in 0..(n - 1), now = (d * M + a + i) % Week PROVE up
  <2> DEFINE x == a + i
  <2>1. x \in 0..(2 * M - 1) /\ (x < M => a <= x /\ (b > a => x < b))
        /\ (x >= M => ~(b > a) /\ x - M < b)
    BY <1>0
  <2>2. d * M + a + i = d * M + x
    BY <1>0, WeekIsLong DEF Days
  <2>3. now = (d * M + x) % Week
    BY <1>7, <2>2
  <2> HIDE DEF x
  <2>4. /\ x < M => Day = d /\ Minute = x
        /\ x >= M => Minute = x - M /\ Day = IF d = D - 1 THEN 0 ELSE d + 1
    BY <2>1, <2>3, MinutesLater DEF Day, Minute
  <2>5. x >= M => Yesterday = d
    BY <1>0, <1>2, <2>4 DEF Days
  <2>6. x < M => up
    <3>1. x < M => OnDay(e, Day) /\ a <= Minute /\ (b > a => Minute < b) /\ Minute >= a
      BY <1>0, <1>7, <2>1, <2>4
    <3> QED
      BY <1>5, <3>1
  <2>7. x >= M => up
    BY <1>0, <1>5, <1>7, <2>1, <2>4, <2>5
  <2> QED
    BY <1>0, <2>1, <2>6, <2>7
<1>8. ASSUME up PROVE \E d \in Days : OnDay(e, d) /\ \E i \in 0..(n - 1) : now = (d * M + a + i) % Week
  <2>1. CASE OnDay(e, Day) /\ a <= Minute /\ (b > a => Minute < b)
    <3>1. Minute - a \in 0..(n - 1)
      BY <1>0, <1>1, <2>1
    <3>2. Day * M + a + (Minute - a) = now
      BY <1>0, <1>1 DEF Days
    <3>3. now % Week = now
      BY WeekIsLong, ModSmall
    <3> QED
      BY <1>1, <2>1, <3>1, <3>2, <3>3
  <2>2. CASE OnDay(e, Yesterday) /\ ~(b > a) /\ Minute < b
    <3> DEFINE i == M - a + Minute
    <3>1. i \in 0..(n - 1) /\ a + i = M + Minute
      BY <1>0, <1>1, <2>2
    <3>2. Yesterday * M + a + i = Yesterday * M + (M + Minute)
      BY <1>0, <1>1, <1>2, <3>1 DEF Days
    <3>3. now = (Yesterday * M + (M + Minute)) % Week
      <4> DEFINE x == M + Minute
                 t == (Yesterday * M + x) % Week
      <4>1. x \in 0..(2 * M - 1) /\ x >= M /\ x - M = Minute
        BY <1>0, <1>1
      <4> HIDE DEF x
      <4>2. t \in 0..(Week - 1) /\ t % M = Minute
            /\ t \div M = IF Yesterday = D - 1 THEN 0 ELSE Yesterday + 1
        BY <1>2, <4>1, MinutesLater
      <4>3. t \div M = Day
        BY <1>0, <1>1, <1>2, <4>2 DEF Days
      <4>4. t = ((t \div M) * M) + (t % M)
        BY <4>2, MinuteOfWeek
      <4>5. t = now
        BY <1>1, <4>2, <4>3, <4>4
      <4> QED
        BY <4>5 DEF x
    <3> QED
      BY <1>2, <2>2, <3>1, <3>2, <3>3
  <2> QED
    BY <1>0, <1>1, <1>5, <1>8, <2>1, <2>2
<1> QED
  BY <1>6, <1>7, <1>8 DEF n, up, a, b

LEMMA CoveredMinutes ==
    ASSUME text \in Schedules, Parses(text), windows = ParseSchedule(text), now \in 0..(Week - 1)
    PROVE  UpAsScheduled
<1>0. text.word \in {"always", "never", "entries"}
  BY BoxAssumption
<1>1. Day \in Days /\ Minute \in 0..(MinutesPerDay - 1) /\ MinutesPerDay \in Nat
  BY WeekIsLong, MinuteOfWeek DEF Day, Minute
<1>2. IsUp <=> \E w \in windows : In(w, Day, Minute, Yesterday)
  BY DEF IsUp, In
<1>3. CASE text.word = "always"
  <2>1. windows = {[days |-> Days, start |-> 0, end |-> MinutesPerDay]}
    BY <1>3 DEF ParseSchedule, Days
  <2>2. In([days |-> Days, start |-> 0, end |-> MinutesPerDay], Day, Minute, Yesterday)
    BY <1>1, WeekIsLong DEF In
  <2>3. Covered = 0..(Week - 1)
    BY <1>3 DEF Covered
  <2> QED
    BY <1>2, <2>1, <2>2, <2>3 DEF UpAsScheduled
<1>4. CASE text.word = "never"
  <2>1. windows = {} /\ Covered = {}
    BY <1>4 DEF ParseSchedule, Covered
  <2> QED
    BY <1>2, <2>1 DEF UpAsScheduled
<1>5. CASE text.word = "entries"
  <2>1. windows = {Window(e) : e \in text.entries}
    BY <1>5 DEF ParseSchedule, Window
  <2>2. Covered = UNION {Minutes(e) : e \in text.entries}
    BY <1>5 DEF Covered
  <2>3. \A e \in text.entries : In(Window(e), Day, Minute, Yesterday) <=> now \in Minutes(e)
    <3> TAKE e \in text.entries
    <3>1. e.days \subseteq Days \X Days
      BY BoxAssumption DEF Days
    <3>2. e.start \in 0..MinutesPerDay /\ e.end \in 0..MinutesPerDay /\ e.start # e.end
      BY <1>5 DEF Parses
    <3> QED
      BY <3>1, <3>2, EntryCovered
  <2>4. IsUp <=> \E e \in text.entries : In(Window(e), Day, Minute, Yesterday)
    BY <1>2, <2>1
  <2> QED
    BY <2>2, <2>3, <2>4 DEF UpAsScheduled
<1> QED
  BY <1>0, <1>3, <1>4, <1>5

-----------------------------------------------------------------------------
\* The drain of a box.

BoxTypes ==
    /\ text \in Schedules /\ Parses(text) /\ windows = ParseSchedule(text) /\ now \in 0..(Week - 1)
    /\ gate \in BOOLEAN /\ engine \in BOOLEAN /\ tunnel \in BOOLEAN /\ made \in BOOLEAN /\ health \in BOOLEAN
    /\ left \in 0..Drain \cup {NoDeadline} /\ at \in {"idle", "starting", "stopping"}
    /\ hage \in 0..HealthTTL /\ boxMishaps \in 0..MaxBoxMishaps
    /\ page \in [BoxPages -> {"queued", "posted", "running", "done"}]
    /\ pageAge \in [BoxPages -> 0..Drain]

\* While the gate is closed and the drain clock runs, what it still has to run covers what
\* the pages on the box lack of a whole drain; the engine is stopped once it has run out.
DrainInv ==
    /\ StopTunnel => (tunnel <=> engine)
    /\ Drain > 0 /\ at = "stopping" => gate /\ left = 0
    /\ gate /\ left # NoDeadline => \A p \in OnBox : pageAge[p] + left >= Drain

BoxInv == BoxTypes /\ DrainInv

\* What a tick may do, from what it observes.
LEMMA Planned ==
    ASSUME BoxTypes
    PROVE  /\ Plan = "stop_engine" => engine /\ gate /\ left = 0
           /\ Plan = "close_stop" => ~engine \/ Drain = 0
<1>0. Drain \in Nat /\ engine \in BOOLEAN /\ gate \in BOOLEAN /\ IsUp \in BOOLEAN
  BY WeekIsLong DEF BoxTypes, IsUp
<1>1. CASE IsUp
  BY <1>0, <1>1 DEF Plan
<1>2. CASE ~IsUp /\ ~engine
  BY <1>0, <1>2 DEF Plan
<1>3. CASE ~IsUp /\ engine /\ Drain = 0
  BY <1>0, <1>3 DEF Plan
<1>4. CASE ~IsUp /\ engine /\ Drain > 0
  BY <1>0, <1>4 DEF Plan
<1> QED
  BY <1>0, <1>1, <1>2, <1>3, <1>4

LEMMA BoxInitInv == BoxInit => BoxInv
<1> SUFFICES ASSUME BoxInit PROVE BoxInv
  OBVIOUS
<1>1. BoxTypes
  <2>1. /\ text \in Schedules /\ Parses(text) /\ windows = ParseSchedule(text) /\ now \in 0..(Week - 1)
        /\ boxMishaps \in 0..MaxBoxMishaps /\ hage \in 0..HealthTTL
        /\ page \in [BoxPages -> {"queued", "posted", "running", "done"}]
        /\ pageAge \in [BoxPages -> 0..Drain]
    BY WeekIsLong DEF BoxInit
  <2>2. /\ gate = FALSE /\ engine = TRUE /\ tunnel = TRUE /\ made = TRUE /\ health = FALSE
        /\ left = NoDeadline /\ at = "idle"
    BY DEF BoxInit
  <2> QED
    BY <2>1, <2>2 DEF BoxTypes
<1>2. DrainInv
  BY WeekIsLong DEF BoxInit, DrainInv
<1> QED
  BY <1>1, <1>2 DEF BoxInv

LEMMA ClockInv == BoxInv /\ ClockTick => BoxInv'
<1> SUFFICES ASSUME BoxInv, ClockTick PROVE BoxInv'
  OBVIOUS
<1> USE WeekIsLong
<1>1. UNCHANGED <<text, windows, gate, engine, tunnel, made, at, health, page, boxMishaps>>
  BY DEF ClockTick
<1>2. now' \in 0..(Week - 1)
  <2>1. now + 1 \in Nat /\ now' = (now + 1) % Week
    BY DEF BoxInv, BoxTypes, ClockTick
  <2> QED
    BY <2>1, ModRange
<1>3. /\ left = NoDeadline => left' = NoDeadline
      /\ left # NoDeadline => /\ left \in 0..Drain /\ left' \in 0..Drain
                              /\ left' = IF left > 0 THEN left - 1 ELSE left
  BY DEF BoxInv, BoxTypes, ClockTick
<1>4. hage' \in 0..HealthTTL
  BY DEF BoxInv, BoxTypes, ClockTick
<1>5. /\ pageAge' \in [BoxPages -> 0..Drain]
      /\ \A p \in BoxPages : p \in OnBox => pageAge'[p] = IF pageAge[p] < Drain THEN pageAge[p] + 1 ELSE pageAge[p]
  BY DEF BoxInv, BoxTypes, ClockTick
<1>6. BoxTypes'
  BY <1>1, <1>2, <1>3, <1>4, <1>5 DEF BoxInv, BoxTypes, Parses, ParseSchedule
<1>7. OnBox' = OnBox /\ OnBox \subseteq BoxPages
  BY <1>1 DEF OnBox
<1>8. ASSUME gate, left' # NoDeadline, NEW p \in OnBox PROVE pageAge'[p] + left' >= Drain
  <2>1. pageAge[p] \in 0..Drain /\ left \in 0..Drain /\ pageAge[p] + left >= Drain
    BY <1>3, <1>7, <1>8 DEF BoxInv, BoxTypes, DrainInv
  <2>2. pageAge'[p] = IF pageAge[p] < Drain THEN pageAge[p] + 1 ELSE pageAge[p]
    BY <1>5, <1>7
  <2>3. left' = IF left > 0 THEN left - 1 ELSE left
    BY <1>3, <1>8
  <2> QED
    BY <2>1, <2>2, <2>3
<1>9. Drain > 0 /\ at = "stopping" => gate /\ left' = 0
  BY <1>3 DEF BoxInv, DrainInv
<1>10. StopTunnel => (tunnel' <=> engine')
  BY <1>1 DEF BoxInv, DrainInv
<1> QED
  BY <1>1, <1>6, <1>7, <1>8, <1>9, <1>10 DEF BoxInv, DrainInv

\* The pages on the box, their ages and the deadline are what DrainInv looks at.
LEMMA SchedulerInv ==
    ASSUME BoxInv, \/ TickStart \/ DockerStart \/ TickClose \/ TickStop \/ DockerStop
                   \/ DockerFails \/ SchedulerRestarts \/ ComposeUp \/ ComposeDown
    PROVE  BoxInv'
<1> USE WeekIsLong
<1>0. BoxTypes /\ DrainInv
  BY DEF BoxInv
<1>1. UNCHANGED <<text, windows, now, health, hage, page, pageAge>>
  BY DEF TickStart, DockerStart, TickClose, TickStop, DockerStop, DockerFails, SchedulerRestarts,
         ComposeUp, ComposeDown
<1>2. OnBox' = OnBox /\ OnBox \subseteq BoxPages
  BY <1>1 DEF OnBox
<1>3. ASSUME /\ gate' \in BOOLEAN /\ engine' \in BOOLEAN /\ tunnel' \in BOOLEAN /\ made' \in BOOLEAN
             /\ left' \in 0..Drain \cup {NoDeadline} /\ at' \in {"idle", "starting", "stopping"}
             /\ boxMishaps' \in 0..MaxBoxMishaps
      PROVE  BoxTypes'
  BY <1>0, <1>1, <1>3 DEF BoxTypes, Parses, ParseSchedule
<1>4. ASSUME BoxMishap PROVE boxMishaps' \in 0..MaxBoxMishaps
  BY <1>0, <1>4 DEF BoxTypes, BoxMishap
<1>5. CASE TickStart
  <2>1. gate' = FALSE /\ at' = "starting" /\ UNCHANGED <<engine, tunnel, made, left, boxMishaps>>
    BY <1>5 DEF TickStart
  <2>2. BoxTypes'
    BY <1>0, <1>3, <2>1 DEF BoxTypes
  <2>3. DrainInv'
    BY <1>0, <2>1 DEF DrainInv
  <2> QED
    BY <2>2, <2>3 DEF BoxInv
<1>6. CASE DockerStart
  <2>1. engine' = TRUE /\ tunnel' = TRUE /\ left' = NoDeadline /\ at' = "idle" /\ UNCHANGED <<gate, made, boxMishaps>>
    BY <1>6 DEF DockerStart
  <2>2. BoxTypes'
    BY <1>0, <1>3, <2>1 DEF BoxTypes
  <2>3. DrainInv'
    BY <1>0, <2>1 DEF DrainInv
  <2> QED
    BY <2>2, <2>3 DEF BoxInv
<1>7. CASE TickClose
  <2>1. gate' = TRUE /\ left' = Drain /\ at = "idle" /\ UNCHANGED <<engine, tunnel, made, at, boxMishaps>>
    BY <1>7 DEF TickClose
  <2>2. BoxTypes'
    BY <1>0, <1>3, <2>1 DEF BoxTypes
  <2>3. \A p \in OnBox : pageAge'[p] + left' >= Drain
    BY <1>0, <1>1, <1>2, <2>1 DEF BoxTypes
  <2>4. DrainInv'
    BY <1>0, <1>2, <2>1, <2>3 DEF DrainInv
  <2> QED
    BY <2>2, <2>4 DEF BoxInv
<1>8. CASE TickStop
  <2>1. gate' = TRUE /\ Plan \in {"stop_engine", "close_stop"} /\ UNCHANGED <<engine, tunnel, made, boxMishaps>>
    BY <1>8 DEF TickStop
  <2>2. \/ at' = "stopping" /\ left' = left /\ (engine \/ (StopTunnel /\ tunnel))
        \/ at' = "idle" /\ left' = NoDeadline
    BY <1>8 DEF TickStop
  <2>3. BoxTypes'
    BY <1>0, <1>3, <2>1, <2>2 DEF BoxTypes
  <2>4. (engine /\ gate /\ left = 0) \/ ~engine \/ Drain = 0
    BY <1>0, <2>1, Planned
  <2>5. CASE at' = "idle" /\ left' = NoDeadline
    <3>1. StopTunnel => (tunnel' <=> engine')
      BY <1>0, <2>1 DEF DrainInv
    <3>2. ~(at' = "stopping") /\ ~(left' # NoDeadline)
      BY <2>5
    <3> QED
      BY <2>3, <3>1, <3>2 DEF BoxInv, DrainInv
  <2>6. CASE at' = "stopping" /\ left' = left /\ (engine \/ (StopTunnel /\ tunnel))
    <3>1. engine
      BY <1>0, <2>6 DEF DrainInv
    <3>2. Drain > 0 => gate' /\ left' = 0
      BY <2>1, <2>4, <2>6, <3>1
    <3>3. left' # NoDeadline => \A p \in OnBox : pageAge'[p] + left' >= Drain
      <4>1. CASE Drain = 0
        BY <1>0, <1>1, <1>2, <2>6, <4>1 DEF BoxTypes
      <4>2. CASE Drain > 0
        BY <1>0, <1>1, <2>4, <2>6, <3>1, <4>2 DEF DrainInv
      <4> QED
        BY <4>1, <4>2
    <3>4. StopTunnel => (tunnel' <=> engine')
      BY <1>0, <2>1 DEF DrainInv
    <3>5. left' # NoDeadline => \A p \in OnBox' : pageAge'[p] + left' >= Drain
      BY <1>2, <3>3
    <3> QED
      BY <2>3, <3>2, <3>4, <3>5 DEF BoxInv, DrainInv
  <2> QED
    BY <2>2, <2>5, <2>6
<1>9. CASE DockerStop
  <2>1. engine' = FALSE /\ tunnel' = (tunnel /\ ~StopTunnel) /\ left' = NoDeadline /\ at' = "idle" /\ UNCHANGED <<gate, made, boxMishaps>>
    BY <1>9 DEF DockerStop
  <2>2. tunnel' \in BOOLEAN /\ (StopTunnel => (tunnel' <=> engine'))
    BY <2>1
  <2>3. BoxTypes'
    BY <1>0, <1>3, <2>1, <2>2 DEF BoxTypes
  <2>4. DrainInv'
    BY <2>1, <2>2 DEF DrainInv
  <2> QED
    BY <2>3, <2>4 DEF BoxInv
<1>10. CASE DockerFails
  <2>1. at' = "idle" /\ UNCHANGED <<gate, engine, tunnel, made, left>> /\ BoxMishap
    BY <1>10 DEF DockerFails
  <2>2. BoxTypes'
    BY <1>0, <1>3, <1>4, <2>1 DEF BoxTypes
  <2>3. DrainInv'
    BY <1>0, <1>1, <1>2, <2>1 DEF DrainInv
  <2> QED
    BY <2>2, <2>3 DEF BoxInv
<1>11. CASE SchedulerRestarts
  <2>1. at' = "idle" /\ left' = NoDeadline /\ UNCHANGED <<gate, engine, tunnel, made>> /\ BoxMishap
    BY <1>11 DEF SchedulerRestarts
  <2>2. BoxTypes'
    BY <1>0, <1>3, <1>4, <2>1 DEF BoxTypes
  <2>3. DrainInv'
    BY <1>0, <2>1 DEF DrainInv
  <2> QED
    BY <2>2, <2>3 DEF BoxInv
<1>12. CASE ComposeUp \/ ComposeDown
  <2>1. /\ made' \in BOOLEAN /\ engine' \in BOOLEAN /\ tunnel' \in BOOLEAN /\ (tunnel' <=> engine')
        /\ UNCHANGED <<gate, left, at>> /\ BoxMishap
    BY <1>12 DEF ComposeUp, ComposeDown
  <2>2. BoxTypes'
    BY <1>0, <1>3, <1>4, <2>1 DEF BoxTypes
  <2>3. DrainInv'
    BY <1>0, <1>1, <1>2, <2>1 DEF DrainInv
  <2> QED
    BY <2>2, <2>3 DEF BoxInv
<1> QED
  BY <1>5, <1>6, <1>7, <1>8, <1>9, <1>10, <1>11, <1>12

\* A page passes an open gate only.
LEMMA GatewayInv ==
    ASSUME BoxInv, NEW p \in BoxPages,
           CheckHealth \/ PassGate(p) \/ EngineAccepts(p) \/ EngineFinishes(p) \/ Requeue(p)
    PROVE  BoxInv'
<1> USE WeekIsLong
<1>0. BoxTypes /\ DrainInv
  BY DEF BoxInv
<1>1. UNCHANGED boxVars
  BY DEF CheckHealth, PassGate, EngineAccepts, EngineFinishes, Requeue
<1>2. /\ health' \in BOOLEAN /\ hage' \in 0..HealthTTL
  <2>1. CASE CheckHealth
    BY <1>0, <2>1 DEF CheckHealth, BoxTypes
  <2>2. CASE UNCHANGED <<health, hage>>
    BY <1>0, <2>2 DEF BoxTypes
  <2> QED
    BY <2>1, <2>2 DEF PassGate, EngineAccepts, EngineFinishes, Requeue
<1>3. /\ page' \in [BoxPages -> {"queued", "posted", "running", "done"}]
      /\ pageAge' \in [BoxPages -> 0..Drain]
  BY <1>0 DEF CheckHealth, PassGate, EngineAccepts, EngineFinishes, Requeue, BoxTypes
<1>4. BoxTypes'
  BY <1>0, <1>1, <1>2, <1>3 DEF BoxTypes, boxVars, Parses, ParseSchedule
<1>5. gate => \A q \in OnBox' : q \in OnBox /\ pageAge'[q] = pageAge[q]
  <2> SUFFICES ASSUME gate, NEW q \in OnBox' PROVE q \in OnBox /\ pageAge'[q] = pageAge[q]
    OBVIOUS
  <2>1. q \in BoxPages /\ page'[q] \in {"posted", "running"}
    BY DEF OnBox
  <2>2. CASE CheckHealth
    BY <2>1, <2>2 DEF CheckHealth, OnBox
  <2>3. CASE EngineAccepts(p) \/ EngineFinishes(p)
    BY <1>0, <2>1, <2>3 DEF EngineAccepts, EngineFinishes, OnBox, BoxTypes
  <2>4. CASE Requeue(p)
    <3>1. q # p
      BY <1>0, <2>1, <2>4 DEF Requeue, BoxTypes
    <3> QED
      BY <1>0, <2>1, <2>4, <3>1 DEF Requeue, OnBox, BoxTypes
  <2> QED
    BY <2>2, <2>3, <2>4 DEF PassGate
<1>6. DrainInv'
  BY <1>0, <1>1, <1>5 DEF DrainInv, boxVars
<1> QED
  BY <1>4, <1>6 DEF BoxInv

LEMMA BoxStep == BoxInv /\ [BoxNext]_boxSystem => BoxInv'
<1> SUFFICES ASSUME BoxInv, [BoxNext]_boxSystem PROVE BoxInv'
  OBVIOUS
<1>1. CASE ClockTick
  BY <1>1, ClockInv
<1>2. CASE \/ TickStart \/ DockerStart \/ TickClose \/ TickStop \/ DockerStop
           \/ DockerFails \/ SchedulerRestarts \/ ComposeUp \/ ComposeDown
  BY <1>2, SchedulerInv
<1>3. CASE CheckHealth
  <2>1. BoxTypes'
    BY <1>3, WeekIsLong DEF CheckHealth, boxVars, BoxInv, BoxTypes, Parses, ParseSchedule
  <2>2. DrainInv'
    BY <1>3 DEF CheckHealth, boxVars, BoxInv, DrainInv, OnBox
  <2> QED
    BY <2>1, <2>2 DEF BoxInv
<1>4. ASSUME NEW p \in BoxPages, PassGate(p) \/ EngineAccepts(p) \/ EngineFinishes(p) \/ Requeue(p)
      PROVE  BoxInv'
  BY <1>4, GatewayInv
<1>5. CASE UNCHANGED boxSystem
  BY <1>5 DEF boxSystem, boxVars, BoxInv, BoxTypes, DrainInv, OnBox, Parses, ParseSchedule
<1> QED
  BY <1>1, <1>2, <1>3, <1>4, <1>5 DEF BoxNext

\* When _stop cuts off the pages on a box, each of them passed the gate at least a whole
\* OCR_DRAIN_MINUTES ago, whatever the deadline, restarts and failed docker commands were.
THEOREM DrainIsFull == BoxSpec => FullDrain
<1>1. BoxInv => (at = "stopping" /\ engine /\ ~engine' /\ Drain > 0 => \A p \in OnBox : pageAge[p] >= Drain)
  <2> SUFFICES ASSUME BoxInv, at = "stopping", Drain > 0, NEW p \in OnBox PROVE pageAge[p] >= Drain
    OBVIOUS
  <2>1. gate /\ left = 0 /\ NoDeadline \notin Nat /\ pageAge[p] \in 0..Drain /\ Drain \in Nat
    BY WeekIsLong DEF BoxInv, BoxTypes, DrainInv, OnBox
  <2>2. pageAge[p] + left >= Drain
    BY <2>1 DEF BoxInv, DrainInv
  <2> QED
    BY <2>1, <2>2
<1> QED
  BY <1>1, BoxInitInv, BoxStep, PTL DEF BoxSpec, FullDrain

\* is_up over the parsed windows is true in exactly the minutes that OCR_UP_SCHEDULE means,
\* and a deadline is never further away than a whole drain.
LEMMA BoxFits == BoxInv => BoxSound
<1> SUFFICES ASSUME BoxInv PROVE BoxTypeOK /\ UpAsScheduled
  BY DEF BoxSound
<1>1. UpAsScheduled
  BY CoveredMinutes DEF BoxInv, BoxTypes
<1>2. {gate, engine, tunnel, made, health} \subseteq BOOLEAN
  BY DEF BoxInv, BoxTypes
<1>3. BoxTypeOK
  BY <1>2 DEF BoxInv, BoxTypes, BoxTypeOK
<1> QED
  BY <1>1, <1>3

\* is_up is true in exactly the minutes that OCR_UP_SCHEDULE means, in every behaviour of
\* the box.
THEOREM BoxIsSound == BoxSpec => []BoxSound
BY BoxInitInv, BoxStep, BoxFits, PTL DEF BoxSpec

-----------------------------------------------------------------------------
\* What the gateway learns of the engines.

Documents == Releases \cup {NoSpec}
Tasks == [at : {"idle", "models", "apply"}, doc : Documents, models : Documents, age : 0..1]
LinksOf(e) == {{}} \cup (IF adapter[e] = "tuzkam" THEN {MapDomains} ELSE {DomainsOf[r] : r \in Releases})
Schemas == {SchemaOf[r] : r \in Releases} \cup {NoSchema}

EngineTypes ==
    /\ release \in [Engines -> Releases] /\ answers \in [Engines -> SUBSET Endpoints]
    /\ document \in [Engines -> Documents] /\ documentAge \in [Engines -> 0..OpenapiTTL]
    /\ describe \in [Engines -> Tasks] /\ syncAge \in [Engines -> 0..SyncEvery]
    /\ linked = [e \in Engines |-> linked[e]] /\ \A e \in Engines : linked[e] \in LinksOf(e)
    /\ schema \in [AllDomains -> Schemas]
    /\ unran \in [Releases -> 0..Forgotten] /\ upsets \in 0..MaxUpsets

\* A cached document is of a release that ran when it was fetched; one that a describe()
\* holds has been out of the cache for at most as long as the describe() takes.
RecentInv ==
    /\ \A r \in Releases : Runs(r) => unran[r] = 0
    /\ \A e \in Engines : document[e] # NoSpec /\ IsCached(e) => unran[document[e]] <= documentAge[e]
    /\ \A e \in Engines :
          describe[e].doc # NoSpec => unran[describe[e].doc] <= OpenapiTTL - 1 + describe[e].age

EnginesInv == EngineTypes /\ RecentInv

LEMMA EngineConstants ==
    /\ OpenapiTTL \in Nat /\ OpenapiTTL >= 1 /\ SyncEvery \in Nat /\ SyncEvery >= 1 /\ MaxUpsets \in Nat
    /\ NoSpec \notin Releases /\ Forgotten = OpenapiTTL + 1 /\ NoTask \in Tasks /\ NoTask.doc = NoSpec
BY EnginesAssumption DEF Forgotten, NoTask, Tasks, Documents

LEMMA EnginesInitInv == EnginesInit => EnginesInv
<1> SUFFICES ASSUME EnginesInit PROVE EnginesInv
  OBVIOUS
<1> USE EngineConstants
<1>1. EngineTypes
  BY DEF EnginesInit, EngineTypes, Endpoints, Documents, Schemas, LinksOf
<1>2. RecentInv
  BY DEF EnginesInit, RecentInv
<1> QED
  BY <1>1, <1>2 DEF EnginesInv

\* A release, an outage or a return: unran only becomes less.
LEMMA UpsetInv ==
    ASSUME EnginesInv, NEW e \in Engines, Upgrade(e) \/ Disturb(e)
    PROVE  EnginesInv'
<1> USE EngineConstants
<1>0. EngineTypes /\ RecentInv
  BY DEF EnginesInv
<1>1. UNCHANGED <<adapter, document, documentAge, describe, syncAge, linked, schema>> /\ upsets' \in 0..MaxUpsets
  BY <1>0 DEF Upgrade, Disturb, Upset, EngineTypes
<1>2. PICK r \in Releases, up \in SUBSET Endpoints :
         /\ release' = [release EXCEPT ![e] = r] /\ answers' = [answers EXCEPT ![e] = up]
         /\ unran' = [unran EXCEPT ![r] = IF up = {} THEN unran[r] ELSE 0]
  <2>1. CASE Upgrade(e)
    <3> PICK r \in Releases \ {release[e]} : release' = [release EXCEPT ![e] = r]
      BY <2>1 DEF Upgrade
    <3>1. release'[e] = r
      BY <1>0 DEF EngineTypes
    <3>2. answers' = [answers EXCEPT ![e] = answers[e]] /\ answers[e] \in SUBSET Endpoints
      BY <1>0, <2>1 DEF Upgrade, EngineTypes
    <3>3. unran' = [unran EXCEPT ![release'[e]] = IF answers[e] = {} THEN unran[release'[e]] ELSE 0]
      BY <2>1 DEF Upgrade
    <3>4. unran' = [unran EXCEPT ![r] = IF answers[e] = {} THEN unran[r] ELSE 0]
      BY <3>1, <3>3
    <3> QED
      BY <3>2, <3>4
  <2>2. CASE Disturb(e)
    <3> PICK up \in {{}, Endpoints} \cup {Endpoints \ {x} : x \in {"openapi", "models"}} :
           /\ answers' = [answers EXCEPT ![e] = up]
           /\ unran' = [unran EXCEPT ![release[e]] = IF up = {} THEN @ ELSE 0]
      BY <2>2 DEF Disturb
    <3>1. up \in SUBSET Endpoints
      OBVIOUS
    <3>2. release[e] \in Releases /\ release' = [release EXCEPT ![e] = release[e]]
      BY <1>0, <2>2 DEF Disturb, EngineTypes
    <3>3. unran' = [unran EXCEPT ![release[e]] = IF up = {} THEN unran[release[e]] ELSE 0]
      OBVIOUS
    <3> QED
      BY <3>1, <3>2, <3>3
  <2> QED
    BY <2>1, <2>2
<1>3. \A q \in Releases : unran[q] \in 0..Forgotten
                          /\ unran'[q] = IF q = r /\ up # {} THEN 0 ELSE unran[q]
  BY <1>0, <1>2 DEF EngineTypes
<1>4. EngineTypes'
  <2>1. unran' \in [Releases -> 0..Forgotten]
    BY <1>0, <1>2, <1>3 DEF EngineTypes
  <2>2. release' \in [Engines -> Releases] /\ answers' \in [Engines -> SUBSET Endpoints]
    BY <1>0, <1>2 DEF EngineTypes
  <2> QED
    BY <1>0, <1>1, <2>1, <2>2 DEF EngineTypes, LinksOf
<1>5. \A q \in Releases : Runs(q)' => unran'[q] = 0
  <2> SUFFICES ASSUME NEW q \in Releases, NEW f \in Engines, release'[f] = q, answers'[f] # {} PROVE unran'[q] = 0
    BY DEF Runs
  <2>1. CASE f = e
    <3>1. q = r /\ up # {}
      BY <1>0, <1>2, <2>1 DEF EngineTypes
    <3> QED
      BY <1>3, <3>1
  <2>2. CASE f # e
    <3>1. release[f] = q /\ answers[f] # {}
      BY <1>0, <1>2, <2>2 DEF EngineTypes
    <3>2. unran[q] = 0
      BY <1>0, <3>1 DEF RecentInv, Runs
    <3> QED
      BY <1>3, <3>2
  <2> QED
    BY <2>1, <2>2
<1>6. \A q \in Releases : unran'[q] <= unran[q] /\ unran'[q] \in Nat /\ unran[q] \in Nat
  BY <1>3
<1>7. \A f \in Engines : document[f] # NoSpec /\ IsCached(f) => unran'[document[f]] <= documentAge[f]
  <2> SUFFICES ASSUME NEW f \in Engines, document[f] # NoSpec, IsCached(f)
               PROVE  unran'[document[f]] <= documentAge[f]
    OBVIOUS
  <2>1. document[f] \in Releases /\ documentAge[f] \in Nat
    BY <1>0 DEF EngineTypes, Documents
  <2>2. unran[document[f]] <= documentAge[f]
    BY <1>0 DEF RecentInv
  <2> QED
    BY <1>6, <2>1, <2>2
<1>8. \A f \in Engines :
        describe[f].doc # NoSpec => unran'[describe[f].doc] <= OpenapiTTL - 1 + describe[f].age
  <2> SUFFICES ASSUME NEW f \in Engines, describe[f].doc # NoSpec
               PROVE  unran'[describe[f].doc] <= OpenapiTTL - 1 + describe[f].age
    OBVIOUS
  <2>1. describe[f].doc \in Releases /\ describe[f].age \in Nat
    BY <1>0 DEF EngineTypes, Documents, Tasks
  <2>2. unran[describe[f].doc] <= OpenapiTTL - 1 + describe[f].age
    BY <1>0 DEF RecentInv
  <2> QED
    BY <1>6, <2>1, <2>2
<1>9. RecentInv'
  BY <1>1, <1>5, <1>7, <1>8 DEF RecentInv, IsCached
<1> QED
  BY <1>4, <1>9 DEF EnginesInv

\* A tick passes; every describe() that is under way began less than two ticks ago.
LEMMA EngineTickInv == EnginesInv /\ EngineTick => EnginesInv'
<1> SUFFICES ASSUME EnginesInv, EngineTick PROVE EnginesInv'
  OBVIOUS
<1> USE EngineConstants
<1>0. EngineTypes /\ RecentInv
  BY DEF EnginesInv
<1>1. UNCHANGED <<adapter, release, answers, document, linked, schema, upsets>>
  BY DEF EngineTick
<1>2. \A f \in Engines : documentAge'[f] = IF documentAge[f] < OpenapiTTL THEN documentAge[f] + 1 ELSE OpenapiTTL
  BY DEF EngineTick
<1>3. documentAge' \in [Engines -> 0..OpenapiTTL] /\ syncAge' \in [Engines -> 0..SyncEvery]
  BY <1>0 DEF EngineTick, EngineTypes
<1>4. /\ unran' \in [Releases -> 0..Forgotten]
      /\ \A r \in Releases : /\ unran[r] \in Nat /\ unran'[r] \in Nat /\ unran'[r] <= unran[r] + 1
                             /\ Runs(r) => unran'[r] = 0
  BY <1>0 DEF EngineTick, EngineTypes
<1>5. ASSUME NEW f \in Engines
      PROVE  /\ describe'[f] \in Tasks /\ describe'[f].doc = describe[f].doc
             /\ describe[f].doc # NoSpec => describe[f].age = 0 /\ describe'[f].age = 1
  <2>1. describe[f] \in Tasks /\ describe[f].age = 0
        /\ describe'[f] = IF describe[f] = NoTask THEN NoTask ELSE [describe[f] EXCEPT !.age = 1]
    BY <1>0 DEF EngineTick, EngineTypes
  <2>2. CASE describe[f] = NoTask
    BY <2>1, <2>2
  <2>3. CASE describe[f] # NoTask
    <3> DEFINE t == [describe[f] EXCEPT !.age = 1]
    <3>1. t \in Tasks /\ t.doc = describe[f].doc /\ t.age = 1
      BY <2>1 DEF Tasks
    <3> QED
      BY <2>1, <2>3, <3>1
  <2> QED
    BY <2>2, <2>3
<1>6. EngineTypes'
  <2>1. describe' \in [Engines -> Tasks]
    BY <1>5 DEF EngineTick
  <2> QED
    BY <1>0, <1>1, <1>3, <1>4, <2>1 DEF EngineTypes, LinksOf
<1>7. \A r \in Releases : Runs(r)' => unran'[r] = 0
  BY <1>1, <1>4 DEF Runs
<1>8. ASSUME NEW f \in Engines, document[f] # NoSpec, documentAge'[f] < OpenapiTTL
      PROVE  unran'[document[f]] <= documentAge'[f]
  <2>1. document[f] \in Releases /\ documentAge[f] \in Nat /\ documentAge[f] < OpenapiTTL
        /\ documentAge'[f] = documentAge[f] + 1
    BY <1>0, <1>2, <1>8 DEF EngineTypes, Documents
  <2>2. unran[document[f]] <= documentAge[f]
    BY <1>0, <1>8, <2>1 DEF RecentInv, IsCached
  <2> QED
    BY <1>4, <2>1, <2>2
<1>9. ASSUME NEW f \in Engines, describe'[f].doc # NoSpec
      PROVE  unran'[describe'[f].doc] <= OpenapiTTL - 1 + describe'[f].age
  <2>1. describe'[f].doc = describe[f].doc /\ describe[f].doc \in Releases
        /\ describe[f].age = 0 /\ describe'[f].age = 1
    BY <1>0, <1>5, <1>9 DEF EngineTypes, Documents, Tasks
  <2>2. unran[describe[f].doc] <= OpenapiTTL - 1
    BY <1>0, <2>1 DEF RecentInv
  <2> QED
    BY <1>4, <2>1, <2>2
<1>10. RecentInv'
  BY <1>1, <1>7, <1>8, <1>9 DEF RecentInv, IsCached
<1> QED
  BY <1>6, <1>10 DEF EnginesInv

\* _openapi: what it leaves in the cache is of a release that ran as long ago as it says.
LEMMA Looked ==
    ASSUME EnginesInv, NEW e \in Engines, Openapi(e), unran' = unran
    PROVE  /\ document' \in [Engines -> Documents] /\ documentAge' \in [Engines -> 0..OpenapiTTL]
           /\ \A f \in Engines : document'[f] # NoSpec /\ documentAge'[f] < OpenapiTTL
                                    => unran[document'[f]] <= documentAge'[f]
           /\ document'[e] # NoSpec => unran[document'[e]] <= OpenapiTTL - 1
<1> USE EngineConstants
<1>0. EngineTypes /\ RecentInv
  BY DEF EnginesInv
<1>1. Fetched(e) \in Documents /\ (Fetched(e) # NoSpec => unran[Fetched(e)] = 0)
  <2>1. release[e] \in Releases /\ ("openapi" \in answers[e] => unran[release[e]] = 0)
    BY <1>0 DEF EngineTypes, RecentInv, Runs
  <2> QED
    BY <2>1 DEF Fetched, Documents
<1>2. document[e] \in Documents /\ documentAge[e] \in 0..OpenapiTTL
      /\ (document[e] # NoSpec /\ documentAge[e] < OpenapiTTL => unran[document[e]] <= documentAge[e])
  BY <1>0 DEF EngineTypes, RecentInv, IsCached
<1>3. CASE IsCached(e)
  <2>1. document' = document /\ documentAge' = documentAge
    BY <1>0, <1>3 DEF Openapi, EngineTypes
  <2>2. document[e] # NoSpec => unran[document[e]] <= OpenapiTTL - 1
    <3>1. document[e] # NoSpec => unran[document[e]] \in Nat
      BY <1>0, <1>2 DEF EngineTypes, Documents
    <3> QED
      BY <1>2, <1>3, <3>1 DEF IsCached
  <2> QED
    BY <1>0, <2>1, <2>2 DEF EngineTypes, RecentInv, IsCached
<1>4. CASE ~IsCached(e)
  <2>1. document' = [document EXCEPT ![e] = Fetched(e)] /\ documentAge' = [documentAge EXCEPT ![e] = 0]
    BY <1>4 DEF Openapi
  <2>2. document'[e] = Fetched(e) /\ documentAge'[e] = 0
    BY <1>0, <2>1 DEF EngineTypes
  <2>3. \A f \in Engines \ {e} : document'[f] = document[f] /\ documentAge'[f] = documentAge[f]
    BY <1>0, <2>1 DEF EngineTypes
  <2>4. document' \in [Engines -> Documents] /\ documentAge' \in [Engines -> 0..OpenapiTTL]
    BY <1>0, <1>1, <2>1 DEF EngineTypes
  <2>5. \A f \in Engines \ {e} : document[f] # NoSpec /\ documentAge[f] < OpenapiTTL
                                    => unran[document[f]] <= documentAge[f]
    BY <1>0 DEF RecentInv, IsCached
  <2> QED
    BY <1>1, <2>2, <2>3, <2>4, <2>5
<1> QED
  BY <1>3, <1>4

LEMMA SyncInv ==
    ASSUME EnginesInv, NEW e \in Engines,
           Version(e) \/ DescribeStarts(e) \/ ModelsAnswer(e) \/ SyncApplies(e)
    PROVE  EnginesInv'
<1> USE EngineConstants
<1>0. EngineTypes /\ RecentInv
  BY DEF EnginesInv
<1>1. UNCHANGED <<adapter, release, answers, unran, upsets>>
  BY DEF Version, DescribeStarts, ModelsAnswer, SyncApplies
<1>2. \A r \in Releases : Runs(r)' => unran'[r] = 0
  BY <1>0, <1>1 DEF RecentInv, Runs
<1>3. CASE Version(e)
  <2>1. Openapi(e) /\ UNCHANGED <<describe, syncAge, linked, schema>>
    BY <1>3 DEF Version
  <2>2. /\ document' \in [Engines -> Documents] /\ documentAge' \in [Engines -> 0..OpenapiTTL]
        /\ \A f \in Engines : document'[f] # NoSpec /\ documentAge'[f] < OpenapiTTL
                                 => unran[document'[f]] <= documentAge'[f]
    BY <1>1, <2>1, Looked
  <2>3. EngineTypes'
    BY <1>0, <1>1, <2>1, <2>2 DEF EngineTypes, LinksOf
  <2>4. RecentInv'
    BY <1>0, <1>1, <1>2, <2>1, <2>2 DEF RecentInv, IsCached
  <2> QED
    BY <2>3, <2>4 DEF EnginesInv
<1>4. CASE DescribeStarts(e)
  <2> DEFINE t == [NoTask EXCEPT !.at = "models", !.doc = document'[e]]
  <2>1. Openapi(e) /\ describe' = [describe EXCEPT ![e] = t] /\ UNCHANGED <<syncAge, linked, schema>>
    BY <1>4 DEF DescribeStarts
  <2>2. /\ document' \in [Engines -> Documents] /\ documentAge' \in [Engines -> 0..OpenapiTTL]
        /\ \A f \in Engines : document'[f] # NoSpec /\ documentAge'[f] < OpenapiTTL
                                 => unran[document'[f]] <= documentAge'[f]
        /\ document'[e] # NoSpec => unran[document'[e]] <= OpenapiTTL - 1
    BY <1>1, <2>1, Looked
  <2>3. t \in Tasks /\ t.doc = document'[e] /\ t.age = 0
    BY <2>2 DEF NoTask, Tasks, Documents
  <2> HIDE DEF t
  <2>4. describe' \in [Engines -> Tasks] /\ describe'[e] = t /\ \A f \in Engines \ {e} : describe'[f] = describe[f]
    BY <1>0, <2>1, <2>3 DEF EngineTypes
  <2>5. EngineTypes'
    BY <1>0, <1>1, <2>1, <2>2, <2>4 DEF EngineTypes, LinksOf
  <2>6. \A f \in Engines :
          describe'[f].doc # NoSpec => unran[describe'[f].doc] <= OpenapiTTL - 1 + describe'[f].age
    BY <1>0, <2>2, <2>3, <2>4 DEF RecentInv
  <2>7. RecentInv'
    BY <1>0, <1>1, <1>2, <2>2, <2>6 DEF RecentInv, IsCached
  <2> QED
    BY <2>5, <2>7 DEF EnginesInv
<1>5. CASE ModelsAnswer(e)
  <2> PICK t : /\ describe' = [describe EXCEPT ![e] = t]
               /\ \/ t = NoTask
                  \/ \E models \in Documents : t = [describe[e] EXCEPT !.at = "apply", !.models = models]
    <3> DEFINE models == IF adapter[e] = "tuzkaocr" /\ "models" \in answers[e] THEN release[e] ELSE NoSpec
    <3>1. models \in Documents
      BY <1>0 DEF EngineTypes, Documents
    <3>2. describe' = [describe EXCEPT ![e] = IF InfoDomains(e, describe[e].doc, models) = {} THEN NoTask
                                              ELSE [describe[e] EXCEPT !.at = "apply", !.models = models]]
      BY <1>5 DEF ModelsAnswer
    <3> HIDE DEF models
    <3> QED
      BY <3>1, <3>2
  <2>1. UNCHANGED <<document, documentAge, syncAge, linked, schema>>
    BY <1>5 DEF ModelsAnswer
  <2>2. t \in Tasks /\ (t.doc # NoSpec => t.doc = describe[e].doc /\ t.age = describe[e].age)
    <3>1. CASE t = NoTask
      BY <3>1
    <3>2. ASSUME NEW models \in Documents, t = [describe[e] EXCEPT !.at = "apply", !.models = models]
          PROVE  t \in Tasks /\ t.doc = describe[e].doc /\ t.age = describe[e].age
      <4>1. describe[e] \in Tasks
        BY <1>0 DEF EngineTypes
      <4> QED
        BY <3>2, <4>1 DEF Tasks
    <3> QED
      BY <3>1, <3>2
  <2>3. describe' \in [Engines -> Tasks] /\ describe'[e] = t /\ \A f \in Engines \ {e} : describe'[f] = describe[f]
    BY <1>0, <2>2 DEF EngineTypes
  <2>4. EngineTypes'
    BY <1>0, <1>1, <2>1, <2>3 DEF EngineTypes, LinksOf
  <2>5. \A f \in Engines :
          describe'[f].doc # NoSpec => unran[describe'[f].doc] <= OpenapiTTL - 1 + describe'[f].age
    BY <1>0, <2>2, <2>3 DEF RecentInv
  <2>6. RecentInv'
    BY <1>0, <1>1, <1>2, <2>1, <2>5 DEF RecentInv, IsCached
  <2> QED
    BY <2>4, <2>6 DEF EnginesInv
<1>6. CASE SyncApplies(e)
  <2> DEFINE domains == InfoDomains(e, describe[e].doc, describe[e].models)
             new == OptionsSchema(describe[e].doc)
  <2>1. /\ linked' = [linked EXCEPT ![e] = domains] /\ schema' = StoredSchema(domains, new)
        /\ describe' = [describe EXCEPT ![e] = NoTask] /\ syncAge' = [syncAge EXCEPT ![e] = 0]
        /\ UNCHANGED <<document, documentAge>>
    BY <1>6 DEF SyncApplies
  <2>2. describe[e].doc \in Documents /\ describe[e].models \in Documents
    BY <1>0 DEF EngineTypes, Tasks
  <2>3. domains \in LinksOf(e)
    BY <2>2 DEF InfoDomains, MapInfo, OcrInfo, LinksOf, Documents
  <2>4. new \in Schemas
    BY <2>2 DEF OptionsSchema, Schemas, Documents
  <2> HIDE DEF domains, new
  <2>5. schema' \in [AllDomains -> Schemas]
    BY <1>0, <2>1, <2>4 DEF EngineTypes, StoredSchema
  <2>6. linked' = [f \in Engines |-> linked'[f]] /\ \A f \in Engines : linked'[f] \in LinksOf(f)
    BY <1>0, <2>1, <2>3 DEF EngineTypes
  <2>7. describe' \in [Engines -> Tasks] /\ syncAge' \in [Engines -> 0..SyncEvery]
    BY <1>0, <2>1 DEF EngineTypes
  <2>8. EngineTypes'
    BY <1>0, <1>1, <2>1, <2>5, <2>6, <2>7 DEF EngineTypes, LinksOf
  <2>9. RecentInv'
    BY <1>0, <1>1, <1>2, <2>1 DEF RecentInv, IsCached, EngineTypes
  <2> QED
    BY <2>8, <2>9 DEF EnginesInv
<1> QED
  BY <1>3, <1>4, <1>5, <1>6

LEMMA EnginesStep == EnginesInv /\ [EnginesNext]_engineVars => EnginesInv'
<1> SUFFICES ASSUME EnginesInv, [EnginesNext]_engineVars PROVE EnginesInv'
  OBVIOUS
<1>1. CASE UNCHANGED engineVars
  BY <1>1 DEF engineVars, EnginesInv, EngineTypes, RecentInv, LinksOf, Runs, IsCached
<1> QED
  BY <1>1, EngineTickInv, UpsetInv, SyncInv DEF EnginesNext

LEMMA EnginesFit == EnginesInv => EnginesTypeOK
BY DEF EnginesInv, EngineTypes, EnginesTypeOK, Tasks, Documents, LinksOf, Schemas

\* What an engine serves is what one answer of its adapter to describe() may say, and a
\* TuzkaM is never linked to a domain of the other kind.
THEOREM EnginesAreTyped == EnginesSpec => []EnginesTypeOK
BY EnginesInitInv, EnginesStep, EnginesFit, PTL DEF EnginesSpec

\* plan_domain_links never takes an options schema away, and writes one only if some engine
\* ran its release within _OPENAPI_CACHE_TTL_SECONDS, cached documents included.
THEOREM SchemaIsSound == EnginesSpec => SchemaSound
<1>1. EnginesInv /\ [EnginesNext]_engineVars
        => [\A d \in AllDomains : schema[d] # NoSchema => schema'[d] # NoSchema]_engineVars
  <2> SUFFICES ASSUME EnginesNext, NEW d \in AllDomains, schema[d] # NoSchema PROVE schema'[d] # NoSchema
    OBVIOUS
  <2>1. CASE schema' = schema
    BY <2>1
  <2>2. ASSUME NEW e \in Engines, SyncApplies(e) PROVE schema'[d] # NoSchema
    BY <2>2 DEF SyncApplies, StoredSchema
  <2> QED
    BY <2>1, <2>2 DEF EnginesNext, EngineTick, Upgrade, Disturb, Version, DescribeStarts, ModelsAnswer
<1>2. EnginesInv /\ [EnginesNext]_engineVars
        => [\A d \in AllDomains : schema'[d] # schema[d] =>
              \E r \in Releases : SchemaOf[r] = schema'[d] /\ unran[r] <= OpenapiTTL]_engineVars
  <2> SUFFICES ASSUME EnginesInv, EnginesNext, NEW d \in AllDomains, schema'[d] # schema[d]
               PROVE  \E r \in Releases : SchemaOf[r] = schema'[d] /\ unran[r] <= OpenapiTTL
    OBVIOUS
  <2>1. PICK e \in Engines : SyncApplies(e)
    BY DEF EnginesNext, EngineTick, Upgrade, Disturb, Version, DescribeStarts, ModelsAnswer
  <2> DEFINE r == describe[e].doc
  <2>2. schema'[d] = OptionsSchema(r) /\ OptionsSchema(r) # NoSchema
    BY <2>1 DEF SyncApplies, StoredSchema
  <2>3. r # NoSpec /\ SchemaOf[r] = schema'[d]
    BY <2>2 DEF OptionsSchema
  <2>4. r \in Releases /\ describe[e].age \in 0..1 /\ unran[r] \in Nat /\ unran[r] <= OpenapiTTL - 1 + describe[e].age
    BY <2>3, EngineConstants DEF EnginesInv, EngineTypes, RecentInv, Tasks, Documents
  <2>5. unran[r] <= OpenapiTTL
    BY <2>4, EngineConstants
  <2> QED
    BY <2>3, <2>4, <2>5
<1> QED
  BY <1>1, <1>2, EnginesInitInv, EnginesStep, PTL DEF EnginesSpec, SchemaSound, SchemaKept, SchemaIsRecent

-----------------------------------------------------------------------------
\* The results of single jobs

CleanSteps == {"idle", "jobs", "jobsObjects", "jobsCommit", "evict", "evictObjects", "evictCommit",
               "purge", "purgeObjects"}
Cleaners == [at : CleanSteps, jobs : SUBSET SingleJobs, outs : SUBSET Outputs, heavy : BOOLEAN]
Answers == {"none", "202", "409", "200", "500", "410", "404", "failed"}
Asked == [at : {"idle", "off", "job", "rows", "object", "presign"}, kind : {"download", "result"}, answer : Answers]

ResultTypes ==
    /\ row \in [SingleJobs -> {"active", "done", "failed", "deleted"}]
    /\ age \in [SingleJobs -> 0..AgeMax]
    /\ res \in [Outputs -> {"none", "live", "evicted"}]
    /\ object \in [Outputs -> 0..AgeMax \cup {NoObject}]
    /\ put \subseteq SingleJobs /\ capped \subseteq Outputs /\ ticks \in 0..(HeavyEvery - 1)
    /\ cleaner \in Cleaners /\ ask \in Asked /\ last \in Answers

\* What may be taken from a user by now.
Due(o) == age[o[1]] > MaxAge \/ age[o[1]] > DoneTTL \/ o \in capped
ReadDue ==
    \/ age[ReadJob] > MaxAge \/ age[ReadJob] > DoneTTL \/ age[ReadJob] > FailedTTL
    \/ \E f \in Formats : <<ReadJob, f>> \in capped

\* Only a done job has results, one for each output; the object of one that is not due is
\* there, and it is hardly older than its job's end.
KeptInv ==
    /\ \A o \in Outputs : res[o] # "none" => row[o[1]] = "done"
    /\ \A o \in Outputs : row[o[1]] = "done" =>
          /\ res[o] # "none"
          /\ res[o] = "evicted" \/ object[o] = NoObject => Due(o)
          /\ object[o] # NoObject => object[o] <= age[o[1]] + LateHarvest
    /\ row[ReadJob] = "deleted" => ReadDue

\* What the cleanup has selected is due when it deletes it, whatever happens in between.
CleanerInv ==
    /\ \A j \in cleaner.jobs : Expired(j)
    /\ cleaner.at \in {"jobsObjects", "jobsCommit"} => \A o \in cleaner.outs : o[1] \in cleaner.jobs
    /\ cleaner.at \in {"evictObjects", "evictCommit"} =>
          \A o \in cleaner.outs : row[o[1]] = "done" /\ Due(o)
    /\ cleaner.at = "purgeObjects" => \A o \in cleaner.outs : object[o] # NoObject /\ object[o] > StorageTTL

\* What an answer has said is still so, or it is worse.
Still(a) ==
    /\ a = "409" => row[ReadJob] # "active"
    /\ a \in {"200", "500", "410", "404"} => row[ReadJob] \in {"done", "deleted"}
    /\ a = "410" => res[Watched] # "live"
    /\ a = "404" => row[ReadJob] = "deleted"
    /\ a = "500" => object[Watched] = NoObject

ReadInv ==
    /\ ask.at # "idle" => ask.answer = "none"
    /\ ask.at \in {"rows", "object", "presign"} \/ ask.answer \in {"410", "500", "404"}
          => row[ReadJob] \in {"done", "deleted"}
    /\ ask.answer \in {"410", "500", "404"} => ReadDue
    /\ ask.at = "object" => ask.kind = "download" /\ last \notin {"410", "404"}
    /\ ask.at = "presign" => ask.kind = "result"
    /\ Still(last) /\ last # "failed"
    /\ ask.kind = "download" => Still(ask.answer) /\ ask.answer # "failed"
    /\ ReadsGoForward

ResultsInv == ResultTypes /\ KeptInv /\ CleanerInv /\ ReadInv

\* The bucket keeps an object for as long as a result may be asked for, counted from
\* the end of the harvest, and a failed job its row for as long as it may be harvested.
KeptLongEnough ==
    /\ MaxAge + LateHarvest <= StorageTTL \/ DoneTTL + LateHarvest <= StorageTTL
    /\ LateHarvest <= FailedTTL

LEMMA LongestOf ==
    ASSUME NEW a \in Nat, NEW b \in Nat, NEW c \in Nat, NEW d \in Nat
    PROVE  Max({a, b, c, d}) \in Nat /\ \A x \in {a, b, c, d} : x <= Max({a, b, c, d})
<1>1. \E x \in {a, b, c, d} : \A y \in {a, b, c, d} : x >= y
  <2>1. CASE a >= b /\ a >= c /\ a >= d
    BY <2>1
  <2>2. CASE b >= a /\ b >= c /\ b >= d
    BY <2>2
  <2>3. CASE c >= a /\ c >= b /\ c >= d
    BY <2>3
  <2>4. CASE d >= a /\ d >= b /\ d >= c
    BY <2>4
  <2> QED
    BY <2>1, <2>2, <2>3, <2>4
<1>2. Max({a, b, c, d}) \in {a, b, c, d} /\ \A y \in {a, b, c, d} : Max({a, b, c, d}) >= y
  BY <1>1 DEF Max
<1> QED
  BY <1>2

LEMMA ShorterOf ==
    ASSUME NEW a \in Nat, NEW b \in Nat
    PROVE  Min({a, b}) \in {a, b} /\ \A y \in {a, b} : Min({a, b}) =< y
<1>1. \E x \in {a, b} : \A y \in {a, b} : x =< y
  BY a =< b \/ b =< a
<1> QED
  BY <1>1 DEF Min

LEMMA ResultConstants ==
    /\ DoneTTL \in Nat /\ FailedTTL \in Nat /\ MaxAge \in Nat /\ StorageTTL \in Nat /\ LateHarvest \in Nat
    /\ AgeMax \in Nat /\ DoneTTL < AgeMax /\ FailedTTL < AgeMax /\ MaxAge < AgeMax /\ StorageTTL < AgeMax
    /\ NoObject \notin Nat /\ HeavyEvery \in Nat \ {0}
<1>1. /\ DoneTTL \in Nat /\ FailedTTL \in Nat /\ MaxAge \in Nat /\ StorageTTL \in Nat /\ LateHarvest \in Nat
      /\ NoObject \notin Nat /\ HeavyEvery \in Nat \ {0}
  BY ResultsAssumption
<1> DEFINE top == Max({DoneTTL, FailedTTL, MaxAge, StorageTTL})
<1>2. top \in Nat /\ \A x \in {DoneTTL, FailedTTL, MaxAge, StorageTTL} : x <= top
  BY <1>1, LongestOf
<1>3. AgeMax = top + 1
  BY DEF AgeMax
<1> HIDE DEF top
<1> QED
  BY <1>1, <1>2, <1>3

LEMMA ThePairs ==
    /\ \A o \in Outputs : o[1] \in SingleJobs /\ o[2] \in Formats /\ o = <<o[1], o[2]>>
    /\ \A f \in Formats : <<ReadJob, f>> \in Outputs /\ <<ReadJob, f>>[1] = ReadJob
    /\ Watched \in Outputs /\ Watched[1] = ReadJob /\ ReadJob \in SingleJobs
BY ResultsAssumption DEF Outputs, Watched

LEMMA WhileHarvesting ==
    ASSUME NEW j \in SingleJobs, Harvesting(j)
    PROVE  /\ row[j] = "active" \/ (row[j] = "failed" /\ age[j] <= LateHarvest)
           /\ \A o \in Outputs : o[1] = j => object[o] \in 0..LateHarvest \cup {NoObject}
BY ThePairs DEF Harvesting

\* Older never makes an age less, nor more than AgeMax.
LEMMA GrowsOlder ==
    ASSUME NEW a \in 0..AgeMax
    PROVE  Older(a) \in 0..AgeMax /\ Older(a) = IF a < AgeMax THEN a + 1 ELSE a
BY ResultConstants DEF Older

LEMMA ResultsInitInv == ResultsInit /\ row[ReadJob] # "deleted" => ResultsInv
<1> SUFFICES ASSUME ResultsInit, row[ReadJob] # "deleted" PROVE ResultsInv
  OBVIOUS
<1> USE ResultConstants, ThePairs
<1>1. ResultTypes
  <2>1. cleaner \in Cleaners
    BY DEF ResultsInit, Idle, Cleaners, CleanSteps
  <2>2. ask \in Asked /\ last \in Answers
    BY DEF ResultsInit, Asked, Answers
  <2> QED
    BY <2>1, <2>2 DEF ResultsInit, ResultTypes
<1>2. KeptInv
  BY DEF ResultsInit, KeptInv
<1>3. CleanerInv
  BY DEF ResultsInit, CleanerInv, Idle
<1>4. ReadInv
  BY DEF ResultsInit, ReadInv, Still, ReadsGoForward
<1> QED
  BY <1>1, <1>2, <1>3, <1>4 DEF ResultsInv

\* A step of the workers or of the cleanup never makes better what the user is told.
Worsens ==
    /\ row[ReadJob] # "active" => row'[ReadJob] # "active"
    /\ row[ReadJob] = "deleted" => row'[ReadJob] = "deleted"
    /\ row[ReadJob] \in {"done", "deleted"} =>
          /\ row'[ReadJob] \in {"done", "deleted"}
          /\ res[Watched] # "live" => res'[Watched] # "live"
          /\ object[Watched] = NoObject => object'[Watched] = NoObject
          /\ ReadDue => ReadDue'

LEMMA ReadsWorsen ==
    ASSUME ReadInv, Worsens, UNCHANGED <<ask, last>>
    PROVE  ReadInv'
<1>1. ASSUME NEW a, Still(a) PROVE Still(a)'
  BY <1>1 DEF Still, Worsens
<1>2. Still(last)' /\ last' # "failed"
  <2>1. Still(last) /\ last # "failed" /\ last' = last
    BY DEF ReadInv
  <2>2. Still(last)'
    BY <2>1, <1>1 DEF Still
  <2> QED
    BY <2>1, <2>2
<1>3. ask'.kind = "download" => Still(ask.answer)' /\ ask'.answer # "failed"
  <2> SUFFICES ASSUME ask'.kind = "download" PROVE Still(ask.answer)' /\ ask'.answer # "failed"
    OBVIOUS
  <2>1. Still(ask.answer) /\ ask.answer # "failed" /\ ask' = ask
    BY DEF ReadInv
  <2> QED
    BY <2>1, <1>1 DEF Still
<1>4. ReadsGoForward'
  BY DEF ReadInv, ReadsGoForward
<1> QED
  BY <1>2, <1>3, <1>4 DEF ReadInv, Worsens

\* The clock: what is due stays due.
LEMMA AgeTickInv == ResultsInv /\ AgeTick => ResultsInv'
<1> SUFFICES ASSUME ResultsInv, AgeTick PROVE ResultsInv'
  OBVIOUS
<1> USE ResultConstants, ThePairs
<1>0. ResultTypes /\ KeptInv /\ CleanerInv /\ ReadInv
  BY DEF ResultsInv
<1>1. /\ age' = [j \in SingleJobs |-> IF row[j] \in {"done", "failed"} THEN Older(age[j]) ELSE age[j]]
      /\ object' = [o \in Outputs |-> Older(object[o])]
      /\ UNCHANGED <<row, res, put, ticks, cleaner, capped, ask, last, troubles>>
  BY DEF AgeTick
<1>2. \A j \in SingleJobs : /\ age[j] \in 0..AgeMax /\ age'[j] \in 0..AgeMax /\ age'[j] >= age[j]
                            /\ row[j] = "done" => age'[j] = IF age[j] < AgeMax THEN age[j] + 1 ELSE age[j]
  BY <1>0, <1>1, GrowsOlder DEF ResultTypes
<1>3. \A o \in Outputs : IF object[o] = NoObject THEN object'[o] = NoObject
                         ELSE /\ object[o] \in 0..AgeMax
                              /\ object'[o] = IF object[o] < AgeMax THEN object[o] + 1 ELSE object[o]
  <2> SUFFICES ASSUME NEW o \in Outputs
               PROVE  IF object[o] = NoObject THEN object'[o] = NoObject
                      ELSE /\ object[o] \in 0..AgeMax
                           /\ object'[o] = IF object[o] < AgeMax THEN object[o] + 1 ELSE object[o]
    OBVIOUS
  <2>1. object'[o] = Older(object[o]) /\ object[o] \in 0..AgeMax \cup {NoObject}
    BY <1>0, <1>1 DEF ResultTypes
  <2>2. CASE object[o] = NoObject
    BY <2>1, <2>2 DEF Older
  <2>3. CASE object[o] \in 0..AgeMax
    BY <2>1, <2>3, GrowsOlder
  <2> QED
    BY <2>1, <2>2, <2>3
<1>4. ResultTypes'
  <2>1. age' \in [SingleJobs -> 0..AgeMax]
    BY <1>1, <1>2
  <2>2. object' \in [Outputs -> 0..AgeMax \cup {NoObject}]
    BY <1>1, <1>3
  <2> QED
    BY <1>0, <1>1, <2>1, <2>2 DEF ResultTypes
<1>5. \A o \in Outputs : Due(o) => Due(o)'
  BY <1>1, <1>2 DEF Due
<1>6. ReadDue => ReadDue'
  BY <1>1, <1>2 DEF ReadDue
<1>7. KeptInv'
  <2>1. ASSUME NEW o \in Outputs, row[o[1]] = "done", object'[o] # NoObject PROVE object'[o] <= age'[o[1]] + LateHarvest
    <3>1. object[o] # NoObject /\ object[o] <= age[o[1]] + LateHarvest
      BY <1>0, <1>3, <2>1 DEF KeptInv
    <3> QED
      BY <1>2, <1>3, <2>1, <3>1
  <2> QED
    BY <1>0, <1>1, <1>3, <1>5, <1>6, <2>1 DEF KeptInv
<1>8. CleanerInv'
  <2>1. cleaner' = cleaner /\ cleaner.jobs \subseteq SingleJobs /\ cleaner.outs \subseteq Outputs
    BY <1>0, <1>1 DEF ResultTypes, Cleaners
  <2>2. \A j \in SingleJobs : Expired(j) => Expired(j)'
    BY <1>1, <1>2 DEF Expired
  <2>3. \A o \in Outputs : object[o] # NoObject /\ object[o] > StorageTTL => object'[o] # NoObject /\ object'[o] > StorageTTL
    BY <1>3
  <2>4. \A o \in Outputs : row[o[1]] = "done" /\ Due(o) => row'[o[1]] = "done" /\ Due(o)'
    BY <1>1, <1>5
  <2> QED
    BY <1>0, <2>1, <2>2, <2>3, <2>4 DEF CleanerInv
<1>9. Worsens
  BY <1>1, <1>3, <1>6 DEF Worsens
<1> QED
  BY <1>0, <1>1, <1>4, <1>7, <1>8, <1>9, ReadsWorsen DEF ResultsInv

\* The workers: a harvest of a job that has not ended well, and a failure of one that has not ended.
LEMMA JobStepInv ==
    ASSUME KeptLongEnough, ResultsInv, NEW j \in SingleJobs,
           HarvestPut(j) \/ HarvestCommit(j) \/ HarvestBreaks(j) \/ FailJob(j)
    PROVE  ResultsInv'
<1> USE ResultConstants, ThePairs
<1>0. ResultTypes /\ KeptInv /\ CleanerInv /\ ReadInv
  BY DEF ResultsInv
<1>c. /\ cleaner.jobs \subseteq SingleJobs /\ cleaner.outs \subseteq Outputs
      /\ UNCHANGED <<ticks, cleaner, capped, ask, last, troubles>>
  BY <1>0 DEF ResultTypes, Cleaners, HarvestPut, HarvestCommit, HarvestBreaks, FailJob
<1>1. CASE HarvestPut(j)
  <2>1. /\ object' = [o \in Outputs |-> IF o[1] = j THEN 0 ELSE object[o]]
        /\ put' = put \cup {j} /\ UNCHANGED <<row, age, res>>
    BY <1>1 DEF HarvestPut
  <2>2. /\ row[j] \in {"active", "failed"}
        /\ \A o \in Outputs : o[1] = j => object[o] \in 0..LateHarvest \cup {NoObject}
    BY <1>1, WhileHarvesting DEF HarvestPut
  <2>3. object' \in [Outputs -> 0..AgeMax \cup {NoObject}]
    BY <1>0, <2>1 DEF ResultTypes
  <2>4. ResultTypes'
    BY <1>0, <1>c, <2>1, <2>3 DEF ResultTypes
  <2>5. \A o \in Outputs : row[o[1]] = "done" => object'[o] = object[o]
    BY <2>1, <2>2
  <2>6. (\A o \in Outputs : Due(o)' <=> Due(o)) /\ (ReadDue' <=> ReadDue)
    BY <1>c, <2>1 DEF Due, ReadDue
  <2>7. KeptInv'
    BY <1>0, <2>1, <2>5, <2>6 DEF KeptInv
  <2>8. StorageTTL >= LateHarvest
    BY DEF KeptLongEnough
  <2>9. CleanerInv'
    <3>1. \A o \in Outputs : object[o] # NoObject /\ object[o] > StorageTTL => object'[o] = object[o]
      BY <2>1, <2>2, <2>8
    <3>2. \A i \in SingleJobs : Expired(i)' <=> Expired(i)
      BY <2>1 DEF Expired
    <3> QED
      BY <1>0, <1>c, <2>1, <2>6, <3>1, <3>2 DEF CleanerInv
  <2>10. Worsens
    BY <2>1, <2>2, <2>6 DEF Worsens
  <2> QED
    BY <1>0, <1>c, <2>4, <2>7, <2>9, <2>10, ReadsWorsen DEF ResultsInv
<1>2. CASE HarvestCommit(j)
  <2>1. /\ res' = [o \in Outputs |-> IF o[1] = j THEN "live" ELSE res[o]]
        /\ row' = [row EXCEPT ![j] = "done"] /\ age' = [age EXCEPT ![j] = 0]
        /\ put' = put \ {j} /\ object' = object
    BY <1>2 DEF HarvestCommit
  <2>2. /\ row[j] = "active" \/ (row[j] = "failed" /\ age[j] <= LateHarvest)
        /\ \A o \in Outputs : o[1] = j => object[o] \in 0..LateHarvest
    BY <1>2, WhileHarvesting DEF HarvestCommit
  <2>3. \A i \in SingleJobs : /\ row'[i] = IF i = j THEN "done" ELSE row[i]
                              /\ age[i] \in 0..AgeMax /\ age'[i] = IF i = j THEN 0 ELSE age[i]
    BY <1>0, <2>1 DEF ResultTypes
  <2>4. ResultTypes'
    <3>1. age' \in [SingleJobs -> 0..AgeMax] /\ row' \in [SingleJobs -> {"active", "done", "failed", "deleted"}]
      BY <1>0, <2>1 DEF ResultTypes
    <3>2. res' \in [Outputs -> {"none", "live", "evicted"}]
      BY <1>0, <2>1 DEF ResultTypes
    <3> QED
      BY <1>0, <1>c, <2>1, <3>1, <3>2 DEF ResultTypes
  <2>5. \A o \in Outputs : o[1] # j => (Due(o)' <=> Due(o))
    BY <1>c, <2>3 DEF Due
  <2>6. ReadJob # j => (ReadDue' <=> ReadDue)
    BY <1>c, <2>3 DEF ReadDue
  <2>7. KeptInv'
    <3>1. ASSUME NEW o \in Outputs, res'[o] # "none" PROVE row'[o[1]] = "done"
      BY <1>0, <2>1, <2>3, <3>1 DEF KeptInv
    <3>2. ASSUME NEW o \in Outputs, row'[o[1]] = "done"
          PROVE  /\ res'[o] # "none" /\ (res'[o] = "evicted" \/ object'[o] = NoObject => Due(o)')
                 /\ (object'[o] # NoObject => object'[o] <= age'[o[1]] + LateHarvest)
      <4>1. CASE o[1] = j
        BY <2>1, <2>2, <2>3, <4>1
      <4>2. CASE o[1] # j
        BY <1>0, <2>1, <2>3, <2>5, <3>2, <4>2 DEF KeptInv
      <4> QED
        BY <4>1, <4>2
    <3>3. row'[ReadJob] = "deleted" => ReadDue'
      BY <1>0, <2>3, <2>6 DEF KeptInv
    <3> QED
      BY <3>1, <3>2, <3>3 DEF KeptInv
  <2>8. CleanerInv'
    <3>1. ~Expired(j)
      BY <2>2, <2>3 DEF Expired, KeptLongEnough
    <3>2. \A i \in cleaner.jobs : Expired(i)'
      BY <1>0, <1>c, <2>3, <3>1 DEF CleanerInv, Expired
    <3>3. ASSUME cleaner.at \in {"evictObjects", "evictCommit"}, NEW o \in cleaner.outs
          PROVE  row'[o[1]] = "done" /\ Due(o)'
      <4>1. row[o[1]] = "done" /\ Due(o) /\ o \in Outputs
        BY <1>0, <1>c, <3>3 DEF CleanerInv
      <4>2. o[1] # j
        BY <2>2, <4>1
      <4> QED
        BY <2>3, <2>5, <4>1, <4>2
    <3> QED
      BY <1>0, <1>c, <2>1, <3>2, <3>3 DEF CleanerInv
  <2>9. Worsens
    BY <2>1, <2>2, <2>3, <2>6 DEF Worsens
  <2> QED
    BY <1>0, <1>c, <2>4, <2>7, <2>8, <2>9, ReadsWorsen DEF ResultsInv
<1>3. CASE HarvestBreaks(j)
  <2>1. put' \subseteq SingleJobs /\ UNCHANGED <<row, age, res, object>>
    BY <1>0, <1>3 DEF HarvestBreaks, ResultTypes
  <2>2. ResultTypes'
    BY <1>0, <1>c, <2>1 DEF ResultTypes
  <2>3. KeptInv' /\ CleanerInv'
    BY <1>0, <1>c, <2>1 DEF KeptInv, CleanerInv, Due, ReadDue, Expired
  <2>4. Worsens
    BY <1>c, <2>1 DEF Worsens, ReadDue
  <2> QED
    BY <1>0, <1>c, <2>2, <2>3, <2>4, ReadsWorsen DEF ResultsInv
<1>4. CASE FailJob(j)
  <2>1. row[j] = "active" /\ row' = [row EXCEPT ![j] = "failed"] /\ UNCHANGED <<age, res, object, put>>
    BY <1>4 DEF FailJob
  <2>2. row' \in [SingleJobs -> {"active", "done", "failed", "deleted"}]
        /\ \A i \in SingleJobs : row'[i] = IF i = j THEN "failed" ELSE row[i]
    BY <1>0, <2>1 DEF ResultTypes
  <2>3. ResultTypes'
    BY <1>0, <1>c, <2>1, <2>2 DEF ResultTypes
  <2>4. (\A o \in Outputs : Due(o)' <=> Due(o)) /\ (ReadDue' <=> ReadDue)
    BY <1>c, <2>1 DEF Due, ReadDue
  <2>5. KeptInv'
    BY <1>0, <2>1, <2>2, <2>4 DEF KeptInv
  <2>6. CleanerInv'
    <3>1. ~Expired(j)
      BY <2>1 DEF Expired
    <3>2. \A i \in cleaner.jobs : Expired(i)'
      BY <1>0, <1>c, <2>1, <2>2, <3>1 DEF CleanerInv, Expired
    <3> QED
      BY <1>0, <1>c, <2>1, <2>2, <2>4, <3>2 DEF CleanerInv
  <2>7. Worsens
    BY <2>1, <2>2, <2>4 DEF Worsens
  <2> QED
    BY <1>0, <1>c, <2>3, <2>5, <2>6, <2>7, ReadsWorsen DEF ResultsInv
<1> QED
  BY <1>1, <1>2, <1>3, <1>4

Reading == (\E kind \in {"download", "result"} : Request(kind)) \/ ReadJobRow \/ DownloadRow \/ DownloadObject
           \/ Presign \/ (\E refresh \in BOOLEAN : ResultRows(refresh))

\* An answer that is right, and as bad as the last one or worse; a next read that may follow.
Honest(a) ==
    /\ ask.at \notin {"idle", "off"}
    /\ a \in {"410", "500", "404"} => ReadDue /\ row[ReadJob] \in {"done", "deleted"}
    /\ ask.kind = "download" => Still(a) /\ a # "failed" /\ Rank(last) <= Rank(a)
Follows(step) ==
    /\ ask.at \notin {"idle", "off"} /\ row[ReadJob] \in {"done", "deleted"}
    /\ step = "object" => ask.kind = "download" /\ last \notin {"410", "404"}
    /\ step = "presign" => ask.kind = "result"

LEMMA ReadingMoves ==
    ASSUME ResultsInv, Reading
    PROVE  \/ \E kind \in {"download", "result"} : Request(kind)
           \/ \E a \in Answers : Answer(a) /\ Honest(a)
           \/ \E step \in {"rows", "object", "presign"} : Proceed(step) /\ Follows(step)
<1> USE ResultConstants, ThePairs
<1>0. ResultTypes /\ KeptInv /\ ReadInv
  BY DEF ResultsInv
<1>1. /\ res[Watched] \in {"none", "live", "evicted"} /\ row[ReadJob] \in {"active", "done", "failed", "deleted"}
      /\ (res[Watched] # "none" => row[ReadJob] = "done") /\ (row[ReadJob] = "done" => res[Watched] # "none")
      /\ (row[ReadJob] = "deleted" => ReadDue)
  BY <1>0 DEF ResultTypes, KeptInv
<1>2. ASSUME NEW o \in Outputs, o[1] = ReadJob, Due(o) PROVE ReadDue
  BY <1>2 DEF Due, ReadDue
<1>3. last \in Answers /\ last # "failed" /\ Still(last) /\ ask.kind \in {"download", "result"}
  BY <1>0 DEF ResultTypes, ReadInv, Asked
<1>4. CASE ReadJobRow
  <2>1. ask.at = "job"
    BY <1>4 DEF ReadJobRow
  <2>2. CASE row[ReadJob] = "deleted"
    <3>1. Answer("404")
      BY <1>4, <2>2 DEF ReadJobRow
    <3>2. Honest("404")
      BY <1>1, <1>3, <2>1, <2>2 DEF Honest, Still, Rank, Answers
    <3> QED
      BY <3>1, <3>2 DEF Answers
  <2>3. CASE row[ReadJob] = "failed"
    <3>1. Answer(IF ask.kind = "download" THEN "409" ELSE "failed")
      BY <1>4, <2>3 DEF ReadJobRow
    <3>2. Honest(IF ask.kind = "download" THEN "409" ELSE "failed")
      BY <1>3, <2>1, <2>3 DEF Honest, Still, Rank, Answers
    <3> QED
      BY <3>1, <3>2 DEF Answers
  <2>4. CASE row[ReadJob] = "active"
    <3>1. Answer("202")
      BY <1>4, <2>4 DEF ReadJobRow
    <3>2. Honest("202")
      BY <1>3, <2>1, <2>4 DEF Honest, Still, Rank, Answers
    <3> QED
      BY <3>1, <3>2 DEF Answers
  <2>5. CASE row[ReadJob] = "done"
    <3>1. Proceed("rows")
      BY <1>4, <2>5 DEF ReadJobRow
    <3>2. Follows("rows")
      BY <2>1, <2>5 DEF Follows
    <3> QED
      BY <3>1, <3>2
  <2> QED
    BY <1>1, <2>2, <2>3, <2>4, <2>5
<1>5. CASE DownloadRow
  <2>1. ask.at = "rows" /\ ask.kind = "download" /\ row[ReadJob] \in {"done", "deleted"}
    BY <1>0, <1>5 DEF DownloadRow, ReadInv
  <2>2. CASE res[Watched] = "none"
    <3>1. Answer("404")
      BY <1>5, <2>2 DEF DownloadRow
    <3>2. row[ReadJob] = "deleted"
      BY <1>1, <2>1, <2>2
    <3>3. Honest("404")
      BY <1>1, <1>3, <2>1, <3>2 DEF Honest, Still, Rank, Answers
    <3> QED
      BY <3>1, <3>3 DEF Answers
  <2>3. CASE res[Watched] = "evicted"
    <3>1. Answer("410")
      BY <1>5, <2>3 DEF DownloadRow
    <3>2. row[ReadJob] = "done" /\ Due(Watched)
      BY <1>0, <1>1, <2>3 DEF KeptInv
    <3>3. ReadDue
      BY <1>2, <3>2
    <3>4. last # "404"
      BY <1>3, <3>2 DEF Still
    <3>5. Honest("410")
      BY <1>3, <2>1, <2>3, <3>2, <3>3, <3>4 DEF Honest, Still, Rank, Answers
    <3> QED
      BY <3>1, <3>5 DEF Answers
  <2>4. CASE res[Watched] = "live"
    <3>1. Proceed("object")
      BY <1>5, <2>4 DEF DownloadRow
    <3>2. last \notin {"410", "404"}
      BY <1>1, <1>3, <2>4 DEF Still
    <3>3. Follows("object")
      BY <2>1, <3>2 DEF Follows
    <3> QED
      BY <3>1, <3>3
  <2> QED
    BY <1>1, <2>2, <2>3, <2>4
<1>6. CASE DownloadObject
  <2>1. /\ ask.at = "object" /\ ask.kind = "download" /\ row[ReadJob] \in {"done", "deleted"}
        /\ last \notin {"410", "404"}
    BY <1>0, <1>6 DEF DownloadObject, ReadInv
  <2>2. CASE object[Watched] = NoObject
    <3>1. Answer("500")
      BY <1>6, <2>2 DEF DownloadObject
    <3>2. row[ReadJob] = "done" => Due(Watched)
      BY <1>0, <2>2 DEF KeptInv
    <3>3. ReadDue
      BY <1>1, <1>2, <2>1, <3>2
    <3>4. Honest("500")
      BY <1>3, <2>1, <2>2, <3>3 DEF Honest, Still, Rank, Answers
    <3> QED
      BY <3>1, <3>4 DEF Answers
  <2>3. CASE object[Watched] # NoObject
    <3>1. Answer("200")
      BY <1>6, <2>3 DEF DownloadObject
    <3>2. last # "500"
      BY <1>3, <2>3 DEF Still
    <3>3. Honest("200")
      BY <1>3, <2>1, <3>2 DEF Honest, Still, Rank, Answers
    <3> QED
      BY <3>1, <3>3 DEF Answers
  <2> QED
    BY <2>2, <2>3
<1>7. CASE Presign
  <2>1. ask.at = "presign" /\ Answer(IF row[ReadJob] = "deleted" THEN "500" ELSE "200")
    BY <1>7 DEF Presign
  <2>2. ask.kind # "download" => Honest(IF row[ReadJob] = "deleted" THEN "500" ELSE "200")
    BY <1>1, <2>1 DEF Honest
  <2>3. ask.kind # "download"
    BY <1>0, <2>1 DEF ReadInv
  <2> QED
    BY <2>1, <2>2, <2>3 DEF Answers
<1>8. ASSUME NEW refresh \in BOOLEAN, ResultRows(refresh)
      PROVE  \/ \E a \in Answers : Answer(a) /\ Honest(a)
             \/ \E step \in {"rows", "object", "presign"} : Proceed(step) /\ Follows(step)
  <2>1. ask.at = "rows" /\ ask.kind = "result" /\ row[ReadJob] \in {"done", "deleted"}
    BY <1>0, <1>8 DEF ResultRows, ReadInv
  <2> DEFINE rows == {res[<<ReadJob, f>>] : f \in Formats} \ {"none"}
  <2>2. CASE rows = {"evicted"}
    <3>1. Answer("410")
      BY <1>8, <2>2 DEF ResultRows
    <3>2. PICK f \in Formats : res[<<ReadJob, f>>] = "evicted"
      BY <2>2
    <3>3. row[ReadJob] = "done" /\ Due(<<ReadJob, f>>)
      BY <1>0, <3>2 DEF KeptInv
    <3>4. ReadDue
      BY <1>2, <3>3
    <3>5. Honest("410")
      BY <2>1, <3>4 DEF Honest
    <3> QED
      BY <3>1, <3>5 DEF Answers
  <2>3. CASE rows # {"evicted"} /\ (rows = {} \/ ~refresh)
    <3>1. Answer("200")
      BY <1>8, <2>3 DEF ResultRows
    <3>2. Honest("200")
      BY <2>1 DEF Honest
    <3> QED
      BY <3>1, <3>2 DEF Answers
  <2>4. CASE rows \notin {{}, {"evicted"}} /\ refresh
    <3>1. Proceed("presign")
      BY <1>8, <2>4 DEF ResultRows
    <3>2. Follows("presign")
      BY <2>1 DEF Follows
    <3> QED
      BY <3>1, <3>2
  <2> QED
    BY <2>2, <2>3, <2>4
<1> QED
  BY <1>4, <1>5, <1>6, <1>7, <1>8 DEF Reading

\* The user's requests: what a request has seen in one read still bounds the next.
LEMMA ReadingInv == ResultsInv /\ Reading => ResultsInv'
<1> SUFFICES ASSUME ResultsInv, Reading PROVE ResultsInv'
  OBVIOUS
<1> USE ResultConstants, ThePairs
<1>0. ResultTypes /\ KeptInv /\ CleanerInv /\ ReadInv
  BY DEF ResultsInv
<1>1. UNCHANGED <<row, age, res, object, put, ticks, cleaner, capped, troubles>>
  BY ReadingMoves DEF Request, Answer, Proceed
<1>2. KeptInv' /\ CleanerInv'
  BY <1>0, <1>1 DEF KeptInv, CleanerInv, Due, ReadDue, Expired
<1>3. (ReadDue' <=> ReadDue) /\ \A a : Still(a)' <=> Still(a)
  <2>1. ReadDue' <=> ReadDue
    BY <1>1 DEF ReadDue
  <2>2. ASSUME NEW a PROVE Still(a)' <=> Still(a)
    BY <1>1 DEF Still
  <2> QED
    BY <2>1, <2>2
<1>4. ResultTypes' /\ ReadInv' => ResultsInv'
  BY <1>2 DEF ResultsInv
<1>5. ASSUME ask' \in Asked, last' \in Answers PROVE ResultTypes'
  BY <1>0, <1>1, <1>5 DEF ResultTypes
<1>6. ask \in Asked /\ last \in Answers
  BY <1>0 DEF ResultTypes
<1>9. ASSUME NEW a \in Answers, Answer(a), Honest(a) PROVE ResultsInv'
  <2>1. ask' = [ask EXCEPT !.at = "idle", !.answer = a] /\ last' = last
    BY <1>9 DEF Answer
  <2>2. ask'.at = "idle" /\ ask'.kind = ask.kind /\ ask'.answer = a /\ ask' \in Asked
    BY <1>6, <1>9, <2>1 DEF Asked
  <2>3. ResultTypes'
    BY <1>5, <1>6, <2>1, <2>2
  <2>4. Still(last)'
    <3>1. Still(last)
      BY <1>0 DEF ReadInv
    <3>2. Still(last)' <=> Still(last)
      BY <1>1, <2>1 DEF Still
    <3> QED
      BY <3>1, <3>2
  <2>5. ask'.kind = "download" => Still(ask.answer)'
    <3>1. Still(ask.answer)' <=> Still(a)
      BY <1>1, <2>2 DEF Still
    <3> QED
      BY <1>9, <2>2, <3>1 DEF Honest
  <2>6. ReadsGoForward'
    BY <1>9, <2>1, <2>2 DEF Honest, ReadsGoForward
  <2>7. ReadInv'
    BY <1>0, <1>1, <1>3, <1>9, <2>1, <2>2, <2>4, <2>5, <2>6 DEF ReadInv, Honest
  <2> QED
    BY <1>4, <2>3, <2>7
<1>10. ASSUME NEW step \in {"rows", "object", "presign"}, Proceed(step), Follows(step) PROVE ResultsInv'
  <2>1. ask' = [ask EXCEPT !.at = step] /\ last' = last
    BY <1>10 DEF Follows, Proceed
  <2>0. ask.at # "idle" /\ ask.answer = "none"
    BY <1>0, <1>10 DEF ReadInv, Follows
  <2>2. ask'.at = step /\ ask'.kind = ask.kind /\ ask'.answer = ask.answer /\ ask.answer = "none" /\ ask' \in Asked
    BY <1>6, <2>0, <2>1 DEF Asked
  <2>3. ResultTypes'
    BY <1>5, <1>6, <2>1, <2>2
  <2>4. Still(last)' /\ Still(ask.answer)'
    <3>1. Still(last) /\ Still("none")
      BY <1>0 DEF ReadInv, Still
    <3>2. (Still(last)' <=> Still(last)) /\ (Still(ask.answer)' <=> Still("none"))
      BY <1>1, <2>1, <2>2 DEF Still
    <3> QED
      BY <3>1, <3>2
  <2>5. ReadsGoForward'
    BY <1>10, <2>2 DEF ReadsGoForward
  <2>6. ReadInv'
    <3>1. row'[ReadJob] \in {"done", "deleted"} /\ (step = "object" => ask.kind = "download" /\ last \notin {"410", "404"})
          /\ (step = "presign" => ask.kind = "result")
      BY <1>1, <1>10 DEF Follows
    <3>2. last' # "failed" /\ ask'.answer = "none" /\ ask'.at = step /\ ask'.kind = ask.kind /\ last' = last
      BY <1>0, <2>1, <2>2 DEF ReadInv
    <3> QED
      BY <2>4, <2>5, <3>1, <3>2 DEF ReadInv
  <2> QED
    BY <1>4, <2>3, <2>6
<1>11. ASSUME NEW kind \in {"download", "result"}, Request(kind) PROVE ResultsInv'
  <2>1. /\ ask.at = "idle" /\ ask' = [at |-> "job", kind |-> kind, answer |-> "none"]
        /\ last' = IF ask.kind = "download" /\ ask.answer # "none" THEN ask.answer ELSE last
    BY <1>11 DEF Request
  <2>2. ask' \in Asked /\ last' \in Answers
    BY <1>6, <2>1 DEF Asked, Answers
  <2>3. ResultTypes'
    BY <1>5, <2>2
  <2>4. Still(last)' /\ last' # "failed"
    <3>1. Still(IF ask.kind = "download" /\ ask.answer # "none" THEN ask.answer ELSE last)
      BY <1>0 DEF ReadInv
    <3>2. Still(last)' <=> Still(IF ask.kind = "download" /\ ask.answer # "none" THEN ask.answer ELSE last)
      BY <1>1, <2>1 DEF Still
    <3>3. last' # "failed"
      BY <1>0, <2>1 DEF ReadInv
    <3> QED
      BY <3>1, <3>2, <3>3
  <2>5. Still(ask.answer)'
    BY <2>1 DEF Still
  <2>6. ReadsGoForward'
    BY <2>1 DEF ReadsGoForward
  <2>7. ReadInv'
    BY <2>1, <2>4, <2>5, <2>6 DEF ReadInv
  <2> QED
    BY <1>4, <2>3, <2>7
<1> QED
  BY <1>9, <1>10, <1>11, ReadingMoves

\* plan_eviction takes live results that are not too old.
LEMMA PlanFits ==
    ASSUME NEW oldest \in Oldest, NEW used
    PROVE  PlanEviction(oldest, used) \subseteq Live \ Aged
<1> DEFINE S == Live \ Aged
<1>1. IsFiniteSet(Outputs)
  BY ResultsAssumption, FS_Product DEF Outputs
<1>2. S \in SUBSET Outputs
  BY DEF Live
<1>3. Cardinality(S) \in Nat
  BY <1>1, <1>2, FS_Subset, FS_CardinalityType
<1>4. oldest \in [1..Cardinality(S) -> S]
  BY DEF Oldest, SetToSeqs
<1> HIDE DEF S
<1>5. Len(oldest) = Cardinality(S)
  BY <1>3, <1>4
<1>6. \A n \in 1..Len(oldest) : oldest[n] \in S
  BY <1>4, <1>5
<1>7. PlanEviction(oldest, used) \subseteq {oldest[n] : n \in 1..Len(oldest)}
  BY DEF PlanEviction
<1> QED
  BY <1>6, <1>7 DEF S

\* A step of the cleanup that deletes nothing.
LEMMA CleanerSteps ==
    ASSUME ResultsInv, UNCHANGED <<row, age, res, object, put, ask, last>>,
           capped \subseteq capped', capped' \subseteq Outputs, ticks' \in 0..(HeavyEvery - 1),
           cleaner' \in Cleaners, CleanerInv'
    PROVE  ResultsInv'
<1>0. ResultTypes /\ KeptInv /\ ReadInv
  BY DEF ResultsInv
<1>1. ResultTypes'
  BY <1>0 DEF ResultTypes
<1>2. (\A o \in Outputs : Due(o) => Due(o)') /\ (ReadDue => ReadDue')
  BY DEF Due, ReadDue
<1>3. KeptInv'
  BY <1>0, <1>2 DEF KeptInv
<1>4. Worsens
  BY <1>2 DEF Worsens
<1> QED
  BY <1>0, <1>1, <1>3, <1>4, ReadsWorsen DEF ResultsInv

\* A step of the cleanup that deletes objects of results that are due, or that nobody has.
LEMMA CleanerDeletes ==
    ASSUME ResultsInv, NEW gone \in SUBSET Outputs,
           object' = [o \in Outputs |-> IF o \in gone THEN NoObject ELSE object[o]],
           \A o \in gone : row[o[1]] = "done" => Due(o),
           UNCHANGED <<row, age, res, put, ticks, capped, ask, last>>,
           cleaner' \in Cleaners, CleanerInv'
    PROVE  ResultsInv'
<1> USE ThePairs
<1>0. ResultTypes /\ KeptInv /\ ReadInv
  BY DEF ResultsInv
<1>1. object' \in [Outputs -> 0..AgeMax \cup {NoObject}]
  BY <1>0 DEF ResultTypes
<1>2. ResultTypes'
  BY <1>0, <1>1 DEF ResultTypes
<1>3. (\A o \in Outputs : Due(o)' <=> Due(o)) /\ (ReadDue' <=> ReadDue)
  BY DEF Due, ReadDue
<1>4. \A o \in Outputs : object'[o] = IF o \in gone THEN NoObject ELSE object[o]
  OBVIOUS
<1>5. KeptInv'
  <2>1. ASSUME NEW o \in Outputs, row[o[1]] = "done", object'[o] = NoObject PROVE Due(o)
    BY <1>0, <1>4, <2>1 DEF KeptInv
  <2>2. ASSUME NEW o \in Outputs, row[o[1]] = "done", object'[o] # NoObject PROVE object'[o] <= age[o[1]] + LateHarvest
    BY <1>0, <1>4, <2>2 DEF KeptInv
  <2> QED
    BY <1>0, <1>3, <2>1, <2>2 DEF KeptInv
<1>6. Worsens
  BY <1>3, <1>4 DEF Worsens
<1> QED
  BY <1>0, <1>2, <1>5, <1>6, ReadsWorsen DEF ResultsInv

LEMMA IdleCleaner == Idle \in Cleaners /\ AfterRetention \in Cleaners /\ Idle.jobs = {} /\ Idle.outs = {}
                     /\ AfterRetention.jobs = {} /\ AfterRetention.outs = {}
BY DEF Idle, AfterRetention, Cleaners, CleanSteps

Cleaning ==
    \/ CleanTick \/ JobsSelect \/ JobsCommit \/ SweepSelect \/ SweepCommit \/ PurgeList
    \/ \E failed \in SUBSET cleaner.outs : JobsObjects(failed) \/ SweepObjects(failed) \/ PurgeObjects(failed)
    \/ CleanFails \/ CleanDies

\* The cleanup, whichever of its deletes and steps fail and wherever it dies.
LEMMA CleaningInv ==
    ASSUME KeptLongEnough, ResultsInv, Cleaning
    PROVE  ResultsInv'
<1> USE ResultConstants, ThePairs, IdleCleaner
<1>0. ResultTypes /\ KeptInv /\ CleanerInv /\ ReadInv
  BY DEF ResultsInv
<1>c. /\ cleaner \in Cleaners /\ capped \subseteq Outputs /\ ticks \in 0..(HeavyEvery - 1)
      /\ cleaner.jobs \subseteq SingleJobs /\ cleaner.outs \subseteq Outputs
  BY <1>0 DEF ResultTypes, Cleaners
<1>n. ASSUME cleaner'.jobs = {}, cleaner'.outs = {} PROVE CleanerInv'
  BY <1>n DEF CleanerInv
<1>1. CASE CleanTick
  <2>1. /\ cleaner' = [Idle EXCEPT !.at = "jobs", !.heavy = (ticks = 0)] /\ ticks' = (ticks + 1) % HeavyEvery
        /\ UNCHANGED <<row, age, res, object, put, capped, ask, last>>
    BY <1>1 DEF CleanTick
  <2>2. cleaner' \in Cleaners /\ cleaner'.jobs = {} /\ cleaner'.outs = {}
    BY <2>1 DEF Cleaners, CleanSteps, Idle
  <2>3. ticks + 1 \in Nat
    BY <1>c
  <2>4. ticks' \in 0..(HeavyEvery - 1)
    BY <2>1, <2>3, ModRange
  <2> QED
    BY <1>c, <1>n, <2>1, <2>2, <2>4, CleanerSteps
<1>2. CASE JobsSelect
  <2> DEFINE gone == {j \in SingleJobs : Expired(j)}
             outs == {o \in Outputs : o[1] \in gone /\ res[o] = "live"}
  <2>1. /\ cleaner' = IF gone = {} THEN [cleaner EXCEPT !.at = "evict"]
                      ELSE [cleaner EXCEPT !.at = "jobsObjects", !.jobs = gone, !.outs = outs]
        /\ cleaner.at = "jobs" /\ UNCHANGED <<row, age, res, object, put, ticks, capped, ask, last>>
    BY <1>2 DEF JobsSelect
  <2>2. \A j \in gone : Expired(j)
    OBVIOUS
  <2>3. gone \subseteq SingleJobs /\ outs \subseteq Outputs /\ \A o \in outs : o[1] \in gone
    OBVIOUS
  <2> HIDE DEF gone, outs
  <2>4. CASE gone = {}
    <3>1. cleaner' = [cleaner EXCEPT !.at = "evict"]
      BY <2>1, <2>4
    <3>2. cleaner' \in Cleaners /\ cleaner'.at = "evict" /\ cleaner'.jobs = cleaner.jobs
      BY <1>c, <3>1 DEF Cleaners, CleanSteps
    <3>3. \A j \in cleaner.jobs : Expired(j)'
      BY <1>0, <2>1 DEF CleanerInv, Expired
    <3>4. CleanerInv'
      BY <3>2, <3>3 DEF CleanerInv
    <3> QED
      BY <1>c, <2>1, <3>2, <3>4, CleanerSteps
  <2>5. CASE gone # {}
    <3>1. cleaner' = [cleaner EXCEPT !.at = "jobsObjects", !.jobs = gone, !.outs = outs]
      BY <2>1, <2>5
    <3>2. cleaner'.at = "jobsObjects" /\ cleaner'.jobs = gone /\ cleaner'.outs = outs /\ cleaner' \in Cleaners
      BY <1>c, <2>3, <3>1 DEF Cleaners, CleanSteps
    <3>3. \A j \in gone : Expired(j)'
      BY <2>1, <2>2 DEF Expired
    <3>4. CleanerInv'
      BY <2>3, <3>2, <3>3 DEF CleanerInv
    <3> QED
      BY <1>c, <2>1, <3>2, <3>4, CleanerSteps
  <2> QED
    BY <2>4, <2>5
<1>3. CASE JobsCommit
  <2>1. /\ res' = [o \in Outputs |-> IF o[1] \in cleaner.jobs THEN "none" ELSE res[o]]
        /\ row' = [j \in SingleJobs |-> IF j \in cleaner.jobs THEN "deleted" ELSE row[j]]
        /\ cleaner' = [cleaner EXCEPT !.at = "jobs", !.jobs = {}, !.outs = {}]
        /\ UNCHANGED <<age, object, put, ticks, capped, ask, last>>
    BY <1>3 DEF JobsCommit
  <2>2. cleaner' \in Cleaners /\ cleaner'.jobs = {} /\ cleaner'.outs = {}
    BY <1>c, <2>1 DEF Cleaners, CleanSteps
  <2>3. row' \in [SingleJobs -> {"active", "done", "failed", "deleted"}]
        /\ res' \in [Outputs -> {"none", "live", "evicted"}]
    BY <1>0, <2>1 DEF ResultTypes
  <2>4. ResultTypes'
    BY <1>0, <2>1, <2>2, <2>3 DEF ResultTypes
  <2>5. (\A o \in Outputs : Due(o)' <=> Due(o)) /\ (ReadDue' <=> ReadDue)
    BY <2>1 DEF Due, ReadDue
  <2>6. KeptInv'
    <3>1. ReadJob \in cleaner.jobs => ReadDue
      BY <1>0 DEF CleanerInv, Expired, ReadDue
    <3> QED
      BY <1>0, <2>1, <2>5, <3>1 DEF KeptInv
  <2>7. Worsens
    BY <1>0, <2>1, <2>5 DEF Worsens, ResultTypes
  <2> QED
    BY <1>0, <1>n, <2>1, <2>2, <2>4, <2>6, <2>7, ReadsWorsen DEF ResultsInv
<1>4. CASE SweepSelect
  <2>1. PICK oldest \in Oldest :
          LET over == IF CapBytes = NoCap THEN {} ELSE PlanEviction(oldest, Sizes(Live \ Aged))
          IN  /\ cleaner' = IF Aged \cup over = {} THEN AfterRetention
                            ELSE [cleaner EXCEPT !.at = "evictObjects", !.outs = Aged \cup over]
              /\ capped' = capped \cup over
    BY <1>4 DEF SweepSelect
  <2> DEFINE over == IF CapBytes = NoCap THEN {} ELSE PlanEviction(oldest, Sizes(Live \ Aged))
             outs == Aged \cup over
  <2>2. over \subseteq Live
    BY PlanFits
  <2>3. /\ cleaner' = IF outs = {} THEN AfterRetention ELSE [cleaner EXCEPT !.at = "evictObjects", !.outs = outs]
        /\ capped' = capped \cup over /\ UNCHANGED <<row, age, res, object, put, ticks, ask, last>>
    BY <1>4, <2>1 DEF SweepSelect
  <2> HIDE DEF over
  <2>4. outs \subseteq Outputs /\ \A o \in outs : row[o[1]] = "done" /\ (age[o[1]] > MaxAge \/ o \in over)
    BY <1>0, <2>2 DEF Aged, Live, KeptInv
  <2> HIDE DEF outs
  <2>5. \A o \in outs : row'[o[1]] = "done" /\ Due(o)'
    BY <2>3, <2>4 DEF Due
  <2>6. capped \subseteq capped' /\ capped' \subseteq Outputs
    BY <1>c, <2>2, <2>3 DEF Live
  <2>7. CASE outs = {}
    BY <1>c, <1>n, <2>3, <2>6, <2>7, CleanerSteps
  <2>8. CASE outs # {}
    <3>1. cleaner' = [cleaner EXCEPT !.at = "evictObjects", !.outs = outs]
      BY <2>3, <2>8
    <3>2. cleaner' \in Cleaners /\ cleaner'.at = "evictObjects" /\ cleaner'.jobs = cleaner.jobs /\ cleaner'.outs = outs
      BY <1>c, <2>4, <3>1 DEF Cleaners, CleanSteps
    <3>3. \A j \in cleaner.jobs : Expired(j)'
      BY <1>0, <2>3 DEF CleanerInv, Expired
    <3>4. CleanerInv'
      BY <2>5, <3>2, <3>3 DEF CleanerInv
    <3> QED
      BY <1>c, <2>3, <2>6, <3>2, <3>4, CleanerSteps
  <2> QED
    BY <2>7, <2>8
<1>5. CASE SweepCommit
  <2>1. /\ cleaner.at = "evictCommit" /\ cleaner' = AfterRetention
        /\ res' = [o \in Outputs |-> IF o \in cleaner.outs /\ res[o] # "none" THEN "evicted" ELSE res[o]]
        /\ UNCHANGED <<row, age, object, put, ticks, capped, ask, last>>
    BY <1>5 DEF SweepCommit
  <2>2. res' \in [Outputs -> {"none", "live", "evicted"}]
    BY <1>0, <2>1 DEF ResultTypes
  <2>3. ResultTypes'
    BY <1>0, <2>1, <2>2 DEF ResultTypes
  <2>4. (\A o \in Outputs : Due(o)' <=> Due(o)) /\ (ReadDue' <=> ReadDue)
    BY <2>1 DEF Due, ReadDue
  <2>5. \A o \in cleaner.outs : Due(o)
    BY <1>0, <2>1 DEF CleanerInv
  <2>6. KeptInv'
    BY <1>0, <2>1, <2>4, <2>5 DEF KeptInv
  <2>7. Worsens
    BY <2>1, <2>4 DEF Worsens
  <2> QED
    BY <1>0, <1>n, <2>1, <2>3, <2>6, <2>7, ReadsWorsen DEF ResultsInv
<1>6. CASE PurgeList
  <2> DEFINE old == {o \in Outputs : object[o] # NoObject /\ object[o] > StorageTTL}
  <2>1. /\ cleaner' = IF old = {} THEN Idle ELSE [cleaner EXCEPT !.at = "purgeObjects", !.outs = old]
        /\ UNCHANGED <<row, age, res, object, put, ticks, capped, ask, last>>
    BY <1>6 DEF PurgeList
  <2>2. old \subseteq Outputs /\ \A o \in old : object'[o] # NoObject /\ object'[o] > StorageTTL
    BY <2>1
  <2> HIDE DEF old
  <2>3. CASE old = {}
    BY <1>c, <1>n, <2>1, <2>3, CleanerSteps
  <2>4. CASE old # {}
    <3>1. cleaner' = [cleaner EXCEPT !.at = "purgeObjects", !.outs = old]
      BY <2>1, <2>4
    <3>2. cleaner' \in Cleaners /\ cleaner'.at = "purgeObjects" /\ cleaner'.jobs = cleaner.jobs /\ cleaner'.outs = old
      BY <1>c, <2>2, <3>1 DEF Cleaners, CleanSteps
    <3>3. \A j \in cleaner.jobs : Expired(j)'
      BY <1>0, <2>1 DEF CleanerInv, Expired
    <3>4. CleanerInv'
      BY <2>2, <3>2, <3>3 DEF CleanerInv
    <3> QED
      BY <1>c, <2>1, <3>2, <3>4, CleanerSteps
  <2> QED
    BY <2>3, <2>4
<1>7. ASSUME NEW failed \in SUBSET cleaner.outs, JobsObjects(failed) \/ SweepObjects(failed) \/ PurgeObjects(failed)
      PROVE  ResultsInv'
  <2> DEFINE gone == cleaner.outs \ failed
  <2>1. /\ object' = [o \in Outputs |-> IF o \in gone THEN NoObject ELSE object[o]]
        /\ UNCHANGED <<row, age, res, put, ticks, capped, ask, last>>
    BY <1>7 DEF JobsObjects, SweepObjects, PurgeObjects, DeleteObjects
  <2>2. gone \in SUBSET Outputs /\ gone \subseteq cleaner.outs
    BY <1>c
  <2> HIDE DEF gone
  <2>3. (\A j \in cleaner.jobs : Expired(j)') /\ \A o \in Outputs : Due(o)' <=> Due(o)
    BY <1>0, <2>1 DEF CleanerInv, Expired, Due
  <2>4. CASE JobsObjects(failed)
    <3>1. cleaner.at = "jobsObjects" /\ cleaner' = [cleaner EXCEPT !.at = "jobsCommit"]
      BY <2>4 DEF JobsObjects
    <3>2. /\ cleaner' \in Cleaners /\ cleaner'.at = "jobsCommit"
          /\ cleaner'.jobs = cleaner.jobs /\ cleaner'.outs = cleaner.outs
      BY <1>c, <3>1 DEF Cleaners, CleanSteps
    <3>3. CleanerInv'
      BY <1>0, <2>3, <3>1, <3>2 DEF CleanerInv
    <3>4. \A o \in gone : row[o[1]] = "done" => Due(o)
      BY <1>0, <2>2, <3>1 DEF CleanerInv, Expired, Due
    <3> QED
      BY <2>1, <2>2, <3>2, <3>3, <3>4, CleanerDeletes
  <2>5. CASE SweepObjects(failed)
    <3>1. cleaner.at = "evictObjects" /\ cleaner' = [cleaner EXCEPT !.at = "evictCommit"]
      BY <2>5 DEF SweepObjects
    <3>2. /\ cleaner' \in Cleaners /\ cleaner'.at = "evictCommit"
          /\ cleaner'.jobs = cleaner.jobs /\ cleaner'.outs = cleaner.outs
      BY <1>c, <3>1 DEF Cleaners, CleanSteps
    <3>3. \A o \in cleaner.outs : row'[o[1]] = "done" /\ Due(o)'
      BY <1>0, <1>c, <2>1, <2>3, <3>1 DEF CleanerInv
    <3>4. CleanerInv'
      BY <2>3, <3>2, <3>3 DEF CleanerInv
    <3>5. \A o \in gone : row[o[1]] = "done" => Due(o)
      BY <1>0, <2>2, <3>1 DEF CleanerInv
    <3> QED
      BY <2>1, <2>2, <3>2, <3>4, <3>5, CleanerDeletes
  <2>6. CASE PurgeObjects(failed)
    <3>1. cleaner.at = "purgeObjects" /\ cleaner' = Idle
      BY <2>6 DEF PurgeObjects
    <3>2. ASSUME NEW o \in gone, row[o[1]] = "done" PROVE Due(o)
      <4>1. o \in Outputs /\ object[o] # NoObject /\ object[o] > StorageTTL
        BY <1>0, <2>2, <3>1, <3>2 DEF CleanerInv
      <4>2. object[o] <= age[o[1]] + LateHarvest
        BY <1>0, <3>2, <4>1 DEF KeptInv
      <4>3. object[o] \in Nat /\ age[o[1]] \in Nat
        BY <1>0, <4>1 DEF ResultTypes
      <4> QED
        BY <4>1, <4>2, <4>3 DEF KeptLongEnough, Due
    <3> QED
      BY <1>n, <2>1, <2>2, <3>1, <3>2, CleanerDeletes
  <2> QED
    BY <1>7, <2>4, <2>5, <2>6
<1>8. CASE CleanFails \/ CleanDies
  <2>1. cleaner' \in {Idle, AfterRetention} /\ ticks' \in {ticks, 0}
        /\ UNCHANGED <<row, age, res, object, put, capped, ask, last>>
    BY <1>8 DEF CleanFails, CleanDies
  <2> QED
    BY <1>c, <1>n, <2>1, CleanerSteps
<1> QED
  BY <1>1, <1>2, <1>3, <1>4, <1>5, <1>6, <1>7, <1>8 DEF Cleaning

LEMMA ResultsStep ==
    ASSUME KeptLongEnough, ResultsInv, [ResultsNext]_resultVars
    PROVE  ResultsInv'
<1>1. CASE UNCHANGED resultVars
  <2>1. UNCHANGED <<row, age, res, object, put, ticks, cleaner, capped, ask, last>>
    BY <1>1 DEF resultVars
  <2>2. ResultTypes /\ CleanerInv
    BY DEF ResultsInv
  <2>3. CleanerInv'
    BY <2>1, <2>2 DEF CleanerInv, Due, Expired
  <2> QED
    BY <2>1, <2>2, <2>3, CleanerSteps DEF ResultTypes
<1>2. CASE Reading
  BY <1>2, ReadingInv
<1>3. CASE Cleaning
  BY <1>3, CleaningInv
<1> QED
  BY <1>1, <1>2, <1>3, AgeTickInv, JobStepInv DEF ResultsNext, Reading, Cleaning

LEMMA ResultsFit == ResultsInv => ReadsSound
<1> SUFFICES ASSUME ResultsInv PROVE ReadsSound
  OBVIOUS
<1>1. ResultTypes /\ KeptInv /\ ReadInv
  BY DEF ResultsInv
<1>2. ResultsTypeOK
  BY <1>1 DEF ResultTypes, KeptInv, ResultsTypeOK, Cleaners
<1>3. ReadDue => \/ age[ReadJob] > MaxAge \/ age[ReadJob] > Min({DoneTTL, FailedTTL})
                 \/ \E f \in Formats : <<ReadJob, f>> \in capped
  <2>1. DoneTTL \in Nat /\ FailedTTL \in Nat /\ age[ReadJob] \in Nat
    BY <1>1, ResultConstants, ThePairs DEF ResultTypes
  <2>2. \A x \in {DoneTTL, FailedTTL} : Min({DoneTTL, FailedTTL}) =< x /\ Min({DoneTTL, FailedTTL}) \in Nat
    BY <2>1, ShorterOf
  <2> QED
    BY <2>1, <2>2 DEF ReadDue
<1>4. DownloadableUntil
  BY <1>1, <1>3 DEF ReadInv, DownloadableUntil
<1>5. ReadsGoForward
  BY <1>1 DEF ReadInv
<1> QED
  BY <1>2, <1>4, <1>5 DEF ReadsSound

\* A user who reads a result, over and over, is told that it is gone, or meets a missing
\* object, only when its age, its job's TTL or the storage cap has taken it, and never again
\* that it is there: for any jobs, outputs, TTLs and cap, in whatever order the cleanup deletes
\* objects and rows and wherever it fails; if the bucket keeps its objects for long enough,
\* and if the job was not long gone at the start.
THEOREM ReadsAreSound ==
    ASSUME KeptLongEnough
    PROVE  ResultsSpec /\ row[ReadJob] # "deleted" => []ReadsSound
<1>1. ResultsInv /\ [ResultsNext]_resultVars => ResultsInv'
  BY ResultsStep
<1> QED
  BY <1>1, ResultsInitInv, ResultsFit, PTL DEF ResultsSpec

-----------------------------------------------------------------------------
\* Induction, without a predicate to instantiate: of the numbers at which something fails,
\* one is the least.
LEMMA LeastOne ==
    ASSUME NEW T \in SUBSET Nat, T # {}
    PROVE  \E x \in T : \A y \in T : x <= y
<1>1. IsWellFoundedOn(OpToRel(<, Nat), Nat)
  BY NatLessThanWellFounded
<1> DEFINE R == {ss \in Nat \X Nat : ss[1] < ss[2]}
<1>2. IsWellFoundedOn(R, Nat)
  BY <1>1 DEF OpToRel
<1>3. PICK x \in T : \A y \in T : ~(<<y, x>> \in R)
  BY <1>2, WFMin
<1>4. \A y \in T : ~(y < x)
  BY <1>3
<1>5. \A y \in T : x <= y
  BY <1>4, x \in Nat
<1> QED
  BY <1>5

\* The sum of w over every subset of S, taken one element at a time.
Some(s) == CHOOSE x \in s : TRUE
IsTally(g, w, S) ==
    g = [s \in SUBSET S |-> IF s = {} THEN 0 ELSE w[Some(s)] + g[s \ {Some(s)}]]

LEMMA OneLess ==
    ASSUME NEW S, IsFiniteSet(S), NEW s \in SUBSET S, NEW x \in s
    PROVE  /\ Cardinality(s) \in Nat \ {0} /\ Cardinality(s \ {x}) = Cardinality(s) - 1
           /\ Cardinality(s \ {x}) \in Nat /\ s \ {x} \in SUBSET S
<1>1. IsFiniteSet(s)
  BY FS_Subset
<1>2. Cardinality(s) \in Nat /\ Cardinality(s \ {x}) = Cardinality(s) - 1
  BY <1>1, FS_RemoveElement, FS_CardinalityType
<1>3. IsFiniteSet(s \ {x}) 
  BY <1>1, FS_Subset
<1>4. Cardinality(s \ {x}) \in Nat
  BY <1>3, FS_CardinalityType
<1> QED
  BY <1>2, <1>4

LEMMA TallyExists ==
    ASSUME NEW S, IsFiniteSet(S), NEW w
    PROVE  \E g : IsTally(g, w, S)
<1> DEFINE Upto(g, n) == 
             \A s \in SUBSET S : Cardinality(s) <= n => g[s] = IF s = {} THEN 0 ELSE w[Some(s)] + g[s \ {Some(s)}]
           Bad == {n \in Nat : ~\E g : Upto(g, n)}
<1>0. \A s \in SUBSET S : s # {} => Some(s) \in s
  BY DEF Some
<1>1. Bad = {}
  <2> SUFFICES ASSUME Bad # {} PROVE FALSE
    OBVIOUS
  <2>1. PICK n \in Bad : \A m \in Bad : n <= m
    BY LeastOne, Bad \in SUBSET Nat
  <2>2. n \in Nat /\ ~\E g : Upto(g, n)
    OBVIOUS
  <2>3. CASE n = 0
    <3> DEFINE g == [s \in SUBSET S |-> 0]
    <3>1. \A s \in SUBSET S : Cardinality(s) <= 0 => s = {}
      BY FS_Subset, FS_EmptySet, FS_CardinalityType
    <3>2. Upto(g, 0)
      BY <3>1
    <3> QED
      BY <2>2, <2>3, <3>2
  <2>4. CASE n # 0
    <3>1. n - 1 \in Nat /\ ~(n <= n - 1)
      BY <2>2, <2>4
    <3>2. PICK g : Upto(g, n - 1)
      BY <2>1, <3>1
    <3> DEFINE h == [s \in SUBSET S |-> IF s = {} THEN 0 ELSE w[Some(s)] + g[s \ {Some(s)}]]
    <3>3. \A s \in SUBSET S : Cardinality(s) <= n - 1 => h[s] = g[s]
      BY <3>2
    <3>4. ASSUME NEW s \in SUBSET S, Cardinality(s) <= n, s # {}
          PROVE  h[s \ {Some(s)}] = g[s \ {Some(s)}]
      <4>1. Some(s) \in s
        BY <1>0, <3>4
      <4>2. Cardinality(s \ {Some(s)}) <= n - 1 /\ s \ {Some(s)} \in SUBSET S
        BY <2>2, <3>4, <4>1, OneLess
      <4> QED
        BY <3>3, <4>2
    <3>5. Upto(h, n)
      BY <3>4
    <3> QED
      BY <2>2, <3>5
  <2> QED
    BY <2>3, <2>4
<1>2. IsFiniteSet(S) /\ Cardinality(S) \in Nat
  BY FS_CardinalityType
<1>3. PICK g : Upto(g, Cardinality(S))
  BY <1>1, <1>2
<1> DEFINE h == [s \in SUBSET S |-> IF s = {} THEN 0 ELSE w[Some(s)] + g[s \ {Some(s)}]]
<1>4. \A s \in SUBSET S : h[s] = g[s]
  BY <1>2, <1>3, FS_Subset
<1>5. \A s \in SUBSET S : s # {} => g[s \ {Some(s)}] = h[s \ {Some(s)}]
  BY <1>4
<1>6. h = [s \in SUBSET S |-> IF s = {} THEN 0 ELSE w[Some(s)] + h[s \ {Some(s)}]]
  BY <1>5
<1> QED
  BY <1>6 DEF IsTally

LEMMA SumIsTally ==
    ASSUME NEW S, NEW T \in SUBSET S, IsFiniteSet(S), NEW w
    PROVE  \E h : IsTally(h, w, T) /\ SumFunctionOnSet(w, T) = h[T]
<1>1. PICK g : IsTally(g, w, T)
  BY TallyExists, FS_Subset
<1>2. g = [s \in SUBSET T |-> IF s = {} THEN 0 ELSE w[CHOOSE x \in s : TRUE] + g[s \ {CHOOSE x \in s : TRUE}]]
  BY <1>1 DEF IsTally, Some
<1> DEFINE it == CHOOSE h : h = [s \in SUBSET T |-> IF s = {} THEN 0 ELSE w[CHOOSE x \in s : TRUE] + h[s \ {CHOOSE x \in s : TRUE}]]
<1>3. it = [s \in SUBSET T |-> IF s = {} THEN 0 ELSE w[CHOOSE x \in s : TRUE] + it[s \ {CHOOSE x \in s : TRUE}]]
  BY <1>2
<1>4. SumFunctionOnSet(w, T) = it[T]
  BY DEF SumFunctionOnSet, FoldFunctionOnSet, MapThenFoldSet
<1> HIDE DEF it
<1> QED
  BY <1>3, <1>4 DEF IsTally, Some

\* A sum of integers is one.
LEMMA TallyInt ==
    ASSUME NEW S, IsFiniteSet(S), NEW w \in [S -> Int], NEW g, IsTally(g, w, S)
    PROVE  \A s \in SUBSET S : g[s] \in Int
<1> DEFINE Bad == {n \in Nat : \E s \in SUBSET S : Cardinality(s) = n /\ g[s] \notin Int}
<1>1. Bad = {}
  <2> SUFFICES ASSUME Bad # {} PROVE FALSE
    OBVIOUS
  <2>1. PICK n \in Bad : \A m \in Bad : n <= m
    BY LeastOne, Bad \in SUBSET Nat
  <2>2. PICK s \in SUBSET S : Cardinality(s) = n /\ g[s] \notin Int
    OBVIOUS
  <2>0. g[s] = IF s = {} THEN 0 ELSE w[Some(s)] + g[s \ {Some(s)}]
    BY <2>2 DEF IsTally
  <2>3. s # {} /\ g[s] = w[Some(s)] + g[s \ {Some(s)}]
    BY <2>0, <2>2
  <2>4. Some(s) \in s
    BY <2>3 DEF Some
  <2>5. Cardinality(s \ {Some(s)}) \in Nat /\ Cardinality(s \ {Some(s)}) = n - 1 /\ s \ {Some(s)} \in SUBSET S
    BY <2>2, <2>4, OneLess
  <2>6. n \in Nat /\ ~(n <= n - 1)
    OBVIOUS
  <2>7. g[s \ {Some(s)}] \in Int
    BY <2>1, <2>5, <2>6
  <2> QED
    BY <2>2, <2>3, <2>4, <2>7
<1> QED
  BY <1>1, FS_Subset, FS_CardinalityType

\* The elements may be taken in any order.
LEMMA TallyAnyOrder ==
    ASSUME NEW S, IsFiniteSet(S), NEW w \in [S -> Int], NEW g, IsTally(g, w, S),
           NEW u \in SUBSET S, NEW e \in u
    PROVE  g[u] = w[e] + g[u \ {e}]
<1> DEFINE Bad == {n \in Nat : \E s \in SUBSET S : Cardinality(s) = n /\ \E x \in s : g[s] # w[x] + g[s \ {x}]}
<1>0. \A s \in SUBSET S : g[s] \in Int /\ (s # {} => Some(s) \in s /\ g[s] = w[Some(s)] + g[s \ {Some(s)}])
  BY TallyInt DEF IsTally, Some
<1>1. Bad = {}
  <2> SUFFICES ASSUME Bad # {} PROVE FALSE
    OBVIOUS
  <2>1. PICK n \in Bad : \A m \in Bad : n <= m
    BY LeastOne, Bad \in SUBSET Nat
  <2>2. PICK s \in SUBSET S : Cardinality(s) = n /\ \E x \in s : g[s] # w[x] + g[s \ {x}]
    OBVIOUS
  <2>3. PICK x \in s : g[s] # w[x] + g[s \ {x}]
    BY <2>2
  <2> DEFINE y == Some(s)
  <2>4. y \in s /\ g[s] = w[y] + g[s \ {y}] /\ y # x
    BY <1>0, <2>3
  <2> HIDE DEF y
  <2>5. /\ Cardinality(s \ {x}) = n - 1 /\ Cardinality(s \ {y}) = n - 1 /\ n - 1 \in Nat
        /\ s \ {x} \in SUBSET S /\ s \ {y} \in SUBSET S
    BY <2>2, <2>3, <2>4, OneLess
  <2>6. ~(n <= n - 1) /\ n - 1 \notin Bad
    BY <2>1
  <2>7. \A t \in SUBSET S : Cardinality(t) = n - 1 => \A z \in t : g[t] = w[z] + g[t \ {z}]
    BY <2>5, <2>6
  <2>8. g[s \ {y}] = w[x] + g[(s \ {y}) \ {x}]
    BY <2>4, <2>5, <2>7
  <2>9. g[s \ {x}] = w[y] + g[(s \ {x}) \ {y}]
    BY <2>4, <2>5, <2>7
  <2>10. (s \ {x}) \ {y} = (s \ {y}) \ {x} /\ (s \ {x}) \ {y} \in SUBSET S
    OBVIOUS
  <2>11. w[x] \in Int /\ w[y] \in Int /\ g[(s \ {x}) \ {y}] \in Int
    BY <1>0, <2>4, <2>10
  <2> DEFINE rest == g[(s \ {x}) \ {y}]
  <2>12. g[s] = w[y] + (w[x] + rest) /\ g[s \ {x}] = w[y] + rest /\ rest \in Int
    BY <2>4, <2>8, <2>9, <2>10, <2>11
  <2> HIDE DEF rest
  <2>13. g[s] = w[x] + g[s \ {x}]
    BY <2>11, <2>12
  <2> QED
    BY <2>3, <2>13
<1> QED
  BY <1>1, FS_Subset, FS_CardinalityType

\* Two tallies agree where their weights do.
LEMMA TallyAgrees ==
    ASSUME NEW S, IsFiniteSet(S), NEW T \in SUBSET S, NEW v, NEW w, \A x \in T : v[x] = w[x],
           NEW g, IsTally(g, v, S), NEW h, IsTally(h, w, T)
    PROVE  \A s \in SUBSET T : g[s] = h[s]
<1> DEFINE Bad == {n \in Nat : \E s \in SUBSET T : Cardinality(s) = n /\ g[s] # h[s]}
<1>0. IsFiniteSet(T)
  BY FS_Subset
<1>1. Bad = {}
  <2> SUFFICES ASSUME Bad # {} PROVE FALSE
    OBVIOUS
  <2>1. PICK n \in Bad : \A m \in Bad : n <= m
    BY LeastOne, Bad \in SUBSET Nat
  <2>2. PICK s \in SUBSET T : Cardinality(s) = n /\ g[s] # h[s]
    OBVIOUS
  <2>3. s # {} /\ g[s] = v[Some(s)] + g[s \ {Some(s)}] /\ h[s] = w[Some(s)] + h[s \ {Some(s)}]
    BY <2>2 DEF IsTally
  <2>4. Some(s) \in s
    BY <2>3 DEF Some
  <2>5. Cardinality(s \ {Some(s)}) \in Nat /\ Cardinality(s \ {Some(s)}) = n - 1 /\ s \ {Some(s)} \in SUBSET T
    BY <1>0, <2>2, <2>4, OneLess
  <2>6. n \in Nat /\ ~(n <= n - 1)
    OBVIOUS
  <2>7. g[s \ {Some(s)}] = h[s \ {Some(s)}]
    BY <2>1, <2>5, <2>6
  <2> QED
    BY <2>2, <2>3, <2>4, <2>7
<1> QED
  BY <1>0, <1>1, FS_Subset, FS_CardinalityType

\* Sums of the library: of integers, and one element at a time, in any order.
LEMMA SumsOf ==
    ASSUME NEW S, IsFiniteSet(S), NEW w, \A x \in S : w[x] \in Int
    PROVE  /\ SumFunctionOnSet(w, {}) = 0
           /\ \A T \in SUBSET S : SumFunctionOnSet(w, T) \in Int
           /\ \A T \in SUBSET S : \A x \in T :
                 SumFunctionOnSet(w, T) = w[x] + SumFunctionOnSet(w, T \ {x})
<1>1. PICK v \in [S -> Int] : \A x \in S : v[x] = w[x]
  <2> WITNESS [x \in S |-> w[x]] \in [S -> Int]
  <2> QED
    OBVIOUS
<1>2. PICK g : IsTally(g, v, S)
  BY TallyExists
<1>3. ASSUME NEW T \in SUBSET S PROVE SumFunctionOnSet(w, T) = g[T]
  <2>1. PICK h : IsTally(h, w, T) /\ SumFunctionOnSet(w, T) = h[T]
    BY SumIsTally
  <2>2. \A x \in T : v[x] = w[x]
    BY <1>1
  <2>3. \A s \in SUBSET T : g[s] = h[s]
    BY <1>2, <2>1, <2>2, TallyAgrees
  <2> QED
    BY <2>1, <2>3
<1>4. g[{}] = 0
  BY <1>2 DEF IsTally
<1>5. \A T \in SUBSET S : g[T] \in Int
  BY <1>1, <1>2, TallyInt
<1>6. ASSUME NEW T \in SUBSET S, NEW x \in T PROVE g[T] = v[x] + g[T \ {x}]
  BY <1>2, TallyAnyOrder
<1> QED
  BY <1>1, <1>3, <1>4, <1>5, <1>6

-----------------------------------------------------------------------------
\* The storage cap.

Stored == Live \ Aged
Rest(oldest, n) == Stored \ {oldest[m] : m \in 1..n}
Enough(size) == 10 * size <= 9 * CapBytes

LEMMA StoredSizes ==
    /\ IsFiniteSet(Outputs) /\ Stored \in SUBSET Outputs /\ Sizes({}) = 0
    /\ \A T \in SUBSET Outputs : Sizes(T) \in Int
    /\ \A T \in SUBSET Outputs : \A o \in T : Sizes(T) = SizeOf[o[2]] + Sizes(T \ {o})
<1> DEFINE w == [o \in Outputs |-> SizeOf[o[2]]]
<1>1. IsFiniteSet(Outputs)
  BY ResultsAssumption, FS_Product DEF Outputs
<1>2. \A o \in Outputs : w[o] \in Int /\ w[o] = SizeOf[o[2]]
  BY ResultsAssumption DEF Outputs
<1>3. \A T : Sizes(T) = SumFunctionOnSet(w, T)
  BY DEF Sizes
<1>4. Stored \in SUBSET Outputs
  BY DEF Stored, Live
<1> HIDE DEF w
<1> QED
  BY <1>1, <1>2, <1>3, <1>4, SumsOf

\* What Oldest orders: every result that is stored, once, the oldest first.
LEMMA OldestFirst ==
    ASSUME NEW oldest \in Oldest
    PROVE  LET N == Len(oldest)
           IN  /\ N \in Nat /\ oldest \in [1..N -> Stored]
               /\ \A m, n \in 1..N : m # n => oldest[m] # oldest[n]
               /\ \A o \in Stored : \E n \in 1..N : oldest[n] = o
               /\ \A m, n \in 1..N : m < n => age[oldest[m][1]] >= age[oldest[n][1]]
<1> DEFINE N == Cardinality(Stored)
<1>1. IsFiniteSet(Stored) /\ N \in Nat
  BY StoredSizes, FS_Subset, FS_CardinalityType
<1>2. /\ oldest \in [1..N -> Stored] /\ \A m, n \in 1..N : m # n => oldest[m] # oldest[n]
      /\ \A m, n \in DOMAIN oldest : m < n => age[oldest[m][1]] >= age[oldest[n][1]]
  BY DEF Oldest, SetToSeqs, Stored
<1>3. Cardinality(1..N) = N
  BY <1>1, FS_Interval
<1>4. oldest \in Injection(1..N, Stored)
  BY <1>2 DEF Injection, IsInjective
<1>5. oldest \in Surjection(1..N, Stored)
  BY <1>1, <1>3, <1>4, FS_Injection
<1>6. \A o \in Stored : \E n \in 1..N : oldest[n] = o
  BY <1>5 DEF Surjection
<1> HIDE DEF N
<1>7. Len(oldest) = N /\ DOMAIN oldest = 1..N
  BY <1>1, <1>2
<1> QED
  BY <1>1, <1>2, <1>6, <1>7

\* plan_eviction takes the oldest, one by one, and stops where enough is gone.
LEMMA PlanTakesPrefix ==
    ASSUME NEW oldest \in Oldest, CapBytes \in Nat, Sizes(Stored) > CapBytes
    PROVE  \E k \in 0..Len(oldest) :
             /\ PlanEviction(oldest, Sizes(Stored)) = {oldest[m] : m \in 1..k}
             /\ k = Len(oldest) \/ Enough(Sizes(Rest(oldest, k)))
             /\ \A m \in 0..(k - 1) : ~Enough(Sizes(Rest(oldest, m)))
<1> DEFINE N == Len(oldest)
           S == Stored
           used == Sizes(S)
           R(n) == Rest(oldest, n)
           Stops == {n \in 0..N : n = N \/ Enough(Sizes(R(n)))}
<1>1. /\ N \in Nat /\ oldest \in [1..N -> S]
      /\ \A m, n \in 1..N : m # n => oldest[m] # oldest[n]
  BY OldestFirst
<1> HIDE DEF N
<1>2. PICK k \in Stops : \A n \in Stops : k <= n
  <2>1. N \in Stops /\ Stops \in SUBSET Nat
    BY <1>1
  <2> QED
    BY <2>1, LeastOne
<1>4. k \in 0..N /\ (k = N \/ Enough(Sizes(R(k))))
  BY <1>2
<1>3. \A m \in 0..(k - 1) : ~Enough(Sizes(R(m)))
  <2>1. \A m \in 0..(k - 1) : m \in 0..N /\ ~(k <= m)
    BY <1>1, <1>4
  <2> QED
    BY <1>2, <2>1
<1>5. R(0) = S /\ \A n \in 0..N : R(n) \in SUBSET Outputs
  BY StoredSizes DEF Rest
<1>6. ASSUME NEW n \in 1..N
      PROVE  Sizes(R(n)) = Sizes(R(n - 1)) - SizeOf[oldest[n][2]]
  <2>1. R(n) = R(n - 1) \ {oldest[n]} /\ oldest[n] \in R(n - 1)
    <3>1. 1..n = (1..(n - 1)) \cup {n} /\ n \notin 1..(n - 1) /\ 1..(n - 1) \subseteq 1..N
      BY <1>1
    <3>2. {oldest[m] : m \in 1..n} = {oldest[m] : m \in 1..(n - 1)} \cup {oldest[n]}
      BY <3>1
    <3>3. oldest[n] \notin {oldest[m] : m \in 1..(n - 1)} /\ oldest[n] \in S
      BY <1>1, <3>1
    <3> QED
      BY <3>2, <3>3 DEF Rest
  <2>2. n - 1 \in 0..N
    BY <1>1
  <2>3. oldest[n] \in Outputs
    BY <1>1, StoredSizes
  <2>4. SizeOf[oldest[n][2]] \in Int
    BY <2>3, ResultsAssumption DEF Outputs
  <2>5. Sizes(R(n - 1)) = SizeOf[oldest[n][2]] + Sizes(R(n)) /\ Sizes(R(n)) \in Int
    BY <1>5, <2>1, <2>2, StoredSizes
  <2> QED
    BY <2>4, <2>5
<1> HIDE DEF R, Stops
<1> DEFINE Falls(size) ==
             size = [n \in 0..N |->
                       IF n = 0 THEN used
                       ELSE IF 10 * size[n - 1] <= 9 * CapBytes THEN size[n - 1]
                            ELSE size[n - 1] - SizeOf[oldest[n][2]]]
           it == CHOOSE size : Falls(size)
           falls == [n \in 0..N |-> Sizes(R(IF n <= k THEN n ELSE k))]
<1>7. Falls(falls)
  <2>1. \A n \in 0..N : n # 0 => n - 1 \in 0..N
    BY <1>1
  <2> SUFFICES ASSUME NEW n \in 0..N
               PROVE  falls[n] = IF n = 0 THEN used
                                 ELSE IF 10 * falls[n - 1] <= 9 * CapBytes THEN falls[n - 1]
                                      ELSE falls[n - 1] - SizeOf[oldest[n][2]]
    OBVIOUS
  <2>2. CASE n = 0
    BY <1>4, <1>5, <2>2
  <2>3. CASE n # 0 /\ n <= k
    <3>1. n - 1 \in 0..N /\ n - 1 \in 0..(k - 1) /\ n - 1 <= k /\ n \in 1..N
      BY <1>1, <1>4, <2>3
    <3>2. falls[n - 1] = Sizes(R(n - 1)) /\ falls[n] = Sizes(R(n))
      BY <2>3, <3>1
    <3>3. ~(10 * falls[n - 1] <= 9 * CapBytes)
      BY <1>3, <3>1, <3>2 DEF Enough
    <3> QED
      BY <1>6, <2>3, <3>1, <3>2, <3>3
  <2>4. CASE n > k
    <3>1. n - 1 \in 0..N /\ k # N /\ n # 0 /\ (n - 1 <= k => n - 1 = k)
      BY <1>1, <1>4, <2>4
    <3>2. falls[n - 1] = Sizes(R(k)) /\ falls[n] = Sizes(R(k))
      BY <1>4, <2>4, <3>1
    <3>3. 10 * falls[n - 1] <= 9 * CapBytes
      BY <1>4, <3>1, <3>2 DEF Enough
    <3> QED
      BY <3>1, <3>2, <3>3
  <2> QED
    BY <1>4, <2>2, <2>3, <2>4
<1>8. Falls(it)
  BY <1>7
<1>9. PlanEviction(oldest, used) = {oldest[n] : n \in {m \in 1..N : 10 * it[m - 1] > 9 * CapBytes}}
  <2>1. PlanEviction(oldest, used)
          = IF used <= CapBytes THEN {}
            ELSE {oldest[n] : n \in {m \in 1..N : 10 * it[m - 1] > 9 * CapBytes}}
    BY DEF PlanEviction, N
  <2>2. ~(used <= CapBytes)
    BY StoredSizes
  <2> HIDE DEF it, used
  <2> QED
    BY <2>1, <2>2
<1> HIDE DEF it
<1>10. \A n \in 0..N : it[n] = falls[n]
  <2> DEFINE Differ == {n \in 0..N : it[n] # falls[n]}
  <2> SUFFICES ASSUME Differ # {} PROVE FALSE
    OBVIOUS
  <2>1. PICK n \in Differ : \A m \in Differ : n <= m
    BY <1>1, LeastOne, Differ \in SUBSET Nat
  <2>2. n \in 0..N /\ it[n] # falls[n]
    OBVIOUS
  <2>3. /\ it[n] = IF n = 0 THEN used
                   ELSE IF 10 * it[n - 1] <= 9 * CapBytes THEN it[n - 1] ELSE it[n - 1] - SizeOf[oldest[n][2]]
        /\ falls[n] = IF n = 0 THEN used
                      ELSE IF 10 * falls[n - 1] <= 9 * CapBytes THEN falls[n - 1]
                           ELSE falls[n - 1] - SizeOf[oldest[n][2]]
    <3> HIDE DEF falls
    <3> QED
      BY <1>7, <1>8, <2>2
  <2> HIDE DEF falls
  <2>4. n # 0
    BY <2>2, <2>3
  <2>5. n - 1 \in 0..N /\ ~(n <= n - 1)
    BY <1>1, <2>2, <2>4
  <2>6. it[n - 1] = falls[n - 1]
    BY <2>1, <2>5
  <2> QED
    BY <2>2, <2>3, <2>4, <2>6
<1>11. ASSUME NEW m \in 1..N PROVE (10 * it[m - 1] > 9 * CapBytes) <=> m <= k
  <2>1. m - 1 \in 0..N /\ it[m - 1] = falls[m - 1]
    BY <1>1, <1>10
  <2>2. CASE m <= k
    <3>1. m - 1 \in 0..(k - 1) /\ m - 1 <= k
      BY <1>4, <2>2
    <3>2. it[m - 1] = Sizes(R(m - 1)) /\ ~Enough(Sizes(R(m - 1)))
      BY <1>3, <2>1, <3>1
    <3>3. Sizes(R(m - 1)) \in Int
      BY <1>5, <2>1, StoredSizes
    <3> QED
      BY <2>2, <3>2, <3>3 DEF Enough
  <2>3. CASE m > k
    <3>1. k # N /\ (m - 1 <= k => m - 1 = k)
      BY <1>4, <2>3
    <3>2. it[m - 1] = Sizes(R(k)) /\ Enough(Sizes(R(k)))
      BY <1>4, <2>1, <3>1
    <3>3. Sizes(R(k)) \in Int
      BY <1>4, <1>5, StoredSizes
    <3> QED
      BY <1>4, <2>3, <3>2, <3>3 DEF Enough
  <2> QED
    BY <1>4, <2>2, <2>3
<1>12. {m \in 1..N : 10 * it[m - 1] > 9 * CapBytes} = 1..k
  BY <1>1, <1>4, <1>11
<1>13. PlanEviction(oldest, used) = {oldest[m] : m \in 1..k}
  BY <1>9, <1>12
<1> QED
  BY <1>3, <1>4, <1>13 DEF R, N

\* What the sweep needs of the state; only SweepSelect goes from "evict" to "evictObjects".
SweepTypes ==
    /\ row \in [SingleJobs -> {"active", "done", "failed", "deleted"}]
    /\ res \in [Outputs -> {"none", "live", "evicted"}]
    /\ cleaner \in Cleaners

LEMMA SweepStep ==
    ASSUME SweepTypes, [ResultsNext]_resultVars
    PROVE  /\ SweepTypes'
           /\ cleaner.at = "evict" /\ cleaner'.at = "evictObjects" => SweepSelect
<1> USE IdleCleaner DEF SweepTypes
<1>a. AfterRetention.at \in {"idle", "purge"} /\ Idle.at = "idle"
  BY DEF AfterRetention, Idle
<1>1. CASE UNCHANGED resultVars
  BY <1>1 DEF resultVars
<1>2. CASE AgeTick
  BY <1>2 DEF AgeTick
<1>3. ASSUME NEW j \in SingleJobs, HarvestPut(j) \/ HarvestCommit(j) \/ HarvestBreaks(j) \/ FailJob(j)
      PROVE  SweepTypes' /\ UNCHANGED cleaner
  BY <1>3 DEF HarvestPut, HarvestCommit, HarvestBreaks, FailJob
<1>4. CASE Reading
  <2>1. \A x : Answer(x) \/ Proceed(x) => UNCHANGED <<row, res, cleaner>>
    BY DEF Answer, Proceed
  <2>2. (\E kind \in {"download", "result"} : Request(kind)) => UNCHANGED <<row, res, cleaner>>
    BY DEF Request
  <2>3. /\ row[ReadJob] \in {"active", "done", "failed", "deleted"}
        /\ res[Watched] \in {"none", "live", "evicted"}
    BY ThePairs
  <2>4. DownloadRow => UNCHANGED <<row, res, cleaner>>
    BY <2>1, <2>3 DEF DownloadRow
  <2>5. DownloadObject \/ Presign => UNCHANGED <<row, res, cleaner>>
    BY <2>1 DEF DownloadObject, Presign
  <2>6. ReadJobRow => UNCHANGED <<row, res, cleaner>>
    BY <2>1, <2>3 DEF ReadJobRow
  <2>7. (\E refresh \in BOOLEAN : ResultRows(refresh)) => UNCHANGED <<row, res, cleaner>>
    BY <2>1 DEF ResultRows
  <2>8. UNCHANGED <<row, res, cleaner>>
    BY <1>4, <2>2, <2>4, <2>5, <2>6, <2>7 DEF Reading
  <2> QED
    BY <2>8
<1>5. CASE CleanTick
  <2>1. cleaner' = [Idle EXCEPT !.at = "jobs", !.heavy = (ticks = 0)]
    BY <1>5 DEF CleanTick
  <2>2. UNCHANGED <<row, res>>
    BY <1>5 DEF CleanTick
  <2> QED
    BY <2>1, <2>2 DEF Cleaners, CleanSteps, Idle
<1>6. CASE JobsSelect
  <2> DEFINE gone == {j \in SingleJobs : Expired(j)}
             outs == {o \in Outputs : o[1] \in gone /\ res[o] = "live"}
  <2>1. /\ cleaner' = IF gone = {} THEN [cleaner EXCEPT !.at = "evict"]
                      ELSE [cleaner EXCEPT !.at = "jobsObjects", !.jobs = gone, !.outs = outs]
        /\ cleaner.at = "jobs" /\ UNCHANGED <<row, res>>
    BY <1>6 DEF JobsSelect
  <2>2. gone \in SUBSET SingleJobs /\ outs \in SUBSET Outputs
    OBVIOUS
  <2> HIDE DEF gone, outs
  <2> QED
    BY <2>1, <2>2 DEF Cleaners, CleanSteps
<1>7. CASE JobsCommit
  BY <1>7 DEF JobsCommit, Cleaners, CleanSteps
<1>8. CASE SweepSelect
  <2>1. PICK oldest \in Oldest :
          LET over == IF CapBytes = NoCap THEN {} ELSE PlanEviction(oldest, Sizes(Live \ Aged))
          IN  cleaner' = IF Aged \cup over = {} THEN AfterRetention
                         ELSE [cleaner EXCEPT !.at = "evictObjects", !.outs = Aged \cup over]
    BY <1>8 DEF SweepSelect
  <2> DEFINE outs == Aged \cup (IF CapBytes = NoCap THEN {} ELSE PlanEviction(oldest, Sizes(Live \ Aged)))
  <2>2. outs \in SUBSET Outputs
    BY PlanFits DEF Live, Aged
  <2>3. cleaner' = IF outs = {} THEN AfterRetention ELSE [cleaner EXCEPT !.at = "evictObjects", !.outs = outs]
    BY <2>1
  <2> HIDE DEF outs
  <2>4. cleaner' \in Cleaners
    BY <2>2, <2>3 DEF Cleaners, CleanSteps
  <2>5. UNCHANGED <<row, res>>
    BY <1>8 DEF SweepSelect
  <2> QED
    BY <1>8, <2>4, <2>5
<1>9. CASE SweepCommit
  BY <1>a, <1>9 DEF SweepCommit
<1>10. CASE PurgeList
  <2> DEFINE old == {o \in Outputs : object[o] # NoObject /\ object[o] > StorageTTL}
  <2>1. /\ cleaner' = IF old = {} THEN Idle ELSE [cleaner EXCEPT !.at = "purgeObjects", !.outs = old]
        /\ cleaner.at = "purge" /\ UNCHANGED <<row, res>>
    BY <1>10 DEF PurgeList
  <2>2. old \in SUBSET Outputs
    OBVIOUS
  <2> HIDE DEF old
  <2> QED
    BY <2>1, <2>2 DEF Cleaners, CleanSteps
<1>11. ASSUME NEW failed \in SUBSET cleaner.outs, JobsObjects(failed) \/ SweepObjects(failed) \/ PurgeObjects(failed)
       PROVE  SweepTypes' /\ cleaner.at # "evict"
  BY <1>11 DEF JobsObjects, SweepObjects, PurgeObjects, Cleaners, CleanSteps
<1>12. CASE CleanFails \/ CleanDies
  <2>1. cleaner' \in {Idle, AfterRetention} /\ UNCHANGED <<row, res>>
    BY <1>12 DEF CleanFails, CleanDies
  <2> QED
    BY <1>a, <2>1
<1> QED
  BY <1>1, <1>2, <1>3, <1>4, <1>5, <1>6, <1>7, <1>8, <1>9, <1>10, <1>11, <1>12 DEF ResultsNext, Reading

\* The sweep's select takes what the cap makes it take.
LEMMA SweepTakesOldest ==
    ASSUME cleaner \in Cleaners, SweepSelect, cleaner'.at = "evictObjects",
           NEW over, over = cleaner'.outs \ Aged, NEW stays, stays = Live \ cleaner'.outs
    PROVE  /\ \A o \in over, p \in stays : age[o[1]] >= age[p[1]]
           /\ CapBytes # NoCap =>
                 /\ Sizes(stays) <= CapBytes
                 /\ over # {} => /\ Sizes(stays \cup over) > CapBytes
                                 /\ stays = {} \/ 10 * Sizes(stays) <= 9 * CapBytes
                                 /\ \E o \in over : 10 * Sizes(stays \cup {o}) > 9 * CapBytes
<1>1. PICK oldest \in Oldest :
        LET taken == IF CapBytes = NoCap THEN {} ELSE PlanEviction(oldest, Sizes(Live \ Aged))
        IN  cleaner' = IF Aged \cup taken = {} THEN AfterRetention
                       ELSE [cleaner EXCEPT !.at = "evictObjects", !.outs = Aged \cup taken]
  BY DEF SweepSelect
<1> DEFINE taken == IF CapBytes = NoCap THEN {} ELSE PlanEviction(oldest, Sizes(Live \ Aged))
           N == Len(oldest)
<1>2. AfterRetention.at # "evictObjects"
  BY DEF AfterRetention, Idle
<1>3. cleaner'.outs = Aged \cup taken
  <2> HIDE DEF taken
  <2>1. cleaner' = [cleaner EXCEPT !.at = "evictObjects", !.outs = Aged \cup taken]
    BY <1>1, <1>2 DEF taken
  <2> QED
    BY <2>1 DEF Cleaners
<1>4. taken \subseteq Stored
  BY PlanFits DEF Stored
<1>5. Aged \subseteq Live
  BY DEF Aged
<1>6. over = taken /\ stays = Stored \ taken
  <2> HIDE DEF taken
  <2> QED
    BY <1>3, <1>4, <1>5 DEF Stored
<1>7. /\ N \in Nat /\ oldest \in [1..N -> Stored]
      /\ \A m, n \in 1..N : m # n => oldest[m] # oldest[n]
      /\ \A o \in Stored : \E n \in 1..N : oldest[n] = o
      /\ \A m, n \in 1..N : m < n => age[oldest[m][1]] >= age[oldest[n][1]]
  BY OldestFirst
<1> HIDE DEF N
<1>8. CASE taken = {}
  <2>1. over = {} /\ stays = Stored
    BY <1>6, <1>8
  <2>2. ASSUME CapBytes # NoCap PROVE Sizes(Stored) <= CapBytes
    <3>1. CapBytes \in Nat /\ Sizes(Stored) \in Int
      BY <2>2, ResultsAssumption, StoredSizes
    <3> SUFFICES ASSUME Sizes(Stored) > CapBytes PROVE FALSE
      BY <3>1
    <3>2. PICK k \in 0..N : /\ PlanEviction(oldest, Sizes(Stored)) = {oldest[m] : m \in 1..k}
                            /\ k = N \/ Enough(Sizes(Rest(oldest, k)))
      BY <3>1, PlanTakesPrefix DEF N
    <3>3. {oldest[m] : m \in 1..k} = {}
      BY <1>8, <2>2, <3>2 DEF Stored
    <3>4. k = 0
      <4>1. 1..k = {}
        BY <3>3
      <4>2. k \in Nat
        BY <1>7
      <4> QED
        BY <4>1, <4>2
    <3>5. Rest(oldest, 0) = Stored
      BY DEF Rest
    <3>6. N # 0
      <4> SUFFICES ASSUME N = 0 PROVE FALSE
        OBVIOUS
      <4>1. Stored = {}
        BY <1>7
      <4> QED
        BY <3>1, <4>1, StoredSizes
    <3> QED
      BY <3>1, <3>2, <3>4, <3>5, <3>6 DEF Enough
  <2> QED
    BY <2>1, <2>2
<1>9. CASE taken # {}
  <2>1. CapBytes # NoCap /\ CapBytes \in Nat /\ taken = PlanEviction(oldest, Sizes(Stored))
    BY <1>9, ResultsAssumption DEF Stored
  <2>2. Sizes(Stored) \in Int /\ Sizes(Stored) > CapBytes
    <3>1. Sizes(Stored) \in Int
      BY StoredSizes
    <3>2. Sizes(Stored) <= CapBytes => PlanEviction(oldest, Sizes(Stored)) = {}
      BY DEF PlanEviction
    <3> HIDE DEF taken
    <3> QED
      BY <1>9, <2>1, <3>1, <3>2
  <2>3. PICK k \in 0..N : /\ PlanEviction(oldest, Sizes(Stored)) = {oldest[m] : m \in 1..k}
                          /\ k = N \/ Enough(Sizes(Rest(oldest, k)))
                          /\ \A m \in 0..(k - 1) : ~Enough(Sizes(Rest(oldest, m)))
    BY <2>1, <2>2, PlanTakesPrefix DEF N
  <2> HIDE DEF taken
  <2>4. over = {oldest[m] : m \in 1..k} /\ stays = Rest(oldest, k) /\ k # 0 /\ over # {}
    BY <1>6, <1>9, <2>1, <2>3 DEF Rest
  <2>5. \A o \in over, p \in stays : age[o[1]] >= age[p[1]]
    <3> TAKE o \in over, p \in stays
    <3>1. PICK m \in 1..k : o = oldest[m]
      BY <2>4
    <3>2. PICK n \in 1..N : p = oldest[n]
      BY <1>7, <2>4 DEF Rest
    <3>3. n \notin 1..k
      BY <2>4, <3>2 DEF Rest
    <3> QED
      BY <1>7, <3>1, <3>2, <3>3
  <2>6. stays = {} \/ Enough(Sizes(stays))
    <3>1. k = N => Stored \subseteq {oldest[m] : m \in 1..k}
      BY <1>7
    <3>2. k = N => stays = {}
      BY <2>4, <3>1 DEF Rest
    <3> QED
      BY <2>3, <2>4, <3>2
  <2>7. Sizes(stays) \in Int /\ Sizes({}) = 0
    <3>1. stays \in SUBSET Outputs
      BY <1>6, StoredSizes
    <3> QED
      BY <3>1, StoredSizes
  <2>8. Sizes(stays) <= CapBytes
    <3>1. \A s \in Int, c \in Nat : 10 * s <= 9 * c => s <= c
      OBVIOUS
    <3> QED
      BY <2>1, <2>6, <2>7, <3>1 DEF Enough
  <2>9. stays \cup over = Stored
    BY <1>4, <1>6
  <2>10. \E o \in over : 10 * Sizes(stays \cup {o}) > 9 * CapBytes
    <3>1. k \in 1..N /\ k - 1 \in 0..(k - 1) /\ 1..k = (1..(k - 1)) \cup {k} /\ k \notin 1..(k - 1)
          /\ 1..k \subseteq 1..N
      BY <1>7, <2>3, <2>4
    <3>2. oldest[k] \in over /\ oldest[k] \in Stored
      BY <1>7, <2>4, <3>1
    <3>3. oldest[k] \notin {oldest[m] : m \in 1..(k - 1)}
      BY <1>7, <3>1
    <3>4. {oldest[m] : m \in 1..k} = {oldest[m] : m \in 1..(k - 1)} \cup {oldest[k]}
      BY <3>1
    <3>5. stays \cup {oldest[k]} = Rest(oldest, k - 1)
      BY <2>4, <3>2, <3>3, <3>4 DEF Rest
    <3>6. ~Enough(Sizes(Rest(oldest, k - 1)))
      BY <2>3, <3>1
    <3>7. Sizes(Rest(oldest, k - 1)) \in Int
      <4>1. Rest(oldest, k - 1) \in SUBSET Outputs
        BY StoredSizes DEF Rest
      <4> QED
        BY <4>1, StoredSizes
    <3>8. 10 * Sizes(stays \cup {oldest[k]}) > 9 * CapBytes
      BY <2>1, <3>5, <3>6, <3>7 DEF Enough
    <3> QED
      BY <3>2, <3>8
  <2> QED
    BY <2>2, <2>5, <2>6, <2>8, <2>9, <2>10 DEF Enough
<1> QED
  BY <1>8, <1>9

\* The storage cap takes the oldest results, as many as bring what is left under 90 % of the
\* cap and not one more, and only when there is more than the cap: for any results, sizes and
\* ages, and whichever order the database gives to those of the same age.
THEOREM CapIsFair == ResultsSpec => CapTakesOldest
<1>1. ResultsInit => SweepTypes
  BY IdleCleaner, ThePairs DEF ResultsInit, SweepTypes
<1>2. SweepTypes /\ [ResultsNext]_resultVars => SweepTypes'
  BY SweepStep
<1>3. SweepTypes /\ [ResultsNext]_resultVars =>
        [cleaner.at = "evict" /\ cleaner'.at = "evictObjects" => TakesOldest]_resultVars
  BY SweepStep, SweepTakesOldest DEF TakesOldest, SweepTypes
<1> QED
  BY <1>1, <1>2, <1>3, PTL DEF ResultsSpec, CapTakesOldest

-----------------------------------------------------------------------------
\* What GET /load adds up.

LEMMA SumAgrees ==
    ASSUME NEW T, IsFiniteSet(T), NEW v, NEW w, \A x \in T : v[x] = w[x]
    PROVE  SumFunctionOnSet(v, T) = SumFunctionOnSet(w, T)
<1>1. PICK g : IsTally(g, v, T) /\ SumFunctionOnSet(v, T) = g[T]
  BY SumIsTally
<1>2. PICK h : IsTally(h, w, T) /\ SumFunctionOnSet(w, T) = h[T]
  BY SumIsTally
<1>3. \A s \in SUBSET T : g[s] = h[s]
  BY <1>1, <1>2, TallyAgrees
<1> QED
  BY <1>1, <1>2, <1>3

\* Natural numbers: none is more than the sum.
LEMMA SumAtLeast ==
    ASSUME NEW S, IsFiniteSet(S), NEW w, \A x \in S : w[x] \in Nat, NEW u \in SUBSET S, NEW e \in u
    PROVE  SumFunctionOnSet(w, u) >= w[e]
<1> DEFINE Sum(T) == SumFunctionOnSet(w, T)
           Bad == {n \in Nat : \E T \in SUBSET S : Cardinality(T) = n /\ Sum(T) \notin Nat}
<1>0. /\ Sum({}) = 0 /\ \A T \in SUBSET S : Sum(T) \in Int
      /\ \A T \in SUBSET S : \A x \in T : Sum(T) = w[x] + Sum(T \ {x})
  <2>1. \A x \in S : w[x] \in Int
    OBVIOUS
  <2> QED
    BY <2>1, SumsOf
<1> HIDE DEF Sum
<1>1. Bad = {}
  <2> SUFFICES ASSUME Bad # {} PROVE FALSE
    OBVIOUS
  <2>1. PICK n \in Bad : \A m \in Bad : n <= m
    BY LeastOne, Bad \in SUBSET Nat
  <2>2. PICK T \in SUBSET S : Cardinality(T) = n /\ Sum(T) \notin Nat
    OBVIOUS
  <2>3. PICK x \in T : TRUE
    <3>1. T = {} => Sum(T) \in Nat
      BY <1>0
    <3> QED
      BY <2>2, <3>1
  <2>4. Cardinality(T \ {x}) = n - 1 /\ n - 1 \in Nat /\ T \ {x} \in SUBSET S
    BY <2>2, OneLess
  <2>5. Sum(T \ {x}) \in Nat
    BY <2>1, <2>4
  <2>6. Sum(T) = w[x] + Sum(T \ {x}) /\ w[x] \in Nat
    BY <1>0
  <2> QED
    BY <2>2, <2>5, <2>6
<1>2. Sum(u \ {e}) \in Nat
  BY <1>1, FS_Subset, FS_CardinalityType
<1> QED
  BY <1>0, <1>2 DEF Sum

LEMMA SumOfTwo ==
    ASSUME NEW S, IsFiniteSet(S), NEW w, \A x \in S : w[x] \in Int,
           NEW U \in SUBSET S, NEW V \in SUBSET S, U \cap V = {}
    PROVE  SumFunctionOnSet(w, U \cup V) = SumFunctionOnSet(w, U) + SumFunctionOnSet(w, V)
<1> DEFINE Sum(T) == SumFunctionOnSet(w, T)
           Bad == {n \in Nat : \E T \in SUBSET U : Cardinality(T) = n /\ Sum(T \cup V) # Sum(T) + Sum(V)}
<1>0. /\ Sum({}) = 0 /\ \A T \in SUBSET S : Sum(T) \in Int
      /\ \A T \in SUBSET S : \A x \in T : Sum(T) = w[x] + Sum(T \ {x})
  BY SumsOf
<1> HIDE DEF Sum
<1>1. Bad = {}
  <2> SUFFICES ASSUME Bad # {} PROVE FALSE
    OBVIOUS
  <2>1. PICK n \in Bad : \A m \in Bad : n <= m
    BY LeastOne, Bad \in SUBSET Nat
  <2>2. PICK T \in SUBSET U : Cardinality(T) = n /\ Sum(T \cup V) # Sum(T) + Sum(V)
    OBVIOUS
  <2>3. PICK x \in T : TRUE
    <3>1. T = {} => T \cup V = V /\ Sum(T) = 0
      BY <1>0
    <3>2. Sum(V) \in Int
      BY <1>0
    <3>3. T = {} => Sum(T \cup V) = Sum(T) + Sum(V)
      BY <3>1, <3>2
    <3> QED
      BY <2>2, <3>3
  <2>4. IsFiniteSet(U)
    BY FS_Subset
  <2>5. Cardinality(T \ {x}) = n - 1 /\ n - 1 \in Nat /\ T \ {x} \in SUBSET U
    BY <2>2, <2>4, OneLess
  <2>6. Sum((T \ {x}) \cup V) = Sum(T \ {x}) + Sum(V)
    BY <2>1, <2>5
  <2>7. (T \cup V) \ {x} = (T \ {x}) \cup V /\ T \cup V \in SUBSET S /\ x \in T \cup V
    OBVIOUS
  <2>8. Sum(T \cup V) = w[x] + Sum((T \ {x}) \cup V)
    BY <1>0, <2>7
  <2>9. Sum(T) = w[x] + Sum(T \ {x}) /\ Sum(T \ {x}) \in Int /\ Sum(V) \in Int /\ w[x] \in Int
    <3>1. T \in SUBSET S /\ T \ {x} \in SUBSET S /\ x \in S
      OBVIOUS
    <3> QED
      BY <1>0, <3>1
  <2> QED
    BY <2>2, <2>6, <2>8, <2>9
<1>2. IsFiniteSet(U) /\ Cardinality(U) \in Nat
  BY FS_Subset, FS_CardinalityType
<1> QED
  BY <1>1, <1>2 DEF Sum

\* The sums of the groups of fields with the same domain are the sum of all.
LEMMA SumOfGroups ==
    ASSUME NEW S, IsFiniteSet(S), NEW w, \A x \in S : w[x] \in Int,
           NEW g, \A d \in {f[1] : f \in S} : g[d] = SumFunctionOnSet(w, {f \in S : f[1] = d})
    PROVE  SumFunctionOnSet(g, {f[1] : f \in S}) = SumFunctionOnSet(w, S)
<1> DEFINE Sum(T) == SumFunctionOnSet(w, T)
           D == {f[1] : f \in S}
           Of(E) == {f \in S : f[1] \in E}
           Groups(E) == SumFunctionOnSet(g, E)
           Bad == {n \in Nat : \E E \in SUBSET D : Cardinality(E) = n /\ Groups(E) # Sum(Of(E))}
<1>0. Sum({}) = 0 /\ \A T \in SUBSET S : Sum(T) \in Int
  BY SumsOf
<1>1. IsFiniteSet(D)
  <2> DEFINE first == [f \in S |-> f[1]]
  <2>1. first \in Surjection(S, D)
    BY DEF Surjection
  <2> QED
    BY <2>1, FS_Surjection
<1>2. \A d \in D : g[d] = Sum({f \in S : f[1] = d}) /\ g[d] \in Int
  <2>1. \A d \in D : {f \in S : f[1] = d} \in SUBSET S
    OBVIOUS
  <2> QED
    BY <1>0, <2>1
<1>3. Groups({}) = 0 /\ \A E \in SUBSET D : \A d \in E : Groups(E) = g[d] + Groups(E \ {d})
  <2>1. \A d \in D : g[d] \in Int
    BY <1>2
  <2> HIDE DEF D
  <2> QED
    BY <1>1, <2>1, SumsOf
<1>4. ASSUME NEW E \in SUBSET D, NEW d \in E PROVE Sum(Of(E)) = Sum({f \in S : f[1] = d}) + Sum(Of(E \ {d}))
  <2> DEFINE U == {f \in S : f[1] = d}
             V == Of(E \ {d})
  <2>1. U \in SUBSET S /\ V \in SUBSET S /\ U \cap V = {} /\ Of(E) = U \cup V
    OBVIOUS
  <2> HIDE DEF U, V
  <2>2. Sum(U \cup V) = Sum(U) + Sum(V)
    BY <2>1, SumOfTwo
  <2> QED
    BY <2>1, <2>2 DEF U, V
<1>5. Of(D) = S /\ Of({}) = {}
  OBVIOUS
<1> HIDE DEF Sum, Of, Groups, D
<1>6. Bad = {}
  <2> SUFFICES ASSUME Bad # {} PROVE FALSE
    OBVIOUS
  <2>1. PICK n \in Bad : \A m \in Bad : n <= m
    BY LeastOne, Bad \in SUBSET Nat
  <2>2. PICK E \in SUBSET D : Cardinality(E) = n /\ Groups(E) # Sum(Of(E))
    OBVIOUS
  <2>3. PICK d \in E : TRUE
    BY <1>0, <1>3, <1>5, <2>2
  <2>4. Cardinality(E \ {d}) = n - 1 /\ n - 1 \in Nat /\ E \ {d} \in SUBSET D
    BY <1>1, <2>2, OneLess
  <2>5. Groups(E \ {d}) = Sum(Of(E \ {d}))
    BY <2>1, <2>4
  <2>6. Groups(E) = g[d] + Groups(E \ {d}) /\ g[d] = Sum({f \in S : f[1] = d})
    BY <1>2, <1>3
  <2> QED
    BY <1>4, <2>2, <2>5, <2>6
<1>7. Groups(D) = Sum(Of(D))
  BY <1>1, <1>6, FS_CardinalityType
<1> QED
  BY <1>5, <1>7 DEF Groups, Sum, D

Parts == {"queued", "inflight", "backlog"}
Weight(part, f) ==
    IF part = "queued" THEN Clamp(Value(queued, f))
    ELSE IF part = "inflight" THEN Clamp(Value(inflight, f))
    ELSE (Clamp(Value(queued, f)) + Clamp(Value(inflight, f))) * Spp(f[1])
Weights(part) == [f \in Counts |-> Weight(part, f)]
Fields(domains, caps) == {f \in Counts : Matches(f, domains, caps)}

LEMMA LoadTypes ==
    ASSUME LoadInit
    PROVE  /\ IsFiniteSet(Counts) /\ Counts \in SUBSET LoadFields
           /\ \A f \in Counts : f[1] # "any"
           /\ \A part \in Parts : \A f \in Counts : Weights(part)[f] = Weight(part, f) /\ Weight(part, f) \in Nat
<1>1. DOMAIN queued \subseteq LoadFields /\ DOMAIN inflight \subseteq LoadFields
      /\ (\A f \in DOMAIN queued : queued[f] \in Int) /\ (\A f \in DOMAIN inflight : inflight[f] \in Int)
  <2>1. ASSUME NEW hash \in Hashes
        PROVE  DOMAIN hash \subseteq LoadFields /\ \A f \in DOMAIN hash : hash[f] \in Int
    <3>1. PICK S \in SUBSET LoadFields : hash \in [S -> CounterValues]
      BY DEF Hashes
    <3> QED
      BY <3>1, LoadAssumption
  <2>2. queued \in Hashes /\ inflight \in Hashes
    BY DEF LoadInit
  <2> QED
    BY <2>1, <2>2
<1>2. \A f : Clamp(Value(queued, f)) \in Nat /\ Clamp(Value(inflight, f)) \in Nat
  BY <1>1 DEF Clamp, Value
<1>3. \A d : Spp(d) \in Nat
  BY LoadAssumption DEF Spp
<1>4. \A a, b \in Nat : a * b \in Nat /\ a + b \in Nat
  OBVIOUS
<1>5. \A part, f : Weight(part, f) \in Nat
  BY <1>2, <1>3, <1>4 DEF Weight
<1>6. Counts \in SUBSET LoadFields
  BY <1>1 DEF Counts
<1>7. IsFiniteSet(Counts) /\ \A f \in Counts : f[1] # "any"
  BY <1>6, FS_Subset, LoadAssumption
<1> QED
  BY <1>5, <1>6, <1>7 DEF Weights

\* compute_load sums the weights of the fields that match.
LEMMA LoadIsSum ==
    ASSUME LoadInit, NEW domains, NEW caps, NEW part \in Parts
    PROVE  /\ ComputeLoad(domains, caps)[part] = SumFunctionOnSet(Weights(part), Fields(domains, caps))
           /\ IsFiniteSet(Fields(domains, caps)) /\ Fields(domains, caps) \in SUBSET Counts
<1> DEFINE S == Fields(domains, caps)
           q == [f \in S |-> Clamp(Value(queued, f))]
           i == [f \in S |-> Clamp(Value(inflight, f))]
           b == [f \in S |-> (q[f] + i[f]) * Spp(f[1])]
<1>1. S \in SUBSET Counts /\ IsFiniteSet(S)
  BY LoadTypes, FS_Subset DEF Fields
<1>2. ComputeLoad(domains, caps)
        = [queued |-> SumFunctionOnSet(q, S), inflight |-> SumFunctionOnSet(i, S), backlog |-> SumFunctionOnSet(b, S)]
  BY DEF ComputeLoad, SumFunction, Fields
<1> HIDE DEF S
<1>3. \A f \in S : q[f] = Weights("queued")[f] /\ i[f] = Weights("inflight")[f] /\ b[f] = Weights("backlog")[f]
  BY <1>1, LoadTypes DEF Weights, Weight
<1> HIDE DEF q, i, b
<1>4. SumFunctionOnSet(q, S) = SumFunctionOnSet(Weights("queued"), S)
  BY <1>1, <1>3, SumAgrees
<1>5. SumFunctionOnSet(i, S) = SumFunctionOnSet(Weights("inflight"), S)
  BY <1>1, <1>3, SumAgrees
<1>6. SumFunctionOnSet(b, S) = SumFunctionOnSet(Weights("backlog"), S)
  BY <1>1, <1>3, SumAgrees
<1> QED
  BY <1>1, <1>2, <1>4, <1>5, <1>6 DEF Parts, S

LEMMA GroupedAddsUp == LoadInit => GroupsAddUp
<1> SUFFICES ASSUME LoadInit, NEW domains \in Filters, NEW part \in Parts
             PROVE  LET groups == LoadByDomain(domains)
                    IN  SumFunction([d \in DOMAIN groups |-> groups[d][part]]) = GetLoad(domains, "any")[part]
  BY DEF GroupsAddUp, Parts
<1> DEFINE S == {f \in Counts : domains = {"any"} \/ f[1] \in domains}
           D == {f[1] : f \in S}
           w == Weights(part)
           g == [d \in D |-> LoadByDomain(domains)[d][part]]
<1>1. S \in SUBSET Counts /\ IsFiniteSet(S) /\ \A f \in S : w[f] \in Int
  BY LoadTypes, FS_Subset
<1>2. GetLoad(domains, "any")[part] = SumFunctionOnSet(w, S)
  <2>1. Fields(domains, <<>>) = S
    BY DEF Fields, Matches
  <2> QED
    BY <2>1, LoadIsSum DEF GetLoad
<1>3. DOMAIN LoadByDomain(domains) = D /\ \A d \in D : LoadByDomain(domains)[d] = ComputeLoad({d}, <<>>)
  BY DEF LoadByDomain
<1>4. ASSUME NEW d \in D PROVE g[d] = SumFunctionOnSet(w, {f \in S : f[1] = d})
  <2>1. d # "any"
    BY LoadTypes
  <2>2. PICK e \in S : e[1] = d
    OBVIOUS
  <2>3. Fields({d}, <<>>) = {f \in S : f[1] = d}
    BY <2>1, <2>2 DEF Fields, Matches
  <2>4. ComputeLoad({d}, <<>>)[part] = SumFunctionOnSet(w, Fields({d}, <<>>))
    BY LoadIsSum
  <2> QED
    BY <1>3, <2>3, <2>4
<1>5. SumFunction([d \in DOMAIN LoadByDomain(domains) |-> LoadByDomain(domains)[d][part]]) = SumFunctionOnSet(g, D)
  BY <1>3 DEF SumFunction
<1> HIDE DEF S, w, g
<1>6. SumFunctionOnSet(g, D) = SumFunctionOnSet(w, S)
  BY <1>1, <1>4, SumOfGroups
<1> QED
  BY <1>2, <1>5, <1>6

LEMMA DemandIsSeen == LoadInit => DemandSeen
<1> SUFFICES ASSUME LoadInit, NEW l \in links, NEW f \in Counts, l[2] = f[1], f[2] \subseteq l[3],
                    NEW seen \in {GetLoad({"any"}, AdapterOf[l[1]]), LoadByAdapter({"any"})[AdapterOf[l[1]]]}
             PROVE  seen.backlog >= Weight("backlog", f)
  BY DEF DemandSeen, Weight
<1> DEFINE a == AdapterOf[l[1]]
           could == AdapterCapabilities(a)
<1>1. \E c \in could : c[1] = f[1] /\ f[2] \subseteq c[2]
  <2> DEFINE mine == {m \in links : AdapterOf[m[1]] = a}
             c == <<f[1], UNION {m[3] : m \in {n \in mine : n[2] = f[1]}}>>
  <2>1. l \in mine /\ f[1] \in {m[2] : m \in mine}
    OBVIOUS
  <2>2. c \in could
    BY <2>1 DEF AdapterCapabilities
  <2>3. f[2] \subseteq c[2]
    BY <2>1
  <2> QED
    BY <2>2, <2>3
<1> HIDE DEF could
<1>2. PICK caps : caps \in {<<>>, <<could>>} /\ seen = ComputeLoad({"any"}, caps)
  <2>1. LoadByAdapter({"any"})[a] = ComputeLoad({"any"}, <<could>>)
    BY DEF LoadByAdapter, could
  <2> QED
    BY <2>1 DEF GetLoad, could
<1>3. f \in Fields({"any"}, caps)
  BY <1>1, <1>2 DEF Fields, Matches
<1>4. /\ seen["backlog"] = SumFunctionOnSet(Weights("backlog"), Fields({"any"}, caps))
      /\ Fields({"any"}, caps) \in SUBSET Counts
  BY <1>2, LoadIsSum DEF Parts
<1>5. /\ IsFiniteSet(Counts) /\ \A e \in Counts : Weights("backlog")[e] \in Nat
      /\ Weights("backlog")[f] = Weight("backlog", f)
  BY LoadTypes DEF Parts
<1>6. SumFunctionOnSet(Weights("backlog"), Fields({"any"}, caps)) >= Weights("backlog")[f]
  BY <1>3, <1>4, <1>5, SumAtLeast
<1> QED
  BY <1>4, <1>5, <1>6

\* GET /load shows all of the load, whichever way it is grouped: the domains add up to the
\* total, and an adapter sees every page that one of its backends could serve alone; for any
\* counters, negative ones included, any registered backends and any measurements.
THEOREM LoadIsFaithful == LoadInit => LoadFaithful
BY GroupedAddsUp, DemandIsSeen DEF LoadFaithful
=============================================================================
