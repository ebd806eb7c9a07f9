--------------------------- MODULE BreakersProofs ---------------------------
(***************************************************************************)
(* What holds of Breakers for every limit, every number of orders, errors  *)
(* and days, and every result.                                             *)
(***************************************************************************)
EXTENDS Breakers, FiniteSetTheorems, TLAPS

\* A snapshot belongs to a day that has begun.
SnapsType == day \in Nat /\ DOMAIN snaps \subseteq 1 .. day

\* On a day that went well so far the result is still the opening one while the
\* job is due, and the job has left it behind in the day's row afterwards.  The
\* first day has no opening to lose.
DayInv ==
    /\ SnapsType /\ pnl \in Int /\ opening \in Int
    /\ due => day > 0
    /\ slips = {} /\ due => pnl = opening
    /\ slips = {} /\ ~due => IF day = 0 THEN opening = 0
                             ELSE day \in DOMAIN snaps /\ snaps[day] = opening

\* The day's own row is the latest one.
LEMMA BaselineOfToday == SnapsType /\ day \in DOMAIN snaps => Baseline(day) = snaps[day]
<1> SUFFICES ASSUME SnapsType, day \in DOMAIN snaps PROVE Baseline(day) = snaps[day]
  OBVIOUS
<1> DEFINE S == {e \in DOMAIN snaps : e <= day}
<1>1. day \in S /\ \A f \in S : f <= day
  BY DEF SnapsType
<1>2. \A e \in S : (\A f \in S : f <= e) => e = day
  BY <1>1 DEF SnapsType
<1>3. (CHOOSE e \in S : \A f \in S : f <= e) = day
  BY <1>1, <1>2
<1> QED
  BY <1>1, <1>3 DEF Baseline

\* The anchor of the day survives every step.
LEMMA DayStep == DayInv /\ [Next]_vars => DayInv'
<1> SUFFICES ASSUME DayInv, [Next]_vars PROVE DayInv'
  OBVIOUS
<1> USE DEF DayInv, SnapsType, vars, windows, money, dates, counts
<1>1. CASE RateTrips \/ LossTrips \/ OrderGoes \/ RecordError \/ Background
  BY <1>1 DEF RateTrips, LossTrips, OrderGoes, RecordError, Background
<1>2. CASE Realize
  BY <1>2, BreakerBounds DEF Realize
<1>3. CASE Tick
  BY <1>3 DEF Tick
<1>4. CASE Midnight
  <2>1. slips' = {} => due'
    BY <1>4, Zenon DEF Midnight
  <2>2. pnl' = opening' /\ day' > 0 /\ opening' \in Int /\ SnapsType'
    BY <1>4 DEF Midnight
  <2> QED
    BY <1>4, <2>1, <2>2 DEF Midnight
<1>5. CASE Snapshot
  <2>1. DOMAIN snaps' = DOMAIN snaps \cup {day} /\ snaps'[day] = pnl
    BY <1>5 DEF Snapshot
  <2>2. day > 0 /\ (slips = {} => pnl = opening)
    BY <1>5 DEF Snapshot
  <2> QED
    BY <1>5, <2>1, <2>2 DEF Snapshot
<1>6. CASE Misfire
  BY <1>6 DEF Misfire
<1>7. CASE EngageHalt \/ ResumeHalt \/ Start
  BY <1>7 DEF EngageHalt, ResumeHalt, Start
<1>8. CASE Crash
  BY <1>8 DEF Crash
<1>9. CASE UNCHANGED vars
  BY <1>9
<1> QED
  BY <1>1, <1>2, <1>3, <1>4, <1>5, <1>6, <1>7, <1>8, <1>9 DEF Next

\* The invariant holds in every reachable state.
LEMMA DayInvHolds == Spec => []DayInv
<1>1. Init => DayInv
  BY DEF Init, DayInv, SnapsType
<1> QED
  BY <1>1, DayStep, PTL DEF Spec

\* When the job of the last midnight ran in time, check_trade compares the limit
\* with what was realized since then (daily_realized_pnl_dollars), whatever
\* snapshots earlier days are missing and however often the process restarted.
THEOREM DailyFromMidnight == Spec => []DailyIsToday
<1>1. DayInv => DailyIsToday
  <2> SUFFICES ASSUME DayInv, slips = {}, ~due PROVE Daily = pnl - opening
    BY DEF DailyIsToday
  <2>1. CASE day = 0
    <3>1. Baseline(day) = 0
      BY <2>1 DEF DayInv, SnapsType, Baseline
    <3> QED
      BY <2>1, <3>1 DEF DayInv, Daily
  <2>2. CASE day # 0
    BY <2>2, BaselineOfToday DEF DayInv, Daily
  <2> QED
    BY <2>1, <2>2
<1> QED
  BY <1>1, DayInvHolds, PTL

\* And then a day's loss at its limit stops the orders, for every limit (check_trade).
THEOREM LossStopsTheDay == Spec => DayLossStopsOrders
<1>1. ASSUME DayInv, DailyIsToday, [Next]_vars, slips = {}, ~due, pnl - opening <= -LossLimit
      PROVE  orders' = orders
  <2>1. LossFull
    BY <1>1 DEF DailyIsToday, LossFull
  <2> QED
    BY <1>1, <2>1
       DEF Next, vars, counts, RateTrips, LossTrips, OrderGoes, RecordError, Background, Realize,
           Tick, Midnight, Snapshot, Misfire, EngageHalt, ResumeHalt, Crash, Start
<1>2. DayInv /\ DailyIsToday /\ [Next]_vars
        => [slips = {} /\ ~due /\ pnl - opening <= -LossLimit => orders' = orders]_vars
  BY <1>1
<1> QED
  BY <1>2, DayInvHolds, DailyFromMidnight, PTL DEF Spec, DayLossStopsOrders

-----------------------------------------------------------------------------
(* The windows. *)

Ages == 0 .. Window + 1

\* A sequence of ages as it grows: the oldest entry first.
Aging(q) == /\ q \in Seq(Ages)
            /\ \A i, j \in 1 .. Len(q) : i <= j => q[j] <= q[i]

\* d holds the latest entries of q, as many as fit.
Latest(d, q) == /\ d \in Seq(Ages)
                /\ Len(d) = IF Len(q) < DequeLen THEN Len(q) ELSE DequeLen
                /\ \A i \in 1 .. Len(d) : d[i] = q[Len(q) - Len(d) + i]

\* The deques hold what was sent, and what failed, of late.
WindowInv == /\ Aging(sent) /\ Latest(orderAges, sent)
             /\ Aging(failed) /\ Latest(errorAges, failed)

\* n entries of q are within the window, the last ones.
Young(q, n) == /\ n \in 0 .. Len(q)
               /\ \A i \in 1 .. Len(q) : q[i] <= Window <=> i > Len(q) - n

\* A set of natural numbers has a least element.
LEMMA LeastNat ==
    ASSUME NEW T, T \subseteq Nat, T # {}
    PROVE  \E m \in T : \A k \in T : m <= k
<1> DEFINE R == {ss \in Nat \X Nat : ss[1] < ss[2]}
<1>1. R = OpToRel(<, Nat)
  BY DEF OpToRel
<1>2. \A k \in Nat, l \in Nat : k < l => <<k, l>> \in R
  OBVIOUS
<1> HIDE DEF R
<1>3. IsWellFoundedOn(R, Nat)
  BY <1>1, NatLessThanWellFounded
<1>4. PICK m \in T : \A k \in T : ~ (<<k, m>> \in R)
  BY <1>3, WFMin, Zenon
<1>5. ASSUME NEW k \in T PROVE m <= k
  <2>1. k \in Nat /\ m \in Nat /\ ~ (<<k, m>> \in R)
    BY <1>4
  <2>2. ~ (k < m)
    BY <1>2, <2>1
  <2> QED
    BY <2>1, <2>2
<1> QED
  BY <1>5

\* What Append and Tail do to places.
LEMMA AppendIs ==
    ASSUME NEW E, NEW q \in Seq(E), NEW e \in E
    PROVE  /\ Append(q, e) \in Seq(E) /\ Len(q) \in Nat /\ Len(Append(q, e)) = Len(q) + 1
           /\ \A i \in 1 .. Len(q) + 1 : Append(q, e)[i] = IF i <= Len(q) THEN q[i] ELSE e
OBVIOUS

\* What popleft leaves: the same entries, one place earlier.
LEMMA TailIs ==
    ASSUME NEW E, NEW q \in Seq(E), q # <<>>
    PROVE  /\ Tail(q) \in Seq(E) /\ Len(Tail(q)) = Len(q) - 1 /\ Len(q) \in Nat
           /\ \A i \in 1 .. Len(q) - 1 : Tail(q)[i] = q[i + 1]
OBVIOUS

\* An empty deque is in order.
LEMMA NothingYet == Aging(<<>>) /\ Latest(<<>>, <<>>)
  BY LimitsAssumption DEF Aging, Latest

\* A new entry is the youngest, and ageing keeps the order.
LEMMA AgingAppends == ASSUME NEW q, Aging(q) PROVE Aging(Append(q, 0))
<1>1. 0 \in Ages /\ q \in Seq(Ages) /\ \A i \in 1 .. Len(q) : q[i] \in Ages
  BY LimitsAssumption DEF Aging, Ages
<1>2. Append(q, 0) \in Seq(Ages) /\ Len(Append(q, 0)) = Len(q) + 1 /\ Len(q) \in Nat
      /\ \A i \in 1 .. Len(q) + 1 : Append(q, 0)[i] = IF i <= Len(q) THEN q[i] ELSE 0
  BY <1>1, AppendIs
<1>3. \A i \in 1 .. Len(q) : 0 <= q[i]
  BY <1>1, LimitsAssumption DEF Ages
<1> QED
  BY <1>2, <1>3 DEF Aging

\* A second later every entry is a second older, up to past the window.
LEMMA AgedIs ==
    ASSUME NEW q \in Seq(Ages)
    PROVE  /\ Aged(q) \in Seq(Ages) /\ Len(Aged(q)) = Len(q)
           /\ \A i \in 1 .. Len(q) :
                 Aged(q)[i] = IF q[i] > Window THEN q[i] ELSE q[i] + 1
<1>1. DOMAIN q = 1 .. Len(q) /\ Len(q) \in Nat /\ \A i \in 1 .. Len(q) : q[i] \in Ages
  OBVIOUS
<1>2. Aged(q) = [i \in 1 .. Len(q) |-> IF q[i] > Window THEN q[i] ELSE q[i] + 1]
  BY <1>1 DEF Aged
<1>3. \A i \in 1 .. Len(q) : (IF q[i] > Window THEN q[i] ELSE q[i] + 1) \in Ages
  BY <1>1, LimitsAssumption DEF Ages
<1> QED
  BY <1>1, <1>2, <1>3

\* The order of the ages stays as they grow.
LEMMA AgingAges == ASSUME NEW q, Aging(q) PROVE Aging(Aged(q))
<1>1. q \in Seq(Ages) /\ \A i \in 1 .. Len(q) : q[i] \in Ages
  BY DEF Aging
<1>2. Aged(q) \in Seq(Ages) /\ Len(Aged(q)) = Len(q)
      /\ \A i \in 1 .. Len(q) : Aged(q)[i] = IF q[i] > Window THEN q[i] ELSE q[i] + 1
  BY <1>1, AgedIs
<1>3. ASSUME NEW i \in 1 .. Len(q), NEW j \in 1 .. Len(q), i <= j
      PROVE  Aged(q)[j] <= Aged(q)[i]
  <2>1. q[i] \in Int /\ q[j] \in Int /\ Window \in Int /\ q[j] <= q[i]
    BY <1>1, <1>3, LimitsAssumption DEF Aging, Ages
  <2> QED
    BY <1>2, <2>1
<1> QED
  BY <1>2, <1>3 DEF Aging

\* deque(maxlen=...).append drops the oldest entry, so the latest ones stay.
LEMMA LatestAppends ==
    ASSUME NEW q \in Seq(Ages), NEW d, Latest(d, q)
    PROVE  Latest(Appended(d), Append(q, 0))
<1> DEFINE r == Append(d, 0)
           s == Append(q, 0)
           u == Tail(r)
<1>1. d \in Seq(Ages) /\ 0 \in Ages /\ DequeLen \in Nat \ {0}
  BY LimitsAssumption DEF Latest, Ages
<1>2. r \in Seq(Ages) /\ Len(d) \in Nat /\ Len(r) = Len(d) + 1
      /\ \A i \in 1 .. Len(d) + 1 : r[i] = IF i <= Len(d) THEN d[i] ELSE 0
  BY <1>1, AppendIs
<1>3. s \in Seq(Ages) /\ Len(q) \in Nat /\ Len(s) = Len(q) + 1
      /\ \A i \in 1 .. Len(q) + 1 : s[i] = IF i <= Len(q) THEN q[i] ELSE 0
  BY <1>1, AppendIs
<1> HIDE DEF r, s
<1>4. Len(d) = (IF Len(q) < DequeLen THEN Len(q) ELSE DequeLen)
      /\ \A i \in 1 .. Len(d) : d[i] = q[Len(q) - Len(d) + i]
  BY DEF Latest
<1>0. Len(d) \in Nat /\ Len(q) \in Nat /\ Len(d) <= Len(q) /\ Len(d) <= DequeLen
  BY <1>1, <1>2, <1>3, <1>4
<1>5. ASSUME NEW i \in 1 .. Len(d) + 1 PROVE r[i] = s[Len(q) - Len(d) + i]
  <2>1. Len(q) - Len(d) + i \in 1 .. Len(q) + 1
        /\ (Len(q) - Len(d) + i <= Len(q) <=> i <= Len(d))
    BY <1>0
  <2> QED
    BY <1>2, <1>3, <1>4, <2>1
<1>6. CASE Len(r) > DequeLen
  <2>1. Appended(d) = u /\ r # <<>>
    <3>1. Appended(d) = IF Len(r) > DequeLen THEN u ELSE r
      BY DEF Appended, r, u
    <3>2. r # <<>>
      BY <1>2
    <3> QED
      BY <1>6, <3>1, <3>2
  <2>2. u \in Seq(Ages) /\ Len(u) = Len(d)
        /\ \A i \in 1 .. Len(d) : u[i] = r[i + 1]
    BY <1>2, <2>1, TailIs DEF u
  <2> HIDE DEF u
  <2>3. Len(d) = DequeLen /\ Len(q) >= DequeLen
    BY <1>1, <1>2, <1>3, <1>4, <1>6
  <2>4. ASSUME NEW i \in 1 .. Len(d)
        PROVE  u[i] = s[Len(q) - Len(d) + (i + 1)]
    <3>1. i + 1 \in 1 .. Len(d) + 1
      BY <1>2
    <3> QED
      BY <1>5, <2>2, <3>1
  <2>5. \A i \in 1 .. Len(d) : Len(q) - Len(d) + (i + 1) = Len(q) + 1 - Len(d) + i
    BY <1>2, <1>3
  <2>6. \A i \in 1 .. Len(d) : u[i] = s[Len(q) + 1 - Len(d) + i]
    BY <2>4, <2>5
  <2>7. Len(d) = IF Len(q) + 1 < DequeLen THEN Len(q) + 1 ELSE DequeLen
    BY <1>1, <1>3, <2>3
  <2>8. u \in Seq(Ages) /\ Len(u) = Len(d) /\ Len(s) = Len(q) + 1
    BY <1>3, <2>2
  <2>9. Len(u) = IF Len(s) < DequeLen THEN Len(s) ELSE DequeLen
    BY <2>7, <2>8, Zenon
  <2>10. ASSUME NEW i \in 1 .. Len(u)
         PROVE  u[i] = s[Len(s) - Len(u) + i]
    <3>1. Len(s) = Len(q) + 1 /\ Len(u) = Len(d)
      BY <2>8
    <3>2. i \in 1 .. Len(d)
      BY <3>1
    <3>3. u[i] = s[Len(q) + 1 - Len(d) + i]
      BY <2>6, <3>2
    <3>4. Len(s) - Len(u) + i = Len(q) + 1 - Len(d) + i
      BY <3>1
    <3> QED
      BY <3>3, <3>4
  <2>11. Latest(u, s)
    BY <2>8, <2>9, <2>10, Zenon DEF Latest
  <2> QED
    BY <2>1, <2>11 DEF s
<1>7. CASE ~ (Len(r) > DequeLen)
  <2>1. Appended(d) = r
    BY <1>7 DEF Appended, r
  <2>2. Len(d) = Len(q) /\ Len(q) < DequeLen
    BY <1>1, <1>2, <1>3, <1>4, <1>7
  <2> QED
    BY <1>1, <1>2, <1>3, <1>5, <2>1, <2>2 DEF Latest, s
<1> QED
  BY <1>6, <1>7

\* Both deques grow older together.
LEMMA LatestAges ==
    ASSUME NEW q \in Seq(Ages), NEW d, Latest(d, q) PROVE Latest(Aged(d), Aged(q))
<1>1. d \in Seq(Ages)
  BY DEF Latest
<1>2. \A i \in 1 .. Len(d) : Len(q) - Len(d) + i \in 1 .. Len(q)
  BY LimitsAssumption DEF Latest
<1>3. Aged(q) \in Seq(Ages) /\ Len(Aged(q)) = Len(q)
      /\ \A i \in 1 .. Len(q) : Aged(q)[i] = IF q[i] > Window THEN q[i] ELSE q[i] + 1
  BY AgedIs
<1>4. Aged(d) \in Seq(Ages) /\ Len(Aged(d)) = Len(d)
      /\ \A i \in 1 .. Len(d) : Aged(d)[i] = IF d[i] > Window THEN d[i] ELSE d[i] + 1
  BY <1>1, AgedIs
<1>5. \A i \in 1 .. Len(d) : d[i] = q[Len(q) - Len(d) + i]
  BY DEF Latest
<1>6. \A i \in 1 .. Len(d) : Aged(d)[i] = Aged(q)[Len(q) - Len(d) + i]
  BY <1>2, <1>3, <1>4, <1>5
<1> QED
  BY <1>3, <1>4, <1>6 DEF Latest

\* The young entries of a sequence are counted by their place ...
LEMMA YoungCounts ==
    ASSUME NEW q \in Seq(Ages), NEW n, Young(q, n) PROVE InWindow(q) = n
<1> DEFINE S == {i \in DOMAIN q : q[i] <= Window}
           a == Len(q) - n + 1
<1>1. n \in Int /\ a \in Int /\ Len(q) \in Int /\ n <= Len(q) /\ 0 <= n
  BY DEF Young
<1>2. S = a .. Len(q)
  BY <1>1 DEF Young
<1> HIDE DEF a
<1>3. Cardinality(a .. Len(q)) = IF a > Len(q) THEN 0 ELSE Len(q) - a + 1
  BY <1>1, FS_Interval, Zenon
<1>4. InWindow(q) = Cardinality(a .. Len(q))
  BY <1>2 DEF InWindow
<1> QED
  BY <1>1, <1>3, <1>4 DEF a

\* ... when they come after the old ones.
LEMMA AgingIsYoung ==
    ASSUME NEW q, Aging(q) PROVE InWindow(q) \in Nat /\ Young(q, InWindow(q))
<1> DEFINE S == {i \in DOMAIN q : q[i] <= Window}
<1>1. q \in Seq(Ages) /\ Len(q) \in Nat /\ DOMAIN q = 1 .. Len(q)
      /\ \A i \in 1 .. Len(q) : q[i] \in Int
  BY LimitsAssumption DEF Aging, Ages
<1>2. \E n \in 0 .. Len(q) : Young(q, n)
  <2>1. CASE S = {}
    <3>1. Young(q, 0)
      BY <1>1, <2>1, LimitsAssumption DEF Young
    <3> QED
      BY <1>1, <3>1
  <2>2. CASE S # {}
    <3>1. PICK m \in S : \A k \in S : m <= k
      <4>1. S \subseteq Nat
        BY <1>1
      <4> HIDE DEF S
      <4> QED
        BY <2>2, <4>1, LeastNat
    <3>2. m \in 1 .. Len(q) /\ q[m] <= Window
      BY <1>1
    <3>3. \A i \in 1 .. Len(q) : q[i] <= Window <=> i >= m
      BY <1>1, <3>1, <3>2, LimitsAssumption DEF Aging
    <3>4. Young(q, Len(q) - m + 1)
      BY <1>1, <3>2, <3>3 DEF Young
    <3> QED
      BY <1>1, <3>2, <3>4
  <2> QED
    BY <2>1, <2>2
<1> QED
  BY <1>1, <1>2, YoungCounts

\* An empty deque counts nothing.
LEMMA NoneWithin == InWindow(<<>>) = 0
<1>1. <<>> \in Seq(Ages) /\ Young(<<>>, 0)
  BY DEF Young
<1> QED
  BY <1>1, YoungCounts

\* An entry counts when it is made; ageing only takes entries out of the window.
LEMMA OneMore == ASSUME NEW q, Aging(q) PROVE InWindow(Append(q, 0)) = InWindow(q) + 1
<1>1. q \in Seq(Ages) /\ Append(q, 0) \in Seq(Ages) /\ Window \in Nat
  BY AgingAppends, LimitsAssumption DEF Aging
<1>2. Young(Append(q, 0), InWindow(q) + 1)
  BY <1>1, AgingIsYoung DEF Young
<1> QED
  BY <1>1, <1>2, YoungCounts

\* Growing older brings nothing back into the window.
LEMMA NoneMore == ASSUME NEW q, Aging(q) PROVE InWindow(Aged(q)) <= InWindow(q)
<1>1. q \in Seq(Ages) /\ Len(q) \in Nat /\ Window \in Nat
      /\ \A i \in 1 .. Len(q) : q[i] \in Int
  BY LimitsAssumption DEF Aging, Ages
<1>2. InWindow(q) \in Nat /\ Young(q, InWindow(q))
      /\ InWindow(Aged(q)) \in Nat /\ Young(Aged(q), InWindow(Aged(q)))
  BY AgingIsYoung, AgingAges
<1>3. Len(Aged(q)) = Len(q) /\ \A i \in 1 .. Len(q) : Aged(q)[i] <= Window => q[i] <= Window
  BY <1>1, AgedIs
<1>4. SUFFICES ASSUME InWindow(Aged(q)) > InWindow(q) PROVE FALSE
  BY <1>2
<1> DEFINE i == Len(q) - InWindow(q)
<1>5. i \in 1 .. Len(q)
  BY <1>1, <1>2, <1>3, <1>4 DEF Young
<1>6. Aged(q)[i] <= Window /\ ~ (q[i] <= Window)
  BY <1>1, <1>2, <1>3, <1>4, <1>5 DEF Young
<1> QED
  BY <1>3, <1>5, <1>6

\* The deque counts right up to its length.
LEMMA DequeCounts ==
    ASSUME NEW q, Aging(q), NEW d, Latest(d, q)
    PROVE  InWindow(d) = IF InWindow(q) < DequeLen THEN InWindow(q) ELSE DequeLen
<1>1. q \in Seq(Ages) /\ d \in Seq(Ages) /\ Len(q) \in Nat /\ Len(d) \in Nat /\ DequeLen \in Nat
  BY LimitsAssumption DEF Aging, Latest
<1>2. InWindow(q) \in Nat /\ Young(q, InWindow(q)) /\ InWindow(q) <= Len(q)
  BY AgingIsYoung DEF Young
<1>3. \A i \in 1 .. Len(d) : Len(q) - Len(d) + i \in 1 .. Len(q)
  BY <1>1 DEF Latest
<1> DEFINE n == IF InWindow(q) < DequeLen THEN InWindow(q) ELSE DequeLen
<1>4. Len(d) = (IF Len(q) < DequeLen THEN Len(q) ELSE DequeLen)
      /\ \A i \in 1 .. Len(d) : d[i] = q[Len(q) - Len(d) + i]
  BY DEF Latest
<1>5. n \in 0 .. Len(d)
  BY <1>1, <1>2, <1>4
<1>0. Len(d) \in Nat /\ Len(q) \in Nat /\ DequeLen \in Nat /\ InWindow(q) \in Nat
      /\ InWindow(q) <= Len(q)
  BY <1>1, <1>2
<1>9. Len(d) = IF Len(q) < DequeLen THEN Len(q) ELSE DequeLen
  BY <1>4
<1>6. ASSUME NEW i \in 1 .. Len(d)
      PROVE  Len(q) - Len(d) + i > Len(q) - InWindow(q) <=> i > Len(d) - n
  <2>1. CASE InWindow(q) < DequeLen
    BY <1>0, <2>1
  <2>2. CASE ~ (InWindow(q) < DequeLen)
    <3>1. n = DequeLen /\ Len(d) = DequeLen
      BY <1>0, <1>9, <2>2
    <3> QED
      BY <1>0, <2>2, <3>1
  <2> QED
    BY <2>1, <2>2
<1>7. \A i \in 1 .. Len(d) :
         d[i] <= Window <=> Len(q) - Len(d) + i > Len(q) - InWindow(q)
  BY <1>2, <1>3, <1>4 DEF Young
<1>8. Young(d, n)
  BY <1>5, <1>6, <1>7 DEF Young
<1> QED
  BY <1>1, <1>8, YoungCounts

-----------------------------------------------------------------------------

\* Both stay true from step to step: the deques are written with the histories.
LEMMA WindowStep == WindowInv /\ [Next]_vars => WindowInv'
<1> SUFFICES ASSUME WindowInv, [Next]_vars PROVE WindowInv'
  OBVIOUS
<1>0. sent \in Seq(Ages) /\ failed \in Seq(Ages)
  BY DEF WindowInv, Aging
<1>1. CASE OrderGoes
  BY <1>0, <1>1, AgingAppends, LatestAppends, Zenon DEF OrderGoes, WindowInv
<1>2. CASE RecordError
  BY <1>0, <1>2, AgingAppends, LatestAppends, Zenon DEF RecordError, WindowInv
<1>3. CASE Tick
  BY <1>0, <1>3, AgingAges, LatestAges, Zenon DEF Tick, WindowInv
<1>4. CASE Crash
  BY <1>4, NothingYet DEF Crash, WindowInv
<1>5. CASE UNCHANGED <<orderAges, errorAges, sent, failed>>
  BY <1>5 DEF WindowInv
<1> QED
  BY <1>1, <1>2, <1>3, <1>4, <1>5
     DEF Next, vars, windows, RateTrips, LossTrips, Background, Realize, Midnight, Snapshot,
         Misfire, EngageHalt, ResumeHalt, Start

\* The invariant holds in every reachable state.
LEMMA WindowInvHolds == Spec => []WindowInv
<1>1. Init => WindowInv
  BY NothingYet DEF Init, WindowInv
<1> QED
  BY <1>1, WindowStep, PTL DEF Spec

\* However often the process restarts and HALT is lifted: check_trade counts the
\* orders of the deque, the limit is about all of them (_orders_in_last_minute).
\* A limit above the deque's length is never reached (BeyondTheDeque).
THEOREM OrderRateKept == RateLimit \in 0 .. DequeLen => (Spec => []RateBounded)
<1> SUFFICES ASSUME RateLimit \in 0 .. DequeLen PROVE Spec => []RateBounded
  OBVIOUS
<1>1. Init => RateBounded
  BY NoneWithin, LimitsAssumption DEF Init, RateBounded
<1>2. WindowInv /\ RateBounded /\ [Next]_vars => RateBounded'
  <2> SUFFICES ASSUME WindowInv, RateBounded, [Next]_vars PROVE RateBounded'
    OBVIOUS
  <2>0. Aging(sent) /\ Latest(orderAges, sent) /\ InWindow(sent) \in Nat
        /\ RateLimit \in 0 .. DequeLen /\ DequeLen \in Nat
    BY AgingIsYoung, LimitsAssumption DEF WindowInv
  <2>1. CASE OrderGoes
    <3>1. InWindow(orderAges) < RateLimit
      <4>1. ~ (InWindow(orderAges) >= RateLimit) /\ InWindow(orderAges) \in Nat
        BY <2>0, <2>1, DequeCounts DEF OrderGoes, RateFull
      <4> QED
        BY <2>0, <4>1
    <3>2. InWindow(sent) < RateLimit
      BY <2>0, <3>1, DequeCounts
    <3>3. InWindow(sent') = InWindow(sent) + 1
      BY <2>0, <2>1, OneMore DEF OrderGoes
    <3> QED
      BY <2>0, <3>2, <3>3 DEF RateBounded
  <2>2. CASE Tick
    <3>1. InWindow(sent') <= InWindow(sent) /\ InWindow(sent') \in Nat
      BY <2>0, <2>2, NoneMore, AgingAges, AgingIsYoung DEF Tick
    <3> QED
      BY <2>0, <3>1 DEF RateBounded
  <2>3. CASE Crash
    BY <2>0, <2>3, NoneWithin DEF Crash, RateBounded
  <2>4. CASE UNCHANGED sent
    BY <2>4 DEF RateBounded
  <2> QED
    BY <2>1, <2>2, <2>3, <2>4
       DEF Next, vars, windows, RateTrips, LossTrips, RecordError, Background, Realize,
           Midnight, Snapshot, Misfire, EngageHalt, ResumeHalt, Start
<1> QED
  BY <1>1, <1>2, WindowInvHolds, PTL DEF Spec

\* record_error looks at the deque only, which never forgets too much; what it
\* engaged is lifted by the operator alone.  A threshold above the deque's length
\* never trips (BeyondTheDeque).
THEOREM SpikeEngages == ErrorLimit \in 1 .. DequeLen => (Spec => []SpikeHalts)
<1> SUFFICES ASSUME ErrorLimit \in 1 .. DequeLen PROVE Spec => []SpikeHalts
  OBVIOUS
<1>1. Init => SpikeHalts
  BY NoneWithin, LimitsAssumption DEF Init, SpikeHalts
<1>2. WindowInv /\ SpikeHalts /\ [Next]_vars => SpikeHalts'
  <2> SUFFICES ASSUME WindowInv, SpikeHalts, [Next]_vars PROVE SpikeHalts'
    OBVIOUS
  <2>0. Aging(failed) /\ Latest(errorAges, failed) /\ InWindow(failed) \in Nat
        /\ ErrorLimit \in 1 .. DequeLen /\ DequeLen \in Nat
    BY AgingIsYoung, LimitsAssumption DEF WindowInv
  <2>1. CASE RecordError
    <3>1. Aging(failed') /\ Latest(errorAges', failed') /\ InWindow(failed') \in Nat
      <4>1. WindowInv'
        BY WindowStep
      <4> QED
        BY <4>1, <2>1, <2>0, AgingAppends, AgingIsYoung DEF WindowInv, RecordError
    <3>2. SUFFICES ASSUME InWindow(failed') >= ErrorLimit PROVE halt'
      BY DEF SpikeHalts
    <3>3. InWindow(errorAges') >= ErrorLimit
      BY <2>0, <3>1, <3>2, DequeCounts
    <3> QED
      BY <2>1, <3>3 DEF RecordError
  <2>2. CASE Tick
    <3>1. InWindow(failed') <= InWindow(failed) /\ InWindow(failed') \in Nat
      BY <2>0, <2>2, NoneMore, AgingAges, AgingIsYoung DEF Tick
    <3> QED
      BY <2>0, <2>2, <3>1 DEF SpikeHalts, Tick
  <2>3. CASE Crash
    BY <2>0, <2>3, NoneWithin DEF Crash, SpikeHalts
  <2>4. CASE ResumeHalt
    BY <2>4 DEF ResumeHalt, SpikeHalts
  <2>5. CASE UNCHANGED <<failed, resumed>> /\ (halt => halt')
    BY <2>5 DEF SpikeHalts
  <2> QED
    BY <2>1, <2>2, <2>3, <2>4, <2>5
       DEF Next, vars, windows, RateTrips, LossTrips, OrderGoes, Background, Realize,
           Midnight, Snapshot, Misfire, EngageHalt, Start
<1> QED
  BY <1>1, <1>2, WindowInvHolds, PTL DEF Spec

\* What config.py lets pass: above the length of the deques the rate limit is never
\* reached and the error threshold never met, however many orders and errors there
\* are within a window (deque(maxlen=200)).
THEOREM BeyondTheDeque ==
    Spec => [](/\ RateLimit > DequeLen => ~RateFull
               /\ ErrorLimit > DequeLen => ~(InWindow(errorAges) >= ErrorLimit))
<1>1. ASSUME WindowInv
      PROVE  /\ RateLimit > DequeLen => ~RateFull
             /\ ErrorLimit > DequeLen => ~(InWindow(errorAges) >= ErrorLimit)
  <2>0. /\ Aging(sent) /\ Latest(orderAges, sent)
        /\ Aging(failed) /\ Latest(errorAges, failed)
    BY <1>1 DEF WindowInv
  <2>1. InWindow(sent) \in Nat /\ InWindow(failed) \in Nat
    BY <2>0, AgingIsYoung
  <2>2. /\ InWindow(orderAges) \in Nat /\ InWindow(orderAges) <= DequeLen
        /\ InWindow(errorAges) \in Nat /\ InWindow(errorAges) <= DequeLen
    BY <2>0, <2>1, DequeCounts, LimitsAssumption
  <2> QED
    BY <2>2, LimitsAssumption DEF RateFull
<1> QED
  BY <1>1, WindowInvHolds, PTL

-----------------------------------------------------------------------------

\* Types, given that the windows and the snapshots are what they should be.
LEMMA TypeStep == TypeOK /\ DayInv /\ WindowInv' /\ [Next]_vars => TypeOK'
<1> SUFFICES ASSUME TypeOK, DayInv, WindowInv', [Next]_vars PROVE TypeOK'
  OBVIOUS
<1>1. /\ Len(orderAges') <= DequeLen /\ Len(errorAges') <= DequeLen
      /\ \A q \in {orderAges', errorAges', sent', failed'} : q \in Seq(0 .. Window + 1)
  BY LimitsAssumption DEF WindowInv, Aging, Latest, Ages
<1>2. {up', halt', due', resumed'} \subseteq BOOLEAN /\ slips' \subseteq {"late", "missed"}
  BY DEF TypeOK, Next, vars, windows, money, dates, counts, RateTrips, LossTrips, OrderGoes,
         RecordError, Background, Realize, Tick, Midnight, Snapshot, Misfire, EngageHalt,
         ResumeHalt, Crash, Start
<1>3. /\ pnl' \in -MaxPnl .. MaxPnl /\ opening' \in -MaxPnl .. MaxPnl
      /\ day' \in 0 .. MaxDays
      /\ snaps' \in [DOMAIN snaps' -> -MaxPnl .. MaxPnl] /\ DOMAIN snaps' \subseteq 1 .. day'
  <2>1. CASE Snapshot
    <3>1. /\ pnl \in -MaxPnl .. MaxPnl /\ day \in 1 .. day
          /\ snaps \in [DOMAIN snaps -> -MaxPnl .. MaxPnl] /\ DOMAIN snaps \subseteq 1 .. day
      BY <2>1 DEF TypeOK, DayInv, SnapsType, Snapshot
    <3>2. snaps' = [e \in DOMAIN snaps \cup {day} |-> IF e = day THEN pnl ELSE snaps[e]]
          /\ day' = day
      BY <2>1 DEF Snapshot
    <3> QED
      BY <2>1, <3>1, <3>2 DEF TypeOK, Snapshot, money
  <2>2. CASE Midnight
    BY <2>2, BreakerBounds DEF TypeOK, Midnight
  <2>3. CASE Realize
    BY <2>3 DEF TypeOK, Realize
  <2>4. CASE UNCHANGED <<pnl, opening, day, snaps>>
    BY <2>4 DEF TypeOK
  <2> QED
    BY <2>1, <2>2, <2>3, <2>4
       DEF Next, vars, money, dates, RateTrips, LossTrips, OrderGoes, RecordError, Background,
           Tick, Misfire, EngageHalt, ResumeHalt, Crash, Start
<1>4. orders' \in 0 .. MaxOrders /\ errors' \in 0 .. MaxErrors
  <2>1. CASE OrderGoes
    BY <2>1, BreakerBounds DEF TypeOK, OrderGoes
  <2>2. CASE RecordError
    BY <2>2, BreakerBounds DEF TypeOK, RecordError
  <2>3. CASE UNCHANGED counts
    BY <2>3 DEF TypeOK, counts
  <2> QED
    BY <2>1, <2>2, <2>3
       DEF Next, vars, RateTrips, LossTrips, Background, Realize, Tick, Midnight, Snapshot,
           Misfire, EngageHalt, ResumeHalt, Crash, Start
<1> QED
  BY <1>1, <1>2, <1>3, <1>4 DEF TypeOK

\* Counters stay within their bounds, a snapshot's day has begun, and the deques
\* within their length.
THEOREM TypeCorrect == Spec => []TypeOK
<1>1. Init => TypeOK
  <2> SUFFICES ASSUME Init PROVE TypeOK
    OBVIOUS
  <2>1. snaps \in [DOMAIN snaps -> -MaxPnl .. MaxPnl] /\ DOMAIN snaps \subseteq 1 .. day
    BY DEF Init
  <2>2. Len(orderAges) <= DequeLen /\ Len(errorAges) <= DequeLen
        /\ \A q \in {orderAges, errorAges, sent, failed} : q \in Seq(0 .. Window + 1)
    BY LimitsAssumption DEF Init
  <2>3. 0 \in -MaxPnl .. MaxPnl /\ 0 \in 0 .. MaxDays /\ 0 \in 0 .. MaxOrders /\ 0 \in 0 .. MaxErrors
    BY BreakerBounds
  <2> QED
    BY <2>1, <2>2, <2>3 DEF Init, TypeOK
<1> QED
  BY <1>1, TypeStep, DayInvHolds, WindowInvHolds, PTL DEF Spec
=============================================================================
