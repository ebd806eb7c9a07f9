-------------------------- MODULE FillLedgerProofs --------------------------
(***************************************************************************)
(* For any number of executions, restarts and passes, any page size and    *)
(* any clock: what is booked stays behind the mark, and what the ingestor  *)
(* will not ask for again shares its second with one that was booked.      *)
(***************************************************************************)
EXTENDS FillLedger, FiniteSetTheorems, WellFoundedInduction, TLAPS

-----------------------------------------------------------------------------
(* Numbers: least and greatest elements, whole seconds. *)

\* A set of natural numbers has a least element.
LEMMA LeastNat ==
    ASSUME NEW T, T \subseteq Nat, T # {}
    PROVE  \E m \in T : \A k \in T : m <= k
<1> DEFINE R == {ss \in Nat \X Nat : ss[1] < ss[2]}
<1>1. R = OpToRel(<, Nat)
  BY DEF OpToRel
<1>2. \A k \in Nat, l \in Nat : k < l => <<k, l>> \in R
  OBVIOUS
<1> HIDE DEF R
<1>3. IsWellFoundedOn(R, Nat)
  BY <1>1, NatLessThanWellFounded
<1>4. PICK m \in T : \A k \in T : ~ (<<k, m>> \in R)
  BY <1>3, WFMin, Zenon
<1>5. ASSUME NEW k \in T PROVE m <= k
  <2>1. k \in Nat /\ m \in Nat /\ ~ (<<k, m>> \in R)
    BY <1>4
  <2>2. ~ (k < m)
    BY <1>2, <2>1
  <2> QED
    BY <2>1, <2>2
<1> QED
  BY <1>5

\* A bounded one has a greatest element, which is its Max.
LEMMA MaxOfBounded ==
    ASSUME NEW S, S \subseteq Nat, S # {}, NEW b \in Nat, \A x \in S : x <= b
    PROVE  Max(S) \in S /\ \A x \in S : x <= Max(S)
<1> DEFINE T == {b - x : x \in S}
<1>1. T \subseteq Nat /\ T # {}
  OBVIOUS
<1>2. PICK m \in T : \A k \in T : m <= k
  BY <1>1, LeastNat, Zenon
<1>3. PICK y \in S : m = b - y
  OBVIOUS
<1>4. \A x \in S : x <= y
  BY <1>2, <1>3
<1>5. \E z \in S : \A x \in S : z >= x
  BY <1>4
<1> QED
  BY <1>5 DEF Max

\* Later instants are not in earlier seconds.
LEMMA DivMonotone ==
    ASSUME NEW a \in Nat, NEW b \in Nat, NEW d \in Nat \ {0}, a <= b
    PROVE  a \div d \in Nat /\ a \div d <= b \div d
OBVIOUS

-----------------------------------------------------------------------------
(* Executions, rows and their seconds. *)

Execution == [at : Nat, zero : BOOLEAN, dated : BOOLEAN]

\* The clock is past every execution and every row.
IInv ==
    /\ now \in Nat /\ trades \in Seq(Execution)
    /\ booked \subseteq Executed /\ stamps \subseteq Nat
    /\ \A i \in Executed : trades[i].at <= now
    /\ \A t \in stamps : t <= now

\* Executions have numbers, instants and seconds, none later than the present.
LEMMA Seconds ==
    ASSUME IInv
    PROVE  /\ SecondOf(now) \in Nat
           /\ \A i \in Executed : /\ i \in Nat \ {0} /\ trades[i].at \in Nat
                                 /\ Second(i) \in Nat /\ Second(i) <= SecondOf(now)
           /\ \A t \in stamps : SecondOf(t) \in Nat /\ SecondOf(t) <= SecondOf(now)
<1>1. now \in Nat /\ TicksPerSecond \in Nat \ {0}
  BY TicksAssumption DEF IInv
<1>2. ASSUME NEW t \in Nat, t <= now PROVE SecondOf(t) \in Nat /\ SecondOf(t) <= SecondOf(now)
  BY <1>1, <1>2, DivMonotone DEF SecondOf
<1>3. ASSUME NEW i \in Executed
      PROVE  /\ i \in Nat \ {0} /\ trades[i].at \in Nat
             /\ Second(i) \in Nat /\ Second(i) <= SecondOf(now)
  <2>1. i \in Nat \ {0} /\ trades[i] \in Execution
    BY DEF IInv, Executed
  <2>2. trades[i].at \in Nat /\ trades[i].at <= now
    BY <2>1 DEF Execution, IInv
  <2> QED
    BY <1>2, <2>1, <2>2 DEF Second
<1>4. ASSUME NEW t \in stamps PROVE SecondOf(t) \in Nat /\ SecondOf(t) <= SecondOf(now)
  BY <1>2 DEF IInv
<1> QED
  BY <1>1, <1>2, <1>3, <1>4

\* So do the rows of the fills table.
LEMMA RowsKnown ==
    ASSUME IInv
    PROVE  RowSeconds \subseteq Nat /\ \A x \in RowSeconds : x <= SecondOf(now)
<1>1. booked \subseteq Executed
  BY DEF IInv
<1> QED
  BY <1>1, Seconds DEF RowSeconds

\* What happens away from the exchange and the fills table leaves seconds and
\* rows as they are.
LEMMA SameBookings ==
    ASSUME UNCHANGED <<trades, booked, stamps>>
    PROVE  /\ Executed' = Executed /\ RowSeconds' = RowSeconds
           /\ \A i : Second(i)' = Second(i) /\ \A t : SecondOf(t)' = SecondOf(t)
<1>1. Executed' = Executed /\ (\A i : Second(i)' = Second(i)) /\ \A t : SecondOf(t)' = SecondOf(t)
  BY DEF Executed, Second, SecondOf
<1> QED
  BY <1>1 DEF RowSeconds

\* A new execution is not booked, is of the present second, and disturbs no other.
LEMMA TradeAppends ==
    ASSUME IInv, Trade
    PROVE  /\ trades' \in Seq(Execution) /\ Net \in Nat /\ Net' = Net + 1
           /\ \E new \in Nat :
              /\ Executed' = Executed \cup {new} /\ new \notin Executed
              /\ RowSeconds' = RowSeconds
              /\ \A i \in Executed : trades'[i] = trades[i] /\ Second(i)' = Second(i)
              /\ trades'[new].at = now /\ Second(new)' = SecondOf(now)
<1>0. Executed = 1 .. Net /\ Net \in Nat
  BY DEF IInv, Executed, Net
<1> PICK new \in Nat : new = Net + 1
  BY <1>0
<1>1. PICK e \in Execution : e.at = now /\ trades' = Append(trades, e)
  <2>1. PICK z \in BOOLEAN, d \in {TRUE, ~Undated} :
           trades' = Append(trades, [at |-> now, zero |-> z, dated |-> d])
    BY DEF Trade
  <2>2. [at |-> now, zero |-> z, dated |-> d] \in Execution
    BY AnswersAssumption DEF IInv, Execution
  <2> QED
    BY <2>1, <2>2
<1>2. trades' \in Seq(Execution) /\ Len(trades') = Len(trades) + 1
  BY <1>1 DEF IInv
<1>3. Executed' = 1 .. new /\ \A i \in Executed : trades'[i] = trades[i]
  BY <1>0, <1>1 DEF IInv, Executed, Net
<1>4. trades'[new] = e
  BY <1>0, <1>1 DEF IInv, Executed, Net
<1>5. UNCHANGED <<booked, stamps>>
  BY DEF Trade, ledger
<1>6. \A i \in Executed : Second(i)' = Second(i)
  BY <1>3 DEF Second, SecondOf
<1>7. RowSeconds' = RowSeconds
  <2>1. booked' = booked /\ booked \subseteq Executed /\ stamps' = stamps
    BY <1>5 DEF IInv
  <2>2. \A t : SecondOf(t)' = SecondOf(t)
    BY DEF SecondOf
  <2>3. {i \in booked : trades'[i].dated} = {i \in booked : trades[i].dated}
    BY <1>3, <2>1
  <2> QED
    BY <1>6, <2>1, <2>2, <2>3 DEF RowSeconds
<1>8. trades'[new].at = now /\ Second(new)' = SecondOf(now)
  BY <1>1, <1>4 DEF Second, SecondOf
<1> QED
  BY <1>0, <1>2, <1>3, <1>6, <1>7, <1>8 DEF Net

\* What a page that arrives does: it books B, stamps what carries no time, and the
\* newest it may have counted becomes the pass's max or moves the mark.
Books(P, B, max) ==
    /\ booked' = booked \cup B
    /\ stamps' = stamps \cup {now : i \in {b \in B : ~trades[b].dated}}
    /\ local' = local + Cardinality(B) /\ local' <= MaxCount
    /\ IF Asked = P
       THEN EndPass(max) /\ JobEnds(pulled)
       ELSE /\ passLeft' = Asked \ P
            /\ passMax' = max
            /\ UNCHANGED <<hw, pass, recon>>

LEMMA PageBooks ==
    ASSUME PageArrives
    PROVE  /\ UNCHANGED <<now, trades, up, starts, torn>> /\ up /\ pass # "none"
           /\ \E P \in PageOf(Asked) : \E B \in NewOf(P) :
                 Books(P, B, Max({passMax} \cup MarkedBy(B)))
<1>1. \E P \in PageOf(Asked) : \E B \in NewOf(P) : Books(P, B, Max({passMax} \cup MarkedBy(B)))
  BY Zenon DEF PageArrives, Books
<1> QED
  BY <1>1 DEF PageArrives, exchange, life

\* The rows after it.
LEMMA PageRows ==
    ASSUME IInv, NEW P, NEW B, NEW max, P \subseteq Asked, B \in NewOf(P), Asked \subseteq Executed,
           Books(P, B, max), UNCHANGED <<now, trades>>
    PROVE  /\ B \subseteq P /\ IInv' /\ Executed' = Executed
           /\ \A i : Second(i)' = Second(i)
           /\ RowSeconds \subseteq RowSeconds' /\ MarkedBy(B) \subseteq RowSeconds'
<1>1. B \subseteq P /\ B \subseteq Executed
  BY DEF NewOf
<1>2. booked' = booked \cup B /\ stamps' = stamps \cup {now : i \in {b \in B : ~trades[b].dated}}
  BY DEF Books
<1>3. Executed' = Executed /\ (\A i : Second(i)' = Second(i)) /\ \A t : SecondOf(t)' = SecondOf(t)
  BY DEF Executed, Second, SecondOf
<1>4. IInv'
  <2>1. stamps' \subseteq stamps \cup {now} /\ booked' \subseteq Executed /\ now' = now /\ trades' = trades
    BY <1>1, <1>2 DEF IInv
  <2> QED
    BY <1>3, <2>1 DEF IInv
<1>5. RowSeconds \subseteq RowSeconds'
  BY <1>2, <1>3 DEF RowSeconds
<1>6. ASSUME NEW i \in B PROVE (IF trades[i].dated THEN Second(i) ELSE SecondOf(now)) \in RowSeconds'
  <2>1. CASE trades[i].dated
    BY <1>2, <1>3, <1>6, <2>1 DEF RowSeconds
  <2>2. CASE ~trades[i].dated
    <3>1. now \in stamps'
      BY <1>2, <1>6, <2>2
    <3>2. SecondOf(now) \in RowSeconds'
      BY <1>3, <3>1 DEF RowSeconds
    <3> QED
      BY <2>2, <3>2
  <2> QED
    BY <2>1, <2>2
<1>7. MarkedBy(B) \subseteq RowSeconds'
  BY <1>6 DEF MarkedBy
<1> QED
  BY <1>1, <1>3, <1>4, <1>5, <1>7

\* The newest it counts: one of the rows, or what the pass had, and not before any.
LEMMA NewestOfPage ==
    ASSUME IInv, NEW B, B \subseteq Executed, passMax \in Nat
    PROVE  LET max == Max({passMax} \cup MarkedBy(B))
           IN  /\ max \in Nat /\ max \in {passMax} \cup MarkedBy(B)
               /\ \A x \in {passMax} \cup MarkedBy(B) : x <= max
<1> DEFINE S == {passMax} \cup MarkedBy(B)
           n == SecondOf(now)
<1>1. n \in Nat /\ MarkedBy(B) \subseteq Nat /\ \A x \in MarkedBy(B) : x <= n
  BY Seconds DEF MarkedBy
<1>2. S \subseteq Nat /\ S # {} /\ passMax + n \in Nat /\ \A x \in S : x <= passMax + n
  BY <1>1
<1> HIDE DEF S, n
<1>3. Max(S) \in S /\ \A x \in S : x <= Max(S)
  BY <1>2, MaxOfBounded
<1> QED
  BY <1>2, <1>3 DEF S

\* IInv is inductive.
LEMMA IInvStep == ASSUME IInv, passLeft = {-1} \/ passLeft \subseteq Executed, [Next]_vars PROVE IInv'
<1>1. CASE Trade
  <2>1. PICK new \in Nat :
           /\ Executed' = Executed \cup {new} /\ new \notin Executed
           /\ \A i \in Executed : trades'[i] = trades[i]
           /\ trades'[new].at = now
    BY <1>1, TradeAppends
  <2>2. trades' \in Seq(Execution) /\ UNCHANGED <<now, booked, stamps>>
    BY <1>1, TradeAppends DEF Trade, ledger
  <2> QED
    BY <2>1, <2>2 DEF IInv
<1>2. CASE PageArrives
  <2>1. PICK P \in PageOf(Asked) : \E B \in NewOf(P) :
           Books(P, B, Max({passMax} \cup MarkedBy(B)))
    BY <1>2, PageBooks
  <2>2. P \subseteq Asked /\ Asked \subseteq Executed
    BY DEF PageOf, Asked
  <2> QED
    BY <1>2, <2>1, <2>2, PageBooks, PageRows
<1>3. CASE ~Trade /\ ~PageArrives
  <2>1. UNCHANGED <<trades, booked, stamps>> /\ now' \in {now, now + 1}
    BY <1>3 DEF Next, PassStep, Tick, BeginPoll, BeginCatchUp, PageRefused, PassRaises,
                PositionsPulled, PullFails, Adopt, AdoptFails, Start, Crash,
                vars, exchange, life, ledger
  <2>2. Executed' = Executed
    BY <2>1 DEF Executed
  <2>3. \A i \in Executed : trades[i].at \in Nat
    BY Seconds
  <2> QED
    BY <2>1, <2>2, <2>3 DEF IInv
<1> QED
  BY <1>1, <1>2, <1>3

-----------------------------------------------------------------------------
(* What the mark leaves behind. *)

\* Another execution of the same second has been booked.
Twin(i) == \E j \in booked : Second(j) = Second(i)

\* One without a time was booked in that second, or later.
Stamped(i) == \E t \in stamps : SecondOf(t) >= Second(i)

\* No pass has seen it: it is at the mark or later, and nothing that was booked,
\* or waits on a later page, is of a later second.
Fresh(i) ==
    /\ Second(i) >= hw
    /\ \A j \in booked \cup (passLeft \cap Executed) : Second(j) <= Second(i)

\* On a host that is not behind UTC the mark is at most one second past a row;
\* until its first page a pass has the mark itself, and then that or the second
\* of a row.
MarkInv ==
    /\ hw \in Nat /\ passMax \in Nat
    /\ passLeft = {-1} \/ passLeft \subseteq Executed
    /\ passLeft = {-1} => passMax = hw
    /\ pass = "none" => passLeft = {}
    /\ ~up => pass = "none"
    /\ hw > 0 /\ ZoneEast >= 0 => \E x \in RowSeconds : hw <= x + 1
    /\ pass # "none" => passMax = hw \/ passMax \in RowSeconds

\* Unless a pass was cut short, an execution that is not booked has a twin, was
\* overtaken by a stamp, waits on a later page, or is new to the ingestor.
NothingSkipped ==
    ~torn /\ ZoneEast >= 0 =>
        \A i \in Executed \ booked : Twin(i) \/ Stamped(i) \/ i \in passLeft \/ Fresh(i)

\* It is behind the mark, or will be when the pass ends.
Behind(i) ==
    \/ Second(i) <= hw \/ Second(i) <= hw + ZoneEast
    \/ pass # "none" /\ Second(i) <= passMax

\* Each booked execution left a row of its second, or of a later one, and those
\* that count are behind the mark.
BookedBehind ==
    /\ \A i \in booked : \E x \in RowSeconds : Second(i) <= x
    /\ up /\ ~torn => \A i \in booked : trades[i].zero \/ Behind(i)

LedgerInv == IInv /\ MarkInv /\ NothingSkipped /\ BookedBehind

\* An execution is asked for by the next pass, or a row of its second, the newest
\* of all, is there already.
LEMMA TradeKeeps == ASSUME LedgerInv, Trade PROVE MarkInv' /\ NothingSkipped' /\ BookedBehind'
<1> USE DEF LedgerInv
<1>1. PICK new \in Nat :
         /\ Executed' = Executed \cup {new} /\ new \notin Executed
         /\ RowSeconds' = RowSeconds
         /\ \A i \in Executed : trades'[i] = trades[i] /\ Second(i)' = Second(i)
         /\ trades'[new].at = now /\ Second(new)' = SecondOf(now)
  BY TradeAppends
<1>2. UNCHANGED <<now, ledger, up, ingestor, torn>>
  BY DEF Trade, life
<1>3. booked \subseteq Executed /\ passLeft' \cap Executed' = passLeft \cap Executed
  BY <1>1, <1>2 DEF IInv, MarkInv, ingestor
<1>4. \A t : SecondOf(t)' = SecondOf(t)
  BY DEF SecondOf
<1>5. /\ SecondOf(now) \in Nat
      /\ \A i \in Executed : Second(i) \in Nat /\ Second(i) <= SecondOf(now)
      /\ \A x \in RowSeconds : x \in Nat /\ x <= SecondOf(now)
  BY Seconds, RowsKnown
<1>6. MarkInv'
  BY <1>1, <1>2 DEF MarkInv, ingestor
<1>7. ASSUME ~torn, ZoneEast >= 0, NEW i \in Executed \ booked
      PROVE  Twin(i)' \/ Stamped(i)' \/ i \in passLeft' \/ Fresh(i)'
  <2>1. (Twin(i) => Twin(i)') /\ (Stamped(i) => Stamped(i)')
    BY <1>1, <1>2, <1>3, <1>4 DEF Twin, Stamped, ledger
  <2>2. Fresh(i) => Fresh(i)'
    BY <1>1, <1>2, <1>3 DEF Fresh, ledger, ingestor
  <2> QED
    BY <1>2, <1>7, <2>1, <2>2 DEF NothingSkipped, ingestor
<1>8. ZoneEast >= 0 => Twin(new)' \/ Stamped(new)' \/ Fresh(new)'
  <2> SUFFICES ASSUME ZoneEast >= 0 PROVE Twin(new)' \/ Stamped(new)' \/ Fresh(new)'
    OBVIOUS
  <2>1. CASE SecondOf(now) >= hw
    BY <1>1, <1>2, <1>3, <1>5, <2>1 DEF Fresh, ledger, ingestor
  <2>2. CASE SecondOf(now) < hw
    <3>1. PICK x \in RowSeconds : hw <= x + 1
      BY <1>5, <2>2 DEF MarkInv
    <3>2. x = SecondOf(now)
      BY <1>5, <2>2, <3>1 DEF MarkInv
    <3>3. CASE x \in {Second(i) : i \in {b \in booked : trades[b].dated}}
      BY <1>1, <1>2, <1>3, <3>2, <3>3 DEF Twin, ledger
    <3>4. CASE x \in {SecondOf(t) : t \in stamps}
      BY <1>1, <1>2, <1>4, <1>5, <3>2, <3>4 DEF Stamped, ledger
    <3> QED
      BY <3>3, <3>4 DEF RowSeconds
  <2> QED
    BY <1>5, <2>1, <2>2 DEF MarkInv
<1>9. BookedBehind'
  <2>1. \A i \in booked : Behind(i) => Behind(i)'
    BY <1>1, <1>2, <1>3 DEF Behind, ingestor
  <2> QED
    BY <1>1, <1>2, <1>3, <2>1 DEF BookedBehind, ledger
<1> QED
  BY <1>1, <1>2, <1>6, <1>7, <1>8, <1>9 DEF NothingSkipped, ledger

\* Seconds stay natural numbers.
LEMMA SecondsNext ==
    (IInv => (\A i \in Executed : Second(i) \in Nat) /\ \A t \in stamps : SecondOf(t) \in Nat)'
<1>1. IInv => (\A i \in Executed : Second(i) \in Nat) /\ \A t \in stamps : SecondOf(t) \in Nat
  BY Seconds
<1> QED
  BY <1>1, PTL

\* The mark moves past a row: what was new to the ingestor still is, or has a row
\* of its second, or a stamp of a later one.
LEMMA MarkMoves ==
    ASSUME IInv', NEW max \in Nat, EndPass(max), hw \in Nat, max = hw \/ max \in RowSeconds',
           NEW i \in Executed', Second(i)' >= hw, \A j \in booked' : Second(j)' <= Second(i)'
    PROVE  Twin(i)' \/ Stamped(i)' \/ Fresh(i)'
<1>1. passLeft' = {} /\ hw' = IF max > hw THEN max + 1 ELSE hw
  BY DEF EndPass
<1>2. Second(i)' \in Nat /\ \A t \in stamps' : SecondOf(t)' \in Nat
  BY SecondsNext
<1>3. CASE Second(i)' >= hw'
  BY <1>1, <1>3 DEF Fresh
<1>4. CASE Second(i)' < hw'
  <2>1. max > hw /\ Second(i)' <= max /\ max \in RowSeconds'
    BY <1>1, <1>2, <1>4
  <2>2. CASE \E j \in booked' : max = Second(j)'
    BY <1>2, <2>1, <2>2 DEF Twin
  <2>3. CASE \E t \in stamps' : max = SecondOf(t)'
    BY <1>2, <2>1, <2>3 DEF Stamped
  <2> QED
    BY <2>1, <2>2, <2>3 DEF RowSeconds
<1> QED
  BY <1>1, <1>2, <1>3, <1>4

\* A page that arrives leaves nothing of what was asked for behind: each is booked,
\* has a row of its second, or is on a later page; and what it books is behind the
\* mark when the pass ends.
LEMMA PageKeeps ==
    ASSUME LedgerInv, PageArrives PROVE MarkInv' /\ NothingSkipped' /\ BookedBehind'
<1> USE DEF LedgerInv
<1>1. UNCHANGED <<now, trades, up, torn>> /\ up /\ pass # "none"
  BY PageBooks
<1>page. PICK P \in PageOf(Asked) : \E B \in NewOf(P) : Books(P, B, Max({passMax} \cup MarkedBy(B)))
  BY PageBooks
<1>batch. PICK B \in NewOf(P) : Books(P, B, Max({passMax} \cup MarkedBy(B)))
  BY <1>page
<1> PICK max : max = Max({passMax} \cup MarkedBy(B))
  OBVIOUS
<1>2. Books(P, B, max)
  BY <1>batch
<1>3. P \subseteq Asked /\ Asked \subseteq Executed /\ B \subseteq Executed
  BY DEF PageOf, NewOf, Asked, MarkInv
<1>4. /\ B \subseteq P /\ IInv' /\ Executed' = Executed /\ (\A i : Second(i)' = Second(i))
      /\ RowSeconds \subseteq RowSeconds' /\ MarkedBy(B) \subseteq RowSeconds'
  BY <1>1, <1>2, <1>3, PageRows
<1>5. /\ booked' = booked \cup B /\ booked \subseteq Executed /\ stamps \subseteq stamps'
      /\ \A t : SecondOf(t)' = SecondOf(t)
  BY <1>2 DEF Books, IInv, SecondOf
<1>6. /\ max \in Nat /\ passMax <= max /\ \A x \in MarkedBy(B) : x <= max
      /\ max = hw \/ max \in RowSeconds'
  <2>1. max \in Nat /\ max \in {passMax} \cup MarkedBy(B) /\ \A x \in {passMax} \cup MarkedBy(B) : x <= max
    BY <1>3, NewestOfPage DEF MarkInv
  <2>2. passMax = hw \/ passMax \in RowSeconds
    BY <1>1 DEF MarkInv
  <2> QED
    BY <1>4, <2>1, <2>2
<1>7. \A i \in Executed : Second(i) \in Nat /\ Second(i) <= SecondOf(now) /\ SecondOf(now) \in Nat
  BY Seconds
<1>8. \A i \in P : Twin(i)' \/ i \in booked'
  <2> SUFFICES ASSUME NEW i \in P PROVE Twin(i)' \/ i \in booked'
    OBVIOUS
  <2>1. i \in B \/ \E j \in B \cup booked : trades[i].at = trades[j].at
    BY <1>3 DEF NewOf
  <2>2. ASSUME NEW j \in B \cup booked, trades[i].at = trades[j].at PROVE Second(j)' = Second(i)'
    BY <1>4, <2>2 DEF Second
  <2> QED
    BY <1>5, <2>1, <2>2 DEF Twin
<1>9. \A i : (Twin(i) => Twin(i)') /\ (Stamped(i) => Stamped(i)')
  BY <1>4, <1>5 DEF Twin, Stamped
<1>10. ASSUME ~torn, ZoneEast >= 0, NEW i \in Executed \ booked'
      PROVE  Twin(i)' \/ Stamped(i)' \/ i \in Asked \ P \/ (Fresh(i) /\ Asked = passLeft)
  <2>1. CASE passLeft = {-1}
    <3>1. i \notin passLeft
      BY <2>1, Seconds
    <3>2. Fresh(i) => i \in Asked
      BY <2>1, <1>10 DEF Asked, Fresh
    <3> QED
      BY <1>5, <1>8, <1>9, <1>10, <3>1, <3>2 DEF NothingSkipped
  <2>2. CASE passLeft # {-1}
    <3>1. Asked = passLeft
      BY <2>2 DEF Asked
    <3> QED
      BY <1>5, <1>8, <1>9, <1>10, <3>1 DEF NothingSkipped
  <2> QED
    BY <2>1, <2>2
<1>11. hw > 0 /\ ZoneEast >= 0 => \E x \in RowSeconds' : hw <= x + 1
  BY <1>4 DEF MarkInv
<1>12. \A i \in booked' : \E x \in RowSeconds' : Second(i)' <= x
  <2> SUFFICES ASSUME NEW i \in B PROVE \E x \in RowSeconds' : Second(i) <= x
    BY <1>4, <1>5 DEF BookedBehind
  <2>1. CASE trades[i].dated
    <3>1. trades'[i].dated /\ i \in booked'
      BY <1>1, <1>5, <2>1
    <3> QED
      BY <1>3, <1>4, <1>7, <3>1 DEF RowSeconds
  <2>2. CASE ~trades[i].dated
    <3>1. now \in stamps'
      BY <1>2, <2>2 DEF Books
    <3> QED
      BY <1>3, <1>5, <1>7, <3>1 DEF RowSeconds
  <2> QED
    BY <2>1, <2>2
<1>13. \A i \in B : trades[i].zero \/ Second(i) <= max
  <2> SUFFICES ASSUME NEW i \in B, ~trades[i].zero PROVE Second(i) <= max
    OBVIOUS
  <2>1. (IF trades[i].dated THEN Second(i) ELSE SecondOf(now)) \in MarkedBy(B)
    BY DEF MarkedBy
  <2> QED
    BY <1>3, <1>6, <1>7, <2>1
<1>14. CASE Asked = P
  <2>1. pass' = "none" /\ passMax' = 0 /\ passLeft' = {} /\ hw' = IF max > hw THEN max + 1 ELSE hw
    BY <1>2, <1>14 DEF Books, EndPass
  <2>2. MarkInv'
    <3>1. hw' \in Nat
      BY <1>6, <2>1 DEF MarkInv
    <3>2. hw' > 0 /\ ZoneEast >= 0 => \E x \in RowSeconds' : hw' <= x + 1
      <4>1. CASE max > hw
        <5>1. max # hw /\ hw' = max + 1
          BY <2>1, <4>1 DEF MarkInv
        <5> QED
          BY <1>6, <5>1
      <4> QED
        BY <1>11, <2>1, <4>1
    <3> QED
      BY <1>1, <2>1, <3>1, <3>2 DEF MarkInv
  <2>3. ASSUME ~torn, NEW i \in Executed, Fresh(i), Asked = passLeft
        PROVE  Twin(i)' \/ Stamped(i)' \/ Fresh(i)'
    <3>1. \A j \in booked \cup B : Second(j) <= Second(i)
      BY <1>3, <1>4, <2>3 DEF Fresh
    <3>2. Second(i) >= hw /\ hw \in Nat /\ EndPass(max)
      BY <1>2, <1>14, <2>3 DEF Fresh, MarkInv, Books
    <3>3. i \in Executed' /\ Second(i)' >= hw /\ \A j \in booked' : Second(j)' <= Second(i)'
      BY <1>4, <1>5, <3>1, <3>2
    <3> QED
      BY <1>4, <1>6, <3>2, <3>3, MarkMoves
  <2>4. BookedBehind'
    <3>1. ASSUME ~torn, NEW i \in booked', ~trades[i].zero PROVE Second(i) <= hw' \/ Second(i) <= hw' + ZoneEast
      <4>1. Second(i) <= max \/ Second(i) <= hw \/ Second(i) <= hw + ZoneEast
        BY <1>1, <1>5, <1>6, <1>7, <1>13, <3>1 DEF BookedBehind, Behind, MarkInv
      <4> QED
        BY <1>5, <1>3, <1>6, <1>7, <2>1, <4>1, ZoneAssumption DEF MarkInv
    <3> QED
      BY <1>1, <1>4, <1>12, <3>1 DEF BookedBehind, Behind
  <2> QED
    BY <1>1, <1>4, <1>10, <1>14, <2>2, <2>3, <2>4 DEF NothingSkipped
<1>15. CASE Asked # P
  <2>1. passLeft' = Asked \ P /\ passMax' = max /\ hw' = hw /\ pass' = pass
    BY <1>2, <1>15 DEF Books
  <2>2. MarkInv'
    <3>1. passLeft' \subseteq Executed' /\ passLeft' # {-1}
      BY <1>3, <1>4, <2>1, Seconds
    <3> QED
      BY <1>1, <1>6, <1>11, <2>1, <3>1 DEF MarkInv
  <2>3. ASSUME NEW i, Fresh(i), Asked = passLeft PROVE Fresh(i)'
    BY <1>3, <1>4, <1>5, <2>1, <2>3 DEF Fresh
  <2>4. BookedBehind'
    <3>1. ASSUME ~torn, NEW i \in booked', ~trades[i].zero
          PROVE  Second(i) <= hw \/ Second(i) <= hw + ZoneEast \/ Second(i) <= max
      <4>1. CASE i \in B
        BY <1>13, <3>1, <4>1
      <4>2. CASE i \in booked
        BY <1>1, <1>5, <1>6, <1>7, <3>1, <4>2 DEF BookedBehind, Behind, MarkInv
      <4> QED
        BY <1>5, <4>1, <4>2
    <3> QED
      BY <1>1, <1>4, <1>12, <2>1, <3>1 DEF BookedBehind, Behind
  <2> QED
    BY <1>1, <1>4, <1>10, <2>1, <2>2, <2>3, <2>4 DEF NothingSkipped
<1> QED
  BY <1>14, <1>15

\* A pass that ends early either had not seen a page, and leaves all as it was, or
\* is remembered as cut short.
LEMMA CutKeeps ==
    ASSUME LedgerInv, PageRefused \/ PassRaises PROVE MarkInv' /\ NothingSkipped' /\ BookedBehind'
<1> USE DEF LedgerInv
<1>1. PICK max \in {passMax, hw} : EndPass(max)
  BY DEF PageRefused, PassRaises
<1>2. UNCHANGED <<now, trades, booked, stamps, up>> /\ CutShort /\ pass # "none"
  BY DEF PageRefused, PassRaises, exchange, life, ledger
<1>3. /\ Executed' = Executed /\ RowSeconds' = RowSeconds
      /\ (\A i : Second(i)' = Second(i)) /\ \A t : SecondOf(t)' = SecondOf(t)
  BY <1>2, SameBookings
<1>4. max \in Nat /\ (max = hw \/ max \in RowSeconds) /\ hw \in Nat
  BY <1>1, <1>2 DEF MarkInv
<1>5. pass' = "none" /\ passMax' = 0 /\ passLeft' = {} /\ hw' = IF max > hw THEN max + 1 ELSE hw
  BY <1>1 DEF EndPass
<1>6. MarkInv'
  <2>1. hw' \in Nat /\ (hw' > 0 /\ ZoneEast >= 0 => \E x \in RowSeconds' : hw' <= x + 1)
    BY <1>3, <1>4, <1>5, RowsKnown DEF MarkInv
  <2> QED
    BY <1>2, <1>5, <2>1 DEF MarkInv
<1>7. ~torn' => ~torn /\ passLeft = {-1}
  BY <1>2 DEF CutShort
<1>8. ASSUME ~torn', ZoneEast >= 0, NEW i \in Executed' \ booked' PROVE Twin(i)' \/ Stamped(i)' \/ Fresh(i)'
  <2>1. (Twin(i) => Twin(i)') /\ (Stamped(i) => Stamped(i)')
    BY <1>2, <1>3 DEF Twin, Stamped
  <2>2. CASE Fresh(i)
    <3>1. IInv' /\ i \in Executed'
      BY IInvStep, <1>8 DEF MarkInv, PassStep, Next
    <3>2. Second(i)' >= hw /\ (max = hw \/ max \in RowSeconds') /\ \A j \in booked' : Second(j)' <= Second(i)'
      BY <1>2, <1>3, <1>4, <2>2 DEF Fresh
    <3> QED
      BY <1>1, <1>4, <3>1, <3>2, MarkMoves
  <2> QED
    BY <1>2, <1>3, <1>7, <1>8, <2>1, <2>2, Seconds DEF NothingSkipped
<1>10. up
  BY DEF PageRefused, PassRaises
<1>9. BookedBehind'
  <2>1. ASSUME ~torn', NEW i \in booked, ~trades[i].zero PROVE Second(i) <= hw' \/ Second(i) <= hw' + ZoneEast
    <3>1. Second(i) \in Nat
      BY Seconds DEF IInv
    <3>3. Second(i) <= hw \/ Second(i) <= hw + ZoneEast \/ Second(i) <= passMax
      BY <1>2, <1>7, <2>1, <1>10 DEF BookedBehind, Behind
    <3>4. passMax \in Nat /\ hw' \in Nat /\ hw' >= hw /\ hw' >= max
      BY <1>4, <1>5 DEF MarkInv
    <3>5. passMax = hw
      BY <1>7, <2>1 DEF MarkInv
    <3> QED
      BY <1>4, <3>1, <3>3, <3>4, <3>5, ZoneAssumption
  <2> QED
    BY <1>2, <1>3, <2>1 DEF BookedBehind, Behind
<1> QED
  BY <1>6, <1>8, <1>9 DEF NothingSkipped

\* A restart asks again from the newest row's second, or from before it on a host
\* that is not behind UTC; every booked one has a row of its second or later.
LEMMA StartKeeps == ASSUME LedgerInv, Start PROVE MarkInv' /\ NothingSkipped' /\ BookedBehind'
<1> USE DEF LedgerInv
<1>1. UNCHANGED <<now, trades, booked, stamps, pass, passMax, passLeft, torn>> /\ hw' = LoadHighWater
  BY DEF Start, exchange, ledger
<1>2. pass = "none" /\ passLeft = {}
  BY DEF Start, MarkInv
<1>3. /\ Executed' = Executed /\ RowSeconds' = RowSeconds
      /\ (\A i : Second(i)' = Second(i)) /\ \A t : SecondOf(t)' = SecondOf(t)
  BY <1>1, SameBookings
<1>4. RowSeconds \subseteq Nat /\ SecondOf(now) \in Nat /\ \A x \in RowSeconds : x <= SecondOf(now)
  BY RowsKnown, Seconds
<1>5. hw' \in Nat /\ (hw' > 0 /\ ZoneEast >= 0 => \E x \in RowSeconds : hw' <= x)
      /\ \A x \in RowSeconds : x <= hw' + ZoneEast
  <2>1. CASE RowSeconds = {}
    BY <1>1, <2>1 DEF LoadHighWater
  <2>2. CASE RowSeconds # {}
    <3> DEFINE m == Max(RowSeconds)
    <3>1. m \in RowSeconds /\ m \in Nat /\ \A x \in RowSeconds : x \in Nat /\ x <= m
      BY <1>4, <2>2, MaxOfBounded
    <3>2. hw' = LET t == m - ZoneEast IN IF t > 0 THEN t ELSE 0
      BY <1>1, <2>2 DEF LoadHighWater
    <3> HIDE DEF m
    <3>3. hw' \in Nat /\ m <= hw' + ZoneEast /\ (hw' > 0 /\ ZoneEast >= 0 => hw' <= m)
      BY <3>1, <3>2, ZoneAssumption
    <3>4. \A x \in RowSeconds : x <= hw' + ZoneEast
      <4> DEFINE z == hw' + ZoneEast
      <4>1. z \in Int /\ m <= z
        BY <3>3, ZoneAssumption
      <4> HIDE DEF z
      <4>2. \A x \in RowSeconds : x <= z
        BY <3>1, <4>1
      <4> QED
        BY <4>2 DEF z
    <3> QED
      BY <3>1, <3>3, <3>4
  <2> QED
    BY <2>1, <2>2
<1>6. MarkInv'
  <2>1. hw' > 0 /\ ZoneEast >= 0 => \E x \in RowSeconds' : hw' <= x + 1
    BY <1>3, <1>4, <1>5
  <2>2. passLeft' # {-1}
    BY <1>1, <1>2
  <2> QED
    BY <1>1, <1>2, <1>3, <1>5, <2>1, <2>2 DEF MarkInv
<1>7. BookedBehind'
  <2>1. ASSUME NEW i \in booked PROVE Second(i) <= hw' + ZoneEast
    <3>1. PICK x \in RowSeconds : Second(i) <= x
      BY DEF BookedBehind
    <3>2. Second(i) \in Nat /\ x \in Nat /\ x <= hw' + ZoneEast
      BY <1>4, <1>5, Seconds DEF IInv
    <3>3. hw' + ZoneEast \in Int
      BY <1>5, ZoneAssumption
    <3> QED
      BY <3>1, <3>2, <3>3
  <2> QED
    BY <1>1, <1>3, <2>1 DEF BookedBehind, Behind
<1>8. ASSUME ZoneEast >= 0, NEW i \in Executed, Fresh(i) PROVE Twin(i)' \/ Stamped(i)' \/ Fresh(i)'
  <2>1. Second(i) \in Nat /\ \A t \in stamps : SecondOf(t) \in Nat
    BY Seconds
  <2>2. CASE \E t \in stamps : SecondOf(t) >= Second(i)
    BY <1>1, <1>3, <2>2 DEF Stamped
  <2>3. CASE \A t \in stamps : SecondOf(t) < Second(i)
    <3>1. \A x \in RowSeconds : x <= Second(i)
      BY <1>8, <2>1, <2>3 DEF RowSeconds, Fresh
    <3>2. Second(i)' >= hw'
      BY <1>3, <1>4, <1>5, <1>8, <2>1, <3>1
    <3> QED
      BY <1>1, <1>3, <1>8, <3>2 DEF Fresh
  <2> QED
    BY <2>1, <2>2, <2>3
<1>9. \A i : (Twin(i) => Twin(i)') /\ (Stamped(i) => Stamped(i)')
  BY <1>1, <1>3 DEF Twin, Stamped
<1> QED
  BY <1>1, <1>2, <1>3, <1>6, <1>7, <1>8, <1>9 DEF NothingSkipped

\* A crash between two pages is remembered; any other loses nothing.
LEMMA CrashKeeps == ASSUME LedgerInv, Crash PROVE MarkInv' /\ NothingSkipped' /\ BookedBehind'
<1> USE DEF LedgerInv
<1>1. /\ UNCHANGED <<now, trades, booked, stamps>> /\ hw' = 0 /\ ~up'
      /\ pass' = "none" /\ passMax' = 0 /\ passLeft' = {} /\ CutShort
  BY DEF Crash, exchange, ledger
<1>2. /\ Executed' = Executed /\ RowSeconds' = RowSeconds
      /\ (\A i : Second(i)' = Second(i)) /\ \A t : SecondOf(t)' = SecondOf(t)
  BY <1>1, SameBookings
<1>3. MarkInv' /\ BookedBehind'
  BY <1>1, <1>2 DEF MarkInv, BookedBehind
<1>4. ASSUME ~torn', ZoneEast >= 0, NEW i \in Executed \ booked
      PROVE  Twin(i)' \/ Stamped(i)' \/ Fresh(i)'
  <2>1. ~torn /\ (pass = "none" \/ passLeft = {-1})
    BY <1>1, <1>4, Zenon DEF CutShort
  <2>2. i \notin passLeft
    BY <2>1, Seconds DEF MarkInv
  <2>3. Fresh(i) => Fresh(i)'
    BY <1>1, <1>2, Seconds DEF Fresh
  <2>4. (Twin(i) => Twin(i)') /\ (Stamped(i) => Stamped(i)')
    BY <1>1, <1>2 DEF Twin, Stamped
  <2> QED
    BY <1>4, <2>1, <2>2, <2>3, <2>4 DEF NothingSkipped
<1> QED
  BY <1>1, <1>2, <1>3, <1>4 DEF NothingSkipped

\* The rest changes neither executions nor bookings, and at most begins a pass.
LEMMA RestKeeps ==
    ASSUME LedgerInv,
           \/ Tick \/ BeginPoll \/ BeginCatchUp
           \/ PositionsPulled \/ PullFails \/ Adopt \/ AdoptFails \/ UNCHANGED vars
    PROVE  MarkInv' /\ NothingSkipped' /\ BookedBehind'
<1> USE DEF LedgerInv
<1>1. UNCHANGED <<trades, booked, stamps, up, hw, torn>>
      /\ \/ UNCHANGED <<pass, passMax, passLeft>>
         \/ up /\ pass = "none" /\ pass' # "none" /\ passMax' = hw /\ passLeft' = {-1}
  BY DEF Tick, BeginPoll, BeginCatchUp, BeginPass, PositionsPulled, PullFails, Adopt, AdoptFails,
         vars, exchange, life, ledger, ingestor
<1>2. /\ Executed' = Executed /\ RowSeconds' = RowSeconds
      /\ (\A i : Second(i)' = Second(i)) /\ \A t : SecondOf(t)' = SecondOf(t)
  BY <1>1, SameBookings
<1>3. MarkInv'
  BY <1>1, <1>2 DEF MarkInv
<1>4. ASSUME NEW i \in Executed \ booked
      PROVE  /\ i \in passLeft => i \in passLeft'
             /\ Fresh(i) => Fresh(i)'
             /\ Twin(i) => Twin(i)'
             /\ Stamped(i) => Stamped(i)'
  <2>1. i # -1 /\ -1 \notin Executed
    BY Seconds
  <2> QED
    BY <1>1, <1>2, <2>1 DEF Fresh, Twin, Stamped, MarkInv
<1>5. BookedBehind'
  BY <1>1, <1>2 DEF BookedBehind, Behind
<1> QED
  BY <1>1, <1>2, <1>3, <1>4, <1>5 DEF NothingSkipped

\* LedgerInv is an invariant of every behavior.
LEMMA LedgerInvariant == Spec => []LedgerInv
<1>1. Init => LedgerInv
  <2> SUFFICES ASSUME Init PROVE LedgerInv
    OBVIOUS
  <2>1. Executed = {} /\ RowSeconds = {}
    BY DEF Init, Executed, RowSeconds
  <2> QED
    BY <2>1, TicksAssumption DEF Init, LedgerInv, IInv, MarkInv, NothingSkipped, BookedBehind
<1>2. LedgerInv /\ [Next]_vars => LedgerInv'
  <2> SUFFICES ASSUME LedgerInv, [Next]_vars PROVE MarkInv' /\ NothingSkipped' /\ BookedBehind'
    BY IInvStep DEF LedgerInv, MarkInv
  <2> QED
    BY TradeKeeps, PageKeeps, CutKeeps, StartKeeps, CrashKeeps, RestKeeps DEF Next, PassStep
<1> QED
  BY <1>1, <1>2, PTL DEF Spec

\* What realized something and is booked is asked for again only within the mark's
\* own second and the hours a restart goes back, unless a pass was cut short:
\* whatever the page size, the time zone and the number of restarts, and however
\* often the clock of a booking took the place of created_time
\* (_fetch_and_apply, _load_high_water, apply_fill).
THEOREM BookedOnce == Spec => []BookedStaysBehind
<1>1. LedgerInv => BookedStaysBehind
  BY DEF LedgerInv, BookedBehind, Behind, BookedStaysBehind
<1> QED
  BY <1>1, LedgerInvariant, PTL

\* Under a clock that is not behind UTC the ingestor passes over an execution for
\* good only because one of the same second had been booked, or one without a
\* time later, unless a pass was cut short between two pages (_fetch_and_apply,
\* _load_high_water): whatever the page size, however often the process restarts,
\* and whoever runs the passes.
THEOREM LostOnlyInBookedSecond == ZoneEast >= 0 => (Spec => []LostOnlyWithinSecond)
<1>1. ZoneEast >= 0 /\ LedgerInv => LostOnlyWithinSecond
  <2> SUFFICES ASSUME ZoneEast >= 0, LedgerInv, NEW i \in Executed \ booked,
                      up, ~torn, pass = "none", Second(i) < hw
               PROVE  Twin(i) \/ Stamped(i)
    BY DEF LostOnlyWithinSecond, Twin, Stamped
  <2>1. passLeft = {} /\ hw \in Nat /\ Second(i) \in Nat
    BY Seconds DEF LedgerInv, MarkInv
  <2> QED
    BY <2>1 DEF LedgerInv, NothingSkipped, Fresh
<1> SUFFICES ASSUME ZoneEast >= 0 PROVE Spec => []LostOnlyWithinSecond
  OBVIOUS
<1>2. LedgerInv => LostOnlyWithinSecond
  BY <1>1
<1> QED
  BY <1>2, LedgerInvariant, PTL

-----------------------------------------------------------------------------
(* The types. *)

\* Marks, pages and counts keep their ranges, whatever is pulled, booked again or
\* cut out of a page.
THEOREM TypeCorrect == Spec => []TypeOK
<1>1. Init => TypeOK /\ (rcPc = "pulled" => pulled >= 0)
  <2> SUFFICES ASSUME Init PROVE TypeOK /\ (rcPc = "pulled" => pulled >= 0)
    OBVIOUS
  <2>1. trades \in Seq([at : 0 .. MaxTick, zero : BOOLEAN, dated : BOOLEAN]) /\ Net = 0
    BY DEF Init, Net
  <2>2. now \in 0 .. MaxTick
    BY TicksAssumption, LedgerBounds DEF Init
  <2>3. local \in 0 .. MaxCount /\ pulled \in -1 .. MaxTrades /\ starts \in 0 .. MaxStarts
        /\ Net <= MaxTrades
    BY <2>1, LedgerBounds DEF Init
  <2>4. booked \subseteq Executed /\ stamps \subseteq 0 .. MaxTick
        /\ passLeft \subseteq Executed \cup {-1} /\ hw \in Nat /\ passMax \in Nat
    BY DEF Init
  <2> QED
    BY <2>1, <2>2, <2>3, <2>4 DEF Init, TypeOK
<1>2. TypeOK /\ LedgerInv /\ LedgerInv' /\ (rcPc = "pulled" => pulled >= 0) /\ [Next]_vars
      => TypeOK' /\ (rcPc = "pulled" => pulled >= 0)'
  <2> SUFFICES ASSUME TypeOK, LedgerInv, LedgerInv', rcPc = "pulled" => pulled >= 0, [Next]_vars
               PROVE  TypeOK' /\ (rcPc = "pulled" => pulled >= 0)'
    OBVIOUS
  <2> USE LedgerBounds, AnswersAssumption
  <2>1. passLeft' \subseteq Executed' \cup {-1} /\ hw' \in Nat /\ passMax' \in Nat
        /\ booked' \subseteq Executed'
    BY DEF LedgerInv, MarkInv, IInv
  <2>2. Net \in Nat /\ Net <= MaxTrades /\ now \in 0 .. MaxTick
    BY DEF TypeOK, Net
  <2>3. CASE Tick
    BY <2>1, <2>3 DEF Tick, TypeOK, Net, life, ledger, ingestor, recon
  <2>4. CASE Trade
    <3>1. PICK e \in [at : 0 .. MaxTick, zero : BOOLEAN, dated : BOOLEAN] : trades' = Append(trades, e)
      <4>1. PICK z \in BOOLEAN, d \in {TRUE, ~Undated} :
               trades' = Append(trades, [at |-> now, zero |-> z, dated |-> d])
        BY <2>4 DEF Trade
      <4>2. [at |-> now, zero |-> z, dated |-> d] \in [at : 0 .. MaxTick, zero : BOOLEAN, dated : BOOLEAN]
        BY <2>2
      <4> QED
        BY <4>1, <4>2
    <3>2. trades' \in Seq([at : 0 .. MaxTick, zero : BOOLEAN, dated : BOOLEAN])
      BY <3>1 DEF TypeOK
    <3>3. Net' <= MaxTrades
      <4>1. Net' = Net + 1 /\ Net < MaxTrades
        BY <2>4, TradeAppends DEF Trade, LedgerInv
      <4> QED
        BY <2>2, <4>1
    <3> QED
      BY <2>1, <2>4, <3>2, <3>3 DEF Trade, TypeOK, life, ledger, ingestor, recon
  <2>5. CASE BeginPoll \/ BeginCatchUp
    BY <2>1, <2>5 DEF BeginPoll, BeginCatchUp, BeginPass, TypeOK, Net, exchange, life, ledger, recon
  <2>6. CASE PageArrives
    <3>1. PICK P \in PageOf(Asked) : \E B \in NewOf(P) : Books(P, B, Max({passMax} \cup MarkedBy(B)))
      BY <2>6, PageBooks
    <3>2. PICK B \in NewOf(P) : Books(P, B, Max({passMax} \cup MarkedBy(B)))
      BY <3>1
    <3>3. UNCHANGED <<now, trades, up, starts, torn>>
      BY <2>6, PageBooks
    <3>4. Cardinality(B) \in Nat
      <4>1. B \subseteq Executed
        BY DEF PageOf, NewOf, Asked, LedgerInv, MarkInv
      <4>2. Executed = 1 .. Net
        BY DEF TypeOK, Executed, Net
      <4>3. IsFiniteSet(1 .. Net)
        BY <2>2, FS_Interval
      <4> QED
        BY <4>1, <4>2, <4>3, FS_Subset, FS_CardinalityType
    <3>5. local' \in 0 .. MaxCount /\ stamps' \subseteq 0 .. MaxTick
      <4>1. local' = local + Cardinality(B) /\ local' <= MaxCount /\ local \in Nat
        BY <3>2 DEF Books, TypeOK
      <4>2. stamps' \subseteq stamps \cup {now} /\ stamps \subseteq 0 .. MaxTick
        BY <3>2 DEF Books, TypeOK
      <4> QED
        BY <2>2, <3>4, <4>1, <4>2
    <3>6. /\ pass' \in {"none", "poll", "catch_up"} /\ pulled' = pulled
          /\ rcPc' \in {"idle", rcPc}
      BY <3>2 DEF Books, EndPass, JobEnds, recon, TypeOK
    <3> QED
      BY <2>1, <3>3, <3>5, <3>6 DEF TypeOK, Net
  <2>7. CASE PageRefused \/ PassRaises
    <3>1. UNCHANGED <<exchange, life, ledger>> /\ pass' = "none"
          /\ (UNCHANGED recon \/ (rcPc' = "idle" /\ pulled' = -1))
      BY <2>7 DEF PageRefused, PassRaises, EndPass, JobEnds
    <3>2. torn' \in BOOLEAN
      BY <2>7, Zenon DEF PageRefused, PassRaises, CutShort, TypeOK
    <3> QED
      BY <2>1, <3>1, <3>2 DEF TypeOK, Net, exchange, life, ledger, recon
  <2>8. CASE PositionsPulled \/ PullFails \/ AdoptFails
    <3>1. pulled' \in -1 .. MaxTrades /\ (rcPc' = "pulled" => pulled' >= 0)
          /\ rcPc' \in {"idle", "pulled", "catch_up"}
      <4>1. CASE PositionsPulled
        BY <2>2, <4>1 DEF PositionsPulled
      <4>2. CASE PullFails \/ AdoptFails
        BY <4>2 DEF PullFails, AdoptFails
      <4> QED
        BY <2>8, <4>1, <4>2
    <3>2. UNCHANGED <<exchange, life, ledger, ingestor, torn>>
      BY <2>8 DEF PositionsPulled, PullFails, AdoptFails
    <3> QED
      BY <2>1, <3>1, <3>2 DEF TypeOK, Net, exchange, life, ledger, ingestor
  <2>9. CASE Adopt
    <3>1. local' \in 0 .. MaxCount
      BY <2>9 DEF Adopt, TypeOK
    <3> QED
      BY <2>1, <2>9, <3>1 DEF Adopt, TypeOK, Net, exchange, life, ingestor
  <2>10. CASE Start
    BY <2>1, <2>10 DEF Start, TypeOK, Net, exchange, ledger, recon
  <2>11. CASE Crash
    <3>1. torn' \in BOOLEAN
      BY <2>11, Zenon DEF Crash, CutShort
    <3> QED
      <4>1. up' = FALSE /\ pass' = "none" /\ rcPc' = "idle" /\ pulled' = -1 /\ starts' = starts
            /\ UNCHANGED <<exchange, ledger>>
        BY <2>11 DEF Crash
      <4>2. pulled' \in -1 .. MaxTrades /\ ~(rcPc' = "pulled")
        BY <4>1
      <4>3. UNCHANGED <<now, trades, booked, stamps, local>>
        BY <4>1 DEF exchange, ledger
      <4> QED
        BY <2>1, <3>1, <4>1, <4>2, <4>3 DEF TypeOK, Net
  <2>12. CASE UNCHANGED vars
    BY <2>1, <2>12 DEF TypeOK, Net, vars, exchange, life, ledger, ingestor, recon
  <2> QED
    BY <2>3, <2>4, <2>5, <2>6, <2>7, <2>8, <2>9, <2>10, <2>11, <2>12 DEF Next, PassStep
<1> QED
  BY <1>1, <1>2, LedgerInvariant, PTL DEF Spec
=============================================================================
