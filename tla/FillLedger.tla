----------------------------- MODULE FillLedger -----------------------------
(***************************************************************************)
(* The mirror of one market's position: FillIngestor polls executions and  *)
(* books each in the fills table and the position; Reconciler overwrites   *)
(* the position with the exchange's count, then lets the ingestor catch    *)
(* up.  Polling, the hourly reconciliation, executions and restarts        *)
(* interleave.                                                             *)
(*                                                                         *)
(* Time advances in ticks of 1/TicksPerSecond s: the ingestor's high-water *)
(* mark is in whole seconds.  Every execution is one bought contract of    *)
(* one order, so its identity tuple (order, market, created_at, count) is  *)
(* its instant; one without created_time is given the instant it is booked *)
(* at, a new identity each time.  With a Discord webhook the page's        *)
(* transaction stays open over the posts: nobody else can commit before it *)
(* does.                                                                   *)
(***************************************************************************)
EXTENDS Integers, Sequences, FiniteSets, FiniteSetsExt

CONSTANTS
    TicksPerSecond,
    PageSize,      \* limit of list_fills
    Notifying,     \* a Discord webhook is set
    Undated,       \* the exchange may leave created_time out
    Crowded,       \* more markets are held than list_positions reads
    ZoneEast,      \* seconds the machine's time zone is ahead of UTC
    MaxTick,       \* bound: length of the run
    MaxTrades,     \* bound: executions
    MaxCount,      \* bound: the local count
    MaxStarts      \* bound: lives of the process

ASSUME TicksAssumption == TicksPerSecond \in Nat \ {0}
ASSUME PageSizeAssumption == PageSize \in Nat \ {0}
ASSUME NotifyingAssumption == Notifying \in BOOLEAN
ASSUME AnswersAssumption == Undated \in BOOLEAN /\ Crowded \in BOOLEAN
ASSUME ZoneAssumption == ZoneEast \in Int
ASSUME LedgerBounds ==
    /\ MaxTick \in Nat /\ MaxTick >= TicksPerSecond
    /\ MaxTrades \in Nat /\ MaxStarts \in Nat
    /\ MaxCount \in Nat /\ MaxCount >= 2 * MaxTrades

VARIABLES
    now, trades,                   \* the exchange: clock, executions so far
    up, starts,
    booked,                        \* executions in the fills table
    stamps,                        \* created_at of the rows booked without a
                                   \* created_time
    local,                         \* positions.count
    hw,                            \* _high_water_ts
    pass, passMax, passLeft,       \* the pass under way: who runs it, its
                                   \* max_ts_seen, executions on later pages
    rcPc, pulled,                  \* reconciliation, and the count it pulled,
                                   \* kept (history) when its catch-up is done
    \* history:
    torn                           \* a pass ended with later pages unread
exchange == <<now, trades>>
life     == <<up, starts>>
ledger   == <<booked, stamps, local>>
ingestor == <<hw, pass, passMax, passLeft>>
recon    == <<rcPc, pulled>>
vars     == <<exchange, life, ledger, ingestor, recon, torn>>

Executed  == DOMAIN trades
Net       == Len(trades)
SecondOf(t) == t \div TicksPerSecond
Second(i) == SecondOf(trades[i].at)

-----------------------------------------------------------------------------
(* The exchange. *)

Tick == /\ now < MaxTick
        /\ now' = now + 1
        /\ UNCHANGED <<trades, life, ledger, ingestor, recon, torn>>

\* An execution; the PnL it realizes, fee included, may come to exactly zero.
Trade ==
    /\ Net < MaxTrades
    /\ \E z \in BOOLEAN, d \in {TRUE, ~Undated} :
          trades' = Append(trades, [at |-> now, zero |-> z, dated |-> d])
    /\ UNCHANGED <<now, ledger, life, ingestor, recon, torn>>

-----------------------------------------------------------------------------
(* FillIngestor._fetch_and_apply, under the ingestor's lock. *)

\* The seconds of created_at in the fills table.
RowSeconds == {Second(i) : i \in {b \in booked : trades[b].dated}}
              \cup {SecondOf(t) : t \in stamps}

\* Mutant: the oldest row is taken for the latest.
LoadHighWaterOldest ==
    IF RowSeconds = {} THEN 0
    ELSE LET t == Min(RowSeconds) - ZoneEast
         IN  IF t > 0 THEN t ELSE 0

\* _load_high_water: the naive UTC time of the latest row, read as local time.
LoadHighWater ==
    IF RowSeconds = {} THEN 0
    ELSE LET t == Max(RowSeconds) - ZoneEast
         IN  IF t > 0 THEN t ELSE 0

\* A pass begins; poll_loop's or the catch-up that follows a reconciliation.
BeginPass(who) ==
    /\ pass = "none"
    /\ pass' = who
    /\ passMax' = hw
    /\ passLeft' = {-1}              \* the first page is still to be asked for
    /\ UNCHANGED hw

BeginPoll ==
    /\ up
    /\ BeginPass("poll")
    /\ UNCHANGED <<exchange, life, ledger, recon, torn>>

BeginCatchUp ==
    /\ up /\ rcPc = "catch_up"
    /\ BeginPass("catch_up")
    /\ rcPc' = "catching"
    /\ UNCHANGED <<exchange, life, ledger, pulled, torn>>

\* Mutant: the mark moves one second too far.
EndPassFurther(max) ==
    /\ pass' = "none"
    /\ hw' = IF max > hw THEN max + 2 ELSE hw
    /\ passMax' = 0
    /\ passLeft' = {}

\* The loop is left normally or by its break: the mark moves past the newest
\* second that was booked.
EndPass(max) ==
    /\ pass' = "none"
    /\ hw' = IF max > hw THEN max + 1 ELSE hw
    /\ passMax' = 0
    /\ passLeft' = {}

\* The reconciliation job that waits for the pass is over with it.
JobEnds(count) == IF pass = "catch_up" THEN rcPc' = "idle" /\ pulled' = count
                                       ELSE UNCHANGED recon

\* What the page request may return, newest or oldest first as the exchange
\* likes: all from the mark on when it is the first.
Asked == IF passLeft = {-1} THEN {i \in Executed : Second(i) >= hw} ELSE passLeft
PageOf(S) == {P \in SUBSET S :
                Cardinality(P) = IF Cardinality(S) < PageSize
                                 THEN Cardinality(S) ELSE PageSize}

\* The executions of page P that apply_fill books: every one without a
\* created_time; of those with one identity the first, if the fills table does
\* not have it already.
NewOf(P) ==
    LET dated == {i \in Executed : trades[i].dated}
    IN  {B \in SUBSET P :
           /\ P \ dated \subseteq B
           /\ B \cap booked \cap dated = {}
           /\ \A i \in B \cap dated, j \in (B \cup booked) \cap dated :
                 i # j => trades[i].at # trades[j].at
           /\ \A i \in P \cap dated : \E j \in (B \cup booked) \cap dated :
                 trades[i].at = trades[j].at}

\* created_time, or the time of the booking: of a fill that realized zero, it
\* is taken for a duplicate, neither counts for the mark.
MarkedBy(B) ==
    {IF trades[i].dated THEN Second(i) ELSE SecondOf(now) : i \in {b \in B : ~trades[b].zero}}

\* A page arrives and is committed.
PageArrives ==
    /\ up /\ pass # "none"
    /\ \E P \in PageOf(Asked) : \E B \in NewOf(P) :
        LET max == Max({passMax} \cup MarkedBy(B))
        IN  /\ local' = local + Cardinality(B)
            /\ local' <= MaxCount
            /\ booked' = booked \cup B
            /\ stamps' = stamps \cup {now : i \in {b \in B : ~trades[b].dated}}
            /\ IF Asked = P
               THEN EndPass(max) /\ JobEnds(pulled)
               ELSE /\ passLeft' = Asked \ P
                    /\ passMax' = max
                    /\ UNCHANGED <<hw, pass, recon>>
    /\ UNCHANGED <<exchange, life, torn>>

\* The pass ends here, with or without pages left (history).
CutShort == torn' = (torn \/ (pass # "none" /\ passLeft # {-1}))

\* KalshiAPIError: break.
PageRefused ==
    /\ up /\ pass # "none"
    /\ EndPass(passMax) /\ JobEnds(-1) /\ CutShort
    /\ UNCHANGED <<exchange, life, ledger>>

\* Any other exception leaves the pass, and the mark where it was.
PassRaises ==
    /\ up /\ pass # "none"
    /\ EndPass(hw) /\ JobEnds(-1) /\ CutShort
    /\ UNCHANGED <<exchange, life, ledger>>

-----------------------------------------------------------------------------
(* Reconciler.reconcile, then catch_up, of startup and of the hourly job. *)

\* The exchange answers list_positions with one page; the answer travels.  A
\* market that the page leaves out counts as closed.
PositionsPulled ==
    /\ up /\ rcPc = "idle"
    /\ pulled' = Net \/ (Crowded /\ pulled' = 0)
    /\ rcPc' = "pulled"
    /\ UNCHANGED <<exchange, life, ledger, ingestor, torn>>

\* Mutant: no early return after the failed fetch.
PullFailsOnward ==
    /\ up /\ rcPc = "idle"
    /\ rcPc' = "pulled"
    /\ pulled' = -1
    /\ UNCHANGED <<exchange, life, ledger, ingestor, torn>>

\* The fetch failed; the job goes on to the catch-up.
PullFails ==
    /\ up /\ rcPc = "idle"
    /\ rcPc' = "catch_up"
    /\ pulled' = -1
    /\ UNCHANGED <<exchange, life, ledger, ingestor, torn>>

\* Mutant: the discrepancy is reported and the row left alone.
AdoptNothing ==
    /\ up /\ rcPc = "pulled"
    /\ rcPc' = "catch_up"
    /\ UNCHANGED <<ledger, exchange, life, ingestor, pulled, torn>>

\* The answer overwrites the local count, whatever was booked in between.
Adopt ==
    /\ up /\ rcPc = "pulled"
    /\ local' = pulled
    /\ rcPc' = "catch_up"
    /\ UNCHANGED <<booked, stamps, exchange, life, ingestor, pulled, torn>>

\* The commit finds the database locked by a page whose posts are under way and
\* raises: startup goes on to the catch-up, the hourly job is over.
AdoptFails ==
    /\ Notifying
    /\ up /\ rcPc = "pulled" /\ pass # "none"
    /\ rcPc' \in {"catch_up", "idle"}
    /\ pulled' = -1
    /\ UNCHANGED <<exchange, life, ledger, ingestor, torn>>

-----------------------------------------------------------------------------
(* The process. *)

\* Startup reconciles, then catches up; polling starts with the reloaded mark.
Start ==
    /\ ~up /\ starts < MaxStarts
    /\ up' = TRUE
    /\ starts' = starts + 1
    /\ hw' = LoadHighWater
    /\ UNCHANGED <<pass, passMax, passLeft, exchange, ledger, recon, torn>>

\* The last life does not crash (bound).
Crash ==
    /\ up /\ starts < MaxStarts
    /\ up' = FALSE
    /\ hw' = 0
    /\ pass' = "none" /\ passMax' = 0 /\ passLeft' = {}
    /\ rcPc' = "idle" /\ pulled' = -1
    /\ CutShort
    /\ UNCHANGED <<starts, exchange, ledger>>

Init ==
    /\ now = TicksPerSecond /\ trades = <<>>   \* hw = 0 means no mark
    /\ up = FALSE /\ starts = 0
    /\ booked = {} /\ stamps = {} /\ local = 0
    /\ hw = 0 /\ pass = "none" /\ passMax = 0 /\ passLeft = {}
    /\ rcPc = "idle" /\ pulled = -1 /\ torn = FALSE

PassStep == PageArrives \/ PageRefused \/ PassRaises

Next ==
    \/ Tick \/ Trade
    \/ BeginPoll \/ BeginCatchUp \/ PassStep
    \/ PositionsPulled \/ PullFails \/ Adopt \/ AdoptFails
    \/ Start \/ Crash

Spec == Init /\ [][Next]_vars

\* systemd restarts the process, awaits end, the lock is handed over in turn,
\* the exchange answers the positions request again and again, and not every
\* answer meets a page that is being announced.
FairSpec ==
    /\ Spec
    /\ WF_vars(Start) /\ WF_vars(PassStep)
    /\ SF_vars(BeginCatchUp) /\ SF_vars(PositionsPulled) /\ SF_vars(Adopt)

-----------------------------------------------------------------------------
(* Properties. *)

\* Type invariant.
TypeOK ==
    /\ now \in 0 .. MaxTick
    /\ trades \in Seq([at : 0 .. MaxTick, zero : BOOLEAN, dated : BOOLEAN])
    /\ Net <= MaxTrades
    /\ up \in BOOLEAN /\ starts \in 0 .. MaxStarts
    /\ booked \subseteq Executed /\ stamps \subseteq 0 .. MaxTick
    /\ local \in 0 .. MaxCount
    /\ hw \in Nat /\ passMax \in Nat
    /\ pass \in {"none", "poll", "catch_up"}
    /\ passLeft \subseteq Executed \cup {-1}
    /\ rcPc \in {"idle", "pulled", "catch_up", "catching"}
    /\ pulled \in -1 .. MaxTrades
    /\ torn \in BOOLEAN

\* What realized something and is booked is not asked for again, but for the
\* mark's own second and the seconds a restart goes back on a host east of UTC:
\* the code knows an execution without created_time again by nothing else.  A
\* pass that was cut short between two pages leaves the mark behind.
BookedStaysBehind ==
    \A i \in booked :
        up /\ ~torn /\ pass = "none" /\ ~trades[i].zero
            => Second(i) <= hw \/ Second(i) <= hw + ZoneEast

\* As long as no pass is cut short between two pages, the ingestor passes over
\* an execution for good only because another one of the very same second had
\* been booked, or one without created_time was, then or later.
LostOnlyWithinSecond ==
    \A i \in Executed \ booked :
        up /\ ~torn /\ pass = "none" /\ Second(i) < hw
            => \/ \E j \in booked : Second(j) = Second(i)
               \/ \E t \in stamps : SecondOf(t) >= Second(i)

\* The count under way is not that of a page that left the market out.
MarketListed == rcPc = "pulled" => pulled > 0 \/ Net = 0

\* Whatever was lost, counted twice or overwritten by a stale answer, the
\* hourly reconciliation repairs the count once trading and crashes pause and
\* its one page has the market: again and again, since an execution without
\* created_time may be booked again, and for good if there is none.
EventuallyMirrors ==
    <>[]MarketListed => /\ []<>(local = Net)
                        /\ [](\A i \in Executed : trades[i].dated) => <>[](local = Net)

\* README: "Fill catch-up runs after every reconcile so downtime fills get
\* backfilled": with nothing executed since the pull, the count is right.
MirrorAfterCatchUp == rcPc = "idle" /\ pulled = Net => local = Net
=============================================================================
