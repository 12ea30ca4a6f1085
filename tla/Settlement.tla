------------------------------ MODULE Settlement ------------------------------
(***************************************************************************)
(* How an open pick is closed: the settlement cycle of                     *)
(* app/settlement/engine.py (void what can never settle, load the feeds,   *)
(* settle from the feeds, then from scraped scores), the pass that scrapes *)
(* final scores (app/clv_trueup.py), and the operator's two ways to do it  *)
(* by hand (app/api/routes.py: settle_event, record_result).               *)
(*                                                                         *)
(* The jobs and the requests are coroutines on sessions of their own: a    *)
(* pick is selected in one await and its result is inserted in a later     *)
(* one.  `pending` is the unique index of result_tracking under READ       *)
(* COMMITTED: an insertion waits for another session's uncommitted row,    *)
(* and does nothing when it finds a committed one.                         *)
(*                                                                         *)
(* Time is counted in ticks, each longer than any transaction; all         *)
(* thresholds are constants in ticks.  Event.status is left out: nothing   *)
(* reads it.                                                               *)
(***************************************************************************)
EXTENDS Integers, FiniteSets

CONSTANTS
    Picks, Events,
    EventOf,       \* the event of each pick
    Gradable,      \* picks whose selection settle_selection can map
    NameOf,        \* the fixture's (home, away) names as scraped
    FeedNameOf,    \* the same fixture as a results feed writes it
    Alike,         \* pairs of names one of which contains the other
    Kickoff,       \* when each event starts
    FeedDay,       \* the day a results feed dates it
    DayTicks,      \* ticks in a day
    MaxTime,       \* bound on the clock
    SoftFloor,     \* _RESULTS_SOFT_FLOOR
    SettleDelay,   \* SETTLE_DELAY
    FullFloor,     \* _FINISHED_FLOOR
    ScrapeBudget,  \* results_scrape_cycle_budget_seconds
    ScrapeWindow,  \* RESULTS_SCRAPE_WINDOW
    ScoreWindow,   \* SCORE_WINDOW
    VoidAge,       \* STALE_UNSETTLEABLE_AGE
    StaleAge,      \* STALE_NULL_KICKOFF_AGE
    MaxFaults,     \* bound on the number of failed transactions
    MaxCalls       \* bound on the calls of settle_event

ASSUME SettlementAssumption ==
    /\ EventOf \in [Picks -> Events]
    /\ Gradable \subseteq Picks
    /\ Kickoff \in [Events -> Nat]
    /\ FeedDay \in [Events -> Nat]
    /\ {SoftFloor, SettleDelay, FullFloor, ScrapeBudget, ScrapeWindow, ScoreWindow,
        VoidAge, StaleAge, MaxFaults, MaxCalls, MaxTime} \subseteq Nat
    /\ DayTicks \in Nat \ {0}

VARIABLES
    now,        \* the clock
    known,      \* events, of those with a pick, whose kickoff is stored
    over,       \* events that have really ended
    feed,       \* events whose score a results feed has published
    scraped,    \* Event.scraped_home_score: "none", "final", or "partial"
    links, linksAt, aged,   \* the scraping pass: pages left, its clock, past the full floor
    status,     \* Pick.status
    result,     \* result_tracking, committed
    pending,    \* result_tracking, inserted and not committed
    pc, at, batch,          \* the settlement cycle
    feedSeen, scrapedSeen,  \* the score books it loaded
    desk,       \* settle_event: whether it runs, the picks it has still to settle, its calls
    faults

worldVars == <<now, known, over, feed>>
scrapeVars == <<scraped, links, linksAt, aged>>
tableVars == <<status, result>>
cycleVars == <<pc, at, batch, feedSeen, scrapedSeen>>
vars == <<worldVars, scrapeVars, tableVars, pending, cycleVars, desk, faults>>

NoGame == "no game"
NoResult == [by |-> "nobody", game |-> NoGame, final |-> TRUE]
Sources == {"void", "feed", "scrape", "desk", "operator"}
Result == [by : Sources, game : Events \cup {NoGame}, final : BOOLEAN]
NotInserted == [owner |-> "none", row |-> NoResult]
Actors == {"cycle", "desk"}

Picked == {EventOf[p] : p \in Picks}

Day(e) == Kickoff[e] \div DayTicks
Names == {NameOf[e] : e \in Events} \cup {FeedNameOf[e] : e \in Events}
Score == [name : Names, day : Nat, game : Events, final : BOOLEAN]

TypeOK ==
    /\ now \in 0 .. MaxTime
    /\ known \subseteq Picked /\ over \subseteq Events /\ feed \subseteq Events
    /\ scraped \in [Events -> {"none", "final", "partial"}]
    /\ links \subseteq Events /\ aged \subseteq Events /\ linksAt \in 0 .. MaxTime
    /\ status \in [Picks -> {"alerted", "superseded", "settled"}]
    /\ result \in [Picks -> Result \cup {NoResult}]
    /\ pending \in [Picks -> [owner : Actors, row : Result] \cup {NotInserted}]
    /\ pc \in {"idle", "voidTbd", "voidOld", "load", "loaded", "select", "feedPass",
               "scrapePass"}
    /\ at \in 0 .. MaxTime
    /\ batch \subseteq Picks
    /\ feedSeen \subseteq Score /\ scrapedSeen \subseteq Score
    /\ desk \in [busy : BOOLEAN, left : SUBSET Picks, calls : 0 .. MaxCalls]
    /\ faults \in 0 .. MaxFaults

Init ==
    /\ now = 0
    /\ known \in SUBSET Picked
    /\ over = {} /\ feed = {}
    /\ scraped = [e \in Events |-> "none"]
    /\ links = {} /\ linksAt = 0 /\ aged = {}
    /\ status = [p \in Picks |-> "alerted"]
    /\ result = [p \in Picks |-> NoResult]
    /\ pending = [p \in Picks |-> NotInserted]
    /\ pc = "idle" /\ at = 0 /\ batch = {}
    /\ feedSeen = {} /\ scrapedSeen = {}
    /\ desk = [busy |-> FALSE, left |-> {}, calls |-> 0]
    /\ faults = 0

\* No transaction outlasts a tick.
InTransaction == pc \in {"voidTbd", "voidOld", "feedPass", "scrapePass"} \/ desk.busy

-----------------------------------------------------------------------------
(* The world.                                                              *)

\* A game is over by the full floor: the assumption behind _FINISHED_FLOOR.  A
\* pass that scrapes scores ends within its budget.
Tick ==
    /\ now < MaxTime
    /\ ~InTransaction
    /\ \A e \in Events : now + 1 > Kickoff[e] + FullFloor => e \in over
    /\ links # {} => now + 1 <= linksAt + ScrapeBudget
    /\ now' = now + 1
    /\ UNCHANGED <<known, over, feed, scrapeVars, tableVars, pending, cycleVars, desk,
                   faults>>

GameEnds(e) ==
    /\ e \notin over /\ now > Kickoff[e]
    /\ over' = over \cup {e}
    /\ UNCHANGED <<now, known, feed, scrapeVars, tableVars, pending, cycleVars, desk,
                   faults>>

Publish(e) ==
    /\ e \in over \ feed
    /\ feed' = feed \cup {e}
    /\ UNCHANGED <<now, known, over, scrapeVars, tableVars, pending, cycleVars, desk,
                   faults>>

\* refresh_event_kickoffs: the source names a kickoff before the game starts.
ReportKickoff(e) ==
    /\ e \in Picked \ known /\ now <= Kickoff[e]
    /\ known' = known \cup {e}
    /\ UNCHANGED <<now, over, feed, scrapeVars, tableVars, pending, cycleVars, desk,
                   faults>>

\* The poller re-emits the opportunity under a newer model version: games it
\* knows to have started are skipped.
SupersedePick(p) ==
    /\ status[p] = "alerted"
    /\ EventOf[p] \in known => now < Kickoff[EventOf[p]]
    /\ status' = [status EXCEPT ![p] = "superseded"]
    /\ UNCHANGED <<worldVars, scrapeVars, result, pending, cycleVars, desk, faults>>

-----------------------------------------------------------------------------
(* capture_finished_scores                                                 *)

OpenPicks(e) == {p \in Picks : EventOf[p] = e /\ status[p] = "alerted"}

\* The pages worth scraping: started long enough ago, inside the window, still
\* open and without a score.
StartScrape ==
    /\ links = {}
    /\ links' = {e \in known : /\ OpenPicks(e) # {}
                              /\ Kickoff[e] < now - SoftFloor
                              /\ Kickoff[e] > now - ScrapeWindow
                              /\ scraped[e] = "none"}
    /\ links' # {}
    /\ aged' = {e \in links' : Kickoff[e] < now - FullFloor}
    /\ linksAt' = now
    /\ UNCHANGED <<worldVars, scraped, tableVars, pending, cycleVars, desk, faults>>

LinkDone(e) ==
    /\ links' = links \ {e} /\ aged' = aged \ {e}
    /\ linksAt' = IF links = {e} THEN 0 ELSE linksAt

\* Slip: any page without a status is trusted.
TrustedAtOnce(e, shown) == shown # "running"

\* The page says it is finished, or says nothing and the full floor has passed.
Trusted(e, shown) ==
    \/ shown = "finished"
    \/ shown = "nothing" /\ e \in aged

\* scraped_home_score IS NULL in the UPDATE: a recorded score is never clobbered.
Unrecorded == {"none"}

\* _scrape_one_finished_score: a page shows a status or none at all, and the
\* score as it stands.
ScrapeLink(e, shown) ==
    /\ e \in links
    /\ shown = "finished" => e \in over
    /\ shown = "running" => e \notin over
    /\ scraped' = IF Trusted(e, shown) /\ scraped[e] \in Unrecorded
                  THEN [scraped EXCEPT ![e] = IF e \in over THEN "final" ELSE "partial"]
                  ELSE scraped
    /\ LinkDone(e)
    /\ UNCHANGED <<worldVars, tableVars, pending, cycleVars, desk, faults>>

\* A timeout, an implausible score or the spent budget: retried by a later pass.
DropLink(e) ==
    /\ e \in links
    /\ LinkDone(e)
    /\ UNCHANGED <<worldVars, scraped, tableVars, pending, cycleVars, desk, faults>>

-----------------------------------------------------------------------------
(* ScoreBook.lookup                                                        *)

Exact(book, e, day) == {s \in book : s.name = NameOf[e] /\ s.day = day}

Near(e) == {Day(e), Day(e) - 1, Day(e) + 1}

Contained(book, e) ==
    {s \in book : s.day \in Near(e) /\ <<NameOf[e], s.name>> \in Alike}

\* Slip: two days of skew are tolerated, and an ambiguous containment is resolved.
LookupLoose(book, e) ==
    {s \in book : /\ s.day - Day(e) \in -2 .. 2
                  /\ s.name = NameOf[e] \/ <<NameOf[e], s.name>> \in Alike}

\* What lookup may answer, the empty set standing for None: an exact name on the
\* day, the day before or the day after, in this order, else the one fixture of
\* those days with a name that contains ours or is contained in it.
Lookup(book, e) ==
    IF Exact(book, e, Day(e)) # {} THEN Exact(book, e, Day(e))
    ELSE IF Exact(book, e, Day(e) - 1) # {} THEN Exact(book, e, Day(e) - 1)
    ELSE IF Exact(book, e, Day(e) + 1) # {} THEN Exact(book, e, Day(e) + 1)
    ELSE IF Cardinality(Contained(book, e)) = 1 THEN Contained(book, e)
    ELSE {}

-----------------------------------------------------------------------------
(* Inserting results.                                                      *)

\* Slip: the insertion overwrites what is there.
SettlesUpserting(owner, p, row) ==
    /\ pending[p] = NotInserted
    /\ pending' = [pending EXCEPT ![p] = [owner |-> owner, row |-> row]]

\* A session inserts its row, or finds one committed and leaves the pick as it
\* is; while another session's row is uncommitted it waits.
Settles(owner, p, row) ==
    /\ pending[p] = NotInserted
    /\ pending' = IF result[p] = NoResult
                  THEN [pending EXCEPT ![p] = [owner |-> owner, row |-> row]]
                  ELSE pending

Mine(owner) == {p \in Picks : pending[p].owner = owner}

\* Slip: the status is not flipped with the result.
CommitsResultOnly(owner) ==
    /\ result' = [p \in Picks |-> IF p \in Mine(owner) THEN pending[p].row
                                 ELSE result[p]]
    /\ status' = status
    /\ pending' = [p \in Picks |-> IF p \in Mine(owner) THEN NotInserted
                                  ELSE pending[p]]

\* Result rows and status flips become visible together.
Commits(owner) ==
    /\ result' = [p \in Picks |-> IF p \in Mine(owner) THEN pending[p].row
                                 ELSE result[p]]
    /\ status' = [p \in Picks |-> IF p \in Mine(owner) THEN "settled" ELSE status[p]]
    /\ pending' = [p \in Picks |-> IF p \in Mine(owner) THEN NotInserted
                                  ELSE pending[p]]

RollsBack(owner) ==
    /\ pending' = [p \in Picks |-> IF p \in Mine(owner) THEN NotInserted
                                  ELSE pending[p]]
    /\ UNCHANGED tableVars

-----------------------------------------------------------------------------
(* run_settlement_cycle                                                    *)

\* Outcome void: the stake is returned.
VoidRow == [by |-> "void", game |-> NoGame, final |-> TRUE]

\* What this session's selects see as open.
StillOpen == {p \in Picks : status[p] = "alerted" /\ p \notin Mine("cycle")}

StartedBefore(e, time) == e \in known /\ Kickoff[e] < time

\* Slip: the age is counted from the kickoff, and there is none.
TbdPicksByKickoff ==
    {p \in StillOpen : EventOf[p] \notin known /\ StartedBefore(EventOf[p], now - StaleAge)}

\* void_stale_null_kickoff_picks; every pick is created at time 0.
TbdPicks == {p \in StillOpen : EventOf[p] \notin known /\ 0 < now - StaleAge}

\* Slip: a pick that has a scraped score is voided as well.
OldPicksScoredToo ==
    {p \in StillOpen : StartedBefore(EventOf[p], at - VoidAge)}

\* void_unsettleable_known_kickoff_picks
OldPicks ==
    {p \in StillOpen : /\ StartedBefore(EventOf[p], at - VoidAge)
                       /\ scraped[EventOf[p]] = "none"}

\* settle_open_picks
DuePicks ==
    {p \in StillOpen : /\ EventOf[p] \in known
                       /\ Kickoff[EventOf[p]] <= at - SettleDelay}

\* The cycle's locals are gone with it.
CycleEnds ==
    /\ pc' = "idle" /\ at' = 0 /\ batch' = {}
    /\ feedSeen' = {} /\ scrapedSeen' = {}

BeginCycle ==
    /\ pc = "idle"
    /\ pc' = "voidTbd" /\ at' = now /\ batch' = TbdPicks
    /\ UNCHANGED <<worldVars, scrapeVars, tableVars, pending, feedSeen, scrapedSeen, desk,
                   faults>>

VoidOne(p) ==
    /\ pc \in {"voidTbd", "voidOld"} /\ p \in batch
    /\ Settles("cycle", p, VoidRow)
    /\ batch' = batch \ {p}
    /\ UNCHANGED <<worldVars, scrapeVars, tableVars, pc, at, feedSeen, scrapedSeen,
                   desk, faults>>

VoidOldOnes ==
    /\ pc = "voidTbd" /\ batch = {}
    /\ pc' = "voidOld" /\ batch' = OldPicks
    /\ UNCHANGED <<worldVars, scrapeVars, tableVars, pending, at, feedSeen, scrapedSeen,
                   desk, faults>>

CommitVoids ==
    /\ pc = "voidOld" /\ batch = {}
    /\ Commits("cycle")
    /\ pc' = "load"
    /\ UNCHANGED <<worldVars, scrapeVars, at, batch, feedSeen, scrapedSeen, desk,
                   faults>>

FeedScore(e) ==
    [name |-> FeedNameOf[e], day |-> FeedDay[e], game |-> e, final |-> TRUE]

ScrapedScore(e) ==
    [name |-> NameOf[e], day |-> Day(e), game |-> e, final |-> scraped[e] = "final"]

\* The day a feed must reach back to.
FeedFrom == IF at > ScoreWindow THEN (at - ScoreWindow) \div DayTicks ELSE 0

\* Each source answers with what it has published in the window, or fails.
LoadFeeds(answered) ==
    /\ pc = "load"
    /\ answered \subseteq {e \in feed : FeedDay[e] >= FeedFrom}
    /\ feedSeen' = {FeedScore(e) : e \in answered}
    /\ pc' = "loaded"
    /\ UNCHANGED <<worldVars, scrapeVars, tableVars, pending, at, batch, scrapedSeen,
                   desk, faults>>

\* _load_scraped_finals
ScrapedFinals ==
    {ScrapedScore(e) : e \in {e \in known : /\ OpenPicks(e) # {}
                                            /\ scraped[e] # "none"
                                            /\ Kickoff[e] < at}}

\* Without a score from anywhere the cycle ends.
LoadScraped ==
    /\ pc = "loaded"
    /\ IF feedSeen = {} /\ ScrapedFinals = {}
       THEN CycleEnds
       ELSE /\ scrapedSeen' = ScrapedFinals /\ pc' = "select"
            /\ UNCHANGED <<at, batch, feedSeen>>
    /\ UNCHANGED <<worldVars, scrapeVars, tableVars, pending, desk, faults>>

\* Slip: the scraped scores come first.
PassSourceSwapped(pass) == IF pass = "feedPass" THEN "scrape" ELSE "feed"

\* The feeds are authoritative; scraped scores settle what they leave open.
PassSource(pass) == IF pass = "feedPass" THEN "feed" ELSE "scrape"

Book(source) == IF source = "feed" THEN feedSeen ELSE scrapedSeen

SelectDue(from, pass) ==
    /\ pc = from
    /\ from = "feedPass" => batch = {}
    /\ pc' = pass
    /\ batch' = IF Book(PassSource(pass)) = {} THEN {} ELSE DuePicks
    /\ UNCHANGED <<worldVars, scrapeVars, tableVars, pending, at, feedSeen, scrapedSeen,
                   desk, faults>>

StartPass == SelectDue("select", "feedPass") \/ SelectDue("feedPass", "scrapePass")

GradedRow(by, s) == [by |-> by, game |-> s.game, final |-> s.final]

\* _settle_one: graded by the score found, or left open.
SettleOne(p) ==
    LET source == PassSource(pc)
        found == IF p \in Gradable THEN Lookup(Book(source), EventOf[p]) ELSE {}
    IN  /\ pc \in {"feedPass", "scrapePass"} /\ p \in batch
        /\ batch' = batch \ {p}
        /\ \/ found = {} /\ UNCHANGED pending
           \/ \E s \in found : Settles("cycle", p, GradedRow(source, s))
        /\ UNCHANGED <<worldVars, scrapeVars, tableVars, pc, at, feedSeen, scrapedSeen,
                       desk, faults>>

CommitResults ==
    /\ pc = "scrapePass" /\ batch = {}
    /\ Commits("cycle")
    /\ CycleEnds
    /\ UNCHANGED <<worldVars, scrapeVars, desk, faults>>

\* The session is rolled back, the job logs and ends.
AbandonCycle ==
    /\ RollsBack("cycle")
    /\ CycleEnds
    /\ UNCHANGED <<worldVars, scrapeVars, desk>>

CycleFails ==
    /\ pc # "idle"
    /\ faults < MaxFaults /\ faults' = faults + 1
    /\ AbandonCycle

-----------------------------------------------------------------------------
(* The operator.                                                           *)

DeskEnds == desk' = [desk EXCEPT !.busy = FALSE, !.left = {}]

\* settle_event: the final score of one event, for all its open picks.
SettleEvent(e) ==
    /\ ~desk.busy /\ desk.calls < MaxCalls
    /\ e \in over /\ OpenPicks(e) # {}
    /\ desk' = [busy |-> TRUE, left |-> OpenPicks(e), calls |-> desk.calls + 1]
    /\ UNCHANGED <<worldVars, scrapeVars, tableVars, pending, cycleVars, faults>>

DeskOne(p) ==
    /\ p \in desk.left
    /\ desk' = [desk EXCEPT !.left = @ \ {p}]
    /\ IF p \in Gradable
       THEN Settles("desk", p, [by |-> "desk", game |-> EventOf[p], final |-> TRUE])
       ELSE UNCHANGED pending
    /\ UNCHANGED <<worldVars, scrapeVars, tableVars, cycleVars, faults>>

CommitDesk ==
    /\ desk.busy /\ desk.left = {}
    /\ Commits("desk")
    /\ DeskEnds
    /\ UNCHANGED <<worldVars, scrapeVars, cycleVars, faults>>

AbandonDesk ==
    /\ RollsBack("desk")
    /\ DeskEnds
    /\ UNCHANGED <<worldVars, scrapeVars, cycleVars>>

DeskFails ==
    /\ desk.busy
    /\ faults < MaxFaults /\ faults' = faults + 1
    /\ AbandonDesk

\* record_result upserts: the operator's word replaces any earlier result, on a
\* pick in any state.
RecordResult(p) ==
    /\ pending[p] = NotInserted
    /\ result' = [result EXCEPT ![p] = [by |-> "operator", game |-> NoGame, final |-> TRUE]]
    /\ status' = [status EXCEPT ![p] = "settled"]
    /\ UNCHANGED <<worldVars, scrapeVars, pending, cycleVars, desk, faults>>

\* Each session waits for a row the other has inserted: the database ends one.
Deadlocked ==
    /\ batch # {} /\ \A p \in batch : pending[p].owner = "desk"
    /\ desk.left # {} /\ \A p \in desk.left : pending[p].owner = "cycle"

BreakDeadlock ==
    /\ Deadlocked
    /\ AbandonCycle \/ AbandonDesk
    /\ UNCHANGED faults

-----------------------------------------------------------------------------
World == Tick \/ (\E e \in Events : GameEnds(e) \/ Publish(e) \/ ReportKickoff(e))

Page == \E e \in Events : \E shown \in {"finished", "running", "nothing"} : ScrapeLink(e, shown)

DropPage == \E e \in Events : DropLink(e)

AnyFeed == \E answered \in SUBSET feed : LoadFeeds(answered)

CycleStep ==
    \/ \E p \in Picks : VoidOne(p) \/ SettleOne(p)
    \/ VoidOldOnes \/ CommitVoids
    \/ AnyFeed \/ LoadScraped \/ StartPass
    \/ CommitResults

DeskStep == CommitDesk \/ (\E p \in Picks : DeskOne(p))

Operator ==
    \/ \E e \in Events : SettleEvent(e)
    \/ \E p \in Picks : RecordResult(p)

Next ==
    \/ World
    \/ \E p \in Picks : SupersedePick(p)
    \/ StartScrape \/ Page \/ DropPage
    \/ BeginCycle \/ CycleStep \/ CycleFails
    \/ Operator \/ DeskStep \/ DeskFails
    \/ BreakDeadlock

Spec == Init /\ [][Next]_vars

\* The clock runs, though a transaction stops it for a while; the scheduler
\* starts a cycle again and again, and everything started is carried through.  No
\* source, page or operator need ever answer.
FairSpec ==
    /\ Spec
    /\ WF_vars(\E e \in Events : GameEnds(e))
    /\ SF_vars(Tick)
    /\ WF_vars(DropPage)
    /\ SF_vars(BeginCycle)
    /\ SF_vars(CycleStep) /\ SF_vars(DeskStep) /\ WF_vars(BreakDeadlock)

-----------------------------------------------------------------------------
(* Correctness.                                                            *)

\* A pick is settled exactly when it has a result: rows and flips are committed
\* together whichever session gets there first (engine.py: "Atomic per run").
SettledIffResult ==
    \A p \in Picks : status[p] = "settled" <=> result[p] # NoResult

\* What the operator recorded is never replaced by a void, a feed, a scraped
\* score or the settling of the whole event, even by one that had read the pick
\* as open before the operator spoke.
OperatorStands ==
    [][\A p \in Picks : result[p].by = "operator" => result'[p].by = "operator"]_vars

\* What a fixture's lookup can reach: a name like its own within a day of it.
Reaches(e, name, day) ==
    day \in Near(e) /\ (name = NameOf[e] \/ <<NameOf[e], name>> \in Alike)

\* No other game can be reached from a picked one, in a feed or on its page.
FixturesApart ==
    \A e \in Picked, f \in Events :
        Reaches(e, FeedNameOf[f], FeedDay[f]) \/ Reaches(e, NameOf[f], Day(f)) => f = e

\* A pick graded by itself is graded by the final score of its own game: not by a
\* running score, nor by another game of the same teams.
GradedByOwnFinal ==
    \A p \in Picks : result[p].by \in {"feed", "scrape"} =>
        result[p].game = EventOf[p] /\ result[p].final

\* A scraped score settles only what the feeds the cycle loaded do not reach.
FeedFirst ==
    [][\A p \in Picks : result'[p].by = "scrape" /\ result[p].by # "scrape" =>
            Lookup(feedSeen, EventOf[p]) = {}]_vars

\* A pick of a known kickoff is voided only when no score was captured for its
\* game, although the capturing pass writes while the cycle runs.
NoScoredVoid ==
    [][\A p \in Picks : /\ result'[p].by = "void" /\ result[p].by # "void"
                        /\ EventOf[p] \in known'
                        => scraped'[EventOf[p]] = "none"]_vars

\* The sources in their order: the feed's score before the scraped one, either before
\* the void (settle_open_picks).
ScoresComeFirst == FeedFirst /\ NoScoredVoid

\* No pick awaits its result for ever, whatever the sources do and although
\* cycles fail: settled, superseded or at last voided.
EveryPickCloses == \A p \in Gradable : <>(status[p] # "alerted")

=============================================================================
