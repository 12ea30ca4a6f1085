-------------------------- MODULE Settlement_proofs --------------------------
(***************************************************************************)
(* The results table under the settling job, the desk and the operator,    *)
(* for every choice of picks, events and thresholds.  That a result and    *)
(* the flip of its pick stay together is not inductive: a commit must not  *)
(* land on a result that came in meanwhile.  WaitsClean says why it does   *)
(* not: while a session's row is uncommitted the pick has no result.       *)
(* Then what a result rests on: the score of the pick's own game, and the  *)
(* sources in their order.                                                 *)
(***************************************************************************)
EXTENDS Settlement, TLAPS

WorldOK ==
    /\ now \in 0 .. MaxTime
    /\ known \subseteq Picked /\ over \subseteq Events /\ feed \subseteq Events

ScrapeOK ==
    /\ scraped \in [Events -> {"none", "final", "partial"}]
    /\ links \subseteq Events /\ aged \subseteq Events /\ linksAt \in 0 .. MaxTime

TableOK ==
    /\ status \in [Picks -> {"alerted", "superseded", "settled"}]
    /\ result \in [Picks -> Result \cup {NoResult}]
    /\ pending \in [Picks -> [owner : Actors, row : Result] \cup {NotInserted}]

CycleOK ==
    /\ pc \in {"idle", "voidTbd", "voidOld", "load", "loaded", "select", "feedPass",
               "scrapePass"}
    /\ at \in 0 .. MaxTime
    /\ batch \subseteq Picks
    /\ feedSeen \subseteq Score /\ scrapedSeen \subseteq Score

DeskOK ==
    /\ desk \in [busy : BOOLEAN, left : SUBSET Picks, calls : 0 .. MaxCalls]
    /\ faults \in 0 .. MaxFaults

WaitsClean ==
    \A p \in Picks : pending[p] # NotInserted => result[p] = NoResult

TableInv == TableOK /\ SettledIffResult /\ WaitsClean

IInv == WorldOK /\ ScrapeOK /\ TableInv /\ CycleOK /\ DeskOK

\* What a step may do to the operator's results.
OperatorKept ==
    \A p \in Picks : result[p].by = "operator" => result'[p].by = "operator"

-----------------------------------------------------------------------------
(* The rows.                                                               *)

\* A void row is a result of its own, and a missing row is nobody's.
LEMMA RowFacts ==
    /\ VoidRow \in Result /\ VoidRow.by = "void"
    /\ NoResult \notin Result
    /\ NoResult.by = "nobody"
    /\ \A a \in Actors, r \in Result : [owner |-> a, row |-> r] # NotInserted
    /\ NotInserted.owner \notin Actors
BY DEF VoidRow, Result, Sources, NoResult, NotInserted, Actors

\* The feed and the scrape give scores.
LEMMA ScoresAreScores ==
    ASSUME NEW e \in Events
    PROVE  /\ FeedScore(e) \in Score
           /\ scraped \in [Events -> {"none", "final", "partial"}] => ScrapedScore(e) \in Score
<1>1. Day(e) \in Nat
  BY SettlementAssumption DEF Day
<1>2. FeedDay[e] \in Nat /\ NameOf[e] \in Names /\ FeedNameOf[e] \in Names
  BY SettlementAssumption DEF Names
<1> QED BY <1>1, <1>2 DEF FeedScore, ScrapedScore, Score

\* A score that is looked up is in the book.
LEMMA LookupInBook ==
    ASSUME NEW book, NEW e, NEW s \in Lookup(book, e) PROVE s \in book
BY DEF Lookup, Exact, Contained

-----------------------------------------------------------------------------
(* The sessions' steps on the table.                                       *)

(* Inserting a row touches neither results nor flips.                      *)
LEMMA SettlesKeepsTable ==
    ASSUME TableInv, NEW owner \in Actors, NEW p \in Picks, NEW row \in Result,
           Settles(owner, p, row), UNCHANGED tableVars
    PROVE  TableInv' /\ OperatorKept
<1>1. status' = status /\ result' = result
  BY DEF tableVars
<1>2. CASE result[p] = NoResult
  <2>1. pending' = [pending EXCEPT ![p] = [owner |-> owner, row |-> row]]
    BY <1>2 DEF Settles
  <2> QED BY <1>1, <1>2, <2>1
          DEF TableInv, TableOK, SettledIffResult, WaitsClean, OperatorKept
<1>3. CASE result[p] # NoResult
  <2>1. pending' = pending
    BY <1>3 DEF Settles
  <2> QED BY <1>1, <2>1
          DEF TableInv, TableOK, SettledIffResult, WaitsClean, OperatorKept
<1> QED BY <1>2, <1>3

(* A commit only lands where there is no result yet.                       *)
LEMMA CommitsKeepsTable ==
    ASSUME TableInv, NEW owner \in Actors, Commits(owner)
    PROVE  TableInv' /\ OperatorKept
<1>1. \A p \in Mine(owner) : /\ pending[p].row \in Result
                             /\ result[p] = NoResult
                             /\ pending[p] # NotInserted
  BY RowFacts DEF Mine, TableInv, TableOK, WaitsClean
<1>2. TableOK'
  BY <1>1 DEF Commits, TableInv, TableOK, Mine
<1>3. \A p \in Picks :
         /\ p \in Mine(owner) => status'[p] = "settled" /\ result'[p] \in Result
         /\ p \notin Mine(owner) => status'[p] = status[p] /\ result'[p] = result[p]
         /\ pending'[p] = IF p \in Mine(owner) THEN NotInserted ELSE pending[p]
  BY <1>1 DEF Commits
<1>4. SettledIffResult'
  BY <1>3, RowFacts DEF SettledIffResult, TableInv
<1>5. WaitsClean'
  BY <1>3 DEF WaitsClean, TableInv
<1>6. OperatorKept
  BY <1>1, <1>3, RowFacts DEF OperatorKept
<1> QED BY <1>2, <1>4, <1>5, <1>6 DEF TableInv

\* A rollback leaves the table as it was.
LEMMA RollsBackKeepsTable ==
    ASSUME TableInv, NEW owner, RollsBack(owner)
    PROVE  TableInv' /\ OperatorKept
BY DEF RollsBack, TableInv, TableOK, SettledIffResult, WaitsClean, OperatorKept, tableVars

\* A step beside the table leaves it in order.
LEMMA TableUntouched ==
    ASSUME TableInv, UNCHANGED <<tableVars, pending>>
    PROVE  TableInv' /\ OperatorKept
BY DEF TableInv, TableOK, SettledIffResult, WaitsClean, OperatorKept, tableVars

(* The operator waits for a row in flight, then overwrites and flips.      *)
LEMMA RecordResultKeepsTable ==
    ASSUME TableInv, NEW p \in Picks, RecordResult(p)
    PROVE  TableInv' /\ OperatorKept
<1> DEFINE row == [by |-> "operator", game |-> NoGame, final |-> TRUE]
<1>1. row \in Result /\ row.by = "operator" /\ row # NoResult
  BY DEF Result, Sources, NoResult
<1>2. /\ pending[p] = NotInserted
      /\ result' = [result EXCEPT ![p] = row]
      /\ status' = [status EXCEPT ![p] = "settled"]
      /\ pending' = pending
  BY DEF RecordResult
<1> HIDE DEF row
<1> QED BY <1>1, <1>2
        DEF TableInv, TableOK, SettledIffResult, WaitsClean, OperatorKept

\* Superseding an open pick leaves its result alone.
LEMMA SupersedeKeepsTable ==
    ASSUME TableInv, NEW p \in Picks, SupersedePick(p)
    PROVE  TableInv' /\ OperatorKept
BY DEF SupersedePick, TableInv, TableOK, SettledIffResult, WaitsClean, OperatorKept

-----------------------------------------------------------------------------
(* The steps.                                                              *)

\* What a step leaves alone stays in order.
LEMMA UntouchedVars ==
    /\ UNCHANGED worldVars => (WorldOK' <=> WorldOK)
    /\ UNCHANGED scrapeVars => (ScrapeOK' <=> ScrapeOK)
    /\ UNCHANGED cycleVars => (CycleOK' <=> CycleOK)
    /\ UNCHANGED <<desk, faults>> => (DeskOK' <=> DeskOK)
BY DEF WorldOK, ScrapeOK, CycleOK, DeskOK, worldVars, scrapeVars, cycleVars

\* Games end and feeds answer.
LEMMA WorldStep ==
    ASSUME IInv, World
    PROVE  IInv' /\ OperatorKept
<1>1. WorldOK'
  BY SettlementAssumption
     DEF IInv, WorldOK, World, Tick, GameEnds, Publish, ReportKickoff
<1>2. UNCHANGED <<scrapeVars, tableVars, pending, cycleVars, desk, faults>>
  BY DEF World, Tick, GameEnds, Publish, ReportKickoff
<1> QED BY <1>1, <1>2, UntouchedVars, TableUntouched DEF IInv

\* A scrape begins, reads a page, or drops it.
LEMMA ScrapeStep ==
    ASSUME IInv, StartScrape \/ Page \/ DropPage
    PROVE  IInv' /\ OperatorKept
<1>1. UNCHANGED <<worldVars, tableVars, pending, cycleVars, desk, faults>>
  BY DEF StartScrape, Page, DropPage, ScrapeLink, DropLink
<1>2. ScrapeOK'
  <2>1. CASE StartScrape
    <3>1. known \subseteq Events
      BY SettlementAssumption DEF IInv, WorldOK, Picked
    <3> QED BY <2>1, <3>1 DEF StartScrape, IInv, ScrapeOK, WorldOK
  <2>2. CASE Page
    BY <2>2, SettlementAssumption DEF Page, ScrapeLink, LinkDone, IInv, ScrapeOK
  <2>3. CASE DropPage
    BY <2>3, SettlementAssumption DEF DropPage, DropLink, LinkDone, IInv, ScrapeOK
  <2> QED BY <2>1, <2>2, <2>3
<1> QED BY <1>1, <1>2, UntouchedVars, TableUntouched DEF IInv

\* A pick is superseded.
LEMMA SupersedeStep ==
    ASSUME IInv, NEW p \in Picks, SupersedePick(p)
    PROVE  IInv' /\ OperatorKept
<1>1. UNCHANGED <<worldVars, scrapeVars, cycleVars, desk, faults>>
  BY DEF SupersedePick
<1> QED BY <1>1, UntouchedVars, SupersedeKeepsTable DEF IInv

\* The operator records a result.
LEMMA RecordStep ==
    ASSUME IInv, NEW p \in Picks, RecordResult(p)
    PROVE  IInv' /\ OperatorKept
<1>1. UNCHANGED <<worldVars, scrapeVars, cycleVars, desk, faults>>
  BY DEF RecordResult
<1> QED BY <1>1, UntouchedVars, RecordResultKeepsTable DEF IInv

(* The cycle's steps that only read the tables.                            *)
LEMMA ReadingStep ==
    ASSUME IInv, BeginCycle \/ VoidOldOnes \/ AnyFeed \/ LoadScraped \/ StartPass
    PROVE  IInv' /\ OperatorKept
<1>1. UNCHANGED <<worldVars, scrapeVars, tableVars, pending, desk, faults>>
  BY DEF BeginCycle, VoidOldOnes, AnyFeed, LoadFeeds, LoadScraped, StartPass, SelectDue
<1>2. CycleOK'
  <2>1. StillOpen \subseteq Picks
    BY DEF StillOpen
  <2>2. CASE BeginCycle
    BY <2>1, <2>2 DEF BeginCycle, TbdPicks, IInv, CycleOK, WorldOK
  <2>3. CASE VoidOldOnes
    BY <2>1, <2>3 DEF VoidOldOnes, OldPicks, IInv, CycleOK
  <2>4. CASE AnyFeed
    <3>1. PICK answered \in SUBSET feed : LoadFeeds(answered)
      BY <2>4 DEF AnyFeed
    <3>2. feedSeen' \subseteq Score
      BY <3>1, ScoresAreScores DEF LoadFeeds, IInv, WorldOK
    <3> QED BY <3>1, <3>2 DEF LoadFeeds, IInv, CycleOK
  <2>5. CASE LoadScraped
    <3>1. ScrapedFinals \subseteq Score
      <4>1. known \subseteq Events
        BY SettlementAssumption DEF IInv, WorldOK, Picked
      <4> QED BY <4>1, ScoresAreScores DEF ScrapedFinals, IInv, ScrapeOK
    <3> QED BY <2>5, <3>1, SettlementAssumption
            DEF LoadScraped, CycleEnds, IInv, CycleOK
  <2>6. CASE StartPass
    BY <2>1, <2>6 DEF StartPass, SelectDue, DuePicks, IInv, CycleOK
  <2> QED BY <2>2, <2>3, <2>4, <2>5, <2>6
<1> QED BY <1>1, <1>2, UntouchedVars, TableUntouched DEF IInv

\* A cycle that ends leaves nothing half done.
LEMMA CycleEndsOK ==
    ASSUME CycleEnds PROVE CycleOK'
BY SettlementAssumption DEF CycleEnds, CycleOK

\* A cycle voids one pick.
LEMMA VoidOneStep ==
    ASSUME IInv, NEW p \in Picks, VoidOne(p)
    PROVE  IInv' /\ OperatorKept
<1>1. UNCHANGED <<worldVars, scrapeVars, desk, faults>> /\ UNCHANGED tableVars
  BY DEF VoidOne
<1>2. TableInv' /\ OperatorKept
  <2>1. Settles("cycle", p, VoidRow) /\ "cycle" \in Actors
    BY DEF VoidOne, Actors
  <2> QED BY <1>1, <2>1, RowFacts, SettlesKeepsTable DEF IInv
<1>3. CycleOK'
  BY DEF VoidOne, IInv, CycleOK
<1> QED BY <1>1, <1>2, <1>3, UntouchedVars DEF IInv

\* A cycle settles one pick.
LEMMA SettleOneStep ==
    ASSUME IInv, NEW p \in Picks, SettleOne(p)
    PROVE  IInv' /\ OperatorKept
<1> DEFINE source == PassSource(pc)
           found == IF p \in Gradable THEN Lookup(Book(source), EventOf[p]) ELSE {}
<1>1. UNCHANGED <<worldVars, scrapeVars, desk, faults>> /\ UNCHANGED tableVars
  BY DEF SettleOne
<1>2. TableInv' /\ OperatorKept
  <2>1. CASE UNCHANGED pending
    BY <1>1, <2>1, TableUntouched DEF IInv
  <2>2. CASE \E s \in found : Settles("cycle", p, GradedRow(source, s))
    <3>1. PICK s \in found : Settles("cycle", p, GradedRow(source, s))
      BY <2>2
    <3>2. s \in Lookup(Book(source), EventOf[p])
      BY <3>1
    <3>3. s \in Book(source)
      BY <3>2, LookupInBook
    <3>4. GradedRow(source, s) \in Result
      BY <3>3 DEF IInv, CycleOK, Book, Score, GradedRow, Result, Sources, PassSource
    <3>5. "cycle" \in Actors
      BY DEF Actors
    <3> QED BY <1>1, <3>1, <3>4, <3>5, SettlesKeepsTable DEF IInv
  <2> QED BY <2>1, <2>2 DEF SettleOne
<1>3. CycleOK'
  BY DEF SettleOne, IInv, CycleOK
<1> QED BY <1>1, <1>2, <1>3, UntouchedVars DEF IInv

\* A cycle commits, or fails and rolls back.
LEMMA CycleWritingStep ==
    ASSUME IInv, CommitVoids \/ CommitResults \/ CycleFails
    PROVE  IInv' /\ OperatorKept
<1>1. UNCHANGED <<worldVars, scrapeVars>>
  BY DEF CommitVoids, CommitResults, CycleFails, AbandonCycle
<1>2. DeskOK'
  BY SettlementAssumption
     DEF CommitVoids, CommitResults, CycleFails, AbandonCycle, IInv, DeskOK
<1>3. "cycle" \in Actors
  BY DEF Actors
<1>4. TableInv' /\ OperatorKept
  <2>1. CASE CommitVoids \/ CommitResults
    <3>1. Commits("cycle")
      BY <2>1 DEF CommitVoids, CommitResults
    <3> QED BY <3>1, <1>3, CommitsKeepsTable DEF IInv
  <2>2. CASE CycleFails
    <3>1. RollsBack("cycle")
      BY <2>2 DEF CycleFails, AbandonCycle
    <3> QED BY <3>1, RollsBackKeepsTable DEF IInv
  <2> QED BY <2>1, <2>2
<1>5. CycleOK'
  <2>1. CASE CommitVoids
    BY <2>1 DEF CommitVoids, IInv, CycleOK
  <2>2. CASE CommitResults \/ CycleFails
    <3>1. CycleEnds
      BY <2>2 DEF CommitResults, CycleFails, AbandonCycle
    <3> QED BY <3>1, CycleEndsOK
  <2> QED BY <2>1, <2>2
<1> QED BY <1>1, <1>2, <1>4, <1>5, UntouchedVars DEF IInv

\* The desk commits, fails, or loses a deadlock.
LEMMA DeskWritingStep ==
    ASSUME IInv, CommitDesk \/ DeskFails \/ BreakDeadlock
    PROVE  IInv' /\ OperatorKept
<1>1. UNCHANGED <<worldVars, scrapeVars>>
  BY DEF CommitDesk, DeskFails, BreakDeadlock, AbandonCycle, AbandonDesk
<1>2. DeskOK'
  <2>1. desk' = desk \/ DeskEnds
    BY DEF CommitDesk, DeskFails, BreakDeadlock, AbandonCycle, AbandonDesk
  <2>2. desk' \in [busy : BOOLEAN, left : SUBSET Picks, calls : 0 .. MaxCalls]
    BY <2>1 DEF DeskEnds, IInv, DeskOK
  <2>3. faults' \in 0 .. MaxFaults
    BY SettlementAssumption
       DEF CommitDesk, DeskFails, BreakDeadlock, IInv, DeskOK
  <2> QED BY <2>2, <2>3 DEF DeskOK
<1>3. "desk" \in Actors
  BY DEF Actors
<1>4. TableInv' /\ OperatorKept
  <2>1. CASE CommitDesk
    <3>1. Commits("desk")
      BY <2>1 DEF CommitDesk
    <3> QED BY <3>1, <1>3, CommitsKeepsTable DEF IInv
  <2>2. CASE DeskFails \/ BreakDeadlock
    <3>1. RollsBack("desk") \/ RollsBack("cycle")
      BY <2>2 DEF DeskFails, BreakDeadlock, AbandonDesk, AbandonCycle
    <3> QED BY <3>1, RollsBackKeepsTable DEF IInv
  <2> QED BY <2>1, <2>2
<1>5. CycleOK'
  <2>1. CASE UNCHANGED cycleVars
    BY <2>1, UntouchedVars DEF IInv
  <2>2. CASE CycleEnds
    BY <2>2, CycleEndsOK
  <2> QED BY <2>1, <2>2 DEF CommitDesk, DeskFails, BreakDeadlock, AbandonDesk, AbandonCycle
<1> QED BY <1>1, <1>2, <1>4, <1>5, UntouchedVars DEF IInv

\* The desk takes up an event.
LEMMA SettleEventStep ==
    ASSUME IInv, NEW e \in Events, SettleEvent(e)
    PROVE  IInv' /\ OperatorKept
<1>1. UNCHANGED <<worldVars, scrapeVars, tableVars, pending, cycleVars>>
  BY DEF SettleEvent
<1>2. DeskOK'
  <2>1. OpenPicks(e) \subseteq Picks
    BY DEF OpenPicks
  <2> QED BY <2>1, SettlementAssumption DEF SettleEvent, IInv, DeskOK
<1> QED BY <1>1, <1>2, UntouchedVars, TableUntouched DEF IInv

\* The desk settles one pick.
LEMMA DeskOneStep ==
    ASSUME IInv, NEW p \in Picks, DeskOne(p)
    PROVE  IInv' /\ OperatorKept
<1> DEFINE row == [by |-> "desk", game |-> EventOf[p], final |-> TRUE]
<1>1. UNCHANGED <<worldVars, scrapeVars, cycleVars>> /\ UNCHANGED tableVars
  BY DEF DeskOne
<1>2. TableInv' /\ OperatorKept
  <2>1. row \in Result
    BY SettlementAssumption DEF Result, Sources
  <2>2. "desk" \in Actors
    BY DEF Actors
  <2>3. CASE p \in Gradable
    <3>1. Settles("desk", p, row)
      BY <2>3 DEF DeskOne
    <3> HIDE DEF row
    <3> QED BY <1>1, <2>1, <2>2, <3>1, SettlesKeepsTable DEF IInv
  <2>4. CASE p \notin Gradable
    BY <1>1, <2>4, TableUntouched DEF DeskOne, IInv
  <2> QED BY <2>3, <2>4
<1>3. DeskOK'
  BY DEF DeskOne, IInv, DeskOK
<1> QED BY <1>1, <1>2, <1>3, UntouchedVars DEF IInv

-----------------------------------------------------------------------------
(* Every step, and the theorems.                                           *)

\* Nothing is settled yet.
LEMMA InitIInv == Init => IInv
<1> SUFFICES ASSUME Init PROVE IInv
  OBVIOUS
<1>1. WorldOK /\ ScrapeOK /\ CycleOK /\ DeskOK
  BY SettlementAssumption DEF Init, WorldOK, ScrapeOK, CycleOK, DeskOK
<1>2. TableInv
  BY DEF Init, TableInv, TableOK, SettledIffResult, WaitsClean
<1> QED BY <1>1, <1>2 DEF IInv

\* Every step keeps the invariant and the operator's results.
LEMMA StepIInv ==
    ASSUME IInv, [Next]_vars
    PROVE  IInv' /\ OperatorKept
<1>1. CASE World
  BY <1>1, WorldStep
<1>2. CASE StartScrape \/ Page \/ DropPage
  BY <1>2, ScrapeStep
<1>3. CASE \E p \in Picks : SupersedePick(p)
  BY <1>3, SupersedeStep
<1>4. CASE BeginCycle \/ CycleStep \/ CycleFails
  BY <1>4, ReadingStep, VoidOneStep, SettleOneStep, CycleWritingStep DEF CycleStep
<1>5. CASE Operator
  BY <1>5, SettleEventStep, RecordStep DEF Operator
<1>6. CASE DeskStep \/ DeskFails \/ BreakDeadlock
  BY <1>6, DeskOneStep, DeskWritingStep DEF DeskStep
<1>7. CASE UNCHANGED vars
  BY <1>7, UntouchedVars, TableUntouched DEF vars, IInv
<1> QED BY <1>1, <1>2, <1>3, <1>4, <1>5, <1>6, <1>7 DEF Next

(* The inductive invariant of the settlement tables.                       *)
THEOREM SettlementInvariant == Spec => []IInv
BY InitIInv, StepIInv, PTL DEF Spec

(* Type correctness.                                                       *)
THEOREM SettlementTyped == Spec => []TypeOK
<1>1. IInv => TypeOK
  BY DEF IInv, TypeOK, WorldOK, ScrapeOK, TableInv, TableOK, CycleOK, DeskOK
<1> QED BY <1>1, SettlementInvariant, PTL

(* Rows and flips are together, whatever the number of picks and sources:  *)
(* _settle_one, the voids and record_result (engine.py: "Atomic per run"). *)
THEOREM ResultsMatchFlips == Spec => []SettledIffResult
<1>1. IInv => SettledIffResult
  BY DEF IInv, TableInv
<1> QED BY <1>1, SettlementInvariant, PTL

(* The operator's result is never replaced by the job or the desk.         *)
THEOREM OperatorHasTheLastWord == Spec => OperatorStands
<1>1. IInv /\ [Next]_vars => [OperatorKept]_vars
  BY StepIInv
<1> QED BY <1>1, SettlementInvariant, PTL DEF Spec, OperatorStands, OperatorKept

-----------------------------------------------------------------------------
(* Grading.  That a graded pick was graded by its own final score follows  *)
(* from where scores come from: every score in a book is a final one of a  *)
(* game under that game's own name and day, since a page is believed only  *)
(* when its game is over.                                                  *)

OwnScore(s) ==
    /\ s.final /\ s.game \in Events
    /\ \/ s.name = FeedNameOf[s.game] /\ s.day = FeedDay[s.game]
       \/ s.name = NameOf[s.game] /\ s.day = Day(s.game)

OwnRow(p, row) ==
    row.by \in {"feed", "scrape"} => row.game = EventOf[p] /\ row.final

PagesInv ==
    /\ \A e \in Events : now > Kickoff[e] + FullFloor => e \in over
    /\ aged \subseteq over
    /\ \A e \in Events : scraped[e] # "partial"

BooksInv == \A s \in feedSeen \cup scrapedSeen : OwnScore(s)

RowsInv == \A p \in Picks : OwnRow(p, pending[p].row) /\ OwnRow(p, result[p])

GInv == IInv /\ PagesInv /\ BooksInv /\ RowsInv

(* With the fixtures apart a lookup finds the pick's own game or nothing.  *)
LEMMA LookupFindsOwn ==
    ASSUME FixturesApart, NEW e \in Picked, NEW book, \A s \in book : OwnScore(s),
           NEW s \in Lookup(book, e)
    PROVE  s.game = e /\ s.final
<1>1. OwnScore(s)
  BY LookupInBook
<1>2. Reaches(e, s.name, s.day)
  BY DEF Lookup, Exact, Contained, Near, Reaches
<1>3. s.game \in Events
  BY <1>1 DEF OwnScore
<1>4. s.game = e
  <2>1. CASE s.name = FeedNameOf[s.game] /\ s.day = FeedDay[s.game]
    <3>1. Reaches(e, FeedNameOf[s.game], FeedDay[s.game])
      BY <1>2, <2>1
    <3> QED BY <3>1, <1>3 DEF FixturesApart
  <2>2. CASE s.name = NameOf[s.game] /\ s.day = Day(s.game)
    <3>1. Reaches(e, NameOf[s.game], Day(s.game))
      BY <1>2, <2>2
    <3> QED BY <3>1, <1>3 DEF FixturesApart
  <2> QED BY <1>1, <2>1, <2>2 DEF OwnScore
<1> QED BY <1>1, <1>4 DEF OwnScore

\* Nothing is graded yet.
LEMMA InitGInv == Init => GInv
<1> SUFFICES ASSUME Init PROVE GInv
  OBVIOUS
<1>1. PagesInv
  BY SettlementAssumption DEF Init, PagesInv
<1>2. BooksInv /\ RowsInv
  BY DEF Init, BooksInv, RowsInv, OwnRow, NoResult, NotInserted
<1> QED BY <1>1, <1>2, InitIInv DEF GInv

(* A page is believed when it says finished, or when its game is over.     *)
LEMMA PagesStep ==
    ASSUME IInv, PagesInv, [Next]_vars
    PROVE  PagesInv'
<1> USE SettlementAssumption
<1>1. CASE World
  <2>1. UNCHANGED scrapeVars
    BY <1>1 DEF World, Tick, GameEnds, Publish, ReportKickoff
  <2>2. over \subseteq over'
    BY <1>1 DEF World, Tick, GameEnds, Publish, ReportKickoff
  <2>3. \A e \in Events : now' > Kickoff[e] + FullFloor => e \in over'
    BY <1>1 DEF World, Tick, GameEnds, Publish, ReportKickoff, PagesInv, IInv, WorldOK
  <2> QED BY <2>1, <2>2, <2>3 DEF PagesInv, scrapeVars
<1>2. CASE StartScrape
  <2>1. \A e \in Events : e \in aged' => now > Kickoff[e] + FullFloor
    BY <1>2 DEF StartScrape, IInv, WorldOK
  <2>2. aged' \subseteq Events
    BY <1>2, ScrapeStep DEF IInv, ScrapeOK
  <2> QED BY <1>2, <2>1, <2>2 DEF StartScrape, PagesInv, worldVars
<1>3. CASE Page
  <2>1. PICK e \in Events, shown \in {"finished", "running", "nothing"} :
            ScrapeLink(e, shown)
    BY <1>3 DEF Page
  <2>2. Trusted(e, shown) => e \in over
    BY <2>1 DEF Trusted, ScrapeLink, PagesInv
  <2> QED BY <2>1, <2>2 DEF ScrapeLink, LinkDone, PagesInv, worldVars, IInv, ScrapeOK
<1>4. CASE DropPage
  BY <1>4 DEF DropPage, DropLink, LinkDone, PagesInv, worldVars
<1>5. CASE UNCHANGED <<worldVars, scrapeVars>>
  BY <1>5 DEF PagesInv, worldVars, scrapeVars
<1>6. \/ World \/ StartScrape \/ Page \/ DropPage
      \/ UNCHANGED <<worldVars, scrapeVars>>
  BY DEF Next, vars, SupersedePick, BeginCycle, CycleStep, VoidOne, SettleOne,
         VoidOldOnes, CommitVoids, AnyFeed, LoadFeeds, LoadScraped, StartPass,
         SelectDue, CommitResults, CycleFails, AbandonCycle, Operator, SettleEvent,
         RecordResult, DeskStep, CommitDesk, DeskOne, DeskFails, AbandonDesk,
         BreakDeadlock
<1> QED BY <1>1, <1>2, <1>3, <1>4, <1>5, <1>6

\* Every step keeps the scores in the book the game's own.
LEMMA BooksStep ==
    ASSUME IInv, PagesInv, BooksInv, [Next]_vars
    PROVE  BooksInv'
<1>1. CASE UNCHANGED <<feedSeen, scrapedSeen>>
  BY <1>1 DEF BooksInv, OwnScore
<1>2. CASE CycleEnds
  BY <1>2 DEF CycleEnds, BooksInv
<1>3. CASE AnyFeed
  <2>1. PICK answered \in SUBSET feed : LoadFeeds(answered)
    BY <1>3 DEF AnyFeed
  <2>2. answered \subseteq Events
    BY DEF IInv, WorldOK
  <2>3. \A e \in Events : OwnScore(FeedScore(e))
    BY DEF OwnScore, FeedScore
  <2>4. feedSeen' = {FeedScore(e) : e \in answered} /\ scrapedSeen' = scrapedSeen
    BY <2>1 DEF LoadFeeds
  <2> QED BY <2>2, <2>3, <2>4 DEF BooksInv, OwnScore
<1>4. CASE LoadScraped
  <2>1. known \subseteq Events
    BY SettlementAssumption DEF IInv, WorldOK, Picked
  <2>2. \A e \in Events : scraped[e] # "none" => scraped[e] = "final"
    BY DEF PagesInv, IInv, ScrapeOK
  <2>3. \A s \in ScrapedFinals : OwnScore(s)
    <3>1. \A e \in Events : scraped[e] = "final" => OwnScore(ScrapedScore(e))
      BY DEF ScrapedScore, OwnScore
    <3>2. TAKE s \in ScrapedFinals
    <3>3. PICK e \in known : scraped[e] # "none" /\ s = ScrapedScore(e)
      BY DEF ScrapedFinals
    <3> QED BY <2>1, <2>2, <3>1, <3>3
  <2>4. CASE CycleEnds
    BY <2>4, <1>2
  <2>5. CASE scrapedSeen' = ScrapedFinals /\ feedSeen' = feedSeen
    BY <2>3, <2>5 DEF BooksInv, OwnScore
  <2> QED BY <1>4, <2>4, <2>5 DEF LoadScraped
<1>5. \/ UNCHANGED <<feedSeen, scrapedSeen>> \/ CycleEnds \/ AnyFeed \/ LoadScraped
  BY DEF Next, vars, World, Tick, GameEnds, Publish, ReportKickoff, StartScrape, Page,
         ScrapeLink, DropPage, DropLink, SupersedePick, BeginCycle, CycleStep, VoidOne,
         SettleOne, VoidOldOnes, CommitVoids, StartPass, SelectDue, CommitResults,
         CycleFails, AbandonCycle, Operator, SettleEvent, RecordResult, DeskStep,
         CommitDesk, DeskOne, DeskFails, AbandonDesk, BreakDeadlock, cycleVars
<1> QED BY <1>1, <1>2, <1>3, <1>4, <1>5

(* The rows written: voids, the operator's and the desk's own are not      *)
(* graded by a book; the others come from a lookup.                        *)
LEMMA RowsInsert ==
    ASSUME IInv, RowsInv, NEW owner \in Actors, NEW p \in Picks, NEW row \in Result,
           OwnRow(p, row), Settles(owner, p, row), UNCHANGED tableVars
    PROVE  RowsInv'
<1>1. result' = result
  BY DEF tableVars
<1>2. pending' = pending \/ pending' = [pending EXCEPT ![p] = [owner |-> owner, row |-> row]]
  BY DEF Settles
<1>3. \A q \in Picks : pending'[q].row = pending[q].row \/ (q = p /\ pending'[q].row = row)
  BY <1>2 DEF IInv, TableInv, TableOK
<1>4. \A q \in Picks : OwnRow(q, pending'[q].row)
  BY <1>3 DEF RowsInv, OwnRow
<1>5. \A q \in Picks : OwnRow(q, result'[q])
  BY <1>1 DEF RowsInv, OwnRow
<1> QED BY <1>4, <1>5 DEF RowsInv, OwnRow

\* A commit or a rollback keeps every row graded by its own score.
LEMMA RowsEnd ==
    ASSUME RowsInv, NEW owner, Commits(owner) \/ RollsBack(owner)
    PROVE  RowsInv'
<1>1. NotInserted.row.by = "nobody"
  BY DEF NotInserted, NoResult
<1>2. \A q \in Picks : \/ result'[q] = result[q]
                       \/ result'[q] = pending[q].row
  BY DEF Commits, RollsBack, tableVars
<1>3. \A q \in Picks : pending'[q] = pending[q] \/ pending'[q] = NotInserted
  BY DEF Commits, RollsBack
<1> QED BY <1>1, <1>2, <1>3 DEF RowsInv, OwnRow

\* So does every other step, while fixtures stand apart.
LEMMA RowsStep ==
    ASSUME FixturesApart, IInv, BooksInv, RowsInv, [Next]_vars
    PROVE  RowsInv'
<1>1. CASE UNCHANGED <<result, pending>>
  BY <1>1 DEF RowsInv, OwnRow
<1>2. CASE \E owner \in Actors : Commits(owner) \/ RollsBack(owner)
  BY <1>2, RowsEnd
<1>3. CASE \E p \in Picks : VoidOne(p)
  <2>1. PICK p \in Picks : VoidOne(p)
    BY <1>3
  <2>2. Settles("cycle", p, VoidRow) /\ UNCHANGED tableVars /\ "cycle" \in Actors
    BY <2>1 DEF VoidOne, Actors
  <2>3. OwnRow(p, VoidRow)
    BY RowFacts DEF OwnRow
  <2> QED BY <2>2, <2>3, RowFacts, RowsInsert
<1>4. CASE \E p \in Picks : DeskOne(p)
  <2>1. PICK p \in Picks : DeskOne(p)
    BY <1>4
  <2> DEFINE row == [by |-> "desk", game |-> EventOf[p], final |-> TRUE]
  <2>2. row \in Result /\ OwnRow(p, row) /\ "desk" \in Actors
    BY SettlementAssumption DEF Result, Sources, OwnRow, Actors
  <2>3. UNCHANGED tableVars /\ (UNCHANGED pending \/ Settles("desk", p, row))
    BY <2>1 DEF DeskOne
  <2> HIDE DEF row
  <2>4. CASE UNCHANGED pending
    BY <2>3, <2>4, <1>1 DEF tableVars
  <2>5. CASE Settles("desk", p, row)
    BY <2>2, <2>3, <2>5, RowsInsert
  <2> QED BY <2>3, <2>4, <2>5
<1>5. CASE \E p \in Picks : SettleOne(p)
  <2>1. PICK p \in Picks : SettleOne(p)
    BY <1>5
  <2>2. UNCHANGED tableVars
    BY <2>1 DEF SettleOne
  <2>3. CASE UNCHANGED pending
    BY <2>2, <2>3, <1>1 DEF tableVars
  <2>4. CASE \E s \in Lookup(Book(PassSource(pc)), EventOf[p]) :
                Settles("cycle", p, GradedRow(PassSource(pc), s))
    <3>1. PICK s \in Lookup(Book(PassSource(pc)), EventOf[p]) :
              Settles("cycle", p, GradedRow(PassSource(pc), s))
      BY <2>4
    <3>2. \A r \in Book(PassSource(pc)) : OwnScore(r)
      BY DEF Book, BooksInv
    <3>3. EventOf[p] \in Picked
      BY DEF Picked
    <3>4. s.game = EventOf[p] /\ s.final
      BY <3>2, <3>3, LookupFindsOwn
    <3>5. s \in Book(PassSource(pc))
      BY LookupInBook
    <3>6. GradedRow(PassSource(pc), s) \in Result
      BY <3>5 DEF IInv, CycleOK, Book, Score, GradedRow, Result, Sources, PassSource
    <3>7. OwnRow(p, GradedRow(PassSource(pc), s))
      BY <3>4 DEF OwnRow, GradedRow
    <3>8. "cycle" \in Actors
      BY DEF Actors
    <3> QED BY <2>2, <3>1, <3>6, <3>7, <3>8, RowsInsert
  <2> QED BY <2>1, <2>3, <2>4 DEF SettleOne
<1>6. CASE \E p \in Picks : RecordResult(p)
  <2>1. PICK p \in Picks : RecordResult(p)
    BY <1>6
  <2>2. \A q \in Picks : result'[q] = result[q] \/ result'[q].by = "operator"
    BY <2>1 DEF RecordResult, IInv, TableInv, TableOK
  <2>3. pending' = pending
    BY <2>1 DEF RecordResult
  <2> QED BY <2>2, <2>3 DEF RowsInv, OwnRow
<1>7. \/ UNCHANGED <<result, pending>>
      \/ Commits("cycle") \/ Commits("desk") \/ RollsBack("cycle") \/ RollsBack("desk")
      \/ \E p \in Picks : VoidOne(p) \/ DeskOne(p) \/ SettleOne(p) \/ RecordResult(p)
  BY DEF Next, vars, World, Tick, GameEnds, Publish, ReportKickoff, StartScrape, Page,
         ScrapeLink, DropPage, DropLink, SupersedePick, BeginCycle, CycleStep,
         VoidOldOnes, CommitVoids, AnyFeed, LoadFeeds, LoadScraped, StartPass,
         SelectDue, CommitResults, CycleFails, AbandonCycle, Operator, SettleEvent,
         DeskStep, CommitDesk, DeskFails, AbandonDesk, BreakDeadlock, tableVars
<1>8. "cycle" \in Actors /\ "desk" \in Actors
  BY DEF Actors
<1> QED BY <1>1, <1>2, <1>3, <1>4, <1>5, <1>6, <1>7, <1>8

(* Where no other game of like teams is a day away, no pick is graded by   *)
(* another game, nor by a score still running (ScoreBook.lookup,           *)
(* _scrape_one_finished_score).                                            *)
THEOREM GradedByItsOwnGame ==
    ASSUME FixturesApart
    PROVE  Spec => []GradedByOwnFinal
<1>1. GInv /\ [Next]_vars => GInv'
  BY StepIInv, PagesStep, BooksStep, RowsStep DEF GInv
<1>2. GInv => GradedByOwnFinal
  BY DEF GInv, RowsInv, OwnRow, GradedByOwnFinal
<1> QED BY <1>1, <1>2, InitGInv, PTL DEF Spec

-----------------------------------------------------------------------------
(* The order of the sources.  That a row of the scrape pass is of a pick    *)
(* the feeds do not reach, and a void of a pick without a score, is decided *)
(* when the pick is selected and acted on some awaits later; what makes     *)
(* both decisions stand is kept here.                                       *)

\* What the order needs of the times of the code: a pick is not due at its kickoff, and the last
\* pass that may capture a score ends before the pick is old enough for its void (two hours;
\* fourteen days, ten minutes and fifteen days as shipped: SETTLE_DELAY,
\* results_scrape_window_days, results_scrape_cycle_budget_seconds, STALE_UNSETTLEABLE_AGE).
WindowsApart == SettleDelay > 0 /\ ScrapeWindow + ScrapeBudget <= VoidAge

Unreached(p) == Lookup(feedSeen, EventOf[p]) = {}

\* A pass is of known games that started inside the window, and ends within its budget; a score is
\* of a game that has started.
CaptureInv ==
    /\ links # {} => linksAt <= now /\ now <= linksAt + ScrapeBudget
    /\ \A e \in links : e \in known /\ Kickoff[e] < linksAt /\ Kickoff[e] > linksAt - ScrapeWindow
    /\ \A e \in Events : scraped[e] # "none" => e \in known /\ Kickoff[e] < now

\* A pick the feeds reach leaves the feed pass with a row; what the scrape pass has left, and what
\* it has inserted, they do not reach.
PassesInv ==
    /\ pc # "idle" => at <= now
    /\ pc = "feedPass" => \A p \in DuePicks \cap Gradable : p \in batch \/ Unreached(p)
    /\ pc = "scrapePass" => \A p \in batch \cap Gradable : Unreached(p)
    /\ \A p \in Picks : pending[p].row.by = "scrape" =>
           pending[p].owner = "cycle" /\ pc = "scrapePass" /\ Unreached(p)

\* A game whose pick may be voided is unknown, or has not started, or is past every scrape.
Scoreless(p) ==
    EventOf[p] \in known =>
        \/ now <= Kickoff[EventOf[p]]
        \/ scraped[EventOf[p]] = "none" /\ Kickoff[EventOf[p]] < now - VoidAge

\* No time passes from the selection of a void to its commit.
VoidsInv ==
    /\ pc \in {"voidTbd", "voidOld"} => at = now /\ \A p \in batch : Scoreless(p)
    /\ \A p \in Picks : pending[p].row.by = "void" =>
           pending[p].owner = "cycle" /\ pc \in {"voidTbd", "voidOld"} /\ Scoreless(p)

OrderInv == IInv /\ CaptureInv /\ PassesInv /\ VoidsInv

\* A book of no scores reaches nothing.
LEMMA LookupNothing == ASSUME NEW e PROVE Lookup({}, e) = {}
BY DEF Lookup, Exact, Contained

\* What the rest of the system may do between two awaits of the cycle: time passes only outside its
\* transactions, kickoffs become known before they pass, picks close, other sessions' rows come and
\* go, and pages in the scrape write their scores.
Outside ==
    /\ UNCHANGED cycleVars
    /\ now' \in Nat /\ now <= now' /\ (now' # now => ~InTransaction)
    /\ known \subseteq known' /\ \A e \in known' \ known : now' <= Kickoff[e]
    /\ \A p \in Picks : status'[p] = "alerted" => status[p] = "alerted"
    /\ \A p \in Picks :
         \/ pending'[p] = pending[p]
         \/ /\ pending[p].owner # "cycle" /\ pending'[p].owner # "cycle"
            /\ pending'[p].row.by \notin {"scrape", "void"}
    /\ \A e \in Events : scraped'[e] # scraped[e] => e \in links

\* Another session inserts a row of its own kind.
LEMMA OthersInsert ==
    ASSUME IInv, NEW p \in Picks, NEW row, row.by \notin {"scrape", "void"},
           Settles("desk", p, row), NEW q \in Picks
    PROVE  \/ pending'[q] = pending[q]
           \/ /\ pending[q].owner # "cycle" /\ pending'[q].owner # "cycle"
              /\ pending'[q].row.by \notin {"scrape", "void"}
<1>1. pending' = pending \/ pending' = [pending EXCEPT ![p] = [owner |-> "desk", row |-> row]]
  BY DEF Settles
<1>2. pending[p].owner # "cycle"
  BY DEF Settles, NotInserted
<1>3. pending[q] = pending[q] /\ DOMAIN pending = Picks
  BY DEF IInv, TableInv, TableOK
<1> QED BY <1>1, <1>2, <1>3

\* Another session ends.
LEMMA OthersEnd ==
    ASSUME Commits("desk") \/ RollsBack("desk"), NEW q \in Picks
    PROVE  /\ status'[q] = "alerted" => status[q] = "alerted"
           /\ \/ pending'[q] = pending[q]
              \/ /\ pending[q].owner # "cycle" /\ pending'[q].owner # "cycle"
                 /\ pending'[q].row.by \notin {"scrape", "void"}
<1>1. pending'[q] = IF q \in Mine("desk") THEN NotInserted ELSE pending[q]
  BY DEF Commits, RollsBack
<1>2. NotInserted.owner # "cycle" /\ NotInserted.row.by \notin {"scrape", "void"}
  BY DEF NotInserted, NoResult
<1>3. q \in Mine("desk") => pending[q].owner # "cycle"
  BY DEF Mine
<1>4. status'[q] = "alerted" => status[q] = "alerted"
  BY DEF Commits, RollsBack, tableVars
<1> QED BY <1>1, <1>2, <1>3, <1>4

\* Every step that is not the cycle's own is such a step.
LEMMA OutsideSteps ==
    ASSUME IInv,
           \/ World \/ (\E p \in Picks : SupersedePick(p)) \/ StartScrape \/ Page \/ DropPage
           \/ Operator \/ DeskStep \/ DeskFails \/ AbandonDesk \/ UNCHANGED vars
    PROVE  Outside
<1>t. /\ now \in Nat /\ DOMAIN pending = Picks /\ DOMAIN status = Picks
      /\ DOMAIN scraped = Events /\ MaxTime \in Nat
  BY SettlementAssumption DEF IInv, WorldOK, TableInv, TableOK, ScrapeOK
<1>1. CASE World
  <2>1. UNCHANGED <<scrapeVars, tableVars, pending, cycleVars>>
    BY <1>1 DEF World, Tick, GameEnds, Publish, ReportKickoff
  <2>2. CASE Tick
    BY <2>1, <2>2, <1>t DEF Tick, Outside, scrapeVars, tableVars
  <2>3. CASE \E e \in Events : GameEnds(e) \/ Publish(e) \/ ReportKickoff(e)
    <3>1. /\ now' = now /\ known \subseteq known'
          /\ \A e \in known' \ known : now <= Kickoff[e]
      BY <2>3 DEF GameEnds, Publish, ReportKickoff
    <3> QED BY <2>1, <3>1, <1>t DEF Outside, scrapeVars, tableVars
  <2> QED BY <1>1, <2>2, <2>3 DEF World
<1>2. CASE \E p \in Picks : SupersedePick(p)
  <2>1. UNCHANGED <<worldVars, scrapeVars, cycleVars, pending>>
    BY <1>2 DEF SupersedePick
  <2>2. \A p \in Picks : status'[p] = "alerted" => status[p] = "alerted"
    BY <1>2, <1>t DEF SupersedePick
  <2> QED BY <2>1, <2>2, <1>t DEF Outside, worldVars, scrapeVars
<1>3. CASE StartScrape \/ Page \/ DropPage
  <2>1. UNCHANGED <<worldVars, tableVars, pending, cycleVars>>
    BY <1>3 DEF StartScrape, Page, ScrapeLink, DropPage, DropLink
  <2>2. \A e \in Events : scraped'[e] # scraped[e] => e \in links
    BY <1>3, <1>t DEF StartScrape, Page, ScrapeLink, DropPage, DropLink
  <2> QED BY <2>1, <2>2, <1>t DEF Outside, worldVars, tableVars
<1>4. CASE Operator
  <2>1. UNCHANGED <<worldVars, scrapeVars, cycleVars, pending>>
    BY <1>4 DEF Operator, SettleEvent, RecordResult
  <2>2. \A p \in Picks : status'[p] = "alerted" => status[p] = "alerted"
    BY <1>4, <1>t DEF Operator, SettleEvent, RecordResult, tableVars
  <2> QED BY <2>1, <2>2, <1>t DEF Outside, worldVars, scrapeVars
<1>5. CASE CommitDesk \/ DeskFails \/ AbandonDesk
  <2>1. UNCHANGED <<worldVars, scrapeVars, cycleVars>> /\ (Commits("desk") \/ RollsBack("desk"))
    BY <1>5 DEF CommitDesk, DeskFails, AbandonDesk
  <2> QED BY <2>1, OthersEnd, <1>t DEF Outside, worldVars, scrapeVars
<1>6. CASE \E p \in Picks : DeskOne(p)
  <2>1. PICK p \in Picks : DeskOne(p)
    BY <1>6
  <2> DEFINE row == [by |-> "desk", game |-> EventOf[p], final |-> TRUE]
  <2>2. row.by \notin {"scrape", "void"}
    OBVIOUS
  <2>3. /\ UNCHANGED <<worldVars, scrapeVars, cycleVars, tableVars>>
        /\ Settles("desk", p, row) \/ pending' = pending
    BY <2>1 DEF DeskOne
  <2> HIDE DEF row
  <2>4. \A q \in Picks :
           \/ pending'[q] = pending[q]
           \/ /\ pending[q].owner # "cycle" /\ pending'[q].owner # "cycle"
              /\ pending'[q].row.by \notin {"scrape", "void"}
    BY <2>2, <2>3, OthersInsert
  <2> QED BY <2>3, <2>4, <1>t DEF Outside, worldVars, scrapeVars, tableVars
<1>7. CASE UNCHANGED vars
  BY <1>7, <1>t DEF vars, Outside, worldVars, scrapeVars, tableVars
<1> QED BY <1>1, <1>2, <1>3, <1>4, <1>5, <1>6, <1>7 DEF DeskStep

\* The cycle's own steps leave the world and the pages alone.
LEMMA CycleKeepsWorld ==
    ASSUME BeginCycle \/ CycleStep \/ CycleFails \/ AbandonCycle
    PROVE  UNCHANGED <<worldVars, scrapeVars>>
BY DEF BeginCycle, CycleStep, VoidOne, SettleOne, VoidOldOnes, CommitVoids, AnyFeed, LoadFeeds,
       LoadScraped, StartPass, SelectDue, CommitResults, CycleFails, AbandonCycle

\* A step is the cycle's own or not.
LEMMA StepsSplit ==
    ASSUME [Next]_vars
    PROVE  \/ World \/ (\E p \in Picks : SupersedePick(p)) \/ StartScrape \/ Page \/ DropPage
           \/ Operator \/ DeskStep \/ DeskFails \/ AbandonDesk \/ UNCHANGED vars
           \/ BeginCycle \/ CycleStep \/ CycleFails \/ AbandonCycle
BY DEF Next, BreakDeadlock

\* The pages of a pass stay inside its window, and scores are of games that have started.
LEMMA CaptureStep ==
    ASSUME IInv, CaptureInv, [Next]_vars
    PROVE  CaptureInv'
<1> USE SettlementAssumption
<1>t. /\ now \in Nat /\ linksAt \in Nat /\ links \subseteq Events
      /\ scraped \in [Events -> {"none", "final", "partial"}] /\ \A e \in Events : Kickoff[e] \in Nat
      /\ {SoftFloor, ScrapeWindow, ScrapeBudget} \subseteq Nat
  BY DEF IInv, WorldOK, ScrapeOK
<1>1. CASE World
  <2>1. UNCHANGED scrapeVars /\ known \subseteq known'
    BY <1>1 DEF World, Tick, GameEnds, Publish, ReportKickoff
  <2>2. now' = now \/ (now' = now + 1 /\ (links # {} => now + 1 <= linksAt + ScrapeBudget))
    BY <1>1 DEF World, Tick, GameEnds, Publish, ReportKickoff
  <2> QED BY <2>1, <2>2, <1>t DEF CaptureInv, scrapeVars
<1>2. CASE StartScrape
  <2>1. /\ linksAt' = now /\ scraped' = scraped /\ now' = now /\ known' = known
        /\ \A e \in links' : e \in known /\ Kickoff[e] < now - SoftFloor /\ Kickoff[e] > now - ScrapeWindow
    BY <1>2 DEF StartScrape, worldVars
  <2>2. links' \subseteq Events
    BY <1>2, ScrapeStep DEF IInv, ScrapeOK
  <2> QED BY <2>1, <2>2, <1>t DEF CaptureInv
<1>3. CASE Page \/ DropPage
  <2>1. PICK e \in Events : /\ e \in links /\ LinkDone(e)
                            /\ \A f \in Events : scraped'[f] # scraped[f] => f = e
    BY <1>3, <1>t DEF Page, ScrapeLink, DropPage, DropLink
  <2>2. now' = now /\ known' = known
    BY <1>3 DEF Page, ScrapeLink, DropPage, DropLink, worldVars
  <2>3. links' = links \ {e} /\ (links' # {} => linksAt' = linksAt)
    BY <2>1 DEF LinkDone
  <2>4. e \in known /\ Kickoff[e] < now
    BY <2>1, <1>t DEF CaptureInv
  <2> QED BY <2>1, <2>2, <2>3, <2>4, <1>t DEF CaptureInv
<1>4. CASE UNCHANGED <<worldVars, scrapeVars>>
  BY <1>4 DEF CaptureInv, worldVars, scrapeVars
<1>5. CASE (\E p \in Picks : SupersedePick(p)) \/ Operator \/ DeskStep \/ DeskFails \/ AbandonDesk
  BY <1>5, <1>4
     DEF SupersedePick, Operator, SettleEvent, RecordResult, DeskStep, CommitDesk, DeskOne, DeskFails, AbandonDesk
<1> QED BY <1>1, <1>2, <1>3, <1>4, <1>5, StepsSplit, CycleKeepsWorld DEF vars

\* What a session's insertion does to the rows in flight.
LEMMA CycleInserts ==
    ASSUME IInv, NEW p \in Picks, NEW row, Settles("cycle", p, row), NEW q \in Picks
    PROVE  /\ pending'[q] = pending[q] \/ (q = p /\ pending'[q] = [owner |-> "cycle", row |-> row])
           /\ q = p /\ result[p] = NoResult => pending'[q].owner = "cycle"
           /\ pending[q].owner = "cycle" => pending'[q].owner = "cycle"
<1>1. DOMAIN pending = Picks
  BY DEF IInv, TableInv, TableOK
<1>2. CASE result[p] = NoResult
  <2>1. pending' = [pending EXCEPT ![p] = [owner |-> "cycle", row |-> row]]
    BY <1>2 DEF Settles
  <2> QED BY <1>1, <1>2, <2>1
<1>3. CASE result[p] # NoResult
  <2>1. pending' = pending
    BY <1>3 DEF Settles
  <2> QED BY <1>3, <2>1
<1> QED BY <1>2, <1>3

\* A cycle that commits or rolls back leaves no row of its own in flight.
LEMMA CycleClears ==
    ASSUME PassesInv, VoidsInv, Commits("cycle") \/ RollsBack("cycle"), NEW q \in Picks
    PROVE  pending'[q].row.by \notin {"scrape", "void"}
<1>1. pending'[q] = IF q \in Mine("cycle") THEN NotInserted ELSE pending[q]
  BY DEF Commits, RollsBack
<1>2. NotInserted.row.by \notin {"scrape", "void"}
  BY DEF NotInserted, NoResult
<1>3. pending[q].row.by \in {"scrape", "void"} => q \in Mine("cycle")
  BY DEF PassesInv, VoidsInv, Mine
<1> QED BY <1>1, <1>2, <1>3

\* Nothing outside the cycle makes a pick due, or a row of the cycle's.
LEMMA OutsideKeepsPasses ==
    ASSUME WindowsApart, IInv, PassesInv, Outside
    PROVE  PassesInv'
<1> USE SettlementAssumption
<1>1. UNCHANGED <<pc, at, batch, feedSeen>>
  BY DEF Outside, cycleVars
<1>2. now \in Nat /\ now' \in Nat /\ now <= now' /\ at \in Nat /\ {SettleDelay, MaxTime} \subseteq Nat
  BY DEF IInv, WorldOK, CycleOK, Outside
<1>3. ASSUME pc # "idle", NEW p \in DuePicks' PROVE p \in DuePicks
  <2>1. /\ p \in Picks /\ status'[p] = "alerted" /\ pending'[p].owner # "cycle"
        /\ EventOf[p] \in known' /\ Kickoff[EventOf[p]] <= at - SettleDelay
    BY <1>1, <1>3 DEF DuePicks, StillOpen, Mine
  <2>2. status[p] = "alerted" /\ pending[p].owner # "cycle"
    BY <2>1 DEF Outside
  <2>3. EventOf[p] \in known
    <3>1. at <= now /\ Kickoff[EventOf[p]] \in Nat
      BY <1>3, <2>1 DEF PassesInv
    <3>2. EventOf[p] \notin known => now' <= Kickoff[EventOf[p]]
      BY <2>1 DEF Outside
    <3> QED BY <2>1, <3>1, <3>2, <1>2 DEF WindowsApart
  <2> QED BY <2>1, <2>2, <2>3 DEF DuePicks, StillOpen, Mine
<1>4. \A p \in Picks : Unreached(p)' <=> Unreached(p)
  BY <1>1 DEF Unreached
<1>5. \A p \in Picks : pending'[p].row.by = "scrape" => pending'[p] = pending[p]
  BY DEF Outside
<1>6. (pc # "idle" => at <= now)'
  BY <1>1, <1>2 DEF PassesInv
<1>7. (pc = "feedPass" => \A p \in DuePicks \cap Gradable : p \in batch \/ Unreached(p))'
  <2> SUFFICES ASSUME pc = "feedPass", NEW p \in DuePicks', p \in Gradable
               PROVE  p \in batch \/ Unreached(p)'
    BY <1>1
  <2>1. p \in DuePicks /\ p \in Picks
    BY <1>3 DEF DuePicks, StillOpen
  <2> QED BY <2>1, <1>4 DEF PassesInv
<1>8. (pc = "scrapePass" => \A p \in batch \cap Gradable : Unreached(p))'
  BY <1>1, <1>4 DEF PassesInv, IInv, CycleOK
<1>9. (\A p \in Picks : pending[p].row.by = "scrape" =>
         pending[p].owner = "cycle" /\ pc = "scrapePass" /\ Unreached(p))'
  BY <1>1, <1>4, <1>5 DEF PassesInv
<1> QED BY <1>6, <1>7, <1>8, <1>9 DEF PassesInv

\* The cycle's steps: what the feed pass leaves open is open to the scrape pass only when the feeds
\* do not reach it.
LEMMA CycleKeepsPasses ==
    ASSUME IInv, PassesInv, VoidsInv, BeginCycle \/ CycleStep \/ CycleFails \/ AbandonCycle
    PROVE  PassesInv'
<1>w. now' = now /\ known' = known
  BY CycleKeepsWorld DEF worldVars
<1>n. at \in Nat /\ now \in Nat
  BY SettlementAssumption DEF IInv, CycleOK, WorldOK
<1>1. CASE BeginCycle
  BY <1>1, <1>w, <1>n DEF BeginCycle, PassesInv
<1>2. CASE \E p \in Picks : VoidOne(p)
  <2>1. PICK p \in Picks : VoidOne(p)
    BY <1>2
  <2>2. /\ pc \in {"voidTbd", "voidOld"} /\ pc' = pc /\ at' = at /\ Settles("cycle", p, VoidRow)
    BY <2>1 DEF VoidOne
  <2>3. \A q \in Picks : pending'[q].row.by # "scrape"
    <3> SUFFICES ASSUME NEW q \in Picks PROVE pending'[q].row.by # "scrape"
      OBVIOUS
    <3>1. pending[q].row.by # "scrape"
      BY <2>2 DEF PassesInv
    <3>2. pending'[q] = pending[q] \/ pending'[q] = [owner |-> "cycle", row |-> VoidRow]
      BY <2>2, CycleInserts
    <3> QED BY <3>1, <3>2, RowFacts
  <2> QED BY <2>2, <2>3, <1>w DEF PassesInv
<1>3. CASE VoidOldOnes \/ AnyFeed
  <2>1. /\ pc \in {"voidTbd", "load"} /\ pc' \in {"voidOld", "loaded"} /\ at' = at /\ pending' = pending
    BY <1>3 DEF VoidOldOnes, AnyFeed, LoadFeeds
  <2> QED BY <2>1, <1>w DEF PassesInv
<1>4. CASE LoadScraped
  <2>1. /\ pc = "loaded" /\ pending' = pending
        /\ pc' = "idle" \/ (pc' = "select" /\ at' = at)
    BY <1>4 DEF LoadScraped, CycleEnds
  <2> QED BY <2>1, <1>w DEF PassesInv
<1>5. CASE CommitVoids
  <2>1. /\ pc' = "load" /\ at' = at /\ pc = "voidOld" /\ Commits("cycle")
    BY <1>5 DEF CommitVoids
  <2> QED BY <2>1, <1>w, CycleClears DEF PassesInv
<1>6. CASE CommitResults \/ CycleFails \/ AbandonCycle
  <2>1. pc' = "idle" /\ (Commits("cycle") \/ RollsBack("cycle"))
    BY <1>6 DEF CommitResults, CycleFails, AbandonCycle, CycleEnds
  <2> QED BY <2>1, CycleClears DEF PassesInv
<1>7. CASE SelectDue("select", "feedPass")
  <2>1. /\ pc = "select" /\ pc' = "feedPass" /\ at' = at /\ feedSeen' = feedSeen
        /\ pending' = pending /\ status' = status
        /\ batch' = IF feedSeen = {} THEN {} ELSE DuePicks
    BY <1>7 DEF SelectDue, PassSource, Book, tableVars
  <2>2. DuePicks' = DuePicks
    BY <2>1, <1>w DEF DuePicks, StillOpen, Mine
  <2>3. \A p \in Picks : feedSeen = {} => Unreached(p)'
    BY <2>1, LookupNothing DEF Unreached
  <2>4. \A p \in DuePicks' \cap Gradable : p \in batch' \/ Unreached(p)'
    BY <2>1, <2>2, <2>3 DEF DuePicks, StillOpen
  <2> QED BY <2>1, <2>4, <1>w DEF PassesInv
<1>8. CASE SelectDue("feedPass", "scrapePass")
  <2>1. /\ pc = "feedPass" /\ batch = {} /\ pc' = "scrapePass" /\ at' = at /\ feedSeen' = feedSeen
        /\ pending' = pending /\ batch' \subseteq DuePicks
    BY <1>8 DEF SelectDue
  <2>2. \A p \in batch' \cap Gradable : Unreached(p)
    BY <2>1 DEF PassesInv
  <2>3. \A p : Unreached(p)' <=> Unreached(p)
    BY <2>1 DEF Unreached
  <2> QED BY <2>1, <2>2, <2>3, <1>w DEF PassesInv
<1>9. CASE \E p \in Picks : SettleOne(p)
  <2>1. PICK p \in Picks : SettleOne(p)
    BY <1>9
  <2> DEFINE source == PassSource(pc)
             found == IF p \in Gradable THEN Lookup(Book(source), EventOf[p]) ELSE {}
  <2>2. /\ pc \in {"feedPass", "scrapePass"} /\ p \in batch /\ batch' = batch \ {p} /\ pc' = pc
        /\ at' = at /\ feedSeen' = feedSeen /\ status' = status
        /\ \/ found = {} /\ pending' = pending
           \/ \E s \in found : Settles("cycle", p, GradedRow(source, s))
    BY <2>1 DEF SettleOne, tableVars
  <2>u. \A q : Unreached(q)' <=> Unreached(q)
    BY <2>2 DEF Unreached
  <2>r. \A s : GradedRow(source, s).by = source
    BY DEF GradedRow
  <2>s. source = IF pc = "feedPass" THEN "feed" ELSE "scrape"
    BY DEF PassSource
  <2>f. pc = "feedPass" /\ p \in Gradable => found = Lookup(feedSeen, EventOf[p])
    BY <2>s DEF Book
  <2>g. p \notin Gradable => found = {}
    OBVIOUS
  <2> HIDE DEF found, source
  <2>3. \A q \in Picks : \/ pending'[q] = pending[q]
                         \/ /\ q = p /\ p \in Gradable /\ pending'[q].owner = "cycle"
                            /\ pending'[q].row.by = source
    <3> SUFFICES ASSUME NEW q \in Picks, pending'[q] # pending[q]
                 PROVE  /\ q = p /\ p \in Gradable /\ pending'[q].owner = "cycle"
                        /\ pending'[q].row.by = source
      OBVIOUS
    <3>1. PICK s \in found : Settles("cycle", p, GradedRow(source, s))
      BY <2>2
    <3>2. q = p /\ pending'[q] = [owner |-> "cycle", row |-> GradedRow(source, s)]
      BY <3>1, CycleInserts
    <3> QED BY <3>1, <3>2, <2>r, <2>g
  <2>4. CASE pc = "feedPass"
    <3>1. \A q \in Picks : pending[q].owner = "cycle" => pending'[q].owner = "cycle"
      BY <2>3
    <3>2. DuePicks' \subseteq DuePicks
      BY <3>1, <2>2, <1>w DEF DuePicks, StillOpen, Mine
    <3>3. p \in DuePicks' /\ p \in Gradable => Unreached(p)
      <4>1. CASE found = {}
        BY <4>1, <2>4, <2>f DEF Unreached
      <4>2. CASE \E s \in found : Settles("cycle", p, GradedRow(source, s))
        <5>1. CASE result[p] = NoResult
          <6>1. pending'[p].owner = "cycle"
            BY <4>2, <5>1, CycleInserts
          <6> QED BY <6>1 DEF DuePicks, StillOpen, Mine
        <5>2. CASE result[p] # NoResult
          <6>1. status[p] = "settled"
            BY <5>2 DEF IInv, TableInv, SettledIffResult
          <6> QED BY <6>1, <3>2 DEF DuePicks, StillOpen
        <5> QED BY <5>1, <5>2
      <4> QED BY <2>2, <4>1, <4>2
    <3>4. \A q \in DuePicks' \cap Gradable : q \in batch' \/ Unreached(q)
      BY <3>2, <3>3, <2>2, <2>4 DEF PassesInv
    <3>5. \A q \in Picks : pending'[q].row.by # "scrape"
      BY <2>3, <2>4, <2>s DEF PassesInv
    <3> QED BY <2>2, <2>4, <2>u, <3>4, <3>5, <1>w DEF PassesInv
  <2>5. CASE pc = "scrapePass"
    <3>1. p \in Gradable => Unreached(p)
      BY <2>2, <2>5 DEF PassesInv
    <3>2. \A q \in batch' \cap Gradable : Unreached(q)
      BY <2>2, <2>5 DEF PassesInv
    <3>3. \A q \in Picks : pending'[q].row.by = "scrape" => pending'[q].owner = "cycle" /\ Unreached(q)
      BY <2>3, <3>1 DEF PassesInv
    <3> QED BY <2>2, <2>5, <2>u, <3>2, <3>3, <1>w DEF PassesInv
  <2> QED BY <2>2, <2>4, <2>5
<1> QED BY <1>1, <1>2, <1>3, <1>4, <1>5, <1>6, <1>7, <1>8, <1>9 DEF CycleStep, StartPass

\* Between a void's selection and its commit no pass can capture a score for its game: a game that
\* was unknown has not started, and a game that is old enough is in no pass's window.
LEMMA OutsideKeepsVoids ==
    ASSUME WindowsApart, IInv, CaptureInv, VoidsInv, Outside
    PROVE  VoidsInv'
<1> USE SettlementAssumption
<1>1. UNCHANGED <<pc, at, batch>>
  BY DEF Outside, cycleVars
<1>2. CASE pc \in {"voidTbd", "voidOld"}
  <2>1. now' = now
    BY <1>2 DEF Outside, InTransaction
  <2>2. ASSUME NEW p \in Picks, Scoreless(p) PROVE Scoreless(p)'
    <3> DEFINE e == EventOf[p]
    <3>1. e \in Events /\ Kickoff[e] \in Nat /\ now \in Nat /\ linksAt \in Nat
          /\ {VoidAge, ScrapeWindow, ScrapeBudget} \subseteq Nat
      BY DEF IInv, WorldOK, ScrapeOK
    <3>2. CASE e \in known' /\ e \notin known
      BY <2>1, <3>2 DEF Outside, Scoreless
    <3>3. CASE e \in known /\ scraped[e] = "none" /\ Kickoff[e] < now - VoidAge
      <4>1. e \notin links
        BY <3>1, <3>3 DEF CaptureInv, WindowsApart
      <4>2. scraped'[e] = scraped[e]
        BY <4>1, <3>1 DEF Outside
      <4> QED BY <2>1, <3>3, <4>2 DEF Scoreless
    <3>4. CASE e \in known /\ now <= Kickoff[e]
      BY <2>1, <3>4 DEF Scoreless
    <3> QED BY <2>2, <3>2, <3>3, <3>4 DEF Scoreless
  <2>3. batch \subseteq Picks
    BY DEF IInv, CycleOK
  <2>4. \A p \in Picks : pending'[p].row.by = "void" => pending'[p] = pending[p]
    BY DEF Outside
  <2> QED BY <1>1, <1>2, <2>1, <2>2, <2>3, <2>4 DEF VoidsInv
<1>3. CASE pc \notin {"voidTbd", "voidOld"}
  <2>1. \A p \in Picks : pending'[p].row.by # "void"
    BY <1>3 DEF VoidsInv, Outside
  <2> QED BY <1>1, <1>3, <2>1 DEF VoidsInv
<1> QED BY <1>2, <1>3

\* The cycle voids what it selected.
LEMMA CycleKeepsVoids ==
    ASSUME IInv, PassesInv, VoidsInv, BeginCycle \/ CycleStep \/ CycleFails \/ AbandonCycle
    PROVE  VoidsInv'
<1>w. now' = now /\ known' = known /\ scraped' = scraped
  BY CycleKeepsWorld DEF worldVars, scrapeVars
<1>s. \A p : Scoreless(p)' <=> Scoreless(p)
  BY <1>w DEF Scoreless
<1>1. CASE BeginCycle
  <2>1. /\ pc = "idle" /\ pc' = "voidTbd" /\ at' = now /\ batch' = TbdPicks /\ pending' = pending
    BY <1>1 DEF BeginCycle
  <2>2. \A p \in TbdPicks : Scoreless(p)
    BY DEF TbdPicks, Scoreless
  <2> QED BY <2>1, <2>2, <1>w, <1>s DEF VoidsInv
<1>2. CASE \E p \in Picks : VoidOne(p)
  <2>1. PICK p \in Picks : VoidOne(p)
    BY <1>2
  <2>2. /\ pc \in {"voidTbd", "voidOld"} /\ pc' = pc /\ at' = at /\ Settles("cycle", p, VoidRow)
        /\ p \in batch /\ batch' = batch \ {p}
    BY <2>1 DEF VoidOne
  <2>3. \A q \in Picks : pending'[q].row.by = "void" => pending'[q].owner = "cycle" /\ Scoreless(q)
    <3> SUFFICES ASSUME NEW q \in Picks, pending'[q].row.by = "void"
                 PROVE  pending'[q].owner = "cycle" /\ Scoreless(q)
      OBVIOUS
    <3>1. pending'[q] = pending[q] \/ (q = p /\ pending'[q] = [owner |-> "cycle", row |-> VoidRow])
      BY <2>2, CycleInserts
    <3>2. Scoreless(p)
      BY <2>2 DEF VoidsInv
    <3> QED BY <3>1, <3>2 DEF VoidsInv
  <2> QED BY <2>2, <2>3, <1>w, <1>s DEF VoidsInv
<1>3. CASE VoidOldOnes
  <2>1. /\ pc = "voidTbd" /\ pc' = "voidOld" /\ at' = at /\ batch' = OldPicks /\ pending' = pending
    BY <1>3 DEF VoidOldOnes
  <2>2. \A p \in OldPicks : Scoreless(p)
    <3>1. at = now
      BY <2>1 DEF VoidsInv
    <3> QED BY <3>1 DEF OldPicks, StartedBefore, Scoreless
  <2> QED BY <2>1, <2>2, <1>w, <1>s DEF VoidsInv
<1>4. CASE AnyFeed \/ LoadScraped \/ StartPass
  <2>1. /\ pc \in {"load", "loaded", "select", "feedPass"} /\ pending' = pending
        /\ pc' \in {"idle", "loaded", "select", "feedPass", "scrapePass"}
    BY <1>4 DEF AnyFeed, LoadFeeds, LoadScraped, CycleEnds, StartPass, SelectDue
  <2> QED BY <2>1 DEF VoidsInv
<1>5. CASE CommitVoids \/ CommitResults \/ CycleFails \/ AbandonCycle
  <2>1. pc' \in {"load", "idle"} /\ (Commits("cycle") \/ RollsBack("cycle"))
    BY <1>5 DEF CommitVoids, CommitResults, CycleFails, AbandonCycle, CycleEnds
  <2> QED BY <2>1, CycleClears DEF VoidsInv
<1>6. CASE \E p \in Picks : SettleOne(p)
  <2>1. PICK p \in Picks : SettleOne(p)
    BY <1>6
  <2>2. /\ pc \in {"feedPass", "scrapePass"} /\ pc' = pc
        /\ \/ pending' = pending
           \/ \E s : Settles("cycle", p, GradedRow(PassSource(pc), s))
    BY <2>1 DEF SettleOne
  <2>3. \A q \in Picks : pending'[q].row.by # "void"
    <3> SUFFICES ASSUME NEW q \in Picks PROVE pending'[q].row.by # "void"
      OBVIOUS
    <3>1. pending[q].row.by # "void"
      BY <2>2 DEF VoidsInv
    <3>2. CASE pending' = pending
      BY <3>1, <3>2
    <3>3. CASE \E s : Settles("cycle", p, GradedRow(PassSource(pc), s))
      <4>1. PICK s : Settles("cycle", p, GradedRow(PassSource(pc), s))
        BY <3>3
      <4>2. GradedRow(PassSource(pc), s).by \in {"feed", "scrape"}
        BY DEF GradedRow, PassSource
      <4>3. pending'[q] = pending[q] \/ pending'[q] = [owner |-> "cycle", row |-> GradedRow(PassSource(pc), s)]
        BY <4>1, CycleInserts
      <4> QED BY <3>1, <4>2, <4>3
    <3> QED BY <2>2, <3>2, <3>3
  <2> QED BY <2>2, <2>3 DEF VoidsInv
<1> QED BY <1>1, <1>2, <1>3, <1>4, <1>5, <1>6 DEF CycleStep

\* Nothing is in flight yet.
LEMMA InitOrderInv == Init => OrderInv
<1> SUFFICES ASSUME Init PROVE OrderInv
  OBVIOUS
<1>1. CaptureInv
  BY DEF Init, CaptureInv
<1>2. \A p \in Picks : pending[p].row.by = "nobody"
  BY DEF Init, NotInserted, NoResult
<1>3. PassesInv /\ VoidsInv
  BY <1>2 DEF Init, PassesInv, VoidsInv
<1> QED BY <1>1, <1>3, InitIInv DEF OrderInv

\* Every step keeps the order.
LEMMA StepOrderInv ==
    ASSUME WindowsApart, OrderInv, [Next]_vars
    PROVE  OrderInv'
<1>1. IInv' /\ CaptureInv'
  BY StepIInv, CaptureStep DEF OrderInv
<1>2. CASE BeginCycle \/ CycleStep \/ CycleFails \/ AbandonCycle
  BY <1>1, <1>2, CycleKeepsPasses, CycleKeepsVoids DEF OrderInv
<1>3. CASE \/ World \/ (\E p \in Picks : SupersedePick(p)) \/ StartScrape \/ Page \/ DropPage
           \/ Operator \/ DeskStep \/ DeskFails \/ AbandonDesk \/ UNCHANGED vars
  <2>1. Outside
    BY <1>3, OutsideSteps DEF OrderInv
  <2> QED BY <1>1, <2>1, OutsideKeepsPasses, OutsideKeepsVoids DEF OrderInv
<1> QED BY <1>2, <1>3, StepsSplit

\* A result that appears is the operator's, or was in flight.
LEMMA ResultsLand ==
    ASSUME IInv, [Next]_vars, NEW p \in Picks
    PROVE  \/ result'[p] = result[p] \/ result'[p].by = "operator"
           \/ result'[p] = pending[p].row /\ UNCHANGED <<worldVars, scrapeVars>>
<1>1. CASE UNCHANGED result
  BY <1>1
<1>2. CASE \E owner \in Actors : Commits(owner) /\ UNCHANGED <<worldVars, scrapeVars>>
  BY <1>2 DEF Commits
<1>3. CASE \E q \in Picks : RecordResult(q)
  BY <1>3 DEF RecordResult, IInv, TableInv, TableOK
<1>4. \/ UNCHANGED result
      \/ \E owner \in Actors : Commits(owner) /\ UNCHANGED <<worldVars, scrapeVars>>
      \/ \E q \in Picks : RecordResult(q)
  BY DEF Next, vars, World, Tick, GameEnds, Publish, ReportKickoff, StartScrape, Page,
         ScrapeLink, DropPage, DropLink, SupersedePick, BeginCycle, CycleStep, VoidOne, SettleOne,
         VoidOldOnes, CommitVoids, AnyFeed, LoadFeeds, LoadScraped, StartPass, SelectDue,
         CommitResults, CycleFails, AbandonCycle, Operator, SettleEvent, DeskOne,
         DeskStep, CommitDesk, DeskFails, AbandonDesk, BreakDeadlock, RollsBack, tableVars, Actors
<1> QED BY <1>1, <1>2, <1>3, <1>4

(* While the windows are apart a scraped score settles only what the feeds *)
(* of its cycle do not reach, and no pick with a captured score is voided, *)
(* whatever the picks, books and writers (settle_open_picks,               *)
(* void_unsettleable_known_kickoff_picks, void_stale_null_kickoff_picks).  *)
THEOREM ScoresBeforeVoids ==
    ASSUME WindowsApart
    PROVE  Spec => ScoresComeFirst
<1>1. ASSUME OrderInv, [Next]_vars, NEW p \in Picks
      PROVE  /\ result'[p].by = "scrape" /\ result[p].by # "scrape" => Lookup(feedSeen, EventOf[p]) = {}
             /\ /\ result'[p].by = "void" /\ result[p].by # "void" /\ EventOf[p] \in known'
                => scraped'[EventOf[p]] = "none"
  <2>1. CASE result'[p] = pending[p].row /\ UNCHANGED <<worldVars, scrapeVars>>
    <3>1. pending[p].row.by = "scrape" => Lookup(feedSeen, EventOf[p]) = {}
      BY <1>1 DEF OrderInv, PassesInv, Unreached
    <3>2. pending[p].row.by = "void" /\ EventOf[p] \in known => scraped[EventOf[p]] = "none"
      <4>1. EventOf[p] \in Events /\ Kickoff[EventOf[p]] \in Nat /\ now \in Nat
        BY <1>1, SettlementAssumption DEF OrderInv, IInv, WorldOK
      <4>2. pending[p].row.by = "void" => Scoreless(p)
        BY <1>1 DEF OrderInv, VoidsInv
      <4> QED BY <1>1, <4>1, <4>2 DEF OrderInv, CaptureInv, Scoreless
    <3> QED BY <2>1, <3>1, <3>2 DEF worldVars, scrapeVars
  <2>2. CASE result'[p] = result[p] \/ result'[p].by = "operator"
    BY <2>2
  <2> QED BY <1>1, <2>1, <2>2, ResultsLand DEF OrderInv
<1>2. OrderInv /\ [Next]_vars => OrderInv'
  BY StepOrderInv
<1>3. OrderInv /\ [Next]_vars =>
         [\A p \in Picks : result'[p].by = "scrape" /\ result[p].by # "scrape" =>
            Lookup(feedSeen, EventOf[p]) = {}]_vars
  BY <1>1
<1>4. OrderInv /\ [Next]_vars =>
         [\A p \in Picks : /\ result'[p].by = "void" /\ result[p].by # "void"
                           /\ EventOf[p] \in known'
                           => scraped'[EventOf[p]] = "none"]_vars
  BY <1>1
<1> QED BY <1>2, <1>3, <1>4, InitOrderInv, PTL DEF Spec, ScoresComeFirst, FeedFirst, NoScoredVoid

=============================================================================
