----------------------------- MODULE ClosingPrice -----------------------------
(***************************************************************************)
(* The closing line of one pick (app/clv_trueup.py): every cycle re-prices *)
(* the open pick from the page it has just scraped                         *)
(* (revalidate_open_picks), settlement freezes it and writes the close     *)
(* that the odds history holds (finalize_closing_from_snapshots), and a    *)
(* promotion to the premium tier starts it afresh (persist_pick).          *)
(*                                                                         *)
(* Each writer is a database session of its own: it loads the row, works   *)
(* on what it loaded, and its flush writes only the columns it changed.    *)
(* OwnBook is the soft book the pick is taken at, SharpBook the anchor     *)
(* that prices the fair; a fair is written as the anchor's odds. The odds  *)
(* history appears as what it yields at kickoff: the last odds of every    *)
(* quote and the event's last change (module OddsHistory, CloseIsLastSeen).*)
(***************************************************************************)
EXTENDS Naturals, FiniteSets

CONSTANTS Quotes,                \* the books on the pick's selection
          OwnBook, SharpBook,
          Prices,                \* decimal odds, in ticks
          Pages,                 \* what a scrape may show: odds or none per book
          Kickoff,               \* when the game starts
          MaxTime,               \* bound: the clock
          MaxGap,                \* SNAPSHOT_CLOSE_MAX_GAP
          SettleDelay,           \* SETTLE_DELAY
          MaxCycle,              \* bound: how long a poll cycle lasts
          MaxCloseEdge,          \* CLV_IMPLAUSIBLE_CLOSE_EDGE, in ticks
          FellBackAt             \* anchor odds whose devig falls back

ASSUME ClosingAssumption ==
  /\ IsFiniteSet(Quotes)
  /\ OwnBook \in Quotes /\ SharpBook \in Quotes /\ OwnBook # SharpBook
  /\ Prices \subseteq Nat \ {0} /\ FellBackAt \subseteq Prices
  /\ Pages \subseteq [Quotes -> Prices \cup {0}]
  /\ Kickoff \in Nat /\ MaxTime \in Nat /\ MaxGap \in Nat /\ MaxCloseEdge \in Nat
  /\ SettleDelay \in Nat /\ MaxCycle \in Nat /\ MaxCycle <= SettleDelay

VARIABLES clock,
          page,      \* the snapshots of the running cycle
          history,   \* odds_snapshots as read at kickoff: last odds, last change
          row,       \* the pick's row, or NoRow
          known,     \* Event.starts_at is not NULL
          archive,   \* the matched sharp archive: its last odds and their time
          reval,     \* the re-pricing session
          closer,    \* the session that settles the pick
          byHand,    \* history: closed by the operator before the job could
          raced      \* history: and while another session held the row

closingVars == <<clock, page, history, row, known, archive, reval, closer, byHand, raced>>

Gone   == 0                                  \* the book does not quote it
NoTime == MaxTime + 1
Times  == 0 .. MaxTime
Nothing == [q \in Quotes |-> Gone]

\* A nullable column is a set: {} while NULL, {value} after.
Blank == {}
Column(S) == {Blank} \cup {{x} : x \in S}
NoPage == [kind |-> "none", at |-> NoTime, odds |-> Nothing]
NoArchive == [odds |-> Gone, at |-> NoTime]
NoRow == [status |-> "none"]

\* A row whose columns that re-pricing and settlement fill in are empty. fairAt
\* and fairBy are history: when the odds behind the fair were captured, and by
\* which path.
Unpriced(tier, fill, mint, mintFellBack, closeFellBack) ==
  [status |-> "alerted", tier |-> tier, fill |-> fill, mint |-> mint,
   mintFellBack |-> mintFellBack, fair |-> Gone, clv |-> Blank, indep |-> Blank,
   closeFellBack |-> closeFellBack, cur |-> Blank, edge |-> Blank, snap |-> FALSE,
   closing_odds |-> Gone, fairAt |-> NoTime, fairBy |-> "none"]

Idle == [by |-> "none", row |-> NoRow, known |-> FALSE]

\* "Still value" is never judged at a sharp book, where nobody can bet.
Bettable == (Quotes \ {SharpBook}) \X Prices

Tiers    == {"volume", "premium"}
Statuses == {"alerted", "settled"}
Pick == [status : Statuses, tier : Tiers, fill : Prices, mint : Prices,
         mintFellBack : Column(BOOLEAN), fair : Prices \cup {Gone},
         clv : Column(Prices \X Prices), indep : Column(BOOLEAN),
         closeFellBack : Column(BOOLEAN), cur : Column(Bettable),
         edge : Column(Prices \X Bettable), snap : BOOLEAN,
         closing_odds : Prices \cup {Gone},
         fairAt : Times \cup {NoTime}, fairBy : {"none", "page", "snapshot"}]

ClosingTypeOK ==
  /\ clock \in Times
  /\ page \in [kind : {"none", "cycle", "match"}, at : Times \cup {NoTime}, odds : Pages \cup {Nothing}]
  /\ history \in [odds : [Quotes -> Prices \cup {Gone}], at : Times \cup {NoTime}]
  /\ row \in Pick \cup {NoRow}
  /\ known \in BOOLEAN /\ byHand \in BOOLEAN /\ raced \in BOOLEAN
  /\ archive \in [odds : Prices \cup {Gone}, at : Times \cup {NoTime}]
  /\ reval \in [by : {"none", "page"}, row : Pick \cup {NoRow}, known : BOOLEAN]
  /\ closer \in [by : {"none", "job", "desk", "record"}, row : Pick \cup {NoRow},
                 known : BOOLEAN]

ClosingInit ==
  /\ clock = 0
  /\ page = NoPage
  /\ history = [odds |-> Nothing, at |-> NoTime]
  /\ row = NoRow
  /\ known \in BOOLEAN
  /\ archive = NoArchive
  /\ reval = Idle /\ closer = Idle
  /\ byHand = FALSE /\ raced = FALSE

-----------------------------------------------------------------------------
(* What a writer computes from the row it loaded *)

\* Odds that beat the fair by more than the ceiling are a mispriced close.
Implausible(fill, fair) == fill > fair + MaxCloseEdge

\* Slip: the fallback takes the best book, a sharp one included.
SlipBestSoft(odds) ==
  LET quoting == {q \in Quotes : odds[q] # Gone}
  IN  IF quoting = {} THEN Blank
      ELSE LET best == CHOOSE q \in quoting : \A r \in quoting : odds[q] >= odds[r]
           IN  {<<best, odds[best]>>}

\* _best_soft_book: the best quote of a soft book, never the anchor's own.
BestSoft(odds) ==
  LET shown == {q \in Quotes \ {SharpBook} : odds[q] # Gone}
  IN  IF shown = {} THEN Blank
      ELSE LET best == CHOOSE q \in shown : \A r \in shown : odds[q] >= odds[r]
           IN  {<<best, odds[best]>>}

\* The pick's own book when it still quotes, else the best soft one.
CurrentPrice(odds) ==
  IF odds[OwnBook] # Gone THEN {<<OwnBook, odds[OwnBook]>>} ELSE BestSoft(odds)

\* _consistent_current_edge.
ConsistentEdge(r, fair) == {<<fair, price>> : price \in r.cur}

\* The two verdicts on a fair: the close says more than the mint did, and
\* its devig fell back.
Independent(fair, mint) == IF fair # mint THEN {TRUE} ELSE {FALSE}
FellBack(fair) == IF fair \in FellBackAt THEN {TRUE} ELSE {FALSE}

\* The columns every fair is written with.
WithFair(r, fair, at, by) ==
  [r EXCEPT !.fair = fair, !.clv = {<<r.fill, fair>>},
            !.indep = Independent(fair, r.mint), !.closeFellBack = FellBack(fair),
            !.fairAt = at, !.fairBy = by, !.edge = ConsistentEdge(r, fair)]

\* One pick of revalidate_open_picks, priced from the page.
Repriced(r) ==
  LET fair  == page.odds[SharpBook]
      price == CurrentPrice(page.odds)
      done  == WithFair(r, fair, IF reval.known THEN page.at ELSE NoTime, "page")
  IN  IF fair = Gone \/ Implausible(r.fill, fair) THEN r
      ELSE IF price = Blank THEN done
           ELSE [done EXCEPT !.cur = price, !.edge = {<<fair, p>> : p \in price}]

Fresh(at) == at # NoTime /\ Kickoff - at <= MaxGap

\* The odds at close: the history's when the event was still scraped near the
\* kickoff, and over them the matched sharp archive's, be it fresh or not.
CloseOdds ==
  [q \in Quotes |->
     IF q = SharpBook /\ archive # NoArchive THEN archive.odds
     ELSE IF Fresh(history.at) THEN history.odds[q] ELSE Gone]

CloseCapturedAt ==
  IF archive # NoArchive THEN archive.at ELSE history.at

\* finalize_closing_from_snapshots: no coverage, no anchor or an implausible
\* fair leaves the row as it is.
Finalized(r) ==
  LET fair  == CloseOdds[SharpBook]
      price == CurrentPrice(CloseOdds)
      done  == [WithFair(r, fair, CloseCapturedAt, "snapshot") EXCEPT !.snap = TRUE]
  IN  IF \/ ~closer.known
         \/ ~Fresh(history.at) /\ ~Fresh(archive.at)
         \/ fair = Gone
         \/ Implausible(r.fill, fair)
      THEN r
      ELSE IF price = Blank THEN done
           ELSE [done EXCEPT !.closing_odds = (CHOOSE p \in price : TRUE)[2]]

\* A flush writes the columns whose value the session changed, and no others.
Flushed(loaded, new) ==
  [c \in DOMAIN row |-> IF new[c] # loaded[c] THEN new[c] ELSE row[c]]

-----------------------------------------------------------------------------
(* The poll cycle *)

\* A quote of the page that differs from the last odds known of it.
Moved(odds) == {q \in Quotes : odds[q] # Gone /\ odds[q] # history.odds[q]}

\* A cycle scrapes the event and learns its kickoff if the page has it; then it
\* stores what changed, unless the write fails.
Scrape(odds) ==
  /\ page.kind = "none"
  /\ page.at = NoTime \/ page.at < clock
  /\ odds # Nothing
  /\ page' = [kind |-> "cycle", at |-> clock, odds |-> odds]
  /\ known' \in {known, TRUE}
  /\ \/ UNCHANGED history
     \/ /\ clock <= Kickoff /\ Moved(odds) # {}
        /\ history' = [odds |-> [q \in Quotes |-> IF q \in Moved(odds) THEN odds[q]
                                                  ELSE history.odds[q]],
                       at |-> clock]
  /\ UNCHANGED <<clock, row, archive, reval, closer, byHand, raced>>

\* An off-window match page is priced from directly and never stored.
ScrapeMatchPage(odds) ==
  /\ page.kind = "none"
  /\ page.at = NoTime \/ page.at < clock
  /\ page' = [kind |-> "match", at |-> clock, odds |-> odds]
  /\ UNCHANGED <<clock, history, row, known, archive, reval, closer, byHand, raced>>

CycleEnds ==
  /\ page.kind # "none" /\ reval = Idle
  /\ page' = [NoPage EXCEPT !.at = page.at]
  /\ UNCHANGED <<clock, history, row, known, archive, reval, closer, byHand, raced>>

\* A detection has an edge over the anchor's fair, on a game that had not started
\* when the cycle took its time.
Mintable ==
  /\ page.kind = "cycle" /\ reval = Idle
  /\ ~known \/ page.at < Kickoff
  /\ page.odds[SharpBook] # Gone /\ page.odds[OwnBook] > page.odds[SharpBook]

\* persist_pick writes the row.
Mint ==
  /\ Mintable
  /\ row = NoRow
  /\ \E tier \in Tiers :
       row' = Unpriced(tier, page.odds[OwnBook], page.odds[SharpBook],
                       FellBack(page.odds[SharpBook]), Blank)
  /\ UNCHANGED <<clock, page, history, known, archive, reval, closer, byHand, raced>>

\* Slip: the promotion keeps the verdicts on the old fill.
SlipPromote ==
  /\ Mintable
  /\ row # NoRow /\ row.status = "alerted" /\ row.tier = "volume"
  /\ row' = [row EXCEPT !.tier = "premium", !.fill = page.odds[OwnBook],
                        !.mint = page.odds[SharpBook]]
  /\ UNCHANGED <<clock, page, history, known, archive, reval, closer, byHand, raced>>

\* persist_pick promotes the open shadow row to this detection's numbers. The
\* verdicts on the old fill are cleared; two columns are not.
Promote ==
  /\ Mintable
  /\ row # NoRow /\ row.status = "alerted" /\ row.tier = "volume"
  /\ row' = Unpriced("premium", page.odds[OwnBook], page.odds[SharpBook],
                     row.mintFellBack, row.closeFellBack)
  /\ UNCHANGED <<clock, page, history, known, archive, reval, closer, byHand, raced>>

\* Slip: picks of games under way are re-priced too.
SlipRevalidateLoad ==
  /\ page.kind # "none" /\ reval = Idle
  /\ row # NoRow /\ row.status = "alerted"
  /\ reval' = [by |-> "page", row |-> row, known |-> known]
  /\ UNCHANGED <<clock, page, history, row, known, archive, closer, byHand, raced>>

\* revalidate_open_picks selects the open picks of games that have not started.
RevalidateLoad ==
  /\ page.kind # "none" /\ reval = Idle
  /\ row # NoRow /\ row.status = "alerted"
  /\ ~known \/ Kickoff > clock
  /\ reval' = [by |-> "page", row |-> row, known |-> known]
  /\ UNCHANGED <<clock, page, history, row, known, archive, closer, byHand, raced>>

\* Its commit.
RevalidateFlush ==
  /\ reval # Idle
  /\ row' = Flushed(reval.row, Repriced(reval.row))
  /\ reval' = Idle
  /\ UNCHANGED <<clock, page, history, known, archive, closer, byHand, raced>>

\* The archive job captures the sharp book's line.
CaptureArchive ==
  /\ clock <= Kickoff
  /\ \E odds \in Pages :
       /\ odds[SharpBook] # Gone
       /\ archive' = [odds |-> odds[SharpBook], at |-> clock]
  /\ UNCHANGED <<clock, page, history, row, known, reval, closer, byHand, raced>>

-----------------------------------------------------------------------------
(* Closing the pick *)

\* When the settle job takes a pick.
Over == known /\ Kickoff + SettleDelay <= clock

SettleLoad(by) ==
  /\ closer = Idle
  /\ row # NoRow /\ row.status = "alerted"
  /\ closer' = [by |-> by, row |-> row, known |-> known]
  /\ UNCHANGED <<clock, page, history, row, known, archive, reval, byHand, raced>>

\* Slip: the job takes a pick as soon as its game has begun.
SlipJobLoad == known /\ Kickoff <= clock /\ SettleLoad("job")

\* settle_open_picks: games that are long over.
JobLoad == Over /\ SettleLoad("job")

\* settle_event_picks: the event the operator names, at any time.
DeskLoad == SettleLoad("desk")

\* The result row, the flip and the close in one commit, unless another
\* session has settled the pick meanwhile.
SettleCommit ==
  /\ closer.by \in {"job", "desk"}
  /\ \/ /\ row.status = "settled"
        /\ UNCHANGED <<row, byHand, raced>>
     \/ /\ row.status = "alerted"
        /\ row' = Flushed(closer.row, Finalized([closer.row EXCEPT !.status = "settled"]))
        /\ byHand' = (closer.by = "desk" /\ ~Over)
        /\ raced' = (raced \/ reval # Idle \/ (closer.known /\ row # closer.row))
  /\ closer' = Idle
  /\ UNCHANGED <<clock, page, history, known, archive, reval>>

\* record_result commits the operator's result first ...
RecordResult ==
  /\ closer = Idle
  /\ row # NoRow
  /\ row' = [row EXCEPT !.status = "settled"]
  /\ byHand' = (byHand \/ (row.status = "alerted" /\ ~Over))
  /\ raced' = (raced \/ reval # Idle)
  /\ closer' = [by |-> "record", row |-> row', known |-> known]
  /\ UNCHANGED <<clock, page, history, known, archive, reval>>

\* ... and then, best effort, the close, on the row it loaded at its start.
RecordFinalize ==
  /\ closer.by = "record"
  /\ \/ row' = Flushed(closer.row, Finalized(closer.row))
     \/ UNCHANGED row
  /\ closer' = Idle
  /\ UNCHANGED <<clock, page, history, known, archive, reval, byHand, raced>>

\* A new process: the open sessions are rolled back.
Restart ==
  /\ page' = [NoPage EXCEPT !.at = page.at]
  /\ reval' = Idle /\ closer' = Idle
  /\ UNCHANGED <<clock, history, row, known, archive, byHand, raced>>

\* No closing session is open for as long as a tick, and no cycle, re-pricing
\* included, for longer than MaxCycle.
Tick ==
  /\ clock < MaxTime
  /\ closer = Idle
  /\ page.kind # "none" => clock - page.at < MaxCycle
  /\ clock' = clock + 1
  /\ UNCHANGED <<page, history, row, known, archive, reval, closer, byHand, raced>>

ClosingNext ==
  \/ \E odds \in Pages : Scrape(odds) \/ ScrapeMatchPage(odds)
  \/ Mint \/ Promote \/ RevalidateLoad \/ RevalidateFlush \/ CycleEnds
  \/ CaptureArchive
  \/ JobLoad \/ DeskLoad \/ SettleCommit \/ RecordResult \/ RecordFinalize
  \/ Restart \/ Tick

ClosingSpec == ClosingInit /\ [][ClosingNext]_closingVars

-----------------------------------------------------------------------------
(* Properties *)

Priced == row # NoRow /\ row.fair # Gone

Line(r) == <<r.fair, r.clv, r.indep, r.closeFellBack, r.closing_odds>>

\* A pick that the settle job could have closed by then keeps its closing line,
\* however long the last re-pricing of it takes to commit: the one thing that
\* may still be written is the close from the odds history.
FrozenOnceClosed ==
  [][ (row # NoRow /\ row.status = "settled" /\ ~byHand /\ Line(row') # Line(row))
        => row'.fairBy = "snapshot" ]_closingVars

\* No in-play price poses as a close, on a game whose kickoff was known.
NoInPlayClose == Priced /\ row.fairAt # NoTime => row.fairAt <= Kickoff

\* The closing columns are of one observation and of the fill that is on the
\* row, through promotions, restarts and sessions that overlap; fair and edge
\* differ by the price on the row (app/clv_trueup.py:93-100). There is one way
\* past it, though settled picks are said to be frozen (app/clv_trueup.py:8):
\* the operator settles the pick before the job could, and either a re-pricing
\* of it is open or the row has been written since the operator's session
\* loaded it (one that knows the kickoff, and so writes a close). The later
\* flush then mixes its columns with the earlier ones. A close by hand that
\* nothing overlaps, and any close by the job, does not.
LineIsOfThisFill ==
  /\ raced => byHand
  /\ Priced /\ ~raced =>
       /\ row.clv = {<<row.fill, row.fair>>}
       /\ row.indep = Independent(row.fair, row.mint)
       /\ row.closeFellBack = FellBack(row.fair)
       /\ row.edge = ConsistentEdge(row, row.fair)

=============================================================================
