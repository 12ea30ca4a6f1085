-------------------------- MODULE ClosingPrice_proofs --------------------------
(***************************************************************************)
(* Proofs about the closing line (module ClosingPrice): for every set of   *)
(* books, prices and pages and every delay, the line is of the fill on the *)
(* row, no in-play price poses as a close, and a closed line is frozen.    *)
(*                                                                         *)
(* The argument is about sessions. A session holds the row as it loaded it *)
(* and flushes later, so an invariant has to say that what it loaded is    *)
(* still what the row says wherever that matters: a cycle lasts no longer  *)
(* than the settle delay, so once the game is over no re-pricing is open   *)
(* and no detection of the cycle can mint or promote.                      *)
(***************************************************************************)
EXTENDS ClosingPrice, FiniteSetTheorems, WellFoundedInduction, TLAPS

-----------------------------------------------------------------------------
(* The inductive invariant *)

\* The odds behind the fair of a row were captured before the game.
CapturedInTime(r) == r.fairAt = NoTime \/ r.fairAt <= Kickoff

\* The line of a row is of one observation and of its own fill.
OfItsFill(r) ==
  r.fair # Gone =>
    /\ r.clv = {<<r.fill, r.fair>>}
    /\ r.indep = Independent(r.fair, r.mint)
    /\ r.closeFellBack = FellBack(r.fair)
    /\ r.edge = ConsistentEdge(r, r.fair)

\* Nothing is captured after the kickoff, and a cycle ends in time.
CapturesInv ==
  /\ history.at = NoTime \/ history.at <= Kickoff
  /\ archive.at = NoTime \/ archive.at <= Kickoff
  /\ page.kind # "none" => page.at <= clock /\ clock - page.at <= MaxCycle

RowInv ==
  /\ row # NoRow => CapturedInTime(row) /\ (~raced => OfItsFill(row))
  /\ row # NoRow /\ row.status = "settled" /\ ~byHand => Over
  /\ byHand => row # NoRow /\ row.status = "settled"
  /\ raced => byHand

\* An open re-pricing belongs to the running cycle, which began before the game;
\* the row it loaded is the row, unless the operator has closed it meanwhile.
RevalInv ==
  reval # Idle =>
    /\ page.kind # "none" /\ row # NoRow
    /\ reval.row \in Pick /\ CapturedInTime(reval.row)
    /\ reval.row.status = "alerted"
    /\ reval.known = known /\ (known => page.at < Kickoff)
    /\ raced \/ row = reval.row

\* An open closing session: the job's began when the game was over, and what any
\* of them loaded is the row, if the game was over and the close is not the
\* operator's, or if it is and nothing overlapped it.
CloserInv ==
  closer # Idle =>
    /\ row # NoRow
    /\ closer.row \in Pick /\ CapturedInTime(closer.row)
    /\ closer.known => known
    /\ closer.by = "job" => Over /\ closer.known
    /\ row.status = closer.row.status
    /\ closer.by = "record" => row.status = "settled"
    /\ closer.by \in {"job", "desk"} => row.status = "alerted"
    /\ closer.known /\ Over /\ ~byHand => row = closer.row
    /\ closer.by = "record" /\ ~raced => row = closer.row

ClosingInv == ClosingTypeOK /\ CapturesInv /\ RowInv /\ RevalInv /\ CloserInv

-----------------------------------------------------------------------------
(* The prices of a selection *)

\* A non-empty family of finite sets has a member with no smaller one in it.
LEMMA LeastSubset ==
  ASSUME NEW U, NEW Bad \in SUBSET FiniteSubsetsOf(U), Bad # {}
  PROVE  \E S \in Bad : \A T \in Bad : T \subseteq S => T = S
<1>1. IsWellFoundedOn(StrictSubsetOrdering(U), FiniteSubsetsOf(U))
  BY FS_StrictSubsetOrderingWellFounded
<1>2. PICK S \in Bad : \A T \in Bad : ~ (<<T, S>> \in StrictSubsetOrdering(U))
  BY <1>1, WFMin
<1>3. ASSUME NEW T \in Bad, T \subseteq S PROVE T = S
  <2>1. T \in SUBSET U /\ S \in SUBSET U BY DEF FiniteSubsetsOf
  <2> QED BY <1>2, <1>3, <2>1 DEF StrictSubsetOrdering
<1> QED BY <1>3

\* Some quote is the best.
LEMMA BestQuote ==
  ASSUME NEW odds \in [Quotes -> Nat], NEW S \in SUBSET Quotes, S # {}
  PROVE  \E q \in S : \A r \in S : odds[q] >= odds[r]
<1> DEFINE Bad == {X \in FiniteSubsetsOf(Quotes) :
                     X # {} /\ ~\E q \in X : \A r \in X : odds[q] >= odds[r]}
<1>1. SUFFICES ASSUME Bad # {} PROVE FALSE
  <2>1. S \in FiniteSubsetsOf(Quotes)
    BY FS_Subset, ClosingAssumption DEF FiniteSubsetsOf
  <2> QED BY <2>1
<1>2. Bad \in SUBSET FiniteSubsetsOf(Quotes) OBVIOUS
<1>3. PICK X \in Bad : \A Y \in Bad : Y \subseteq X => Y = X
  <2> HIDE DEF Bad
  <2> QED BY <1>1, <1>2, LeastSubset
<1>4. PICK x \in X : TRUE OBVIOUS
<1>5. /\ X \ {x} \in FiniteSubsetsOf(Quotes)
      /\ \A q \in X : odds[q] \in Nat
  BY FS_RemoveElement DEF FiniteSubsetsOf
<1>6. CASE X \ {x} = {}
  <2>1. X = {x} BY <1>4, <1>6
  <2> QED BY <2>1, <1>5
<1>7. CASE X \ {x} # {}
  <2>1. X \ {x} \notin Bad BY <1>3, <1>4
  <2>2. PICK q \in X \ {x} : \A r \in X \ {x} : odds[q] >= odds[r]
    BY <2>1, <1>5, <1>7
  <2>3. \A r \in X : r = x \/ r \in X \ {x} OBVIOUS
  <2>4. CASE odds[q] >= odds[x]
    <3>1. \A r \in X : odds[q] >= odds[r] BY <2>2, <2>3, <2>4
    <3> QED BY <3>1
  <2>5. CASE odds[x] >= odds[q]
    <3>1. \A r \in X : odds[x] >= odds[r] BY <2>2, <2>3, <2>5, <1>5
    <3> QED BY <3>1
  <2> QED BY <2>4, <2>5, <1>5
<1> QED BY <1>6, <1>7

\* The columns: a value fills one, and the two verdicts are values.
LEMMA FilledColumn == ASSUME NEW S, NEW x \in S PROVE {x} \in Column(S)
BY DEF Column

\* Both verdicts on a close are there or missing, as their columns are.
LEMMA VerdictColumns ==
  ASSUME NEW fair, NEW mint
  PROVE  /\ FellBack(fair) \in Column(BOOLEAN)
         /\ Independent(fair, mint) \in Column(BOOLEAN)
<1>1. FellBack(fair) = {TRUE} \/ FellBack(fair) = {FALSE} BY DEF FellBack
<1>2. Independent(fair, mint) = {TRUE} \/ Independent(fair, mint) = {FALSE}
  BY DEF Independent
<1>3. {TRUE} \in Column(BOOLEAN) /\ {FALSE} \in Column(BOOLEAN) BY Zenon DEF Column
<1> QED BY <1>1, <1>2, <1>3

\* What a page or the close shows of every book.
Shown == [Quotes -> Prices \cup {Gone}]

\* The current price is of a book where one can bet.
LEMMA CurrentPriceIsBettable ==
  ASSUME NEW odds \in Shown
  PROVE  CurrentPrice(odds) \in Column(Bettable)
<1> DEFINE shown == {q \in Quotes \ {SharpBook} : odds[q] # Gone}
<1>1. \A q \in Quotes \ {SharpBook} : odds[q] # Gone => <<q, odds[q]>> \in Bettable
  BY DEF Shown, Bettable
<1>2. CASE odds[OwnBook] # Gone
  <2>1. <<OwnBook, odds[OwnBook]>> \in Bettable BY <1>1, <1>2, ClosingAssumption
  <2> QED BY <2>1, <1>2, FilledColumn DEF CurrentPrice
<1>3. CASE odds[OwnBook] = Gone
  <2>1. CurrentPrice(odds) = BestSoft(odds) BY <1>3 DEF CurrentPrice
  <2>2. CASE shown = {} BY <2>1, <2>2 DEF BestSoft, Column
  <2>3. CASE shown # {}
    <3>1. odds \in [Quotes -> Nat]
      <4>1. Prices \cup {Gone} \subseteq Nat BY ClosingAssumption DEF Gone
      <4> QED BY <4>1 DEF Shown
    <3>2. shown \in SUBSET Quotes OBVIOUS
    <3>3. \E q \in shown : \A r \in shown : odds[q] >= odds[r]
      <4> HIDE DEF shown
      <4> QED BY <2>3, <3>1, <3>2, BestQuote
    <3> DEFINE best == CHOOSE q \in shown : \A r \in shown : odds[q] >= odds[r]
    <3>4. best \in shown BY <3>3
    <3>5. BestSoft(odds) = {<<best, odds[best]>>} BY <2>3 DEF BestSoft
    <3>6. <<best, odds[best]>> \in Bettable BY <3>4, <1>1
    <3> HIDE DEF best
    <3> QED BY <2>1, <3>5, <3>6, FilledColumn
  <2> QED BY <2>2, <2>3
<1> QED BY <1>2, <1>3

\* An edge is computed of the current price where there is one.
LEMMA EdgeColumn ==
  ASSUME NEW cur \in Column(Bettable), NEW fair \in Prices
  PROVE  {<<fair, price>> : price \in cur} \in Column(Prices \X Bettable)
<1>1. CASE cur = Blank BY <1>1 DEF Blank, Column
<1>2. CASE \E x \in Bettable : cur = {x}
  <2>1. PICK x \in Bettable : cur = {x} BY <1>2
  <2>2. {<<fair, price>> : price \in cur} = {<<fair, x>>} BY <2>1
  <2> QED BY <2>2, FilledColumn
<1> QED BY <1>1, <1>2 DEF Column

-----------------------------------------------------------------------------
(* What a writer computes *)

\* What the assumptions say of the clock, at hand.
LEMMA ClockFacts ==
  /\ Kickoff \in Nat /\ SettleDelay \in Nat /\ MaxCycle \in Nat
  /\ MaxTime \in Nat /\ NoTime \in Nat
  /\ \A t \in Times \cup {NoTime} : t \in Nat
  /\ \A t \in Times : t # NoTime
BY ClosingAssumption DEF NoTime, Times

\* A row with a fair written on it is a row, and of its own fill.
LEMMA WithFairIsALine ==
  ASSUME NEW r \in Pick, NEW fair \in Prices, NEW at \in Times \cup {NoTime},
         NEW by \in {"page", "snapshot"}
  PROVE  /\ WithFair(r, fair, at, by) \in Pick
         /\ OfItsFill(WithFair(r, fair, at, by))
         /\ WithFair(r, fair, at, by).fairAt = at
         /\ WithFair(r, fair, at, by).fairBy = by
         /\ WithFair(r, fair, at, by).status = r.status
         /\ WithFair(r, fair, at, by).fair = fair
<1> DEFINE w == WithFair(r, fair, at, by)
<1>1. {<<r.fill, fair>>} \in Column(Prices \X Prices) BY FilledColumn DEF Pick
<1>2. FellBack(fair) \in Column(BOOLEAN) /\ Independent(fair, r.mint) \in Column(BOOLEAN)
  BY VerdictColumns
<1>3. ConsistentEdge(r, fair) \in Column(Prices \X Bettable)
  BY EdgeColumn DEF ConsistentEdge, Pick
<1>4. w \in Pick BY <1>1, <1>2, <1>3 DEF WithFair, Pick
<1>5. /\ w.fairAt = at /\ w.fairBy = by /\ w.status = r.status /\ w.fair = fair
      /\ w.fill = r.fill /\ w.mint = r.mint /\ w.cur = r.cur
      /\ w.clv = {<<r.fill, fair>>} /\ w.indep = Independent(fair, r.mint)
      /\ w.closeFellBack = FellBack(fair) /\ w.edge = ConsistentEdge(r, fair)
  BY DEF WithFair, Pick
<1>6. OfItsFill(w) BY <1>5 DEF OfItsFill, ConsistentEdge
<1> QED BY <1>4, <1>5, <1>6

\* Re-pricing a row from the page of a cycle that began before the game.
LEMMA RepricedIsALine ==
  ASSUME ClosingTypeOK, NEW r \in Pick, page.kind # "none",
         CapturedInTime(r), reval.known => page.at <= Kickoff
  PROVE  /\ Repriced(r) \in Pick /\ CapturedInTime(Repriced(r))
         /\ Repriced(r).status = r.status
         /\ OfItsFill(r) => OfItsFill(Repriced(r))
<1> DEFINE fair  == page.odds[SharpBook]
           price == CurrentPrice(page.odds)
           at    == IF reval.known THEN page.at ELSE NoTime
           done  == WithFair(r, fair, at, "page")
           full  == [done EXCEPT !.cur = price, !.edge = {<<fair, p>> : p \in price}]
<1>1. page.odds \in Shown
  BY ClosingAssumption DEF ClosingTypeOK, Shown, Nothing, Gone
<1>2. at \in Times \cup {NoTime} /\ (at = NoTime \/ at <= Kickoff) BY DEF ClosingTypeOK
<1>3. CASE fair = Gone \/ Implausible(r.fill, fair) BY <1>3 DEF Repriced
<1>4. CASE ~(fair = Gone \/ Implausible(r.fill, fair))
  <2>1. fair \in Prices BY <1>1, <1>4, ClosingAssumption DEF Shown
  <2>2. price \in Column(Bettable) BY <1>1, CurrentPriceIsBettable
  <2>3. {<<fair, p>> : p \in price} \in Column(Prices \X Bettable) BY <2>1, <2>2, EdgeColumn
  <2>4. /\ done \in Pick /\ OfItsFill(done) /\ done.fairAt = at /\ done.fairBy = "page"
        /\ done.status = r.status /\ done.fair = fair
    BY <1>2, <2>1, WithFairIsALine
  <2>5. Repriced(r) = IF price = Blank THEN done ELSE full BY <1>4 DEF Repriced
  <2> HIDE DEF fair, price, at, done
  <2>6. full \in Pick BY <2>2, <2>3, <2>4 DEF Pick
  <2>7. /\ full.fairAt = at /\ full.status = r.status /\ full.fair = fair
        /\ full.fill = done.fill /\ full.mint = done.mint /\ full.clv = done.clv
        /\ full.indep = done.indep /\ full.closeFellBack = done.closeFellBack
        /\ full.cur = price /\ full.edge = {<<fair, p>> : p \in price}
    BY <2>4 DEF Pick
  <2>8. OfItsFill(full) BY <2>4, <2>7 DEF OfItsFill, ConsistentEdge
  <2> QED BY <1>2, <2>4, <2>5, <2>6, <2>7, <2>8 DEF CapturedInTime
<1> QED BY <1>3, <1>4

\* The close read is a shown price, with its time.
LEMMA CloseIsShown ==
  ASSUME ClosingTypeOK
  PROVE  /\ CloseOdds \in Shown
         /\ CloseCapturedAt \in Times \cup {NoTime}
<1>1. \A q \in Quotes : history.odds[q] \in Prices \cup {Gone} BY DEF ClosingTypeOK
<1>2. archive.odds \in Prices \cup {Gone} BY DEF ClosingTypeOK
<1>3. CloseOdds \in Shown BY <1>1, <1>2 DEF CloseOdds, Shown
<1>4. CloseCapturedAt \in Times \cup {NoTime} BY DEF CloseCapturedAt, ClosingTypeOK
<1> QED BY <1>3, <1>4

\* Writing the close of the odds history on a row.
LEMMA FinalizedIsALine ==
  ASSUME ClosingTypeOK, CapturesInv, NEW r \in Pick, CapturedInTime(r)
  PROVE  /\ Finalized(r) \in Pick /\ CapturedInTime(Finalized(r))
         /\ Finalized(r).status = r.status
         /\ OfItsFill(r) => OfItsFill(Finalized(r))
         /\ Finalized(r) = r \/ Finalized(r).fairBy = "snapshot"
         /\ ~closer.known => Finalized(r) = r
<1> DEFINE fair  == CloseOdds[SharpBook]
           price == CurrentPrice(CloseOdds)
           at    == CloseCapturedAt
           done0 == WithFair(r, fair, at, "snapshot")
           done  == [done0 EXCEPT !.snap = TRUE]
           best  == (CHOOSE p \in price : TRUE)[2]
           full  == [done EXCEPT !.closing_odds = best]
           skip  == \/ ~closer.known
                    \/ ~Fresh(history.at) /\ ~Fresh(archive.at)
                    \/ fair = Gone
                    \/ Implausible(r.fill, fair)
<1>1. CloseOdds \in Shown /\ at \in Times \cup {NoTime} BY CloseIsShown
<1>2. at = NoTime \/ at <= Kickoff BY DEF CapturesInv, CloseCapturedAt
<1>3. CASE skip BY <1>3 DEF Finalized
<1>4. CASE ~skip
  <2>1. fair \in Prices BY <1>1, <1>4, ClosingAssumption DEF Shown
  <2>2. price \in Column(Bettable) BY <1>1, CurrentPriceIsBettable
  <2>3. /\ done0 \in Pick /\ OfItsFill(done0) /\ done0.fairAt = at
        /\ done0.fairBy = "snapshot" /\ done0.status = r.status
    BY <1>1, <2>1, WithFairIsALine
  <2>4. Finalized(r) = IF price = Blank THEN done ELSE full BY <1>4 DEF Finalized
  <2>5. closer.known BY <1>4
  <2> HIDE DEF fair, price, at, done0, skip
  <2>6. /\ done \in Pick /\ OfItsFill(done) /\ done.fairAt = at
        /\ done.fairBy = "snapshot" /\ done.status = r.status
    <3>1. /\ done \in Pick /\ done.fairAt = at
          /\ done.fairBy = "snapshot" /\ done.status = r.status
      BY <2>3 DEF Pick
    <3>2. /\ done.fair = done0.fair /\ done.clv = done0.clv /\ done.fill = done0.fill
          /\ done.mint = done0.mint /\ done.indep = done0.indep
          /\ done.closeFellBack = done0.closeFellBack /\ done.edge = done0.edge
          /\ done.cur = done0.cur
      BY <2>3 DEF Pick
    <3>3. OfItsFill(done)
      <4> HIDE DEF done
      <4> QED BY <2>3, <3>2 DEF OfItsFill, ConsistentEdge
    <3> QED BY <3>1, <3>3
  <2>7. ASSUME price # Blank PROVE best \in Prices
    <3>1. PICK x \in Bettable : price = {x} BY <2>2, <2>7 DEF Column
    <3>2. (CHOOSE p \in price : TRUE) = x BY <3>1
    <3> QED BY <3>1, <3>2 DEF Bettable
  <2>8. ASSUME price # Blank
        PROVE  /\ full \in Pick /\ OfItsFill(full) /\ full.fairAt = at
               /\ full.fairBy = "snapshot" /\ full.status = r.status
    <3> HIDE DEF done, best
    <3> QED BY <2>6, <2>7, <2>8 DEF Pick, OfItsFill, ConsistentEdge
  <2> QED BY <1>2, <2>4, <2>5, <2>6, <2>8 DEF CapturedInTime
<1> QED BY <1>3, <1>4

\* A flush of columns onto a row is a row; onto the row that was loaded, it is
\* what the session computed; of what was loaded, it is no change.
LEMMA FlushedIsARow ==
  ASSUME row \in Pick, NEW loaded \in Pick, NEW new \in Pick
  PROVE  /\ Flushed(loaded, new) \in Pick
         /\ row = loaded => Flushed(loaded, new) = new
         /\ new = loaded => Flushed(loaded, new) = row
<1>1. Flushed(loaded, new) \in Pick BY DEF Flushed, Pick
<1>2. ASSUME row = loaded PROVE Flushed(loaded, new) = new BY <1>2 DEF Flushed, Pick
<1>3. ASSUME new = loaded PROVE Flushed(loaded, new) = row BY <1>3 DEF Flushed, Pick
<1> QED BY <1>1, <1>2, <1>3

\* Each column of a flushed row is the row's or the session's.
LEMMA FlushedColumns ==
  ASSUME row \in Pick, NEW loaded \in Pick, NEW new \in Pick
  PROVE  LET w == Flushed(loaded, new)
         IN  /\ w.status = IF new.status # loaded.status THEN new.status ELSE row.status
             /\ w.fairAt = row.fairAt \/ w.fairAt = new.fairAt
BY DEF Flushed, Pick

\* A settled row is a row.
LEMMA SettledIsARow ==
  ASSUME NEW r \in Pick
  PROVE  LET s == [r EXCEPT !.status = "settled"]
         IN  /\ s \in Pick /\ s.status = "settled"
             /\ CapturedInTime(r) => CapturedInTime(s)
             /\ OfItsFill(r) => OfItsFill(s)
             /\ r.status = "settled" => s = r
             /\ Line(s) = Line(r)
BY DEF Pick, Statuses, CapturedInTime, OfItsFill, ConsistentEdge, Line

-----------------------------------------------------------------------------
(* The invariant is inductive *)

\* Once the game is over, what the running cycle scraped is of a game that had
\* begun: no re-pricing is open and nothing can be minted or promoted from it.
LEMMA CyclesEndBeforeTheGameIsOver ==
  ASSUME ClosingInv, Over
  PROVE  reval = Idle /\ ~Mintable
<1>1. known /\ Kickoff + SettleDelay <= clock BY DEF Over
<1>2. clock \in Nat /\ page.at \in Nat BY ClockFacts DEF ClosingInv, ClosingTypeOK
<1>3. ASSUME page.kind # "none" PROVE ~(page.at < Kickoff)
  BY <1>1, <1>2, <1>3, ClockFacts, ClosingAssumption DEF ClosingInv, CapturesInv
<1>4. reval = Idle BY <1>1, <1>3 DEF ClosingInv, RevalInv
<1>5. ~Mintable BY <1>1, <1>3 DEF Mintable
<1> QED BY <1>4, <1>5

\* No session is a session.
LEMMA IdleSession ==
  Idle \in [by : {"none"}, row : {NoRow}, known : BOOLEAN]
BY DEF Idle

\* No pick, no capture and nobody at work.
LEMMA InitClosing == ClosingInit => ClosingInv
<1> SUFFICES ASSUME ClosingInit PROVE ClosingInv OBVIOUS
<1>1. ClosingTypeOK
  <2>1. Nothing \in Shown BY DEF Nothing, Shown
  <2>2. 0 \in Times BY ClosingAssumption DEF Times
  <2> QED BY <2>1, <2>2
      DEF ClosingInit, ClosingTypeOK, Shown, NoPage, NoArchive, Idle, Nothing
<1>2. CapturesInv BY DEF ClosingInit, CapturesInv, NoPage, NoArchive
<1> QED BY <1>1, <1>2
    DEF ClosingInit, ClosingInv, RowInv, RevalInv, CloserInv

\* A page of the running cycle, and what is stored of it.
LEMMA ScrapeStep ==
  ASSUME ClosingInv, NEW odds \in Pages, Scrape(odds) \/ ScrapeMatchPage(odds)
  PROVE  ClosingInv'
<1>1. ClosingTypeOK /\ CapturesInv /\ RowInv /\ RevalInv /\ CloserInv BY DEF ClosingInv
<1>2. /\ page.kind = "none"
      /\ UNCHANGED <<clock, row, archive, reval, closer, byHand, raced>>
      /\ known' \in {known, TRUE}
  BY DEF Scrape, ScrapeMatchPage
<1>3. page' \in {[kind |-> k, at |-> clock, odds |-> odds] : k \in {"cycle", "match"}}
  BY DEF Scrape, ScrapeMatchPage
<1>4. odds \in Shown /\ history.odds \in Shown /\ clock \in Times
      /\ history \in [odds : Shown, at : Times \cup {NoTime}]
  BY <1>1, ClosingAssumption DEF ClosingTypeOK, Shown, Gone
<1>5. \/ history' = history
      \/ /\ clock <= Kickoff
         /\ history' \in {[odds |-> o, at |-> clock] : o \in Shown}
  <2>1. [q \in Quotes |-> IF q \in Moved(odds) THEN odds[q] ELSE history.odds[q]] \in Shown
    BY <1>4 DEF Shown
  <2> QED BY <2>1 DEF Scrape, ScrapeMatchPage
<1>6. ClosingTypeOK'
  <2>1. page' \in [kind : {"none", "cycle", "match"}, at : Times \cup {NoTime},
                   odds : Pages \cup {Nothing}]
    BY <1>3, <1>4
  <2>2. history' \in [odds : Shown, at : Times \cup {NoTime}] BY <1>4, <1>5
  <2>3. known' \in BOOLEAN BY <1>1, <1>2 DEF ClosingTypeOK
  <2> QED BY <1>1, <1>2, <2>1, <2>2, <2>3 DEF ClosingTypeOK, Shown
<1>7. CapturesInv'
  <2>1. clock \in Nat BY <1>4, ClockFacts
  <2>2. page'.at = clock BY <1>3
  <2>3. history'.at = NoTime \/ history'.at <= Kickoff
    BY <1>1, <1>5 DEF CapturesInv
  <2> QED BY <1>1, <1>2, <2>1, <2>2, <2>3, ClockFacts DEF CapturesInv
<1>8. Over => Over' BY <1>2 DEF Over
<1>9. RowInv' BY <1>1, <1>2, <1>8 DEF RowInv, CapturedInTime, OfItsFill, ConsistentEdge
<1>10. RevalInv' BY <1>1, <1>2 DEF RevalInv
<1>11. CloserInv'
  <2>1. closer # Idle /\ closer.known => known BY <1>1 DEF CloserInv
  <2>2. closer # Idle /\ closer.known => (Over' <=> Over)
    BY <1>1, <1>2, <2>1 DEF Over, ClosingTypeOK
  <2>3. closer # Idle => (closer.known => known')
    BY <1>1, <1>2, <2>1, Zenon DEF ClosingTypeOK
  <2> QED BY <1>1, <1>2, <1>8, <2>2, <2>3 DEF CloserInv, CapturedInTime
<1> QED BY <1>6, <1>7, <1>9, <1>10, <1>11 DEF ClosingInv

\* The cycle's end, the archive job and the clock leave every row alone.
LEMMA QuietStep ==
  ASSUME ClosingInv, CycleEnds \/ CaptureArchive \/ Restart \/ Tick
  PROVE  ClosingInv'
<1> USE DEF ClosingInv
<1>1. CASE CycleEnds \/ Restart
  <2>1. /\ page' = [NoPage EXCEPT !.at = page.at]
        /\ UNCHANGED <<clock, history, row, known, archive, byHand, raced>>
        /\ reval' = Idle /\ closer' \in {closer, Idle}
    BY <1>1 DEF CycleEnds, Restart
  <2>2. page' = [kind |-> "none", at |-> page.at, odds |-> Nothing]
    BY <2>1 DEF NoPage
  <2>3. ClosingTypeOK'
    <3>1. page' \in [kind : {"none", "cycle", "match"}, at : Times \cup {NoTime},
                     odds : Pages \cup {Nothing}]
      BY <2>2 DEF ClosingTypeOK
    <3>2. /\ reval' \in [by : {"none", "page"}, row : Pick \cup {NoRow}, known : BOOLEAN]
          /\ closer' \in [by : {"none", "job", "desk", "record"},
                         row : Pick \cup {NoRow}, known : BOOLEAN]
      BY <2>1, IdleSession DEF ClosingTypeOK
    <3> QED BY <2>1, <3>1, <3>2 DEF ClosingTypeOK
  <2>6. CapturesInv' BY <2>1, <2>2 DEF CapturesInv
  <2>4. RowInv' BY <2>1 DEF RowInv, Over, CapturedInTime, OfItsFill, ConsistentEdge
  <2>5. RevalInv' /\ CloserInv' BY <2>1 DEF RevalInv, CloserInv, Over, CapturedInTime
  <2> QED BY <2>3, <2>4, <2>5, <2>6
<1>2. CASE CaptureArchive
  <2>1. /\ UNCHANGED <<clock, page, history, row, known, reval, closer, byHand, raced>>
        /\ clock <= Kickoff /\ archive'.at = clock
        /\ archive' \in [odds : Prices \cup {Gone}, at : Times \cup {NoTime}]
    BY <1>2, ClosingAssumption DEF CaptureArchive, ClosingTypeOK, Gone
  <2>2. ClosingTypeOK' BY <2>1 DEF ClosingTypeOK
  <2>3. CapturesInv' BY <2>1 DEF CapturesInv
  <2>4. RowInv' BY <2>1 DEF RowInv, Over, CapturedInTime, OfItsFill, ConsistentEdge
  <2>5. RevalInv' /\ CloserInv' BY <2>1 DEF RevalInv, CloserInv, Over, CapturedInTime
  <2> QED BY <2>2, <2>3, <2>4, <2>5
<1>3. CASE Tick
  <2>1. /\ UNCHANGED <<page, history, row, known, archive, reval, closer, byHand, raced>>
        /\ clock' = clock + 1 /\ clock < MaxTime /\ closer = Idle
        /\ page.kind # "none" => clock - page.at < MaxCycle
    BY <1>3 DEF Tick
  <2>2. clock \in Nat /\ page.at \in Nat /\ clock' \in Times
    BY <2>1, ClosingAssumption, ClockFacts DEF ClosingTypeOK, Times
  <2>3. ClosingTypeOK' BY <2>1, <2>2 DEF ClosingTypeOK
  <2>4. CapturesInv' BY <2>1, <2>2, ClosingAssumption DEF CapturesInv
  <2>5. RowInv'
    BY <2>1, <2>2, ClosingAssumption
    DEF RowInv, Over, CapturedInTime, OfItsFill, ConsistentEdge
  <2>6. RevalInv' /\ CloserInv' BY <2>1 DEF RevalInv, CloserInv, CapturedInTime
  <2> QED BY <2>3, <2>4, <2>5, <2>6
<1> QED BY <1>1, <1>2, <1>3

\* A detection of the cycle: a new row, or the shadow row started afresh.
LEMMA DetectionStep ==
  ASSUME ClosingInv, Mint \/ Promote
  PROVE  ClosingInv'
<1> USE DEF ClosingInv
<1>1. /\ Mintable /\ ~Over /\ reval = Idle /\ ~byHand
      /\ UNCHANGED <<clock, page, history, known, archive, reval, closer, byHand, raced>>
  BY CyclesEndBeforeTheGameIsOver DEF Mint, Promote, Mintable, RowInv
<1>2. page.odds \in Shown BY ClosingAssumption DEF ClosingTypeOK, Shown, Nothing, Gone
<1>3. page.odds[SharpBook] \in Prices /\ page.odds[OwnBook] \in Prices
  <2>1. page.odds[OwnBook] # Gone
    <3>1. page.odds[SharpBook] \in Nat /\ page.odds[OwnBook] \in Nat
      <4>1. Prices \cup {Gone} \subseteq Nat BY ClosingAssumption DEF Gone
      <4> QED BY <1>2, <4>1, ClosingAssumption DEF Shown
    <3> QED BY <1>1, <3>1 DEF Mintable, Gone
  <2> QED BY <1>1, <1>2, <2>1, ClosingAssumption DEF Mintable, Shown
<1>4. Blank \in Column(Prices \X Prices) /\ Blank \in Column(BOOLEAN)
      /\ Blank \in Column(Bettable) /\ Blank \in Column(Prices \X Bettable)
  BY DEF Column
<1>5. \E tier \in Tiers, mfb \in Column(BOOLEAN), cfb \in Column(BOOLEAN) :
        row' = Unpriced(tier, page.odds[OwnBook], page.odds[SharpBook], mfb, cfb)
  <2>1. CASE Mint
    <3>1. FellBack(page.odds[SharpBook]) \in Column(BOOLEAN) BY VerdictColumns
    <3> QED BY <2>1, <3>1, <1>4 DEF Mint
  <2>2. CASE Promote
    <3>1. row \in Pick BY <2>2 DEF Promote, ClosingTypeOK
    <3>2. row.mintFellBack \in Column(BOOLEAN) /\ row.closeFellBack \in Column(BOOLEAN)
      BY <3>1 DEF Pick
    <3> QED BY <2>2, <3>2 DEF Promote, Tiers
  <2> QED BY <2>1, <2>2
<1>6. /\ row' \in Pick /\ row'.fair = Gone /\ row'.fairAt = NoTime
      /\ row'.status = "alerted"
  BY <1>3, <1>4, <1>5 DEF Unpriced, Pick, Statuses
<1>7. row' # NoRow BY <1>6 DEF NoRow
<1>8. ClosingTypeOK' BY <1>1, <1>6 DEF ClosingTypeOK
<1>9. CapturesInv' BY <1>1 DEF CapturesInv
<1>10. RowInv' BY <1>1, <1>6, <1>7 DEF RowInv, CapturedInTime, OfItsFill
<1>11. RevalInv' BY <1>1 DEF RevalInv
<1>12. CloserInv'
  <2>1. CASE closer = Idle BY <2>1, <1>1 DEF CloserInv
  <2>2. CASE closer # Idle
    <3>1. row # NoRow /\ row.status = "alerted" BY <2>2 DEF CloserInv, Mint, Promote
    <3> QED BY <3>1, <2>2, <1>1, <1>6, <1>7 DEF CloserInv, Over, CapturedInTime
  <2> QED BY <2>1, <2>2
<1> QED BY <1>8, <1>9, <1>10, <1>11, <1>12

\* A session of re-pricing opens, on the row as it is.
LEMMA RevalidateLoadStep ==
  ASSUME ClosingInv, RevalidateLoad
  PROVE  ClosingInv'
<1>1. ClosingTypeOK /\ CapturesInv /\ RowInv /\ RevalInv /\ CloserInv BY DEF ClosingInv
<1>2. /\ UNCHANGED <<clock, page, history, row, known, archive, closer, byHand, raced>>
      /\ page.kind # "none" /\ row # NoRow /\ row.status = "alerted"
      /\ ~known \/ Kickoff > clock
      /\ reval' = [by |-> "page", row |-> row, known |-> known]
  BY DEF RevalidateLoad
<1>3. row \in Pick /\ known \in BOOLEAN /\ clock \in Nat /\ page.at \in Nat
  BY <1>1, <1>2, ClockFacts DEF ClosingTypeOK
<1>4. ClosingTypeOK'
  <2>1. reval' \in [by : {"none", "page"}, row : Pick \cup {NoRow}, known : BOOLEAN]
    BY <1>2, <1>3
  <2> QED BY <1>1, <1>2, <2>1 DEF ClosingTypeOK
<1>5. CapturesInv' BY <1>1, <1>2 DEF CapturesInv
<1>6. RowInv' BY <1>1, <1>2 DEF RowInv, Over, CapturedInTime, OfItsFill, ConsistentEdge
<1>7. RevalInv'
  <2>1. reval'.row = row /\ reval'.known = known BY <1>2
  <2>2. known => page.at < Kickoff
    BY <1>1, <1>2, <1>3, ClosingAssumption DEF CapturesInv
  <2> QED BY <1>1, <1>2, <1>3, <2>1, <2>2 DEF RevalInv, RowInv, CapturedInTime
<1>8. CloserInv' BY <1>1, <1>2 DEF CloserInv, Over, CapturedInTime
<1> QED BY <1>4, <1>5, <1>6, <1>7, <1>8 DEF ClosingInv

\* Its commit: before the game is over, on a row that is still the one it
\* loaded, or on one the operator has closed.
LEMMA RevalidateFlushStep ==
  ASSUME ClosingInv, RevalidateFlush
  PROVE  ClosingInv'
<1>1. ClosingTypeOK /\ CapturesInv /\ RowInv /\ RevalInv /\ CloserInv BY DEF ClosingInv
<1> DEFINE r == reval.row
           new == Repriced(r)
<1>2. /\ UNCHANGED <<clock, page, history, known, archive, closer, byHand, raced>>
      /\ reval # Idle /\ reval' = Idle /\ row' = Flushed(r, new)
  BY DEF RevalidateFlush
<1>3. /\ page.kind # "none" /\ row # NoRow /\ r \in Pick /\ CapturedInTime(r)
      /\ reval.known = known /\ (known => page.at < Kickoff)
      /\ raced \/ row = r
      /\ r.status = "alerted"
  BY <1>1, <1>2 DEF RevalInv
<1>4. ~Over BY <1>2, CyclesEndBeforeTheGameIsOver
<1>5. row \in Pick /\ page.at \in Nat BY <1>1, <1>3, ClockFacts DEF ClosingTypeOK
<1>6. /\ new \in Pick /\ CapturedInTime(new) /\ new.status = r.status
      /\ OfItsFill(r) => OfItsFill(new)
  BY <1>1, <1>3, <1>5, RepricedIsALine, ClosingAssumption
<1>7. /\ row' \in Pick /\ (row = r => row' = new) /\ row'.status = row.status
      /\ CapturedInTime(row')
  <2>1. row' \in Pick /\ (row = r => row' = new) BY <1>2, <1>3, <1>5, <1>6, FlushedIsARow
  <2>2. row'.status = row.status /\ (row'.fairAt = row.fairAt \/ row'.fairAt = new.fairAt)
    BY <1>2, <1>3, <1>5, <1>6, FlushedColumns
  <2> QED BY <1>1, <1>3, <1>6, <2>1, <2>2 DEF CapturedInTime, RowInv
<1>8. row' # NoRow BY <1>5, <1>7 DEF NoRow, Pick
<1> HIDE DEF r, new
<1>9. ClosingTypeOK'
  <2>1. reval' \in [by : {"none", "page"}, row : Pick \cup {NoRow}, known : BOOLEAN]
    BY <1>2, IdleSession
  <2> QED BY <1>1, <1>2, <1>7, <2>1 DEF ClosingTypeOK
<1>10. CapturesInv' BY <1>1, <1>2 DEF CapturesInv
<1>11. RowInv'
  <2>1. ~raced => OfItsFill(row') BY <1>1, <1>3, <1>6, <1>7 DEF RowInv
  <2>2. row'.status = "settled" => byHand BY <1>1, <1>3, <1>4, <1>7 DEF RowInv
  <2> QED BY <1>1, <1>2, <1>7, <1>8, <2>1, <2>2 DEF RowInv
<1>12. RevalInv' BY <1>2 DEF RevalInv
<1>13. CloserInv'
  <2>1. closer # Idle /\ closer.by = "record" => raced BY <1>1, <1>3 DEF CloserInv
  <2> QED BY <1>1, <1>2, <1>4, <1>7, <1>8, <2>1 DEF CloserInv, Over, CapturedInTime
<1> QED BY <1>9, <1>10, <1>11, <1>12, <1>13 DEF ClosingInv

\* A closing session opens, on the row as it is.
LEMMA CloserLoadStep ==
  ASSUME ClosingInv, JobLoad \/ DeskLoad
  PROVE  ClosingInv'
<1>1. ClosingTypeOK /\ CapturesInv /\ RowInv /\ RevalInv /\ CloserInv BY DEF ClosingInv
<1>2. /\ UNCHANGED <<clock, page, history, row, known, archive, reval, byHand, raced>>
      /\ row # NoRow /\ row.status = "alerted"
      /\ \E by \in {"job", "desk"} :
           /\ by = "job" => Over
           /\ closer' = [by |-> by, row |-> row, known |-> known]
  BY DEF JobLoad, DeskLoad, SettleLoad
<1>3. row \in Pick /\ known \in BOOLEAN BY <1>1, <1>2 DEF ClosingTypeOK
<1>4. /\ closer'.row = row /\ closer'.known = known /\ closer'.by \in {"job", "desk"}
      /\ closer'.by = "job" => Over /\ known
      /\ closer' \in [by : {"none", "job", "desk", "record"}, row : Pick \cup {NoRow},
                      known : BOOLEAN]
  BY <1>2, <1>3 DEF Over
<1>5. ClosingTypeOK' BY <1>1, <1>2, <1>4 DEF ClosingTypeOK
<1>6. CapturesInv' BY <1>1, <1>2 DEF CapturesInv
<1>7. RowInv' BY <1>1, <1>2 DEF RowInv, Over, CapturedInTime, OfItsFill, ConsistentEdge
<1>8. RevalInv' BY <1>1, <1>2 DEF RevalInv, CapturedInTime
<1>9. CloserInv'
  BY <1>1, <1>2, <1>3, <1>4 DEF CloserInv, Over, CapturedInTime, RowInv
<1> QED BY <1>5, <1>6, <1>7, <1>8, <1>9 DEF ClosingInv

\* Settlement commits: the result, the flip and the close at once.
LEMMA SettleCommitStep ==
  ASSUME ClosingInv, SettleCommit
  PROVE  ClosingInv'
<1>1. ClosingTypeOK /\ CapturesInv /\ RowInv /\ RevalInv /\ CloserInv BY DEF ClosingInv
<1> DEFINE r == closer.row
           s == [r EXCEPT !.status = "settled"]
           new == Finalized(s)
<1>2. /\ UNCHANGED <<clock, page, history, known, archive, reval>>
      /\ closer.by \in {"job", "desk"} /\ closer' = Idle
  BY DEF SettleCommit
<1>3. closer # Idle BY <1>2 DEF Idle
<1>4. /\ row # NoRow /\ r \in Pick /\ CapturedInTime(r) /\ (closer.known => known)
      /\ (closer.by = "job" => Over /\ closer.known)
      /\ row.status = "alerted" /\ r.status = "alerted"
      /\ (closer.known /\ Over /\ ~byHand => row = r)
  BY <1>1, <1>2, <1>3 DEF CloserInv
<1>5. row \in Pick /\ ~byHand /\ ~raced BY <1>1, <1>4 DEF ClosingTypeOK, RowInv
<1>6. /\ row' = Flushed(r, new) /\ byHand' = (closer.by = "desk" /\ ~Over)
      /\ raced' = (raced \/ reval # Idle \/ (closer.known /\ row # r))
  BY <1>4 DEF SettleCommit
<1>7. /\ s \in Pick /\ s.status = "settled" /\ CapturedInTime(s)
      /\ OfItsFill(r) => OfItsFill(s)
  BY <1>4, SettledIsARow
<1>8. /\ new \in Pick /\ CapturedInTime(new) /\ new.status = "settled"
      /\ OfItsFill(s) => OfItsFill(new)
      /\ ~closer.known => new = s
  BY <1>1, <1>7, FinalizedIsALine
<1>9. /\ row' \in Pick /\ (row = r => row' = new) /\ row'.status = "settled"
      /\ CapturedInTime(row')
  <2>1. row' \in Pick /\ (row = r => row' = new) BY <1>4, <1>5, <1>6, <1>8, FlushedIsARow
  <2>2. row'.status = "settled" /\ (row'.fairAt = row.fairAt \/ row'.fairAt = new.fairAt)
    BY <1>4, <1>5, <1>6, <1>8, FlushedColumns
  <2> QED BY <1>1, <1>4, <1>8, <2>1, <2>2 DEF CapturedInTime, RowInv
<1>10. row' # NoRow BY <1>5, <1>9 DEF NoRow, Pick
<1>11. ASSUME ~raced' PROVE OfItsFill(row')
  <2>1. OfItsFill(row) BY <1>1, <1>4, <1>5 DEF RowInv
  <2>2. CASE closer.known
    <3>1. row = r BY <1>6, <1>11, <2>2
    <3> QED BY <2>1, <3>1, <1>7, <1>8, <1>9
  <2>3. CASE ~closer.known
    <3>1. row' = Flushed(r, s) BY <1>6, <1>8, <2>3
    <3>2. row' = [row EXCEPT !.status = "settled"]
      BY <3>1, <1>4, <1>5 DEF Flushed, Pick
    <3> QED BY <2>1, <3>2, <1>5, SettledIsARow
  <2> QED BY <2>2, <2>3
<1> HIDE DEF r, s, new
<1>12. ClosingTypeOK'
  <2>1. closer' \in [by : {"none", "job", "desk", "record"}, row : Pick \cup {NoRow},
                     known : BOOLEAN]
    BY <1>2, IdleSession
  <2>2. byHand' \in BOOLEAN /\ raced' \in BOOLEAN BY <1>6
  <2> QED BY <1>1, <1>2, <1>9, <2>1, <2>2 DEF ClosingTypeOK
<1>13. CapturesInv' BY <1>1, <1>2 DEF CapturesInv
<1>14. RowInv'
  <2>1. Over' <=> Over BY <1>2 DEF Over
  <2>2. ~byHand' => Over BY <1>2, <1>4, <1>6
  <2>3. raced' => byHand'
    <3>1. SUFFICES ASSUME Over PROVE ~raced' BY <2>2
    <3>2. reval = Idle BY <3>1, CyclesEndBeforeTheGameIsOver
    <3>3. closer.known => row = r BY <1>4, <1>5, <3>1
    <3> QED BY <1>5, <1>6, <3>2, <3>3
  <2> QED BY <1>9, <1>10, <1>11, <2>1, <2>2, <2>3 DEF RowInv
<1>15. RevalInv'
  <2>1. reval # Idle => raced' BY <1>6
  <2> QED BY <1>1, <1>2, <1>10, <2>1 DEF RevalInv, CapturedInTime
<1>16. CloserInv' BY <1>2 DEF CloserInv
<1> QED BY <1>12, <1>13, <1>14, <1>15, <1>16 DEF ClosingInv

\* The operator's result: the row is settled at once, its close comes later.
LEMMA RecordResultStep ==
  ASSUME ClosingInv, RecordResult
  PROVE  ClosingInv'
<1>1. ClosingTypeOK /\ CapturesInv /\ RowInv /\ RevalInv /\ CloserInv BY DEF ClosingInv
<1>2. /\ UNCHANGED <<clock, page, history, known, archive, reval>>
      /\ row # NoRow /\ row' = [row EXCEPT !.status = "settled"]
      /\ byHand' = (byHand \/ (row.status = "alerted" /\ ~Over))
      /\ raced' = (raced \/ reval # Idle)
      /\ closer' = [by |-> "record", row |-> row', known |-> known]
  BY DEF RecordResult
<1>3. row \in Pick /\ known \in BOOLEAN BY <1>1, <1>2 DEF ClosingTypeOK
<1>4. /\ row' \in Pick /\ row'.status = "settled" /\ CapturedInTime(row')
      /\ OfItsFill(row) => OfItsFill(row')
      /\ row.status = "settled" => row' = row
  BY <1>1, <1>2, <1>3, SettledIsARow DEF RowInv
<1>5. row' # NoRow BY <1>3, <1>4 DEF NoRow, Pick
<1>6. row.status \in {"alerted", "settled"} BY <1>3 DEF Pick, Statuses
<1>7. /\ closer'.row = row' /\ closer'.known = known /\ closer'.by = "record"
      /\ closer' \in [by : {"none", "job", "desk", "record"}, row : Pick \cup {NoRow},
                      known : BOOLEAN]
  BY <1>2, <1>3, <1>4
<1>8. ClosingTypeOK'
  <2>1. byHand' \in BOOLEAN /\ raced' \in BOOLEAN BY <1>2
  <2> QED BY <1>1, <1>2, <1>4, <1>7, <2>1 DEF ClosingTypeOK
<1>9. CapturesInv' BY <1>1, <1>2 DEF CapturesInv
<1>10. RowInv'
  <2>1. ~raced' => OfItsFill(row') BY <1>1, <1>2, <1>4 DEF RowInv
  <2>2. ~byHand' => Over' BY <1>1, <1>2, <1>6 DEF RowInv, Over
  <2>3. raced' => byHand'
    <3>1. reval # Idle => ~Over BY CyclesEndBeforeTheGameIsOver
    <3> QED BY <1>1, <1>2, <1>6, <3>1 DEF RowInv
  <2> QED BY <1>4, <1>5, <2>1, <2>2, <2>3 DEF RowInv
<1>11. RevalInv'
  <2>1. reval # Idle => raced' BY <1>2
  <2> QED BY <1>1, <1>2, <1>5, <2>1 DEF RevalInv, CapturedInTime
<1>12. CloserInv' BY <1>2, <1>4, <1>5, <1>7 DEF CloserInv, CapturedInTime
<1> QED BY <1>8, <1>9, <1>10, <1>11, <1>12 DEF ClosingInv

\* What the operator's session may still write on a row that is closed: the
\* close from the odds history, on the row that it loaded.
LEMMA RecordFinalizeWrites ==
  ASSUME ClosingInv, RecordFinalize
  PROVE  /\ row \in Pick /\ row' \in Pick
         /\ row'.status = "settled" /\ CapturedInTime(row')
         /\ ~raced => row' = row \/ row' = Finalized(row)
<1>1. ClosingTypeOK /\ CapturesInv /\ RowInv /\ RevalInv /\ CloserInv BY DEF ClosingInv
<1> DEFINE r == closer.row
           new == Finalized(r)
<1>2. closer.by = "record" /\ (row' = Flushed(r, new) \/ row' = row) BY DEF RecordFinalize
<1>3. closer # Idle BY <1>2 DEF Idle
<1>4. /\ row # NoRow /\ r \in Pick /\ CapturedInTime(r)
      /\ row.status = "settled" /\ row.status = r.status
      /\ (~raced => row = r)
  BY <1>1, <1>2, <1>3 DEF CloserInv
<1>5. row \in Pick BY <1>1, <1>4 DEF ClosingTypeOK
<1>6. new \in Pick /\ CapturedInTime(new) /\ new.status = r.status
  BY <1>1, <1>4, FinalizedIsALine
<1>7. /\ Flushed(r, new) \in Pick
      /\ row = r => Flushed(r, new) = new
  BY <1>4, <1>5, <1>6, FlushedIsARow
<1>8. /\ Flushed(r, new).status = row.status
      /\ Flushed(r, new).fairAt = row.fairAt \/ Flushed(r, new).fairAt = new.fairAt
  BY <1>4, <1>5, <1>6, FlushedColumns
<1>9. CapturedInTime(row') BY <1>1, <1>2, <1>4, <1>6, <1>8 DEF CapturedInTime, RowInv
<1>10. ASSUME ~raced PROVE row' = row \/ row' = Finalized(row)
  <2>1. row = r BY <1>4, <1>10
  <2> QED BY <1>2, <1>7, <2>1
<1> QED BY <1>2, <1>4, <1>5, <1>7, <1>8, <1>9, <1>10

\* The operator's result writes the close it finds, at most once.
LEMMA RecordFinalizeStep ==
  ASSUME ClosingInv, RecordFinalize
  PROVE  ClosingInv'
<1>1. ClosingTypeOK /\ CapturesInv /\ RowInv /\ RevalInv /\ CloserInv BY DEF ClosingInv
<1>2. /\ UNCHANGED <<clock, page, history, known, archive, reval, byHand, raced>>
      /\ closer' = Idle
  BY DEF RecordFinalize
<1>3. /\ row \in Pick /\ row' \in Pick
      /\ row'.status = "settled" /\ CapturedInTime(row')
      /\ ~raced => row' = row \/ row' = Finalized(row)
  BY RecordFinalizeWrites
<1>4. row # NoRow /\ row' # NoRow /\ row.status = "settled"
  <2>1. closer # Idle BY DEF RecordFinalize, Idle
  <2>2. row # NoRow /\ row.status = "settled" BY <1>1, <2>1 DEF CloserInv, RecordFinalize
  <2> QED BY <2>2, <1>3 DEF NoRow, Pick
<1>5. ~raced => OfItsFill(row')
  <2>1. ~raced => OfItsFill(row) /\ CapturedInTime(row) BY <1>1, <1>4 DEF RowInv
  <2> QED BY <1>1, <1>3, <2>1, FinalizedIsALine
<1>6. ClosingTypeOK'
  <2>1. closer' \in [by : {"none", "job", "desk", "record"}, row : Pick \cup {NoRow},
                     known : BOOLEAN]
    BY <1>2, IdleSession
  <2> QED BY <1>1, <1>2, <1>3, <2>1 DEF ClosingTypeOK
<1>7. CapturesInv' BY <1>1, <1>2 DEF CapturesInv
<1>8. RowInv' BY <1>1, <1>2, <1>3, <1>4, <1>5 DEF RowInv, Over
<1>9. RevalInv'
  <2>2. reval # Idle => raced BY <1>1, <1>4 DEF RevalInv
  <2> QED BY <1>1, <1>2, <1>4, <2>2 DEF RevalInv, CapturedInTime
<1>10. CloserInv' BY <1>2 DEF CloserInv
<1> QED BY <1>6, <1>7, <1>8, <1>9, <1>10 DEF ClosingInv

\* Nothing moves.
LEMMA StutterClosing ==
  ASSUME ClosingInv, UNCHANGED closingVars
  PROVE  ClosingInv'
<1>1. ClosingTypeOK /\ CapturesInv /\ RowInv /\ RevalInv /\ CloserInv BY DEF ClosingInv
<1>2. /\ UNCHANGED <<clock, page, history, row, known>>
      /\ UNCHANGED <<archive, reval, closer, byHand, raced>>
  BY DEF closingVars
<1>3. ClosingTypeOK' BY <1>1, <1>2 DEF ClosingTypeOK
<1>4. CapturesInv' BY <1>1, <1>2 DEF CapturesInv
<1>5. RowInv' BY <1>1, <1>2 DEF RowInv, Over, CapturedInTime, OfItsFill, ConsistentEdge
<1>6. RevalInv' /\ CloserInv' BY <1>1, <1>2 DEF RevalInv, CloserInv, Over, CapturedInTime
<1> QED BY <1>3, <1>4, <1>5, <1>6 DEF ClosingInv

\* Every step keeps it.
LEMMA NextClosing ==
  ASSUME ClosingInv, [ClosingNext]_closingVars
  PROVE  ClosingInv'
<1>1. CASE \E odds \in Pages : Scrape(odds) \/ ScrapeMatchPage(odds) BY <1>1, ScrapeStep
<1>2. CASE CycleEnds \/ CaptureArchive \/ Restart \/ Tick BY <1>2, QuietStep
<1>3. CASE Mint \/ Promote BY <1>3, DetectionStep
<1>4. CASE RevalidateLoad BY <1>4, RevalidateLoadStep
<1>5. CASE RevalidateFlush BY <1>5, RevalidateFlushStep
<1>6. CASE JobLoad \/ DeskLoad BY <1>6, CloserLoadStep
<1>7. CASE SettleCommit BY <1>7, SettleCommitStep
<1>8. CASE RecordResult BY <1>8, RecordResultStep
<1>9. CASE RecordFinalize BY <1>9, RecordFinalizeStep
<1>10. CASE UNCHANGED closingVars BY <1>10, StutterClosing
<1> QED
  BY <1>1, <1>2, <1>3, <1>4, <1>5, <1>6, <1>7, <1>8, <1>9, <1>10 DEF ClosingNext

\* The inductive invariant holds in every state.
THEOREM ClosingInvariant == ClosingSpec => []ClosingInv
<1>1. ClosingInv /\ [ClosingNext]_closingVars => ClosingInv' BY NextClosing
<1> QED BY <1>1, InitClosing, PTL DEF ClosingSpec

-----------------------------------------------------------------------------
(* The properties *)

\* Every variable of the closing line keeps its type: a column that re-pricing
\* or settlement writes holds a value a column may hold.
THEOREM ClosingIsTyped == ClosingSpec => []ClosingTypeOK
<1>1. ClosingInv => ClosingTypeOK BY DEF ClosingInv
<1> QED BY <1>1, ClosingInvariant, PTL

\* No in-play price poses as a close, whatever sessions overlap.
THEOREM NoInPlayCloseHolds == ClosingSpec => []NoInPlayClose
<1>1. ClosingInv => NoInPlayClose
  BY DEF ClosingInv, RowInv, NoInPlayClose, Priced, CapturedInTime
<1> QED BY <1>1, ClosingInvariant, PTL

\* The closing columns are of one observation and of the fill on the row, unless
\* the operator closed the pick before the job could while a session on it was
\* open: the only close that may mix them.
THEOREM LineIsOfThisFillHolds == ClosingSpec => []LineIsOfThisFill
<1>1. ClosingInv => LineIsOfThisFill
  BY DEF ClosingInv, RowInv, LineIsOfThisFill, Priced, OfItsFill
<1> QED BY <1>1, ClosingInvariant, PTL

\* A pick that the job could have closed keeps its line: what may still be
\* written on it is the close of the odds history.
THEOREM FrozenOnceClosedHolds == ClosingSpec => FrozenOnceClosed
<1> DEFINE Frozen == (row # NoRow /\ row.status = "settled" /\ ~byHand
                        /\ Line(row') # Line(row)) => row'.fairBy = "snapshot"
<1>1. ASSUME ClosingInv, [ClosingNext]_closingVars PROVE [Frozen]_closingVars
  <2>1. SUFFICES ASSUME row # NoRow, row.status = "settled", ~byHand,
                        Line(row') # Line(row)
                 PROVE  row'.fairBy = "snapshot"
    OBVIOUS
  <2>2. Over /\ ~raced /\ CapturedInTime(row) /\ ClosingTypeOK /\ CapturesInv
    BY <1>1, <2>1 DEF ClosingInv, RowInv
  <2>3. reval = Idle BY <1>1, <2>2, CyclesEndBeforeTheGameIsOver
  <2>4. row \in Pick BY <2>1, <2>2 DEF ClosingTypeOK
  <2>5. row' # row BY <2>1
  <2>6. CASE RecordResult
    <3>1. row' = [row EXCEPT !.status = "settled"] BY <2>6 DEF RecordResult
    <3> QED BY <2>1, <2>4, <3>1, SettledIsARow
  <2>7. CASE RecordFinalize
    <3>1. row' = Finalized(row) BY <1>1, <2>2, <2>5, <2>7, RecordFinalizeWrites
    <3> QED BY <2>2, <2>4, <2>5, <3>1, FinalizedIsALine
  <2>8. ~RevalidateFlush BY <2>3 DEF RevalidateFlush
  <2>9. ~Mint /\ ~Promote BY <2>1 DEF Mint, Promote
  <2>10. CASE SettleCommit BY <2>1, <2>5, <2>10 DEF SettleCommit
  <2>11. CASE \E odds \in Pages : Scrape(odds) \/ ScrapeMatchPage(odds)
    BY <2>5, <2>11 DEF Scrape, ScrapeMatchPage
  <2>12. CASE \/ RevalidateLoad \/ CycleEnds \/ CaptureArchive \/ JobLoad \/ DeskLoad
              \/ Restart \/ Tick
    BY <2>5, <2>12
    DEF RevalidateLoad, CycleEnds, CaptureArchive, JobLoad, DeskLoad, SettleLoad,
        Restart, Tick
  <2>13. CASE UNCHANGED closingVars BY <2>5, <2>13 DEF closingVars
  <2> QED
    BY <1>1, <2>6, <2>7, <2>8, <2>9, <2>10, <2>11, <2>12, <2>13 DEF ClosingNext
<1>2. FrozenOnceClosed <=> [][Frozen]_closingVars BY DEF FrozenOnceClosed
<1> HIDE DEF Frozen
<1> QED BY <1>1, <1>2, ClosingInvariant, PTL DEF ClosingSpec

=============================================================================
