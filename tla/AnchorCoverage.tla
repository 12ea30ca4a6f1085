----------------------------- MODULE AnchorCoverage -----------------------------
(***************************************************************************)
(* GET /resolution/match-rate (app/api/routes.py): the instruments that    *)
(* say how many picks would get a sharp close before the flags             *)
(* CLV_USE_BETFAIR_EXCHANGE and CLV_USE_PINNACLE_ARCHIVE are turned on.    *)
(* They are read-only (app/storage/repositories.py counts,                 *)
(* app/resolution/shadow.py adds up); beside them stands what              *)
(* app/clv_trueup.py would attach to the same pick from the same rows.     *)
(* A fixture is matched by its displayed names; the second try on either   *)
(* side, by the names in its page's address, is in Resolution.tla.         *)
(***************************************************************************)
EXTENDS Integers, FiniteSets

CONSTANTS Matches,      \* the fixtures, team games
          SportKeyOf,   \* [fixture -> sport key]
          BaseOf,       \* [sport key -> the archive's base sport]
          StartsAt,     \* [fixture -> hour of its kickoff]
          PickedOn,     \* the picks: <<fixture, "moneyline" or "totals">>
          Horizon,      \* horizon_days, in hours
          CloseGap,     \* SNAPSHOT_CLOSE_MAX_GAP, in hours
          Implausible,  \* the picks whose fill is too far from the exchange's close to be believed
          LeagueOf,     \* [fixture -> its league, as its page has it]
          ArchiveGames, \* what the Pinnacle archive may list: [names, base, league, kickoff]
          NameCost,     \* [fixture -> [names that pass for its own -> what they lack of them]], 0 for
                        \* its own names, in hundredths of Jaro-Winkler
          LastTick      \* bound: hours

ASSUME CoverageAssumption ==
  /\ {Horizon, CloseGap, LastTick} \subseteq Nat
  /\ IsFiniteSet(Matches) /\ IsFiniteSet(PickedOn)
  /\ \A m \in Matches : StartsAt[m] \in Int /\ \A n \in DOMAIN NameCost[m] : NameCost[m][n] \in Nat
  /\ \A c \in ArchiveGames : c.kickoff \in Int
  /\ PickedOn \subseteq Matches \X {"moneyline", "totals"}

VARIABLES tick,
          seenAt,       \* [fixture -> [row -> when last stored at or before kickoff, {} before]]
          archived      \* the Pinnacle archive, a subset of ArchiveGames

coverageVars == <<tick, seenAt, archived>>

AcceptGap   == 6        \* _ACCEPT_MINUTE_DRIFT, in hours
SpreadOfOne == 6        \* _DUPLICATE_CAPTURE_SECONDS
Margin      == 4        \* _AMBIGUITY_MARGIN, in hundredths

Base(m) == BaseOf[SportKeyOf[m]]
Wide(m) == CASE Base(m) = "soccer" -> 3 [] Base(m) = "basketball" -> 2 [] OTHER -> 3

\* The odds_snapshots rows of a fixture: a soft book's, and the exchange's by market and side.
SoftRow == <<"soft", "moneyline", 1>>
Moneyline(m) == {<<"exchange", "moneyline", i>> : i \in 1..(IF Base(m) = "soccer" THEN 3 ELSE 2)}
Totals == {<<"exchange", "totals", 1>>}
RowKeys(m) == {SoftRow} \union Moneyline(m) \union Totals

CoverageInit ==
  /\ tick = 0 /\ archived = {}
  /\ seenAt = [m \in Matches |-> [r \in RowKeys(m) |-> {}]]

\* A scrape or a capture stores the rows that are new or moved.  What it stores after kickoff no
\* reader below looks at.
StoreRows(m, moved) ==
  /\ tick <= StartsAt[m] /\ moved # {}
  /\ seenAt' = [seenAt EXCEPT ![m] = [r \in RowKeys(m) |-> IF r \in moved THEN {tick} ELSE @[r]]]
  /\ UNCHANGED <<tick, archived>>

ArcadiaLists(g) == archived' = archived \union {g} /\ UNCHANGED <<tick, seenAt>>
HourGoes == tick < LastTick /\ tick' = tick + 1 /\ UNCHANGED <<seenAt, archived>>

CoverageNext ==
  \/ \E m \in Matches : StoreRows(m, {SoftRow})
  \/ \E m \in Matches : \E moved \in SUBSET Moneyline(m) : StoreRows(m, moved)
  \/ \E m \in Matches : StoreRows(m, Totals)
  \/ \E g \in ArchiveGames : ArcadiaLists(g)
  \/ HourGoes

CoverageSpec == CoverageInit /\ [][CoverageNext]_coverageVars

CoverageTypeOK ==
  /\ tick \in 0..LastTick /\ archived \subseteq ArchiveGames
  /\ \A m \in Matches : \A r \in RowKeys(m) :
       seenAt[m][r] \subseteq 0..StartsAt[m] /\ Cardinality(seenAt[m][r]) <= 1

---------------------------------------------------------------------------
(* What the settlement true-up would attach *)

Stored(m) == {r \in RowKeys(m) : seenAt[m][r] # {}}
ExchangeRows(m) == {r \in Stored(m) : r[1] = "exchange"}      \* resolve_betfair_back_snaps
Fresh(m, among) == \E r \in among : \E t \in seenAt[m][r] : StartsAt[m] - t <= CloseGap

\* The market of a pick: the rows that must all be there for the exchange to anchor it.
MarketRows(p) == IF p[2] = "moneyline" THEN Moneyline(p[1]) ELSE Totals

\* finalize_closing_from_snapshots with CLV_USE_BETFAIR_EXCHANGE: the event's own rows, the
\* exchange's among them, count when any of them is near kickoff; else the exchange's alone.  A close
\* that implies an edge above CLV_IMPLAUSIBLE_CLOSE_EDGE is refused.
Attaches(p) ==
  /\ Fresh(p[1], Stored(p[1]))
  /\ MarketRows(p) \subseteq ExchangeRows(p[1])
  /\ p \notin Implausible

Apart(t, u) == IF t < u THEN u - t ELSE t - u
Namespace(m) == {c \in archived : c.base = Base(m)}
Passes(m, c) == c.names \in DOMAIN NameCost[m]
Exact(m, c) == Passes(m, c) /\ NameCost[m][c.names] = 0

\* match_event_hardened: of the candidates near the kickoff the one with the nearest names, then the
\* nearest kickoff; none when the runner-up has other names about as near, or when a capture under the
\* same names is too far from it to be the same game.
Eligible(m, candidates) == {c \in candidates : Passes(m, c) /\ Apart(c.kickoff, StartsAt[m]) <= AcceptGap}
Rank(m, c) == (AcceptGap + 1) * NameCost[m][c.names] + Apart(c.kickoff, StartsAt[m])
Leader(m, among) == CHOOSE c \in among : \A d \in among : Rank(m, c) <= Rank(m, d)

Unsure(m, best, rest) ==
  \/ /\ Leader(m, rest).names # best.names
     /\ NameCost[m][Leader(m, rest).names] - NameCost[m][best.names] < Margin
  \/ \E c \in rest : c.names = best.names /\ Apart(c.kickoff, best.kickoff) > SpreadOfOne

Hardened(m, candidates) ==
  LET eligible == Eligible(m, candidates)
      rest == eligible \ {Leader(m, eligible)}
  IN IF eligible = {} \/ (rest # {} /\ Unsure(m, Leader(m, eligible), rest))
     THEN {} ELSE {Leader(m, eligible)}

\* _pinnacle_archive_close: any league's games are candidates.
PinnacleClose(m) == Hardened(m, Namespace(m))

---------------------------------------------------------------------------
(* What the instruments count *)

HasEvent(p) == ExchangeRows(p[1]) # {}

SlipHasClose(p) ==
  /\ Fresh(p[1], ExchangeRows(p[1]))
  /\ Cardinality(ExchangeRows(p[1])) >= Wide(p[1])
HasClose(p) ==
  /\ Fresh(p[1], ExchangeRows(p[1]))
  /\ Cardinality(ExchangeRows(p[1]) \intersect Moneyline(p[1])) >= Wide(p[1])

SportOfPick(p) == SportKeyOf[p[1]]

\* _grouped: per sport, how many picks there are and how many of them are among the counted ones.
Grouped(picks, counted) ==
  [k \in {SportOfPick(p) : p \in picks} |->
     [all |-> Cardinality({p \in picks : SportOfPick(p) = k}),
      counted |-> Cardinality({p \in counted : SportOfPick(p) = k})]]

CoverageReport(picks) ==
  [total |-> Cardinality(picks),
   with_event |-> Cardinality({p \in picks : HasEvent(p)}),
   with_close |-> Cardinality({p \in picks : HasClose(p)}),
   by_sport |-> Grouped(picks, {p \in picks : HasClose(p)}),
   event_by_sport |-> Grouped(picks, {p \in picks : HasEvent(p)})]

\* The report's candidates: the archived games of the calendar days around the kickoff, and for the
\* hardened matcher those of no other league, where both leagues are known (_leagues_agree).
SameDay(m) == {c \in Namespace(m) : Apart(c.kickoff \div 24, StartsAt[m] \div 24) <= 1}
LeaguesAgree(m, c) == "" \in {LeagueOf[m], c.league} \/ LeagueOf[m] = c.league

\* match_event: the fixture's own names; of several captures the nearest.
DayMatched(m) == \E c \in SameDay(m) : Exact(m, c)

SlipShadowed(p) == Hardened(p[1], {c \in SameDay(p[1]) : LeaguesAgree(p[1], c)}) # {}
Shadowed(p) ==
  \/ DayMatched(p[1])
  \/ Hardened(p[1], {c \in SameDay(p[1]) : LeaguesAgree(p[1], c)}) # {}
MatchRateReport(picks) ==
  LET unmatched == {p \in picks : ~Shadowed(p)}
      uncovered == {p \in unmatched : SameDay(p[1]) = {}}
  IN [total |-> Cardinality(picks),
      matched |-> Cardinality(picks \ unmatched),
      no_archive_candidates |-> Cardinality(uncovered),
      unmatched_with_candidates |-> Cardinality(unmatched \ uncovered),
      by_sport |-> Grouped(picks, picks \ unmatched)]

Upcoming(base) == {m \in Matches : SportKeyOf[m] = base /\ StartsAt[m] \in tick..(tick + Horizon)}

\* betfair_inline_capture_by_sport and betfair_archive_capture_by_sport, which counts events under
\* a "betfair:" reference that nothing writes any more.
InlineCapture(base) ==
  LET ours == {m \in Upcoming(base) : Stored(m) # {}}
  IN [scraped |-> Cardinality(ours),
      captured |-> Cardinality({m \in ours : ExchangeRows(m) \intersect Moneyline(m) # {}})]
NamespacedCapture(base) == [scraped |-> Cardinality(Upcoming(base)), captured |-> 0]

\* pinnacle_archive_capture_by_sport
PinnacleCapture(base) ==
  [captured |-> Cardinality({c \in archived : c.base = base /\ c.kickoff \in tick..(tick + Horizon)}),
   scraped |-> Cardinality(Upcoming(base)),
   matched |-> Cardinality({m \in Upcoming(base) : DayMatched(m)})]

Bases == {"soccer", "basketball"}

\* summarize_anchor_coverage: the two rates of the panel's header, as numerator and denominator.
AnchorHeadline(betfair, pinnacle) ==
  [betfair_captured |-> betfair["soccer"].captured + betfair["basketball"].captured,
   betfair_scraped |-> betfair["soccer"].scraped + betfair["basketball"].scraped,
   pinnacle_matched |-> pinnacle["soccer"].matched + pinnacle["basketball"].matched,
   pinnacle_scraped |-> pinnacle["soccer"].scraped + pinnacle["basketball"].scraped]

\* resolution_match_rate: what the page is given.
ResolutionReport ==
  LET pinnacle == [b \in Bases |-> PinnacleCapture(b)]
      inline == [b \in Bases |-> InlineCapture(b)]
  IN [picks |-> MatchRateReport(PickedOn),
      archive_capture |-> pinnacle,
      betfair_capture |-> inline,
      betfair_archive_capture |-> [b \in Bases |-> NamespacedCapture(b)],
      coverage_summary |-> AnchorHeadline(inline, pinnacle)]

---------------------------------------------------------------------------
(* Properties *)

\* The readiness numbers that decide whether CLV_USE_BETFAIR_EXCHANGE is turned on are settlement's,
\* sport by sport: every pick on the winner counted with a usable exchange close has an exchange event
\* and is one the true-up would anchor on the exchange or refuse as implausible; and a close the true-up
\* would attach from exchange rows near the kickoff is not left out.
UsableCloseAttaches ==
  LET picks == {p \in PickedOn : p[2] = "moneyline"}
      report == CoverageReport(picks)
  IN \A k \in DOMAIN report.by_sport :
       LET ours == {p \in picks : SportOfPick(p) = k}
           attached == {p \in ours : Attaches(p)}
           counted == report.by_sport[k].counted
       IN /\ counted <= Cardinality(attached \union (ours \intersect Implausible))
          /\ counted <= report.event_by_sport[k].counted
          /\ BaseOf[k] \in Bases =>
               Cardinality({p \in attached : Fresh(p[1], ExchangeRows(p[1]))}) <= counted

\* The report on picks explains what it leaves unmatched.  A pick said to have no candidates is one
\* settlement finds no game for, a coverage gap indeed; a pick settlement would price on its own names
\* is not reported unmatched, however often the archive has its game; nor is one whose candidates are
\* all of its league.
GapsAreGaps ==
  LET report == ResolutionReport.picks
      closing == {p \in PickedOn : PinnacleClose(p[1]) # {}}
      plain == {p \in closing : \/ \E c \in PinnacleClose(p[1]) : Exact(p[1], c)
                               \/ \A c \in Eligible(p[1], Namespace(p[1])) : LeaguesAgree(p[1], c)}
  IN /\ report.no_archive_candidates <= Cardinality(PickedOn \ closing)
     /\ Cardinality(plain) <= report.matched
     /\ report.matched + report.no_archive_candidates + report.unmatched_with_candidates = report.total

\* The panels ask the warehouse in their own way and yet miss nothing the true-up would use: of the
\* fixtures to come, one with a usable exchange close is counted as captured, and one the archive has
\* near its kickoff under its own names as matched.
PanelsMissNothing ==
  LET header == ResolutionReport.coverage_summary
      usable(b) == {m \in Upcoming(b) : HasClose(<<m, "moneyline">>)}
      closing(b) == {m \in Upcoming(b) : \E c \in PinnacleClose(m) : Exact(m, c)}
  IN /\ Cardinality(usable("soccer")) + Cardinality(usable("basketball")) <= header.betfair_captured
     /\ Cardinality(closing("soccer")) + Cardinality(closing("basketball")) <= header.pinnacle_matched

\* The three instruments together, as they stand beside each other in the report.
CoverageIsHonest == UsableCloseAttaches /\ GapsAreGaps /\ PanelsMissNothing

=============================================================================
