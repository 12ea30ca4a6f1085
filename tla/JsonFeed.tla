------------------------------- MODULE JsonFeed -------------------------------
(***************************************************************************)
(* The OddsPortal JSON feed (app/ingestion/oddsportal_json.py and          *)
(* oddsportal_json_session.py), in two parts that share no variable.       *)
(*                                                                         *)
(* One poll: every listed match is scraped under a bounded number of       *)
(* slots, retried when the scrape raises a transient error, and the cycle  *)
(* is judged against the last complete one of its sport.  The scrape is    *)
(* the shipped one, scrape_match_odds, or one handed to the loader in its  *)
(* place, as the tests do.                                                 *)
(*                                                                         *)
(* One match: from what its page shows to snapshot rows, along the two     *)
(* paths that must not differ, the rendered page, whose prices carry       *)
(* labels (OddsPortalLoader._convert_match), and the feed, whose prices    *)
(* are told apart by their position and whose books by a number            *)
(* (parse_feed_payload).  A price is named by the outcome and the entry it *)
(* was quoted for; a line is in quarters of a goal.                        *)
(***************************************************************************)
EXTENDS Integers, Sequences, FiniteSets

CONSTANTS Slate,         \* matches a listing may show
          FeedMarkets,   \* markets asked for
          FeedSlots,     \* ODDSPORTAL_JSON_CONCURRENCY
          MaxAttempts    \* MATCH_MAX_ATTEMPTS

ASSUME FeedAssumption ==
  IsFiniteSet(Slate) /\ IsFiniteSet(FeedMarkets) /\ FeedSlots \in Nat \ {0} /\ MaxAttempts \in Nat \ {0}

VARIABLES shipped,    \* the scrape is scrape_match_odds
          listing,    \* matches of the cycle under way
          fetch,      \* where each of them stands
          cycleAt,    \* "idle" or "fetching"
          baseline,   \* _prev_cycle_rows, 0 for none
          outcome     \* of the last cycle: its rows and its verdict

feedVars == <<shipped, listing, fetch, cycleAt, baseline, outcome>>

Unlisted == [at |-> "unlisted", attempts |-> 0, got |-> {}]
CycleVerdicts == {"none", "empty slate", "complete", "collapse", "market missing"}

FeedTypeOK ==
  /\ shipped \in BOOLEAN
  /\ listing \subseteq Slate
  /\ fetch \in [Slate -> [at : {"unlisted", "queued", "in slot", "backing off", "done", "failed"},
                          attempts : 0 .. MaxAttempts, got : SUBSET FeedMarkets]]
  /\ cycleAt \in {"idle", "fetching"}
  /\ baseline \in 0 .. Cardinality(Slate) * Cardinality(FeedMarkets)
  /\ outcome \in [rows : 0 .. Cardinality(Slate) * Cardinality(FeedMarkets), verdict : CycleVerdicts]

FeedInit ==
  /\ shipped \in BOOLEAN
  /\ listing = {}
  /\ fetch = [k \in Slate |-> Unlisted]
  /\ cycleAt = "idle"
  /\ baseline = 0
  /\ outcome = [rows |-> 0, verdict |-> "none"]

-----------------------------------------------------------------------------
(* scrape_match_odds and fetch_match_feed *)

\* A GET of the match page or of a market's feed that fails on the wire, whatever libcurl
\* says of it, a status that is not 200, an envelope without odds or one that does not
\* decrypt: each is logged and makes a gap. Nothing of it is raised.
Surfaces(kind) == IF shipped THEN "nothing" ELSE kind

\* What one attempt comes to: the markets it brought rows for, or what it raised. The
\* wire may fail for the page, which leaves nothing, or for some of the feeds.
ScrapeOutcomes ==
  [got : SUBSET FeedMarkets, raised : {"nothing"}]
  \cup [got : {{}}, raised : {Surfaces("transient"), Surfaces("permanent"), "unclassified"}]

-----------------------------------------------------------------------------
(* run_cycle *)

StartFeedCycle ==
  /\ cycleAt = "idle"
  /\ cycleAt' = "fetching"
  /\ \E matches \in SUBSET Slate :
       /\ listing' = matches
       /\ fetch' = [k \in Slate |-> IF k \in matches THEN [Unlisted EXCEPT !.at = "queued"] ELSE Unlisted]
  /\ UNCHANGED <<shipped, baseline, outcome>>

InSlot == {k \in listing : fetch[k].at = "in slot"}

\* _attempt: the slot is held for one attempt.
TakeSlot(k) ==
  /\ fetch[k].at = "queued" /\ Cardinality(InSlot) < FeedSlots
  /\ fetch' = [fetch EXCEPT ![k].at = "in slot", ![k].attempts = @ + 1]
  /\ UNCHANGED <<shipped, listing, cycleAt, baseline, outcome>>

AfterAttempt(f, o) ==
  [f EXCEPT !.got = o.got,
            !.at = IF o.raised = "nothing" THEN "done"
                   ELSE IF o.raised = "transient" /\ f.attempts < MaxAttempts THEN "backing off" ELSE "failed"]

AttemptEnds(k) ==
  /\ fetch[k].at = "in slot"
  /\ \E o \in ScrapeOutcomes : fetch' = [fetch EXCEPT ![k] = AfterAttempt(@, o)]
  /\ UNCHANGED <<shipped, listing, cycleAt, baseline, outcome>>

\* tenacity's sleep is over: the match asks for a slot again.
BackOffEnds(k) ==
  /\ fetch[k].at = "backing off"
  /\ fetch' = [fetch EXCEPT ![k].at = "queued"]
  /\ UNCHANGED <<shipped, listing, cycleAt, baseline, outcome>>

-----------------------------------------------------------------------------
(* _evaluate_completeness and the baseline *)

RowsOf(k) == IF fetch[k].at = "done" THEN fetch[k].got ELSE {}

\* The rows gathered, one for a match and a market
Gathered  == {r \in listing \X FeedMarkets : r[2] \in RowsOf(r[1])}
Rows      == Cardinality(Gathered)
Missing   == FeedMarkets \ {r[2] : r \in Gathered}

\* 80% of the last complete cycle's rows, then a market that no match has while others do.
Verdict ==
  IF listing = {} THEN "empty slate"
  ELSE IF baseline > 0 /\ 5 * Rows < 4 * baseline THEN "collapse"
  ELSE IF Rows > 0 /\ Missing # {} /\ Missing # FeedMarkets THEN "market missing"
  ELSE "complete"

\* Slip: every cycle with rows becomes the next one's measure.
SlipNextBaseline == IF Rows > 0 THEN Rows ELSE baseline

\* Only a complete cycle with rows becomes the next one's measure.
NextBaseline == IF Verdict = "complete" /\ Rows > 0 THEN Rows ELSE baseline

\* gather returns when every match has ended; the rows are handed on either way.
EndFeedCycle ==
  /\ cycleAt = "fetching" /\ \A k \in listing : fetch[k].at \in {"done", "failed"}
  /\ outcome' = [rows |-> Rows, verdict |-> Verdict]
  /\ baseline' = NextBaseline
  /\ cycleAt' = "idle"
  /\ listing' = {}
  /\ fetch' = [k \in Slate |-> Unlisted]
  /\ UNCHANGED shipped

FeedNext ==
  \/ StartFeedCycle \/ EndFeedCycle
  \/ \E k \in Slate : TakeSlot(k) \/ AttemptEnds(k) \/ BackOffEnds(k)

FeedSpec == FeedInit /\ [][FeedNext]_feedVars

-----------------------------------------------------------------------------
\* A degradation that goes on is still seen: after a cycle flagged for a collapse of its
\* rows no cycle of a slate is passed as complete before the rows grow again
\* (oddsportal.py:1291-1296).
CollapseStaysSeen ==
  [][EndFeedCycle /\ outcome.verdict = "collapse" /\ outcome'.verdict = "complete"
       => outcome'.rows > outcome.rows]_feedVars

-----------------------------------------------------------------------------
(* One match: what its page shows, and the rows the two paths make of it   *)

CONSTANTS KnownBooks,   \* the books of the static id map
          FeedLines,    \* the handicap lines the site may list, in quarters
          MaxEntries    \* bound: entries of a market

ASSUME FeedRowsAssumption == MaxEntries \in Nat

VARIABLES shown,        \* what the site shows of a match
          feed,         \* the rows of the feed
          page          \* the rows of the page

feedRowVars == <<shown, feed, page>>

UnknownBook == "a book of another country"

\* The markets of a match: football's 1x2 and totals, basketball's money line, and the handicap
\* family, of which every line the site lists is wanted.
FeedMarketKeys == {"1x2", "over_under_2_5", "home_away", "asian_handicap"}

\* External: the site's outcomes of a market, in the order of the feed, and the label that
\* OddsHarvester gives each on the page.
Outcomes(key) ==
  CASE key = "1x2" -> <<"home", "draw", "away">>
    [] key = "over_under_2_5" -> <<"over", "under">>
    [] OTHER -> <<"home", "away">>

OutcomesOf(key) == {Outcomes(key)[i] : i \in DOMAIN Outcomes(key)}

PageLabel(key, result) ==
  CASE key \in {"1x2", "home_away"} -> [home |-> "1", draw |-> "X", away |-> "2"][result]
    [] key = "over_under_2_5" -> [over |-> "odds_over", under |-> "odds_under"][result]
    [] key = "asian_handicap" -> [home |-> "team1_handicap", away |-> "team2_handicap"][result]

\* Slip: the map of 2026-06-25 and before: draw and away change places.
SlipIndexToLabel(key) ==
  CASE key = "1x2" -> <<"1", "2", "X">>
    [] key = "over_under_2_5" -> <<"odds_over", "odds_under">>
    [] key = "home_away" -> <<"1", "2">>
    [] key = "asian_handicap" -> <<"team1_handicap", "team2_handicap">>

\* index_to_label of the feed's markets
IndexToLabel(key) ==
  CASE key = "1x2" -> <<"1", "X", "2">>
    [] key = "over_under_2_5" -> <<"odds_over", "odds_under">>
    [] key = "home_away" -> <<"1", "2">>
    [] key = "asian_handicap" -> <<"team1_handicap", "team2_handicap">>

\* _selections: the selection a label stands for, in the market (and line) of a market_detail
SelectionOf(detail, label) ==
  CASE label \in {"1", "team1_handicap"} -> <<"home", detail.line>>
    [] label \in {"2", "team2_handicap"} -> <<"away", 0 - detail.line>>
    [] label = "X" -> <<"draw", 0>>
    [] label = "odds_over" -> <<"over", 0>>
    [] label = "odds_under" -> <<"under", 0>>

-----------------------------------------------------------------------------
(* What the site shows: for one market a list of entries per line.  Two entries *)
(* of one book happen (a price history).  An outcome with no price, or one of   *)
(* 1.0, is not offered.  The event may leave out which market is its headline.  *)

Entries(key) ==
  UNION {[1 .. n -> [book : KnownBooks \cup {UnknownBook}, offered : SUBSET OutcomesOf(key)]] : n \in 1 .. MaxEntries}

\* Two lines of the ladder carry the same entries.
Shown ==
  UNION {[key : {key}, entries : Entries(key), headline : BOOLEAN,
          lines : IF key = "asian_handicap" THEN {l \in SUBSET FeedLines : Cardinality(l) <= 2} ELSE {{0}},
          clock : {"told", "absent", "garbled"}] : key \in FeedMarketKeys}

\* _parse_odds
Priced(entry, result) == result \in entry.offered

\* Slip: every entry of a book is taken.
SlipFirstOfBook(entries, n) == TRUE

\* seen_books: of the entries of a book only the first is taken.
FirstOfBook(entries, n) == \A k \in 1 .. n - 1 : entries[k].book # entries[n].book

RowOf(detail, entries, n, label, result, at) ==
  [detail |-> detail, book |-> entries[n].book, selection |-> SelectionOf(detail, label),
   price |-> <<result, n>>, at |-> at]

Detail(key, line) == [key |-> key, line |-> line]

-----------------------------------------------------------------------------
(* The feed                                                                     *)

\* _resolve_feed_market: pinned for football, bound to the event's headline for the others; the
\* football handicap is pinned to full time.
Resolvable(s) == s.key = "home_away" => s.headline

\* The half lines of the ladder
HalfLine(line) == line % 4 = 2

WantedLines(s) == IF s.key = "asian_handicap" THEN {l \in s.lines : HalfLine(l)} ELSE s.lines

\* _outcome_at: the price at a position, in a list or under its number.
OutcomeAt(key, position) == Outcomes(key)[position]

\* _feed_captured_at: the feed's own time; now when it is left out or garbled.
CapturedAt(s) == IF s.clock = "told" THEN "then" ELSE "now"

\* _emit_block for one line: books without a name are left out.
EmitBlock(s, line) ==
  LET taken(n) == s.entries[n].book \in KnownBooks /\ FirstOfBook(s.entries, n)
  IN  UNION {{RowOf(Detail(s.key, line), s.entries, n, IndexToLabel(s.key)[i], OutcomeAt(s.key, i), CapturedAt(s)) :
                i \in {i \in DOMAIN IndexToLabel(s.key) : Priced(s.entries[n], OutcomeAt(s.key, i))}} :
               n \in {n \in DOMAIN s.entries : taken(n)}}

ParseFeedPayload(s) == IF Resolvable(s) THEN UNION {EmitBlock(s, l) : l \in WantedLines(s)} ELSE {}

-----------------------------------------------------------------------------
(* The page                                                                     *)

\* _convert_match for the lines that the operator listed; _validate_markets refused the others.
ConvertMatch(s) ==
  UNION {{RowOf(Detail(s.key, line), s.entries, n, PageLabel(s.key, o), o, CapturedAt(s)) :
            line \in WantedLines(s), o \in {o \in OutcomesOf(s.key) : Priced(s.entries[n], o)}} :
           n \in {n \in DOMAIN s.entries : FirstOfBook(s.entries, n)}}

-----------------------------------------------------------------------------
FeedRowsInit ==
  /\ shown \in Shown
  /\ feed = {} /\ page = {}

ReadFeed ==
  /\ feed' = ParseFeedPayload(shown)
  /\ UNCHANGED <<shown, page>>

ReadPage ==
  /\ page' = ConvertMatch(shown)
  /\ UNCHANGED <<shown, feed>>

FeedRowsNext == ReadFeed \/ ReadPage

FeedRowsSpec == FeedRowsInit /\ [][FeedRowsNext]_feedRowVars

-----------------------------------------------------------------------------
\* Types
FeedRowsTypeOK ==
  \A r \in feed \cup page : r.detail.key \in FeedMarketKeys /\ r.price[2] \in 1 .. MaxEntries

\* The two paths store the same match: every price of the feed stands for the selection it was
\* quoted for, the page says the same of every book that has a name, no book has two prices of one
\* selection in one devig group, and no line that can push gets in (docstring of
\* parse_feed_payload: "Reproduces `oddsportal._convert_match` at the OUTPUT boundary").
FeedMatchesPage ==
  /\ \A r \in feed \cup page : r.selection[1] = r.price[1]
  /\ \A lines \in {feed, page} : \A r, q \in lines :
       r.detail = q.detail /\ r.book = q.book /\ r.selection = q.selection => r = q
  /\ \A r \in feed : r.detail.line % 4 \in {0, 2} /\ (r.detail.key = "asian_handicap" => HalfLine(r.detail.line))
  /\ page # {} /\ feed # {} => feed = {r \in page : r.book \in KnownBooks}

=============================================================================
