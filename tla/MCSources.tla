------------------------------ MODULE MCSources ------------------------------
(***************************************************************************)
(* The odds sources and what is kept of them, in one run.  The components  *)
(* share no variable here, so the run explores each by itself: "part" says *)
(* which one moves, and the others stay in one of their initial states.    *)
(***************************************************************************)
EXTENDS OddsHistory, ListingScrape, JsonFeed, SharpCaptures,
        ExchangeApi, ExchangeArchive, Kickoffs, ScoreCapture, Resolution, GamesView

CONSTANTS own, sharp, m1, m2, k1, k2, g1, g2, b1, p1, p2

VARIABLE part

Parts == {"history", "listing", "cycle", "rows", "exchange", "arcadia", "api", "archive",
          "kickoffs", "scores", "match", "games"}

-----------------------------------------------------------------------------
(* The values of the constants                                             *)

MCFeedLines == {-2, 3, 6}
MCSharpSports == <<p1, p2>>

\* A market of a matched event whose price the scrape has, one of no event, one without its teams.
Listed3(ref, k, roles, price, sc) == [ref |-> ref, kickoff |-> k, roles |-> roles, price |-> price, scraped |-> sc]
MCApiMarkets ==
  {Listed3({"e1"}, 1, TRUE, 195, {[price |-> 196, at |-> 0]}), Listed3({}, 1, TRUE, 300, {}),
   Listed3({"e2"}, 2, FALSE, 420, {})}

\* The match odds and a totals market of one event.
MCMarketIds == {1, 2}
MCListing == <<[type |-> MatchOdds, names |-> <<"T1", "T2", "draw">>, event |-> <<"T1", "T2">>],
               [type |-> OverUnder, names |-> <<"over", "under", "">>, event |-> <<"T1", "T2">>]>>
MCKickoff == <<1, 1>>

\* A game, its return game two days later, the women's game an hour later, a game of a club with a like
\* name that evening, and a tennis match.  The archive's name of a league may be the page's or not.
Game(s, m, t, ten) ==
  [sides |-> s, markers |-> m, start |-> t, tennis |-> ten, league |-> IF m = <<{}, {}>> THEN "l" ELSE ""]
Unmarked == <<{}, {}>>
Womens   == <<{"w"}, {"w"}>>
TheFirst   == Game(<<"a", "b">>, Unmarked, 72, FALSE)
TheRematch == Game(<<"b", "a">>, Unmarked, 120, FALSE)
TheWomens  == Game(<<"a", "b">>, Womens, 73, FALSE)
TheTwin    == Game(<<"a2", "b">>, Unmarked, 74, FALSE)
TheTennis  == Game(<<"p", "q">>, Unmarked, 72, TRUE)
MCRealGames == {TheFirst, TheRematch, TheWomens, TheTwin, TheTennis}
MCLookAlikes == {{"a", "a2"}}
PageOf(g, s, turned, l) ==
  [game |-> g, league |-> l, spelling |-> s, slugSpelling |-> "exact", slugMarkers |-> Unmarked,
   slugTurned |-> turned]
MCPickPages ==
  {PageOf(TheFirst, "exact", FALSE, "l"), PageOf(TheFirst, "near", FALSE, "other"),
   PageOf(TheFirst, "odd", TRUE, "other"), PageOf(TheFirst, "odd", FALSE, ""),
   PageOf(TheWomens, "odd", FALSE, "l"), PageOf(TheRematch, "odd", TRUE, "l"),
   PageOf(TheTwin, "exact", TRUE, "other"), PageOf(TheTennis, "odd", TRUE, "l")}
MCDrifts == {-5, 4}

\* Two football games, one without a kickoff, and a basketball game.
MCSportOf == [f1 |-> "soccer", f2 |-> "soccer", b1 |-> "basketball"]
MCStartOf == [f1 |-> {1}, f2 |-> {}, b1 |-> {1}]

-----------------------------------------------------------------------------
(* The parts side by side                                                  *)

SomeMatch == CHOOSE s \in Shown : TRUE
SomeHour  == CHOOSE h \in RealTimes : TRUE

SourcesInit ==
  /\ part \in Parts
  /\ part # "listing" => proxies = [p \in Proxies |-> "good"]
  /\ part # "cycle" => shipped = TRUE
  /\ part # "rows" => shown = SomeMatch
  /\ part # "exchange" => liquid = {} /\ backPrice = [g \in Fixtures |-> NoPrice]
  /\ part # "archive" => rowOf = [home |-> "T1", away |-> "T2", result |-> "H", goals |-> 3]
  /\ part # "kickoffs" => scheduled = [g \in Contests |-> SomeHour]
  /\ part # "scores" => hangs = {}
  /\ HistoryInit /\ ListingInit /\ FeedInit /\ FeedRowsInit /\ ExchangeInit /\ ArcadiaInit
  /\ ApiInit /\ ArchiveInit /\ KickoffInit /\ ScoreInit /\ MatchInit /\ GamesInit

\* Every part but p stays as it is.
StandStill(p) ==
  /\ UNCHANGED part
  /\ IF p = "history"  THEN TRUE ELSE UNCHANGED historyVars
  /\ IF p = "listing"  THEN TRUE ELSE UNCHANGED listingVars
  /\ IF p = "cycle"    THEN TRUE ELSE UNCHANGED feedVars
  /\ IF p = "rows"     THEN TRUE ELSE UNCHANGED feedRowVars
  /\ IF p = "exchange" THEN TRUE ELSE UNCHANGED exVars
  /\ IF p = "arcadia"  THEN TRUE ELSE UNCHANGED sharpVars
  /\ IF p = "api"      THEN TRUE ELSE UNCHANGED apiVars
  /\ IF p = "archive"  THEN TRUE ELSE UNCHANGED archiveVars
  /\ IF p = "kickoffs" THEN TRUE ELSE UNCHANGED kickoffVars
  /\ IF p = "scores"   THEN TRUE ELSE UNCHANGED scoreVars
  /\ IF p = "match"    THEN TRUE ELSE UNCHANGED matchVars
  /\ IF p = "games"    THEN TRUE ELSE UNCHANGED gamesVars

SourcesNext ==
  \/ part = "history"  /\ HistoryNext  /\ StandStill("history")
  \/ part = "listing"  /\ ListingNext  /\ StandStill("listing")
  \/ part = "cycle"    /\ FeedNext     /\ StandStill("cycle")
  \/ part = "rows"     /\ FeedRowsNext /\ StandStill("rows")
  \/ part = "exchange" /\ ExchangeNext /\ StandStill("exchange")
  \/ part = "arcadia"  /\ ArcadiaNext  /\ StandStill("arcadia")
  \/ part = "api"      /\ ApiNext      /\ StandStill("api")
  \/ part = "archive"  /\ ArchiveNext  /\ StandStill("archive")
  \/ part = "kickoffs" /\ KickoffNext  /\ StandStill("kickoffs")
  \/ part = "scores"   /\ ScoreNext    /\ StandStill("scores")
  \/ part = "match"    /\ MatchNext    /\ StandStill("match")
  \/ part = "games"    /\ GamesNext    /\ StandStill("games")

SourcesSpec == SourcesInit /\ [][SourcesNext]_<<part, historyVars, listingVars, feedVars, feedRowVars,
  exVars, sharpVars, apiVars, archiveVars, kickoffVars, scoreVars, matchVars, gamesVars>>

-----------------------------------------------------------------------------
(* Properties                                                              *)

\* The moving component's variables have their types.
SourcesTypeOK ==
  CASE part = "history"  -> HistoryTypeOK  [] part = "listing"  -> ListingTypeOK
    [] part = "cycle"    -> FeedTypeOK     [] part = "rows"     -> FeedRowsTypeOK
    [] part = "exchange" -> ExchangeTypeOK [] part = "arcadia"  -> ArcadiaTypeOK
    [] part = "api"      -> ApiTypeOK      [] part = "archive"  -> ArchiveTypeOK
    [] part = "kickoffs" -> KickoffTypeOK  [] part = "scores"   -> ScoreTypeOK
    [] part = "match"    -> MatchTypeOK    [] part = "games"    -> GamesTypeOK

\* Writing only what changed loses nothing: in each of the three change-only histories the last row
\* is the last price read, and the close of the main one the last price before kickoff, except where
\* a write failed or another writer came in between (_persist_snapshots, the two _select_fresh).
StoredLinesAreCurrent ==
  /\ part = "history"  => CacheMatchesTable /\ CloseIsLastSeen /\ CoverageMeansScraped
  /\ part = "arcadia"  => ArchiveHoldsLastFetch
  /\ part = "exchange" => OnlyStrayRowsDiffer

\* A stored price is a price of that selection, side and game, on every path that matches names: the
\* odds feed, the starting-price archive and, but for look-alike names and turned addresses, the sharp
\* archive (parse_feed_payload, home_draw_away_close, match_event_hardened).
PricesAreOfTheirSide ==
  /\ part = "rows"    => FeedMatchesPage
  /\ part = "archive" => ClosesAreOfTheSide
  /\ part = "match"   => ResolvedRight

\* Nothing is concluded before it has been tried: a scrape that says "no games" has been through its
\* proxies, a cycle lost to its session was refused two tokens, and a score is never taken from a
\* page that says the match is running (_scrape_with_failover, _call, _scrape_one_finished_score).
NothingIsConcludedEarly ==
  /\ part = "listing" => NothingIsEarned
  /\ part = "api"     => LostOnlyTwice
  /\ part = "scores"  => RunningScoreRejected

\* What is established is not given up: a real kickoff is not traded for a date, a recorded score is
\* not rewritten, a flagged collapse of the feed is not passed as complete while it lasts, a restart
\* does not take a game off the list, and a degraded engine does not recover without a poll
\* (prefer_kickoff, capture_finished_scores, run_cycle, latest_available_games_with_events,
\* _poll_health).
StandingFactsStand ==
  /\ RealKickoffStands /\ FirstScoreStands /\ CollapseStaysSeen
  /\ RestartKeepsGames /\ DegradedStands
=============================================================================
