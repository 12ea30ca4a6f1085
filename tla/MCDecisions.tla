----------------------------- MODULE MCDecisions -----------------------------
(***************************************************************************)
(* From a price to a verdict, in one run: what a market means, its fair    *)
(* value, the gates and settings a candidate passes, the model that may    *)
(* demote it, and what is afterwards said of it.  The components share no  *)
(* variable here, so the run explores each by itself: "part" says which    *)
(* one moves, and the others stay in one of their initial states.          *)
(***************************************************************************)
EXTENDS MarketTerms, FairValue, PickGates, Composition, ValueFilter, Backtests, Figures, TLC

VARIABLE part

Parts == {"terms", "fair", "gates", "settings", "filter", "evidence", "backtests", "price"}

-----------------------------------------------------------------------------
(* The values of the constants                                             *)

MCLines == -7 .. 7

\* FairValue: home, draw and away in hundredths, two of them with home and away or home and draw
\* swapped, one over the overround, one without its third leg.
MCPriceLines == {<<50, 34, 16>>, <<50, 16, 34>>, <<48, 37, 19>>, <<60, 45, 30>>, <<48, 37, 0>>}
MCPreferred  == <<"pinnacle", "exchange">>

(* PickGates *)

\* Ways to differ from a record in one field.
Vary(r, options) == {r} \cup UNION {{[r EXCEPT ![f] = v] : v \in options[f]} : f \in DOMAIN options}

OneXTwo  == [detail |-> "1x2", stem |-> "1x2", family |-> "h2h"]
AhLine   == [detail |-> "asian_handicap_-0_5", stem |-> "asian_handicap", family |-> "spreads"]

MoveRow(age, implied) == [age |-> age, implied |-> implied]
Calm      == [fill |-> <<MoveRow(3, 40), MoveRow(0, 40)>>, anchor |-> <<MoveRow(3, 46), MoveRow(0, 46)>>]
Converged == [fill |-> <<MoveRow(3, 40), MoveRow(0, 44)>>, anchor |-> <<MoveRow(3, 46), MoveRow(0, 46)>>]
Leaving   == [fill |-> <<MoveRow(3, 44), MoveRow(0, 40)>>, anchor |-> <<MoveRow(3, 46), MoveRow(0, 46)>>]
Steady    == [fill |-> <<MoveRow(0, 40)>>, anchor |-> <<MoveRow(3, 46)>>]

ClearCut == [market |-> OneXTwo, sport |-> "soccer", league |-> "major", anchor |-> "pinnacle",
          edge |-> 5, odds |-> 20, softBooks |-> 2, sharpBooks |-> 1, score |-> "none",
          moves |-> Calm, kickoff |-> 3, captured |-> 0]

MCCandidates ==
  LET options == [market |-> {AhLine}, sport |-> {"soccer_epl", "tennis"}, league |-> {"minor", ""},
                  anchor |-> {"consensus"}, edge |-> {0, 1, 2, 25}, odds |-> {60, 160},
                  softBooks |-> {1}, score |-> {"low", "high"},
                  moves |-> {Converged, Leaving, Steady}, kickoff |-> {1, 2}]
  IN  UNION {Vary(c, options) : c \in Vary(ClearCut, options)}

OpenPolicy == [minEdge |-> <<>>, maxEdge |-> <<>>, minBooks |-> <<>>, majors |-> {}, visibilityOnly |-> {},
         bands |-> {}, sharpOnly |-> FALSE, experimental |-> {}, filter |-> "off", steam |-> "off",
         steamAway |-> FALSE]

MCPolicies ==
  LET options == [minEdge |-> {"1x2" :> 2, "h2h" :> 4}, maxEdge |-> {"spreads" :> 30},
                  minBooks |-> {"h2h" :> 2}, majors |-> {{"major"}},
                  visibilityOnly |-> {{[sport |-> "any", market |-> "asian_handicap"]},
                                      {[sport |-> "soccer", market |-> "h2h"]}},
                  bands |-> {{<<18, 26>>}}, sharpOnly |-> {TRUE}, experimental |-> {{"tennis"}},
                  filter |-> {"shadow", "enforced"}, steam |-> {"shadow", "enforced"},
                  steamAway |-> {TRUE}]
  IN  Vary(OpenPolicy, options)

(* Composition *)

Slugs(b, t) == [Defaults.leagues EXCEPT !.basketball = b, !.tennis = t]

Floor(k, v) == <<[key |-> k, value |-> v]>>

\* Each topic's settings are tried against the defaults of the others.
MCEnvironments ==
  {[Defaults EXCEPT !.source = s, !.strategy = st, !.leagues = Slugs(b, t), !.nbaExperimental = n, !.unvalidatedPicks = u, !.oddsKeys = 1] :
     s \in {"oddsportal", "odds_api"}, st \in {"value", "model"}, b \in {"none", "some"},
     t \in {"none", "some", "all"}, n \in BOOLEAN, u \in BOOLEAN}
  \cup {[Defaults EXCEPT !.source = "odds_api"], [Defaults EXCEPT !.safe = FALSE],
        [Defaults EXCEPT !.marketKeys = 5], [Defaults EXCEPT !.concurrency = 6],
        [Defaults EXCEPT !.devig = "multiplicative"], [Defaults EXCEPT !.drawdown = "half"]}
  \cup {[Defaults EXCEPT !.database = d, !.arcadia = a, !.exchange = x, !.exchangeApi = i, !.apiCredentials = c] :
          d, a, x, i, c \in BOOLEAN}
  \cup {[Defaults EXCEPT !.perBet = b, !.perEvent = e, !.perDay = d, !.eventCap = on] :
          b, e, d \in 1..3, on \in BOOLEAN}
  \cup {[Defaults EXCEPT !.auth = a, !.hash = h, !.secret = s, !.public = p] : a, h, s, p \in BOOLEAN}
  \cup {[Defaults EXCEPT !.volumeFloor = v, !.ceiling = c, !.floors = f, !.ceilings = g] :
          v \in {1, 4}, c \in {3, 20}, f \in {<<>>, Floor("btts", 2), Floor("btts", 0)},
          g \in {<<>>, Floor("btts", 3), Floor("btts", 4)}}
  \cup {[Defaults EXCEPT !.concurrency = 6, !.proxies = p] : p \in {<<1, 1>>, <<1, 2, 3, 4, 5, 6>>}}

(* Backtests: a season whose first four lines come in any order *)
Fixture(d, h, a, x) == [date |-> d, home |-> h, away |-> a, xg |-> x]
Season == <<Fixture(1, "a", "b", TRUE), Fixture(2, "b", "c", FALSE), Fixture(2, "a", "d", TRUE),
            Fixture(4, "c", "a", TRUE), Fixture(6, "b", "d", TRUE)>>
MCHistory == {[i \in 1 .. 5 |-> IF i = 5 THEN Season[5] ELSE Season[order[i]]] : order \in Permutations(1 .. 4)}
QuotedAt(e, p) == [edge |-> e, price |-> p]
MCMarkets1x2 == [{"H", "D", "A"} -> {QuotedAt(0, 20), QuotedAt(2, 20), QuotedAt(4, 14), QuotedAt(4, 20)}]

MCMinEdgeOf == [premium |-> 3, volume |-> 1]

-----------------------------------------------------------------------------
(* The parts side by side                                                  *)

SomeMarket == [key |-> CHOOSE k \in Keys : TRUE, home |-> 0, away |-> 0]
SomeEnv    == CHOOSE e \in Environments : TRUE
SomeFile   == CHOOSE f \in History : TRUE
SomeQuotes == CHOOSE q \in Markets1x2 : TRUE
SomePick   == CHOOSE p \in MintedPicks : TRUE

DecisionsInit ==
  /\ part \in Parts
  /\ part # "terms" => market = SomeMarket
  /\ part # "gates" => gatePolicy = OpenPolicy
  /\ part # "settings" => env = SomeEnv
  /\ part # "backtests" => file = SomeFile /\ quotes = SomeQuotes
  /\ part # "price" => pick = SomePick
  /\ TermsInit /\ FairInit /\ GatesInit /\ CompositionInit /\ FilterInit /\ EvidenceInit
  /\ BacktestsInit /\ LivePriceInit

\* Every part but p stays as it is.
StandStill(p) ==
  /\ UNCHANGED part
  /\ IF p = "terms"     THEN TRUE ELSE UNCHANGED termsVars
  /\ IF p = "fair"      THEN TRUE ELSE UNCHANGED fairVars
  /\ IF p = "gates"     THEN TRUE ELSE UNCHANGED gateVars
  /\ IF p = "settings"  THEN TRUE ELSE UNCHANGED compositionVars
  /\ IF p = "filter"    THEN TRUE ELSE UNCHANGED filterVars
  /\ IF p = "evidence"  THEN TRUE ELSE UNCHANGED evidenceVars
  /\ IF p = "backtests" THEN TRUE ELSE UNCHANGED backtestVars
  /\ IF p = "price"     THEN TRUE ELSE UNCHANGED livePriceVars

DecisionsNext ==
  \/ part = "terms"     /\ TermsNext       /\ StandStill("terms")
  \/ part = "fair"      /\ FairNext        /\ StandStill("fair")
  \/ part = "gates"     /\ GatesNext       /\ StandStill("gates")
  \/ part = "settings"  /\ CompositionNext /\ StandStill("settings")
  \/ part = "filter"    /\ FilterNext      /\ StandStill("filter")
  \/ part = "evidence"  /\ EvidenceNext    /\ StandStill("evidence")
  \/ part = "backtests" /\ BacktestsNext   /\ StandStill("backtests")
  \/ part = "price"     /\ LivePriceNext   /\ StandStill("price")

DecisionsSpec == DecisionsInit /\ [][DecisionsNext]_<<part, termsVars, fairVars, gateVars,
  compositionVars, filterVars, evidenceVars, backtestVars, livePriceVars>>

-----------------------------------------------------------------------------
(* Properties                                                              *)

\* The moving component's variables have their types.
DecisionsTypeOK ==
  CASE part = "terms"     -> TermsTypeOK     [] part = "fair"     -> FairTypeOK
    [] part = "gates"     -> GatesTypeOK     [] part = "settings" -> CompositionTypeOK
    [] part = "filter"    -> FilterTypeOK    [] part = "evidence" -> EvidenceTypeOK
    [] part = "backtests" -> BacktestsTypeOK [] part = "price"    -> LivePriceTypeOK

\* A price that cannot be trusted mints no pick: neither an anchor whose legs are swapped against
\* every other book, nor a price read once the game was under way
\* (_anchor_disagrees_with_consensus, the in-play gate of run_value_pipeline).
BadPricesMintNothing ==
  /\ part = "fair"  => SwappedAnchorMintsNothing
  /\ part = "gates" => NoInPlayPriceMints

\* Nothing acts before it has been found fit: no pick is demoted on a model whose holdout was not
\* passed, and settings that are accepted neither open the dashboard to the public nor starve the
\* first alert of a day (load_value_filter, the validators of Settings).
OnlyProvenIsLive ==
  /\ part = "filter"   => OnlyConfirmedDemotes
  /\ part = "settings" => AcceptedSettingsAreSafe

\* What is shown of a pick rests on what could be known: the verdicts on a live card agree, sharp
\* figures are of independent closes only, backtests and folds of earlier play only, and the trainers
\* train on the bets the backtest makes (latest_picks_with_events, _aggregate_settled,
\* walkforward.py, select_bets).
FiguresAreHonest ==
  /\ part = "price"     => VerdictsAgree
  /\ part = "evidence"  => SharpIsEvidence
  /\ part = "backtests" => NoHindsight /\ SameBets
=============================================================================
