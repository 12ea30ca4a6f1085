----------------------------- MODULE Composition -----------------------------
(***************************************************************************)
(* From the environment to the running process: the parsing and validation *)
(* of Settings (app/config.py), which refuse to start or let start, and    *)
(* what build_scheduler (app/scheduler.py) wires from what they let        *)
(* through: the sports and their standing, the jobs, the caps, the door of *)
(* the dashboard; then the picks of a wired sport.                         *)
(*                                                                         *)
(* Edges and stakes are in hundredths.                                     *)
(***************************************************************************)
EXTENDS Naturals, Sequences, FiniteSets

CONSTANTS Environments,  \* environments, of the shape of Defaults
          Edges          \* edges a candidate may have

ASSUME CompositionAssumption ==
  /\ Edges \subseteq Nat
  /\ \A e \in Environments :
       /\ {e.perBet, e.perEvent, e.perDay} \subseteq Nat
       /\ {e.eventCap, e.auth, e.hash, e.secret, e.public} \subseteq BOOLEAN

VARIABLES env,      \* the settings of this process
          app,      \* what it wired, {} while it is not up
          lastPick  \* the last pick, {} before any

compositionVars == <<env, app, lastPick>>

\* The defaults of the settings this module reads.  marketKeys is the longest market list of a
\* sport, safe the six flags of the safety table at once.
Defaults ==
  [source |-> "oddsportal", strategy |-> "value", database |-> TRUE,
   leagues |-> [soccer |-> "all", basketball |-> "all", tennis |-> "some", american_football |-> "some"],
   nbaExperimental |-> TRUE, unvalidatedPicks |-> FALSE, oddsKeys |-> 0,
   scrapedScores |-> TRUE, arcadia |-> TRUE, exchange |-> FALSE, exchangeApi |-> FALSE, apiCredentials |-> FALSE,
   safe |-> TRUE, perBet |-> 2, perEvent |-> 4, perDay |-> 5, eventCap |-> TRUE,
   volumeFloor |-> 1, premiumFloor |-> 3, ceiling |-> 20, floors |-> <<>>, ceilings |-> <<>>,
   minBooks |-> <<>>, bands |-> <<>>, minOdds |-> 13, devig |-> "power", drawdown |-> "none",
   auth |-> FALSE, hash |-> FALSE, secret |-> FALSE, public |-> FALSE,
   marketKeys |-> 4, marketBudget |-> 4, concurrency |-> 3, proxies |-> <<>>]

-----------------------------------------------------------------------------
(* Settings: a csv entry is a key and a value, with 0 for one that is not a     *)
(* number.                                                                      *)

\* _parse_market_map: every entry has a key and a value, and no key comes twice.
MarketMapParses(entries) ==
  \A i, j \in DOMAIN entries : entries[i].key # "" /\ (entries[i].key = entries[j].key => i = j)

\* parse_market_min_edges and parse_market_max_edges
EdgesParse(entries) ==
  MarketMapParses(entries) /\ \A i \in DOMAIN entries : 0 < entries[i].value /\ entries[i].value < 100

\* parse_market_min_books
BooksParse(entries) == MarketMapParses(entries) /\ \A i \in DOMAIN entries : entries[i].value >= 1

\* parse_odds_bands, in tenths of odds
BandsParse(bands) == \A i \in DOMAIN bands : 10 < bands[i].low /\ bands[i].low <= bands[i].high

\* parse_scraper_proxy_pool and parse_proxy_urls: no address comes twice.
ProxiesParse(proxies) == \A i, j \in DOMAIN proxies : proxies[i] = proxies[j] => i = j

\* _enforce_picks_only
PicksOnly(e) == e.safe

\* Slip: the event cap is only compared with the day's.
SlipCapsCoherent(e) == e.perBet <= e.perDay /\ (e.eventCap => e.perEvent <= e.perDay)

\* _enforce_stake_caps_coherent
CapsCoherent(e) ==
  /\ e.perBet <= e.perDay
  /\ e.eventCap => e.perBet <= e.perEvent /\ e.perEvent <= e.perDay

\* Slip: a public address asks for credentials only where sign-in is on.
SlipDoorIsSafe(e) ==
  /\ e.auth => (e.hash <=> e.secret)
  /\ e.public => (e.auth => e.hash /\ e.secret)

\* _enforce_dashboard_auth_config
DoorIsSafe(e) ==
  /\ e.auth => (e.hash <=> e.secret)
  /\ e.public => e.auth /\ e.hash /\ e.secret

\* _enforce_all_leagues_market_budget
MarketBudgetHolds(e) ==
  (\E s \in DOMAIN e.leagues : e.leagues[s] = "all") => e.marketKeys <= e.marketBudget

\* _enforce_scrape_concurrency_within_proxy_budget
ConcurrencyHolds(e) == e.concurrency <= 5 \/ e.concurrency <= Len(e.proxies)

\* _enforce_tier_ordering
TiersOrdered(e) == e.volumeFloor <= e.premiumFloor /\ e.premiumFloor < e.ceiling

\* _enforce_premium_adjustment_knobs
KnobsHold(e) ==
  /\ EdgesParse(e.floors) /\ \A i \in DOMAIN e.floors : e.floors[i].value >= e.volumeFloor
  /\ EdgesParse(e.ceilings) /\ \A i \in DOMAIN e.ceilings : e.ceilings[i].value > e.premiumFloor
  /\ BooksParse(e.minBooks)
  /\ e.devig # "multiplicative"
  /\ BandsParse(e.bands) /\ \A i \in DOMAIN e.bands : e.bands[i].high >= e.minOdds
  /\ e.drawdown # "half"
  /\ ProxiesParse(e.proxies)

Accepts(e) ==
  /\ PicksOnly(e) /\ CapsCoherent(e) /\ DoorIsSafe(e) /\ MarketBudgetHolds(e)
  /\ ConcurrencyHolds(e) /\ TiersOrdered(e) /\ KnobsHold(e)

-----------------------------------------------------------------------------
(* build_scheduler *)

UnprovenSports == {"tennis", "american_football"}

\* The sports a source polls.  The second source polls two fixed leagues.
PolledSports(e) ==
  CASE e.source = "oddsportal" -> {"soccer"} \cup {s \in DOMAIN e.leagues : e.leagues[s] # "none"}
    [] e.source = "odds_api"   -> IF e.oddsKeys > 0 THEN {"soccer_epl", "basketball_nba"} ELSE {}
    [] OTHER                   -> {}

\* Those whose picks are held in the volume tier.
Experimental(e) ==
  IF e.source # "oddsportal" THEN {}
  ELSE (IF e.nbaExperimental THEN PolledSports(e) \cap {"basketball"} ELSE {})
       \cup (IF e.unvalidatedPicks THEN PolledSports(e) \cap UnprovenSports ELSE {})

\* Those that are only shown.
VisibilityOnly(e) ==
  IF e.source = "oddsportal" /\ ~ e.unvalidatedPicks THEN PolledSports(e) \cap UnprovenSports ELSE {}

\* The ids of the jobs, next to the runs at start-up.
WiredJobs(e) ==
  LET polls == PolledSports(e) # {}
      scrapes == e.source = "oddsportal"
  IN  {j \in {"poll_odds", "settle_results", "snapshot_bankroll", "upstream_watch", "self_audit",
              "calibration_drift", "capture_finished_scores", "capture_pinnacle_arcadia",
              "capture_betfair_exchange", "capture_betfair_api_shadow", "refit_football_model"} :
        /\ j = "poll_odds" => polls
        /\ j \in {"self_audit", "calibration_drift", "capture_finished_scores",
                  "capture_pinnacle_arcadia", "capture_betfair_exchange",
                  "capture_betfair_api_shadow"} => e.database
        /\ j = "capture_finished_scores" => scrapes /\ e.scrapedScores
        /\ j = "capture_pinnacle_arcadia" => e.arcadia
        /\ j = "capture_betfair_exchange" => scrapes /\ e.exchange
        /\ j = "capture_betfair_api_shadow" => e.exchangeApi /\ e.apiCredentials
        /\ j = "refit_football_model" => scrapes /\ e.strategy = "model"}

\* The dashboard: open to everybody, open to whoever claims it first, or closed.
Door(e) == IF ~ e.auth THEN "open" ELSE IF e.hash THEN "closed" ELSE "claimable"

ProcessComesUp ==
  /\ app = {} /\ Accepts(env)
  /\ app' = {[sports |-> PolledSports(env), experimental |-> Experimental(env),
              visibilityOnly |-> VisibilityOnly(env), jobs |-> WiredJobs(env), door |-> Door(env)]}
  /\ UNCHANGED <<env, lastPick>>

\* The operator stops it, edits the .env and starts it again.
SettingsEdited ==
  /\ \E e \in Environments \ {env} : env' = e
  /\ app' = {} /\ lastPick' = {}

-----------------------------------------------------------------------------
(* A pick of a wired sport *)

\* DailyExposureLedger of a fresh day: what a stake is granted.
Granted(stake) ==
  LET limits == {stake, env.perDay} \cup (IF env.eventCap THEN {env.perEvent} ELSE {})
  IN  CHOOSE m \in limits : \A l \in limits : m <= l

\* The model strategy's model knows football of the scraped source alone.
Mintable(a, sport) ==
  /\ "poll_odds" \in a.jobs
  /\ sport \in a.sports \ a.visibilityOnly
  /\ env.strategy = "model" => env.source = "oddsportal" /\ sport = "soccer"

\* The first candidate of the day clears its gates at full Kelly; only a premium one is
\* funded and alerted.
PickMinted ==
  /\ \E a \in app : \E sport \in a.sports, edge \in Edges :
       /\ Mintable(a, sport)
       /\ env.volumeFloor <= edge /\ edge <= env.ceiling
       /\ LET premium == edge >= env.premiumFloor /\ sport \notin a.experimental
          IN  lastPick' = {[sport |-> sport, alerted |-> premium,
                          granted |-> IF premium THEN Granted(env.perBet) ELSE 0]}
  /\ UNCHANGED <<env, app>>

CompositionInit == env \in Environments /\ app = {} /\ lastPick = {}

CompositionNext == ProcessComesUp \/ SettingsEdited \/ PickMinted

CompositionSpec == CompositionInit /\ [][CompositionNext]_compositionVars

CompositionTypeOK ==
  /\ Cardinality(app) <= 1 /\ Cardinality(lastPick) <= 1
  /\ \A a \in app : a.door \in {"open", "claimable", "closed"} /\ a.visibilityOnly \subseteq a.sports

-----------------------------------------------------------------------------
\* Whatever the validators let start keeps two promises at once: a public address is never
\* answered by a dashboard that anybody may use or claim (config.py:1091-1110), and the first
\* alert of a day is funded in full, whatever the caps (config.py:1052-1054: "so a single
\* full-cap pick always fits").
AcceptedSettingsAreSafe ==
  /\ \A a \in app : env.public => a.door = "closed"
  /\ \A bet \in lastPick : bet.alerted => bet.granted = env.perBet

=============================================================================
