# Verification of the betting-picks bot

TLA+ models of the bot's own core logic, TLC configurations that check them on
small instances, and TLAPS proofs of what matters most for every instance. The
program is the Python application under `src/app` with its trainers and backtests
under `src/scripts`: it polls odds sources, finds positive-expectation picks, sizes
them against a daily exposure cap, stores them, alerts the operator once per market
state, and later settles the picks and measures them against the closing line. It
places no bets.

Paths below are relative to `src/`.

## 1. Inventory

| Component | State it keeps | Operations | Hard behaviours | What makes it correct |
|---|---|---|---|---|
| Daily exposure ledger (`app/risk/exposure.py`) | bankroll used per day, per (day, event); in memory | reserve, preload, preload_event, release | restart in mid-day, midnight, two rooms that both bind | grants never exceed the daily cap nor the event cap, restarts included |
| Polling cycle (`app/pipeline.py`) | the cycle's locals: `now`, candidates, `premium_candidates` | sweep, gates, persist, sort, reserve, clip, dispatch, revalidate | every await is a preemption point; failed writes are swallowed; a raise abandons the cycle; the clock passes midnight | funding by raw Kelly, one reservation per pick, no funded pick forgotten, no pick on an in-play price |
| Picks table (`app/storage/repositories.py`) | one row per (event, market, selection, model version) | persist_pick (insert, promote, duplicate), supersede, update_pick_stake, settle, void | versions deployed and rolled back, promotion against settlement, created_at against the cycle's day | tier only ratchets up, at most one open row per opportunity and tier, a row keeps what was granted for it |
| Start-up (`app/main.py`, `seed_exposure_ledger`, `app/config.py`) | settings | validate, wire jobs, seed the ledger, load credentials | the seed may fail and the process starts all the same | the caps across processes; only safe settings are accepted |
| Alert dispatcher and dedupe store (`app/notifications/`) | claimed keys with expiry (Redis) | claim, send per sink, release | overlapping jobs, partial delivery, crash between claim and send, store failures, expiry | one sender per key, no repeat within the quiet period, nothing silenced for good |
| Self-audit, dead man's switch, watches (`app/maintenance/`) | active anomalies, empty streak, one-shot flag, notice keys | audit, release check, drift check | failing dispatch, failing audit, re-arming, expiry | told once per appearance and per outage |
| Settlement (`app/settlement/`) | pick status, result, profit; event scores | settle cycle, age-out voids, record_result, settle_event, grading | transactions racing the poll and the true-up; late scores; quarter lines | an open pick is settled once, by its own final score, at the right pay-out |
| Closing-line true-up (`app/clv_trueup.py`) | closing odds and provenance on open picks | revalidate, off-window rescrape, finalise, capture scores | minutes-long scrapes between read and write, budgets, overlapping jobs | a settled pick's closing fields do not move; every due event gets its turn |
| Odds history (`_persist_snapshots`) | last-seen cache, snapshots | append on change, sweep | cache updated against failed writes | a price change is never lost |
| Value policy (`app/edge/`) | none | anchor, devig, gates, tier, steam, floor price, stars | order of the gates, stale `now`, swapped anchors | only what passed every gate is premium |
| Odds sources (`app/ingestion/oddsportal*.py`, `base.py`) | proxy cursor, baselines, kick-off directory | list, fail over, fan out, retry, convert, judge the cycle | failover, concurrent passes, garbled clocks, a collapsed feed | no "no games" before the pool was tried, a price stays with its side |
| Sharp archives (`pinnacle_arcadia.py`, `betfair_*.py`) | change gates, transports' ring, session token | capture, sign in again, parse, merge, join | failing sports, lost sessions, bounded memories | the last row is the last price read |
| Event resolution (`app/resolution/`) | none | match, veto, flip, report | return games, women's teams, clubs with like names, turned addresses, leagues filed differently | the right game and the right side, or none; an audit and a report that agree with it |
| Scheduler (`app/scheduler.py`) | job instances, skip counters | interval and cron triggers, the noise filter | max_instances, coalescing, overrunning jobs | no two polls at once, a stuck job is reported |
| Sign-in and set-up (`app/api/auth.py`, `routes.py`) | credentials row, sessions | setup, login, logout | concurrent set-up, restart, expiry | credentials are created once |
| API and dashboard (`app/api/`) | none | games, health, picks, performance, match rate | restart, stale slates, figures from several queries | what is shown agrees with itself and with what could be known |
| Rows and migrations (`app/storage/models.py`, `alembic/`) | sport, league, team, event, version rows | get-or-create, upgrade, downgrade | two sessions inserting one key, keys that narrow | one row per thing, a pick keeps its version |
| Value filter, backtests, evidence (`app/models/`, `app/backtesting/`, `scripts/`) | two artefact files | train, adopt, load, demote; fold, replay, aggregate | a trainer that dies half-way, hindsight | only a passed holdout demotes, no bet knows its future |
| Numerics: Dixon-Coles, boosted trees, Shin, bootstraps | none | | reals | outside TLC (section 7) |

How they interact: the scheduler calls the cycle, the settle job, the true-up, the
captures and the monitors as coroutines of ONE event loop, so two of them interleave
only at awaits, and each database write is a transaction of its own. The cycle
writes the picks table, reserves from the ledger and calls the dispatcher; the
ledger is rebuilt from the table at start-up; the dispatcher's claims live in
Redis and outlive the process; the settle job and the operator's API close rows
the cycle may be about to promote; polls, captures and scripts write the same events
and snapshots, and the API reads them all.

## 2. Modules

| Module | Models |
|---|---|
| `ExposureLedger` | `DailyExposureLedger`: the rooms, `Granted` (what `reserve` returns), `Reserve`, `Preload`, `Release`, and lemmas about them |
| `LedgerClient` | the ledger with a client that asks and hands back, restarts and midnights |
| `PickLifecycle`, `PickLifecycle_proofs` | the polling cycle, the picks table, crash, redeployment, seeding; composes `ExposureLedger`, implements `DailyBudget` |
| `DailyBudget` | abstract: one capped, never decreasing account per day |
| `AlertDispatch`, `AlertDispatch_proofs` | dispatcher, sinks and dedupe store under several jobs; implements `QuietPeriod` |
| `QuietPeriod` | abstract: confirmed deliveries of a key are a quiet period apart |
| `Settlement`, `Settlement_proofs` | the settle cycle, both age-out voids, score books, the operator's two paths, the sessions' locks |
| `ClosingPrice`, `ClosingPrice_proofs` | one pick's closing columns under revalidation, promotion, settlement, finalisation |
| `OddsHistory` | change-only snapshots, their cache, the close that is read back |
| `ListingScrape` | a listing with failover, a shared proxy cursor, concurrent passes, a watchdog |
| `JsonFeed` | the feed: slots, retries, verdict and baseline of a cycle; a match from page to rows on two paths |
| `SharpCaptures`, `ExchangeApi`, `ExchangeArchive` | the two scheduled sharp captures, the API session, the history files with their merge and join |
| `Kickoffs` | who knows when a game starts: source, directory, table, two writers |
| `ScoreCapture` | two overlapping passes that capture final scores |
| `Resolution` | which archived game, and which side of it, a pick is priced against |
| `GamesView` | the slate and the health verdict across polls and restarts |
| `MarketTerms` | a market from its key to the money |
| `FairValue` | anchor, devigged line, swap check, value scan |
| `PickGates` | every gate from a priced candidate to a tier |
| `Composition` | settings: parsing, validators, what they wire |
| `ValueFilter` | the trainers' two files and the process that loads them |
| `Figures` | what is shown of a pick: edge, floor price and stars on a live card; the report on the settled ones |
| `Backtests` | features, folds, replays and bet selection |
| `JobScheduler`, `OffWindow` | instance limits and the noise filter; which picks' pages are fetched when no poll lists them |
| `Access` | first-run set-up, sign-in, sessions |
| `Monitors` | anomalies and the dead man's switch; release and drift notices against their keys |
| `EntityRows`, `Migrations` | get-or-create under concurrent transactions; six schema revisions over live rows, up and down |
| `AnchorCoverage` | the match-rate report against what settlement will attach |
| `MCSources`, `MCDecisions`, `MCServices` | group runs (section 4); the other `MC*` hold constants of the module they are named after |
| `Sources_proofs`, `Decisions_proofs`, `Services_proofs` | the proofs about every component of a group run, each EXTENDS the group's module |

A definition whose comment starts with "Slip" is a plausible mistake in the
definition that follows it. Nothing uses it: putting it in that definition's
place must break a property, which shows what the property depends on.

How state and actions correspond to the code:

- **`PickLifecycle`**: `picks` is the table, keyed by the unique constraint
  (opportunity, model version); `used`/`usedByEvent` are the ledger's two
  dictionaries; `deferred` is `premium_candidates`, `current` the candidate
  between two awaits of the funding loop; `claimed` are the alert keys Redis
  holds. `Detect` is one candidate's `persist_pick` (with
  `_supersede_older_versions` inside), then the actions of `_reserve_for_outcome`,
  `_persist_stake_clip` and the dispatch, one per await.
- **`AlertDispatch`**: one action per await of `AlertDispatcher.dispatch`: the
  claim (`SET NX EX`), each sink, the release. `Failure` covers a store that
  raises before or after doing its work, a sink that loses an alert and one that
  takes it and answers too late.
- **`Settlement`**: `status` and `result` are what is committed, `pending` the rows
  a session has inserted and not committed. A second session that inserts the
  same key waits, which is how the unique index `uq_result_tracking_pick` behaves
  under READ COMMITTED, so two sessions can wait for each other
  (`BreakDeadlock`). One action per select, per insertion and per commit.
- **`ClosingPrice`**: each writer is a session: it loads the row, works on what it
  loaded, and its flush writes only the columns it changed.
- **`ScoreCapture`**, **`OffWindow`**, **`ListingScrape`**: one action per await;
  time-outs and raises are actions beside the answer.
- **`EntityRows`**: one action per statement; a savepoint that fails is undone
  alone, a lost connection undoes the transaction.
- **`FairValue`, `MarketTerms`, `Composition`, `Figures`, `AnchorCoverage`**: mostly
  pure operators, one per function; the state is their input, chosen in `Init` or by
  an action of the environment.

## 3. Plan

The order in which the modules were written, most important behaviour first: the
ledger; the lifecycle over it; the dispatcher; settlement; the closing line and the
scores; the history, the sources and the archives; the gates, the fair value and the
terms; the services around them; resolution, evidence and coverage. The proofs
followed in the same order and now reach every invariant a passing run checks.

Next, in order of worth: the retries of a send that timed out and the key rotation of the
metered odds APIs (the open hazards of `PROJECT.json`); rescheduled games in
`Settlement`.

## 4. The checks

Every property of a passing run fails when one plausible mistake, the "Slip"
named in `PROJECT.json`, is made in the code's model.

| Run | Instance and bounds | Shows |
|---|---|---|
| `pick_cycle` | 3 opportunities, 2 on one event, daily cap 3, event cap 2, 1 failure | funding by raw Kelly when not all can be funded; both caps over what was ever granted, through a restart |
| `pick_midnight` | 2 days, 2 opportunities, both strategies, 1 failure, seeds may fail | grants on their rows, at most one grant per row, and refinement of `DailyBudget` |
| `pick_versions` | 1 opportunity, 3 model versions in any order, 2 failures, fair | supersession per tier, no row ever steps back, an alert stands on a premium row or a closed one, every funded pick is alerted. Three versions are the fewest with an intermediate one to skip |
| `dispatch` | 2 jobs wanting the same 2 keys, 0 to 2 configured sinks, life of a key 2, 2 failures, fair | one sender per key, quiet period (refinement of `QuietPeriod`), no claim stranded without a cause, nothing silenced for good |
| `settle` | 2 picks on one game, another game of the same teams two days later, a feed that writes one team differently and dates a day late, 1 failing cycle, 1 whole-event settle, fair | results and flips together, the operator's word stands, own final score, feed before scrape and score before void, every pick closes. Two picks on one event are the fewest that let two sessions deadlock |
| `closing` | 3 quotes (own book, another soft one, the anchor), 3 prices, 5 pages, kickoff in the middle, one overlapping cycle | a closing line is of one observation of the pick's own fill, never in-play, and does not move once the pick is closed |
| `sources` | 12 components, below | stored lines are current, prices keep their game and side, nothing is concluded early, established facts stand |
| `decide` | 8 components, below | markets balance, bad prices mint nothing, only what is proven acts, shown figures are honest, a shadow rule changes nothing |
| `service` | 9 components, below | caps hold, everyone gets a turn, the operator is told once, identities are kept, the coverage report is honest |
| `pick_unfunded_alert`, `settle_consecutive`, `kickoff_stale` | the smallest that show it | section 6 |

**The three group runs.** The components of `MCSources`, `MCDecisions` and
`MCServices` share no variable, and a product of independent state spaces would show
nothing a sum does not. So the variable `part` says which component moves, in all its
interleavings, while the others stand in an initial state; each property names the
parts it is about. What interacts is composed in a module of its own (`PickLifecycle`
with the ledger, `ScoreCapture` with the polls, `Kickoffs` with the capture).

Bounds of the group runs, and the case each is there for:

| Part | Bounds | Enough because |
|---|---|---|
| history | 2 quotes, 2 prices, kickoff 1 of 2, 1 failed write, a cache of 1 | a quote lost, swept, and changed in-play while another is not |
| listing | 3 proxies, failover 2, width 2, 2 pages | two passes that fail over into each other's proxy |
| cycle, rows (`JsonFeed`) | 2 matches, 2 markets, 1 slot, 2 attempts; 2 entries, lines -0.5, 0.75, 1.5 | a retry that waits while another match holds the slot; an unknown book, the same book twice, a quarter line |
| exchange, arcadia, api, archive | 2 games, a memory of 1; 2 sports and transports; 2 batches, 3 logins; 2 markets, 3 messages | a price forgotten and re-emitted; a sport that fails before another; a session lost twice; a market that turns in play and settles |
| kickoffs, scores, games | 2 games, days of 3 hours, 1 move, 1 restart; 1 page, 2 jobs; 3 games, 2 sports | an older kickoff against a newer; both jobs on one page; a sport that stops polling |
| match | a game, its return game, the women's game, a look-alike's game, a tennis match; listed either way round, in the page's league or another; 3 archived entries | every pair that can be confused is there |
| terms | lines -1.75 to 1.75, scores to 3 | every class of line on every margin up to 3 |
| fair, gates, settings | 5 book lines, every gate's threshold from both sides, each topic of settings against the defaults | each gate is decided by some candidate |
| filter, evidence, backtests, price | 2 training runs, 2 settled picks, 5 games in 24 file orders, 3 fairs | a manifest of another run; two rows that count differently; a same-day game |
| ledger, jobs, offwindow, access | caps 5 and 4 and requests 1 and 2 percent (as shipped); 3 jobs; 2 events with 2 slots; 2 operators | three requests of 2 overrun either cap; a turn can be lost; two set-ups race |
| audit, watches, rows, schema, coverage | k = 3; keys of 2 days; 2 writers, 2 spellings; 6 revisions; 2 ticks and 5 archived games | firing and re-arming; an expired key; the loser of an insertion; a key that merges rows; a close at, and past, the gap, duplicates that collapse and that do not, a near name in another league |

In `Settlement` a tick is a day (`DayTicks` = 1) in both fixtures: only the order
`SoftFloor` < `SettleDelay` <= `FullFloor` < `ScrapeWindow` < `VoidAge` of the
thresholds, and that a pass over pages ends by the void age, matter to its properties, and the
clock runs just past the void age. No tick
falls inside a transaction, which lasts milliseconds against thresholds of
minutes to weeks; the scrape pass does span ticks.

Type correctness of the lifecycle, the dispatcher and the settlement is proved (section 5)
and checked by no run; the group runs and `closing` check their types, which are proved as well.

### Fairness

- `PickLifecycle`: weak fairness of the process's own steps (one event loop that
  does not stop at an await for ever) and the assumption, about markets and not
  code, that an offered opportunity is offered again at premium strength.
- `AlertDispatch`: weak fairness of each job's steps, since the scheduler runs
  them again and again and every send has a timeout; time passes (strong, because
  the clock may move only between dispatches).
- `Settlement`: the interval trigger starts a cycle again and again, and a session
  that waits for another's row gets it in the end, since PostgreSQL queues its
  waiters (strong fairness: what it waits for comes and goes). Games end, time
  passes. No feed, page or operator need ever answer: that is what the age-outs
  are for.

The group runs state no fairness and check safety only: `EveryoneGetsATurn` is stated
as "nobody is overtaken", which needs none.

## 5. The proofs

All are checked by TLAPS for every value of the constants, without assumptions beyond
the named ASSUMEs of the modules and the two hypotheses named below. Every invariant
and every action property of a passing run is a theorem; so are the types of the three modules
whose runs do not check them. `Services_proofs`, `Sources_proofs` and `Decisions_proofs`
prove one inductive invariant per component and then, in one short section, that the group's
specification keeps them side by side: whichever part moves, the others stand where they
began.

**Ledger** (`ExposureLedger`: lemmas on what a grant, a booking and a seed do; first section of
`Services_proofs`). A grant respects the total held only because the ledger's figures
equal it on the current day, and midnight hands over to a day with nothing booked; the
inductive invariant adds both facts to the caps.

**Lifecycle** (`PickLifecycle_proofs`). Three invariants, each on top of the one before.

- `FundingInv` says what is true of a candidate between its row and its grant: the queue has one
  candidate per opportunity, each waiting candidate's row is premium, at least as large as its
  request, dated no earlier than the cycle's day, and not yet granted. From it: grants on rows,
  single grants, alerts that stand on their rows; with `KellyInv` the order of funding.
- `BooksInv` is what carries the caps across processes. An `Account` (of a day, or of an event on a
  day) says that what the rows were granted is at most the cap, once more for every start without a
  seed, and that all but those further caps is booked in the running process's ledger. The rows
  must be dated no later than the clock, or a seed would miss them. A grant moves the sum by the
  grant (`SumFunctionOnSet` over finitely many rows), a seed reads at least what its day
  still needs. From it: `CapsSurviveRestarts`, and the refinement of `DailyBudget`, step by
  step: a grant with a seeded ledger is a step of the account, everything else stutters.

**Dispatcher** (`AlertDispatch_proofs`). A sender holds a claim as young as its own dispatch, so
no other claim can succeed; a confirmed delivery is no older than the claim that covers
it, which gives the refinement of `QuietPeriod` step by step. A claim nobody is sending has reached
a channel unless a crash or a failing store left it (`SenderWasHeard`).

**Settlement** (`Settlement_proofs`).

- That rows and flips agree is not inductive: a commit must not land on a result that came in
  meanwhile. `WaitsClean` says a pick with an uncommitted row has no result.
- Grading follows the scores from the page or the feed into the book and through the
  lookup: a page is believed only when its game is over (`PagesInv`), books hold final
  scores under their games' own names and days (`BooksInv`), and, where the fixtures are
  apart (`FixturesApart`, a hypothesis: `settle_consecutive` shows it is needed), a lookup finds the
  pick's own game or nothing.
- Sources in their order (`ScoresBeforeVoids`, the theorem of `ScoresComeFirst`): picks are selected in one await and acted on in later ones. `PassesInv`: a
  due pick the feeds reach leaves the feed pass with a row, so what the scrape pass selects is
  out of their reach, whoever wrote in between. `VoidsInv`: a pick selected for a void was of an unknown game,
  and a game that becomes known has not started, or its game is so old that no pass still
  covers it (`CaptureInv` bounds the passes). The hypothesis is `WindowsApart`: the settle delay is
  positive, and the scrape window with a pass's budget is no longer than the void age, as shipped
  (14 days and 10 minutes against 15 days; section 6 says what a wider window does).

**Closing line** (`ClosingPrice_proofs`: types, `NoInPlayClose`, `LineIsOfThisFill`,
`FrozenOnceClosed`, for all books, prices, pages and delays). Revalidation, promotion and the three
closing paths load the row, wait, and write back only the columns they changed. The invariant
says when a loaded row is still THE row: an open re-pricing belongs to a cycle that began
before the game, and its row has not moved unless the operator closed it (`RevalInv`); a
closing job began when the game was over (`CloserInv`); nothing captured is from in-play
(`CapturesInv`). The operator may close a pick while a session on it is under way; the history
variable `raced` marks such a row, and the property says nothing else can mix its columns (section 6).

**Services** (`Services_proofs`).

- Access: the administrator's row is written once because it is inserted under a key, whatever
  the earlier check saw. Audit: the streak and the one-shot flag are tied to what the audits
  saw since the restart.
- Jobs: the noise filter counts what the history counts (`JobInv`). Off-window pages
  (`OffInv`): whoever was fetched while an event waited was attempted after it, on every pick, so the order
  cannot let the same one by again.
- Watches (`WatchInv`): the keys in the store are those of what was told, with their days, and no two
  pieces of news share a key.
- Rows (`EntityInv`): a writer that lost its insertion finds a committed row or its own to read
  again, and what it keeps no rollback of a later event takes away. Schema (`SchemaInv`): version ids
  are a key every pick refers to, and each revision tells the same of every strategy.
- Coverage: each figure is compared with what settlement attaches, for every slate and every set of
  picks. A usable close is the whole market (`CloseIsWhole`), and the reverse in the counted
  sports; what the hardened matcher takes is one of its candidates (`LeaderIsCandidate`: a least rank
  exists) and within six hours, hence among the report's, which go by calendar days (`NearIsADay`).

**Sources** (`Sources_proofs`). Twelve invariants; the ones that say most:

- History (`HistoryInv`): except where a write failed or another process wrote, what the cache
  remembers is what the table would answer, and the clock of the coverage gate is never ahead
  of the last page written before kickoff. Exchange and archive captures (`ExchangeInv`, `ArcadiaInv`)
  say the same of their gates.
- Listing (`ListingInv`): a proxy the pass has not tried is still ahead of the shared cursor,
  although other passes move it. API (`ApiInv`): a refused token is never the one in force.
- Archive (`ArchiveInv`): the record of a market only grows, a download is a prefix of it,
  and a price that was kept was given by a definition and a price message in that
  order; a close that is joined is of its own side because only one assignment of runners to
  sides fits the names.
- Resolution (`MatchInv`): a match, straight or flipped, resembles the pick's game side by side
  and marker by marker, and among the pick's own clubs it is the pick's game, because namesakes are
  never within the accept bound (`MatchAssumption`: return games and second meetings lie further apart).
  Nothing is assumed of look-alikes: an exactly listed own game costs nothing and any other game
  something, so a look-alike never comes first. Prices change sides only through a turned address;
  the audit looks at the displayed names and so accuses each. The report misses what displayed
  names resolve only when an eligible game is filed under another league, since its
  candidates contain all that are eligible (`BoundIsADay`).
- Scores (`ScoreInv`), kickoffs (`KickoffInv`), games (`GamesInv`) and the feed's two halves
  (`FeedInv`, `FeedRowsInv`) give the facts that stand: no step trades a real kickoff for a date, rewrites a
  score, or takes a collapse for complete.

**Decisions** (`Decisions_proofs`). Eight invariants:

- Terms: for every line and score one selection wins and the others lose, a tie pays as its kind
  says, and the two sides of an Asian line are mirrors. The arithmetic is in the lemmas on which
  lines goals can meet (`LinesMissGoals`) and on the halves of a quarter line (`SplitMirrors`).
- Fair value: a single book cannot move the median out of the other books' range, for any number of
  books. The median is a place in an order, and the proof goes through what a place is
  (`PlacesAre`, `EveryPlaceIsTaken`). A swapped anchor therefore meets a consensus that ranks the legs
  the other way by more than the tolerance, and the scan is vetoed. The property supposes
  that the others rank the two legs in whatever way they are mixed (`OthersRank`): medians of books that disagree
  among themselves may rank nothing (section 6).
- Gates, settings, filter, evidence and card (`GatesInv`, `SettingsInv`, `FilterInv`, `EvidenceInv`,
  `LivePriceInv`): a tier is given to a price read before its game; a process is up only under
  settings that were accepted; an enforced filter's manifest records a holdout that passed; a pick
  with a price has exactly the edge of its last fair against it.
- Backtests (`BuilderInv`, `WalkInv`): a team's form holds rows of the file that came earlier in the order of
  dates, hence, since a team plays once a day (`BacktestsAssumption`), of earlier days; the
  model of a walk was fitted on results that were over; and every pick of a fold is in the pool that
  a threshold no lower than the pool's floor selects from.

Two devices recur. Where a claim is about the first, best or last of a finite set, the
proof takes a smallest counterexample (`LeastNumber`, `LeastSubset`), which needs the well-foundedness
of the naturals and no induction over data. Where an operator builds a record or a set by
comprehension, a lemma states what its fields or members are, and the proofs cite it with
the operator hidden.

**Only model-checked**: liveness (`FundedIsAlerted`, `AlertKeepsArriving`, `EveryPickCloses`), which
TLAPS cannot reach here, nor ENABLED.

To be reasoned about, a few definitions were given another form with the same meaning: the
archive's stream loop is the definition and the price in force at a time, its caches are sets; the places
of a file's rows are counted (`Backtests!Ahead`); the closes of `Figures` are built column by column.
Constants got the types the code gives them.

## 6. Where the code and its documents differ

Shown by a run:

| Run | The code | The document |
|---|---|---|
| `pick_unfunded_alert` | a pick skipped for lack of room is alerted by the next cycle as a duplicate, at full stake, nothing reserved (`app/pipeline.py:775`) | `app/risk/exposure.py:3-4` |
| `settle_consecutive` | the second of two games of the same teams on consecutive days is settled with the first one's score while its own is missing (`app/settlement/results.py:133`) | `app/settlement/engine.py:7` |
| `kickoff_stale` | the exchange capture writes back the kickoff it read before its scrape, over a newer one (`app/storage/repositories.py:266`) | `app/ingestion/base.py:37-38` |

Seen while modelling and kept by no run:

- A clipped pick that is alerted again quotes the unclipped stake
  (`app/pipeline.py:775`; 767-768 and `tests/test_pipeline.py:276-280` say otherwise).
- A process stopped between claim and last sink leaves a claim that reached nobody
  (`app/notifications/dispatcher.py:33` against 3-4).
- With a scrape window set above 15 days a pick is voided inside it
  (`app/settlement/engine.py:128`, `app/config.py:1000`).
- An ungradable pick on a game whose score was captured is neither settled nor voided
  (`app/settlement/engine.py:154`); hung pages beyond the limit starve the other links
  of a score pass (`app/clv_trueup.py:736`).
- A release is announced again when its key expires (`app/maintenance/upstream_watch.py:97-98`
  says once).
- A promotion re-prices the row but leaves the first detection's mark of a devig method that
  fell back (`app/storage/repositories.py:2541`; the row is to describe the promoting detection,
  2570-2571).
- A volume pick's row that is closed, or superseded, and found again at premium strength is a
  "duplicate" and is alerted although no premium row stands for it (`app/pipeline.py:773-776`,
  `app/storage/repositories.py:2543-2608`); `AlertStandsOnItsRow` allows exactly that.
- "Settled picks are frozen" (`app/clv_trueup.py:8`) does not hold of a pick the operator settles ahead
  of the job while its re-pricing is open, or while the operator's own session holds an older
  reading of the row: the later flush writes its columns into the closed row, and fill and line are
  no longer of one observation. `LineIsOfThisFill` exempts this one case by name (`raced`).
- A game postponed to a date the source knows only by day keeps its old real kickoff.
- Running the trainer again without its final look overwrites an adopted manifest, and
  the two files are not written together (`scripts/ml/train_value_filter.py:1062`);
  a model saved by a run that then dies is enforced under the manifest of the run before.
- A page address that names the away side first, met by an archive entry that does too or by a
  look-alike's return game, yields the other side's price, which the comment rules out ("NEVER
  swapped", `app/storage/repositories.py:1900`). The audit accuses it.
- A club whose bare name passes both bars against another's may be taken for it
  when the pick's own game is not archived as displayed; the disambiguating tokens cover only the clubs
  they list (`app/resolution/matching.py:260`).
- The exchange gate compares with its own last price, not with the last row
  (`app/ingestion/betfair_exchange.py:426-435`), and a small limit does not sweep the slate
  while the poll writes the same book.
- A slow-moving market fails the snapshot close's coverage gate
  (`app/clv_trueup.py:795-804` says it does not).
- The close instrument counts moneyline rows whatever the pick's market
  (`app/storage/repositories.py:2098`): it promises a close to a totals pick whose market has none. The
  property is stated of picks on the winner, and up to the closes refused as implausible
  (`app/clv_trueup.py:915-925`), which no instrument can foresee.
- `merge_betfair_bsp.py` keeps markets of any type in one bucket when given loose files, so a
  draw-no-bet market may become a 1X2 close.
- The match report is meant to run "the SAME strict matcher" as settlement
  (`app/storage/repositories.py:1937`) and runs another: it blocks a candidate of another league, which settlement does not compare
  (`app/storage/repositories.py:2061-2062` against 1804), looks an address up by exact names only and does
  not fold tennis names. So it may call a pick unmatched that settlement resolves: the archive's
  leagues come with its games (`app/ingestion/pinnacle_arcadia.py:818-823`) and are seldom
  spelled as the page's. `GapsAreGaps` and `Reported` say that, of a team game's displayed names, the
  league is the only cause. The other way round it counts as matched, by day, an exactly named game
  more than six hours off, or captured too far apart, that settlement refuses; the panels do the same.
- Comments that are out of date: ">1 candidates qualify, returns None" (`app/resolution/matching.py:406`;
  the nearest is returned, 428-440), "stays exact-only" and "NEVER on the live anchor loader"
  (`app/storage/repositories.py:2051`) and "NO fuzzy" (1719; the loader uses the hardened matcher).
- The swap check compares the anchor with the MEDIAN of the other books
  (`app/edge/value.py`, `_consensus_implied`): books that disagree among themselves may
  rank no pair of selections, and then a swapped anchor passes.
- `value_volume_min_edge` may be set to zero (`app/config.py:349`): a pick whose edge is exactly
  zero is then shown as gone and as still good at once.
- Two fairs stand on one card after the close (`app/storage/repositories.py:378-381`); one
  sport's slate may be stale while `/health` is healthy, since it looks at the newest finish.
- The downgrade `f4a7c9d2e8b1` may be refused by the rows it rewrites.
- A per-market edge ceiling is compared with the global floor and not with the market's own
  (`app/config.py:1187-1195`); a proxy pool shorter than the concurrency can put two requests on
  one address when they are slow.

## 7. What is left out, and why

- **Numbers.** Stakes are whole percents, edges and probabilities hundredths, Kellys small
  ranks: sums, caps, order and thresholds are exact, the float rounding of `reserve` (1e-9) and the
  cents of `pick_pnl` are not modelled. Shin, power and logarithmic devigging, Dixon-Coles,
  gradient boosting, bootstraps and calibration curves compute with reals, outside TLC and
  TLAPS arithmetic; `FairValue` strips margins proportionally.
- **Names.** How alike two names are is an input: `Alike` in `Settlement`, the spelling and markers
  of a name, with the pairs of clubs that pass for one another, in `Resolution`, a cost per name in
  `AnchorCoverage`, which matches team games by displayed names only. The guard that a tennis match
  shares a token with its pick (`app/storage/repositories.py:1841`) always holds there. When two scores share a name and a day the book keeps the last,
  the model either.
- **Floors of zero.** `Figures` takes the edge floors to be positive, as shipped (section 6).
- **`persist_pick` in one step.** Its select, decision and flush are one step of `PickLifecycle`, and a promotion
  is one step of `ClosingPrice`. A settlement by the operator (the job waits for the game) that commits
  in the milliseconds between leaves the columns of `PickLifecycle` as one right after the flush does,
  since the two write different ones; but the flush then re-prices the fill of a closed row, which
  `FrozenOnceClosed`, stated of what the job could have closed, does not see.
- **Implausible closes.** Which picks' fills lie too far from their close is a constant of `AnchorCoverage`.
- **Rescheduled games.** `Settlement` learns a missing kickoff but does not move a
  known one; `Kickoffs` does.
- **The metered odds APIs** (`odds_api.py`, `oddspapi.py`): off by default, their key rotation
  lives within one call.
- **Parsers of result files, HTML and wire formats; layout; research notebooks and reports**: no
  state of the running system depends on their steps.
- **Migrations that only add a column** hold no row to lose.
