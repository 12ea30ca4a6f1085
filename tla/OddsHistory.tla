----------------------------- MODULE OddsHistory -----------------------------
(***************************************************************************)
(* The change-only odds history of one event: what a poll scrapes, the     *)
(* cache of the odds it last saw (app/pipeline.py, _persist_snapshots),    *)
(* the table odds_snapshots it appends to                                  *)
(* (app/storage/repositories.py, persist_odds_snapshots) and the close     *)
(* that is read back from that table (closing_odds_from_snapshots).        *)
(*                                                                         *)
(* A quote is one (bookmaker, line-qualified market, selection). A row is  *)
(* appended only when a quote's odds differ from the cached ones, so the   *)
(* table says what the odds WERE only if no change is ever adrift.         *)
(***************************************************************************)
EXTENDS Naturals, FiniteSets, FiniteSetsExt

CONSTANTS Quotes,       \* what the books quote on this event
          Prices,       \* decimal odds, in ticks
          Kickoff,      \* when the game starts
          MaxTime,      \* bound: the clock
          MaxFaults,    \* bound: failed writes
          SeenTTL,      \* ODDS_SEEN_TTL
          SeenMax,      \* ODDS_SEEN_MAX
          MaxGap        \* SNAPSHOT_CLOSE_MAX_GAP

ASSUME HistoryAssumption ==
  /\ IsFiniteSet(Quotes) /\ Prices \subseteq Nat \ {0}
  /\ Kickoff \in Nat /\ MaxTime \in Nat /\ MaxFaults \in Nat
  /\ SeenTTL \in Nat /\ SeenMax \in Nat /\ MaxGap \in Nat

VARIABLES clock,
          batch,        \* the cycle's snapshots: phase, when captured, the odds
          odds_seen,   \* PipelineDeps.odds_seen
          rows,        \* odds_snapshots
          faults,
          onSite,       \* history: the odds of the last page that was persisted
          onSiteAt,     \*          and when it was captured, kickoff included
          adrift       \* history: quotes a fault left with a table unlike the cache

historyVars == <<clock, batch, odds_seen, rows, faults, onSite, onSiteAt, adrift>>

Gone   == 0                                  \* the book does not quote it
NoTime == MaxTime + 1
Times  == 0 .. MaxTime
NeverSeen == [odds |-> Gone, at |-> NoTime]
NoPage == [phase |-> "none", at |-> NoTime, odds |-> [q \in Quotes |-> Gone]]

\* The quotes a cache holds.
Held(cache) == {q \in Quotes : cache[q] # NeverSeen}

HistoryTypeOK ==
  /\ clock \in Times /\ faults \in 0 .. MaxFaults
  /\ batch \in [phase : {"none", "fetched", "stored", "match"}, at : Times \cup {NoTime},
               odds : [Quotes -> Prices \cup {Gone}]]
  /\ odds_seen \in [Quotes -> [odds : Prices \cup {Gone}, at : Times \cup {NoTime}]]
  /\ rows \in [Quotes -> [Times -> Prices \cup {Gone}]]
  /\ onSite \in [Quotes -> Prices \cup {Gone}]
  /\ onSiteAt \in Times \cup {NoTime}
  /\ adrift \subseteq Quotes
  /\ Cardinality(Held(odds_seen)) <= SeenMax

HistoryInit ==
  /\ clock = 0 /\ faults = 0
  /\ batch = NoPage
  /\ odds_seen = [q \in Quotes |-> NeverSeen]
  /\ rows = [q \in Quotes |-> [t \in Times |-> Gone]]
  /\ onSite = [q \in Quotes |-> Gone]
  /\ onSiteAt = NoTime
  /\ adrift = {}

-----------------------------------------------------------------------------
(* Reading the table back *)

\* The times at which q has a row, up to a cutoff.
RowTimes(q, cutoff) == {t \in Times : t <= cutoff /\ rows[q][t] # Gone}

\* The last row at or before the cutoff: one quote's close, however old it is.
CloseRow(q, cutoff) ==
  IF RowTimes(q, cutoff) = {} THEN Gone ELSE rows[q][Max(RowTimes(q, cutoff))]

\* Slip: the coverage clock of the whole table, in-play rows included.
SlipLastCapture(quotes, cutoff) ==
  LET times == UNION {RowTimes(q, MaxTime) : q \in quotes}
  IN  IF times = {} THEN NoTime ELSE Max(times)

\* The event-wide clock of the coverage gate.
LastCapture(quotes, cutoff) ==
  LET times == UNION {RowTimes(q, cutoff) : q \in quotes}
  IN  IF times = {} THEN NoTime ELSE Max(times)

\* Whether a close read at the cutoff is fresh enough to be believed.
Fresh(quotes, cutoff) ==
  /\ LastCapture(quotes, cutoff) # NoTime
  /\ cutoff - LastCapture(quotes, cutoff) <= MaxGap

-----------------------------------------------------------------------------
(* The cycle *)

\* A quote's odds on the page, when the cache does not already hold them.
Differs(q) == batch.odds[q] # Gone /\ odds_seen[q].odds # batch.odds[q]

ToWrite == {q \in Quotes : Differs(q)}

\* Every quote of the page is now the last seen one, written or only refreshed.
SeenUpdates ==
  [q \in Quotes |->
     IF batch.odds[q] = Gone THEN odds_seen[q]
                            ELSE [odds |-> batch.odds[q], at |-> clock]]

\* Slip: only the time to live is looked at, not how many there are.
SlipSwept(cache) ==
  IF Cardinality(Held(cache)) <= SeenMax THEN {cache}
  ELSE {[q \in Quotes |-> IF clock <= cache[q].at + SeenTTL THEN cache[q] ELSE NeverSeen]}

\* _sweep_odds_seen: nothing under the cap; above it what has outlived the
\* time to live goes, then the oldest until the cap is met.
Swept(cache) ==
  LET young == {q \in Held(cache) : clock <= cache[q].at + SeenTTL}
      staying  == {s \in SUBSET young :
                  /\ Cardinality(s) = IF Cardinality(young) < SeenMax
                                      THEN Cardinality(young) ELSE SeenMax
                  /\ \A q \in s, r \in young \ s : cache[q].at >= cache[r].at}
  IN  IF Cardinality(Held(cache)) <= SeenMax THEN {cache}
      ELSE {[q \in Quotes |-> IF q \in s THEN cache[q] ELSE NeverSeen] : s \in staying}

\* Slip: a conflict key without the capture time keeps a quote's first row only.
SlipAppended ==
  [q \in Quotes |-> IF q \in ToWrite /\ RowTimes(q, MaxTime) = {}
                    THEN [rows[q] EXCEPT ![batch.at] = batch.odds[q]] ELSE rows[q]]

\* uq_odds_snapshot_observation, ON CONFLICT DO NOTHING.
Appended ==
  [q \in Quotes |-> IF q \in ToWrite /\ rows[q][batch.at] = Gone
                    THEN [rows[q] EXCEPT ![batch.at] = batch.odds[q]] ELSE rows[q]]

\* What the page showed is the last known of every quote it carried.
LatestShown ==
  [q \in Quotes |-> IF batch.odds[q] # Gone THEN batch.odds[q] ELSE onSite[q]]

\* The page was captured before the game began.
BeforeKickoff == batch.at <= Kickoff

\* The last page was captured after the game began.
GameIsOn == batch.at # NoTime /\ batch.at > Kickoff

NoteShown ==
  /\ onSite'   = IF BeforeKickoff THEN LatestShown ELSE onSite
  /\ onSiteAt' = IF BeforeKickoff THEN batch.at ELSE onSiteAt

Fetch(odds) ==
  /\ batch.phase = "none"
  /\ batch.at = NoTime \/ batch.at < clock          \* no two captures at one time
  /\ \E q \in Quotes : odds[q] # Gone
  /\ batch' = [phase |-> "fetched", at |-> clock, odds |-> odds]
  /\ UNCHANGED <<clock, odds_seen, rows, faults, onSite, onSiteAt, adrift>>

\* An off-window match page is priced from directly: its odds are never stored.
FetchMatchPage(odds) ==
  /\ batch.phase = "none"
  /\ batch.at = NoTime \/ batch.at < clock
  /\ batch' = [phase |-> "match", at |-> clock, odds |-> odds]
  /\ UNCHANGED <<clock, odds_seen, rows, faults, onSite, onSiteAt, adrift>>

\* The batch is written, then the cache follows it.
Persist ==
  /\ batch.phase = "fetched"
  /\ rows' = Appended
  /\ odds_seen' \in Swept(SeenUpdates)
  /\ adrift' = adrift \ ToWrite
  /\ NoteShown
  /\ batch' = [batch EXCEPT !.phase = "stored"]
  /\ UNCHANGED <<clock, faults>>

\* Slip: the cache is updated although the batch failed.
SlipPersistFails ==
  /\ batch.phase = "fetched"
  /\ faults < MaxFaults
  /\ faults' = faults + 1
  /\ odds_seen' \in Swept(SeenUpdates)
  /\ batch' = [batch EXCEPT !.phase = "stored"]
  /\ UNCHANGED <<clock, rows, onSite, onSiteAt, adrift>>

\* The batch fails. Its commit may have reached the database all the same.
PersistFails ==
  /\ batch.phase = "fetched"
  /\ faults < MaxFaults
  /\ faults' = faults + 1
  /\ \/ UNCHANGED <<rows, onSite, onSiteAt, adrift>>
     \/ /\ rows' = Appended
        /\ adrift' = adrift \cup ToWrite
        /\ NoteShown
  /\ batch' = [batch EXCEPT !.phase = "stored"]
  /\ UNCHANGED <<clock, odds_seen>>

\* The event's own savepoint fails: its rows are skipped and counted as seen.
EventSkipped ==
  /\ batch.phase = "fetched"
  /\ faults < MaxFaults
  /\ faults' = faults + 1
  /\ odds_seen' \in Swept(SeenUpdates)
  /\ adrift' = adrift \cup ToWrite
  /\ NoteShown
  /\ batch' = [batch EXCEPT !.phase = "stored"]
  /\ UNCHANGED <<clock, rows>>

\* The directory cannot name the event's teams yet: neither written nor cached.
Unresolved ==
  /\ batch.phase = "fetched"
  /\ batch' = [batch EXCEPT !.phase = "stored"]
  /\ UNCHANGED <<clock, odds_seen, rows, faults, onSite, onSiteAt, adrift>>

\* A new process starts with a cold cache.
Restart ==
  /\ batch' = [NoPage EXCEPT !.at = batch.at]
  /\ odds_seen' = [q \in Quotes |-> NeverSeen]
  /\ UNCHANGED <<clock, rows, faults, onSite, onSiteAt, adrift>>

\* The cycle is over.
ScanEnds ==
  /\ batch.phase \in {"stored", "match"}
  /\ batch' = [NoPage EXCEPT !.at = batch.at]
  /\ UNCHANGED <<clock, odds_seen, rows, faults, onSite, onSiteAt, adrift>>

Tick ==
  /\ clock < MaxTime
  /\ clock' = clock + 1
  /\ UNCHANGED <<batch, odds_seen, rows, faults, onSite, onSiteAt, adrift>>

ScrapedPages == [Quotes -> Prices \cup {Gone}]

HistoryNext ==
  \/ \E odds \in ScrapedPages : Fetch(odds) \/ FetchMatchPage(odds)
  \/ Persist \/ PersistFails \/ EventSkipped \/ Unresolved
  \/ ScanEnds \/ Restart \/ Tick

HistorySpec == HistoryInit /\ [][HistoryNext]_historyVars

-----------------------------------------------------------------------------
(* Properties *)

\* What the cache calls the last seen odds of a quote are the odds of its last
\* row, so that a skipped write of unchanged odds loses nothing. Two faults set
\* the two adrift until the quote is next written: an event skipped inside a
\* batch that succeeds (cached, no row), and a batch whose commit went through
\* though its call failed (a row, not cached: odds that then move back to the
\* cached ones are never written).
CacheMatchesTable ==
  \A q \in Quotes :
    odds_seen[q] # NeverSeen /\ q \notin adrift => odds_seen[q].odds = CloseRow(q, MaxTime)

\* The close read from the table is the last price the polls saw before
\* kickoff, however long ago that price was written.
CloseIsLastSeen ==
  ~GameIsOn => \A q \in Quotes : q \notin adrift => CloseRow(q, Kickoff) = onSite[q]

\* A close that passes the coverage gate comes from an event that was still
\* being scraped within the gap before kickoff.
CoverageMeansScraped ==
  Fresh(Quotes, Kickoff) => onSiteAt # NoTime /\ Kickoff - onSiteAt <= MaxGap

=============================================================================
