------------------------------- MODULE Kickoffs -------------------------------
(***************************************************************************)
(* Who knows when a game starts: the source, which answers with the real   *)
(* time, with the date only or with nothing; the process's EventDirectory  *)
(* (app/ingestion/base.py), lost in a restart; the events table            *)
(* (app/storage/repositories.py), which two jobs write: the poll with what *)
(* it just scraped, the exchange capture with what it read from the table  *)
(* before it scraped.                                                      *)
(*                                                                         *)
(* A time is an hour; midnight stands for "the date only".  A nullable     *)
(* field is a set of at most one value.                                    *)
(***************************************************************************)
EXTENDS Integers, Sequences, FiniteSets

CONSTANTS Contests,     \* the games of the slate
          DayLength,    \* hours of a day
          LastKickoff,  \* bound: the latest hour a game may be set for
          MaxMoves,     \* bound: times the organisers move a game
          MaxRestarts   \* bound: restarts of the process

ASSUME KickoffsAssumption == IsFiniteSet(Contests) /\ DayLength \in Nat \ {0} /\ LastKickoff \in Nat

VARIABLES scheduled,    \* when each game really starts
          directory,    \* EventDirectory: what the process knows of a game
          events,       \* the events table
          slate,        \* the links the poll has still to scrape, in order
          scraped,      \* the games whose odds this poll holds
          targets,      \* what the capture read of its targets: [game -> hour]
          heard,        \* the newest real time told to the process, or left in the table
          moves, restarts

kickoffVars == <<scheduled, directory, events, slate, scraped, targets, heard, moves, restarts>>

Hours == 0 .. LastKickoff

\* is_date_only_midnight
DateOnly(h) == h % DayLength = 0

RealTimes == {h \in Hours : ~DateOnly(h)}

Real(at) == at # {} /\ at \subseteq RealTimes

\* Slip: whatever the source says last is taken.
SlipPreferKickoff(existing, update) == IF update = {} THEN existing ELSE update

\* prefer_kickoff: nothing or a date never replaces a real time.
PreferKickoff(existing, update) ==
  IF update = {} \/ (Real(existing) /\ ~Real(update)) THEN existing ELSE update

-----------------------------------------------------------------------------
(* The two memories of a game                                                   *)

\* What the source says of a game's kickoff: the time, the day or nothing.
Answers(g) == {{scheduled[g]}, {scheduled[g] - (scheduled[g] % DayLength)}, {}}

\* EventDirectory.register: for the kickoff, the last write wins only if it is the better one.
Register(known, said) ==
  IF known = {} THEN {[at |-> said]} ELSE {[at |-> PreferKickoff(k.at, said)] : k \in known}

\* _get_or_create_event: a new row takes what the writer knows; an old one its kickoff only.
Upsert(row, teams) ==
  IF row = {} THEN {teams}
  ELSE {[r EXCEPT !.at = PreferKickoff(r.at, teams.at)] : r \in row}

\* refresh_event_kickoffs: rows that exist, for games whose kickoff the directory knows
Refresh(row, teams) == IF teams.at = {} THEN row ELSE {[r EXCEPT !.at = PreferKickoff(r.at, teams.at)] : r \in row}

Known(g) == CHOOSE k \in directory[g] : TRUE

AtOf(store, g) == UNION {k.at : k \in store[g]}

-----------------------------------------------------------------------------
(* The order of a poll                                                          *)

\* _kickoff_for: a date only counts as unknown.
KickoffFor(g) == IF Real(AtOf(directory, g)) THEN AtOf(directory, g) ELSE {}

\* _order_for_freshness: unknown kickoffs first, then the latest to the soonest; games of one
\* kickoff keep the order of the listing.
ScrapedBefore(entries, i, j) ==
  LET ki == KickoffFor(entries[i])
      kj == KickoffFor(entries[j])
  IN  \/ ki = {} /\ (kj # {} \/ i < j)
      \/ ki # {} /\ kj # {} /\ \E a \in ki, b \in kj : a > b \/ (a = b /\ i < j)

OrderForFreshness(entries) ==
  [n \in DOMAIN entries |->
     entries[CHOOSE i \in DOMAIN entries :
               Cardinality({j \in DOMAIN entries : j # i /\ ScrapedBefore(entries, j, i)}) = n - 1]]

Listings == {l \in [1 .. Cardinality(Contests) -> Contests] : \A i, j \in DOMAIN l : l[i] = l[j] => i = j}

-----------------------------------------------------------------------------
KickoffInit ==
  /\ scheduled \in [Contests -> RealTimes]
  /\ directory = [g \in Contests |-> {}]
  /\ events = [g \in Contests |-> {}]
  /\ slate = <<>> /\ scraped = {}
  /\ targets = [g \in {} |-> 0]
  /\ heard = [g \in Contests |-> {}]
  /\ moves = 0 /\ restarts = 0

PollIdle == slate = <<>> /\ scraped = {}

\* A poll starts: the listing is read and put in order.
ListSlate ==
  /\ PollIdle
  /\ \E entries \in Listings : slate' = OrderForFreshness(entries)
  /\ UNCHANGED <<scheduled, directory, events, scraped, targets, heard, moves, restarts>>

\* The page of the next game is read: it registers the game and gives its odds.
ScrapeNext ==
  /\ slate # <<>>
  /\ LET g == Head(slate)
     IN  \E said \in Answers(g) :
           /\ directory' = [directory EXCEPT ![g] = Register(@, said)]
           /\ heard' = IF Real(said) THEN [heard EXCEPT ![g] = said] ELSE heard
           /\ scraped' = scraped \cup {g}
  /\ slate' = Tail(slate)
  /\ UNCHANGED <<scheduled, events, targets, moves, restarts>>

\* The page gives nothing, not even its header.
ScrapeGap ==
  /\ slate # <<>>
  /\ slate' = Tail(slate)
  /\ UNCHANGED <<scheduled, directory, events, scraped, targets, heard, moves, restarts>>

\* The end of a poll: kickoffs are refreshed, then the odds are written, which creates the events
\* that are new.  Either transaction may fail; the error is logged and the poll goes on.
StorePoll ==
  /\ slate = <<>> /\ scraped # {}
  /\ \E refreshed, persisted \in BOOLEAN :
       events' = [g \in Contests |->
                    IF g \notin scraped THEN events[g]
                    ELSE LET row == IF refreshed THEN Refresh(events[g], Known(g)) ELSE events[g]
                         IN  IF persisted THEN Upsert(row, Known(g)) ELSE row]
  /\ scraped' = {}
  /\ UNCHANGED <<scheduled, directory, slate, targets, heard, moves, restarts>>

\* select_betfair_targets: games of the table whose kickoff is known
CaptureSelects ==
  /\ targets = [g \in {} |-> 0]
  /\ \E chosen \in SUBSET {g \in Contests : AtOf(events, g) # {}} \ {{}} :
       targets' = [g \in chosen |-> CHOOSE h \in AtOf(events, g) : TRUE]
  /\ UNCHANGED <<scheduled, directory, events, slate, scraped, heard, moves, restarts>>

\* persist_odds_snapshots for the capture, attached to the rows there are: it takes along the
\* kickoff that was read before the pages were.
CapturePersists ==
  /\ targets # [g \in {} |-> 0]
  /\ events' = [g \in Contests |->
                  IF g \in DOMAIN targets /\ events[g] # {}
                  THEN Upsert(events[g], [at |-> {targets[g]}]) ELSE events[g]]
  /\ targets' = [g \in {} |-> 0]
  /\ UNCHANGED <<scheduled, directory, slate, scraped, heard, moves, restarts>>

\* The organisers move a game.
GameMoves ==
  /\ moves < MaxMoves
  /\ \E g \in Contests, h \in RealTimes :
       h # scheduled[g] /\ scheduled' = [scheduled EXCEPT ![g] = h]
  /\ moves' = moves + 1
  /\ UNCHANGED <<directory, events, slate, scraped, targets, heard, restarts>>

\* The process restarts: the table is all that is left.
ProcessRestarts ==
  /\ restarts < MaxRestarts
  /\ restarts' = restarts + 1
  /\ directory' = [g \in Contests |-> {}]
  /\ slate' = <<>> /\ scraped' = {} /\ targets' = [g \in {} |-> 0]
  /\ heard' = [g \in Contests |-> IF Real(AtOf(events, g)) THEN AtOf(events, g) ELSE {}]
  /\ UNCHANGED <<scheduled, events, moves>>

KickoffNext ==
  \/ ListSlate \/ ScrapeNext \/ ScrapeGap \/ StorePoll
  \/ CaptureSelects \/ CapturePersists
  \/ GameMoves \/ ProcessRestarts

KickoffSpec == KickoffInit /\ [][KickoffNext]_kickoffVars

-----------------------------------------------------------------------------
\* Types: both memories hold at most one record of a game, with at most one kickoff.
KickoffTypeOK ==
  /\ \A g \in Contests : \A store \in {directory, events} :
       /\ Cardinality(store[g]) <= 1
       /\ AtOf(store, g) \subseteq Hours /\ Cardinality(AtOf(store, g)) <= 1
  /\ scraped \subseteq {g \in Contests : directory[g] # {}}

\* A real time is never traded for a date or for nothing, in either memory, whichever job writes
\* and however the source's answers alternate; and what the directory holds is the newest one heard
\* (app/ingestion/base.py prefer_kickoff, the one rule of both layers).
RealKickoffStands ==
  [][\A g \in Contests :
       /\ Real(AtOf(events, g)) => Real(AtOf(events', g))
       /\ restarts' = restarts /\ Real(AtOf(directory, g)) => AtOf(directory', g) = heard'[g]]_kickoffVars

\* A row that holds the newest kickoff heard keeps it: a time that the table replaced does not come
\* back ("the incoming value is taken (it is at least as good", app/ingestion/base.py).
NewestKickoffStands ==
  [][\A g \in Contests :
       heard' = heard /\ heard[g] # {} /\ AtOf(events, g) = heard[g] => AtOf(events', g) = heard[g]]_kickoffVars
=============================================================================
