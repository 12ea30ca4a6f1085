------------------------------- MODULE GamesView -------------------------------
(***************************************************************************)
(* GET /games and GET /health (app/api/routes.py): the slate that each     *)
(* sport's last poll published in memory (app/pipeline.py), the warehouse  *)
(* query that stands in for it after a restart                             *)
(* (app/storage/repositories.py), and the verdict on the engine.           *)
(***************************************************************************)
EXTENDS Integers, FiniteSets

CONSTANTS Games,        \* the games there are
          SportOf,      \* [game -> sport]
          StartOf,      \* [game -> set of its kickoff, {} when it is not known]
          Grace,        \* hours after kickoff that a game may still be on (3.5)
          RecentOdds,   \* hours that odds vouch for a game without a kickoff (24)
          MaxPollAge,   \* HEALTH_MAX_POLL_AGE_MULTIPLIER poll intervals
          LastHour,     \* bound
          MaxBoots      \* bound: restarts

ASSUME GamesAssumption == {Grace, RecentOdds, MaxPollAge, LastHour, MaxBoots} \subseteq Nat

VARIABLES time,
          available,    \* AVAILABLE_GAMES: the games of each sport's last poll
          finishedAt,   \* LAST_POLL: when it finished, {} before the first
          ingested,     \* the warehouse: when odds of a game were last written, {} before
          boots

gamesVars == <<time, available, finishedAt, ingested, boots>>

AllSports == {SportOf[g] : g \in Games}

GamesInit ==
  /\ time = 0 /\ boots = 0
  /\ available = [s \in AllSports |-> {}]
  /\ finishedAt = [s \in AllSports |-> {}]
  /\ ingested = [g \in Games |-> {}]

Finished(g) == \E k \in StartOf[g] : k + Grace <= time

\* A poll of a sport ends: _record_available_games publishes what the site lists, _record_poll
\* stamps it.  Odds are written for the games that have any, if they are new or moved, unless the
\* write fails.
PollEnds(s) ==
  /\ \E listed \in SUBSET {g \in Games : SportOf[g] = s /\ ~Finished(g)} :
       /\ available' = [available EXCEPT ![s] = listed]
       /\ \E written \in SUBSET listed :
            ingested' = [g \in Games |-> IF g \in written THEN {time} ELSE ingested[g]]
  /\ finishedAt' = [finishedAt EXCEPT ![s] = {time}]
  /\ UNCHANGED <<time, boots>>

HourEnds ==
  /\ time < LastHour /\ time' = time + 1
  /\ UNCHANGED <<available, finishedAt, ingested, boots>>

\* The process starts anew: both registries are empty.
BootsAgain ==
  /\ boots < MaxBoots /\ boots' = boots + 1
  /\ available' = [s \in AllSports |-> {}]
  /\ finishedAt' = [s \in AllSports |-> {}]
  /\ UNCHANGED <<time, ingested>>

GamesNext == (\E s \in AllSports : PollEnds(s)) \/ HourEnds \/ BootsAgain

GamesSpec == GamesInit /\ [][GamesNext]_gamesVars

-----------------------------------------------------------------------------
\* Slip: a game that has begun is over.
SlipWarehouse == {g \in Games : ingested[g] # {} /\ \A k \in StartOf[g] : k > time}

\* latest_available_games_with_events: events with a kickoff that are not over, and events without
\* one whose odds are recent.
Warehouse ==
  {g \in Games : /\ ingested[g] # {} /\ ~Finished(g)
                 /\ StartOf[g] = {} => \E i \in ingested[g] : i + RecentOdds >= time}

\* available_games: the warehouse is asked only when memory has nothing at all.
GamesShown ==
  LET published == UNION {available[s] : s \in AllSports}
  IN  IF published # {} THEN published ELSE Warehouse

\* _newest_poll_finish, _poll_health: no poll yet is no evidence of death.
Healthy ==
  LET finishes == UNION {finishedAt[s] : s \in AllSports}
  IN  finishes # {} => \E f \in finishes : time - f <= MaxPollAge

-----------------------------------------------------------------------------
\* Types
GamesTypeOK ==
  /\ \A s \in AllSports : available[s] \subseteq {g \in Games : SportOf[g] = s} /\ finishedAt[s] \subseteq 0 .. time
  /\ \A g \in Games : ingested[g] \subseteq 0 .. time

\* A restart takes no game off the list that has odds and a kickoff and is not over, in play included
\* (docstring of latest_available_games_with_events: "makes the games table survive restarts").
RestartKeepsGames ==
  [][boots' # boots => {g \in GamesShown : ingested[g] # {} /\ StartOf[g] # {} /\ ~Finished(g)} \subseteq GamesShown']_gamesVars

\* An engine once degraded is not called healthy again before a poll of it has ended or it was
\* restarted (_poll_health).
DegradedStands == [][~Healthy /\ Healthy' => finishedAt' # finishedAt]_gamesVars

=============================================================================
