------------------------------- MODULE Migrations -------------------------------
(***************************************************************************)
(* The warehouse through its schema revisions (alembic/versions), the      *)
(* part of them that rewrites or constrains rows: model versions whose key *)
(* gained the sport, picks that gained a tier, leagues whose key gained    *)
(* the country, kickoffs that may be unknown, snapshot markets that were   *)
(* widened.  The revisions that only add a nullable column or a table hold *)
(* no row to lose and lie between these.                                   *)
(*                                                                         *)
(* A command runs every revision between two in one transaction; the       *)
(* application writes at the head only.                                    *)
(***************************************************************************)
EXTENDS Integers, FiniteSets

CONSTANTS Fixture,     \* events, each with the sport it is of: a function
          StrategyIds, \* strategy versions
          Countries,   \* countries with a league of one same name
          MarketKeys,  \* snapshot market keys over 32 characters that share their first 32
          MaxVersions  \* bound on the rows of model_versions

ASSUME SchemaAssumption == MaxVersions \in Nat \ {0}

NullableStart == 1
PickTier == 2
SportInKey == 3
Coalesce == 4
WideMarket == 5
CountryInKey == 6
Latest == 6

None == {}
Placeholder == {"created_at"}
Real == {"kickoff"}
Truncated == "first 32"

VARIABLES revision,  \* the revisions applied
          db,        \* the rows
          minted     \* what was ever minted: [event, strategy]

schemaVars == <<revision, db, minted>>

EventIds == DOMAIN Fixture
SportIds == {Fixture[e] : e \in EventIds}

-----------------------------------------------------------------------------
(* The constraints                                                              *)

\* No two rows agree on all of a key.
KeyHolds(table, key(_)) == \A a, b \in table : key(a) = key(b) => a = b

VersionKey(r, v) == IF r >= SportInKey THEN <<v.sport, v.strategy>> ELSE <<v.strategy>>
LeagueKey(r, l) == IF r >= CountryInKey THEN <<l.country>> ELSE <<>>
PickKey(p) == <<p.event, p.version>>

\* What the schema of a revision demands of its rows; market keys carry the one selection and time
\* they were captured at.
Fits(r, d) ==
  /\ KeyHolds(d.versions, LAMBDA v : VersionKey(r, v))
  /\ KeyHolds(d.leagues, LAMBDA l : LeagueKey(r, l))
  /\ KeyHolds(d.picks, PickKey)
  /\ r < NullableStart => \A e \in EventIds : d.starts[e] # None
  /\ r >= CountryInKey => \A l \in d.leagues : l.country # None
  /\ \A p \in d.picks : \E v \in d.versions : v.id = p.version

-----------------------------------------------------------------------------
(* The revisions, each a change of the rows                                     *)

\* Slip: the rows are merged by strategy name alone.
SlipKeepId(d, v) == CHOOSE i \in {x.id : x \in d.versions} : \A x \in d.versions : i <= x.id

\* MIN(id) OVER (PARTITION BY name, version)
KeepId(d, v) ==
  LET alike == {x.id : x \in {y \in d.versions : y.strategy = v.strategy}}
  IN  CHOOSE i \in alike : \A x \in alike : i <= x

Versioned(d, p) == CHOOSE v \in d.versions : v.id = p.version

\* f4a7c9d2e8b1 down: every duplicate's references go to the lowest id of its name and version, then
\* the duplicates go.  The picks keep their own unique key, so two that become one are refused.
CoalesceDown(d) ==
  LET moved(p) == [p EXCEPT !.version = KeepId(d, Versioned(d, p))]
  IN  IF \E p, q \in d.picks : p # q /\ PickKey(moved(p)) = PickKey(moved(q)) THEN {}
      ELSE {[d EXCEPT !.picks = {moved(p) : p \in @}, !.versions = {v \in @ : v.id = KeepId(d, v)}]}

\* d3f4a5b6c7e8: unknown countries become the empty one on the way up.
CountryUp(d) == {[d EXCEPT !.leagues = {[l EXCEPT !.country = IF @ = None THEN {""} ELSE @] : l \in @}]}

\* a1b2c3d4e5f6 down: the keys are cut to 32 characters, two captured together may not become one.
MarketDown(d) ==
  IF Cardinality(d.markets) > 1 THEN {} ELSE {[d EXCEPT !.markets = {Truncated : k \in @}]}

\* c1f4a9d27e3b: the column comes with the server default, and goes with what it held.
TierUp(d) == {[d EXCEPT !.picks = {[p EXCEPT !.tier = "premium"] : p \in @}]}

\* f3a1c2d4e5b6 down: an unknown kickoff becomes the row's creation.
StartsDown(d) == {[d EXCEPT !.starts = [e \in EventIds |-> IF @[e] = None THEN Placeholder ELSE @[e]]]}

Up(r, d) ==
  CASE r = PickTier -> TierUp(d) [] r = CountryInKey -> CountryUp(d) [] OTHER -> {d}

Down(r, d) ==
  CASE r = Coalesce -> CoalesceDown(d) [] r = WideMarket -> MarketDown(d)
    [] r = NullableStart -> StartsDown(d) [] OTHER -> {d}

\* A revision's rows must fit its schema, or the database refuses it.
Applied(r, found) == {d \in found : Fits(r, d)}

\* One revision of a command, on whatever the ones before it left.
Rise(r, found) == Applied(r, UNION {Up(r, d) : d \in found})
Fall(r, found) == Applied(r - 1, UNION {Down(r, d) : d \in found})

\* do_run_migrations: all the revisions of a command in their order, or none.
Raised(from, to) ==
  LET pass(r, found) == IF r \in (from + 1)..to THEN Rise(r, found) ELSE found
  IN  pass(CountryInKey, pass(WideMarket, pass(Coalesce,
        pass(SportInKey, pass(PickTier, pass(NullableStart, {db}))))))
Lowered(from, to) ==
  LET pass(r, found) == IF r \in (to + 1)..from THEN Fall(r, found) ELSE found
  IN  pass(NullableStart, pass(PickTier, pass(SportInKey,
        pass(Coalesce, pass(WideMarket, pass(CountryInKey, {db}))))))

Migrate(to, found) ==
  /\ IF found = {} THEN UNCHANGED <<revision, db>> ELSE revision' = to /\ db' \in found
  /\ UNCHANGED minted

Upgrade == \E to \in (revision + 1)..Latest : Migrate(to, Raised(revision, to))
Downgrade == \E to \in 0..(revision - 1) : Migrate(to, Lowered(revision, to))

-----------------------------------------------------------------------------
(* What the application writes at the head                                      *)

\* _get_or_create_model_version: the sport's own row of a strategy version.
VersionsWith(sport, s) ==
  IF \E v \in db.versions : v.sport = sport /\ v.strategy = s THEN {db.versions}
  ELSE {db.versions \cup {[id |-> i, sport |-> sport, strategy |-> s]} :
          i \in {x \in 1..MaxVersions : x = Cardinality(db.versions) + 1 /\ \A v \in db.versions : v.id # x}}

\* persist_pick: one row of an event and a model version; a row that is there is left.
Mint(e, s, tier) ==
  /\ revision = Latest
  /\ \E versions \in VersionsWith(Fixture[e], s) :
       LET v == CHOOSE x \in versions : x.sport = Fixture[e] /\ x.strategy = s
       IN  /\ \A p \in db.picks : PickKey(p) # <<e, v.id>>
           /\ db' = [db EXCEPT !.versions = versions,
                               !.picks = @ \cup {[event |-> e, version |-> v.id, tier |-> tier]}]
  /\ minted' = minted \cup {[event |-> e, strategy |-> s]}
  /\ UNCHANGED revision

\* _get_or_create_league
SeeLeague(c) ==
  /\ revision = Latest
  /\ db' = [db EXCEPT !.leagues = @ \cup {[country |-> {c}]}]
  /\ UNCHANGED <<revision, minted>>

\* persist_odds_snapshots of a long market key
Snapshot(k) ==
  /\ revision = Latest
  /\ db' = [db EXCEPT !.markets = @ \cup {k}]
  /\ UNCHANGED <<revision, minted>>

\* refresh_event_kickoffs: a reported kickoff takes the place of any that is not one.
LearnKickoff(e) ==
  /\ revision = Latest /\ db.starts[e] # Real
  /\ db' = [db EXCEPT !.starts[e] = Real]
  /\ UNCHANGED <<revision, minted>>

\* A warehouse from before the first of these revisions, as they describe it: one model version row
\* for all sports, every pick premium, one league of a name.
SchemaInit ==
  /\ revision = 0
  /\ \E s \in StrategyIds, sport \in SportIds, old \in SUBSET EventIds, c \in Countries :
       /\ db = [versions |-> {[id |-> 1, sport |-> sport, strategy |-> s]},
                picks |-> {[event |-> e, version |-> 1, tier |-> "premium"] : e \in old},
                leagues |-> {[country |-> IF c = "" THEN None ELSE {c}]},
                starts |-> [e \in EventIds |-> IF e \in old THEN Placeholder ELSE Real],
                markets |-> {}]
       /\ minted = {[event |-> e, strategy |-> s] : e \in old}

SchemaNext ==
  \/ Upgrade \/ Downgrade
  \/ \E e \in EventIds, s \in StrategyIds, tier \in {"premium", "volume"} : Mint(e, s, tier)
  \/ \E c \in Countries : SeeLeague(c)
  \/ \E k \in MarketKeys : Snapshot(k)
  \/ \E e \in EventIds : LearnKickoff(e)

SchemaSpec == SchemaInit /\ [][SchemaNext]_schemaVars

-----------------------------------------------------------------------------
(* Properties                                                                   *)

SchemaTypeOK ==
  /\ revision \in 0..Latest
  /\ \A v \in db.versions : v.id \in 1..MaxVersions /\ v.sport \in SportIds /\ v.strategy \in StrategyIds
  /\ \A p \in db.picks : p.event \in EventIds /\ p.tier \in {"premium", "volume"}

\* Whatever was upgraded and downgraded, every pick ever minted is still there under a row of the very
\* strategy version that minted it, and no pick is there that was not minted: the paper record of a
\* strategy is the record of that strategy (alembic/versions/f4a7c9d2e8b1).
PicksKeepTheirVersion ==
  {<<p.event, Versioned(db, p).strategy>> : p \in db.picks} = {<<m.event, m.strategy>> : m \in minted}

=============================================================================
