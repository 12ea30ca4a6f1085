------------------------------ MODULE MCServices ------------------------------
(***************************************************************************)
(* What runs around the picks, in one run: the exposure ledger with its    *)
(* client, the scheduler's jobs, the rotation of off-window pages, sign-in,*)
(* the monitors, the warehouse's rows and migrations, and the coverage     *)
(* instruments.  The components share no variable here, so the run         *)
(* explores each by itself: "part" says which one moves, and the others    *)
(* stay in one of their initial states.                                    *)
(***************************************************************************)
EXTENDS LedgerClient, JobScheduler, OffWindow, Access, Monitors, EntityRows,
        Migrations, AnchorCoverage

CONSTANTS e1, e2, o1, o2, pb, w1, w2, t1, t2, s1, s2, none

VARIABLE part

Parts == {"ledger", "jobs", "offwindow", "access", "audit", "watches", "rows", "schema", "coverage"}

-----------------------------------------------------------------------------
(* The values of the constants                                             *)

MCDays      == 1 .. 2
MCSportKeys == <<"soccer", "basketball">>

\* An event of each of two sports, to migrate.
MCFixture == [f1 |-> "soccer", b1 |-> "basketball"]

\* A football match and a basketball match, each with a pick on the winner and one on the totals.  The
\* archive may list the football match twice near its kickoff and once ten hours off, and a game with
\* names like its own, in its league, in another or in both.
MCMatches  == {"s1", "b1"}
MCSportKeyOf == [s1 |-> "soccer", b1 |-> "basketball"]
MCBaseOf   == [soccer |-> "soccer", basketball |-> "basketball"]
MCStartsAt == [s1 |-> 0, b1 |-> 1]
MCPickedOn == MCMatches \X {"moneyline", "totals"}
MCImplausible == {<<"b1", "moneyline">>}
MCLeagueOf == [s1 |-> "l", b1 |-> ""]
InArchive(n, l, k) == [names |-> n, base |-> "soccer", league |-> l, kickoff |-> k]
MCArchiveGames ==
  {InArchive("own", "other", 0), InArchive("own", "l", -4), InArchive("own", "l", 10),
   InArchive("like", "other", 1), InArchive("like", "l", 1)}
MCNameCost == [s1 |-> [n \in {"own", "like"} |-> IF n = "own" THEN 0 ELSE 3], b1 |-> [n \in {"b"} |-> 0]]

-----------------------------------------------------------------------------
(* The parts side by side                                                  *)

NewestFirst == [id |-> 1, sport |-> "soccer", strategy |-> "v3"]

ServicesInit ==
  /\ part \in Parts
  /\ part # "jobs" => logLevel = "INFO"
  /\ part # "access" => authEnabled = TRUE /\ envTrio = FALSE
  /\ part # "audit" => newestAge = 0
  /\ part # "watches" => installed = [p \in Packages |-> NotInstalled]
  /\ Init /\ JobInit /\ OffInit /\ AccessInit /\ AuditInit /\ WatchInit /\ EntityInit
  /\ SchemaInit /\ CoverageInit
  /\ part # "schema" => db.versions = {NewestFirst} /\ minted = {} /\ db.leagues = {[country |-> {"eth"}]}

\* Every part but p stays as it is.
StandStill(p) ==
  /\ UNCHANGED part
  /\ IF p = "ledger"    THEN TRUE ELSE UNCHANGED vars
  /\ IF p = "jobs"      THEN TRUE ELSE UNCHANGED jobVars
  /\ IF p = "offwindow" THEN TRUE ELSE UNCHANGED offVars
  /\ IF p = "access"    THEN TRUE ELSE UNCHANGED accessVars
  /\ IF p = "audit"     THEN TRUE ELSE UNCHANGED auditVars
  /\ IF p = "watches"   THEN TRUE ELSE UNCHANGED watchVars
  /\ IF p = "rows"      THEN TRUE ELSE UNCHANGED entityVars
  /\ IF p = "schema"    THEN TRUE ELSE UNCHANGED schemaVars
  /\ IF p = "coverage"  THEN TRUE ELSE UNCHANGED coverageVars

ServicesNext ==
  \/ part = "ledger"    /\ Next         /\ StandStill("ledger")
  \/ part = "jobs"      /\ JobNext      /\ StandStill("jobs")
  \/ part = "offwindow" /\ OffNext      /\ StandStill("offwindow")
  \/ part = "access"    /\ AccessNext   /\ StandStill("access")
  \/ part = "audit"     /\ AuditNext    /\ StandStill("audit")
  \/ part = "watches"   /\ WatchNext    /\ StandStill("watches")
  \/ part = "rows"      /\ EntityNext   /\ StandStill("rows")
  \/ part = "schema"    /\ SchemaNext   /\ StandStill("schema")
  \/ part = "coverage"  /\ CoverageNext /\ StandStill("coverage")

ServicesSpec == ServicesInit /\ [][ServicesNext]_<<part, vars, jobVars, offVars, accessVars, auditVars,
  watchVars, entityVars, schemaVars, coverageVars>>

-----------------------------------------------------------------------------
(* Properties                                                              *)

\* The moving component's variables have their types.
ServicesTypeOK ==
  CASE part = "ledger"    -> TypeOK       [] part = "jobs"    -> JobTypeOK
    [] part = "offwindow" -> OffTypeOK    [] part = "access"  -> AccessTypeOK
    [] part = "audit"     -> AuditTypeOK  [] part = "watches" -> WatchTypeOK
    [] part = "rows"      -> EntityTypeOK [] part = "schema"  -> SchemaTypeOK
    [] part = "coverage"  -> CoverageTypeOK

\* Nobody is passed over for ever: a hung run shows in the log however many slots other jobs skip,
\* a sport whose poll raises does not take the turn of the next, and no event off the window waits
\* while another of its band is fetched twice (scheduler.py, revalidate_offwindow_picks).
EveryoneGetsATurn ==
  /\ part = "jobs" => HungIsSeen /\ EverySportIsPolled
  /\ part = "offwindow" => NobodyIsOvertaken

\* The operator is told of a thing once: of an anomaly when it appears, of an outage at its k-th
\* empty audit, of a release and of a day's drift while their keys last; and a check that could
\* not look is never shown as "nothing new" (self_audit.py, upstream_watch.py).
ToldOnce ==
  /\ part = "audit" => AppearanceIsSentOnce /\ DeadManFiresOnce
  /\ part = "watches" => ToldOncePerKey /\ QuietMeansCurrent

\* What a row stands for does not depend on who wrote it first or what was migrated: two writers
\* make one row of a team, two requests at the first-run form one administrator, and a pick stays
\* with the strategy version that minted it through any upgrade and downgrade
\* (repositories.py, setup_submit, alembic/versions).
IdentityIsKept ==
  /\ part = "access" => OneAdministrator
  /\ part = "rows" => TeamIsOneRow
  /\ part = "schema" => PicksKeepTheirVersion
=============================================================================
