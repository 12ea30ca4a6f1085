------------------------------ MODULE Monitors -------------------------------
(***************************************************************************)
(* The monitors of app/maintenance: the self-audit with the dead man's     *)
(* switch, and the two daily watches.                                      *)
(***************************************************************************)
EXTENDS Naturals, FiniteSets

(***************************************************************************)
(* The monitor that runs beside the jobs (app/maintenance/self_audit.py):  *)
(* an audit reads aggregates of the database, compares the anomalies it    *)
(* finds with those of the audit before, tells the operator of the codes   *)
(* that appeared, and counts the audits that saw no fresh odds row for the *)
(* dead man's switch.  Its memory lives in the process and is lost when    *)
(* the process restarts.                                                   *)
(*                                                                         *)
(* Time counts audit intervals, which is also the width of the window an   *)
(* audit looks for fresh rows in.                                          *)
(***************************************************************************)

CONSTANTS BacklogLimit,  \* awaiting_threshold
          StaleAfter,    \* stale_odds_after, in audit intervals
          DeadManK,      \* DEAD_MANS_DEFAULT_K
          MaxAge         \* bound: the age of the newest odds row

ASSUME AuditAssumption ==
  /\ BacklogLimit \in Nat /\ StaleAfter \in Nat /\ DeadManK \in Nat \ {0}
  /\ MaxAge \in Nat /\ MaxAge > StaleAfter

VARIABLES newestAge,        \* the database: intervals since the newest live odds row, or NoRow
          activeAnomalies,  \* SelfAuditMonitorState.active_anomalies
          emptyStreak,      \* .empty_odds_streak
          deadManAlerted,   \* .dead_man_alerted
          sent,             \* history: per code, alerts sent since it appeared
          emptyAudits,      \* history: audits in a row that saw no fresh row
          deadManSent       \* history: switch alerts in the outage of those audits

auditVars == <<newestAge, activeAnomalies, emptyStreak, deadManAlerted,
               sent, emptyAudits, deadManSent>>

NoRow == MaxAge + 1
Codes == {"awaiting_backlog", "stale_odds", "wrong_game_anchor"}

AuditTypeOK ==
  /\ newestAge \in 0 .. NoRow
  /\ activeAnomalies \subseteq Codes
  /\ emptyStreak \in 0 .. DeadManK + 1
  /\ deadManAlerted \in BOOLEAN
  /\ sent \in [Codes -> 0 .. 2]
  /\ emptyAudits \in 0 .. DeadManK + 1
  /\ deadManSent \in 0 .. 2

AuditInit ==
  /\ newestAge \in {0, NoRow}
  /\ activeAnomalies = {}
  /\ emptyStreak = 0
  /\ deadManAlerted = FALSE
  /\ sent = [c \in Codes |-> 0]
  /\ emptyAudits = 0
  /\ deadManSent = 0

-----------------------------------------------------------------------------
(* run_self_audit: the aggregates, and the anomalies they are judged to be. *)

EvaluateAnomalies(backlog) ==
  (IF backlog > BacklogLimit THEN {"awaiting_backlog"} ELSE {})
    \cup (IF newestAge = NoRow \/ newestAge > StaleAfter THEN {"stale_odds"} ELSE {})

\* The wrong-game audit adds one anomaly per flagged anchor, all of one code.
WrongGameAnomalies(flagged) == IF flagged THEN {"wrong_game_anchor"} ELSE {}

\* A row is fresh when it was ingested within the last interval.
SeesFreshRow == newestAge = 0

\* Slip: the switch is never armed again.
SlipDeadMansSwitch(fresh) ==
  LET streak == IF fresh THEN 0 ELSE emptyStreak + 1
      fires  == streak >= DeadManK /\ ~deadManAlerted
  IN  [streak |-> streak, alerted |-> deadManAlerted \/ fires, fires |-> fires]

\* evaluate_dead_mans_switch
DeadMansSwitch(fresh) ==
  IF fresh THEN [streak |-> 0, alerted |-> FALSE, fires |-> FALSE]
  ELSE LET streak == emptyStreak + 1
           fires  == streak >= DeadManK /\ ~deadManAlerted
       IN  [streak |-> streak, alerted |-> deadManAlerted \/ fires, fires |-> fires]

\* Slip: what is active is what was ever sent.
SlipRemembered(found) == activeAnomalies \cup found

\* _dispatch_anomalies marks the codes active before their alerts are sent.
Remembered(found) == found

AtMost(a, b) == IF a < b THEN a ELSE b

\* One audit that could read the database. The alerts of one code share a key, so a
\* second one in the same audit is a duplicate. Whether any channel took an alert is
\* not looked at: a lost one stays lost while the anomaly persists.
Audit(backlog, flagged) ==
  LET found  == EvaluateAnomalies(backlog) \cup WrongGameAnomalies(flagged)
      toSend == found \ activeAnomalies
      switch == DeadMansSwitch(SeesFreshRow)
  IN  /\ activeAnomalies' = Remembered(found)
      /\ emptyStreak' = AtMost(switch.streak, DeadManK + 1)
      /\ deadManAlerted' = switch.alerted
      /\ sent' = [c \in Codes |->
                    IF c \notin found THEN 0
                    ELSE AtMost(2, sent[c] + IF c \in toSend THEN 1 ELSE 0)]
      /\ emptyAudits' = IF SeesFreshRow THEN 0 ELSE AtMost(emptyAudits + 1, DeadManK + 1)
      /\ deadManSent' = IF SeesFreshRow THEN 0
                        ELSE AtMost(2, deadManSent + IF switch.fires THEN 1 ELSE 0)
      /\ newestAge' = IF newestAge = NoRow THEN NoRow ELSE AtMost(newestAge + 1, MaxAge)

\* self_audit_job catches the failure and returns: nothing is remembered of it.
AuditFails ==
  /\ newestAge' = IF newestAge = NoRow THEN NoRow ELSE AtMost(newestAge + 1, MaxAge)
  /\ UNCHANGED <<activeAnomalies, emptyStreak, deadManAlerted,
                 sent, emptyAudits, deadManSent>>

\* A live odds row is written. The archives' rows are not counted.
IngestLiveOdds ==
  /\ newestAge # 0
  /\ newestAge' = 0
  /\ UNCHANGED <<activeAnomalies, emptyStreak, deadManAlerted,
                 sent, emptyAudits, deadManSent>>

\* The process starts anew with an empty memory: what persists is told once more.
RestartAudit ==
  /\ activeAnomalies' = {}
  /\ emptyStreak' = 0
  /\ deadManAlerted' = FALSE
  /\ sent' = [c \in Codes |-> 0]
  /\ emptyAudits' = 0
  /\ deadManSent' = 0
  /\ UNCHANGED newestAge

AuditNext ==
  \/ \E backlog \in {BacklogLimit, BacklogLimit + 1}, flagged \in BOOLEAN :
       Audit(backlog, flagged)
  \/ AuditFails
  \/ IngestLiveOdds
  \/ RestartAudit

AuditSpec == AuditInit /\ [][AuditNext]_auditVars

-----------------------------------------------------------------------------
\* What the last audit found was sent exactly once since it appeared, whether the
\* alert reached the operator or not: it is neither repeated while it persists
\* nor forgotten when it comes back (self_audit.py:133-140).
AppearanceIsSentOnce == \A c \in Codes : sent[c] = IF c \in activeAnomalies THEN 1 ELSE 0

\* One alert for each run of audits without a fresh row that is long enough, however
\* the run is interrupted by failing audits and whatever came before it
\* (self_audit.py:107-109).
DeadManFiresOnce == deadManSent = IF emptyAudits >= DeadManK THEN 1 ELSE 0

(***************************************************************************)
(* The two daily watches.  upstream_watch asks the package index for the   *)
(* latest release of every bound engine, publishes the result for /health  *)
(* and tells the operator of each release that is not the installed one    *)
(* (app/maintenance/upstream_watch.py).  calibration_drift re-runs the     *)
(* recalibration-gain detector on settled picks and tells the operator     *)
(* when its verdict flips (app/maintenance/calibration_drift.py).          *)
(* Both rely on the dispatcher's dedupe keys to tell a thing once; a key   *)
(* is forgotten TTL days after it was claimed.                             *)
(***************************************************************************)

CONSTANTS Packages,     \* WATCHED_PACKAGES
          MaxRelease,   \* bound: releases of a package
          KeyTTL,       \* alert_dedupe_ttl, in days
          MaxDay        \* bound: days

ASSUME WatchAssumption == MaxRelease \in Nat \ {0} /\ KeyTTL \in Nat \ {0} /\ MaxDay \in Nat

VARIABLES installed,    \* installed_version, or NotInstalled
          latest,       \* the index's latest release
          lastCheck,    \* LAST_CHECK
          atCheck,      \* history: what was installed and latest when it was taken
          keys,         \* dedupe keys and the day each was claimed
          told,         \* history: what the operator was told, by day
          silenced,     \* history: alerts taken for duplicates of what was not told
          repeated,     \* history: what the operator was told again too early
          watchDay

watchVars == <<installed, latest, lastCheck, atCheck, keys, told, silenced, repeated, watchDay>>

NotInstalled == 0
ReleaseNumbers == 1 .. MaxRelease
ReleaseNews(p, r) == [kind |-> "upstream", name |-> p, bucket |-> r]
DriftNews(day)    == [kind |-> "calibration_drift", name |-> "value picks", bucket |-> day]
News == {ReleaseNews(p, r) : p \in Packages, r \in ReleaseNumbers} \cup {DriftNews(d) : d \in 0 .. MaxDay}
Verdicts     == {"unreadable", "no data", "insufficient", "holds", "warranted"}

WatchTypeOK ==
  /\ installed \in [Packages -> ReleaseNumbers \cup {NotInstalled}]
  /\ latest \in [Packages -> ReleaseNumbers]
  /\ lastCheck \in [checked : BOOLEAN, updates : SUBSET (Packages \X ReleaseNumbers), errors : SUBSET Packages]
  /\ atCheck \in [Packages -> SUBSET ((ReleaseNumbers \cup {NotInstalled}) \X ReleaseNumbers)]
  /\ \A c \in keys : c.day \in 0 .. MaxDay
  /\ told \subseteq [news : News, day : 0 .. MaxDay]
  /\ silenced \subseteq News /\ repeated \subseteq News
  /\ watchDay \in 0 .. MaxDay

WatchInit ==
  /\ installed \in [Packages -> {NotInstalled, 1}]
  /\ latest = [p \in Packages |-> 1]
  /\ lastCheck = [checked |-> FALSE, updates |-> {}, errors |-> {}]
  /\ atCheck = [p \in Packages |-> {}]
  /\ keys = {}
  /\ told = {}
  /\ silenced = {}
  /\ repeated = {}
  /\ watchDay = 0

-----------------------------------------------------------------------------
(* The dispatcher: a key that was claimed within the TTL is a duplicate; an alert *)
(* that no channel took hands its key back.                                       *)

\* Slip: the key does not name the release or the day.
SlipDedupeKey(n) == <<n.kind, n.name>>

\* update_alert and drift_alert
DedupeKey(n) == <<n.kind, n.name, n.bucket>>

Claimed(n)   == \E c \in keys : c.key = DedupeKey(n) /\ watchDay - c.day < KeyTTL
ToldLately(n) == \E t \in told : t.news = n /\ watchDay - t.day < KeyTTL

\* Of the news that is not a duplicate some channel takes a part.
Dispatch(news, taken) ==
  /\ taken \subseteq {n \in news : ~Claimed(n)}
  /\ keys' = {c \in keys : \A n \in taken : c.key # DedupeKey(n)}
              \cup {[key |-> DedupeKey(n), day |-> watchDay] : n \in taken}
  /\ told' = {t \in told : t.news \notin taken} \cup [news : taken, day : {watchDay}]
  /\ silenced' = silenced \cup {n \in news : Claimed(n) /\ ~ToldLately(n)}
  /\ repeated' = repeated \cup {n \in taken : ToldLately(n)}

(* check_upstream *)

\* Slip: a package whose page cannot be fetched is passed over in silence.
SlipChecked(unreachable) ==
  [checked |-> TRUE,
   updates |-> {<<p, latest[p]>> : p \in {q \in Packages \ unreachable :
                  installed[q] # NotInstalled /\ installed[q] # latest[q]}},
   errors  |-> {}]

\* Any release that differs from the installed one is news; a package that is not
\* installed is skipped, one that cannot be fetched is an error.
Checked(unreachable) ==
  LET asked == {p \in Packages : installed[p] # NotInstalled}
  IN  [checked |-> TRUE,
       updates |-> {<<p, latest[p]>> : p \in {q \in asked \ unreachable : installed[q] # latest[q]}},
       errors  |-> asked \cap unreachable]

\* upstream_watch, by its cron slot or by the run at start-up.
UpstreamWatch(unreachable, taken) ==
  /\ lastCheck' = Checked(unreachable)
  /\ atCheck' = [p \in Packages |-> {<<installed[p], latest[p]>>}]
  /\ Dispatch({ReleaseNews(u[1], u[2]) : u \in Checked(unreachable).updates}, taken)
  /\ UNCHANGED <<installed, latest, watchDay>>

\* calibration_drift_job: every failure, and every verdict but one, is only logged.
CalibrationDrift(verdict, taken) ==
  /\ Dispatch(IF verdict = "warranted" THEN {DriftNews(watchDay)} ELSE {}, taken)
  /\ UNCHANGED <<installed, latest, lastCheck, atCheck, watchDay>>

-----------------------------------------------------------------------------
Publish(p) ==
  /\ latest[p] < MaxRelease
  /\ latest' = [latest EXCEPT ![p] = @ + 1]
  /\ UNCHANGED <<installed, lastCheck, atCheck, keys, told, silenced, repeated, watchDay>>

\* The operator upgrades; LAST_CHECK keeps what it said until the next check.
UpgradePackage(p) ==
  /\ installed[p] # latest[p]
  /\ installed' = [installed EXCEPT ![p] = latest[p]]
  /\ UNCHANGED <<latest, lastCheck, atCheck, keys, told, silenced, repeated, watchDay>>

\* LAST_CHECK lives in the process, the dedupe keys do not.
RestartWatch ==
  /\ lastCheck' = [checked |-> FALSE, updates |-> {}, errors |-> {}]
  /\ atCheck' = [p \in Packages |-> {}]
  /\ UNCHANGED <<installed, latest, keys, told, silenced, repeated, watchDay>>

NextWatchDay ==
  /\ watchDay < MaxDay
  /\ watchDay' = watchDay + 1
  /\ UNCHANGED <<installed, latest, lastCheck, atCheck, keys, told, silenced, repeated>>

WatchNext ==
  \/ \E unreachable \in SUBSET Packages :
       \E taken \in SUBSET {ReleaseNews(u[1], u[2]) : u \in Checked(unreachable).updates} :
         UpstreamWatch(unreachable, taken)
  \/ \E v \in Verdicts, taken \in SUBSET {DriftNews(watchDay)} : CalibrationDrift(v, taken)
  \/ \E p \in Packages : Publish(p) \/ UpgradePackage(p)
  \/ RestartWatch
  \/ NextWatchDay

-----------------------------------------------------------------------------
\* A check that reports neither an error nor a release has seen that every installed
\* engine is the latest one: an outage never reads as "everything is current"
\* (upstream_watch.py:62-66).
QuietMeansCurrent ==
  lastCheck.checked /\ lastCheck.errors = {} =>
    lastCheck.updates = {u \in Packages \X ReleaseNumbers :
                           \E s \in atCheck[u[1]] : s[1] \notin {NotInstalled, u[2]} /\ s[2] = u[2]}

\* Nothing is told twice while its key lasts, and nothing is taken for a repetition
\* of what was not told: a second release and a second day's drift get through
\* (upstream_watch.py:97-99, calibration_drift.py:70-75).
ToldOncePerKey == silenced = {} /\ repeated = {}

==============================================================================
