---------------------------- MODULE JobScheduler ----------------------------
(***************************************************************************)
(* The jobs of the process as the scheduler runs them (app/scheduler.py):  *)
(* one instance of a job at a time, a slot that comes while it runs is     *)
(* skipped with a warning, and a filter turns the warnings of the jobs     *)
(* that overrun by design into notices until three slots in a row were     *)
(* skipped, which a hung run is known by.  One of the jobs, poll_odds,     *)
(* polls the sports one after the other.                                   *)
(***************************************************************************)
EXTENDS Naturals, Sequences, FiniteSets

CONSTANTS Jobs,            \* job ids
          ContinuousJobs,  \* _CONTINUOUS_POLL_JOBS
          HungAfter,       \* _HUNG_CYCLE_SKIP_THRESHOLD
          SportKeys,       \* the sports polled, in order
          MaxMissed        \* bound: slots skipped during one run

ASSUME JobAssumption ==
  ContinuousJobs \subseteq Jobs /\ "poll_odds" \in ContinuousJobs
  /\ HungAfter \in Nat \ {0} /\ MaxMissed \in Nat /\ MaxMissed > HungAfter
  /\ Len(SportKeys) \in Nat \ {0}

VARIABLES running,      \* jobs with an instance under way
          skips,        \* _consecutive_skips of the filter
          logLevel,     \* LOG_LEVEL
          pollAt,       \* poll_odds: the sport it is at, 0 when idle
          missed,       \* history: slots skipped since the job was last submitted
          seen,         \* history: what of these the log shows
          attempted     \* history: sports the last poll called the pipeline for

jobVars == <<running, skips, logLevel, pollAt, missed, seen, attempted>>

Levels == {"INFO", "WARNING", "ERROR"}

JobTypeOK ==
  /\ running \subseteq Jobs
  /\ skips \in [Jobs -> 0 .. MaxMissed]
  /\ logLevel \in Levels
  /\ pollAt \in 0 .. Len(SportKeys)
  /\ missed \in [Jobs -> 0 .. MaxMissed]
  /\ seen \in [Jobs -> SUBSET {"skip", "notice", "hung"}]
  /\ attempted \subseteq 1 .. Len(SportKeys)

JobInit ==
  /\ running = {}
  /\ skips = [j \in Jobs |-> 0]
  /\ logLevel \in Levels
  /\ pollAt = 0
  /\ missed = [j \in Jobs |-> 0]
  /\ seen = [j \in Jobs |-> {}]
  /\ attempted = {}

-----------------------------------------------------------------------------
(* _PollSkipNoiseFilter *)

\* The record of a skipped slot comes out of the filter as one of these; the level it
\* was raised or lowered to is compared with LOG_LEVEL again.
Filtered(j, count) ==
  IF j \notin ContinuousJobs THEN "skip" ELSE IF count >= HungAfter THEN "hung" ELSE "notice"

Emits(kind) == \/ kind \in {"skip", "hung"} /\ logLevel # "ERROR"
               \/ kind = "notice" /\ logLevel = "INFO"

\* Slip: a submission does not clear the counter.
SlipReset(j) == skips

\* reset, on EVENT_JOB_SUBMITTED
Reset(j) == [skips EXCEPT ![j] = 0]

\* A slot that finds no instance running submits the job.
Submit(j) ==
  /\ j \notin running
  /\ running' = running \cup {j}
  /\ skips' = Reset(j)
  /\ missed' = [missed EXCEPT ![j] = 0]
  /\ seen' = [seen EXCEPT ![j] = {}]
  /\ IF j = "poll_odds" THEN pollAt' = 1 /\ attempted' = {} ELSE UNCHANGED <<pollAt, attempted>>
  /\ UNCHANGED logLevel

\* Slip: the threshold is met one slot late.
SlipCount(j) == skips[j]

\* The record's own slot is counted before the threshold is looked at.
Count(j) == skips[j] + 1

\* max_instances = 1: the slot is skipped.
SkipSlot(j) ==
  /\ j \in running
  /\ missed[j] < MaxMissed
  /\ missed' = [missed EXCEPT ![j] = @ + 1]
  /\ skips' = IF j \in ContinuousJobs THEN [skips EXCEPT ![j] = IF @ < MaxMissed THEN @ + 1 ELSE @]
              ELSE skips
  /\ LET kind == Filtered(j, Count(j))
     IN  seen' = [seen EXCEPT ![j] = IF Emits(kind) THEN @ \cup {kind} ELSE @]
  /\ UNCHANGED <<running, logLevel, pollAt, attempted>>

Finish(j) ==
  /\ j \in running /\ j # "poll_odds"
  /\ running' = running \ {j}
  /\ UNCHANGED <<skips, logLevel, pollAt, missed, seen, attempted>>

-----------------------------------------------------------------------------
(* poll_odds *)

\* Slip: a sport whose poll fails ends the run.
SlipAfterSport(raises) == IF raises \/ pollAt = Len(SportKeys) THEN 0 ELSE pollAt + 1

\* The loop goes on with the next sport whether or not this one raised.
AfterSport(raises) == IF pollAt = Len(SportKeys) THEN 0 ELSE pollAt + 1

PollSport(raises) ==
  /\ pollAt # 0
  /\ attempted' = attempted \cup {pollAt}
  /\ pollAt' = AfterSport(raises)
  /\ running' = IF pollAt' = 0 THEN running \ {"poll_odds"} ELSE running
  /\ UNCHANGED <<skips, logLevel, missed, seen>>

JobNext ==
  \/ \E j \in Jobs : Submit(j) \/ SkipSlot(j) \/ Finish(j)
  \/ \E raises \in BOOLEAN : PollSport(raises)

-----------------------------------------------------------------------------
\* The log says that a run hangs exactly when the slots it lasted for are too many,
\* not by what earlier runs or other jobs skipped, and never with the notices off the
\* level (scheduler.py:84-102).
HungIsSeen ==
  \A j \in Jobs : "hung" \in seen[j] <=>
    j \in ContinuousJobs /\ missed[j] >= HungAfter /\ logLevel # "ERROR"

\* A poll that has ended has asked the pipeline for every sport, the failing ones too
\* (scheduler.py:527-532).
EverySportIsPolled ==
  pollAt = 0 /\ attempted # {} => attempted = 1 .. Len(SportKeys)
=============================================================================
