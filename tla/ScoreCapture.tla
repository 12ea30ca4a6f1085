----------------------------- MODULE ScoreCapture -----------------------------
(***************************************************************************)
(* The scrape of final scores (app/clv_trueup.py, capture_finished_scores  *)
(* and _scrape_one_finished_score), the only source of results for leagues *)
(* without a feed.  It runs as two jobs, one by interval and one at        *)
(* start-up, over the same events.  Each link is fetched under a timeout   *)
(* and committed by itself; the page's header reaches the capture through  *)
(* the EventDirectory, into which the odds polls register what they see of *)
(* the same matches.                                                       *)
(*                                                                         *)
(* Events are numbered in the order the database returns them, which       *)
(* nothing in the statement fixes and nothing varies.                      *)
(***************************************************************************)
EXTENDS Naturals, FiniteSets

CONSTANTS PickedGames,        \* events with an open pick, 1 .. n
          LinkLimit,    \* RESULTS_SCRAPE_MAX_PER_CYCLE
          Budget        \* hung links that spend the cycle's time budget

ASSUME CaptureAssumption ==
  PickedGames \subseteq Nat /\ IsFiniteSet(PickedGames) /\ LinkLimit \in Nat \ {0} /\ Budget \in Nat \ {0}

VARIABLES phase,      \* the match itself
          past,       \* which floor its kickoff is past
          hangs,      \* links whose page never loads
          awaited,    \* the event still has an open pick
          headers,  \* EventDirectory: the last header registered
          recorded,   \* events.scraped_home_score and its pair
          status,     \* events.status
          worker,     \* the two jobs
          tookFrom    \* history: the finished flag a recorded score came with

scoreVars == <<phase, past, hangs, awaited, headers, recorded, status, worker, tookFrom>>

CaptureJobs    == {"interval", "initial"}
NoScore == "none"
Flags   == {"finished", "running", "no status"}
Header  == [score : {NoScore, "partial", "absurd", "final"}, flag : Flags]
Unseen  == [score |-> NoScore, flag |-> "no status"]
Idle    == [at |-> "idle", queue |-> {}, game |-> 0, full |-> FALSE, teams |-> Unseen, hung |-> 0]

ScoreTypeOK ==
  /\ phase \in [PickedGames -> {"to come", "in play", "over"}]
  /\ past \in [PickedGames -> {"none", "soft floor", "full floor", "window"}]
  /\ hangs \subseteq PickedGames
  /\ awaited \in [PickedGames -> BOOLEAN]
  /\ headers \in [PickedGames -> Header]
  /\ recorded \in [PickedGames -> {NoScore, "partial", "final"}]
  /\ status \in [PickedGames -> {"scheduled", "finished"}]
  /\ worker \in [CaptureJobs -> [at : {"idle", "ended", "links", "commit"}, queue : SUBSET (PickedGames \X BOOLEAN),
                          game : PickedGames \cup {0}, full : BOOLEAN, teams : Header, hung : 0 .. Budget]]
  /\ tookFrom \in [PickedGames -> Flags \cup {NoScore}]

ScoreInit ==
  /\ phase = [g \in PickedGames |-> "to come"]
  /\ past = [g \in PickedGames |-> "none"]
  /\ hangs \in SUBSET PickedGames
  /\ awaited = [g \in PickedGames |-> TRUE]
  /\ headers = [g \in PickedGames |-> Unseen]
  /\ recorded = [g \in PickedGames |-> NoScore]
  /\ status = [g \in PickedGames |-> "scheduled"]
  /\ worker = [j \in CaptureJobs |-> Idle]
  /\ tookFrom = [g \in PickedGames |-> NoScore]

-----------------------------------------------------------------------------
(* What a page shows. OddsPortal gives a live score while the match is played, *)
(* some leagues give no status, and a scrape may misread a score.              *)

\* _coerce_finished
FlagShown(g) == {"no status", IF phase[g] = "over" THEN "finished" ELSE "running"}

ScoreShown(g) == IF phase[g] = "over" THEN {"final", "absurd"}
                 ELSE IF phase[g] = "in play" THEN {"partial", NoScore} ELSE {NoScore}

Page(g) == [score : ScoreShown(g), flag : FlagShown(g)]

\* An odds poll scrapes the match and registers its header: the last one stands.
PollRegisters(g) ==
  /\ g \notin hangs
  /\ \E h \in Page(g) : headers' = [headers EXCEPT ![g] = h]
  /\ UNCHANGED <<phase, past, hangs, awaited, recorded, status, worker, tookFrom>>

-----------------------------------------------------------------------------
(* capture_finished_scores *)

Due == {g \in PickedGames : awaited[g] /\ past[g] \in {"soft floor", "full floor"} /\ recorded[g] = NoScore}

\* The statement has a LIMIT and no order: which of them it keeps is the database's choice.
StartCapture(j) ==
  /\ worker[j].at = "idle"
  /\ \E chosen \in SUBSET Due :
       /\ Cardinality(chosen) = (IF Cardinality(Due) < LinkLimit THEN Cardinality(Due) ELSE LinkLimit)
       /\ worker' = [worker EXCEPT ![j] =
            [Idle EXCEPT !.at = "links", !.queue = {<<g, past[g] = "full floor">> : g \in chosen}]]
  /\ UNCHANGED <<phase, past, hangs, awaited, headers, recorded, status, tookFrom>>

\* The run at start-up is not repeated.
Ended(j) == IF j = "initial" THEN [Idle EXCEPT !.at = "ended"] ELSE Idle

EndCapture(j) ==
  /\ worker[j].at = "links"
  /\ worker[j].queue = {} \/ worker[j].hung = Budget
  /\ worker' = [worker EXCEPT ![j] = Ended(j)]
  /\ UNCHANGED <<phase, past, hangs, awaited, headers, recorded, status, tookFrom>>

\* The timeout, or another failure, drops the link for this cycle.
FetchFails(j) ==
  /\ worker[j].at = "links" /\ worker[j].hung < Budget
  /\ \E l \in worker[j].queue :
       worker' = [worker EXCEPT ![j].queue = @ \ {l},
                                ![j].hung = IF l[1] \in hangs THEN @ + 1 ELSE @]
  /\ UNCHANGED <<phase, past, hangs, awaited, headers, recorded, status, tookFrom>>

\* Slip: past the full floor the page's status is not looked at.
SlipAccepts(teams, full) ==
  /\ teams.score \notin {NoScore, "absurd"}
  /\ teams.flag = "finished" \/ full

\* _is_implausible_final and the finished-status gate.
Accepts(teams, full) ==
  /\ teams.score \notin {NoScore, "absurd"}
  /\ teams.flag # "running"
  /\ teams.flag = "no status" => full

\* The fetch returns. When it scraped the page the header is registered; a pass that
\* came back empty, or was cut by the loader's own watchdog, registers nothing. The
\* directory is read either way.
FetchReturns(j) ==
  /\ worker[j].at = "links" /\ worker[j].hung < Budget
  /\ \E l \in worker[j].queue :
       LET g == l[1] IN
       /\ g \notin hangs
       /\ \/ \E h \in Page(g) : headers' = [headers EXCEPT ![g] = h]
          \/ UNCHANGED headers
       /\ worker' = IF Accepts(headers'[g], l[2])
                    THEN [worker EXCEPT ![j].at = "commit", ![j].queue = @ \ {l}, ![j].game = g,
                                        ![j].full = l[2], ![j].teams = headers'[g]]
                    ELSE [worker EXCEPT ![j].queue = @ \ {l}]
  /\ UNCHANGED <<phase, past, hangs, awaited, recorded, status, tookFrom>>

\* Slip: the score is written without looking for one that is there.
SlipMayWrite(g) == TRUE

\* WHERE scraped_home_score IS NULL
MayWrite(g) == recorded[g] = NoScore

\* Both updates of the link's own transaction: the score, and the status also of an
\* event that was scored before.
CommitScore(j) ==
  /\ worker[j].at = "commit"
  /\ LET g == worker[j].game
         t == worker[j].teams
     IN  /\ recorded' = [recorded EXCEPT ![g] = IF MayWrite(g) THEN t.score ELSE @]
         /\ tookFrom' = [tookFrom EXCEPT ![g] = IF MayWrite(g) THEN t.flag ELSE @]
         /\ status' = [status EXCEPT ![g] = "finished"]
  /\ worker' = [worker EXCEPT ![j].at = "links", ![j].game = 0, ![j].full = FALSE, ![j].teams = Unseen]
  /\ UNCHANGED <<phase, past, hangs, awaited, headers>>

-----------------------------------------------------------------------------
(* The world. A match is over before the full floor of its sport, as the floors *)
(* are chosen for; it may still be played at the soft one.                      *)

KickOff(g) ==
  /\ phase[g] = "to come"
  /\ phase' = [phase EXCEPT ![g] = "in play"]
  /\ UNCHANGED <<past, hangs, awaited, headers, recorded, status, worker, tookFrom>>

FullTime(g) ==
  /\ phase[g] = "in play"
  /\ phase' = [phase EXCEPT ![g] = "over"]
  /\ UNCHANGED <<past, hangs, awaited, headers, recorded, status, worker, tookFrom>>

\* Past the window the event is no longer looked at.
TimePasses(g) ==
  /\ \/ past[g] = "none" /\ phase[g] # "to come" /\ past' = [past EXCEPT ![g] = "soft floor"]
     \/ past[g] = "soft floor" /\ phase[g] = "over" /\ past' = [past EXCEPT ![g] = "full floor"]
     \/ past[g] = "full floor" /\ past' = [past EXCEPT ![g] = "window"]
  /\ UNCHANGED <<phase, hangs, awaited, headers, recorded, status, worker, tookFrom>>

\* Settled from a feed, by hand, or voided.
PickCloses(g) ==
  /\ awaited[g]
  /\ awaited' = [awaited EXCEPT ![g] = FALSE]
  /\ UNCHANGED <<phase, past, hangs, headers, recorded, status, worker, tookFrom>>

CaptureStep(j) == EndCapture(j) \/ FetchFails(j) \/ FetchReturns(j) \/ CommitScore(j)

ScoreNext ==
  \/ \E j \in CaptureJobs : StartCapture(j) \/ CaptureStep(j)
  \/ \E g \in PickedGames : PollRegisters(g) \/ KickOff(g) \/ FullTime(g) \/ TimePasses(g) \/ PickCloses(g)

ScoreSpec == ScoreInit /\ [][ScoreNext]_scoreVars

-----------------------------------------------------------------------------
\* The score an event is settled from never changes once it is there, whichever of
\* the two jobs comes second and whatever it read (clv_trueup.py:553-557).
FirstScoreStands == [][\A g \in PickedGames : recorded[g] # NoScore => recorded'[g] = recorded[g]]_scoreVars

\* A running score is never taken from a page that says the match is running, not
\* even past the floor that stands in for a missing status (oddsportal.py:1914-1926).
RunningScoreRejected == \A g \in PickedGames : tookFrom[g] # "running"

=============================================================================
