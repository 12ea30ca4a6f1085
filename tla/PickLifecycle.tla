---------------------------- MODULE PickLifecycle ----------------------------
(***************************************************************************)
(* A pick from detection to alert: the polling cycle of app/pipeline.py,   *)
(* the picks table it writes through app/storage/repositories.py, the      *)
(* in-memory exposure ledger it reserves from and the restart that reseeds *)
(* that ledger from the table (app/scheduler.py, app/main.py).             *)
(*                                                                         *)
(* One process runs one cycle at a time; every await of the cycle is a     *)
(* step boundary, so settlement, midnight, a crash or a redeployment with  *)
(* another model version may fall between any two steps.  A cycle persists *)
(* each candidate as it finds it, defers the premium ones, then takes them *)
(* by raw Kelly: reserve from the ledger, write a clipped stake back to    *)
(* the row, dispatch the alert.                                            *)
(*                                                                         *)
(* A row is keyed by the opportunity (event, market, selection) and the    *)
(* model version, the table's unique constraint.  What a source quotes for *)
(* an opportunity is a Quote: the tier its gates leave it, the per-bet-    *)
(* capped stake and its raw Kelly.                                         *)
(*                                                                         *)
(* History variables, read by no guard: `grant` (what each row was granted *)
(* and on which day), `funded` (the Kellys granted in the current cycle),  *)
(* `alert` (the cycle's last delivered alert), `unseeded` (per day, how  *)
(* often a process started without its seed).                              *)
(***************************************************************************)
EXTENDS ExposureLedger, FiniteSets, Functions

CONSTANTS
    Opps,         \* market opportunities
    EventOf,      \* the event of each opportunity
    Versions,     \* model versions that are ever deployed
    Quotes,       \* what a source may quote for an opportunity
    Strategies,   \* strategies that are ever configured, of StrategyNames
    SeedMayFail,  \* may the seeding query fail at startup?
    MaxFaults     \* bound on the number of failures of any kind

StrategyNames == {"value", "model"}
Keys == Opps \X Versions
Tiers == {"premium", "volume"}
Quote == [tier : Tiers, stake : Fractions, kelly : Nat]
Outcomes == {"inserted", "upgraded", "duplicate", "unpersisted"}
Candidate == [opp : Opps, quote : Quote, outcome : Outcomes]

ASSUME LifecycleAssumption ==
    /\ IsFiniteSet(Opps) /\ IsFiniteSet(Versions)
    /\ EventOf \in [Opps -> Events]
    /\ Quotes \subseteq Quote
    /\ Strategies \subseteq StrategyNames
    /\ SeedMayFail \in BOOLEAN
    /\ MaxFaults \in Nat

Row == [status : {"absent", "alerted", "settled", "superseded"},
        tier : Tiers, stake : Nat, created : Nat]

NoRow == [status |-> "absent", tier |-> "volume", stake |-> 0, created |-> 0]

VARIABLES
    day,          \* the wall clock's calendar day
    picks,        \* the picks table
    version,      \* the model version the process runs
    strategy,     \* "value": run_value_pipeline; "model": run_pick_pipeline
    pc,           \* where the process is in its cycle
    today,        \* the cycle's `now`.date(), taken when its fetch returned
    todo,         \* opportunities the cycle has not looked at
    deferred,     \* premium_candidates not yet reserved
    current,      \* the candidate between its reservation and its dispatch
    claimed,      \* rows whose present alert key is held in the dedupe store
    faults,       \* failures so far
    grant, funded, alert, unseeded

tableVars == <<day, picks>>
deployment == <<version, strategy>>
cycleVars == <<deployment, pc, today, todo, deferred, current>>
historyVars == <<grant, funded, alert, unseeded>>
vars == <<tableVars, cycleVars, ledgerVars, claimed, faults, historyVars>>

NoCandidate == [stake |-> 0]
NoAlert == [stake |-> 0]

TypeOK ==
    /\ LedgerTypeOK
    /\ day \in Days
    /\ picks \in [Keys -> Row]
    /\ version \in Versions
    /\ strategy \in Strategies
    /\ pc \in {"down", "idle", "sweep", "fund", "clip", "send"}
    /\ today \in Days
    /\ todo \subseteq Opps
    /\ deferred \subseteq Candidate
    /\ pc \in {"clip", "send"} =>
         current \in [opp : Opps, quote : Quote, outcome : Outcomes, stake : Nat]
    /\ claimed \subseteq Keys
    /\ faults \in 0 .. MaxFaults
    /\ grant \in [Keys -> [Days -> Nat]]
    /\ funded \subseteq Nat
    /\ alert # NoAlert =>
         alert \in [key : Keys, outcome : Outcomes, stake : Nat]
    /\ unseeded \in [Days -> Nat]

Init ==
    /\ LedgerInit
    /\ day \in Days /\ \A d \in Days : day <= d
    /\ picks = [k \in Keys |-> NoRow]
    /\ version \in Versions
    /\ strategy \in Strategies
    /\ pc = "idle"
    /\ today = day
    /\ todo = {}
    /\ deferred = {}
    /\ current = NoCandidate
    /\ claimed = {}
    /\ faults = 0
    /\ grant = [k \in Keys |-> [d \in Days |-> 0]]
    /\ funded = {}
    /\ alert = NoAlert
    /\ unseeded = [d \in Days |-> 0]

Fault ==
    /\ faults < MaxFaults
    /\ faults' = faults + 1

-----------------------------------------------------------------------------
(* The picks table.                                                        *)

Open(k) == picks[k].status = "alerted"

\* Slip: a volume row closes no older volume row.
SupersedePremiumOnly(table, o, v, tier) ==
    [k \in Keys |->
        IF k[1] = o /\ k[2] # v /\ table[k].status = "alerted" /\ tier = "premium"
        THEN [table[k] EXCEPT !.status = "superseded"]
        ELSE table[k]]

\* _supersede_older_versions: a premium row closes every other open version of
\* its opportunity, a volume row only the open volume ones.
Supersede(table, o, v, tier) ==
    [k \in Keys |->
        IF /\ k[1] = o /\ k[2] # v
           /\ table[k].status = "alerted"
           /\ tier = "premium" \/ table[k].tier # "premium"
        THEN [table[k] EXCEPT !.status = "superseded"]
        ELSE table[k]]

\* Slip: a promoted row keeps the moment it was first seen.
WrittenKeepingDate(o, v, q) ==
    Supersede([picks EXCEPT ![<<o, v>>] =
                 [status |-> "alerted", tier |-> q.tier, stake |-> q.stake,
                  created |-> IF @.status = "absent" THEN day ELSE @.created]],
              o, v, q.tier)

\* The row a detection writes, new or promoted in place: created_at is the
\* wall clock of the write, not the cycle's `now`.
Written(o, v, q) ==
    Supersede([picks EXCEPT ![<<o, v>>] =
                 [status |-> "alerted", tier |-> q.tier,
                  stake |-> q.stake, created |-> day]],
              o, v, q.tier)

\* Slips: a closed shadow row is promoted; a re-detected row is promoted again.
PersistOutcomeReopening(row, q) ==
    IF row.status = "absent" THEN "inserted"
    ELSE IF q.tier = "premium" /\ row.tier = "volume" THEN "upgraded"
    ELSE "duplicate"

PersistOutcomeRepeating(row, q) ==
    IF row.status = "absent" THEN "inserted"
    ELSE IF q.tier = "premium" /\ row.status = "alerted" THEN "upgraded"
    ELSE "duplicate"

\* Slip: any row shields its key, a shadow row from a premium detection too.
PersistOutcomeShielding(row, q) ==
    IF row.status = "absent" THEN "inserted" ELSE "duplicate"

\* persist_pick's answer for a detection that meets `row` under its key.
PersistOutcome(row, q) ==
    IF row.status = "absent" THEN "inserted"
    ELSE IF /\ q.tier = "premium"
            /\ row.tier = "volume"
            /\ row.status = "alerted"
         THEN "upgraded"
    ELSE "duplicate"

\* Settlement or a void closes an open row at any moment; a result recorded by
\* the operator also closes a superseded one.
Close(k) ==
    /\ picks[k].status \in {"alerted", "superseded"}
    /\ picks' = [picks EXCEPT ![k].status = "settled"]
    /\ UNCHANGED <<day, cycleVars, ledgerVars, claimed, faults, historyVars>>

-----------------------------------------------------------------------------
(* The cycle.                                                              *)

StartCycle ==
    /\ pc = "idle"
    /\ pc' = "sweep"
    /\ today' = day
    /\ todo' = Opps
    /\ deferred' = {}
    /\ funded' = {}
    /\ alert' = NoAlert
    /\ UNCHANGED <<deployment, current, tableVars, ledgerVars, claimed, faults,
                   grant, unseeded>>

\* The value strategy funds its candidates after the whole sweep.
Deferring == strategy = "value"

\* A volume candidate is done once persisted; a premium one waits for its
\* reservation, behind the whole sweep or (model strategy, where the same
\* opportunity may come back from another bookmaker) at once.
Enqueue(o, q, outcome) ==
    /\ deferred' = IF q.tier = "volume" THEN deferred
                   ELSE deferred \cup
                          {[opp |-> o, quote |-> q, outcome |-> outcome]}
    /\ todo' = IF Deferring THEN todo \ {o} ELSE todo
    /\ pc' = IF Deferring \/ q.tier = "volume" THEN "sweep" ELSE "fund"
    /\ UNCHANGED <<deployment, today, current, day, ledgerVars, claimed,
                   historyVars>>

\* persist_pick in one step. A settlement that commits between its SELECT and
\* its flush leaves the row as one right after the flush does: the flush of a
\* promotion does not write the status, the settlement does not write the tier,
\* the stake or the date.
Detect(o, q) ==
    LET outcome == PersistOutcome(picks[<<o, version>>], q)
    IN  /\ pc = "sweep" /\ o \in todo
        /\ picks' = IF outcome = "duplicate" THEN picks
                    ELSE Written(o, version, q)
        /\ Enqueue(o, q, outcome)
        /\ UNCHANGED faults

\* _maybe_persist swallows a failed write: the table is as it was.
DetectUnpersisted(o, q) ==
    /\ pc = "sweep" /\ o \in todo
    /\ Fault
    /\ Enqueue(o, q, "unpersisted")
    /\ UNCHANGED picks

\* Whatever the cycle has not looked at is no candidate this time.
EndSweep ==
    /\ pc = "sweep"
    /\ pc' = IF Deferring THEN "fund" ELSE "idle"
    /\ todo' = {}
    /\ UNCHANGED <<deployment, today, deferred, current, tableVars, ledgerVars,
                   claimed, faults, historyVars>>

\* After a candidate is finished the model strategy goes on scanning.
Resume == IF Deferring THEN "fund" ELSE "sweep"

\* Slip: candidates are funded in iteration order.
IsNextAsListed(c) == c \in deferred

\* The sort by raw_kelly, descending: equal Kellys come in iteration order,
\* which the model leaves open.
IsNext(c) ==
    /\ c \in deferred
    /\ \A other \in deferred : other.quote.kelly <= c.quote.kelly

Take(c, next) ==
    /\ pc = "fund"
    /\ IsNext(c)
    /\ deferred' = deferred \ {c}
    /\ pc' = next
    /\ UNCHANGED <<deployment, today, todo, tableVars, claimed, faults, alert,
                   unseeded>>

Staked(c, stake) ==
    [opp |-> c.opp, quote |-> c.quote, outcome |-> c.outcome, stake |-> stake]

\* Slip: a re-detection of a row that is already persisted is not dispatched.
FundNothingSilently(c) ==
    /\ c.outcome \in {"duplicate", "unpersisted"}
    /\ Take(c, Resume)
    /\ current' = NoCandidate
    /\ UNCHANGED <<ledgerVars, grant, funded>>

\* Already persisted, or not known to be: nothing is reserved and the alert
\* goes out with the detection's own stake.
FundNothing(c) ==
    /\ c.outcome \in {"duplicate", "unpersisted"}
    /\ Take(c, "send")
    /\ current' = Staked(c, c.quote.stake)
    /\ UNCHANGED <<ledgerVars, grant, funded>>

CandidateGrant(c) == Granted(today, c.quote.stake, EventOf[c.opp])

\* No room for a brand-new pick: it is skipped, and its row stays.
FundSkip(c) ==
    /\ c.outcome = "inserted"
    /\ CandidateGrant(c) <= 0
    /\ Take(c, Resume)
    /\ current' = NoCandidate
    /\ UNCHANGED <<ledgerVars, grant, funded>>

FundReserve(c) ==
    LET g == CandidateGrant(c)
        k == <<c.opp, version>>
    IN  /\ c.outcome \in {"inserted", "upgraded"}
        /\ c.outcome = "inserted" => g > 0
        /\ Reserve(today, c.quote.stake, EventOf[c.opp])
        /\ Take(c, IF g < c.quote.stake THEN "clip" ELSE "send")
        /\ current' = Staked(c, g)
        /\ grant' = [grant EXCEPT ![k][today] = @ + g]
        /\ funded' = IF g > 0 THEN funded \cup {c.quote.kelly} ELSE funded

\* _persist_stake_clip: the row takes the granted stake, or the write fails and
\* is only logged.
Clip ==
    /\ pc = "clip"
    /\ picks' = [picks EXCEPT ![<<current.opp, version>>].stake = current.stake]
    /\ pc' = "send"
    /\ UNCHANGED <<day, deployment, today, todo, deferred, current, ledgerVars,
                   claimed, faults, historyVars>>

ClipFails ==
    /\ pc = "clip"
    /\ Fault
    /\ pc' = "send"
    /\ UNCHANGED <<deployment, today, todo, deferred, current, tableVars,
                   ledgerVars, claimed, historyVars>>

\* The locals of a cycle that is not going to be finished.
Forget ==
    /\ todo' = {}
    /\ deferred' = {}
    /\ current' = NoCandidate

Sent ==
    /\ pc' = Resume
    /\ current' = NoCandidate
    /\ UNCHANGED <<deployment, today, todo, deferred, tableVars, ledgerVars, grant,
                   funded, unseeded>>

\* dispatch(): the key is held, so the duplicate is suppressed.
SendSuppressed ==
    /\ pc = "send"
    /\ <<current.opp, version>> \in claimed
    /\ Sent
    /\ UNCHANGED <<claimed, faults, alert>>

SendDelivered ==
    LET k == <<current.opp, version>>
    IN  /\ pc = "send"
        /\ k \notin claimed
        /\ claimed' = claimed \cup {k}
        /\ alert' = [key |-> k, outcome |-> current.outcome,
                     stake |-> current.stake]
        /\ Sent
        /\ UNCHANGED faults

\* Every channel failed: the claim is released and dispatch() returns.
SendFails ==
    /\ pc = "send"
    /\ <<current.opp, version>> \notin claimed
    /\ Fault
    /\ Sent
    /\ UNCHANGED <<claimed, alert>>

\* dispatch() raised (the dedupe store is unreachable): the rest of the cycle
\* is abandoned, its remaining candidates are persisted but never reserved.
SendRaises ==
    /\ pc = "send"
    /\ Fault
    /\ pc' = "idle"
    /\ Forget
    /\ UNCHANGED <<deployment, today, tableVars, ledgerVars, claimed, historyVars>>

EndCycle ==
    /\ pc = "fund"
    /\ deferred = {}
    /\ pc' = "idle"
    /\ UNCHANGED <<deployment, today, todo, deferred, current, tableVars,
                   ledgerVars, claimed, faults, historyVars>>

-----------------------------------------------------------------------------
(* The surroundings.                                                       *)

NextDay ==
    /\ day + 1 \in Days
    /\ day' = day + 1
    /\ UNCHANGED <<picks, cycleVars, ledgerVars, claimed, faults, historyVars>>

\* The claim's TTL runs out, or the source's price moves and the same row has a
\* new alert key.
ClaimLapses(k) ==
    /\ k \in claimed
    /\ claimed' = claimed \ {k}
    /\ UNCHANGED <<tableVars, cycleVars, ledgerVars, faults, historyVars>>

\* The process dies, or is stopped, between any two of its steps.
Crash ==
    /\ pc # "down"
    /\ Fault
    /\ pc' = "down"
    /\ Forget
    /\ LedgerReset
    /\ UNCHANGED <<deployment, today, tableVars, claimed, historyVars>>

\* coalesce(sum(...), 0)
Coalesced(n) == IF n \in Nat THEN n ELSE 0

\* Slip: only rows still open are counted against the day.
SeedRowsOpen(d) ==
    {k \in Keys : /\ Open(k)
                  /\ picks[k].created = d
                  /\ picks[k].tier = "premium"}

\* The premium rows created today, whatever their status.
SeedRows(d) ==
    {k \in Keys : /\ picks[k].status # "absent"
                  /\ picks[k].created = d
                  /\ picks[k].tier = "premium"}

StakeSum(rows) ==
    Coalesced(SumFunctionOnSet([k \in Keys |-> picks[k].stake], rows))

\* Slip: the sub-cap is not restored.
EventSeedsNone(d) == [e \in {} |-> 0]

EventSeeds(d) ==
    [e \in IF EventCapOn THEN {EventOf[k[1]] : k \in SeedRows(d)} ELSE {} |->
        StakeSum({k \in SeedRows(d) : EventOf[k[1]] = e})]

\* A restart may bring another model version and another strategy.
Boot(v) ==
    /\ pc = "down"
    /\ pc' = "idle"
    /\ version' = v
    /\ strategy' \in Strategies
    /\ UNCHANGED <<today, todo, deferred, current, tableVars, claimed, grant,
                   funded, alert>>

\* seed_exposure_ledger
Start(v) ==
    /\ Boot(v)
    /\ Preload(day, StakeSum(SeedRows(day)), EventSeeds(day))
    /\ UNCHANGED <<faults, unseeded>>

\* The seeding query failed: the application starts all the same, its ledger
\* empty.
StartUnseeded(v) ==
    /\ SeedMayFail
    /\ Boot(v)
    /\ unseeded' = [unseeded EXCEPT ![day] = @ + 1]
    /\ UNCHANGED <<ledgerVars, faults>>

-----------------------------------------------------------------------------

Fund == \E c \in deferred : FundNothing(c) \/ FundSkip(c) \/ FundReserve(c)

Send == SendSuppressed \/ SendDelivered \/ SendFails \/ SendRaises

Next ==
    \/ StartCycle
    \/ \E o \in Opps, q \in Quotes : Detect(o, q) \/ DetectUnpersisted(o, q)
    \/ EndSweep
    \/ Fund
    \/ Clip
    \/ ClipFails
    \/ Send
    \/ EndCycle
    \/ \E k \in Keys : Close(k) \/ ClaimLapses(k)
    \/ NextDay
    \/ Crash
    \/ \E v \in Versions : Start(v) \/ StartUnseeded(v)

Spec == Init /\ [][Next]_vars

\* What the event loop does of its own accord: a poll is always scheduled
\* again, no await of the cycle blocks for ever, a stopped container restarts.
Progress ==
    \/ StartCycle \/ EndSweep \/ Fund \/ Clip \/ Send \/ EndCycle
    \/ \E v \in Versions : Start(v)

\* Assumed of the markets, not of the code: an opportunity that is offered keeps
\* being quoted at premium strength in poll after poll.
MarketKeepsOffering ==
    \A o \in Opps :
        SF_vars(\E q \in Quotes : q.tier = "premium" /\ Detect(o, q))

FairSpec == Spec /\ WF_vars(Progress) /\ MarketKeepsOffering

-----------------------------------------------------------------------------
(* Properties.                                                             *)

GrantedOn(d) == SumFunction([k \in Keys |-> grant[k][d]])

GrantedToEvent(d, e) ==
    SumFunctionOnSet([k \in Keys |-> grant[k][d]], {k \in Keys : EventOf[k[1]] = e})

(* The daily cap across restarts (seed_exposure_ledger): everything the    *)
(* ledger ever granted for one day, by whatever sequence of processes and  *)
(* model versions, stays within max_daily_fraction; a process that started *)
(* without its seed can add at most one more cap.                          *)
DailyCapSurvivesRestarts ==
    \A d \in Days : GrantedOn(d) <= MaxDaily * (1 + unseeded[d])

(* The same for the correlation sub-cap of one event.                      *)
EventCapSurvivesRestarts ==
    EventCapOn =>
        \A d \in Days, e \in Events :
            GrantedToEvent(d, e) <= MaxEvent * (1 + unseeded[d])

(* Both caps, by whatever sequence of processes and versions.              *)
CapsSurviveRestarts == DailyCapSurvivesRestarts /\ EventCapSurvivesRestarts

(* A re-detection never reserves again (_reserve_for_outcome): over all    *)
(* cycles, restarts and upgrades a row is granted bankroll at most once.   *)
GrantedOnce ==
    [][\A k \in Keys : grant'[k] # grant[k] => \A d \in Days : grant[k][d] = 0]_vars

(* Whatever was granted is still on the row it was granted for, and the    *)
(* row is premium (persist_pick, update_pick_stake): this is what makes    *)
(* the seeding query count it.                                             *)
GrantIsOnTheRow ==
    \A k \in Keys, d \in Days :
        grant[k][d] > 0 => /\ picks[k].status # "absent"
                           /\ picks[k].tier = "premium"
                           /\ picks[k].created >= d
                           /\ picks[k].stake >= grant[k][d]

(* One market opportunity has at most one open premium pick and at most    *)
(* one open shadow pick, however versions are deployed and rolled back     *)
(* (_supersede_older_versions).                                            *)
OneOpenPickPerTier ==
    \A j, k \in Keys :
        /\ j[1] = k[1] /\ j # k
        /\ Open(j) /\ Open(k)
        => picks[j].tier # picks[k].tier

(* A row's tier only ratchets upward, a closed row never opens again, and  *)
(* created_at moves only at the moment of the promotion (persist_pick).    *)
RowsOnlyRatchet ==
    [][\A k \in Keys : picks[k].status # "absent" =>
          /\ picks'[k].status # "absent"
          /\ ~Open(k) => picks'[k].status \in {picks[k].status, "settled"}
          /\ picks[k].tier = "premium" =>
                /\ picks'[k].tier = "premium"
                /\ picks'[k].created = picks[k].created]_vars

(* Within one cycle of the value pipeline bankroll goes to the highest raw *)
(* Kelly first: nothing granted so far in the cycle had a lower Kelly than *)
(* a candidate still waiting (premium_candidates.sort).                    *)
HighestKellyFirst ==
    Deferring /\ pc \in {"fund", "clip", "send"} =>
        \A kelly \in funded, c \in deferred : c.quote.kelly <= kelly

(* An alert stands on its row. A pick that persist_pick answered for is    *)
(* alerted as a row of the table that is premium, or (a re-detection at    *)
(* premium strength) that was closed as a shadow row and stays closed: no  *)
(* open shadow row is ever alerted, whatever is settled, superseded or     *)
(* clipped between the detection and the dispatch. A new or promoted pick  *)
(* never quotes more than its row has staked. An alert whose write failed  *)
(* stands on no row.                                                       *)
AlertStandsOnItsRow ==
    alert # NoAlert /\ alert.outcome # "unpersisted" =>
        /\ picks[alert.key].status # "absent"
        /\ \/ picks[alert.key].tier = "premium"
           \/ alert.outcome = "duplicate" /\ ~Open(alert.key)
        /\ alert.outcome # "duplicate" => alert.stake <= picks[alert.key].stake

(* A funded pick is not forgotten (duplicates are dispatched again): after *)
(* finitely many failures, an open premium row that was granted bankroll   *)
(* is alerted under its present key, whichever dispatch, crash or lapsed   *)
(* claim came between, unless another version takes the process over.      *)
FundedIsAlerted ==
    \A k \in Keys :
        (\E d \in Days : grant[k][d] > 0) ~> (k \in claimed \/ ~Open(k) \/ version # k[2])

(* The abstract budget: seen as commitments per day, the grants of every   *)
(* process that ever ran are one never decreasing account, whose limit is  *)
(* one daily cap and one more for each start without a seed.               *)
Budget == INSTANCE DailyBudget
            WITH Cap <- MaxDaily,
                 committed <- [d \in Days |-> GrantedOn(d)],
                 limit <- [d \in Days |-> MaxDaily * (1 + unseeded[d])]

ImplementsBudget == Budget!Spec

-----------------------------------------------------------------------------
(* What documentation and tests say of the program, and it does not do.    *)

(* The ledger's contract says a pick whose grant is 0 is skipped: every    *)
(* alert for a row would quote bankroll that was granted to it.            *)
AlertsAreFunded ==
    alert # NoAlert /\ alert.outcome # "unpersisted" =>
        \E d \in Days : grant[alert.key][d] > 0

=============================================================================
