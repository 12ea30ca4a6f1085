---------------------------- MODULE LedgerClient -----------------------------
(***************************************************************************)
(* The exposure ledger with the client it is written for: stakes are       *)
(* reserved against the current day and (usually) an event, a grant that   *)
(* turns out unused is handed back once, and a restarted process rebuilds  *)
(* the ledger from what a durable store kept of the day's grants.          *)
(*                                                                         *)
(* `heldByDay` and `heldByEvent` stand for that store: the grants made and *)
(* not handed back.                                                        *)
(***************************************************************************)
EXTENDS ExposureLedger

VARIABLES today, heldByDay, heldByEvent

vars == <<used, usedByEvent, today, heldByDay, heldByEvent>>

TypeOK ==
    /\ LedgerTypeOK
    /\ today \in Days
    /\ heldByDay \in [Days -> Nat]
    /\ heldByEvent \in [Days -> [Events -> Nat]]

Init ==
    /\ LedgerInit
    /\ today \in Days
    /\ \A d \in Days : today <= d
    /\ heldByDay = [d \in Days |-> 0]
    /\ heldByEvent = [d \in Days |-> [e \in Events |-> 0]]

Ask(f, e) ==
    LET g == Granted(today, f, e)
    IN  /\ Reserve(today, f, e)
        /\ heldByDay' = [heldByDay EXCEPT ![today] = @ + g]
        /\ heldByEvent' = IF e = NoEvent THEN heldByEvent
                          ELSE [heldByEvent EXCEPT ![today][e] = @ + g]
        /\ UNCHANGED today

\* Slip: a client that hands back more than it holds.
HandBackUnchecked(f, e) ==
    /\ Release(today, f, e)
    /\ heldByDay' = [heldByDay EXCEPT ![today] = @ - f]
    /\ heldByEvent' = [heldByEvent EXCEPT ![today][e] = @ - f]
    /\ UNCHANGED today

\* Only what was granted for an event and not yet handed back is handed back.
HandBack(f, e) ==
    /\ f <= heldByEvent[today][e]
    /\ f <= heldByDay[today]
    /\ Release(today, f, e)
    /\ heldByDay' = [heldByDay EXCEPT ![today] = @ - f]
    /\ heldByEvent' = [heldByEvent EXCEPT ![today][e] = @ - f]
    /\ UNCHANGED today

\* Slip: only the daily total is seeded.
RestartDailyOnly ==
    /\ used' = [d \in Days |-> IF d = today THEN heldByDay[d] ELSE 0]
    /\ usedByEvent' = [d \in Days |-> [e \in Events |-> 0]]
    /\ UNCHANGED <<today, heldByDay, heldByEvent>>

\* A new process starts from an empty ledger object and seeds the current day;
\* the per-event figures are loaded only when the sub-cap is on.
Restart ==
    /\ used' = [d \in Days |-> IF d = today THEN heldByDay[d] ELSE 0]
    /\ usedByEvent' =
         [d \in Days |-> IF d = today /\ EventCapOn THEN heldByEvent[d]
                         ELSE [e \in Events |-> 0]]
    /\ UNCHANGED <<today, heldByDay, heldByEvent>>

NextDay ==
    /\ today + 1 \in Days
    /\ today' = today + 1
    /\ UNCHANGED <<used, usedByEvent, heldByDay, heldByEvent>>

Next ==
    \/ \E f \in Fractions, e \in Events \cup {NoEvent} : Ask(f, e)
    \/ \E f \in Fractions, e \in Events : HandBack(f, e)
    \/ Restart
    \/ NextDay

Spec == Init /\ [][Next]_vars

-----------------------------------------------------------------------------
(* The daily cap (DailyExposureLedger.reserve, preload, release): whatever *)
(* order of grants, hand-backs, restarts and midnights, the grants of one  *)
(* day that are still held never exceed max_daily_fraction.                *)
WithinDailyCap == \A d \in Days : heldByDay[d] <= MaxDaily

(* The correlation sub-cap: the grants one event still holds on one day    *)
(* never exceed max_event_fraction, restarts included (preload_event).     *)
WithinEventCap ==
    EventCapOn => \A d \in Days, e \in Events : heldByEvent[d][e] <= MaxEvent

(* A restart in the middle of a day loses nothing: the ledger's room for   *)
(* the current day is what an uninterrupted process would have.            *)
LedgerIsFaithful ==
    /\ used[today] = heldByDay[today]
    /\ EventCapOn => usedByEvent[today] = heldByEvent[today]

(* The ledger's promise in one piece: both caps, through any restart       *)
(* (DailyExposureLedger with seed_exposure_ledger).                        *)
CapsHold == WithinDailyCap /\ WithinEventCap /\ LedgerIsFaithful

=============================================================================
