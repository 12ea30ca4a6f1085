---------------------------- MODULE QuietPeriod ------------------------------
(***************************************************************************)
(* What duplicate suppression promises, with no store, jobs or channels:   *)
(* two confirmed deliveries of one alert key are at least a whole quiet    *)
(* period apart.  `since` counts the clock units from the last one and     *)
(* stops at the period's length.                                           *)
(***************************************************************************)
EXTENDS Naturals

CONSTANTS
    Keys,    \* alert keys
    Period   \* the quiet period, in clock units

VARIABLE since

Init == since = [k \in Keys |-> Period]

Deliver(k) ==
    /\ since[k] >= Period
    /\ since' = [since EXCEPT ![k] = 0]

Pass ==
    since' = [k \in Keys |-> IF since[k] < Period THEN since[k] + 1 ELSE since[k]]

Next == Pass \/ \E k \in Keys : Deliver(k)

Spec == Init /\ [][Next]_since

=============================================================================
