----------------------------- MODULE DailyBudget -----------------------------
(***************************************************************************)
(* The promise the exposure cap makes, with no ledger, rows or restarts:   *)
(* on each day bankroll is committed in positive steps up to the day's     *)
(* limit, commitments are never taken back and days are independent.  The  *)
(* limit is one cap, plus one more each time the day's books are lost.     *)
(***************************************************************************)
EXTENDS Naturals

CONSTANTS
    Days,    \* calendar days
    Cap      \* the most that may be committed on a day whose books are kept

VARIABLES
    committed,   \* per day
    limit        \* per day

budgetVars == <<committed, limit>>

Init ==
    /\ committed = [d \in Days |-> 0]
    /\ limit = [d \in Days |-> Cap]

Commit(d) ==
    /\ UNCHANGED limit
    /\ committed'[d] > committed[d]
    /\ committed'[d] <= limit[d]
    /\ committed' = [committed EXCEPT ![d] = committed'[d]]

LoseBooks(d) ==
    /\ UNCHANGED committed
    /\ limit' = [limit EXCEPT ![d] = @ + Cap]

Next == \E d \in Days : Commit(d) \/ LoseBooks(d)

Spec == Init /\ [][Next]_budgetVars

=============================================================================
