--------------------------- MODULE ExposureLedger ---------------------------
(***************************************************************************)
(* The in-memory daily exposure ledger of app/risk/exposure.py.            *)
(*                                                                         *)
(* Fractions of bankroll are natural numbers of a fixed unit (one unit is  *)
(* 1% with the shipped settings: per-bet cap 2, per-event cap 4, daily cap *)
(* 5).  An unset dictionary entry reads as 0.0 in the code, so the two     *)
(* dictionaries are total functions that start at 0 everywhere.            *)
(***************************************************************************)
EXTENDS Integers, TLAPS

CONSTANTS
    Days,         \* the calendar days of interest, consecutive naturals
    Events,       \* event ids
    NoEvent,      \* the argument event_id=None
    MaxDaily,     \* max_daily_fraction
    MaxEvent,     \* max_event_fraction, used only when EventCapOn
    EventCapOn,   \* FALSE models max_event_fraction=None
    Fractions     \* the stakes a client may ask for

ASSUME LedgerAssumption ==
    /\ Days \subseteq Nat
    /\ NoEvent \notin Events
    /\ MaxDaily \in Nat
    /\ MaxEvent \in Nat
    /\ EventCapOn \in BOOLEAN
    /\ Fractions \subseteq Nat

VARIABLES
    used,          \* _used
    usedByEvent    \* _used_by_event

ledgerVars == <<used, usedByEvent>>

LedgerTypeOK ==
    /\ used \in [Days -> Nat]
    /\ usedByEvent \in [Days -> [Events -> Nat]]

LedgerInit ==
    /\ used = [d \in Days |-> 0]
    /\ usedByEvent = [d \in Days |-> [e \in Events |-> 0]]

\* A new process builds a new ledger.
LedgerReset ==
    /\ used' = [d \in Days |-> 0]
    /\ usedByEvent' = [d \in Days |-> [e \in Events |-> 0]]

-----------------------------------------------------------------------------
(* Arithmetic.                                                             *)

\* max(a - b, 0.0)
Room(a, b) == IF b < a THEN a - b ELSE 0

Least(a, b) == IF a <= b THEN a ELSE b

Remaining(d) == Room(MaxDaily, used[d])

EventRemaining(d, e) ==
    IF EventCapOn THEN Room(MaxEvent, usedByEvent[d][e]) ELSE Remaining(d)

\* Slips of Granted, for showing that the caps depend on it: the event room is
\* taken instead of the daily one, or is not looked at.
GrantedByEventOnly(d, f, e) ==
    IF EventCapOn /\ e # NoEvent THEN Least(f, EventRemaining(d, e))
    ELSE Least(f, Remaining(d))

GrantedByDayOnly(d, f, e) == Least(f, Remaining(d))

\* What reserve(d, f, e) returns: the tighter of the two rooms binds.
Granted(d, f, e) ==
    IF EventCapOn /\ e # NoEvent
    THEN Least(Least(f, Remaining(d)), EventRemaining(d, e))
    ELSE Least(f, Remaining(d))

-----------------------------------------------------------------------------
(* Operations.                                                             *)

Reserve(d, f, e) ==
    LET g == Granted(d, f, e)
    IN  /\ used' = [used EXCEPT ![d] = @ + g]
        /\ usedByEvent' = IF e = NoEvent THEN usedByEvent
                          ELSE [usedByEvent EXCEPT ![d][e] = @ + g]

\* preload followed by one preload_event per event of the seeding query's
\* answer: figures are SET, never added to, and an event the query does not
\* return keeps what it had.
Preload(d, total, seeds) ==
    /\ used' = [used EXCEPT ![d] = total]
    /\ usedByEvent' =
         [usedByEvent EXCEPT ![d] =
            [e \in Events |-> IF e \in DOMAIN seeds THEN seeds[e] ELSE @[e]]]

Release(d, f, e) ==
    /\ used' = [used EXCEPT ![d] = Room(@, f)]
    /\ usedByEvent' = IF e = NoEvent THEN usedByEvent
                      ELSE [usedByEvent EXCEPT ![d][e] = Room(@, f)]

-----------------------------------------------------------------------------
(* What the operations return and preserve, for the modules that use them. *)

(* reserve() returns a natural number no larger than the request and than  *)
(* either room it must respect (DailyExposureLedger.reserve).              *)
LEMMA GrantedBounds ==
    ASSUME LedgerTypeOK,
           NEW d \in Days, NEW f \in Nat, NEW e \in Events \cup {NoEvent}
    PROVE  /\ Granted(d, f, e) \in Nat
           /\ Granted(d, f, e) <= f
           /\ Granted(d, f, e) <= Room(MaxDaily, used[d])
           /\ EventCapOn /\ e # NoEvent =>
                Granted(d, f, e) <= Room(MaxEvent, usedByEvent[d][e])
BY LedgerAssumption
   DEF LedgerTypeOK, Granted, Remaining, EventRemaining, Room, Least

(* Booking a grant keeps the ledger's types.                               *)
LEMMA ReserveKeepsTypes ==
    ASSUME LedgerTypeOK,
           NEW d \in Days, NEW f \in Nat, NEW e \in Events \cup {NoEvent},
           Reserve(d, f, e)
    PROVE  LedgerTypeOK'
<1> DEFINE g == Granted(d, f, e)
<1>1. g \in Nat
  BY GrantedBounds
<1>2. /\ used' = [used EXCEPT ![d] = @ + g]
      /\ usedByEvent' = IF e = NoEvent THEN usedByEvent
                        ELSE [usedByEvent EXCEPT ![d][e] = @ + g]
  BY DEF Reserve
<1> HIDE DEF g
<1>3. used' \in [Days -> Nat]
  BY <1>1, <1>2 DEF LedgerTypeOK
<1>4. CASE e = NoEvent
  BY <1>2, <1>3, <1>4 DEF LedgerTypeOK
<1>5. CASE e # NoEvent
  <2>1. e \in Events
    BY <1>5
  <2>2. [usedByEvent[d] EXCEPT ![e] = @ + g] \in [Events -> Nat]
    BY <1>1, <2>1 DEF LedgerTypeOK
  <2>3. [usedByEvent EXCEPT ![d][e] = @ + g] \in [Days -> [Events -> Nat]]
    BY <2>2 DEF LedgerTypeOK
  <2> QED
    BY <1>2, <1>3, <1>5, <2>3 DEF LedgerTypeOK
<1> QED
  BY <1>4, <1>5

(* Seeding one day with natural numbers keeps the ledger's types.          *)
LEMMA PreloadKeepsTypes ==
    ASSUME LedgerTypeOK,
           NEW d \in Days, NEW total \in Nat, NEW seeds,
           \A e \in DOMAIN seeds : seeds[e] \in Nat,
           Preload(d, total, seeds)
    PROVE  LedgerTypeOK'
BY DEF LedgerTypeOK, Preload

=============================================================================
