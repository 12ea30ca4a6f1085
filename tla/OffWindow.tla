------------------------------ MODULE OffWindow ------------------------------
(***************************************************************************)
(* Re-pricing the open picks of games a cycle did not scrape               *)
(* (app/clv_trueup.py, revalidate_offwindow_picks): each cycle fetches the *)
(* match pages of at most LinkCap events, premium-bearing events first and *)
(* inside each band whoever has waited longest since its last attempt.     *)
(*                                                                         *)
(* An event may hold several open picks; they are stamped together when    *)
(* its page is fetched, priced or not. A fetch that raises stamps nothing. *)
(***************************************************************************)
EXTENDS Naturals, FiniteSets

CONSTANTS PageEvents,   \* events with a match page of this sport
          Slots,        \* the picks an event may hold
          LinkCap,      \* OFFWINDOW_LINK_CAP
          MaxCycles     \* bound: cycles

ASSUME OffWindowAssumption == LinkCap \in Nat \ {0} /\ MaxCycles \in Nat

VARIABLES openPicks,    \* per event and slot: none, or tier and last attempt
          cycleNo,      \* cycles so far, the clock of the stamps
          passed,       \* history: who was fetched while an event waited
          overtaken     \* history: events that somebody was fetched twice before

offVars == <<openPicks, cycleNo, passed, overtaken>>

Never    == 0                                   \* no attempt yet: a NULL stamp
NoPick   == [tier |-> "none", at |-> Never]
Tiers == {"premium", "volume"}

OffTypeOK ==
  /\ openPicks \in [PageEvents -> [Slots -> [tier : Tiers, at : 0 .. MaxCycles] \cup {NoPick}]]
  /\ cycleNo \in 0 .. MaxCycles
  /\ passed \in [PageEvents -> SUBSET PageEvents]
  /\ overtaken \subseteq PageEvents

OffInit ==
  /\ openPicks = [e \in PageEvents |-> [s \in Slots |-> NoPick]]
  /\ cycleNo = 0
  /\ passed = [e \in PageEvents |-> {}]
  /\ overtaken = {}

-----------------------------------------------------------------------------
(* order_offwindow_refs and select_offwindow_links *)

PicksOf(e) == {openPicks[e][s] : s \in Slots} \ {NoPick}
Waiting    == {e \in PageEvents : PicksOf(e) # {}}
IsPremium(e) == \E p \in PicksOf(e) : p.tier = "premium"

\* SQL's MIN over the stamps that are there.
Stamps(e)      == {p.at : p \in PicksOf(e)} \ {Never}
LastAttempt(e) == IF Stamps(e) = {} THEN Never
                  ELSE CHOOSE t \in Stamps(e) : \A u \in Stamps(e) : t <= u

\* Slip: the tiers compete for the same links.
SlipGoesBefore(e, f) == LastAttempt(e) < LastAttempt(f)

GoesBefore(e, f) ==
  \/ IsPremium(e) /\ ~IsPremium(f)
  \/ IsPremium(e) = IsPremium(f) /\ LastAttempt(e) < LastAttempt(f)

\* The events that a cycle which covered some of them itself may choose: events
\* that tie are listed in no particular order.
PagesToFetch(covered) ==
  LET eligible == Waiting \ covered
      size     == IF Cardinality(eligible) < LinkCap THEN Cardinality(eligible) ELSE LinkCap
  IN  {c \in SUBSET eligible :
         Cardinality(c) = size /\ \A e \in c, f \in eligible \ c : ~GoesBefore(f, e)}

-----------------------------------------------------------------------------
OpenPick(e, s, tier) ==
  /\ openPicks[e][s] = NoPick
  /\ openPicks' = [openPicks EXCEPT ![e][s] = [tier |-> tier, at |-> Never]]
  /\ UNCHANGED <<cycleNo, passed, overtaken>>

PromotePick(e, s) ==
  /\ openPicks[e][s].tier = "volume"
  /\ openPicks' = [openPicks EXCEPT ![e][s].tier = "premium"]
  /\ UNCHANGED <<cycleNo, passed, overtaken>>

\* Settled, voided or kicked off: the event may lose the stamp it waited with, so
\* what it was fetched before starts anew.
ClosePick(e, s) ==
  /\ openPicks[e][s] # NoPick
  /\ openPicks' = [openPicks EXCEPT ![e][s] = NoPick]
  /\ passed' = [f \in PageEvents |-> IF f = e THEN {} ELSE passed[f] \ {e}]
  /\ UNCHANGED <<cycleNo, overtaken>>

\* Slip: only picks that a page priced are stamped.
SlipStamped(chosen, priced) ==
  [e \in PageEvents |-> [s \in Slots |->
     IF <<e, s>> \in priced THEN [openPicks[e][s] EXCEPT !.at = cycleNo + 1]
                           ELSE openPicks[e][s]]]

\* A pick that was priced is stamped, and so is every open pick of a fetched event.
Stamped(chosen, priced) ==
  [e \in PageEvents |-> [s \in Slots |->
     IF <<e, s>> \in priced \/ (e \in chosen /\ openPicks[e][s] # NoPick)
     THEN [openPicks[e][s] EXCEPT !.at = cycleNo + 1] ELSE openPicks[e][s]]]

\* One cycle that covered some events itself and fetched the pages of others: some
\* of the picks of either were priced.
FetchPages(covered, chosen, priced) ==
  /\ cycleNo < MaxCycles
  /\ cycleNo' = cycleNo + 1
  /\ openPicks' = Stamped(chosen, priced)
  /\ LET waits(e) == e \in Waiting \ (covered \cup chosen)
     IN  /\ passed' = [e \in PageEvents |-> IF waits(e) THEN passed[e] \cup chosen ELSE {}]
         /\ overtaken' = overtaken \cup
              {e \in PageEvents : waits(e) /\ \E f \in chosen :
                 \/ f \in passed[e] /\ (IsPremium(e) \/ ~IsPremium(f))
                 \/ IsPremium(e) /\ ~IsPremium(f)}

\* The fetch raises and the cycle goes on: nobody was attempted.
FetchRaises ==
  /\ cycleNo < MaxCycles
  /\ Waiting # {}
  /\ cycleNo' = cycleNo + 1
  /\ UNCHANGED <<openPicks, passed, overtaken>>

OffNext ==
  \/ \E e \in PageEvents, s \in Slots :
       PromotePick(e, s) \/ ClosePick(e, s) \/ \E tier \in Tiers : OpenPick(e, s, tier)
  \/ \E covered \in SUBSET PageEvents : \E chosen \in PagesToFetch(covered) :
       \E priced \in SUBSET {es \in (covered \cup chosen) \X Slots :
                             openPicks[es[1]][es[2]] # NoPick} :
         FetchPages(covered, chosen, priced)
  \/ FetchRaises

OffSpec == OffInit /\ [][OffNext]_offVars

-----------------------------------------------------------------------------
\* No event waits while another one of its band is fetched twice, and none that
\* carries an alerted pick waits for one that does not: dead links, new picks and
\* the larger shadow tier cannot starve it (app/clv_trueup.py:280-286, 335-341).
NobodyIsOvertaken == overtaken = {}
=============================================================================
