----------------------------- MODULE MarketTerms -----------------------------
(***************************************************************************)
(* What a market means from its key to the money: the lines the loader     *)
(* accepts, the selections it names (app/ingestion/oddsportal.py), and how *)
(* each selection is settled by a score (app/settlement/outcomes.py).      *)
(*                                                                         *)
(* Lines are in quarters of a goal or point.  A selection is the record of *)
(* the terms its text carries.                                             *)
(***************************************************************************)
EXTENDS Integers

CONSTANTS Lines,     \* lines a key may carry, in quarters
          Scores     \* goals or points of a side

ASSUME TermsAssumption == Lines \subseteq Int /\ Scores \subseteq Nat

VARIABLES market,    \* a key of the configuration or of the feed, and the score of its game
          paid       \* the outcome of each of its selections, of none before it is settled

termsVars == <<market, paid>>

Exact     == {"1x2", "home_away", "match_winner", "btts", "dnb", "double_chance"}
Sides     == {"home", "draw", "away"}
Outcomes  == {"won", "lost", "push", "half won", "half lost"}

-----------------------------------------------------------------------------
(* The loader *)

IsHalfLine(line)    == line % 4 = 2
IsQuarterLine(line) == line % 2 = 1
IsWholeLine(line)   == line % 4 = 0

\* _validate_markets of a key that carries its line.
Accepted(kind, line) == kind \in {"over_under", "asian_handicap"} => IsHalfLine(line)

\* A wildcard key stands for the lines of the feed's ladder that are half lines.
Emitted(line) == IsHalfLine(line)

\* The keys rows may carry: line 0 for the kinds without a line, and the European handicaps
\* the site lists, all of whole lines.
Keys ==
  [kind : Exact, line : {0}]
  \cup [kind : {"european_handicap"}, line : {l \in Lines : IsWholeLine(l)}]
  \cup {k \in [kind : {"over_under", "asian_handicap"}, line : Lines] :
          Accepted(k.kind, k.line) \/ Emitted(k.line)}

Leg(kind, side, line) == [kind |-> kind, side |-> side, line |-> line]

\* Slip: the away leg keeps the home side's sign.
SlipSelections(kind, line) ==
  IF kind = "asian_handicap" THEN {Leg("spread", "home", line), Leg("spread", "away", line)}
  ELSE IF kind = "over_under" THEN {Leg("total", "over", line), Leg("total", "under", line)}
  ELSE {Leg("h2h", "home", 0), Leg("h2h", "away", 0)}

\* _selections
Selections(kind, line) ==
  CASE kind = "1x2"                           -> {Leg("h2h", s, 0) : s \in Sides}
    [] kind \in {"home_away", "match_winner"} -> {Leg("h2h", s, 0) : s \in {"home", "away"}}
    [] kind = "btts"                          -> {Leg("btts", s, 0) : s \in {"yes", "no"}}
    [] kind = "dnb"                           -> {Leg("dnb", s, 0) : s \in {"home", "away"}}
    [] kind = "double_chance"                 -> {Leg("double", s, 0) : s \in Sides}
    [] kind = "over_under"                    -> {Leg("total", s, line) : s \in {"over", "under"}}
    [] kind = "asian_handicap"                -> {Leg("spread", "home", line), Leg("spread", "away", -line)}
    [] kind = "european_handicap"             -> {Leg("spread", "home", line), Leg("spread draw", "draw", line),
                                                  Leg("spread", "away", -line)}

-----------------------------------------------------------------------------
(* settle_selection *)

WonIf(condition) == IF condition THEN "won" ELSE "lost"

\* By how much the side of a leg wins.
Lead(side, hs, as) == IF side = "home" THEN hs - as ELSE as - hs

SettleH2h(side, hs, as) == WonIf(IF side = "draw" THEN hs = as ELSE Lead(side, hs, as) > 0)

SettleTotals(side, line, total) ==
  IF 4 * total = line THEN "push" ELSE WonIf((side = "over") = (4 * total > line))

SettleBtts(side, hs, as) == WonIf((side = "yes") = (hs > 0 /\ as > 0))

SettleDnb(side, hs, as) == IF hs = as THEN "push" ELSE WonIf(Lead(side, hs, as) > 0)

\* A double chance is named for the result it leaves out: "draw" is home or away.
SettleDoubleChance(side, hs, as) == WonIf(IF side = "draw" THEN hs # as ELSE Lead(side, hs, as) >= 0)

\* _ah_component: one half of the stake.
AhComponent(margin) == IF margin > 0 THEN "won" ELSE IF margin = 0 THEN "push" ELSE "lost"

\* Slip: the halves of a quarter line lie half a point apart on one side of it.
SlipQuarterSplit(margin) ==
  LET halves == {AhComponent(margin - 1), AhComponent(margin)} IN
  CASE halves = {"won"} -> "won" [] halves = {"lost"} -> "lost"
    [] halves = {"won", "push"} -> "half won" [] OTHER -> "half lost"

\* The two half stakes on the lines next to a quarter line, margin in quarters.
QuarterSplit(margin) ==
  LET halves == {AhComponent(margin - 1), AhComponent(margin + 1)} IN
  CASE halves = {"won"}          -> "won"
    [] halves = {"lost"}         -> "lost"
    [] halves = {"won", "push"}  -> "half won"
    [] halves = {"lost", "push"} -> "half lost"

\* A tie on a whole line loses: it is the leg of a European handicap.
SettleSpreads(side, line, hs, as) ==
  LET margin == 4 * Lead(side, hs, as) + line
  IN  IF IsQuarterLine(line) THEN QuarterSplit(margin) ELSE WonIf(margin > 0)

SettleSelection(leg, hs, as) ==
  CASE leg.kind = "h2h"         -> SettleH2h(leg.side, hs, as)
    [] leg.kind = "total"       -> SettleTotals(leg.side, leg.line, hs + as)
    [] leg.kind = "btts"        -> SettleBtts(leg.side, hs, as)
    [] leg.kind = "dnb"         -> SettleDnb(leg.side, hs, as)
    [] leg.kind = "double"      -> SettleDoubleChance(leg.side, hs, as)
    [] leg.kind = "spread draw" -> WonIf(4 * hs + leg.line = 4 * as)
    [] leg.kind = "spread"      -> SettleSpreads(leg.side, leg.line, hs, as)

\* pick_pnl, in half stakes: how many win the odds and how many are lost.
HalvesWon(outcome)  == IF outcome = "won" THEN 2 ELSE IF outcome = "half won" THEN 1 ELSE 0
HalvesLost(outcome) == IF outcome = "lost" THEN 2 ELSE IF outcome = "half lost" THEN 1 ELSE 0

-----------------------------------------------------------------------------
TermsInit ==
  /\ market \in [key : Keys, home : Scores, away : Scores]
  /\ paid = <<>>

MarketSettles ==
  /\ paid = <<>>
  /\ paid' = [leg \in Selections(market.key.kind, market.key.line) |->
                SettleSelection(leg, market.home, market.away)]
  /\ UNCHANGED market

TermsNext == MarketSettles

TermsSpec == TermsInit /\ [][TermsNext]_termsVars

TermsTypeOK ==
  /\ market \in [key : Keys, home : Scores, away : Scores]
  /\ \A leg \in DOMAIN paid : paid[leg] \in Outcomes

-----------------------------------------------------------------------------
\* The selections of a market are mutually exclusive and cover every score, which is what
\* makes a market's prices devig (oddsportal.py:109-115): one wins and the others lose;
\* two of three for the double chance; the stakes come back on a tie without a draw leg,
\* and a money line, of games that have no tie, pays nobody.
MarketPaysOnce ==
  DOMAIN paid # {} =>
    LET winners == {leg \in DOMAIN paid : paid[leg] = "won"}
        losers  == {leg \in DOMAIN paid : paid[leg] = "lost"}
        tied    == market.home = market.away
    IN  CASE market.key.kind = "double_chance" ->
               \E loser \in losers : losers = {loser} /\ winners = DOMAIN paid \ {loser}
          [] market.key.kind = "dnb" /\ tied -> winners = {} /\ losers = {}
          [] market.key.kind \in {"home_away", "match_winner"} /\ tied -> winners = {}
          [] OTHER -> \E winner \in winners : winners = {winner} /\ losers = DOMAIN paid \ {winner}

\* The two sides of an Asian line are mirrors: what one side's halves win, the other's
\* lose, on every line (outcomes.py:183-197).
SidesMirror ==
  \A line \in Lines :
    ~ IsWholeLine(line) =>
      LET home == SettleSpreads("home", line, market.home, market.away)
          away == SettleSpreads("away", -line, market.home, market.away)
      IN  HalvesWon(home) = HalvesLost(away) /\ HalvesLost(home) = HalvesWon(away)

\* A settled market hands out exactly what it took in, whichever way its legs are written
\* (outcomes.py, settle).
MarketsBalance == MarketPaysOnce /\ SidesMirror
===============================================================================
