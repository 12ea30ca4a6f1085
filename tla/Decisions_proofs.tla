---------------------------- MODULE Decisions_proofs ----------------------------
(***************************************************************************)
(* What is proved of the way from a price to a verdict, for every value of *)
(* the constants: a section for each component with its inductive          *)
(* invariant, and at the end the properties of the composition.            *)
(***************************************************************************)
EXTENDS MCDecisions, FiniteSetTheorems, NaturalsInduction, WellFoundedInduction, TLAPS

-----------------------------------------------------------------------------
(* Proofs: the settlement balances for every line and every score.         *)

\* A half and a quarter line never meet a margin of whole goals.
LEMMA LinesMissGoals ==
  ASSUME NEW line \in Int, NEW goals \in Int
  PROVE  /\ line % 4 # 0 => 4 * goals + line # 0 /\ 4 * goals # line
         /\ (line % 4 = 0) <=> ((-line) % 4 = 0)
         /\ (line % 4 = 2) <=> ((-line) % 4 = 2)
         /\ (line % 2 = 1) <=> ((-line) % 2 = 1)
         /\ line % 4 # 0 => line % 2 = 1 \/ line % 4 = 2
         /\ line % 4 \in {0, 2} => line % 2 = 0
OBVIOUS

\* The quarter split of a margin and of its opposite.
LEMMA SplitMirrors ==
  ASSUME NEW margin \in Int, margin # 0
  PROVE  /\ HalvesWon(QuarterSplit(margin)) = HalvesLost(QuarterSplit(-margin))
         /\ HalvesLost(QuarterSplit(margin)) = HalvesWon(QuarterSplit(-margin))
<1> DEFINE a == AhComponent(margin - 1)
           b == AhComponent(margin + 1)
           c == AhComponent(-margin - 1)
           d == AhComponent(-margin + 1)
<1>1. \/ a = "won" /\ b = "won" /\ c = "lost" /\ d = "lost"
      \/ a = "push" /\ b = "won" /\ c = "lost" /\ d = "push"
      \/ a = "lost" /\ b = "push" /\ c = "push" /\ d = "won"
      \/ a = "lost" /\ b = "lost" /\ c = "won" /\ d = "won"
  BY DEF AhComponent
<1>2. /\ QuarterSplit(margin) = CASE {a, b} = {"won"} -> "won" [] {a, b} = {"lost"} -> "lost"
                                  [] {a, b} = {"won", "push"} -> "half won"
                                  [] {a, b} = {"lost", "push"} -> "half lost"
      /\ QuarterSplit(-margin) = CASE {c, d} = {"won"} -> "won" [] {c, d} = {"lost"} -> "lost"
                                   [] {c, d} = {"won", "push"} -> "half won"
                                   [] {c, d} = {"lost", "push"} -> "half lost"
  BY DEF QuarterSplit
<1> HIDE DEF a, b, c, d
<1>s. /\ {"won", "won"} = {"won"} /\ {"lost", "lost"} = {"lost"}
      /\ {"push", "won"} = {"won", "push"} /\ {"push", "lost"} = {"lost", "push"}
      /\ {"won"} # {"lost"}
      /\ {"won", "push"} # {"won"} /\ {"won", "push"} # {"lost"}
      /\ {"lost", "push"} # {"won"} /\ {"lost", "push"} # {"lost"}
      /\ {"lost", "push"} # {"won", "push"}
      /\ {"won"} # {"lost", "push"} /\ {"won"} # {"won", "push"}
      /\ {"lost"} # {"lost", "push"} /\ {"lost"} # {"won", "push"}
  OBVIOUS
<1>3. CASE a = "won" /\ b = "won" /\ c = "lost" /\ d = "lost"
  <2>1. QuarterSplit(margin) = "won" /\ QuarterSplit(-margin) = "lost"
    BY <1>2, <1>s, <1>3
  <2> QED
    BY <2>1 DEF HalvesWon, HalvesLost
<1>4. CASE a = "push" /\ b = "won" /\ c = "lost" /\ d = "push"
  <2>1. QuarterSplit(margin) = "half won" /\ QuarterSplit(-margin) = "half lost"
    BY <1>2, <1>s, <1>4
  <2> QED
    BY <2>1 DEF HalvesWon, HalvesLost
<1>5. CASE a = "lost" /\ b = "push" /\ c = "push" /\ d = "won"
  <2>1. QuarterSplit(margin) = "half lost" /\ QuarterSplit(-margin) = "half won"
    BY <1>2, <1>s, <1>5
  <2> QED
    BY <2>1 DEF HalvesWon, HalvesLost
<1>6. CASE a = "lost" /\ b = "lost" /\ c = "won" /\ d = "won"
  <2>1. QuarterSplit(margin) = "lost" /\ QuarterSplit(-margin) = "won"
    BY <1>2, <1>s, <1>6
  <2> QED
    BY <2>1 DEF HalvesWon, HalvesLost
<1> QED
  BY <1>1, <1>3, <1>4, <1>5, <1>6

\* On a line that is not whole, the halves one side of it wins are those the other loses.
LEMMA SpreadsMirror ==
  ASSUME NEW h \in Int, NEW a \in Int, NEW line \in Int, ~ IsWholeLine(line)
  PROVE  LET home == SettleSpreads("home", line, h, a)
             away == SettleSpreads("away", -line, h, a)
         IN  HalvesWon(home) = HalvesLost(away) /\ HalvesLost(home) = HalvesWon(away)
<1> DEFINE margin == 4 * (h - a) + line
<1>1. /\ margin \in Int
      /\ 4 * (a - h) + (-line) = -margin
  <2>1. h - a \in Int /\ a - h = -(h - a)
    OBVIOUS
  <2>2. 4 * (-(h - a)) + (-line) = -(4 * (h - a) + line)
    BY <2>1
  <2> QED
    BY <2>1, <2>2
<1>2. margin # 0
  BY LinesMissGoals DEF IsWholeLine
<1>3. /\ SettleSpreads("home", line, h, a) =
           IF IsQuarterLine(line) THEN QuarterSplit(margin) ELSE WonIf(margin > 0)
      /\ SettleSpreads("away", -line, h, a) =
           IF IsQuarterLine(-line) THEN QuarterSplit(-margin) ELSE WonIf(-margin > 0)
  BY <1>1 DEF SettleSpreads, Lead
<1>4. IsQuarterLine(line) <=> IsQuarterLine(-line)
  BY LinesMissGoals DEF IsQuarterLine
<1> HIDE DEF margin
<1>5. CASE IsQuarterLine(line)
  BY <1>1, <1>2, <1>3, <1>4, <1>5, SplitMirrors
<1>6. CASE ~ IsQuarterLine(line)
  <2>1. \/ margin > 0 /\ ~(-margin > 0)
        \/ ~(margin > 0) /\ -margin > 0
    BY <1>1, <1>2
  <2>2. /\ SettleSpreads("home", line, h, a) = WonIf(margin > 0)
        /\ SettleSpreads("away", -line, h, a) = WonIf(-margin > 0)
    BY <1>3, <1>4, <1>6
  <2> QED
    BY <2>1, <2>2 DEF WonIf, HalvesWon, HalvesLost
<1> QED
  BY <1>5, <1>6

\* What a settled market holds: the outcome of each of its selections, of none before.
TermsInv ==
  /\ market \in [key : Keys, home : Scores, away : Scores]
  /\ \/ paid = <<>>
     \/ paid = [leg \in Selections(market.key.kind, market.key.line) |->
                  SettleSelection(leg, market.home, market.away)]

\* Two legs of which exactly one wins.
LEMMA OneOfTwoWins ==
  ASSUME NEW x, NEW y, x # y, DOMAIN paid = {x, y},
         \/ paid[x] = "won" /\ paid[y] = "lost"
         \/ paid[x] = "lost" /\ paid[y] = "won"
  PROVE  LET winners == {leg \in DOMAIN paid : paid[leg] = "won"}
             losers  == {leg \in DOMAIN paid : paid[leg] = "lost"}
         IN  \E winner \in winners : winners = {winner} /\ losers = DOMAIN paid \ {winner}
<1>1. CASE paid[x] = "won" /\ paid[y] = "lost"
  <2>1. {leg \in DOMAIN paid : paid[leg] = "won"} = {x}
    BY <1>1
  <2>2. {leg \in DOMAIN paid : paid[leg] = "lost"} = DOMAIN paid \ {x}
    BY <1>1
  <2> QED
    BY <2>1, <2>2
<1>2. CASE paid[x] = "lost" /\ paid[y] = "won"
  <2>1. {leg \in DOMAIN paid : paid[leg] = "won"} = {y}
    BY <1>2
  <2>2. {leg \in DOMAIN paid : paid[leg] = "lost"} = DOMAIN paid \ {y}
    BY <1>2
  <2> QED
    BY <2>1, <2>2
<1> QED
  BY <1>1, <1>2

\* Three legs of which exactly one wins.
LEMMA OneOfThreeWins ==
  ASSUME NEW x, NEW y, NEW z, x # y, y # z, x # z, DOMAIN paid = {x, y, z},
         \/ paid[x] = "won" /\ paid[y] = "lost" /\ paid[z] = "lost"
         \/ paid[x] = "lost" /\ paid[y] = "won" /\ paid[z] = "lost"
         \/ paid[x] = "lost" /\ paid[y] = "lost" /\ paid[z] = "won"
  PROVE  LET winners == {leg \in DOMAIN paid : paid[leg] = "won"}
             losers  == {leg \in DOMAIN paid : paid[leg] = "lost"}
         IN  \E winner \in winners : winners = {winner} /\ losers = DOMAIN paid \ {winner}
<1>1. CASE paid[x] = "won" /\ paid[y] = "lost" /\ paid[z] = "lost"
  <2>1. {leg \in DOMAIN paid : paid[leg] = "won"} = {x}
    BY <1>1
  <2>2. {leg \in DOMAIN paid : paid[leg] = "lost"} = DOMAIN paid \ {x}
    BY <1>1
  <2> QED
    BY <2>1, <2>2
<1>2. CASE paid[x] = "lost" /\ paid[y] = "won" /\ paid[z] = "lost"
  <2>1. {leg \in DOMAIN paid : paid[leg] = "won"} = {y}
    BY <1>2
  <2>2. {leg \in DOMAIN paid : paid[leg] = "lost"} = DOMAIN paid \ {y}
    BY <1>2
  <2> QED
    BY <2>1, <2>2
<1>3. CASE paid[x] = "lost" /\ paid[y] = "lost" /\ paid[z] = "won"
  <2>1. {leg \in DOMAIN paid : paid[leg] = "won"} = {z}
    BY <1>3
  <2>2. {leg \in DOMAIN paid : paid[leg] = "lost"} = DOMAIN paid \ {z}
    BY <1>3
  <2> QED
    BY <2>1, <2>2
<1> QED
  BY <1>1, <1>2, <1>3

\* Three legs of which exactly one loses.
LEMMA OneOfThreeLoses ==
  ASSUME NEW x, NEW y, NEW z, x # y, y # z, x # z, DOMAIN paid = {x, y, z},
         \/ paid[x] = "lost" /\ paid[y] = "won" /\ paid[z] = "won"
         \/ paid[x] = "won" /\ paid[y] = "lost" /\ paid[z] = "won"
         \/ paid[x] = "won" /\ paid[y] = "won" /\ paid[z] = "lost"
  PROVE  LET winners == {leg \in DOMAIN paid : paid[leg] = "won"}
             losers  == {leg \in DOMAIN paid : paid[leg] = "lost"}
         IN  \E loser \in losers : losers = {loser} /\ winners = DOMAIN paid \ {loser}
<1>1. CASE paid[x] = "lost" /\ paid[y] = "won" /\ paid[z] = "won"
  <2>1. {leg \in DOMAIN paid : paid[leg] = "lost"} = {x}
    BY <1>1
  <2>2. {leg \in DOMAIN paid : paid[leg] = "won"} = DOMAIN paid \ {x}
    BY <1>1
  <2> QED
    BY <2>1, <2>2
<1>2. CASE paid[x] = "won" /\ paid[y] = "lost" /\ paid[z] = "won"
  <2>1. {leg \in DOMAIN paid : paid[leg] = "lost"} = {y}
    BY <1>2
  <2>2. {leg \in DOMAIN paid : paid[leg] = "won"} = DOMAIN paid \ {y}
    BY <1>2
  <2> QED
    BY <2>1, <2>2
<1>3. CASE paid[x] = "won" /\ paid[y] = "won" /\ paid[z] = "lost"
  <2>1. {leg \in DOMAIN paid : paid[leg] = "lost"} = {z}
    BY <1>3
  <2>2. {leg \in DOMAIN paid : paid[leg] = "won"} = DOMAIN paid \ {z}
    BY <1>3
  <2> QED
    BY <2>1, <2>2
<1> QED
  BY <1>1, <1>2, <1>3

\* The two sides of a line of whole or half goals, and the tie between them.
LEMMA GoalsOfSides ==
  ASSUME NEW line \in Int, NEW h \in Nat, NEW a \in Nat
  PROVE  /\ line % 4 # 0 => 4 * (h - a) + line # 0
         /\ 4 * (a - h) + (-line) = -(4 * (h - a) + line)
         /\ 4 * (h - a) + line = 0 <=> 4 * h + line = 4 * a
         /\ 4 * (h - a) + line \in Int
<1>1. h - a \in Int /\ a - h = -(h - a) /\ 4 * (h - a) = 4 * h - 4 * a
  OBVIOUS
<1>2. 4 * (-(h - a)) + (-line) = -(4 * (h - a) + line)
  BY <1>1
<1>3. line % 4 # 0 => 4 * (h - a) + line # 0
  BY <1>1, LinesMissGoals
<1> QED
  BY <1>1, <1>2, <1>3

\* The kinds of keys and the lines each may carry.
LEMMA KeysHaveLines ==
  ASSUME NEW key \in Keys
  PROVE  /\ key.line \in Int
         /\ key.kind \in Exact \cup {"european_handicap", "over_under", "asian_handicap"}
         /\ key.kind \in {"over_under", "asian_handicap"} => key.line % 4 = 2
         /\ key.kind = "european_handicap" => key.line % 4 = 0
<1>1. CASE key \in [kind : Exact, line : {0}]
  <2>1. key.kind \in Exact /\ key.line = 0
    BY <1>1
  <2> QED
    BY <2>1 DEF Exact
<1>2. CASE key \in [kind : {"european_handicap"}, line : {l \in Lines : IsWholeLine(l)}]
  <2>1. key.kind = "european_handicap" /\ key.line \in Lines /\ IsWholeLine(key.line)
    BY <1>2
  <2> QED
    BY <2>1, TermsAssumption DEF IsWholeLine
<1>3. CASE key \in {k \in [kind : {"over_under", "asian_handicap"}, line : Lines] :
                      Accepted(k.kind, k.line) \/ Emitted(k.line)}
  <2>1. /\ key.kind \in {"over_under", "asian_handicap"} /\ key.line \in Lines
        /\ IsHalfLine(key.line)
    BY <1>3 DEF Accepted, Emitted
  <2> QED
    BY <2>1, TermsAssumption DEF IsHalfLine
<1> QED
  BY <1>1, <1>2, <1>3 DEF Keys

\* Every selection of a key is paid one of the outcomes: no leg of it splits its stake, and none
\* is of a kind the settlement does not know.
LEMMA SelectionsArePaid ==
  ASSUME NEW key \in Keys, NEW leg \in Selections(key.kind, key.line), NEW h \in Nat, NEW a \in Nat
  PROVE  SettleSelection(leg, h, a) \in Outcomes
<1> DEFINE line == key.line
           kind == key.kind
<1>1. /\ line \in Int
      /\ kind \in Exact \cup {"european_handicap", "over_under", "asian_handicap"}
      /\ line % 4 = 2 \/ line % 4 = 0 \/ kind \notin {"over_under", "asian_handicap", "european_handicap"}
  BY KeysHaveLines
<1>2. leg \in Selections(kind, line)
  OBVIOUS
<1> HIDE DEF line, kind
<1>3. /\ leg.kind \in {"h2h", "total", "btts", "dnb", "double", "spread draw", "spread"}
      /\ leg.kind = "spread" => leg.line \in {line, -line} /\ line % 4 \in {0, 2}
  <2>0. \A x, k, s, l : x = Leg(k, s, l) => x.kind = k /\ x.line = l
    BY DEF Leg
  <2>1. CASE kind = "1x2"
    <3>1. leg \in {Leg("h2h", s, 0) : s \in Sides}
      BY <1>2, <2>1 DEF Selections
    <3>2. leg.kind = "h2h"
      BY <2>0, <3>1, Zenon
    <3> QED
      BY <3>2
  <2>2. CASE kind \in {"home_away", "match_winner"}
    <3>1. leg \in {Leg("h2h", s, 0) : s \in {"home", "away"}}
      BY <1>2, <2>2 DEF Selections
    <3>2. leg.kind = "h2h"
      BY <2>0, <3>1, Zenon
    <3> QED
      BY <3>2
  <2>3. CASE kind \in {"btts", "dnb"}
    <3>1. \E s : leg = Leg(kind, s, 0)
      BY <1>2, <2>3 DEF Selections
    <3>2. leg.kind = kind
      BY <2>0, <3>1, Zenon
    <3> QED
      BY <1>1, <2>3, <3>2
  <2>4. CASE kind = "double_chance"
    <3>1. leg \in {Leg("double", s, 0) : s \in Sides}
      BY <1>2, <2>4 DEF Selections
    <3>2. leg.kind = "double"
      BY <2>0, <3>1, Zenon
    <3> QED
      BY <3>2
  <2>5. CASE kind = "over_under"
    <3>1. leg \in {Leg("total", s, line) : s \in {"over", "under"}}
      BY <1>2, <2>5 DEF Selections
    <3>2. leg.kind = "total"
      BY <2>0, <3>1, Zenon
    <3> QED
      BY <3>2
  <2>6. CASE kind = "asian_handicap"
    <3>1. leg \in {Leg("spread", "home", line), Leg("spread", "away", -line)}
      BY <1>2, <2>6 DEF Selections
    <3>2. leg.kind = "spread" /\ leg.line \in {line, -line}
      BY <2>0, <3>1, Zenon
    <3> QED
      BY <1>1, <2>6, <3>2
  <2>7. CASE kind = "european_handicap"
    <3>1. leg \in {Leg("spread", "home", line), Leg("spread draw", "draw", line),
                  Leg("spread", "away", -line)}
      BY <1>2, <2>7 DEF Selections
    <3>2. leg.kind = "spread draw" \/ (leg.kind = "spread" /\ leg.line \in {line, -line})
      BY <2>0, <3>1, Zenon
    <3> QED
      BY <1>1, <2>7, <3>2
  <2> QED
    BY <1>1, <2>1, <2>2, <2>3, <2>4, <2>5, <2>6, <2>7 DEF Exact
<1>4. \A p : WonIf(p) \in Outcomes
  BY DEF WonIf, Outcomes
<1>5. CASE leg.kind = "spread"
  <2>1. leg.line % 2 = 0
    BY <1>1, <1>3, <1>5, LinesMissGoals
  <2>2. SettleSelection(leg, h, a) = SettleSpreads(leg.side, leg.line, h, a)
    BY <1>5 DEF SettleSelection
  <2>3. ~ IsQuarterLine(leg.line)
    BY <2>1 DEF IsQuarterLine
  <2>4. SettleSpreads(leg.side, leg.line, h, a) = WonIf(4 * Lead(leg.side, h, a) + leg.line > 0)
    BY <2>3, Zenon DEF SettleSpreads
  <2> QED
    BY <1>4, <2>2, <2>4, Zenon
<1>6. CASE leg.kind \in {"total", "dnb"}
  BY <1>4, <1>6 DEF SettleSelection, SettleTotals, SettleDnb, Outcomes
<1>7. CASE leg.kind \in {"h2h", "btts", "double", "spread draw"}
  BY <1>4, <1>7 DEF SettleSelection, SettleH2h, SettleBtts, SettleDoubleChance
<1> QED
  BY <1>3, <1>5, <1>6, <1>7

\* What a market that settled pays, kind by kind.
LEMMA SettledPaysOnce ==
  ASSUME TermsInv, paid # <<>>
  PROVE  MarketPaysOnce
<1> DEFINE kind == market.key.kind
           line == market.key.line
           h == market.home
           a == market.away
           winners == {leg \in DOMAIN paid : paid[leg] = "won"}
           losers  == {leg \in DOMAIN paid : paid[leg] = "lost"}
           oneWins == \E winner \in winners : winners = {winner} /\ losers = DOMAIN paid \ {winner}
<1>0. paid = [leg \in Selections(kind, line) |-> SettleSelection(leg, h, a)]
  BY DEF TermsInv
<1>1. h \in Nat /\ a \in Nat /\ market.key \in Keys
  BY TermsAssumption DEF TermsInv
<1>2. /\ line \in Int
      /\ kind \in Exact \cup {"european_handicap", "over_under", "asian_handicap"}
      /\ kind \in {"over_under", "asian_handicap"} => line % 4 = 2
      /\ kind = "european_handicap" => line % 4 = 0
  BY <1>1, KeysHaveLines
<1> HIDE DEF kind, line, h, a
<1>3. CASE kind = "over_under"
  <2> DEFINE x == Leg("total", "over", line)
             y == Leg("total", "under", line)
  <2>1. Selections(kind, line) = {x, y} /\ x # y
    BY <1>3 DEF Selections, Leg
  <2>2. paid[x] = SettleSelection(x, h, a) /\ paid[y] = SettleSelection(y, h, a) /\ DOMAIN paid = {x, y}
    BY <1>0, <2>1
  <2>3. /\ SettleSelection(x, h, a) = SettleTotals("over", line, h + a)
        /\ SettleSelection(y, h, a) = SettleTotals("under", line, h + a)
    BY DEF SettleSelection, Leg
  <2>4. 4 * (h + a) # line
    BY <1>1, <1>2, <1>3, LinesMissGoals
  <2>5. /\ SettleTotals("over", line, h + a) = IF 4 * (h + a) > line THEN "won" ELSE "lost"
        /\ SettleTotals("under", line, h + a) = IF 4 * (h + a) > line THEN "lost" ELSE "won"
    BY <2>4 DEF SettleTotals, WonIf
  <2> HIDE DEF x, y
  <2>6. \/ paid[x] = "won" /\ paid[y] = "lost"
        \/ paid[x] = "lost" /\ paid[y] = "won"
    BY <2>2, <2>3, <2>5
  <2> QED
    BY <2>1, <2>2, <2>6, OneOfTwoWins, <1>3 DEF MarketPaysOnce, kind
<1>4. CASE kind = "asian_handicap"
  <2> DEFINE x == Leg("spread", "home", line)
             y == Leg("spread", "away", -line)
  <2>1. Selections(kind, line) = {x, y} /\ x # y
    BY <1>4 DEF Selections, Leg, Sides
  <2>2. /\ paid[x] = SettleSelection(x, h, a) /\ paid[y] = SettleSelection(y, h, a)
        /\ DOMAIN paid = {x, y}
    BY <1>0, <2>1
  <2>3. /\ SettleSelection(x, h, a) = SettleSpreads("home", line, h, a)
        /\ SettleSelection(y, h, a) = SettleSpreads("away", -line, h, a)
    BY DEF SettleSelection, Leg
  <2>4. ~ IsQuarterLine(line) /\ ~ IsQuarterLine(-line)
    BY <1>2, <1>4, LinesMissGoals DEF IsQuarterLine
  <2>5. /\ SettleSpreads("home", line, h, a) = WonIf(4 * (h - a) + line > 0)
        /\ SettleSpreads("away", -line, h, a) = WonIf(4 * (a - h) + (-line) > 0)
    BY <2>4 DEF SettleSpreads, Lead
  <2>6. \/ 4 * (h - a) + line > 0 /\ ~(4 * (a - h) + (-line) > 0)
        \/ ~(4 * (h - a) + line > 0) /\ 4 * (a - h) + (-line) > 0
    BY <1>1, <1>2, <1>4, GoalsOfSides
  <2> HIDE DEF x, y
  <2>7. \/ paid[x] = "won" /\ paid[y] = "lost"
        \/ paid[x] = "lost" /\ paid[y] = "won"
    BY <2>2, <2>3, <2>5, <2>6 DEF WonIf
  <2> QED
    BY <2>1, <2>2, <2>7, OneOfTwoWins, <1>4 DEF MarketPaysOnce, kind
<1>5. CASE kind = "european_handicap"
  <2> DEFINE x == Leg("spread", "home", line)
             y == Leg("spread draw", "draw", line)
             z == Leg("spread", "away", -line)
  <2>1. Selections(kind, line) = {x, y, z} /\ x # y /\ y # z /\ x # z
    BY <1>5 DEF Selections, Leg, Sides
  <2>2. /\ paid[x] = SettleSelection(x, h, a) /\ paid[y] = SettleSelection(y, h, a) /\ paid[z] = SettleSelection(z, h, a)
        /\ DOMAIN paid = {x, y, z}
    BY <1>0, <2>1
  <2>3. /\ SettleSelection(x, h, a) = SettleSpreads("home", line, h, a)
        /\ SettleSelection(y, h, a) = WonIf(4 * h + line = 4 * a)
        /\ SettleSelection(z, h, a) = SettleSpreads("away", -line, h, a)
    BY DEF SettleSelection, Leg
  <2>4. ~ IsQuarterLine(line) /\ ~ IsQuarterLine(-line)
    BY <1>2, <1>5, LinesMissGoals DEF IsQuarterLine
  <2>5. /\ SettleSpreads("home", line, h, a) = WonIf(4 * (h - a) + line > 0)
        /\ SettleSpreads("away", -line, h, a) = WonIf(4 * (a - h) + (-line) > 0)
    BY <2>4 DEF SettleSpreads, Lead
  <2>6. \/ 4 * (h - a) + line > 0 /\ 4 * h + line # 4 * a /\ ~(4 * (a - h) + (-line) > 0)
        \/ ~(4 * (h - a) + line > 0) /\ 4 * h + line = 4 * a /\ ~(4 * (a - h) + (-line) > 0)
        \/ ~(4 * (h - a) + line > 0) /\ 4 * h + line # 4 * a /\ 4 * (a - h) + (-line) > 0
    BY <1>1, <1>2, GoalsOfSides
  <2> HIDE DEF x, y, z
  <2>7. \/ paid[x] = "won" /\ paid[y] = "lost" /\ paid[z] = "lost"
        \/ paid[x] = "lost" /\ paid[y] = "won" /\ paid[z] = "lost"
        \/ paid[x] = "lost" /\ paid[y] = "lost" /\ paid[z] = "won"
    BY <2>2, <2>3, <2>5, <2>6 DEF WonIf
  <2> QED
    BY <2>1, <2>2, <2>7, OneOfThreeWins, <1>5 DEF MarketPaysOnce, kind
<1>6. CASE kind = "1x2"
  <2> DEFINE x == Leg("h2h", "home", 0)
             y == Leg("h2h", "draw", 0)
             z == Leg("h2h", "away", 0)
  <2>1. Selections(kind, line) = {x, y, z} /\ x # y /\ y # z /\ x # z
    BY <1>6 DEF Selections, Leg, Sides
  <2>2. /\ paid[x] = SettleSelection(x, h, a) /\ paid[y] = SettleSelection(y, h, a) /\ paid[z] = SettleSelection(z, h, a)
        /\ DOMAIN paid = {x, y, z}
    BY <1>0, <2>1
  <2>3. /\ SettleSelection(x, h, a) = WonIf(h - a > 0)
        /\ SettleSelection(y, h, a) = WonIf(h = a)
        /\ SettleSelection(z, h, a) = WonIf(a - h > 0)
    BY DEF SettleSelection, SettleH2h, Lead, Leg
  <2>4. \/ h - a > 0 /\ h # a /\ ~(a - h > 0)
        \/ ~(h - a > 0) /\ h = a /\ ~(a - h > 0)
        \/ ~(h - a > 0) /\ h # a /\ a - h > 0
    BY <1>1
  <2> HIDE DEF x, y, z
  <2>5. \/ paid[x] = "won" /\ paid[y] = "lost" /\ paid[z] = "lost"
        \/ paid[x] = "lost" /\ paid[y] = "won" /\ paid[z] = "lost"
        \/ paid[x] = "lost" /\ paid[y] = "lost" /\ paid[z] = "won"
    BY <2>2, <2>3, <2>4 DEF WonIf
  <2> QED
    BY <2>1, <2>2, <2>5, OneOfThreeWins, <1>6 DEF MarketPaysOnce, kind
<1>7. CASE kind \in {"home_away", "match_winner"}
  <2> DEFINE x == Leg("h2h", "home", 0)
             y == Leg("h2h", "away", 0)
  <2>1. Selections(kind, line) = {x, y} /\ x # y
    BY <1>7 DEF Selections, Leg, Sides
  <2>2. /\ paid[x] = SettleSelection(x, h, a) /\ paid[y] = SettleSelection(y, h, a)
        /\ DOMAIN paid = {x, y}
    BY <1>0, <2>1
  <2>3. /\ SettleSelection(x, h, a) = WonIf(h - a > 0)
        /\ SettleSelection(y, h, a) = WonIf(a - h > 0)
    BY DEF SettleSelection, SettleH2h, Lead, Leg
  <2> HIDE DEF x, y
  <2>4. CASE h = a
    <3>1. paid[x] = "lost" /\ paid[y] = "lost"
      BY <1>1, <2>2, <2>3, <2>4 DEF WonIf
    <3> QED
      BY <2>2, <3>1, <2>4, <1>7 DEF MarketPaysOnce, kind, h, a
  <2>5. CASE h # a
    <3>1. \/ h - a > 0 /\ ~(a - h > 0)
          \/ ~(h - a > 0) /\ a - h > 0
      BY <1>1, <2>5
    <3>2. \/ paid[x] = "won" /\ paid[y] = "lost"
          \/ paid[x] = "lost" /\ paid[y] = "won"
      BY <2>2, <2>3, <3>1 DEF WonIf
    <3> QED
      BY <2>1, <2>2, <3>2, OneOfTwoWins, <2>5, <1>7 DEF MarketPaysOnce, kind, h, a
  <2> QED
    BY <2>4, <2>5
<1>8. CASE kind = "dnb"
  <2> DEFINE x == Leg("dnb", "home", 0)
             y == Leg("dnb", "away", 0)
  <2>1. Selections(kind, line) = {x, y} /\ x # y
    BY <1>8 DEF Selections, Leg, Sides
  <2>2. /\ paid[x] = SettleSelection(x, h, a) /\ paid[y] = SettleSelection(y, h, a)
        /\ DOMAIN paid = {x, y}
    BY <1>0, <2>1
  <2>3. /\ SettleSelection(x, h, a) = IF h = a THEN "push" ELSE WonIf(h - a > 0)
        /\ SettleSelection(y, h, a) = IF h = a THEN "push" ELSE WonIf(a - h > 0)
    BY DEF SettleSelection, SettleDnb, Lead, Leg
  <2> HIDE DEF x, y
  <2>4. CASE h = a
    <3>1. paid[x] = "push" /\ paid[y] = "push"
      BY <2>2, <2>3, <2>4
    <3> QED
      BY <2>2, <3>1, <2>4, <1>8 DEF MarketPaysOnce, kind, h, a
  <2>5. CASE h # a
    <3>1. \/ h - a > 0 /\ ~(a - h > 0)
          \/ ~(h - a > 0) /\ a - h > 0
      BY <1>1, <2>5
    <3>2. \/ paid[x] = "won" /\ paid[y] = "lost"
          \/ paid[x] = "lost" /\ paid[y] = "won"
      BY <2>2, <2>3, <2>5, <3>1 DEF WonIf
    <3> QED
      BY <2>1, <2>2, <3>2, OneOfTwoWins, <2>5, <1>8 DEF MarketPaysOnce, kind, h, a
  <2> QED
    BY <2>4, <2>5
<1>9. CASE kind = "btts"
  <2> DEFINE x == Leg("btts", "yes", 0)
             y == Leg("btts", "no", 0)
  <2>1. Selections(kind, line) = {x, y} /\ x # y
    BY <1>9 DEF Selections, Leg, Sides
  <2>2. /\ paid[x] = SettleSelection(x, h, a) /\ paid[y] = SettleSelection(y, h, a)
        /\ DOMAIN paid = {x, y}
    BY <1>0, <2>1
  <2>3. /\ SettleSelection(x, h, a) = WonIf(h > 0 /\ a > 0)
        /\ SettleSelection(y, h, a) = WonIf(~(h > 0 /\ a > 0))
    BY DEF SettleSelection, SettleBtts, Leg
  <2> HIDE DEF x, y
  <2>4. \/ paid[x] = "won" /\ paid[y] = "lost"
        \/ paid[x] = "lost" /\ paid[y] = "won"
    BY <2>2, <2>3 DEF WonIf
  <2> QED
    BY <2>1, <2>2, <2>4, OneOfTwoWins, <1>9 DEF MarketPaysOnce, kind
<1>10. CASE kind = "double_chance"
  <2> DEFINE x == Leg("double", "home", 0)
             y == Leg("double", "draw", 0)
             z == Leg("double", "away", 0)
  <2>1. Selections(kind, line) = {x, y, z} /\ x # y /\ y # z /\ x # z
    BY <1>10 DEF Selections, Leg, Sides
  <2>2. /\ paid[x] = SettleSelection(x, h, a) /\ paid[y] = SettleSelection(y, h, a) /\ paid[z] = SettleSelection(z, h, a)
        /\ DOMAIN paid = {x, y, z}
    BY <1>0, <2>1
  <2>3. /\ SettleSelection(x, h, a) = WonIf(h - a >= 0)
        /\ SettleSelection(y, h, a) = WonIf(h # a)
        /\ SettleSelection(z, h, a) = WonIf(a - h >= 0)
    BY DEF SettleSelection, SettleDoubleChance, Lead, Leg
  <2>4. \/ h - a >= 0 /\ h # a /\ ~(a - h >= 0)
        \/ h - a >= 0 /\ h = a /\ a - h >= 0
        \/ ~(h - a >= 0) /\ h # a /\ a - h >= 0
    BY <1>1
  <2> HIDE DEF x, y, z
  <2>5. \/ paid[x] = "lost" /\ paid[y] = "won" /\ paid[z] = "won"
        \/ paid[x] = "won" /\ paid[y] = "lost" /\ paid[z] = "won"
        \/ paid[x] = "won" /\ paid[y] = "won" /\ paid[z] = "lost"
    BY <2>2, <2>3, <2>4 DEF WonIf
  <2> QED
    BY <2>1, <2>2, <2>5, OneOfThreeLoses, <1>10 DEF MarketPaysOnce, kind
<1> QED
  BY <1>2, <1>3, <1>4, <1>5, <1>6, <1>7, <1>8, <1>9, <1>10 DEF Exact

\* An unsettled market is of the invariant.
LEMMA TermsStart == TermsInit => TermsInv
BY DEF TermsInit, TermsInv

\* Settling a market writes what its key and its score say.
LEMMA TermsKeepInv == ASSUME TermsInv, [TermsNext]_termsVars PROVE TermsInv'
BY DEF TermsInv, TermsNext, MarketSettles, termsVars

\* Every market pays out exactly what it took in, on every line and every score, and the
\* two sides of an Asian line are mirrors.
LEMMA TermsBalance == TermsInv => MarketsBalance
<1> SUFFICES ASSUME TermsInv PROVE MarketsBalance
  OBVIOUS
<1>1. MarketPaysOnce
  <2>1. CASE paid = <<>>
    BY <2>1 DEF MarketPaysOnce
  <2>2. CASE paid # <<>>
    BY <2>2, SettledPaysOnce
  <2> QED
    BY <2>1, <2>2
<1>2. SidesMirror
  <2>1. market.home \in Nat /\ market.away \in Nat
    BY TermsAssumption DEF TermsInv
  <2> DEFINE h == market.home
             a == market.away
  <2>2. ASSUME NEW line \in Lines, ~ IsWholeLine(line)
        PROVE  LET home == SettleSpreads("home", line, h, a)
                   away == SettleSpreads("away", -line, h, a)
               IN  HalvesWon(home) = HalvesLost(away) /\ HalvesLost(home) = HalvesWon(away)
    <3>1. line \in Int /\ h \in Int /\ a \in Int
      BY <2>1, TermsAssumption
    <3> HIDE DEF h, a
    <3> QED
      BY <3>1, <2>2, SpreadsMirror
  <2> QED
    BY <2>2 DEF SidesMirror
<1> QED
  BY <1>1, <1>2 DEF MarketsBalance

\* And in outcomes that can be paid.
LEMMA TermsPromise == TermsInv => TermsTypeOK /\ MarketsBalance
<1> SUFFICES ASSUME TermsInv PROVE TermsTypeOK
  BY TermsBalance
<1>1. /\ market \in [key : Keys, home : Scores, away : Scores]
      /\ \/ paid = <<>>
         \/ paid = [leg \in Selections(market.key.kind, market.key.line) |->
                      SettleSelection(leg, market.home, market.away)]
  BY DEF TermsInv
<1>2. market.key \in Keys /\ market.home \in Nat /\ market.away \in Nat
  BY <1>1, TermsAssumption
<1>3. ASSUME NEW leg \in DOMAIN paid PROVE paid[leg] \in Outcomes
  <2>1. CASE paid = <<>>
    BY <1>3, <2>1
  <2>2. CASE paid = [l \in Selections(market.key.kind, market.key.line) |->
                       SettleSelection(l, market.home, market.away)]
    BY <1>2, <1>3, <2>2, SelectionsArePaid
  <2> QED
    BY <1>1, <2>1, <2>2
<1> QED
  BY <1>1, <1>3 DEF TermsTypeOK

-----------------------------------------------------------------------------
(* The fair value (FairValue)                                              *)

\* A non-empty family of finite sets has a member with no smaller one in it.
LEMMA LeastSubset ==
  ASSUME NEW U, NEW Bad \in SUBSET FiniteSubsetsOf(U), Bad # {}
  PROVE  \E S \in Bad : \A T \in Bad : T \subseteq S => T = S
<1>1. IsWellFoundedOn(StrictSubsetOrdering(U), FiniteSubsetsOf(U))
  BY FS_StrictSubsetOrderingWellFounded
<1>2. PICK S \in Bad : \A T \in Bad : ~ (<<T, S>> \in StrictSubsetOrdering(U))
  BY <1>1, WFMin
<1>3. ASSUME NEW T \in Bad, T \subseteq S PROVE T = S
  <2>1. T \in SUBSET U /\ S \in SUBSET U
    BY DEF FiniteSubsetsOf
  <2> QED
    BY <1>2, <1>3, <2>1 DEF StrictSubsetOrdering
<1> QED
  BY <1>3

\* Of finitely many numbers one is the highest.
LEMMA HighestOf ==
  ASSUME NEW S, IsFiniteSet(S), S # {}, NEW f \in [S -> Nat]
  PROVE  \E q \in S : \A r \in S : f[q] >= f[r]
<1> DEFINE Bad == {X \in FiniteSubsetsOf(S) : X # {} /\ ~\E q \in X : \A r \in X : f[q] >= f[r]}
<1>1. SUFFICES ASSUME Bad # {} PROVE FALSE
  <2>1. S \in FiniteSubsetsOf(S)
    BY DEF FiniteSubsetsOf
  <2> QED
    BY <2>1
<1>2. Bad \in SUBSET FiniteSubsetsOf(S)
  OBVIOUS
<1>3. PICK X \in Bad : \A Y \in Bad : Y \subseteq X => Y = X
  <2> HIDE DEF Bad
  <2> QED
    BY <1>1, <1>2, LeastSubset
<1>4. PICK x \in X : TRUE
  OBVIOUS
<1>5. /\ X \ {x} \in FiniteSubsetsOf(S)
      /\ \A q \in X : f[q] \in Nat
  BY FS_RemoveElement DEF FiniteSubsetsOf
<1>6. CASE X \ {x} = {}
  <2>1. X = {x}
    BY <1>4, <1>6
  <2> QED
    BY <2>1, <1>5
<1>7. CASE X \ {x} # {}
  <2>1. X \ {x} \notin Bad
    BY <1>3, <1>4
  <2>2. PICK q \in X \ {x} : \A r \in X \ {x} : f[q] >= f[r]
    BY <2>1, <1>5, <1>7
  <2>3. \A r \in X : r = x \/ r \in X \ {x}
    OBVIOUS
  <2>4. CASE f[q] >= f[x]
    <3>1. \A r \in X : f[q] >= f[r]
      BY <2>2, <2>3, <2>4
    <3> QED
      BY <3>1
  <2>5. CASE f[x] >= f[q]
    <3>1. \A r \in X : f[x] >= f[r]
      BY <1>5, <2>2, <2>3, <2>5
    <3> QED
      BY <1>4, <3>1
  <2> QED
    BY <1>5, <2>4, <2>5
<1> QED
  BY <1>6, <1>7

\* A set of natural numbers has a least one, unless it is empty.
LEMMA LeastNumber ==
  ASSUME NEW S \in SUBSET Nat, S # {}
  PROVE  Min(S) \in S /\ \A u \in S : Min(S) <= u
<1>1. PICK t \in S : \A u \in S : <<u, t>> \notin OpToRel(<, Nat)
  BY WFMin, NatLessThanWellFounded, Zenon
<1>2. \A u \in S : ~(u < t)
  BY <1>1, Zenon DEF OpToRel
<1> DEFINE P(x) == x \in S /\ \A u \in S : x <= u
<1>3. P(t)
  BY <1>2
<1>4. Min(S) = CHOOSE x : P(x)
  BY DEF Min
<1> HIDE DEF P
<1>5. P(Min(S))
  BY <1>3, <1>4
<1> QED
  BY <1>5 DEF P

\* Where all books of a selection but at most one are in O, the k-th price lies between two of
\* theirs, for the first price and the last one apart.
LEMMA NthAmongOthers ==
  ASSUME NEW S, IsFiniteSet(S), NEW leg, \A b \in S : Effective(b, leg) \in Nat,
         NEW O \in SUBSET S, Cardinality(O) >= Cardinality(S) - 1,
         NEW k \in Nat, 2 <= k, k <= Cardinality(S) - 1
  PROVE  /\ Nth(S, leg, k) \in Nat
         /\ \E o \in O : Effective(o, leg) <= Nth(S, leg, k)
         /\ \E p \in O : Nth(S, leg, k) <= Effective(p, leg)
<1> DEFINE Upto(v) == {b \in S : Effective(b, leg) <= v}
           V == {v \in {Effective(b, leg) : b \in S} : Cardinality(Upto(v)) >= k}
           f == [b \in O |-> Effective(b, leg)]
<1>1. /\ Cardinality(S) \in Nat /\ IsFiniteSet(O) /\ Cardinality(O) \in Nat
      /\ \A v : Upto(v) \in SUBSET S /\ IsFiniteSet(Upto(v)) /\ Cardinality(Upto(v)) \in Nat
  BY FS_CardinalityType, FS_Subset
<1>2. O # {}
  BY <1>1, FS_EmptySet
<1>3. PICK p \in O : \A r \in O : f[p] >= f[r]
  <2>1. f \in [O -> Nat]
    OBVIOUS
  <2> HIDE DEF f
  <2> QED
    BY <1>1, <1>2, <2>1, HighestOf
<1>4. Effective(p, leg) \in V
  <2>1. O \in SUBSET Upto(Effective(p, leg))
    BY <1>3
  <2> HIDE DEF Upto
  <2>2. Cardinality(O) <= Cardinality(Upto(Effective(p, leg)))
    BY <1>1, <2>1, FS_Subset
  <2> QED
    BY <1>1, <2>2
<1>5. V \in SUBSET Nat
  OBVIOUS
<1>6. Nth(S, leg, k) = Min(V)
  BY DEF Nth
<1>7. ASSUME NEW v \in V PROVE \E o \in O : Effective(o, leg) <= v
  <2>1. Cardinality(Upto(v)) >= 2
    <3> HIDE DEF Upto
    <3> QED
      BY <1>1, <1>7
  <2>2. SUFFICES ASSUME Upto(v) \cap O = {} PROVE FALSE
    OBVIOUS
  <2>3. Upto(v) \in SUBSET (S \ O)
    BY <2>2
  <2>4. Cardinality(S \ O) <= 1 /\ IsFiniteSet(S \ O)
    <3>1. Cardinality(S \ O) = Cardinality(S) - Cardinality(S \cap O) /\ IsFiniteSet(S \ O)
      BY FS_Difference
    <3>2. S \cap O = O
      OBVIOUS
    <3> QED
      BY <1>1, <3>1, <3>2
  <2> HIDE DEF Upto
  <2>5. Cardinality(Upto(v)) <= Cardinality(S \ O) /\ Cardinality(S \ O) \in Nat
    BY <2>3, <2>4, FS_Subset, FS_CardinalityType
  <2> QED
    BY <1>1, <2>1, <2>4, <2>5
<1> HIDE DEF V, Upto, f
<1>8. Min(V) \in V /\ Min(V) <= Effective(p, leg)
  BY <1>4, <1>5, LeastNumber
<1> QED
  BY <1>4, <1>5, <1>6, <1>7, <1>8

\* A single book cannot move the median out of the others' range.
LEMMA MedianAmongOthers ==
  ASSUME NEW S, IsFiniteSet(S), NEW leg, \A b \in S : Effective(b, leg) \in Nat,
         NEW O \in SUBSET S, Cardinality(O) >= Cardinality(S) - 1, Cardinality(S) >= 3
  PROVE  /\ MedianOf(S, leg) \in Nat
         /\ \E o \in O : Effective(o, leg) <= MedianOf(S, leg)
         /\ \E p \in O : MedianOf(S, leg) <= Effective(p, leg)
<1> DEFINE n == Cardinality(S)
           low  == (n + 1) \div 2
           high == n \div 2 + 1
           x == Nth(S, leg, low)
           y == Nth(S, leg, high)
<1>1. n \in Nat /\ low \in Nat /\ high \in Nat /\ 2 <= low /\ 2 <= high /\ low <= n - 1 /\ high <= n - 1
  BY FS_CardinalityType
<1>2. MedianOf(S, leg) = (x + y) \div 2
  BY DEF MedianOf
<1> HIDE DEF low, high
<1>3. /\ x \in Nat /\ y \in Nat
      /\ \E o \in O : Effective(o, leg) <= x
      /\ \E p \in O : x <= Effective(p, leg)
      /\ \E o \in O : Effective(o, leg) <= y
      /\ \E p \in O : y <= Effective(p, leg)
  BY <1>1, NthAmongOthers
<1>4. \A o \in O : Effective(o, leg) \in Nat
  OBVIOUS
<1> HIDE DEF x, y
<1>5. /\ (x + y) \div 2 \in Nat
      /\ x <= (x + y) \div 2 \/ y <= (x + y) \div 2
      /\ (x + y) \div 2 <= x \/ (x + y) \div 2 <= y
  BY <1>3
<1>6. \E o \in O : Effective(o, leg) <= (x + y) \div 2
  BY <1>3, <1>4, <1>5
<1>7. \E p \in O : (x + y) \div 2 <= Effective(p, leg)
  BY <1>3, <1>4, <1>5
<1> QED
  BY <1>2, <1>5, <1>6, <1>7

\* An anchor is a book that quotes the full market, or the consensus.
LEMMA AnchorIs ==
  ASSUME FairTypeOK, Anchor # NoAnchor
  PROVE  \/ Anchor.book \in PricedBy /\ FullMarket(Anchor.book) /\ shown[Anchor.book] # Unpriced
         \/ Anchor.book = "consensus"
<1> DEFINE earning == {i \in DOMAIN Preferred : EarnsAnchor(Preferred[i])}
           first   == Preferred[Min(earning)]
<1>1. NamedSharpAnchor = IF earning = {} THEN NoAnchor ELSE [book |-> first, line |-> shown[first]]
  BY DEF NamedSharpAnchor
<1>2. CASE earning # {}
  <2>1. Min(earning) \in earning
    <3>1. earning \in SUBSET Nat
      BY FairAssumption
    <3> HIDE DEF earning
    <3> QED
      BY <1>2, <3>1, LeastNumber
  <2>2. first \in PricedBy /\ FullMarket(first)
    BY <2>1, FairAssumption DEF PricedBy, Range, EarnsAnchor
  <2>3. shown[first] # Unpriced
    BY <2>2, 1 \in Legs DEF FullMarket, Quoted, Legs
  <2> HIDE DEF first
  <2>4. NamedSharpAnchor = [book |-> first, line |-> shown[first]]
    BY <1>1, <1>2
  <2>5. NamedSharpAnchor # NoAnchor
    BY <2>3, <2>4 DEF NoAnchor
  <2>6. Anchor = NamedSharpAnchor
    BY <2>5, Zenon DEF Anchor
  <2> QED
    BY <2>2, <2>3, <2>4, <2>6
<1>3. CASE earning = {}
  <2>1. Anchor = ConsensusAnchor
    BY <1>1, <1>3, Zenon DEF Anchor
  <2> QED
    BY <2>1 DEF ConsensusAnchor
<1> QED
  BY <1>2, <1>3

\* A market nobody priced has its types.
LEMMA FairStarts == FairInit => FairTypeOK
BY DEF FairInit, FairTypeOK, Unpriced

\* Books that quote and withdraw keep them.
LEMMA FairKeepsTypes == ASSUME FairTypeOK, [FairNext]_fairVars PROVE FairTypeOK'
<1>1. CASE \E b \in PricedBy, l \in PriceLines : Quote(b, l)
  BY <1>1 DEF Quote, FairTypeOK
<1>2. CASE ScanMarket
  <2>1. ValueBets \subseteq Bets
    <3> SUFFICES ASSUME NEW bet \in ValueBets PROVE bet \in Bets
      OBVIOUS
    <3>1. Anchor # NoAnchor /\ ~AnchorDisagrees
      BY Zenon DEF ValueBets
    <3>2. PICK l \in Legs :
            /\ Best(l) # {}
            /\ bet = [leg |-> l, book |-> CHOOSE b \in Best(l) : TRUE, anchor |-> Anchor.book]
      <4> DEFINE found == {l \in Legs : \E b \in Best(l) : IsValue(Fair[l], Effective(b, l))}
      <4>1. ValueBets = {[leg |-> l, book |-> CHOOSE b \in Best(l) : TRUE, anchor |-> Anchor.book] : l \in found}
        BY <3>1, Zenon DEF ValueBets
      <4>2. PICK l \in found : bet = [leg |-> l, book |-> CHOOSE b \in Best(l) : TRUE, anchor |-> Anchor.book]
        BY <4>1
      <4> QED
        BY <4>2
    <3>3. (CHOOSE b \in Best(l) : TRUE) \in PricedBy
      <4>1. (CHOOSE b \in Best(l) : TRUE) \in Best(l)
        BY <3>2
      <4> QED
        BY <4>1 DEF Best, Bettable, QuotersOf
    <3>4. Anchor.book \in PricedBy \cup {"consensus"}
      BY <3>1, AnchorIs
    <3> HIDE DEF Bets
    <3> DEFINE book == CHOOSE b \in Best(l) : TRUE
    <3>5. book \in PricedBy /\ bet = [leg |-> l, book |-> book, anchor |-> Anchor.book]
      BY <3>2, <3>3
    <3> HIDE DEF book
    <3> QED
      BY <3>4, <3>5 DEF Bets
  <2> QED
    BY <1>2, <2>1 DEF ScanMarket, FairTypeOK
<1>3. CASE UNCHANGED fairVars
  BY <1>3 DEF FairTypeOK, fairVars
<1> QED
  BY <1>1, <1>2, <1>3 DEF FairNext

\* A multiple grows with what it is taken of.
LEMMA MultiplesGrow ==
  ASSUME NEW k \in Nat, NEW m \in Nat, NEW n \in Nat, m <= n
  PROVE  k * m <= k * n
OBVIOUS

\* Shares of a total stay a margin apart when the parts do.
LEMMA SharesApart ==
  ASSUME NEW x \in Nat, NEW y \in Nat, NEW total \in Nat, total > 0, NEW margin \in Nat,
         100 * x >= 100 * y + (margin + 1) * total
  PROVE  (100 * x) \div total > (100 * y) \div total + margin
<1> DEFINE p == (100 * x) \div total
           q == (100 * y) \div total
<1>1. /\ p \in Nat /\ q \in Nat
      /\ total * q <= 100 * y
      /\ 100 * x < total * p + total
  OBVIOUS
<1> HIDE DEF p, q
<1>2. total * (q + margin + 1) < total * (p + 1)
  <2>1. total * (q + margin + 1) = total * q + (margin + 1) * total /\ total * (p + 1) = total * p + total
    BY <1>1
  <2> QED
    BY <1>1, <2>1
<1>3. ~(q + margin + 1 >= p + 1)
  <2>1. ASSUME p + 1 <= q + margin + 1 PROVE FALSE
    <3>1. total * (p + 1) <= total * (q + margin + 1)
      BY <1>1, <2>1, MultiplesGrow
    <3> QED
      BY <1>1, <1>2, <3>1
  <2> QED
    BY <1>1, <2>1
<1>4. p > q + margin
  BY <1>1, <1>3
<1> QED
  BY <1>4 DEF p, q

\* The margin that holds between three prices holds between a higher one and two lower ones.
LEMMA MarginWidens ==
  ASSUME NEW t \in 1 .. 100, NEW x \in Nat, NEW y \in Nat, NEW z \in Nat,
         NEW u \in Nat, NEW v \in Nat, NEW w \in Nat, u >= x, v <= y, w <= z,
         100 * x >= 100 * y + t * (x + y + z)
  PROVE  100 * u >= 100 * v + t * (u + v + w)
<1>1. /\ (100 - t) * x <= (100 - t) * u
      /\ (100 + t) * v <= (100 + t) * y
      /\ t * w <= t * z
  BY MultiplesGrow
<1>2. /\ (100 - t) * x = 100 * x - t * x /\ (100 - t) * u = 100 * u - t * u
      /\ (100 + t) * v = 100 * v + t * v /\ (100 + t) * y = 100 * y + t * y
      /\ t * (x + y + z) = t * x + t * y + t * z
      /\ t * (u + v + w) = t * u + t * v + t * w
  OBVIOUS
<1>3. t * x \in Int /\ t * u \in Int /\ t * v \in Int /\ t * y \in Int /\ t * w \in Int /\ t * z \in Int
  OBVIOUS
<1> QED
  BY <1>1, <1>2, <1>3

\* All books but the anchor ranking a selection above one the anchor does not is what the
\* guard finds.
LEMMA SwapIsFound ==
  ASSUME FairTypeOK, Cardinality({b \in PricedBy : shown[b] # Unpriced}) >= MinConsensus, Anchor # NoAnchor,
         NEW a \in Legs, NEW b \in Legs, Fair[a] <= Fair[b], OthersRank(a, b)
  PROVE  AnchorDisagrees
<1> DEFINE S == {x \in PricedBy : shown[x] # Unpriced}
<1>0. /\ IsFiniteSet(S) /\ Cardinality(S) \in Nat /\ Cardinality(S) >= 3
      /\ IsFiniteSet(Others) /\ Cardinality(Others) >= Cardinality(S) - 1 /\ Others \in SUBSET S
      /\ Others # {}
  <2>1. IsFiniteSet(S) /\ Cardinality(S) \in Nat
    BY FairAssumption, FS_Subset, FS_CardinalityType DEF PricedBy
  <2>2. Others = S \ {Anchor.book}
    BY DEF Others
  <2> HIDE DEF S
  <2> DEFINE anchor == Anchor.book
  <2>o. Others = S \ {anchor}
    BY <2>2
  <2> HIDE DEF anchor
  <2>r. /\ IsFiniteSet(S \ {anchor})
        /\ Cardinality(S \ {anchor}) = IF anchor \in S THEN Cardinality(S) - 1 ELSE Cardinality(S)
    BY <2>1, FS_RemoveElement
  <2>3. IsFiniteSet(Others) /\ Cardinality(Others) >= Cardinality(S) - 1
    BY <2>1, <2>o, <2>r
  <2>4. Cardinality(S) >= 3
    BY <2>1, FairAssumption DEF S
  <2>5. Others # {}
    BY <2>1, <2>3, <2>4, FS_EmptySet
  <2> QED
    BY <2>1, <2>2, <2>3, <2>4, <2>5
<1>1. \A leg \in Legs : QuotersOf(leg) = S
  <2>1. \A x \in S : FullMarket(x)
    <3>1. \A x \in S : x \in Others \/ x = Anchor.book
      BY DEF Others
    <3>2. "consensus" \notin PricedBy
      BY FairAssumption DEF PricedBy
    <3> QED
      BY <3>1, <3>2, AnchorIs DEF OthersRank
  <2> QED
    BY <2>1 DEF QuotersOf, Quoted, FullMarket
<1>2. Thick
  BY <1>0, <1>1, Zenon DEF Thick
<1>3. \A x \in S, leg \in Legs : Effective(x, leg) \in Nat /\ Effective(x, leg) > 0
  <2> SUFFICES ASSUME NEW x \in S, NEW leg \in Legs
               PROVE  Effective(x, leg) \in Nat /\ Effective(x, leg) > 0
    OBVIOUS
  <2>1. shown[x] \in PriceLines /\ x \in QuotersOf(leg)
    BY <1>1 DEF FairTypeOK, Unpriced
  <2>2. shown[x][leg] \in Nat /\ shown[x][leg] > 0
    BY <2>1, FairAssumption DEF QuotersOf, Quoted, Legs
  <2> QED
    BY <2>2, FairAssumption DEF Effective, Gross
<1> HIDE DEF S
<1> DEFINE med == [leg \in Legs |-> MedianOf(S, leg)]
<1>4. \A leg \in Legs : /\ med[leg] \in Nat
                        /\ \E o \in Others : Effective(o, leg) <= med[leg]
                        /\ \E o \in Others : med[leg] <= Effective(o, leg)
  BY <1>0, <1>3, MedianAmongOthers
<1>5. ConsensusImplied = Devigged(med)
  <2>1. [leg \in Legs |-> MedianOf(QuotersOf(leg), leg)] = med
    BY <1>1
  <2> QED
    BY <2>1, Zenon DEF ConsensusImplied
<1> HIDE DEF med
<1>6. \A o, p, q \in Others, c \in Legs \ {a, b} :
        /\ Effective(o, a) \in Nat /\ Effective(p, b) \in Nat /\ Effective(q, c) \in Nat /\ Effective(o, a) > 0
        /\ 100 * Effective(o, a) >= 100 * Effective(p, b)
              + (SwapTolerance + 1) * (Effective(o, a) + Effective(p, b) + Effective(q, c))
  BY <1>0, <1>3 DEF OthersRank
<1>t. SwapTolerance \in Nat /\ SwapTolerance + 1 \in 1 .. 100
  BY FairAssumption
<1>7. a # b
  <2>1. PICK o \in Others : TRUE
    BY <1>0
  <2>2. PICK c \in Legs : c # a /\ c # b
    BY DEF Legs
  <2> DEFINE x == Effective(o, a)
             y == Effective(o, b)
             z == Effective(o, c)
  <2>3. /\ x \in Nat /\ y \in Nat /\ z \in Nat /\ x > 0
        /\ 100 * x >= 100 * y + (SwapTolerance + 1) * (x + y + z)
    BY <1>6, <2>1, <2>2
  <2>4. a = b => x = y
    OBVIOUS
  <2> HIDE DEF x, y, z
  <2>5. (SwapTolerance + 1) * (x + y + z) >= x + y + z
    BY <1>t, <2>3
  <2> QED
    BY <2>3, <2>4, <2>5, <1>t
<1>8. PICK c \in Legs : c # a /\ c # b /\ SumOver(med) = med[a] + med[b] + med[c]
  BY <1>4, <1>7 DEF Legs, SumOver
<1>9. PICK o \in Others : Effective(o, a) <= med[a]
  BY <1>4
<1>10. PICK p \in Others : med[b] <= Effective(p, b)
  BY <1>4
<1>11. PICK q \in Others : med[c] <= Effective(q, c)
  BY <1>4
<1> DEFINE x == Effective(o, a)
           y == Effective(p, b)
           z == Effective(q, c)
           u == med[a]
           v == med[b]
           w == med[c]
           total == SumOver(med)
<1>12. /\ x \in Nat /\ y \in Nat /\ z \in Nat /\ x > 0
       /\ 100 * x >= 100 * y + (SwapTolerance + 1) * (x + y + z)
  BY <1>6, <1>8, <1>9, <1>10, <1>11
<1>13. u \in Nat /\ v \in Nat /\ w \in Nat /\ u >= x /\ v <= y /\ w <= z /\ total = u + v + w
  BY <1>4, <1>8, <1>9, <1>10, <1>11
<1> HIDE DEF x, y, z, u, v, w, total
<1>14. 100 * u >= 100 * v + (SwapTolerance + 1) * (u + v + w)
  BY <1>t, <1>12, <1>13, MarginWidens
<1>15. (100 * u) \div total > (100 * v) \div total + SwapTolerance
  <2>1. total \in Nat /\ total > 0
    BY <1>12, <1>13
  <2> QED
    BY <1>t, <1>13, <1>14, <2>1, SharesApart
<1>16. Devigged(med)[a] = (100 * u) \div total /\ Devigged(med)[b] = (100 * v) \div total
  BY DEF Devigged, u, v, total
<1>17. ConsensusImplied[a] > ConsensusImplied[b] + SwapTolerance
  BY <1>5, <1>15, <1>16
<1> QED
  BY <1>2, <1>17, Zenon DEF AnchorDisagrees

\* A scan of a market whose anchor is swapped finds no value.
LEMMA SwappedAnchor == FairTypeOK => SwappedAnchorMintsNothing
<1> SUFFICES ASSUME FairTypeOK, Cardinality({b \in PricedBy : shown[b] # Unpriced}) >= MinConsensus,
                    Anchor # NoAnchor,
                    NEW a \in Legs, NEW b \in Legs, Fair[a] <= Fair[b], OthersRank(a, b)
             PROVE  ValueBets = {}
  BY Zenon DEF SwappedAnchorMintsNothing
<1>1. AnchorDisagrees
  BY SwapIsFound
<1> QED
  BY <1>1, Zenon DEF ValueBets

-----------------------------------------------------------------------------
(* The gates (PickGates)                                                   *)

\* A price is stamped with the time it was read, and a tier is given to one that was read
\* before its game began.
GatesInv ==
  /\ gatePolicy \in Policies
  /\ gateClock \in 0 .. MaxGateClock
  /\ \/ offer = NoOffer
     \/ DOMAIN offer = CandidateFields /\ offer.kickoff \in Int /\ offer.captured \in 0 .. gateClock
  /\ ruling \in {"none", "dropped", "volume", "premium"}
  /\ ruling # "none" => offer # NoOffer
  /\ ruling \in {"volume", "premium"} => offer.captured < offer.kickoff

\* The gates begin with no candidate.
LEMMA GatesStart == GatesInit => GatesInv
BY GatesAssumption DEF GatesInit, GatesInv

\* An offer that is not there carries no kickoff.
LEMMA OffersHaveFields == DOMAIN NoOffer = {"captured"} /\ DOMAIN NoOffer # CandidateFields
<1>1. DOMAIN NoOffer = {"captured"}
  BY DEF NoOffer
<1> QED
  BY <1>1 DEF CandidateFields

\* Every scrape, ruling and cycle keeps the invariant of the gates.
LEMMA GatesKeepInv == ASSUME GatesInv, [GatesNext]_gateVars PROVE GatesInv'
<1>1. CASE Scrape
  <2>1. PICK c \in PricedCandidates : offer' = [c EXCEPT !.captured = gateClock]
    BY <1>1 DEF Scrape
  <2>2. DOMAIN c = CandidateFields /\ c.kickoff \in Int
    BY GatesAssumption
  <2>3. /\ DOMAIN offer' = CandidateFields
        /\ offer'.kickoff = c.kickoff /\ offer'.captured = gateClock
    BY <2>1, <2>2 DEF CandidateFields
  <2>4. gateClock \in 0 .. gateClock /\ offer' # NoOffer
    BY <2>3, OffersHaveFields, GatesAssumption DEF GatesInv
  <2> QED
    BY <1>1, <2>2, <2>3, <2>4 DEF GatesInv, Scrape
<1>2. CASE Judge
  <2>1. /\ ruling' \in {"dropped", "volume", "premium"}
        /\ ruling' # "dropped" => ~(offer.kickoff <= gateClock)
    BY <1>2 DEF Judge, Ruling, Dropped, CycleNow
  <2>2. offer # NoOffer /\ UNCHANGED <<gatePolicy, gateClock, offer>>
    BY <1>2 DEF Judge
  <2> QED
    BY <2>1, <2>2, GatesAssumption DEF GatesInv
<1>3. CASE NextCycle
  BY <1>3, GatesAssumption DEF GatesInv, NextCycle
<1>4. CASE GateTick
  <2>1. /\ ruling = "none" /\ gateClock' = gateClock + 1 /\ gateClock < MaxGateClock
        /\ UNCHANGED <<gatePolicy, offer, ruling>>
    BY <1>4 DEF GateTick
  <2> QED
    BY <2>1, GatesAssumption DEF GatesInv
<1>5. CASE UNCHANGED gateVars
  BY <1>5 DEF GatesInv, gateVars
<1> QED
  BY <1>1, <1>2, <1>3, <1>4, <1>5 DEF GatesNext

\* The invariant gives the types, and that no ruling mints on an in-play price.
LEMMA GatesPromise == GatesInv => GatesTypeOK /\ NoInPlayPriceMints
BY DEF GatesInv, GatesTypeOK, NoInPlayPriceMints

\* What a ruling reads of a policy and of an offer: neither whether a shadow runs, nor how
\* many sharp books quote.
LEMMA RulingsAgree ==
  ASSUME NEW p, NEW c, NEW now, DOMAIN p = PolicyFields, DOMAIN c = CandidateFields
  PROVE  Ruling(Unmeasured(p), [c EXCEPT !.sharpBooks = 0], now) = Ruling(p, c, now)
<1> DEFINE u == Unmeasured(p)
           d == [c EXCEPT !.sharpBooks = 0]
<1>1. /\ u.minEdge = p.minEdge /\ u.maxEdge = p.maxEdge /\ u.minBooks = p.minBooks
      /\ u.majors = p.majors /\ u.visibilityOnly = p.visibilityOnly /\ u.bands = p.bands
      /\ u.sharpOnly = p.sharpOnly /\ u.experimental = p.experimental /\ u.steamAway = p.steamAway
      /\ u.filter = "enforced" <=> p.filter = "enforced"
      /\ u.steam = "enforced" <=> p.steam = "enforced"
  BY DEF Unmeasured, PolicyFields
<1>2. /\ d.market = c.market /\ d.sport = c.sport /\ d.league = c.league /\ d.anchor = c.anchor
      /\ d.edge = c.edge /\ d.odds = c.odds /\ d.softBooks = c.softBooks /\ d.score = c.score
      /\ d.moves = c.moves /\ d.kickoff = c.kickoff /\ d.captured = c.captured
  BY DEF CandidateFields
<1> HIDE DEF u, d
<1>3. Dropped(u, d, now) <=> Dropped(p, c, now)
  <2>1. Thin(u, d) <=> Thin(p, c)
    BY <1>1, <1>2, Zenon DEF Thin, MinBooksFor
  <2>2. LowestFloor(u) = LowestFloor(p)
    BY <1>1, Zenon DEF LowestFloor
  <2>3. /\ MaxEdgeFor(u, d.market) = MaxEdgeFor(p, c.market)
        /\ MinEdgeFor(u, d.market) = MinEdgeFor(p, c.market)
    BY <1>1, <1>2, Zenon DEF MaxEdgeFor, MinEdgeFor
  <2>4. AhPlausible(d) <=> AhPlausible(c)
    BY <1>2, SMT DEF AhPlausible
  <2>5. Age(d, now) = Age(c, now)
    BY <1>2, Zenon DEF Age
  <2>6. OddsInBands(u, d.odds) <=> OddsInBands(p, c.odds)
    BY <1>1, <1>2, Zenon DEF OddsInBands
  <2> QED
    BY <1>2, <2>1, <2>2, <2>3, <2>4, <2>5, <2>6, Zenon DEF Dropped
<1>4. Demoted(u, d) <=> Demoted(p, c)
  <2>1. MlDemotes(u, d) <=> MlDemotes(p, c)
    BY <1>1, <1>2 DEF MlDemotes
  <2>2. SteamDemotes(u, d) <=> SteamDemotes(p, c)
    BY <1>1, <1>2, Zenon DEF SteamDemotes, Tripped
  <2>3. IsVisibilityOnly(u, d) <=> IsVisibilityOnly(p, c)
    BY <1>1, <1>2, Zenon DEF IsVisibilityOnly
  <2>4. IsMajorLeague(u, d.league) <=> IsMajorLeague(p, c.league)
    BY <1>1, <1>2, Zenon DEF IsMajorLeague
  <2> QED
    BY <1>1, <1>2, <2>1, <2>2, <2>3, <2>4, Zenon DEF Demoted
<1>5. MinEdgeFor(u, d.market) = MinEdgeFor(p, c.market)
  BY <1>1, <1>2, Zenon DEF MinEdgeFor
<1>6. Ruling(u, d, now) = Ruling(p, c, now)
  BY <1>2, <1>3, <1>4, <1>5, Zenon DEF Ruling
<1> QED
  BY <1>6 DEF u, d

\* A ruling is the one an offer gets with nothing measured next to it.
LEMMA GatesRuleAlike ==
  ASSUME GatesInv, [GatesNext]_gateVars, ruling = "none", ruling' # "none"
  PROVE  ruling' = Ruling(Unmeasured(gatePolicy), [offer EXCEPT !.sharpBooks = 0], gateClock)
<1>1. offer # NoOffer /\ ruling' = Ruling(gatePolicy, offer, gateClock)
  BY DEF GatesNext, Scrape, Judge, NextCycle, GateTick, gateVars, CycleNow
<1>2. DOMAIN gatePolicy = PolicyFields /\ DOMAIN offer = CandidateFields
  BY <1>1, GatesAssumption DEF GatesInv
<1> QED
  BY <1>1, <1>2, RulingsAgree

-----------------------------------------------------------------------------
(* The settings (Composition)                                              *)

\* A process is up under settings that were accepted, with what they wire; a pick of it was
\* granted what a fresh day grants.
SettingsInv ==
  /\ env \in Environments
  /\ app = {} => lastPick = {}
  /\ app # {} => /\ Accepts(env)
                 /\ app = {[sports |-> PolledSports(env), experimental |-> Experimental(env),
                            visibilityOnly |-> VisibilityOnly(env), jobs |-> WiredJobs(env), door |-> Door(env)]}
  /\ \/ lastPick = {}
     \/ \E sport, alerted :
          lastPick = {[sport |-> sport, alerted |-> alerted, granted |-> IF alerted THEN Granted(env.perBet) ELSE 0]}

\* No process is up before the settings were read.
LEMMA SettingsStart == CompositionInit => SettingsInv
BY DEF CompositionInit, SettingsInv

\* The same settings are accepted alike and wire the same.
LEMMA SettingsReadAlike ==
  ASSUME env' = env
  PROVE  /\ PolledSports(env)' = PolledSports(env) /\ Experimental(env)' = Experimental(env)
         /\ VisibilityOnly(env)' = VisibilityOnly(env) /\ WiredJobs(env)' = WiredJobs(env) /\ Door(env)' = Door(env)
         /\ Accepts(env)' <=> Accepts(env)
<1>1. /\ PolledSports(env)' = PolledSports(env) /\ Experimental(env)' = Experimental(env)
      /\ VisibilityOnly(env)' = VisibilityOnly(env) /\ WiredJobs(env)' = WiredJobs(env) /\ Door(env)' = Door(env)
  BY Zenon DEF PolledSports, Experimental, VisibilityOnly, WiredJobs, Door
<1>2. Accepts(env)' <=> Accepts(env)
  BY Zenon DEF Accepts, PicksOnly, CapsCoherent, DoorIsSafe, MarketBudgetHolds, ConcurrencyHolds,
     TiersOrdered, KnobsHold, EdgesParse, BooksParse, BandsParse, ProxiesParse, MarketMapParses
<1> QED
  BY <1>1, <1>2

\* What is promised of the settings is promised of the same settings later.
LEMMA SettingsStand ==
  ASSUME SettingsInv, env' = env, app' = app,
         \/ lastPick' = lastPick
         \/ app # {} /\ \E sport, alerted :
              lastPick' = {[sport |-> sport, alerted |-> alerted, granted |-> IF alerted THEN Granted(env.perBet) ELSE 0]}
  PROVE  SettingsInv'
<1>1. /\ PolledSports(env)' = PolledSports(env) /\ Experimental(env)' = Experimental(env)
      /\ VisibilityOnly(env)' = VisibilityOnly(env) /\ WiredJobs(env)' = WiredJobs(env) /\ Door(env)' = Door(env)
      /\ Accepts(env)' <=> Accepts(env)
  BY SettingsReadAlike
<1>3. Granted(env.perBet)' = Granted(env.perBet)
  BY Zenon DEF Granted
<1> QED
  BY <1>1, <1>3, Zenon DEF SettingsInv

\* Every start, edit and pick keeps the invariant of the settings.
LEMMA SettingsKeepInv == ASSUME SettingsInv, [CompositionNext]_compositionVars PROVE SettingsInv'
<1>1. CASE ProcessComesUp
  <2> DEFINE wired == [sports |-> PolledSports(env), experimental |-> Experimental(env),
                       visibilityOnly |-> VisibilityOnly(env), jobs |-> WiredJobs(env), door |-> Door(env)]
  <2>1. /\ app = {} /\ Accepts(env) /\ app' = {wired} /\ env' = env /\ lastPick' = lastPick
    BY <1>1 DEF ProcessComesUp
  <2>2. lastPick' = {}
    BY <2>1 DEF SettingsInv
  <2>3. /\ Accepts(env)' /\ wired' = wired
    BY <2>1, SettingsReadAlike, Zenon
  <2>4. env' \in Environments
    BY <2>1 DEF SettingsInv
  <2>5. app' # {} /\ app' = {wired'}
    BY <2>1, <2>3
  <2> HIDE DEF wired
  <2> QED
    BY <2>2, <2>3, <2>4, <2>5 DEF SettingsInv, wired
<1>2. CASE SettingsEdited
  BY <1>2 DEF SettingsEdited, SettingsInv
<1>3. CASE PickMinted
  <2>1. /\ app # {} /\ env' = env /\ app' = app
        /\ \E sport, alerted :
             lastPick' = {[sport |-> sport, alerted |-> alerted, granted |-> IF alerted THEN Granted(env.perBet) ELSE 0]}
    BY <1>3, Zenon DEF PickMinted
  <2> QED
    BY <2>1, SettingsStand
<1>4. CASE UNCHANGED compositionVars
  BY <1>4, SettingsStand DEF compositionVars, SettingsInv
<1> QED
  BY <1>1, <1>2, <1>3, <1>4 DEF CompositionNext

\* A stake that fits the caps is granted in full.
LEMMA FullStakeFits ==
  ASSUME NEW e \in Environments, CapsCoherent(e), env = e
  PROVE  Granted(env.perBet) = env.perBet
<1> DEFINE limits == {env.perBet, env.perDay} \cup (IF env.eventCap THEN {env.perEvent} ELSE {})
           P(m) == m \in limits /\ \A l \in limits : m <= l
<1>1. /\ env.perBet \in Nat /\ env.perEvent \in Nat /\ env.perDay \in Nat /\ env.eventCap \in BOOLEAN
      /\ env.perBet <= env.perDay
      /\ env.eventCap => env.perBet <= env.perEvent
  BY CompositionAssumption DEF CapsCoherent
<1>2. limits \subseteq Nat /\ env.perBet \in limits /\ \A l \in limits : env.perBet <= l
  <2>1. CASE env.eventCap
    <3>1. limits = {env.perBet, env.perDay} \cup {env.perEvent}
      BY <2>1, Zenon
    <3>2. env.perBet <= env.perEvent
      BY <1>1, <2>1, Zenon
    <3> QED
      BY <1>1, <3>1, <3>2
  <2>2. CASE ~ env.eventCap
    <3>1. limits = {env.perBet, env.perDay} \cup {}
      BY <2>2, Zenon
    <3> QED
      BY <1>1, <3>1
  <2> QED
    BY <2>1, <2>2
<1>3. Granted(env.perBet) = CHOOSE m : P(m)
  BY DEF Granted
<1>4. P(env.perBet) /\ \A m : P(m) => m = env.perBet
  BY <1>2
<1> HIDE DEF P
<1> QED
  BY <1>3, <1>4

\* The invariant gives the types, and that accepted settings are safe.
LEMMA SettingsPromise == SettingsInv => CompositionTypeOK /\ AcceptedSettingsAreSafe
<1> SUFFICES ASSUME SettingsInv PROVE CompositionTypeOK /\ AcceptedSettingsAreSafe
  OBVIOUS
<1>1. CASE app = {}
  <2>1. app = {} /\ lastPick = {} /\ Cardinality({}) = 0
    BY <1>1, FS_EmptySet DEF SettingsInv
  <2> QED
    BY <2>1 DEF CompositionTypeOK, AcceptedSettingsAreSafe
<1>2. CASE app # {}
  <2> DEFINE wired == [sports |-> PolledSports(env), experimental |-> Experimental(env),
                       visibilityOnly |-> VisibilityOnly(env), jobs |-> WiredJobs(env), door |-> Door(env)]
  <2>1. Accepts(env) /\ app = {wired} /\ env \in Environments
    BY <1>2 DEF SettingsInv
  <2>2. /\ wired.door = Door(env) /\ wired.sports = PolledSports(env)
        /\ wired.visibilityOnly = VisibilityOnly(env)
    OBVIOUS
  <2> HIDE DEF wired
  <2>3. Cardinality(app) = 1
    BY <2>1, FS_Singleton, Zenon
  <2>4. Cardinality(lastPick) \in {0, 1}
    <3>1. lastPick = {} \/ \E x : lastPick = {x}
      BY Zenon DEF SettingsInv
    <3> QED
      BY <3>1, FS_EmptySet, FS_Singleton, Zenon
  <2>5. VisibilityOnly(env) \subseteq PolledSports(env) /\ Door(env) \in {"open", "claimable", "closed"}
    BY DEF VisibilityOnly, Door
  <2>6. ASSUME env.public PROVE Door(env) = "closed"
    BY <2>1, <2>6, CompositionAssumption DEF Accepts, DoorIsSafe, Door
  <2>7. \A bet \in lastPick : bet.alerted => bet.granted = env.perBet
    <3>1. Granted(env.perBet) = env.perBet
      BY <2>1, FullStakeFits DEF Accepts
    <3> SUFFICES ASSUME NEW bet \in lastPick, bet.alerted PROVE bet.granted = env.perBet
      OBVIOUS
    <3>2. PICK sport, alerted :
            lastPick = {[sport |-> sport, alerted |-> alerted, granted |-> IF alerted THEN Granted(env.perBet) ELSE 0]}
      BY DEF SettingsInv
    <3> QED
      BY <3>1, <3>2
  <2> QED
    BY <2>1, <2>2, <2>3, <2>4, <2>5, <2>6, <2>7 DEF CompositionTypeOK, AcceptedSettingsAreSafe
<1> QED
  BY <1>1, <1>2

-----------------------------------------------------------------------------
(* The value filter (ValueFilter)                                          *)

AtMostOne(S) == S = {} \/ \E x : S = {x}

\* Every file and every process holds at most one artefact, of a run that was; an enforced
\* filter's manifest records a holdout that passed, and so does the filter of a demotion.
FilterInv ==
  /\ trained \in 0 .. MaxRuns
  /\ AtMostOne(training) /\ AtMostOne(loaded)
  /\ DOMAIN modelFile = Versions /\ DOMAIN manifestFile = Versions
  /\ \A v \in Versions : AtMostOne(modelFile[v]) /\ AtMostOne(manifestFile[v])
  /\ \A v \in Versions : \A m \in modelFile[v] : m.run \in 1 .. trained
  /\ \A v \in Versions : \A m \in manifestFile[v] : m.run \in 1 .. trained /\ m.q \in 0 .. 2
  /\ \A t \in training : t.version \in Versions /\ t.manifest.run \in 1 .. trained /\ t.manifest.q \in 0 .. 2
  /\ \A f \in loaded : f.booster \in 1 .. trained /\ (~ f.shadow => ConfirmedByHoldout(f.manifest))
  /\ \A d \in demoted : d.filter.booster \in 1 .. trained /\ ConfirmedByHoldout(d.filter.manifest)

\* Before any training there is neither model nor manifest.
LEMMA FilterStart == FilterInit => FilterInv
BY FilterAssumption DEF FilterInit, FilterInv, AtMostOne

\* The operating point is one of the two of the sweep, or none.
LEMMA OperatingPoint ==
  ASSUME NEW sweep \in [{1, 2} -> Points]
  PROVE  ChooseOperatingPoint(sweep) \in 0 .. 2
<1> DEFINE ok == {q \in DOMAIN sweep : sweep[q].n >= MinTrainBets /\ sweep[q].strict}
           P(q) == /\ q \in ok
                   /\ \A r \in ok :
                        \/ sweep[q].roi > sweep[r].roi
                        \/ sweep[q].roi = sweep[r].roi /\ q <= r
<1>1. ChooseOperatingPoint(sweep) = IF ok = {} THEN 0 ELSE CHOOSE q : P(q)
  BY DEF ChooseOperatingPoint
<1>2. ok \subseteq {1, 2} /\ sweep[1].roi \in 0 .. 1 /\ sweep[2].roi \in 0 .. 1
  BY DEF Points
<1> HIDE DEF ok
<1>3. ASSUME ok # {} PROVE \E q : P(q)
  <2>1. \/ ok = {1} \/ ok = {2} \/ ok = {1, 2}
    BY <1>2, <1>3
  <2>2. CASE ok = {1}
    BY <1>2, <2>2
  <2>3. CASE ok = {2}
    BY <1>2, <2>3
  <2>4. CASE ok = {1, 2} /\ sweep[2].roi > sweep[1].roi
    <3>1. P(2)
      <4>1. ASSUME NEW r \in ok PROVE sweep[2].roi > sweep[r].roi \/ (sweep[2].roi = sweep[r].roi /\ 2 <= r)
        <5>1. r = 1 \/ r = 2
          BY <2>4
        <5> QED
          BY <2>4, <5>1
      <4> QED
        BY <2>4, <4>1
    <3> QED
      BY <3>1
  <2>5. CASE ok = {1, 2} /\ ~(sweep[2].roi > sweep[1].roi)
    <3>1. P(1)
      BY <1>2, <2>5
    <3> QED
      BY <3>1
  <2> QED
    BY <2>1, <2>2, <2>3, <2>4, <2>5
<1>4. ASSUME NEW q, P(q) PROVE q \in 0 .. 2
  BY <1>2, <1>4
<1> HIDE DEF P
<1>5. CASE ok = {}
  BY <1>1, <1>5
<1>6. CASE ok # {}
  BY <1>1, <1>3, <1>4, <1>6
<1> QED
  BY <1>5, <1>6

\* Every manifest counts as one of a run that was; the next run makes room for its own.
LEMMA RunsGoOn ==
  ASSUME FilterInv, trained' = trained + 1, trained < MaxRuns,
         NEW version \in Versions, NEW artifact, artifact.run = trained + 1,
         modelFile' = modelFile \/ modelFile' = [modelFile EXCEPT ![version] = {artifact}],
         NEW t, training' = {t}, t.version \in Versions, t.manifest.run = trained + 1, t.manifest.q \in 0 .. 2,
         UNCHANGED <<manifestFile, loaded, demoted>>
  PROVE  FilterInv'
<1>1. trained \in Nat /\ trained' \in 0 .. MaxRuns /\ trained + 1 \in 1 .. trained'
  BY FilterAssumption DEF FilterInv
<1>2. \A n \in 1 .. trained : n \in 1 .. trained'
  BY <1>1
<1>3. AtMostOne(training') /\ AtMostOne(loaded')
  BY DEF FilterInv, AtMostOne
<1>4. /\ DOMAIN modelFile' = Versions
      /\ \A v \in Versions : AtMostOne(modelFile'[v]) /\ \A m \in modelFile'[v] : m.run \in 1 .. trained'
  <2>1. CASE modelFile' = modelFile
    BY <1>2, <2>1, Zenon DEF FilterInv
  <2>2. CASE modelFile' = [modelFile EXCEPT ![version] = {artifact}]
    <3>1. DOMAIN modelFile' = Versions
      BY <2>2 DEF FilterInv
    <3>2. ASSUME NEW v \in Versions
          PROVE  AtMostOne(modelFile'[v]) /\ \A m \in modelFile'[v] : m.run \in 1 .. trained'
      <4>1. CASE v = version
        <5>1. modelFile'[v] = {artifact}
          BY <2>2, <4>1 DEF FilterInv
        <5> QED
          BY <1>1, <5>1 DEF AtMostOne
      <4>2. CASE v # version
        <5>1. modelFile'[v] = modelFile[v]
          BY <2>2, <4>2 DEF FilterInv
        <5> QED
          BY <1>2, <5>1, Zenon DEF FilterInv
      <4> QED
        BY <4>1, <4>2
    <3> QED
      BY <3>1, <3>2
  <2> QED
    BY <2>1, <2>2
<1>5. /\ \A v \in Versions : AtMostOne(manifestFile'[v])
      /\ \A v \in Versions : \A m \in manifestFile'[v] : m.run \in 1 .. trained' /\ m.q \in 0 .. 2
      /\ DOMAIN manifestFile' = Versions
  BY <1>2, Zenon DEF FilterInv
<1>6. \A u \in training' : u.version \in Versions /\ u.manifest.run \in 1 .. trained' /\ u.manifest.q \in 0 .. 2
  BY <1>1
<1>7. /\ \A f \in loaded' : f.booster \in 1 .. trained' /\ (~ f.shadow => ConfirmedByHoldout(f.manifest))
      /\ \A d \in demoted' : d.filter.booster \in 1 .. trained' /\ ConfirmedByHoldout(d.filter.manifest)
  BY <1>2, Zenon DEF FilterInv
<1> QED
  BY <1>1, <1>3, <1>4, <1>5, <1>6, <1>7, Zenon DEF FilterInv, ConfirmedByHoldout

\* A process holds a filter of the files it found, an enforced one with a passed holdout.
LEMMA LoadedFilters ==
  ASSUME NEW artifact, NEW manifest, NEW f \in Load(artifact, manifest)
  PROVE  f.booster = artifact.run /\ f.manifest = manifest /\ (~ f.shadow => ConfirmedByHoldout(manifest))
<1> DEFINE adopted == manifest.verdict = "ADOPT" /\ ConfirmedByHoldout(manifest)
<1>1. f = [booster |-> artifact.run, manifest |-> manifest, shadow |-> ~ adopted]
  BY Zenon DEF Load
<1>2. f.booster = artifact.run /\ f.manifest = manifest /\ f.shadow = ~ adopted
  BY <1>1
<1> QED
  BY <1>2, Zenon

\* A manifest of a run that was takes the place of the one before.
LEMMA ManifestPut ==
  ASSUME FilterInv, NEW v \in Versions, NEW m, m.run \in 1 .. trained, m.q \in 0 .. 2,
         manifestFile' = [manifestFile EXCEPT ![v] = {m}]
  PROVE  /\ DOMAIN manifestFile' = Versions
         /\ \A w \in Versions : /\ AtMostOne(manifestFile'[w])
                                /\ \A x \in manifestFile'[w] : x.run \in 1 .. trained /\ x.q \in 0 .. 2
<1>1. DOMAIN manifestFile' = Versions
  BY DEF FilterInv
<1>2. ASSUME NEW w \in Versions
      PROVE  AtMostOne(manifestFile'[w]) /\ \A x \in manifestFile'[w] : x.run \in 1 .. trained /\ x.q \in 0 .. 2
  <2>1. CASE w = v
    <3>1. manifestFile'[w] = {m}
      BY <2>1 DEF FilterInv
    <3> QED
      BY <3>1 DEF AtMostOne
  <2>2. CASE w # v
    <3>1. manifestFile'[w] = manifestFile[w]
      BY <2>2 DEF FilterInv
    <3> QED
      BY <3>1, Zenon DEF FilterInv
  <2> QED
    BY <2>1, <2>2
<1> QED
  BY <1>1, <1>2

\* Every training, crash between its two files, load and score keeps the invariant of the filter.
LEMMA FilterKeepsInv == ASSUME FilterInv, [FilterNext]_filterVars PROVE FilterInv'
<1>v. LoadsVersion \in Versions /\ "v1" \in Versions /\ "v2" \in Versions
  BY FilterAssumption DEF Versions
<1>1. CASE TrainerSavesModel
  <2>1. PICK sweep, kind, t :
          /\ sweep \in [{1, 2} -> Points] /\ kind \in {"lgbm", "logreg"}
          /\ trained < MaxRuns /\ trained' = trained + 1
          /\ modelFile' = [modelFile EXCEPT !["v1"] = {[run |-> trained + 1, kind |-> kind]}]
          /\ training' = {t} /\ t.version = "v1" /\ t.manifest.run = trained + 1
          /\ t.manifest.q = ChooseOperatingPoint(sweep)
          /\ UNCHANGED <<manifestFile, loaded, demoted>>
    <3>1. PICK sweep \in [{1, 2} -> Points], kind \in {"lgbm", "logreg"}, final \in BOOLEAN :
            LET q   == ChooseOperatingPoint(sweep)
                run == trained + 1
            IN  /\ modelFile' = [modelFile EXCEPT !["v1"] = {[run |-> run, kind |-> kind]}]
                /\ IF final /\ q # 0
                   THEN \E holdout \in Holdouts :
                          training' = {[version |-> "v1", manifest |->
                            Manifest(run, kind, q, {holdout},
                                     IF Failed(holdout) = {} THEN "ADOPT" ELSE "REJECT")]}
                   ELSE training' = {[version |-> "v1", manifest |->
                          Manifest(run, kind, q, {}, IF final THEN "REJECT" ELSE "none")]}
      BY <1>1, Zenon DEF TrainerSavesModel
    <3>2. \A q, holdouts, verdict :
            LET t == [version |-> "v1", manifest |-> Manifest(trained + 1, kind, q, holdouts, verdict)]
            IN  t.version = "v1" /\ t.manifest.run = trained + 1 /\ t.manifest.q = q
      BY DEF Manifest
    <3> DEFINE q == ChooseOperatingPoint(sweep)
    <3>4. \E holdouts, verdict :
            training' = {[version |-> "v1", manifest |-> Manifest(trained + 1, kind, q, holdouts, verdict)]}
      <4>1. CASE final /\ q # 0
        <5>1. PICK holdout \in Holdouts :
                training' = {[version |-> "v1", manifest |->
                  Manifest(trained + 1, kind, q, {holdout}, IF Failed(holdout) = {} THEN "ADOPT" ELSE "REJECT")]}
          BY <3>1, <4>1, Zenon
        <5> QED
          BY <5>1, Zenon
      <4>2. CASE ~(final /\ q # 0)
        BY <3>1, <4>2, Zenon
      <4> QED
        BY <4>1, <4>2
    <3>3. \E t : training' = {t} /\ t.version = "v1" /\ t.manifest.run = trained + 1 /\ t.manifest.q = q
      <4> HIDE DEF q
      <4>1. PICK holdouts, verdict :
              training' = {[version |-> "v1", manifest |-> Manifest(trained + 1, kind, q, holdouts, verdict)]}
        BY <3>4
      <4> DEFINE t == [version |-> "v1", manifest |-> Manifest(trained + 1, kind, q, holdouts, verdict)]
      <4>2. t.version = "v1" /\ t.manifest.run = trained + 1 /\ t.manifest.q = q /\ training' = {t}
        BY <4>1, <3>2
      <4> QED
        BY <4>2
    <3> QED
      BY <1>1, <3>1, <3>3, Zenon DEF TrainerSavesModel
  <2> DEFINE artifact == [run |-> trained + 1, kind |-> kind]
  <2>2. artifact.run = trained + 1 /\ modelFile' = [modelFile EXCEPT !["v1"] = {artifact}]
    BY <2>1
  <2>3. t.manifest.q \in 0 .. 2 /\ t.version \in Versions
    BY <1>v, <2>1, OperatingPoint
  <2> HIDE DEF artifact
  <2> QED
    BY <1>v, <2>1, <2>2, <2>3, RunsGoOn, Zenon
<1>2. CASE SecondTrainerSavesModel
  <2>1. PICK sweep, kind :
          /\ sweep \in [{1, 2} -> Points]
          /\ trained < MaxRuns /\ trained' = trained + 1
          /\ modelFile' = IF kind = "lgbm"
                          THEN [modelFile EXCEPT !["v2"] = {[run |-> trained + 1, kind |-> kind]}]
                          ELSE modelFile
          /\ training' = {[version |-> "v2", manifest |->
               Manifest(trained + 1, kind, ChooseOperatingPoint(sweep), {}, "CANDIDATE")]}
          /\ UNCHANGED <<manifestFile, loaded, demoted>>
    BY <1>2, Zenon DEF SecondTrainerSavesModel
  <2> DEFINE artifact == [run |-> trained + 1, kind |-> kind]
             t == [version |-> "v2", manifest |->
                     Manifest(trained + 1, kind, ChooseOperatingPoint(sweep), {}, "CANDIDATE")]
  <2>2. artifact.run = trained + 1
    OBVIOUS
  <2>3. t.manifest.q \in 0 .. 2 /\ t.version \in Versions /\ t.manifest.run = trained + 1
    BY <1>v, <2>1, OperatingPoint DEF Manifest
  <2>4. /\ modelFile' = modelFile \/ modelFile' = [modelFile EXCEPT !["v2"] = {artifact}]
        /\ training' = {t}
    BY <2>1, Zenon
  <2> HIDE DEF artifact, t
  <2> QED
    BY <1>v, <2>1, <2>2, <2>3, <2>4, RunsGoOn, Zenon
<1>3. CASE TrainerWritesManifest
  <2>1. PICK t \in training : manifestFile' = [manifestFile EXCEPT ![t.version] = {t.manifest}]
    BY <1>3 DEF TrainerWritesManifest
  <2>2. training' = {} /\ UNCHANGED <<modelFile, trained, loaded, demoted>>
    BY <1>3 DEF TrainerWritesManifest
  <2>3. t.version \in Versions /\ t.manifest.run \in 1 .. trained /\ t.manifest.q \in 0 .. 2
    BY <2>1 DEF FilterInv
  <2> DEFINE version == t.version
             manifest == t.manifest
  <2>4. manifestFile' = [manifestFile EXCEPT ![version] = {manifest}]
    BY <2>1
  <2>5. version \in Versions /\ manifest.run \in 1 .. trained /\ manifest.q \in 0 .. 2
    BY <2>3
  <2> HIDE DEF version, manifest
  <2>6. /\ DOMAIN manifestFile' = Versions
        /\ \A v \in Versions : /\ AtMostOne(manifestFile'[v])
                               /\ \A m \in manifestFile'[v] : m.run \in 1 .. trained /\ m.q \in 0 .. 2
    BY <2>4, <2>5, ManifestPut
  <2>7. AtMostOne(training') /\ \A u \in training' : FALSE
    BY <2>2 DEF AtMostOne
  <2> QED
    BY <2>2, <2>6, <2>7, Zenon DEF FilterInv, ConfirmedByHoldout
<1>4. CASE TrainerDies
  BY <1>4, Zenon DEF TrainerDies, FilterInv, AtMostOne, ConfirmedByHoldout
<1>5. CASE VerdictEdited
  <2>v. PICK v \in Versions : \E manifest \in manifestFile[v] :
          manifestFile' = [manifestFile EXCEPT ![v] = {[manifest EXCEPT !.verdict = "ADOPT"]}]
    BY <1>5 DEF VerdictEdited
  <2>1. PICK manifest \in manifestFile[v] :
          manifestFile' = [manifestFile EXCEPT ![v] = {[manifest EXCEPT !.verdict = "ADOPT"]}]
    BY <2>v
  <2>2. UNCHANGED <<modelFile, training, trained, loaded, demoted>>
    BY <1>5 DEF VerdictEdited
  <2> DEFINE edited == [manifest EXCEPT !.verdict = "ADOPT"]
  <2>3. manifest.run \in 1 .. trained /\ manifest.q \in 0 .. 2
    BY <2>1 DEF FilterInv
  <2>4. edited.run = manifest.run /\ edited.q = manifest.q
    OBVIOUS
  <2>5. manifestFile' = [manifestFile EXCEPT ![v] = {edited}]
    BY <2>1
  <2> HIDE DEF edited
  <2>6. /\ DOMAIN manifestFile' = Versions
        /\ \A w \in Versions : /\ AtMostOne(manifestFile'[w])
                               /\ \A m \in manifestFile'[w] : m.run \in 1 .. trained /\ m.q \in 0 .. 2
    BY <2>3, <2>4, <2>5, ManifestPut
  <2> QED
    BY <2>2, <2>6, Zenon DEF FilterInv, ConfirmedByHoldout
<1>6. CASE ProcessStarts
  <2>1. /\ loaded' = UNION {Load(artifact, manifest) : artifact \in modelFile[LoadsVersion],
                                                        manifest \in manifestFile[LoadsVersion]}
        /\ demoted' = {} /\ UNCHANGED <<modelFile, manifestFile, training, trained>>
    BY <1>6 DEF ProcessStarts
  <2>2. ASSUME NEW f \in loaded'
        PROVE  f.booster \in 1 .. trained /\ (~ f.shadow => ConfirmedByHoldout(f.manifest))
    <3>1. PICK artifact \in modelFile[LoadsVersion], manifest \in manifestFile[LoadsVersion] :
            f \in Load(artifact, manifest)
      BY <2>1, <2>2
    <3>2. f.booster = artifact.run /\ f.manifest = manifest /\ (~ f.shadow => ConfirmedByHoldout(manifest))
      BY <3>1, LoadedFilters
    <3>3. artifact.run \in 1 .. trained
      BY <1>v, <3>1 DEF FilterInv
    <3> QED
      BY <3>2, <3>3
  <2>3. AtMostOne(loaded')
    <3>1. AtMostOne(modelFile[LoadsVersion]) /\ AtMostOne(manifestFile[LoadsVersion])
      BY <1>v DEF FilterInv
    <3>2. CASE modelFile[LoadsVersion] = {} \/ manifestFile[LoadsVersion] = {}
      <4>1. loaded' = {}
        BY <2>1, <3>2
      <4> QED
        BY <4>1 DEF AtMostOne
    <3>3. ASSUME NEW a, NEW m, modelFile[LoadsVersion] = {a}, manifestFile[LoadsVersion] = {m}
          PROVE  AtMostOne(loaded')
      <4>1. loaded' = Load(a, m)
        BY <2>1, <3>3
      <4> QED
        BY <4>1 DEF Load, AtMostOne
    <3> QED
      BY <3>1, <3>2, <3>3 DEF AtMostOne
  <2>4. \A f \in loaded' : f.booster \in 1 .. trained /\ (~ f.shadow => ConfirmedByHoldout(f.manifest))
    BY <2>2
  <2> QED
    BY <2>1, <2>3, <2>4, Zenon DEF FilterInv, ConfirmedByHoldout
<1>7. CASE CandidateDemoted
  <2>1. PICK f \in loaded, candidate \in LiveCandidates :
          ~ f.shadow /\ demoted' = {[filter |-> f, market |-> candidate.market]}
    BY <1>7 DEF CandidateDemoted, Enforced
  <2>2. f.booster \in 1 .. trained /\ ConfirmedByHoldout(f.manifest)
    BY <2>1 DEF FilterInv
  <2>3. \A d \in demoted' : d.filter = f
    BY <2>1
  <2>4. UNCHANGED <<modelFile, manifestFile, training, trained, loaded>>
    BY <1>7 DEF CandidateDemoted
  <2> QED
    BY <2>2, <2>3, <2>4, Zenon DEF FilterInv, ConfirmedByHoldout
<1>8. CASE UNCHANGED filterVars
  BY <1>8, Zenon DEF FilterInv, filterVars, ConfirmedByHoldout
<1> QED
  BY <1>1, <1>2, <1>3, <1>4, <1>5, <1>6, <1>7, <1>8 DEF FilterNext

\* The invariant gives the types, and that only a confirmed model demotes.
LEMMA FilterPromise == FilterInv => FilterTypeOK /\ OnlyConfirmedDemotes
<1> SUFFICES ASSUME FilterInv PROVE FilterTypeOK /\ OnlyConfirmedDemotes
  OBVIOUS
<1>1. \A S : AtMostOne(S) => Cardinality(S) <= 1
  <2> SUFFICES ASSUME NEW S, AtMostOne(S) PROVE Cardinality(S) <= 1
    OBVIOUS
  <2>1. Cardinality(S) = 0 \/ Cardinality(S) = 1
    BY FS_EmptySet, FS_Singleton, Zenon DEF AtMostOne
  <2> QED
    BY <2>1
<1>2. Cardinality(training) <= 1 /\ Cardinality(loaded) <= 1
  BY <1>1, Zenon DEF FilterInv
<1> QED
  BY <1>2 DEF FilterInv, FilterTypeOK, OnlyConfirmedDemotes, ConfirmedByHoldout

-----------------------------------------------------------------------------
(* The settled picks (Figures)                                             *)

EvidenceInv == settled \in Seq(Rows) /\ Len(settled) <= MaxSettled

\* No pick has settled yet.
LEMMA EvidenceStarts == EvidenceInit => EvidenceInv
BY EvidenceAssumption DEF EvidenceInit, EvidenceInv

\* A pick that settles brings one of the rows.
LEMMA EvidenceKeepsInv == ASSUME EvidenceInv, [EvidenceNext]_evidenceVars PROVE EvidenceInv'
<1>1. CASE PickSettles
  <2>1. PICK r \in Rows : settled' = Append(settled, r) /\ Len(settled) < MaxSettled
    BY <1>1 DEF PickSettles
  <2> HIDE DEF Rows
  <2> QED
    BY <2>1, EvidenceAssumption DEF EvidenceInv
<1>2. CASE UNCHANGED evidenceVars
  BY <1>2 DEF EvidenceInv, evidenceVars
<1> QED
  BY <1>1, <1>2 DEF EvidenceNext

\* A row whose close has a CLV, is not faulty and is known to be independent is of a price that
\* another book quoted later.
LEMMA TrustedRowsStand ==
  ASSUME NEW r \in Rows, r.close.clv # {}, ~Fabricated(r), ~Tautological(r), Independent(r)
  PROVE  r.close.why = "independent"
<1>1. r.odds = 25 /\ r.fair = 45 /\ r.close \in Closes
  BY DEF Rows
<1>2. r.close # NoClose
  BY DEF NoClose
<1>3. PICK why \in {"independent", "ownBook", "ownLine", "otherSide"} :
        \E source \in CloseSources, columns \in Columns(why) : r.close = CloseOf(why, source, columns)
  <2> HIDE DEF CloseSources, Columns, CloseOf, NoClose
  <2> QED
    BY <1>1, <1>2 DEF Closes
<1>a. PICK source \in CloseSources, columns \in Columns(why) : r.close = CloseOf(why, source, columns)
  BY <1>3
<1>b. /\ r.close.why = why /\ r.close.independent = columns.independent
      /\ r.close.fair = {IF why = "ownLine" THEN 45 ELSE IF why = "otherSide" THEN 80 ELSE 47}
  BY <1>a DEF CloseOf
<1>c. columns.independent = {} \/ \E i \in Flags(why) : columns.independent = {i}
  <2> HIDE DEF Flags
  <2>1. columns.independent \in {{}} \cup {{i} : i \in Flags(why)}
    BY <1>a, Zenon DEF Columns
  <2> QED
    BY <2>1, Zenon
<1>4. CASE why = "ownBook"
  <2>1. Flags(why) = {FALSE}
    BY <1>4 DEF Flags
  <2>2. r.close.independent = {} \/ r.close.independent = {FALSE}
    BY <1>b, <1>c, <2>1, Zenon
  <2> QED
    BY <2>2, Zenon DEF Independent
<1>5. CASE why = "ownLine"
  <2>1. r.close.fair = {45}
    BY <1>b, <1>5
  <2> QED
    BY <1>1, <2>1 DEF Tautological
<1>6. CASE why = "otherSide"
  <2>1. r.close.fair = {80}
    BY <1>b, <1>6
  <2>2. 80 * r.odds - 1000 > ImplausibleEdge * r.odds
    BY <1>1 DEF ImplausibleEdge
  <2> QED
    BY <2>1, <2>2 DEF Fabricated
<1> QED
  BY <1>3, <1>4, <1>5, <1>6, <1>b, Zenon

\* The sharp figure of any rows, and what it takes to be shown.
LEMMA SharpFigure ==
  ASSUME EvidenceInv, NEW rows \in SUBSET DOMAIN settled
  PROVE  LET figures == Headline(rows)
         IN  /\ \A i \in figures.sharp.of : settled[i].close.why = "independent"
             /\ figures.sharp.shown => Cardinality(figures.sharp.of) >= MinSample
<1>1. /\ Headline(rows).sharp.of = Trusted(rows)
      /\ Headline(rows).sharp.shown = (Cardinality(Trusted(rows)) >= MinSample)
  BY Zenon DEF Headline, Figure
<1>2. ASSUME NEW i \in Trusted(rows) PROVE settled[i].close.why = "independent"
  <2>1. i \in DOMAIN settled /\ settled[i] \in Rows
    BY DEF Trusted, Blended, EvidenceInv
  <2>2. /\ settled[i].close.clv # {} /\ ~Fabricated(settled[i]) /\ ~Tautological(settled[i])
        /\ Independent(settled[i])
    BY DEF Trusted, Blended
  <2> QED
    BY <2>1, <2>2, TrustedRowsStand
<1> QED
  BY <1>1, <1>2, Zenon

\* The invariant gives the types, and that sharp figures rest on independent closes.
LEMMA EvidencePromise == EvidenceInv => EvidenceTypeOK /\ SharpIsEvidence
<1> SUFFICES ASSUME EvidenceInv PROVE EvidenceTypeOK /\ SharpIsEvidence
  OBVIOUS
<1>1. EvidenceTypeOK
  <2>1. \A r \in Rows : r.close \in Closes
    BY DEF Rows
  <2> QED
    BY <2>1 DEF EvidenceInv, EvidenceTypeOK
<1>2. SharpIsEvidence
  <2>1. /\ Of("premium") \in SUBSET DOMAIN settled /\ Of("volume") \in SUBSET DOMAIN settled
        /\ DOMAIN settled \in SUBSET DOMAIN settled
    BY DEF Of
  <2>2. /\ Performance.headline = Headline(Of("premium")) /\ Performance.volume = Headline(Of("volume"))
        /\ Performance.sport = Headline(DOMAIN settled)
    BY Zenon DEF Performance
  <2> QED
    BY <2>1, <2>2, SharpFigure, Zenon DEF SharpIsEvidence
<1> QED
  BY <1>1, <1>2

-----------------------------------------------------------------------------
(* The live card (Figures)                                                 *)

PickShape ==
  [tier : DOMAIN MinEdgeOf, fair : Fairs, implied : Implied, edge : Int, closeFair : SUBSET Fairs,
   price : SUBSET Implied, book : SUBSET PriceBooks, currentEdge : SUBSET Int,
   anchor : {"pinnacle", "sharp", "consensus"}, score : {"none", "weak", "strong"}]

\* The pick has no price yet, and perhaps a newer fair.
PriceUnknown(p) ==
  /\ p.price = {} /\ p.book = {} /\ p.currentEdge = {}
  /\ p.closeFair = {} \/ \E f \in Fairs : p.closeFair = {f}

\* The pick has a price, and its current edge is the last fair against it.
PriceKnown(p) ==
  \E f \in Fairs, i \in Implied :
    p.closeFair = {f} /\ p.price = {i} /\ p.book # {} /\ p.currentEdge = {f - i}

LivePriceInv == pick \in PickShape /\ (PriceUnknown(pick) \/ PriceKnown(pick))

\* A pick is minted without a current price.
LEMMA LivePriceStarts == LivePriceInit => LivePriceInv
<1> SUFFICES ASSUME LivePriceInit PROVE LivePriceInv
  OBVIOUS
<1>1. pick \in [tier : DOMAIN MinEdgeOf, fair : Fairs, implied : Implied, edge : {f - i : f \in Fairs, i \in Implied},
                closeFair : {{}}, price : {{}}, book : {{}}, currentEdge : {{}},
                anchor : {"pinnacle", "sharp", "consensus"}, score : {"none", "weak", "strong"}]
  BY DEF LivePriceInit, MintedPicks
<1>2. {f - i : f \in Fairs, i \in Implied} \subseteq Int
  BY LivePriceAssumption
<1>3. pick.closeFair = {} /\ pick.price = {} /\ pick.book = {} /\ pick.currentEdge = {}
  BY <1>1
<1>4. pick \in PickShape
  <2> DEFINE edges == {f - i : f \in Fairs, i \in Implied}
  <2>1. edges \subseteq Int
    BY <1>2
  <2>2. pick \in [tier : DOMAIN MinEdgeOf, fair : Fairs, implied : Implied, edge : edges,
                  closeFair : {{}}, price : {{}}, book : {{}}, currentEdge : {{}},
                  anchor : {"pinnacle", "sharp", "consensus"}, score : {"none", "weak", "strong"}]
    BY <1>1
  <2> HIDE DEF edges
  <2> QED
    BY <2>1, <2>2 DEF PickShape
<1> QED
  BY <1>3, <1>4 DEF LivePriceInv, PriceUnknown

\* A new fair against the last price known leaves the columns of a pick in step.
LEMMA FairMoves ==
  ASSUME LivePriceInv, NEW fair \in Fairs,
         pick' = [pick EXCEPT !.closeFair = {fair}, !.currentEdge = ConsistentCurrentEdge(fair)]
  PROVE  LivePriceInv'
<1> DEFINE edges == ConsistentCurrentEdge(fair)
<1>1. edges \subseteq Int
  BY LivePriceAssumption DEF ConsistentCurrentEdge, LivePriceInv, PickShape
<1>2. pick.price = {} => edges = {}
  BY DEF ConsistentCurrentEdge
<1>3. \A i : pick.price = {i} => edges = {fair - i}
  BY DEF ConsistentCurrentEdge
<1> DEFINE fairs == {fair}
<1>4. pick' = [pick EXCEPT !.closeFair = fairs, !.currentEdge = edges] /\ fairs \subseteq Fairs
  OBVIOUS
<1> HIDE DEF edges, fairs
<1>5. pick' \in PickShape /\ pick'.closeFair = fairs /\ pick'.currentEdge = edges
  BY <1>1, <1>4 DEF LivePriceInv, PickShape
<1>8. pick'.price = pick.price /\ pick'.book = pick.book
  BY <1>1, <1>4 DEF LivePriceInv, PickShape
<1>9. fairs = {fair}
  BY DEF fairs
<1>6. CASE PriceUnknown(pick)
  BY <1>2, <1>5, <1>6, <1>8, <1>9, Zenon DEF PriceUnknown, LivePriceInv
<1>7. CASE PriceKnown(pick)
  <2>1. PICK i \in Implied : pick.price = {i} /\ pick.book # {}
    BY <1>7 DEF PriceKnown
  <2>2. /\ pick'.closeFair = {fair} /\ pick'.price = {i} /\ pick'.book # {}
        /\ pick'.currentEdge = {fair - i}
    BY <1>3, <1>5, <1>8, <1>9, <2>1, Zenon
  <2> QED
    BY <1>5, <2>2, Zenon DEF PriceKnown, LivePriceInv
<1> QED
  BY <1>6, <1>7 DEF LivePriceInv

\* A price in the book's place, with the fair it was read beside.
LEMMA PriceMoves ==
  ASSUME LivePriceInv, NEW fair \in Fairs, NEW books \in Books, NEW book, book = Takeable(books), book # {},
         pick' = [pick EXCEPT !.closeFair = {fair}, !.book = book, !.price = {books[b] : b \in book},
                              !.currentEdge = {fair - books[b] : b \in book}]
  PROVE  LivePriceInv'
<1>1. PICK b \in DOMAIN books : book = {b} /\ b \in PriceBooks
  <2>1. \/ book = {"own"} /\ "own" \in DOMAIN books
        \/ book = {"soft"} /\ "soft" \in DOMAIN books
    BY DEF Takeable
  <2> QED
    BY <2>1 DEF PriceBooks
<1>2. books[b] \in Implied
  BY DEF Books
<1> DEFINE prices == {books[x] : x \in book}
           edges == {fair - books[x] : x \in book}
<1>3. prices = {books[b]} /\ edges = {fair - books[b]}
  BY <1>1
<1> DEFINE fairs == {fair}
<1>4. pick' = [pick EXCEPT !.closeFair = fairs, !.book = book, !.price = prices, !.currentEdge = edges]
  OBVIOUS
<1>5. fair - books[b] \in Int
  BY <1>2, LivePriceAssumption
<1>6. /\ prices \subseteq Implied /\ edges \subseteq Int /\ fairs \subseteq Fairs /\ book \subseteq PriceBooks
      /\ fairs = {fair}
  BY <1>1, <1>2, <1>3, <1>5
<1> HIDE DEF prices, edges, fairs
<1>7. pick' \in PickShape /\ pick'.closeFair = fairs /\ pick'.currentEdge = edges
  BY <1>4, <1>6 DEF LivePriceInv, PickShape
<1>8. pick'.price = prices /\ pick'.book = book
  BY <1>4, <1>6 DEF LivePriceInv, PickShape
<1> QED
  BY <1>2, <1>3, <1>6, <1>7, <1>8, Zenon DEF LivePriceInv, PriceKnown

\* Every re-pricing, close and kickoff keeps the columns of a pick in step.
LEMMA LivePriceKeepsInv == ASSUME LivePriceInv, [LivePriceNext]_livePriceVars PROVE LivePriceInv'
<1>1. CASE Reprice
  <2>1. PICK fair \in Fairs, books \in Books :
          LET book == Takeable(books)
          IN  pick' = IF book # {}
                      THEN [pick EXCEPT !.closeFair = {fair}, !.book = book, !.price = {books[b] : b \in book},
                                        !.currentEdge = {fair - books[b] : b \in book}]
                      ELSE [pick EXCEPT !.closeFair = {fair}, !.currentEdge = ConsistentCurrentEdge(fair)]
    BY <1>1, Zenon DEF Reprice
  <2> DEFINE book == Takeable(books)
  <2>2. CASE book = {}
    <3>1. pick' = [pick EXCEPT !.closeFair = {fair}, !.currentEdge = ConsistentCurrentEdge(fair)]
      BY <2>1, <2>2, Zenon
    <3> QED
      BY <3>1, FairMoves
  <2>3. CASE book # {}
    <3>1. pick' = [pick EXCEPT !.closeFair = {fair}, !.book = book, !.price = {books[b] : b \in book},
                               !.currentEdge = {fair - books[b] : b \in book}]
      BY <2>1, <2>3, Zenon
    <3>2. book = Takeable(books)
      OBVIOUS
    <3> HIDE DEF book
    <3> QED
      BY <2>3, <3>1, <3>2, PriceMoves, Zenon
  <2> QED
    BY <2>2, <2>3
<1>2. CASE Close
  <2>1. PICK fair \in Fairs :
          pick' = [pick EXCEPT !.closeFair = {fair}, !.currentEdge = ConsistentCurrentEdge(fair)]
    BY <1>2, Zenon DEF Close
  <2> QED
    BY <2>1, FairMoves
<1>3. CASE KickOff \/ UNCHANGED livePriceVars
  <2>1. pick' = pick
    BY <1>3 DEF KickOff, livePriceVars
  <2> QED
    BY <2>1, Zenon DEF LivePriceInv, PickShape, PriceUnknown, PriceKnown
<1> QED
  BY <1>1, <1>2, <1>3 DEF LivePriceNext

\* The rating stays on its scale.
LEMMA StarsOnScale == ASSUME LivePriceInv PROVE Stars \in 1 .. 5
<1> DEFINE byEdge   == IF ShownEdge >= 2 * EdgeFloor THEN 2 ELSE IF ShownEdge >= EdgeFloor THEN 1 ELSE 0
           byAnchor == [pinnacle |-> 2, sharp |-> 1, consensus |-> 0][pick.anchor]
           byScore  == [none |-> 0, weak |-> -1, strong |-> 1][pick.score]
           level    == byEdge + byAnchor + byScore + 1
<1>1. byEdge \in {0, 1, 2}
  OBVIOUS
<1>2. byAnchor \in {0, 1, 2}
  BY DEF LivePriceInv, PickShape
<1>3. byScore \in {-1, 0, 1}
  BY DEF LivePriceInv, PickShape
<1>4. Stars = IF level < 1 THEN 1 ELSE IF level > 5 THEN 5 ELSE level
  BY Zenon DEF Stars
<1> HIDE DEF byEdge, byAnchor, byScore
<1>5. level \in Int
  BY <1>1, <1>2, <1>3
<1> QED
  BY <1>4, <1>5

\* The invariant gives the types, and that the verdicts of a card agree.
LEMMA LivePricePromise == LivePriceInv => LivePriceTypeOK /\ VerdictsAgree
<1> SUFFICES ASSUME LivePriceInv PROVE LivePriceTypeOK /\ VerdictsAgree
  OBVIOUS
<1>c. /\ Card.price = pick.price /\ Card.currentEdge = pick.currentEdge /\ Card.edge = ShownEdge
      /\ Card.edgeFloor = EdgeFloor /\ Card.minAcceptable = MinAcceptable /\ Card.stars = Stars
  BY Zenon DEF Card
<1>1. LivePriceTypeOK
  <2>1. \A x : Cardinality({x}) = 1
    BY FS_Singleton, Zenon
  <2>2. Cardinality({}) = 0
    BY FS_EmptySet, Zenon
  <2>3. \A column \in {pick.closeFair, pick.price, pick.currentEdge} : column = {} \/ \E x : column = {x}
    BY Zenon DEF LivePriceInv, PriceUnknown, PriceKnown
  <2>4. \A column \in {pick.closeFair, pick.price, pick.currentEdge} : Cardinality(column) <= 1
    <3> TAKE column \in {pick.closeFair, pick.price, pick.currentEdge}
    <3>1. CASE column = {}
      BY <2>2, <3>1
    <3>2. ASSUME NEW x, column = {x} PROVE Cardinality(column) <= 1
      <4>1. Cardinality(column) = 1
        BY <2>1, <3>2, Zenon
      <4> QED
        BY <4>1
    <3> QED
      BY <2>3, <3>1, <3>2, Zenon
  <2>5. pick.price = {} <=> pick.book = {}
    BY DEF LivePriceInv, PriceUnknown, PriceKnown
  <2> QED
    BY <1>c, <2>4, <2>5, StarsOnScale DEF LivePriceTypeOK, LivePriceInv, PickShape
<1>2. VerdictsAgree
  <2> SUFFICES ASSUME NEW p \in Card.price
               PROVE  /\ Card.currentEdge = {FloorFair - p}
                      /\ Card.edge >= Card.edgeFloor <=> \E m \in Card.minAcceptable : p <= m
                      /\ ValueGone => ~\E m \in Card.minAcceptable : p <= m
    BY Zenon DEF VerdictsAgree
  <2>1. PICK f \in Fairs : pick.closeFair = {f} /\ p \in Implied /\ pick.currentEdge = {f - p}
    BY <1>c DEF LivePriceInv, PriceUnknown, PriceKnown
  <2>2. FloorFair = f
    BY <2>1 DEF FloorFair
  <2>3. ShownEdge = f - p
    BY <2>1 DEF ShownEdge
  <2>4. EdgeFloor \in Nat \ {0} /\ f \in Nat /\ p \in Nat \ {0}
    BY <2>1, LivePriceAssumption DEF EdgeFloor, LivePriceInv, PickShape
  <2>5. MinAcceptable = IF f - EdgeFloor <= 0 THEN {} ELSE {f - EdgeFloor}
    BY <2>2 DEF MinAcceptable
  <2>6. ValueGone => f - p <= 0
    BY <1>c, <2>1 DEF ValueGone
  <2>7. Card.edge >= Card.edgeFloor <=> \E m \in Card.minAcceptable : p <= m
    BY <1>c, <2>3, <2>4, <2>5
  <2>8. f - p <= 0 => ~\E m \in Card.minAcceptable : p <= m
    BY <1>c, <2>4, <2>5
  <2> QED
    BY <1>c, <2>1, <2>2, <2>6, <2>7, <2>8
<1> QED
  BY <1>1, <1>2

-----------------------------------------------------------------------------
(* Orders                                                                  *)

\* R orders S, and no two of it are alike.
Orders(R, S) ==
  /\ \A x \in S : <<x, x>> \notin R
  /\ \A x, y, z \in S : <<x, y>> \in R /\ <<y, z>> \in R => <<x, z>> \in R
  /\ \A x, y \in S : x # y => <<x, y>> \in R \/ <<y, x>> \in R

Before(R, S, x) == {y \in S : <<y, x>> \in R}

\* What stands before an element of an order: fewer than all, and fewer than before the next ones.
LEMMA PlacesAre ==
  ASSUME NEW S, IsFiniteSet(S), NEW R, Orders(R, S)
  PROVE  /\ \A x \in S : Cardinality(Before(R, S, x)) \in 0 .. Cardinality(S) - 1
         /\ \A x, y \in S : <<x, y>> \in R => Cardinality(Before(R, S, x)) < Cardinality(Before(R, S, y))
<1>1. Cardinality(S) \in Nat
  BY FS_CardinalityType
<1>2. ASSUME NEW x \in S
      PROVE  IsFiniteSet(Before(R, S, x)) /\ Cardinality(Before(R, S, x)) \in Nat
             /\ Cardinality(Before(R, S, x)) + 1 <= Cardinality(S)
  <2>1. Before(R, S, x) \in SUBSET (S \ {x})
    BY <1>2 DEF Orders, Before
  <2>2. IsFiniteSet(S \ {x}) /\ Cardinality(S \ {x}) = Cardinality(S) - 1
    BY FS_RemoveElement
  <2>3. IsFiniteSet(Before(R, S, x)) /\ Cardinality(Before(R, S, x)) <= Cardinality(S \ {x})
    BY <2>1, <2>2, FS_Subset
  <2> QED
    BY <1>1, <2>2, <2>3, FS_CardinalityType
<1>3. ASSUME NEW x \in S, NEW y \in S, <<x, y>> \in R
      PROVE  Cardinality(Before(R, S, x)) < Cardinality(Before(R, S, y))
  <2>1. Before(R, S, x) \in SUBSET Before(R, S, y) /\ x \in Before(R, S, y) /\ x \notin Before(R, S, x)
    BY <1>3 DEF Orders, Before
  <2>2. Cardinality(Before(R, S, x)) <= Cardinality(Before(R, S, y)) /\ Cardinality(Before(R, S, x)) # Cardinality(Before(R, S, y))
    BY <1>2, <2>1, FS_Subset
  <2> QED
    BY <1>2, <2>2
<1> QED
  BY <1>1, <1>2, <1>3

\* In an order every place is somebody's.
LEMMA EveryPlaceIsTaken ==
  ASSUME NEW S, IsFiniteSet(S), NEW R, Orders(R, S), NEW n \in 1 .. Cardinality(S)
  PROVE  \E x \in S : Cardinality(Before(R, S, x)) = n - 1
<1> DEFINE place == [x \in S |-> Cardinality(Before(R, S, x)) + 1]
           Places == 1 .. Cardinality(S)
<1>1. Cardinality(S) \in Nat /\ IsFiniteSet(Places) /\ Cardinality(Places) = Cardinality(S)
  BY FS_CardinalityType, FS_Interval
<1>2. \A x \in S : Cardinality(Before(R, S, x)) \in 0 .. Cardinality(S) - 1
  BY PlacesAre
<1>3. \A x, y \in S : <<x, y>> \in R => Cardinality(Before(R, S, x)) < Cardinality(Before(R, S, y))
  BY PlacesAre
<1>4. place \in Injection(S, Places)
  <2>1. \A x \in S : place[x] \in Places
    BY <1>1, <1>2
  <2>2. ASSUME NEW x \in S, NEW y \in S, place[x] = place[y], x # y PROVE FALSE
    <3>1. Cardinality(Before(R, S, x)) = Cardinality(Before(R, S, y))
      BY <1>2, <2>2
    <3>2. <<x, y>> \in R \/ <<y, x>> \in R
      BY <2>2 DEF Orders
    <3> QED
      BY <1>2, <1>3, <3>1, <3>2
  <2> QED
    BY <2>1, <2>2 DEF Injection, IsInjective
<1> HIDE DEF place, Places
<1>5. place \in Surjection(S, Places)
  BY <1>1, <1>4, FS_Injection
<1>6. PICK x \in S : place[x] = n
  BY <1>5 DEF Surjection, Places
<1> QED
  BY <1>2, <1>6 DEF place

-----------------------------------------------------------------------------
(* The backtests (Backtests)                                               *)

\* Where line i comes in the order of the rows.
Place(i) == Cardinality(Ahead(i)) + 1

\* The matches of the first n rows.
FirstRows(n) == {i \in DOMAIN file : Place(i) <= n}

\* A rolling lookup holds matches of its team that were read.
Rolls(state, n) ==
  /\ DOMAIN state = Teams
  /\ \A x \in Teams : \A h \in state[x] :
       \E i \in FirstRows(n) : h = file[i] /\ x \in {file[i].home, file[i].away}

Earlier(f) == \A h \in f.form.home \cup f.form.away \cup f.xg.home \cup f.xg.away : h.date < f.match.date

BuilderInv ==
  /\ file \in History /\ quotes \in Markets1x2 /\ at \in 0 .. Len(file)
  /\ Rolls(form, at) /\ Rolls(xg, at)
  /\ IsFiniteSet(feats) /\ Cardinality(feats) = at
  /\ \A f \in feats : Earlier(f) /\ \E i \in FirstRows(at) : f.match = file[i]

\* Results that were over by a day.
OverBy(on, day) == \A h \in on : h.date \in Int /\ h.date < day

\* The model was fitted at the last attempt, on what was over by then.
FittedThen(day) ==
  /\ \E i \in FirstRows(walked) : day = file[i].date
  /\ \/ model = {}
     \/ \E x : model = {x} /\ x.day = day /\ OverBy(x.on, day)

WalkInv ==
  /\ walked \in 0 .. Len(file)
  /\ \/ lastFit = {} /\ model = {}
     \/ \E day : lastFit = {day} /\ FittedThen(day)
  /\ \A b \in bets : (\A h \in b.on : h.date < b.match.date) /\ b.match.date - b.day < RefitEvery

BacktestsInv == BuilderInv /\ WalkInv

\* What a file of the history is.
LEMMA FilesAre ==
  ASSUME file \in History
  PROVE  /\ Len(file) \in Nat /\ DOMAIN file = 1 .. Len(file)
         /\ IsFiniteSet(DOMAIN file) /\ Cardinality(DOMAIN file) = Len(file)
         /\ \A i \in DOMAIN file : file[i].date \in Int /\ {file[i].home, file[i].away} \subseteq Teams
<1>1. file \in Seq({file[i] : i \in DOMAIN file})
  BY BacktestsAssumption
<1> DEFINE S == {file[i] : i \in DOMAIN file}
<1>2. file \in Seq(S)
  BY <1>1
<1> HIDE DEF S
<1>3. Len(file) \in Nat /\ DOMAIN file = 1 .. Len(file)
  BY <1>2
<1>4. IsFiniteSet(1 .. Len(file)) /\ Cardinality(1 .. Len(file)) = Len(file)
  <2> DEFINE n == Len(file)
  <2>1. n \in Int /\ 1 \in Int
    BY <1>3
  <2> HIDE DEF n
  <2>2. IsFiniteSet(1 .. n) /\ Cardinality(1 .. n) = IF 1 > n THEN 0 ELSE n - 1 + 1
    BY <2>1, FS_Interval
  <2>3. n >= 0
    BY <1>3 DEF n
  <2>4. Cardinality(1 .. n) = n
    BY <2>1, <2>2, <2>3
  <2> QED
    BY <2>2, <2>4 DEF n
<1>5. \A i \in DOMAIN file : file[i].date \in Int
  BY BacktestsAssumption
<1>6. ASSUME NEW i \in DOMAIN file PROVE {file[i].home, file[i].away} \subseteq Teams
  <2> DEFINE TeamsOf(h) == UNION {{h[x].home, h[x].away} : x \in DOMAIN h}
  <2>1. {file[i].home, file[i].away} \subseteq TeamsOf(file)
    BY <1>6, Zenon
  <2>2. Teams = UNION {TeamsOf(h) : h \in History}
    BY Zenon DEF Teams
  <2> HIDE DEF TeamsOf
  <2> QED
    BY <2>1, <2>2
<1> QED
  BY <1>3, <1>4, <1>5, <1>6

\* The lines ahead of a line grow along the order of the rows, and every place of it is taken.
LEMMA RowsAreOrdered ==
  ASSUME file \in History
  PROVE  /\ \A i \in DOMAIN file : Place(i) \in 1 .. Len(file)
         /\ \A i, j \in DOMAIN file : Place(i) < Place(j) <=> i \in Ahead(j)
         /\ \A k \in 1 .. Len(file) : \E j \in DOMAIN file : Place(j) = k /\ Row(k) = file[j]
<1> DEFINE S == DOMAIN file
           R == {x \in S \X S : x[1] \in Ahead(x[2])}
<1>0. /\ Len(file) \in Nat /\ S = 1 .. Len(file) /\ IsFiniteSet(S) /\ Cardinality(S) = Len(file)
      /\ \A i \in S : file[i].date \in Int
  BY FilesAre
<1>1. \A i, j \in S : <<i, j>> \in R <=> file[i].date < file[j].date \/ (file[i].date = file[j].date /\ i < j)
  BY DEF Ahead
<1>2. \A j \in S : Before(R, S, j) = Ahead(j)
  <2> TAKE j \in S
  <2>1. Ahead(j) \subseteq S
    BY DEF Ahead
  <2> QED
    BY <2>1 DEF Before
<1>3. \A i, j \in S : <<i, j>> \in R <=> i \in Ahead(j)
  OBVIOUS
<1> HIDE DEF R
<1>4. Orders(R, S)
  <2>1. \A x \in S : <<x, x>> \notin R
    BY <1>0, <1>1
  <2>2. \A x, y, z \in S : <<x, y>> \in R /\ <<y, z>> \in R => <<x, z>> \in R
    BY <1>0, <1>1
  <2>3. \A x, y \in S : x # y => <<x, y>> \in R \/ <<y, x>> \in R
    BY <1>0, <1>1
  <2> QED
    BY <2>1, <2>2, <2>3 DEF Orders
<1>5. \A x \in S : Cardinality(Before(R, S, x)) \in 0 .. Cardinality(S) - 1
  BY <1>0, <1>4, PlacesAre
<1>6. \A x, y \in S : <<x, y>> \in R => Cardinality(Before(R, S, x)) < Cardinality(Before(R, S, y))
  BY <1>0, <1>4, PlacesAre
<1>7. \A i \in S : Place(i) \in 1 .. Len(file)
  BY <1>0, <1>2, <1>5 DEF Place
<1>8. ASSUME NEW i \in S, NEW j \in S, i \in Ahead(j) PROVE Place(i) < Place(j)
  <2>1. <<i, j>> \in R
    BY <1>3, <1>8
  <2>2. Cardinality(Before(R, S, i)) < Cardinality(Before(R, S, j))
    BY <1>6, <2>1
  <2>3. Cardinality(Ahead(i)) < Cardinality(Ahead(j))
    BY <1>2, <2>2, Zenon
  <2>4. Cardinality(Ahead(i)) \in Int /\ Cardinality(Ahead(j)) \in Int
    BY <1>2, <1>0, <1>5
  <2> QED
    BY <2>3, <2>4 DEF Place
<1>9. ASSUME NEW i \in S, NEW j \in S, Place(i) < Place(j) PROVE i \in Ahead(j)
  <2>1. i # j
    BY <1>7, <1>9
  <2>2. <<i, j>> \in R \/ <<j, i>> \in R
    BY <1>4, <2>1 DEF Orders
  <2> QED
    BY <1>3, <1>7, <1>8, <1>9, <2>2
<1>10. ASSUME NEW k \in 1 .. Len(file) PROVE \E j \in S : Place(j) = k /\ Row(k) = file[j]
  <2> DEFINE P(j) == j \in S /\ Cardinality(Ahead(j)) = k - 1
  <2>1. \E j \in S : Cardinality(Before(R, S, j)) = k - 1
    BY <1>0, <1>4, <1>10, EveryPlaceIsTaken
  <2>2. \E j : P(j)
    BY <1>2, <2>1
  <2>3. Row(k) = file[CHOOSE j : P(j)]
    BY DEF Row
  <2> DEFINE first == CHOOSE j : P(j)
  <2> HIDE DEF P
  <2>4. P(first)
    BY <2>2
  <2>5. Row(k) = file[first]
    BY <2>3
  <2> HIDE DEF first
  <2>6. first \in S /\ Cardinality(Ahead(first)) = k - 1
    BY <2>4 DEF P
  <2>7. Place(first) = k
    BY <1>10, <1>0, <2>6 DEF Place
  <2> QED
    BY <2>5, <2>6, <2>7
<1> QED
  BY <1>7, <1>8, <1>9, <1>10

\* The rows of a file stand while the file does.
LEMMA RowsStand ==
  ASSUME file' = file
  PROVE  /\ \A i : Place(i)' = Place(i)
         /\ \A n : FirstRows(n)' = FirstRows(n) /\ Row(n)' = Row(n)
         /\ FirstRows(at)' = FirstRows(at') /\ FirstRows(walked)' = FirstRows(walked')
BY Zenon DEF FirstRows, Place, Ahead, Row

\* The next row: whatever was read before it and shares a team with it is of an earlier day, and
\* is another match.
LEMMA NextRow ==
  ASSUME file \in History, NEW n \in Nat, n < Len(file)
  PROVE  \E j \in DOMAIN file :
           /\ Row(n + 1) = file[j] /\ j \in FirstRows(n + 1) /\ FirstRows(n) \subseteq FirstRows(n + 1)
           /\ \A i \in FirstRows(n) :
                /\ file[i].date <= file[j].date /\ file[i] # file[j]
                /\ {file[i].home, file[i].away} \cap {file[j].home, file[j].away} # {} => file[i].date < file[j].date
<1>1. /\ Len(file) \in Nat /\ DOMAIN file = 1 .. Len(file)
      /\ \A i \in DOMAIN file : file[i].date \in Int /\ {file[i].home, file[i].away} \subseteq Teams
  BY FilesAre
<1>2. n + 1 \in 1 .. Len(file)
  BY <1>1
<1>3. PICK j \in DOMAIN file : Place(j) = n + 1 /\ Row(n + 1) = file[j]
  BY <1>2, RowsAreOrdered
<1>4. \A i \in DOMAIN file : Place(i) \in Int
  BY <1>1, RowsAreOrdered
<1>5. j \in FirstRows(n + 1) /\ FirstRows(n) \subseteq FirstRows(n + 1)
  BY <1>3, <1>4 DEF FirstRows
<1>6. ASSUME NEW i \in FirstRows(n)
      PROVE  /\ file[i].date <= file[j].date /\ file[i] # file[j]
             /\ {file[i].home, file[i].away} \cap {file[j].home, file[j].away} # {} => file[i].date < file[j].date
  <2>1. i \in DOMAIN file /\ Place(i) < Place(j)
    BY <1>3, <1>4, <1>6 DEF FirstRows
  <2>2. i \in Ahead(j)
    BY <2>1, RowsAreOrdered
  <2>3. file[i].date < file[j].date \/ (file[i].date = file[j].date /\ i # j)
    BY <1>1, <2>1, <2>2 DEF Ahead
  <2>4. file[i].date = file[j].date /\ i # j => {file[i].home, file[i].away} \cap {file[j].home, file[j].away} = {}
    BY <2>1, BacktestsAssumption
  <2>5. file[i].date \in Int /\ file[j].date \in Int
    BY <1>1, <2>1
  <2>6. file[i] = file[j] => file[i].date = file[j].date /\ {file[i].home, file[i].away} \cap {file[j].home, file[j].away} # {}
    OBVIOUS
  <2> QED
    BY <2>3, <2>4, <2>5, <2>6
<1> QED
  BY <1>3, <1>5, <1>6

\* Nothing was read and nothing was walked.
LEMMA BacktestsStart == BacktestsInit => BacktestsInv
<1> SUFFICES ASSUME BacktestsInit PROVE BacktestsInv
  OBVIOUS
<1>1. Len(file) \in Nat
  BY FilesAre DEF BacktestsInit
<1>2. Rolls(form, at) /\ Rolls(xg, at)
  BY DEF BacktestsInit, Rolls
<1>3. IsFiniteSet(feats) /\ Cardinality(feats) = 0
  BY FS_EmptySet DEF BacktestsInit
<1> QED
  BY <1>1, <1>2, <1>3 DEF BacktestsInit, BacktestsInv, BuilderInv, WalkInv

\* A lookup that takes a match stays one of matches read, and what it held of the two teams was
\* of earlier days.
LEMMA LookupsRoll ==
  ASSUME file \in History, at \in Nat, at < Len(file), NEW state, Rolls(state, at),
         NEW j \in DOMAIN file, NEW m, m = file[j], NEW rows, j \in rows, FirstRows(at) \subseteq rows,
         \A i \in FirstRows(at) :
           {file[i].home, file[i].away} \cap {file[j].home, file[j].away} # {} => file[i].date < file[j].date
  PROVE  /\ \A h \in state[m.home] \cup state[m.away] : h.date < m.date
         /\ DOMAIN Played(state, m) = Teams
         /\ \A x \in Teams : \A h \in Played(state, m)[x] \cup state[x] :
              \E i \in rows : h = file[i] /\ x \in {file[i].home, file[i].away}
<1>1. m.home \in Teams /\ m.away \in Teams
  BY FilesAre
<1>2. ASSUME NEW x \in {m.home, m.away}, NEW h \in state[x] PROVE h.date < m.date
  <2>1. PICK i \in FirstRows(at) : h = file[i] /\ x \in {file[i].home, file[i].away}
    BY <1>1, <1>2 DEF Rolls
  <2>2. {file[i].home, file[i].away} \cap {file[j].home, file[j].away} # {}
    BY <1>2, <2>1
  <2> QED
    BY <2>1, <2>2
<1>3. DOMAIN Played(state, m) = Teams
  BY DEF Played, Rolls
<1>4. ASSUME NEW x \in Teams, NEW h \in Played(state, m)[x] \cup state[x]
      PROVE  \E i \in rows : h = file[i] /\ x \in {file[i].home, file[i].away}
  <2>1. h \in state[x] \/ (h = m /\ x \in {m.home, m.away})
    BY <1>4 DEF Played, Rolls
  <2>2. CASE h \in state[x]
    BY <2>2 DEF Rolls
  <2>3. CASE h = m /\ x \in {m.home, m.away}
    BY <2>3
  <2> QED
    BY <2>1, <2>2, <2>3
<1> QED
  BY <1>2, <1>3, <1>4

\* Reading a row looks only at earlier days.
LEMMA ReadRowKeepsInv == ASSUME BacktestsInv, ReadRow PROVE BacktestsInv'
<1>0. /\ file \in History /\ at \in Nat /\ at < Len(file) /\ Len(file) \in Nat /\ at' = at + 1
      /\ UNCHANGED <<file, quotes, walked, model, lastFit, bets>>
  BY FilesAre DEF BacktestsInv, BuilderInv, ReadRow
<1>1. PICK j \in DOMAIN file :
        /\ Row(at + 1) = file[j] /\ j \in FirstRows(at + 1) /\ FirstRows(at) \subseteq FirstRows(at + 1)
        /\ \A i \in FirstRows(at) :
             /\ file[i].date <= file[j].date /\ file[i] # file[j]
             /\ {file[i].home, file[i].away} \cap {file[j].home, file[j].away} # {} => file[i].date < file[j].date
  BY <1>0, NextRow
<1> DEFINE m == file[j]
           rows == FirstRows(at + 1)
           new == [match |-> m, form |-> FormOf(form, m),
                   xg |-> IF m.xg THEN FormOf(xg, m) ELSE [home |-> {}, away |-> {}]]
<1>2. feats' = feats \cup {new} /\ form' = Played(form, m) /\ xg' = IF m.xg THEN Played(xg, m) ELSE xg
  BY <1>1 DEF ReadRow
<1>3. /\ FirstRows(at)' = rows /\ FirstRows(walked)' = FirstRows(walked)
  BY <1>0, RowsStand, Zenon
<1> HIDE DEF rows
<1>4. j \in rows /\ FirstRows(at) \subseteq rows
  BY <1>1 DEF rows
<1>5. ASSUME NEW state, Rolls(state, at)
      PROVE  /\ \A h \in state[m.home] \cup state[m.away] : h.date < m.date
             /\ DOMAIN Played(state, m) = Teams
             /\ \A x \in Teams : \A h \in Played(state, m)[x] \cup state[x] :
                  \E i \in rows : h = file[i] /\ x \in {file[i].home, file[i].away}
  BY <1>0, <1>1, <1>4, <1>5, LookupsRoll
<1>6. Rolls(form, at) /\ Rolls(xg, at)
  BY DEF BacktestsInv, BuilderInv
<1>7. Rolls(form, at)'
  BY <1>0, <1>2, <1>3, <1>5, <1>6 DEF Rolls
<1>8. Rolls(xg, at)'
  <2>1. DOMAIN xg' = Teams
    BY <1>2, <1>5, <1>6 DEF Rolls
  <2>2. \A x \in Teams : xg'[x] \subseteq Played(xg, m)[x] \cup xg[x]
    BY <1>2
  <2> QED
    BY <1>0, <1>3, <1>5, <1>6, <2>1, <2>2 DEF Rolls
<1>9. Earlier(new)
  <2>1. /\ new.match = m /\ new.form.home = form[m.home] /\ new.form.away = form[m.away]
        /\ new.xg.home \subseteq xg[m.home] /\ new.xg.away \subseteq xg[m.away]
    BY DEF FormOf
  <2> HIDE DEF new, m
  <2> QED
    BY <1>5, <1>6, <2>1 DEF Earlier
<1>10. \A f \in feats : f.match # m
  BY <1>1 DEF BacktestsInv, BuilderInv
<1>11. new.match = m
  OBVIOUS
<1> HIDE DEF new
<1>12. new \notin feats
  BY <1>10, <1>11
<1>13. IsFiniteSet(feats') /\ Cardinality(feats') = at + 1
  BY <1>0, <1>2, <1>12, FS_AddElement DEF BacktestsInv, BuilderInv
<1>14. \A f \in feats' : Earlier(f) /\ \E i \in rows : f.match = file[i]
  BY <1>2, <1>4, <1>9, <1>11 DEF BacktestsInv, BuilderInv
<1>15. \A f : Earlier(f)' = Earlier(f)
  BY DEF Earlier
<1>16. BuilderInv'
  BY <1>0, <1>3, <1>7, <1>8, <1>13, <1>14, <1>15 DEF BacktestsInv, BuilderInv
<1>17. WalkInv'
  BY <1>0, <1>3, Zenon DEF BacktestsInv, WalkInv, FittedThen, OverBy
<1> QED
  BY <1>16, <1>17 DEF BacktestsInv

\* The dataset stands while the walk goes on.
LEMMA DatasetStands ==
  ASSUME BuilderInv, file' = file, quotes' = quotes, at' = at, form' = form, xg' = xg, feats' = feats
  PROVE  BuilderInv'
<1>1. FirstRows(at)' = FirstRows(at)
  BY RowsStand, Zenon
<1>2. Rolls(form, at)'
  BY <1>1 DEF Rolls, BuilderInv
<1>3. Rolls(xg, at)'
  BY <1>1 DEF Rolls, BuilderInv
<1>4. \A f : Earlier(f)' = Earlier(f)
  BY DEF Earlier
<1> QED
  BY <1>1, <1>2, <1>3, <1>4 DEF BuilderInv

\* A refit takes only what was over the day before, or leaves no model.
LEMMA RefitLooksBack ==
  ASSUME NEW m, m.date \in Int, file \in History, NEW fits
  PROVE  \/ Refitted(m, fits) = {}
         \/ \E x : Refitted(m, fits) = {x} /\ x.day = m.date /\ OverBy(x.on, m.date)
<1> DEFINE on == {file[i] : i \in Window(m)}
           x == [on |-> on, day |-> m.date]
<1>1. Refitted(m, fits) = {x} \/ Refitted(m, fits) = {}
  BY DEF Refitted
<1>2. OverBy(on, m.date)
  <2>1. \A i \in DOMAIN file : file[i].date \in Int
    BY FilesAre
  <2> QED
    BY <2>1 DEF Window, OverBy
<1> HIDE DEF on
<1>3. x.day = m.date /\ x.on = on
  OBVIOUS
<1> QED
  BY <1>1, <1>2, <1>3

\* Walking past a match looks only at earlier days, and at a model that is fresh.
LEMMA WalkOnKeepsInv == ASSUME BacktestsInv, WalkOn PROVE BacktestsInv'
<1>0. /\ file \in History /\ walked \in Nat /\ walked < Len(file) /\ Len(file) \in Nat /\ walked' = walked + 1
      /\ UNCHANGED <<file, quotes, at, form, xg, feats>>
  BY FilesAre DEF BacktestsInv, BuilderInv, WalkInv, WalkOn
<1>1. PICK j \in DOMAIN file :
        /\ Row(walked + 1) = file[j] /\ j \in FirstRows(walked + 1)
        /\ FirstRows(walked) \subseteq FirstRows(walked + 1)
        /\ \A i \in FirstRows(walked) : file[i].date <= file[j].date
  BY <1>0, NextRow
<1> DEFINE m == file[j]
           due == walked >= Warmup /\ (\A d \in lastFit : m.date - d >= RefitEvery)
           rows == FirstRows(walked + 1)
<1>2. /\ IF due THEN \E fits \in BOOLEAN : model' = Refitted(m, fits) ELSE UNCHANGED model
      /\ lastFit' = IF due THEN {m.date} ELSE lastFit
      /\ bets' = IF walked >= Warmup /\ (\E s \in DOMAIN quotes : quotes[s].edge > 0)
                 THEN bets \cup {[match |-> m, on |-> x.on, day |-> x.day] : x \in model'} ELSE bets
  BY <1>1 DEF WalkOn
<1>3. m.date \in Int
  BY <1>0, FilesAre
<1>4. FirstRows(walked)' = rows /\ FirstRows(at)' = FirstRows(at)
  BY <1>0, RowsStand, Zenon
<1> HIDE DEF rows
<1>5. j \in rows /\ FirstRows(walked) \subseteq rows
  BY <1>1 DEF rows
<1>6. BuilderInv'
  <2>1. /\ file' = file /\ quotes' = quotes /\ at' = at /\ form' = form /\ xg' = xg /\ feats' = feats
    BY <1>0
  <2> QED
    BY <2>1, DatasetStands DEF BacktestsInv
<1> HIDE DEF m
<1>7. /\ \/ lastFit' = {} /\ model' = {}
         \/ \E day : /\ lastFit' = {day} /\ \E i \in rows : day = file[i].date
                     /\ \/ model' = {}
                        \/ \E x : model' = {x} /\ x.day = day /\ OverBy(x.on, day)
      /\ walked >= Warmup =>
           \A x \in model' : (\A h \in x.on : h.date < m.date) /\ m.date - x.day < RefitEvery
  <2>1. CASE due
    <3>1. PICK fits \in BOOLEAN : model' = Refitted(m, fits)
      BY <1>2, <2>1
    <3>2. \/ model' = {}
          \/ \E x : model' = {x} /\ x.day = m.date /\ OverBy(x.on, m.date)
      BY <1>0, <1>3, <3>1, RefitLooksBack, Zenon
    <3>3. lastFit' = {m.date}
      BY <1>2, <2>1
    <3>4. \E i \in rows : m.date = file[i].date
      BY <1>5 DEF m
    <3>5. m.date - m.date < RefitEvery
      BY <1>3, BacktestsAssumption
    <3>6. \A x \in model' : (\A h \in x.on : h.date < m.date) /\ m.date - x.day < RefitEvery
      BY <3>2, <3>5, Zenon DEF OverBy
    <3> QED
      BY <3>2, <3>3, <3>4, <3>6, Zenon
  <2>2. CASE ~due
    <3>1. model' = model /\ lastFit' = lastFit
      BY <1>2, <2>2
    <3>2. CASE lastFit = {} /\ model = {}
      BY <3>1, <3>2
    <3>3. CASE \E day : lastFit = {day} /\ FittedThen(day)
      <4>1. PICK day : lastFit = {day} /\ FittedThen(day)
        BY <3>3
      <4>2. PICK i \in FirstRows(walked) : day = file[i].date
        BY <4>1 DEF FittedThen
      <4>3. day \in Int /\ day <= m.date
        <5>1. i \in DOMAIN file
          BY <4>2 DEF FirstRows
        <5> QED
          BY <1>0, <1>1, <4>2, <5>1, FilesAre DEF m
      <4>4. walked >= Warmup => m.date - day < RefitEvery
        BY <1>3, <2>2, <4>1, <4>3, BacktestsAssumption
      <4>5. \/ model' = {}
            \/ \E x : model' = {x} /\ x.day = day /\ OverBy(x.on, day)
        BY <3>1, <4>1 DEF FittedThen
      <4>6. \A x \in model' : x.day = day /\ OverBy(x.on, day)
        BY <4>5
      <4>7. \A x \in model' : \A h \in x.on : h.date < m.date
        BY <1>3, <4>3, <4>6 DEF OverBy
      <4> QED
        BY <1>5, <3>1, <4>1, <4>2, <4>4, <4>5, <4>6, <4>7, Zenon
    <3> QED
      BY <3>2, <3>3 DEF BacktestsInv, WalkInv
  <2> QED
    BY <2>1, <2>2
<1>8. \A b \in bets' : (\A h \in b.on : h.date < b.match.date) /\ b.match.date - b.day < RefitEvery
  <2>1. ASSUME NEW x \in model', walked >= Warmup, NEW b, b = [match |-> m, on |-> x.on, day |-> x.day]
        PROVE  (\A h \in b.on : h.date < b.match.date) /\ b.match.date - b.day < RefitEvery
    <3>1. b.match = m /\ b.on = x.on /\ b.day = x.day
      BY <2>1
    <3> QED
      BY <1>7, <2>1, <3>1
  <2>2. \A b \in bets' : b \in bets \/ (walked >= Warmup /\ \E x \in model' : b = [match |-> m, on |-> x.on, day |-> x.day])
    BY <1>2
  <2> QED
    BY <2>1, <2>2 DEF BacktestsInv, WalkInv
<1>9. walked' \in 0 .. Len(file')
  BY <1>0
<1>10. WalkInv'
  <2>1. \A day : FittedThen(day)' <=>
          /\ \E i \in rows : day = file[i].date
          /\ \/ model' = {}
             \/ \E x : model' = {x} /\ x.day = day /\ OverBy(x.on, day)
    BY <1>0, <1>4, Zenon DEF FittedThen, OverBy
  <2> QED
    BY <1>7, <1>8, <1>9, <2>1, Zenon DEF WalkInv
<1> QED
  BY <1>6, <1>10 DEF BacktestsInv

\* Both steps of the backtests keep their invariant.
LEMMA BacktestsKeepInv == ASSUME BacktestsInv, [BacktestsNext]_backtestVars PROVE BacktestsInv'
<1>1. CASE UNCHANGED backtestVars
  <2>1. /\ file' = file /\ quotes' = quotes /\ at' = at /\ form' = form /\ xg' = xg /\ feats' = feats
        /\ walked' = walked /\ model' = model /\ lastFit' = lastFit /\ bets' = bets
    BY <1>1 DEF backtestVars
  <2>2. BuilderInv'
    BY <2>1, DatasetStands DEF BacktestsInv
  <2>3. WalkInv'
    BY <2>1, Zenon DEF BacktestsInv, WalkInv, FittedThen, OverBy, FirstRows, Place, Ahead
  <2> QED
    BY <2>2, <2>3 DEF BacktestsInv
<1> QED
  BY <1>1, ReadRowKeepsInv, WalkOnKeepsInv DEF BacktestsNext

\* The invariant gives the types: one feature row for each row that was read.
LEMMA BacktestsTyped == BacktestsInv => BacktestsTypeOK
<1> SUFFICES ASSUME BacktestsInv PROVE BacktestsTypeOK
  OBVIOUS
<1>1. Cardinality({}) = 0 /\ \A x : Cardinality({x}) = 1
  BY FS_EmptySet, FS_Singleton, Zenon
<1>2. (model = {} \/ \E x : model = {x}) /\ (lastFit = {} \/ \E day : lastFit = {day})
  BY Zenon DEF BacktestsInv, WalkInv, FittedThen
<1>3. Cardinality(model) \in {0, 1} /\ Cardinality(lastFit) \in {0, 1}
  BY <1>1, <1>2, Zenon
<1> QED
  BY <1>3 DEF BacktestsInv, BuilderInv, WalkInv, BacktestsTypeOK

\* A fold that scores a season rests on the seasons before it.
LEMMA FoldsLookBack == \A season \in 1 .. Seasons : \A x \in OutOfFold(season) : x < season
<1> SUFFICES ASSUME NEW season \in 1 .. Seasons, NEW x \in OutOfFold(season) PROVE x < season
  OBVIOUS
<1>1. PICK k \in 3 .. Seasons :
        LET f == [fit |-> 1..(k - 2), calibrate |-> k - 1, predict |-> k]
        IN  f.predict = season /\ x \in f.fit \cup {f.calibrate}
  BY Zenon DEF OutOfFold, Folds
<1>2. k = season /\ x \in 1..(k - 2) \cup {k - 1}
  BY <1>1
<1> QED
  BY <1>2, BacktestsAssumption

\* The invariant gives that nothing is judged with hindsight.
LEMMA NothingAhead == BacktestsInv => NoHindsight
<1> SUFFICES ASSUME BacktestsInv PROVE NoHindsight
  OBVIOUS
<1>1. ASSUME NEW i \in DOMAIN file, NEW c \in RowCandidates(file[i]), NEW f \in c.feats
      PROVE  f \in feats /\ c.match = file[i] /\ f.match.date = file[i].date
  <2> DEFINE m == file[i]
             found == {g \in feats : g.match.home = m.home /\ g.match.away = m.away /\ g.match.date = m.date}
  <2>1. PICK s : c = [selection |-> s, match |-> m, feats |-> found]
    BY <1>1, Zenon DEF RowCandidates
  <2> HIDE DEF found, m
  <2>2. c.match = m /\ c.feats = found
    BY <2>1
  <2> QED
    BY <1>1, <2>2 DEF found, m
<1>2. ASSUME NEW c \in UNION {RowCandidates(file[i]) : i \in DOMAIN file}, NEW f \in c.feats
      PROVE  f \in feats /\ f.match.date = c.match.date
  <2>1. PICK i \in DOMAIN file : c \in RowCandidates(file[i])
    BY <1>2, Zenon
  <2> QED
    BY <1>1, <1>2, <2>1
<1>3. \A c \in UNION {RowCandidates(file[i]) : i \in DOMAIN file} : \A f \in c.feats :
        \A h \in f.form.home \cup f.form.away \cup f.xg.home \cup f.xg.away : h.date < c.match.date
  <2> SUFFICES ASSUME NEW c \in UNION {RowCandidates(file[i]) : i \in DOMAIN file}, NEW f \in c.feats,
                      NEW h \in f.form.home \cup f.form.away \cup f.xg.home \cup f.xg.away
               PROVE  h.date < c.match.date
    BY Zenon
  <2>1. Earlier(f) /\ f.match.date = c.match.date
    BY <1>2 DEF BacktestsInv, BuilderInv
  <2> QED
    BY <2>1, Zenon DEF Earlier
<1>4. \A b \in bets : (\A h \in b.on : h.date < b.match.date) /\ b.match.date - b.day < RefitEvery
  BY DEF BacktestsInv, WalkInv
<1> QED
  BY <1>3, <1>4, FoldsLookBack, Zenon DEF NoHindsight

\* Of a few numbered edges one is highest, and the first of the highest is one.
LEMMA BandChoosesHighest ==
  ASSUME NEW edge, \A i \in 1 .. 3 : edge[i] \in Int, NEW open \in SUBSET (1 .. 3), open # {}
  PROVE  LET top == {i \in open : \A j \in open : edge[j] <= edge[i]}
         IN  (CHOOSE i \in top : \A j \in top : i <= j) \in top
<1> DEFINE top == {i \in open : \A j \in open : edge[j] <= edge[i]}
           P(i) == i \in top /\ \A j \in top : i <= j
<1>1. edge[1] \in Int /\ edge[2] \in Int /\ edge[3] \in Int
  OBVIOUS
<1>2. \E i \in open : \A j \in open : edge[j] <= edge[i]
  <2>1. \A j \in open : j = 1 \/ j = 2 \/ j = 3
    OBVIOUS
  <2>2. 1 \in open \/ 2 \in open \/ 3 \in open
    BY <2>1
  <2> QED
    BY <1>1, <2>1, <2>2
<1>3. top # {} /\ top \subseteq 1 .. 3
  BY <1>2
<1> HIDE DEF top
<1>4. \A j \in top : j = 1 \/ j = 2 \/ j = 3
  BY <1>3
<1>5. 1 \in top \/ 2 \in top \/ 3 \in top
  BY <1>3, <1>4
<1>6. \E i : P(i)
  <2>1. CASE 1 \in top
    <3>1. P(1)
      BY <1>4, <2>1
    <3> QED
      BY <3>1
  <2>2. CASE 1 \notin top /\ 2 \in top
    <3>1. P(2)
      BY <1>4, <2>2
    <3> QED
      BY <3>1
  <2>3. CASE 1 \notin top /\ 2 \notin top
    <3>1. P(3)
      BY <1>4, <1>5, <2>3
    <3> QED
      BY <3>1
  <2> QED
    BY <2>1, <2>2, <2>3
<1> HIDE DEF P
<1>7. P(CHOOSE i : P(i))
  BY <1>6
<1>8. (CHOOSE i : P(i)) \in top
  BY <1>7 DEF P
<1> QED
  BY <1>8 DEF P, top

Names1x2 == {"H", "D", "A"}

\* Where a selection stands among equals
ByName == [H |-> 3, D |-> 2, A |-> 1]

\* The same of edges by selection, the first by name among the highest.
LEMMA PoolChoosesHighest ==
  ASSUME NEW edge, \A s \in Names1x2 : edge[s] \in Int, NEW open \in SUBSET Names1x2, open # {}
  PROVE  LET top == {s \in open : \A x \in open : edge[x] <= edge[s]}
         IN  (CHOOSE s \in top : \A x \in top : ByName[s] <= ByName[x]) \in top
<1> DEFINE top == {s \in open : \A x \in open : edge[x] <= edge[s]}
           P(s) == s \in top /\ \A x \in top : ByName[s] <= ByName[x]
<1>1. edge["H"] \in Int /\ edge["D"] \in Int /\ edge["A"] \in Int
  BY DEF Names1x2
<1>2. \E s \in open : \A x \in open : edge[x] <= edge[s]
  <2>1. \A x \in open : x = "H" \/ x = "D" \/ x = "A"
    BY DEF Names1x2
  <2>2. "H" \in open \/ "D" \in open \/ "A" \in open
    BY <2>1
  <2> QED
    BY <1>1, <2>1, <2>2
<1>3. top # {} /\ top \subseteq {"H", "D", "A"}
  BY <1>2 DEF Names1x2
<1>4. ByName["H"] = 3 /\ ByName["D"] = 2 /\ ByName["A"] = 1
  BY DEF ByName
<1> HIDE DEF top
<1>5. \A x \in top : x = "H" \/ x = "D" \/ x = "A"
  BY <1>3
<1>6. "H" \in top \/ "D" \in top \/ "A" \in top
  BY <1>3, <1>5
<1>7. \E s : P(s)
  <2>1. CASE "A" \in top
    <3>1. P("A")
      BY <1>4, <1>5, <2>1
    <3> QED
      BY <3>1
  <2>2. CASE "A" \notin top /\ "D" \in top
    <3>1. P("D")
      BY <1>4, <1>5, <2>2
    <3> QED
      BY <3>1
  <2>3. CASE "A" \notin top /\ "D" \notin top
    <3>1. P("H")
      BY <1>4, <1>5, <1>6, <2>3
    <3> QED
      BY <3>1
  <2> QED
    BY <2>1, <2>2, <2>3
<1> HIDE DEF P
<1>8. P(CHOOSE s : P(s))
  BY <1>7
<1>9. (CHOOSE s : P(s)) \in top
  BY <1>8 DEF P
<1> QED
  BY <1>9 DEF P, top

\* Both ways to choose one bet of a match choose a highest edge of the same selections.
LEMMA BetsAreTheSame == BacktestsInv => SameBets
<1> SUFFICES ASSUME BacktestsInv, NEW t \in Thresholds
             PROVE  {quotes[s].edge : s \in BetsFor(quotes, t)} = {quotes[s].edge : s \in SelectBets(quotes, t)}
  BY DEF SameBets
<1> DEFINE names == Names1x2
<1>1. /\ DOMAIN quotes = names /\ \A s \in names : quotes[s].edge \in Int /\ quotes[s].price \in Int
      /\ t \in Int /\ t >= MinEdge /\ MinEdge \in Int /\ MinPrice \in Int
  <2>1. quotes \in Markets1x2
    BY DEF BacktestsInv, BuilderInv
  <2> QED
    BY <2>1, BacktestsAssumption DEF Names1x2
<1>2. /\ Selections1x2[1] = "H" /\ Selections1x2[2] = "D" /\ Selections1x2[3] = "A"
      /\ \A i \in 1 .. 3 : Selections1x2[i] \in names
      /\ \A s \in names : \E i \in 1 .. 3 : Selections1x2[i] = s
  BY DEF Selections1x2, Names1x2
<1> DEFINE Fits(s) == quotes[s].price >= MinPrice /\ quotes[s].edge >= t
           band == {i \in 1..3 : Fits(Selections1x2[i])}
           pool == {s \in names : Fits(s)}
           edgeOf == [s \in names |-> quotes[s].edge]
           edgeAt == [i \in 1 .. 3 |-> quotes[Selections1x2[i]].edge]
           topBand == {i \in band : \A j \in band : edgeAt[j] <= edgeAt[i]}
           topPool == {s \in pool : \A x \in pool : edgeOf[x] <= edgeOf[s]}
           chosen == CHOOSE i \in topBand : \A j \in topBand : i <= j
           picked == CHOOSE s \in topPool : \A x \in topPool : ByName[s] <= ByName[x]
<1>3. BetsFor(quotes, t) = IF band = {} THEN {} ELSE {Selections1x2[chosen]}
  <2>1. topBand = {i \in band : \A j \in band : quotes[Selections1x2[j]].edge <= quotes[Selections1x2[i]].edge}
    OBVIOUS
  <2> QED
    BY <2>1, Zenon DEF BetsFor
<1>4. SelectBets(quotes, t) = IF pool = {} THEN {} ELSE {picked}
  <2>1. {s \in Candidates(quotes, MinEdge) : quotes[s].price >= MinPrice /\ quotes[s].edge >= t} = pool
    BY <1>1 DEF Candidates
  <2>2. topPool = {s \in pool : \A x \in pool : quotes[x].edge <= quotes[s].edge}
    OBVIOUS
  <2> HIDE DEF pool, topPool
  <2> QED
    BY <2>1, <2>2, Zenon DEF SelectBets, ByName
<1>5. \A i \in 1 .. 3 : i \in band <=> Selections1x2[i] \in pool
  BY <1>2
<1>6. band = {} <=> pool = {}
  BY <1>2, <1>5
<1>7. CASE pool = {}
  BY <1>3, <1>4, <1>6, <1>7
<1>8. CASE pool # {}
  <2>1. \A i \in 1 .. 3 : edgeAt[i] \in Int /\ edgeAt[i] = edgeOf[Selections1x2[i]]
    BY <1>1, <1>2
  <2>2. \A s \in names : edgeOf[s] \in Int
    BY <1>1
  <2>3. band \in SUBSET (1 .. 3) /\ pool \in SUBSET names
    OBVIOUS
  <2> HIDE DEF edgeAt, edgeOf, band, pool
  <2>a. band # {} /\ \A i \in 1 .. 3 : edgeAt[i] \in Int
    BY <1>6, <1>8, <2>1
  <2>4. chosen \in topBand
    BY <2>3, <2>a, BandChoosesHighest, Zenon
  <2>b. pool # {} /\ pool \in SUBSET Names1x2
    BY <1>8, <2>3
  <2>c. \A s \in Names1x2 : edgeOf[s] \in Int
    BY <2>2
  <2> HIDE DEF names
  <2>5. picked \in topPool
    BY <2>b, <2>c, PoolChoosesHighest, ZenonT(60)
  <2> USE DEF names
  <2> HIDE DEF chosen, picked
  <2>6. chosen \in band /\ picked \in pool
    BY <2>4, <2>5
  <2>7. edgeOf[Selections1x2[chosen]] <= edgeOf[picked]
    BY <1>5, <2>3, <2>5, <2>6
  <2>8. PICK i \in 1 .. 3 : Selections1x2[i] = picked
    BY <1>2, <2>3, <2>6
  <2>9. edgeOf[picked] <= edgeOf[Selections1x2[chosen]]
    BY <1>5, <2>1, <2>3, <2>4, <2>6, <2>8
  <2>10. edgeOf[Selections1x2[chosen]] = edgeOf[picked]
    BY <1>2, <2>2, <2>3, <2>6, <2>7, <2>9
  <2>11. quotes[Selections1x2[chosen]].edge = quotes[picked].edge
    BY <1>2, <2>3, <2>6, <2>10 DEF edgeOf
  <2> QED
    BY <1>3, <1>4, <1>6, <1>8, <2>11
<1> QED
  BY <1>7, <1>8

\* What the backtests promise, from their invariant.
LEMMA BacktestsPromise == BacktestsInv => BacktestsTypeOK /\ NoHindsight /\ SameBets
BY BacktestsTyped, NothingAhead, BetsAreTheSame

-----------------------------------------------------------------------------
(* The parts side by side                                                  *)

decisionVars == <<part, termsVars, fairVars, gateVars, compositionVars, filterVars, evidenceVars,
                  backtestVars, livePriceVars>>

\* Every part keeps its own invariant, whichever of them moves.
DecisionsInv ==
  /\ part \in Parts
  /\ TermsInv /\ FairTypeOK /\ GatesInv /\ SettingsInv /\ FilterInv
  /\ EvidenceInv /\ BacktestsInv /\ LivePriceInv

\* A step of the whole is a step of each part, or leaves it alone.
LEMMA PartsMove ==
  ASSUME [DecisionsNext]_decisionVars
  PROVE  /\ part' = part
         /\ [TermsNext]_termsVars /\ [FairNext]_fairVars /\ [GatesNext]_gateVars
         /\ [CompositionNext]_compositionVars /\ [FilterNext]_filterVars /\ [EvidenceNext]_evidenceVars
         /\ [BacktestsNext]_backtestVars /\ [LivePriceNext]_livePriceVars
<1>1. CASE UNCHANGED decisionVars
  BY <1>1 DEF decisionVars
<1>2. CASE part = "terms" /\ TermsNext /\ StandStill("terms")
  BY <1>2 DEF StandStill
<1>3. CASE part = "fair" /\ FairNext /\ StandStill("fair")
  BY <1>3 DEF StandStill
<1>4. CASE part = "gates" /\ GatesNext /\ StandStill("gates")
  BY <1>4 DEF StandStill
<1>5. CASE part = "settings" /\ CompositionNext /\ StandStill("settings")
  BY <1>5 DEF StandStill
<1>6. CASE part = "filter" /\ FilterNext /\ StandStill("filter")
  BY <1>6 DEF StandStill
<1>7. CASE part = "evidence" /\ EvidenceNext /\ StandStill("evidence")
  BY <1>7 DEF StandStill
<1>8. CASE part = "backtests" /\ BacktestsNext /\ StandStill("backtests")
  BY <1>8 DEF StandStill
<1>9. CASE part = "price" /\ LivePriceNext /\ StandStill("price")
  BY <1>9 DEF StandStill
<1> QED
  BY <1>1, <1>2, <1>3, <1>4, <1>5, <1>6, <1>7, <1>8, <1>9, Zenon DEF DecisionsNext

\* Each part begins in its invariant.
LEMMA DecisionsStart == DecisionsInit => DecisionsInv
<1>1. DecisionsInit => /\ part \in Parts
                       /\ TermsInit /\ FairInit /\ GatesInit /\ CompositionInit /\ FilterInit
                       /\ EvidenceInit /\ BacktestsInit /\ LivePriceInit
  BY Zenon DEF DecisionsInit
<1> QED
  BY <1>1, TermsStart, FairStarts, GatesStart, SettingsStart, FilterStart, EvidenceStarts, BacktestsStart,
     LivePriceStarts, Zenon DEF DecisionsInv

\* And keeps it on every step.
LEMMA DecisionsKeepInv == ASSUME DecisionsInv, [DecisionsNext]_decisionVars PROVE DecisionsInv'
<1>1. /\ part' = part
      /\ [TermsNext]_termsVars /\ [FairNext]_fairVars /\ [GatesNext]_gateVars
      /\ [CompositionNext]_compositionVars /\ [FilterNext]_filterVars /\ [EvidenceNext]_evidenceVars
      /\ [BacktestsNext]_backtestVars /\ [LivePriceNext]_livePriceVars
  BY PartsMove
<1>2. /\ part \in Parts /\ TermsInv /\ FairTypeOK /\ GatesInv /\ SettingsInv /\ FilterInv
      /\ EvidenceInv /\ BacktestsInv /\ LivePriceInv
  BY DEF DecisionsInv
<1>3. TermsInv' /\ FairTypeOK' /\ GatesInv' /\ SettingsInv'
  BY <1>1, <1>2, TermsKeepInv, FairKeepsTypes, GatesKeepInv, SettingsKeepInv
<1>4. FilterInv' /\ EvidenceInv' /\ BacktestsInv' /\ LivePriceInv'
  BY <1>1, <1>2, FilterKeepsInv, EvidenceKeepsInv, BacktestsKeepInv, LivePriceKeepsInv
<1>5. part' \in Parts
  BY <1>1, <1>2, Zenon DEF Parts
<1> QED
  BY <1>3, <1>4, <1>5, Zenon DEF DecisionsInv

\* The invariant of the composition: every component's own, at the same time.
THEOREM DecisionsInvariant == DecisionsSpec => []DecisionsInv
<1>1. DecisionsInit => DecisionsInv
  BY DecisionsStart
<1>2. DecisionsInv /\ [DecisionsNext]_decisionVars => DecisionsInv'
  BY DecisionsKeepInv
<1> QED
  BY <1>1, <1>2, PTL DEF DecisionsSpec, decisionVars

\* Every component's variables keep their types: among them, a settled selection has one of the
\* outcomes that are paid, a card between one star and five, and a dataset one row for each match
\* that was read.
THEOREM DecisionsTyped == DecisionsSpec => []DecisionsTypeOK
<1>1. DecisionsInv => DecisionsTypeOK
  BY TermsPromise, GatesPromise, SettingsPromise, FilterPromise, EvidencePromise, BacktestsPromise,
     LivePricePromise, Zenon DEF DecisionsInv, DecisionsTypeOK, Parts
<1> QED
  BY <1>1, DecisionsInvariant, PTL

\* A settled market hands out what it took in, on every line and every score, and the two sides
\* of an Asian line are mirrors (outcomes.py, settle).
THEOREM MarketsAlwaysBalance == DecisionsSpec => []MarketsBalance
<1>1. DecisionsInv => MarketsBalance
  BY TermsPromise DEF DecisionsInv
<1> QED
  BY <1>1, DecisionsInvariant, PTL

\* No pick is minted on a price that cannot be trusted: not on an anchor whose legs are swapped
\* against all the other books, however many quote and whatever they show, and not on a price
\* read once the game was under way (_anchor_disagrees_with_consensus, run_value_pipeline).
THEOREM UntrustedPricesMintNothing == DecisionsSpec => []BadPricesMintNothing
<1>1. DecisionsInv => BadPricesMintNothing
  BY SwappedAnchor, GatesPromise, Zenon DEF DecisionsInv, BadPricesMintNothing
<1> QED
  BY <1>1, DecisionsInvariant, PTL

\* Nothing acts before it was found fit: whatever trainings, crashes and edits of a manifest went
\* before, only a model with a passed holdout demotes, and settings that were accepted neither
\* open the dashboard nor starve the first alert of a day (load_value_filter, Settings).
THEOREM OnlyTheProvenActs == DecisionsSpec => []OnlyProvenIsLive
<1>1. DecisionsInv => OnlyProvenIsLive
  BY FilterPromise, SettingsPromise, Zenon DEF DecisionsInv, OnlyProvenIsLive
<1> QED
  BY <1>1, DecisionsInvariant, PTL

\* What is shown rests on what could be known: for every file of results in any order of lines,
\* every course of prices and every close a row may carry (latest_picks_with_events,
\* _aggregate_settled, walkforward.py, select_bets).
THEOREM ShownFiguresAreHonest == DecisionsSpec => []FiguresAreHonest
<1>1. DecisionsInv => FiguresAreHonest
  BY EvidencePromise, BacktestsPromise, LivePricePromise, Zenon DEF DecisionsInv, FiguresAreHonest
<1> QED
  BY <1>1, DecisionsInvariant, PTL

\* What only measures decides nothing: a ruling is the one the offer gets without the shadow
\* filter, the unenforced movement gate and the injected sharp lines (app/pipeline.py).
THEOREM ShadowsAreSilent == DecisionsSpec => ShadowChangesNothing
<1>1. DecisionsInv /\ [DecisionsNext]_decisionVars =>
        [ruling = "none" /\ ruling' # "none" =>
           ruling' = Ruling(Unmeasured(gatePolicy), [offer EXCEPT !.sharpBooks = 0], gateClock)]_gateVars
  BY PartsMove, GatesRuleAlike DEF DecisionsInv
<1> QED
  BY <1>1, DecisionsInvariant, PTL DEF DecisionsSpec, decisionVars, ShadowChangesNothing

===============================================================================
