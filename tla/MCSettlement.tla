---------------------------- MODULE MCSettlement ----------------------------
(* Two games of the same teams, two days apart or on consecutive days.  A    *)
(* tick is a day.                                                          *)
EXTENDS Settlement, TLC

CONSTANTS g1, g2, p1, p2, home, homeFC

\* Apart: the feed writes the first game's team in full and dates it a day late,
\* with the second game the nearest thing to a wrong match.
FirstGame == (p1 :> g1) @@ (p2 :> g1)
SameTeams == (g1 :> home) @@ (g2 :> home)
FeedNames == (g1 :> homeFC) @@ (g2 :> home)
Containing == {<<home, homeFC>>, <<home, home>>}
Apart == (g1 :> 0) @@ (g2 :> 2)
FeedSkewed == (g1 :> 1) @@ (g2 :> 2)

\* Consecutive: dates and names are exact.
BothGames == (p1 :> g1) @@ (p2 :> g2)
Consecutive == (g1 :> 0) @@ (g2 :> 1)

=============================================================================
