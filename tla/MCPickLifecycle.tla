--------------------------- MODULE MCPickLifecycle ---------------------------
EXTENDS PickLifecycle, TLC

CONSTANTS a1, a2, b1, e1, e2

MCDays == 1 .. 2
OneDay == {1}
MCEventOf == (a1 :> e1) @@ (a2 :> e1) @@ (b1 :> e2)
TwoEvents == (a1 :> e1) @@ (b1 :> e2)
OneEventOf == (a1 :> e1)

Premium(stake, kelly) == [tier |-> "premium", stake |-> stake, kelly |-> kelly]
Volume(stake, kelly) == [tier |-> "volume", stake |-> stake, kelly |-> kelly]

\* Two premium strengths, the higher at the per-bet cap; one of them and a shadow quote.
PremiumQuotes == {Premium(2, 2), Premium(1, 1)}
TwoQuotes == {Premium(2, 2), Volume(1, 1)}
OneQuote == {Premium(2, 2)}

SameEvent == Permutations({a1, a2})

ThreeVersions == 1 .. 3
OneVersion == {1}

=============================================================================
