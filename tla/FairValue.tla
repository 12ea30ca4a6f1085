------------------------------ MODULE FairValue ------------------------------
(***************************************************************************)
(* How the books' quotes on one 1X2 market become value bets: the anchor,  *)
(* a named sharp book or the median of the others, its probabilities       *)
(* without the margin, the cross-check against the other books, and the    *)
(* scan for the best soft price (app/edge/value.py, and the grouping of    *)
(* app/pipeline.py).                                                       *)
(*                                                                         *)
(* Prices are implied probabilities in hundredths, 0 for none: a better    *)
(* price is a lower one.  The methods that strip the margin are stood for  *)
(* by the proportional one: all of them keep the order of the selections.  *)
(* The log-odds pool that may replace the median is left out.              *)
(***************************************************************************)
EXTENDS Naturals, Sequences, FiniteSets, FiniteSetsExt, Functions

CONSTANTS Preferred,      \* SHARP_BOOKS, in order
          Exchanges,      \* the ones that take commission
          SoftBooks,
          PriceLines,     \* the lines a book may show: three prices each
          Commission,     \* what it adds to an implied probability
          MaxOverround,
          MinConsensus,   \* MIN_CONSENSUS_BOOKS
          SwapTolerance,  \* ANCHOR_SWAP_TOLERANCE
          ScanFloor,      \* min_edge of the scan
          EdgeCeiling,    \* max_edge
          MaxImplied      \* min_odds, as an implied probability

ASSUME FairAssumption ==
  /\ Exchanges \subseteq Range(Preferred) /\ Range(Preferred) \cap SoftBooks = {}
  /\ Preferred \in Seq(Range(Preferred)) /\ IsFiniteSet(Range(Preferred) \cup SoftBooks)
  /\ "consensus" \notin Range(Preferred) \cup SoftBooks
  /\ PriceLines \subseteq [1 .. 3 -> Nat]
  /\ Commission \in Nat /\ MaxOverround \in Nat
  /\ MinConsensus \in Nat /\ MinConsensus >= 3
  /\ SwapTolerance \in 0 .. 99

VARIABLES shown,   \* the newest line of each book, <<>> before its first
          minted   \* the bets of the last scan

fairVars == <<shown, minted>>

Legs      == 1 .. 3
PricedBy  == Range(Preferred) \cup SoftBooks
Unpriced  == <<>>

Bets == [leg : Legs, book : PricedBy, anchor : PricedBy \cup {"consensus"}]

FairTypeOK == shown \in [PricedBy -> PriceLines \cup {Unpriced}] /\ minted \subseteq Bets

-----------------------------------------------------------------------------
(* Prices of books *)

Quoted(book, leg) == shown[book] # Unpriced /\ shown[book][leg] > 0
Gross(book, leg)  == shown[book][leg]

\* effective_odds, as an implied probability
Effective(book, leg) == Gross(book, leg) + (IF book \in Exchanges THEN Commission ELSE 0)

SumOver(line) == line[1] + line[2] + line[3]

\* The overround of a line, in the range an anchor may have.
Plausible(line) == SumOver(line) >= 100 /\ SumOver(line) <= 100 + MaxOverround

FullMarket(book) == \A leg \in Legs : Quoted(book, leg)

\* The k-th lowest of the prices of books, and their median.
Nth(books, leg, k) ==
  Min({v \in {Effective(b, leg) : b \in books} :
         Cardinality({b \in books : Effective(b, leg) <= v}) >= k})
MedianOf(books, leg) ==
  LET n == Cardinality(books)
  IN  (Nth(books, leg, (n + 1) \div 2) + Nth(books, leg, n \div 2 + 1)) \div 2

-----------------------------------------------------------------------------
(* anchor_fair_probs_with_provenance *)

NoAnchor == [book |-> "none", line |-> Unpriced]

EarnsAnchor(book) == FullMarket(book) /\ Plausible([leg \in Legs |-> Effective(book, leg)])

\* _named_sharp_anchor: the first of them, its displayed prices.
NamedSharpAnchor ==
  LET earning == {i \in DOMAIN Preferred : EarnsAnchor(Preferred[i])}
      first   == Preferred[Min(earning)]
  IN  IF earning = {} THEN NoAnchor ELSE [book |-> first, line |-> shown[first]]

\* _consensus_anchor
ConsensusAnchor ==
  LET full == {b \in PricedBy : FullMarket(b)}
      line == [leg \in Legs |-> MedianOf(full, leg)]
  IN  IF Cardinality(full) < MinConsensus \/ ~Plausible(line) THEN NoAnchor
      ELSE [book |-> "consensus", line |-> line]

Anchor ==
  LET named == NamedSharpAnchor IN IF named # NoAnchor THEN named ELSE ConsensusAnchor

\* devig_with_provenance
Devigged(line) == [leg \in Legs |-> (100 * line[leg]) \div SumOver(line)]

\* event_fair_probs
Fair == Devigged(Anchor.line)

-----------------------------------------------------------------------------
(* find_value_bets_with_fair *)

QuotersOf(leg) == {b \in PricedBy : Quoted(b, leg)}

\* Slip: a market of just the least number of books is not cross-checked.
SlipThick == \A leg \in Legs : Cardinality(QuotersOf(leg)) > MinConsensus

\* _consensus_implied is None for a market too thin to cross-check.
Thick == \A leg \in Legs : Cardinality(QuotersOf(leg)) >= MinConsensus

ConsensusImplied == Devigged([leg \in Legs |-> MedianOf(QuotersOf(leg), leg)])

\* _anchor_disagrees_with_consensus
AnchorDisagrees ==
  /\ Thick
  /\ LET ref == ConsensusImplied  fair == Fair IN
     \E a, b \in Legs : ref[a] > ref[b] + SwapTolerance /\ fair[a] <= fair[b]

\* The books _best_other_book looks at: neither the anchor nor any sharp book.
Bettable(leg) == {b \in QuotersOf(leg) : b # Anchor.book /\ b \notin Range(Preferred)}

Best(leg) == {b \in Bettable(leg) : \A o \in Bettable(leg) : Effective(b, leg) <= Effective(o, leg)}

\* Whether the edge over a price on offer is neither too small nor too good to be true.
IsValue(fair, implied) ==
  implied <= MaxImplied /\ fair >= implied + ScanFloor /\ fair <= implied + EdgeCeiling

\* _scan_against_fair
ValueBets ==
  IF Anchor = NoAnchor \/ AnchorDisagrees THEN {}
  ELSE LET fair == Fair  anchor == Anchor.book
           found == {l \in Legs : \E b \in Best(l) : IsValue(fair[l], Effective(b, l))}
       IN  {[leg |-> l, book |-> CHOOSE b \in Best(l) : TRUE, anchor |-> anchor] : l \in found}

-----------------------------------------------------------------------------
(* The feed and the pipeline *)

\* group_market_prices: the last snapshot of a book is its price.
Quote(book, line) == shown' = [shown EXCEPT ![book] = line] /\ UNCHANGED minted

ScanMarket == minted' = ValueBets /\ UNCHANGED shown

FairInit == shown = [b \in PricedBy |-> Unpriced] /\ minted = {}

FairNext == (\E b \in PricedBy, l \in PriceLines : Quote(b, l)) \/ ScanMarket

FairSpec == FairInit /\ [][FairNext]_fairVars

-----------------------------------------------------------------------------
(* Properties *)

Others == {p \in PricedBy : shown[p] # Unpriced} \ {Anchor.book}

\* Whether every book but the anchor prices the full market, and a leads b by the guard's margin
\* whichever of them is asked about each selection.
OthersRank(a, b) ==
  /\ \A o \in Others : FullMarket(o)
  /\ \A o, p, q \in Others, c \in Legs \ {a, b} :
       LET total == Effective(o, a) + Effective(p, b) + Effective(q, c)
       IN  100 * Effective(o, a) >= 100 * Effective(p, b) + (SwapTolerance + 1) * total

\* An anchor whose legs are swapped mints nothing: when enough books quote the market and all
\* but the anchor put a selection clearly above another that the anchor does not, a scan finds
\* no value, however many books there are and whatever the anchor shows
\* (_consensus_implied of app/edge/value.py: "a single swapped book cannot move the median").
SwappedAnchorMintsNothing ==
  (/\ Cardinality({b \in PricedBy : shown[b] # Unpriced}) >= MinConsensus
   /\ Anchor # NoAnchor
   /\ LET fair == Fair IN \E a, b \in Legs : fair[a] <= fair[b] /\ OthersRank(a, b))
  => ValueBets = {}

=============================================================================
