------------------------------- MODULE Figures -------------------------------
(***************************************************************************)
(* What is shown of a pick: the verdict on its live card, and what the     *)
(* settled ones are reported to prove.                                     *)
(***************************************************************************)
EXTENDS Integers, Sequences, FiniteSets

(***************************************************************************)
(* The live verdict on an open pick: revalidation and the close at kickoff *)
(* (app/clv_trueup.py) write its current price, edge and fair; GET /picks  *)
(* (app/storage/repositories.py, app/edge/confidence.py) adds the lowest   *)
(* odds still worth taking and a rating; the dashboard shows the three.    *)
(*                                                                         *)
(* Odds are given by the probability their effective price implies, in     *)
(* hundredths, so that edge = fair - implied; a higher price is a lower    *)
(* number.  A nullable column is a set of at most one value.               *)
(***************************************************************************)

CONSTANTS Fairs,        \* the fair probabilities markets settle on, in hundredths
          Implied,      \* the prices books offer
          MinEdgeOf,    \* [tier -> edge floor]
          MaxRepricings \* bound

ASSUME LivePriceAssumption ==
  /\ MaxRepricings \in Nat /\ Fairs \subseteq Nat /\ Implied \subseteq Nat \ {0}
  /\ \A tier \in DOMAIN MinEdgeOf : MinEdgeOf[tier] \in Nat \ {0}

VARIABLES pick, hasStarted, repricings

livePriceVars == <<pick, hasStarted, repricings>>

\* The book of the pick, a soft book that stays when it drops the market, a sharp one
PriceBooks == {"own", "soft", "sharp"}

ImplausibleCloseEdge == 20   \* CLV_IMPLAUSIBLE_CLOSE_EDGE

\* The columns of a pick as it is minted.
MintedPicks ==
  {p \in [tier : DOMAIN MinEdgeOf, fair : Fairs, implied : Implied, edge : {f - i : f \in Fairs, i \in Implied},
          closeFair : {{}}, price : {{}}, book : {{}}, currentEdge : {{}},
          anchor : {"pinnacle", "sharp", "consensus"}, score : {"none", "weak", "strong"}] :
     p.edge = p.fair - p.implied /\ p.edge >= MinEdgeOf[p.tier]}

LivePriceInit == pick \in MintedPicks /\ hasStarted = FALSE /\ repricings = 0

\* Slip: without a price the edge stays what it was.
SlipConsistentCurrentEdge(fair) == pick.currentEdge

\* _consistent_current_edge: the new fair against the last price known.
ConsistentCurrentEdge(fair) == {fair - p : p \in pick.price}

\* The price a bettor could take: the pick's own book, or the best of the soft ones (the sharp
\* ones never).
Takeable(books) ==
  IF "own" \in DOMAIN books THEN {"own"} ELSE DOMAIN books \cap {"soft"}

Books == UNION {[named -> Implied] : named \in SUBSET PriceBooks}

\* revalidate_open_picks for one pick: a market without a fair, or with one no market can have,
\* leaves it alone.
Reprice ==
  /\ repricings < MaxRepricings /\ ~hasStarted
  /\ repricings' = repricings + 1
  /\ \E fair \in Fairs, books \in Books :
       /\ fair - pick.implied <= ImplausibleCloseEdge
       /\ LET book == Takeable(books)
          IN  pick' = IF book # {}
                      THEN [pick EXCEPT !.closeFair = {fair}, !.book = book, !.price = {books[b] : b \in book},
                                        !.currentEdge = {fair - books[b] : b \in book}]
                      ELSE [pick EXCEPT !.closeFair = {fair}, !.currentEdge = ConsistentCurrentEdge(fair)]
  /\ UNCHANGED hasStarted

\* finalize_closing_from_snapshots: the close replaces the fair; the last price stays.
Close ==
  /\ hasStarted /\ repricings < MaxRepricings
  /\ repricings' = repricings + 1
  /\ \E fair \in Fairs :
       /\ fair - pick.implied <= ImplausibleCloseEdge
       /\ pick' = [pick EXCEPT !.closeFair = {fair}, !.currentEdge = ConsistentCurrentEdge(fair)]
  /\ UNCHANGED hasStarted

KickOff ==
  /\ ~hasStarted /\ hasStarted' = TRUE
  /\ UNCHANGED <<pick, repricings>>

LivePriceNext == Reprice \/ Close \/ KickOff

LivePriceSpec == LivePriceInit /\ [][LivePriceNext]_livePriceVars

-----------------------------------------------------------------------------
(* What GET /picks serves                                                       *)

EdgeFloor == MinEdgeOf[pick.tier]

\* Slip: the floor is reckoned from the fair of the day the pick was made.
SlipFloorFair == pick.fair

\* The fair that "still +EV down to" reasons against: the re-priced one, if any.
FloorFair == IF pick.closeFair = {} THEN pick.fair ELSE CHOOSE f \in pick.closeFair : TRUE

\* min_acceptable_odds: nothing when no price keeps the edge.
MinAcceptable == IF FloorFair - EdgeFloor <= 0 THEN {} ELSE {FloorFair - EdgeFloor}

\* confidence_rating, from the live edge if there is one
ShownEdge == IF pick.currentEdge = {} THEN pick.edge ELSE CHOOSE e \in pick.currentEdge : TRUE

\* Slip: the points are shown as they add up.
SlipStars ==
  (IF ShownEdge >= 2 * EdgeFloor THEN 2 ELSE IF ShownEdge >= EdgeFloor THEN 1 ELSE 0)
    + [pinnacle |-> 2, sharp |-> 1, consensus |-> 0][pick.anchor]
    + [none |-> 0, weak |-> -1, strong |-> 1][pick.score] + 1

Stars ==
  LET byEdge   == IF ShownEdge >= 2 * EdgeFloor THEN 2 ELSE IF ShownEdge >= EdgeFloor THEN 1 ELSE 0
      byAnchor == [pinnacle |-> 2, sharp |-> 1, consensus |-> 0][pick.anchor]
      byScore  == [none |-> 0, weak |-> -1, strong |-> 1][pick.score]
      level    == byEdge + byAnchor + byScore + 1
  IN  IF level < 1 THEN 1 ELSE IF level > 5 THEN 5 ELSE level

\* A row of GET /picks
Card ==
  [tier |-> pick.tier, edge |-> ShownEdge, edgeFloor |-> EdgeFloor, entryFair |-> pick.fair,
   liveFair |-> pick.closeFair, price |-> pick.price, currentEdge |-> pick.currentEdge,
   minAcceptable |-> MinAcceptable, stars |-> Stars]

(* What the dashboard makes of it                                               *)

ValueGone == ~hasStarted /\ \E e \in Card.currentEdge : e <= 0

-----------------------------------------------------------------------------
\* Types
LivePriceTypeOK ==
  /\ \A column \in {pick.closeFair, pick.price, pick.currentEdge} : Cardinality(column) <= 1
  /\ pick.book \subseteq PriceBooks
  /\ pick.price = {} <=> pick.book = {}
  /\ Card.stars \in 1 .. 5

\* The verdicts on a card cannot contradict each other, however prices come and go while the fair
\* moves: the edge clears its floor exactly when the price is one that "ok >=" admits, and a pick
\* whose value is gone never has a price that is still good (the audit of 2026-06-26 in
\* _min_acceptable and _consistent_current_edge: "fair - current_edge == 1/effective_odds").
VerdictsAgree ==
  \A p \in Card.price :
    /\ Card.currentEdge = {FloorFair - p}
    /\ Card.edge >= Card.edgeFloor <=> \E m \in Card.minAcceptable : p <= m
    /\ ValueGone => ~\E m \in Card.minAcceptable : p <= m

(***************************************************************************)
(* What GET /performance reports of the settled picks                      *)
(* (app/storage/repositories.py, app/backtesting/live_evidence.py and      *)
(* calibration.py): two sections read the same rows, each choosing on its  *)
(* own the closes it trusts and the samples it holds too small to show.    *)
(*                                                                         *)
(* Probabilities are in hundredths, odds in tenths, clv_log is a size in   *)
(* hundredths; a nullable column is a set of at most one value.            *)
(***************************************************************************)

CONSTANTS MaxSettled,   \* bound: picks that settle
          MinSample,    \* MIN_HEADLINE_N, MIN_STRATUM_N, MIN_CALIBRATION_N
          QStar         \* the manifest's operating point, {} without one

ASSUME EvidenceAssumption == MaxSettled \in Nat /\ MinSample \in Nat \ {0}

VARIABLE settled        \* the picks with a result, in the order of their rows

evidenceVars == <<settled>>

\* Closes that a named sharp book priced
SharpAnchors == {"pinnacle", "sharp"}

ImplausibleEdge == 20
ImplausibleClv  == 50

-----------------------------------------------------------------------------
(* A row.  why is what the close really is, which no column says: a quote of    *)
(* another book taken later, the pick's own fill book, the line of the pick     *)
(* itself, or the other side's (the double-chance rows of old).                 *)

NoClose == [why |-> "none", fair |-> {}, clv |-> {}, beat |-> {}, anchor |-> {},
            independent |-> {}, snapshot |-> FALSE, mintFell |-> {}, closeFell |-> {}]

\* What the closing writers leave of a close of each kind.  A row older than the columns holds no
\* flag at all, and an old independence flag only looked at the book.
Flags(why) == IF why = "ownBook" THEN {FALSE} ELSE IF why = "ownLine" THEN BOOLEAN ELSE {TRUE}

\* The columns a writer of some age fills: none of them, the flag alone, or all three
Columns(why) ==
  {c \in [independent : {{}} \cup {{i} : i \in Flags(why)}, mintFell : {{}, {FALSE}}, closeFell : {{}, {TRUE}, {FALSE}}] :
     (c.independent = {} => c.mintFell = {}) /\ (c.mintFell = {} <=> c.closeFell = {})}

\* Whose line the close is, and whether it comes from the archived snapshots
CloseSources == {[anchor |-> {"pinnacle"}, snapshot |-> TRUE], [anchor |-> {"consensus"}, snapshot |-> TRUE],
                 [anchor |-> {"pinnacle"}, snapshot |-> FALSE]}

CloseOf(why, source, columns) ==
  [why |-> why, fair |-> {IF why = "ownLine" THEN 45 ELSE IF why = "otherSide" THEN 80 ELSE 47},
   clv |-> {IF why = "otherSide" THEN 69 ELSE IF why = "ownBook" THEN 0 ELSE 16}, beat |-> {why # "ownBook"},
   anchor |-> source.anchor, independent |-> columns.independent, snapshot |-> source.snapshot,
   mintFell |-> columns.mintFell, closeFell |-> columns.closeFell]

Closes ==
  {NoClose} \cup UNION {{CloseOf(why, source, columns) : source \in CloseSources, columns \in Columns(why)} :
                          why \in {"independent", "ownBook", "ownLine", "otherSide"}}

\* A settled pick, filled at 2.5 against a fair of 45.  An operator's result may have no pnl.
Rows ==
  {[tier |-> tier, outcome |-> result.outcome, pnl |-> result.pnl, score |-> result.score,
    odds |-> 25, fair |-> 45, close |-> close] :
     tier \in {"premium", "volume"}, close \in Closes,
     result \in {[outcome |-> "won", pnl |-> {1}, score |-> {60}], [outcome |-> "won", pnl |-> {}, score |-> {}],
                 [outcome |-> "push", pnl |-> {0}, score |-> {40}]}}

-----------------------------------------------------------------------------
(* The three faults of a close                                                  *)

\* _clv_row_is_tautological: the close is the line the pick was made against.
Tautological(r) == r.close.clv # {} /\ r.close.fair = {r.fair}

\* _clv_row_is_fabricated: a close no market can have shown, seen in the edge it implies at the
\* fill price, or in the size of the CLV.
Fabricated(r) ==
  /\ r.close.clv # {}
  /\ \/ \E c \in r.close.fair : c * r.odds - 1000 > ImplausibleEdge * r.odds
     \/ \E v \in r.close.clv : v > ImplausibleClv \/ v < -ImplausibleClv

\* _devig_fallback_asymmetric: unknown on either side is held to be symmetric.
Asymmetric(r) == \E a \in r.close.mintFell, b \in r.close.closeFell : a # b

\* Slip: an old row without the flag counts as independent.
SlipIndependent(r) == r.close.independent # {FALSE}

\* The headline trusts only what is known to be independent.
Independent(r) == r.close.independent = {TRUE}

SharpSnapshot(r) == r.close.snapshot /\ r.close.anchor # {} /\ r.close.anchor \subseteq SharpAnchors

-----------------------------------------------------------------------------
(* The headline: _aggregate_settled over the rows of a tier or of a sport       *)

Of(tier) == {i \in DOMAIN settled : settled[i].tier = tier}

\* The rows whose CLV enters the blended figures
Blended(rows) == {i \in rows : settled[i].close.clv # {} /\ ~Fabricated(settled[i]) /\ ~Tautological(settled[i])}

\* Slip: the line of the pick itself is a close like another.
SlipTrusted(rows) ==
  {i \in rows : /\ settled[i].close.clv # {} /\ ~Fabricated(settled[i]) /\ SharpSnapshot(settled[i])
                /\ Independent(settled[i]) /\ ~Asymmetric(settled[i])}

\* The rows of the sharp subset
Trusted(rows) ==
  {i \in Blended(rows) : SharpSnapshot(settled[i]) /\ Independent(settled[i]) /\ ~Asymmetric(settled[i])}

\* A figure of a section: the rows behind it and whether it is shown.
Figure(rows, enough) == [of |-> rows, shown |-> enough]

\* Roi, CLV and beat rate go by the number of settled rows, the sharp figures by their own.
Headline(rows) ==
  LET enough == Cardinality(rows) >= MinSample
      sharp  == Trusted(rows)
  IN  [roi |-> Figure(rows, enough), clv |-> Figure(Blended(rows), enough),
       sharp |-> Figure(sharp, Cardinality(sharp) >= MinSample)]

-----------------------------------------------------------------------------
(* The live evidence                                                            *)

\* The rows whose CLV enters a stratum: only a known circle is left out.
Measured(rows) == {i \in Blended(rows) : settled[i].close.independent # {FALSE}}

\* SettledPickRow.sharp_close
StandsBehind(rows) ==
  {i \in rows : /\ SharpSnapshot(settled[i]) /\ settled[i].close.independent # {FALSE}
                /\ ~Tautological(settled[i]) /\ ~Asymmetric(settled[i]) /\ ~Fabricated(settled[i])}

\* _stratum_stats: every figure of a stratum goes by the number of its CLV rows.
Stratum(rows) ==
  LET clv == Measured(rows)
      enough == Cardinality(clv) >= MinSample
  IN  [clv |-> Figure(clv, enough), beat |-> Figure({i \in clv : settled[i].close.beat # {}}, enough),
       roi |-> Figure({i \in rows : settled[i].pnl # {}}, enough)]

\* _score_bucket
Bucket(r) ==
  IF r.score = {} THEN "unscored" ELSE IF QStar = {} THEN "scored"
  ELSE IF \E s \in r.score, q \in QStar : s >= q THEN "score_ge_q" ELSE "score_lt_q"

\* live_evidence_report: the strata by score, tier and close anchor, and the closes it stands behind.
LiveEvidence ==
  LET all == DOMAIN settled
  IN  [score |-> [b \in {Bucket(settled[i]) : i \in all} |-> Stratum({i \in all : Bucket(settled[i]) = b})],
       tier |-> [x \in {settled[i].tier : i \in all} |-> Stratum(Of(x))],
       anchor |-> [a \in UNION {settled[i].close.anchor : i \in all} |->
                     Stratum({i \in all : settled[i].close.anchor = {a}})],
       sharp |-> Stratum(StandsBehind(all))]

\* meta_model_calibration: the scores against the closes they met, with no close left out.
ScoredAgainstClose == {i \in DOMAIN settled : settled[i].score # {} /\ settled[i].close.beat # {}}

\* bet_band_observations and bet_band_reliability: the alerted picks won or lost, all in one band here.
BandObservations == {i \in Of("premium") : settled[i].outcome \in {"won", "lost"}}

Calibration(rows) == Figure(rows, Cardinality(rows) >= MinSample)

\* GET /performance
Performance ==
  [headline |-> Headline(Of("premium")), volume |-> Headline(Of("volume")), sport |-> Headline(DOMAIN settled),
   live |-> LiveEvidence, meta |-> Calibration(ScoredAgainstClose), band |-> Calibration(BandObservations)]

-----------------------------------------------------------------------------
EvidenceInit == settled = <<>>

\* A pick settles; its close is what finalize, revalidation or an old writer left on it.
PickSettles == Len(settled) < MaxSettled /\ \E r \in Rows : settled' = Append(settled, r)

EvidenceNext == PickSettles

EvidenceSpec == EvidenceInit /\ [][EvidenceNext]_evidenceVars

-----------------------------------------------------------------------------
(* Properties                                                                   *)

EvidenceTypeOK == Len(settled) <= MaxSettled /\ \A i \in DOMAIN settled : settled[i].close \in Closes

\* The sharp figures rest only on closes another book priced later, whatever the age of the
\* row's columns, and none of them shows before it has its own sample: a fill priced by its own
\* book, the archived line of the pick itself, or the price of the other side never counts
\* (_aggregate_settled: "the closes whose CLV the platform can stand behind").
SharpIsEvidence ==
  \A figures \in {Performance.headline, Performance.volume, Performance.sport} :
    /\ \A i \in figures.sharp.of : settled[i].close.why = "independent"
    /\ figures.sharp.shown => Cardinality(figures.sharp.of) >= MinSample

==============================================================================
