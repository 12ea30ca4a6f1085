------------------------------ MODULE PickGates ------------------------------
(***************************************************************************)
(* What becomes of a priced candidate in run_value_pipeline (app/pipeline  *)
(* .py): the gates that drop it, the ones that move it from the premium    *)
(* tier to the volume one, the per-market policy they read (app/edge/value *)
(* _policy.py) and the line-movement gate (app/edge/steam.py).             *)
(*                                                                         *)
(* Probabilities and edges are in hundredths, odds in tenths.  A market is *)
(* its detailed key, the stem of that key, and its family.                 *)
(***************************************************************************)
EXTENDS Integers, Sequences, SequencesExt

CONSTANTS Policies,        \* settings of the gates
          PricedCandidates,  \* priced candidates
          MaxGateClock     \* bound: the clock

PolicyFields    == {"minEdge", "maxEdge", "minBooks", "majors", "visibilityOnly", "bands", "sharpOnly",
                    "experimental", "filter", "steam", "steamAway"}
CandidateFields == {"market", "sport", "league", "anchor", "edge", "odds", "softBooks", "sharpBooks",
                    "score", "moves", "kickoff", "captured"}

ASSUME GatesAssumption ==
  /\ MaxGateClock \in Nat
  /\ \A p \in Policies : DOMAIN p = PolicyFields
  /\ \A c \in PricedCandidates : DOMAIN c = CandidateFields /\ c.kickoff \in Int

VARIABLES gatePolicy,   \* deps.value_policy, value_filter and steam_policy
          gateClock,    \* time since the cycle began
          offer,        \* the candidate being priced, with the time of its price, or none
          ruling        \* its tier, "dropped", or "none"

gateVars == <<gatePolicy, gateClock, offer, ruling>>

VolumeFloor   == 1     \* value_volume_min_edge
PremiumFloor  == 3     \* value_min_edge
EdgeLimit     == 20    \* value_max_edge
MaxAge        == 1     \* max_odds_age_seconds
AhMaxOdds     == 150
AhMaxRatio    == 3
LongshotOdds  == 50    \* moneyline_max_odds
Lookback      == 4
AnchorMaxAge  == 2     \* anchor_staleness_seconds
MinPoints     == 2
MinGap        == 1
SteamedMove   == 4     \* soft_steam_away_delta

-----------------------------------------------------------------------------
(* value_policy.py *)

\* market_lookup_keys: the override of the detailed key, else the family's, else the default.
LookUp(overrides, key, default) ==
  IF key.detail \in DOMAIN overrides THEN overrides[key.detail]
  ELSE IF key.family \in DOMAIN overrides THEN overrides[key.family]
  ELSE default

MinEdgeFor(p, key)  == LookUp(p.minEdge, key, PremiumFloor)
MaxEdgeFor(p, key)  == LookUp(p.maxEdge, key, EdgeLimit)
MinBooksFor(p, key) == LookUp(p.minBooks, key, 0)

IsMajorLeague(p, league) == p.majors = {} \/ league \in p.majors

\* _sport_in_scope: a key of one competition falls under its sport's.
SportInScope(sport, key) == key \in {"any", sport} \/ (key = "soccer" /\ sport = "soccer_epl")

IsVisibilityOnly(p, c) ==
  \E e \in p.visibilityOnly :
    SportInScope(c.sport, e.sport) /\ e.market \in {c.market.detail, c.market.stem, c.market.family}

OddsInBands(p, odds) == p.bands = {} \/ \E b \in p.bands : b[1] <= odds /\ odds <= b[2]

-----------------------------------------------------------------------------
(* steam.py: series of prices as implied probabilities with their age, oldest first *)

\* _window: nothing older than the lookback, nothing from after now.
InWindow(series) == SelectSeq(series, LAMBDA q : q.age >= 0 /\ q.age <= Lookback)

StaleAnchor(anchor) == anchor = <<>> \/ Last(anchor).age > AnchorMaxAge

\* Whether half of the gap the window opened with has closed.
SoftTowardAnchor(fill, anchor) ==
  /\ Len(fill) >= MinPoints /\ anchor # <<>>
  /\ LET gapOpen == Head(anchor).implied - Head(fill).implied
         gapNow  == Last(anchor).implied - Last(fill).implied
     IN  gapOpen >= MinGap /\ gapNow < gapOpen /\ 2 * (gapOpen - gapNow) >= gapOpen

SoftSteamedAway(fill) ==
  Len(fill) >= MinPoints /\ Head(fill).implied - Last(fill).implied >= SteamedMove

\* evaluate_steam
Tripped(p, moves) ==
  LET fill == InWindow(moves.fill)  anchor == InWindow(moves.anchor) IN
  SoftTowardAnchor(fill, anchor) \/ StaleAnchor(anchor) \/ (p.steamAway /\ SoftSteamedAway(fill))

-----------------------------------------------------------------------------
(* The candidate loop of run_value_pipeline *)

\* ah_candidate_plausible
AhPlausible(c) ==
  LET implied == 1000 \div c.odds
  IN  c.odds <= AhMaxOdds /\ implied + c.edge <= AhMaxRatio * implied

Age(c, now) == IF c.captured > now THEN 0 ELSE now - c.captured

\* Slip: the sharp books count for the coverage of a market.
SlipThin(p, c) == c.softBooks + c.sharpBooks < MinBooksFor(p, c.market)

\* distinct_book_count leaves the sharp books out.
Thin(p, c) == c.softBooks < MinBooksFor(p, c.market)

LowestFloor(p) == LET overrides == {p.minEdge[k] : k \in DOMAIN p.minEdge}
                IN  CHOOSE e \in overrides \cup {VolumeFloor, PremiumFloor} :
                      \A o \in overrides \cup {VolumeFloor, PremiumFloor} : e <= o

\* What keeps a candidate out of the table.
Dropped(p, c, now) ==
  \/ c.kickoff <= now
  \/ Thin(p, c)
  \/ c.edge < LowestFloor(p) \/ c.edge > MaxEdgeFor(p, c.market)
  \/ c.market.stem = "asian_handicap" /\ ~AhPlausible(c)
  \/ Age(c, now) > MaxAge
  \/ ~OddsInBands(p, c.odds)
  \/ c.edge < MinEdgeFor(p, c.market) /\ c.edge < VolumeFloor

\* Slip: a model loaded for its scores alone demotes.
SlipMlDemotes(p, c) == p.filter # "off" /\ c.score = "low"

\* A shadow model never demotes, and a candidate out of the model's scope has no score.
MlDemotes(p, c) == p.filter = "enforced" /\ c.score = "low"

SteamDemotes(p, c) == p.steam = "enforced" /\ c.anchor # "consensus" /\ Tripped(p, c.moves)

\* What moves a premium candidate to the volume tier.
Demoted(p, c) ==
  \/ IsVisibilityOnly(p, c)
  \/ c.market.family = "h2h" /\ c.odds > LongshotOdds
  \/ ~IsMajorLeague(p, c.league)
  \/ p.sharpOnly /\ c.anchor = "consensus"
  \/ c.sport \in p.experimental
  \/ MlDemotes(p, c)
  \/ SteamDemotes(p, c)

\* pick_tier and the demotions after it
Ruling(p, c, now) ==
  IF Dropped(p, c, now) THEN "dropped"
  ELSE IF c.edge >= MinEdgeFor(p, c.market) /\ ~Demoted(p, c) THEN "premium" ELSE "volume"

-----------------------------------------------------------------------------
(* A cycle: the scrape of minutes that stamps each price when it reads it, then the gates *)

NoOffer == [captured |-> -1]

\* A page is read; the ones of a game under way show in-play prices.
Scrape == /\ offer = NoOffer /\ ruling = "none"
          /\ \E c \in PricedCandidates : offer' = [c EXCEPT !.captured = gateClock]
          /\ UNCHANGED <<gatePolicy, gateClock, ruling>>

\* Slip: the time of the cycle is the one it began at.
SlipCycleNow == 0

\* now is read after the fetch.
CycleNow == gateClock

Judge == /\ offer # NoOffer /\ ruling = "none"
         /\ ruling' = Ruling(gatePolicy, offer, CycleNow)
         /\ UNCHANGED <<gatePolicy, gateClock, offer>>

NextCycle == /\ ruling # "none"
             /\ offer' = NoOffer /\ ruling' = "none" /\ gateClock' = 0
             /\ UNCHANGED gatePolicy

GateTick == /\ ruling = "none" /\ gateClock < MaxGateClock
            /\ gateClock' = gateClock + 1
            /\ UNCHANGED <<gatePolicy, offer, ruling>>

GatesInit == /\ gatePolicy \in Policies
             /\ gateClock = 0
             /\ offer = NoOffer /\ ruling = "none"

GatesNext == Scrape \/ Judge \/ NextCycle \/ GateTick

GatesSpec == GatesInit /\ [][GatesNext]_gateVars

GatesTypeOK == /\ gateClock \in 0 .. MaxGateClock
               /\ offer = NoOffer \/ offer.captured \in 0 .. gateClock
               /\ ruling \in {"none", "dropped", "volume", "premium"}

-----------------------------------------------------------------------------
(* Properties *)

\* No pick of either tier is minted from a price that was read once the game was under way,
\* although the pages of a cycle are read over minutes and a listed game may kick off in
\* between (the in-play gate and the time of the cycle in app/pipeline.py).
NoInPlayPriceMints == ruling \in {"volume", "premium"} => offer.captured < offer.kickoff

\* What is measured only changes nothing: a value filter loaded as a shadow, a movement gate
\* that is not enforced, and sharp lines injected next to the soft books leave the tier of
\* every candidate as it is without them (app/pipeline.py, app/edge/value_policy.py).
Unmeasured(p) == [p EXCEPT !.filter = IF @ = "shadow" THEN "off" ELSE @,
                           !.steam  = IF @ = "shadow" THEN "off" ELSE @]
ShadowChangesNothing ==
  [][ruling = "none" /\ ruling' # "none" =>
       ruling' = Ruling(Unmeasured(gatePolicy), [offer EXCEPT !.sharpBooks = 0], gateClock)]_gateVars

=============================================================================
