----------------------------- MODULE Resolution -----------------------------
(***************************************************************************)
(* Which game of the Pinnacle archive a pick is priced against.  The       *)
(* archive names its teams and times its kickoffs in its own way, so       *)
(* repositories.resolve_pinnacle_close_snaps has to find the pick's game   *)
(* among every archived event near its kickoff (matching.py), by its       *)
(* displayed names and then by the names in its page's address, and to     *)
(* carry the archive's two sides over to the pick's.  The archive grows    *)
(* while picks are being resolved: a game may be captured twice, under two *)
(* kickoffs or two spellings, and its rematch next to it.                  *)
(*                                                                         *)
(* A name is a club, the women, youth or reserve markers it carries and a  *)
(* spelling; a tennis player is a surname and an initial.  A game and a    *)
(* pick are named once, whatever a source writes.  Times are hours.        *)
(***************************************************************************)
EXTENDS Integers, FiniteSets, FiniteSetsExt

CONSTANTS RealGames,     \* the games: [sides, markers, start, tennis, league], sides and markers
                         \* pairs, the league as the archive names it
          PickPages,     \* the picks' pages: [game, league, spelling, slugSpelling, slugMarkers, slugTurned]
          LookAlikes,    \* pairs of different clubs whose bare names pass for one another
          Drifts,        \* how far from the start an archived kickoff may lie
          Spellings,     \* how the archive may spell a game's names
          Turned,        \* whether the archive may list a team game away side first: {FALSE} or
                         \* BOOLEAN; two tennis players come in either order
          ArchiveLimit,  \* bound: captures in the archive
          AnchorAge,     \* sharp_anchor_max_age_seconds, in hours
          LastMatchHour  \* bound: the clock

VARIABLES archive,       \* captured events: [game, turned, spelling, kickoff, at]
          hour           \* the clock

matchVars == <<archive, hour>>

FetchWindow == 48        \* max_day_drift + 1 days
AcceptBound == 6         \* _ACCEPT_MINUTE_DRIFT
SpreadOfOne == 6         \* _DUPLICATE_CAPTURE_SECONDS
Margin      == 4         \* _AMBIGUITY_MARGIN, in hundredths

Swap(pair) == <<pair[2], pair[1]>>

Apart(t, u) == IF t < u THEN u - t ELSE t - u

\* Two games a name cannot tell apart: the same clubs, in either order, with the same markers.
Namesakes(g, h) ==
  \/ g.sides = h.sides /\ g.markers = h.markers
  \/ g.sides = Swap(h.sides) /\ g.markers = Swap(h.markers)

\* The same club, or one whose bare name passes both bars of _base_name_ok without a disambiguating
\* token between them.
Kin(x, y) == x = y \/ {x, y} \in LookAlikes

\* What the accept bound is for (matching.py): a return game, the next game of a series or a second
\* meeting of two players is never archived within the bound of the first.  Nothing is assumed of
\* look-alikes.
ASSUME MatchAssumption ==
  /\ Drifts \subseteq Int /\ LastMatchHour \in Nat /\ Turned \subseteq BOOLEAN
  /\ \A g \in RealGames :
       /\ g.start \in Int /\ g.tennis \in BOOLEAN
       /\ g.sides = <<g.sides[1], g.sides[2]>> /\ g.markers = <<g.markers[1], g.markers[2]>>
  /\ \A g, h \in RealGames, drift \in Drifts :
       Namesakes(g, h) /\ Apart(g.start + drift, h.start) <= AcceptBound => g = h

\* An address gives a game's markers or none.
ASSUME PageAssumption ==
  \A p \in PickPages :
    /\ p.game \in RealGames /\ p.slugTurned \in BOOLEAN
    /\ p.slugMarkers \in {p.game.markers, <<{}, {}>>}

\* The pair of names a source gives a game: the clubs, the markers they
\* carry and how they are spelled, in the order the source lists them.
Named(clubs, markers, spelling, turned) ==
  LET straight == [i \in 1..2 |-> [club |-> clubs[i], markers |-> markers[i], spelling |-> spelling]]
  IN IF turned THEN Swap(straight) ELSE straight

Listed(c) == Named(c.game.sides, c.game.markers, c.spelling, c.turned)
Display(p) == Named(p.game.sides, p.game.markers, p.spelling, FALSE)
Slug(p) == Named(p.game.sides, p.slugMarkers, p.slugSpelling, p.slugTurned)

\* What a spelling costs in Jaro-Winkler, in hundredths; a spelling outside the table misses the
\* accept bar against any other.  A look-alike costs something in any spelling.
Loss == [exact |-> 0, near |-> 3, far |-> 6]
LookAlikeLoss == 5

\* _base_name_ok: the same name, or one close enough.
Alike(a, b) ==
  /\ Kin(a.club, b.club)
  /\ a.spelling = b.spelling \/ {a.spelling, b.spelling} \subseteq DOMAIN Loss

Misspelt(a, b) ==
  (IF a.club = b.club THEN 0 ELSE LookAlikeLoss)
  + (IF a.spelling = b.spelling THEN 0 ELSE Loss[a.spelling] + Loss[b.spelling])

\* How the names of a pick are compared: "team", in order; "tennis", in either order, every spelling of
\* a player folded into one (canonical_tennis_name); "raw", in either order and as written.
Kind(p) == IF p.game.tennis THEN "tennis" ELSE "team"

Folded(names, kind) ==
  IF kind = "tennis" THEN [i \in 1..2 |-> [names[i] EXCEPT !.spelling = "exact"]] ELSE names

\* Both sides agree, each with its own marker (_markers_conflict is a veto).
SlipSidesAgree(wanted, found) == \A i \in 1..2 : Alike(wanted[i], found[i])
SidesAgree(wanted, found) ==
  \A i \in 1..2 : /\ wanted[i].markers = found[i].markers
                  /\ Alike(wanted[i], found[i])

\* The orientation in which a capture fits, if any: as listed, or else, for an unordered fixture, the
\* other way round.
Fits(wanted, c, kind) ==
  LET found == Folded(Listed(c), kind)
  IN IF SidesAgree(wanted, found) THEN {found}
     ELSE {o \in {Swap(found)} : kind # "team" /\ SidesAgree(wanted, o)}

Cost(wanted, c, kind) ==
  LET o == CHOOSE o \in Fits(wanted, c, kind) : TRUE
  IN Misspelt(wanted[1], o[1]) + Misspelt(wanted[2], o[2])

SlipInBound(kickoff, c) == Apart(c.kickoff, kickoff) <= FetchWindow
InBound(kickoff, c) == Apart(c.kickoff, kickoff) <= AcceptBound

SameFixture(c, d, kind) == Folded(Listed(c), kind) = Folded(Listed(d), kind)

\* The order of the candidates: by cost, then by the distance of the kickoffs.
Rank(wanted, kickoff, kind, c) ==
  (FetchWindow + 1) * Cost(wanted, c, kind) + Apart(c.kickoff, kickoff)

Nearest(wanted, kickoff, kind, candidates) ==
  CHOOSE c \in candidates :
    \A d \in candidates : Rank(wanted, kickoff, kind, c) <= Rank(wanted, kickoff, kind, d)

\* Nothing is matched when the runner-up is another fixture spelled about as well, or
\* when a capture of the same fixture lies too far off to be the same game.
Ambiguous(wanted, kind, best, rest, runner) ==
  \/ /\ ~SameFixture(runner, best, kind)
     /\ Cost(wanted, runner, kind) - Cost(wanted, best, kind) < Margin
  \/ \E c \in rest : /\ SameFixture(c, best, kind)
                     /\ Apart(c.kickoff, best.kickoff) > SpreadOfOne

Accept(wanted, kickoff, kind, best, rest) ==
  IF rest # {} /\ Ambiguous(wanted, kind, best, rest, Nearest(wanted, kickoff, kind, rest))
  THEN {} ELSE {best}

\* The candidates that may be accepted.
Eligible(wanted, kickoff, kind, candidates) ==
  {c \in candidates : /\ Apart(c.kickoff, kickoff) <= FetchWindow
                      /\ Fits(wanted, c, kind) # {}
                      /\ InBound(kickoff, c)}

\* match_event_hardened: the closest in-bound capture, as a set of at most
\* one (ties go to the lower id, which is any of them here).
Matches(wanted, kickoff, kind, candidates) ==
  LET eligible == Eligible(wanted, kickoff, kind, candidates)
      best == Nearest(wanted, kickoff, kind, eligible)
  IN IF eligible = {} THEN {} ELSE Accept(wanted, kickoff, kind, best, eligible \ {best})

\* The events of the archive's namespace for the pick's sport.
Namespace(p) == {c \in archive : c.game.tennis = p.game.tennis}

\* The address is tried only while it keeps every marker the display has.
SlipKeepsMarkers(p) == TRUE
KeepsMarkers(p) ==
  UNION {Display(p)[i].markers : i \in 1..2} \subseteq UNION {Slug(p)[i].markers : i \in 1..2}

\* resolve_pinnacle_close_snaps: by display, then by address.  The leagues are not compared.
FirstFound(byName, byAddress) == IF byName # {} THEN byName ELSE byAddress

ByDisplay(p) == Matches(Folded(Display(p), Kind(p)), p.game.start, Kind(p), Namespace(p))
ByAddress(p) == Matches(Folded(Slug(p), Kind(p)), p.game.start, Kind(p), Namespace(p))

Resolved(p) == FirstFound(ByDisplay(p), IF KeepsMarkers(p) THEN ByAddress(p) ELSE {})

\* The club whose archived price is offered for side i of the pick: by position, and for an unordered
\* fixture by name, where a price of neither player is dropped.
SlipPriceOf(p, c, i) == {Listed(c)[i].club}
PriceOf(p, c, i) ==
  IF p.game.tennis THEN {Listed(c)[j].club : j \in 1..2} \cap {Display(p)[i].club}
  ELSE {Listed(c)[i].club}

\* build_sharp_anchor_loader: of what a pick resolves to, a live pick is
\* anchored only on the source whose newest row is recent enough.
Anchors(resolved) == {c \in resolved : hour - c.at <= AnchorAge}

\* verify_same_game: the audit looks at the resolved capture again, against the displayed names.  Its
\* name rule also takes a name that adds to the plain one (a sponsor's tail), the loader's does not.
Related(a, b) ==
  \/ Alike(a, b)
  \/ a.club = b.club /\ "exact" \in {a.spelling, b.spelling}

Verified(p, c) ==
  LET found == Folded(Listed(c), Kind(p)) IN
  /\ Apart(c.kickoff, p.game.start) <= AcceptBound
  /\ \E o \in {found} \cup (IF p.game.tennis THEN {Swap(found)} ELSE {}) :
       \A i \in 1..2 : /\ Display(p)[i].markers = o[i].markers
                       /\ Related(Display(p)[i], o[i])

\* audit_live_pinnacle_anchors: the anchors a pick is accused of.
Accused(p, anchors) == {c \in anchors : ~Verified(p, c)}

\* The report's candidates: the calendar days around, and for the hardened matcher the events of no
\* other league, where both are known (_leagues_agree).
Nearby(p) == {c \in Namespace(p) : Apart(c.kickoff \div 24, p.game.start \div 24) <= 1}

LeaguesAgree(p, c) == "" \in {p.league, c.game.league} \/ p.league = c.game.league

\* match_event: exact names, in order; of several captures the nearest.
ExactMatch(wanted, candidates) == \E c \in candidates : Listed(c) = wanted

\* shadow_match_rate_outcomes, one pick: matched or not.  A player's names are not folded here, and the
\* address is tried for exact names alone, whatever markers it drops.
ShadowMatched(p) ==
  \/ ExactMatch(Display(p), Nearby(p))
  \/ ExactMatch(Slug(p), Nearby(p))
  \/ Matches(Display(p), p.game.start, IF p.game.tennis THEN "raw" ELSE "team",
             {c \in Nearby(p) : LeaguesAgree(p, c)}) # {}
-----------------------------------------------------------------------------
MatchInit == archive = {} /\ hour = 0

\* The archive takes in a game, under the kickoff its feed gives.
CaptureGame(g, drift, spelling, turned) ==
  /\ Cardinality(archive) < ArchiveLimit
  /\ archive' = archive \cup {[game |-> g, turned |-> turned, spelling |-> spelling,
                               kickoff |-> g.start + drift, at |-> hour]}
  /\ UNCHANGED hour

HourPasses == hour < LastMatchHour /\ hour' = hour + 1 /\ UNCHANGED archive

MatchNext ==
  \/ \E g \in RealGames, drift \in Drifts, spelling \in Spellings :
       \E turned \in Turned \cup (IF g.tennis THEN BOOLEAN ELSE {}) :
         CaptureGame(g, drift, spelling, turned)
  \/ HourPasses

MatchSpec == MatchInit /\ [][MatchNext]_matchVars
-----------------------------------------------------------------------------
MatchTypeOK ==
  /\ \A c \in archive : c.game \in RealGames /\ c.turned \in BOOLEAN /\ c.spelling \in Spellings
                        /\ c.kickoff - c.game.start \in Drifts /\ c.at \in 0..hour
  /\ hour \in 0..LastMatchHour

\* Two games of clubs with like names, in either order, with the same markers.
Resembles(g, h) ==
  \/ \A i \in 1..2 : Kin(g.sides[i], h.sides[i]) /\ g.markers[i] = h.markers[i]
  \/ \A i \in 1..2 : Kin(g.sides[i], Swap(h.sides)[i]) /\ g.markers[i] = Swap(h.markers)[i]

\* A pick is priced against its own game, or one of clubs that look like its own: never the women's,
\* youth or reserve game, and of its own clubs never a rematch or another leg, however the archive and
\* the page spell them.
RightGame(p, resolved) ==
  \A c \in resolved : /\ Resembles(c.game, p.game)
                      /\ Namesakes(c.game, p.game) => c.game = p.game

\* A look-alike does not come before the real thing: where the archive has the pick's names as they
\* are displayed, near its kickoff, the displayed names match no other game.
OwnGameFirst(p) ==
  (\E c \in Namespace(p) : /\ Folded(Listed(c), Kind(p)) = Folded(Display(p), Kind(p))
                           /\ InBound(p.game.start, c))
  => \A c \in ByDisplay(p) : c.game = p.game

\* The one way a team's price changes sides: the page's address names the away side first, and so does
\* the archive, or it finds a look-alike's return game.
ByTurnedAddress(p, c) ==
  /\ ~p.game.tennis /\ p.slugTurned /\ c \notin ByDisplay(p)
  /\ c.turned \/ c.game # p.game

\* Each side of a pick is offered that side's price, or a look-alike's: "home->home, away->away; NEVER
\* swapped" (repositories.py), but for a turned address.
RightSide(p, resolved) ==
  \A c \in resolved, i \in 1..2 :
    /\ ByTurnedAddress(p, c) \/ \A club \in PriceOf(p, c, i) : Kin(club, p.game.sides[i])
    /\ c.game = p.game /\ (p.game.tennis \/ ~c.turned) => PriceOf(p, c, i) = {p.game.sides[i]}

\* The audit accuses every anchor whose price went to the other side, and none that a team's displayed
\* names found, nor the pick's own game under its plain names or its players'.
AuditIsRight(p, resolved) ==
  LET accused == Accused(p, Anchors(resolved)) IN
  \A c \in Anchors(resolved) :
    /\ (\E i \in 1..2 : \E club \in PriceOf(p, c, i) : ~Kin(club, p.game.sides[i])) => c \in accused
    /\ ~p.game.tennis /\ c \in ByDisplay(p) => c \notin accused
    /\ c.game = p.game /\ (p.game.tennis \/ (c.spelling = "exact" /\ ~c.turned)) => c \notin accused

\* The match report counts a team game's pick priced on exactly its page's names, and one its displayed
\* names resolve it misses only where the archive files such a game under another league.
Reported(p, resolved) ==
  /\ (\E c \in resolved : ~p.game.tennis /\ Listed(c) \in {Display(p), Slug(p)}) => ShadowMatched(p)
  /\ ~p.game.tennis /\ ByDisplay(p) # {} /\ ~ShadowMatched(p)
     => \E c \in Eligible(Display(p), p.game.start, "team", Namespace(p)) : ~LeaguesAgree(p, c)

\* What a pick resolves to is the right game, offered to the right side; the audit, which looks again
\* with rules of its own, judges it rightly, and the match report misses it for a reason.
ResolvedRight ==
  \A p \in PickPages :
    LET resolved == Resolved(p) IN
      /\ RightGame(p, resolved) /\ OwnGameFirst(p) /\ RightSide(p, resolved)
      /\ AuditIsRight(p, resolved) /\ Reported(p, resolved)
=============================================================================
