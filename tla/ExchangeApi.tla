---------------------------- MODULE ExchangeApi ----------------------------
(***************************************************************************)
(* The Betfair API capture (betfair_api.py and its job in scheduler.py).   *)
(* A cycle reads the catalogue of markets about to start and then their    *)
(* prices, a batch of markets per call, over a session whose token lives   *)
(* in memory only and that the server may end at any moment.  A call that  *)
(* finds the session ended signs in again once; any other failure loses    *)
(* the cycle, and nothing of a lost cycle is written.  What a cycle wrote  *)
(* carries the time the cycle began.                                       *)
(***************************************************************************)
EXTENDS Integers, FiniteSets

CONSTANTS ApiMarkets,    \* Betfair's markets: [ref, kickoff, roles, price, scraped], ref a set
                         \* of at most one matched event, roles whether home and away are
                         \* listed, scraped the scrape's own last price and time, a set
          BookBatch,     \* _MARKET_BOOK_BATCH
          Window,        \* betfair_api_window_hours
          Promote,       \* value_betfair_api_promote
          ApiClock,      \* bound: the clock
          MaxLogins      \* bound: tokens the server gives out

ASSUME ApiAssumption == IsFiniteSet(ApiMarkets) /\ {ApiClock, MaxLogins} \subseteq Nat

VARIABLES apiNow,        \* the clock
          token,         \* _session_token: 0 for none
          ended,         \* tokens the server no longer honours
          logins,        \* tokens given out
          cycle,         \* [op, stamp, todo, got, refused]
          lost,          \* how the last cycle ended, and the tokens it was refused
          report,        \* BetfairApiShadowReport of the last cycle that ended well
          promoted       \* rows written: [market, stamp, readAt]

apiVars == <<apiNow, token, ended, logins, cycle, lost, report, promoted>>

NoCycle == [op |-> "none", stamp |-> 0, todo |-> {}, got |-> {}, refused |-> {}]

\* betfair_tick_size and within_one_tick, over prices in hundredths: the
\* width of a step, taken at the higher of the two prices.
Ladder == <<<<200, 1>>, <<300, 2>>, <<400, 5>>, <<600, 10>>, <<1000, 20>>, <<2000, 50>>>>
TickSize(price) ==
  IF \E i \in DOMAIN Ladder : price < Ladder[i][1]
  THEN LET i == CHOOSE i \in DOMAIN Ladder : /\ price < Ladder[i][1]
                                             /\ \A j \in 1..(i - 1) : price >= Ladder[j][1]
       IN Ladder[i][2]
  ELSE 1000
WithinOneTick(a, b) == IF a < b THEN b - a <= TickSize(b) ELSE a - b <= TickSize(a)

\* _compare: each matched market against what the scrape last wrote for its
\* event, if it wrote anything.
Compared(got) == {r \in got : r.market.ref # {} /\ r.market.scraped # {}}
Agree(got) ==
  {r \in Compared(got) : \A s \in r.market.scraped : WithinOneTick(r.market.price, s.price)}
Fresher(got, stamp) ==
  {r \in Compared(got) : \A s \in r.market.scraped : stamp - s.at > 0}

\* The markets of the catalogue, first to start first; a market without its
\* two teams is not joined (join_match_odds, _roles).
Catalogue(stamp) == {m \in ApiMarkets : m.kickoff >= stamp /\ m.kickoff <= stamp + Window}
Joined(got) == {r \in got : r.market.roles}
NextBatch(todo) ==
  {b \in SUBSET todo : /\ Cardinality(b) = (IF Cardinality(todo) < BookBatch
                                            THEN Cardinality(todo) ELSE BookBatch)
                       /\ \A m \in b, n \in todo \ b : m.kickoff <= n.kickoff}
-----------------------------------------------------------------------------
ApiInit ==
  /\ apiNow = 0
  /\ token = 0
  /\ ended = {}
  /\ logins = 0
  /\ cycle = NoCycle
  /\ lost = [why |-> "nothing", refused |-> {}]
  /\ report = [fetched |-> 0, matched |-> 0, unmatched |-> 0, compared |-> 0, agree |-> 0, fresher |-> 0]
  /\ promoted = {}

StartApiCycle ==
  /\ cycle = NoCycle
  /\ cycle' = [NoCycle EXCEPT !.op = "catalogue", !.stamp = apiNow]
  /\ UNCHANGED <<apiNow, token, ended, logins, lost, report, promoted>>

LoseCycle(why) ==
  /\ cycle' = NoCycle
  /\ lost' = [why |-> why, refused |-> cycle.refused]
  /\ UNCHANGED <<apiNow, ended, logins, report, promoted>>

\* login: no token is held, for the first call or because the last one was
\* refused.
LogIn ==
  /\ cycle # NoCycle
  /\ token = 0
  /\ logins < MaxLogins
  /\ logins' = logins + 1
  /\ token' = logins'
  /\ UNCHANGED <<apiNow, ended, cycle, lost, report, promoted>>

LoginFails ==
  /\ cycle # NoCycle
  /\ token = 0
  /\ LoseCycle("login")
  /\ UNCHANGED token

\* _rpc: a call over an ended session drops the token and tries once more;
\* the second refusal is raised and leaves the token where it is.
SlipAfterRefusal ==
  IF cycle.refused = {}
  THEN /\ UNCHANGED token
       /\ cycle' = [cycle EXCEPT !.refused = @ \cup {token}]
       /\ UNCHANGED <<apiNow, ended, logins, lost, report, promoted>>
  ELSE /\ LoseCycle("session")
       /\ UNCHANGED token
AfterRefusal ==
  IF cycle.refused = {}
  THEN /\ token' = 0
       /\ cycle' = [cycle EXCEPT !.refused = {token}]
       /\ UNCHANGED <<apiNow, ended, logins, lost, report, promoted>>
  ELSE /\ cycle' = NoCycle
       /\ lost' = [why |-> "session", refused |-> cycle.refused \cup {token}]
       /\ UNCHANGED <<apiNow, token, ended, logins, report, promoted>>

CallRefused ==
  /\ cycle # NoCycle
  /\ token # 0 /\ token \in ended
  /\ AfterRefusal

\* Any other error code, a status that is not 200, or three transport errors.
CallFails ==
  /\ cycle # NoCycle
  /\ token # 0
  /\ LoseCycle("call")
  /\ UNCHANGED token

\* listMarketCatalogue: what starts within the window from the cycle's time.
CatalogueRead ==
  /\ cycle.op = "catalogue"
  /\ token # 0 /\ token \notin ended
  /\ cycle' = [cycle EXCEPT !.op = "books", !.todo = Catalogue(cycle.stamp), !.refused = {}]
  /\ UNCHANGED <<apiNow, token, ended, logins, lost, report, promoted>>

\* listMarketBook, one asked: prices as they are now.
BooksRead ==
  /\ cycle.op = "books" /\ cycle.todo # {}
  /\ token # 0 /\ token \notin ended
  /\ \E asked \in NextBatch(cycle.todo) :
       cycle' = [cycle EXCEPT !.todo = @ \ asked,
                              !.got = @ \cup {[market |-> m, readAt |-> apiNow] : m \in asked},
                              !.refused = {}]
  /\ UNCHANGED <<apiNow, token, ended, logins, lost, report, promoted>>

\* _snapshots_for: the row carries the cycle's own time, whenever its price was read.
Written(r) == [market |-> r.market, stamp |-> cycle.stamp, readAt |-> r.readAt]

ApiCycleEnds ==
  /\ cycle.op = "books" /\ cycle.todo = {}
  /\ LET joined == Joined(cycle.got)
         matched == {r \in joined : r.market.ref # {}}
     IN /\ report' = [fetched |-> Cardinality(joined),
                      matched |-> Cardinality(matched),
                      unmatched |-> Cardinality(joined \ matched),
                      compared |-> Cardinality(Compared(joined)),
                      agree |-> Cardinality(Agree(joined)),
                      fresher |-> Cardinality(Fresher(joined, cycle.stamp))]
        /\ promoted' = IF Promote THEN promoted \cup {Written(r) : r \in matched} ELSE promoted
  /\ cycle' = NoCycle
  /\ UNCHANGED <<apiNow, token, ended, logins, lost>>

\* The server ends the session: it expired, or the account signed in elsewhere.
SessionEnds ==
  /\ token # 0 /\ token \notin ended
  /\ ended' = ended \cup {token}
  /\ UNCHANGED <<apiNow, token, logins, cycle, lost, report, promoted>>

ApiTick ==
  /\ apiNow < ApiClock
  /\ apiNow' = apiNow + 1
  /\ UNCHANGED <<token, ended, logins, cycle, lost, report, promoted>>

ApiNext ==
  \/ StartApiCycle \/ LogIn \/ LoginFails \/ CallRefused \/ CallFails
  \/ CatalogueRead \/ BooksRead \/ ApiCycleEnds \/ SessionEnds \/ ApiTick

ApiSpec == ApiInit /\ [][ApiNext]_apiVars
-----------------------------------------------------------------------------
ApiTypeOK ==
  /\ apiNow \in 0..ApiClock
  /\ token \in 0..logins /\ logins \in 0..MaxLogins /\ ended \subseteq 1..logins
  /\ cycle.op \in {"none", "catalogue", "books"}
  /\ lost.why \in {"nothing", "login", "session", "call"}
  /\ report.fetched = report.matched + report.unmatched
  /\ report.agree <= report.compared /\ report.fresher <= report.compared
  /\ \A r \in promoted : r.market \in ApiMarkets /\ r.readAt \in 0..apiNow

\* A session that ends once never loses a cycle: a cycle given up for its
\* session was refused two different tokens in one call.
LostOnlyTwice == lost.why = "session" => Cardinality(lost.refused) = 2

=============================================================================
