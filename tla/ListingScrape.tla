---------------------------- MODULE ListingScrape ----------------------------
(***************************************************************************)
(* The dated listing of the OddsPortal loader and the proxy pool behind it *)
(* (app/ingestion/oddsportal.py, fetch_odds, _scrape_bounded and           *)
(* _scrape_with_failover).  A poll lists its pages one after the other     *)
(* through the shared cursor, or several at once, each pinned to a proxy   *)
(* of its own; the capture of final scores scrapes match pages through the *)
(* same cursor at any time.  Each pass fails over to the next proxy on an  *)
(* exception, up to a cap, under a watchdog that cancels it.               *)
(***************************************************************************)
EXTENDS Naturals, FiniteSets

CONSTANTS PoolSize,      \* proxies, numbered from 0
          MaxFailover,   \* _MAX_PROXY_FAILOVER
          Width,         \* ODDSPORTAL_LISTING_CONCURRENCY
          DatedPages          \* dated listings of one poll

ASSUME ListingAssumption ==
  PoolSize \in Nat \ {0} /\ MaxFailover \in Nat \ {0} /\ Width \in Nat \ {0} /\ DatedPages \in Nat \ {0}

VARIABLES proxies,   \* what each proxy is worth, for good
          cursor,    \* _proxy_cursor
          polling,   \* a fetch_odds is under way
          passes     \* the bounded passes: page u of the poll, and 0, the score capture

listingVars == <<proxies, cursor, polling, passes>>

Proxies  == 0 .. PoolSize - 1
PageIds  == 1 .. DatedPages
Callers  == PageIds \cup {0}
Resting  == [at |-> "resting", start |-> 0, attempt |-> 0, tried |-> {}]
Pass     == [at : {"resting", "waiting", "trying", "listed", "nothing", "cut"}, start : Proxies,
             attempt : 0 .. MaxFailover, tried : SUBSET Proxies]

Effective == IF PoolSize < Width THEN PoolSize ELSE Width
Fanned    == Effective > 1
Tries     == IF PoolSize < MaxFailover THEN PoolSize ELSE MaxFailover

\* proxy_start_index: the pages of a fan-out are pinned, everything else shares the cursor.
Pinned(u) == Fanned /\ u # 0
Over(u)   == passes[u].at \in {"listed", "nothing", "cut"}
Trying(callers) == {u \in callers : passes[u].at = "trying"}

\* Slip: each attempt counts on from the shared cursor instead of its own start.
SlipProxyOf(u) == (cursor + passes[u].attempt) % PoolSize

ProxyOf(u) == (passes[u].start + passes[u].attempt) % PoolSize

ListingTypeOK ==
  /\ proxies \in [Proxies -> {"good", "blocked", "hung"}]
  /\ cursor \in Proxies
  /\ polling \in BOOLEAN
  /\ passes \in [Callers -> Pass]

ListingInit ==
  /\ proxies \in [Proxies -> {"good", "blocked", "hung"}]
  /\ cursor = 0
  /\ polling = FALSE
  /\ passes = [u \in Callers |-> Resting]

-----------------------------------------------------------------------------
(* fetch_odds *)

StartListing ==
  /\ ~polling
  /\ polling' = TRUE
  /\ passes' = [u \in Callers |->
       IF u = 0 THEN passes[0]
       ELSE [Resting EXCEPT !.at = "waiting",
                            !.start = IF Fanned THEN (cursor + u - 1) % PoolSize ELSE 0]]
  /\ UNCHANGED <<proxies, cursor>>

\* The semaphore admits the pages in order; a pass without a pin reads the cursor here.
BeginPage(u) ==
  /\ passes[u].at = "waiting"
  /\ \A v \in PageIds : passes[v].at = "waiting" => u <= v
  /\ Cardinality(Trying(PageIds)) < Effective
  /\ passes' = [passes EXCEPT ![u].at = "trying", ![u].start = IF Fanned THEN @ ELSE cursor]
  /\ UNCHANGED <<proxies, cursor, polling>>

\* Past every proxy that was pinned, counted from the first page's.
AfterFanOut == (passes[1].start + DatedPages) % PoolSize

EndListing ==
  /\ polling /\ \A u \in PageIds : Over(u)
  /\ polling' = FALSE
  /\ cursor' = IF Fanned THEN AfterFanOut ELSE cursor
  /\ passes' = [u \in Callers |-> IF u = 0 THEN passes[0] ELSE Resting]
  /\ UNCHANGED proxies

\* fetch_match_odds: one page, its score only.
BeginScore ==
  /\ passes[0].at # "trying"
  /\ passes' = [passes EXCEPT ![0] = [Resting EXCEPT !.at = "trying", !.start = cursor]]
  /\ UNCHANGED <<proxies, cursor, polling>>

-----------------------------------------------------------------------------
(* _scrape_with_failover *)

Ends(u, how) ==
  passes' = [passes EXCEPT ![u].at = how,
                           ![u].tried = IF how = "cut" THEN @ ELSE @ \cup {ProxyOf(u)}]

PastThisProxy(u) == cursor' = IF Pinned(u) THEN cursor ELSE (ProxyOf(u) + 1) % PoolSize

\* The next proxy, or the end of the sweep: the cursor then skips as many as were tried,
\* from wherever it is by now.
FailOver(u) ==
  IF passes[u].attempt + 1 < Tries
  THEN /\ passes' = [passes EXCEPT ![u].attempt = @ + 1, ![u].tried = @ \cup {ProxyOf(u)}]
       /\ UNCHANGED cursor
  ELSE /\ Ends(u, "nothing")
       /\ cursor' = IF Pinned(u) THEN cursor ELSE (cursor + Tries) % PoolSize

ScrapeLists(u) ==
  /\ passes[u].at = "trying" /\ proxies[ProxyOf(u)] = "good"
  /\ Ends(u, "listed") /\ PastThisProxy(u)
  /\ UNCHANGED <<proxies, polling>>

\* A clean empty answer is final for a listing and a failure for a match page.
ScrapeEmpty(u) ==
  /\ passes[u].at = "trying" /\ proxies[ProxyOf(u)] = "good"
  /\ IF u = 0 THEN FailOver(u) ELSE Ends(u, "nothing") /\ PastThisProxy(u)
  /\ UNCHANGED <<proxies, polling>>

ScrapeRaises(u) ==
  /\ passes[u].at = "trying" /\ proxies[ProxyOf(u)] = "blocked"
  /\ FailOver(u)
  /\ UNCHANGED <<proxies, polling>>

\* _scrape_bounded: the watchdog cancels the pass, whatever it had got to, and the
\* cancellation goes through the failover without touching the cursor.
TimesOut(u) ==
  /\ passes[u].at = "trying"
  /\ Ends(u, "cut")
  /\ UNCHANGED <<proxies, cursor, polling>>

PassStep(u) == ScrapeLists(u) \/ ScrapeEmpty(u) \/ ScrapeRaises(u) \/ TimesOut(u)

ListingNext ==
  \/ StartListing \/ EndListing \/ BeginScore
  \/ \E u \in PageIds : BeginPage(u)
  \/ \E u \in Callers : PassStep(u)

ListingSpec == ListingInit /\ [][ListingNext]_listingVars

-----------------------------------------------------------------------------
\* A pass that gave up has been through as many distinct proxies as the cap and the
\* pool allow, and none of them listed anything, whatever the other passes did to the
\* cursor meanwhile; only a listing that was answered may stop earlier
\* (oddsportal.py:1372-1390).
NothingIsEarned ==
  \A u \in Callers : passes[u].at = "nothing" =>
    \/ Cardinality(passes[u].tried) = Tries
    \/ u # 0 /\ \E p \in passes[u].tried : proxies[p] = "good"
=============================================================================
