---------------------------- MODULE SharpCaptures ----------------------------
(***************************************************************************)
(* The two scheduled captures of sharp prices into the warehouse: the      *)
(* Pinnacle archive and the Betfair exchange.  They share nothing but the  *)
(* idea: keep a row only when it differs from what was seen last.          *)
(***************************************************************************)
EXTENDS Integers, Sequences, FiniteSets, SequencesExt

(***************************************************************************)
(* The Pinnacle archive (app/ingestion/pinnacle_arcadia.py): a cycle asks  *)
(* which sports are live, fetches each configured one's matchups and main  *)
(* lines through the next proxy of a ring, keeps the lines whose version   *)
(* has advanced, and writes them in the sport's own namespace.             *)
(***************************************************************************)

CONSTANTS SharpSports,   \* ARCADIA_SPORTS, in order
          MaxLine,       \* bound: versions of a sport's line
          Transports,    \* proxies of the ring
          GetAttempts,   \* stop_after_attempt of _get
          MaxFailures    \* bound: writes that fail and restarts

ASSUME ArcadiaAssumption ==
  /\ SharpSports \in Seq(ToSet(SharpSports)) /\ IsInjective(SharpSports) /\ MaxLine \in Nat \ {0}
  /\ Transports \in Nat \ {0} /\ GetAttempts \in Nat \ {0} /\ MaxFailures \in Nat

VARIABLES lineVersion,  \* the book: the version of each sport's line
          liveSports,   \* the book: sports /sports shows with matchups
          nextProxy,    \* _next_index of the ring
          sharpAt,      \* "idle", "sports" or "writing"
          sweep,        \* sports left in this cycle, by their place among SharpSports
          seenVersion,  \* _seen_version, -1 for none
          sharpRow,     \* version of the last row in each namespace, -1 for none
          fetched,      \* history: version of the last fetch, -1 for none
          sharpLost,    \* history: sports whose last version a failed write lost
          failures      \* bound

sharpVars == <<lineVersion, liveSports, nextProxy, sharpAt, sweep, seenVersion,
               sharpRow, fetched, sharpLost, failures>>

Configured == ToSet(SharpSports)

ArcadiaTypeOK ==
  /\ lineVersion \in [Configured -> 0 .. MaxLine]
  /\ liveSports \subseteq Configured /\ sharpLost \subseteq Configured
  /\ nextProxy \in 0 .. Transports - 1
  /\ sharpAt \in {"idle", "sports", "writing"}
  /\ sweep \subseteq DOMAIN SharpSports
  /\ seenVersion \in [Configured -> -1 .. MaxLine]
  /\ sharpRow \in [Configured -> -1 .. MaxLine] /\ fetched \in [Configured -> -1 .. MaxLine]
  /\ failures \in 0 .. MaxFailures

ArcadiaInit ==
  /\ lineVersion = [s \in Configured |-> 0] /\ liveSports = Configured
  /\ nextProxy = 0 /\ sharpAt = "idle" /\ sweep = {}
  /\ seenVersion = [s \in Configured |-> -1] /\ sharpRow = seenVersion /\ fetched = seenVersion
  /\ sharpLost = {}
  /\ failures = 0

-----------------------------------------------------------------------------
(* The book *)

LineMoves(s) ==
  /\ lineVersion[s] < MaxLine
  /\ lineVersion' = [lineVersion EXCEPT ![s] = @ + 1]
  /\ UNCHANGED <<liveSports, nextProxy, sharpAt, sweep, seenVersion, sharpRow, fetched, sharpLost, failures>>

SportHides(s) ==
  /\ liveSports' = (liveSports \ {s}) \cup ({s} \ liveSports)
  /\ UNCHANGED <<lineVersion, nextProxy, sharpAt, sweep, seenVersion, sharpRow, fetched, sharpLost, failures>>

-----------------------------------------------------------------------------
(* _get: each attempt goes through the next proxy; a transport error, a 429, a 5xx or a
   403 is tried again. *)

\* The attempts made when the proxies of blocked refuse.
AttemptsMade(blocked) ==
  LET good == {a \in 1 .. GetAttempts : (nextProxy + a - 1) % Transports \notin blocked}
  IN  IF good = {} THEN GetAttempts ELSE CHOOSE a \in good : \A b \in good : a <= b

GetsThrough(blocked) == \E a \in 1 .. GetAttempts : (nextProxy + a - 1) % Transports \notin blocked

RingAfter(blocked) == (nextProxy + AttemptsMade(blocked)) % Transports

\* What the warehouse's sweep takes from /sports: those live, or every one configured when
\* the answer is an error.
StartSweep ==
  /\ sharpAt = "idle"
  /\ sharpAt' = "sports"
  /\ \E blocked \in SUBSET (0 .. Transports - 1) :
       /\ nextProxy' = RingAfter(blocked)
       /\ \/ ~ GetsThrough(blocked) /\ sweep' = DOMAIN SharpSports
          \/ GetsThrough(blocked) /\ sweep' \in {DOMAIN SharpSports, {i \in DOMAIN SharpSports : SharpSports[i] \in liveSports}}
  /\ UNCHANGED <<lineVersion, liveSports, seenVersion, sharpRow, fetched, sharpLost, failures>>

\* The sport whose turn it is, and the places after it
Turn      == Min(sweep)
AfterTurn == sweep \ {Turn}

\* Slip: a line that was seen once is taken for unchanged.
SlipAdvanced(s) == seenVersion[s] < 0

Advanced(s) == seenVersion[s] < lineVersion[s]

\* The two lists of a sport. An error of either, a 200 that is not JSON included, is logged
\* and costs only this sport; a line that has not advanced is not written again.
FetchSport ==
  /\ sharpAt = "sports" /\ sweep # {}
  /\ LET s == SharpSports[Turn] IN
       \/ \E blocked \in SUBSET (0 .. Transports - 1) : \E ok \in BOOLEAN :
            /\ nextProxy' = RingAfter(blocked)
            /\ IF ok /\ GetsThrough(blocked)
               THEN /\ fetched' = [fetched EXCEPT ![s] = lineVersion[s]]
                    /\ IF Advanced(s)
                       THEN /\ seenVersion' = [seenVersion EXCEPT ![s] = lineVersion[s]]
                            /\ sharpAt' = "writing"
                            /\ sharpLost' = sharpLost \ {s}
                            /\ UNCHANGED sweep
                       ELSE /\ sweep' = AfterTurn
                            /\ UNCHANGED <<seenVersion, sharpAt, sharpLost>>
               ELSE /\ sweep' = AfterTurn
                    /\ UNCHANGED <<seenVersion, sharpAt, sharpLost, fetched>>
  /\ UNCHANGED <<lineVersion, liveSports, sharpRow, failures>>

SharpWriteLands ==
  /\ sharpAt = "writing"
  /\ sharpAt' = "sports"
  /\ sharpRow' = [sharpRow EXCEPT ![SharpSports[Turn]] = fetched[SharpSports[Turn]]]
  /\ sweep' = AfterTurn
  /\ UNCHANGED <<lineVersion, liveSports, nextProxy, seenVersion, fetched, sharpLost, failures>>

\* A write that raises ends the cycle: the sports after this one wait for the next.
SharpWriteFails ==
  /\ sharpAt = "writing" /\ failures < MaxFailures
  /\ failures' = failures + 1
  /\ sharpAt' = "idle" /\ sweep' = {}
  /\ sharpLost' = sharpLost \cup {SharpSports[Turn]}
  /\ UNCHANGED <<lineVersion, liveSports, nextProxy, seenVersion, sharpRow, fetched>>

EndSweep ==
  /\ sharpAt = "sports" /\ sweep = {}
  /\ sharpAt' = "idle"
  /\ UNCHANGED <<lineVersion, liveSports, nextProxy, sweep, seenVersion, sharpRow, fetched, sharpLost, failures>>

\* The gate lives in the process.
ArcadiaRestarts ==
  /\ failures < MaxFailures
  /\ failures' = failures + 1
  /\ sharpAt' = "idle" /\ sweep' = {} /\ nextProxy' = 0
  /\ seenVersion' = [s \in Configured |-> -1]
  /\ sharpLost' = IF sharpAt = "writing" THEN sharpLost \cup {SharpSports[Turn]} ELSE sharpLost
  /\ UNCHANGED <<lineVersion, liveSports, sharpRow, fetched>>

ArcadiaNext ==
  \/ StartSweep \/ FetchSport \/ SharpWriteLands \/ SharpWriteFails \/ EndSweep \/ ArcadiaRestarts
  \/ \E s \in Configured : LineMoves(s) \/ SportHides(s)

-----------------------------------------------------------------------------
\* A sport's archive holds the version its last fetch saw, whatever failed for the others;
\* only a write that failed, or a crash before it, can cost the last version
\* (pinnacle_arcadia.py:850-918).
ArchiveHoldsLastFetch ==
  \A s \in Configured :
    \/ sharpRow[s] = fetched[s]
    \/ s \in sharpLost
    \/ sharpAt = "writing" /\ SharpSports[Turn] = s

(***************************************************************************)
(* The Betfair Exchange archive (app/ingestion/betfair_exchange.py): a     *)
(* cycle asks the warehouse for a few games, the never captured first and  *)
(* then the stalest, reads each one's BACK price, keeps those that differ  *)
(* from the price it saw last, and writes them onto the games' rows.  The  *)
(* memory of prices is bounded and is lost with the process.               *)
(***************************************************************************)

CONSTANTS Fixtures,      \* upcoming games the main scrape has priced, as 1 .. n by kickoff
          TargetLimit,   \* BETFAIR_EXCHANGE_MAX_TARGETS_PER_CYCLE
          MaxSeenPrices, \* _MAX_SEEN_PRICES
          BackPrices,    \* bound: prices a liquid row may show
          ReaderProxies, \* proxies of the reader
          MaxLosses      \* bound: writes that fail

NoPrice == 0

ASSUME ExchangeAssumption ==
  /\ Fixtures \subseteq Nat /\ IsFiniteSet(Fixtures) /\ TargetLimit \in Nat \ {0}
  /\ MaxSeenPrices \in Nat /\ BackPrices \subseteq Nat \ {NoPrice}
  /\ ReaderProxies \in Nat \ {0} /\ MaxLosses \in Nat

VARIABLES backPrice,    \* what each game's page shows, NoPrice without the exchange
          liquid,       \* games whose price has the matched volume asked for
          kickedOff,    \* games no longer targets
          exAt,         \* "idle", "reading" or "writing"
          toRead,       \* targets left to read in this cycle
          seenPrice,    \* _seen_price in insertion order: <<game, price>>
          freshPrice,   \* the rows to write, NoPrice for none
          readerCursor, \* _proxy_cursor of the reader
          exRow,        \* price of each game's last exchange row
          exRank,       \* games in the order of their last row, 0 for none
          readPrice,    \* history: the last price the capture or the main scrape read
          readInCycle,  \* history: games read with a price in this cycle, or the last
          astray,       \* history: games whose last price read a failed write lost, or
                        \* whose last row is the main scrape's
          losses        \* bound: writes that have failed

exVars == <<backPrice, liquid, kickedOff, exAt, toRead, seenPrice, freshPrice, readerCursor, exRow,
            exRank, readPrice, readInCycle, astray, losses>>

Offered == BackPrices \cup {NoPrice}

ExchangeTypeOK ==
  /\ backPrice \in [Fixtures -> Offered] /\ freshPrice \in [Fixtures -> Offered]
  /\ exRow \in [Fixtures -> Offered] /\ readPrice \in [Fixtures -> Offered]
  /\ liquid \subseteq Fixtures /\ kickedOff \subseteq Fixtures /\ readInCycle \subseteq Fixtures
  /\ astray \subseteq Fixtures
  /\ exAt \in {"idle", "reading", "writing"}
  /\ Len(toRead) <= TargetLimit /\ ToSet(toRead) \subseteq Fixtures
  /\ Len(seenPrice) <= MaxSeenPrices /\ ToSet(seenPrice) \subseteq Fixtures \X BackPrices
  /\ readerCursor \in 0 .. ReaderProxies - 1
  /\ exRank \in [Fixtures -> 0 .. Cardinality(Fixtures)]
  /\ losses \in 0 .. MaxLosses

ExchangeInit ==
  /\ backPrice \in [Fixtures -> Offered] /\ liquid \in SUBSET Fixtures
  /\ kickedOff = {} /\ exAt = "idle" /\ toRead = <<>> /\ seenPrice = <<>>
  /\ freshPrice = [g \in Fixtures |-> NoPrice]
  /\ readerCursor = 0
  /\ exRow = freshPrice /\ readPrice = freshPrice
  /\ exRank = [g \in Fixtures |-> 0]
  /\ readInCycle = {} /\ astray = {}
  /\ losses = 0

-----------------------------------------------------------------------------
(* The world *)

\* The games just written become the last in turn, together.
RankedLast(written) ==
  LET ranks == {exRank[g] : g \in Fixtures \ written} \ {0}
  IN  [g \in Fixtures |-> IF g \in written THEN Cardinality(ranks) + 1
                          ELSE Cardinality({r \in ranks : r <= exRank[g]})]

PriceMoves(g) ==
  /\ g \notin kickedOff
  /\ \E p \in Offered \ {backPrice[g]} : backPrice' = [backPrice EXCEPT ![g] = p]
  /\ UNCHANGED <<liquid, kickedOff, exAt, toRead, seenPrice, freshPrice, readerCursor, exRow, exRank,
                 readPrice, readInCycle, astray, losses>>

VolumeMoves(g) ==
  /\ g \notin kickedOff
  /\ liquid' = (liquid \ {g}) \cup ({g} \ liquid)
  /\ UNCHANGED <<backPrice, kickedOff, exAt, toRead, seenPrice, freshPrice, readerCursor, exRow, exRank,
                 readPrice, readInCycle, astray, losses>>

KicksOff(g) ==
  /\ g \notin kickedOff
  /\ kickedOff' = kickedOff \cup {g}
  /\ UNCHANGED <<backPrice, liquid, exAt, toRead, seenPrice, freshPrice, readerCursor, exRow, exRank,
                 readPrice, readInCycle, astray, losses>>

\* A poll writes the exchange's price among the other books' (oddsportal_bookmakers.py:66),
\* whatever its volume, which moves the game to the end of the turn. Rows are ordered by when they were read:
\* one the capture has read and not written yet will not be the last.
MainScrapeWrites(g) ==
  /\ g \notin kickedOff
  /\ backPrice[g] # NoPrice /\ exRow[g] # backPrice[g]
  /\ exRow' = [exRow EXCEPT ![g] = backPrice[g]]
  /\ exRank' = RankedLast({g})
  /\ readPrice' = [readPrice EXCEPT ![g] = backPrice[g]]
  /\ freshPrice' = [freshPrice EXCEPT ![g] = NoPrice]
  /\ astray' = astray \cup {g}
  /\ UNCHANGED <<backPrice, liquid, kickedOff, exAt, toRead, seenPrice, readerCursor,
                 readInCycle, losses>>

-----------------------------------------------------------------------------
(* select_betfair_targets *)

\* ORDER BY the last exchange row NULLS FIRST, then the kickoff, then the ref.
ComesFirst(g, h) == exRank[g] < exRank[h] \/ (exRank[g] = exRank[h] /\ g < h)

Upcoming == Fixtures \ kickedOff

Targets ==
  [i \in 1 .. Min({Cardinality(Upcoming), TargetLimit}) |->
     CHOOSE g \in Upcoming : Cardinality({h \in Upcoming : ComesFirst(h, g)}) = i - 1]

SelectTargets ==
  /\ exAt = "idle" /\ Targets # <<>>
  /\ exAt' = "reading"
  /\ toRead' = Targets
  /\ readInCycle' = {}
  /\ UNCHANGED <<backPrice, liquid, kickedOff, seenPrice, freshPrice, readerCursor, exRow, exRank,
                 readPrice, astray, losses>>

-----------------------------------------------------------------------------
(* _network_load: the slots from the cursor on, until one loads the page. *)

Slot(offset) == (readerCursor + offset) % ReaderProxies

\* The cursor after the load when the slots of failing cannot load it.
CursorAfter(failing) ==
  LET good == {o \in 0 .. ReaderProxies - 1 : Slot(o) \notin failing}
  IN  IF good = {} THEN readerCursor ELSE (Slot(CHOOSE o \in good : \A p \in good : o <= p) + 1) % ReaderProxies

\* parse_betfair_feed: a price without the volume asked for is not a row.
RowRead(g) == IF g \in liquid THEN backPrice[g] ELSE NoPrice

\* _load_with_session: a status that is not 200, a page without a bootstrap, a feed that
\* fails or does not decrypt, all come to nothing read.
LoadedRows(g) == {RowRead(g), NoPrice}

-----------------------------------------------------------------------------
(* _select_fresh *)

SeenOf(g) == {seenPrice[i][2] : i \in {j \in DOMAIN seenPrice : seenPrice[j][1] = g}}

\* Slip: the archive's version gate, which lets only larger values by.
SlipMoved(g, p) == \A q \in SeenOf(g) : p > q

Moved(g, p) == p \notin SeenOf(g)

\* A dict keeps a key's place when its value changes.
RememberPrice(g, p) ==
  IF SeenOf(g) = {} THEN Append(seenPrice, <<g, p>>)
  ELSE [i \in DOMAIN seenPrice |-> IF seenPrice[i][1] = g THEN <<g, p>> ELSE seenPrice[i]]

\* The oldest keys go once there are too many.
Capped(s) == IF Len(s) > MaxSeenPrices THEN SubSeq(s, Len(s) - MaxSeenPrices + 1, Len(s)) ELSE s

ReadTarget ==
  /\ exAt = "reading" /\ toRead # <<>>
  /\ toRead' = Tail(toRead)
  /\ LET g == Head(toRead) IN
       /\ \E failing \in SUBSET (0 .. ReaderProxies - 1) :
            \E p \in IF failing = 0 .. ReaderProxies - 1 THEN {NoPrice} ELSE LoadedRows(g) :
              /\ readerCursor' = CursorAfter(failing)
              /\ readPrice' = IF p = NoPrice THEN readPrice ELSE [readPrice EXCEPT ![g] = p]
              /\ readInCycle' = IF p = NoPrice THEN readInCycle ELSE readInCycle \cup {g}
              /\ IF p # NoPrice /\ Moved(g, p)
                 THEN /\ seenPrice' = Capped(RememberPrice(g, p))
                      /\ freshPrice' = [freshPrice EXCEPT ![g] = p]
                      /\ astray' = astray \ {g}
                 ELSE UNCHANGED <<seenPrice, freshPrice, astray>>
  /\ UNCHANGED <<backPrice, liquid, kickedOff, exAt, exRow, exRank, losses>>

-----------------------------------------------------------------------------
(* capture_once, the end of a sport *)

Repriced == {g \in Fixtures : freshPrice[g] # NoPrice}

NothingToWrite ==
  /\ exAt = "reading" /\ toRead = <<>> /\ Repriced = {}
  /\ exAt' = "idle"
  /\ UNCHANGED <<backPrice, liquid, kickedOff, toRead, seenPrice, freshPrice, readerCursor, exRow, exRank,
                 readPrice, readInCycle, astray, losses>>

\* persist_odds_snapshots with attach_only_to_existing, one transaction.
BeginWrite ==
  /\ exAt = "reading" /\ toRead = <<>> /\ Repriced # {}
  /\ exAt' = "writing"
  /\ UNCHANGED <<backPrice, liquid, kickedOff, toRead, seenPrice, freshPrice, readerCursor, exRow, exRank,
                 readPrice, readInCycle, astray, losses>>

WriteLands ==
  /\ exAt = "writing"
  /\ exAt' = "idle"
  /\ exRow' = [g \in Fixtures |-> IF g \in Repriced THEN freshPrice[g] ELSE exRow[g]]
  /\ exRank' = RankedLast(Repriced)
  /\ freshPrice' = [g \in Fixtures |-> NoPrice]
  /\ UNCHANGED <<backPrice, liquid, kickedOff, toRead, seenPrice, readerCursor, readPrice, readInCycle,
                 astray, losses>>

\* The exception reaches the job, which logs it.
WriteFails ==
  /\ exAt = "writing" /\ losses < MaxLosses
  /\ exAt' = "idle"
  /\ losses' = losses + 1
  /\ astray' = astray \cup Repriced
  /\ freshPrice' = [g \in Fixtures |-> NoPrice]
  /\ readInCycle' = {}
  /\ UNCHANGED <<backPrice, liquid, kickedOff, toRead, seenPrice, readerCursor, exRow, exRank, readPrice>>

ExchangeRestarts ==
  /\ losses < MaxLosses
  /\ losses' = losses + 1
  /\ exAt' = "idle" /\ toRead' = <<>> /\ seenPrice' = <<>> /\ readerCursor' = 0
  /\ freshPrice' = [g \in Fixtures |-> NoPrice]
  /\ readInCycle' = {}
  /\ UNCHANGED <<backPrice, liquid, kickedOff, exRow, exRank, readPrice, astray>>

ExchangeCycle == SelectTargets \/ ReadTarget \/ NothingToWrite \/ BeginWrite \/ WriteLands

ExchangeNext ==
  \/ ExchangeCycle \/ WriteFails \/ ExchangeRestarts
  \/ \E g \in Fixtures : PriceMoves(g) \/ VolumeMoves(g) \/ KicksOff(g) \/ MainScrapeWrites(g)

ExchangeSpec == ExchangeInit /\ [][ExchangeNext]_exVars

-----------------------------------------------------------------------------
\* The gate costs a row only where a write failed or the main scrape wrote in between: the
\* last row of any other game a clean cycle read holds the price read.
OnlyStrayRowsDiffer ==
  exAt = "idle" => \A g \in readInCycle : exRow[g] = readPrice[g] \/ g \in astray

==============================================================================
