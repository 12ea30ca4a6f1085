----------------------------- MODULE ExchangeArchive ----------------------------
(***************************************************************************)
(* The sharp close of the offline backtests (app/ingestion/betfair_bsp.py, *)
(* scripts/merge_betfair_bsp.py, scripts/value_backtest.py): the exchange  *)
(* records a market as a stream of messages, the operator downloads the    *)
(* records, the merge keeps what it parses in a cache, and the backtest    *)
(* writes the cached closes over the closing columns of a results file.    *)
(* No bet's closing line value may rest on a price taken after the start,  *)
(* of another side, or of another market.                                  *)
(*                                                                         *)
(* Runners 1 and 2 are the two sides in the order the market lists them,   *)
(* runner 3 the draw.  A price of 1 is one the decoder refuses.            *)
(***************************************************************************)
EXTENDS Integers, Sequences, FiniteSets

CONSTANTS Markets,      \* market ids, numbers in the order of the ids
          ListingOf,    \* id -> [type, names: the runner names, "" for one without; event: home, away]
          KickoffOf,    \* id -> half days since the match day began
          BookPrices,   \* what a runner trades at
          MaxMessages   \* bound on the messages of all markets

Runners == 1..3
MatchOdds == "MATCH_ODDS"
OverUnder == "OVER_UNDER_25"
MarketTypes == {MatchOdds, OverUnder}

\* A market that lists the two teams lists the draw with them.
ASSUME ArchiveAssumption ==
  /\ MaxMessages \in Nat /\ IsFiniteSet(Markets)
  /\ \A m \in Markets : LET names == {ListingOf[m].names[r] : r \in Runners} IN
       {"T1", "T2"} \subseteq names => "draw" \in names

VARIABLES stream,    \* id -> the messages the exchange recorded
          incoming,  \* the download: {} or {[kind, place, streams]}
          kept,      \* market type -> the cached markets
          rowOf,     \* the match as the results file has it
          joinedRow  \* the closes the backtest wrote over the file's: {} or {row}

archiveVars == <<stream, incoming, kept, rowOf, joinedRow>>

NoDefinition == {}

\* _to_decimal: decimal odds, none at 1.0 or below
ToDecimal(p) == IF p > 1 THEN {p} ELSE {}

-----------------------------------------------------------------------------
(* One market's record                                                          *)

Defined(messages) == {i \in DOMAIN messages : messages[i].def # NoDefinition}
Turns(messages) == {i \in DOMAIN messages : \E d \in messages[i].def : d.inPlay}

\* The definition that was read last: {} or {definition}.
LatestDef(messages) ==
  UNION {messages[i].def : i \in {x \in Defined(messages) : \A j \in Defined(messages) : j <= x}}

\* Slip: the message that turns the market in play is read before the prices are set aside.
SlipInTime(messages, i) == \A t \in Turns(messages) : i <= t

\* A message's definition is read before its prices, and the first to say in play sets aside the prices
\* so far.
InTime(messages, i) == \A t \in Turns(messages) : i < t

PricesInTime(messages, r) ==
  {i \in DOMAIN messages : /\ r \in DOMAIN messages[i].prices /\ ToDecimal(messages[i].prices[r]) # {}
                           /\ InTime(messages, i)}

\* The price of a runner that was set aside, or the last one of a market that never went in play.
LastInTime(messages, r) ==
  UNION {ToDecimal(messages[i].prices[r]) :
          i \in {x \in PricesInTime(messages, r) : \A j \in PricesInTime(messages, r) : j <= x}}

\* parse_market_stream: no market without a definition; a runner closes at its starting price, or at
\* the last one in time.
ParseMarketStream(m, messages) ==
  {[id |-> m, type |-> ListingOf[m].type, won |-> d.won,
    close |-> [r \in Runners |-> IF ToDecimal(d.bsp[r]) # {} THEN ToDecimal(d.bsp[r]) ELSE LastInTime(messages, r)]] :
     d \in LatestDef(messages)}

\* A stream's first definition tells what it is: _peek_market_def
PeekMarketDef(m, messages) ==
  IF \E i \in DOMAIN messages : messages[i].def # NoDefinition THEN {ListingOf[m].type} ELSE {}

-----------------------------------------------------------------------------
(* The loaders and the cache                                                    *)

\* load_betfair_dir: every market file of the folder.
LoadDir(streams) == UNION {ParseMarketStream(m, streams[m]) : m \in Markets}

\* load_betfair_tar_by_type: the members whose first definition is of a wanted type.
LoadTarByType(streams, type) ==
  UNION {ParseMarketStream(m, streams[m]) : m \in {x \in Markets : type \in PeekMarketDef(x, streams[x])}}

\* _dedup: of two with one market id, the one that was there.
Dedup(markets, new) == markets \cup {n \in new : \A m \in markets : m.id # n.id}

\* What the merge parsed of a type: loose files fill the match odds alone.
NewOf(type, download) ==
  IF download.kind = "tar" THEN LoadTarByType(download.streams, type)
  ELSE IF type = MatchOdds THEN LoadDir(download.streams) ELSE {}

\* merge_betfair_bsp.main: each cache is its markets and the new ones, the older of two with one id.
Merge ==
  /\ \E download \in incoming :
       /\ download.place = "incoming"
       /\ kept' = [type \in MarketTypes |-> Dedup(kept[type], NewOf(type, download))]
  /\ incoming' = {}
  /\ UNCHANGED <<stream, rowOf, joinedRow>>

-----------------------------------------------------------------------------
(* The join                                                                     *)

\* home_draw_away_close: each side by its name, none when a side is not named exactly once.
HomeDrawAway(market, home, away) ==
  LET names == ListingOf[market.id].names
      draw == {r \in Runners : names[r] = "draw"}
      named(team) == {r \in Runners \ draw : names[r] = team}
      won(rs) == rs \cap market.won # {}
  IN  IF Cardinality(named(home)) # 1 \/ Cardinality(named(away)) # 1 THEN {}
      ELSE {[home |-> market.close[h], away |-> market.close[a],
             draw |-> UNION {market.close[d] : d \in draw},
             result |-> IF won({h}) THEN {"H"} ELSE IF won({a}) THEN {"A"} ELSE IF won(draw) THEN {"D"} ELSE {}] :
              h \in named(home), a \in named(away)}

\* over_under_close: the two runners of the 2.5 line by their ids, which are runners 1 and 2 here.
OverUnderClose(market) ==
  IF ListingOf[market.id].type # OverUnder THEN {}
  ELSE {[over |-> market.close[1], under |-> market.close[2],
         result |-> IF 1 \in market.won THEN {"O"} ELSE IF 2 \in market.won THEN {"U"} ELSE {}]}

\* The sides a market is indexed under: its two first named runners that are not the draw.
SidesOf(market) ==
  LET names == ListingOf[market.id].names
      listed == {r \in Runners : names[r] \notin {"", "draw"}}
      first == {q \in listed \X listed : q[1] < q[2] /\ \A r \in listed : r \in {q[1], q[2]} \/ q[2] < r}
  IN  {<<names[q[1]], names[q[2]]>> : q \in first}

\* The sides an over/under market is indexed under: event_name_home_away
EventSides(market) == {ListingOf[market.id].event}

\* match_event within a day either side, of the markets indexed under the row's sides: the nearest
\* kickoff, the lowest id.
MatchOf(named) ==
  LET near == {m \in named : KickoffOf[m.id] \in -2..3}
      far(m) == IF KickoffOf[m.id] < 0 THEN 0 - KickoffOf[m.id] ELSE KickoffOf[m.id]
      nearest == {m \in near : \A n \in near : far(m) <= far(n)}
  IN  {m \in nearest : \A n \in nearest : m.id <= n.id}

\* Slip: a row whose result the market contradicts is kept.
SlipAgrees(said, result) == TRUE

Agrees(said, result) == said = {} \/ said = {result}

\* attach_betfair_close: both sides priced and the results agree, or the row is left out; the draw
\* column keeps what the results file had when the market has no draw price.
AttachClose(row, markets) ==
  LET named == {m \in markets : <<row.home, row.away>> \in SidesOf(m)}
      priced(m) == {c \in HomeDrawAway(m, row.home, row.away) :
                      c.home # {} /\ c.away # {} /\ Agrees(c.result, row.result)}
  IN  UNION {{[market |-> m, home |-> c.home, draw |-> c.draw, away |-> c.away] : c \in priced(m)} :
              m \in MatchOf(named)}

\* attach_betfair_ou_close, the same of the totals.
AttachOuClose(row, markets) ==
  LET named == {m \in markets : <<row.home, row.away>> \in EventSides(m)}
      priced(m) == {c \in OverUnderClose(m) :
                      /\ c.over # {} /\ c.under # {}
                      /\ Agrees(c.result, IF row.goals >= 3 THEN "O" ELSE "U")}
  IN  UNION {{[market |-> m, over |-> c.over, under |-> c.under] : c \in priced(m)} : m \in MatchOf(named)}

Placed(kind) == {d \in incoming : d.place = "archive" /\ d.kind = kind}

\* run_betfair_bsp: a cache that is there is read as it is; one that is missing is filled by a scan of
\* the tar in the archive folder; match odds come from the folder's loose files, uncached, only when
\* there is no tar.  Without match odds nothing runs.
Backtest ==
  /\ kept' = [type \in MarketTypes |->
                IF kept[type] # {} \/ Placed("tar") = {} THEN kept[type]
                ELSE LoadTarByType((CHOOSE d \in Placed("tar") : TRUE).streams, type)]
  /\ LET markets == IF kept'[MatchOdds] # {} \/ Placed("loose") = {} THEN kept'[MatchOdds]
                    ELSE LoadDir((CHOOSE d \in Placed("loose") : TRUE).streams)
     IN  joinedRow' = IF markets = {} THEN {}
                      ELSE {[match |-> AttachClose(rowOf, markets), totals |-> AttachOuClose(rowOf, kept'[OverUnder])]}
  /\ UNCHANGED <<stream, incoming, rowOf>>

-----------------------------------------------------------------------------
(* The exchange's record and the operator's download                            *)

\* The messages there are, by market and place.
Recorded == UNION {{m} \X DOMAIN stream[m] : m \in Markets}

Record(m, msg) ==
  /\ Cardinality(Recorded) < MaxMessages
  /\ stream' = [stream EXCEPT ![m] = Append(@, msg)]
  /\ UNCHANGED <<incoming, kept, rowOf, joinedRow>>

InPlay(m) == \E i \in DOMAIN stream[m] : \E d \in stream[m][i].def : d.inPlay
Closed(m) == \E i \in DOMAIN stream[m] : \E d \in stream[m][i].def : d.closed
Open == [inPlay |-> FALSE, closed |-> FALSE, bsp |-> [r \in Runners |-> 1], won |-> {}]
Quoted(p) == [r \in Runners |-> p]

\* The opening message: the definition, every runner quoted.
Opens(m) == stream[m] = <<>> /\ \E p \in BookPrices : Record(m, [def |-> {Open}, prices |-> Quoted(p)])

Trades(m) ==
  /\ stream[m] # <<>> /\ ~Closed(m)
  /\ \E r \in Runners, p \in BookPrices : Record(m, [def |-> NoDefinition, prices |-> [x \in {r} |-> p]])

TurnsInPlay(m) ==
  /\ stream[m] # <<>> /\ ~InPlay(m) /\ ~Closed(m)
  /\ \E p \in BookPrices : Record(m, [def |-> {[Open EXCEPT !.inPlay = TRUE]}, prices |-> Quoted(p)])

\* The last message: the statuses, and the starting prices of a market that had them.
Settles(m) ==
  /\ stream[m] # <<>> /\ ~Closed(m)
  /\ \E winner \in {{}, {1}, {2}, {3}}, p \in BookPrices \cup {1} :
       Record(m, [def |-> {[inPlay |-> InPlay(m), closed |-> TRUE, bsp |-> Quoted(p), won |-> winner]},
                  prices |-> [x \in {} |-> 1]])

Download ==
  /\ incoming = {} /\ \E m \in Markets : Closed(m)
  /\ \E kind \in {"tar", "loose"}, place \in {"incoming", "archive"} :
       incoming' = {[kind |-> kind, place |-> place, streams |-> stream]}
  /\ UNCHANGED <<stream, kept, rowOf, joinedRow>>

ArchiveInit ==
  /\ stream = [m \in Markets |-> <<>>] /\ incoming = {} /\ kept = [t \in MarketTypes |-> {}]
  /\ rowOf \in {[home |-> "T1", away |-> "T2", result |-> x[1], goals |-> x[2]] :
                  x \in {<<"H", 3>>, <<"D", 2>>}}
  /\ joinedRow = {}

ArchiveNext ==
  \/ \E m \in Markets : Opens(m) \/ Trades(m) \/ TurnsInPlay(m) \/ Settles(m)
  \/ Download \/ Merge \/ Backtest

ArchiveSpec == ArchiveInit /\ [][ArchiveNext]_archiveVars

-----------------------------------------------------------------------------
(* Properties                                                                   *)

ArchiveTypeOK ==
  /\ Cardinality(Recorded) <= MaxMessages
  /\ \A t \in MarketTypes : \A k \in kept[t] : k.id \in Markets /\ k.won \subseteq Runners

\* The prices a runner was quoted before the market went in play, in order.
Prematch(m, r) ==
  LET turn == {i \in DOMAIN stream[m] : \E d \in stream[m][i].def : d.inPlay}
      said == {i \in DOMAIN stream[m] : /\ \A t \in turn : i < t
                                        /\ r \in DOMAIN stream[m][i].prices /\ stream[m][i].prices[r] > 1}
  IN  {stream[m][i].prices[r] : i \in said}

StartingPrices(m, r) == UNION {{d.bsp[r] : d \in stream[m][i].def} : i \in DOMAIN stream[m]}

\* A closing price a backtest measures against is a starting price of that very side, or one it was
\* quoted at before the market went in play; and the market does not say another side won
\* (parse_market_stream, home_draw_away_close, attach_betfair_close).
ClosesAreOfTheSide ==
  \A j \in joinedRow : \A c \in j.match :
    /\ \A p \in c.home : \E r \in Runners : /\ ListingOf[c.market.id].names[r] = rowOf.home
                                            /\ p \in Prematch(c.market.id, r) \cup StartingPrices(c.market.id, r)
    /\ \A p \in c.away : \E r \in Runners : /\ ListingOf[c.market.id].names[r] = rowOf.away
                                            /\ p \in Prematch(c.market.id, r) \cup StartingPrices(c.market.id, r)
    /\ \A r \in c.market.won : ListingOf[c.market.id].names[r] =
         CASE rowOf.result = "H" -> rowOf.home [] rowOf.result = "A" -> rowOf.away [] OTHER -> "draw"

=============================================================================
