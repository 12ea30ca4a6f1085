------------------------------- MODULE Backtests ------------------------------
(***************************************************************************)
(* The offline side that tunes what the live side runs: candidate rows     *)
(* with their rolling form (scripts/ml/build_value_dataset.py), the folds  *)
(* of the trainers (train_value_filter.py), the walk-forward backtests     *)
(* (app/backtesting), and the two ways one bet per match is chosen         *)
(* (scripts/value_backtest.py and the trainers).  Each runs over history   *)
(* all of which is known, and each must look only at what was.             *)
(*                                                                         *)
(* Dates are days.  Edges are in hundredths, prices in tenths.             *)
(***************************************************************************)
EXTENDS Integers, Sequences, FiniteSets

CONSTANTS History,     \* the league-season files: sequences of [date, home, away, xg]
          Markets1x2,  \* the quotes of a match: [edge, price] of H, D and A
          Warmup,      \* warmup_matches
          MinHistory,  \* results a fit needs
          Training,    \* training_window_days
          RefitEvery,  \* refit_every_days
          Seasons,     \* seasons of the training pool
          MinEdge,     \* the pool's floor
          MinPrice,    \* the odds floor
          Thresholds   \* edge thresholds a sweep tries

\* A team plays once a day at most, and sweeps start at the floor of the pool.
ASSUME BacktestsAssumption ==
  /\ \A h \in History :
       /\ h \in Seq({h[i] : i \in DOMAIN h})
       /\ \A i \in DOMAIN h : h[i].date \in Int
       /\ \A i, j \in DOMAIN h :
            i # j /\ h[i].date = h[j].date => {h[i].home, h[i].away} \cap {h[j].home, h[j].away} = {}
  /\ Warmup \in Nat /\ MinHistory \in Nat /\ Training \in Nat /\ RefitEvery \in Nat \ {0}
  /\ \A q \in Markets1x2 : DOMAIN q = {"H", "D", "A"} /\ \A s \in DOMAIN q : {q[s].edge, q[s].price} \subseteq Int
  /\ Seasons \in Nat /\ MinEdge \in Int /\ MinPrice \in Int
  /\ \A t \in Thresholds : t \in Int /\ t >= MinEdge

Selections1x2 == <<"H", "D", "A">>

VARIABLES file,    \* the file, in the order of its lines
          quotes,  \* what every match of it is quoted at
          at,      \* rows the feature builder has read
          form,    \* team -> the matches in its rolling form
          xg,      \* team -> the matches in its rolling xG
          feats,   \* match -> the matches its features rest on
          walked,  \* eligible matches the walk-forward has passed
          model,   \* the priced model, {} while there is none: the results it was fitted on, and when
          lastFit, \* the date of the last attempt at a fit, {} before any
          bets     \* the bets of the walk

backtestVars == <<file, quotes, at, form, xg, feats, walked, model, lastFit, bets>>

Teams == UNION {UNION {{h[i].home, h[i].away} : i \in DOMAIN h} : h \in History}

-----------------------------------------------------------------------------
(* The dataset builder                                                          *)

\* The lines ahead of line j: by date, and by line within a date.
Ahead(j) == {i \in DOMAIN file : file[i].date < file[j].date \/ (file[i].date = file[j].date /\ i < j)}

\* The k-th match in that order
Row(k) == file[CHOOSE j \in DOMAIN file : Cardinality(Ahead(j)) = k - 1]

\* What is read for a match: the two teams' past, before the match joins it.
FormOf(state, m) == [home |-> state[m.home], away |-> state[m.away]]

Played(state, m) == [x \in DOMAIN state |-> IF x \in {m.home, m.away} THEN state[x] \cup {m} ELSE state[x]]

\* _build_form_lookup and build_xg_lookup take one match: read, then append.  A match without xG
\* figures has no xG row and leaves the xG of its teams as it was.
ReadRow ==
  /\ at < Len(file)
  /\ LET m == Row(at + 1)
     IN  /\ feats' = feats \cup {[match |-> m, form |-> FormOf(form, m),
                                  xg |-> IF m.xg THEN FormOf(xg, m) ELSE [home |-> {}, away |-> {}]]}
         /\ form' = Played(form, m)
         /\ xg' = IF m.xg THEN Played(xg, m) ELSE xg
  /\ at' = at + 1
  /\ UNCHANGED <<file, quotes, walked, model, lastFit, bets>>

\* _market_candidates: every selection of a quoted match at or over the floor.
Candidates(q, floor) == {s \in DOMAIN q : q[s].edge >= floor}

\* candidates_from_rows: the candidates of a match, with the features its teams and date find.
RowCandidates(m) ==
  {[selection |-> s, match |-> m,
    feats |-> {f \in feats : f.match.home = m.home /\ f.match.away = m.away /\ f.match.date = m.date}] :
     s \in Candidates(quotes, MinEdge)}

-----------------------------------------------------------------------------
(* One bet per match and market                                                 *)

\* bets_for: the first selection with the highest edge of those in the odds band.
BetsFor(q, threshold) ==
  LET open == {i \in 1..3 : q[Selections1x2[i]].price >= MinPrice /\ q[Selections1x2[i]].edge >= threshold}
      top == {i \in open : \A j \in open : q[Selections1x2[j]].edge <= q[Selections1x2[i]].edge}
  IN  IF open = {} THEN {} ELSE {Selections1x2[CHOOSE i \in top : \A j \in top : i <= j]}

\* Slip: the highest edge first, the odds floor on that one selection.
SlipSelectBets(q, threshold) ==
  LET pool == Candidates(q, MinEdge)
      best == {s \in pool : \A x \in pool : q[x].edge <= q[s].edge}
  IN  {s \in best : q[s].price >= MinPrice /\ q[s].edge >= threshold}

\* select_bets over the pool: filter, then the highest edge, the first by name among equals.
SelectBets(q, threshold) ==
  LET open == {s \in Candidates(q, MinEdge) : q[s].price >= MinPrice /\ q[s].edge >= threshold}
      top == {s \in open : \A x \in open : q[x].edge <= q[s].edge}
      by == [H |-> 3, D |-> 2, A |-> 1]
  IN  IF open = {} THEN {} ELSE {CHOOSE s \in top : \A x \in top : by[s] <= by[x]}

-----------------------------------------------------------------------------
(* Folds                                                                        *)

\* make_folds: the seasons before the last but one fit, the last calibrates, the next is predicted.
Folds == {[fit |-> 1..(k - 2), calibrate |-> k - 1, predict |-> k] : k \in 3..Seasons}

\* oof_calibrated: the seasons a row's out-of-fold score rests on, {} for the first two seasons.
OutOfFold(season) == UNION {f.fit \cup {f.calibrate} : f \in {x \in Folds : x.predict = season}}

-----------------------------------------------------------------------------
(* The walk forward                                                             *)

\* The results a fit on the day of m takes
Window(m) == {i \in DOMAIN file : m.date - Training <= file[i].date /\ file[i].date < m.date}

\* Slip: a fit that fails, or has too little, keeps the model of before.
SlipRefitted(m, fits) ==
  IF Cardinality(Window(m)) >= MinHistory /\ fits THEN {[on |-> {file[i] : i \in Window(m)}, day |-> m.date]} ELSE model

\* The model after a refit, which fits or raises.
Refitted(m, fits) ==
  IF Cardinality(Window(m)) >= MinHistory /\ fits THEN {[on |-> {file[i] : i \in Window(m)}, day |-> m.date]} ELSE {}

\* run_walkforward takes the next match: past the warm-up it refits when the last attempt is old
\* enough, and a match a model prices is bet at the quotes with an edge.
WalkOn ==
  /\ at = Len(file) /\ walked < Len(file)
  /\ LET m == Row(walked + 1)
         due == walked >= Warmup /\ (\A d \in lastFit : m.date - d >= RefitEvery)
     IN  /\ IF due THEN \E fits \in BOOLEAN : model' = Refitted(m, fits) ELSE UNCHANGED model
         /\ lastFit' = IF due THEN {m.date} ELSE lastFit
         /\ bets' = IF walked >= Warmup /\ (\E s \in DOMAIN quotes : quotes[s].edge > 0)
                    THEN bets \cup {[match |-> m, on |-> x.on, day |-> x.day] : x \in model'} ELSE bets
  /\ walked' = walked + 1
  /\ UNCHANGED <<file, quotes, at, form, xg, feats>>

BacktestsInit ==
  /\ file \in History /\ quotes \in Markets1x2
  /\ at = 0 /\ form = [x \in Teams |-> {}] /\ xg = [x \in Teams |-> {}] /\ feats = {}
  /\ walked = 0 /\ model = {} /\ lastFit = {} /\ bets = {}

BacktestsNext == ReadRow \/ WalkOn

BacktestsSpec == BacktestsInit /\ [][BacktestsNext]_backtestVars

-----------------------------------------------------------------------------
(* Properties                                                                   *)

BacktestsTypeOK ==
  /\ at \in 0..Len(file) /\ walked \in 0..Len(file)
  /\ Cardinality(model) <= 1 /\ Cardinality(lastFit) <= 1 /\ Cardinality(feats) = at

\* Nothing is judged with hindsight, whatever the order of the lines: the features of a match,
\* the model a bet is made with and the folds that score a season rest only on earlier play; and
\* a bet is never made with a model older than the refit period (build_value_dataset.py: "the
\* explicit shift(1) guarantee"; walkforward.py: "results STRICTLY before its date", "do NOT
\* silently reuse a stale model"; train_value_filter.py: the expanding walk-forward).
NoHindsight ==
  /\ \A c \in UNION {RowCandidates(file[i]) : i \in DOMAIN file} : \A f \in c.feats :
       \A h \in f.form.home \cup f.form.away \cup f.xg.home \cup f.xg.away : h.date < c.match.date
  /\ \A b \in bets : (\A h \in b.on : h.date < b.match.date) /\ b.match.date - b.day < RefitEvery
  /\ \A season \in 1..Seasons : \A x \in OutOfFold(season) : x < season

\* The trainers judge the bets the backtest would have made: at every threshold over the pool's
\* floor both choose a selection of the same edge, or none (select_bets: "Parity with
\* scripts/value_backtest.py::bets_for").
SameBets ==
  \A t \in Thresholds : {quotes[s].edge : s \in BetsFor(quotes, t)} = {quotes[s].edge : s \in SelectBets(quotes, t)}
=============================================================================
