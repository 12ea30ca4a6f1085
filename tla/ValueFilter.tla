----------------------------- MODULE ValueFilter -----------------------------
(***************************************************************************)
(* The value filter from the trainers that write its two files (scripts/ml *)
(* /train_value_filter.py and _v2.py), through the start-up that loads     *)
(* them (app/models/value_filter.py, app/scheduler.py), to the candidate   *)
(* it demotes (_score_value_candidate of app/pipeline.py).                 *)
(*                                                                         *)
(* A booster is the run that fitted it.  A manifest carries the run whose  *)
(* calibrator, threshold and holdout it records.                           *)
(***************************************************************************)
EXTENDS Integers, FiniteSets

CONSTANTS MaxRuns,       \* bound: how often a trainer is started
          LoadsVersion,  \* value_ml_manifest_filename and value_ml_model_filename
          AllowShadow,   \* value_ml_manifest_allow_shadow
          LightgbmThere  \* whether the ml extra is installed

ASSUME FilterAssumption ==
  /\ MaxRuns \in Nat
  /\ LoadsVersion \in {"v1", "v2"}
  /\ AllowShadow \in BOOLEAN /\ LightgbmThere \in BOOLEAN

VARIABLES modelFile,   \* value_filter_model*.txt: the booster in it, {} before any
          manifestFile,\* value_filter_manifest*.json: the record in it, {} before any
          training,    \* what a trainer holds between its two writes, {} when none runs
          trained,     \* runs so far
          loaded,      \* deps.value_filter of the running process, {} for None
          demoted      \* the candidate this process last demoted, with its filter, {} for none

filterVars == <<modelFile, manifestFile, training, trained, loaded, demoted>>

MinTrainBets   == 2
MinHoldoutBets == 2
Versions       == {"v1", "v2"}

\* A point of the sweep: bets, return, and the sign of incCLV_max - 2 SE.
Points == [n : {MinTrainBets - 1, MinTrainBets}, roi : 0..1, strict : BOOLEAN]

\* The holdout numbers the criteria read: the sign of incCLV_max - 2 SE, the return over the
\* volume baseline's, the increment over the cell control's, and the bets.
Holdouts == [strict : BOOLEAN, roiOverVolume : {-1, 0}, overControl : 0..1,
             n : {MinHoldoutBets - 1, MinHoldoutBets}]

-----------------------------------------------------------------------------
(* The trainers *)

\* choose_operating_point: the best return among the points that qualify, 0 when none does.
ChooseOperatingPoint(sweep) ==
  LET ok == {q \in DOMAIN sweep : sweep[q].n >= MinTrainBets /\ sweep[q].strict}
  IN  IF ok = {} THEN 0
      ELSE CHOOSE q \in ok : \A r \in ok :
             \/ sweep[q].roi > sweep[r].roi
             \/ sweep[q].roi = sweep[r].roi /\ q <= r

\* The four criteria of the one-shot holdout.
Failed(holdout) ==
  {c \in {"C1", "C2", "C3", "C4"} :
     \/ c = "C1" /\ ~ holdout.strict
     \/ c = "C2" /\ ~ (holdout.roiOverVolume >= 0)
     \/ c = "C3" /\ ~ (holdout.overControl > 0)
     \/ c = "C4" /\ holdout.n < MinHoldoutBets}

\* The v2 headline: the feature set with the lower log-loss, and xgboost only when it beats
\* that strictly within the calibration tolerance.
HeadlineKind(v1Loss, v2Loss, xgbLoss, xgbWithinEce) ==
  LET lgbm == IF v1Loss <= v2Loss THEN v1Loss ELSE v2Loss
  IN  IF xgbLoss < lgbm /\ xgbWithinEce THEN "xgb" ELSE "lgbm"

Manifest(run, kind, q, holdout, verdict) ==
  [run |-> run, kind |-> kind, q |-> q, holdout |-> holdout, verdict |-> verdict]

\* train_value_filter.py up to its first write: the model goes to the live path.  The manifest
\* is written when the holdout, consulted under --final, is done.
TrainerSavesModel ==
  /\ training = {} /\ trained < MaxRuns
  /\ \E sweep \in [{1, 2} -> Points], kind \in {"lgbm", "logreg"}, final \in BOOLEAN :
       LET q   == ChooseOperatingPoint(sweep)
           run == trained + 1
       IN  /\ modelFile' = [modelFile EXCEPT !["v1"] = {[run |-> run, kind |-> kind]}]
           /\ IF final /\ q # 0
              THEN \E holdout \in Holdouts :
                     training' = {[version |-> "v1", manifest |->
                       Manifest(run, kind, q, {holdout},
                                IF Failed(holdout) = {} THEN "ADOPT" ELSE "REJECT")]}
              ELSE training' = {[version |-> "v1", manifest |->
                     Manifest(run, kind, q, {}, IF final THEN "REJECT" ELSE "none")]}
  /\ trained' = trained + 1
  /\ UNCHANGED <<manifestFile, loaded, demoted>>

\* train_value_filter_v2.py: its own file names, and never a verdict of ADOPT.  An xgboost
\* headline goes to a file the loader does not read.
SecondTrainerSavesModel ==
  /\ training = {} /\ trained < MaxRuns
  /\ \E sweep \in [{1, 2} -> Points], v1Loss, v2Loss, xgbLoss \in 0..1, within \in BOOLEAN :
       LET kind == HeadlineKind(v1Loss, v2Loss, xgbLoss, within)
           run  == trained + 1
       IN  /\ modelFile' = IF kind = "lgbm"
                           THEN [modelFile EXCEPT !["v2"] = {[run |-> run, kind |-> kind]}]
                           ELSE modelFile
           /\ training' = {[version |-> "v2", manifest |->
                Manifest(run, kind, ChooseOperatingPoint(sweep), {}, "CANDIDATE")]}
  /\ trained' = trained + 1
  /\ UNCHANGED <<manifestFile, loaded, demoted>>

TrainerWritesManifest ==
  /\ \E t \in training : manifestFile' = [manifestFile EXCEPT ![t.version] = {t.manifest}]
  /\ training' = {}
  /\ UNCHANGED <<modelFile, trained, loaded, demoted>>

\* It raises, or is stopped, between the two writes.
TrainerDies ==
  /\ training # {} /\ training' = {}
  /\ UNCHANGED <<modelFile, manifestFile, trained, loaded, demoted>>

\* Somebody edits the verdict by hand.
VerdictEdited ==
  /\ \E version \in Versions : \E manifest \in manifestFile[version] :
       manifestFile' = [manifestFile EXCEPT ![version] = {[manifest EXCEPT !.verdict = "ADOPT"]}]
  /\ UNCHANGED <<modelFile, training, trained, loaded, demoted>>

-----------------------------------------------------------------------------
(* The loader *)

\* Slip: the verdict's word is taken for it.
SlipConfirmedByHoldout(manifest) == TRUE

\* _adopt_confirmed_by_holdout: the criteria, from the numbers the manifest records.
ConfirmedByHoldout(manifest) == \E h \in manifest.holdout : Failed(h) = {}

\* ValueFilterModel.load
Load(artifact, manifest) ==
  LET adopted == manifest.verdict = "ADOPT" /\ ConfirmedByHoldout(manifest) IN
  IF /\ adopted \/ AllowShadow
     /\ manifest.q # 0
     /\ manifest.kind = "lgbm" /\ artifact.kind = "lgbm"
     /\ LightgbmThere
  THEN {[booster |-> artifact.run, manifest |-> manifest, shadow |-> ~ adopted]}
  ELSE {}

\* build_scheduler loads once; the process keeps what it loaded.
ProcessStarts ==
  /\ loaded' = UNION {Load(artifact, manifest) : artifact    \in modelFile[LoadsVersion],
                                              manifest \in manifestFile[LoadsVersion]}
  /\ demoted' = {}
  /\ UNCHANGED <<modelFile, manifestFile, training, trained>>

-----------------------------------------------------------------------------
(* The candidate *)

LiveCandidates ==
  [market : {"1x2", "ou25", "other"}, anchor : {"named", "consensus"},
   league : {"trained", "unmapped"}, clearsFloor : BOOLEAN]

\* live_features gives a row; everything else passes unscored.
InScope(candidate) ==
  /\ candidate.market # "other"
  /\ candidate.anchor # "consensus"
  /\ candidate.league # "unmapped"
  /\ candidate.clearsFloor

\* Slip: a shadow model demotes.
SlipEnforced(filter) == TRUE

\* build_scheduler: value_ml_filter is refused to a shadow model.
Enforced(filter) == ~ filter.shadow

\* A score below the threshold, under value_ml_filter.
CandidateDemoted ==
  /\ \E filter \in loaded, candidate \in LiveCandidates :
       /\ Enforced(filter) /\ InScope(candidate)
       /\ demoted' = {[filter |-> filter, market |-> candidate.market]}
  /\ UNCHANGED <<modelFile, manifestFile, training, trained, loaded>>

-----------------------------------------------------------------------------
FilterInit ==
  /\ modelFile = [v \in Versions |-> {}]
  /\ manifestFile = [v \in Versions |-> {}]
  /\ training = {} /\ trained = 0
  /\ loaded = {} /\ demoted = {}

FilterNext ==
  \/ TrainerSavesModel \/ SecondTrainerSavesModel
  \/ TrainerWritesManifest \/ TrainerDies \/ VerdictEdited
  \/ ProcessStarts \/ CandidateDemoted

FilterSpec == FilterInit /\ [][FilterNext]_filterVars

FilterTypeOK ==
  /\ trained \in 0..MaxRuns
  /\ Cardinality(training) <= 1 /\ Cardinality(loaded) <= 1
  /\ \A v \in Versions : \A m \in modelFile[v] : m.run \in 1..trained
  /\ \A v \in Versions : \A m \in manifestFile[v] : m.run \in 1..trained /\ m.q \in 0..2
  /\ \A d \in demoted : d.filter.booster \in 1..trained

\* No pick is demoted on a model whose manifest does not record a holdout that passes every
\* criterion: neither an edited verdict, nor a candidate of the second trainer, nor a shadow
\* model ever costs a pick its tier (value_filter.py:374-382).
OnlyConfirmedDemotes ==
  \A d \in demoted : \E h \in d.filter.manifest.holdout : Failed(h) = {}

=============================================================================
