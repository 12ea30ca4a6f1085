------------------------ MODULE PickLifecycle_proofs -------------------------
(***************************************************************************)
(* The polling cycle and the picks table, for all opportunities, versions, *)
(* quotes, caps and days.                                                  *)
(***************************************************************************)
EXTENDS PickLifecycle, FiniteSetTheorems, WellFoundedInduction, TLAPS

-----------------------------------------------------------------------------
(* Operators of the model.                                                 *)

(* coalesce(sum(...), 0) is a number whatever the rows are.                *)
LEMMA StakeSumIsNat == ASSUME NEW rows PROVE StakeSum(rows) \in Nat
BY DEF StakeSum, Coalesced

(* Writing a detection keeps the table a table.                            *)
LEMMA WrittenIsTable ==
    ASSUME TypeOK, NEW o \in Opps, NEW q \in Quotes
    PROVE  Written(o, version, q) \in [Keys -> Row]
<1> DEFINE k == <<o, version>>
           r == [status |-> "alerted", tier |-> q.tier, stake |-> q.stake,
                 created |-> day]
           table == [picks EXCEPT ![k] = r]
<1>1. q.tier \in Tiers /\ q.stake \in Nat /\ day \in Nat
  BY LifecycleAssumption, LedgerAssumption DEF Quote, TypeOK
<1>2. r \in Row
  BY <1>1 DEF Row
<1>3. table \in [Keys -> Row]
  BY <1>2 DEF TypeOK
<1> HIDE DEF table
<1>4. \A j \in Keys : [table[j] EXCEPT !.status = "superseded"] \in Row
  BY <1>3 DEF Row
<1>5. Supersede(table, o, version, q.tier) \in [Keys -> Row]
  BY <1>3, <1>4 DEF Supersede
<1> QED
  BY <1>5 DEF Written, table

(* The rows a detection q of opportunity o closes.                         *)
Yields(k, o, q) ==
    /\ k[1] = o
    /\ picks[k].status = "alerted"
    /\ q.tier = "premium" \/ picks[k].tier # "premium"

(* What row k is after the detection q of o is written: the detected row is *)
(* open with the detection's tier and stake, the others keep everything    *)
(* but perhaps their open status.                                          *)
AsWritten(k, o, q, row) ==
    /\ k = <<o, version>> =>
         row = [status |-> "alerted", tier |-> q.tier, stake |-> q.stake,
                created |-> day]
    /\ k # <<o, version>> /\ ~Yields(k, o, q) => row = picks[k]
    /\ k # <<o, version>> /\ Yields(k, o, q) =>
         row = [picks[k] EXCEPT !.status = "superseded"]

(* persist_pick's write and _supersede_older_versions, row by row.         *)
LEMMA WrittenRows ==
    ASSUME TypeOK, NEW o \in Opps, NEW q \in Quotes, NEW k \in Keys
    PROVE  AsWritten(k, o, q, Written(o, version, q)[k])
<1> DEFINE r == [status |-> "alerted", tier |-> q.tier, stake |-> q.stake,
                 created |-> day]
           table == [picks EXCEPT ![<<o, version>>] = r]
<1>1. /\ table[<<o, version>>] = r
      /\ k # <<o, version>> => table[k] = picks[k]
      /\ <<o, version>> \in Keys
  BY DEF TypeOK, Keys
<1>2. k = <<k[1], k[2]>>
  BY DEF Keys
<1>3. Written(o, version, q)[k] =
        IF /\ k[1] = o /\ k[2] # version
           /\ table[k].status = "alerted"
           /\ q.tier = "premium" \/ table[k].tier # "premium"
        THEN [table[k] EXCEPT !.status = "superseded"]
        ELSE table[k]
  BY DEF Written, Supersede
<1>4. k[1] = o /\ k[2] # version <=> k[1] = o /\ k # <<o, version>>
  BY <1>2
<1> HIDE DEF table
<1>5. CASE k = <<o, version>>
  BY <1>1, <1>3, <1>4, <1>5 DEF AsWritten
<1>6. CASE k # <<o, version>>
  BY <1>1, <1>3, <1>4, <1>6 DEF AsWritten, Yields
<1> QED
  BY <1>5, <1>6

-----------------------------------------------------------------------------
(* Types.                                                                  *)

(* The initial state is well typed.                                        *)
LEMMA InitTyped == Init => TypeOK
<1> SUFFICES ASSUME Init PROVE TypeOK
  OBVIOUS
<1>1. LedgerTypeOK
  BY DEF Init, LedgerInit, LedgerTypeOK
<1>2. NoRow \in Row
  BY DEF NoRow, Row, Tiers
<1>3. 0 \in 0 .. MaxFaults
  BY LifecycleAssumption
<1> QED
  BY <1>1, <1>2, <1>3 DEF Init, TypeOK

(* Enqueueing a typed detection.                                           *)
LEMMA EnqueueTyped ==
    ASSUME TypeOK, NEW o \in Opps, NEW q \in Quotes, NEW outcome \in Outcomes,
           Enqueue(o, q, outcome),
           picks' \in [Keys -> Row], faults' \in 0 .. MaxFaults
    PROVE  TypeOK'
<1>1. [opp |-> o, quote |-> q, outcome |-> outcome] \in Candidate
  BY LifecycleAssumption DEF Candidate
<1>2. deferred' \subseteq Candidate
  BY <1>1 DEF Enqueue, TypeOK
<1>3. todo' \subseteq Opps /\ pc' \in {"sweep", "fund"}
  BY DEF Enqueue, TypeOK
<1>4. LedgerTypeOK'
  BY DEF Enqueue, TypeOK, LedgerTypeOK, ledgerVars
<1> QED
  BY <1>2, <1>3, <1>4 DEF Enqueue, TypeOK, deployment, historyVars

(* Taking a candidate: what the caller has still to show.                  *)
LEMMA TakeTyped ==
    ASSUME TypeOK, NEW c \in deferred,
           NEW next \in {"sweep", "fund", "clip", "send"}, Take(c, next),
           LedgerTypeOK',
           next \in {"clip", "send"} =>
             current' \in [opp : Opps, quote : Quote, outcome : Outcomes, stake : Nat],
           grant' \in [Keys -> [Days -> Nat]], funded' \subseteq Nat
    PROVE  TypeOK'
BY DEF Take, TypeOK, deployment, tableVars

(* A candidate with a stake.                                               *)
LEMMA StakedTyped ==
    ASSUME NEW c \in Candidate, NEW n \in Nat
    PROVE  Staked(c, n) \in [opp : Opps, quote : Quote, outcome : Outcomes, stake : Nat]
BY DEF Candidate, Staked

(* What reserving for a candidate grants.                                  *)
LEMMA CandidateGrantBounds ==
    ASSUME TypeOK, NEW c \in deferred
    PROVE  /\ CandidateGrant(c) \in Nat
           /\ CandidateGrant(c) <= c.quote.stake
           /\ c.quote.stake \in Nat
           /\ today \in Days
           /\ EventOf[c.opp] \in Events
<1>1. /\ c \in Candidate /\ c.opp \in Opps /\ c.quote \in Quote
      /\ c.quote.stake \in Nat
      /\ today \in Days
      /\ LedgerTypeOK
  BY LedgerAssumption DEF TypeOK, Candidate, Quote
<1>2. EventOf[c.opp] \in Events
  BY <1>1, LifecycleAssumption
<1> QED
  BY <1>1, <1>2, GrantedBounds DEF CandidateGrant

(* Every step keeps the types.                                             *)
LEMMA NextTyped == TypeOK /\ [Next]_vars => TypeOK'
<1> SUFFICES ASSUME TypeOK, [Next]_vars PROVE TypeOK'
  OBVIOUS
<1>1. Fault => faults' \in 0 .. MaxFaults
  BY LifecycleAssumption DEF Fault, TypeOK
<1>2. UNCHANGED ledgerVars => LedgerTypeOK'
  BY DEF TypeOK, LedgerTypeOK, ledgerVars
<1>3. CASE StartCycle
  BY <1>2, <1>3
     DEF StartCycle, TypeOK, deployment, tableVars, historyVars, NoAlert
<1>4. ASSUME NEW o \in Opps, NEW q \in Quotes, Detect(o, q) PROVE TypeOK'
  <2>1. PersistOutcome(picks[<<o, version>>], q) \in Outcomes
    BY DEF PersistOutcome, Outcomes
  <2>2. picks' \in [Keys -> Row]
    BY <1>4, WrittenIsTable DEF Detect, TypeOK
  <2> QED
    BY <1>4, <2>1, <2>2, EnqueueTyped DEF Detect, TypeOK
<1>5. ASSUME NEW o \in Opps, NEW q \in Quotes, DetectUnpersisted(o, q)
      PROVE  TypeOK'
  <2>1. "unpersisted" \in Outcomes
    BY DEF Outcomes
  <2> QED
    BY <1>1, <1>5, <2>1, EnqueueTyped DEF DetectUnpersisted, TypeOK
<1>6. CASE EndSweep
  BY <1>2, <1>6 DEF EndSweep, TypeOK, deployment, tableVars, historyVars
<1>7. ASSUME NEW c \in deferred, FundNothing(c) PROVE TypeOK'
  <2>1. c \in Candidate /\ c.quote.stake \in Nat
    BY CandidateGrantBounds DEF TypeOK
  <2>2. current' \in [opp : Opps, quote : Quote, outcome : Outcomes, stake : Nat]
    BY <1>7, <2>1, StakedTyped DEF FundNothing
  <2> QED
    BY <1>2, <1>7, <2>2, TakeTyped DEF FundNothing, TypeOK
<1>8. ASSUME NEW c \in deferred, FundSkip(c) PROVE TypeOK'
  <2>1. Resume \in {"sweep", "fund"}
    BY DEF Resume
  <2> QED
    BY <1>2, <1>8, <2>1, TakeTyped DEF FundSkip, TypeOK
<1>9. ASSUME NEW c \in deferred, FundReserve(c) PROVE TypeOK'
  <2> DEFINE g == CandidateGrant(c)
             k == <<c.opp, version>>
  <2>1. /\ g \in Nat /\ c.quote.stake \in Nat
        /\ today \in Days /\ EventOf[c.opp] \in Events
    BY CandidateGrantBounds
  <2>2. c \in Candidate /\ c.quote.kelly \in Nat /\ k \in Keys
    BY DEF TypeOK, Candidate, Quote, Keys
  <2>3. LedgerTypeOK'
    BY <1>9, <2>1, ReserveKeepsTypes DEF FundReserve, TypeOK
  <2>4. current' \in [opp : Opps, quote : Quote, outcome : Outcomes, stake : Nat]
    BY <1>9, <2>1, <2>2, StakedTyped DEF FundReserve
  <2>5. grant' \in [Keys -> [Days -> Nat]]
    <3>1. grant' = [grant EXCEPT ![k][today] = @ + g]
      BY <1>9 DEF FundReserve
    <3> HIDE DEF g, k
    <3>2. [grant[k] EXCEPT ![today] = @ + g] \in [Days -> Nat]
      BY <2>1, <2>2 DEF TypeOK
    <3> QED
      BY <2>2, <3>1, <3>2 DEF TypeOK
  <2>6. funded' \subseteq Nat
    BY <1>9, <2>2 DEF FundReserve, TypeOK
  <2>7. Take(c, IF g < c.quote.stake THEN "clip" ELSE "send")
    BY <1>9 DEF FundReserve
  <2> QED
    BY <2>3, <2>4, <2>5, <2>6, <2>7, TakeTyped
<1>10. CASE Clip
  <2> DEFINE k == <<current.opp, version>>
  <2>1. current.stake \in Nat /\ k \in Keys
    BY <1>10 DEF Clip, TypeOK, Keys
  <2>2. [picks[k] EXCEPT !.stake = current.stake] \in Row
    BY <2>1 DEF TypeOK, Row
  <2>3. picks' = [picks EXCEPT ![k] = [picks[k] EXCEPT !.stake = current.stake]]
    BY <1>10, <2>1 DEF Clip, TypeOK
  <2>4. picks' \in [Keys -> Row]
    BY <2>2, <2>3 DEF TypeOK
  <2> QED
    BY <1>2, <1>10, <2>4 DEF Clip, TypeOK, deployment, historyVars
<1>11. CASE ClipFails
  BY <1>1, <1>2, <1>11 DEF ClipFails, TypeOK, deployment, tableVars, historyVars
<1>12. CASE Send
  <2>1. Resume \in {"sweep", "fund"}
    BY DEF Resume
  <2>2. CASE SendSuppressed
    BY <1>2, <2>1, <2>2 DEF SendSuppressed, Sent, TypeOK, deployment, tableVars
  <2>3. CASE SendDelivered
    <3>1. <<current.opp, version>> \in Keys /\ current.outcome \in Outcomes
            /\ current.stake \in Nat
      BY <2>3 DEF SendDelivered, TypeOK, Keys
    <3>2. /\ claimed' \subseteq Keys
          /\ alert' \in [key : Keys, outcome : Outcomes, stake : Nat]
      BY <2>3, <3>1 DEF SendDelivered, TypeOK
    <3> QED
      BY <1>2, <2>1, <2>3, <3>2
         DEF SendDelivered, Sent, TypeOK, deployment, tableVars
  <2>4. CASE SendFails
    BY <1>1, <1>2, <2>1, <2>4 DEF SendFails, Sent, TypeOK, deployment, tableVars
  <2>5. CASE SendRaises
    BY <1>1, <1>2, <2>5
       DEF SendRaises, Forget, TypeOK, deployment, tableVars, historyVars
  <2> QED
    BY <1>12, <2>2, <2>3, <2>4, <2>5 DEF Send
<1>13. CASE EndCycle
  BY <1>2, <1>13 DEF EndCycle, TypeOK, deployment, tableVars, historyVars
<1>14. ASSUME NEW k \in Keys, Close(k) PROVE TypeOK'
  <2>1. [picks[k] EXCEPT !.status = "settled"] \in Row
    BY DEF TypeOK, Row
  <2>2. picks' = [picks EXCEPT ![k] = [picks[k] EXCEPT !.status = "settled"]]
    BY <1>14 DEF Close, TypeOK
  <2>3. picks' \in [Keys -> Row]
    BY <2>1, <2>2 DEF TypeOK
  <2> QED
    BY <1>2, <1>14, <2>3 DEF Close, TypeOK, cycleVars, deployment, historyVars
<1>15. ASSUME NEW k \in Keys, ClaimLapses(k) PROVE TypeOK'
  BY <1>2, <1>15
     DEF ClaimLapses, TypeOK, cycleVars, deployment, tableVars, historyVars
<1>16. CASE NextDay
  BY <1>2, <1>16 DEF NextDay, TypeOK, cycleVars, deployment, historyVars
<1>17. CASE Crash
  <2>1. LedgerTypeOK'
    BY <1>17 DEF Crash, LedgerReset, LedgerTypeOK
  <2> QED
    BY <1>1, <1>17, <2>1
       DEF Crash, Forget, TypeOK, deployment, tableVars, historyVars
<1>18. ASSUME NEW v \in Versions, Start(v) PROVE TypeOK'
  <2>1. \A e \in DOMAIN EventSeeds(day) : EventSeeds(day)[e] \in Nat
    BY StakeSumIsNat DEF EventSeeds
  <2>2. LedgerTypeOK'
    BY <1>18, <2>1, StakeSumIsNat, PreloadKeepsTypes DEF Start, TypeOK
  <2> QED
    BY <1>18, <2>2 DEF Start, Boot, TypeOK, deployment, tableVars
<1>19. ASSUME NEW v \in Versions, StartUnseeded(v) PROVE TypeOK'
  <2>1. unseeded' \in [Days -> Nat]
    BY <1>19 DEF StartUnseeded, TypeOK
  <2> QED
    BY <1>2, <1>19, <2>1 DEF StartUnseeded, Boot, TypeOK, deployment, tableVars
<1>20. CASE UNCHANGED vars
  BY <1>2, <1>20 DEF vars, TypeOK, cycleVars, deployment, tableVars, historyVars
<1> QED
  BY <1>3, <1>4, <1>5, <1>6, <1>7, <1>8, <1>9, <1>10, <1>11, <1>12, <1>13, <1>14,
     <1>15, <1>16, <1>17, <1>18, <1>19, <1>20 DEF Next, Fund

(* The model is well typed in every reachable state of every instance.     *)
THEOREM LifecycleTyped == Spec => []TypeOK
BY InitTyped, NextTyped, PTL DEF Spec

-----------------------------------------------------------------------------
(* The picks table.                                                        *)

(* The ways a step may change the table.                                   *)
Closes(k) ==
    /\ picks[k].status \in {"alerted", "superseded"}
    /\ picks' = [picks EXCEPT ![k].status = "settled"]

Clips ==
    /\ pc = "clip"
    /\ picks' = [picks EXCEPT ![<<current.opp, version>>].stake = current.stake]

Writes(o, q) ==
    /\ PersistOutcome(picks[<<o, version>>], q) # "duplicate"
    /\ picks' = Written(o, version, q)

(* No action touches the table in any other way.                           *)
LEMMA TableSteps ==
    ASSUME [Next]_vars
    PROVE  \/ picks' = picks
           \/ \E k \in Keys : Closes(k)
           \/ Clips
           \/ \E o \in Opps, q \in Quotes : Writes(o, q)
<1>1. ASSUME NEW o \in Opps, NEW q \in Quotes, Detect(o, q)
      PROVE  picks' = picks \/ Writes(o, q)
  BY <1>1 DEF Detect, Writes
<1>2. ASSUME NEW k \in Keys, Close(k) PROVE Closes(k)
  BY <1>2 DEF Close, Closes
<1>3. Clip => Clips
  BY DEF Clip, Clips
<1>4. Fund => picks' = picks
  BY DEF Fund, FundNothing, FundSkip, FundReserve, Take, tableVars
<1>5. Send => picks' = picks
  BY DEF Send, SendSuppressed, SendDelivered, SendFails, SendRaises, Sent,
         tableVars
<1>6. StartCycle \/ EndSweep \/ ClipFails \/ EndCycle \/ NextDay \/ Crash
        => picks' = picks
  BY DEF StartCycle, EndSweep, ClipFails, EndCycle, NextDay, Crash, tableVars
<1>7. ASSUME NEW o \in Opps, NEW q \in Quotes, DetectUnpersisted(o, q)
      PROVE  picks' = picks
  BY <1>7 DEF DetectUnpersisted
<1>8. ASSUME NEW k \in Keys, ClaimLapses(k) PROVE picks' = picks
  BY <1>8 DEF ClaimLapses, tableVars
<1>9. ASSUME NEW v \in Versions, Start(v) \/ StartUnseeded(v)
      PROVE  picks' = picks
  BY <1>9 DEF Start, StartUnseeded, Boot, tableVars
<1>10. UNCHANGED vars => picks' = picks
  BY DEF vars, tableVars
<1> QED
  BY <1>1, <1>2, <1>3, <1>4, <1>5, <1>6, <1>7, <1>8, <1>9, <1>10 DEF Next

(* The life of one row: written when absent or promoted, clipped, closed.  *)
RowWritten(k) ==
    \E q \in Quotes :
        /\ PersistOutcome(picks[k], q) # "duplicate"
        /\ k[2] = version
        /\ picks'[k] = [status |-> "alerted", tier |-> q.tier,
                        stake |-> q.stake, created |-> day]

RowClipped(k) ==
    /\ pc = "clip"
    /\ k = <<current.opp, version>>
    /\ picks'[k] = [picks[k] EXCEPT !.stake = current.stake]

RowClosed(k) ==
    \/ /\ picks[k].status = "alerted"
       /\ picks'[k] = [picks[k] EXCEPT !.status = "superseded"]
    \/ /\ picks[k].status \in {"alerted", "superseded"}
       /\ picks'[k] = [picks[k] EXCEPT !.status = "settled"]

(* A row changes in no other way.                                          *)
LEMMA RowSteps ==
    ASSUME TypeOK, [Next]_vars, NEW k \in Keys
    PROVE  \/ picks'[k] = picks[k]
           \/ RowWritten(k)
           \/ RowClipped(k)
           \/ RowClosed(k)
<1>1. CASE picks' = picks
  BY <1>1
<1>2. ASSUME NEW j \in Keys, Closes(j)
      PROVE  picks'[k] = picks[k] \/ RowClosed(k)
  BY <1>2 DEF Closes, RowClosed, TypeOK
<1>3. ASSUME Clips PROVE picks'[k] = picks[k] \/ RowClipped(k)
  BY <1>3 DEF Clips, RowClipped, TypeOK
<1>4. ASSUME NEW o \in Opps, NEW q \in Quotes, Writes(o, q)
      PROVE  picks'[k] = picks[k] \/ RowWritten(k) \/ RowClosed(k)
  <2>1. /\ picks' = Written(o, version, q)
        /\ PersistOutcome(picks[<<o, version>>], q) # "duplicate"
    BY <1>4 DEF Writes
  <2>2. AsWritten(k, o, q, picks'[k])
    BY <2>1, WrittenRows
  <2>3. CASE k = <<o, version>>
    BY <2>1, <2>2, <2>3 DEF AsWritten, RowWritten
  <2>4. CASE k # <<o, version>>
    BY <2>1, <2>2, <2>4 DEF AsWritten, RowClosed, Yields
  <2> QED
    BY <2>3, <2>4
<1> QED
  BY <1>1, <1>2, <1>3, <1>4, TableSteps

(* Two open rows of one opportunity differ in tier, also after a step.     *)
LEMMA OpenPicksStayApart ==
    ASSUME TypeOK, OneOpenPickPerTier, [Next]_vars
    PROVE  OneOpenPickPerTier'
<1> SUFFICES ASSUME NEW j \in Keys, NEW k \in Keys,
                    j[1] = k[1], j # k, Open(j)', Open(k)'
             PROVE  picks'[j].tier # picks'[k].tier
  BY DEF OneOpenPickPerTier
<1>1. CASE picks' = picks
  BY <1>1 DEF OneOpenPickPerTier, Open
<1>2. ASSUME NEW i \in Keys, Closes(i) PROVE picks'[j].tier # picks'[k].tier
  <2>1. \A h \in Keys :
          picks'[h] = IF h = i THEN [picks[h] EXCEPT !.status = "settled"]
                      ELSE picks[h]
    BY <1>2 DEF Closes, TypeOK
  <2> QED
    BY <2>1 DEF OneOpenPickPerTier, Open, TypeOK, Row
<1>3. ASSUME Clips PROVE picks'[j].tier # picks'[k].tier
  <2>1. \A h \in Keys : /\ picks'[h].status = picks[h].status
                        /\ picks'[h].tier = picks[h].tier
    BY <1>3 DEF Clips, TypeOK, Row
  <2> QED
    BY <2>1 DEF OneOpenPickPerTier, Open
<1>4. ASSUME NEW o \in Opps, NEW q \in Quotes, Writes(o, q)
      PROVE  picks'[j].tier # picks'[k].tier
  <2>1. /\ picks' = Written(o, version, q)
        /\ q.tier \in Tiers
    BY <1>4, LifecycleAssumption DEF Writes, Quote
  <2>2. ASSUME NEW h \in Keys PROVE AsWritten(h, o, q, picks'[h])
    BY <2>1, WrittenRows
  <2>3. \A h \in Keys : Open(h)' =>
          \/ h = <<o, version>> /\ picks'[h].tier = q.tier
          \/ /\ Open(h) /\ picks'[h] = picks[h]
             /\ h[1] = o => q.tier # "premium" /\ picks[h].tier = "premium"
    <3> SUFFICES ASSUME NEW h \in Keys, picks'[h].status = "alerted"
                 PROVE  \/ h = <<o, version>> /\ picks'[h].tier = q.tier
                        \/ /\ Open(h) /\ picks'[h] = picks[h]
                           /\ h[1] = o => /\ q.tier # "premium"
                                          /\ picks[h].tier = "premium"
      BY DEF Open
    <3>1. AsWritten(h, o, q, picks'[h]) /\ picks[h] \in Row
      BY <2>2 DEF TypeOK
    <3>2. CASE h = <<o, version>>
      BY <3>1, <3>2 DEF AsWritten
    <3>3. CASE h # <<o, version>> /\ ~Yields(h, o, q)
      BY <3>1, <3>3 DEF AsWritten, Yields, Open
    <3>4. CASE h # <<o, version>> /\ Yields(h, o, q)
      BY <3>1, <3>4 DEF AsWritten, Row
    <3> QED
      BY <3>2, <3>3, <3>4
  <2>4. CASE j # <<o, version>> /\ k # <<o, version>>
    BY <2>3, <2>4 DEF OneOpenPickPerTier
  <2>5. CASE j = <<o, version>> /\ k # <<o, version>>
    <3>1. j[1] = o /\ k[1] = o
      BY <2>5
    <3>2. picks'[k] = picks[k] /\ q.tier # "premium" /\ picks[k].tier = "premium"
      BY <2>3, <2>5, <3>1
    <3>3. AsWritten(j, o, q, picks'[j])
      BY <2>2
    <3>4. picks'[j].tier = q.tier
      BY <3>3, <2>5 DEF AsWritten
    <3> QED
      BY <3>2, <3>4
  <2>6. CASE k = <<o, version>> /\ j # <<o, version>>
    <3>1. j[1] = o /\ k[1] = o
      BY <2>6
    <3>2. picks'[j] = picks[j] /\ q.tier # "premium" /\ picks[j].tier = "premium"
      BY <2>3, <2>6, <3>1
    <3>3. AsWritten(k, o, q, picks'[k])
      BY <2>2
    <3>4. picks'[k].tier = q.tier
      BY <3>3, <2>6 DEF AsWritten
    <3> QED
      BY <3>2, <3>4
  <2> QED
    BY <2>4, <2>5, <2>6
<1> QED
  BY <1>1, <1>2, <1>3, <1>4, TableSteps

(* _supersede_older_versions: one open pick per opportunity and tier, for  *)
(* any number of versions deployed in any order.                           *)
THEOREM OneOpenPick == Spec => []OneOpenPickPerTier
<1>1. Init => OneOpenPickPerTier
  BY DEF Init, OneOpenPickPerTier, Open, NoRow
<1> QED
  BY <1>1, OpenPicksStayApart, LifecycleTyped, PTL DEF Spec

(* persist_pick: tier, created_at and closed rows only ratchet.            *)
THEOREM RowsRatchet == Spec => RowsOnlyRatchet
<1> DEFINE Ratchet(k) ==
      picks[k].status # "absent" =>
          /\ picks'[k].status # "absent"
          /\ ~Open(k) => picks'[k].status \in {picks[k].status, "settled"}
          /\ picks[k].tier = "premium" =>
                /\ picks'[k].tier = "premium"
                /\ picks'[k].created = picks[k].created
<1>1. ASSUME TypeOK, [Next]_vars, NEW k \in Keys PROVE Ratchet(k)
  <2>1. picks[k] \in Row
    BY <1>1 DEF TypeOK
  <2>2. CASE picks'[k] = picks[k]
    BY <2>2
  <2>3. CASE RowWritten(k)
    BY <2>1, <2>3 DEF RowWritten, PersistOutcome, Open
  <2>4. CASE RowClipped(k)
    BY <2>1, <2>4 DEF RowClipped, Row
  <2>5. CASE RowClosed(k)
    BY <2>1, <2>5 DEF RowClosed, Open, Row
  <2> QED
    BY <1>1, <2>2, <2>3, <2>4, <2>5, RowSteps
<1>2. TypeOK /\ [Next]_vars => [\A k \in Keys : Ratchet(k)]_vars
  BY <1>1
<1> QED
  BY <1>2, LifecycleTyped, PTL DEF Spec, RowsOnlyRatchet

-----------------------------------------------------------------------------
(* Funding.  What a grant means depends on what the cycle knows between    *)
(* its steps: the invariant says why a queued candidate may still trust    *)
(* the row it persisted some awaits ago.                                   *)

Pending(c) == c.outcome \in {"inserted", "upgraded"}

OnPremiumRow(o) ==
    /\ picks[<<o, version>>].status # "absent"
    /\ picks[<<o, version>>].tier = "premium"

\* No two candidates of a cycle are about one opportunity.
QueueInv ==
    /\ \A b, c \in deferred : b.opp = c.opp \/ ~Deferring => b = c
    /\ pc \in {"down", "idle"} => deferred = {}
    /\ ~Deferring /\ pc # "fund" => deferred = {}
    /\ pc = "sweep" => \A c \in deferred : c.opp \notin todo
    /\ pc \in {"clip", "send"} => \A c \in deferred : c.opp # current.opp

\* The row of a candidate that waits for bankroll is as it was persisted, or
\* closed, and has been granted nothing.
WaitingInv ==
    \A c \in deferred : Pending(c) =>
        /\ OnPremiumRow(c.opp)
        /\ picks[<<c.opp, version>>].stake >= c.quote.stake
        /\ picks[<<c.opp, version>>].created >= today
        /\ \A d \in Days : grant[<<c.opp, version>>][d] = 0

CurrentInv ==
    /\ pc \in {"clip", "send"} /\ Pending(current) => OnPremiumRow(current.opp)
    /\ pc = "clip" =>
         \A d \in Days : grant[<<current.opp, version>>][d] <= current.stake

FundingInv ==
    /\ today <= day
    /\ QueueInv
    /\ WaitingInv
    /\ CurrentInv
    /\ GrantIsOnTheRow

(* The queue stays one candidate per opportunity.                          *)
LEMMA QueueStays == TypeOK /\ QueueInv /\ [Next]_vars => QueueInv'
<1> SUFFICES ASSUME TypeOK, QueueInv, [Next]_vars PROVE QueueInv'
  OBVIOUS
<1>1. CASE StartCycle
  BY <1>1 DEF StartCycle, QueueInv
<1>2. ASSUME NEW o \in Opps, NEW q \in Quotes, NEW outcome \in Outcomes,
             pc = "sweep", o \in todo, Enqueue(o, q, outcome)
      PROVE  QueueInv'
  <2> DEFINE new == [opp |-> o, quote |-> q, outcome |-> outcome]
  <2>1. Deferring' = Deferring
    BY <1>2 DEF Enqueue, Deferring, deployment
  <2>2. \A c \in deferred' : c \in deferred \/ c = new
    BY <1>2 DEF Enqueue
  <2>3. new.opp = o
    OBVIOUS
  <2> HIDE DEF new
  <2>4. /\ \A b, c \in deferred : b.opp = c.opp \/ ~Deferring => b = c
        /\ ~Deferring => deferred = {}
        /\ \A c \in deferred : c.opp \notin todo /\ c.opp # o
    BY <1>2 DEF QueueInv
  <2>5. \A b, c \in deferred' : b.opp = c.opp \/ ~Deferring => b = c
    BY <2>2, <2>3, <2>4
  <2>6. /\ todo' = IF Deferring THEN todo \ {o} ELSE todo
        /\ pc' = IF Deferring \/ q.tier = "volume" THEN "sweep" ELSE "fund"
        /\ q.tier = "volume" => deferred' = deferred
    BY <1>2 DEF Enqueue
  <2>7. pc' = "sweep" => \A c \in deferred' : c.opp \notin todo'
    <3>1. CASE Deferring
      BY <2>2, <2>3, <2>4, <2>6, <3>1
    <3>2. CASE ~Deferring
      BY <2>4, <2>6, <3>2
    <3> QED
      BY <3>1, <3>2
  <2>8. ~Deferring /\ pc' # "fund" => deferred' = {}
    BY <2>4, <2>6
  <2>9. pc' \in {"sweep", "fund"}
    BY <2>6
  <2> QED
    BY <2>1, <2>5, <2>7, <2>8, <2>9 DEF QueueInv
<1>3. ASSUME NEW o \in Opps, NEW q \in Quotes, Detect(o, q) PROVE QueueInv'
  <2>1. PersistOutcome(picks[<<o, version>>], q) \in Outcomes
    BY DEF PersistOutcome, Outcomes
  <2> QED
    BY <1>2, <1>3, <2>1 DEF Detect
<1>4. ASSUME NEW o \in Opps, NEW q \in Quotes, DetectUnpersisted(o, q)
      PROVE  QueueInv'
  <2>1. "unpersisted" \in Outcomes
    BY DEF Outcomes
  <2> QED
    BY <1>2, <1>4, <2>1 DEF DetectUnpersisted
<1>5. CASE EndSweep
  BY <1>5 DEF EndSweep, QueueInv, Deferring, deployment
<1>6. ASSUME NEW c \in deferred,
             NEW next \in {"sweep", "fund", "clip", "send"},
             Take(c, next),
             next \in {"clip", "send"} => current'.opp = c.opp,
             next \in {"sweep", "fund"} => next = Resume
      PROVE  QueueInv'
  <2>1. /\ Deferring' = Deferring /\ pc' = next /\ pc = "fund"
        /\ deferred' = deferred \ {c}
    BY <1>6 DEF Take, Deferring, deployment
  <2>2. \A b \in deferred' : b \in deferred /\ b # c
    BY <2>1
  <2>3. \A b \in deferred' : b.opp # c.opp
    BY <2>2 DEF QueueInv
  <2>4. ~Deferring => deferred' = {}
    BY <2>1 DEF QueueInv
  <2>5. next = "sweep" => ~Deferring
    BY <1>6 DEF Resume
  <2>6. \A b, e \in deferred' : b.opp = e.opp \/ ~Deferring => b = e
    BY <2>2 DEF QueueInv
  <2> QED
    BY <1>6, <2>1, <2>3, <2>4, <2>5, <2>6 DEF QueueInv
<1>7. ASSUME NEW c \in deferred,
             FundNothing(c) \/ FundSkip(c) \/ FundReserve(c)
      PROVE  QueueInv'
  <2>1. Resume \in {"sweep", "fund"}
    BY DEF Resume
  <2>2. CASE FundNothing(c)
    BY <1>6, <2>2 DEF FundNothing, Staked
  <2>3. CASE FundSkip(c)
    BY <1>6, <2>1, <2>3 DEF FundSkip
  <2>4. CASE FundReserve(c)
    <3> DEFINE next == IF CandidateGrant(c) < c.quote.stake
                       THEN "clip" ELSE "send"
    <3>1. Take(c, next) /\ current'.opp = c.opp
      BY <2>4 DEF FundReserve, Staked
    <3>2. next \in {"clip", "send"}
      OBVIOUS
    <3> HIDE DEF next
    <3> QED
      BY <1>6, <3>1, <3>2
  <2> QED
    BY <1>7, <2>2, <2>3, <2>4
<1>8. CASE Clip \/ ClipFails
  BY <1>8 DEF Clip, ClipFails, QueueInv, Deferring, deployment
<1>9. CASE Send
  <2>1. CASE Sent /\ pc = "send"
    BY <2>1 DEF Sent, Resume, QueueInv, Deferring, deployment
  <2>2. CASE SendRaises
    BY <2>2 DEF SendRaises, Forget, QueueInv
  <2> QED
    BY <1>9, <2>1, <2>2 DEF Send, SendSuppressed, SendDelivered, SendFails
<1>10. CASE EndCycle
  BY <1>10 DEF EndCycle, QueueInv
<1>11. CASE Crash
  BY <1>11 DEF Crash, Forget, QueueInv
<1>12. ASSUME NEW v \in Versions, Boot(v) PROVE QueueInv'
  BY <1>12 DEF Boot, QueueInv
<1>13. CASE UNCHANGED cycleVars
  BY <1>13 DEF cycleVars, deployment, QueueInv, Deferring
<1>14. ASSUME NEW k \in Keys, Close(k) \/ ClaimLapses(k) PROVE UNCHANGED cycleVars
  BY <1>14 DEF Close, ClaimLapses
<1>15. NextDay \/ UNCHANGED vars => UNCHANGED cycleVars
  BY DEF NextDay, vars
<1> QED
  BY <1>1, <1>3, <1>4, <1>5, <1>7, <1>8, <1>9, <1>10, <1>11, <1>12, <1>13,
     <1>14, <1>15 DEF Next, Fund, Start, StartUnseeded

(* A premium row keeps its tier, its date and, but for a clip, its stake.  *)
LEMMA PremiumRowStays ==
    ASSUME TypeOK, [Next]_vars, NEW k \in Keys,
           picks[k].status # "absent", picks[k].tier = "premium"
    PROVE  /\ picks'[k].status # "absent"
           /\ picks'[k].tier = "premium"
           /\ picks'[k].created = picks[k].created
           /\ \/ picks'[k].stake = picks[k].stake
              \/ /\ pc = "clip" /\ k = <<current.opp, version>>
                 /\ picks'[k].stake = current.stake
<1>1. picks[k] \in Row
  BY DEF TypeOK
<1>2. ~RowWritten(k)
  BY <1>1 DEF RowWritten, PersistOutcome, Row
<1>3. CASE picks'[k] = picks[k]
  BY <1>3
<1>4. CASE RowClipped(k)
  BY <1>1, <1>4 DEF RowClipped, Row
<1>5. CASE RowClosed(k)
  BY <1>1, <1>5 DEF RowClosed, Row
<1> QED
  BY <1>2, <1>3, <1>4, <1>5, RowSteps

(* Only a reservation grants.                                              *)
LEMMA GrantSteps ==
    ASSUME [Next]_vars
    PROVE  grant' = grant \/ \E c \in deferred : FundReserve(c)
<1>1. ASSUME NEW o \in Opps, NEW q \in Quotes,
             Detect(o, q) \/ DetectUnpersisted(o, q)
      PROVE  grant' = grant
  BY <1>1 DEF Detect, DetectUnpersisted, Enqueue, historyVars
<1>2. ASSUME NEW c \in deferred, FundNothing(c) \/ FundSkip(c)
      PROVE  grant' = grant
  BY <1>2 DEF FundNothing, FundSkip
<1>3. Send => grant' = grant
  BY DEF Send, SendSuppressed, SendDelivered, SendFails, SendRaises, Sent,
         historyVars
<1>4. StartCycle \/ EndSweep \/ Clip \/ ClipFails \/ EndCycle \/ NextDay \/ Crash
        => grant' = grant
  BY DEF StartCycle, EndSweep, Clip, ClipFails, EndCycle, NextDay, Crash,
         historyVars
<1>5. ASSUME NEW k \in Keys, Close(k) \/ ClaimLapses(k) PROVE grant' = grant
  BY <1>5 DEF Close, ClaimLapses, historyVars
<1>6. ASSUME NEW v \in Versions, Start(v) \/ StartUnseeded(v)
      PROVE  grant' = grant
  BY <1>6 DEF Start, StartUnseeded, Boot
<1>7. UNCHANGED vars => grant' = grant
  BY DEF vars, historyVars
<1> QED
  BY <1>1, <1>2, <1>3, <1>4, <1>5, <1>6, <1>7 DEF Next, Fund

(* What a reservation grants, and to which row.                            *)
LEMMA ReserveGrants ==
    ASSUME TypeOK, NEW c \in deferred, FundReserve(c)
    PROVE  LET g == CandidateGrant(c)
               k == <<c.opp, version>>
           IN  /\ k \in Keys /\ today \in Days
               /\ g \in Nat /\ g <= c.quote.stake /\ c.quote.stake \in Nat
               /\ Pending(c) /\ Pending(current')
               /\ current'.opp = c.opp /\ current'.stake = g
               /\ picks' = picks /\ version' = version /\ today' = today
               /\ \A j \in Keys : j # k => grant'[j] = grant[j]
               /\ \A d \in Days : d # today => grant'[k][d] = grant[k][d]
               /\ grant'[k][today] = grant[k][today] + g
<1> DEFINE g == CandidateGrant(c)
           k == <<c.opp, version>>
<1>1. /\ k \in Keys /\ today \in Days
      /\ g \in Nat /\ g <= c.quote.stake /\ c.quote.stake \in Nat
  BY CandidateGrantBounds DEF TypeOK, Candidate, Keys
<1>2. grant' = [grant EXCEPT ![k][today] = @ + g]
  BY DEF FundReserve
<1>3. /\ current'.opp = c.opp /\ current'.stake = g
      /\ current'.outcome = c.outcome
      /\ c.outcome \in {"inserted", "upgraded"}
      /\ picks' = picks /\ version' = version /\ today' = today
  BY DEF FundReserve, Take, Staked, tableVars, deployment
<1> HIDE DEF g, k
<1>4. /\ \A j \in Keys : j # k => grant'[j] = grant[j]
      /\ \A d \in Days : d # today => grant'[k][d] = grant[k][d]
      /\ grant'[k][today] = grant[k][today] + g
  BY <1>1, <1>2 DEF TypeOK
<1> QED
  BY <1>1, <1>3, <1>4 DEF g, k, Pending

(* While candidates wait, the deployment and the cycle's date stand.       *)
LEMMA QueueFrame ==
    ASSUME QueueInv, [Next]_vars
    PROVE  \/ version' = version /\ today' = today
           \/ deferred' = {} /\ pc' \in {"idle", "sweep"}
<1>1. StartCycle => deferred' = {} /\ pc' = "sweep"
  BY DEF StartCycle
<1>2. ASSUME NEW v \in Versions, Boot(v) PROVE deferred' = {} /\ pc' = "idle"
  BY <1>2 DEF Boot, QueueInv
<1>3. ASSUME NEW o \in Opps, NEW q \in Quotes,
             Detect(o, q) \/ DetectUnpersisted(o, q)
      PROVE  version' = version /\ today' = today
  BY <1>3 DEF Detect, DetectUnpersisted, Enqueue, deployment
<1>4. Fund => version' = version /\ today' = today
  BY DEF Fund, FundNothing, FundSkip, FundReserve, Take, deployment
<1>5. Send => version' = version /\ today' = today
  BY DEF Send, SendSuppressed, SendDelivered, SendFails, SendRaises, Sent,
         deployment
<1>6. EndSweep \/ Clip \/ ClipFails \/ EndCycle \/ Crash
        => version' = version /\ today' = today
  BY DEF EndSweep, Clip, ClipFails, EndCycle, Crash, deployment
<1>7. UNCHANGED cycleVars => version' = version /\ today' = today
  BY DEF cycleVars, deployment
<1>8. ASSUME NEW k \in Keys, Close(k) \/ ClaimLapses(k) PROVE UNCHANGED cycleVars
  BY <1>8 DEF Close, ClaimLapses
<1>9. NextDay \/ UNCHANGED vars => UNCHANGED cycleVars
  BY DEF NextDay, vars
<1> QED
  BY <1>1, <1>2, <1>3, <1>4, <1>5, <1>6, <1>7, <1>8, <1>9
     DEF Next, Start, StartUnseeded

(* A candidate joins the queue only by being detected.                     *)
LEMMA QueueGrows ==
    ASSUME [Next]_vars, NEW c \in deferred', c \notin deferred
    PROVE  \/ c.outcome = "unpersisted"
           \/ \E o \in Opps, q \in Quotes :
                 /\ Detect(o, q)
                 /\ q.tier = "premium"
                 /\ c = [opp |-> o, quote |-> q,
                         outcome |-> PersistOutcome(picks[<<o, version>>], q)]
<1>1. ASSUME NEW o \in Opps, NEW q \in Quotes, Detect(o, q)
      PROVE  /\ q.tier = "premium"
             /\ c = [opp |-> o, quote |-> q,
                     outcome |-> PersistOutcome(picks[<<o, version>>], q)]
  <2>1. q.tier \in {"premium", "volume"}
    BY LifecycleAssumption DEF Quote, Tiers
  <2> QED
    BY <1>1, <2>1 DEF Detect, Enqueue
<1>2. ASSUME NEW o \in Opps, NEW q \in Quotes, DetectUnpersisted(o, q)
      PROVE  c.outcome = "unpersisted"
  <2>1. c = [opp |-> o, quote |-> q, outcome |-> "unpersisted"]
    BY <1>2 DEF DetectUnpersisted, Enqueue
  <2> QED
    BY <2>1
<1>3. ~Fund
  BY DEF Fund, FundNothing, FundSkip, FundReserve, Take
<1>4. ~Send
  BY DEF Send, SendSuppressed, SendDelivered, SendFails, SendRaises, Sent, Forget
<1>5. ~(StartCycle \/ EndSweep \/ Clip \/ ClipFails \/ EndCycle \/ Crash)
  BY DEF StartCycle, EndSweep, Clip, ClipFails, EndCycle, Crash, Forget
<1>6. ~UNCHANGED cycleVars
  BY DEF cycleVars
<1>7. ASSUME NEW k \in Keys, Close(k) \/ ClaimLapses(k) PROVE FALSE
  BY <1>6, <1>7 DEF Close, ClaimLapses
<1>8. ~(NextDay \/ UNCHANGED vars)
  BY <1>6 DEF NextDay, vars
<1>9. ASSUME NEW v \in Versions, Start(v) \/ StartUnseeded(v) PROVE FALSE
  BY <1>9 DEF Start, StartUnseeded, Boot
<1> QED
  BY <1>1, <1>2, <1>3, <1>4, <1>5, <1>7, <1>8, <1>9 DEF Next

(* The row of a waiting candidate stays as it was persisted.               *)
LEMMA WaitingStays == TypeOK /\ FundingInv /\ [Next]_vars => WaitingInv'
<1> SUFFICES ASSUME TypeOK, FundingInv, [Next]_vars,
                    NEW c \in deferred', Pending(c)
             PROVE  /\ OnPremiumRow(c.opp)'
                    /\ (picks[<<c.opp, version>>].stake)' >= c.quote.stake
                    /\ (picks[<<c.opp, version>>].created)' >= today'
                    /\ \A d \in Days : (grant[<<c.opp, version>>][d])' = 0
  BY DEF WaitingInv, Pending
<1>1. version' = version /\ today' = today
  BY QueueFrame DEF FundingInv
<1>2. CASE c \in deferred
  <2> DEFINE k == <<c.opp, version>>
  <2>1. /\ k \in Keys /\ c.opp \in Opps
        /\ picks[k].status # "absent" /\ picks[k].tier = "premium"
        /\ picks[k].stake >= c.quote.stake /\ picks[k].created >= today
        /\ \A d \in Days : grant[k][d] = 0
    BY <1>2 DEF FundingInv, WaitingInv, OnPremiumRow, TypeOK, Candidate, Keys
  <2>2. pc = "clip" => c.opp # current.opp
    BY <1>2 DEF FundingInv, QueueInv
  <2>3. ~(pc = "clip" /\ k = <<current.opp, version>>)
    BY <2>2
  <2>4. \A d \in Days : grant'[k][d] = 0
    <3>1. ASSUME NEW b \in deferred, FundReserve(b) PROVE grant'[k] = grant[k]
      <4>1. deferred' = deferred \ {b}
        BY <3>1 DEF FundReserve, Take
      <4>2. b.opp # c.opp
        BY <1>2, <4>1 DEF FundingInv, QueueInv
      <4>3. k # <<b.opp, version>>
        BY <4>2
      <4> QED
        BY <2>1, <3>1, <4>3, ReserveGrants
    <3> QED
      BY <2>1, <3>1, GrantSteps
  <2> HIDE DEF k
  <2>5. /\ picks'[k].status # "absent" /\ picks'[k].tier = "premium"
        /\ picks'[k].created = picks[k].created
        /\ picks'[k].stake = picks[k].stake
    BY <2>1, <2>3, PremiumRowStays
  <2> QED
    BY <1>1, <2>1, <2>4, <2>5 DEF k, OnPremiumRow
<1>3. CASE c \notin deferred
  <2>1. PICK o \in Opps, q \in Quotes :
          /\ Detect(o, q)
          /\ q.tier = "premium"
          /\ c = [opp |-> o, quote |-> q,
                  outcome |-> PersistOutcome(picks[<<o, version>>], q)]
    BY <1>3, QueueGrows DEF Pending
  <2> DEFINE k == <<o, version>>
  <2>2. /\ c.opp = o /\ c.quote = q
        /\ c.outcome = PersistOutcome(picks[k], q)
    BY <2>1
  <2>3. /\ PersistOutcome(picks[k], q) # "duplicate"
        /\ picks[k].status = "absent" \/ picks[k].tier = "volume"
    BY <2>2 DEF Pending, PersistOutcome
  <2>4. k \in Keys /\ picks[k] \in Row
    BY DEF Keys, TypeOK
  <2>5. picks' = Written(o, version, q)
    BY <2>1, <2>3 DEF Detect
  <2>6. AsWritten(k, o, q, picks'[k])
    BY <2>4, <2>5, WrittenRows
  <2>7. picks'[k] = [status |-> "alerted", tier |-> q.tier, stake |-> q.stake,
                     created |-> day]
    BY <2>6 DEF AsWritten
  <2>8. \A d \in Days : grant[k][d] = 0
    BY <2>3, <2>4 DEF FundingInv, GrantIsOnTheRow, TypeOK
  <2>9. grant' = grant
    BY <2>1 DEF Detect, Enqueue, historyVars
  <2>10. /\ q.stake \in Nat /\ today \in Nat /\ day \in Nat /\ today <= day
    BY LifecycleAssumption, LedgerAssumption DEF Quote, TypeOK, FundingInv
  <2> QED
    BY <1>1, <2>1, <2>2, <2>7, <2>8, <2>9, <2>10 DEF OnPremiumRow
<1> QED
  BY <1>2, <1>3

(* How the cycle comes to hold a funded candidate.                         *)
LEMMA CurrentSteps ==
    ASSUME [Next]_vars, pc' \in {"clip", "send"}
    PROVE  \/ \E c \in deferred : FundReserve(c)
           \/ \E c \in deferred :
                 FundNothing(c) /\ pc' = "send" /\ ~Pending(current')
           \/ /\ pc \in {"clip", "send"}
              /\ pc' = "clip" => pc = "clip"
              /\ current' = current /\ version' = version /\ grant' = grant
<1>1. ASSUME NEW c \in deferred, FundNothing(c)
      PROVE  pc' = "send" /\ ~Pending(current')
  BY <1>1 DEF FundNothing, Take, Staked, Pending
<1>2. ASSUME NEW c \in deferred PROVE ~FundSkip(c)
  BY DEF FundSkip, Take, Resume
<1>3. CASE Clip \/ ClipFails
  BY <1>3 DEF Clip, ClipFails, deployment, historyVars
<1>4. ~Send
  BY DEF Send, SendSuppressed, SendDelivered, SendFails, SendRaises, Sent, Resume
<1>5. ~(StartCycle \/ EndSweep \/ EndCycle \/ Crash)
  BY DEF StartCycle, EndSweep, EndCycle, Crash
<1>6. ASSUME NEW o \in Opps, NEW q \in Quotes
      PROVE  ~(Detect(o, q) \/ DetectUnpersisted(o, q))
  BY DEF Detect, DetectUnpersisted, Enqueue
<1>7. ASSUME NEW v \in Versions PROVE ~(Start(v) \/ StartUnseeded(v))
  BY DEF Start, StartUnseeded, Boot
<1>8. CASE UNCHANGED cycleVars /\ UNCHANGED historyVars
  BY <1>8 DEF cycleVars, deployment, historyVars
<1>9. ASSUME NEW k \in Keys, Close(k) \/ ClaimLapses(k)
      PROVE  UNCHANGED cycleVars /\ UNCHANGED historyVars
  BY <1>9 DEF Close, ClaimLapses
<1>10. NextDay \/ UNCHANGED vars => UNCHANGED cycleVars /\ UNCHANGED historyVars
  BY DEF NextDay, vars
<1> QED
  BY <1>1, <1>2, <1>3, <1>4, <1>5, <1>6, <1>7, <1>8, <1>9, <1>10
     DEF Next, Fund

(* The row of the candidate that is being alerted.                         *)
LEMMA CurrentStays == TypeOK /\ FundingInv /\ [Next]_vars => CurrentInv'
<1> SUFFICES ASSUME TypeOK, FundingInv, [Next]_vars, pc' \in {"clip", "send"}
             PROVE  /\ Pending(current') => OnPremiumRow(current.opp)'
                    /\ pc' = "clip" =>
                         \A d \in Days :
                            (grant[<<current.opp, version>>][d])' <= current'.stake
  BY DEF CurrentInv, Pending
<1>1. ASSUME NEW c \in deferred, FundReserve(c)
      PROVE  /\ OnPremiumRow(current.opp)'
             /\ \A d \in Days :
                   (grant[<<current.opp, version>>][d])' <= current'.stake
  <2> DEFINE g == CandidateGrant(c)
             k == <<c.opp, version>>
  <2>1. /\ k \in Keys /\ today \in Days /\ g \in Nat /\ Pending(c)
        /\ current'.opp = c.opp /\ current'.stake = g
        /\ picks' = picks /\ version' = version
        /\ \A d \in Days : d # today => grant'[k][d] = grant[k][d]
        /\ grant'[k][today] = grant[k][today] + g
    BY <1>1, ReserveGrants
  <2>2. OnPremiumRow(c.opp) /\ \A d \in Days : grant[k][d] = 0
    BY <2>1 DEF FundingInv, WaitingInv
  <2> HIDE DEF g
  <2>3. \A d \in Days : grant'[k][d] <= g
    BY <2>1, <2>2
  <2> QED
    BY <2>1, <2>2, <2>3 DEF OnPremiumRow
<1>2. CASE \E c \in deferred :
             FundNothing(c) /\ pc' = "send" /\ ~Pending(current')
  BY <1>2
<1>3. CASE /\ pc \in {"clip", "send"}
           /\ pc' = "clip" => pc = "clip"
           /\ current' = current /\ version' = version /\ grant' = grant
  <2>1. <<current.opp, version>> \in Keys
    BY <1>3 DEF TypeOK, Keys
  <2>2. OnPremiumRow(current.opp) => OnPremiumRow(current.opp)'
    BY <1>3, <2>1, PremiumRowStays DEF OnPremiumRow
  <2> QED
    BY <1>3, <2>2 DEF FundingInv, CurrentInv
<1> QED
  BY <1>1, <1>2, <1>3, CurrentSteps

(* What was granted stays on its row.                                      *)
LEMMA GrantStays == TypeOK /\ FundingInv /\ [Next]_vars => GrantIsOnTheRow'
<1> SUFFICES ASSUME TypeOK, FundingInv, [Next]_vars,
                    NEW k \in Keys, NEW d \in Days, grant'[k][d] > 0
             PROVE  /\ picks'[k].status # "absent" /\ picks'[k].tier = "premium"
                    /\ picks'[k].created >= d
                    /\ picks'[k].stake >= grant'[k][d]
  BY DEF GrantIsOnTheRow
<1>1. CASE grant'[k] = grant[k]
  <2>1. /\ picks[k].status # "absent" /\ picks[k].tier = "premium"
        /\ picks[k].created >= d
        /\ picks[k].stake >= grant[k][d]
    BY <1>1 DEF FundingInv, GrantIsOnTheRow
  <2>2. pc = "clip" /\ k = <<current.opp, version>>
          => grant[k][d] <= current.stake /\ grant[k][d] \in Nat
                /\ current.stake \in Nat
    BY DEF FundingInv, CurrentInv, TypeOK
  <2> QED
    BY <1>1, <2>1, <2>2, PremiumRowStays
<1>2. ASSUME NEW c \in deferred, FundReserve(c), grant'[k] # grant[k]
      PROVE  /\ picks'[k].status # "absent" /\ picks'[k].tier = "premium"
             /\ picks'[k].created >= d
             /\ picks'[k].stake >= grant'[k][d]
  <2> DEFINE g == CandidateGrant(c)
  <2>1. /\ k = <<c.opp, version>> /\ today \in Days
        /\ g \in Nat /\ g <= c.quote.stake /\ c.quote.stake \in Nat
        /\ Pending(c) /\ picks' = picks
        /\ d # today => grant'[k][d] = grant[k][d]
        /\ grant'[k][today] = grant[k][today] + g
    BY <1>2, ReserveGrants
  <2>2. /\ OnPremiumRow(c.opp) /\ \A e \in Days : grant[k][e] = 0
        /\ picks[k].stake >= c.quote.stake
        /\ picks[k].created >= today
    BY <2>1 DEF FundingInv, WaitingInv
  <2>3. picks[k].stake \in Nat
    BY DEF TypeOK, Row
  <2> HIDE DEF g
  <2>4. d = today /\ grant'[k][d] = g
    BY <2>1, <2>2
  <2> QED
    BY <2>1, <2>2, <2>3, <2>4 DEF OnPremiumRow
<1> QED
  BY <1>1, <1>2, GrantSteps

(* The cycle's date is never ahead of the clock.                           *)
LEMMA TodayStays == TypeOK /\ today <= day /\ [Next]_vars => today' <= day'
<1> SUFFICES ASSUME TypeOK, today <= day, [Next]_vars PROVE today' <= day'
  OBVIOUS
<1>1. day \in Nat /\ today \in Nat
  BY LedgerAssumption DEF TypeOK
<1>2. CASE StartCycle
  BY <1>1, <1>2 DEF StartCycle, tableVars
<1>3. CASE NextDay
  BY <1>1, <1>3 DEF NextDay, cycleVars
<1>4. ASSUME NEW o \in Opps, NEW q \in Quotes,
             Detect(o, q) \/ DetectUnpersisted(o, q)
      PROVE  UNCHANGED <<today, day>>
  BY <1>4 DEF Detect, DetectUnpersisted, Enqueue
<1>5. Fund => UNCHANGED <<today, day>>
  BY DEF Fund, FundNothing, FundSkip, FundReserve, Take, tableVars
<1>6. Send => UNCHANGED <<today, day>>
  BY DEF Send, SendSuppressed, SendDelivered, SendFails, SendRaises, Sent,
         tableVars
<1>7. EndSweep \/ Clip \/ ClipFails \/ EndCycle \/ Crash => UNCHANGED <<today, day>>
  BY DEF EndSweep, Clip, ClipFails, EndCycle, Crash, tableVars
<1>8. ASSUME NEW k \in Keys, Close(k) \/ ClaimLapses(k)
      PROVE  UNCHANGED <<today, day>>
  BY <1>8 DEF Close, ClaimLapses, cycleVars, tableVars
<1>9. ASSUME NEW v \in Versions, Start(v) \/ StartUnseeded(v)
      PROVE  UNCHANGED <<today, day>>
  BY <1>9 DEF Start, StartUnseeded, Boot, tableVars
<1>10. UNCHANGED vars => UNCHANGED <<today, day>>
  BY DEF vars, cycleVars, tableVars
<1> QED
  BY <1>2, <1>3, <1>4, <1>5, <1>6, <1>7, <1>8, <1>9, <1>10 DEF Next

(* The inductive invariant of the funding phase.                           *)
THEOREM FundingInvariant == Spec => [](TypeOK /\ FundingInv)
<1>1. Init => TypeOK /\ FundingInv
  <2> SUFFICES ASSUME Init PROVE FundingInv
    BY InitTyped
  <2>1. today <= day
    BY LedgerAssumption DEF Init
  <2>2. GrantIsOnTheRow
    BY DEF Init, GrantIsOnTheRow
  <2> QED
    BY <2>1, <2>2 DEF Init, FundingInv, QueueInv, WaitingInv, CurrentInv
<1>2. TypeOK /\ FundingInv /\ [Next]_vars => (TypeOK /\ FundingInv)'
  BY NextTyped, QueueStays, WaitingStays, CurrentStays, GrantStays, TodayStays
     DEF FundingInv
<1> QED
  BY <1>1, <1>2, PTL DEF Spec

(* seed_exposure_ledger can recover every grant from the table: whatever   *)
(* was granted is on a premium row, dated no earlier than the grant.       *)
THEOREM GrantsAreOnRows == Spec => []GrantIsOnTheRow
BY FundingInvariant, PTL DEF FundingInv

(* _reserve_for_outcome: no row is granted bankroll twice.                 *)
THEOREM GrantsAreSingle == Spec => GrantedOnce
<1>1. ASSUME TypeOK, FundingInv, [Next]_vars,
             NEW k \in Keys, grant'[k] # grant[k]
      PROVE  \A d \in Days : grant[k][d] = 0
  <2>1. PICK c \in deferred : FundReserve(c)
    BY <1>1, GrantSteps
  <2>2. k = <<c.opp, version>> /\ Pending(c)
    BY <1>1, <2>1, ReserveGrants
  <2> QED
    BY <1>1, <2>2 DEF FundingInv, WaitingInv
<1>2. TypeOK /\ FundingInv /\ [Next]_vars =>
        [\A k \in Keys :
            grant'[k] # grant[k] => \A d \in Days : grant[k][d] = 0]_vars
  BY <1>1
<1> QED
  BY <1>2, FundingInvariant, PTL DEF Spec, GrantedOnce

(* The alert record is set by a delivery, cleared by a new cycle.          *)
LEMMA AlertSteps ==
    ASSUME [Next]_vars
    PROVE  alert' = alert \/ alert' = NoAlert \/ SendDelivered
<1>1. ASSUME NEW o \in Opps, NEW q \in Quotes,
             Detect(o, q) \/ DetectUnpersisted(o, q)
      PROVE  alert' = alert
  BY <1>1 DEF Detect, DetectUnpersisted, Enqueue, historyVars
<1>2. Fund => alert' = alert
  BY DEF Fund, FundNothing, FundSkip, FundReserve, Take
<1>3. Send => alert' = alert \/ SendDelivered
  BY DEF Send, SendSuppressed, SendFails, SendRaises, Sent, historyVars
<1>4. StartCycle => alert' = NoAlert
  BY DEF StartCycle
<1>5. EndSweep \/ Clip \/ ClipFails \/ EndCycle \/ NextDay \/ Crash
        => alert' = alert
  BY DEF EndSweep, Clip, ClipFails, EndCycle, NextDay, Crash, historyVars
<1>6. ASSUME NEW k \in Keys, Close(k) \/ ClaimLapses(k) PROVE alert' = alert
  BY <1>6 DEF Close, ClaimLapses, historyVars
<1>7. ASSUME NEW v \in Versions, Start(v) \/ StartUnseeded(v)
      PROVE  alert' = alert
  BY <1>7 DEF Start, StartUnseeded, Boot
<1>8. UNCHANGED vars => alert' = alert
  BY DEF vars, historyVars
<1> QED
  BY <1>1, <1>2, <1>3, <1>4, <1>5, <1>6, <1>7, <1>8 DEF Next

\* What persist_pick's answer says of the row it was given for.
NotShadow(k, outcome) ==
    /\ picks[k].status # "absent"
    /\ picks[k].tier = "premium" \/ (outcome = "duplicate" /\ ~Open(k))

\* A candidate's row is no open shadow row, from its detection to its alert,
\* and what a new or promoted pick quotes is on the row.
StandsInv ==
    /\ \A c \in deferred :
          c.outcome # "unpersisted" => NotShadow(<<c.opp, version>>, c.outcome)
    /\ pc \in {"clip", "send"} /\ current.outcome # "unpersisted" =>
          /\ NotShadow(<<current.opp, version>>, current.outcome)
          /\ Pending(current) =>
               current.stake <= picks[<<current.opp, version>>].stake

(* No step makes it one again: a premium row stays premium, a closed row   *)
(* is neither promoted nor re-opened.                                      *)
LEMMA NotShadowStays ==
    ASSUME TypeOK, [Next]_vars, NEW k \in Keys, NEW outcome, NotShadow(k, outcome)
    PROVE  NotShadow(k, outcome)'
<1>1. CASE picks[k].tier = "premium"
  BY <1>1, PremiumRowStays DEF NotShadow
<1>2. CASE picks[k].tier # "premium"
  <2>1. /\ outcome = "duplicate"
        /\ picks[k].status # "absent" /\ picks[k].status # "alerted"
        /\ picks[k] \in Row
    BY <1>2 DEF NotShadow, Open, TypeOK
  <2>2. ~RowWritten(k)
    BY <2>1 DEF RowWritten, PersistOutcome
  <2>3. picks'[k].status # "absent" /\ picks'[k].status # "alerted"
    <3>1. CASE picks'[k] = picks[k]
      BY <2>1, <3>1
    <3>2. CASE RowClipped(k)
      BY <2>1, <3>2 DEF RowClipped, Row
    <3>3. CASE RowClosed(k)
      BY <2>1, <3>3 DEF RowClosed, Row
    <3> QED
      BY <2>2, <3>1, <3>2, <3>3, RowSteps
  <2> QED
    BY <2>1, <2>3 DEF NotShadow, Open
<1> QED
  BY <1>1, <1>2

(* The waiting candidates, and the one that is taken, stand on such rows.  *)
LEMMA StandsStays == TypeOK /\ FundingInv /\ StandsInv /\ [Next]_vars => StandsInv'
<1> SUFFICES ASSUME TypeOK, FundingInv, StandsInv, [Next]_vars PROVE StandsInv'
  OBVIOUS
<1>1. ASSUME NEW c \in deferred', c.outcome # "unpersisted"
      PROVE  NotShadow(<<c.opp, version>>, c.outcome)'
  <2>1. version' = version
    BY <1>1, QueueFrame DEF FundingInv
  <2>2. CASE c \in deferred
    <3>1. <<c.opp, version>> \in Keys
      BY <2>2 DEF TypeOK, Candidate, Keys
    <3>2. NotShadow(<<c.opp, version>>, c.outcome)
      BY <1>1, <2>2 DEF StandsInv
    <3>3. NotShadow(<<c.opp, version>>, c.outcome)
            => /\ picks'[<<c.opp, version>>].status # "absent"
               /\ \/ picks'[<<c.opp, version>>].tier = "premium"
                  \/ /\ c.outcome = "duplicate"
                     /\ picks'[<<c.opp, version>>].status # "alerted"
      BY <3>1, NotShadowStays DEF NotShadow, Open
    <3> QED
      BY <2>1, <3>2, <3>3 DEF NotShadow, Open
  <2>3. CASE c \notin deferred
    <3>1. PICK o \in Opps, q \in Quotes :
            /\ Detect(o, q)
            /\ q.tier = "premium"
            /\ c = [opp |-> o, quote |-> q,
                    outcome |-> PersistOutcome(picks[<<o, version>>], q)]
      BY <1>1, <2>3, QueueGrows
    <3> DEFINE k == <<o, version>>
    <3>2. /\ c.opp = o /\ c.outcome = PersistOutcome(picks[k], q)
          /\ k \in Keys /\ picks[k] \in Row
      BY <3>1 DEF Keys, TypeOK
    <3>3. CASE c.outcome = "duplicate"
      <4>1. picks' = picks
        BY <3>1, <3>2, <3>3 DEF Detect
      <4>2. NotShadow(k, c.outcome)
        BY <3>1, <3>2, <3>3 DEF NotShadow, PersistOutcome, Open, Row, Tiers
      <4> QED
        BY <2>1, <3>2, <4>1, <4>2 DEF NotShadow, Open
    <3>4. CASE c.outcome # "duplicate"
      <4>1. picks' = Written(o, version, q)
        BY <3>1, <3>2, <3>4 DEF Detect
      <4>2. AsWritten(k, o, q, picks'[k])
        BY <3>2, <4>1, WrittenRows
      <4>3. picks'[k] = [status |-> "alerted", tier |-> q.tier,
                         stake |-> q.stake, created |-> day]
        BY <4>2 DEF AsWritten
      <4> QED
        BY <2>1, <3>1, <3>2, <4>3 DEF NotShadow
    <3> QED
      BY <3>3, <3>4
  <2> QED
    BY <2>2, <2>3
<1>2. ASSUME pc' \in {"clip", "send"}, current'.outcome # "unpersisted"
      PROVE  /\ NotShadow(<<current.opp, version>>, current.outcome)'
             /\ Pending(current') =>
                  current'.stake <= picks'[<<current'.opp, version'>>].stake
  <2>1. ASSUME NEW c \in deferred, FundNothing(c)
        PROVE  /\ NotShadow(<<current.opp, version>>, current.outcome)'
               /\ ~Pending(current')
    <3>1. /\ current'.opp = c.opp /\ current'.outcome = c.outcome
          /\ c.outcome \in {"duplicate", "unpersisted"}
          /\ picks' = picks /\ version' = version
      BY <2>1 DEF FundNothing, Take, Staked, tableVars, deployment
    <3>2. NotShadow(<<c.opp, version>>, c.outcome)
      BY <1>2, <3>1 DEF StandsInv
    <3> QED
      BY <3>1, <3>2 DEF NotShadow, Open, Pending
  <2>2. ASSUME NEW c \in deferred, FundReserve(c)
        PROVE  /\ NotShadow(<<current.opp, version>>, current.outcome)'
               /\ current'.stake <= picks'[<<current'.opp, version'>>].stake
    <3> DEFINE g == CandidateGrant(c)
               k == <<c.opp, version>>
    <3>1. /\ k \in Keys /\ g \in Nat /\ g <= c.quote.stake /\ c.quote.stake \in Nat
          /\ Pending(c) /\ current'.opp = c.opp /\ current'.stake = g
          /\ picks' = picks /\ version' = version
      BY <2>2, ReserveGrants
    <3>2. /\ picks[k].stake >= c.quote.stake /\ picks[k].stake \in Nat
          /\ picks[k].status # "absent" /\ picks[k].tier = "premium"
      BY <3>1 DEF FundingInv, WaitingInv, OnPremiumRow, TypeOK, Row
    <3> HIDE DEF g
    <3>3. g <= picks[k].stake
      BY <3>1, <3>2
    <3> QED
      BY <3>1, <3>2, <3>3 DEF NotShadow
  <2>3. CASE /\ pc \in {"clip", "send"}
             /\ pc' = "clip" => pc = "clip"
             /\ current' = current /\ version' = version /\ grant' = grant
    <3> DEFINE k == <<current.opp, version>>
    <3>1. k \in Keys /\ current.stake \in Nat
      BY <2>3 DEF TypeOK, Keys
    <3>2. /\ NotShadow(k, current.outcome)
          /\ Pending(current) => current.stake <= picks[k].stake
      BY <1>2, <2>3 DEF StandsInv
    <3>3. NotShadow(k, current.outcome)
            => /\ picks'[k].status # "absent"
               /\ \/ picks'[k].tier = "premium"
                  \/ current.outcome = "duplicate" /\ picks'[k].status # "alerted"
      BY <3>1, NotShadowStays DEF NotShadow, Open
    <3>4. ASSUME Pending(current) PROVE current.stake <= picks'[k].stake
      <4>1. picks[k].status # "absent" /\ picks[k].tier = "premium"
        BY <2>3, <3>4 DEF FundingInv, CurrentInv, OnPremiumRow
      <4> QED
        BY <3>1, <3>2, <3>4, <4>1, PremiumRowStays
    <3> QED
      BY <2>3, <3>2, <3>3, <3>4 DEF NotShadow, Open
  <2> QED
    BY <1>2, <2>1, <2>2, <2>3, CurrentSteps
<1> QED
  BY <1>1, <1>2 DEF StandsInv, NotShadow, Open, Pending

\* A row whose new or promoted pick was alerted is not funded again.
ApartInv ==
    alert # NoAlert /\ Pending(alert) =>
        /\ \A c \in deferred : Pending(c) => <<c.opp, version>> # alert.key
        /\ pc = "clip" => <<current.opp, version>> # alert.key

(* A candidate is new or promoted only on a row that is absent or shadow;  *)
(* an alerted row is premium.                                              *)
LEMMA ApartStays ==
    TypeOK /\ FundingInv /\ AlertStandsOnItsRow /\ ApartInv /\ [Next]_vars => ApartInv'
<1> SUFFICES ASSUME TypeOK, FundingInv, AlertStandsOnItsRow, ApartInv, [Next]_vars,
                    alert' # NoAlert, Pending(alert')
             PROVE  /\ \A c \in deferred' :
                          Pending(c) => <<c.opp, version'>> # alert'.key
                    /\ pc' = "clip" => <<current'.opp, version'>> # alert'.key
  BY DEF ApartInv, Pending
<1>1. CASE SendDelivered
  <2>1. /\ alert'.key = <<current.opp, version>> /\ version' = version
        /\ deferred' = deferred /\ pc = "send" /\ pc' # "clip"
    BY <1>1 DEF SendDelivered, Sent, deployment, Resume
  <2>2. \A c \in deferred : c.opp # current.opp
    BY <2>1 DEF FundingInv, QueueInv
  <2> QED
    BY <2>1, <2>2
<1>2. CASE alert' = alert
  <2>1. /\ alert.key \in Keys /\ alert # NoAlert /\ Pending(alert)
        /\ picks[alert.key].tier = "premium" /\ picks[alert.key].status # "absent"
    BY <1>2 DEF TypeOK, AlertStandsOnItsRow, Pending
  <2>2. /\ \A c \in deferred : Pending(c) => <<c.opp, version>> # alert.key
        /\ pc = "clip" => <<current.opp, version>> # alert.key
    BY <2>1 DEF ApartInv
  <2>3. ASSUME NEW c \in deferred', Pending(c)
        PROVE  <<c.opp, version'>> # alert'.key
    <3>1. version' = version
      BY <2>3, QueueFrame DEF FundingInv
    <3>2. CASE c \in deferred
      BY <1>2, <2>2, <2>3, <3>1, <3>2
    <3>3. CASE c \notin deferred
      <4>1. PICK o \in Opps, q \in Quotes :
              /\ Detect(o, q)
              /\ q.tier = "premium"
              /\ c = [opp |-> o, quote |-> q,
                      outcome |-> PersistOutcome(picks[<<o, version>>], q)]
        BY <2>3, <3>3, QueueGrows DEF Pending
      <4>2. c.opp = o /\ c.outcome = PersistOutcome(picks[<<o, version>>], q)
        BY <4>1
      <4>3. \/ picks[<<o, version>>].status = "absent"
            \/ picks[<<o, version>>].tier = "volume"
        BY <2>3, <4>2 DEF Pending, PersistOutcome
      <4> QED
        BY <1>2, <2>1, <3>1, <4>2, <4>3
    <3> QED
      BY <3>2, <3>3
  <2>4. ASSUME pc' = "clip" PROVE <<current'.opp, version'>> # alert'.key
    <3>1. ASSUME NEW c \in deferred, FundReserve(c)
          PROVE  <<current'.opp, version'>> # alert'.key
      <4>1. Pending(c) /\ current'.opp = c.opp /\ version' = version
        BY <3>1, ReserveGrants
      <4> QED
        BY <1>2, <2>2, <4>1
    <3> QED
      BY <1>2, <2>2, <2>4, <3>1, CurrentSteps
  <2> QED
    BY <2>3, <2>4
<1> QED
  BY <1>1, <1>2, AlertSteps

(* What an alert says of its row stays true of it.                         *)
LEMMA AlertStays ==
    /\ TypeOK /\ FundingInv /\ StandsInv /\ ApartInv
    /\ AlertStandsOnItsRow /\ [Next]_vars
    => AlertStandsOnItsRow'
<1> SUFFICES ASSUME TypeOK, FundingInv, StandsInv, ApartInv, AlertStandsOnItsRow,
                    [Next]_vars, alert' # NoAlert, alert'.outcome # "unpersisted"
             PROVE  /\ NotShadow(alert.key, alert.outcome)'
                    /\ alert'.outcome # "duplicate" =>
                         alert'.stake <= picks'[alert'.key].stake
  BY DEF AlertStandsOnItsRow, NotShadow, Open
<1>1. CASE alert' = alert
  <2>1. /\ alert.key \in Keys /\ alert.outcome \in Outcomes /\ alert.stake \in Nat
        /\ NotShadow(alert.key, alert.outcome)
        /\ alert.outcome # "duplicate" => alert.stake <= picks[alert.key].stake
    BY <1>1 DEF TypeOK, AlertStandsOnItsRow, NotShadow
  <2>2. NotShadow(alert.key, alert.outcome)'
    BY <1>1, <2>1, NotShadowStays DEF NotShadow, Open
  <2>3. ASSUME alert.outcome # "duplicate"
        PROVE  alert.stake <= picks'[alert.key].stake
    <3>1. Pending(alert)
      BY <1>1, <2>1, <2>3 DEF Pending, Outcomes
    <3>2. pc = "clip" => <<current.opp, version>> # alert.key
      BY <1>1, <3>1 DEF ApartInv
    <3>3. picks[alert.key].status # "absent" /\ picks[alert.key].tier = "premium"
      BY <2>1, <2>3 DEF NotShadow
    <3> QED
      BY <2>1, <2>3, <3>2, <3>3, PremiumRowStays
  <2> QED
    BY <1>1, <2>2, <2>3
<1>2. CASE SendDelivered
  <2> DEFINE k == <<current.opp, version>>
  <2>1. /\ pc = "send" /\ picks' = picks
        /\ alert' = [key |-> k, outcome |-> current.outcome, stake |-> current.stake]
    BY <1>2 DEF SendDelivered, Sent, tableVars
  <2>2. alert'.key = k /\ alert'.outcome = current.outcome /\ alert'.stake = current.stake
    BY <2>1
  <2>3. /\ NotShadow(k, current.outcome)
        /\ Pending(current) => current.stake <= picks[k].stake
    BY <2>1, <2>2 DEF StandsInv
  <2>4. current.outcome # "duplicate" => Pending(current)
    BY <2>1, <2>2 DEF TypeOK, Outcomes, Pending
  <2> QED
    BY <2>1, <2>2, <2>3, <2>4 DEF NotShadow, Open
<1> QED
  BY <1>1, <1>2, AlertSteps

(* An alert stands on its row (persist_pick, _reserve_for_outcome and the  *)
(* dispatch of run_value_pipeline): no open shadow row is ever alerted, and *)
(* a new or promoted pick quotes no more than its row has staked.          *)
THEOREM AlertsStandOnRows == Spec => []AlertStandsOnItsRow
<1> DEFINE Inv == StandsInv /\ ApartInv /\ AlertStandsOnItsRow
<1>1. Init => Inv
  BY DEF Init, AlertStandsOnItsRow, StandsInv, ApartInv
<1>2. TypeOK /\ FundingInv /\ Inv /\ [Next]_vars => Inv'
  BY StandsStays, ApartStays, AlertStays
<1>3. Inv => AlertStandsOnItsRow
  OBVIOUS
<1> HIDE DEF Inv
<1> QED
  BY <1>1, <1>2, <1>3, FundingInvariant, PTL DEF Spec

\* A sweep of the value strategy has granted nothing yet.
KellyInv ==
    /\ Deferring /\ pc = "sweep" => funded = {}
    /\ HighestKellyFirst

(* A step of the cycle keeps the order of the grants.                      *)
LEMMA KellyStays ==
    TypeOK /\ QueueInv /\ KellyInv /\ [Next]_vars => KellyInv'
<1> SUFFICES ASSUME TypeOK, QueueInv, KellyInv, [Next]_vars PROVE KellyInv'
  OBVIOUS
<1>1. CASE StartCycle
  BY <1>1 DEF StartCycle, KellyInv, HighestKellyFirst
<1>2. ASSUME NEW o \in Opps, NEW q \in Quotes,
             Detect(o, q) \/ DetectUnpersisted(o, q)
      PROVE  KellyInv'
  <2>1. pc = "sweep" /\ Deferring' = Deferring /\ funded' = funded
    BY <1>2 DEF Detect, DetectUnpersisted, Enqueue, deployment, historyVars,
                Deferring
  <2>2. Deferring => funded' = {}
    BY <2>1 DEF KellyInv
  <2> QED
    BY <2>1, <2>2 DEF KellyInv, HighestKellyFirst
<1>3. CASE EndSweep
  <2>1. pc = "sweep" /\ Deferring' = Deferring /\ funded' = funded
    BY <1>3 DEF EndSweep, deployment, historyVars, Deferring
  <2> QED
    BY <2>1 DEF KellyInv, HighestKellyFirst
<1>4. ASSUME NEW c \in deferred,
             pc = "fund", pc' # "sweep" \/ ~Deferring, IsNext(c),
             deferred' = deferred \ {c}, Deferring' = Deferring,
             funded' \subseteq funded \cup {c.quote.kelly}
      PROVE  KellyInv'
  BY <1>4 DEF KellyInv, HighestKellyFirst, IsNext
<1>5. ASSUME NEW c \in deferred,
             FundNothing(c) \/ FundSkip(c) \/ FundReserve(c)
      PROVE  KellyInv'
  <2>1. /\ pc = "fund" /\ IsNext(c) /\ deferred' = deferred \ {c}
        /\ Deferring' = Deferring
        /\ pc' # "sweep" \/ ~Deferring
    BY <1>5 DEF FundNothing, FundSkip, FundReserve, Take, Resume, deployment,
                Deferring
  <2>2. funded' \subseteq funded \cup {c.quote.kelly}
    BY <1>5 DEF FundNothing, FundSkip, FundReserve
  <2> QED
    BY <1>4, <2>1, <2>2
<1>6. CASE Clip \/ ClipFails
  BY <1>6 DEF Clip, ClipFails, KellyInv, HighestKellyFirst, Deferring,
              deployment, historyVars
<1>7. CASE Send
  <2>1. CASE SendRaises
    BY <2>1 DEF SendRaises, KellyInv, HighestKellyFirst
  <2>2. CASE Sent /\ pc = "send"
    BY <2>2 DEF Sent, Resume, KellyInv, HighestKellyFirst, Deferring, deployment
  <2> QED
    BY <1>7, <2>1, <2>2 DEF Send, SendSuppressed, SendDelivered, SendFails
<1>8. EndCycle \/ Crash => KellyInv'
  BY DEF EndCycle, Crash, KellyInv, HighestKellyFirst
<1>9. ASSUME NEW v \in Versions, Boot(v) PROVE KellyInv'
  BY <1>9 DEF Boot, KellyInv, HighestKellyFirst
<1>10. CASE UNCHANGED cycleVars /\ UNCHANGED historyVars
  BY <1>10 DEF cycleVars, deployment, historyVars, KellyInv, HighestKellyFirst,
               Deferring
<1>11. ASSUME NEW k \in Keys, Close(k) \/ ClaimLapses(k)
      PROVE  UNCHANGED cycleVars /\ UNCHANGED historyVars
  BY <1>11 DEF Close, ClaimLapses
<1>12. NextDay \/ UNCHANGED vars => UNCHANGED cycleVars /\ UNCHANGED historyVars
  BY DEF NextDay, vars
<1> QED
  BY <1>1, <1>2, <1>3, <1>5, <1>6, <1>7, <1>8, <1>9, <1>10, <1>11, <1>12
     DEF Next, Fund, Start, StartUnseeded

(* premium_candidates.sort: bankroll goes to the highest raw Kelly first.  *)
THEOREM KellyOrder == Spec => []HighestKellyFirst
<1>1. Init => KellyInv
  BY DEF Init, KellyInv, HighestKellyFirst
<1>2. TypeOK /\ FundingInv /\ KellyInv /\ [Next]_vars => KellyInv'
  BY KellyStays DEF FundingInv
<1>3. KellyInv => HighestKellyFirst
  BY DEF KellyInv
<1> QED
  BY <1>1, <1>2, <1>3, FundingInvariant, PTL DEF Spec

-----------------------------------------------------------------------------
(* Sums over finite sets.                                                  *)

(* A non-empty family of finite sets has a member with no smaller one in   *)
(* it: a minimal counterexample, all that an induction over sets needs.    *)
LEMMA LeastSubset ==
  ASSUME NEW U, NEW Bad \in SUBSET FiniteSubsetsOf(U), Bad # {}
  PROVE  \E S \in Bad : \A T \in Bad : T \subseteq S => T = S
<1>1. IsWellFoundedOn(StrictSubsetOrdering(U), FiniteSubsetsOf(U))
  BY FS_StrictSubsetOrderingWellFounded
<1>2. PICK S \in Bad : \A T \in Bad : ~ (<<T, S>> \in StrictSubsetOrdering(U))
  BY <1>1, WFMin
<1>3. ASSUME NEW T \in Bad, T \subseteq S PROVE T = S
  <2>1. T \in SUBSET U /\ S \in SUBSET U BY DEF FiniteSubsetsOf
  <2> QED BY <1>2, <1>3, <2>1 DEF StrictSubsetOrdering
<1> QED BY <1>3

\* The index that a sum takes out first.
Chosen(s) == CHOOSE x \in s : TRUE

\* The function that the community module's fold defines by recursion.
IsSummation(g, fun, S) ==
  g = [s \in SUBSET S |-> IF s = {} THEN 0 ELSE fun[Chosen(s)] + g[s \ {Chosen(s)}]]

Summation(fun, S) == CHOOSE g : IsSummation(g, fun, S)

(* What a sum is.                                                          *)
LEMMA SumIs == ASSUME NEW fun, NEW S PROVE
  SumFunctionOnSet(fun,S) = Summation(fun, S)[S]
BY DEF SumFunctionOnSet, FoldFunctionOnSet, MapThenFoldSet, IsSummation, Summation, Chosen

(* A non-empty set has the index that is taken out first.                  *)
LEMMA ChosenIn == ASSUME NEW S, S # {} PROVE Chosen(S) \in S
BY DEF Chosen

(* The recursion has at most one solution ...                              *)
LEMMA SummationUnique ==
  ASSUME NEW S, IsFiniteSet(S), NEW fun, NEW g, NEW h,
         IsSummation(g, fun, S), IsSummation(h, fun, S)
  PROVE  g = h
<1> DEFINE Bad == {T \in FiniteSubsetsOf(S) : g[T] # h[T]}
<1>1. FiniteSubsetsOf(S) = SUBSET S BY FS_FiniteSubsetsOfFinite
<1>2. SUFFICES ASSUME Bad # {} PROVE FALSE BY <1>1 DEF IsSummation
<1>3. PICK T \in Bad : \A U \in Bad : U \subseteq T => U = T
  <2>1. Bad \in SUBSET FiniteSubsetsOf(S) OBVIOUS
  <2> HIDE DEF Bad
  <2> QED BY <1>2, <2>1, LeastSubset
<1>4. T \in SUBSET S /\ g[T] # h[T] BY <1>1
<1>5. T # {} BY <1>4 DEF IsSummation
<1> DEFINE U == T \ {Chosen(T)}
<1>6. U \in SUBSET S /\ U \subseteq T /\ U # T BY <1>4, <1>5, ChosenIn
<1>7. g[U] = h[U] BY <1>1, <1>3, <1>6
<1>8. g[T] = fun[Chosen(T)] + g[U] /\ h[T] = fun[Chosen(T)] + h[U]
  BY <1>4, <1>5 DEF IsSummation
<1> QED BY <1>4, <1>7, <1>8

(* ... which solves it on every subset too ...                             *)
LEMMA SummationRestricts ==
  ASSUME NEW S, NEW T \in SUBSET S, NEW fun, NEW g, IsSummation(g, fun, S)
  PROVE  IsSummation([s \in SUBSET T |-> g[s]], fun, T)
<1> DEFINE h == [s \in SUBSET T |-> g[s]]
<1>1. ASSUME NEW s \in SUBSET T
      PROVE  g[s] = IF s = {} THEN 0 ELSE fun[Chosen(s)] + h[s \ {Chosen(s)}]
  <2>1. s \in SUBSET S /\ s \ {Chosen(s)} \in SUBSET T OBVIOUS
  <2> QED BY <2>1 DEF IsSummation
<1>2. h = [s \in SUBSET T |-> IF s = {} THEN 0 ELSE fun[Chosen(s)] + h[s \ {Chosen(s)}]]
  BY <1>1
<1> QED BY <1>2 DEF IsSummation

(* ... and it has one on every finite set.                                 *)
LEMMA SummationExists ==
  ASSUME NEW S, IsFiniteSet(S), NEW fun
  PROVE  \E g : IsSummation(g, fun, S)
<1> DEFINE Bad == {T \in FiniteSubsetsOf(S) : ~\E g : IsSummation(g, fun, T)}
<1>1. FiniteSubsetsOf(S) = SUBSET S BY FS_FiniteSubsetsOfFinite
<1>2. SUFFICES ASSUME Bad # {} PROVE FALSE BY <1>1
<1>3. PICK T \in Bad : \A U \in Bad : U \subseteq T => U = T
  <2>1. Bad \in SUBSET FiniteSubsetsOf(S) OBVIOUS
  <2> HIDE DEF Bad
  <2> QED BY <1>2, <2>1, LeastSubset
<1>4. T \in SUBSET S /\ ~\E g : IsSummation(g, fun, T) BY <1>1
<1>5. ASSUME NEW U \in SUBSET T, U # T PROVE IsSummation(Summation(fun, U), fun, U)
  <2>1. U \in SUBSET S BY <1>4
  <2>2. \E g : IsSummation(g, fun, U) BY <1>1, <1>3, <1>5, <2>1
  <2> QED BY <2>2 DEF Summation
<1> DEFINE Rest(s) == s \ {Chosen(s)}
           Whole(s) == Summation(fun, s)[s]
           g == [s \in SUBSET T |-> IF s = {} THEN 0 ELSE fun[Chosen(s)] + Whole(Rest(s))]
<1>6. ASSUME NEW U \in SUBSET T, U # T PROVE g[U] = Whole(U)
  <2>1. IsSummation(Summation(fun, U), fun, U) BY <1>5, <1>6
  <2>2. CASE U = {} BY <2>1, <2>2 DEF IsSummation
  <2>3. CASE U # {}
    <3>1. Rest(U) \in SUBSET U /\ Rest(U) # T /\ Rest(U) \in SUBSET T
      BY <1>6, <2>3, ChosenIn
    <3>2. Whole(U) = fun[Chosen(U)] + Summation(fun, U)[Rest(U)]
      BY <2>1, <2>3 DEF IsSummation
    <3> DEFINE R == Rest(U)
    <3>3. R \in SUBSET U /\ IsSummation(Summation(fun, R), fun, R) /\ IsFiniteSet(R)
      BY <1>4, <1>5, <3>1, FS_Subset
    <3> HIDE DEF R
    <3>4. IsSummation([s \in SUBSET R |-> Summation(fun, U)[s]], fun, R)
      <4>1. R \in SUBSET U BY <3>3
      <4> QED BY <2>1, <4>1, SummationRestricts
    <3>5. Summation(fun, R) = [s \in SUBSET R |-> Summation(fun, U)[s]]
      BY <3>3, <3>4, SummationUnique
    <3>6. Summation(fun, R)[R] = Summation(fun, U)[R] BY <3>5
    <3>7. Whole(Rest(U)) = Summation(fun, U)[Rest(U)] BY <3>6 DEF R
    <3> QED BY <2>3, <3>2, <3>7
  <2> QED BY <2>2, <2>3
<1>7. ASSUME NEW s \in SUBSET T, s # {} PROVE g[Rest(s)] = Whole(Rest(s))
  <2>1. Rest(s) \in SUBSET T /\ Rest(s) # T BY <1>7, ChosenIn
  <2> HIDE DEF Rest, g
  <2> QED BY <1>6, <2>1
<1>8. g = [s \in SUBSET T |-> IF s = {} THEN 0 ELSE fun[Chosen(s)] + g[s \ {Chosen(s)}]]
  BY <1>7
<1> HIDE DEF g
<1>9. IsSummation(g, fun, T) BY <1>8 DEF IsSummation
<1> QED BY <1>4, <1>9

(* So a sum is the number at some index and the sum of the others.         *)
LEMMA SumStep ==
  ASSUME NEW S, IsFiniteSet(S), NEW fun
  PROVE  /\ S = {} => SumFunctionOnSet(fun, S) = 0
         /\ S # {} => SumFunctionOnSet(fun, S)
                        = fun[Chosen(S)] + SumFunctionOnSet(fun, S \ {Chosen(S)})
<1> DEFINE T == S \ {Chosen(S)}
<1>1. IsFiniteSet(T) BY FS_RemoveElement
<1>2. IsSummation(Summation(fun, S), fun, S) BY SummationExists DEF Summation
<1>3. IsSummation(Summation(fun, T), fun, T)
  <2> HIDE DEF T
  <2> QED BY <1>1, SummationExists DEF Summation
<1>4. IsSummation([s \in SUBSET T |-> Summation(fun, S)[s]], fun, T)
  <2>1. T \in SUBSET S OBVIOUS
  <2> HIDE DEF T
  <2> QED BY <1>2, <2>1, SummationRestricts
<1>5. Summation(fun, T)[T] = Summation(fun, S)[T]
  <2> HIDE DEF T
  <2>1. Summation(fun, T) = [s \in SUBSET T |-> Summation(fun, S)[s]]
    BY <1>1, <1>3, <1>4, SummationUnique
  <2> QED BY <2>1
<1>6. S = {} => Summation(fun, S)[S] = 0 BY <1>2 DEF IsSummation
<1>7. S # {} => Summation(fun, S)[S] = fun[Chosen(S)] + Summation(fun, S)[T]
  BY <1>2 DEF IsSummation
<1> HIDE DEF T
<1>8. SumFunctionOnSet(fun, T) = Summation(fun, T)[T] BY SumIs
<1>9. SumFunctionOnSet(fun, S) = Summation(fun, S)[S] BY SumIs
<1> QED BY <1>5, <1>6, <1>7, <1>8, <1>9 DEF T

(* A sum of natural numbers is one.                                        *)
LEMMA SumIsNat ==
  ASSUME NEW S, IsFiniteSet(S), NEW fun, \A x \in S : fun[x] \in Nat
  PROVE  SumFunctionOnSet(fun, S) \in Nat
<1> DEFINE Bad == {T \in FiniteSubsetsOf(S) : SumFunctionOnSet(fun, T) \notin Nat}
<1>1. FiniteSubsetsOf(S) = SUBSET S BY FS_FiniteSubsetsOfFinite
<1>2. SUFFICES ASSUME Bad # {} PROVE FALSE BY <1>1
<1>3. PICK T \in Bad : \A U \in Bad : U \subseteq T => U = T
  <2>1. Bad \in SUBSET FiniteSubsetsOf(S) OBVIOUS
  <2> HIDE DEF Bad
  <2> QED BY <1>2, <2>1, LeastSubset
<1>4. T \in SUBSET S /\ IsFiniteSet(T) /\ SumFunctionOnSet(fun, T) \notin Nat
  BY <1>1 DEF FiniteSubsetsOf
<1> DEFINE U == T \ {Chosen(T)}
<1>5. CASE T = {} BY <1>4, <1>5, SumStep
<1>6. CASE T # {}
  <2>1. Chosen(T) \in S /\ U \subseteq T /\ U # T /\ U \in SUBSET S
    BY <1>4, <1>6, ChosenIn
  <2>2. SumFunctionOnSet(fun, U) \in Nat BY <1>1, <1>3, <2>1
  <2>3. SumFunctionOnSet(fun, T) = fun[Chosen(T)] + SumFunctionOnSet(fun, U)
    BY <1>4, <1>6, SumStep
  <2> QED BY <1>4, <2>1, <2>2, <2>3
<1> QED BY <1>5, <1>6

(* Any index may be taken out first.                                       *)
LEMMA SumWithout ==
  ASSUME NEW S, IsFiniteSet(S), NEW fun, \A x \in S : fun[x] \in Nat, NEW x \in S
  PROVE  SumFunctionOnSet(fun, S) = fun[x] + SumFunctionOnSet(fun, S \ {x})
<1> DEFINE Bad == {T \in FiniteSubsetsOf(S) :
                     \E y \in T : SumFunctionOnSet(fun, T)
                                    # fun[y] + SumFunctionOnSet(fun, T \ {y})}
<1>1. FiniteSubsetsOf(S) = SUBSET S BY FS_FiniteSubsetsOfFinite
<1>2. SUFFICES ASSUME Bad # {} PROVE FALSE BY <1>1
<1>3. PICK T \in Bad : \A U \in Bad : U \subseteq T => U = T
  <2>1. Bad \in SUBSET FiniteSubsetsOf(S) OBVIOUS
  <2> HIDE DEF Bad
  <2> QED BY <1>2, <2>1, LeastSubset
<1>4. PICK y \in T : SumFunctionOnSet(fun, T) # fun[y] + SumFunctionOnSet(fun, T \ {y})
  OBVIOUS
<1>5. T \in SUBSET S /\ IsFiniteSet(T) BY <1>1 DEF FiniteSubsetsOf
<1> DEFINE c == Chosen(T)
           U == T \ {c}
           V == T \ {y}
           W == T \ {c, y}
<1>6. c \in T BY <1>4, ChosenIn
<1>7. SumFunctionOnSet(fun, T) = fun[c] + SumFunctionOnSet(fun, U)
  BY <1>4, <1>5, SumStep
<1>8. c # y BY <1>4, <1>7
<1>9. y \in U /\ c \in V /\ U \ {y} = W /\ V \ {c} = W BY <1>4, <1>6, <1>8
<1>10. U \in SUBSET S /\ U \subseteq T /\ U # T /\ V \in SUBSET S /\ V \subseteq T /\ V # T
  BY <1>4, <1>5, <1>6
<1>11. U \notin Bad /\ V \notin Bad BY <1>3, <1>10
<1>12. /\ SumFunctionOnSet(fun, U) = fun[y] + SumFunctionOnSet(fun, W)
       /\ SumFunctionOnSet(fun, V) = fun[c] + SumFunctionOnSet(fun, W)
  BY <1>1, <1>9, <1>10, <1>11
<1>13. fun[c] \in Nat /\ fun[y] \in Nat /\ SumFunctionOnSet(fun, W) \in Nat
  <2>1. W \in SUBSET S BY <1>5
  <2>2. IsFiniteSet(W) BY <2>1, FS_Subset
  <2>3. SumFunctionOnSet(fun, W) \in Nat
    <3> HIDE DEF W
    <3> QED BY <2>1, <2>2, SumIsNat
  <2> QED BY <1>4, <1>5, <1>6, <2>3
<1> HIDE DEF c, U, V, W
<1>14. SumFunctionOnSet(fun, T) = fun[y] + SumFunctionOnSet(fun, V)
  BY <1>7, <1>12, <1>13
<1> QED BY <1>4, <1>14 DEF V

(* A sum grows with its numbers.                                           *)
LEMMA SumMonotone ==
  ASSUME NEW S, IsFiniteSet(S), NEW fun, NEW gun,
         \A x \in S : fun[x] \in Nat /\ gun[x] \in Nat /\ fun[x] <= gun[x]
  PROVE  SumFunctionOnSet(fun, S) <= SumFunctionOnSet(gun, S)
<1> DEFINE Bad == {T \in FiniteSubsetsOf(S) :
                     ~(SumFunctionOnSet(fun, T) <= SumFunctionOnSet(gun, T))}
<1>1. FiniteSubsetsOf(S) = SUBSET S BY FS_FiniteSubsetsOfFinite
<1>2. SUFFICES ASSUME Bad # {} PROVE FALSE BY <1>1
<1>3. PICK T \in Bad : \A U \in Bad : U \subseteq T => U = T
  <2>1. Bad \in SUBSET FiniteSubsetsOf(S) OBVIOUS
  <2> HIDE DEF Bad
  <2> QED BY <1>2, <2>1, LeastSubset
<1>4. /\ T \in SUBSET S /\ IsFiniteSet(T)
      /\ ~(SumFunctionOnSet(fun, T) <= SumFunctionOnSet(gun, T))
  BY <1>1 DEF FiniteSubsetsOf
<1> DEFINE c == Chosen(T)
           U == T \ {c}
<1>5. CASE T = {}
  <2>1. SumFunctionOnSet(fun, T) = 0 /\ SumFunctionOnSet(gun, T) = 0
    BY <1>4, <1>5, SumStep
  <2> QED BY <1>4, <2>1
<1>6. CASE T # {}
  <2>1. c \in S /\ U \subseteq T /\ U # T /\ U \in SUBSET S BY <1>4, <1>6, ChosenIn
  <2>2. SumFunctionOnSet(fun, U) <= SumFunctionOnSet(gun, U) BY <1>1, <1>3, <2>1
  <2>3. /\ SumFunctionOnSet(fun, T) = fun[c] + SumFunctionOnSet(fun, U)
        /\ SumFunctionOnSet(gun, T) = gun[c] + SumFunctionOnSet(gun, U)
    BY <1>4, <1>6, SumStep
  <2>4. SumFunctionOnSet(fun, U) \in Nat /\ SumFunctionOnSet(gun, U) \in Nat
    <3>1. IsFiniteSet(U) BY <2>1, FS_Subset
    <3>2. \A x \in U : fun[x] \in Nat /\ gun[x] \in Nat BY <2>1
    <3> HIDE DEF U
    <3> QED BY <3>1, <3>2, SumIsNat
  <2>5. fun[c] \in Nat /\ gun[c] \in Nat /\ fun[c] <= gun[c] BY <2>1
  <2> HIDE DEF c, U
  <2> QED BY <1>4, <2>2, <2>3, <2>4, <2>5
<1> QED BY <1>5, <1>6

(* Indices where the number is 0 may be left out.                          *)
LEMMA SumOfSupport ==
  ASSUME NEW S, IsFiniteSet(S), NEW R \in SUBSET S, NEW fun,
         \A x \in S : fun[x] \in Nat, \A x \in S \ R : fun[x] = 0
  PROVE  SumFunctionOnSet(fun, S) = SumFunctionOnSet(fun, R)
<1> DEFINE Bad == {T \in FiniteSubsetsOf(S) :
                     R \subseteq T /\ SumFunctionOnSet(fun, T) # SumFunctionOnSet(fun, R)}
<1>1. FiniteSubsetsOf(S) = SUBSET S BY FS_FiniteSubsetsOfFinite
<1>2. SUFFICES ASSUME Bad # {} PROVE FALSE BY <1>1
<1>3. PICK T \in Bad : \A U \in Bad : U \subseteq T => U = T
  <2>1. Bad \in SUBSET FiniteSubsetsOf(S) OBVIOUS
  <2> HIDE DEF Bad
  <2> QED BY <1>2, <2>1, LeastSubset
<1>4. T \in SUBSET S /\ IsFiniteSet(T) /\ R \subseteq T /\ T # R
  BY <1>1 DEF FiniteSubsetsOf
<1>5. PICK x \in T : x \notin R BY <1>4
<1> DEFINE U == T \ {x}
<1>6. U \in SUBSET S /\ R \subseteq U /\ U \subseteq T /\ U # T BY <1>4, <1>5
<1>7. SumFunctionOnSet(fun, U) = SumFunctionOnSet(fun, R) BY <1>1, <1>3, <1>6
<1>8. SumFunctionOnSet(fun, T) = fun[x] + SumFunctionOnSet(fun, U)
  BY <1>4, SumWithout
<1>9. fun[x] = 0 BY <1>4, <1>5
<1>10. SumFunctionOnSet(fun, R) \in Nat
  <2>1. IsFiniteSet(R) BY FS_Subset
  <2> QED BY <2>1, SumIsNat
<1> HIDE DEF U
<1> QED BY <1>7, <1>8, <1>9, <1>10

(* Adding to one number adds as much to the sum.                           *)
LEMMA SumOfMore ==
  ASSUME NEW S, IsFiniteSet(S), NEW fun, NEW gun, NEW x \in S, NEW n \in Nat,
         \A y \in S : fun[y] \in Nat,
         \A y \in S : gun[y] = IF y = x THEN fun[y] + n ELSE fun[y]
  PROVE  SumFunctionOnSet(gun, S) = SumFunctionOnSet(fun, S) + n
<1> DEFINE R == S \ {x}
<1>1. IsFiniteSet(R) BY FS_RemoveElement
<1>2. \A y \in R : fun[y] \in Nat /\ gun[y] = fun[y] OBVIOUS
<1>3. /\ SumFunctionOnSet(gun, S) = gun[x] + SumFunctionOnSet(gun, R)
      /\ SumFunctionOnSet(fun, S) = fun[x] + SumFunctionOnSet(fun, R)
  BY SumWithout
<1> HIDE DEF R
<1>4. /\ SumFunctionOnSet(fun, R) <= SumFunctionOnSet(gun, R)
      /\ SumFunctionOnSet(gun, R) <= SumFunctionOnSet(fun, R)
      /\ SumFunctionOnSet(fun, R) \in Nat /\ SumFunctionOnSet(gun, R) \in Nat
  BY <1>1, <1>2, SumMonotone, SumIsNat
<1> QED BY <1>3, <1>4

-----------------------------------------------------------------------------
(* The caps.                                                               *)

KeysOf(e) == {k \in Keys : EventOf[k[1]] = e}

\* What the rows of R were granted for day d.
GrantedTo(d, R) == SumFunctionOnSet([k \in Keys |-> grant[k][d]], R)

\* The days for which the process may still reserve: its cycle's day, or, when
\* it has none, the day of the clock and later ones.
Horizon == IF pc = "idle" THEN day ELSE today

\* An account that may hold max: the rows of R were granted no more than the cap
\* and one more for each start without a seed, and while a process runs, all
\* but those further caps is booked in its ledger as u.
Account(d, R, max, u) ==
    /\ GrantedTo(d, R) <= max * (1 + unseeded[d])
    /\ pc # "down" /\ d >= Horizon => GrantedTo(d, R) <= u + max * unseeded[d]

DayAccount(d) == Account(d, Keys, MaxDaily, used[d])

EventAccount(d, e) == Account(d, KeysOf(e), MaxEvent, usedByEvent[d][e])

\* No row was written after the day of the clock.
DatesInv == \A k \in Keys : picks[k].created <= day

BooksInv ==
    /\ DatesInv
    /\ \A d \in Days : DayAccount(d)
    /\ EventCapOn => \A d \in Days, e \in Events : EventAccount(d, e)

(* Arithmetic of "one cap more".                                           *)
LEMMA OneCapMore ==
    ASSUME NEW m \in Nat, NEW n \in Nat
    PROVE  /\ m * n \in Nat /\ m * (1 + n) \in Nat
           /\ m * (1 + n) = m + m * n
           /\ m * (n + 1) = m + m * n
           /\ m * (1 + (n + 1)) = m + (m + m * n)
OBVIOUS

(* There are finitely many rows.                                           *)
LEMMA KeysFinite == IsFiniteSet(Keys)
BY LifecycleAssumption, FS_Product DEF Keys

(* What is granted to a set of rows is a number.                           *)
LEMMA GrantedToIsNat ==
    ASSUME TypeOK, NEW d \in Days, NEW R \in SUBSET Keys
    PROVE  GrantedTo(d, R) \in Nat
<1> DEFINE f == [k \in Keys |-> grant[k][d]]
<1>1. \A k \in R : f[k] \in Nat
  BY DEF TypeOK
<1>2. IsFiniteSet(R)
  BY KeysFinite, FS_Subset
<1> HIDE DEF f
<1>3. SumFunctionOnSet(f, R) \in Nat
  BY <1>1, <1>2, SumIsNat
<1> QED
  BY <1>3 DEF GrantedTo, f

(* A reservation adds what it grants to the accounts that its row is of,   *)
(* for the cycle's day.                                                    *)
LEMMA GrantedToGrows ==
    ASSUME TypeOK, NEW c \in deferred, FundReserve(c),
           NEW d \in Days, NEW R \in SUBSET Keys
    PROVE  GrantedTo(d, R)' = GrantedTo(d, R) +
                 IF d = today /\ <<c.opp, version>> \in R THEN CandidateGrant(c)
                 ELSE 0
<1> DEFINE f == [j \in Keys |-> grant[j][d]]
           h == [j \in Keys |-> grant'[j][d]]
           k == <<c.opp, version>>
           g == CandidateGrant(c)
<1>1. /\ k \in Keys /\ g \in Nat
      /\ \A j \in Keys : j # k => grant'[j] = grant[j]
      /\ d # today => grant'[k][d] = grant[k][d]
      /\ grant'[k][today] = grant[k][today] + g
  BY ReserveGrants
<1>2. IsFiniteSet(R) /\ \A j \in R : j \in Keys /\ f[j] \in Nat
  BY KeysFinite, FS_Subset DEF TypeOK
<1>3. GrantedTo(d, R) = SumFunctionOnSet(f, R)
      /\ GrantedTo(d, R)' = SumFunctionOnSet(h, R)
  BY DEF GrantedTo
<1>4. CASE d = today /\ k \in R
  <2>1. \A j \in R : h[j] = IF j = k THEN f[j] + g ELSE f[j]
    BY <1>1, <1>2, <1>4
  <2> HIDE DEF f, h, k, g
  <2>2. SumFunctionOnSet(h, R) = SumFunctionOnSet(f, R) + g
    BY <1>1, <1>2, <1>4, <2>1, SumOfMore
  <2> QED
    BY <1>3, <1>4, <2>2 DEF k, g
<1>5. CASE ~(d = today /\ k \in R)
  <2>1. \A j \in R : f[j] \in Nat /\ h[j] = f[j]
    BY <1>1, <1>2, <1>5
  <2>2. SumFunctionOnSet(f, R) \in Nat
    <3> HIDE DEF f
    <3> QED BY <1>2, SumIsNat
  <2>3. SumFunctionOnSet(h, R) = SumFunctionOnSet(f, R)
    <3> HIDE DEF f, h
    <3>1. /\ SumFunctionOnSet(h, R) <= SumFunctionOnSet(f, R)
          /\ SumFunctionOnSet(f, R) <= SumFunctionOnSet(h, R)
      BY <1>2, <2>1, SumMonotone
    <3>2. SumFunctionOnSet(h, R) \in Nat
      BY <1>2, <2>1, SumIsNat
    <3> QED BY <2>2, <3>1, <3>2
  <2> QED
    BY <1>3, <1>5, <2>2, <2>3
<1> QED
  BY <1>4, <1>5

(* No row carries a grant of a day that has not come.                      *)
LEMMA FutureIsUngranted ==
    ASSUME TypeOK, GrantIsOnTheRow, DatesInv,
           NEW d \in Days, d > day, NEW R \in SUBSET Keys
    PROVE  GrantedTo(d, R) = 0
<1> DEFINE f == [k \in Keys |-> grant[k][d]]
<1>1. ASSUME NEW k \in Keys PROVE f[k] = 0 /\ f[k] \in Nat
  <2>1. grant[k][d] \in Nat /\ picks[k].created \in Nat /\ day \in Nat /\ d \in Nat
    BY LedgerAssumption DEF TypeOK, Row
  <2>2. ~(grant[k][d] > 0)
    BY <2>1 DEF GrantIsOnTheRow, DatesInv
  <2> QED
    BY <2>1, <2>2
<1>2. IsFiniteSet(R)
  BY KeysFinite, FS_Subset
<1>3. \A k \in R : f[k] = 0 /\ f[k] \in Nat
  BY <1>1
<1> HIDE DEF f
<1>4. SumFunctionOnSet(f, R) = SumFunctionOnSet(f, {})
  <2>1. {} \in SUBSET R
    OBVIOUS
  <2>2. \A k \in R \ {} : f[k] = 0
    BY <1>3
  <2> QED
    BY <1>2, <1>3, <2>1, <2>2, SumOfSupport
<1>5. SumFunctionOnSet(f, {}) = 0
  BY FS_EmptySet, SumStep
<1> QED
  BY <1>4, <1>5 DEF GrantedTo, f

(* seed_exposure_ledger finds every grant of the day: the premium rows     *)
(* created today hold, stake for stake, at least what was granted.         *)
LEMMA SeedCoversGrants ==
    ASSUME TypeOK, GrantIsOnTheRow, DatesInv, NEW R \in SUBSET Keys
    PROVE  GrantedTo(day, R) <= StakeSum(SeedRows(day) \cap R)
<1> DEFINE f == [k \in Keys |-> grant[k][day]]
           h == [k \in Keys |-> picks[k].stake]
           S == SeedRows(day) \cap R
<1>1. day \in Days /\ S \in SUBSET R /\ IsFiniteSet(R) /\ IsFiniteSet(S)
  BY KeysFinite, FS_Subset DEF TypeOK, SeedRows
<1>2. ASSUME NEW k \in R
      PROVE  /\ f[k] \in Nat /\ h[k] \in Nat
             /\ f[k] <= h[k]
             /\ k \notin S => f[k] = 0
  <2>1. /\ k \in Keys /\ grant[k][day] \in Nat /\ picks[k].created \in Nat
        /\ picks[k].stake \in Nat /\ day \in Nat
    BY <1>1, LedgerAssumption DEF TypeOK, Row
  <2>2. CASE grant[k][day] > 0
    <3>1. /\ picks[k].status # "absent" /\ picks[k].tier = "premium"
          /\ picks[k].created >= day /\ picks[k].stake >= grant[k][day]
          /\ picks[k].created <= day
      BY <1>1, <2>1, <2>2 DEF GrantIsOnTheRow, DatesInv
    <3>2. k \in S
      BY <2>1, <3>1 DEF SeedRows
    <3> QED
      BY <2>1, <3>1, <3>2
  <2>3. CASE ~(grant[k][day] > 0)
    BY <2>1, <2>3
  <2> QED
    BY <2>2, <2>3
<1> HIDE DEF S, f, h
<1>3. SumFunctionOnSet(f, R) = SumFunctionOnSet(f, S)
  <2>1. \A k \in R : f[k] \in Nat
    BY <1>2
  <2>2. \A k \in R \ S : f[k] = 0
    BY <1>2
  <2> QED
    BY <1>1, <2>1, <2>2, SumOfSupport
<1>4. \A k \in S : f[k] \in Nat /\ h[k] \in Nat /\ f[k] <= h[k]
  BY <1>1, <1>2
<1>5. SumFunctionOnSet(f, S) <= SumFunctionOnSet(h, S)
  BY <1>1, <1>4, SumMonotone
<1>6. SumFunctionOnSet(h, S) \in Nat
  BY <1>1, <1>4, SumIsNat
<1> QED
  BY <1>3, <1>5, <1>6 DEF GrantedTo, StakeSum, Coalesced, S, f, h

(* created_at is the moment of the write.                                  *)
LEMMA DatesStay == TypeOK /\ DatesInv /\ [Next]_vars => DatesInv'
<1> SUFFICES ASSUME TypeOK, DatesInv, [Next]_vars, NEW k \in Keys
             PROVE  picks'[k].created <= day'
  BY DEF DatesInv
<1>1. picks[k] \in Row /\ day \in Nat /\ day' \in {day, day + 1}
  <2>1. picks[k] \in Row /\ day \in Nat
    BY LedgerAssumption DEF TypeOK
  <2>2. ASSUME NEW o \in Opps, NEW q \in Quotes,
               Detect(o, q) \/ DetectUnpersisted(o, q)
        PROVE  day' = day
    BY <2>2 DEF Detect, DetectUnpersisted, Enqueue
  <2>3. Fund \/ Send => day' = day
    BY DEF Fund, FundNothing, FundSkip, FundReserve, Take, tableVars,
           Send, SendSuppressed, SendDelivered, SendFails, SendRaises, Sent
  <2>4. StartCycle \/ EndSweep \/ Clip \/ ClipFails \/ EndCycle \/ Crash => day' = day
    BY DEF StartCycle, EndSweep, Clip, ClipFails, EndCycle, Crash, tableVars
  <2>5. ASSUME NEW j \in Keys, Close(j) \/ ClaimLapses(j) PROVE day' = day
    BY <2>5 DEF Close, ClaimLapses, tableVars
  <2>6. ASSUME NEW v \in Versions, Start(v) \/ StartUnseeded(v) PROVE day' = day
    BY <2>6 DEF Start, StartUnseeded, Boot, tableVars
  <2>7. NextDay => day' = day + 1
    BY DEF NextDay
  <2>8. UNCHANGED vars => day' = day
    BY DEF vars, tableVars
  <2> QED
    BY <2>1, <2>2, <2>3, <2>4, <2>5, <2>6, <2>7, <2>8 DEF Next
<1>2. picks[k].created \in Nat /\ picks[k].created <= day
  BY <1>1 DEF DatesInv, Row
<1>3. picks'[k].created \in {picks[k].created, day}
  <2>1. CASE RowWritten(k)
    BY <2>1 DEF RowWritten
  <2>2. CASE RowClipped(k)
    BY <1>1, <2>2 DEF RowClipped, Row
  <2>3. CASE RowClosed(k)
    BY <1>1, <2>3 DEF RowClosed, Row
  <2> QED
    BY <2>1, <2>2, <2>3, RowSteps
<1> QED
  BY <1>1, <1>2, <1>3

(* The ways a step may move the books: a reservation, a start with or      *)
(* without its seed, the death of the process; any other step leaves them  *)
(* alone, and the days that may still be reserved for only become fewer.   *)
BooksMove ==
    \/ \E c \in deferred : FundReserve(c)
    \/ \E v \in Versions : Start(v) \/ StartUnseeded(v)
    \/ pc' = "down" /\ UNCHANGED <<grant, unseeded>>
    \/ /\ UNCHANGED <<ledgerVars, grant, unseeded>>
       /\ pc' # "down" => pc # "down" /\ Horizon <= Horizon'

\* Every step funds a deferred pick, starts a process, takes it down, or leaves
\* the ledger, the grants and the unseeded days as they are.
LEMMA BookSteps == TypeOK /\ today <= day /\ [Next]_vars => BooksMove
<1> SUFFICES ASSUME TypeOK, today <= day, [Next]_vars
             PROVE  BooksMove
  OBVIOUS
<1>1. day \in Nat /\ today \in Nat
  BY LedgerAssumption DEF TypeOK
<1>2. ASSUME NEW o \in Opps, NEW q \in Quotes,
             Detect(o, q) \/ DetectUnpersisted(o, q)
      PROVE  /\ UNCHANGED <<ledgerVars, grant, unseeded>>
             /\ pc # "down" /\ Horizon <= Horizon'
  BY <1>1, <1>2 DEF Detect, DetectUnpersisted, Enqueue, historyVars, Horizon
<1>3. ASSUME NEW c \in deferred, FundNothing(c) \/ FundSkip(c)
      PROVE  /\ UNCHANGED <<ledgerVars, grant, unseeded>>
             /\ pc # "down" /\ Horizon <= Horizon'
  BY <1>1, <1>3 DEF FundNothing, FundSkip, Take, Resume, tableVars, Horizon
<1>4. CASE Send
  <2>1. /\ pc = "send" /\ UNCHANGED <<ledgerVars, grant, unseeded, day, today>>
    BY <1>4 DEF Send, SendSuppressed, SendDelivered, SendFails, SendRaises, Sent,
                tableVars, historyVars
  <2> QED
    BY <1>1, <2>1 DEF Horizon, BooksMove
<1>5. CASE StartCycle \/ EndSweep \/ Clip \/ ClipFails \/ EndCycle
  <2>1. /\ pc # "down" /\ UNCHANGED <<ledgerVars, grant, unseeded, day>>
        /\ \/ pc = "idle" /\ today' = day
           \/ pc # "idle" /\ today' = today
    BY <1>5 DEF StartCycle, EndSweep, Clip, ClipFails, EndCycle, tableVars,
                historyVars
  <2>2. Horizon <= Horizon'
    <3>1. day' = day /\ today <= day
      BY <2>1
    <3>2. CASE pc = "idle" /\ today' = day
      BY <1>1, <3>1, <3>2 DEF Horizon
    <3>3. CASE pc # "idle" /\ today' = today
      BY <1>1, <3>1, <3>3 DEF Horizon
    <3> QED
      BY <2>1, <3>2, <3>3
  <2>3. UNCHANGED <<ledgerVars, grant, unseeded>>
    BY <2>1
  <2> QED
    BY <2>1, <2>2, <2>3 DEF BooksMove
<1>6. CASE NextDay
  <2>1. /\ UNCHANGED <<ledgerVars, grant, unseeded, today, pc>> /\ day' = day + 1
    BY <1>6 DEF NextDay, historyVars, cycleVars
  <2> QED
    BY <1>1, <2>1 DEF Horizon, BooksMove
<1>7. CASE Crash
  BY <1>7 DEF Crash, historyVars, BooksMove
<1>8. ASSUME NEW k \in Keys, Close(k) \/ ClaimLapses(k)
      PROVE  UNCHANGED <<ledgerVars, grant, unseeded, today, day, pc>>
  BY <1>8 DEF Close, ClaimLapses, historyVars, cycleVars, tableVars
<1>9. UNCHANGED vars => UNCHANGED <<ledgerVars, grant, unseeded, today, day, pc>>
  BY DEF vars, historyVars, cycleVars, tableVars
<1>10. CASE UNCHANGED <<ledgerVars, grant, unseeded, today, day, pc>>
  BY <1>1, <1>10 DEF Horizon, BooksMove
<1>11. CASE Fund
  BY <1>3, <1>11 DEF Fund, BooksMove
<1>12. CASE \E k \in Keys : Close(k) \/ ClaimLapses(k)
  BY <1>8, <1>10, <1>12
<1>13. CASE \E o \in Opps, q \in Quotes : Detect(o, q) \/ DetectUnpersisted(o, q)
  BY <1>2, <1>13 DEF BooksMove
<1>14. CASE \E v \in Versions : Start(v) \/ StartUnseeded(v)
  BY <1>14 DEF BooksMove
<1>15. CASE UNCHANGED vars
  BY <1>9, <1>10, <1>15
<1> QED
  BY <1>4, <1>5, <1>6, <1>7, <1>11, <1>12, <1>13, <1>14, <1>15 DEF Next

(* An account whose books are left alone stays within its bounds.          *)
LEMMA AccountKept ==
    ASSUME TypeOK, TypeOK',
           NEW d \in Days, NEW R \in SUBSET Keys, NEW max \in Nat, NEW u \in Nat,
           Account(d, R, max, u), UNCHANGED <<grant, unseeded>>,
           pc' # "down" => pc # "down" /\ Horizon <= Horizon'
    PROVE  Account(d, R, max, u)'
<1>1. GrantedTo(d, R)' = GrantedTo(d, R) /\ unseeded' = unseeded
  BY DEF GrantedTo
<1>2. pc' # "down" /\ d >= Horizon' => pc # "down" /\ d >= Horizon
  <2>1. pc' # "down" => Horizon \in Nat /\ Horizon' \in Nat /\ d \in Nat
    BY LedgerAssumption DEF Horizon, TypeOK
  <2> QED
    BY <2>1
<1> QED
  BY <1>1, <1>2 DEF Account


(* A reservation that keeps to the room of an account keeps the account.   *)
LEMMA AccountReserved ==
    ASSUME TypeOK, NEW c \in deferred, FundReserve(c),
           NEW d \in Days, NEW R \in SUBSET Keys, NEW max \in Nat,
           NEW u \in Nat, NEW w \in Nat, Account(d, R, max, u),
           IF d = today /\ <<c.opp, version>> \in R
           THEN w = u + CandidateGrant(c) /\ CandidateGrant(c) <= Room(max, u)
           ELSE w >= u
    PROVE  Account(d, R, max, w)'
<1> DEFINE G == GrantedTo(d, R)
           H == GrantedTo(d, R)'
           g == CandidateGrant(c)
           n == unseeded[d]
           mine == d = today /\ <<c.opp, version>> \in R
<1>1. G \in Nat /\ g \in Nat /\ n \in Nat
  BY GrantedToIsNat, CandidateGrantBounds DEF TypeOK
<1>2. H = G + IF mine THEN g ELSE 0
  BY GrantedToGrows
<1>3. /\ G <= max * (1 + n)
      /\ pc # "down" /\ d >= Horizon => G <= u + max * n
  BY DEF Account
<1>4. /\ pc # "down" /\ Horizon' = Horizon /\ unseeded' = unseeded
  BY DEF FundReserve, Take, Horizon
<1>5. today \in Nat /\ d \in Nat /\ Horizon = today
  BY LedgerAssumption DEF TypeOK, FundReserve, Take, Horizon
<1>6. max * n \in Nat /\ max * (1 + n) = max + max * n
  BY <1>1, OneCapMore
<1>7. mine => w = u + g /\ g <= Room(max, u) /\ G <= u + max * n
  BY <1>3, <1>4, <1>5
<1>8. ~mine => w >= u
  OBVIOUS
<1> HIDE DEF G, H, g, n, mine
<1>9. H <= max * (1 + n)
  <2>1. CASE mine
    <3>1. g = 0 \/ u + g <= max
      BY <1>1, <1>7, <2>1 DEF Room
    <3> QED
      BY <1>1, <1>2, <1>3, <1>6, <1>7, <2>1, <3>1
  <2>2. CASE ~mine
    BY <1>1, <1>2, <1>3, <1>6, <2>2
  <2> QED
    BY <2>1, <2>2
<1>10. d >= Horizon => H <= w + max * n
  BY <1>1, <1>2, <1>3, <1>4, <1>6, <1>7, <1>8
<1> QED
  BY <1>4, <1>9, <1>10 DEF Account, H, n

(* A start that seeds at least what the rows of R hold restores their      *)
(* account.                                                                *)
LEMMA AccountSeeded ==
    ASSUME TypeOK, GrantIsOnTheRow, DatesInv,
           NEW d \in Days, NEW R \in SUBSET Keys, NEW max \in Nat,
           NEW u, NEW w \in Nat, Account(d, R, max, u),
           pc' = "idle" /\ UNCHANGED <<day, grant, unseeded>>,
           d = day => StakeSum(SeedRows(day) \cap R) <= w
    PROVE  Account(d, R, max, w)'
<1>1. GrantedTo(d, R)' = GrantedTo(d, R) /\ unseeded' = unseeded /\ Horizon' = day
  BY DEF GrantedTo, Horizon
<1>2. /\ d \in Nat /\ day \in Nat /\ day \in Days /\ unseeded[d] \in Nat
      /\ GrantedTo(d, R) \in Nat /\ max * unseeded[d] \in Nat
      /\ StakeSum(SeedRows(day) \cap R) \in Nat
  BY LedgerAssumption, GrantedToIsNat, OneCapMore, StakeSumIsNat DEF TypeOK
<1>3. d > day => GrantedTo(d, R) = 0
  BY FutureIsUngranted
<1>4. d = day => GrantedTo(d, R) <= w
  BY <1>2, SeedCoversGrants
<1>5. d >= day => GrantedTo(d, R) <= w + max * unseeded[d]
  BY <1>2, <1>3, <1>4
<1> QED
  BY <1>1, <1>5 DEF Account

(* A start without its seed raises the bound of the day's accounts by a    *)
(* cap, which is all that its empty ledger can grant.                      *)
LEMMA AccountUnseeded ==
    ASSUME TypeOK, GrantIsOnTheRow, DatesInv,
           NEW d \in Days, NEW R \in SUBSET Keys, NEW max \in Nat,
           NEW u \in Nat, Account(d, R, max, u),
           pc' = "idle" /\ UNCHANGED <<day, grant>>,
           unseeded' = [unseeded EXCEPT ![day] = @ + 1]
    PROVE  Account(d, R, max, u)'
<1> DEFINE n == unseeded[d]
<1>1. GrantedTo(d, R)' = GrantedTo(d, R) /\ Horizon' = day
  BY DEF GrantedTo, Horizon
<1>2. /\ d \in Nat /\ day \in Nat /\ day \in Days /\ n \in Nat
      /\ GrantedTo(d, R) \in Nat
  BY LedgerAssumption, GrantedToIsNat DEF TypeOK
<1>3. unseeded'[d] = IF d = day THEN n + 1 ELSE n
  BY <1>2 DEF TypeOK
<1>4. /\ max * n \in Nat /\ max * (1 + n) = max + max * n
      /\ max * (n + 1) = max + max * n
      /\ max * (1 + (n + 1)) = max + (max + max * n)
  BY <1>2, OneCapMore
<1>5. GrantedTo(d, R) <= max * (1 + n)
  BY DEF Account
<1>6. d > day => GrantedTo(d, R) = 0
  BY FutureIsUngranted
<1> HIDE DEF n
<1>7. GrantedTo(d, R) <= max * (1 + unseeded'[d])
  BY <1>2, <1>3, <1>4, <1>5
<1>8. d >= day => GrantedTo(d, R) <= u + max * unseeded'[d]
  BY <1>2, <1>3, <1>4, <1>5, <1>6
<1> QED
  BY <1>1, <1>7, <1>8 DEF Account


(* The daily account of every day is kept by every step.                   *)
LEMMA DayAccountStays ==
    ASSUME TypeOK, TypeOK', FundingInv, BooksInv, [Next]_vars, NEW d \in Days
    PROVE  DayAccount(d)'
<1>1. PICK u \in Nat : u = used[d]
  BY DEF TypeOK, LedgerTypeOK
<1>2. PICK w \in Nat : w = used'[d]
  BY DEF TypeOK, LedgerTypeOK
<1>3. Account(d, Keys, MaxDaily, u)
  BY <1>1 DEF BooksInv, DayAccount
<1>4. SUFFICES Account(d, Keys, MaxDaily, w)'
  BY <1>2 DEF DayAccount, Account
<1>5. /\ MaxDaily \in Nat /\ Keys \in SUBSET Keys
      /\ DatesInv /\ GrantIsOnTheRow /\ today <= day
  BY LedgerAssumption DEF BooksInv, FundingInv
<1>6. ASSUME NEW c \in deferred, FundReserve(c)
      PROVE  Account(d, Keys, MaxDaily, w)'
  <2> DEFINE g == CandidateGrant(c)
  <2>1. /\ <<c.opp, version>> \in Keys
        /\ g \in Nat /\ g <= Room(MaxDaily, used[today])
        /\ used' = [used EXCEPT ![today] = @ + g]
    <3>1. /\ c \in Candidate /\ c.quote.stake \in Nat /\ c.opp \in Opps
          /\ EventOf[c.opp] \in Events /\ today \in Days /\ LedgerTypeOK
          /\ version \in Versions
      BY CandidateGrantBounds DEF TypeOK, Candidate
    <3> QED
      BY <1>6, <3>1, GrantedBounds DEF FundReserve, Reserve, CandidateGrant, Keys
  <2>2. w = IF d = today THEN u + g ELSE u
    BY <1>1, <1>2, <2>1 DEF TypeOK, LedgerTypeOK
  <2>3. IF d = today /\ <<c.opp, version>> \in Keys
        THEN w = u + g /\ g <= Room(MaxDaily, u) ELSE w >= u
    BY <1>1, <2>1, <2>2
  <2> QED
    BY <1>3, <1>5, <1>6, <2>3, AccountReserved
<1>7. ASSUME NEW v \in Versions, Start(v) PROVE Account(d, Keys, MaxDaily, w)'
  <2>1. /\ pc' = "idle" /\ UNCHANGED <<day, grant, unseeded>>
        /\ used' = [used EXCEPT ![day] = StakeSum(SeedRows(day))]
    BY <1>7 DEF Start, Boot, tableVars, Preload
  <2>2. SeedRows(day) \cap Keys = SeedRows(day)
    BY DEF SeedRows
  <2>3. ASSUME d = day PROVE StakeSum(SeedRows(day) \cap Keys) <= w
    <3>1. w = StakeSum(SeedRows(day))
      BY <1>2, <2>1, <2>3 DEF TypeOK, LedgerTypeOK
    <3>2. w = StakeSum(SeedRows(day) \cap Keys)
      BY <2>2, <3>1
    <3> QED
      BY <3>2
  <2> QED
    BY <1>3, <1>5, <2>1, <2>3, AccountSeeded
<1>8. ASSUME NEW v \in Versions, StartUnseeded(v)
      PROVE  Account(d, Keys, MaxDaily, w)'
  <2>1. /\ pc' = "idle" /\ UNCHANGED <<day, grant>>
        /\ unseeded' = [unseeded EXCEPT ![day] = @ + 1]
        /\ used' = used
    BY <1>8 DEF StartUnseeded, Boot, tableVars, ledgerVars
  <2>2. w = u
    BY <1>1, <1>2, <2>1
  <2> QED
    BY <1>3, <1>5, <2>1, <2>2, AccountUnseeded
<1>9. CASE pc' = "down" /\ UNCHANGED <<grant, unseeded>>
  BY <1>3, <1>9 DEF Account, GrantedTo
<1>10. CASE /\ UNCHANGED <<ledgerVars, grant, unseeded>>
            /\ pc' # "down" => pc # "down" /\ Horizon <= Horizon'
  <2>1. w = u
    BY <1>1, <1>2, <1>10 DEF ledgerVars
  <2> QED
    BY <1>3, <1>5, <1>10, <2>1, AccountKept
<1> QED
  BY <1>5, <1>6, <1>7, <1>8, <1>9, <1>10, BookSteps DEF BooksMove

(* So is the account of every event on every day.                          *)
LEMMA EventAccountStays ==
    ASSUME TypeOK, TypeOK', FundingInv, BooksInv, [Next]_vars, EventCapOn,
           NEW d \in Days, NEW e \in Events
    PROVE  EventAccount(d, e)'
<1> DEFINE R == KeysOf(e)
<1>1. PICK u \in Nat : u = usedByEvent[d][e]
  BY DEF TypeOK, LedgerTypeOK
<1>2. PICK w \in Nat : w = usedByEvent'[d][e]
  BY DEF TypeOK, LedgerTypeOK
<1>3. Account(d, R, MaxEvent, u)
  BY <1>1 DEF BooksInv, EventAccount
<1>4. SUFFICES Account(d, R, MaxEvent, w)'
  BY <1>2 DEF EventAccount, Account, GrantedTo
<1>5. /\ MaxEvent \in Nat /\ R \in SUBSET Keys
      /\ DatesInv /\ GrantIsOnTheRow /\ today <= day
  BY LedgerAssumption DEF BooksInv, FundingInv, KeysOf
<1>6. ASSUME NEW c \in deferred, FundReserve(c)
      PROVE  Account(d, R, MaxEvent, w)'
  <2> DEFINE g == CandidateGrant(c)
             m == EventOf[c.opp]
  <2>1. /\ c \in Candidate /\ c.quote.stake \in Nat /\ c.opp \in Opps
        /\ m \in Events /\ today \in Days /\ LedgerTypeOK
        /\ version \in Versions /\ m # NoEvent
    BY CandidateGrantBounds, LedgerAssumption DEF TypeOK, Candidate
  <2>2. <<c.opp, version>> \in R <=> m = e
    BY <2>1 DEF KeysOf, Keys
  <2>3. /\ g \in Nat /\ g <= Room(MaxEvent, usedByEvent[today][m])
        /\ usedByEvent' = [usedByEvent EXCEPT ![today][m] = @ + g]
    BY <1>6, <2>1, GrantedBounds DEF FundReserve, Reserve, CandidateGrant
  <2> HIDE DEF g, m
  <2>4. w = IF d = today /\ m = e THEN u + g ELSE u
    BY <1>1, <1>2, <2>1, <2>3 DEF LedgerTypeOK
  <2>5. IF d = today /\ <<c.opp, version>> \in R
        THEN w = u + g /\ g <= Room(MaxEvent, u) ELSE w >= u
    BY <1>1, <2>2, <2>3, <2>4
  <2> QED
    BY <1>3, <1>5, <1>6, <2>5, AccountReserved DEF g
<1>7. ASSUME NEW v \in Versions, Start(v) PROVE Account(d, R, MaxEvent, w)'
  <2> DEFINE S == {k \in SeedRows(day) : EventOf[k[1]] = e}
  <2>1. /\ pc' = "idle" /\ UNCHANGED <<day, grant, unseeded>>
        /\ Preload(day, StakeSum(SeedRows(day)), EventSeeds(day))
    BY <1>7 DEF Start, Boot, tableVars
  <2>2. SeedRows(day) \cap R = S
    BY DEF SeedRows, KeysOf
  <2>3. ASSUME d = day PROVE StakeSum(S) <= w
    <3>1. day \in Days /\ StakeSum(S) \in Nat
      BY StakeSumIsNat DEF TypeOK
    <3>2. CASE e \in {EventOf[k[1]] : k \in SeedRows(day)}
      <4>1. e \in DOMAIN EventSeeds(day) /\ EventSeeds(day)[e] = StakeSum(S)
        BY <3>2 DEF EventSeeds
      <4>2. w = StakeSum(S)
        BY <1>2, <2>1, <2>3, <3>1, <4>1 DEF Preload, TypeOK, LedgerTypeOK
      <4> QED
        BY <3>1, <4>2
    <3>3. CASE e \notin {EventOf[k[1]] : k \in SeedRows(day)}
      <4>1. S = {}
        BY <3>3
      <4>2. StakeSum({}) = 0
        BY FS_EmptySet, SumStep DEF StakeSum, Coalesced
      <4> HIDE DEF S
      <4>3. StakeSum(S) = 0
        BY <4>1, <4>2
      <4> QED
        BY <4>3
    <3> QED
      BY <3>2, <3>3
  <2> HIDE DEF S
  <2>4. d = day => StakeSum(SeedRows(day) \cap R) <= w
    BY <2>2, <2>3
  <2> QED
    BY <1>3, <1>5, <2>1, <2>4, AccountSeeded
<1>8. ASSUME NEW v \in Versions, StartUnseeded(v)
      PROVE  Account(d, R, MaxEvent, w)'
  <2>1. /\ pc' = "idle" /\ UNCHANGED <<day, grant>>
        /\ unseeded' = [unseeded EXCEPT ![day] = @ + 1]
        /\ usedByEvent' = usedByEvent
    BY <1>8 DEF StartUnseeded, Boot, tableVars, ledgerVars
  <2>2. w = u
    BY <1>1, <1>2, <2>1
  <2> QED
    BY <1>3, <1>5, <2>1, <2>2, AccountUnseeded
<1>9. CASE pc' = "down" /\ UNCHANGED <<grant, unseeded>>
  BY <1>3, <1>9 DEF Account, GrantedTo
<1>10. CASE /\ UNCHANGED <<ledgerVars, grant, unseeded>>
            /\ pc' # "down" => pc # "down" /\ Horizon <= Horizon'
  <2>1. w = u
    BY <1>1, <1>2, <1>10 DEF ledgerVars
  <2> QED
    BY <1>3, <1>5, <1>10, <2>1, AccountKept
<1> QED
  BY <1>5, <1>6, <1>7, <1>8, <1>9, <1>10, BookSteps DEF BooksMove

(* The accounts are inductive, given what is on the rows.                  *)
THEOREM BooksInvariant == Spec => [](TypeOK /\ FundingInv /\ BooksInv)
<1>1. Init => BooksInv
  <2> SUFFICES ASSUME Init, TypeOK PROVE BooksInv
    BY InitTyped
  <2>1. DatesInv
    BY LedgerAssumption DEF Init, NoRow, DatesInv
  <2>2. \A d \in Days, R \in SUBSET Keys : GrantedTo(d, R) = 0
    <3>1. ASSUME NEW d \in Days, NEW R \in SUBSET Keys
          PROVE  GrantedTo(d, R) = 0
      <4> DEFINE f == [k \in Keys |-> grant[k][d]]
      <4>1. IsFiniteSet(R) /\ {} \in SUBSET R /\ \A k \in R : f[k] = 0
        BY KeysFinite, FS_Subset DEF Init
      <4> HIDE DEF f
      <4>2. SumFunctionOnSet(f, R) = SumFunctionOnSet(f, {})
        BY <4>1, SumOfSupport
      <4>3. SumFunctionOnSet(f, {}) = 0
        BY FS_EmptySet, SumStep
      <4> QED
        BY <4>2, <4>3 DEF GrantedTo, f
    <3> QED
      BY <3>1
  <2>3. ASSUME NEW d \in Days, NEW R \in SUBSET Keys, NEW max \in Nat, NEW u \in Nat
        PROVE  Account(d, R, max, u)
    <3>1. GrantedTo(d, R) = 0 /\ unseeded[d] = 0
      BY <2>2 DEF Init
    <3> QED
      BY <3>1 DEF Account
  <2>4. \A d \in Days, e \in Events : used[d] \in Nat /\ usedByEvent[d][e] \in Nat
    BY DEF TypeOK, LedgerTypeOK
  <2>5. MaxDaily \in Nat /\ MaxEvent \in Nat /\ \A e \in Events : KeysOf(e) \in SUBSET Keys
    BY LedgerAssumption DEF KeysOf
  <2>6. \A d \in Days : DayAccount(d)
    <3>1. Keys \in SUBSET Keys
      OBVIOUS
    <3>2. ASSUME NEW d \in Days PROVE Account(d, Keys, MaxDaily, used[d])
      <4>1. used[d] \in Nat
        BY DEF TypeOK, LedgerTypeOK
      <4> QED
        BY <2>3, <2>5, <3>1, <4>1
    <3> QED
      BY <3>2 DEF DayAccount
  <2>7. \A d \in Days, e \in Events : EventAccount(d, e)
    BY <2>3, <2>4, <2>5 DEF EventAccount
  <2> QED
    BY <2>1, <2>6, <2>7 DEF BooksInv
<1>2. TypeOK /\ FundingInv /\ BooksInv /\ [Next]_vars => BooksInv'
  BY NextTyped, DatesStay, DayAccountStays, EventAccountStays DEF BooksInv
<1> QED
  BY <1>1, <1>2, FundingInvariant, PTL DEF Spec

(* Whatever processes and versions come and go, the ledger never grants    *)
(* one day, or one event of a day, more than its cap, and one cap more for *)
(* each start without a seed (seed_exposure_ledger).                       *)
THEOREM CapsOutliveProcesses == Spec => []CapsSurviveRestarts
<1>1. TypeOK /\ BooksInv => CapsSurviveRestarts
  <2> SUFFICES ASSUME TypeOK, BooksInv PROVE CapsSurviveRestarts
    OBVIOUS
  <2>1. \A d \in Days : GrantedOn(d) = GrantedTo(d, Keys)
    BY DEF GrantedOn, GrantedTo, SumFunction
  <2>2. \A d \in Days, e \in Events : GrantedToEvent(d, e) = GrantedTo(d, KeysOf(e))
    BY DEF GrantedToEvent, GrantedTo, KeysOf
  <2>3. DailyCapSurvivesRestarts
    BY <2>1 DEF BooksInv, DayAccount, Account, DailyCapSurvivesRestarts
  <2>4. EventCapSurvivesRestarts
    BY <2>2 DEF BooksInv, EventAccount, Account, EventCapSurvivesRestarts
  <2> QED
    BY <2>3, <2>4 DEF CapsSurviveRestarts
<1> QED
  BY <1>1, BooksInvariant, PTL


(* Seen as commitments per day, every behaviour of the process and its     *)
(* restarts is one of the abstract budget: a reservation commits, a start  *)
(* without its seed loses the books, every other step stutters.            *)
THEOREM LifecycleImplementsBudget == Spec => ImplementsBudget
<1> DEFINE C == [d \in Days |-> GrantedOn(d)]
           L == [d \in Days |-> MaxDaily * (1 + unseeded[d])]
           Good == TypeOK /\ FundingInv /\ CapsSurviveRestarts
<1>1. Init => Budget!Init
  <2> SUFFICES ASSUME Init, TypeOK PROVE Budget!Init
    BY InitTyped
  <2>1. ASSUME NEW d \in Days PROVE GrantedOn(d) = 0
    <3> DEFINE f == [k \in Keys |-> grant[k][d]]
    <3>1. {} \in SUBSET Keys /\ \A k \in Keys : f[k] = 0
      BY DEF Init
    <3>2. GrantedOn(d) = SumFunctionOnSet(f, Keys)
      BY DEF GrantedOn, SumFunction
    <3> HIDE DEF f
    <3>3. SumFunctionOnSet(f, Keys) = SumFunctionOnSet(f, {})
      BY <3>1, KeysFinite, SumOfSupport
    <3>4. SumFunctionOnSet(f, {}) = 0
      BY FS_EmptySet, SumStep
    <3> QED
      BY <3>2, <3>3, <3>4
  <2>2. \A d \in Days : MaxDaily * (1 + unseeded[d]) = MaxDaily
    BY LedgerAssumption DEF Init
  <2> QED
    BY <2>1, <2>2 DEF Budget!Init
<1>2. Good /\ Good' /\ [Next]_vars => [Budget!Next]_(Budget!budgetVars)
  <2> SUFFICES ASSUME Good, Good', [Next]_vars
               PROVE  Budget!Next \/ UNCHANGED <<C, L>>
    BY DEF Budget!budgetVars
  <2>1. \A d \in Days : /\ GrantedOn(d) = GrantedTo(d, Keys)
                        /\ GrantedOn(d)' = GrantedTo(d, Keys)'
    BY DEF GrantedOn, GrantedTo, SumFunction
  <2>2. ASSUME NEW c \in deferred, FundReserve(c)
        PROVE  Budget!Next \/ UNCHANGED <<C, L>>
    <3> DEFINE g == CandidateGrant(c)
    <3>1. /\ <<c.opp, version>> \in Keys /\ today \in Days
          /\ g \in Nat /\ unseeded' = unseeded
      BY <2>2, ReserveGrants DEF FundReserve, Take
    <3>2. UNCHANGED L
      BY <3>1
    <3>3. ASSUME NEW d \in Days
          PROVE  /\ GrantedOn(d) \in Nat
                 /\ GrantedOn(d)' = GrantedOn(d) + IF d = today THEN g ELSE 0
      <4>1. Keys \in SUBSET Keys
        OBVIOUS
      <4>2. GrantedTo(d, Keys) \in Nat
        BY <4>1, GrantedToIsNat
      <4>3. GrantedTo(d, Keys)' =
              GrantedTo(d, Keys) + IF d = today /\ <<c.opp, version>> \in Keys
                                   THEN CandidateGrant(c) ELSE 0
        BY <2>2, <4>1, GrantedToGrows
      <4> QED
        BY <2>1, <3>1, <4>2, <4>3
    <3> HIDE DEF g
    <3>4. C' = [C EXCEPT ![today] = C'[today]]
      <4> DEFINE D == C'
      <4>1. /\ D = [d \in Days |-> D[d]] /\ C = [d \in Days |-> C[d]]
            /\ \A d \in Days : d # today => D[d] = C[d]
        BY <3>3
      <4> HIDE DEF C, D
      <4>2. D = [C EXCEPT ![today] = D[today]]
        BY <3>1, <4>1
      <4> QED
        BY <4>2 DEF D
    <3>5. CASE g = 0
      <4>1. \A d \in Days : GrantedOn(d)' = GrantedOn(d)
        BY <3>3, <3>5
      <4> QED
        BY <3>2, <4>1
    <3>6. CASE g > 0
      <4>1. C'[today] > C[today]
        BY <3>1, <3>3, <3>6
      <4>2. C'[today] <= L[today]
        BY <3>1 DEF CapsSurviveRestarts, DailyCapSurvivesRestarts
      <4>3. Budget!Commit(today)
        BY <3>2, <3>4, <4>1, <4>2 DEF Budget!Commit
      <4> QED
        BY <3>1, <4>3 DEF Budget!Next
    <3> QED
      BY <3>1, <3>5, <3>6
  <2>3. ASSUME NEW v \in Versions, StartUnseeded(v),
               NEW now \in Days, now = day
        PROVE  Budget!LoseBooks(now)
    <3>1. /\ grant' = grant /\ unseeded' = [unseeded EXCEPT ![day] = @ + 1]
          /\ day \in Days
      BY <2>3 DEF StartUnseeded, Boot, TypeOK
    <3>2. UNCHANGED C
      BY <3>1 DEF GrantedOn
    <3>3. \A d \in Days : unseeded[d] \in Nat /\ MaxDaily \in Nat
      BY LedgerAssumption DEF TypeOK
    <3>4. \A d \in Days : MaxDaily * (1 + unseeded'[d]) =
            IF d = day THEN MaxDaily * (1 + unseeded[d]) + MaxDaily
            ELSE MaxDaily * (1 + unseeded[d])
      <4>1. ASSUME NEW d \in Days
            PROVE  MaxDaily * (1 + (unseeded[d] + 1)) =
                      MaxDaily * (1 + unseeded[d]) + MaxDaily
        <5>1. /\ MaxDaily * unseeded[d] \in Nat
              /\ MaxDaily * (1 + unseeded[d]) = MaxDaily + MaxDaily * unseeded[d]
              /\ MaxDaily * (1 + (unseeded[d] + 1)) =
                    MaxDaily + (MaxDaily + MaxDaily * unseeded[d])
          BY <3>3, OneCapMore
        <5> QED
          BY <3>3, <5>1
      <4>2. \A d \in Days : unseeded'[d] = IF d = day THEN unseeded[d] + 1 ELSE unseeded[d]
        BY <3>1 DEF TypeOK
      <4> QED
        BY <4>1, <4>2
    <3>5. L' = [L EXCEPT ![now] = @ + MaxDaily]
      BY <2>3, <3>1, <3>4
    <3> QED
      BY <3>2, <3>5 DEF Budget!LoseBooks
  <2>4. CASE UNCHANGED <<grant, unseeded>>
    BY <2>4 DEF GrantedOn
  <2>5. ASSUME NEW v \in Versions, Start(v) PROVE UNCHANGED <<grant, unseeded>>
    BY <2>5 DEF Start, Boot
  <2>6. ASSUME NEW v \in Versions, StartUnseeded(v)
        PROVE  Budget!Next \/ UNCHANGED <<C, L>>
    <3>1. day \in Days
      BY DEF TypeOK
    <3>2. PICK d \in Days : d = day
      BY <3>1
    <3>3. Budget!LoseBooks(d)
      BY <2>3, <2>6, <3>2
    <3> QED
      BY <3>3 DEF Budget!Next
  <2>7. BooksMove
    BY BookSteps DEF FundingInv
  <2> HIDE DEF C, L
  <2> QED
    BY <2>2, <2>4, <2>5, <2>6, <2>7 DEF BooksMove
<1>3. Spec => []Good
  BY FundingInvariant, CapsOutliveProcesses, PTL
<1> QED
  BY <1>1, <1>2, <1>3, PTL DEF Spec, ImplementsBudget, Budget!Spec

=============================================================================
