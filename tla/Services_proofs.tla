---------------------------- MODULE Services_proofs ----------------------------
(***************************************************************************)
(* What is proved of the services around the picks, for every value of     *)
(* the constants: a section for each component with its inductive          *)
(* invariant, and at the end the properties of the composition.            *)
(***************************************************************************)
EXTENDS MCServices, FiniteSetTheorems, WellFoundedInduction, TLAPS

-----------------------------------------------------------------------------
(* The ledger *)

(***************************************************************************)
(* The caps of the exposure ledger hold for every choice of days, events,  *)
(* caps and requested stakes.  The caps alone are not inductive: a grant   *)
(* respects the held total only because the ledger's own figures agree     *)
(* with it on the current day, and midnight hands over to a day on which   *)
(* nothing is booked yet.  IInv adds those two facts.                      *)
(***************************************************************************)

(* No figure of a day that has not come yet is above zero.                 *)
FutureIsEmpty ==
    \A d \in Days : today < d =>
        /\ used[d] = 0
        /\ heldByDay[d] = 0
        /\ \A e \in Events : usedByEvent[d][e] = 0 /\ heldByEvent[d][e] = 0

IInv ==
    /\ TypeOK
    /\ FutureIsEmpty
    /\ LedgerIsFaithful
    /\ WithinDailyCap
    /\ WithinEventCap

-----------------------------------------------------------------------------

(* Everything starts empty.                                                *)
LEMMA InitIInv == Init => IInv
BY LedgerAssumption
   DEF Init, LedgerInit, IInv, TypeOK, LedgerTypeOK, FutureIsEmpty,
       LedgerIsFaithful, WithinDailyCap, WithinEventCap

(* A reservation keeps the books and both caps.                            *)
LEMMA AskKeepsIInv ==
    ASSUME IInv, NEW f \in Fractions, NEW e \in Events \cup {NoEvent}, Ask(f, e)
    PROVE  IInv'
<1> DEFINE g == Granted(today, f, e)
<1>1. /\ today \in Days
      /\ LedgerTypeOK
      /\ f \in Nat
  BY LedgerAssumption DEF IInv, TypeOK
<1>2. /\ g \in Nat
      /\ g <= Room(MaxDaily, used[today])
      /\ EventCapOn /\ e # NoEvent => g <= Room(MaxEvent, usedByEvent[today][e])
  BY <1>1, GrantedBounds
<1>3. /\ today' = today
      /\ used' = [used EXCEPT ![today] = @ + g]
      /\ heldByDay' = [heldByDay EXCEPT ![today] = @ + g]
      /\ e = NoEvent => /\ usedByEvent' = usedByEvent
                        /\ heldByEvent' = heldByEvent
      /\ e # NoEvent =>
           /\ usedByEvent' = [usedByEvent EXCEPT ![today][e] = @ + g]
           /\ heldByEvent' = [heldByEvent EXCEPT ![today][e] = @ + g]
  BY DEF Ask, Reserve
<1> HIDE DEF g
<1>4. TypeOK'
  <2>1. used' \in [Days -> Nat] /\ heldByDay' \in [Days -> Nat] /\ today' \in Days
    BY <1>1, <1>2, <1>3 DEF IInv, TypeOK, LedgerTypeOK
  <2>2. CASE e = NoEvent
    BY <1>3, <2>1, <2>2 DEF IInv, TypeOK, LedgerTypeOK
  <2>3. CASE e \in Events
    <3>1. e # NoEvent
      BY <2>3, LedgerAssumption
    <3>2. ASSUME NEW h \in [Days -> [Events -> Nat]]
          PROVE  [h EXCEPT ![today][e] = @ + g] \in [Days -> [Events -> Nat]]
      <4>1. [h[today] EXCEPT ![e] = @ + g] \in [Events -> Nat]
        BY <1>1, <1>2, <2>3
      <4> QED
        BY <1>1, <4>1
    <3>3. /\ usedByEvent' \in [Days -> [Events -> Nat]]
          /\ heldByEvent' \in [Days -> [Events -> Nat]]
      BY <1>3, <3>1, <3>2 DEF IInv, TypeOK, LedgerTypeOK
    <3> QED
      BY <2>1, <3>3 DEF TypeOK, LedgerTypeOK
  <2> QED
    BY <2>2, <2>3
<1>5. FutureIsEmpty'
  BY <1>1, <1>3, LedgerAssumption DEF IInv, TypeOK, LedgerTypeOK, FutureIsEmpty
<1>6. LedgerIsFaithful'
  BY <1>1, <1>2, <1>3 DEF IInv, TypeOK, LedgerTypeOK, LedgerIsFaithful
<1>7. WithinDailyCap'
  BY <1>1, <1>2, <1>3, LedgerAssumption
     DEF IInv, TypeOK, LedgerTypeOK, LedgerIsFaithful, WithinDailyCap, Room
<1>8. WithinEventCap'
  BY <1>1, <1>2, <1>3, LedgerAssumption
     DEF IInv, TypeOK, LedgerTypeOK, LedgerIsFaithful, WithinEventCap, Room
<1> QED
  BY <1>4, <1>5, <1>6, <1>7, <1>8 DEF IInv

(* Handing a grant back keeps the books and both caps.                     *)
LEMMA HandBackKeepsIInv ==
    ASSUME IInv, NEW f \in Fractions, NEW e \in Events, HandBack(f, e)
    PROVE  IInv'
<1>1. /\ today \in Days
      /\ f \in Nat
      /\ e # NoEvent
      /\ f <= heldByEvent[today][e]
      /\ f <= heldByDay[today]
      /\ today' = today
      /\ used' = [used EXCEPT ![today] = Room(@, f)]
      /\ usedByEvent' = [usedByEvent EXCEPT ![today][e] = Room(@, f)]
      /\ heldByDay' = [heldByDay EXCEPT ![today] = @ - f]
      /\ heldByEvent' = [heldByEvent EXCEPT ![today][e] = @ - f]
  BY LedgerAssumption DEF IInv, TypeOK, HandBack, Release
<1>2. \A n \in Nat : Room(n, f) \in Nat /\ (f <= n => Room(n, f) = n - f)
  BY <1>1 DEF Room
<1>3. TypeOK'
  BY <1>1, <1>2 DEF IInv, TypeOK, LedgerTypeOK
<1>4. FutureIsEmpty'
  BY <1>1, LedgerAssumption DEF IInv, TypeOK, LedgerTypeOK, FutureIsEmpty
<1>5. LedgerIsFaithful'
  BY <1>1, <1>2 DEF IInv, TypeOK, LedgerTypeOK, LedgerIsFaithful
<1>6. WithinDailyCap'
  BY <1>1, LedgerAssumption DEF IInv, TypeOK, LedgerTypeOK, WithinDailyCap
<1>7. WithinEventCap'
  BY <1>1, LedgerAssumption DEF IInv, TypeOK, LedgerTypeOK, WithinEventCap
<1> QED
  BY <1>3, <1>4, <1>5, <1>6, <1>7 DEF IInv

(* Reloading the current day from the store keeps the books.               *)
LEMMA RestartKeepsIInv == IInv /\ Restart => IInv'
<1> SUFFICES ASSUME IInv, Restart PROVE IInv'
  OBVIOUS
<1>1. TypeOK'
  BY DEF IInv, TypeOK, LedgerTypeOK, Restart
<1>2. FutureIsEmpty'
  BY LedgerAssumption DEF IInv, TypeOK, FutureIsEmpty, Restart
<1>3. LedgerIsFaithful'
  BY DEF IInv, TypeOK, LedgerIsFaithful, Restart
<1>4. WithinDailyCap' /\ WithinEventCap'
  BY DEF IInv, WithinDailyCap, WithinEventCap, Restart
<1> QED
  BY <1>1, <1>2, <1>3, <1>4 DEF IInv

(* Midnight opens a day on which nothing is booked.                        *)
LEMMA NextDayKeepsIInv == IInv /\ NextDay => IInv'
<1> SUFFICES ASSUME IInv, NextDay PROVE IInv'
  OBVIOUS
<1>1. TypeOK' /\ WithinDailyCap' /\ WithinEventCap'
  BY DEF IInv, TypeOK, LedgerTypeOK, WithinDailyCap, WithinEventCap, NextDay
<1>2. FutureIsEmpty'
  BY LedgerAssumption DEF IInv, TypeOK, FutureIsEmpty, NextDay
<1>3. today \in Nat /\ today' = today + 1 /\ today' \in Days
  BY LedgerAssumption DEF IInv, TypeOK, NextDay
<1>4. /\ used[today'] = 0 /\ heldByDay[today'] = 0
      /\ \A e \in Events : /\ usedByEvent[today'][e] = 0
                           /\ heldByEvent[today'][e] = 0
  BY <1>3 DEF IInv, FutureIsEmpty
<1>5. used'[today'] = heldByDay'[today']
  BY <1>4 DEF NextDay
<1>6. usedByEvent[today'] = heldByEvent[today']
  <2>1. /\ usedByEvent[today'] \in [Events -> Nat]
        /\ heldByEvent[today'] \in [Events -> Nat]
    BY <1>3 DEF IInv, TypeOK, LedgerTypeOK
  <2> QED
    BY <1>4, <2>1
<1>7. LedgerIsFaithful'
  BY <1>5, <1>6 DEF LedgerIsFaithful, NextDay
<1> QED
  BY <1>1, <1>2, <1>7 DEF IInv

(* Every step, and every stutter, keeps the inductive invariant.           *)
LEMMA NextIInv == IInv /\ [Next]_vars => IInv'
<1> SUFFICES ASSUME IInv, [Next]_vars PROVE IInv'
  OBVIOUS
<1>1. CASE \E f \in Fractions, e \in Events \cup {NoEvent} : Ask(f, e)
  BY <1>1, AskKeepsIInv
<1>2. CASE \E f \in Fractions, e \in Events : HandBack(f, e)
  BY <1>2, HandBackKeepsIInv
<1>3. CASE Restart
  BY <1>3, RestartKeepsIInv
<1>4. CASE NextDay
  BY <1>4, NextDayKeepsIInv
<1>5. CASE UNCHANGED vars
  BY <1>5 DEF vars, IInv, TypeOK, LedgerTypeOK, FutureIsEmpty,
              LedgerIsFaithful, WithinDailyCap, WithinEventCap
<1> QED
  BY <1>1, <1>2, <1>3, <1>4, <1>5 DEF Next

(* For every set of days and events, every pair of caps and every request: *)
(* the books agree and neither cap is ever exceeded.                       *)
THEOREM LedgerInvariant == Spec => []IInv
BY InitIInv, NextIInv, PTL DEF Spec

(* The daily cap of DailyExposureLedger survives grants, hand-backs,       *)
(* restarts and midnights.                                                 *)
THEOREM DailyCapHolds == Spec => []WithinDailyCap
<1>1. IInv => WithinDailyCap
  BY DEF IInv
<1> QED
  BY <1>1, LedgerInvariant, PTL

(* The per-event correlation cap survives them too.                        *)
THEOREM EventCapHolds == Spec => []WithinEventCap
<1>1. IInv => WithinEventCap
  BY DEF IInv
<1> QED
  BY <1>1, LedgerInvariant, PTL

(* The ledger's and the store's figures are natural numbers.               *)
THEOREM LedgerTyped == Spec => []TypeOK
<1>1. IInv => TypeOK
  BY DEF IInv
<1> QED
  BY <1>1, LedgerInvariant, PTL

(* Both caps hold and the books agree, whatever was restarted in between.  *)
THEOREM LedgerKeepsItsWord == Spec => []CapsHold
<1>1. IInv => CapsHold
  BY DEF IInv, CapsHold
<1> QED
  BY <1>1, LedgerInvariant, PTL

-----------------------------------------------------------------------------
(* Set-up: for any number of operators at the form.                        *)

\* A request that is past its insert is the row's, which is why the installation in
\* memory that follows some steps later may do without another look at the row.
AccessInv ==
  /\ setup \in [Operators -> {"no", "hashing", "created", "refused"}]
  /\ \A o \in Operators : setup[o] = "created" => o \in row
  /\ OneAdministrator

\* The steps of the form: the row is written once and never changed.
LEMMA SetupKeepsInv ==
  ASSUME AccessInv, NEW o \in Operators, SetupBegin(o) \/ SetupInsert(o) \/ SetupInstall(o)
  PROVE  AccessInv'
<1>1. CASE SetupBegin(o)
  BY <1>1 DEF AccessInv, OneAdministrator, SetupBegin
<1>2. CASE SetupInsert(o)
  <2>1. row \subseteq row' /\ (Created(o) => o \in row')
    BY <1>2 DEF SetupInsert, Created
  <2>2. setup' = [setup EXCEPT ![o] = IF Created(o) THEN "created" ELSE "refused"]
    BY <1>2 DEF SetupInsert
  <2>3. \A p \in Operators : setup'[p] = "created" => p \in row'
    BY <2>1, <2>2 DEF AccessInv
  <2>4. OneAdministrator'
    BY <1>2, <2>1 DEF AccessInv, OneAdministrator, SetupInsert
  <2> QED
    BY <2>2, <2>3, <2>4 DEF AccessInv
<1>3. CASE SetupInstall(o)
  <2>1. o \in row /\ row' = row /\ active' = {o} /\ UNCHANGED <<admitted, envTrio>>
    BY <1>3 DEF AccessInv, SetupInstall
  <2>2. OneAdministrator'
    BY <2>1 DEF AccessInv, OneAdministrator
  <2> QED
    BY <1>3, <2>1, <2>2 DEF AccessInv, SetupInstall
<1> QED
  BY <1>1, <1>2, <1>3

\* Whoever is let pass holds a session of the credential in force.
LEMMA EnterKeepsInv == ASSUME AccessInv, NEW s \in sessions, Enter(s) PROVE AccessInv'
<1>1. s.secret \in active \/ (envTrio /\ s.secret = FromEnv)
  BY DEF Enter, Verified, InForce
<1>2. admitted' = admitted \cup {s.secret} /\ UNCHANGED <<row, active, setup, envTrio>>
  BY DEF Enter
<1> QED
  BY <1>1, <1>2 DEF AccessInv, OneAdministrator

\* A setup, a restart and a sign-in keep it.
LEMMA AccessKeepsInv == AccessInv /\ [AccessNext]_accessVars => AccessInv'
<1> SUFFICES ASSUME AccessInv, [AccessNext]_accessVars PROVE AccessInv'
  OBVIOUS
<1>1. ASSUME NEW secret, SignIn(secret) PROVE AccessInv'
  BY <1>1 DEF AccessInv, OneAdministrator, SignIn
<1>2. ASSUME NEW readable \in BOOLEAN, RestartApp(readable) PROVE AccessInv'
  BY <1>2 DEF AccessInv, OneAdministrator, RestartApp
<1>3. CASE EditEnv
  BY <1>3 DEF AccessInv, OneAdministrator, EditEnv
<1>4. CASE AccessTick \/ UNCHANGED accessVars
  BY <1>4 DEF AccessInv, OneAdministrator, AccessTick, accessVars
<1> QED
  BY <1>1, <1>2, <1>3, <1>4, SetupKeepsInv, EnterKeepsInv DEF AccessNext

\* The credential in memory is always the row's, and nobody else's session was let pass, whatever
\* races at the form and whatever a restart could read (routes.py:565-607).
THEOREM OneAdministratorHolds == AccessSpec => []OneAdministrator
<1>1. AccessInit => AccessInv
  BY DEF AccessInit, AccessInv, OneAdministrator
<1>2. AccessInv => OneAdministrator
  BY DEF AccessInv
<1> QED
  BY <1>1, <1>2, AccessKeepsInv, PTL DEF AccessSpec

-----------------------------------------------------------------------------
(* The audit: for every threshold and however audits fail.                 *)

\* The switch's memory is the history it stands for.
SwitchRemembers ==
  /\ emptyStreak \in 0 .. DeadManK + 1 /\ deadManAlerted \in BOOLEAN
  /\ emptyAudits = emptyStreak
  /\ deadManAlerted <=> emptyStreak >= DeadManK

AuditInv == SwitchRemembers /\ DeadManFiresOnce /\ AppearanceIsSentOnce

\* An audit sends what appeared, whatever it finds.
LEMMA AuditSendsAppearances ==
  ASSUME AppearanceIsSentOnce, NEW found, activeAnomalies' = found,
         sent' = [c \in Codes |->
                    IF c \notin found THEN 0
                    ELSE AtMost(2, sent[c] + IF c \in found \ activeAnomalies THEN 1 ELSE 0)]
  PROVE  AppearanceIsSentOnce'
<1> SUFFICES ASSUME NEW c \in Codes
             PROVE  sent'[c] = IF c \in activeAnomalies' THEN 1 ELSE 0
  BY DEF AppearanceIsSentOnce
<1>1. CASE c \notin found
  BY <1>1
<1>2. CASE c \in found /\ c \in activeAnomalies
  BY <1>2 DEF AppearanceIsSentOnce, AtMost
<1>3. CASE c \in found /\ c \notin activeAnomalies
  BY <1>3 DEF AppearanceIsSentOnce, AtMost
<1> QED
  BY <1>1, <1>2, <1>3

\* An audit keeps the switch's memory true, and the switch fires at the k-th empty one.
LEMMA AuditKeepsSwitch ==
  ASSUME SwitchRemembers, DeadManFiresOnce, NEW backlog, NEW flagged, Audit(backlog, flagged)
  PROVE  SwitchRemembers' /\ DeadManFiresOnce'
<1>1. DeadManK \in Nat \ {0} /\ emptyStreak \in Nat
  BY AuditAssumption DEF SwitchRemembers
<1>2. CASE SeesFreshRow
  BY <1>1, <1>2 DEF SwitchRemembers, DeadManFiresOnce, Audit, DeadMansSwitch, AtMost
<1>3. CASE ~SeesFreshRow
  <2> DEFINE k == DeadManK
             n == emptyStreak
             long == n + 1 >= k
  <2>1. /\ emptyStreak' = AtMost(n + 1, k + 1)
        /\ emptyAudits' = AtMost(emptyAudits + 1, k + 1)
        /\ deadManAlerted' = (deadManAlerted \/ (long /\ ~deadManAlerted))
        /\ deadManSent' = AtMost(2, deadManSent + IF long /\ ~deadManAlerted THEN 1 ELSE 0)
    BY <1>3 DEF Audit, DeadMansSwitch
  <2>2. emptyStreak' \in 0 .. k + 1 /\ emptyAudits' = emptyStreak'
    BY <1>1, <2>1 DEF SwitchRemembers, AtMost
  <2>3. (emptyStreak' >= k) = long
    BY <1>1, <2>1 DEF AtMost
  <2>4. n >= k => long
    BY <1>1
  <2>5. deadManAlerted \in BOOLEAN /\ (deadManAlerted <=> n >= k) /\ long \in BOOLEAN
    BY DEF SwitchRemembers
  <2> HIDE DEF long
  <2>6. deadManAlerted' = long
    <3>1. CASE n >= k
      BY <3>1, <2>1, <2>4, <2>5
    <3>2. CASE ~(n >= k)
      BY <3>2, <2>1, <2>5
    <3> QED
      BY <3>1, <3>2
  <2>7. deadManSent = IF n >= k THEN 1 ELSE 0
    BY DEF SwitchRemembers, DeadManFiresOnce
  <2>8. deadManSent' = IF long THEN 1 ELSE 0
    <3>1. CASE n >= k
      <4>1. long /\ deadManSent' = AtMost(2, deadManSent + 0)
        BY <3>1, <2>1, <2>4, <2>5
      <4> QED
        BY <4>1, <2>7, <3>1 DEF AtMost
    <3>2. CASE ~(n >= k)
      <4>1. deadManSent' = AtMost(2, deadManSent + IF long THEN 1 ELSE 0)
        BY <3>2, <2>1, <2>5
      <4> QED
        BY <4>1, <2>7, <3>2 DEF AtMost
    <3> QED
      BY <3>1, <3>2
  <2>9. SwitchRemembers'
    BY <2>2, <2>3, <2>6, <2>1, <2>5 DEF SwitchRemembers
  <2>10. DeadManFiresOnce'
    BY <2>2, <2>3, <2>8 DEF DeadManFiresOnce
  <2> QED
    BY <2>9, <2>10
<1> QED
  BY <1>2, <1>3

\* Nothing was audited or told yet.
LEMMA AuditStartsInv == AuditInit => AuditInv
<1> SUFFICES ASSUME AuditInit PROVE AuditInv
  OBVIOUS
<1>1. 0 \in 0 .. DeadManK + 1 /\ (0 >= DeadManK) = FALSE
  BY AuditAssumption
<1>2. SwitchRemembers
  BY <1>1 DEF AuditInit, SwitchRemembers
<1>3. DeadManFiresOnce /\ AppearanceIsSentOnce
  BY <1>1 DEF AuditInit, DeadManFiresOnce, AppearanceIsSentOnce
<1> QED
  BY <1>2, <1>3 DEF AuditInv

\* An audit, its faults, a restart and the clock keep it.
LEMMA AuditKeepsInv == AuditInv /\ [AuditNext]_auditVars => AuditInv'
<1> SUFFICES ASSUME AuditInv, [AuditNext]_auditVars PROVE AuditInv'
  OBVIOUS
<1>1. ASSUME NEW backlog, NEW flagged, Audit(backlog, flagged) PROVE AuditInv'
  <2> DEFINE found == EvaluateAnomalies(backlog) \cup WrongGameAnomalies(flagged)
  <2>1. /\ activeAnomalies' = found
        /\ sent' = [c \in Codes |->
                      IF c \notin found THEN 0
                      ELSE AtMost(2, sent[c] + IF c \in found \ activeAnomalies THEN 1 ELSE 0)]
    BY <1>1 DEF Audit, Remembered
  <2> HIDE DEF found
  <2>2. AppearanceIsSentOnce'
    BY <2>1, AuditSendsAppearances DEF AuditInv
  <2> QED
    BY <1>1, <2>2, AuditKeepsSwitch DEF AuditInv
<1>2. CASE RestartAudit
  <2>1. 0 \in 0 .. DeadManK + 1 /\ (0 >= DeadManK) = FALSE
    BY AuditAssumption
  <2>2. SwitchRemembers'
    BY <1>2, <2>1 DEF RestartAudit, SwitchRemembers
  <2>3. DeadManFiresOnce' /\ AppearanceIsSentOnce'
    BY <1>2, <2>1 DEF RestartAudit, DeadManFiresOnce, AppearanceIsSentOnce
  <2> QED
    BY <2>2, <2>3 DEF AuditInv
<1>3. CASE AuditFails \/ IngestLiveOdds \/ UNCHANGED auditVars
  BY <1>3 DEF AuditFails, IngestLiveOdds, auditVars, AuditInv, SwitchRemembers,
              DeadManFiresOnce, AppearanceIsSentOnce
<1> QED
  BY <1>1, <1>2, <1>3 DEF AuditNext

\* One alert per appearance of an anomaly, and one per outage at its k-th empty audit, through failing
\* audits and restarts (self_audit.py:107-140).
THEOREM AuditTellsOnce == AuditSpec => [](AppearanceIsSentOnce /\ DeadManFiresOnce)
<1>1. AuditInv => AppearanceIsSentOnce /\ DeadManFiresOnce
  BY DEF AuditInv
<1> QED
  BY <1>1, AuditStartsInv, AuditKeepsInv, PTL DEF AuditSpec


\* The types, beside the form's own invariant: at most one row and one credential in memory.
LEMMA AccessKeepsTypes == AccessInv /\ AccessTypeOK /\ [AccessNext]_accessVars => AccessTypeOK'
<1> SUFFICES ASSUME AccessInv, AccessTypeOK, [AccessNext]_accessVars PROVE AccessTypeOK'
  OBVIOUS
<1>0. SessionTTL \in Nat /\ MaxClock \in Nat /\ accessClock \in 0 .. MaxClock
  BY AccessAssumption DEF AccessTypeOK
<1>1. \A x : Cardinality({x}) <= 1
  <2>1. \A x : Cardinality({x}) = 1
    BY FS_Singleton, Zenon
  <2> QED
    BY <2>1
<1>2. Cardinality({}) <= 1
  BY FS_EmptySet
<1>3. \A x \in Secrets : Issued(x) \in [secret : Secrets, ends : 0 .. MaxClock + SessionTTL]
  BY <1>0 DEF Issued
<1>4. InForce \subseteq Secrets
  BY DEF InForce, Secrets, AccessTypeOK
<1>5. ASSUME NEW o \in Operators, SetupBegin(o) \/ SetupInsert(o) \/ SetupInstall(o) PROVE AccessTypeOK'
  <2>1. CASE SetupBegin(o)
    BY <2>1 DEF AccessTypeOK, SetupBegin
  <2>2. CASE SetupInsert(o)
    <3>1. row' = row \/ row' = {o}
      BY <2>2 DEF SetupInsert
    <3>2. setup' = [setup EXCEPT ![o] = "created"] \/ setup' = [setup EXCEPT ![o] = "refused"]
      BY <2>2 DEF SetupInsert
    <3> QED
      BY <1>1, <2>2, <3>1, <3>2 DEF AccessTypeOK, SetupInsert
  <2>3. CASE SetupInstall(o)
    BY <1>1, <1>3, <2>3 DEF AccessTypeOK, SetupInstall, Secrets
  <2> QED
    BY <1>5, <2>1, <2>2, <2>3
<1>6. ASSUME NEW x \in Secrets, SignIn(x) PROVE AccessTypeOK'
  BY <1>3, <1>6 DEF AccessTypeOK, SignIn
<1>7. ASSUME NEW s \in sessions, Enter(s) PROVE AccessTypeOK'
  BY <1>7 DEF AccessTypeOK, Enter
<1>8. ASSUME NEW readable \in BOOLEAN, RestartApp(readable) PROVE AccessTypeOK'
  BY <1>2, <1>8 DEF AccessTypeOK, RestartApp
<1>9. CASE EditEnv
  BY <1>9 DEF AccessTypeOK, EditEnv
<1>10. CASE AccessTick \/ UNCHANGED accessVars
  BY <1>0, <1>10 DEF AccessTypeOK, AccessTick, accessVars
<1> QED
  BY <1>5, <1>6, <1>7, <1>8, <1>9, <1>10 DEF AccessNext

\* Nobody is set up.
LEMMA AccessStarts == AccessInit => AccessInv /\ AccessTypeOK
<1>1. Cardinality({}) <= 1
  BY FS_EmptySet
<1> QED
  BY <1>1, AccessAssumption DEF AccessInit, AccessInv, OneAdministrator, AccessTypeOK

\* The audit's variables keep their types.
LEMMA AuditKeepsTypes == AuditInv /\ AuditTypeOK /\ [AuditNext]_auditVars => AuditTypeOK'
<1> SUFFICES ASSUME AuditInv, AuditTypeOK, [AuditNext]_auditVars, AuditInv' PROVE AuditTypeOK'
  BY AuditKeepsInv
<1>1. MaxAge \in Nat /\ DeadManK \in Nat \ {0} /\ NoRow = MaxAge + 1 /\ newestAge \in 0 .. NoRow
  BY AuditAssumption DEF NoRow, AuditTypeOK
<1>2. newestAge' \in 0 .. NoRow
  <2>1. \/ newestAge' = newestAge \/ newestAge' = 0 \/ newestAge' = NoRow
        \/ newestAge' = AtMost(newestAge + 1, MaxAge)
    BY DEF AuditNext, Audit, AuditFails, IngestLiveOdds, RestartAudit, auditVars
  <2> QED
    BY <1>1, <2>1 DEF AtMost
<1>3. activeAnomalies' \subseteq Codes
  BY DEF AuditNext, Audit, AuditFails, IngestLiveOdds, RestartAudit, auditVars, AuditTypeOK, Remembered,
         EvaluateAnomalies, WrongGameAnomalies, Codes
<1>4. sent' = [c \in Codes |-> IF c \in activeAnomalies' THEN 1 ELSE 0]
  <2>1. \E fun : sent' = [c \in Codes |-> fun[c]]
    <3>1. CASE UNCHANGED sent
      BY <3>1 DEF AuditTypeOK
    <3>2. ASSUME NEW backlog, NEW flagged, Audit(backlog, flagged) PROVE DOMAIN sent' = Codes /\ sent' = [c \in DOMAIN sent' |-> sent'[c]]
      BY <3>2 DEF Audit
    <3>3. CASE RestartAudit
      BY <3>3 DEF RestartAudit
    <3> QED
      BY <3>1, <3>2, <3>3 DEF AuditNext, AuditFails, IngestLiveOdds, auditVars
  <2> QED
    BY <2>1 DEF AuditInv, AppearanceIsSentOnce
<1>5. deadManSent' \in 0 .. 2 /\ emptyAudits' \in 0 .. DeadManK + 1 /\ deadManAlerted' \in BOOLEAN
      /\ emptyStreak' \in 0 .. DeadManK + 1
  BY DEF AuditInv, SwitchRemembers, DeadManFiresOnce
<1> QED
  BY <1>2, <1>3, <1>4, <1>5 DEF AuditTypeOK

\* Nothing was audited or told yet, and the types hold.
LEMMA AuditStarts == AuditInit => AuditInv /\ AuditTypeOK
<1> SUFFICES ASSUME AuditInit PROVE AuditInv /\ AuditTypeOK
  OBVIOUS
<1>1. AuditInv
  BY AuditStartsInv
<1>2. 0 \in 0 .. DeadManK + 1 /\ 0 \in 0 .. NoRow /\ NoRow \in 0 .. NoRow
  BY AuditAssumption DEF NoRow
<1>3. newestAge \in 0 .. NoRow /\ activeAnomalies \subseteq Codes /\ sent \in [Codes -> 0 .. 2]
  BY <1>2 DEF AuditInit
<1>4. deadManSent \in 0 .. 2 /\ emptyAudits \in 0 .. DeadManK + 1
  BY <1>2 DEF AuditInit
<1>5. AuditTypeOK
  BY <1>1, <1>3, <1>4 DEF AuditTypeOK, AuditInv, SwitchRemembers
<1> QED
  BY <1>1, <1>5


-----------------------------------------------------------------------------
(* The scheduler *)

\* The filter counts what the history counts, and the sports before the one the poll is at were
\* all asked for.
JobInv ==
  /\ JobTypeOK
  /\ \A j \in ContinuousJobs : skips[j] = missed[j]
  /\ HungIsSeen
  /\ pollAt # 0 => attempted = 1 .. (pollAt - 1)
  /\ EverySportIsPolled

\* A slot finds the job still running: it is counted, and shown as what it then amounts to.
LEMMA SkipKeepsInv == ASSUME JobInv, NEW j \in Jobs, SkipSlot(j) PROVE JobInv'
<1> DEFINE kind == Filtered(j, Count(j))
<1>1. /\ missed[j] \in Nat /\ missed[j] < MaxMissed /\ skips[j] \in 0 .. MaxMissed
      /\ MaxMissed \in Nat /\ HungAfter \in Nat
      /\ missed' = [missed EXCEPT ![j] = @ + 1]
      /\ seen' = [seen EXCEPT ![j] = IF Emits(kind) THEN @ \cup {kind} ELSE @]
      /\ UNCHANGED <<running, logLevel, pollAt, attempted>>
  BY JobAssumption DEF JobInv, JobTypeOK, SkipSlot
<1>2. kind \in {"skip", "notice", "hung"}
  BY DEF Filtered
<1>3. skips' \in [Jobs -> 0 .. MaxMissed]
  BY <1>1 DEF JobInv, JobTypeOK, SkipSlot
<1>4. missed' \in [Jobs -> 0 .. MaxMissed] /\ seen' \in [Jobs -> SUBSET {"skip", "notice", "hung"}]
  BY <1>1, <1>2 DEF JobInv, JobTypeOK
<1>5. JobTypeOK'
  BY <1>1, <1>3, <1>4 DEF JobInv, JobTypeOK
<1>6. \A i \in ContinuousJobs : skips'[i] = missed'[i]
  BY <1>1, JobAssumption DEF JobInv, JobTypeOK, SkipSlot
<1>7. kind = "hung" <=> j \in ContinuousJobs /\ missed[j] + 1 >= HungAfter
  BY <1>1 DEF Filtered, Count, JobInv
<1>8. Emits("hung") <=> logLevel # "ERROR"
  BY DEF Emits
<1>9. HungIsSeen'
  <2> SUFFICES ASSUME NEW i \in Jobs
               PROVE  "hung" \in seen'[i] <=>
                        i \in ContinuousJobs /\ missed'[i] >= HungAfter /\ logLevel' # "ERROR"
    BY DEF HungIsSeen
  <2>1. "hung" \in seen[i] <=>
          i \in ContinuousJobs /\ missed[i] >= HungAfter /\ logLevel # "ERROR"
    BY DEF JobInv, HungIsSeen
  <2>2. CASE i # j
    BY <1>1, <2>1, <2>2 DEF JobInv, JobTypeOK
  <2>3. CASE i = j
    <3> HIDE DEF kind
    <3>1. missed'[j] = missed[j] + 1
      BY <1>1 DEF JobInv, JobTypeOK
    <3>2. "hung" \in seen'[j] <=> "hung" \in seen[j] \/ (kind = "hung" /\ Emits("hung"))
      BY <1>1 DEF JobInv, JobTypeOK
    <3> QED
      BY <1>1, <1>7, <1>8, <2>1, <2>3, <3>1, <3>2
  <2> QED
    BY <2>2, <2>3
<1> QED
  BY <1>1, <1>5, <1>6, <1>9 DEF JobInv, EverySportIsPolled

\* A hung run is seen and every sport gets its turn, for all jobs, thresholds and sports.
LEMMA JobsKeepInv == JobInv /\ [JobNext]_jobVars => JobInv'
<1> SUFFICES ASSUME JobInv, [JobNext]_jobVars PROVE JobInv'
  OBVIOUS
<1>a. Len(SportKeys) \in Nat \ {0} /\ MaxMissed \in Nat /\ HungAfter \in Nat \ {0}
  BY JobAssumption
<1>1. ASSUME NEW j \in Jobs, Submit(j) PROVE JobInv'
  <2>1. skips' = [skips EXCEPT ![j] = 0] /\ missed' = [missed EXCEPT ![j] = 0]
        /\ seen' = [seen EXCEPT ![j] = {}] /\ running' = running \cup {j}
        /\ logLevel' = logLevel
    BY <1>1 DEF Submit, Reset
  <2>2. \/ pollAt' = 1 /\ attempted' = {}
        \/ UNCHANGED <<pollAt, attempted>>
    BY <1>1 DEF Submit
  <2>3. JobTypeOK'
    <3>1. /\ skips' \in [Jobs -> 0 .. MaxMissed] /\ missed' \in [Jobs -> 0 .. MaxMissed]
          /\ seen' \in [Jobs -> SUBSET {"skip", "notice", "hung"}]
      BY <1>a, <2>1 DEF JobInv, JobTypeOK
    <3>2. pollAt' \in 0 .. Len(SportKeys) /\ attempted' \subseteq 1 .. Len(SportKeys)
      <4>1. pollAt \in 0 .. Len(SportKeys) /\ attempted \subseteq 1 .. Len(SportKeys)
        BY DEF JobInv, JobTypeOK
      <4>2. 1 \in 0 .. Len(SportKeys) /\ {} \subseteq 1 .. Len(SportKeys)
        BY <1>a
      <4> QED
        BY <2>2, <4>1, <4>2
    <3> QED
      BY <2>1, <3>1, <3>2 DEF JobInv, JobTypeOK
  <2>4. \A i \in ContinuousJobs : skips'[i] = missed'[i]
    BY <2>1, JobAssumption DEF JobInv, JobTypeOK
  <2>5. HungIsSeen'
    BY <1>a, <2>1 DEF JobInv, JobTypeOK, HungIsSeen
  <2>6. (pollAt' # 0 => attempted' = 1 .. (pollAt' - 1)) /\ EverySportIsPolled'
    BY <2>2 DEF JobInv, EverySportIsPolled
  <2> QED
    BY <2>3, <2>4, <2>5, <2>6 DEF JobInv
<1>2. ASSUME NEW j \in Jobs, Finish(j) PROVE JobInv'
  BY <1>2 DEF Finish, JobInv, JobTypeOK, HungIsSeen, EverySportIsPolled
<1>3. ASSUME NEW raises \in BOOLEAN, PollSport(raises) PROVE JobInv'
  <2>1. /\ pollAt \in 1 .. Len(SportKeys)
        /\ attempted = 1 .. (pollAt - 1) /\ attempted' = attempted \cup {pollAt}
        /\ pollAt' = IF pollAt = Len(SportKeys) THEN 0 ELSE pollAt + 1
        /\ running' \subseteq running
        /\ UNCHANGED <<skips, logLevel, missed, seen>>
    BY <1>a, <1>3 DEF PollSport, AfterSport, JobInv, JobTypeOK
  <2>2. attempted' = 1 .. pollAt
    BY <1>a, <2>1
  <2>3. JobTypeOK'
    BY <1>a, <2>1, <2>2 DEF JobInv, JobTypeOK
  <2>4. (pollAt' # 0 => attempted' = 1 .. (pollAt' - 1)) /\ EverySportIsPolled'
    BY <1>a, <2>1, <2>2 DEF EverySportIsPolled
  <2>5. HungIsSeen' /\ \A i \in ContinuousJobs : skips'[i] = missed'[i]
    BY <2>1 DEF JobInv, HungIsSeen
  <2> QED
    BY <2>3, <2>4, <2>5 DEF JobInv
<1>4. CASE UNCHANGED jobVars
  BY <1>4 DEF jobVars, JobInv, JobTypeOK, HungIsSeen, EverySportIsPolled
<1> QED
  BY <1>1, <1>2, <1>3, <1>4, SkipKeepsInv DEF JobNext

\* Nothing has run yet.
LEMMA JobsStart == JobInit => JobInv
BY JobAssumption DEF JobInit, JobInv, JobTypeOK, HungIsSeen, EverySportIsPolled


-----------------------------------------------------------------------------
(* The off-window pages *)

\* Whoever was fetched while an event waited was attempted after it, on every pick it was attempted
\* for: the order of waiting cannot let the same one by again.
OffInv ==
  /\ OffTypeOK
  /\ \A e \in PageEvents, s \in Slots : openPicks[e][s].at <= cycleNo
  /\ \A e \in PageEvents : \A f \in passed[e] :
       Stamps(f) # {} /\ \A t \in Stamps(f) : LastAttempt(e) < t
  /\ NobodyIsOvertaken

\* The stamps of an event, by its slots.
LEMMA StampsBySlot ==
  ASSUME NEW e, NEW t
  PROVE  t \in Stamps(e) <=> t # Never /\ \E s \in Slots : openPicks[e][s].at = t
BY DEF Stamps, PicksOf, NoPick

\* The same after a step.
LEMMA StampsBySlotNext ==
  ASSUME NEW e, NEW t
  PROVE  t \in Stamps(e)' <=> t # Never /\ \E s \in Slots : openPicks'[e][s].at = t
BY DEF Stamps, PicksOf, NoPick

\* An event's slots hold picks with stamps of cycles that were.
LEMMA SlotsTyped ==
  ASSUME OffInv, NEW e \in PageEvents, NEW s \in Slots
  PROVE  /\ openPicks[e][s].at \in Nat /\ openPicks[e][s].at <= cycleNo
         /\ cycleNo \in Nat /\ cycleNo <= MaxCycles /\ MaxCycles \in Nat
         /\ openPicks[e][s] \in [tier : Tiers, at : 0 .. MaxCycles] \cup {NoPick}
<1>1. /\ openPicks[e][s] \in [tier : Tiers, at : 0 .. MaxCycles] \cup {NoPick}
      /\ cycleNo \in 0 .. MaxCycles /\ MaxCycles \in Nat
  BY OffWindowAssumption DEF OffInv, OffTypeOK
<1>2. NoPick.at = 0
  BY DEF NoPick, Never
<1> QED
  BY <1>1, <1>2 DEF OffInv

\* A set of natural numbers has a least one, unless it is empty.
LEMMA LeastNumber ==
  ASSUME NEW S \in SUBSET Nat, S # {}
  PROVE  \E t \in S : \A u \in S : t <= u
<1>1. PICK t \in S : \A u \in S : <<u, t>> \notin OpToRel(<, Nat)
  BY WFMin, NatLessThanWellFounded, Zenon
<1>2. \A u \in S : ~(u < t)
  BY <1>1, Zenon DEF OpToRel
<1> QED
  BY <1>2

\* SQL's MIN is there, and is the least of the stamps that are.
LEMMA LastAttemptIs ==
  ASSUME OffInv, NEW e \in PageEvents
  PROVE  /\ LastAttempt(e) \in Nat /\ LastAttempt(e) <= cycleNo
         /\ Stamps(e) # {} => LastAttempt(e) \in Stamps(e)
<1>1. Stamps(e) \subseteq Nat /\ \A t \in Stamps(e) : t <= cycleNo
  BY StampsBySlot, SlotsTyped
<1>2. cycleNo \in Nat
  BY OffWindowAssumption DEF OffInv, OffTypeOK
<1>3. CASE Stamps(e) = {}
  BY <1>2, <1>3 DEF LastAttempt, Never
<1>4. CASE Stamps(e) # {}
  <2>1. PICK t \in Stamps(e) : \A u \in Stamps(e) : t <= u
    BY <1>1, <1>4, LeastNumber
  <2>2. LastAttempt(e) = CHOOSE first \in Stamps(e) : \A u \in Stamps(e) : first <= u
    BY <1>4 DEF LastAttempt
  <2>3. LastAttempt(e) \in Stamps(e)
    BY <2>1, <2>2
  <2> QED
    BY <1>1, <2>3
<1> QED
  BY <1>3, <1>4


\* As long as no stamp changes, nobody's wait does.
LEMMA StampsStand ==
  ASSUME NEW e, \A s \in Slots : openPicks'[e][s].at = openPicks[e][s].at
  PROVE  Stamps(e)' = Stamps(e) /\ LastAttempt(e)' = LastAttempt(e)
<1>1. Stamps(e)' = Stamps(e)
  <2>1. \A t : t \in Stamps(e)' <=> t \in Stamps(e)
    BY StampsBySlot, StampsBySlotNext
  <2> QED
    BY <2>1
<1> QED
  BY <1>1 DEF LastAttempt

\* A pick is opened or promoted: no stamp changes.
LEMMA OpenPromoteKeepInv ==
  ASSUME OffInv, NEW e \in PageEvents, NEW s \in Slots,
         PromotePick(e, s) \/ \E tier \in Tiers : OpenPick(e, s, tier)
  PROVE  OffInv'
<1>a. openPicks[e][s] \in [tier : Tiers, at : 0 .. MaxCycles] \cup {NoPick}
  BY DEF OffInv, OffTypeOK
<1>1. PICK pick \in [tier : Tiers, at : 0 .. MaxCycles] :
        /\ pick.at = openPicks[e][s].at
        /\ openPicks' = [openPicks EXCEPT ![e][s] = pick]
  <2>1. CASE PromotePick(e, s)
    <3>1. openPicks[e][s] \in [tier : Tiers, at : 0 .. MaxCycles]
      BY <1>a, <2>1 DEF PromotePick, NoPick
    <3>2. openPicks' = [openPicks EXCEPT ![e][s] = [openPicks[e][s] EXCEPT !.tier = "premium"]]
      BY <2>1 DEF PromotePick
    <3>3. [openPicks[e][s] EXCEPT !.tier = "premium"] \in [tier : Tiers, at : 0 .. MaxCycles]
      BY <3>1 DEF Tiers
    <3>4. [openPicks[e][s] EXCEPT !.tier = "premium"].at = openPicks[e][s].at
      BY <3>1
    <3> QED
      BY <3>2, <3>3, <3>4
  <2>2. ASSUME NEW tier \in Tiers, OpenPick(e, s, tier)
        PROVE  \E pick \in [tier : Tiers, at : 0 .. MaxCycles] :
                 /\ pick.at = openPicks[e][s].at
                 /\ openPicks' = [openPicks EXCEPT ![e][s] = pick]
    <3>1. [tier |-> tier, at |-> Never] \in [tier : Tiers, at : 0 .. MaxCycles]
      BY OffWindowAssumption DEF Never
    <3>2. [tier |-> tier, at |-> Never].at = openPicks[e][s].at
      BY <2>2 DEF OpenPick, NoPick
    <3> QED
      BY <2>2, <3>1, <3>2 DEF OpenPick
  <2> QED
    BY <2>1, <2>2
<1>2. UNCHANGED <<cycleNo, passed, overtaken>>
  BY DEF PromotePick, OpenPick
<1>3. \A f \in PageEvents, u \in Slots :
        openPicks'[f][u] = IF f = e /\ u = s THEN pick ELSE openPicks[f][u]
  BY <1>1 DEF OffInv, OffTypeOK
<1>4. openPicks' \in [PageEvents -> [Slots -> [tier : Tiers, at : 0 .. MaxCycles] \cup {NoPick}]]
  <2>1. [openPicks[e] EXCEPT ![s] = pick] \in [Slots -> [tier : Tiers, at : 0 .. MaxCycles] \cup {NoPick}]
    BY DEF OffInv, OffTypeOK
  <2> QED
    BY <1>1, <2>1 DEF OffInv, OffTypeOK
<1>5. \A f \in PageEvents, u \in Slots : openPicks'[f][u].at = openPicks[f][u].at
  BY <1>1, <1>3
<1>6. \A f \in PageEvents : Stamps(f)' = Stamps(f) /\ LastAttempt(f)' = LastAttempt(f)
  BY <1>5, StampsStand
<1>7. \A f \in PageEvents : passed[f] \subseteq PageEvents
  BY DEF OffInv, OffTypeOK
<1> QED
  BY <1>2, <1>4, <1>5, <1>6, <1>7 DEF OffInv, OffTypeOK, NobodyIsOvertaken

\* A closed pick takes its stamp with it: what its event was fetched before starts anew.
LEMMA CloseKeepsInv ==
  ASSUME OffInv, NEW e \in PageEvents, NEW s \in Slots, ClosePick(e, s)
  PROVE  OffInv'
<1>1. /\ openPicks' = [openPicks EXCEPT ![e][s] = NoPick]
      /\ passed' = [f \in PageEvents |-> IF f = e THEN {} ELSE passed[f] \ {e}]
      /\ UNCHANGED <<cycleNo, overtaken>>
  BY DEF ClosePick
<1>2. \A f \in PageEvents, u \in Slots :
        openPicks'[f][u] = IF f = e /\ u = s THEN NoPick ELSE openPicks[f][u]
  BY <1>1 DEF OffInv, OffTypeOK
<1>3. OffTypeOK'
  <2>1. [openPicks[e] EXCEPT ![s] = NoPick] \in [Slots -> [tier : Tiers, at : 0 .. MaxCycles] \cup {NoPick}]
    BY DEF OffInv, OffTypeOK
  <2> QED
    BY <1>1, <2>1 DEF OffInv, OffTypeOK
<1>4. \A f \in PageEvents, u \in Slots : openPicks'[f][u].at <= cycleNo'
  <2>1. NoPick.at = 0 /\ cycleNo \in Nat
    BY OffWindowAssumption DEF NoPick, Never, OffInv, OffTypeOK
  <2> QED
    BY <1>1, <1>2, <2>1 DEF OffInv
<1>5. ASSUME NEW f \in PageEvents, f # e
      PROVE  Stamps(f)' = Stamps(f) /\ LastAttempt(f)' = LastAttempt(f)
  BY <1>2, <1>5, StampsStand
<1>6. \A f \in PageEvents : \A g \in passed'[f] :
        f # e /\ g # e /\ g \in passed[f] /\ g \in PageEvents
  BY <1>1 DEF OffInv, OffTypeOK
<1>7. \A f \in PageEvents : \A g \in passed'[f] :
        Stamps(g)' # {} /\ \A t \in Stamps(g)' : LastAttempt(f)' < t
  BY <1>5, <1>6 DEF OffInv
<1> QED
  BY <1>1, <1>3, <1>4, <1>7 DEF OffInv, NobodyIsOvertaken


\* A cycle: whoever is fetched is stamped after everybody who waits, and goes before none of them
\* that it went before already.
LEMMA FetchKeepsInv ==
  ASSUME OffInv, NEW covered \in SUBSET PageEvents, NEW chosen \in PagesToFetch(covered),
         NEW priced \in SUBSET {es \in (covered \cup chosen) \X Slots :
                                  openPicks[es[1]][es[2]] # NoPick},
         FetchPages(covered, chosen, priced)
  PROVE  OffInv'
<1> DEFINE waits(e) == e \in Waiting \ (covered \cup chosen)
           hit(e, s) == <<e, s>> \in priced \/ (e \in chosen /\ openPicks[e][s] # NoPick)
<1>1. /\ chosen \subseteq Waiting \ covered /\ chosen \subseteq PageEvents
      /\ \A f \in chosen, e \in Waiting \ (covered \cup chosen) : ~GoesBefore(e, f)
  BY DEF PagesToFetch, Waiting
<1>2. /\ cycleNo \in Nat /\ cycleNo < MaxCycles /\ MaxCycles \in Nat /\ cycleNo' = cycleNo + 1
      /\ passed' = [e \in PageEvents |-> IF waits(e) THEN passed[e] \cup chosen ELSE {}]
  BY OffWindowAssumption DEF OffInv, OffTypeOK, FetchPages
<1>3. /\ openPicks' = [e \in PageEvents |-> [s \in Slots |->
           IF hit(e, s) THEN [openPicks[e][s] EXCEPT !.at = cycleNo + 1] ELSE openPicks[e][s]]]
  BY DEF FetchPages, Stamped
<1>4. ASSUME NEW e \in PageEvents, NEW s \in Slots, hit(e, s)
      PROVE  /\ e \in covered \cup chosen
             /\ openPicks'[e][s] \in [tier : Tiers, at : 0 .. MaxCycles]
             /\ openPicks'[e][s].at = cycleNo + 1
  <2>1. openPicks[e][s] # NoPick /\ e \in covered \cup chosen
    BY <1>4
  <2>2. openPicks[e][s] \in [tier : Tiers, at : 0 .. MaxCycles]
    BY <2>1 DEF OffInv, OffTypeOK
  <2>3. openPicks'[e][s] = [openPicks[e][s] EXCEPT !.at = cycleNo + 1]
    BY <1>3, <1>4
  <2>4. cycleNo + 1 \in 0 .. MaxCycles
    BY <1>2
  <2> QED
    BY <2>1, <2>2, <2>3, <2>4
<1>5. ASSUME NEW e \in PageEvents, NEW s \in Slots, ~hit(e, s)
      PROVE  openPicks'[e][s] = openPicks[e][s]
  BY <1>3, <1>5
<1>6. ASSUME NEW e \in chosen, NEW s \in Slots
      PROVE  openPicks'[e][s].at \in {0, cycleNo + 1}
  <2>1. CASE hit(e, s)
    BY <1>1, <1>4, <2>1
  <2>2. CASE ~hit(e, s)
    BY <1>1, <1>5, <2>2 DEF NoPick, Never
  <2> QED
    BY <2>1, <2>2
<1>7. ASSUME NEW e \in chosen PROVE \E s \in Slots : openPicks'[e][s].at = cycleNo + 1
  <2>1. PICK s \in Slots : openPicks[e][s] # NoPick
    BY <1>1 DEF Waiting, PicksOf
  <2> QED
    BY <1>1, <1>4, <2>1
<1>8. ASSUME NEW e \in PageEvents, waits(e), NEW s \in Slots
      PROVE  openPicks'[e][s].at = openPicks[e][s].at
  <2>1. ~hit(e, s)
    BY <1>8
  <2> QED
    BY <1>5, <2>1
<1>9. \A e \in PageEvents, s \in Slots : openPicks'[e][s].at \in {openPicks[e][s].at, cycleNo + 1}
  BY <1>4, <1>5
<1>10. OffTypeOK'
  <2>1. \A e \in PageEvents, s \in Slots :
          openPicks'[e][s] \in [tier : Tiers, at : 0 .. MaxCycles] \cup {NoPick}
    <3> SUFFICES ASSUME NEW e \in PageEvents, NEW s \in Slots
                 PROVE  openPicks'[e][s] \in [tier : Tiers, at : 0 .. MaxCycles] \cup {NoPick}
      OBVIOUS
    <3>1. CASE hit(e, s)
      BY <1>4, <3>1
    <3>2. CASE ~hit(e, s)
      BY <1>5, <3>2 DEF OffInv, OffTypeOK
    <3> QED
      BY <3>1, <3>2
  <2>2. openPicks' \in [PageEvents -> [Slots -> [tier : Tiers, at : 0 .. MaxCycles] \cup {NoPick}]]
    BY <1>3, <2>1
  <2>3. passed' \in [PageEvents -> SUBSET PageEvents]
    BY <1>1, <1>2 DEF OffInv, OffTypeOK
  <2>4. cycleNo' \in 0 .. MaxCycles
    BY <1>2
  <2>5. overtaken' \subseteq PageEvents
    BY DEF FetchPages, OffInv, OffTypeOK
  <2> QED
    BY <2>2, <2>3, <2>4, <2>5 DEF OffTypeOK
<1>11. \A e \in PageEvents, s \in Slots : openPicks'[e][s].at <= cycleNo'
  BY <1>2, <1>9, SlotsTyped
<1> HIDE DEF hit
<1>12. ASSUME NEW e \in PageEvents, NEW f \in passed'[e]
       PROVE  Stamps(f)' # {} /\ \A t \in Stamps(f)' : LastAttempt(e)' < t
  <2>1. waits(e) /\ f \in passed[e] \cup chosen
    BY <1>2, <1>12
  <2>2. /\ f \in PageEvents
        /\ LastAttempt(e)' = LastAttempt(e)
        /\ LastAttempt(e) \in Nat /\ LastAttempt(e) <= cycleNo
    BY <1>1, <1>8, <2>1, StampsStand, LastAttemptIs DEF OffInv, OffTypeOK
  <2>3. CASE f \in chosen
    <3>1. \A t \in Stamps(f)' : t = cycleNo + 1
      BY <1>6, <2>3, StampsBySlotNext DEF Never
    <3>2. cycleNo + 1 \in Stamps(f)'
      BY <1>2, <1>7, <2>3, StampsBySlotNext DEF Never
    <3> QED
      BY <1>2, <2>2, <3>1, <3>2
  <2>4. CASE f \in passed[e]
    <3>1. PICK u \in Stamps(f) : TRUE
      BY <2>1, <2>4 DEF OffInv
    <3>2. PICK s \in Slots : openPicks[f][s].at = u /\ u # Never
      BY <3>1, StampsBySlot
    <3>3. openPicks'[f][s].at \in {u, cycleNo + 1}
      BY <1>9, <2>2, <3>2
    <3>4. Stamps(f)' # {}
      <4>1. openPicks'[f][s].at # Never
        BY <1>2, <3>2, <3>3 DEF Never
      <4>2. openPicks'[f][s].at \in Stamps(f)'
        BY <4>1, StampsBySlotNext
      <4> QED
        BY <4>2
    <3>5. ASSUME NEW t \in Stamps(f)' PROVE LastAttempt(e) < t
      <4>1. PICK v \in Slots : openPicks'[f][v].at = t /\ t # Never
        BY <3>5, StampsBySlotNext
      <4>2. CASE t = cycleNo + 1
        BY <1>2, <2>2, <4>2
      <4>3. CASE t # cycleNo + 1
        <5>1. t = openPicks[f][v].at
          BY <1>9, <2>2, <4>1, <4>3
        <5>2. t \in Stamps(f)
          BY <4>1, <5>1, StampsBySlot
        <5> QED
          BY <2>4, <5>2 DEF OffInv
      <4> QED
        BY <4>2, <4>3
    <3> QED
      BY <2>2, <3>4, <3>5
  <2> QED
    BY <2>1, <2>3, <2>4
<1>13. overtaken' = {}
  <2> SUFFICES ASSUME NEW e \in PageEvents, waits(e), NEW f \in chosen,
                      \/ f \in passed[e] /\ (IsPremium(e) \/ ~IsPremium(f))
                      \/ IsPremium(e) /\ ~IsPremium(f)
               PROVE  FALSE
    BY DEF FetchPages, OffInv, NobodyIsOvertaken
  <2>1. ~GoesBefore(e, f)
    BY <1>1
  <2>2. ~(IsPremium(e) /\ ~IsPremium(f))
    BY <2>1 DEF GoesBefore
  <2>3. f \in passed[e] /\ IsPremium(e) = IsPremium(f)
    BY <2>2 DEF IsPremium
  <2>4. LastAttempt(e) < LastAttempt(f)
    <3>1. Stamps(f) # {} /\ \A t \in Stamps(f) : LastAttempt(e) < t
      BY <2>3 DEF OffInv
    <3>2. f \in PageEvents
      BY <1>1
    <3> QED
      BY <3>1, <3>2, LastAttemptIs
  <2> QED
    BY <2>1, <2>3, <2>4 DEF GoesBefore
<1> QED
  BY <1>10, <1>11, <1>12, <1>13 DEF OffInv, NobodyIsOvertaken

\* Nobody waits while another of its band is fetched twice, for all events, picks and limits.
LEMMA OffKeepsInv == OffInv /\ [OffNext]_offVars => OffInv'
<1> SUFFICES ASSUME OffInv, [OffNext]_offVars PROVE OffInv'
  OBVIOUS
<1>1. CASE FetchRaises
  <2>1. cycleNo \in 0 .. MaxCycles /\ cycleNo' = cycleNo + 1 /\ cycleNo < MaxCycles /\ MaxCycles \in Nat
        /\ UNCHANGED <<openPicks, passed, overtaken>>
    BY <1>1, OffWindowAssumption DEF FetchRaises, OffInv, OffTypeOK
  <2>2. cycleNo' \in 0 .. MaxCycles
    BY <2>1
  <2>3. \A e \in PageEvents, s \in Slots : openPicks'[e][s].at <= cycleNo'
    BY <2>1, SlotsTyped
  <2>4. \A e : Stamps(e)' = Stamps(e) /\ LastAttempt(e)' = LastAttempt(e)
    BY <2>1 DEF Stamps, PicksOf, LastAttempt
  <2> QED
    BY <2>1, <2>2, <2>3, <2>4 DEF OffInv, OffTypeOK, NobodyIsOvertaken
<1>2. CASE UNCHANGED offVars
  <2>1. UNCHANGED <<openPicks, cycleNo, passed, overtaken>>
    BY <1>2 DEF offVars
  <2>2. \A e : Stamps(e)' = Stamps(e) /\ LastAttempt(e)' = LastAttempt(e)
    BY <2>1 DEF Stamps, PicksOf, LastAttempt
  <2> QED
    BY <2>1, <2>2 DEF OffInv, OffTypeOK, NobodyIsOvertaken
<1>3. CASE \E e \in PageEvents, s \in Slots :
             PromotePick(e, s) \/ ClosePick(e, s) \/ \E tier \in Tiers : OpenPick(e, s, tier)
  BY <1>3, OpenPromoteKeepInv, CloseKeepsInv
<1>4. CASE \E covered \in SUBSET PageEvents : \E chosen \in PagesToFetch(covered) :
             \E priced \in SUBSET {es \in (covered \cup chosen) \X Slots :
                                     openPicks[es[1]][es[2]] # NoPick} :
               FetchPages(covered, chosen, priced)
  BY <1>4, FetchKeepsInv
<1> QED
  BY <1>1, <1>2, <1>3, <1>4 DEF OffNext

\* No pick is open yet.
LEMMA OffStarts == OffInit => OffInv
<1> SUFFICES ASSUME OffInit PROVE OffInv
  OBVIOUS
<1>1. OffTypeOK
  BY OffWindowAssumption DEF OffInit, OffTypeOK
<1>2. \A e \in PageEvents, s \in Slots : openPicks[e][s].at <= cycleNo
  BY DEF OffInit, NoPick, Never
<1> QED
  BY <1>1, <1>2 DEF OffInit, OffInv, NobodyIsOvertaken


-----------------------------------------------------------------------------
(* The watches *)

\* The keys in the store are those of what was told, with the day it was told on.
KeysAreTold ==
  \A n \in News, d \in 0 .. MaxDay :
    (\E c \in keys : c.key = DedupeKey(n) /\ c.day = d) <=> (\E t \in told : t.news = n /\ t.day = d)

WatchInv == WatchTypeOK /\ KeysAreTold /\ ToldOncePerKey /\ QuietMeansCurrent

\* No two pieces of news share a key: the release and the day are in it.
LEMMA KeysTellNewsApart ==
  ASSUME NEW n \in News, NEW m \in News, DedupeKey(n) = DedupeKey(m)
  PROVE  n = m
<1>1. \A k \in News : k = [kind |-> k.kind, name |-> k.name, bucket |-> k.bucket]
  <2> SUFFICES ASSUME NEW k \in News
               PROVE  k = [kind |-> k.kind, name |-> k.name, bucket |-> k.bucket]
    OBVIOUS
  <2>1. CASE \E p \in Packages, r \in ReleaseNumbers : k = ReleaseNews(p, r)
    <3>1. PICK p \in Packages, r \in ReleaseNumbers : k = [kind |-> "upstream", name |-> p, bucket |-> r]
      BY <2>1 DEF ReleaseNews
    <3> QED
      BY <3>1
  <2>2. CASE \E d \in 0 .. MaxDay : k = DriftNews(d)
    <3>1. PICK d \in 0 .. MaxDay : k = [kind |-> "calibration_drift", name |-> "value picks", bucket |-> d]
      BY <2>2 DEF DriftNews
    <3> QED
      BY <3>1
  <2> QED
    BY <2>1, <2>2 DEF News
<1>2. n.kind = m.kind /\ n.name = m.name /\ n.bucket = m.bucket
  BY DEF DedupeKey
<1> QED
  BY <1>1, <1>2

\* A duplicate is what was told within the lifetime of its key.
LEMMA ClaimedIsTold ==
  ASSUME WatchTypeOK, KeysAreTold, NEW n \in News
  PROVE  Claimed(n) <=> ToldLately(n)
<1>1. (\A c \in keys : c.day \in 0 .. MaxDay) /\ \A t \in told : t.day \in 0 .. MaxDay
  BY DEF WatchTypeOK
<1> QED
  BY <1>1 DEF KeysAreTold, Claimed, ToldLately

\* What the dispatcher takes is news that was not told lately, and it drops nothing else.
LEMMA DispatchKeepsKeys ==
  ASSUME WatchInv, NEW news \in SUBSET News, NEW taken, Dispatch(news, taken)
  PROVE  /\ KeysAreTold' /\ ToldOncePerKey' /\ UNCHANGED <<silenced, repeated>>
         /\ told' \subseteq [news : News, day : 0 .. MaxDay]
         /\ \A c \in keys' : c.day \in 0 .. MaxDay
<1>1. /\ taken \subseteq news /\ \A n \in taken : ~Claimed(n)
      /\ watchDay \in 0 .. MaxDay
      /\ told \subseteq [news : News, day : 0 .. MaxDay]
      /\ \A c \in keys : c.day \in 0 .. MaxDay
      /\ KeysAreTold /\ silenced = {} /\ repeated = {}
  BY DEF Dispatch, WatchInv, WatchTypeOK, ToldOncePerKey
<1>2. /\ keys' = {c \in keys : \A n \in taken : c.key # DedupeKey(n)}
                  \cup {[key |-> DedupeKey(n), day |-> watchDay] : n \in taken}
      /\ told' = {t \in told : t.news \notin taken} \cup [news : taken, day : {watchDay}]
  BY DEF Dispatch
<1>3. \A n \in News : Claimed(n) <=> ToldLately(n)
  BY ClaimedIsTold DEF WatchInv
<1>4. silenced' = {} /\ repeated' = {}
  BY <1>1, <1>3 DEF Dispatch
<1>5. told' \subseteq [news : News, day : 0 .. MaxDay]
  BY <1>1, <1>2
<1>6. \A c \in keys' : c.day \in 0 .. MaxDay
  BY <1>1, <1>2
<1>7. ASSUME NEW n \in News, NEW d \in 0 .. MaxDay, n \in taken
      PROVE  (\E c \in keys' : c.key = DedupeKey(n) /\ c.day = d)
                <=> (\E t \in told' : t.news = n /\ t.day = d)
  <2>1. (\E c \in keys' : c.key = DedupeKey(n) /\ c.day = d) <=> d = watchDay
    <3>1. [key |-> DedupeKey(n), day |-> watchDay] \in keys'
      BY <1>2, <1>7
    <3>2. \A c \in keys' : c.key = DedupeKey(n) => c.day = watchDay
      BY <1>2, <1>7
    <3> QED
      BY <3>1, <3>2
  <2>2. (\E t \in told' : t.news = n /\ t.day = d) <=> d = watchDay
    <3>1. [news |-> n, day |-> watchDay] \in told'
      BY <1>2, <1>7
    <3>2. \A t \in told' : t.news = n => t.day = watchDay
      BY <1>2, <1>7
    <3> QED
      BY <3>1, <3>2
  <2> QED
    BY <2>1, <2>2
<1>8. ASSUME NEW n \in News, NEW d \in 0 .. MaxDay, n \notin taken
      PROVE  (\E c \in keys' : c.key = DedupeKey(n) /\ c.day = d)
                <=> (\E t \in told' : t.news = n /\ t.day = d)
  <2>1. \A m \in taken : DedupeKey(m) # DedupeKey(n)
    BY <1>1, <1>8, KeysTellNewsApart
  <2>2. ASSUME NEW c, c.key = DedupeKey(n) PROVE c \in keys' <=> c \in keys
    <3>1. \A m \in taken : c # [key |-> DedupeKey(m), day |-> watchDay]
      BY <2>1, <2>2
    <3> QED
      BY <1>2, <2>1, <2>2, <3>1
  <2>3. ASSUME NEW t, t.news = n PROVE t \in told' <=> t \in told
    <3>1. t \notin [news : taken, day : {watchDay}]
      BY <1>8, <2>3
    <3> QED
      BY <1>2, <1>8, <2>3, <3>1
  <2>4. (\E c \in keys : c.key = DedupeKey(n) /\ c.day = d)
           <=> (\E t \in told : t.news = n /\ t.day = d)
    BY <1>1 DEF KeysAreTold
  <2> QED
    BY <2>2, <2>3, <2>4
<1> QED
  BY <1>1, <1>4, <1>5, <1>6, <1>7, <1>8 DEF KeysAreTold, ToldOncePerKey

\* Every check, publication and restart keeps what was told and what is shown.
LEMMA WatchKeepsInv == WatchInv /\ [WatchNext]_watchVars => WatchInv'
<1> SUFFICES ASSUME WatchInv, [WatchNext]_watchVars PROVE WatchInv'
  OBVIOUS
<1>1. ASSUME NEW unreachable \in SUBSET Packages, NEW taken, UpstreamWatch(unreachable, taken)
      PROVE  WatchInv'
  <2> DEFINE asked == {p \in Packages : installed[p] # NotInstalled}
             news == {q \in asked \ unreachable : installed[q] # latest[q]}
             updates == {<<p, latest[p]>> : p \in news}
             errors == asked \cap unreachable
  <2>1. /\ lastCheck' = [checked |-> TRUE, updates |-> updates, errors |-> errors]
        /\ atCheck' = [p \in Packages |-> {<<installed[p], latest[p]>>}]
        /\ Dispatch({ReleaseNews(u[1], u[2]) : u \in updates}, taken)
        /\ UNCHANGED <<installed, latest, watchDay>>
    BY <1>1 DEF UpstreamWatch, Checked
  <2>2. /\ \A p \in Packages : latest[p] \in ReleaseNumbers
        /\ \A p \in Packages : installed[p] \in ReleaseNumbers \cup {NotInstalled}
    BY DEF WatchInv, WatchTypeOK
  <2>3. updates \subseteq Packages \X ReleaseNumbers /\ errors \subseteq Packages
    BY <2>2
  <2>4. {ReleaseNews(u[1], u[2]) : u \in updates} \subseteq News
    BY <2>3 DEF News
  <2>5. QuietMeansCurrent'
    <3> SUFFICES ASSUME errors = {}
                 PROVE  updates = {u \in Packages \X ReleaseNumbers :
                          \E s \in atCheck'[u[1]] : s[1] \notin {NotInstalled, u[2]} /\ s[2] = u[2]}
      BY <2>1 DEF QuietMeansCurrent
    <3>1. news = {p \in Packages : installed[p] \notin {NotInstalled, latest[p]}}
      OBVIOUS
    <3>2. \A u \in Packages \X ReleaseNumbers :
             (\E s \in atCheck'[u[1]] : s[1] \notin {NotInstalled, u[2]} /\ s[2] = u[2])
                <=> installed[u[1]] \notin {NotInstalled, u[2]} /\ latest[u[1]] = u[2]
      <4> SUFFICES ASSUME NEW u \in Packages \X ReleaseNumbers
                   PROVE  (\E s \in atCheck'[u[1]] : s[1] \notin {NotInstalled, u[2]} /\ s[2] = u[2])
                            <=> installed[u[1]] \notin {NotInstalled, u[2]} /\ latest[u[1]] = u[2]
        OBVIOUS
      <4>1. atCheck'[u[1]] = {<<installed[u[1]], latest[u[1]]>>}
        BY <2>1
      <4>2. \A s : s \in atCheck'[u[1]] <=> s = <<installed[u[1]], latest[u[1]]>>
        BY <4>1
      <4>3. <<installed[u[1]], latest[u[1]]>>[1] = installed[u[1]]
            /\ <<installed[u[1]], latest[u[1]]>>[2] = latest[u[1]]
        OBVIOUS
      <4> QED
        BY <4>2, <4>3, Zenon
    <3>3. \A u \in Packages \X ReleaseNumbers : u = <<u[1], u[2]>> /\ u[1] \in Packages
      OBVIOUS
    <3> HIDE DEF news
    <3> QED
      BY <2>2, <2>3, <3>1, <3>2, <3>3
  <2> HIDE DEF updates, errors
  <2>6. /\ KeysAreTold' /\ ToldOncePerKey' /\ UNCHANGED <<silenced, repeated>>
        /\ told' \subseteq [news : News, day : 0 .. MaxDay]
        /\ \A c \in keys' : c.day \in 0 .. MaxDay
    BY <2>1, <2>4, DispatchKeepsKeys
  <2>7. lastCheck' \in [checked : BOOLEAN, updates : SUBSET (Packages \X ReleaseNumbers), errors : SUBSET Packages]
    BY <2>1, <2>3
  <2>8. atCheck' \in [Packages -> SUBSET ((ReleaseNumbers \cup {NotInstalled}) \X ReleaseNumbers)]
    BY <2>1, <2>2
  <2> QED
    BY <2>1, <2>5, <2>6, <2>7, <2>8 DEF WatchInv, WatchTypeOK
<1>2. ASSUME NEW v \in Verdicts, NEW taken, CalibrationDrift(v, taken) PROVE WatchInv'
  <2>1. PICK news \in SUBSET News : Dispatch(news, taken)
    <3>1. DriftNews(watchDay) \in News
      BY DEF WatchInv, WatchTypeOK, News
    <3> QED
      BY <1>2, <3>1 DEF CalibrationDrift
  <2>2. /\ KeysAreTold' /\ ToldOncePerKey' /\ UNCHANGED <<silenced, repeated>>
        /\ told' \subseteq [news : News, day : 0 .. MaxDay]
        /\ \A c \in keys' : c.day \in 0 .. MaxDay
    BY <2>1, DispatchKeepsKeys
  <2> QED
    BY <1>2, <2>2 DEF CalibrationDrift, WatchInv, WatchTypeOK, QuietMeansCurrent
<1>3. ASSUME NEW p \in Packages, Publish(p) \/ UpgradePackage(p) PROVE WatchInv'
  <2>1. UNCHANGED <<lastCheck, atCheck, keys, told, silenced, repeated, watchDay>>
    BY <1>3 DEF Publish, UpgradePackage
  <2>2. /\ installed' \in [Packages -> ReleaseNumbers \cup {NotInstalled}]
        /\ latest' \in [Packages -> ReleaseNumbers]
    BY <1>3, WatchAssumption DEF Publish, UpgradePackage, WatchInv, WatchTypeOK, ReleaseNumbers
  <2> QED
    BY <2>1, <2>2 DEF WatchInv, WatchTypeOK, KeysAreTold, ToldOncePerKey, QuietMeansCurrent
<1>4. CASE RestartWatch
  <2>1. lastCheck' \in [checked : BOOLEAN, updates : SUBSET (Packages \X ReleaseNumbers), errors : SUBSET Packages]
        /\ lastCheck'.checked = FALSE
    BY <1>4 DEF RestartWatch
  <2>2. atCheck' \in [Packages -> SUBSET ((ReleaseNumbers \cup {NotInstalled}) \X ReleaseNumbers)]
    BY <1>4 DEF RestartWatch
  <2>3. QuietMeansCurrent'
    BY <2>1 DEF QuietMeansCurrent
  <2> QED
    BY <1>4, <2>1, <2>2, <2>3 DEF RestartWatch, WatchInv, WatchTypeOK, KeysAreTold, ToldOncePerKey
<1>5. CASE NextWatchDay
  <2>1. watchDay' \in 0 .. MaxDay
    BY <1>5, WatchAssumption DEF NextWatchDay, WatchInv, WatchTypeOK
  <2> QED
    BY <1>5, <2>1 DEF NextWatchDay, WatchInv, WatchTypeOK, KeysAreTold, ToldOncePerKey, QuietMeansCurrent
<1>6. CASE UNCHANGED watchVars
  BY <1>6 DEF watchVars, WatchInv, WatchTypeOK, KeysAreTold, ToldOncePerKey, QuietMeansCurrent
<1> QED
  BY <1>1, <1>2, <1>3, <1>4, <1>5, <1>6 DEF WatchNext

\* Nothing was told yet.
LEMMA WatchStarts == WatchInit => WatchInv
<1> SUFFICES ASSUME WatchInit PROVE WatchInv
  OBVIOUS
<1>1. WatchTypeOK
  BY WatchAssumption DEF WatchInit, WatchTypeOK, ReleaseNumbers, NotInstalled
<1> QED
  BY <1>1 DEF WatchInit, WatchInv, KeysAreTold, ToldOncePerKey, QuietMeansCurrent


-----------------------------------------------------------------------------
(* The entities' rows *)

EntRow == [id : Nat, team : Teams, key : Teams \X {"normal"}, by : Writers \cup {Committed}, open : BOOLEAN]

EntSteps == {"idle", "lookup", "insert", "reread", "unresolved", "between"}

EntJob == [step : EntSteps, todo : Seq(Teams \X Spellings), held : SUBSET Nat, kept : SUBSET Nat, began : Nat]

\* What a writer relies on: the row it inserted or met is there to be read again, what it holds is
\* committed or its own, and what it keeps no rollback of a later event takes away.
JobSees(w) ==
  /\ job[w].step \in {"insert", "reread"} => job[w].todo # <<>>
  /\ job[w].step = "reread" => \E r \in rows : r.key = Wanted(w) /\ r.by \in {Committed, w}
  /\ job[w].step # "unresolved"
  /\ \A i \in job[w].held : \E r \in rows : r.id = i /\ r.by \in {Committed, w}
  /\ \A i \in job[w].kept : \E r \in rows : r.id = i /\ (r.by = Committed \/ (r.by = w /\ ~r.open))

\* One row for a key, committed or not: the index makes the second insert wait.
RowsInv ==
  /\ inserts \in Nat
  /\ rows \subseteq EntRow
  /\ \A r \in rows : r.key = <<r.team, "normal">> /\ r.id \in 1 .. inserts
  /\ \A r, q \in rows : r.key = q.key => r = q
  /\ \A i \in referenced : \E r \in rows : r.id = i /\ r.by = Committed

EntityInv == RowsInv /\ job \in [Writers -> EntJob] /\ \A w \in Writers : JobSees(w)

\* The invariant holds the types and the one row of a team.
LEMMA EntityInvIsEnough == EntityInv => EntityTypeOK /\ TeamIsOneRow
<1> SUFFICES ASSUME EntityInv PROVE EntityTypeOK /\ TeamIsOneRow
  OBVIOUS
<1>1. EntityTypeOK
  BY DEF EntityInv, RowsInv, EntRow, EntJob, EntSteps, EntityTypeOK
<1>2. \A r, q \in rows : r.by = Committed /\ q.by = Committed /\ r.team = q.team => r = q
  BY DEF EntityInv, RowsInv
<1>3. \A w \in Writers : job[w].step # "unresolved"
  BY DEF EntityInv, JobSees
<1>4. referenced \subseteq {r.id : r \in {q \in rows : q.by = Committed}}
  BY DEF EntityInv, RowsInv
<1> QED
  BY <1>1, <1>2, <1>3, <1>4 DEF TeamIsOneRow

\* A step of one writer leaves the others what they rely on, if it leaves alone all rows but its own.
LEMMA OthersSeeTheirs ==
  ASSUME EntityInv, NEW w \in Writers, NEW v \in Writers, v # w,
         \A r \in rows : r.by # w => r \in rows', job'[v] = job[v]
  PROVE  JobSees(v)'
<1>1. JobSees(v) /\ Committed # w
  BY EntityAssumption DEF EntityInv
<1>2. \A r \in rows : r.by \in {Committed, v} => r \in rows'
  BY <1>1
<1>3. Wanted(v)' = Wanted(v)
  BY DEF Wanted
<1> QED
  BY <1>1, <1>2, <1>3 DEF JobSees

\* A row whose savepoint is released is the same row.
LEMMA ReleasedRow ==
  ASSUME NEW r \in EntRow
  PROVE  LET q == [r EXCEPT !.open = FALSE]
         IN  q \in EntRow /\ q.id = r.id /\ q.key = r.key /\ q.team = r.team /\ q.by = r.by /\ ~q.open
BY DEF EntRow

\* Committing a row changes whose it is and nothing else.
LEMMA CommittedRow ==
  ASSUME NEW r \in EntRow
  PROVE  LET q == [r EXCEPT !.by = Committed]
         IN  q \in EntRow /\ q.id = r.id /\ q.key = r.key /\ q.team = r.team /\ q.by = Committed
BY DEF EntRow


\* A writer goes on to another step.
LEMMA JobStep ==
  ASSUME NEW w \in Writers, job \in [Writers -> EntJob], NEW x \in EntSteps,
         job' = [job EXCEPT ![w].step = x]
  PROVE  /\ job'[w] = [step |-> x, todo |-> job[w].todo, held |-> job[w].held,
                      kept |-> job[w].kept, began |-> job[w].began]
         /\ job' \in [Writers -> EntJob]
         /\ \A v \in Writers : v # w => job'[v] = job[v]
<1> DEFINE new == [step |-> x, todo |-> job[w].todo, held |-> job[w].held,
                   kept |-> job[w].kept, began |-> job[w].began]
<1>1. job[w] \in EntJob
  OBVIOUS
<1>2. new \in EntJob
  BY <1>1 DEF EntJob
<1>3. job' = [job EXCEPT ![w] = new]
  <2>1. job' = [job EXCEPT ![w] = [job[w] EXCEPT !.step = x]]
    OBVIOUS
  <2>2. [job[w] EXCEPT !.step = x] = new
    BY <1>1 DEF EntJob
  <2> QED
    BY <2>1, <2>2
<1>4. job'[w] = new /\ job' \in [Writers -> EntJob] /\ \A v \in Writers : v # w => job'[v] = job[v]
  <2> HIDE DEF new
  <2> QED
    BY <1>2, <1>3
<1> QED
  BY <1>4

\* The name at the head is resolved: the row is held, which is committed or the writer's own.
LEMMA ResolveKeeps ==
  ASSUME EntityInv, NEW w \in Writers, job[w].todo # <<>>, rows' = rows,
         NEW r \in Visible(w, Wanted(w)), Resolve(w, r)
  PROVE  job' \in [Writers -> EntJob] /\ JobSees(w)' /\ \A v \in Writers : v # w => job'[v] = job[v]
<1>1. /\ job[w] \in EntJob /\ r \in rows /\ r \in EntRow /\ r.by \in {Committed, w} /\ JobSees(w)
      /\ r.id \in Nat
  BY DEF EntityInv, RowsInv, Visible, EntRow
<1> DEFINE new == [step |-> "lookup", todo |-> Tail(job[w].todo), held |-> job[w].held \cup {r.id},
                   kept |-> job[w].kept, began |-> job[w].began]
<1>2. job' = [job EXCEPT ![w] = new]
  BY <1>1 DEF Resolve, EntityInv, EntJob
<1>3. new \in EntJob
  BY <1>1 DEF EntJob, EntSteps
<1>4. job'[w] = new /\ job' \in [Writers -> EntJob] /\ \A v \in Writers : v # w => job'[v] = job[v]
  <2> HIDE DEF new
  <2> QED
    BY <1>2, <1>3 DEF EntityInv
<1>5. JobSees(w)'
  BY <1>1, <1>4 DEF JobSees
<1> QED
  BY <1>4, <1>5

\* A writer that begins keeps what it held.
LEMMA BegunJob ==
  ASSUME NEW q \in EntJob, NEW d, NEW x, NEW b,
         NEW p, p = [q EXCEPT !.todo = d, !.step = x, !.began = b]
  PROVE  p = [step |-> x, todo |-> d, held |-> q.held, kept |-> q.kept, began |-> b]
BY DEF EntJob

\* A writer begins an event with fresh teams to look up.
LEMMA BeginKeeps ==
  ASSUME EntityInv, NEW w \in Writers, BeginEvent(w) PROVE EntityInv'
<1>1. job \in [Writers -> EntJob] /\ job[w] \in EntJob /\ inserts \in Nat /\ JobSees(w)
  BY DEF EntityInv, RowsInv
<1> DEFINE b == IF job[w].step = "idle" THEN inserts ELSE job[w].began
           new(d) == [step |-> "lookup", todo |-> d, held |-> job[w].held,
                      kept |-> job[w].kept, began |-> b]
<1>2. ASSUME NEW d,
             job' = [job EXCEPT ![w].todo = d, ![w].step = "lookup",
                                ![w].began = IF job[w].step = "idle" THEN inserts ELSE @]
      PROVE  job' = [job EXCEPT ![w] = new(d)]
  <2>1. job' = [job EXCEPT ![w] = [job[w] EXCEPT !.todo = d, !.step = "lookup", !.began = b]]
    BY <1>1, <1>2
  <2>2. [job[w] EXCEPT !.todo = d, !.step = "lookup", !.began = b] = new(d)
    <3> HIDE DEF b
    <3> QED
      BY <1>1, BegunJob
  <2> HIDE DEF new
  <2> QED
    BY <2>1, <2>2
<1>3. PICK home \in Teams, away \in Teams, s \in Spellings, u \in Spellings :
        /\ home # away
        /\ job' = [job EXCEPT ![w].todo = <<<<home, s>>, <<away, u>>>>, ![w].step = "lookup",
                              ![w].began = IF job[w].step = "idle" THEN inserts ELSE @]
  BY Zenon DEF BeginEvent
<1> DEFINE d == <<<<home, s>>, <<away, u>>>>
<1>4. d \in Seq(Teams \X Spellings) /\ b \in Nat
  BY <1>1 DEF EntJob
<1>5. job' = [job EXCEPT ![w] = new(d)]
  <2>1. job' = [job EXCEPT ![w].todo = d, ![w].step = "lookup",
                           ![w].began = IF job[w].step = "idle" THEN inserts ELSE @]
    BY <1>3
  <2> HIDE DEF d, new
  <2> QED
    BY <1>2, <2>1
<1>6. new(d) \in EntJob
  <2> HIDE DEF d, b
  <2> QED
    BY <1>1, <1>4 DEF EntJob, EntSteps
<1>7. /\ new(d).step = "lookup" /\ new(d).held = job[w].held /\ new(d).kept = job[w].kept
  OBVIOUS
<1>8. job'[w] = new(d) /\ job' \in [Writers -> EntJob] /\ \A v \in Writers : v # w => job'[v] = job[v]
  <2> HIDE DEF new
  <2> QED
    BY <1>1, <1>5, <1>6
<1>9. UNCHANGED <<rows, referenced, inserts>>
  BY DEF BeginEvent
<1>10. JobSees(w)'
  <2> HIDE DEF new
  <2> QED
    BY <1>1, <1>7, <1>8, <1>9 DEF JobSees
<1>11. RowsInv'
  BY <1>9 DEF EntityInv, RowsInv
<1>12. \A v \in Writers : v # w => JobSees(v)'
  <2> HIDE DEF new
  <2> QED
    BY <1>8, <1>9, OthersSeeTheirs
<1> QED
  <2> HIDE DEF new
  <2> QED
    BY <1>8, <1>10, <1>11, <1>12 DEF EntityInv

\* A writer looks a name up, or reads again what another inserted before it.
LEMMA LookupKeeps ==
  ASSUME EntityInv, NEW w \in Writers, Lookup(w) \/ Reread(w) PROVE EntityInv'
<1>1. /\ job[w] \in EntJob /\ JobSees(w) /\ job[w].todo # <<>>
      /\ job[w].step \in {"lookup", "reread"}
      /\ UNCHANGED <<rows, referenced, inserts>>
  BY DEF EntityInv, JobSees, Lookup, Reread
<1>2. RowsInv'
  BY <1>1 DEF EntityInv, RowsInv
<1>3. SUFFICES /\ job' \in [Writers -> EntJob] /\ JobSees(w)'
               /\ \A v \in Writers : v # w => job'[v] = job[v]
  <2>1. ASSUME NEW v \in Writers, v # w, job'[v] = job[v] PROVE JobSees(v)'
    BY <1>1, <2>1, OthersSeeTheirs
  <2> QED
    BY <1>2, <2>1 DEF EntityInv
<1>4. CASE Visible(w, Wanted(w)) = {}
  <2>1. job[w].step # "reread"
    BY <1>1, <1>4 DEF JobSees, Visible
  <2>2. job' = [job EXCEPT ![w].step = "insert"]
    BY <1>4, <2>1 DEF Lookup, Reread
  <2> DEFINE new == [step |-> "insert", todo |-> job[w].todo, held |-> job[w].held,
                     kept |-> job[w].kept, began |-> job[w].began]
  <2>5. job'[w] = new /\ job' \in [Writers -> EntJob] /\ \A v \in Writers : v # w => job'[v] = job[v]
    BY <2>2, JobStep DEF EntityInv, EntSteps
  <2>6. JobSees(w)'
    BY <1>1, <2>5 DEF JobSees
  <2> QED
    BY <2>5, <2>6
<1>5. CASE Visible(w, Wanted(w)) # {}
  <2>1. PICK r \in Visible(w, Wanted(w)) : Resolve(w, r)
    BY <1>5 DEF Lookup, Reread
  <2> QED
    BY <1>1, <2>1, ResolveKeeps
<1> QED
  BY <1>4, <1>5

\* The insert: without a holder of the key the row is the writer's, with one nothing happens, and
\* either way there is a row to read again.
LEMMA InsertKeeps ==
  ASSUME EntityInv, NEW w \in Writers, Insert(w) PROVE EntityInv'
<1>1. /\ job[w] \in EntJob /\ JobSees(w) /\ job[w].todo # <<>> /\ RowsInv
      /\ job[w].todo \in Seq(Teams \X Spellings) /\ Head(job[w].todo) \in Teams \X Spellings
      /\ referenced' = referenced /\ job[w].step = "insert"
  BY DEF EntityInv, JobSees, Insert, EntJob
<1> DEFINE k == Wanted(w)
           new == [step |-> "reread", todo |-> job[w].todo, held |-> job[w].held,
                   kept |-> job[w].kept, began |-> job[w].began]
           added == [id |-> inserts + 1, team |-> Head(job[w].todo)[1], key |-> k, by |-> w, open |-> TRUE]
           holders == {r \in rows : r.key = k}
<1>2. k = <<Head(job[w].todo)[1], "normal">> /\ Head(job[w].todo)[1] \in Teams
  BY <1>1 DEF Wanted, Key
<1>3. job' = [job EXCEPT ![w].step = "reread"]
  BY DEF Insert
<1>5. job'[w] = new /\ job' \in [Writers -> EntJob] /\ \A v \in Writers : v # w => job'[v] = job[v]
  BY <1>3, JobStep DEF EntityInv, EntSteps
<1>6. /\ \A r \in holders : r.by \in {Committed, w}
      /\ IF holders # {} THEN UNCHANGED <<rows, inserts>>
         ELSE inserts' = inserts + 1 /\ rows' = rows \cup {added}
  BY DEF Insert
<1>7. k' = k
  BY <1>5 DEF Wanted
<1>8. added \in EntRow /\ added.key = k /\ added.by = w /\ added.id = inserts + 1 /\ added.team = Head(job[w].todo)[1]
  BY <1>1, <1>2 DEF EntRow, RowsInv
<1> HIDE DEF added, k
<1>9. RowsInv'
  <2>1. CASE holders # {}
    BY <1>1, <1>6, <2>1 DEF RowsInv
  <2>2. CASE holders = {}
    <3>1. inserts' \in Nat /\ rows' \subseteq EntRow
      BY <1>1, <1>6, <1>8, <2>2 DEF RowsInv
    <3>2. \A r \in rows' : r.key = <<r.team, "normal">> /\ r.id \in 1 .. inserts'
      BY <1>1, <1>2, <1>6, <1>8, <2>2 DEF RowsInv
    <3>3. \A r, q \in rows' : r.key = q.key => r = q
      BY <1>1, <1>6, <1>8, <2>2 DEF RowsInv
    <3>4. \A i \in referenced' : \E r \in rows' : r.id = i /\ r.by = Committed
      BY <1>1, <1>6, <2>2 DEF RowsInv
    <3> QED
      BY <3>1, <3>2, <3>3, <3>4 DEF RowsInv
  <2> QED
    BY <2>1, <2>2
<1>10. rows \subseteq rows' /\ \E r \in rows' : r.key = k /\ r.by \in {Committed, w}
  BY <1>6, <1>8
<1>11. JobSees(w)'
  BY <1>1, <1>5, <1>7, <1>10 DEF JobSees, k
<1>12. \A v \in Writers : v # w => JobSees(v)'
  BY <1>5, <1>10, OthersSeeTheirs
<1> QED
  BY <1>5, <1>9, <1>11, <1>12 DEF EntityInv


\* Any step of w that only rewrites its own rows: what is there for the others stays.
LEMMA OwnRowsOnly ==
  ASSUME EntityInv, NEW w \in Writers, RowsInv', job' \in [Writers -> EntJob], JobSees(w)',
         \A v \in Writers : v # w => job'[v] = job[v],
         \A r \in rows : r.by # w => r \in rows'
  PROVE  EntityInv'
<1>1. ASSUME NEW v \in Writers, v # w PROVE JobSees(v)'
  BY <1>1, OthersSeeTheirs
<1> QED
  BY <1>1 DEF EntityInv

\* The event's savepoint is released: its rows are kept, whatever later events meet.
LEMMA EndKeeps ==
  ASSUME EntityInv, NEW w \in Writers, EndEvent(w) PROVE EntityInv'
<1> DEFINE upd(r) == IF r.by = w THEN [r EXCEPT !.open = FALSE] ELSE r
           new == [step |-> "between", todo |-> job[w].todo, held |-> {},
                   kept |-> job[w].kept \cup job[w].held, began |-> job[w].began]
<1>1. /\ job \in [Writers -> EntJob] /\ job[w] \in EntJob /\ RowsInv /\ JobSees(w)
      /\ rows' = {upd(r) : r \in rows} /\ UNCHANGED <<referenced, inserts>>
  BY DEF EntityInv, EndEvent
<1>2. \A r \in rows : /\ upd(r) \in EntRow /\ upd(r).id = r.id /\ upd(r).key = r.key
                      /\ upd(r).team = r.team /\ upd(r).by = r.by
                      /\ (r.by = w => ~upd(r).open) /\ (r.by # w => upd(r) = r)
  BY <1>1, ReleasedRow DEF RowsInv
<1>3. job' = [job EXCEPT ![w] = new]
  <2>1. job' = [job EXCEPT ![w] = [job[w] EXCEPT !.step = "between", !.kept = job[w].kept \cup job[w].held,
                                                !.held = {}]]
    BY <1>1 DEF EndEvent
  <2>2. ASSUME NEW q \in EntJob,
               NEW p, p = [q EXCEPT !.step = "between", !.kept = q.kept \cup q.held, !.held = {}]
        PROVE  p = [step |-> "between", todo |-> q.todo, held |-> {}, kept |-> q.kept \cup q.held,
                    began |-> q.began]
    BY <2>2 DEF EntJob
  <2>3. [job[w] EXCEPT !.step = "between", !.kept = job[w].kept \cup job[w].held, !.held = {}] = new
    BY <1>1, <2>2
  <2> HIDE DEF new
  <2> QED
    BY <2>1, <2>3
<1>4. new \in EntJob
  BY <1>1 DEF EntJob, EntSteps
<1>5. job'[w] = new /\ job' \in [Writers -> EntJob] /\ \A v \in Writers : v # w => job'[v] = job[v]
  <2> HIDE DEF new
  <2> QED
    BY <1>1, <1>3, <1>4
<1> HIDE DEF upd
<1>6. RowsInv'
  <2>1. rows' \subseteq EntRow /\ inserts' \in Nat
    BY <1>1, <1>2 DEF RowsInv
  <2>2. \A r \in rows' : r.key = <<r.team, "normal">> /\ r.id \in 1 .. inserts'
    BY <1>1, <1>2 DEF RowsInv
  <2>3. \A r, q \in rows' : r.key = q.key => r = q
    BY <1>1, <1>2 DEF RowsInv
  <2>4. \A i \in referenced' : \E r \in rows' : r.id = i /\ r.by = Committed
    BY <1>1, <1>2 DEF RowsInv
  <2> QED
    BY <2>1, <2>2, <2>3, <2>4 DEF RowsInv
<1>7. \A i \in job[w].kept \cup job[w].held :
        \E r \in rows' : r.id = i /\ (r.by = Committed \/ (r.by = w /\ ~r.open))
  <2>1. \A i \in job[w].kept \cup job[w].held : \E r \in rows : r.id = i /\ r.by \in {Committed, w}
    BY <1>1 DEF JobSees
  <2> QED
    BY <1>1, <1>2, <2>1
<1>8. JobSees(w)'
  BY <1>5, <1>7 DEF JobSees
<1> QED
  BY <1>1, <1>2, <1>5, <1>6, <1>8, OwnRowsOnly

\* The event is rolled back: what it inserted goes, what was kept before it stays.
LEMMA SkipKeeps ==
  ASSUME EntityInv, NEW w \in Writers, SkipEvent(w) PROVE EntityInv'
<1> DEFINE new == [step |-> "between", todo |-> <<>>, held |-> {},
                   kept |-> job[w].kept, began |-> job[w].began]
<1>1. /\ job \in [Writers -> EntJob] /\ job[w] \in EntJob /\ RowsInv /\ JobSees(w)
      /\ rows' = {r \in rows : ~(r.by = w /\ r.open)} /\ UNCHANGED <<referenced, inserts>>
      /\ Committed # w
  BY EntityAssumption DEF EntityInv, SkipEvent
<1>2. rows' \subseteq rows /\ \A r \in rows : r.by # w => r \in rows'
  BY <1>1
<1>3. job' = [job EXCEPT ![w] = new]
  <2>1. job' = [job EXCEPT ![w] = [job[w] EXCEPT !.step = "between", !.todo = <<>>, !.held = {}]]
    BY <1>1 DEF SkipEvent
  <2>2. ASSUME NEW q \in EntJob, NEW p, p = [q EXCEPT !.step = "between", !.todo = <<>>, !.held = {}]
        PROVE  p = [step |-> "between", todo |-> <<>>, held |-> {}, kept |-> q.kept, began |-> q.began]
    BY <2>2 DEF EntJob
  <2>3. [job[w] EXCEPT !.step = "between", !.todo = <<>>, !.held = {}] = new
    BY <1>1, <2>2
  <2> HIDE DEF new
  <2> QED
    BY <2>1, <2>3
<1>4. new \in EntJob
  BY <1>1 DEF EntJob, EntSteps
<1>5. job'[w] = new /\ job' \in [Writers -> EntJob] /\ \A v \in Writers : v # w => job'[v] = job[v]
  <2> HIDE DEF new
  <2> QED
    BY <1>1, <1>3, <1>4
<1>6. RowsInv'
  BY <1>1, <1>2 DEF RowsInv
<1>7. \A i \in job[w].kept : \E r \in rows' : r.id = i /\ (r.by = Committed \/ (r.by = w /\ ~r.open))
  BY <1>1 DEF JobSees
<1>8. JobSees(w)'
  BY <1>5, <1>7 DEF JobSees
<1> QED
  BY <1>2, <1>5, <1>6, <1>8, OwnRowsOnly

\* The commit: the writer's rows are everybody's, and what it refers to is among them.
LEMMA CommitKeeps ==
  ASSUME EntityInv, NEW w \in Writers, CommitAll(w) PROVE EntityInv'
<1> DEFINE upd(r) == IF r.by = w THEN [r EXCEPT !.by = Committed] ELSE r
<1>1. /\ job \in [Writers -> EntJob] /\ job[w] \in EntJob /\ RowsInv /\ JobSees(w)
      /\ rows' = {upd(r) : r \in rows} /\ inserts' = inserts
      /\ referenced' = referenced \cup job[w].kept
      /\ job' = [job EXCEPT ![w] = Idle]
  BY DEF EntityInv, CommitAll
<1>2. \A r \in rows : /\ upd(r) \in EntRow /\ upd(r).id = r.id /\ upd(r).key = r.key
                      /\ upd(r).team = r.team
                      /\ (r.by = w => upd(r).by = Committed) /\ (r.by # w => upd(r) = r)
  BY <1>1, CommittedRow DEF RowsInv
<1>3. Idle \in EntJob /\ Idle.step = "idle" /\ Idle.held = {} /\ Idle.kept = {}
  BY DEF Idle, EntJob, EntSteps
<1>4. job'[w] = Idle /\ job' \in [Writers -> EntJob] /\ \A v \in Writers : v # w => job'[v] = job[v]
  BY <1>1, <1>3
<1> HIDE DEF upd
<1>5. RowsInv'
  <2>1. rows' \subseteq EntRow /\ inserts' \in Nat
    BY <1>1, <1>2 DEF RowsInv
  <2>2. \A r \in rows' : r.key = <<r.team, "normal">> /\ r.id \in 1 .. inserts'
    BY <1>1, <1>2 DEF RowsInv
  <2>3. \A r, q \in rows' : r.key = q.key => r = q
    BY <1>1, <1>2 DEF RowsInv
  <2>4. \A i \in referenced' : \E r \in rows : r.id = i /\ r.by \in {Committed, w}
    BY <1>1 DEF RowsInv, JobSees
  <2>5. \A i \in referenced' : \E r \in rows' : r.id = i /\ r.by = Committed
    BY <1>1, <1>2, <2>4
  <2> QED
    BY <2>1, <2>2, <2>3, <2>5 DEF RowsInv
<1>6. JobSees(w)'
  BY <1>3, <1>4 DEF JobSees
<1> QED
  BY <1>1, <1>2, <1>4, <1>5, <1>6, OwnRowsOnly

\* The transaction is lost with all it inserted: no row that others refer to is among them.
LEMMA LostKeeps ==
  ASSUME EntityInv, NEW w \in Writers, TransactionLost(w) PROVE EntityInv'
<1>1. /\ job \in [Writers -> EntJob] /\ RowsInv /\ Committed # w
      /\ rows' = {r \in rows : r.by # w} /\ UNCHANGED <<referenced, inserts>>
      /\ job' = [job EXCEPT ![w] = Idle]
  BY EntityAssumption DEF EntityInv, TransactionLost
<1>2. Idle \in EntJob /\ Idle.step = "idle" /\ Idle.held = {} /\ Idle.kept = {}
  BY DEF Idle, EntJob, EntSteps
<1>3. job'[w] = Idle /\ job' \in [Writers -> EntJob] /\ \A v \in Writers : v # w => job'[v] = job[v]
  BY <1>1, <1>2
<1>4. RowsInv'
  BY <1>1 DEF RowsInv
<1>5. JobSees(w)'
  BY <1>2, <1>3 DEF JobSees
<1> QED
  BY <1>1, <1>3, <1>4, <1>5, OwnRowsOnly

\* Every step of the writers keeps it.
LEMMA EntityKeepsInv == EntityInv /\ [EntityNext]_entityVars => EntityInv'
<1> SUFFICES ASSUME EntityInv, [EntityNext]_entityVars PROVE EntityInv'
  OBVIOUS
<1>1. CASE EntityNext
  BY <1>1, BeginKeeps, LookupKeeps, InsertKeeps, EndKeeps, SkipKeeps, CommitKeeps, LostKeeps DEF EntityNext
<1>2. CASE UNCHANGED entityVars
  BY <1>2 DEF EntityInv, RowsInv, JobSees, Wanted, entityVars
<1> QED
  BY <1>1, <1>2

\* No row is there and nobody writes.
LEMMA EntityStarts == EntityInit => EntityInv
<1>1. Idle \in EntJob /\ Idle.step = "idle" /\ Idle.held = {} /\ Idle.kept = {}
  BY DEF Idle, EntJob, EntSteps
<1> SUFFICES ASSUME EntityInit PROVE EntityInv
  OBVIOUS
<1>2. RowsInv
  BY DEF EntityInit, RowsInv
<1>3. job \in [Writers -> EntJob] /\ \A w \in Writers : job[w] = Idle
  BY <1>1 DEF EntityInit
<1>4. \A w \in Writers : JobSees(w)
  BY <1>1, <1>3 DEF JobSees
<1> QED
  BY <1>2, <1>3, <1>4 DEF EntityInv


-----------------------------------------------------------------------------
(* The schema *)

\* The rows of a warehouse that the record of strategies rests on: version ids are a key, and
\* every pick has its version.
DbInv(d) ==
  /\ d = [versions |-> d.versions, picks |-> d.picks, leagues |-> d.leagues, starts |-> d.starts,
          markets |-> d.markets]
  /\ d.versions \subseteq [id : 1 .. MaxVersions, sport : SportIds, strategy : StrategyIds]
  /\ d.picks \subseteq [event : EventIds, version : 1 .. MaxVersions, tier : {"premium", "volume"}]
  /\ \A u, v \in d.versions : u.id = v.id => u = v
  /\ \A p \in d.picks : \E v \in d.versions : v.id = p.version

\* The warehouse holds a pick of the event under the strategy.
Tells(d, e, s) ==
  \E p \in d.picks : p.event = e /\ \E v \in d.versions : v.id = p.version /\ v.strategy = s

SchemaInv ==
  /\ revision \in 0 .. Latest
  /\ DbInv(db)
  /\ minted \subseteq [event : EventIds, strategy : StrategyIds]
  /\ \A e \in EventIds, s \in StrategyIds : Tells(db, e, s) <=> [event |-> e, strategy |-> s] \in minted

\* A warehouse that tells the same of every strategy.
SameRecord(c, d) ==
  DbInv(d) /\ \A e \in EventIds, s \in StrategyIds : Tells(d, e, s) <=> Tells(c, e, s)

\* A pick's version row is one row.
LEMMA VersionedIs ==
  ASSUME NEW d, DbInv(d), NEW p \in d.picks, NEW v \in d.versions, v.id = p.version
  PROVE  Versioned(d, p) = v
<1>1. Versioned(d, p) \in d.versions /\ Versioned(d, p).id = p.version
  BY DEF Versioned
<1> QED
  BY <1>1 DEF DbInv

\* The invariant holds the types and every pick's own version.
LEMMA SchemaInvIsEnough == SchemaInv => SchemaTypeOK /\ PicksKeepTheirVersion
<1> SUFFICES ASSUME SchemaInv PROVE SchemaTypeOK /\ PicksKeepTheirVersion
  OBVIOUS
<1>1. SchemaTypeOK
  BY DEF SchemaInv, DbInv, SchemaTypeOK
<1>2. ASSUME NEW p \in db.picks
      PROVE  /\ p.event \in EventIds
             /\ \E s \in StrategyIds : s = Versioned(db, p).strategy /\ Tells(db, p.event, s)
  <2>1. PICK v \in db.versions : v.id = p.version
    BY DEF SchemaInv, DbInv
  <2>2. Versioned(db, p) = v
    BY <2>1, VersionedIs DEF SchemaInv
  <2> QED
    BY <2>1, <2>2 DEF SchemaInv, DbInv, Tells
<1>3. ASSUME NEW m \in minted
      PROVE  \E p \in db.picks : p.event = m.event /\ Versioned(db, p).strategy = m.strategy
  <2>1. m.event \in EventIds /\ m.strategy \in StrategyIds /\ m = [event |-> m.event, strategy |-> m.strategy]
    BY DEF SchemaInv
  <2>2. PICK p \in db.picks : p.event = m.event /\ \E v \in db.versions : v.id = p.version /\ v.strategy = m.strategy
    BY <2>1 DEF SchemaInv, Tells
  <2> QED
    BY <2>2, VersionedIs DEF SchemaInv
<1>4. ASSUME NEW p \in db.picks
      PROVE  \E m \in minted : m.event = p.event /\ m.strategy = Versioned(db, p).strategy
  <2>1. PICK s \in StrategyIds : s = Versioned(db, p).strategy /\ Tells(db, p.event, s)
    BY <1>2
  <2>2. [event |-> p.event, strategy |-> s] \in minted
    BY <1>2, <2>1 DEF SchemaInv
  <2> QED
    BY <2>1, <2>2
<1>5. PicksKeepTheirVersion
  <2> DEFINE there == {<<p.event, Versioned(db, p).strategy>> : p \in db.picks}
             known == {<<m.event, m.strategy>> : m \in minted}
  <2>1. there \subseteq known
    BY <1>4
  <2>2. known \subseteq there
    BY <1>3
  <2> QED
    BY <2>1, <2>2 DEF PicksKeepTheirVersion
<1> QED
  BY <1>1, <1>5

\* The lowest id of a strategy's rows is the id of one of them, and the same from each of them.
LEMMA KeepIdIs ==
  ASSUME NEW d, DbInv(d), NEW v \in d.versions
  PROVE  \E k \in d.versions : /\ k.id = KeepId(d, v) /\ k.strategy = v.strategy
                               /\ KeepId(d, k) = KeepId(d, v)
<1> DEFINE alike == {x.id : x \in {y \in d.versions : y.strategy = v.strategy}}
<1>1. alike \subseteq Nat /\ v.id \in alike
  BY SchemaAssumption DEF DbInv
<1>2. \E i \in alike : \A x \in alike : i <= x
  <2> HIDE DEF alike
  <2> QED
    BY <1>1, LeastNumber
<1>3. KeepId(d, v) \in alike
  BY <1>2 DEF KeepId
<1>4. PICK k \in d.versions : k.strategy = v.strategy /\ k.id = KeepId(d, v)
  BY <1>3
<1>5. KeepId(d, k) = KeepId(d, v)
  BY <1>4 DEF KeepId
<1> QED
  BY <1>4, <1>5

\* The references follow the row of the same strategy, so nothing changes hands.
LEMMA CoalesceKeeps ==
  ASSUME NEW d, DbInv(d), NEW c \in CoalesceDown(d) PROVE SameRecord(d, c)
<1> DEFINE moved(p) == [p EXCEPT !.version = KeepId(d, Versioned(d, p))]
           kept == {v \in d.versions : v.id = KeepId(d, v)}
           follow == {moved(p) : p \in d.picks}
<1>1. c = [d EXCEPT !.picks = follow, !.versions = kept]
  BY DEF CoalesceDown
<1>2. /\ c.versions = kept /\ c.picks = follow
      /\ c = [versions |-> c.versions, picks |-> c.picks, leagues |-> c.leagues, starts |-> c.starts,
              markets |-> c.markets]
  <2> HIDE DEF kept, follow
  <2> QED
    BY <1>1 DEF DbInv
<1>3. ASSUME NEW p \in d.picks, NEW v \in d.versions, v.id = p.version
      PROVE  /\ \E k \in kept : k.id = moved(p).version /\ k.strategy = v.strategy
             /\ moved(p) \in [event : EventIds, version : 1 .. MaxVersions, tier : {"premium", "volume"}]
             /\ moved(p).event = p.event
  <2>1. Versioned(d, p) = v
    BY <1>3, VersionedIs
  <2>2. PICK k \in d.versions : k.id = KeepId(d, v) /\ k.strategy = v.strategy /\ KeepId(d, k) = KeepId(d, v)
    BY KeepIdIs
  <2>3. k \in kept
    BY <2>2
  <2>4. /\ p \in [event : EventIds, version : 1 .. MaxVersions, tier : {"premium", "volume"}]
        /\ k.id \in 1 .. MaxVersions
    BY DEF DbInv
  <2>5. moved(p) = [event |-> p.event, version |-> k.id, tier |-> p.tier]
    BY <2>1, <2>2, <2>4
  <2> QED
    BY <2>2, <2>3, <2>4, <2>5
<1>4. \A p \in d.picks : \E v \in d.versions : v.id = p.version
  BY DEF DbInv
<1> HIDE DEF moved
<1>5. DbInv(c)
  <2>1. c.versions \subseteq d.versions
    BY <1>2
  <2>2. \A q \in c.picks : /\ q \in [event : EventIds, version : 1 .. MaxVersions, tier : {"premium", "volume"}]
                           /\ \E k \in c.versions : k.id = q.version
    BY <1>2, <1>3, <1>4
  <2> QED
    BY <1>2, <2>1, <2>2 DEF DbInv
<1>6. ASSUME NEW e \in EventIds, NEW s \in StrategyIds, Tells(d, e, s) PROVE Tells(c, e, s)
  BY <1>2, <1>3, <1>6 DEF Tells
<1>7. ASSUME NEW e \in EventIds, NEW s \in StrategyIds, Tells(c, e, s) PROVE Tells(d, e, s)
  <2>1. PICK p \in d.picks, u \in kept : moved(p).event = e /\ u.id = moved(p).version /\ u.strategy = s
    BY <1>2, <1>7 DEF Tells
  <2>2. PICK v \in d.versions : v.id = p.version
    BY <1>4
  <2>3. PICK k \in kept : k.id = moved(p).version /\ k.strategy = v.strategy
    BY <1>3, <2>2
  <2>4. u = k
    BY <2>1, <2>3 DEF DbInv
  <2> QED
    BY <1>3, <2>1, <2>2, <2>3, <2>4 DEF Tells
<1> QED
  BY <1>5, <1>6, <1>7 DEF SameRecord


\* The other revisions touch neither the versions nor what a pick refers to.
LEMMA SameVersionsKeep ==
  ASSUME NEW c, NEW d, DbInv(c), c.versions = d.versions, c.picks = d.picks,
         d = [versions |-> d.versions, picks |-> d.picks, leagues |-> d.leagues, starts |-> d.starts,
              markets |-> d.markets]
  PROVE  SameRecord(c, d)
BY DEF DbInv, SameRecord, Tells

\* The migration that splits the tiers leaves every pick its version (c1f4, upgrade).
LEMMA TierKeeps ==
  ASSUME NEW d, DbInv(d), NEW c \in TierUp(d) PROVE SameRecord(d, c)
<1> DEFINE tiered(p) == [p EXCEPT !.tier = "premium"]
           all == {tiered(p) : p \in d.picks}
<1>1. c = [d EXCEPT !.picks = all]
  BY DEF TierUp
<1>2. /\ c.versions = d.versions /\ c.picks = all
      /\ c = [versions |-> c.versions, picks |-> c.picks, leagues |-> c.leagues, starts |-> c.starts,
              markets |-> c.markets]
  <2> HIDE DEF all
  <2> QED
    BY <1>1 DEF DbInv
<1>3. \A p \in d.picks :
        /\ tiered(p) \in [event : EventIds, version : 1 .. MaxVersions, tier : {"premium", "volume"}]
        /\ tiered(p).event = p.event /\ tiered(p).version = p.version
  BY DEF DbInv
<1> HIDE DEF tiered
<1>4. DbInv(c)
  BY <1>2, <1>3 DEF DbInv
<1>5. \A e \in EventIds, s \in StrategyIds : Tells(c, e, s) <=> Tells(d, e, s)
  BY <1>2, <1>3 DEF Tells
<1> QED
  BY <1>4, <1>5 DEF SameRecord

\* A revision, in either direction, tells the same of every strategy.
LEMMA RevisionKeeps ==
  ASSUME NEW r, NEW d, DbInv(d), NEW c \in Up(r, d) \cup Down(r, d) PROVE SameRecord(d, c)
<1>1. CASE c = d
  BY <1>1, SameVersionsKeep DEF DbInv
<1>2. CASE c \in TierUp(d)
  BY <1>2, TierKeeps
<1>3. CASE c \in CoalesceDown(d)
  BY <1>3, CoalesceKeeps
<1>4. CASE c \in CountryUp(d) \cup MarketDown(d) \cup StartsDown(d)
  <2>1. \/ \E x : c = [d EXCEPT !.leagues = x]
        \/ \E x : c = [d EXCEPT !.markets = x]
        \/ \E x : c = [d EXCEPT !.starts = x]
    BY <1>4, Zenon DEF CountryUp, MarketDown, StartsDown
  <2>2. /\ c.versions = d.versions /\ c.picks = d.picks
        /\ c = [versions |-> c.versions, picks |-> c.picks, leagues |-> c.leagues, starts |-> c.starts,
                markets |-> c.markets]
    BY <2>1 DEF DbInv
  <2> QED
    BY <2>2, SameVersionsKeep
<1> QED
  BY <1>1, <1>2, <1>3, <1>4 DEF Up, Down

\* All that a command may leave tells the same, revision by revision.
LEMMA PassKeeps ==
  ASSUME NEW found, \A d \in found : SameRecord(db, d), NEW r
  PROVE  /\ \A c \in Rise(r, found) : SameRecord(db, c)
         /\ \A c \in Fall(r, found) : SameRecord(db, c)
<1>1. ASSUME NEW d \in found, NEW c \in Up(r, d) \cup Down(r, d) PROVE SameRecord(db, c)
  <2>1. SameRecord(db, d) /\ SameRecord(d, c)
    BY RevisionKeeps DEF SameRecord
  <2> QED
    BY <2>1 DEF SameRecord
<1> QED
  BY <1>1 DEF Rise, Fall, Applied

\* So does any run of migrations, up or down.
LEMMA CommandKeeps ==
  ASSUME SchemaInv, NEW from, NEW to, NEW c \in Raised(from, to) \cup Lowered(from, to)
  PROVE  SameRecord(db, c)
<1> DEFINE Good(found) == \A d \in found : SameRecord(db, d)
           up(r, found) == IF r \in (from + 1) .. to THEN Rise(r, found) ELSE found
           down(r, found) == IF r \in (to + 1) .. from THEN Fall(r, found) ELSE found
<1>1. Good({db})
  BY SameVersionsKeep DEF SchemaInv, DbInv
<1>2. ASSUME NEW r, NEW found, Good(found) PROVE Good(up(r, found)) /\ Good(down(r, found))
  BY <1>2, PassKeeps
<1> HIDE DEF Good, up, down
<1>3. Good(up(CountryInKey, up(WideMarket, up(Coalesce, up(SportInKey, up(PickTier, up(NullableStart, {db})))))))
  BY <1>1, <1>2
<1>4. Good(down(NullableStart, down(PickTier, down(SportInKey, down(Coalesce, down(WideMarket, down(CountryInKey, {db})))))))
  BY <1>1, <1>2
<1> USE DEF up, down
<1>5. Good(Raised(from, to)) /\ Good(Lowered(from, to))
  <2> USE DEF Raised, Lowered
  <2> QED
    BY <1>3, <1>4, Zenon
<1> QED
  BY <1>5 DEF Good

\* An upgrade or a downgrade command keeps the invariant.
LEMMA MigrateKeeps ==
  ASSUME SchemaInv, Upgrade \/ Downgrade PROVE SchemaInv'
<1>0. PICK to \in 0 .. Latest : Migrate(to, Raised(revision, to)) \/ Migrate(to, Lowered(revision, to))
  BY DEF Upgrade, Downgrade, SchemaInv, Latest
<1>1. PICK found : /\ Migrate(to, found)
                   /\ \A c \in found : c \in Raised(revision, to) \cup Lowered(revision, to)
  BY <1>0
<1>2. minted' = minted
  BY <1>1 DEF Migrate
<1>3. CASE UNCHANGED <<revision, db>>
  BY <1>2, <1>3 DEF SchemaInv, DbInv, Tells
<1>4. CASE revision' = to /\ db' \in found
  <2>1. SameRecord(db, db')
    BY <1>1, <1>4, CommandKeeps
  <2> QED
    BY <1>2, <1>4, <2>1 DEF SchemaInv, SameRecord
<1> QED
  BY <1>1, <1>3, <1>4 DEF Migrate


\* The version a pick is minted under is the sport's own row of the strategy, and no row changes hands.
LEMMA VersionsGrow ==
  ASSUME SchemaInv, NEW sport \in SportIds, NEW s \in StrategyIds, NEW versions \in VersionsWith(sport, s)
  PROVE  /\ db.versions \subseteq versions
         /\ versions \subseteq [id : 1 .. MaxVersions, sport : SportIds, strategy : StrategyIds]
         /\ \A u, v \in versions : u.id = v.id => u = v
         /\ \E v \in versions : v.sport = sport /\ v.strategy = s
<1>1. /\ db.versions \subseteq [id : 1 .. MaxVersions, sport : SportIds, strategy : StrategyIds]
      /\ \A u, v \in db.versions : u.id = v.id => u = v
  BY DEF SchemaInv, DbInv
<1>2. CASE \E v \in db.versions : v.sport = sport /\ v.strategy = s
  BY <1>1, <1>2 DEF VersionsWith
<1>3. CASE ~\E v \in db.versions : v.sport = sport /\ v.strategy = s
  <2>1. PICK i \in 1 .. MaxVersions : /\ \A v \in db.versions : v.id # i
                                      /\ versions = db.versions \cup {[id |-> i, sport |-> sport, strategy |-> s]}
    BY <1>3 DEF VersionsWith
  <2> DEFINE added == [id |-> i, sport |-> sport, strategy |-> s]
  <2>2. /\ added \in [id : 1 .. MaxVersions, sport : SportIds, strategy : StrategyIds]
        /\ added.id = i /\ added.sport = sport /\ added.strategy = s
    OBVIOUS
  <2>3. versions = db.versions \cup {added}
    BY <2>1
  <2> HIDE DEF added
  <2>4. \A u, v \in versions : u.id = v.id => u = v
    BY <1>1, <2>1, <2>2, <2>3
  <2> QED
    BY <1>1, <2>2, <2>3, <2>4
<1> QED
  BY <1>2, <1>3

\* So does minting a pick under a version found or made for it.
LEMMA MintKeeps ==
  ASSUME SchemaInv, NEW e \in EventIds, NEW s \in StrategyIds, NEW tier \in {"premium", "volume"},
         Mint(e, s, tier)
  PROVE  SchemaInv'
<1>1. PICK versions \in VersionsWith(Fixture[e], s) :
        LET v == CHOOSE x \in versions : x.sport = Fixture[e] /\ x.strategy = s
        IN  db' = [db EXCEPT !.versions = versions,
                             !.picks = @ \cup {[event |-> e, version |-> v.id, tier |-> tier]}]
  BY DEF Mint
<1> DEFINE v == CHOOSE x \in versions : x.sport = Fixture[e] /\ x.strategy = s
           pick == [event |-> e, version |-> v.id, tier |-> tier]
           picked == db.picks \cup {pick}
<1>2. /\ db.versions \subseteq versions
      /\ versions \subseteq [id : 1 .. MaxVersions, sport : SportIds, strategy : StrategyIds]
      /\ \A u, w \in versions : u.id = w.id => u = w
      /\ \E x \in versions : x.sport = Fixture[e] /\ x.strategy = s
  BY VersionsGrow DEF SportIds
<1>3. v \in versions /\ v.strategy = s /\ v.id \in 1 .. MaxVersions
  <2>1. v \in versions /\ v.strategy = s
    BY <1>2
  <2> QED
    BY <1>2, <2>1
<1>4. db' = [db EXCEPT !.versions = versions, !.picks = picked]
  BY <1>1
<1> HIDE DEF v
<1>5. /\ pick \in [event : EventIds, version : 1 .. MaxVersions, tier : {"premium", "volume"}]
      /\ pick.event = e /\ pick.version = v.id
  BY <1>3
<1> HIDE DEF pick
<1>6. /\ db'.versions = versions /\ db'.picks = picked
      /\ db' = [versions |-> db'.versions, picks |-> db'.picks, leagues |-> db'.leagues,
                starts |-> db'.starts, markets |-> db'.markets]
  <2> HIDE DEF picked
  <2> QED
    BY <1>4 DEF SchemaInv, DbInv
<1>7. DbInv(db)'
  BY <1>2, <1>3, <1>5, <1>6 DEF SchemaInv, DbInv
<1>8. ASSUME NEW f \in EventIds, NEW t \in StrategyIds
      PROVE  Tells(db, f, t)' <=> Tells(db, f, t) \/ (f = e /\ t = s)
  <2>1. ASSUME Tells(db, f, t) PROVE Tells(db, f, t)'
    BY <1>2, <1>6, <2>1 DEF Tells
  <2>2. ASSUME f = e, t = s PROVE Tells(db, f, t)'
    BY <1>3, <1>5, <1>6, <2>2 DEF Tells
  <2>3. ASSUME Tells(db, f, t)' PROVE Tells(db, f, t) \/ (f = e /\ t = s)
    <3>1. PICK p \in picked, w \in versions : p.event = f /\ w.id = p.version /\ w.strategy = t
      BY <1>6, <2>3 DEF Tells
    <3>2. CASE p = pick
      BY <1>2, <1>3, <1>5, <3>1, <3>2
    <3>3. CASE p \in db.picks
      <4>1. PICK u \in db.versions : u.id = p.version
        BY <3>3 DEF SchemaInv, DbInv
      <4>2. u = w
        BY <1>2, <3>1, <4>1
      <4> QED
        BY <3>1, <3>3, <4>1, <4>2 DEF Tells
    <3> QED
      BY <3>1, <3>2, <3>3
  <2> QED
    BY <2>1, <2>2, <2>3
<1>9. minted' = minted \cup {[event |-> e, strategy |-> s]} /\ revision' = revision
  BY DEF Mint
<1>10. \A f \in EventIds, t \in StrategyIds :
         [event |-> f, strategy |-> t] = [event |-> e, strategy |-> s] <=> f = e /\ t = s
  OBVIOUS
<1> QED
  BY <1>7, <1>8, <1>9, <1>10 DEF SchemaInv

\* Every step on the database keeps it.
LEMMA SchemaKeepsInv == SchemaInv /\ [SchemaNext]_schemaVars => SchemaInv'
<1> SUFFICES ASSUME SchemaInv, [SchemaNext]_schemaVars PROVE SchemaInv'
  OBVIOUS
<1>1. CASE Upgrade \/ Downgrade
  BY <1>1, MigrateKeeps
<1>2. CASE \E e \in EventIds, s \in StrategyIds, tier \in {"premium", "volume"} : Mint(e, s, tier)
  BY <1>2, MintKeeps
<1>3. CASE \/ \E c \in Countries : SeeLeague(c)
           \/ \E k \in MarketKeys : Snapshot(k)
           \/ \E e \in EventIds : LearnKickoff(e)
  <2>1. \/ \E x : db' = [db EXCEPT !.leagues = x]
        \/ \E x : db' = [db EXCEPT !.markets = x]
        \/ \E x : db' = [db EXCEPT !.starts = x]
    <3>1. ASSUME NEW c, SeeLeague(c) PROVE \E x : db' = [db EXCEPT !.leagues = x]
      BY <3>1, Zenon DEF SeeLeague
    <3>2. ASSUME NEW k, Snapshot(k) PROVE \E x : db' = [db EXCEPT !.markets = x]
      BY <3>2, Zenon DEF Snapshot
    <3>3. ASSUME NEW e, LearnKickoff(e) PROVE \E x : db' = [db EXCEPT !.starts = x]
      BY <3>3, Zenon DEF LearnKickoff
    <3> QED
      BY <1>3, <3>1, <3>2, <3>3
  <2>2. UNCHANGED <<revision, minted>>
    BY <1>3 DEF SeeLeague, Snapshot, LearnKickoff
  <2>3. /\ db'.versions = db.versions /\ db'.picks = db.picks
        /\ db' = [versions |-> db'.versions, picks |-> db'.picks, leagues |-> db'.leagues,
                  starts |-> db'.starts, markets |-> db'.markets]
    BY <2>1 DEF SchemaInv, DbInv
  <2>4. SameRecord(db, db')
    BY <2>3, SameVersionsKeep DEF SchemaInv
  <2> QED
    BY <2>2, <2>4 DEF SchemaInv, SameRecord
<1>4. CASE UNCHANGED schemaVars
  BY <1>4 DEF SchemaInv, DbInv, Tells, schemaVars
<1> QED
  BY <1>1, <1>2, <1>3, <1>4 DEF SchemaNext

\* The first database is in order.
LEMMA SchemaStarts == SchemaInit => SchemaInv
<1> SUFFICES ASSUME SchemaInit PROVE SchemaInv
  OBVIOUS
<1>1. PICK s \in StrategyIds, sport \in SportIds, old \in SUBSET EventIds, c \in Countries :
        /\ db = [versions |-> {[id |-> 1, sport |-> sport, strategy |-> s]},
                 picks |-> {[event |-> e, version |-> 1, tier |-> "premium"] : e \in old},
                 leagues |-> {[country |-> IF c = "" THEN None ELSE {c}]},
                 starts |-> [e \in EventIds |-> IF e \in old THEN Placeholder ELSE Real],
                 markets |-> {}]
        /\ minted = {[event |-> e, strategy |-> s] : e \in old}
  BY DEF SchemaInit
<1>2. /\ db.versions = {[id |-> 1, sport |-> sport, strategy |-> s]}
      /\ db.picks = {[event |-> e, version |-> 1, tier |-> "premium"] : e \in old}
      /\ db = [versions |-> db.versions, picks |-> db.picks, leagues |-> db.leagues,
               starts |-> db.starts, markets |-> db.markets]
  BY <1>1
<1>3. 1 \in 1 .. MaxVersions
  BY SchemaAssumption
<1>4. DbInv(db)
  BY <1>2, <1>3 DEF DbInv
<1>5. ASSUME NEW e \in EventIds, NEW t \in StrategyIds PROVE Tells(db, e, t) <=> e \in old /\ t = s
  <2>1. ASSUME Tells(db, e, t) PROVE e \in old /\ t = s
    BY <1>2, <2>1 DEF Tells
  <2>2. ASSUME e \in old, t = s PROVE Tells(db, e, t)
    <3>1. [event |-> e, version |-> 1, tier |-> "premium"] \in db.picks
      BY <1>2, <2>2
    <3>2. [id |-> 1, sport |-> sport, strategy |-> s] \in db.versions
      BY <1>2
    <3> QED
      BY <2>2, <3>1, <3>2 DEF Tells
  <2> QED
    BY <2>1, <2>2
<1>6. \A e \in EventIds, t \in StrategyIds : [event |-> e, strategy |-> t] \in minted <=> e \in old /\ t = s
  BY <1>1
<1>7. minted \subseteq [event : EventIds, strategy : StrategyIds]
  <2>1. \A e \in old : [event |-> e, strategy |-> s] \in [event : EventIds, strategy : StrategyIds]
    OBVIOUS
  <2> QED
    BY <1>1, <2>1
<1>8. revision \in 0 .. Latest
  <2>1. revision = 0
    BY Zenon DEF SchemaInit
  <2> QED
    BY <2>1 DEF Latest
<1> QED
  BY <1>4, <1>5, <1>6, <1>7, <1>8 DEF SchemaInv


-----------------------------------------------------------------------------
(* The coverage reports: whatever was stored when, for any fixtures and picks. *)

CoverageInv == CoverageTypeOK /\ DOMAIN seenAt = Matches

\* Fixtures, picks and rows come and go within their types.
LEMMA CoverageKeepsInv == CoverageInv /\ [CoverageNext]_coverageVars => CoverageInv'
<1> SUFFICES ASSUME CoverageInv, [CoverageNext]_coverageVars PROVE CoverageInv'
  OBVIOUS
<1>0. tick \in 0 .. LastTick /\ LastTick \in Nat
  BY CoverageAssumption DEF CoverageInv, CoverageTypeOK
<1>1. ASSUME NEW m \in Matches, NEW moved, StoreRows(m, moved) PROVE CoverageInv'
  <2> DEFINE new == [r \in RowKeys(m) |-> IF r \in moved THEN {tick} ELSE seenAt[m][r]]
  <2>1. seenAt' = [seenAt EXCEPT ![m] = new]
    BY <1>1 DEF StoreRows
  <2>2. tick \in 0 .. StartsAt[m] /\ UNCHANGED <<tick, archived>>
    BY <1>0, <1>1 DEF StoreRows
  <2>3. Cardinality({tick}) = 1
    BY FS_Singleton, Zenon
  <2>4. \A r \in RowKeys(m) : new[r] \subseteq 0 .. StartsAt[m] /\ Cardinality(new[r]) <= 1
    BY <2>2, <2>3 DEF CoverageInv, CoverageTypeOK
  <2>5. DOMAIN seenAt' = Matches /\ \A k \in Matches : seenAt'[k] = IF k = m THEN new ELSE seenAt[k]
    <3> HIDE DEF new
    <3> QED
      BY <2>1 DEF CoverageInv
  <2> HIDE DEF new
  <2>6. \A k \in Matches : \A r \in RowKeys(k) :
          seenAt'[k][r] \subseteq 0 .. StartsAt[k] /\ Cardinality(seenAt'[k][r]) <= 1
    BY <2>4, <2>5 DEF CoverageInv, CoverageTypeOK
  <2> QED
    BY <2>2, <2>5, <2>6 DEF CoverageInv, CoverageTypeOK
<1>2. ASSUME NEW g \in ArchiveGames, ArcadiaLists(g) PROVE CoverageInv'
  BY <1>2 DEF ArcadiaLists, CoverageInv, CoverageTypeOK
<1>3. CASE HourGoes
  <2>1. tick' \in 0 .. LastTick /\ UNCHANGED <<seenAt, archived>>
    BY <1>0, <1>3 DEF HourGoes
  <2> QED
    BY <2>1 DEF CoverageInv, CoverageTypeOK
<1>4. CASE UNCHANGED coverageVars
  BY <1>4 DEF CoverageInv, CoverageTypeOK, coverageVars
<1> QED
  BY <1>1, <1>2, <1>3, <1>4 DEF CoverageNext

\* Nothing is archived yet.
LEMMA CoverageStarts == CoverageInit => CoverageInv
<1> SUFFICES ASSUME CoverageInit PROVE CoverageInv
  OBVIOUS
<1>1. Cardinality({}) = 0 /\ 0 \in 0 .. LastTick
  BY FS_EmptySet, CoverageAssumption
<1> QED
  BY <1>1 DEF CoverageInit, CoverageInv, CoverageTypeOK

\* The winner's market has no more selections than make it wide, and in the two counted sports exactly
\* as many.
LEMMA MoneylineIsWide ==
  ASSUME NEW m
  PROVE  /\ IsFiniteSet(Moneyline(m)) /\ Cardinality(Moneyline(m)) <= Wide(m)
         /\ Wide(m) \in Nat
         /\ Base(m) \in Bases => Cardinality(Moneyline(m)) = Wide(m)
<1> DEFINE side(i) == <<"exchange", "moneyline", i>>
           One == {} \cup {side(1)}
           Two == One \cup {side(2)}
           Three == Two \cup {side(3)}
<1>0. side(2) \notin One /\ side(3) \notin Two
  OBVIOUS
<1>1. Three = {side(i) : i \in 1..3} /\ Two = {side(i) : i \in 1..2}
  OBVIOUS
<1>2. IsFiniteSet(One) /\ Cardinality(One) = 1
  <2> HIDE DEF side
  <2> QED
    BY FS_EmptySet, FS_AddElement
<1> HIDE DEF One
<1>3. IsFiniteSet(Two) /\ Cardinality(Two) = 2
  <2> HIDE DEF side
  <2> QED
    BY <1>0, <1>2, FS_AddElement
<1> HIDE DEF Two
<1>4. IsFiniteSet(Three) /\ Cardinality(Three) = 3
  <2> HIDE DEF side
  <2> QED
    BY <1>0, <1>3, FS_AddElement
<1> HIDE DEF Three
<1>5. CASE Base(m) = "soccer"
  <2>1. Moneyline(m) = Three /\ Wide(m) = 3
    BY <1>1, <1>5 DEF Moneyline, Wide
  <2> QED
    BY <1>4, <2>1
<1>6. CASE Base(m) # "soccer"
  <2>1. Moneyline(m) = Two /\ Wide(m) \in {2, 3} /\ (Base(m) \in Bases => Wide(m) = 2)
    BY <1>1, <1>6 DEF Moneyline, Wide, Bases
  <2> QED
    BY <1>3, <2>1
<1> QED
  BY <1>5, <1>6

\* A usable close has the whole of the winner's market.
LEMMA CloseIsWhole ==
  ASSUME NEW p, HasClose(p)
  PROVE  Fresh(p[1], ExchangeRows(p[1])) /\ Moneyline(p[1]) \subseteq ExchangeRows(p[1])
<1> DEFINE m == p[1]
           all == Moneyline(m)
           have == ExchangeRows(m)
<1>1. IsFiniteSet(all) /\ Cardinality(all) <= Wide(m) /\ Wide(m) \in Nat
  BY MoneylineIsWide
<1>2. Fresh(m, have) /\ Cardinality(have \intersect all) >= Wide(m)
  BY DEF HasClose
<1> HIDE DEF m, all, have
<1>3. ASSUME NEW x \in all, x \notin have PROVE FALSE
  <2>1. IsFiniteSet(all \ {x}) /\ Cardinality(all \ {x}) = Cardinality(all) - 1
    BY <1>1, FS_RemoveElement
  <2>2. have \intersect all \in SUBSET (all \ {x})
    BY <1>3
  <2>3. Cardinality(have \intersect all) <= Cardinality(all \ {x}) /\ IsFiniteSet(have \intersect all)
    BY <2>1, <2>2, FS_Subset
  <2>4. Cardinality(all) \in Nat /\ Cardinality(have \intersect all) \in Nat
    BY <1>1, <2>3, FS_CardinalityType
  <2> QED
    BY <1>1, <1>2, <2>1, <2>3, <2>4
<1>4. all \subseteq have
  BY <1>3
<1> QED
  BY <1>2, <1>4 DEF all, have, m

\* A close that is counted as usable attaches unless its edge is beyond belief, and has an event.
LEMMA CloseAttaches ==
  ASSUME NEW p, p[2] = "moneyline", HasClose(p) PROVE (Attaches(p) \/ p \in Implausible) /\ HasEvent(p)
<1>1. Moneyline(p[1]) \subseteq ExchangeRows(p[1]) /\ MarketRows(p) = Moneyline(p[1])
  BY CloseIsWhole DEF MarketRows
<1>2. Fresh(p[1], Stored(p[1])) /\ ExchangeRows(p[1]) # {}
  BY CloseIsWhole DEF Fresh, ExchangeRows
<1> QED
  BY <1>1, <1>2 DEF Attaches, HasEvent

\* A close that attaches from the exchange's own rows near kickoff is counted.
LEMMA AttachedCounts ==
  ASSUME NEW p, p[2] = "moneyline", Attaches(p), Fresh(p[1], ExchangeRows(p[1])), Base(p[1]) \in Bases
  PROVE  HasClose(p)
<1> DEFINE have == ExchangeRows(p[1]) \intersect Moneyline(p[1])
<1>1. Moneyline(p[1]) \subseteq ExchangeRows(p[1])
  BY DEF Attaches, MarketRows
<1>2. have = Moneyline(p[1])
  BY <1>1
<1> HIDE DEF have
<1>3. Cardinality(have) = Wide(p[1]) /\ Wide(p[1]) \in Nat
  BY <1>2, MoneylineIsWide
<1>4. Cardinality(have) >= Wide(p[1])
  BY <1>3
<1> QED
  BY <1>4 DEF HasClose, have

\* A part of a finite set counts no more than the whole.
LEMMA PartCounts ==
  ASSUME NEW S, IsFiniteSet(S), NEW T, T \subseteq S
  PROVE  IsFiniteSet(T) /\ Cardinality(T) \in Nat /\ Cardinality(S) \in Nat /\ Cardinality(T) <= Cardinality(S)
<1>1. IsFiniteSet(T) /\ Cardinality(T) <= Cardinality(S)
  BY FS_Subset
<1> QED
  BY <1>1, FS_CardinalityType

\* The readiness figure is settlement's, up to the closes refused as implausible.
LEMMA UsableCloses == UsableCloseAttaches
<1> DEFINE picks == {p \in PickedOn : p[2] = "moneyline"}
           closed == {p \in picks : HasClose(p)}
           evented == {p \in picks : HasEvent(p)}
           report == CoverageReport(picks)
           ours(k) == {p \in picks : SportOfPick(p) = k}
           attached(k) == {p \in ours(k) : Attaches(p)}
           fresh(k) == {p \in attached(k) : Fresh(p[1], ExchangeRows(p[1]))}
<1>1. IsFiniteSet(picks)
  BY CoverageAssumption, PartCounts
<1>2. /\ report.by_sport = Grouped(picks, closed)
      /\ report.event_by_sport = Grouped(picks, evented)
  <2> HIDE DEF picks
  <2> QED
    BY DEF CoverageReport
<1> HIDE DEF report
<1>3. ASSUME NEW k \in DOMAIN report.by_sport
      PROVE  /\ report.by_sport[k].counted <= Cardinality(attached(k) \union (ours(k) \intersect Implausible))
             /\ report.by_sport[k].counted <= report.event_by_sport[k].counted
             /\ BaseOf[k] \in Bases => Cardinality(fresh(k)) <= report.by_sport[k].counted
  <2> DEFINE a == {p \in closed : SportOfPick(p) = k}
             b == attached(k) \union (ours(k) \intersect Implausible)
             c == {p \in evented : SportOfPick(p) = k}
             d == fresh(k)
  <2>1. k \in {SportOfPick(p) : p \in picks}
    BY <1>2, <1>3 DEF Grouped
  <2>2. report.by_sport[k].counted = Cardinality(a) /\ report.event_by_sport[k].counted = Cardinality(c)
    <3> HIDE DEF picks, closed, evented
    <3> QED
      BY <1>2, <2>1 DEF Grouped
  <2>3. a \subseteq b /\ a \subseteq c
    BY CloseAttaches
  <2>4. a \subseteq picks /\ b \subseteq picks /\ c \subseteq picks
    OBVIOUS
  <2>5. BaseOf[k] \in Bases => d \subseteq a
    BY AttachedCounts DEF SportOfPick, Base
  <2> HIDE DEF picks, a, b, c, d
  <2>6. IsFiniteSet(a) /\ IsFiniteSet(b) /\ IsFiniteSet(c)
    BY <1>1, <2>4, PartCounts
  <2>7. Cardinality(a) <= Cardinality(b) /\ Cardinality(a) <= Cardinality(c)
    BY <2>3, <2>6, PartCounts
  <2>8. BaseOf[k] \in Bases => Cardinality(d) <= Cardinality(a)
    BY <2>5, <2>6, PartCounts
  <2> QED
    BY <2>2, <2>7, <2>8 DEF b, d
<1> QED
  BY <1>3 DEF UsableCloseAttaches, report

\* What is six hours apart at most is on the same calendar day or the next.
LEMMA NearIsADay ==
  ASSUME NEW t \in Int, NEW u \in Int, Apart(t, u) <= AcceptGap
  PROVE  Apart(t \div 24, u \div 24) <= 1
<1> DEFINE a == t \div 24
           b == u \div 24
           x == t % 24
           y == u % 24
<1>1. a \in Int /\ x \in 0..23 /\ t = 24 * a + x
  OBVIOUS
<1>2. b \in Int /\ y \in 0..23 /\ u = 24 * b + y
  OBVIOUS
<1> HIDE DEF a, b, x, y
<1>3. t - u <= 6 /\ u - t <= 6
  BY DEF Apart, AcceptGap
<1>4. a - b <= 1 /\ b - a <= 1
  BY <1>1, <1>2, <1>3
<1>5. Apart(a, b) <= 1
  BY <1>1, <1>2, <1>4 DEF Apart
<1> QED
  BY <1>5 DEF a, b

\* Some candidate leads.
LEMMA LeaderIsCandidate ==
  ASSUME NEW m, NEW S, S # {}, \A c \in S : Rank(m, c) \in Nat PROVE Leader(m, S) \in S
<1> DEFINE ranks == {Rank(m, c) : c \in S}
<1>1. ranks \in SUBSET Nat /\ ranks # {}
  OBVIOUS
<1>2. \A c \in S : Rank(m, c) \in ranks
  OBVIOUS
<1>3. \A r \in ranks : \E c \in S : r = Rank(m, c)
  OBVIOUS
<1> HIDE DEF ranks
<1>4. PICK least \in ranks : \A r \in ranks : <<r, least>> \notin OpToRel(<, Nat)
  BY <1>1, WFMin, NatLessThanWellFounded, Zenon
<1>5. \A r \in ranks : ~(r < least)
  BY <1>1, <1>4, Zenon DEF OpToRel
<1>6. PICK best \in S : least = Rank(m, best)
  BY <1>3
<1>7. \A d \in S : Rank(m, best) <= Rank(m, d)
  BY <1>1, <1>2, <1>5, <1>6
<1> QED
  BY <1>7 DEF Leader

\* The hardened match is one of the candidates, near the kickoff under a name that passes.
LEMMA HardenedIsEligible ==
  ASSUME CoverageInv, NEW m \in Matches, NEW candidates \in SUBSET archived, NEW c \in Hardened(m, candidates)
  PROVE  c \in Eligible(m, candidates)
<1> DEFINE eligible == Eligible(m, candidates)
<1>1. \A e \in eligible : Rank(m, e) \in Nat
  <2>1. ASSUME NEW e \in eligible PROVE Rank(m, e) \in Nat
    <3>1. e \in ArchiveGames /\ e.names \in DOMAIN NameCost[m]
      BY <2>1 DEF CoverageInv, CoverageTypeOK, Eligible, Passes
    <3>2. NameCost[m][e.names] \in Nat /\ e.kickoff \in Int /\ StartsAt[m] \in Int
      BY <3>1, CoverageAssumption
    <3> HIDE DEF eligible
    <3>3. Apart(e.kickoff, StartsAt[m]) \in Nat
      BY <3>2 DEF Apart
    <3> QED
      BY <3>2, <3>3 DEF Rank, AcceptGap
  <2> QED
    BY <2>1
<1> HIDE DEF eligible
<1>2. eligible # {} /\ c = Leader(m, eligible)
  BY DEF Hardened, eligible
<1> QED
  BY <1>1, <1>2, LeaderIsCandidate DEF eligible

\* A game the true-up takes for the fixture is among the report's candidates.
LEMMA CloseIsCandidate ==
  ASSUME CoverageInv, NEW m \in Matches, NEW c \in Eligible(m, Namespace(m))
  PROVE  c \in SameDay(m)
<1>1. c \in Namespace(m) /\ Apart(c.kickoff, StartsAt[m]) <= AcceptGap
  BY DEF Eligible
<1>2. c.kickoff \in Int /\ StartsAt[m] \in Int
  BY <1>1, CoverageAssumption DEF Namespace, CoverageInv, CoverageTypeOK
<1> QED
  BY <1>1, <1>2, NearIsADay DEF SameDay

\* Of the games the true-up may take, those of the fixture's own names are matched, and so is the
\* fixture when the league rules none of them out.
LEMMA CloseIsShadowed ==
  ASSUME CoverageInv, NEW p \in PickedOn
  PROVE  /\ PinnacleClose(p[1]) # {} => SameDay(p[1]) # {}
         /\ (\E c \in PinnacleClose(p[1]) : Exact(p[1], c)) => DayMatched(p[1])
         /\ (/\ PinnacleClose(p[1]) # {}
             /\ \A c \in Eligible(p[1], Namespace(p[1])) : LeaguesAgree(p[1], c)) => Shadowed(p)
<1> DEFINE m == p[1]
           agreeing == {c \in SameDay(m) : LeaguesAgree(m, c)}
<1>1. m \in Matches /\ Namespace(m) \in SUBSET archived
  BY CoverageAssumption DEF Namespace
<1>2. \A c \in PinnacleClose(m) : c \in Eligible(m, Namespace(m)) /\ c \in SameDay(m)
  BY <1>1, HardenedIsEligible, CloseIsCandidate DEF PinnacleClose
<1>3. ASSUME PinnacleClose(m) # {}, \A c \in Eligible(m, Namespace(m)) : LeaguesAgree(m, c)
      PROVE  Shadowed(p)
  <2>1. \A c \in agreeing : c \in Namespace(m)
    BY DEF SameDay
  <2>2. \A c \in Eligible(m, Namespace(m)) : c \in agreeing
    BY <1>1, <1>3, CloseIsCandidate
  <2>3. Eligible(m, agreeing) = Eligible(m, Namespace(m))
    <3> HIDE DEF agreeing, m
    <3> QED
      BY <2>1, <2>2 DEF Eligible
  <2>4. Hardened(m, agreeing) # {}
    <3> HIDE DEF agreeing, m
    <3> QED
      BY <1>3, <2>3 DEF PinnacleClose, Hardened
  <2> QED
    BY <2>4 DEF Shadowed
<1> QED
  BY <1>2, <1>3 DEF DayMatched

\* No panel misses a fixture the true-up has a close for.
LEMMA PanelsMiss == CoverageInv => PanelsMissNothing
<1> SUFFICES ASSUME CoverageInv PROVE PanelsMissNothing
  OBVIOUS
<1> DEFINE usable(b) == {m \in Upcoming(b) : HasClose(<<m, "moneyline">>)}
           closing(b) == {m \in Upcoming(b) : \E c \in PinnacleClose(m) : Exact(m, c)}
           ours(b) == {m \in Upcoming(b) : Stored(m) # {}}
           captured(b) == {m \in ours(b) : ExchangeRows(m) \intersect Moneyline(m) # {}}
           hit(b) == {m \in Upcoming(b) : DayMatched(m)}
           pinnacle == [b \in Bases |-> PinnacleCapture(b)]
           inline == [b \in Bases |-> InlineCapture(b)]
           header == ResolutionReport.coverage_summary
<1>1. ASSUME NEW b PROVE IsFiniteSet(Upcoming(b)) /\ Upcoming(b) \subseteq Matches
  BY CoverageAssumption, PartCounts DEF Upcoming
<1>2. ASSUME NEW b PROVE usable(b) \subseteq captured(b)
  <2>1. ASSUME NEW m \in Upcoming(b), HasClose(<<m, "moneyline">>)
        PROVE  Stored(m) # {} /\ ExchangeRows(m) \intersect Moneyline(m) # {}
    <3>1. Moneyline(m) \subseteq ExchangeRows(m)
      BY <2>1, CloseIsWhole
    <3>2. <<"exchange", "moneyline", 1>> \in Moneyline(m)
      BY DEF Moneyline
    <3> QED
      BY <3>1, <3>2 DEF ExchangeRows
  <2> QED
    BY <2>1
<1>3. ASSUME NEW b PROVE closing(b) \subseteq hit(b)
  <2>1. ASSUME NEW m \in Upcoming(b), NEW c \in PinnacleClose(m), Exact(m, c) PROVE DayMatched(m)
    <3>1. m \in Matches /\ Namespace(m) \in SUBSET archived
      BY <1>1 DEF Namespace
    <3>2. c \in SameDay(m)
      BY <2>1, <3>1, HardenedIsEligible, CloseIsCandidate DEF PinnacleClose
    <3> QED
      BY <2>1, <3>2 DEF DayMatched
  <2> QED
    BY <2>1
<1>4. ASSUME NEW b
      PROVE  /\ IsFiniteSet(captured(b)) /\ IsFiniteSet(hit(b))
             /\ Cardinality(usable(b)) \in Nat /\ Cardinality(captured(b)) \in Nat
             /\ Cardinality(usable(b)) <= Cardinality(captured(b))
             /\ Cardinality(closing(b)) \in Nat /\ Cardinality(hit(b)) \in Nat
             /\ Cardinality(closing(b)) <= Cardinality(hit(b))
  <2>1. captured(b) \subseteq Upcoming(b) /\ hit(b) \subseteq Upcoming(b)
    OBVIOUS
  <2>2. usable(b) \subseteq captured(b) /\ closing(b) \subseteq hit(b) /\ IsFiniteSet(Upcoming(b))
    BY <1>1, <1>2, <1>3
  <2> HIDE DEF usable, closing, captured, hit
  <2>3. IsFiniteSet(captured(b)) /\ IsFiniteSet(hit(b))
    BY <2>1, <2>2, PartCounts
  <2> QED
    BY <2>2, <2>3, PartCounts
<1>5. \A b \in Bases : pinnacle[b].matched = Cardinality(hit(b)) /\ inline[b].captured = Cardinality(captured(b))
  BY DEF PinnacleCapture, InlineCapture
<1> HIDE DEF usable, closing, captured, hit
<1>6. header = AnchorHeadline(inline, pinnacle)
  BY DEF ResolutionReport
<1> HIDE DEF pinnacle, inline, header
<1>7. "soccer" \in Bases /\ "basketball" \in Bases
  BY DEF Bases
<1>8. /\ header.pinnacle_matched = pinnacle["soccer"].matched + pinnacle["basketball"].matched
      /\ header.betfair_captured = inline["soccer"].captured + inline["basketball"].captured
  BY <1>6 DEF AnchorHeadline
<1>9. /\ Cardinality(usable("soccer")) + Cardinality(usable("basketball")) <= header.betfair_captured
      /\ Cardinality(closing("soccer")) + Cardinality(closing("basketball")) <= header.pinnacle_matched
  BY <1>4, <1>5, <1>7, <1>8
<1> QED
  BY <1>9 DEF PanelsMissNothing, header, usable, closing

\* What the report leaves unmatched is what it says it is.
LEMMA GapsAreReal == CoverageInv => GapsAreGaps
<1> SUFFICES ASSUME CoverageInv PROVE GapsAreGaps
  OBVIOUS
<1> DEFINE unmatched == {p \in PickedOn : ~Shadowed(p)}
           uncovered == {p \in unmatched : SameDay(p[1]) = {}}
           report == ResolutionReport.picks
           closing == {p \in PickedOn : PinnacleClose(p[1]) # {}}
           plain == {p \in closing : \/ \E c \in PinnacleClose(p[1]) : Exact(p[1], c)
                                     \/ \A c \in Eligible(p[1], Namespace(p[1])) : LeaguesAgree(p[1], c)}
<1>1. /\ report.total = Cardinality(PickedOn) /\ report.matched = Cardinality(PickedOn \ unmatched)
      /\ report.no_archive_candidates = Cardinality(uncovered)
      /\ report.unmatched_with_candidates = Cardinality(unmatched \ uncovered)
  <2>1. report = MatchRateReport(PickedOn)
    BY DEF ResolutionReport
  <2> HIDE DEF report
  <2> QED
    BY <2>1 DEF MatchRateReport
<1>2. uncovered \subseteq PickedOn \ closing
  BY CloseIsShadowed
<1>3. plain \subseteq PickedOn \ unmatched
  <2>1. ASSUME NEW p \in plain PROVE Shadowed(p)
    <3>1. p \in PickedOn /\ PinnacleClose(p[1]) # {}
      BY <2>1
    <3>2. \/ \E c \in PinnacleClose(p[1]) : Exact(p[1], c)
          \/ \A c \in Eligible(p[1], Namespace(p[1])) : LeaguesAgree(p[1], c)
      BY <2>1
    <3> QED
      BY <3>1, <3>2, CloseIsShadowed DEF Shadowed
  <2> QED
    BY <2>1
<1>4. unmatched \subseteq PickedOn /\ uncovered \subseteq unmatched
  OBVIOUS
<1> HIDE DEF unmatched, uncovered, closing, plain, report
<1>5. IsFiniteSet(PickedOn) /\ IsFiniteSet(unmatched) /\ IsFiniteSet(uncovered) /\ IsFiniteSet(PickedOn \ unmatched)
      /\ IsFiniteSet(PickedOn \ closing)
  BY <1>4, CoverageAssumption, PartCounts
<1>6. Cardinality(plain) <= Cardinality(PickedOn \ unmatched) /\ Cardinality(uncovered) <= Cardinality(PickedOn \ closing)
  BY <1>2, <1>3, <1>5, PartCounts
<1>7. PickedOn \cap unmatched = unmatched /\ unmatched \cap uncovered = uncovered
  BY <1>4
<1>8. /\ Cardinality(PickedOn \ unmatched) = Cardinality(PickedOn) - Cardinality(unmatched)
      /\ Cardinality(unmatched \ uncovered) = Cardinality(unmatched) - Cardinality(uncovered)
  <2>1. /\ Cardinality(PickedOn \ unmatched) = Cardinality(PickedOn) - Cardinality(PickedOn \cap unmatched)
        /\ Cardinality(unmatched \ uncovered) = Cardinality(unmatched) - Cardinality(unmatched \cap uncovered)
    BY <1>5, FS_Difference
  <2> QED
    BY <1>7, <2>1, Zenon
<1>9. Cardinality(PickedOn) \in Nat /\ Cardinality(unmatched) \in Nat /\ Cardinality(uncovered) \in Nat
  BY <1>5, FS_CardinalityType
<1>10. report.matched + report.no_archive_candidates + report.unmatched_with_candidates = report.total
  BY <1>1, <1>8, <1>9
<1> QED
  BY <1>1, <1>6, <1>10 DEF GapsAreGaps, report, closing, plain

\* The three instruments tell what the true-up would do, whatever is stored.
LEMMA CoverageHolds == CoverageInv => CoverageIsHonest
BY UsableCloses, PanelsMiss, GapsAreReal DEF CoverageIsHonest

-----------------------------------------------------------------------------
(* The services side by side *)

\* A step is a step of the part that moves, or leaves it as it is.
LEMMA PartSteps ==
  ASSUME [ServicesNext]_<<part, vars, jobVars, offVars, accessVars, auditVars, watchVars, entityVars,
                          schemaVars, coverageVars>>
  PROVE  /\ part' = part
         /\ [Next]_vars /\ [JobNext]_jobVars /\ [OffNext]_offVars /\ [AccessNext]_accessVars
         /\ [AuditNext]_auditVars /\ [WatchNext]_watchVars /\ [EntityNext]_entityVars
         /\ [SchemaNext]_schemaVars /\ [CoverageNext]_coverageVars
<1>1. CASE UNCHANGED <<part, vars, jobVars, offVars, accessVars, auditVars, watchVars, entityVars,
                       schemaVars, coverageVars>>
  BY <1>1, Zenon
<1>2. CASE Next /\ StandStill("ledger")
  <2>1. UNCHANGED <<part, jobVars, offVars, accessVars, auditVars, watchVars, entityVars, schemaVars, coverageVars>>
    BY <1>2 DEF StandStill
  <2> QED
    BY <1>2, <2>1, Zenon
<1>3. CASE JobNext /\ StandStill("jobs")
  <2>1. UNCHANGED <<part, vars, offVars, accessVars, auditVars, watchVars, entityVars, schemaVars, coverageVars>>
    BY <1>3 DEF StandStill
  <2> QED
    BY <1>3, <2>1, Zenon
<1>4. CASE OffNext /\ StandStill("offwindow")
  <2>1. UNCHANGED <<part, vars, jobVars, accessVars, auditVars, watchVars, entityVars, schemaVars, coverageVars>>
    BY <1>4 DEF StandStill
  <2> QED
    BY <1>4, <2>1, Zenon
<1>5. CASE AccessNext /\ StandStill("access")
  <2>1. UNCHANGED <<part, vars, jobVars, offVars, auditVars, watchVars, entityVars, schemaVars, coverageVars>>
    BY <1>5 DEF StandStill
  <2> QED
    BY <1>5, <2>1, Zenon
<1>6. CASE AuditNext /\ StandStill("audit")
  <2>1. UNCHANGED <<part, vars, jobVars, offVars, accessVars, watchVars, entityVars, schemaVars, coverageVars>>
    BY <1>6 DEF StandStill
  <2> QED
    BY <1>6, <2>1, Zenon
<1>7. CASE WatchNext /\ StandStill("watches")
  <2>1. UNCHANGED <<part, vars, jobVars, offVars, accessVars, auditVars, entityVars, schemaVars, coverageVars>>
    BY <1>7 DEF StandStill
  <2> QED
    BY <1>7, <2>1, Zenon
<1>8. CASE EntityNext /\ StandStill("rows")
  <2>1. UNCHANGED <<part, vars, jobVars, offVars, accessVars, auditVars, watchVars, schemaVars, coverageVars>>
    BY <1>8 DEF StandStill
  <2> QED
    BY <1>8, <2>1, Zenon
<1>9. CASE SchemaNext /\ StandStill("schema")
  <2>1. UNCHANGED <<part, vars, jobVars, offVars, accessVars, auditVars, watchVars, entityVars, coverageVars>>
    BY <1>9 DEF StandStill
  <2> QED
    BY <1>9, <2>1, Zenon
<1>10. CASE CoverageNext /\ StandStill("coverage")
  <2>1. UNCHANGED <<part, vars, jobVars, offVars, accessVars, auditVars, watchVars, entityVars, schemaVars>>
    BY <1>10 DEF StandStill
  <2> QED
    BY <1>10, <2>1, Zenon
<1> QED
  BY <1>1, <1>2, <1>3, <1>4, <1>5, <1>6, <1>7, <1>8, <1>9, <1>10, Zenon DEF ServicesNext

\* The components' inductive invariants, beside each other.
ServicesInv ==
  /\ part \in Parts
  /\ IInv /\ JobInv /\ OffInv /\ AccessInv /\ AccessTypeOK /\ AuditInv /\ AuditTypeOK
  /\ WatchInv /\ EntityInv /\ SchemaInv /\ CoverageInv

\* Every service starts in its invariant.
LEMMA ServicesStart == ServicesInit => ServicesInv
BY InitIInv, JobsStart, OffStarts, AccessStarts, AuditStarts, WatchStarts, EntityStarts, SchemaStarts,
   CoverageStarts, Zenon DEF ServicesInit, ServicesInv

\* Every service keeps its invariant, whichever moves.
LEMMA ServicesKeepInv ==
  ASSUME ServicesInv,
         [ServicesNext]_<<part, vars, jobVars, offVars, accessVars, auditVars, watchVars,
                          entityVars, schemaVars, coverageVars>>
  PROVE  ServicesInv'
<1>1. /\ part' = part
      /\ [Next]_vars /\ [JobNext]_jobVars /\ [OffNext]_offVars /\ [AccessNext]_accessVars
      /\ [AuditNext]_auditVars /\ [WatchNext]_watchVars /\ [EntityNext]_entityVars
      /\ [SchemaNext]_schemaVars /\ [CoverageNext]_coverageVars
  BY PartSteps, Zenon
<1> QED
  BY <1>1, NextIInv, JobsKeepInv, OffKeepsInv, AccessKeepsInv, AccessKeepsTypes, AuditKeepsInv,
     AuditKeepsTypes, WatchKeepsInv, EntityKeepsInv, SchemaKeepsInv, CoverageKeepsInv, Zenon DEF ServicesInv

\* Of every service the inductive invariant, in every state of the whole.
THEOREM ServicesInvariant == ServicesSpec => []ServicesInv
BY ServicesStart, ServicesKeepInv, PTL DEF ServicesSpec

\* Whichever service moves, its variables have their types, for all sets and bounds.
THEOREM ServicesTyped == ServicesSpec => []ServicesTypeOK
<1>1. ServicesInv => ServicesTypeOK
  <2> SUFFICES ASSUME ServicesInv PROVE ServicesTypeOK
    OBVIOUS
  <2>1. TypeOK /\ JobTypeOK /\ OffTypeOK /\ AccessTypeOK /\ AuditTypeOK /\ WatchTypeOK /\ CoverageTypeOK
    BY Zenon DEF ServicesInv, IInv, JobInv, OffInv, WatchInv, CoverageInv
  <2>2. EntityTypeOK /\ SchemaTypeOK /\ part \in Parts
    BY EntityInvIsEnough, SchemaInvIsEnough, Zenon DEF ServicesInv
  <2> QED
    BY <2>1, <2>2 DEF ServicesTypeOK, Parts
<1> QED
  BY <1>1, ServicesInvariant, PTL

\* A hung job shows and a failing sport does not take the next one's poll, however many jobs and sports
\* there are; and no event off the window is overtaken within its band, for any number of pages, picks
\* on them and links in a cycle (scheduler.py, revalidate_offwindow_picks).
THEOREM TurnsAreTaken == ServicesSpec => []EveryoneGetsATurn
<1>1. ServicesInv => EveryoneGetsATurn
  BY Zenon DEF ServicesInv, EveryoneGetsATurn, JobInv, OffInv
<1> QED
  BY <1>1, ServicesInvariant, PTL

\* One alert per anomaly, outage, release and day's drift, for every threshold, set of packages and
\* life of a key (self_audit.py, upstream_watch.py).
THEOREM OperatorToldOnce == ServicesSpec => []ToldOnce
<1>1. ServicesInv => ToldOnce
  BY Zenon DEF ServicesInv, ToldOnce, AuditInv, WatchInv
<1> QED
  BY <1>1, ServicesInvariant, PTL

\* However many writers, operators, teams, events and strategies: one administrator, one row of a team,
\* and every pick under the strategy that minted it (repositories.py, setup_submit, alembic/versions).
THEOREM IdentitiesKept == ServicesSpec => []IdentityIsKept
<1>1. ServicesInv => IdentityIsKept
  BY EntityInvIsEnough, SchemaInvIsEnough, Zenon DEF ServicesInv, IdentityIsKept, AccessInv
<1> QED
  BY <1>1, ServicesInvariant, PTL

\* The readiness figures are settlement's up to the closes it refuses as implausible, a pick without
\* candidates is one settlement finds no game for, a pick it prices on its own names is never reported
\* unmatched, and the panels miss no fixture it has a close for: whatever fixtures, names, leagues, picks
\* and stored rows there are (app/resolution/shadow.py, app/storage/repositories.py).
THEOREM CoverageReportsHonest == ServicesSpec => []CoverageIsHonest
<1>1. ServicesInv => CoverageIsHonest
  BY CoverageHolds, Zenon DEF ServicesInv
<1> QED
  BY <1>1, ServicesInvariant, PTL

=============================================================================
