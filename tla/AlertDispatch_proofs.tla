------------------------ MODULE AlertDispatch_proofs -------------------------
(***************************************************************************)
(* One sender per key, the protection of confirmed deliveries and the      *)
(* implementation of the quiet period, for all jobs, keys, sinks and times *)
(* to live.                                                                *)
(*                                                                         *)
(* A confirmed delivery is protected because the claim it was made under   *)
(* is still whole when the delivery happens (the clock stands still during *)
(* a dispatch), and because a dispatch that has delivered never releases.  *)
(* Both are facts about dispatches under way, so the invariant needs them: *)
(* SenderHoldsWholeClaim and SenderKnowsItsDelivery.                       *)
(***************************************************************************)
EXTENDS AlertDispatch, TLAPS

(* Whoever sends holds a claim of full length, made after any earlier      *)
(* confirmed delivery went out of its protection.                          *)
SenderHoldsWholeClaim ==
    \A j \in Jobs : sending[j] =>
        /\ ttl[key[j]] = TTL
        /\ since[key[j]] \in {0, TTL}

(* A dispatch whose key has a delivery to protect made that delivery.      *)
SenderKnowsItsDelivery ==
    \A j \in Jobs : sending[j] /\ since[key[j]] < TTL => delivered[j]

SendersApart ==
    \A i, j \in Jobs : sending[i] /\ sending[j] /\ key[i] = key[j] => i = j

IInv ==
    /\ TypeOK
    /\ SendersApart
    /\ SenderHoldsWholeClaim
    /\ SenderKnowsItsDelivery
    /\ DeliveredStaysClaimed

-----------------------------------------------------------------------------

(* Nothing is held, sent or delivered at the start.                        *)
LEMMA InitIInv == Init => IInv
<1> SUFFICES ASSUME Init PROVE IInv
  OBVIOUS
<1>1. TTL \in Nat /\ TTL > 0 /\ 0 .. TTL \subseteq Nat /\ 0 \in 0 .. TTL /\ TTL \in 0 .. TTL
  BY DispatchAssumption
<1>2. Len(Sinks) \in Nat
  BY DispatchAssumption
<1>3. TypeOK
  BY <1>1, <1>2, DispatchAssumption DEF Init, TypeOK
<1>4. SendersApart /\ SenderHoldsWholeClaim /\ SenderKnowsItsDelivery
  BY DEF Init, SendersApart, SenderHoldsWholeClaim, SenderKnowsItsDelivery
<1>5. DeliveredStaysClaimed
  BY <1>1 DEF Init, DeliveredStaysClaimed
<1> QED
  BY <1>3, <1>4, <1>5 DEF IInv

(* Steps that touch neither store, senders nor the record of deliveries.   *)
LEMMA ListStepKeepsIInv ==
    ASSUME IInv, UNCHANGED configured, left' \in [Jobs -> SUBSET Keys], faults' \in 0 .. MaxFaults,
           UNCHANGED <<ttl, sending, key, sink, delivered, historyVars>>
    PROVE  IInv'
BY DEF IInv, TypeOK, SendersApart, SenderHoldsWholeClaim,
       SenderKnowsItsDelivery, DeliveredStaysClaimed, historyVars

(* A key that is not held has no delivery to protect.                      *)
LEMMA UnheldIsUnprotected ==
    ASSUME TypeOK, DeliveredStaysClaimed, NEW k \in Keys, ttl[k] = 0
    PROVE  since[k] = TTL
<1>1. TTL \in Nat /\ since[k] \in 0 .. TTL
  BY DispatchAssumption DEF TypeOK
<1>2. since[k] < TTL => ttl[k] + since[k] = TTL
  BY DEF DeliveredStaysClaimed
<1> QED
  BY <1>1, <1>2

(* A claim that the store granted and the client never heard of.           *)
LEMMA LostClaimKeepsIInv ==
    ASSUME IInv, UNCHANGED configured, NEW k \in Keys, SetKey(k),
           left' \in [Jobs -> SUBSET Keys], faults' \in 0 .. MaxFaults,
           heard' \subseteq Keys, stranded' \subseteq Keys,
           UNCHANGED <<sending, key, sink, delivered, since>>
    PROVE  IInv'
<1>1. TTL \in Nat \ {0} /\ ttl[k] = 0 /\ ttl' = [ttl EXCEPT ![k] = TTL]
  BY DispatchAssumption DEF IInv, TypeOK, SetKey, Held
<1>2. since[k] = TTL
  BY <1>1, UnheldIsUnprotected DEF IInv
<1>3. TypeOK'
  BY <1>1 DEF IInv, TypeOK
<1>4. SendersApart' /\ SenderKnowsItsDelivery'
  BY DEF IInv, SendersApart, SenderKnowsItsDelivery
<1>5. SenderHoldsWholeClaim'
  BY <1>1 DEF IInv, TypeOK, SenderHoldsWholeClaim
<1>6. DeliveredStaysClaimed'
  BY <1>1, <1>2 DEF IInv, TypeOK, DeliveredStaysClaimed
<1> QED
  BY <1>3, <1>4, <1>5, <1>6 DEF IInv

(* Only a key that nobody sends and nothing protects can be claimed.       *)
LEMMA ClaimKeepsIInv ==
    ASSUME IInv, UNCHANGED configured, NEW j \in Jobs, NEW k \in Keys, Claim(j, k)
    PROVE  IInv'
<1>1. /\ TTL \in Nat \ {0}
      /\ ttl[k] = 0
      /\ ttl' = [ttl EXCEPT ![k] = TTL]
      /\ left' = [left EXCEPT ![j] = @ \ {k}]
      /\ sending' = [sending EXCEPT ![j] = TRUE]
      /\ key' = [key EXCEPT ![j] = k]
      /\ sink' = [sink EXCEPT ![j] = 1]
      /\ delivered' = [delivered EXCEPT ![j] = FALSE]
      /\ UNCHANGED <<faults, since>>
      /\ heard' \subseteq Keys /\ stranded' \subseteq Keys
  BY DispatchAssumption DEF IInv, TypeOK, Claim, SetKey, Held
<1>2. since[k] = TTL
  BY <1>1, UnheldIsUnprotected DEF IInv
<1>3. \A i \in Jobs : sending[i] => key[i] # k
  BY <1>1 DEF IInv, SenderHoldsWholeClaim
<1>4. Len(Sinks) \in Nat
  BY DispatchAssumption
<1>5. TypeOK'
  BY <1>1, <1>4 DEF IInv, TypeOK
<1>6. SendersApart'
  BY <1>1, <1>3 DEF IInv, TypeOK, SendersApart
<1>7. SenderHoldsWholeClaim'
  BY <1>1, <1>2, <1>3 DEF IInv, TypeOK, SenderHoldsWholeClaim
<1>8. SenderKnowsItsDelivery'
  BY <1>1, <1>2, <1>3 DEF IInv, TypeOK, SenderKnowsItsDelivery
<1>9. DeliveredStaysClaimed'
  BY <1>1, <1>2 DEF IInv, TypeOK, DeliveredStaysClaimed
<1> QED
  BY <1>5, <1>6, <1>7, <1>8, <1>9 DEF IInv

(* Moving on to the next sink without a confirmation.                      *)
LEMMA UnconfirmedSinkKeepsIInv ==
    ASSUME IInv, UNCHANGED configured, NEW j \in Jobs, AtSink(j), NextSink(j),
           faults' \in 0 .. MaxFaults, heard' \subseteq Keys,
           UNCHANGED <<delivered, since>>
    PROVE  IInv'
<1>1. sink' \in [Jobs -> 1 .. Len(Sinks) + 1]
  BY DispatchAssumption DEF IInv, TypeOK, AtSink, NextSink
<1> QED
  BY <1>1 DEF IInv, TypeOK, SendersApart, SenderHoldsWholeClaim,
              SenderKnowsItsDelivery, DeliveredStaysClaimed, NextSink

(* A confirmed delivery happens under a whole claim.                       *)
LEMMA SinkTakesKeepsIInv ==
    ASSUME IInv, UNCHANGED configured, NEW j \in Jobs, SinkTakes(j)
    PROVE  IInv'
<1> DEFINE k == key[j]
<1>1. /\ TTL \in Nat \ {0}
      /\ k \in Keys
      /\ sending[j]
      /\ ttl[k] = TTL
      /\ delivered' = [delivered EXCEPT ![j] = TRUE]
      /\ since' = [since EXCEPT ![k] = 0]
      /\ heard' \subseteq Keys
      /\ UNCHANGED <<ttl, left, sending, key, stranded, faults>>
  BY DispatchAssumption
     DEF IInv, TypeOK, SenderHoldsWholeClaim, SinkTakes, AtSink, NextSink
<1>2. sink' \in [Jobs -> 1 .. Len(Sinks) + 1]
  BY DispatchAssumption DEF IInv, TypeOK, SinkTakes, AtSink, NextSink
<1>3. TypeOK'
  <2>1. since' \in [Keys -> 0 .. TTL]
    BY <1>1 DEF IInv, TypeOK
  <2>2. delivered' \in [Jobs -> BOOLEAN]
    BY <1>1 DEF IInv, TypeOK
  <2> QED
    BY <1>1, <1>2, <2>1, <2>2 DEF IInv, TypeOK
<1>4. SendersApart'
  BY <1>1 DEF IInv, SendersApart
<1>5. SenderHoldsWholeClaim'
  BY <1>1 DEF IInv, TypeOK, SenderHoldsWholeClaim
<1>6. SenderKnowsItsDelivery'
  BY <1>1 DEF IInv, TypeOK, SendersApart, SenderKnowsItsDelivery
<1>7. DeliveredStaysClaimed'
  BY <1>1 DEF IInv, TypeOK, DeliveredStaysClaimed
<1> QED
  BY <1>3, <1>4, <1>5, <1>6, <1>7 DEF IInv

(* The end of a dispatch that leaves the key as it is.                     *)
LEMMA KeepingFinishKeepsIInv ==
    ASSUME IInv, UNCHANGED configured, NEW j \in Jobs, Finished(j), UNCHANGED ttl,
           left' \in [Jobs -> SUBSET Keys], faults' \in 0 .. MaxFaults,
           stranded' \subseteq Keys
    PROVE  IInv'
BY DEF IInv, TypeOK, SendersApart, SenderHoldsWholeClaim,
       SenderKnowsItsDelivery, DeliveredStaysClaimed, Finished

(* A key is released only when it has no delivery to protect.              *)
LEMMA ReleaseKeepsIInv ==
    ASSUME IInv, UNCHANGED configured, NEW j \in Jobs, Release(j)
    PROVE  IInv'
<1> DEFINE k == key[j]
<1>1. /\ TTL \in Nat \ {0}
      /\ k \in Keys
      /\ sending[j] /\ ~delivered[j]
      /\ ttl' = [ttl EXCEPT ![k] = 0]
      /\ sending' = [sending EXCEPT ![j] = FALSE]
      /\ UNCHANGED <<left, key, sink, delivered, faults, since, heard, stranded>>
  BY DispatchAssumption DEF IInv, TypeOK, Release, Finished, ReachedNone, DeleteKey
<1>2. since[k] = TTL
  BY <1>1 DEF IInv, TypeOK, SenderHoldsWholeClaim, SenderKnowsItsDelivery
<1>3. \A i \in Jobs : sending'[i] => key[i] # k /\ sending[i]
  BY <1>1 DEF IInv, TypeOK, SendersApart
<1>4. TypeOK'
  BY <1>1 DEF IInv, TypeOK
<1>5. SendersApart' /\ SenderKnowsItsDelivery'
  BY <1>1, <1>3 DEF IInv, SendersApart, SenderKnowsItsDelivery
<1>6. SenderHoldsWholeClaim'
  BY <1>1, <1>3 DEF IInv, TypeOK, SenderHoldsWholeClaim
<1>7. DeliveredStaysClaimed'
  BY <1>1, <1>2 DEF IInv, TypeOK, DeliveredStaysClaimed
<1> QED
  BY <1>4, <1>5, <1>6, <1>7 DEF IInv

(* The claims of a process that died stay in the store.                    *)
LEMMA CrashKeepsIInv == IInv /\ Crash => IInv'
<1> SUFFICES ASSUME IInv, Crash PROVE IInv'
  OBVIOUS
<1>1. faults' \in 0 .. MaxFaults
  BY DispatchAssumption DEF IInv, TypeOK, Crash, Fault
<1> QED
  BY <1>1 DEF IInv, TypeOK, SendersApart, SenderHoldsWholeClaim,
              SenderKnowsItsDelivery, DeliveredStaysClaimed, Crash

(* A protected claim and its delivery age together.                        *)
LEMMA TickKeepsIInv == IInv /\ Tick => IInv'
<1> SUFFICES ASSUME IInv, Tick PROVE IInv'
  OBVIOUS
<1>1. TTL \in Nat \ {0}
  BY DispatchAssumption
<1>2. \A n \in 0 .. TTL : Sooner(n) \in 0 .. TTL /\ Later(n) \in 0 .. TTL
  BY <1>1 DEF Sooner, Later
<1>3. TypeOK'
  BY <1>1, <1>2 DEF IInv, TypeOK, Tick, Expire, jobVars
<1>4. SendersApart' /\ SenderHoldsWholeClaim' /\ SenderKnowsItsDelivery'
  BY DEF SendersApart, SenderHoldsWholeClaim, SenderKnowsItsDelivery, Tick, jobVars
<1>5. DeliveredStaysClaimed'
  BY <1>1 DEF IInv, TypeOK, DeliveredStaysClaimed, Tick, Expire, Sooner, Later
<1> QED
  BY <1>3, <1>4, <1>5 DEF IInv

(* Every step keeps the invariant.                                         *)
LEMMA NextIInv == IInv /\ [Next]_vars => IInv'
<1> SUFFICES ASSUME IInv, [Next]_vars PROVE IInv'
  OBVIOUS
<1>1. \A n \in Nat : Fault => faults' \in 0 .. MaxFaults
  BY DispatchAssumption DEF IInv, TypeOK, Fault
<1>2. /\ TypeOK
      /\ \A j \in Jobs : AbandonRun(j) => left' \in [Jobs -> SUBSET Keys]
  BY DEF IInv, TypeOK, AbandonRun
<1>3. ASSUME NEW j \in Jobs, StartRun(j), UNCHANGED configured
     PROVE  IInv'
  <2>1. left' \in [Jobs -> SUBSET Keys]
    BY <1>2, <1>3, DispatchAssumption DEF TypeOK, StartRun
  <2> QED
    BY <1>2, <1>3, <2>1, ListStepKeepsIInv DEF StartRun, TypeOK
<1>4. ASSUME NEW j \in Jobs, NEW k \in Keys, Suppress(j, k), UNCHANGED configured
     PROVE  IInv'
  <2>1. left' \in [Jobs -> SUBSET Keys]
    BY <1>2, <1>4 DEF TypeOK, Suppress
  <2> QED
    BY <1>2, <1>4, <2>1, ListStepKeepsIInv DEF Suppress, TypeOK
<1>5. ASSUME NEW j \in Jobs, NEW k \in Keys, ClaimRaises(j, k), UNCHANGED configured
     PROVE  IInv'
  <2>1. /\ left' \in [Jobs -> SUBSET Keys]
        /\ faults' \in 0 .. MaxFaults
    BY <1>1, <1>2, <1>5 DEF ClaimRaises
  <2>2. CASE UNCHANGED <<ttl, heard, stranded>>
    BY <1>5, <2>1, <2>2, ListStepKeepsIInv DEF ClaimRaises, historyVars
  <2>3. CASE /\ SetKey(k)
             /\ heard' = heard \ {k}
             /\ stranded' = stranded \cup {k}
    <3>1. heard' \subseteq Keys /\ stranded' \subseteq Keys
      BY <1>2, <2>3 DEF TypeOK
    <3> QED
      BY <1>5, <2>1, <2>3, <3>1, LostClaimKeepsIInv DEF ClaimRaises
  <2> QED
    BY <1>5, <2>2, <2>3 DEF ClaimRaises
<1>6. ASSUME NEW j \in Jobs, SkipSink(j), UNCHANGED configured
     PROVE  IInv'
  BY <1>2, <1>6, UnconfirmedSinkKeepsIInv DEF SkipSink, TypeOK
<1>7. ASSUME NEW j \in Jobs, SinkLoses(j), UNCHANGED configured
     PROVE  IInv'
  BY <1>1, <1>2, <1>7, UnconfirmedSinkKeepsIInv DEF SinkLoses, TypeOK
<1>8. ASSUME NEW j \in Jobs, SinkTakesUnconfirmed(j), UNCHANGED configured
     PROVE  IInv'
  <2>1. heard' \subseteq Keys
    BY <1>2, <1>8 DEF SinkTakesUnconfirmed, TypeOK
  <2> QED
    BY <1>1, <1>8, <2>1, UnconfirmedSinkKeepsIInv DEF SinkTakesUnconfirmed
<1>9. ASSUME NEW j \in Jobs, KeepClaim(j), UNCHANGED configured
     PROVE  IInv'
  BY <1>2, <1>9, KeepingFinishKeepsIInv DEF KeepClaim, TypeOK
<1>10. ASSUME NEW j \in Jobs, ReleaseRaises(j), UNCHANGED configured
     PROVE  IInv'
  <2>1. stranded' \subseteq Keys
    BY <1>2, <1>10 DEF ReleaseRaises, TypeOK
  <2> QED
    BY <1>1, <1>2, <1>10, <2>1, KeepingFinishKeepsIInv DEF ReleaseRaises
<1>11. CASE UNCHANGED vars
  BY <1>2, <1>11, ListStepKeepsIInv DEF vars, jobVars, TypeOK
<1> QED
  BY <1>3, <1>4, <1>5, <1>6, <1>7, <1>8, <1>9, <1>10, <1>11, ClaimKeepsIInv,
     SinkTakesKeepsIInv, ReleaseKeepsIInv, CrashKeepsIInv, TickKeepsIInv
     DEF Next, Step, Failure

-----------------------------------------------------------------------------
(* Why a claim is held.                                                    *)

(* A dispatch that has delivered is one whose alert was heard.             *)
SenderWasHeard == \A j \in Jobs : sending[j] /\ delivered[j] => key[j] \in heard

CauseInv == IInv /\ SenderWasHeard /\ ClaimHasCause

(* What a step must do to keep the causes: whatever becomes held and idle  *)
(* was heard, is stranded, or has no channel.                              *)
LEMMA SendersKeepHearing ==
    ASSUME CauseInv, UNCHANGED <<configured, ttl, sending, key, delivered, stranded>>,
           heard \subseteq heard'
    PROVE  SenderWasHeard' /\ ClaimHasCause'
BY DEF CauseInv, SenderWasHeard, ClaimHasCause, Held, Dispatching

(* The store's key is claimed by j: every other key keeps its cause.       *)
LEMMA ClaimKeepsCause ==
    ASSUME CauseInv, UNCHANGED configured, NEW j \in Jobs, NEW k \in Keys, Claim(j, k)
    PROVE  SenderWasHeard' /\ ClaimHasCause'
<1>1. /\ ttl[k] = 0
      /\ ttl' = [ttl EXCEPT ![k] = TTL]
      /\ ~sending[j]
      /\ sending' = [sending EXCEPT ![j] = TRUE]
      /\ key' = [key EXCEPT ![j] = k]
      /\ delivered' = [delivered EXCEPT ![j] = FALSE]
      /\ heard' = heard \ {k} /\ stranded' = stranded \ {k}
  BY DispatchAssumption DEF CauseInv, IInv, TypeOK, Claim, SetKey, Held
<1>2. \A i \in Jobs : sending[i] => key[i] # k
  BY <1>1, DispatchAssumption DEF CauseInv, IInv, SenderHoldsWholeClaim
<1>3. SenderWasHeard'
  BY <1>1, <1>2 DEF CauseInv, IInv, TypeOK, SenderWasHeard
<1>4. ASSUME NEW q \in Keys, Held(q)', \A i \in Jobs : ~Dispatching(i, q)'
      PROVE  q \in heard' \/ q \in stranded' \/ configured' = {}
  <2>1. q # k
    BY <1>1, <1>4 DEF CauseInv, IInv, TypeOK, Dispatching
  <2>2. Held(q) /\ \A i \in Jobs : ~Dispatching(i, q)
    BY <1>1, <1>4, <2>1 DEF CauseInv, IInv, TypeOK, Dispatching, Held
  <2> QED
    BY <1>1, <2>1, <2>2 DEF CauseInv, ClaimHasCause
<1> QED
  BY <1>3, <1>4 DEF ClaimHasCause

(* A claim whose answer was lost is stranded by it.                        *)
LEMMA LostClaimKeepsCause ==
    ASSUME CauseInv, UNCHANGED configured, NEW k \in Keys, SetKey(k),
           heard' = heard \ {k}, stranded' = stranded \cup {k},
           UNCHANGED <<sending, key, delivered>>
    PROVE  SenderWasHeard' /\ ClaimHasCause'
<1>1. ttl[k] = 0 /\ ttl' = [ttl EXCEPT ![k] = TTL]
  BY DispatchAssumption DEF CauseInv, IInv, TypeOK, SetKey, Held
<1>2. \A i \in Jobs : sending[i] => key[i] # k
  BY <1>1, DispatchAssumption DEF CauseInv, IInv, SenderHoldsWholeClaim
<1>3. SenderWasHeard'
  BY <1>2 DEF CauseInv, SenderWasHeard
<1>4. ASSUME NEW q \in Keys, Held(q)', \A i \in Jobs : ~Dispatching(i, q)', q # k
      PROVE  q \in heard' \/ q \in stranded' \/ configured' = {}
  BY <1>1, <1>4 DEF CauseInv, IInv, TypeOK, ClaimHasCause, Dispatching, Held
<1> QED
  BY <1>3, <1>4 DEF ClaimHasCause

(* A dispatch that ends, and leaves the key held, was heard, strands it or *)
(* had no channel.                                                         *)
LEMMA FinishKeepsCause ==
    ASSUME CauseInv, UNCHANGED configured, NEW j \in Jobs, Finished(j),
           \A q \in Keys \ {key[j]} : ttl'[q] = ttl[q],
           stranded \subseteq stranded',
           \/ ~ReachedNone(j) \/ ttl'[key[j]] = 0 \/ key[j] \in stranded'
    PROVE  SenderWasHeard' /\ ClaimHasCause'
<1>1. /\ sending[j]
      /\ sending' = [sending EXCEPT ![j] = FALSE]
      /\ UNCHANGED <<key, delivered, heard>>
  BY DEF Finished
<1>2. SenderWasHeard'
  BY <1>1 DEF CauseInv, IInv, TypeOK, SenderWasHeard
<1>3. ASSUME NEW q \in Keys, Held(q)', \A i \in Jobs : ~Dispatching(i, q)'
      PROVE  q \in heard' \/ q \in stranded' \/ configured' = {}
  <2>1. CASE q = key[j]
    <3>1. ~ReachedNone(j) \/ key[j] \in stranded'
      BY <1>3, <2>1 DEF Held
    <3>2. CASE ~ReachedNone(j)
      BY <1>1, <2>1, <3>2 DEF CauseInv, SenderWasHeard, ReachedNone
    <3> QED
      BY <2>1, <3>1, <3>2
  <2>2. CASE q # key[j]
    <3>1. Held(q)
      BY <1>3, <2>2 DEF Held
    <3>2. \A i \in Jobs : ~Dispatching(i, q)
      BY <1>1, <1>3, <2>2 DEF CauseInv, IInv, TypeOK, Dispatching
    <3> QED
      BY <1>1, <3>1, <3>2 DEF CauseInv, ClaimHasCause
  <2> QED
    BY <2>1, <2>2
<1> QED
  BY <1>2, <1>3 DEF ClaimHasCause

(* A process that dies strands what it was sending.                        *)
LEMMA CrashKeepsCause == CauseInv /\ Crash => SenderWasHeard' /\ ClaimHasCause'
<1> SUFFICES ASSUME CauseInv, Crash PROVE SenderWasHeard' /\ ClaimHasCause'
  OBVIOUS
<1>1. SenderWasHeard'
  BY DEF Crash, SenderWasHeard
<1>2. ASSUME NEW q \in Keys, Held(q)'
      PROVE  q \in heard' \/ q \in stranded' \/ configured' = {}
  <2>1. Held(q)
    BY <1>2 DEF Held, Crash
  <2>2. CASE \E i \in Jobs : Dispatching(i, q)
    BY <2>2 DEF Crash, Dispatching
  <2>3. CASE \A i \in Jobs : ~Dispatching(i, q)
    BY <2>1, <2>3 DEF Crash, CauseInv, ClaimHasCause
  <2> QED
    BY <2>2, <2>3
<1> QED
  BY <1>1, <1>2 DEF ClaimHasCause

(* The clock takes claims away and makes none.                             *)
LEMMA TickKeepsCause == CauseInv /\ Tick => SenderWasHeard' /\ ClaimHasCause'
<1> SUFFICES ASSUME CauseInv, Tick PROVE SenderWasHeard' /\ ClaimHasCause'
  OBVIOUS
<1>1. \A q \in Keys : Held(q)' => Held(q)
  BY DispatchAssumption DEF CauseInv, IInv, TypeOK, Tick, Expire, Sooner, Held
<1>2. UNCHANGED <<sending, key, delivered, heard, stranded, configured>>
  BY DEF Tick, jobVars
<1> QED
  BY <1>1, <1>2 DEF CauseInv, SenderWasHeard, ClaimHasCause, Dispatching

(* Every step keeps every held key's cause.                                *)
LEMMA NextCause == CauseInv /\ [Next]_vars => SenderWasHeard' /\ ClaimHasCause'
<1> SUFFICES ASSUME CauseInv, [Next]_vars PROVE SenderWasHeard' /\ ClaimHasCause'
  OBVIOUS
<1>1. ASSUME NEW j \in Jobs, UNCHANGED configured,
             \/ StartRun(j) \/ \E k \in Keys : Suppress(j, k)
             \/ SkipSink(j) \/ SinkLoses(j) \/ SinkTakesUnconfirmed(j)
      PROVE  SenderWasHeard' /\ ClaimHasCause'
  BY <1>1, SendersKeepHearing
     DEF StartRun, Suppress, SkipSink, SinkLoses, SinkTakesUnconfirmed, NextSink, historyVars
<1>2. ASSUME NEW j \in Jobs, UNCHANGED configured, SinkTakes(j)
      PROVE  SenderWasHeard' /\ ClaimHasCause'
  BY <1>2 DEF CauseInv, IInv, TypeOK, SinkTakes, NextSink, SenderWasHeard, ClaimHasCause,
              Held, Dispatching
<1>3. ASSUME NEW j \in Jobs, UNCHANGED configured, NEW k \in Keys, ClaimRaises(j, k)
      PROVE  SenderWasHeard' /\ ClaimHasCause'
  <2>1. CASE UNCHANGED <<ttl, heard, stranded>>
    BY <1>3, <2>1, SendersKeepHearing DEF ClaimRaises
  <2>2. CASE SetKey(k) /\ heard' = heard \ {k} /\ stranded' = stranded \cup {k}
    BY <1>3, <2>2, LostClaimKeepsCause DEF ClaimRaises
  <2> QED
    BY <1>3, <2>1, <2>2 DEF ClaimRaises
<1>4. ASSUME NEW j \in Jobs, UNCHANGED configured, KeepClaim(j)
      PROVE  SenderWasHeard' /\ ClaimHasCause'
  <2>1. /\ Finished(j) /\ ~ReachedNone(j) /\ stranded \subseteq stranded'
        /\ \A q \in Keys \ {key[j]} : ttl'[q] = ttl[q]
    BY <1>4 DEF KeepClaim
  <2> QED
    BY <1>4, <2>1, FinishKeepsCause
<1>5. ASSUME NEW j \in Jobs, UNCHANGED configured, Release(j)
      PROVE  SenderWasHeard' /\ ClaimHasCause'
  <2>1. /\ Finished(j) /\ ttl'[key[j]] = 0 /\ stranded \subseteq stranded'
        /\ \A q \in Keys \ {key[j]} : ttl'[q] = ttl[q]
    BY <1>5 DEF Release, DeleteKey, CauseInv, IInv, TypeOK
  <2> QED
    BY <1>5, <2>1, FinishKeepsCause
<1>6. ASSUME NEW j \in Jobs, UNCHANGED configured, ReleaseRaises(j)
      PROVE  SenderWasHeard' /\ ClaimHasCause'
  <2>1. /\ Finished(j) /\ key[j] \in stranded' /\ stranded \subseteq stranded'
        /\ \A q \in Keys \ {key[j]} : ttl'[q] = ttl[q]
    BY <1>6 DEF ReleaseRaises
  <2> QED
    BY <1>6, <2>1, FinishKeepsCause
<1>7. CASE UNCHANGED vars
  BY <1>7, SendersKeepHearing DEF vars, jobVars, historyVars
<1> QED
  BY <1>1, <1>2, <1>3, <1>4, <1>5, <1>6, <1>7, ClaimKeepsCause, CrashKeepsCause, TickKeepsCause
     DEF Next, Step, Failure

-----------------------------------------------------------------------------

(* The whole inductive invariant, for every instance.                      *)
THEOREM DispatchInvariant == Spec => []IInv
BY InitIInv, NextIInv, PTL DEF Spec

(* The variables of the dispatcher, its store and its jobs keep their      *)
(* types, whatever fails.                                                  *)
THEOREM DispatchTyped == Spec => []TypeOK
<1>1. IInv => TypeOK
  BY DEF IInv
<1> QED
  BY <1>1, DispatchInvariant, PTL

(* A claim that is held and not being sent reached a channel, or no        *)
(* channel is configured, or the store or the process failed under it.     *)
THEOREM ClaimsHaveCauses == Spec => []ClaimHasCause
<1>1. Init => SenderWasHeard /\ ClaimHasCause
  BY DispatchAssumption DEF Init, SenderWasHeard, ClaimHasCause, Held
<1>2. CauseInv /\ [Next]_vars => CauseInv'
  BY NextIInv, NextCause DEF CauseInv
<1>3. CauseInv => ClaimHasCause
  BY DEF CauseInv
<1>4. Init => CauseInv
  BY <1>1, InitIInv DEF CauseInv
<1> QED
  BY <1>2, <1>3, <1>4, PTL DEF Spec

(* RedisIdempotencyStore.claim keeps the fan-outs of one key apart.        *)
THEOREM OneSender == Spec => []OneSenderPerKey
<1>1. IInv => OneSenderPerKey
  BY DispatchAssumption
     DEF IInv, TypeOK, SendersApart, SenderHoldsWholeClaim, OneSenderPerKey,
         Dispatching, Held
<1> QED
  BY <1>1, DispatchInvariant, PTL

(* A confirmed delivery stays suppressed for the life of its claim.        *)
THEOREM DeliveredIsProtected == Spec => []DeliveredStaysClaimed
<1>1. IInv => DeliveredStaysClaimed
  BY DEF IInv
<1> QED
  BY <1>1, DispatchInvariant, PTL

(* Every behaviour of the dispatcher is one of the quiet period: the clock *)
(* passes, a first confirmed sink delivers, every other step stutters.     *)
THEOREM DispatchImplementsQuietPeriod == Spec => ImplementsQuietPeriod
<1>1. Init => Quiet!Init
  BY DEF Init, Quiet!Init
<1>2. IInv /\ [Next]_vars => [Quiet!Next]_since
  <2> SUFFICES ASSUME IInv, [Next]_vars PROVE [Quiet!Next]_since
    OBVIOUS
  <2>1. ASSUME NEW j \in Jobs, SinkTakes(j) PROVE [Quiet!Next]_since
    <3>1. /\ key[j] \in Keys
          /\ since \in [Keys -> 0 .. TTL]
          /\ since[key[j]] \in {0, TTL}
          /\ since' = [since EXCEPT ![key[j]] = 0]
      BY <2>1 DEF IInv, TypeOK, SenderHoldsWholeClaim, SinkTakes, AtSink
    <3>2. CASE since[key[j]] = 0
      BY <3>1, <3>2
    <3>3. CASE since[key[j]] = TTL
      <4>1. since[key[j]] >= TTL
        BY <3>3, DispatchAssumption
      <4>2. Quiet!Deliver(key[j])
        BY <3>1, <4>1 DEF Quiet!Deliver
      <4> QED
        BY <3>1, <4>2 DEF Quiet!Next
    <3> QED
      BY <3>1, <3>2, <3>3
  <2>2. CASE Tick
    BY <2>2 DEF Tick, Later, Quiet!Next, Quiet!Pass
  <2>3. ASSUME NEW j \in Jobs, ~SinkTakes(j), Step(j) \/ Failure(j)
        PROVE  since' = since
    BY <2>3 DEF Step, Failure, StartRun, Suppress, Claim, ClaimRaises, SkipSink,
                SinkLoses, SinkTakesUnconfirmed, KeepClaim, Release,
                ReleaseRaises, Finished, historyVars
  <2>4. CASE Crash
    BY <2>4 DEF Crash
  <2>5. CASE UNCHANGED vars
    BY <2>5 DEF vars, historyVars
  <2> QED
    BY <2>1, <2>2, <2>3, <2>4, <2>5 DEF Next
<1> QED
  BY <1>1, <1>2, DispatchInvariant, PTL DEF Spec, ImplementsQuietPeriod, Quiet!Spec

=============================================================================
