----------------------------- MODULE Sources_proofs -----------------------------
(***************************************************************************)
(* Proofs about the odds sources and what is kept of them: every component *)
(* has an inductive invariant of its own, and the parts keep them side by  *)
(* side, for any games, prices, proxies, sports and bounds that meet the   *)
(* assumptions of their modules.                                           *)
(***************************************************************************)
EXTENDS MCSources, FiniteSetTheorems, WellFoundedInduction, TLAPS

-----------------------------------------------------------------------------
(* The dated listing                                                       *)

\* A remainder, for a number below twice the modulus.
LEMMA ModOnce ==
  ASSUME NEW n \in Nat \ {0}, NEW x \in Nat, x < 2 * n
  PROVE  x % n = IF x < n THEN x ELSE x - n
<1> DEFINE d == x \div n
           r == x % n
<1>1. d \in Int /\ r \in 0 .. n - 1 /\ x = n * d + r
  OBVIOUS
<1> HIDE DEF d, r
<1>2. CASE d >= 2
  <2>1. n * d = n * 2 + n * (d - 2) /\ n * (d - 2) >= 0
    BY <1>1, <1>2
  <2> QED
    BY <1>1, <2>1
<1>3. CASE d <= -1
  <2>1. n * d = n * (d + 1) - n /\ n * (d + 1) <= 0
    BY <1>1, <1>3
  <2> QED
    BY <1>1, <2>1
<1>4. CASE d = 0
  BY <1>1, <1>4 DEF r
<1>5. CASE d = 1
  BY <1>1, <1>5 DEF r
<1> QED
  BY <1>1, <1>2, <1>3, <1>4, <1>5


\* As many attempts as the pool allows go to as many proxies, wherever they start.
LEMMA DistinctTries ==
  ASSUME NEW n \in Nat \ {0}, NEW start \in 0 .. n - 1, NEW k \in Nat, k <= n
  PROVE  Cardinality({(start + a) % n : a \in 0 .. k - 1}) = k
<1> DEFINE Hit == {(start + a) % n : a \in 0 .. k - 1}
           at  == [a \in 0 .. k - 1 |-> (start + a) % n]
<1>1. \A a \in 0 .. k - 1 : (start + a) % n = IF start + a < n THEN start + a ELSE start + a - n
  <2> TAKE a \in 0 .. k - 1
  <2> DEFINE x == start + a
  <2>1. x \in Nat /\ x < 2 * n
    OBVIOUS
  <2> HIDE DEF x
  <2>2. x % n = IF x < n THEN x ELSE x - n
    BY <2>1, ModOnce
  <2> QED
    BY <2>2 DEF x
<1>2. \A a, b \in 0 .. k - 1 : (start + a) % n = (start + b) % n => a = b
  BY <1>1
<1>3. at \in Surjection(0 .. k - 1, Hit)
  BY DEF Surjection
<1>4. at \in Injection(0 .. k - 1, Hit)
  BY <1>2 DEF Injection, IsInjective
<1>5. IsFiniteSet(0 .. k - 1) /\ Cardinality(0 .. k - 1) = k
  BY FS_Interval
<1> HIDE DEF Hit, at
<1>6. Cardinality(Hit) = Cardinality(0 .. k - 1)
  BY <1>3, <1>4, <1>5, FS_Surjection
<1> QED
  BY <1>5, <1>6 DEF Hit

\* The proxies a pass has tried before its attempt of now.
Behind(p) == {(p.start + a) % PoolSize : a \in 0 .. p.attempt - 1}

\* What is true of a pass of caller u.
PassOK(u, p) ==
  /\ p.at = "waiting" => p.attempt = 0 /\ p.tried = {}
  /\ p.at = "trying" => p.attempt < Tries /\ p.tried = Behind(p)
  /\ p.at = "nothing" => \/ Cardinality(p.tried) = Tries
                         \/ u # 0 /\ \E x \in p.tried : proxies[x] = "good"

ListingInv == ListingTypeOK /\ \A u \in Callers : PassOK(u, passes[u])

\* A pass tries at least one proxy, and no more than the pool and the limit allow.
LEMMA TriesAreFew == Tries \in Nat \ {0} /\ Tries <= PoolSize /\ Tries <= MaxFailover
BY ListingAssumption DEF Tries

\* A caller at rest has tried nothing.
LEMMA RestingIsPass == Resting \in Pass /\ Resting.at = "resting" /\ Resting.attempt = 0 /\ Resting.tried = {}
BY ListingAssumption DEF Resting, Pass, Proxies

\* No pass has begun.
LEMMA ListingStart == ListingInit => ListingInv
<1> SUFFICES ASSUME ListingInit PROVE ListingInv
  OBVIOUS
<1>1. passes = [u \in Callers |-> Resting] /\ \A u \in Callers : passes[u] = Resting
  BY DEF ListingInit
<1>2. passes \in [Callers -> Pass]
  BY <1>1, RestingIsPass
<1>3. cursor \in Proxies
  BY ListingAssumption DEF ListingInit, Proxies
<1>4. ListingTypeOK
  BY <1>2, <1>3, Zenon DEF ListingInit, ListingTypeOK
<1> QED
  BY <1>1, <1>4, RestingIsPass DEF ListingInv, PassOK


\* Who asks next is a proxy of the pool, and the cursor moves within it.
LEMMA ProxyIsThere ==
  ASSUME ListingTypeOK, NEW u \in Callers
  PROVE  /\ passes[u] \in Pass
         /\ ProxyOf(u) \in Proxies /\ (ProxyOf(u) + 1) % PoolSize \in Proxies
         /\ (cursor + Tries) % PoolSize \in Proxies
<1>1. passes[u] \in Pass
  BY DEF ListingTypeOK
<1>2. passes[u].start \in Nat /\ passes[u].attempt \in Nat /\ cursor \in Nat
  BY <1>1, ListingAssumption DEF Pass, Proxies, ListingTypeOK
<1>3. \A x \in Nat : x % PoolSize \in Proxies
  BY ListingAssumption DEF Proxies
<1>4. ProxyOf(u) \in Proxies
  <2> DEFINE x == passes[u].start + passes[u].attempt
  <2>1. x \in Nat
    BY <1>2
  <2> HIDE DEF x
  <2>2. x % PoolSize \in Proxies
    BY <2>1, <1>3
  <2> QED
    BY <2>2 DEF x, ProxyOf
<1>5. (ProxyOf(u) + 1) % PoolSize \in Proxies
  <2> DEFINE x == ProxyOf(u) + 1
  <2>1. x \in Nat
    BY <1>4, ListingAssumption DEF Proxies
  <2> HIDE DEF x
  <2>2. x % PoolSize \in Proxies
    BY <2>1, <1>3
  <2> QED
    BY <2>2 DEF x
<1>6. (cursor + Tries) % PoolSize \in Proxies
  <2> DEFINE x == cursor + Tries
  <2>1. x \in Nat
    BY <1>2, TriesAreFew
  <2> HIDE DEF x
  <2>2. x % PoolSize \in Proxies
    BY <2>1, <1>3
  <2> QED
    BY <2>2 DEF x
<1> QED
  BY <1>1, <1>4, <1>5, <1>6

\* With the attempt of now behind it as well.
LEMMA OneMoreBehind ==
  ASSUME ListingTypeOK, NEW u \in Callers, passes[u].tried = Behind(passes[u])
  PROVE  passes[u].tried \cup {ProxyOf(u)} = {(passes[u].start + a) % PoolSize : a \in 0 .. (passes[u].attempt + 1) - 1}
<1>1. passes[u] \in Pass /\ passes[u].attempt \in Nat
  BY DEF ListingTypeOK, Pass
<1>2. 0 .. (passes[u].attempt + 1) - 1 = (0 .. passes[u].attempt - 1) \cup {passes[u].attempt}
  BY <1>1
<1> QED
  BY <1>2 DEF Behind, ProxyOf

\* A sweep that has come to its last attempt has tried as many proxies as it may.
LEMMA SweepIsWhole ==
  ASSUME ListingInv, NEW u \in Callers, passes[u].at = "trying", ~(passes[u].attempt + 1 < Tries)
  PROVE  Cardinality(passes[u].tried \cup {ProxyOf(u)}) = Tries
<1>1. passes[u] \in Pass /\ passes[u].attempt \in Nat /\ passes[u].start \in 0 .. PoolSize - 1
  BY DEF ListingInv, ListingTypeOK, Pass, Proxies
<1>2. passes[u].attempt + 1 = Tries
  BY <1>1, TriesAreFew DEF ListingInv, PassOK
<1>3. passes[u].tried \cup {ProxyOf(u)} = {(passes[u].start + a) % PoolSize : a \in 0 .. Tries - 1}
  BY <1>2, OneMoreBehind DEF ListingInv, PassOK
<1> DEFINE first == passes[u].start
<1>4. first \in 0 .. PoolSize - 1 /\ Tries \in Nat /\ Tries <= PoolSize /\ PoolSize \in Nat \ {0}
  BY <1>1, TriesAreFew, ListingAssumption
<1>5. passes[u].tried \cup {ProxyOf(u)} = {(first + a) % PoolSize : a \in 0 .. Tries - 1}
  BY <1>3
<1> HIDE DEF first
<1>6. Cardinality({(first + a) % PoolSize : a \in 0 .. Tries - 1}) = Tries
  BY <1>4, DistinctTries
<1> QED
  BY <1>5, <1>6


\* One pass changes, and the proxies stay what they are.
LEMMA OnePassChanges ==
  ASSUME ListingInv, UNCHANGED proxies, cursor' \in Proxies, polling' \in BOOLEAN,
         NEW u \in Callers, NEW p \in Pass, passes' = [passes EXCEPT ![u] = p], PassOK(u, p)
  PROVE  ListingInv'
<1>1. passes' \in [Callers -> Pass] /\ \A v \in Callers : passes'[v] = IF v = u THEN p ELSE passes[v]
  BY DEF ListingInv, ListingTypeOK
<1>2. ListingTypeOK'
  BY <1>1, Zenon DEF ListingInv, ListingTypeOK, Proxies, Callers, Pass, PageIds
<1>3. ASSUME NEW v \in Callers PROVE PassOK(v, passes[v])'
  <2>1. CASE v = u
    BY <1>1, <2>1 DEF PassOK, Behind, Tries
  <2>2. CASE v # u
    BY <1>1, <2>2 DEF PassOK, Behind, Tries, ListingInv
  <2> QED
    BY <2>1, <2>2
<1> QED
  BY <1>2, <1>3 DEF ListingInv, Callers, PageIds

\* Moving a pass on to its next proxy changes its count and its tried proxies alone.
LEMMA PassFailsOver ==
  ASSUME NEW p \in Pass, p.attempt + 1 < Tries, NEW x \in Proxies, NEW q,
         q = [p EXCEPT !.attempt = @ + 1, !.tried = @ \cup {x}]
  PROVE  /\ q \in Pass /\ q.at = p.at /\ q.start = p.start
         /\ q.attempt = p.attempt + 1 /\ q.tried = p.tried \cup {x}
<1>1. q = [at |-> p.at, start |-> p.start, attempt |-> p.attempt + 1, tried |-> p.tried \cup {x}]
  BY DEF Pass
<1>2. p.attempt + 1 \in 0 .. MaxFailover /\ p.tried \cup {x} \in SUBSET Proxies
  BY TriesAreFew, ListingAssumption DEF Pass
<1> QED
  BY <1>1, <1>2 DEF Pass

\* A pass that ends: it listed, was cut, had its answer, or had its whole sweep.
LEMMA EndsKeepsInv ==
  ASSUME ListingInv, UNCHANGED proxies, cursor' \in Proxies, polling' \in BOOLEAN,
         NEW u \in Callers, NEW how \in {"listed", "nothing", "cut"}, Ends(u, how),
         how = "nothing" => \/ Cardinality(passes[u].tried \cup {ProxyOf(u)}) = Tries
                            \/ u # 0 /\ proxies[ProxyOf(u)] = "good"
  PROVE  ListingInv'
<1>1. ListingTypeOK
  BY DEF ListingInv
<1>2. passes[u] \in Pass /\ ProxyOf(u) \in Proxies
  BY <1>1, ProxyIsThere
<1> DEFINE q == [passes[u] EXCEPT !.at = how, !.tried = IF how = "cut" THEN @ ELSE @ \cup {ProxyOf(u)}]
<1>4. passes' = [passes EXCEPT ![u] = q]
  BY <1>1 DEF Ends, ListingTypeOK
<1> DEFINE p == passes[u]
           x == ProxyOf(u)
<1>3. p \in Pass /\ x \in Proxies /\ q = [p EXCEPT !.at = how, !.tried = IF how = "cut" THEN @ ELSE @ \cup {x}]
  BY <1>2
<1> HIDE DEF q, p, x
<1>5. q \in Pass /\ q.at = how /\ (how # "cut" => q.tried = p.tried \cup {x})
  <2>1. q = [at |-> how, start |-> p.start, attempt |-> p.attempt,
             tried |-> IF how = "cut" THEN p.tried ELSE p.tried \cup {x}]
    BY <1>3 DEF Pass
  <2> DEFINE been == IF how = "cut" THEN p.tried ELSE p.tried \cup {x}
  <2>2. been \in SUBSET Proxies /\ p.start \in Proxies /\ p.attempt \in 0 .. MaxFailover
    BY <1>3 DEF Pass
  <2>3. (how # "cut" => been = p.tried \cup {x}) /\ q = [at |-> how, start |-> p.start, attempt |-> p.attempt, tried |-> been]
    BY <2>1
  <2> HIDE DEF been
  <2> QED
    BY <2>2, <2>3 DEF Pass
<1>6. PassOK(u, q)
  BY <1>2, <1>5 DEF PassOK, p, x
<1> QED
  BY <1>4, <1>5, <1>6, OnePassChanges

\* A failing proxy is added to those the pass has tried (_scrape_with_failover).
LEMMA FailOverKeepsInv ==
  ASSUME ListingInv, UNCHANGED <<proxies, polling>>, NEW u \in Callers, passes[u].at = "trying", FailOver(u)
  PROVE  ListingInv'
<1>1. ListingTypeOK
  BY DEF ListingInv
<1>2. passes[u] \in Pass /\ ProxyOf(u) \in Proxies /\ (cursor + Tries) % PoolSize \in Proxies
      /\ cursor \in Proxies /\ polling \in BOOLEAN
  BY <1>1, ProxyIsThere DEF ListingTypeOK
<1>3. CASE passes[u].attempt + 1 < Tries
  <2> DEFINE q == [passes[u] EXCEPT !.attempt = @ + 1, !.tried = @ \cup {ProxyOf(u)}]
  <2>2. passes' = [passes EXCEPT ![u] = q] /\ cursor' = cursor
    BY <1>1, <1>3 DEF FailOver, ListingTypeOK
  <2> DEFINE p == passes[u]
             x == ProxyOf(u)
  <2>7. p \in Pass /\ x \in Proxies /\ p.attempt + 1 < Tries /\ q = [p EXCEPT !.attempt = @ + 1, !.tried = @ \cup {x}]
    BY <1>2, <1>3
  <2> HIDE DEF q, p, x
  <2>8. /\ q \in Pass /\ q.at = p.at /\ q.start = p.start
        /\ q.attempt = p.attempt + 1 /\ q.tried = p.tried \cup {x}
    BY <2>7, PassFailsOver, Zenon
  <2>1. /\ q \in Pass /\ q.at = "trying" /\ q.start = passes[u].start
        /\ q.attempt = passes[u].attempt + 1 /\ q.tried = passes[u].tried \cup {ProxyOf(u)}
    BY <2>8 DEF p, x
  <2>3. q.tried = Behind(q)
    BY <1>1, <2>1, OneMoreBehind DEF ListingInv, PassOK, Behind
  <2>4. PassOK(u, q)
    BY <1>3, <2>1, <2>3 DEF PassOK
  <2> QED
    BY <1>2, <2>1, <2>2, <2>4, OnePassChanges
<1>4. CASE ~(passes[u].attempt + 1 < Tries)
  <2>1. Ends(u, "nothing") /\ cursor' \in Proxies
    BY <1>2, <1>4 DEF FailOver
  <2>2. Cardinality(passes[u].tried \cup {ProxyOf(u)}) = Tries
    BY <1>4, SweepIsWhole
  <2> QED
    BY <1>2, <2>1, <2>2, EndsKeepsInv
<1> QED
  BY <1>3, <1>4

\* One step of a pass: it tries, moves on, or ends.
LEMMA PassStepKeepsInv ==
  ASSUME ListingInv, NEW u \in Callers, PassStep(u)
  PROVE  ListingInv'
<1>1. ListingTypeOK
  BY DEF ListingInv
<1>2. /\ cursor \in Proxies /\ polling \in BOOLEAN
      /\ ProxyOf(u) \in Proxies /\ (ProxyOf(u) + 1) % PoolSize \in Proxies
  BY <1>1, ProxyIsThere DEF ListingTypeOK
<1>3. PastThisProxy(u) => cursor' \in Proxies
  BY <1>2 DEF PastThisProxy
<1>4. CASE ScrapeLists(u)
  BY <1>2, <1>3, <1>4, EndsKeepsInv DEF ScrapeLists
<1>5. CASE ScrapeEmpty(u)
  <2>1. CASE u = 0
    BY <1>5, <2>1, FailOverKeepsInv DEF ScrapeEmpty
  <2>2. CASE u # 0
    BY <1>2, <1>3, <1>5, <2>2, EndsKeepsInv DEF ScrapeEmpty
  <2> QED
    BY <2>1, <2>2
<1>6. CASE ScrapeRaises(u)
  BY <1>6, FailOverKeepsInv DEF ScrapeRaises
<1>7. CASE TimesOut(u)
  BY <1>2, <1>7, EndsKeepsInv DEF TimesOut
<1> QED
  BY <1>4, <1>5, <1>6, <1>7 DEF PassStep


\* No step of a listing, nor a proxy going bad or good, breaks it.
LEMMA ListingKeepsInv ==
  ASSUME ListingInv, [ListingNext]_listingVars
  PROVE  ListingInv'
<1>1. ListingTypeOK /\ \A u \in Callers : passes[u] \in Pass
  BY DEF ListingInv, ListingTypeOK
<1>2. CASE UNCHANGED listingVars
  BY <1>2 DEF ListingInv, ListingTypeOK, PassOK, Behind, Tries, Callers, PageIds, Pass, Proxies, listingVars
<1>3. CASE StartListing
  <2> DEFINE fresh(u) == [Resting EXCEPT !.at = "waiting", !.start = IF Fanned THEN (cursor + u - 1) % PoolSize ELSE 0]
  <2>1. ASSUME NEW u \in Callers, u # 0
        PROVE  fresh(u) \in Pass /\ fresh(u).at = "waiting" /\ fresh(u).attempt = 0 /\ fresh(u).tried = {}
    <3> DEFINE x == cursor + u - 1
               y == IF Fanned THEN x % PoolSize ELSE 0
    <3>1. x \in Nat
      BY <1>1, <2>1, ListingAssumption DEF ListingTypeOK, Proxies, Callers, PageIds
    <3> HIDE DEF x
    <3>2. x % PoolSize \in Proxies /\ 0 \in Proxies
      BY <3>1, ListingAssumption DEF Proxies
    <3>3. y \in Proxies
      BY <3>2
    <3>4. fresh(u) = [Resting EXCEPT !.at = "waiting", !.start = y]
      BY DEF x
    <3> HIDE DEF y, fresh
    <3>5. fresh(u) = [at |-> "waiting", start |-> y, attempt |-> 0, tried |-> {}]
      BY <3>4 DEF Resting
    <3> QED
      BY <3>3, <3>5, ListingAssumption DEF Pass
  <2>2. passes' = [u \in Callers |-> IF u = 0 THEN passes[0] ELSE fresh(u)] /\ UNCHANGED <<proxies, cursor>> /\ polling' = TRUE
    BY <1>3 DEF StartListing
  <2> HIDE DEF fresh
  <2>3. passes' \in [Callers -> Pass]
    BY <1>1, <2>1, <2>2 DEF Callers
  <2>4. ListingTypeOK'
    BY <1>1, <2>2, <2>3, Zenon DEF ListingTypeOK, Proxies, Callers, Pass, PageIds
  <2>5. ASSUME NEW u \in Callers PROVE PassOK(u, passes[u])'
    BY <2>1, <2>2 DEF ListingInv, PassOK, Behind, Tries
  <2> QED
    BY <2>4, <2>5 DEF ListingInv, Callers, PageIds
<1>4. CASE EndListing
  <2> DEFINE x == passes[1].start + DatedPages
  <2>0. 1 \in Callers
    BY ListingAssumption DEF Callers, PageIds
  <2>1. x \in Nat
    BY <2>0, <1>1, ListingAssumption DEF Pass, Proxies
  <2> HIDE DEF x
  <2>2. x % PoolSize \in Proxies
    BY <2>1, ListingAssumption DEF Proxies
  <2>3. AfterFanOut \in Proxies
    BY <2>2 DEF x, AfterFanOut
  <2>4. passes' = [u \in Callers |-> IF u = 0 THEN passes[0] ELSE Resting] /\ UNCHANGED proxies /\ polling' = FALSE
        /\ cursor' \in Proxies
    BY <1>1, <1>4, <2>3 DEF EndListing, ListingTypeOK
  <2>5. passes' \in [Callers -> Pass]
    BY <1>1, <2>4, RestingIsPass DEF Callers
  <2>6. ListingTypeOK'
    BY <1>1, <2>4, <2>5, Zenon DEF ListingTypeOK, Proxies, Callers, Pass, PageIds
  <2>7. ASSUME NEW u \in Callers PROVE PassOK(u, passes[u])'
    BY <2>4, RestingIsPass DEF ListingInv, PassOK, Behind, Tries
  <2> QED
    BY <2>6, <2>7 DEF ListingInv, Callers, PageIds
<1>5. CASE BeginScore
  <2> DEFINE q == [Resting EXCEPT !.at = "trying", !.start = cursor]
  <2>1. passes' = [passes EXCEPT ![0] = q] /\ UNCHANGED <<proxies, cursor, polling>>
    BY <1>5 DEF BeginScore
  <2>2. q \in Pass /\ q.at = "trying" /\ q.attempt = 0 /\ q.tried = {}
    <3>0. q = [Resting EXCEPT !.at = "trying", !.start = cursor]
      OBVIOUS
    <3> HIDE DEF q
    <3>1. q = [at |-> "trying", start |-> cursor, attempt |-> 0, tried |-> {}]
      BY <3>0 DEF Resting
    <3> QED
      BY <1>1, <3>1, ListingAssumption DEF Pass, ListingTypeOK
  <2> HIDE DEF q
  <2>3. PassOK(0, q)
    BY <2>2, TriesAreFew DEF PassOK, Behind
  <2>4. 0 \in Callers
    BY DEF Callers
  <2> QED
    BY <1>1, <2>1, <2>2, <2>3, <2>4, OnePassChanges DEF ListingTypeOK
<1>6. CASE \E u \in PageIds : BeginPage(u)
  <2>1. PICK u \in PageIds : BeginPage(u)
    BY <1>6
  <2> DEFINE q == [passes[u] EXCEPT !.at = "trying", !.start = IF Fanned THEN @ ELSE cursor]
  <2>2. u \in Callers /\ passes[u] \in Pass /\ passes[u].attempt = 0 /\ passes[u].tried = {}
    BY <1>1, <2>1 DEF Callers, BeginPage, ListingInv, PassOK
  <2>3. passes' = [passes EXCEPT ![u] = q] /\ UNCHANGED <<proxies, cursor, polling>>
    BY <2>1, Zenon DEF BeginPage
  <2> DEFINE p == passes[u]
             first == IF Fanned THEN p.start ELSE cursor
  <2>a. p \in Pass /\ p.attempt = 0 /\ p.tried = {} /\ first \in Proxies /\ cursor \in Proxies
    BY <1>1, <2>2 DEF Pass, ListingTypeOK
  <2>b. q = [p EXCEPT !.at = "trying", !.start = first]
    OBVIOUS
  <2> HIDE DEF q, p, first
  <2>c. q = [at |-> "trying", start |-> first, attempt |-> 0, tried |-> {}]
    BY <2>a, <2>b DEF Pass
  <2>4. q \in Pass /\ q.at = "trying" /\ q.attempt = 0 /\ q.tried = {}
    BY <2>a, <2>c, ListingAssumption DEF Pass
  <2>5. PassOK(u, q)
    BY <2>4, TriesAreFew DEF PassOK, Behind
  <2> QED
    BY <1>1, <2>2, <2>3, <2>4, <2>5, OnePassChanges DEF ListingTypeOK
<1>7. CASE \E u \in Callers : PassStep(u)
  BY <1>7, PassStepKeepsInv
<1> QED
  BY <1>2, <1>3, <1>4, <1>5, <1>6, <1>7 DEF ListingNext

\* A pass that ends with nothing has been through its proxies.
LEMMA ListingInvIsEnough == ListingInv => ListingTypeOK /\ NothingIsEarned
BY DEF ListingInv, PassOK, NothingIsEarned


-----------------------------------------------------------------------------
(* The exchange's API                                                      *)

ApiReads == [market : ApiMarkets, readAt : 0 .. apiNow]

ApiInv ==
  /\ ApiTypeOK
  /\ cycle \in [op : {"none", "catalogue", "books"}, stamp : Int, todo : SUBSET ApiMarkets,
                got : SUBSET ApiReads, refused : SUBSET (1 .. logins)]
  /\ IsFiniteSet(cycle.got)
  /\ cycle.refused = {} \/ \E spent \in 1 .. logins : cycle.refused = {spent} /\ token # spent
  /\ LostOnlyTwice

\* No cycle has begun and no token was refused.
LEMMA ApiStart == ApiInit => ApiInv
<1> SUFFICES ASSUME ApiInit PROVE ApiInv
  OBVIOUS
<1>1. cycle.refused = {} /\ cycle.got = {} /\ IsFiniteSet({})
  BY FS_EmptySet DEF ApiInit, NoCycle
<1>2. ApiTypeOK
  BY ApiAssumption DEF ApiInit, ApiTypeOK, NoCycle
<1>3. cycle \in [op : {"none", "catalogue", "books"}, stamp : Int, todo : SUBSET ApiMarkets,
                 got : SUBSET ApiReads, refused : SUBSET (1 .. logins)]
  BY DEF ApiInit, NoCycle
<1> QED
  BY <1>1, <1>2, <1>3 DEF ApiInv, ApiInit, LostOnlyTwice

\* The cycle is over: what is left of it is nothing.
LEMMA ApiCycleOver ==
  ASSUME cycle' = NoCycle, ApiTypeOK', LostOnlyTwice'
  PROVE  ApiInv'
<1>1. cycle'.refused = {} /\ cycle'.got = {} /\ IsFiniteSet({})
  BY FS_EmptySet DEF NoCycle
<1>2. cycle' \in [op : {"none", "catalogue", "books"}, stamp : Int, todo : SUBSET ApiMarkets,
                  got : SUBSET ApiReads', refused : SUBSET (1 .. logins')]
  BY DEF NoCycle
<1> QED
  BY <1>1, <1>2 DEF ApiInv, ApiReads

\* The clock, the tokens and the cycle move; what was reported and written stays.
LEMMA ApiMoves ==
  ASSUME ApiInv, UNCHANGED <<lost, report, promoted>>, apiNow' \in 0 .. ApiClock, apiNow <= apiNow',
         logins' \in 0 .. MaxLogins, token' \in 0 .. logins', ended' \subseteq 1 .. logins',
         cycle'.op \in {"none", "catalogue", "books"}
  PROVE  ApiTypeOK' /\ LostOnlyTwice'
<1>1. ApiTypeOK /\ LostOnlyTwice /\ apiNow \in Nat
  BY ApiAssumption DEF ApiInv, ApiTypeOK
<1>2. \A r \in promoted : r.market \in ApiMarkets /\ r.readAt \in 0 .. apiNow'
  BY <1>1, ApiAssumption DEF ApiTypeOK
<1> QED
  BY <1>1, <1>2 DEF ApiTypeOK, LostOnlyTwice

\* Two different tokens are two.
LEMMA TwoTokens ==
  ASSUME NEW s1, NEW s2, s1 # s2
  PROVE  Cardinality({s1} \cup {s2}) = 2
<1>1. IsFiniteSet({s1}) /\ Cardinality({s1}) = 1
  BY FS_Singleton, Zenon
<1>2. Cardinality({s1} \cup {s2}) = Cardinality({s1}) + 1
  BY <1>1, FS_AddElement
<1> QED
  BY <1>1, <1>2


\* What a cycle reports adds up.
LEMMA ReportAddsUp ==
  ASSUME NEW joined, IsFiniteSet(joined), NEW time0
  PROVE  LET matched == {r \in joined : r.market.ref # {}}
         IN  /\ Cardinality(joined) = Cardinality(matched) + Cardinality(joined \ matched)
             /\ Cardinality(Agree(joined)) <= Cardinality(Compared(joined))
             /\ Cardinality(Fresher(joined, time0)) <= Cardinality(Compared(joined))
<1> DEFINE matched == {r \in joined : r.market.ref # {}}
<1>1. joined \cap matched = matched /\ matched \in SUBSET joined /\ Compared(joined) \in SUBSET joined
      /\ Agree(joined) \in SUBSET Compared(joined) /\ Fresher(joined, time0) \in SUBSET Compared(joined)
  BY DEF Compared, Agree, Fresher
<1> HIDE DEF matched
<1>2. IsFiniteSet(matched) /\ IsFiniteSet(Compared(joined)) /\ Cardinality(joined) \in Nat /\ Cardinality(matched) \in Nat
  BY <1>1, FS_Subset, FS_CardinalityType
<1>3. Cardinality(joined \ matched) = Cardinality(joined) - Cardinality(matched)
  BY <1>1, FS_Difference
<1>4. Cardinality(joined) = Cardinality(matched) + Cardinality(joined \ matched)
  BY <1>2, <1>3
<1>5. /\ Cardinality(Agree(joined)) <= Cardinality(Compared(joined))
      /\ Cardinality(Fresher(joined, time0)) <= Cardinality(Compared(joined))
  BY <1>1, <1>2, FS_Subset
<1> QED
  BY <1>4, <1>5 DEF matched

\* What one batch reads is finite.
LEMMA ReadsAreFinite ==
  ASSUME NEW asked \in SUBSET ApiMarkets, NEW at0
  PROVE  IsFiniteSet({[market |-> x, readAt |-> at0] : x \in asked})
<1> DEFINE Read == {[market |-> x, readAt |-> at0] : x \in asked}
           how  == [x \in asked |-> [market |-> x, readAt |-> at0]]
<1>1. IsFiniteSet(asked)
  BY ApiAssumption, FS_Subset
<1>2. how \in Surjection(asked, Read)
  BY DEF Surjection
<1> HIDE DEF Read, how
<1>3. IsFiniteSet(Read)
  BY <1>1, <1>2, FS_Surjection
<1> QED
  BY <1>3 DEF Read

\* A call, a login and a clock tick: two refusals are of two tokens, the spent one first (_call).
LEMMA ApiKeepsInv ==
  ASSUME ApiInv, [ApiNext]_apiVars
  PROVE  ApiInv'
<1>1. /\ ApiTypeOK /\ LostOnlyTwice /\ apiNow \in 0 .. ApiClock /\ logins \in 0 .. MaxLogins
      /\ token \in 0 .. logins /\ ended \subseteq 1 .. logins /\ ApiClock \in Nat /\ MaxLogins \in Nat
  BY ApiAssumption DEF ApiInv, ApiTypeOK
<1>2. /\ cycle \in [op : {"none", "catalogue", "books"}, stamp : Int, todo : SUBSET ApiMarkets,
                    got : SUBSET ApiReads, refused : SUBSET (1 .. logins)]
      /\ IsFiniteSet(cycle.got)
      /\ cycle.refused = {} \/ \E spent \in 1 .. logins : cycle.refused = {spent} /\ token # spent
  BY DEF ApiInv
<1>3. CASE UNCHANGED apiVars
  BY <1>3 DEF ApiInv, ApiTypeOK, ApiReads, LostOnlyTwice, apiVars
<1>4. CASE StartApiCycle
  <2> DEFINE c == [NoCycle EXCEPT !.op = "catalogue", !.stamp = apiNow]
  <2>1. cycle' = c /\ UNCHANGED <<apiNow, token, ended, logins, lost, report, promoted>>
    BY <1>4 DEF StartApiCycle
  <2>2. c = [NoCycle EXCEPT !.op = "catalogue", !.stamp = apiNow]
    OBVIOUS
  <2> HIDE DEF c
  <2>3. c = [op |-> "catalogue", stamp |-> apiNow, todo |-> {}, got |-> {}, refused |-> {}]
    BY <2>2 DEF NoCycle
  <2>4. c \in [op : {"none", "catalogue", "books"}, stamp : Int, todo : SUBSET ApiMarkets,
               got : SUBSET ApiReads, refused : SUBSET (1 .. logins)] /\ c.got = {} /\ c.refused = {} /\ IsFiniteSet({})
    BY <1>1, <2>3, FS_EmptySet
  <2>5. ApiTypeOK' /\ LostOnlyTwice'
    BY <1>1, <2>1, <2>4, ApiMoves
  <2> QED
    BY <2>1, <2>4, <2>5 DEF ApiInv, ApiReads
<1>5. CASE LogIn
  <2>1. logins' = logins + 1 /\ token' = logins' /\ logins < MaxLogins
        /\ UNCHANGED <<apiNow, ended, cycle, lost, report, promoted>>
    BY <1>5 DEF LogIn
  <2>2. ApiTypeOK' /\ LostOnlyTwice'
    BY <1>1, <1>2, <2>1, ApiMoves
  <2>3. cycle.refused \subseteq 1 .. logins' /\ (cycle.refused = {} \/ \E spent \in 1 .. logins' : cycle.refused = {spent} /\ token' # spent)
    BY <1>1, <1>2, <2>1
  <2>4. cycle \in [op : {"none", "catalogue", "books"}, stamp : Int, todo : SUBSET ApiMarkets,
                   got : SUBSET ApiReads, refused : SUBSET (1 .. logins')]
    BY <1>2, <2>3
  <2> QED
    BY <1>2, <2>1, <2>2, <2>3, <2>4 DEF ApiInv, ApiReads
<1>6. ASSUME NEW why \in {"login", "call"}, LoseCycle(why), UNCHANGED token PROVE ApiInv'
  <2>1. cycle' = NoCycle /\ lost' = [why |-> why, refused |-> cycle.refused] /\ UNCHANGED <<apiNow, token, ended, logins, report, promoted>>
    BY <1>6 DEF LoseCycle
  <2>2. ApiTypeOK' /\ LostOnlyTwice'
    BY <1>1, <2>1 DEF ApiTypeOK, LostOnlyTwice, NoCycle
  <2> QED
    BY <2>1, <2>2, ApiCycleOver
<1>7. CASE LoginFails
  BY <1>6, <1>7 DEF LoginFails
<1>8. CASE CallFails
  BY <1>6, <1>8 DEF CallFails
<1>9. CASE CallRefused
  <2>1. token \in 1 .. logins /\ AfterRefusal
    BY <1>1, <1>9 DEF CallRefused
  <2>2. CASE cycle.refused = {}
    <3>1. token' = 0 /\ cycle' = [cycle EXCEPT !.refused = {token}] /\ UNCHANGED <<apiNow, ended, logins, lost, report, promoted>>
      BY <2>1, <2>2 DEF AfterRefusal
    <3>2. cycle' \in [op : {"none", "catalogue", "books"}, stamp : Int, todo : SUBSET ApiMarkets,
                      got : SUBSET ApiReads, refused : SUBSET (1 .. logins)] /\ cycle'.got = cycle.got /\ cycle'.refused = {token}
      BY <1>2, <2>1, <3>1
    <3>3. ApiTypeOK' /\ LostOnlyTwice'
      BY <1>1, <3>1, <3>2, ApiMoves
    <3> QED
      BY <1>2, <2>1, <3>1, <3>2, <3>3 DEF ApiInv, ApiReads
  <2>3. CASE cycle.refused # {}
    <3>1. cycle' = NoCycle /\ lost' = [why |-> "session", refused |-> cycle.refused \cup {token}]
          /\ UNCHANGED <<apiNow, token, ended, logins, report, promoted>>
      BY <2>1, <2>3 DEF AfterRefusal
    <3>2. PICK spent \in 1 .. logins : cycle.refused = {spent} /\ token # spent
      BY <1>2, <2>3
    <3>3. Cardinality(lost'.refused) = 2
      <4>1. Cardinality({spent} \cup {token}) = 2
        BY <3>2, TwoTokens
      <4>2. lost'.refused = {spent} \cup {token}
        BY <3>1, <3>2
      <4> QED
        BY <4>1, <4>2, Zenon
    <3>4. ApiTypeOK' /\ LostOnlyTwice'
      BY <1>1, <3>1, <3>3 DEF ApiTypeOK, LostOnlyTwice, NoCycle
    <3> QED
      BY <3>1, <3>4, ApiCycleOver
  <2> QED
    BY <2>2, <2>3
<1>10. CASE CatalogueRead
  <2> DEFINE c == [cycle EXCEPT !.op = "books", !.todo = Catalogue(cycle.stamp), !.refused = {}]
             wanted == Catalogue(cycle.stamp)
  <2>1. cycle' = c /\ UNCHANGED <<apiNow, token, ended, logins, lost, report, promoted>>
    BY <1>10 DEF CatalogueRead
  <2>2. c = [cycle EXCEPT !.op = "books", !.todo = wanted, !.refused = {}] /\ wanted \in SUBSET ApiMarkets
    BY DEF Catalogue
  <2> HIDE DEF c, wanted
  <2>3. c = [op |-> "books", stamp |-> cycle.stamp, todo |-> wanted, got |-> cycle.got, refused |-> {}]
    BY <1>2, <2>2
  <2>4. c \in [op : {"none", "catalogue", "books"}, stamp : Int, todo : SUBSET ApiMarkets,
               got : SUBSET ApiReads, refused : SUBSET (1 .. logins)] /\ c.got = cycle.got /\ c.refused = {}
    BY <1>2, <2>2, <2>3
  <2>5. ApiTypeOK' /\ LostOnlyTwice'
    BY <1>1, <2>1, <2>4, ApiMoves
  <2> QED
    BY <1>2, <2>1, <2>4, <2>5 DEF ApiInv, ApiReads
<1>11. CASE BooksRead
  <2>1. PICK asked \in NextBatch(cycle.todo) :
          cycle' = [cycle EXCEPT !.todo = @ \ asked, !.got = @ \cup {[market |-> x, readAt |-> apiNow] : x \in asked}, !.refused = {}]
    BY <1>11 DEF BooksRead
  <2>2. UNCHANGED <<apiNow, token, ended, logins, lost, report, promoted>>
    BY <1>11 DEF BooksRead
  <2> DEFINE Read == {[market |-> x, readAt |-> apiNow] : x \in asked}
             left == cycle.todo \ asked
             all  == cycle.got \cup Read
  <2>3. asked \in SUBSET ApiMarkets /\ left \in SUBSET ApiMarkets
    BY <1>2 DEF NextBatch
  <2>4. IsFiniteSet(Read) /\ Read \in SUBSET ApiReads
    <3>1. IsFiniteSet(Read)
      BY <2>3, ReadsAreFinite, Zenon
    <3>2. \A x \in asked : [market |-> x, readAt |-> apiNow] \in ApiReads
      BY <1>1, <2>3, ApiAssumption DEF ApiReads
    <3>3. Read \in SUBSET ApiReads
      BY <3>2, Zenon
    <3> QED
      BY <3>1, <3>3
  <2> HIDE DEF Read
  <2>5. IsFiniteSet(all) /\ all \in SUBSET ApiReads
    BY <1>2, <2>4, FS_Union
  <2>6. cycle' = [cycle EXCEPT !.todo = left, !.got = all, !.refused = {}]
    BY <2>1 DEF Read
  <2> HIDE DEF left, all
  <2>7. cycle' = [op |-> cycle.op, stamp |-> cycle.stamp, todo |-> left, got |-> all, refused |-> {}]
    BY <1>2, <2>6
  <2>8. cycle' \in [op : {"none", "catalogue", "books"}, stamp : Int, todo : SUBSET ApiMarkets,
                    got : SUBSET ApiReads, refused : SUBSET (1 .. logins)] /\ cycle'.got = all /\ cycle'.refused = {}
    BY <1>2, <2>3, <2>5, <2>7
  <2>9. ApiTypeOK' /\ LostOnlyTwice'
    BY <1>1, <2>2, <2>8, ApiMoves
  <2> QED
    BY <2>2, <2>5, <2>8, <2>9 DEF ApiInv, ApiReads
<1>12. CASE ApiCycleEnds
  <2> DEFINE joined  == Joined(cycle.got)
             matched == {r \in joined : r.market.ref # {}}
             rep == [fetched |-> Cardinality(joined), matched |-> Cardinality(matched),
                     unmatched |-> Cardinality(joined \ matched), compared |-> Cardinality(Compared(joined)),
                     agree |-> Cardinality(Agree(joined)), fresher |-> Cardinality(Fresher(joined, cycle.stamp))]
  <2>1. joined \in SUBSET cycle.got /\ IsFiniteSet(joined)
    <3>1. joined \in SUBSET cycle.got
      BY DEF Joined
    <3> QED
      BY <1>2, <3>1, FS_Subset
  <2>2. report' = rep /\ cycle' = NoCycle /\ UNCHANGED <<apiNow, token, ended, logins, lost>>
        /\ promoted' = IF Promote THEN promoted \cup {Written(r) : r \in matched} ELSE promoted
    BY <1>12 DEF ApiCycleEnds
  <2>3. rep.fetched = rep.matched + rep.unmatched /\ rep.agree <= rep.compared /\ rep.fresher <= rep.compared
    <3> HIDE DEF joined
    <3> QED
      BY <2>1, ReportAddsUp, Zenon
  <2>4. \A r \in promoted' : r.market \in ApiMarkets /\ r.readAt \in 0 .. apiNow
    <3>1. \A r \in cycle.got : Written(r).market \in ApiMarkets /\ Written(r).readAt \in 0 .. apiNow
      BY <1>2 DEF Written, ApiReads
    <3>2. \A r \in promoted : r.market \in ApiMarkets /\ r.readAt \in 0 .. apiNow
      BY <1>1 DEF ApiTypeOK
    <3>3. \A r \in matched : r \in cycle.got
      BY <2>1
    <3> HIDE DEF matched
    <3>4. \A w \in promoted' : w \in promoted \/ \E r \in matched : w = Written(r)
      BY <2>2
    <3> QED
      BY <3>1, <3>2, <3>3, <3>4
  <2> HIDE DEF rep, matched, joined
  <2>5. ApiTypeOK' /\ LostOnlyTwice'
    BY <1>1, <2>2, <2>3, <2>4 DEF ApiTypeOK, LostOnlyTwice, NoCycle
  <2> QED
    BY <2>2, <2>5, ApiCycleOver
<1>13. CASE SessionEnds
  <2>1. ended' = ended \cup {token} /\ token \in 1 .. logins /\ UNCHANGED <<apiNow, token, logins, cycle, lost, report, promoted>>
    BY <1>1, <1>13 DEF SessionEnds
  <2>2. ApiTypeOK' /\ LostOnlyTwice'
    BY <1>1, <1>2, <2>1, ApiMoves
  <2> QED
    BY <1>2, <2>1, <2>2 DEF ApiInv, ApiReads
<1>14. CASE ApiTick
  <2>1. apiNow' = apiNow + 1 /\ apiNow < ApiClock /\ UNCHANGED <<token, ended, logins, cycle, lost, report, promoted>>
    BY <1>14 DEF ApiTick
  <2>2. ApiTypeOK' /\ LostOnlyTwice'
    BY <1>1, <1>2, <2>1, ApiMoves
  <2>3. cycle.got \in SUBSET ApiReads'
    BY <1>1, <1>2, <2>1 DEF ApiReads
  <2> QED
    BY <1>2, <2>1, <2>2, <2>3 DEF ApiInv
<1> QED
  BY <1>3, <1>4, <1>5, <1>7, <1>8, <1>9, <1>10, <1>11, <1>12, <1>13, <1>14 DEF ApiNext


-----------------------------------------------------------------------------
(* The finished scores                                                     *)

Worker == [at : {"idle", "ended", "links", "commit"}, queue : SUBSET (PickedGames \X BOOLEAN),
           game : PickedGames \cup {0}, full : BOOLEAN, teams : Header, hung : 0 .. Budget]

\* What a job is about to write may be written.
WorkerOK(w) == w.at = "commit" => /\ w.game \in PickedGames
                                  /\ w.teams.score \in {"partial", "final"} /\ w.teams.flag # "running"

ScoreInv ==
  /\ ScoreTypeOK
  /\ \A j \in CaptureJobs : WorkerOK(worker[j])
  /\ RunningScoreRejected

\* The page nobody has read yet is a page header.
LEMMA UnseenIsHeader == Unseen \in Header
BY DEF Unseen, Header, Flags, NoScore

\* A capture with a queue and no page open is in order.
LEMMA IdleIsWorker ==
  ASSUME NEW how \in {"idle", "ended", "links"}, NEW todo \in SUBSET (PickedGames \X BOOLEAN), NEW w,
         w = [at |-> how, queue |-> todo, game |-> 0, full |-> FALSE, teams |-> Unseen, hung |-> 0]
  PROVE  w \in Worker /\ WorkerOK(w)
<1>1. w \in Worker
  BY UnseenIsHeader, CaptureAssumption DEF Worker
<1> QED
  BY <1>1 DEF WorkerOK

\* A capture that has not begun is in order.
LEMMA IdleStands == Idle \in Worker /\ WorkerOK(Idle)
BY IdleIsWorker DEF Idle

\* No capture has begun and nothing is recorded.
LEMMA ScoreStart == ScoreInit => ScoreInv
<1> SUFFICES ASSUME ScoreInit PROVE ScoreInv
  OBVIOUS
<1>1. worker \in [CaptureJobs -> Worker] /\ \A j \in CaptureJobs : WorkerOK(worker[j])
  BY IdleStands DEF ScoreInit
<1>2. headers \in [PickedGames -> Header]
  BY UnseenIsHeader DEF ScoreInit
<1>3. ScoreTypeOK
  BY <1>1, <1>2 DEF ScoreInit, ScoreTypeOK, Worker, NoScore
<1> QED
  BY <1>1, <1>3 DEF ScoreInv, ScoreInit, RunningScoreRejected, NoScore

\* One job moves, and nothing of the table changes.
LEMMA OneJobMoves ==
  ASSUME ScoreInv, UNCHANGED <<phase, past, hangs, awaited, recorded, status, tookFrom>>,
         headers' \in [PickedGames -> Header],
         NEW j \in CaptureJobs, NEW w \in Worker, worker' = [worker EXCEPT ![j] = w], WorkerOK(w)
  PROVE  ScoreInv'
<1>1. worker \in [CaptureJobs -> Worker]
  BY DEF ScoreInv, ScoreTypeOK, Worker
<1>2. worker' \in [CaptureJobs -> Worker] /\ \A i \in CaptureJobs : worker'[i] = IF i = j THEN w ELSE worker[i]
  BY <1>1
<1>3. ScoreTypeOK'
  BY <1>2 DEF ScoreInv, ScoreTypeOK, Worker
<1>4. \A i \in CaptureJobs : WorkerOK(worker'[i])
  BY <1>2 DEF ScoreInv
<1> QED
  BY <1>3, <1>4 DEF ScoreInv, RunningScoreRejected, WorkerOK

\* The game itself, the floors and the pick move; the jobs and the table do not.
LEMMA WorldMoves ==
  ASSUME ScoreInv, UNCHANGED <<hangs, recorded, status, worker, tookFrom>>,
         phase' \in [PickedGames -> {"to come", "in play", "over"}],
         past' \in [PickedGames -> {"none", "soft floor", "full floor", "window"}],
         awaited' \in [PickedGames -> BOOLEAN], headers' \in [PickedGames -> Header]
  PROVE  ScoreInv'
<1>1. ScoreTypeOK'
  BY DEF ScoreInv, ScoreTypeOK
<1> QED
  BY <1>1 DEF ScoreInv, RunningScoreRejected, WorkerOK

\* What a page shows is a header.
LEMMA PageIsHeader ==
  ASSUME NEW g, NEW h \in Page(g)
  PROVE  h \in Header
BY DEF Page, Header, ScoreShown, FlagShown, Flags, NoScore


\* One step of a capture: queueing, reading, recording, ending (capture_finished_scores).
LEMMA CaptureStepKeepsInv ==
  ASSUME ScoreInv, NEW j \in CaptureJobs, StartCapture(j) \/ CaptureStep(j)
  PROVE  ScoreInv'
<1>1. /\ worker \in [CaptureJobs -> Worker] /\ worker[j] \in Worker /\ WorkerOK(worker[j])
      /\ headers \in [PickedGames -> Header] /\ ScoreTypeOK /\ RunningScoreRejected
  BY DEF ScoreInv, ScoreTypeOK, Worker
<1>2. CASE StartCapture(j)
  <2>1. PICK chosen \in SUBSET Due :
          worker' = [worker EXCEPT ![j] = [Idle EXCEPT !.at = "links", !.queue = {<<g, past[g] = "full floor">> : g \in chosen}]]
    BY <1>2 DEF StartCapture
  <2>2. UNCHANGED <<phase, past, hangs, awaited, headers, recorded, status, tookFrom>>
    BY <1>2 DEF StartCapture
  <2> DEFINE todo == {<<g, past[g] = "full floor">> : g \in chosen}
             w == [Idle EXCEPT !.at = "links", !.queue = todo]
  <2>3. todo \in SUBSET (PickedGames \X BOOLEAN)
    <3>1. \A g \in chosen : g \in PickedGames /\ (past[g] = "full floor") \in BOOLEAN
      BY DEF Due
    <3>2. \A g \in PickedGames : \A b \in BOOLEAN : <<g, b>> \in PickedGames \X BOOLEAN
      OBVIOUS
    <3>3. \A g \in chosen : <<g, past[g] = "full floor">> \in PickedGames \X BOOLEAN
      BY <3>1, <3>2, Zenon
    <3> QED
      BY <3>3, Zenon
  <2>4. worker' = [worker EXCEPT ![j] = w] /\ w = [Idle EXCEPT !.at = "links", !.queue = todo]
    BY <2>1
  <2> HIDE DEF todo, w
  <2>5. w = [at |-> "links", queue |-> todo, game |-> 0, full |-> FALSE, teams |-> Unseen, hung |-> 0]
    BY <2>4 DEF Idle
  <2>6. w \in Worker /\ WorkerOK(w)
    BY <2>3, <2>5, IdleIsWorker
  <2> QED
    BY <1>1, <2>2, <2>4, <2>6, OneJobMoves
<1>3. CASE EndCapture(j)
  <2>1. Ended(j) \in Worker /\ WorkerOK(Ended(j))
    <3> DEFINE w == [Idle EXCEPT !.at = "ended"]
    <3>1. w = [Idle EXCEPT !.at = "ended"]
      OBVIOUS
    <3> HIDE DEF w
    <3>2. w = [at |-> "ended", queue |-> {}, game |-> 0, full |-> FALSE, teams |-> Unseen, hung |-> 0]
      BY <3>1 DEF Idle
    <3>3. w \in Worker /\ WorkerOK(w)
      BY <3>2, IdleIsWorker
    <3> QED
      BY <3>3, IdleStands DEF Ended, w
  <2> QED
    BY <1>1, <1>3, <2>1, OneJobMoves DEF EndCapture
<1>4. CASE FetchFails(j)
  <2>1. PICK l \in worker[j].queue :
          worker' = [worker EXCEPT ![j].queue = @ \ {l}, ![j].hung = IF l[1] \in hangs THEN @ + 1 ELSE @]
    BY <1>4 DEF FetchFails
  <2>2. /\ worker[j].at = "links" /\ worker[j].hung < Budget
        /\ UNCHANGED <<phase, past, hangs, awaited, headers, recorded, status, tookFrom>>
    BY <1>4 DEF FetchFails
  <2> DEFINE p == worker[j]
             todo == p.queue \ {l}
             hung == IF l[1] \in hangs THEN p.hung + 1 ELSE p.hung
             w == [p EXCEPT !.queue = todo, !.hung = hung]
  <2>3. worker' = [worker EXCEPT ![j] = w] /\ w = [p EXCEPT !.queue = todo, !.hung = hung]
    BY <1>1, <2>1
  <2>4. p \in Worker /\ p.at = "links" /\ todo \in SUBSET (PickedGames \X BOOLEAN) /\ hung \in 0 .. Budget
    BY <1>1, <2>2, CaptureAssumption DEF Worker
  <2> HIDE DEF p, todo, hung, w
  <2>5. w = [at |-> p.at, queue |-> todo, game |-> p.game, full |-> p.full, teams |-> p.teams, hung |-> hung]
    BY <2>3, <2>4 DEF Worker
  <2>6. w \in Worker /\ WorkerOK(w)
    BY <2>4, <2>5 DEF Worker, WorkerOK
  <2> QED
    BY <1>1, <2>2, <2>3, <2>6, OneJobMoves
<1>5. CASE FetchReturns(j)
  <2>1. PICK l \in worker[j].queue :
          /\ \/ \E h \in Page(l[1]) : headers' = [headers EXCEPT ![l[1]] = h]
             \/ UNCHANGED headers
          /\ worker' = IF Accepts(headers'[l[1]], l[2])
                       THEN [worker EXCEPT ![j].at = "commit", ![j].queue = @ \ {l}, ![j].game = l[1],
                                           ![j].full = l[2], ![j].teams = headers'[l[1]]]
                       ELSE [worker EXCEPT ![j].queue = @ \ {l}]
    BY <1>5, Zenon DEF FetchReturns
  <2>2. /\ worker[j].at = "links" /\ worker[j].hung < Budget
        /\ UNCHANGED <<phase, past, hangs, awaited, recorded, status, tookFrom>>
    BY <1>5 DEF FetchReturns
  <2>3. l[1] \in PickedGames /\ l[2] \in BOOLEAN
    BY <1>1 DEF Worker
  <2>4. headers' \in [PickedGames -> Header]
    <3>1. CASE UNCHANGED headers
      BY <1>1, <3>1
    <3>2. CASE \E h \in Page(l[1]) : headers' = [headers EXCEPT ![l[1]] = h]
      BY <1>1, <2>3, <3>2, PageIsHeader
    <3> QED
      BY <2>1, <3>1, <3>2
  <2> DEFINE p == worker[j]
             todo == p.queue \ {l}
             g == l[1]
             full == l[2]
             teams == headers'[l[1]]
  <2>5. p \in Worker /\ p.at = "links" /\ todo \in SUBSET (PickedGames \X BOOLEAN) /\ g \in PickedGames /\ full \in BOOLEAN
        /\ teams \in Header
    BY <1>1, <2>2, <2>3, <2>4 DEF Worker
  <2>6. CASE Accepts(teams, full)
    <3> DEFINE w == [p EXCEPT !.at = "commit", !.queue = todo, !.game = g, !.full = full, !.teams = teams]
    <3>1. worker' = [worker EXCEPT ![j] = w] /\ w = [p EXCEPT !.at = "commit", !.queue = todo, !.game = g, !.full = full, !.teams = teams]
      BY <1>1, <2>1, <2>6
    <3> HIDE DEF p, todo, g, full, teams, w
    <3>2. w = [at |-> "commit", queue |-> todo, game |-> g, full |-> full, teams |-> teams, hung |-> p.hung]
      BY <2>5, <3>1 DEF Worker
    <3>3. teams.score \in {"partial", "final"} /\ teams.flag # "running"
      BY <2>5, <2>6 DEF Accepts, Header
    <3>4. w \in Worker /\ WorkerOK(w)
      BY <2>5, <3>2, <3>3 DEF Worker, WorkerOK
    <3> QED
      BY <1>1, <2>2, <2>4, <3>1, <3>4, OneJobMoves
  <2>7. CASE ~Accepts(teams, full)
    <3> DEFINE w == [p EXCEPT !.queue = todo]
    <3>1. worker' = [worker EXCEPT ![j] = w] /\ w = [p EXCEPT !.queue = todo]
      BY <1>1, <2>1, <2>7
    <3> HIDE DEF p, todo, w
    <3>2. w = [at |-> p.at, queue |-> todo, game |-> p.game, full |-> p.full, teams |-> p.teams, hung |-> p.hung]
      BY <2>5, <3>1 DEF Worker
    <3>4. w \in Worker /\ WorkerOK(w)
      BY <2>5, <3>2 DEF Worker, WorkerOK
    <3> QED
      BY <1>1, <2>2, <2>4, <3>1, <3>4, OneJobMoves
  <2> QED
    BY <2>6, <2>7
<1>6. CASE CommitScore(j)
  <2> DEFINE p == worker[j]
             g == p.game
             w == [p EXCEPT !.at = "links", !.game = 0, !.full = FALSE, !.teams = Unseen]
  <2>1. /\ p.at = "commit"
        /\ recorded' = [recorded EXCEPT ![g] = IF MayWrite(g) THEN p.teams.score ELSE @]
        /\ tookFrom' = [tookFrom EXCEPT ![g] = IF MayWrite(g) THEN p.teams.flag ELSE @]
        /\ status' = [status EXCEPT ![g] = "finished"]
        /\ worker' = [worker EXCEPT ![j] = w]
        /\ UNCHANGED <<phase, past, hangs, awaited, headers>>
    BY <1>1, <1>6 DEF CommitScore
  <2>2. p \in Worker /\ g \in PickedGames /\ p.teams.score \in {"partial", "final"} /\ p.teams.flag \in Flags \ {"running"}
        /\ w = [p EXCEPT !.at = "links", !.game = 0, !.full = FALSE, !.teams = Unseen]
    BY <1>1, <2>1 DEF WorkerOK, Worker, Header
  <2> HIDE DEF p, g, w
  <2>3. w = [at |-> "links", queue |-> p.queue, game |-> 0, full |-> FALSE, teams |-> Unseen, hung |-> p.hung]
    BY <2>2 DEF Worker
  <2>4. w \in Worker /\ WorkerOK(w)
    BY <2>2, <2>3, UnseenIsHeader DEF Worker, WorkerOK
  <2>5. worker' \in [CaptureJobs -> Worker] /\ \A i \in CaptureJobs : WorkerOK(worker'[i])
    BY <1>1, <2>1, <2>4 DEF ScoreInv
  <2>6. recorded' \in [PickedGames -> {NoScore, "partial", "final"}] /\ status' \in [PickedGames -> {"scheduled", "finished"}]
        /\ tookFrom' \in [PickedGames -> Flags \cup {NoScore}] /\ \A x \in PickedGames : tookFrom'[x] # "running"
    BY <1>1, <2>1, <2>2 DEF ScoreTypeOK, RunningScoreRejected
  <2>7. ScoreTypeOK'
    BY <1>1, <2>1, <2>5, <2>6 DEF ScoreTypeOK, Worker
  <2> QED
    BY <2>5, <2>6, <2>7 DEF ScoreInv, RunningScoreRejected, WorkerOK
<1> QED
  BY <1>2, <1>3, <1>4, <1>5, <1>6 DEF CaptureStep

\* A capture's step or the game's own progress: nothing is taken from a running match's page.
LEMMA ScoreKeepsInv ==
  ASSUME ScoreInv, [ScoreNext]_scoreVars
  PROVE  ScoreInv'
<1>1. ScoreTypeOK
  BY DEF ScoreInv
<1>2. CASE UNCHANGED scoreVars
  BY <1>2 DEF ScoreInv, ScoreTypeOK, RunningScoreRejected, WorkerOK, scoreVars
<1>3. CASE \E j \in CaptureJobs : StartCapture(j) \/ CaptureStep(j)
  BY <1>3, CaptureStepKeepsInv
<1>4. ASSUME NEW g \in PickedGames, PollRegisters(g) PROVE ScoreInv'
  <2>1. PICK h \in Page(g) : headers' = [headers EXCEPT ![g] = h]
    BY <1>4 DEF PollRegisters
  <2>2. headers' \in [PickedGames -> Header]
    BY <1>1, <2>1, PageIsHeader DEF ScoreTypeOK
  <2> QED
    BY <1>1, <1>4, <2>2, WorldMoves DEF PollRegisters, ScoreTypeOK
<1>5. ASSUME NEW g \in PickedGames, KickOff(g) \/ FullTime(g) \/ TimePasses(g) \/ PickCloses(g) PROVE ScoreInv'
  <2>1. /\ phase' \in [PickedGames -> {"to come", "in play", "over"}]
        /\ past' \in [PickedGames -> {"none", "soft floor", "full floor", "window"}]
        /\ awaited' \in [PickedGames -> BOOLEAN] /\ headers' \in [PickedGames -> Header]
    BY <1>1, <1>5 DEF KickOff, FullTime, TimePasses, PickCloses, ScoreTypeOK
  <2>2. UNCHANGED <<hangs, recorded, status, worker, tookFrom>>
    BY <1>5 DEF KickOff, FullTime, TimePasses, PickCloses
  <2> QED
    BY <2>1, <2>2, WorldMoves
<1> QED
  BY <1>2, <1>3, <1>4, <1>5 DEF ScoreNext

\* The only action that touches a recorded score is the commit, which looks for one first.
LEMMA ScoreStepsHold ==
  ASSUME ScoreInv, [ScoreNext]_scoreVars, NEW g \in PickedGames, recorded[g] # NoScore
  PROVE  recorded'[g] = recorded[g]
<1>1. recorded \in [PickedGames -> {NoScore, "partial", "final"}]
  BY DEF ScoreInv, ScoreTypeOK
<1>2. CASE \E j \in CaptureJobs : CommitScore(j)
  BY <1>1, <1>2 DEF CommitScore, MayWrite
<1>3. CASE UNCHANGED recorded
  BY <1>3
<1>4. (\E j \in CaptureJobs : CommitScore(j)) \/ UNCHANGED recorded
  BY Zenon DEF ScoreNext, scoreVars, CaptureStep, StartCapture, EndCapture, FetchFails, FetchReturns,
     PollRegisters, KickOff, FullTime, TimePasses, PickCloses
<1> QED
  BY <1>2, <1>3, <1>4


-----------------------------------------------------------------------------
(* Orders                                                                  *)

\* R orders S, and no two of it are alike.
Orders(R, S) ==
  /\ \A x \in S : <<x, x>> \notin R
  /\ \A x, y, z \in S : <<x, y>> \in R /\ <<y, z>> \in R => <<x, z>> \in R
  /\ \A x, y \in S : x # y => <<x, y>> \in R \/ <<y, x>> \in R

Before(R, S, x) == {y \in S : <<y, x>> \in R}

\* In an order every place is somebody's.
LEMMA EveryPlaceIsTaken ==
  ASSUME NEW S, IsFiniteSet(S), NEW R, Orders(R, S), NEW n \in 1 .. Cardinality(S)
  PROVE  \E x \in S : Cardinality(Before(R, S, x)) = n - 1
<1> DEFINE place == [x \in S |-> Cardinality(Before(R, S, x)) + 1]
           Places == 1 .. Cardinality(S)
<1>1. Cardinality(S) \in Nat /\ IsFiniteSet(Places) /\ Cardinality(Places) = Cardinality(S)
  BY FS_CardinalityType, FS_Interval
<1>2. ASSUME NEW x \in S
      PROVE  IsFiniteSet(Before(R, S, x)) /\ Cardinality(Before(R, S, x)) \in Nat
             /\ Cardinality(Before(R, S, x)) + 1 <= Cardinality(S)
  <2>1. Before(R, S, x) \in SUBSET (S \ {x})
    BY <1>2 DEF Orders, Before
  <2>2. IsFiniteSet(S \ {x}) /\ Cardinality(S \ {x}) = Cardinality(S) - 1
    BY FS_RemoveElement
  <2>3. IsFiniteSet(Before(R, S, x)) /\ Cardinality(Before(R, S, x)) <= Cardinality(S \ {x})
    BY <2>1, <2>2, FS_Subset
  <2> QED
    BY <1>1, <2>2, <2>3, FS_CardinalityType
<1>3. ASSUME NEW x \in S, NEW y \in S, <<x, y>> \in R
      PROVE  Cardinality(Before(R, S, x)) < Cardinality(Before(R, S, y))
  <2>1. Before(R, S, x) \in SUBSET Before(R, S, y) /\ x \in Before(R, S, y) /\ x \notin Before(R, S, x)
    BY <1>3 DEF Orders, Before
  <2>2. Cardinality(Before(R, S, x)) <= Cardinality(Before(R, S, y)) /\ Cardinality(Before(R, S, x)) # Cardinality(Before(R, S, y))
    BY <1>2, <2>1, FS_Subset
  <2> QED
    BY <1>2, <2>2
<1>4. place \in Injection(S, Places)
  <2>1. \A x \in S : place[x] \in Places
    BY <1>1, <1>2
  <2>2. ASSUME NEW x \in S, NEW y \in S, place[x] = place[y], x # y PROVE FALSE
    <3>1. Cardinality(Before(R, S, x)) = Cardinality(Before(R, S, y))
      BY <1>2, <2>2
    <3>2. <<x, y>> \in R \/ <<y, x>> \in R
      BY <2>2 DEF Orders
    <3> QED
      BY <1>2, <1>3, <3>1, <3>2
  <2> QED
    BY <2>1, <2>2 DEF Injection, IsInjective
<1> HIDE DEF place, Places
<1>5. place \in Surjection(S, Places)
  BY <1>1, <1>4, FS_Injection
<1>6. PICK x \in S : place[x] = n
  BY <1>5 DEF Surjection, Places
<1> QED
  BY <1>2, <1>6 DEF place


-----------------------------------------------------------------------------
(* The kickoffs                                                            *)

Ats    == {{}} \cup {{h} : h \in Hours}
Stores == {{}} \cup {{[at |-> a]} : a \in Ats}

KickoffInv ==
  /\ scheduled \in [Contests -> RealTimes]
  /\ directory \in [Contests -> Stores] /\ events \in [Contests -> Stores]
  /\ slate \in Seq(Contests) /\ restarts \in Nat
  /\ scraped \subseteq {g \in Contests : directory[g] # {}}
  /\ DOMAIN targets \subseteq Contests /\ \A g \in DOMAIN targets : targets[g] \in Hours
  /\ heard \in [Contests -> Ats]
  /\ \A g \in Contests : Real(AtOf(directory, g)) => heard[g] = AtOf(directory, g)

\* A kickoff is one hour or none.
LEMMA AtsAreSets ==
  ASSUME NEW a \in Ats
  PROVE  a \subseteq Hours /\ Cardinality(a) <= 1 /\ (a # {} => \E h \in Hours : a = {h})
<1>1. CASE a = {}
  BY <1>1, FS_EmptySet
<1>2. CASE \E h \in Hours : a = {h}
  <2>1. PICK h \in Hours : a = {h}
    BY <1>2
  <2>2. Cardinality({h}) = 1
    BY FS_Singleton, Zenon
  <2> QED
    BY <2>1, <2>2
<1> QED
  BY <1>1, <1>2 DEF Ats

\* What a store of one record holds.
LEMMA StoreHolds ==
  ASSUME NEW a \in Ats
  PROVE  {[at |-> a]} \in Stores /\ UNION {k.at : k \in {[at |-> a]}} = a /\ {[at |-> a]} # {}
<1>1. UNION {k.at : k \in {[at |-> a]}} = a
  OBVIOUS
<1>2. {[at |-> a]} \in Stores
  BY DEF Stores
<1> QED
  BY <1>1, <1>2

\* A store's row of a game is one, with its kickoff.
LEMMA StoreIs ==
  ASSUME NEW row \in Stores, row # {}
  PROVE  \E a \in Ats : row = {[at |-> a]}
BY DEF Stores

\* prefer_kickoff gives a real kickoff up for no date, and what it gives that is real is the new one or the old.
LEMMA Preferred ==
  ASSUME NEW a \in Ats, NEW b \in Ats
  PROVE  /\ PreferKickoff(a, b) \in Ats
         /\ Real(a) => Real(PreferKickoff(a, b))
         /\ Real(PreferKickoff(a, b)) => PreferKickoff(a, b) = b \/ (Real(a) /\ PreferKickoff(a, b) = a /\ ~Real(b))
BY DEF PreferKickoff, Real

\* What the directory holds of a game after it is listed again.
LEMMA Registered ==
  ASSUME NEW known \in Stores, NEW said \in Ats
  PROVE  /\ Register(known, said) \in Stores /\ Register(known, said) # {}
         /\ UNION {k.at : k \in Register(known, said)} = IF known = {} THEN said
                                                         ELSE PreferKickoff(UNION {k.at : k \in known}, said)
<1>1. CASE known = {}
  BY <1>1, StoreHolds DEF Register
<1>2. CASE known # {}
  <2>1. PICK a \in Ats : known = {[at |-> a]}
    BY <1>2, StoreIs
  <2>2. Register(known, said) = {[at |-> PreferKickoff(a, said)]}
    BY <1>2, <2>1 DEF Register
  <2>3. PreferKickoff(a, said) \in Ats /\ UNION {k.at : k \in known} = a
    BY <2>1, Preferred, StoreHolds
  <2> QED
    BY <1>2, <2>2, <2>3, StoreHolds
<1> QED
  BY <1>1, <1>2

\* The events table after a write: a real kickoff stays real.
LEMMA Upserted ==
  ASSUME NEW row \in Stores, NEW a \in Ats
  PROVE  /\ Upsert(row, [at |-> a]) \in Stores
         /\ Refresh(row, [at |-> a]) \in Stores
         /\ Real(UNION {k.at : k \in row}) => /\ Real(UNION {k.at : k \in Upsert(row, [at |-> a])})
                                              /\ Real(UNION {k.at : k \in Refresh(row, [at |-> a])})
<1>1. CASE row = {}
  <2>1. Upsert(row, [at |-> a]) = {[at |-> a]} /\ Refresh(row, [at |-> a]) = {}
    BY <1>1 DEF Upsert, Refresh
  <2>2. ~Real(UNION {k.at : k \in row})
    BY <1>1 DEF Real
  <2> QED
    BY <2>1, <2>2, StoreHolds DEF Stores
<1>2. CASE row # {}
  <2>1. PICK b \in Ats : row = {[at |-> b]}
    BY <1>2, StoreIs
  <2> DEFINE c == PreferKickoff(b, a)
  <2>2. [[at |-> b] EXCEPT !.at = c] = [at |-> c]
    OBVIOUS
  <2>3. Upsert(row, [at |-> a]) = {[at |-> c]} /\ Refresh(row, [at |-> a]) \in {{[at |-> c]}, {[at |-> b]}}
    BY <1>2, <2>1, <2>2 DEF Upsert, Refresh
  <2>4. c \in Ats /\ (Real(b) => Real(c)) /\ UNION {k.at : k \in row} = b
    BY <2>1, Preferred, StoreHolds
  <2> HIDE DEF c
  <2> QED
    BY <2>3, <2>4, StoreHolds
<1> QED
  BY <1>1, <1>2


\* A store's kickoff of a game is the one on its row.
LEMMA AtOfIs ==
  ASSUME NEW store \in [Contests -> Stores], NEW g \in Contests
  PROVE  AtOf(store, g) \in Ats /\ (store[g] = {} => AtOf(store, g) = {})
                               /\ (store[g] # {} => store[g] = {[at |-> AtOf(store, g)]})
<1>1. CASE store[g] = {}
  BY <1>1 DEF AtOf, Ats
<1>2. CASE store[g] # {}
  <2>1. PICK a \in Ats : store[g] = {[at |-> a]}
    BY <1>2, StoreIs
  <2> QED
    BY <1>2, <2>1, StoreHolds DEF AtOf
<1> QED
  BY <1>1, <1>2

\* The poll's order has every game of the listing at one place.
LEMMA SlateIsOrdered ==
  ASSUME KickoffInv, NEW entries \in Listings
  PROVE  OrderForFreshness(entries) \in Seq(Contests)
<1> DEFINE N == Cardinality(Contests)
           D == 1 .. N
           key(i) == KickoffFor(entries[i])
           R == {p \in D \X D : p[1] # p[2] /\ ScrapedBefore(entries, p[1], p[2])}
<1>1. N \in Nat /\ IsFiniteSet(D) /\ Cardinality(D) = N /\ DOMAIN entries = D /\ entries \in [D -> Contests]
  <2>1. N \in Nat
    BY KickoffsAssumption, FS_CardinalityType
  <2>2. DOMAIN entries = D /\ entries \in [D -> Contests]
    BY DEF Listings
  <2> HIDE DEF N
  <2>3. IsFiniteSet(1 .. N) /\ Cardinality(1 .. N) = N
    BY <2>1, FS_Interval
  <2> QED
    BY <2>1, <2>2, <2>3
<1>2. ASSUME NEW i \in D PROVE key(i) = {} \/ \E h \in Hours : key(i) = {h}
  <2>1. AtOf(directory, entries[i]) \in Ats
    BY <1>1, AtOfIs DEF KickoffInv
  <2> QED
    BY <2>1, AtsAreSets DEF KickoffFor
<1>3. \A i, j \in D : ScrapedBefore(entries, i, j) <=>
         \/ key(i) = {} /\ (key(j) # {} \/ i < j)
         \/ key(i) # {} /\ key(j) # {} /\ \E a \in key(i), b \in key(j) : a > b \/ (a = b /\ i < j)
  BY DEF ScrapedBefore
<1> HIDE DEF key, D
<1>4. \A h \in Hours : h \in Int
  BY DEF Hours
<1>5. \A i \in D : i \in Int
  BY DEF D
<1>6. \A x, y \in D : <<x, y>> \in R <=> x # y /\ ScrapedBefore(entries, x, y)
  OBVIOUS
<1> HIDE DEF R
<1>7. ASSUME NEW x \in D, NEW y \in D, x # y PROVE <<x, y>> \in R \/ <<y, x>> \in R
  <2>1. ScrapedBefore(entries, x, y) \/ ScrapedBefore(entries, y, x)
    BY <1>2, <1>3, <1>4, <1>5, <1>7
  <2> QED
    BY <1>6, <1>7, <2>1
<1>8. ASSUME NEW x \in D, NEW y \in D, NEW z \in D, <<x, y>> \in R, <<y, z>> \in R PROVE <<x, z>> \in R
  <2>1. x # y /\ y # z /\ ScrapedBefore(entries, x, y) /\ ScrapedBefore(entries, y, z)
    BY <1>6, <1>8
  <2>2. CASE key(x) = {}
    BY <1>2, <1>3, <1>4, <1>5, <1>6, <2>1, <2>2
  <2>3. CASE key(x) # {}
    <3>1. PICK a \in Hours, b \in Hours, c \in Hours : key(x) = {a} /\ key(y) = {b} /\ key(z) = {c}
      BY <1>2, <1>3, <2>1, <2>3
    <3>2. (a > b \/ (a = b /\ x < y)) /\ (b > c \/ (b = c /\ y < z))
      BY <1>3, <2>1, <3>1
    <3>3. a > c \/ (a = c /\ x < z)
      BY <1>4, <1>5, <3>2
    <3>4. x # z /\ ScrapedBefore(entries, x, z)
      BY <1>3, <1>4, <1>5, <3>1, <3>2, <3>3
    <3> QED
      BY <1>6, <3>4
  <2> QED
    BY <2>2, <2>3
<1>9. Orders(R, D)
  BY <1>6, <1>7, <1>8 DEF Orders
<1>10. ASSUME NEW n \in D
       PROVE  entries[CHOOSE i \in DOMAIN entries :
                Cardinality({j \in DOMAIN entries : j # i /\ ScrapedBefore(entries, j, i)}) = n - 1] \in Contests
  <2>1. n \in 1 .. Cardinality(D)
    BY <1>1 DEF D
  <2>2. \E i \in D : Cardinality(Before(R, D, i)) = n - 1
    BY <1>1, <1>9, <2>1, EveryPlaceIsTaken
  <2>3. \A i \in D : Before(R, D, i) = {j \in DOMAIN entries : j # i /\ ScrapedBefore(entries, j, i)}
    BY <1>1, <1>6 DEF Before
  <2>4. \E i \in DOMAIN entries : Cardinality({j \in DOMAIN entries : j # i /\ ScrapedBefore(entries, j, i)}) = n - 1
    BY <1>1, <2>2, <2>3
  <2> DEFINE P(i) == Cardinality({j \in DOMAIN entries : j # i /\ ScrapedBefore(entries, j, i)}) = n - 1
  <2>5. (CHOOSE i \in DOMAIN entries : P(i)) \in DOMAIN entries
    <3>1. \E i \in DOMAIN entries : P(i)
      BY <2>4
    <3> HIDE DEF P
    <3> QED
      BY <3>1
  <2> QED
    BY <1>1, <2>5
<1>11. OrderForFreshness(entries) \in [D -> Contests]
  BY <1>1, <1>10 DEF OrderForFreshness
<1> QED
  BY <1>1, <1>11 DEF D


\* Both stores are empty.
LEMMA KickoffStart == KickoffInit => KickoffInv
<1> SUFFICES ASSUME KickoffInit PROVE KickoffInv
  OBVIOUS
<1>1. {} \in Stores /\ {} \in Ats
  BY DEF Stores, Ats
<1>2. /\ directory = [g \in Contests |-> {}] /\ events = [g \in Contests |-> {}] /\ heard = [g \in Contests |-> {}]
      /\ scheduled \in [Contests -> RealTimes] /\ slate = <<>> /\ restarts = 0 /\ scraped = {} /\ targets = [g \in {} |-> 0]
  BY DEF KickoffInit
<1>3. directory \in [Contests -> Stores] /\ events \in [Contests -> Stores] /\ heard \in [Contests -> Ats] /\ slate \in Seq(Contests)
  BY <1>1, <1>2
<1>4. \A g \in Contests : ~Real(AtOf(directory, g))
  BY <1>2, <1>3, AtOfIs DEF Real
<1> QED
  BY <1>2, <1>3, <1>4 DEF KickoffInv

\* The day of an hour begins at or before it.
LEMMA StartOfDay ==
  ASSUME NEW h \in Nat, NEW n \in Nat \ {0}
  PROVE  h - (h % n) \in 0 .. h
<1> DEFINE d == h \div n
           r == h % n
<1>1. d \in Int /\ r \in 0 .. n - 1 /\ h = n * d + r
  OBVIOUS
<1> HIDE DEF d, r
<1>2. CASE d <= -1
  <2>1. n * d = n * (d + 1) - n /\ n * (d + 1) <= 0
    BY <1>1, <1>2
  <2> QED
    BY <1>1, <2>1
<1>3. CASE d >= 0
  <2>1. n * d >= 0 /\ n * d \in Int
    BY <1>1, <1>3
  <2>2. h - r \in 0 .. h
    BY <1>1, <2>1
  <2> QED
    BY <2>2 DEF r
<1> QED
  BY <1>1, <1>2, <1>3

\* What a source answers of a game is a kickoff, or none.
LEMMA AnswersAreKickoffs ==
  ASSUME KickoffInv, NEW g \in Contests, NEW said \in Answers(g)
  PROVE  said \in Ats
<1> DEFINE h == scheduled[g]
           day == h - (h % DayLength)
<1>1. h \in 0 .. LastKickoff
  BY DEF KickoffInv, RealTimes, Hours
<1>2. day \in 0 .. LastKickoff
  <2> HIDE DEF h
  <2>1. h \in Nat /\ LastKickoff \in Nat /\ DayLength \in Nat \ {0}
    BY <1>1, KickoffsAssumption
  <2>2. h - (h % DayLength) \in 0 .. h
    BY <2>1, StartOfDay
  <2> QED
    BY <1>1, <2>1, <2>2
<1> HIDE DEF day
<1>3. said \in {{h}, {day}, {}}
  BY DEF Answers, day
<1> QED
  BY <1>1, <1>2, <1>3 DEF Ats, Hours

\* What a poll stores of the games it holds.
LEMMA PollStores ==
  ASSUME KickoffInv, NEW g \in Contests, NEW refreshed \in BOOLEAN, NEW persisted \in BOOLEAN, NEW row,
         row = IF g \notin scraped THEN events[g]
               ELSE LET old == IF refreshed THEN Refresh(events[g], Known(g)) ELSE events[g]
                    IN  IF persisted THEN Upsert(old, Known(g)) ELSE old
  PROVE  row \in Stores /\ (Real(AtOf(events, g)) => Real(UNION {k.at : k \in row}))
<1>1. events[g] \in Stores /\ directory[g] \in Stores /\ events \in [Contests -> Stores] /\ directory \in [Contests -> Stores]
  BY DEF KickoffInv
<1>2. CASE g \notin scraped
  BY <1>1, <1>2 DEF AtOf
<1>3. CASE g \in scraped
  <2>1. directory[g] # {}
    BY <1>3 DEF KickoffInv
  <2>2. PICK a \in Ats : directory[g] = {[at |-> a]}
    BY <1>1, <2>1, StoreIs
  <2>3. Known(g) = [at |-> a]
    BY <2>2 DEF Known
  <2> DEFINE old == IF refreshed THEN Refresh(events[g], [at |-> a]) ELSE events[g]
  <2>4. old \in Stores /\ (Real(AtOf(events, g)) => Real(UNION {k.at : k \in old}))
    BY <1>1, Upserted DEF AtOf
  <2>5. row = IF persisted THEN Upsert(old, [at |-> a]) ELSE old
    BY <1>3, <2>3
  <2> HIDE DEF old
  <2> QED
    BY <2>4, <2>5, Upserted
<1> QED
  BY <1>2, <1>3


\* Every step keeps the stores' shape, and on the way a real kickoff real and the directory at the last one heard.
LEMMA KickoffKeepsInv ==
  ASSUME KickoffInv, [KickoffNext]_kickoffVars
  PROVE  /\ KickoffInv'
         /\ \A g \in Contests :
              /\ Real(AtOf(events, g)) => Real(AtOf(events', g))
              /\ restarts' = restarts /\ Real(AtOf(directory, g)) => AtOf(directory', g) = heard'[g]
<1>1. /\ scheduled \in [Contests -> RealTimes] /\ directory \in [Contests -> Stores] /\ events \in [Contests -> Stores]
      /\ slate \in Seq(Contests) /\ restarts \in Nat /\ scraped \subseteq {g \in Contests : directory[g] # {}}
      /\ DOMAIN targets \subseteq Contests /\ (\A g \in DOMAIN targets : targets[g] \in Hours)
      /\ heard \in [Contests -> Ats]
      /\ \A g \in Contests : Real(AtOf(directory, g)) => heard[g] = AtOf(directory, g)
  BY DEF KickoffInv
<1>2. CASE UNCHANGED kickoffVars
  BY <1>1, <1>2, Zenon DEF KickoffInv, kickoffVars, AtOf
<1>3. CASE ListSlate
  <2>1. PICK entries \in Listings : slate' = OrderForFreshness(entries)
    BY <1>3 DEF ListSlate
  <2>2. UNCHANGED <<scheduled, directory, events, scraped, targets, heard, moves, restarts>>
    BY <1>3 DEF ListSlate
  <2>3. slate' \in Seq(Contests)
    BY <2>1, SlateIsOrdered
  <2> QED
    BY <1>1, <2>2, <2>3, Zenon DEF KickoffInv, AtOf
<1>4. CASE ScrapeNext
  <2>1. Head(slate) \in Contests /\ Tail(slate) \in Seq(Contests)
    BY <1>1, <1>4 DEF ScrapeNext
  <2>2. PICK said \in Answers(Head(slate)) :
          /\ directory' = [directory EXCEPT ![Head(slate)] = Register(directory[Head(slate)], said)]
          /\ heard' = IF Real(said) THEN [heard EXCEPT ![Head(slate)] = said] ELSE heard
          /\ scraped' = scraped \cup {Head(slate)}
    BY <1>4, Zenon DEF ScrapeNext
  <2>3. slate' = Tail(slate) /\ UNCHANGED <<scheduled, events, targets, moves, restarts>>
    BY <1>4 DEF ScrapeNext
  <2> DEFINE g0 == Head(slate)
             stored == Register(directory[g0], said)
  <2>4. said \in Ats
    BY <2>1, AnswersAreKickoffs
  <2>5. /\ stored \in Stores /\ stored # {}
        /\ UNION {k.at : k \in stored} = IF directory[g0] = {} THEN said ELSE PreferKickoff(AtOf(directory, g0), said)
    BY <1>1, <2>1, <2>4, Registered DEF AtOf
  <2>6. directory' = [directory EXCEPT ![g0] = stored] /\ heard' = (IF Real(said) THEN [heard EXCEPT ![g0] = said] ELSE heard)
        /\ scraped' = scraped \cup {g0} /\ g0 \in Contests
    BY <2>1, <2>2
  <2> HIDE DEF stored, g0
  <2>7. directory' \in [Contests -> Stores] /\ heard' \in [Contests -> Ats]
        /\ \A g \in Contests : directory'[g] = IF g = g0 THEN stored ELSE directory[g]
    BY <1>1, <2>4, <2>5, <2>6
  <2>8. ASSUME NEW g \in Contests
        PROVE  /\ Real(AtOf(directory', g)) => heard'[g] = AtOf(directory', g)
               /\ Real(AtOf(directory, g)) => AtOf(directory', g) = heard'[g]
    <3>1. CASE g # g0
      <4>1. AtOf(directory', g) = AtOf(directory, g) /\ heard'[g] = heard[g]
        BY <1>1, <2>6, <2>7, <3>1 DEF AtOf
      <4> QED
        BY <1>1, <4>1
    <3>2. CASE g = g0
      <4> DEFINE a == AtOf(directory, g)
                 b == AtOf(directory', g)
      <4>1. b = IF directory[g0] = {} THEN said ELSE PreferKickoff(a, said)
        BY <2>5, <2>7, <3>2 DEF AtOf
      <4>2. heard'[g] = (IF Real(said) THEN said ELSE heard[g]) /\ a \in Ats /\ (Real(a) => heard[g] = a)
            /\ (directory[g0] = {} => a = {})
        BY <1>1, <2>6, <3>2, AtOfIs
      <4> HIDE DEF a, b
      <4>3. Real(b) => heard'[g] = b
        BY <2>4, <4>1, <4>2, Preferred
      <4>4. Real(a) => Real(b)
        BY <2>4, <4>1, <4>2, Preferred DEF Real
      <4> QED
        BY <4>3, <4>4 DEF a, b
    <3> QED
      BY <3>1, <3>2
  <2>9. scraped' \subseteq {g \in Contests : directory'[g] # {}}
    BY <1>1, <2>5, <2>6, <2>7
  <2> QED
    BY <1>1, <2>1, <2>3, <2>7, <2>8, <2>9, Zenon DEF KickoffInv, AtOf
<1>5. CASE ScrapeGap
  <2>1. Tail(slate) \in Seq(Contests) /\ slate' = Tail(slate)
        /\ UNCHANGED <<scheduled, directory, events, scraped, targets, heard, moves, restarts>>
    BY <1>1, <1>5 DEF ScrapeGap
  <2> QED
    BY <1>1, <2>1, Zenon DEF KickoffInv, AtOf
<1>6. CASE StorePoll
  <2>1. PICK refreshed \in BOOLEAN, persisted \in BOOLEAN :
          events' = [g \in Contests |->
                    IF g \notin scraped THEN events[g]
                    ELSE LET row == IF refreshed THEN Refresh(events[g], Known(g)) ELSE events[g]
                         IN  IF persisted THEN Upsert(row, Known(g)) ELSE row]
    BY <1>6, Zenon DEF StorePoll
  <2>2. scraped' = {} /\ UNCHANGED <<scheduled, directory, slate, targets, heard, moves, restarts>>
    BY <1>6 DEF StorePoll
  <2>3. ASSUME NEW g \in Contests
        PROVE  events'[g] \in Stores /\ (Real(AtOf(events, g)) => Real(UNION {k.at : k \in events'[g]}))
    <3>1. events'[g] = IF g \notin scraped THEN events[g]
                       ELSE LET old == IF refreshed THEN Refresh(events[g], Known(g)) ELSE events[g]
                            IN  IF persisted THEN Upsert(old, Known(g)) ELSE old
      BY <2>1, Zenon
    <3> QED
      BY <3>1, PollStores, Zenon
  <2>4. events' \in [Contests -> Stores] /\ \A g \in Contests : Real(AtOf(events, g)) => Real(AtOf(events', g))
    BY <2>1, <2>3, Zenon DEF AtOf
  <2> QED
    BY <1>1, <2>2, <2>4, Zenon DEF KickoffInv, AtOf
<1>7. CASE CaptureSelects
  <2>1. PICK chosen \in SUBSET {g \in Contests : AtOf(events, g) # {}} \ {{}} :
          targets' = [g \in chosen |-> CHOOSE h \in AtOf(events, g) : TRUE]
    BY <1>7 DEF CaptureSelects
  <2>2. UNCHANGED <<scheduled, directory, events, slate, scraped, heard, moves, restarts>>
    BY <1>7 DEF CaptureSelects
  <2>3. DOMAIN targets' \subseteq Contests /\ \A g \in DOMAIN targets' : targets'[g] \in Hours
    <3>1. ASSUME NEW g \in chosen PROVE g \in Contests /\ (CHOOSE h \in AtOf(events, g) : TRUE) \in Hours
      <4>1. g \in Contests /\ AtOf(events, g) # {} /\ AtOf(events, g) \in Ats
        BY <1>1, <3>1, AtOfIs
      <4>2. AtOf(events, g) \subseteq Hours
        BY <4>1, AtsAreSets
      <4> QED
        BY <4>1, <4>2
    <3> QED
      BY <2>1, <3>1
  <2> QED
    BY <1>1, <2>2, <2>3, Zenon DEF KickoffInv, AtOf
<1>8. CASE CapturePersists
  <2>1. /\ events' = [g \in Contests |->
                  IF g \in DOMAIN targets /\ events[g] # {}
                  THEN Upsert(events[g], [at |-> {targets[g]}]) ELSE events[g]]
        /\ targets' = [g \in {} |-> 0]
        /\ UNCHANGED <<scheduled, directory, slate, scraped, heard, moves, restarts>>
    BY <1>8 DEF CapturePersists
  <2>2. ASSUME NEW g \in Contests
        PROVE  events'[g] \in Stores /\ (Real(AtOf(events, g)) => Real(UNION {k.at : k \in events'[g]}))
    <3>1. CASE g \in DOMAIN targets /\ events[g] # {}
      <4>1. {targets[g]} \in Ats /\ events[g] \in Stores /\ events'[g] = Upsert(events[g], [at |-> {targets[g]}])
        BY <1>1, <2>1, <3>1 DEF Ats
      <4> QED
        BY <4>1, Upserted DEF AtOf
    <3>2. CASE ~(g \in DOMAIN targets /\ events[g] # {})
      BY <1>1, <2>1, <3>2 DEF AtOf
    <3> QED
      BY <3>1, <3>2
  <2>3. events' \in [Contests -> Stores] /\ \A g \in Contests : Real(AtOf(events, g)) => Real(AtOf(events', g))
    BY <2>1, <2>2, Zenon DEF AtOf
  <2>4. DOMAIN targets' = {}
    BY <2>1
  <2> QED
    BY <1>1, <2>1, <2>3, <2>4, Zenon DEF KickoffInv, AtOf
<1>9. CASE GameMoves
  <2>1. scheduled' \in [Contests -> RealTimes] /\ UNCHANGED <<directory, events, slate, scraped, targets, heard, restarts>>
    BY <1>1, <1>9 DEF GameMoves
  <2> QED
    BY <1>1, <2>1, Zenon DEF KickoffInv, AtOf
<1>10. CASE ProcessRestarts
  <2>1. /\ restarts' = restarts + 1 /\ directory' = [g \in Contests |-> {}]
        /\ slate' = <<>> /\ scraped' = {} /\ targets' = [g \in {} |-> 0]
        /\ heard' = [g \in Contests |-> IF Real(AtOf(events, g)) THEN AtOf(events, g) ELSE {}]
        /\ UNCHANGED <<scheduled, events, moves>>
    BY <1>10 DEF ProcessRestarts
  <2>2. {} \in Stores /\ {} \in Ats /\ DOMAIN targets' = {} /\ slate' \in Seq(Contests) /\ restarts' \in Nat
    BY <1>1, <2>1 DEF Stores, Ats
  <2>3. directory' \in [Contests -> Stores] /\ heard' \in [Contests -> Ats]
    BY <1>1, <2>1, <2>2, AtOfIs
  <2>4. \A g \in Contests : ~Real(AtOf(directory', g))
    BY <2>1, <2>3, AtOfIs DEF Real
  <2>5. KickoffInv'
    BY <1>1, <2>1, <2>2, <2>3, <2>4, Zenon DEF KickoffInv, AtOf
  <2>6. restarts' # restarts
    BY <1>1, <2>1
  <2> QED
    BY <1>1, <2>1, <2>5, <2>6, Zenon DEF AtOf
<1> QED
  BY <1>2, <1>3, <1>4, <1>5, <1>6, <1>7, <1>8, <1>9, <1>10 DEF KickoffNext

\* The types are part of it.
LEMMA KickoffInvIsEnough == KickoffInv => KickoffTypeOK
<1> SUFFICES ASSUME KickoffInv PROVE KickoffTypeOK
  OBVIOUS
<1>1. directory \in [Contests -> Stores] /\ events \in [Contests -> Stores]
  BY DEF KickoffInv
<1>2. ASSUME NEW g \in Contests, NEW store \in [Contests -> Stores]
      PROVE  Cardinality(store[g]) <= 1 /\ AtOf(store, g) \subseteq Hours /\ Cardinality(AtOf(store, g)) <= 1
  <2>1. AtOf(store, g) \in Ats
    BY AtOfIs
  <2>2. Cardinality(store[g]) <= 1
    <3>1. CASE store[g] = {}
      BY <3>1, FS_EmptySet
    <3>2. CASE store[g] # {}
      <4>1. store[g] = {[at |-> AtOf(store, g)]}
        BY <3>2, AtOfIs
      <4>2. Cardinality({[at |-> AtOf(store, g)]}) = 1
        BY FS_Singleton, Zenon
      <4> QED
        BY <4>1, <4>2
    <3> QED
      BY <3>1, <3>2
  <2> QED
    BY <2>1, <2>2, AtsAreSets
<1> QED
  BY <1>1, <1>2 DEF KickoffTypeOK, KickoffInv


-----------------------------------------------------------------------------
(* The list of games and the engine's health                               *)

GamesInv ==
  /\ time \in Nat
  /\ available \in [AllSports -> SUBSET Games] /\ \A s \in AllSports : \A g \in available[s] : SportOf[g] = s
  /\ finishedAt \in [AllSports -> SUBSET (0 .. time)]
  /\ ingested \in [Games -> SUBSET (0 .. time)]

\* Nothing was polled or ingested yet.
LEMMA GamesStart == GamesInit => GamesInv
BY DEF GamesInit, GamesInv

\* A poll, an ingest, the clock and a restart.
LEMMA GamesKeepInv ==
  ASSUME GamesInv, [GamesNext]_gamesVars
  PROVE  GamesInv'
<1>1. CASE UNCHANGED gamesVars
  BY <1>1 DEF GamesInv, gamesVars, AllSports
<1>2. ASSUME NEW s \in AllSports, PollEnds(s) PROVE GamesInv'
  <2>1. PICK listed \in SUBSET {g \in Games : SportOf[g] = s /\ ~Finished(g)} :
          /\ available' = [available EXCEPT ![s] = listed]
          /\ \E written \in SUBSET listed :
               ingested' = [g \in Games |-> IF g \in written THEN {time} ELSE ingested[g]]
    BY <1>2 DEF PollEnds
  <2>2. PICK written \in SUBSET listed : ingested' = [g \in Games |-> IF g \in written THEN {time} ELSE ingested[g]]
    BY <2>1
  <2>3. finishedAt' = [finishedAt EXCEPT ![s] = {time}] /\ time' = time
    BY <1>2 DEF PollEnds
  <2>4. {time} \in SUBSET (0 .. time)
    BY DEF GamesInv
  <2>5. finishedAt' \in [AllSports -> SUBSET (0 .. time)] /\ ingested' \in [Games -> SUBSET (0 .. time)]
    BY <2>2, <2>3, <2>4 DEF GamesInv
  <2>6. available' \in [AllSports -> SUBSET Games] /\ \A x \in AllSports : \A g \in available'[x] : SportOf[g] = x
    BY <2>1 DEF GamesInv
  <2> QED
    BY <2>3, <2>5, <2>6 DEF GamesInv, AllSports
<1>3. CASE HourEnds
  <2>1. time' = time + 1 /\ UNCHANGED <<available, finishedAt, ingested>> /\ 0 .. time \subseteq 0 .. time'
    BY <1>3 DEF HourEnds, GamesInv
  <2>2. finishedAt \in [AllSports -> SUBSET (0 .. time')] /\ ingested \in [Games -> SUBSET (0 .. time')]
    BY <2>1 DEF GamesInv
  <2> QED
    BY <2>1, <2>2 DEF GamesInv, AllSports
<1>4. CASE BootsAgain
  BY <1>4 DEF BootsAgain, GamesInv, AllSports
<1> QED
  BY <1>1, <1>2, <1>3, <1>4 DEF GamesNext

\* The types are part of it.
LEMMA GamesInvIsEnough == GamesInv => GamesTypeOK
BY DEF GamesInv, GamesTypeOK

\* After a restart memory has nothing, so the warehouse is asked, and it has what it had.
LEMMA RestartShowsWarehouse ==
  ASSUME GamesInv, [GamesNext]_gamesVars, boots' # boots
  PROVE  {g \in GamesShown : ingested[g] # {} /\ StartOf[g] # {} /\ ~Finished(g)} \subseteq GamesShown'
<1>1. BootsAgain
  BY DEF GamesNext, gamesVars, PollEnds, HourEnds
<1>2. available' = [s \in AllSports |-> {}] /\ UNCHANGED <<time, ingested>>
  BY <1>1 DEF BootsAgain
<1>3. UNION {available'[s] : s \in AllSports'} = {}
  BY <1>2 DEF AllSports
<1>4. GamesShown' = Warehouse' /\ Warehouse' = Warehouse
  BY <1>2, <1>3 DEF GamesShown, Warehouse, Finished
<1>5. GamesShown \subseteq Games
  BY DEF GamesShown, Warehouse, GamesInv
<1> QED
  BY <1>4, <1>5 DEF Warehouse

\* Time alone makes no engine healthy.
LEMMA TimeHealsNothing ==
  ASSUME GamesInv, [GamesNext]_gamesVars, ~Healthy, Healthy'
  PROVE  finishedAt' # finishedAt
<1> SUFFICES ASSUME finishedAt' = finishedAt PROVE FALSE
  OBVIOUS
<1>1. time \in Nat /\ time' \in Nat /\ time <= time'
  BY DEF GamesInv, GamesNext, gamesVars, PollEnds, HourEnds, BootsAgain
<1> DEFINE finishes == UNION {finishedAt[s] : s \in AllSports}
<1>2. finishes \subseteq 0 .. time
  BY DEF GamesInv
<1>3. finishes # {} /\ \A f \in finishes : ~(time - f <= MaxPollAge)
  BY DEF Healthy
<1>4. finishes # {} => \E f \in finishes : time' - f <= MaxPollAge
  BY DEF Healthy, AllSports
<1> HIDE DEF finishes
<1>5. PICK f \in finishes : time' - f <= MaxPollAge
  BY <1>3, <1>4
<1>6. MaxPollAge \in Nat /\ f \in Nat
  <2>1. MaxPollAge \in Nat
    BY GamesAssumption
  <2> QED
    BY <1>1, <1>2, <1>5, <2>1
<1>7. ~(time - f <= MaxPollAge) /\ time' - f <= MaxPollAge
  BY <1>3, <1>5
<1>8. \A x, y, z, n \in Nat : x <= y /\ y - z <= n => x - z <= n
  OBVIOUS
<1> QED
  BY <1>1, <1>6, <1>7, <1>8, Zenon


-----------------------------------------------------------------------------
(* The sharp archive                                                       *)

\* What makes the gate safe: the version it remembers is never ahead of the book's, and is the one
\* that was fetched last.
ArcadiaInv ==
  /\ ArcadiaTypeOK
  /\ \A s \in Configured :
       seenVersion[s] <= lineVersion[s] /\ (seenVersion[s] # -1 => fetched[s] = seenVersion[s])
  /\ sharpAt = "writing" => sweep # {}
  /\ ArchiveHoldsLastFetch

\* A set of numbers has a least one.
LEMMA LeastNumber ==
  ASSUME NEW S \in SUBSET Nat, S # {}
  PROVE  \E t \in S : \A u \in S : t <= u
<1>1. PICK t \in S : \A u \in S : <<u, t>> \notin OpToRel(<, Nat)
  BY WFMin, NatLessThanWellFounded, Zenon
<1>2. \A u \in S : ~(u < t)
  BY <1>1, Zenon DEF OpToRel
<1> QED
  BY <1>2

\* ... which is its minimum.
LEMMA LeastIsMin ==
  ASSUME NEW S \in SUBSET Nat, S # {}
  PROVE  Min(S) \in S /\ \A k \in S : Min(S) <= k
BY LeastNumber DEF Min

\* The sport whose turn it is, is one of those configured.
LEMMA TurnIsConfigured ==
  ASSUME sweep \subseteq DOMAIN SharpSports, sweep # {}
  PROVE  SharpSports[Turn] \in Configured
<1>1. SharpSports \in Seq(Configured)
  BY ArcadiaAssumption DEF Configured
<1>2. sweep \in SUBSET Nat
  BY <1>1
<1>3. Turn \in sweep
  BY <1>2, LeastIsMin DEF Turn
<1> QED
  BY <1>1, <1>3

\* The transport after the blocked ones is one of the ring.
LEMMA RingTurns ==
  ASSUME ArcadiaTypeOK, NEW blocked \in SUBSET (0 .. Transports - 1)
  PROVE  RingAfter(blocked) \in 0 .. Transports - 1
<1> DEFINE good == {a \in 1 .. GetAttempts : (nextProxy + a - 1) % Transports \notin blocked}
           made == AttemptsMade(blocked)
           x    == nextProxy + made
<1>1. GetAttempts \in Nat /\ Transports \in Nat \ {0} /\ nextProxy \in Nat
  BY ArcadiaAssumption DEF ArcadiaTypeOK
<1>2. good \in SUBSET Nat
  BY <1>1
<1>3. made = IF good = {} THEN GetAttempts ELSE CHOOSE a \in good : \A b \in good : a <= b
  BY DEF AttemptsMade
<1> HIDE DEF good, made
<1>4. good # {} => \E a \in good : \A b \in good : a <= b
  BY <1>2, LeastNumber
<1>5. made \in Nat
  BY <1>1, <1>2, <1>3, <1>4
<1>6. x \in Nat
  BY <1>1, <1>5
<1> HIDE DEF x
<1>7. x % Transports \in 0 .. Transports - 1
  BY <1>1, <1>6
<1> QED
  BY <1>7 DEF RingAfter, x, made

\* Nothing is fetched and nothing is stored.
LEMMA ArcadiaStart == ArcadiaInit => ArcadiaInv
BY ArcadiaAssumption DEF ArcadiaInit, ArcadiaInv, ArcadiaTypeOK, ArchiveHoldsLastFetch

\* A fetch, a write, a lost write and the book's own moves: the version remembered is the one stored.
LEMMA ArcadiaKeepsInv ==
  ASSUME ArcadiaInv, [ArcadiaNext]_sharpVars
  PROVE  ArcadiaInv'
<1>1. /\ lineVersion \in [Configured -> 0 .. MaxLine] /\ liveSports \subseteq Configured /\ sharpLost \subseteq Configured
      /\ nextProxy \in 0 .. Transports - 1 /\ sharpAt \in {"idle", "sports", "writing"} /\ sweep \subseteq DOMAIN SharpSports
      /\ seenVersion \in [Configured -> -1 .. MaxLine] /\ sharpRow \in [Configured -> -1 .. MaxLine]
      /\ fetched \in [Configured -> -1 .. MaxLine] /\ failures \in 0 .. MaxFailures /\ MaxLine \in Nat \ {0}
      /\ Transports \in Nat \ {0} /\ MaxFailures \in Nat
  BY ArcadiaAssumption DEF ArcadiaInv, ArcadiaTypeOK
<1>2. /\ sharpAt = "writing" => sweep # {}
      /\ \A s \in Configured :
           /\ seenVersion[s] <= lineVersion[s] /\ (seenVersion[s] # -1 => fetched[s] = seenVersion[s])
           /\ sharpRow[s] = fetched[s] \/ s \in sharpLost \/ (sharpAt = "writing" /\ SharpSports[Turn] = s)
  BY DEF ArcadiaInv, ArchiveHoldsLastFetch
<1>3. sweep # {} => SharpSports[Turn] \in Configured
  BY <1>1, TurnIsConfigured
<1>4. 0 \in 0 .. Transports - 1
  BY <1>1
<1>5. CASE UNCHANGED sharpVars
  BY <1>1, <1>2, <1>5 DEF ArcadiaInv, ArcadiaTypeOK, ArchiveHoldsLastFetch, sharpVars, Turn
<1>6. ASSUME NEW s \in Configured, LineMoves(s) PROVE ArcadiaInv'
  <2>1. lineVersion[s] < MaxLine /\ lineVersion' = [lineVersion EXCEPT ![s] = lineVersion[s] + 1]
        /\ UNCHANGED <<liveSports, nextProxy, sharpAt, sweep, seenVersion, sharpRow, fetched, sharpLost, failures>>
    BY <1>1, <1>6 DEF LineMoves
  <2>2. lineVersion[s] + 1 \in 0 .. MaxLine
    BY <1>1, <2>1
  <2>3. lineVersion' \in [Configured -> 0 .. MaxLine] /\ \A x \in Configured : lineVersion'[x] >= lineVersion[x]
    BY <1>1, <2>1, <2>2
  <2>4. \A x \in Configured : seenVersion[x] <= lineVersion'[x]
    BY <1>1, <1>2, <2>3
  <2> QED
    BY <1>1, <1>2, <2>1, <2>3, <2>4 DEF ArcadiaInv, ArcadiaTypeOK, ArchiveHoldsLastFetch, Turn
<1>7. ASSUME NEW s \in Configured, SportHides(s) PROVE ArcadiaInv'
  BY <1>1, <1>2, <1>7 DEF SportHides, ArcadiaInv, ArcadiaTypeOK, ArchiveHoldsLastFetch, Turn
<1>8. CASE StartSweep
  <2>1. sharpAt = "idle" /\ sharpAt' = "sports" /\ UNCHANGED <<lineVersion, liveSports, seenVersion, sharpRow, fetched, sharpLost, failures>>
    BY <1>8 DEF StartSweep
  <2>2. nextProxy' \in 0 .. Transports - 1 /\ sweep' \subseteq DOMAIN SharpSports
    BY <1>8, RingTurns DEF StartSweep, ArcadiaInv
  <2> QED
    BY <1>1, <1>2, <2>1, <2>2 DEF ArcadiaInv, ArcadiaTypeOK, ArchiveHoldsLastFetch
<1>9. CASE FetchSport
  <2> DEFINE s == SharpSports[Turn]
  <2>1. /\ sharpAt = "sports" /\ sweep # {} /\ s \in Configured
        /\ UNCHANGED <<lineVersion, liveSports, sharpRow, failures>> /\ nextProxy' \in 0 .. Transports - 1
    BY <1>3, <1>9, RingTurns DEF FetchSport, ArcadiaInv
  <2>2. \/ /\ fetched' = [fetched EXCEPT ![s] = lineVersion[s]] /\ Advanced(s)
           /\ seenVersion' = [seenVersion EXCEPT ![s] = lineVersion[s]] /\ sharpAt' = "writing"
           /\ sharpLost' = sharpLost \ {s} /\ UNCHANGED sweep
        \/ /\ fetched' = [fetched EXCEPT ![s] = lineVersion[s]] /\ ~Advanced(s)
           /\ sweep' = AfterTurn /\ UNCHANGED <<seenVersion, sharpAt, sharpLost>>
        \/ sweep' = AfterTurn /\ UNCHANGED <<seenVersion, sharpAt, sharpLost, fetched>>
    BY <1>9, Zenon DEF FetchSport
  <2>3. AfterTurn \subseteq DOMAIN SharpSports
    BY <1>1 DEF AfterTurn
  <2>4. lineVersion[s] \in -1 .. MaxLine /\ lineVersion[s] # -1
    BY <1>1, <2>1
  <2>5. UNCHANGED sweep => SharpSports[Turn'] = s
    BY DEF Turn
  <2> HIDE DEF s
  <2>6. CASE /\ fetched' = [fetched EXCEPT ![s] = lineVersion[s]] /\ Advanced(s)
             /\ seenVersion' = [seenVersion EXCEPT ![s] = lineVersion[s]] /\ sharpAt' = "writing"
             /\ sharpLost' = sharpLost \ {s} /\ UNCHANGED sweep
    <3>1. /\ fetched' \in [Configured -> -1 .. MaxLine] /\ seenVersion' \in [Configured -> -1 .. MaxLine]
          /\ fetched'[s] = lineVersion[s] /\ seenVersion'[s] = lineVersion[s]
          /\ \A x \in Configured \ {s} : fetched'[x] = fetched[x] /\ seenVersion'[x] = seenVersion[x]
      BY <1>1, <2>1, <2>4, <2>6
    <3>2. ArcadiaTypeOK'
      BY <1>1, <2>1, <2>6, <3>1 DEF ArcadiaTypeOK
    <3>3. ASSUME NEW x \in Configured
          PROVE  /\ seenVersion'[x] <= lineVersion'[x] /\ (seenVersion'[x] # -1 => fetched'[x] = seenVersion'[x])
                 /\ sharpRow'[x] = fetched'[x] \/ x \in sharpLost' \/ SharpSports[Turn'] = x
      <4>1. CASE x = s
        BY <1>1, <2>1, <2>5, <2>6, <3>1, <4>1
      <4>2. CASE x # s
        BY <1>2, <2>1, <2>6, <3>1, <4>2
      <4> QED
        BY <4>1, <4>2
    <3> QED
      BY <2>1, <2>6, <3>2, <3>3 DEF ArcadiaInv, ArchiveHoldsLastFetch
  <2>7. CASE /\ fetched' = [fetched EXCEPT ![s] = lineVersion[s]] /\ ~Advanced(s)
             /\ sweep' = AfterTurn /\ UNCHANGED <<seenVersion, sharpAt, sharpLost>>
    <3>1. seenVersion[s] = lineVersion[s]
      BY <1>1, <1>2, <2>1, <2>7 DEF Advanced
    <3>2. fetched[s] = lineVersion[s]
      BY <1>2, <2>1, <2>4, <3>1
    <3>3. fetched' = fetched
      BY <1>1, <2>1, <2>7, <3>2
    <3> QED
      BY <1>1, <1>2, <2>1, <2>3, <2>7, <3>3 DEF ArcadiaInv, ArcadiaTypeOK, ArchiveHoldsLastFetch
  <2>8. CASE sweep' = AfterTurn /\ UNCHANGED <<seenVersion, sharpAt, sharpLost, fetched>>
    BY <1>1, <1>2, <2>1, <2>3, <2>8 DEF ArcadiaInv, ArcadiaTypeOK, ArchiveHoldsLastFetch
  <2> QED
    BY <2>2, <2>6, <2>7, <2>8
<1>10. CASE SharpWriteLands
  <2> DEFINE s == SharpSports[Turn]
  <2>1. /\ sharpAt = "writing" /\ sharpAt' = "sports" /\ sharpRow' = [sharpRow EXCEPT ![s] = fetched[s]] /\ sweep' = AfterTurn
        /\ UNCHANGED <<lineVersion, liveSports, nextProxy, seenVersion, fetched, sharpLost, failures>>
    BY <1>10 DEF SharpWriteLands
  <2>2. s \in Configured /\ AfterTurn \subseteq DOMAIN SharpSports
    BY <1>1, <1>2, <1>3, <2>1 DEF AfterTurn
  <2>3. sharpRow' \in [Configured -> -1 .. MaxLine] /\ \A x \in Configured : sharpRow'[x] = fetched[x] \/ x \in sharpLost
    BY <1>1, <1>2, <2>1, <2>2
  <2> HIDE DEF s
  <2> QED
    BY <1>1, <1>2, <2>1, <2>2, <2>3 DEF ArcadiaInv, ArcadiaTypeOK, ArchiveHoldsLastFetch
<1>11. CASE SharpWriteFails
  <2>1. /\ sharpAt = "writing" /\ sharpAt' = "idle" /\ sweep' = {} /\ sharpLost' = sharpLost \cup {SharpSports[Turn]}
        /\ failures < MaxFailures /\ failures' = failures + 1
        /\ UNCHANGED <<lineVersion, liveSports, nextProxy, seenVersion, sharpRow, fetched>>
    BY <1>11 DEF SharpWriteFails
  <2>2. failures' \in 0 .. MaxFailures /\ sharpLost' \subseteq Configured
    BY <1>1, <1>2, <1>3, <2>1
  <2>3. \A x \in Configured : sharpRow[x] = fetched[x] \/ x \in sharpLost'
    BY <1>2, <2>1
  <2> QED
    BY <1>1, <1>2, <2>1, <2>2, <2>3 DEF ArcadiaInv, ArcadiaTypeOK, ArchiveHoldsLastFetch
<1>12. CASE EndSweep
  BY <1>1, <1>2, <1>12 DEF EndSweep, ArcadiaInv, ArcadiaTypeOK, ArchiveHoldsLastFetch
<1>13. CASE ArcadiaRestarts
  <2>1. /\ sharpAt' = "idle" /\ sweep' = {} /\ nextProxy' = 0 /\ failures < MaxFailures /\ failures' = failures + 1
        /\ seenVersion' = [x \in Configured |-> -1] /\ UNCHANGED <<lineVersion, liveSports, sharpRow, fetched>>
        /\ sharpLost' = IF sharpAt = "writing" THEN sharpLost \cup {SharpSports[Turn]} ELSE sharpLost
    BY <1>13 DEF ArcadiaRestarts
  <2>2. failures' \in 0 .. MaxFailures /\ sharpLost' \subseteq Configured
    BY <1>1, <1>2, <1>3, <2>1
  <2>3. \A x \in Configured : sharpRow[x] = fetched[x] \/ x \in sharpLost'
    BY <1>2, <2>1
  <2>4. seenVersion' \in [Configured -> -1 .. MaxLine] /\ \A x \in Configured : seenVersion'[x] = -1 /\ -1 <= lineVersion[x]
    BY <1>1, <2>1
  <2> QED
    BY <1>1, <1>2, <1>4, <2>1, <2>2, <2>3, <2>4 DEF ArcadiaInv, ArcadiaTypeOK, ArchiveHoldsLastFetch
<1> QED
  BY <1>5, <1>6, <1>7, <1>8, <1>9, <1>10, <1>11, <1>12, <1>13 DEF ArcadiaNext


-----------------------------------------------------------------------------
(* The exchange: the operators of a cycle                                  *)

Memory == Seq(Fixtures \X BackPrices)

\* The prices a memory holds of a game.
SeenIn(s, g) == {s[i][2] : i \in {j \in DOMAIN s : s[j][1] = g}}

MostRanks == Cardinality(Fixtures)

\* A cycle's targets are upcoming games, no more than the limit: every place of the order is taken.
LEMMA TargetsAreFixtures ==
  ASSUME exRank \in [Fixtures -> 0 .. MostRanks]
  PROVE  Targets \in Seq(Fixtures) /\ Len(Targets) <= TargetLimit
<1> DEFINE R == {p \in Upcoming \X Upcoming : ComesFirst(p[1], p[2])}
           N == Cardinality(Upcoming)
           most == Min({N, TargetLimit})
<1>1. /\ IsFiniteSet(Upcoming) /\ N \in Nat /\ TargetLimit \in Nat
      /\ Upcoming \subseteq Fixtures /\ \A g \in Upcoming : g \in Nat /\ exRank[g] \in Nat
  <2>1. Upcoming \in SUBSET Fixtures
    BY DEF Upcoming
  <2>2. IsFiniteSet(Fixtures) /\ Fixtures \subseteq Nat /\ TargetLimit \in Nat
    BY ExchangeAssumption
  <2>3. IsFiniteSet(Upcoming) /\ N \in Nat
    BY <2>1, <2>2, FS_Subset, FS_CardinalityType
  <2>4. MostRanks \in Nat
    BY <2>2, FS_CardinalityType DEF MostRanks
  <2> QED
    BY <2>1, <2>2, <2>3, <2>4
<1>2. most \in Nat /\ most <= N /\ most <= TargetLimit
  <2>1. {N, TargetLimit} \in SUBSET Nat /\ {N, TargetLimit} # {}
    BY <1>1
  <2>2. Min({N, TargetLimit}) \in {N, TargetLimit} /\ \A k \in {N, TargetLimit} : Min({N, TargetLimit}) <= k
    BY <2>1, LeastIsMin
  <2> QED
    BY <1>1, <2>2
<1>3. \A x, y \in Upcoming : <<x, y>> \in R <=> exRank[x] < exRank[y] \/ (exRank[x] = exRank[y] /\ x < y)
  BY DEF ComesFirst
<1> HIDE DEF R, N, most
<1>4. Orders(R, Upcoming)
  BY <1>1, <1>3 DEF Orders
<1>5. ASSUME NEW i \in 1 .. most
      PROVE  (CHOOSE g \in Upcoming : Cardinality({h \in Upcoming : ComesFirst(h, g)}) = i - 1) \in Fixtures
  <2>1. i \in 1 .. Cardinality(Upcoming)
    BY <1>1, <1>2 DEF N
  <2>2. \E g \in Upcoming : Cardinality(Before(R, Upcoming, g)) = i - 1
    BY <1>1, <1>4, <2>1, EveryPlaceIsTaken
  <2>3. \A g \in Upcoming : Before(R, Upcoming, g) = {h \in Upcoming : ComesFirst(h, g)}
    BY <1>3 DEF Before, ComesFirst
  <2> DEFINE P(g) == Cardinality({h \in Upcoming : ComesFirst(h, g)}) = i - 1
  <2>4. \E g \in Upcoming : P(g)
    BY <2>2, <2>3
  <2>5. (CHOOSE g \in Upcoming : P(g)) \in Upcoming
    <3> HIDE DEF P
    <3> QED
      BY <2>4
  <2> QED
    BY <1>1, <2>5
<1>6. Targets \in [1 .. most -> Fixtures]
  BY <1>5 DEF Targets, most, N
<1> QED
  BY <1>2, <1>6

\* Moving the games just read to the back keeps the ranks in range.
LEMMA RanksAreFew ==
  ASSUME exRank \in [Fixtures -> 0 .. MostRanks], NEW written \in SUBSET Fixtures
  PROVE  RankedLast(written) \in [Fixtures -> 0 .. MostRanks]
<1> DEFINE others == Fixtures \ written
           all    == {exRank[g] : g \in others}
           ranks  == all \ {0}
           how    == [g \in others |-> exRank[g]]
<1>1. IsFiniteSet(Fixtures) /\ MostRanks \in Nat
  BY ExchangeAssumption, FS_CardinalityType DEF MostRanks
<1>2. IsFiniteSet(others) /\ Cardinality(others) <= MostRanks /\ Cardinality(others) \in Nat
      /\ (written # {} => Cardinality(others) # MostRanks)
  <2>1. others \in SUBSET Fixtures
    OBVIOUS
  <2>2. written # {} => others # Fixtures
    OBVIOUS
  <2> HIDE DEF others
  <2> QED
    BY <1>1, <2>1, <2>2, FS_Subset, FS_CardinalityType DEF MostRanks
<1>3. how \in Surjection(others, all)
  BY DEF Surjection
<1>4. IsFiniteSet(all) /\ Cardinality(all) <= Cardinality(others) /\ Cardinality(all) \in Nat
  <2> HIDE DEF how, all, others
  <2> QED
    BY <1>2, <1>3, FS_Surjection, FS_CardinalityType
<1>5. IsFiniteSet(ranks) /\ Cardinality(ranks) <= Cardinality(all) /\ Cardinality(ranks) \in Nat
  <2>1. ranks \in SUBSET all
    OBVIOUS
  <2> HIDE DEF all, ranks
  <2> QED
    BY <1>4, <2>1, FS_Subset, FS_CardinalityType
<1>6. ASSUME NEW x PROVE Cardinality({r \in ranks : r <= x}) \in 0 .. MostRanks
  <2> DEFINE low == {r \in ranks : r <= x}
  <2>1. low \in SUBSET ranks
    OBVIOUS
  <2> HIDE DEF low, ranks, all, others
  <2>2. IsFiniteSet(low) /\ Cardinality(low) <= Cardinality(ranks)
    BY <1>5, <2>1, FS_Subset
  <2>3. Cardinality(low) \in Nat
    BY <2>2, FS_CardinalityType
  <2>4. Cardinality(low) <= MostRanks
    BY <1>1, <1>2, <1>4, <1>5, <2>2, <2>3
  <2> QED
    BY <1>1, <2>3, <2>4 DEF low
<1>7. written # {} => Cardinality(ranks) + 1 \in 0 .. MostRanks
  <2> HIDE DEF ranks, all, others
  <2> QED
    BY <1>1, <1>2, <1>4, <1>5
<1>8. RankedLast(written) = [g \in Fixtures |-> IF g \in written THEN Cardinality(ranks) + 1
                                                ELSE Cardinality({r \in ranks : r <= exRank[g]})]
  BY DEF RankedLast
<1> HIDE DEF ranks
<1> QED
  BY <1>6, <1>7, <1>8

\* The last key set holds the new price alone, and no other key gains one.
LEMMA RememberedIs ==
  ASSUME seenPrice \in Memory, NEW g \in Fixtures, NEW p \in BackPrices
  PROVE  /\ RememberPrice(g, p) \in Memory
         /\ SeenIn(RememberPrice(g, p), g) \subseteq {p}
         /\ \A h \in Fixtures \ {g} : SeenIn(RememberPrice(g, p), h) \subseteq SeenOf(h)
<1> DEFINE r == RememberPrice(g, p)
<1>1. CASE SeenOf(g) = {}
  <2>1. r = Append(seenPrice, <<g, p>>)
    BY <1>1 DEF RememberPrice
  <2>2. <<g, p>> \in Fixtures \X BackPrices
    OBVIOUS
  <2>3. r \in Memory /\ Len(r) = Len(seenPrice) + 1 /\ r[Len(r)] = <<g, p>> /\ DOMAIN r = 1 .. Len(r)
        /\ DOMAIN seenPrice = 1 .. Len(seenPrice) /\ Len(seenPrice) \in Nat
        /\ \A i \in 1 .. Len(seenPrice) : r[i] = seenPrice[i]
    BY <2>1, <2>2 DEF Memory
  <2>4. \A i \in DOMAIN seenPrice : seenPrice[i][1] # g
    BY <1>1 DEF SeenOf
  <2> HIDE DEF r
  <2>5. ASSUME NEW i \in DOMAIN r PROVE i = Len(r) \/ i \in DOMAIN seenPrice
    BY <2>3
  <2>6. \A i \in DOMAIN r : r[i] = <<g, p>> \/ (i \in DOMAIN seenPrice /\ r[i] = seenPrice[i])
    BY <2>3, <2>5
  <2>7. SeenIn(r, g) \subseteq {p}
    BY <2>4, <2>6 DEF SeenIn
  <2>8. \A h \in Fixtures \ {g} : SeenIn(r, h) \subseteq SeenOf(h)
    BY <2>6 DEF SeenIn, SeenOf
  <2> QED
    BY <2>3, <2>7, <2>8 DEF r
<1>2. CASE SeenOf(g) # {}
  <2>1. r = [i \in DOMAIN seenPrice |-> IF seenPrice[i][1] = g THEN <<g, p>> ELSE seenPrice[i]]
    BY <1>2 DEF RememberPrice
  <2>2. Len(seenPrice) \in Nat /\ DOMAIN seenPrice = 1 .. Len(seenPrice)
        /\ \A i \in DOMAIN seenPrice : seenPrice[i] \in Fixtures \X BackPrices
    BY DEF Memory
  <2>3. r \in [1 .. Len(seenPrice) -> Fixtures \X BackPrices]
    BY <2>1, <2>2
  <2> HIDE DEF r
  <2>4. r \in Memory /\ DOMAIN r = DOMAIN seenPrice
    BY <2>2, <2>3 DEF Memory
  <2>5. \A i \in DOMAIN r : IF seenPrice[i][1] = g THEN r[i] = <<g, p>> ELSE r[i] = seenPrice[i]
    BY <2>1, <2>4
  <2>6. SeenIn(r, g) \subseteq {p}
    BY <2>5 DEF SeenIn
  <2>7. \A h \in Fixtures \ {g} : SeenIn(r, h) \subseteq SeenOf(h)
    BY <2>4, <2>5 DEF SeenIn, SeenOf
  <2> QED
    BY <2>4, <2>6, <2>7 DEF r
<1> QED
  BY <1>1, <1>2

\* What is left of a memory held over its bound
LEMMA CappedIs ==
  ASSUME NEW s \in Memory
  PROVE  Capped(s) \in Memory /\ Len(Capped(s)) <= MaxSeenPrices /\ \A h \in Fixtures : SeenIn(Capped(s), h) \subseteq SeenIn(s, h)
<1> DEFINE c == Capped(s)
           a == Len(s) - MaxSeenPrices + 1
<1>1. MaxSeenPrices \in Nat /\ Len(s) \in Nat /\ DOMAIN s = 1 .. Len(s) /\ \A i \in 1 .. Len(s) : s[i] \in Fixtures \X BackPrices
  BY ExchangeAssumption DEF Memory
<1>2. CASE Len(s) <= MaxSeenPrices
  BY <1>1, <1>2 DEF Capped
<1>3. CASE Len(s) > MaxSeenPrices
  <2>1. c = SubSeq(s, a, Len(s))
    BY <1>3 DEF Capped
  <2>2. a \in 1 .. Len(s) + 1 /\ Len(s) - a + 1 = MaxSeenPrices
    BY <1>1, <1>3
  <2> HIDE DEF c, a
  <2>3. c = [i \in 1 .. MaxSeenPrices |-> s[i + a - 1]]
    BY <1>1, <2>1, <2>2 DEF SubSeq
  <2>4. \A i \in 1 .. MaxSeenPrices : i + a - 1 \in 1 .. Len(s)
    BY <1>1, <2>2
  <2>5. c \in Memory /\ Len(c) = MaxSeenPrices
    BY <1>1, <2>3, <2>4 DEF Memory
  <2>6. \A i \in DOMAIN c : \E k \in DOMAIN s : c[i] = s[k]
    BY <1>1, <2>3, <2>4
  <2>7. \A h \in Fixtures : SeenIn(c, h) \subseteq SeenIn(s, h)
    BY <2>6 DEF SeenIn
  <2> QED
    BY <1>1, <2>5, <2>7 DEF c
<1> QED
  BY <1>1, <1>2, <1>3

\* The reader's cursor stays within its proxies.
LEMMA CursorStays ==
  ASSUME readerCursor \in 0 .. ReaderProxies - 1, NEW failing
  PROVE  CursorAfter(failing) \in 0 .. ReaderProxies - 1
<1> DEFINE good == {o \in 0 .. ReaderProxies - 1 : Slot(o) \notin failing}
           first == CHOOSE o \in good : \A p \in good : o <= p
           y == readerCursor + first
           z == Slot(first) + 1
<1>1. ReaderProxies \in Nat \ {0}
  BY ExchangeAssumption
<1>2. good \in SUBSET Nat
  BY <1>1
<1>3. CASE good = {}
  BY <1>3 DEF CursorAfter
<1>4. CASE good # {}
  <2>1. \E o \in good : \A p \in good : o <= p
    BY <1>2, <1>4, LeastNumber
  <2>2. first \in Nat
    <3> HIDE DEF good
    <3> QED
      BY <1>2, <2>1
  <2>3. y \in Nat
    BY <1>1, <2>2
  <2>4. Slot(first) = y % ReaderProxies
    BY DEF Slot
  <2> HIDE DEF y
  <2>5. y % ReaderProxies \in Nat
    BY <1>1, <2>3
  <2>6. z \in Nat
    BY <2>4, <2>5
  <2>7. CursorAfter(failing) = z % ReaderProxies
    BY <1>4 DEF CursorAfter
  <2> HIDE DEF z
  <2> QED
    BY <1>1, <2>6, <2>7
<1> QED
  BY <1>3, <1>4


-----------------------------------------------------------------------------
(* The exchange: a cycle                                                   *)

\* What the last price of a game is, once the rows to write are written
Latest(g) == IF freshPrice[g] = NoPrice THEN exRow[g] ELSE freshPrice[g]

ExchangeTyped ==
  /\ backPrice \in [Fixtures -> Offered] /\ freshPrice \in [Fixtures -> Offered]
  /\ exRow \in [Fixtures -> Offered] /\ readPrice \in [Fixtures -> Offered]
  /\ liquid \subseteq Fixtures /\ kickedOff \subseteq Fixtures /\ readInCycle \subseteq Fixtures
  /\ astray \subseteq Fixtures
  /\ exAt \in {"idle", "reading", "writing"}
  /\ toRead \in Seq(Fixtures) /\ Len(toRead) <= TargetLimit
  /\ seenPrice \in Memory /\ Len(seenPrice) <= MaxSeenPrices
  /\ readerCursor \in 0 .. ReaderProxies - 1
  /\ exRank \in [Fixtures -> 0 .. MostRanks]
  /\ losses \in 0 .. MaxLosses

\* Except for the games astray, a price that is remembered is the last one stored or about to be,
\* and so is the one read in this cycle; between cycles nothing is about to be stored.
ExchangeInv ==
  /\ ExchangeTyped
  /\ \A g \in Fixtures : g \in astray \/ \A q \in SeenOf(g) : Latest(g) = q
  /\ \A g \in readInCycle : g \in astray \/ Latest(g) = readPrice[g]
  /\ exAt = "idle" => \A g \in Fixtures : freshPrice[g] = NoPrice

\* What the assumptions say of the constants, at hand.
LEMMA ExchangeTypes ==
  /\ ReaderProxies \in Nat \ {0} /\ MaxLosses \in Nat /\ MostRanks \in Nat /\ MaxSeenPrices \in Nat
  /\ TargetLimit \in Nat \ {0} /\ NoPrice \notin BackPrices /\ NoPrice \in Offered /\ Offered = BackPrices \cup {NoPrice}
BY ExchangeAssumption, FS_CardinalityType DEF MostRanks, Offered

\* Nothing is seen and nothing is stored.
LEMMA ExchangeStart == ExchangeInit => ExchangeInv
<1> SUFFICES ASSUME ExchangeInit PROVE ExchangeInv
  OBVIOUS
<1>1. /\ backPrice \in [Fixtures -> Offered] /\ liquid \in SUBSET Fixtures /\ kickedOff = {} /\ exAt = "idle"
      /\ toRead = <<>> /\ seenPrice = <<>> /\ freshPrice = [g \in Fixtures |-> NoPrice] /\ readerCursor = 0
      /\ exRow = freshPrice /\ readPrice = freshPrice /\ exRank = [g \in Fixtures |-> 0]
      /\ readInCycle = {} /\ astray = {} /\ losses = 0
  BY DEF ExchangeInit
<1>2. freshPrice \in [Fixtures -> Offered] /\ \A g \in Fixtures : freshPrice[g] = NoPrice
  BY <1>1, ExchangeTypes
<1>3. exRank \in [Fixtures -> 0 .. MostRanks] /\ 0 \in 0 .. ReaderProxies - 1 /\ 0 \in 0 .. MaxLosses
  BY <1>1, ExchangeTypes
<1>4. toRead \in Seq(Fixtures) /\ Len(toRead) = 0 /\ seenPrice \in Memory /\ Len(seenPrice) = 0
      /\ \A g \in Fixtures : SeenOf(g) = {}
  BY <1>1 DEF Memory, SeenOf
<1>5. ExchangeTyped
  BY <1>1, <1>2, <1>3, <1>4, ExchangeTypes DEF ExchangeTyped
<1> QED
  BY <1>1, <1>2, <1>4, <1>5 DEF ExchangeInv

\* Rows that differ from the last price read are of games that strayed.
LEMMA ExchangeInvIsEnough == ExchangeInv => ExchangeTypeOK /\ OnlyStrayRowsDiffer
<1> SUFFICES ASSUME ExchangeInv PROVE ExchangeTypeOK /\ OnlyStrayRowsDiffer
  OBVIOUS
<1>1. ToSet(toRead) \subseteq Fixtures /\ ToSet(seenPrice) \subseteq Fixtures \X BackPrices
  BY DEF ExchangeInv, ExchangeTyped, ToSet, Memory
<1>2. ExchangeTypeOK
  BY <1>1 DEF ExchangeInv, ExchangeTyped, ExchangeTypeOK, MostRanks
<1>3. OnlyStrayRowsDiffer
  BY DEF ExchangeInv, ExchangeTyped, OnlyStrayRowsDiffer, Latest
<1> QED
  BY <1>2, <1>3

\* The world moves: what is stored, read and remembered stays.
LEMMA MarketMoves ==
  ASSUME ExchangeInv, backPrice' \in [Fixtures -> Offered], liquid' \subseteq Fixtures, kickedOff' \subseteq Fixtures,
         UNCHANGED <<exAt, toRead, seenPrice, freshPrice, readerCursor, exRow, exRank, readPrice, readInCycle, astray, losses>>
  PROVE  ExchangeInv'
BY DEF ExchangeInv, ExchangeTyped, Latest, SeenOf

\* Reading one target, writing it when it moved, and remembering it.
LEMMA ReadKeepsInv ==
  ASSUME ExchangeInv, ReadTarget
  PROVE  ExchangeInv'
<1>1. ExchangeTyped /\ toRead # <<>> /\ exAt = "reading"
  BY DEF ReadTarget, ExchangeInv
<1>0. PICK g \in Fixtures : g = Head(toRead)
  BY <1>1 DEF ExchangeTyped
<1>2. g \in Fixtures /\ toRead' \in Seq(Fixtures) /\ Len(toRead') <= TargetLimit
  BY <1>1, ExchangeTypes DEF ReadTarget, ExchangeTyped
<1>3. PICK failing \in SUBSET (0 .. ReaderProxies - 1) :
        \E p \in IF failing = 0 .. ReaderProxies - 1 THEN {NoPrice} ELSE LoadedRows(g) :
              /\ readerCursor' = CursorAfter(failing)
              /\ readPrice' = IF p = NoPrice THEN readPrice ELSE [readPrice EXCEPT ![g] = p]
              /\ readInCycle' = IF p = NoPrice THEN readInCycle ELSE readInCycle \cup {g}
              /\ IF p # NoPrice /\ Moved(g, p)
                 THEN /\ seenPrice' = Capped(RememberPrice(g, p))
                      /\ freshPrice' = [freshPrice EXCEPT ![g] = p]
                      /\ astray' = astray \ {g}
                 ELSE UNCHANGED <<seenPrice, freshPrice, astray>>
  BY <1>0, Zenon DEF ReadTarget
<1>4. PICK p \in IF failing = 0 .. ReaderProxies - 1 THEN {NoPrice} ELSE LoadedRows(g) :
              /\ readerCursor' = CursorAfter(failing)
              /\ readPrice' = IF p = NoPrice THEN readPrice ELSE [readPrice EXCEPT ![g] = p]
              /\ readInCycle' = IF p = NoPrice THEN readInCycle ELSE readInCycle \cup {g}
              /\ IF p # NoPrice /\ Moved(g, p)
                 THEN /\ seenPrice' = Capped(RememberPrice(g, p))
                      /\ freshPrice' = [freshPrice EXCEPT ![g] = p]
                      /\ astray' = astray \ {g}
                 ELSE UNCHANGED <<seenPrice, freshPrice, astray>>
  BY <1>3
<1>5. UNCHANGED <<backPrice, liquid, kickedOff, exAt, exRow, exRank, losses>>
  BY DEF ReadTarget
<1>6. p \in Offered
  BY <1>1, <1>2, ExchangeTypes DEF LoadedRows, RowRead, ExchangeTyped
<1>7. readerCursor' \in 0 .. ReaderProxies - 1
  BY <1>1, <1>4, CursorStays DEF ExchangeTyped
<1>8. readPrice' \in [Fixtures -> Offered] /\ readInCycle' \subseteq Fixtures
  BY <1>1, <1>2, <1>4, <1>6 DEF ExchangeTyped
<1>9. CASE p # NoPrice /\ Moved(g, p)
  <2> DEFINE r == RememberPrice(g, p)
  <2>1. p \in BackPrices /\ seenPrice \in Memory
    BY <1>1, <1>6, <1>9 DEF Offered, ExchangeTyped
  <2>2. r \in Memory /\ SeenIn(r, g) \subseteq {p} /\ \A h \in Fixtures \ {g} : SeenIn(r, h) \subseteq SeenOf(h)
    BY <1>2, <2>1, RememberedIs
  <2>3. seenPrice' = Capped(r) /\ freshPrice' = [freshPrice EXCEPT ![g] = p] /\ astray' = astray \ {g}
        /\ readPrice' = [readPrice EXCEPT ![g] = p] /\ readInCycle' = readInCycle \cup {g}
    BY <1>4, <1>9
  <2> HIDE DEF r
  <2>4. seenPrice' \in Memory /\ Len(seenPrice') <= MaxSeenPrices /\ \A h \in Fixtures : SeenIn(seenPrice', h) \subseteq SeenIn(r, h)
    BY <2>2, <2>3, CappedIs
  <2>5. \A h \in Fixtures : SeenOf(h)' = SeenIn(seenPrice', h)
    BY DEF SeenOf, SeenIn
  <2>6. freshPrice' \in [Fixtures -> Offered] /\ freshPrice'[g] = p /\ readPrice'[g] = p
        /\ \A h \in Fixtures \ {g} : freshPrice'[h] = freshPrice[h] /\ readPrice'[h] = readPrice[h]
    BY <1>1, <1>2, <1>6, <2>3 DEF ExchangeTyped
  <2>7. Latest(g)' = p /\ \A h \in Fixtures \ {g} : Latest(h)' = Latest(h)
    BY <1>5, <1>9, <2>6 DEF Latest
  <2>8. ExchangeTyped'
    BY <1>1, <1>2, <1>5, <1>7, <1>8, <2>3, <2>4, <2>6 DEF ExchangeTyped
  <2>9. ASSUME NEW h \in Fixtures PROVE h \in astray' \/ \A q \in SeenOf(h)' : Latest(h)' = q
    <3>1. CASE h = g
      BY <2>2, <2>4, <2>5, <2>7, <3>1
    <3>2. CASE h # g
      BY <2>2, <2>3, <2>4, <2>5, <2>7, <3>2 DEF ExchangeInv
    <3> QED
      BY <3>1, <3>2
  <2>10. ASSUME NEW h \in readInCycle' PROVE h \in astray' \/ Latest(h)' = readPrice'[h]
    <3>1. CASE h = g
      BY <2>6, <2>7, <3>1
    <3>2. CASE h # g
      BY <1>1, <2>3, <2>6, <2>7, <3>2 DEF ExchangeInv, ExchangeTyped
    <3> QED
      BY <3>1, <3>2
  <2> QED
    BY <1>1, <1>5, <2>8, <2>9, <2>10 DEF ExchangeInv
<1>10. CASE ~(p # NoPrice /\ Moved(g, p))
  <2>1. UNCHANGED <<seenPrice, freshPrice, astray>>
    BY <1>4, <1>10
  <2>2. \A h \in Fixtures : SeenOf(h)' = SeenOf(h) /\ Latest(h)' = Latest(h)
    BY <1>5, <2>1 DEF SeenOf, Latest
  <2>3. ExchangeTyped'
    BY <1>1, <1>2, <1>5, <1>7, <1>8, <2>1 DEF ExchangeTyped
  <2>4. \A h \in Fixtures : h \in astray' \/ \A q \in SeenOf(h)' : Latest(h)' = q
    BY <2>1, <2>2 DEF ExchangeInv
  <2>5. ASSUME NEW h \in readInCycle' PROVE h \in astray' \/ Latest(h)' = readPrice'[h]
    <3>1. CASE p = NoPrice
      BY <1>1, <1>4, <2>1, <2>2, <3>1 DEF ExchangeInv, ExchangeTyped
    <3>2. CASE p # NoPrice
      <4>1. p \in SeenOf(g) /\ readPrice' = [readPrice EXCEPT ![g] = p] /\ readInCycle' = readInCycle \cup {g}
        BY <1>4, <1>10, <3>2 DEF Moved
      <4>2. g \in astray \/ Latest(g) = p
        BY <1>2, <4>1 DEF ExchangeInv
      <4>3. readPrice'[g] = p /\ \A x \in Fixtures \ {g} : readPrice'[x] = readPrice[x]
        BY <1>1, <1>2, <4>1 DEF ExchangeTyped
      <4>4. CASE h = g
        BY <1>2, <2>1, <2>2, <4>2, <4>3, <4>4
      <4>5. CASE h # g
        BY <1>1, <2>1, <2>2, <4>1, <4>3, <4>5 DEF ExchangeInv, ExchangeTyped
      <4> QED
        BY <4>4, <4>5
    <3> QED
      BY <3>1, <3>2
  <2> QED
    BY <1>1, <1>5, <2>3, <2>4, <2>5 DEF ExchangeInv
<1> QED
  BY <1>9, <1>10

\* A cycle's other steps, the market's moves and a lost session.
LEMMA ExchangeKeepsInv ==
  ASSUME ExchangeInv, [ExchangeNext]_exVars
  PROVE  ExchangeInv'
<1>1. ExchangeTyped /\ \A h \in Fixtures : SeenOf(h) = SeenIn(seenPrice, h)
  BY DEF ExchangeInv, SeenOf, SeenIn
<1>2. CASE UNCHANGED exVars
  BY <1>2 DEF exVars, ExchangeInv, ExchangeTyped, Latest, SeenOf
<1>3. ASSUME NEW g \in Fixtures, PriceMoves(g) \/ VolumeMoves(g) \/ KicksOff(g) PROVE ExchangeInv'
  <2>1. backPrice' \in [Fixtures -> Offered] /\ liquid' \subseteq Fixtures /\ kickedOff' \subseteq Fixtures
    BY <1>1, <1>3 DEF PriceMoves, VolumeMoves, KicksOff, ExchangeTyped
  <2>2. UNCHANGED <<exAt, toRead, seenPrice, freshPrice, readerCursor, exRow, exRank, readPrice, readInCycle, astray, losses>>
    BY <1>3 DEF PriceMoves, VolumeMoves, KicksOff
  <2> QED
    BY <2>1, <2>2, MarketMoves
<1>4. ASSUME NEW g \in Fixtures, MainScrapeWrites(g) PROVE ExchangeInv'
  <2>1. /\ exRow' = [exRow EXCEPT ![g] = backPrice[g]] /\ exRank' = RankedLast({g})
        /\ readPrice' = [readPrice EXCEPT ![g] = backPrice[g]] /\ freshPrice' = [freshPrice EXCEPT ![g] = NoPrice]
        /\ astray' = astray \cup {g}
        /\ UNCHANGED <<backPrice, liquid, kickedOff, exAt, toRead, seenPrice, readerCursor, readInCycle, losses>>
    BY <1>4 DEF MainScrapeWrites
  <2>2. exRank' \in [Fixtures -> 0 .. MostRanks]
    BY <1>1, <2>1, RanksAreFew DEF ExchangeTyped
  <2>3. /\ exRow' \in [Fixtures -> Offered] /\ readPrice' \in [Fixtures -> Offered] /\ freshPrice' \in [Fixtures -> Offered]
        /\ freshPrice'[g] = NoPrice
        /\ \A h \in Fixtures \ {g} : exRow'[h] = exRow[h] /\ readPrice'[h] = readPrice[h] /\ freshPrice'[h] = freshPrice[h]
    BY <1>1, <2>1, ExchangeTypes DEF ExchangeTyped
  <2>4. \A h \in Fixtures \ {g} : Latest(h)' = Latest(h)
    BY <2>3 DEF Latest
  <2>5. \A h \in Fixtures : SeenOf(h)' = SeenOf(h)
    BY <2>1 DEF SeenOf
  <2>6. ExchangeTyped'
    BY <1>1, <2>1, <2>2, <2>3 DEF ExchangeTyped
  <2>7. \A h \in Fixtures : h \in astray' \/ \A q \in SeenOf(h)' : Latest(h)' = q
    BY <2>1, <2>4, <2>5 DEF ExchangeInv
  <2>8. \A h \in readInCycle' : h \in astray' \/ Latest(h)' = readPrice'[h]
    BY <1>1, <2>1, <2>3, <2>4 DEF ExchangeInv, ExchangeTyped
  <2>9. exAt' = "idle" => \A h \in Fixtures : freshPrice'[h] = NoPrice
    BY <2>1, <2>3 DEF ExchangeInv
  <2> QED
    BY <2>6, <2>7, <2>8, <2>9 DEF ExchangeInv
<1>5. CASE SelectTargets
  <2>1. exAt' = "reading" /\ toRead' = Targets /\ readInCycle' = {}
        /\ UNCHANGED <<backPrice, liquid, kickedOff, seenPrice, freshPrice, readerCursor, exRow, exRank, readPrice, astray, losses>>
    BY <1>5 DEF SelectTargets
  <2>2. Targets \in Seq(Fixtures) /\ Len(Targets) <= TargetLimit
    BY <1>1, TargetsAreFixtures DEF ExchangeTyped
  <2>3. ExchangeTyped'
    BY <1>1, <2>1, <2>2 DEF ExchangeTyped
  <2> QED
    BY <2>1, <2>3 DEF ExchangeInv, Latest, SeenOf
<1>6. CASE ReadTarget
  BY <1>6, ReadKeepsInv
<1>7. CASE NothingToWrite
  <2>1. Repriced = {} /\ exAt' = "idle"
        /\ UNCHANGED <<backPrice, liquid, kickedOff, toRead, seenPrice, freshPrice, readerCursor, exRow, exRank,
                       readPrice, readInCycle, astray, losses>>
    BY <1>7 DEF NothingToWrite
  <2>2. \A h \in Fixtures : freshPrice[h] = NoPrice
    BY <2>1 DEF Repriced
  <2> QED
    BY <1>1, <2>1, <2>2 DEF ExchangeInv, ExchangeTyped, Latest, SeenOf
<1>8. CASE BeginWrite
  BY <1>1, <1>8 DEF BeginWrite, ExchangeInv, ExchangeTyped, Latest, SeenOf
<1>9. CASE WriteLands
  <2>1. /\ exAt' = "idle" /\ exRow' = [g \in Fixtures |-> IF g \in Repriced THEN freshPrice[g] ELSE exRow[g]]
        /\ exRank' = RankedLast(Repriced) /\ freshPrice' = [g \in Fixtures |-> NoPrice]
        /\ UNCHANGED <<backPrice, liquid, kickedOff, toRead, seenPrice, readerCursor, readPrice, readInCycle, astray, losses>>
    BY <1>9 DEF WriteLands
  <2>2. Repriced \in SUBSET Fixtures /\ \A g \in Fixtures : g \in Repriced <=> freshPrice[g] # NoPrice
    BY DEF Repriced
  <2>3. exRank' \in [Fixtures -> 0 .. MostRanks]
    BY <1>1, <2>1, <2>2, RanksAreFew DEF ExchangeTyped
  <2>4. exRow' \in [Fixtures -> Offered] /\ freshPrice' \in [Fixtures -> Offered] /\ \A g \in Fixtures : freshPrice'[g] = NoPrice
    BY <1>1, <2>1, ExchangeTypes DEF ExchangeTyped
  <2>5. \A g \in Fixtures : Latest(g)' = Latest(g) /\ SeenOf(g)' = SeenOf(g)
    BY <2>1, <2>2, <2>4 DEF Latest, SeenOf
  <2>6. ExchangeTyped'
    BY <1>1, <2>1, <2>3, <2>4 DEF ExchangeTyped
  <2>7. \A h \in readInCycle' : h \in astray' \/ Latest(h)' = readPrice'[h]
    BY <1>1, <2>1, <2>5 DEF ExchangeInv, ExchangeTyped
  <2> QED
    BY <2>1, <2>4, <2>5, <2>6, <2>7 DEF ExchangeInv
<1>10. CASE WriteFails
  <2>1. /\ exAt' = "idle" /\ losses < MaxLosses /\ losses' = losses + 1 /\ astray' = astray \cup Repriced
        /\ freshPrice' = [g \in Fixtures |-> NoPrice] /\ readInCycle' = {}
        /\ UNCHANGED <<backPrice, liquid, kickedOff, toRead, seenPrice, readerCursor, exRow, exRank, readPrice>>
    BY <1>10 DEF WriteFails
  <2>2. Repriced \in SUBSET Fixtures /\ \A g \in Fixtures : g \in Repriced <=> freshPrice[g] # NoPrice
    BY DEF Repriced
  <2>3. losses' \in 0 .. MaxLosses /\ freshPrice' \in [Fixtures -> Offered] /\ \A g \in Fixtures : freshPrice'[g] = NoPrice
    BY <1>1, <2>1, ExchangeTypes DEF ExchangeTyped
  <2>4. \A g \in Fixtures : SeenOf(g)' = SeenOf(g) /\ (g \notin astray' => Latest(g)' = Latest(g))
    BY <2>1, <2>2, <2>3 DEF Latest, SeenOf
  <2>5. ExchangeTyped'
    BY <1>1, <2>1, <2>2, <2>3 DEF ExchangeTyped
  <2> QED
    BY <2>1, <2>3, <2>4, <2>5 DEF ExchangeInv
<1>11. CASE ExchangeRestarts
  <2>1. /\ losses < MaxLosses /\ losses' = losses + 1 /\ exAt' = "idle" /\ toRead' = <<>> /\ seenPrice' = <<>> /\ readerCursor' = 0
        /\ freshPrice' = [g \in Fixtures |-> NoPrice] /\ readInCycle' = {}
        /\ UNCHANGED <<backPrice, liquid, kickedOff, exRow, exRank, readPrice, astray>>
    BY <1>11 DEF ExchangeRestarts
  <2>2. losses' \in 0 .. MaxLosses /\ freshPrice' \in [Fixtures -> Offered] /\ (\A g \in Fixtures : freshPrice'[g] = NoPrice)
        /\ 0 \in 0 .. ReaderProxies - 1
    BY <1>1, <2>1, ExchangeTypes DEF ExchangeTyped
  <2>3. toRead' \in Seq(Fixtures) /\ Len(toRead') <= TargetLimit /\ seenPrice' \in Memory /\ Len(seenPrice') <= MaxSeenPrices
    BY <2>1, ExchangeTypes DEF Memory
  <2>4. ExchangeTyped'
    BY <1>1, <2>1, <2>2, <2>3 DEF ExchangeTyped
  <2>5. \A g \in Fixtures : SeenOf(g)' = {}
    BY <2>1 DEF SeenOf
  <2> QED
    BY <2>1, <2>2, <2>4, <2>5 DEF ExchangeInv
<1> QED
  BY <1>2, <1>3, <1>4, <1>5, <1>6, <1>7, <1>8, <1>9, <1>10, <1>11 DEF ExchangeNext, ExchangeCycle


-----------------------------------------------------------------------------
(* The odds history: reading a row back                                    *)

Odds == Prices \cup {Gone}

\* One quote's rows: when it has some, and the last at or before a cutoff
RowsAt(row, cutoff)  == {t \in Times : t <= cutoff /\ row[t] # Gone}
CloseOf(row, cutoff) == IF RowsAt(row, cutoff) = {} THEN Gone ELSE row[Max(RowsAt(row, cutoff))]

\* What the assumptions say of the constants, at hand.
LEMMA HistoryTypes ==
  /\ IsFiniteSet(Quotes) /\ Prices \subseteq Nat \ {0} /\ Kickoff \in Nat /\ MaxTime \in Nat /\ MaxFaults \in Nat
  /\ SeenTTL \in Nat /\ SeenMax \in Nat /\ MaxGap \in Nat
  /\ Times = 0 .. MaxTime /\ Times \subseteq Nat /\ NoTime \in Nat /\ NoTime \notin Times /\ Gone \in Odds /\ Gone \notin Prices
BY HistoryAssumption DEF Times, NoTime, Gone, Odds

\* Times have a latest one.
LEMMA LatestTime ==
  ASSUME NEW S \in SUBSET Times, S # {}
  PROVE  Max(S) \in S /\ \A t \in S : t <= Max(S)
<1> DEFINE B == {u \in Nat : \A t \in S : t <= u}
<1>1. MaxTime \in B /\ B \in SUBSET Nat /\ S \subseteq Nat
  BY HistoryTypes
<1>2. PICK u \in B : \A x \in B : u <= x
  <2>1. B # {} /\ B \in SUBSET Nat
    BY <1>1
  <2> HIDE DEF B
  <2> QED
    BY <2>1, LeastNumber
<1>3. u \in S
  <2>1. SUFFICES ASSUME u \notin S PROVE FALSE
    OBVIOUS
  <2>2. \A t \in S : t < u
    BY <1>1, <2>1
  <2>4. PICK t \in S : t \in Nat /\ t < u
    BY <1>1, <2>2
  <2>5. u \in Nat /\ u - 1 \in Nat
    BY <2>4
  <2>6. \A x \in S : x <= u - 1
    BY <1>1, <2>2, <2>5
  <2>3. u - 1 \in B
    BY <2>5, <2>6
  <2> QED
    BY <1>2, <2>3
<1>4. \E x \in S : \A t \in S : x >= t
  BY <1>1, <1>3
<1>5. Max(S) \in S /\ \A t \in S : Max(S) >= t
  BY <1>4 DEF Max
<1> QED
  BY <1>1, <1>5

\* The close is the last row there is.
LEMMA CloseIsLast ==
  ASSUME NEW row, NEW cutoff, NEW t \in RowsAt(row, cutoff), \A u \in RowsAt(row, cutoff) : u <= t
  PROVE  CloseOf(row, cutoff) = row[t]
<1>1. RowsAt(row, cutoff) \in SUBSET Times /\ RowsAt(row, cutoff) # {}
  BY DEF RowsAt
<1>2. Max(RowsAt(row, cutoff)) \in RowsAt(row, cutoff) /\ t <= Max(RowsAt(row, cutoff))
  BY <1>1, LatestTime
<1>3. t \in Nat /\ Max(RowsAt(row, cutoff)) \in Nat /\ Max(RowsAt(row, cutoff)) <= t
  BY <1>1, <1>2, HistoryTypes
<1>4. Max(RowsAt(row, cutoff)) = t
  BY <1>2, <1>3
<1> QED
  BY <1>1, <1>4 DEF CloseOf

\* The close the query finds is the last price of the row before the cutoff.
LEMMA CloseRowIs ==
  ASSUME NEW q \in Quotes, NEW cutoff
  PROVE  CloseRow(q, cutoff) = CloseOf(rows[q], cutoff)
BY DEF CloseRow, RowTimes, CloseOf, RowsAt

\* A row appended after all the others is the close.
LEMMA AppendedIsClose ==
  ASSUME NEW row \in [Times -> Odds], NEW at0 \in Times, NEW price \in Prices, NEW cutoff \in Nat, at0 <= cutoff,
         \A t \in Times : row[t] # Gone => t <= at0
  PROVE  CloseOf([row EXCEPT ![at0] = price], cutoff) = price
<1> DEFINE new == [row EXCEPT ![at0] = price]
<1>1. new[at0] = price /\ \A t \in Times : t # at0 => new[t] = row[t]
  OBVIOUS
<1> HIDE DEF new
<1>2. at0 \in RowsAt(new, cutoff) /\ \A u \in RowsAt(new, cutoff) : u <= at0
  BY <1>1, HistoryTypes DEF RowsAt
<1>3. CloseOf(new, cutoff) = new[at0]
  BY <1>2, CloseIsLast
<1> QED
  BY <1>1, <1>3 DEF new

\* Rows that are all before the kickoff have their close before it.
LEMMA CloseBeforeKickoff ==
  ASSUME NEW row, \A t \in Times : row[t] # Gone => t <= Kickoff
  PROVE  CloseOf(row, Kickoff) = CloseOf(row, MaxTime)
<1>1. RowsAt(row, Kickoff) = RowsAt(row, MaxTime)
  BY HistoryTypes DEF RowsAt
<1> QED
  BY <1>1 DEF CloseOf

-----------------------------------------------------------------------------
(* The odds history: its invariant                                         *)

SeenRecord == [odds : Odds, at : Times \cup {NoTime}]

HistoryTyped ==
  /\ clock \in Times /\ faults \in 0 .. MaxFaults
  /\ batch \in [phase : {"none", "fetched", "stored", "match"}, at : Times \cup {NoTime}, odds : [Quotes -> Odds]]
  /\ odds_seen \in [Quotes -> SeenRecord]
  /\ rows \in [Quotes -> [Times -> Odds]]
  /\ onSite \in [Quotes -> Odds] /\ onSiteAt \in Times \cup {NoTime}
  /\ adrift \subseteq Quotes
  /\ Cardinality(Held(odds_seen)) <= SeenMax

\* No row is newer than the last capture, and a capture not yet written has none; the clock of the
\* coverage gate never runs ahead of the last page persisted before kickoff.
HistoryInv ==
  /\ HistoryTyped
  /\ batch.at = NoTime => batch.phase = "none"
  /\ \A q \in Quotes : \A t \in Times : rows[q][t] # Gone =>
       /\ batch.at # NoTime /\ t <= batch.at /\ (batch.phase = "fetched" => t < batch.at)
       /\ t <= Kickoff => onSiteAt # NoTime /\ t <= onSiteAt
  /\ onSiteAt # NoTime => batch.at # NoTime /\ onSiteAt <= batch.at
  /\ \A q \in Quotes : odds_seen[q] # NeverSeen /\ q \notin adrift => odds_seen[q].odds = CloseOf(rows[q], MaxTime)
  /\ ~GameIsOn => \A q \in Quotes : q \notin adrift => CloseOf(rows[q], Kickoff) = onSite[q]

\* A selection never seen has no price.
LEMMA NeverSeenIs == NeverSeen \in SeenRecord /\ NeverSeen.odds = Gone
BY HistoryTypes DEF NeverSeen, SeenRecord

\* A sweep keeps some records as they are and forgets the others, down to the limit.
LEMMA HeldAreFew ==
  ASSUME NEW cache \in [Quotes -> SeenRecord], NEW kept0 \in Swept(cache)
  PROVE  /\ kept0 \in [Quotes -> SeenRecord] /\ Cardinality(Held(kept0)) <= SeenMax
         /\ \A q \in Quotes : kept0[q] = cache[q] \/ kept0[q] = NeverSeen
<1> DEFINE young == {q \in Held(cache) : clock <= cache[q].at + SeenTTL}
<1>1. CASE Cardinality(Held(cache)) <= SeenMax
  BY <1>1 DEF Swept
<1>2. CASE ~(Cardinality(Held(cache)) <= SeenMax)
  <2>1. PICK s \in SUBSET young :
          /\ Cardinality(s) = IF Cardinality(young) < SeenMax THEN Cardinality(young) ELSE SeenMax
          /\ kept0 = [q \in Quotes |-> IF q \in s THEN cache[q] ELSE NeverSeen]
    BY <1>2 DEF Swept
  <2>2. young \in SUBSET Quotes
    BY DEF Held
  <2> HIDE DEF young
  <2>3. IsFiniteSet(young) /\ s \in SUBSET Quotes /\ IsFiniteSet(s) /\ Cardinality(young) \in Nat /\ Cardinality(s) \in Nat
    BY <2>2, HistoryTypes, FS_Subset, FS_CardinalityType
  <2>4. Cardinality(s) <= SeenMax
    BY <2>1, <2>3, HistoryTypes
  <2>5. Held(kept0) \in SUBSET s
    BY <2>1 DEF Held
  <2>6. IsFiniteSet(Held(kept0)) /\ Cardinality(Held(kept0)) <= Cardinality(s)
    BY <2>3, <2>5, FS_Subset
  <2>7. Cardinality(Held(kept0)) \in Nat
    BY <2>6, FS_CardinalityType
  <2>8. Cardinality(Held(kept0)) <= SeenMax
    BY <2>3, <2>4, <2>6, <2>7, HistoryTypes
  <2>9. kept0 \in [Quotes -> SeenRecord] /\ \A q \in Quotes : kept0[q] = cache[q] \/ kept0[q] = NeverSeen
    BY <2>1, NeverSeenIs
  <2> QED
    BY <2>8, <2>9
<1> QED
  BY <1>1, <1>2

\* Nothing is scraped, seen or stored.
LEMMA HistoryStart == HistoryInit => HistoryInv
<1> SUFFICES ASSUME HistoryInit PROVE HistoryInv
  OBVIOUS
<1>1. /\ clock = 0 /\ faults = 0 /\ batch = NoPage /\ odds_seen = [q \in Quotes |-> NeverSeen]
      /\ rows = [q \in Quotes |-> [t \in Times |-> Gone]] /\ onSite = [q \in Quotes |-> Gone]
      /\ onSiteAt = NoTime /\ adrift = {}
  BY DEF HistoryInit
<1>2. Held(odds_seen) = {}
  BY <1>1 DEF Held
<1>3. Cardinality(Held(odds_seen)) <= SeenMax
  BY <1>2, FS_EmptySet, HistoryTypes
<1>4. batch \in [phase : {"none", "fetched", "stored", "match"}, at : Times \cup {NoTime}, odds : [Quotes -> Odds]]
      /\ batch.phase = "none" /\ batch.at = NoTime
  BY <1>1, HistoryTypes DEF NoPage
<1>5. odds_seen \in [Quotes -> SeenRecord] /\ \A q \in Quotes : odds_seen[q] = NeverSeen
  BY <1>1, NeverSeenIs
<1>6. rows \in [Quotes -> [Times -> Odds]] /\ \A q \in Quotes : \A t \in Times : rows[q][t] = Gone
  BY <1>1, HistoryTypes
<1>7. ASSUME NEW q \in Quotes PROVE CloseOf(rows[q], Kickoff) = onSite[q]
  <2>1. RowsAt(rows[q], Kickoff) = {}
    BY <1>6 DEF RowsAt
  <2> QED
    BY <1>1, <2>1 DEF CloseOf
<1>8. HistoryTyped
  BY <1>1, <1>3, <1>4, <1>5, <1>6, HistoryTypes DEF HistoryTyped
<1> QED
  BY <1>1, <1>4, <1>5, <1>6, <1>7, <1>8 DEF HistoryInv


\* A write appends the batch's price where it changed, which is then the close for any later cutoff.
LEMMA AppendedIs ==
  ASSUME HistoryInv, batch.phase = "fetched"
  PROVE  /\ batch.at \in Times /\ Appended \in [Quotes -> [Times -> Odds]]
         /\ \A q \in ToWrite : batch.odds[q] \in Prices /\ \A cutoff \in Nat :
              batch.at <= cutoff => CloseOf(Appended[q], cutoff) = batch.odds[q]
         /\ \A q \in Quotes \ ToWrite : Appended[q] = rows[q]
         /\ \A q \in Quotes : \A t \in Times : Appended[q][t] # Gone => t = batch.at \/ rows[q][t] # Gone
<1>1. batch.at \in Times /\ batch.odds \in [Quotes -> Odds] /\ rows \in [Quotes -> [Times -> Odds]]
      /\ \A q \in Quotes : \A t \in Times : rows[q][t] # Gone => t < batch.at
  BY DEF HistoryInv, HistoryTyped
<1>2. ASSUME NEW q \in Quotes
      PROVE  rows[q][batch.at] = Gone
  <2>1. batch.at \in Nat
    BY <1>1, HistoryTypes
  <2>2. ~(batch.at < batch.at)
    BY <2>1
  <2> QED
    BY <1>1, <2>2
<1>3. ASSUME NEW q \in Quotes
      PROVE  Appended[q] = IF q \in ToWrite THEN [rows[q] EXCEPT ![batch.at] = batch.odds[q]] ELSE rows[q]
  BY <1>2 DEF Appended
<1>4. \A q \in ToWrite : q \in Quotes /\ batch.odds[q] \in Prices
  BY <1>1, HistoryTypes DEF ToWrite, Differs, Odds
<1>5. ASSUME NEW q \in Quotes
      PROVE  Appended[q] \in [Times -> Odds] /\ \A t \in Times : Appended[q][t] # Gone => t = batch.at \/ rows[q][t] # Gone
  <2>1. CASE q \in ToWrite
    <3>1. Appended[q] = [rows[q] EXCEPT ![batch.at] = batch.odds[q]] /\ rows[q] \in [Times -> Odds] /\ batch.odds[q] \in Odds
      BY <1>1, <1>3, <2>1
    <3> QED
      BY <1>1, <3>1
  <2>2. CASE q \notin ToWrite
    BY <1>1, <1>3, <2>2
  <2> QED
    BY <2>1, <2>2
<1>6. ASSUME NEW q \in ToWrite, NEW cutoff \in Nat, batch.at <= cutoff
      PROVE  CloseOf(Appended[q], cutoff) = batch.odds[q]
  <2> DEFINE row == rows[q]
             at0 == batch.at
             price == batch.odds[q]
  <2>1. row \in [Times -> Odds] /\ at0 \in Times /\ price \in Prices /\ Appended[q] = [row EXCEPT ![at0] = price]
    BY <1>1, <1>3, <1>4
  <2>2. \A t \in Times : row[t] # Gone => t <= at0
    <3>1. ASSUME NEW t \in Times, row[t] # Gone PROVE t <= at0
      <4>1. t < at0 /\ t \in Nat /\ at0 \in Nat
        BY <1>1, <1>4, <2>1, <3>1, HistoryTypes
      <4> QED
        BY <4>1
    <3> QED
      BY <3>1
  <2>3. at0 <= cutoff
    BY <1>6
  <2> HIDE DEF row, at0, price
  <2>4. CloseOf([row EXCEPT ![at0] = price], cutoff) = price
    BY <2>1, <2>2, <2>3, AppendedIsClose
  <2> QED
    BY <2>1, <2>4 DEF price
<1>7. Appended \in [Quotes -> [Times -> Odds]]
  BY <1>5 DEF Appended
<1> QED
  BY <1>1, <1>3, <1>4, <1>5, <1>6, <1>7

\* After a batch the cache holds its prices, and what it held of the others.
LEMMA UpdatesAreSeen ==
  ASSUME HistoryInv
  PROVE  SeenUpdates \in [Quotes -> SeenRecord]
         /\ \A q \in Quotes : IF batch.odds[q] = Gone THEN SeenUpdates[q] = odds_seen[q] ELSE SeenUpdates[q].odds = batch.odds[q]
<1>1. batch.odds \in [Quotes -> Odds] /\ odds_seen \in [Quotes -> SeenRecord] /\ clock \in Times
  BY DEF HistoryInv, HistoryTyped
<1> QED
  BY <1>1 DEF SeenUpdates, SeenRecord

\* A batch is written, or not: a quote that is not adrift afterwards was written and remembered, or
\* was not to be written.
LEMMA WritesKeepInv ==
  ASSUME HistoryInv, batch.phase = "fetched", batch' = [batch EXCEPT !.phase = "stored"], clock' = clock,
         faults' \in 0 .. MaxFaults, NoteShown, rows' \in {rows, Appended}, adrift' \subseteq Quotes,
         odds_seen' = odds_seen \/ odds_seen' \in Swept(SeenUpdates),
         \A q \in Quotes : q \notin adrift' =>
           \/ q \in ToWrite /\ rows' = Appended /\ odds_seen' \in Swept(SeenUpdates)
           \/ q \notin ToWrite /\ q \notin adrift
  PROVE  HistoryInv'
<1>1. /\ batch.at \in Times /\ batch.at \in Nat /\ batch.odds \in [Quotes -> Odds] /\ rows \in [Quotes -> [Times -> Odds]]
      /\ odds_seen \in [Quotes -> SeenRecord] /\ clock \in Times /\ onSite \in [Quotes -> Odds] /\ onSiteAt \in Times \cup {NoTime}
      /\ batch \in [phase : {"none", "fetched", "stored", "match"}, at : Times \cup {NoTime}, odds : [Quotes -> Odds]]
  BY AppendedIs, HistoryTypes DEF HistoryInv, HistoryTyped
<1>2. batch' = [phase |-> "stored", at |-> batch.at, odds |-> batch.odds]
  BY <1>1
<1>3. rows' \in [Quotes -> [Times -> Odds]]
      /\ \A q \in Quotes : \A t \in Times : rows'[q][t] # Gone => t = batch.at \/ rows[q][t] # Gone
  BY <1>1, AppendedIs
<1>4. odds_seen' \in [Quotes -> SeenRecord] /\ Cardinality(Held(odds_seen)') <= SeenMax
      /\ \A q \in Quotes : \/ odds_seen'[q] = odds_seen[q] /\ odds_seen' = odds_seen
                           \/ odds_seen'[q] = SeenUpdates[q] \/ odds_seen'[q] = NeverSeen
  <2>1. CASE odds_seen' = odds_seen
    BY <1>1, <2>1 DEF HistoryInv, HistoryTyped, Held
  <2>2. CASE odds_seen' \in Swept(SeenUpdates)
    <3>1. odds_seen' \in [Quotes -> SeenRecord] /\ Cardinality(Held(odds_seen')) <= SeenMax
          /\ \A q \in Quotes : odds_seen'[q] = SeenUpdates[q] \/ odds_seen'[q] = NeverSeen
      BY <2>2, HeldAreFew, UpdatesAreSeen
    <3> QED
      BY <3>1 DEF Held
  <2> QED
    BY <2>1, <2>2
<1>5. /\ onSite' = (IF batch.at <= Kickoff THEN LatestShown ELSE onSite)
      /\ onSiteAt' = (IF batch.at <= Kickoff THEN batch.at ELSE onSiteAt)
  BY DEF NoteShown, BeforeKickoff
<1>6. onSite' \in [Quotes -> Odds] /\ onSiteAt' \in Times \cup {NoTime}
  BY <1>1, <1>5 DEF LatestShown
<1>7. batch' \in [phase : {"none", "fetched", "stored", "match"}, at : Times \cup {NoTime}, odds : [Quotes -> Odds]]
      /\ batch'.at = batch.at /\ batch'.phase = "stored" /\ NoTime # batch.at
  BY <1>1, <1>2, HistoryTypes
<1>8. HistoryTyped'
  <2>1. clock' \in Times /\ faults' \in 0 .. MaxFaults /\ adrift' \subseteq Quotes
    BY <1>1
  <2> QED
    BY <1>3, <1>4, <1>6, <1>7, <2>1, Zenon DEF HistoryTyped, Times, NoTime, Odds, SeenRecord, Gone
<1>9. ASSUME NEW q \in Quotes, NEW t \in Times, rows'[q][t] # Gone
      PROVE  t <= batch.at /\ (t <= Kickoff => onSiteAt' # NoTime /\ t <= onSiteAt')
  <2>0. t \in Nat /\ Kickoff \in Nat /\ onSiteAt \in Nat
    BY <1>1, HistoryTypes
  <2>1. CASE t = batch.at
    BY <1>1, <1>5, <1>7, <2>0, <2>1
  <2>2. CASE rows[q][t] # Gone
    <3>1. t < batch.at /\ (t <= Kickoff => onSiteAt # NoTime /\ t <= onSiteAt)
      BY <2>2 DEF HistoryInv
    <3> QED
      BY <1>1, <1>5, <1>7, <2>0, <3>1
  <2> QED
    BY <1>3, <1>9, <2>1, <2>2
<1>10. onSiteAt' # NoTime => onSiteAt' <= batch.at
  BY <1>1, <1>5 DEF HistoryInv
<1>11. ASSUME NEW q \in Quotes, odds_seen'[q] # NeverSeen, q \notin adrift'
       PROVE  odds_seen'[q].odds = CloseOf(rows'[q], MaxTime)
  <2>1. CASE q \in ToWrite /\ rows' = Appended /\ odds_seen' \in Swept(SeenUpdates)
    <3>1. batch.odds[q] \in Prices /\ CloseOf(rows'[q], MaxTime) = batch.odds[q]
      BY <1>1, <2>1, AppendedIs, HistoryTypes
    <3>2. odds_seen'[q] = SeenUpdates[q]
      BY <1>11, <2>1, HeldAreFew, UpdatesAreSeen
    <3> QED
      BY <3>1, <3>2, UpdatesAreSeen, HistoryTypes
  <2>2. CASE q \notin ToWrite /\ q \notin adrift
    <3>1. rows'[q] = rows[q]
      BY <2>2, AppendedIs
    <3>2. CASE odds_seen'[q] = odds_seen[q]
      BY <1>11, <2>2, <3>1, <3>2 DEF HistoryInv
    <3>3. CASE odds_seen'[q] # odds_seen[q]
      <4>1. batch.odds[q] # Gone /\ odds_seen'[q].odds = batch.odds[q]
        BY <1>4, <1>11, <3>3, UpdatesAreSeen
      <4>2. odds_seen[q].odds = batch.odds[q] /\ odds_seen[q] # NeverSeen
        BY <2>2, <4>1, NeverSeenIs DEF ToWrite, Differs
      <4> QED
        BY <2>2, <3>1, <4>1, <4>2 DEF HistoryInv
    <3> QED
      BY <3>2, <3>3
  <2> QED
    BY <1>11, <2>1, <2>2
<1>12. ASSUME NEW q \in Quotes, ~GameIsOn', q \notin adrift'
       PROVE  CloseOf(rows'[q], Kickoff) = onSite'[q]
  <2>1. batch.at <= Kickoff /\ ~GameIsOn
    BY <1>1, <1>7, <1>12, HistoryTypes DEF GameIsOn
  <2>2. onSite' = LatestShown
    BY <1>5, <2>1
  <2>3. CASE q \in ToWrite /\ rows' = Appended /\ odds_seen' \in Swept(SeenUpdates)
    <3>1. CloseOf(rows'[q], Kickoff) = batch.odds[q] /\ batch.odds[q] # Gone
      BY <2>1, <2>3, AppendedIs, HistoryTypes
    <3> QED
      BY <2>2, <3>1 DEF LatestShown
  <2>4. CASE q \notin ToWrite /\ q \notin adrift
    <3>1. rows'[q] = rows[q]
      BY <2>4, AppendedIs
    <3>2. CloseOf(rows[q], Kickoff) = onSite[q]
      BY <2>1, <2>4 DEF HistoryInv
    <3>3. CASE batch.odds[q] = Gone
      BY <2>2, <3>1, <3>2, <3>3 DEF LatestShown
    <3>4. CASE batch.odds[q] # Gone
      <4>1. odds_seen[q].odds = batch.odds[q] /\ odds_seen[q] # NeverSeen
        BY <2>4, <3>4, NeverSeenIs DEF ToWrite, Differs
      <4>2. CloseOf(rows[q], MaxTime) = batch.odds[q]
        BY <2>4, <4>1 DEF HistoryInv
      <4>3. ASSUME NEW t \in Times, rows[q][t] # Gone PROVE t <= Kickoff
        <5>1. t < batch.at /\ t \in Nat
          BY <4>3, HistoryTypes DEF HistoryInv
        <5> QED
          BY <1>1, <2>1, <5>1, HistoryTypes
      <4>4. CloseOf(rows[q], Kickoff) = CloseOf(rows[q], MaxTime)
        BY <4>3, CloseBeforeKickoff
      <4> QED
        BY <2>2, <3>1, <3>4, <4>2, <4>4 DEF LatestShown
    <3> QED
      BY <3>3, <3>4
  <2> QED
    BY <1>12, <2>3, <2>4
<1> QED
  BY <1>7, <1>8, <1>9, <1>10, <1>11, <1>12 DEF HistoryInv, CloseOf, RowsAt, Times, NoTime, Gone, NeverSeen


\* Nothing is written: the page, the clock and what is remembered may change.
LEMMA PageMoves ==
  ASSUME HistoryInv, UNCHANGED <<rows, faults, onSite, onSiteAt, adrift>>, clock' \in Times,
         NEW b \in [phase : {"none", "fetched", "stored", "match"}, at : Times \cup {NoTime}, odds : [Quotes -> Odds]],
         batch' = b, b.at = NoTime => b.phase = "none",
         \/ b.at = batch.at /\ b.phase # "fetched"
         \/ b.at \in Times /\ (batch.at # NoTime => batch.at < b.at),
         odds_seen' = odds_seen \/ odds_seen' = [q \in Quotes |-> NeverSeen]
  PROVE  HistoryInv'
<1>1. odds_seen' \in [Quotes -> SeenRecord] /\ Cardinality(Held(odds_seen)') <= SeenMax
      /\ \A q \in Quotes : odds_seen'[q] = odds_seen[q] \/ odds_seen'[q] = NeverSeen
  <2>1. CASE odds_seen' = odds_seen
    BY <2>1 DEF HistoryInv, HistoryTyped, Held
  <2>2. CASE odds_seen' = [q \in Quotes |-> NeverSeen]
    <3>1. Held(odds_seen') = {}
      BY <2>2 DEF Held
    <3>2. Cardinality(Held(odds_seen')) <= SeenMax
      BY <3>1, FS_EmptySet, HistoryTypes
    <3> QED
      BY <2>2, <3>2, NeverSeenIs DEF Held
  <2> QED
    BY <2>1, <2>2
<1>2. HistoryTyped'
  BY <1>1, Zenon DEF HistoryInv, HistoryTyped, Times, NoTime, Odds, SeenRecord, Gone
<1>3. batch.at \in Times \cup {NoTime} /\ onSiteAt \in Times \cup {NoTime} /\ b.at \in Times \cup {NoTime}
  BY DEF HistoryInv, HistoryTyped
<1>4. batch.at \in Nat /\ onSiteAt \in Nat /\ b.at \in Nat
  BY <1>3, HistoryTypes
<1>5. batch.at # NoTime => b.at # NoTime /\ batch.at <= b.at
  BY <1>3, <1>4, HistoryTypes
<1>6. ASSUME NEW q \in Quotes, NEW t \in Times, rows[q][t] # Gone
      PROVE  /\ b.at # NoTime /\ t <= b.at /\ (b.phase = "fetched" => t < b.at)
             /\ t <= Kickoff => onSiteAt # NoTime /\ t <= onSiteAt
  <2>1. batch.at # NoTime /\ t <= batch.at /\ (t <= Kickoff => onSiteAt # NoTime /\ t <= onSiteAt) /\ t \in Nat
    BY <1>6, HistoryTypes DEF HistoryInv
  <2> QED
    BY <1>4, <1>5, <2>1
<1>7. onSiteAt # NoTime => b.at # NoTime /\ onSiteAt <= b.at
  <2>1. ASSUME onSiteAt # NoTime PROVE batch.at # NoTime /\ onSiteAt <= batch.at
    BY <2>1 DEF HistoryInv
  <2> QED
    BY <1>4, <1>5, <2>1
<1>8. ~GameIsOn' => ~GameIsOn
  BY <1>4, <1>5, HistoryTypes DEF GameIsOn
<1>9. \A q \in Quotes : CloseOf(rows[q], MaxTime)' = CloseOf(rows[q], MaxTime) /\ CloseOf(rows[q], Kickoff)' = CloseOf(rows[q], Kickoff)
  BY DEF CloseOf, RowsAt, Times, Gone
<1>10. \A q \in Quotes : odds_seen'[q] # NeverSeen' /\ q \notin adrift' => odds_seen'[q].odds = CloseOf(rows[q], MaxTime)'
  BY <1>1, <1>9 DEF HistoryInv, NeverSeen, NoTime, Gone
<1>11. ~GameIsOn' => \A q \in Quotes : q \notin adrift' => CloseOf(rows[q], Kickoff)' = onSite'[q]
  BY <1>8, <1>9 DEF HistoryInv
<1> QED
  BY <1>2, <1>6, <1>7, <1>10, <1>11 DEF HistoryInv, Times, NoTime, Gone

\* A scrape, its writes and faults, the cache's sweep, a restart and the clock.
LEMMA HistoryKeepsInv ==
  ASSUME HistoryInv, [HistoryNext]_historyVars
  PROVE  HistoryInv'
<1>1. /\ clock \in Times /\ faults \in 0 .. MaxFaults /\ adrift \subseteq Quotes /\ ToWrite \subseteq Quotes
      /\ batch \in [phase : {"none", "fetched", "stored", "match"}, at : Times \cup {NoTime}, odds : [Quotes -> Odds]]
      /\ batch.at = NoTime => batch.phase = "none"
  BY DEF HistoryInv, HistoryTyped, ToWrite
<1>2. batch.at \in Times \cup {NoTime} /\ batch.odds \in [Quotes -> Odds] /\ NoTime \notin Times /\ Times \subseteq Nat
  BY <1>1, HistoryTypes
<1>3. CASE UNCHANGED historyVars
  BY <1>3, Zenon DEF historyVars, HistoryInv, HistoryTyped, GameIsOn, CloseOf, RowsAt, Held
<1>4. ASSUME NEW odds \in ScrapedPages, Fetch(odds) \/ FetchMatchPage(odds) PROVE HistoryInv'
  <2>1. PICK phase0 \in {"fetched", "match"} :
          /\ batch' = [phase |-> phase0, at |-> clock, odds |-> odds] /\ (batch.at = NoTime \/ batch.at < clock)
          /\ UNCHANGED <<clock, odds_seen, rows, faults, onSite, onSiteAt, adrift>>
    BY <1>4 DEF Fetch, FetchMatchPage
  <2>2. odds \in [Quotes -> Odds]
    BY DEF ScrapedPages, Odds
  <2> DEFINE b == [phase |-> phase0, at |-> clock, odds |-> odds]
  <2>3. b \in [phase : {"none", "fetched", "stored", "match"}, at : Times \cup {NoTime}, odds : [Quotes -> Odds]]
        /\ b.at \in Times /\ (batch.at # NoTime => batch.at < b.at) /\ batch' = b
    BY <1>1, <2>1, <2>2
  <2> HIDE DEF b
  <2> QED
    BY <1>1, <1>2, <2>1, <2>3, PageMoves
<1>5. CASE Unresolved
  <2> DEFINE b == [phase |-> "stored", at |-> batch.at, odds |-> batch.odds]
  <2>1. batch' = [batch EXCEPT !.phase = "stored"] /\ batch.phase = "fetched"
        /\ UNCHANGED <<clock, odds_seen, rows, faults, onSite, onSiteAt, adrift>>
    BY <1>5 DEF Unresolved
  <2>2. batch' = b
    BY <1>1, <2>1
  <2>3. b \in [phase : {"none", "fetched", "stored", "match"}, at : Times \cup {NoTime}, odds : [Quotes -> Odds]]
        /\ b.at = batch.at /\ b.phase # "fetched" /\ b.at # NoTime
    BY <1>1, <1>2, <2>1
  <2> HIDE DEF b
  <2> QED
    BY <1>1, <2>1, <2>2, <2>3, PageMoves
<1>6. CASE Restart \/ ScanEnds
  <2> DEFINE b == [phase |-> "none", at |-> batch.at, odds |-> [q \in Quotes |-> Gone]]
  <2>1. batch' = [NoPage EXCEPT !.at = batch.at] /\ UNCHANGED <<clock, rows, faults, onSite, onSiteAt, adrift>>
        /\ (odds_seen' = odds_seen \/ odds_seen' = [q \in Quotes |-> NeverSeen])
    BY <1>6 DEF Restart, ScanEnds
  <2>2. batch' = b
    BY <2>1 DEF NoPage
  <2>3. b \in [phase : {"none", "fetched", "stored", "match"}, at : Times \cup {NoTime}, odds : [Quotes -> Odds]]
        /\ b.at = batch.at /\ b.phase = "none"
    BY <1>2, HistoryTypes
  <2> HIDE DEF b
  <2> QED
    BY <1>1, <2>1, <2>2, <2>3, PageMoves
<1>7. CASE Tick
  <2>1. clock < MaxTime /\ clock' = clock + 1 /\ UNCHANGED <<batch, odds_seen, rows, faults, onSite, onSiteAt, adrift>>
    BY <1>7 DEF Tick
  <2>2. clock' \in Times
    BY <1>1, <2>1, HistoryTypes
  <2>3. HistoryTyped'
    BY <2>1, <2>2, Zenon DEF HistoryInv, HistoryTyped, Times, NoTime, Odds, SeenRecord, Gone, Held, NeverSeen
  <2> QED
    BY <2>1, <2>3, Zenon DEF HistoryInv, GameIsOn, CloseOf, RowsAt, Times, NoTime, Gone, NeverSeen
<1>8. CASE Persist
  <2>1. /\ batch.phase = "fetched" /\ rows' = Appended /\ odds_seen' \in Swept(SeenUpdates) /\ adrift' = adrift \ ToWrite
        /\ NoteShown /\ batch' = [batch EXCEPT !.phase = "stored"] /\ clock' = clock /\ faults' = faults
    BY <1>8 DEF Persist
  <2>2. \A q \in Quotes : q \notin adrift' =>
          \/ q \in ToWrite /\ rows' = Appended /\ odds_seen' \in Swept(SeenUpdates)
          \/ q \notin ToWrite /\ q \notin adrift
    BY <2>1
  <2> QED
    BY <1>1, <2>1, <2>2, WritesKeepInv
<1>9. CASE PersistFails
  <2>1. /\ batch.phase = "fetched" /\ faults < MaxFaults /\ faults' = faults + 1
        /\ batch' = [batch EXCEPT !.phase = "stored"] /\ clock' = clock /\ odds_seen' = odds_seen
    BY <1>9 DEF PersistFails
  <2>2. faults' \in 0 .. MaxFaults
    BY <1>1, <2>1, HistoryTypes
  <2>3. CASE UNCHANGED <<rows, onSite, onSiteAt, adrift>>
    <3>1. HistoryInv'
      <4> DEFINE b == [phase |-> "stored", at |-> batch.at, odds |-> batch.odds]
      <4>1. batch' = b
        BY <1>1, <2>1
      <4>2. b \in [phase : {"none", "fetched", "stored", "match"}, at : Times \cup {NoTime}, odds : [Quotes -> Odds]]
            /\ b.at = batch.at /\ b.phase = "stored" /\ b.at # NoTime
        BY <1>1, <1>2, <2>1
      <4> HIDE DEF b
      <4>3. HistoryTyped'
        BY <2>1, <2>2, <2>3, <4>1, <4>2, Zenon DEF HistoryInv, HistoryTyped, Times, NoTime, Odds, SeenRecord, Gone, Held, NeverSeen
      <4>4. GameIsOn' <=> GameIsOn
        BY <4>1, <4>2 DEF GameIsOn, NoTime
      <4>5. batch'.at = batch.at /\ batch'.phase = "stored" /\ batch.at # NoTime
        BY <4>1, <4>2
      <4> QED
        BY <2>1, <2>3, <4>3, <4>4, <4>5 DEF HistoryInv, CloseOf, RowsAt, Times, NoTime, Gone, NeverSeen
    <3> QED
      BY <3>1
  <2>4. CASE rows' = Appended /\ adrift' = adrift \cup ToWrite /\ NoteShown
    <3>1. \A q \in Quotes : q \notin adrift' => q \notin ToWrite /\ q \notin adrift
      BY <2>4
    <3> QED
      BY <1>1, <2>1, <2>2, <2>4, <3>1, WritesKeepInv
  <2> QED
    BY <1>9, <2>3, <2>4 DEF PersistFails
<1>10. CASE EventSkipped
  <2>1. /\ batch.phase = "fetched" /\ faults < MaxFaults /\ faults' = faults + 1 /\ odds_seen' \in Swept(SeenUpdates)
        /\ adrift' = adrift \cup ToWrite /\ NoteShown /\ batch' = [batch EXCEPT !.phase = "stored"] /\ clock' = clock /\ rows' = rows
    BY <1>10 DEF EventSkipped
  <2>2. faults' \in 0 .. MaxFaults
    BY <1>1, <2>1, HistoryTypes
  <2>3. \A q \in Quotes : q \notin adrift' => q \notin ToWrite /\ q \notin adrift
    BY <2>1
  <2> QED
    BY <1>1, <2>1, <2>2, <2>3, WritesKeepInv
<1> QED
  BY <1>3, <1>4, <1>5, <1>6, <1>7, <1>8, <1>9, <1>10 DEF HistoryNext

\* So the cache agrees with the table, the close is the last price seen, and coverage means a scrape.
LEMMA HistoryInvIsEnough ==
  HistoryInv => HistoryTypeOK /\ CacheMatchesTable /\ CloseIsLastSeen /\ CoverageMeansScraped
<1> SUFFICES ASSUME HistoryInv PROVE HistoryTypeOK /\ CacheMatchesTable /\ CloseIsLastSeen /\ CoverageMeansScraped
  OBVIOUS
<1>1. HistoryTypeOK
  BY DEF HistoryInv, HistoryTyped, HistoryTypeOK, Odds, SeenRecord
<1>2. CacheMatchesTable
  BY CloseRowIs DEF HistoryInv, CacheMatchesTable
<1>3. CloseIsLastSeen
  BY CloseRowIs DEF HistoryInv, CloseIsLastSeen
<1>4. CoverageMeansScraped
  <2> DEFINE times == UNION {RowTimes(q, Kickoff) : q \in Quotes}
  <2>1. SUFFICES ASSUME Fresh(Quotes, Kickoff) PROVE onSiteAt # NoTime /\ Kickoff - onSiteAt <= MaxGap
    BY DEF CoverageMeansScraped
  <2>2. times # {} /\ LastCapture(Quotes, Kickoff) = Max(times) /\ Kickoff - Max(times) <= MaxGap
    BY <2>1 DEF Fresh, LastCapture
  <2>3. times \in SUBSET Times
    BY DEF RowTimes
  <2>4. \A t \in times : t <= Kickoff /\ \E q \in Quotes : rows[q][t] # Gone
    BY DEF RowTimes
  <2> HIDE DEF times
  <2>5. Max(times) \in times
    BY <2>2, <2>3, LatestTime
  <2>6. onSiteAt # NoTime /\ Max(times) <= onSiteAt /\ Max(times) \in Nat
    BY <2>3, <2>4, <2>5, HistoryTypes DEF HistoryInv
  <2>7. onSiteAt \in Nat
    BY HistoryTypes DEF HistoryInv, HistoryTyped
  <2> QED
    BY <2>2, <2>6, <2>7, HistoryTypes
<1> QED
  BY <1>1, <1>2, <1>3, <1>4


-----------------------------------------------------------------------------
(* A cycle of the JSON feed                                                *)

MostRows == Cardinality(Slate) * Cardinality(FeedMarkets)

FetchRecord == [at : {"unlisted", "queued", "in slot", "backing off", "done", "failed"},
          attempts : 0 .. MaxAttempts, got : SUBSET FeedMarkets]

\* A match that may be tried again has a try left, and the cycle of a collapse had less than four
\* fifths of the rows that are still the measure.
FeedInv ==
  /\ FeedTypeOK
  /\ \A k \in Slate : fetch[k].at \in {"queued", "backing off"} => fetch[k].attempts < MaxAttempts
  /\ outcome.verdict = "collapse" => 5 * outcome.rows < 4 * baseline

\* No cycle brings more rows than there are matches and markets.
LEMMA RowsAreFew ==
  ASSUME listing \subseteq Slate
  PROVE  MostRows \in Nat /\ Rows \in 0 .. MostRows
<1> DEFINE all == Slate \X FeedMarkets
<1>1. Cardinality(Slate) \in Nat /\ Cardinality(FeedMarkets) \in Nat
  BY FeedAssumption, FS_CardinalityType
<1>2. IsFiniteSet(all) /\ Cardinality(all) = MostRows
  BY FeedAssumption, FS_Product DEF MostRows
<1>3. Gathered \in SUBSET all
  BY DEF Gathered
<1> HIDE DEF all
<1>4. IsFiniteSet(Gathered) /\ Cardinality(Gathered) <= Cardinality(all)
  BY <1>2, <1>3, FS_Subset
<1>5. Cardinality(Gathered) \in Nat
  BY <1>4, FS_CardinalityType
<1>6. MostRows \in Nat
  BY <1>1 DEF MostRows
<1> QED
  BY <1>2, <1>4, <1>5, <1>6 DEF Rows

\* A match not listed has not been fetched.
LEMMA UnlistedIsFetch == Unlisted \in FetchRecord /\ Unlisted.at = "unlisted" /\ Unlisted.attempts = 0
BY FeedAssumption DEF Unlisted, FetchRecord

\* No cycle has begun.
LEMMA FeedStart == FeedInit => FeedInv
<1> SUFFICES ASSUME FeedInit PROVE FeedInv
  OBVIOUS
<1>1. MostRows \in Nat
  BY RowsAreFew DEF FeedInit
<1>2. 0 \in 0 .. MostRows
  BY <1>1
<1>3. outcome = [rows |-> 0, verdict |-> "none"] /\ baseline = 0 /\ fetch = [k \in Slate |-> Unlisted] /\ listing = {}
      /\ cycleAt = "idle" /\ shipped \in BOOLEAN
  BY DEF FeedInit
<1>4. fetch \in [Slate -> FetchRecord] /\ \A k \in Slate : fetch[k].at = "unlisted"
  BY <1>3, UnlistedIsFetch
<1> QED
  BY <1>2, <1>3, <1>4 DEF FeedInv, FeedTypeOK, MostRows, FetchRecord, CycleVerdicts

\* One match moves: what is left to show is what becomes of it.
LEMMA OneMatchMoves ==
  ASSUME FeedInv, NEW k \in Slate, NEW q \in FetchRecord, fetch' = [fetch EXCEPT ![k] = q],
         q.at \in {"queued", "backing off"} => q.attempts < MaxAttempts,
         UNCHANGED <<shipped, listing, cycleAt, baseline, outcome>>
  PROVE  FeedInv'
<1>1. fetch' \in [Slate -> FetchRecord] /\ \A x \in Slate : fetch'[x] = IF x = k THEN q ELSE fetch[x]
  BY DEF FeedInv, FeedTypeOK, FetchRecord
<1>2. \A x \in Slate : fetch'[x].at \in {"queued", "backing off"} => fetch'[x].attempts < MaxAttempts
  BY <1>1 DEF FeedInv
<1> QED
  BY <1>1, <1>2 DEF FeedInv, FeedTypeOK, FetchRecord

\* A cycle's listing, fetches, retries and end (run_cycle).
LEMMA FeedKeepsInv ==
  ASSUME FeedInv, [FeedNext]_feedVars
  PROVE  FeedInv'
<1>1. /\ listing \subseteq Slate /\ fetch \in [Slate -> FetchRecord] /\ baseline \in 0 .. MostRows
      /\ outcome \in [rows : 0 .. MostRows, verdict : CycleVerdicts] /\ shipped \in BOOLEAN
      /\ MaxAttempts \in Nat \ {0}
  BY FeedAssumption DEF FeedInv, FeedTypeOK, FetchRecord, MostRows
<1>2. CASE UNCHANGED feedVars
  BY <1>2 DEF FeedInv, FeedTypeOK, feedVars
<1>3. CASE StartFeedCycle
  <2>1. PICK matches \in SUBSET Slate :
          /\ listing' = matches
          /\ fetch' = [k \in Slate |-> IF k \in matches THEN [Unlisted EXCEPT !.at = "queued"] ELSE Unlisted]
    BY <1>3 DEF StartFeedCycle
  <2> DEFINE fresh == [Unlisted EXCEPT !.at = "queued"]
  <2>3. fetch' = [k \in Slate |-> IF k \in matches THEN fresh ELSE Unlisted] /\ fresh = [Unlisted EXCEPT !.at = "queued"]
    BY <2>1
  <2> HIDE DEF fresh
  <2>6. fresh = [at |-> "queued", attempts |-> 0, got |-> {}]
    BY <2>3 DEF Unlisted
  <2>8. 0 \in 0 .. MaxAttempts
    BY <1>1
  <2>2. fresh \in FetchRecord /\ fresh.attempts = 0
    BY <2>6, <2>8 DEF FetchRecord
  <2>4. fetch' \in [Slate -> FetchRecord] /\ \A k \in Slate : fetch'[k].attempts = 0
    BY <2>2, <2>3, UnlistedIsFetch
  <2>5. cycleAt' = "fetching" /\ UNCHANGED <<shipped, baseline, outcome>>
    BY <1>3 DEF StartFeedCycle
  <2>7. FeedTypeOK'
    BY <1>1, <2>1, <2>4, <2>5 DEF FeedTypeOK, FetchRecord, MostRows
  <2>9. \A k \in Slate : fetch'[k].attempts < MaxAttempts
    BY <1>1, <2>4
  <2> QED
    BY <2>5, <2>7, <2>9 DEF FeedInv
<1>4. ASSUME NEW k \in Slate, TakeSlot(k) PROVE FeedInv'
  <2> DEFINE p == fetch[k]
             q == [p EXCEPT !.at = "in slot", !.attempts = p.attempts + 1]
  <2>1. fetch' = [fetch EXCEPT ![k] = q] /\ UNCHANGED <<shipped, listing, cycleAt, baseline, outcome>>
    BY <1>1, <1>4 DEF TakeSlot
  <2>2. p.attempts < MaxAttempts /\ p \in FetchRecord /\ q = [p EXCEPT !.at = "in slot", !.attempts = p.attempts + 1]
    BY <1>1, <1>4 DEF TakeSlot, FeedInv
  <2> HIDE DEF q, p
  <2>6. p.attempts \in 0 .. MaxAttempts
    BY <2>2 DEF FetchRecord
  <2>3. p.attempts + 1 \in 0 .. MaxAttempts
    BY <1>1, <2>2, <2>6
  <2>4. q = [at |-> "in slot", attempts |-> p.attempts + 1, got |-> p.got]
    BY <2>2 DEF FetchRecord
  <2>5. q \in FetchRecord /\ q.at = "in slot"
    BY <2>2, <2>3, <2>4 DEF FetchRecord
  <2> QED
    BY <2>1, <2>5, OneMatchMoves
<1>5. ASSUME NEW k \in Slate, AttemptEnds(k) PROVE FeedInv'
  <2>1. PICK o \in ScrapeOutcomes : fetch' = [fetch EXCEPT ![k] = AfterAttempt(fetch[k], o)]
    BY <1>1, <1>5 DEF AttemptEnds
  <2>2. UNCHANGED <<shipped, listing, cycleAt, baseline, outcome>>
    BY <1>5 DEF AttemptEnds
  <2> DEFINE p == fetch[k]
             q == AfterAttempt(p, o)
             next == IF o.raised = "nothing" THEN "done"
                     ELSE IF o.raised = "transient" /\ p.attempts < MaxAttempts THEN "backing off" ELSE "failed"
  <2>3. o.got \subseteq FeedMarkets
    BY DEF ScrapeOutcomes
  <2>4. p \in FetchRecord
    BY <1>1
  <2>6. next \in {"done", "backing off", "failed"} /\ (next = "backing off" => p.attempts < MaxAttempts)
    OBVIOUS
  <2>7. fetch' = [fetch EXCEPT ![k] = q]
    BY <2>1
  <2>9. q = [p EXCEPT !.got = o.got, !.at = next]
    BY DEF AfterAttempt
  <2> HIDE DEF q, next, p
  <2>5. q = [at |-> next, attempts |-> p.attempts, got |-> o.got]
    BY <2>4, <2>9 DEF FetchRecord
  <2>8. q \in FetchRecord /\ (q.at \in {"queued", "backing off"} => q.attempts < MaxAttempts)
    BY <2>3, <2>4, <2>5, <2>6 DEF FetchRecord
  <2> QED
    BY <2>2, <2>7, <2>8, OneMatchMoves
<1>6. ASSUME NEW k \in Slate, BackOffEnds(k) PROVE FeedInv'
  <2> DEFINE p == fetch[k]
             q == [p EXCEPT !.at = "queued"]
  <2>1. fetch' = [fetch EXCEPT ![k] = q] /\ UNCHANGED <<shipped, listing, cycleAt, baseline, outcome>>
    BY <1>1, <1>6 DEF BackOffEnds
  <2>2. p.attempts < MaxAttempts /\ p \in FetchRecord /\ q = [p EXCEPT !.at = "queued"]
    BY <1>1, <1>6 DEF BackOffEnds, FeedInv
  <2> HIDE DEF q, p
  <2>3. q = [at |-> "queued", attempts |-> p.attempts, got |-> p.got]
    BY <2>2 DEF FetchRecord
  <2>4. q \in FetchRecord /\ q.attempts < MaxAttempts
    BY <2>2, <2>3 DEF FetchRecord
  <2> QED
    BY <2>1, <2>4, OneMatchMoves
<1>7. CASE EndFeedCycle
  <2>1. /\ outcome' = [rows |-> Rows, verdict |-> Verdict] /\ baseline' = NextBaseline /\ cycleAt' = "idle"
        /\ listing' = {} /\ fetch' = [k \in Slate |-> Unlisted] /\ shipped' = shipped
    BY <1>7 DEF EndFeedCycle
  <2>2. MostRows \in Nat /\ Rows \in 0 .. MostRows
    BY <1>1, RowsAreFew
  <2>3. Verdict \in CycleVerdicts /\ (Verdict = "collapse" => 5 * Rows < 4 * baseline /\ NextBaseline = baseline)
    BY DEF Verdict, CycleVerdicts, NextBaseline
  <2>4. NextBaseline \in 0 .. MostRows
    BY <1>1, <2>2 DEF NextBaseline
  <2>5. fetch' \in [Slate -> FetchRecord] /\ \A k \in Slate : fetch'[k].at = "unlisted"
    BY <2>1, UnlistedIsFetch
  <2>6. outcome'.rows = Rows /\ outcome'.verdict = Verdict /\ outcome' \in [rows : 0 .. MostRows, verdict : CycleVerdicts]
    BY <2>1, <2>2, <2>3
  <2>7. FeedTypeOK'
    BY <1>1, <2>1, <2>4, <2>5, <2>6 DEF FeedTypeOK, FetchRecord, MostRows
  <2> QED
    BY <2>1, <2>3, <2>5, <2>6, <2>7 DEF FeedInv
<1> QED
  BY <1>2, <1>3, <1>4, <1>5, <1>6, <1>7 DEF FeedNext

\* A cycle that passes after a flagged collapse brought more rows than the one that was flagged.
LEMMA CollapseIsSeen ==
  ASSUME FeedInv, EndFeedCycle, outcome.verdict = "collapse", outcome'.verdict = "complete"
  PROVE  outcome'.rows > outcome.rows
<1>1. outcome' = [rows |-> Rows, verdict |-> Verdict]
  BY DEF EndFeedCycle
<1>2. Rows \in Nat /\ baseline \in Nat /\ outcome.rows \in Nat /\ 5 * outcome.rows < 4 * baseline
  <2>1. outcome.rows \in 0 .. MostRows /\ baseline \in 0 .. MostRows /\ listing \subseteq Slate
        /\ 5 * outcome.rows < 4 * baseline
    BY DEF FeedInv, FeedTypeOK, MostRows
  <2>2. MostRows \in Nat /\ Rows \in 0 .. MostRows
    BY <2>1, RowsAreFew
  <2> HIDE DEF Rows, MostRows
  <2> QED
    BY <2>1, <2>2
<1>3. ~(baseline > 0 /\ 5 * Rows < 4 * baseline)
  BY <1>1 DEF Verdict
<1> HIDE DEF Rows
<1> QED
  BY <1>1, <1>2, <1>3


-----------------------------------------------------------------------------
(* One match: the feed and the page                                        *)

\* A row of either path: an entry of a book that comes first, priced for an outcome.
RowFor(s, line, n, o) == RowOf(Detail(s.key, line), s.entries, n, PageLabel(s.key, o), o, CapturedAt(s))

Quoted0(s, line, n, o) ==
  /\ line \in WantedLines(s) /\ n \in DOMAIN s.entries /\ o \in OutcomesOf(s.key)
  /\ FirstOfBook(s.entries, n) /\ Priced(s.entries[n], o)

\* By position or by label, a price is given the same outcome.
LEMMA LabelsAgree ==
  ASSUME NEW key \in FeedMarketKeys
  PROVE  /\ OutcomesOf(key) = {OutcomeAt(key, i) : i \in DOMAIN IndexToLabel(key)}
         /\ \A i \in DOMAIN IndexToLabel(key) : IndexToLabel(key)[i] = PageLabel(key, OutcomeAt(key, i))
<1>1. CASE key = "1x2"
  <2>1. Outcomes(key) = <<"home", "draw", "away">> /\ IndexToLabel(key) = <<"1", "X", "2">>
    BY <1>1 DEF Outcomes, IndexToLabel
  <2>2. DOMAIN IndexToLabel(key) = {1, 2, 3} /\ DOMAIN Outcomes(key) = {1, 2, 3}
    BY <2>1
  <2>3. PageLabel(key, "home") = "1" /\ PageLabel(key, "draw") = "X" /\ PageLabel(key, "away") = "2"
    BY <1>1 DEF PageLabel
  <2> QED
    BY <2>1, <2>2, <2>3 DEF OutcomesOf, OutcomeAt
<1>2. CASE key = "over_under_2_5"
  <2>1. Outcomes(key) = <<"over", "under">> /\ IndexToLabel(key) = <<"odds_over", "odds_under">>
    BY <1>2 DEF Outcomes, IndexToLabel
  <2>2. DOMAIN IndexToLabel(key) = {1, 2} /\ DOMAIN Outcomes(key) = {1, 2}
    BY <2>1
  <2>3. PageLabel(key, "over") = "odds_over" /\ PageLabel(key, "under") = "odds_under"
    BY <1>2 DEF PageLabel
  <2> QED
    BY <2>1, <2>2, <2>3 DEF OutcomesOf, OutcomeAt
<1>3. CASE key = "home_away"
  <2>1. Outcomes(key) = <<"home", "away">> /\ IndexToLabel(key) = <<"1", "2">>
    BY <1>3 DEF Outcomes, IndexToLabel
  <2>2. DOMAIN IndexToLabel(key) = {1, 2} /\ DOMAIN Outcomes(key) = {1, 2}
    BY <2>1
  <2>3. PageLabel(key, "home") = "1" /\ PageLabel(key, "away") = "2"
    BY <1>3 DEF PageLabel
  <2> QED
    BY <2>1, <2>2, <2>3 DEF OutcomesOf, OutcomeAt
<1>4. CASE key = "asian_handicap"
  <2>1. Outcomes(key) = <<"home", "away">> /\ IndexToLabel(key) = <<"team1_handicap", "team2_handicap">>
    BY <1>4 DEF Outcomes, IndexToLabel
  <2>2. DOMAIN IndexToLabel(key) = {1, 2} /\ DOMAIN Outcomes(key) = {1, 2}
    BY <2>1
  <2>3. PageLabel(key, "home") = "team1_handicap" /\ PageLabel(key, "away") = "team2_handicap"
    BY <1>4 DEF PageLabel
  <2> QED
    BY <2>1, <2>2, <2>3 DEF OutcomesOf, OutcomeAt
<1> QED
  BY <1>1, <1>2, <1>3, <1>4 DEF FeedMarketKeys

\* A label is read as the outcome it was written for.
LEMMA LabelsAreRead ==
  ASSUME NEW key \in FeedMarketKeys, NEW o \in OutcomesOf(key), NEW detail
  PROVE  SelectionOf(detail, PageLabel(key, o))[1] = o
<1>1. CASE key = "1x2"
  <2>1. o \in {"home", "draw", "away"}
    BY <1>1 DEF OutcomesOf, Outcomes
  <2>3. PageLabel(key, "home") = "1" /\ PageLabel(key, "draw") = "X" /\ PageLabel(key, "away") = "2"
    BY <1>1 DEF PageLabel
  <2> QED
    BY <2>1, <2>3 DEF SelectionOf
<1>2. CASE key = "over_under_2_5"
  <2>1. o \in {"over", "under"}
    BY <1>2 DEF OutcomesOf, Outcomes
  <2>3. PageLabel(key, "over") = "odds_over" /\ PageLabel(key, "under") = "odds_under"
    BY <1>2 DEF PageLabel
  <2> QED
    BY <2>1, <2>3 DEF SelectionOf
<1>3. CASE key = "home_away"
  <2>1. o \in {"home", "away"}
    BY <1>3 DEF OutcomesOf, Outcomes
  <2>3. PageLabel(key, "home") = "1" /\ PageLabel(key, "away") = "2"
    BY <1>3 DEF PageLabel
  <2> QED
    BY <2>1, <2>3 DEF SelectionOf
<1>4. CASE key = "asian_handicap"
  <2>1. o \in {"home", "away"}
    BY <1>4 DEF OutcomesOf, Outcomes
  <2>3. PageLabel(key, "home") = "team1_handicap" /\ PageLabel(key, "away") = "team2_handicap"
    BY <1>4 DEF PageLabel
  <2> QED
    BY <2>1, <2>3 DEF SelectionOf
<1> QED
  BY <1>1, <1>2, <1>3, <1>4 DEF FeedMarketKeys


\* The scraped page's rows are the entries it quotes, each made a row.
LEMMA PageRows ==
  ASSUME NEW s, NEW r
  PROVE  r \in ConvertMatch(s) <=> \E line, n, o : Quoted0(s, line, n, o) /\ r = RowFor(s, line, n, o)
<1> DEFINE Of(n) == {RowFor(s, l, n, q) : l \in WantedLines(s), q \in {q \in OutcomesOf(s.key) : Priced(s.entries[n], q)}}
           Firsts == {n \in DOMAIN s.entries : FirstOfBook(s.entries, n)}
<1>1. ConvertMatch(s) = UNION {Of(n) : n \in Firsts}
  BY DEF ConvertMatch, RowFor
<1>2. ASSUME NEW n PROVE r \in Of(n) <=> \E l \in WantedLines(s), q \in OutcomesOf(s.key) : Priced(s.entries[n], q) /\ r = RowFor(s, l, n, q)
  OBVIOUS
<1> HIDE DEF Of
<1>3. r \in ConvertMatch(s) <=> \E n \in Firsts : r \in Of(n)
  BY <1>1
<1> QED
  BY <1>2, <1>3 DEF Quoted0

\* The feed's rows are the entries of the books it knows.
LEMMA FeedRows ==
  ASSUME NEW s, s.key \in FeedMarketKeys, NEW r
  PROVE  r \in ParseFeedPayload(s) <=>
           Resolvable(s) /\ \E line, n, o : Quoted0(s, line, n, o) /\ s.entries[n].book \in KnownBooks /\ r = RowFor(s, line, n, o)
<1> DEFINE P(i) == OutcomeAt(s.key, i)
           I == DOMAIN IndexToLabel(s.key)
<1>1. OutcomesOf(s.key) = {P(i) : i \in I} /\ \A i \in I : IndexToLabel(s.key)[i] = PageLabel(s.key, P(i))
  BY LabelsAgree
<1>2. ASSUME NEW line, r \in EmitBlock(s, line)
      PROVE  \E n, o : /\ n \in DOMAIN s.entries /\ o \in OutcomesOf(s.key) /\ FirstOfBook(s.entries, n)
                       /\ Priced(s.entries[n], o) /\ s.entries[n].book \in KnownBooks /\ r = RowFor(s, line, n, o)
  <2>1. PICK n \in DOMAIN s.entries :
          /\ s.entries[n].book \in KnownBooks /\ FirstOfBook(s.entries, n)
          /\ \E i \in I : /\ Priced(s.entries[n], P(i))
                          /\ r = RowOf(Detail(s.key, line), s.entries, n, IndexToLabel(s.key)[i], P(i), CapturedAt(s))
    BY <1>2, Zenon DEF EmitBlock
  <2>2. PICK i \in I : Priced(s.entries[n], P(i))
                       /\ r = RowOf(Detail(s.key, line), s.entries, n, IndexToLabel(s.key)[i], P(i), CapturedAt(s))
    BY <2>1
  <2>3. P(i) \in OutcomesOf(s.key) /\ r = RowFor(s, line, n, P(i))
    BY <1>1, <2>2, Zenon DEF RowFor
  <2> QED
    BY <2>1, <2>2, <2>3, Zenon
<1>3. ASSUME NEW line, NEW n, NEW o, n \in DOMAIN s.entries, o \in OutcomesOf(s.key), FirstOfBook(s.entries, n),
             Priced(s.entries[n], o), s.entries[n].book \in KnownBooks, r = RowFor(s, line, n, o)
      PROVE  r \in EmitBlock(s, line)
  <2>1. PICK i \in I : o = P(i)
    BY <1>1, <1>3, Zenon
  <2>2. r = RowOf(Detail(s.key, line), s.entries, n, IndexToLabel(s.key)[i], OutcomeAt(s.key, i), CapturedAt(s))
    BY <1>1, <1>3, <2>1, Zenon DEF RowFor
  <2>3. i \in {k \in DOMAIN IndexToLabel(s.key) : Priced(s.entries[n], OutcomeAt(s.key, k))}
    BY <1>3, <2>1
  <2>4. r \in {RowOf(Detail(s.key, line), s.entries, n, IndexToLabel(s.key)[k], OutcomeAt(s.key, k), CapturedAt(s)) :
                 k \in {k \in DOMAIN IndexToLabel(s.key) : Priced(s.entries[n], OutcomeAt(s.key, k))}}
    BY <2>2, <2>3, Zenon
  <2>5. n \in {k \in DOMAIN s.entries : s.entries[k].book \in KnownBooks /\ FirstOfBook(s.entries, k)}
    BY <1>3
  <2> QED
    BY <2>4, <2>5, Zenon DEF EmitBlock
<1>4. ASSUME r \in ParseFeedPayload(s)
      PROVE  Resolvable(s) /\ \E line, n, o : Quoted0(s, line, n, o) /\ s.entries[n].book \in KnownBooks /\ r = RowFor(s, line, n, o)
  <2>1. Resolvable(s) /\ r \in UNION {EmitBlock(s, l) : l \in WantedLines(s)}
    BY <1>4, Zenon DEF ParseFeedPayload
  <2>2. PICK line \in WantedLines(s) : r \in EmitBlock(s, line)
    BY <2>1, Zenon
  <2> QED
    BY <1>2, <2>1, <2>2, Zenon DEF Quoted0
<1>5. ASSUME Resolvable(s), NEW line, NEW n, NEW o, Quoted0(s, line, n, o), s.entries[n].book \in KnownBooks, r = RowFor(s, line, n, o)
      PROVE  r \in ParseFeedPayload(s)
  <2>1. r \in EmitBlock(s, line) /\ line \in WantedLines(s)
    BY <1>3, <1>5, Zenon DEF Quoted0
  <2> QED
    BY <1>5, <2>1, Zenon DEF ParseFeedPayload
<1> QED
  BY <1>4, <1>5, Zenon

FeedRowsInv ==
  /\ shown \in Shown
  /\ feed \in {{}, ParseFeedPayload(shown)}
  /\ page \in {{}, ConvertMatch(shown)}

\* Of the entries of a book one is the first.
LEMMA OneFirst ==
  ASSUME NEW entries, NEW j, NEW k, j \in Nat, k \in Nat, j >= 1, k >= 1, FirstOfBook(entries, j), FirstOfBook(entries, k),
         entries[j].book = entries[k].book
  PROVE  j = k
<1>1. CASE j < k
  <2>1. j \in 1 .. k - 1
    BY <1>1
  <2> QED
    BY <2>1 DEF FirstOfBook
<1>2. CASE k < j
  <2>1. k \in 1 .. j - 1
    BY <1>2
  <2> QED
    BY <2>1 DEF FirstOfBook
<1> QED
  BY <1>1, <1>2

\* A match shows a market of the feed, entries from the first on, and lines where it has lines.
LEMMA ShownIs ==
  ASSUME NEW s \in Shown
  PROVE  /\ s.key \in FeedMarketKeys /\ \E n \in 1 .. MaxEntries : DOMAIN s.entries = 1 .. n
         /\ s.key # "asian_handicap" => s.lines = {0}
<1>1. PICK key \in FeedMarketKeys :
        s \in [key : {key}, entries : Entries(key), headline : BOOLEAN,
               lines : IF key = "asian_handicap" THEN {l \in SUBSET FeedLines : Cardinality(l) <= 2} ELSE {{0}},
               clock : {"told", "absent", "garbled"}]
  BY Zenon DEF Shown
<1>2. s.key = key /\ s.entries \in Entries(key)
      /\ s.lines \in IF key = "asian_handicap" THEN {l \in SUBSET FeedLines : Cardinality(l) <= 2} ELSE {{0}}
  BY <1>1
<1>3. \E n \in 1 .. MaxEntries : DOMAIN s.entries = 1 .. n
  <2>1. PICK n \in 1 .. MaxEntries : s.entries \in [1 .. n -> [book : KnownBooks \cup {UnknownBook}, offered : SUBSET OutcomesOf(key)]]
    BY <1>2, Zenon DEF Entries
  <2> QED
    BY <2>1
<1> QED
  BY <1>2, <1>3

\* A row carries its entry's key, line, book, selection and price.
LEMMA RowHas ==
  ASSUME NEW s, NEW line, NEW n, NEW o
  PROVE  LET r == RowFor(s, line, n, o)
         IN  /\ r.detail.key = s.key /\ r.detail.line = line /\ r.book = s.entries[n].book
             /\ r.selection = SelectionOf(Detail(s.key, line), PageLabel(s.key, o)) /\ r.price = <<o, n>>
BY DEF RowFor, RowOf, Detail

\* Both paths make the same row of one entry, and every row is of an entry of that line and selection.
LEMMA FeedRowsAgree == FeedRowsInv => FeedRowsTypeOK /\ FeedMatchesPage
<1> SUFFICES ASSUME FeedRowsInv PROVE FeedRowsTypeOK /\ FeedMatchesPage
  OBVIOUS
<1> DEFINE s == shown
<1>1. /\ s.key \in FeedMarketKeys /\ (s.key # "asian_handicap" => s.lines = {0})
      /\ feed \in {{}, ParseFeedPayload(s)} /\ page \in {{}, ConvertMatch(s)}
  BY ShownIs DEF FeedRowsInv
<1>2. PICK most \in 1 .. MaxEntries : DOMAIN s.entries = 1 .. most
  BY ShownIs DEF FeedRowsInv
<1>3. DOMAIN s.entries \subseteq 1 .. MaxEntries /\ \A n \in DOMAIN s.entries : n \in Nat /\ n >= 1
  BY <1>2, FeedRowsAssumption
<1> HIDE DEF s
<1>4. ASSUME NEW r \in feed \cup page
      PROVE  \E line, n, o : Quoted0(s, line, n, o) /\ r = RowFor(s, line, n, o)
  <2>1. r \in ParseFeedPayload(s) \/ r \in ConvertMatch(s)
    BY <1>1, <1>4
  <2>2. CASE r \in ParseFeedPayload(s)
    <3>1. s.key \in FeedMarketKeys
      BY <1>1
    <3>2. PICK line, n, o : Quoted0(s, line, n, o) /\ s.entries[n].book \in KnownBooks /\ r = RowFor(s, line, n, o)
      BY <2>2, <3>1, FeedRows, Zenon
    <3> QED
      BY <3>2
  <2>3. CASE r \in ConvertMatch(s)
    BY <2>3, PageRows, Zenon
  <2> QED
    BY <2>1, <2>2, <2>3
<1>5. FeedRowsTypeOK
  <2>1. ASSUME NEW r \in feed \cup page
        PROVE  r.detail.key \in FeedMarketKeys /\ r.price[2] \in 1 .. MaxEntries
    <3>1. PICK line, n, o : Quoted0(s, line, n, o) /\ r = RowFor(s, line, n, o)
      BY <1>4
    <3>2. n \in DOMAIN s.entries /\ r.price = <<o, n>> /\ r.detail.key = s.key
      BY <3>1, RowHas DEF Quoted0
    <3> QED
      BY <1>1, <1>3, <3>2
  <2> QED
    BY <2>1 DEF FeedRowsTypeOK
<1>6. ASSUME NEW r \in feed \cup page PROVE r.selection[1] = r.price[1]
  <2>1. PICK line, n, o : Quoted0(s, line, n, o) /\ r = RowFor(s, line, n, o)
    BY <1>4
  <2>2. o \in OutcomesOf(s.key) /\ r.price = <<o, n>> /\ r.selection = SelectionOf(Detail(s.key, line), PageLabel(s.key, o))
    BY <2>1, RowHas DEF Quoted0
  <2> QED
    BY <1>1, <2>2, LabelsAreRead
<1>7. ASSUME NEW r \in feed \cup page, NEW q \in feed \cup page, r.detail = q.detail, r.book = q.book, r.selection = q.selection
      PROVE  r = q
  <2>1. PICK line, n, o : Quoted0(s, line, n, o) /\ r = RowFor(s, line, n, o)
    BY <1>4
  <2>2. PICK line2, n2, o2 : Quoted0(s, line2, n2, o2) /\ q = RowFor(s, line2, n2, o2)
    BY <1>4
  <2>3. /\ r.detail.line = line /\ r.book = s.entries[n].book /\ r.price = <<o, n>>
        /\ q.detail.line = line2 /\ q.book = s.entries[n2].book /\ q.price = <<o2, n2>>
    BY <2>1, <2>2, RowHas
  <2>4. line = line2 /\ s.entries[n].book = s.entries[n2].book
    BY <1>7, <2>3
  <2>5. r.selection[1] = o /\ q.selection[1] = o2
    BY <1>6, <2>3
  <2>6. o = o2
    BY <1>7, <2>5
  <2>7. n = n2
    BY <1>3, <2>1, <2>2, <2>4, OneFirst DEF Quoted0
  <2> QED
    BY <2>1, <2>2, <2>4, <2>6, <2>7
<1>8. ASSUME NEW r \in feed
      PROVE  r.detail.line % 4 \in {0, 2} /\ (r.detail.key = "asian_handicap" => HalfLine(r.detail.line))
  <2>1. PICK line, n, o : Quoted0(s, line, n, o) /\ r = RowFor(s, line, n, o)
    BY <1>4
  <2>2. line \in WantedLines(s) /\ r.detail.line = line /\ r.detail.key = s.key
    BY <2>1, RowHas DEF Quoted0
  <2>3. CASE s.key = "asian_handicap"
    BY <2>2, <2>3 DEF WantedLines, HalfLine
  <2>4. CASE s.key # "asian_handicap"
    BY <1>1, <2>2, <2>4 DEF WantedLines
  <2> QED
    BY <2>3, <2>4
<1>9. ASSUME page # {}, feed # {} PROVE feed = {r \in page : r.book \in KnownBooks}
  <2>1. feed = ParseFeedPayload(s) /\ page = ConvertMatch(s)
    BY <1>1, <1>9
  <2>2. Resolvable(s)
    BY <1>1, <1>9, <2>1, FeedRows
  <2>3. ASSUME NEW r \in feed PROVE r \in page /\ r.book \in KnownBooks
    <3>1. PICK line, n, o : Quoted0(s, line, n, o) /\ s.entries[n].book \in KnownBooks /\ r = RowFor(s, line, n, o)
      BY <1>1, <2>1, FeedRows, Zenon
    <3>2. r \in ConvertMatch(s)
      BY <3>1, PageRows, Zenon
    <3>3. r.book = s.entries[n].book
      BY <3>1, RowHas
    <3> QED
      BY <2>1, <3>1, <3>2, <3>3
  <2>4. ASSUME NEW r \in page, r.book \in KnownBooks PROVE r \in feed
    <3>1. PICK line, n, o : Quoted0(s, line, n, o) /\ r = RowFor(s, line, n, o)
      BY <2>1, PageRows, Zenon
    <3>2. s.entries[n].book \in KnownBooks
      BY <2>4, <3>1, RowHas
    <3>3. r \in ParseFeedPayload(s)
      BY <1>1, <2>2, <3>1, <3>2, FeedRows, Zenon
    <3> QED
      BY <2>1, <3>3
  <2> QED
    BY <2>3, <2>4
<1>10. FeedMatchesPage
  BY <1>6, <1>7, <1>8, <1>9 DEF FeedMatchesPage
<1> QED
  BY <1>5, <1>10

\* Neither path has read the match.
LEMMA FeedRowsStart == FeedRowsInit => FeedRowsInv
BY DEF FeedRowsInit, FeedRowsInv

\* Either path may read it, in either order.
LEMMA FeedRowsKeepInv ==
  ASSUME FeedRowsInv, [FeedRowsNext]_feedRowVars
  PROVE  FeedRowsInv'
<1>1. shown' = shown
  BY DEF FeedRowsNext, ReadFeed, ReadPage, feedRowVars
<1>2. feed' \in {feed, ParseFeedPayload(shown)} /\ page' \in {page, ConvertMatch(shown)}
  BY DEF FeedRowsNext, ReadFeed, ReadPage, feedRowVars
<1>3. Shown' = Shown
  BY Zenon DEF Shown, Entries, OutcomesOf, Outcomes
<1>4. ParseFeedPayload(shown)' = ParseFeedPayload(shown) /\ ConvertMatch(shown)' = ConvertMatch(shown)
  BY <1>1, Zenon
<1> QED
  BY <1>1, <1>2, <1>3, <1>4 DEF FeedRowsInv


-----------------------------------------------------------------------------
(* Resolution: names                                                       *)

\* A source's pair of names, club and markers by place.
Names(n, clubs, marks) == \A i \in 1..2 : n[i].club = clubs[i] /\ n[i].markers = marks[i]

\* The same, or the other way round.
NamesEitherWay(n, clubs, marks) ==
  \/ Names(n, clubs, marks)
  \/ Names(n, Swap(clubs), Swap(marks))

\* A pair of names that passes for it.
Passes(n, clubs, marks) == \A i \in 1..2 : Kin(n[i].club, clubs[i]) /\ n[i].markers = marks[i]

\* The names of a source, one by one.
LEMMA NamedSides ==
  ASSUME NEW clubs, NEW marks, NEW spelling, NEW turned, NEW i \in 1..2
  PROVE  /\ Named(clubs, marks, spelling, turned)[i].spelling = spelling
         /\ ~turned => /\ Named(clubs, marks, spelling, turned)[i].club = clubs[i]
                       /\ Named(clubs, marks, spelling, turned)[i].markers = marks[i]
         /\ turned => /\ Named(clubs, marks, spelling, turned)[i].club = Swap(clubs)[i]
                      /\ Named(clubs, marks, spelling, turned)[i].markers = Swap(marks)[i]
BY DEF Named, Swap

\* Folding changes a spelling and nothing else.
LEMMA FoldedSides ==
  ASSUME NEW clubs, NEW marks, NEW spelling, NEW turned \in BOOLEAN, NEW kind, NEW i \in 1..2
  PROVE  LET n == Named(clubs, marks, spelling, turned)
         IN /\ Folded(n, kind)[i].club = n[i].club /\ Folded(n, kind)[i].markers = n[i].markers
            /\ kind = "tennis" => Folded(n, kind)[i].spelling = "exact"
            /\ kind # "tennis" => Folded(n, kind) = n
<1> DEFINE r(j) == [club |-> clubs[j], markers |-> marks[j], spelling |-> spelling]
           n == Named(clubs, marks, spelling, turned)
<1>1. PICK j \in 1..2 : n[i] = r(j)
  BY DEF Named, Swap
<1>2. kind # "tennis" => Folded(n, kind) = n
  BY DEF Folded
<1>3. kind = "tennis" => Folded(n, kind)[i] = [n[i] EXCEPT !.spelling = "exact"]
  BY DEF Folded
<1> HIDE DEF n
<1>4. LET q == [n[i] EXCEPT !.spelling = "exact"]
      IN q.club = n[i].club /\ q.markers = n[i].markers /\ q.spelling = "exact"
  BY <1>1
<1>5. CASE kind = "tennis"
  BY <1>3, <1>4, <1>5 DEF n
<1>6. CASE kind # "tennis"
  BY <1>2, <1>6 DEF n
<1> QED
  BY <1>5, <1>6

\* What a source lists names the game, in the order it lists it, folded or not.
LEMMA NamedNames ==
  ASSUME NEW clubs, NEW marks, NEW spelling, NEW turned \in BOOLEAN, NEW kind
  PROVE  /\ ~turned => Names(Folded(Named(clubs, marks, spelling, turned), kind), clubs, marks)
         /\ turned => Names(Folded(Named(clubs, marks, spelling, turned), kind), Swap(clubs), Swap(marks))
<1> DEFINE n == Named(clubs, marks, spelling, turned)
           f == Folded(n, kind)
<1>1. \A i \in 1..2 : f[i].club = n[i].club /\ f[i].markers = n[i].markers
  BY FoldedSides
<1>2. \A i \in 1..2 : /\ ~turned => n[i].club = clubs[i] /\ n[i].markers = marks[i]
                      /\ turned => n[i].club = Swap(clubs)[i] /\ n[i].markers = Swap(marks)[i]
  BY NamedSides
<1> HIDE DEF n, f
<1>3. /\ ~turned => Names(f, clubs, marks)
      /\ turned => Names(f, Swap(clubs), Swap(marks))
  BY <1>1, <1>2 DEF Names
<1> QED
  BY <1>3 DEF n, f

\* To look alike is mutual.
LEMMA KinIsMutual ==
  /\ \A x, y : Kin(x, y) <=> Kin(y, x)
  /\ \A x : Kin(x, x)
<1>1. \A x, y : {x, y} = {y, x}
  OBVIOUS
<1> QED
  BY <1>1 DEF Kin

\* A name's spelling costs a number, and another club's name never nothing.
LEMMA MisspeltCosts ==
  ASSUME NEW a, NEW b, Alike(a, b)
  PROVE  Misspelt(a, b) \in Nat /\ (Misspelt(a, b) = 0 => a.club = b.club)
<1> DEFINE x == IF a.club = b.club THEN 0 ELSE LookAlikeLoss
           y == IF a.spelling = b.spelling THEN 0 ELSE Loss[a.spelling] + Loss[b.spelling]
<1>1. y \in Nat
  BY DEF Alike, Loss
<1>2. x \in Nat /\ (x = 0 => a.club = b.club)
  BY DEF LookAlikeLoss
<1>3. Misspelt(a, b) = x + y
  BY DEF Misspelt
<1> HIDE DEF x, y
<1> QED
  BY <1>1, <1>2, <1>3

\* A capture in the archive, and the games they are of.
Captures ==
  {c \in archive : /\ c.game \in RealGames /\ c.turned \in BOOLEAN
                   /\ \E drift \in Drifts : c.kickoff = c.game.start + drift}

\* Swapping twice is not swapping.
LEMMA SwapTwice ==
  ASSUME NEW g \in RealGames
  PROVE  Swap(Swap(g.sides)) = g.sides /\ Swap(Swap(g.markers)) = g.markers
<1>1. g.sides = <<g.sides[1], g.sides[2]>> /\ g.markers = <<g.markers[1], g.markers[2]>>
  BY MatchAssumption
<1>2. Swap(Swap(g.sides)) = <<g.sides[1], g.sides[2]>> /\ Swap(Swap(g.markers)) = <<g.markers[1], g.markers[2]>>
  BY DEF Swap
<1> QED
  BY <1>1, <1>2

\* Where a capture fits, its game's names pass for those wanted, a team game's in the order it is
\* listed; and where that costs nothing they are those wanted.
LEMMA FitNames ==
  ASSUME NEW w, NEW kind, NEW c \in Captures, Fits(w, c, kind) # {}
  PROVE  /\ Passes(w, c.game.sides, c.game.markers) \/ Passes(w, Swap(c.game.sides), Swap(c.game.markers))
         /\ kind = "team" => SidesAgree(w, Listed(c))
         /\ Cost(w, c, kind) \in Nat
         /\ Cost(w, c, kind) = 0 => NamesEitherWay(w, c.game.sides, c.game.markers)
<1> DEFINE found == Folded(Listed(c), kind)
           s == c.game.sides
           k == c.game.markers
           o == CHOOSE x \in Fits(w, c, kind) : TRUE
<1>1. o \in Fits(w, c, kind)
  OBVIOUS
<1>2. SidesAgree(w, o) /\ (o = found \/ (kind # "team" /\ o = Swap(found)))
  BY <1>1 DEF Fits
<1>3. NamesEitherWay(found, s, k)
  <2>1. c.turned \in BOOLEAN
    BY DEF Captures
  <2> QED
    BY <2>1, NamedNames DEF Listed, NamesEitherWay
<1>4. kind = "team" => found = Listed(c)
  BY DEF Folded
<1>5. Cost(w, c, kind) = Misspelt(w[1], o[1]) + Misspelt(w[2], o[2])
  BY DEF Cost
<1>6. Swap(Swap(s)) = s /\ Swap(Swap(k)) = k
  BY SwapTwice DEF Captures
<1> HIDE DEF found, s, k, o
<1>7. Names(o, s, k) \/ Names(o, Swap(s), Swap(k))
  <2>1. CASE o = found
    BY <2>1, <1>3 DEF NamesEitherWay
  <2>2. CASE o = Swap(found)
    <3>1. o[1] = found[2] /\ o[2] = found[1]
      BY <2>2 DEF Swap
    <3>2. ASSUME NEW x, NEW y, Names(found, x, y)
          PROVE  Names(o, Swap(x), Swap(y))
      <4>1. /\ Swap(x)[1] = x[2] /\ Swap(x)[2] = x[1]
            /\ Swap(y)[1] = y[2] /\ Swap(y)[2] = y[1]
        BY DEF Swap
      <4>2. /\ found[1].club = x[1] /\ found[1].markers = y[1]
            /\ found[2].club = x[2] /\ found[2].markers = y[2]
        BY <3>2 DEF Names
      <4> QED
        BY <3>1, <4>1, <4>2 DEF Names
    <3> QED
      BY <1>3, <1>6, <3>2 DEF NamesEitherWay
  <2> QED
    BY <1>2, <2>1, <2>2
<1>8. /\ Alike(w[1], o[1]) /\ Alike(w[2], o[2])
      /\ w[1].markers = o[1].markers /\ w[2].markers = o[2].markers
  BY <1>2 DEF SidesAgree
<1>9. ASSUME NEW x, NEW y, Names(o, x, y)
      PROVE  /\ Passes(w, x, y)
             /\ w[1].club = o[1].club /\ w[2].club = o[2].club => Names(w, x, y)
  <2>1. /\ o[1].club = x[1] /\ o[1].markers = y[1]
        /\ o[2].club = x[2] /\ o[2].markers = y[2]
    BY <1>9 DEF Names
  <2>2. Kin(w[1].club, o[1].club) /\ Kin(w[2].club, o[2].club)
    BY <1>8 DEF Alike
  <2>3. Passes(w, x, y)
    BY <1>8, <2>1, <2>2 DEF Passes
  <2> QED
    BY <1>8, <2>1, <2>3 DEF Names
<1>10. /\ Misspelt(w[1], o[1]) \in Nat /\ (Misspelt(w[1], o[1]) = 0 => w[1].club = o[1].club)
       /\ Misspelt(w[2], o[2]) \in Nat /\ (Misspelt(w[2], o[2]) = 0 => w[2].club = o[2].club)
  BY <1>8, MisspeltCosts
<1>11. /\ Cost(w, c, kind) \in Nat
       /\ Cost(w, c, kind) = 0 => w[1].club = o[1].club /\ w[2].club = o[2].club
  BY <1>5, <1>10
<1>12. Cost(w, c, kind) = 0 => NamesEitherWay(w, s, k)
  BY <1>7, <1>9, <1>11 DEF NamesEitherWay
<1>13. Passes(w, s, k) \/ Passes(w, Swap(s), Swap(k))
  BY <1>7, <1>9
<1> QED
  BY <1>2, <1>4, <1>11, <1>12, <1>13 DEF s, k

\* A capture under the very names wanted fits and costs nothing.
LEMMA ExactFits ==
  ASSUME NEW c, NEW kind
  PROVE  LET w == Folded(Listed(c), kind) IN Fits(w, c, kind) # {} /\ Cost(w, c, kind) = 0
<1> DEFINE w == Folded(Listed(c), kind)
<1>1. SidesAgree(w, w)
  BY KinIsMutual DEF SidesAgree, Alike
<1>2. Fits(w, c, kind) = {w}
  BY <1>1 DEF Fits
<1>3. Misspelt(w[1], w[1]) = 0 /\ Misspelt(w[2], w[2]) = 0
  BY DEF Misspelt
<1> HIDE DEF w
<1>4. (CHOOSE o \in {w} : TRUE) = w
  OBVIOUS
<1>5. Cost(w, c, kind) = 0
  BY <1>2, <1>3, <1>4 DEF Cost
<1> QED
  BY <1>2, <1>5 DEF w


-----------------------------------------------------------------------------
(* Resolution: the match                                                   *)

\* A distance is a number, either way.
LEMMA ApartIsNat ==
  ASSUME NEW t \in Int, NEW u \in Int
  PROVE  Apart(t, u) \in Nat /\ Apart(t, u) = Apart(u, t)
BY DEF Apart

\* What is within the bound is on the same calendar day or the next.
LEMMA BoundIsADay ==
  ASSUME NEW t \in Int, NEW u \in Int, Apart(t, u) <= AcceptBound
  PROVE  Apart(t \div 24, u \div 24) <= 1
<1> DEFINE a == t \div 24
           b == u \div 24
           x == t % 24
           y == u % 24
<1>1. a \in Int /\ x \in 0..23 /\ t = 24 * a + x
  OBVIOUS
<1>2. b \in Int /\ y \in 0..23 /\ u = 24 * b + y
  OBVIOUS
<1> HIDE DEF a, b, x, y
<1>3. t - u <= 6 /\ u - t <= 6
  BY DEF Apart, AcceptBound
<1>4. a - b <= 1 /\ b - a <= 1
  BY <1>1, <1>2, <1>3
<1>5. Apart(a, b) <= 1
  BY <1>1, <1>2, <1>4 DEF Apart
<1> QED
  BY <1>5 DEF a, b

\* Some candidate is the nearest.
LEMMA NearestIsCandidate ==
  ASSUME NEW w, NEW kickoff, NEW kind, NEW S, S # {},
         \A c \in S : Rank(w, kickoff, kind, c) \in Nat
  PROVE  /\ Nearest(w, kickoff, kind, S) \in S
         /\ \A d \in S : Rank(w, kickoff, kind, Nearest(w, kickoff, kind, S)) <= Rank(w, kickoff, kind, d)
<1> DEFINE rank(c) == Rank(w, kickoff, kind, c)
           ranks == {rank(c) : c \in S}
<1>1. ranks \in SUBSET Nat /\ ranks # {}
  OBVIOUS
<1>2. PICK t \in ranks : \A u \in ranks : t <= u
  BY <1>1, LeastNumber
<1>3. PICK c \in S : t = rank(c)
  OBVIOUS
<1>4. \A d \in S : rank(c) <= rank(d)
  BY <1>2, <1>3
<1> HIDE DEF rank
<1>5. \E b \in S : \A d \in S : rank(b) <= rank(d)
  BY <1>4
<1> DEFINE Q(b) == \A d \in S : rank(b) <= rank(d)
<1> HIDE DEF Q
<1>6. (CHOOSE b \in S : Q(b)) \in S /\ Q(CHOOSE b \in S : Q(b))
  <2>1. \E b \in S : Q(b)
    BY <1>5 DEF Q
  <2> QED
    BY <2>1
<1>7. Nearest(w, kickoff, kind, S) = CHOOSE b \in S : Q(b)
  BY DEF Nearest, Q, rank
<1> QED
  BY <1>6, <1>7 DEF Q, rank

\* What is matched may be accepted, and nothing that may be ranks before it.
LEMMA MatchFits ==
  ASSUME NEW S, S \subseteq Captures, NEW w, NEW kickoff \in Int, NEW kind,
         NEW c \in Matches(w, kickoff, kind, S)
  PROVE  /\ c \in Eligible(w, kickoff, kind, S)
         /\ c \in S /\ Fits(w, c, kind) # {} /\ Apart(c.kickoff, kickoff) <= AcceptBound
         /\ \A d \in Eligible(w, kickoff, kind, S) : Rank(w, kickoff, kind, c) <= Rank(w, kickoff, kind, d)
<1> DEFINE eligible == Eligible(w, kickoff, kind, S)
           best == Nearest(w, kickoff, kind, eligible)
<1>1. ASSUME NEW d \in eligible
      PROVE  Rank(w, kickoff, kind, d) \in Nat
  <2>1. d \in Captures /\ Fits(w, d, kind) # {}
    BY DEF Eligible
  <2>2. d.kickoff \in Int
    BY <2>1, MatchAssumption DEF Captures
  <2>3. Cost(w, d, kind) \in Nat
    BY <2>1, FitNames
  <2>4. Apart(d.kickoff, kickoff) \in Nat
    BY <2>2, ApartIsNat
  <2> QED
    BY <2>3, <2>4 DEF Rank, FetchWindow
<1>2. Matches(w, kickoff, kind, S) =
        IF eligible = {} THEN {} ELSE Accept(w, kickoff, kind, best, eligible \ {best})
  BY DEF Matches
<1>3. \A d \in eligible : d \in S /\ Fits(w, d, kind) # {} /\ Apart(d.kickoff, kickoff) <= AcceptBound
  BY DEF Eligible, InBound
<1> HIDE DEF eligible
<1>4. eligible # {} => best \in eligible /\ \A d \in eligible : Rank(w, kickoff, kind, best) <= Rank(w, kickoff, kind, d)
  BY <1>1, NearestIsCandidate
<1>5. eligible # {} /\ c = best
  BY <1>2 DEF Accept
<1> QED
  BY <1>3, <1>4, <1>5 DEF eligible

\* A match is a matter of what may be accepted.
LEMMA SameEligible ==
  ASSUME NEW S, NEW T, NEW w, NEW kickoff, NEW kind,
         Eligible(w, kickoff, kind, S) = Eligible(w, kickoff, kind, T)
  PROVE  Matches(w, kickoff, kind, S) = Matches(w, kickoff, kind, T)
BY DEF Matches

\* The game of a capture that goes by a page's names, within the bound of its start, is the page's game.
LEMMA NamesakeIsTheGame ==
  ASSUME NEW p \in PickPages, NEW c \in Captures, NEW w,
         NamesEitherWay(w, p.game.sides, p.game.markers),
         NamesEitherWay(w, c.game.sides, c.game.markers),
         Apart(c.kickoff, p.game.start) <= AcceptBound
  PROVE  c.game = p.game
<1> DEFINE s == c.game.sides
           k == c.game.markers
           u == p.game.sides
           v == p.game.markers
<1>1. /\ c.game \in RealGames /\ p.game \in RealGames
      /\ \E drift \in Drifts : c.kickoff = c.game.start + drift
  <2>1. p.game \in RealGames
    BY PageAssumption
  <2> QED
    BY <2>1 DEF Captures
<1>2. s = <<s[1], s[2]>> /\ k = <<k[1], k[2]>> /\ u = <<u[1], u[2]>> /\ v = <<v[1], v[2]>>
  BY <1>1, MatchAssumption
<1> HIDE DEF s, k, u, v
<1>3. \A x, y : Names(w, x, y) <=> /\ w[1].club = x[1] /\ w[1].markers = y[1]
                                   /\ w[2].club = x[2] /\ w[2].markers = y[2]
  BY DEF Names
<1>4. \A x : Swap(x)[1] = x[2] /\ Swap(x)[2] = x[1] /\ Swap(x) = <<x[2], x[1]>>
  BY DEF Swap
<1>5. \/ s[1] = u[1] /\ s[2] = u[2] /\ k[1] = v[1] /\ k[2] = v[2]
      \/ s[1] = u[2] /\ s[2] = u[1] /\ k[1] = v[2] /\ k[2] = v[1]
  <2>1. Names(w, s, k) \/ Names(w, Swap(s), Swap(k))
    BY DEF NamesEitherWay, s, k
  <2>2. Names(w, u, v) \/ Names(w, Swap(u), Swap(v))
    BY DEF NamesEitherWay, u, v
  <2> QED
    BY <2>1, <2>2, <1>3, <1>4
<1>6. (s = u /\ k = v) \/ (s = Swap(u) /\ k = Swap(v))
  BY <1>2, <1>4, <1>5
<1>7. Namesakes(c.game, p.game)
  BY <1>6 DEF Namesakes, s, k, u, v
<1>8. PICK drift \in Drifts : c.kickoff = c.game.start + drift
  BY <1>1
<1> QED
  BY <1>1, <1>7, <1>8, MatchAssumption

\* Names that pass for a game's, wanted of a page's game: the games resemble.
LEMMA PassedGamesResemble ==
  ASSUME NEW g, NEW h, NEW w, NamesEitherWay(w, h.sides, h.markers),
         Passes(w, g.sides, g.markers) \/ Passes(w, Swap(g.sides), Swap(g.markers))
  PROVE  Resembles(g, h)
<1> DEFINE s == g.sides
           k == g.markers
           u == h.sides
           v == h.markers
<1> HIDE DEF s, k, u, v
<1>1. \A x : Swap(x)[1] = x[2] /\ Swap(x)[2] = x[1]
  BY DEF Swap
<1>2. \A x, y : Names(w, x, y) => /\ w[1].club = x[1] /\ w[1].markers = y[1]
                                  /\ w[2].club = x[2] /\ w[2].markers = y[2]
  BY DEF Names
<1>3. \A x, y : Passes(w, x, y) => /\ Kin(x[1], w[1].club) /\ w[1].markers = y[1]
                                   /\ Kin(x[2], w[2].club) /\ w[2].markers = y[2]
  BY KinIsMutual DEF Passes
<1>4. \/ /\ w[1].club = u[1] /\ w[1].markers = v[1] /\ w[2].club = u[2] /\ w[2].markers = v[2]
      \/ /\ w[1].club = u[2] /\ w[1].markers = v[2] /\ w[2].club = u[1] /\ w[2].markers = v[1]
  <2>1. Names(w, u, v) \/ Names(w, Swap(u), Swap(v))
    BY DEF NamesEitherWay, u, v
  <2> QED
    BY <2>1, <1>1, <1>2
<1>5. \/ /\ Kin(s[1], w[1].club) /\ w[1].markers = k[1] /\ Kin(s[2], w[2].club) /\ w[2].markers = k[2]
      \/ /\ Kin(s[2], w[1].club) /\ w[1].markers = k[2] /\ Kin(s[1], w[2].club) /\ w[2].markers = k[1]
  <2>1. Passes(w, s, k) \/ Passes(w, Swap(s), Swap(k))
    BY DEF s, k
  <2> QED
    BY <2>1, <1>1, <1>3
<1>6. \/ /\ Kin(s[1], u[1]) /\ k[1] = v[1] /\ Kin(s[2], u[2]) /\ k[2] = v[2]
      \/ /\ Kin(s[1], u[2]) /\ k[1] = v[2] /\ Kin(s[2], u[1]) /\ k[2] = v[1]
  BY <1>4, <1>5
<1>7. \/ \A i \in 1..2 : Kin(s[i], u[i]) /\ k[i] = v[i]
      \/ \A i \in 1..2 : Kin(s[i], Swap(u)[i]) /\ k[i] = Swap(v)[i]
  BY <1>1, <1>6
<1> QED
  BY <1>7 DEF Resembles, s, k, u, v

\* The names a page gives, when its address may be used.
LEMMA PageNames ==
  ASSUME NEW p \in PickPages
  PROVE  LET kind == Kind(p)
             s == p.game.sides
             m == p.game.markers
         IN /\ p.game \in RealGames /\ p.game.tennis \in BOOLEAN /\ p.game.start \in Int
            /\ p.slugTurned \in BOOLEAN
            /\ Names(Display(p), s, m) /\ Names(Folded(Display(p), kind), s, m)
            /\ KeepsMarkers(p) =>
                 /\ ~p.slugTurned => Names(Folded(Slug(p), kind), s, m)
                 /\ p.slugTurned => Names(Folded(Slug(p), kind), Swap(s), Swap(m))
<1>1. /\ p.game \in RealGames /\ p.slugTurned \in BOOLEAN /\ p.game.tennis \in BOOLEAN /\ p.game.start \in Int
      /\ p.slugMarkers \in {p.game.markers, <<{}, {}>>}
      /\ p.game.markers = <<p.game.markers[1], p.game.markers[2]>>
  <2>1. /\ p.game \in RealGames /\ p.slugTurned \in BOOLEAN
        /\ p.slugMarkers \in {p.game.markers, <<{}, {}>>}
    BY PageAssumption
  <2>2. /\ p.game.tennis \in BOOLEAN /\ p.game.start \in Int
        /\ p.game.markers = <<p.game.markers[1], p.game.markers[2]>>
    BY <2>1, MatchAssumption, Zenon
  <2> QED
    BY <2>1, <2>2
<1>2. Names(Folded(Display(p), Kind(p)), p.game.sides, p.game.markers)
  BY NamedNames DEF Display
<1>3. Names(Display(p), p.game.sides, p.game.markers)
  BY DEF Display, Names, Named
<1>4. ASSUME KeepsMarkers(p)
      PROVE  p.slugMarkers = p.game.markers
  <2> SUFFICES ASSUME p.slugMarkers = <<{}, {}>> PROVE p.game.markers = <<{}, {}>>
    BY <1>1
  <2> DEFINE said == {Slug(p)[i].markers : i \in 1..2}
  <2>1. \A m \in said : m = {}
    BY <1>1 DEF Slug, Named, Swap
  <2>2. \A i \in 1..2 : Display(p)[i].markers = p.game.markers[i]
    BY DEF Display, Named
  <2>3. \A i \in 1..2 : \A x \in p.game.markers[i] : \E m \in said : x \in m
    <3> HIDE DEF said
    <3>1. UNION {Display(p)[i].markers : i \in 1..2} \subseteq UNION said
      BY <1>4 DEF KeepsMarkers, said
    <3> QED
      BY <2>2, <3>1
  <2> HIDE DEF said
  <2>4. p.game.markers[1] = {} /\ p.game.markers[2] = {}
    <3>1. 1 \in 1..2 /\ 2 \in 1..2
      OBVIOUS
    <3>2. (\A x : x \notin p.game.markers[1]) /\ (\A x : x \notin p.game.markers[2])
      BY <2>1, <2>3, <3>1, Zenon
    <3> QED
      BY <3>2
  <2> QED
    BY <2>4, <1>1
<1>5. ASSUME KeepsMarkers(p)
      PROVE  /\ ~p.slugTurned => Names(Folded(Slug(p), Kind(p)), p.game.sides, p.game.markers)
             /\ p.slugTurned => Names(Folded(Slug(p), Kind(p)), Swap(p.game.sides), Swap(p.game.markers))
  BY <1>1, <1>4, <1>5, NamedNames DEF Slug
<1> QED
  BY <1>1, <1>2, <1>3, <1>5


-----------------------------------------------------------------------------
(* Resolution: the archive, and what a pick is priced against              *)

\* Every capture is of a real game, listed and timed as its source does.
MatchInv == MatchTypeOK /\ archive \subseteq Captures /\ hour \in Nat

\* The archive is empty.
LEMMA MatchStart == MatchInit => MatchInv
BY MatchAssumption DEF MatchInit, MatchInv, MatchTypeOK

\* A capture is of a real game, under one of its drifts; time passes.
LEMMA MatchKeepsInv ==
  ASSUME MatchInv, [MatchNext]_matchVars
  PROVE  MatchInv'
<1>1. CASE UNCHANGED matchVars
  BY <1>1, Zenon DEF matchVars, MatchInv, MatchTypeOK, Captures
<1>2. ASSUME NEW g \in RealGames, NEW drift \in Drifts, NEW spelling \in Spellings,
             NEW turned \in Turned \cup (IF g.tennis THEN BOOLEAN ELSE {}),
             CaptureGame(g, drift, spelling, turned)
      PROVE  MatchInv'
  <2> DEFINE c == [game |-> g, turned |-> turned, spelling |-> spelling, kickoff |-> g.start + drift, at |-> hour]
  <2>1. /\ c.game = g /\ c.turned = turned /\ c.spelling = spelling /\ c.kickoff = g.start + drift /\ c.at = hour
        /\ archive' = archive \cup {c} /\ hour' = hour
    BY <1>2 DEF CaptureGame
  <2> HIDE DEF c
  <2>2. g.start \in Int /\ drift \in Int /\ turned \in BOOLEAN
    BY MatchAssumption
  <2>3. c.kickoff - c.game.start \in Drifts /\ c.at \in 0 .. hour
    BY <2>1, <2>2 DEF MatchInv
  <2>4. MatchTypeOK'
    BY <2>1, <2>2, <2>3 DEF MatchInv, MatchTypeOK
  <2>5. c \in Captures'
    <3>1. \E d \in Drifts : c.kickoff = c.game.start + d
      BY <2>1
    <3> QED
      BY <2>1, <2>2, <3>1 DEF Captures
  <2>6. archive' \subseteq Captures'
    BY <2>1, <2>5 DEF MatchInv, Captures
  <2> QED
    BY <2>1, <2>4, <2>6 DEF MatchInv
<1>3. CASE HourPasses
  <2>1. archive' = archive /\ hour' = hour + 1 /\ hour < LastMatchHour
    BY <1>3 DEF HourPasses
  <2>2. MatchTypeOK' /\ hour' \in Nat
    BY <2>1, MatchAssumption DEF MatchInv, MatchTypeOK
  <2>3. archive' \subseteq Captures'
    BY <2>1 DEF MatchInv, Captures
  <2> QED
    BY <2>2, <2>3 DEF MatchInv
<1> QED
  BY <1>1, <1>2, <1>3 DEF MatchNext

\* Whatever a pick resolves to, by its displayed names or else by its address, is near its kickoff, fits
\* the names tried, and is its own game or one that resembles it.
LEMMA ResolvedFits ==
  ASSUME MatchInv, NEW p \in PickPages, NEW c \in Resolved(p)
  PROVE  /\ c \in Captures /\ c \in Namespace(p) /\ Apart(c.kickoff, p.game.start) <= AcceptBound
         /\ Resembles(c.game, p.game)
         /\ \/ c \in ByDisplay(p) /\ Fits(Folded(Display(p), Kind(p)), c, Kind(p)) # {}
            \/ /\ KeepsMarkers(p) /\ c \in ByAddress(p) /\ c \notin ByDisplay(p)
               /\ Fits(Folded(Slug(p), Kind(p)), c, Kind(p)) # {}
<1> DEFINE t == Kind(p)
           display == Folded(Display(p), t)
           slug == Folded(Slug(p), t)
           k == p.game.start
           s == p.game.sides
           m == p.game.markers
           S == Namespace(p)
<1>1. /\ k \in Int /\ NamesEitherWay(display, s, m)
      /\ KeepsMarkers(p) => NamesEitherWay(slug, s, m)
  BY PageNames DEF NamesEitherWay
<1>2. S \subseteq Captures
  BY DEF MatchInv, Namespace
<1>3. \/ c \in Matches(display, k, t, S)
      \/ KeepsMarkers(p) /\ c \in Matches(slug, k, t, S) /\ c \notin Matches(display, k, t, S)
  BY DEF Resolved, FirstFound, ByDisplay, ByAddress
<1> HIDE DEF t, display, slug, k, s, m, S
<1>4. ASSUME NEW w, NamesEitherWay(w, s, m), c \in Matches(w, k, t, S)
      PROVE  /\ c \in Captures /\ c \in S /\ Apart(c.kickoff, k) <= AcceptBound
             /\ Fits(w, c, t) # {} /\ Resembles(c.game, p.game)
  <2>1. c \in S /\ Fits(w, c, t) # {} /\ Apart(c.kickoff, k) <= AcceptBound
    BY <1>1, <1>2, <1>4, MatchFits
  <2>2. c \in Captures
    BY <1>2, <2>1
  <2>3. Passes(w, c.game.sides, c.game.markers) \/ Passes(w, Swap(c.game.sides), Swap(c.game.markers))
    BY <2>1, <2>2, FitNames
  <2>4. Resembles(c.game, p.game)
    BY <1>4, <2>3, PassedGamesResemble DEF s, m
  <2> QED
    BY <2>1, <2>2, <2>4
<1>5. CASE c \in Matches(display, k, t, S)
  BY <1>1, <1>4, <1>5 DEF t, display, k, S, ByDisplay
<1>6. CASE KeepsMarkers(p) /\ c \in Matches(slug, k, t, S) /\ c \notin Matches(display, k, t, S)
  BY <1>1, <1>4, <1>6 DEF t, display, slug, k, S, ByDisplay, ByAddress
<1> QED
  BY <1>3, <1>5, <1>6

\* A capture's names, as it lists them.
LEMMA ListedNames ==
  ASSUME NEW c, c.turned \in BOOLEAN, NEW i \in 1..2
  PROVE  /\ Listed(c)[i].spelling = c.spelling
         /\ ~c.turned => Listed(c)[i].club = c.game.sides[i] /\ Listed(c)[i].markers = c.game.markers[i]
         /\ c.turned => Listed(c)[i].club = Swap(c.game.sides)[i] /\ Listed(c)[i].markers = Swap(c.game.markers)[i]
BY DEF Listed, Named, Swap

\* Of its own clubs a pick is priced on its own game.
LEMMA ResolvedIsRight ==
  ASSUME MatchInv, NEW p \in PickPages
  PROVE  RightGame(p, Resolved(p))
<1> SUFFICES ASSUME NEW c \in Resolved(p)
             PROVE  Resembles(c.game, p.game) /\ (Namesakes(c.game, p.game) => c.game = p.game)
  BY DEF RightGame
<1>1. c \in Captures /\ Apart(c.kickoff, p.game.start) <= AcceptBound /\ Resembles(c.game, p.game)
  BY ResolvedFits
<1>2. p.game \in RealGames
  BY PageAssumption
<1>3. c.game \in RealGames /\ \E drift \in Drifts : c.kickoff = c.game.start + drift
  BY <1>1 DEF Captures
<1> QED
  BY <1>1, <1>2, <1>3, MatchAssumption

\* The very names displayed rank before a look-alike's.
LEMMA OwnNamesComeFirst ==
  ASSUME MatchInv, NEW p \in PickPages
  PROVE  OwnGameFirst(p)
<1> DEFINE w == Folded(Display(p), Kind(p))
           k == p.game.start
           t == Kind(p)
           S == Namespace(p)
<1> SUFFICES ASSUME NEW d \in S, Folded(Listed(d), t) = w, InBound(k, d),
                    NEW c \in ByDisplay(p)
             PROVE  c.game = p.game
  BY DEF OwnGameFirst
<1>1. S \subseteq Captures /\ k \in Int /\ c \in Matches(w, k, t, S)
  BY PageNames DEF MatchInv, Namespace, ByDisplay
<1>2. NamesEitherWay(w, p.game.sides, p.game.markers)
  BY PageNames DEF NamesEitherWay
<1>3. Fits(w, d, t) # {} /\ Cost(w, d, t) = 0
  BY ExactFits
<1> HIDE DEF w, k, t, S
<1>4. Apart(d.kickoff, k) \in Nat /\ Apart(d.kickoff, k) <= 6
  <2>1. d.kickoff \in Int
    BY <1>1, MatchAssumption DEF Captures
  <2> QED
    BY <1>1, <2>1, ApartIsNat DEF InBound, AcceptBound
<1>5. d \in Eligible(w, k, t, S)
  BY <1>3, <1>4 DEF Eligible, InBound, AcceptBound, FetchWindow
<1>6. /\ c \in S /\ Fits(w, c, t) # {} /\ Apart(c.kickoff, k) <= AcceptBound
      /\ Rank(w, k, t, c) <= Rank(w, k, t, d)
  BY <1>1, <1>5, MatchFits
<1>7. Apart(c.kickoff, k) \in Nat /\ Cost(w, c, t) \in Nat
  <2>1. c \in Captures /\ c.kickoff \in Int
    <3>1. c \in Captures
      BY <1>1, <1>6
    <3>2. PICK drift \in Drifts : c.game \in RealGames /\ c.kickoff = c.game.start + drift
      BY <3>1, Zenon DEF Captures
    <3>3. drift \in Int /\ c.game.start \in Int
      BY <3>2, MatchAssumption, Zenon
    <3> QED
      BY <3>1, <3>2, <3>3
  <2> QED
    BY <1>1, <1>6, <2>1, ApartIsNat, FitNames
<1>8. Cost(w, c, t) = 0
  <2> DEFINE x == Cost(w, c, t)
             y == Apart(c.kickoff, k)
             z == Apart(d.kickoff, k)
  <2>1. 49 * x + y <= z
    <3>1. Rank(w, k, t, c) = (48 + 1) * x + y /\ Rank(w, k, t, d) = (48 + 1) * 0 + z
      BY <1>3 DEF Rank, FetchWindow
    <3> HIDE DEF x, y, z
    <3> QED
      BY <3>1, <1>4, <1>6, <1>7 DEF x, y, z
  <2> HIDE DEF x, y, z
  <2>2. x \in Nat /\ y \in Nat /\ z \in Nat /\ z <= 6
    BY <1>4, <1>7 DEF x, y, z
  <2>3. x = 0
    BY <2>1, <2>2
  <2> QED
    BY <2>3 DEF x
<1>9. NamesEitherWay(w, c.game.sides, c.game.markers)
  BY <1>1, <1>6, <1>8, FitNames
<1> QED
  BY <1>1, <1>2, <1>6, <1>9, NamesakeIsTheGame DEF k

\* The names a team's capture is listed under pass for those it was matched by, side by side.
LEMMA TeamsAgree ==
  ASSUME NEW p \in PickPages, ~p.game.tennis, NEW c \in Captures
  PROVE  /\ Fits(Folded(Display(p), Kind(p)), c, Kind(p)) # {} => SidesAgree(Display(p), Listed(c))
         /\ Fits(Folded(Slug(p), Kind(p)), c, Kind(p)) # {} => SidesAgree(Slug(p), Listed(c))
<1>1. Kind(p) = "team" /\ Folded(Display(p), Kind(p)) = Display(p) /\ Folded(Slug(p), Kind(p)) = Slug(p)
  BY DEF Kind, Folded
<1> QED
  BY <1>1, FitNames

\* Each side is offered its own price, or a look-alike's.
LEMMA SidesAreRight ==
  ASSUME MatchInv, NEW p \in PickPages
  PROVE  RightSide(p, Resolved(p))
<1> DEFINE s == p.game.sides
<1> SUFFICES ASSUME NEW c \in Resolved(p), NEW i \in 1..2
             PROVE  /\ ByTurnedAddress(p, c) \/ \A club \in PriceOf(p, c, i) : Kin(club, s[i])
                    /\ c.game = p.game /\ (p.game.tennis \/ ~c.turned) => PriceOf(p, c, i) = {s[i]}
  BY DEF RightSide
<1>1. c \in Captures /\ c.turned \in BOOLEAN
  BY ResolvedFits DEF Captures
<1>2. Display(p)[i].club = s[i]
  BY DEF Display, Named
<1>3. CASE p.game.tennis
  <2>1. PriceOf(p, c, i) = {Listed(c)[j].club : j \in 1..2} \cap {s[i]}
    BY <1>2, <1>3 DEF PriceOf
  <2>2. \A club \in PriceOf(p, c, i) : Kin(club, s[i])
    BY <2>1, KinIsMutual
  <2>3. c.game = p.game => \E j \in 1..2 : Listed(c)[j].club = s[i]
    <3>1. CASE ~c.turned
      BY <1>1, <3>1, ListedNames
    <3>2. CASE c.turned
      <4>1. c.game = p.game => Listed(c)[3 - i].club = Swap(s)[3 - i]
        <5>1. PICK j \in 1..2 : j = 3 - i
          OBVIOUS
        <5>2. Listed(c)[j].club = Swap(c.game.sides)[j]
          BY <3>2 DEF Listed, Named, Swap
        <5> QED
          BY <5>1, <5>2
      <4>2. Swap(s)[3 - i] = s[i] /\ 3 - i \in 1..2
        BY DEF Swap
      <4> QED
        BY <4>1, <4>2
    <3> QED
      BY <1>1, <3>1, <3>2
  <2> QED
    BY <2>1, <2>2, <2>3
<1>4. CASE ~p.game.tennis
  <2>1. PriceOf(p, c, i) = {Listed(c)[i].club}
    BY <1>4 DEF PriceOf
  <2>2. c.game = p.game /\ ~c.turned => Listed(c)[i].club = s[i]
    BY <1>1, ListedNames
  <2>3. ASSUME ~ByTurnedAddress(p, c)
        PROVE  Kin(Listed(c)[i].club, s[i])
    <3>1. CASE Fits(Folded(Display(p), Kind(p)), c, Kind(p)) # {}
      <4>1. Alike(Display(p)[i], Listed(c)[i])
        BY <1>1, <1>4, <3>1, TeamsAgree DEF SidesAgree
      <4> QED
        BY <1>2, <4>1, KinIsMutual DEF Alike
    <3>2. CASE /\ KeepsMarkers(p) /\ c \in ByAddress(p) /\ c \notin ByDisplay(p)
               /\ Fits(Folded(Slug(p), Kind(p)), c, Kind(p)) # {}
      <4>1. Alike(Slug(p)[i], Listed(c)[i])
        BY <1>1, <1>4, <3>2, TeamsAgree DEF SidesAgree
      <4>2. ~p.slugTurned => Slug(p)[i].club = s[i]
        BY DEF Slug, Named
      <4>3. CASE ~p.slugTurned
        BY <4>1, <4>2, <4>3, KinIsMutual DEF Alike
      <4>4. CASE p.slugTurned
        <5>1. ~c.turned /\ c.game = p.game
          BY <1>4, <2>3, <3>2, <4>4 DEF ByTurnedAddress
        <5> QED
          BY <2>2, <5>1, KinIsMutual
      <4> QED
        BY <4>3, <4>4
    <3> QED
      BY <3>1, <3>2, ResolvedFits
  <2> QED
    BY <1>4, <2>1, <2>2, <2>3
<1> QED
  BY <1>3, <1>4

\* The audit accuses a price on the other side, and neither a team's displayed names nor the pick's own
\* game under its plain names.
LEMMA AuditJudgesRightly ==
  ASSUME MatchInv, NEW p \in PickPages
  PROVE  AuditIsRight(p, Resolved(p))
<1> SUFFICES ASSUME NEW c \in Resolved(p)
             PROVE  /\ (\E i \in 1..2 : \E club \in PriceOf(p, c, i) : ~Kin(club, p.game.sides[i]))
                         => ~Verified(p, c)
                    /\ ~p.game.tennis /\ c \in ByDisplay(p) => Verified(p, c)
                    /\ c.game = p.game /\ (p.game.tennis \/ (c.spelling = "exact" /\ ~c.turned))
                         => Verified(p, c)
  BY DEF AuditIsRight, Accused, Anchors
<1>1. c \in Captures /\ c.turned \in BOOLEAN /\ Apart(c.kickoff, p.game.start) <= AcceptBound
  BY ResolvedFits DEF Captures
<1>2. \A i \in 1..2 : Display(p)[i].club = p.game.sides[i] /\ Display(p)[i].markers = p.game.markers[i]
  BY DEF Display, Named
<1>3. ~p.game.tennis => Kind(p) = "team" /\ Folded(Listed(c), Kind(p)) = Listed(c)
  BY DEF Kind, Folded
<1> DEFINE o == Folded(Listed(c), Kind(p))
           both == {o} \cup (IF p.game.tennis THEN {Swap(o)} ELSE {})
           Concurs(x) == \A i \in 1..2 : Display(p)[i].markers = x[i].markers /\ Related(Display(p)[i], x[i])
<1>4. Verified(p, c) <=> \E x \in both : Concurs(x)
  BY <1>1 DEF Verified
<1> HIDE DEF o
<1>5. ASSUME NEW i \in 1..2, NEW club \in PriceOf(p, c, i), ~Kin(club, p.game.sides[i]), Verified(p, c)
      PROVE  FALSE
  <2>1. ~p.game.tennis
    <3> SUFFICES ASSUME p.game.tennis PROVE Kin(club, p.game.sides[i])
      BY <1>5
    <3>1. club = p.game.sides[i]
      BY <1>2, <1>5 DEF PriceOf
    <3> QED
      BY <3>1, KinIsMutual
  <2>2. club = Listed(c)[i].club
    BY <1>5, <2>1 DEF PriceOf
  <2>3. both = {Listed(c)}
    BY <1>3, <2>1 DEF o
  <2>4. Related(Display(p)[i], Listed(c)[i])
    BY <1>4, <1>5, <2>3
  <2>5. Kin(Display(p)[i].club, Listed(c)[i].club)
    BY <2>4, KinIsMutual DEF Related, Alike
  <2> QED
    BY <1>2, <1>5, <2>2, <2>5, KinIsMutual
<1>6. ASSUME ~p.game.tennis, c \in ByDisplay(p)
      PROVE  Verified(p, c)
  <2>1. Fits(Folded(Display(p), Kind(p)), c, Kind(p)) # {}
    BY <1>6, ResolvedFits
  <2>2. SidesAgree(Display(p), Listed(c))
    BY <1>1, <1>6, <2>1, TeamsAgree
  <2>3. Concurs(Listed(c))
    BY <2>2 DEF SidesAgree, Related
  <2>4. Listed(c) \in both
    BY <1>3, <1>6 DEF o
  <2> QED
    BY <1>4, <2>3, <2>4
<1>7. ASSUME c.game = p.game, ~p.game.tennis, c.spelling = "exact", ~c.turned
      PROVE  Verified(p, c)
  <2>1. \A i \in 1..2 : /\ Listed(c)[i].club = p.game.sides[i] /\ Listed(c)[i].markers = p.game.markers[i]
                        /\ Listed(c)[i].spelling = "exact"
    BY <1>1, <1>7, ListedNames
  <2>2. Concurs(Listed(c))
    BY <1>2, <2>1 DEF Related
  <2>3. Listed(c) \in both
    BY <1>3, <1>7 DEF o
  <2> QED
    BY <1>4, <2>2, <2>3
<1>8. ASSUME c.game = p.game, p.game.tennis
      PROVE  Verified(p, c)
  <2>1. Kind(p) = "tennis"
    BY <1>8 DEF Kind
  <2>2. \A i \in 1..2 : /\ o[i].club = Listed(c)[i].club /\ o[i].markers = Listed(c)[i].markers
                        /\ o[i].spelling = "exact"
    BY <1>1, <2>1, FoldedSides DEF Listed, o
  <2>3. \A i \in 1..2 : /\ Swap(o)[i] = o[3 - i] /\ 3 - i \in 1..2
                        /\ \A x : Swap(x)[3 - i] = x[i]
    BY DEF Swap
  <2>4. CASE ~c.turned
    <3>1. \A i \in 1..2 : o[i].club = p.game.sides[i] /\ o[i].markers = p.game.markers[i] /\ o[i].spelling = "exact"
      BY <1>1, <1>8, <2>2, <2>4, ListedNames
    <3>2. Concurs(o)
      BY <1>2, <3>1 DEF Related
    <3> QED
      BY <1>4, <3>2
  <2>5. CASE c.turned
    <3>1. \A i \in 1..2 : /\ o[3 - i].club = p.game.sides[i] /\ o[3 - i].markers = p.game.markers[i]
                          /\ o[3 - i].spelling = "exact"
      <4> TAKE i \in 1..2
      <4>1. /\ Listed(c)[3 - i].club = Swap(p.game.sides)[3 - i]
            /\ Listed(c)[3 - i].markers = Swap(p.game.markers)[3 - i]
        <5>1. PICK j \in 1..2 : j = 3 - i
          OBVIOUS
        <5>2. Listed(c)[j].club = Swap(c.game.sides)[j] /\ Listed(c)[j].markers = Swap(c.game.markers)[j]
          BY <2>5 DEF Listed, Named, Swap
        <5> QED
          BY <1>8, <5>1, <5>2
      <4> QED
        BY <2>2, <2>3, <4>1
    <3>2. Concurs(Swap(o))
      BY <1>2, <2>3, <3>1 DEF Related
    <3> QED
      BY <1>4, <1>8, <3>2
  <2> QED
    BY <1>1, <2>4, <2>5
<1> QED
  BY <1>5, <1>6, <1>7, <1>8

\* The report misses a resolved pick only for its league.
LEMMA MissesHaveAReason ==
  ASSUME MatchInv, NEW p \in PickPages
  PROVE  Reported(p, Resolved(p))
<1> DEFINE k == p.game.start
           S == Namespace(p)
           agreeing == {c \in Nearby(p) : LeaguesAgree(p, c)}
<1>1. k \in Int
  BY PageNames
<1>2. ASSUME NEW c \in S, Apart(c.kickoff, k) <= AcceptBound
      PROVE  c \in Nearby(p)
  <2>1. c.kickoff \in Int
    BY MatchAssumption DEF MatchInv, Namespace, Captures
  <2> QED
    BY <1>1, <1>2, <2>1, BoundIsADay DEF Nearby
<1>3. ASSUME NEW c \in Resolved(p), Listed(c) \in {Display(p), Slug(p)}
      PROVE  ShadowMatched(p)
  <2>1. c \in Nearby(p)
    BY <1>2, ResolvedFits
  <2> QED
    BY <1>3, <2>1 DEF ShadowMatched, ExactMatch
<1>4. ASSUME ~p.game.tennis, ByDisplay(p) # {},
             \A c \in Eligible(Display(p), k, "team", S) : LeaguesAgree(p, c)
      PROVE  ShadowMatched(p)
  <2>1. ByDisplay(p) = Matches(Display(p), k, "team", S)
    BY <1>4 DEF ByDisplay, Kind, Folded
  <2>2. Eligible(Display(p), k, "team", agreeing) = Eligible(Display(p), k, "team", S)
    <3>1. \A c \in agreeing : c \in S
      BY DEF Nearby
    <3>2. \A c \in Eligible(Display(p), k, "team", S) : c \in agreeing
      BY <1>2, <1>4 DEF Eligible, InBound
    <3> HIDE DEF agreeing, S
    <3> QED
      BY <3>1, <3>2 DEF Eligible
  <2>3. Matches(Display(p), k, "team", agreeing) # {}
    <3> HIDE DEF agreeing, S, k
    <3> QED
      BY <1>4, <2>1, <2>2, SameEligible
  <2> QED
    BY <1>4, <2>3 DEF ShadowMatched
<1> QED
  BY <1>3, <1>4 DEF Reported

\* The invariant is enough.
LEMMA MatchInvIsEnough == MatchInv => MatchTypeOK /\ ResolvedRight
BY ResolvedIsRight, OwnNamesComeFirst, SidesAreRight, AuditJudgesRightly, MissesHaveAReason
   DEF ResolvedRight, MatchInv


-----------------------------------------------------------------------------
(* The exchange's archive                                                  *)

Outcome == {{}, {1}, {2}, {3}}

\* What the exchange may say of a market.
Messages ==
  [def : SUBSET [inPlay : BOOLEAN, closed : BOOLEAN, bsp : [Runners -> BookPrices \cup {1}], won : Outcome],
   prices : UNION {[some -> BookPrices] : some \in SUBSET Runners}]

\* Every price a record has given of a runner: before the turn, or as its starting price.
Given(messages, r) ==
  LET said == {i \in DOMAIN messages : /\ \A t \in Turns(messages) : i < t
                                       /\ r \in DOMAIN messages[i].prices /\ messages[i].prices[r] > 1}
  IN {messages[i].prices[r] : i \in said} \cup UNION {{d.bsp[r] : d \in messages[i].def} : i \in DOMAIN messages}

\* What a record has given is what the property allows.
LEMMA GivenPrices ==
  ASSUME NEW m, NEW r
  PROVE  Given(stream[m], r) = Prematch(m, r) \cup StartingPrices(m, r)
BY DEF Given, Prematch, StartingPrices, Turns

\* One record continues another.
Continues(long, short) ==
  /\ long \in Seq(Messages) /\ short \in Seq(Messages) /\ Len(short) <= Len(long)
  /\ \A i \in 1 .. Len(short) : long[i] = short[i]

\* What a record has given, its continuation has given too: what comes later is not before the turn.
LEMMA GivenStays ==
  ASSUME NEW long, NEW short, Continues(long, short), NEW r
  PROVE  Given(short, r) \subseteq Given(long, r)
<1>1. /\ DOMAIN long = 1 .. Len(long) /\ DOMAIN short = 1 .. Len(short)
      /\ Len(long) \in Nat /\ Len(short) \in Nat /\ Len(short) <= Len(long)
      /\ \A i \in 1 .. Len(short) : i \in 1 .. Len(long) /\ long[i] = short[i]
  BY DEF Continues
<1>2. \A t \in Turns(long) : t \in Turns(short) \/ (t \in Nat /\ t > Len(short))
  BY <1>1 DEF Turns
<1>3. ASSUME NEW i \in DOMAIN short, \A t \in Turns(short) : i < t
      PROVE  i \in DOMAIN long /\ long[i] = short[i] /\ \A t \in Turns(long) : i < t
  BY <1>1, <1>2, <1>3
<1>4. ASSUME NEW p \in Given(short, r)
      PROVE  p \in Given(long, r)
  <2>1. CASE \E i \in DOMAIN short : /\ \A t \in Turns(short) : i < t
                                     /\ r \in DOMAIN short[i].prices /\ short[i].prices[r] > 1
                                     /\ p = short[i].prices[r]
    <3>1. PICK i \in DOMAIN short : /\ \A t \in Turns(short) : i < t
                                    /\ r \in DOMAIN short[i].prices /\ short[i].prices[r] > 1
                                    /\ p = short[i].prices[r]
      BY <2>1
    <3>2. i \in DOMAIN long /\ long[i] = short[i] /\ \A t \in Turns(long) : i < t
      BY <1>3, <3>1
    <3> QED
      BY <3>1, <3>2 DEF Given
  <2>2. CASE \E i \in DOMAIN short : \E d \in short[i].def : p = d.bsp[r]
    <3>1. PICK i \in DOMAIN short : \E d \in short[i].def : p = d.bsp[r]
      BY <2>2
    <3>2. i \in DOMAIN long /\ long[i] = short[i]
      BY <1>1
    <3> QED
      BY <3>1, <3>2 DEF Given
  <2> QED
    BY <2>1, <2>2 DEF Given
<1> QED
  BY <1>4

\* A market as it is kept: of a listed market, at most one winner, its closes prices its record gave.
Kept(k) ==
  /\ k.id \in Markets /\ k.won \in Outcome
  /\ \A r \in Runners : k.close[r] \subseteq Given(stream[k.id], r)

\* What is parsed of a record that the market's record continues is such a market.
LEMMA ParsedIsKept ==
  ASSUME NEW m \in Markets, NEW messages, Continues(stream[m], messages),
         NEW k \in ParseMarketStream(m, messages)
  PROVE  Kept(k)
<1> DEFINE closeOf(d) == [r \in Runners |-> IF ToDecimal(d.bsp[r]) # {} THEN ToDecimal(d.bsp[r]) ELSE LastInTime(messages, r)]
<1>1. PICK d \in LatestDef(messages) :
        k = [id |-> m, type |-> ListingOf[m].type, won |-> d.won, close |-> closeOf(d)]
  BY DEF ParseMarketStream
<1>2. PICK i \in DOMAIN messages : d \in messages[i].def
  BY DEF LatestDef, Defined
<1>3. k.id = m /\ k.won = d.won /\ k.close = closeOf(d)
  <2> HIDE DEF closeOf
  <2> QED
    BY <1>1
<1>4. d.won \in Outcome
  <2>1. messages[i] \in Messages
    BY <1>2 DEF Continues
  <2> QED
    BY <1>2, <2>1 DEF Messages
<1>5. ASSUME NEW r \in Runners, NEW p \in closeOf(d)[r]
      PROVE  p \in Given(messages, r)
  <2>1. CASE ToDecimal(d.bsp[r]) # {}
    <3>1. p = d.bsp[r]
      BY <1>5, <2>1 DEF ToDecimal
    <3> QED
      BY <1>2, <3>1 DEF Given
  <2>2. CASE ToDecimal(d.bsp[r]) = {}
    <3>1. p \in LastInTime(messages, r)
      BY <1>5, <2>2
    <3>2. PICK x \in PricesInTime(messages, r) : p \in ToDecimal(messages[x].prices[r])
      BY <3>1 DEF LastInTime
    <3>3. /\ x \in DOMAIN messages /\ r \in DOMAIN messages[x].prices
          /\ \A t \in Turns(messages) : x < t
      BY DEF PricesInTime, InTime
    <3>4. p = messages[x].prices[r] /\ messages[x].prices[r] > 1
      BY <3>2 DEF ToDecimal
    <3> QED
      BY <3>3, <3>4 DEF Given
  <2> QED
    BY <2>1, <2>2
<1> HIDE DEF closeOf
<1>6. \A r \in Runners : k.close[r] \subseteq Given(stream[m], r)
  BY <1>3, <1>5, GivenStays
<1> QED
  BY <1>3, <1>4, <1>6 DEF Kept


\* An empty record continues itself, and a record with one more message the one without.
LEMMA ContinuesSelf ==
  ASSUME NEW s \in Seq(Messages)
  PROVE  Continues(s, s)
BY DEF Continues

\* A record with one more message continues what it did before.
LEMMA ContinuesLonger ==
  ASSUME NEW s, NEW short, Continues(s, short), NEW msg \in Messages
  PROVE  Continues(Append(s, msg), short)
BY DEF Continues

\* The records grow, at most a message of all of them at a time; what was downloaded they continue, and
\* what is cached and joined they have given.
ArchiveInv ==
  /\ stream \in [Markets -> Seq(Messages)]
  /\ IsFiniteSet(Recorded) /\ Cardinality(Recorded) <= MaxMessages
  /\ \A d \in incoming : \A m \in Markets : Continues(stream[m], d.streams[m])
  /\ \A t \in MarketTypes : \A k \in kept[t] : Kept(k)
  /\ \A j \in joinedRow : \A c \in j.match : Kept(c.market)
  /\ rowOf.home = "T1" /\ rowOf.away = "T2"
  /\ ClosesAreOfTheSide

\* Nothing is recorded, cached or joined.
LEMMA ArchiveStart == ArchiveInit => ArchiveInv
<1> SUFFICES ASSUME ArchiveInit PROVE ArchiveInv
  OBVIOUS
<1>1. /\ stream = [m \in Markets |-> <<>>] /\ incoming = {} /\ kept = [t \in MarketTypes |-> {}]
      /\ joinedRow = {} /\ rowOf.home = "T1" /\ rowOf.away = "T2"
  BY DEF ArchiveInit
<1>2. Recorded = {}
  BY <1>1 DEF Recorded
<1>3. IsFiniteSet(Recorded) /\ Cardinality(Recorded) <= MaxMessages
  BY <1>2, FS_EmptySet, ArchiveAssumption
<1>4. stream \in [Markets -> Seq(Messages)]
  BY <1>1
<1>5. \A t \in MarketTypes : kept[t] = {}
  BY <1>1
<1>6. ClosesAreOfTheSide
  BY <1>1 DEF ClosesAreOfTheSide
<1> QED
  BY <1>1, <1>3, <1>4, <1>5, <1>6 DEF ArchiveInv

\* What was given stays given, so what is cached stays good and what was joined stays right, while the
\* records grow.
LEMMA RecordsGrow ==
  ASSUME ArchiveInv, \A x \in Markets : Continues(stream'[x], stream[x]), UNCHANGED <<rowOf, joinedRow>>
  PROVE  (\A k : Kept(k) => Kept(k)') /\ ClosesAreOfTheSide'
<1>1. \A x \in Markets : \A r : Given(stream[x], r) \subseteq Given(stream'[x], r)
  BY GivenStays
<1>2. \A x, r : Given(stream'[x], r) = Prematch(x, r)' \cup StartingPrices(x, r)'
  BY DEF Given, Prematch, StartingPrices, Turns
<1>3. \A k : Kept(k) => Kept(k)'
  BY <1>1 DEF Kept
<1>4. \A j \in joinedRow : \A c \in j.match : c.market.id \in Markets
  BY DEF ArchiveInv, Kept
<1>5. \A x \in Markets : \A r : Prematch(x, r) \cup StartingPrices(x, r) \subseteq Prematch(x, r)' \cup StartingPrices(x, r)'
  BY <1>1, <1>2, GivenPrices
<1>6. ClosesAreOfTheSide
  BY DEF ArchiveInv
<1> QED
  BY <1>3, <1>4, <1>5, <1>6 DEF ClosesAreOfTheSide


\* A message of a market: one more, and what was given stays given.
LEMMA RecordKeepsInv ==
  ASSUME ArchiveInv, NEW m \in Markets, NEW msg \in Messages, Record(m, msg)
  PROVE  ArchiveInv'
<1> DEFINE here == <<m, Len(stream[m]) + 1>>
<1>1. /\ stream' = [stream EXCEPT ![m] = Append(stream[m], msg)] /\ Cardinality(Recorded) < MaxMessages
      /\ UNCHANGED <<incoming, kept, rowOf, joinedRow>>
  BY DEF Record
<1>2. stream \in [Markets -> Seq(Messages)] /\ IsFiniteSet(Recorded)
  BY DEF ArchiveInv
<1>3. stream' \in [Markets -> Seq(Messages)]
  BY <1>1, <1>2
<1>4. /\ stream'[m] = Append(stream[m], msg)
      /\ \A x \in Markets \ {m} : stream'[x] = stream[x]
  BY <1>1, <1>2
<1>5. \A x \in Markets : \A short : Continues(stream[x], short) => Continues(stream'[x], short)
  BY <1>4, ContinuesLonger
<1>6. \A x \in Markets : Continues(stream'[x], stream[x])
  BY <1>2, <1>5, ContinuesSelf
<1>7. (\A k : Kept(k) => Kept(k)') /\ ClosesAreOfTheSide'
  BY <1>1, <1>6, RecordsGrow
<1>8. IsFiniteSet(Recorded') /\ Cardinality(Recorded') <= MaxMessages
  <2>1. DOMAIN stream'[m] = DOMAIN stream[m] \cup {Len(stream[m]) + 1}
    BY <1>2, <1>4
  <2>2. Recorded' = Recorded \cup {here}
    BY <1>4, <2>1 DEF Recorded
  <2>3. IsFiniteSet(Recorded') /\ Cardinality(Recorded') <= Cardinality(Recorded) + 1
    <3> HIDE DEF here
    <3>1. /\ IsFiniteSet(Recorded \cup {here})
          /\ Cardinality(Recorded \cup {here}) = IF here \in Recorded THEN Cardinality(Recorded) ELSE Cardinality(Recorded) + 1
      BY <1>2, FS_AddElement
    <3>2. Cardinality(Recorded) \in Nat
      BY <1>2, FS_CardinalityType
    <3> QED
      BY <2>2, <3>1, <3>2
  <2>4. Cardinality(Recorded) \in Nat /\ Cardinality(Recorded') \in Nat
    BY <1>2, <2>3, FS_CardinalityType
  <2> QED
    BY <1>1, <2>3, <2>4, ArchiveAssumption
<1>9. \A d \in incoming' : \A x \in Markets : Continues(stream'[x], d.streams[x])
  BY <1>1, <1>5 DEF ArchiveInv
<1>10. /\ \A t \in MarketTypes : \A k \in kept'[t] : Kept(k)'
       /\ \A j \in joinedRow' : \A c \in j.match : Kept(c.market)'
       /\ rowOf'.home = "T1" /\ rowOf'.away = "T2"
  BY <1>1, <1>7 DEF ArchiveInv
<1> QED
  BY <1>3, <1>7, <1>8, <1>9, <1>10 DEF ArchiveInv

\* The loaders give such markets of what was downloaded.
LEMMA LoadedAreKept ==
  ASSUME ArchiveInv, NEW d \in incoming
  PROVE  /\ \A k \in LoadDir(d.streams) : Kept(k)
         /\ \A type : \A k \in LoadTarByType(d.streams, type) : Kept(k)
<1>1. \A x \in Markets : \A k \in ParseMarketStream(x, d.streams[x]) : Kept(k)
  BY ParsedIsKept DEF ArchiveInv
<1> QED
  BY <1>1 DEF LoadDir, LoadTarByType

\* A join takes one of the markets, its prices at the row's sides, and contradicts no winner.
LEMMA JoinsAreRight ==
  ASSUME NEW markets, \A k \in markets : Kept(k), rowOf.home = "T1", rowOf.away = "T2",
         NEW c \in AttachClose(rowOf, markets)
  PROVE  /\ Kept(c.market)
         /\ \E h, a \in Runners : LET names == ListingOf[c.market.id].names IN
              /\ names[h] = rowOf.home /\ c.home = c.market.close[h]
              /\ names[a] = rowOf.away /\ c.away = c.market.close[a]
              /\ \A r \in c.market.won : names[r] =
                   CASE rowOf.result = "H" -> rowOf.home [] rowOf.result = "A" -> rowOf.away [] OTHER -> "draw"
<1> DEFINE index == {m \in markets : <<rowOf.home, rowOf.away>> \in SidesOf(m)}
           priced(m) == {x \in HomeDrawAway(m, rowOf.home, rowOf.away) :
                           x.home # {} /\ x.away # {} /\ Agrees(x.result, rowOf.result)}
           joined(m, x) == [market |-> m, home |-> x.home, draw |-> x.draw, away |-> x.away]
<1>1. MatchOf(index) \subseteq markets
  BY DEF MatchOf
<1>2. AttachClose(rowOf, markets) = UNION {{joined(m, x) : x \in priced(m)} : m \in MatchOf(index)}
  BY DEF AttachClose
<1> HIDE DEF index, priced, joined
<1>3. PICK m \in MatchOf(index) : \E x \in priced(m) : c = joined(m, x)
  BY <1>2
<1>4. PICK x \in priced(m) : c = joined(m, x)
  BY <1>3
<1>5. c.market = m /\ c.home = x.home /\ c.away = x.away /\ Kept(m)
  BY <1>1, <1>4 DEF joined
<1> DEFINE names == ListingOf[m.id].names
           draws == {r \in Runners : names[r] = "draw"}
           won(rs) == rs \cap m.won # {}
           result(h, a) == IF won({h}) THEN {"H"} ELSE IF won({a}) THEN {"A"} ELSE IF won(draws) THEN {"D"} ELSE {}
           of(h, a) == [home |-> m.close[h], away |-> m.close[a], draw |-> UNION {m.close[d] : d \in draws},
                        result |-> result(h, a)]
<1>6. x \in HomeDrawAway(m, rowOf.home, rowOf.away) /\ Agrees(x.result, rowOf.result)
  BY DEF priced
<1>7. \E h, a \in Runners : names[h] = rowOf.home /\ names[a] = rowOf.away /\ x = of(h, a)
  BY <1>6 DEF HomeDrawAway
<1> HIDE DEF of, result
<1>8. PICK h \in Runners, a \in Runners : names[h] = rowOf.home /\ names[a] = rowOf.away /\ x = of(h, a)
  BY <1>7
<1>9. x.home = m.close[h] /\ x.away = m.close[a] /\ x.result = result(h, a)
  BY <1>8 DEF of
<1>10. result(h, a) = {} \/ result(h, a) = {rowOf.result}
  BY <1>6, <1>9 DEF Agrees
<1>11. PICK d \in Runners : names[d] = "draw"
  <2>1. {"T1", "T2"} \subseteq {names[r] : r \in Runners}
    BY <1>8
  <2>2. m.id \in Markets
    BY <1>5 DEF Kept
  <2>3. "draw" \in {names[r] : r \in Runners}
    BY <2>1, <2>2, ArchiveAssumption
  <2> QED
    BY <2>3
<1>12. \A r \in Runners : r = h \/ r = a \/ r = d
  BY <1>8, <1>11 DEF Runners
<1>13. m.won \in Outcome
  BY <1>5 DEF Kept
<1>14. ASSUME NEW r \in m.won
       PROVE  names[r] = CASE rowOf.result = "H" -> rowOf.home [] rowOf.result = "A" -> rowOf.away [] OTHER -> "draw"
  <2>1. r \in Runners /\ m.won = {r}
    BY <1>13 DEF Outcome, Runners
  <2>2. CASE r = h
    <3>1. result(h, a) = {"H"}
      BY <2>1, <2>2 DEF result
    <3> QED
      BY <1>8, <1>10, <2>2, <3>1
  <2>3. CASE r = a
    <3>1. result(h, a) = {"A"}
      BY <1>8, <2>1, <2>3 DEF result
    <3> QED
      BY <1>8, <1>10, <2>3, <3>1
  <2>4. CASE r = d
    <3>1. result(h, a) = {"D"}
      BY <1>8, <1>11, <2>1, <2>4 DEF result
    <3> QED
      BY <1>10, <1>11, <2>4, <3>1
  <2> QED
    BY <1>12, <2>1, <2>2, <2>3, <2>4
<1> QED
  BY <1>5, <1>8, <1>9, <1>14


\* Nothing recorded and nothing joined: nothing to check anew.
LEMMA ClosesUnchanged ==
  ASSUME UNCHANGED <<stream, rowOf, joinedRow>>
  PROVE  ClosesAreOfTheSide' <=> ClosesAreOfTheSide
<1>1. \A m, r : Prematch(m, r)' = Prematch(m, r) /\ StartingPrices(m, r)' = StartingPrices(m, r)
  BY DEF Prematch, StartingPrices
<1>2. rowOf' = rowOf /\ joinedRow' = joinedRow
  OBVIOUS
<1> QED
  BY <1>1, <1>2 DEF ClosesAreOfTheSide

\* The merge adds markets parsed of the download (merge_betfair_bsp.main).
LEMMA MergeKeepsInv ==
  ASSUME ArchiveInv, Merge
  PROVE  ArchiveInv'
<1>1. PICK d \in incoming : kept' = [type \in MarketTypes |-> Dedup(kept[type], NewOf(type, d))]
  BY DEF Merge
<1>2. incoming' = {} /\ UNCHANGED <<stream, rowOf, joinedRow>>
  BY DEF Merge
<1>3. \A k : Kept(k)' <=> Kept(k)
  BY <1>2 DEF Kept
<1>4. \A type \in MarketTypes : \A k \in NewOf(type, d) : Kept(k)
  BY LoadedAreKept DEF NewOf
<1>5. \A type \in MarketTypes : \A k \in kept'[type] : Kept(k)'
  <2> TAKE type \in MarketTypes
  <2>1. kept'[type] = Dedup(kept[type], NewOf(type, d))
    BY <1>1
  <2> QED
    BY <1>3, <1>4, <2>1 DEF Dedup, ArchiveInv
<1>6. ClosesAreOfTheSide'
  BY <1>2, ClosesUnchanged DEF ArchiveInv
<1>7. stream' = stream /\ Recorded' = Recorded
  BY <1>2 DEF Recorded
<1> QED
  BY <1>2, <1>3, <1>5, <1>6, <1>7 DEF ArchiveInv

\* A backtest reads the caches, or fills them, and joins (run_betfair_bsp).
LEMMA BacktestKeepsInv ==
  ASSUME ArchiveInv, Backtest
  PROVE  ArchiveInv'
<1> DEFINE tar == CHOOSE d \in Placed("tar") : TRUE
           loose == CHOOSE d \in Placed("loose") : TRUE
           markets == IF kept'[MatchOdds] # {} \/ Placed("loose") = {} THEN kept'[MatchOdds]
                      ELSE LoadDir(loose.streams)
           totals == AttachOuClose(rowOf, kept'[OverUnder])
           row == [match |-> AttachClose(rowOf, markets), totals |-> totals]
<1>1. /\ kept' = [type \in MarketTypes |->
                    IF kept[type] # {} \/ Placed("tar") = {} THEN kept[type] ELSE LoadTarByType(tar.streams, type)]
      /\ joinedRow' = IF markets = {} THEN {} ELSE {row}
      /\ UNCHANGED <<stream, incoming, rowOf>>
  BY DEF Backtest
<1>2. /\ Placed("tar") # {} => tar \in incoming
      /\ Placed("loose") # {} => loose \in incoming
  BY DEF Placed
<1>3. MatchOdds \in MarketTypes
  BY DEF MarketTypes
<1> HIDE DEF tar, loose, totals
<1>4. \A type \in MarketTypes : \A k \in kept'[type] : Kept(k)
  <2> TAKE type \in MarketTypes
  <2>1. kept'[type] = IF kept[type] # {} \/ Placed("tar") = {} THEN kept[type] ELSE LoadTarByType(tar.streams, type)
    BY <1>1
  <2> QED
    BY <1>2, <2>1, LoadedAreKept DEF ArchiveInv
<1>5. \A k \in markets : Kept(k)
  BY <1>2, <1>3, <1>4, LoadedAreKept
<1> HIDE DEF markets
<1>6. rowOf.home = "T1" /\ rowOf.away = "T2"
  BY DEF ArchiveInv
<1>7. row.match = AttachClose(rowOf, markets)
  OBVIOUS
<1> HIDE DEF row
<1>8. \A j \in joinedRow' : j.match = AttachClose(rowOf, markets)
  BY <1>1, <1>7
<1>9. \A k : Kept(k)' <=> Kept(k)
  BY <1>1 DEF Kept
<1>10. \A j \in joinedRow' : \A c \in j.match : Kept(c.market)'
  BY <1>5, <1>6, <1>8, <1>9, JoinsAreRight
<1>11. ClosesAreOfTheSide'
  <2>5. \A m, r : Prematch(m, r)' = Prematch(m, r) /\ StartingPrices(m, r)' = StartingPrices(m, r)
    BY <1>1 DEF Prematch, StartingPrices
  <2>6. rowOf' = rowOf
    BY <1>1
  <2> SUFFICES ASSUME NEW j \in joinedRow', NEW c \in j.match
               PROVE  LET names == ListingOf[c.market.id].names
                          given(r) == Prematch(c.market.id, r) \cup StartingPrices(c.market.id, r)
                      IN /\ \A p \in c.home : \E r \in Runners : names[r] = rowOf.home /\ p \in given(r)
                         /\ \A p \in c.away : \E r \in Runners : names[r] = rowOf.away /\ p \in given(r)
                         /\ \A r \in c.market.won : names[r] =
                              CASE rowOf.result = "H" -> rowOf.home [] rowOf.result = "A" -> rowOf.away
                                [] OTHER -> "draw"
    BY <2>5, <2>6 DEF ClosesAreOfTheSide
  <2>1. c \in AttachClose(rowOf, markets)
    BY <1>8
  <2>2. Kept(c.market)
    BY <1>5, <1>6, <2>1, JoinsAreRight
  <2>3. PICK h \in Runners, a \in Runners :
          /\ ListingOf[c.market.id].names[h] = rowOf.home /\ c.home = c.market.close[h]
          /\ ListingOf[c.market.id].names[a] = rowOf.away /\ c.away = c.market.close[a]
          /\ \A r \in c.market.won : ListingOf[c.market.id].names[r] =
               CASE rowOf.result = "H" -> rowOf.home [] rowOf.result = "A" -> rowOf.away [] OTHER -> "draw"
    BY <1>5, <1>6, <2>1, JoinsAreRight
  <2>4. \A r \in Runners : c.market.close[r] \subseteq Prematch(c.market.id, r) \cup StartingPrices(c.market.id, r)
    BY <2>2, GivenPrices DEF Kept
  <2> QED
    BY <2>3, <2>4
<1>12. stream' = stream /\ Recorded' = Recorded
  BY <1>1 DEF Recorded
<1> QED
  BY <1>1, <1>4, <1>9, <1>10, <1>11, <1>12 DEF ArchiveInv

\* A download is the records as they are.
LEMMA DownloadKeepsInv ==
  ASSUME ArchiveInv, Download
  PROVE  ArchiveInv'
<1>1. PICK kind \in {"tar", "loose"}, place \in {"incoming", "archive"} :
        incoming' = {[kind |-> kind, place |-> place, streams |-> stream]}
  BY DEF Download
<1>2. UNCHANGED <<stream, kept, rowOf, joinedRow>>
  BY DEF Download
<1>3. \A d \in incoming' : d.streams = stream
  BY <1>1
<1>4. \A d \in incoming' : \A m \in Markets : Continues(stream'[m], d.streams[m])
  BY <1>2, <1>3, ContinuesSelf DEF ArchiveInv
<1>5. \A k : Kept(k)' <=> Kept(k)
  BY <1>2 DEF Kept
<1>6. ClosesAreOfTheSide' /\ Recorded' = Recorded
  BY <1>2, ClosesUnchanged DEF ArchiveInv, Recorded
<1> QED
  BY <1>2, <1>4, <1>5, <1>6 DEF ArchiveInv

\* What the exchange records is a message.
LEMMA MessagesAreSo ==
  ASSUME NEW m \in Markets, NEW p \in BookPrices \cup {1}, NEW r \in Runners, NEW winner \in Outcome
  PROVE  /\ p \in BookPrices => [def |-> {Open}, prices |-> Quoted(p)] \in Messages
         /\ p \in BookPrices => [def |-> NoDefinition, prices |-> [x \in {r} |-> p]] \in Messages
         /\ p \in BookPrices => [def |-> {[Open EXCEPT !.inPlay = TRUE]}, prices |-> Quoted(p)] \in Messages
         /\ [def |-> {[inPlay |-> InPlay(m), closed |-> TRUE, bsp |-> Quoted(p), won |-> winner]},
             prices |-> [x \in {} |-> 1]] \in Messages
<1> DEFINE Def == [inPlay : BOOLEAN, closed : BOOLEAN, bsp : [Runners -> BookPrices \cup {1}], won : Outcome]
           Some == UNION {[some -> BookPrices] : some \in SUBSET Runners}
<1>1. Messages = [def : SUBSET Def, prices : Some]
  BY DEF Messages
<1>2. Open \in Def /\ [Open EXCEPT !.inPlay = TRUE] \in Def
  BY DEF Open, Outcome
<1>3. [inPlay |-> InPlay(m), closed |-> TRUE, bsp |-> Quoted(p), won |-> winner] \in Def
  <2>1. InPlay(m) \in BOOLEAN
    BY DEF InPlay
  <2>2. Quoted(p) \in [Runners -> BookPrices \cup {1}]
    BY DEF Quoted
  <2> QED
    BY <2>1, <2>2
<1>4. p \in BookPrices => Quoted(p) \in Some /\ [x \in {r} |-> p] \in Some
  <2> SUFFICES ASSUME p \in BookPrices PROVE Quoted(p) \in Some /\ [x \in {r} |-> p] \in Some
    OBVIOUS
  <2>1. Quoted(p) \in [Runners -> BookPrices] /\ [x \in {r} |-> p] \in [{r} -> BookPrices]
    BY DEF Quoted
  <2>2. {r} \in SUBSET Runners
    OBVIOUS
  <2> QED
    BY <2>1, <2>2
<1>5. [x \in {} |-> 1] \in Some
  <2>1. [x \in {} |-> 1] \in [{} -> BookPrices]
    OBVIOUS
  <2> QED
    BY <2>1
<1> HIDE DEF Def, Some
<1> QED
  BY <1>1, <1>2, <1>3, <1>4, <1>5 DEF NoDefinition

\* Every step of the archive.
LEMMA ArchiveKeepsInv ==
  ASSUME ArchiveInv, [ArchiveNext]_archiveVars
  PROVE  ArchiveInv'
<1>1. CASE UNCHANGED archiveVars
  <2>1. UNCHANGED <<stream, incoming, kept, rowOf, joinedRow>>
    BY <1>1 DEF archiveVars
  <2>2. ClosesAreOfTheSide'
    BY <2>1, ClosesUnchanged DEF ArchiveInv
  <2> QED
    BY <2>1, <2>2 DEF ArchiveInv, Recorded, Kept
<1>2. ASSUME NEW m \in Markets, Opens(m) \/ Trades(m) \/ TurnsInPlay(m) \/ Settles(m)
      PROVE  \E msg \in Messages : Record(m, msg)
  <2> DEFINE one == 1
             none == {}
  <2>5. one \in Runners /\ none \in Outcome /\ \A p \in BookPrices : p \in BookPrices \cup {1}
    BY DEF Runners, Outcome
  <2> HIDE DEF one, none
  <2>1. CASE Opens(m)
    <3>1. PICK p \in BookPrices : Record(m, [def |-> {Open}, prices |-> Quoted(p)])
      BY <2>1, Zenon DEF Opens
    <3>2. [def |-> {Open}, prices |-> Quoted(p)] \in Messages
      BY <2>5, MessagesAreSo
    <3> QED
      BY <3>1, <3>2
  <2>2. CASE Trades(m)
    <3>1. PICK r \in Runners, p \in BookPrices : Record(m, [def |-> NoDefinition, prices |-> [x \in {r} |-> p]])
      BY <2>2, Zenon DEF Trades
    <3>2. [def |-> NoDefinition, prices |-> [x \in {r} |-> p]] \in Messages
      BY <2>5, MessagesAreSo
    <3> QED
      BY <3>1, <3>2
  <2>3. CASE TurnsInPlay(m)
    <3>1. PICK p \in BookPrices : Record(m, [def |-> {[Open EXCEPT !.inPlay = TRUE]}, prices |-> Quoted(p)])
      BY <2>3, Zenon DEF TurnsInPlay
    <3>2. [def |-> {[Open EXCEPT !.inPlay = TRUE]}, prices |-> Quoted(p)] \in Messages
      BY <2>5, MessagesAreSo
    <3> QED
      BY <3>1, <3>2
  <2>4. CASE Settles(m)
    <3>1. PICK winner \in Outcome, p \in BookPrices \cup {1} :
            Record(m, [def |-> {[inPlay |-> InPlay(m), closed |-> TRUE, bsp |-> Quoted(p), won |-> winner]},
                       prices |-> [x \in {} |-> 1]])
      BY <2>4, Zenon DEF Settles, Outcome
    <3>2. [def |-> {[inPlay |-> InPlay(m), closed |-> TRUE, bsp |-> Quoted(p), won |-> winner]},
           prices |-> [x \in {} |-> 1]] \in Messages
      BY <2>5, MessagesAreSo
    <3> QED
      BY <3>1, <3>2
  <2> QED
    BY <1>2, <2>1, <2>2, <2>3, <2>4
<1> QED
  BY <1>1, <1>2, RecordKeepsInv, MergeKeepsInv, BacktestKeepsInv, DownloadKeepsInv DEF ArchiveNext

\* The closes joined are of the row's sides and no winner is contradicted.
LEMMA ArchiveInvIsEnough == ArchiveInv => ArchiveTypeOK /\ ClosesAreOfTheSide
BY DEF ArchiveInv, ArchiveTypeOK, Kept, Outcome, Runners


-----------------------------------------------------------------------------
(* The sources side by side                                                *)

\* A step is a step of the part that moves, or leaves it as it is.
LEMMA PartSteps ==
  ASSUME [SourcesNext]_<<part, historyVars, listingVars, feedVars, feedRowVars, exVars, sharpVars, apiVars, archiveVars,
                         kickoffVars, scoreVars, matchVars, gamesVars>>
  PROVE  /\ part' = part
         /\ [HistoryNext]_historyVars /\ [ListingNext]_listingVars /\ [FeedNext]_feedVars
         /\ [FeedRowsNext]_feedRowVars /\ [ExchangeNext]_exVars /\ [ArcadiaNext]_sharpVars
         /\ [ApiNext]_apiVars /\ [ArchiveNext]_archiveVars /\ [KickoffNext]_kickoffVars
         /\ [ScoreNext]_scoreVars /\ [MatchNext]_matchVars /\ [GamesNext]_gamesVars
<1>1. CASE UNCHANGED <<part, historyVars, listingVars, feedVars, feedRowVars, exVars, sharpVars, apiVars, archiveVars,
                         kickoffVars, scoreVars, matchVars, gamesVars>>
  BY <1>1, Zenon
<1>2. CASE HistoryNext /\ StandStill("history")
  <2>1. UNCHANGED <<part, listingVars, feedVars, feedRowVars, exVars, sharpVars, apiVars,
                    archiveVars, kickoffVars, scoreVars, matchVars, gamesVars>>
    BY <1>2 DEF StandStill
  <2> QED
    BY <1>2, <2>1, Zenon
<1>3. CASE ListingNext /\ StandStill("listing")
  <2>1. UNCHANGED <<part, historyVars, feedVars, feedRowVars, exVars, sharpVars, apiVars,
                    archiveVars, kickoffVars, scoreVars, matchVars, gamesVars>>
    BY <1>3 DEF StandStill
  <2> QED
    BY <1>3, <2>1, Zenon
<1>4. CASE FeedNext /\ StandStill("cycle")
  <2>1. UNCHANGED <<part, historyVars, listingVars, feedRowVars, exVars, sharpVars, apiVars,
                    archiveVars, kickoffVars, scoreVars, matchVars, gamesVars>>
    BY <1>4 DEF StandStill
  <2> QED
    BY <1>4, <2>1, Zenon
<1>5. CASE FeedRowsNext /\ StandStill("rows")
  <2>1. UNCHANGED <<part, historyVars, listingVars, feedVars, exVars, sharpVars, apiVars,
                    archiveVars, kickoffVars, scoreVars, matchVars, gamesVars>>
    BY <1>5 DEF StandStill
  <2> QED
    BY <1>5, <2>1, Zenon
<1>6. CASE ExchangeNext /\ StandStill("exchange")
  <2>1. UNCHANGED <<part, historyVars, listingVars, feedVars, feedRowVars, sharpVars, apiVars,
                    archiveVars, kickoffVars, scoreVars, matchVars, gamesVars>>
    BY <1>6 DEF StandStill
  <2> QED
    BY <1>6, <2>1, Zenon
<1>7. CASE ArcadiaNext /\ StandStill("arcadia")
  <2>1. UNCHANGED <<part, historyVars, listingVars, feedVars, feedRowVars, exVars, apiVars,
                    archiveVars, kickoffVars, scoreVars, matchVars, gamesVars>>
    BY <1>7 DEF StandStill
  <2> QED
    BY <1>7, <2>1, Zenon
<1>8. CASE ApiNext /\ StandStill("api")
  <2>1. UNCHANGED <<part, historyVars, listingVars, feedVars, feedRowVars, exVars, sharpVars,
                    archiveVars, kickoffVars, scoreVars, matchVars, gamesVars>>
    BY <1>8 DEF StandStill
  <2> QED
    BY <1>8, <2>1, Zenon
<1>9. CASE ArchiveNext /\ StandStill("archive")
  <2>1. UNCHANGED <<part, historyVars, listingVars, feedVars, feedRowVars, exVars, sharpVars,
                    apiVars, kickoffVars, scoreVars, matchVars, gamesVars>>
    BY <1>9 DEF StandStill
  <2> QED
    BY <1>9, <2>1, Zenon
<1>10. CASE KickoffNext /\ StandStill("kickoffs")
  <2>1. UNCHANGED <<part, historyVars, listingVars, feedVars, feedRowVars, exVars, sharpVars,
                    apiVars, archiveVars, scoreVars, matchVars, gamesVars>>
    BY <1>10 DEF StandStill
  <2> QED
    BY <1>10, <2>1, Zenon
<1>11. CASE ScoreNext /\ StandStill("scores")
  <2>1. UNCHANGED <<part, historyVars, listingVars, feedVars, feedRowVars, exVars, sharpVars,
                    apiVars, archiveVars, kickoffVars, matchVars, gamesVars>>
    BY <1>11 DEF StandStill
  <2> QED
    BY <1>11, <2>1, Zenon
<1>12. CASE MatchNext /\ StandStill("match")
  <2>1. UNCHANGED <<part, historyVars, listingVars, feedVars, feedRowVars, exVars, sharpVars,
                    apiVars, archiveVars, kickoffVars, scoreVars, gamesVars>>
    BY <1>12 DEF StandStill
  <2> QED
    BY <1>12, <2>1, Zenon
<1>13. CASE GamesNext /\ StandStill("games")
  <2>1. UNCHANGED <<part, historyVars, listingVars, feedVars, feedRowVars, exVars, sharpVars,
                    apiVars, archiveVars, kickoffVars, scoreVars, matchVars>>
    BY <1>13 DEF StandStill
  <2> QED
    BY <1>13, <2>1, Zenon
<1> QED
  BY <1>1, <1>2, <1>3, <1>4, <1>5, <1>6, <1>7, <1>8, <1>9, <1>10, <1>11, <1>12, <1>13, Zenon DEF SourcesNext

\* The components' inductive invariants, beside each other.
SourcesInv ==
  /\ part \in Parts
  /\ HistoryInv /\ ListingInv /\ FeedInv /\ FeedRowsInv /\ ExchangeInv /\ ArcadiaInv
  /\ ApiInv /\ ArchiveInv /\ KickoffInv /\ ScoreInv /\ MatchInv /\ GamesInv

\* Every component starts in its invariant.
LEMMA SourcesStart == SourcesInit => SourcesInv
BY HistoryStart, ListingStart, FeedStart, FeedRowsStart, ExchangeStart, ArcadiaStart, ApiStart,
   ArchiveStart, KickoffStart, ScoreStart, MatchStart, GamesStart, Zenon DEF SourcesInit, SourcesInv

\* Every component keeps its invariant, whichever moves.
LEMMA SourcesKeepInv ==
  ASSUME SourcesInv,
         [SourcesNext]_<<part, historyVars, listingVars, feedVars, feedRowVars, exVars, sharpVars, apiVars, archiveVars,
                         kickoffVars, scoreVars, matchVars, gamesVars>>
  PROVE  SourcesInv'
<1>1. /\ part' = part
      /\ [HistoryNext]_historyVars /\ [ListingNext]_listingVars /\ [FeedNext]_feedVars
      /\ [FeedRowsNext]_feedRowVars /\ [ExchangeNext]_exVars /\ [ArcadiaNext]_sharpVars
      /\ [ApiNext]_apiVars /\ [ArchiveNext]_archiveVars /\ [KickoffNext]_kickoffVars
      /\ [ScoreNext]_scoreVars /\ [MatchNext]_matchVars /\ [GamesNext]_gamesVars
  BY PartSteps, Zenon
<1> QED
  BY <1>1, HistoryKeepsInv, ListingKeepsInv, FeedKeepsInv, FeedRowsKeepInv, ExchangeKeepsInv, ArcadiaKeepsInv,
     ApiKeepsInv, ArchiveKeepsInv, KickoffKeepsInv, ScoreKeepsInv, MatchKeepsInv, GamesKeepInv, Zenon
     DEF SourcesInv

\* Of every component of the sources the inductive invariant, in every state of the whole.
THEOREM SourcesInvariant == SourcesSpec => []SourcesInv
BY SourcesStart, SourcesKeepInv, PTL DEF SourcesSpec

\* Whichever source moves, its variables have their types, for all sets and bounds.
THEOREM SourcesTyped == SourcesSpec => []SourcesTypeOK
<1>1. SourcesInv => SourcesTypeOK
  <2> SUFFICES ASSUME SourcesInv PROVE SourcesTypeOK
    OBVIOUS
  <2>1. FeedTypeOK /\ ArcadiaTypeOK /\ ApiTypeOK /\ ScoreTypeOK
    BY Zenon DEF SourcesInv, FeedInv, ArcadiaInv, ApiInv, ScoreInv
  <2>2. /\ HistoryTypeOK /\ ListingTypeOK /\ ExchangeTypeOK /\ FeedRowsTypeOK
        /\ KickoffTypeOK /\ MatchTypeOK /\ GamesTypeOK /\ ArchiveTypeOK
    BY HistoryInvIsEnough, ListingInvIsEnough, ExchangeInvIsEnough, FeedRowsAgree, KickoffInvIsEnough,
       MatchInvIsEnough, GamesInvIsEnough, ArchiveInvIsEnough, Zenon DEF SourcesInv
  <2>3. part \in Parts
    BY DEF SourcesInv
  <2> QED
    BY <2>1, <2>2, <2>3 DEF SourcesTypeOK, Parts
<1> QED
  BY <1>1, SourcesInvariant, PTL

\* Writing only what changed loses nothing, for any prices, faults, sweeps and lifetimes of the cache: in
\* each change-only history the last row is the last price read, the close of the main one the last price
\* before kickoff, but for rows a failed write or another writer left astray (_persist_snapshots, the two
\* _select_fresh).
THEOREM StoredLinesCurrent == SourcesSpec => []StoredLinesAreCurrent
<1>1. SourcesInv => StoredLinesAreCurrent
  BY HistoryInvIsEnough, ExchangeInvIsEnough, Zenon DEF SourcesInv, ArcadiaInv, StoredLinesAreCurrent
<1> QED
  BY <1>1, SourcesInvariant, PTL

\* A stored price is of that selection, side and game, whatever entries a page has, however the archive
\* and the page spell their names, while games the names cannot tell apart stand further apart than the
\* accept bound; look-alike clubs and a turned address bring what ResolvedRight says of them, and no more
\* (parse_feed_payload, home_draw_away_close, match_event_hardened).
THEOREM PricesOfTheirSide == SourcesSpec => []PricesAreOfTheirSide
<1>1. SourcesInv => PricesAreOfTheirSide
  BY FeedRowsAgree, ArchiveInvIsEnough, MatchInvIsEnough, Zenon DEF SourcesInv, PricesAreOfTheirSide
<1> QED
  BY <1>1, SourcesInvariant, PTL

\* Nothing is concluded before it has been tried, for any pool of proxies, logins and pages
\* (_scrape_with_failover, _call, _scrape_one_finished_score).
THEOREM NothingConcludedEarly == SourcesSpec => []NothingIsConcludedEarly
<1>1. SourcesInv => NothingIsConcludedEarly
  BY ListingInvIsEnough, Zenon DEF SourcesInv, ApiInv, ScoreInv, NothingIsConcludedEarly
<1> QED
  BY <1>1, SourcesInvariant, PTL

\* What is established is not given up, step by step: a real kickoff, a recorded score, a flagged
\* collapse, a game on the list over a restart, a degraded engine before its next poll (prefer_kickoff,
\* capture_finished_scores, run_cycle, latest_available_games_with_events, _poll_health).
THEOREM StandingFacts == SourcesSpec => StandingFactsStand
<1> DEFINE Step == [SourcesNext]_<<part, historyVars, listingVars, feedVars, feedRowVars, exVars, sharpVars, apiVars, archiveVars,
                         kickoffVars, scoreVars, matchVars, gamesVars>>
<1>1. SourcesInv /\ Step =>
        [\A g \in Contests :
           /\ Real(AtOf(events, g)) => Real(AtOf(events', g))
           /\ restarts' = restarts /\ Real(AtOf(directory, g)) => AtOf(directory', g) = heard'[g]]_kickoffVars
  <2> SUFFICES ASSUME SourcesInv, Step
               PROVE  \A g \in Contests :
                        /\ Real(AtOf(events, g)) => Real(AtOf(events', g))
                        /\ restarts' = restarts /\ Real(AtOf(directory, g)) => AtOf(directory', g) = heard'[g]
    OBVIOUS
  <2>1. KickoffInv /\ [KickoffNext]_kickoffVars
    BY PartSteps, Zenon DEF SourcesInv
  <2> QED
    BY <2>1, KickoffKeepsInv, Zenon
<1>2. SourcesInv /\ Step =>
        [\A g \in PickedGames : recorded[g] # NoScore => recorded'[g] = recorded[g]]_scoreVars
  <2> SUFFICES ASSUME SourcesInv, Step
               PROVE  \A g \in PickedGames : recorded[g] # NoScore => recorded'[g] = recorded[g]
    OBVIOUS
  <2>1. ScoreInv /\ [ScoreNext]_scoreVars
    BY PartSteps, Zenon DEF SourcesInv
  <2> QED
    BY <2>1, ScoreStepsHold, Zenon
<1>3. SourcesInv /\ Step =>
        [EndFeedCycle /\ outcome.verdict = "collapse" /\ outcome'.verdict = "complete"
           => outcome'.rows > outcome.rows]_feedVars
  BY CollapseIsSeen, Zenon DEF SourcesInv
<1>4. SourcesInv /\ Step =>
        [boots' # boots =>
           {g \in GamesShown : ingested[g] # {} /\ StartOf[g] # {} /\ ~Finished(g)} \subseteq GamesShown']_gamesVars
  <2> SUFFICES ASSUME SourcesInv, Step, boots' # boots
               PROVE  {g \in GamesShown : ingested[g] # {} /\ StartOf[g] # {} /\ ~Finished(g)} \subseteq GamesShown'
    OBVIOUS
  <2>1. GamesInv /\ [GamesNext]_gamesVars
    BY PartSteps, Zenon DEF SourcesInv
  <2> QED
    BY <2>1, RestartShowsWarehouse, Zenon
<1>5. SourcesInv /\ Step => [~Healthy /\ Healthy' => finishedAt' # finishedAt]_gamesVars
  <2> SUFFICES ASSUME SourcesInv, Step, ~Healthy, Healthy'
               PROVE  finishedAt' # finishedAt
    OBVIOUS
  <2>1. GamesInv /\ [GamesNext]_gamesVars
    BY PartSteps, Zenon DEF SourcesInv
  <2> QED
    BY <2>1, TimeHealsNothing, Zenon
<1> QED
  BY <1>1, <1>2, <1>3, <1>4, <1>5, SourcesInvariant, PTL
     DEF SourcesSpec, StandingFactsStand, RealKickoffStands, FirstScoreStands, CollapseStaysSeen,
         RestartKeepsGames, DegradedStands

=================================================================================
