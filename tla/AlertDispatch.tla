---------------------------- MODULE AlertDispatch ----------------------------
(***************************************************************************)
(* The alert dispatcher of app/notifications: jobs of the scheduler hand   *)
(* it alerts, it claims the alert's key in a store they all share (Redis   *)
(* SET NX EX), offers the alert to every sink in turn and gives the key    *)
(* back when no configured sink took it.                                   *)
(*                                                                         *)
(* A job's run dispatches each of its alerts once (the poll's open picks,  *)
(* upstream_watch's releases); runs of different jobs interleave at every  *)
(* await, and two of them may want the same key: upstream_watch and the    *)
(* extra run it gets at start-up are distinct jobs.                        *)
(*                                                                         *)
(* Time passes in units much longer than a dispatch (a key lives seven     *)
(* days, a send gives up after fifteen seconds), so the clock moves only   *)
(* while no dispatch is under way.                                         *)
(*                                                                         *)
(* History variables, read by no guard: `since` (clock units since the     *)
(* last confirmed delivery), `heard` (keys whose present claim, or none,   *)
(* reached a channel), `stranded` (keys whose claim outlived a crash or a  *)
(* failure of the store).                                                  *)
(***************************************************************************)
EXTENDS Naturals, Sequences

CONSTANTS
    Jobs,        \* jobs that dispatch
    Keys,        \* alert keys
    Wanted,      \* the keys a run of each job dispatches
    Sinks,       \* the sinks, in the order of the dispatcher's tuple
    TTL,         \* life of a claim, in clock units
    MaxFaults    \* bound on the number of failures of any kind

ASSUME DispatchAssumption ==
    /\ Wanted \in [Jobs -> SUBSET Keys]
    /\ Sinks \in Seq(STRING)
    /\ TTL \in Nat \ {0}
    /\ MaxFaults \in Nat

VARIABLES
    ttl,        \* clock units the store still keeps each key; 0: not held
    left,       \* alerts a job's run has still to dispatch
    sending,    \* is the job past a claim?
    key,        \* the key it claimed
    sink,       \* the sink it offers the alert to next
    delivered,  \* any_delivered
    configured, \* the sinks this deployment has a token or url for
    faults,     \* failures so far
    since, heard, stranded

jobVars == <<left, sending, key, sink, delivered>>
historyVars == <<since, heard, stranded>>
vars == <<ttl, jobVars, configured, faults, historyVars>>

TypeOK ==
    /\ ttl \in [Keys -> 0 .. TTL]
    /\ left \in [Jobs -> SUBSET Keys]
    /\ sending \in [Jobs -> BOOLEAN]
    /\ key \in [Jobs -> Keys]
    /\ sink \in [Jobs -> 1 .. Len(Sinks) + 1]
    /\ delivered \in [Jobs -> BOOLEAN]
    /\ configured \subseteq {Sinks[i] : i \in DOMAIN Sinks}
    /\ faults \in 0 .. MaxFaults
    /\ since \in [Keys -> 0 .. TTL]
    /\ heard \subseteq Keys
    /\ stranded \subseteq Keys

Init ==
    /\ ttl = [k \in Keys |-> 0]
    /\ left = [j \in Jobs |-> {}]
    /\ sending = [j \in Jobs |-> FALSE]
    /\ key \in [Jobs -> Keys]
    /\ sink = [j \in Jobs |-> 1]
    /\ delivered = [j \in Jobs |-> FALSE]
    /\ configured \in SUBSET {Sinks[i] : i \in DOMAIN Sinks}
    /\ faults = 0
    /\ since = [k \in Keys |-> TTL]
    /\ heard = {} /\ stranded = {}

Fault ==
    /\ faults < MaxFaults
    /\ faults' = faults + 1

Dispatching(j, k) == sending[j] /\ key[j] = k

-----------------------------------------------------------------------------
(* The store.                                                              *)

Held(k) == ttl[k] > 0

\* Slip: the key is written whether or not it exists.
SetKeyBlindly(k) == ttl' = [ttl EXCEPT ![k] = TTL]

\* SET NX EX
SetKey(k) == ~Held(k) /\ ttl' = [ttl EXCEPT ![k] = TTL]

\* Slip: the claim is not handed back.
DeleteNothing(k) == UNCHANGED ttl

DeleteKey(k) == ttl' = [ttl EXCEPT ![k] = 0]

-----------------------------------------------------------------------------
(* dispatch().                                                             *)

StartRun(j) ==
    /\ ~sending[j] /\ left[j] = {}
    /\ left' = [left EXCEPT ![j] = Wanted[j]]
    /\ UNCHANGED <<ttl, sending, key, sink, delivered, faults, historyVars>>

\* An exception leaves the job's loop: its other alerts are not dispatched.
AbandonRun(j) == left' = [left EXCEPT ![j] = {}]

Suppress(j, k) ==
    /\ ~sending[j] /\ k \in left[j]
    /\ Held(k)
    /\ left' = [left EXCEPT ![j] = @ \ {k}]
    /\ UNCHANGED <<ttl, sending, key, sink, delivered, faults, historyVars>>

Claim(j, k) ==
    /\ ~sending[j] /\ k \in left[j]
    /\ SetKey(k)
    /\ left' = [left EXCEPT ![j] = @ \ {k}]
    /\ sending' = [sending EXCEPT ![j] = TRUE]
    /\ key' = [key EXCEPT ![j] = k]
    /\ sink' = [sink EXCEPT ![j] = 1]
    /\ delivered' = [delivered EXCEPT ![j] = FALSE]
    /\ heard' = heard \ {k}
    /\ stranded' = stranded \ {k}
    /\ UNCHANGED <<faults, since>>

\* The store does not answer.  It may have set the key all the same.
ClaimRaises(j, k) ==
    /\ ~sending[j] /\ k \in left[j]
    /\ Fault
    /\ AbandonRun(j)
    /\ \/ UNCHANGED <<ttl, heard, stranded>>
       \/ /\ SetKey(k)
          /\ heard' = heard \ {k}
          /\ stranded' = stranded \cup {k}
    /\ UNCHANGED <<sending, key, sink, delivered, since>>

AtSink(j) == sending[j] /\ sink[j] <= Len(Sinks)

NextSink(j) ==
    /\ sink' = [sink EXCEPT ![j] = @ + 1]
    /\ UNCHANGED <<ttl, left, sending, key, stranded>>

\* No token or url: False, and not a failure.
SkipSink(j) ==
    /\ AtSink(j) /\ Sinks[sink[j]] \notin configured
    /\ NextSink(j)
    /\ UNCHANGED <<delivered, faults, since, heard>>

\* Slip: the last sink's answer overwrites any_delivered.
SinkLosesForgetting(j) ==
    /\ AtSink(j) /\ Sinks[sink[j]] \in configured
    /\ Fault
    /\ NextSink(j)
    /\ delivered' = [delivered EXCEPT ![j] = FALSE]
    /\ UNCHANGED <<since, heard>>

SinkTakes(j) ==
    /\ AtSink(j) /\ Sinks[sink[j]] \in configured
    /\ NextSink(j)
    /\ delivered' = [delivered EXCEPT ![j] = TRUE]
    /\ since' = [since EXCEPT ![key[j]] = 0]
    /\ heard' = heard \cup {key[j]}
    /\ UNCHANGED faults

SinkLoses(j) ==
    /\ AtSink(j) /\ Sinks[sink[j]] \in configured
    /\ Fault
    /\ NextSink(j)
    /\ UNCHANGED <<delivered, since, heard>>

\* The channel got the alert and its answer came too late or not at all.
SinkTakesUnconfirmed(j) ==
    /\ AtSink(j) /\ Sinks[sink[j]] \in configured
    /\ Fault
    /\ NextSink(j)
    /\ heard' = heard \cup {key[j]}
    /\ UNCHANGED <<delivered, since>>

ReachedNone(j) == configured # {} /\ ~delivered[j]

Finished(j) ==
    /\ sending[j] /\ sink[j] > Len(Sinks)
    /\ sending' = [sending EXCEPT ![j] = FALSE]
    /\ UNCHANGED <<key, sink, delivered, since, heard>>

KeepClaim(j) ==
    /\ Finished(j)
    /\ ~ReachedNone(j)
    /\ UNCHANGED <<ttl, left, faults, stranded>>

Release(j) ==
    /\ Finished(j)
    /\ ReachedNone(j)
    /\ DeleteKey(key[j])
    /\ UNCHANGED <<left, faults, stranded>>

ReleaseRaises(j) ==
    /\ Finished(j)
    /\ ReachedNone(j)
    /\ Fault
    /\ AbandonRun(j)
    /\ stranded' = stranded \cup {key[j]}
    /\ UNCHANGED ttl

\* The process dies or is stopped; CancelledError passes dispatch's handlers by.
Crash ==
    /\ Fault
    /\ left' = [j \in Jobs |-> {}]
    /\ sending' = [j \in Jobs |-> FALSE]
    /\ stranded' = stranded \cup {key[j] : j \in {i \in Jobs : sending[i]}}
    /\ UNCHANGED <<ttl, key, sink, delivered, configured, since, heard>>

Sooner(n) == IF n > 0 THEN n - 1 ELSE 0
Later(n) == IF n < TTL THEN n + 1 ELSE n

\* Slip: the key is set without an expiry.
ExpireNever == UNCHANGED ttl

Expire == ttl' = [k \in Keys |-> Sooner(ttl[k])]

Tick ==
    /\ \A j \in Jobs : ~sending[j]
    /\ Expire
    /\ since' = [k \in Keys |-> Later(since[k])]
    /\ UNCHANGED <<jobVars, configured, faults, heard, stranded>>

-----------------------------------------------------------------------------

Step(j) ==
    /\ \/ StartRun(j)
       \/ \E k \in Keys : Suppress(j, k) \/ Claim(j, k)
       \/ SkipSink(j) \/ SinkTakes(j)
       \/ KeepClaim(j) \/ Release(j)
    /\ UNCHANGED configured

Failure(j) ==
    /\ \/ \E k \in Keys : ClaimRaises(j, k)
       \/ SinkLoses(j) \/ SinkTakesUnconfirmed(j)
       \/ ReleaseRaises(j)
    /\ UNCHANGED configured

Next ==
    \/ \E j \in Jobs : Step(j) \/ Failure(j)
    \/ Crash
    \/ Tick

Spec == Init /\ [][Next]_vars

\* Jobs are scheduled again and again, no await lasts for ever, time passes.
FairSpec ==
    /\ Spec
    /\ \A j \in Jobs : WF_vars(Step(j))
    /\ SF_vars(Tick)

-----------------------------------------------------------------------------
(* Properties.                                                             *)

(* SET NX keeps the fan-outs of one key apart (RedisIdempotencyStore.claim *)
(* in AlertDispatcher.dispatch): no two jobs send the same alert at once,  *)
(* and whoever sends holds the key.                                        *)
OneSenderPerKey ==
    \A i, j \in Jobs, k \in Keys :
        Dispatching(i, k) => /\ Held(k)
                             /\ Dispatching(j, k) => i = j

(* A confirmed delivery is protected for the whole life of its claim, also *)
(* when another channel failed, the process died or another job came by    *)
(* (dispatch: "partial delivery keeps the claim").                         *)
DeliveredStaysClaimed ==
    \A k \in Keys : since[k] < TTL => ttl[k] + since[k] = TTL

(* No claim outlives a failed dispatch without a cause: a key that is held *)
(* and not being sent reached a channel, or there is no channel, or the    *)
(* store or the process failed under it (the release of dispatch).         *)
ClaimHasCause ==
    \A k \in Keys :
        /\ Held(k)
        /\ \A j \in Jobs : ~Dispatching(j, k)
        => k \in heard \/ k \in stranded \/ configured = {}

(* Nothing is lost for good: after finitely many failures an alert that    *)
(* some job keeps dispatching keeps reaching a channel, even when a crash  *)
(* stranded its claim, because the claim expires.                          *)
AlertKeepsArriving ==
    configured # {} =>
        \A k \in UNION {Wanted[j] : j \in Jobs} : []<>(k \in heard)

(* The dispatcher implements the quiet period it promises.                 *)
Quiet == INSTANCE QuietPeriod WITH Period <- TTL
ImplementsQuietPeriod == Quiet!Spec

=============================================================================
