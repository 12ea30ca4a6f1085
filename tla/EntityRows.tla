------------------------------ MODULE EntityRows ------------------------------
(***************************************************************************)
(* Getting or creating the rows that odds and picks hang on: sport,        *)
(* league, team, event and model version (app/storage/repositories.py).    *)
(* Several jobs of the process write at once, each in a transaction of its *)
(* own with one savepoint per event: look the row up, insert it unless it  *)
(* is there, look again.                                                   *)
(*                                                                         *)
(* External, as used here: PostgreSQL at READ COMMITTED, whose INSERT ..   *)
(* ON CONFLICT DO NOTHING waits for the transaction that holds the key.    *)
(***************************************************************************)
EXTENDS Integers, Sequences, FiniteSets

CONSTANTS Writers,      \* the jobs that write: the poll, the captures
          Teams,        \* what the rows stand for
          Spellings,    \* the ways sources write one of them: case, blanks, a country left out
          MaxInserts    \* bound: rows inserted

Committed == "committed"

ASSUME EntityAssumption == MaxInserts \in Nat /\ Committed \notin Writers

VARIABLES rows,         \* the table
          job,          \* what each writer is doing
          referenced,   \* the ids that committed rows of other tables hold
          inserts

entityVars == <<rows, job, referenced, inserts>>

\* Slip: a name is looked up and stored as the source wrote it.
SlipKey(team, spelling) == <<team, spelling>>

\* The unique key of a row: names are stripped and lowered, a missing country is an empty one.
Key(team, spelling) == <<team, "normal">>

\* Slip: a transaction that reads what was committed when it began.
SlipVisible(w, key) ==
  {r \in rows : r.key = key /\ (r.by = w \/ (r.by = Committed /\ r.id <= job[w].began))}

\* What a statement of w sees: committed rows and its own.
Visible(w, key) == {r \in rows : r.key = key /\ r.by \in {Committed, w}}

Idle == [step |-> "idle", todo |-> <<>>, held |-> {}, kept |-> {}, began |-> 0]

EntityInit ==
  /\ rows = {} /\ referenced = {} /\ inserts = 0
  /\ job = [w \in Writers |-> Idle]

Wanted(w) == Key(Head(job[w].todo)[1], Head(job[w].todo)[2])

\* The name at the head is resolved.
Resolve(w, r) ==
  job' = [job EXCEPT ![w].held = @ \cup {r.id}, ![w].todo = Tail(@), ![w].step = "lookup"]

\* An event's savepoint opens; its two teams are to be resolved, in their order.
BeginEvent(w) ==
  /\ job[w].step \in {"idle", "between"}
  /\ \E home, away \in Teams, s, u \in Spellings :
       /\ home # away
       /\ job' = [job EXCEPT ![w].todo = <<<<home, s>>, <<away, u>>>>, ![w].step = "lookup",
                             ![w].began = IF job[w].step = "idle" THEN inserts ELSE @]
  /\ UNCHANGED <<rows, referenced, inserts>>

\* The first SELECT
Lookup(w) ==
  /\ job[w].step = "lookup" /\ job[w].todo # <<>>
  /\ IF Visible(w, Wanted(w)) = {} THEN job' = [job EXCEPT ![w].step = "insert"]
     ELSE \E r \in Visible(w, Wanted(w)) : Resolve(w, r)
  /\ UNCHANGED <<rows, referenced, inserts>>

\* INSERT .. ON CONFLICT DO NOTHING; while another transaction holds the key, it waits.
Insert(w) ==
  /\ job[w].step = "insert"
  /\ LET holders == {r \in rows : r.key = Wanted(w)}
     IN  /\ \A r \in holders : r.by \in {Committed, w}
         /\ IF holders # {} THEN UNCHANGED <<rows, inserts>>
            ELSE /\ inserts < MaxInserts
                 /\ inserts' = inserts + 1
                 /\ rows' = rows \cup {[id |-> inserts + 1, team |-> Head(job[w].todo)[1],
                                        key |-> Wanted(w), by |-> w, open |-> TRUE]}
  /\ job' = [job EXCEPT ![w].step = "reread"]
  /\ UNCHANGED referenced

\* The second SELECT; without a row the writer gives up with an error.
Reread(w) ==
  /\ job[w].step = "reread"
  /\ IF Visible(w, Wanted(w)) = {} THEN job' = [job EXCEPT ![w].step = "unresolved"]
     ELSE \E r \in Visible(w, Wanted(w)) : Resolve(w, r)
  /\ UNCHANGED <<rows, referenced, inserts>>

\* Both teams are known: the event's rows are written and its savepoint is released.
EndEvent(w) ==
  /\ job[w].step = "lookup" /\ job[w].todo = <<>>
  /\ job' = [job EXCEPT ![w].step = "between", ![w].kept = @ \cup job[w].held, ![w].held = {}]
  /\ rows' = {IF r.by = w THEN [r EXCEPT !.open = FALSE] ELSE r : r \in rows}
  /\ UNCHANGED <<referenced, inserts>>

\* Anything fails within an event: an overlong value, two transactions that wait for each other.
\* The savepoint is rolled back and the transaction goes on without the event.
SkipEvent(w) ==
  /\ job[w].step \in {"lookup", "insert", "reread", "unresolved"}
  /\ rows' = {r \in rows : ~(r.by = w /\ r.open)}
  /\ job' = [job EXCEPT ![w].step = "between", ![w].todo = <<>>, ![w].held = {}]
  /\ UNCHANGED <<referenced, inserts>>

CommitAll(w) ==
  /\ job[w].step = "between"
  /\ rows' = {IF r.by = w THEN [r EXCEPT !.by = Committed] ELSE r : r \in rows}
  /\ referenced' = referenced \cup job[w].kept
  /\ job' = [job EXCEPT ![w] = Idle]
  /\ UNCHANGED inserts

\* The connection or the process is lost.
TransactionLost(w) ==
  /\ job[w].step # "idle"
  /\ rows' = {r \in rows : r.by # w}
  /\ job' = [job EXCEPT ![w] = Idle]
  /\ UNCHANGED <<referenced, inserts>>

EntityNext ==
  \E w \in Writers :
    \/ BeginEvent(w) \/ Lookup(w) \/ Insert(w) \/ Reread(w) \/ EndEvent(w) \/ SkipEvent(w)
    \/ CommitAll(w) \/ TransactionLost(w)

EntitySpec == EntityInit /\ [][EntityNext]_entityVars

-----------------------------------------------------------------------------
\* Types
EntityTypeOK ==
  /\ \A r \in rows : r.id \in 1 .. inserts /\ r.by \in Writers \cup {Committed}
  /\ \A w \in Writers : job[w].step \in {"idle", "lookup", "insert", "reread", "unresolved", "between"}

\* However writers and failures interleave, one team has one row, whatever the spelling; the second
\* SELECT always finds it, which is what the RuntimeError of every helper asserts; and a row that
\* others refer to is there, not one that another transaction took back.
TeamIsOneRow ==
  /\ \A r, q \in rows : r.by = Committed /\ q.by = Committed /\ r.team = q.team => r = q
  /\ \A w \in Writers : job[w].step # "unresolved"
  /\ referenced \subseteq {r.id : r \in {q \in rows : q.by = Committed}}
=============================================================================
