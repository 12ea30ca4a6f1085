-------------------------------- MODULE Access --------------------------------
(***************************************************************************)
(* The dashboard's single administrator: the first-run form that creates   *)
(* the credential, sign-in, the signed sessions and the gate in front of   *)
(* the protected routes (app/api/auth.py, app/api/routes.py, and the       *)
(* credential row of app/storage/repositories.py).                         *)
(*                                                                         *)
(* A credential is known by who created it; a session by the secret it is  *)
(* signed with and the time it ends.                                       *)
(***************************************************************************)
EXTENDS Naturals, FiniteSets

CONSTANTS Operators,    \* people at the first-run form
          SessionTTL,   \* dashboard_session_ttl_seconds
          MaxClock      \* bound: the clock

ASSUME AccessAssumption == SessionTTL \in Nat \ {0} /\ MaxClock \in Nat

VARIABLES authEnabled,  \* dashboard_auth_enabled
          envTrio,      \* whether the .env holds a credential
          row,          \* dashboard_credentials: at most one
          active,       \* _active: the credential in memory
          setup,        \* per operator, how far the request for /setup is
          sessions,     \* cookies that were issued
          admitted,     \* history: secrets of the sessions the gate let pass
          accessClock

accessVars == <<authEnabled, envTrio, row, active, setup, sessions, admitted, accessClock>>

FromEnv == "env"
Secrets == Operators \cup {FromEnv}

AccessTypeOK ==
  /\ authEnabled \in BOOLEAN /\ envTrio \in BOOLEAN
  /\ row \subseteq Operators /\ Cardinality(row) <= 1
  /\ active \subseteq Operators /\ Cardinality(active) <= 1
  /\ setup \in [Operators -> {"no", "hashing", "created", "refused"}]
  /\ sessions \subseteq [secret : Secrets, ends : 0 .. MaxClock + SessionTTL]
  /\ admitted \subseteq Secrets
  /\ accessClock \in 0 .. MaxClock

AccessInit ==
  /\ authEnabled \in BOOLEAN /\ envTrio \in BOOLEAN
  /\ row = {}
  /\ active = {}
  /\ setup = [o \in Operators |-> "no"]
  /\ sessions = {}
  /\ admitted = {}
  /\ accessClock = 0

\* _current_credentials: the one in memory, else the .env's, else none.
InForce    == IF active # {} THEN active ELSE IF envTrio THEN {FromEnv} ELSE {}
Configured == InForce # {}

\* sign_session
Issued(secret) == [secret |-> secret, ends |-> accessClock + SessionTTL]

-----------------------------------------------------------------------------
(* POST /setup: the checks and the hash, the insert, and the installation in    *)
(* memory, with another request's steps in between.                             *)

\* A password that is too short goes no further than the checks.
SetupBegin(o) ==
  /\ authEnabled /\ ~Configured
  /\ setup[o] \in {"no", "refused"}
  /\ setup' = [setup EXCEPT ![o] = "hashing"]
  /\ UNCHANGED <<authEnabled, envTrio, row, active, sessions, admitted, accessClock>>

\* Slip: the request does not ask whether its row was written.
SlipCreated(o) == TRUE

\* create_dashboard_credentials: there is no row, and the unique constraint lets the
\* first of two inserts through.
Created(o) == row = {}

SetupInsert(o) ==
  /\ setup[o] = "hashing"
  /\ row' = IF row = {} THEN {o} ELSE row
  /\ setup' = [setup EXCEPT ![o] = IF Created(o) THEN "created" ELSE "refused"]
  /\ UNCHANGED <<authEnabled, envTrio, active, sessions, admitted, accessClock>>

SetupInstall(o) ==
  /\ setup[o] = "created"
  /\ active' = {o}
  /\ sessions' = sessions \cup {Issued(o)}
  /\ setup' = [setup EXCEPT ![o] = "no"]
  /\ UNCHANGED <<authEnabled, envTrio, row, admitted, accessClock>>

-----------------------------------------------------------------------------
\* POST /login with the name and password of the credential in force; any other pair
\* is refused and changes nothing.
SignIn(secret) ==
  /\ secret \in InForce
  /\ sessions' = sessions \cup {Issued(secret)}
  /\ UNCHANGED <<authEnabled, envTrio, row, active, setup, admitted, accessClock>>

\* Slip: a session that ends now still counts, and the secret it was signed with does
\* not matter.
SlipVerified(s) == accessClock <= s.ends

\* verify_session, by the secret in force
Verified(s) == s.secret \in InForce /\ accessClock < s.ends

\* A request for a protected route, let pass by its cookie (require_dashboard_auth).
Enter(s) ==
  /\ authEnabled /\ Configured
  /\ Verified(s)
  /\ admitted' = admitted \cup {s.secret}
  /\ UNCHANGED <<authEnabled, envTrio, row, active, setup, sessions, accessClock>>

-----------------------------------------------------------------------------
\* The process starts again: requests under way are gone, cookies are not. When the
\* row cannot be read the error is logged and memory stays empty.
RestartApp(readable) ==
  /\ active' = IF readable THEN row ELSE {}
  /\ setup' = [o \in Operators |-> "no"]
  /\ admitted' = {}
  /\ UNCHANGED <<authEnabled, envTrio, row, sessions, accessClock>>

\* The operator puts a credential into the .env, or takes it out, and restarts.
EditEnv ==
  /\ envTrio' = ~envTrio
  /\ active' = row
  /\ setup' = [o \in Operators |-> "no"]
  /\ admitted' = {}
  /\ UNCHANGED <<authEnabled, row, sessions, accessClock>>

AccessTick ==
  /\ accessClock < MaxClock
  /\ accessClock' = accessClock + 1
  /\ UNCHANGED <<authEnabled, envTrio, row, active, setup, sessions, admitted>>

AccessNext ==
  \/ \E o \in Operators : SetupBegin(o) \/ SetupInsert(o) \/ SetupInstall(o)
  \/ \E secret \in Secrets : SignIn(secret)
  \/ \E s \in sessions : Enter(s)
  \/ \E readable \in BOOLEAN : RestartApp(readable)
  \/ EditEnv
  \/ AccessTick

AccessSpec == AccessInit /\ [][AccessNext]_accessVars

-----------------------------------------------------------------------------
\* Whatever races at the first-run form and whatever a restart could read, the
\* credential in memory is the row's, and since the process has started no session was
\* let pass but the row's administrator's or the .env's while there was one
\* (routes.py:565-607, auth.py:9-15).
OneAdministrator ==
  /\ active \subseteq row
  /\ admitted \subseteq row \cup (IF envTrio THEN {FromEnv} ELSE {})
===============================================================================
