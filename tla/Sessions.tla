------------------------------ MODULE Sessions ------------------------------
(***************************************************************************)
(* Who may call the control plane: API keys and their revocation, login,   *)
(* logout, and the authentication every handler begins with (authed), as   *)
(* concurrent requests over Postgres. A row that a transaction has updated *)
(* is locked until the transaction ends, and its new value is seen then.   *)
(* Each request runs once, and they are numbered as they arrive; the       *)
(* session of a login has the number of the request.                       *)
(***************************************************************************)
EXTENDS Integers

CONSTANTS
  MaxRequests,   \* bound: requests
  Keys,
  Admin,         \* keys with role admin
  Browser,       \* keys with role admin or app
  TenantOf,      \* per key
  FirstKey,      \* the key of a session from before
  Idle,          \* sessionIdle
  Absolute,      \* sessionAbsolute
  MaxTime,       \* bound: the clock
  None

ASSUME SessionsAssumption ==
  /\ Admin \subseteq Browser /\ Browser \subseteq Keys /\ FirstKey \in Browser
  /\ MaxRequests \in Nat /\ Idle \in Nat /\ Absolute \in Nat /\ MaxTime \in Nat

Requests == 1..MaxRequests
FirstSession == 0
SessionIDs == 0..MaxRequests
SessionRow == [key : Keys, lastSeen : 0..MaxTime, expires : 0..(MaxTime + Absolute),
               revoked : BOOLEAN]

ASSUME NamesAssumption ==
  /\ Keys \cap SessionIDs = {}
  /\ None \notin Keys \cup SessionIDs \cup SessionRow

Kinds == {"login", "use", "logout", "revoke"}

VARIABLES
  now,           \* the clock of the control plane
  revokedKeys,   \* api_keys with a revoked_at
  session,       \* sessions: a row, or None
  logged,        \* "session_revoked" and "key_revoked" rows of the audit ledger
  lock,          \* rows locked by a transaction, and whose it is
  pc, kind, cred, at, \* a request: place, what it asks for, as whom, its s.now()
  late,          \* history: its credential was revoked when it arrived
  swallowed,     \* history: its UPDATE of the session failed, and it went on
  used, born     \* history: per session, last admitted request and login

rowVars == <<revokedKeys, session, logged, lock>>
requestVars == <<pc, kind, cred, at, late, swallowed>>
vars == <<now, rowVars, requestVars, used, born>>

Row(k, t) == [key |-> k, lastSeen |-> t, expires |-> t + Absolute, revoked |-> FALSE]

Init ==
  /\ now = 0 /\ revokedKeys = {}
  /\ session = [s \in SessionIDs |-> IF s = FirstSession THEN Row(FirstKey, 0) ELSE None]
  /\ logged = [x \in SessionIDs \cup Keys |-> 0]
  /\ lock = [x \in SessionIDs \cup Keys |-> None]
  /\ pc = [r \in Requests |-> "new"]
  /\ kind = [r \in Requests |-> "use"]
  /\ cred = [r \in Requests |-> None]
  /\ at = [r \in Requests |-> 0]
  /\ late = [r \in Requests |-> FALSE]
  /\ swallowed = [r \in Requests |-> FALSE]
  /\ used = [s \in SessionIDs |-> 0] /\ born = [s \in SessionIDs |-> 0]

(* The key behind a credential, and whether it still counts.               *)
KeyOf(c) == IF c \in Keys THEN c ELSE session[c].key
Revoked(c) ==
  \/ KeyOf(c) \in revokedKeys
  \/ c \in SessionIDs /\ session[c].revoked

-----------------------------------------------------------------------------
Tick ==
  /\ now < MaxTime
  /\ now' = now + 1
  /\ UNCHANGED <<rowVars, requestVars, used, born>>

(* A client has its keys, and the cookie of a login that was answered.     *)
Credentials == Keys \cup {FirstSession} \cup {r \in Requests : kind[r] = "login" /\ pc[r] = "ok"}

Arrive(r) ==
  /\ pc[r] = "new" /\ \A q \in 1..(r - 1) : pc[q] # "new"
  /\ \E k \in Kinds, c \in Credentials :
       /\ k = "login" => c \in Keys
       /\ kind' = [kind EXCEPT ![r] = k]
       /\ cred' = [cred EXCEPT ![r] = c]
       /\ late' = [late EXCEPT ![r] = Revoked(c)]
  /\ at' = [at EXCEPT ![r] = now]
  /\ pc' = [pc EXCEPT ![r] = "auth"]
  /\ UNCHANGED <<now, rowVars, swallowed, used, born>>

Goto(r, place) == pc' = [pc EXCEPT ![r] = place]

(* The answer. Only the properties look at an answered request, and only   *)
(* at a login or a logout that was answered well.                          *)
Answer(r, place) ==
  /\ Goto(r, place)
  /\ at' = [at EXCEPT ![r] = 0]
  /\ late' = [late EXCEPT ![r] = @ /\ place = "ok"]
  /\ IF place = "ok" /\ (kind[r] = "login" \/ (kind[r] = "logout" /\ cred[r] \in SessionIDs))
     THEN UNCHANGED <<kind, cred>>
     ELSE kind' = [kind EXCEPT ![r] = "use"] /\ cred' = [cred EXCEPT ![r] = None]
GoOn(r, place) == Goto(r, place) /\ UNCHANGED <<kind, cred, at, late>>

(* keys.Authenticate, of a request with an API key or of a login.          *)
AuthenticateKey(r) ==
  /\ pc[r] = "auth" /\ cred[r] \in Keys
  /\ \/ /\ cred[r] \in revokedKeys \/ (kind[r] = "login" /\ cred[r] \notin Browser)
        /\ Answer(r, "error")
     \/ /\ cred[r] \notin revokedKeys /\ kind[r] # "login"
        /\ GoOn(r, "serve")
     \/ /\ cred[r] \in Browser \ revokedKeys /\ kind[r] = "login"
        /\ Goto(r, "insert") /\ at' = [at EXCEPT ![r] = now] /\ UNCHANGED <<kind, cred, late>>
  /\ UNCHANGED <<now, rowVars, swallowed, used, born>>

(* Mutant of authenticate: the key of the session is not looked at.        *)
authenticateSessionOnly(r) ==
  LET s == cred[r] IN
  /\ pc[r] = "auth" /\ s \in SessionIDs
  /\ IF /\ ~session[s].revoked
        /\ session[s].expires > at[r]
        /\ at[r] - session[s].lastSeen <= Idle
     THEN GoOn(r, "touch") /\ used' = [used EXCEPT ![s] = IF at[r] > @ THEN at[r] ELSE @]
     ELSE Answer(r, "error") /\ UNCHANGED used
  /\ UNCHANGED <<now, rowVars, swallowed, born>>

(* Mutant of authenticate: the session is refreshed before it is judged.   *)
authenticateTouchFirst(r) ==
  LET s == cred[r] IN
  /\ pc[r] = "auth" /\ s \in SessionIDs
  /\ session' = [session EXCEPT ![s].lastSeen = at[r]]
  /\ IF /\ ~Revoked(s)
        /\ session[s].expires > at[r]
        /\ at[r] - session[s].lastSeen <= Idle
     THEN GoOn(r, "touch") /\ used' = [used EXCEPT ![s] = IF at[r] > @ THEN at[r] ELSE @]
     ELSE Answer(r, "error") /\ UNCHANGED used
  /\ UNCHANGED <<now, revokedKeys, logged, lock, swallowed, born>>

(* authenticate with a cookie: one SELECT of the session and its key,      *)
(* judged by the time read before it.                                      *)
authenticate(r) ==
  LET s == cred[r] IN
  /\ pc[r] = "auth" /\ s \in SessionIDs
  /\ IF /\ ~Revoked(s)
        /\ session[s].expires > at[r]
        /\ at[r] - session[s].lastSeen <= Idle
     THEN GoOn(r, "touch") /\ used' = [used EXCEPT ![s] = IF at[r] > @ THEN at[r] ELSE @]
     ELSE Answer(r, "error") /\ UNCHANGED used
  /\ UNCHANGED <<now, rowVars, swallowed, born>>

(* The UPDATE of last_seen_at; its error is ignored.                       *)
Touch(r) ==
  LET s == cred[r] IN
  /\ pc[r] = "touch" /\ lock[s] = None
  /\ GoOn(r, "serve")
  /\ session' = IF session[s].revoked THEN session
                ELSE [session EXCEPT ![s].lastSeen = at[r]]
  /\ UNCHANGED <<now, revokedKeys, logged, lock, swallowed, used, born>>

TouchFails(r) ==
  /\ pc[r] = "touch"
  /\ GoOn(r, "serve")
  /\ UNCHANGED <<now, rowVars, swallowed, used, born>>

(* roleAllowed.                                                            *)
RoleAllowed(r) == KeyOf(cred[r]) \in (IF kind[r] = "revoke" THEN Admin ELSE Browser)

(* The role does not do, or requireCookieCSRF finds a POST or a DELETE     *)
(* with the cookie alone.                                                  *)
Forbid(r) ==
  /\ pc[r] = "serve"
  /\ \/ ~RoleAllowed(r)
     \/ cred[r] \in SessionIDs /\ kind[r] \in {"logout", "revoke"}
  /\ Answer(r, "error")
  /\ UNCHANGED <<now, rowVars, swallowed, used, born>>

(* An error of the query that authenticates is answered 401, and one of    *)
(* the handler's first statement 503.                                      *)
Unavailable(r) ==
  /\ pc[r] \in {"auth", "serve"}
  /\ Answer(r, "error")
  /\ UNCHANGED <<now, rowVars, swallowed, used, born>>

Serving(r, k) == pc[r] = "serve" /\ kind[r] = k /\ RoleAllowed(r)

(* A handler that only reads, events among them, whose connection then     *)
(* belongs to the hub; logout without a cookie is one, too.                *)
Use(r) ==
  /\ Serving(r, "use") \/ (Serving(r, "logout") /\ cred[r] \in Keys)
  /\ Answer(r, "ok")
  /\ UNCHANGED <<now, rowVars, swallowed, used, born>>

-----------------------------------------------------------------------------
(* login's transaction: the row and "session_created". It commits, or ends *)
(* in an error, committed or not.                                          *)
LoginCommit(r) ==
  /\ pc[r] = "insert"
  /\ \/ /\ session' = [session EXCEPT ![r] = Row(cred[r], at[r])]
        /\ used' = [used EXCEPT ![r] = at[r]] /\ born' = [born EXCEPT ![r] = at[r]]
        /\ Answer(r, "ok") \/ Answer(r, "error")
     \/ /\ Answer(r, "error")
        /\ UNCHANGED <<session, used, born>>
  /\ UNCHANGED <<now, revokedKeys, logged, lock, swallowed>>

(* Mutant of LogoutUpdate: a locked row is taken for a revoked one.        *)
LogoutUpdateSkips(r) ==
  LET s == cred[r] IN
  /\ Serving(r, "logout") /\ s \in SessionIDs
  /\ IF session[s].revoked \/ lock[s] # None
     THEN Answer(r, "ok") /\ UNCHANGED lock
     ELSE GoOn(r, "commit") /\ lock' = [lock EXCEPT ![s] = r]
  /\ UNCHANGED <<now, revokedKeys, session, logged, swallowed, used, born>>

(* logout: the UPDATE of the row that is not revoked yet. No row is 204.   *)
LogoutUpdate(r) ==
  LET s == cred[r] IN
  /\ Serving(r, "logout") /\ s \in SessionIDs /\ lock[s] = None
  /\ IF session[s].revoked
     THEN Answer(r, "ok") /\ UNCHANGED lock
     ELSE GoOn(r, "commit") /\ lock' = [lock EXCEPT ![s] = r]
  /\ UNCHANGED <<now, revokedKeys, session, logged, swallowed, used, born>>

(* Any error of the UPDATE is taken for "no row", and answered 204.        *)
LogoutUpdateFails(r) ==
  /\ Serving(r, "logout") /\ cred[r] \in SessionIDs
  /\ Answer(r, "ok")
  /\ swallowed' = [swallowed EXCEPT ![r] = TRUE]
  /\ UNCHANGED <<now, rowVars, used, born>>

(* "session_revoked" and the commit, with its answer lost or not; or an    *)
(* error and the rollback.                                                 *)
LogoutCommit(r) ==
  LET s == cred[r] IN
  /\ pc[r] = "commit" /\ kind[r] = "logout"
  /\ lock' = [lock EXCEPT ![s] = None]
  /\ \/ /\ session' = [session EXCEPT ![s].revoked = TRUE]
        /\ logged' = [logged EXCEPT ![s] = @ + 1]
        /\ Answer(r, "ok") \/ Answer(r, "error")
     \/ /\ Answer(r, "error")
        /\ UNCHANGED <<session, logged>>
  /\ UNCHANGED <<now, revokedKeys, swallowed, used, born>>

Target(r) == CHOOSE k \in Keys : lock[k] = r

(* revokeKey of a key of the tenant. No row is 404.                        *)
RevokeUpdate(r) ==
  /\ Serving(r, "revoke")
  /\ \E k \in Keys :
       /\ TenantOf[k] = TenantOf[KeyOf(cred[r])] /\ lock[k] = None
       /\ IF k \in revokedKeys
          THEN Answer(r, "error") /\ UNCHANGED lock
          ELSE GoOn(r, "commit") /\ lock' = [lock EXCEPT ![k] = r]
  /\ UNCHANGED <<now, revokedKeys, session, logged, swallowed, used, born>>

(* "key_revoked" and the commit, or the rollback.                          *)
RevokeCommit(r) ==
  /\ pc[r] = "commit" /\ kind[r] = "revoke"
  /\ lock' = [lock EXCEPT ![Target(r)] = None]
  /\ \/ /\ revokedKeys' = revokedKeys \cup {Target(r)}
        /\ logged' = [logged EXCEPT ![Target(r)] = @ + 1]
        /\ Answer(r, "ok") \/ Answer(r, "error")
     \/ /\ Answer(r, "error")
        /\ UNCHANGED <<revokedKeys, logged>>
  /\ UNCHANGED <<now, session, swallowed, used, born>>

(* What the control plane does for a request.                              *)
Handle(r) ==
  \/ AuthenticateKey(r) \/ authenticate(r) \/ Touch(r) \/ TouchFails(r)
  \/ Forbid(r) \/ Unavailable(r) \/ Use(r) \/ LoginCommit(r)
  \/ LogoutUpdate(r) \/ LogoutUpdateFails(r) \/ LogoutCommit(r)
  \/ RevokeUpdate(r) \/ RevokeCommit(r)

Finished ==
  /\ \A r \in Requests : pc[r] \in {"ok", "error"}
  /\ UNCHANGED vars

Next ==
  \/ Tick
  \/ \E r \in Requests : Arrive(r) \/ Handle(r)
  \/ Finished

Spec == Init /\ [][Next]_vars

-----------------------------------------------------------------------------
Places == {"new", "auth", "touch", "serve", "insert", "commit", "ok", "error"}

TypeOK ==
  /\ now \in 0..MaxTime /\ revokedKeys \subseteq Keys
  /\ session \in [SessionIDs -> SessionRow \cup {None}]
  /\ logged \in [SessionIDs \cup Keys -> Nat]
  /\ lock \in [SessionIDs \cup Keys -> Requests \cup {None}]
  /\ pc \in [Requests -> Places] /\ kind \in [Requests -> Kinds]
  /\ cred \in [Requests -> Keys \cup SessionIDs \cup {None}]
  /\ at \in [Requests -> 0..MaxTime]
  /\ late \in [Requests -> BOOLEAN] /\ swallowed \in [Requests -> BOOLEAN]
  /\ used \in [SessionIDs -> 0..MaxTime] /\ born \in [SessionIDs -> 0..MaxTime]

(* A request that arrives after its session or its key was revoked is      *)
(* refused, also with the cookie of a login that raced the revocation of   *)
(* its key and whose row was inserted after it.                            *)
RevokedIsRefused ==
  \A r \in Requests : late[r] => pc[r] = "auth"

(* A logout that was answered 204 has revoked the session, whatever other  *)
(* logouts of it were rolled back, unless the UPDATE itself failed.        *)
LogoutHolds ==
  \A r \in Requests :
    kind[r] = "logout" /\ cred[r] \in SessionIDs /\ pc[r] = "ok" /\ ~swallowed[r] =>
      session[cred[r]].revoked

(* The audit ledger has one row for each session and key that was revoked, *)
(* however many requests revoked it.                                       *)
RevocationLoggedOnce ==
  /\ \A s \in SessionIDs : session[s] # None => logged[s] = IF session[s].revoked THEN 1 ELSE 0
  /\ \A k \in Keys : logged[k] = IF k \in revokedKeys THEN 1 ELSE 0

(* A cookie is accepted only within Idle of the login or of an earlier     *)
(* accepted request of its session, and within Absolute of the login: a    *)
(* refused request does not keep a session alive, and neither does a       *)
(* request that overtakes another.                                         *)
SessionsEnd ==
  [][\A r \in Requests :
       pc[r] = "auth" /\ pc'[r] = "touch" =>
         /\ at[r] - used[cred[r]] <= Idle
         /\ at[r] - born[cred[r]] < Absolute]_vars
=============================================================================
