--------------------------- MODULE SessionsProofs ---------------------------
(* Proofs about Sessions, for any number of requests and keys and any      *)
(* limits of a session's life.                                             *)
EXTENDS Sessions, TLAPS

USE SessionsAssumption, NamesAssumption

-----------------------------------------------------------------------------
(* A credential is a key, or a session that has a row.                     *)
Has(c) == c \in Keys \/ (c \in SessionIDs /\ session[c] # None)

(* What a request knows. The row of its own login exists only after it.    *)
Knows(r) ==
  /\ pc[r] \in {"auth", "touch", "serve", "insert", "commit"} => Has(cred[r])
  /\ pc[r] = "insert" => kind[r] = "login" /\ cred[r] \in Keys
  /\ session[r] # None => pc[r] \in {"ok", "error"}
  /\ kind[r] = "login" /\ pc[r] = "ok" => session[r] # None
  /\ kind[r] = "logout" /\ pc[r] = "ok" =>
       /\ cred[r] \in SessionIDs /\ session[cred[r]] # None
       /\ swallowed[r] \/ session[cred[r]].revoked
  /\ pc[r] = "touch" => cred[r] \in SessionIDs /\ at[r] <= used[cred[r]]
  /\ late[r] => pc[r] = "auth" /\ Revoked(cred[r])

(* What the rows are by themselves.                                        *)
RowOK(s) ==
  IF session[s] = None THEN logged[s] = 0
  ELSE /\ session[s].lastSeen <= used[s]
       /\ session[s].expires = born[s] + Absolute
       /\ logged[s] = IF session[s].revoked THEN 1 ELSE 0

KeyOK(k) == logged[k] = IF k \in revokedKeys THEN 1 ELSE 0

(* A lock belongs to a request that is about to commit, of a row that is   *)
(* not revoked yet; and such a request has its lock.                       *)
SessionLock(s) ==
  lock[s] # None =>
    /\ pc[lock[s]] = "commit" /\ kind[lock[s]] = "logout" /\ cred[lock[s]] = s
    /\ session[s] # None /\ ~session[s].revoked

KeyLock(k) ==
  lock[k] # None =>
    /\ pc[lock[k]] = "commit" /\ kind[lock[k]] = "revoke" /\ k \notin revokedKeys
    /\ \A i \in Keys : lock[i] = lock[k] => i = k

Commits(r) ==
  pc[r] = "commit" =>
    \/ kind[r] = "logout" /\ cred[r] \in SessionIDs /\ lock[cred[r]] = r
    \/ kind[r] = "revoke" /\ \E k \in Keys : lock[k] = r

LockInv ==
  /\ \A s \in SessionIDs : SessionLock(s)
  /\ \A k \in Keys : KeyLock(k)
  /\ \A r \in Requests : Commits(r)

SInv ==
  /\ TypeOK
  /\ session[FirstSession] # None
  /\ \A r \in Requests : Knows(r)
  /\ \A s \in SessionIDs : RowOK(s)
  /\ \A k \in Keys : KeyOK(k)
  /\ LockInv

-----------------------------------------------------------------------------
(* What a step of request r leaves to the others.                          *)
Only(r) ==
  \A q \in Requests \ {r} :
    /\ pc'[q] = pc[q] /\ kind'[q] = kind[q] /\ cred'[q] = cred[q] /\ at'[q] = at[q]
    /\ late'[q] = late[q] /\ swallowed'[q] = swallowed[q]

Grow(r) ==
  /\ revokedKeys \subseteq revokedKeys'
  /\ \A s \in SessionIDs :
       session[s] # None =>
         /\ session'[s] # None /\ session'[s].key = session[s].key
         /\ session[s].revoked => session'[s].revoked
         /\ used[s] <= used'[s]
  /\ \A q \in Requests \ {r} : session[q] = None => session'[q] = None

(* The number of a request is also that of its session.                    *)
LEMMA IDs ==
  /\ Requests \subseteq SessionIDs /\ None \notin Requests
  /\ FirstSession \in SessionIDs /\ FirstSession \notin Requests
  BY SMT DEF Requests, SessionIDs, FirstSession

(* A row and a revocation are not taken back, so what a request knows      *)
(* stays so while others move.                                             *)
LEMMA OthersKnow ==
  ASSUME SInv, TypeOK', NEW r \in Requests, Only(r), Grow(r), NEW q \in Requests \ {r}
  PROVE  Knows(q)'
  <1>1. Knows(q) /\ q \in SessionIDs
    BY IDs, Zenon DEF SInv
  <1>2. Has(cred[q]) => Has(cred[q])'
    BY Zenon DEF Has, Only, Grow
  <1>3. cred[q] \in Keys \cup SessionIDs /\ Has(cred[q]) /\ Revoked(cred[q]) => Revoked(cred[q])'
    BY Zenon DEF Has, Revoked, KeyOf, Only, Grow
  <1>4. cred[q] \in SessionIDs /\ session[cred[q]] # None =>
           used[cred[q]] \in Int /\ used'[cred[q]] \in Int /\ used[cred[q]] <= used'[cred[q]]
    BY SMT DEF Grow, TypeOK, SInv
  <1>5. pc[q] = "touch" => at[q] <= used'[cred[q]]
    BY <1>1, <1>4, SMT DEF Knows, Has, SInv, TypeOK
  <1> QED
    BY <1>1, <1>2, <1>3, <1>5, Zenon DEF Knows, Only, Grow, Has

(* The locks are not touched by a request that neither comes to nor leaves *)
(* its commit.                                                             *)
LEMMA LocksStay ==
  ASSUME SInv, NEW r \in Requests, Only(r), UNCHANGED <<lock, revokedKeys>>,
         pc[r] # "commit", pc'[r] # "commit",
         \A s \in SessionIDs : session[s] # None =>
           session'[s] # None /\ session'[s].revoked = session[s].revoked
  PROVE  LockInv'
  <1>1. LockInv /\ lock \in [SessionIDs \cup Keys -> Requests \cup {None}]
    BY Zenon DEF SInv, TypeOK
  <1>2. ASSUME NEW s \in SessionIDs PROVE SessionLock(s)'
    <2>1. SessionLock(s) /\ (lock[s] # None => lock[s] \in Requests)
      BY <1>1, Zenon DEF LockInv
    <2>2. lock[s] # None => lock[s] \in Requests \ {r}
      BY <2>1, Zenon DEF SessionLock
    <2> QED
      BY <2>1, <2>2, Zenon DEF SessionLock, Only
  <1>3. ASSUME NEW k \in Keys PROVE KeyLock(k)'
    <2>1. lock[k] # None => KeyLock(k) /\ lock[k] \in Requests \ {r}
      BY <1>1, Zenon DEF LockInv, KeyLock
    <2> QED
      BY <2>1, Zenon DEF KeyLock, Only
  <1>4. \A q \in Requests : Commits(q)'
    BY <1>1, Zenon DEF LockInv, Commits, Only
  <1> QED
    BY <1>2, <1>3, <1>4 DEF LockInv

(* The parts of SInv after a step.                                         *)
LEMMA Assembled ==
  ASSUME SInv, TypeOK', NEW r \in Requests, Only(r), Grow(r), Knows(r)', LockInv',
         \A s \in SessionIDs : RowOK(s)', \A k \in Keys : KeyOK(k)'
  PROVE  SInv'
  <1>1. session'[FirstSession] # None
    BY IDs, Zenon DEF SInv, Grow
  <1> QED
    BY <1>1, OthersKnow, Zenon DEF SInv

(* A step of a request that writes no row, but may put a session to use.   *)
Reads(r) ==
  /\ UNCHANGED <<now, rowVars, born>>
  /\ used' \in [SessionIDs -> 0..MaxTime] /\ \A s \in SessionIDs : used[s] <= used'[s]

(* Such a step keeps SInv if the request knows what it must.               *)
LEMMA ReadsKeep ==
  ASSUME SInv, NEW r \in Requests, Only(r), Reads(r), TypeOK', Knows(r)',
         pc[r] # "commit", pc'[r] # "commit"
  PROVE  SInv'
  <1>1. TypeOK /\ UNCHANGED <<revokedKeys, session, logged, lock, born>>
    BY Zenon DEF SInv, Reads, rowVars
  <1>2. Grow(r)
    BY <1>1, Zenon DEF Grow, Reads
  <1>3. LockInv'
    BY <1>1, LocksStay, Zenon
  <1>4. ASSUME NEW s \in SessionIDs PROVE RowOK(s)'
    <2>1. session[s] # None => session[s].lastSeen \in Int /\ used[s] \in Int /\ used'[s] \in Int
      BY <1>1, SMT DEF TypeOK, SessionRow, Reads
    <2>2. session[s] # None /\ session[s].lastSeen <= used[s] => session[s].lastSeen <= used'[s]
      BY <2>1, SMT DEF Reads
    <2> QED
      BY <1>1, <2>2, Zenon DEF SInv, RowOK
  <1>5. \A k \in Keys : KeyOK(k)'
    BY <1>1, Zenon DEF SInv, KeyOK
  <1> QED
    BY <1>2, <1>3, <1>4, <1>5, Assembled, Zenon

-----------------------------------------------------------------------------
(* How the registers of a request move.                                    *)
Regs ==
  /\ pc \in [Requests -> Places] /\ kind \in [Requests -> Kinds]
  /\ cred \in [Requests -> Keys \cup SessionIDs \cup {None}]
  /\ at \in [Requests -> 0..MaxTime]
  /\ late \in [Requests -> BOOLEAN]

OnlyRegs(r) ==
  \A q \in Requests \ {r} :
    /\ pc'[q] = pc[q] /\ kind'[q] = kind[q] /\ cred'[q] = cred[q] /\ at'[q] = at[q]
    /\ late'[q] = late[q]

(* Answer moves one request, and forgets what no property looks at.        *)
LEMMA AnswerMoves ==
  ASSUME Regs, NEW r \in Requests, NEW place \in {"ok", "error"}, Answer(r, place)
  PROVE  /\ Regs' /\ OnlyRegs(r) /\ pc'[r] = place
         /\ late'[r] => late[r] /\ place = "ok"
         /\ place = "ok" /\ (kind[r] = "login" \/ (kind[r] = "logout" /\ cred[r] \in SessionIDs))
              => kind'[r] = kind[r] /\ cred'[r] = cred[r]
         /\ ~(place = "ok" /\ (kind[r] = "login" \/ (kind[r] = "logout" /\ cred[r] \in SessionIDs)))
              => kind'[r] = "use"
  <1>1. 0 \in 0..MaxTime
    BY SMT
  <1>2. /\ pc' = [pc EXCEPT ![r] = place] /\ at' = [at EXCEPT ![r] = 0]
        /\ late' = [late EXCEPT ![r] = late[r] /\ place = "ok"]
    BY Zenon DEF Answer, Goto
  <1>3. pc' \in [Requests -> Places] /\ at' \in [Requests -> 0..MaxTime]
    BY <1>1, <1>2, Zenon DEF Regs, Places
  <1>4. late' \in [Requests -> BOOLEAN] /\ (late'[r] => late[r] /\ place = "ok")
    BY <1>2, Zenon DEF Regs
  <1>5. CASE place = "ok" /\ (kind[r] = "login" \/ (kind[r] = "logout" /\ cred[r] \in SessionIDs))
    <2>1. kind' = kind /\ cred' = cred
      BY <1>5, Zenon DEF Answer
    <2> QED
      BY <1>2, <1>3, <1>4, <1>5, <2>1, Zenon DEF Regs, OnlyRegs
  <1>6. CASE ~(place = "ok" /\ (kind[r] = "login" \/ (kind[r] = "logout" /\ cred[r] \in SessionIDs)))
    <2>1. kind' = [kind EXCEPT ![r] = "use"] /\ cred' = [cred EXCEPT ![r] = None]
      BY <1>6, Zenon DEF Answer
    <2>2. kind' \in [Requests -> Kinds] /\ cred' \in [Requests -> Keys \cup SessionIDs \cup {None}]
      BY <2>1, Zenon DEF Regs, Kinds
    <2> QED
      BY SMT, <1>2, <1>3, <1>4, <1>6, <2>1, <2>2 DEF Regs, OnlyRegs
  <1> QED
    BY <1>5, <1>6

(* GoOn moves one request and leaves its registers.                        *)
LEMMA GoOnMoves ==
  ASSUME Regs, NEW r \in Requests, NEW place \in Places, GoOn(r, place)
  PROVE  /\ Regs' /\ OnlyRegs(r) /\ pc'[r] = place
         /\ UNCHANGED <<kind, cred, at, late>>
  BY Zenon DEF Regs, OnlyRegs, GoOn, Goto

(* TypeOK, with the registers apart.                                       *)
LEMMA Types ==
  TypeOK <=> /\ Regs
             /\ now \in 0..MaxTime /\ revokedKeys \subseteq Keys
             /\ session \in [SessionIDs -> SessionRow \cup {None}]
             /\ logged \in [SessionIDs \cup Keys -> Nat]
             /\ lock \in [SessionIDs \cup Keys -> Requests \cup {None}]
             /\ swallowed \in [Requests -> BOOLEAN]
             /\ used \in [SessionIDs -> 0..MaxTime] /\ born \in [SessionIDs -> 0..MaxTime]
  BY Zenon DEF TypeOK, Regs

(* A request that writes no row and does not come to or from its commit.   *)
LEMMA ReaderKeeps ==
  ASSUME SInv, NEW r \in Requests, Regs', OnlyRegs(r), Reads(r), Knows(r)',
         swallowed' \in [Requests -> BOOLEAN],
         \A q \in Requests \ {r} : swallowed'[q] = swallowed[q],
         pc[r] # "commit", pc'[r] # "commit"
  PROVE  SInv'
  <1>1. Only(r)
    BY Zenon DEF Only, OnlyRegs
  <1>2. TypeOK'
    BY Types, Zenon DEF SInv, Reads, rowVars, TypeOK, Regs
  <1> QED
    BY <1>1, <1>2, ReadsKeep

(* An answered error leaves nothing to know.                               *)
LEMMA ErrorKnows ==
  ASSUME NEW r \in Requests, pc'[r] = "error", ~late'[r]
  PROVE  Knows(r)'
  BY Zenon DEF Knows

(* A request of an answered credential arrives.                            *)
LEMMA ArriveKeeps ==
  ASSUME SInv, NEW r \in Requests, Arrive(r)
  PROVE  SInv'
  <1>1. PICK k \in Kinds, c \in Credentials :
          /\ kind' = [kind EXCEPT ![r] = k] /\ cred' = [cred EXCEPT ![r] = c]
          /\ late' = [late EXCEPT ![r] = Revoked(c)]
    BY Zenon DEF Arrive
  <1>2. /\ pc[r] = "new" /\ at' = [at EXCEPT ![r] = now] /\ pc' = [pc EXCEPT ![r] = "auth"]
        /\ UNCHANGED <<now, rowVars, swallowed, used, born>>
    BY Zenon DEF Arrive
  <1>3. TypeOK /\ Regs /\ now \in 0..MaxTime
    BY Types, Zenon DEF SInv
  <1>4. Has(c) /\ c \in Keys \cup SessionIDs
    <2>1. CASE c \in Keys
      BY <2>1 DEF Has
    <2>2. CASE c = FirstSession
      BY <2>2, IDs, Zenon DEF SInv, Has
    <2>3. CASE c \in Requests /\ kind[c] = "login" /\ pc[c] = "ok"
      BY <2>3, IDs, Zenon DEF SInv, Knows, Has
    <2> QED
      BY <2>1, <2>2, <2>3, Zenon DEF Credentials
  <1>5. Regs' /\ OnlyRegs(r)
    <2>1. kind' \in [Requests -> Kinds] /\ cred' \in [Requests -> Keys \cup SessionIDs \cup {None}]
      BY <1>1, <1>3, <1>4, Zenon DEF Regs
    <2>2. pc' \in [Requests -> Places] /\ at' \in [Requests -> 0..MaxTime]
      BY <1>2, <1>3, Zenon DEF Regs, Places
    <2>3. late' \in [Requests -> BOOLEAN]
      BY <1>1, <1>3, Zenon DEF Regs, Revoked, KeyOf
    <2> QED
      BY SMT, <1>1, <1>2, <1>3, <2>1, <2>2, <2>3 DEF Regs, OnlyRegs
  <1>6. Reads(r)
    BY <1>2, <1>3, SMT DEF Reads, TypeOK
  <1>7. Knows(r)'
    <2>1. pc'[r] = "auth" /\ cred'[r] = c /\ late'[r] = Revoked(c)
      BY <1>1, <1>2, <1>3, Zenon DEF Regs
    <2>2. Has(c)' /\ (Revoked(c) => Revoked(c)')
      BY <1>2, <1>4, Zenon DEF Has, Revoked, KeyOf, rowVars
    <2>3. session'[r] = None
      BY <1>2, Zenon DEF SInv, Knows, rowVars
    <2> QED
      BY <2>1, <2>2, <2>3, Zenon DEF Knows, Has, Revoked, KeyOf
  <1>8. pc[r] # "commit" /\ pc'[r] # "commit"
    BY <1>2, <1>3, Zenon DEF Regs
  <1> QED
    BY <1>2, <1>3, <1>5, <1>6, <1>7, <1>8, ReaderKeeps, Zenon DEF TypeOK

(* Reads(r) when nothing but the registers of r changes.                   *)
LEMMA StillReads ==
  ASSUME SInv, NEW r, UNCHANGED <<now, rowVars, used, born>>
  PROVE  Reads(r)
  BY SMT DEF Reads, SInv, TypeOK

(* An error is answered.                                                   *)
LEMMA ErrorKeeps ==
  ASSUME SInv, NEW r \in Requests, pc[r] # "commit", Answer(r, "error"),
         UNCHANGED <<now, rowVars, swallowed, used, born>>
  PROVE  SInv'
  <1>1. Regs' /\ OnlyRegs(r) /\ pc'[r] = "error" /\ ~late'[r]
    BY AnswerMoves, Types, Zenon DEF SInv
  <1>2. Knows(r)' /\ Reads(r) /\ swallowed' \in [Requests -> BOOLEAN]
    BY <1>1, ErrorKnows, StillReads, Zenon DEF SInv, TypeOK
  <1> QED
    BY <1>1, <1>2, ReaderKeeps, Zenon

(* A request goes on with a credential that is not late.                   *)
LEMMA GoOnKeeps ==
  ASSUME SInv, NEW r \in Requests, pc[r] \in {"auth", "touch", "serve"}, ~late[r],
         NEW place \in {"touch", "serve"}, GoOn(r, place), Reads(r), UNCHANGED swallowed,
         place = "touch" => cred[r] \in SessionIDs /\ at[r] <= used'[cred[r]]
  PROVE  SInv'
  <1>1. Regs' /\ OnlyRegs(r) /\ pc'[r] = place /\ UNCHANGED <<kind, cred, at, late>>
    <2>1. place \in Places /\ Regs
      BY Types, Zenon DEF SInv, Places
    <2> QED
      BY <2>1, GoOnMoves, Zenon
  <1>2. /\ Has(cred[r]) /\ session[r] = None /\ UNCHANGED session
    BY Zenon DEF SInv, Knows, Reads, rowVars
  <1>3. Knows(r)'
    BY <1>1, <1>2, Zenon DEF Knows, Has
  <1> QED
    BY <1>1, <1>3, ReaderKeeps, Zenon DEF SInv, TypeOK

(* keys.Authenticate: a late request is refused, because its key is revoked. *)
LEMMA AuthenticateKeyKeeps ==
  ASSUME SInv, NEW r \in Requests, AuthenticateKey(r)
  PROVE  SInv'
  <1>1. /\ pc[r] = "auth" /\ cred[r] \in Keys
        /\ UNCHANGED <<now, rowVars, swallowed, used, born>>
    BY Zenon DEF AuthenticateKey
  <1>2. late[r] => cred[r] \in revokedKeys
    BY <1>1, Zenon DEF SInv, Knows, Revoked, KeyOf
  <1>3. CASE Answer(r, "error")
    BY <1>1, <1>3, ErrorKeeps, Zenon
  <1>4. CASE cred[r] \notin revokedKeys /\ GoOn(r, "serve")
    BY <1>1, <1>2, <1>4, GoOnKeeps, StillReads, Zenon
  <1>5. CASE /\ cred[r] \in Browser \ revokedKeys /\ kind[r] = "login"
             /\ Goto(r, "insert") /\ at' = [at EXCEPT ![r] = now] /\ UNCHANGED <<kind, cred, late>>
    <2>1. Regs /\ now \in 0..MaxTime
      BY Types, Zenon DEF SInv
    <2>2. /\ Regs' /\ OnlyRegs(r) /\ pc'[r] = "insert"
      BY <1>5, <2>1, Zenon DEF Regs, OnlyRegs, Goto, Places
    <2>3. session[r] = None /\ UNCHANGED session /\ ~late[r]
      BY <1>1, <1>2, <1>5, Zenon DEF SInv, Knows, rowVars
    <2>4. Knows(r)'
      BY <1>1, <1>5, <2>2, <2>3, Zenon DEF Knows, Has
    <2>5. Reads(r)
      BY <1>1, StillReads, Zenon
    <2> QED
      BY <1>1, <2>2, <2>4, <2>5, ReaderKeeps, Zenon DEF SInv, TypeOK
  <1> QED
    BY <1>3, <1>4, <1>5, Zenon DEF AuthenticateKey

(* authenticate: a late request is refused, and a request that is let in   *)
(* puts its session to use.                                                *)
LEMMA authenticateKeeps ==
  ASSUME SInv, NEW r \in Requests, authenticate(r)
  PROVE  SInv'
  <1> DEFINE s == cred[r]
  <1>1. /\ pc[r] = "auth" /\ s \in SessionIDs
        /\ UNCHANGED <<now, rowVars, swallowed, born>>
    BY Zenon DEF authenticate
  <1>2. CASE Answer(r, "error") /\ UNCHANGED used
    BY <1>1, <1>2, ErrorKeeps, Zenon
  <1>3. CASE /\ ~Revoked(s) /\ GoOn(r, "touch")
             /\ used' = [used EXCEPT ![s] = IF at[r] > @ THEN at[r] ELSE @]
    <2>1. /\ used \in [SessionIDs -> 0..MaxTime] /\ at[r] \in 0..MaxTime
      BY Zenon DEF SInv, TypeOK
    <2>2. /\ used' \in [SessionIDs -> 0..MaxTime] /\ \A i \in SessionIDs : used[i] <= used'[i]
          /\ at[r] <= used'[s]
      BY <1>1, <1>3, <2>1, SMT
    <2>3. ~late[r]
      BY <1>3, Zenon DEF SInv, Knows
    <2> QED
      BY <1>1, <1>3, <2>2, <2>3, GoOnKeeps, Zenon DEF Reads
  <1> QED
    BY <1>2, <1>3, Zenon DEF authenticate

(* The steps that write no row.                                            *)
LEMMA PassKeeps ==
  ASSUME SInv, NEW r \in Requests,
         TouchFails(r) \/ Forbid(r) \/ Unavailable(r) \/ Use(r) \/ LogoutUpdateFails(r)
  PROVE  SInv'
  <1>1. CASE TouchFails(r)
    <2>1. ~late[r]
      BY <1>1, Zenon DEF TouchFails, SInv, Knows
    <2> QED
      BY <1>1, <2>1, GoOnKeeps, StillReads, Zenon DEF TouchFails
  <1>2. CASE Forbid(r) \/ Unavailable(r)
    BY <1>2, ErrorKeeps, Zenon DEF Forbid, Unavailable
  <1>3. CASE Use(r) \/ LogoutUpdateFails(r)
    <2>1. /\ pc[r] = "serve" /\ Answer(r, "ok") /\ UNCHANGED <<now, rowVars, used, born>>
          /\ kind[r] \in {"use", "logout"}
      BY <1>3, Zenon DEF Use, LogoutUpdateFails, Serving
    <2>2. ~late[r] /\ Has(cred[r]) /\ session[r] = None /\ UNCHANGED session
      BY <2>1, Zenon DEF SInv, Knows, rowVars
    <2>3. /\ Regs' /\ OnlyRegs(r) /\ pc'[r] = "ok" /\ ~late'[r]
          /\ kind[r] = "logout" /\ cred[r] \in SessionIDs =>
               kind'[r] = kind[r] /\ cred'[r] = cred[r]
          /\ ~(kind[r] = "logout" /\ cred[r] \in SessionIDs) => kind'[r] = "use"
      BY <2>1, <2>2, AnswerMoves, Types, Zenon DEF SInv
    <2>4. /\ swallowed' \in [Requests -> BOOLEAN]
          /\ \A q \in Requests \ {r} : swallowed'[q] = swallowed[q]
          /\ kind'[r] = "logout" => swallowed'[r] /\ cred'[r] \in SessionIDs /\ cred'[r] = cred[r]
      BY <1>3, <2>3, Zenon DEF Use, LogoutUpdateFails, Serving, SInv, TypeOK
    <2>5. Knows(r)'
      BY <2>1, <2>2, <2>3, <2>4, Zenon DEF Knows, Has
    <2>6. Reads(r)
      BY <2>1, StillReads, Zenon
    <2> QED
      BY <2>1, <2>3, <2>4, <2>5, <2>6, ReaderKeeps, Zenon
  <1> QED
    BY <1>1, <1>2, <1>3

-----------------------------------------------------------------------------
(* The steps that write rows.                                              *)

LEMMA TouchKeeps ==
  ASSUME SInv, NEW r \in Requests, Touch(r)
  PROVE  SInv'
  <1> DEFINE s == cred[r]
  <1>1. /\ pc[r] = "touch" /\ GoOn(r, "serve") /\ s \in SessionIDs /\ session[s] # None
        /\ session' = IF session[s].revoked THEN session
                      ELSE [session EXCEPT ![s].lastSeen = at[r]]
        /\ UNCHANGED <<now, revokedKeys, logged, lock, swallowed, used, born>>
        /\ at[r] <= used[s] /\ ~late[r] /\ session[r] = None
    BY Zenon DEF Touch, SInv, Knows, Has
  <1>2. /\ Regs' /\ OnlyRegs(r) /\ pc'[r] = "serve" /\ UNCHANGED <<kind, cred, at, late>>
    <2>1. "serve" \in Places /\ Regs
      BY Types, Zenon DEF SInv, Places
    <2> QED
      BY <1>1, <2>1, GoOnMoves, Zenon
  <1>3. /\ session \in [SessionIDs -> SessionRow \cup {None}] /\ at[r] \in 0..MaxTime
        /\ used \in [SessionIDs -> 0..MaxTime]
    BY Zenon DEF SInv, TypeOK
  <1>4. ASSUME NEW row \in SessionRow, NEW t \in 0..MaxTime
        PROVE  /\ [row EXCEPT !.lastSeen = t] \in SessionRow
               /\ [row EXCEPT !.lastSeen = t].key = row.key
               /\ [row EXCEPT !.lastSeen = t].revoked = row.revoked
               /\ [row EXCEPT !.lastSeen = t].expires = row.expires
               /\ [row EXCEPT !.lastSeen = t].lastSeen = t
    BY SMT DEF SessionRow
  <1>5. PICK row \in SessionRow :
          /\ session' = [session EXCEPT ![s] = row]
          /\ row.key = session[s].key /\ row.revoked = session[s].revoked
          /\ row.expires = session[s].expires
          /\ row.lastSeen = session[s].lastSeen \/ row.lastSeen = at[r]
    <2>1. session[s] \in SessionRow
      BY <1>1, <1>3, Zenon
    <2>2. CASE session[s].revoked
      <3>1. session' = [session EXCEPT ![s] = session[s]] /\ session[s] \in SessionRow
        BY <1>1, <1>3, <2>1, <2>2, Zenon
      <3> USE <2>1
      <3> WITNESS session[s] \in SessionRow
      <3> QED
        BY <3>1, Zenon
    <2>3. CASE ~session[s].revoked
      <3>1. session' = [session EXCEPT ![s] = [session[s] EXCEPT !.lastSeen = at[r]]]
        BY <1>1, <2>3, Zenon
      <3> DEFINE new == [session[s] EXCEPT !.lastSeen = at[r]]
      <3>2. /\ new \in SessionRow /\ new.key = session[s].key /\ new.lastSeen = at[r]
            /\ new.revoked = session[s].revoked /\ new.expires = session[s].expires
        BY <1>3, <1>4, <2>1
      <3>3. new \in SessionRow /\ session' = [session EXCEPT ![s] = new]
        BY <3>1, <3>2
      <3> HIDE DEF new
      <3> QED
        BY <3>2, <3>3, Zenon
    <2> QED
      BY <2>2, <2>3
  <1>6. /\ session' \in [SessionIDs -> SessionRow \cup {None}]
        /\ session'[s] = row /\ \A i \in SessionIDs : i # s => session'[i] = session[i]
        /\ row # None
    BY <1>1, <1>3, <1>5, ZenonT(30)
  <1>7. TypeOK'
    BY <1>1, <1>2, <1>6, Types, Zenon DEF SInv, TypeOK, Regs
  <1>8. Only(r)
    BY <1>1, <1>2, Zenon DEF Only, OnlyRegs
  <1>9. Grow(r)
    <2>1. \A i \in SessionIDs : used[i] <= used'[i]
      BY <1>1, <1>3, SMT
    <2> QED
      BY <1>1, <1>5, <1>6, <2>1, IDs, Zenon DEF Grow
  <1>10. Knows(r)'
    BY <1>1, <1>2, <1>6, IDs, Zenon DEF Knows, Has, SInv
  <1>11. LockInv'
    BY <1>1, <1>2, <1>5, <1>6, <1>8, LocksStay, Zenon
  <1>12. ASSUME NEW i \in SessionIDs PROVE RowOK(i)'
    <2>1. RowOK(i)
      BY DEF SInv
    <2>2. CASE i = s
      BY <1>1, <1>5, <1>6, <2>1, <2>2, Zenon DEF RowOK
    <2>3. CASE i # s
      BY <1>1, <1>6, <2>1, <2>3, Zenon DEF RowOK
    <2> QED
      BY <2>2, <2>3
  <1>13. \A k \in Keys : KeyOK(k)'
    BY <1>1, Zenon DEF SInv, KeyOK
  <1> QED
    BY <1>7, <1>8, <1>9, <1>10, <1>11, <1>12, <1>13, Assembled, Zenon

(* login's commit: the row has the number of its request.                  *)
LEMMA LoginKeeps ==
  ASSUME SInv, NEW r \in Requests, LoginCommit(r)
  PROVE  SInv'
  <1>1. /\ pc[r] = "insert" /\ UNCHANGED <<now, revokedKeys, logged, lock, swallowed>>
        /\ kind[r] = "login" /\ cred[r] \in Keys /\ ~late[r] /\ session[r] = None
    BY Zenon DEF LoginCommit, SInv, Knows
  <1>2. CASE Answer(r, "error") /\ UNCHANGED <<session, used, born>>
    BY <1>1, <1>2, ErrorKeeps, Zenon DEF rowVars
  <1>3. ASSUME session' = [session EXCEPT ![r] = Row(cred[r], at[r])],
               used' = [used EXCEPT ![r] = at[r]], born' = [born EXCEPT ![r] = at[r]],
               NEW place \in {"ok", "error"}, Answer(r, place)
        PROVE  SInv'
    <2>1. TypeOK /\ Regs /\ r \in SessionIDs /\ at[r] \in 0..MaxTime
      BY Types, IDs, Zenon DEF SInv, TypeOK
    <2>2. /\ Row(cred[r], at[r]) \in SessionRow
          /\ Row(cred[r], at[r]).lastSeen = at[r] /\ Row(cred[r], at[r]).revoked = FALSE
          /\ Row(cred[r], at[r]).expires = at[r] + Absolute
          /\ at[r] <= at[r]
      BY <1>1, <2>1, SMT DEF Row, SessionRow
    <2> DEFINE row == Row(cred[r], at[r])
    <2> HIDE DEF row
    <2>3. /\ row \in SessionRow /\ row # None /\ session' = [session EXCEPT ![r] = row]
          /\ row.lastSeen = at[r] /\ ~row.revoked /\ row.expires = at[r] + Absolute
      BY <1>3, <2>2, Zenon DEF row
    <2>4. /\ Regs' /\ OnlyRegs(r) /\ pc'[r] = place /\ ~late'[r]
          /\ place = "ok" => kind'[r] = "login"
      BY <1>1, <1>3, <2>1, AnswerMoves, Zenon
    <2>5. /\ session' \in [SessionIDs -> SessionRow \cup {None}]
          /\ session'[r] = row /\ \A i \in SessionIDs : i # r => session'[i] = session[i]
          /\ used' \in [SessionIDs -> 0..MaxTime] /\ born' \in [SessionIDs -> 0..MaxTime]
          /\ used'[r] = at[r] /\ born'[r] = at[r]
          /\ \A i \in SessionIDs : i # r => used'[i] = used[i] /\ born'[i] = born[i]
      <3>1. /\ session' \in [SessionIDs -> SessionRow \cup {None}]
            /\ session'[r] = row /\ \A i \in SessionIDs : i # r => session'[i] = session[i]
        BY <2>1, <2>3, Zenon DEF TypeOK
      <3>2. /\ used' \in [SessionIDs -> 0..MaxTime] /\ used'[r] = at[r]
            /\ \A i \in SessionIDs : i # r => used'[i] = used[i]
        BY <1>3, <2>1, Zenon DEF TypeOK
      <3>3. /\ born' \in [SessionIDs -> 0..MaxTime] /\ born'[r] = at[r]
            /\ \A i \in SessionIDs : i # r => born'[i] = born[i]
        BY <1>3, <2>1, Zenon DEF TypeOK
      <3> QED
        BY <3>1, <3>2, <3>3
    <2>6. TypeOK'
      BY <1>1, <2>1, <2>4, <2>5, Types, Zenon DEF TypeOK, Regs
    <2>7. Only(r)
      BY <1>1, <2>4, Zenon DEF Only, OnlyRegs
    <2>8. Grow(r)
      <3>1. \A i \in SessionIDs : used[i] <= used[i]
        BY <2>1, SMT DEF TypeOK
      <3> QED
        BY <1>1, <2>5, <3>1, IDs, Zenon DEF Grow
    <2>9. Knows(r)'
      BY <2>3, <2>4, <2>5, Zenon DEF Knows
    <2>10. LockInv'
      BY <1>1, <1>3, <2>4, <2>5, <2>7, LocksStay, Zenon
    <2>11. ASSUME NEW i \in SessionIDs PROVE RowOK(i)'
      <3>1. RowOK(i)
        BY DEF SInv
      <3>2. CASE i = r
        BY <1>1, <2>2, <2>3, <2>5, <3>1, <3>2, Zenon DEF RowOK
      <3>3. CASE i # r
        BY <1>1, <2>5, <3>1, <3>3, Zenon DEF RowOK
      <3> QED
        BY <3>2, <3>3
    <2>12. \A k \in Keys : KeyOK(k)'
      BY <1>1, Zenon DEF SInv, KeyOK
    <2> QED
      BY <2>6, <2>7, <2>8, <2>9, <2>10, <2>11, <2>12, Assembled, Zenon
  <1> QED
    BY <1>2, <1>3, Zenon DEF LoginCommit

(* The UPDATE of logout or revokeKey takes the lock of a row.              *)
LEMMA LockKeeps ==
  ASSUME SInv, NEW r \in Requests, NEW x \in SessionIDs \cup Keys, pc[r] = "serve",
         lock[x] = None, GoOn(r, "commit"), lock' = [lock EXCEPT ![x] = r],
         UNCHANGED <<now, revokedKeys, session, logged, swallowed, used, born>>,
         \/ x \in SessionIDs /\ kind[r] = "logout" /\ x = cred[r] /\ ~session[x].revoked
         \/ x \in Keys \ revokedKeys /\ kind[r] = "revoke"
  PROVE  SInv'
  <1>1. /\ ~late[r] /\ session[r] = None /\ Has(cred[r]) /\ LockInv
        /\ lock \in [SessionIDs \cup Keys -> Requests \cup {None}]
    BY Zenon DEF SInv, Knows, TypeOK
  <1>2. /\ Regs' /\ OnlyRegs(r) /\ pc'[r] = "commit" /\ UNCHANGED <<kind, cred, at, late>>
    <2>1. "commit" \in Places /\ Regs
      BY Types, Zenon DEF SInv, Places
    <2> QED
      BY <2>1, GoOnMoves, Zenon
  <1>3. /\ lock' \in [SessionIDs \cup Keys -> Requests \cup {None}] /\ lock'[x] = r
        /\ \A y \in SessionIDs \cup Keys : y # x => lock'[y] = lock[y]
    BY <1>1, Zenon
  <1>4. TypeOK'
    BY <1>2, <1>3, Types, Zenon DEF SInv, TypeOK, Regs
  <1>5. Only(r)
    BY <1>2, Zenon DEF Only, OnlyRegs
  <1>6. Grow(r)
    <2>1. \A i \in SessionIDs : used[i] <= used'[i]
      BY SMT DEF SInv, TypeOK
    <2> QED
      BY <2>1, Zenon DEF Grow
  <1>7. Knows(r)'
    BY <1>1, <1>2, Zenon DEF Knows, Has
  <1>8. \A y \in SessionIDs \cup Keys : lock[y] # None => lock[y] # r /\ lock[y] \in Requests
    <2>1. \A y \in SessionIDs : lock[y] # None => pc[lock[y]] = "commit"
      BY <1>1, Zenon DEF LockInv, SessionLock
    <2>2. \A y \in Keys : lock[y] # None => pc[lock[y]] = "commit"
      BY <1>1, Zenon DEF LockInv, KeyLock
    <2> QED
      BY <1>1, <2>1, <2>2, Zenon
  <1>9. ASSUME NEW s \in SessionIDs PROVE SessionLock(s)'
    <2>1. SessionLock(s)
      BY <1>1, Zenon DEF LockInv
    <2>2. CASE s = x
      <3>1. kind[r] = "logout" /\ x = cred[r] /\ ~session[x].revoked
        BY <2>2, Zenon
      <3>2. session[x] # None
        BY <1>1, <2>2, <3>1, Zenon DEF Has
      <3> QED
        BY <1>2, <1>3, <2>2, <3>1, <3>2, Zenon DEF SessionLock
    <2>3. CASE s # x
      BY <1>3, <1>5, <1>8, <2>1, <2>3, Zenon DEF SessionLock, Only
    <2> QED
      BY <2>2, <2>3
  <1>10. ASSUME NEW k \in Keys PROVE KeyLock(k)'
    <2>1. KeyLock(k)
      BY <1>1, Zenon DEF LockInv
    <2>2. CASE k = x
      <3>1. k \notin revokedKeys /\ kind[r] = "revoke"
        BY <2>2, Zenon
      <3>2. \A i \in Keys : lock'[i] = r => i = k
        <4> SUFFICES ASSUME NEW i \in Keys, lock'[i] = r, i # k PROVE FALSE
          OBVIOUS
        <4>1. lock[i] = r
          BY <1>3, <2>2, Zenon
        <4> QED
          BY <1>8, <4>1, IDs, Zenon
      <3> QED
        BY <1>2, <1>3, <2>2, <3>1, <3>2, Zenon DEF KeyLock
    <2>3. CASE k # x
      <3>1. lock'[k] = lock[k]
        BY <1>3, <2>3, Zenon
      <3>2. lock[k] # None => \A i \in Keys : lock'[i] = lock[k] => lock[i] = lock[k]
        BY <1>3, <1>8, Zenon
      <3>3. CASE lock[k] # None
        <4>1. /\ pc[lock[k]] = "commit" /\ kind[lock[k]] = "revoke" /\ k \notin revokedKeys
              /\ \A i \in Keys : lock[i] = lock[k] => i = k
          BY <2>1, <3>3 DEF KeyLock
        <4>2. pc'[lock[k]] = pc[lock[k]] /\ kind'[lock[k]] = kind[lock[k]]
          BY <1>5, <1>8, <3>3, Zenon DEF Only
        <4> QED
          BY <3>1, <3>2, <3>3, <4>1, <4>2, Zenon DEF KeyLock
      <3> QED
        BY <3>1, <3>3, Zenon DEF KeyLock
    <2> QED
      BY <2>2, <2>3
  <1>11. ASSUME NEW q \in Requests PROVE Commits(q)'
    <2>1. CASE q = r
      BY <1>2, <1>3, <2>1, Zenon DEF Commits
    <2>2. CASE q # r
      <3>1. Commits(q) /\ pc'[q] = pc[q] /\ kind'[q] = kind[q] /\ cred'[q] = cred[q]
        BY <1>1, <1>5, <2>2, Zenon DEF LockInv, Only
      <3>2. ASSUME NEW y \in SessionIDs \cup Keys, lock[y] = q PROVE lock'[y] = q
        <4>1. y # x
          BY <3>2, IDs, Zenon
        <4> QED
          BY <1>3, <3>2, <4>1
      <3> QED
        BY <3>1, <3>2, Zenon DEF Commits
    <2> QED
      BY <2>1, <2>2
  <1>12. LockInv'
    BY <1>9, <1>10, <1>11, Zenon DEF LockInv
  <1>13. (\A s \in SessionIDs : RowOK(s)') /\ \A k \in Keys : KeyOK(k)'
    BY Zenon DEF SInv, RowOK, KeyOK
  <1> QED
    BY <1>4, <1>5, <1>6, <1>7, <1>12, <1>13, Assembled, Zenon

(* The commit or the rollback gives a lock back.                           *)
LEMMA UnlockKeeps ==
  ASSUME SInv, NEW r \in Requests, NEW x \in SessionIDs \cup Keys, pc[r] = "commit",
         lock[x] = r, lock' = [lock EXCEPT ![x] = None], Only(r), pc'[r] # "commit",
         revokedKeys \subseteq revokedKeys', revokedKeys' \subseteq revokedKeys \cup {x},
         \A s \in SessionIDs \ {x} : session'[s] = session[s]
  PROVE  LockInv'
  <1>1. LockInv /\ lock \in [SessionIDs \cup Keys -> Requests \cup {None}]
    BY Zenon DEF SInv, TypeOK
  <1>2. /\ lock'[x] = None
        /\ \A y \in SessionIDs \cup Keys : y # x => lock'[y] = lock[y]
    BY <1>1, Zenon
  <1>3. ASSUME NEW y \in SessionIDs \cup Keys, lock[y] = r PROVE y = x
    <2>1. ASSUME y \in Keys
          PROVE  kind[r] = "revoke" /\ \A i \in Keys : lock[i] = r => i = y
      <3>1. KeyLock(y) /\ lock[y] # None
        BY <1>1, <1>3, <2>1, IDs, Zenon DEF LockInv
      <3> QED
        BY <1>3, <3>1, SMT DEF KeyLock
    <2>2. ASSUME y \in SessionIDs PROVE kind[r] = "logout" /\ cred[r] = y
      <3>1. SessionLock(y) /\ lock[y] # None
        BY <1>1, <1>3, <2>2, IDs, Zenon DEF LockInv
      <3> QED
        BY <1>3, <3>1, SMT DEF SessionLock
    <2>3. x \in Keys => kind[r] = "revoke"
      BY <1>1, IDs, Zenon DEF LockInv, KeyLock
    <2>4. x \in SessionIDs => kind[r] = "logout" /\ cred[r] = x
      BY <1>1, IDs, Zenon DEF LockInv, SessionLock
    <2> QED
      BY <2>1, <2>2, <2>3, <2>4, Zenon
  <1>4. ASSUME NEW y \in SessionIDs \cup Keys, y # x, lock[y] # None
        PROVE  lock[y] \in Requests \ {r}
    BY <1>1, <1>3, <1>4, Zenon
  <1>5. ASSUME NEW s \in SessionIDs PROVE SessionLock(s)'
    <2>1. SessionLock(s)
      BY <1>1, Zenon DEF LockInv
    <2>2. CASE s # x /\ lock[s] # None
      <3>1. pc'[lock[s]] = pc[lock[s]] /\ kind'[lock[s]] = kind[lock[s]]
            /\ cred'[lock[s]] = cred[lock[s]]
        BY <1>4, <2>2, Zenon DEF Only
      <3> QED
        BY <1>2, <2>1, <2>2, <3>1, Zenon DEF SessionLock
    <2> QED
      BY <1>2, <2>2, Zenon DEF SessionLock
  <1>6. ASSUME NEW k \in Keys PROVE KeyLock(k)'
    <2>1. KeyLock(k)
      BY <1>1, Zenon DEF LockInv
    <2>2. CASE k # x /\ lock[k] # None
      <3>1. pc'[lock[k]] = pc[lock[k]] /\ kind'[lock[k]] = kind[lock[k]] /\ lock'[k] = lock[k]
        BY <1>2, <1>4, <2>2, Zenon DEF Only
      <3>2. k \notin revokedKeys'
        BY <2>1, <2>2, Zenon DEF KeyLock
      <3>3. \A i \in Keys : lock'[i] = lock[k] => lock[i] = lock[k]
        BY <1>2, <2>2, Zenon
      <3> QED
        BY <2>1, <2>2, <3>1, <3>2, <3>3, Zenon DEF KeyLock
    <2> QED
      BY <1>2, <2>2, Zenon DEF KeyLock
  <1>7. ASSUME NEW q \in Requests PROVE Commits(q)'
    <2>1. CASE q = r
      BY <2>1, Zenon DEF Commits
    <2>2. CASE q # r
      <3>1. Commits(q) /\ pc'[q] = pc[q] /\ kind'[q] = kind[q] /\ cred'[q] = cred[q]
        BY <1>1, <2>2, Zenon DEF LockInv, Only
      <3>2. \A y \in SessionIDs \cup Keys : lock[y] = q => lock'[y] = q
        BY <1>2, <2>2, Zenon
      <3> QED
        BY <3>1, <3>2, Zenon DEF Commits
    <2> QED
      BY <2>1, <2>2
  <1> QED
    BY <1>5, <1>6, <1>7, Zenon DEF LockInv

(* logout: the UPDATE.                                                     *)
LEMMA LogoutUpdateKeeps ==
  ASSUME SInv, NEW r \in Requests, LogoutUpdate(r)
  PROVE  SInv'
  <1> DEFINE s == cred[r]
  <1>1. /\ pc[r] = "serve" /\ kind[r] = "logout" /\ s \in SessionIDs /\ lock[s] = None
        /\ UNCHANGED <<now, revokedKeys, session, logged, swallowed, used, born>>
    BY Zenon DEF LogoutUpdate, Serving
  <1>2. CASE session[s].revoked /\ Answer(r, "ok") /\ UNCHANGED lock
    <2>1. ~late[r] /\ Has(s) /\ session[r] = None /\ s \notin Keys
      BY <1>1, Zenon DEF SInv, Knows
    <2>2. /\ Regs' /\ OnlyRegs(r) /\ pc'[r] = "ok" /\ ~late'[r]
          /\ kind'[r] = kind[r] /\ cred'[r] = cred[r]
      BY <1>1, <1>2, <2>1, AnswerMoves, Types, Zenon DEF SInv
    <2>3. Knows(r)'
      BY <1>1, <1>2, <2>1, <2>2, Zenon DEF Knows, Has
    <2>4. Reads(r)
      BY <1>1, <1>2, StillReads, Zenon DEF rowVars
    <2> QED
      BY <1>1, <2>2, <2>3, <2>4, ReaderKeeps, Zenon DEF SInv, TypeOK
  <1>3. CASE ~session[s].revoked /\ GoOn(r, "commit") /\ lock' = [lock EXCEPT ![s] = r]
    BY <1>1, <1>3, LockKeeps, Zenon
  <1> QED
    BY <1>2, <1>3, Zenon DEF LogoutUpdate

(* revokeKey: the UPDATE.                                                  *)
LEMMA RevokeUpdateKeeps ==
  ASSUME SInv, NEW r \in Requests, RevokeUpdate(r)
  PROVE  SInv'
  <1>1. /\ pc[r] = "serve" /\ kind[r] = "revoke"
        /\ UNCHANGED <<now, revokedKeys, session, logged, swallowed, used, born>>
    BY Zenon DEF RevokeUpdate, Serving
  <1>2. PICK k \in Keys :
          /\ lock[k] = None
          /\ IF k \in revokedKeys
             THEN Answer(r, "error") /\ UNCHANGED lock
             ELSE GoOn(r, "commit") /\ lock' = [lock EXCEPT ![k] = r]
    BY Zenon DEF RevokeUpdate
  <1>3. CASE k \in revokedKeys
    BY <1>1, <1>2, <1>3, ErrorKeeps, Zenon DEF rowVars
  <1>4. CASE k \notin revokedKeys
    BY <1>1, <1>2, <1>4, LockKeeps, Zenon
  <1> QED
    BY <1>3, <1>4

(* A row is revoked and keeps its other columns.                           *)
LEMMA RevokedRow ==
  ASSUME NEW row \in SessionRow
  PROVE  /\ [row EXCEPT !.revoked = TRUE] \in SessionRow
         /\ [row EXCEPT !.revoked = TRUE].revoked
         /\ [row EXCEPT !.revoked = TRUE].key = row.key
         /\ [row EXCEPT !.revoked = TRUE].lastSeen = row.lastSeen
         /\ [row EXCEPT !.revoked = TRUE].expires = row.expires
  <1>1. [row EXCEPT !.revoked = TRUE] \in SessionRow
    <2>1. ASSUME NEW b \in BOOLEAN PROVE [row EXCEPT !.revoked = b] \in SessionRow
      BY SMT DEF SessionRow
    <2> QED
      BY <2>1, Zenon
  <1>2. [row EXCEPT !.revoked = TRUE].revoked
    BY Zenon DEF SessionRow
  <1>3. /\ [row EXCEPT !.revoked = TRUE].key = row.key
        /\ [row EXCEPT !.revoked = TRUE].lastSeen = row.lastSeen
        /\ [row EXCEPT !.revoked = TRUE].expires = row.expires
    BY SMT DEF SessionRow
  <1> QED
    BY <1>1, <1>2, <1>3

(* logout: the commit or the rollback.                                     *)
LEMMA LogoutCommitKeeps ==
  ASSUME SInv, NEW r \in Requests, LogoutCommit(r)
  PROVE  SInv'
  <1> DEFINE s == cred[r]
  <1>1. /\ pc[r] = "commit" /\ kind[r] = "logout" /\ lock' = [lock EXCEPT ![s] = None]
        /\ UNCHANGED <<now, revokedKeys, swallowed, used, born>>
    BY Zenon DEF LogoutCommit
  <1>2. s \in SessionIDs /\ lock[s] = r
    BY <1>1, Zenon DEF SInv, LockInv, Commits
  <1>3. /\ session[s] # None /\ ~session[s].revoked /\ session[s] \in SessionRow
        /\ RowOK(s) /\ logged[s] = 0
    <2>1. session[s] # None /\ ~session[s].revoked
      <3>1. SessionLock(s) /\ lock[s] # None
        BY <1>2, IDs, Zenon DEF SInv, LockInv
      <3> QED
        BY <3>1 DEF SessionLock
    <2>2. session[s] \in SessionRow /\ RowOK(s)
      BY <1>2, <2>1, Zenon DEF SInv, TypeOK
    <2> QED
      BY <2>1, <2>2, Zenon DEF RowOK
  <1>4. /\ TypeOK /\ Regs /\ ~late[r] /\ session[r] = None
    BY <1>1, Types, Zenon DEF SInv, Knows
  <1>5. PICK place \in {"ok", "error"} : Answer(r, place)
    BY Zenon DEF LogoutCommit
  <1>6. /\ Regs' /\ OnlyRegs(r) /\ pc'[r] = place /\ ~late'[r]
        /\ place = "ok" => kind'[r] = "logout" /\ cred'[r] = s
    BY <1>1, <1>2, <1>4, <1>5, AnswerMoves, Zenon
  <1>7. Only(r)
    BY <1>1, <1>6, Zenon DEF Only, OnlyRegs
  <1>8. lock' \in [SessionIDs \cup Keys -> Requests \cup {None}]
    BY <1>1, <1>4, Zenon DEF TypeOK
  <1>9. CASE UNCHANGED <<session, logged>> /\ place = "error"
    <2>1. TypeOK'
      BY <1>1, <1>4, <1>6, <1>8, <1>9, Zenon DEF TypeOK, Regs
    <2>2. Grow(r)
      <3>1. \A i \in SessionIDs : used[i] <= used'[i]
        BY <1>1, <1>4, SMT DEF TypeOK
      <3> QED
        BY <1>1, <1>9, <3>1, Zenon DEF Grow
    <2>3. LockInv'
      BY <1>1, <1>2, <1>6, <1>7, <1>9, UnlockKeeps, Zenon
    <2>4. /\ \A i \in SessionIDs : RowOK(i)'
          /\ \A k \in Keys : KeyOK(k)'
      BY <1>1, <1>9, Zenon DEF SInv, RowOK, KeyOK
    <2>5. Knows(r)'
      BY <1>6, <1>9, ErrorKnows, Zenon
    <2> QED
      BY <1>7, <2>1, <2>2, <2>3, <2>4, <2>5, Assembled, Zenon
  <1>10. CASE /\ session' = [session EXCEPT ![s].revoked = TRUE]
              /\ logged' = [logged EXCEPT ![s] = @ + 1]
    <2>1. /\ session' \in [SessionIDs -> SessionRow \cup {None}]
          /\ session'[s] # None /\ session'[s].revoked /\ session'[s].key = session[s].key
          /\ session'[s].lastSeen = session[s].lastSeen
          /\ session'[s].expires = session[s].expires
          /\ \A i \in SessionIDs \ {s} : session'[i] = session[i]
      <3>1. session' = [session EXCEPT ![s] = [session[s] EXCEPT !.revoked = TRUE]]
        BY <1>10, Zenon
      <3>2. session'[s] = [session[s] EXCEPT !.revoked = TRUE]
            /\ \A i \in SessionIDs \ {s} : session'[i] = session[i]
        BY <1>2, <1>4, <3>1, Zenon DEF TypeOK
      <3>3. session'[s] \in SessionRow /\ session'[s].revoked
            /\ session'[s].key = session[s].key
            /\ session'[s].lastSeen = session[s].lastSeen
            /\ session'[s].expires = session[s].expires
        <4>1. [session[s] EXCEPT !.revoked = TRUE] \in SessionRow
          BY <1>3, RevokedRow
        <4> QED
          BY <1>3, <3>2, <4>1, RevokedRow, Zenon
      <3>4. session' \in [SessionIDs -> SessionRow \cup {None}]
        BY <1>2, <1>4, <3>1, <3>2, <3>3, Zenon DEF TypeOK
      <3> QED
        BY <3>2, <3>3, <3>4, Zenon
    <2>2. /\ logged' \in [SessionIDs \cup Keys -> Nat] /\ logged'[s] = 1
          /\ \A x \in (SessionIDs \cup Keys) \ {s} : logged'[x] = logged[x]
      BY <1>2, <1>3, <1>4, <1>10, SMT DEF TypeOK
    <2>3. TypeOK'
      BY <1>1, <1>4, <1>6, <1>8, <2>1, <2>2, Zenon DEF TypeOK, Regs
    <2>4. Grow(r)
      <3>1. \A i \in SessionIDs : used[i] <= used'[i]
        BY <1>1, <1>4, SMT DEF TypeOK
      <3>2. \A q \in Requests \ {r} : session[q] = None => session'[q] = None
        BY <1>3, <2>1, IDs, Zenon
      <3> QED
        BY <1>1, <1>2, <2>1, <3>1, <3>2, Zenon DEF Grow
    <2>5. LockInv'
      BY <1>1, <1>2, <1>6, <1>7, <2>1, UnlockKeeps, Zenon
    <2>6. ASSUME NEW i \in SessionIDs PROVE RowOK(i)'
      <3>1. RowOK(i) /\ used'[i] = used[i] /\ born'[i] = born[i]
        BY <1>1, Zenon DEF SInv
      <3>2. CASE i = s
        BY <1>3, <2>1, <2>2, <3>1, <3>2, Zenon DEF RowOK
      <3>3. CASE i # s
        BY <2>1, <2>2, <3>1, <3>3, Zenon DEF RowOK
      <3> QED
        BY <3>2, <3>3
    <2>7. ASSUME NEW k \in Keys PROVE KeyOK(k)'
      <3>1. k # s /\ KeyOK(k)
        BY <1>2, Zenon DEF SInv
      <3> QED
        BY <1>1, <2>2, <3>1, Zenon DEF KeyOK
    <2>8. Knows(r)'
      <3>1. session'[r] # None => r = s
        BY <1>4, <2>1, IDs, Zenon
      <3>2. r # s
        BY <1>3, <1>4, Zenon
      <3> QED
        BY <1>2, <1>6, <2>1, <3>1, <3>2, Zenon DEF Knows
    <2> QED
      BY <1>7, <2>3, <2>4, <2>5, <2>6, <2>7, <2>8, Assembled, Zenon
  <1>11. \/ Answer(r, "error") /\ UNCHANGED <<session, logged>>
         \/ /\ session' = [session EXCEPT ![s].revoked = TRUE]
            /\ logged' = [logged EXCEPT ![s] = @ + 1]
    BY Zenon DEF LogoutCommit
  <1>12. ASSUME Answer(r, "error") PROVE place = "error"
    <2>1. pc'[r] = "error"
      BY <1>4, <1>12, AnswerMoves, Zenon
    <2> QED
      BY <1>6, <2>1
  <1> QED
    BY <1>9, <1>10, <1>11, <1>12

(* revokeKey: the commit or the rollback.                                  *)
LEMMA RevokeCommitKeeps ==
  ASSUME SInv, NEW r \in Requests, RevokeCommit(r)
  PROVE  SInv'
  <1> DEFINE k == Target(r)
  <1>1. /\ pc[r] = "commit" /\ kind[r] = "revoke" /\ lock' = [lock EXCEPT ![k] = None]
        /\ UNCHANGED <<now, session, swallowed, used, born>>
    BY Zenon DEF RevokeCommit
  <1>2. k \in Keys /\ lock[k] = r
    <2>1. \E i \in Keys : lock[i] = r
      BY <1>1, Zenon DEF SInv, LockInv, Commits
    <2> QED
      BY <2>1, Zenon DEF Target
  <1>3. k \notin revokedKeys /\ logged[k] = 0
    <2>1. KeyLock(k) /\ lock[k] # None /\ KeyOK(k)
      BY <1>2, IDs, Zenon DEF SInv, LockInv
    <2> QED
      BY <2>1, Zenon DEF KeyLock, KeyOK
  <1> HIDE DEF k
  <1>4. TypeOK /\ Regs /\ ~late[r] /\ session[r] = None
    BY <1>1, Types, Zenon DEF SInv, Knows
  <1>5. PICK place \in {"ok", "error"} : Answer(r, place)
    BY Zenon DEF RevokeCommit
  <1>6. /\ Regs' /\ OnlyRegs(r) /\ pc'[r] = place /\ ~late'[r] /\ kind'[r] = "use"
    BY <1>1, <1>4, <1>5, AnswerMoves, Zenon
  <1>7. Only(r)
    BY <1>1, <1>6, Zenon DEF Only, OnlyRegs
  <1>8. lock' \in [SessionIDs \cup Keys -> Requests \cup {None}]
    BY <1>1, <1>4, Zenon DEF TypeOK
  <1>9. Knows(r)'
    BY <1>1, <1>4, <1>6, Zenon DEF Knows
  <1>10. \/ revokedKeys' = revokedKeys /\ logged' = logged
         \/ revokedKeys' = revokedKeys \cup {k} /\ logged' = [logged EXCEPT ![k] = @ + 1]
    BY Zenon DEF RevokeCommit, k
  <1>11. /\ logged' \in [SessionIDs \cup Keys -> Nat]
         /\ \A x \in (SessionIDs \cup Keys) \ {k} : logged'[x] = logged[x]
         /\ logged'[k] = IF k \in revokedKeys' THEN 1 ELSE 0
    <2>1. CASE revokedKeys' = revokedKeys /\ logged' = logged
      BY <1>3, <1>4, <2>1, Zenon DEF TypeOK
    <2>2. CASE revokedKeys' = revokedKeys \cup {k} /\ logged' = [logged EXCEPT ![k] = @ + 1]
      BY <1>2, <1>3, <1>4, <2>2, SMT DEF TypeOK
    <2> QED
      BY <1>10, <2>1, <2>2
  <1>12. /\ revokedKeys' \subseteq Keys /\ revokedKeys \subseteq revokedKeys'
         /\ revokedKeys' \subseteq revokedKeys \cup {k}
    BY <1>2, <1>4, <1>10, Zenon DEF TypeOK
  <1>13. TypeOK'
    BY <1>1, <1>4, <1>6, <1>8, <1>11, <1>12, Zenon DEF TypeOK, Regs
  <1>14. Grow(r)
    <2>1. \A i \in SessionIDs : used[i] <= used'[i]
      BY <1>1, <1>4, SMT DEF TypeOK
    <2> QED
      BY <1>1, <1>12, <2>1, Zenon DEF Grow
  <1>15. LockInv'
    BY <1>1, <1>2, <1>5, <1>6, <1>7, <1>12, UnlockKeeps, Zenon
  <1>16. ASSUME NEW i \in SessionIDs PROVE RowOK(i)'
    <2>1. i # k /\ RowOK(i)
      BY <1>2, Zenon DEF SInv
    <2> QED
      BY <1>1, <1>11, <2>1, Zenon DEF RowOK
  <1>17. ASSUME NEW i \in Keys PROVE KeyOK(i)'
    <2>1. KeyOK(i)
      BY Zenon DEF SInv
    <2>2. i # k => (i \in revokedKeys' <=> i \in revokedKeys)
      BY <1>12, Zenon
    <2> QED
      BY <1>11, <2>1, <2>2, Zenon DEF KeyOK
  <1> QED
    BY <1>7, <1>9, <1>13, <1>14, <1>15, <1>16, <1>17, Assembled, Zenon

-----------------------------------------------------------------------------
(* SInv holds before the first request.                                    *)
LEMMA InitHolds == Init => SInv
  <1> SUFFICES ASSUME Init PROVE SInv
    OBVIOUS
  <1>1. 0 \in 0..MaxTime /\ 0 \in Nat
    BY SMT
  <1>2. Row(FirstKey, 0) \in SessionRow
    <2>1. ASSUME NEW b \in BOOLEAN
          PROVE  [key |-> FirstKey, lastSeen |-> 0, expires |-> 0 + Absolute, revoked |-> b]
                   \in SessionRow
      BY SMT DEF SessionRow
    <2> QED
      BY <2>1, Zenon DEF Row
  <1>3. /\ Row(FirstKey, 0) # None /\ Row(FirstKey, 0).lastSeen = 0
        /\ Row(FirstKey, 0).expires = 0 + Absolute /\ ~Row(FirstKey, 0).revoked
    <2>1. Row(FirstKey, 0) # None
      BY <1>2, Zenon
    <2> QED
      BY <2>1, Zenon DEF Row
  <1>4. /\ session[FirstSession] = Row(FirstKey, 0)
        /\ \A s \in SessionIDs : s # FirstSession => session[s] = None
    BY IDs, Zenon DEF Init
  <1>5. session \in [SessionIDs -> SessionRow \cup {None}]
    BY <1>2, Zenon DEF Init
  <1>6. TypeOK
    BY <1>1, <1>5, Zenon DEF Init, TypeOK, Places, Kinds
  <1>7. \A r \in Requests : Knows(r)
    BY <1>4, IDs, Zenon DEF Init, Knows
  <1>8. ASSUME NEW s \in SessionIDs PROVE RowOK(s)
    <2>1. used[s] = 0 /\ born[s] = 0 /\ logged[s] = 0 /\ 0 <= 0
      BY SMT DEF Init
    <2> QED
      BY <1>3, <1>4, <2>1, Zenon DEF RowOK
  <1>9. \A k \in Keys : KeyOK(k)
    BY Zenon DEF Init, KeyOK
  <1>10. LockInv
    BY Zenon DEF Init, LockInv, SessionLock, KeyLock, Commits
  <1> QED
    BY <1>3, <1>4, <1>6, <1>7, <1>8, <1>9, <1>10, Zenon DEF SInv

(* Every step keeps SInv.                                                  *)
LEMMA NextKeeps == SInv /\ [Next]_vars => SInv'
  <1> SUFFICES ASSUME SInv, [Next]_vars PROVE SInv'
    OBVIOUS
  <1>1. ASSUME now' \in 0..MaxTime, UNCHANGED <<rowVars, requestVars, used, born>> PROVE SInv'
    <2>1. /\ UNCHANGED <<revokedKeys, session, logged, lock, pc, kind, cred, at, late, swallowed>>
          /\ UNCHANGED <<used, born>>
      BY <1>1, Zenon DEF rowVars, requestVars
    <2>2. TypeOK'
      BY <1>1, <2>1, Zenon DEF SInv, TypeOK
    <2>3. \A r \in Requests : Knows(r)'
      BY <2>1, Zenon DEF SInv, Knows, Has, Revoked, KeyOf
    <2>4. /\ \A s \in SessionIDs : RowOK(s)'
          /\ \A k \in Keys : KeyOK(k)'
      BY <2>1, Zenon DEF SInv, RowOK, KeyOK
    <2>5. LockInv'
      <3>1. \A s \in SessionIDs : SessionLock(s)'
        BY <2>1, Zenon DEF SInv, LockInv, SessionLock
      <3>2. \A k \in Keys : KeyLock(k)'
        BY <2>1, Zenon DEF SInv, LockInv, KeyLock
      <3>3. \A r \in Requests : Commits(r)'
        BY <2>1, Zenon DEF SInv, LockInv, Commits
      <3> QED
        BY <3>1, <3>2, <3>3 DEF LockInv
    <2> QED
      BY <2>1, <2>2, <2>3, <2>4, <2>5, Zenon DEF SInv
  <1>2. CASE Tick
    <2>1. now' \in 0..MaxTime
      BY <1>2, SMT DEF Tick, SInv, TypeOK
    <2> QED
      BY <1>1, <1>2, <2>1, Zenon DEF Tick
  <1>3. CASE \E r \in Requests : Arrive(r) \/ Handle(r)
    <2>1. PICK r \in Requests : Arrive(r) \/ Handle(r)
      BY <1>3
    <2> QED
      BY <2>1, ArriveKeeps, AuthenticateKeyKeeps, authenticateKeeps, TouchKeeps, PassKeeps,
         LoginKeeps, LogoutUpdateKeeps, LogoutCommitKeeps, RevokeUpdateKeeps,
         RevokeCommitKeeps, Zenon DEF Handle
  <1>4. CASE UNCHANGED vars
    BY <1>1, <1>4, Zenon DEF vars, SInv, TypeOK
  <1> QED
    BY <1>2, <1>3, <1>4, Zenon DEF Next, Finished

(* What the requests know, what the rows are and whose the locks are holds *)
(* throughout: a lock is held only by a request about to commit, of a row  *)
(* nobody has revoked.                                                     *)
THEOREM SessionsInvariant == Spec => []SInv
  BY InitHolds, NextKeeps, PTL DEF Spec

(* authed admits no request that arrived with a revoked key or session.    *)
THEOREM RevokedRefused == Spec => []RevokedIsRefused
  <1>1. SInv => RevokedIsRefused
    BY Zenon DEF SInv, Knows, RevokedIsRefused
  <1> QED
    BY <1>1, SessionsInvariant, PTL

(* A logout answered 204 has revoked its session, unless its UPDATE failed. *)
THEOREM LogoutIsHeld == Spec => []LogoutHolds
  <1>1. SInv => LogoutHolds
    BY Zenon DEF SInv, Knows, LogoutHolds
  <1> QED
    BY <1>1, SessionsInvariant, PTL

(* Each revocation of a session or a key has one row in the audit ledger,  *)
(* because its UPDATE holds the row until the commit.                      *)
THEOREM RevocationsInLedger == Spec => []RevocationLoggedOnce
  <1>1. SInv => RevocationLoggedOnce
    BY Zenon DEF SInv, RowOK, KeyOK, RevocationLoggedOnce
  <1> QED
    BY <1>1, SessionsInvariant, PTL

(* Only authenticate lets a cookie in.                                     *)
LEMMA LetIn ==
  ASSUME SInv, [Next]_vars, NEW r \in Requests, pc[r] = "auth", pc'[r] = "touch"
  PROVE  authenticate(r)
  <1>1. pc \in [Requests -> Places]
    BY Zenon DEF SInv, TypeOK
  <1>2. ASSUME UNCHANGED pc PROVE FALSE
    BY <1>2
  <1>3. PICK q \in Requests : Arrive(q) \/ Handle(q)
    BY <1>2, Zenon DEF Next, Tick, Finished, vars, requestVars
  <1>4. ASSUME NEW place, place # "touch", Goto(q, place) PROVE FALSE
    BY <1>1, <1>4, Zenon DEF Goto
  <1>5. CASE authenticate(q)
    <2>1. PICK place \in {"touch", "error"} : Goto(q, place)
      BY <1>5, Zenon DEF authenticate, GoOn, Answer
    <2>2. q = r
      BY <1>1, <2>1, Zenon DEF Goto
    <2> QED
      BY <1>5, <2>2
  <1>6. CASE Arrive(q)
    BY <1>4, <1>6, Zenon DEF Arrive, Goto
  <1>7. CASE AuthenticateKey(q)
    BY <1>4, <1>7, Zenon DEF AuthenticateKey, GoOn, Answer
  <1>8. CASE Touch(q) \/ TouchFails(q)
    BY <1>4, <1>8, Zenon DEF Touch, TouchFails, GoOn
  <1>9. CASE Forbid(q) \/ Unavailable(q) \/ Use(q) \/ LogoutUpdateFails(q)
    BY <1>4, <1>9, Zenon DEF Forbid, Unavailable, Use, LogoutUpdateFails, Answer
  <1>10. CASE LoginCommit(q) \/ LogoutCommit(q) \/ RevokeCommit(q)
    BY <1>4, <1>10, Zenon DEF LoginCommit, LogoutCommit, RevokeCommit, Answer
  <1>11. CASE LogoutUpdate(q) \/ RevokeUpdate(q)
    BY <1>4, <1>11, Zenon DEF LogoutUpdate, RevokeUpdate, GoOn, Answer
  <1> QED
    BY <1>3, <1>5, <1>6, <1>7, <1>8, <1>9, <1>10, <1>11, Zenon DEF Handle

(* A cookie is accepted within Idle of the login or of a request accepted  *)
(* before, and within Absolute of the login: the row's last_seen_at never  *)
(* runs ahead of the accepted requests, and its expires_at never moves.    *)
THEOREM CookiesExpire == Spec => SessionsEnd
  <1> DEFINE InTime ==
        \A r \in Requests :
          pc[r] = "auth" /\ pc'[r] = "touch" =>
            /\ at[r] - used[cred[r]] <= Idle
            /\ at[r] - born[cred[r]] < Absolute
  <1>1. SInv /\ [Next]_vars => [InTime]_vars
    <2> SUFFICES ASSUME SInv, [Next]_vars, NEW r \in Requests,
                        pc[r] = "auth", pc'[r] = "touch"
                 PROVE  /\ at[r] - used[cred[r]] <= Idle
                        /\ at[r] - born[cred[r]] < Absolute
      OBVIOUS
    <2> DEFINE s == cred[r]
    <2>1. authenticate(r)
      BY LetIn
    <2>2. s \in SessionIDs /\ pc \in [Requests -> Places]
      BY <2>1, Zenon DEF authenticate, SInv, TypeOK
    <2>3. /\ session[s].expires > at[r]
          /\ at[r] - session[s].lastSeen <= Idle
      <3>1. ASSUME Goto(r, "error") PROVE FALSE
        BY <2>2, <3>1, Zenon DEF Goto
      <3> QED
        BY <2>1, <3>1, Zenon DEF authenticate, Answer
    <2>4. session[s] # None /\ session[s] \in SessionRow
      BY SMT, <2>2 DEF SInv, Knows, Has, TypeOK
    <2>5. /\ session[s].lastSeen <= used[s]
          /\ session[s].expires = born[s] + Absolute
      BY <2>2, <2>4, Zenon DEF SInv, RowOK
    <2>6. /\ session[s].lastSeen \in Int /\ at[r] \in Int /\ used[s] \in Int /\ born[s] \in Int
      BY <2>2, <2>4, SMT DEF SInv, TypeOK, SessionRow
    <2> QED
      BY <2>3, <2>5, <2>6, SMT
  <1> QED
    BY <1>1, SessionsInvariant, PTL DEF Spec, SessionsEnd
=============================================================================
