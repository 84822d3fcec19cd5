------------------------------- MODULE Ledger -------------------------------
(***************************************************************************)
(* The audit ledger of one tenant: the transactions that append to it, and *)
(* the verifier. A transaction first changes a row of its own (a policy, a *)
(* key, a session, a sentinel node, a purge receipt), then appends, then   *)
(* commits; what it wrote is visible to others from its commit on, and the *)
(* locks it took are held until then. A statement that would wait for a    *)
(* lock is a step that is not enabled.                                     *)
(***************************************************************************)
EXTENDS Integers, Sequences, FiniteSets

CONSTANTS
  Txs,           \* transactions; each writes a payload of its own
  Rows,          \* the rows they change
  RowOf,         \* the row a transaction changes
  Kind,          \* how it changes the row
  Verifiers,     \* runs of the verifier
  None

Kinds == {"put", "insert", "revoke"}

ASSUME LedgerAssumption ==
  /\ RowOf \in [Txs -> Rows]
  /\ Kind \in [Txs -> Kinds]
  /\ None \notin Txs

VARIABLES
  pc,            \* the transaction's next statement
  row,           \* changes committed to the row: its version, 1 if inserted or revoked
  rowLock,       \* the transaction that has changed the row and not ended
  ledger_heads,  \* the tenant's head, None before the first append
  headLock,      \* the transaction that has the head row, inserted or FOR UPDATE
  audit_ledger,  \* the tenant's rows, in the order they were committed
  got,           \* the head a transaction read
  vpc, seen, verdict   \* a verifier: its next query, the rows it read, its result

txVars == <<pc, row, rowLock, ledger_heads, headLock, audit_ledger, got>>
verifyVars == <<vpc, seen, verdict>>
vars == <<txVars, verifyVars>>

(* A hash stands for everything that was hashed: the payloads up to here.  *)
Hashes == Seq(Txs)
Zeros == <<>>
EntryHash(prev, t) == Append(prev, t)

HeadRow == [seq : Nat, hash : Hashes]
LedgerRow == [seq : Nat, prev : Hashes, hash : Hashes, tx : Txs]

ASSUME NoneIsNoHead == None \notin HeadRow

Init ==
  /\ pc = [t \in Txs |-> "change"]
  /\ row = [r \in Rows |-> 0]
  /\ rowLock = [r \in Rows |-> None]
  /\ ledger_heads = None
  /\ headLock = None
  /\ audit_ledger = <<>>
  /\ got = [t \in Txs |-> [seq |-> 0, hash |-> Zeros]]
  /\ vpc = [v \in Verifiers |-> "rows"]
  /\ seen = [v \in Verifiers |-> <<>>]
  /\ verdict = [v \in Verifiers |-> "none"]

-----------------------------------------------------------------------------
(* The transactions.                                                       *)

Goto(t, label) == pc' = [pc EXCEPT ![t] = label]

(* The statement before Append. It has changed the row, which stays locked, *)
(* or it changed nothing and the transaction ends.                         *)
Changed(t) == rowLock' = [rowLock EXCEPT ![RowOf[t]] = t] /\ Goto(t, "insertHead")
Unchanged(t, end) == Goto(t, end) /\ UNCHANGED rowLock

(* An upsert always changes the row.                                       *)
Put(t) == Kind[t] = "put" /\ Changed(t)

(* INSERT ... ON CONFLICT DO NOTHING of a row that is there: the           *)
(* transaction commits without a ledger row.                               *)
Insert(t) ==
  /\ Kind[t] = "insert"
  /\ IF row[RowOf[t]] = 0 THEN Changed(t) ELSE Unchanged(t, "done")

(* UPDATE ... WHERE revoked_at IS NULL of a revoked row: it is rolled back. *)
Revoke(t) ==
  /\ Kind[t] = "revoke"
  /\ IF row[RowOf[t]] = 0 THEN Changed(t) ELSE Unchanged(t, "failed")

Change(t) ==
  /\ pc[t] = "change"
  /\ rowLock[RowOf[t]] = None
  /\ Put(t) \/ Insert(t) \/ Revoke(t)
  /\ UNCHANGED <<row, ledger_heads, headLock, audit_ledger, got, verifyVars>>

(* Append: INSERT INTO ledger_heads ... ON CONFLICT DO NOTHING. It waits   *)
(* for a transaction that has inserted the row and not ended.              *)
InsertHead(t) ==
  /\ pc[t] = "insertHead"
  /\ ledger_heads = None => headLock = None
  /\ headLock' = IF ledger_heads = None THEN t ELSE headLock
  /\ Goto(t, "lockHead")
  /\ UNCHANGED <<row, rowLock, ledger_heads, audit_ledger, got, verifyVars>>

(* Mutant of LockHead: SELECT without FOR UPDATE.                          *)
LockHeadNot(t) ==
  /\ pc[t] = "lockHead"
  /\ got' = [got EXCEPT ![t] = IF ledger_heads = None THEN [seq |-> 0, hash |-> Zeros]
                               ELSE ledger_heads]
  /\ Goto(t, "commit")
  /\ UNCHANGED <<row, rowLock, ledger_heads, headLock, audit_ledger, verifyVars>>

(* Append: SELECT seq, hash ... FOR UPDATE reads the latest committed head *)
(* or the one the transaction itself inserted.                             *)
LockHead(t) ==
  /\ pc[t] = "lockHead"
  /\ headLock \in {None, t}
  /\ headLock' = t
  /\ got' = [got EXCEPT ![t] = IF ledger_heads = None THEN [seq |-> 0, hash |-> Zeros]
                               ELSE ledger_heads]
  /\ Goto(t, "commit")
  /\ UNCHANGED <<row, rowLock, ledger_heads, audit_ledger, verifyVars>>

Release(t) ==
  /\ rowLock' = [r \in Rows |-> IF rowLock[r] = t THEN None ELSE rowLock[r]]
  /\ headLock' = IF headLock = t THEN None ELSE headLock

(* The row Append inserts and the head it leaves.                          *)
NewRow(t) ==
  [seq |-> got[t].seq + 1, prev |-> got[t].hash,
   hash |-> EntryHash(got[t].hash, t), tx |-> t]

(* Mutant of NewHead: the head keeps the hash of the row before.           *)
NewHeadOldHash(t) == [seq |-> NewRow(t).seq, hash |-> NewRow(t).prev]

NewHead(t) == [seq |-> NewRow(t).seq, hash |-> NewRow(t).hash]

(* Mutant of Commit: the change is committed and its ledger row is not.    *)
CommitUnlogged(t) ==
  /\ pc[t] = "commit"
  /\ row' = [row EXCEPT ![RowOf[t]] = @ + 1]
  /\ UNCHANGED <<audit_ledger, ledger_heads>>
  /\ Release(t)
  /\ Goto(t, "done") \/ Goto(t, "failed")
  /\ UNCHANGED <<got, verifyVars>>

(* Append's INSERT and UPDATE and the commit, which makes them visible     *)
(* together with the row's change. The caller is told of it or, when the   *)
(* reply is lost, reports a failure.                                       *)
Commit(t) ==
  /\ pc[t] = "commit"
  /\ row' = [row EXCEPT ![RowOf[t]] = @ + 1]
  /\ audit_ledger' = Append(audit_ledger, NewRow(t))
  /\ ledger_heads' = NewHead(t)
  /\ Release(t)
  /\ Goto(t, "done") \/ Goto(t, "failed")
  /\ UNCHANGED <<got, verifyVars>>

(* Mutant of Rollback: a failed transaction is left open.                  *)
RollbackForgotten(t) ==
  /\ pc[t] \in {"change", "insertHead", "lockHead", "commit"}
  /\ Goto(t, "failed")
  /\ UNCHANGED <<row, rowLock, headLock, ledger_heads, audit_ledger, got, verifyVars>>

(* A statement fails, the request is cancelled or the process ends.        *)
Rollback(t) ==
  /\ pc[t] \in {"change", "insertHead", "lockHead", "commit"}
  /\ Release(t)
  /\ Goto(t, "failed")
  /\ UNCHANGED <<row, ledger_heads, audit_ledger, got, verifyVars>>

Statement(t) == Change(t) \/ InsertHead(t) \/ LockHead(t) \/ Commit(t)

-----------------------------------------------------------------------------
(* The verifier: Verify reads the rows and then the head, in two           *)
(* statements outside of a transaction.                                    *)

(* The walk over the rows: each has the number, the previous hash and the  *)
(* hash that the rows before it call for.                                  *)
Linked(rows) ==
  \A i \in 1..Len(rows) :
    LET prev == IF i = 1 THEN Zeros ELSE rows[i - 1].hash
    IN  /\ rows[i].seq = i
        /\ rows[i].prev = prev
        /\ rows[i].hash = EntryHash(prev, rows[i].tx)

Verify(rows, head) ==
  /\ Linked(rows)
  /\ IF head = None
     THEN rows = <<>>
     ELSE /\ head.seq = Len(rows)
          /\ rows # <<>> /\ head.hash = rows[Len(rows)].hash

ReadRows(v) ==
  /\ vpc[v] = "rows"
  /\ seen' = [seen EXCEPT ![v] = audit_ledger]
  /\ vpc' = [vpc EXCEPT ![v] = "head"]
  /\ UNCHANGED <<txVars, verdict>>

ReadHead(v) ==
  /\ vpc[v] = "head"
  /\ verdict' = [verdict EXCEPT
       ![v] = IF Verify(seen[v], ledger_heads) THEN "intact" ELSE "broken"]
  /\ vpc' = [vpc EXCEPT ![v] = "end"]
  /\ UNCHANGED <<txVars, seen>>

Ended == /\ \A t \in Txs : pc[t] \in {"done", "failed"}
         /\ \A v \in Verifiers : vpc[v] = "end"
         /\ UNCHANGED vars

Next ==
  \/ \E t \in Txs : Statement(t) \/ Rollback(t)
  \/ \E v \in Verifiers : ReadRows(v) \/ ReadHead(v)
  \/ Ended

Spec == Init /\ [][Next]_vars

(* Postgres runs every statement that does not wait.                       *)
FairSpec == Spec /\ \A t \in Txs : WF_vars(Statement(t))

-----------------------------------------------------------------------------
TypeOK ==
  /\ pc \in [Txs -> {"change", "insertHead", "lockHead", "commit", "done", "failed"}]
  /\ row \in [Rows -> Nat]
  /\ rowLock \in [Rows -> Txs \cup {None}]
  /\ ledger_heads \in HeadRow \cup {None}
  /\ headLock \in Txs \cup {None}
  /\ audit_ledger \in Seq(LedgerRow)
  /\ got \in [Txs -> HeadRow]
  /\ vpc \in [Verifiers -> {"rows", "head", "end"}]
  /\ seen \in [Verifiers -> Seq(LedgerRow)]
  /\ verdict \in [Verifiers -> {"none", "intact", "broken"}]

(* However appends, failures and lost replies interleave, the committed    *)
(* rows are one unbroken chain that ends in the head.                      *)
ChainIntact == Verify(audit_ledger, ledger_heads)

(* What makes ChainIntact inductive: a transaction that is about to commit *)
(* has the head, and what it read of it is still the head.                 *)
HeadIsLocked ==
  \A t \in Txs : pc[t] = "commit" =>
    /\ headLock = t
    /\ got[t] = IF ledger_heads = None THEN [seq |-> 0, hash |-> Zeros] ELSE ledger_heads

LedgerInv == TypeOK /\ ChainIntact /\ HeadIsLocked

(* The ledger is complete and says nothing else: a row's version, or its   *)
(* being inserted or revoked, is the number of ledger rows written for it, *)
(* and no transaction is logged twice.                                     *)
LedgerMatchesRows ==
  /\ \A r \in Rows :
       row[r] = Cardinality({i \in DOMAIN audit_ledger : RowOf[audit_ledger[i].tx] = r})
  /\ \A i, k \in DOMAIN audit_ledger : audit_ledger[i].tx = audit_ledger[k].tx => i = k

(* A verifier during which nothing was appended finds the chain intact.    *)
QuietVerifyPasses ==
  \A v \in Verifiers :
    verdict[v] = "broken" => Len(seen[v]) < Len(audit_ledger)

(* No order of locks leaves a transaction waiting for ever.                *)
EveryTxEnds == \A t \in Txs : <>(pc[t] \in {"done", "failed"})
=============================================================================
