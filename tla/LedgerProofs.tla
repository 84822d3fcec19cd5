---------------------------- MODULE LedgerProofs ----------------------------
(* Proofs about Ledger, for any number of transactions and verifiers, and  *)
(* about the Merkle trees over its entries, for any number of leaves.      *)
EXTENDS Ledger, Merkle, FiniteSetTheorems, TLAPS

(* EntryHash yields a hash.                                                *)
LEMMA HashType == \A h \in Hashes, t \in Txs : EntryHash(h, t) \in Hashes
  BY DEF EntryHash, Hashes

(* An append to a linked chain, numbered and hashed after its last row, is *)
(* a linked chain that ends in the new head.                               *)
LEMMA AppendLinks ==
  ASSUME TypeOK, ChainIntact, NEW t \in Txs,
         got[t] = IF ledger_heads = None THEN [seq |-> 0, hash |-> Zeros] ELSE ledger_heads
  PROVE  /\ NewRow(t) \in LedgerRow /\ NewHead(t) \in HeadRow
         /\ Verify(Append(audit_ledger, NewRow(t)), NewHead(t))
  <1> DEFINE rows == audit_ledger
             n == Len(audit_ledger)
             new == NewRow(t)
             all == Append(audit_ledger, NewRow(t))
  <1>1. rows \in Seq(LedgerRow) /\ n \in Nat /\ got[t] \in HeadRow
    BY DEF TypeOK
  <1>2. got[t].seq = n /\ got[t].hash = IF n = 0 THEN Zeros ELSE rows[n].hash
    <2>1. CASE ledger_heads = None
      BY <1>1, <2>1 DEF ChainIntact, Verify
    <2>2. CASE ledger_heads # None
      BY <1>1, <2>2 DEF ChainIntact, Verify
    <2> QED
      BY <2>1, <2>2
  <1>3. /\ new.seq = n + 1 /\ new.prev = got[t].hash /\ new.tx = t
        /\ new.hash = EntryHash(got[t].hash, t)
    BY <1>2 DEF NewRow
  <1>4. new \in LedgerRow
    BY <1>1, HashType DEF NewRow, LedgerRow, HeadRow
  <1>5. NewHead(t) \in HeadRow /\ NewHead(t).seq = n + 1 /\ NewHead(t).hash = new.hash
    BY <1>3, <1>4 DEF NewHead, HeadRow, LedgerRow
  <1> HIDE DEF new
  <1>6. /\ all \in Seq(LedgerRow) /\ Len(all) = n + 1 /\ all[n + 1] = new
        /\ \A i \in 1..n : all[i] = rows[i]
    BY <1>1, <1>4 DEF new
  <1> HIDE DEF all
  <1>7. Linked(all)
    <2> SUFFICES ASSUME NEW i \in 1..(n + 1)
                 PROVE  LET prev == IF i = 1 THEN Zeros ELSE all[i - 1].hash
                        IN  /\ all[i].seq = i /\ all[i].prev = prev
                            /\ all[i].hash = EntryHash(prev, all[i].tx)
      BY SMTT(30), <1>6 DEF Linked
    <2>1. CASE i = n + 1
      <3>1. (IF i = 1 THEN Zeros ELSE all[i - 1].hash) = got[t].hash
        BY <1>1, <1>2, <1>6, <2>1
      <3> QED
        BY <1>3, <1>6, <2>1, <3>1
    <2>2. CASE i \in 1..n
      <3>1. i # 1 => all[i - 1] = rows[i - 1]
        BY <1>1, <1>6, <2>2
      <3> QED
        BY <1>1, <1>6, <2>2, <3>1 DEF ChainIntact, Verify, Linked
    <2> QED
      BY <1>1, <2>1, <2>2
  <1>8. NewHead(t) # None /\ all # <<>>
    BY <1>1, <1>5, <1>6, NoneIsNoHead
  <1> QED
    BY <1>1, <1>4, <1>5, <1>6, <1>7, <1>8 DEF Verify, all, new

(* The initial ledger is empty and has no head.                            *)
LEMMA LedgerInit == Init => LedgerInv
  BY LedgerAssumption
     DEF Init, LedgerInv, TypeOK, ChainIntact, Verify, Linked, HeadIsLocked, Zeros, HeadRow, Hashes

(* Every statement keeps the chain, and the head of a transaction that is  *)
(* about to commit.                                                        *)
LEMMA LedgerNext == LedgerInv /\ [Next]_vars => LedgerInv'
  <1> SUFFICES ASSUME LedgerInv, [Next]_vars PROVE LedgerInv'
    OBVIOUS
  <1> USE LedgerAssumption
  <1>0. TypeOK /\ ChainIntact /\ HeadIsLocked
    BY DEF LedgerInv
  <1>1. ASSUME NEW t \in Txs, Change(t) PROVE LedgerInv'
    <2>1. TypeOK'
      <3>1. PICK to \in {"insertHead", "done", "failed"} : pc' = [pc EXCEPT ![t] = to]
        BY <1>1 DEF Change, Put, Insert, Revoke, Changed, Unchanged, Goto
      <3>2. rowLock' \in [Rows -> Txs \cup {None}]
        BY ZenonT(60), <1>0, <1>1 DEF TypeOK, Change, Put, Insert, Revoke, Changed, Unchanged
      <3> QED
        BY <1>0, <1>1, <3>1, <3>2 DEF TypeOK, Change, Put, Insert, Revoke, Changed, Unchanged, verifyVars
    <2>2. ChainIntact' /\ HeadIsLocked'
      BY <1>0, <1>1 DEF Change, Put, Insert, Revoke, Changed, Unchanged, Goto, ChainIntact, HeadIsLocked, TypeOK
    <2> QED
      BY <2>1, <2>2 DEF LedgerInv
  <1>2. ASSUME NEW t \in Txs, InsertHead(t) PROVE LedgerInv'
    <2>1. TypeOK'
      BY <1>0, <1>2 DEF TypeOK, InsertHead, Goto, verifyVars
    <2>2. ChainIntact' /\ HeadIsLocked'
      BY <1>0, <1>2 DEF InsertHead, Goto, ChainIntact, HeadIsLocked, TypeOK
    <2> QED
      BY <2>1, <2>2 DEF LedgerInv
  <1>3. ASSUME NEW t \in Txs, LockHead(t) PROVE LedgerInv'
    <2>1. TypeOK'
      <3>1. [seq |-> 0, hash |-> Zeros] \in HeadRow
        BY DEF HeadRow, Hashes, Zeros
      <3> QED
        BY <1>0, <1>3, <3>1 DEF TypeOK, LockHead, Goto, verifyVars
    <2>2. ChainIntact'
      BY <1>0, <1>3 DEF LockHead, ChainIntact
    <2>3. HeadIsLocked'
      BY <1>0, <1>3 DEF LockHead, Goto, HeadIsLocked, TypeOK
    <2> QED
      BY <2>1, <2>2, <2>3 DEF LedgerInv
  <1>4. ASSUME NEW t \in Txs, Commit(t) PROVE LedgerInv'
    <2>1. /\ headLock = t
          /\ got[t] = IF ledger_heads = None THEN [seq |-> 0, hash |-> Zeros] ELSE ledger_heads
      BY <1>0, <1>4 DEF Commit, HeadIsLocked
    <2>2. /\ NewRow(t) \in LedgerRow /\ NewHead(t) \in HeadRow
          /\ Verify(Append(audit_ledger, NewRow(t)), NewHead(t))
      BY <1>0, <2>1, AppendLinks
    <2>3. TypeOK'
      <3>1. PICK to \in {"done", "failed"} : pc' = [pc EXCEPT ![t] = to]
        BY <1>4 DEF Commit, Goto
      <3>2. rowLock' \in [Rows -> Txs \cup {None}] /\ headLock' \in Txs \cup {None}
        BY <1>0, <1>4 DEF TypeOK, Commit, Release
      <3>3. row' \in [Rows -> Nat]
        BY <1>0, <1>4 DEF TypeOK, Commit
      <3>4. audit_ledger' \in Seq(LedgerRow) /\ ledger_heads' \in HeadRow
        BY <1>0, <1>4, <2>2 DEF TypeOK, Commit
      <3> QED
        BY <1>0, <1>4, <3>1, <3>2, <3>3, <3>4 DEF TypeOK, Commit, verifyVars
    <2>4. ChainIntact'
      BY <1>4, <2>2 DEF Commit, ChainIntact
    <2>5. HeadIsLocked'
      <3>1. \A u \in Txs : pc'[u] # "commit"
        BY Zenon, <1>0, <1>4, <2>1 DEF Commit, Goto, HeadIsLocked, TypeOK
      <3> QED
        BY <3>1 DEF HeadIsLocked
    <2> QED
      BY <2>3, <2>4, <2>5 DEF LedgerInv
  <1>5. ASSUME NEW t \in Txs, Rollback(t) PROVE LedgerInv'
    <2>1. TypeOK'
      BY <1>0, <1>5 DEF TypeOK, Rollback, Release, Goto, verifyVars
    <2>2. ChainIntact' /\ HeadIsLocked'
      BY <1>0, <1>5 DEF Rollback, Release, Goto, ChainIntact, HeadIsLocked, TypeOK
    <2> QED
      BY <2>1, <2>2 DEF LedgerInv
  <1>6. ASSUME NEW v \in Verifiers, ReadRows(v) \/ ReadHead(v) PROVE LedgerInv'
    <2>1. TypeOK'
      <3>1. CASE ReadRows(v)
        BY <1>0, <3>1 DEF TypeOK, ReadRows, txVars
      <3>2. CASE ReadHead(v)
        <4>1. PICK found \in {"intact", "broken"} : verdict' = [verdict EXCEPT ![v] = found]
          BY Zenon, <3>2 DEF ReadHead
        <4>2. UNCHANGED <<txVars, seen>> /\ vpc' = [vpc EXCEPT ![v] = "end"]
          BY <3>2 DEF ReadHead
        <4> QED
          BY <1>0, <4>1, <4>2 DEF TypeOK, txVars
      <3> QED
        BY <1>6, <3>1, <3>2
    <2>2. ChainIntact' /\ HeadIsLocked'
      BY <1>0, <1>6 DEF ReadRows, ReadHead, txVars, ChainIntact, HeadIsLocked
    <2> QED
      BY <2>1, <2>2 DEF LedgerInv
  <1>7. ASSUME UNCHANGED vars PROVE LedgerInv'
    BY <1>0, <1>7 DEF LedgerInv, TypeOK, ChainIntact, HeadIsLocked, vars, txVars, verifyVars
  <1> QED
    BY <1>1, <1>2, <1>3, <1>4, <1>5, <1>6, <1>7 DEF Next, Statement, Ended

(* Appends by any number of concurrent transactions, failed and lost ones  *)
(* included, leave one unbroken chain that ends in the head, because       *)
(* Append reads the head FOR UPDATE and keeps it until its commit.         *)
THEOREM LedgerIsChain == Spec => []ChainIntact
  <1>1. LedgerInv => ChainIntact
    BY DEF LedgerInv
  <1> QED
    BY LedgerInit, LedgerNext, <1>1, PTL DEF Spec

-----------------------------------------------------------------------------
(* What a verifier has read is the ledger, or the ledger has grown since.  *)
ReadAll(v) ==
  /\ Len(seen[v]) <= Len(audit_ledger)
  /\ Len(seen[v]) = Len(audit_ledger) => seen[v] = audit_ledger

ReadInv ==
  \A v \in Verifiers :
    /\ vpc[v] # "rows" => ReadAll(v)
    /\ verdict[v] = "broken" => vpc[v] = "end" /\ Len(seen[v]) < Len(audit_ledger)

(* Every step keeps ReadInv.                                               *)
LEMMA ReadNext == LedgerInv /\ ReadInv /\ [Next]_vars => ReadInv'
  <1> SUFFICES ASSUME LedgerInv, ReadInv, [Next]_vars PROVE ReadInv'
    OBVIOUS
  <1>1. TypeOK /\ ChainIntact
    BY DEF LedgerInv
  <1>2. Len(audit_ledger) \in Nat /\ \A v \in Verifiers : Len(seen[v]) \in Nat
    <2>1. \A v \in Verifiers : seen[v] \in Seq(LedgerRow)
      BY <1>1 DEF TypeOK
    <2> QED
      BY <1>1, <2>1 DEF TypeOK
  <1>3. ASSUME UNCHANGED <<audit_ledger, vpc, seen, verdict>> PROVE ReadInv'
    BY <1>3 DEF ReadInv, ReadAll
  <1>4. ASSUME NEW t \in Txs, Statement(t) \/ Rollback(t) PROVE ReadInv'
    <2>1. CASE Commit(t)
      <3>1. /\ Len(audit_ledger') = Len(audit_ledger) + 1
            /\ UNCHANGED <<vpc, seen, verdict>>
        BY <1>1, <2>1 DEF Commit, verifyVars, TypeOK
      <3> QED
        BY <1>2, <3>1 DEF ReadInv, ReadAll
    <2>2. CASE ~Commit(t)
      BY <1>3, <1>4, <2>2 DEF Statement, Change, InsertHead, LockHead, Rollback, verifyVars
    <2> QED
      BY <2>1, <2>2
  <1>5. ASSUME NEW v \in Verifiers, ReadRows(v) PROVE ReadInv'
    <2>1. /\ vpc[v] = "rows" /\ seen' = [seen EXCEPT ![v] = audit_ledger]
          /\ vpc' = [vpc EXCEPT ![v] = "head"] /\ UNCHANGED <<audit_ledger, verdict>>
      BY <1>5 DEF ReadRows, txVars
    <2> QED
      BY <1>1, <1>2, <2>1 DEF ReadInv, ReadAll, TypeOK
  <1>6. ASSUME NEW v \in Verifiers, ReadHead(v) PROVE ReadInv'
    <2>1. /\ vpc[v] = "head" /\ vpc' = [vpc EXCEPT ![v] = "end"]
          /\ verdict' = [verdict EXCEPT
                          ![v] = IF Verify(seen[v], ledger_heads) THEN "intact" ELSE "broken"]
          /\ UNCHANGED <<audit_ledger, seen>>
      BY <1>6 DEF ReadHead, txVars
    <2>2. verdict'[v] = "broken" => ~Verify(seen[v], ledger_heads)
      BY <1>1, <2>1 DEF TypeOK
    <2>3. ReadAll(v)
      BY <2>1 DEF ReadInv
    <2>4. verdict'[v] = "broken" => Len(seen[v]) < Len(audit_ledger)
      BY <1>1, <1>2, <2>2, <2>3 DEF ReadAll, ChainIntact
    <2> QED
      BY <1>1, <2>1, <2>3, <2>4 DEF ReadInv, ReadAll, TypeOK
  <1>7. CASE UNCHANGED vars
    BY <1>3, <1>7 DEF vars, txVars, verifyVars
  <1> QED
    BY <1>4, <1>5, <1>6, <1>7 DEF Next, Ended

(* Verify finds a chain broken only if something was appended while it     *)
(* read, between its query for the rows and its query for the head.        *)
THEOREM QuietVerifierPasses == Spec => []QuietVerifyPasses
  <1>1. Init => ReadInv
    BY DEF Init, ReadInv
  <1>2. ReadInv => QuietVerifyPasses
    BY DEF ReadInv, QuietVerifyPasses
  <1> QED
    BY LedgerInit, LedgerNext, ReadNext, <1>1, <1>2, PTL DEF Spec

-----------------------------------------------------------------------------
(* The ledger rows written for a row. They are counted as they are added,  *)
(* and a transaction that is in the ledger has ended.                      *)
Logged(r) == {i \in DOMAIN audit_ledger : RowOf[audit_ledger[i].tx] = r}

CountInv ==
  /\ \A r \in Rows : IsFiniteSet(Logged(r)) /\ row[r] = Cardinality(Logged(r))
  /\ \A i \in DOMAIN audit_ledger : pc[audit_ledger[i].tx] \in {"done", "failed"}
  /\ \A i, k \in DOMAIN audit_ledger : audit_ledger[i].tx = audit_ledger[k].tx => i = k

(* A commit adds one ledger row, of a transaction that had none.           *)
LEMMA CommitCounts ==
  ASSUME LedgerInv, CountInv, NEW t \in Txs, Commit(t)
  PROVE  CountInv'
  <1> DEFINE n == Len(audit_ledger)
  <1>1. /\ audit_ledger \in Seq(LedgerRow) /\ n \in Nat /\ DOMAIN audit_ledger = 1..n
        /\ pc \in [Txs -> {"change", "insertHead", "lockHead", "commit", "done", "failed"}]
        /\ row \in [Rows -> Nat] /\ RowOf[t] \in Rows
    BY LedgerAssumption DEF LedgerInv, TypeOK
  <1>2. /\ pc[t] = "commit" /\ audit_ledger' = Append(audit_ledger, NewRow(t))
        /\ row' = [row EXCEPT ![RowOf[t]] = @ + 1] /\ NewRow(t).tx = t
    BY DEF Commit, NewRow
  <1>3. /\ DOMAIN audit_ledger' = 1..(n + 1) /\ audit_ledger'[n + 1].tx = t
        /\ \A i \in 1..n : audit_ledger'[i] = audit_ledger[i]
    BY <1>1, <1>2
  <1>4. \A i \in 1..n : audit_ledger[i].tx # t /\ audit_ledger[i].tx \in Txs
    <2>1. \A i \in 1..n : audit_ledger[i] \in LedgerRow
      BY <1>1
    <2>2. \A x \in LedgerRow : x.tx \in Txs
      BY DEF LedgerRow
    <2> QED
      BY <1>1, <1>2, <2>1, <2>2 DEF CountInv
  <1>5. \A i \in 1..(n + 1) : i \in 1..n \/ i = n + 1
    BY <1>1
  <1>6. ASSUME NEW r \in Rows
        PROVE  IsFiniteSet(Logged(r)') /\ row'[r] = Cardinality(Logged(r)')
    <2>1. IsFiniteSet(Logged(r)) /\ row[r] = Cardinality(Logged(r)) /\ n + 1 \notin Logged(r)
      BY <1>1 DEF CountInv, Logged
    <2>2. CASE r = RowOf[t]
      <3>1. Logged(r)' = Logged(r) \cup {n + 1}
        BY <1>1, <1>3, <1>5, <2>2 DEF Logged
      <3>2. /\ IsFiniteSet(Logged(r) \cup {n + 1})
            /\ Cardinality(Logged(r) \cup {n + 1}) = Cardinality(Logged(r)) + 1
        BY <2>1, FS_AddElement
      <3>3. row'[r] = row[r] + 1
        BY <1>1, <1>2, <2>2
      <3> QED
        BY <2>1, <3>1, <3>2, <3>3
    <2>3. CASE r # RowOf[t]
      <3>1. Logged(r)' = Logged(r)
        BY <1>1, <1>3, <1>5, <2>3 DEF Logged
      <3>2. row'[r] = row[r]
        BY <1>1, <1>2, <2>3
      <3> QED
        BY <2>1, <3>1, <3>2
    <2> QED
      BY <2>2, <2>3
  <1>7. \A i \in DOMAIN audit_ledger' : pc'[audit_ledger'[i].tx] \in {"done", "failed"}
    <2>1. PICK to \in {"done", "failed"} : pc' = [pc EXCEPT ![t] = to]
      BY DEF Commit, Goto
    <2> QED
      BY <1>1, <1>3, <1>4, <1>5, <2>1 DEF CountInv
  <1>8. \A i, k \in DOMAIN audit_ledger' : audit_ledger'[i].tx = audit_ledger'[k].tx => i = k
    BY <1>1, <1>3, <1>4, <1>5 DEF CountInv
  <1> QED
    BY <1>6, <1>7, <1>8 DEF CountInv

(* Every step keeps CountInv.                                              *)
LEMMA CountNext == LedgerInv /\ CountInv /\ [Next]_vars => CountInv'
  <1> SUFFICES ASSUME LedgerInv, CountInv, [Next]_vars PROVE CountInv'
    OBVIOUS
  <1>1. ASSUME UNCHANGED <<audit_ledger, row>>,
               \A u \in Txs : pc[u] \in {"done", "failed"} => pc'[u] = pc[u]
        PROVE  CountInv'
    <2>1. \A r \in Rows : Logged(r)' = Logged(r)
      BY <1>1 DEF Logged
    <2>2. \A i \in DOMAIN audit_ledger : audit_ledger[i].tx \in Txs
      <3>1. \A i \in DOMAIN audit_ledger : audit_ledger[i] \in LedgerRow
        BY DEF LedgerInv, TypeOK
      <3> QED
        BY <3>1 DEF LedgerRow
    <2> QED
      BY <1>1, <2>1, <2>2 DEF CountInv
  <1>2. ASSUME NEW t \in Txs, Statement(t) \/ Rollback(t) PROVE CountInv'
    <2>1. CASE ~Commit(t)
      <3>1. UNCHANGED <<audit_ledger, row>> /\ pc[t] \notin {"done", "failed"}
        BY <1>2, <2>1 DEF Statement, Change, InsertHead, LockHead, Rollback
      <3>2. \A u \in Txs \ {t} : pc'[u] = pc[u]
        BY <1>2, <2>1 DEF Statement, Change, Put, Insert, Revoke, Changed, Unchanged, InsertHead,
                          LockHead, Rollback, Goto, LedgerInv, TypeOK
      <3> QED
        BY <1>1, <3>1, <3>2
    <2> QED
      BY <2>1, CommitCounts
  <1>3. ASSUME UNCHANGED txVars PROVE CountInv'
    BY <1>1, <1>3 DEF txVars
  <1> QED
    BY <1>2, <1>3 DEF Next, ReadRows, ReadHead, Ended, vars

(* The ledger has one row for each change that was committed and no other, *)
(* for any number of transactions, because Append is part of the           *)
(* transaction that makes the change.                                      *)
THEOREM LedgerComplete == Spec => []LedgerMatchesRows
  <1>1. Init => CountInv
    <2> SUFFICES ASSUME Init PROVE CountInv
      OBVIOUS
    <2>1. DOMAIN audit_ledger = {}
      BY DEF Init
    <2>2. \A r \in Rows : Logged(r) = {} /\ row[r] = 0
      BY <2>1 DEF Init, Logged
    <2> QED
      BY SMTT(30), <2>1, <2>2, FS_EmptySet DEF CountInv
  <1>2. CountInv => LedgerMatchesRows
    BY DEF CountInv, Logged, LedgerMatchesRows
  <1> QED
    BY LedgerInit, LedgerNext, CountNext, <1>1, <1>2, PTL DEF Spec

-----------------------------------------------------------------------------
(* The Merkle tree: every level is made of the one below it, and what      *)
(* VerifyInclusionProof has in hand is the node on the way to the place if *)
(* and only if it began with the leaf and met the siblings of the tree.    *)
IsSeq(s) == s \in Seq({s[i] : i \in 1..Len(s)})

Tree ==
  /\ IsSeq(levels) /\ Len(levels) >= 1
  /\ \A h \in 1..Len(levels) : IsSeq(levels[h])
  /\ \A h \in 1..(Len(levels) - 1) : levels[h + 1] = Level(levels[h])
  /\ mpc = "leaves" => Len(levels) = 1
  /\ mpc # "leaves" => \A h \in 1..Len(levels) : Len(levels[h]) >= 1

OnTheWay ==
  /\ Len(top) = 1
  /\ height \in 0..(Len(levels) - 1) /\ place \in 0..(Len(Row) - 1)
  /\ hash = Node <=> claim.leaf = leaves[claim.place + 1] /\ honest

MerkleInv ==
  /\ mpc \in {"leaves", "MerkleRoot", "Verify", "done"}
  /\ Tree
  /\ mpc \in {"leaves", "MerkleRoot"} => height = 0 /\ honest = TRUE /\ accepted = FALSE
  /\ mpc = "Verify" => OnTheWay /\ claim.paired = TRUE
  /\ InclusionProofsHold

(* Appending to any sequence.                                              *)
LEMMA AppendSeq ==
  ASSUME NEW s, NEW x, IsSeq(s)
  PROVE  /\ IsSeq(Append(s, x)) /\ Len(s) \in Nat /\ Len(Append(s, x)) = Len(s) + 1
         /\ \A i \in 1..Len(s) : Append(s, x)[i] = s[i]
         /\ Append(s, x)[Len(s) + 1] = x
  <1> DEFINE S == {s[i] : i \in 1..Len(s)} \cup {x}
             t == Append(s, x)
  <1>1. s \in Seq(S) /\ x \in S
    BY DEF IsSeq
  <1> HIDE DEF S
  <1>2. t \in Seq(S) /\ Len(s) \in Nat /\ Len(t) = Len(s) + 1 /\ t[Len(s) + 1] = x
        /\ \A i \in 1..Len(s) : t[i] = s[i]
    BY <1>1
  <1> HIDE DEF t
  <1>3. t \in Seq({t[i] : i \in 1..Len(t)})
    BY <1>2
  <1> QED
    BY Zenon, <1>2, <1>3 DEF IsSeq, t

(* The level above a row: as long as it should be, and over the node at a  *)
(* place the hash of it and its sibling.                                   *)
LEMMA LevelAbove ==
  ASSUME NEW below, IsSeq(below), Len(below) >= 1
  PROVE  /\ IsSeq(Level(below)) /\ Len(Level(below)) = (Len(below) + 1) \div 2
         /\ \A p \in 0..(Len(below) - 1) :
              /\ p \div 2 \in 0..(Len(Level(below)) - 1)
              /\ p % 2 = 1 => Level(below)[p \div 2 + 1] = Sha(below[p], below[p + 1])
              /\ p % 2 # 1 => Level(below)[p \div 2 + 1]
                                = Sha(below[p + 1], IF p + 1 < Len(below) THEN below[p + 2] ELSE below[p + 1])
  <1> DEFINE n == (Len(below) + 1) \div 2
             up == Level(below)
             S == {up[i] : i \in 1..n}
  <1>1. Len(below) \in Nat /\ n \in Nat
    BY DEF IsSeq
  <1>2. up \in [1..n -> S]
    BY Zenon DEF Level
  <1>3. up \in Seq(S) /\ Len(up) = n
    BY <1>1, <1>2
  <1>4. IsSeq(up)
    BY <1>3 DEF IsSeq
  <1>5. ASSUME NEW p \in 0..(Len(below) - 1)
        PROVE  /\ p \div 2 + 1 \in 1..n
               /\ p % 2 = 1 => 2 * (p \div 2 + 1) = p + 1 /\ p + 1 <= Len(below)
               /\ p % 2 # 1 => 2 * (p \div 2 + 1) = p + 2
    BY <1>1
  <1>6. \A i \in 1..n : up[i] = IF 2 * i <= Len(below) THEN Sha(below[2 * i - 1], below[2 * i])
                                ELSE Sha(below[2 * i - 1], below[2 * i - 1])
    BY Zenon DEF Level
  <1> HIDE DEF up, n
  <1>7. ASSUME NEW p \in 0..(Len(below) - 1)
        PROVE  /\ p \div 2 \in 0..(Len(up) - 1)
               /\ p % 2 = 1 => up[p \div 2 + 1] = Sha(below[p], below[p + 1])
               /\ p % 2 # 1 => up[p \div 2 + 1]
                                = Sha(below[p + 1], IF p + 1 < Len(below) THEN below[p + 2] ELSE below[p + 1])
    <2> DEFINE i == p \div 2 + 1
    <2>1. i \in 1..n /\ p \div 2 = i - 1
      BY <1>5
    <2>2. up[i] = IF 2 * i <= Len(below) THEN Sha(below[2 * i - 1], below[2 * i])
                  ELSE Sha(below[2 * i - 1], below[2 * i - 1])
      BY <1>6, <2>1
    <2>3. p % 2 = 1 => 2 * i = p + 1 /\ 2 * i - 1 = p /\ 2 * i <= Len(below)
      BY <1>5
    <2>4. p % 2 # 1 => 2 * i = p + 2 /\ 2 * i - 1 = p + 1 /\ (2 * i <= Len(below) <=> p + 1 < Len(below))
      BY <1>1, <1>5
    <2> HIDE DEF i
    <2>5. p \div 2 \in 0..(Len(up) - 1)
      BY <1>1, <1>3, <2>1
    <2> QED
      BY <2>2, <2>3, <2>4, <2>5 DEF i
  <1> QED
    BY <1>3, <1>4, <1>7 DEF up, n

(* A pair of hashes tells the two apart.                                   *)
LEMMA ShaInjective ==
  ASSUME NEW a, NEW b, NEW x, NEW y, Sha(a, b) = Sha(x, y)
  PROVE  a = x /\ b = y
  BY DEF Sha

(* Every step of the tree and of the verification keeps MerkleInv.         *)
LEMMA MerkleStep == MerkleInv /\ [MerkleNext]_merkleVars => MerkleInv'
  <1> SUFFICES ASSUME MerkleInv, [MerkleNext]_merkleVars PROVE MerkleInv'
    OBVIOUS
  <1>0. Len(levels) \in Nat \ {0}
    BY DEF MerkleInv, Tree, IsSeq
  <1>1. CASE AddLeaf
    <2>1. PICK h \in LeafHashes : levels' = <<Append(leaves, h)>>
      BY <1>1 DEF AddLeaf
    <2>2. IsSeq(leaves) /\ mpc = "leaves"
      BY <1>0, <1>1 DEF MerkleInv, Tree, leaves, AddLeaf
    <2>3. IsSeq(Append(leaves, h)) /\ Len(leaves) \in Nat /\ Len(Append(leaves, h)) = Len(leaves) + 1
      BY Zenon, <2>2, AppendSeq
    <2> DEFINE below == Append(leaves, h)
    <2> HIDE DEF below
    <2>4. Len(levels') = 1 /\ levels'[1] = below /\ IsSeq(levels')
      BY <2>1 DEF IsSeq, below
    <2>5. IsSeq(below) /\ Len(below) >= 1
      BY <2>3 DEF below
    <2>6. Tree'
      BY <2>4, <2>5 DEF Tree
    <2> QED
      BY <1>1, <2>6 DEF MerkleInv, AddLeaf, InclusionProofsHold, proofVars
  <1>2. CASE MerkleRoot
    <2> DEFINE n == Len(levels)
    <2>1. /\ mpc = "MerkleRoot" /\ levels' = Append(levels, Level(top)) /\ mpc' = mpc
          /\ UNCHANGED proofVars
      BY <1>2 DEF MerkleRoot
    <2>2. IsSeq(top) /\ Len(top) >= 1 /\ IsSeq(levels) /\ top = levels[n]
      BY <1>0, <2>1 DEF MerkleInv, Tree, top
    <2>3. IsSeq(Level(top)) /\ Len(Level(top)) = (Len(top) + 1) \div 2
      BY Zenon, <2>2, LevelAbove
    <2>4. Len(Level(top)) >= 1
      <3>1. Len(top) \in Nat
        BY Zenon, <2>2, AppendSeq
      <3>2. \A m \in Nat : m >= 1 => (m + 1) \div 2 >= 1
        OBVIOUS
      <3> QED
        BY Zenon, <2>2, <2>3, <3>1, <3>2
    <2>5. /\ IsSeq(levels') /\ Len(levels') = n + 1 /\ levels'[n + 1] = Level(top)
          /\ \A i \in 1..n : levels'[i] = levels[i]
      <3>1. /\ IsSeq(Append(levels, Level(top))) /\ Len(Append(levels, Level(top))) = n + 1
            /\ Append(levels, Level(top))[n + 1] = Level(top)
            /\ \A i \in 1..n : Append(levels, Level(top))[i] = levels[i]
        BY Zenon, <2>2, AppendSeq
      <3> QED
        BY Zenon, <2>1, <3>1
    <2>6. \A i \in 1..Len(levels') : i \in 1..n \/ i = n + 1
      BY <1>0, <2>5
    <2>7. \A i \in 1..Len(levels') : IsSeq(levels'[i]) /\ Len(levels'[i]) >= 1
      BY Zenon, <2>1, <2>3, <2>4, <2>5, <2>6 DEF MerkleInv, Tree
    <2>8. ASSUME NEW i \in 1..(Len(levels') - 1) PROVE levels'[i + 1] = Level(levels'[i])
      <3>1. CASE i = n
        <4>1. n \in 1..n
          BY <1>0
        <4> QED
          BY Zenon, <2>2, <2>5, <3>1, <4>1
      <3>2. CASE i # n
        <4>1. i \in 1..(n - 1) /\ i \in 1..n /\ i + 1 \in 1..n
          BY <1>0, <2>5, <3>2
        <4> QED
          BY Zenon, <2>5, <4>1 DEF MerkleInv, Tree
      <3> QED
        BY <3>1, <3>2
    <2>9. Tree'
      BY <1>0, <2>1, <2>5, <2>7, <2>8 DEF Tree
    <2> QED
      BY <2>1, <2>9 DEF MerkleInv, InclusionProofsHold, proofVars
  <1>3. CASE CallVerify
    <2>1. PICK h \in LeafHashes, p \in 0..(Len(leaves) - 1), b \in BOOLEAN :
            /\ claim' = [leaf |-> h, place |-> p, paired |-> b]
            /\ hash' = h /\ place' = p
            /\ mpc' = IF b THEN "Verify" ELSE "done"
      BY <1>3 DEF CallVerify
    <2>2. /\ mpc = "MerkleRoot" /\ Len(top) = 1 /\ levels' = levels /\ height' = height
          /\ honest' = honest /\ accepted' = accepted
      BY <1>3 DEF CallVerify
    <2>3. height = 0 /\ honest = TRUE /\ accepted = FALSE
      BY <2>2 DEF MerkleInv
    <2>4. Row' = leaves /\ leaves' = leaves /\ top' = top /\ Node' = leaves[p + 1]
      BY <2>1, <2>2, <2>3 DEF Row, Node, leaves, top
    <2>5. claim'.leaf = h /\ claim'.place = p /\ claim'.paired = b
      BY <2>1
    <2>6. Tree'
      BY Zenon, <2>1, <2>2 DEF MerkleInv, Tree
    <2>7. OnTheWay'
      BY <1>0, <2>1, <2>2, <2>3, <2>4, <2>5 DEF OnTheWay
    <2>8. b = FALSE => mpc' = "done"
      BY <2>1
    <2>9. b = TRUE => mpc' = "Verify"
      BY <2>1
    <2> QED
      BY <2>1, <2>2, <2>3, <2>5, <2>6, <2>7, <2>8, <2>9 DEF MerkleInv, InclusionProofsHold
  <1>4. CASE VerifyTurn
    <2>1. PICK s \in Nodes \cup LeafHashes :
            /\ hash' = IF place % 2 = 1 THEN Sha(s, hash) ELSE Sha(hash, s)
            /\ honest' = (honest /\ s = Sibling)
      BY <1>4 DEF VerifyTurn
    <2>2. /\ mpc = "Verify" /\ mpc' = "Verify" /\ height + 1 < Len(levels) /\ height' = height + 1
          /\ place' = place \div 2 /\ levels' = levels /\ claim' = claim /\ accepted' = accepted
      BY <1>4 DEF VerifyTurn
    <2>3. /\ height \in 0..(Len(levels) - 1) /\ place \in 0..(Len(Row) - 1) /\ Len(top) = 1
          /\ hash = Node <=> claim.leaf = leaves[claim.place + 1] /\ honest
          /\ claim.paired = TRUE
      BY <2>2 DEF MerkleInv, OnTheWay
    <2>4. /\ height + 1 \in 1..(Len(levels) - 1) /\ height + 1 \in 1..Len(levels)
          /\ height' \in 0..(Len(levels) - 1)
      BY <1>0, <2>2, <2>3
    <2>5. IsSeq(Row) /\ Len(Row) >= 1 /\ Row' = Level(Row)
      BY Zenon, <2>2, <2>4 DEF MerkleInv, Tree, Row
    <2>6. /\ place' \in 0..(Len(Row') - 1)
          /\ place % 2 = 1 => Node' = Sha(Row[place], Node)
          /\ place % 2 # 1 => Node' = Sha(Node, IF place + 1 < Len(Row) THEN Row[place + 2] ELSE Node)
      BY Zenon, <2>2, <2>3, <2>5, LevelAbove DEF Node
    <2>7. hash' = Node' <=> hash = Node /\ s = Sibling
      <3>1. CASE place % 2 = 1
        <4>1. hash' = Sha(s, hash) /\ Node' = Sha(Row[place], Node) /\ Sibling = Row[place]
          BY Zenon, <2>1, <2>6, <3>1 DEF Sibling
        <4> QED
          BY Zenon, <4>1, ShaInjective
      <3>2. CASE place % 2 # 1
        <4>1. hash' = Sha(hash, s) /\ Node' = Sha(Node, Sibling)
          BY Zenon, <2>1, <2>6, <3>2 DEF Sibling
        <4> QED
          BY Zenon, <4>1, ShaInjective
      <3> QED
        BY <3>1, <3>2
    <2>8. leaves' = leaves /\ top' = top
      BY <2>2 DEF leaves, top
    <2>9. OnTheWay'
      BY Zenon, <2>1, <2>2, <2>3, <2>4, <2>6, <2>7, <2>8 DEF OnTheWay
    <2>10. Tree'
      BY Zenon, <2>2 DEF MerkleInv, Tree
    <2> QED
      BY <2>2, <2>3, <2>9, <2>10 DEF MerkleInv, InclusionProofsHold
  <1>5. CASE VerifyReturns
    <2>1. /\ mpc = "Verify" /\ mpc' = "done" /\ height + 1 = Len(levels) /\ accepted' = (hash = top[1])
          /\ levels' = levels /\ claim' = claim /\ honest' = honest
      BY <1>5 DEF VerifyReturns
    <2>2. OnTheWay /\ claim.paired = TRUE
      BY <2>1 DEF MerkleInv
    <2>3. Row = top
      BY <2>1 DEF Row, top
    <2>4. place = 0 /\ Node = top[1]
      <3>1. place \in 0..(Len(top) - 1) /\ Len(top) = 1
        BY Zenon, <2>2, <2>3 DEF OnTheWay
      <3>2. place = 0
        BY <3>1
      <3> QED
        BY <2>3, <3>2 DEF Node
    <2>5. accepted' <=> claim.leaf = leaves[claim.place + 1] /\ honest
      BY Zenon, <2>1, <2>2, <2>4 DEF OnTheWay
    <2>6. InclusionProofsHold'
      BY Zenon, <2>1, <2>2, <2>5 DEF InclusionProofsHold, leaves
    <2>7. Tree'
      BY Zenon, <2>1 DEF MerkleInv, Tree
    <2> QED
      BY <2>1, <2>6, <2>7 DEF MerkleInv
  <1>6. CASE UNCHANGED merkleVars
    BY <1>6 DEF merkleVars, proofVars, MerkleInv, Tree, OnTheWay, InclusionProofsHold,
                leaves, top, Row, Node
  <1> QED
    BY <1>1, <1>2, <1>3, <1>4, <1>5, <1>6 DEF MerkleNext

(* MerkleRoot and VerifyInclusionProof agree, for any number of leaves:    *)
(* an inclusion proof is accepted if its leaf is the one at its place and  *)
(* its siblings are the tree's, and not otherwise.                         *)
THEOREM ProofsMatchRoot == MerkleSpec => []InclusionProofsHold
  <1>1. MerkleInit => MerkleInv
    <2> SUFFICES ASSUME MerkleInit PROVE MerkleInv
      OBVIOUS
    <2>1. levels = << <<>> >> /\ mpc = "leaves" /\ height = 0 /\ honest = TRUE /\ accepted = FALSE
      BY DEF MerkleInit, Empty
    <2>2. Len(levels) = 1 /\ levels[1] = <<>> /\ IsSeq(levels) /\ IsSeq(<<>>)
      BY <2>1 DEF IsSeq
    <2>3. Tree
      BY <2>1, <2>2 DEF Tree
    <2> QED
      BY <2>1, <2>3 DEF MerkleInv, InclusionProofsHold
  <1>2. MerkleInv => InclusionProofsHold
    BY DEF MerkleInv
  <1> QED
    BY <1>1, <1>2, MerkleStep, PTL DEF MerkleSpec
=============================================================================
