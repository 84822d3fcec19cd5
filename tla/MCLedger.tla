------------------------------ MODULE MCLedger ------------------------------
(* Transactions of every kind, in pairs that meet on one row.              *)
EXTENDS Ledger

CONSTANTS p1, i1, i2, r1, r2, v1, policy, receipt, key

FiveTxs == {p1, i1, i2, r1, r2}
MCRows == {policy, receipt, key}
OneVerifier == {v1}

MCRowOf == [t \in Txs |-> IF t = p1 THEN policy
                          ELSE IF t \in {i1, i2} THEN receipt ELSE key]
MCKind == [t \in Txs |-> IF t = p1 THEN "put"
                         ELSE IF t \in {i1, i2} THEN "insert" ELSE "revoke"]
=============================================================================
