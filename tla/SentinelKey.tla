----------------------------- MODULE SentinelKey -----------------------------
(***************************************************************************)
(* How a Sentinel node gets its API key: the command "coldharbour admin    *)
(* ensure-sentinel-key", which reuses the key in the file or creates one,  *)
(* the key file both share, and the revocation of keys. The command is run *)
(* again after it ended, failed or crashed; two of them never overlap.     *)
(***************************************************************************)
EXTENDS Integers, FiniteSets

CONSTANTS
  MaxKeys,      \* bound: keys ever created
  MaxRuns,      \* bound: times the command is run
  Attempts,     \* attempts of one command (60)
  MaxFaults,    \* bound: failed writes, lost answers and crashes, in all
  MaxRevokes    \* bound: keys revoked

ASSUME SentinelKeyAssumption ==
  /\ MaxKeys \in Nat /\ MaxRuns \in Nat /\ Attempts \in Nat \ {0}
  /\ MaxFaults \in Nat /\ MaxRevokes \in Nat

VARIABLES
  keyState,     \* api_keys: no row, not revoked, or revoked
  keyLogged,    \* "key_created" and "key_revoked" rows of the audit ledger, per key
  keyFile,      \* the key in the file, NoKey if the file is missing or empty
  cpc, attempt, \* the command: place, attempts begun
  text,         \* the key it read from the file, or has created
  runs, revokes, \* commands begun, keys revoked
  faults,       \* history: faults so far
  ensured,      \* history: some command has ended well
  revokedSince  \* history: text was revoked after the command saw it live

commandVars == <<cpc, attempt, text, runs>>
keyVars == <<keyState, keyLogged, keyFile, commandVars, revokes, faults, ensured,
             revokedSince>>

Keys == 1..MaxKeys
NoKey == 0

(* keys.Authenticate.                                                      *)
Authenticate(k) == k \in Keys /\ keyState[k] = "live"

KeyInit ==
  /\ keyState = [k \in Keys |-> "none"]
  /\ keyLogged = [k \in Keys |-> 0]
  /\ keyFile = NoKey
  /\ cpc = "off" /\ attempt = 0 /\ text = NoKey /\ runs = 0 /\ revokes = 0
  /\ faults = 0 /\ ensured = FALSE /\ revokedSince = FALSE

Fault == faults < MaxFaults /\ faults' = faults + 1

-----------------------------------------------------------------------------
(* The command.                                                            *)

RunCommand ==
  /\ cpc \in {"off", "done", "failed"} /\ runs < MaxRuns
  /\ cpc' = "read" /\ attempt' = 1 /\ runs' = runs + 1
  /\ text' = NoKey /\ revokedSince' = FALSE
  /\ UNCHANGED <<keyState, keyLogged, keyFile, revokes, faults, ensured>>

(* The next attempt after an error, or the end of the command.             *)
Retry ==
  /\ text' = NoKey
  /\ IF attempt < Attempts
     THEN cpc' = "read" /\ attempt' = attempt + 1
     ELSE cpc' = "failed" /\ attempt' = 0
  /\ UNCHANGED runs

(* sentinelKeyFileAction reads the file; an empty one holds no key.        *)
ReadFile ==
  /\ cpc = "read"
  /\ text' = keyFile
  /\ cpc' = IF keyFile = NoKey THEN "create" ELSE "authenticate"
  /\ UNCHANGED <<keyState, keyLogged, keyFile, attempt, runs, revokes, faults, ensured,
                 revokedSince>>

(* The file cannot be read, or there is no connection to Postgres.         *)
ConnectFails ==
  /\ cpc \in {"read", "authenticate", "create"} /\ Fault
  /\ Retry
  /\ UNCHANGED <<keyState, keyLogged, keyFile, revokes, ensured, revokedSince>>

(* Authenticate: a key that is live is reused. Any error of its query      *)
(* looks like a key that is not.                                           *)
classifySentinelKey ==
  /\ cpc = "authenticate"
  /\ \/ /\ Authenticate(text)
        /\ cpc' = "done" /\ attempt' = 0 /\ ensured' = TRUE /\ UNCHANGED faults
     \/ /\ ~Authenticate(text)
        /\ cpc' = "create" /\ UNCHANGED <<attempt, faults, ensured>>
     \/ /\ Fault
        /\ cpc' = "create" /\ UNCHANGED <<attempt, ensured>>
  /\ revokedSince' = FALSE
  /\ UNCHANGED <<keyState, keyLogged, keyFile, text, runs, revokes>>

Fresh == CHOOSE k \in Keys : keyState[k] = "none"

(* Mutant of createSentinelKey: an error of the commit is not looked at.   *)
createSentinelKeyBlind ==
  /\ cpc = "create" /\ \E k \in Keys : keyState[k] = "none"
  /\ text' = Fresh /\ revokedSince' = FALSE
  /\ cpc' = "open"
  /\ \/ /\ keyState' = [keyState EXCEPT ![Fresh] = "live"]
        /\ keyLogged' = [keyLogged EXCEPT ![Fresh] = 1]
        /\ UNCHANGED faults
     \/ Fault /\ UNCHANGED <<keyState, keyLogged>>
  /\ UNCHANGED <<keyFile, attempt, runs, revokes, ensured>>

(* writeSentinelKey's transaction: the row of keys.Create and its ledger   *)
(* entry. It commits, or ends in an error, committed or not.               *)
createSentinelKey ==
  /\ cpc = "create" /\ \E k \in Keys : keyState[k] = "none"
  /\ \/ /\ keyState' = [keyState EXCEPT ![Fresh] = "live"]
        /\ keyLogged' = [keyLogged EXCEPT ![Fresh] = 1]
        /\ \/ /\ text' = Fresh /\ revokedSince' = FALSE
              /\ cpc' = "open" /\ UNCHANGED <<attempt, runs, faults>>
           \/ Fault /\ Retry /\ UNCHANGED revokedSince
     \/ /\ Fault /\ Retry
        /\ UNCHANGED <<keyState, keyLogged, revokedSince>>
  /\ UNCHANGED <<keyFile, revokes, ensured>>

(* os.WriteFile opens and truncates the file, then writes.                 *)
OpenKeyFile ==
  /\ cpc = "open"
  /\ \/ /\ keyFile' = NoKey
        /\ cpc' = "write" /\ UNCHANGED <<attempt, text, runs, faults>>
     \/ Fault /\ Retry /\ UNCHANGED keyFile
  /\ UNCHANGED <<keyState, keyLogged, revokes, ensured, revokedSince>>

WriteKeyFile ==
  /\ cpc = "write"
  /\ \/ /\ keyFile' = text /\ cpc' = "done" /\ attempt' = 0 /\ ensured' = TRUE
        /\ UNCHANGED <<text, runs, faults>>
     \/ Fault /\ Retry /\ UNCHANGED <<keyFile, ensured>>
  /\ UNCHANGED <<keyState, keyLogged, revokes, revokedSince>>

CommandCrash ==
  /\ cpc \in {"read", "authenticate", "create", "open", "write"} /\ Fault
  /\ cpc' = "off" /\ attempt' = 0 /\ text' = NoKey
  /\ UNCHANGED <<keyState, keyLogged, keyFile, runs, revokes, ensured, revokedSince>>

(* keys.Revoke and its ledger entry.                                       *)
Revoke(k) ==
  /\ keyState[k] = "live" /\ revokes < MaxRevokes
  /\ keyState' = [keyState EXCEPT ![k] = "revoked"]
  /\ keyLogged' = [keyLogged EXCEPT ![k] = @ + 1]
  /\ revokes' = revokes + 1
  /\ revokedSince' = (revokedSince \/ k = text)
  /\ UNCHANGED <<keyFile, commandVars, faults, ensured>>

Command ==
  \/ RunCommand \/ ReadFile \/ ConnectFails \/ classifySentinelKey
  \/ createSentinelKey \/ OpenKeyFile \/ WriteKeyFile

-----------------------------------------------------------------------------
KeyTypeOK ==
  /\ keyState \in [Keys -> {"none", "live", "revoked"}]
  /\ keyLogged \in [Keys -> 0..2]
  /\ keyFile \in Keys \cup {NoKey} /\ text \in Keys \cup {NoKey}
  /\ cpc \in {"off", "read", "authenticate", "create", "open", "write", "done", "failed"}
  /\ attempt \in 0..Attempts /\ runs \in 0..MaxRuns /\ revokes \in 0..MaxRevokes
  /\ faults \in 0..MaxFaults /\ ensured \in BOOLEAN /\ revokedSince \in BOOLEAN

(* When ensure-sentinel-key ends well, the file holds a key that the       *)
(* control plane accepts, unless it was revoked after the command had seen *)
(* or created it: whatever failed in the attempts before.                  *)
EnsuredKeyWorks ==
  cpc = "done" => keyFile = text /\ (Authenticate(keyFile) \/ revokedSince)
=============================================================================
