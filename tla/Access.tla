------------------------------- MODULE Access -------------------------------
(***************************************************************************)
(* Who may act for one workspace: its owner's session, its API keys and    *)
(* their plan usage, and the deletion of the account.  From                *)
(* src/lib/agentwingStore.ts and the routes v1/api-keys, v1/check-action   *)
(* and v1/account/delete-request; every database statement is a step.      *)
(* A request that creates a key is named by the key.                       *)
(***************************************************************************)
EXTENDS Integers, FiniteSets

CONSTANTS
  Keys, Checks, Deletions,
  CheckLimit,    (* usage.action_check_limit                                *)
  NoKey

ASSUME AccessBounds == CheckLimit \in Nat /\ NoKey \notin Keys /\ IsFiniteSet(Checks)

VARIABLES
  ownerStatus,   (* users.status                                            *)
  signedIn,      (* the owner has a row in sessions                         *)
  apiKey,        (* api_keys                                                *)
  checksUsed,    (* usage.action_checks_used, -1 where there is no row      *)
  minting,       (* stage of each request that creates a key                *)
  deleting,      (* stage of each request that deletes the account          *)
  checking,      (* stage of each check-action request                      *)
  checkKey,      (* the key it came with                                    *)
  midMint,       (* history: requests between authorisation and INSERT when *)
                 (* the keys were revoked                                   *)
  swallowed,     (* history: a deletion answered ok over a failed statement *)
  actsLate       (* history: checks whose key was accepted after a deletion *)
                 (* had been answered                                       *)

accessVars == <<ownerStatus, signedIn, apiKey, checksUsed, minting, deleting, checking, checkKey,
                midMint, swallowed, actsLate>>

MintStages == {"new", "user", "insert", "usage", "done"}
DeleteStages == {"new", "user", "mark", "withdraw", "sessions", "keys", "answer", "ok", "done"}
CheckStages == {"new", "ensure", "increment", "read", "allowed", "refused"}

AccessTypeOK ==
  /\ ownerStatus \in {"active", "deletion_requested"}
  /\ signedIn \in BOOLEAN
  /\ apiKey \in [Keys -> {"none", "live", "revoked"}]
  /\ checksUsed \in [Keys -> Nat \cup {-1}]
  /\ minting \in [Keys -> MintStages]
  /\ deleting \in [Deletions -> DeleteStages]
  /\ checking \in [Checks -> CheckStages]
  /\ checkKey \in [Checks -> Keys \cup {NoKey}]
  /\ midMint \in SUBSET Keys
  /\ swallowed \in BOOLEAN
  /\ actsLate \in SUBSET Checks

AccessInit ==
  /\ ownerStatus = "active" /\ signedIn = TRUE
  /\ apiKey = [k \in Keys |-> "none"]
  /\ checksUsed = [k \in Keys |-> -1]
  /\ minting = [k \in Keys |-> "new"]
  /\ deleting = [d \in Deletions |-> "new"]
  /\ checking = [c \in Checks |-> "new"]
  /\ checkKey = [c \in Checks |-> NoKey]
  /\ midMint = {} /\ swallowed = FALSE /\ actsLate = {}

-----------------------------------------------------------------------------
(* getUserSession, as POST v1/api-keys calls it: the sessions row first,   *)
(* then the user's.                                                        *)

ReadMintersSession(k) ==
  /\ minting[k] = "new"
  /\ minting' = [minting EXCEPT ![k] = IF signedIn THEN "user" ELSE "done"]
  /\ UNCHANGED <<ownerStatus, signedIn, apiKey, checksUsed, deleting, checking, checkKey,
                 midMint, swallowed, actsLate>>

ReadMinter(k) ==
  /\ minting[k] = "user"
  /\ minting' = [minting EXCEPT ![k] = IF ownerStatus = "active" THEN "insert" ELSE "done"]
  /\ UNCHANGED <<ownerStatus, signedIn, apiKey, checksUsed, deleting, checking, checkKey,
                 midMint, swallowed, actsLate>>

(* generateApiKey: the key, then its usage row; it fails in between or has *)
(* no project, and answers an error.                                       *)
InsertApiKey(k) ==
  /\ minting[k] = "insert"
  /\ \/ apiKey' = [apiKey EXCEPT ![k] = "live"] /\ minting' = [minting EXCEPT ![k] = "usage"]
     \/ minting' = [minting EXCEPT ![k] = "done"] /\ UNCHANGED apiKey
  /\ UNCHANGED <<ownerStatus, signedIn, checksUsed, deleting, checking, checkKey,
                 midMint, swallowed, actsLate>>

(* INSERT OR IGNORE INTO usage.                                            *)
EnsureUsage(k) == [checksUsed EXCEPT ![k] = IF @ = -1 THEN 0 ELSE @]

InsertKeysUsage(k) ==
  /\ minting[k] = "usage"
  /\ checksUsed' \in {checksUsed, EnsureUsage(k)}
  /\ minting' = [minting EXCEPT ![k] = "done"]
  /\ UNCHANGED <<ownerStatus, signedIn, apiKey, deleting, checking, checkKey,
                 midMint, swallowed, actsLate>>

RevokeApiKey(k) ==
  /\ apiKey[k] = "live"
  /\ apiKey' = [apiKey EXCEPT ![k] = "revoked"]
  /\ UNCHANGED <<ownerStatus, signedIn, checksUsed, minting, deleting, checking, checkKey,
                 midMint, swallowed, actsLate>>

-----------------------------------------------------------------------------
(* POST v1/account/delete-request.                                         *)

ReadDeletersSession(d) ==
  /\ deleting[d] = "new"
  /\ deleting' = [deleting EXCEPT ![d] = IF signedIn THEN "user" ELSE "done"]
  /\ UNCHANGED <<ownerStatus, signedIn, apiKey, checksUsed, minting, checking, checkKey,
                 midMint, swallowed, actsLate>>

ReadDeleter(d) ==
  /\ deleting[d] = "user"
  /\ deleting' = [deleting EXCEPT ![d] = IF ownerStatus = "active" THEN "mark" ELSE "done"]
  /\ UNCHANGED <<ownerStatus, signedIn, apiKey, checksUsed, minting, checking, checkKey,
                 midMint, swallowed, actsLate>>

(* Faulty variants, here and below, are what a plausible slip in the code  *)
(* would make of the definition that follows: each breaks a property.      *)
DeletionNotMarked(d) ==
  /\ deleting[d] = "mark"
  /\ deleting' = [deleting EXCEPT ![d] = "withdraw"]
  /\ UNCHANGED <<ownerStatus, signedIn, apiKey, checksUsed, minting, checking, checkKey,
                 midMint, swallowed, actsLate>>

(* requestAccountDeletion: the user's row, then the workspace's; when one  *)
(* throws nothing is withdrawn and the answer is an error.                 *)
RequestAccountDeletion(d) ==
  /\ deleting[d] = "mark"
  /\ \/ ownerStatus' = "deletion_requested" /\ deleting' = [deleting EXCEPT ![d] = "withdraw"]
     \/ /\ ownerStatus' \in {ownerStatus, "deletion_requested"}
        /\ deleting' = [deleting EXCEPT ![d] = "done"]
  /\ UNCHANGED <<signedIn, apiKey, checksUsed, minting, checking, checkKey,
                 midMint, swallowed, actsLate>>

(* The two withdrawals run side by side; the stage names what is left.     *)
After(d, withdrawn) ==
  IF deleting[d] = "withdraw"
  THEN IF withdrawn = "keys" THEN "sessions" ELSE "keys"
  ELSE "answer"

LiveKeys == {k \in Keys : apiKey[k] = "live"}

(* revokeAllApiKeys; an error is turned into a count of 0.                 *)
RevokeAllApiKeys(d) ==
  /\ deleting[d] \in {"withdraw", "keys"}
  /\ deleting' = [deleting EXCEPT ![d] = After(d, "keys")]
  /\ \/ /\ apiKey' = [k \in Keys |-> IF k \in LiveKeys THEN "revoked" ELSE apiKey[k]]
        /\ midMint' = midMint \cup {k \in Keys : minting[k] = "insert"}
        /\ UNCHANGED swallowed
     \/ swallowed' = TRUE /\ UNCHANGED <<apiKey, midMint>>
  /\ UNCHANGED <<ownerStatus, signedIn, checksUsed, minting, checking, checkKey, actsLate>>

(* deleteAllSessionsForUser; likewise.                                     *)
DeleteAllSessions(d) ==
  /\ deleting[d] \in {"withdraw", "sessions"}
  /\ deleting' = [deleting EXCEPT ![d] = After(d, "sessions")]
  /\ signedIn' \in {signedIn, FALSE}
  /\ UNCHANGED <<ownerStatus, apiKey, checksUsed, minting, checking, checkKey,
                 midMint, swallowed, actsLate>>

(* The isolate may die anywhere; that is not answering.                    *)
AnswerDeletion(d) ==
  /\ deleting[d] = "answer"
  /\ deleting' = [deleting EXCEPT ![d] = "ok"]
  /\ UNCHANGED <<ownerStatus, signedIn, apiKey, checksUsed, minting, checking, checkKey,
                 midMint, swallowed, actsLate>>

Answered == \E d \in Deletions : deleting[d] = "ok"

(* The account signs in again: SignIn gives a session whatever its status. *)
SignInAgain ==
  /\ ~signedIn
  /\ signedIn' = TRUE
  /\ UNCHANGED <<ownerStatus, apiKey, checksUsed, minting, deleting, checking, checkKey,
                 midMint, swallowed, actsLate>>

-----------------------------------------------------------------------------
(* POST v1/check-action, up to the answer of its plan limit.               *)

(* validateApiKeyFromRequest: one SELECT.                                  *)
ValidateApiKey(c) ==
  /\ checking[c] = "new"
  /\ \E k \in Keys :
       /\ checkKey' = [checkKey EXCEPT ![c] = k]
       /\ IF apiKey[k] = "live"
          THEN /\ checking' = [checking EXCEPT ![c] = "ensure"]
               /\ actsLate' = IF Answered THEN actsLate \cup {c} ELSE actsLate
          ELSE /\ checking' = [checking EXCEPT ![c] = "refused"]
               /\ UNCHANGED actsLate
  /\ UNCHANGED <<ownerStatus, signedIn, apiKey, checksUsed, minting, deleting, midMint, swallowed>>

EnsureChecksUsage(c) ==
  /\ checking[c] = "ensure"
  /\ checksUsed' = EnsureUsage(checkKey[c])
  /\ checking' = [checking EXCEPT ![c] = "increment"]
  /\ UNCHANGED <<ownerStatus, signedIn, apiKey, minting, deleting, checkKey,
                 midMint, swallowed, actsLate>>

(* incrementActionCheckUsage.                                              *)
IncrementActionCheckUsage(c) ==
  /\ checking[c] = "increment"
  /\ checksUsed' = [checksUsed EXCEPT ![checkKey[c]] = @ + 1]
  /\ checking' = [checking EXCEPT ![c] = "read"]
  /\ UNCHANGED <<ownerStatus, signedIn, apiKey, minting, deleting, checkKey,
                 midMint, swallowed, actsLate>>

ExceededAboveLimit(used) == used > CheckLimit

ActionCheckLimitExceeded(used) == used >= CheckLimit

(* getUsageForApiKey reads the counter again, after others moved it.       *)
CompareWithLimit(c) ==
  /\ checking[c] = "read"
  /\ checking' = [checking EXCEPT ![c] =
       IF ActionCheckLimitExceeded(checksUsed[checkKey[c]]) THEN "refused" ELSE "allowed"]
  /\ UNCHANGED <<ownerStatus, signedIn, apiKey, checksUsed, minting, deleting, checkKey,
                 midMint, swallowed, actsLate>>

AccessNext ==
  \/ \E k \in Keys :
       ReadMintersSession(k) \/ ReadMinter(k) \/ InsertApiKey(k) \/ InsertKeysUsage(k) \/ RevokeApiKey(k)
  \/ \E d \in Deletions :
       \/ ReadDeletersSession(d) \/ ReadDeleter(d) \/ RequestAccountDeletion(d)
       \/ RevokeAllApiKeys(d) \/ DeleteAllSessions(d) \/ AnswerDeletion(d)
  \/ SignInAgain
  \/ \E c \in Checks :
       ValidateApiKey(c) \/ EnsureChecksUsage(c) \/ IncrementActionCheckUsage(c) \/ CompareWithLimit(c)

AccessSpec == AccessInit /\ [][AccessNext]_accessVars

-----------------------------------------------------------------------------
(* Properties.                                                             *)

(* A key outlives an answered deletion only if the answer hid a failed     *)
(* revocation or the request that made the key was past its authorisation  *)
(* when the keys were revoked.  Signing in again opens no way back.        *)
DeletionLeavesOnlyInFlightKeys ==
  Answered => swallowed \/ LiveKeys \subseteq midMint

(* However calls interleave between increment and comparison, no key gets  *)
(* more than its plan: calls up to the limit, the last one excluded.       *)
PlanLimitHolds ==
  \A k \in Keys :
    LET allowed == {c \in Checks : checkKey[c] = k /\ checking[c] = "allowed"}
    IN  allowed # {} => Cardinality(allowed) < CheckLimit

(* What a key may do ends with the account and with the plan.              *)
KeysHaveAnEnd == DeletionLeavesOnlyInFlightKeys /\ PlanLimitHolds

-----------------------------------------------------------------------------
(* What a comment says and the code does not do.                           *)

(* Nothing belonging to the account can act after the call returns         *)
(* (route v1/account/delete-request).                                      *)
NothingActsAfterDeletion == actsLate = {}
=============================================================================
