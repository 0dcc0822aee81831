------------------------------ MODULE IdTokens ------------------------------
(***************************************************************************)
(* Id tokens and the signing keys they are checked against: fetchJwks and  *)
(* verifyIdToken of src/lib/oidc.ts, in one isolate.  The identity         *)
(* provider, which publishes and withdraws keys, is external.  A token is  *)
(* the key that signed it and whether issuer, audience, dates, nonce and   *)
(* subject are what they must be.                                          *)
(***************************************************************************)
EXTENDS Naturals

CONSTANTS
  SigningKeys,
  Verifications, (* calls of verifyIdToken                                  *)
  CacheTtl,      (* CACHE_TTL_MS                                            *)
  FetchTimeout,  (* of the request for the keys                             *)
  LastTime       (* bound on the clock                                      *)

ASSUME IdTokenBounds ==
  SigningKeys # {} /\ CacheTtl \in Nat /\ FetchTimeout \in Nat /\ LastTime \in Nat

VARIABLES
  time,
  publishedAt, withdrawnAt,   (* of each key, or Never                      *)
  keyCache,      (* jwksCache: the keys, and when they expire               *)
  verifyStage,
  signedBy, claimsHold,       (* the token that is verified                 *)
  keysGot,       (* the keys it is verified with                            *)
  sentAt,        (* when the provider sent them                             *)
  endedAt        (* history: when it was accepted or refused                *)

providerVars == <<publishedAt, withdrawnAt>>
verifyVars == <<verifyStage, signedBy, claimsHold, keysGot, sentAt, endedAt>>
idTokenVars == <<time, providerVars, keyCache, verifyVars>>

Never == LastTime + 1

VerifyStages == {"new", "fetching", "verify", "accepted", "jwks_failed", "no_signing_key", "refused"}

IdTokensTypeOK ==
  /\ time \in 0 .. LastTime
  /\ publishedAt \in [SigningKeys -> 0 .. Never] /\ withdrawnAt \in [SigningKeys -> 0 .. Never]
  /\ keyCache \in [keys : SUBSET SigningKeys, expiresAt : Nat]
  /\ verifyStage \in [Verifications -> VerifyStages]
  /\ signedBy \in [Verifications -> SigningKeys]
  /\ claimsHold \in [Verifications -> BOOLEAN]
  /\ keysGot \in [Verifications -> SUBSET SigningKeys]
  /\ sentAt \in [Verifications -> 0 .. time] /\ endedAt \in [Verifications -> 0 .. time]

IdTokensInit ==
  /\ time = 0
  /\ publishedAt = [k \in SigningKeys |-> Never]
  /\ withdrawnAt = [k \in SigningKeys |-> Never]
  /\ keyCache = [keys |-> {}, expiresAt |-> 0]
  /\ verifyStage = [v \in Verifications |-> "new"]
  /\ signedBy = [v \in Verifications |-> CHOOSE k \in SigningKeys : TRUE]
  /\ claimsHold = [v \in Verifications |-> FALSE]
  /\ keysGot = [v \in Verifications |-> {}]
  /\ sentAt = [v \in Verifications |-> 0]
  /\ endedAt = [v \in Verifications |-> 0]

-----------------------------------------------------------------------------
(* The provider.                                                           *)

Published == {k \in SigningKeys : publishedAt[k] # Never /\ withdrawnAt[k] = Never}

PublishKey(k) ==
  /\ publishedAt[k] = Never
  /\ publishedAt' = [publishedAt EXCEPT ![k] = time]
  /\ UNCHANGED <<time, withdrawnAt, keyCache, verifyVars>>

WithdrawKey(k) ==
  /\ k \in Published
  /\ withdrawnAt' = [withdrawnAt EXCEPT ![k] = time]
  /\ UNCHANGED <<time, publishedAt, keyCache, verifyVars>>

-----------------------------------------------------------------------------
(* verifyIdToken.                                                          *)

(* A token arrives, signed with a key that the provider may have published *)
(* or not.                                                                 *)
BeginVerify(v, k, holds) ==
  /\ verifyStage[v] = "new"
  /\ signedBy' = [signedBy EXCEPT ![v] = k]
  /\ claimsHold' = [claimsHold EXCEPT ![v] = holds]

(* Faulty variants, here and below, are what a plausible slip in the code  *)
(* would make of the definition that follows: each breaks a property.      *)
EveryHitRenews(v, k, holds) ==
  /\ BeginVerify(v, k, holds)
  /\ keyCache.expiresAt > time
  /\ keysGot' = [keysGot EXCEPT ![v] = keyCache.keys]
  /\ keyCache' = [keyCache EXCEPT !.expiresAt = time + CacheTtl]
  /\ verifyStage' = [verifyStage EXCEPT ![v] = "verify"]
  /\ UNCHANGED <<time, providerVars, sentAt, endedAt>>

(* fetchJwks finds the keys in the cache.                                  *)
VerifyWithCachedKeys(v, k, holds) ==
  /\ BeginVerify(v, k, holds)
  /\ keyCache.expiresAt > time
  /\ keysGot' = [keysGot EXCEPT ![v] = keyCache.keys]
  /\ verifyStage' = [verifyStage EXCEPT ![v] = "verify"]
  /\ UNCHANGED <<time, providerVars, keyCache, sentAt, endedAt>>

(* It does not, and asks: the provider's answer is under way.              *)
AskForKeys(v, k, holds) ==
  /\ BeginVerify(v, k, holds)
  /\ keyCache.expiresAt <= time
  /\ keysGot' = [keysGot EXCEPT ![v] = Published]
  /\ sentAt' = [sentAt EXCEPT ![v] = time]
  /\ verifyStage' = [verifyStage EXCEPT ![v] = "fetching"]
  /\ UNCHANGED <<time, providerVars, keyCache, endedAt>>

(* Whichever answer comes last is what the cache holds.                    *)
KeysArrive(v) ==
  /\ verifyStage[v] = "fetching"
  /\ keyCache' = [keys |-> keysGot[v], expiresAt |-> time + CacheTtl]
  /\ verifyStage' = [verifyStage EXCEPT ![v] = "verify"]
  /\ UNCHANGED <<time, providerVars, signedBy, claimsHold, keysGot, sentAt, endedAt>>

(* The locals are gone once it has returned or thrown.                     *)
EndVerify(v, how) ==
  /\ verifyStage' = [verifyStage EXCEPT ![v] = how]
  /\ endedAt' = [endedAt EXCEPT ![v] = time]
  /\ claimsHold' = [claimsHold EXCEPT ![v] = FALSE]
  /\ keysGot' = [keysGot EXCEPT ![v] = {}]
  /\ sentAt' = [sentAt EXCEPT ![v] = 0]
  /\ UNCHANGED <<time, providerVars, keyCache, signedBy>>

(* An error status, or the timeout.                                        *)
KeysDoNotArrive(v) == verifyStage[v] = "fetching" /\ EndVerify(v, "jwks_failed")

Verify(v) ==
  /\ verifyStage[v] = "verify"
  /\ EndVerify(v, IF signedBy[v] \notin keysGot[v] THEN "no_signing_key"
                  ELSE IF claimsHold[v] THEN "accepted" ELSE "refused")

(* Checking a signature takes no time to speak of, a request for the keys  *)
(* no longer than its timeout.                                             *)
TimePasses ==
  /\ time < LastTime
  /\ \A v \in Verifications :
       /\ verifyStage[v] # "verify"
       /\ verifyStage[v] = "fetching" => time < sentAt[v] + FetchTimeout
  /\ time' = time + 1
  /\ UNCHANGED <<providerVars, keyCache, verifyVars>>

IdTokensNext ==
  \/ \E k \in SigningKeys : PublishKey(k) \/ WithdrawKey(k)
  \/ \E v \in Verifications, k \in SigningKeys, holds \in BOOLEAN :
       VerifyWithCachedKeys(v, k, holds) \/ AskForKeys(v, k, holds)
  \/ \E v \in Verifications : KeysArrive(v) \/ KeysDoNotArrive(v) \/ Verify(v)
  \/ TimePasses

IdTokensSpec == IdTokensInit /\ [][IdTokensNext]_idTokenVars

-----------------------------------------------------------------------------
(* Properties.                                                             *)

(* A key that the provider has withdrawn is trusted no longer than the     *)
(* cache lives and a request for the keys takes, however the requests of   *)
(* several sign-ins overtake each other.                                   *)
TrustEndsWithTheCache ==
  \A v \in Verifications : verifyStage[v] = "accepted" =>
    endedAt[v] <= withdrawnAt[signedBy[v]] + FetchTimeout + CacheTtl

(* A token signed with a published key is refused for want of the key only *)
(* as long as a cache from before the key's publication may live.          *)
NewKeysAreFoundInTime ==
  \A v \in Verifications : verifyStage[v] = "no_signing_key" =>
    \/ withdrawnAt[signedBy[v]] <= endedAt[v]
    \/ endedAt[v] <= publishedAt[signedBy[v]] + FetchTimeout + CacheTtl

(* The cached keys are late by the cache's life and a request at most, for *)
(* keys that were withdrawn and for keys that are new.                     *)
SigningKeysAreCurrent == TrustEndsWithTheCache /\ NewKeysAreFoundInTime
=============================================================================
