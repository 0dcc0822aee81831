----------------------------- MODULE RateLimits -----------------------------
(***************************************************************************)
(* Abuse control: checkRateLimit of src/lib/rateLimit.ts, a fixed-window   *)
(* limiter in the memory of one isolate, as src/middleware.ts calls it     *)
(* before anything else.  A caller is a value of rateLimitKey.             *)
(***************************************************************************)
EXTENDS Naturals, FiniteSets

CONSTANTS
  Callers,
  RequestLimit,  (* limit of the area                                       *)
  WindowLength,  (* windowMs                                                *)
  MaxTracked,    (* MAX_TRACKED_KEYS                                        *)
  MaxNow         (* bound on the clock                                      *)

ASSUME RateBounds ==
  /\ RequestLimit \in Nat \ {0} /\ WindowLength \in Nat \ {0}
  /\ MaxTracked \in Nat \ {0} /\ MaxNow \in Nat

VARIABLES
  now,
  windows,       (* the Map: callers that have a window                     *)
  count, resetAt,
  passed,        (* history: per caller, the requests let through within    *)
                 (* the last window's length, while the caller is tracked   *)
  turnedAway     (* history: callers refused at this time                   *)

rateVars == <<now, windows, count, resetAt, passed, turnedAway>>

RateLimitsTypeOK ==
  /\ now \in 0 .. MaxNow
  /\ windows \in SUBSET Callers
  /\ count \in [Callers -> Nat]
  /\ resetAt \in [Callers -> Nat]
  /\ passed \in [Callers -> SUBSET [at : Nat, until : Nat, nth : Nat]]
  /\ turnedAway \in SUBSET Callers

RateLimitsInit ==
  /\ now = 0
  /\ windows = {}
  /\ count = [k \in Callers |-> 0]
  /\ resetAt = [k \in Callers |-> 0]
  /\ passed = [k \in Callers |-> {}]
  /\ turnedAway = {}

-----------------------------------------------------------------------------
Expired(k) == resetAt[k] <= now

(* Faulty variants, here and below, are what a plausible slip in the code  *)
(* would make of the definition that follows: each breaks a property.      *)
PurgeTheExpiredOnly ==
  IF Cardinality(windows) < MaxTracked THEN windows ELSE {k \in windows : ~Expired(k)}

(* What is left of a full map: the windows that have not expired, or none. *)
AfterPurge ==
  LET fresh == {k \in windows : ~Expired(k)}
  IN  IF Cardinality(windows) < MaxTracked THEN windows
      ELSE IF Cardinality(fresh) < MaxTracked THEN fresh
      ELSE {}

(* The request of k passes, as the nth of its window; the callers in       *)
(* dropped are no longer tracked.                                          *)
LetThrough(k, dropped) ==
  passed' = [j \in Callers |->
    IF j = k THEN passed[k] \cup {[at |-> now, until |-> resetAt'[k], nth |-> count'[k]]}
    ELSE IF j \in dropped THEN {} ELSE passed[j]]

StartFromZero(k) ==
  /\ k \notin windows \/ Expired(k)
  /\ windows' = AfterPurge \cup {k}
  /\ count' = [count EXCEPT ![k] = 0]
  /\ resetAt' = [resetAt EXCEPT ![k] = now + WindowLength]
  /\ LetThrough(k, {j \in windows \ AfterPurge : ~Expired(j)})
  /\ turnedAway' = turnedAway \cap windows'
  /\ UNCHANGED now

(* The first request of a window.                                          *)
OpenWindow(k) ==
  /\ k \notin windows \/ Expired(k)
  /\ windows' = AfterPurge \cup {k}
  /\ count' = [count EXCEPT ![k] = 1]
  /\ resetAt' = [resetAt EXCEPT ![k] = now + WindowLength]
  /\ LetThrough(k, {j \in windows \ AfterPurge : ~Expired(j)})
  /\ turnedAway' = turnedAway \cap windows'
  /\ UNCHANGED now

BelowLimit(k) == count[k] + 1 < RequestLimit

WithinLimit(k) == count[k] + 1 <= RequestLimit

(* The others; a count is not told apart once it is above the limit.       *)
CountInWindow(k) ==
  /\ k \in windows /\ ~Expired(k)
  /\ UNCHANGED <<now, windows, resetAt>>
  /\ count' = [count EXCEPT ![k] = IF @ > RequestLimit THEN @ ELSE @ + 1]
  /\ IF WithinLimit(k)
     THEN LetThrough(k, {}) /\ UNCHANGED turnedAway
     ELSE turnedAway' = turnedAway \cup {k} /\ UNCHANGED passed

Tick ==
  /\ now < MaxNow
  /\ now' = now + 1
  /\ passed' = [k \in Callers |-> {p \in passed[k] : now' < p.at + WindowLength}]
  /\ turnedAway' = {}
  /\ UNCHANGED <<windows, count, resetAt>>

(* A new isolate starts with an empty map.                                 *)
IsolateRestarts ==
  /\ windows' = {}
  /\ passed' = [k \in Callers |-> IF k \in windows /\ ~Expired(k) THEN {} ELSE passed[k]]
  /\ turnedAway' = {}
  /\ UNCHANGED <<now, count, resetAt>>

RateLimitsNext ==
  \/ \E k \in Callers : OpenWindow(k) \/ CountInWindow(k)
  \/ Tick \/ IsolateRestarts

RateLimitsSpec == RateLimitsInit /\ [][RateLimitsNext]_rateVars

-----------------------------------------------------------------------------
(* Properties.                                                             *)

(* Requests of a caller let through in the last window's length of time.   *)
Recent(k) == Cardinality(passed[k])

(* No stretch of time as long as a window sees more than twice the limit   *)
(* of one caller, wherever it begins, while the caller is tracked.         *)
TwiceTheLimitAtMost == \A k \in Callers : Recent(k) <= 2 * RequestLimit

(* A caller is turned away for its own requests only: it has had the whole *)
(* limit within a window's length, whatever the others do to the map.      *)
OnlyTheNoisyAreRefused == \A k \in turnedAway : Recent(k) >= RequestLimit

(* A flood of callers does not grow the map without limit.                 *)
MapStaysSmall == Cardinality(windows) <= MaxTracked

(* The limiter bounds each caller, and only by its own requests, within a  *)
(* map of bounded size.                                                    *)
LimitsAreFair == TwiceTheLimitAtMost /\ OnlyTheNoisyAreRefused /\ MapStaysSmall
=============================================================================
