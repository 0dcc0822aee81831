----------------------------- MODULE GlobMatch -----------------------------
(***************************************************************************)
(* The glob scan of src/lib/policyPattern.ts: matchesPattern, one action   *)
(* per turn of its loop, over patterns that validatePattern lets through.  *)
(* Letters stand for characters whose case has been folded.                *)
(***************************************************************************)
EXTENDS Naturals, Sequences, FiniteSets

CONSTANTS
  Letters,       (* the characters other than the two wildcards             *)
  MaxPattern,    (* MAX_PATTERN_LENGTH                                      *)
  MaxWildcards,  (* MAX_WILDCARDS                                           *)
  MaxSubject,    (* MAX_SUBJECT_LENGTH                                      *)
  MaxText        (* bound on the subjects that are tried                    *)

ASSUME GlobBounds == {"*", "?"} \cap Letters = {} /\ MaxSubject \in Nat

VARIABLES
  pattern, text, (* the arguments                                           *)
  pIndex, sIndex,
  starIndex,     (* Len(pattern) + 1 for the code's -1                      *)
  sBacktrack,
  matched,       (* "idle", "scanning", then "yes" or "no"                  *)
  turns          (* history: turns of the loop                              *)

globVars == <<pattern, text, pIndex, sIndex, starIndex, sBacktrack, matched, turns>>

WordsUpTo(alphabet, n) == UNION {[1 .. k -> alphabet] : k \in 0 .. n}

WildcardsIn(p) == {i \in DOMAIN p : p[i] \in {"*", "?"}}

(* validatePattern.                                                        *)
ValidPattern(p) ==
  /\ Len(p) \in 1 .. MaxPattern
  /\ Cardinality(WildcardsIn(p)) <= MaxWildcards
  /\ \A i \in 1 .. Len(p) - 1 : ~(p[i] = "*" /\ p[i + 1] = "*")

(* Before the call.                                                        *)
GlobInit ==
  /\ pattern = <<>> /\ text = <<>>
  /\ pIndex = 1 /\ sIndex = 1
  /\ starIndex = 1
  /\ sBacktrack = 1
  /\ matched = "idle"
  /\ turns = 0

(* The call: indices start at 1 here.                                      *)
MatchesPattern ==
  /\ matched = "idle"
  /\ \E p \in WordsUpTo(Letters \cup {"*", "?"}, MaxPattern), t \in WordsUpTo(Letters, MaxText) :
       /\ ValidPattern(p)
       /\ pattern' = p /\ text' = t
       /\ starIndex' = Len(p) + 1
  /\ matched' = "scanning"
  /\ UNCHANGED <<pIndex, sIndex, sBacktrack, turns>>

-----------------------------------------------------------------------------
(* The characters that are looked at.                                      *)
Subject == SubSeq(text, 1, IF Len(text) < MaxSubject THEN Len(text) ELSE MaxSubject)

Looking == matched = "scanning" /\ sIndex <= Len(Subject)

InPattern == pIndex <= Len(pattern)

OneMatchesOne == InPattern /\ pattern[pIndex] \in {"?", Subject[sIndex]}

AtStar == InPattern /\ pattern[pIndex] = "*"

ConsumeOne ==
  /\ Looking /\ OneMatchesOne
  /\ sIndex' = sIndex + 1 /\ pIndex' = pIndex + 1
  /\ turns' = turns + 1
  /\ UNCHANGED <<pattern, text, starIndex, sBacktrack, matched>>

RememberStar ==
  /\ Looking /\ ~OneMatchesOne /\ AtStar
  /\ starIndex' = pIndex
  /\ sBacktrack' = sIndex
  /\ pIndex' = pIndex + 1
  /\ turns' = turns + 1
  /\ UNCHANGED <<pattern, text, sIndex, matched>>

(* Faulty variants, here and below, are what a plausible slip in the code  *)
(* would make of the definition that follows: each breaks a property.      *)
WidenFromHere ==
  /\ Looking /\ ~OneMatchesOne /\ ~AtStar /\ starIndex <= Len(pattern)
  /\ pIndex' = starIndex + 1
  /\ sBacktrack' = sIndex + 1
  /\ sIndex' = sIndex + 1
  /\ turns' = turns + 1
  /\ UNCHANGED <<pattern, text, starIndex, matched>>

RetryTheSamePlace ==
  /\ Looking /\ ~OneMatchesOne /\ ~AtStar /\ starIndex <= Len(pattern)
  /\ pIndex' = starIndex + 1
  /\ sIndex' = sBacktrack
  /\ turns' = turns + 1
  /\ UNCHANGED <<pattern, text, starIndex, sBacktrack, matched>>

(* One more character for the last star.                                   *)
WidenStar ==
  /\ Looking /\ ~OneMatchesOne /\ ~AtStar /\ starIndex <= Len(pattern)
  /\ pIndex' = starIndex + 1
  /\ sBacktrack' = sBacktrack + 1
  /\ sIndex' = sBacktrack + 1
  /\ turns' = turns + 1
  /\ UNCHANGED <<pattern, text, starIndex, matched>>

Mismatch ==
  /\ Looking /\ ~OneMatchesOne /\ ~AtStar /\ starIndex > Len(pattern)
  /\ matched' = "no"
  /\ UNCHANGED <<pattern, text, pIndex, sIndex, starIndex, sBacktrack, turns>>

(* The subject is used up: only trailing stars may be left.                *)
EndOfSubject ==
  /\ matched = "scanning" /\ sIndex > Len(Subject)
  /\ matched' = IF \A i \in pIndex .. Len(pattern) : pattern[i] = "*" THEN "yes" ELSE "no"
  /\ UNCHANGED <<pattern, text, pIndex, sIndex, starIndex, sBacktrack, turns>>

GlobNext == MatchesPattern \/ ConsumeOne \/ RememberStar \/ WidenStar \/ Mismatch \/ EndOfSubject

GlobSpec == GlobInit /\ [][GlobNext]_globVars

-----------------------------------------------------------------------------
(* Properties.                                                             *)

(* What a glob means: cut[i] characters of the subject are covered by the  *)
(* first i of the pattern.                                                 *)
GlobCovers(p, s) ==
  \E cut \in [0 .. Len(p) -> 0 .. Len(s)] :
    /\ cut[0] = 0 /\ cut[Len(p)] = Len(s)
    /\ \A i \in 1 .. Len(p) :
         IF p[i] = "*" THEN cut[i] >= cut[i - 1]
         ELSE cut[i] = cut[i - 1] + 1 /\ p[i] \in {"?", s[cut[i]]}

(* The scan, which returns to its last star only, answers what a search    *)
(* through every way to cut the subject would.                             *)
ScanIsGlobMatching ==
  matched \in {"yes", "no"} => (matched = "yes" <=> GlobCovers(pattern, Subject))

(* Worst case O(pattern x subject), as the comment on matchesPattern says:  *)
(* a customer's pattern cannot hold the request path.                      *)
ScanIsBounded == turns <= (Len(pattern) + 1) * (Len(Subject) + 1)

(* The two-pointer scan decides what the pattern means, and stops.         *)
ScanIsRight == ScanIsGlobMatching /\ ScanIsBounded
=============================================================================
