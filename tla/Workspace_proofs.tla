-------------------------- MODULE Workspace_proofs --------------------------
(***************************************************************************)
(* What a workspace is protected by, beside who may act for it: the rate   *)
(* limiter, and the care sandboxes take of keys, quotas and the isolate    *)
(* they share.  For any number of callers, calls and workspaces and any    *)
(* limit.                                                                  *)
(***************************************************************************)
EXTENDS MCWorkspace, Identity_proofs

-----------------------------------------------------------------------------
(* The rate limiter.  Every request that passed is the nth of its window,  *)
(* windows of a caller follow each other, and two requests never share a   *)
(* window and a number: so a window's length sees two windows at most.     *)
PassedInOrder ==
  \A k \in Callers :
    /\ \A p \in passed[k] :
         /\ now < p.at + WindowLength /\ p.at < p.until /\ p.until <= p.at + WindowLength
         /\ p.until <= resetAt[k] /\ p.nth \in 1 .. RequestLimit
         /\ k \notin windows => p.until <= now
         /\ p.until = resetAt[k] => p.nth <= count[k]
    /\ \A p, r \in passed[k] :
         /\ p.until < r.until => p.until + WindowLength <= r.until
         /\ p.until = r.until /\ p.nth = r.nth => p = r

(* A window that has not run out remembers all that passed in it.          *)
WindowsRemember ==
  \A k \in windows :
    /\ resetAt[k] <= now + WindowLength
    /\ ~Expired(k) =>
         /\ count[k] > 0
         /\ \A n \in 1 .. RequestLimit : n <= count[k] =>
              \E p \in passed[k] : p.until = resetAt[k] /\ p.nth = n

RefusedAreTracked ==
  \A k \in turnedAway : k \in windows /\ ~Expired(k) /\ count[k] > RequestLimit

MapIsBounded == IsFiniteSet(windows) /\ MapStaysSmall

RateInv ==
  /\ RateLimitsTypeOK
  /\ PassedInOrder /\ WindowsRemember /\ RefusedAreTracked /\ MapIsBounded

LEMMA RateInit == RateLimitsInit => RateInv
<1> SUFFICES ASSUME RateLimitsInit PROVE RateInv
  OBVIOUS
<1>1. RateLimitsTypeOK
  BY RateBounds DEF RateLimitsInit, RateLimitsTypeOK
<1>2. MapIsBounded
  BY RateBounds, FS_EmptySet DEF RateLimitsInit, MapIsBounded, MapStaysSmall
<1>3. PassedInOrder /\ WindowsRemember /\ RefusedAreTracked
  BY DEF RateLimitsInit, PassedInOrder, WindowsRemember, RefusedAreTracked
<1> QED BY <1>1, <1>2, <1>3 DEF RateInv

(* A new caller finds room: whatever is purged, one more fits.             *)
LEMMA PurgeMakesRoom ==
  ASSUME MapIsBounded, NEW k
  PROVE  /\ AfterPurge \subseteq windows /\ IsFiniteSet(AfterPurge \cup {k})
         /\ Cardinality(AfterPurge \cup {k}) <= MaxTracked
<1> DEFINE fresh == {j \in windows : ~Expired(j)}
<1>1. IsFiniteSet(windows) /\ IsFiniteSet(fresh)
  BY FS_Subset DEF MapIsBounded
<1>2. Cardinality(windows) \in Nat /\ Cardinality(fresh) \in Nat
  BY <1>1, FS_CardinalityType
<1>3. /\ AfterPurge \subseteq windows /\ IsFiniteSet(AfterPurge)
      /\ Cardinality(AfterPurge) \in Nat /\ Cardinality(AfterPurge) < MaxTracked
  BY <1>1, <1>2, RateBounds, FS_EmptySet DEF AfterPurge
<1> QED BY <1>3, RateBounds, FS_AddElement

LEMMA OpenWindowStep ==
  ASSUME RateInv, NEW k \in Callers, OpenWindow(k) PROVE RateInv'
<1> DEFINE dropped == {j \in windows \ AfterPurge : ~Expired(j)}
           new == [at |-> now, until |-> now + WindowLength, nth |-> 1]
<1> USE RateBounds DEF RateInv, RateLimitsTypeOK
<1>1. /\ k \notin windows \/ resetAt[k] <= now
      /\ windows' = AfterPurge \cup {k} /\ now' = now
      /\ count' = [count EXCEPT ![k] = 1] /\ resetAt' = [resetAt EXCEPT ![k] = now + WindowLength]
      /\ turnedAway' = turnedAway \cap windows'
  BY DEF OpenWindow, Expired
<1>2. /\ k \notin dropped
      /\ passed' = [j \in Callers |-> IF j = k THEN passed[k] \cup {new}
                                      ELSE IF j \in dropped THEN {} ELSE passed[j]]
  BY DEF OpenWindow, LetThrough, Expired
<1>3. AfterPurge \subseteq windows /\ MapIsBounded'
  BY <1>1, PurgeMakesRoom DEF MapIsBounded, MapStaysSmall
<1>4. new \in [at : Nat, until : Nat, nth : Nat] /\ windows' \subseteq Callers
  BY <1>1, <1>3
<1>5. RateLimitsTypeOK'
  BY <1>1, <1>2, <1>4
<1>6. \A p \in passed[k] : p.until <= now
  BY <1>1 DEF PassedInOrder
<1>7. PassedInOrder'
  <2> SUFFICES ASSUME NEW j \in Callers
               PROVE  /\ \A p \in passed'[j] :
                           /\ now < p.at + WindowLength /\ p.at < p.until /\ p.until <= p.at + WindowLength
                           /\ p.until <= resetAt'[j] /\ p.nth \in 1 .. RequestLimit
                           /\ j \notin windows' => p.until <= now
                           /\ p.until = resetAt'[j] => p.nth <= count'[j]
                      /\ \A p, r \in passed'[j] :
                           /\ p.until < r.until => p.until + WindowLength <= r.until
                           /\ p.until = r.until /\ p.nth = r.nth => p = r
    BY <1>1 DEF PassedInOrder
  <2>1. CASE j = k
    <3>1. /\ resetAt'[j] = now + WindowLength /\ count'[j] = 1 /\ passed'[j] = passed[k] \cup {new}
          /\ j \in windows'
      BY <1>1, <1>2, <2>1
    <3>2. new.at = now /\ new.until = now + WindowLength /\ new.nth = 1
      OBVIOUS
    <3>3. \A p \in passed[k] :
            /\ p.at \in Nat /\ p.until \in Nat /\ p.nth \in Nat
            /\ now < p.at + WindowLength /\ p.at < p.until /\ p.nth \in 1 .. RequestLimit /\ p.until <= now
      BY <1>6 DEF PassedInOrder
    <3>4. \A p, r \in passed[k] :
            /\ p.until < r.until => p.until + WindowLength <= r.until
            /\ p.until = r.until /\ p.nth = r.nth => p = r
      BY DEF PassedInOrder
    <3> HIDE DEF new
    <3> QED BY <3>1, <3>2, <3>3, <3>4
  <2>2. CASE j # k
    <3>1. /\ resetAt'[j] = resetAt[j] /\ count'[j] = count[j]
          /\ passed'[j] = {} \/ (passed'[j] = passed[j] /\ j \notin dropped)
      BY <1>1, <1>2, <2>2
    <3>2. CASE passed'[j] = passed[j] /\ j \notin dropped
      <4>1. j \notin windows' => j \notin windows \/ resetAt[j] <= now
        BY <1>1, <3>2 DEF Expired
      <4> QED BY <3>1, <3>2, <4>1 DEF PassedInOrder
    <3> QED BY <3>1, <3>2
  <2> QED BY <2>1, <2>2
<1>8. WindowsRemember'
  <2> SUFFICES ASSUME NEW j \in windows'
               PROVE  /\ resetAt'[j] <= now + WindowLength
                      /\ ~(resetAt'[j] <= now) =>
                           /\ count'[j] > 0
                           /\ \A n \in 1 .. RequestLimit : n <= count'[j] =>
                                \E p \in passed'[j] : p.until = resetAt'[j] /\ p.nth = n
    BY <1>1 DEF WindowsRemember, Expired
  <2>1. CASE j = k
    <3>1. /\ resetAt'[j] = now + WindowLength /\ count'[j] = 1 /\ new \in passed'[j]
      BY <1>1, <1>2, <2>1
    <3>2. new.until = now + WindowLength /\ new.nth = 1
      OBVIOUS
    <3> QED BY <3>1, <3>2
  <2>2. CASE j # k
    <3>1. j \in windows /\ j \notin dropped /\ j \in Callers
      BY <1>1, <1>3, <2>2
    <3>2. resetAt'[j] = resetAt[j] /\ count'[j] = count[j] /\ passed'[j] = passed[j]
      BY <1>1, <1>2, <2>2, <3>1
    <3> QED BY <3>1, <3>2 DEF WindowsRemember, Expired
  <2> QED BY <2>1, <2>2
<1>9. RefusedAreTracked'
  <2>1. k \notin turnedAway
    BY <1>1 DEF RefusedAreTracked, Expired
  <2> QED BY <1>1, <2>1 DEF RefusedAreTracked, Expired
<1> QED BY <1>3, <1>5, <1>7, <1>8, <1>9

LEMMA CountInWindowStep ==
  ASSUME RateInv, NEW k \in Callers, CountInWindow(k) PROVE RateInv'
<1> DEFINE new == [at |-> now, until |-> resetAt[k], nth |-> count[k] + 1]
<1> USE RateBounds DEF RateInv, RateLimitsTypeOK
<1>1. /\ k \in windows /\ now < resetAt[k] /\ UNCHANGED <<now, windows, resetAt>>
      /\ count' = [count EXCEPT ![k] = IF @ > RequestLimit THEN @ ELSE @ + 1]
  BY DEF CountInWindow, Expired
<1>2. MapIsBounded'
  BY <1>1 DEF MapIsBounded, MapStaysSmall
<1>3. CASE WithinLimit(k)
  <2>1. /\ count[k] + 1 <= RequestLimit /\ count'[k] = count[k] + 1 /\ turnedAway' = turnedAway
        /\ passed' = [passed EXCEPT ![k] = passed[k] \cup {new}]
    BY <1>1, <1>3 DEF CountInWindow, WithinLimit, LetThrough
  <2>2. new \in [at : Nat, until : Nat, nth : Nat]
    OBVIOUS
  <2>3. new.at = now /\ new.until = resetAt[k] /\ new.nth = count[k] + 1
    OBVIOUS
  <2> HIDE DEF new
  <2>4. RateLimitsTypeOK'
    BY <1>1, <2>1, <2>2
  <2>5. PassedInOrder'
    <3>0. passed'[k] = passed[k] \cup {new}
      BY <2>1
    <3>1. \A p \in passed[k] : p.until \in Nat /\ p.nth \in Nat
      OBVIOUS
    <3>2. count[k] + 1 \in 1 .. RequestLimit
      BY <2>1
    <3>3. \A p \in passed[k] :
            /\ p.until < new.until => p.until + WindowLength <= new.until
            /\ ~(p.until > new.until) /\ ~(p.until = new.until /\ p.nth = new.nth)
      <4>1. PICK r \in passed[k] : r.until = resetAt[k]
        <5>1. 1 <= count[k] /\ 1 \in 1 .. RequestLimit
          BY <1>1 DEF WindowsRemember, Expired
        <5> QED BY <1>1, <5>1 DEF WindowsRemember, Expired
      <4> QED BY <2>3, <3>1, <4>1 DEF PassedInOrder
    <3>4. \A p \in passed'[k] :
            /\ now < p.at + WindowLength /\ p.at < p.until /\ p.until <= p.at + WindowLength
            /\ p.until <= resetAt'[k] /\ p.nth \in 1 .. RequestLimit
            /\ k \notin windows' => p.until <= now
            /\ p.until = resetAt'[k] => p.nth <= count'[k]
      <4>1. ASSUME NEW p \in passed[k] PROVE p.at \in Nat /\ p.until \in Nat /\ p.nth \in Nat
        OBVIOUS
      <4>2. resetAt[k] <= now + WindowLength
        BY <1>1 DEF WindowsRemember
      <4> QED BY <1>1, <2>1, <2>3, <3>0, <3>2, <4>1, <4>2 DEF PassedInOrder
    <3>5. \A p, r \in passed'[k] :
            /\ p.until < r.until => p.until + WindowLength <= r.until
            /\ p.until = r.until /\ p.nth = r.nth => p = r
      <4>1. \A p, r \in passed[k] :
              /\ p.until < r.until => p.until + WindowLength <= r.until
              /\ p.until = r.until /\ p.nth = r.nth => p = r
        BY DEF PassedInOrder
      <4>2. new.until \in Nat
        BY <2>3
      <4> QED BY <3>0, <3>1, <3>3, <4>1, <4>2
    <3>6. \A j \in Callers : j # k => passed'[j] = passed[j] /\ count'[j] = count[j]
      BY <1>1, <2>1
    <3> QED BY <1>1, <3>4, <3>5, <3>6 DEF PassedInOrder
  <2>6. WindowsRemember'
    <3>1. ASSUME NEW n \in 1 .. RequestLimit, n <= count'[k]
          PROVE  \E p \in passed'[k] : p.until = resetAt[k] /\ p.nth = n
      <4>1. CASE n = count[k] + 1
        BY <2>1, <2>3, <4>1
      <4>2. CASE n <= count[k]
        BY <1>1, <2>1, <4>2 DEF WindowsRemember, Expired
      <4> QED BY <2>1, <3>1, <4>1, <4>2
    <3>2. \A j \in windows : j # k => passed'[j] = passed[j] /\ count'[j] = count[j]
      BY <1>1, <2>1
    <3> QED BY <1>1, <2>1, <3>1, <3>2 DEF WindowsRemember, Expired
  <2>7. RefusedAreTracked'
    BY <1>1, <2>1 DEF RefusedAreTracked, Expired
  <2> QED BY <1>2, <2>4, <2>5, <2>6, <2>7
<1>4. CASE ~WithinLimit(k)
  <2>1. /\ count[k] >= RequestLimit /\ count'[k] > RequestLimit /\ count'[k] >= count[k]
        /\ turnedAway' = turnedAway \cup {k} /\ passed' = passed
    BY <1>1, <1>4 DEF CountInWindow, WithinLimit
  <2>2. \A j \in Callers : j # k => count'[j] = count[j]
    BY <1>1
  <2>3. RateLimitsTypeOK'
    BY <1>1, <2>1
  <2>4. PassedInOrder'
    BY <1>1, <2>1, <2>2 DEF PassedInOrder
  <2>5. WindowsRemember'
    BY <1>1, <2>1, <2>2 DEF WindowsRemember, Expired
  <2>6. RefusedAreTracked'
    BY <1>1, <2>1, <2>2 DEF RefusedAreTracked, Expired
  <2> QED BY <1>2, <2>3, <2>4, <2>5, <2>6
<1> QED BY <1>3, <1>4

LEMMA TimeStep == RateInv /\ (Tick \/ IsolateRestarts) => RateInv'
<1> SUFFICES ASSUME RateInv, Tick \/ IsolateRestarts PROVE RateInv'
  OBVIOUS
<1> USE RateBounds DEF RateInv, RateLimitsTypeOK
<1>1. CASE Tick
  <2>1. /\ now' = now + 1 /\ now' \in 0 .. MaxNow /\ turnedAway' = {} /\ UNCHANGED <<windows, count, resetAt>>
        /\ passed' = [k \in Callers |-> {p \in passed[k] : now' < p.at + WindowLength}]
    BY <1>1 DEF Tick
  <2>2. MapIsBounded' /\ RefusedAreTracked' /\ RateLimitsTypeOK'
    BY <2>1 DEF MapIsBounded, MapStaysSmall, RefusedAreTracked
  <2>3. PassedInOrder'
    <3>1. \A k \in Callers : passed'[k] \subseteq passed[k] /\ \A p \in passed'[k] : now' < p.at + WindowLength
      BY <2>1
    <3>2. \A k \in Callers : \A p \in passed[k] : p.until \in Nat
      OBVIOUS
    <3> QED BY <2>1, <3>1, <3>2 DEF PassedInOrder
  <2>4. WindowsRemember'
    <3>1. ASSUME NEW k \in windows PROVE resetAt[k] <= now' + WindowLength /\ (now' < resetAt[k] => now < resetAt[k])
      BY <2>1 DEF WindowsRemember
    <3>2. ASSUME NEW k \in windows, now' < resetAt[k], NEW n \in 1 .. RequestLimit, n <= count[k]
          PROVE  \E p \in passed'[k] : p.until = resetAt[k] /\ p.nth = n
      <4>1. PICK p \in passed[k] : p.until = resetAt[k] /\ p.nth = n
        BY <3>1, <3>2 DEF WindowsRemember, Expired
      <4>2. now' < p.at + WindowLength
        <5>1. p.at \in Nat /\ p.until \in Nat /\ resetAt[k] <= p.at + WindowLength
          BY <4>1 DEF PassedInOrder
        <5> QED BY <2>1, <3>2, <5>1
      <4> QED BY <2>1, <4>1, <4>2
    <3>3. ASSUME NEW k \in windows, now' < resetAt[k] PROVE count[k] > 0
      BY <3>1, <3>3 DEF WindowsRemember, Expired
    <3> QED BY <2>1, <3>1, <3>2, <3>3 DEF WindowsRemember, Expired
  <2> QED BY <2>2, <2>3, <2>4
<1>2. CASE IsolateRestarts
  <2>1. /\ windows' = {} /\ turnedAway' = {} /\ UNCHANGED <<now, count, resetAt>>
        /\ passed' = [k \in Callers |-> IF k \in windows /\ ~Expired(k) THEN {} ELSE passed[k]]
    BY <1>2 DEF IsolateRestarts
  <2>2. MapIsBounded'
    BY <2>1, FS_EmptySet DEF MapIsBounded, MapStaysSmall
  <2>3. RateLimitsTypeOK' /\ WindowsRemember' /\ RefusedAreTracked'
    BY <2>1 DEF WindowsRemember, RefusedAreTracked
  <2>4. PassedInOrder'
    <3>1. \A k \in Callers : \/ passed'[k] = {}
                             \/ passed'[k] = passed[k] /\ \A p \in passed[k] : p.until <= now
      BY <2>1 DEF PassedInOrder, Expired
    <3> QED BY <2>1, <3>1 DEF PassedInOrder
  <2> QED BY <2>2, <2>3, <2>4
<1> QED BY <1>1, <1>2


(* A window numbers the requests it lets through up to the limit.          *)
LEMMA WindowIsBounded ==
  ASSUME RateInv, NEW k \in Callers, NEW u
  PROVE  LET inWindow == {p \in passed[k] : p.until = u}
         IN  /\ IsFiniteSet(inWindow)
             /\ Cardinality(inWindow) \in Nat /\ Cardinality(inWindow) <= RequestLimit
<1> DEFINE S == {p \in passed[k] : p.until = u}
           f == [p \in S |-> p.nth]
<1>1. f \in [S -> 1 .. RequestLimit]
  BY DEF RateInv, PassedInOrder
<1>2. \A p, r \in S : f[p] = f[r] => p = r
  BY DEF RateInv, PassedInOrder
<1>3. f \in Injection(S, 1 .. RequestLimit)
  BY <1>1, <1>2 DEF Injection, IsInjective
<1>4. IsFiniteSet(1 .. RequestLimit) /\ Cardinality(1 .. RequestLimit) = RequestLimit
  BY RateBounds, FS_Interval
<1>5. IsFiniteSet(S) /\ Cardinality(S) <= Cardinality(1 .. RequestLimit)
  <2> HIDE DEF S, f
  <2> QED BY <1>3, <1>4, FS_Injection
<1> QED BY <1>4, <1>5, FS_CardinalityType

(* No three windows reach into one window's length of time.                *)
LEMMA TwoWindowsAtMost ==
  ASSUME RateInv, NEW k \in Callers,
         NEW p \in passed[k], NEW r \in passed[k], NEW q \in passed[k],
         p.until # r.until
  PROVE  q.until = p.until \/ q.until = r.until
<1>1. \A x \in passed[k] : /\ x.at \in Nat /\ x.until \in Nat
                           /\ now < x.at + WindowLength /\ x.at < x.until /\ x.until <= now + WindowLength
  <2>1. \A x \in passed[k] : /\ x.at \in Nat /\ x.until \in Nat
                             /\ now < x.at + WindowLength /\ x.at < x.until
                             /\ x.until <= resetAt[k] /\ (k \notin windows => x.until <= now)
    BY DEF RateInv, RateLimitsTypeOK, PassedInOrder
  <2>2. k \in windows => resetAt[k] <= now + WindowLength
    BY DEF RateInv, WindowsRemember
  <2> QED BY <2>1, <2>2, RateBounds DEF RateInv, RateLimitsTypeOK
<1>2. \A x, y \in passed[k] : x.until < y.until => x.until + WindowLength <= y.until
  BY DEF RateInv, PassedInOrder
<1>3. ASSUME NEW x \in passed[k], NEW y \in passed[k], NEW z \in passed[k]
      PROVE  ~(x.until < y.until /\ y.until < z.until)
  <2>1. x.until < y.until /\ y.until < z.until =>
          x.until + WindowLength <= y.until /\ y.until + WindowLength <= z.until
    BY <1>2
  <2> QED BY <1>1, <2>1, RateBounds DEF RateInv, RateLimitsTypeOK
<1> QED BY <1>1, <1>3

LEMMA PassedIsBounded ==
  ASSUME RateInv, NEW k \in Callers
  PROVE  IsFiniteSet(passed[k]) /\ Recent(k) <= 2 * RequestLimit
<1> DEFINE W(u) == {p \in passed[k] : p.until = u}
<1>1. \A u : IsFiniteSet(W(u)) /\ Cardinality(W(u)) \in Nat /\ Cardinality(W(u)) <= RequestLimit
  BY WindowIsBounded
<1>2. \E u, v : passed[k] = W(u) \cup W(v)
  <2>1. CASE \E p, r \in passed[k] : p.until # r.until
    <3>1. PICK p \in passed[k], r \in passed[k] : p.until # r.until
      BY <2>1
    <3>2. \A q \in passed[k] : q.until = p.until \/ q.until = r.until
      BY <3>1, TwoWindowsAtMost
    <3>3. passed[k] = W(p.until) \cup W(r.until)
      BY <3>2
    <3> QED BY <3>3
  <2>2. CASE ~\E p, r \in passed[k] : p.until # r.until
    <3>1. \A p \in passed[k] : passed[k] = W(p.until) \cup W(p.until)
      BY <2>2
    <3>2. passed[k] = {} => passed[k] = W(0) \cup W(0)
      OBVIOUS
    <3> QED BY <3>1, <3>2
  <2> QED BY <2>1, <2>2
<1>3. PICK u, v : passed[k] = W(u) \cup W(v)
  BY <1>2
<1>4. IsFiniteSet(W(u) \cap W(v))
  <2>1. IsFiniteSet(W(u)) /\ W(u) \cap W(v) \in SUBSET W(u)
    BY <1>1
  <2> HIDE DEF W
  <2> QED BY <2>1, FS_Subset
<1>5. /\ IsFiniteSet(passed[k])
      /\ Cardinality(passed[k]) = Cardinality(W(u)) + Cardinality(W(v)) - Cardinality(W(u) \cap W(v))
  <2> HIDE DEF W
  <2> QED BY <1>1, <1>3, FS_Union
<1>6. Cardinality(W(u) \cap W(v)) \in Nat
  BY <1>4, FS_CardinalityType
<1> HIDE DEF W
<1> QED BY <1>1, <1>5, <1>6, RateBounds DEF Recent

(* Who is refused has had every number of its window.                      *)
LEMMA RefusedHadTheLimit ==
  ASSUME RateInv, NEW k \in turnedAway PROVE Recent(k) >= RequestLimit
<1>1. k \in Callers /\ k \in windows /\ ~Expired(k) /\ count[k] > RequestLimit /\ count[k] \in Nat
  BY DEF RateInv, RateLimitsTypeOK, RefusedAreTracked
<1>2. \A n \in 1 .. RequestLimit : \E p \in passed[k] : p.until = resetAt[k] /\ p.nth = n
  BY <1>1, RateBounds DEF RateInv, WindowsRemember
<1> DEFINE f == [n \in 1 .. RequestLimit |-> CHOOSE p \in passed[k] : p.until = resetAt[k] /\ p.nth = n]
<1>3. \A n \in 1 .. RequestLimit : f[n] \in passed[k] /\ f[n].nth = n
  BY <1>2
<1>4. f \in Injection(1 .. RequestLimit, passed[k])
  <2>1. f \in [1 .. RequestLimit -> passed[k]]
    BY <1>3
  <2>2. \A m, n \in 1 .. RequestLimit : f[m] = f[n] => m = n
    BY <1>3
  <2> HIDE DEF f
  <2> QED BY <2>1, <2>2 DEF Injection, IsInjective
<1>5. IsFiniteSet(passed[k])
  BY <1>1, PassedIsBounded
<1>6. Cardinality(1 .. RequestLimit) = RequestLimit
  BY RateBounds, FS_Interval
<1> HIDE DEF f
<1> QED BY <1>4, <1>5, <1>6, FS_Injection DEF Recent

LEMMA RateStep == RateInv /\ [RateLimitsNext]_rateVars => RateInv'
<1> SUFFICES ASSUME RateInv, [RateLimitsNext]_rateVars PROVE RateInv'
  OBVIOUS
<1>1. CASE RateLimitsNext
  BY <1>1, OpenWindowStep, CountInWindowStep, TimeStep DEF RateLimitsNext
<1>2. CASE UNCHANGED rateVars
  BY <1>2 DEF rateVars, RateInv, RateLimitsTypeOK, PassedInOrder, WindowsRemember, RefusedAreTracked,
     MapIsBounded, MapStaysSmall, Expired
<1> QED BY <1>1, <1>2

(* However callers, time and restarts of the isolate interleave, the       *)
(* limiter bounds each caller, refuses only who has had its limit, and     *)
(* keeps its map small.                                                    *)
THEOREM LimitSafety == RateLimitsSpec => []LimitsAreFair
<1>1. RateInv => LimitsAreFair
  BY PassedIsBounded, RefusedHadTheLimit
     DEF LimitsAreFair, TwiceTheLimitAtMost, OnlyTheNoisyAreRefused, RateInv, RateLimitsTypeOK, MapIsBounded
<1> QED BY <1>1, RateInit, RateStep, PTL DEF RateLimitsSpec

-----------------------------------------------------------------------------
(* The sandboxes.  What a call has become tells which steps are left to it. *)
HistoryTypes ==
  /\ tokenBefore \in [SandboxCalls -> {"operator", "empty"}]
  /\ everSaved \in [Tenants -> SUBSET E2BKeys]
  /\ leaked \subseteq SandboxCalls /\ lateTest \subseteq Tenants /\ overlapped \in BOOLEAN

CallsAreInOrder ==
  \A c \in SandboxCalls :
    /\ callStage[c] = "new" => callKind[c] = "none" /\ callKey[c] = NoE2BKey
    /\ callStage[c] # "new" => callKind[c] # "none" /\ tenant[c] \in Tenants
    /\ callStage[c] \in {"compare", "decide"} => callKind[c] = "run"
    /\ callStage[c] \in {"config", "record"} => callKind[c] = "test"

CallsReadSavedKeys ==
  /\ RunsOnItsOwnKey
  /\ \A w \in Tenants : e2bKey[w] # NoE2BKey => e2bKey[w] \in everSaved[w]

(* A sandbox is up between its creation and its kill.                      *)
SandboxesAreWatched == \A c \in alive : callStage[c] \in {"command", "kill"} \/ c \in leaked

(* While creations keep apart, the one under way holds the operator's token. *)
TokenIsKept ==
  ~overlapped =>
    IF \E c \in SandboxCalls : callStage[c] = "creating"
    THEN \A c \in SandboxCalls : callStage[c] = "creating" =>
           /\ tokenBefore[c] = "operator"
           /\ \A d \in SandboxCalls : callStage[d] = "creating" => d = c
    ELSE accessToken = "operator"

(* A test that may yet succeed found a key, which is there still unless it *)
(* was removed under the test.                                             *)
MaySucceed(c) ==
  /\ callKind[c] = "test"
  /\ \/ callStage[c] \in {"create", "creating", "command", "kill"}
     \/ callStage[c] = "record" /\ result[c] = "success"

TestsHaveAKey ==
  \A c \in SandboxCalls : MaySucceed(c) => e2bKey[tenant[c]] # NoE2BKey \/ tenant[c] \in lateTest

(* The runs that have been counted, and those that went past the limit's   *)
(* check: these were all counted when the last of them was let through.    *)
Counted(w) == {c \in SandboxCalls : tenant[c] = w /\ callKind[c] = "run"}

PastTheLimit(w) ==
  {c \in Counted(w) : callStage[c] \notin {"compare", "done"} \/ callKey[c] # NoE2BKey}

RunsAreCounted ==
  \A w \in Tenants :
    /\ IsFiniteSet(Counted(w)) /\ Cardinality(Counted(w)) <= runsUsed[w]
    /\ PastTheLimit(w) # {} => Cardinality(PastTheLimit(w)) < RunLimit

SandboxInv ==
  /\ SandboxesTypeOK /\ HistoryTypes /\ CallsAreInOrder /\ CallsReadSavedKeys /\ SandboxesAreWatched
  /\ TokenIsKept /\ TestsHaveAKey /\ NoVerdictWithoutKey /\ RunsAreCounted

LEMMA SandboxInit == SandboxesInit => SandboxInv
<1> SUFFICES ASSUME SandboxesInit PROVE SandboxInv
  OBVIOUS
<1>1. SandboxesTypeOK /\ HistoryTypes
  BY DEF SandboxesInit, SandboxesTypeOK, HistoryTypes, CallStages
<1>2. CallsAreInOrder /\ CallsReadSavedKeys /\ SandboxesAreWatched
  BY DEF SandboxesInit, CallsAreInOrder, CallsReadSavedKeys, RunsOnItsOwnKey, SandboxesAreWatched
<1>3. TokenIsKept /\ TestsHaveAKey /\ NoVerdictWithoutKey
  BY DEF SandboxesInit, TokenIsKept, TestsHaveAKey, MaySucceed, NoVerdictWithoutKey
<1>4. RunsAreCounted
  <2>1. \A w : Counted(w) = {} /\ PastTheLimit(w) = {}
    BY DEF SandboxesInit, Counted, PastTheLimit
  <2> QED BY <2>1, FS_EmptySet DEF RunsAreCounted, SandboxesInit
<1> QED BY <1>1, <1>2, <1>3, <1>4 DEF SandboxInv

(* A step is one of the settings page, of one call, or the isolate's end.  *)
CallStep(c) ==
  \/ \E w \in Tenants : TestE2B(c, w) \/ RunInE2B(c, w)
  \/ CompareUsage(c) \/ DecideSandboxRun(c)
  \/ ReadKey(c) \/ ReadSettings(c)
  \/ BeginCreate(c) \/ SandboxCreated(c) \/ CreateThrows(c)
  \/ RunCommand(c) \/ KillSandbox(c) \/ RecordTestResult(c) \/ SandboxTimesOut(c)

LEMMA SaveStep ==
  ASSUME SandboxInv, NEW w \in Tenants, NEW k \in E2BKeys, SaveE2BKey(w, k) PROVE SandboxInv'
<1> USE DEF SandboxInv, SandboxesTypeOK, HistoryTypes
<1>1. /\ e2bKey' = [e2bKey EXCEPT ![w] = k] /\ everSaved' = [everSaved EXCEPT ![w] = everSaved[w] \cup {k}]
      /\ UNCHANGED <<lastTest, lateTest, runsUsed, callStage, callKind, tenant, callKey, result,
                     accessToken, tokenBefore, alive, leaked, overlapped>>
  BY DEF SaveE2BKey, envVars
<1>2. k # NoE2BKey
  BY SandboxBounds
<1>3. SandboxesTypeOK' /\ HistoryTypes'
  BY <1>1
<1>4. CallsAreInOrder' /\ SandboxesAreWatched' /\ TokenIsKept'
  BY <1>1 DEF CallsAreInOrder, SandboxesAreWatched, TokenIsKept
<1>5. CallsReadSavedKeys'
  <2>1. \A v \in Tenants : everSaved[v] \subseteq everSaved'[v]
    BY <1>1
  <2> QED BY <1>1, <2>1 DEF CallsReadSavedKeys, RunsOnItsOwnKey, CallsAreInOrder
<1>6. TestsHaveAKey' /\ NoVerdictWithoutKey'
  <2>1. \A v : e2bKey[v] # NoE2BKey => e2bKey'[v] # NoE2BKey
    BY <1>1, <1>2
  <2> QED BY <1>1, <2>1 DEF TestsHaveAKey, MaySucceed, NoVerdictWithoutKey
<1>7. RunsAreCounted'
  BY <1>1 DEF RunsAreCounted, Counted, PastTheLimit
<1> QED BY <1>3, <1>4, <1>5, <1>6, <1>7

LEMMA RemoveStep ==
  ASSUME SandboxInv, NEW w \in Tenants, RemoveE2BKey(w) PROVE SandboxInv'
<1> USE DEF SandboxInv, SandboxesTypeOK, HistoryTypes
<1>1. /\ e2bKey' = [e2bKey EXCEPT ![w] = NoE2BKey] /\ lastTest' = [lastTest EXCEPT ![w] = "none"]
      /\ UNCHANGED <<everSaved, runsUsed, callStage, callKind, tenant, callKey, result,
                     accessToken, tokenBefore, alive, leaked, overlapped>>
  BY DEF RemoveE2BKey, envVars
<1>2. /\ lateTest' \in SUBSET Tenants /\ lateTest \subseteq lateTest'
      /\ (\E c \in SandboxCalls : tenant[c] = w /\ callKind[c] = "test" /\ InFlight(c)) => w \in lateTest'
  BY DEF RemoveE2BKey
<1>3. SandboxesTypeOK' /\ HistoryTypes'
  BY <1>1, <1>2
<1>4. CallsAreInOrder' /\ SandboxesAreWatched' /\ TokenIsKept'
  BY <1>1 DEF CallsAreInOrder, SandboxesAreWatched, TokenIsKept
<1>5. CallsReadSavedKeys'
  BY <1>1 DEF CallsReadSavedKeys, RunsOnItsOwnKey
<1>6. TestsHaveAKey' /\ NoVerdictWithoutKey'
  <2>1. \A v \in Tenants \ {w} : e2bKey'[v] = e2bKey[v] /\ lastTest'[v] = lastTest[v]
    BY <1>1
  <2>2. ASSUME NEW c \in SandboxCalls, MaySucceed(c) PROVE tenant[c] \in Tenants /\ InFlight(c) /\ callKind[c] = "test"
    BY <2>2 DEF MaySucceed, InFlight, CallsAreInOrder
  <2> QED BY <1>1, <1>2, <2>1, <2>2 DEF TestsHaveAKey, MaySucceed, NoVerdictWithoutKey
<1>7. RunsAreCounted'
  BY <1>1 DEF RunsAreCounted, Counted, PastTheLimit
<1> QED BY <1>3, <1>4, <1>5, <1>6, <1>7

LEMMA IsolateDiesStep == ASSUME SandboxInv, IsolateDies PROVE SandboxInv'
<1> USE DEF SandboxInv, SandboxesTypeOK, HistoryTypes
<1>1. /\ callStage' = [c \in SandboxCalls |-> IF InFlight(c) THEN "done" ELSE callStage[c]]
      /\ accessToken' = "operator" /\ overlapped' = FALSE /\ leaked' = leaked \cup {c \in alive : InFlight(c)}
      /\ UNCHANGED <<e2bKey, lastTest, everSaved, lateTest, runsUsed, callKind, tenant, callKey, result,
                     tokenBefore, alive>>
  BY DEF IsolateDies, settingVars
<1>2. \A c \in SandboxCalls : callStage'[c] \in {"new", "done"} /\ (callStage'[c] = "new" <=> callStage[c] = "new")
  BY <1>1 DEF InFlight
<1>3. SandboxesTypeOK' /\ HistoryTypes'
  BY <1>1, <1>2 DEF CallStages
<1>4. CallsAreInOrder' /\ CallsReadSavedKeys'
  BY <1>1, <1>2 DEF CallsAreInOrder, CallsReadSavedKeys, RunsOnItsOwnKey
<1>5. SandboxesAreWatched' /\ TokenIsKept'
  BY <1>1, <1>2 DEF SandboxesAreWatched, TokenIsKept, InFlight
<1>6. TestsHaveAKey' /\ NoVerdictWithoutKey'
  BY <1>1, <1>2 DEF TestsHaveAKey, MaySucceed, NoVerdictWithoutKey
<1>7. RunsAreCounted'
  <2> SUFFICES ASSUME NEW w \in Tenants
               PROVE  /\ IsFiniteSet(Counted(w)') /\ Cardinality(Counted(w)') <= runsUsed'[w]
                      /\ PastTheLimit(w)' # {} => Cardinality(PastTheLimit(w)') < RunLimit
    BY DEF RunsAreCounted
  <2>1. Counted(w)' = Counted(w) /\ PastTheLimit(w)' \subseteq PastTheLimit(w) /\ PastTheLimit(w) \subseteq Counted(w)
    BY <1>1, <1>2 DEF Counted, PastTheLimit, CallsAreInOrder
  <2>2. IsFiniteSet(PastTheLimit(w)) /\ IsFiniteSet(PastTheLimit(w)')
        /\ Cardinality(PastTheLimit(w)') <= Cardinality(PastTheLimit(w))
    BY <2>1, FS_Subset DEF RunsAreCounted
  <2>3. Cardinality(PastTheLimit(w)) \in Nat /\ Cardinality(PastTheLimit(w)') \in Nat
    BY <2>2, FS_CardinalityType
  <2> QED BY <1>1, <2>1, <2>2, <2>3, SandboxBounds DEF RunsAreCounted
<1> QED BY <1>3, <1>4, <1>5, <1>6, <1>7

(* A step of one call leaves the others, the keys and their history alone. *)
LEMMA OtherCallsRest ==
  ASSUME SandboxInv, NEW c \in SandboxCalls, CallStep(c)
  PROVE  /\ UNCHANGED <<e2bKey, everSaved, lateTest>>
         /\ \A d \in SandboxCalls \ {c} :
              /\ callStage'[d] = callStage[d] /\ callKind'[d] = callKind[d] /\ tenant'[d] = tenant[d]
              /\ callKey'[d] = callKey[d] /\ result'[d] = result[d] /\ tokenBefore'[d] = tokenBefore[d]
              /\ d \in alive' <=> d \in alive
         /\ leaked \subseteq leaked'
<1> USE DEF SandboxInv, SandboxesTypeOK, HistoryTypes, CallTo, settingVars, envVars
<1>1. ASSUME NEW w \in Tenants, TestE2B(c, w) \/ RunInE2B(c, w)
      PROVE  /\ UNCHANGED <<settingVars, callKey, result, envVars>>
             /\ \A d \in SandboxCalls \ {c} :
                  callStage'[d] = callStage[d] /\ callKind'[d] = callKind[d] /\ tenant'[d] = tenant[d]
  BY <1>1 DEF TestE2B, RunInE2B
<1>2. CASE CompareUsage(c) \/ DecideSandboxRun(c) \/ ReadKey(c) \/ ReadSettings(c)
  BY <1>2 DEF CompareUsage, DecideSandboxRun, ReadKey, ReadSettings
<1>3. CASE BeginCreate(c) \/ SandboxCreated(c) \/ CreateThrows(c)
  BY <1>3 DEF BeginCreate, SandboxCreated, CreateThrows
<1>4. CASE RunCommand(c)
  BY <1>4 DEF RunCommand
<1>5. CASE KillSandbox(c) \/ RecordTestResult(c) \/ SandboxTimesOut(c)
  BY <1>5 DEF KillSandbox, RecordTestResult, SandboxTimesOut
<1> QED BY <1>1, <1>2, <1>3, <1>4, <1>5 DEF CallStep

(* What the steps of a call do to that call.                               *)
LEMMA CallMoves ==
  ASSUME SandboxInv, NEW c \in SandboxCalls, CallStep(c)
  PROVE  \/ /\ callStage[c] = "new" /\ tenant'[c] \in Tenants
            /\ \/ callKind'[c] = "test" /\ callStage'[c] = "key"
               \/ callKind'[c] = "run" /\ callStage'[c] = "compare"
            /\ UNCHANGED <<callKey, result>>
         \/ /\ callStage[c] # "new" /\ callStage'[c] # "new"
            /\ UNCHANGED <<callKind, tenant>>
            /\ callStage'[c] \in {"compare", "decide"} => callStage[c] = "compare"
            /\ callStage'[c] \in {"config", "record"} => callKind[c] = "test"
            /\ callKey'[c] # callKey[c] => callStage[c] = "key" /\ callKey'[c] = e2bKey[tenant[c]]
         \/ UNCHANGED <<callStage, callKind, tenant, callKey, result>>
<1> USE DEF SandboxInv, SandboxesTypeOK, CallTo, CallsAreInOrder
<1>1. ASSUME NEW w \in Tenants, TestE2B(c, w) PROVE
        /\ callStage[c] = "new" /\ tenant'[c] \in Tenants
        /\ callKind'[c] = "test" /\ callStage'[c] = "key" /\ UNCHANGED <<callKey, result>>
  BY <1>1 DEF TestE2B
<1>2. ASSUME NEW w \in Tenants, RunInE2B(c, w) PROVE
        /\ callStage[c] = "new" /\ tenant'[c] \in Tenants
        /\ callKind'[c] = "run" /\ callStage'[c] = "compare" /\ UNCHANGED <<callKey, result>>
  BY <1>2 DEF RunInE2B
<1>3. CASE CompareUsage(c) \/ DecideSandboxRun(c) \/ ReadKey(c) \/ ReadSettings(c)
  BY <1>3 DEF CompareUsage, DecideSandboxRun, ReadKey, ReadSettings, KeyForExecution
<1>4. CASE BeginCreate(c) \/ SandboxCreated(c) \/ CreateThrows(c)
  BY <1>4 DEF BeginCreate, SandboxCreated, CreateThrows, AfterCommand
<1>5. CASE RunCommand(c) \/ KillSandbox(c) \/ RecordTestResult(c)
  BY <1>5 DEF RunCommand, KillSandbox, RecordTestResult, AfterCommand
<1>6. CASE SandboxTimesOut(c)
  BY <1>6 DEF SandboxTimesOut
<1> QED BY <1>1, <1>2, <1>3, <1>4, <1>5, <1>6 DEF CallStep

LEMMA CallTypes == ASSUME SandboxInv, NEW c \in SandboxCalls, CallStep(c) PROVE SandboxesTypeOK' /\ HistoryTypes'
<1> USE DEF SandboxInv, SandboxesTypeOK, HistoryTypes, CallTo, settingVars, envVars, CallStages
<1>1. ASSUME NEW w \in Tenants, TestE2B(c, w) PROVE SandboxesTypeOK' /\ HistoryTypes'
  BY <1>1 DEF TestE2B
<1>2. ASSUME NEW w \in Tenants, RunInE2B(c, w) PROVE SandboxesTypeOK' /\ HistoryTypes'
  BY <1>2 DEF RunInE2B
<1>3. CASE CompareUsage(c) \/ DecideSandboxRun(c) \/ ReadSettings(c)
  BY <1>3 DEF CompareUsage, DecideSandboxRun, ReadSettings
<1>4. CASE ReadKey(c)
  BY <1>4 DEF ReadKey, KeyForExecution, CallsAreInOrder
<1>5. CASE BeginCreate(c) \/ SandboxCreated(c)
  <2>1. CASE BeginCreate(c)
    <3>1. SandboxesTypeOK'
      BY <2>1 DEF BeginCreate
    <3>2. HistoryTypes'
      BY <2>1 DEF BeginCreate
    <3> QED BY <3>1, <3>2
  <2>2. CASE SandboxCreated(c)
    BY <2>2 DEF SandboxCreated
  <2> QED BY <1>5, <2>1, <2>2
<1>6. CASE CreateThrows(c)
  BY <1>6 DEF CreateThrows, AfterCommand
<1>7. CASE RunCommand(c) \/ KillSandbox(c)
  BY <1>7 DEF RunCommand, KillSandbox, AfterCommand
<1>8. CASE SandboxTimesOut(c)
  BY <1>8 DEF SandboxTimesOut
<1>9. CASE RecordTestResult(c)
  <2>1. result[c] \in {"none", "success", "failed"}
    OBVIOUS
  <2> QED BY <1>9, <2>1 DEF RecordTestResult
<1> QED BY <1>1, <1>2, <1>3, <1>4, <1>5, <1>6, <1>7, <1>8, <1>9 DEF CallStep

LEMMA CallOrder ==
  ASSUME SandboxInv, NEW c \in SandboxCalls, CallStep(c) PROVE CallsAreInOrder' /\ CallsReadSavedKeys'
<1>1. CallsAreInOrder'
  BY OtherCallsRest, CallMoves DEF SandboxInv, SandboxesTypeOK, CallsAreInOrder
<1>2. CallsReadSavedKeys'
  <2>1. callKey'[c] # callKey[c] => tenant'[c] = tenant[c] /\ tenant[c] \in Tenants /\ callKey'[c] = e2bKey[tenant[c]]
    BY CallMoves DEF SandboxInv, CallsAreInOrder
  <2>2. callKey'[c] = callKey[c] /\ callKey[c] # NoE2BKey => tenant'[c] = tenant[c]
    BY CallMoves DEF SandboxInv, CallsAreInOrder
  <2> QED BY <2>1, <2>2, OtherCallsRest DEF SandboxInv, CallsReadSavedKeys, RunsOnItsOwnKey
<1> QED BY <1>1, <1>2

LEMMA CallWatched == ASSUME SandboxInv, NEW c \in SandboxCalls, CallStep(c) PROVE SandboxesAreWatched'
<1> USE DEF SandboxInv, SandboxesTypeOK, CallTo, CallsAreInOrder, SandboxesAreWatched
<1>1. c \in alive' => callStage'[c] \in {"command", "kill"} \/ c \in leaked'
  <2>1. ASSUME NEW w \in Tenants, TestE2B(c, w) \/ RunInE2B(c, w) PROVE c \in alive' => c \in leaked'
    BY <2>1 DEF TestE2B, RunInE2B, envVars
  <2>2. CASE CompareUsage(c) \/ DecideSandboxRun(c) \/ ReadKey(c) \/ ReadSettings(c)
    BY <2>2 DEF CompareUsage, DecideSandboxRun, ReadKey, ReadSettings, envVars
  <2>3. CASE BeginCreate(c) \/ SandboxCreated(c) \/ CreateThrows(c)
    BY <2>3 DEF BeginCreate, SandboxCreated, CreateThrows
  <2>4. CASE RunCommand(c) \/ KillSandbox(c) \/ RecordTestResult(c) \/ SandboxTimesOut(c)
    BY <2>4 DEF RunCommand, KillSandbox, RecordTestResult, SandboxTimesOut, envVars
  <2> QED BY <2>1, <2>2, <2>3, <2>4 DEF CallStep
<1>2. alive' \subseteq SandboxCalls
  BY CallTypes
<1> QED BY <1>1, <1>2, OtherCallsRest

LEMMA CallToken == ASSUME SandboxInv, NEW c \in SandboxCalls, CallStep(c) PROVE TokenIsKept'
<1> USE DEF SandboxInv, SandboxesTypeOK, HistoryTypes, CallTo
<1>1. CASE BeginCreate(c)
  <2>1. /\ tokenBefore' = [tokenBefore EXCEPT ![c] = accessToken] /\ callStage[c] = "create"
        /\ overlapped' = (overlapped \/ \E d \in SandboxCalls : callStage[d] = "creating")
        /\ callStage' = [callStage EXCEPT ![c] = "creating"]
    BY <1>1 DEF BeginCreate
  <2> SUFFICES ASSUME ~overlapped' PROVE TokenIsKept'
    BY DEF TokenIsKept
  <2>2. ~overlapped /\ ~(\E d \in SandboxCalls : callStage[d] = "creating")
    BY <2>1
  <2>3. accessToken = "operator"
    BY <2>2 DEF TokenIsKept
  <2>4. tokenBefore'[c] = "operator" /\ \A d \in SandboxCalls : callStage'[d] = "creating" => d = c
    BY <2>1, <2>2, <2>3
  <2> QED BY <2>1, <2>4 DEF TokenIsKept
<1>2. CASE SandboxCreated(c) \/ CreateThrows(c)
  <2>1. /\ callStage[c] = "creating" /\ accessToken' = tokenBefore[c] /\ tokenBefore' = tokenBefore
        /\ overlapped' = overlapped /\ callStage'[c] # "creating"
    BY <1>2 DEF SandboxCreated, CreateThrows, AfterCommand
  <2>2. ~overlapped => tokenBefore[c] = "operator" /\ \A d \in SandboxCalls : callStage[d] = "creating" => d = c
    BY <2>1 DEF TokenIsKept
  <2> QED BY <2>1, <2>2, OtherCallsRest DEF TokenIsKept
<1>3. CASE UNCHANGED <<accessToken, tokenBefore, overlapped>> /\ (callStage'[c] = "creating" <=> callStage[c] = "creating")
  <2>1. \A d \in SandboxCalls : callStage'[d] = "creating" <=> callStage[d] = "creating"
    BY <1>3, OtherCallsRest
  <2> QED BY <1>3, <2>1 DEF TokenIsKept
<1>4. ASSUME NEW w \in Tenants, TestE2B(c, w) \/ RunInE2B(c, w)
      PROVE  UNCHANGED <<accessToken, tokenBefore, overlapped>> /\ callStage[c] # "creating" /\ callStage'[c] # "creating"
  BY <1>4 DEF TestE2B, RunInE2B, envVars
<1>5. ASSUME CompareUsage(c) \/ DecideSandboxRun(c) \/ ReadKey(c) \/ ReadSettings(c)
      PROVE  UNCHANGED <<accessToken, tokenBefore, overlapped>> /\ callStage[c] # "creating" /\ callStage'[c] # "creating"
  BY <1>5 DEF CompareUsage, DecideSandboxRun, ReadKey, ReadSettings, envVars
<1>6. ASSUME RunCommand(c) \/ KillSandbox(c) \/ RecordTestResult(c)
      PROVE  UNCHANGED <<accessToken, tokenBefore, overlapped>> /\ callStage[c] # "creating" /\ callStage'[c] # "creating"
  BY <1>6 DEF RunCommand, KillSandbox, RecordTestResult, AfterCommand, envVars
<1>7. ASSUME SandboxTimesOut(c)
      PROVE  UNCHANGED <<accessToken, tokenBefore, overlapped, callStage>>
  BY <1>7 DEF SandboxTimesOut
<1> QED BY <1>1, <1>2, <1>3, <1>4, <1>5, <1>6, <1>7 DEF CallStep

LEMMA CallVerdict ==
  ASSUME SandboxInv, NEW c \in SandboxCalls, CallStep(c) PROVE TestsHaveAKey' /\ NoVerdictWithoutKey'
<1> USE DEF SandboxInv, SandboxesTypeOK, HistoryTypes, CallTo
<1>1. MaySucceed(c)' =>
        /\ tenant'[c] = tenant[c]
        /\ MaySucceed(c) \/ e2bKey[tenant[c]] # NoE2BKey
  <2> USE DEF MaySucceed
  <2>1. ASSUME NEW w \in Tenants, TestE2B(c, w) \/ RunInE2B(c, w) PROVE ~MaySucceed(c)'
    BY <2>1 DEF TestE2B, RunInE2B
  <2>2. CASE CompareUsage(c) \/ DecideSandboxRun(c) \/ ReadKey(c)
    BY <2>2 DEF CompareUsage, DecideSandboxRun, ReadKey, CallsAreInOrder
  <2>3. CASE ReadSettings(c)
    BY <2>3 DEF ReadSettings
  <2>4. CASE BeginCreate(c) \/ SandboxCreated(c) \/ CreateThrows(c)
    BY <2>4 DEF BeginCreate, SandboxCreated, CreateThrows, AfterCommand
  <2>5. CASE RunCommand(c) \/ KillSandbox(c) \/ RecordTestResult(c) \/ SandboxTimesOut(c)
    BY <2>5 DEF RunCommand, KillSandbox, RecordTestResult, SandboxTimesOut, AfterCommand
  <2> QED BY <2>1, <2>2, <2>3, <2>4, <2>5 DEF CallStep
<1>2. \A d \in SandboxCalls \ {c} : (MaySucceed(d)' <=> MaySucceed(d)) /\ tenant'[d] = tenant[d]
  BY OtherCallsRest DEF MaySucceed
<1>3. TestsHaveAKey'
  BY <1>1, <1>2, OtherCallsRest DEF TestsHaveAKey
<1>4. ASSUME NEW w \in Tenants, lastTest'[w] = "success"
      PROVE  lastTest[w] = "success" \/ (w = tenant[c] /\ MaySucceed(c))
  <2>1. CASE RecordTestResult(c)
    BY <1>4, <2>1 DEF RecordTestResult, MaySucceed, CallsAreInOrder
  <2>2. ASSUME NEW v \in Tenants, TestE2B(c, v) \/ RunInE2B(c, v) PROVE lastTest' = lastTest
    BY <2>2 DEF TestE2B, RunInE2B, settingVars
  <2>3. ASSUME CompareUsage(c) \/ DecideSandboxRun(c) \/ ReadKey(c) \/ ReadSettings(c) \/ BeginCreate(c)
        PROVE  lastTest' = lastTest
    BY <2>3 DEF CompareUsage, DecideSandboxRun, ReadKey, ReadSettings, BeginCreate, settingVars
  <2>4. ASSUME SandboxCreated(c) \/ CreateThrows(c) \/ RunCommand(c) \/ KillSandbox(c) \/ SandboxTimesOut(c)
        PROVE  lastTest' = lastTest
    BY <2>4 DEF SandboxCreated, CreateThrows, RunCommand, KillSandbox, SandboxTimesOut, settingVars
  <2> QED BY <1>4, <2>1, <2>2, <2>3, <2>4 DEF CallStep
<1>5. NoVerdictWithoutKey'
  BY <1>4, OtherCallsRest DEF TestsHaveAKey, NoVerdictWithoutKey
<1> QED BY <1>3, <1>5

LEMMA CallCounts == ASSUME SandboxInv, NEW c \in SandboxCalls, CallStep(c) PROVE RunsAreCounted'
<1> USE DEF SandboxInv, SandboxesTypeOK, CallTo
<1>1. ASSUME NEW w \in Tenants, RunInE2B(c, w) PROVE RunsAreCounted'
  <2>1. /\ callStage[c] = "new" /\ callKind[c] = "none" /\ callKey[c] = NoE2BKey
        /\ tenant'[c] = w /\ callKind'[c] = "run" /\ callStage'[c] = "compare" /\ callKey' = callKey
        /\ runsUsed' = [runsUsed EXCEPT ![w] = @ + 1]
    BY <1>1 DEF RunInE2B, CallsAreInOrder
  <2>2. /\ \A v : PastTheLimit(v)' = PastTheLimit(v)
        /\ \A v : v # w => Counted(v)' = Counted(v)
        /\ Counted(w)' = Counted(w) \cup {c} /\ c \notin Counted(w)
    BY <2>1, OtherCallsRest DEF Counted, PastTheLimit
  <2>3. /\ IsFiniteSet(Counted(w)') /\ Cardinality(Counted(w)') = Cardinality(Counted(w)) + 1
        /\ Cardinality(Counted(w)) \in Nat
    BY <2>2, FS_AddElement, FS_CardinalityType DEF RunsAreCounted
  <2>4. ASSUME NEW v \in Tenants
        PROVE  IsFiniteSet(Counted(v)') /\ Cardinality(Counted(v)') <= runsUsed'[v]
    <3>1. CASE v = w
      BY <3>1, <2>1, <2>3 DEF RunsAreCounted
    <3>2. CASE v # w
      BY <3>2, <2>1, <2>2 DEF RunsAreCounted
    <3> QED BY <3>1, <3>2
  <2> QED BY <2>2, <2>4 DEF RunsAreCounted
<1>2. ASSUME NEW w \in Tenants, TestE2B(c, w) PROVE RunsAreCounted'
  <2>1. /\ callKind[c] = "none" /\ callKind'[c] = "test" /\ callKey' = callKey /\ runsUsed' = runsUsed
    BY <1>2 DEF TestE2B, CallsAreInOrder
  <2>2. \A v : Counted(v)' = Counted(v) /\ PastTheLimit(v)' = PastTheLimit(v)
    BY <2>1, OtherCallsRest DEF Counted, PastTheLimit
  <2> QED BY <2>1, <2>2 DEF RunsAreCounted
<1>3. CASE CompareUsage(c)
  <2>1. PICK w \in Tenants : w = tenant[c]
    BY <1>3 DEF CompareUsage, CallsAreInOrder
  <2>2. /\ callStage[c] = "compare" /\ UNCHANGED <<runsUsed, callKind, tenant, callKey>>
        /\ callStage'[c] # "done" => runsUsed[w] < RunLimit
        /\ callStage'[c] \in {"decide", "done"}
    BY <1>3, <2>1, SandboxBounds DEF CompareUsage, RunLimitExceeded
  <2>3. \A v : Counted(v)' = Counted(v) /\ PastTheLimit(v)' \subseteq Counted(v)
    BY <2>2, OtherCallsRest DEF Counted, PastTheLimit
  <2>4. ASSUME NEW v, v # w \/ callStage'[c] = "done" PROVE PastTheLimit(v)' \subseteq PastTheLimit(v)
    BY <2>1, <2>2, <2>4, OtherCallsRest DEF Counted, PastTheLimit
  <2>5. ASSUME NEW v \in Tenants, PastTheLimit(v)' # {} PROVE Cardinality(PastTheLimit(v)') < RunLimit
    <3>1. /\ IsFiniteSet(Counted(v)) /\ Cardinality(Counted(v)) <= runsUsed[v] /\ Cardinality(Counted(v)) \in Nat
      BY FS_CardinalityType DEF RunsAreCounted
    <3>2. PastTheLimit(v) \subseteq Counted(v)
      BY DEF PastTheLimit
    <3>3. /\ IsFiniteSet(PastTheLimit(v)) /\ Cardinality(PastTheLimit(v)) \in Nat
          /\ IsFiniteSet(PastTheLimit(v)') /\ Cardinality(PastTheLimit(v)') \in Nat
          /\ Cardinality(PastTheLimit(v)') <= Cardinality(Counted(v))
      BY <2>3, <3>1, <3>2, FS_Subset, FS_CardinalityType
    <3>4. CASE v # w \/ callStage'[c] = "done"
      <4>1. PastTheLimit(v)' \subseteq PastTheLimit(v)
        BY <2>4, <3>4
      <4>2. PastTheLimit(v) # {} /\ Cardinality(PastTheLimit(v)') <= Cardinality(PastTheLimit(v))
        BY <2>5, <3>3, <4>1, FS_Subset
      <4> QED BY <3>3, <4>2, SandboxBounds DEF RunsAreCounted
    <3>5. CASE v = w /\ callStage'[c] # "done"
      BY <2>2, <3>1, <3>3, <3>5, SandboxBounds
    <3> QED BY <3>4, <3>5
  <2> QED BY <2>2, <2>3, <2>5 DEF RunsAreCounted
<1>4. ASSUME runsUsed' = runsUsed, UNCHANGED <<callKind, tenant>>,
             callStage[c] # "compare",
             callStage[c] = "done" => callStage'[c] = "done" /\ callKey'[c] = callKey[c],
             callStage[c] = "new" => callStage'[c] = "new" /\ callKey'[c] = callKey[c]
      PROVE  RunsAreCounted'
  <2>1. \A v : Counted(v)' = Counted(v) /\ PastTheLimit(v)' \subseteq PastTheLimit(v)
    BY <1>4, OtherCallsRest DEF Counted, PastTheLimit
  <2>2. ASSUME NEW v \in Tenants, PastTheLimit(v)' # {} PROVE Cardinality(PastTheLimit(v)') < RunLimit
    <3>1. IsFiniteSet(Counted(v)) /\ PastTheLimit(v) \subseteq Counted(v) /\ PastTheLimit(v) # {}
      BY <2>1, <2>2 DEF RunsAreCounted, PastTheLimit
    <3>2. /\ IsFiniteSet(PastTheLimit(v)) /\ IsFiniteSet(PastTheLimit(v)')
          /\ Cardinality(PastTheLimit(v)') <= Cardinality(PastTheLimit(v))
      BY <2>1, <3>1, FS_Subset
    <3>3. Cardinality(PastTheLimit(v)) \in Nat /\ Cardinality(PastTheLimit(v)') \in Nat
      BY <3>2, FS_CardinalityType
    <3> QED BY <3>1, <3>2, <3>3, SandboxBounds DEF RunsAreCounted
  <2> QED BY <1>4, <2>1, <2>2 DEF RunsAreCounted
<1>5. CASE DecideSandboxRun(c) \/ ReadKey(c) \/ ReadSettings(c)
  BY <1>4, <1>5 DEF DecideSandboxRun, ReadKey, ReadSettings
<1>6. CASE BeginCreate(c) \/ SandboxCreated(c) \/ CreateThrows(c)
  BY <1>4, <1>6 DEF BeginCreate, SandboxCreated, CreateThrows
<1>7. CASE RunCommand(c) \/ KillSandbox(c) \/ RecordTestResult(c)
  BY <1>4, <1>7 DEF RunCommand, KillSandbox, RecordTestResult
<1>8. CASE SandboxTimesOut(c)
  <2>1. UNCHANGED <<runsUsed, callStage, callKind, tenant, callKey>>
    BY <1>8 DEF SandboxTimesOut
  <2> QED BY <2>1 DEF RunsAreCounted, Counted, PastTheLimit
<1> QED BY <1>1, <1>2, <1>3, <1>5, <1>6, <1>7, <1>8 DEF CallStep

LEMMA SandboxStep == SandboxInv /\ [SandboxesNext]_sandboxVars => SandboxInv'
<1> SUFFICES ASSUME SandboxInv, [SandboxesNext]_sandboxVars PROVE SandboxInv'
  OBVIOUS
<1>1. ASSUME NEW c \in SandboxCalls, CallStep(c) PROVE SandboxInv'
  BY <1>1, CallTypes, CallOrder, CallWatched, CallToken, CallVerdict, CallCounts DEF SandboxInv
<1>2. CASE UNCHANGED sandboxVars
  <2> USE <1>2 DEF sandboxVars
  <2>1. SandboxesTypeOK' /\ HistoryTypes'
    BY DEF SandboxInv, SandboxesTypeOK, HistoryTypes
  <2>2. CallsAreInOrder' /\ CallsReadSavedKeys' /\ SandboxesAreWatched'
    BY DEF SandboxInv, CallsAreInOrder, CallsReadSavedKeys, RunsOnItsOwnKey, SandboxesAreWatched
  <2>3. TokenIsKept'
    BY DEF SandboxInv, TokenIsKept
  <2>4. TestsHaveAKey' /\ NoVerdictWithoutKey'
    BY DEF SandboxInv, TestsHaveAKey, MaySucceed, NoVerdictWithoutKey
  <2>5. RunsAreCounted'
    BY DEF SandboxInv, RunsAreCounted, Counted, PastTheLimit
  <2> QED BY <2>1, <2>2, <2>3, <2>4, <2>5 DEF SandboxInv
<1>3. CASE SandboxesNext
  BY <1>1, <1>3, SaveStep, RemoveStep, IsolateDiesStep DEF SandboxesNext, CallStep
<1> QED BY <1>2, <1>3

LEMMA SandboxInvImplies == SandboxInv => SandboxCallsAreContained
<1> SUFFICES ASSUME SandboxInv PROVE SandboxCallsAreContained
  OBVIOUS
<1>1. RunsOnItsOwnKey /\ NoVerdictWithoutKey
  BY DEF SandboxInv, CallsReadSavedKeys
<1>2. RunQuotaHolds
  <2> SUFFICES ASSUME NEW w \in Tenants,
                      NEW past, past = {c \in SandboxCalls :
                        tenant[c] = w /\ callKind[c] = "run" /\ callKey[c] # NoE2BKey},
                      past # {}
               PROVE  Cardinality(past) < RunLimit
    BY DEF RunQuotaHolds
  <2>1. past \subseteq PastTheLimit(w) /\ PastTheLimit(w) \subseteq Counted(w) /\ PastTheLimit(w) # {}
    BY DEF PastTheLimit, Counted
  <2>2. /\ IsFiniteSet(PastTheLimit(w)) /\ IsFiniteSet(past) /\ Cardinality(past) <= Cardinality(PastTheLimit(w))
    BY <2>1, FS_Subset DEF SandboxInv, RunsAreCounted
  <2>3. Cardinality(past) \in Nat /\ Cardinality(PastTheLimit(w)) \in Nat
    BY <2>2, FS_CardinalityType
  <2>4. Cardinality(PastTheLimit(w)) < RunLimit
    BY <2>1 DEF SandboxInv, RunsAreCounted
  <2> QED BY <2>2, <2>3, <2>4, SandboxBounds
<1>3. NoSandboxLeftBehind
  BY DEF SandboxInv, SandboxesAreWatched, NoSandboxLeftBehind, InFlight
<1>4. TokenLostOnlyByOverlap
  BY DEF SandboxInv, TokenIsKept, TokenLostOnlyByOverlap
<1> QED BY <1>1, <1>2, <1>3, <1>4 DEF SandboxCallsAreContained

(* Calls that share an isolate keep to their own workspace's key and       *)
(* quota, leave no sandbox behind them and put the token back.             *)
THEOREM SandboxSafety == SandboxesSpec => []SandboxCallsAreContained
<1> QED BY SandboxInit, SandboxStep, SandboxInvImplies, PTL DEF SandboxesSpec

-----------------------------------------------------------------------------
(* The settings page.  Whatever it does is a step of the sandboxes' module, *)
(* or none.                                                                *)
LEMMA PanelStepIsSandboxStep == [SandboxPanelNext]_sandboxPanelVars => [SandboxesNext]_sandboxVars
<1> SUFFICES ASSUME [SandboxPanelNext]_sandboxPanelVars PROVE [SandboxesNext]_sandboxVars
  OBVIOUS
<1>1. CASE \/ LoadIsAnswered \/ ShowLoaded \/ LoadFails \/ ClickSave \/ ClickTest \/ ClickRemove \/ ClickReplace
           \/ HandleFails \/ SaveArrives \/ TestArrives \/ RemoveArrives \/ RequestFails
           \/ UNCHANGED sandboxPanelVars
  <2>1. UNCHANGED sandboxVars
    BY <1>1 DEF LoadIsAnswered, ShowLoaded, LoadFails, ClickSave, ClickTest, ClickRemove, ClickReplace, Ask,
       HandleFails, SaveArrives, TestArrives, RemoveArrives, RequestFails, sandboxPanelVars
  <2> QED BY <2>1
<1>2. CASE HandleSave \/ HandleRemove \/ ChangedElsewhere
  BY <1>2, PanelTenantAssumption DEF HandleSave, HandleRemove, ChangedElsewhere, SandboxesNext
<1>3. ASSUME NEW c \in SandboxCalls, HandleTest(c) \/ TestGoesOn(c) \/ TestEnds(c) PROVE SandboxesNext
  BY <1>3, PanelTenantAssumption DEF HandleTest, TestGoesOn, TestEnds, SandboxesNext
<1> QED BY <1>1, <1>2, <1>3 DEF SandboxPanelNext

(* In front of the page, too, the calls keep to their key and quota.       *)
THEOREM PanelKeepsToSandboxes == SandboxPanelSpec => SandboxesSpec
<1>1. SandboxPanelInit => SandboxesInit
  BY DEF SandboxPanelInit
<1> QED BY <1>1, PanelStepIsSandboxStep, PTL DEF SandboxPanelSpec, SandboxesSpec

(* As long as nobody else interferes, the only call in flight is the test  *)
(* the page waits for.                                                     *)
OneTestAtATime ==
  /\ \A c \in SandboxCalls : InFlight(c) => c \in testCall /\ request = "test" /\ reply = Waiting
  /\ \A c \in testCall : c \in SandboxCalls /\ tenant[c] = PanelTenant /\ callKind[c] = "test"
  /\ \A c, d \in testCall : c = d
  /\ request # "test" => testCall = {}
  /\ lateTest = {}

(* An answer waits for the page with the settings that are still current.  *)
AnswersAreCurrent ==
  /\ request = "none" => reply = Waiting
  /\ reply = Waiting \/ reply = Failed \/ (reply.outcome \in {"ok", "test failed"} /\ reply.config = Saved)
  /\ reply.outcome = "test failed" => request = "test"
  /\ nextConfig # NoConfig =>
       /\ request = "test" /\ nextConfig.key = Saved.key
       /\ reply.outcome \in {"waiting", "failed"} => nextConfig.test = Saved.test

(* Until an answer changes them the settings shown are current.            *)
ShownIsCurrent ==
  reply.outcome \in {"waiting", "failed"} /\ loading = "done" /\ ~overtaken =>
    /\ config.key = Saved.key
    /\ config.test = Saved.test \/ untold

PanelInv == Undisturbed => OneTestAtATime /\ AnswersAreCurrent /\ ShownIsCurrent

LEMMA PanelInit == SandboxPanelInit => PanelInv /\ SandboxPanelTypeOK
<1> SUFFICES ASSUME SandboxPanelInit PROVE PanelInv /\ SandboxPanelTypeOK
  OBVIOUS
<1>1. OneTestAtATime
  BY DEF SandboxPanelInit, SandboxesInit, OneTestAtATime, InFlight
<1>2. AnswersAreCurrent /\ ShownIsCurrent
  BY DEF SandboxPanelInit, AnswersAreCurrent, ShownIsCurrent, Waiting
<1>3. SandboxPanelTypeOK
  BY DEF SandboxPanelInit, SandboxPanelTypeOK, Waiting, NoConfig, Configs
<1> QED BY <1>1, <1>2, <1>3 DEF PanelInv

LEMMA OutcomesDiffer ==
  /\ Waiting.outcome = "waiting" /\ Failed.outcome = "failed" /\ Waiting # Failed
  /\ Waiting.config = NoConfig /\ Failed.config = NoConfig
  /\ SandboxPanelTypeOK => reply.config \in Configs
BY DEF Waiting, Failed, SandboxPanelTypeOK

LEMMA SavedType ==
  ASSUME SandboxesTypeOK PROVE Saved \in Configs
BY PanelTenantAssumption DEF SandboxesTypeOK, Saved, Configs

LEMMA PanelTypes ==
  ASSUME SandboxInv, SandboxInv', SandboxPanelTypeOK, SandboxPanelNext PROVE SandboxPanelTypeOK'
<1> USE DEF SandboxPanelTypeOK
<1>0. Saved \in Configs /\ Saved' \in Configs /\ NoConfig \in Configs
  <2>1. Saved \in Configs /\ NoConfig \in Configs
    BY SavedType DEF SandboxInv, NoConfig, Configs
  <2>2. Saved' \in Configs
    BY PanelTenantAssumption DEF SandboxInv, SandboxesTypeOK, Saved, Configs
  <2> QED BY <2>1, <2>2
<1>1. /\ Waiting \in [outcome : {"waiting", "failed", "ok", "test failed"}, config : Configs]
      /\ Failed \in [outcome : {"waiting", "failed", "ok", "test failed"}, config : Configs]
  BY <1>0 DEF Waiting, Failed
<1>11. ASSUME NEW o \in {"ok", "test failed"}, AnswerWithConfig(o)
       PROVE  reply' \in [outcome : {"waiting", "failed", "ok", "test failed"}, config : Configs]
  BY <1>0, <1>11 DEF AnswerWithConfig
<1>2. CASE LoadIsAnswered \/ ShowLoaded \/ LoadFails
  BY <1>0, <1>2 DEF LoadIsAnswered, ShowLoaded, LoadFails, panelHistory
<1>3. CASE ClickSave \/ ClickTest \/ ClickRemove \/ ClickReplace
  BY <1>0, <1>1, <1>3 DEF ClickSave, ClickTest, ClickRemove, ClickReplace, Ask, panelHistory
<1>4. CASE HandleSave \/ HandleRemove \/ HandleFails
  BY <1>0, <1>1, <1>4, <1>11 DEF HandleSave, HandleRemove, HandleFails, panelHistory
<1>5. ASSUME NEW c \in SandboxCalls, HandleTest(c) \/ TestGoesOn(c) PROVE SandboxPanelTypeOK'
  BY <1>5 DEF HandleTest, TestGoesOn, panelHistory, pageVars
<1>6. ASSUME NEW c \in SandboxCalls, TestEnds(c) PROVE SandboxPanelTypeOK'
  <2>1. UNCHANGED <<loading, loaded, config, request, testCall, nextConfig, isReplacing, elsewhere, overtaken, lost, untold>>
    BY <1>6 DEF TestEnds, panelHistory
  <2>2. \/ UNCHANGED reply \/ AnswerWithConfig("ok") \/ AnswerWithConfig("test failed")
    BY <1>6 DEF TestEnds
  <2> QED BY <1>11, <2>1, <2>2
<1>7. CASE ChangedElsewhere
  BY <1>7 DEF ChangedElsewhere, pageVars
<1>8. CASE SaveArrives \/ RemoveArrives
  BY <1>1, <1>8, OutcomesDiffer DEF SaveArrives, RemoveArrives, panelHistory
<1>9. CASE TestArrives
  BY <1>0, <1>1, <1>9, OutcomesDiffer DEF TestArrives
<1>10. CASE RequestFails
  BY <1>0, <1>1, <1>10 DEF RequestFails
<1> QED BY <1>2, <1>3, <1>4, <1>5, <1>6, <1>7, <1>8, <1>9, <1>10 DEF SandboxPanelNext

(* The steps of the page itself leave the sandboxes at rest.               *)
LEMMA PageStep ==
  ASSUME SandboxPanelTypeOK, PanelInv, UNCHANGED sandboxVars,
         \/ LoadIsAnswered \/ ShowLoaded \/ LoadFails \/ ClickSave \/ ClickTest \/ ClickRemove \/ ClickReplace
         \/ HandleFails \/ SaveArrives \/ TestArrives \/ RemoveArrives
  PROVE  PanelInv'
<1> SUFFICES ASSUME Undisturbed' PROVE OneTestAtATime' /\ AnswersAreCurrent' /\ ShownIsCurrent'
  BY DEF PanelInv
<1>0. Saved' = Saved /\ UNCHANGED <<tenant, callKind, callStage, lateTest>> /\ \A c : InFlight(c)' <=> InFlight(c)
  BY DEF Saved, sandboxVars, InFlight
<1>1. Undisturbed /\ UNCHANGED <<elsewhere, lost>>
  BY DEF LoadIsAnswered, ShowLoaded, LoadFails, ClickSave, ClickTest, ClickRemove, ClickReplace, Ask,
     HandleFails, SaveArrives, TestArrives, RemoveArrives, panelHistory, Undisturbed
<1>2. OneTestAtATime /\ AnswersAreCurrent /\ ShownIsCurrent
  BY <1>1 DEF PanelInv
<1>3. CASE LoadIsAnswered \/ ShowLoaded \/ LoadFails
  <2>1. UNCHANGED <<request, reply, testCall, nextConfig>>
    BY <1>3 DEF LoadIsAnswered, ShowLoaded, LoadFails
  <2>2. OneTestAtATime' /\ AnswersAreCurrent'
    BY <1>0, <1>2, <2>1 DEF OneTestAtATime, AnswersAreCurrent
  <2>3. ShownIsCurrent'
    BY <1>0, <1>3 DEF ShownIsCurrent, LoadIsAnswered, ShowLoaded, LoadFails
  <2> QED BY <2>2, <2>3
<1>4. CASE ClickSave \/ ClickTest \/ ClickRemove \/ ClickReplace
  <2>1. /\ request = "none" /\ reply = Waiting /\ reply' = Waiting /\ testCall = {} /\ testCall' = {}
        /\ nextConfig' = NoConfig /\ UNCHANGED <<config, loading, overtaken, untold>>
        /\ request' \in {"none", "save", "test", "remove"}
    BY <1>2, <1>4 DEF ClickSave, ClickTest, ClickRemove, ClickReplace, Ask, panelHistory,
       AnswersAreCurrent, OneTestAtATime
  <2>2. \A c \in SandboxCalls : ~InFlight(c)
    BY <1>2, <2>1 DEF OneTestAtATime
  <2> QED BY <1>0, <1>2, <2>1, <2>2, OutcomesDiffer DEF OneTestAtATime, AnswersAreCurrent, ShownIsCurrent
<1>5. CASE HandleFails
  <2>1. /\ request # "none" /\ reply = Waiting /\ reply' = Failed /\ testCall = {}
        /\ UNCHANGED <<request, testCall, nextConfig, config, loading, overtaken, untold>>
    BY <1>5 DEF HandleFails, Pending, panelHistory
  <2>2. \A c \in SandboxCalls : ~InFlight(c)
    BY <1>2, <2>1 DEF OneTestAtATime
  <2> QED BY <1>0, <1>2, <2>1, <2>2, OutcomesDiffer DEF OneTestAtATime, AnswersAreCurrent, ShownIsCurrent
<1>6. CASE SaveArrives \/ TestArrives \/ RemoveArrives
  <2>1. reply # Waiting /\ reply' = Waiting /\ \A c \in SandboxCalls : ~InFlight(c)
    BY <1>2, <1>6 DEF SaveArrives, TestArrives, RemoveArrives, Arrived, OneTestAtATime
  <2>2. CASE SaveArrives
    <3>1. request = "save" /\ testCall = {} /\ testCall' = {} /\ UNCHANGED <<loading, overtaken, untold>>
      BY <1>2, <2>2 DEF SaveArrives, Arrived, OneTestAtATime, panelHistory
    <3>2. CASE Good
      <4>1. reply.config = Saved
        BY <1>2, <3>2, OutcomesDiffer DEF AnswersAreCurrent, Good
      <4>2. config' = Saved /\ nextConfig' = Saved /\ request' = "test"
        BY <2>2, <3>2, <4>1 DEF SaveArrives
      <4> QED BY <1>0, <1>2, <2>1, <3>1, <4>2, OutcomesDiffer DEF OneTestAtATime, AnswersAreCurrent, ShownIsCurrent
    <3>3. CASE ~Good
      <4>1. reply.outcome = "failed" /\ nextConfig = NoConfig
        BY <1>2, <2>1, <3>1, <3>3, OutcomesDiffer DEF AnswersAreCurrent, Good
      <4>2. request' = "none" /\ UNCHANGED <<config, nextConfig>>
        BY <2>2, <3>3 DEF SaveArrives
      <4> QED BY <1>0, <1>2, <2>1, <3>1, <4>1, <4>2, OutcomesDiffer DEF OneTestAtATime, AnswersAreCurrent, ShownIsCurrent
    <3> QED BY <3>2, <3>3
  <2>3. CASE RemoveArrives
    <3>1. request = "remove" /\ testCall = {} /\ testCall' = {} /\ request' = "none"
          /\ UNCHANGED <<loading, overtaken, untold, nextConfig>>
      BY <1>2, <2>3 DEF RemoveArrives, Arrived, OneTestAtATime, panelHistory
    <3>2. config' = Saved \/ (config' = config /\ reply.outcome = "failed")
      BY <1>2, <2>1, <2>3, <3>1, OutcomesDiffer DEF RemoveArrives, AnswersAreCurrent, Good
    <3>3. nextConfig = NoConfig
      BY <1>2, <3>1 DEF AnswersAreCurrent
    <3> QED BY <1>0, <1>2, <2>1, <3>1, <3>2, <3>3, OutcomesDiffer DEF OneTestAtATime, AnswersAreCurrent, ShownIsCurrent
  <2>4. CASE TestArrives
    <3>1. request' = "none" /\ testCall' = {} /\ nextConfig' = NoConfig /\ UNCHANGED <<loading, overtaken>>
      BY <2>4 DEF TestArrives
    <3>2. OneTestAtATime' /\ AnswersAreCurrent'
      BY <1>0, <1>2, <2>1, <3>1, OutcomesDiffer DEF OneTestAtATime, AnswersAreCurrent
    <3>3. loading = "done" /\ ~overtaken =>
            config'.key = Saved.key /\ (config'.test = Saved.test \/ untold')
      <4>1. CASE reply = Failed
        <5>1. untold' = untold /\ config' = IF nextConfig # NoConfig THEN nextConfig ELSE config
          BY <2>4, <4>1, OutcomesDiffer DEF TestArrives, Good
        <5> QED BY <1>2, <4>1, <5>1, OutcomesDiffer DEF AnswersAreCurrent, ShownIsCurrent
      <4>2. CASE reply # Failed
        <5>1. reply.config = Saved /\ untold' = (~Good /\ nextConfig # NoConfig)
          BY <1>2, <2>1, <2>4, <4>2 DEF TestArrives, AnswersAreCurrent
        <5>2. config' = IF untold' THEN nextConfig ELSE Saved
          BY <2>4, <4>2, <5>1 DEF TestArrives
        <5> QED BY <1>2, <5>1, <5>2 DEF AnswersAreCurrent
      <4> QED BY <4>1, <4>2
    <3> QED BY <1>0, <3>1, <3>2, <3>3 DEF ShownIsCurrent
  <2> QED BY <1>6, <2>2, <2>3, <2>4
<1> QED BY <1>3, <1>4, <1>5, <1>6

LEMMA ServerStep ==
  ASSUME SandboxInv, SandboxPanelTypeOK, PanelInv,
         HandleSave \/ HandleRemove \/ \E c \in SandboxCalls : HandleTest(c) \/ TestGoesOn(c) \/ TestEnds(c)
  PROVE  PanelInv'
<1> SUFFICES ASSUME Undisturbed' PROVE OneTestAtATime' /\ AnswersAreCurrent' /\ ShownIsCurrent'
  BY DEF PanelInv
<1>1. Undisturbed
  BY DEF HandleSave, HandleRemove, HandleTest, TestGoesOn, TestEnds, panelHistory, Undisturbed
<1>2. OneTestAtATime /\ AnswersAreCurrent /\ ShownIsCurrent
  BY <1>1 DEF PanelInv
<1>3. CASE HandleSave \/ HandleRemove
  <2>1. /\ request \in {"save", "remove"} /\ reply = Waiting /\ testCall = {}
        /\ reply' = [outcome |-> "ok", config |-> Saved']
        /\ UNCHANGED <<request, testCall, nextConfig, callStage, callKind, tenant>>
    BY <1>2, <1>3 DEF HandleSave, HandleRemove, Pending, AnswerWithConfig, SaveE2BKey, RemoveE2BKey, OneTestAtATime
  <2>2. \A c \in SandboxCalls : ~InFlight(c) /\ (InFlight(c)' <=> InFlight(c))
    BY <1>2, <2>1 DEF OneTestAtATime, InFlight
  <2>3. lateTest' = lateTest
    BY <1>3, <2>2 DEF HandleSave, HandleRemove, SaveE2BKey, RemoveE2BKey
  <2>4. reply'.outcome = "ok" /\ reply'.config = Saved' /\ nextConfig = NoConfig
    BY <1>2, <2>1 DEF AnswersAreCurrent
  <2> QED BY <1>2, <2>1, <2>2, <2>3, <2>4 DEF OneTestAtATime, AnswersAreCurrent, ShownIsCurrent
<1>4. ASSUME NEW c \in SandboxCalls, HandleTest(c)
      PROVE  OneTestAtATime' /\ AnswersAreCurrent' /\ ShownIsCurrent'
  <2>1. /\ request = "test" /\ reply = Waiting /\ testCall = {} /\ testCall' = {c}
        /\ callStage' = [callStage EXCEPT ![c] = "key"] /\ callStage[c] = "new"
        /\ tenant' = [tenant EXCEPT ![c] = PanelTenant] /\ callKind' = [callKind EXCEPT ![c] = "test"]
        /\ UNCHANGED <<request, reply, nextConfig, config, loading, overtaken, untold, e2bKey, lastTest, lateTest>>
    BY <1>4 DEF HandleTest, Pending, TestE2B, CallTo, settingVars, panelHistory
  <2>2. OneTestAtATime'
    BY <1>2, <2>1 DEF SandboxInv, SandboxesTypeOK, OneTestAtATime, InFlight
  <2>3. Saved' = Saved
    BY <2>1 DEF Saved
  <2> QED BY <1>2, <2>1, <2>2, <2>3 DEF AnswersAreCurrent, ShownIsCurrent
<1>5. ASSUME NEW c \in SandboxCalls, TestGoesOn(c)
      PROVE  OneTestAtATime' /\ AnswersAreCurrent' /\ ShownIsCurrent'
  <2>1. /\ UNCHANGED <<e2bKey, lastTest, lateTest, callKind, tenant>> /\ UNCHANGED <<pageVars, panelHistory>>
        /\ InFlight(c) /\ \A d \in SandboxCalls \ {c} : callStage'[d] = callStage[d]
    <3> USE DEF SandboxInv, SandboxesTypeOK, CallTo, settingVars, InFlight
    <3>1. CASE ReadKey(c) \/ ReadSettings(c)
      BY <1>5, <3>1 DEF TestGoesOn, ReadKey, ReadSettings
    <3>2. CASE BeginCreate(c) \/ SandboxCreated(c) \/ CreateThrows(c)
      BY <1>5, <3>2 DEF TestGoesOn, BeginCreate, SandboxCreated, CreateThrows
    <3>3. CASE RunCommand(c) \/ KillSandbox(c)
      BY <1>5, <3>3 DEF TestGoesOn, RunCommand, KillSandbox
    <3> QED BY <1>5, <3>1, <3>2, <3>3 DEF TestGoesOn
  <2>2. Saved' = Saved /\ UNCHANGED <<request, reply, testCall, nextConfig, config, loading, overtaken, untold>>
    BY <2>1 DEF Saved, pageVars, panelHistory
  <2>3. OneTestAtATime'
    BY <1>2, <2>1, <2>2 DEF OneTestAtATime, InFlight
  <2> QED BY <1>2, <2>2, <2>3 DEF AnswersAreCurrent, ShownIsCurrent
<1>6. ASSUME NEW c \in SandboxCalls, TestEnds(c)
      PROVE  OneTestAtATime' /\ AnswersAreCurrent' /\ ShownIsCurrent'
  <2>1. /\ callStage[c] = "record" /\ UNCHANGED <<e2bKey, lateTest, callKind, tenant>>
        /\ callStage' = [callStage EXCEPT ![c] = "done"]
        /\ UNCHANGED <<loading, loaded, config, request, testCall, nextConfig, panelHistory>>
    BY <1>6 DEF TestEnds, RecordTestResult, CallTo
  <2>2. InFlight(c) /\ c \in testCall /\ request = "test" /\ reply = Waiting
    BY <1>2, <2>1 DEF OneTestAtATime, InFlight
  <2>3. reply'.outcome \in {"ok", "test failed"} /\ reply'.config = Saved' /\ Saved'.key = Saved.key
    <3>1. reply' = [outcome |-> IF result[c] = "success" THEN "ok" ELSE "test failed", config |-> Saved']
      BY <1>6, <2>2 DEF TestEnds, AnswerWithConfig
    <3>2. Saved'.key = Saved.key
      BY <2>1 DEF Saved
    <3> QED BY <3>1, <3>2
  <2>4. \A d \in SandboxCalls : ~InFlight(d)'
    BY <1>2, <2>1 DEF SandboxInv, SandboxesTypeOK, OneTestAtATime, InFlight
  <2>5. OneTestAtATime'
    BY <1>2, <2>1, <2>2, <2>4 DEF OneTestAtATime
  <2>6. AnswersAreCurrent' /\ ShownIsCurrent'
    BY <1>2, <2>1, <2>2, <2>3 DEF AnswersAreCurrent, ShownIsCurrent
  <2> QED BY <2>5, <2>6
<1> QED BY <1>3, <1>4, <1>5, <1>6

LEMMA PanelTypeStep ==
  ASSUME SandboxInv, SandboxInv', SandboxPanelTypeOK, [SandboxPanelNext]_sandboxPanelVars
  PROVE  SandboxPanelTypeOK'
<1>1. CASE UNCHANGED sandboxPanelVars
  BY <1>1 DEF SandboxPanelTypeOK, sandboxPanelVars, pageVars, panelHistory
<1> QED BY <1>1, PanelTypes

PanelInvs == SandboxInv /\ SandboxPanelTypeOK /\ PanelInv

LEMMA PanelStep == PanelInvs /\ [SandboxPanelNext]_sandboxPanelVars => PanelInvs'
<1> SUFFICES ASSUME PanelInvs, [SandboxPanelNext]_sandboxPanelVars PROVE PanelInvs'
  OBVIOUS
<1> USE DEF PanelInvs
<1>1. SandboxInv'
  BY PanelStepIsSandboxStep, SandboxStep
<1>2. SandboxPanelTypeOK'
  BY <1>1, PanelTypeStep
<1>3. PanelInv'
  <2>1. CASE \/ LoadIsAnswered \/ ShowLoaded \/ LoadFails \/ ClickSave \/ ClickTest \/ ClickRemove \/ ClickReplace
             \/ HandleFails \/ SaveArrives \/ TestArrives \/ RemoveArrives
    <3>1. UNCHANGED sandboxVars
      BY <2>1 DEF LoadIsAnswered, ShowLoaded, LoadFails, ClickSave, ClickTest, ClickRemove, ClickReplace, Ask,
         HandleFails, SaveArrives, TestArrives, RemoveArrives
    <3> QED BY <2>1, <3>1, PageStep
  <2>2. CASE HandleSave \/ HandleRemove \/ \E c \in SandboxCalls : HandleTest(c) \/ TestGoesOn(c) \/ TestEnds(c)
    BY <2>2, ServerStep
  <2>3. CASE ChangedElsewhere \/ RequestFails
    BY <2>3 DEF ChangedElsewhere, RequestFails, PanelInv, Undisturbed
  <2>4. CASE UNCHANGED sandboxPanelVars
    <3>1. UNCHANGED <<sandboxVars, Saved, request, reply, testCall, nextConfig, config, loading, overtaken, untold,
                      elsewhere, lost>>
      BY <2>4 DEF sandboxPanelVars, sandboxVars, pageVars, panelHistory, Saved
    <3>2. UNCHANGED <<tenant, callKind, callStage, lateTest>>
      BY <3>1 DEF sandboxVars
    <3> QED BY <3>1, <3>2 DEF PanelInv, Undisturbed, OneTestAtATime, AnswersAreCurrent, ShownIsCurrent, InFlight
  <2> QED BY <2>1, <2>2, <2>3, <2>4 DEF SandboxPanelNext
<1> QED BY <1>1, <1>2, <1>3

(* The page shows what is saved once it has nothing under way, and by      *)
(* itself leaves no verdict on a workspace without a key.                  *)
THEOREM SettingsSafety == SandboxPanelSpec => []SettingsPageIsTrue
<1>1. SandboxPanelInit => PanelInvs
  BY PanelInit, SandboxInit DEF SandboxPanelInit, PanelInvs
<1>2. PanelInvs => SettingsPageIsTrue
  <2> SUFFICES ASSUME PanelInvs PROVE SettingsPageIsTrue
    OBVIOUS
  <2>1. PanelShowsTheSettings
    BY OutcomesDiffer DEF PanelInvs, PanelInv, AnswersAreCurrent, ShownIsCurrent, PanelShowsTheSettings
  <2>2. OnePageLeavesNoVerdict
    BY PanelTenantAssumption DEF PanelInvs, PanelInv, SandboxInv, NoVerdictWithoutKey, OneTestAtATime,
       OnePageLeavesNoVerdict, Saved
  <2> QED BY <2>1, <2>2 DEF SettingsPageIsTrue
<1> QED BY <1>1, <1>2, PanelStep, PTL DEF SandboxPanelSpec

-----------------------------------------------------------------------------
(* The instance TLC checks drives one part and lets the others rest.       *)
PartsInv ==
  /\ SignInInv /\ IdTokensInv /\ AccessInv /\ RunnerTokensInv /\ RateInv
  /\ SandboxInv /\ SandboxPanelTypeOK /\ (part = "sandboxPanel" => PanelInv)

LEMMA PartsInit == Init => PartsInv
BY SignInInvInit, IdTokensInvInit, AccessInvInit, RunnerTokensInvInit, RateInit, PanelInit, SandboxInit
   DEF Init, SandboxPanelInit, PartsInv

LEMMA PartsStep == PartsInv /\ [Next]_workspaceVars => PartsInv'
<1> SUFFICES ASSUME PartsInv, [Next]_workspaceVars PROVE PartsInv'
  OBVIOUS
<1>1. /\ part' = part
      /\ [SignInNext]_signInVars /\ [IdTokensNext]_idTokenVars /\ [AccessNext]_accessVars
      /\ [RunnerTokensNext]_runnerTokenVars /\ [RateLimitsNext]_rateVars
  BY DEF Next, workspaceVars
<1>2. \/ /\ part # "sandboxPanel" /\ [SandboxesNext]_sandboxVars
         /\ UNCHANGED <<pageVars, overtaken, lost, untold>> /\ elsewhere' \in {elsewhere, TRUE}
      \/ [SandboxPanelNext]_sandboxPanelVars
  BY DEF Next, workspaceVars, sandboxPanelVars, panelHistory
<1>3. SignInInv' /\ IdTokensInv' /\ AccessInv' /\ RunnerTokensInv' /\ RateInv'
  BY <1>1, SignInInvStep, IdTokensInvStep, AccessInvStep, RunnerTokensInvStep, RateStep DEF PartsInv
<1>4. SandboxInv' /\ SandboxPanelTypeOK' /\ (part' = "sandboxPanel" => PanelInv')
  <2>1. CASE /\ part # "sandboxPanel" /\ [SandboxesNext]_sandboxVars
             /\ UNCHANGED <<pageVars, overtaken, lost, untold>> /\ elsewhere' \in {elsewhere, TRUE}
    <3>1. SandboxInv'
      BY <2>1, SandboxStep DEF PartsInv
    <3>2. SandboxPanelTypeOK'
      <4>1. elsewhere' \in BOOLEAN
        BY <2>1 DEF PartsInv, SandboxPanelTypeOK
      <4> QED BY <2>1, <4>1 DEF PartsInv, SandboxPanelTypeOK, pageVars
    <3> QED BY <1>1, <2>1, <3>1, <3>2
  <2>2. CASE part = "sandboxPanel" /\ [SandboxPanelNext]_sandboxPanelVars
    BY <2>2, PanelStep DEF PartsInv, PanelInvs
  <2>3. CASE part # "sandboxPanel" /\ [SandboxPanelNext]_sandboxPanelVars
    <3>1. SandboxInv'
      BY <2>3, PanelStepIsSandboxStep, SandboxStep DEF PartsInv
    <3> QED BY <1>1, <2>3, <3>1, PanelTypeStep DEF PartsInv
  <2> QED BY <1>2, <2>1, <2>2, <2>3
<1> QED BY <1>3, <1>4 DEF PartsInv

(* Whatever protects the workspace keeps its type, in whichever part the   *)
(* steps are taken.                                                        *)
THEOREM WorkspaceTypeCorrect == Spec => []TypeOK
<1>1. PartsInv => TypeOK
  BY DEF PartsInv, TypeOK, SignInInv, IdTokensInv, AccessInv, RunnerTokensInv, RateInv, SandboxInv
<1> QED BY <1>1, PartsInit, PartsStep, PTL DEF Spec
=============================================================================
