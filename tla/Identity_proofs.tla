-------------------------- MODULE Identity_proofs --------------------------
(***************************************************************************)
(* Who may act for a workspace: identity tokens and sign-in, the API keys  *)
(* and runner tokens that follow, for any number of keys, tokens,          *)
(* callbacks and calls that overlap, and any limit, lifetime or timeout.   *)
(***************************************************************************)
EXTENDS SignIn, IdTokens, Access, RunnerTokens, FiniteSetTheorems, WellFoundedInduction, TLAPS

-----------------------------------------------------------------------------
(* Sessions and the workspaces they lead to.                               *)

(* A set of workspaces has an oldest one, by the library's theorem that    *)
(* every non-empty set has a minimal element of a well-founded order.      *)
Before == {p \in Nat \X Nat : p[1] < p[2]}

LEMMA LeastStamp ==
  ASSUME NEW S \in SUBSET Nat, S # {}
  PROVE  \E x \in S : \A y \in S : x <= y
<1>1. IsWellFoundedOn(Before, Nat)
  <2>1. Before = OpToRel(<, Nat)
    BY Zenon DEF Before, OpToRel
  <2> QED BY Zenon, <2>1, NatLessThanWellFounded
<1>2. PICK x \in S : \A y \in S : ~ (<<y, x>> \in Before)
  BY <1>1, WFMin
<1>3. ASSUME NEW y \in S PROVE x <= y
  <2>1. x \in Nat /\ y \in Nat
    OBVIOUS
  <2>2. ~ (<<y, x>> \in Before)
    BY <1>2
  <2>3. <<y, x>> \in Nat \X Nat /\ <<y, x>>[1] = y /\ <<y, x>>[2] = x
    BY <2>1
  <2>4. ~ (<<y, x>>[1] < <<y, x>>[2])
    BY <2>2, <2>3 DEF Before
  <2> QED BY <2>1, <2>3, <2>4
<1> QED BY <1>3

LEMMA SomethingIsOldest ==
  ASSUME SignInTypeOK, NEW W \in SUBSET Callbacks, W # {}
  PROVE  Oldest(W) # {}
<1> DEFINE Stamps == {stamp[w] : w \in W}
<1>1. Stamps \in SUBSET Nat /\ Stamps # {}
  BY DEF SignInTypeOK
<1>2. PICK x \in Stamps : \A y \in Stamps : x <= y
  <2> HIDE DEF Stamps
  <2> QED BY <1>1, LeastStamp
<1>3. PICK w \in W : stamp[w] = x
  BY <1>2
<1>4. w \in Oldest(W)
  BY <1>2, <1>3 DEF Oldest
<1> QED BY <1>4

-----------------------------------------------------------------------------
AfterFind == {"updateUser", "insertUser", "findWorkspace", "insertWorkspace", "insertMember", "createSession"}

(* The UPDATE that claims is the lock.                                     *)
ClaimedOnce ==
  \A t \in Transactions :
    /\ \A b, c \in claims[t] : b = c
    /\ claims[t] # {} => transaction[t] \in {"claimed", "gone"}

(* What a callback knows at each stage of its sign-in.                     *)
CallbackInv ==
  \A b \in Callbacks :
    /\ stage[b] \notin {"new", "claimed", "exchange", "done"} => subject[b] \in Subjects
    /\ stage[b] \in AfterFind => user[b] = subject[b]
    /\ stage[b] \in {"insertMember", "createSession"} => ws[b] \in Owned(user[b])
    /\ stage[b] = "createSession" => ws[b] \in members
    /\ session[b] # "none" =>
         stage[b] = "done" /\ user[b] = subject[b] /\ ws[b] \in Owned(user[b]) \cap members

(* A workspace's callback is past everything that its row depends on.      *)
WorkspacesAreSettled ==
  \A w \in workspaces : stage[w] \in {"insertMember", "createSession", "done"}

(* Of a subject that never raced at most one callback is about to insert a *)
(* workspace, and only while there is none.                                *)
OneWorkspaceUnlessRaced ==
  \A s \in Subjects \ raced :
    /\ \A v, w \in Owned(s) : v = w
    /\ \A b \in Callbacks : stage[b] = "insertWorkspace" /\ user[b] = s =>
         /\ Owned(s) = {}
         /\ \A c \in Callbacks : stage[c] = "insertWorkspace" /\ user[c] = s => c = b

SignInInv ==
  SignInTypeOK /\ ClaimedOnce /\ CallbackInv /\ WorkspacesAreSettled /\ OneWorkspaceUnlessRaced

LEMMA SignInInvInit == SignInInit => SignInInv
<1> SUFFICES ASSUME SignInInit PROVE SignInInv
  OBVIOUS
<1> USE DEF SignInInit
<1>1. SignInTypeOK
  BY DEF SignInTypeOK, CallbackStages
<1>2. ClaimedOnce /\ WorkspacesAreSettled
  BY DEF ClaimedOnce, WorkspacesAreSettled
<1>3. CallbackInv
  BY DEF CallbackInv, AfterFind
<1>4. OneWorkspaceUnlessRaced
  BY DEF OneWorkspaceUnlessRaced, Owned
<1> QED BY <1>1, <1>2, <1>3, <1>4 DEF SignInInv

LEMMA SignInTypeStep == SignInInv /\ [SignInNext]_signInVars => SignInTypeOK'
<1> SUFFICES ASSUME SignInInv, [SignInNext]_signInVars PROVE SignInTypeOK'
  OBVIOUS
<1> USE NobodyIsNobody DEF SignInInv, SignInTypeOK, CallbackStages, CallbackAt, CallbackGoto, callbackVars, signInTables
<1>1. ASSUME NEW t \in Transactions, StartTransaction(t) \/ TransactionLapses(t) \/ SweepTransaction(t)
      PROVE  SignInTypeOK'
  BY <1>1 DEF StartTransaction, TransactionLapses, SweepTransaction
<1>2. ASSUME NEW b \in Callbacks, NEW t \in Transactions, ClaimTransaction(b, t) PROVE SignInTypeOK'
  BY <1>2 DEF ClaimTransaction
<1>3. ASSUME NEW b \in Callbacks, ReadTransaction(b) \/ Stop(b) PROVE SignInTypeOK'
  BY <1>3 DEF ReadTransaction, Stop
<1>4. ASSUME NEW b \in Callbacks, ExchangeCode(b) PROVE SignInTypeOK'
  BY <1>4 DEF ExchangeCode
<1>5. ASSUME NEW b \in Callbacks, FindUser(b) PROVE SignInTypeOK'
  BY <1>5 DEF FindUser, UserBySubject
<1>6. ASSUME NEW b \in Callbacks, UpdateUser(b) \/ InsertUser(b) PROVE SignInTypeOK'
  BY <1>6 DEF UpdateUser, InsertUser
<1>7. ASSUME NEW b \in Callbacks, FindWorkspace(b) PROVE SignInTypeOK'
  <2>1. Oldest(Owned(user[b])) \subseteq Callbacks
    BY DEF Oldest, Owned
  <2>2. CASE ws' = ws
    <3>1. {user[c] : c \in {d \in Callbacks \ {b} :
                       stage[d] = "insertWorkspace" /\ user[d] = user[b]}} \subseteq Subjects
      BY DEF CallbackInv, AfterFind
    <3>2. raced' \in SUBSET Subjects
      BY <1>7, <3>1 DEF FindWorkspace
    <3> QED BY <1>7, <2>2, <3>2 DEF FindWorkspace
  <2>3. CASE \E w \in Oldest(Owned(user[b])) :
               ws' = [ws EXCEPT ![b] = w] /\ CallbackGoto(b, "insertMember") /\ UNCHANGED raced
    BY <1>7, <2>1, <2>3 DEF FindWorkspace
  <2> QED BY <1>7, <2>2, <2>3 DEF FindWorkspace
<1>8. ASSUME NEW b \in Callbacks, InsertWorkspace(b) PROVE SignInTypeOK'
  BY <1>8 DEF InsertWorkspace
<1>9. ASSUME NEW b \in Callbacks, InsertMember(b) PROVE SignInTypeOK'
  <2>1. ws[b] \in Callbacks
    BY <1>9 DEF InsertMember, CallbackInv, Owned
  <2> QED BY <1>9, <2>1 DEF InsertMember
<1>10. ASSUME NEW b \in Callbacks, CreateUserSession(b) \/ SignOut(b) \/ SessionLapses(b) \/ ExpireSession(b)
       PROVE  SignInTypeOK'
  BY <1>10 DEF CreateUserSession, SignOut, SessionLapses, ExpireSession
<1>11. CASE UNCHANGED signInVars
  BY <1>11 DEF signInVars
<1> QED
  BY <1>1, <1>2, <1>3, <1>4, <1>5, <1>6, <1>7, <1>8, <1>9, <1>10, <1>11 DEF SignInNext

-----------------------------------------------------------------------------
(* Rows only join: a workspace keeps its owner and its created_at, because *)
(* its callback is past the statements that set them.                      *)
RowsOnlyJoin ==
  /\ members \subseteq members'
  /\ \A w \in workspaces : w \in workspaces' /\ user'[w] = user[w] /\ stamp'[w] = stamp[w]
  /\ WorkspacesAreSettled'

LEMMA RowsOnlyJoinStep == SignInInv /\ [SignInNext]_signInVars => RowsOnlyJoin
<1> SUFFICES ASSUME SignInInv, [SignInNext]_signInVars PROVE RowsOnlyJoin
  OBVIOUS
<1> USE DEF SignInInv, SignInTypeOK, CallbackAt, CallbackGoto, callbackVars, signInTables,
            WorkspacesAreSettled, RowsOnlyJoin
<1>1. ASSUME NEW t \in Transactions, StartTransaction(t) \/ TransactionLapses(t) \/ SweepTransaction(t)
      PROVE  RowsOnlyJoin
  BY <1>1 DEF StartTransaction, TransactionLapses, SweepTransaction
<1>2. ASSUME NEW b \in Callbacks, SignOut(b) \/ SessionLapses(b) \/ ExpireSession(b)
      PROVE  RowsOnlyJoin
  BY <1>2 DEF SignOut, SessionLapses, ExpireSession
<1>3. ASSUME NEW b \in Callbacks, NEW t \in Transactions, ClaimTransaction(b, t) PROVE RowsOnlyJoin
  BY <1>3 DEF ClaimTransaction
<1>4. ASSUME NEW b \in Callbacks, ReadTransaction(b) \/ ExchangeCode(b) \/ Stop(b) PROVE RowsOnlyJoin
  BY <1>4 DEF ReadTransaction, ExchangeCode, Stop
<1>5. ASSUME NEW b \in Callbacks, FindUser(b) \/ UpdateUser(b) \/ InsertUser(b) PROVE RowsOnlyJoin
  BY <1>5 DEF FindUser, UpdateUser, InsertUser
<1>6. ASSUME NEW b \in Callbacks, FindWorkspace(b) PROVE RowsOnlyJoin
  BY <1>6 DEF FindWorkspace
<1>7. ASSUME NEW b \in Callbacks, InsertWorkspace(b) \/ InsertMember(b) \/ CreateUserSession(b)
      PROVE  RowsOnlyJoin
  BY <1>7 DEF InsertWorkspace, InsertMember, CreateUserSession
<1>8. CASE UNCHANGED signInVars
  BY <1>8 DEF signInVars
<1> QED
  BY <1>1, <1>2, <1>3, <1>4, <1>5, <1>6, <1>7, <1>8 DEF SignInNext

LEMMA OwnedGrows ==
  ASSUME RowsOnlyJoin, NEW s, NEW w \in Owned(s)
  PROVE  w \in Owned(s)'
BY DEF RowsOnlyJoin, Owned

-----------------------------------------------------------------------------
LEMMA ClaimedOnceStep == SignInInv /\ [SignInNext]_signInVars => ClaimedOnce'
<1> SUFFICES ASSUME SignInInv, [SignInNext]_signInVars PROVE ClaimedOnce'
  OBVIOUS
<1> USE DEF SignInInv, SignInTypeOK, CallbackAt, CallbackGoto, callbackVars, signInTables, ClaimedOnce
<1>1. ASSUME NEW t \in Transactions, StartTransaction(t) \/ TransactionLapses(t) \/ SweepTransaction(t)
      PROVE  ClaimedOnce'
  BY <1>1 DEF StartTransaction, TransactionLapses, SweepTransaction
<1>2. ASSUME NEW b \in Callbacks, NEW t \in Transactions, ClaimTransaction(b, t) PROVE ClaimedOnce'
  <2>1. CASE Claimable(t)
    <3>1. claims[t] = {}
      BY <2>1 DEF Claimable
    <3>2. claims'[t] = {b} /\ transaction'[t] = "claimed"
      BY <1>2, <2>1, <3>1 DEF ClaimTransaction
    <3>3. \A u \in Transactions \ {t} : claims'[u] = claims[u] /\ transaction'[u] = transaction[u]
      BY <1>2, <2>1 DEF ClaimTransaction
    <3> QED BY <3>2, <3>3
  <2>2. CASE ~ Claimable(t)
    BY <1>2, <2>2 DEF ClaimTransaction
  <2> QED BY <2>1, <2>2
<1>3. ASSUME NEW b \in Callbacks,
             ReadTransaction(b) \/ ExchangeCode(b) \/ FindUser(b) \/ UpdateUser(b) \/ InsertUser(b)
      PROVE  ClaimedOnce'
  BY <1>3 DEF ReadTransaction, ExchangeCode, FindUser, UpdateUser, InsertUser
<1>4. ASSUME NEW b \in Callbacks,
             FindWorkspace(b) \/ InsertWorkspace(b) \/ InsertMember(b) \/ CreateUserSession(b)
      PROVE  ClaimedOnce'
  BY <1>4 DEF FindWorkspace, InsertWorkspace, InsertMember, CreateUserSession
<1>5. ASSUME NEW b \in Callbacks, Stop(b) \/ SignOut(b) \/ SessionLapses(b) \/ ExpireSession(b)
      PROVE  ClaimedOnce'
  BY <1>5 DEF Stop, SignOut, SessionLapses, ExpireSession
<1>6. CASE UNCHANGED signInVars
  BY <1>6 DEF signInVars
<1> QED BY <1>1, <1>2, <1>3, <1>4, <1>5, <1>6 DEF SignInNext

-----------------------------------------------------------------------------
(* CallbackInv, of one callback.                                           *)
CallbackOK(b) ==
  /\ stage[b] \notin {"new", "claimed", "exchange", "done"} => subject[b] \in Subjects
  /\ stage[b] \in AfterFind => user[b] = subject[b]
  /\ stage[b] \in {"insertMember", "createSession"} => ws[b] \in Owned(user[b])
  /\ stage[b] = "createSession" => ws[b] \in members
  /\ session[b] # "none" =>
       stage[b] = "done" /\ user[b] = subject[b] /\ ws[b] \in Owned(user[b]) \cap members

(* A callback that no step of its own disturbs keeps what it knows, since  *)
(* rows only join.                                                         *)
LEMMA CallbackUndisturbed ==
  ASSUME RowsOnlyJoin, NEW b \in Callbacks, CallbackOK(b),
         stage'[b] = stage[b], subject'[b] = subject[b], user'[b] = user[b], ws'[b] = ws[b],
         session'[b] = session[b] \/ (session[b] # "none" /\ session'[b] # "none")
  PROVE  CallbackOK(b)'
<1>1. members \subseteq members'
  BY DEF RowsOnlyJoin
<1>2. ws[b] \in Owned(user[b]) => ws'[b] \in (Owned(user[b]))'
  BY DEF RowsOnlyJoin, Owned
<1> QED BY <1>1, <1>2 DEF CallbackOK

LEMMA CallbackInvStep == SignInInv /\ [SignInNext]_signInVars => CallbackInv'
<1> SUFFICES ASSUME SignInInv, [SignInNext]_signInVars, NEW b \in Callbacks PROVE CallbackOK(b)'
  BY DEF CallbackInv, CallbackOK
<1>0. RowsOnlyJoin /\ CallbackOK(b)
  BY RowsOnlyJoinStep DEF SignInInv, CallbackInv, CallbackOK
<1> USE DEF SignInInv, SignInTypeOK, CallbackAt, CallbackGoto, callbackVars, signInTables
<1>1. ASSUME NEW t \in Transactions, StartTransaction(t) \/ TransactionLapses(t) \/ SweepTransaction(t)
      PROVE  CallbackOK(b)'
  BY <1>0, <1>1, CallbackUndisturbed DEF StartTransaction, TransactionLapses, SweepTransaction
<1>2. ASSUME NEW c \in Callbacks, SignOut(c) \/ SessionLapses(c) \/ ExpireSession(c) PROVE CallbackOK(b)'
  BY <1>0, <1>2, CallbackUndisturbed DEF SignOut, SessionLapses, ExpireSession
<1>3. ASSUME NEW c \in Callbacks, NEW t \in Transactions, ClaimTransaction(c, t) PROVE CallbackOK(b)'
  <2>1. CASE b # c
    BY <1>0, <1>3, <2>1, CallbackUndisturbed DEF ClaimTransaction
  <2>2. CASE b = c
    BY <1>0, <1>3, <2>2 DEF ClaimTransaction, CallbackOK, AfterFind
  <2> QED BY <2>1, <2>2
<1>4. ASSUME NEW c \in Callbacks, ReadTransaction(c) PROVE CallbackOK(b)'
  <2>1. CASE b # c
    BY <1>0, <1>4, <2>1, CallbackUndisturbed DEF ReadTransaction
  <2>2. CASE b = c
    BY <1>0, <1>4, <2>2 DEF ReadTransaction, CallbackOK, AfterFind
  <2> QED BY <2>1, <2>2
<1>5. ASSUME NEW c \in Callbacks, ExchangeCode(c) PROVE CallbackOK(b)'
  <2>1. CASE b # c
    BY <1>0, <1>5, <2>1, CallbackUndisturbed DEF ExchangeCode
  <2>2. CASE b = c
    BY <1>0, <1>5, <2>2 DEF ExchangeCode, CallbackOK, AfterFind
  <2> QED BY <2>1, <2>2
<1>6. ASSUME NEW c \in Callbacks, FindUser(c) PROVE CallbackOK(b)'
  <2>1. CASE b # c
    BY <1>0, <1>6, <2>1, CallbackUndisturbed DEF FindUser
  <2>2. CASE b = c
    BY <1>0, <1>6, <2>2 DEF FindUser, UserBySubject, CallbackOK, AfterFind
  <2> QED BY <2>1, <2>2
<1>7. ASSUME NEW c \in Callbacks, UpdateUser(c) \/ InsertUser(c) PROVE CallbackOK(b)'
  <2>1. CASE b # c
    BY <1>0, <1>7, <2>1, CallbackUndisturbed DEF UpdateUser, InsertUser
  <2>2. CASE b = c
    BY <1>0, <1>7, <2>2 DEF UpdateUser, InsertUser, CallbackOK, AfterFind
  <2> QED BY <2>1, <2>2
<1>8. ASSUME NEW c \in Callbacks, FindWorkspace(c) PROVE CallbackOK(b)'
  <2>1. CASE b # c
    BY <1>0, <1>8, <2>1, CallbackUndisturbed DEF FindWorkspace
  <2>2. CASE b = c
    <3>1. stage[b] = "findWorkspace" /\ session'[b] = session[b] /\ session[b] = "none"
      BY <1>0, <1>8, <2>2 DEF FindWorkspace, CallbackOK
    <3>2. subject'[b] = subject[b] /\ user'[b] = user[b] /\ subject[b] \in Subjects /\ user[b] = subject[b]
      BY <1>0, <1>8, <2>2, <3>1 DEF FindWorkspace, CallbackOK, AfterFind
    <3>3. \/ stage'[b] = "insertWorkspace"
          \/ stage'[b] = "insertMember" /\ ws'[b] \in Owned(user[b])
      BY <1>8, <2>2 DEF FindWorkspace, Oldest, Owned
    <3>4. ws'[b] \in Owned(user[b]) => ws'[b] \in (Owned(user[b]))'
      BY <1>0, <3>2 DEF RowsOnlyJoin, Owned
    <3> QED BY <3>1, <3>2, <3>3, <3>4 DEF CallbackOK, AfterFind
  <2> QED BY <2>1, <2>2
<1>9. ASSUME NEW c \in Callbacks, InsertWorkspace(c) PROVE CallbackOK(b)'
  <2>1. CASE b # c
    BY <1>0, <1>9, <2>1, CallbackUndisturbed DEF InsertWorkspace
  <2>2. CASE b = c
    BY <1>0, <1>9, <2>2 DEF InsertWorkspace, CallbackOK, AfterFind, Owned
  <2> QED BY <2>1, <2>2
<1>10. ASSUME NEW c \in Callbacks, InsertMember(c) PROVE CallbackOK(b)'
  <2>1. CASE b # c
    BY <1>0, <1>10, <2>1, CallbackUndisturbed DEF InsertMember
  <2>2. CASE b = c
    BY <1>0, <1>10, <2>2 DEF InsertMember, CallbackOK, AfterFind, Owned
  <2> QED BY <2>1, <2>2
<1>11. ASSUME NEW c \in Callbacks, CreateUserSession(c) PROVE CallbackOK(b)'
  <2>1. CASE b # c
    BY <1>0, <1>11, <2>1, CallbackUndisturbed DEF CreateUserSession
  <2>2. CASE b = c
    BY <1>0, <1>11, <2>2 DEF CreateUserSession, CallbackOK, AfterFind, Owned
  <2> QED BY <2>1, <2>2
<1>12. ASSUME NEW c \in Callbacks, Stop(c) PROVE CallbackOK(b)'
  <2>1. CASE b # c
    BY <1>0, <1>12, <2>1, CallbackUndisturbed DEF Stop
  <2>2. CASE b = c
    BY <1>0, <1>12, <2>2 DEF Stop, CallbackOK, AfterFind
  <2> QED BY <2>1, <2>2
<1>13. CASE UNCHANGED signInVars
  BY <1>0, <1>13, CallbackUndisturbed DEF signInVars
<1> QED
  BY <1>1, <1>2, <1>3, <1>4, <1>5, <1>6, <1>7, <1>8, <1>9, <1>10, <1>11, <1>12, <1>13 DEF SignInNext

-----------------------------------------------------------------------------
(* OneWorkspaceUnlessRaced, of one subject.                                *)
OneWorkspaceOf(s) ==
  /\ \A v, w \in Owned(s) : v = w
  /\ \A b \in Callbacks : stage[b] = "insertWorkspace" /\ user[b] = s =>
       /\ Owned(s) = {}
       /\ \A c \in Callbacks : stage[c] = "insertWorkspace" /\ user[c] = s => c = b

(* Nobody new is about to insert, and nobody inserted.                     *)
LEMMA NobodyNewInserts ==
  ASSUME SignInInv, RowsOnlyJoin, NEW s \in Subjects, OneWorkspaceOf(s), workspaces' = workspaces,
         \A c \in Callbacks : stage'[c] = "insertWorkspace" =>
                                stage[c] = "insertWorkspace" /\ user'[c] = user[c]
  PROVE  OneWorkspaceOf(s)'
<1>1. Owned(s)' = Owned(s)
  BY DEF RowsOnlyJoin, Owned
<1> QED BY <1>1 DEF OneWorkspaceOf

LEMMA OneWorkspaceStep == SignInInv /\ [SignInNext]_signInVars => OneWorkspaceUnlessRaced'
<1> SUFFICES ASSUME SignInInv, [SignInNext]_signInVars, NEW s \in Subjects, s \notin raced'
             PROVE  OneWorkspaceOf(s)'
  BY DEF OneWorkspaceUnlessRaced, OneWorkspaceOf
<1>0. RowsOnlyJoin
  BY RowsOnlyJoinStep
<1> USE DEF SignInInv, SignInTypeOK, CallbackAt, CallbackGoto, callbackVars, signInTables
<1>1. ASSUME raced' = raced PROVE OneWorkspaceOf(s)
  BY <1>1 DEF OneWorkspaceUnlessRaced, OneWorkspaceOf
<1>2. ASSUME NEW t \in Transactions, StartTransaction(t) \/ TransactionLapses(t) \/ SweepTransaction(t)
      PROVE  OneWorkspaceOf(s)'
  BY <1>0, <1>1, <1>2, NobodyNewInserts DEF StartTransaction, TransactionLapses, SweepTransaction
<1>3. ASSUME NEW b \in Callbacks, SignOut(b) \/ SessionLapses(b) \/ ExpireSession(b)
      PROVE  OneWorkspaceOf(s)'
  BY <1>0, <1>1, <1>3, NobodyNewInserts DEF SignOut, SessionLapses, ExpireSession
<1>4. ASSUME NEW b \in Callbacks, NEW t \in Transactions, ClaimTransaction(b, t) PROVE OneWorkspaceOf(s)'
  BY <1>0, <1>1, <1>4, NobodyNewInserts DEF ClaimTransaction
<1>5. ASSUME NEW b \in Callbacks, ReadTransaction(b) \/ ExchangeCode(b) \/ Stop(b)
      PROVE  OneWorkspaceOf(s)'
  BY <1>0, <1>1, <1>5, NobodyNewInserts DEF ReadTransaction, ExchangeCode, Stop
<1>6. ASSUME NEW b \in Callbacks, FindUser(b) PROVE OneWorkspaceOf(s)'
  BY <1>0, <1>1, <1>6, NobodyNewInserts DEF FindUser
<1>7. ASSUME NEW b \in Callbacks, UpdateUser(b) \/ InsertUser(b) PROVE OneWorkspaceOf(s)'
  BY <1>0, <1>1, <1>7, NobodyNewInserts DEF UpdateUser, InsertUser
<1>8. ASSUME NEW b \in Callbacks, InsertMember(b) \/ CreateUserSession(b) PROVE OneWorkspaceOf(s)'
  BY <1>0, <1>1, <1>8, NobodyNewInserts DEF InsertMember, CreateUserSession
<1>9. ASSUME NEW b \in Callbacks, FindWorkspace(b) PROVE OneWorkspaceOf(s)'
  <2>1. CASE Owned(user[b]) = {} /\ stage' = [stage EXCEPT ![b] = "insertWorkspace"]
             /\ raced' = raced \cup {user[c] : c \in {d \in Callbacks \ {b} :
                                     stage[d] = "insertWorkspace" /\ user[d] = user[b]}}
    <3>1. s \notin raced /\ OneWorkspaceOf(s)
      BY <2>1 DEF OneWorkspaceUnlessRaced, OneWorkspaceOf
    <3>2. workspaces' = workspaces /\ user' = user /\ Owned(s)' = Owned(s)
      BY <1>9 DEF FindWorkspace, Owned
    <3>3. CASE user[b] # s
      BY <2>1, <3>1, <3>2, <3>3 DEF OneWorkspaceOf
    <3>4. CASE user[b] = s
      <4>1. \A d \in Callbacks \ {b} : ~ (stage[d] = "insertWorkspace" /\ user[d] = s)
        BY <2>1, <3>4
      <4>2. \A c \in Callbacks : stage'[c] = "insertWorkspace" /\ user'[c] = s => c = b
        BY <2>1, <3>2, <4>1
      <4>3. Owned(s)' = {}
        BY <2>1, <3>2, <3>4
      <4> QED BY <4>2, <4>3 DEF OneWorkspaceOf
    <3> QED BY <3>3, <3>4
  <2>2. CASE raced' = raced /\ stage' = [stage EXCEPT ![b] = "insertMember"]
    BY <1>0, <1>1, <1>9, <2>2, NobodyNewInserts DEF FindWorkspace
  <2> QED BY <1>9, <2>1, <2>2 DEF FindWorkspace
<1>10. ASSUME NEW b \in Callbacks, InsertWorkspace(b) PROVE OneWorkspaceOf(s)'
  <2>1. OneWorkspaceOf(s) /\ user' = user /\ workspaces' = workspaces \cup {b}
        /\ stage[b] = "insertWorkspace" /\ stage' = [stage EXCEPT ![b] = "insertMember"]
    BY <1>1, <1>10 DEF InsertWorkspace
  <2>2. CASE user[b] # s
    <3>1. Owned(s)' = Owned(s)
      BY <2>1, <2>2 DEF Owned
    <3> QED BY <2>1, <3>1 DEF OneWorkspaceOf
  <2>3. CASE user[b] = s
    <3>1. Owned(s) = {} /\ \A c \in Callbacks : stage[c] = "insertWorkspace" /\ user[c] = s => c = b
      BY <2>1, <2>3 DEF OneWorkspaceOf
    <3>2. \A w \in Owned(s)' : w = b
      BY <2>1, <3>1 DEF Owned
    <3>3. \A c \in Callbacks : ~ (stage'[c] = "insertWorkspace" /\ user'[c] = s)
      BY <2>1, <3>1
    <3> QED BY <3>2, <3>3 DEF OneWorkspaceOf
  <2> QED BY <2>2, <2>3
<1>11. CASE UNCHANGED signInVars
  BY <1>0, <1>1, <1>11, NobodyNewInserts DEF signInVars
<1> QED
  BY <1>2, <1>3, <1>4, <1>5, <1>6, <1>7, <1>8, <1>9, <1>10, <1>11 DEF SignInNext

-----------------------------------------------------------------------------
(* Theorems.                                                               *)

LEMMA SignInInvStep == SignInInv /\ [SignInNext]_signInVars => SignInInv'
BY SignInTypeStep, ClaimedOnceStep, CallbackInvStep, RowsOnlyJoinStep, OneWorkspaceStep
   DEF SignInInv, RowsOnlyJoin

LEMMA SignInInvariance == SignInSpec => []SignInInv
BY SignInInvInit, SignInInvStep, PTL DEF SignInSpec

(* The tables and the callbacks' locals keep their types.                  *)
THEOREM SignInTypeCorrect == SignInSpec => []SignInTypeOK
<1>1. SignInInv => SignInTypeOK
  BY DEF SignInInv
<1> QED BY SignInInvariance, <1>1, PTL

(* However many callbacks overlap, are replayed or die: a session comes    *)
(* from one authorization, is its subject's and leads to a workspace.      *)
THEOREM SessionSafety == SignInSpec => []SessionsAreSound
<1>1. SignInInv => SessionsAreSound
  <2> SUFFICES ASSUME SignInInv PROVE SessionsAreSound
    OBVIOUS
  <2>1. OneSessionPerAuthorization
    BY DEF SignInInv, ClaimedOnce, OneSessionPerAuthorization
  <2>2. SessionIsTheSubjects
    BY DEF SignInInv, CallbackInv, SessionIsTheSubjects
  <2>3. ASSUME NEW b \in Callbacks, session[b] # "none" PROVE ResolvedWorkspace(user[b]) # {}
    <3>1. ws[b] \in Owned(user[b]) \cap members
      BY <2>3 DEF SignInInv, CallbackInv
    <3>2. Owned(user[b]) \cap members \in SUBSET Callbacks
      BY DEF SignInInv, SignInTypeOK
    <3> QED BY <3>1, <3>2, SomethingIsOldest DEF ResolvedWorkspace, SignInInv
  <2> QED BY <2>1, <2>2, <2>3 DEF SessionsAreSound, SessionHasWorkspace
<1> QED BY SignInInvariance, <1>1, PTL

(* Of a user whose first sign-ins did not overlap there is never a second  *)
(* workspace to move to.                                                   *)
THEOREM WorkspaceSafety == SignInSpec => WorkspaceStays
<1>1. SignInInv /\ [SignInNext]_signInVars =>
        [\A s \in Subjects : ResolvedWorkspace(s) # {} /\ s \notin raced =>
           ResolvedWorkspace(s)' = ResolvedWorkspace(s)]_signInVars
  <2> SUFFICES ASSUME SignInInv, [SignInNext]_signInVars, NEW s \in Subjects,
                      ResolvedWorkspace(s) # {}, s \notin raced
               PROVE  ResolvedWorkspace(s)' = ResolvedWorkspace(s)
    OBVIOUS
  <2>1. RowsOnlyJoin
    BY RowsOnlyJoinStep
  <2>2. PICK w \in Owned(s) \cap members : w \in ResolvedWorkspace(s)
    BY DEF ResolvedWorkspace, Oldest
  <2>3. Owned(s) = {w} /\ \A b \in Callbacks : ~ (stage[b] = "insertWorkspace" /\ user[b] = s)
    BY <2>2 DEF SignInInv, OneWorkspaceUnlessRaced
  <2>4. \A v \in workspaces' \ workspaces :
          v \in Callbacks /\ stage[v] = "insertWorkspace" /\ user'[v] = user[v]
    <3> USE DEF SignInInv, SignInTypeOK, CallbackAt, callbackVars, signInTables
    <3>1. ASSUME NEW b \in Callbacks, InsertWorkspace(b)
          PROVE  workspaces' = workspaces \cup {b} /\ stage[b] = "insertWorkspace" /\ user' = user
      BY <3>1 DEF InsertWorkspace
    <3>2. ASSUME ~ \E b \in Callbacks : InsertWorkspace(b) PROVE workspaces' = workspaces
      BY <3>2 DEF SignInNext, signInVars, StartTransaction, TransactionLapses, SweepTransaction,
                  ClaimTransaction, ReadTransaction, ExchangeCode, FindUser, UpdateUser, InsertUser,
                  FindWorkspace, InsertMember, CreateUserSession, Stop, SignOut, SessionLapses,
                  ExpireSession
    <3> QED BY <3>1, <3>2
  <2>5. Owned(s)' = {w} /\ w \in members'
    <3>1. w \in Owned(s)' /\ w \in members'
      BY <2>1, <2>2, OwnedGrows DEF RowsOnlyJoin
    <3>2. ASSUME NEW v \in Owned(s)' PROVE v = w
      <4>1. v \in workspaces' /\ user'[v] = s
        BY DEF Owned
      <4>2. v \in workspaces
        BY <2>3, <2>4, <4>1
      <4>3. v \in Owned(s)
        BY <2>1, <4>1, <4>2 DEF RowsOnlyJoin, Owned
      <4> QED BY <2>3, <4>3
    <3> QED BY <3>1, <3>2
  <2>6. w \in workspaces /\ stamp[w] \in Nat /\ stamp'[w] = stamp[w]
    BY <2>1, <2>2 DEF RowsOnlyJoin, Owned, SignInInv, SignInTypeOK
  <2>7. ResolvedWorkspace(s) = {w}
    BY <2>2, <2>3, <2>6 DEF ResolvedWorkspace, Oldest
  <2>8. ResolvedWorkspace(s)' = {w}
    BY <2>5, <2>6 DEF ResolvedWorkspace, Oldest
  <2> QED BY <2>7, <2>8
<1> QED BY SignInInvariance, <1>1, PTL DEF SignInSpec, WorkspaceStays

-----------------------------------------------------------------------------
(* The cache of signing keys.                                              *)

Grace == FetchTimeout + CacheTtl

(* Events lie in the past, or never happened.                              *)
DatesArePast ==
  \A k \in SigningKeys :
    /\ withdrawnAt[k] = Never \/ withdrawnAt[k] <= time
    /\ publishedAt[k] = Never \/ publishedAt[k] <= time

CacheIsRecent == keyCache.expiresAt <= time + CacheTtl

(* An answer under way is younger than the timeout; it has no key that was *)
(* withdrawn, and lacks none that was published, before it was sent.       *)
AnswersAreTrue ==
  \A v \in Verifications : verifyStage[v] = "fetching" =>
    /\ time <= sentAt[v] + FetchTimeout
    /\ \A k \in SigningKeys :
         IF k \in keysGot[v] THEN sentAt[v] <= withdrawnAt[k]
         ELSE withdrawnAt[k] <= time \/ sentAt[v] <= publishedAt[k]

(* What the cache says of a key was true not longer ago than the grace.    *)
CacheIsTrue ==
  \A k \in SigningKeys :
    IF k \in keyCache.keys THEN keyCache.expiresAt <= withdrawnAt[k] + Grace
    ELSE withdrawnAt[k] <= time \/ keyCache.expiresAt <= publishedAt[k] + Grace

KeysGotAreTrue ==
  \A v \in Verifications : verifyStage[v] = "verify" =>
    \A k \in SigningKeys :
      IF k \in keysGot[v] THEN time <= withdrawnAt[k] + Grace
      ELSE withdrawnAt[k] <= time \/ time <= publishedAt[k] + Grace

IdTokensInv ==
  /\ IdTokensTypeOK
  /\ DatesArePast /\ CacheIsRecent /\ AnswersAreTrue /\ CacheIsTrue /\ KeysGotAreTrue
  /\ TrustEndsWithTheCache /\ NewKeysAreFoundInTime

LEMMA SomeKey == (CHOOSE k \in SigningKeys : TRUE) \in SigningKeys
<1>1. \E k : k \in SigningKeys
  BY IdTokenBounds
<1> QED BY <1>1, Zenon

LEMMA IdTokensInvInit == IdTokensInit => IdTokensInv
<1> SUFFICES ASSUME IdTokensInit PROVE IdTokensInv
  OBVIOUS
<1> USE IdTokenBounds DEF IdTokensInit, Never
<1>1. IdTokensTypeOK
  <2>1. signedBy \in [Verifications -> SigningKeys]
    BY SomeKey, Zenon
  <2>2. /\ time \in 0 .. LastTime
        /\ publishedAt \in [SigningKeys -> 0 .. Never]
        /\ withdrawnAt \in [SigningKeys -> 0 .. Never]
    OBVIOUS
  <2>3. keyCache \in [keys : SUBSET SigningKeys, expiresAt : Nat]
    OBVIOUS
  <2>4. /\ verifyStage \in [Verifications -> VerifyStages]
        /\ claimsHold \in [Verifications -> BOOLEAN]
        /\ keysGot \in [Verifications -> SUBSET SigningKeys]
    BY DEF VerifyStages
  <2>5. sentAt \in [Verifications -> 0 .. time] /\ endedAt \in [Verifications -> 0 .. time]
    OBVIOUS
  <2> QED BY <2>1, <2>2, <2>3, <2>4, <2>5 DEF IdTokensTypeOK
<1>2. DatesArePast /\ CacheIsRecent
  BY DEF DatesArePast, CacheIsRecent
<1>3. CacheIsTrue
  <2> SUFFICES ASSUME NEW k \in SigningKeys
               PROVE  k \notin keyCache.keys /\ keyCache.expiresAt <= publishedAt[k] + Grace
    BY DEF CacheIsTrue
  <2>1. keyCache.keys = {} /\ keyCache.expiresAt = 0 /\ publishedAt[k] = LastTime + 1
    OBVIOUS
  <2> QED BY <2>1 DEF Grace
<1>4. /\ AnswersAreTrue /\ KeysGotAreTrue
      /\ TrustEndsWithTheCache /\ NewKeysAreFoundInTime
  BY DEF AnswersAreTrue, KeysGotAreTrue, TrustEndsWithTheCache, NewKeysAreFoundInTime
<1> QED BY <1>1, <1>2, <1>3, <1>4 DEF IdTokensInv

LEMMA IdTokensInvStep == IdTokensInv /\ [IdTokensNext]_idTokenVars => IdTokensInv'
<1> SUFFICES ASSUME IdTokensInv, [IdTokensNext]_idTokenVars PROVE IdTokensInv'
  OBVIOUS
<1> USE IdTokenBounds DEF IdTokensInv, IdTokensTypeOK, VerifyStages, Never, Grace,
        DatesArePast, CacheIsRecent, AnswersAreTrue, CacheIsTrue, KeysGotAreTrue,
        TrustEndsWithTheCache, NewKeysAreFoundInTime, providerVars, verifyVars
<1>1. ASSUME NEW k \in SigningKeys, PublishKey(k) PROVE IdTokensInv'
  BY <1>1 DEF PublishKey
<1>2. ASSUME NEW k \in SigningKeys, WithdrawKey(k) PROVE IdTokensInv'
  BY <1>2 DEF WithdrawKey, Published
<1>3. ASSUME NEW v \in Verifications, NEW k \in SigningKeys, NEW holds \in BOOLEAN,
             VerifyWithCachedKeys(v, k, holds)
      PROVE  IdTokensInv'
  BY <1>3 DEF VerifyWithCachedKeys, BeginVerify
<1>4. ASSUME NEW v \in Verifications, NEW k \in SigningKeys, NEW holds \in BOOLEAN,
             AskForKeys(v, k, holds)
      PROVE  IdTokensInv'
  BY <1>4 DEF AskForKeys, BeginVerify, Published
<1>5. ASSUME NEW v \in Verifications, KeysArrive(v) PROVE IdTokensInv'
  BY <1>5 DEF KeysArrive
<1>6. ASSUME NEW v \in Verifications, KeysDoNotArrive(v) PROVE IdTokensInv'
  BY <1>6 DEF KeysDoNotArrive, EndVerify
<1>7. ASSUME NEW v \in Verifications, Verify(v) PROVE IdTokensInv'
  BY <1>7 DEF Verify, EndVerify
<1>8. CASE TimePasses
  BY <1>8 DEF TimePasses
<1>9. CASE UNCHANGED idTokenVars
  BY <1>9 DEF idTokenVars
<1> QED BY <1>1, <1>2, <1>3, <1>4, <1>5, <1>6, <1>7, <1>8, <1>9 DEF IdTokensNext

(* Clock, cache, provider and every verification's locals keep their types.*)
THEOREM IdTokensTypeCorrect == IdTokensSpec => []IdTokensTypeOK
<1>1. IdTokensInv => IdTokensTypeOK
  BY DEF IdTokensInv
<1> QED BY <1>1, IdTokensInvInit, IdTokensInvStep, PTL DEF IdTokensSpec

(* verifyIdToken trusts a withdrawn key no longer than the cache lives and *)
(* a request for the keys takes, for any number of overlapping sign-ins.   *)
THEOREM WithdrawnKeySafety == IdTokensSpec => []TrustEndsWithTheCache
<1>1. IdTokensInv => TrustEndsWithTheCache
  BY DEF IdTokensInv
<1> QED BY <1>1, IdTokensInvInit, IdTokensInvStep, PTL DEF IdTokensSpec

(* verifyIdToken misses a published key no longer than that.               *)
THEOREM NewKeySafety == IdTokensSpec => []NewKeysAreFoundInTime
<1>1. IdTokensInv => NewKeysAreFoundInTime
  BY DEF IdTokensInv
<1> QED BY <1>1, IdTokensInvInit, IdTokensInvStep, PTL DEF IdTokensSpec

(* Both: what verifyIdToken decides by is late by the cache's life and a   *)
(* request at most, whichever answer of the provider came last.            *)
THEOREM SigningKeySafety == IdTokensSpec => []SigningKeysAreCurrent
<1>1. TrustEndsWithTheCache /\ NewKeysAreFoundInTime => SigningKeysAreCurrent
  BY DEF SigningKeysAreCurrent
<1> QED BY <1>1, WithdrawnKeySafety, NewKeySafety, PTL

-----------------------------------------------------------------------------
(* A runner's token is spent once.                                         *)

Won(c, t) == consumer[c] = "ok" /\ t \in presented[c]

(* The UPDATE's condition is the lock: a winner has left its token used,   *)
(* or swept since, and nothing makes a token unused again.                 *)
SpentByTheWinner ==
  /\ \A t \in RunnerTokenIds : \A c, e \in Consumers : Won(c, t) /\ Won(e, t) => c = e
  /\ \A t \in RunnerTokenIds, c \in Consumers : Won(c, t) => runnerToken[t] \in {"used", "gone"}
  /\ \A t \in RunnerTokenIds : runnerToken[t] = "used" => \E c \in Consumers : Won(c, t)

OneTokenEach == \A c \in Consumers : \A t, u \in presented[c] : t = u

SawTheRunWaiting ==
  \A c \in Consumers : consumer[c] \in {"use", "ok"} => seenStatus[c] = "waiting_approval"

RunnerTokensInv == RunnerTokensTypeOK /\ OneTokenEach /\ SpentByTheWinner /\ SawTheRunWaiting

LEMMA RunnerTokensInvInit == RunnerTokensInit => RunnerTokensInv
BY DEF RunnerTokensInit, RunnerTokensInv, RunnerTokensTypeOK, SpentByTheWinner, Won, OneTokenEach, SawTheRunWaiting

LEMMA RunnerTokensInvStep ==
  RunnerTokensInv /\ [RunnerTokensNext]_runnerTokenVars => RunnerTokensInv'
<1> SUFFICES ASSUME RunnerTokensInv, [RunnerTokensNext]_runnerTokenVars PROVE RunnerTokensInv'
  OBVIOUS
<1> USE DEF RunnerTokensInv, RunnerTokensTypeOK, SpentByTheWinner, Won, OneTokenEach, SawTheRunWaiting, consumerVars
<1>1. ASSUME NEW t \in RunnerTokenIds,
             CreateRunnerApprovalToken(t) \/ TokenExpires(t) \/ SweepRunnerToken(t)
      PROVE  RunnerTokensInv'
  BY <1>1 DEF CreateRunnerApprovalToken, TokenExpires, SweepRunnerToken
<1>2. CASE RunDecided
  BY <1>2 DEF RunDecided
<1>3. ASSUME NEW c \in Consumers, ReadRun(c) PROVE RunnerTokensInv'
  BY <1>3 DEF ReadRun, ConsumerAt
<1>4. ASSUME NEW c \in Consumers, NEW t \in RunnerTokenIds, ReadToken(c, t) PROVE RunnerTokensInv'
  BY <1>4 DEF ReadToken, ConsumerAt
<1>5. ASSUME NEW c \in Consumers, NEW t \in RunnerTokenIds, UseToken(c, t) PROVE RunnerTokensInv'
  BY <1>5 DEF UseToken, ConsumerAt
<1>6. CASE UNCHANGED runnerTokenVars
  BY <1>6 DEF runnerTokenVars
<1> QED BY <1>1, <1>2, <1>3, <1>4, <1>5, <1>6 DEF RunnerTokensNext

(* Rows and locals of consumeRunnerApprovalToken keep their types.         *)
THEOREM RunnerTokensTypeCorrect == RunnerTokensSpec => []RunnerTokensTypeOK
<1>1. RunnerTokensInv => RunnerTokensTypeOK
  BY DEF RunnerTokensInv
<1> QED BY <1>1, RunnerTokensInvInit, RunnerTokensInvStep, PTL DEF RunnerTokensSpec

LEMMA SpentOnce == RunnerTokensInv => TokenSpentOnce
<1> SUFFICES ASSUME RunnerTokensInv, NEW t \in RunnerTokenIds
             PROVE  LET winners == {c \in Consumers : consumer[c] = "ok" /\ t \in presented[c]}
                    IN  /\ Cardinality(winners) <= 1
                        /\ runnerToken[t] = "used" => winners # {}
                        /\ \A c \in winners : seenStatus[c] = "waiting_approval"
  BY DEF TokenSpentOnce
<1> DEFINE winners == {c \in Consumers : consumer[c] = "ok" /\ t \in presented[c]}
<1>1. /\ runnerToken[t] = "used" => winners # {}
      /\ \A c \in winners : seenStatus[c] = "waiting_approval"
  BY DEF RunnerTokensInv, SpentByTheWinner, SawTheRunWaiting, Won
<1> HIDE DEF winners
<1>2. Cardinality(winners) <= 1
  <2>1. CASE winners = {}
    BY <2>1, FS_EmptySet
  <2>2. CASE winners # {}
    <3>1. PICK c : c \in winners
      BY <2>2
    <3>2. winners = {c}
      BY <3>1 DEF winners, RunnerTokensInv, SpentByTheWinner, Won
    <3> QED BY <3>2, FS_Singleton
  <2> QED BY <2>1, <2>2
<1> QED BY <1>1, <1>2 DEF winners

(* The UPDATE of consumeRunnerApprovalToken lets one caller spend a token, *)
(* and only one that saw the run waiting, however many present it.         *)
THEOREM TokenSafety == RunnerTokensSpec => []TokenSpentOnce
BY SpentOnce, RunnerTokensInvInit, RunnerTokensInvStep, PTL DEF RunnerTokensSpec

-----------------------------------------------------------------------------
(* Keys end with the account and with the plan.                            *)

LEMMA AccessTypeInit == AccessInit => AccessTypeOK
<1> SUFFICES ASSUME AccessInit PROVE AccessTypeOK
  OBVIOUS
<1>1. checksUsed \in [Keys -> Nat \cup {-1}] /\ checkKey \in [Checks -> Keys \cup {NoKey}]
  BY DEF AccessInit
<1>2. signedIn \in BOOLEAN /\ swallowed \in BOOLEAN
  BY Zenon DEF AccessInit
<1> QED BY <1>1, <1>2 DEF AccessInit, AccessTypeOK, MintStages, DeleteStages, CheckStages

(* A check that has its key's counter in hand came with a key.             *)
CheckHasKey == \A c \in Checks : checking[c] \in {"ensure", "increment", "read", "allowed"} => checkKey[c] \in Keys

LEMMA AccessTypeStep ==
  AccessTypeOK /\ CheckHasKey /\ [AccessNext]_accessVars => AccessTypeOK' /\ CheckHasKey'
<1> SUFFICES ASSUME AccessTypeOK, CheckHasKey, [AccessNext]_accessVars PROVE AccessTypeOK' /\ CheckHasKey'
  OBVIOUS
<1> USE AccessBounds DEF AccessTypeOK, CheckHasKey, MintStages, DeleteStages, CheckStages
<1>1. ASSUME NEW k \in Keys,
             \/ ReadMintersSession(k) \/ ReadMinter(k) \/ InsertApiKey(k)
             \/ InsertKeysUsage(k) \/ RevokeApiKey(k)
      PROVE  AccessTypeOK' /\ CheckHasKey'
  BY <1>1 DEF ReadMintersSession, ReadMinter, InsertApiKey, InsertKeysUsage, EnsureUsage, RevokeApiKey
<1>2. ASSUME NEW d \in Deletions,
             \/ ReadDeletersSession(d) \/ ReadDeleter(d) \/ RequestAccountDeletion(d) \/ AnswerDeletion(d)
      PROVE  AccessTypeOK' /\ CheckHasKey'
  BY <1>2 DEF ReadDeletersSession, ReadDeleter, RequestAccountDeletion, AnswerDeletion
<1>10. ASSUME NEW d \in Deletions, DeleteAllSessions(d) PROVE AccessTypeOK' /\ CheckHasKey'
  <2>1. signedIn' \in BOOLEAN
    BY <1>10, Zenon DEF DeleteAllSessions
  <2>2. deleting' = [deleting EXCEPT ![d] = After(d, "sessions")] /\ After(d, "sessions") \in DeleteStages
    BY <1>10 DEF DeleteAllSessions, After
  <2>3. UNCHANGED <<ownerStatus, apiKey, checksUsed, minting, checking, checkKey, midMint, swallowed, actsLate>>
    BY <1>10 DEF DeleteAllSessions
  <2> QED BY <2>1, <2>2, <2>3
<1>3. ASSUME NEW d \in Deletions, RevokeAllApiKeys(d) PROVE AccessTypeOK' /\ CheckHasKey'
  <2>1. swallowed' \in BOOLEAN
    BY <1>3, Zenon DEF RevokeAllApiKeys
  <2>2. deleting' = [deleting EXCEPT ![d] = After(d, "keys")] /\ After(d, "keys") \in DeleteStages
    BY <1>3 DEF RevokeAllApiKeys, After
  <2>3. apiKey' \in [Keys -> {"none", "live", "revoked"}] /\ midMint' \in SUBSET Keys
    BY <1>3 DEF RevokeAllApiKeys
  <2>4. UNCHANGED <<ownerStatus, signedIn, checksUsed, minting, checking, checkKey, actsLate>>
    BY <1>3 DEF RevokeAllApiKeys
  <2> QED BY <2>1, <2>2, <2>3, <2>4
<1>4. CASE SignInAgain
  BY <1>4 DEF SignInAgain
<1>5. ASSUME NEW c \in Checks, ValidateApiKey(c) PROVE AccessTypeOK' /\ CheckHasKey'
  BY <1>5 DEF ValidateApiKey
<1>6. ASSUME NEW c \in Checks, EnsureChecksUsage(c) PROVE AccessTypeOK' /\ CheckHasKey'
  BY <1>6 DEF EnsureChecksUsage, EnsureUsage
<1>7. ASSUME NEW c \in Checks, IncrementActionCheckUsage(c) PROVE AccessTypeOK' /\ CheckHasKey'
  BY <1>7 DEF IncrementActionCheckUsage
<1>8. ASSUME NEW c \in Checks, CompareWithLimit(c) PROVE AccessTypeOK' /\ CheckHasKey'
  BY <1>8 DEF CompareWithLimit
<1>9. CASE UNCHANGED accessVars
  BY <1>9 DEF accessVars
<1> QED BY <1>1, <1>2, <1>3, <1>4, <1>5, <1>6, <1>7, <1>8, <1>9, <1>10 DEF AccessNext

-----------------------------------------------------------------------------
(* The account's deletion.                                                 *)

KeysWithdrawn == swallowed \/ (LiveKeys \cup {k \in Keys : minting[k] = "insert"}) \subseteq midMint

(* A deletion that withdraws has marked the account first, so nobody is    *)
(* authorised to make a key any more, and what is on its way is known.     *)
DeletionInv ==
  \A d \in Deletions :
    /\ deleting[d] \in {"withdraw", "sessions", "keys", "answer", "ok"} => ownerStatus = "deletion_requested"
    /\ deleting[d] \in {"sessions", "answer", "ok"} => KeysWithdrawn

LEMMA DeletionStep ==
  AccessTypeOK /\ DeletionInv /\ [AccessNext]_accessVars => DeletionInv'
<1> SUFFICES ASSUME AccessTypeOK, DeletionInv, [AccessNext]_accessVars PROVE DeletionInv'
  OBVIOUS
<1> USE DEF DeletionInv
<1>1. ASSUME NEW k \in Keys,
             ReadMintersSession(k) \/ ReadMinter(k) \/ InsertApiKey(k) \/ InsertKeysUsage(k) \/ RevokeApiKey(k)
      PROVE  DeletionInv'
  <2>1. UNCHANGED <<deleting, ownerStatus, swallowed, midMint>>
    BY <1>1 DEF ReadMintersSession, ReadMinter, InsertApiKey, InsertKeysUsage, RevokeApiKey
  <2>2. ownerStatus = "deletion_requested" /\ KeysWithdrawn => KeysWithdrawn'
    BY <1>1 DEF ReadMintersSession, ReadMinter, InsertApiKey, InsertKeysUsage, RevokeApiKey,
       KeysWithdrawn, LiveKeys, AccessTypeOK
  <2> QED BY <2>1, <2>2
<1>2. ASSUME NEW d \in Deletions, ReadDeletersSession(d) \/ ReadDeleter(d) \/ AnswerDeletion(d)
      PROVE  DeletionInv'
  <2>1. UNCHANGED <<ownerStatus, apiKey, minting, swallowed, midMint>>
    BY <1>2 DEF ReadDeletersSession, ReadDeleter, AnswerDeletion
  <2>2. KeysWithdrawn => KeysWithdrawn'
    BY <2>1 DEF KeysWithdrawn, LiveKeys
  <2> QED BY <1>2, <2>1, <2>2 DEF ReadDeletersSession, ReadDeleter, AnswerDeletion, AccessTypeOK
<1>3. ASSUME NEW d \in Deletions, RequestAccountDeletion(d) PROVE DeletionInv'
  <2>1. UNCHANGED <<apiKey, minting, swallowed, midMint>>
    BY <1>3 DEF RequestAccountDeletion
  <2>2. KeysWithdrawn => KeysWithdrawn'
    BY <2>1 DEF KeysWithdrawn, LiveKeys
  <2> QED BY <1>3, <2>2 DEF RequestAccountDeletion, AccessTypeOK
<1>4. ASSUME NEW d \in Deletions, DeleteAllSessions(d) PROVE DeletionInv'
  <2>1. UNCHANGED <<ownerStatus, apiKey, minting, swallowed, midMint>>
    BY <1>4 DEF DeleteAllSessions
  <2>2. KeysWithdrawn => KeysWithdrawn'
    BY <2>1 DEF KeysWithdrawn, LiveKeys
  <2>3. deleting' = [deleting EXCEPT ![d] = IF deleting[d] = "withdraw" THEN "keys" ELSE "answer"]
        /\ deleting[d] \in {"withdraw", "sessions"}
    BY <1>4 DEF DeleteAllSessions, After
  <2> QED BY <2>1, <2>2, <2>3 DEF AccessTypeOK
<1>5. ASSUME NEW d \in Deletions, RevokeAllApiKeys(d) PROVE DeletionInv'
  <2>1. UNCHANGED <<ownerStatus, minting>>
    BY <1>5 DEF RevokeAllApiKeys
  <2>2. KeysWithdrawn'
    BY <1>5 DEF RevokeAllApiKeys, KeysWithdrawn, LiveKeys
  <2>3. deleting' = [deleting EXCEPT ![d] = IF deleting[d] = "withdraw" THEN "sessions" ELSE "answer"]
        /\ deleting[d] \in {"withdraw", "keys"}
    BY <1>5 DEF RevokeAllApiKeys, After
  <2> QED BY <2>1, <2>2, <2>3 DEF AccessTypeOK
<1>6. CASE SignInAgain \/ UNCHANGED accessVars
           \/ \E c \in Checks : \/ ValidateApiKey(c) \/ EnsureChecksUsage(c)
                               \/ IncrementActionCheckUsage(c) \/ CompareWithLimit(c)
  <2>1. UNCHANGED <<deleting, ownerStatus, apiKey, minting, swallowed, midMint>>
    BY <1>6 DEF SignInAgain, ValidateApiKey, EnsureChecksUsage, IncrementActionCheckUsage,
       CompareWithLimit, accessVars
  <2> QED BY <2>1 DEF KeysWithdrawn, LiveKeys
<1> QED BY <1>1, <1>2, <1>3, <1>4, <1>5, <1>6 DEF AccessNext

-----------------------------------------------------------------------------
(* The plan.                                                               *)

Compared(k) == {c \in Checks : checkKey[c] = k /\ checking[c] \in {"read", "allowed"}}
Allowed(k) == {c \in Checks : checkKey[c] = k /\ checking[c] = "allowed"}

(* The counter counts every call that has incremented it, so the last one  *)
(* let through read a number no smaller than the number of those allowed.  *)
PlanInv ==
  \A k \in Keys :
    /\ checksUsed[k] = -1 => \A c \in Checks : checkKey[c] = k => checking[c] \notin {"increment", "read", "allowed"}
    /\ checksUsed[k] # -1 => Cardinality(Compared(k)) <= checksUsed[k]
    /\ Allowed(k) # {} => Cardinality(Allowed(k)) < CheckLimit

LEMMA ComparedIsFinite ==
  ASSUME NEW k
  PROVE  /\ IsFiniteSet(Compared(k)) /\ Cardinality(Compared(k)) \in Nat
         /\ IsFiniteSet(Compared(k)') /\ Cardinality(Compared(k)') \in Nat
         /\ IsFiniteSet(Allowed(k)') /\ Cardinality(Allowed(k)') \in Nat
         /\ Cardinality(Allowed(k)') <= Cardinality(Compared(k)')
<1>1. /\ Compared(k) \subseteq Checks /\ Compared(k)' \subseteq Checks
      /\ Allowed(k)' \subseteq Checks /\ Allowed(k)' \subseteq Compared(k)'
  BY DEF Compared, Allowed
<1>2. IsFiniteSet(Compared(k)) /\ IsFiniteSet(Compared(k)') /\ IsFiniteSet(Allowed(k)')
  BY <1>1, AccessBounds, FS_Subset
<1> QED BY <1>1, <1>2, FS_Subset, FS_CardinalityType

LEMMA PlanStep ==
  AccessTypeOK /\ CheckHasKey /\ PlanInv /\ [AccessNext]_accessVars => PlanInv'
<1> SUFFICES ASSUME AccessTypeOK, CheckHasKey, PlanInv, [AccessNext]_accessVars PROVE PlanInv'
  OBVIOUS
<1>1. CASE UNCHANGED <<checksUsed, checking, checkKey>>
  <2>1. \A k : Compared(k)' = Compared(k) /\ Allowed(k)' = Allowed(k)
    BY <1>1 DEF Compared, Allowed
  <2> QED BY <1>1, <2>1 DEF PlanInv
<1>2. ASSUME NEW k \in Keys, checksUsed' \in {checksUsed, EnsureUsage(k)}, UNCHANGED <<checking, checkKey>>
      PROVE  PlanInv'
  <2>1. \A j : Compared(j)' = Compared(j) /\ Allowed(j)' = Allowed(j)
    BY <1>2 DEF Compared, Allowed
  <2>2. checksUsed[k] = -1 => Cardinality(Compared(k)) = 0
    <3>1. checksUsed[k] = -1 => Compared(k) = {}
      BY DEF PlanInv, Compared
    <3> QED BY <3>1, FS_EmptySet
  <2>3. ASSUME NEW j \in Keys
        PROVE  \/ checksUsed'[j] = checksUsed[j]
               \/ checksUsed'[j] = 0 /\ checksUsed[j] = -1 /\ j = k
    BY <1>2 DEF EnsureUsage, AccessTypeOK
  <2> QED BY <1>2, <2>1, <2>2, <2>3 DEF PlanInv
<1>3. ASSUME NEW c \in Checks, ValidateApiKey(c) PROVE PlanInv'
  <2>1. checksUsed' = checksUsed /\ checking[c] = "new" /\ checking'[c] \in {"ensure", "refused"}
    BY <1>3 DEF ValidateApiKey, AccessTypeOK
  <2>2. \A e \in Checks \ {c} : checking'[e] = checking[e] /\ checkKey'[e] = checkKey[e]
    BY <1>3 DEF ValidateApiKey, AccessTypeOK
  <2>3. \A k : Compared(k)' = Compared(k) /\ Allowed(k)' = Allowed(k)
    BY <2>1, <2>2 DEF Compared, Allowed
  <2> QED BY <2>1, <2>2, <2>3 DEF PlanInv
<1>4. ASSUME NEW c \in Checks, EnsureChecksUsage(c) PROVE PlanInv'
  <2>1. /\ checking[c] = "ensure" /\ checkKey[c] \in Keys /\ checkKey' = checkKey
        /\ checking' = [checking EXCEPT ![c] = "increment"]
        /\ checksUsed' = EnsureUsage(checkKey[c])
    BY <1>4 DEF EnsureChecksUsage, CheckHasKey
  <2>2. \A k : Compared(k)' = Compared(k) /\ Allowed(k)' = Allowed(k)
    BY <2>1 DEF Compared, Allowed, AccessTypeOK
  <2>3. checksUsed[checkKey[c]] = -1 => Cardinality(Compared(checkKey[c])) = 0
    <3>1. checksUsed[checkKey[c]] = -1 => Compared(checkKey[c]) = {}
      BY <2>1 DEF PlanInv, Compared
    <3> QED BY <3>1, FS_EmptySet
  <2>4. ASSUME NEW k \in Keys
        PROVE  /\ \/ checksUsed'[k] = checksUsed[k]
                  \/ checksUsed'[k] = 0 /\ checksUsed[k] = -1 /\ k = checkKey[c]
               /\ k = checkKey[c] => checksUsed'[k] # -1
    BY <2>1 DEF EnsureUsage, AccessTypeOK
  <2>5. \A e \in Checks : checking'[e] # checking[e] => e = c
    BY <2>1 DEF AccessTypeOK
  <2> QED BY <2>1, <2>2, <2>3, <2>4, <2>5 DEF PlanInv
<1>5. ASSUME NEW c \in Checks, IncrementActionCheckUsage(c) PROVE PlanInv'
  <2>0. PICK key \in Keys : key = checkKey[c]
    BY <1>5 DEF IncrementActionCheckUsage, CheckHasKey
  <2>1. /\ checking[c] = "increment" /\ checkKey' = checkKey
        /\ checking' = [checking EXCEPT ![c] = "read"]
        /\ checksUsed' = [checksUsed EXCEPT ![key] = @ + 1]
    BY <1>5, <2>0 DEF IncrementActionCheckUsage
  <2>2. /\ \A k : Allowed(k)' = Allowed(k)
        /\ \A k : k # key => Compared(k)' = Compared(k)
        /\ Compared(key)' = Compared(key) \cup {c} /\ c \notin Compared(key)
    BY <2>0, <2>1 DEF Compared, Allowed, AccessTypeOK
  <2>3. Cardinality(Compared(key)') = Cardinality(Compared(key)) + 1
    BY <2>0, <2>2, ComparedIsFinite, FS_AddElement
  <2>4. checksUsed[key] \in Nat /\ checksUsed'[key] = checksUsed[key] + 1
        /\ \A k \in Keys \ {key} : checksUsed'[k] = checksUsed[k]
    BY <2>0, <2>1 DEF PlanInv, AccessTypeOK
  <2>5. Cardinality(Compared(key)) <= checksUsed[key] /\ Cardinality(Compared(key)) \in Nat
    BY <2>0, <2>1, <2>4, ComparedIsFinite DEF PlanInv
  <2>6. \A e \in Checks : checking'[e] # checking[e] => e = c
    BY <2>0, <2>1 DEF AccessTypeOK
  <2>7. ASSUME NEW k \in Keys
        PROVE  /\ checksUsed'[k] = -1 => \A e \in Checks : checkKey'[e] = k =>
                                        checking'[e] \notin {"increment", "read", "allowed"}
               /\ checksUsed'[k] # -1 => Cardinality(Compared(k)') <= checksUsed'[k]
               /\ Allowed(k)' # {} => Cardinality(Allowed(k)') < CheckLimit
    <3>1. CASE k = key
      BY <3>1, <2>0, <2>1, <2>2, <2>3, <2>4, <2>5 DEF PlanInv
    <3>2. CASE k # key
      BY <3>2, <2>0, <2>1, <2>2, <2>4, <2>6 DEF PlanInv
    <3> QED BY <3>1, <3>2
  <2> QED BY <2>7 DEF PlanInv
<1>6. ASSUME NEW c \in Checks, CompareWithLimit(c) PROVE PlanInv'
  <2>0. PICK key \in Keys : key = checkKey[c]
    BY <1>6 DEF CompareWithLimit, CheckHasKey
  <2>1. /\ checking[c] = "read" /\ checkKey' = checkKey /\ checksUsed' = checksUsed
        /\ checking'[c] \in {"refused", "allowed"}
        /\ checking'[c] = "allowed" => ~(checksUsed[key] >= CheckLimit)
    BY <1>6, <2>0 DEF CompareWithLimit, ActionCheckLimitExceeded, AccessTypeOK
  <2>2. \A e \in Checks \ {c} : checking'[e] = checking[e]
    BY <1>6 DEF CompareWithLimit, AccessTypeOK
  <2>3. ASSUME NEW k \in Keys PROVE Cardinality(Compared(k)') <= Cardinality(Compared(k))
    <3>1. Compared(k)' \subseteq Compared(k)
      BY <2>0, <2>1, <2>2 DEF Compared
    <3> QED BY <3>1, ComparedIsFinite, FS_Subset
  <2>4. ASSUME NEW k \in Keys, k # key \/ checking'[c] # "allowed" PROVE Allowed(k)' = Allowed(k)
    BY <2>0, <2>1, <2>2, <2>4 DEF Allowed
  <2>5. checksUsed[key] \in Nat /\ Cardinality(Compared(key)) <= checksUsed[key]
    BY <2>0, <2>1 DEF PlanInv, AccessTypeOK
  <2>6. checking'[c] = "allowed" => Cardinality(Allowed(key)') < CheckLimit
    <3>1. /\ Cardinality(Allowed(key)') <= Cardinality(Compared(key)')
          /\ Cardinality(Compared(key)') <= Cardinality(Compared(key))
          /\ Cardinality(Allowed(key)') \in Nat /\ Cardinality(Compared(key)') \in Nat
          /\ Cardinality(Compared(key)) \in Nat
      BY <2>0, <2>1, <2>3, ComparedIsFinite
    <3> QED BY <2>0, <2>1, <2>5, <3>1, AccessBounds
  <2>7. ASSUME NEW k \in Keys
        PROVE  /\ checksUsed'[k] = -1 => \A e \in Checks : checkKey'[e] = k =>
                                        checking'[e] \notin {"increment", "read", "allowed"}
               /\ checksUsed'[k] # -1 => Cardinality(Compared(k)') <= checksUsed'[k]
               /\ Allowed(k)' # {} => Cardinality(Allowed(k)') < CheckLimit
    <3>1. checksUsed'[k] = -1 => \A e \in Checks : checkKey'[e] = k =>
                                        checking'[e] \notin {"increment", "read", "allowed"}
      BY <2>0, <2>1, <2>2 DEF PlanInv
    <3>2. checksUsed'[k] # -1 => Cardinality(Compared(k)') <= checksUsed'[k]
      BY <2>0, <2>1, <2>3, ComparedIsFinite DEF PlanInv, AccessTypeOK
    <3>3. Allowed(k)' # {} => Cardinality(Allowed(k)') < CheckLimit
      BY <2>0, <2>4, <2>6 DEF PlanInv
    <3> QED BY <3>1, <3>2, <3>3
  <2> QED BY <2>7 DEF PlanInv
<1>7. ASSUME NEW k \in Keys, InsertKeysUsage(k) PROVE PlanInv'
  BY <1>2, <1>7 DEF InsertKeysUsage
<1>8. CASE \/ \E k \in Keys : \/ ReadMintersSession(k) \/ ReadMinter(k)
                             \/ InsertApiKey(k) \/ RevokeApiKey(k)
           \/ \E d \in Deletions :
                \/ ReadDeletersSession(d) \/ ReadDeleter(d) \/ RequestAccountDeletion(d)
                \/ RevokeAllApiKeys(d) \/ DeleteAllSessions(d) \/ AnswerDeletion(d)
           \/ SignInAgain \/ UNCHANGED accessVars
  <2>1. UNCHANGED <<checksUsed, checking, checkKey>>
    BY <1>8 DEF ReadMintersSession, ReadMinter, InsertApiKey, RevokeApiKey, ReadDeletersSession,
       ReadDeleter, RequestAccountDeletion, RevokeAllApiKeys, DeleteAllSessions, AnswerDeletion,
       SignInAgain, accessVars
  <2> QED BY <1>1, <2>1
<1> QED BY <1>3, <1>4, <1>5, <1>6, <1>7, <1>8 DEF AccessNext

-----------------------------------------------------------------------------
AccessInv == AccessTypeOK /\ CheckHasKey /\ DeletionInv /\ PlanInv

LEMMA AccessInvInit == AccessInit => AccessInv
<1> SUFFICES ASSUME AccessInit PROVE CheckHasKey /\ DeletionInv /\ PlanInv
  BY AccessTypeInit DEF AccessInv
<1>1. \A k : Allowed(k) = {}
  BY DEF AccessInit, Allowed
<1> QED BY <1>1 DEF AccessInit, CheckHasKey, DeletionInv, PlanInv

LEMMA AccessInvStep == AccessInv /\ [AccessNext]_accessVars => AccessInv'
BY AccessTypeStep, DeletionStep, PlanStep DEF AccessInv

LEMMA AccessInvariant == AccessSpec => []AccessInv
BY AccessInvInit, AccessInvStep, PTL DEF AccessSpec

(* Tables and handlers' locals of keys, checks and deletions keep their    *)
(* types; no check works on a counter without a key.                       *)
THEOREM AccessTypeCorrect == AccessSpec => []AccessTypeOK
<1>1. AccessInv => AccessTypeOK
  BY DEF AccessInv
<1> QED BY <1>1, AccessInvariant, PTL

(* delete-request leaves no key but those under way, whatever is created,  *)
(* deleted or signed in beside it; check-action lets no key past its plan. *)
THEOREM KeySafety == AccessSpec => []KeysHaveAnEnd
<1>1. AccessInv => KeysHaveAnEnd
  BY DEF AccessInv, DeletionInv, KeysWithdrawn, PlanInv, Allowed, KeysHaveAnEnd, PlanLimitHolds,
     DeletionLeavesOnlyInFlightKeys, Answered
<1> QED BY <1>1, AccessInvariant, PTL
=============================================================================
