------------------------------- MODULE SignIn -------------------------------
(***************************************************************************)
(* Signing in with Google: src/lib/oauthTransactions.ts, the callback      *)
(* route, upsertGoogleUserAndWorkspace, createUserSession and              *)
(* getUserSession of src/lib/agentwingStore.ts, and the two sweeps of      *)
(* workers/jobs.  A callback is one request to the callback route; every   *)
(* database statement of it is a step of its own.  A workspace is named by *)
(* the callback that inserted it, a user row by the Google subject in it.  *)
(***************************************************************************)
EXTENDS Naturals, FiniteSets

CONSTANTS Transactions, Callbacks, Subjects, Emails, Nobody

ASSUME NobodyIsNobody == Nobody \notin Subjects \cup Emails \cup Callbacks \cup Transactions

VARIABLES
  transaction,  (* oauth_transactions                                       *)
  email,        (* users.email, Nobody where there is no row                *)
  workspaces,   (* workspaces, all of the subject their callback signs in   *)
  members,      (* the workspaces whose owner is in workspace_members       *)
  session,      (* sessions, by the callback that created them              *)
  stage, subject, address, user, ws, stamp, (* locals of the callbacks          *)
  clock,        (* time, counted in calls of upsertGoogleUserAndWorkspace   *)
  claims,       (* history: per transaction, the callbacks it let through   *)
  raced         (* history: two callbacks of the subject found no workspace *)

callbackVars == <<stage, subject, address, user, ws, stamp>>
signInTables == <<transaction, email, workspaces, members, session>>
signInVars == <<signInTables, callbackVars, clock, claims, raced>>

CallbackStages == {"new", "claimed", "exchange", "findUser", "updateUser", "insertUser",
           "findWorkspace", "insertWorkspace", "insertMember", "createSession", "done"}

SignInTypeOK ==
  /\ transaction \in [Transactions -> {"absent", "open", "lapsed", "claimed", "gone"}]
  /\ email \in [Subjects -> Emails \cup {Nobody}]
  /\ workspaces \in SUBSET Callbacks
  /\ members \in SUBSET Callbacks
  /\ session \in [Callbacks -> {"none", "live", "lapsed", "gone"}]
  /\ stage \in [Callbacks -> CallbackStages]
  /\ subject \in [Callbacks -> Subjects \cup {Nobody}]
  /\ address \in [Callbacks -> Emails \cup {Nobody}]
  /\ user \in [Callbacks -> Subjects \cup {Nobody}]
  /\ ws \in [Callbacks -> Callbacks \cup {Nobody}]
  /\ stamp \in [Callbacks -> 0 .. clock]
  /\ clock \in Nat
  /\ claims \in [Transactions -> SUBSET Callbacks]
  /\ raced \in SUBSET Subjects

SignInInit ==
  /\ transaction = [t \in Transactions |-> "absent"]
  /\ email = [s \in Subjects |-> Nobody]
  /\ workspaces = {} /\ members = {}
  /\ session = [b \in Callbacks |-> "none"]
  /\ stage = [b \in Callbacks |-> "new"]
  /\ subject = [b \in Callbacks |-> Nobody]
  /\ address = [b \in Callbacks |-> Nobody]
  /\ user = [b \in Callbacks |-> Nobody]
  /\ ws = [b \in Callbacks |-> Nobody]
  /\ stamp = [b \in Callbacks |-> 0]
  /\ clock = 0
  /\ claims = [t \in Transactions |-> {}]
  /\ raced = {}

CallbackAt(b, s) == stage[b] = s
CallbackGoto(b, s) == stage' = [stage EXCEPT ![b] = s]

-----------------------------------------------------------------------------
(* oauth_transactions.                                                     *)

StartTransaction(t) ==
  /\ transaction[t] = "absent"
  /\ transaction' = [transaction EXCEPT ![t] = "open"]
  /\ UNCHANGED <<email, workspaces, members, session, callbackVars, clock, claims, raced>>

(* Ten minutes pass.  Of a claimed row that is the sweep's business only.  *)
TransactionLapses(t) ==
  /\ transaction[t] = "open"
  /\ transaction' = [transaction EXCEPT ![t] = "lapsed"]
  /\ UNCHANGED <<email, workspaces, members, session, callbackVars, clock, claims, raced>>

SweepTransaction(t) ==
  /\ transaction[t] \in {"lapsed", "claimed"}
  /\ transaction' = [transaction EXCEPT ![t] = "gone"]
  /\ UNCHANGED <<email, workspaces, members, session, callbackVars, clock, claims, raced>>

(* Faulty variants, here and below, are what a plausible slip in the code  *)
(* would make of the definition that follows: each breaks a property.      *)
ClaimableAgain(t) == transaction[t] \in {"open", "claimed"}

(* The predicate of the UPDATE that claims.                                *)
Claimable(t) == transaction[t] = "open"

(* A browser arrives with the state of t, perhaps not for the first time.  *)
ClaimTransaction(b, t) ==
  /\ CallbackAt(b, "new")
  /\ IF Claimable(t)
     THEN /\ transaction' = [transaction EXCEPT ![t] = "claimed"]
          /\ claims' = [claims EXCEPT ![t] = @ \cup {b}]
          /\ CallbackGoto(b, "claimed")
     ELSE /\ CallbackGoto(b, "done")
          /\ UNCHANGED <<transaction, claims>>
  /\ UNCHANGED <<email, workspaces, members, session, subject, address, user, ws, stamp, clock, raced>>

(* The SELECT after the claim: the sweep may have been faster.             *)
ReadTransaction(b) ==
  /\ CallbackAt(b, "claimed")
  /\ \E t \in Transactions :
       /\ b \in claims[t]
       /\ CallbackGoto(b, IF transaction[t] = "gone" THEN "done" ELSE "exchange")
  /\ UNCHANGED <<signInTables, subject, address, user, ws, stamp, clock, claims, raced>>

(* exchangeGoogleCodeForProfile: somebody's verified identity (or, in      *)
(* Stop, an error).  The call of upsert follows and takes its `now`.       *)
ExchangeCode(b) ==
  /\ CallbackAt(b, "exchange")
  /\ \E s \in Subjects, e \in Emails :
       /\ subject' = [subject EXCEPT ![b] = s]
       /\ address' = [address EXCEPT ![b] = e]
  /\ clock' = clock + 1
  /\ stamp' = [stamp EXCEPT ![b] = clock + 1]
  /\ CallbackGoto(b, "findUser")
  /\ UNCHANGED <<signInTables, user, ws, claims, raced>>

-----------------------------------------------------------------------------
(* upsertGoogleUserAndWorkspace.                                           *)

UserByEmail(b) == {s \in Subjects : email[s] # Nobody /\ (s = subject[b] \/ email[s] = address[b])}

(* The user rows the first SELECT matches.                                 *)
UserBySubject(b) == {s \in Subjects : email[s] # Nobody /\ s = subject[b]}

FindUser(b) ==
  /\ CallbackAt(b, "findUser")
  /\ \/ /\ UserBySubject(b) = {}
        /\ user' = [user EXCEPT ![b] = subject[b]] /\ CallbackGoto(b, "insertUser")
     \/ \E s \in UserBySubject(b) :
          user' = [user EXCEPT ![b] = s] /\ CallbackGoto(b, "updateUser")
  /\ UNCHANGED <<signInTables, subject, address, ws, stamp, clock, claims, raced>>

EmailTaken(b) == \E s \in Subjects \ {user[b]} : email[s] = address[b]

(* UPDATE users, which the unique index on email may refuse.               *)
UpdateUser(b) ==
  /\ CallbackAt(b, "updateUser")
  /\ IF EmailTaken(b)
     THEN CallbackGoto(b, "done") /\ UNCHANGED email
     ELSE /\ email' = [email EXCEPT ![user[b]] = address[b]]
          /\ CallbackGoto(b, "findWorkspace")
  /\ UNCHANGED <<transaction, workspaces, members, session, subject, address, user, ws, stamp,
                 clock, claims, raced>>

(* INSERT INTO users, which either unique index may refuse.                *)
InsertUser(b) ==
  /\ CallbackAt(b, "insertUser")
  /\ IF EmailTaken(b) \/ email[user[b]] # Nobody
     THEN CallbackGoto(b, "done") /\ UNCHANGED email
     ELSE /\ email' = [email EXCEPT ![user[b]] = address[b]]
          /\ CallbackGoto(b, "findWorkspace")
  /\ UNCHANGED <<transaction, workspaces, members, session, subject, address, user, ws, stamp,
                 clock, claims, raced>>

Owned(s) == {w \in workspaces : user[w] = s}
Oldest(W) == {w \in W : \A v \in W : stamp[w] <= stamp[v]}

ForgetToLookForWorkspace(b) ==
  /\ CallbackAt(b, "findWorkspace")
  /\ CallbackGoto(b, "insertWorkspace")
  /\ UNCHANGED <<signInTables, subject, address, user, ws, stamp, clock, claims, raced>>

(* The oldest workspace the user owns, by created_at.                      *)
FindWorkspace(b) ==
  /\ CallbackAt(b, "findWorkspace")
  /\ \/ /\ Owned(user[b]) = {}
        /\ CallbackGoto(b, "insertWorkspace")
        /\ raced' = raced \cup {user[c] : c \in {d \in Callbacks \ {b} :
                                     CallbackAt(d, "insertWorkspace") /\ user[d] = user[b]}}
        /\ UNCHANGED ws
     \/ \E w \in Oldest(Owned(user[b])) :
          ws' = [ws EXCEPT ![b] = w] /\ CallbackGoto(b, "insertMember") /\ UNCHANGED raced
  /\ UNCHANGED <<signInTables, subject, address, user, stamp, clock, claims>>

InsertWorkspace(b) ==
  /\ CallbackAt(b, "insertWorkspace")
  /\ workspaces' = workspaces \cup {b}
  /\ ws' = [ws EXCEPT ![b] = b]
  /\ CallbackGoto(b, "insertMember")
  /\ UNCHANGED <<transaction, email, members, session, subject, address, user, stamp, clock, claims, raced>>

MemberOfNewWorkspaceOnly(b) ==
  /\ CallbackAt(b, "insertMember")
  /\ members' = IF ws[b] = b THEN members \cup {ws[b]} ELSE members
  /\ CallbackGoto(b, "createSession")
  /\ UNCHANGED <<transaction, email, workspaces, session, subject, address, user, ws, stamp,
                 clock, claims, raced>>

(* INSERT OR IGNORE, for a new workspace and for one that was found.       *)
InsertMember(b) ==
  /\ CallbackAt(b, "insertMember")
  /\ members' = members \cup {ws[b]}
  /\ CallbackGoto(b, "createSession")
  /\ UNCHANGED <<transaction, email, workspaces, session, subject, address, user, ws, stamp,
                 clock, claims, raced>>

CreateUserSession(b) ==
  /\ CallbackAt(b, "createSession")
  /\ session' = [session EXCEPT ![b] = "live"]
  /\ CallbackGoto(b, "done")
  /\ UNCHANGED <<transaction, email, workspaces, members, subject, address, user, ws, stamp,
                 clock, claims, raced>>

(* An exchange or a statement fails, or the isolate dies, at any stage.    *)
Stop(b) ==
  /\ stage[b] \notin {"new", "done"}
  /\ CallbackGoto(b, "done")
  /\ UNCHANGED <<signInTables, subject, address, user, ws, stamp, clock, claims, raced>>

-----------------------------------------------------------------------------
(* Sessions.                                                               *)

SignOut(b) ==
  /\ session[b] \in {"live", "lapsed"}
  /\ session' = [session EXCEPT ![b] = "gone"]
  /\ UNCHANGED <<transaction, email, workspaces, members, callbackVars, clock, claims, raced>>

SessionLapses(b) ==
  /\ session[b] = "live"
  /\ session' = [session EXCEPT ![b] = "lapsed"]
  /\ UNCHANGED <<transaction, email, workspaces, members, callbackVars, clock, claims, raced>>

ExpireSession(b) ==
  /\ session[b] = "lapsed"
  /\ session' = [session EXCEPT ![b] = "gone"]
  /\ UNCHANGED <<transaction, email, workspaces, members, callbackVars, clock, claims, raced>>

(* What getUserSession answers: the oldest workspace the user is in.       *)
ResolvedWorkspace(s) == Oldest(Owned(s) \cap members)

SignInNext ==
  \/ \E t \in Transactions : StartTransaction(t) \/ TransactionLapses(t) \/ SweepTransaction(t)
  \/ \E b \in Callbacks :
       \/ \E t \in Transactions : ClaimTransaction(b, t)
       \/ ReadTransaction(b) \/ ExchangeCode(b)
       \/ FindUser(b) \/ UpdateUser(b) \/ InsertUser(b)
       \/ FindWorkspace(b) \/ InsertWorkspace(b) \/ InsertMember(b) \/ CreateUserSession(b)
       \/ Stop(b)
       \/ SignOut(b) \/ SessionLapses(b) \/ ExpireSession(b)

SignInSpec == SignInInit /\ [][SignInNext]_signInVars

-----------------------------------------------------------------------------
(* Properties.                                                             *)

(* One authorization starts at most one session, however often and however *)
(* concurrently its callback is replayed.                                  *)
OneSessionPerAuthorization ==
  \A t \in Transactions : \A b, c \in claims[t] : b = c

(* A session belongs to the Google subject that signed in, whatever emails *)
(* the accounts share or exchange meanwhile.                               *)
SessionIsTheSubjects ==
  \A b \in Callbacks : session[b] # "none" => user[b] = subject[b]

(* Every session leads to a workspace, also after a sign-in that died      *)
(* between the workspace and the membership.                               *)
SessionHasWorkspace ==
  \A b \in Callbacks : session[b] # "none" => ResolvedWorkspace(user[b]) # {}

(* A session comes from one authorization, belongs to the subject that     *)
(* gave it and leads to a workspace.                                       *)
SessionsAreSound == OneSessionPerAuthorization /\ SessionIsTheSubjects /\ SessionHasWorkspace

(* What the sessions of a user lead to never moves to another workspace,   *)
(* unless two first sign-ins overlapped and both inserted one.             *)
WorkspaceStays ==
  [][\A s \in Subjects : ResolvedWorkspace(s) # {} /\ s \notin raced =>
       ResolvedWorkspace(s)' = ResolvedWorkspace(s)]_signInVars
=============================================================================
