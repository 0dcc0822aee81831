-------------------------- MODULE Policies_proofs --------------------------
(***************************************************************************)
(* What a decision promises, whatever policies a customer writes, whatever *)
(* is proposed and on whichever surface: for any policies, requests and    *)
(* tool calls, any number of them and any order of the steps.  Then what   *)
(* the pages tell that list keys, policies and projects, for any number of *)
(* rows and of requests under way; that the scan for a pattern decides     *)
(* what the pattern means; and that no command of a command line escapes   *)
(* the splitter, however it is nested.                                     *)
(***************************************************************************)
EXTENDS Decisions, GlobMatch, CommandSegments, SequenceTheorems, FiniteSetTheorems,
        WellFoundedInduction, TLAPS

-----------------------------------------------------------------------------
(* A set of numbers has a least one, by the library's theorem that every   *)
(* non-empty set has a minimal element of a well-founded order.            *)
Below == {p \in Nat \X Nat : p[1] < p[2]}

LEMMA LeastNumber ==
  ASSUME NEW S \in SUBSET Nat, S # {}
  PROVE  \E x \in S : \A y \in S : x <= y
<1>1. IsWellFoundedOn(Below, Nat)
  <2>1. Below = OpToRel(<, Nat)
    BY Zenon DEF Below, OpToRel
  <2> QED BY Zenon, <2>1, NatLessThanWellFounded
<1>2. PICK x \in S : \A y \in S : ~ (<<y, x>> \in Below)
  BY <1>1, WFMin
<1>3. ASSUME NEW y \in S PROVE x <= y
  <2>1. x \in Nat /\ y \in Nat
    OBVIOUS
  <2>2. <<y, x>> \in Nat \X Nat /\ <<y, x>>[1] = y /\ <<y, x>>[2] = x
    BY <2>1
  <2>3. ~ (<<y, x>>[1] < <<y, x>>[2])
    BY <1>2, <2>2 DEF Below
  <2> QED BY <2>1, <2>2, <2>3
<1> QED BY <1>3

-----------------------------------------------------------------------------
(* The table: which rules speak of a type, and what they say of it.        *)
LEMMA TableLength == DOMAIN DefaultRules = 1 .. 26
BY DEF DefaultRules, BlockAndHoldRules, RemainingRules

(* The rule that decides comes before every other that applies.            *)
LEMMA FirstRule ==
  ASSUME NEW action, NEW k \in 1 .. 26, Applies(DefaultRules[k], action)
  PROVE  \E f \in 1 .. k :
           /\ EvaluateAgentAction(action) = DefaultRules[f] /\ Applies(DefaultRules[f], action)
           /\ \A j \in 1 .. 26 : Applies(DefaultRules[j], action) => f <= j
<1> DEFINE S == {i \in 1 .. 26 : Applies(DefaultRules[i], action)}
<1>1. PICK x \in S : \A y \in S : x <= y
  <2>1. S \in SUBSET Nat /\ S # {}
    OBVIOUS
  <2> HIDE DEF S
  <2> QED BY <2>1, LeastNumber
<1>2. \E i \in DOMAIN DefaultRules :
        /\ Applies(DefaultRules[i], action)
        /\ \A j \in DOMAIN DefaultRules : Applies(DefaultRules[j], action) => i <= j
  BY SMTT(60), <1>1, TableLength
<1> DEFINE f == CHOOSE i \in DOMAIN DefaultRules :
                  /\ Applies(DefaultRules[i], action)
                  /\ \A j \in DOMAIN DefaultRules : Applies(DefaultRules[j], action) => i <= j
<1>3. /\ f \in 1 .. 26 /\ Applies(DefaultRules[f], action)
      /\ \A j \in 1 .. 26 : Applies(DefaultRules[j], action) => f <= j
  BY <1>2, TableLength
<1>4. EvaluateAgentAction(action) = DefaultRules[f]
  BY DEF EvaluateAgentAction
<1> HIDE DEF f
<1> QED BY <1>3, <1>4

LEMMA RulesOfFiles ==
  /\ \A i \in 1 .. 26 : "file_access" \in DefaultRules[i].types <=> i \in {1, 10, 25, 26}
  /\ DefaultRules[1].tell = "secret" /\ DefaultRules[10].tell = "writes" /\ DefaultRules[25].tell = Always
BY DEF DefaultRules, BlockAndHoldRules, RemainingRules, Rule, ActionTypes, ApiCalls, Database

LEMMA RulesOfShells ==
  /\ \A i \in 1 .. 26 : "shell_command" \in DefaultRules[i].types <=> i \in {2, 3, 4, 11, 12, 13, 26}
  /\ DefaultRules[2].tell = "secret" /\ DefaultRules[3].tell = "destructive" /\ DefaultRules[4].tell = "forcePush"
  /\ DefaultRules[11].tell = "npm" /\ DefaultRules[12].tell = "readOnly" /\ DefaultRules[13].tell = Always
BY DEF DefaultRules, BlockAndHoldRules, RemainingRules, Rule, ActionTypes, ApiCalls, Database

LEMMA RulesOfDatabases ==
  /\ \A type \in Database : \A i \in 1 .. 26 : type \in DefaultRules[i].types <=> i \in {8, 9, 14, 15, 26}
  /\ DefaultRules[8].tell = "dropOrTruncate" /\ DefaultRules[9].tell = "mutates"
  /\ DefaultRules[14].tell = "select" /\ DefaultRules[15].tell = "dropOrTruncate"
BY DEF DefaultRules, BlockAndHoldRules, RemainingRules, Rule, ActionTypes, ApiCalls, Database

LEMMA RulesOfCalls ==
  /\ \A type \in ApiCalls : \A i \in 1 .. 26 : type \in DefaultRules[i].types <=> i \in {22, 23, 24, 26}
  /\ DefaultRules[22].tell = "safeMethod" /\ DefaultRules[23].tell = "otherMethod" /\ DefaultRules[24].tell = Always
BY DEF DefaultRules, BlockAndHoldRules, RemainingRules, Rule, ActionTypes, ApiCalls, Database

LEMMA RulesOfGit ==
  /\ \A i \in 1 .. 26 : "git_operation" \in DefaultRules[i].types <=> i \in {16, 17, 26}
  /\ DefaultRules[16].tell = "forcePush" /\ DefaultRules[17].tell = Always
BY DEF DefaultRules, BlockAndHoldRules, RemainingRules, Rule, ActionTypes, ApiCalls, Database

LEMMA RulesOfOthers ==
  /\ DefaultRules[18].tell = Always
  /\ \A i \in 1 .. 26 :
       /\ "message_send" \in DefaultRules[i].types <=> i \in {5, 26}
       /\ "payment_action" \in DefaultRules[i].types <=> i \in {6, 26}
       /\ "deploy_action" \in DefaultRules[i].types <=> i \in {7, 26}
       /\ "package_install" \in DefaultRules[i].types <=> i \in {18, 26}
       /\ "code_execution" \in DefaultRules[i].types <=> i \in {19, 26}
       /\ "config_change" \in DefaultRules[i].types <=> i \in {20, 26}
       /\ "agent_spawn" \in DefaultRules[i].types <=> i \in {21, 26}
       /\ "browser_action" \in DefaultRules[i].types <=> i = 26
       /\ "custom_action" \in DefaultRules[i].types <=> i = 26
BY SMTT(60) DEF DefaultRules, BlockAndHoldRules, RemainingRules, Rule, ActionTypes, ApiCalls, Database

LEMMA RuleDecisions ==
  /\ \A i \in {1, 2, 3, 4, 8, 15, 16} : DefaultRules[i].decision = "block" /\ IsMandatoryDefaultBlock(DefaultRules[i])
  /\ \A i \in {5, 6, 7, 9, 21, 23, 24, 26} : DefaultRules[i].decision = "approval_required"
  /\ \A i \in {10, 20} : DefaultRules[i].decision = "restore_point_required"
  /\ \A i \in {11, 13, 18, 19} : DefaultRules[i].decision = "sandbox_required"
  /\ \A i \in {12, 14, 17, 22, 25} : DefaultRules[i].decision = "allow"
  /\ \A type \in ActionTypes : type \in DefaultRules[26].types
  /\ DefaultRules[26].tell = Always
BY DEF DefaultRules, BlockAndHoldRules, RemainingRules, Rule, ActionTypes, ApiCalls, Database, IsMandatoryDefaultBlock

(* What must be blocked is blocked by a rule that no policy overrides.     *)
LEMMA MustBlockIsMandatory ==
  ASSUME NEW action, MustBlock(action)
  PROVE  /\ EvaluateAgentAction(action).decision = "block"
         /\ IsMandatoryDefaultBlock(EvaluateAgentAction(action))
<1>1. CASE action.actionType = "file_access" /\ "secret" \in action.tells
  <2>1. Applies(DefaultRules[1], action)
    BY <1>1, RulesOfFiles DEF Applies
  <2>2. PICK f \in 1 .. 1 : /\ EvaluateAgentAction(action) = DefaultRules[f]
                            /\ Applies(DefaultRules[f], action)
    BY SMTT(60), <2>1, FirstRule
  <2> QED BY <2>2, RuleDecisions
<1>2. CASE action.actionType = "shell_command" /\ action.tells \cap {"secret", "destructive", "forcePush"} # {}
  <2>1. PICK k \in {2, 3, 4} : Applies(DefaultRules[k], action)
    BY <1>2, RulesOfShells DEF Applies
  <2>2. PICK f \in 1 .. k : /\ EvaluateAgentAction(action) = DefaultRules[f]
                            /\ Applies(DefaultRules[f], action)
    BY SMTT(60), <2>1, FirstRule
  <2>3. f \in {2, 3, 4}
    BY <1>2, <2>2, RulesOfShells DEF Applies
  <2> QED BY <2>2, <2>3, RuleDecisions
<1>3. CASE action.actionType = "git_operation" /\ "forcePush" \in action.tells
  <2>1. Applies(DefaultRules[16], action)
    BY <1>3, RulesOfGit DEF Applies
  <2>2. PICK f \in 1 .. 16 : /\ EvaluateAgentAction(action) = DefaultRules[f]
                             /\ Applies(DefaultRules[f], action)
    BY SMTT(60), <2>1, FirstRule
  <2>3. f = 16
    BY <1>3, <2>2, RulesOfGit DEF Applies
  <2> QED BY <2>2, <2>3, RuleDecisions
<1>4. CASE action.actionType \in Database /\ "dropOrTruncate" \in action.tells
  <2>1. Applies(DefaultRules[8], action)
    BY <1>4, RulesOfDatabases DEF Applies
  <2>2. PICK f \in 1 .. 8 : /\ EvaluateAgentAction(action) = DefaultRules[f]
                            /\ Applies(DefaultRules[f], action)
    BY SMTT(60), <2>1, FirstRule
  <2>3. f = 8
    BY <1>4, <2>2, RulesOfDatabases DEF Applies
  <2> QED BY <2>2, <2>3, RuleDecisions
<1> QED BY <1>1, <1>2, <1>3, <1>4 DEF MustBlock

(* What needs a human is not decided without one.                          *)
LEMMA NeedsHumanIsHeld ==
  ASSUME NEW action, NeedsHuman(action), action.actionType \in ActionTypes
  PROVE  EvaluateAgentAction(action).decision \in {"block", "approval_required"}
<1>1. Applies(DefaultRules[26], action)
  BY RuleDecisions DEF Applies
<1>2. PICK f \in 1 .. 26 : /\ EvaluateAgentAction(action) = DefaultRules[f]
                           /\ Applies(DefaultRules[f], action)
                           /\ \A j \in 1 .. 26 : Applies(DefaultRules[j], action) => f <= j
  BY SMTT(60), <1>1, FirstRule
<1>3. CASE action.actionType \in {"payment_action", "deploy_action", "agent_spawn", "message_send",
                                  "browser_action", "custom_action"}
  <2>1. f \in {5, 6, 7, 21, 26}
    BY <1>2, <1>3, RulesOfOthers DEF Applies
  <2> QED BY <1>2, <2>1, RuleDecisions
<1>4. CASE action.actionType \in Database /\ ("mutates" \in action.tells \/ "select" \notin action.tells)
  <2>1. f \in {8, 9, 14, 15, 26}
    BY <1>2, <1>4, RulesOfDatabases DEF Applies
  <2>2. f # 14
    BY <1>2, <1>4, RulesOfDatabases DEF Always, Applies
  <2> QED BY <1>2, <2>1, <2>2, RuleDecisions
<1>5. CASE action.actionType \in ApiCalls /\ "safeMethod" \notin action.tells
  <2>1. f \in {23, 24, 26}
    BY <1>2, <1>5, RulesOfCalls DEF Always, Applies
  <2> QED BY <1>2, <2>1, RuleDecisions
<1> QED BY <1>3, <1>4, <1>5 DEF NeedsHuman

(* What needs care is not simply allowed.                                  *)
LEMMA NeedsCareIsTaken ==
  ASSUME NEW action, NeedsCare(action), action.actionType \in ActionTypes
  PROVE  EvaluateAgentAction(action).decision # "allow"
<1>1. Applies(DefaultRules[26], action)
  BY RuleDecisions DEF Applies
<1>2. PICK f \in 1 .. 26 : /\ EvaluateAgentAction(action) = DefaultRules[f]
                           /\ Applies(DefaultRules[f], action)
                           /\ \A j \in 1 .. 26 : Applies(DefaultRules[j], action) => f <= j
  BY SMTT(60), <1>1, FirstRule
<1>3. CASE action.actionType \in {"package_install", "code_execution", "config_change"}
  <2>1. f \in {18, 19, 20, 26}
    BY <1>2, <1>3, RulesOfOthers DEF Applies
  <2> QED BY <1>2, <2>1, RuleDecisions
<1>4. CASE action.actionType = "file_access" /\ "writes" \in action.tells
  <2>1. f \in {1, 10}
    BY <1>2, <1>4, RulesOfFiles DEF Applies
  <2> QED BY <1>2, <2>1, RuleDecisions
<1>5. CASE action.actionType = "shell_command" /\ ("npm" \in action.tells \/ "readOnly" \notin action.tells)
  <2>1. f \in {2, 3, 4, 11, 13}
    BY <1>2, <1>5, RulesOfShells DEF Always, Applies
  <2> QED BY <1>2, <2>1, RuleDecisions
<1> QED BY <1>3, <1>4, <1>5 DEF NeedsCare

-----------------------------------------------------------------------------
(* The customer's policies.                                                *)
Stored == {i \in PolicyIds : policies[i] # NoPolicy}

PatternFields == {"tool", "targetPattern", "commandPattern"}

(* What is stored is what the routes let through, one policy at a time.    *)
PoliciesAreValid ==
  \A i \in Stored :
    /\ DOMAIN policies[i] = Criteria \cup {"project", "decision", "priority", "enabled", "workspace", "createdAt"}
    /\ policies[i].priority \in Nat
    /\ \A c \in PatternFields : policies[i][c] \in {Absent, Empty} \/ {Absent, Empty} \cap policies[i][c] = {}
    /\ policies[i].createdAt \in 1 .. created
    /\ \A j \in Stored : policies[j].createdAt = policies[i].createdAt => j = i

(* Where no policy decided, the table did.                                 *)
TableDecides ==
  \A q \in Requests :
    decided[q] # Absent /\ decided[q].by = "default" =>
      /\ decided[q].decision = EvaluateAgentAction(decided[q].action).decision
      /\ decided[q].action.actionType \in ActionTypes

PolicyInv ==
  /\ policies = [i \in PolicyIds |-> policies[i]] /\ decided = [q \in Requests |-> decided[q]]
  /\ created \in Nat
  /\ PoliciesAreValid /\ EveryPolicyConstrains /\ BlocksSurvivePolicies /\ TableDecides

LEMMA PolicyInit == PoliciesInit => PolicyInv
BY DEF PoliciesInit, PolicyInv, PoliciesAreValid, Stored, EveryPolicyConstrains, BlocksSurvivePolicies,
   Decided, TableDecides

(* Priorities and dates of creation put any policies in order.             *)
LEMMA FirstIsFirst ==
  ASSUME PolicyInv, NEW M \in SUBSET Stored, M # {}
  PROVE  First(M) \in M /\ \A j \in M \ {First(M)} : Before(First(M), j)
<1>1. \A i \in M : /\ policies[i].priority \in Nat /\ policies[i].createdAt \in Nat
                   /\ policies[i].createdAt <= created
                   /\ \A j \in M : policies[j].createdAt = policies[i].createdAt => j = i
  BY SMTT(60) DEF PolicyInv, PoliciesAreValid
<1> DEFINE P == {policies[i].priority : i \in M}
<1>2. PICK p \in P : \A r \in P : p <= r
  <2>1. P \in SUBSET Nat /\ P # {}
    BY <1>1
  <2> HIDE DEF P
  <2> QED BY <2>1, LeastNumber
<1> DEFINE L == {i \in M : policies[i].priority = p}
           A == {created - policies[i].createdAt : i \in L}
<1>3. PICK a \in A : \A b \in A : a <= b
  <2>1. A \in SUBSET Nat
    BY <1>1 DEF PolicyInv
  <2>2. A # {}
    BY <1>2
  <2> HIDE DEF A
  <2> QED BY <2>1, <2>2, LeastNumber
<1>4. PICK f \in L : a = created - policies[f].createdAt
  BY <1>3
<1>5. ASSUME NEW j \in M \ {f} PROVE Before(f, j)
  <2>1. policies[f].priority <= policies[j].priority
    BY <1>2, <1>4
  <2>2. ASSUME policies[j].priority = policies[f].priority
        PROVE  policies[f].createdAt > policies[j].createdAt
    <3>1. created - policies[j].createdAt \in A
      BY <1>4, <2>2
    <3>2. created - policies[f].createdAt <= created - policies[j].createdAt
      BY <1>3, <1>4, <3>1
    <3>3. policies[f].createdAt # policies[j].createdAt
      BY <1>1, <1>4, <1>5
    <3> QED BY SMTT(60), <1>1, <1>4, <3>2, <3>3 DEF PolicyInv
  <2> QED BY <1>1, <1>4, <2>1, <2>2 DEF Before
<1>6. \E i \in M : \A j \in M \ {i} : Before(i, j)
  BY <1>4, <1>5
<1> QED BY <1>6 DEF First

LEMMA MatchingAreStored == \A action, w, project : Matching(action, w, project) \in SUBSET Stored
BY DEF Matching, ListedPolicies, Stored

(* Administration: each route keeps the stored policies valid.             *)
LEMMA CreateStep ==
  ASSUME PolicyInv, NEW i \in PolicyIds, NEW w \in PolicyWorkspaces, NEW body \in PolicyBodies,
         CreateCustomPolicy(i, w, body)
  PROVE  PolicyInv'
<1> DEFINE input == ParsePolicyInput(body)
           new == [actionType |-> input.actionType, tool |-> input.tool,
                   targetPattern |-> input.targetPattern, commandPattern |-> input.commandPattern,
                   project |-> input.project, decision |-> Or(input.decision, "allow"),
                   priority |-> Or(input.priority, 100), enabled |-> TRUE,
                   workspace |-> w, createdAt |-> created + 1]
<1>1. /\ policies[i] = NoPolicy /\ ~Refused(body) /\ Declared(input) # {} /\ created' = created + 1
      /\ policies' = [policies EXCEPT ![i] = new] /\ decided' = decided
  BY DEF CreateCustomPolicy
<1>2. \A f \in Fields : input[f] = (IF body[f] = Empty THEN Absent ELSE body[f]) /\ body[f] # Invalid
  BY <1>1 DEF ParsePolicyInput, Refused
<1>3. /\ DOMAIN new = Criteria \cup {"project", "decision", "priority", "enabled", "workspace", "createdAt"}
      /\ \A c \in Criteria : new[c] = input[c]
      /\ new.createdAt = created + 1 /\ new.priority = Or(input.priority, 100)
  BY DEF Criteria
<1>4. new.priority \in Nat
  BY <1>2, <1>3, InputsAreValid DEF Or, Fields
<1>5. \A c \in PatternFields : new[c] \in {Absent, Empty} \/ {Absent, Empty} \cap new[c] = {}
  BY <1>2, <1>3, InputsAreValid DEF PatternFields, Fields, Criteria
<1>6. Declared(new) # {}
  BY <1>1, <1>3 DEF Declared
<1> HIDE DEF new, input
<1>7. PoliciesAreValid'
  <2>1. /\ Stored' \subseteq Stored \cup {i} /\ i \notin Stored
        /\ \A j \in PolicyIds \ {i} : policies'[j] = policies[j]
        /\ policies'[i] = new
    BY <1>1 DEF Stored, PolicyInv
  <2>2. \A j \in Stored : policies[j].createdAt \in 1 .. created
    BY DEF PolicyInv, PoliciesAreValid
  <2>3. created + 1 \in 1 .. created' /\ \A d \in 1 .. created : d \in 1 .. created' /\ d # created + 1
    BY <1>1 DEF PolicyInv
  <2>4. \A j \in Stored' : j # i => j \in Stored
    BY <2>1
  <2>5. ASSUME NEW j \in Stored'
        PROVE /\ DOMAIN policies'[j] = Criteria \cup {"project", "decision", "priority", "enabled", "workspace", "createdAt"}
              /\ policies'[j].priority \in Nat
              /\ \A c \in PatternFields : policies'[j][c] \in {Absent, Empty} \/ {Absent, Empty} \cap policies'[j][c] = {}
    <3>1. CASE j = i
      BY <1>3, <1>4, <1>5, <2>1, <3>1
    <3>2. CASE j # i
      <4>1. j \in Stored /\ policies'[j] = policies[j]
        BY <2>1, <2>4, <3>2 DEF Stored
      <4> QED BY <4>1 DEF PolicyInv, PoliciesAreValid
    <3> QED BY <3>1, <3>2
  <2>6. policies'[i].createdAt = created + 1
    BY <1>3, <2>1
  <2>7. \A j \in Stored' : j # i => policies'[j].createdAt = policies[j].createdAt
    BY <2>1, <2>4 DEF Stored
  <2>8. ASSUME NEW j \in Stored'
        PROVE /\ policies'[j].createdAt \in 1 .. created'
              /\ \A k \in Stored' : policies'[k].createdAt = policies'[j].createdAt => k = j
    <3>1. policies'[j].createdAt \in 1 .. created'
      BY <2>2, <2>3, <2>4, <2>6, <2>7
    <3>2. ASSUME NEW k \in Stored', policies'[k].createdAt = policies'[j].createdAt PROVE k = j
      <4>1. CASE j = i
        BY <2>2, <2>3, <2>4, <2>6, <2>7, <3>2, <4>1
      <4>2. CASE k = i
        BY <2>2, <2>3, <2>4, <2>6, <2>7, <3>2, <4>2
      <4>3. CASE j # i /\ k # i
        <5>1. j \in Stored /\ k \in Stored /\ policies[k].createdAt = policies[j].createdAt
          BY <2>4, <2>7, <3>2, <4>3
        <5> QED BY <5>1 DEF PolicyInv, PoliciesAreValid
      <4> QED BY <4>1, <4>2, <4>3
    <3> QED BY <3>1, <3>2
  <2> QED BY <2>5, <2>8 DEF PoliciesAreValid
<1>8. EveryPolicyConstrains'
  BY <1>1, <1>6 DEF PolicyInv, EveryPolicyConstrains, Declared
<1>9. BlocksSurvivePolicies' /\ TableDecides'
  BY <1>1 DEF PolicyInv, BlocksSurvivePolicies, Decided, TableDecides
<1> QED BY <1>1, <1>7, <1>8, <1>9 DEF PolicyInv

LEMMA UpdateStep ==
  ASSUME PolicyInv, NEW i \in PolicyIds, NEW w \in PolicyWorkspaces, NEW body \in PolicyBodies,
         UpdateCustomPolicy(i, w, body)
  PROVE  PolicyInv'
<1> DEFINE input == ParsePolicyInput(body)
           new == [f \in DOMAIN policies[i] |->
                     IF f \in Fields \ {"project"} /\ input[f] # Absent
                     THEN IF input[f] = Empty THEN Absent ELSE input[f]
                     ELSE policies[i][f]]
<1>1. /\ i \in Stored /\ ~Refused(body)
      /\ policies' = [policies EXCEPT ![i] = new] /\ decided' = decided /\ created' = created
  BY DEF UpdateCustomPolicy, InWorkspace, Stored
<1>2. \A f \in Fields : input[f] = (IF body[f] = Empty THEN Absent ELSE body[f]) /\ body[f] # Invalid
  BY <1>1 DEF ParsePolicyInput, Refused
<1>3. DOMAIN policies[i] = Criteria \cup {"project", "decision", "priority", "enabled", "workspace", "createdAt"}
  BY <1>1 DEF PolicyInv, PoliciesAreValid
<1>4. \A f \in DOMAIN new :
        \/ new[f] = policies[i][f]
        \/ f \in Fields /\ new[f] = body[f] /\ body[f] \notin {Absent, Empty, Invalid}
  BY <1>2 DEF Fields
<1>5. /\ DOMAIN new = DOMAIN policies[i] /\ new.createdAt = policies[i].createdAt
      /\ "priority" \in DOMAIN new /\ Criteria \subseteq DOMAIN new
  BY <1>3 DEF Fields, Criteria
<1> HIDE DEF new, input
<1>6. new.priority \in Nat
  BY <1>1, <1>4, <1>5, InputsAreValid DEF PolicyInv, PoliciesAreValid
<1>7. \A c \in PatternFields : new[c] \in {Absent, Empty} \/ {Absent, Empty} \cap new[c] = {}
  <2> SUFFICES ASSUME NEW c \in PatternFields PROVE new[c] \in {Absent, Empty} \/ {Absent, Empty} \cap new[c] = {}
    OBVIOUS
  <2>1. c \in DOMAIN new
    BY <1>5 DEF PatternFields, Criteria
  <2>2. policies[i][c] \in {Absent, Empty} \/ {Absent, Empty} \cap policies[i][c] = {}
    BY <1>1 DEF PolicyInv, PoliciesAreValid
  <2>3. body[c] \in {Absent, Empty, Invalid} \/ {Absent, Empty} \cap body[c] = {}
    BY InputsAreValid DEF PatternFields
  <2> QED BY <1>4, <2>1, <2>2, <2>3
<1>8. Declared(new) # {}
  <2>1. Declared(policies[i]) \subseteq Declared(new)
    BY <1>4, <1>5 DEF Declared
  <2>2. Declared(policies[i]) # {}
    BY <1>1 DEF PolicyInv, EveryPolicyConstrains, Stored
  <2> QED BY <2>1, <2>2
<1>9. PoliciesAreValid'
  <2>1. Stored' \subseteq Stored /\ policies'[i] = new /\ \A j \in PolicyIds \ {i} : policies'[j] = policies[j]
    BY <1>1 DEF Stored, PolicyInv
  <2>2. \A j \in Stored' : policies'[j].createdAt = policies[j].createdAt
    BY <1>5, <2>1 DEF Stored
  <2> QED BY <1>1, <1>3, <1>5, <1>6, <1>7, <2>1, <2>2 DEF PolicyInv, PoliciesAreValid, Stored
<1>10. EveryPolicyConstrains'
  BY <1>1, <1>8 DEF PolicyInv, EveryPolicyConstrains, Declared
<1>11. BlocksSurvivePolicies' /\ TableDecides'
  BY <1>1 DEF PolicyInv, BlocksSurvivePolicies, Decided, TableDecides
<1> QED BY <1>1, <1>9, <1>10, <1>11 DEF PolicyInv

LEMMA DeleteStep ==
  ASSUME PolicyInv, NEW i \in PolicyIds, NEW w \in PolicyWorkspaces, DeleteCustomPolicy(i, w) PROVE PolicyInv'
<1>1. policies' = [policies EXCEPT ![i] = NoPolicy] /\ decided' = decided /\ created' = created
  BY DEF DeleteCustomPolicy
<1>2. Stored' \subseteq Stored /\ \A j \in Stored' : policies'[j] = policies[j]
  BY <1>1 DEF Stored, PolicyInv
<1>3. PoliciesAreValid'
  BY <1>1, <1>2 DEF PolicyInv, PoliciesAreValid
<1>4. EveryPolicyConstrains'
  BY <1>1 DEF PolicyInv, EveryPolicyConstrains, Declared
<1>5. BlocksSurvivePolicies' /\ TableDecides'
  BY <1>1 DEF PolicyInv, BlocksSurvivePolicies, Decided, TableDecides
<1> QED BY <1>1, <1>3, <1>4, <1>5 DEF PolicyInv

(* What becomes of a request when it is decided.                           *)
LEMMA Decision ==
  ASSUME PolicyInv, NEW q \in Requests, NEW action, NEW w, NEW project,
         EvaluateActionPolicy(q, action, w, project)
  PROVE  /\ decided[q] = Absent /\ UNCHANGED <<policies, created>>
         /\ \A r \in Requests \ {q} : decided'[r] = decided[r]
         /\ decided' = [r \in Requests |-> decided'[r]]
         /\ decided'[q].action = action /\ decided'[q].workspace = w /\ decided'[q].project = project
         /\ \/ /\ ~MustBlock(action) /\ Matching(action, w, project) # {}
               /\ decided'[q].by = First(Matching(action, w, project))
               /\ decided'[q].decision = policies[decided'[q].by].decision
            \/ /\ decided'[q].by = "default" /\ decided'[q].decision = EvaluateAgentAction(action).decision
               /\ \/ Matching(action, w, project) = {}
                  \/ IsMandatoryDefaultBlock(EvaluateAgentAction(action))
            \/ ~MustBlock(action) /\ decided'[q].by = "none" /\ decided'[q].decision = "unavailable"
<1>1. MustBlock(action) => IsMandatoryDefaultBlock(EvaluateAgentAction(action))
  BY MustBlockIsMandatory
<1>2. /\ decided[q] = Absent /\ UNCHANGED <<policies, created>>
      /\ \E decision, by :
           /\ decided' = [decided EXCEPT ![q] = Answer(decision, by, action, w, project)]
           /\ \/ /\ ~MustBlock(action) /\ Matching(action, w, project) # {}
                 /\ by = First(Matching(action, w, project)) /\ decision = policies[by].decision
              \/ /\ by = "default" /\ decision = EvaluateAgentAction(action).decision
                 /\ \/ Matching(action, w, project) = {}
                    \/ IsMandatoryDefaultBlock(EvaluateAgentAction(action))
              \/ ~MustBlock(action) /\ by = "none" /\ decision = "unavailable"
  BY <1>1 DEF EvaluateActionPolicy
<1>3. PICK decision, by :
        /\ decided' = [decided EXCEPT ![q] = Answer(decision, by, action, w, project)]
        /\ \/ /\ ~MustBlock(action) /\ Matching(action, w, project) # {}
              /\ by = First(Matching(action, w, project)) /\ decision = policies[by].decision
           \/ /\ by = "default" /\ decision = EvaluateAgentAction(action).decision
              /\ \/ Matching(action, w, project) = {}
                 \/ IsMandatoryDefaultBlock(EvaluateAgentAction(action))
           \/ ~MustBlock(action) /\ by = "none" /\ decision = "unavailable"
  BY <1>2
<1>4. /\ decided'[q] = Answer(decision, by, action, w, project)
      /\ \A r \in Requests \ {q} : decided'[r] = decided[r]
      /\ decided' = [r \in Requests |-> decided'[r]]
  BY <1>3 DEF PolicyInv
<1>5. /\ decided'[q].decision = decision /\ decided'[q].by = by /\ decided'[q].action = action
      /\ decided'[q].workspace = w /\ decided'[q].project = project
  BY <1>4 DEF Answer
<1> QED BY <1>2, <1>3, <1>4, <1>5

LEMMA DecisionStep ==
  ASSUME PolicyInv, NEW q \in Requests, NEW action, NEW w, NEW project,
         action.actionType \in ActionTypes, EvaluateActionPolicy(q, action, w, project)
  PROVE  PolicyInv'
<1>0. Matching(action, w, project) # {} => First(Matching(action, w, project)) \in PolicyIds
  <2> DEFINE M == Matching(action, w, project)
  <2>1. M \in SUBSET Stored /\ Stored \subseteq PolicyIds
    BY MatchingAreStored DEF Stored
  <2> HIDE DEF M
  <2>2. M # {} => First(M) \in PolicyIds
    BY <2>1, FirstIsFirst
  <2> QED BY <2>2 DEF M
<1>1. /\ UNCHANGED <<policies, created>>
      /\ \A r \in Requests \ {q} : decided'[r] = decided[r]
      /\ decided' = [r \in Requests |-> decided'[r]]
      /\ decided'[q].action = action
  BY Decision
<1>2. /\ MustBlock(action) => decided'[q].by = "default"
      /\ decided'[q].by = "default" =>
           decided'[q].decision = EvaluateAgentAction(action).decision
  <2>1. \/ /\ ~MustBlock(action) /\ Matching(action, w, project) # {}
            /\ decided'[q].by = First(Matching(action, w, project))
        \/ decided'[q].by = "default" /\ decided'[q].decision = EvaluateAgentAction(action).decision
        \/ ~MustBlock(action) /\ decided'[q].by = "none"
    BY Decision
  <2> QED BY <1>0, <2>1, PolicyBounds
<1>3. PoliciesAreValid' /\ EveryPolicyConstrains' /\ created' \in Nat /\ policies' = [i \in PolicyIds |-> policies'[i]]
  <2>1. policies' = policies /\ created' = created
    BY <1>1
  <2> QED BY <2>1 DEF PolicyInv, PoliciesAreValid, Stored, EveryPolicyConstrains, Declared
<1>4. BlocksSurvivePolicies'
  <2>1. MustBlock(action) => EvaluateAgentAction(action).decision = "block"
    BY MustBlockIsMandatory
  <2>2. ASSUME NEW r \in Requests, Decided(r)', MustBlock(decided'[r].action) PROVE decided'[r].decision = "block"
    <3>1. CASE r = q
      BY <1>1, <1>2, <2>1, <2>2, <3>1
    <3>2. CASE r # q
      BY <1>1, <2>2, <3>2 DEF PolicyInv, BlocksSurvivePolicies, Decided
    <3> QED BY <3>1, <3>2
  <2> QED BY <2>2 DEF BlocksSurvivePolicies, MustBlock
<1>5. TableDecides'
  <2>1. ASSUME NEW r \in Requests, decided'[r] # Absent, decided'[r].by = "default"
        PROVE  /\ decided'[r].decision = EvaluateAgentAction(decided'[r].action).decision
               /\ decided'[r].action.actionType \in ActionTypes
    <3>1. CASE r = q
      BY <1>1, <1>2, <2>1, <3>1
    <3>2. CASE r # q
      <4>1. decided'[r] = decided[r]
        BY <1>1, <3>2
      <4> QED BY <2>1, <4>1 DEF PolicyInv, TableDecides
    <3> QED BY <3>1, <3>2
  <2> QED BY <2>1 DEF TableDecides
<1> QED BY <1>1, <1>3, <1>4, <1>5 DEF PolicyInv

-----------------------------------------------------------------------------
(* Which policy decides.                                                   *)

LEMMA BlockRules ==
  /\ DefaultRules[1].types = {"file_access"} /\ DefaultRules[2].types = {"shell_command"}
  /\ DefaultRules[3].types = {"shell_command"} /\ DefaultRules[4].types = {"shell_command"}
  /\ DefaultRules[8].types = Database /\ DefaultRules[15].types = Database
  /\ DefaultRules[16].types = {"git_operation"}
BY DEF DefaultRules, BlockAndHoldRules, RemainingRules, Rule

(* The table blocks nothing but what must be blocked.                      *)
LEMMA BlockedMustBe ==
  ASSUME NEW action, action.actionType \in ActionTypes, EvaluateAgentAction(action).decision = "block"
  PROVE  MustBlock(action)
<1>1. Applies(DefaultRules[26], action)
  BY RuleDecisions DEF Applies
<1>2. PICK f \in 1 .. 26 : EvaluateAgentAction(action) = DefaultRules[f] /\ Applies(DefaultRules[f], action)
  BY SMTT(60), <1>1, FirstRule
<1>3. f \in {1, 2, 3, 4, 8, 15, 16}
  <2>1. f \notin {5, 6, 7, 9, 21, 23, 24, 26} \cup {10, 20} \cup {11, 13, 18, 19} \cup {12, 14, 17, 22, 25}
    BY <1>2, RuleDecisions
  <2> QED BY <2>1
<1>4. CASE f \in {1, 2, 3, 4}
  BY <1>2, <1>4, BlockRules, RulesOfFiles, RulesOfShells DEF Applies, Always, MustBlock
<1>5. CASE f \in {8, 15, 16}
  BY <1>2, <1>5, BlockRules, RulesOfDatabases, RulesOfGit DEF Applies, Always, MustBlock
<1> QED BY <1>3, <1>4, <1>5

(* The policies that match a request are the candidates for it.            *)
LEMMA MatchingAreCandidates ==
  ASSUME PolicyInv, NEW a
  PROVE  Matching(a.action, a.workspace, a.project) = {i \in PolicyIds : Candidate(i, a)}
<1> SUFFICES ASSUME NEW i \in Stored
             PROVE  i \in Matching(a.action, a.workspace, a.project) <=> Candidate(i, a)
  BY DEF Matching, ListedPolicies, Candidate, Stored
<1> DEFINE p == policies[i]
<1>1. Declared(p) # {}
  BY DEF PolicyInv, EveryPolicyConstrains, Stored
<1>2. \A c \in PatternFields : p[c] \in {Absent, Empty} \/ {Absent, Empty} \cap p[c] = {}
  BY DEF PolicyInv, PoliciesAreValid
<1>3. p.actionType \in {Absent, Empty, a.action.actionType}
        <=> ("actionType" \in Declared(p) => p.actionType = a.action.actionType)
  BY DEF Declared, Criteria
<1>4. CriterionMatches(p.tool, a.action.tool) <=> ("tool" \in Declared(p) => a.action.tool \in p.tool)
  <2>1. p.tool \in {Absent, Empty} \/ {Absent, Empty} \cap p.tool = {}
    BY <1>2 DEF PatternFields
  <2>2. "tool" \in Declared(p) <=> p.tool \notin {Absent, Empty}
    BY DEF Declared, Criteria
  <2> QED BY <2>1, <2>2 DEF CriterionMatches
<1>5. CriterionMatches(p.targetPattern, a.action.target)
        <=> ("targetPattern" \in Declared(p) => a.action.target \in p.targetPattern)
  <2>1. p.targetPattern \in {Absent, Empty} \/ {Absent, Empty} \cap p.targetPattern = {}
    BY <1>2 DEF PatternFields
  <2>2. "targetPattern" \in Declared(p) <=> p.targetPattern \notin {Absent, Empty}
    BY DEF Declared, Criteria
  <2> QED BY <2>1, <2>2 DEF CriterionMatches
<1>6. CriterionMatches(p.commandPattern, Or(a.action.command, a.action.target))
        <=> ("commandPattern" \in Declared(p) =>
               \/ a.action.command \in p.commandPattern
               \/ a.action.command = Absent /\ a.action.target \in p.commandPattern)
  <2>1. p.commandPattern \in {Absent, Empty} \/ {Absent, Empty} \cap p.commandPattern = {}
    BY <1>2 DEF PatternFields
  <2>2. "commandPattern" \in Declared(p) <=> p.commandPattern \notin {Absent, Empty}
    BY DEF Declared, Criteria
  <2> QED BY <2>1, <2>2 DEF CriterionMatches, Or
<1>7. PolicyMatches(p, a.action) <=>
        /\ "actionType" \in Declared(p) => p.actionType = a.action.actionType
        /\ "tool" \in Declared(p) => a.action.tool \in p.tool
        /\ "targetPattern" \in Declared(p) => a.action.target \in p.targetPattern
        /\ "commandPattern" \in Declared(p) =>
             \/ a.action.command \in p.commandPattern
             \/ a.action.command = Absent /\ a.action.target \in p.commandPattern
  BY <1>1, <1>3, <1>4, <1>5, <1>6 DEF PolicyMatches
<1>8. i \in Matching(a.action, a.workspace, a.project) <=>
        /\ p.enabled /\ p.workspace = a.workspace
        /\ a.project = Absent \/ p.project \in {Absent, a.project}
        /\ PolicyMatches(p, a.action)
  BY DEF Matching, ListedPolicies, Stored
<1>9. Candidate(i, a) <=>
        /\ p.enabled /\ p.workspace = a.workspace
        /\ a.project = Absent \/ p.project \in {Absent, a.project}
        /\ "actionType" \in Declared(p) => p.actionType = a.action.actionType
        /\ "tool" \in Declared(p) => a.action.tool \in p.tool
        /\ "targetPattern" \in Declared(p) => a.action.target \in p.targetPattern
        /\ "commandPattern" \in Declared(p) =>
             \/ a.action.command \in p.commandPattern
             \/ a.action.command = Absent /\ a.action.target \in p.commandPattern
  BY DEF Candidate, Stored
<1> QED BY <1>7, <1>8, <1>9

(* A decision is made by precedence, and no other request is touched.      *)
LEMMA PrecedenceStep ==
  ASSUME PolicyInv, NEW q \in Requests, NEW action, NEW w, NEW project,
         action.actionType \in ActionTypes, EvaluateActionPolicy(q, action, w, project)
  PROVE  \A r \in Requests : DecidedByPrecedence(r)
<1> DEFINE a == decided'[q]
           M == {i \in PolicyIds : Candidate(i, a)}
<1>1. /\ \A r \in Requests \ {q} : decided'[r] = decided[r]
      /\ a.action = action /\ a.workspace = w /\ a.project = project
  BY Decision
<1>2. Matching(action, w, project) = M
  <2>1. Matching(a.action, a.workspace, a.project) = M
    BY MatchingAreCandidates
  <2> QED BY <1>1, <2>1
<1>3. \/ /\ Matching(action, w, project) # {} /\ a.by = First(Matching(action, w, project))
         /\ a.decision = policies[a.by].decision
      \/ /\ a.by = "default"
         /\ Matching(action, w, project) = {} \/ IsMandatoryDefaultBlock(EvaluateAgentAction(action))
      \/ a.decision = "unavailable"
  <2>1. \/ /\ ~MustBlock(action) /\ Matching(action, w, project) # {}
           /\ decided'[q].by = First(Matching(action, w, project))
           /\ decided'[q].decision = policies[decided'[q].by].decision
        \/ /\ decided'[q].by = "default" /\ decided'[q].decision = EvaluateAgentAction(action).decision
           /\ \/ Matching(action, w, project) = {}
              \/ IsMandatoryDefaultBlock(EvaluateAgentAction(action))
        \/ ~MustBlock(action) /\ decided'[q].by = "none" /\ decided'[q].decision = "unavailable"
    BY Decision
  <2> QED BY <2>1
<1>4. M \in SUBSET Stored
  BY <1>2, MatchingAreStored
<1>5. IsMandatoryDefaultBlock(EvaluateAgentAction(action)) => MustBlock(a.action)
  BY <1>1, BlockedMustBe DEF IsMandatoryDefaultBlock
<1>6. DecidedByPrecedence(q)
  <2>1. CASE M # {} /\ a.by = First(M) /\ a.decision = policies[a.by].decision
    <3>1. First(M) \in M /\ \A j \in M \ {First(M)} : Before(First(M), j)
      <4> HIDE DEF M
      <4> QED BY <1>4, <2>1, FirstIsFirst
    <3>2. First(M) \in PolicyIds /\ First(M) # "default"
      BY <3>1, PolicyBounds
    <3>3. a.by \in M /\ a.by # "default" /\ \A j \in M \ {a.by} : Before(a.by, j)
      BY <2>1, <3>1, <3>2
    <3> QED BY <2>1, <3>3 DEF DecidedByPrecedence, Before
  <2>2. CASE a.by = "default" /\ (M = {} \/ IsMandatoryDefaultBlock(EvaluateAgentAction(action)))
    BY <1>5, <2>2 DEF DecidedByPrecedence
  <2>3. CASE a.decision = "unavailable"
    BY <2>3 DEF DecidedByPrecedence, Decided
  <2> QED BY <1>2, <1>3, <2>1, <2>2, <2>3
<1>7. ASSUME NEW r \in Requests \ {q} PROVE DecidedByPrecedence(r)
  BY <1>1 DEF DecidedByPrecedence
<1> QED BY <1>6, <1>7

-----------------------------------------------------------------------------
(* Tool calls.                                                             *)

LEMMA ActionParts ==
  \A type, tells, given : /\ ActionOf(type, tells, given).actionType = type
                          /\ ActionOf(type, tells, given).tells = tells \cap PossibleTellsOf(type)
BY DEF ActionOf

LEMMA SecretTells ==
  /\ {"secret", "destructive", "forcePush"} \subseteq PossibleTellsOf("shell_command")
  /\ "secret" \in PossibleTellsOf("file_access")
BY DEF PossibleTellsOf, ShellTells, TextTells, ApiCalls, Database

(* Both classifications give a call a type of the table, and what they are *)
(* given to stop is what the table must block.                             *)
LEMMA HookClassifies ==
  ASSUME NEW given
  PROVE  /\ ToAgentAction(given).actionType \in ActionTypes
         /\ DestructiveCall(given) => MustBlock(ToAgentAction(given))
         /\ given.name = "other" => NeedsHuman(ToAgentAction(given))
<1>1. CASE given.name = "shell"
  <2>1. ToAgentAction(given) = ActionOf("shell_command", given.tells, given)
    BY <1>1 DEF ToAgentAction
  <2> QED BY <1>1, <2>1, ActionParts, SecretTells DEF ActionTypes, DestructiveCall, MustBlock
<1>2. CASE given.name = "write"
  <2>1. ToAgentAction(given) = ActionOf("file_access", given.tells \cup {"writes"}, given)
    BY <1>2 DEF ToAgentAction
  <2> QED BY <1>2, <2>1, ActionParts, SecretTells DEF ActionTypes, DestructiveCall, MustBlock
<1>3. CASE given.name = "read"
  <2>1. ToAgentAction(given) = ActionOf("file_access", given.tells, given)
    BY <1>3 DEF ToAgentAction
  <2> QED BY <1>3, <2>1, ActionParts, SecretTells DEF ActionTypes, DestructiveCall, MustBlock
<1>4. CASE given.name = "fetch"
  <2>1. ToAgentAction(given) = ActionOf("network_request", MethodTells(given), given)
    BY <1>4 DEF ToAgentAction
  <2> QED BY <1>4, <2>1, ActionParts DEF ActionTypes, DestructiveCall
<1>5. CASE given.name \notin {"shell", "write", "read", "fetch"}
  <2>1. ToAgentAction(given) = ActionOf("custom_action", {}, given)
    BY <1>5 DEF ToAgentAction
  <2> QED BY <1>5, <2>1, ActionParts DEF ActionTypes, DestructiveCall, NeedsHuman
<1> QED BY <1>1, <1>2, <1>3, <1>4, <1>5

LEMMA McpClassifies ==
  ASSUME NEW given \in ToolCallInputs
  PROVE  /\ ToolCallToAction(given).actionType \in ActionTypes
         /\ DestructiveCall(given) => MustBlock(ToolCallToAction(given))
<1> DEFINE shell == "command" \in given.args \/ given.name = "shell"
<1>1. CASE shell
  <2>1. ToolCallToAction(given) = ActionOf("shell_command", given.tells, given)
    BY <1>1 DEF ToolCallToAction
  <2> QED BY <1>1, <2>1, ActionParts, SecretTells DEF ActionTypes, DestructiveCall, MustBlock
<1>2. CASE ~shell /\ "path" \in given.args
  <2> DEFINE tells == IF given.name = "write" THEN given.tells \cup {"writes"} ELSE given.tells
  <2>1. ToolCallToAction(given) = ActionOf("file_access", tells, given) /\ given.tells \subseteq tells
    BY <1>2 DEF ToolCallToAction
  <2> HIDE DEF tells
  <2> QED BY <1>2, <2>1, ActionParts, SecretTells DEF ActionTypes, DestructiveCall, MustBlock
<1>3. CASE ~shell /\ "path" \notin given.args
  <2>1. ~DestructiveCall(given)
    BY <1>3, SecretsAreInPaths DEF DestructiveCall
  <2>2. \E type \in {"network_request", "database_query", "custom_action"} : \E tells :
          ToolCallToAction(given) = ActionOf(type, tells, given)
    BY <1>3 DEF ToolCallToAction
  <2> QED BY <2>1, <2>2, ActionParts DEF ActionTypes
<1> QED BY <1>1, <1>2, <1>3

(* What is known of a request by the surface it came through.              *)
DirectIsSilent(q) == surface[q] \in {"none", "direct"} => outcome[q] = "none"

FreshIsUndecided(q) == surface[q] = "none" => decided[q] = Absent

HookIsAnswered(q) ==
  surface[q] = "hook" =>
    /\ toolCall[q] \in ToolCallInputs
    /\ outcome[q] \in {"waiting", "allow", "ask", "deny", "unchecked"}
    /\ decided[q] # Absent => decided[q].action = ToAgentAction(toolCall[q])
    /\ outcome[q] = "allow" /\ ~failOpen[q] => decided[q] # Absent /\ decided[q].decision = "allow"

McpIsAnswered(q) ==
  surface[q] = "mcp" =>
    /\ toolCall[q] \in ToolCallInputs
    /\ outcome[q] \in {"error", "blocked", "input_required", "content"}
    /\ outcome[q] = "content" => ~MustBlock(ToolCallToAction(toolCall[q]))

CallKept(q) ==
  /\ surface[q] \in {"none", "direct", "hook", "mcp"}
  /\ DirectIsSilent(q) /\ FreshIsUndecided(q) /\ HookIsAnswered(q) /\ McpIsAnswered(q)

CallsAreFunctions ==
  /\ surface = [q \in Requests |-> surface[q]] /\ toolCall = [q \in Requests |-> toolCall[q]]
  /\ failOpen = [q \in Requests |-> failOpen[q]] /\ outcome = [q \in Requests |-> outcome[q]]

CallInv == PolicyInv /\ CallsAreFunctions /\ \A q \in Requests : CallKept(q)

LEMMA CallInit == ToolCallsInit => CallInv
BY PolicyInit
   DEF ToolCallsInit, PoliciesInit, CallInv, CallsAreFunctions, CallKept, DirectIsSilent, FreshIsUndecided,
       HookIsAnswered, McpIsAnswered

(* A request that a step leaves alone keeps what is known of it.           *)
LEMMA OthersKeep ==
  ASSUME NEW r \in Requests, CallKept(r), surface'[r] = surface[r], toolCall'[r] = toolCall[r],
         failOpen'[r] = failOpen[r], outcome'[r] = outcome[r], decided'[r] = decided[r]
  PROVE  CallKept(r)'
BY DEF CallKept, DirectIsSilent, FreshIsUndecided, HookIsAnswered, McpIsAnswered

LEMMA AdministrationStep ==
  ASSUME CallInv, PolicyAdministration, UNCHANGED callVars PROVE CallInv'
<1>1. PolicyInv' /\ decided' = decided
  <2>1. PICK i \in PolicyIds, w \in PolicyWorkspaces :
          \/ \E body \in PolicyBodies : CreateCustomPolicy(i, w, body) \/ UpdateCustomPolicy(i, w, body)
          \/ DeleteCustomPolicy(i, w)
    BY DEF PolicyAdministration
  <2>2. CASE DeleteCustomPolicy(i, w)
    <3>1. PolicyInv'
      BY <2>2, DeleteStep DEF CallInv
    <3> QED BY <2>2, <3>1 DEF DeleteCustomPolicy
  <2>3. ASSUME NEW body \in PolicyBodies, CreateCustomPolicy(i, w, body) PROVE PolicyInv' /\ decided' = decided
    <3>1. PolicyInv'
      BY <2>3, CreateStep DEF CallInv
    <3> QED BY <2>3, <3>1 DEF CreateCustomPolicy
  <2>4. ASSUME NEW body \in PolicyBodies, UpdateCustomPolicy(i, w, body) PROVE PolicyInv' /\ decided' = decided
    <3>1. PolicyInv'
      BY <2>4, UpdateStep DEF CallInv
    <3> QED BY <2>4, <3>1 DEF UpdateCustomPolicy
  <2> QED BY <2>1, <2>2, <2>3, <2>4
<1>2. \A r \in Requests : CallKept(r)'
  BY <1>1, OthersKeep DEF CallInv, callVars
<1>3. CallsAreFunctions'
  BY DEF CallInv, CallsAreFunctions, callVars
<1> QED BY <1>1, <1>2, <1>3 DEF CallInv

(* Steps that leave the policies and what was decided alone.               *)
LEMMA PoliciesKeep == ASSUME PolicyInv, UNCHANGED policyVars PROVE PolicyInv'
BY DEF PolicyInv, PoliciesAreValid, Stored, EveryPolicyConstrains, Declared, BlocksSurvivePolicies, Decided,
   TableDecides, policyVars

LEMMA DirectStep ==
  ASSUME CallInv, NEW q \in Requests, NEW action \in Proposals, NEW w, NEW project,
         CheckActionDirectly(q, action, w, project)
  PROVE  CallInv'
<1>1. EvaluateActionPolicy(q, action, w, project) /\ action.actionType \in ActionTypes /\ PolicyInv
  BY InputsAreValid DEF CheckActionDirectly, CallInv
<1>2. PolicyInv'
  BY <1>1, DecisionStep
<1>3. \A r \in Requests \ {q} : decided'[r] = decided[r]
  BY <1>1, Decision
<1>4. /\ surface[q] = "none" /\ surface' = [surface EXCEPT ![q] = "direct"]
      /\ toolCall' = toolCall /\ failOpen' = failOpen /\ outcome' = outcome
  BY DEF CheckActionDirectly
<1>5. CallsAreFunctions' /\ surface'[q] = "direct" /\ \A r \in Requests \ {q} : surface'[r] = surface[r]
  BY <1>4 DEF CallInv, CallsAreFunctions
<1>6. CallKept(q)'
  BY <1>4, <1>5 DEF CallInv, CallKept, DirectIsSilent, FreshIsUndecided, HookIsAnswered, McpIsAnswered
<1>7. ASSUME NEW r \in Requests \ {q} PROVE CallKept(r)'
  BY <1>3, <1>4, <1>5, OthersKeep DEF CallInv
<1> QED BY <1>2, <1>5, <1>6, <1>7 DEF CallInv

LEMMA HookCheckStep ==
  ASSUME CallInv, NEW q \in Requests, CheckActionForHook(q) PROVE CallInv'
<1> DEFINE action == ToAgentAction(toolCall[q])
<1>1. EvaluateActionPolicy(q, action, CheckWorkspace, CheckProject) /\ action.actionType \in ActionTypes /\ PolicyInv
  BY HookClassifies DEF CheckActionForHook, CallInv
<1> HIDE DEF action
<1>2. PolicyInv'
  BY <1>1, DecisionStep
<1>3. /\ \A r \in Requests \ {q} : decided'[r] = decided[r]
      /\ decided[q] = Absent /\ decided'[q].action = action
  BY <1>1, Decision
<1>4. /\ surface[q] = "hook" /\ surface' = surface /\ outcome' = outcome
      /\ toolCall' = toolCall /\ failOpen' = failOpen
  BY DEF CheckActionForHook
<1>5. CallsAreFunctions'
  BY <1>4 DEF CallInv, CallsAreFunctions
<1>6. CallKept(q)'
  <2>1. decided'[q].action = ToAgentAction(toolCall'[q])
    BY <1>3, <1>4 DEF action
  <2>2. HookIsAnswered(q) /\ (outcome[q] = "allow" => failOpen[q])
    BY <1>3, <1>4 DEF CallInv, CallKept, HookIsAnswered
  <2>3. HookIsAnswered(q)'
    BY <1>4, <2>1, <2>2 DEF HookIsAnswered
  <2> QED BY <1>4, <2>3 DEF CallKept, DirectIsSilent, FreshIsUndecided, McpIsAnswered
<1>7. ASSUME NEW r \in Requests \ {q} PROVE CallKept(r)'
  BY <1>3, <1>4, OthersKeep DEF CallInv
<1> QED BY <1>2, <1>5, <1>6, <1>7 DEF CallInv

(* The hook before it is answered, and its two answers.                    *)
LEMMA HookStep ==
  ASSUME CallInv, NEW q \in Requests, NEW given \in ToolCallInputs, NEW open \in BOOLEAN,
         \/ HookCannotCheck(q, given) \/ HookAsks(q, given, open)
         \/ HookAnswered(q) \/ HookUnreachable(q) \/ McpRefuses(q, given)
  PROVE  CallInv'
<1> USE DEF CallInv
<1>1. UNCHANGED policyVars /\ decided' = decided /\ PolicyInv'
  <2>1. UNCHANGED policyVars
    BY DEF HookCannotCheck, HookAsks, HookAnswered, HookUnreachable, McpRefuses
  <2>2. PolicyInv'
    BY <2>1, PoliciesKeep
  <2> QED BY <2>1, <2>2 DEF policyVars
<1>2. CallsAreFunctions'
  BY DEF CallsAreFunctions, HookCannotCheck, HookAsks, HookAnswered, HookUnreachable, McpRefuses
<1>3. ASSUME NEW r \in Requests \ {q} PROVE CallKept(r)'
  <2>1. /\ surface'[r] = surface[r] /\ toolCall'[r] = toolCall[r] /\ failOpen'[r] = failOpen[r]
        /\ outcome'[r] = outcome[r]
    BY DEF CallsAreFunctions, HookCannotCheck, HookAsks, HookAnswered, HookUnreachable, McpRefuses
  <2> QED BY <1>1, <2>1, OthersKeep
<1>4. CallKept(q)'
  <2>1. CASE HookCannotCheck(q, given)
    <3>1. surface'[q] = "hook" /\ toolCall'[q] = given /\ outcome'[q] = "unchecked" /\ decided'[q] = Absent
      BY <1>1, <2>1 DEF HookCannotCheck, CallsAreFunctions, CallKept, FreshIsUndecided
    <3> QED BY <3>1 DEF CallKept, DirectIsSilent, FreshIsUndecided, HookIsAnswered, McpIsAnswered
  <2>2. CASE HookAsks(q, given, open)
    <3>1. surface'[q] = "hook" /\ toolCall'[q] = given /\ outcome'[q] = "waiting" /\ decided'[q] = Absent
      BY <1>1, <2>2 DEF HookAsks, CallsAreFunctions, CallKept, FreshIsUndecided
    <3> QED BY <3>1 DEF CallKept, DirectIsSilent, FreshIsUndecided, HookIsAnswered, McpIsAnswered
  <2>3. CASE HookAnswered(q)
    <3>1. /\ surface'[q] = "hook" /\ surface[q] = "hook" /\ toolCall'[q] = toolCall[q] /\ failOpen'[q] = failOpen[q]
          /\ decided'[q] = decided[q] /\ decided[q] # Absent
          /\ outcome'[q] = HookBehaviour(decided[q].decision)
      BY <1>1, <2>3 DEF HookAnswered, CallsAreFunctions
    <3>2. outcome'[q] \in {"allow", "ask", "deny"} /\ (outcome'[q] = "allow" => decided[q].decision = "allow")
      BY <3>1 DEF HookBehaviour
    <3> QED BY <3>1, <3>2 DEF CallKept, DirectIsSilent, FreshIsUndecided, HookIsAnswered, McpIsAnswered
  <2>4. CASE HookUnreachable(q)
    <3>1. /\ surface'[q] = "hook" /\ surface[q] = "hook" /\ toolCall'[q] = toolCall[q] /\ failOpen'[q] = failOpen[q]
          /\ decided'[q] = decided[q]
          /\ outcome'[q] = IF failOpen[q] THEN "allow" ELSE "deny"
      BY <1>1, <2>4 DEF HookUnreachable, CallsAreFunctions
    <3>2. outcome'[q] \in {"allow", "deny"} /\ (outcome'[q] = "allow" => failOpen[q])
      BY <3>1
    <3> QED BY <3>1, <3>2 DEF CallKept, DirectIsSilent, FreshIsUndecided, HookIsAnswered, McpIsAnswered
  <2>5. CASE McpRefuses(q, given)
    <3>1. surface'[q] = "mcp" /\ toolCall'[q] = given /\ outcome'[q] = "error"
      BY <2>5 DEF McpRefuses, CallsAreFunctions
    <3> QED BY <3>1 DEF CallKept, DirectIsSilent, FreshIsUndecided, HookIsAnswered, McpIsAnswered
  <2> QED BY <2>1, <2>2, <2>3, <2>4, <2>5
<1> QED BY <1>1, <1>2, <1>3, <1>4

LEMMA McpStep ==
  ASSUME CallInv, NEW q \in Requests, NEW given \in ToolCallInputs, McpDecides(q, given) PROVE CallInv'
<1> DEFINE action == ToolCallToAction(given)
<1>1. EvaluateActionPolicy(q, action, CheckWorkspace, CheckProject) /\ action.actionType \in ActionTypes /\ PolicyInv
  BY McpClassifies DEF McpDecides, CallInv
<1> HIDE DEF action
<1>2. PolicyInv'
  BY <1>1, DecisionStep
<1>3. /\ \A r \in Requests \ {q} : decided'[r] = decided[r]
      /\ MustBlock(action) => decided'[q].decision = "block"
  <2>1. /\ \A r \in Requests \ {q} : decided'[r] = decided[r]
        /\ MustBlock(action) => decided'[q].decision = EvaluateAgentAction(action).decision
    BY <1>1, Decision
  <2> QED BY <2>1, MustBlockIsMandatory
<1>4. /\ surface[q] = "none" /\ surface' = [surface EXCEPT ![q] = "mcp"] /\ toolCall' = [toolCall EXCEPT ![q] = given]
      /\ outcome' = [outcome EXCEPT ![q] = McpOutcome(decided'[q].decision)] /\ failOpen' = failOpen
  BY DEF McpDecides
<1>5. /\ CallsAreFunctions'
      /\ surface'[q] = "mcp" /\ toolCall'[q] = given /\ outcome'[q] = McpOutcome(decided'[q].decision)
      /\ \A r \in Requests \ {q} :
           surface'[r] = surface[r] /\ toolCall'[r] = toolCall[r] /\ outcome'[r] = outcome[r] /\ failOpen'[r] = failOpen[r]
  BY <1>4 DEF CallInv, CallsAreFunctions
<1>6. CallKept(q)'
  <2>1. /\ McpOutcome(decided'[q].decision) \in {"error", "blocked", "input_required", "content"}
        /\ decided'[q].decision = "block" => McpOutcome(decided'[q].decision) = "blocked"
    BY DEF McpOutcome
  <2>2. outcome'[q] = "content" => ~MustBlock(ToolCallToAction(toolCall'[q]))
    BY <1>3, <1>5, <2>1 DEF action
  <2>3. McpIsAnswered(q)'
    BY <1>5, <2>1, <2>2 DEF McpIsAnswered
  <2> QED BY <1>5, <2>3 DEF CallKept, DirectIsSilent, FreshIsUndecided, HookIsAnswered
<1>7. ASSUME NEW r \in Requests \ {q} PROVE CallKept(r)'
  BY <1>3, <1>5, OthersKeep DEF CallInv
<1> QED BY <1>2, <1>5, <1>6, <1>7 DEF CallInv

LEMMA RetryStep == ASSUME CallInv, NEW q \in Requests, McpRetries(q) PROVE CallInv'
<1>1. /\ surface' = [surface EXCEPT ![q] = "none"] /\ outcome' = [outcome EXCEPT ![q] = "none"]
      /\ decided' = [decided EXCEPT ![q] = Absent] /\ toolCall' = [toolCall EXCEPT ![q] = Absent]
      /\ policies' = policies /\ created' = created /\ failOpen' = failOpen
  BY DEF McpRetries
<1>2. /\ decided' = [r \in Requests |-> decided'[r]] /\ decided'[q] = Absent
      /\ \A r \in Requests \ {q} : decided'[r] = decided[r]
  BY <1>1 DEF CallInv, PolicyInv
<1>3. PolicyInv'
  <2>1. PoliciesAreValid' /\ EveryPolicyConstrains'
    BY <1>1 DEF CallInv, PolicyInv, PoliciesAreValid, Stored, EveryPolicyConstrains, Declared
  <2>2. BlocksSurvivePolicies' /\ TableDecides'
    BY <1>2 DEF CallInv, PolicyInv, BlocksSurvivePolicies, Decided, TableDecides
  <2> QED BY <1>1, <1>2, <2>1, <2>2 DEF CallInv, PolicyInv
<1>4. /\ CallsAreFunctions' /\ surface'[q] = "none" /\ outcome'[q] = "none"
      /\ \A r \in Requests \ {q} :
           surface'[r] = surface[r] /\ toolCall'[r] = toolCall[r] /\ outcome'[r] = outcome[r] /\ failOpen'[r] = failOpen[r]
  BY <1>1 DEF CallInv, CallsAreFunctions
<1>5. CallKept(q)'
  BY <1>2, <1>4 DEF CallKept, DirectIsSilent, FreshIsUndecided, HookIsAnswered, McpIsAnswered
<1>6. ASSUME NEW r \in Requests \ {q} PROVE CallKept(r)'
  BY <1>2, <1>4, OthersKeep DEF CallInv
<1> QED BY <1>3, <1>4, <1>5, <1>6 DEF CallInv

LEMMA CallStep ==
  ASSUME CallInv, [ToolCallsNext]_toolCallVars
  PROVE  CallInv' /\ (UNCHANGED policyVars \/ \A r \in Requests : DecidedByPrecedence(r))
<1>1. CASE UNCHANGED toolCallVars
  <2>1. UNCHANGED policyVars /\ UNCHANGED callVars
    BY <1>1 DEF toolCallVars
  <2>2. PolicyInv'
    BY <2>1, PoliciesKeep DEF CallInv
  <2>3. \A r \in Requests : CallKept(r)'
    BY <2>1, OthersKeep DEF CallInv, callVars, policyVars
  <2>4. CallsAreFunctions'
    BY <2>1 DEF CallInv, CallsAreFunctions, callVars
  <2> QED BY <2>1, <2>2, <2>3, <2>4 DEF CallInv
<1>2. CASE PolicyAdministration /\ UNCHANGED callVars
  <2>1. decided' = decided
    BY <1>2 DEF PolicyAdministration, CreateCustomPolicy, UpdateCustomPolicy, DeleteCustomPolicy
  <2>2. CallInv'
    BY <1>2, AdministrationStep
  <2> QED BY <2>1, <2>2 DEF DecidedByPrecedence
<1>3. ASSUME NEW q \in Requests, NEW action \in Proposals, NEW w \in PolicyWorkspaces,
             NEW project \in Projects \cup {Absent}, CheckActionDirectly(q, action, w, project)
      PROVE  CallInv' /\ \A r \in Requests : DecidedByPrecedence(r)
  <2>1. PolicyInv /\ action.actionType \in ActionTypes /\ EvaluateActionPolicy(q, action, w, project)
    BY <1>3, InputsAreValid DEF CallInv, CheckActionDirectly
  <2>2. \A r \in Requests : DecidedByPrecedence(r)
    BY <2>1, PrecedenceStep
  <2>3. CallInv'
    BY <1>3, DirectStep
  <2> QED BY <2>2, <2>3
<1>4. ASSUME NEW q \in Requests, CheckActionForHook(q)
      PROVE  CallInv' /\ \A r \in Requests : DecidedByPrecedence(r)
  <2>1. PolicyInv /\ EvaluateActionPolicy(q, ToAgentAction(toolCall[q]), CheckWorkspace, CheckProject)
    BY <1>4 DEF CallInv, CheckActionForHook
  <2>2. ToAgentAction(toolCall[q]).actionType \in ActionTypes
    BY HookClassifies
  <2>3. \A r \in Requests : DecidedByPrecedence(r)
    BY <2>1, <2>2, PrecedenceStep
  <2>4. CallInv'
    BY <1>4, HookCheckStep
  <2> QED BY <2>3, <2>4
<1>5. ASSUME NEW q \in Requests, NEW given \in ToolCallInputs, McpDecides(q, given)
      PROVE  CallInv' /\ \A r \in Requests : DecidedByPrecedence(r)
  <2>1. PolicyInv /\ EvaluateActionPolicy(q, ToolCallToAction(given), CheckWorkspace, CheckProject)
    BY <1>5 DEF CallInv, McpDecides
  <2>2. ToolCallToAction(given).actionType \in ActionTypes
    BY McpClassifies
  <2>3. \A r \in Requests : DecidedByPrecedence(r)
    BY <2>1, <2>2, PrecedenceStep
  <2>4. CallInv'
    BY <1>5, McpStep
  <2> QED BY <2>3, <2>4
<1>6. ASSUME NEW q \in Requests, NEW given \in ToolCallInputs, NEW open \in BOOLEAN,
             HookCannotCheck(q, given) \/ HookAsks(q, given, open) \/ McpRefuses(q, given)
      PROVE  CallInv' /\ UNCHANGED policyVars
  <2>1. CallInv'
    BY <1>6, HookStep
  <2> QED BY <1>6, <2>1 DEF HookCannotCheck, HookAsks, McpRefuses
<1>7. ASSUME NEW q \in Requests, HookAnswered(q) \/ HookUnreachable(q)
      PROVE  CallInv' /\ UNCHANGED policyVars
  <2>1. toolCall[q] \in ToolCallInputs
    BY <1>7 DEF CallInv, CallKept, HookIsAnswered, HookAnswered, HookUnreachable
  <2>2. CallInv'
    BY <1>7, <2>1, HookStep
  <2> QED BY <1>7, <2>2 DEF HookAnswered, HookUnreachable
<1>8. ASSUME NEW q \in Requests, McpRetries(q)
      PROVE  CallInv' /\ \A r \in Requests : DecidedByPrecedence(r)
  <2>1. CallInv'
    BY <1>8, RetryStep
  <2>2. \A r \in Requests : decided'[r] = Absent \/ decided'[r] = decided[r]
    BY <1>8 DEF McpRetries, CallInv, PolicyInv
  <2> QED BY <2>1, <2>2 DEF DecidedByPrecedence, Decided
<1>9. CASE ToolCallsNext
  <2>1. ASSUME NEW q \in Requests, NEW given \in ToolCallInputs, HookCannotCheck(q, given) \/ McpRefuses(q, given)
        PROVE  CallInv' /\ UNCHANGED policyVars
    <3>1. TRUE \in BOOLEAN
      OBVIOUS
    <3> QED BY <1>6, <2>1, <3>1
  <2> QED BY <1>2, <1>3, <1>4, <1>5, <1>6, <1>7, <1>8, <1>9, <2>1 DEF ToolCallsNext
<1> QED BY <1>1, <1>9

-----------------------------------------------------------------------------
(* Types: what is stored and decided, and what a request is told.          *)
LEMMA TableTypes ==
  ASSUME NEW action, action.actionType \in ActionTypes
  PROVE  EvaluateAgentAction(action).decision \in PolicyDecisions
<1>1. Applies(DefaultRules[26], action)
  BY RuleDecisions DEF Applies
<1>2. PICK f \in 1 .. 26 : EvaluateAgentAction(action) = DefaultRules[f]
  BY SMTT(60), <1>1, FirstRule
<1> QED BY <1>2, RuleDecisions DEF PolicyDecisions

LEMMA CreateTypes ==
  ASSUME PolicyInv, PoliciesTypeOK, NEW i \in PolicyIds, NEW w \in PolicyWorkspaces, NEW body \in PolicyBodies,
         CreateCustomPolicy(i, w, body)
  PROVE  PoliciesTypeOK'
<1> DEFINE input == ParsePolicyInput(body)
           new == policies'[i]
<1>1. /\ ~Refused(body) /\ created < MaxCreated /\ created' = created + 1 /\ decided' = decided
      /\ \A j \in PolicyIds \ {i} : policies'[j] = policies[j]
      /\ new.decision = Or(input.decision, "allow") /\ new.priority = Or(input.priority, 100)
      /\ new.project = input.project /\ new.enabled = TRUE /\ new.workspace = w /\ new.createdAt = created + 1
  BY DEF CreateCustomPolicy, PolicyInv
<1>2. \A f \in Fields : input[f] = (IF body[f] = Empty THEN Absent ELSE body[f]) /\ body[f] # Invalid
  BY <1>1 DEF ParsePolicyInput, Refused
<1>3. {"decision", "priority", "project"} \subseteq Fields
  BY DEF Fields
<1>4. new.decision \in PolicyDecisions
  BY <1>1, <1>2, <1>3, InputsAreValid DEF Or, PolicyDecisions
<1>5. new.priority \in Nat /\ new.project \in Projects \cup {Absent}
  BY <1>1, <1>2, <1>3, InputsAreValid DEF Or
<1>6. created' \in 0 .. MaxCreated /\ new.createdAt \in 1 .. created' /\ 1 .. created \subseteq 1 .. created'
  BY <1>1, PolicyBounds DEF PoliciesTypeOK
<1> HIDE DEF new, input
<1>7. ASSUME NEW j \in PolicyIds, policies'[j] # NoPolicy
      PROVE  /\ policies'[j].decision \in PolicyDecisions /\ policies'[j].workspace \in PolicyWorkspaces
             /\ policies'[j].project \in Projects \cup {Absent} /\ policies'[j].priority \in Nat
             /\ policies'[j].enabled \in BOOLEAN /\ policies'[j].createdAt \in 1 .. created'
  <2>1. CASE j = i
    BY <1>1, <1>4, <1>5, <1>6, <2>1 DEF new
  <2>2. CASE j # i
    BY <1>1, <1>6, <1>7, <2>2 DEF PoliciesTypeOK
  <2> QED BY <2>1, <2>2
<1> QED BY <1>1, <1>6, <1>7 DEF PoliciesTypeOK

LEMMA UpdateTypes ==
  ASSUME PolicyInv, PoliciesTypeOK, NEW i \in PolicyIds, NEW w \in PolicyWorkspaces, NEW body \in PolicyBodies,
         UpdateCustomPolicy(i, w, body)
  PROVE  PoliciesTypeOK'
<1> DEFINE input == ParsePolicyInput(body)
           old == policies[i]
           new == policies'[i]
<1>1. /\ old # NoPolicy /\ ~Refused(body) /\ decided' = decided /\ created' = created
      /\ \A j \in PolicyIds \ {i} : policies'[j] = policies[j]
      /\ new = [f \in DOMAIN old |-> IF f \in Fields \ {"project"} /\ input[f] # Absent
                                    THEN IF input[f] = Empty THEN Absent ELSE input[f]
                                    ELSE old[f]]
  BY DEF UpdateCustomPolicy, InWorkspace, PolicyInv
<1>2. \A f \in Fields : input[f] = (IF body[f] = Empty THEN Absent ELSE body[f]) /\ body[f] # Invalid
  BY <1>1 DEF ParsePolicyInput, Refused
<1>3. DOMAIN old = Criteria \cup {"project", "decision", "priority", "enabled", "workspace", "createdAt"}
  BY <1>1 DEF PolicyInv, PoliciesAreValid, Stored
<1> HIDE DEF new, input, old
<1>4. /\ new.decision \in {old.decision, body.decision} \ {Invalid, Absent} \/ new.decision = old.decision
      /\ new.priority \in {old.priority, body.priority} \ {Invalid, Absent} \/ new.priority = old.priority
      /\ new.enabled \in {old.enabled, body.enabled} \ {Invalid, Absent} \/ new.enabled = old.enabled
      /\ new.project = old.project /\ new.workspace = old.workspace /\ new.createdAt = old.createdAt
  BY <1>1, <1>2, <1>3 DEF Fields, Criteria
<1>5. /\ new.decision \in PolicyDecisions /\ new.priority \in Nat /\ new.enabled \in BOOLEAN
      /\ new.workspace \in PolicyWorkspaces /\ new.project \in Projects \cup {Absent}
      /\ new.createdAt \in 1 .. created
  BY <1>1, <1>4, InputsAreValid DEF PoliciesTypeOK, old
<1>6. ASSUME NEW j \in PolicyIds, policies'[j] # NoPolicy
      PROVE  /\ policies'[j].decision \in PolicyDecisions /\ policies'[j].workspace \in PolicyWorkspaces
             /\ policies'[j].project \in Projects \cup {Absent} /\ policies'[j].priority \in Nat
             /\ policies'[j].enabled \in BOOLEAN /\ policies'[j].createdAt \in 1 .. created'
  <2>1. CASE j = i
    BY <1>1, <1>5, <2>1 DEF new
  <2>2. CASE j # i
    BY <1>1, <1>6, <2>2 DEF PoliciesTypeOK
  <2> QED BY <2>1, <2>2
<1> QED BY <1>1, <1>6 DEF PoliciesTypeOK

LEMMA DeleteTypes ==
  ASSUME PolicyInv, PoliciesTypeOK, NEW i \in PolicyIds, NEW w \in PolicyWorkspaces, DeleteCustomPolicy(i, w)
  PROVE  PoliciesTypeOK'
<1>1. /\ policies'[i] = NoPolicy /\ \A j \in PolicyIds \ {i} : policies'[j] = policies[j]
      /\ created' = created /\ decided' = decided
  BY DEF DeleteCustomPolicy, PolicyInv
<1> QED BY <1>1 DEF PoliciesTypeOK

LEMMA DecisionTypes ==
  ASSUME PolicyInv, PoliciesTypeOK, NEW q \in Requests, NEW action, NEW w, NEW project,
         action.actionType \in ActionTypes, EvaluateActionPolicy(q, action, w, project)
  PROVE  PoliciesTypeOK'
<1> DEFINE M == Matching(action, w, project)
<1>1. M \in SUBSET Stored
  BY MatchingAreStored
<1>2. M # {} => policies[First(M)].decision \in PolicyDecisions
  <2> HIDE DEF M
  <2>1. M # {} => First(M) \in Stored
    BY <1>1, FirstIsFirst
  <2> QED BY <2>1 DEF Stored, PoliciesTypeOK
<1>3. /\ UNCHANGED <<policies, created>>
      /\ \A r \in Requests \ {q} : decided'[r] = decided[r]
      /\ \/ M # {} /\ decided'[q].decision = policies[First(M)].decision
         \/ decided'[q].decision = EvaluateAgentAction(action).decision
         \/ decided'[q].decision = "unavailable"
  BY Decision
<1> HIDE DEF M
<1>4. decided'[q].decision \in PolicyDecisions \cup {"unavailable"}
  BY <1>2, <1>3, TableTypes
<1>5. \A r \in Requests : decided'[r] # Absent => decided'[r].decision \in PolicyDecisions \cup {"unavailable"}
  BY <1>3, <1>4 DEF PoliciesTypeOK
<1> QED BY <1>3, <1>5 DEF PoliciesTypeOK

CallTypes == PoliciesTypeOK /\ ToolCallsTypeOK

LEMMA TypesStep ==
  ASSUME CallInv, CallTypes, [ToolCallsNext]_toolCallVars
  PROVE  CallTypes'
<1> USE DEF CallTypes
<1>1. CASE UNCHANGED toolCallVars
  BY <1>1 DEF toolCallVars, policyVars, callVars, PoliciesTypeOK, ToolCallsTypeOK
<1>2. CASE PolicyAdministration /\ UNCHANGED callVars
  <2>1. PoliciesTypeOK'
    BY <1>2, CreateTypes, UpdateTypes, DeleteTypes DEF PolicyAdministration, CallInv
  <2> QED BY <1>2, <2>1 DEF callVars, ToolCallsTypeOK
<1>3. ASSUME NEW q \in Requests, NEW action \in Proposals, NEW w \in PolicyWorkspaces,
             NEW project \in Projects \cup {Absent}, CheckActionDirectly(q, action, w, project)
      PROVE  CallTypes'
  <2>1. PoliciesTypeOK'
    BY <1>3, DecisionTypes, InputsAreValid DEF CheckActionDirectly, CallInv
  <2>2. ToolCallsTypeOK'
    BY <1>3 DEF CheckActionDirectly, ToolCallsTypeOK
  <2> QED BY <2>1, <2>2
<1>4. ASSUME NEW q \in Requests, CheckActionForHook(q) PROVE CallTypes'
  <2>1. PoliciesTypeOK'
    BY <1>4, DecisionTypes, HookClassifies DEF CheckActionForHook, CallInv
  <2>2. ToolCallsTypeOK'
    BY <1>4 DEF CheckActionForHook, ToolCallsTypeOK
  <2> QED BY <2>1, <2>2
<1>5. ASSUME NEW q \in Requests, NEW given \in ToolCallInputs, McpDecides(q, given) PROVE CallTypes'
  <2>1. PoliciesTypeOK'
    BY <1>5, DecisionTypes, McpClassifies DEF McpDecides, CallInv
  <2>2. McpOutcome(decided'[q].decision) \in Outcomes
    BY DEF McpOutcome, Outcomes
  <2>3. ToolCallsTypeOK'
    BY <1>5, <2>2 DEF McpDecides, ToolCallsTypeOK
  <2> QED BY <2>1, <2>3
<1>6. ASSUME UNCHANGED policyVars PROVE PoliciesTypeOK'
  BY <1>6 DEF policyVars, PoliciesTypeOK
<1>7. ASSUME NEW q \in Requests, NEW given \in ToolCallInputs,
             \/ HookCannotCheck(q, given) \/ McpRefuses(q, given)
             \/ \E open \in BOOLEAN : HookAsks(q, given, open)
      PROVE  CallTypes'
  <2>1. PoliciesTypeOK'
    BY <1>6, <1>7 DEF HookCannotCheck, McpRefuses, HookAsks
  <2>2. CASE HookCannotCheck(q, given)
    BY <2>1, <2>2 DEF HookCannotCheck, ToolCallsTypeOK, Outcomes
  <2>3. CASE McpRefuses(q, given)
    BY <2>1, <2>3 DEF McpRefuses, ToolCallsTypeOK, Outcomes
  <2>4. ASSUME NEW open \in BOOLEAN, HookAsks(q, given, open) PROVE CallTypes'
    BY <2>1, <2>4 DEF HookAsks, ToolCallsTypeOK, Outcomes
  <2> QED BY <1>7, <2>2, <2>3, <2>4
<1>8. ASSUME NEW q \in Requests, HookAnswered(q) PROVE CallTypes'
  <2>1. HookBehaviour(decided[q].decision) \in Outcomes
    BY DEF HookBehaviour, Outcomes
  <2> QED BY <1>6, <1>8, <2>1 DEF HookAnswered, ToolCallsTypeOK
<1>9. ASSUME NEW q \in Requests, HookUnreachable(q) PROVE CallTypes'
  BY <1>6, <1>9 DEF HookUnreachable, ToolCallsTypeOK, Outcomes
<1>10. ASSUME NEW q \in Requests, McpRetries(q) PROVE CallTypes'
  <2>1. PoliciesTypeOK'
    BY <1>10 DEF McpRetries, PoliciesTypeOK, CallInv, PolicyInv
  <2>2. ToolCallsTypeOK'
    BY <1>10 DEF McpRetries, ToolCallsTypeOK, Outcomes
  <2> QED BY <2>1, <2>2
<1>11. CASE ToolCallsNext
  BY <1>2, <1>3, <1>4, <1>5, <1>7, <1>8, <1>9, <1>10, <1>11 DEF ToolCallsNext
<1> QED BY <1>1, <1>11

-----------------------------------------------------------------------------
(* The theorems.                                                           *)

(* A decision is made by the candidate of the lowest priority, the newest  *)
(* of equals: matchCustomPolicy under evaluateActionPolicy, for any        *)
(* policies and whichever surface asks.                                    *)
THEOREM PrecedenceSafety == ToolCallsSpec => PrecedenceDecides
<1>1. ToolCallsInit => CallInv
  BY CallInit
<1>2. CallInv /\ [ToolCallsNext]_toolCallVars => CallInv'
  BY CallStep
<1>3. CallInv /\ [ToolCallsNext]_toolCallVars
        => UNCHANGED policyVars \/ \A r \in Requests : DecidedByPrecedence(r)
  BY CallStep
<1>4. CallInv /\ [ToolCallsNext]_toolCallVars => [\A q \in Requests : DecidedByPrecedence(q)]_policyVars
  BY <1>3
<1> QED BY <1>1, <1>2, <1>4, PTL DEF ToolCallsSpec, PrecedenceDecides

(* No tool call runs unasked against the policy: what the hook and the MCP *)
(* endpoint tell an agent, for any tool calls, policies and interleavings. *)
THEOREM CallSafety == ToolCallsSpec => []ToolCallsAreGated
<1>1. ToolCallsInit => CallInv
  BY CallInit
<1>2. CallInv /\ [ToolCallsNext]_toolCallVars => CallInv'
  BY CallStep
<1>3. CallInv => ToolCallsAreGated
  <2> SUFFICES ASSUME CallInv PROVE ToolCallsAreGated
    OBVIOUS
  <2>1. HookPassesOnlyAllowed
    BY DEF CallInv, CallKept, HookIsAnswered, HookPassesOnlyAllowed, RunsUnasked
  <2>2. ASSUME NEW q \in Requests, DestructiveCall(toolCall[q]), RunsUnasked(q)
        PROVE  outcome[q] = "unchecked" \/ failOpen[q]
    <3>1. CASE surface[q] = "hook" /\ outcome[q] # "unchecked" /\ ~failOpen[q]
      <4>1. /\ Decided(q) /\ decided[q].decision = "allow"
            /\ decided[q].action = ToAgentAction(toolCall[q])
        BY <2>2, <3>1 DEF CallInv, CallKept, HookIsAnswered, RunsUnasked, Decided
      <4>2. MustBlock(decided[q].action)
        BY <2>2, <4>1, HookClassifies
      <4> QED BY <4>1, <4>2 DEF CallInv, PolicyInv, BlocksSurvivePolicies
    <3>2. CASE surface[q] = "mcp"
      <4>1. toolCall[q] \in ToolCallInputs /\ ~MustBlock(ToolCallToAction(toolCall[q]))
        BY <2>2, <3>2 DEF CallInv, CallKept, McpIsAnswered, RunsUnasked
      <4> QED BY <2>2, <4>1, McpClassifies
    <3> QED BY <2>2, <3>1, <3>2 DEF CallInv, CallKept, DirectIsSilent, RunsUnasked
  <2>3. DestructiveCallsStop
    BY <2>2 DEF DestructiveCallsStop
  <2>4. ASSUME NEW q \in Requests, surface[q] = "hook", toolCall[q].name = "other", outcome[q] = "allow",
               ~failOpen[q], decided[q].by = "default"
        PROVE  FALSE
    <3>1. /\ decided[q] # Absent /\ decided[q].decision = "allow"
          /\ decided[q].action = ToAgentAction(toolCall[q])
      BY <2>4 DEF CallInv, CallKept, HookIsAnswered
    <3>2. /\ decided[q].decision = EvaluateAgentAction(decided[q].action).decision
          /\ decided[q].action.actionType \in ActionTypes
      BY <2>4, <3>1 DEF CallInv, PolicyInv, TableDecides
    <3>3. NeedsHuman(decided[q].action)
      BY <2>4, <3>1, HookClassifies
    <3>4. EvaluateAgentAction(decided[q].action).decision \in {"block", "approval_required"}
      BY <3>2, <3>3, NeedsHumanIsHeld
    <3> QED BY <3>1, <3>2, <3>4
  <2>5. UnfamiliarToolIsHeld
    BY <2>4 DEF UnfamiliarToolIsHeld
  <2> QED BY <2>1, <2>3, <2>5 DEF ToolCallsAreGated
<1> QED BY <1>1, <1>2, <1>3, PTL DEF ToolCallsSpec

(* The presets of the playground are decided as their chips say.           *)
LEMMA PresetsAreRight ==
  ASSUME NEW id \in DOMAIN Presets
  PROVE  /\ ToDraft(Presets[id]).actionType \in ActionTypes
         /\ EvaluateAgentAction(ToDraft(Presets[id])).decision = Presets[id].expected
<1> DEFINE d == ToDraft(Presets[id])
<1>0. d.actionType = Presets[id].actionType /\ d.tells = Presets[id].tells
  BY DEF ToDraft
<1>1. CASE id = "read_env"
  <2>1. d.actionType = "shell_command" /\ "secret" \in d.tells /\ Presets[id].expected = "block"
    BY <1>0, <1>1 DEF Presets, Preset
  <2>2. MustBlock(d)
    BY <2>1 DEF MustBlock
  <2> QED BY <2>1, <2>2, MustBlockIsMandatory DEF ActionTypes
<1>2. CASE id = "rm_root"
  <2>1. d.actionType = "shell_command" /\ "destructive" \in d.tells /\ Presets[id].expected = "block"
    BY <1>0, <1>2 DEF Presets, Preset
  <2>2. MustBlock(d)
    BY <2>1 DEF MustBlock
  <2> QED BY <2>1, <2>2, MustBlockIsMandatory DEF ActionTypes
<1>3. CASE id = "force_push"
  <2>1. d.actionType = "shell_command" /\ "forcePush" \in d.tells /\ Presets[id].expected = "block"
    BY <1>0, <1>3 DEF Presets, Preset
  <2>2. MustBlock(d)
    BY <2>1 DEF MustBlock
  <2> QED BY <2>1, <2>2, MustBlockIsMandatory DEF ActionTypes
<1>4. CASE id \in {"deploy", "refund"}
  <2>1. d.actionType \in {"deploy_action", "payment_action"} /\ d.tells = {} /\ Presets[id].expected = "approval_required"
    BY <1>0, <1>4 DEF Presets, Preset
  <2>2. NeedsHuman(d) /\ d.actionType \in ActionTypes /\ ~MustBlock(d)
    BY <2>1 DEF NeedsHuman, ActionTypes, MustBlock, Database
  <2>3. EvaluateAgentAction(d).decision # "block"
    BY <2>2, BlockedMustBe
  <2> QED BY <2>1, <2>2, <2>3, NeedsHumanIsHeld
<1>5. CASE id = "npm_install"
  <2>1. d.actionType = "package_install" /\ Presets[id].expected = "sandbox_required"
    BY <1>0, <1>5 DEF Presets, Preset
  <2>2. Applies(DefaultRules[18], d)
    BY <2>1, RulesOfOthers DEF Applies
  <2>3. PICK f \in 1 .. 18 : EvaluateAgentAction(d) = DefaultRules[f] /\ Applies(DefaultRules[f], d)
    BY SMTT(60), <2>2, FirstRule
  <2>4. f = 18
    BY <2>1, <2>3, RulesOfOthers DEF Applies
  <2> QED BY <2>1, <2>3, <2>4, RuleDecisions DEF ActionTypes
<1>6. CASE id = "edit_auth"
  <2>1. d.actionType = "file_access" /\ d.tells = {"writes"} /\ Presets[id].expected = "restore_point_required"
    BY <1>0, <1>6 DEF Presets, Preset
  <2>2. Applies(DefaultRules[10], d)
    BY <2>1, RulesOfFiles DEF Applies
  <2>3. PICK f \in 1 .. 10 : EvaluateAgentAction(d) = DefaultRules[f] /\ Applies(DefaultRules[f], d)
    BY SMTT(60), <2>2, FirstRule
  <2>4. f = 10
    BY <2>1, <2>3, RulesOfFiles DEF Applies, Always
  <2> QED BY <2>1, <2>3, <2>4, RuleDecisions DEF ActionTypes
<1>7. CASE id = "git_status"
  <2>1. d.actionType = "shell_command" /\ d.tells = {"readOnly"} /\ Presets[id].expected = "allow"
    BY <1>0, <1>7 DEF Presets, Preset
  <2>2. Applies(DefaultRules[12], d)
    BY <2>1, RulesOfShells DEF Applies
  <2>3. PICK f \in 1 .. 12 : EvaluateAgentAction(d) = DefaultRules[f] /\ Applies(DefaultRules[f], d)
    BY SMTT(60), <2>2, FirstRule
  <2>4. f = 12
    BY <2>1, <2>3, RulesOfShells DEF Applies, Always
  <2> QED BY <2>1, <2>3, <2>4, RuleDecisions DEF ActionTypes
<1>8. id \in {"read_env", "rm_root", "force_push", "deploy", "refund", "npm_install", "edit_auth", "git_status"}
  BY DEF Presets
<1> QED BY <1>1, <1>2, <1>3, <1>4, <1>5, <1>6, <1>7, <1>8

(* A lit chip is that of the draft as it was picked.                       *)
PlaygroundInv ==
  /\ draft.actionType \in ActionTypes
  /\ presetId # NoPreset => presetId \in DOMAIN Presets /\ draft = ToDraft(Presets[presetId])

LEMMA PlaygroundStep ==
  /\ PlaygroundInit => PlaygroundInv
  /\ PlaygroundInv /\ [PlaygroundNext]_playgroundVars => PlaygroundInv'
<1>1. PlaygroundInit => PlaygroundInv
  <2>1. "read_env" \in DOMAIN Presets
    BY DEF Presets
  <2> QED BY <2>1, PresetsAreRight DEF PlaygroundInit, PlaygroundInv
<1>2. ASSUME NEW id \in DOMAIN Presets, Pick(id) PROVE PlaygroundInv'
  BY <1>2, PresetsAreRight DEF Pick, PlaygroundInv
<1>3. ASSUME NEW type \in ActionTypes, NEW tells, EditDraft(type, tells) PROVE PlaygroundInv'
  BY <1>3 DEF EditDraft, PlaygroundInv
<1>4. ASSUME PlaygroundInv, UNCHANGED playgroundVars PROVE PlaygroundInv'
  BY <1>4 DEF playgroundVars, PlaygroundInv
<1> QED BY <1>1, <1>2, <1>3, <1>4 DEF PlaygroundNext

(* The floor holds under any policies and in any state of the playground:  *)
(* the decision table of agentwingPolicy.ts keeps the guarantees of        *)
(* tests/policy/decision-table.test.ts for every action of every type.     *)
THEOREM FloorSafety == ToolCallsSpec /\ PlaygroundSpec => []DecisionsKeepTheFloor
<1>1. ToolCallsInit => CallInv
  BY CallInit
<1>2. CallInv /\ [ToolCallsNext]_toolCallVars => CallInv'
  BY CallStep
<1>3. PlaygroundInit => PlaygroundInv
  BY PlaygroundStep
<1>4. PlaygroundInv /\ [PlaygroundNext]_playgroundVars => PlaygroundInv'
  BY PlaygroundStep
<1>5. PlaygroundInv => GuaranteesHold /\ PresetsShowWhatTheySay
  <2> SUFFICES ASSUME PlaygroundInv PROVE GuaranteesHold /\ PresetsShowWhatTheySay
    OBVIOUS
  <2>1. draft.actionType \in ActionTypes
    BY DEF PlaygroundInv
  <2>2. MustBlock(draft) => Shown = "block"
    BY MustBlockIsMandatory DEF Shown
  <2>3. NeedsHuman(draft) => Shown \in {"block", "approval_required"}
    BY <2>1, NeedsHumanIsHeld DEF Shown
  <2>4. NeedsCare(draft) => Shown # "allow"
    BY <2>1, NeedsCareIsTaken DEF Shown
  <2>5. PresetsShowWhatTheySay
    BY PresetsAreRight DEF PlaygroundInv, PresetsShowWhatTheySay, Shown
  <2> QED BY <2>2, <2>3, <2>4, <2>5 DEF GuaranteesHold
<1>6. CallInv /\ PlaygroundInv => DecisionsKeepTheFloor
  BY <1>5 DEF CallInv, PolicyInv, DecisionsKeepTheFloor
<1> QED BY <1>1, <1>2, <1>3, <1>4, <1>6, PTL DEF ToolCallsSpec, PlaygroundSpec

-----------------------------------------------------------------------------
(* The pages: what is known of their rows and of each request under way.   *)
CallRecords ==
  [op : {"none", "projects", "list", "create", "toggle", "delete", "revoke", "edit", "refresh"},
   stage : {"idle", "sent", "answered", "refused"},
   id : Rows \cup {NoRow}, of : Rows \cup {NoRow}, project : ListProjects \cup {All},
   arg : {"none", "on", "off", "shown"} \cup Texts, rows : SUBSET ListedRows, alone : BOOLEAN]

(* What a request carries, by what it asks, and on which page it is made.  *)
CallIsShaped(c) ==
  /\ call[c].stage = "idle" <=> call[c].op = "none"
  /\ call[c].stage = "idle" => call[c] = Idle
  /\ call[c].op \in {"toggle", "delete", "edit", "revoke"} => call[c].id \in Rows
  /\ call[c].op = "create" =>
       /\ call[c].arg = "created"
       /\ call[c].stage = "answered" => call[c].id \in Rows
  /\ call[c].op = "edit" => call[c].arg = "edited"
  /\ call[c].op = "toggle" => call[c].arg \in {"on", "off"}
  /\ call[c].op \in {"toggle", "delete", "edit", "refresh"} => page = "policies"
  /\ call[c].op = "revoke" => page = "keys"
  /\ call[c].op = "projects" => page # "projects"

CallsAreShaped == \A c \in PanelCalls : CallIsShaped(c)

RowsAreWhole == \A i \in Rows : table[i] # Gone => table[i].on # "gone" /\ table[i].text \in Texts

PagesAreShaped ==
  /\ CallsAreShaped /\ RowsAreWhole
  /\ page = "projects" => selected = All /\ projects = {}
  /\ page # "keys" => newKey = NoRow
  /\ page # "policies" => ~form.open

Busy(c) == Under(c) /\ call[c].op # "projects"

(* A list that is fetched alone will show what is stored.                  *)
AloneIsAlone(c) ==
  Busy(c) /\ call[c].alone =>
    /\ \A d \in PanelCalls : Busy(d) => d = c
    /\ call[c].op = "list" =>
         /\ call[c].project = selected
         /\ call[c].stage = "answered" => call[c].rows = RowsOf(selected)

Toggled(i) == {IF r.id = i THEN [r EXCEPT !.on = IF @ = "on" THEN "off" ELSE "on"] ELSE r : r \in shown}

(* Without a doubt, what the answer will do to the page is what the        *)
(* request did to the table.                                               *)
AnswerFits(c) ==
  /\ call[c].op \in {"create", "edit", "refresh"} => call[c].project = selected
  /\ call[c].stage \in {"sent", "refused"} /\ call[c].op \notin {"list", "refresh"} => shown = RowsOf(selected)
  /\ call[c].stage = "sent" /\ call[c].op = "toggle" =>
       \E r \in shown : r.id = call[c].id /\ call[c].arg = IF r.on = "on" THEN "off" ELSE "on"
  /\ call[c].stage = "answered" =>
       /\ call[c].op = "create" => RowsOf(selected) = shown \cup {CreatedRow(c)}
       /\ call[c].op = "toggle" => RowsOf(selected) = Toggled(call[c].id)
       /\ call[c].op = "delete" => RowsOf(selected) = {r \in shown : r.id # call[c].id}
       /\ call[c].op = "revoke" => RowsOf(selected) = WithOn(call[c].id, "off")
       /\ call[c].op = "refresh" => call[c].rows = RowsOf(selected)

NoDoubt ==
  ~doubt =>
    /\ \A c \in PanelCalls : Busy(c) => call[c].alone /\ AnswerFits(c)
    /\ (\A c \in PanelCalls : ~Busy(c)) => shown = RowsOf(selected)

(* The form holds the fields of the policy that it saves.                  *)
FormIsOfItsRow ==
  page = "policies" =>
    /\ form.editing = form.of
    /\ \A c \in PanelCalls : call[c].op \in {"create", "edit"} /\ call[c].stage = "sent" => call[c].id = call[c].of

Arriving(c, i) == call[c].op = "create" /\ call[c].stage = "answered" /\ call[c].id = i

(* A key is new once: its text comes with one answer, and a revocation     *)
(* that is asked for under it takes it off the screen.                     *)
KeysComeOnce ==
  page = "keys" =>
    /\ newKey # NoRow => table[newKey] # Gone /\ \A c \in PanelCalls : ~Arriving(c, newKey)
    /\ \A c \in PanelCalls, i \in Rows : Arriving(c, i) => table[i] # Gone
    /\ \A c, d \in PanelCalls, i \in Rows : Arriving(c, i) /\ Arriving(d, i) => c = d
    /\ \A c \in PanelCalls : call[c].op = "revoke" /\ call[c].id \notin unseen =>
         /\ call[c].arg = "shown" /\ table[call[c].id] # Gone
         /\ \A d \in PanelCalls : ~Arriving(d, call[c].id)
    /\ \A i \in Rows : table[i].on = "off" /\ i \notin unseen =>
         \/ \E c \in PanelCalls : call[c].op = "revoke" /\ call[c].stage = "answered" /\ call[c].id = i
         \/ newKey # i /\ \A c \in PanelCalls : ~Arriving(c, i)

(* The rest of the page, beside the requests under way.                    *)
StateIsTyped ==
  /\ page \in {"keys", "policies", "projects"} /\ role \in Members
  /\ table \in [Rows -> [project : ListProjects \cup {All}, on : {"on", "off", "gone"}, text : Texts \cup {"none"}]]
  /\ projects \subseteq ListProjects /\ selected \in ListProjects \cup {All}
  /\ shown \subseteq ListedRows
  /\ form \in [open : BOOLEAN, editing : Rows \cup {NoRow}, of : Rows \cup {NoRow}]
  /\ saving \in BOOLEAN /\ doubt \in BOOLEAN
  /\ revoking \in Rows \cup {NoRow} /\ newKey \in Rows \cup {NoRow}
  /\ unseen \subseteq Rows

Calls == call \in [PanelCalls -> CallRecords]

ListsTell == (\A c \in PanelCalls : AloneIsAlone(c)) /\ NoDoubt

ListInv ==
  /\ StateIsTyped /\ Calls /\ PagesAreShaped
  /\ ListsTell /\ FormIsOfItsRow /\ KeysComeOnce

-----------------------------------------------------------------------------
(* Requests: what sending, answering and finishing one leave the others.   *)
Like(d) ==
  /\ call'[d].op = call[d].op /\ call'[d].stage = call[d].stage /\ call'[d].id = call[d].id
  /\ call'[d].of = call[d].of /\ call'[d].project = call[d].project /\ call'[d].arg = call[d].arg
  /\ call'[d].rows = call[d].rows

LEMMA ListTypes == ListPanelsTypeOK <=> StateIsTyped /\ Calls
BY DEF ListPanelsTypeOK, StateIsTyped, Calls, CallRecords

LEMMA IdleIsACall == Idle \in CallRecords
BY DEF Idle, CallRecords

LEMMA SentCalls ==
  ASSUME Calls, NEW c \in PanelCalls, NEW request \in CallRecords, Sent(c, request), page' = page
  PROVE  /\ Calls'
         /\ call'[c].stage = "sent" /\ call'[c].op = request.op /\ call'[c].id = request.id
         /\ call'[c].of = request.of /\ call'[c].project = request.project /\ call'[c].arg = request.arg
         /\ call'[c].alone = (Competing(c) = {})
         /\ \A d \in PanelCalls \ {c} :
              Like(d) /\ (Under(d) => ~call'[d].alone) /\ (~Under(d) => call'[d] = call[d])
<1> DEFINE new == [request EXCEPT !.stage = "sent", !.alone = Competing(c) = {}]
<1>1. /\ new \in CallRecords /\ new.stage = "sent" /\ new.op = request.op /\ new.id = request.id
      /\ new.of = request.of /\ new.project = request.project /\ new.arg = request.arg
  BY DEF CallRecords
<1>2. new.alone = (Competing(c) = {})
  BY DEF CallRecords
<1>3. /\ call'[c] = new
      /\ \A d \in PanelCalls \ {c} : call'[d] = IF Under(d) THEN [call[d] EXCEPT !.alone = FALSE] ELSE call[d]
      /\ call' = [d \in PanelCalls |-> call'[d]]
  BY DEF Sent
<1>4. ASSUME NEW d \in PanelCalls \ {c}
      PROVE  /\ Like(d) /\ call'[d] \in CallRecords
             /\ (Under(d) => ~call'[d].alone) /\ (~Under(d) => call'[d] = call[d])
  <2>1. call[d] \in CallRecords
    BY DEF Calls
  <2>2. CASE Under(d)
    <3>1. call'[d] = [call[d] EXCEPT !.alone = FALSE]
      BY <1>3, <2>2
    <3> QED BY <2>1, <2>2, <3>1 DEF Like, CallRecords
  <2>3. CASE ~Under(d)
    BY <1>3, <2>1, <2>3 DEF Like
  <2> QED BY <2>2, <2>3
<1>5. CallRecords' = CallRecords
  BY DEF CallRecords, ListedRows, Rows
<1> HIDE DEF new
<1>6. Calls'
  BY <1>1, <1>3, <1>4, <1>5 DEF Calls
<1> QED BY <1>1, <1>2, <1>3, <1>4, <1>6

LEMMA RepliedCalls ==
  ASSUME Calls, NEW c \in PanelCalls, NEW stage \in {"answered", "refused"}, NEW id \in Rows \cup {NoRow},
         NEW rows \in SUBSET ListedRows, Reply(c, stage, id, rows), page' = page
  PROVE  /\ Calls'
         /\ call'[c].stage = stage /\ call'[c].id = id /\ call'[c].rows = rows
         /\ call'[c].op = call[c].op /\ call'[c].of = call[c].of /\ call'[c].project = call[c].project
         /\ call'[c].arg = call[c].arg /\ call'[c].alone = call[c].alone
         /\ \A d \in PanelCalls \ {c} : call'[d] = call[d]
<1>1. call[c] \in CallRecords /\ CallRecords' = CallRecords
  BY DEF Calls, CallRecords, ListedRows, Rows
<1>2. call' = [call EXCEPT ![c].stage = stage, ![c].id = id, ![c].rows = rows]
  BY DEF Reply
<1>3. call'[c] = [call[c] EXCEPT !.stage = stage, !.id = id, !.rows = rows]
  BY <1>2 DEF Calls
<1>4. /\ call'[c] \in CallRecords
      /\ call'[c].stage = stage /\ call'[c].id = id /\ call'[c].rows = rows
      /\ call'[c].op = call[c].op /\ call'[c].of = call[c].of /\ call'[c].project = call[c].project
      /\ call'[c].arg = call[c].arg /\ call'[c].alone = call[c].alone
  <2> DEFINE k == call[c]
  <2>1. k \in CallRecords /\ call'[c] = [[[k EXCEPT !.stage = stage] EXCEPT !.id = id] EXCEPT !.rows = rows]
    BY <1>1, <1>3
  <2> HIDE DEF k
  <2> DEFINE k1 == [k EXCEPT !.stage = stage]
             k2 == [k1 EXCEPT !.id = id]
  <2>2. /\ k1 \in CallRecords /\ k1.stage = stage /\ k1.id = k.id /\ k1.rows = k.rows
        /\ k1.op = k.op /\ k1.of = k.of /\ k1.project = k.project /\ k1.arg = k.arg /\ k1.alone = k.alone
    BY <2>1 DEF CallRecords
  <2> HIDE DEF k1
  <2>3. /\ k2 \in CallRecords /\ k2.stage = k1.stage /\ k2.id = id /\ k2.rows = k1.rows
        /\ k2.op = k1.op /\ k2.of = k1.of /\ k2.project = k1.project /\ k2.arg = k1.arg /\ k2.alone = k1.alone
    BY <2>2 DEF CallRecords
  <2> HIDE DEF k2
  <2>4. /\ [k2 EXCEPT !.rows = rows] \in CallRecords
        /\ LET k3 == [k2 EXCEPT !.rows = rows]
           IN  /\ k3.stage = k2.stage /\ k3.id = k2.id /\ k3.rows = rows
               /\ k3.op = k2.op /\ k3.of = k2.of /\ k3.project = k2.project /\ k3.arg = k2.arg /\ k3.alone = k2.alone
    BY <2>3 DEF CallRecords
  <2>5. call'[c] = [k2 EXCEPT !.rows = rows]
    BY <2>1 DEF k1, k2
  <2> QED BY <2>2, <2>3, <2>4, <2>5 DEF k
<1>5. \A d \in PanelCalls \ {c} : call'[d] = call[d]
  BY <1>2 DEF Calls
<1>6. Calls'
  <2>1. call' = [d \in PanelCalls |-> call'[d]]
    BY <1>2 DEF Calls
  <2>2. \A d \in PanelCalls : call'[d] \in CallRecords
    BY <1>4, <1>5 DEF Calls
  <2> QED BY <1>1, <2>1, <2>2 DEF Calls
<1> QED BY <1>4, <1>5, <1>6

LEMMA FinishedCalls ==
  ASSUME Calls, NEW c \in PanelCalls, Finish(c), page' = page
  PROVE  Calls' /\ call'[c] = Idle /\ \A d \in PanelCalls \ {c} : call'[d] = call[d]
<1>1. CallRecords' = CallRecords
  BY DEF CallRecords, ListedRows, Rows
<1> QED BY <1>1, IdleIsACall DEF Calls, Finish

-----------------------------------------------------------------------------
(* What an answer will tell, by what becomes of its request.               *)
LEMMA SameRows == ASSUME page' = page, table' = table PROVE \A project : RowsOf(project)' = RowsOf(project)
BY DEF RowsOf, Rows

LEMMA SentTells ==
  ASSUME Calls, ListsTell, NEW c \in PanelCalls, NEW request \in CallRecords, Sent(c, request), ~Busy(c),
         page' = page, table' = table, shown' = shown,
         request.op \in {"list", "create", "toggle", "delete", "revoke", "edit"},
         request.op = "list" => request.project = selected',
         request.op # "list" => selected' = selected,
         request.op \in {"create", "edit"} => request.project = selected,
         request.op = "toggle" =>
           \E r \in shown : r.id = request.id /\ request.arg = IF r.on = "on" THEN "off" ELSE "on"
  PROVE  ListsTell'
<1>1. /\ call'[c].stage = "sent" /\ call'[c].op = request.op /\ call'[c].id = request.id
      /\ call'[c].project = request.project /\ call'[c].arg = request.arg
      /\ call'[c].alone = (Competing(c) = {})
      /\ \A d \in PanelCalls \ {c} :
           Like(d) /\ (Under(d) => ~call'[d].alone) /\ (~Under(d) => call'[d] = call[d])
  BY SentCalls
<1>2. doubt' = (doubt \/ Competing(c) # {})
  BY DEF Sent
<1>3. \A d \in PanelCalls \ {c} : Busy(d)' <=> Busy(d)
  BY <1>1 DEF Busy, Under, Like
<1>4. \A d \in PanelCalls \ {c} : Busy(d) => d \in Competing(c)
  BY DEF Busy, Competing
<1>5. ASSUME NEW d \in PanelCalls PROVE AloneIsAlone(d)'
  <2>1. CASE d # c
    <3>1. Busy(d)' => ~call'[d].alone
      BY <1>1, <1>3, <2>1 DEF Busy
    <3> QED BY <3>1 DEF AloneIsAlone
  <2>2. CASE d = c
    <3>1. call'[c].alone => \A e \in PanelCalls : Busy(e)' => e = c
      BY <1>1, <1>3, <1>4
    <3> QED BY <1>1, <2>2, <3>1 DEF AloneIsAlone
  <2> QED BY <2>1, <2>2
<1>6. NoDoubt'
  <2> SUFFICES ASSUME ~doubt'
               PROVE  /\ \A d \in PanelCalls : Busy(d)' => call'[d].alone /\ AnswerFits(d)'
                      /\ (\A d \in PanelCalls : ~Busy(d)') => shown' = RowsOf(selected)'
    BY DEF NoDoubt
  <2>1. ~doubt /\ Competing(c) = {}
    BY <1>2
  <2>2. \A d \in PanelCalls : ~Busy(d)
    BY <1>4, <2>1
  <2>3. shown = RowsOf(selected)
    BY <2>1, <2>2 DEF ListsTell, NoDoubt
  <2>4. Busy(c)' /\ call'[c].alone
    BY <1>1, <2>1 DEF Busy, Under
  <2>5. AnswerFits(c)'
    <3>1. request.op # "list" => shown' = RowsOf(selected)'
      BY <2>3, SameRows
    <3> QED BY <1>1, <3>1 DEF AnswerFits
  <2>6. \A d \in PanelCalls \ {c} : ~Busy(d)'
    BY <1>3, <2>2
  <2> QED BY <2>4, <2>5, <2>6
<1> QED BY <1>5, <1>6 DEF ListsTell

(* A request that ends: where nothing is in doubt, what it did is shown.   *)
LEMMA FinishTells ==
  ASSUME Calls, ListsTell, NEW c \in PanelCalls, Finish(c), page' = page, table' = table, selected' = selected,
         ~Busy(c) => doubt' = doubt /\ shown' = shown,
         Busy(c) /\ ~doubt' => /\ ~doubt \/ call[c].alone
                               /\ shown' = RowsOf(selected)
  PROVE  ListsTell'
<1>1. call'[c] = Idle /\ \A d \in PanelCalls \ {c} : call'[d] = call[d]
  BY FinishedCalls
<1>2. ~Busy(c)' /\ \A d \in PanelCalls \ {c} : Busy(d)' <=> Busy(d)
  BY <1>1 DEF Busy, Under, Idle
<1>3. RowsOf(selected)' = RowsOf(selected)
  BY SameRows
<1>4. ASSUME NEW d \in PanelCalls PROVE AloneIsAlone(d)'
  BY <1>1, <1>2, <1>3 DEF ListsTell, AloneIsAlone
<1>5. NoDoubt'
  <2> SUFFICES ASSUME ~doubt'
               PROVE  /\ \A d \in PanelCalls : Busy(d)' => call'[d].alone /\ AnswerFits(d)'
                      /\ (\A d \in PanelCalls : ~Busy(d)') => shown' = RowsOf(selected)'
    BY DEF NoDoubt
  <2>1. CASE Busy(c)
    <3>1. call[c].alone
      BY <2>1 DEF ListsTell, NoDoubt
    <3>2. \A d \in PanelCalls : Busy(d) => d = c
      BY <2>1, <3>1 DEF ListsTell, AloneIsAlone
    <3> QED BY <1>2, <1>3, <2>1, <3>2
  <2>2. CASE ~Busy(c)
    <3>1. ~doubt /\ shown' = shown
      BY <2>2
    <3>2. ASSUME NEW d \in PanelCalls, Busy(d)' PROVE call'[d].alone /\ AnswerFits(d)'
      <4>1. d # c /\ Busy(d) /\ call'[d] = call[d]
        BY <1>1, <1>2, <3>2
      <4>2. call[d].alone /\ AnswerFits(d)
        BY <3>1, <4>1 DEF ListsTell, NoDoubt
      <4> QED BY <1>3, <3>1, <4>1, <4>2 DEF AnswerFits, CreatedRow, Toggled, WithOn
    <3>3. (\A d \in PanelCalls : ~Busy(d)') => shown' = RowsOf(selected)'
      BY <1>2, <1>3, <2>2, <3>1 DEF ListsTell, NoDoubt
    <3> QED BY <3>2, <3>3
  <2> QED BY <2>1, <2>2
<1> QED BY <1>4, <1>5 DEF ListsTell

(* The server answers: it reads, or it writes and says so.                 *)
LEMMA ReplyTells ==
  ASSUME Calls, ListsTell, NEW c \in PanelCalls, NEW stage \in {"answered", "refused"}, NEW id \in Rows \cup {NoRow},
         NEW rows \in SUBSET ListedRows, Arrived(c), Reply(c, stage, id, rows),
         page' = page, selected' = selected, shown' = shown, doubt' = doubt,
         table' = table \/ call[c].op \in {"create", "toggle", "edit", "delete", "revoke"},
         call[c].op = "list" /\ stage = "answered" => rows = RowsOf(call[c].project),
         Busy(c) /\ AnswerFits(c) => AnswerFits(c)'
  PROVE  ListsTell'
<1>1. /\ call'[c].stage = stage /\ call'[c].rows = rows
      /\ call'[c].op = call[c].op /\ call'[c].project = call[c].project /\ call'[c].alone = call[c].alone
      /\ \A d \in PanelCalls \ {c} : call'[d] = call[d]
  BY RepliedCalls
<1>2. \A d \in PanelCalls : Busy(d)' <=> Busy(d)
  BY <1>1 DEF Busy, Under, Arrived
<1>3. table' = table \/ (Busy(c) /\ call[c].op # "list")
  BY DEF Busy, Under, Arrived
<1>4. ASSUME NEW d \in PanelCalls PROVE AloneIsAlone(d)'
  <2> SUFFICES ASSUME Busy(d)', call'[d].alone
               PROVE  /\ \A e \in PanelCalls : Busy(e)' => e = d
                      /\ call'[d].op = "list" =>
                           /\ call'[d].project = selected'
                           /\ call'[d].stage = "answered" => call'[d].rows = RowsOf(selected)'
    BY DEF AloneIsAlone
  <2>1. Busy(d) /\ call[d].alone
    BY <1>1, <1>2
  <2>2. \A e \in PanelCalls : Busy(e) => e = d
    BY <2>1 DEF ListsTell, AloneIsAlone
  <2>3. call[d].op = "list" =>
          /\ call[d].project = selected
          /\ call[d].stage = "answered" => call[d].rows = RowsOf(selected)
    BY <2>1 DEF ListsTell, AloneIsAlone
  <2>4. call'[d].op = call[d].op /\ call'[d].project = call[d].project
    BY <1>1
  <2>5. call[d].op = "list" => RowsOf(selected)' = RowsOf(selected)
    <3>1. call[d].op = "list" => table' = table
      BY <1>3, <2>2
    <3> QED BY <3>1, SameRows
  <2>6. CASE d = c
    BY <1>1, <1>2, <2>2, <2>3, <2>4, <2>5, <2>6
  <2>7. CASE d # c
    BY <1>1, <1>2, <2>2, <2>3, <2>4, <2>5, <2>7
  <2> QED BY <2>6, <2>7
<1>5. NoDoubt'
  <2> SUFFICES ASSUME ~doubt
               PROVE  /\ \A d \in PanelCalls : Busy(d)' => call'[d].alone /\ AnswerFits(d)'
                      /\ (\A d \in PanelCalls : ~Busy(d)') => shown' = RowsOf(selected)'
    BY DEF NoDoubt
  <2>1. CASE Busy(c)
    <3>1. call[c].alone /\ AnswerFits(c)
      BY <2>1 DEF ListsTell, NoDoubt
    <3>2. \A d \in PanelCalls : Busy(d) => d = c
      BY <2>1, <3>1 DEF ListsTell, AloneIsAlone
    <3> QED BY <1>1, <1>2, <2>1, <3>1, <3>2
  <2>2. CASE ~Busy(c)
    <3>1. RowsOf(selected)' = RowsOf(selected)
      BY <1>3, <2>2, SameRows
    <3>2. ASSUME NEW d \in PanelCalls, Busy(d)' PROVE call'[d].alone /\ AnswerFits(d)'
      <4>1. d # c /\ Busy(d) /\ call'[d] = call[d]
        BY <1>1, <1>2, <2>2, <3>2
      <4>2. call[d].alone /\ AnswerFits(d)
        BY <4>1 DEF ListsTell, NoDoubt
      <4> QED BY <3>1, <4>1, <4>2 DEF AnswerFits, CreatedRow, Toggled, WithOn
    <3>3. (\A d \in PanelCalls : ~Busy(d)') => shown' = RowsOf(selected)'
      BY <1>2, <3>1 DEF ListsTell, NoDoubt
    <3> QED BY <3>2, <3>3
  <2> QED BY <2>1, <2>2
<1> QED BY <1>4, <1>5 DEF ListsTell

-----------------------------------------------------------------------------
(* The three ways in which a step changes the requests.                    *)

LEMMA SentStep ==
  ASSUME ListInv, NEW c \in PanelCalls, NEW request \in CallRecords, Sent(c, request), ~Busy(c),
         page' = page, table' = table, shown' = shown, form' = form, newKey' = newKey, StateIsTyped',
         page = "projects" => selected' = All /\ projects' = {},
         request.op \in {"list", "create", "toggle", "delete", "revoke", "edit"},
         request.op = "list" => request.project = selected',
         request.op # "list" => selected' = selected,
         request.op \in {"create", "edit"} =>
           /\ request.project = selected /\ request.arg = WrittenBy(request.op)
           /\ page = "policies" => request.id = request.of,
         request.op \in {"toggle", "delete", "edit", "revoke"} => request.id \in Rows,
         request.op \in {"toggle", "delete", "edit"} => page = "policies",
         request.op = "toggle" =>
           \E r \in shown : r.id = request.id /\ request.arg = IF r.on = "on" THEN "off" ELSE "on",
         unseen \subseteq unseen',
         request.op = "revoke" =>
           page = "keys" /\ (request.id \notin unseen' => newKey = request.id /\ request.arg = "shown")
  PROVE  ListInv'
<1>1. /\ Calls'
      /\ call'[c].stage = "sent" /\ call'[c].op = request.op /\ call'[c].id = request.id
      /\ call'[c].of = request.of /\ call'[c].project = request.project /\ call'[c].arg = request.arg
      /\ \A d \in PanelCalls \ {c} : Like(d) /\ (~Under(d) => call'[d] = call[d])
  BY SentCalls DEF ListInv
<1>2. ListsTell'
  BY SentTells DEF ListInv
<1>3. CallsAreShaped'
  <2>1. CallIsShaped(c)'
    <3>1. request.op = "create" => request.arg = "created"
      BY DEF WrittenBy
    <3>2. request.op = "edit" => request.arg = "edited"
      BY DEF WrittenBy
    <3>3. request.op = "toggle" => request.arg \in {"on", "off"}
      OBVIOUS
    <3>4. Rows' = Rows
      BY DEF Rows
    <3> QED BY <1>1, <3>1, <3>2, <3>3, <3>4 DEF CallIsShaped
  <2>2. ASSUME NEW d \in PanelCalls \ {c} PROVE CallIsShaped(d)'
    <3>1. CallIsShaped(d) /\ Rows' = Rows
      BY DEF ListInv, PagesAreShaped, CallsAreShaped, Rows
    <3>2. CASE Under(d)
      <4>1. Like(d) /\ call[d].stage # "idle"
        BY <1>1, <3>2 DEF Under
      <4> QED BY <3>1, <4>1 DEF CallIsShaped, Like
    <3>3. CASE ~Under(d)
      <4>1. call'[d] = call[d]
        BY <1>1, <3>3
      <4> QED BY <3>1, <4>1 DEF CallIsShaped
    <3> QED BY <3>2, <3>3
  <2> QED BY <2>1, <2>2 DEF CallsAreShaped
<1>4. PagesAreShaped'
  BY <1>3 DEF ListInv, PagesAreShaped, RowsAreWhole, Rows
<1>5. FormIsOfItsRow'
  BY <1>1 DEF ListInv, FormIsOfItsRow, Like
<1>6. KeysComeOnce'
  <2> SUFFICES ASSUME page = "keys" PROVE KeysComeOnce'
    BY DEF KeysComeOnce
  <2>1. \A d \in PanelCalls, i \in Rows \cup {NoRow} : Arriving(d, i)' => Arriving(d, i)
    BY <1>1 DEF Arriving, Like
  <2>2. \A i \in Rows : table'[i] = table[i]
    OBVIOUS
  <2>3. newKey # NoRow => newKey \in Rows
    BY DEF ListInv, StateIsTyped
  <2>4. ASSUME NEW d \in PanelCalls, call'[d].op = "revoke", call'[d].id \notin unseen'
        PROVE  /\ call'[d].arg = "shown" /\ table[call'[d].id] # Gone
               /\ \A e \in PanelCalls : ~Arriving(e, call'[d].id)
    <3>1. CASE d = c
      <4>1. newKey = request.id /\ request.id \in Rows /\ request.arg = "shown"
        BY <1>1, <2>4, <3>1
      <4>2. NoRow \notin Rows
        BY ListPanelsAssumption DEF Rows
      <4> QED BY <1>1, <3>1, <4>1, <4>2 DEF ListInv, KeysComeOnce
    <3>2. CASE d # c
      <4>1. call[d].op = "revoke" /\ call'[d].id = call[d].id /\ call'[d].arg = call[d].arg
        BY <1>1, <2>4, <3>2 DEF Like
      <4> QED BY <2>4, <4>1 DEF ListInv, KeysComeOnce
    <3> QED BY <3>1, <3>2
  <2>5. ASSUME NEW d \in PanelCalls, call[d].op = "revoke", call[d].stage = "answered"
        PROVE  call'[d].op = "revoke" /\ call'[d].stage = "answered" /\ call'[d].id = call[d].id
    BY <1>1, <2>5 DEF Busy, Under, Like
  <2>6. ASSUME NEW i \in Rows, table[i].on = "off", i \notin unseen'
        PROVE  \/ \E d \in PanelCalls : call'[d].op = "revoke" /\ call'[d].stage = "answered" /\ call'[d].id = i
               \/ newKey # i /\ \A d \in PanelCalls : ~Arriving(d, i)'
    BY <2>1, <2>5, <2>6 DEF ListInv, KeysComeOnce
  <2>7. /\ newKey # NoRow => table[newKey] # Gone /\ \A d \in PanelCalls : ~Arriving(d, newKey)'
        /\ \A d \in PanelCalls, i \in Rows : Arriving(d, i)' => table[i] # Gone
        /\ \A d, e \in PanelCalls, i \in Rows : Arriving(d, i)' /\ Arriving(e, i)' => d = e
    BY <2>1, <2>3 DEF ListInv, KeysComeOnce
  <2>8. Rows' = Rows
    BY DEF Rows
  <2>9. \A d \in PanelCalls : call'[d].id \in Rows \cup {NoRow}
    BY <1>1, <2>8 DEF Calls, CallRecords
  <2> QED BY <2>1, <2>4, <2>6, <2>7, <2>8, <2>9 DEF KeysComeOnce, Arriving
<1> QED BY <1>1, <1>2, <1>4, <1>5, <1>6 DEF ListInv

LEMMA FinishStep ==
  ASSUME ListInv, NEW c \in PanelCalls, Finish(c),
         page' = page, table' = table, selected' = selected, projects' = projects, StateIsTyped',
         ~Busy(c) => doubt' = doubt /\ shown' = shown,
         Busy(c) /\ ~doubt' => (~doubt \/ call[c].alone) /\ shown' = RowsOf(selected),
         page # "keys" => newKey' = NoRow,
         page = "policies" => form'.editing = form'.of,
         page # "policies" => ~form'.open,
         KeysComeOnce'
  PROVE  ListInv'
<1>1. Calls' /\ call'[c] = Idle /\ \A d \in PanelCalls \ {c} : call'[d] = call[d]
  BY FinishedCalls DEF ListInv
<1>2. ListsTell'
  BY FinishTells DEF ListInv
<1>3. CallsAreShaped'
  <2>1. CallIsShaped(c)'
    BY <1>1 DEF CallIsShaped, Idle
  <2>2. ASSUME NEW d \in PanelCalls \ {c} PROVE CallIsShaped(d)'
    <3>1. CallIsShaped(d) /\ Rows' = Rows /\ call'[d] = call[d]
      BY <1>1 DEF ListInv, PagesAreShaped, CallsAreShaped, Rows
    <3> QED BY <3>1 DEF CallIsShaped
  <2> QED BY <2>1, <2>2 DEF CallsAreShaped
<1>4. PagesAreShaped'
  BY <1>3 DEF ListInv, PagesAreShaped, RowsAreWhole, Rows
<1>5. FormIsOfItsRow'
  BY <1>1 DEF ListInv, FormIsOfItsRow, Idle
<1> QED BY <1>1, <1>2, <1>4, <1>5 DEF ListInv

(* A request that ends without a word of keys.                             *)
LEMMA FinishKeys ==
  ASSUME ListInv, NEW c \in PanelCalls, Finish(c), page' = page, table' = table, newKey' = newKey,
         unseen \subseteq unseen', call[c].op = "revoke" => call[c].id \in unseen'
  PROVE  KeysComeOnce'
<1> SUFFICES ASSUME page = "keys" PROVE KeysComeOnce'
  BY DEF KeysComeOnce
<1>1. call'[c] = Idle /\ \A d \in PanelCalls \ {c} : call'[d] = call[d]
  BY FinishedCalls DEF ListInv
<1>2. \A d \in PanelCalls : call'[d].op \in {"create", "revoke"} => d # c /\ call'[d] = call[d]
  BY <1>1 DEF Idle
<1>3. \A d \in PanelCalls : \A i : Arriving(d, i)' => Arriving(d, i)
  BY <1>2 DEF Arriving
<1>4. \A d \in PanelCalls : call[d].op = "revoke" /\ call[d].id \notin unseen' => call'[d] = call[d]
  BY <1>1
<1> QED BY <1>2, <1>3, <1>4 DEF ListInv, KeysComeOnce, Rows

LEMMA ReplyStep ==
  ASSUME ListInv, NEW c \in PanelCalls, NEW stage \in {"answered", "refused"}, NEW id \in Rows \cup {NoRow},
         NEW rows \in SUBSET ListedRows, Arrived(c), Reply(c, stage, id, rows), UNCHANGED serverLeaves,
         StateIsTyped', RowsAreWhole',
         table' = table \/ call[c].op \in {"create", "toggle", "edit", "delete", "revoke"},
         call[c].op = "create" /\ stage = "answered" => id \in Rows,
         call[c].op \in {"toggle", "delete", "edit", "revoke"} => id = call[c].id,
         call[c].op = "list" /\ stage = "answered" => rows = RowsOf(call[c].project),
         Busy(c) /\ AnswerFits(c) => AnswerFits(c)',
         KeysComeOnce'
  PROVE  ListInv'
<1>1. /\ Calls'
      /\ call'[c].stage = stage /\ call'[c].id = id
      /\ call'[c].op = call[c].op /\ call'[c].arg = call[c].arg
      /\ \A d \in PanelCalls \ {c} : call'[d] = call[d]
  BY RepliedCalls DEF ListInv, serverLeaves
<1>2. ListsTell'
  BY ReplyTells DEF ListInv, serverLeaves
<1>3. CallsAreShaped'
  <2>1. CallIsShaped(c)'
    BY <1>1 DEF ListInv, PagesAreShaped, CallsAreShaped, CallIsShaped, Arrived, serverLeaves, Rows
  <2>2. ASSUME NEW d \in PanelCalls \ {c} PROVE CallIsShaped(d)'
    <3>1. call'[d] = call[d] /\ page' = page /\ Rows' = Rows
      BY <1>1 DEF serverLeaves, Rows
    <3>2. CallIsShaped(d)
      BY DEF ListInv, PagesAreShaped, CallsAreShaped
    <3> QED BY <3>1, <3>2 DEF CallIsShaped
  <2> QED BY <2>1, <2>2 DEF CallsAreShaped
<1>4. PagesAreShaped'
  BY <1>3 DEF ListInv, PagesAreShaped, RowsAreWhole, Rows, serverLeaves
<1>5. FormIsOfItsRow'
  BY <1>1 DEF ListInv, FormIsOfItsRow, serverLeaves
<1> QED BY <1>1, <1>2, <1>4, <1>5 DEF ListInv

-----------------------------------------------------------------------------
(* What the reader of the page does.                                       *)

LEMMA NoRowIsNoRow == ASSUME ListInv PROVE NoRow \notin Rows
BY ListPanelsAssumption DEF ListInv, StateIsTyped, Rows

LEMMA SentDoubt == ASSUME NEW c, NEW request, Sent(c, request) PROVE doubt' \in BOOLEAN
<1>1. doubt' = (doubt \/ Competing(c) # {})
  BY DEF Sent
<1>2. (doubt \/ Competing(c) # {}) \in BOOLEAN
  OBVIOUS
<1> QED BY Zenon, <1>1, <1>2

LEMMA SelectStep ==
  ASSUME ListInv, NEW c \in PanelCalls, NEW p \in ListProjects \cup {All}, SelectProject(c, p) PROVE ListInv'
<1>1. /\ p \in projects \cup {All} /\ p # selected /\ selected' = p
      /\ call[c] = Idle /\ Sent(c, List(p))
      /\ page' = page /\ role' = role /\ table' = table /\ projects' = projects /\ shown' = shown /\ form' = form
      /\ saving' = saving /\ revoking' = revoking /\ newKey' = newKey /\ unseen' = unseen
  BY DEF SelectProject, Send
<1>2. List(p) \in CallRecords /\ List(p).op = "list" /\ List(p).project = p
  BY DEF List, Idle, CallRecords, Texts
<1>3. StateIsTyped'
  BY <1>1, SentDoubt DEF ListInv, StateIsTyped, Rows, ListedRows
<1>4. ~Busy(c)
  BY <1>1 DEF Busy, Under, Idle
<1>5. page # "projects"
  BY <1>1 DEF ListInv, PagesAreShaped
<1> QED BY <1>1, <1>2, <1>3, <1>4, <1>5, SentStep

LEMMA CreateRequestStep ==
  ASSUME ListInv, NEW c \in PanelCalls, GenerateKey(c) \/ CreateNewProject(c) PROVE ListInv'
<1>1. PICK request :
        /\ page \in {"keys", "projects"} /\ call[c] = Idle /\ Sent(c, request)
        /\ page' = page /\ role' = role /\ table' = table /\ projects' = projects /\ shown' = shown /\ form' = form
        /\ saving' = saving /\ revoking' = revoking /\ newKey' = newKey /\ unseen' = unseen /\ selected' = selected
        /\ \/ request = [Idle EXCEPT !.op = "create", !.project = selected, !.arg = WrittenBy("create")]
           \/ page = "projects" /\ request = [Idle EXCEPT !.op = "create", !.arg = WrittenBy("create")]
  BY DEF GenerateKey, CreateNewProject, Send
<1>2. /\ request \in CallRecords /\ request.op = "create" /\ request.project = selected
      /\ request.arg = WrittenBy("create")
  <2>1. CASE request = [Idle EXCEPT !.op = "create", !.project = selected, !.arg = WrittenBy("create")]
    BY <2>1 DEF ListInv, StateIsTyped, Idle, CallRecords, Texts, WrittenBy
  <2>2. CASE page = "projects" /\ request = [Idle EXCEPT !.op = "create", !.arg = WrittenBy("create")]
    <3>1. selected = All
      BY <2>2 DEF ListInv, PagesAreShaped
    <3> QED BY <2>2, <3>1 DEF Idle, CallRecords, Texts, WrittenBy
  <2> QED BY <1>1, <2>1, <2>2
<1>3. StateIsTyped'
  BY <1>1, SentDoubt DEF ListInv, StateIsTyped, Rows, ListedRows
<1>4. ~Busy(c)
  BY <1>1 DEF Busy, Under, Idle
<1>5. page = "projects" => selected' = All /\ projects' = {}
  BY <1>1 DEF ListInv, PagesAreShaped
<1>6. /\ Sent(c, request) /\ page \in {"keys", "projects"} /\ page' = page /\ table' = table /\ shown' = shown
      /\ form' = form /\ newKey' = newKey /\ selected' = selected /\ unseen' = unseen
  BY <1>1
<1> QED BY <1>2, <1>3, <1>4, <1>5, <1>6, SentStep

LEMMA RevokeStep ==
  ASSUME ListInv, NEW c \in PanelCalls, NEW row \in shown, RevokeKey(c, row) PROVE ListInv'
<1> DEFINE request == [Idle EXCEPT !.op = "revoke", !.id = row.id, !.arg = IF newKey = NoRow THEN "none" ELSE "shown"]
<1>1. /\ page = "keys" /\ call[c] = Idle /\ Sent(c, request) /\ revoking' = row.id
      /\ unseen' = IF newKey = row.id THEN unseen ELSE unseen \cup {row.id}
      /\ page' = page /\ role' = role /\ table' = table /\ projects' = projects /\ shown' = shown /\ form' = form
      /\ saving' = saving /\ newKey' = newKey /\ selected' = selected
  BY DEF RevokeKey, Send
<1>0. row \in ListedRows /\ row.id \in Rows
  BY DEF ListInv, StateIsTyped, ListedRows
<1>2. /\ request \in CallRecords /\ request.op = "revoke" /\ request.id = row.id
      /\ request.arg = IF newKey = NoRow THEN "none" ELSE "shown"
  BY <1>0 DEF Idle, CallRecords, Texts
<1>3. StateIsTyped'
  BY <1>0, <1>1, SentDoubt DEF ListInv, StateIsTyped, Rows, ListedRows
<1>4. ~Busy(c)
  BY <1>1 DEF Busy, Under, Idle
<1>5. request.id \notin unseen' => newKey = request.id /\ request.arg = "shown"
  BY <1>0, <1>1, <1>2, NoRowIsNoRow
<1> HIDE DEF request
<1> QED BY <1>0, <1>1, <1>2, <1>3, <1>4, <1>5, SentStep

LEMMA PolicyButtonStep ==
  ASSUME ListInv, NEW c \in PanelCalls, NEW row \in shown, ToggleEnabled(c, row) \/ DeletePolicy(c, row)
  PROVE  ListInv'
<1>0. row \in ListedRows /\ row.id \in Rows
  BY DEF ListInv, StateIsTyped, ListedRows
<1>1. PICK request :
        /\ page = "policies" /\ call[c] = Idle /\ Sent(c, request)
        /\ page' = page /\ role' = role /\ table' = table /\ projects' = projects /\ shown' = shown /\ form' = form
        /\ saving' = saving /\ newKey' = newKey /\ selected' = selected /\ revoking' = revoking /\ unseen' = unseen
        /\ \/ request = [Idle EXCEPT !.op = "toggle", !.id = row.id, !.arg = IF row.on = "on" THEN "off" ELSE "on"]
           \/ request = [Idle EXCEPT !.op = "delete", !.id = row.id]
  BY DEF ToggleEnabled, DeletePolicy, Send
<1>2. /\ request \in CallRecords /\ request.id = row.id
      /\ \/ request.op = "toggle" /\ request.arg = IF row.on = "on" THEN "off" ELSE "on"
         \/ request.op = "delete"
  <2>1. CASE request = [Idle EXCEPT !.op = "toggle", !.id = row.id, !.arg = IF row.on = "on" THEN "off" ELSE "on"]
    BY <1>0, <2>1 DEF Idle, CallRecords, Texts
  <2>2. CASE request = [Idle EXCEPT !.op = "delete", !.id = row.id]
    BY <1>0, <2>2 DEF Idle, CallRecords, Texts
  <2> QED BY <1>1, <2>1, <2>2
<1>3. StateIsTyped'
  BY <1>1, SentDoubt DEF ListInv, StateIsTyped, Rows, ListedRows
<1>4. ~Busy(c)
  BY <1>1 DEF Busy, Under, Idle
<1>5. /\ Sent(c, request) /\ page = "policies" /\ page' = page /\ table' = table /\ shown' = shown /\ form' = form
      /\ newKey' = newKey /\ selected' = selected /\ unseen' = unseen
  BY <1>1
<1> QED BY <1>0, <1>2, <1>3, <1>4, <1>5, SentStep

LEMMA SaveStep ==
  ASSUME ListInv, NEW c \in PanelCalls, SavePolicy(c) PROVE ListInv'
<1> DEFINE kind == IF form.editing = NoRow THEN "create" ELSE "edit"
           request == [Idle EXCEPT !.op = kind, !.arg = WrittenBy(kind), !.id = form.editing, !.of = form.of,
                                   !.project = selected]
<1>1. /\ call[c] = Idle /\ Sent(c, request) /\ saving' = TRUE
      /\ page' = page /\ role' = role /\ table' = table /\ projects' = projects /\ shown' = shown /\ form' = form
      /\ revoking' = revoking /\ newKey' = newKey /\ selected' = selected /\ unseen' = unseen
  BY DEF SavePolicy, Send
<1>2. /\ request \in CallRecords /\ request.op = kind /\ request.arg = WrittenBy(kind)
      /\ request.id = form.editing /\ request.of = form.of /\ request.project = selected
  BY DEF ListInv, StateIsTyped, Idle, CallRecords, Texts, WrittenBy
<1>3. StateIsTyped'
  BY <1>1, SentDoubt DEF ListInv, StateIsTyped, Rows, ListedRows
<1>4. ~Busy(c)
  BY <1>1 DEF Busy, Under, Idle
<1>5. page = "projects" => selected' = All /\ projects' = {}
  BY <1>1 DEF ListInv, PagesAreShaped
<1>6. request.op = "edit" => request.id \in Rows
  BY <1>2 DEF ListInv, StateIsTyped
<1>7. page = "policies" /\ form.editing = form.of
  BY DEF SavePolicy, ListInv, PagesAreShaped, FormIsOfItsRow
<1>8. request.op \in {"create", "edit"}
  BY <1>2
<1> HIDE DEF kind, request
<1> QED BY <1>1, <1>2, <1>3, <1>4, <1>5, <1>6, <1>7, <1>8, SentStep

-----------------------------------------------------------------------------
(* The server.                                                             *)

LEMMA RowsAreListed == ASSUME ListInv, NEW project PROVE RowsOf(project) \in SUBSET ListedRows
BY DEF ListInv, StateIsTyped, PagesAreShaped, RowsAreWhole, RowsOf, ListedRows, Texts, Gone

(* An answer without a write changes nothing that is known of keys.        *)
LEMMA ReadKeys ==
  ASSUME ListInv, NEW c \in PanelCalls, NEW stage \in {"answered", "refused"}, NEW id \in Rows \cup {NoRow},
         NEW rows \in SUBSET ListedRows, Arrived(c), Reply(c, stage, id, rows), UNCHANGED serverLeaves,
         table' = table,
         call[c].op = "create" => stage = "refused",
         call[c].op = "revoke" => id = call[c].id
  PROVE  KeysComeOnce'
<1> SUFFICES ASSUME page = "keys" PROVE KeysComeOnce'
  BY DEF KeysComeOnce, serverLeaves
<1>1. /\ call'[c].stage = stage /\ call'[c].id = id
      /\ call'[c].op = call[c].op /\ call'[c].arg = call[c].arg
      /\ \A d \in PanelCalls \ {c} : call'[d] = call[d]
  BY RepliedCalls DEF ListInv, serverLeaves
<1>2. \A d \in PanelCalls : \A i : Arriving(d, i)' => Arriving(d, i)
  BY <1>1 DEF Arriving, Arrived
<1>3. \A d \in PanelCalls : call'[d].op = "revoke" =>
        call[d].op = "revoke" /\ call'[d].id = call[d].id /\ call'[d].arg = call[d].arg
  BY <1>1
<1>4. \A d \in PanelCalls : call[d].op = "revoke" /\ call[d].stage = "answered" => call'[d] = call[d]
  BY <1>1 DEF Arrived
<1>5. newKey' = newKey /\ unseen' = unseen /\ Rows' = Rows
  BY DEF serverLeaves, Rows
<1> QED BY <1>2, <1>3, <1>4, <1>5 DEF ListInv, KeysComeOnce

LEMMA ReadStep == ASSUME ListInv, NEW c \in PanelCalls, HandleRead(c) PROVE ListInv'
<1>1. PICK stage \in {"answered", "refused"}, rows \in SUBSET ListedRows :
        /\ Reply(c, stage, NoRow, rows)
        /\ call[c].op \in {"list", "refresh"} /\ stage = "answered" => rows = RowsOf(call[c].project)
  <2>1. CASE Reply(c, "refused", NoRow, {})
    BY <2>1
  <2>2. CASE Reply(c, "answered", NoRow, IF call[c].op = "projects" THEN {} ELSE RowsOf(call[c].project))
    <3>1. (IF call[c].op = "projects" THEN {} ELSE RowsOf(call[c].project)) \in SUBSET ListedRows
      BY RowsAreListed
    <3> QED BY <2>2, <3>1
  <2> QED BY <2>1, <2>2 DEF HandleRead
<1>2. Arrived(c) /\ call[c].op \in {"projects", "list", "refresh"} /\ table' = table /\ UNCHANGED serverLeaves
  BY DEF HandleRead
<1>3. StateIsTyped' /\ RowsAreWhole'
  BY <1>2 DEF ListInv, StateIsTyped, PagesAreShaped, RowsAreWhole, Rows, ListedRows, serverLeaves
<1>4. KeysComeOnce'
  BY <1>1, <1>2, ReadKeys
<1>5. Busy(c) /\ AnswerFits(c) => AnswerFits(c)'
  <2>1. /\ call'[c].stage = stage /\ call'[c].rows = rows
        /\ call'[c].op = call[c].op /\ call'[c].project = call[c].project
    BY <1>1, <1>2, RepliedCalls DEF ListInv, serverLeaves
  <2>2. RowsOf(selected)' = RowsOf(selected) /\ selected' = selected
    BY <1>2, SameRows DEF serverLeaves
  <2> QED BY <1>1, <1>2, <2>1, <2>2 DEF AnswerFits, Busy
<1> QED BY <1>1, <1>2, <1>3, <1>4, <1>5, ReplyStep

LEMMA RefuseStep == ASSUME ListInv, NEW c \in PanelCalls, Refuse(c) PROVE ListInv'
<1>1. /\ Reply(c, "refused", call[c].id, {}) /\ call[c].id \in Rows \cup {NoRow}
      /\ Arrived(c) /\ call[c].op \notin {"projects", "list", "refresh"} /\ table' = table /\ UNCHANGED serverLeaves
  BY DEF Refuse, ListInv, Calls, CallRecords
<1>3. StateIsTyped' /\ RowsAreWhole'
  BY <1>1 DEF ListInv, StateIsTyped, PagesAreShaped, RowsAreWhole, Rows, ListedRows, serverLeaves
<1>4. KeysComeOnce'
  BY <1>1, ReadKeys
<1>5. AnswerFits(c) => AnswerFits(c)'
  <2>1. /\ call'[c].stage = "refused"
        /\ call'[c].op = call[c].op /\ call'[c].project = call[c].project
    BY <1>1, RepliedCalls DEF ListInv, serverLeaves
  <2>2. RowsOf(selected)' = RowsOf(selected) /\ shown' = shown /\ selected' = selected
    BY <1>1, SameRows DEF serverLeaves
  <2> QED BY <1>1, <2>1, <2>2 DEF AnswerFits, Arrived
<1> QED BY <1>1, <1>3, <1>4, <1>5, ReplyStep

LEMMA CreateStepOfRows ==
  ASSUME ListInv, NEW c \in PanelCalls, HandleCreate(c) PROVE ListInv'
<1>1. PICK i \in Rows :
        /\ table[i] = Gone
        /\ table' = [table EXCEPT ![i] = [project |-> call[c].project, on |-> "on", text |-> call[c].arg]]
        /\ Reply(c, "answered", i, {})
  BY DEF HandleCreate
<1>2. Arrived(c) /\ call[c].op = "create" /\ call[c].arg = "created" /\ UNCHANGED serverLeaves
  BY DEF HandleCreate, ListInv, PagesAreShaped, CallsAreShaped, CallIsShaped
<1>3. call[c].project \in ListProjects \cup {All}
  BY DEF ListInv, Calls, CallRecords
<1>4. /\ table'[i] = [project |-> call[c].project, on |-> "on", text |-> "created"]
      /\ \A j \in Rows \ {i} : table'[j] = table[j]
  BY <1>1, <1>2 DEF ListInv, StateIsTyped
<1>5. StateIsTyped' /\ RowsAreWhole'
  <2>1. table' \in [Rows -> [project : ListProjects \cup {All}, on : {"on", "off", "gone"}, text : Texts \cup {"none"}]]
    BY <1>1, <1>2, <1>3 DEF ListInv, StateIsTyped, Texts
  <2>2. StateIsTyped'
    BY <1>2, <2>1 DEF ListInv, StateIsTyped, Rows, ListedRows, serverLeaves
  <2>3. RowsAreWhole'
    <3>1. Rows' = Rows
      BY <1>2 DEF serverLeaves, Rows
    <3> QED BY <1>4, <3>1 DEF ListInv, PagesAreShaped, RowsAreWhole, Texts
  <2> QED BY <2>2, <2>3
<1>6. /\ call'[c].stage = "answered" /\ call'[c].id = i
      /\ call'[c].op = call[c].op /\ call'[c].arg = call[c].arg /\ call'[c].project = call[c].project
      /\ \A d \in PanelCalls \ {c} : call'[d] = call[d]
  BY <1>1, <1>2, RepliedCalls DEF ListInv, serverLeaves
<1>7. AnswerFits(c) => AnswerFits(c)'
  <2> SUFFICES ASSUME AnswerFits(c) PROVE AnswerFits(c)'
    OBVIOUS
  <2>1. shown = RowsOf(selected) /\ call[c].project = selected
    BY <1>2 DEF AnswerFits, Arrived
  <2>2. RowsOf(selected)' = shown \cup {CreatedRow(c)}'
    <3>1. page' = page /\ selected' = selected /\ Rows' = Rows /\ shown' = shown
      BY <1>2 DEF serverLeaves, Rows
    <3>2. CreatedRow(c)' = [id |-> i, on |-> "on", text |-> "created"]
      BY <1>2, <1>6 DEF CreatedRow
    <3>3. RowsOf(selected)' =
            {[id |-> j, on |-> table'[j].on, text |-> table'[j].text] :
               j \in {k \in Rows : /\ table'[k].on # "gone"
                                   /\ \/ selected = All \/ table'[k].project = selected
                                      \/ page = "policies" /\ table'[k].project = All}}
      BY <3>1 DEF RowsOf
    <3>4. RowsOf(selected) =
            {[id |-> j, on |-> table[j].on, text |-> table[j].text] :
               j \in {k \in Rows : /\ table[k].on # "gone"
                                   /\ \/ selected = All \/ table[k].project = selected
                                      \/ page = "policies" /\ table[k].project = All}}
      BY DEF RowsOf
    <3>5. table'[i].project = selected /\ table'[i].on = "on" /\ table'[i].text = "created" /\ table[i].on = "gone"
      BY <1>1, <1>4, <2>1 DEF Gone
    <3> QED BY <1>4, <2>1, <3>2, <3>3, <3>4, <3>5
  <2>3. shown' = shown /\ selected' = selected
    BY <1>2 DEF serverLeaves
  <2> QED BY <1>2, <1>6, <2>1, <2>2, <2>3 DEF AnswerFits
<1>8. KeysComeOnce'
  <2> SUFFICES ASSUME page = "keys" PROVE KeysComeOnce'
    BY <1>2 DEF KeysComeOnce, serverLeaves
  <2>1. newKey' = newKey /\ unseen' = unseen /\ Rows' = Rows
    BY <1>2 DEF serverLeaves, Rows
  <2>2. \A d \in PanelCalls : \A j : Arriving(d, j)' <=> Arriving(d, j) \/ (d = c /\ j = i)
    BY <1>2, <1>6 DEF Arriving, Arrived
  <2>3. newKey # i /\ \A d \in PanelCalls : ~Arriving(d, i)
    <3>1. newKey # NoRow => table[newKey] # Gone
      BY DEF ListInv, KeysComeOnce
    <3>2. i # NoRow
      BY NoRowIsNoRow
    <3> QED BY <1>1, <3>1, <3>2 DEF ListInv, KeysComeOnce
  <2>4. \A j \in Rows : table[j] # Gone => table'[j] = table[j]
    BY <1>1, <1>4
  <2>5. table'[i] # Gone /\ table'[i].on # "off"
    <3>1. table'[i].on = "on" /\ Gone.on = "gone"
      BY <1>4 DEF Gone
    <3> QED BY <3>1
  <2>6. \A d \in PanelCalls : call'[d].op = "revoke" =>
          d # c /\ call'[d] = call[d] /\ call[d].id \in Rows
    BY <1>2, <1>6 DEF ListInv, PagesAreShaped, CallsAreShaped, CallIsShaped
  <2>7. \A d \in PanelCalls : call'[d].op = "revoke" /\ call'[d].id \notin unseen =>
          /\ call'[d].arg = "shown" /\ table'[call'[d].id] # Gone /\ call'[d].id # i
          /\ \A e \in PanelCalls : ~Arriving(e, call'[d].id)
    BY <1>1, <2>4, <2>6 DEF ListInv, KeysComeOnce
  <2>8. newKey # NoRow => newKey \in Rows /\ table'[newKey] # Gone /\ \A d \in PanelCalls : ~Arriving(d, newKey)'
    <3>1. newKey # NoRow => newKey \in Rows /\ table[newKey] # Gone /\ \A d \in PanelCalls : ~Arriving(d, newKey)
      BY DEF ListInv, KeysComeOnce, StateIsTyped
    <3> QED BY <2>1, <2>2, <2>3, <2>4, <3>1
  <2>9. \A d \in PanelCalls, j \in Rows : Arriving(d, j)' => table'[j] # Gone
    BY <2>2, <2>4, <2>5 DEF ListInv, KeysComeOnce
  <2>10. \A d, e \in PanelCalls, j \in Rows : Arriving(d, j)' /\ Arriving(e, j)' => d = e
    BY <2>2, <2>3 DEF ListInv, KeysComeOnce
  <2>11. ASSUME NEW j \in Rows, table'[j].on = "off", j \notin unseen
         PROVE  \/ \E d \in PanelCalls : call'[d].op = "revoke" /\ call'[d].stage = "answered" /\ call'[d].id = j
                \/ newKey # j /\ \A d \in PanelCalls : ~Arriving(d, j)'
    <3>1. j # i /\ table[j].on = "off"
      BY <1>4, <2>5, <2>11
    <3>2. \/ \E d \in PanelCalls : call[d].op = "revoke" /\ call[d].stage = "answered" /\ call[d].id = j
          \/ newKey # j /\ \A d \in PanelCalls : ~Arriving(d, j)
      BY <2>11, <3>1 DEF ListInv, KeysComeOnce
    <3> QED BY <1>2, <1>6, <2>2, <3>1, <3>2
  <2>12. \A d \in PanelCalls : call'[d].op = "revoke" /\ call'[d].id \notin unseen =>
           \A e \in PanelCalls :
             ~ (call'[e].op = "create" /\ call'[e].stage = "answered" /\ call'[e].id = call'[d].id)
    <3>1. \A e \in PanelCalls : \A j :
            call'[e].op = "create" /\ call'[e].stage = "answered" /\ call'[e].id = j
              => Arriving(e, j) \/ (e = c /\ j = i)
      BY <2>2 DEF Arriving
    <3> QED BY <2>7, <3>1
  <2> QED BY <2>1, <2>7, <2>8, <2>9, <2>10, <2>11, <2>12 DEF KeysComeOnce, Arriving
<1> QED BY <1>1, <1>2, <1>5, <1>7, <1>8, ReplyStep

(* What the page of the selected project is to show.                       *)
Seen(j) ==
  /\ table[j].on # "gone"
  /\ \/ selected = All \/ table[j].project = selected
     \/ page = "policies" /\ table[j].project = All

RowAt(j) == [id |-> j, on |-> table[j].on, text |-> table[j].text]

LEMMA RowsSeen == RowsOf(selected) = {RowAt(j) : j \in {k \in Rows : Seen(k)}}
BY DEF RowsOf, Seen, RowAt

(* A write of one row leaves what is seen of the others.                   *)
LEMMA OthersSeen ==
  ASSUME NEW i \in Rows, page' = page, selected' = selected, \A j \in Rows \ {i} : table'[j] = table[j]
  PROVE  /\ \A r : r \in RowsOf(selected) <=> \E j \in Rows : Seen(j) /\ r = RowAt(j)
         /\ \A r : r \in RowsOf(selected)' <=>
              \/ \E j \in Rows \ {i} : Seen(j) /\ r = RowAt(j)
              \/ Seen(i)' /\ r = RowAt(i)'
<1>1. \A r : r \in RowsOf(selected) <=> \E j \in Rows : Seen(j) /\ r = RowAt(j)
  BY RowsSeen
<1>2. RowsOf(selected)' =
        {[id |-> j, on |-> table'[j].on, text |-> table'[j].text] :
           j \in {k \in Rows : /\ table'[k].on # "gone"
                               /\ \/ selected = All \/ table'[k].project = selected
                                  \/ page = "policies" /\ table'[k].project = All}}
  BY DEF RowsOf, Rows
<1>3. Seen(i)' <=> /\ table'[i].on # "gone"
                   /\ \/ selected = All \/ table'[i].project = selected
                      \/ page = "policies" /\ table'[i].project = All
  BY DEF Seen
<1>4. RowAt(i)' = [id |-> i, on |-> table'[i].on, text |-> table'[i].text]
  BY DEF RowAt
<1>5. \A j \in Rows \ {i} : /\ [id |-> j, on |-> table'[j].on, text |-> table'[j].text] = RowAt(j)
                            /\ Seen(j) <=> /\ table'[j].on # "gone"
                                           /\ \/ selected = All \/ table'[j].project = selected
                                              \/ page = "policies" /\ table'[j].project = All
  BY DEF RowAt, Seen
<1>6. \A r : r \in RowsOf(selected)' <=>
        \E j \in Rows : /\ table'[j].on # "gone"
                        /\ \/ selected = All \/ table'[j].project = selected
                           \/ page = "policies" /\ table'[j].project = All
                        /\ r = [id |-> j, on |-> table'[j].on, text |-> table'[j].text]
  BY <1>2
<1> QED BY <1>1, <1>3, <1>4, <1>5, <1>6

LEMMA PolicyWriteStep == ASSUME ListInv, NEW c \in PanelCalls, HandlePolicyWrite(c) PROVE ListInv'
<1>0. PICK i : i = call[c].id
  OBVIOUS
<1> DEFINE row == IF table[i] = Gone \/ call[c].op = "delete" THEN Gone
                  ELSE IF call[c].op = "toggle" THEN [table[i] EXCEPT !.on = call[c].arg]
                  ELSE [table[i] EXCEPT !.text = call[c].arg]
           records == [project : ListProjects \cup {All}, on : {"on", "off", "gone"}, text : Texts \cup {"none"}]
<1>1. /\ Arrived(c) /\ call[c].op \in {"toggle", "edit", "delete"} /\ UNCHANGED serverLeaves
      /\ Reply(c, "answered", i, {})
  BY <1>0 DEF HandlePolicyWrite
<1>2. /\ i \in Rows /\ page = "policies"
      /\ call[c].op = "toggle" => call[c].arg \in {"on", "off"}
      /\ call[c].op = "edit" => call[c].arg = "edited"
  BY <1>0, <1>1 DEF ListInv, PagesAreShaped, CallsAreShaped, CallIsShaped
<1>3. table' = [table EXCEPT ![i] = row]
  BY <1>0, <1>2 DEF HandlePolicyWrite, ListInv, StateIsTyped
<1>4. table'[i] = row /\ \A j \in Rows \ {i} : table'[j] = table[j]
  BY <1>2, <1>3 DEF ListInv, StateIsTyped
<1>5. /\ table[i] \in records
      /\ table[i] # Gone => table[i].on # "gone" /\ table[i].text \in Texts
  BY <1>2 DEF ListInv, StateIsTyped, PagesAreShaped, RowsAreWhole
<1>6. Gone \in records /\ Gone.on = "gone"
  BY DEF Gone
<1>7. /\ row \in records
      /\ row # Gone => row.on # "gone" /\ row.text \in Texts
      /\ call[c].op = "delete" => row.on = "gone"
      /\ call[c].op = "toggle" /\ table[i].on # "gone" =>
           row.on = call[c].arg /\ row.text = table[i].text /\ row.project = table[i].project
  <2>1. CASE table[i] = Gone \/ call[c].op = "delete"
    BY <1>1, <1>6, <2>1
  <2>2. CASE table[i] # Gone /\ call[c].op = "toggle"
    <3>1. row = [table[i] EXCEPT !.on = call[c].arg]
      BY <2>2
    <3>2. row.on = call[c].arg /\ row.text = table[i].text /\ row.project = table[i].project
      BY <1>5, <3>1
    <3>3. row \in records
      BY <1>2, <1>5, <2>2, <3>1
    <3> QED BY <1>2, <1>5, <2>2, <3>2, <3>3
  <2>3. CASE table[i] # Gone /\ call[c].op = "edit"
    <3>1. row = [table[i] EXCEPT !.text = "edited"]
      BY <1>2, <2>3
    <3>2. row.text = "edited" /\ row.on = table[i].on /\ row \in records
      BY <1>5, <3>1 DEF Texts
    <3> QED BY <1>5, <2>3, <3>2 DEF Texts
  <2> QED BY <1>1, <2>1, <2>2, <2>3
<1> HIDE DEF row
<1>8. StateIsTyped' /\ RowsAreWhole'
  <2>1. page' = page /\ Rows' = Rows
    BY <1>1 DEF serverLeaves, Rows
  <2>2. table' \in [Rows -> records]
    BY <1>2, <1>3, <1>7 DEF ListInv, StateIsTyped
  <2>3. StateIsTyped'
    BY <1>1, <2>2 DEF ListInv, StateIsTyped, Rows, ListedRows, serverLeaves
  <2>4. \A j \in Rows : table'[j] # Gone => table'[j].on # "gone" /\ table'[j].text \in Texts
    BY <1>4, <1>7 DEF ListInv, PagesAreShaped, RowsAreWhole
  <2> QED BY <2>1, <2>3, <2>4 DEF RowsAreWhole
<1>9. /\ call'[c].stage = "answered" /\ call'[c].id = i
      /\ call'[c].op = call[c].op /\ call'[c].arg = call[c].arg /\ call'[c].project = call[c].project
  BY <1>1, <1>2, RepliedCalls DEF ListInv, serverLeaves
<1>10. AnswerFits(c) => AnswerFits(c)'
  <2> SUFFICES ASSUME AnswerFits(c) PROVE AnswerFits(c)'
    OBVIOUS
  <2>1. /\ shown = RowsOf(selected)
        /\ call[c].op = "edit" => call[c].project = selected
        /\ call[c].op = "toggle" =>
             \E r \in shown : r.id = i /\ call[c].arg = IF r.on = "on" THEN "off" ELSE "on"
    BY <1>0, <1>1 DEF AnswerFits, Arrived
  <2>2. page' = page /\ selected' = selected /\ shown' = shown
    BY <1>1 DEF serverLeaves
  <2>3. /\ \A r : r \in RowsOf(selected) <=> \E j \in Rows : Seen(j) /\ r = RowAt(j)
        /\ \A r : r \in RowsOf(selected)' <=>
             \/ \E j \in Rows \ {i} : Seen(j) /\ r = RowAt(j)
             \/ Seen(i)' /\ r = RowAt(i)'
    BY <1>2, <1>4, <2>2, OthersSeen
  <2>4. \A j : RowAt(j).id = j /\ RowAt(j).on = table[j].on /\ RowAt(j).text = table[j].text
    BY DEF RowAt
  <2>5. call[c].op = "delete" => RowsOf(selected)' = {r \in shown : r.id # i}
    <3> SUFFICES ASSUME call[c].op = "delete" PROVE RowsOf(selected)' = {r \in shown : r.id # i}
      OBVIOUS
    <3>1. ~Seen(i)'
      BY <1>4, <1>7 DEF Seen
    <3> QED BY <2>1, <2>3, <2>4, <3>1
  <2>6. call[c].op = "toggle" =>
          RowsOf(selected)' = {IF r.id = i THEN [r EXCEPT !.on = IF @ = "on" THEN "off" ELSE "on"] ELSE r : r \in shown}
    <3> SUFFICES ASSUME call[c].op = "toggle"
                 PROVE  RowsOf(selected)' =
                          {IF r.id = i THEN [r EXCEPT !.on = IF @ = "on" THEN "off" ELSE "on"] ELSE r : r \in shown}
      OBVIOUS
    <3>1. Seen(i) /\ call[c].arg = IF RowAt(i).on = "on" THEN "off" ELSE "on"
      BY <2>1, <2>3, <2>4
    <3>2. table[i].on # "gone"
      BY <3>1 DEF Seen
    <3>3. Seen(i)' /\ RowAt(i)' = [id |-> i, on |-> call[c].arg, text |-> table[i].text]
      <4>1. /\ table'[i].on = call[c].arg /\ table'[i].text = table[i].text /\ table'[i].project = table[i].project
            /\ call[c].arg # "gone"
        BY <1>2, <1>4, <1>7, <3>2
      <4>2. RowAt(i)' = [id |-> i, on |-> table'[i].on, text |-> table'[i].text]
        BY DEF RowAt
      <4>3. Seen(i)'
        BY <2>2, <3>1, <4>1 DEF Seen
      <4> QED BY <4>1, <4>2, <4>3
    <3>4. RowAt(i)' = [RowAt(i) EXCEPT !.on = IF @ = "on" THEN "off" ELSE "on"]
      BY <3>1, <3>3 DEF RowAt
    <3>5. \A j \in Rows \ {i} : RowAt(j).id # i
      BY <2>4
    <3> QED BY <1>2, <2>1, <2>3, <2>4, <3>1, <3>3, <3>4, <3>5
  <2> QED BY <1>0, <1>1, <1>9, <2>1, <2>2, <2>5, <2>6 DEF AnswerFits, Toggled
<1>11. KeysComeOnce'
  BY <1>1, <1>2 DEF KeysComeOnce, serverLeaves
<1>12. i \in Rows \cup {NoRow} /\ {} \in SUBSET ListedRows /\ i = call[c].id
  BY <1>0, <1>2
<1> QED BY <1>1, <1>8, <1>10, <1>11, <1>12, ReplyStep

LEMMA HandleRevokeStep == ASSUME ListInv, NEW c \in PanelCalls, HandleRevoke(c) PROVE ListInv'
<1>0. PICK i : i = call[c].id
  OBVIOUS
<1>1. /\ Arrived(c) /\ call[c].op = "revoke" /\ UNCHANGED serverLeaves /\ table[i].on = "on"
      /\ table' = [table EXCEPT ![i].on = "off"]
      /\ Reply(c, "answered", i, {})
  BY <1>0 DEF HandleRevoke
<1>2. i \in Rows /\ page = "keys"
  BY <1>0, <1>1 DEF ListInv, PagesAreShaped, CallsAreShaped, CallIsShaped
<1>3. table[i] \in [project : ListProjects \cup {All}, on : {"on", "off", "gone"}, text : Texts \cup {"none"}]
  BY <1>2 DEF ListInv, StateIsTyped
<1>4. table[i] # Gone /\ table[i].text \in Texts
  <2>1. Gone.on = "gone"
    BY DEF Gone
  <2> QED BY <1>1, <1>2, <2>1 DEF ListInv, PagesAreShaped, RowsAreWhole
<1>5. /\ table'[i] = [table[i] EXCEPT !.on = "off"]
      /\ \A j \in Rows \ {i} : table'[j] = table[j]
  BY <1>1, <1>2 DEF ListInv, StateIsTyped
<1>6. table'[i].on = "off" /\ table'[i].text = table[i].text /\ table'[i].project = table[i].project
  BY <1>3, <1>5
<1>7. table'[i] # Gone
  BY <1>6 DEF Gone
<1>8. StateIsTyped' /\ RowsAreWhole'
  <2>1. page' = page /\ Rows' = Rows
    BY <1>1 DEF serverLeaves, Rows
  <2>2. table' \in [Rows -> [project : ListProjects \cup {All}, on : {"on", "off", "gone"}, text : Texts \cup {"none"}]]
    BY <1>1, <1>2, <1>3 DEF ListInv, StateIsTyped
  <2>3. StateIsTyped'
    BY <1>1, <2>2 DEF ListInv, StateIsTyped, Rows, ListedRows, serverLeaves
  <2>4. \A j \in Rows : table'[j] # Gone => table'[j].on # "gone" /\ table'[j].text \in Texts
    BY <1>4, <1>5, <1>6 DEF ListInv, PagesAreShaped, RowsAreWhole
  <2> QED BY <2>1, <2>3, <2>4 DEF RowsAreWhole
<1>9. /\ call'[c].stage = "answered" /\ call'[c].id = i
      /\ call'[c].op = "revoke" /\ call'[c].arg = call[c].arg /\ call'[c].project = call[c].project
      /\ \A d \in PanelCalls \ {c} : call'[d] = call[d]
  BY <1>1, <1>2, RepliedCalls DEF ListInv, serverLeaves
<1>10. AnswerFits(c) => AnswerFits(c)'
  <2> SUFFICES ASSUME AnswerFits(c) PROVE AnswerFits(c)'
    OBVIOUS
  <2>1. shown = RowsOf(selected)
    BY <1>1 DEF AnswerFits, Arrived
  <2>2. page' = page /\ selected' = selected /\ shown' = shown
    BY <1>1 DEF serverLeaves
  <2>3. /\ \A r : r \in RowsOf(selected) <=> \E j \in Rows : Seen(j) /\ r = RowAt(j)
        /\ \A r : r \in RowsOf(selected)' <=>
             \/ \E j \in Rows \ {i} : Seen(j) /\ r = RowAt(j)
             \/ Seen(i)' /\ r = RowAt(i)'
    BY <1>2, <1>5, <2>2, OthersSeen
  <2>4. \A j : RowAt(j).id = j
    BY DEF RowAt
  <2>5. RowAt(i)' = [RowAt(i) EXCEPT !.on = "off"]
    <3>1. RowAt(i)' = [id |-> i, on |-> table'[i].on, text |-> table'[i].text]
      BY DEF RowAt
    <3> QED BY <1>6, <3>1 DEF RowAt
  <2>6. Seen(i)' <=> Seen(i)
    BY <1>1, <1>6, <2>2 DEF Seen
  <2>7. RowsOf(selected)' = {IF r.id = i THEN [r EXCEPT !.on = "off"] ELSE r : r \in shown}
    BY <1>2, <2>1, <2>3, <2>4, <2>5, <2>6
  <2> QED BY <1>1, <1>9, <2>1, <2>2, <2>7 DEF AnswerFits, WithOn
<1>11. KeysComeOnce'
  <2>1. newKey' = newKey /\ unseen' = unseen /\ Rows' = Rows
    BY <1>1 DEF serverLeaves, Rows
  <2>2. \A d \in PanelCalls : \A j : Arriving(d, j)' <=> Arriving(d, j)
    BY <1>1, <1>9 DEF Arriving
  <2>3. \A j \in Rows : table[j] # Gone => table'[j] # Gone
    BY <1>5, <1>7
  <2>4. \A d \in PanelCalls : call'[d].op = "revoke" =>
          call[d].op = "revoke" /\ call'[d].id = call[d].id /\ call'[d].arg = call[d].arg /\ call[d].id \in Rows
    BY <1>0, <1>1, <1>9 DEF ListInv, PagesAreShaped, CallsAreShaped, CallIsShaped
  <2>5. \A d \in PanelCalls : call[d].op = "revoke" /\ call[d].stage = "answered" => call'[d] = call[d]
    BY <1>1, <1>9 DEF Arrived
  <2>6. newKey # NoRow => newKey \in Rows
    BY DEF ListInv, StateIsTyped
  <2>7. newKey # NoRow => table'[newKey] # Gone /\ \A d \in PanelCalls : ~Arriving(d, newKey)'
    BY <1>2, <2>1, <2>2, <2>3, <2>6 DEF ListInv, KeysComeOnce
  <2>8. \A d \in PanelCalls, j \in Rows : Arriving(d, j)' => table'[j] # Gone
    BY <1>2, <2>2, <2>3 DEF ListInv, KeysComeOnce
  <2>9. \A d, e \in PanelCalls, j \in Rows : Arriving(d, j)' /\ Arriving(e, j)' => d = e
    BY <1>2, <2>2 DEF ListInv, KeysComeOnce
  <2>10. \A d \in PanelCalls : call'[d].op = "revoke" /\ call'[d].id \notin unseen =>
           /\ call'[d].arg = "shown" /\ table'[call'[d].id] # Gone
           /\ \A e \in PanelCalls : ~Arriving(e, call'[d].id)
    BY <1>2, <2>3, <2>4 DEF ListInv, KeysComeOnce
  <2>11. \A d \in PanelCalls : call'[d].op = "revoke" /\ call'[d].id \notin unseen =>
           \A e \in PanelCalls :
             ~ (call'[e].op = "create" /\ call'[e].stage = "answered" /\ call'[e].id = call'[d].id)
    <3>1. \A e \in PanelCalls : \A j :
            call'[e].op = "create" /\ call'[e].stage = "answered" /\ call'[e].id = j => Arriving(e, j)
      BY <2>2 DEF Arriving
    <3> QED BY <2>10, <3>1
  <2>12. ASSUME NEW j \in Rows, table'[j].on = "off", j \notin unseen
         PROVE  \/ \E d \in PanelCalls : call'[d].op = "revoke" /\ call'[d].stage = "answered" /\ call'[d].id = j
                \/ newKey # j /\ \A d \in PanelCalls : ~Arriving(d, j)'
    <3>1. CASE j = i
      BY <1>9, <3>1
    <3>2. CASE j # i
      <4>1. \/ \E d \in PanelCalls : call[d].op = "revoke" /\ call[d].stage = "answered" /\ call[d].id = j
            \/ newKey # j /\ \A d \in PanelCalls : ~Arriving(d, j)
        BY <1>2, <1>5, <2>12, <3>2 DEF ListInv, KeysComeOnce
      <4> QED BY <2>2, <2>5, <4>1
    <3> QED BY <3>1, <3>2
  <2> QED BY <2>1, <2>7, <2>8, <2>9, <2>10, <2>11, <2>12 DEF KeysComeOnce, Arriving
<1>12. i \in Rows \cup {NoRow} /\ {} \in SUBSET ListedRows /\ i = call[c].id
  BY <1>0, <1>2
<1> QED BY <1>1, <1>8, <1>10, <1>11, <1>12, ReplyStep

-----------------------------------------------------------------------------
(* What the page does with an answer.                                      *)

(* Where nothing is in doubt, the only request answers for the page.       *)
LEMMA FitsUndoubted == ASSUME ListInv, NEW c \in PanelCalls, Busy(c), ~doubt PROVE call[c].alone /\ AnswerFits(c)
BY DEF ListInv, ListsTell, NoDoubt

LEMMA ProjectsArriveStep == ASSUME ListInv, NEW c \in PanelCalls, ProjectsArrive(c) PROVE ListInv'
<1>1. /\ call[c].op = "projects" /\ page' = page /\ role' = role /\ table' = table /\ shown' = shown /\ form' = form
      /\ saving' = saving /\ revoking' = revoking /\ newKey' = newKey /\ unseen' = unseen
  BY DEF ProjectsArrive, AnsweredTo
<1>2. page # "projects" /\ ~Busy(c)
  BY <1>1 DEF ListInv, PagesAreShaped, CallsAreShaped, CallIsShaped, Busy
<1>3. CASE Accepted(c)
  <2> DEFINE request == List(FirstProject)
  <2>1. projects' = ListProjects /\ selected' = FirstProject /\ Sent(c, request)
    BY <1>3 DEF ProjectsArrive
  <2>2. request \in CallRecords /\ request.op = "list" /\ request.project = FirstProject
    BY ListPanelsAssumption DEF List, Idle, CallRecords, Texts
  <2>3. doubt' \in BOOLEAN
    BY <2>1, SentDoubt
  <2>4. StateIsTyped'
    BY <1>1, <2>1, <2>3, ListPanelsAssumption DEF ListInv, StateIsTyped, Rows, ListedRows
  <2> HIDE DEF request
  <2> QED BY <1>1, <1>2, <2>1, <2>2, <2>4, SentStep
<1>4. CASE ~Accepted(c)
  <2>1. Finish(c) /\ projects' = projects /\ selected' = selected /\ doubt' = doubt
    BY <1>4 DEF ProjectsArrive
  <2>2. StateIsTyped'
    BY <1>1, <2>1 DEF ListInv, StateIsTyped, Rows, ListedRows
  <2>3. KeysComeOnce'
    BY <1>1, <2>1, FinishKeys
  <2>4. page = "policies" => form'.editing = form'.of
    BY <1>1 DEF ListInv, FormIsOfItsRow
  <2>5. (page # "policies" => ~form'.open) /\ (page # "keys" => newKey' = NoRow)
    BY <1>1 DEF ListInv, PagesAreShaped
  <2> QED BY <1>1, <1>2, <2>1, <2>2, <2>3, <2>4, <2>5, FinishStep
<1> QED BY <1>3, <1>4

LEMMA ListArrivesStep == ASSUME ListInv, NEW c \in PanelCalls, ListArrives(c) PROVE ListInv'
<1>1. /\ call[c].op = "list" /\ call[c].stage \in {"answered", "refused"}
      /\ shown' = call[c].rows /\ doubt' = (IF call[c].alone THEN ~Accepted(c) ELSE doubt) /\ Finish(c)
      /\ page' = page /\ role' = role /\ table' = table /\ form' = form /\ projects' = projects /\ selected' = selected
      /\ saving' = saving /\ revoking' = revoking /\ newKey' = newKey /\ unseen' = unseen
  BY DEF ListArrives, AnsweredTo
<1>2. Busy(c)
  BY <1>1 DEF Busy, Under
<1>3. doubt' \in BOOLEAN /\ shown' \subseteq ListedRows
  <2>1. (IF call[c].alone THEN ~Accepted(c) ELSE doubt) \in BOOLEAN
    BY DEF ListInv, StateIsTyped
  <2>2. doubt' \in BOOLEAN
    BY Zenon, <1>1, <2>1
  <2>3. call[c].rows \in SUBSET ListedRows
    BY DEF ListInv, Calls, CallRecords
  <2> QED BY <1>1, <2>2, <2>3
<1>4. StateIsTyped'
  BY <1>1, <1>3 DEF ListInv, StateIsTyped, Rows, ListedRows
<1>5. KeysComeOnce'
  BY <1>1, FinishKeys
<1>6. ~doubt' => (~doubt \/ call[c].alone) /\ shown' = RowsOf(selected)
  <2> SUFFICES ASSUME ~doubt' PROVE (~doubt \/ call[c].alone) /\ shown' = RowsOf(selected)
    OBVIOUS
  <2>1. call[c].alone
    BY <1>1, <1>2, FitsUndoubted
  <2>2. call[c].stage = "answered"
    BY <1>1, <2>1 DEF Accepted
  <2> QED BY <1>1, <1>2, <2>1, <2>2 DEF ListInv, ListsTell, AloneIsAlone
<1>7. page = "policies" => form'.editing = form'.of
  BY <1>1 DEF ListInv, FormIsOfItsRow
<1>8. (page # "policies" => ~form'.open) /\ (page # "keys" => newKey' = NoRow)
  BY <1>1 DEF ListInv, PagesAreShaped
<1> QED BY <1>1, <1>2, <1>4, <1>5, <1>6, <1>7, <1>8, FinishStep

(* A refused request has changed nothing and leaves what is shown.         *)
LEMMA RefusedShows ==
  ASSUME ListInv, NEW c \in PanelCalls, Busy(c), ~doubt, call[c].op \notin {"list", "refresh"}, call[c].stage = "refused"
  PROVE  shown = RowsOf(selected)
BY FitsUndoubted DEF AnswerFits

(* A request that ends and leaves form, selection and keys alone.          *)
LEMMA PlainStep ==
  ASSUME ListInv, NEW c \in PanelCalls, Finish(c), Busy(c), call[c].op # "revoke",
         page' = page, role' = role, table' = table, selected' = selected, projects' = projects,
         newKey' = newKey, unseen' = unseen, revoking' = revoking,
         saving' \in BOOLEAN, doubt' \in BOOLEAN, form' = form \/ form' = NoForm, shown' \subseteq ListedRows,
         ~doubt' => ~doubt /\ shown' = RowsOf(selected)
  PROVE  ListInv'
<1>1. form' \in [open : BOOLEAN, editing : Rows \cup {NoRow}, of : Rows \cup {NoRow}]
  <2>1. NoForm \in [open : BOOLEAN, editing : Rows \cup {NoRow}, of : Rows \cup {NoRow}]
    BY DEF NoForm
  <2>2. form \in [open : BOOLEAN, editing : Rows \cup {NoRow}, of : Rows \cup {NoRow}]
    BY DEF ListInv, StateIsTyped
  <2> QED BY <2>1, <2>2
<1>2. StateIsTyped'
  BY <1>1 DEF ListInv, StateIsTyped, Rows, ListedRows
<1>3. KeysComeOnce'
  BY FinishKeys
<1>4. page = "policies" => form'.editing = form'.of
  BY DEF ListInv, FormIsOfItsRow, NoForm
<1>5. (page # "policies" => ~form'.open) /\ (page # "keys" => newKey' = NoRow)
  BY DEF ListInv, PagesAreShaped, NoForm
<1> QED BY <1>2, <1>3, <1>4, <1>5, FinishStep

(* An answer to the creation of a row, by the three pages.                 *)
LEMMA CreatedShows ==
  ASSUME ListInv, NEW c \in PanelCalls, call[c].op = "create", call[c].stage \in {"answered", "refused"},
         shown' = IF Accepted(c) THEN shown \cup {CreatedRow(c)} ELSE shown
  PROVE  Busy(c) /\ shown' \subseteq ListedRows /\ (~doubt => shown' = RowsOf(selected))
<1>1. Busy(c)
  BY DEF Busy, Under
<1>2. Accepted(c) => CreatedRow(c) \in ListedRows
  <2>1. call[c].arg = "created" /\ (Accepted(c) => call[c].id \in Rows)
    BY DEF ListInv, PagesAreShaped, CallsAreShaped, CallIsShaped, Accepted
  <2> QED BY <2>1 DEF CreatedRow, ListedRows, Texts
<1>3. shown' \subseteq ListedRows
  BY <1>2 DEF ListInv, StateIsTyped
<1>4. ~doubt => shown' = RowsOf(selected)
  BY <1>1, FitsUndoubted DEF AnswerFits, Accepted
<1> QED BY <1>1, <1>3, <1>4

LEMMA ProjectArrivesStep == ASSUME ListInv, NEW c \in PanelCalls, ProjectArrives(c) PROVE ListInv'
<1>1. /\ call[c].op = "create" /\ call[c].stage \in {"answered", "refused"} /\ Finish(c)
      /\ shown' = IF Accepted(c) THEN shown \cup {CreatedRow(c)} ELSE shown
      /\ page' = page /\ role' = role /\ table' = table /\ form' = form /\ projects' = projects /\ selected' = selected
      /\ saving' = saving /\ revoking' = revoking /\ newKey' = newKey /\ unseen' = unseen /\ doubt' = doubt
  BY DEF ProjectArrives, AnsweredTo
<1>2. saving' \in BOOLEAN /\ doubt' \in BOOLEAN
  BY <1>1 DEF ListInv, StateIsTyped
<1>3. Busy(c) /\ shown' \subseteq ListedRows /\ (~doubt => shown' = RowsOf(selected))
  BY <1>1, CreatedShows
<1> QED BY <1>1, <1>2, <1>3, PlainStep

LEMMA PolicyCreatedStep == ASSUME ListInv, NEW c \in PanelCalls, PolicyCreated(c) PROVE ListInv'
<1>1. /\ call[c].op = "create" /\ call[c].stage \in {"answered", "refused"} /\ Finish(c)
      /\ shown' = IF Accepted(c) THEN shown \cup {CreatedRow(c)} ELSE shown
      /\ form' = form \/ form' = NoForm
      /\ saving' = FALSE
      /\ page' = page /\ role' = role /\ table' = table /\ projects' = projects /\ selected' = selected
      /\ revoking' = revoking /\ newKey' = newKey /\ unseen' = unseen /\ doubt' = doubt
  BY DEF PolicyCreated, AnsweredTo
<1>2. saving' \in BOOLEAN /\ doubt' \in BOOLEAN
  BY <1>1 DEF ListInv, StateIsTyped
<1>3. Busy(c) /\ shown' \subseteq ListedRows /\ (~doubt => shown' = RowsOf(selected))
  BY <1>1, CreatedShows
<1> QED BY <1>1, <1>2, <1>3, PlainStep

LEMMA ToggleArrivesStep == ASSUME ListInv, NEW c \in PanelCalls, ToggleArrives(c) PROVE ListInv'
<1>1. /\ call[c].op = "toggle" /\ call[c].stage \in {"answered", "refused"} /\ Finish(c)
      /\ shown' = Toggled(call[c].id) /\ doubt' = (doubt \/ ~Accepted(c))
      /\ page' = page /\ role' = role /\ table' = table /\ form' = form /\ projects' = projects /\ selected' = selected
      /\ saving' = saving /\ revoking' = revoking /\ newKey' = newKey /\ unseen' = unseen
  BY DEF ToggleArrives, AnsweredTo, Toggled
<1>2. saving' \in BOOLEAN /\ doubt' \in BOOLEAN
  <2>1. (doubt \/ ~Accepted(c)) \in BOOLEAN
    OBVIOUS
  <2>2. doubt' \in BOOLEAN
    BY Zenon, <1>1, <2>1
  <2> QED BY <1>1, <2>2 DEF ListInv, StateIsTyped
<1>3. Busy(c)
  BY <1>1 DEF Busy, Under
<1>4. shown' \subseteq ListedRows
  <2>1. \A r \in ListedRows : [r EXCEPT !.on = IF @ = "on" THEN "off" ELSE "on"] \in ListedRows
    BY DEF ListedRows
  <2> QED BY <1>1, <2>1 DEF ListInv, StateIsTyped, Toggled
<1>5. ~doubt' => ~doubt /\ shown' = RowsOf(selected)
  BY <1>1, <1>3, FitsUndoubted DEF AnswerFits, Accepted
<1> QED BY <1>1, <1>2, <1>3, <1>4, <1>5, PlainStep

LEMMA DeleteArrivesStep == ASSUME ListInv, NEW c \in PanelCalls, DeleteArrives(c) PROVE ListInv'
<1>1. /\ call[c].op = "delete" /\ call[c].stage \in {"answered", "refused"} /\ Finish(c)
      /\ shown' = {r \in shown : r.id # call[c].id} /\ doubt' = (doubt \/ ~Accepted(c))
      /\ page' = page /\ role' = role /\ table' = table /\ form' = form /\ projects' = projects /\ selected' = selected
      /\ saving' = saving /\ revoking' = revoking /\ newKey' = newKey /\ unseen' = unseen
  BY DEF DeleteArrives, AnsweredTo
<1>2. saving' \in BOOLEAN /\ doubt' \in BOOLEAN
  <2>1. (doubt \/ ~Accepted(c)) \in BOOLEAN
    OBVIOUS
  <2>2. doubt' \in BOOLEAN
    BY Zenon, <1>1, <2>1
  <2> QED BY <1>1, <2>2 DEF ListInv, StateIsTyped
<1>3. Busy(c)
  BY <1>1 DEF Busy, Under
<1>4. shown' \subseteq ListedRows
  BY <1>1 DEF ListInv, StateIsTyped
<1>5. ~doubt' => ~doubt /\ shown' = RowsOf(selected)
  BY <1>1, <1>3, FitsUndoubted DEF AnswerFits, Accepted
<1> QED BY <1>1, <1>2, <1>3, <1>4, <1>5, PlainStep

LEMMA RefreshArrivesStep == ASSUME ListInv, NEW c \in PanelCalls, RefreshArrives(c) PROVE ListInv'
<1>1. /\ call[c].op = "refresh" /\ call[c].stage \in {"answered", "refused"} /\ Finish(c)
      /\ shown' = call[c].rows /\ doubt' = (doubt \/ ~Accepted(c)) /\ form' = NoForm /\ saving' = FALSE
      /\ page' = page /\ role' = role /\ table' = table /\ projects' = projects /\ selected' = selected
      /\ revoking' = revoking /\ newKey' = newKey /\ unseen' = unseen
  BY DEF RefreshArrives, AnsweredTo
<1>2. saving' \in BOOLEAN /\ doubt' \in BOOLEAN
  <2>1. (doubt \/ ~Accepted(c)) \in BOOLEAN
    OBVIOUS
  <2>2. doubt' \in BOOLEAN
    BY Zenon, <1>1, <2>1
  <2> QED BY <1>1, <2>2
<1>3. Busy(c)
  BY <1>1 DEF Busy, Under
<1>4. shown' \subseteq ListedRows
  BY <1>1 DEF ListInv, Calls, CallRecords
<1>5. ~doubt' => ~doubt /\ shown' = RowsOf(selected)
  BY <1>1, <1>3, FitsUndoubted DEF AnswerFits, Accepted
<1> QED BY <1>1, <1>2, <1>3, <1>4, <1>5, PlainStep

LEMMA CallFailsStep == ASSUME ListInv, NEW c \in PanelCalls, CallFails(c) PROVE ListInv'
<1>1. /\ Under(c) /\ Finish(c)
      /\ doubt' = (doubt \/ call[c].op # "projects")
      /\ saving' = (saving /\ ~(page = "policies" /\ call[c].op \in {"create", "edit", "refresh"}))
      /\ revoking' = (IF call[c].op = "revoke" THEN NoRow ELSE revoking)
      /\ unseen' = (IF call[c].op = "revoke" THEN unseen \cup {call[c].id} ELSE unseen)
      /\ page' = page /\ role' = role /\ table' = table /\ projects' = projects /\ selected' = selected
      /\ shown' = shown /\ form' = form /\ newKey' = newKey
  BY DEF CallFails
<1>2. saving' \in BOOLEAN /\ doubt' \in BOOLEAN
  <2>1. (doubt \/ call[c].op # "projects") \in BOOLEAN
    OBVIOUS
  <2>2. doubt' \in BOOLEAN
    BY Zenon, <1>1, <2>1
  <2>3. (saving /\ ~(page = "policies" /\ call[c].op \in {"create", "edit", "refresh"})) \in BOOLEAN
    OBVIOUS
  <2>4. saving' \in BOOLEAN
    BY Zenon, <1>1, <2>3
  <2> QED BY <2>2, <2>4
<1>3. call[c].op = "revoke" => call[c].id \in Rows
  BY DEF ListInv, PagesAreShaped, CallsAreShaped, CallIsShaped
<1>4. StateIsTyped'
  BY <1>1, <1>2, <1>3 DEF ListInv, StateIsTyped, Rows, ListedRows
<1>5. KeysComeOnce'
  BY <1>1, FinishKeys
<1>6. Busy(c) => doubt'
  BY <1>1 DEF Busy
<1>7. ~Busy(c) => doubt' = doubt
  <2>1. ~Busy(c) => call[c].op = "projects"
    BY <1>1 DEF Busy
  <2>2. doubt \in BOOLEAN
    BY DEF ListInv, StateIsTyped
  <2> QED BY Zenon, <1>1, <2>1, <2>2
<1>8. page = "policies" => form'.editing = form'.of
  BY <1>1 DEF ListInv, FormIsOfItsRow
<1>9. (page # "policies" => ~form'.open) /\ (page # "keys" => newKey' = NoRow)
  BY <1>1 DEF ListInv, PagesAreShaped
<1> QED BY <1>1, <1>4, <1>5, <1>6, <1>7, <1>8, <1>9, FinishStep

LEMMA KeyArrivesStep == ASSUME ListInv, NEW c \in PanelCalls, KeyArrives(c) PROVE ListInv'
<1>1. /\ page = "keys" /\ call[c].op = "create" /\ call[c].stage \in {"answered", "refused"} /\ Finish(c)
      /\ shown' = IF Accepted(c) THEN shown \cup {CreatedRow(c)} ELSE shown
      /\ newKey' = IF Accepted(c) THEN call[c].id ELSE newKey
      /\ page' = page /\ role' = role /\ table' = table /\ form' = form /\ projects' = projects /\ selected' = selected
      /\ saving' = saving /\ revoking' = revoking /\ unseen' = unseen /\ doubt' = doubt
  BY DEF KeyArrives, AnsweredTo
<1>2. Busy(c) /\ shown' \subseteq ListedRows /\ (~doubt => shown' = RowsOf(selected))
  BY <1>1, CreatedShows
<1>3. Accepted(c) => call[c].id \in Rows /\ Arriving(c, call[c].id)
  BY <1>1 DEF ListInv, PagesAreShaped, CallsAreShaped, CallIsShaped, Accepted, Arriving
<1>4. StateIsTyped'
  BY <1>1, <1>2, <1>3 DEF ListInv, StateIsTyped, Rows, ListedRows
<1>5. KeysComeOnce'
  <2>1. CASE ~Accepted(c)
    BY <1>1, <2>1, FinishKeys
  <2>2. CASE Accepted(c)
    <3> DEFINE i == call[c].id
    <3>1. newKey' = i /\ i \in Rows /\ Arriving(c, i) /\ Rows' = Rows
      BY <1>1, <1>3, <2>2 DEF Rows
    <3> HIDE DEF i
    <3>2. /\ call'[c] = Idle /\ \A d \in PanelCalls \ {c} : call'[d] = call[d]
      BY <1>1, FinishedCalls DEF ListInv
    <3>3. \A d \in PanelCalls : \A j : Arriving(d, j)' => Arriving(d, j) /\ d # c
      BY <3>2 DEF Arriving, Idle
    <3>4. table[i] # Gone /\ \A d \in PanelCalls : d # c => ~Arriving(d, i)
      BY <1>1, <3>1 DEF ListInv, KeysComeOnce
    <3>5. \A d \in PanelCalls : call'[d].op = "revoke" => call'[d] = call[d]
      BY <3>2 DEF Idle
    <3>6. \A d \in PanelCalls : call[d].op = "revoke" => call'[d] = call[d]
      BY <1>1, <3>2
    <3>7. \A d \in PanelCalls : call'[d].op = "revoke" /\ call'[d].id \notin unseen =>
            /\ call'[d].arg = "shown" /\ table[call'[d].id] # Gone
            /\ \A e \in PanelCalls :
                 ~ (call'[e].op = "create" /\ call'[e].stage = "answered" /\ call'[e].id = call'[d].id)
      <4>1. \A e \in PanelCalls : \A j :
              call'[e].op = "create" /\ call'[e].stage = "answered" /\ call'[e].id = j => Arriving(e, j)
        BY <3>3 DEF Arriving
      <4> QED BY <1>1, <3>5, <4>1 DEF ListInv, KeysComeOnce
    <3>8. ASSUME NEW j \in Rows, table[j].on = "off", j \notin unseen
          PROVE  \/ \E d \in PanelCalls : call'[d].op = "revoke" /\ call'[d].stage = "answered" /\ call'[d].id = j
                 \/ i # j /\ \A d \in PanelCalls : ~Arriving(d, j)'
      <4>1. \/ \E d \in PanelCalls : call[d].op = "revoke" /\ call[d].stage = "answered" /\ call[d].id = j
            \/ newKey # j /\ \A d \in PanelCalls : ~Arriving(d, j)
        BY <1>1, <3>8 DEF ListInv, KeysComeOnce
      <4> QED BY <3>1, <3>3, <3>6, <4>1
    <3>9. \A d \in PanelCalls : ~Arriving(d, newKey)'
      BY <3>1, <3>3, <3>4
    <3>10. \A d \in PanelCalls, j \in Rows : Arriving(d, j)' => table[j] # Gone
      BY <1>1, <3>3 DEF ListInv, KeysComeOnce
    <3>11. \A d, e \in PanelCalls, j \in Rows : Arriving(d, j)' /\ Arriving(e, j)' => d = e
      BY <1>1, <3>3 DEF ListInv, KeysComeOnce
    <3> QED BY <1>1, <3>1, <3>4, <3>7, <3>8, <3>9, <3>10, <3>11 DEF KeysComeOnce, Arriving
  <2> QED BY <2>1, <2>2
<1>6. page = "policies" => form'.editing = form'.of
  BY <1>1
<1>7. (page # "policies" => ~form'.open) /\ (page # "keys" => newKey' = NoRow)
  BY <1>1 DEF ListInv, PagesAreShaped
<1> QED BY <1>1, <1>2, <1>4, <1>5, <1>6, <1>7, FinishStep

LEMMA RevocationArrivesStep == ASSUME ListInv, NEW c \in PanelCalls, RevocationArrives(c) PROVE ListInv'
<1>1. /\ call[c].op = "revoke" /\ call[c].stage \in {"answered", "refused"} /\ Finish(c)
      /\ shown' = (IF Accepted(c) THEN WithOn(call[c].id, "off") ELSE shown)
      /\ newKey' = (IF Accepted(c) /\ call[c].arg = "shown" THEN NoRow ELSE newKey)
      /\ revoking' = NoRow
      /\ page' = page /\ role' = role /\ table' = table /\ form' = form /\ projects' = projects /\ selected' = selected
      /\ saving' = saving /\ unseen' = unseen /\ doubt' = doubt
  BY DEF RevocationArrives, AnsweredTo
<1>2. Busy(c)
  BY <1>1 DEF Busy, Under
<1>3. shown' \subseteq ListedRows
  <2>1. \A r \in ListedRows : [r EXCEPT !.on = "off"] \in ListedRows
    BY DEF ListedRows
  <2> QED BY <1>1, <2>1 DEF ListInv, StateIsTyped, WithOn
<1>4. ~doubt => shown' = RowsOf(selected)
  BY <1>1, <1>2, FitsUndoubted DEF AnswerFits, Accepted
<1>5. StateIsTyped'
  BY <1>1, <1>3 DEF ListInv, StateIsTyped, Rows, ListedRows
<1>6. page = "keys"
  BY <1>1 DEF ListInv, PagesAreShaped, CallsAreShaped, CallIsShaped
<1>7. KeysComeOnce'
  <2>1. Rows' = Rows /\ call'[c] = Idle /\ \A d \in PanelCalls \ {c} : call'[d] = call[d]
    BY <1>1, FinishedCalls DEF ListInv, Rows
  <2>2. \A d \in PanelCalls : \A j : Arriving(d, j)' => Arriving(d, j)
    BY <2>1 DEF Arriving, Idle
  <2>3. \A d \in PanelCalls : call'[d].op = "revoke" => call'[d] = call[d]
    BY <2>1 DEF Idle
  <2>4. newKey' = NoRow \/ newKey' = newKey
    BY <1>1
  <2>5. \A d \in PanelCalls : call'[d].op = "revoke" /\ call'[d].id \notin unseen =>
          /\ call'[d].arg = "shown" /\ table[call'[d].id] # Gone
          /\ \A e \in PanelCalls :
               ~ (call'[e].op = "create" /\ call'[e].stage = "answered" /\ call'[e].id = call'[d].id)
    <3>1. \A e \in PanelCalls : \A j :
            call'[e].op = "create" /\ call'[e].stage = "answered" /\ call'[e].id = j => Arriving(e, j)
      BY <2>2 DEF Arriving
    <3> QED BY <1>6, <2>3, <3>1 DEF ListInv, KeysComeOnce
  <2>6. newKey' # NoRow => table[newKey'] # Gone /\ \A d \in PanelCalls : ~Arriving(d, newKey)'
    BY <1>6, <2>2, <2>4 DEF ListInv, KeysComeOnce
  <2>7. ASSUME NEW j \in Rows, table[j].on = "off", j \notin unseen
        PROVE  \/ \E d \in PanelCalls : call'[d].op = "revoke" /\ call'[d].stage = "answered" /\ call'[d].id = j
               \/ newKey' # j /\ \A d \in PanelCalls : ~Arriving(d, j)'
    <3>1. \/ \E d \in PanelCalls : call[d].op = "revoke" /\ call[d].stage = "answered" /\ call[d].id = j
          \/ newKey # j /\ \A d \in PanelCalls : ~Arriving(d, j)
      BY <1>6, <2>7 DEF ListInv, KeysComeOnce
    <3>2. j # NoRow
      BY NoRowIsNoRow
    <3>3. CASE call[c].stage = "answered" /\ call[c].id = j
      <4>1. call[c].arg = "shown" /\ \A d \in PanelCalls : ~Arriving(d, j)
        BY <1>1, <1>6, <2>7, <3>3 DEF ListInv, KeysComeOnce
      <4>2. newKey' = NoRow
        BY <1>1, <3>3, <4>1 DEF Accepted
      <4> QED BY <2>2, <3>2, <4>1, <4>2
    <3>4. CASE ~ (call[c].stage = "answered" /\ call[c].id = j)
      BY <2>1, <2>2, <2>4, <3>1, <3>2, <3>4
    <3> QED BY <3>3, <3>4
  <2>8. \A d \in PanelCalls, j \in Rows : Arriving(d, j)' => table[j] # Gone
    BY <1>6, <2>2 DEF ListInv, KeysComeOnce
  <2>9. \A d, e \in PanelCalls, j \in Rows : Arriving(d, j)' /\ Arriving(e, j)' => d = e
    BY <1>6, <2>2 DEF ListInv, KeysComeOnce
  <2> QED BY <1>1, <2>1, <2>5, <2>6, <2>7, <2>8, <2>9 DEF KeysComeOnce, Arriving
<1>8. page = "policies" => form'.editing = form'.of
  BY <1>6
<1>9. (page # "policies" => ~form'.open) /\ (page # "keys" => newKey' = NoRow)
  BY <1>1, <1>6 DEF ListInv, PagesAreShaped
<1> QED BY <1>1, <1>2, <1>4, <1>5, <1>7, <1>8, <1>9, FinishStep

LEMMA PolicyUpdatedStep == ASSUME ListInv, NEW c \in PanelCalls, PolicyUpdated(c) PROVE ListInv'
<1>1. /\ call[c].op = "edit" /\ call[c].stage \in {"answered", "refused"}
      /\ page' = page /\ role' = role /\ table' = table /\ shown' = shown /\ form' = form /\ projects' = projects
      /\ selected' = selected /\ revoking' = revoking /\ newKey' = newKey /\ unseen' = unseen /\ doubt' = doubt
  BY DEF PolicyUpdated, AnsweredTo
<1>2. Busy(c) /\ page = "policies"
  BY <1>1 DEF Busy, Under, ListInv, PagesAreShaped, CallsAreShaped, CallIsShaped
<1>3. CASE ~Accepted(c)
  <2>1. saving' = FALSE /\ Finish(c) /\ call[c].stage = "refused"
    BY <1>1, <1>3 DEF PolicyUpdated, Accepted
  <2>2. shown' \subseteq ListedRows /\ doubt' \in BOOLEAN /\ saving' \in BOOLEAN
    BY <1>1, <2>1 DEF ListInv, StateIsTyped
  <2>3. ~doubt => shown' = RowsOf(selected)
    BY <1>1, <1>2, <2>1, RefusedShows
  <2> QED BY <1>1, <1>2, <2>1, <2>2, <2>3, PlainStep
<1>4. CASE Accepted(c)
  <2> DEFINE new == [Idle EXCEPT !.op = "refresh", !.stage = "sent",
                                 !.project = call[c].project, !.alone = call[c].alone]
  <2>1. saving' = saving /\ call' = [call EXCEPT ![c] = new]
    BY <1>4 DEF PolicyUpdated
  <2>2. call[c].project \in ListProjects \cup {All} /\ call[c].alone \in BOOLEAN
    BY DEF ListInv, Calls, CallRecords
  <2>3. /\ new \in CallRecords /\ new.op = "refresh" /\ new.stage = "sent"
        /\ new.project = call[c].project
    BY <2>2 DEF Idle, CallRecords
  <2>4. new.alone = call[c].alone
    BY DEF Idle
  <2> HIDE DEF new
  <2>5. call'[c] = new /\ \A d \in PanelCalls \ {c} : call'[d] = call[d]
    BY <2>1 DEF ListInv, Calls
  <2>6. CallRecords' = CallRecords /\ Rows' = Rows
    BY <1>1 DEF CallRecords, ListedRows, Rows
  <2>7. Calls'
    BY <2>1, <2>3, <2>6 DEF ListInv, Calls
  <2>8. StateIsTyped'
    BY <1>1, <2>1 DEF ListInv, StateIsTyped, Rows, ListedRows
  <2>9. CallsAreShaped'
    <3>1. CallIsShaped(c)'
      BY <1>1, <1>2, <2>3, <2>5 DEF CallIsShaped
    <3>2. \A d \in PanelCalls \ {c} : CallIsShaped(d)'
      BY <1>1, <2>5, <2>6 DEF ListInv, PagesAreShaped, CallsAreShaped, CallIsShaped
    <3> QED BY <3>1, <3>2 DEF CallsAreShaped
  <2>10. PagesAreShaped'
    BY <1>1, <2>6, <2>9 DEF ListInv, PagesAreShaped, RowsAreWhole
  <2>11. RowsOf(selected)' = RowsOf(selected)
    BY <1>1, SameRows
  <2>12. \A d \in PanelCalls : /\ Busy(d)' <=> Busy(d)
                               /\ Busy(d) => call'[d].alone = call[d].alone
    BY <1>2, <2>3, <2>4, <2>5 DEF Busy, Under
  <2>13. ASSUME NEW d \in PanelCalls PROVE AloneIsAlone(d)'
    <3>1. AloneIsAlone(d)
      BY DEF ListInv, ListsTell
    <3>2. call'[d].op = "list" => call'[d] = call[d]
      BY <2>3, <2>5
    <3> QED BY <1>1, <2>11, <2>12, <3>1, <3>2 DEF AloneIsAlone
  <2>14. NoDoubt'
    <3> SUFFICES ASSUME ~doubt
                 PROVE  /\ \A d \in PanelCalls : Busy(d)' => call'[d].alone /\ AnswerFits(d)'
                        /\ (\A d \in PanelCalls : ~Busy(d)') => shown' = RowsOf(selected)'
      BY <1>1 DEF NoDoubt
    <3>1. call[c].alone /\ AnswerFits(c)
      BY <1>2, FitsUndoubted
    <3>2. \A d \in PanelCalls : Busy(d) => d = c
      BY <1>2, <3>1 DEF ListInv, ListsTell, AloneIsAlone
    <3>3. AnswerFits(c)'
      BY <1>1, <2>3, <2>5, <3>1 DEF AnswerFits
    <3> QED BY <1>2, <2>12, <3>1, <3>2, <3>3
  <2>15. FormIsOfItsRow'
    BY <1>1, <2>3, <2>5 DEF ListInv, FormIsOfItsRow
  <2>16. KeysComeOnce'
    BY <1>1, <1>2 DEF KeysComeOnce
  <2> QED BY <2>7, <2>8, <2>10, <2>13, <2>14, <2>15, <2>16 DEF ListInv, ListsTell
<1> QED BY <1>3, <1>4

(* The form is opened and closed without a request.                        *)
LEMMA FormStep ==
  ASSUME ListInv, UNCHANGED formLeaves,
         form' \in [open : BOOLEAN, editing : Rows \cup {NoRow}, of : Rows \cup {NoRow}],
         page = "policies" => form'.editing = form'.of,
         page # "policies" => ~form'.open
  PROVE  ListInv'
<1>1. /\ page' = page /\ role' = role /\ table' = table /\ projects' = projects /\ selected' = selected
      /\ shown' = shown /\ saving' = saving /\ revoking' = revoking /\ newKey' = newKey /\ call' = call
      /\ doubt' = doubt /\ unseen' = unseen /\ Rows' = Rows
  BY DEF formLeaves, Rows
<1>2. StateIsTyped' /\ Calls'
  BY <1>1 DEF ListInv, StateIsTyped, Calls, CallRecords, ListedRows, Rows
<1>3. PagesAreShaped'
  BY <1>1 DEF ListInv, PagesAreShaped, CallsAreShaped, CallIsShaped, RowsAreWhole
<1>4. RowsOf(selected)' = RowsOf(selected)
  BY <1>1, SameRows
<1>5. \A d \in PanelCalls : (Busy(d)' <=> Busy(d)) /\ (AnswerFits(d) => AnswerFits(d)')
  BY <1>1, <1>4 DEF Busy, Under, AnswerFits, CreatedRow, Toggled, WithOn
<1>6. ListsTell'
  <2>1. \A d \in PanelCalls : AloneIsAlone(d)'
    BY <1>1, <1>4, <1>5 DEF ListInv, ListsTell, AloneIsAlone
  <2>2. NoDoubt'
    BY <1>1, <1>4, <1>5 DEF ListInv, ListsTell, NoDoubt
  <2> QED BY <2>1, <2>2 DEF ListsTell
<1>7. FormIsOfItsRow'
  BY <1>1 DEF ListInv, FormIsOfItsRow
<1>8. KeysComeOnce'
  BY <1>1 DEF ListInv, KeysComeOnce, Arriving
<1> QED BY <1>2, <1>3, <1>6, <1>7, <1>8 DEF ListInv

LEMMA FormsStep ==
  ASSUME ListInv, OpenCreate \/ CancelForm \/ \E row \in shown : OpenEdit(row) PROVE ListInv'
<1>1. CASE OpenCreate
  <2>1. page = "policies" /\ UNCHANGED formLeaves /\ form' = [open |-> TRUE, editing |-> NoRow, of |-> NoRow]
    BY <1>1 DEF OpenCreate
  <2> QED BY <2>1, FormStep
<1>2. CASE CancelForm
  <2>1. UNCHANGED formLeaves /\ form' = [form EXCEPT !.open = FALSE]
    BY <1>2 DEF CancelForm
  <2>2. form \in [open : BOOLEAN, editing : Rows \cup {NoRow}, of : Rows \cup {NoRow}]
    BY DEF ListInv, StateIsTyped
  <2>3. /\ form' \in [open : BOOLEAN, editing : Rows \cup {NoRow}, of : Rows \cup {NoRow}]
        /\ form'.editing = form.editing /\ form'.of = form.of /\ ~form'.open
    BY <2>1, <2>2
  <2>4. page = "policies" => form.editing = form.of
    BY DEF ListInv, FormIsOfItsRow
  <2> QED BY <2>1, <2>3, <2>4, FormStep
<1>3. CASE \E row \in shown : OpenEdit(row)
  <2>1. PICK row \in shown : OpenEdit(row)
    BY <1>3
  <2>2. page = "policies" /\ UNCHANGED formLeaves /\ form' = [open |-> TRUE, editing |-> row.id, of |-> row.id]
    BY <2>1 DEF OpenEdit
  <2>3. row.id \in Rows
    BY DEF ListInv, StateIsTyped, ListedRows
  <2> QED BY <2>2, <2>3, FormStep
<1> QED BY <1>1, <1>2, <1>3

LEMMA ListPanelsStart == ListPanelsInit => ListInv
<1> SUFFICES ASSUME ListPanelsInit PROVE ListInv
  OBVIOUS
<1>1. /\ page \in {"keys", "policies", "projects"} /\ role \in Members
      /\ table \in [Rows -> {Gone, [project |-> IF page = "projects" THEN All ELSE FirstProject,
                                   on |-> "on", text |-> "created"]}]
      /\ projects = {} /\ selected = All /\ shown = {}
      /\ form = NoForm /\ saving = FALSE /\ revoking = NoRow /\ newKey = NoRow
      /\ doubt = TRUE /\ unseen = {}
  BY DEF ListPanelsInit
<1> DEFINE first == [Idle EXCEPT !.op = "projects", !.stage = "sent"]
           list == [List(All) EXCEPT !.stage = "sent"]
<1>2. PICK c \in PanelCalls, d \in PanelCalls :
        /\ c # d
        /\ call = [x \in PanelCalls |->
             IF x = c /\ page # "projects" THEN first ELSE IF x = d THEN list ELSE Idle]
  BY DEF ListPanelsInit
<1>3. /\ first \in CallRecords /\ first.op = "projects" /\ first.stage = "sent"
      /\ list \in CallRecords /\ list.op = "list" /\ list.stage = "sent" /\ list.project = All
      /\ Idle \in CallRecords /\ Idle.op = "none" /\ Idle.stage = "idle"
  BY DEF List, Idle, CallRecords, Texts
<1> HIDE DEF first, list
<1>4. \A x \in PanelCalls : \/ call[x] = first /\ page # "projects"
                            \/ call[x] = list /\ x = d
                            \/ call[x] = Idle
  BY <1>2
<1>5. StateIsTyped
  <2>1. NoForm \in [open : BOOLEAN, editing : Rows \cup {NoRow}, of : Rows \cup {NoRow}]
    BY DEF NoForm
  <2>2. {Gone, [project |-> IF page = "projects" THEN All ELSE FirstProject, on |-> "on", text |-> "created"]}
          \subseteq [project : ListProjects \cup {All}, on : {"on", "off", "gone"}, text : Texts \cup {"none"}]
    BY ListPanelsAssumption DEF Gone, Texts
  <2>3. table \in [Rows -> [project : ListProjects \cup {All}, on : {"on", "off", "gone"}, text : Texts \cup {"none"}]]
    BY <1>1, <2>2
  <2> QED BY <1>1, <2>1, <2>3 DEF StateIsTyped
<1>6. Calls
  BY <1>2, <1>3 DEF Calls
<1>7. PagesAreShaped
  <2>1. CallsAreShaped
    BY <1>3, <1>4 DEF CallsAreShaped, CallIsShaped
  <2>2. RowsAreWhole
    BY <1>1 DEF RowsAreWhole, Texts
  <2> QED BY <1>1, <2>1, <2>2 DEF PagesAreShaped, NoForm
<1>8. ListsTell
  <2>1. \A x \in PanelCalls : Busy(x) => x = d /\ call[x] = list
    BY <1>3, <1>4 DEF Busy, Under
  <2>2. \A x \in PanelCalls : AloneIsAlone(x)
    BY <1>1, <1>3, <2>1 DEF AloneIsAlone
  <2> QED BY <1>1, <2>2 DEF ListsTell, NoDoubt
<1>9. FormIsOfItsRow
  BY <1>1, <1>3, <1>4 DEF FormIsOfItsRow, NoForm
<1>10. KeysComeOnce
  <2>1. \A x \in PanelCalls : call[x].op # "create" /\ call[x].op # "revoke"
    BY <1>3, <1>4
  <2>2. \A i \in Rows : table[i].on # "off"
    BY <1>1 DEF Gone
  <2> QED BY <1>1, <2>1, <2>2 DEF KeysComeOnce, Arriving
<1> QED BY <1>5, <1>6, <1>7, <1>8, <1>9, <1>10 DEF ListInv

LEMMA ListStutter == ASSUME ListInv, UNCHANGED listVars PROVE ListInv'
<1>1. UNCHANGED formLeaves /\ form' = form
  BY DEF listVars, formLeaves
<1>2. /\ form \in [open : BOOLEAN, editing : Rows \cup {NoRow}, of : Rows \cup {NoRow}]
      /\ page = "policies" => form.editing = form.of
      /\ page # "policies" => ~form.open
  BY DEF ListInv, StateIsTyped, FormIsOfItsRow, PagesAreShaped
<1> QED BY <1>1, <1>2, FormStep

LEMMA ListPanelsInvariance == ListPanelsSpec => []ListInv
<1>1. ASSUME ListInv, [ListPanelsNext]_listVars PROVE ListInv'
  <2>1. CASE UNCHANGED listVars
    BY <1>1, <2>1, ListStutter
  <2>2. CASE OpenCreate \/ CancelForm \/ \E row \in shown : OpenEdit(row)
    BY <1>1, <2>2, FormsStep
  <2>3. ASSUME NEW c \in PanelCalls,
               HandleRead(c) \/ HandleCreate(c) \/ HandlePolicyWrite(c) \/ HandleRevoke(c) \/ Refuse(c)
        PROVE  ListInv'
    BY <1>1, <2>3, ReadStep, CreateStepOfRows, PolicyWriteStep, HandleRevokeStep, RefuseStep
  <2>4. ASSUME NEW c \in PanelCalls,
               \/ \E p \in ListProjects \cup {All} : SelectProject(c, p)
               \/ \E row \in shown : RevokeKey(c, row) \/ ToggleEnabled(c, row) \/ DeletePolicy(c, row)
               \/ GenerateKey(c) \/ CreateNewProject(c) \/ SavePolicy(c)
        PROVE  ListInv'
    BY <1>1, <2>4, SelectStep, RevokeStep, PolicyButtonStep, CreateRequestStep, SaveStep
  <2>5. ASSUME NEW c \in PanelCalls,
               \/ ProjectsArrive(c) \/ ListArrives(c) \/ KeyArrives(c) \/ ProjectArrives(c) \/ RevocationArrives(c)
               \/ ToggleArrives(c) \/ DeleteArrives(c) \/ PolicyCreated(c) \/ PolicyUpdated(c) \/ RefreshArrives(c)
               \/ CallFails(c)
        PROVE  ListInv'
    BY <1>1, <2>5, ProjectsArriveStep, ListArrivesStep, KeyArrivesStep, ProjectArrivesStep, RevocationArrivesStep,
       ToggleArrivesStep, DeleteArrivesStep, PolicyCreatedStep, PolicyUpdatedStep, RefreshArrivesStep, CallFailsStep
  <2> QED BY <1>1, <2>1, <2>2, <2>3, <2>4, <2>5 DEF ListPanelsNext
<1> QED BY <1>1, ListPanelsStart, PTL DEF ListPanelsSpec

(* The pages, the tables they list and the requests between them keep      *)
(* their types, for any number of rows and of requests under way.          *)
THEOREM ListPanelsTypeCorrect == ListPanelsSpec => []ListPanelsTypeOK
<1>1. ListInv => ListPanelsTypeOK
  BY ListTypes DEF ListInv
<1> QED BY <1>1, ListPanelsInvariance, PTL

(* Nothing mistyped is stored, decided or answered: a PATCH cannot store a  *)
(* decision that check-action does not know (policyInput.ts), an agent is  *)
(* told one of the answers its surface has, and the pages keep their types. *)
THEOREM DecisionsTypeCorrect == ToolCallsSpec /\ ListPanelsSpec => []TypeOK
<1>1. ToolCallsInit => CallInv /\ CallTypes
  <2>1. ToolCallsInit => CallInv
    BY CallInit
  <2>2. ToolCallsInit => CallTypes
    BY PolicyBounds DEF ToolCallsInit, PoliciesInit, CallTypes, PoliciesTypeOK, ToolCallsTypeOK, Outcomes
  <2> QED BY <2>1, <2>2
<1>2. CallInv /\ CallTypes /\ [ToolCallsNext]_toolCallVars => CallInv' /\ CallTypes'
  BY CallStep, TypesStep
<1>3. ToolCallsSpec => []CallTypes
  BY <1>1, <1>2, PTL DEF ToolCallsSpec
<1>4. CallTypes /\ ListPanelsTypeOK => TypeOK
  BY DEF CallTypes, TypeOK
<1> QED BY <1>3, <1>4, ListPanelsTypeCorrect, PTL

(* PagesTellTheTruth, for any number of rows, people and requests under    *)
(* way: what a page shows is what is stored unless requests overlapped or  *)
(* failed, a save goes to the row whose fields it holds, and a key on the  *)
(* screen works or its revocation explains why not.                        *)
THEOREM PageSafety == ListPanelsSpec => []PagesTellTheTruth
<1>1. ListInv => PagesTellTheTruth
  <2> SUFFICES ASSUME ListInv PROVE PagesTellTheTruth
    OBVIOUS
  <2>1. PageTellsTheTruth
    <3>1. \A c \in PanelCalls : call[c] = Idle => ~Busy(c)
      BY DEF Busy, Under, Idle
    <3> QED BY <3>1 DEF PageTellsTheTruth, ListInv, ListsTell, NoDoubt
  <2>2. SavesGoWhereTheFormSays
    BY DEF SavesGoWhereTheFormSays, ListInv, FormIsOfItsRow
  <2>3. ScreenKeyWorks
    <3> SUFFICES ASSUME newKey # NoRow, table[newKey].on = "off", newKey \notin unseen
                 PROVE  \E c \in PanelCalls : call[c].op = "revoke" /\ call[c].id = newKey
      BY DEF ScreenKeyWorks
    <3>1. newKey \in Rows /\ page = "keys"
      BY DEF ListInv, StateIsTyped, PagesAreShaped
    <3> QED BY <3>1 DEF ListInv, KeysComeOnce
  <2> QED BY <2>1, <2>2, <2>3 DEF PagesTellTheTruth
<1> QED BY <1>1, ListPanelsInvariance, PTL

-----------------------------------------------------------------------------
(* Patterns.  The first i of the pattern's characters cover the first j of *)
(* the subject's in the way cut says.                                      *)
FitsAt(p, s, cut, k) ==
  IF p[k] = "*" THEN cut[k] >= cut[k - 1]
  ELSE cut[k] = cut[k - 1] + 1 /\ p[k] \in {"?", s[cut[k]]}

CoversBy(p, s, i, j, cut) ==
  /\ cut \in [0 .. i -> 0 .. j]
  /\ cut[0] = 0 /\ cut[i] = j
  /\ \A k \in 1 .. i : FitsAt(p, s, cut, k)

Covered(p, s, i, j) == \E cut : CoversBy(p, s, i, j, cut)

LEMMA CoverIsWhole ==
  ASSUME NEW p, NEW s PROVE GlobCovers(p, s) <=> Covered(p, s, Len(p), Len(s))
BY DEF GlobCovers, Covered, CoversBy, FitsAt

LEMMA NothingIsCovered == ASSUME NEW p, NEW s PROVE Covered(p, s, 0, 0)
<1> DEFINE cut == [k \in 0 .. 0 |-> 0]
<1>1. CoversBy(p, s, 0, 0, cut)
  BY DEF CoversBy
<1> QED BY <1>1 DEF Covered

(* One more character, with what it covers: one, or none for a star.       *)
LEMMA CoverGrows ==
  ASSUME NEW p, NEW s, NEW i \in Nat, NEW j \in Nat, NEW l \in Nat, Covered(p, s, i, j),
         \/ p[i + 1] = "*" /\ l \in {j, j + 1}
         \/ p[i + 1] # "*" /\ l = j + 1 /\ p[i + 1] \in {"?", s[j + 1]}
  PROVE  Covered(p, s, i + 1, l)
<1>1. PICK cut : CoversBy(p, s, i, j, cut)
  BY DEF Covered
<1> DEFINE more == [k \in 0 .. i + 1 |-> IF k = i + 1 THEN l ELSE cut[k]]
<1>2. more \in [0 .. i + 1 -> 0 .. l] /\ more[0] = 0 /\ more[i + 1] = l /\ more[i] = j
  BY <1>1 DEF CoversBy
<1>3. \A k \in 0 .. i : more[k] = cut[k]
  OBVIOUS
<1> HIDE DEF more
<1>4. ASSUME NEW k \in 1 .. i PROVE FitsAt(p, s, more, k)
  <2>1. k \in 0 .. i /\ k - 1 \in 0 .. i
    OBVIOUS
  <2>2. more[k] = cut[k] /\ more[k - 1] = cut[k - 1]
    BY <1>3, <2>1
  <2>3. FitsAt(p, s, cut, k)
    BY <1>1 DEF CoversBy
  <2> QED BY <2>2, <2>3 DEF FitsAt
<1>5. FitsAt(p, s, more, i + 1)
  <2>1. i + 1 - 1 = i
    OBVIOUS
  <2> QED BY <1>2, <2>1 DEF FitsAt
<1>6. CoversBy(p, s, i + 1, l, more)
  <2>1. \A k \in 1 .. i + 1 : k \in 1 .. i \/ k = i + 1
    OBVIOUS
  <2> QED BY <1>2, <1>4, <1>5, <2>1 DEF CoversBy
<1> QED BY <1>6 DEF Covered

(* A star at the end takes one more.                                       *)
LEMMA StarWidens ==
  ASSUME NEW p, NEW s, NEW i \in Nat \ {0}, NEW j \in Nat, Covered(p, s, i, j), p[i] = "*"
  PROVE  Covered(p, s, i, j + 1)
<1>1. PICK cut : CoversBy(p, s, i, j, cut)
  BY DEF Covered
<1> DEFINE more == [k \in 0 .. i |-> IF k = i THEN j + 1 ELSE cut[k]]
<1>2. more \in [0 .. i -> 0 .. j + 1] /\ more[0] = 0 /\ more[i] = j + 1
  BY <1>1 DEF CoversBy
<1>3. \A k \in 0 .. i - 1 : more[k] = cut[k]
  OBVIOUS
<1>4. cut[i - 1] \in 0 .. j
  BY <1>1 DEF CoversBy
<1> HIDE DEF more
<1>5. ASSUME NEW k \in 1 .. i PROVE FitsAt(p, s, more, k)
  <2>1. CASE k = i
    BY <1>2, <1>3, <1>4, <2>1 DEF FitsAt
  <2>2. CASE k # i
    <3>1. more[k] = cut[k] /\ more[k - 1] = cut[k - 1]
      BY <1>3, <2>2
    <3>2. FitsAt(p, s, cut, k)
      BY <1>1 DEF CoversBy
    <3> QED BY <3>1, <3>2 DEF FitsAt
  <2> QED BY <2>1, <2>2
<1>6. CoversBy(p, s, i, j + 1, more)
  BY <1>2, <1>5 DEF CoversBy
<1> QED BY <1>6 DEF Covered

(* Stars that are left over cover nothing.                                 *)
LEMMA StarsAreLeft ==
  ASSUME NEW p, NEW s, NEW m \in Nat, NEW i \in 0 .. m, NEW j \in Nat, Covered(p, s, i, j),
         \A k \in i + 1 .. m : p[k] = "*"
  PROVE  Covered(p, s, m, j)
<1>1. PICK cut : CoversBy(p, s, i, j, cut)
  BY DEF Covered
<1> DEFINE more == [k \in 0 .. m |-> IF k > i THEN j ELSE cut[k]]
<1>2. more \in [0 .. m -> 0 .. j] /\ more[0] = 0 /\ more[m] = j
  BY <1>1 DEF CoversBy
<1>3. /\ \A k \in 0 .. i : more[k] = cut[k]
      /\ \A k \in i .. m : more[k] = j
  BY <1>1 DEF CoversBy
<1> HIDE DEF more
<1>4. ASSUME NEW k \in 1 .. m PROVE FitsAt(p, s, more, k)
  <2>1. CASE k > i
    BY <1>3, <2>1 DEF FitsAt
  <2>2. CASE k <= i
    <3>1. more[k] = cut[k] /\ more[k - 1] = cut[k - 1]
      BY <1>3, <2>2
    <3>2. FitsAt(p, s, cut, k)
      BY <1>1, <2>2 DEF CoversBy
    <3> QED BY <3>1, <3>2 DEF FitsAt
  <2> QED BY <2>1, <2>2
<1>5. CoversBy(p, s, m, j, more)
  BY <1>2, <1>4 DEF CoversBy
<1> QED BY <1>5 DEF Covered

(* And when the subject is used up only stars can be.                      *)
LEMMA OnlyStarsAreLeft ==
  ASSUME NEW p, NEW s, NEW m \in Nat, NEW n \in Nat, NEW cut, CoversBy(p, s, m, n, cut),
         NEW i \in 0 .. m, cut[i] = n, NEW k \in i + 1 .. m
  PROVE  p[k] = "*"
<1> DEFINE short == {j \in i .. m : cut[j] < n}
<1>1. \A j \in 0 .. m : cut[j] \in 0 .. n
  BY DEF CoversBy
<1>2. short = {}
  <2> SUFFICES ASSUME short # {} PROVE FALSE
    OBVIOUS
  <2>1. PICK j \in short : \A l \in short : j <= l
    <3>1. short \in SUBSET Nat
      OBVIOUS
    <3> HIDE DEF short
    <3> QED BY <3>1, LeastNumber
  <2>2. j \in 1 .. m /\ j - 1 \in i .. m /\ cut[j] < n /\ cut[j] \in 0 .. n
    BY <1>1, <2>1
  <2>3. cut[j - 1] = n
    <3>1. j - 1 \notin short
      BY <2>1, <2>2
    <3> QED BY <1>1, <2>2, <3>1
  <2>4. FitsAt(p, s, cut, j)
    BY <2>2 DEF CoversBy
  <2> QED BY <2>2, <2>3, <2>4 DEF FitsAt
<1>3. k \in 1 .. m /\ k - 1 \in i .. m /\ k \in i .. m
  OBVIOUS
<1>4. cut[k] = n /\ cut[k - 1] = n
  BY <1>1, <1>2, <1>3
<1>5. FitsAt(p, s, cut, k)
  BY <1>3 DEF CoversBy
<1> QED BY <1>4, <1>5 DEF FitsAt

-----------------------------------------------------------------------------
(* The scan.  It has covered what it has passed; its last star has covered *)
(* what it gave up and can cover more; and every way to cut the subject    *)
(* gives that star at least as much, and the rest what the scan gave it.   *)
ScanTypeOK ==
  /\ pattern \in Seq(Letters \cup {"*", "?"}) /\ text \in Seq(Letters)
  /\ pIndex \in 1 .. Len(pattern) + 1 /\ starIndex \in 1 .. Len(pattern) + 1
  /\ sIndex \in 1 .. Len(Subject) + 1 /\ sBacktrack \in 1 .. sIndex
  /\ matched \in {"idle", "scanning", "yes", "no"}
  /\ turns \in Nat
  /\ matched = "idle" => pIndex = 1 /\ sIndex = 1 /\ sBacktrack = 1 /\ turns = 0

StarSeen == starIndex <= Len(pattern)

PassedIsCovered ==
  /\ Covered(pattern, Subject, pIndex - 1, sIndex - 1)
  /\ StarSeen => /\ starIndex < pIndex /\ pattern[starIndex] = "*"
                 /\ Covered(pattern, Subject, starIndex, sBacktrack - 1)

NoCutIsLost ==
  \A cut : CoversBy(pattern, Subject, Len(pattern), Len(Subject), cut) =>
    IF StarSeen THEN /\ cut[starIndex] >= sBacktrack - 1
                     /\ cut[pIndex - 1] = cut[starIndex] + (sIndex - sBacktrack)
                ELSE cut[pIndex - 1] = sIndex - 1

(* Each turn moves on in the pattern, or gives the star one more.          *)
TurnsFor(widened, length) == widened * (length + 1)

TurnsAreCounted ==
  \E widened \in Nat : /\ widened + 1 = sBacktrack
                       /\ turns <= TurnsFor(widened, Len(pattern)) + (pIndex - 1)

ScanInv == ScanTypeOK /\ PassedIsCovered /\ NoCutIsLost /\ TurnsAreCounted /\ ScanIsGlobMatching

LEMMA SubjectType ==
  ASSUME text \in Seq(Letters)
  PROVE  Subject \in Seq(Letters) /\ Len(Subject) \in Nat /\ \A i \in 1 .. Len(Subject) : Subject[i] \in Letters
<1> DEFINE k == IF Len(text) < MaxSubject THEN Len(text) ELSE MaxSubject
<1>1. k \in Nat /\ k <= Len(text)
  BY GlobBounds
<1>2. \A i \in 1 .. k : text[i] \in Letters
  BY <1>1
<1> HIDE DEF k
<1>3. SubSeq(text, 1, k) \in Seq(Letters)
  BY <1>1, <1>2, SubSeqProperties
<1>4. Subject = SubSeq(text, 1, k)
  BY DEF Subject, k
<1> QED BY <1>3, <1>4

LEMMA CutStarts ==
  ASSUME NEW p, NEW s, NEW m, NEW n, NEW cut, CoversBy(p, s, m, n, cut) PROVE cut[0] = 0
BY DEF CoversBy

LEMMA CutCounts ==
  ASSUME NEW p, NEW s, NEW m, NEW n, NEW cut, CoversBy(p, s, m, n, cut)
  PROVE  cut[m] = n /\ \A k \in 0 .. m : cut[k] \in 0 .. n
BY DEF CoversBy

LEMMA ScanStart == GlobInit => ScanInv
<1> SUFFICES ASSUME GlobInit PROVE ScanInv
  OBVIOUS
<1>1. pattern \in Seq(Letters \cup {"*", "?"}) /\ text \in Seq(Letters) /\ Len(pattern) = 0
  BY DEF GlobInit
<1>2. Len(Subject) \in Nat
  BY <1>1, SubjectType
<1>3. ScanTypeOK
  BY <1>1, <1>2 DEF GlobInit, ScanTypeOK
<1>4. ~StarSeen
  BY <1>1 DEF GlobInit, StarSeen
<1>5. PassedIsCovered
  BY <1>4, NothingIsCovered DEF GlobInit, PassedIsCovered
<1>6. NoCutIsLost
  <2>1. pIndex - 1 = 0 /\ sIndex - 1 = 0
    BY DEF GlobInit
  <2> QED BY <1>4, <2>1, CutStarts DEF NoCutIsLost
<1>7. TurnsAreCounted
  <2>1. 0 + 1 = sBacktrack /\ turns <= TurnsFor(0, Len(pattern)) + (pIndex - 1)
    BY <1>1 DEF GlobInit, TurnsFor
  <2> QED BY <2>1 DEF TurnsAreCounted
<1> QED BY <1>3, <1>5, <1>6, <1>7 DEF ScanInv, ScanIsGlobMatching, GlobInit

LEMMA CallScanStep == ASSUME ScanInv, MatchesPattern PROVE ScanInv'
<1>1. /\ matched' = "scanning" /\ starIndex' = Len(pattern') + 1
      /\ pIndex' = 1 /\ sIndex' = 1 /\ sBacktrack' = 1 /\ turns' = 0
  BY DEF MatchesPattern, ScanInv, ScanTypeOK
<1>2. pattern' \in Seq(Letters \cup {"*", "?"}) /\ text' \in Seq(Letters) /\ Len(pattern') \in Nat
  BY DEF MatchesPattern, WordsUpTo
<1>3. Len(Subject') \in Nat
  <2>1. text' \in Seq(Letters) => Len(Subject') \in Nat
    <3> DEFINE k == IF Len(text') < MaxSubject THEN Len(text') ELSE MaxSubject
    <3>1. ASSUME text' \in Seq(Letters) PROVE Len(SubSeq(text', 1, k)) \in Nat
      <4>1. k \in Nat /\ k <= Len(text')
        BY <3>1, GlobBounds
      <4> HIDE DEF k
      <4> QED BY <3>1, <4>1
    <3> QED BY <3>1 DEF Subject
  <2> QED BY <1>2, <2>1
<1>4. ScanTypeOK'
  BY <1>1, <1>2, <1>3 DEF ScanTypeOK
<1>5. ~StarSeen'
  BY <1>1, <1>2 DEF StarSeen
<1>6. PassedIsCovered'
  BY <1>1, <1>5, NothingIsCovered DEF PassedIsCovered
<1>7. NoCutIsLost'
  <2>1. pIndex' - 1 = 0 /\ sIndex' - 1 = 0
    BY <1>1
  <2> QED BY <1>5, <2>1, CutStarts DEF NoCutIsLost
<1>8. TurnsAreCounted'
  <2>1. 0 + 1 = sBacktrack' /\ turns' <= TurnsFor(0, Len(pattern')) + (pIndex' - 1)
    BY <1>1, <1>2 DEF TurnsFor
  <2> QED BY <2>1 DEF TurnsAreCounted
<1> QED BY <1>1, <1>4, <1>6, <1>7, <1>8 DEF ScanInv, ScanIsGlobMatching

LEMMA TurnsGrow ==
  ASSUME NEW m \in Nat, NEW b \in Nat
  PROVE  /\ TurnsFor(b, m) \in Int /\ TurnsFor(b + 1, m) = TurnsFor(b, m) + (m + 1)
         /\ (m + 1) * (b + 1) = TurnsFor(b, m) + (m + 1)
         /\ \A c \in Nat : b <= c => TurnsFor(b, m) <= TurnsFor(c, m)
<1>1. TurnsFor(b, m) \in Int /\ TurnsFor(b + 1, m) = TurnsFor(b, m) + (m + 1)
      /\ (m + 1) * (b + 1) = TurnsFor(b, m) + (m + 1)
  BY DEF TurnsFor
<1>2. ASSUME NEW c \in Nat, b <= c PROVE TurnsFor(b, m) <= TurnsFor(c, m)
  <2>1. c - b \in Nat /\ c * (m + 1) = b * (m + 1) + (c - b) * (m + 1)
    BY <1>2
  <2>2. \A x, y \in Nat : x * y \in Nat
    OBVIOUS
  <2>3. (c - b) * (m + 1) \in Nat /\ b * (m + 1) \in Nat
    BY <2>1, <2>2
  <2> QED BY <2>1, <2>3 DEF TurnsFor
<1> QED BY <1>1, <1>2

LEMMA ConsumeStep == ASSUME ScanInv, ConsumeOne PROVE ScanInv'
<1> DEFINE m == Len(pattern)
           n == Len(Subject)
<1>1. /\ pattern' = pattern /\ text' = text /\ Subject' = Subject
      /\ starIndex' = starIndex /\ sBacktrack' = sBacktrack /\ matched' = matched /\ matched = "scanning"
      /\ pIndex' = pIndex + 1 /\ sIndex' = sIndex + 1 /\ turns' = turns + 1
      /\ pIndex <= m /\ sIndex <= n /\ pattern[pIndex] \in {"?", Subject[sIndex]}
  BY DEF ConsumeOne, Looking, OneMatchesOne, InPattern, Subject
<1>2. /\ m \in Nat /\ n \in Nat /\ pIndex \in 1 .. m /\ sIndex \in 1 .. n /\ starIndex \in 1 .. m + 1
      /\ sBacktrack \in 1 .. sIndex /\ turns \in Nat
  BY <1>1, SubjectType DEF ScanInv, ScanTypeOK
<1>3. pattern[pIndex] # "*"
  <2>1. Subject[sIndex] \in Letters
    BY <1>2, SubjectType DEF ScanInv, ScanTypeOK
  <2> QED BY <1>1, <2>1, GlobBounds
<1>4. ScanTypeOK'
  BY <1>1, <1>2 DEF ScanInv, ScanTypeOK
<1>5. StarSeen' = StarSeen
  BY <1>1 DEF StarSeen
<1>6. PassedIsCovered'
  <2> DEFINE i == pIndex - 1
             j == sIndex - 1
  <2>1. i \in Nat /\ j \in Nat /\ i + 1 = pIndex /\ j + 1 = sIndex
    BY <1>2
  <2>2. Covered(pattern, Subject, i, j)
    BY DEF ScanInv, PassedIsCovered
  <2>3. pattern[i + 1] # "*" /\ pattern[i + 1] \in {"?", Subject[j + 1]}
    BY <1>1, <1>3, <2>1
  <2>4. Covered(pattern, Subject, i + 1, j + 1)
    <3> HIDE DEF i, j
    <3> QED BY <2>1, <2>2, <2>3, CoverGrows
  <2>5. pIndex' - 1 = i + 1 /\ sIndex' - 1 = j + 1
    BY <1>1, <1>2
  <2>6. Covered(pattern, Subject, pIndex' - 1, sIndex' - 1)
    BY <2>4, <2>5
  <2> QED BY <1>1, <1>2, <1>5, <2>6 DEF ScanInv, PassedIsCovered
<1>7. NoCutIsLost'
  <2> SUFFICES ASSUME NEW cut, CoversBy(pattern, Subject, m, n, cut)
               PROVE  IF StarSeen THEN /\ cut[starIndex] >= sBacktrack - 1
                                       /\ cut[pIndex] = cut[starIndex] + (sIndex + 1 - sBacktrack)
                                  ELSE cut[pIndex] = sIndex
    BY <1>1, <1>2, <1>5 DEF NoCutIsLost
  <2>1. FitsAt(pattern, Subject, cut, pIndex) /\ pIndex - 1 \in 0 .. m /\ pIndex \in 0 .. m
    BY <1>2 DEF CoversBy
  <2>2. cut[pIndex] = cut[pIndex - 1] + 1
    BY <1>3, <2>1 DEF FitsAt
  <2>3. \A k \in 0 .. m : cut[k] \in Nat
    <3> HIDE DEF m, n
    <3>1. \A k \in 0 .. m : cut[k] \in 0 .. n
      BY CutCounts
    <3> QED BY <3>1
  <2>4. IF StarSeen THEN /\ cut[starIndex] >= sBacktrack - 1
                         /\ cut[pIndex - 1] = cut[starIndex] + (sIndex - sBacktrack)
                    ELSE cut[pIndex - 1] = sIndex - 1
    BY DEF ScanInv, NoCutIsLost
  <2>5. StarSeen => starIndex \in 0 .. m
    BY <1>2 DEF StarSeen
  <2> HIDE DEF m, n
  <2> QED BY <1>2, <2>1, <2>2, <2>3, <2>4, <2>5
<1>8. TurnsAreCounted'
  <2>1. PICK b \in Nat : b + 1 = sBacktrack /\ turns <= TurnsFor(b, m) + (pIndex - 1)
    BY DEF ScanInv, TurnsAreCounted
  <2>2. turns + 1 <= TurnsFor(b, m) + (pIndex + 1 - 1)
    <3>1. TurnsFor(b, m) \in Int
      BY <1>2, TurnsGrow
    <3> QED BY <1>2, <2>1, <3>1
  <2>3. b \in Nat /\ b + 1 = sBacktrack' /\ turns' <= TurnsFor(b, Len(pattern')) + (pIndex' - 1)
    BY <1>1, <1>2, <2>1, <2>2
  <2> QED BY <2>3 DEF TurnsAreCounted
<1> QED BY <1>1, <1>4, <1>6, <1>7, <1>8 DEF ScanInv, ScanIsGlobMatching

LEMMA RememberStep == ASSUME ScanInv, RememberStar PROVE ScanInv'
<1> DEFINE m == Len(pattern)
           n == Len(Subject)
<1>1. /\ pattern' = pattern /\ text' = text /\ Subject' = Subject
      /\ starIndex' = pIndex /\ sBacktrack' = sIndex /\ matched' = matched /\ matched = "scanning"
      /\ pIndex' = pIndex + 1 /\ sIndex' = sIndex /\ turns' = turns + 1
      /\ pIndex <= m /\ sIndex <= n /\ pattern[pIndex] = "*"
  BY DEF RememberStar, Looking, AtStar, InPattern, Subject
<1>2. /\ m \in Nat /\ n \in Nat /\ pIndex \in 1 .. m /\ sIndex \in 1 .. n /\ starIndex \in 1 .. m + 1
      /\ sBacktrack \in 1 .. sIndex /\ turns \in Nat
  BY <1>1, SubjectType DEF ScanInv, ScanTypeOK
<1>3. ScanTypeOK'
  BY <1>1, <1>2 DEF ScanInv, ScanTypeOK
<1>4. StarSeen'
  BY <1>1 DEF StarSeen
<1>5. PassedIsCovered'
  <2> DEFINE i == pIndex - 1
             j == sIndex - 1
  <2>1. i \in Nat /\ j \in Nat /\ i + 1 = pIndex
    BY <1>2
  <2>2. Covered(pattern, Subject, i, j) /\ pattern[i + 1] = "*"
    BY <1>1, <2>1 DEF ScanInv, PassedIsCovered
  <2>3. Covered(pattern, Subject, i + 1, j)
    <3> HIDE DEF i, j
    <3> QED BY <2>1, <2>2, CoverGrows
  <2>4. pIndex' - 1 = i + 1 /\ sIndex' - 1 = j /\ starIndex' = i + 1 /\ sBacktrack' - 1 = j
    BY <1>1, <1>2
  <2>5. starIndex' < pIndex' /\ pattern'[starIndex'] = "*"
    BY <1>1, <1>2
  <2> HIDE DEF i, j
  <2> QED BY <1>1, <2>3, <2>4, <2>5 DEF PassedIsCovered
<1>6. NoCutIsLost'
  <2> SUFFICES ASSUME NEW cut, CoversBy(pattern, Subject, m, n, cut)
               PROVE  cut[pIndex] >= sIndex - 1 /\ cut[pIndex] = cut[pIndex] + (sIndex - sIndex)
    BY <1>1, <1>2, <1>4 DEF NoCutIsLost
  <2>1. FitsAt(pattern, Subject, cut, pIndex) /\ pIndex - 1 \in 0 .. m /\ pIndex \in 0 .. m
    BY <1>2 DEF CoversBy
  <2>2. cut[pIndex] >= cut[pIndex - 1]
    BY <1>1, <2>1 DEF FitsAt
  <2>3. \A k \in 0 .. m : cut[k] \in Nat
    <3> HIDE DEF m, n
    <3>1. \A k \in 0 .. m : cut[k] \in 0 .. n
      BY CutCounts
    <3> QED BY <3>1
  <2>4. IF StarSeen THEN /\ cut[starIndex] >= sBacktrack - 1
                         /\ cut[pIndex - 1] = cut[starIndex] + (sIndex - sBacktrack)
                    ELSE cut[pIndex - 1] = sIndex - 1
    BY DEF ScanInv, NoCutIsLost
  <2>5. StarSeen => starIndex \in 0 .. m
    BY <1>2 DEF StarSeen
  <2> HIDE DEF m, n
  <2> QED BY <1>2, <2>1, <2>2, <2>3, <2>4, <2>5
<1>7. TurnsAreCounted'
  <2>1. PICK b \in Nat : b + 1 = sBacktrack /\ turns <= TurnsFor(b, m) + (pIndex - 1)
    BY DEF ScanInv, TurnsAreCounted
  <2>2. PICK c \in Nat : c + 1 = sIndex /\ b <= c
    <3>1. sIndex - 1 \in Nat /\ sIndex - 1 + 1 = sIndex /\ b <= sIndex - 1
      BY <1>2, <2>1
    <3> QED BY <3>1
  <2>3. TurnsFor(b, m) \in Int /\ TurnsFor(c, m) \in Int /\ TurnsFor(b, m) <= TurnsFor(c, m)
    BY <1>2, <2>2, TurnsGrow
  <2>4. turns + 1 <= TurnsFor(c, m) + (pIndex + 1 - 1)
    BY <1>2, <2>1, <2>3
  <2>5. c \in Nat /\ c + 1 = sBacktrack' /\ turns' <= TurnsFor(c, Len(pattern')) + (pIndex' - 1)
    BY <1>1, <1>2, <2>2, <2>4
  <2> QED BY <2>5 DEF TurnsAreCounted
<1> QED BY <1>1, <1>3, <1>5, <1>6, <1>7 DEF ScanInv, ScanIsGlobMatching

(* What the scan knows of every cut when the characters do not fit.        *)
LEMMA NothingFits ==
  ASSUME ScanInv, Looking, ~OneMatchesOne, ~AtStar,
         NEW cut, CoversBy(pattern, Subject, Len(pattern), Len(Subject), cut)
  PROVE  cut[pIndex - 1] # sIndex - 1
<1> DEFINE m == Len(pattern)
           n == Len(Subject)
<1> SUFFICES ASSUME cut[pIndex - 1] = sIndex - 1 PROVE FALSE
  OBVIOUS
<1>1. m \in Nat /\ n \in Nat /\ pIndex \in 1 .. m + 1 /\ sIndex \in 1 .. n
  BY SubjectType DEF ScanInv, ScanTypeOK, Looking
<1>2. pIndex # m + 1
  <2>1. cut[m] = n
    BY CutCounts
  <2> HIDE DEF m, n
  <2> QED BY <1>1, <2>1
<1>3. FitsAt(pattern, Subject, cut, pIndex) /\ pattern[pIndex] # "*" /\ InPattern
  BY <1>1, <1>2 DEF CoversBy, AtStar, InPattern
<1>4. cut[pIndex] = cut[pIndex - 1] + 1 /\ pattern[pIndex] \in {"?", Subject[cut[pIndex]]}
  BY <1>3 DEF FitsAt
<1>5. cut[pIndex] = sIndex
  BY <1>1, <1>4
<1> QED BY <1>3, <1>4, <1>5 DEF OneMatchesOne

LEMMA WidenStep == ASSUME ScanInv, WidenStar PROVE ScanInv'
<1> DEFINE m == Len(pattern)
           n == Len(Subject)
<1>1. /\ pattern' = pattern /\ text' = text /\ Subject' = Subject
      /\ starIndex' = starIndex /\ sBacktrack' = sBacktrack + 1 /\ matched' = matched /\ matched = "scanning"
      /\ pIndex' = starIndex + 1 /\ sIndex' = sBacktrack + 1 /\ turns' = turns + 1
      /\ starIndex <= m /\ sIndex <= n
  BY DEF WidenStar, Looking, Subject
<1>2. /\ m \in Nat /\ n \in Nat /\ pIndex \in 1 .. m + 1 /\ sIndex \in 1 .. n /\ starIndex \in 1 .. m
      /\ sBacktrack \in 1 .. sIndex /\ turns \in Nat
  BY <1>1, SubjectType DEF ScanInv, ScanTypeOK
<1>3. ScanTypeOK'
  BY <1>1, <1>2 DEF ScanInv, ScanTypeOK
<1>4. StarSeen' /\ StarSeen
  BY <1>1 DEF StarSeen
<1>5. PassedIsCovered'
  <2> DEFINE i == starIndex
             j == sBacktrack - 1
  <2>1. i \in Nat \ {0} /\ j \in Nat /\ j + 1 = sBacktrack
    BY <1>2
  <2>2. Covered(pattern, Subject, i, j) /\ pattern[i] = "*"
    BY <1>4 DEF ScanInv, PassedIsCovered
  <2>3. Covered(pattern, Subject, i, j + 1)
    <3> HIDE DEF i, j
    <3> QED BY <2>1, <2>2, StarWidens
  <2>4. pIndex' - 1 = i /\ sIndex' - 1 = j + 1 /\ starIndex' = i /\ sBacktrack' - 1 = j + 1
    BY <1>1, <1>2
  <2>5. starIndex' < pIndex' /\ pattern'[starIndex'] = "*"
    BY <1>1, <1>2, <2>2
  <2> HIDE DEF i, j
  <2> QED BY <1>1, <2>3, <2>4, <2>5 DEF PassedIsCovered
<1>6. NoCutIsLost'
  <2> SUFFICES ASSUME NEW cut, CoversBy(pattern, Subject, m, n, cut)
               PROVE  cut[starIndex] >= sBacktrack
    <3>1. ASSUME NEW cut, CoversBy(pattern, Subject, m, n, cut), cut[starIndex] >= sBacktrack
          PROVE  cut[starIndex] = cut[starIndex] + (sBacktrack + 1 - (sBacktrack + 1))
      <4>1. cut[starIndex] \in 0 .. n
        <5>1. starIndex \in 0 .. m
          BY <1>2
        <5> HIDE DEF m, n
        <5> QED BY <3>1, <5>1, CutCounts
      <4> QED BY <1>2, <4>1
    <3>2. pIndex' - 1 = starIndex /\ sBacktrack' - 1 = sBacktrack
      BY <1>1, <1>2
    <3> QED BY <1>1, <1>4, <3>1, <3>2 DEF NoCutIsLost
  <2>1. cut[starIndex] >= sBacktrack - 1 /\ cut[pIndex - 1] = cut[starIndex] + (sIndex - sBacktrack)
    BY <1>4 DEF ScanInv, NoCutIsLost
  <2>2. cut[pIndex - 1] # sIndex - 1
    BY NothingFits DEF WidenStar
  <2>3. cut[starIndex] \in Nat
    <3>1. starIndex \in 0 .. m
      BY <1>2
    <3> HIDE DEF m, n
    <3>2. cut[starIndex] \in 0 .. n
      BY <3>1, CutCounts
    <3> QED BY <3>2
  <2> HIDE DEF m, n
  <2> QED BY <1>2, <2>1, <2>2, <2>3
<1>7. TurnsAreCounted'
  <2>1. PICK b \in Nat : b + 1 = sBacktrack /\ turns <= TurnsFor(b, m) + (pIndex - 1)
    BY DEF ScanInv, TurnsAreCounted
  <2>2. TurnsFor(b, m) \in Int /\ TurnsFor(b + 1, m) = TurnsFor(b, m) + (m + 1)
    BY <1>2, TurnsGrow
  <2>3. turns + 1 <= TurnsFor(b + 1, m) + (starIndex + 1 - 1)
    BY <1>2, <2>1, <2>2
  <2>4. b + 1 \in Nat /\ b + 1 + 1 = sBacktrack'
    BY <1>1, <2>1
  <2>5. turns' <= TurnsFor(b + 1, Len(pattern')) + (pIndex' - 1)
    BY <1>1, <1>2, <2>2, <2>3
  <2> QED BY <2>4, <2>5 DEF TurnsAreCounted
<1> QED BY <1>1, <1>3, <1>5, <1>6, <1>7 DEF ScanInv, ScanIsGlobMatching

LEMMA DecideStep == ASSUME ScanInv, Mismatch \/ EndOfSubject PROVE ScanInv'
<1> DEFINE m == Len(pattern)
           n == Len(Subject)
<1>1. /\ pattern' = pattern /\ text' = text /\ Subject' = Subject
      /\ starIndex' = starIndex /\ sBacktrack' = sBacktrack
      /\ pIndex' = pIndex /\ sIndex' = sIndex /\ turns' = turns
      /\ matched = "scanning" /\ matched' \in {"yes", "no"}
  BY DEF Mismatch, EndOfSubject, Looking, Subject
<1>2. /\ m \in Nat /\ n \in Nat /\ pIndex \in 1 .. m + 1 /\ sIndex \in 1 .. n + 1 /\ starIndex \in 1 .. m + 1
      /\ sBacktrack \in 1 .. sIndex /\ pIndex - 1 \in 0 .. m
  BY SubjectType DEF ScanInv, ScanTypeOK
<1>3. ScanTypeOK' /\ PassedIsCovered' /\ NoCutIsLost' /\ TurnsAreCounted'
  BY <1>1 DEF ScanInv, ScanTypeOK, PassedIsCovered, NoCutIsLost, TurnsAreCounted, StarSeen
<1>4. ASSUME Mismatch PROVE matched' = "no" /\ ~GlobCovers(pattern, Subject)
  <2> SUFFICES ASSUME Covered(pattern, Subject, m, n) PROVE FALSE
    BY <1>4, CoverIsWhole DEF Mismatch
  <2>1. PICK cut : CoversBy(pattern, Subject, m, n, cut)
    BY DEF Covered
  <2>2. ~StarSeen
    BY <1>2, <1>4 DEF Mismatch, StarSeen
  <2>3. cut[pIndex - 1] = sIndex - 1
    BY <2>1, <2>2 DEF ScanInv, NoCutIsLost
  <2> QED BY <1>4, <2>1, <2>3, NothingFits DEF Mismatch
<1>5. ASSUME EndOfSubject PROVE matched' = "yes" <=> GlobCovers(pattern, Subject)
  <2>1. sIndex = n + 1
    BY <1>2, <1>5 DEF EndOfSubject
  <2>2. ASSUME \A k \in pIndex .. m : pattern[k] = "*" PROVE Covered(pattern, Subject, m, n)
    <3> DEFINE i == pIndex - 1
    <3>1. i \in 0 .. m /\ i + 1 = pIndex
      BY <1>2
    <3>2. Covered(pattern, Subject, i, n)
      <4>1. sIndex - 1 = n
        BY <1>2, <2>1
      <4> QED BY <4>1 DEF ScanInv, PassedIsCovered
    <3> HIDE DEF i, m, n
    <3> QED BY <1>2, <2>2, <3>1, <3>2, StarsAreLeft
  <2>3. ASSUME Covered(pattern, Subject, m, n), NEW k \in pIndex .. m PROVE pattern[k] = "*"
    <3> DEFINE i == pIndex - 1
    <3>1. PICK cut : CoversBy(pattern, Subject, m, n, cut)
      BY <2>3 DEF Covered
    <3>2. i \in 0 .. m /\ k \in i + 1 .. m
      BY <1>2
    <3>3. \A j \in 0 .. m : cut[j] \in 0 .. n
      <4> HIDE DEF m, n
      <4> QED BY <3>1, CutCounts
    <3>4. IF StarSeen THEN /\ cut[starIndex] >= sBacktrack - 1
                           /\ cut[i] = cut[starIndex] + (sIndex - sBacktrack)
                      ELSE cut[i] = sIndex - 1
      BY <3>1 DEF ScanInv, NoCutIsLost
    <3>5. StarSeen => starIndex \in 0 .. m
      BY <1>2 DEF StarSeen
    <3> HIDE DEF i, m, n
    <3>6. cut[i] \in 0 .. n /\ (StarSeen => cut[starIndex] \in 0 .. n)
      BY <3>2, <3>3, <3>5
    <3>7. cut[i] = n
      <4>1. cut[i] \in Nat /\ cut[i] <= n /\ n \in Nat /\ sBacktrack \in Nat /\ sIndex \in Nat
        BY <1>2, <3>6
      <4>2. CASE StarSeen
        <5>1. cut[starIndex] \in Nat
          BY <3>6, <4>2
        <5> QED BY <2>1, <3>4, <4>1, <4>2, <5>1
      <4>3. CASE ~StarSeen
        BY <2>1, <3>4, <4>1, <4>3
      <4> QED BY <4>2, <4>3
    <3>8. \A j \in i + 1 .. m : pattern[j] = "*"
      BY <1>2, <3>1, <3>2, <3>7, OnlyStarsAreLeft
    <3> QED BY <3>2, <3>8
  <2>4. matched' = IF \A k \in pIndex .. m : pattern[k] = "*" THEN "yes" ELSE "no"
    BY <1>5 DEF EndOfSubject
  <2> QED BY <2>2, <2>3, <2>4, CoverIsWhole
<1>6. ScanIsGlobMatching'
  <2>1. CASE Mismatch
    BY <1>1, <1>4, <2>1 DEF ScanIsGlobMatching
  <2>2. CASE EndOfSubject
    BY <1>1, <1>5, <2>2 DEF ScanIsGlobMatching
  <2> QED BY <2>1, <2>2
<1> QED BY <1>3, <1>6 DEF ScanInv

LEMMA ScanStep == ScanInv /\ [GlobNext]_globVars => ScanInv'
<1> SUFFICES ASSUME ScanInv, [GlobNext]_globVars PROVE ScanInv'
  OBVIOUS
<1>1. CASE UNCHANGED globVars
  BY <1>1 DEF globVars, ScanInv, ScanTypeOK, PassedIsCovered, NoCutIsLost, TurnsAreCounted, StarSeen,
     ScanIsGlobMatching, Subject
<1> QED BY <1>1, CallScanStep, ConsumeStep, RememberStep, WidenStep, DecideStep DEF GlobNext

LEMMA ScanInvImplies == ScanInv => ScanIsRight
<1> SUFFICES ASSUME ScanInv PROVE ScanIsBounded
  BY DEF ScanIsRight, ScanInv
<1> DEFINE m == Len(pattern)
           n == Len(Subject)
<1>1. /\ m \in Nat /\ n \in Nat /\ pIndex \in 1 .. m + 1 /\ sIndex \in 1 .. n + 1
      /\ sBacktrack \in 1 .. sIndex /\ turns \in Nat
  BY SubjectType DEF ScanInv, ScanTypeOK
<1>2. PICK b \in Nat : b + 1 = sBacktrack /\ turns <= TurnsFor(b, m) + (pIndex - 1)
  BY DEF ScanInv, TurnsAreCounted
<1>3. /\ TurnsFor(b, m) \in Int /\ TurnsFor(n, m) \in Int /\ TurnsFor(b, m) <= TurnsFor(n, m)
      /\ (m + 1) * (n + 1) = TurnsFor(n, m) + (m + 1)
  <2>1. b <= n
    BY <1>1, <1>2
  <2> HIDE DEF m, n
  <2> QED BY <1>1, <2>1, TurnsGrow
<1>4. turns <= (m + 1) * (n + 1)
  BY <1>1, <1>2, <1>3
<1> QED BY <1>4 DEF ScanIsBounded

(* The scan that returns to its last star only decides what the pattern    *)
(* means, for every pattern and subject, within the turns it is said to.   *)
THEOREM ScanSafety == GlobSpec => []ScanIsRight
BY ScanStart, ScanStep, ScanInvImplies, PTL DEF GlobSpec

-----------------------------------------------------------------------------
(* Command lines.  A piece at the places `at` belongs to a scope s: what   *)
(* was taken out of it were whole substitutions nested in s, so all that s *)
(* has of its own is left, and so is what each of the others has.          *)
PieceOf(line, at, s) ==
  /\ at \subseteq {k \in DOMAIN line.tokens : s[1] < k /\ k < s[2]}
  /\ Own(line, s) \subseteq at
  /\ \A r \in line.subs : Nested(r, s) =>
       /\ r[1] \in at => r[2] \in at /\ Own(line, r) \subseteq at
       /\ \A k \in at : r[1] <= k /\ k <= r[2] => r[1] \in at

Left(line, at) == {r \in line.subs : r[1] \in at}

LEMMA PairParts ==
  ASSUME NEW A, NEW B, NEW p \in A \X B
  PROVE  p[1] \in A /\ p[2] \in B /\ p = <<p[1], p[2]>>
OBVIOUS

LEMMA ReadingFacts ==
  ASSUME NEW line, WellRead(line)
  PROVE  /\ Len(line.tokens) \in Nat /\ DOMAIN line.tokens = 1 .. Len(line.tokens)
         /\ \A k \in DOMAIN line.tokens : k \in Nat
         /\ \A s \in line.subs : s[1] \in DOMAIN line.tokens /\ s[2] \in DOMAIN line.tokens
         /\ \A s \in line.subs : s[1] \in Nat /\ s[2] \in Nat /\ s[1] < s[2] /\ s = <<s[1], s[2]>>
         /\ \A r, s \in line.subs : r = s \/ r[2] < s[1] \/ s[2] < r[1] \/ Nested(r, s) \/ Nested(s, r)
<1> DEFINE D == DOMAIN line.tokens
<1>1. /\ line.tokens \in Seq(Words \cup {";", ">"} \cup Delimiters)
      /\ line.subs \in SUBSET (D \X D)
      /\ \A s \in line.subs : s[1] < s[2]
      /\ \A r, s \in line.subs : r = s \/ r[2] < s[1] \/ s[2] < r[1] \/ Nested(r, s) \/ Nested(s, r)
  BY DEF WellRead
<1>2. Len(line.tokens) \in Nat /\ D = 1 .. Len(line.tokens)
  BY <1>1, LenProperties
<1>3. \A k \in D : k \in Nat
  BY <1>2
<1> HIDE DEF D
<1>4. ASSUME NEW s \in line.subs PROVE s[1] \in D /\ s[2] \in D /\ s = <<s[1], s[2]>>
  <2>1. s \in D \X D
    BY <1>1
  <2> QED BY <2>1, PairParts
<1>5. /\ \A s \in line.subs : s[1] \in D /\ s[2] \in D
      /\ \A s \in line.subs : s[1] \in Nat /\ s[2] \in Nat /\ s[1] < s[2] /\ s = <<s[1], s[2]>>
  BY <1>1, <1>3, <1>4
<1> QED BY <1>1, <1>2, <1>3, <1>5 DEF D

LEMMA SubsAreFinite ==
  ASSUME NEW line, WellRead(line)
  PROVE  IsFiniteSet(line.subs)
<1>1. IsFiniteSet(DOMAIN line.tokens)
  <2>1. Len(line.tokens) \in Nat /\ DOMAIN line.tokens = 1 .. Len(line.tokens)
    BY ReadingFacts
  <2>2. IsFiniteSet(1 .. Len(line.tokens))
    BY <2>1, FS_Interval
  <2> QED BY <2>1, <2>2
<1>2. IsFiniteSet((DOMAIN line.tokens) \X (DOMAIN line.tokens))
  BY <1>1, FS_Product
<1>3. line.subs \subseteq (DOMAIN line.tokens) \X (DOMAIN line.tokens)
  BY DEF WellRead
<1> QED BY <1>2, <1>3, FS_Subset

(* A substitution with one end inside a scope is nested in it.             *)
LEMMA InScope ==
  ASSUME NEW line, WellRead(line), NEW s \in Scopes(line), NEW r \in line.subs,
         \/ s[1] < r[1] /\ r[1] < s[2]
         \/ s[1] < r[2] /\ r[2] < s[2]
  PROVE  Nested(r, s)
<1>1. CASE s \in line.subs
  BY <1>1, ReadingFacts DEF Nested
<1>2. CASE s = Whole(line)
  BY <1>2, ReadingFacts DEF Nested, Whole
<1> QED BY <1>1, <1>2 DEF Scopes

(* What the expression matches first is a substitution.                    *)
LEMMA MatchIsSubstitution ==
  ASSUME NEW line, WellRead(line), NEW s \in Scopes(line), NEW at, PieceOf(line, at, s),
         NEW ij, IsLeftmost(ij, Substitutions(line.tokens, at))
  PROVE  ij \in line.subs /\ ij[1] \in at /\ ij[2] \in at
<1> DEFINE t == line.tokens
<1>1. ij \in at \X at /\ ij[1] < ij[2] /\ ij = <<ij[1], ij[2]>> /\ ij[1] \in at /\ ij[2] \in at
  BY DEF IsLeftmost, Substitutions
<1>2. at \subseteq DOMAIN t /\ \A k \in at : s[1] < k /\ k < s[2]
  BY DEF PieceOf
<1>3. DollarAt(t, at, ij[1], ij[2]) \/ BacktickAt(t, at, ij[1], ij[2])
  BY DEF IsLeftmost, Substitutions
<1>4. \A r \in line.subs : r[1] \in at \/ r[2] \in at => Nested(r, s)
  BY <1>2, InScope
<1>5. \A r \in line.subs : Nested(r, s) /\ r[1] \in at => r[2] \in at
  BY DEF PieceOf
<1>6. \A r \in line.subs, k \in at : Nested(r, s) /\ r[1] <= k /\ k <= r[2] => r[1] \in at
  BY DEF PieceOf
<1>7. \A k \in DOMAIN t : t[k] \in Delimiters => \E r \in line.subs : k = r[1] \/ k = r[2]
  BY DEF WellRead
<1>8. \A r \in line.subs :
        \/ t[r[1]] = "dollar" /\ t[r[2]] = "close"
        \/ t[r[1]] = "tick" /\ t[r[2]] = "tick" /\ \A k \in r[1] + 1 .. r[2] - 1 : t[k] # "tick"
  BY DEF WellRead
<1>9. CASE DollarAt(t, at, ij[1], ij[2])
  <2>1. PICK r \in line.subs : r[1] = ij[1]
    <3>1. t[ij[1]] = "dollar" /\ ij[1] \in DOMAIN t
      BY <1>1, <1>2, <1>9 DEF DollarAt
    <3> QED BY <3>1, <1>7, <1>8 DEF Delimiters
  <2>2. Nested(r, s) /\ r[2] \in at /\ t[r[2]] = "close" /\ r[1] < r[2]
    BY <2>1, <1>1, <1>4, <1>5, <1>8, <1>9, ReadingFacts DEF DollarAt
  <2>3. ij[2] <= r[2]
    BY <2>1, <2>2, <1>1, <1>2, <1>9, ReadingFacts DEF DollarAt
  <2>4. ASSUME ij[2] < r[2] PROVE FALSE
    <3>1. PICK q \in line.subs : q[2] = ij[2]
      <4>1. t[ij[2]] = "close" /\ ij[2] \in DOMAIN t
        BY <1>1, <1>2, <1>9 DEF DollarAt
      <4> QED BY <4>1, <1>7, <1>8 DEF Delimiters
    <3>2. Nested(q, r)
      BY <3>1, <2>1, <2>4, <1>1, <1>2, ReadingFacts DEF Nested
    <3>3. q[1] \in at /\ ij[1] < q[1] /\ q[1] < ij[2]
      BY <3>1, <3>2, <2>1, <1>1, <1>2, <1>4, <1>6, ReadingFacts DEF Nested
    <3>4. t[q[1]] \in {"dollar"}
      BY <3>1, <1>8, <1>9 DEF DollarAt
    <3> QED BY <3>3, <3>4, <1>9 DEF DollarAt
  <2>5. r[2] = ij[2]
    BY <2>3, <2>4, <1>1, <1>2, ReadingFacts
  <2> QED BY <2>1, <2>5, <1>1, ReadingFacts
<1>10. CASE BacktickAt(t, at, ij[1], ij[2])
  <2>1. t[ij[1]] = "tick" /\ t[ij[2]] = "tick" /\ ij[1] \in DOMAIN t /\ ij[2] \in DOMAIN t
    BY <1>1, <1>2, <1>10 DEF BacktickAt
  <2>2. PICK r \in line.subs : ij[1] = r[1] \/ ij[1] = r[2]
    BY <2>1, <1>7 DEF Delimiters
  <2>3. /\ t[r[1]] = "tick" /\ t[r[2]] = "tick" /\ \A k \in r[1] + 1 .. r[2] - 1 : t[k] # "tick"
        /\ r[1] < r[2] /\ r[1] \in DOMAIN t /\ r[2] \in DOMAIN t
    BY <2>1, <2>2, <1>8, ReadingFacts
  <2>4. Nested(r, s) /\ r[1] \in at /\ r[2] \in at
    <3>1. Nested(r, s)
      BY <2>2, <1>1, <1>4
    <3>2. r[1] \in at
      BY <3>1, <2>2, <2>3, <1>1, <1>6, ReadingFacts
    <3> QED BY <3>1, <3>2, <1>5
  <2>5. ASSUME ij[1] = r[2] PROVE FALSE
    <3>1. BacktickAt(t, at, r[1], r[2])
      BY <2>3, <1>2, ReadingFacts DEF BacktickAt
    <3>2. <<r[1], r[2]>> \in Substitutions(t, at)
      BY <3>1, <2>3, <2>4 DEF Substitutions
    <3>3. ij[1] <= r[1]
      BY <3>2, <2>3, <1>1, <1>2, ReadingFacts DEF IsLeftmost
    <3> QED BY <3>3, <2>3, <2>5, ReadingFacts
  <2>6. ij[1] = r[1]
    BY <2>2, <2>5
  <2>7. ij[2] <= r[2]
    BY <2>3, <2>4, <2>6, <1>1, <1>2, <1>10, ReadingFacts DEF BacktickAt
  <2>8. ij[2] >= r[2]
    BY <2>1, <2>3, <2>6, <1>1, ReadingFacts
  <2>9. r[2] \in Nat /\ ij[2] \in Nat /\ r = <<r[1], r[2]>>
    BY <2>1, ReadingFacts
  <2>10. ij[2] = r[2]
    BY <2>7, <2>8, <2>9
  <2> QED BY <2>6, <2>9, <2>10, <1>1
<1> QED BY <1>1, <1>3, <1>9, <1>10

(* While a piece holds a substitution the expression matches somewhere: a  *)
(* pair of backticks, or the shortest of those in parentheses.             *)
LEMMA PresentIsFound ==
  ASSUME NEW line, WellRead(line), NEW s \in Scopes(line), NEW at, PieceOf(line, at, s),
         NEW r \in line.subs, r[1] \in at
  PROVE  Substitutions(line.tokens, at) # {}
<1> DEFINE t == line.tokens
           inParentheses == {q \in line.subs : q[1] \in at /\ t[q[1]] = "dollar"}
           lengths == {q[2] - q[1] : q \in inParentheses}
<1>1. at \subseteq DOMAIN t /\ \A k \in at : s[1] < k /\ k < s[2]
  BY DEF PieceOf
<1>2. \A q \in line.subs : q[1] \in at \/ q[2] \in at => Nested(q, s)
  BY <1>1, InScope
<1>3. \A q \in line.subs : q[1] \in at => q[2] \in at
  BY <1>2 DEF PieceOf
<1>4. \A q \in line.subs, k \in at : Nested(q, s) /\ q[1] <= k /\ k <= q[2] => q[1] \in at
  BY DEF PieceOf
<1>5. \A k \in DOMAIN t : t[k] \in Delimiters => \E q \in line.subs : k = q[1] \/ k = q[2]
  BY DEF WellRead
<1>6. \A q \in line.subs :
        \/ t[q[1]] = "dollar" /\ t[q[2]] = "close"
        \/ t[q[1]] = "tick" /\ t[q[2]] = "tick" /\ \A k \in q[1] + 1 .. q[2] - 1 : t[k] # "tick"
  BY DEF WellRead
<1>7. CASE t[r[1]] = "tick"
  <2>1. BacktickAt(t, at, r[1], r[2])
    BY <1>1, <1>6, <1>7, ReadingFacts DEF BacktickAt
  <2>2. <<r[1], r[2]>> \in Substitutions(t, at)
    BY <2>1, <1>3, ReadingFacts DEF Substitutions
  <2> QED BY <2>2
<1>8. CASE t[r[1]] = "dollar"
  <2>1. PICK q \in inParentheses : \A p \in inParentheses : q[2] - q[1] <= p[2] - p[1]
    <3>1. lengths \in SUBSET Nat /\ lengths # {}
      <4>1. \A q \in line.subs : q[2] - q[1] \in Nat
        BY ReadingFacts
      <4>2. r \in inParentheses
        BY <1>8
      <4> QED BY <4>1, <4>2
    <3>2. PICK n \in lengths : \A m \in lengths : n <= m
      <4> HIDE DEF lengths
      <4> QED BY <3>1, LeastNumber
    <3> QED BY <3>2
  <2>2. q \in line.subs /\ q[1] \in at /\ q[2] \in at /\ q[1] < q[2] /\ t[q[1]] = "dollar" /\ t[q[2]] = "close"
    BY <2>1, <1>3, <1>6, ReadingFacts
  <2>3. ASSUME NEW k \in at, q[1] < k, k < q[2], t[k] \in {"dollar", "close"} PROVE FALSE
    <3>1. PICK p \in line.subs : k = p[1] \/ k = p[2]
      BY <2>3, <1>1, <1>5 DEF Delimiters
    <3>2. Nested(p, q)
      <4>1. p = q \/ p[2] < q[1] \/ q[2] < p[1] \/ Nested(p, q) \/ Nested(q, p)
        BY <2>2, ReadingFacts
      <4>2. /\ p[1] \in Nat /\ p[2] \in Nat /\ p[1] < p[2]
            /\ q[1] \in Nat /\ q[2] \in Nat
        BY <2>2, ReadingFacts
      <4> QED BY <4>1, <4>2, <2>3, <3>1 DEF Nested
    <3>3. p[1] \in at
      BY <2>3, <3>1, <1>1, <1>2, <1>4, ReadingFacts
    <3>4. p \in inParentheses
      BY <2>3, <3>1, <3>3, <1>6
    <3>5. q[2] - q[1] <= p[2] - p[1]
      BY <2>1, <3>4
    <3>6. p[1] \in Nat /\ p[2] \in Nat /\ q[1] \in Nat /\ q[2] \in Nat
      BY <2>2, ReadingFacts
    <3> HIDE DEF inParentheses, lengths
    <3> QED BY <3>2, <3>5, <3>6 DEF Nested
  <2>4. DollarAt(t, at, q[1], q[2])
    BY <2>2, <2>3 DEF DollarAt
  <2>5. <<q[1], q[2]>> \in Substitutions(t, at)
    BY <2>2, <2>4 DEF Substitutions
  <2> QED BY <2>5
<1> QED BY <1>6, <1>7, <1>8

(* Taking a substitution out leaves a piece of the same scope.             *)
LEMMA RestIsPiece ==
  ASSUME NEW line, WellRead(line), NEW s \in Scopes(line), NEW at, PieceOf(line, at, s),
         NEW ij \in line.subs, ij[1] \in at
  PROVE  PieceOf(line, {k \in at : k < ij[1] \/ ij[2] < k}, s)
<1> DEFINE rest == {k \in at : k < ij[1] \/ ij[2] < k}
<1>1. Nested(ij, s)
  BY InScope DEF PieceOf
<1>2. Own(line, s) \subseteq rest
  BY <1>1 DEF PieceOf, Own
<1>3. ASSUME NEW r \in line.subs, Nested(r, s), r[1] \in rest
      PROVE  r[2] \in rest /\ Own(line, r) \subseteq rest
  <2>1. r[2] \in at /\ Own(line, r) \subseteq at
    BY <1>3 DEF PieceOf
  <2>2. r[2] < ij[1] \/ ij[2] < r[1] \/ Nested(ij, r)
    BY <1>3, ReadingFacts DEF Nested
  <2>3. ASSUME NEW k \in Own(line, r) PROVE k < ij[1] \/ ij[2] < k
    BY <2>2, <2>3, ReadingFacts DEF Own, Nested
  <2> QED BY <2>1, <2>2, <2>3, ReadingFacts DEF Nested
<1>4. ASSUME NEW r \in line.subs, Nested(r, s), NEW k \in rest, r[1] <= k, k <= r[2]
      PROVE  r[1] \in rest
  <2>1. r[1] \in at /\ k \in DOMAIN line.tokens
    BY <1>4 DEF PieceOf
  <2>2. r = ij \/ r[2] < ij[1] \/ ij[2] < r[1] \/ Nested(r, ij) \/ Nested(ij, r)
    BY ReadingFacts
  <2>3. k \in Nat /\ r[1] \in Nat /\ r[2] \in Nat /\ r[1] < r[2]
        /\ ij[1] \in Nat /\ ij[2] \in Nat /\ ij[1] < ij[2]
    BY <2>1, ReadingFacts
  <2>4. r[1] < ij[1] \/ ij[2] < r[1]
    BY <1>4, <2>2, <2>3 DEF Nested
  <2> QED BY <2>1, <2>4
<1>5. rest \subseteq {k \in DOMAIN line.tokens : s[1] < k /\ k < s[2]}
  BY DEF PieceOf
<1> HIDE DEF rest
<1>6. PieceOf(line, rest, s)
  BY <1>2, <1>3, <1>4, <1>5 DEF PieceOf
<1> QED BY <1>6 DEF rest

(* What stands in the substitution is a piece of that one's scope.         *)
LEMMA InnerIsPiece ==
  ASSUME NEW line, WellRead(line), NEW s \in Scopes(line), NEW at, PieceOf(line, at, s),
         NEW ij \in line.subs, ij[1] \in at
  PROVE  PieceOf(line, {k \in at : ij[1] < k /\ k < ij[2]}, ij)
<1> DEFINE inner == {k \in at : ij[1] < k /\ k < ij[2]}
<1>1. Nested(ij, s)
  BY InScope DEF PieceOf
<1>2. Own(line, ij) \subseteq inner
  BY <1>1 DEF PieceOf, Own
<1>3. \A r \in line.subs : Nested(r, ij) => Nested(r, s)
  <2>1. s[1] \in Int /\ s[2] \in Int
    BY ReadingFacts DEF Scopes, Whole
  <2> QED BY <1>1, <2>1, ReadingFacts DEF Nested
<1>4. ASSUME NEW r \in line.subs, Nested(r, ij), r[1] \in inner
      PROVE  r[2] \in inner /\ Own(line, r) \subseteq inner
  <2>1. r[2] \in at /\ Own(line, r) \subseteq at
    BY <1>3, <1>4 DEF PieceOf
  <2>2. \A k \in Own(line, r) : ij[1] < k /\ k < ij[2]
    BY <1>4, ReadingFacts DEF Own, Nested
  <2> QED BY <2>1, <2>2, <1>4, ReadingFacts DEF Nested
<1>5. ASSUME NEW r \in line.subs, Nested(r, ij), NEW k \in inner, r[1] <= k, k <= r[2]
      PROVE  r[1] \in inner
  <2>1. r[1] \in at
    BY <1>3, <1>5 DEF PieceOf
  <2> QED BY <2>1, <1>5, ReadingFacts DEF Nested
<1>6. inner \subseteq {k \in DOMAIN line.tokens : ij[1] < k /\ k < ij[2]}
  BY DEF PieceOf
<1> HIDE DEF inner
<1>7. PieceOf(line, inner, ij)
  BY <1>2, <1>4, <1>5, <1>6 DEF PieceOf
<1> QED BY <1>7 DEF inner

(* A piece without substitutions is what its scope has of its own.         *)
LEMMA BarePieceIsOwn ==
  ASSUME NEW line, WellRead(line), NEW s \in Scopes(line), NEW at, PieceOf(line, at, s), Left(line, at) = {}
  PROVE  at = Own(line, s)
<1>1. ASSUME NEW k \in at PROVE k \in Own(line, s)
  <2>0. k \in DOMAIN line.tokens
    BY DEF PieceOf
  <2>1. \A r \in line.subs : Nested(r, s) => ~(r[1] <= k /\ k <= r[2])
    BY DEF PieceOf, Left
  <2>2. \A r \in line.subs : Nested(r, s) => k < r[1] \/ r[2] < k
    BY <2>0, <2>1, ReadingFacts
  <2> QED BY <2>2 DEF PieceOf, Own
<1> QED BY <1>1 DEF PieceOf

-----------------------------------------------------------------------------
(* What the splitter has still to look at.                                 *)
Awaits(line, at, s) == PieceOf(line, at, s) \/ (s \in line.subs /\ s[1] \in at)

WithinGuard == Cardinality(commandLine.subs) <= MaxSubstitutions

PiecesInv ==
  \A piece \in pieces :
    /\ piece.guard \in Nat
    /\ \E s \in Scopes(commandLine) : PieceOf(commandLine, piece.at, s)
    /\ WithinGuard => Cardinality(Left(commandLine, piece.at)) <= piece.guard

NoScopeIsForgotten ==
  \A s \in Scopes(commandLine) :
    \/ Split(tokens, Own(commandLine, s)) \subseteq segments
    \/ \E piece \in pieces : Awaits(commandLine, piece.at, s)

SegmentsInv ==
  /\ commandLine = NoLine => pieces = {} /\ segments = {} /\ readOnly = "unknown"
  /\ commandLine # NoLine =>
       /\ commandLine \in CommandLines
       /\ PiecesInv
       /\ WithinGuard => NoScopeIsForgotten
       /\ readOnly # "unknown" => pieces = {}
       /\ readOnly = "yes" => IsReadOnly(tokens, segments)

LEMMA SegmentsStart == SegmentsInit => SegmentsInv
BY DEF SegmentsInit, SegmentsInv

LEMMA ProposedStep ==
  ASSUME SegmentsInv, Proposed
  PROVE  SegmentsInv'
<1>0. MaxSubstitutions \in Nat
  BY SegmentBounds
<1>1. PICK line \in CommandLines :
        /\ commandLine' = line
        /\ pieces' = {[at |-> DOMAIN line.tokens, guard |-> MaxSubstitutions]}
        /\ UNCHANGED <<segments, readOnly>>
  BY DEF Proposed
<1>2. WellRead(line) /\ line # NoLine
  BY LinesAreWellRead, SegmentBounds
<1>3. /\ Len(line.tokens) \in Nat /\ DOMAIN line.tokens = 1 .. Len(line.tokens)
      /\ \A r \in line.subs : r[1] \in DOMAIN line.tokens /\ r[2] \in DOMAIN line.tokens
  BY <1>2, ReadingFacts
<1>4. PieceOf(line, DOMAIN line.tokens, Whole(line))
  <2>1. Whole(line)[1] = 0 /\ Whole(line)[2] = Len(line.tokens) + 1
    BY DEF Whole
  <2>2. \A k \in DOMAIN line.tokens : 0 < k /\ k < Len(line.tokens) + 1
    BY <1>3
  <2> QED BY <1>3, <2>1, <2>2 DEF PieceOf, Own
<1>5. Left(line, DOMAIN line.tokens) = line.subs
  BY <1>3 DEF Left
<1>6. \A s \in Scopes(line) : Awaits(line, DOMAIN line.tokens, s)
  BY <1>3, <1>4 DEF Awaits, Scopes
<1>7. readOnly = "unknown" /\ segments = {}
  BY DEF Proposed, SegmentsInv
<1>8. Whole(line) \in Scopes(line)
  BY DEF Scopes
<1>9. PiecesInv'
  <2> SUFFICES ASSUME NEW p \in pieces'
               PROVE  /\ p.guard \in Nat
                      /\ \E s \in Scopes(line) : PieceOf(line, p.at, s)
                      /\ WithinGuard' => Cardinality(Left(line, p.at)) <= p.guard
    BY <1>1 DEF PiecesInv
  <2>1. p.at = DOMAIN line.tokens /\ p.guard = MaxSubstitutions
    BY <1>1
  <2>2. WithinGuard' => Cardinality(line.subs) <= MaxSubstitutions
    BY <1>1 DEF WithinGuard
  <2> QED BY <2>1, <2>2, <1>0, <1>4, <1>5, <1>8
<1>10. NoScopeIsForgotten'
  BY <1>1, <1>6 DEF NoScopeIsForgotten
<1> QED BY <1>1, <1>2, <1>7, <1>9, <1>10 DEF SegmentsInv

LEMMA ReadOnlyStep ==
  ASSUME SegmentsInv, Decide
  PROVE  SegmentsInv'
BY DEF SegmentsInv, Decide, PiecesInv, NoScopeIsForgotten, WithinGuard, tokens

(* A turn of the loop: the guard falls with the number of substitutions    *)
(* left, and whatever the piece held is held by the rest or the inner one. *)
LEMMA LiftStep ==
  ASSUME SegmentsInv, commandLine # NoLine, NEW piece \in pieces, LiftSubstitution(piece)
  PROVE  SegmentsInv'
<1>0. MaxSubstitutions \in Nat
  BY SegmentBounds
<1> DEFINE line == commandLine
<1>1. line \in CommandLines /\ WellRead(line) /\ PiecesInv
  BY LinesAreWellRead DEF SegmentsInv
<1>2. PICK ij :
        /\ IsLeftmost(ij, Substitutions(tokens, piece.at))
        /\ pieces' = (pieces \ {piece})
             \cup {[at |-> {k \in piece.at : k < ij[1] \/ ij[2] < k}, guard |-> piece.guard - 1]}
             \cup (IF {k \in piece.at : ij[1] < k /\ k < ij[2]} = {} THEN {}
                   ELSE {[at |-> {k \in piece.at : ij[1] < k /\ k < ij[2]}, guard |-> MaxSubstitutions]})
  BY DEF LiftSubstitution
<1>3. UNCHANGED <<commandLine, segments, readOnly>> /\ piece.guard > 0
  BY DEF LiftSubstitution
<1> DEFINE inner == {k \in piece.at : ij[1] < k /\ k < ij[2]}
           rest == {k \in piece.at : k < ij[1] \/ ij[2] < k}
<1>4. PICK s \in Scopes(line) : PieceOf(line, piece.at, s)
  BY <1>1 DEF PiecesInv
<1>5. ij \in line.subs /\ ij[1] \in piece.at /\ ij[2] \in piece.at
  BY <1>1, <1>2, <1>4, MatchIsSubstitution DEF tokens
<1>6. ij \in Scopes(line) /\ ij[1] \in Nat /\ ij[2] \in Nat /\ ij[1] < ij[2] /\ piece.at \subseteq Nat
  <2>1. \A k \in DOMAIN line.tokens : k \in Nat
    BY <1>1, ReadingFacts
  <2>2. ij[1] \in Nat /\ ij[2] \in Nat /\ ij[1] < ij[2]
    BY <1>1, <1>5, ReadingFacts
  <2> QED BY <2>1, <2>2, <1>4, <1>5 DEF Scopes, PieceOf
<1>7. \A q \in Scopes(line) : PieceOf(line, piece.at, q) => PieceOf(line, rest, q)
  BY <1>1, <1>5, RestIsPiece
<1>8. PieceOf(line, inner, ij)
  BY <1>1, <1>4, <1>5, InnerIsPiece
<1>9. /\ pieces' \subseteq pieces \cup {[at |-> rest, guard |-> piece.guard - 1],
                                      [at |-> inner, guard |-> MaxSubstitutions]}
      /\ [at |-> rest, guard |-> piece.guard - 1] \in pieces'
      /\ inner # {} => [at |-> inner, guard |-> MaxSubstitutions] \in pieces'
      /\ \A other \in pieces : other # piece => other \in pieces'
  BY <1>2
<1>10. piece.guard \in Nat /\ piece.guard - 1 \in Nat
  <2>1. piece.guard \in Nat
    BY <1>1 DEF PiecesInv
  <2> QED BY <2>1, <1>3
<1>11. /\ IsFiniteSet(line.subs)
       /\ \A at : /\ IsFiniteSet(Left(line, at)) /\ Cardinality(Left(line, at)) \in Nat
                   /\ Cardinality(Left(line, at)) <= Cardinality(line.subs)
  BY <1>1, SubsAreFinite, FS_Subset, FS_CardinalityType DEF Left
<1>12. WithinGuard => Cardinality(Left(line, rest)) <= piece.guard - 1
  <2>1. ij \in Left(line, piece.at) /\ ij \notin Left(line, rest)
    BY <1>5, <1>6 DEF Left
  <2>2. Left(line, rest) \subseteq Left(line, piece.at) \ {ij}
    BY <2>1 DEF Left
  <2>3. Cardinality(Left(line, piece.at) \ {ij}) = Cardinality(Left(line, piece.at)) - 1
    BY <2>1, <1>11, FS_RemoveElement
  <2>4. Cardinality(Left(line, rest)) <= Cardinality(Left(line, piece.at) \ {ij})
    BY <2>2, <1>11, FS_Subset
  <2>5. WithinGuard => Cardinality(Left(line, piece.at)) <= piece.guard
    BY <1>1 DEF PiecesInv
  <2>6. Cardinality(Left(line, piece.at)) \in Nat /\ Cardinality(Left(line, rest)) \in Nat
    BY <1>11
  <2> HIDE DEF rest, line
  <2> QED BY <2>3, <2>4, <2>5, <2>6, <1>10
<1>13. WithinGuard => Cardinality(Left(line, inner)) <= MaxSubstitutions
  <2>1. Cardinality(line.subs) \in Nat
    BY <1>11, FS_CardinalityType
  <2>2. Cardinality(Left(line, inner)) \in Nat /\ Cardinality(Left(line, inner)) <= Cardinality(line.subs)
    BY <1>11
  <2>3. WithinGuard => Cardinality(line.subs) <= MaxSubstitutions
    BY DEF WithinGuard
  <2> HIDE DEF inner, line
  <2> QED BY <2>1, <2>2, <2>3, <1>0
<1>14. PiecesInv'
  <2> HIDE DEF rest, inner
  <2> SUFFICES ASSUME NEW p \in pieces'
               PROVE  /\ p.guard \in Nat
                      /\ \E q \in Scopes(line) : PieceOf(line, p.at, q)
                      /\ WithinGuard => Cardinality(Left(line, p.at)) <= p.guard
    BY <1>3 DEF PiecesInv, WithinGuard
  <2>1. CASE p \in pieces
    BY <2>1, <1>1 DEF PiecesInv
  <2>2. CASE p = [at |-> rest, guard |-> piece.guard - 1]
    BY <2>2, <1>4, <1>7, <1>10, <1>12
  <2>3. CASE p = [at |-> inner, guard |-> MaxSubstitutions]
    BY <2>3, <1>0, <1>6, <1>8, <1>13
  <2> QED BY <2>1, <2>2, <2>3, <1>9
<1>15. ASSUME NoScopeIsForgotten PROVE NoScopeIsForgotten'
  <2> SUFFICES ASSUME NEW q \in Scopes(line), ~(Split(tokens, Own(line, q)) \subseteq segments)
               PROVE  \E p \in pieces' : Awaits(line, p.at, q)
    BY <1>3 DEF NoScopeIsForgotten, tokens
  <2>1. PICK p \in pieces : Awaits(line, p.at, q)
    BY <1>15 DEF NoScopeIsForgotten
  <2>2. CASE p # piece
    BY <2>1, <2>2, <1>9
  <2>3. CASE PieceOf(line, piece.at, q)
    <3>1. Awaits(line, rest, q)
      BY <2>3, <1>7 DEF Awaits
    <3> HIDE DEF rest
    <3> QED BY <3>1, <1>9
  <2>4. CASE q = ij
    <3>1. Own(line, ij) \subseteq inner
      BY <1>8 DEF PieceOf
    <3>2. CASE inner = {}
      <4>1. Own(line, q) = {}
        BY <3>1, <3>2, <2>4
      <4>2. Split(tokens, {}) = {}
        BY DEF Split
      <4> QED BY <4>1, <4>2
    <3>3. CASE inner # {}
      <4>1. Awaits(line, inner, q)
        BY <2>4, <1>8 DEF Awaits
      <4> HIDE DEF inner
      <4> QED BY <3>3, <4>1, <1>9
    <3> QED BY <3>2, <3>3
  <2>5. CASE q \in line.subs /\ q[1] \in piece.at /\ q # ij
    <3>1. q[1] # ij[1] /\ q[1] # ij[2]
      <4>1. q = ij \/ q[2] < ij[1] \/ ij[2] < q[1] \/ Nested(q, ij) \/ Nested(ij, q)
        BY <2>5, <1>1, <1>5, ReadingFacts
      <4>2. q[1] \in Nat /\ q[2] \in Nat /\ q[1] < q[2]
        BY <2>5, <1>1, ReadingFacts
      <4> QED BY <4>1, <4>2, <2>5, <1>6 DEF Nested
    <3>2. q[1] \in rest \/ q[1] \in inner
      BY <2>5, <3>1, <1>6
    <3>3. CASE q[1] \in rest
      <4>1. Awaits(line, rest, q)
        BY <2>5, <3>3 DEF Awaits
      <4> HIDE DEF rest
      <4> QED BY <4>1, <1>9
    <3>4. CASE q[1] \in inner
      <4>1. Awaits(line, inner, q) /\ inner # {}
        BY <2>5, <3>4 DEF Awaits
      <4> HIDE DEF inner
      <4> QED BY <4>1, <1>9
    <3> QED BY <3>2, <3>3, <3>4
  <2> QED BY <2>1, <2>2, <2>3, <2>4, <2>5 DEF Awaits
<1>16. WithinGuard' => WithinGuard
  BY <1>3 DEF WithinGuard
<1>17. readOnly = "unknown"
  BY DEF SegmentsInv
<1> QED BY <1>1, <1>3, <1>14, <1>15, <1>16, <1>17 DEF SegmentsInv

(* A piece at the end of the loop is what its scope has of its own.        *)
LEMMA SplitStep ==
  ASSUME SegmentsInv, commandLine # NoLine, NEW piece \in pieces, SplitRest(piece)
  PROVE  SegmentsInv'
<1> DEFINE line == commandLine
<1>1. line \in CommandLines /\ WellRead(line) /\ PiecesInv
  BY LinesAreWellRead DEF SegmentsInv
<1>2. /\ piece.guard = 0 \/ Substitutions(tokens, piece.at) = {}
      /\ segments' = segments \cup Split(tokens, piece.at)
      /\ pieces' = pieces \ {piece}
      /\ UNCHANGED <<commandLine, readOnly>>
  BY DEF SplitRest
<1>3. PiecesInv'
  BY <1>1, <1>2 DEF PiecesInv, WithinGuard
<1>4. ASSUME WithinGuard PROVE Left(line, piece.at) = {}
  <2>1. CASE Substitutions(tokens, piece.at) = {}
    BY <2>1, <1>1, PresentIsFound DEF PiecesInv, Left, tokens
  <2>2. CASE piece.guard = 0
    <3>1. IsFiniteSet(Left(line, piece.at))
      BY <1>1, SubsAreFinite, FS_Subset DEF Left
    <3>2. Cardinality(Left(line, piece.at)) <= 0 /\ Cardinality(Left(line, piece.at)) \in Nat
      BY <2>2, <3>1, <1>1, <1>4, FS_CardinalityType DEF PiecesInv
    <3>3. Cardinality(Left(line, piece.at)) = 0
      BY <3>2
    <3> QED BY <3>1, <3>3, FS_EmptySet
  <2> QED BY <2>1, <2>2, <1>2
<1>5. ASSUME WithinGuard, NoScopeIsForgotten PROVE NoScopeIsForgotten'
  <2> SUFFICES ASSUME NEW q \in Scopes(line), ~(Split(tokens, Own(line, q)) \subseteq segments')
               PROVE  \E p \in pieces' : Awaits(line, p.at, q)
    BY <1>2 DEF NoScopeIsForgotten, tokens
  <2>1. PICK p \in pieces : Awaits(line, p.at, q)
    BY <1>2, <1>5 DEF NoScopeIsForgotten
  <2>2. p # piece
    <3>1. ASSUME PieceOf(line, piece.at, q) PROVE FALSE
      BY <3>1, <1>1, <1>2, <1>4, <1>5, BarePieceIsOwn
    <3>2. ASSUME q \in line.subs, q[1] \in piece.at PROVE FALSE
      BY <3>2, <1>4, <1>5 DEF Left
    <3> QED BY <2>1, <3>1, <3>2 DEF Awaits
  <2> QED BY <2>1, <2>2, <1>2
<1>6. WithinGuard' => WithinGuard
  BY <1>2 DEF WithinGuard
<1>7. readOnly = "unknown"
  BY DEF SegmentsInv
<1> QED BY <1>1, <1>2, <1>3, <1>5, <1>6, <1>7 DEF SegmentsInv

LEMMA SegmentsStep == SegmentsInv /\ [SegmentsNext]_segmentVars => SegmentsInv'
<1> SUFFICES ASSUME SegmentsInv, [SegmentsNext]_segmentVars PROVE SegmentsInv'
  OBVIOUS
<1>1. CASE Proposed
  BY <1>1, ProposedStep
<1>2. CASE Decide
  BY <1>2, ReadOnlyStep
<1>3. ASSUME NEW piece \in pieces, LiftSubstitution(piece) \/ SplitRest(piece) PROVE SegmentsInv'
  <2>1. commandLine # NoLine
    BY DEF SegmentsInv
  <2> QED BY <1>3, <2>1, LiftStep, SplitStep
<1>4. CASE UNCHANGED segmentVars
  BY <1>4 DEF segmentVars, SegmentsInv, PiecesInv, NoScopeIsForgotten, WithinGuard, tokens
<1> QED BY <1>1, <1>2, <1>3, <1>4 DEF SegmentsNext

LEMMA SegmentsInvImplies == SegmentsInv => CommandLinesAreReadInFull
<1> SUFFICES ASSUME SegmentsInv, commandLine # NoLine, WithinGuard
             PROVE  NoCommandIsHidden /\ ReadOnlyLinesOnlyRead
  BY DEF CommandLinesAreReadInFull, WithinGuard
<1>1. NoCommandIsHidden
  BY DEF SegmentsInv, NoScopeIsForgotten, NoCommandIsHidden, ShellRuns, tokens
<1>2. ReadOnlyLinesOnlyRead
  BY <1>1 DEF SegmentsInv, NoCommandIsHidden, ReadOnlyLinesOnlyRead, IsReadOnly
<1> QED BY <1>1, <1>2

(* commandSegments lifts every substitution out to a piece of its own and  *)
(* splits what is left of each, for lines of any length and any nesting:   *)
(* no command that the shell would run is missed by isReadOnlyShellCommand.*)
THEOREM SegmentsSafety == SegmentsSpec => []CommandLinesAreReadInFull
BY SegmentsStart, SegmentsStep, SegmentsInvImplies, PTL DEF SegmentsSpec
=============================================================================
