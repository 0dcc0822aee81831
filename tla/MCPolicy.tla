------------------------------ MODULE MCPolicy ------------------------------
(***************************************************************************)
(* An instance for TLC of the four modules about decisions, GlobMatch,     *)
(* CommandSegments, Playground and ToolCalls (with Policies), and of the   *)
(* pages that list and change policies and keys.  They share no state, so  *)
(* a behaviour picks one and leaves the others at rest.                    *)
(***************************************************************************)
EXTENDS Decisions, GlobMatch, CommandSegments, TLC

VARIABLE part

policyParts == <<toolCallVars, playgroundVars, globVars, segmentVars, listVars>>

Init ==
  /\ part \in {"calls", "playground", "glob", "segments", "lists"}
  /\ ToolCallsInit /\ PlaygroundInit /\ GlobInit /\ SegmentsInit /\ ListPanelsInit
  /\ part # "lists" => page = "keys" /\ role = "admin" /\ \A i \in Rows : table[i] = Gone

Next ==
  /\ UNCHANGED part
  /\ \/ part = "calls" /\ ToolCallsNext /\ UNCHANGED <<playgroundVars, globVars, segmentVars, listVars>>
     \/ part = "playground" /\ PlaygroundNext /\ UNCHANGED <<toolCallVars, globVars, segmentVars, listVars>>
     \/ part = "glob" /\ GlobNext /\ UNCHANGED <<toolCallVars, playgroundVars, segmentVars, listVars>>
     \/ part = "segments" /\ SegmentsNext /\ UNCHANGED <<toolCallVars, playgroundVars, globVars, listVars>>
     \/ part = "lists" /\ ListPanelsNext /\ UNCHANGED <<toolCallVars, playgroundVars, globVars, segmentVars>>

Spec == Init /\ [][Next]_<<part, policyParts>>

-----------------------------------------------------------------------------
(* What agents propose: a force push that names a command line by its      *)
(* target alone, a shell command, and file accesses with and without a     *)
(* target.  A pattern is the set of the values it matches.                 *)
Proposal(type, tells, target, command) ==
  [actionType |-> type, tells |-> tells, tool |-> Absent, target |-> target, command |-> command]

MCProposals ==
  {Proposal("git_operation", {"forcePush"}, "x", Absent),
   Proposal("shell_command", {}, "x", "y"),
   Proposal("file_access", {}, "x", Absent),
   Proposal("file_access", {}, Absent, Empty)}

Body(type, target, command, decision, priority, enabled, project) ==
  [actionType |-> type, tool |-> Absent, targetPattern |-> target, commandPattern |-> command,
   decision |-> decision, priority |-> priority, enabled |-> enabled, project |-> project]

MCBodies ==
  {Body(Absent, Absent, {"x"}, "allow", Absent, Absent, Absent),
   Body("file_access", {"x"}, Absent, "block", 0, Absent, "p1"),
   Body(Empty, Empty, Empty, Absent, Absent, FALSE, Absent),
   Body(Invalid, {"x"}, Absent, Absent, Absent, Absent, Absent)}

(* The tool calls: what they do, as their name says, and what they carry.  *)
Call(name, args, tells) ==
  [name |-> name, args |-> args, tells |-> tells, tool |-> "term",
   target |-> IF "path" \in args THEN "x" ELSE Absent,
   command |-> IF "command" \in args THEN "x" ELSE Absent]

MCToolCalls ==
  {Call("shell", {"command"}, {"forcePush"}), Call("shell", {"command"}, {"npm"}),
   Call("write", {"path"}, {}), Call("read", {"path"}, {"secret"}),
   Call("fetch", {"url"}, {"otherMethod"}), Call("other", {"path"}, {}), Call("other", {}, {})}

(* Command lines, put together with what a shell makes of them: without,   *)
(* with one level of, and with two levels of substitution.                 *)
Text(t) == [tokens |-> t, subs |-> {}]

Join(a, b) ==
  [tokens |-> a.tokens \o b.tokens,
   subs |-> a.subs \cup {<<s[1] + Len(a.tokens), s[2] + Len(a.tokens)>> : s \in b.subs}]

Enclose(first, a, last) ==
  LET line == Join(Join(Text(<<first>>), a), Text(<<last>>))
  IN  [line EXCEPT !.subs = @ \cup {<<1, Len(line.tokens)>>}]

Substituted(a) ==
  {Enclose("dollar", a, "close")} \cup
  {line \in {Enclose("tick", a, "tick")} : \A i \in DOMAIN a.tokens : a.tokens[i] # "tick"}

Lines0 == {Text(t) : t \in UNION {[1 .. n -> Words \cup {";", ">"}] : n \in 0 .. 3}}

Lines1 ==
  UNION {{Join(Text(<<x>>), b) : x \in Words \cup {";"}, b \in Substituted(a)}
           \cup {Join(b, Text(<<x, y>>)) : x \in {";", ">"}, y \in Words, b \in Substituted(a)} :
         a \in Lines0}

Lines2 ==
  UNION {{Join(Text(<<x>>), b) : x \in Words, b \in Substituted(a)}
           \cup {Join(b, c) : b \in Substituted(a), c \in Substituted(Text(<<"rm">>))} :
         a \in {line \in Lines1 : Len(line.tokens) <= 5}}

MCCommandLines == Lines0 \cup Lines1 \cup Lines2

(* No definition orders or names a policy, a key or a request.             *)
Interchangeable == Permutations(PolicyIds) \cup Permutations(KeyRows) \cup Permutations(PanelCalls)
=============================================================================
