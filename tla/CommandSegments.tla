--------------------------- MODULE CommandSegments ---------------------------
(***************************************************************************)
(* How src/lib/agentwingPolicy.ts takes a command line apart:              *)
(* commandSegments, one action per turn of its loop, and                   *)
(* isReadOnlyShellCommand.  A line is a sequence of tokens: ";" stands for *)
(* every operator that begins a new command, ">" for a redirection,        *)
(* "dollar" and "close" for the ends of a dollar-parenthesis substitution, *)
(* "tick" for a backtick.  A piece of a line, and a command in it, is the  *)
(* set of the places it has in the line.  Quotes and subshells in          *)
(* parentheses are left out.                                               *)
(***************************************************************************)
EXTENDS Naturals, Sequences, FiniteSets

CONSTANTS
  SafeWords,        (* SAFE_READ_COMMANDS                                   *)
  OtherWords,
  MaxSubstitutions, (* the guard of the loop                                *)
  CommandLines,     (* the lines that are tried, as a shell reads them      *)
  NoLine

Words == SafeWords \cup OtherWords
Delimiters == {"dollar", "close", "tick"}

(* How a shell reads a line: subs are the places where its substitutions   *)
(* begin and end.  They nest or follow each other, every delimiter is an   *)
(* end of one, and a backtick ends at the next.                            *)
Nested(r, s) == s[1] < r[1] /\ r[2] < s[2]

WellRead(line) ==
  LET t == line.tokens
  IN  /\ t \in Seq(Words \cup {";", ">"} \cup Delimiters)
      /\ line.subs \in SUBSET ((DOMAIN t) \X (DOMAIN t))
      /\ \A s \in line.subs :
           /\ s[1] < s[2]
           /\ \/ t[s[1]] = "dollar" /\ t[s[2]] = "close"
              \/ t[s[1]] = "tick" /\ t[s[2]] = "tick" /\ \A k \in s[1] + 1 .. s[2] - 1 : t[k] # "tick"
      /\ \A r, s \in line.subs : r = s \/ r[2] < s[1] \/ s[2] < r[1] \/ Nested(r, s) \/ Nested(s, r)
      /\ \A k \in DOMAIN t : t[k] \in Delimiters => \E s \in line.subs : k = s[1] \/ k = s[2]

ASSUME LinesAreWellRead == \A line \in CommandLines : WellRead(line)

ASSUME SegmentBounds ==
  /\ MaxSubstitutions \in Nat
  /\ Words \cap ({";", ">"} \cup Delimiters) = {}
  /\ NoLine \notin CommandLines

VARIABLES
  commandLine,  (* what the agent proposes                                  *)
  pieces,       (* the texts under way: the places left of each, and guard  *)
  segments,     (* the commands found                                       *)
  readOnly      (* isReadOnlyShellCommand, "unknown" before it is known     *)

segmentVars == <<commandLine, pieces, segments, readOnly>>

tokens == commandLine.tokens

-----------------------------------------------------------------------------
(* The code.                                                               *)

DollarToFirstClose(t, at, i, j) ==
  t[i] = "dollar" /\ t[j] = "close" /\ \A k \in at : i < k /\ k < j => t[k] # "close"

(* A match of the expression: no parenthesis, or no backtick, in between.  *)
DollarAt(t, at, i, j) ==
  t[i] = "dollar" /\ t[j] = "close" /\ \A k \in at : i < k /\ k < j => t[k] \notin {"dollar", "close"}

BacktickAt(t, at, i, j) ==
  t[i] = "tick" /\ t[j] = "tick" /\ \A k \in at : i < k /\ k < j => t[k] # "tick"

Substitutions(t, at) ==
  {ij \in at \X at : ij[1] < ij[2] /\ (DollarAt(t, at, ij[1], ij[2]) \/ BacktickAt(t, at, ij[1], ij[2]))}

(* exec finds the leftmost one, and the shortest that starts there.        *)
IsLeftmost(ij, found) ==
  ij \in found /\ \A kl \in found : ij[1] < kl[1] \/ (ij[1] = kl[1] /\ ij[2] <= kl[2])

(* split: the commands between the separators, none of them empty.         *)
Split(t, at) ==
  LET places == {k \in at : t[k] # ";"}
      Together(i, k) == \A c \in at : t[c] = ";" => (c < i <=> c < k)
  IN  {{k \in places : Together(i, k)} : i \in places}

Proposed ==
  /\ commandLine = NoLine
  /\ \E line \in CommandLines :
       /\ commandLine' = line
       /\ pieces' = {[at |-> DOMAIN line.tokens, guard |-> MaxSubstitutions]}
  /\ UNCHANGED <<segments, readOnly>>

(* Faulty variants, here and below, are what a plausible slip in the code  *)
(* would make of the definition that follows: each breaks a property.      *)
DropSubstitution(piece) ==
  /\ piece.guard > 0
  /\ \E ij \in Substitutions(tokens, piece.at) :
       /\ IsLeftmost(ij, Substitutions(tokens, piece.at))
       /\ pieces' = (pieces \ {piece})
            \cup {[at |-> {k \in piece.at : k < ij[1] \/ ij[2] < k}, guard |-> piece.guard - 1]}
  /\ UNCHANGED <<commandLine, segments, readOnly>>

(* A turn of the loop: the substitution is taken out of the text, and what *)
(* stands in it is a text of its own.  The call for that one ends before   *)
(* the loop goes on; no text bears on another, so any order is the same.   *)
LiftSubstitution(piece) ==
  /\ piece.guard > 0
  /\ \E ij \in Substitutions(tokens, piece.at) :
       LET inner == {k \in piece.at : ij[1] < k /\ k < ij[2]}
           rest  == {k \in piece.at : k < ij[1] \/ ij[2] < k}
       IN  /\ IsLeftmost(ij, Substitutions(tokens, piece.at))
           /\ pieces' = (pieces \ {piece}) \cup {[at |-> rest, guard |-> piece.guard - 1]}
                \cup (IF inner = {} THEN {} ELSE {[at |-> inner, guard |-> MaxSubstitutions]})
  /\ UNCHANGED <<commandLine, segments, readOnly>>

(* Past the loop, or at its guard.                                         *)
SplitRest(piece) ==
  /\ piece.guard = 0 \/ Substitutions(tokens, piece.at) = {}
  /\ segments' = segments \cup Split(tokens, piece.at)
  /\ pieces' = pieces \ {piece}
  /\ UNCHANGED <<commandLine, readOnly>>

FirstOf(command) == CHOOSE i \in command : \A k \in command : i <= k

OnlyReads(t, command) ==
  t[FirstOf(command)] \in SafeWords /\ \A k \in command : t[k] # ">"

FirstSegmentDecides(t, found) == \E command \in found : OnlyReads(t, command)

IsReadOnly(t, found) ==
  found # {} /\ \A command \in found : OnlyReads(t, command)

Decide ==
  /\ commandLine # NoLine /\ pieces = {} /\ readOnly = "unknown"
  /\ readOnly' = IF IsReadOnly(tokens, segments) THEN "yes" ELSE "no"
  /\ UNCHANGED <<commandLine, pieces, segments>>

-----------------------------------------------------------------------------
SegmentsInit ==
  /\ commandLine = NoLine
  /\ pieces = {} /\ segments = {}
  /\ readOnly = "unknown"

SegmentsNext ==
  \/ Proposed \/ Decide
  \/ \E piece \in pieces : LiftSubstitution(piece) \/ SplitRest(piece)

SegmentsSpec == SegmentsInit /\ [][SegmentsNext]_segmentVars

-----------------------------------------------------------------------------
(* Properties.                                                             *)

(* What a shell runs of a line: the commands of the line itself, and those *)
(* of each of its substitutions, whatever is nested in them left out.      *)
Whole(line) == <<0, Len(line.tokens) + 1>>

Scopes(line) == line.subs \cup {Whole(line)}

Own(line, s) ==
  {k \in DOMAIN line.tokens :
     s[1] < k /\ k < s[2] /\ \A r \in line.subs : Nested(r, s) => k < r[1] \/ r[2] < k}

ShellRuns(line) == UNION {Split(line.tokens, Own(line, s)) : s \in Scopes(line)}

(* Every command the shell would run is a segment of its own, however it   *)
(* is nested: nothing hides behind a safe-looking prefix.                  *)
NoCommandIsHidden == readOnly # "unknown" => ShellRuns(commandLine) \subseteq segments

(* A line called read-only runs allowlisted commands only and writes to no *)
(* file.                                                                   *)
ReadOnlyLinesOnlyRead ==
  readOnly = "yes" => \A command \in ShellRuns(commandLine) : OnlyReads(tokens, command)

(* On a line with no more substitutions than the loop's guard lets pass,   *)
(* the splitter overlooks no command that the shell would run, so that a   *)
(* line is read-only only if all of it is.                                 *)
CommandLinesAreReadInFull ==
  commandLine # NoLine /\ Cardinality(commandLine.subs) <= MaxSubstitutions =>
    NoCommandIsHidden /\ ReadOnlyLinesOnlyRead
=============================================================================
