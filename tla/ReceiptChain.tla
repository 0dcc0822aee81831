---------------------------- MODULE ReceiptChain ----------------------------
(***************************************************************************)
(* The receipt chain of one workspace: createReceipt of                    *)
(* src/lib/agentwingStore.ts, src/lib/receiptChainStore.ts over the tables *)
(* of migrations/0011, and the export route.  ReceiptExport adds what the  *)
(* offline verifier says of an export.                                     *)
(*                                                                         *)
(* A hash is the sequence of links it commits to, so SHA-256 is taken to   *)
(* be free of collisions, GENESIS_HASH is <<>>, and the head's seq is the  *)
(* length of its hash.  Each action is one awaited D1 statement with the   *)
(* synchronous code after it.                                              *)
(***************************************************************************)
EXTENDS Naturals, Sequences, FiniteSets

CONSTANTS
  Receipts,      (* receipt ids: each is created, and appended, by one call *)
  Exports,       (* GET /receipts/export requests                           *)
  MaxAttempts,   (* MAX_APPEND_ATTEMPTS                                     *)
  ExportLimit,   (* the export's LIMIT                                      *)
  NoCheckpoint

ASSUME BoundAssumption == MaxAttempts \in Nat \ {0} /\ ExportLimit \in Nat \ {0}

(* "pending": nothing was executed yet; "ran": the execution's result.     *)
Results == {"pending", "ran"}
Links   == [receiptId : Receipts, payload : Results]
GenesisHash == <<>>

AppendStages == {"new", "chain", "read_head", "advance", "insert", "done", "failed"}
ExportStages == {"new", "read_latest", "sign", "read_rows", "read_checkpoint", "done"}

VARIABLES
  result,        (* receipts.exit_code and the columns beside it, or "absent" *)
  head,          (* receipt_chain_head: the hash, and by its length the seq *)
  rows,          (* receipt_chain                                           *)
  checkpoints,   (* the head_hash of each row of receipt_checkpoints        *)
  pc, payload, from, attempts,   (* createReceipt, per receipt             *)
  xpc, signing, tip, exported, covering   (* the export route, per export  *)

appendVars == <<pc, payload, from, attempts>>
exportVars == <<xpc, signing, tip, exported, covering>>
vars == <<result, head, rows, checkpoints, pc, payload, from, attempts,
          xpc, signing, tip, exported, covering>>

Hashes  == Seq(Links)
Entries == [seq : Nat, receiptId : Receipts, payload : Results,
            prevHash : Hashes, hash : Hashes]

TypeOK ==
  /\ result \in [Receipts -> Results \cup {"absent"}]
  /\ head \in Hashes
  /\ rows \in SUBSET Entries
  /\ checkpoints \in SUBSET Hashes
  /\ pc \in [Receipts -> AppendStages]
  /\ payload \in [Receipts -> Results]
  /\ from \in [Receipts -> Hashes]
  /\ attempts \in [Receipts -> 0..MaxAttempts]
  /\ xpc \in [Exports -> ExportStages]
  /\ signing \in [Exports -> BOOLEAN]
  /\ tip \in [Exports -> Hashes]
  /\ exported \in [Exports -> SUBSET Entries]
  /\ covering \in [Exports -> Hashes \cup {NoCheckpoint}]

Init ==
  /\ result = [a \in Receipts |-> "absent"]
  /\ head = GenesisHash
  /\ rows = {}
  /\ checkpoints = {}
  /\ pc = [a \in Receipts |-> "new"]
  /\ payload = [a \in Receipts |-> "pending"]
  /\ from = [a \in Receipts |-> GenesisHash]
  /\ attempts = [a \in Receipts |-> 0]
  /\ xpc = [x \in Exports |-> "new"]
  /\ signing = [x \in Exports |-> FALSE]
  /\ tip = [x \in Exports |-> GenesisHash]
  /\ exported = [x \in Exports |-> {}]
  /\ covering = [x \in Exports |-> NoCheckpoint]

-----------------------------------------------------------------------------
(* createReceipt and appendReceiptToChain.                                 *)

Goto(a, stage) == pc' = [pc EXCEPT ![a] = stage]

Link(a) == [receiptId |-> a, payload |-> payload[a]]

EntryHash(prevHash, link) == Append(prevHash, link)

(* buildEntry, on the head the appender read.                              *)
Entry(a) ==
  [seq |-> Len(from[a]) + 1, receiptId |-> a, payload |-> payload[a],
   prevHash |-> from[a], hash |-> EntryHash(from[a], Link(a))]

(* The INSERT INTO receipts, with the result the evaluation carries:       *)
(* execute-action has none yet, sandbox/run has already run the command.   *)
InsertReceipt(a) ==
  /\ pc[a] = "new"
  /\ \E outcome \in Results :
       /\ result' = [result EXCEPT ![a] = outcome]
       /\ payload' = [payload EXCEPT ![a] = outcome]
  /\ Goto(a, "chain")
  /\ UNCHANGED <<head, rows, checkpoints, from, attempts, exportVars>>

(* Idempotent by receipt id.                                               *)
CheckExisting(a) ==
  /\ pc[a] = "chain"
  /\ Goto(a, IF \E e \in rows : e.receiptId = a THEN "done" ELSE "read_head")
  /\ UNCHANGED <<result, head, rows, checkpoints, payload, from, attempts, exportVars>>

ReadHead(a) ==
  /\ pc[a] = "read_head"
  /\ from' = [from EXCEPT ![a] = head]
  /\ attempts' = [attempts EXCEPT ![a] = @ + 1]
  /\ Goto(a, "advance")
  /\ UNCHANGED <<result, head, rows, checkpoints, payload, exportVars>>

(* Faulty variants, here and below, are what a plausible slip in the code  *)
(* would make of the definition that follows: each breaks a property.      *)
HeadMovedUnnoticed(a) ==
  /\ pc[a] = "advance"
  /\ head' = Entry(a).hash
  /\ Goto(a, "insert")
  /\ UNCHANGED <<result, rows, checkpoints, payload, from, attempts, exportVars>>

RetriedOnceTooOften(a) ==
  /\ pc[a] = "advance"
  /\ \/ /\ Len(head) = Len(from[a])
        /\ head' = Entry(a).hash
        /\ Goto(a, "insert")
     \/ /\ Len(head) # Len(from[a])
        /\ Goto(a, IF attempts[a] <= MaxAttempts THEN "read_head" ELSE "failed")
        /\ UNCHANGED head
  /\ UNCHANGED <<result, rows, checkpoints, payload, from, attempts, exportVars>>

(* advanceHead: a compare-and-swap on the seq (at 0, an INSERT that an     *)
(* existing head row turns into nothing).  The loser reads the head again, *)
(* or gives up; createReceipt swallows that.                               *)
AdvanceHead(a) ==
  /\ pc[a] = "advance"
  /\ \/ /\ Len(head) = Len(from[a])
        /\ head' = Entry(a).hash
        /\ Goto(a, "insert")
     \/ /\ Len(head) # Len(from[a])
        /\ Goto(a, IF attempts[a] < MaxAttempts THEN "read_head" ELSE "failed")
        /\ UNCHANGED head
  /\ UNCHANGED <<result, rows, checkpoints, payload, from, attempts, exportVars>>

InsertOnHeadNow(a) ==
  /\ pc[a] = "insert"
  /\ rows' = rows \cup {[Entry(a) EXCEPT !.seq = Len(head)]}
  /\ Goto(a, "done")
  /\ UNCHANGED <<result, head, checkpoints, payload, from, attempts, exportVars>>

InsertEntry(a) ==
  /\ pc[a] = "insert"
  /\ rows' = rows \cup {Entry(a)}
  /\ Goto(a, "done")
  /\ UNCHANGED <<result, head, checkpoints, payload, from, attempts, exportVars>>

(* A statement of the append throws, or the isolate dies: what was written *)
(* stays.  A throw is swallowed and the caller goes on with its receipt.   *)
AppendFails(a) ==
  /\ pc[a] \in {"chain", "read_head", "advance", "insert"}
  /\ Goto(a, "failed")
  /\ UNCHANGED <<result, head, rows, checkpoints, payload, from, attempts, exportVars>>

(* updateReceiptExecutionResult: the receipt's row, and nothing else.      *)
UpdateExecutionResult(a) ==
  /\ pc[a] \in {"done", "failed"} /\ result[a] = "pending"
  /\ result' = [result EXCEPT ![a] = "ran"]
  /\ UNCHANGED <<head, rows, checkpoints, appendVars, exportVars>>

-----------------------------------------------------------------------------
(* The export: issueCheckpointIfNeeded, then exportChain.                  *)

XGoto(x, stage) == xpc' = [xpc EXCEPT ![x] = stage]

(* No signing key, or an empty chain: nothing to sign.                     *)
ReadTip(x) ==
  /\ xpc[x] = "new"
  /\ \E key \in BOOLEAN :
       /\ signing' = [signing EXCEPT ![x] = key]
       /\ tip' = IF key THEN [tip EXCEPT ![x] = head] ELSE tip
       /\ XGoto(x, IF key /\ head # GenesisHash THEN "read_latest" ELSE "read_rows")
  /\ UNCHANGED <<result, head, rows, checkpoints, appendVars, exported, covering>>

(* ORDER BY tree_size DESC LIMIT 1.                                        *)
IsLatest(c) == c \in checkpoints /\ \A d \in checkpoints : Len(d) <= Len(c)

ReadLatestCheckpoint(x) ==
  /\ xpc[x] = "read_latest"
  /\ XGoto(x, IF \E c \in checkpoints : Len(c) >= Len(tip[x]) THEN "read_rows" ELSE "sign")
  /\ UNCHANGED <<result, head, rows, checkpoints, appendVars, signing, tip, exported, covering>>

(* INSERT OR IGNORE under an id made of the tree size.                     *)
WriteCheckpoint(x) ==
  /\ xpc[x] = "sign"
  /\ checkpoints' = IF \E c \in checkpoints : Len(c) = Len(tip[x])
                    THEN checkpoints ELSE checkpoints \cup {tip[x]}
  /\ XGoto(x, "read_rows")
  /\ UNCHANGED <<result, head, rows, appendVars, signing, tip, exported, covering>>

(* ORDER BY seq ASC LIMIT ExportLimit.                                     *)
FirstRows == {e \in rows : Cardinality({f \in rows : f.seq <= e.seq}) <= ExportLimit}

ReadRows(x) ==
  /\ xpc[x] = "read_rows"
  /\ exported' = [exported EXCEPT ![x] = FirstRows]
  /\ XGoto(x, "read_checkpoint")
  /\ UNCHANGED <<result, head, rows, checkpoints, appendVars, signing, tip, covering>>

ReadCheckpoint(x) ==
  /\ xpc[x] = "read_checkpoint"
  /\ \/ checkpoints = {} /\ UNCHANGED covering
     \/ \E c \in checkpoints : IsLatest(c) /\ covering' = [covering EXCEPT ![x] = c]
  /\ XGoto(x, "done")
  /\ UNCHANGED <<result, head, rows, checkpoints, appendVars, signing, tip, exported>>

-----------------------------------------------------------------------------
CreateReceipt(a) ==
  \/ InsertReceipt(a) \/ CheckExisting(a) \/ ReadHead(a) \/ AdvanceHead(a)
  \/ InsertEntry(a) \/ AppendFails(a) \/ UpdateExecutionResult(a)

ExportReceipts(x) ==
  \/ ReadTip(x) \/ ReadLatestCheckpoint(x) \/ WriteCheckpoint(x)
  \/ ReadRows(x) \/ ReadCheckpoint(x)

Next ==
  \/ \E a \in Receipts : CreateReceipt(a)
  \/ \E x \in Exports : ExportReceipts(x)

Spec == Init /\ [][Next]_vars

-----------------------------------------------------------------------------
(* Properties.                                                             *)

IsPrefixOf(h, g) == Len(h) <= Len(g) /\ \A i \in 1..Len(h) : h[i] = g[i]

(* However appenders race, the table holds one chain: every row's hash     *)
(* commits to a prefix of what the head commits to, at the row's seq.      *)
OneChain ==
  \A e \in rows : /\ e.seq = Len(e.hash) /\ IsPrefixOf(e.hash, head)
                 /\ e.hash = EntryHash(e.prevHash, [receiptId |-> e.receiptId, payload |-> e.payload])

(* An appender that moved the head has its sequence number to itself: the  *)
(* INSERT that follows cannot collide, and the head is never rewound.      *)
InsertCannotCollide ==
  \A a \in Receipts : pc[a] = "insert" =>
    /\ \A e \in rows : e.seq # Entry(a).seq /\ e.receiptId # a
    /\ \A b \in Receipts \ {a} : pc[b] = "insert" => Entry(b).seq # Entry(a).seq

(* The compare-and-swap on the head keeps one chain: no fork in the table  *)
(* and none about to be inserted.                                          *)
ChainIsSound == OneChain /\ InsertCannotCollide

(* A sequence number the head counts and no row carries is an append that  *)
(* is still to insert its row, or that failed between the two statements.  *)
GapsAreUnfinishedAppends ==
  \A n \in 1..Len(head) :
    \/ \E e \in rows : e.seq = n /\ e.receiptId = head[n].receiptId
    \/ pc[head[n].receiptId] \in {"insert", "failed"}

(* Whatever is appended later, what was once signed stays a prefix of the  *)
(* chain, and no two checkpoints disagree.                                 *)
CheckpointsStayTrue == \A c \in checkpoints : IsPrefixOf(c, head)

Log == INSTANCE AppendOnlyLog WITH log <- head

(* The head row, moved by compare-and-swap from concurrent requests, is a  *)
(* log that only grows, by one receipt at a time, never twice by the same. *)
ChainIsALog == Log!Spec
=============================================================================
