--------------------------- MODULE ReceiptVerifier ---------------------------
(***************************************************************************)
(* verifyChain of packages/receipt-verifier/src/index.ts, for a log of one *)
(* workspace whose checkpoint, if it has one, is signed by the right key.  *)
(* A hash is the sequence of links it commits to.                          *)
(***************************************************************************)
EXTENDS Naturals, Sequences

CONSTANT NoCheckpoint

GenesisHash == <<>>

(* The hash the verifier computes for itself.                              *)
ComputedHash(entry) ==
  Append(entry.prevHash, [receiptId |-> entry.receiptId, payload |-> entry.payload])

(* The codes found at entry i of a log sorted by seq.                      *)
EntryProblems(log, i) ==
  LET entry == log[i]
      expectedPrev == IF i = 1 THEN GenesisHash ELSE log[i - 1].hash
  IN (IF i > 1 /\ entry.seq # log[i - 1].seq + 1 THEN {"sequence_gap"} ELSE {})
     \cup (IF entry.seq = 1 /\ entry.prevHash # GenesisHash THEN {"genesis_mismatch"} ELSE {})
     \cup (IF entry.seq # 1 /\ entry.prevHash # expectedPrev THEN {"prev_hash_mismatch"} ELSE {})
     \cup (IF ComputedHash(entry) # entry.hash THEN {"hash_mismatch"} ELSE {})

(* A checkpoint is the head hash it signs; its treeSize is that one's length. *)
CheckpointProblems(log, checkpoint) ==
  LET covered == {i \in DOMAIN log : log[i].seq = Len(checkpoint)}
  IN IF checkpoint = NoCheckpoint THEN {}
     ELSE IF covered = {} THEN {"checkpoint_size_mismatch"}
     ELSE IF \E i \in covered : (\A j \in covered : i <= j) /\ log[i].hash # checkpoint
          THEN {"checkpoint_head_mismatch"} ELSE {}

Problems(log, checkpoint) ==
  IF log = <<>> THEN {"empty_log"}
  ELSE CheckpointProblems(log, checkpoint) \cup UNION {EntryProblems(log, i) : i \in DOMAIN log}
=============================================================================
