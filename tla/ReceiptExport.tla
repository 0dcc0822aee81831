---------------------------- MODULE ReceiptExport ----------------------------
(***************************************************************************)
(* The receipt chain, its export and the offline verifier together: what   *)
(* an auditor who runs the verifier on an export is told.                  *)
(***************************************************************************)
EXTENDS ReceiptChain

Verifier == INSTANCE ReceiptVerifier

(* verifyChain sorts by seq before it looks.                               *)
InOrder(entries) ==
  LET places == 1..Cardinality(entries)
  IN  CHOOSE log \in [places -> entries] :
        /\ \A e \in entries : \E i \in places : log[i] = e
        /\ \A i, j \in places : i < j => log[i].seq <= log[j].seq

Report(x) == Verifier!Problems(InOrder(exported[x]), covering[x])

Finished(x) == xpc[x] = "done"

-----------------------------------------------------------------------------
(* An export of a log nobody tampered with is never reported as rewritten  *)
(* or altered, however the export interleaves with appends, checkpoints    *)
(* and other exports.  A break between two entries is reported only where  *)
(* an entry is missing.                                                    *)
NoFalseTamperAlarm ==
  \A x \in Exports : Finished(x) =>
    /\ Report(x) \cap {"hash_mismatch", "genesis_mismatch", "checkpoint_head_mismatch"} = {}
    /\ "prev_hash_mismatch" \in Report(x) => \E n \in 1..Len(head) :
         ~ \E e \in exported[x] : e.seq = n

(* An export that holds every entry the head counts verifies with no       *)
(* problem at all, whatever checkpoint it carries.                         *)
CompleteExportVerifies ==
  \A x \in Exports :
    ( /\ Finished(x) /\ exported[x] # {}
      /\ \A n \in 1..Len(head) : \E e \in exported[x] : e.seq = n )
      => Report(x) = {}

(* The verifier tells an untouched export from a tampered one, however the *)
(* export's four reads interleave with appends and other exports.          *)
ExportsVerify == NoFalseTamperAlarm /\ CompleteExportVerifies
=============================================================================
