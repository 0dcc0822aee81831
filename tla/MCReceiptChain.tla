--------------------------- MODULE MCReceiptChain ---------------------------
(***************************************************************************)
(* Instances of ReceiptExport (and so of ReceiptChain) for TLC.            *)
(***************************************************************************)
EXTENDS ReceiptExport, TLC

(* Nothing orders or names a receipt or an export.                         *)
Interchangeable == Permutations(Receipts) \cup Permutations(Exports)
=============================================================================
