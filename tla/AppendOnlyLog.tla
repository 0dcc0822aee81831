---------------------------- MODULE AppendOnlyLog ----------------------------
(***************************************************************************)
(* What a receipt chain promises: a log that only grows, one entry at a    *)
(* time, in which no receipt appears twice.                                *)
(***************************************************************************)
EXTENDS Sequences

CONSTANT Links   (* what an entry commits to: a receipt and its payload    *)

VARIABLE log

Init == log = <<>>

Extend(link) ==
  /\ \A i \in DOMAIN log : log[i].receiptId # link.receiptId
  /\ log' = Append(log, link)

Next == \E link \in Links : Extend(link)

Spec == Init /\ [][Next]_log
=============================================================================
