------------------------ MODULE ReceiptChain_proofs ------------------------
(***************************************************************************)
(* The receipt chain, its export and what the verifier says of it, for any *)
(* number of receipts and exports, any attempt bound and any export limit. *)
(***************************************************************************)
EXTENDS ReceiptExport, SequenceTheorems, FiniteSetTheorems, TLAPS

LEMMA EntryType ==
  ASSUME TypeOK, NEW a \in Receipts
  PROVE  /\ Link(a) \in Links /\ Entry(a) \in Entries
         /\ Entry(a).seq = Len(from[a]) + 1 /\ Entry(a).receiptId = a
         /\ Entry(a).prevHash = from[a] /\ Entry(a).payload = payload[a]
         /\ Entry(a).hash = Append(from[a], Link(a))
         /\ Len(Entry(a).hash) = Entry(a).seq
<1>1. Link(a) \in Links
  BY DEF TypeOK, Link, Links
<1>2. from[a] \in Seq(Links) /\ Append(from[a], Link(a)) \in Seq(Links) /\ Len(from[a]) \in Nat
  BY <1>1 DEF TypeOK, Hashes
<1>3. Len(Append(from[a], Link(a))) = Len(from[a]) + 1
  BY <1>1, <1>2
<1>4. Entry(a) = [seq |-> Len(from[a]) + 1, receiptId |-> a, payload |-> payload[a],
                  prevHash |-> from[a], hash |-> Append(from[a], Link(a))]
  BY DEF Entry, EntryHash
<1>5. payload[a] \in Results
  BY DEF TypeOK
<1> QED BY <1>1, <1>2, <1>3, <1>4, <1>5 DEF Entries, Hashes

(* The attempt counter, where a handler is going to use it.                *)
AttemptsLeft ==
  \A a \in Receipts :
    /\ pc[a] \in {"new", "chain"} => attempts[a] = 0
    /\ pc[a] = "read_head" => attempts[a] < MaxAttempts

LEMMA TypeInit == Init => TypeOK /\ AttemptsLeft
<1> SUFFICES ASSUME Init PROVE TypeOK /\ AttemptsLeft
  OBVIOUS
<1>1. GenesisHash \in Hashes
  BY DEF GenesisHash, Hashes
<1> QED BY <1>1, BoundAssumption DEF Init, TypeOK, AttemptsLeft, Results, AppendStages, ExportStages

LEMMA TypeStep == TypeOK /\ AttemptsLeft /\ [Next]_vars => TypeOK' /\ AttemptsLeft'
<1> SUFFICES ASSUME TypeOK, AttemptsLeft, [Next]_vars PROVE TypeOK' /\ AttemptsLeft'
  OBVIOUS
<1> USE BoundAssumption DEF TypeOK, AttemptsLeft, appendVars, exportVars
<1>1. ASSUME NEW a \in Receipts, CreateReceipt(a) PROVE TypeOK' /\ AttemptsLeft'
  <2> USE DEF Goto, AppendStages
  <2>1. CASE InsertReceipt(a) BY <2>1 DEF InsertReceipt
  <2>2. CASE CheckExisting(a) BY <2>2 DEF CheckExisting
  <2>3. CASE ReadHead(a) BY <2>3 DEF ReadHead
  <2>4. CASE AdvanceHead(a)
    <3>1. Entry(a).hash \in Hashes
      BY EntryType DEF Entries
    <3> QED BY <2>4, <3>1 DEF AdvanceHead
  <2>5. CASE InsertEntry(a)
    <3>1. Entry(a) \in Entries
      BY EntryType
    <3> QED BY <2>5, <3>1 DEF InsertEntry
  <2>6. CASE AppendFails(a) BY <2>6 DEF AppendFails
  <2>7. CASE UpdateExecutionResult(a) BY <2>7 DEF UpdateExecutionResult, Results
  <2> QED BY <1>1, <2>1, <2>2, <2>3, <2>4, <2>5, <2>6, <2>7 DEF CreateReceipt
<1>2. ASSUME NEW x \in Exports, ExportReceipts(x) PROVE TypeOK' /\ AttemptsLeft'
  <2> USE DEF XGoto, ExportStages
  <2>1. CASE ReadTip(x) BY <2>1 DEF ReadTip
  <2>2. CASE ReadLatestCheckpoint(x) BY <2>2 DEF ReadLatestCheckpoint
  <2>3. CASE WriteCheckpoint(x) BY <2>3 DEF WriteCheckpoint
  <2>4. CASE ReadRows(x)
    <3>1. FirstRows \in SUBSET Entries
      BY DEF FirstRows
    <3> QED BY <2>4, <3>1 DEF ReadRows
  <2>5. CASE ReadCheckpoint(x) BY <2>5 DEF ReadCheckpoint
  <2> QED BY <1>2, <2>1, <2>2, <2>3, <2>4, <2>5 DEF ExportReceipts
<1>3. CASE UNCHANGED vars BY <1>3 DEF vars
<1> QED BY <1>1, <1>2, <1>3 DEF Next

(* Every table and every handler's local keeps its type.                   *)
THEOREM TypeCorrect == Spec => []TypeOK
BY TypeInit, TypeStep, PTL DEF Spec

-----------------------------------------------------------------------------
(* The inductive invariant: no receipt is in the head twice; what handlers *)
(* remember, what was inserted and what was signed are prefixes of the     *)
(* head; an append that has not claimed a place has none.                  *)

HeadUnique ==
  \A i, j \in 1..Len(head) : head[i].receiptId = head[j].receiptId => i = j

Claims ==
  \A a \in Receipts :
    /\ IsPrefixOf(from[a], head)
    /\ pc[a] = "insert" => IsPrefixOf(Entry(a).hash, head)

Unclaimed ==
  \A a \in Receipts :
    /\ pc[a] \in {"new", "chain", "read_head", "advance"} =>
         \A i \in 1..Len(head) : head[i].receiptId # a
    /\ pc[a] \in {"new", "chain", "read_head", "advance", "insert"} =>
         \A e \in rows : e.receiptId # a

Signed == CheckpointsStayTrue /\ \A x \in Exports : IsPrefixOf(tip[x], head)

ChainInv ==
  HeadUnique /\ Claims /\ Unclaimed /\ OneChain /\ GapsAreUnfinishedAppends /\ Signed

LEMMA PrefixEqual ==
  ASSUME NEW g \in Hashes, NEW h \in Hashes, IsPrefixOf(g, h), Len(g) = Len(h)
  PROVE  g = h
BY SeqEqual DEF IsPrefixOf, Hashes

LEMMA PrefixGrows ==
  ASSUME NEW g \in Hashes, NEW h \in Hashes, NEW link \in Links, IsPrefixOf(g, h)
  PROVE  IsPrefixOf(g, Append(h, link))
<1>1. Len(Append(h, link)) = Len(h) + 1 /\ \A i \in 1..Len(h) : Append(h, link)[i] = h[i]
  BY DEF Hashes
<1>2. Len(g) \in Nat /\ Len(h) \in Nat
  BY DEF Hashes
<1> QED BY <1>1, <1>2 DEF IsPrefixOf

LEMMA PrefixOfItself ==
  ASSUME NEW h \in Hashes PROVE IsPrefixOf(h, h)
BY DEF IsPrefixOf, Hashes

(* The last link a row's hash commits to is the row's own.                 *)
LEMMA RowInHead ==
  ASSUME TypeOK, OneChain, NEW e \in rows
  PROVE  e.seq \in 1..Len(head) /\ head[e.seq].receiptId = e.receiptId
<1>1. e.prevHash \in Seq(Links) /\ e.hash \in Seq(Links) /\ head \in Seq(Links)
  BY DEF TypeOK, Entries, Hashes
<1>2. [receiptId |-> e.receiptId, payload |-> e.payload] \in Links
  BY DEF TypeOK, Entries, Links
<1>3. Len(e.hash) = Len(e.prevHash) + 1 /\ Len(e.prevHash) \in Nat
      /\ e.hash[Len(e.prevHash) + 1].receiptId = e.receiptId
  BY <1>1, <1>2 DEF OneChain, EntryHash
<1>4. e.seq = Len(e.hash) /\ IsPrefixOf(e.hash, head)
  BY DEF OneChain
<1> QED BY <1>1, <1>3, <1>4 DEF IsPrefixOf

LEMMA ClaimInHead ==
  ASSUME TypeOK, Claims, NEW a \in Receipts, pc[a] = "insert"
  PROVE  Entry(a).seq \in 1..Len(head) /\ head[Entry(a).seq].receiptId = a
<1>1. IsPrefixOf(Entry(a).hash, head) /\ Len(Entry(a).hash) = Entry(a).seq
      /\ Entry(a).seq = Len(from[a]) + 1
  BY EntryType DEF Claims
<1>2. from[a] \in Seq(Links) /\ Link(a) \in Links /\ Entry(a).hash = Append(from[a], Link(a))
  BY EntryType DEF TypeOK, Hashes
<1>3. Len(from[a]) \in Nat /\ Entry(a).hash[Len(from[a]) + 1] = Link(a)
  BY <1>2
<1>4. head \in Seq(Links)
  BY DEF TypeOK, Hashes
<1> QED BY <1>1, <1>3, <1>4 DEF IsPrefixOf, Link

LEMMA InsertIsAlone == TypeOK /\ ChainInv => InsertCannotCollide
<1> SUFFICES ASSUME TypeOK, ChainInv, NEW a \in Receipts, pc[a] = "insert"
             PROVE  /\ \A e \in rows : e.seq # Entry(a).seq /\ e.receiptId # a
                    /\ \A b \in Receipts \ {a} : pc[b] = "insert" => Entry(b).seq # Entry(a).seq
  BY DEF InsertCannotCollide
<1>1. head[Entry(a).seq].receiptId = a
  BY ClaimInHead DEF ChainInv
<1>2. ASSUME NEW e \in rows PROVE e.seq # Entry(a).seq /\ e.receiptId # a
  BY <1>1, RowInHead DEF ChainInv, Unclaimed
<1>3. ASSUME NEW b \in Receipts \ {a}, pc[b] = "insert" PROVE Entry(b).seq # Entry(a).seq
  BY <1>1, <1>3, ClaimInHead DEF ChainInv
<1> QED BY <1>2, <1>3

LEMMA ChainInit == Init => ChainInv
<1> SUFFICES ASSUME Init PROVE ChainInv
  OBVIOUS
<1>1. Len(GenesisHash) = 0 /\ 1..0 = {}
  BY DEF GenesisHash
<1> QED
  BY <1>1 DEF Init, ChainInv, HeadUnique, Claims, Unclaimed, OneChain, GapsAreUnfinishedAppends,
     Signed, CheckpointsStayTrue, IsPrefixOf

(* The step that moves the head: the winner read the very head it moves.   *)
LEMMA HeadMoves ==
  ASSUME TypeOK, ChainInv, NEW a \in Receipts, AdvanceHead(a), head' # head
  PROVE  /\ pc[a] = "advance" /\ from[a] = head /\ head' = Append(head, Link(a))
         /\ pc' = [pc EXCEPT ![a] = "insert"]
<1>1. pc[a] = "advance" /\ Len(head) = Len(from[a]) /\ head' = Entry(a).hash /\ Goto(a, "insert")
  BY DEF AdvanceHead
<1>2. from[a] = head
  BY <1>1, PrefixEqual DEF TypeOK, ChainInv, Claims
<1> QED BY <1>1, <1>2, EntryType DEF Goto

LEMMA AdvanceKeepsChain ==
  ASSUME TypeOK, ChainInv, NEW a \in Receipts, AdvanceHead(a), head' # head
  PROVE  ChainInv'
<1>1. /\ pc[a] = "advance" /\ from[a] = head /\ head' = Append(head, Link(a))
      /\ pc' = [pc EXCEPT ![a] = "insert"]
  BY HeadMoves
<1>2. UNCHANGED <<result, rows, checkpoints, payload, from, attempts, tip>>
  BY DEF AdvanceHead, exportVars
<1>3. Link(a) \in Links /\ head \in Hashes /\ head \in Seq(Links) /\ Len(head) \in Nat
  BY EntryType DEF TypeOK, Hashes
<1>4. /\ Len(head') = Len(head) + 1 /\ head'[Len(head) + 1] = Link(a) /\ Link(a).receiptId = a
      /\ \A i \in 1..Len(head) : head'[i] = head[i]
  BY <1>1, <1>3 DEF Link
<1>5. \A h \in Hashes : IsPrefixOf(h, head) => IsPrefixOf(h, head')
  BY <1>1, <1>3, PrefixGrows
<1>6. \A i \in 1..Len(head) : head[i].receiptId # a
  BY <1>1 DEF ChainInv, Unclaimed
<1>7. HeadUnique'
  BY <1>3, <1>4, <1>6 DEF ChainInv, HeadUnique
<1>8. Claims'
  <2>1. ASSUME NEW b \in Receipts PROVE IsPrefixOf(from'[b], head')
    BY <1>2, <1>5 DEF ChainInv, Claims, TypeOK
  <2>2. ASSUME NEW b \in Receipts, pc'[b] = "insert" PROVE IsPrefixOf(Entry(b)'.hash, head')
    <3>1. Entry(b)' = Entry(b) /\ Entry(b).hash \in Hashes
      BY <1>2, EntryType DEF Entry, EntryHash, Link, Entries
    <3>2. CASE b = a
      BY <3>1, <3>2, <1>1, EntryType, PrefixOfItself
    <3>3. CASE b # a
      <4>1. IsPrefixOf(Entry(b).hash, head)
        BY <1>1, <2>2, <3>3 DEF ChainInv, Claims, TypeOK
      <4> QED BY <3>1, <4>1, <1>5
    <3> QED BY <3>2, <3>3
  <2> QED BY <2>1, <2>2 DEF Claims
<1>9. Unclaimed'
  <2> SUFFICES ASSUME NEW b \in Receipts
               PROVE /\ pc'[b] \in {"new", "chain", "read_head", "advance"} =>
                          \A i \in 1..Len(head') : head'[i].receiptId # b
                     /\ pc'[b] \in {"new", "chain", "read_head", "advance", "insert"} =>
                          \A e \in rows : e.receiptId # b
    BY <1>2 DEF Unclaimed
  <2>1. CASE b = a
    BY <1>1, <2>1 DEF ChainInv, Unclaimed, TypeOK
  <2>2. CASE b # a
    <3>1. pc'[b] = pc[b]
      BY <1>1, <2>2 DEF TypeOK
    <3>2. ASSUME pc[b] \in {"new", "chain", "read_head", "advance"}, NEW i \in 1..Len(head')
          PROVE  head'[i].receiptId # b
      <4>1. i \in 1..Len(head) \/ i = Len(head) + 1
        BY <1>3, <1>4
      <4> QED BY <4>1, <1>4, <2>2, <3>2 DEF ChainInv, Unclaimed
    <3> QED BY <3>1, <3>2 DEF ChainInv, Unclaimed
  <2> QED BY <2>1, <2>2
<1>10. OneChain'
  <2>1. \A e \in rows : e.hash \in Hashes
    BY DEF TypeOK, Entries
  <2> QED BY <2>1, <1>2, <1>5 DEF ChainInv, OneChain
<1>11. GapsAreUnfinishedAppends'
  <2> SUFFICES ASSUME NEW n \in 1..Len(head')
               PROVE  \/ \E e \in rows : e.seq = n /\ e.receiptId = head'[n].receiptId
                      \/ pc'[head'[n].receiptId] \in {"insert", "failed"}
    BY <1>2 DEF GapsAreUnfinishedAppends
  <2>1. CASE n = Len(head) + 1
    BY <1>1, <1>4, <2>1 DEF TypeOK
  <2>2. CASE n \in 1..Len(head)
    <3>1. head[n] \in Links
      BY <1>3, <2>2
    <3>2. head[n].receiptId \in Receipts /\ head[n].receiptId # a /\ head'[n] = head[n]
      BY <3>1, <1>4, <1>6, <2>2 DEF Links
    <3> QED BY <1>1, <2>2, <3>2 DEF ChainInv, GapsAreUnfinishedAppends, TypeOK
  <2> QED BY <1>3, <1>4, <2>1, <2>2
<1>12. Signed'
  BY <1>2, <1>5 DEF ChainInv, Signed, CheckpointsStayTrue, TypeOK
<1> QED BY <1>7, <1>8, <1>9, <1>10, <1>11, <1>12 DEF ChainInv

(* The row of a claimed place.                                             *)
LEMMA InsertKeepsChain ==
  ASSUME TypeOK, ChainInv, NEW a \in Receipts, InsertEntry(a)
  PROVE  ChainInv'
<1>1. /\ pc[a] = "insert" /\ rows' = rows \cup {Entry(a)} /\ pc' = [pc EXCEPT ![a] = "done"]
      /\ UNCHANGED <<result, head, checkpoints, payload, from, attempts, tip>>
  BY DEF InsertEntry, Goto, exportVars
<1>2. IsPrefixOf(Entry(a).hash, head)
  BY <1>1 DEF ChainInv, Claims
<1>3. Entry(a).seq \in 1..Len(head) /\ head[Entry(a).seq].receiptId = a /\ Entry(a).receiptId = a
  BY <1>1, ClaimInHead, EntryType DEF ChainInv
<1>4. HeadUnique' /\ Signed'
  BY <1>1 DEF ChainInv, HeadUnique, Signed, CheckpointsStayTrue
<1>5. Claims'
  <2>1. \A b \in Receipts : Entry(b)' = Entry(b)
    BY <1>1 DEF Entry, EntryHash, Link
  <2> QED BY <1>1, <2>1 DEF ChainInv, Claims, TypeOK
<1>6. Unclaimed'
  BY <1>1, <1>3 DEF ChainInv, Unclaimed, TypeOK
<1>7. OneChain'
  <2>1. Entry(a).hash = EntryHash(Entry(a).prevHash,
                                  [receiptId |-> Entry(a).receiptId, payload |-> Entry(a).payload])
    BY EntryType DEF EntryHash, Link
  <2>2. Entry(a).seq = Len(Entry(a).hash)
    BY EntryType
  <2> QED BY <1>1, <1>2, <2>1, <2>2 DEF ChainInv, OneChain
<1>8. GapsAreUnfinishedAppends'
  <2> SUFFICES ASSUME NEW n \in 1..Len(head)
               PROVE  \/ \E e \in rows' : e.seq = n /\ e.receiptId = head[n].receiptId
                      \/ pc'[head[n].receiptId] \in {"insert", "failed"}
    BY <1>1 DEF GapsAreUnfinishedAppends
  <2>1. CASE head[n].receiptId = a
    BY <1>1, <1>3, <2>1 DEF ChainInv, HeadUnique
  <2>2. CASE head[n].receiptId # a
    BY <1>1, <2>2 DEF ChainInv, GapsAreUnfinishedAppends, TypeOK
  <2> QED BY <2>1, <2>2
<1> QED BY <1>4, <1>5, <1>6, <1>7, <1>8 DEF ChainInv

(* Every other step of an appender only moves its own counter and what it  *)
(* remembers of the head.                                                  *)
MovesOn(a, stage) ==
  /\ pc' = [pc EXCEPT ![a] = stage]
  /\ head' = head /\ rows' = rows /\ checkpoints' = checkpoints /\ tip' = tip
  /\ \A b \in Receipts \ {a} : from'[b] = from[b] /\ payload'[b] = payload[b]
  /\ from'[a] \in {from[a], head}
  /\ \/ stage = "failed"
     \/ /\ stage \in {"chain", "read_head", "advance"}
        /\ pc[a] \in {"new", "chain", "read_head", "advance"}

LEMMA AppenderKeepsChain ==
  ASSUME TypeOK, ChainInv, NEW a \in Receipts, NEW stage, MovesOn(a, stage)
  PROVE  ChainInv'
<1> USE DEF MovesOn
<1>1. HeadUnique' /\ OneChain' /\ Signed'
  BY DEF ChainInv, HeadUnique, OneChain, EntryHash, Signed, CheckpointsStayTrue
<1>2. Claims'
  <2> SUFFICES ASSUME NEW b \in Receipts
               PROVE  /\ IsPrefixOf(from'[b], head)
                      /\ pc'[b] = "insert" => IsPrefixOf(Entry(b)'.hash, head)
    BY DEF Claims
  <2>1. IsPrefixOf(from'[b], head)
    BY PrefixOfItself DEF ChainInv, Claims, TypeOK
  <2>2. ASSUME pc'[b] = "insert" PROVE IsPrefixOf(Entry(b)'.hash, head)
    <3>1. b # a /\ pc[b] = "insert"
      BY <2>2 DEF TypeOK
    <3>2. payload'[b] = payload[b] /\ from'[b] = from[b]
      BY <3>1 DEF TypeOK
    <3>3. Entry(b)' = Entry(b)
      BY <3>2 DEF Entry, EntryHash, Link
    <3> QED BY <3>1, <3>3 DEF ChainInv, Claims
  <2> QED BY <2>1, <2>2
<1>3. Unclaimed'
  BY DEF ChainInv, Unclaimed, TypeOK
<1>4. GapsAreUnfinishedAppends'
  <2> SUFFICES ASSUME NEW n \in 1..Len(head)
               PROVE  \/ \E e \in rows : e.seq = n /\ e.receiptId = head[n].receiptId
                      \/ pc'[head[n].receiptId] \in {"insert", "failed"}
    BY DEF GapsAreUnfinishedAppends
  <2>1. CASE head[n].receiptId = a
    BY <2>1 DEF ChainInv, GapsAreUnfinishedAppends, Unclaimed, TypeOK
  <2>2. CASE head[n].receiptId # a
    BY <2>2 DEF ChainInv, GapsAreUnfinishedAppends, TypeOK
  <2> QED BY <2>1, <2>2
<1> QED BY <1>1, <1>2, <1>3, <1>4 DEF ChainInv

LEMMA ChainStep == TypeOK /\ ChainInv /\ [Next]_vars => ChainInv'
<1> SUFFICES ASSUME TypeOK, ChainInv, [Next]_vars PROVE ChainInv'
  OBVIOUS
<1>1. ASSUME UNCHANGED <<head, rows, pc, payload, from>>, Signed' PROVE ChainInv'
  BY <1>1 DEF ChainInv, HeadUnique, Claims, Unclaimed, OneChain, GapsAreUnfinishedAppends,
     Entry, EntryHash, Link
<1>2. ASSUME UNCHANGED <<head, rows, checkpoints, tip, pc, payload, from>> PROVE ChainInv'
  BY <1>1, <1>2 DEF ChainInv, Signed, CheckpointsStayTrue
<1>3. ASSUME NEW a \in Receipts, CreateReceipt(a) PROVE ChainInv'
  <2> USE DEF Goto, exportVars
  <2>1. CASE InsertReceipt(a)
    <3>1. MovesOn(a, "chain")
      BY <2>1 DEF InsertReceipt, MovesOn, TypeOK
    <3> QED BY <3>1, AppenderKeepsChain
  <2>2. CASE CheckExisting(a)
    <3>1. ~ \E e \in rows : e.receiptId = a
      BY <2>2 DEF CheckExisting, ChainInv, Unclaimed
    <3>2. MovesOn(a, "read_head")
      BY <2>2, <3>1 DEF CheckExisting, MovesOn
    <3> QED BY <3>2, AppenderKeepsChain
  <2>3. CASE ReadHead(a)
    <3>1. MovesOn(a, "advance")
      BY <2>3 DEF ReadHead, MovesOn, TypeOK
    <3> QED BY <3>1, AppenderKeepsChain
  <2>4. CASE AdvanceHead(a)
    <3>1. CASE head' # head
      BY <2>4, <3>1, AdvanceKeepsChain
    <3>2. CASE head' = head
      <4>1. head' # Entry(a).hash \/ Len(head) # Len(from[a])
        <5>1. Len(Entry(a).hash) = Len(from[a]) + 1 /\ Len(from[a]) \in Nat
          BY EntryType DEF TypeOK, Hashes
        <5> QED BY <3>2, <5>1
      <4>2. MovesOn(a, "read_head") \/ MovesOn(a, "failed")
        BY <2>4, <3>2, <4>1 DEF AdvanceHead, MovesOn
      <4> QED BY <4>2, AppenderKeepsChain
    <3> QED BY <3>1, <3>2
  <2>5. CASE InsertEntry(a)
    BY <2>5, InsertKeepsChain
  <2>6. CASE AppendFails(a)
    <3>1. MovesOn(a, "failed")
      BY <2>6 DEF AppendFails, MovesOn
    <3> QED BY <3>1, AppenderKeepsChain
  <2>7. CASE UpdateExecutionResult(a)
    BY <2>7, <1>2 DEF UpdateExecutionResult, appendVars
  <2> QED BY <1>3, <2>1, <2>2, <2>3, <2>4, <2>5, <2>6, <2>7 DEF CreateReceipt
<1>4. ASSUME NEW x \in Exports, ExportReceipts(x) PROVE ChainInv'
  <2> USE DEF appendVars
  <2>1. CASE ReadTip(x)
    <3>1. Signed'
      BY <2>1, PrefixOfItself DEF ReadTip, ChainInv, Signed, CheckpointsStayTrue, TypeOK
    <3> QED BY <2>1, <3>1, <1>1 DEF ReadTip
  <2>2. CASE WriteCheckpoint(x)
    <3>1. Signed'
      BY <2>2 DEF WriteCheckpoint, ChainInv, Signed, CheckpointsStayTrue
    <3> QED BY <2>2, <3>1, <1>1 DEF WriteCheckpoint
  <2>3. CASE ReadLatestCheckpoint(x) \/ ReadRows(x) \/ ReadCheckpoint(x)
    BY <2>3, <1>2 DEF ReadLatestCheckpoint, ReadRows, ReadCheckpoint
  <2> QED BY <1>4, <2>1, <2>2, <2>3 DEF ExportReceipts
<1>5. CASE UNCHANGED vars
  BY <1>2, <1>5 DEF vars
<1> QED BY <1>3, <1>4, <1>5 DEF Next

LEMMA ChainInvariant == Spec => [](TypeOK /\ ChainInv)
<1>1. Init => TypeOK /\ AttemptsLeft /\ ChainInv
  BY TypeInit, ChainInit
<1>2. TypeOK /\ AttemptsLeft /\ ChainInv /\ [Next]_vars => TypeOK' /\ AttemptsLeft' /\ ChainInv'
  BY TypeStep, ChainStep
<1> QED BY <1>1, <1>2, PTL DEF Spec

(* Compare-and-swap on the head is enough: the table holds one chain for   *)
(* any number of concurrent appenders.                                     *)
THEOREM OneChainSafety == Spec => []OneChain
<1>1. ChainInv => OneChain
  BY DEF ChainInv
<1> QED BY <1>1, ChainInvariant, PTL

(* The INSERT after a won compare-and-swap has no rival.                   *)
THEOREM InsertSafety == Spec => []InsertCannotCollide
BY InsertIsAlone, ChainInvariant, PTL

(* Both: appendToChain keeps one chain, for any number of appenders.       *)
THEOREM ChainSafety == Spec => []ChainIsSound
<1>1. OneChain /\ InsertCannotCollide => ChainIsSound
  BY DEF ChainIsSound
<1> QED BY <1>1, OneChainSafety, InsertSafety, PTL

(* A missing sequence number has an append that stopped, or is, half way.  *)
THEOREM GapSafety == Spec => []GapsAreUnfinishedAppends
<1>1. ChainInv => GapsAreUnfinishedAppends
  BY DEF ChainInv
<1> QED BY <1>1, ChainInvariant, PTL

(* What was signed once stays a prefix of the chain for ever.              *)
THEOREM CheckpointSafety == Spec => []CheckpointsStayTrue
<1>1. ChainInv => CheckpointsStayTrue
  BY DEF ChainInv, Signed
<1> QED BY <1>1, ChainInvariant, PTL

-----------------------------------------------------------------------------
LEMMA OnlyAdvanceMovesHead ==
  ASSUME [Next]_vars, head' # head
  PROVE  \E a \in Receipts : AdvanceHead(a)
BY DEF Next, vars, CreateReceipt, InsertReceipt, CheckExisting, ReadHead, InsertEntry,
   AppendFails, UpdateExecutionResult, ExportReceipts, ReadTip, ReadLatestCheckpoint,
   WriteCheckpoint, ReadRows, ReadCheckpoint

(* The head implements the append-only log: every step extends it by one   *)
(* link of a receipt that is not in it, or leaves it alone.                *)
THEOREM LogRefinement == Spec => ChainIsALog
<1>1. Init => Log!Init
  BY DEF Init, Log!Init, GenesisHash
<1>2. TypeOK /\ ChainInv /\ [Next]_vars => [Log!Next]_head
  <2> SUFFICES ASSUME TypeOK, ChainInv, [Next]_vars, head' # head PROVE Log!Next
    OBVIOUS
  <2>1. PICK a \in Receipts : AdvanceHead(a)
    BY OnlyAdvanceMovesHead
  <2>2. pc[a] = "advance" /\ head' = Append(head, Link(a)) /\ Link(a) \in Links
    BY <2>1, HeadMoves, EntryType
  <2>3. \A i \in DOMAIN head : head[i].receiptId # Link(a).receiptId
    BY <2>2 DEF ChainInv, Unclaimed, Link, TypeOK, Hashes
  <2>4. Log!Extend(Link(a))
    BY <2>2, <2>3 DEF Log!Extend
  <2> QED BY <2>2, <2>4 DEF Log!Next
<1> QED BY <1>1, <1>2, ChainInvariant, PTL DEF Spec, ChainIsALog, Log!Spec

-----------------------------------------------------------------------------
(* What the verifier is given.  The log is what a sort by seq makes of the *)
(* exported rows: the n-th is the one that n - 1 others precede.           *)
Rank(entries, e) == Cardinality({f \in entries : f.seq < e.seq})

Distinct(entries) == \A e, f \in entries : e.seq = f.seq => e = f

LEMMA RanksAreDistinct ==
  ASSUME NEW entries \in SUBSET Entries, IsFiniteSet(entries), Distinct(entries),
         NEW e \in entries, NEW f \in entries, e.seq < f.seq
  PROVE  /\ Rank(entries, e) < Rank(entries, f)
         /\ Rank(entries, f) < Cardinality(entries)
         /\ Rank(entries, e) \in Nat /\ Rank(entries, f) \in Nat
<1> DEFINE E == {g \in entries : g.seq < e.seq}
           F == {g \in entries : g.seq < f.seq}
<1>0. \A g \in entries : g.seq \in Nat
  BY DEF Entries
<1>1. E \subseteq F /\ e \in F /\ e \notin E
  BY <1>0
<1>2. F \subseteq entries /\ f \in entries /\ f \notin F
  BY <1>0
<1>3. /\ IsFiniteSet(F) /\ Cardinality(F) <= Cardinality(entries)
      /\ Cardinality(F) = Cardinality(entries) => F = entries
  BY <1>2, FS_Subset
<1>4. Cardinality(E) <= Cardinality(F) /\ IsFiniteSet(E) /\ (Cardinality(E) = Cardinality(F) => E = F)
  BY <1>1, <1>3, FS_Subset
<1>5. Cardinality(E) \in Nat /\ Cardinality(F) \in Nat /\ Cardinality(entries) \in Nat
  BY <1>3, <1>4, FS_CardinalityType
<1>6. E # F /\ F # entries
  BY <1>1, <1>2
<1>7. Rank(entries, e) = Cardinality(E) /\ Rank(entries, f) = Cardinality(F)
  BY DEF Rank
<1> HIDE DEF E, F
<1> QED BY <1>3, <1>4, <1>5, <1>6, <1>7

LEMMA RankBelow ==
  ASSUME NEW entries \in SUBSET Entries, IsFiniteSet(entries), NEW e \in entries
  PROVE  Rank(entries, e) \in Nat /\ Rank(entries, e) < Cardinality(entries) /\ Cardinality(entries) \in Nat
<1> DEFINE E == {g \in entries : g.seq < e.seq}
<1>1. E \subseteq entries /\ e \in entries /\ e \notin E
  BY DEF Entries
<1>2. /\ IsFiniteSet(E) /\ Cardinality(E) <= Cardinality(entries)
      /\ Cardinality(E) = Cardinality(entries) => E = entries
  BY <1>1, FS_Subset
<1>3. Cardinality(E) \in Nat /\ Cardinality(entries) \in Nat
  BY <1>2, FS_CardinalityType
<1>4. Rank(entries, e) = Cardinality(E) /\ E # entries
  BY <1>1 DEF Rank
<1> HIDE DEF E
<1> QED BY <1>2, <1>3, <1>4

(* Every place is taken, since otherwise the ranks would have to share.    *)
LEMMA PlacesAreTaken ==
  ASSUME NEW entries \in SUBSET Entries, IsFiniteSet(entries), Distinct(entries),
         NEW i \in 1..Cardinality(entries)
  PROVE  \E e \in entries : Rank(entries, e) = i - 1
<1> SUFFICES ASSUME \A e \in entries : Rank(entries, e) # i - 1 PROVE FALSE
  OBVIOUS
<1> DEFINE n == Cardinality(entries)
           T == (0..(n - 1)) \ {i - 1}
           f == [e \in entries |-> Rank(entries, e)]
<1>1. n \in Nat
  BY FS_CardinalityType
<1>2. IsFiniteSet(0..(n - 1)) /\ Cardinality(0..(n - 1)) = n
  <2> DEFINE m == n - 1
  <2>1. m \in Int /\ m >= 0 /\ n = m + 1
    BY <1>1
  <2> HIDE DEF m
  <2>2. IsFiniteSet(0..m) /\ Cardinality(0..m) = IF 0 > m THEN 0 ELSE m - 0 + 1
    BY <2>1, FS_Interval
  <2>3. IsFiniteSet(0..m) /\ Cardinality(0..m) = n
    BY <2>1, <2>2
  <2> QED BY <2>3 DEF m
<1>3. i - 1 \in 0..(n - 1)
  BY <1>1
<1>4. IsFiniteSet(T) /\ Cardinality(T) = n - 1
  <2> DEFINE I == 0..(n - 1)
  <2>1. IsFiniteSet(I) /\ Cardinality(I) = n /\ i - 1 \in I
    BY <1>2, <1>3
  <2> HIDE DEF I
  <2>2. IsFiniteSet(I \ {i - 1}) /\ Cardinality(I \ {i - 1}) = Cardinality(I) - 1
    BY <2>1, FS_RemoveElement
  <2> QED BY <2>1, <2>2 DEF I
<1>5. f \in [entries -> T]
  <2>1. \A e \in entries : Rank(entries, e) \in T
    BY <1>1, RankBelow
  <2> QED BY <2>1
<1>6. Cardinality(T) < Cardinality(entries)
  BY <1>1, <1>4
<1> HIDE DEF T, f
<1>7. PICK e \in entries, g \in entries : e # g /\ f[e] = f[g]
  BY <1>4, <1>5, <1>6, FS_PigeonHole
<1>8. e.seq < g.seq \/ g.seq < e.seq
  <2>1. e.seq \in Nat /\ g.seq \in Nat /\ e.seq # g.seq
    BY <1>7 DEF Entries, Distinct
  <2> QED BY <2>1
<1>9. Rank(entries, e) = Rank(entries, g)
  BY <1>7 DEF f
<1> QED BY <1>8, <1>9, RanksAreDistinct

IsInOrder(log, entries) ==
  /\ log \in [1..Cardinality(entries) -> entries]
  /\ \A e \in entries : \E i \in 1..Cardinality(entries) : log[i] = e
  /\ \A i, j \in 1..Cardinality(entries) : i < j => log[i].seq <= log[j].seq

LEMMA InOrderIsInOrder ==
  ASSUME NEW entries \in SUBSET Entries, IsFiniteSet(entries), Distinct(entries)
  PROVE  IsInOrder(InOrder(entries), entries)
<1> DEFINE places == 1..Cardinality(entries)
           log == [i \in places |-> CHOOSE e \in entries : Rank(entries, e) = i - 1]
<1>0. Cardinality(entries) \in Nat
  BY FS_CardinalityType
<1>1. ASSUME NEW i \in places PROVE log[i] \in entries /\ Rank(entries, log[i]) = i - 1
  <2>1. \E e \in entries : Rank(entries, e) = i - 1
    BY PlacesAreTaken
  <2> QED BY <2>1
<1>2. log \in [places -> entries]
  BY <1>1
<1> HIDE DEF log
<1>3. ASSUME NEW e \in entries PROVE \E i \in places : log[i] = e
  <2> DEFINE i == Rank(entries, e) + 1
  <2>1. i \in places /\ i - 1 = Rank(entries, e)
    BY <1>0, RankBelow
  <2>2. log[i] \in entries /\ Rank(entries, log[i]) = Rank(entries, e)
    BY <1>1, <2>1
  <2>3. log[i].seq \in Nat /\ e.seq \in Nat
    BY <2>2 DEF Entries
  <2>4. ~ (log[i].seq < e.seq) /\ ~ (e.seq < log[i].seq)
    BY <2>2, RanksAreDistinct
  <2>5. log[i] = e
    BY <2>2, <2>3, <2>4 DEF Distinct
  <2> QED BY <2>1, <2>5
<1>4. ASSUME NEW i \in places, NEW j \in places, i < j PROVE log[i].seq <= log[j].seq
  <2>1. log[i].seq \in Nat /\ log[j].seq \in Nat
    BY <1>1 DEF Entries
  <2> SUFFICES ASSUME log[j].seq < log[i].seq PROVE FALSE
    BY <2>1
  <2>2. Rank(entries, log[j]) < Rank(entries, log[i])
    BY <1>1, RanksAreDistinct
  <2> QED BY <1>0, <1>1, <1>4, <2>2
<1>5. \E l \in [places -> entries] :
        /\ \A e \in entries : \E i \in places : l[i] = e
        /\ \A i, j \in places : i < j => l[i].seq <= l[j].seq
  BY <1>2, <1>3, <1>4
<1> QED BY <1>5 DEF InOrder, IsInOrder

(* No row is at two places of the log.                                     *)
LEMMA InOrderOnce ==
  ASSUME NEW entries, IsFiniteSet(entries), NEW log, IsInOrder(log, entries),
         NEW i \in 1..Cardinality(entries), NEW j \in 1..Cardinality(entries), log[i] = log[j]
  PROVE  i = j
<1> DEFINE n == Cardinality(entries)
           places == 1..n
<1>1. n \in Nat
  BY FS_CardinalityType
<1>2. IsFiniteSet(places) /\ Cardinality(places) = n
  <2>1. 1 \in Int /\ n \in Int /\ (IF 1 > n THEN 0 ELSE n - 1 + 1) = n
    BY <1>1
  <2>2. IsFiniteSet(1..n) /\ Cardinality(1..n) = (IF 1 > n THEN 0 ELSE n - 1 + 1)
    <3> HIDE DEF n
    <3> QED BY <2>1, FS_Interval
  <2> HIDE DEF n
  <2> QED BY <2>1, <2>2
<1>3. log \in Surjection(places, entries)
  BY DEF IsInOrder, Surjection
<1>4. log \in Injection(places, entries)
  BY <1>2, <1>3, FS_SurjSameCardinalityImpliesInj
<1> QED BY <1>4 DEF Injection, IsInjective

(* Rows that are one chain: what the verifier needs to know of each.       *)
OnHead(entries) ==
  /\ entries \in SUBSET Entries /\ IsFiniteSet(entries)
  /\ \A e \in entries :
       /\ e.seq = Len(e.hash) /\ IsPrefixOf(e.hash, head)
       /\ e.hash = Append(e.prevHash, [receiptId |-> e.receiptId, payload |-> e.payload])

Complete(entries) == \A n \in 1..Len(head) : \E e \in entries : e.seq = n

LEMMA SamePrefix ==
  ASSUME head \in Hashes, NEW g \in Hashes, NEW h \in Hashes,
         IsPrefixOf(g, head), IsPrefixOf(h, head), Len(g) = Len(h)
  PROVE  g = h
<1>1. \A i \in 1..Len(g) : g[i] = h[i]
  BY DEF IsPrefixOf
<1> QED BY <1>1, SeqEqual DEF Hashes

LEMMA EntryOnHead ==
  ASSUME head \in Hashes, NEW entries, OnHead(entries), NEW e \in entries
  PROVE  /\ e.seq \in 1..Len(head) /\ e.hash \in Hashes /\ e.prevHash \in Hashes
         /\ Len(e.prevHash) = e.seq - 1 /\ IsPrefixOf(e.prevHash, head)
<1>1. /\ e.seq \in Nat /\ e.receiptId \in Receipts /\ e.payload \in Results
      /\ e.hash \in Hashes /\ e.prevHash \in Hashes
      /\ e.seq = Len(e.hash) /\ IsPrefixOf(e.hash, head)
      /\ e.hash = Append(e.prevHash, [receiptId |-> e.receiptId, payload |-> e.payload])
  BY DEF OnHead, Entries
<1>2. [receiptId |-> e.receiptId, payload |-> e.payload] \in Links
  BY <1>1 DEF Links
<1>3. /\ Len(e.hash) = Len(e.prevHash) + 1 /\ Len(e.prevHash) \in Nat
      /\ \A i \in 1..Len(e.prevHash) : e.hash[i] = e.prevHash[i]
  BY <1>1, <1>2, AppendProperties DEF Hashes
<1>4. Len(head) \in Nat
  BY DEF Hashes
<1> QED BY SMTT(60), <1>1, <1>3, <1>4 DEF IsPrefixOf

LEMMA ChainIsDistinct ==
  ASSUME head \in Hashes, NEW entries, OnHead(entries)
  PROVE  Distinct(entries)
<1> SUFFICES ASSUME NEW e \in entries, NEW f \in entries, e.seq = f.seq PROVE e = f
  BY DEF Distinct
<1>1. /\ e \in Entries /\ f \in Entries /\ Len(e.hash) = e.seq /\ Len(f.hash) = f.seq
      /\ IsPrefixOf(e.hash, head) /\ IsPrefixOf(f.hash, head)
      /\ e.hash = Append(e.prevHash, [receiptId |-> e.receiptId, payload |-> e.payload])
      /\ f.hash = Append(f.prevHash, [receiptId |-> f.receiptId, payload |-> f.payload])
  BY DEF OnHead
<1>2. e.hash = f.hash
  BY <1>1, SamePrefix DEF Entries
<1> DEFINE k == [receiptId |-> e.receiptId, payload |-> e.payload]
           l == [receiptId |-> f.receiptId, payload |-> f.payload]
<1>3. k \in Links /\ l \in Links /\ e.prevHash \in Seq(Links) /\ f.prevHash \in Seq(Links)
  BY <1>1 DEF Entries, Links, Hashes
<1>4. e.prevHash = f.prevHash /\ k = l
  <2> DEFINE p == e.prevHash
             q == f.prevHash
  <2>1. Append(p, k) = Append(q, l) /\ p \in Seq(Links) /\ q \in Seq(Links)
    BY <1>1, <1>2, <1>3
  <2>2. p = q /\ k = l
    <3> HIDE DEF k, l, p, q
    <3>1. /\ Len(Append(p, k)) = Len(p) + 1 /\ Len(Append(q, l)) = Len(q) + 1
          /\ Append(p, k)[Len(p) + 1] = k /\ Append(q, l)[Len(q) + 1] = l
          /\ \A i \in 1..Len(p) : Append(p, k)[i] = p[i]
          /\ \A i \in 1..Len(q) : Append(q, l)[i] = q[i]
          /\ Len(p) \in Nat /\ Len(q) \in Nat
      BY SMTT(60), <1>3, <2>1
    <3>2. Len(p) = Len(q)
      BY <2>1, <3>1
    <3> QED BY <2>1, <3>1, <3>2, SeqEqual
  <2> QED BY <2>2
<1>5. e.receiptId = f.receiptId /\ e.payload = f.payload
  BY <1>4
<1>6. /\ e = [seq |-> e.seq, receiptId |-> e.receiptId, payload |-> e.payload,
              prevHash |-> e.prevHash, hash |-> e.hash]
      /\ f = [seq |-> f.seq, receiptId |-> f.receiptId, payload |-> f.payload,
              prevHash |-> f.prevHash, hash |-> f.hash]
  BY <1>1 DEF Entries
<1>7. e.seq = f.seq
  OBVIOUS
<1> HIDE DEF k, l
<1> QED BY <1>2, <1>4, <1>5, <1>6, <1>7

(* A log that misses nothing counts from one, place by place.              *)
LEMMA CompleteCounts ==
  ASSUME head \in Hashes, NEW entries, OnHead(entries), NEW log, IsInOrder(log, entries),
         Complete(entries), NEW i \in 1..Cardinality(entries)
  PROVE  IF i = 1 THEN log[i].seq = 1
                  ELSE i - 1 \in 1..Cardinality(entries) /\ log[i].seq = log[i - 1].seq + 1
<1> DEFINE n == Cardinality(entries)
<1>0. n \in Nat /\ Len(head) \in Nat /\ IsFiniteSet(entries)
  BY FS_CardinalityType DEF OnHead, Hashes
<1>1. \A j \in 1..n : log[j] \in entries /\ log[j].seq \in 1..Len(head)
  BY EntryOnHead DEF IsInOrder
<1>2. \A m \in 1..Len(head) : \E j \in 1..n : log[j].seq = m
  <2> SUFFICES ASSUME NEW m \in 1..Len(head) PROVE \E j \in 1..n : log[j].seq = m
    OBVIOUS
  <2>1. PICK e \in entries : e.seq = m
    BY DEF Complete
  <2>2. PICK j \in 1..n : log[j] = e
    BY DEF IsInOrder
  <2> QED BY <2>1, <2>2
<1>3. \A j, k \in 1..n : j < k => log[j].seq < log[k].seq
  <2> SUFFICES ASSUME NEW j \in 1..n, NEW k \in 1..n, j < k PROVE log[j].seq < log[k].seq
    OBVIOUS
  <2>1. log[j].seq <= log[k].seq
    BY DEF IsInOrder
  <2>2. log[j].seq # log[k].seq
    <3>1. log[j] # log[k]
      BY <1>0, InOrderOnce
    <3> QED BY <1>1, <3>1, ChainIsDistinct DEF Distinct
  <2> QED BY <1>1, <2>1, <2>2
<1> HIDE DEF n
<1>4. i \in 1..n
  BY DEF n
<1>5. CASE i = 1
  <2>1. 1 \in 1..Len(head)
    BY <1>0, <1>1, <1>4
  <2>2. PICK j \in 1..n : log[j].seq = 1
    BY <1>2, <2>1
  <2>3. j = i \/ i < j
    BY <1>0, <1>5
  <2>4. log[i].seq <= 1
    BY <1>1, <1>3, <1>4, <2>2, <2>3
  <2> QED BY <1>0, <1>1, <1>4, <1>5, <2>4
<1>6. CASE i # 1
  <2>1. i - 1 \in 1..n /\ i - 1 < i
    BY <1>0, <1>4, <1>6
  <2>2. log[i - 1].seq < log[i].seq /\ log[i - 1].seq \in Nat /\ log[i].seq \in Nat
    BY <1>0, <1>1, <1>3, <1>4, <2>1
  <2>3. log[i].seq - 1 \in 1..Len(head)
    BY <1>0, <1>1, <1>4, <2>1, <2>2
  <2>4. PICK j \in 1..n : log[j].seq = log[i].seq - 1
    BY <1>2, <2>3
  <2>5. ~ (i < j) /\ j # i
    BY <1>3, <1>4, <2>2, <2>4
  <2>6. j = i - 1 \/ j < i - 1
    BY <1>0, <1>4, <2>1, <2>5
  <2>7. ~ (j < i - 1)
    BY <1>3, <2>1, <2>2, <2>4
  <2> QED BY <1>6, <2>1, <2>2, <2>4, <2>6, <2>7 DEF n
<1> QED BY <1>5, <1>6

(* What the verifier says of one entry of a log that is part of the chain. *)
LEMMA EntryReport ==
  ASSUME head \in Hashes, NEW entries, OnHead(entries), NEW log, IsInOrder(log, entries),
         NEW i \in 1..Cardinality(entries)
  PROVE  /\ Verifier!EntryProblems(log, i) \subseteq {"sequence_gap", "prev_hash_mismatch"}
         /\ Complete(entries) => Verifier!EntryProblems(log, i) = {}
<1> DEFINE e == log[i]
           before == log[i - 1]
<1>1. e \in entries
  BY DEF IsInOrder
<1>2. /\ e.seq \in 1..Len(head) /\ e.hash \in Hashes /\ e.prevHash \in Hashes
      /\ Len(e.prevHash) = e.seq - 1 /\ IsPrefixOf(e.prevHash, head)
      /\ e.hash = Verifier!ComputedHash(e)
  <2>1. e.hash = Append(e.prevHash, [receiptId |-> e.receiptId, payload |-> e.payload])
    BY <1>1 DEF OnHead
  <2> QED BY <1>1, <2>1, EntryOnHead DEF Verifier!ComputedHash
<1>3. e.seq = 1 => e.prevHash = <<>>
  BY <1>2, EmptySeq DEF Hashes
<1>4. Verifier!EntryProblems(log, i) \subseteq {"sequence_gap", "prev_hash_mismatch"}
  BY <1>2, <1>3 DEF Verifier!EntryProblems, Verifier!GenesisHash
<1>5. ASSUME Complete(entries) PROVE Verifier!EntryProblems(log, i) = {}
  <2>1. IF i = 1 THEN e.seq = 1 ELSE i - 1 \in 1..Cardinality(entries) /\ e.seq = before.seq + 1
    BY <1>5, CompleteCounts
  <2>2. CASE i = 1
    BY <1>2, <1>3, <2>1, <2>2 DEF Verifier!EntryProblems, Verifier!GenesisHash
  <2>3. CASE i # 1
    <3>1. before \in entries /\ before.seq + 1 = e.seq
      BY <2>1, <2>3 DEF IsInOrder
    <3>2. before.hash \in Hashes /\ Len(before.hash) = before.seq /\ IsPrefixOf(before.hash, head)
          /\ before.seq \in 1..Len(head)
      BY <3>1, EntryOnHead DEF OnHead
    <3>3. Len(before.hash) = Len(e.prevHash) /\ Len(head) \in Nat
      BY <1>2, <3>1, <3>2 DEF Hashes
    <3>4. e.prevHash = before.hash
      <4> HIDE DEF e, before
      <4> QED BY <1>2, <3>2, <3>3, SamePrefix
    <3>5. e.seq # 1 /\ e.seq = before.seq + 1
      BY <1>2, <3>1, <3>2, <3>3
    <3> QED BY <1>2, <2>3, <3>4, <3>5 DEF Verifier!EntryProblems
  <2> QED BY <2>2, <2>3
<1> QED BY <1>4, <1>5

(* And of a checkpoint whose head hash the chain has kept as a prefix.     *)
LEMMA CheckpointReport ==
  ASSUME head \in Hashes, NEW entries, OnHead(entries), NEW log, IsInOrder(log, entries),
         NEW c \in Hashes, IsPrefixOf(c, head), c # <<>>
  PROVE  /\ Verifier!CheckpointProblems(log, c) \subseteq {"checkpoint_size_mismatch"}
         /\ Complete(entries) => Verifier!CheckpointProblems(log, c) = {}
<1> DEFINE covered == {i \in DOMAIN log : log[i].seq = Len(c)}
<1>1. ASSUME NEW i \in covered PROVE log[i].hash = c
  <2>1. log[i] \in entries /\ log[i].seq = Len(c)
    BY DEF IsInOrder
  <2>2. log[i].hash \in Hashes /\ Len(log[i].hash) = Len(c) /\ IsPrefixOf(log[i].hash, head)
    BY <2>1, EntryOnHead DEF OnHead
  <2> QED BY <2>2, SamePrefix
<1>2. Verifier!CheckpointProblems(log, c) \subseteq {"checkpoint_size_mismatch"}
  BY <1>1 DEF Verifier!CheckpointProblems
<1>3. ASSUME Complete(entries) PROVE covered # {}
  <2>1. Len(c) \in 1..Len(head)
    BY EmptySeq DEF IsPrefixOf, Hashes
  <2>2. PICK e \in entries : e.seq = Len(c)
    BY <1>3, <2>1 DEF Complete
  <2>3. PICK i \in 1..Cardinality(entries) : log[i] = e
    BY DEF IsInOrder
  <2> QED BY <2>2, <2>3 DEF IsInOrder
<1> QED BY <1>1, <1>2, <1>3 DEF Verifier!CheckpointProblems

-----------------------------------------------------------------------------
(* What an export carries is part of the chain: its rows were in the table *)
(* when it read them, and its checkpoint, if any, signs a non-empty head.  *)
ExportInv ==
  /\ IsFiniteSet(rows)
  /\ \A c \in checkpoints : c # <<>>
  /\ \A x \in Exports :
       /\ exported[x] \subseteq rows
       /\ xpc[x] \in {"read_latest", "sign"} => tip[x] # <<>>
       /\ covering[x] \in checkpoints \cup {NoCheckpoint}

LEMMA ExportInit == Init => ExportInv
BY FS_EmptySet DEF Init, ExportInv

LEMMA ExportStep == TypeOK /\ ExportInv /\ [Next]_vars => ExportInv'
<1> SUFFICES ASSUME TypeOK, ExportInv, [Next]_vars PROVE ExportInv'
  OBVIOUS
<1>1. ASSUME UNCHANGED <<rows, checkpoints, exportVars>> PROVE ExportInv'
  BY <1>1 DEF ExportInv, exportVars
<1>2. ASSUME NEW a \in Receipts, InsertEntry(a) PROVE ExportInv'
  <2>1. rows' = rows \cup {Entry(a)} /\ UNCHANGED <<checkpoints, exportVars>>
    BY <1>2 DEF InsertEntry
  <2>2. IsFiniteSet(rows')
    BY <2>1, FS_AddElement DEF ExportInv
  <2> QED BY <2>1, <2>2 DEF ExportInv, exportVars
<1>3. ASSUME NEW x \in Exports, ExportReceipts(x) PROVE ExportInv'
  <2> USE DEF TypeOK, ExportInv, XGoto
  <2>1. CASE ReadTip(x)
    BY <2>1 DEF ReadTip, GenesisHash
  <2>2. CASE ReadLatestCheckpoint(x)
    BY <2>2 DEF ReadLatestCheckpoint
  <2>3. CASE WriteCheckpoint(x)
    BY <2>3 DEF WriteCheckpoint
  <2>4. CASE ReadRows(x)
    <3>1. FirstRows \subseteq rows
      BY DEF FirstRows
    <3> QED BY <2>4, <3>1 DEF ReadRows
  <2>5. CASE ReadCheckpoint(x)
    BY <2>5 DEF ReadCheckpoint, IsLatest
  <2> QED BY <1>3, <2>1, <2>2, <2>3, <2>4, <2>5 DEF ExportReceipts
<1>4. ASSUME NEW a \in Receipts, CreateReceipt(a) PROVE ExportInv'
  <2>1. InsertEntry(a) \/ UNCHANGED <<rows, checkpoints, exportVars>>
    BY <1>4 DEF CreateReceipt, InsertReceipt, CheckExisting, ReadHead, AdvanceHead, AppendFails,
       UpdateExecutionResult
  <2> QED BY <1>1, <1>2, <2>1
<1>5. CASE UNCHANGED vars
  BY <1>1, <1>5 DEF vars, exportVars
<1> QED BY <1>3, <1>4, <1>5 DEF Next

LEMMA ExportedOnHead ==
  ASSUME TypeOK, ChainInv, ExportInv, NEW x \in Exports
  PROVE  OnHead(exported[x]) /\ IsInOrder(InOrder(exported[x]), exported[x])
<1>1. exported[x] \subseteq rows /\ IsFiniteSet(exported[x]) /\ exported[x] \in SUBSET Entries
  BY FS_Subset DEF ExportInv, TypeOK
<1>2. OnHead(exported[x])
  BY <1>1 DEF OnHead, ChainInv, OneChain, EntryHash
<1>3. Distinct(exported[x])
  BY <1>2, ChainIsDistinct DEF TypeOK
<1> QED BY <1>1, <1>2, <1>3, InOrderIsInOrder

LEMMA WhatIsReported ==
  ASSUME TypeOK, ChainInv, ExportInv, NEW x \in Exports
  PROVE  /\ Report(x) \subseteq {"empty_log", "sequence_gap", "prev_hash_mismatch",
                                  "checkpoint_size_mismatch"}
         /\ Complete(exported[x]) => Report(x) \subseteq {"empty_log"}
         /\ Complete(exported[x]) /\ exported[x] # {} => Report(x) = {}
<1> DEFINE entries == exported[x]
           log == InOrder(entries)
           c == covering[x]
<1>1. head \in Hashes /\ OnHead(entries) /\ IsInOrder(log, entries)
  BY ExportedOnHead DEF TypeOK
<1>2. DOMAIN log = 1..Cardinality(entries)
  BY <1>1 DEF IsInOrder
<1>3. ASSUME NEW i \in DOMAIN log
      PROVE  /\ Verifier!EntryProblems(log, i) \subseteq {"sequence_gap", "prev_hash_mismatch"}
             /\ Complete(entries) => Verifier!EntryProblems(log, i) = {}
  <2> HIDE DEF entries, log
  <2> QED BY <1>1, <1>2, <1>3, EntryReport
<1>4. /\ Verifier!CheckpointProblems(log, c) \subseteq {"checkpoint_size_mismatch"}
      /\ Complete(entries) => Verifier!CheckpointProblems(log, c) = {}
  <2>1. CASE c = NoCheckpoint
    BY <2>1 DEF Verifier!CheckpointProblems
  <2>2. CASE c # NoCheckpoint
    <3>1. c \in Hashes /\ IsPrefixOf(c, head) /\ c # <<>>
      BY <2>2 DEF TypeOK, ExportInv, ChainInv, Signed, CheckpointsStayTrue
    <3> HIDE DEF entries, log, c
    <3> QED BY <1>1, <3>1, CheckpointReport
  <2> QED BY <2>1, <2>2
<1>5. ASSUME entries # {} PROVE log # <<>>
  <2>1. PICK e \in entries : TRUE
    BY <1>5
  <2>2. PICK i \in DOMAIN log : log[i] = e
    BY <1>1, <1>2 DEF IsInOrder
  <2>3. DOMAIN <<>> = {}
    OBVIOUS
  <2> HIDE DEF log
  <2> QED BY <2>2, <2>3
<1> DEFINE ofEntries == UNION {Verifier!EntryProblems(log, i) : i \in DOMAIN log}
           ofCheckpoint == Verifier!CheckpointProblems(log, c)
<1>6. Report(x) = IF log = <<>> THEN {"empty_log"} ELSE ofCheckpoint \cup ofEntries
  BY DEF Report, Verifier!Problems
<1> HIDE DEF entries, log, c
<1>7. /\ ofEntries \subseteq {"sequence_gap", "prev_hash_mismatch"}
      /\ ofCheckpoint \subseteq {"checkpoint_size_mismatch"}
      /\ Complete(entries) => ofCheckpoint \cup ofEntries = {}
  BY <1>3, <1>4
<1> HIDE DEF ofEntries, ofCheckpoint
<1>8. CASE log = <<>>
  BY <1>5, <1>6, <1>8 DEF entries
<1>9. CASE log # <<>>
  <2>1. Report(x) = ofCheckpoint \cup ofEntries
    BY <1>6, <1>9
  <2> QED BY <1>7, <2>1 DEF entries
<1> QED BY <1>8, <1>9

LEMMA ReportIsTrue == TypeOK /\ ChainInv /\ ExportInv => ExportsVerify
<1> SUFFICES ASSUME TypeOK, ChainInv, ExportInv PROVE NoFalseTamperAlarm /\ CompleteExportVerifies
  BY DEF ExportsVerify
<1>1. NoFalseTamperAlarm
  BY WhatIsReported DEF NoFalseTamperAlarm, Complete
<1>2. CompleteExportVerifies
  BY WhatIsReported DEF CompleteExportVerifies, Complete
<1> QED BY <1>1, <1>2

(* The offline verifier never takes an untouched export for a rewritten    *)
(* one, and finds nothing in one that misses no entry: for any number of   *)
(* appends and exports in any order.                                       *)
THEOREM ExportSafety == Spec => []ExportsVerify
<1>1. Init => TypeOK /\ AttemptsLeft /\ ChainInv /\ ExportInv
  BY TypeInit, ChainInit, ExportInit
<1>2. TypeOK /\ AttemptsLeft /\ ChainInv /\ ExportInv /\ [Next]_vars
        => TypeOK' /\ AttemptsLeft' /\ ChainInv' /\ ExportInv'
  BY TypeStep, ChainStep, ExportStep
<1> QED BY <1>1, <1>2, ReportIsTrue, PTL DEF Spec
=============================================================================
