--------------------------- MODULE Sending_proofs ---------------------------
(***************************************************************************)
(* Proofs about what an agent sends: contract transactions (TxSender) and  *)
(* CoW orders (CowSwap).  Both are calls in attempts whose earlier         *)
(* attempts may still take effect, and both proofs account for every       *)
(* attempt that is still open.  The two modules share no name, and each    *)
(* theorem is about the specification of one of them.                      *)
(***************************************************************************)
EXTENDS TxSender, CowSwap, FiniteSetTheorems, SequenceTheorems, TLAPS

(***************************************************************************)
(* PART 1.  TxSender, for any senders and any number of attempts.          *)
(***************************************************************************)

Sending == {"build", "nonce", "send"}

\* Transactions compete for the account's next nonce.
Slot ==
    /\ \A t \in mempool : t.nonce = count
    /\ \A s \in Senders : stage[s] = "send" => nonce[s] <= count

\* The running attempt is newer than all that was sent before it.
Fresh ==
    \A s \in Senders : \A x \in mempool \cup receipts :
        x.by = s => /\ x.try <= try[s]
                    /\ stage[s] \in Sending => x.try < try[s]

\* An attempt has one outcome.
OneOutcome ==
    /\ \A t \in mempool : \A r \in receipts : t.by = r.by => t.try # r.try
    /\ \A q, r \in receipts : q.by = r.by /\ q.try = r.try => q = r

\* Attempts that may take effect unless they turn out to have failed.
Open(s) == unknown[s] \cup (IF stage[s] \in {"wait", "returned"} THEN {try[s]}
                                                             ELSE {})

Accounted ==
    /\ \A t \in mempool : t.try \in Open(t.by)
    /\ \A r \in receipts : r.status = 1 => r.try \in Open(r.by)

Delivered ==
    \A s \in Senders : stage[s] = "returned" => ReceiptOf(s, 1) \in receipts

SendInv ==
    /\ SendTypeOK /\ OnePending /\ Slot /\ Fresh /\ OneOutcome /\ Accounted
    /\ Delivered

-----------------------------------------------------------------------------
\* What an attempt that fails leaves behind.
LEMMA AttemptFailsType ==
  ASSUME SendTypeOK, NEW s \in Senders, AttemptFails(s)
  PROVE  /\ stage' \in [Senders -> Stages] /\ try' \in [Senders -> Nat]
         /\ left' \in [Senders -> Nat] /\ outer' \in [Senders -> Nat]
         /\ nonce' \in [Senders -> Nat] /\ safeNonce' \in [Senders -> Nat]
<1> USE SendersAssumption DEF AttemptFails, Goto, SendTypeOK, Stages
<1>1. nonce' \in [Senders -> Nat] /\ safeNonce' \in [Senders -> Nat]
  OBVIOUS
<1>2. try[s] + 1 \in Nat /\ MaxTries - 1 \in Nat
  OBVIOUS
<1>3. stage' \in [Senders -> Stages] /\ try' \in [Senders -> Nat]
  BY <1>2
<1>4. left[s] > 0 => left[s] - 1 \in Nat
  OBVIOUS
<1>5. outer[s] > 0 => outer[s] - 1 \in Nat
  OBVIOUS
<1>6. left' \in [Senders -> Nat]
  BY <1>2, <1>4
<1>7. outer' \in [Senders -> Nat]
  BY <1>5
<1> QED
  BY <1>1, <1>3, <1>6, <1>7

LEMMA Sent ==
  ASSUME SendTypeOK, NEW s \in Senders, Accept(s)
  PROVE  /\ NewTx(s) \in Tx
         /\ mempool' \subseteq Tx
  BY DEF SendTypeOK, Accept, NewTx, Tx

\* Types.
LEMMA SendTypeKept == SendTypeOK /\ [SendNext]_sendVars => SendTypeOK'
<1> SUFFICES ASSUME SendTypeOK, [SendNext]_sendVars PROVE SendTypeOK'
  OBVIOUS
<1> USE DEF Goto, node
<1>1. ASSUME NEW s \in Senders, Build(s) PROVE SendTypeOK'
  BY <1>1 DEF Build, SendTypeOK, Stages
<1>2. ASSUME NEW s \in Senders, ReadNonce(s) PROVE SendTypeOK'
  BY <1>2 DEF ReadNonce, SendTypeOK, Stages
<1>3. ASSUME NEW s \in Senders, BuildFails(s) PROVE SendTypeOK'
  BY <1>3, AttemptFailsType DEF BuildFails, SendTypeOK
<1>4. ASSUME NEW s \in Senders, Send(s) PROVE SendTypeOK'
  BY <1>4, Sent DEF Send, Accept, SendTypeOK, Stages
<1>5. ASSUME NEW s \in Senders, SendAnswerLost(s) PROVE SendTypeOK'
  BY <1>5, Sent, AttemptFailsType DEF SendAnswerLost, Accept, LoseTrack, SendTypeOK
<1>6. ASSUME NEW s \in Senders, SendRejected(s) PROVE SendTypeOK'
  BY <1>6, AttemptFailsType DEF SendRejected, SendTypeOK
<1>7. ASSUME NEW s \in Senders, Return(s) PROVE SendTypeOK'
  BY <1>7 DEF Return, SendTypeOK, Stages
<1>8. ASSUME NEW s \in Senders, Reverted(s) PROVE SendTypeOK'
  BY <1>8, AttemptFailsType DEF Reverted, SendTypeOK
<1>9. ASSUME NEW s \in Senders, WaitTimesOut(s) PROVE SendTypeOK'
  BY <1>9, AttemptFailsType DEF WaitTimesOut, LoseTrack, SendTypeOK
<1>10. ASSUME NEW t \in mempool, Drop(t) PROVE SendTypeOK'
  BY <1>10 DEF Drop, SendTypeOK
<1>11. ASSUME NEW t \in mempool, NEW status \in 0..1, Mine(t, status)
       PROVE SendTypeOK'
  <2>1. [by |-> t.by, try |-> t.try, status |-> status] \in Receipt
    BY DEF SendTypeOK, Tx, Receipt
  <2>2. safeCount' \in Nat
    BY <1>11 DEF Mine, SendTypeOK
  <2> QED
    BY <1>11, <2>1, <2>2 DEF Mine, SendTypeOK
<1>12. CASE UNCHANGED sendVars
  BY <1>12 DEF sendVars, SendTypeOK
<1> QED
  BY <1>1, <1>2, <1>3, <1>4, <1>5, <1>6, <1>7, <1>8, <1>9, <1>10, <1>11,
     <1>12 DEF SendNext, SenderStep

-----------------------------------------------------------------------------
\* One slot, and attempts in order.
LEMMA SlotKept ==
  ASSUME SendTypeOK, OnePending, Slot, [SendNext]_sendVars
  PROVE  OnePending' /\ Slot'
<1> USE DEF Goto, node, OnePending, Slot, SendTypeOK, Tx
<1>1. ASSUME NEW s \in Senders, Build(s) PROVE OnePending' /\ Slot'
  BY <1>1 DEF Build
<1>2. ASSUME NEW s \in Senders, ReadNonce(s) PROVE OnePending' /\ Slot'
  BY <1>2 DEF ReadNonce
<1>3. ASSUME NEW s \in Senders, BuildFails(s) PROVE OnePending' /\ Slot'
  BY <1>3 DEF BuildFails, AttemptFails
<1>4. ASSUME NEW s \in Senders, Send(s) PROVE OnePending' /\ Slot'
  BY <1>4 DEF Send, Accept, NewTx
<1>5. ASSUME NEW s \in Senders, SendAnswerLost(s) PROVE OnePending' /\ Slot'
  BY <1>5 DEF SendAnswerLost, Accept, NewTx, AttemptFails
<1>6. ASSUME NEW s \in Senders, SendRejected(s) PROVE OnePending' /\ Slot'
  BY <1>6 DEF SendRejected, AttemptFails
<1>7. ASSUME NEW s \in Senders, Return(s) PROVE OnePending' /\ Slot'
  BY <1>7 DEF Return
<1>8. ASSUME NEW s \in Senders, Reverted(s) PROVE OnePending' /\ Slot'
  BY <1>8 DEF Reverted, AttemptFails
<1>9. ASSUME NEW s \in Senders, WaitTimesOut(s) PROVE OnePending' /\ Slot'
  BY <1>9 DEF WaitTimesOut, AttemptFails
<1>10. ASSUME NEW t \in mempool, Drop(t) PROVE OnePending' /\ Slot'
  BY <1>10 DEF Drop
<1>11. ASSUME NEW t \in mempool, NEW status \in 0..1, Mine(t, status)
       PROVE  OnePending' /\ Slot'
  BY <1>11 DEF Mine
<1>12. CASE UNCHANGED sendVars
  BY <1>12 DEF sendVars
<1> QED
  BY <1>1, <1>2, <1>3, <1>4, <1>5, <1>6, <1>7, <1>8, <1>9, <1>10, <1>11,
     <1>12 DEF SendNext, SenderStep

LEMMA FreshKept ==
  ASSUME SendTypeOK, Fresh, [SendNext]_sendVars
  PROVE  Fresh'
<1> USE DEF Goto, node, Fresh, Sending, SendTypeOK, Tx, Receipt
<1>1. ASSUME NEW s \in Senders, Build(s) PROVE Fresh'
  BY <1>1 DEF Build
<1>2. ASSUME NEW s \in Senders, ReadNonce(s) PROVE Fresh'
  BY <1>2 DEF ReadNonce
<1>3. ASSUME NEW s \in Senders, BuildFails(s) PROVE Fresh'
  BY <1>3 DEF BuildFails, AttemptFails
<1>4. ASSUME NEW s \in Senders, Send(s) PROVE Fresh'
  BY <1>4 DEF Send, Accept, NewTx
<1>5. ASSUME NEW s \in Senders, SendAnswerLost(s) PROVE Fresh'
  BY <1>5 DEF SendAnswerLost, Accept, NewTx, AttemptFails
<1>6. ASSUME NEW s \in Senders, SendRejected(s) PROVE Fresh'
  BY <1>6 DEF SendRejected, AttemptFails
<1>7. ASSUME NEW s \in Senders, Return(s) PROVE Fresh'
  BY <1>7 DEF Return
<1>8. ASSUME NEW s \in Senders, Reverted(s) PROVE Fresh'
  BY <1>8 DEF Reverted, AttemptFails
<1>9. ASSUME NEW s \in Senders, WaitTimesOut(s) PROVE Fresh'
  BY <1>9 DEF WaitTimesOut, AttemptFails
<1>10. ASSUME NEW t \in mempool, Drop(t) PROVE Fresh'
  BY <1>10 DEF Drop
<1>11. ASSUME NEW t \in mempool, NEW status \in 0..1, Mine(t, status)
       PROVE  Fresh'
  BY <1>11 DEF Mine
<1>12. CASE UNCHANGED sendVars
  BY <1>12 DEF sendVars
<1> QED
  BY <1>1, <1>2, <1>3, <1>4, <1>5, <1>6, <1>7, <1>8, <1>9, <1>10, <1>11,
     <1>12 DEF SendNext, SenderStep

\* The outcomes of earlier attempts stand.
LEMMA OneOutcomeKept ==
  ASSUME SendTypeOK, OnePending, Fresh, OneOutcome, [SendNext]_sendVars
  PROVE  OneOutcome'
<1> USE DEF Goto, node, OnePending, Fresh, OneOutcome, Sending, SendTypeOK, Tx, Receipt
<1>1. ASSUME NEW s \in Senders, Build(s) PROVE OneOutcome'
  BY <1>1 DEF Build
<1>2. ASSUME NEW s \in Senders, ReadNonce(s) PROVE OneOutcome'
  BY <1>2 DEF ReadNonce
<1>3. ASSUME NEW s \in Senders, BuildFails(s) PROVE OneOutcome'
  BY <1>3 DEF BuildFails, AttemptFails
<1>4. ASSUME NEW s \in Senders, Send(s) PROVE OneOutcome'
  BY <1>4 DEF Send, Accept, NewTx
<1>5. ASSUME NEW s \in Senders, SendAnswerLost(s) PROVE OneOutcome'
  BY <1>5 DEF SendAnswerLost, Accept, NewTx, LoseTrack,
                AttemptFails
<1>6. ASSUME NEW s \in Senders, SendRejected(s) PROVE OneOutcome'
  BY <1>6 DEF SendRejected, AttemptFails
<1>7. ASSUME NEW s \in Senders, Return(s) PROVE OneOutcome'
  BY <1>7 DEF Return
<1>8. ASSUME NEW s \in Senders, Reverted(s) PROVE OneOutcome'
  BY <1>8 DEF Reverted, AttemptFails
<1>9. ASSUME NEW s \in Senders, WaitTimesOut(s) PROVE OneOutcome'
  BY <1>9 DEF WaitTimesOut, LoseTrack, AttemptFails
<1>10. ASSUME NEW t \in mempool, Drop(t) PROVE OneOutcome'
  BY <1>10 DEF Drop
<1>11. ASSUME NEW t \in mempool, NEW status \in 0..1, Mine(t, status)
       PROVE  OneOutcome'
  BY <1>11 DEF Mine
<1>12. CASE UNCHANGED sendVars
  BY <1>12 DEF sendVars
<1> QED
  BY <1>1, <1>2, <1>3, <1>4, <1>5, <1>6, <1>7, <1>8, <1>9, <1>10, <1>11,
     <1>12 DEF SendNext, SenderStep

\* Attempts given up are accounted for.
LEMMA AccountedKept ==
  ASSUME SendTypeOK, OnePending, Fresh, OneOutcome, Accounted, [SendNext]_sendVars
  PROVE  Accounted'
<1> USE DEF Goto, node, OneOutcome, Accounted, Open, ReceiptOf, SendTypeOK, Tx, Receipt
<1>1. ASSUME NEW s \in Senders, Build(s) PROVE Accounted'
  BY <1>1 DEF Build
<1>2. ASSUME NEW s \in Senders, ReadNonce(s) PROVE Accounted'
  BY <1>2 DEF ReadNonce
<1>3. ASSUME NEW s \in Senders, BuildFails(s) PROVE Accounted'
  BY <1>3 DEF BuildFails, AttemptFails
<1>4. ASSUME NEW s \in Senders, Send(s) PROVE Accounted'
  BY <1>4 DEF Send, Accept, NewTx
<1>5. ASSUME NEW s \in Senders, SendAnswerLost(s) PROVE Accounted'
  BY <1>5 DEF SendAnswerLost, Accept, NewTx, LoseTrack,
                AttemptFails
<1>6. ASSUME NEW s \in Senders, SendRejected(s) PROVE Accounted'
  BY <1>6 DEF SendRejected, AttemptFails
<1>7. ASSUME NEW s \in Senders, Return(s) PROVE Accounted'
  BY <1>7 DEF Return
<1>8. ASSUME NEW s \in Senders, Reverted(s) PROVE Accounted'
  BY <1>8 DEF Reverted, AttemptFails
<1>9. ASSUME NEW s \in Senders, WaitTimesOut(s) PROVE Accounted'
  BY <1>9 DEF WaitTimesOut, LoseTrack, AttemptFails
<1>10. ASSUME NEW t \in mempool, Drop(t) PROVE Accounted'
  BY <1>10 DEF Drop
<1>11. ASSUME NEW t \in mempool, NEW status \in 0..1, Mine(t, status)
       PROVE  Accounted'
  BY <1>11 DEF Mine
<1>12. CASE UNCHANGED sendVars
  BY <1>12 DEF sendVars
<1> QED
  BY <1>1, <1>2, <1>3, <1>4, <1>5, <1>6, <1>7, <1>8, <1>9, <1>10, <1>11,
     <1>12 DEF SendNext, SenderStep

\* Receipts stay.
LEMMA DeliveredKept ==
  ASSUME SendTypeOK, Delivered, [SendNext]_sendVars
  PROVE  Delivered'
<1> USE DEF Goto, node, Delivered, ReceiptOf, SendTypeOK
<1>1. ASSUME NEW s \in Senders, Build(s) PROVE Delivered'
  BY <1>1 DEF Build
<1>2. ASSUME NEW s \in Senders, ReadNonce(s) PROVE Delivered'
  BY <1>2 DEF ReadNonce
<1>3. ASSUME NEW s \in Senders, BuildFails(s) PROVE Delivered'
  BY <1>3 DEF BuildFails, AttemptFails
<1>4. ASSUME NEW s \in Senders, Send(s) PROVE Delivered'
  BY <1>4 DEF Send, Accept, NewTx
<1>5. ASSUME NEW s \in Senders, SendAnswerLost(s) PROVE Delivered'
  BY <1>5 DEF SendAnswerLost, Accept, NewTx, LoseTrack,
                AttemptFails
<1>6. ASSUME NEW s \in Senders, SendRejected(s) PROVE Delivered'
  BY <1>6 DEF SendRejected, AttemptFails
<1>7. ASSUME NEW s \in Senders, Return(s) PROVE Delivered'
  BY <1>7 DEF Return
<1>8. ASSUME NEW s \in Senders, Reverted(s) PROVE Delivered'
  BY <1>8 DEF Reverted, AttemptFails
<1>9. ASSUME NEW s \in Senders, WaitTimesOut(s) PROVE Delivered'
  BY <1>9 DEF WaitTimesOut, LoseTrack, AttemptFails
<1>10. ASSUME NEW t \in mempool, Drop(t) PROVE Delivered'
  BY <1>10 DEF Drop
<1>11. ASSUME NEW t \in mempool, NEW status \in 0..1, Mine(t, status)
       PROVE  Delivered'
  BY <1>11 DEF Mine
<1>12. CASE UNCHANGED sendVars
  BY <1>12 DEF sendVars
<1> QED
  BY <1>1, <1>2, <1>3, <1>4, <1>5, <1>6, <1>7, <1>8, <1>9, <1>10, <1>11,
     <1>12 DEF SendNext, SenderStep

-----------------------------------------------------------------------------
LEMMA SendInitially == SendInit => SendInv
<1> SUFFICES ASSUME SendInit PROVE SendInv
  OBVIOUS
<1>1. SendTypeOK
  BY SendersAssumption DEF SendInit, SendTypeOK, Stages
<1>2. OnePending /\ Slot /\ Fresh /\ OneOutcome /\ Accounted /\ Delivered
  BY DEF SendInit, OnePending, Slot, Fresh, OneOutcome, Accounted, Delivered
<1> QED
  BY <1>1, <1>2 DEF SendInv

LEMMA SendInvariance == SendSpec => []SendInv
<1>1. SendInv /\ [SendNext]_sendVars => SendInv'
  BY SendTypeKept, SlotKept, FreshKept, OneOutcomeKept, AccountedKept,
     DeliveredKept DEF SendInv
<1> QED
  BY SendInitially, <1>1, PTL DEF SendSpec

(***************************************************************************)
(* The state of the senders and of the node keeps its types.               *)
(***************************************************************************)
THEOREM SendTypeCorrect == SendSpec => []SendTypeOK
<1>1. SendInv => SendTypeOK
  BY DEF SendInv
<1> QED
  BY <1>1, SendInvariance, PTL

(***************************************************************************)
(* Whatever the node does, a call of send_function_on_contract_tx executes *)
(* no attempt but the one it returns and those it lost track of.           *)
(***************************************************************************)
THEOREM NoSurprise == SendSpec => []NoSurpriseExecution
<1>1. SendInv => NoSurpriseExecution
  <2> SUFFICES ASSUME SendInv, NEW s \in Senders, NEW k \in Executed(s)
               PROVE  k \in Open(s)
    BY DEF NoSurpriseExecution, Open
  <2>1. PICK r \in receipts : r.by = s /\ r.status = 1 /\ r.try = k
    BY DEF Executed
  <2> QED
    BY <2>1 DEF SendInv, Accounted
<1> QED
  BY <1>1, SendInvariance, PTL

(***************************************************************************)
(* The senders of a key never have two transactions pending.               *)
(***************************************************************************)
THEOREM OneSlot == SendSpec => []OnePending
<1>1. SendInv => OnePending
  BY DEF SendInv
<1> QED
  BY <1>1, SendInvariance, PTL

(***************************************************************************)
(* A call that returns was executed.                                       *)
(***************************************************************************)
THEOREM ReturnsExecuted == SendSpec => []ReturnedMeansExecuted
<1>1. SendInv => ReturnedMeansExecuted
  <2> SUFFICES ASSUME SendInv, NEW s \in Senders, stage[s] = "returned"
               PROVE  try[s] \in Executed(s)
    BY DEF ReturnedMeansExecuted
  <2>1. ReceiptOf(s, 1) \in receipts
    BY DEF SendInv, Delivered
  <2>2. /\ ReceiptOf(s, 1).by = s /\ ReceiptOf(s, 1).status = 1
        /\ ReceiptOf(s, 1).try = try[s]
    BY DEF ReceiptOf
  <2> QED
    BY <2>1, <2>2 DEF Executed
<1> QED
  BY <1>1, SendInvariance, PTL

-----------------------------------------------------------------------------
\* Attempts given up are older than the one a call is at.
GivenUpBefore ==
    \A s \in Senders : stage[s] # "failed" => \A k \in unknown[s] : k < try[s]

LEMMA GivenUpBeforeKept ==
  ASSUME SendTypeOK, GivenUpBefore, [SendNext]_sendVars
  PROVE  GivenUpBefore'
<1> USE DEF Goto, GivenUpBefore, SendTypeOK
<1>1. ASSUME NEW s \in Senders, Build(s) PROVE GivenUpBefore'
  BY <1>1 DEF Build
<1>2. ASSUME NEW s \in Senders, ReadNonce(s) PROVE GivenUpBefore'
  BY <1>2 DEF ReadNonce
<1>3. ASSUME NEW s \in Senders, BuildFails(s) PROVE GivenUpBefore'
  BY <1>3 DEF BuildFails, AttemptFails
<1>4. ASSUME NEW s \in Senders, Send(s) PROVE GivenUpBefore'
  BY <1>4 DEF Send, Accept
<1>5. ASSUME NEW s \in Senders, SendAnswerLost(s) PROVE GivenUpBefore'
  BY <1>5 DEF SendAnswerLost, Accept, LoseTrack, AttemptFails
<1>6. ASSUME NEW s \in Senders, SendRejected(s) PROVE GivenUpBefore'
  BY <1>6 DEF SendRejected, AttemptFails
<1>7. ASSUME NEW s \in Senders, Return(s) PROVE GivenUpBefore'
  BY <1>7 DEF Return
<1>8. ASSUME NEW s \in Senders, Reverted(s) PROVE GivenUpBefore'
  BY <1>8 DEF Reverted, AttemptFails
<1>9. ASSUME NEW s \in Senders, WaitTimesOut(s) PROVE GivenUpBefore'
  BY <1>9 DEF WaitTimesOut, LoseTrack, AttemptFails
<1>10. ASSUME NEW t \in mempool, Drop(t) \/ \E status \in 0..1 : Mine(t, status)
       PROVE  GivenUpBefore'
  BY <1>10 DEF Drop, Mine
<1>11. CASE UNCHANGED sendVars
  BY <1>11 DEF sendVars
<1> QED
  BY <1>1, <1>2, <1>3, <1>4, <1>5, <1>6, <1>7, <1>8, <1>9, <1>10, <1>11 DEF SendNext, SenderStep

\* A call that does not end is in the middle of things.
LEMMA Ongoing ==
  ASSUME SendTypeOK, NEW s \in Senders, stage[s] \in {"build", "nonce", "send", "wait"}
  PROVE  /\ Outcome[s] = "none"
         /\ \A place \in {"build", "nonce", "send", "wait"} :
                Goto(s, place) => Outcome' = Outcome
         /\ Goto(s, "returned") => Outcome' = [Outcome EXCEPT ![s] = "returned"]
         /\ Goto(s, "failed") => Outcome' = [Outcome EXCEPT ![s] = "raised"]
  BY DEF SendTypeOK, Goto, Outcome

\* An attempt that fails is followed by another one or ends the call.
LEMMA Retried ==
  ASSUME SendTypeOK, NEW s \in Senders, stage[s] \in {"build", "nonce", "send", "wait"},
         AttemptFails(s)
  PROVE  Outcome' = Outcome \/ Outcome' = [Outcome EXCEPT ![s] = "raised"]
<1>1. Goto(s, "build") \/ Goto(s, "failed")
  BY DEF AttemptFails
<1> QED
  BY <1>1, Ongoing

\* Before its receipt is there, or when it tells of a revert, the attempt at
\* hand has not taken effect.
LEMMA NotYet ==
  ASSUME SendInv, NEW s \in Senders,
         stage[s] \in Sending \/ (stage[s] = "wait" /\ ReceiptOf(s, 1) \notin receipts)
  PROVE  Executed(s) \subseteq unknown[s]
<1> SUFFICES ASSUME NEW r \in receipts, r.by = s, r.status = 1 PROVE r.try \in unknown[s]
  BY DEF Executed
<1>1. r \in Receipt
  BY DEF SendInv, SendTypeOK
<1>2. r.try \in Open(s)
  BY DEF SendInv, Accounted
<1>3. CASE stage[s] \in Sending
  BY <1>2, <1>3 DEF Open, Sending
<1>4. CASE stage[s] = "wait" /\ ReceiptOf(s, 1) \notin receipts
  <2>1. r = [by |-> r.by, try |-> r.try, status |-> r.status]
    BY <1>1 DEF Receipt
  <2>2. r.try # try[s]
    BY <1>4, <2>1 DEF ReceiptOf
  <2> QED
    BY <1>2, <2>2 DEF Open
<1> QED
  BY <1>3, <1>4

\* Every step keeps the promise, or changes nothing it speaks of.
LEMMA StepKeeps ==
  ASSUME SendInv, GivenUpBefore, [SendNext]_sendVars
  PROVE  [Promise!Next]_<<Effects, unknown, Outcome>>
<1> DEFINE Same == UNCHANGED <<Effects, unknown, Outcome>>
<1>0. SendTypeOK
  BY DEF SendInv
<1>1. receipts' = receipts => Effects' = Effects
  BY DEF Effects, Executed
<1>2. \A s \in Senders : Effects[s] = Executed(s)
  BY DEF Effects
<1>3. ASSUME NEW s \in Senders, Build(s) \/ ReadNonce(s) \/ Send(s) PROVE Same
  <2>1. /\ stage[s] \in {"build", "nonce", "send", "wait"}
        /\ \E place \in {"build", "nonce", "send", "wait"} : Goto(s, place)
        /\ UNCHANGED <<receipts, unknown>>
    BY <1>3 DEF Build, ReadNonce, Send, Accept, node
  <2> QED
    BY <1>0, <1>1, <2>1, Ongoing
<1>4. ASSUME NEW s \in Senders, BuildFails(s) \/ SendRejected(s) \/ Reverted(s)
      PROVE  Same \/ Promise!Raises(s)
  <2>1. /\ stage[s] \in {"build", "nonce", "send", "wait"} /\ AttemptFails(s)
        /\ UNCHANGED <<receipts, unknown>>
    BY <1>4 DEF BuildFails, SendRejected, Reverted, node
  <2>2. Executed(s) \subseteq unknown[s]
    <3>1. CASE stage[s] \in Sending
      BY <3>1, NotYet
    <3>2. CASE Reverted(s)
      <4>1. stage[s] = "wait" /\ ReceiptOf(s, 0) \in receipts
        BY <3>2 DEF Reverted
      <4>2. ReceiptOf(s, 1) \notin receipts
        BY <4>1 DEF SendInv, OneOutcome, ReceiptOf
      <4> QED
        BY <4>1, <4>2, NotYet
    <3> QED
      BY <1>4, <3>1, <3>2 DEF BuildFails, SendRejected, Sending
  <2>3. Outcome' = Outcome \/ Outcome' = [Outcome EXCEPT ![s] = "raised"]
    BY <1>0, <2>1, Retried
  <2>4. Outcome[s] = "none"
    BY <1>0, <2>1, Ongoing
  <2> QED
    BY <1>1, <1>2, <2>1, <2>2, <2>3, <2>4 DEF Promise!Raises, Promise!Explained, Promise!Ends
<1>5. ASSUME NEW s \in Senders, SendAnswerLost(s) \/ WaitTimesOut(s) PROVE Promise!GivesUp(s)
  <2>1. /\ stage[s] \in {"send", "wait"} /\ AttemptFails(s) /\ receipts' = receipts
        /\ unknown' = [unknown EXCEPT ![s] = @ \cup {try[s]}]
    BY <1>5 DEF SendAnswerLost, WaitTimesOut, Accept, LoseTrack, node
  <2>2. unknown[s] \subseteq Nat /\ try[s] \in unknown'[s] /\ unknown'[s] = unknown[s] \cup {try[s]}
    BY <1>0, <2>1 DEF SendTypeOK
  <2>3. Executed(s) \subseteq unknown'[s]
    <3>1. \A r \in receipts : r.by = s /\ r.status = 1 => r.try \in Open(s)
      BY DEF SendInv, Accounted
    <3>2. Open(s) \subseteq unknown'[s]
      BY <2>2 DEF Open
    <3> QED
      BY <3>1, <3>2 DEF Executed
  <2>4. Outcome' = Outcome \/ Outcome' = [Outcome EXCEPT ![s] = "raised"]
    BY <1>0, <2>1, Retried
  <2>5. Outcome[s] = "none"
    BY <1>0, <2>1, Ongoing
  <2> QED
    BY <1>1, <1>2, <2>1, <2>2, <2>3, <2>4, <2>5 DEF Promise!GivesUp, Promise!Ends
<1>6. ASSUME NEW s \in Senders, Return(s) PROVE Promise!Returns(s)
  <2>1. /\ stage[s] = "wait" /\ ReceiptOf(s, 1) \in receipts /\ Goto(s, "returned")
        /\ UNCHANGED <<receipts, unknown>>
    BY <1>6 DEF Return, node
  <2>2. try[s] \in Executed(s)
    <3>1. /\ ReceiptOf(s, 1).by = s /\ ReceiptOf(s, 1).status = 1
          /\ ReceiptOf(s, 1).try = try[s]
      BY DEF ReceiptOf
    <3> QED
      BY <2>1, <3>1 DEF Executed
  <2>3. try[s] \notin unknown[s]
    BY <1>0, <2>1 DEF GivenUpBefore, SendTypeOK
  <2>4. Outcome[s] = "none" /\ Outcome' = [Outcome EXCEPT ![s] = "returned"]
    BY <1>0, <2>1, Ongoing
  <2> QED
    BY <1>1, <1>2, <2>1, <2>2, <2>3, <2>4 DEF Promise!Returns, Promise!Explained, Promise!Ends
<1>7. ASSUME NEW t \in mempool, Drop(t) PROVE Same
  <2>1. UNCHANGED <<receipts, unknown, stage>>
    BY <1>7 DEF Drop
  <2> QED
    BY <1>1, <2>1 DEF Outcome
<1>8. ASSUME NEW t \in mempool, NEW status \in 0..1, Mine(t, status)
      PROVE  Same \/ \E s \in Senders : Promise!TakesEffect(s)
  <2> DEFINE s == t.by
             r == [by |-> t.by, try |-> t.try, status |-> status]
  <2>1. s \in Senders /\ t.try \in Nat
    BY <1>0 DEF SendTypeOK, Tx
  <2>2. receipts' = receipts \cup {r} /\ UNCHANGED <<unknown, stage>>
    BY <1>8 DEF Mine
  <2>3. Outcome' = Outcome
    BY <2>2 DEF Outcome
  <2>4. r.by = s /\ r.try = t.try /\ r.status = status
    OBVIOUS
  <2>5. CASE status = 0
    <3>1. \A x \in Senders : Executed(x)' = Executed(x)
      BY <2>2, <2>4, <2>5 DEF Executed
    <3> QED
      BY <2>2, <2>3, <3>1 DEF Effects
  <2>6. CASE status = 1
    <3>1. Executed(s)' = Executed(s) \cup {t.try}
      BY <2>2, <2>4, <2>6 DEF Executed
    <3>2. \A x \in Senders \ {s} : Executed(x)' = Executed(x)
      BY <2>2, <2>4 DEF Executed
    <3>3. Effects' = [Effects EXCEPT ![s] = @ \cup {t.try}] /\ t.try \in Effects'[s]
      BY <2>1, <3>1, <3>2 DEF Effects
    <3>4. t.try \in unknown[s] \/ (Outcome[s] = "none" /\ Executed(s) \subseteq unknown[s])
      <4>1. t.try \in Open(s)
        BY DEF SendInv, Accounted
      <4>2. CASE t.try \notin unknown[s]
        <5>1. stage[s] \in {"wait", "returned"} /\ t.try = try[s]
          BY <4>1, <4>2 DEF Open
        <5>2. \A q \in receipts : q.by = s => q.try # try[s]
          BY <5>1 DEF SendInv, OneOutcome
        <5>3. ReceiptOf(s, 1) \notin receipts
          BY <5>2 DEF ReceiptOf
        <5>4. stage[s] = "wait"
          BY <2>1, <5>1, <5>3 DEF SendInv, Delivered
        <5> QED
          BY <1>0, <2>1, <5>3, <5>4, NotYet, Ongoing
      <4> QED
        BY <4>2
    <3>5. Promise!TakesEffect(s)
      BY <1>2, <2>1, <2>2, <2>3, <3>3, <3>4 DEF Promise!TakesEffect, Promise!Explained
    <3> QED
      BY <2>1, <3>5
  <2> QED
    BY <2>5, <2>6
<1>9. UNCHANGED sendVars => Same
  <2>1. UNCHANGED sendVars => UNCHANGED <<receipts, unknown, stage>>
    BY DEF sendVars
  <2> QED
    BY <1>1, <2>1 DEF Outcome
<1>10. Same \/ \E s \in Senders : \/ Promise!TakesEffect(s) \/ Promise!GivesUp(s)
                                  \/ Promise!Returns(s) \/ Promise!Raises(s)
  BY <1>3, <1>4, <1>5, <1>6, <1>7, <1>8, <1>9, Zenon DEF SendNext, SenderStep
<1> QED
  BY <1>10 DEF Promise!Next

(***************************************************************************)
(* send_function_on_contract_tx, with the attempts of tenacity and the     *)
(* loops around it, implements Delivery for any senders that share a key:  *)
(* what its callers rely on when they take a return for one execution and  *)
(* an exception for one that may have happened.                            *)
(***************************************************************************)
THEOREM DeliveryImplemented == SendSpec => KeepsPromise
<1>1. SendInit => GivenUpBefore /\ Promise!Init
  BY DEF SendInit, GivenUpBefore, Effects, Executed, Outcome, Promise!Init
<1>2. SendTypeOK /\ GivenUpBefore /\ [SendNext]_sendVars => GivenUpBefore'
  BY GivenUpBeforeKept
<1>3. SendInv /\ GivenUpBefore /\ [SendNext]_sendVars => [Promise!Next]_<<Effects, unknown, Outcome>>
  BY StepKeeps
<1>4. SendInv => SendTypeOK
  BY DEF SendInv
<1> QED
  BY <1>1, <1>2, <1>3, <1>4, SendInvariance, PTL DEF SendSpec, KeepsPromise, Promise!Spec, Promise!vars

(***************************************************************************)
(* PART 2.  CowSwap, for any number of attempts and of failed requests and *)
(* any period.  An order may be filled between the caller's last look at   *)
(* it and the timeout: the proof accounts for every such order (unseen)    *)
(* and for every order that a failure left behind (abandoned).             *)
(***************************************************************************)

\* The caller has an order in the book that it waits for.
Waiting == pc \in {"sign", "poll", "decide", "sleep"}

TypeOK ==
    /\ mode \in {"waiting", "fallback"} /\ usesSafe \in BOOLEAN
    /\ now \in Nat /\ validTo \in Nat /\ waitFrom \in Nat /\ wakeAt \in Nat
    /\ orders \in Seq(Order)
    /\ pc \in Places
    /\ attempt \in Nat
    /\ view \in {"none", "filled", "open", "expired", "cancelled"}
    /\ pool \in BOOLEAN
    /\ errors \in Nat
    /\ abandoned \subseteq DOMAIN orders /\ unseen \subseteq DOMAIN orders
    /\ Waiting => orders # <<>>

\* An order can no longer be filled.
Over(i) == orders[i].state = "cancelled" \/ now > orders[i].validTo

\* An order that nobody filled in time.
Dead(i) == orders[i].state # "filled" /\ Over(i)

\* Orders given up although they were filled or may be.
Lost == abandoned \cup unseen

\* All but the given order are dead or lost.
DeadBut(keep) == \A i \in DOMAIN orders \ (Lost \cup keep) : Dead(i)

\* A new attempt, and the pool, come after the last order's death.
OneAlive ==
    /\ pc \in {"allowance", "post", "fallback"} => DeadBut({})
    /\ Waiting => DeadBut({Current})
    /\ pool => DeadBut({}) /\ pc \in Ended
    /\ \E i \in 0..Len(orders) : DeadBut({i})

\* The wait outlasts the order.
WaitOutlasts ==
    /\ pc = "post" => validTo <= now + Period
    /\ pc = "sign" => orders[Current].validTo <= now + Period
    /\ pc \in {"poll", "decide", "sleep"} =>
           orders[Current].validTo <= waitFrom + Period

\* What ended an order by the last answer still ends it.
ViewHolds ==
    /\ view = "expired" => pc = "decide" /\ now > orders[Current].validTo
    /\ view = "cancelled" =>
           pc = "decide" /\ orders[Current].state = "cancelled"

\* What was lost is paid for: by a failed request, or by a fill.
Charged ==
    /\ Cardinality(abandoned) <= errors
    /\ \A i \in unseen : orders[i].state = "filled"

IInv == TypeOK /\ OneAlive /\ WaitOutlasts /\ ViewHolds /\ Charged

-----------------------------------------------------------------------------
\* The start.
LEMMA Initially == Init => IInv
<1> SUFFICES ASSUME Init PROVE IInv
  OBVIOUS
<1>1. mode \in {"waiting", "fallback"} /\ usesSafe \in BOOLEAN
  BY SwapAssumption, Zenon DEF Init
<1>2. orders \in Seq(Order) /\ Len(orders) = 0 /\ DOMAIN orders = {}
  BY EmptySeq DEF Init
<1>3. TypeOK
  BY <1>1, <1>2 DEF Init, TypeOK, Places, Ended, Waiting
<1>4. OneAlive
  BY <1>2 DEF Init, OneAlive, DeadBut, Waiting
<1>5. Charged
  BY FS_EmptySet DEF Init, Charged
<1> QED
  BY <1>3, <1>4, <1>5 DEF Init, IInv, WaitOutlasts, ViewHolds

\* A change of one order's state.
LEMMA StateSet ==
  ASSUME orders \in Seq(Order), NEW i \in DOMAIN orders,
         NEW s \in {"open", "filled", "cancelled"},
         orders' = [orders EXCEPT ![i].state = s]
  PROVE  /\ orders' \in Seq(Order)
         /\ DOMAIN orders' = DOMAIN orders /\ Len(orders') = Len(orders)
         /\ orders' # <<>>
         /\ \A j \in DOMAIN orders : j # i => orders'[j] = orders[j]
         /\ orders'[i].validTo = orders[i].validTo
         /\ orders'[i].state = s
<1> DEFINE o == [orders[i] EXCEPT !.state = s]
<1>1. i \in 1..Len(orders) /\ orders[i] \in Order
  BY LenProperties, ElementOfSeq
<1>2. o \in Order /\ o.validTo = orders[i].validTo /\ o.state = s
  BY <1>1 DEF Order
<1>3. orders' = [orders EXCEPT ![i] = o]
  OBVIOUS
<1>4. /\ orders' \in Seq(Order) /\ Len(orders') = Len(orders)
      /\ \A j \in 1..Len(orders) :
            orders'[j] = IF j = i THEN o ELSE orders[j]
  BY <1>1, <1>2, <1>3, ExceptSeq
<1>5. DOMAIN orders' = DOMAIN orders
  BY <1>4, LenProperties
<1>6. orders' # <<>>
  BY <1>1, <1>4, EmptySeq
<1> QED
  BY <1>1, <1>2, <1>4, <1>5, <1>6, LenProperties

\* The order waited for is in the book.
LEMMA CurrentInBook ==
  ASSUME TypeOK, Waiting
  PROVE  Current \in DOMAIN orders
  BY EmptySeq, LenProperties DEF TypeOK, Waiting, Current

\* An order has a validTo.
LEMMA OrderTyped ==
  ASSUME TypeOK, NEW j \in DOMAIN orders
  PROVE  orders[j] \in Order /\ orders[j].validTo \in Nat
<1>1. orders[j] \in Order
  BY LenProperties, ElementOfSeq DEF TypeOK
<1> QED
  BY <1>1 DEF Order

\* What the pre-signature does to the book.
LEMMA SignatureSet ==
  ASSUME TypeOK, Waiting, Signed \/ UNCHANGED orders
  PROVE  /\ orders' \in Seq(Order) /\ orders' # <<>>
         /\ DOMAIN orders' = DOMAIN orders /\ Len(orders') = Len(orders)
         /\ \A j \in DOMAIN orders :
                /\ orders'[j].validTo = orders[j].validTo
                /\ \/ orders'[j].state = orders[j].state
                   \/ orders[j].state = "unsigned" /\ orders'[j].state = "open"
<1>1. CASE UNCHANGED orders
  BY <1>1 DEF TypeOK
<1>2. CASE ~UNCHANGED orders
  <2>1. /\ Current \in DOMAIN orders /\ orders[Current].state = "unsigned"
        /\ orders' = [orders EXCEPT ![Current].state = "open"]
    BY <1>2, CurrentInBook DEF Signed
  <2> QED
    BY <2>1, StateSet DEF TypeOK
<1> QED
  BY <1>1, <1>2

\* Giving an order up changes nothing but the account of it.
LEMMA GivenUpTyped ==
  ASSUME TypeOK, Waiting, GiveOrderUp
  PROVE  unseen' \subseteq DOMAIN orders /\ unseen \subseteq unseen'
  BY CurrentInBook DEF TypeOK, GiveOrderUp

\* What an exception changes: the attempt and the place.
LEMMA Raises ==
  ASSUME TypeOK, NEW kind, AttemptRaises(kind) \/ WaitRaises(kind)
  PROVE  /\ pc' \in {"allowance", "fallback", "raised"}
         /\ attempt' \in Nat
  BY DEF TypeOK, AttemptRaises, WaitRaises, GiveUp

\* Types.
LEMMA TypeKept == TypeOK /\ [Next]_vars => TypeOK'
<1> SUFFICES ASSUME TypeOK, [Next]_vars PROVE TypeOK'
  OBVIOUS
<1> USE SwapAssumption DEF call, TypeOK, Places, Ended, Waiting, Current, Order
<1>1. CASE Prepare
  BY <1>1 DEF Prepare
<1>2. CASE PrepareFails \/ Refused \/ NotPosted
  BY <1>2, Raises DEF PrepareFails, Refused, NotPosted, Failure
<1>3. CASE Post
  BY <1>3 DEF Post, NewOrder, StartWait
<1>4. CASE PostAnswerLost
  BY <1>4, Raises DEF PostAnswerLost, NewOrder, Failure
<1>5. CASE Sign
  BY <1>5, SignatureSet DEF Sign, StartWait
<1>6. CASE SignFails
  BY <1>6, SignatureSet, CurrentInBook, Raises DEF SignFails, Failure, Abandon
<1>7. CASE Poll
  <2>1. view' \in {"filled", "open", "expired", "cancelled"}
    BY <1>7 DEF Poll, Status, Unfilled
  <2> QED
    BY <1>7, <2>1 DEF Poll
<1>8. CASE PollFails
  BY <1>8, CurrentInBook, Raises DEF PollFails, Failure, Abandon, Waiting
<1>9. CASE SeesFilled
  BY <1>9 DEF SeesFilled
<1>10. CASE SeesExpired \/ SeesTimeout
  BY <1>10, GivenUpTyped, Raises DEF SeesExpired, SeesTimeout
<1>11. CASE SleepOn \/ Wake
  BY <1>11 DEF SleepOn, Wake
<1>12. CASE LookUpTrade \/ NoPool \/ SwapInPool
  BY <1>12 DEF LookUpTrade, NoPool, SwapInPool
<1>13. CASE Tick
  BY <1>13 DEF Tick
<1>14. ASSUME NEW i \in DOMAIN orders, Fill(i) \/ Cancel(i) PROVE TypeOK'
  <2>1. orders' \in Seq(Order) /\ DOMAIN orders' = DOMAIN orders /\ orders' # <<>>
    BY <1>14, StateSet DEF Fill, Cancel
  <2> QED
    BY <1>14, <2>1 DEF Fill, Cancel
<1>15. CASE UNCHANGED vars
  BY <1>15 DEF vars
<1> QED
  BY <1>1, <1>2, <1>3, <1>4, <1>5, <1>6, <1>7, <1>8, <1>9, <1>10, <1>11,
     <1>12, <1>13, <1>14, <1>15 DEF Next, Caller

-----------------------------------------------------------------------------
\* What becomes of an order: its validTo stands, what is over stays over, and
\* it is filled only while it is valid.
LEMMA OrderKept ==
  ASSUME TypeOK, [Next]_vars, NEW j \in DOMAIN orders
  PROVE  /\ now' \in Nat /\ now <= now' /\ j \in DOMAIN orders'
         /\ orders'[j].validTo = orders[j].validTo
         /\ orders[j].state \in {"filled", "cancelled"} =>
                orders'[j].state = orders[j].state
         /\ orders'[j].state = "filled" =>
                \/ orders[j].state = "filled"
                \/ now <= orders[j].validTo /\ now' = now
<1> USE DEF call, TypeOK
<1>1. CASE Post \/ PostAnswerLost
  <2>1. orders' = Append(orders, NewOrder) /\ now' = now
    BY <1>1 DEF Post, PostAnswerLost
  <2>2. NewOrder \in Order
    BY DEF NewOrder, Order
  <2>3. j \in DOMAIN orders' /\ orders'[j] = orders[j]
    BY <2>1, <2>2, AppendProperties, LenProperties
  <2> QED
    BY <2>1, <2>3
<1>2. CASE Sign \/ SignFails
  BY <1>2, SignatureSet DEF Sign, SignFails, Waiting
<1>3. ASSUME NEW i \in DOMAIN orders, Fill(i) \/ Cancel(i)
      PROVE  /\ now' = now /\ j \in DOMAIN orders'
             /\ orders'[j].validTo = orders[j].validTo
             /\ orders[j].state \in {"filled", "cancelled"} =>
                    orders'[j].state = orders[j].state
             /\ orders'[j].state = "filled" =>
                    orders[j].state = "filled" \/ now <= orders[j].validTo
  <2>1. CASE i = j
    BY <1>3, <2>1, StateSet DEF Fill, Cancel
  <2>2. CASE i # j
    BY <1>3, <2>2, StateSet DEF Fill, Cancel
  <2> QED
    BY <2>1, <2>2
<1>4. CASE Tick
  BY <1>4 DEF Tick
<1>5. CASE Prepare \/ PrepareFails \/ Refused \/ NotPosted
  BY <1>5 DEF Prepare, PrepareFails, Refused, NotPosted
<1>6. CASE Poll \/ PollFails \/ SeesFilled \/ SeesExpired \/ SeesTimeout
  BY <1>6 DEF Poll, PollFails, SeesFilled, SeesExpired, SeesTimeout
<1>7. CASE SleepOn \/ Wake \/ LookUpTrade \/ NoPool \/ SwapInPool
  BY <1>7 DEF SleepOn, Wake, LookUpTrade, NoPool, SwapInPool
<1>8. CASE UNCHANGED vars
  BY <1>8 DEF vars
<1> QED
  BY <1>1, <1>2, <1>3, <1>4, <1>5, <1>6, <1>7, <1>8 DEF Next, Caller

\* Orders that are over stay over, and dead ones dead.
LEMMA DeadStays ==
  ASSUME TypeOK, [Next]_vars, NEW j \in DOMAIN orders
  PROVE  /\ j \in DOMAIN orders'
         /\ Over(j) => Over(j)'
         /\ Dead(j) => Dead(j)'
<1>1. now \in Nat /\ orders[j].validTo \in Nat
  BY OrderTyped DEF TypeOK
<1> QED
  BY <1>1, OrderKept DEF Over, Dead

\* Nothing but a post adds to the book, nothing takes from what was lost.
LEMMA BookGrows ==
  ASSUME TypeOK, [Next]_vars
  PROVE  /\ abandoned \subseteq abandoned' /\ unseen \subseteq unseen'
         /\ \/ DOMAIN orders' = DOMAIN orders
            \/ pc = "post" /\ DOMAIN orders' = DOMAIN orders \cup {Len(orders')}
<1> USE DEF call, TypeOK
<1>1. CASE Post \/ PostAnswerLost
  <2>1. orders' = Append(orders, NewOrder) /\ NewOrder \in Order
    BY <1>1 DEF Post, PostAnswerLost, NewOrder, Order
  <2>2. orders' \in Seq(Order) /\ Len(orders') = Len(orders) + 1
    BY <2>1, AppendProperties
  <2>3. DOMAIN orders' = DOMAIN orders \cup {Len(orders')}
    BY <2>2, LenProperties
  <2> QED
    BY <1>1, <2>3 DEF Post, PostAnswerLost
<1>2. CASE Sign \/ SignFails
  <2>1. DOMAIN orders' = DOMAIN orders
    BY <1>2, SignatureSet DEF Sign, SignFails, Waiting
  <2> QED
    BY <1>2, <2>1 DEF Sign, SignFails, Abandon
<1>3. ASSUME NEW i \in DOMAIN orders, Fill(i) \/ Cancel(i)
      PROVE  /\ abandoned' = abandoned /\ unseen' = unseen
             /\ DOMAIN orders' = DOMAIN orders
  BY <1>3, StateSet DEF Fill, Cancel
<1>4. CASE Prepare \/ PrepareFails \/ Refused \/ NotPosted \/ Tick
  BY <1>4 DEF Prepare, PrepareFails, Refused, NotPosted, Tick
<1>5. CASE Poll \/ PollFails \/ SeesFilled \/ SeesExpired \/ SeesTimeout
  BY <1>5 DEF Poll, PollFails, SeesFilled, SeesExpired, SeesTimeout, Abandon,
     GiveOrderUp
<1>6. CASE SleepOn \/ Wake \/ LookUpTrade \/ NoPool \/ SwapInPool
  BY <1>6 DEF SleepOn, Wake, LookUpTrade, NoPool, SwapInPool
<1>7. CASE UNCHANGED vars
  BY <1>7 DEF vars
<1> QED
  BY <1>1, <1>2, <1>3, <1>4, <1>5, <1>6, <1>7 DEF Next, Caller

LEMMA DeadButStays ==
  ASSUME TypeOK, [Next]_vars, NEW keep, DeadBut(keep),
         NEW keepNext, keep \subseteq keepNext \cup Lost',
         DOMAIN orders' \subseteq DOMAIN orders \cup Lost' \cup keepNext
  PROVE  \A i \in DOMAIN orders' \ (Lost' \cup keepNext) : Dead(i)'
<1>1. Lost \subseteq Lost'
  BY BookGrows DEF Lost
<1> QED
  BY <1>1, DeadStays DEF DeadBut

-----------------------------------------------------------------------------
\* Two ways to be left with at most one order that is alive.
LEMMA NoneAlive ==
  ASSUME TypeOK', DeadBut({})', (pool => pc \in Ended)'
  PROVE  OneAlive'
  BY LenProperties DEF TypeOK, OneAlive, DeadBut

LEMMA CurrentAlive ==
  ASSUME TypeOK', DeadBut({Current})', ~pool',
         pc' \notin {"allowance", "post", "fallback"}
  PROVE  OneAlive'
  BY LenProperties DEF TypeOK, OneAlive, DeadBut, Current

\* Whoever gives an order up knows that it is over, or abandons it.
LEMMA GivesUp ==
  ASSUME IInv, [Next]_vars,
         \/ SignFails \/ PollFails
         \/ SeesExpired \/ SeesTimeout
  PROVE  DeadBut({})'
<1> USE DEF IInv
<1>1. TypeOK /\ Waiting /\ DeadBut({Current}) /\ Current \in DOMAIN orders
  BY CurrentInBook DEF SignFails, PollFails, SeesExpired, SeesTimeout, Waiting,
     OneAlive
<1>2. DOMAIN orders' = DOMAIN orders
  BY <1>1, BookGrows DEF Waiting
<1>3. CASE SignFails \/ PollFails
  <2>1. Current \in Lost'
    BY <1>3 DEF SignFails, PollFails, Abandon, Lost
  <2> QED
    BY <1>1, <1>2, <2>1, DeadButStays DEF DeadBut
<1>4. CASE SeesExpired \/ SeesTimeout
  <2>1. Over(Current)
    <3>1. CASE SeesExpired
      BY <3>1 DEF SeesExpired, ViewHolds, Over
    <3>2. CASE SeesTimeout
      <4>1. orders[Current].validTo \in Nat
        BY <1>1, OrderTyped
      <4>2. now > waitFrom + Period /\ orders[Current].validTo <= waitFrom + Period
        BY <3>2, SwapAssumption DEF SeesTimeout, WaitOutlasts, TypeOK
      <4> QED
        BY <4>1, <4>2, SwapAssumption DEF TypeOK, Over
    <3> QED
      BY <1>4, <3>1, <3>2
  <2>2. CASE orders[Current].state = "filled"
    <3>1. Current \in Lost'
      BY <1>4, <2>2 DEF SeesExpired, SeesTimeout, GiveOrderUp, Lost
    <3> QED
      BY <1>1, <1>2, <3>1, DeadButStays DEF DeadBut
  <2>3. CASE orders[Current].state # "filled"
    <3>1. DeadBut({})
      BY <1>1, <2>1, <2>3 DEF DeadBut, Dead
    <3> QED
      BY <1>1, <1>2, <3>1, DeadButStays DEF DeadBut
  <2> QED
    BY <2>2, <2>3
<1> QED
  BY <1>3, <1>4

LEMMA OneAliveKept ==
  ASSUME IInv, [Next]_vars
  PROVE  OneAlive'
<1> USE DEF IInv, call
<1>1. TypeOK' /\ abandoned \subseteq abandoned'
  BY TypeKept, BookGrows
<1>2. CASE Prepare \/ PrepareFails \/ Refused \/ NotPosted
  <2>1. /\ DeadBut({}) /\ ~pool /\ pool' = pool
        /\ orders' = orders
    BY <1>2 DEF Prepare, PrepareFails, Refused, NotPosted, OneAlive, Ended
  <2>2. DeadBut({})'
    BY <2>1, DeadButStays DEF DeadBut
  <2> QED
    BY <1>1, <2>1, <2>2, NoneAlive
<1>3. CASE PostAnswerLost
  <2>1. /\ DeadBut({}) /\ ~pool /\ pool' = pool
        /\ orders' = Append(orders, NewOrder) /\ NewOrder \in Order
        /\ abandoned' = abandoned \cup {Len(orders) + 1}
    BY <1>3 DEF PostAnswerLost, OneAlive, Ended, NewOrder, Order, TypeOK
  <2>2. Len(orders') = Len(orders) + 1
    BY <2>1, AppendProperties DEF TypeOK
  <2>3. DOMAIN orders' \subseteq DOMAIN orders \cup Lost'
    BY <2>1, <2>2, BookGrows DEF Lost
  <2>4. DeadBut({})'
    BY <2>1, <2>3, DeadButStays DEF DeadBut
  <2> QED
    BY <1>1, <2>1, <2>4, NoneAlive
<1>4. CASE SignFails \/ PollFails \/ SeesExpired \/ SeesTimeout
  <2>1. ~pool'
    BY <1>4 DEF SignFails, PollFails, SeesExpired, SeesTimeout, OneAlive, Ended
  <2> QED
    BY <1>1, <1>4, <2>1, GivesUp, NoneAlive
<1>5. CASE Post
  <2>1. /\ DeadBut({}) /\ ~pool /\ pool' = pool
        /\ pc' \notin {"allowance", "post", "fallback"}
    BY <1>5 DEF Post, OneAlive, Ended, StartWait
  <2>2. DOMAIN orders' \subseteq DOMAIN orders \cup {Current'}
    BY BookGrows DEF Current
  <2>3. DeadBut({Current})'
    BY <2>1, <2>2, DeadButStays DEF DeadBut
  <2> QED
    BY <1>1, <2>1, <2>3, CurrentAlive
<1>6. CASE Sign \/ Poll \/ SeesFilled \/ SleepOn \/ Wake
  <2>1. /\ Waiting /\ DeadBut({Current}) /\ ~pool /\ pool' = pool
        /\ pc' \notin {"allowance", "post", "fallback"}
    BY <1>6 DEF Sign, Poll, SeesFilled, SleepOn, Wake, Waiting, OneAlive, Ended,
       StartWait
  <2>2. DOMAIN orders' = DOMAIN orders
    BY <2>1, BookGrows DEF Waiting
  <2>3. Current' = Current
    BY <1>1, <2>2, LenProperties DEF TypeOK, Current
  <2>4. DeadBut({Current})'
    BY <2>1, <2>2, <2>3, DeadButStays DEF DeadBut
  <2> QED
    BY <1>1, <2>1, <2>4, CurrentAlive
<1>7. CASE NoPool \/ SwapInPool
  <2>1. /\ DeadBut({}) /\ orders' = orders
        /\ pc' \in Ended
    BY <1>7 DEF NoPool, SwapInPool, OneAlive, Ended
  <2>2. DeadBut({})'
    BY <2>1, DeadButStays DEF DeadBut
  <2> QED
    BY <1>1, <2>1, <2>2, NoneAlive
<1>8. CASE LookUpTrade
  <2>1. ~pool' /\ pc' \in Ended /\ UNCHANGED <<orders, abandoned, unseen, now>>
    BY <1>8 DEF LookUpTrade, OneAlive, Ended
  <2> QED
    BY <2>1 DEF OneAlive, DeadBut, Dead, Over, Lost, Waiting, Ended
<1>9. ASSUME \/ Tick
             \/ \E i \in DOMAIN orders : Fill(i) \/ Cancel(i)
             \/ UNCHANGED vars
      PROVE  OneAlive'
  <2>1. /\ UNCHANGED <<pc, pool>>
        /\ DOMAIN orders' = DOMAIN orders
    BY <1>9, StateSet DEF Tick, Fill, Cancel, vars, TypeOK
  <2>2. Len(orders') = Len(orders)
    BY <1>1, <2>1, LenProperties DEF TypeOK
  <2>3. \A keep : DeadBut(keep) =>
            \A i \in DOMAIN orders' \ (Lost' \cup keep) : Dead(i)'
    BY <2>1, DeadButStays
  <2> QED
    BY <2>1, <2>2, <2>3 DEF OneAlive, DeadBut, Waiting, Current
<1> QED
  BY <1>2, <1>3, <1>4, <1>5, <1>6, <1>7, <1>8, <1>9 DEF Next, Caller

-----------------------------------------------------------------------------
\* validTo is computed before the wait for the order begins.
LEMMA WaitOutlastsKept ==
  ASSUME TypeOK, WaitOutlasts, [Next]_vars
  PROVE  WaitOutlasts'
<1> USE SwapAssumption DEF call, TypeOK, WaitOutlasts
<1>1. CASE Prepare
  BY <1>1 DEF Prepare
<1>2. CASE PrepareFails \/ Refused \/ NotPosted \/ PostAnswerLost
  BY <1>2, Raises DEF PrepareFails, Refused, NotPosted, PostAnswerLost
<1>3. CASE Post
  <2>1. NewOrder \in Order /\ NewOrder.validTo = validTo
    BY DEF NewOrder, Order
  <2>2. orders'[Current'].validTo <= now + Period
    BY <1>3, <2>1, AppendProperties DEF Post, Current
  <2> QED
    BY <1>3, <2>2 DEF Post, StartWait
<1>4. CASE Sign
  <2>1. Current \in DOMAIN orders
    BY <1>4, CurrentInBook DEF Sign, Waiting
  <2>2. Current' = Current /\ orders'[Current].validTo = orders[Current].validTo
    BY <1>4, <2>1, SignatureSet DEF Sign, Waiting, Current
  <2> QED
    BY <1>4, <2>2 DEF Sign, StartWait
<1>5. CASE SignFails \/ PollFails \/ SeesExpired \/ SeesTimeout
  BY <1>5, Raises DEF SignFails, PollFails, SeesExpired, SeesTimeout
<1>6. CASE Poll \/ SeesFilled \/ SleepOn \/ Wake
  BY <1>6 DEF Poll, SeesFilled, SleepOn, Wake, Current
<1>7. CASE LookUpTrade \/ NoPool \/ SwapInPool
  BY <1>7 DEF LookUpTrade, NoPool, SwapInPool, Ended
<1>8. CASE Tick
  <2>1. pc = "sign" => orders[Current].validTo \in Nat
    BY CurrentInBook, OrderTyped DEF Waiting
  <2> QED
    BY <1>8, <2>1 DEF Tick, Current
<1>9. ASSUME NEW i \in DOMAIN orders, Fill(i) \/ Cancel(i)
      PROVE  WaitOutlasts'
  <2>1. Current' = Current
    BY <1>9, StateSet DEF Fill, Cancel, Current
  <2>2. \A j \in DOMAIN orders : orders'[j].validTo = orders[j].validTo
    BY <1>9, StateSet DEF Fill, Cancel
  <2>3. Waiting => Current \in DOMAIN orders
    BY CurrentInBook
  <2> QED
    BY <1>9, <2>1, <2>2, <2>3 DEF Fill, Cancel, Waiting
<1>10. CASE UNCHANGED vars
  BY <1>10 DEF vars, Current
<1> QED
  BY <1>1, <1>2, <1>3, <1>4, <1>5, <1>6, <1>7, <1>8, <1>9, <1>10
     DEF Next, Caller

\* An answer that the order can no longer be filled stays right.
LEMMA ViewHoldsKept ==
  ASSUME IInv, [Next]_vars
  PROVE  ViewHolds'
<1> USE DEF call, IInv
<1>1. CASE Poll
  <2>1. Current' = Current /\ UNCHANGED <<orders, now>>
    BY <1>1 DEF Poll, Current
  <2>2. view' = "expired" => now > orders[Current].validTo
    BY <1>1 DEF Poll, Status, Unfilled
  <2>3. view' = "cancelled" => orders[Current].state = "cancelled"
    BY <1>1 DEF Poll, Status, Unfilled
  <2> QED
    BY <1>1, <2>1, <2>2, <2>3 DEF Poll, ViewHolds, Waiting
<1>2. ASSUME \/ Tick \/ \E i \in DOMAIN orders : Fill(i) \/ Cancel(i)
             \/ UNCHANGED vars
      PROVE  ViewHolds'
  <2>1. UNCHANGED <<pc, view>> /\ Len(orders') = Len(orders)
    BY <1>2, StateSet DEF Tick, Fill, Cancel, vars, TypeOK
  <2>2. CASE pc # "decide"
    BY <2>1, <2>2 DEF ViewHolds
  <2>3. CASE pc = "decide"
    <3>1. Current \in DOMAIN orders /\ Current' = Current
      BY <2>1, <2>3, CurrentInBook DEF Waiting, Current
    <3>2. orders[Current].validTo \in Nat
      BY <3>1, OrderTyped
    <3> QED
      BY <2>1, <2>3, <3>1, <3>2, OrderKept DEF ViewHolds, TypeOK
  <2> QED
    BY <2>2, <2>3
<1>3. CASE \/ Prepare \/ PrepareFails \/ Refused \/ NotPosted \/ Post
           \/ PostAnswerLost
  BY <1>3 DEF Prepare, PrepareFails, Refused, NotPosted, Post, PostAnswerLost,
     ViewHolds
<1>4. CASE Sign \/ SignFails \/ PollFails \/ Wake
  BY <1>4 DEF Sign, SignFails, PollFails, Wake, ViewHolds
<1>5. CASE SeesFilled \/ SeesExpired \/ SeesTimeout \/ SleepOn
  BY <1>5 DEF SeesFilled, SeesExpired, SeesTimeout, SleepOn, ViewHolds
<1>6. CASE LookUpTrade \/ NoPool \/ SwapInPool
  BY <1>6 DEF LookUpTrade, NoPool, SwapInPool, ViewHolds
<1> QED
  BY <1>1, <1>2, <1>3, <1>4, <1>5, <1>6 DEF Next, Caller

\* Every failure leaves one order behind at most, and a filled order stays
\* filled.
LEMMA ChargedKept ==
  ASSUME IInv, [Next]_vars
  PROVE  Charged'
<1> USE DEF call, IInv
<1>1. IsFiniteSet(abandoned)
  BY LenProperties, FS_Interval, FS_Subset DEF TypeOK
<1>2. \A x : /\ IsFiniteSet(abandoned \cup {x})
             /\ Cardinality(abandoned \cup {x}) <= Cardinality(abandoned) + 1
  BY <1>1, FS_AddElement, FS_CardinalityType
<1>3. Cardinality(abandoned) \in Nat /\ errors \in Nat
  BY <1>1, FS_CardinalityType DEF TypeOK
<1>4. Cardinality(abandoned') <= errors'
  <2>1. CASE PostAnswerLost \/ SignFails \/ PollFails
    <3>1. PICK x : abandoned' = abandoned \cup {x} /\ errors' = errors + 1
      BY <2>1 DEF PostAnswerLost, SignFails, PollFails, Abandon, Failure
    <3>2. Cardinality(abandoned') \in Nat
      BY <1>2, <3>1, FS_CardinalityType
    <3>3. Cardinality(abandoned') <= Cardinality(abandoned) + 1
      BY <1>2, <3>1
    <3>4. Cardinality(abandoned) <= errors
      BY DEF Charged
    <3> HIDE DEF IInv
    <3> QED
      BY <1>3, <3>1, <3>2, <3>3, <3>4
  <2>2. CASE PrepareFails \/ NotPosted
    BY <1>3, <2>2 DEF PrepareFails, NotPosted, Failure, Charged
  <2>3. CASE \/ Prepare \/ Refused \/ Post \/ Sign \/ Poll \/ SeesFilled
             \/ SeesExpired \/ SeesTimeout
    BY <2>3 DEF Prepare, Refused, Post, Sign, Poll, SeesFilled, SeesExpired,
       SeesTimeout, Charged
  <2>4. CASE SleepOn \/ Wake \/ LookUpTrade \/ NoPool \/ SwapInPool
    BY <2>4 DEF SleepOn, Wake, LookUpTrade, NoPool, SwapInPool, Charged
  <2>5. CASE \/ Tick \/ \E i \in DOMAIN orders : Fill(i) \/ Cancel(i)
             \/ UNCHANGED vars
    BY <2>5 DEF Tick, Fill, Cancel, vars, Charged
  <2> QED
    BY <2>1, <2>2, <2>3, <2>4, <2>5 DEF Next, Caller
<1>5. ASSUME NEW i \in unseen' PROVE orders'[i].state = "filled"
  <2>1. CASE i \in unseen
    BY <2>1, OrderKept DEF Charged, TypeOK
  <2>2. CASE i \notin unseen
    <3>1. CASE SeesExpired \/ SeesTimeout
      BY <1>5, <2>2, <3>1 DEF SeesExpired, SeesTimeout, GiveOrderUp
    <3>2. CASE ~(SeesExpired \/ SeesTimeout)
      <4>1. unseen' = unseen
        BY <3>2 DEF Next, Caller, vars, Prepare, PrepareFails, Refused,
           NotPosted, Post, PostAnswerLost, Sign, SignFails, Poll, PollFails,
           SeesFilled, SleepOn, Wake, LookUpTrade, NoPool, SwapInPool, Tick,
           Fill, Cancel
      <4> QED
        BY <1>5, <2>2, <4>1
    <3> QED
      BY <3>1, <3>2
  <2> QED
    BY <2>1, <2>2
<1> QED
  BY <1>4, <1>5 DEF Charged

LEMMA Inductive == IInv /\ [Next]_vars => IInv'
  BY TypeKept, OneAliveKept, WaitOutlastsKept, ViewHoldsKept, ChargedKept DEF IInv

LEMMA Invariance == Spec => []IInv
<1>1. IInv /\ [Next]_vars => IInv'
  BY Inductive
<1> QED
  BY <1>1, Initially, PTL DEF Spec

-----------------------------------------------------------------------------
(***************************************************************************)
(* The state of a swap keeps its types.                                    *)
(***************************************************************************)
THEOREM TypeCorrect == Spec => []TypeOK
<1>1. Init => TypeOK
  BY Initially DEF IInv
<1> QED
  BY <1>1, TypeKept, PTL DEF Spec

\* A set of orders that is covered by the lost ones and one more.
LEMMA CountFilled ==
  ASSUME NEW A, NEW U, IsFiniteSet(A), IsFiniteSet(U), NEW X, NEW S,
         IsFiniteSet(X), S \subseteq (A \cup U) \cup X
  PROVE  /\ Cardinality(S) \in Nat
         /\ Cardinality(S) <= Cardinality(A) + Cardinality(U) + Cardinality(X)
<1>1. /\ IsFiniteSet(A \cup U)
      /\ Cardinality(A \cup U) = Cardinality(A) + Cardinality(U)
                                   - Cardinality(A \cap U)
  BY FS_Union
<1>2. Cardinality(A \cap U) \in Nat
  BY FS_Intersection, FS_CardinalityType
<1>3. /\ IsFiniteSet((A \cup U) \cup X)
      /\ Cardinality((A \cup U) \cup X)
             = Cardinality(A \cup U) + Cardinality(X)
               - Cardinality((A \cup U) \cap X)
  BY <1>1, FS_Union
<1>4. Cardinality((A \cup U) \cap X) \in Nat
  BY <1>1, FS_Intersection, FS_CardinalityType
<1>5. /\ IsFiniteSet(S)
      /\ Cardinality(S) <= Cardinality((A \cup U) \cup X)
  BY <1>3, FS_Subset
<1>6. Cardinality(S) \in Nat
  BY <1>5, FS_CardinalityType
<1>7. /\ Cardinality(A) \in Nat /\ Cardinality(U) \in Nat
      /\ Cardinality(X) \in Nat
  BY FS_CardinalityType
<1> QED
  BY <1>1, <1>2, <1>3, <1>4, <1>5, <1>6, <1>7

(***************************************************************************)
(* However many attempts are made, there is one swap, and one more at most *)
(* for every request that failed and for every order that was filled       *)
(* before the caller gave it up: an order that was unfilled then is never  *)
(* filled beside its successor or the pool.                                *)
(***************************************************************************)
THEOREM SwapsOnce == Spec => []SwapsAccountedFor
<1>1. ASSUME IInv PROVE SwapsAccountedFor
  <2>1. /\ IsFiniteSet(abandoned) /\ IsFiniteSet(unseen)
        /\ Cardinality(abandoned) <= errors /\ errors \in Nat
    <3>1. /\ DOMAIN orders = 1..Len(orders) /\ Len(orders) \in Nat
          /\ abandoned \subseteq DOMAIN orders /\ unseen \subseteq DOMAIN orders
      BY <1>1, LenProperties DEF IInv, TypeOK
    <3>2. IsFiniteSet(DOMAIN orders)
      BY <3>1, FS_Interval
    <3>3. IsFiniteSet(abandoned) /\ IsFiniteSet(unseen)
      BY <3>1, <3>2, FS_Subset
    <3> QED
      BY <1>1, <3>3 DEF IInv, TypeOK, Charged
  <2>2. Cardinality(abandoned) \in Nat /\ Cardinality(unseen) \in Nat
    BY <2>1, FS_CardinalityType
  <2>3. CASE pool
    <3>1. Filled \subseteq (abandoned \cup unseen) \cup {}
      BY <1>1, <2>3 DEF IInv, OneAlive, DeadBut, Dead, Lost, Filled
    <3>2. IsFiniteSet({}) /\ Cardinality({}) = 0
      BY FS_EmptySet
    <3>3. /\ Cardinality(Filled) \in Nat
          /\ Cardinality(Filled) <= Cardinality(abandoned) + Cardinality(unseen)
                                     + Cardinality({})
      BY <2>1, <3>1, <3>2, CountFilled
    <3> QED
      BY <2>1, <2>2, <2>3, <3>2, <3>3 DEF SwapsAccountedFor
  <2>4. CASE ~pool
    <3>1. PICK k \in 0..Len(orders) : DeadBut({k})
      BY <1>1 DEF IInv, OneAlive
    <3>2. Filled \subseteq (abandoned \cup unseen) \cup {k}
      BY <3>1 DEF DeadBut, Dead, Lost, Filled
    <3>3. IsFiniteSet({k}) /\ Cardinality({k}) = 1
      BY FS_Singleton, Zenon
    <3>4. /\ Cardinality(Filled) \in Nat
          /\ Cardinality(Filled) <= Cardinality(abandoned) + Cardinality(unseen)
                                     + Cardinality({k})
      BY <2>1, <3>2, <3>3, CountFilled
    <3> QED
      BY <2>1, <2>2, <2>4, <3>3, <3>4 DEF SwapsAccountedFor
  <2> QED
    BY <2>3, <2>4
<1> QED
  BY <1>1, Invariance, PTL

(***************************************************************************)
(* When the pool's turn comes, no order that the caller waited for can     *)
(* still be filled, whatever happened between its last look and then.      *)
(***************************************************************************)
THEOREM FallbackIsSafe == Spec => []FallbackAfterExpiry
<1>1. ASSUME IInv, pc = "fallback", NEW i \in DOMAIN orders \ abandoned
      PROVE  orders[i].state \in {"filled", "cancelled"} \/ now > orders[i].validTo
  <2>1. i \in unseen \/ Dead(i)
    BY <1>1 DEF IInv, OneAlive, DeadBut, Lost
  <2> QED
    BY <1>1, <2>1 DEF IInv, Charged, Dead, Over
<1>2. IInv => FallbackAfterExpiry
  BY <1>1 DEF FallbackAfterExpiry
<1> QED
  BY <1>2, Invariance, PTL

=============================================================================
