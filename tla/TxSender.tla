------------------------------ MODULE TxSender ------------------------------
(***************************************************************************)
(* Sending a contract transaction, tools/web3_utils.py: callers that share *)
(* one private key (an agent's threads, jobs and other agents) each run    *)
(* send_function_on_contract_tx, or ..._using_safe when their API keys     *)
(* name a Safe, inside tenacity's five attempts.  Every attempt reads the  *)
(* account's nonce afresh, sends and waits for the receipt; any exception  *)
(* starts another attempt.  A caller may wrap the whole in a second retry  *)
(* loop, as omen_buy_outcome_tx does.                                      *)
(*                                                                         *)
(* The node is the environment: it holds the account's transaction count,  *)
(* a mempool and the receipts, may reject, replace, drop, delay or revert  *)
(* a transaction, and may accept one whose answer never arrives.           *)
(***************************************************************************)
EXTENDS Naturals

CONSTANTS
    Senders,      \* concurrent calls signed with the same key
    SafeSenders,  \* those that go through the Safe the key owns
    MaxTries,     \* stop_after_attempt of send_function_on_contract_tx
    MaxOuter      \* attempts of each caller's own retry loop (1: none)

ASSUME SendersAssumption ==
    /\ SafeSenders \subseteq Senders
    /\ MaxTries \in Nat \ {0}
    /\ MaxOuter \in [Senders -> Nat \ {0}]

VARIABLES
    count,      \* node: mined transactions of the account (its next nonce)
    safeCount,  \* node: nonce of the Safe contract
    mempool,    \* node: pending transactions
    receipts,   \* node: receipts of mined transactions
    stage,
    try,        \* serial number of the running attempt, over all loops
    left,       \* attempts left in the running inner loop after this one
    outer,      \* runs of the outer loop left after this one
    nonce,      \* nonce read for this attempt
    safeNonce,  \* Safe nonce read by build_multisig_tx for this attempt
    unknown     \* history: attempts given up without learning their outcome

node == <<count, safeCount, mempool, receipts>>
sendVars == <<count, safeCount, mempool, receipts, stage, try, left, outer,
              nonce, safeNonce, unknown>>

Tx == [by : Senders, try : Nat, nonce : Nat, safeNonce : Nat]
Receipt == [by : Senders, try : Nat, status : 0..1]
Stages == {"build", "nonce", "send", "wait", "returned", "failed"}

SendTypeOK ==
    /\ count \in Nat /\ safeCount \in Nat
    /\ mempool \subseteq Tx
    /\ receipts \subseteq Receipt
    /\ stage \in [Senders -> Stages]
    /\ try \in [Senders -> Nat]
    /\ left \in [Senders -> Nat] /\ outer \in [Senders -> Nat]
    /\ nonce \in [Senders -> Nat] /\ safeNonce \in [Senders -> Nat]
    /\ unknown \in [Senders -> SUBSET Nat]

SendInit ==
    /\ count = 0 /\ safeCount = 0
    /\ mempool = {}
    /\ receipts = {}
    /\ stage = [s \in Senders |-> "build"]
    /\ try = [s \in Senders |-> 1]
    /\ left = [s \in Senders |-> MaxTries - 1]
    /\ outer = [s \in Senders |-> MaxOuter[s] - 1]
    /\ nonce = [s \in Senders |-> 0]
    /\ safeNonce = [s \in Senders |-> 0]
    /\ unknown = [s \in Senders |-> {}]

-----------------------------------------------------------------------------
Goto(s, place) == stage' = [stage EXCEPT ![s] = place]

\* An exception ends the attempt: tenacity starts the next one, the caller's
\* own loop starts over, or the last exception reaches the caller.  The
\* nonces it used are forgotten.
AttemptFails(s) ==
    /\ nonce' = [nonce EXCEPT ![s] = 0]
    /\ safeNonce' = [safeNonce EXCEPT ![s] = 0]
    /\ \/ /\ left[s] > 0
          /\ left' = [left EXCEPT ![s] = @ - 1]
          /\ try' = [try EXCEPT ![s] = @ + 1]
          /\ Goto(s, "build")
          /\ UNCHANGED outer
       \/ /\ left[s] = 0 /\ outer[s] > 0
          /\ left' = [left EXCEPT ![s] = MaxTries - 1]
          /\ outer' = [outer EXCEPT ![s] = @ - 1]
          /\ try' = [try EXCEPT ![s] = @ + 1]
          /\ Goto(s, "build")
       \/ /\ left[s] = 0 /\ outer[s] = 0
          /\ Goto(s, "failed")
          /\ UNCHANGED <<left, outer, try>>

\* The outcome of this attempt was never learnt.
LoseTrack(s) == unknown' = [unknown EXCEPT ![s] = @ \cup {try[s]}]

\* prepare_tx; with a Safe also build_multisig_tx (which reads the Safe's
\* nonce), its signature and its simulation.
Build(s) ==
    /\ stage[s] = "build"
    /\ safeNonce' = [safeNonce EXCEPT
                         ![s] = IF s \in SafeSenders THEN safeCount ELSE 0]
    /\ Goto(s, "nonce")
    /\ UNCHANGED <<node, try, left, outer, nonce, unknown>>

\* Mutant: the nonce is counted over the pending transactions as well.
MutReadNonce(s) ==
    /\ stage[s] = "nonce"
    /\ nonce' = [nonce EXCEPT ![s] = IF mempool = {} THEN count ELSE count + 1]
    /\ Goto(s, "send")
    /\ UNCHANGED <<node, try, left, outer, safeNonce, unknown>>

\* get_transaction_count of the account, in its latest mined state.
ReadNonce(s) ==
    /\ stage[s] = "nonce"
    /\ nonce' = [nonce EXCEPT ![s] = count]
    /\ Goto(s, "send")
    /\ UNCHANGED <<node, try, left, outer, safeNonce, unknown>>

\* Gas estimation, the simulated call or an RPC request before the send
\* raises: nothing was sent.
BuildFails(s) ==
    /\ stage[s] \in {"build", "nonce", "send"}
    /\ AttemptFails(s)
    /\ UNCHANGED <<node, unknown>>

NewTx(s) == [by |-> s, try |-> try[s], nonce |-> nonce[s],
             safeNonce |-> safeNonce[s]]

\* The node takes a transaction whose nonce is not used up; one pending with
\* the same nonce is replaced.
Accept(s) ==
    /\ stage[s] = "send"
    /\ nonce[s] >= count
    /\ mempool' = {t \in mempool : t.nonce # nonce[s]} \cup {NewTx(s)}
    /\ UNCHANGED <<count, safeCount, receipts>>

\* send_raw_transaction / safe_tx.execute return the hash.
Send(s) ==
    /\ Accept(s)
    /\ Goto(s, "wait")
    /\ UNCHANGED <<try, left, outer, nonce, safeNonce, unknown>>

\* The node accepted the transaction and its answer was lost.
SendAnswerLost(s) ==
    /\ Accept(s)
    /\ LoseTrack(s)
    /\ AttemptFails(s)

\* "nonce too low", "already known" or "replacement transaction underpriced".
SendRejected(s) ==
    /\ stage[s] = "send"
    /\ nonce[s] < count \/ \E t \in mempool : t.nonce = nonce[s]
    /\ AttemptFails(s)
    /\ UNCHANGED <<node, unknown>>

ReceiptOf(s, status) == [by |-> s, try |-> try[s], status |-> status]

\* Mutant: the receipt is returned without check_tx_receipt.
MutReturn(s) ==
    /\ stage[s] = "wait"
    /\ \E status \in 0..1 : ReceiptOf(s, status) \in receipts
    /\ Goto(s, "returned")
    /\ UNCHANGED <<node, try, left, outer, nonce, safeNonce, unknown>>

\* wait_for_transaction_receipt returns and check_tx_receipt is content.
Return(s) ==
    /\ stage[s] = "wait"
    /\ ReceiptOf(s, 1) \in receipts
    /\ Goto(s, "returned")
    /\ UNCHANGED <<node, try, left, outer, nonce, safeNonce, unknown>>

\* Mutant: check_tx_receipt raises whatever the status.
MutReverted(s) ==
    /\ stage[s] = "wait"
    /\ \E status \in 0..1 : ReceiptOf(s, status) \in receipts
    /\ AttemptFails(s)
    /\ UNCHANGED <<node, unknown>>

\* The receipt has status 0: check_tx_receipt raises.
Reverted(s) ==
    /\ stage[s] = "wait"
    /\ ReceiptOf(s, 0) \in receipts
    /\ AttemptFails(s)
    /\ UNCHANGED <<node, unknown>>

\* Mutant: the wait for the receipt has no timeout.
MutWaitTimesOut(s) == stage[s] = "wait" /\ UNCHANGED sendVars

\* No receipt within the timeout; the transaction may still be pending.
WaitTimesOut(s) ==
    /\ stage[s] = "wait"
    /\ LoseTrack(s)
    /\ AttemptFails(s)
    /\ UNCHANGED node

-----------------------------------------------------------------------------
\* A block takes the account's next transaction.  A Safe transaction signed
\* for a Safe nonce that is no longer current reverts; any other may.
Mine(t, status) ==
    /\ t.nonce = count
    /\ status = 1 /\ t.by \in SafeSenders => t.safeNonce = safeCount
    /\ count' = count + 1
    /\ safeCount' = IF status = 1 /\ t.by \in SafeSenders
                  THEN safeCount + 1 ELSE safeCount
    /\ mempool' = mempool \ {t}
    /\ receipts' = receipts \cup {[by |-> t.by, try |-> t.try,
                                status |-> status]}
    /\ UNCHANGED <<stage, try, left, outer, nonce, safeNonce, unknown>>

\* The node forgets a pending transaction.
Drop(t) ==
    /\ mempool' = mempool \ {t}
    /\ UNCHANGED <<count, safeCount, receipts, stage, try, left, outer,
                   nonce, safeNonce, unknown>>

SenderStep(s) ==
    \/ Build(s) \/ ReadNonce(s) \/ BuildFails(s) \/ Send(s)
    \/ SendAnswerLost(s) \/ SendRejected(s) \/ Return(s) \/ Reverted(s)
    \/ WaitTimesOut(s)

SendNext ==
    \/ \E s \in Senders : SenderStep(s)
    \/ \E t \in mempool : Drop(t) \/ \E status \in 0..1 : Mine(t, status)

\* A caller's thread runs; wait_for_transaction_receipt has a timeout.  The
\* node owes nothing.
SendSpec ==
    /\ SendInit /\ [][SendNext]_sendVars
    /\ \A s \in Senders : WF_sendVars(SenderStep(s))

-----------------------------------------------------------------------------
Executed(s) == {r.try : r \in {q \in receipts : q.by = s /\ q.status = 1}}

(***************************************************************************)
(* A transaction that took effect is the one whose receipt the caller      *)
(* holds or is waiting for, or one of which it was never told the outcome: *)
(* a call repeats its effect only after a lost answer or a timed-out wait. *)
(***************************************************************************)
NoSurpriseExecution ==
    \A s \in Senders :
        Executed(s) \subseteq
            unknown[s] \cup (IF stage[s] \in {"wait", "returned"}
                             THEN {try[s]} ELSE {})

(***************************************************************************)
(* Because every attempt takes the nonce of the latest mined state, all    *)
(* senders of a key compete for one slot: while a transaction whose wait   *)
(* timed out is pending, its retry can only replace it, never join it.     *)
(***************************************************************************)
OnePending == \A t, u \in mempool : t = u

(***************************************************************************)
(* A receipt handed back is that of a transaction of this very call that   *)
(* was mined and did not revert.                                           *)
(***************************************************************************)
ReturnedMeansExecuted ==
    \A s \in Senders : stage[s] = "returned" => try[s] \in Executed(s)

(***************************************************************************)
(* Attempts and retry loops keep the promise of Delivery: a call returns   *)
(* with one effect it knows of and raises with none, besides those of      *)
(* attempts whose outcome send_function_on_contract_tx never learnt.       *)
(***************************************************************************)
Effects == [s \in Senders |-> Executed(s)]
Outcome == [s \in Senders |->
    CASE stage[s] = "returned" -> "returned" [] stage[s] = "failed" -> "raised"
      [] OTHER -> "none"]

Promise == INSTANCE Delivery WITH
    effects <- Effects, doubtful <- unknown, outcome <- Outcome

KeepsPromise == Promise!Spec

(***************************************************************************)
(* However the node behaves, every call returns or raises.                 *)
(***************************************************************************)
EveryCallEnds == \A s \in Senders : <>(stage[s] \in {"returned", "failed"})

=============================================================================
