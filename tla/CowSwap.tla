------------------------------- MODULE CowSwap -------------------------------
(***************************************************************************)
(* One swap through the CoW order book.  mode "waiting" is                 *)
(* swap_tokens_waiting with wait_order_complete (tools/cow/cow_order.py),  *)
(* whose attempts both place the order and wait for it.  mode "fallback"   *)
(* is SeerAgentMarket._swap_tokens_with_fallback (markets/seer/seer.py):   *)
(* the attempts only place the order, the wait follows them, and if CoW    *)
(* does not deliver the swap is made through a liquidity pool instead.     *)
(*                                                                         *)
(* Order book and solvers are the environment: an open order may be filled *)
(* until its validTo, and counts as expired afterwards, or its owner       *)
(* cancels it (cancel_order).  An order that is posted by a Safe is open   *)
(* only once its pre-signature is on chain.  The order book may learn of a *)
(* fill late, and anything may happen between its answer and the moment    *)
(* the caller acts on it.  Time is counted in polling periods.             *)
(***************************************************************************)
EXTENDS Naturals, Sequences, FiniteSets

CONSTANTS
    Modes,        \* modes to explore
    UsesSafe,     \* values of "a Safe is used" to explore
    Period,       \* timeout of the wait and lifetime of the order
    MaxAttempts,  \* stop_after_attempt of swap_tokens_waiting
    MaxTime,      \* bound: time at which a caller that does not sleep stops
    MaxErrors     \* bound: failed requests in all

ASSUME SwapAssumption ==
    /\ Modes \subseteq {"waiting", "fallback"}
    /\ UsesSafe \subseteq BOOLEAN
    /\ Period \in Nat /\ MaxAttempts \in Nat \ {0}
    /\ MaxTime \in Nat /\ MaxErrors \in Nat

VARIABLES
    mode, usesSafe,  \* the call being made
    now,
    orders,      \* order book: every order posted by this call
    pc,
    attempt,
    validTo,     \* valid_to computed by the running attempt
    waitFrom,    \* start_time of wait_for_order_completion
    view,        \* status in the order book's last answer
    wakeAt,
    pool,        \* the swap was made through the pool
    errors,
    abandoned,   \* history: orders left behind by a failure after the post
    unseen       \* history: orders given up for their silence after a fill

vars == <<mode, usesSafe, now, orders, pc, attempt, validTo, waitFrom, view,
          wakeAt, pool, errors, abandoned, unseen>>

Order == [validTo : Nat,
          state : {"unsigned", "open", "filled", "cancelled"}]
Ended == {"returned", "raised"}
Places == {"allowance", "post", "sign", "poll", "decide", "sleep", "trades",
           "fallback"} \cup Ended

Init ==
    /\ mode \in Modes /\ usesSafe \in UsesSafe
    /\ now = 0
    /\ orders = <<>>
    /\ pc = "allowance"
    /\ attempt = 1
    /\ validTo = 0 /\ waitFrom = 0 /\ wakeAt = 0
    /\ view = "none"
    /\ pool = FALSE
    /\ errors = 0
    /\ abandoned = {} /\ unseen = {}

-----------------------------------------------------------------------------
call == <<mode, usesSafe, now>>
Current == Len(orders)

\* swap_tokens_waiting gives up: its exception reaches the caller, or, for the
\* exceptions named in its except clause, _swap_tokens_with_fallback.  A
\* CoW error that says InsufficientBalance is raised again.
GiveUp(kind) ==
    \/ mode = "fallback" /\ kind \in {"cow", "timeout"} /\ pc' = "fallback"
    \/ /\ mode = "waiting" \/ kind \in {"cow", "other"}
       /\ pc' = "raised"

\* tenacity on swap_tokens_waiting: every exception but TimeoutError starts
\* the next attempt, which places a new order.
AttemptRaises(kind) ==
    \/ /\ kind # "timeout" /\ attempt < MaxAttempts
       /\ attempt' = attempt + 1
       /\ pc' = "allowance"
    \/ /\ kind = "timeout" \/ attempt = MaxAttempts
       /\ GiveUp(kind)
       /\ UNCHANGED attempt

\* Where an exception of the wait goes: it is inside an attempt only in mode
\* "waiting".
WaitRaises(kind) ==
    \/ mode = "waiting" /\ AttemptRaises(kind)
    \/ mode = "fallback" /\ GiveUp(kind) /\ UNCHANGED attempt

Failure == errors < MaxErrors /\ errors' = errors + 1

\* An exception leaves the current order in the book.
Abandon == abandoned' = abandoned \cup {Current}

\* The current order is given up for its silence.
GiveOrderUp ==
    unseen' = unseen \cup
                  {i \in {Current} : orders[i].state = "filled"}

\* Mutant: the order stays valid a little longer than the wait for it.
MutPrepare ==
    /\ pc = "allowance"
    /\ validTo' = now + Period + 2
    /\ pc' = "post"
    /\ UNCHANGED <<call, orders, attempt, waitFrom, view, wakeAt, pool, errors,
                   abandoned, unseen>>

\* handle_allowance approves the relayer if need be; valid_to is computed.
Prepare ==
    /\ pc = "allowance"
    /\ validTo' = now + Period
    /\ pc' = "post"
    /\ UNCHANGED <<call, orders, attempt, waitFrom, view, wakeAt, pool, errors,
                   abandoned, unseen>>

\* Reading or setting the allowance fails.
PrepareFails ==
    /\ pc = "allowance"
    /\ Failure
    /\ AttemptRaises("other")
    /\ UNCHANGED <<call, orders, validTo, waitFrom, view, wakeAt, pool,
                   abandoned, unseen>>

\* swap_tokens has no liquidity for a quote, or the order book refuses the
\* order.
Refused ==
    /\ pc = "post"
    /\ AttemptRaises("cow")
    /\ UNCHANGED <<call, orders, validTo, waitFrom, view, wakeAt, pool, errors,
                   abandoned, unseen>>

\* swap_tokens fails before its order reaches the order book.
NotPosted ==
    /\ pc = "post"
    /\ Failure
    /\ AttemptRaises("other")
    /\ UNCHANGED <<call, orders, validTo, waitFrom, view, wakeAt, pool,
                   abandoned, unseen>>

NewOrder == [validTo |-> validTo, state |-> IF usesSafe THEN "unsigned"
                                                        ELSE "open"]

StartWait == pc' = "poll" /\ waitFrom' = now

\* swap_tokens posts the order and gets its uid.
Post ==
    /\ pc = "post"
    /\ orders' = Append(orders, NewOrder)
    /\ \/ usesSafe /\ pc' = "sign" /\ UNCHANGED waitFrom
       \/ ~usesSafe /\ StartWait
    /\ UNCHANGED <<call, attempt, validTo, view, wakeAt, pool, errors,
                   abandoned, unseen>>

\* The order book accepted the order and its answer was lost.
PostAnswerLost ==
    /\ pc = "post"
    /\ Failure
    /\ orders' = Append(orders, NewOrder)
    /\ abandoned' = abandoned \cup {Len(orders) + 1}
    /\ AttemptRaises("other")
    /\ UNCHANGED <<call, validTo, waitFrom, view, wakeAt, pool,
                   unseen>>

\* The Safe's pre-signature opens the order, unless it was cancelled.
Signed ==
    IF orders[Current].state = "unsigned"
    THEN orders' = [orders EXCEPT ![Current].state = "open"]
    ELSE UNCHANGED orders

\* sign_safe_cow_swap puts the pre-signature on chain.
Sign ==
    /\ pc = "sign"
    /\ Signed
    /\ StartWait
    /\ UNCHANGED <<call, attempt, validTo, view, wakeAt, pool, errors,
                   abandoned, unseen>>

\* Its attempts fail, whether or not a transaction of theirs was mined.
SignFails ==
    /\ pc = "sign"
    /\ Failure
    /\ Signed \/ UNCHANGED orders
    /\ Abandon
    /\ AttemptRaises("other")
    /\ UNCHANGED <<call, validTo, waitFrom, view, wakeAt, pool,
                   unseen>>

-----------------------------------------------------------------------------
\* What the order book may answer.  It may not know of a fill yet, and its
\* clock is not the caller's: it may still call an order open that has
\* expired by the caller's.
Unfilled(o) == IF now > o.validTo THEN {"expired", "open"} ELSE {"open"}

Status(o) ==
    CASE o.state = "filled" -> {"filled"} \cup Unfilled(o)
      [] o.state = "cancelled" -> {"cancelled"}
      [] OTHER -> Unfilled(o)

\* GET order.url.
Poll ==
    /\ pc = "poll"
    /\ view' \in Status(orders[Current])
    /\ pc' = "decide"
    /\ UNCHANGED <<call, orders, attempt, validTo, waitFrom, wakeAt, pool,
                   errors, abandoned, unseen>>

\* The request or the parsing of its answer fails.
PollFails ==
    /\ pc = "poll"
    /\ Failure
    /\ Abandon
    /\ WaitRaises("other")
    /\ UNCHANGED <<call, orders, validTo, waitFrom, view, wakeAt, pool,
                   unseen>>

\* The order is fulfilled: return it, or look up its trade.
SeesFilled ==
    /\ pc = "decide" /\ view = "filled"
    /\ view' = "none"
    /\ pc' = IF mode = "waiting" THEN "returned" ELSE "trades"
    /\ UNCHANGED <<call, orders, attempt, validTo, waitFrom, wakeAt, pool,
                   errors, abandoned, unseen>>

\* Mutant: an expired order is polled on.
MutSeesExpired ==
    /\ pc = "decide" /\ view \in {"cancelled", "expired"}
    /\ view' = "none"
    /\ pc' = "poll"
    /\ UNCHANGED <<call, orders, attempt, validTo, waitFrom, wakeAt, pool,
                   errors, abandoned, unseen>>

\* OrderStatusError.
SeesExpired ==
    /\ pc = "decide" /\ view \in {"cancelled", "expired"}
    /\ view' = "none"
    /\ GiveOrderUp
    /\ WaitRaises("cow")
    /\ UNCHANGED <<call, orders, validTo, waitFrom, wakeAt, pool, errors,
                   abandoned>>

\* Mutant: the timeout is checked with >=.
MutSeesTimeout ==
    /\ pc = "decide" /\ view = "open"
    /\ now - waitFrom >= Period
    /\ view' = "none"
    /\ GiveOrderUp
    /\ WaitRaises("timeout")
    /\ UNCHANGED <<call, orders, validTo, waitFrom, wakeAt, pool, errors,
                   abandoned>>

\* TimeoutError: the clock is looked at after the answer.
SeesTimeout ==
    /\ pc = "decide" /\ view = "open"
    /\ now - waitFrom > Period
    /\ view' = "none"
    /\ GiveOrderUp
    /\ WaitRaises("timeout")
    /\ UNCHANGED <<call, orders, validTo, waitFrom, wakeAt, pool, errors,
                   abandoned>>

SleepOn ==
    /\ pc = "decide" /\ view = "open"
    /\ now - waitFrom <= Period
    /\ view' = "none"
    /\ wakeAt' = now + 1
    /\ pc' = "sleep"
    /\ UNCHANGED <<call, orders, attempt, validTo, waitFrom, pool, errors,
                   abandoned, unseen>>

Wake ==
    /\ pc = "sleep" /\ now >= wakeAt
    /\ pc' = "poll"
    /\ UNCHANGED <<call, orders, attempt, validTo, waitFrom, view, wakeAt,
                   pool, errors, abandoned, unseen>>

\* get_trades_by_order_uid finds the one trade, or the subgraph has none yet
\* and the ValueError reaches the caller.
LookUpTrade ==
    /\ pc = "trades"
    /\ pc' \in Ended
    /\ UNCHANGED <<call, orders, attempt, validTo, waitFrom, view, wakeAt,
                   pool, errors, abandoned, unseen>>

\* No liquidity in the pool: the CoW exception is raised again.
NoPool ==
    /\ pc = "fallback"
    /\ pc' = "raised"
    /\ UNCHANGED <<call, orders, attempt, validTo, waitFrom, view, wakeAt,
                   pool, errors, abandoned, unseen>>

\* SwapPoolHandler.buy_or_sell_outcome_token.
SwapInPool ==
    /\ pc = "fallback"
    /\ pool' = TRUE
    /\ pc' = "returned"
    /\ UNCHANGED <<call, orders, attempt, validTo, waitFrom, view, wakeAt,
                   errors, abandoned, unseen>>

-----------------------------------------------------------------------------
\* A solver settles an order on chain, at the latest at its validTo.
Fill(i) ==
    /\ orders[i].state = "open"
    /\ now <= orders[i].validTo
    /\ orders' = [orders EXCEPT ![i].state = "filled"]
    /\ UNCHANGED <<call, pc, attempt, validTo, waitFrom, view, wakeAt, pool,
                   errors, abandoned, unseen>>

\* The owner cancels an order with a tool of its own; no solver takes it then.
Cancel(i) ==
    /\ orders[i].state \in {"unsigned", "open"}
    /\ orders' = [orders EXCEPT ![i].state = "cancelled"]
    /\ UNCHANGED <<call, pc, attempt, validTo, waitFrom, view, wakeAt, pool,
                   errors, abandoned, unseen>>

Tick ==
    /\ now < MaxTime \/ (pc = "sleep" /\ now < wakeAt)
    /\ pc \notin Ended
    /\ now' = now + 1
    /\ UNCHANGED <<mode, usesSafe, orders, pc, attempt, validTo, waitFrom,
                   view, wakeAt, pool, errors, abandoned, unseen>>

Caller ==
    \/ Prepare \/ PrepareFails \/ Refused \/ NotPosted \/ Post \/ PostAnswerLost
    \/ Sign \/ SignFails
    \/ Poll \/ PollFails \/ SeesFilled \/ SeesExpired \/ SeesTimeout
    \/ SleepOn \/ Wake
    \/ LookUpTrade \/ NoPool \/ SwapInPool

Next == Caller \/ Tick \/ \E i \in DOMAIN orders : Fill(i) \/ Cancel(i)

\* The caller's thread runs and clocks advance; no order need be filled.
Spec == Init /\ [][Next]_vars /\ WF_vars(Caller) /\ WF_vars(Tick)

-----------------------------------------------------------------------------
Filled == {i \in DOMAIN orders : orders[i].state = "filled"}

(***************************************************************************)
(* The amount is swapped once, and once more at most for every request     *)
(* that failed and for every order that was filled before the caller gave  *)
(* it up without knowing.  What was unfilled when it was given up is never *)
(* filled while a new attempt or the pool takes its place.                 *)
(***************************************************************************)
SwapsAccountedFor ==
    Cardinality(Filled) + (IF pool THEN 1 ELSE 0)
        <= 1 + errors + Cardinality(unseen)

(***************************************************************************)
(* The pool is used only when no order of this call that was given up for  *)
(* its silence can still be filled.                                        *)
(***************************************************************************)
FallbackAfterExpiry ==
    pc = "fallback" =>
        \A i \in DOMAIN orders \ abandoned :
            \/ orders[i].state \in {"filled", "cancelled"}
            \/ now > orders[i].validTo

(***************************************************************************)
(* The call ends although nobody ever fills its orders.                    *)
(***************************************************************************)
SwapEnds == <>(pc \in Ended)

=============================================================================
