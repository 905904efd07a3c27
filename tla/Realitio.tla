------------------------------- MODULE Realitio -------------------------------
(***************************************************************************)
(* Resolving Omen markets (markets/omen/omen_resolving.py): an operator    *)
(* runs finalize_markets, resolve_markets and                              *)
(* claim_bonds_on_realitio_questions again and again, each over a list of  *)
(* markets; an exception ends the run that raised it.                      *)
(*                                                                         *)
(* Realitio, the conditional tokens and the subgraph that lists answers    *)
(* are the environment, used by other answerers too: a bond has to double  *)
(* the one before it, an answer is final after a time without another      *)
(* one, and everyone may prepare, resolve and claim.                       *)
(*                                                                         *)
(* A history hash is named by the number of answers it covers; 0 is        *)
(* ZERO_BYTES.  An answer is tied when it is in the block of the one       *)
(* before it: then both have one timestamp.                                *)
(***************************************************************************)
EXTENDS Integers, Sequences, FiniteSets, SequencesExt

CONSTANTS
    Listing,       \* the markets, in the order in which they are listed
    Settings,      \* values of setting to explore
    Bond,          \* realitio_bond
    Reserve,       \* MINIMUM_NATIVE_TOKEN_IN_EOA_FOR_FEES
    Native,        \* xDai of the EOA at first
    SafeNative,    \* xDai of the Safe at first
    Wrapped,       \* wxDai of the betting address at first
    Contested,     \* bound: markets others do something about
    MaxAnswers,    \* bound: answers to one question
    MaxErrors      \* bound: failed requests in all

Markets == Range(Listing)

ASSUME RealitioAssumption ==
    /\ Listing \in Seq(Markets) /\ IsInjective(Listing)
    /\ Contested \subseteq Markets
    /\ Settings \subseteq
           [usesSafe : BOOLEAN, autoWithdraw : BOOLEAN, skipFailed : BOOLEAN,
            odd : SUBSET Markets, unusable : SUBSET Markets]
    /\ Bond \in Nat \ {0}
    /\ {Reserve, Native, SafeNative, Wrapped} \subseteq Nat
    /\ MaxAnswers \in Nat /\ MaxErrors \in Nat

VARIABLES
    history,     \* Realitio: the answers to each question, oldest first
    final,       \* questions whose answer is final
    claimed,     \* questions whose history hash is zero
    balance,     \* Realitio: shares of bonds owed to the operator
    condition,   \* conditional tokens
    indexed,     \* answers to each question that the subgraph knows
    old,         \* the markets closed more than wait_n_days before
    setting,     \* how the operator runs, the markets whose question names
                 \* another number of outcomes (odd), and those for which the
                 \* search finds a resolution that is none of their outcomes
    eoa, safe,   \* xDai
    eoaWrapped, safeWrapped,  \* wxDai; without a Safe only the EOA's
    job,         \* function that is running
    pc,
    todo,        \* rest of its list, with the market at work
    listed,      \* the list it will return
    view,        \* responses of the subgraph, sorted, by their positions
    errors,
    stranded     \* history: a share may have been left on Realitio

contracts == <<history, final, claimed, condition>>
wallet == <<eoa, safe, eoaWrapped, safeWrapped>>
work == <<job, todo, listed>>
outside == <<contracts, balance, old, wallet, indexed, setting, stranded>>
run == <<setting, wallet, work, pc, view, errors>>
vars == <<contracts, balance, old, wallet, indexed, setting, work, pc, view,
          errors, stranded>>

Answer == [by : {"operator", "other"}, answer : {"outcome", "invalid"},
           bond : Nat, tied : BOOLEAN]
Places == {"idle", "topup", "unwrap", "answer", "check", "prepare", "report",
           "fetch", "claim", "withdraw"}

Init ==
    /\ history = [m \in Markets |-> <<>>]
    /\ final = {} /\ claimed = {}
    /\ balance = 0
    /\ condition = [m \in Markets |-> "none"]
    /\ indexed = [m \in Markets |-> 0]
    /\ old = FALSE
    /\ setting \in Settings
    /\ eoa = Native /\ safe = IF setting.usesSafe THEN SafeNative ELSE 0
    /\ eoaWrapped = IF setting.usesSafe THEN 0 ELSE Wrapped
    /\ safeWrapped = IF setting.usesSafe THEN Wrapped ELSE 0
    /\ job = "none" /\ pc = "idle" /\ todo = {} /\ listed = {}
    /\ view = <<>>
    /\ errors = 0
    /\ stranded = FALSE

-----------------------------------------------------------------------------
\* Lists and exceptions.  The market at work is the first one of the list.
Position(m) == CHOOSE i \in DOMAIN Listing : Listing[i] = m
Current == CHOOSE m \in todo : \A n \in todo : Position(m) <= Position(n)

Start(function, place, list) ==
    /\ pc = "idle"
    /\ list # {}
    /\ job' = function /\ pc' = place
    /\ todo' = list
    /\ listed' = {}

\* The market at work is done and the list of results becomes result.
Advance(place, result) ==
    /\ todo' = todo \ {Current}
    /\ pc' = IF todo' = {} THEN "idle" ELSE place
    /\ listed' = result
    /\ UNCHANGED job

\* The exception leaves the function; its list is lost.
Abort ==
    /\ job' = "none" /\ pc' = "idle" /\ todo' = {} /\ listed' = {}

Failure == errors < MaxErrors /\ errors' = errors + 1

\* A transaction that took effect and the step that follows it, unless its
\* answer was lost: then the exception ends the run.
Then(next) ==
    \/ next /\ UNCHANGED errors
    \/ Failure /\ Abort

\* A request or a transaction of finalize_markets or resolve_markets fails.
Fails ==
    /\ pc \in {"topup", "unwrap", "answer", "check", "prepare", "report"}
    /\ Failure /\ Abort
    /\ UNCHANGED <<outside, view>>

-----------------------------------------------------------------------------
\* finalize_markets, over markets the subgraph shows without an answer.
StartFinalize ==
    /\ Start("finalize", "topup", {m \in Markets : indexed[m] = 0})
    /\ UNCHANGED <<outside, view, errors>>

Required == Bond + Reserve
Need == Required - eoa

\* send_keeping_token_to_eoa_xdai: the EOA has enough,
EnoughNative ==
    /\ pc = "topup" /\ eoa >= Required
    /\ pc' = "answer"
    /\ UNCHANGED <<outside, work, view, errors>>

\* or it unwraps what it needs (after "unwrap": what came from the Safe),
Unwrap ==
    /\ \/ pc = "topup" /\ eoa < Required /\ eoaWrapped >= Need
       \/ pc = "unwrap"
    /\ eoa' = Required
    /\ eoaWrapped' = eoaWrapped - Need
    /\ Then(pc' = "answer" /\ UNCHANGED work)
    /\ UNCHANGED <<contracts, balance, old, safe, safeWrapped, indexed,
                   setting, view, stranded>>

\* or the Safe sends it first,
FromSafe ==
    /\ pc = "topup" /\ eoa < Required /\ eoaWrapped < Need
    /\ safeWrapped >= Need
    /\ eoaWrapped' = eoaWrapped + Need
    /\ safeWrapped' = safeWrapped - Need
    /\ Then(pc' = "unwrap" /\ UNCHANGED work)
    /\ UNCHANGED <<contracts, balance, old, eoa, safe, indexed, setting,
                   view, stranded>>

\* or OutOfFundsError.
OutOfFunds ==
    /\ pc = "topup" /\ eoa < Required
    /\ eoaWrapped < Need /\ safeWrapped < Need
    /\ Abort
    /\ UNCHANGED <<outside, view, errors>>

\* Mutant: a market without a resolution is never called invalid.
MutSkip ==
    /\ pc = "answer" /\ Current \notin setting.unusable
    /\ Advance("topup", listed)
    /\ UNCHANGED <<outside, view, errors>>

\* The resolution names no outcome of the market, whenever it is looked for:
\* the run ends there, an old market's as well.
NoSuchOutcome ==
    /\ pc = "answer" /\ Current \in setting.unusable
    /\ Abort
    /\ UNCHANGED <<outside, view, errors>>

Answerable == pc = "answer" /\ Current \notin setting.unusable

\* No resolution yet, and it is not late enough to call the market invalid.
Skip ==
    /\ Answerable /\ ~old
    /\ Advance("topup", listed)
    /\ UNCHANGED <<outside, view, errors>>

\* Who pays the bond: the value of a transaction of the Safe is the Safe's.
Payer == IF setting.usesSafe THEN safe ELSE eoa

LastBond(m) == IF history[m] = <<>> THEN 0 ELSE Last(history[m]).bond

\* Mutant: the bond is raised to what the last one requires.
MutOffer(m) == IF 2 * LastBond(m) > Bond THEN 2 * LastBond(m) ELSE Bond

\* The bond sent with an answer.
Offer(m) == Bond

\* submitAnswer; max_previous is 0, so whatever answer is there is overruled
\* if the bond suffices.
Accepts(m, bond) == m \notin final /\ bond > 0 /\ bond >= 2 * LastBond(m)

AddAnswer(m, by, answer, bond) ==
    \E tied \in BOOLEAN :
        /\ tied => history[m] # <<>>
        /\ history' = [history EXCEPT ![m] =
               Append(@, [by |-> by, answer |-> answer, bond |-> bond,
                          tied |-> tied])]

\* An invalid answer is not listed as finalized, an outcome is.
Submit(answer) ==
    /\ Answerable
    /\ Accepts(Current, Offer(Current)) /\ Payer >= Offer(Current)
    /\ AddAnswer(Current, "operator", answer, Offer(Current))
    /\ IF setting.usesSafe THEN safe' = safe - Offer(Current) /\ UNCHANGED eoa
                   ELSE eoa' = eoa - Offer(Current) /\ UNCHANGED safe
    /\ Then(Advance("topup", IF answer = "outcome" THEN listed \cup {Current}
                                                   ELSE listed))
    /\ UNCHANGED <<final, claimed, condition, balance, old, eoaWrapped,
                   safeWrapped, indexed, setting, view, stranded>>

\* The resolution is invalid, or there is none and the market is old: a late
\* market is answered whatever the resolution, so it need not be told apart.
SubmitInvalid == Submit("invalid")

SubmitOutcome == Submit("outcome")

\* Somebody else's answer is final or has too high a bond: the transaction
\* reverts and the run ends.
SubmitReverts ==
    /\ Answerable
    /\ ~(Accepts(Current, Offer(Current)) /\ Payer >= Offer(Current))
    /\ Abort
    /\ UNCHANGED <<outside, view, errors>>

-----------------------------------------------------------------------------
\* resolve_markets, over markets whose answer is final; the subgraph may still
\* list some that are resolved.
StartResolve ==
    /\ \E resolved \in SUBSET {m \in final : condition[m] = "resolved"} :
           Start("resolve", "check",
                 {m \in final : condition[m] # "resolved"} \cup resolved)
    /\ UNCHANGED <<outside, view, errors>>

\* Does the condition exist?
Check ==
    /\ pc = "check"
    /\ pc' = IF condition[Current] = "none" THEN "prepare" ELSE "report"
    /\ UNCHANGED <<outside, work, view, errors>>

Prepare ==
    /\ pc = "prepare" /\ condition[Current] = "none"
    /\ condition' = [condition EXCEPT ![Current] = "prepared"]
    /\ Then(pc' = "report" /\ UNCHANGED work)
    /\ UNCHANGED <<history, final, claimed, balance, old, wallet, indexed,
                   setting, view, stranded>>

\* Somebody prepared it since: the transaction reverts outside the try.
PrepareReverts ==
    /\ pc = "prepare" /\ condition[Current] # "none"
    /\ Abort
    /\ UNCHANGED <<outside, view, errors>>

\* OmenOracleContract.resolve reports the payouts.
Report ==
    /\ pc = "report"
    /\ Current \notin setting.odd /\ condition[Current] = "prepared"
    /\ condition' = [condition EXCEPT ![Current] = "resolved"]
    /\ Then(Advance("check", listed \cup {Current}))
    /\ UNCHANGED <<history, final, claimed, balance, old, wallet, indexed,
                   setting, view, stranded>>

\* "payout denominator already set", or "condition not prepared or found" if
\* the oracle looks for the condition with the question's number of outcomes:
\* both are swallowed and the market is listed as resolved.
ReportSwallowed ==
    /\ pc = "report"
    /\ Current \in setting.odd \/ condition[Current] = "resolved"
    /\ Advance("check", listed \cup {Current})
    /\ UNCHANGED <<outside, view, errors>>

-----------------------------------------------------------------------------
\* The operator gave one of the first n answers.
Ours(m, n) == \E i \in 1..n : history[m][i].by = "operator"

\* claim_bonds_on_realitio_questions, over questions the subgraph shows with an
\* answer of the operator, final and not claimed.
StartClaim ==
    /\ Start("claim", "fetch",
             {m \in final \ claimed : Ours(m, indexed[m])})
    /\ UNCHANGED <<outside, view, errors>>

\* An exception while claiming: the next question, or the end.
ClaimRaises ==
    \/ setting.skipFailed /\ Advance("fetch", listed)
    \/ ~setting.skipFailed /\ Abort

\* What sorting the first n answers by timestamp may give: tied ones keep
\* the order in which the subgraph returned them.
SameTime(m, i, j) == \A k \in (i + 1)..j : history[m][k].tied
Sorted(m, n) ==
    {s \in SetToSeqs(1..n) :
        \A i, j \in 1..n : i < j /\ s[j] < s[i] => SameTime(m, s[j], s[i])}

\* get_responses, sorted.
Fetch ==
    /\ pc = "fetch" /\ Current \notin claimed
    /\ view' \in Sorted(Current, indexed[Current])
    /\ pc' = "claim"
    /\ UNCHANGED <<outside, work, errors>>

\* Already claimed (the subgraph shows that without a lag here: one that lags
\* looks like somebody who claims after the look-up), or the request fails.
FetchRaises ==
    /\ pc = "fetch"
    /\ \/ Current \in claimed /\ UNCHANGED errors
       \/ Failure
    /\ ClaimRaises
    /\ UNCHANGED <<outside, view>>

\* Mutant: each entry comes with its own hash.
MutClaimArguments ==
    LET last_to_first == Reverse(view)
    IN  [i \in 1..Len(view) |->
            [response |-> last_to_first[i], hash |-> last_to_first[i]]]

\* The lists for claimWinnings: each entry with the hash of the history
\* before it, which is empty for the oldest.
ClaimArguments ==
    LET last_to_first == Reverse(view)
    IN  [i \in 1..Len(view) |->
            [response |-> last_to_first[i],
             hash     |-> IF i = Len(view) THEN 0 ELSE last_to_first[i + 1]]]

\* claimWinnings hashes every entry onto the hash given for it and compares
\* the result with the hash it has come to, first the question's.
Verified(m, arguments) ==
    \A i \in DOMAIN arguments :
        /\ arguments[i].response = arguments[i].hash + 1
        /\ arguments[i].response = IF i = 1 THEN Len(history[m])
                                   ELSE arguments[i - 1].hash

ClaimAccepted(m) ==
    /\ m \in final \ claimed
    /\ Len(view) > 0 /\ Verified(m, ClaimArguments)

\* The operator gets a share if it gave the final answer, first or last.
Share(m) ==
    LET answers == ToSet(history[m])
        right == Last(history[m]).answer
        rightly == {a \in answers : a.by = "operator" /\ a.answer = right}
    IN  IF rightly # {} THEN 1 ELSE 0

Claim ==
    /\ pc = "claim" /\ ClaimAccepted(Current)
    /\ claimed' = claimed \cup {Current}
    /\ balance' = balance + Share(Current)
    /\ view' = <<>>
    /\ \/ pc' = "withdraw" /\ UNCHANGED <<work, errors, stranded>>
       \/ Failure /\ ClaimRaises /\ stranded' = TRUE
    /\ UNCHANGED <<history, final, condition, old, wallet, indexed, setting>>

\* The transaction reverts or fails.
ClaimFails ==
    /\ pc = "claim"
    /\ \/ ~ClaimAccepted(Current) /\ UNCHANGED errors
       \/ Failure
    /\ view' = <<>>
    /\ ClaimRaises
    /\ UNCHANGED outside

\* Mutant: a balance of one is not withdrawn.
MutWithdraw ==
    /\ pc = "withdraw"
    /\ balance' = IF setting.autoWithdraw /\ balance > 1 THEN 0 ELSE balance
    /\ stranded' = (stranded /\ balance' > 0)
    /\ Advance("fetch", listed \cup {Current})
    /\ UNCHANGED <<contracts, old, wallet, indexed, setting, view, errors>>

\* Everything that is on Realitio is withdrawn, if that is wanted.
Withdraw ==
    /\ pc = "withdraw"
    /\ balance' = IF setting.autoWithdraw THEN 0 ELSE balance
    /\ stranded' = (stranded /\ balance' > 0)
    /\ Advance("fetch", listed \cup {Current})
    /\ UNCHANGED <<contracts, old, wallet, indexed, setting, view, errors>>

\* balanceOf or withdraw fails: the question is claimed, its share stays.
WithdrawFails ==
    /\ pc = "withdraw" /\ Failure
    /\ ClaimRaises
    /\ stranded' = TRUE
    /\ UNCHANGED <<contracts, balance, old, wallet, indexed, setting, view>>

-----------------------------------------------------------------------------
\* The environment: others, time, the subgraph.
OtherAnswers(m) ==
    /\ Len(history[m]) < MaxAnswers
    /\ LET bond == IF history[m] = <<>> THEN 1 ELSE 2 * LastBond(m)
       IN  /\ Accepts(m, bond)
           /\ AddAnswer(m, "other", "outcome", bond)
    /\ UNCHANGED <<run, final, claimed, condition, balance, old, indexed,
                   stranded>>

OtherPrepares(m) ==
    /\ condition[m] = "none"
    /\ condition' = [condition EXCEPT ![m] = "prepared"]
    /\ UNCHANGED <<run, history, final, claimed, balance, old, indexed,
                   stranded>>

OtherReports(m) ==
    /\ m \in final \ setting.odd /\ condition[m] = "prepared"
    /\ condition' = [condition EXCEPT ![m] = "resolved"]
    /\ UNCHANGED <<run, history, final, claimed, balance, old, indexed,
                   stranded>>

\* Claiming for one pays all.
OtherClaims(m) ==
    /\ m \in final \ claimed
    /\ claimed' = claimed \cup {m}
    /\ balance' = balance + Share(m)
    /\ stranded' = (stranded \/ Share(m) > 0)
    /\ UNCHANGED <<run, history, final, condition, old, indexed>>

\* finalization_timeout passes without another answer.
TimeUp(m) ==
    /\ history[m] # <<>> /\ m \notin final
    /\ final' = final \cup {m}
    /\ UNCHANGED <<run, history, claimed, condition, balance, old, indexed,
                   stranded>>

\* The wait_n_days_before_invalid are over.
Age ==
    /\ ~old
    /\ old' = TRUE
    /\ UNCHANGED <<run, contracts, balance, indexed, stranded>>

Index(m) ==
    /\ indexed[m] < Len(history[m])
    /\ indexed' = [indexed EXCEPT ![m] = @ + 1]
    /\ UNCHANGED <<run, contracts, balance, old, stranded>>

-----------------------------------------------------------------------------
Finalizes ==
    \/ EnoughNative \/ Unwrap \/ FromSafe \/ OutOfFunds
    \/ NoSuchOutcome \/ Skip \/ SubmitInvalid \/ SubmitOutcome \/ SubmitReverts
Resolves == Check \/ Prepare \/ PrepareReverts \/ Report \/ ReportSwallowed
Claims ==
    Fetch \/ FetchRaises \/ Claim \/ ClaimFails \/ Withdraw \/ WithdrawFails
Starts == StartFinalize \/ StartResolve \/ StartClaim
Operator == Finalizes \/ Resolves \/ Claims \/ Fails
Others(m) ==
    OtherAnswers(m) \/ OtherPrepares(m) \/ OtherReports(m) \/ OtherClaims(m)
Passing == Age \/ \E m \in Markets : TimeUp(m) \/ Index(m)

Next == Starts \/ Operator \/ Passing \/ \E m \in Contested : Others(m)

\* The operator is started again and again and its runs go on; time passes and
\* the subgraph catches up.  Nobody else has to do anything.
Spec ==
    /\ Init /\ [][Next]_vars
    /\ WF_vars(Operator) /\ WF_vars(Passing)
    /\ SF_vars(StartFinalize) /\ SF_vars(StartResolve)

-----------------------------------------------------------------------------
(***************************************************************************)
(* However often finalize_markets is run, and whoever answers in between,  *)
(* the operator has at most one bond at stake on a question.               *)
(***************************************************************************)
OneBondEach ==
    \A m \in Markets :
        \A i, j \in DOMAIN history[m] :
            history[m][i].by = "operator" /\ history[m][j].by = "operator"
            => i = j

(***************************************************************************)
(* claimWinnings is refused only if the subgraph did not know all answers  *)
(* of the question, two of them share a timestamp, or somebody else        *)
(* claimed first.                                                          *)
(***************************************************************************)
ClaimsInOrder ==
    pc = "claim" =>
        \/ ClaimAccepted(Current)
        \/ Len(view) < Len(history[Current])
        \/ \E i \in DOMAIN history[Current] : history[Current][i].tied
        \/ Current \in claimed

(***************************************************************************)
(* With auto_withdraw nothing stays on Realitio after a run, unless a call *)
(* failed after its claim was mined or somebody else claimed.              *)
(***************************************************************************)
NothingLeftBehind ==
    setting.autoWithdraw /\ pc = "idle" => balance = 0 \/ stranded

(***************************************************************************)
(* A market is resolved in the end, though nobody else does anything, no   *)
(* resolution is found for it and runs fail half-way: unless an unusable   *)
(* resolution, of itself or of a market listed before it, ends every run   *)
(* there and nobody else ever answers that market's question.              *)
(***************************************************************************)
Blocks(n, m) == n \in setting.unusable /\ Position(n) <= Position(m)

AllResolved ==
    \A m \in Markets :
        \/ <>(condition[m] = "resolved")
        \/ m \in setting.odd
        \/ \E n \in Markets : []<>(Blocks(n, m) /\ history[n] = <<>>)

=============================================================================
