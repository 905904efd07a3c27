# Verification of prediction-market-agent-tooling

TLA+ models of the parts of prediction-market-agent-tooling whose behaviour
depends on order: who runs between two steps, what is known when a step is
taken, what a failure leaves behind. Each module is translated from the Python
source; `PROJECT.json` maps each definition to the lines it stands for. The
paths below are relative to `prediction_market_agent_tooling/`.

Check a model with `tlc -config X.cfg M`, a proof with `tlapm M.tla`.

## The system

The package is a library for agents that trade on prediction markets (Omen,
Seer, Polymarket, Manifold, Metaculus). Nothing in it is a server: agents, jobs
and scripts are separate processes. They meet at the outside: the chain (one
account used by several of them), the subgraphs that index it, the CoW order
book, the Polymarket API, and one SQL database with caches and rate limits.
Within a process threads and asyncio tasks share caches and singletons.

| Component | State | Operations | Interacts through | Hard behaviour | What makes it correct |
|---|---|---|---|---|---|
| Database rate limiter (`tools/cow/semaphore.py`) | one row per rate id, an asyncio semaphore | `enforce` | rows locked by `SELECT FOR UPDATE` | processes, threads and tasks race; two engines; lost commits; clock skew | calls are an interval apart; every caller gets an answer |
| Transaction sending (`tools/web3_utils.py`, `tools/contract.py`) | the node's nonce, mempool and receipts | `send_function_on_contract_tx` and its Safe version | the RPC node | receipts that time out, lost answers, senders that share a nonce, nested retries | no unexplained second execution; what is returned was executed |
| CoW swaps and Seer fallback (`tools/cow/cow_order.py`, `markets/seer/seer.py`) | the order book | place, pre-sign, wait, fall back to a pool | order book, Safe | a timeout against a fill, retries that post again | the amount is swapped once, but for orders given up unseen |
| Copy trading (`markets/polymarket/copy_trading.py`) | state in memory and in a file | poll, replicate, save, restart | data API, order placement | crashes, late listings, shifting pages | each trade is copied once and none is missed, with exactly known exceptions |
| Table creation (`tools/db/db_manager.py`) | singleton, locks, marks | `ensure_tables_sync/async`, `create_tables` | database, threads and tasks | a singleton without a lock, two separate locks | tables exist before use and are created once |
| Database cache (`tools/caches/db_cache.py`) | rows with a validity | look-up, save (awaited or not), `clear_cache` | database | saves that come later, clearing meanwhile, truncated timestamps | a valid row is not lost |
| Trading agent (`deploy/agent.py`, `deploy/betting_strategy.py`) | nothing across runs but the chain | `run`: check, verify, answer, build, execute, store | subgraphs, chain, language model | stale readings, a failure between two trades, closing markets | no second bet within the interval; the balance covers the bet; trades are recorded |
| Realitio resolving (`markets/omen/omen_resolving.py`) | bonds and answers on chain | `finalize_markets`, `resolve_markets`, `claim_bonds_on_realitio_questions` | chain, subgraph | other answerers, partial runs, answers in one block | one bond per question; histories are accepted; nothing is left on Realitio; markets are resolved in the end |
| Betting strategies (`deploy/betting_strategy.py`, `tools/betting_strategies/`) | none: a snapshot of market and position | `calculate_trades`, the cap, the rebalancing | the pool at the time of the trades | trades computed from a snapshot and placed one by one; a run builds on the last one's position | the reserve covers the run; no purchase is a sure loss; the cap is the best; a repeated run does not undo the last one |
| Omen operations (`markets/omen/omen.py`, `omen_contracts.py`, `omen_subgraph_handler.py`, `data_models.py`) | chain | create, fund, buy, sell, liquidate, remove, redeem, list, report profits | contracts, subgraphs | several transactions, each may fail after it took effect | deposits suffice; what came out is withdrawn; every prefix can be resumed; reported profits were paid |
| Seer operations (`markets/seer/`) | chain, CoW orders, a cache of liquidity answers | list, bet, sell, create, redeem | order book, pools, contracts | a failed or refused order, stale liquidity, restarts, another process | deposits suffice, also after a split; liquidity was there lately; winnings are collected |
| Polymarket operations (`markets/polymarket/`) | wallet, allowance, positions, the feed of trades | bet, sell, liquidate, sell all, redeem, report profits | CLOB, data API, chain | fill-or-kill orders verified on chain, pages that shift | no market is bought twice a day knowingly; profits are as reported; winnings are collected |
| Deposits, withdrawals, rates (`tools/tokens/`, `tools/contract.py`) | balances, cached rates | wrap, unwrap, deposit into a vault, swap | contracts, CoW | assets and shares rounded twice, a swap in the middle | enough collateral afterwards |
| In-memory caches, singletons (`tools/caches/inmemory_cache.py`, `tools/singleton.py`, `tools/transaction_cache.py`) | dictionaries | look up, insert | threads | look-up and insertion are two steps | at most duplicate work |
| In-process rate limiter (`tools/simple_rate_limiter.py`) | time of the last call, a lock | acquire | threads or tasks | the lock is held while sleeping | spacing |

The remaining parts (Manifold and Metaculus clients, question tools, Langfuse,
benchmark, Google Cloud deployment, Streamlit, configuration, scripts) keep no
state that two actors could disturb; `PROJECT.json` lists each with the reason
why it is left out.

## Modules

`Pacing` is what the row of a rate limiter promises: it moves by at least the
interval, and a call is allowed only with such a move. `RateLimiter` models
`RateLimiter.enforce` and the semaphore of `AsyncRateLimiter`, and implements
`Pacing`. `RowLocks` tells Postgres from SQLite. An iteration of the retry loop
is cut at each statement: `Select` (blocks on the row lock), `FirstUse` and
`CommitInsert`, `Allow` and `CommitUpdate`, `Sleep` and `Wake`, and `DbError`
with a commit that was applied or lost. `MCRateLimiter` has the callers.

`TxSender` models one call of `send_function_on_contract_tx` per sender. Each
attempt builds, reads the nonce, sends and waits; `AttemptFails` is tenacity's
retry with its inner and outer counters. The node is the environment: `Mine`,
`Drop`, replacement by nonce, rejection, a lost answer. `Delivery` is what this
promises to the callers: a return stands for one effect, an exception for none,
besides effects of attempts whose outcome was never learnt (`GivesUp`), and these
may come at any time.
`MCTxSender` has a plain sender with a second retry loop (as
`omen_buy_outcome_tx` has) and a Safe sender.

`CowSwap` models a swap in two modes: `swap_tokens_waiting` with the wait inside
each attempt, and Seer's `_swap_tokens_with_fallback`. `orders` is what the
order book holds; `view` is the answer the caller acts on. The order book may show
a filled order as open or expired for any time (`Status`), and an order may be
filled between the last look and the decision. `unseen` is the history of such
orders that were given up (`GiveOrderUp`), `abandoned` of those left behind by a
failure after the post.

`CopyTrader` models `PolymarketCopyTrader` over any number of lives. The feed
is served newest first in pages; `excused` and `unsure` are history variables
that say for which trades an exception to "exactly once" has a cause. That no
process replicates what the file says was replicated (`SavedIsFinal`) has no
exception.

`EnsureTables` models `EnsureTableManager` and `DBManager`, every look-up and
assignment a step of its own; a statement may fail with its connection, with or
without effect (`ConnectionFails`). `DbCache` extends it: its callers come through
the creation first, then look up, compute and save.

`TraderAgent` models a `DeployableTraderAgent` with the default strategy on
Omen, run after run. The agent reads positions and bets only from `idxPos` and
`idxBet`, the subgraphs' versions. A purchase or a sale is one step whose call
may return or raise after any number of effects up to `MaxTaken`: what is below
it is the subject of `TxSender`. `calm` and `sawBets` are history variables:
no stale position or price, no stale bet. `MCTraderAgent` fixes the holdings.

`Answers`, which `TraderAgent` and `Seer` extend, has what becomes of a
prediction: the question type an agent's class asks for, the method `build_answer`
comes to, the answers from binary, scalar and categorical predictions, the check
of their outcomes, and the way back to an outcome of the market. A name is a word
and a form, because some of these steps compare names with regard to case and
some without. They are operators; two assumptions of `MCTraderAgent` make TLC
evaluate them over spellings and classes: an answer that passes the check is
turned back into the outcome that was meant (`AnswersKeepTheirMeaning`), and
Seer's queries find nothing a class has no method for, except for markets with a
third outcome other than the invalid one (`FoundCanBeAnswered`).

`Realitio` models the three functions of `omen_resolving.py`, run again and
again over lists that the subgraph gives: `finalize_markets` with the top-up of
the EOA (`send_keeping_token_to_eoa_xdai`), `resolve_markets`, and the claiming
of bonds. Each transaction is a step, and may take effect and still raise
(`Then`). Realitio, the conditional tokens and everybody else who uses them are
the environment; a history hash is named by how many answers it covers.
`stranded` is a history variable: a share may have been left behind by a failure
or by somebody else's claim. `setting` has the markets whose question counts other
outcomes than the market (`odd`) and those for which the search for a resolution
finds one that cannot be used (`unusable`): the latter raises in every run that
comes to them (`NoSuchOutcome`).

`Pricing` has the arithmetic of a fixed product market maker as operators over
integers (quotes, prices, fees, the purchase and the sale, the Kelly sizes);
`Strategy` extends it with every betting strategy, run after run on one market:
`Decide` takes the snapshot, `PlaceBuy` and `PlaceSell` place one trade at the
pool as it is by then. The default strategy's maximum is taken anew in every run, from the position there
is (`TotalAmountToBet`). `lastRun` and `thisRun` record what the last run and this
one did. `MCStrategy` lists pools, strategies and answers.

`Collateral` has deposits, withdrawals and rates as operators on wallets: the
wrapper, the vault, whose shares and assets round down each way, and tokens
traded on CoW. `OmenQueries` has what agents read about Omen: the
`where` clauses of the subgraph queries, the filters and the records made from
the answers, including the profit of a resolved bet. `Omen` extends both. A call
(bet, sale, liquidation, creation, funding, removal, redemption of one market or
of all) is a record `call` whose field `at` is the next transaction;
`Fails` ends it before or after the transaction took effect. A removal by an
account without shares returns at once (`RemoveNothing`). Contracts and other
traders are the environment. `MCOmen` has one market of each kind of collateral.

`Seer` extends `Collateral` in the same style, with the cache of `has_liquidity`
(`cache`), orders that are filled, expire or are refused (their polling is in
`CowSwap`), the fallback to a pool, the split of a parent's collateral, and a
process that restarts. `deepAt` is a history variable: when a pool was last
deep. `MCSeer` has a plain, a conditional and a new market.

`PolymarketApi` reads the paginated lists; `Polymarket` extends it with an
account: `EnsureNative`, `Deposit` and `Post` lead to an order of the exchange,
which the chain mines or kills (`Exchange`), `Verify` and `VerifyFails` look for
its receipt, and a redemption walks over its list. The order of a call that raised
stays undecided (`late`) through any number of later runs until it is mined or
killed (`MineLate`, `KillLate`); `missed` is the history of runs whose order was
undecided when a later one asked for the bets on its market. Positions, bets and
profits are read from `feed`. `MCPolymarket` has the markets, earlier trades and wallets.

Modules share no variables except `DbCache` with `EnsureTables`. `TraderAgent`,
`Omen` and `Seer` stand on what `TxSender` shows, `Seer` on `CowSwap`.

## Runs

| Run | States | What it shows |
|---|---|---|
| `rl_postgres` | 354 000 | two callers, one of them a task, a skewed clock and a lost or failed commit: grants are spaced, the callers implement `Pacing`, every request ends |
| `tx_sender` | 399 000 | two senders of one key: the calls implement `Delivery`, no surprising execution, one pending transaction, every call ends |
| `cow_swap` | 1 058 000 | one swap with one failed request anywhere, an order book that lags, orders that are cancelled: one fill, and one more at most for a failed request or an order given up after an unseen fill; the pool only after expiry or cancellation; the call ends |
| `copy_trader` | 1 130 000 | three trades, a crash and an exception anywhere: which trades are copied twice or missed, and that no others are |
| `ensure_tables` | 72 000 | two threads and a task, a connection that fails once: tables before use, one kind creates once, every call ends |
| `db_cache` | 1 821 000 | a thread and a task, saves that fail or come late, `clear_cache`: no valid row is lost |
| `trader_agent` | 5 602 000 | two runs of two kinds of agents over two markets: interval, balance and storing |
| `realitio` | 411 000 | two markets that may have a question of another number of outcomes, or a resolution that cannot be used; an operator with a Safe that skips failures and one without: one bond per question, claims are refused only for known reasons, every market is resolved however often runs fail half-way, unless an unusable resolution stops each run before it |
| `strategy` | 208 000 | three runs of every strategy while somebody bets: no run spends more than was reserved, none buys a sure loss on a pool that did not move, the default strategy's cap is the best one, and with its answer unchanged it sells nothing and adds at most a tiny bet |
| `omen` | 277 000 | two calls and redemptions on three markets while others bet, questions are answered (one invalid) and one request fails: deposits suffice, what came out is withdrawn, a removal that found shares leaves no complete set, profits are as paid, everything is redeemed |
| `seer` | 320 000 | plain, conditional and new markets, pools that dry up, a failed request or a restart, another process: deposits suffice, liquidity was there lately, winnings are collected |
| `polymarket` | 393 000 | two calls whose orders may be refused, killed or mined during any later run, on markets that dry up, resolve or split: one purchase a day, unless a run asked while an order reported as failed was undecided; what a liquidation trades, profits, redemption |

Every property has a mutant in `PROJECT.json`: a plausible bug in one definition
under which the run finds the property violated.

### Where the code falls short

Behaviour that modelling showed and that is not a property of any run, because
the code does otherwise:

* On SQLite, the default engine, `SELECT FOR UPDATE` locks nothing: two callers
  are allowed in one interval (`tools/cow/semaphore.py:203`; set `RowLocks` to
  FALSE in `rl_postgres` to see it).
* A rate-limited caller can wait past its timeout, which is looked at only after
  an `OperationalError` (`semaphore.py:222`).
* An order that is filled between the last poll and the timeout, or while the
  order book still shows it open or expired, is given up, and the pool or a second
  attempt swaps the amount again (`markets/seer/seer.py:689`, the fallback;
  `unseen`). So is an order left behind by an attempt that failed after its post
  (`abandoned`).
* An unusable resolution raises (`markets/omen/omen_resolving.py:231`) at the same
  market in every run of `finalize_markets`, so those listed after it are never
  finalized until somebody else answers its question (`AllResolved` names this).
* A removal of all shares that failed between `removeFunding` and the merge leaves
  complete sets, and repeating it returns with nothing done
  (`markets/omen/omen.py:1161`); a removal of other shares would merge them.
* A Polymarket bet whose verification gave up is reported as failed and may still
  be mined. A run that asks `have_bet_on_market_since` before that buys again
  (`markets/polymarket/clob_manager.py:120`, `polymarket.py:864`; `missed`).
* `get_resolved_bets_made_since` takes the outcomes to be Yes and No in this order
  (`polymarket.py:837`), while a market keeps the order of its event: for one that
  lists No first, wins would be reported as losses. The markets of the model list
  Yes first.
* A thread and a task use two locks and may both create the tables
  (`tools/db/db_manager.py:110`; `OneKindCreatesOnce` therefore speaks of one kind
  of callers).
* `Condition.index_sets` (`markets/omen/data_models.py:79`) is 1, 2, 3 for three
  outcomes, while partitions are bitmasks, 1, 2, 4 (`tools/contract.py:866`): the
  merge after removing liquidity reverts (`MergeReverts` of `Omen`), and redeeming
  a market does not reach the third position.
* Winnings of conditional Seer markets are never redeemed, because the query's
  default is markets that are not conditional.
* A Seer bet that CoW refused and a pool took leaves no order, so the market
  counts as not bet on.
* Seer's `sell_tokens` takes an amount in USD for a number of tokens;
  `seer_create_market_tx` deposits and approves what it does not use;
  `SeerQuestionsCache` is never refreshed.
* `from_scalar_answer` (`markets/data_models.py:207`) writes UP, DOWN and Invalid,
  and `from_probabilistic_answer` Yes and No or yes and no; a market whose names
  have another case, or whose third outcome is "Invalid result", makes
  `verify_answer_outcomes` raise, which ends the run (`AnswerRejected`), and the
  next run comes to that market again.
* A class that answers scalar markets is asked for nothing else by Seer, and only
  for binary markets by Omen (`AgentQuestionType`, `Fetched`).
* `submit_job_result` cannot run: `OmenJobAgentMarket.get_job_trade` raises.
* With the Kelly strategies and nobody else trading, a run may sell what the
  last one bought.

### Bounds

* Two callers, senders or threads: each hazard is a race of two (a third thread
  in `ensure_tables` shows that waiters are served in turn). The proofs below
  cover any number for the modules they are about.
* `MaxErrors`, `MaxCrashes`, `MaxFaults`, `MaxDrifts`, `MaxMoves` = 1: one
  failure or one move by others at any place; a second one in the same call
  takes the same paths again.
* `MaxTries` = 2 and `MaxOuter` = 2 for one sender: a retry after each way of
  failing, in both loops. In `CowSwap` the three attempts of the code.
* `MaxTime`: in `rl_postgres` two intervals and a half; in `cow_swap` two
  validity periods and one polling period; in `trader_agent` three ticks with
  an interval of one, so a second bet is too early, then allowed; in `omen` one
  tick, which closes markets; in `seer` two, so a cache entry expires.
* Page size 1 and three trades in `copy_trader`: every trade can shift to
  another page, the offset cap of 2 cuts one off. Pages of 2 in `polymarket`, and
  a feed that stays below the offset cap.
* One market of `trader_agent` is binary and one is not; in the assumptions about
  `Answers` yes, no, up, down and invalid are spelt in each of four ways, and a
  prediction gives each of eleven probabilities to yes.
* `MaxTaken` = 1 in `trader_agent`: a call that raises may have had its effect.
  With 2 (one retry repeats it) and one market the same properties were found
  to hold.
* `realitio`: two markets, so that an exception at the first ends the run before
  the second; others disturb one of them (`Contested`); two answers by others
  and the operator suffice for histories out of order and for a bond that is
  too low. Without a Safe the funds pay for one bond and a top-up; with one, for
  three bonds: unwrapping, a transfer from the Safe and running out of funds all
  occur. `auto_withdraw` is on, as
  in `test_reality.py`; when it is off, `NothingLeftBehind` claims nothing.
* `strategy`: three runs, so that a run builds on a position that was built on
  another; pools with two and three outcomes, balanced and not; limits of a
  position below and above the liquidity. Amounts are integers of hundreds, so
  that rounding is small beside the tolerances the properties name.
* `omen`, `seer`: two calls besides redemptions, so a call meets what another
  one left behind; balances for which a deposit wraps, uses what is there and
  runs out; conversion rates that do not divide the amounts.
* `polymarket`: two calls over two days, so the second finds an order of the first
  mined, undecided or killed; wallets with and without USDC.e; a first approval
  that two large purchases nearly use up. Money is counted in sixths of a USDC, so
  that prices and halves are whole numbers. Payouts reported are No and a split
  (`Reports`): positions and trades of the two outcomes are alike, so Yes is No
  with the outcomes exchanged.

`CHECK_DEADLOCK` is off: a bounded system really stops, when every call has
returned and the bounds are used up.

### Fairness

`RateLimiter`: every caller's step and the clock (`FairSpec`). The operating
system runs threads, Postgres hands a free lock to a waiter. No fairness for
requests or database errors. `TxSender`: a caller's steps; waiting for a receipt
has a timeout, so the node owes nothing. `CowSwap`: the caller and the clock; no
solver has to fill. `EnsureTables`: each caller's steps; a lock that is released
is granted. `Realitio`: a run goes on, time passes and the subgraph catches up
(weak fairness); `finalize_markets` and `resolve_markets` are started again and
again (strong fairness, since a run of another function disables them): they
are jobs that a scheduler repeats. Nobody else has to answer, prepare or
resolve. `Omen`, `Seer`: a call goes on, and redemption is started when the
account is idle, because every run of an agent begins with `redeem_winnings`;
faults are bounded, so some call gets through. `Polymarket`: the same, with
strong fairness for starting a redemption and for each market's redemption (an
exception may end it any number of times, but not always at the same market). The
exchange need not decide on any order: verification gives up by itself. The other
modules make no liveness claim: the poll loop runs for ever, and nothing
restarts an agent that raised.

## Proofs

`RateLimiter_proofs` proves `TypeCorrect`, `SpacingSafe` (grants are spaced,
given row locks), `RowOnlyAdvances` and the refinement `PacingImplemented`, for
every set of callers, interval, timeout, skew and bound. Spacing alone is not
inductive. Its strengthening says that a caller whose SELECT returned a row holds
the lock and what it read is still stored (`LockInv`), and that all earlier
stamps are at most what the row says (`StampInv`). Stamps come from the clocks of
their writers, so the skew of both enters the bound once. Under the refinement
mapping `last` is the row and `granted` the sequence of the stamps that the
allowed calls wrote: with `LockInv`, the two commits of a grant are `Allowed`
steps, a commit that was applied although its answer was lost is `AnswerLost`,
and every other step stutters. Assumption: clocks differ by at most `MaxSkew`.

`Sending_proofs` has the proofs about `TxSender` and `CowSwap`, two kinds of calls
in attempts; they share no name, and every theorem is about one of them. Of
`TxSender` it proves `SendTypeCorrect`, `NoSurprise`, `OneSlot`,
`ReturnsExecuted` and the refinement `DeliveryImplemented`, for any senders, Safes
and numbers of attempts. The invariant adds: pending transactions have the nonce
`count` and no sender about to send has a higher one (`Slot`); the running attempt
is newer than all it sent before (`Fresh`); a sent attempt has one outcome
(`OneOutcome`). `OneOutcome` is what carries the step `Reverted`: the attempt that
reverted leaves nothing pending under its number, so dropping it from those in
doubt is right. Under the refinement mapping `effects` are the attempts with a
receipt of status 1, `doubtful` those in `unknown`. A block that executes a
transaction is `TakesEffect`, because a call that waits has no effect yet that it
did not give up (`NotYet`); a failing attempt is `GivesUp`, or `Raises`, or a
stutter; `Return` is `Returns`, because what a call waits for was not given up
(`GivenUpBefore`).

Of `CowSwap` it proves `TypeCorrect`, `SwapsOnce` and `FallbackIsSafe`, in both
modes, for any numbers of attempts and of failed requests, however slow the caller
is and however the order book lags. The invariant says that at most one order of
the call is alive beside the abandoned ones (`OneAlive`), that the caller waits
until an order can no longer be filled (`WaitOutlasts`) and what can be concluded
from the status it read (`ViewHolds`). An order given up is either dead without a
fill or filled, and then in `unseen`: so `SwapsOnce` counts at most one fill for
the call, one for each failed request and one for each unseen one. What it rules
out is a second swap beside an order that was unfilled when it was given up.
Assumption: clocks of caller and order book agree, and a cancelled order is not
filled.

`DbCache_proofs` proves of `EnsureTables` `TypeCorrect`, `TablesSafe`,
`MutualExclusion` and `OneKindSafe`, for any threads, tasks and numbers of calls
and of connections that fail.
The invariant adds that whatever says the tables are there is right (`Reliable`),
that whoever is in the critical section holds its lock (`Locked`), that a caller
at work has an initialised manager (`ManagerReady`) and, with one kind of caller,
that whoever is about to create is right to (`CreatesOnce`). The same invariant,
with the rows, carries over to the cache that runs on top: no call of it reaches
a missing table (`NoTableMissing`), it creates the tables once
(`CreatedOnceUnderCache`), and a valid row that was saved stays
(`ClearKeepsTheLive`).

`TraderAgent_proofs` proves `TypeCorrect`, `NoTradeForgotten`,
`CheckedStakeCovered` and `NoRebetWithinInterval`, for any markets, names,
outcomes, agents and numbers of runs. `AllStored` needs that what the market at
hand has not stored is what it will store (`StoresAll`) and that runs to come
have no trades (`RunsInOrder`). The other two need that a purchase comes before
all sales (`BuyFirst`): after it the agent cannot buy any more, so what was seen
and checked at the start of the market may be outdated by the agent itself. The
interval is kept as long as a purchase may follow (`IntervalKept`); the balance
covers the amount to bet until the trades are built, and then the purchase
(`FundsKept`).

`Polymarket_proofs` proves of `CopyTrader` `TypeCorrect`, `NoDuplicates`, `NoTradeMissed` and
`FileIsFinal`, for any page size, cap, look-back and numbers of trades, crashes
and exceptions. Duplicates: what was replicated is in the memory or, while the
process is down, in the file (`Remembered`), and neither what was fetched
(`FetchedOnce`) nor the queue (`QueuedOnce`) has a trade twice without a reason.
Missing ones: a trade's place in the feed is the number of newer ones (`Rank`), a
trade that appears only pushes others back, so the places before `offset` have
been fetched (`Covered`), and the interval starts where the last poll ended
(`Interval`), also after a restart (`Polls`).

Of `Polymarket` it proves `AccountTypeCorrect`, `MarketsBoughtOnce`,
`LiquidationSells` and `ReportedProfitIsPaid`, for any markets, prices, payouts,
wallets, page sizes and caps of the lists, and numbers of calls and failures; the
two agents share no name.
The invariant `AccountInv` adds: the feed is in the order of time (`NewestFirst`);
an order to buy, wanted, in flight or late, is for a market in which nothing was
bought today and nothing else is on its way, except by runs in `missed`
(`BuysAreFresh`); a liquidation asks for the tokens that were held when
it was called, and has traded nothing until its order is mined, whatever orders of
earlier runs are (`Liquidating`; runs are numbered, `Runs`). One purchase a day:
the check for a bet (`HaveBet`) reads pages until one is older than the day, so with
`NewestFirst` what it did not see is not of today, and an order it could not see
yet is of a run that is now in `missed`. Profits: what is held is what trades moved, or
was redeemed (`HeldIsTraded`), and wallet and tokens together are worth what the
account had and what its trades gained (`Balanced`), which each step keeps because
it changes one term of a sum. Two theorems have a hypothesis: the trades that came
before the specification starts kept to one purchase a day (`EarlierOnce`), and
the feed is no longer than the API lets anybody page through (`ListCap`): beyond
that offset trades are not read, and the reported profit is not what was paid.

`Realitio_proofs` proves `TypeCorrect`, `OneBondPerQuestion`, `SharesWithdrawn`
and `ClaimsAreAccepted`, for any markets, bonds, funds, options and numbers of
answers and failures. One bond per question: the bonds of a history never fall
and the operator's are all of the same size (`BondsRise`), and Realitio asks for
more than the last one. Claims: the markets at work are final, so their histories
stay, and the list is a sorted view of what the subgraph had (`ClaimsFinal`);
sorted numbers without a tie are in order (`SortedUntied`), so each hash is that
of the answer before. What is left: a share is on Realitio only while its run is
about to withdraw it, or after a failure or somebody else's claim (`Withdrawn`).

`Seer_proofs` proves `TypeCorrect`, `BegunWhenLiquid` and `DepositCovers`, for any
markets, outcomes, payouts, balances and numbers of calls and faults. Types are
the hard part, because a call acts on what it saw before: a deposit in the vault
needs the wxDai that the step before wrapped, and a redemption the balances that
it read before another process sold some (`CallOK`). Liquidity: an entry of the
cache outlives the last time its market was liquid by at most a lifetime
(`Lately`), since an answer that is still valid is not stored again. Deposits: on
the way to assets and back one share at most is lost (`ThereAndBack`), and the
surplus covers that, if amounts are at least a hundred units and a share is worth
no less than the first one cost (`Realistic`, which the instance of the run meets);
without it small numbers would round the surplus away.

`Omen_proofs` proves `TypeCorrect`, `SetsAreMerged`, `WithdrawnIsWhatItGot`,
`DepositCovers` and `ReportedProfitIsPaid`, for any markets, tokens, rates, funds
and numbers of calls. The
common invariant is about the world (`WorldOK`: the books of the contracts and of
the account, a market maker with liquidity has something of every outcome) and
about the call that runs (`CallOK`). That no balance becomes negative rests on the
arithmetic of the market makers: a purchase takes no more than the pool has, and
purchases and sales leave something of every outcome (`Purchase`, `Sale`), which
needs the product of a pool of any length (`ProductIsPositive`, `FactorOut`).
Merging: the amount is the smallest of all balances when it is computed, and what
is merged stays merged until the call returns (`SetsMerged`). Withdrawals: the
wallet has what it had before the call until the payout, and after it more by the
amount that the code then withdraws (`BalanceKept`); one unit at most stays behind
in the vault's rounding, provided a share of sDai is worth half an xDai or more.
Deposits: as in `Seer`, under `Realistic`, which the instance of the run meets: a
share is worth no less than the first one cost, and a stake is at least a hundred
of the units the contracts count in, of which a dollar has 10^18.
Profits: on a market without liquidity of the account and without sales, whatever
was bought of an outcome is held or, when the outcome is the right one of a resolved
market, has been paid (`Accounted`, part of `PaidInv`). This is inductive because a
condition is resolved only after its question has one answer (`AnsweredOnce`), and because
a redemption under way is of a resolved condition and a merge follows a removal
(`CallSettled`). Then it is about the records: that `Trades` leaves nothing out means
that every trade is a purchase and that the sums run over the same list
(`TradesAll`), and the profits of purchases add up to what was bought of the right
outcome less the stakes (`ProfitsAdd`).

The same module proves `SpendsNoMore` about `Strategy`, whose markets have the pools
that those lemmas are about: `MaxIsEnough`, for any pools of at least two outcomes,
fees, strategies and answers. Inductive is that what was bought in the run and what
the plan still buys stay within the maximum, together with pools and holdings that
can be traded (`SpendingInv`): a sale may take no more tokens than are held, because
what `SellAmount` finds is covered by them, and so is every smaller amount
(`SellAmountPayable`, `SmallerPayable`). That a new plan stays within the maximum
rests on every way to size a bet: the search for a profitable one never leaves the
interval (`CapFits`), the three Kelly formulas are clipped (`KellySimpleFits`,
`KellyFullFits`, `KellySimplifiedFits`; a price is less than one, `PriceBelowOne`),
the damped bet is not larger (`BetForImpactFits`), and rebalancing buys at the target
only and what is missing there (`AdjustmentIs`, `ExtendedFits`).

`NoSureLoss` proves the action property `NoGuaranteedLoss`, again for all of these. To
`SpendingInv` it adds that a plan buys with its first trade or not at all (`BuyFirst`:
rebalancing puts the only purchase before the sales, `BuysStay` and `SalesStay`), and
that this trade is profitable on the pool there is by then unless somebody else moved
it (`BuysWell`): without the order, a sale would come between the check and the
purchase. The check uses the agent's own formula, which divides outcome by outcome,
and the contract divides once by a product: `QuoteIsCovered` shows that a bet whose
quote exceeds it is given at least its amount by the contract (`EndingAbove`, factor by
factor), and `SaleTakes` that no sale adds to a position.

Some of these need what an algorithm of the model returns: that the sum of a
position's values, or of the payouts, is a number (`SumIsNat`), that rebalancing
gives one purchase and then sales (`Rebalanced`), that the feed, the queue and
sorted lists contain what they should (`FeedListed`, `QueueHolds`, `SortedUntied`).
So are the sums and products of pools (`SumIsNat`, `ProductIsPositive`), the
bisection that finds what a sale pays (`BisectionStays`), the pages read one after
the other (`TradesRead`), the sums over a feed or a list (`SumPrepends`,
`SumAppends`) and what a query selects (`TradesAll`).
These are inductions over a size; they are proved by a least counterexample
(`LeastNatural`), and that a function defined by recursion exists by building it
up to each size (`Recursion`).

What is assumed is stated in the modules as named ASSUMEs: numbers are natural
or positive, callers are of one kind, clocks are within their skew, payouts are
not all zero, the parent of a conditional market is not conditional itself. Some
theorems have a hypothesis of their own: `Realistic` in `Seer_proofs` and `Omen_proofs`, and a share's worth there.

Only model-checked:

* Liveness (all `...Ends`, `AllResolved`, `AllRedeemed`), because it rests on
  fairness, which the prover does not handle.
* `CapIsBest` and `NoChurn` of `Strategy`: they compare roundings of searches, quotes
  and purchases, and their tolerances were found by checking on pools like those of
  the run.
* What `Answers` computes: it is evaluated over spellings and classes.

## Not modelled

* Real numbers: amounts are integers, the Newton step of
  `calculate_sell_amount_in_collateral` is its result, and the optimiser of the
  joint Kelly bets returns one of a few sizes.
* Language models and searches: a prediction is any of a few, or none. The
  rephrasing of conditional markets changes the question only.
* Sorting, limits and pages of subgraph queries; conversions, logging, user
  interface, deployment.
* In `TraderAgent`: `redeem_winnings` (it is in `Omen`, `Seer` and `Polymarket`),
  `ensure_min_native_balance`, transaction fees, and rounding of amounts.
* In `Realitio`: the search for a resolution (any result is possible), how much
  of the bonds a claim pays (a share is one), answers by commitment, fees.
* In `TraderAgent`, `Realitio`, `Omen` and `Seer`: effects of an attempt given up
  that come after its call has returned or raised, which `Delivery` allows.
* In `Omen`: the split between Safe and EOA, more than a thousand positions,
  image mappings, the caches of the rates. The subgraphs are up to date there;
  `TraderAgent` has their lag.
* In `Seer`: a market whose parent is conditional itself, for which
  `mint_full_set` would go on to the grandparent; the resolution from cached
  questions, `build_probability_map`, a lag of
  the service that lists transactions. Answer and payout report are one step;
  another process sells only during redemptions; expired cache entries and orders
  too old to be asked for are forgotten at a tick.
* In `Strategy` the check of the balance (`check_min_required_balance`) is in
  `TraderAgent`; it uses the maximum of an earlier reading of the position.
* In `CowSwap`: the skew between the caller's clock and the order book's.
* In `Polymarket`: neg-risk collateral, categorical events, fees, quotes, one
  allowance stands for those of the three exchanges, the data API shows a trade as
  soon as it is mined, tokens are whole (so no position is dust, which
  `polymarket.py:587` and 641 leave out), and markets list Yes first.
  `discover_top_traders` asks only for open markets, so that it ranks by the
  profit of hardly any resolved trade; nothing is decided in between.
* Manifold, Metaculus, jobs, question tools, scripts: see `PROJECT.json`.

## Plan

1. Abstract specifications of a swap (`CowSwap`) and of a copied trade
   (`CopyTrader`) in the style of `Delivery`, with their refinements proved.
2. `TraderAgent` and `Omen` with `Delivery` in the place of their transactions.
3. `SimpleRateLimiter`, as another implementation of `Pacing`, and the in-memory
   caches.
4. `Omen` and `Seer` with a Safe whose owner pays for gas, as `Realitio` has it.
