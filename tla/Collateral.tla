------------------------------ MODULE Collateral ------------------------------
(***************************************************************************)
(* Getting collateral for a market and giving it back                      *)
(* (tools/tokens/auto_deposit.py, tools/tokens/auto_withdraw.py) with the  *)
(* contracts of the tokens (tools/contract.py) and their prices            *)
(* (tools/tokens/usd.py).                                                  *)
(*                                                                         *)
(* Agents keep wxDai, which wraps xDai one to one and is worth one USD.    *)
(* sDai is a vault over wxDai, everything else is traded on CoW.  A wallet *)
(* is a function from tokens to balances, an operator returns the wallet   *)
(* after a transaction.                                                    *)
(***************************************************************************)
EXTENDS Integers, Pricing

CONSTANTS
    Worth,      \* of 100 units of each token, in wxDai
    Slippage    \* the least a swap gives, in percent below the quote

Tokens == DOMAIN Worth

ASSUME CollateralAssumption ==
    /\ {"wxdai", "sdai"} \subseteq Tokens /\ "xdai" \notin Tokens
    /\ Worth["wxdai"] = 100
    /\ \A t \in Tokens : Worth[t] \in Nat \ {0}
    /\ Slippage \in [Tokens -> 0..99]

\* init_collateral_token_contract
Kind(t) == CASE t = "wxdai" -> "wrapper" [] t = "sdai" -> "vault"
             [] OTHER -> "erc20"

\* NON_WITHDRAWABLE_COLLATERAL_TOKENS
Unwanted(t) == t = "metri"

-----------------------------------------------------------------------------
\* convertToAssets, convertToShares and what withdraw burns.
ToAssets(t, shares) == (shares * Worth[t]) \div 100
ToShares(t, assets) == (assets * 100) \div Worth[t]
Burned(t, assets) == CeilDiv(assets * 100, Worth[t])

\* get_usd_in_token
InToken(t, usd) == ToShares(t, usd)

\* What CoW quotes and what a swap brings at the worst.
SellFor(t, wanted) == CeilDiv(wanted * Worth[t], 100)
Least(t, quoted) == quoted - (quoted * Slippage[t]) \div 100
Results(t, quoted) == {quoted, Least(t, quoted)}

-----------------------------------------------------------------------------
\* Deposit a bit more to cover small changes in conversions.
WithSurplus(amount) == amount + amount \div 100

Enough(w, t, amount) == w[t] >= amount

\* What goes into the vault, and what is sold on CoW, for the rest.
VaultSpend(w, t, amount) == ToAssets(t, amount) - ToAssets(t, w[t])
SwapSpend(w, t, amount) == SellFor(t, amount - w[t])

\* A mutant that takes shares for assets.
MutSpend(w, t, amount) ==
    IF Kind(t) = "vault" THEN amount - w[t] ELSE SwapSpend(w, t, amount)

\* The wxDai that has to go into the vault or to CoW.
Spend(w, t, amount) ==
    IF Kind(t) = "vault" THEN VaultSpend(w, t, amount)
    ELSE SwapSpend(w, t, amount)

\* auto_deposit_depositable_wrapper_erc20: the difference is wrapped.
Short(w, amount) == Greater(0, amount - w["wxdai"])
CanWrap(w, amount) == w["xdai"] >= Short(w, amount)
Wrap(w, amount) == [w EXCEPT !["xdai"] = @ - Short(w, amount),
                             !["wxdai"] = @ + Short(w, amount)]

\* Of the wxDai a deposit needs, what the wrapper has to give.
Wrapped(w, t, amount) ==
    Wrap(w, IF Kind(t) = "wrapper" THEN amount ELSE Spend(w, t, amount))
Affordable(w, t, amount) ==
    CanWrap(w, IF Kind(t) = "wrapper" THEN amount ELSE Spend(w, t, amount))

\* deposit_asset_token, or a swap of wxDai.
Convert(w, t, spent, got) == [w EXCEPT !["wxdai"] = @ - spent, ![t] = @ + got]

Deposits(w, t, amount) ==
    LET spent == Spend(w, t, amount)
    IN  {Convert(w, t, spent, got) :
             got \in IF Kind(t) = "vault" THEN {ToShares(t, spent)}
                     ELSE Results(t, ToShares(t, spent))}

-----------------------------------------------------------------------------
\* auto_withdraw_collateral_token
Withdrawals(w, t, amount) ==
    IF amount = 0 \/ Unwanted(t) \/ Kind(t) = "wrapper" THEN {w}
    ELSE IF Kind(t) = "vault"
    THEN LET assets == ToAssets(t, amount)
         IN  {Convert(w, t, -assets, -Burned(t, assets))}
    ELSE {Convert(w, t, -got, -amount) :
              got \in Results(t, ToAssets(t, amount))}
=============================================================================
