---------------------------- MODULE MCPolymarket ----------------------------
(* Two markets, in one of which the account bought both outcomes before,   *)
(* and an event with more than one market, on pages of two.                *)
EXTENDS Polymarket

CONSTANTS m1, m2

MCMarkets == {m1, m2}
Event(slug, markets) ==
    [slug |-> slug, markets |-> markets, outcomes |-> <<"Yes", "No">>]
MCEvents == <<Event("a", <<m1>>), Event("b", <<"x", "y">>), Event("c", <<m2>>)>>
MCBinary == {"Yes", "No"}
Bought(o, time) == [market |-> m1, outcome |-> o, side |-> "BUY", size |-> 1,
              price |-> 2, time |-> time, run |-> 0]
MCEarlier == <<Bought("Yes", 0), Bought("No", -1)>>
MCReports == {<<0, 1>>, <<1, 1>>}
MCWallets == {[usdc |-> 6, wpol |-> 18, pol |-> 2],
              [usdc |-> 24, wpol |-> 0, pol |-> 2]}
=============================================================================
