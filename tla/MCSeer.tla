-------------------------------- MODULE MCSeer --------------------------------
(***************************************************************************)
(* A market with two outcomes, one that is conditional on its first        *)
(* outcome, and one that is yet to be created.                             *)
(***************************************************************************)
EXTENDS Seer

MCWorth == [t \in {"wxdai", "sdai"} |-> IF t = "wxdai" THEN 100 ELSE 120]
MCSlippage == [t \in {"wxdai", "sdai"} |-> 5]
MCParent == [plain |-> <<>>, child |-> <<"plain", 1>>, fresh |-> <<>>]
MCNames == [m \in Markets |->
    <<Name(IF m = "plain" THEN "rain" ELSE "yes", "capital"),
      Name(IF m = "plain" THEN "sun" ELSE "no", "capital"),
      Name("invalid result", "capital")>>]
MCTemplate == [m \in Markets |-> 2]
MCOpening == [plain |-> 1, child |-> 2, fresh |-> 2]
MCPayouts == [plain |-> {<<0, 0, 1>>, <<1, 3, 0>>},
              child |-> {<<1, 0, 0>>}, fresh |-> {}]
MCWanted == [plain |-> {2}, child |-> {1}, fresh |-> {}]
MCBalances == [t \in {"xdai", "wxdai", "sdai"} |->
    CASE t = "xdai" -> 400 [] t = "wxdai" -> 50 [] OTHER -> 7]
=============================================================================
