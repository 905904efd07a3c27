-------------------------------- MODULE MCOmen --------------------------------
(***************************************************************************)
(* Three markets: one over sDai that the account created earlier, one over *)
(* GNO yet to be created, and one of three outcomes over wxDai.            *)
(***************************************************************************)
EXTENDS Omen

MCWorth == [t \in {"wxdai", "sdai", "gno"} |->
    CASE t = "wxdai" -> 100 [] t = "sdai" -> 120 [] OTHER -> 150]
MCSlippage == [t \in {"wxdai", "sdai", "gno"} |-> 5]
MCToken == [vault |-> "sdai", fresh |-> "gno", three |-> "wxdai"]
MCSlots == [vault |-> 2, fresh |-> 2, three |-> 3]
MCOpening == [vault |-> 1, fresh |-> 2, three |-> 1]
MCFunds == [vault |-> 600, fresh |-> 0, three |-> 0]
MCOthersFunds == [vault |-> 0, fresh |-> 0, three |-> 600]
MCAnswers == [vault |-> {Invalid}, fresh |-> {2}, three |-> {3}]
MCBalances == [t \in {"xdai", "wxdai", "sdai", "gno"} |->
    CASE t = "xdai" -> 260 [] t = "wxdai" -> 50 [] t = "sdai" -> 7
      [] OTHER -> 0]
=============================================================================
