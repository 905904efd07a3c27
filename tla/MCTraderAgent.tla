--------------------------- MODULE MCTraderAgent ---------------------------
(***************************************************************************)
(* Two markets, one of them binary, and two agents, one that answers only  *)
(* binary markets and one that answers categorical ones, which come to it  *)
(* for both.  It starts with both outcomes of the binary market.           *)
(***************************************************************************)
EXTENDS TraderAgent

CONSTANTS m1, m2

YesNo(form) == <<Name("yes", form), Name("no", form)>>
UpDown(form) == <<Name("up", form), Name("down", form)>>
Or(form) == <<Name("invalid", form)>>
OrInvalidResult == <<Name("invalid result", "capital")>>

MCNames == [m \in Markets |->
    IF m = m1 THEN YesNo("capital")
    ELSE <<Name("rain", "capital"), Name("sun", "upper")>>]
MCHoldings == {[m \in Markets |-> [o \in Outcomes |-> IF m = m1 THEN 1 ELSE 0]]}

SomeNames ==
    {a \o b : a \in {YesNo(f) : f \in Forms} \cup {UpDown(f) : f \in Forms},
             b \in {<<>>, OrInvalidResult} \cup {Or(f) : f \in Forms}}
    \cup {<<Name("no", "lower"), Name("yes", "lower")>>,
          <<Name("rain", "capital"), Name("sun", "upper"), Name("fog", "mixed")>>,
          YesNo("capital") \o <<Name("maybe", "capital")>>}

(***************************************************************************)
(* Whatever the spelling of a market's outcomes and the methods of a class, *)
(* an answer that passes verify_answer_outcomes is turned back into the    *)
(* outcome that was thought most likely: it is one of the market's, no     *)
(* other entry has a larger probability, and of a binary market it is yes  *)
(* or no, as the prediction has it.                                        *)
(***************************************************************************)
ASSUME AnswersKeepTheirMeaning ==
    \A names \in SomeNames, class \in SUBSET Methods :
        /\ \A a \in BuildAnswer(names, class) :
               Verified(a, names) =>
                   \E e \in Range(a) :
                       /\ e.name = names[Direction(a, names)]
                       /\ \A other \in Range(a) : other.p <= e.p
        /\ \A p \in 0..10 :
               LET a == FromProbabilistic(p, names)
               IN  IsBinary(names) /\ Verified(a, names) =>
                       names[Direction(a, names)].word =
                           IF p >= 5 THEN "yes" ELSE "no"

(***************************************************************************)
(* The query for binary or for scalar markets of Seer finds none that the  *)
(* class has no method for, except for those whose third outcome is not    *)
(* the invalid one, which is_binary and is_scalar ask for.                 *)
(***************************************************************************)
ASSUME FoundCanBeAnswered ==
    \A names \in SomeNames, class \in SUBSET Methods \ {{}}, template \in 1..3 :
        LET type == AgentQuestionType(class)
            found == OfQuestionType(type, template, names)
            strange == Len(names) = 3 /\ ~IsInvalid(names[3])
        IN  found /\ type # "categorical" /\ ~strange
                => BuildAnswer(names, class) # {}

=============================================================================
