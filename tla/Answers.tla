------------------------------- MODULE Answers -------------------------------
(***************************************************************************)
(* How an agent's prediction becomes an answer about the outcomes of a     *)
(* market (build_answer and verify_answer_outcomes of deploy/agent.py,     *)
(* markets/data_models.py, markets/agent_market.py).  Platforms spell the  *)
(* same outcome in different ways, and the code compares names now with    *)
(* and now without regard to the case of their letters.                    *)
(*                                                                         *)
(* A name is a word and the form it is written in.  An answer is the       *)
(* dictionary of probabilities, in its order: a sequence of names and      *)
(* tenths.  A subclass is the set of the answer methods it implements.     *)
(***************************************************************************)
EXTENDS Integers, Sequences, Functions

CONSTANTS
    InvalidWords,   \* the words "invalid" is a part of
    Predictions     \* bound: tenths a prediction may give to an outcome

Forms == {"lower", "capital", "upper", "mixed"}
Methods == {"binary", "categorical", "scalar"}
Name(word, form) == [word |-> word, form |-> form]

ASSUME AnswersAssumption == "invalid" \in InvalidWords /\ Predictions \subseteq 0..10

\* Names without regard to the case of their letters.
Lowercase(names) == {n.word : n \in Range(names)}
IsInvalid(name) == name.word \in InvalidWords

\* A third outcome has to be the invalid one.
Asks(names, words) ==
    /\ Len(names) \in {2, 3}
    /\ words \subseteq Lowercase(names)
    /\ Len(names) = 3 => IsInvalid(names[3])

IsBinary(names) == Asks(names, {"yes", "no"})
IsScalar(names) == Asks(names, {"up", "down"})

-----------------------------------------------------------------------------
\* agent_question_type: what the methods of the subclass call for.
AgentQuestionType(methods) ==
    CASE "scalar" \in methods -> "scalar"
      [] "scalar" \notin methods /\ "categorical" \in methods -> "categorical"
      [] OTHER -> "binary"

\* Seer's query by question type: three spellings of each word are asked for.
Spelt(names, word) ==
    \E n \in Range(names) : n.word = word /\ n.form # "mixed"

OfQuestionType(type, template, names) ==
    CASE type = "scalar" ->
             template = 1 /\ Spelt(names, "up") /\ Spelt(names, "down")
      [] type = "binary" ->
             template = 2 /\ Spelt(names, "yes") /\ Spelt(names, "no")
      [] type = "categorical" -> template \in {2, 3}

-----------------------------------------------------------------------------
Entry(name, p) == [name |-> name, p |-> p]

\* from_probabilistic_answer: the names of Omen if the market has them, else
\* the identifiers in small letters.
FromProbabilistic(yes, names) ==
    LET named(word) ==
            IF Name(word, "capital") \in Range(names)
            THEN Name(word, "capital") ELSE Name(word, "lower")
    IN  <<Entry(named("yes"), yes), Entry(named("no"), 10 - yes)>>

\* ScalarProbabilisticAnswer.p_up of a predicted value.
PUp(value, lower, upper) ==
    IF value > upper THEN 10 ELSE IF value < lower THEN 0
    ELSE ((value - lower) * 10) \div (upper - lower)

\* from_scalar_answer: always these spellings.
FromScalar(up, names) ==
    <<Entry(Name("up", "upper"), up), Entry(Name("down", "upper"), 10 - up)>>
    \o IF \E n \in Range(names) : IsInvalid(n)
       THEN <<Entry(Name("invalid", "capital"), 0)>> ELSE <<>>

\* What a model makes of the outcomes it is shown: it favours one of them,
\* and may write the names in small letters.
CategoricalAnswers(names) ==
    LET favouring(i, p) ==
            [j \in DOMAIN names |->
                Entry(names[j], IF j = i THEN p ELSE (10 - p) \div Len(names))]
        small(a) == [j \in DOMAIN a |-> [a[j] EXCEPT !.name.form = "lower"]]
        exact == {favouring(i, p) : i \in DOMAIN names, p \in Predictions}
    IN  exact \cup {small(a) : a \in exact}

\* build_answer: the answers it may return; none when the method it comes to
\* is not implemented.  A scalar prediction lies on the scale from 2 to 12, or
\* beyond it.
BuildAnswer(names, methods) ==
    CASE IsBinary(names) /\ "binary" \in methods ->
             {FromProbabilistic(p, names) : p \in Predictions}
      [] ~IsBinary(names) /\ IsScalar(names) ->
             IF "scalar" \in methods
             THEN {FromScalar(PUp(v, 2, 12), names) : v \in 0..14} ELSE {}
      [] OTHER ->
             IF "categorical" \in methods THEN CategoricalAnswers(names) ELSE {}

\* verify_answer_outcomes: the spelling matters.
Verified(answer, names) ==
    \A entry \in Range(answer) : entry.name \in Range(names)

-----------------------------------------------------------------------------
First(S) == CHOOSE i \in S : \A j \in S : i <= j

\* The most likely entry, the first of those, and the outcome of the market
\* that its key stands for, now without regard to the spelling.
MostLikely(answer) ==
    answer[First({i \in DOMAIN answer :
        \A j \in DOMAIN answer : answer[j].p <= answer[i].p})]

OutcomeFor(key, names) == First({i \in DOMAIN names : names[i].word = key.word})

Direction(answer, names) == OutcomeFor(MostLikely(answer).name, names)
=============================================================================
