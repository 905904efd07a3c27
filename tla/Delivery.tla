------------------------------- MODULE Delivery -------------------------------
(***************************************************************************)
(* What sending a transaction promises to the code that is built on it,    *)
(* however often it is tried: of the attempts whose outcome the call knows *)
(* at most one takes effect, and the call returns if and only if one did.  *)
(* An attempt whose outcome was not learnt may take effect at any time,    *)
(* also after the call has raised or returned.                             *)
(***************************************************************************)
EXTENDS Naturals

CONSTANT
    Senders     \* calls

VARIABLES
    effects,    \* of each call, the attempts that took effect
    doubtful,   \* those given up without learning their outcome
    outcome     \* of the call: "none" yet, "returned" or "raised"

vars == <<effects, doubtful, outcome>>

Init ==
    /\ effects = [s \in Senders |-> {}]
    /\ doubtful = [s \in Senders |-> {}]
    /\ outcome = [s \in Senders |-> "none"]

\* All effects so far are of attempts given up.
Explained(s) == effects[s] \subseteq doubtful[s]

TakesEffect(s) ==
    /\ \E k \in effects'[s] :
           /\ k \in doubtful[s] \/ (outcome[s] = "none" /\ Explained(s))
           /\ effects' = [effects EXCEPT ![s] = @ \cup {k}]
    /\ UNCHANGED <<doubtful, outcome>>

Ends(s, how) == outcome[s] = "none" /\ outcome' = [outcome EXCEPT ![s] = how]

\* An attempt is given up; the call goes on, or it was the last one.
GivesUp(s) ==
    /\ outcome[s] = "none"
    /\ \E k \in doubtful'[s] : doubtful' = [doubtful EXCEPT ![s] = @ \cup {k}]
    /\ effects[s] \subseteq doubtful'[s]
    /\ Ends(s, "raised") \/ UNCHANGED outcome
    /\ UNCHANGED effects

Returns(s) == ~Explained(s) /\ Ends(s, "returned") /\ UNCHANGED <<effects, doubtful>>

Raises(s) == Explained(s) /\ Ends(s, "raised") /\ UNCHANGED <<effects, doubtful>>

Next == \E s \in Senders : TakesEffect(s) \/ GivesUp(s) \/ Returns(s) \/ Raises(s)

Spec == Init /\ [][Next]_vars

===============================================================================
