-------------------------------- MODULE Pacing --------------------------------
(***************************************************************************)
(* What the database row of a rate limit promises, whoever calls, sleeps   *)
(* or fails: it holds the time of the last call that was allowed, it moves *)
(* forward by at least the interval, and a call is allowed only together   *)
(* with such a move.  A commit whose answer is lost moves the row without  *)
(* allowing anything.                                                      *)
(***************************************************************************)
EXTENDS Integers, Sequences

CONSTANTS
    Interval,  \* RateLimiter.interval
    NoRow      \* the rate id was never used

VARIABLES
    last,    \* RateLimit.last_called_at
    granted  \* the times of the allowed calls, in their order

Init == last = NoRow /\ granted = <<>>

Advance ==
    /\ last' # NoRow
    /\ last # NoRow => last' - last >= Interval

Allowed == Advance /\ granted' = Append(granted, last')

AnswerLost == Advance /\ UNCHANGED granted

Next == Allowed \/ AnswerLost

Spec == Init /\ [][Next]_<<last, granted>>

===============================================================================
