---- MODULE MCRateLimiter ----
(* Small instances of RateLimiter for TLC. *)
EXTENDS RateLimiter

CONSTANTS c1, c2

TwoCallers == {c1, c2}

\* The first caller's machine is one unit ahead of the others'.
OneAhead == [c \in Callers |-> IF c = c1 THEN 1 ELSE 0]

Nobody == {}

\* The second caller is a task behind the async limiter, the first a sync one.
SecondIsTask == {c2}
====
