----------------------------- MODULE MCRealitio -----------------------------
(***************************************************************************)
(* Two markets; others may do something about the one listed second.  The  *)
(* question of the first names another number of outcomes, or the second   *)
(* has an unusable resolution.                                             *)
(***************************************************************************)
EXTENDS Realitio

CONSTANTS m1, m2

M2First == <<m2, m1>>
Flawed(b, odd, unusable) ==
    [usesSafe |-> b, autoWithdraw |-> TRUE, skipFailed |-> b,
     odd |-> odd, unusable |-> unusable]
SafeAndPlain ==
    {Flawed(TRUE, {m2}, {}), Flawed(FALSE, {}, {m1})}

=============================================================================
