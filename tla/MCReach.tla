------------------------------- MODULE MCReach -------------------------------
(* A phone that reaches a computer: its own, or one it visits.               *)
EXTENDS Reach, TLC
CONSTANTS phone, laptop, home, away, visit

MCReaching == {<<phone, laptop>>}
MCNetAtFirst == (phone :> away) @@ (laptop :> home)
MCMaxDialled == (phone :> 1) @@ (laptop :> 2)
=============================================================================
