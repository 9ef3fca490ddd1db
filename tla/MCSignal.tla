------------------------------ MODULE MCSignal ------------------------------
(* A laptop and a phone.  The laptop has a note for the phone, asks to be   *)
(* introduced to it or takes the one place for a token, one of the three;   *)
(* the phone moves, loses its connection and is given another token.        *)
EXTENDS Signal
CONSTANTS laptop, phone

MCMaxOpened == (laptop :> 2) @@ (phone :> 2)
MCMaxMoves == (laptop :> 0) @@ (phone :> 1)
Most(w, c, r) == [waiting |-> w, connect |-> c, reachable |-> r, all |-> IF w = 1 THEN 1 ELSE 2]
MCMaxCommands == (laptop :> Most(1, 1, 1)) @@ (phone :> Most(0, 0, 2))
=============================================================================
