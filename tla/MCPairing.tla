----------------------------- MODULE MCPairing -----------------------------
EXTENDS Pairing, TLC

CONSTANTS phone, stranger

\* A phone being set up, in the person's hand, and a device that has the key
\* and saw the code, or guesses at its digits.
MCKeyOf == phone :> "none" @@ stranger :> "host"
MCMaxAsks == phone :> 2 @@ stranger :> 1
=============================================================================
