----------------------------- MODULE MCSharing -----------------------------
EXTENDS Sharing, FiniteSetsExt

\* The hash of a set of members: some number of its own.
MCHashOf == [ms \in SUBSET Device |-> 1 + SumSet({2 ^ d : d \in ms})]
=============================================================================
