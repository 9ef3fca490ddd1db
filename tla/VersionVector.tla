--------------------------- MODULE VersionVector ---------------------------
(***************************************************************************)
(* Version vectors: one change counter per device, a missing entry being   *)
(* zero (crates/sync/src/clock.rs).  A vector is a total function here, so *)
(* the encoding rule that drops zero counters needs no counterpart.        *)
(***************************************************************************)
EXTENDS Integers

CONSTANT Device    \* device ids; compared by the code, hence numbers

ASSUME DeviceAssumption == Device \subseteq Nat

Vector == [Device -> Nat]

\* VersionVector::default: the beginning of time.
Zero == [d \in Device |-> 0]

\* VersionVector::merged: for each device the higher of the two counts.
Merged(u, v) == [d \in Device |-> IF v[d] > u[d] THEN v[d] ELSE u[d]]

Ahead(u, v) == \E d \in Device : u[d] > v[d]

\* VersionVector::compare.
Compare(u, v) ==
  CASE Ahead(u, v)  /\ Ahead(v, u)  -> "Concurrent"
    [] Ahead(u, v)  /\ ~Ahead(v, u) -> "After"
    [] ~Ahead(u, v) /\ Ahead(v, u)  -> "Before"
    [] ~Ahead(u, v) /\ ~Ahead(v, u) -> "Equal"

\* VersionVector::dominates: this version already accounts for the other.
Dominates(u, v) == Compare(u, v) \in {"After", "Equal"}
=============================================================================
