----------------------------- MODULE Reconcile -----------------------------
(***************************************************************************)
(* What one device does about another's list of files: the pure decision   *)
(* of crates/sync (version.rs, resolve.rs, reconcile.rs).                  *)
(*                                                                         *)
(* A path is the name the user gave it and the conflict marks added since; *)
(* a content is its hash, a number because the code orders hashes.         *)
(***************************************************************************)
EXTENDS VersionVector, Sequences

CONSTANTS
  Base,      \* names users give files
  Hash,      \* content hashes
  Deleted    \* Content::Deleted, the content of a tombstone

ASSUME HashAssumption == Hash \subseteq Nat /\ Deleted \notin Nat

Path == [base : Base, tags : Seq(Device \X Nat)]
Content == Hash \cup {Deleted}

\* A FileVersion of the shared area: at is modified_at, in seconds.
Version == [path : Path, content : Content, vector : Vector,
            by : Device, at : Nat]

Original(p) == p.tags = <<>>

\* resolve::conflict_path: the name carries the losing version's author and
\* the second it was made in, and nothing else of it.
ConflictPath(v) == [v.path EXCEPT !.tags = Append(@, <<v.by, v.at>>)]

\* The file of a version list at a path: the set is empty or a singleton.
AtPath(list, p) == {v \in list : v.path = p}

Action(kind, takes) == [kind |-> kind, takes |-> takes]

\* Outcome::Merge.  The keeper is the version of the lower device id.
MergeAction(l, r) ==
  LET keeper == IF l.by <= r.by THEN l ELSE r
  IN  Action("Merge", <<[keeper EXCEPT !.vector = Merged(l.vector, r.vector)]>>)

\* Outcome::Resurrect: of a deletion and an edit, the edit survives.
ResurrectAction(l, r) ==
  LET survivor == IF l.content = Deleted THEN r ELSE l
  IN  Action("Resurrect",
             <<[survivor EXCEPT !.vector = Merged(l.vector, r.vector)]>>)

\* resolve::wins_path
WinsPath(l, r) == l.content > r.content

\* Mutant of ConflictAction: the winner is written first.
ConflictKeepsFirst(l, r) ==
  LET winner == IF WinsPath(l, r) THEN l ELSE r
      loser  == IF WinsPath(l, r) THEN r ELSE l
      both   == Merged(l.vector, r.vector)
  IN  Action("Conflict",
             <<[winner EXCEPT !.vector = both],
               [loser EXCEPT !.path = ConflictPath(loser), !.vector = both]>>)

\* Outcome::Conflict.  The loser is renamed and written first, then the
\* winner; both carry the merged vector.
ConflictAction(l, r) ==
  LET winner == IF WinsPath(l, r) THEN l ELSE r
      loser  == IF WinsPath(l, r) THEN r ELSE l
      both   == Merged(l.vector, r.vector)
  IN  Action("Conflict",
             <<[loser EXCEPT !.path = ConflictPath(loser), !.vector = both],
               [winner EXCEPT !.vector = both]>>)

\* resolve::resolve_concurrent
ResolveConcurrent(l, r) ==
  CASE l.content = r.content                          -> MergeAction(l, r)
    [] l.content # r.content /\ Deleted \in {l.content, r.content}
                                                      -> ResurrectAction(l, r)
    [] l.content # r.content /\ Deleted \notin {l.content, r.content}
                                                      -> ConflictAction(l, r)

\* resolve::resolve, as the actions it asks this device for.  Equal is
\* InSync; After is an offer, which is the other device's to act on.
Resolve(l, r) ==
  CASE Compare(l.vector, r.vector) \in {"Equal", "After"} -> {}
    [] Compare(l.vector, r.vector) = "Before"     -> {Action("Adopt", <<r>>)}
    [] Compare(l.vector, r.vector) = "Concurrent" -> {ResolveConcurrent(l, r)}

\* Mutant of ReconcileFile: tombstones are not told to peers.
ReconcileLiveFile(local, r) ==
  IF r.content = Deleted THEN {}
  ELSE IF AtPath(local, r.path) = {} THEN {Action("Adopt", <<r>>)}
  ELSE UNION {Resolve(l, r) : l \in AtPath(local, r.path)}

\* reconcile::reconcile, of one file of the peer's list.
ReconcileFile(local, r) ==
  IF AtPath(local, r.path) = {} THEN {Action("Adopt", <<r>>)}
  ELSE UNION {Resolve(l, r) : l \in AtPath(local, r.path)}

\* reconcile::reconcile.  The plan's order is a set's: names are abstract, so
\* the byte order of two paths may be either.
ReconcileLists(local, remote) == UNION {ReconcileFile(local, r) : r \in remote}
=============================================================================
