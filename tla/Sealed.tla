------------------------------- MODULE Sealed -------------------------------
(***************************************************************************)
(* A phone's own vault kept, sealed, by a computer of another person it    *)
(* visits (decision 0060).  The phone shows the computer sealed files; the *)
(* computer collects them and says so; the phone lets go of its own copies *)
(* and fetches one back when it is opened; and a phone set up again learns *)
(* its files from what the computer keeps.                                 *)
(*                                                                         *)
(* Modelled: crates/storage/src/sealed.rs and the functions of store.rs    *)
(* and db.rs about sealed files, crates/peer/src/kept.rs, and the parts of *)
(* server.rs, source.rs and the engine that serve, confirm and hold them.  *)
(*                                                                         *)
(* Data.  A content is a number, 0 for none.  A sealed name stands for its *)
(* path and a sealed file for its path and content, which its header       *)
(* holds: sealing is the same every time, and opens with the one key.      *)
(* Only what is in the folder can be read: chunks of a file replaced or    *)
(* freed are taken to be collected at once.                                *)
(***************************************************************************)
EXTENDS Naturals, FiniteSets

CONSTANTS
    Path,
    Theirs,       \* contents the computer's person shares with the guest
    MaxCopies,    \* bound: contents copied within the vault
    MaxFiles,     \* bound: contents made and copied
    MaxClears     \* bound: times the phone is set up again

ASSUME SealedAssumption ==
    Theirs \subseteq Nat /\ MaxCopies \in Nat /\ MaxFiles \in Nat /\ MaxClears \in Nat

NoContent == 0

VARIABLES
    row,        \* the phone's vault: a path's content, NoContent when deleted
    known,      \* the paths it has a row for, tombstones included
    here,       \* the paths whose bytes are here
    wanted,     \* the paths asked for
    view,       \* the content each path's sealed view was made from
    replicas,   \* the contents the computer is recorded as holding
    opened,     \* the paths fetched back lately
    tree,       \* the sealed list the computer read, as far as not acted on
    kept,       \* what the computer keeps, sealed, for each path
    got,        \* sealed files it says it keeps, on the way
    files,      \* contents made
    copied,     \* history: contents copied, or moved, within the vault
    clears

vault == <<row, known, here, wanted, files, copied>>
sealedVars == <<vault, view, replicas, opened, tree, kept, got, clears>>

Live(p) == row[p] # NoContent

-----------------------------------------------------------------------------
(* The person.                                                             *)

MoreFiles(c) == files + Cardinality(copied) < MaxFiles /\ Cardinality(c) <= MaxCopies

\* A file is made, or changed.
Put(p) ==
    /\ MoreFiles(copied) /\ files' = files + 1
    /\ row' = [row EXCEPT ![p] = files']
    /\ known' = known \cup {p} /\ here' = here \cup {p} /\ wanted' = wanted \ {p}
    /\ UNCHANGED <<copied, view, replicas, opened, tree, kept, got, clears>>

\* copy_in_vault: a freed file's copy is as freed as it is.  Moving a file is
\* this, and deleting it where it was.
Copy(q, p) ==
    /\ Live(q) /\ ~Live(p) /\ MoreFiles(copied \cup {row[q]})
    /\ copied' = copied \cup {row[q]}
    /\ row' = [row EXCEPT ![p] = row[q]] /\ known' = known \cup {p}
    /\ here' = IF q \in here THEN here \cup {p} ELSE here
    /\ UNCHANGED <<wanted, files, view, replicas, opened, tree, kept, got, clears>>

Delete(p) ==
    /\ Live(p)
    /\ row' = [row EXCEPT ![p] = NoContent]
    /\ here' = here \ {p} /\ wanted' = wanted \ {p}
    /\ UNCHANGED <<known, files, copied, view, replicas, opened, tree, kept, got, clears>>

\* A freed file is opened.
Want(p) ==
    /\ Live(p) /\ p \notin here \cup wanted
    /\ wanted' = wanted \cup {p}
    /\ UNCHANGED <<row, known, here, files, copied, view, replicas, opened, tree, kept, got, clears>>

\* The phone's data is cleared, or it is another of the person's devices:
\* nothing of the vault is known, the key is the same.
Cleared ==
    /\ clears < MaxClears
    /\ clears' = clears + 1
    /\ row' = [p \in Path |-> NoContent]
    /\ known' = {} /\ here' = {} /\ wanted' = {} /\ replicas' = {} /\ opened' = {}
    /\ view' = [p \in Path |-> NoContent]
    /\ tree' = {} /\ got' = {}
    /\ UNCHANGED <<kept, files, copied>>

-----------------------------------------------------------------------------
(* Shown to the computer, collected, and let go of.                        *)

Readable(c) == \E p \in here : row[p] = c

\* seal_name, seal_header and seal_chunk: with the folder's key, the same
\* every time.
Seal(p, c) == [path |-> p, content |-> c]

\* open_name, open_header and open_chunk: what was sealed, and whole.
Opens(e, p, c) == e = Seal(p, c)

\* prepare_sealed: files without a view of their current content.
ToSeal == {p \in Path : Live(p) /\ view[p] # row[p] /\ Readable(row[p])}

\* sealed_tree_for: deletions, and files whose view is of what they are now.
SealedTree(v) ==
    {Seal(p, row[p]) : p \in {q \in known : ~Live(q) \/ v[q] = row[q]}}

\* put_sealed_view: of each, in place of the one of what it was before.
Viewed(done) == [p \in Path |-> IF p \in done THEN row[p] ELSE view[p]]

\* The computer asks for the list; as many are sealed first as the budget
\* of one request allows.
Look ==
    \E done \in SUBSET ToSeal :
      /\ done # {} \/ ToSeal = {}
      /\ view' = Viewed(done)
      /\ tree' = SealedTree(view')
      /\ <<view, tree>> # <<view', tree'>>
      /\ UNCHANGED <<vault, replicas, opened, kept, got, clears>>

\* sealed_manifest and sealed_part: what a view is of, and can still be read.
Given(e) == e.content # NoContent /\ view[e.path] = e.content /\ Readable(e.content)

\* Engine::holding: a tombstone drops what is kept, a file not kept as it is
\* replaces it.
Hold(e) ==
    /\ e \in tree
    /\ tree' = tree \ {e}
    /\ kept' = [kept EXCEPT ![e.path] =
                  IF e.content = NoContent \/ Given(e) THEN e.content ELSE @]
    /\ got' = IF Given(e) /\ kept[e.path] # e.content THEN got \cup {e} ELSE got
    /\ UNCHANGED <<vault, view, replicas, opened, clears>>

\* unsealed: found by the sealed file, which is of the content its view was
\* made from.
OfThatPath(e) == {row[e.path]} \ {NoContent}
Unsealed(e) == {e.content} \cap {view[e.path]}

\* Request::Got, note_kept_sealed.
Got(e) ==
    /\ e \in got
    /\ got' = got \ {e}
    /\ replicas' = replicas \cup Unsealed(e)
    /\ UNCHANGED <<vault, view, opened, tree, kept, clears>>

GotLost(e) ==
    /\ e \in got
    /\ got' = got \ {e}
    /\ UNCHANGED <<vault, view, replicas, opened, tree, kept, clears>>

\* confirm_kept: the computer is asked for the plain content, which it has
\* only where its own person shares it.
ConfirmKept(p) ==
    /\ Live(p) /\ row[p] \notin replicas
    /\ replicas' = replicas \cup ({row[p]} \cap Theirs)
    /\ UNCHANGED <<vault, view, opened, tree, kept, got, clears>>

\* free_kept_by_hosts, in housekeeping.
MayFree(p) == Live(p) /\ row[p] \in replicas /\ p \notin opened

Free(p) ==
    /\ p \in here /\ MayFree(p)
    /\ here' = here \ {p}
    /\ UNCHANGED <<row, known, wanted, files, copied, view, replicas, opened, tree, kept, got, clears>>

OpenedLapses(p) ==
    /\ p \in opened
    /\ opened' = opened \ {p}
    /\ UNCHANGED <<vault, view, replicas, tree, kept, got, clears>>

-----------------------------------------------------------------------------
(* Fetched back, and learned.                                              *)

\* fetch_kept, unseal and restore_kept: what is kept under the sealed name,
\* if it is what the index has.
Unseals(p) == Opens(Seal(p, kept[p]), p, row[p])

FetchBack(p) ==
    /\ p \in wanted /\ Unseals(p)
    /\ here' = here \cup {p} /\ wanted' = wanted \ {p} /\ opened' = opened \cup {p}
    /\ UNCHANGED <<row, known, files, copied, view, replicas, tree, kept, got, clears>>

\* learn_kept and know_kept: listed, kept there, fetched when opened.  A
\* tombstone's row makes the insert fail.
Learn(p) ==
    /\ kept[p] # NoContent /\ p \notin known
    /\ row' = [row EXCEPT ![p] = kept[p]] /\ known' = known \cup {p}
    /\ replicas' = replicas \cup {kept[p]}
    /\ UNCHANGED <<here, wanted, files, copied, view, opened, tree, kept, got, clears>>

-----------------------------------------------------------------------------

SealedInit ==
    /\ row = [p \in Path |-> NoContent] /\ known = {} /\ here = {} /\ wanted = {} /\ files = 0 /\ copied = {}
    /\ view = [p \in Path |-> NoContent] /\ replicas = {} /\ opened = {}
    /\ tree = {} /\ kept = [p \in Path |-> NoContent] /\ got = {} /\ clears = 0

OfAPath(p) ==
    \/ Put(p) \/ Delete(p) \/ Want(p) \/ ConfirmKept(p) \/ Free(p) \/ OpenedLapses(p)
    \/ FetchBack(p) \/ Learn(p) \/ \E q \in Path : Copy(q, p)

SealedNext ==
    \/ \E p \in Path : OfAPath(p)
    \/ \E e \in tree : Hold(e)
    \/ \E e \in got : Got(e) \/ GotLost(e)
    \/ Look \/ Cleared

-----------------------------------------------------------------------------

\* A content that is of one path, and only the guest's.
Sole(c) == c \notin copied \cup Theirs

\* Every file of the vault has its bytes on the phone, or the computer keeps
\* that content of it, sealed under its name, where fetch_kept finds it:
\* freeing, through lost and late answers, changes and being set up again,
\* never lets go of the only copy.  Not so for a content copied or moved within
\* the vault, or one the computer's person shares: a replica is recorded of a
\* content, and what is kept is of a name.
OnlyCopyStays == \A p \in Path : Live(p) /\ p \notin here /\ Sole(row[p]) => kept[p] = row[p]

\* The same of every content.
KeptOrHere == \A p \in Path : Live(p) /\ p \notin here => kept[p] = row[p]
=============================================================================
