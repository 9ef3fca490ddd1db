------------------------------- MODULE Phone -------------------------------
(***************************************************************************)
(* A phone and the computers it deals with.  What a pass with a computer   *)
(* does depends on whose it is: one of the person's own is told which      *)
(* identity the phone is becoming (Identity); one of another person's      *)
(* keeps the phone's vault sealed (Sealed) and may ask to open it there    *)
(* (Openings), the key it is sent being tried on a name it keeps.          *)
(*                                                                         *)
(* A behaviour is about one kind of computer: a phone among the person's   *)
(* own, a guest whose files are being kept, or a guest whose files are     *)
(* shown and whose folder is asked to be opened.  Or about the pass itself *)
(* (Pass), which all of these are done in, about how the content of a file *)
(* is taken in one and carried on in the next (Fetch), or about the phone's*)
(* folders that a computer keeps (Backup).                                 *)
(***************************************************************************)
EXTENDS Identity, Openings, Sealed, Pass, Fetch, Backup

CONSTANTS
    Homes,      \* the sets of own computers a phone is checked with
    Showable,   \* the files a guest may be showing when it is asked
    Worlds      \* the kinds of behaviour

ASSUME WorldsAssumption ==
    /\ Homes \subseteq SUBSET Computer
    /\ Showable \subseteq Path
    /\ Worlds \subseteq {"own", "kept", "asked", "pass", "fetch", "backup"}

VARIABLE world

vars == <<world, identityVars, openingVars, sealedVars, passVars, fetchVars, backupVars>>

\* Request::Unlock: a key fits that opens one of the names kept.
KeyFits == \E p \in Path : kept[p] # NoContent

Own ==
    /\ world = "own" /\ IdentityNext
    /\ UNCHANGED <<world, openingVars, sealedVars, passVars, fetchVars, backupVars>>

Keeping ==
    /\ world = "kept" /\ SealedNext
    /\ UNCHANGED <<world, identityVars, openingVars, passVars, fetchVars, backupVars>>

\* Files are collected meanwhile, before which no key fits.
Asked ==
    /\ world = "asked"
    /\ \/ OpeningsNext(KeyFits) /\ UNCHANGED sealedVars
       \/ (\E e \in tree : Hold(e)) /\ UNCHANGED openingVars
    /\ UNCHANGED <<world, identityVars, passVars, fetchVars, backupVars>>

Passing ==
    /\ world = "pass" /\ PassNext
    /\ UNCHANGED <<world, identityVars, openingVars, sealedVars, fetchVars, backupVars>>

Fetches ==
    /\ world = "fetch" /\ FetchNext
    /\ UNCHANGED <<world, identityVars, openingVars, sealedVars, passVars, backupVars>>

Backups ==
    /\ world = "backup" /\ BackupNext
    /\ UNCHANGED <<world, identityVars, openingVars, sealedVars, passVars, fetchVars>>

\* A guest asked to open its folder: its first file is shown.
Showing ==
    \E p \in Showable :
      /\ row = [q \in Path |-> IF q = p THEN 1 ELSE NoContent] /\ view = row
      /\ known = {p} /\ here = {p} /\ wanted = {} /\ files = 1 /\ copied = {}
      /\ tree = {Seal(p, 1)} /\ kept = [q \in Path |-> NoContent]
      /\ replicas = {} /\ opened = {} /\ got = {} /\ clears = 0

Init ==
    /\ world \in Worlds
    /\ \E cs \in IF world = "own" THEN Homes ELSE {{}} : IdentityInit(cs)
    /\ OpeningsInit
    /\ IF world = "asked" THEN Showing ELSE SealedInit
    /\ \E l \in IF world = "pass" THEN Lefts ELSE {{}} : PassInit(l)
    /\ \E offer \in IF world = "fetch" THEN Offers ELSE {CHOOSE o \in Offers : TRUE} : FetchInit(offer)
    /\ BackupInit(IF world = "backup" THEN Bounds ELSE {CHOOSE b \in Bounds : TRUE})

Next == Own \/ Keeping \/ Asked \/ Passing \/ Fetches \/ Backups

Spec == Init /\ [][Next]_vars
=============================================================================
