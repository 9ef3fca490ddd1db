---------------------------- MODULE WatchProofs ----------------------------
(***************************************************************************)
(* A file freed from this device is never taken for one the user deleted,  *)
(* for any folder, any number of changes and any bounds: whatever has been *)
(* dropped, debounced or walked meanwhile, however many processes free     *)
(* files, and wherever they were killed.  The invariant says what a file   *)
(* the user left is when it is not in the folder: a live row, marked.      *)
(***************************************************************************)
EXTENDS Watch, TLAPS

\* What the folder, the index and the marks are of.
FolderOK ==
    /\ DOMAIN disk = Path /\ DOMAIN known = Path
    /\ changes \in Nat /\ moved \in BOOLEAN /\ kept \subseteq File

\* A file the user has left and that is not there is marked, and its row live.
AwayIsMarked == \A p \in kept : disk[p] = 0 => p \in freed /\ known[p] # 0

\* Only live rows are marked.
MarkedIsLive == freed \subseteq Path /\ \A p \in freed : known[p] # 0

FreedInv == FolderOK /\ AwayIsMarked /\ MarkedIsLive

LEMMA WatchStarts ==
  ASSUME Init
  PROVE  FreedInv
<1>1. FolderOK
  BY DEF Init, FolderOK, Followed
<1> QED BY <1>1 DEF Init, FreedInv, AwayIsMarked, MarkedIsLive

\* A step of the user's: what they leave in the folder is there.
LEMMA UserLeaves ==
  ASSUME FreedInv, UNCHANGED daemon, DOMAIN disk' = Path, changes' \in Nat, moved' \in BOOLEAN,
         kept' \subseteq File,
         \A p \in kept' : disk'[p] = 0 => p \in kept /\ disk[p] = 0
  PROVE  FreedInv'
<1>1. UNCHANGED <<known, freed>>
  BY DEF daemon
<1> QED BY <1>1 DEF FreedInv, FolderOK, AwayIsMarked, MarkedIsLive

LEMMA TouchesLeaves ==
  ASSUME FreedInv, NEW events, NEW ps, NEW added \in SUBSET File, NEW gone,
         Touches(events, ps, added, gone), DOMAIN disk' = Path,
         \A p \in Path : disk'[p] = 0 => p \notin added /\ (disk[p] = 0 \/ p \in gone)
  PROVE  FreedInv'
<1>1. kept' = (kept \ gone) \cup (added \cap Followed) /\ changes' = changes + 1 /\ moved' = moved /\ UNCHANGED daemon
  BY DEF Touches
<1>2. changes' \in Nat /\ moved' \in BOOLEAN /\ kept' \subseteq File /\ kept' \subseteq Path
  BY <1>1 DEF FreedInv, FolderOK, File
<1> QED BY <1>1, <1>2, UserLeaves

LEMMA UserKeeps ==
  ASSUME WatchAssumption, FreedInv, User
  PROVE  FreedInv'
<1>0. DOMAIN disk = Path /\ changes \in Nat /\ File \subseteq Path /\ Now # 0
  BY DEF FreedInv, FolderOK, File, Now
<1>1. ASSUME NEW p \in File, Write(p) PROVE FreedInv'
  <2>1. disk' = [disk EXCEPT ![p] = Now] /\ Touches(<<Event("other", p, p)>>, {p}, {p}, {})
    BY <1>1 DEF Write
  <2>2. \A q \in Path : disk'[q] = 0 => q \notin {p} /\ (disk[q] = 0 \/ q \in {})
    BY <1>0, <2>1
  <2> QED BY <1>0, <2>1, <2>2, TouchesLeaves
<1>2. ASSUME NEW p \in File, Delete(p) PROVE FreedInv'
  <2>1. disk' = [disk EXCEPT ![p] = 0] /\ Touches(<<Event("remove", p, p)>>, {p}, {}, {p})
    BY <1>2 DEF Delete
  <2>2. \A q \in Path : disk'[q] = 0 => q \notin {} /\ (disk[q] = 0 \/ q \in {p})
    BY <1>0, <2>1
  <2> QED BY <1>0, <2>1, <2>2, TouchesLeaves
<1>3. ASSUME NEW p \in File, Read(p) PROVE FreedInv'
  <2>1. disk' = disk /\ Touches(<<Event("access", p, p)>>, {}, {}, {})
    BY <1>3 DEF Read
  <2>2. \A q \in Path : disk'[q] = 0 => q \notin {} /\ (disk[q] = 0 \/ q \in {})
    BY <1>0, <2>1
  <2> QED BY <1>0, <2>1, <2>2, TouchesLeaves
<1>4. ASSUME NEW p \in File, NEW q \in File, p # q, Rename(p, q) PROVE FreedInv'
  <2>1. /\ disk' = [disk EXCEPT ![p] = 0, ![q] = Now]
        /\ \/ Touches(<<Event("both", p, q)>>, {p, q}, {q}, {p})
           \/ Touches(<<Event("from", p, p), Event("other", q, q)>>, {p, q}, {q}, {p})
    BY <1>4 DEF Rename
  <2>2. \A r \in Path : disk'[r] = 0 => r \notin {q} /\ (disk[r] = 0 \/ r \in {p})
    BY <1>0, <1>4, <2>1
  <2> QED BY <1>0, <2>1, <2>2, TouchesLeaves
<1>5. ASSUME NEW d \in Dir, TakeDir(d) PROVE FreedInv'
  <2> DEFINE gone == {p \in Children(d) : disk[p] # 0}
  <2>1. /\ disk' = [p \in Path |-> IF p \in {d} \cup Children(d) THEN 0 ELSE disk[p]]
        /\ Touches(<<Event("from", d, d)>>, {d} \cup Children(d), {}, gone) /\ UNCHANGED daemon /\ moved' = moved
    BY <1>5 DEF TakeDir, Touches
  <2>2. kept' = kept \ gone /\ changes' \in Nat
    BY <1>0, <2>1 DEF Touches
  <2>3. \A p \in kept' : disk'[p] = 0 => p \in kept /\ disk[p] = 0
    BY <1>0, <2>1, <2>2 DEF File, FreedInv, FolderOK
  <2> QED BY <2>1, <2>2, <2>3, UserLeaves DEF FreedInv, FolderOK
<1>6. ASSUME NEW d \in Dir, NEW inside \in SUBSET Children(d), BringDir(d, inside) PROVE FreedInv'
  <2>1. /\ disk' = [p \in Path |-> IF p \in {d} \cup inside THEN Now ELSE disk[p]]
        /\ Touches(<<Event("other", d, d)>>, {d} \cup inside, inside, {})
    BY <1>6 DEF BringDir
  <2>2. inside \in SUBSET File
    \* What is in a directory is a file.
    BY WatchAssumption DEF WatchAssumption, Children, File
  <2>3. \A q \in Path : disk'[q] = 0 => q \notin inside /\ (disk[q] = 0 \/ q \in {})
    BY <1>0, <2>1
  <2> QED BY <2>1, <2>2, <2>3, TouchesLeaves
<1>7. CASE MoveFolder
  <2>1. moved' = TRUE /\ changes' = changes + 1 /\ UNCHANGED <<disk, kept, daemon>>
    BY <1>7 DEF MoveFolder
  <2> QED BY <1>0, <2>1, UserLeaves DEF FreedInv, FolderOK
<1> QED BY <1>1, <1>2, <1>3, <1>4, <1>5, <1>6, <1>7 DEF User

\* A walk, or a removal applied, forgets nothing that is marked, and a file
\* loses its mark only as it is stored, being there.
LEMMA ReconciledKeeps ==
  ASSUME FreedInv, ~moved, NEW failing, Reconciled(failing), UNCHANGED <<disk, kept>>
  PROVE  AwayIsMarked' /\ MarkedIsLive' /\ DOMAIN known' = Path
<1> DEFINE entries == Scan(Root)
           stored == {p \in entries : ~LooksUnchanged(p)} \ failing
           gone == {p \in File \ entries : known[p] # 0}
<1>1. /\ known' = [p \in Path |-> IF p \in stored THEN disk[p] ELSE Forgotten(gone \ failing)[p]]
      /\ freed' = freed \ stored
  BY DEF Reconciled
<1>2. \A p \in entries : disk[p] # 0
  BY DEF Scan, Stat
<1>3. stored \subseteq entries
  OBVIOUS
<1> HIDE DEF entries, stored, gone
<1>4. \A p \in Path : p \in freed /\ p \notin stored => known'[p] = known[p]
  BY <1>1 DEF Forgotten
<1> QED BY <1>1, <1>2, <1>3, <1>4 DEF FreedInv, FolderOK, AwayIsMarked, MarkedIsLive, File

\* The daemon's steps leave the folder as it is.
LEMMA FollowingKeeps ==
  ASSUME FreedInv, Following
  PROVE  FreedInv'
<1>0. FolderOK /\ AwayIsMarked /\ MarkedIsLive /\ kept \subseteq Path
  BY DEF FreedInv, FolderOK, File
<1>1. ASSUME NEW failing \in SUBSET File, Start(failing) PROVE FreedInv'
  <2>1. ~moved /\ Reconciled(failing) /\ UNCHANGED <<disk, moved, kept, changes>>
    BY <1>1 DEF Start, folder
  <2> QED BY <1>0, <2>1, ReconciledKeeps DEF FreedInv, FolderOK
<1>2. ASSUME NEW failing \in SUBSET File, Take(failing) PROVE FreedInv'
  <2>1. UNCHANGED <<disk, moved, kept, changes>>
    BY <1>2 DEF Take, folder
  <2>2. UNCHANGED <<known, freed>> \/ (~moved /\ Reconciled(failing))
    BY <1>2 DEF Take
  <2> QED BY <1>0, <2>1, <2>2, ReconciledKeeps DEF FreedInv, FolderOK, AwayIsMarked, MarkedIsLive
<1>3. CASE StartWatcher \/ FolderGone
  <2>1. UNCHANGED <<disk, moved, known, freed, kept, changes>>
    BY <1>3 DEF StartWatcher, FolderGone, folder
  <2> QED BY <1>0, <2>1 DEF FreedInv, FolderOK, AwayIsMarked, MarkedIsLive
<1>4. ASSUME NEW c \in todo, Apply(c) PROVE FreedInv'
  <2>1. UNCHANGED <<disk, moved, kept, changes>>
    BY <1>4 DEF Apply, folder
  <2>2. ASSUME NEW p, ApplyRemoval(p)
        PROVE  DOMAIN known' = Path /\ freed' = freed /\ \A q \in freed \cap Path : known'[q] = known[q]
    BY <2>2 DEF ApplyRemoval, Forgotten
  <2>3. ASSUME NEW p, StoreIfChanged(p), Stat(p) # 0
        PROVE  /\ DOMAIN known' = Path /\ freed' \subseteq freed /\ \A q \in freed \ freed' : disk[q] # 0
               /\ \A q \in freed' \cap Path : known'[q] = known[q]
    <3>1. disk[p] # 0
      BY <2>3 DEF Stat
    <3> QED BY <1>0, <2>3, <3>1 DEF StoreIfChanged, FolderOK
  <2>4. /\ DOMAIN known' = Path /\ freed' \subseteq freed /\ \A q \in freed \ freed' : disk[q] # 0
        /\ \A q \in freed' \cap Path : known'[q] = known[q]
    BY <1>4, <2>2, <2>3 DEF Apply, ApplyUpsert
  <2> QED BY <1>0, <2>1, <2>4 DEF FreedInv, FolderOK, AwayIsMarked, MarkedIsLive
<1> QED BY <1>1, <1>2, <1>3, <1>4 DEF Following

\* A copy is removed with its row marked, or, with the mark gone, as no file
\* the user has left; and a mark is taken back where the file is.
LEMMA FreeingKeeps ==
  ASSUME FreedInv, Freeing
  PROVE  FreedInv'
<1>0. FolderOK /\ AwayIsMarked /\ MarkedIsLive /\ kept \subseteq Path
  BY DEF FreedInv, FolderOK, File
<1>1. ASSUME NEW p \in Path, Mark(p) PROVE FreedInv'
  <2>1. /\ known[p] # 0 /\ freed' = freed \cup {p}
        /\ UNCHANGED <<disk, moved, known, kept, changes>>
    BY <1>1 DEF Mark, folder
  <2> QED BY <1>0, <2>1 DEF FreedInv, FolderOK, AwayIsMarked, MarkedIsLive
<1>2. ASSUME NEW p \in evicting, Unlink(p) PROVE FreedInv'
  <2>1. /\ \/ disk' = disk /\ kept' = kept
           \/ disk' = [disk EXCEPT ![p] = 0] /\ kept' = kept \ ({p} \ freed)
        /\ UNCHANGED <<moved, known, freed, changes>>
    BY <1>2 DEF Unlink
  <2>2. DOMAIN disk' = Path /\ \A q \in kept' : q \in kept /\ (disk'[q] = disk[q] \/ q \in freed)
    BY <1>0, <2>1 DEF FolderOK
  <2> QED BY <1>0, <2>1, <2>2 DEF FreedInv, FolderOK, AwayIsMarked, MarkedIsLive
<1>3. ASSUME NEW p \in evicting, UnlinkFails(p) PROVE FreedInv'
  <2>1. /\ freed' = freed \ {p} /\ disk[p] # 0
        /\ UNCHANGED <<disk, moved, known, kept, changes>>
    BY <1>3 DEF UnlinkFails, Stat, folder
  <2> QED BY <1>0, <2>1 DEF FreedInv, FolderOK, AwayIsMarked, MarkedIsLive
<1>4. ASSUME NEW p \in evicting, EvictionCut(p) PROVE FreedInv'
  <2>1. UNCHANGED <<disk, moved, known, freed, kept, changes>>
    BY <1>4 DEF EvictionCut, folder
  <2> QED BY <1>0, <2>1 DEF FreedInv, FolderOK, AwayIsMarked, MarkedIsLive
<1> QED BY <1>1, <1>2, <1>3, <1>4 DEF Freeing

LEMMA WatchStep ==
  ASSUME WatchAssumption, FreedInv, [Next]_vars
  PROVE  FreedInv'
<1>1. CASE Platform \/ Watching \/ UNCHANGED vars
  <2>1. UNCHANGED <<disk, moved, daemon, kept, changes>>
    BY <1>1 DEF Platform, Tick, Age, Install, Watching, Handle, Release, vars, folder
  <2> QED BY <2>1, UserLeaves DEF FreedInv, FolderOK
<1>2. CASE Crash
  <2>1. changes' = changes + 1 /\ UNCHANGED <<disk, moved, known, freed, kept>>
    BY <1>2 DEF Crash
  <2> QED BY <2>1 DEF FreedInv, FolderOK, AwayIsMarked, MarkedIsLive
<1> QED BY <1>1, <1>2, UserKeeps, FollowingKeeps, FreeingKeeps DEF Next

\* evict_because marks the row before it removes the file, and delete_file
\* leaves a marked row alone: a file the user has left is in the folder, or
\* the index has it.
THEOREM FreedStaysAFile == Spec => []FreedIsNotDeleted
<1>1. Init => FreedInv
  BY WatchStarts
<1>2. FreedInv /\ [Next]_vars => FreedInv'
  BY WatchStep, WatchAssumption
<1>3. FreedInv => FreedIsNotDeleted
  BY DEF FreedInv, AwayIsMarked, FreedIsNotDeleted
<1> QED BY <1>1, <1>2, <1>3, PTL DEF Spec
=============================================================================
