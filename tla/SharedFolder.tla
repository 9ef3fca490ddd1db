---------------------------- MODULE SharedFolder ----------------------------
(***************************************************************************)
(* A computer's shared folder as phones and guests reach it, live: *)
(* read, changed and added to, one request at a time, over connections     *)
(* that break with a request or its answer on the way.                     *)
(*                                                                         *)
(* Modelled: crates/storage/src/shared_folder.rs, the requests about the   *)
(* shared folder in crates/peer/src/server.rs, their client side in        *)
(* crates/peer/src/client.rs and the phone's KeptFolder in                 *)
(* crates/mobile-ffi/src/lib.rs.                                           *)
(*                                                                         *)
(* Data.  A path is the sequence of its names, a name a tuple whose second *)
(* component, where it has one, is the number the name was given.  A       *)
(* content is the sequence of its pieces; hashes name contents injectively *)
(* and so are the contents themselves.                                     *)
(***************************************************************************)
EXTENDS Integers, Sequences, FiniteSets

LOCAL Seqs == INSTANCE SequencesExt

CONSTANTS
    Device,        \* the devices that connect to this computer
    Relation,      \* what each is to it: "own", "guest" or "host"
    Kind,          \* "phone" or "computer"
    Place,         \* the paths people and requests name
    RuleFolder,    \* the folders a sharing rule is made for
    Written,       \* the files people put there, as sequences of pieces
    Added,         \* the files phones send
    SharingDir,    \* the name of the directory the rule files are in
    None,          \* no request, no upload
    NumberedUpTo,  \* the most a taken name is numbered up to
    MaxAsks,       \* bound: requests asked
    MaxPending,    \* bound: requests on their way at once
    MaxEdits,      \* bound: things people do at the computer
    MaxBreaks      \* bound: connections broken, days passed and crashes

ASSUME ConstantsFit ==
    /\ Relation \in [Device -> {"own", "guest", "host"}]
    /\ Kind \in [Device -> {"phone", "computer"}]
    /\ NumberedUpTo \in Nat \ {0}
    /\ {MaxAsks, MaxPending, MaxEdits, MaxBreaks} \subseteq Nat

File == Written \cup Added

VARIABLES
    row,      \* the index: live shared paths, with content and whether here
    disk,     \* the files in the folder on disk
    dirs,     \* the directories in it
    shares,   \* the sharing rules in force: folder to members
    trash,    \* Recently deleted
    staged,   \* pieces waiting in incoming/, by device and upload
    old,      \* those of them a day old and more
    pending,  \* requests on their way to the computer, or being answered
    waiting,  \* the request each device waits on
    sending,  \* the upload each device is in the middle of
    given,    \* the contents each device was shown or given
    unseen,   \* something in the folder the scan has not seen
    asks, edits, breaks,
    meant,    \* history: the contents each device may have been given
    carried,  \* history: the contents moved out from under a rule with the
              \* folder around it
    had       \* history: the contents ever put in the folder

folder  == <<row, disk, dirs, trash, unseen>>
wires   == <<pending, waiting, sending>>
history == <<meant, carried, had>>
bounds  == <<asks, edits, breaks>>
vars    == <<row, disk, dirs, shares, trash, staged, old, pending, waiting,
             sending, given, unseen, asks, edits, breaks, meant, carried, had>>

-----------------------------------------------------------------------------
(* Paths and partial functions.                                            *)

Under(p, f) == Len(p) > Len(f) /\ SubSeq(p, 1, Len(f)) = f
AtOrUnder(p, f) == p = f \/ Under(p, f)
Parents(p) == {SubSeq(p, 1, n) : n \in 1..(Len(p) - 1)}
Rebased(p, from, to) == to \o SubSeq(p, Len(from) + 1, Len(p))

Put(f, k, v) == [x \in DOMAIN f \cup {k} |-> IF x = k THEN v ELSE f[x]]
Drop(f, S) == [x \in DOMAIN f \ S |-> f[x]]
Contents(f) == {f[p] : p \in DOMAIN f}

Numbered(p, n) == [p EXCEPT ![Len(p)] = <<@[1], n>>]

\* A folder's rule is a file in a directory of its own, never in the folder.
RulePath(f) == <<SharingDir>> \o f

-----------------------------------------------------------------------------
(* The folder, as the operations below change it.                          *)

State == [row |-> row, disk |-> disk, dirs |-> dirs, trash |-> trash]

Becomes(F) ==
    /\ row' = F.row
    /\ disk' = F.disk
    /\ dirs' = F.dirs
    /\ trash' = F.trash

\* Outside every folder shared without the device.
SharedPathReachable(p, d) ==
    \A f \in DOMAIN shares : AtOrUnder(p, f) => d \in shares[f]

EntriesUnder(F, dir, d) ==
    {p \in DOMAIN F.row : Under(p, dir) /\ SharedPathReachable(p, d)}

EntriesHere(F, dir, d) == {p \in EntriesUnder(F, dir, d) : F.row[p].here}

AnywhereChecked(p, d) == p[1] # SharingDir
\* A name a file can have here, outside every folder shared without it.
Checked(p, d) == p[1] # SharingDir /\ SharedPathReachable(p, d)

Taken(F, p) == p \in DOMAIN F.row \cup DOMAIN F.disk \cup F.dirs

SharedFile(F, p) == p \in DOMAIN F.row

AnyDirsMade(F, ps) == TRUE
\* create_dir_all: refused where a file is in the way.
MakeDirs(F, ps) == [F EXCEPT !.dirs = @ \cup ps]
CanMakeDirs(F, ps) == ps \cap DOMAIN F.disk = {}

\* put_file: a file of the folder indexed as a change made here.
PutFile(F, p, c) ==
    [F EXCEPT !.disk = Put(@, p, c),
              !.row = Put(@, p, [content |-> c, here |-> TRUE])]

\* rename_file: the file on disk first, then both rows.  It needs the file's
\* bytes here, and a destination that is free.
CanRename(F, from, to) ==
    /\ to \notin DOMAIN F.row \cup DOMAIN F.disk \cup F.dirs
    /\ F.row[from].here
    /\ from \in DOMAIN F.disk

RenameOnDisk(F, from, to) ==
    [F EXCEPT !.disk = Put(Drop(@, {from}), to, F.disk[from]),
              !.dirs = @ \cup Parents(to)]

RenameUnindexed(F, from, to) == RenameOnDisk(F, from, to)
RenameFile(F, from, to) ==
    LET moved == RenameOnDisk(F, from, to)
    IN  [moved EXCEPT
            !.row = Put(Drop(@, {from}), to,
                        [content |-> F.disk[from], here |-> TRUE])]

\* delete_to_trash_by: into Recently deleted where the bytes are here, and
\* deleted either way.
DeleteToTrash(F, p, by) ==
    [F EXCEPT !.disk = Drop(@, {p}),
              !.row = Drop(@, {p}),
              !.trash = IF p \in DOMAIN F.disk
                        THEN @ \cup {[path |-> p, content |-> F.disk[p],
                                      by |-> by]}
                        ELSE @]

\* Directories left with nothing in them, from the deepest up.
RemoveEmptyFolders(F, at) ==
    [F EXCEPT !.dirs = {x \in @ : AtOrUnder(x, at) =>
                           \E p \in DOMAIN F.disk : Under(p, x)}]

Refused(F) == [done |-> FALSE, F |-> F]
Made(F) == [done |-> TRUE, F |-> F]

-----------------------------------------------------------------------------
(* The changes a device may ask for.                                       *)

MakeFolder(F, d, p) ==
    IF Checked(p, d) /\ ~Taken(F, p) /\ CanMakeDirs(F, Parents(p))
    THEN Made(MakeDirs(F, Parents(p) \cup {p})) ELSE Refused(F)

\* The check for a rule inside looks for a rule file under the folder.
RuleFileUnder(from) == \E f \in DOMAIN shares : Under(RulePath(f), from)

\* File by file, up to the first that cannot be renamed: what went before it
\* stays moved.
MoveFiles(F, files, from, to) ==
    Seqs!FoldLeft(
        LAMBDA r, p :
            IF r.done /\ CanRename(r.F, p, Rebased(p, from, to))
            THEN Made(RenameFile(r.F, p, Rebased(p, from, to)))
            ELSE Refused(r.F),
        Made(F), Seqs!SetToSeq(files))

\* A directory none of whose files the device is shown is renamed on disk,
\* whatever is in it.
RenameDirectory(F, from, to) ==
    LET Where(p) == IF AtOrUnder(p, from) THEN Rebased(p, from, to) ELSE p
    IN  [F EXCEPT
            !.dirs = {Where(x) : x \in @},
            !.disk = [q \in {Where(p) : p \in DOMAIN @} |->
                        @[CHOOSE p \in DOMAIN @ : Where(p) = q]]]

MovePath(F, d, from, to) ==
    LET ready == MakeDirs(F, Parents(to))
        inside == EntriesUnder(F, from, d)
        moved == MoveFiles(ready, inside, from, to)
    IN  CASE ~Checked(from, d) \/ ~Checked(to, d) -> Refused(F)
          [] from = to -> Made(F)
          [] \/ Under(to, from) \/ Taken(F, to)
             \/ ~CanMakeDirs(F, Parents(to)) -> Refused(F)
          [] SharedFile(F, from) ->
                IF CanRename(ready, from, to)
                THEN Made(RenameFile(ready, from, to)) ELSE Refused(ready)
          [] from \notin F.dirs \/ RuleFileUnder(from) -> Refused(ready)
          [] inside = {} -> Made(RenameDirectory(ready, from, to))
          [] OTHER ->
                IF moved.done THEN Made(RemoveEmptyFolders(moved.F, from))
                ELSE moved

\* The numbers the name may be put under: it as it is, or the free ones.
UnnumberedNames(F, p) == {1}
FreeNames(F, p) ==
    {n \in 1..NumberedUpTo : ~Taken(F, IF n = 1 THEN p ELSE Numbered(p, n))}

Free(F, p) ==
    LET n == CHOOSE n \in FreeNames(F, p) : \A m \in FreeNames(F, p) : n <= m
    IN  IF n = 1 THEN p ELSE Numbered(p, n)

CopyFile(F, from, to) ==
    PutFile(MakeDirs(F, Parents(to)), to, F.disk[from])

CopyPath(F, d, from, to) ==
    LET placed == Free(F, to)
        files == EntriesHere(F, from, d)
        start == Made(MakeDirs(F, Parents(placed) \cup {placed}))
    IN  CASE \/ ~Checked(from, d) \/ ~Checked(to, d)
             \/ Under(to, from)
             \/ FreeNames(F, to) = {} \/ ~CanMakeDirs(F, Parents(to)) -> Refused(F)
          [] SharedFile(F, from) ->
                IF from \in DOMAIN F.disk THEN Made(CopyFile(F, from, placed))
                ELSE Refused(F)
          [] from \notin F.dirs -> Refused(F)
          [] OTHER ->
                Seqs!FoldLeft(
                    LAMBDA r, p :
                        IF r.done /\ p \in DOMAIN r.F.disk
                        THEN Made(CopyFile(r.F, p, Rebased(p, from, placed)))
                        ELSE Refused(r.F),
                    start, Seqs!SetToSeq(files))

DeletePath(F, d, p) ==
    LET inside == Seqs!SetToSeq(EntriesUnder(F, p, d))
        emptied == Seqs!FoldLeft(LAMBDA G, q : DeleteToTrash(G, q, d), F, inside)
    IN  CASE ~Checked(p, d) -> Refused(F)
          [] SharedFile(F, p) -> Made(DeleteToTrash(F, p, d))
          [] p \notin F.dirs \/ RuleFileUnder(p) -> Refused(F)
          [] OTHER -> Made(RemoveEmptyFolders(emptied, p))

\* What a phone sent, whole, put where it asked: only if the pieces are the
\* file it said, and never over another file.
PlaceUpload(F, d, pieces, p, content) ==
    IF Checked(p, d) /\ pieces = content /\ FreeNames(F, p) # {}
       /\ CanMakeDirs(F, Parents(p))
    THEN Made(PutFile(MakeDirs(F, Parents(Free(F, p))), Free(F, p), pieces))
    ELSE Refused(F)

-----------------------------------------------------------------------------
(* Who may reach what.                                                     *)

OtherPerson(d) == Relation[d] # "own"

\* Its guests, and its own person's phones.
ReachesShared(d) ==
    \/ Relation[d] = "guest"
    \/ ~OtherPerson(d) /\ Kind[d] = "phone"

AnyContentReachable(c, d) == \E p \in DOMAIN row : row[p].content = c
\* A device of its own person sees the shared area; a guest is given its
\* files' bytes though it is never sent the list; a host neither.
SharedContentReachable(c, d) ==
    \E p \in DOMAIN row : row[p].content = c /\ SharedPathReachable(p, d)

MayFetch(c, d) == Relation[d] # "host" /\ SharedContentReachable(c, d)

\* One folder of the shared folder: the files of it with their bytes here.
Listing(d, dir) ==
    IF dir # <<>> /\ ~Checked(dir, d) THEN {}
    ELSE {row[p].content : p \in
             {q \in EntriesHere(State, dir, d) : Len(q) = Len(dir) + 1}}

-----------------------------------------------------------------------------
(* The device's side: one request at a time, each on a stream of its own.  *)

Ask(d, request) ==
    /\ asks < MaxAsks
    /\ Cardinality(pending) < MaxPending
    /\ waiting[d] = None
    /\ asks' = asks + 1
    /\ pending' = pending \cup {[dev |-> d, ask |-> request]}
    /\ waiting' = [waiting EXCEPT ![d] = request]
    /\ UNCHANGED <<folder, shares, staged, old, given, edits, breaks,
                   history>>

Idle(d) == sending[d] = None

AskList(d, dir) ==
    /\ Idle(d)
    /\ Ask(d, [op |-> "list", n |-> asks, dir |-> dir])
    /\ UNCHANGED sending

AskFetch(d, c) ==
    /\ Idle(d)
    /\ Ask(d, [op |-> "fetch", n |-> asks, content |-> c])
    /\ UNCHANGED sending

AskMkdir(d, p) ==
    /\ Idle(d)
    /\ Ask(d, [op |-> "mkdir", n |-> asks, path |-> p])
    /\ UNCHANGED sending

AskMove(d, from, to) ==
    /\ Idle(d)
    /\ Ask(d, [op |-> "move", n |-> asks, from |-> from, to |-> to])
    /\ UNCHANGED sending

AskCopy(d, from, to) ==
    /\ Idle(d)
    /\ Ask(d, [op |-> "copy", n |-> asks, from |-> from, to |-> to])
    /\ UNCHANGED sending

AskDelete(d, p) ==
    /\ Idle(d)
    /\ Ask(d, [op |-> "delete", n |-> asks, path |-> p])
    /\ UNCHANGED sending

\* shared_upload: a fresh id, then the pieces in order, each answered before
\* the next, then the whole file's hash.
AddFile(d, f, to) ==
    /\ Idle(d)
    /\ sending' = [sending EXCEPT ![d] =
                     [id |-> asks, file |-> f, at |-> 0, to |-> to]]
    /\ Ask(d, [op |-> "piece", n |-> asks, id |-> asks, offset |-> 0,
               bytes |-> f[1]])

SendPiece(d) ==
    /\ sending[d] # None
    /\ sending[d].at < Len(sending[d].file)
    /\ Ask(d, [op |-> "piece", n |-> asks, id |-> sending[d].id,
               offset |-> sending[d].at,
               bytes |-> sending[d].file[sending[d].at + 1]])
    /\ UNCHANGED sending

SendDone(d) ==
    /\ sending[d] # None
    /\ sending[d].at = Len(sending[d].file)
    /\ Ask(d, [op |-> "done", n |-> asks, id |-> sending[d].id,
               path |-> sending[d].to, content |-> sending[d].file])
    /\ UNCHANGED sending

-----------------------------------------------------------------------------
(* The computer's side.                                                    *)

Heard(q) == waiting[q.dev] = q.ask

\* The answer, if the device still waits for it.
Answered(q) ==
    /\ pending' = pending \ {q}
    /\ waiting' = IF Heard(q) THEN [waiting EXCEPT ![q.dev] = None] ELSE waiting

\* What a device puts where another reaches it, that it may itself be given,
\* is meant for that other.
Meant(by, F) ==
    [d \in Device |-> meant[d] \cup
        {c \in meant[by] : \E p \in DOMAIN F.disk :
            F.disk[p] = c /\ SharedPathReachable(p, d)}]

\* A change made for a device, or refused; anyone who does not reach the
\* folder is told nothing is here.
Change(q, result) ==
    LET F == IF ReachesShared(q.dev) THEN result.F ELSE State
    IN  /\ Answered(q)
        /\ Becomes(F)
        /\ meant' = Meant(q.dev, F)
        /\ UNCHANGED <<shares, staged, old, sending, given, bounds, had>>

ServeMkdir(q) ==
    /\ q.ask.op = "mkdir"
    /\ Change(q, MakeFolder(State, q.dev, q.ask.path))
    /\ UNCHANGED <<unseen, carried>>

\* The folder f has a rule, and the request moves one around it, or puts one
\* around it.
MovesAround(q, f) ==
    /\ q.ask.op \in {"move", "copy"}
    /\ Under(f, q.ask.to) \/ (q.ask.op = "move" /\ Under(f, q.ask.from))

\* What a directory renamed took with it from a folder shared without the
\* device, which no row says: for the scan to find.
ServeMove(q) ==
    /\ q.ask.op = "move"
    /\ Change(q, MovePath(State, q.dev, q.ask.from, q.ask.to))
    /\ LET along == {disk[p] : p \in {x \in DOMAIN disk \ DOMAIN disk' :
                        \E f \in DOMAIN shares :
                            MovesAround(q, f) /\ AtOrUnder(x, f) /\ q.dev \notin shares[f]}}
       IN  /\ carried' = carried \cup along
           /\ unseen' = (unseen \/ along # {})

ServeCopy(q) ==
    /\ q.ask.op = "copy"
    /\ Change(q, CopyPath(State, q.dev, q.ask.from, q.ask.to))
    /\ UNCHANGED <<unseen, carried>>

ServeDelete(q) ==
    /\ q.ask.op = "delete"
    /\ Change(q, DeletePath(State, q.dev, q.ask.path))
    /\ UNCHANGED <<unseen, carried>>

ServeList(q) ==
    /\ q.ask.op = "list"
    /\ Answered(q)
    /\ given' = IF Heard(q) /\ ReachesShared(q.dev)
                THEN [given EXCEPT ![q.dev] = @ \cup Listing(q.dev, q.ask.dir)]
                ELSE given
    /\ UNCHANGED <<folder, shares, staged, old, sending, bounds, history>>

\* The bytes are read after the store is let go of, by their hash; a file
\* freed meanwhile is not found.
ServeFetch(q) ==
    /\ q.ask.op = "fetch"
    /\ Answered(q)
    /\ LET c == q.ask.content
       IN  given' = IF Heard(q) /\ MayFetch(c, q.dev) /\ c \in Contents(disk)
                    THEN [given EXCEPT ![q.dev] = @ \cup {c}] ELSE given
    /\ UNCHANGED <<folder, shares, staged, old, sending, bounds,
                   history>>

\* The client goes on to its next piece, or gives up.
Onward(q, noted) ==
    IF ~Heard(q) THEN sending
    ELSE [sending EXCEPT ![q.dev] =
            IF noted THEN [@ EXCEPT !.at = @ + 1] ELSE None]

\* One piece, in order only.  The first clears out uploads a day old.
ServePiece(q) ==
    LET k == <<q.dev, q.ask.id>>
        kept == IF q.ask.offset = 0 THEN Drop(staged, old) ELSE staged
        have == IF k \in DOMAIN kept THEN kept[k] ELSE <<>>
        noted == /\ ReachesShared(q.dev)
                 /\ q.ask.offset \in {0, Len(have)}
    IN  /\ q.ask.op = "piece"
        /\ Answered(q)
        /\ IF ReachesShared(q.dev)
           THEN /\ staged' =
                     IF ~noted THEN kept
                     ELSE Put(kept, k, IF q.ask.offset = 0 THEN <<q.ask.bytes>>
                                       ELSE Append(have, q.ask.bytes))
                /\ old' = (old \cap DOMAIN staged') \ (IF noted THEN {k} ELSE {})
           ELSE UNCHANGED <<staged, old>>
        /\ sending' = Onward(q, noted)
        /\ UNCHANGED <<folder, shares, given, bounds, history>>

ServeDone(q) ==
    LET k == <<q.dev, q.ask.id>>
        result == PlaceUpload(State, q.dev, staged[k], q.ask.path, q.ask.content)
        arrived == ReachesShared(q.dev) /\ k \in DOMAIN staged
        F == IF arrived THEN result.F ELSE State
        c == q.ask.content
    IN  /\ q.ask.op = "done"
        /\ Answered(q)
        /\ Becomes(F)
        /\ staged' = IF arrived THEN Drop(staged, {k}) ELSE staged
        /\ old' = old \ {k}
        /\ sending' = Onward(q, FALSE)
        /\ had' = IF arrived /\ result.done THEN had \cup {c} ELSE had
        /\ meant' = IF arrived /\ result.done
                    THEN [d \in Device |-> meant[d] \cup
                            {x \in {c} : d = q.dev \/ \E p \in DOMAIN F.disk :
                                F.disk[p] = c /\ SharedPathReachable(p, d)}]
                    ELSE meant
        /\ UNCHANGED <<shares, given, unseen, carried, bounds>>

-----------------------------------------------------------------------------
(* Connections and the computer failing.                                   *)

Fault == breaks < MaxBreaks /\ breaks' = breaks + 1

\* The connection breaks: the device stops waiting, and an upload in the
\* middle is given up.  What was asked may arrive all the same, or not.
Break(d) ==
    /\ Fault
    /\ waiting[d] # None
    /\ waiting' = [waiting EXCEPT ![d] = None]
    /\ sending' = [sending EXCEPT ![d] = None]
    /\ \/ UNCHANGED pending
       \/ pending' = {q \in pending : q.dev # d}
    /\ UNCHANGED <<folder, shares, staged, old, given, asks, edits,
                   history>>

\* A day passes: what waits in incoming/ is old.
Day ==
    /\ Fault
    /\ DOMAIN staged \ old # {}
    /\ old' = DOMAIN staged
    /\ UNCHANGED <<folder, shares, staged, wires, given, asks, edits,
                   history>>

\* Killed while moving a folder: some files moved, and one of them on disk
\* and not yet in the index.  Every connection is gone.
CrashInMove(q) ==
    LET from == q.ask.from
        to == q.ask.to
        inside == EntriesUnder(State, from, q.dev)
    IN  /\ Fault
        /\ q.ask.op = "move"
        /\ ReachesShared(q.dev) /\ Checked(from, q.dev) /\ Checked(to, q.dev)
        /\ ~Under(to, from) /\ ~Taken(State, to)
        /\ from \in dirs /\ ~RuleFileUnder(from) /\ CanMakeDirs(State, Parents(to))
        /\ \E done \in SUBSET inside, p \in inside :
              LET F == MoveFiles(State, done, from, to).F
              IN  /\ p \notin done
                  /\ CanRename(F, p, Rebased(p, from, to))
                  /\ Becomes(RenameOnDisk(F, p, Rebased(p, from, to)))
                  /\ meant' = Meant(q.dev,
                                    RenameOnDisk(F, p, Rebased(p, from, to)))
        /\ unseen' = TRUE
        /\ pending' = {}
        /\ waiting' = [d \in Device |-> None]
        /\ sending' = [d \in Device |-> None]
        /\ UNCHANGED <<shares, staged, old, given, asks, edits, carried, had>>

-----------------------------------------------------------------------------
(* The computer's person, and its own scan.                                *)

Edit == edits < MaxEdits /\ edits' = edits + 1

MeantAt(c, p) ==
    [d \in Device |-> IF SharedPathReachable(p, d) THEN meant[d] \cup {c}
                      ELSE meant[d]]

PersonPuts(p, f) ==
    /\ Edit
    /\ ~Taken(State, p)
    /\ \A x \in Parents(p) : x \notin DOMAIN disk
    /\ disk' = Put(disk, p, f)
    /\ dirs' = dirs \cup Parents(p)
    /\ unseen' = TRUE
    /\ had' = had \cup {f}
    /\ meant' = MeantAt(f, p)
    /\ UNCHANGED <<row, trash, shares, staged, old, wires, given,
                   asks, breaks, carried>>

\* What differs between the folder and the index is noticed: new and changed
\* files are recorded, and those gone, other than the freed, deleted.
Scan ==
    /\ row' = [p \in DOMAIN disk \cup {q \in DOMAIN row : ~row[q].here} |->
                 IF p \in DOMAIN disk
                 THEN [content |-> disk[p], here |-> TRUE] ELSE row[p]]
    /\ unseen
    /\ unseen' = FALSE
    /\ UNCHANGED <<disk, dirs, trash, shares, staged, old, wires,
                   given, bounds, history>>

\* A file another device keeps is freed: the row stays.
FreeFile(p) ==
    /\ Edit
    /\ p \in DOMAIN disk /\ p \in DOMAIN row
    /\ row[p] = [content |-> disk[p], here |-> TRUE]
    /\ row' = [row EXCEPT ![p].here = FALSE]
    /\ disk' = Drop(disk, {p})
    /\ had' = had \ {disk[p]}
    /\ UNCHANGED <<dirs, trash, unseen, shares, staged, old, wires, given,
                   asks, breaks, meant, carried>>

\* set_sharing and clear_sharing, and the tables rebuilt from the rule files.
\* This computer is always among the members; the set is the others.
SetSharing(f, members) ==
    /\ Edit
    /\ \A g \in DOMAIN shares : ~Under(g, f) /\ ~Under(f, g)
    /\ shares' = Put(shares, f, members)
    /\ meant' = [d \in Device |-> meant[d] \cup
                   {disk[p] : p \in {x \in DOMAIN disk : SharedPathReachable(x, d)'}}]
    /\ UNCHANGED <<folder, staged, old, wires, given, asks, breaks, carried,
                   had>>

ClearSharing(f) ==
    /\ Edit
    /\ f \in DOMAIN shares
    /\ shares' = Drop(shares, {f})
    /\ meant' = [d \in Device |-> meant[d] \cup
                   {disk[p] : p \in {x \in DOMAIN disk : SharedPathReachable(x, d)'}}]
    /\ UNCHANGED <<folder, staged, old, wires, given, asks, breaks, carried,
                   had>>

-----------------------------------------------------------------------------
Empty == [x \in {} |-> x]

Init ==
    /\ row = Empty /\ disk = Empty /\ dirs = {} /\ shares = Empty
    /\ trash = {} /\ staged = Empty /\ old = {} /\ pending = {}
    /\ waiting = [d \in Device |-> None]
    /\ sending = [d \in Device |-> None]
    /\ given = [d \in Device |-> {}]
    /\ unseen = FALSE
    /\ asks = 0 /\ edits = 0 /\ breaks = 0
    /\ meant = [d \in Device |-> {}]
    /\ carried = {}
    /\ had = {}

Request(d) ==
    \/ \E dir \in Place \cup {<<>>} : AskList(d, dir)
    \/ \E c \in File : AskFetch(d, c)
    \/ \E p \in Place : AskMkdir(d, p) \/ AskDelete(d, p)
    \/ \E from, to \in Place : AskMove(d, from, to) \/ AskCopy(d, from, to)
    \/ \E f \in Added, to \in Place : AddFile(d, f, to)
    \/ SendPiece(d)
    \/ SendDone(d)

Serve(q) ==
    \/ ServeMkdir(q) \/ ServeMove(q) \/ ServeCopy(q) \/ ServeDelete(q)
    \/ ServeList(q) \/ ServeFetch(q) \/ ServePiece(q) \/ ServeDone(q)

Person ==
    \/ \E p \in Place, f \in Written : PersonPuts(p, f)
    \/ \E p \in Place : FreeFile(p)
    \/ \E f \in RuleFolder :
          ClearSharing(f) \/ \E ms \in SUBSET Device : SetSharing(f, ms)

Next ==
    \/ \E d \in Device : Request(d) \/ Break(d)
    \/ \E q \in pending : Serve(q) \/ CrashInMove(q)
    \/ Person
    \/ Scan
    \/ Day

Spec == Init /\ [][Next]_vars

-----------------------------------------------------------------------------
(* Properties.                                                             *)

\* Every file and directory has a place that can be named, every request
\* waited for is one that was asked, and an upload is never past its end.
TypeOK ==
    /\ DOMAIN disk \cap dirs = {}
    /\ \A p \in DOMAIN disk : disk[p] \in Seq(UNION {{f[i] : i \in DOMAIN f} : f \in File})
    /\ \A p \in DOMAIN row : row[p].here \in BOOLEAN
    /\ DOMAIN shares \subseteq RuleFolder
    /\ old \subseteq DOMAIN staged
    /\ \A d \in Device : sending[d] # None => sending[d].at <= Len(sending[d].file)
    /\ asks \in 0..MaxAsks /\ edits \in 0..MaxEdits /\ breaks \in 0..MaxBreaks

\* Nothing a person or a phone put in the folder is lost by what any device
\* asks for: it is on disk, in Recently deleted, or freed and listed as kept
\* elsewhere.  (place and copy_path number a taken name instead of writing
\* over it, move_path refuses one, delete_path goes by way of the trash.)
NothingOverwritten ==
    had \subseteq Contents(disk) \cup {t.content : t \in trash}
                 \cup {row[p].content : p \in DOMAIN row}

\* Every change a request makes leaves the index saying what is on disk, so
\* that what devices are told of next is what is there: only what a person
\* does in the folder, a crash, or a folder moved with one shared without the
\* device in it, is left for the scan.
IndexInStep ==
    ~unseen =>
        /\ DOMAIN disk = {p \in DOMAIN row : row[p].here}
        /\ \A p \in DOMAIN disk : disk[p] = row[p].content

\* Does not hold (README, Divergences).
\* No request leaves anything for the scan.
RequestsLeaveNothing ==
    [][breaks' = breaks /\ pending \ pending' # {} => unseen' = unseen]_vars

\* A device is shown and given only what somebody who could see it put where
\* the sharing rules let that device reach; unless it came out from under its
\* rule with the folder around it.
LeftOutIsNotGiven ==
    \A d \in Device : given[d] \subseteq meant[d] \cup carried

\* Does not hold (README, Divergences).
\* The same, whatever folders are moved.
LeftOutIsNeverGiven == \A d \in Device : given[d] \subseteq meant[d]

\* Whatever a device asks for, other than to move or copy a folder around one of
\* them, leaves the folders shared without it as they are on disk.
FilesUnder(f, on) == {<<p, on[p]>> : p \in {x \in DOMAIN on : AtOrUnder(x, f)}}
Kept(f) == FilesUnder(f, disk') = FilesUnder(f, disk)
LeftOutChangesNothing ==
    [][\A f \in DOMAIN shares :
          /\ pending \ pending' # {}
          /\ \A q \in pending \ pending' :
                q.dev \notin shares[f] /\ ~MovesAround(q, f)
          => Kept(f)]_vars

\* Does not hold (README, Divergences).
\* Decision 0073: a folder with a sharing rule in it is not moved either.
LeftOutNeverChanges ==
    [][\A f \in DOMAIN shares :
          /\ pending \ pending' # {}
          /\ \A q \in pending \ pending' : q.dev \notin shares[f]
          => Kept(f)]_vars
=============================================================================
