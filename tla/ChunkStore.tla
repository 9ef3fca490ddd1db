----------------------------- MODULE ChunkStore -----------------------------
(***************************************************************************)
(* One device's store (crates/storage): the index, in SQLite, of files and *)
(* the chunks they are made of, and the chunk payloads on disk beside it,  *)
(* written and collected through several connections at once.              *)
(*                                                                         *)
(* The index changes only in transactions, one at a time; payloads come    *)
(* and go one by one, and a process may be killed between any two steps.   *)
(* The chunks of a file in the device's folder have no payload of their    *)
(* own: the file is read instead.  A replica has no folder.                *)
(***************************************************************************)
EXTENDS Naturals, Sequences, FiniteSets, Functions

CONSTANTS
  Writer,       \* connections that store and delete files
  Collector,    \* connections that collect garbage
  Chunk,        \* chunk hashes
  Path,
  Contents,     \* what files may contain: sequences of chunks
  None,         \* no folder, no file, no row, no chunk, nobody
  MaxOps,       \* bound: files stored and deleted
  MaxEdits,     \* bound: files the user changes in the folder
  MaxCrashes    \* bound: processes killed

ASSUME StoreAssumption ==
  /\ Writer \cap Collector = {} /\ None \notin Writer \cup Collector
  /\ None \notin Chunk
  /\ Contents \subseteq Seq(Chunk)
  /\ None \notin Contents /\ None \notin [Path -> Contents \cup {None}]
  /\ {MaxOps, MaxEdits, MaxCrashes} \subseteq Nat

VARIABLES
  folder,       \* folder[p]: the user's file at p; a replica has no folder
  files,        \* the rows of files, each with its rows of file_chunks
  known,        \* the rows of chunks
  payload,      \* payload[h]: the file of the chunk store named after h
  tmp,          \* tmp[h]: the file a payload is written to before its rename
  conn,         \* what each connection is doing
  lock,         \* the connection holding the index's write lock
  spent,
  withdrawn     \* history: reclaiming connections whose chunk the folder has
                \* stopped having since they read it there

vars == <<folder, files, known, payload, tmp, conn, lock, spent, withdrawn>>

-----------------------------------------------------------------------------
Conn == Writer \cup Collector

\* A row is the device's own, its file being in the folder if it has one, or
\* kept for another device.
Key == [area : {"own", "kept"}, path : Path]
Link == [seq : Nat, chunk : Chunk]
Row == [content : Contents, links : SUBSET Link, live : BOOLEAN, here : BOOLEAN]
Bytes == {"none", "partial", "whole"}

\* What a connection is in the middle of: put_manifest's two passes over the
\* chunks of content, release_unbacked, collect or reclaim.  cur is the chunk
\* being put, fd the name its open file has now, and todo the chunks still to be
\* seen to.
State == [step : {"idle", "pass", "write", "rename", "insert",
                  "deleted", "release", "collect", "reclaim"},
          key : Key \cup {None}, content : Contents \cup {None},
          tree : BOOLEAN, todo : SUBSET Chunk, cur : Chunk \cup {None},
          fd : {"tmp", "payload", "unlinked"},
          expired : SUBSET Key, doomed : SUBSET Chunk]

Idle == [step |-> "idle", key |-> None, content |-> None, tree |-> FALSE,
         todo |-> {}, cur |-> None, fd |-> "unlinked",
         expired |-> {}, doomed |-> {}]

\* withdrawn is part of ReclaimInv.
TypeOK ==
  /\ folder \in [Path -> Contents \cup {None}] \cup {None}
  /\ files \in [Key -> Row \cup {None}]
  /\ known \in SUBSET Chunk
  /\ payload \in [Chunk -> Bytes]
  /\ tmp \in [Chunk -> Bytes]
  /\ conn \in [Conn -> State]
  /\ lock \in Conn \cup {None}
  /\ spent \in [ops : Nat, edits : Nat, crashes : Nat]

Init ==
  /\ folder \in {None, [p \in Path |-> None]}
  /\ files = [k \in Key |-> None]
  /\ known = {}
  /\ payload = [h \in Chunk |-> "none"]
  /\ tmp = [h \in Chunk |-> "none"]
  /\ conn = [c \in Conn |-> Idle]
  /\ lock = None
  /\ spent = [ops |-> 0, edits |-> 0, crashes |-> 0]
  /\ withdrawn = {}

-----------------------------------------------------------------------------
\* Store::has_tree
HasTree == folder # None

Live(k) == files[k] # None /\ files[k].live

\* The rows of file_chunks of a file of content f, and the chunks in some rows.
FileChunks(f) == {[seq |-> i, chunk |-> f[i]] : i \in DOMAIN f}
ChunksOf(links) == {l.chunk : l \in links}

\* The triggers count a reference for every row of file_chunks, so a chunk's
\* refcount is zero when no row of files links it.
Linked(rows, h) == \E k \in Key : rows[k] # None /\ h \in ChunksOf(rows[k].links)

\* Db::has_chunk and Cas::contains
HasChunk(h) == h \in known
Contains(h) == payload[h] # "none"

\* Db::locate_chunk: after the chunks the list still has before it.
Position(links, l) == 1 + Cardinality({m \in links : m.seq < l.seq})

\* Store::chunk_from_tree: some live file said to be here is read where its
\* chunk list puts h, and has h there.
FromTree(h) ==
  /\ HasTree
  /\ \E k \in Key :
       /\ k.area = "own" /\ Live(k) /\ files[k].here /\ folder[k.path] # None
       /\ \E l \in files[k].links :
            /\ l.chunk = h
            /\ Position(files[k].links, l) \in DOMAIN folder[k.path]
            /\ folder[k.path][Position(files[k].links, l)] = h

\* The user writes or removes the file at p.
Edit(p, f) ==
  /\ HasTree /\ spent.edits < MaxEdits
  /\ folder[p] # f
  /\ folder' = [folder EXCEPT ![p] = f]
  /\ spent' = [spent EXCEPT !.edits = @ + 1]
  /\ UNCHANGED <<files, known, payload, tmp, conn, lock>>

-----------------------------------------------------------------------------
\* Store::supplies, for a row the folder may back.
Supplied(k) == k.area = "own" /\ HasTree /\ folder[k.path] # None

\* What a write of k reads: the file in the folder, or what a peer sent.
Source(k) ==
  IF k.area = "own" /\ HasTree THEN {folder[k.path]} \ {None} ELSE Contents

Unchanged(k, f) == Live(k) /\ files[k].content = f

\* put_manifest of a file whose content is the row's: only whether its bytes
\* are here is set.
PutUnchanged(c, k, f) ==
  /\ c \in Writer /\ conn[c].step = "idle" /\ lock = None
  /\ f \in Source(k) /\ Unchanged(k, f)
  /\ files' = [files EXCEPT ![k] = [@ EXCEPT !.here = Supplied(k) \/ ~HasTree]]
  /\ UNCHANGED <<folder, known, payload, tmp, conn, lock, spent>>

\* put_manifest begins: its first pass, without the lock.
Put(c, k, f) ==
  /\ c \in Writer /\ conn[c].step = "idle" /\ spent.ops < MaxOps
  /\ f \in Source(k) /\ ~Unchanged(k, f)
  /\ conn' = [conn EXCEPT ![c] =
                [Idle EXCEPT !.step = "pass", !.key = k, !.content = f,
                             !.tree = Supplied(k), !.todo = Range(f)]]
  /\ spent' = [spent EXCEPT !.ops = @ + 1]
  /\ UNCHANGED <<folder, files, known, payload, tmp, lock>>

InTransaction(c) == lock = c
NextChunk(c, h) == conn[c].step = "pass" /\ h \in conn[c].todo

\* In either pass, a chunk that is indexed and stored needs nothing; in the
\* transaction, nor does an indexed one the folder supplies.
Skip(c, h) ==
  /\ NextChunk(c, h) /\ HasChunk(h)
  /\ Contains(h) \/ (conn[c].tree /\ InTransaction(c))
  /\ conn' = [conn EXCEPT ![c] = [@ EXCEPT !.todo = conn[c].todo \ {h}]]
  /\ UNCHANGED <<folder, files, known, payload, tmp, lock, spent>>

\* Mutant of Establish: the transaction inserts what is missing, and trusts the
\* first pass for the payload.
EstablishOnce(c, h) ==
  /\ NextChunk(c, h) /\ ~(HasChunk(h) /\ Contains(h))
  /\ LET stored == conn[c].tree \/ Contains(h) \/ InTransaction(c)
     IN  /\ conn' = [conn EXCEPT ![c] =
                       [@ EXCEPT !.step = IF stored THEN "insert" ELSE "write",
                                 !.cur = h, !.fd = "tmp"]]
         /\ tmp' = [tmp EXCEPT ![h] = IF stored THEN @ ELSE "partial"]
  /\ UNCHANGED <<folder, files, known, payload, lock, spent>>

\* Any other chunk is put, unless the folder supplies it, and inserted.
\* Cas::put returns at once if the payload is there, and otherwise creates the
\* temporary file, emptying one that is there already.
Establish(c, h) ==
  /\ NextChunk(c, h)
  /\ ~HasChunk(h) \/ (~Contains(h) /\ ~(conn[c].tree /\ InTransaction(c)))
  /\ LET stored == conn[c].tree \/ Contains(h)
     IN  /\ conn' = [conn EXCEPT ![c] =
                       [@ EXCEPT !.step = IF stored THEN "insert" ELSE "write",
                                 !.cur = h, !.fd = "tmp"]]
         /\ tmp' = [tmp EXCEPT ![h] = IF stored THEN @ ELSE "partial"]
  /\ UNCHANGED <<folder, files, known, payload, lock, spent>>

\* Cas::put writes the open file, whatever name that has now, and syncs it.
Write(c) ==
  /\ conn[c].step = "write"
  /\ LET h == conn[c].cur
     IN  /\ tmp' = [tmp EXCEPT ![h] = IF conn[c].fd = "tmp" THEN "whole" ELSE @]
         /\ payload' = [payload EXCEPT ![h] =
                          IF conn[c].fd = "payload" THEN "whole" ELSE @]
  /\ conn' = [conn EXCEPT ![c] = [@ EXCEPT !.step = "rename"]]
  /\ UNCHANGED <<folder, files, known, lock, spent>>

\* Cas::put renames the temporary file, which other connections writing the
\* same chunk may have open.
Rename(c) ==
  /\ conn[c].step = "rename" /\ tmp[conn[c].cur] # "none"
  /\ LET h == conn[c].cur
     IN  /\ payload' = [payload EXCEPT ![h] = tmp[h]]
         /\ tmp' = [tmp EXCEPT ![h] = "none"]
         /\ conn' = [x \in Conn |->
              IF x = c THEN [conn[c] EXCEPT !.step = "insert"]
              ELSE IF conn[x].cur # h THEN conn[x]
              ELSE IF conn[x].fd = "tmp" THEN [conn[x] EXCEPT !.fd = "payload"]
              ELSE [conn[x] EXCEPT !.fd = "unlinked"]]
  /\ UNCHANGED <<folder, files, known, lock, spent>>

\* The rename finds another connection has made it: the write is refused.
RenameFails(c) ==
  /\ conn[c].step = "rename" /\ tmp[conn[c].cur] = "none"
  /\ conn' = [conn EXCEPT ![c] = Idle]
  /\ lock' = IF InTransaction(c) THEN None ELSE lock
  /\ UNCHANGED <<folder, files, known, payload, tmp, spent>>

\* Db::insert_chunk, with no reference yet; in the transaction, part of it.
Insert(c) ==
  /\ conn[c].step = "insert" /\ lock \in {None, c}
  /\ known' = IF InTransaction(c) THEN known ELSE known \cup {conn[c].cur}
  /\ conn' = [conn EXCEPT ![c] =
                [@ EXCEPT !.step = "pass", !.cur = None,
                          !.todo = conn[c].todo \ {conn[c].cur}]]
  /\ UNCHANGED <<folder, files, payload, tmp, lock, spent>>

\* The second pass, in a transaction that holds the write lock.
Immediate(c) ==
  /\ conn[c].step = "pass" /\ conn[c].todo = {} /\ lock = None
  /\ lock' = c
  /\ conn' = [conn EXCEPT ![c] = [@ EXCEPT !.todo = Range(conn[c].content)]]
  /\ UNCHANGED <<folder, files, known, payload, tmp, spent>>

\* The row and its chunk list are replaced, and the transaction commits.
Commit(c) ==
  /\ conn[c].step = "pass" /\ conn[c].todo = {} /\ InTransaction(c)
  /\ files' = [files EXCEPT ![conn[c].key] =
                 [content |-> conn[c].content, links |-> FileChunks(conn[c].content),
                  live |-> TRUE, here |-> conn[c].tree \/ ~HasTree]]
  /\ known' = known \cup Range(conn[c].content)
  /\ conn' = [conn EXCEPT ![c] = Idle]
  /\ lock' = None
  /\ UNCHANGED <<folder, payload, tmp, spent>>

-----------------------------------------------------------------------------
\* Store::tombstone, for delete_file, a deletion adopted or unhold.  The row
\* keeps its chunk list.  A file of the folder is gone from it by now.
Tombstone(c, k) ==
  /\ c \in Writer /\ conn[c].step = "idle" /\ lock = None /\ spent.ops < MaxOps
  /\ Live(k) /\ ~Supplied(k)
  /\ files' = [files EXCEPT ![k] = [@ EXCEPT !.live = FALSE]]
  /\ conn' = IF k.area = "own" /\ HasTree
               THEN [conn EXCEPT ![c] = [Idle EXCEPT !.step = "deleted", !.key = k]]
               ELSE conn
  /\ spent' = [spent EXCEPT !.ops = @ + 1]
  /\ UNCHANGED <<folder, known, payload, tmp, lock>>

\* Store::release_unbacked: the chunks of the row that went with the file are
\* those without a payload.
Unbacked(c) ==
  /\ conn[c].step = "deleted"
  /\ LET row  == files[conn[c].key]
         gone == IF row = None THEN {} ELSE {h \in ChunksOf(row.links) : ~Contains(h)}
     IN  conn' = [conn EXCEPT ![c] =
                    IF gone = {} THEN Idle
                    ELSE [@ EXCEPT !.step = "release", !.todo = gone]]
  /\ UNCHANGED <<folder, files, known, payload, tmp, lock, spent>>

\* Its references to them go one at a time.
Release(c, h) ==
  /\ conn[c].step = "release" /\ h \in conn[c].todo /\ lock = None
  /\ LET k == conn[c].key
     IN  files' = IF files[k] = None THEN files
                  ELSE [files EXCEPT ![k] =
                          [@ EXCEPT !.links = {l \in files[k].links : l.chunk # h}]]
  /\ conn' = [conn EXCEPT ![c] = IF conn[c].todo = {h} THEN Idle
                                 ELSE [@ EXCEPT !.todo = conn[c].todo \ {h}]]
  /\ UNCHANGED <<folder, known, payload, tmp, lock, spent>>

-----------------------------------------------------------------------------
\* A refcount of zero, before this collection: what its expired tombstones
\* release has not been released for long enough.
Collectable(h) == HasChunk(h) /\ ~Linked(files, h)

\* gc::collect begins its transaction: some tombstones have expired, and some
\* chunks have been without a reference for long enough.
Collect(c, expired, doomed) ==
  /\ c \in Collector /\ conn[c].step = "idle" /\ lock = None
  /\ \A k \in expired : files[k] # None /\ ~files[k].live
  /\ \A h \in doomed : Collectable(h)
  /\ expired # {} \/ doomed # {}
  /\ lock' = c
  /\ conn' = [conn EXCEPT ![c] = [Idle EXCEPT !.step = "collect", !.todo = doomed,
                                     !.expired = expired, !.doomed = doomed]]
  /\ UNCHANGED <<folder, files, known, payload, tmp, spent>>

\* What the files open on h's payload are once it is unlinked.
Unlinked(h) ==
  [x \in Conn |-> IF conn[x].cur = h /\ conn[x].fd = "payload"
                    THEN [conn[x] EXCEPT !.fd = "unlinked"] ELSE conn[x]]

\* It removes payloads before the transaction that forgets them commits.
RemovePayload(c, h) ==
  /\ conn[c].step = "collect" /\ h \in conn[c].todo
  /\ payload' = [payload EXCEPT ![h] = "none"]
  /\ conn' = [Unlinked(h) EXCEPT ![c] = [@ EXCEPT !.todo = conn[c].todo \ {h}]]
  /\ UNCHANGED <<folder, files, known, tmp, lock, spent>>

CommitCollection(c) ==
  /\ conn[c].step = "collect" /\ conn[c].todo = {}
  /\ files' = [k \in Key |-> IF k \in conn[c].expired THEN None ELSE files[k]]
  /\ known' = known \ conn[c].doomed
  /\ conn' = [conn EXCEPT ![c] = Idle]
  /\ lock' = None
  /\ UNCHANGED <<folder, payload, tmp, spent>>

\* gc::sweep_orphans, under the write lock: payloads the index does not know.
Sweep(c, h) ==
  /\ c \in Collector /\ conn[c].step = "idle" /\ lock = None
  /\ Contains(h) /\ ~HasChunk(h)
  /\ payload' = [payload EXCEPT ![h] = "none"]
  /\ conn' = Unlinked(h)
  /\ UNCHANGED <<folder, files, known, tmp, lock, spent>>

Reclaiming(c, h) ==
  [conn EXCEPT ![c] = [Idle EXCEPT !.step = "reclaim", !.todo = {h}]]

\* Mutant of ReclaimRead: the folder is taken to have what the index says it has.
ReclaimUnread(c, h) ==
  /\ c \in Collector /\ conn[c].step = "idle"
  /\ HasTree /\ Contains(h)
  /\ \E k \in Key : Live(k) /\ files[k].here /\ h \in ChunksOf(files[k].links)
  /\ conn' = Reclaiming(c, h)
  /\ UNCHANGED <<folder, files, known, payload, tmp, lock, spent>>

\* Store::reclaim, of one payload: its bytes are read from the folder.
ReclaimRead(c, h) ==
  /\ c \in Collector /\ conn[c].step = "idle"
  /\ Contains(h) /\ FromTree(h)
  /\ conn' = Reclaiming(c, h)
  /\ UNCHANGED <<folder, files, known, payload, tmp, lock, spent>>

\* Then the payload goes, whatever the folder has by now: no transaction is open
\* and nothing is read again.
ReclaimRemove(c, h) ==
  /\ conn[c].step = "reclaim" /\ h \in conn[c].todo
  /\ payload' = [payload EXCEPT ![h] = "none"]
  /\ conn' = [Unlinked(h) EXCEPT ![c] = Idle]
  /\ UNCHANGED <<folder, files, known, tmp, lock, spent>>

\* A process is killed: its transaction is rolled back, what it did to files
\* is done.
Crash(c) ==
  /\ spent.crashes < MaxCrashes /\ conn[c] # Idle
  /\ conn' = [conn EXCEPT ![c] = Idle]
  /\ lock' = IF InTransaction(c) THEN None ELSE lock
  /\ spent' = [spent EXCEPT !.crashes = @ + 1]
  /\ UNCHANGED <<folder, files, known, payload, tmp>>

-----------------------------------------------------------------------------
Storing(c) ==
  \/ \E k \in Key, f \in Contents : PutUnchanged(c, k, f) \/ Put(c, k, f)
  \/ \E h \in Chunk : Skip(c, h) \/ Establish(c, h) \/ Release(c, h)
  \/ Write(c) \/ Rename(c) \/ RenameFails(c) \/ Insert(c)
  \/ Immediate(c) \/ Commit(c)
  \/ \E k \in Key : Tombstone(c, k)
  \/ Unbacked(c)

Collecting(c) ==
  \/ \E expired \in SUBSET Key, doomed \in SUBSET Chunk : Collect(c, expired, doomed)
  \/ \E h \in Chunk : RemovePayload(c, h) \/ Sweep(c, h)
  \/ \E h \in Chunk : ReclaimRead(c, h) \/ ReclaimRemove(c, h)
  \/ CommitCollection(c)

\* What a reclaiming connection has read in the folder goes from there while its
\* payload is still to be removed.
Withdrawing(c) ==
  /\ conn[c].step = "reclaim" /\ conn'[c].step = "reclaim"
  /\ c \in withdrawn \/ \E h \in conn[c].todo : FromTree(h) /\ ~FromTree(h)'

Step ==
  \/ \E p \in Path, f \in Contents \cup {None} : Edit(p, f)
  \/ \E c \in Conn : Storing(c) \/ Collecting(c) \/ Crash(c)

Next == Step /\ withdrawn' = {c \in Conn : Withdrawing(c)}

Spec == Init /\ [][Next]_vars

-----------------------------------------------------------------------------
\* "A chunk referenced by the index always exists on disk" (tests/crash.rs), on
\* a device whose chunks are all in the chunk store, tombstones included:
\* whatever writes, collects or is killed meanwhile.
NoDangling ==
  ~HasTree => \A h \in Chunk : Linked(files, h) => HasChunk(h) /\ Contains(h)

\* What makes NoDangling inductive.  A reference is to a row of chunks, as the
\* foreign key has it; and what the holder of the write lock has found out --
\* which payloads are there, or which chunks have no reference -- stays so until
\* its transaction ends.
ReferencesKnown == \A h \in Chunk : Linked(files, h) => HasChunk(h)

Putting == {"pass", "write", "rename", "insert"}
Sound(c) ==
  LET s == conn[c]
  IN  /\ s.step \in Putting =>
           s.key \in Key /\ s.content \in Contents /\ (s.tree => HasTree)
      /\ s.step \in {"write", "rename", "insert"} => s.cur \in Chunk
      /\ s.step \in {"deleted", "release"} => s.key \in Key
      /\ s.step = "collect" =>
           lock = c /\ s.todo \subseteq s.doomed /\ \A h \in s.doomed : ~Linked(files, h)
      /\ lock = c => s.step \in Putting \cup {"collect"}
      /\ ~HasTree /\ lock = c /\ s.step \in Putting =>
           /\ \A h \in Range(s.content) \ s.todo : Contains(h)
           /\ s.step = "insert" => Contains(s.cur)

StoreInv ==
  /\ TypeOK /\ NoDangling /\ ReferencesKnown
  /\ \A c \in Conn : Sound(c)

\* What reclaim is about to remove the folder has, or had when it was read.
ReadThere(c) ==
  conn[c].step = "reclaim" =>
    HasTree /\ \A h \in conn[c].todo : FromTree(h) \/ c \in withdrawn
ReclaimInv == withdrawn \in SUBSET Conn /\ \A c \in Conn : ReadThere(c)

\* Does not hold (README, Divergences).
\* A payload under its name is whole, or some connection is writing it: a crash
\* leaves no partial one there, which is what Cas::put's rename is for.
PayloadsWhole ==
  \A h \in Chunk : payload[h] = "partial" =>
    \E c \in Conn : conn[c].step = "write" /\ conn[c].cur = h

\* No payload a live file needs is removed, unless the folder has its bytes at
\* that moment; or reclaim read them there, and they went before it removed the
\* payload: the file edited, or its row replaced.
Removes(h) == Contains(h) /\ ~Contains(h)'
Needed(h) == \E k \in Key : Live(k) /\ h \in ChunksOf(files[k].links)
ReadBefore(h) == \E c \in withdrawn : h \in conn[c].todo
NeededKept == \A h \in Chunk : Removes(h) /\ Needed(h) => FromTree(h) \/ ReadBefore(h)
NeededPayloadsStay == [][NeededKept]_vars

\* Does not hold (README, Divergences).
\* "A chunk is only ever dropped once the bytes are known to be readable
\* somewhere else" (Store::reclaim): they are not known to be so still.
DroppedIsReadable ==
  [][\A h \in Chunk : Removes(h) /\ Needed(h) => FromTree(h)]_vars

\* Does not hold (README, Divergences).
\* What is kept for another device can be given back to it: it does not lean on
\* the user's own file of the same content.
KeptReadable ==
  \A k \in Key : k.area = "kept" /\ Live(k) =>
    \A h \in ChunksOf(files[k].links) : payload[h] = "whole" \/ FromTree(h)
=============================================================================
