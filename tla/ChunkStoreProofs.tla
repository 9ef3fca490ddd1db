-------------------------- MODULE ChunkStoreProofs --------------------------
(***************************************************************************)
(* Proofs about ChunkStore, for any connections, chunks, paths, contents   *)
(* and bounds.                                                             *)
(***************************************************************************)
EXTENDS ChunkStore, TLAPS

\* The rows of file_chunks written for a file are its chunks.
LEMMA ChunksOfFile ==
  ASSUME NEW f \in Contents
  PROVE  /\ FileChunks(f) \in SUBSET Link
         /\ ChunksOf(FileChunks(f)) = Range(f)
         /\ Range(f) \subseteq Chunk
<1>1. f \in Seq(Chunk)
  BY StoreAssumption
<1>2. DOMAIN f \subseteq Nat /\ \A i \in DOMAIN f : f[i] \in Chunk
  BY <1>1
<1>3. FileChunks(f) \in SUBSET Link
  BY <1>2 DEF FileChunks, Link
<1>4. ChunksOf(FileChunks(f)) \subseteq Range(f)
  BY DEF FileChunks, ChunksOf, Range
<1>5. Range(f) \subseteq ChunksOf(FileChunks(f))
  <2> SUFFICES ASSUME NEW i \in DOMAIN f PROVE f[i] \in ChunksOf(FileChunks(f))
    BY DEF Range
  <2>1. [seq |-> i, chunk |-> f[i]] \in FileChunks(f)
    BY DEF FileChunks
  <2>2. [seq |-> i, chunk |-> f[i]].chunk = f[i]
    OBVIOUS
  <2> QED BY <2>1, <2>2 DEF ChunksOf
<1>6. Range(f) \subseteq Chunk
  BY <1>2 DEF Range
<1> QED BY <1>3, <1>4, <1>5, <1>6

\* A step leaves x where it was: at most the name of the file it has open for
\* writing has changed.
Waits(x) ==
  /\ conn'[x].step = conn[x].step /\ conn'[x].key = conn[x].key
  /\ conn'[x].content = conn[x].content /\ conn'[x].tree = conn[x].tree
  /\ conn'[x].todo = conn[x].todo /\ conn'[x].cur = conn[x].cur
  /\ conn'[x].doomed = conn[x].doomed
  /\ (lock = x <=> lock' = x)

\* What the index links, and what the chunk store has, as the holder of the
\* write lock relies on it.
LinksNothingNew == \A h \in Chunk : Linked(files, h)' => Linked(files, h)
RemovesNothing == \A h \in Chunk : Contains(h) => Contains(h)'

\* A connection that waits stays sound, if a step of another adds no link and
\* removes no payload while it holds the write lock.
LEMMA WaitsSound ==
  ASSUME TypeOK, NEW x \in Conn, Sound(x), Waits(x), HasTree' <=> HasTree,
         lock = x => LinksNothingNew,
         lock = x /\ ~HasTree => RemovesNothing
  PROVE  Sound(x)'
<1>1. conn[x].doomed \subseteq Chunk
  BY DEF TypeOK, State
<1>2. conn[x].content \in Contents => Range(conn[x].content) \subseteq Chunk
  BY ChunksOfFile
<1>3. conn[x].step = "insert" => conn[x].cur \in Chunk
  BY DEF Sound
<1>4. conn[x].step \in Putting => conn[x].content \in Contents
  BY DEF Sound
<1>5. conn[x].step = "insert" => conn[x].step \in Putting
  BY DEF Putting
<1> QED BY <1>1, <1>2, <1>3, <1>4, <1>5
        DEF Sound, Waits, LinksNothingNew, RemovesNothing

\* The same for all connections but c.
LEMMA OthersSound ==
  ASSUME StoreInv, NEW c \in Conn, Sound(c)', HasTree' <=> HasTree,
         \A x \in Conn \ {c} : Waits(x),
         lock \in {None, c} \/ LinksNothingNew,
         lock \in {None, c} \/ HasTree \/ RemovesNothing
  PROVE  \A x \in Conn : Sound(x)'
<1> SUFFICES ASSUME NEW x \in Conn, x # c PROVE Sound(x)'
  OBVIOUS
<1>1. lock = x => lock \notin {None, c}
  BY StoreAssumption DEF Conn
<1> QED BY <1>1, WaitsSound DEF StoreInv

\* With the index as it was and no payload removed, references stay good.
LEMMA ReferencesStay ==
  ASSUME StoreInv, LinksNothingNew, RemovesNothing, HasTree' <=> HasTree,
         known \subseteq known'
  PROVE  NoDangling' /\ ReferencesKnown'
BY DEF StoreInv, NoDangling, ReferencesKnown, LinksNothingNew, RemovesNothing,
       HasChunk

\* A step that removes no payload removes none that is needed.
LEMMA NothingNeededRemoved ==
  ASSUME RemovesNothing
  PROVE  NeededKept
BY DEF NeededKept, Removes, RemovesNothing

-----------------------------------------------------------------------------
\* A new store is sound.
LEMMA InitInv == Init => StoreInv
<1> SUFFICES ASSUME Init PROVE StoreInv
  OBVIOUS
<1>1. Idle \in State
  BY DEF Idle, State
<1>2. TypeOK
  BY <1>1, StoreAssumption DEF Init, TypeOK, Bytes
<1>3. \A h \in Chunk : ~Linked(files, h)
  BY DEF Init, Linked
<1>4. ASSUME NEW c \in Conn PROVE Sound(c)
  <2>1. conn[c].step = "idle" /\ lock # c
    BY StoreAssumption DEF Init, Idle, Conn
  <2> QED BY <2>1 DEF Sound, Putting
<1> QED BY <1>2, <1>3, <1>4 DEF StoreInv, NoDangling, ReferencesKnown

\* The user changes the folder: the index and the chunk store are as before,
\* and a device with a folder still has one.
LEMMA EditStep ==
  ASSUME StoreInv, NEW p \in Path, NEW f \in Contents \cup {None}, Edit(p, f)
  PROVE  StoreInv' /\ NeededKept
<1>1. TypeOK
  BY DEF StoreInv
<1>2. folder' \in [Path -> Contents \cup {None}]
  BY <1>1 DEF TypeOK, Edit, HasTree
<1>3. HasTree' <=> HasTree
  BY <1>2, StoreAssumption DEF Edit, HasTree
<1>4. TypeOK'
  BY <1>1, <1>2 DEF TypeOK, Edit
<1>5. LinksNothingNew /\ RemovesNothing /\ known \subseteq known'
  BY DEF Edit, LinksNothingNew, RemovesNothing, Linked, Contains
<1>6. \A x \in Conn : Sound(x)'
  <2> TAKE x \in Conn
  <2>1. Waits(x)
    BY DEF Edit, Waits
  <2> QED BY <1>1, <1>3, <1>5, <2>1, WaitsSound DEF StoreInv
<1> QED BY <1>3, <1>4, <1>5, <1>6, ReferencesStay, NothingNeededRemoved DEF StoreInv

-----------------------------------------------------------------------------
\* A step of c that changes neither the index nor the folder and removes no
\* payload: c itself is all there is to look at.
LEMMA QuietStep ==
  ASSUME StoreInv, NEW c \in Conn, TypeOK', Sound(c)',
         UNCHANGED <<folder, files>>, known \subseteq known', RemovesNothing,
         \A x \in Conn \ {c} : Waits(x)
  PROVE  StoreInv' /\ NeededKept
<1>1. LinksNothingNew /\ (HasTree' <=> HasTree)
  BY DEF LinksNothingNew, Linked, HasTree
<1>2. \A x \in Conn : Sound(x)'
  BY <1>1, OthersSound
<1> QED BY <1>1, <1>2, ReferencesStay, NothingNeededRemoved DEF StoreInv

\* put_manifest's passes over the chunks of a file.
LEMMA PassStep ==
  ASSUME StoreInv, NEW c \in Conn, NEW h \in Chunk, Skip(c, h) \/ Establish(c, h)
  PROVE  StoreInv' /\ NeededKept
<1>1. TypeOK /\ Sound(c) /\ conn[c] \in State
  BY DEF StoreInv, TypeOK
<1>2. /\ conn[c].step = "pass" /\ conn[c].step \in Putting
      /\ UNCHANGED <<folder, files, known, payload, lock, spent>>
  BY DEF Skip, Establish, NextChunk, Putting
<1>3. RemovesNothing /\ known \subseteq known'
  BY <1>2 DEF RemovesNothing, Contains
<1>4. \A x \in Conn \ {c} : Waits(x)
  BY <1>1, <1>2 DEF Skip, Establish, Waits, TypeOK
<1>5. CASE Skip(c, h)
  <2> DEFINE s == [conn[c] EXCEPT !.todo = @ \ {h}]
  <2>1. s \in State
    BY <1>1 DEF State
  <2>2. conn'[c] = s /\ conn' = [conn EXCEPT ![c] = s]
    BY <1>1, <1>5 DEF Skip, TypeOK
  <2>3. TypeOK'
    BY <1>1, <1>2, <1>5, <2>1, <2>2 DEF Skip, TypeOK
  <2>4. ~HasTree /\ lock = c => Contains(h)
    BY <1>1, <1>2, <1>5 DEF Skip, Sound
  <2>5. /\ s.step = "pass" /\ s.key = conn[c].key /\ s.content = conn[c].content
        /\ s.tree = conn[c].tree /\ s.todo = conn[c].todo \ {h}
    BY <1>1, <1>2 DEF State
  <2>6. Sound(c)'
    <3> HIDE DEF s
    <3> QED BY <1>1, <1>2, <2>2, <2>4, <2>5 DEF Sound, Putting, HasTree, Contains
  <2> QED BY <1>2, <1>3, <1>4, <2>3, <2>6, QuietStep
<1>6. CASE Establish(c, h)
  <2> DEFINE stored == conn[c].tree \/ Contains(h)
             s == [conn[c] EXCEPT !.step = IF stored THEN "insert" ELSE "write",
                                  !.cur = h, !.fd = "tmp"]
  <2>1. s \in State
    BY <1>1 DEF State
  <2>2. conn'[c] = s /\ conn' = [conn EXCEPT ![c] = s]
    BY <1>1, <1>6 DEF Establish, TypeOK
  <2>3. tmp' \in [Chunk -> Bytes]
    BY <1>1, <1>6 DEF Establish, TypeOK, Bytes
  <2>4. TypeOK'
    BY <1>1, <1>2, <2>1, <2>2, <2>3 DEF TypeOK
  <2>5. ~HasTree /\ stored => Contains(h)
    BY <1>1, <1>2 DEF Sound
  <2>6. /\ s.step = IF stored THEN "insert" ELSE "write"
        /\ s.key = conn[c].key /\ s.content = conn[c].content
        /\ s.tree = conn[c].tree /\ s.todo = conn[c].todo /\ s.cur = h
    BY <1>1 DEF State
  <2>7. Sound(c)'
    <3> HIDE DEF s, stored
    <3> QED BY <1>1, <1>2, <2>2, <2>5, <2>6 DEF Sound, Putting, HasTree, Contains
  <2> QED BY <1>2, <1>3, <1>4, <2>4, <2>7, QuietStep
<1> QED BY <1>5, <1>6

\* Cas::put: the payload is written beside its name and renamed to it.
LEMMA CasStep ==
  ASSUME StoreInv, NEW c \in Conn, Write(c) \/ Rename(c)
  PROVE  StoreInv' /\ NeededKept
<1>1. TypeOK /\ Sound(c) /\ conn[c] \in State
  BY DEF StoreInv, TypeOK
<1>2. /\ conn[c].step \in {"write", "rename"} /\ conn[c].step \in Putting
      /\ UNCHANGED <<folder, files, known, lock, spent>>
  BY DEF Write, Rename, Putting
<1>3. conn[c].cur \in Chunk
  BY <1>1, <1>2 DEF Sound
<1>4. CASE Write(c)
  <2> DEFINE s == [conn[c] EXCEPT !.step = "rename"]
  <2>1. s \in State
    BY <1>1 DEF State
  <2>2. conn'[c] = s /\ conn' = [conn EXCEPT ![c] = s]
    BY <1>1, <1>4 DEF Write, TypeOK
  <2>3. tmp' \in [Chunk -> Bytes] /\ payload' \in [Chunk -> Bytes]
    BY <1>1, <1>4 DEF Write, TypeOK, Bytes
  <2>4. TypeOK'
    BY <1>1, <1>2, <2>1, <2>2, <2>3 DEF TypeOK
  <2>5. RemovesNothing
    BY <1>1, <1>4 DEF Write, RemovesNothing, Contains, TypeOK
  <2>6. /\ s.step = "rename" /\ s.key = conn[c].key /\ s.content = conn[c].content
        /\ s.tree = conn[c].tree /\ s.todo = conn[c].todo /\ s.cur = conn[c].cur
    BY <1>1 DEF State
  <2>7. \A x \in Conn \ {c} : Waits(x)
    BY <1>1, <1>2, <2>2 DEF Waits, TypeOK
  <2>8. conn[c].content \in Contents /\ Range(conn[c].content) \subseteq Chunk
    BY <1>1, <1>2, ChunksOfFile DEF Sound
  <2>9. Sound(c)'
    <3> HIDE DEF s
    <3> QED BY <1>1, <1>2, <1>3, <2>2, <2>5, <2>6, <2>8
            DEF Sound, Putting, HasTree, RemovesNothing
  <2> QED BY <1>2, <2>4, <2>5, <2>7, <2>9, QuietStep
<1>5. CASE Rename(c)
  <2> DEFINE s == [conn[c] EXCEPT !.step = "insert"]
  <2>1. s \in State
    BY <1>1 DEF State
  <2>2. \A x \in Conn : conn[x] \in State
    BY <1>1 DEF TypeOK
  <2>3. ASSUME NEW x \in Conn, x # c
        PROVE  conn'[x] \in State /\ Waits(x)
    <3>1. conn'[x] \in {conn[x], [conn[x] EXCEPT !.fd = "payload"],
                        [conn[x] EXCEPT !.fd = "unlinked"]}
      BY <1>5, <2>3 DEF Rename
    <3> QED BY <1>2, <2>2, <3>1 DEF State, Waits
  <2>4. conn'[c] = s
    BY <1>5 DEF Rename
  <2>5. conn' \in [Conn -> State]
    <3>1. \A x \in Conn : conn'[x] \in State
      BY <2>1, <2>3, <2>4
    <3>2. DOMAIN conn' = Conn /\ conn' = [x \in Conn |-> conn'[x]]
      BY <1>5 DEF Rename
    <3> QED BY <3>1, <3>2
  <2>6. tmp' \in [Chunk -> Bytes] /\ payload' \in [Chunk -> Bytes]
    BY <1>1, <1>3, <1>5 DEF Rename, TypeOK, Bytes
  <2>7. TypeOK'
    BY <1>1, <1>2, <2>5, <2>6 DEF TypeOK
  <2>8. RemovesNothing /\ payload'[conn[c].cur] # "none"
    BY <1>1, <1>3, <1>5 DEF Rename, RemovesNothing, Contains, TypeOK
  <2>9. /\ s.step = "insert" /\ s.key = conn[c].key /\ s.content = conn[c].content
        /\ s.tree = conn[c].tree /\ s.todo = conn[c].todo /\ s.cur = conn[c].cur
    BY <1>1 DEF State
  <2>10. conn[c].content \in Contents /\ Range(conn[c].content) \subseteq Chunk
    BY <1>1, <1>2, ChunksOfFile DEF Sound
  <2>11. Sound(c)'
    <3>1. payload'[conn'[c].cur] # "none"
      BY <2>4, <2>8, <2>9
    <3> HIDE DEF s
    <3> QED BY <1>1, <1>2, <1>3, <2>4, <2>8, <2>9, <2>10, <3>1
            DEF Sound, Putting, HasTree, RemovesNothing, Contains
  <2> QED BY <1>2, <2>3, <2>7, <2>8, <2>11, QuietStep
<1> QED BY <1>4, <1>5

\* A write that begins, goes on to its transaction or is refused, and a chunk
\* row inserted.
LEMMA ManifestStep ==
  ASSUME StoreInv, NEW c \in Conn,
         \/ \E k \in Key, f \in Contents : Put(c, k, f)
         \/ RenameFails(c) \/ Insert(c) \/ Immediate(c)
  PROVE  StoreInv' /\ NeededKept
<1>1. TypeOK /\ Sound(c) /\ conn[c] \in State
  BY DEF StoreInv, TypeOK
<1>2. UNCHANGED <<folder, files, payload, tmp>>
  BY DEF Put, RenameFails, Insert, Immediate
<1>3. RemovesNothing
  BY <1>2 DEF RemovesNothing, Contains
<1>4. c # None
  BY StoreAssumption DEF Conn
<1>5. CASE \E k \in Key, f \in Contents : Put(c, k, f)
  <2>1. PICK k \in Key, f \in Contents : Put(c, k, f)
    BY <1>5
  <2> DEFINE s == [Idle EXCEPT !.step = "pass", !.key = k, !.content = f,
                               !.tree = Supplied(k), !.todo = Range(f)]
  <2>2. /\ s.step = "pass" /\ s.key = k /\ s.content = f
        /\ s.tree = Supplied(k) /\ s.todo = Range(f)
    BY DEF Idle
  <2>3. Supplied(k) \in BOOLEAN /\ (Supplied(k) => HasTree)
    BY DEF Supplied
  <2>4. s \in State
    BY <2>3, ChunksOfFile DEF Idle, State
  <2>5. conn'[c] = s /\ conn' = [conn EXCEPT ![c] = s]
    BY <1>1, <2>1 DEF Put, TypeOK
  <2>6. lock # c /\ lock' = lock /\ known' = known
    BY <1>1, <2>1 DEF Put, Sound, Putting
  <2>7. spent' \in [ops : Nat, edits : Nat, crashes : Nat]
    <3>1. spent' = [spent EXCEPT !.ops = spent.ops + 1]
      BY <2>1 DEF Put
    <3> QED BY <1>1, <3>1 DEF TypeOK
  <2>8. TypeOK'
    BY <1>1, <1>2, <2>4, <2>5, <2>6, <2>7 DEF TypeOK
  <2>9. \A x \in Conn \ {c} : Waits(x)
    BY <1>1, <2>5, <2>6 DEF Waits, TypeOK
  <2>10. Sound(c)'
    <3> HIDE DEF s
    <3> QED BY <1>2, <2>2, <2>3, <2>5, <2>6 DEF Sound, Putting, HasTree
  <2> QED BY <1>2, <1>3, <2>6, <2>8, <2>9, <2>10, QuietStep
<1>6. CASE RenameFails(c)
  <2>1. Idle \in State /\ Idle.step = "idle"
    BY DEF Idle, State
  <2>2. conn'[c] = Idle /\ conn' = [conn EXCEPT ![c] = Idle]
    BY <1>1, <1>6 DEF RenameFails, TypeOK
  <2>3. lock' = (IF lock = c THEN None ELSE lock) /\ UNCHANGED <<known, spent>>
    BY <1>6 DEF RenameFails, InTransaction
  <2>4. TypeOK'
    BY <1>1, <1>2, <2>1, <2>2, <2>3 DEF TypeOK
  <2>5. \A x \in Conn \ {c} : Waits(x)
    BY <1>1, <2>2, <2>3, StoreAssumption DEF Waits, TypeOK, Conn
  <2>6. Sound(c)'
    BY <1>4, <2>1, <2>2, <2>3 DEF Sound, Putting
  <2> QED BY <1>2, <1>3, <2>3, <2>4, <2>5, <2>6, QuietStep
<1>7. CASE Insert(c)
  <2> DEFINE s == [conn[c] EXCEPT !.step = "pass", !.cur = None,
                                  !.todo = conn[c].todo \ {conn[c].cur}]
  <2>1. s \in State
    BY <1>1 DEF State
  <2>2. conn'[c] = s /\ conn' = [conn EXCEPT ![c] = s]
    BY <1>1, <1>7 DEF Insert, TypeOK
  <2>3. conn[c].step = "insert" /\ conn[c].cur \in Chunk /\ conn[c].step \in Putting
    BY <1>1, <1>7 DEF Insert, Sound, Putting
  <2>4. known' \in SUBSET Chunk /\ known \subseteq known' /\ UNCHANGED <<lock, spent>>
    BY <1>1, <1>7, <2>3 DEF Insert, TypeOK
  <2>5. TypeOK'
    BY <1>1, <1>2, <2>1, <2>2, <2>4 DEF TypeOK
  <2>6. \A x \in Conn \ {c} : Waits(x)
    BY <1>1, <2>2, <2>4 DEF Waits, TypeOK
  <2>7. /\ s.step = "pass" /\ s.key = conn[c].key /\ s.content = conn[c].content
        /\ s.tree = conn[c].tree /\ s.todo = conn[c].todo \ {conn[c].cur}
    BY <1>1 DEF State
  <2>8. Sound(c)'
    <3> HIDE DEF s
    <3> QED BY <1>1, <1>2, <2>2, <2>3, <2>4, <2>7
            DEF Sound, Putting, HasTree, Contains
  <2> QED BY <1>2, <1>3, <2>4, <2>5, <2>6, <2>8, QuietStep
<1>8. CASE Immediate(c)
  <2> DEFINE s == [conn[c] EXCEPT !.todo = Range(conn[c].content)]
  <2>1. conn[c].step = "pass" /\ conn[c].step \in Putting /\ lock = None /\ lock' = c
        /\ UNCHANGED <<known, spent>>
    BY <1>8 DEF Immediate, Putting
  <2>2. conn[c].content \in Contents /\ Range(conn[c].content) \subseteq Chunk
    BY <1>1, <2>1, ChunksOfFile DEF Sound
  <2>3. s \in State
    BY <1>1, <2>2 DEF State
  <2>4. conn'[c] = s /\ conn' = [conn EXCEPT ![c] = s]
    BY <1>1, <1>8 DEF Immediate, TypeOK
  <2>5. TypeOK'
    BY <1>1, <1>2, <2>1, <2>3, <2>4 DEF TypeOK
  <2>6. \A x \in Conn \ {c} : Waits(x)
    BY <1>1, <2>1, <2>4, StoreAssumption DEF Waits, TypeOK, Conn
  <2>7. /\ s.step = "pass" /\ s.key = conn[c].key /\ s.content = conn[c].content
        /\ s.tree = conn[c].tree /\ s.todo = Range(conn[c].content)
    BY <1>1, <2>1 DEF State
  <2>8. Sound(c)'
    <3> HIDE DEF s
    <3> QED BY <1>1, <1>2, <2>1, <2>2, <2>4, <2>7 DEF Sound, Putting, HasTree
  <2> QED BY <1>2, <1>3, <2>1, <2>5, <2>6, <2>8, QuietStep
<1> QED BY <1>5, <1>6, <1>7, <1>8

\* put_manifest's transaction commits: every chunk of the new row is stored, as
\* its second pass saw to.
LEMMA CommitStep ==
  ASSUME StoreInv, NEW c \in Conn, Commit(c)
  PROVE  StoreInv' /\ NeededKept
<1> DEFINE f == conn[c].content
           k == conn[c].key
           row == [content |-> f, links |-> FileChunks(f), live |-> TRUE,
                   here |-> conn[c].tree \/ ~HasTree]
<1>1. TypeOK /\ Sound(c) /\ conn[c] \in State
  BY DEF StoreInv, TypeOK
<1>2. /\ conn[c].step = "pass" /\ conn[c].step \in Putting /\ conn[c].todo = {}
      /\ lock = c /\ lock' = None /\ UNCHANGED <<folder, payload, tmp, spent>>
  BY DEF Commit, InTransaction, Putting
<1>3. /\ k \in Key /\ f \in Contents /\ FileChunks(f) \in SUBSET Link
      /\ ChunksOf(FileChunks(f)) = Range(f) /\ Range(f) \subseteq Chunk
  BY <1>1, <1>2, ChunksOfFile DEF Sound
<1>4. row \in Row /\ row.links = FileChunks(f)
  BY <1>1, <1>3 DEF Row, State
<1>5. /\ files' = [files EXCEPT ![k] = row] /\ known' = known \cup Range(f)
      /\ conn' = [conn EXCEPT ![c] = Idle] /\ conn'[c] = Idle
  BY <1>1 DEF Commit, TypeOK
<1>6. Idle \in State /\ Idle.step = "idle"
  BY DEF Idle, State
<1>7. c # None
  BY StoreAssumption DEF Conn
<1>8. ~HasTree => \A h \in Range(f) : Contains(h)
  BY <1>1, <1>2 DEF Sound
<1> HIDE DEF f, k, row
<1>9. TypeOK'
  BY <1>1, <1>2, <1>3, <1>4, <1>5, <1>6 DEF TypeOK
<1>10. ASSUME NEW h \in Chunk, Linked(files, h)'
       PROVE  Linked(files, h) \/ h \in Range(f)
  <2>1. PICK j \in Key : files'[j] # None /\ h \in ChunksOf(files'[j].links)
    BY <1>10 DEF Linked
  <2>2. files'[j] = IF j = k THEN row ELSE files[j]
    BY <1>1, <1>5, <2>1 DEF TypeOK
  <2> QED BY <1>3, <1>4, <2>1, <2>2 DEF Linked
<1>11. RemovesNothing /\ (HasTree' <=> HasTree)
  BY <1>2 DEF RemovesNothing, Contains, HasTree
<1>12. NoDangling' /\ ReferencesKnown'
  BY <1>5, <1>8, <1>10, <1>11
     DEF StoreInv, NoDangling, ReferencesKnown, RemovesNothing, HasChunk
<1>13. \A x \in Conn \ {c} : Waits(x)
  BY <1>1, <1>2, <1>5, StoreAssumption DEF Waits, TypeOK, Conn
<1>14. Sound(c)'
  BY <1>2, <1>5, <1>6, <1>7 DEF Sound, Putting
<1>15. \A x \in Conn : Sound(x)'
  BY <1>2, <1>11, <1>13, <1>14, OthersSound
<1> QED BY <1>9, <1>11, <1>12, <1>15, NothingNeededRemoved DEF StoreInv

-----------------------------------------------------------------------------
\* A step that writes one row of files without the write lock, and links no
\* chunk the row did not link.
LEMMA RowStep ==
  ASSUME StoreInv, NEW c \in Conn, TypeOK', Sound(c)',
         NEW k \in Key, files[k] # None, files'[k].links \subseteq files[k].links,
         \A j \in Key \ {k} : files'[j] = files[j],
         UNCHANGED <<folder, known, payload, lock>>, lock = None,
         \A x \in Conn \ {c} : Waits(x)
  PROVE  StoreInv' /\ NeededKept
<1>1. LinksNothingNew
  <2> SUFFICES ASSUME NEW h \in Chunk, Linked(files, h)' PROVE Linked(files, h)
    BY DEF LinksNothingNew
  <2>1. PICK j \in Key : files'[j] # None /\ h \in ChunksOf(files'[j].links)
    BY DEF Linked
  <2>2. h \in ChunksOf(files[j].links) /\ files[j] # None
    BY <2>1 DEF ChunksOf
  <2> QED BY <2>2 DEF Linked
<1>2. RemovesNothing /\ (HasTree' <=> HasTree)
  BY DEF RemovesNothing, Contains, HasTree
<1>3. \A x \in Conn : Sound(x)'
  BY <1>1, <1>2, OthersSound
<1> QED BY <1>1, <1>2, <1>3, ReferencesStay, NothingNeededRemoved DEF StoreInv

\* Rows marked as here or deleted, and a tombstone's references released.
LEMMA DeleteStep ==
  ASSUME StoreInv, NEW c \in Conn,
         \/ \E k \in Key, f \in Contents : PutUnchanged(c, k, f)
         \/ \E k \in Key : Tombstone(c, k)
         \/ Unbacked(c)
         \/ \E h \in Chunk : Release(c, h)
  PROVE  StoreInv' /\ NeededKept
<1>1. TypeOK /\ Sound(c) /\ conn[c] \in State
  BY DEF StoreInv, TypeOK
<1>2. UNCHANGED <<folder, known, payload, tmp, lock>>
  BY DEF PutUnchanged, Tombstone, Unbacked, Release
<1>3. c # None
  BY StoreAssumption DEF Conn
<1>4. Idle \in State /\ Idle.step = "idle"
  BY DEF Idle, State
<1>5. ASSUME NEW k \in Key, NEW f \in Contents, PutUnchanged(c, k, f)
      PROVE  StoreInv' /\ NeededKept
  <2> DEFINE row == [files[k] EXCEPT !.here = Supplied(k) \/ ~HasTree]
  <2>1. files[k] # None /\ files[k] \in Row /\ lock = None
    BY <1>1, <1>5 DEF PutUnchanged, Unchanged, Live, TypeOK
  <2>2. row \in Row /\ row.links = files[k].links
    BY <2>1 DEF Row
  <2>3. files' = [files EXCEPT ![k] = row] /\ UNCHANGED <<conn, spent>>
    BY <1>5 DEF PutUnchanged
  <2> HIDE DEF row
  <2>4. TypeOK'
    BY <1>1, <1>2, <2>2, <2>3 DEF TypeOK
  <2>5. files'[k] = row /\ \A j \in Key \ {k} : files'[j] = files[j]
    BY <1>1, <2>3 DEF TypeOK
  <2>6. \A x \in Conn : Waits(x)
    BY <1>2, <2>3 DEF Waits
  <2>7. Sound(c)'
    <3>1. conn[c].step = "idle"
      BY <1>5 DEF PutUnchanged
    <3> QED BY <1>2, <1>3, <2>1, <2>3, <3>1 DEF Sound, Putting
  <2> QED BY <1>2, <2>1, <2>2, <2>4, <2>5, <2>6, <2>7, RowStep
<1>6. ASSUME NEW k \in Key, Tombstone(c, k)
      PROVE  StoreInv' /\ NeededKept
  <2> DEFINE row == [files[k] EXCEPT !.live = FALSE]
             s == [Idle EXCEPT !.step = "deleted", !.key = k]
  <2>1. files[k] # None /\ files[k] \in Row /\ lock = None /\ conn[c].step = "idle"
    BY <1>1, <1>6 DEF Tombstone, Live, TypeOK
  <2>2. row \in Row /\ row.links = files[k].links
    BY <2>1 DEF Row
  <2>3. files' = [files EXCEPT ![k] = row]
    BY <1>6 DEF Tombstone
  <2>4. s \in State /\ s.step = "deleted" /\ s.key = k
    BY DEF Idle, State
  <2>5. conn' \in {conn, [conn EXCEPT ![c] = s]} /\ conn'[c] \in {conn[c], s}
    BY <1>1, <1>6 DEF Tombstone, TypeOK
  <2>6. spent' \in [ops : Nat, edits : Nat, crashes : Nat]
    <3>1. spent' = [spent EXCEPT !.ops = spent.ops + 1]
      BY <1>6 DEF Tombstone
    <3> QED BY <1>1, <3>1 DEF TypeOK
  <2> HIDE DEF row, s
  <2>7. TypeOK'
    BY <1>1, <1>2, <2>2, <2>3, <2>4, <2>5, <2>6 DEF TypeOK
  <2>8. files'[k] = row /\ \A j \in Key \ {k} : files'[j] = files[j]
    BY <1>1, <2>3 DEF TypeOK
  <2>9. \A x \in Conn \ {c} : Waits(x)
    BY <1>1, <1>2, <2>5 DEF Waits, TypeOK
  <2>10. Sound(c)'
    BY <1>2, <1>3, <2>1, <2>4, <2>5 DEF Sound, Putting
  <2> QED BY <1>2, <2>1, <2>2, <2>7, <2>8, <2>9, <2>10, RowStep
<1>7. CASE Unbacked(c)
  <2> DEFINE row == files[conn[c].key]
             gone == IF row = None THEN {} ELSE {h \in ChunksOf(row.links) : ~Contains(h)}
             s == [conn[c] EXCEPT !.step = "release", !.todo = gone]
  <2>1. conn[c].step = "deleted" /\ conn[c].key \in Key /\ UNCHANGED <<files, spent>>
    BY <1>1, <1>7 DEF Unbacked, Sound
  <2>2. gone \subseteq Chunk
    <3>1. row = None \/ row.links \subseteq Link
      BY <1>1, <2>1 DEF TypeOK, Row
    <3> QED BY <3>1 DEF ChunksOf, Link
  <2>3. conn'[c] \in {Idle, s} /\ conn' \in {[conn EXCEPT ![c] = Idle], [conn EXCEPT ![c] = s]}
    BY <1>1, <1>7 DEF Unbacked, TypeOK
  <2> HIDE DEF gone
  <2>4. s \in State /\ s.step = "release" /\ s.key = conn[c].key
    BY <1>1, <2>2 DEF State
  <2>5. lock # c
    BY <1>1, <2>1 DEF Sound, Putting
  <2> HIDE DEF s
  <2>6. TypeOK'
    BY <1>1, <1>2, <1>4, <2>1, <2>3, <2>4 DEF TypeOK
  <2>7. \A x \in Conn \ {c} : Waits(x)
    BY <1>1, <1>2, <2>3 DEF Waits, TypeOK
  <2>8. Sound(c)'
    BY <1>2, <1>4, <2>1, <2>3, <2>4, <2>5 DEF Sound, Putting
  <2>9. RemovesNothing
    BY <1>2 DEF RemovesNothing, Contains
  <2> QED BY <1>2, <2>1, <2>6, <2>7, <2>8, <2>9, QuietStep
<1>8. ASSUME NEW h \in Chunk, Release(c, h)
      PROVE  StoreInv' /\ NeededKept
  <2> DEFINE k == conn[c].key
             row == [files[k] EXCEPT !.links = {l \in files[k].links : l.chunk # h}]
             s == [conn[c] EXCEPT !.todo = conn[c].todo \ {h}]
  <2>1. conn[c].step = "release" /\ conn[c].key \in Key /\ lock = None /\ UNCHANGED spent
    BY <1>1, <1>8 DEF Release, Sound
  <2>2. s \in State /\ s.step = "release" /\ s.key = conn[c].key
    BY <1>1, <2>1 DEF State
  <2>3. conn'[c] \in {Idle, s} /\ conn' \in {[conn EXCEPT ![c] = Idle], [conn EXCEPT ![c] = s]}
    BY <1>1, <1>8 DEF Release, TypeOK
  <2>4. files' = IF files[k] = None THEN files ELSE [files EXCEPT ![k] = row]
    BY <1>8 DEF Release
  <2>5. files[k] # None => /\ files[k] \in Row /\ row \in Row
                           /\ row.links \subseteq files[k].links
    BY <1>1, <2>1 DEF TypeOK, Row
  <2> HIDE DEF s, row
  <2>6. TypeOK'
    BY <1>1, <1>2, <1>4, <2>1, <2>2, <2>3, <2>4, <2>5 DEF TypeOK
  <2>7. \A x \in Conn \ {c} : Waits(x)
    BY <1>1, <1>2, <2>3 DEF Waits, TypeOK
  <2>8. Sound(c)'
    BY <1>2, <1>3, <1>4, <2>1, <2>2, <2>3 DEF Sound, Putting
  <2>9. CASE files[k] = None
    <3>1. RemovesNothing /\ UNCHANGED files
      BY <1>2, <2>4, <2>9 DEF RemovesNothing, Contains
    <3> QED BY <1>2, <2>6, <2>7, <2>8, <3>1, QuietStep
  <2>10. CASE files[k] # None
    <3>1. files'[k] = row /\ \A j \in Key \ {k} : files'[j] = files[j]
      BY <1>1, <2>1, <2>4, <2>10 DEF TypeOK
    <3> QED BY <1>2, <2>1, <2>5, <2>6, <2>7, <2>8, <2>10, <3>1, RowStep
  <2> QED BY <2>9, <2>10
<1> QED BY <1>5, <1>6, <1>7, <1>8

-----------------------------------------------------------------------------
\* A step that removes the payload of h, which no row links or the device's
\* folder has or had, while no write relies on it.
LEMMA RemovalStep ==
  ASSUME StoreInv, NEW c \in Conn, TypeOK', Sound(c)', NEW h \in Chunk,
         UNCHANGED <<folder, files, known>>,
         payload' = [payload EXCEPT ![h] = "none"],
         ~Linked(files, h) \/ (HasTree /\ (FromTree(h) \/ ReadBefore(h))),
         lock \in {None, c} \/ HasTree,
         \A x \in Conn \ {c} : Waits(x)
  PROVE  StoreInv' /\ NeededKept
<1>1. LinksNothingNew /\ (HasTree' <=> HasTree)
  BY DEF LinksNothingNew, Linked, HasTree
<1>2. \A x \in Conn : Sound(x)'
  BY <1>1, OthersSound
<1>4. \A g \in Chunk \ {h} : payload'[g] = payload[g]
  BY DEF StoreInv, TypeOK
<1>5. NoDangling' /\ ReferencesKnown'
  BY <1>1, <1>4
     DEF StoreInv, NoDangling, ReferencesKnown, LinksNothingNew, Contains, HasChunk
<1>6. NeededKept
  BY <1>4 DEF NeededKept, Removes, Needed, Contains, Linked, Live
<1> QED BY <1>2, <1>5, <1>6 DEF StoreInv

\* Where a connection is does not change when a payload it has open is unlinked.
LEMMA UnlinkedWaits ==
  ASSUME TypeOK, NEW h \in Chunk, NEW x \in Conn
  PROVE  LET s == Unlinked(h)[x]
         IN  /\ s \in State /\ s.step = conn[x].step /\ s.key = conn[x].key
             /\ s.content = conn[x].content /\ s.tree = conn[x].tree
             /\ s.todo = conn[x].todo /\ s.cur = conn[x].cur
             /\ s.doomed = conn[x].doomed
<1>1. conn[x] \in State
  BY DEF TypeOK
<1>2. Unlinked(h)[x] \in {conn[x], [conn[x] EXCEPT !.fd = "unlinked"]}
  BY DEF Unlinked
<1> QED BY <1>1, <1>2 DEF State

\* gc::collect, which holds the write lock from its choice of chunks until it
\* has forgotten them.
LEMMA CollectStep ==
  ASSUME StoreInv, NEW c \in Conn,
         \/ \E expired \in SUBSET Key, doomed \in SUBSET Chunk :
              Collect(c, expired, doomed)
         \/ \E h \in Chunk : RemovePayload(c, h)
         \/ CommitCollection(c)
  PROVE  StoreInv' /\ NeededKept
<1>1. TypeOK /\ Sound(c) /\ conn[c] \in State
  BY DEF StoreInv, TypeOK
<1>2. c # None
  BY StoreAssumption DEF Conn
<1>3. ASSUME NEW expired \in SUBSET Key, NEW doomed \in SUBSET Chunk,
             Collect(c, expired, doomed)
      PROVE  StoreInv' /\ NeededKept
  <2> DEFINE s == [Idle EXCEPT !.step = "collect", !.todo = doomed,
                               !.expired = expired, !.doomed = doomed]
  <2>1. s \in State /\ s.step = "collect" /\ s.todo = doomed /\ s.doomed = doomed
    BY DEF Idle, State
  <2>2. conn' = [conn EXCEPT ![c] = s] /\ conn'[c] = s /\ lock = None /\ lock' = c
        /\ UNCHANGED <<folder, files, known, payload, tmp, spent>>
    BY <1>1, <1>3 DEF Collect, TypeOK
  <2>3. \A h \in doomed : ~Linked(files, h)
    BY <1>3 DEF Collect, Collectable
  <2> HIDE DEF s
  <2>4. TypeOK'
    BY <1>1, <2>1, <2>2 DEF TypeOK
  <2>5. \A x \in Conn \ {c} : Waits(x)
    BY <1>1, <2>2, StoreAssumption DEF Waits, TypeOK, Conn
  <2>6. Sound(c)'
    BY <2>1, <2>2, <2>3 DEF Sound, Putting, Linked
  <2>7. RemovesNothing
    BY <2>2 DEF RemovesNothing, Contains
  <2> QED BY <2>2, <2>4, <2>5, <2>6, <2>7, QuietStep
<1>4. ASSUME NEW h \in Chunk, RemovePayload(c, h)
      PROVE  StoreInv' /\ NeededKept
  <2> DEFINE u == Unlinked(h)
             s == [u[c] EXCEPT !.todo = conn[c].todo \ {h}]
  <2>1. /\ conn[c].step = "collect" /\ h \in conn[c].todo /\ lock = c
        /\ conn[c].todo \subseteq conn[c].doomed
        /\ \A g \in conn[c].doomed : ~Linked(files, g)
    BY <1>1, <1>4 DEF RemovePayload, Sound
  <2>2. /\ UNCHANGED <<folder, files, known, tmp, lock, spent>>
        /\ payload' = [payload EXCEPT ![h] = "none"]
        /\ conn' = [u EXCEPT ![c] = s]
    BY <1>4 DEF RemovePayload
  <2>3. u = [x \in Conn |-> u[x]] /\ \A x \in Conn : u[x] \in State
    BY <1>1, UnlinkedWaits DEF Unlinked
  <2>4. s \in State /\ s.step = "collect" /\ s.todo = conn[c].todo \ {h}
        /\ s.doomed = conn[c].doomed
    <3>1. u[c] \in State /\ u[c].step = conn[c].step /\ u[c].doomed = conn[c].doomed
      BY <1>1, UnlinkedWaits
    <3> HIDE DEF u
    <3> QED BY <1>1, <2>1, <3>1 DEF State
  <2>5. ASSUME NEW x \in Conn, x # c PROVE Waits(x)
    <3>1. conn'[x] = u[x]
      BY <2>2, <2>3, <2>5
    <3>2. /\ u[x].step = conn[x].step /\ u[x].key = conn[x].key
          /\ u[x].content = conn[x].content /\ u[x].tree = conn[x].tree
          /\ u[x].todo = conn[x].todo /\ u[x].cur = conn[x].cur
          /\ u[x].doomed = conn[x].doomed
      BY <1>1, UnlinkedWaits
    <3> QED BY <2>2, <3>1, <3>2 DEF Waits
  <2> HIDE DEF u, s
  <2>6. conn' \in [Conn -> State] /\ conn'[c] = s
    BY <2>2, <2>3, <2>4
  <2>7. payload' \in [Chunk -> Bytes]
    BY <1>1, <2>2 DEF TypeOK, Bytes
  <2>8. TypeOK'
    BY <1>1, <2>2, <2>6, <2>7 DEF TypeOK
  <2>9. Sound(c)'
    BY <2>1, <2>2, <2>4, <2>6 DEF Sound, Putting, Linked
  <2>10. ~Linked(files, h)
    BY <2>1
  <2> QED BY <2>1, <2>2, <2>5, <2>8, <2>9, <2>10, RemovalStep
<1>5. CASE CommitCollection(c)
  <2>1. /\ conn[c].step = "collect" /\ lock = c /\ lock' = None
        /\ \A h \in conn[c].doomed : ~Linked(files, h)
        /\ known' = known \ conn[c].doomed
        /\ conn' = [conn EXCEPT ![c] = Idle] /\ conn'[c] = Idle
        /\ UNCHANGED <<folder, payload, tmp, spent>>
    BY <1>1, <1>5 DEF CommitCollection, Sound, TypeOK
  <2>2. files' = [k \in Key |-> IF k \in conn[c].expired THEN None ELSE files[k]]
    BY <1>5 DEF CommitCollection
  <2>3. Idle \in State /\ Idle.step = "idle"
    BY DEF Idle, State
  <2>4. TypeOK'
    BY <1>1, <2>1, <2>2, <2>3 DEF TypeOK
  <2>5. LinksNothingNew /\ RemovesNothing /\ (HasTree' <=> HasTree)
    BY <2>1, <2>2 DEF LinksNothingNew, Linked, RemovesNothing, Contains, HasTree
  <2>6. NoDangling' /\ ReferencesKnown'
    BY <2>1, <2>5 DEF StoreInv, NoDangling, ReferencesKnown, LinksNothingNew,
                      RemovesNothing, HasChunk
  <2>7. \A x \in Conn \ {c} : Waits(x)
    BY <1>1, <2>1, StoreAssumption DEF Waits, TypeOK, Conn
  <2>8. Sound(c)'
    BY <1>2, <2>1, <2>3 DEF Sound, Putting
  <2>9. \A x \in Conn : Sound(x)'
    BY <2>5, <2>7, <2>8, OthersSound
  <2> QED BY <2>4, <2>5, <2>6, <2>9, NothingNeededRemoved DEF StoreInv
<1> QED BY <1>3, <1>4, <1>5

\* gc::sweep_orphans removes what no row of chunks names.
LEMMA SweepStep ==
  ASSUME StoreInv, NEW c \in Conn, NEW h \in Chunk, Sweep(c, h)
  PROVE  StoreInv' /\ NeededKept
<1>1. TypeOK /\ Sound(c)
  BY DEF StoreInv
<1>2. /\ conn[c].step = "idle" /\ lock = None /\ conn' = Unlinked(h)
      /\ payload' = [payload EXCEPT ![h] = "none"]
      /\ UNCHANGED <<folder, files, known, tmp, lock, spent>>
  BY DEF Sweep
<1>3. ~Linked(files, h)
  BY DEF Sweep, StoreInv, ReferencesKnown
<1>5. ASSUME NEW x \in Conn PROVE conn'[x] \in State /\ Waits(x)
  <2>1. /\ conn'[x] \in State /\ conn'[x].step = conn[x].step
        /\ conn'[x].key = conn[x].key /\ conn'[x].content = conn[x].content
        /\ conn'[x].tree = conn[x].tree /\ conn'[x].todo = conn[x].todo
        /\ conn'[x].cur = conn[x].cur /\ conn'[x].doomed = conn[x].doomed
    BY <1>1, <1>2, UnlinkedWaits
  <2> QED BY <1>2, <2>1 DEF Waits
<1>6. conn' \in [Conn -> State]
  BY <1>2, <1>5 DEF Unlinked
<1>7. payload' \in [Chunk -> Bytes]
  BY <1>1, <1>2 DEF TypeOK, Bytes
<1>8. TypeOK'
  BY <1>1, <1>2, <1>6, <1>7 DEF TypeOK
<1>9. Sound(c)'
  BY <1>1, <1>2, <1>5 DEF Sound, Waits, Putting
<1> QED BY <1>2, <1>3, <1>5, <1>8, <1>9, RemovalStep

\* Store::reclaim removes what it has read in the folder.
LEMMA ReclaimStep ==
  ASSUME StoreInv, ReclaimInv, NEW c \in Conn, NEW h \in Chunk,
         ReclaimRead(c, h) \/ ReclaimRemove(c, h)
  PROVE  StoreInv' /\ NeededKept
<1>1. TypeOK /\ Sound(c) /\ conn[c] \in State
  BY DEF StoreInv, TypeOK
<1>2. Idle \in State /\ Idle.step = "idle"
  BY DEF Idle, State
<1>3. /\ conn[c].step \in {"idle", "reclaim"}
      /\ UNCHANGED <<folder, files, known, tmp, lock, spent>>
  BY DEF ReclaimRead, ReclaimRemove
<1>4. lock # c /\ lock' # c
  BY <1>1, <1>3 DEF Sound, Putting
<1>5. CASE ReclaimRead(c, h)
  <2> DEFINE s == [Idle EXCEPT !.step = "reclaim", !.todo = {h}]
  <2>1. s \in State /\ s.step = "reclaim"
    BY DEF Idle, State
  <2>2. conn' = [conn EXCEPT ![c] = s] /\ conn'[c] = s /\ UNCHANGED payload
    BY <1>1, <1>5 DEF ReclaimRead, Reclaiming, TypeOK
  <2> HIDE DEF s
  <2>3. TypeOK'
    BY <1>1, <1>3, <2>1, <2>2 DEF TypeOK
  <2>4. Sound(c)'
    BY <1>4, <2>1, <2>2 DEF Sound, Putting
  <2>5. \A x \in Conn \ {c} : Waits(x)
    BY <1>1, <1>3, <2>2 DEF Waits, TypeOK
  <2>6. RemovesNothing
    BY <2>2 DEF RemovesNothing, Contains
  <2> QED BY <1>3, <2>3, <2>4, <2>5, <2>6, QuietStep
<1>6. CASE ReclaimRemove(c, h)
  <2> DEFINE u == Unlinked(h)
  <2>1. /\ conn[c].step = "reclaim" /\ h \in conn[c].todo
        /\ payload' = [payload EXCEPT ![h] = "none"]
        /\ conn' = [u EXCEPT ![c] = Idle]
    BY <1>6 DEF ReclaimRemove
  <2>2. u = [x \in Conn |-> u[x]] /\ \A x \in Conn : u[x] \in State
    BY <1>1, UnlinkedWaits DEF Unlinked
  <2>3. ASSUME NEW x \in Conn, x # c PROVE Waits(x)
    <3>1. conn'[x] = u[x]
      BY <2>1, <2>2, <2>3
    <3>2. /\ u[x].step = conn[x].step /\ u[x].key = conn[x].key
          /\ u[x].content = conn[x].content /\ u[x].tree = conn[x].tree
          /\ u[x].todo = conn[x].todo /\ u[x].cur = conn[x].cur
          /\ u[x].doomed = conn[x].doomed
      BY <1>1, UnlinkedWaits
    <3> QED BY <1>3, <3>1, <3>2 DEF Waits
  <2> HIDE DEF u
  <2>4. conn' \in [Conn -> State] /\ conn'[c] = Idle
    BY <1>2, <2>1, <2>2
  <2>5. payload' \in [Chunk -> Bytes]
    BY <1>1, <2>1 DEF TypeOK, Bytes
  <2>6. TypeOK'
    BY <1>1, <1>3, <2>4, <2>5 DEF TypeOK
  <2>7. Sound(c)'
    BY <1>2, <1>4, <2>4 DEF Sound, Putting
  <2>8. HasTree /\ (FromTree(h) \/ c \in withdrawn)
    BY <2>1 DEF ReclaimInv, ReadThere
  <2>9. HasTree /\ (FromTree(h) \/ ReadBefore(h))
    BY <2>1, <2>8 DEF ReadBefore
  <2> QED BY <1>3, <2>1, <2>3, <2>6, <2>7, <2>9, RemovalStep
<1> QED BY <1>5, <1>6

\* A process is killed, in a transaction or out of one.
LEMMA CrashStep ==
  ASSUME StoreInv, NEW c \in Conn, Crash(c)
  PROVE  StoreInv' /\ NeededKept
<1>1. TypeOK
  BY DEF StoreInv
<1>2. Idle \in State /\ Idle.step = "idle" /\ c # None
  BY StoreAssumption DEF Idle, State, Conn
<1>3. /\ conn' = [conn EXCEPT ![c] = Idle] /\ conn'[c] = Idle
      /\ lock' = (IF lock = c THEN None ELSE lock)
      /\ UNCHANGED <<folder, files, known, payload, tmp>>
  BY <1>1 DEF Crash, InTransaction, TypeOK
<1>4. spent' \in [ops : Nat, edits : Nat, crashes : Nat]
  <2>1. spent' = [spent EXCEPT !.crashes = spent.crashes + 1]
    BY DEF Crash
  <2> QED BY <1>1, <2>1 DEF TypeOK
<1>5. TypeOK'
  BY <1>1, <1>2, <1>3, <1>4 DEF TypeOK
<1>6. \A x \in Conn \ {c} : Waits(x)
  BY <1>1, <1>3, StoreAssumption DEF Waits, TypeOK, Conn
<1>7. Sound(c)'
  BY <1>2, <1>3 DEF Sound, Putting
<1>8. RemovesNothing
  BY <1>3 DEF RemovesNothing, Contains
<1> QED BY <1>3, <1>5, <1>6, <1>7, <1>8, QuietStep

-----------------------------------------------------------------------------
\* Every step keeps the invariant and every payload that is needed.
LEMMA StepInv ==
  ASSUME StoreInv, ReclaimInv, Step
  PROVE  StoreInv' /\ NeededKept
<1>1. ASSUME NEW c \in Conn, Storing(c) PROVE StoreInv' /\ NeededKept
  BY <1>1, PassStep, CasStep, ManifestStep, CommitStep, DeleteStep DEF Storing
<1>2. ASSUME NEW c \in Conn, Collecting(c) PROVE StoreInv' /\ NeededKept
  BY <1>2, CollectStep, SweepStep, ReclaimStep DEF Collecting
<1> QED BY <1>1, <1>2, EditStep, CrashStep DEF Step

\* A connection is reclaiming after a step if it was before it, the same chunk,
\* or has just read the chunk.
Reclaims(x) ==
  conn'[x].step = "reclaim" =>
    \/ conn[x].step = "reclaim" /\ conn'[x].todo = conn[x].todo
    \/ \E h \in Chunk : ReclaimRead(x, h)

\* One connection goes on to something else.
LEMMA OneMoves ==
  ASSUME TypeOK, NEW c \in Conn, NEW s, s.step # "reclaim",
         conn' = [conn EXCEPT ![c] = s], NEW x \in Conn
  PROVE  Reclaims(x)
BY DEF TypeOK, Reclaims

\* Only ReclaimRead begins to reclaim.
LEMMA StepReclaims ==
  ASSUME StoreInv, Step, NEW x \in Conn
  PROVE  Reclaims(x)
<1>1. TypeOK /\ conn[x] \in State
  BY DEF StoreInv, TypeOK
<1>2. Idle.step = "idle"
  BY DEF Idle
<1>3. ASSUME NEW p \in Path, NEW f \in Contents \cup {None}, Edit(p, f)
      PROVE  Reclaims(x)
  BY <1>3 DEF Edit, Reclaims
<1>4. ASSUME NEW c \in Conn, NEW k \in Key, NEW f \in Contents,
             PutUnchanged(c, k, f) \/ Put(c, k, f)
      PROVE  Reclaims(x)
  <2> DEFINE s == [Idle EXCEPT !.step = "pass", !.key = k, !.content = f,
                               !.tree = Supplied(k), !.todo = Range(f)]
  <2>1. CASE PutUnchanged(c, k, f)
    BY <2>1 DEF PutUnchanged, Reclaims
  <2>2. CASE Put(c, k, f)
    <3>1. s.step = "pass"
      BY DEF Idle
    <3>2. conn' = [conn EXCEPT ![c] = s]
      BY <2>2 DEF Put
    <3> HIDE DEF s
    <3> QED BY <1>1, <3>1, <3>2, OneMoves
  <2> QED BY <1>4, <2>1, <2>2
<1>5. ASSUME NEW c \in Conn, NEW h \in Chunk, Skip(c, h) \/ Establish(c, h)
      PROVE  Reclaims(x)
  <2> DEFINE s == [conn[c] EXCEPT !.todo = conn[c].todo \ {h}]
             stored == conn[c].tree \/ Contains(h)
             t == [conn[c] EXCEPT !.step = IF stored THEN "insert" ELSE "write",
                                  !.cur = h, !.fd = "tmp"]
  <2>1. conn[c] \in State /\ conn[c].step = "pass"
    BY <1>1, <1>5 DEF TypeOK, Skip, Establish, NextChunk
  <2>2. s.step = "pass"
    BY <2>1 DEF State
  <2>3. t.step = IF stored THEN "insert" ELSE "write"
    BY <2>1 DEF State
  <2>4. conn' = [conn EXCEPT ![c] = s] \/ conn' = [conn EXCEPT ![c] = t]
    BY <1>1, <1>5 DEF Skip, Establish, TypeOK
  <2> HIDE DEF s, t, stored
  <2>5. s.step # "reclaim" /\ t.step # "reclaim"
    BY <2>2, <2>3
  <2> QED BY <1>1, <2>4, <2>5, OneMoves
<1>6. ASSUME NEW c \in Conn, NEW h \in Chunk, Release(c, h)
      PROVE  Reclaims(x)
  <2> DEFINE s == [conn[c] EXCEPT !.todo = conn[c].todo \ {h}]
  <2>1. conn[c] \in State /\ conn[c].step = "release"
    BY <1>1, <1>6 DEF TypeOK, Release
  <2>2. s.step = "release"
    BY <2>1 DEF State
  <2>3. conn' = [conn EXCEPT ![c] = Idle] \/ conn' = [conn EXCEPT ![c] = s]
    BY <1>1, <1>6 DEF Release, TypeOK
  <2> HIDE DEF s
  <2> QED BY <1>1, <1>2, <2>2, <2>3, OneMoves
<1>7. ASSUME NEW c \in Conn, Write(c) \/ RenameFails(c) \/ Insert(c)
      PROVE  Reclaims(x)
  <2>1. conn[c] \in State
    BY <1>1 DEF TypeOK
  <2>2. CASE Write(c)
    BY <1>1, <2>1, <2>2 DEF Write, Reclaims, TypeOK, State
  <2>3. CASE RenameFails(c)
    BY <1>1, <1>2, <2>3 DEF RenameFails, Reclaims, TypeOK
  <2>4. CASE Insert(c)
    <3> DEFINE s == [conn[c] EXCEPT !.step = "pass", !.cur = None,
                                    !.todo = conn[c].todo \ {conn[c].cur}]
    <3>1. conn' = [conn EXCEPT ![c] = s]
      BY <1>1, <2>4 DEF Insert, TypeOK
    <3>2. s.step = "pass"
      BY <2>1 DEF State
    <3> HIDE DEF s
    <3> QED BY <1>1, <3>1, <3>2, OneMoves
  <2> QED BY <1>7, <2>2, <2>3, <2>4
<1>8. ASSUME NEW c \in Conn, Rename(c)
      PROVE  Reclaims(x)
  BY <1>1, <1>8 DEF Rename, Reclaims, TypeOK, State
<1>9. ASSUME NEW c \in Conn, Immediate(c) \/ Commit(c) \/ CommitCollection(c)
      PROVE  Reclaims(x)
  BY <1>1, <1>2, <1>9 DEF Immediate, Commit, CommitCollection, Reclaims, TypeOK, State
<1>10. ASSUME NEW c \in Conn, NEW k \in Key, Tombstone(c, k)
       PROVE  Reclaims(x)
  BY <1>1, <1>10 DEF Tombstone, Reclaims, TypeOK, State, Idle
<1>11. ASSUME NEW c \in Conn, Unbacked(c)
       PROVE  Reclaims(x)
  BY <1>1, <1>2, <1>11 DEF Unbacked, Reclaims, TypeOK, State
<1>12. ASSUME NEW c \in Conn, NEW expired \in SUBSET Key, NEW doomed \in SUBSET Chunk,
              Collect(c, expired, doomed)
       PROVE  Reclaims(x)
  BY <1>1, <1>12 DEF Collect, Reclaims, TypeOK, State, Idle
<1>13. ASSUME NEW c \in Conn, NEW h \in Chunk,
              RemovePayload(c, h) \/ Sweep(c, h) \/ ReclaimRemove(c, h)
       PROVE  Reclaims(x)
  <2> DEFINE u == Unlinked(h)
  <2>1. u[x].step = conn[x].step /\ u[x].todo = conn[x].todo /\ u[c].step = conn[c].step
    BY <1>1, UnlinkedWaits
  <2>2. u = [y \in Conn |-> u[y]] /\ u[c] \in State
    BY <1>1, UnlinkedWaits DEF Unlinked
  <2>3. CASE RemovePayload(c, h)
    <3> DEFINE s == [u[c] EXCEPT !.todo = conn[c].todo \ {h}]
    <3>1. conn[c].step = "collect" /\ conn' = [u EXCEPT ![c] = s]
      BY <2>3 DEF RemovePayload
    <3>2. s.step = conn[c].step
      <4> HIDE DEF u
      <4> QED BY <2>1, <2>2 DEF State
    <3> HIDE DEF u, s
    <3>3. conn'[x] = IF x = c THEN s ELSE u[x]
      BY <2>2, <3>1
    <3> QED BY <2>1, <3>1, <3>2, <3>3 DEF Reclaims
  <2>4. CASE Sweep(c, h)
    BY <2>1, <2>4 DEF Sweep, Reclaims
  <2>5. CASE ReclaimRemove(c, h)
    <3>1. conn' = [u EXCEPT ![c] = Idle]
      BY <2>5 DEF ReclaimRemove
    <3> HIDE DEF u
    <3>2. conn'[x] = IF x = c THEN Idle ELSE u[x]
      BY <2>2, <3>1
    <3> QED BY <1>2, <2>1, <3>2 DEF Reclaims
  <2> QED BY <1>13, <2>3, <2>4, <2>5
<1>14. ASSUME NEW c \in Conn, NEW h \in Chunk, ReclaimRead(c, h)
       PROVE  Reclaims(x)
  BY <1>1, <1>14 DEF ReclaimRead, Reclaiming, Reclaims, TypeOK
<1>15. ASSUME NEW c \in Conn, Crash(c)
       PROVE  Reclaims(x)
  BY <1>1, <1>2, <1>15 DEF Crash, Reclaims, TypeOK
<1>16. ASSUME NEW c \in Conn, Storing(c) PROVE Reclaims(x)
  BY <1>4, <1>5, <1>6, <1>7, <1>8, <1>9, <1>10, <1>11, <1>16 DEF Storing
<1>17. ASSUME NEW c \in Conn, Collecting(c) PROVE Reclaims(x)
  BY <1>9, <1>12, <1>13, <1>14, <1>17 DEF Collecting
<1> QED BY <1>3, <1>15, <1>16, <1>17 DEF Step

\* A device with a folder still has one, a replica still none.
LEMMA TreeStays ==
  ASSUME StoreInv, Step
  PROVE  HasTree' <=> HasTree
<1>1. ASSUME NEW p \in Path, NEW f \in Contents \cup {None}, Edit(p, f)
      PROVE  HasTree' <=> HasTree
  BY <1>1, StoreAssumption DEF Edit, HasTree, StoreInv, TypeOK
<1>2. ASSUME NEW c \in Conn, Storing(c) \/ Collecting(c) \/ Crash(c)
      PROVE  UNCHANGED folder
  BY <1>2 DEF Storing, Collecting, PutUnchanged, Put, Skip, Establish, Release, Write,
              Rename, RenameFails, Insert, Immediate, Commit, Tombstone, Unbacked,
              Collect, RemovePayload, Sweep, ReclaimRead, ReclaimRemove,
              CommitCollection, Crash
<1> QED BY <1>1, <1>2 DEF Step, HasTree

\* What is about to be removed was read, whatever has changed since.
LEMMA ReclaimKept ==
  ASSUME StoreInv, ReclaimInv, Next
  PROVE  ReclaimInv'
<1>1. Step /\ withdrawn' = {c \in Conn : Withdrawing(c)}
  BY DEF Next
<1> SUFFICES ASSUME NEW c \in Conn, conn'[c].step = "reclaim"
             PROVE  HasTree' /\ \A h \in conn'[c].todo : FromTree(h)' \/ c \in withdrawn'
  BY <1>1 DEF ReclaimInv, ReadThere
<1>2. HasTree' <=> HasTree
  BY <1>1, TreeStays
<1>3. CASE conn[c].step = "reclaim" /\ conn'[c].todo = conn[c].todo
  <2>1. HasTree /\ \A h \in conn[c].todo : FromTree(h) \/ c \in withdrawn
    BY <1>3 DEF ReclaimInv, ReadThere
  <2>2. c \in withdrawn' <=> Withdrawing(c)
    BY <1>1
  <2> QED BY <1>2, <1>3, <2>1, <2>2 DEF Withdrawing
<1>4. ASSUME NEW h \in Chunk, ReclaimRead(c, h)
      PROVE  HasTree' /\ \A g \in conn'[c].todo : FromTree(g)'
  <2>1. conn'[c].todo = {h}
    BY <1>4 DEF ReclaimRead, Reclaiming, Idle, StoreInv, TypeOK
  <2>2. FromTree(h)'
    BY <1>4 DEF ReclaimRead, FromTree, HasTree, Live, Position
  <2> QED BY <1>4, <2>1, <2>2 DEF ReclaimRead, FromTree, HasTree
<1> QED BY <1>1, <1>3, <1>4, StepReclaims DEF Reclaims

LEMMA NextInv ==
  ASSUME StoreInv, ReclaimInv, [Next]_vars
  PROVE  StoreInv' /\ ReclaimInv' /\ (NeededKept \/ UNCHANGED vars)
<1>1. CASE Next
  BY <1>1, StepInv, ReclaimKept DEF Next
<1>2. CASE UNCHANGED vars
  <2>1. \A x \in Conn : Sound(x)'
    BY <1>2 DEF StoreInv, Sound, vars, Linked, HasTree, Contains
  <2>2. \A x \in Conn : ReadThere(x)'
    BY <1>2 DEF ReclaimInv, ReadThere, vars, HasTree, FromTree, Live, Position
  <2> QED BY <1>2, <2>1, <2>2
          DEF StoreInv, ReclaimInv, TypeOK, NoDangling, ReferencesKnown, vars,
              Linked, HasTree, Contains, HasChunk
<1> QED BY <1>1, <1>2

\* The inductive invariant holds of every behaviour, whoever writes, collects
\* or is killed.
THEOREM StoreInvariance == Spec => [](StoreInv /\ ReclaimInv)
<1>1. StoreInv /\ ReclaimInv /\ [Next]_vars => (StoreInv /\ ReclaimInv)'
  BY NextInv
<1>2. Init => StoreInv /\ ReclaimInv
  <2>1. Init => ReclaimInv
    BY DEF Init, ReclaimInv, ReadThere, Idle
  <2> QED BY <2>1, InitInv
<1> QED BY <1>1, <1>2, PTL DEF Spec

\* On a device without a folder every chunk that a row of files references, a
\* tombstone's included, has a row and a payload (Store::put_manifest against
\* gc::collect, gc::sweep_orphans and Store::reclaim).
THEOREM NothingDangles == Spec => []NoDangling
<1>1. StoreInv => NoDangling
  BY DEF StoreInv
<1> QED BY <1>1, StoreInvariance, PTL

\* A payload that a live file needs is only ever removed when the folder has
\* its bytes, or had them when Store::reclaim read them for that removal
\* (gc::collect, gc::sweep_orphans, Store::reclaim).
THEOREM NeededPayloadsAlwaysStay == Spec => NeededPayloadsStay
<1>1. StoreInv /\ ReclaimInv /\ [Next]_vars => [NeededKept]_vars
  BY NextInv
<1> QED BY <1>1, StoreInvariance, PTL DEF Spec, NeededPayloadsStay
=============================================================================
