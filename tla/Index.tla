------------------------------- MODULE Index -------------------------------
(***************************************************************************)
(* The index one device keeps (storage/src/db.rs), and what it answers from *)
(* it.  An index is a record of its tables; a query is an operator on that  *)
(* record.  Modules that model several devices keep one record for each.    *)
(*                                                                          *)
(* A path stands for itself, and for the folders it lies in (Folders); a    *)
(* file's scope is Shared or the device whose vault it is in.  Of times,    *)
(* only whether a deletion's month is over is kept (aged).                  *)
(***************************************************************************)
EXTENDS VersionVector, FiniteSets

CONSTANTS Path,          \* paths
          Content,       \* content hashes
          Chunk,         \* chunk hashes
          ChunksOf,      \* the chunks each content is cut into
          Folders,       \* the folders each path lies in
          RuleOf,        \* the folder each path under .qurb-sharing/ is about
          OutsidePath,   \* paths under .qurb-outside/
          Shared,        \* the scope of the shared area
          NoContent      \* what a deleted version has instead of a content

Kinds == {"phone", "computer", "unsaid"}
Relations == {"own", "guest", "host"}
RulePath == DOMAIN RuleOf

ASSUME IndexAssumption ==
  /\ ChunksOf \in [Content -> SUBSET Chunk]
  /\ DOMAIN Folders = Path
  /\ RulePath \subseteq Path /\ OutsidePath \subseteq Path
  /\ Shared \notin Device /\ NoContent \notin Content

(***************************************************************************)
(* The tables.                                                              *)
(***************************************************************************)

\* A row of files, with its references to chunks and, for a send or a file
\* backed up where it lies, its source.
File == [path: Path, scope: Device \cup {Shared}, content: Content,
         deleted: BOOLEAN, vector: Vector, by: Device, here: BOOLEAN,
         wanted: BOOLEAN, held: BOOLEAN, chunks: SUBSET Chunk,
         source: {"none", "send", "outside"}, aged: BOOLEAN]

Replica == [content: Content, device: Device, private: BOOLEAN]

\* A device's word about a content: what it was told, or answered.
Word == [device: Device, content: Content]

Delivered == [sender: Device, path: Path, vector: Vector, told: BOOLEAN]

Trashed == [path: Path, scope: Device \cup {Shared}, content: Content,
            bytes: BOOLEAN, aged: BOOLEAN]

\* The index of a device just set up.
NewIndex(me, kind) ==
  [me |-> me, kind |-> kind, counter |-> 0, files |-> {}, peers |-> {},
   relations |-> [d \in Device |-> "own"], persons |-> [d \in Device |-> d],
   kinds |-> [d \in Device |-> "unsaid"], holders |-> {}, backupsOnly |-> {},
   defaulted |-> FALSE, offered |-> FALSE, replicas |-> {}, confirmed |-> {},
   reported |-> {}, deliveries |-> {}, trash |-> {}, remote |-> {},
   shares |-> [f \in {} |-> {}], became |-> {}]

Live(db) == {f \in db.files : ~f.deleted}

\* What is in the folder of the device itself: the shared area and its vault.
Own(db) == {f \in Live(db) : f.scope \in {Shared, db.me}}

NotRules(f) == f.path \notin RulePath \cup OutsidePath

OfOther(db, d) == db.relations[d] # "own"

(***************************************************************************)
(* Rows.  A path has at most one row in an area.                            *)
(***************************************************************************)

RowIn(db, p, scope) == {f \in db.files : f.path = p /\ f.scope = scope}
LiveRowIn(db, p, scope) == {f \in RowIn(db, p, scope) : ~f.deleted}
OwnVaultRow(db, p) == LiveRowIn(db, p, db.me)

\* The row of a path in the folder: the shared area is looked in first.
FolderRow(db, p) ==
  IF LiveRowIn(db, p, Shared) # {} THEN LiveRowIn(db, p, Shared) ELSE OwnVaultRow(db, p)

DeletedRowIn(db, p, owner, c) ==
  {f \in RowIn(db, p, owner) : f.deleted /\ f.content = c}

LivePathAnywhere(db, p) == \E f \in Live(db) : f.path = p

OwnDeletedPaths(db) ==
  {f.path : f \in {g \in db.files : g.scope = db.me /\ g.deleted}}

\* A row whose chunk list is complete: the only kind that answers for a content.
AnyFileWithContent(db, c) == \E f \in db.files : f.content = c /\ f.chunks = ChunksOf[c]

\* The vector of a local change: the shared row's, advanced by the counter.
NextLocalVector(db, p) ==
  LET old == {f.vector : f \in RowIn(db, p, Shared)}
      base == IF old = {} THEN Zero ELSE CHOOSE v \in old : TRUE
  IN [base EXCEPT ![db.me] = db.counter + 1]

NextCounter(db) == [db EXCEPT !.counter = @ + 1]

\* Mutant: the row replaced is left.
WriteRowBeside(db, row) == [db EXCEPT !.files = @ \cup {row}]

WriteRow(db, row) ==
  [db EXCEPT !.files = (@ \ RowIn(db, row.path, row.scope)) \cup {row}]

ForgetRow(db, row) == [db EXCEPT !.files = @ \ {row}]

(***************************************************************************)
(* Copies elsewhere.                                                        *)
(***************************************************************************)

\* A copy this device could ask for.
Askable(db, r) ==
  /\ ~r.private
  /\ r.device \in db.peers
  /\ OfOther(db, r.device) => r.device \in db.holders

\* A copy that lets this device free its own.
SafeElsewhere(db, r) == db.kinds[r.device] # "phone"

\* Recorded as in a vault only until recorded as reachable.
RecordReplica(db, c, d, private) ==
  LET old == {r \in db.replicas : r.content = c /\ r.device = d}
  IN [db EXCEPT !.replicas = (@ \ old) \cup
        {[content |-> c, device |-> d,
          private |-> private /\ \A r \in old : r.private]}]

NoteReplica(db, c, d) == RecordReplica(db, c, d, FALSE)
NoteReplicaInVault(db, c, d) == RecordReplica(db, c, d, TRUE)

DeviceHolds(db, c, d) == \E r \in db.replicas : r.content = c /\ r.device = d

SafeCopies(db, c) ==
  {r \in db.replicas : r.content = c /\ ~r.private /\ SafeElsewhere(db, r)}

ConfirmedSafe(db, c) ==
  \E r \in SafeCopies(db, c) : [device |-> r.device, content |-> c] \in db.confirmed

HoldersOfContent(db, c) ==
  {r.device : r \in {s \in db.replicas : s.content = c /\ Askable(db, s)}}

NoteAsked(db, d, c) ==
  [db EXCEPT !.confirmed = @ \cup {[device |-> d, content |-> c]}]

NoteHeld(db, d, c) ==
  NoteAsked([db EXCEPT !.replicas =
               {r \in @ : ~(r.content = c /\ r.device = d)}
                 \cup {[content |-> c, device |-> d, private |-> FALSE]}], d, c)

NoteNotHeld(db, d, c) ==
  NoteAsked([db EXCEPT !.replicas =
               {IF r.content = c /\ r.device = d
                  THEN [r EXCEPT !.private = TRUE] ELSE r : r \in @}], d, c)

\* Contents to ask a device about: freed here or marked out of reach there,
\* made by a device no longer paired, and on a phone every shared one.
UnconfirmedHoldings(db, d) ==
  LET Recorded(f) == {r \in db.replicas : r.content = f.content /\ r.device = d}
      ToAsk(f) ==
        \/ \E r \in Recorded(f) :
             \/ r.private \/ ~f.here
             \/ db.kind = "phone" /\ f.scope = Shared
        \/ /\ f.scope = Shared /\ f.by \notin db.peers \cup {db.me}
           /\ Recorded(f) = {}
  IN IF OfOther(db, d) THEN {}
     ELSE {f.content : f \in {g \in Own(db) :
             /\ [device |-> d, content |-> g.content] \notin db.confirmed
             /\ ToAsk(g)}}

KeptUnconfirmed(db, d) ==
  {f.content : f \in {g \in Live(db) :
     /\ g.scope = db.me
     /\ \A r \in db.replicas : ~(r.content = g.content /\ r.device = d /\ ~r.private)}}

Freeable(db) == {f \in Own(db) : NotRules(f) /\ f.here /\ SafeCopies(db, f.content) # {}}

Evictable(db) ==
  {f \in Own(db) : f.here /\ f.path \notin RulePath /\ SafeCopies(db, f.content) # {}}

\* The row or rows of a path in this device's folder.
InFolder(db, p) == {f \in Own(db) : f.path = p}

SetMaterialised(db, p, here) ==
  LET rows == InFolder(db, p)
  IN [db EXCEPT !.files = (@ \ rows) \cup {[f EXCEPT !.here = here] : f \in rows}]

Want(db, p) ==
  LET rows == {f \in InFolder(db, p) : ~f.here}
  IN [db EXCEPT !.files = (@ \ rows) \cup {[f EXCEPT !.wanted = TRUE] : f \in rows}]

Evicted(db) == {f.path : f \in {g \in Own(db) : ~g.here}}

WantedPaths(db) == {f.path : f \in {g \in Own(db) : g.wanted /\ ~g.here}}

KeptRemotely(db, p) == Folders[p] \cap db.remote # {}

\* Made here, and nobody is known to have it.
Undelivered(db) ==
  {f \in Own(db) : /\ f.by = db.me /\ NotRules(f)
                   /\ \A r \in db.replicas : r.content # f.content}

\* What would be gone if this device were wiped.
OnlyHere(db) ==
  {f \in Live(db) : /\ ~f.held /\ NotRules(f)
                    /\ \A r \in db.replicas : r.content # f.content}

UnreportedTo(db, d) ==
  {f.content : f \in {g \in Live(db) :
     g.here /\ g.by = d /\ [device |-> d, content |-> g.content] \notin db.reported}}

NoteReported(db, d, c) ==
  [db EXCEPT !.reported = @ \cup {[device |-> d, content |-> c]}]

(***************************************************************************)
(* Deletions.                                                               *)
(***************************************************************************)

\* A deleted row keeps its content, its references and its mark as held.  Its
\* month is counted from the deletion, wherever that was made.
Tombstone(db, row, vector, by, aged) ==
  WriteRow(db, [row EXCEPT !.deleted = TRUE, !.aged = aged, !.vector = vector, !.by = by])

TombstoneHere(db, row) ==
  Tombstone(NextCounter(db), row, NextLocalVector(db, row.path), db.me, FALSE)

\* References to chunks the chunk store does not have are let go of.
ReleaseUnbacked(db, p, scope, stored) ==
  [db EXCEPT !.files = {IF f.path = p /\ f.scope = scope
                          THEN [f EXCEPT !.chunks = @ \cap stored] ELSE f : f \in @}]

AddTrash(db, p, scope, c, bytes) ==
  [db EXCEPT !.trash = @ \cup {[path |-> p, scope |-> scope, content |-> c,
                                bytes |-> bytes, aged |-> FALSE]}]

RemoveTrash(db, entries) == [db EXCEPT !.trash = @ \ entries]

TrashOf(db, p, scope, c) ==
  {t \in db.trash : t.path = p /\ t.scope = scope /\ t.content = c}

(***************************************************************************)
(* Sends, and what is kept for other devices.                               *)
(***************************************************************************)

\* Sends not yet collected.  Collected is judged by a record, of either kind,
\* of the recipient holding the bytes.
PendingDeliveries(db) ==
  {f \in Live(db) : /\ f.scope \notin {Shared, db.me} /\ ~f.held
                    /\ ~DeviceHolds(db, f.content, f.scope)}

SendSources(db) == {f \in db.files : f.source = "send"}

Done(db, send) == send.deleted \/ DeviceHolds(db, send.content, send.scope)

SendingAgain(db, c, d) ==
  [db EXCEPT !.replicas = {r \in @ : ~(r.content = c /\ r.device = d /\ r.private)}]

ForgetSource(db, p, scope) ==
  [db EXCEPT !.files = {IF f.path = p /\ f.scope = scope
                          THEN [f EXCEPT !.source = "none"] ELSE f : f \in @}]

\* Mutant: forgotten once its sender knows.
SameSendUntold(t, v) == t.sender = v.by /\ t.path = v.path /\ t.vector = v.vector /\ ~t.told

\* A send is who sent it, under what name, and which version of that name.
SameSend(t, v) == t.sender = v.by /\ t.path = v.path /\ t.vector = v.vector

DeliveryTaken(db, v) == \E t \in db.deliveries : SameSend(t, v)

Unacknowledged(db, v) == \E t \in db.deliveries : SameSend(t, v) /\ ~t.told

NoteTaken(db, v) ==
  IF DeliveryTaken(db, v) THEN db
  ELSE [db EXCEPT !.deliveries = @ \cup
          {[sender |-> v.by, path |-> v.path, vector |-> v.vector, told |-> FALSE]}]

Acknowledge(db, v) ==
  [db EXCEPT !.deliveries = {IF SameSend(t, v) THEN [t EXCEPT !.told = TRUE] ELSE t : t \in @}]

AddHolder(db, d) == [db EXCEPT !.holders = @ \cup {d}]

RemoveHolder(db, d) == [db EXCEPT !.holders = @ \ {d}, !.backupsOnly = @ \ {d}]

SetVaultFiles(db, d, keep) ==
  [AddHolder(db, d) EXCEPT !.backupsOnly = IF keep THEN @ \ {d} ELSE @ \cup {d}]

HoldsFor(db, c, d) == \E f \in Live(db) : f.content = c /\ f.scope = d /\ f.held

IsHeld(db, p, owner) == \E f \in LiveRowIn(db, p, owner) : f.held

DeliveryIsVaultOnly(db, c, d) ==
  /\ \A f \in Live(db) : f.content = c => f.scope # Shared
  /\ \E f \in Live(db) : f.content = c /\ f.scope = d

\* Mutant: what is kept for a device that has it too counts as collected.
ReleasableChunksHeldToo(db) ==
  UNION {f.chunks : f \in {g \in Live(db) : /\ g.scope \notin {Shared, db.me}
                                            /\ DeviceHolds(db, g.content, g.scope)}}

\* Chunks of sends that have been collected, and that every other live file
\* using them can be had without.
ReleasableHeldChunks(db) ==
  LET collected == {f \in Live(db) : /\ f.scope \notin {Shared, db.me} /\ ~f.held
                                     /\ DeviceHolds(db, f.content, f.scope)}
      needed == {g \in Live(db) : /\ ~g.here
                                  /\ \A r \in db.replicas : r.content = g.content =>
                                       r.private /\ r.device # g.scope}
  IN UNION {f.chunks : f \in collected} \ UNION {g.chunks : g \in needed}

(***************************************************************************)
(* Who is shown what.                                                       *)
(***************************************************************************)

\* A folder shared with some devices only hides what is in it from the rest.
SharedWith(db, p, d) ==
  \A folder \in Folders[p] \cap DOMAIN db.shares : d \in db.shares[folder]

Version(f, area) ==
  [path |-> f.path, vector |-> f.vector, by |-> f.by, area |-> area, aged |-> f.aged,
   content |-> IF f.deleted THEN NoContent ELSE f.content]

\* The list for a device of this person's: the shared area, its vault -- what
\* was sent to it, and what is kept for it -- and, if it keeps this device's
\* vault, that, or of that only what is backed up.
VersionsForDevice(db, d) ==
  {Version(f, "shared") : f \in {g \in db.files : g.scope = Shared /\ SharedWith(db, g.path, d)}}
  \cup {Version(f, IF f.held THEN "held" ELSE "sent") : f \in {g \in db.files : g.scope = d}}
  \cup {Version(f, "hold") : f \in {g \in db.files :
          /\ g.scope = db.me /\ d \in db.holders
          /\ g.path \in OutsidePath => db.offered
          /\ d \in db.backupsOnly => g.path \in OutsidePath}}

\* The list for another person's: what was sent to it, and what is kept for
\* its person.
VersionsForGuest(db, d) ==
  {Version(f, IF f.held THEN "held" ELSE "sent") : f \in {g \in db.files :
     IF g.held THEN g.scope = db.persons[d] ELSE g.scope = d}}

VersionsFor(db, d) ==
  IF OfOther(db, d) THEN VersionsForGuest(db, d) ELSE VersionsForDevice(db, d)

\* Devices that one has become, each having said so and been said so of.
EarlierSelves(db, d) == {e \in Device : <<e, d>> \in db.became}

KeptForEarlier(db, f, d) == f.held /\ f.scope \in EarlierSelves(db, d)

\* Rows that entitle a device to their bytes; deleted ones count.
Entitles(db, f, d) ==
  IF OfOther(db, d) THEN f.scope \in {d, db.persons[d]}
  ELSE \/ f.scope = Shared /\ SharedWith(db, f.path, d)
       \/ f.scope = d
       \/ f.scope = db.me /\ d \in db.holders
       \/ KeptForEarlier(db, f, d)

ContentVisibleTo(db, c, d) == \E f \in db.files : f.content = c /\ Entitles(db, f, d)

ChunkVisibleTo(db, h, d) == \E f \in db.files : h \in f.chunks /\ Entitles(db, f, d)

\* What a guest may fetch of the shared folder, though it is sent no list.
Reachable(db, f, d) ==
  /\ db.relations[d] = "guest" /\ ~f.deleted
  /\ f.scope = Shared /\ SharedWith(db, f.path, d)

SharedContentReachable(db, c, d) == \E f \in db.files : f.content = c /\ Reachable(db, f, d)

SharedChunkReachable(db, h, d) == \E f \in db.files : h \in f.chunks /\ Reachable(db, f, d)

(***************************************************************************)
(* Peers.                                                                   *)
(***************************************************************************)

TrustPeer(db, d) == [db EXCEPT !.peers = @ \cup {d}]

\* Its copies stop counting; what says that a send was collected stays.
ForgetPeer(db, d) ==
  [db EXCEPT !.peers = @ \ {d}, !.holders = @ \ {d}, !.backupsOnly = @ \ {d},
             !.relations[d] = "own", !.persons[d] = d,
             !.replicas = {IF r.device = d THEN [r EXCEPT !.private = TRUE] ELSE r : r \in @},
             !.reported = {w \in @ : w.device # d},
             !.confirmed = {w \in @ : w.device # d}]

\* The kind of a peer; a phone has the first computer it learns of keep its
\* vault, once.
LearnKind(db, d, kind) ==
  LET known == [db EXCEPT !.kinds[d] = kind]
  IN IF /\ db.kind = "phone" /\ kind = "computer" /\ ~OfOther(db, d)
        /\ ~db.defaulted /\ db.holders = {}
       THEN [AddHolder(known, d) EXCEPT !.defaulted = TRUE] ELSE known

=============================================================================
