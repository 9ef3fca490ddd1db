------------------------------- MODULE Vaults -------------------------------
(***************************************************************************)
(* Files sent from one device to another, and the Private Vault a phone has *)
(* its computers keep: storage/src/store.rs, with the plan of a sync pass   *)
(* (engine/src/peer.rs), what the two devices tell each other about what    *)
(* they hold (peer/src/source.rs, the Got request of peer/src/server.rs)    *)
(* and the storage limit (engine/src/lib.rs).                               *)
(*                                                                          *)
(* The shared area is the matter of Sync; here it is empty.  A pass is one  *)
(* device's, and may be cut off anywhere; requests are answered one at a    *)
(* time, and the answer may be lost.                                        *)
(***************************************************************************)
EXTENDS Index

CONSTANTS Phone,         \* devices whose own files are private
          Filing,        \* devices that file what is sent to them outside the folder
          Routes,        \* <<from, to>>: who sends to whom
          ReceivedPath,  \* the name a send is filed under when its own is taken
          Careful,       \* the circumstances CarefulNow lists are left out
          MaxOps         \* bound: what the people do

ASSUME VaultsAssumption ==
  /\ Phone \subseteq Device /\ Filing \subseteq Device
  /\ Routes \subseteq Device \X Device
  /\ ReceivedPath \in [Path -> Path]
  /\ Careful \in BOOLEAN /\ MaxOps \in Nat

VARIABLES
  db,         \* the index of each device
  disk,       \* its folder
  cas,        \* its chunk store
  sources,    \* files outside the folder that sends are read from
  downloads,  \* what has been filed outside the folder
  pass,       \* the sync pass it is in
  chosen,     \* contents a person has deleted for good, or replaced
  used,       \* contents a person has put somewhere
  filed,      \* sends filed
  refiled,    \* sends filed more than once
  late,       \* deletions heard of when their month was over
  ops         \* what the people have done so far

vars == <<db, disk, cas, sources, downloads, pass, chosen, used, filed, refiled, late, ops>>

Contents == Content \cup {NoContent}
Empty == [p \in Path |-> NoContent]
Computer == Device \ Phone
Kind(d) == IF d \in Phone THEN "phone" ELSE "computer"
Nobody == Shared
Idle == [peer |-> Nobody, todo |-> {}, offered |-> {}, arrived |-> {}, applying |-> FALSE]

\* Paired, with what each device has said of itself known to the other; a
\* person may have settled which computers keep the phone's vault before.
Init ==
  /\ \E settled \in BOOLEAN :
       db = [d \in Device |->
               [NewIndex(d, Kind(d)) EXCEPT !.peers = Device \ {d}, !.defaulted = settled,
                                            !.kinds = [e \in Device |-> Kind(e)]]]
  /\ disk = [d \in Device |-> Empty] /\ downloads = [d \in Device |-> Empty]
  /\ cas = [d \in Device |-> {}] /\ sources = [d \in Device |-> {}]
  /\ pass = [d \in Device |-> Idle]
  /\ chosen = {} /\ used = {} /\ filed = {} /\ refiled = {} /\ late = {} /\ ops = 0

(***************************************************************************)
(* Reading.                                                                 *)
(***************************************************************************)

\* has_chunk: in the chunk store, in a file in the folder, or in the file of
\* a send or of a backup.
HasChunk(d, h) ==
  \/ h \in cas[d]
  \/ \E f \in Live(db[d]) :
       /\ h \in f.chunks
       /\ \/ f.here /\ disk[d][f.path] = f.content
          \/ f.source # "none" /\ f.content \in sources[d]

CanRead(d, c) == AnyFileWithContent(db[d], c) /\ \A h \in ChunksOf[c] : HasChunk(d, h)

\* What a device answers another that asks for a content.
Serves(e, d, c) == d \in db[e].peers /\ ContentVisibleTo(db[e], c, d) /\ CanRead(e, c)

\* put_manifest: the row of a version, with its chunks in the chunk store
\* unless a file supplies them.
NewRow(p, scope, c, vector, by) ==
  [path |-> p, scope |-> scope, content |-> c, deleted |-> FALSE, vector |-> vector,
   by |-> by, here |-> FALSE, wanted |-> FALSE, held |-> FALSE, chunks |-> ChunksOf[c],
   source |-> "none", aged |-> FALSE]

\* Rows keep their mark as held, their source, and a wish for the file back.
PutManifest(index, row) ==
  LET old == RowIn(index, row.path, row.scope)
      Keeps(field(_)) == \E f \in old : field(f)
      WasHeld(f) == f.held
      WasWanted(f) == f.wanted
  IN WriteRow(index, [row EXCEPT !.held = @ \/ Keeps(WasHeld),
                                 !.wanted = ~row.here /\ Keeps(WasWanted),
                                 !.source = IF @ = "none" /\ old # {}
                                              THEN (CHOOSE f \in old : TRUE).source ELSE @])

\* The same content, in the row the write would land on: only whether it is
\* here, and whether it is held, are noted.
Unchanged(index, row) ==
  \E f \in LiveRowIn(index, row.path, row.scope) : f.content = row.content

PutUnchanged(index, row) ==
  [index EXCEPT !.files = {
     IF f.path = row.path /\ f.scope = row.scope
       THEN [f EXCEPT !.here = row.here, !.held = @ \/ row.held, !.wanted = @ /\ ~row.here]
       ELSE f : f \in @}]

Adopt(index, row) ==
  IF Unchanged(index, row) THEN PutUnchanged(index, row) ELSE PutManifest(index, row)

(***************************************************************************)
(* The people.                                                              *)
(***************************************************************************)

Does == ops < MaxOps /\ ops' = ops + 1

\* Left out of a careful run: putting back bytes deleted before, or others
\* under the name of a freed file that was deleted; sending bytes again, or
\* bytes kept for the recipient, or to a phone whose vault the sender keeps;
\* and what happens between two steps of a pass of the other device.
CarefulNow(d, c) ==
  Careful => c \notin used /\ \A e \in Device : pass[e].peer # d

\* And calling a send off once its recipient has begun to collect it.
InTime(d, sends) ==
  Careful => \A f \in sends : pass[f.scope].peer # d /\ ~DeliveryTaken(db[f.scope], f)

MayKeep(d, e) == \/ d \in db[e].holders \/ ~db[e].defaulted
                 \/ \E f \in db[d].files : f.scope = e /\ f.held
HasSent(d, e) == \E f \in db[d].files : f.scope = e /\ ~f.held

\* A file put in the folder, and scanned: into the vault, on a phone.
AddFile(d, p, c) ==
  /\ d \in Phone /\ Does /\ disk[d][p] # c /\ CarefulNow(d, c)
  /\ disk[d][p] = NoContent => FolderRow(db[d], p) = {}
  /\ Careful => \A t \in db[d].trash : t.path = p => t.bytes
  /\ disk' = [disk EXCEPT ![d][p] = c]
  /\ db' = [db EXCEPT ![d] = NextCounter(PutManifest(@,
              [NewRow(p, d, c, NextLocalVector(@, p), d) EXCEPT !.here = TRUE]))]
  /\ used' = used \cup {c} /\ chosen' = (chosen \cup {disk[d][p]}) \ {c, NoContent}
  /\ UNCHANGED <<cas, sources, downloads, pass, filed, refiled, late>>

\* send_from: read where it is, and a new version every time.
Send(d, p, c, e) ==
  LET index == SendingAgain(db[d], c, e)
  IN /\ <<d, e>> \in Routes /\ e \in db[d].peers /\ Does
     /\ CarefulNow(d, c) /\ (Careful /\ e \in Phone => ~MayKeep(d, e))
     /\ sources' = [sources EXCEPT ![d] = @ \cup {c}]
     /\ db' = [db EXCEPT ![d] = NextCounter(PutManifest(index,
                 [NewRow(p, e, c, NextLocalVector(index, p), d) EXCEPT !.source = "send"]))]
     /\ used' = used \cup {c}
     /\ UNCHANGED <<disk, cas, downloads, pass, chosen, filed, refiled, late>>

\* The file of a send, deleted or changed.
SourceGone(d, c) ==
  /\ c \in sources[d] /\ Does
  /\ InTime(d, {f \in SendSources(db[d]) : f.content = c /\ ~Done(db[d], f)})
  /\ sources' = [sources EXCEPT ![d] = @ \ {c}]
  /\ UNCHANGED <<db, disk, cas, downloads, pass, chosen, used, filed, refiled, late>>

CancelSend(d, f) ==
  /\ f \in Live(db[d]) /\ f.scope # d /\ ~f.held /\ Does
  /\ ~DeviceHolds(db[d], f.content, f.scope)
  /\ InTime(d, {f})
  /\ db' = [db EXCEPT ![d] = TombstoneHere(@, f)]
  /\ UNCHANGED <<disk, cas, sources, downloads, pass, chosen, used, filed, refiled, late>>

\* evict: the local copy goes, if a device other than a phone is recorded as
\* holding the bytes.
Freed(d, ps) ==
  /\ db' = [db EXCEPT ![d].files =
       {IF f \in Own(db[d]) /\ f.path \in ps THEN [f EXCEPT !.here = FALSE] ELSE f : f \in @}]
  /\ disk' = [disk EXCEPT ![d] = [p \in Path |-> IF p \in ps THEN NoContent ELSE @[p]]]

\* And freeing what was received.
MayFree(d) ==
  LET Received(c) == \E send \in filed : send[4] = c
  IN {f.path : f \in {g \in Evictable(db[d]) : Careful => ~Received(g.content)}}

Evict(d, p) ==
  /\ p \in MayFree(d)
  /\ Does /\ Freed(d, {p})
  /\ UNCHANGED <<cas, sources, downloads, pass, chosen, used, filed, refiled, late>>

\* Asked for again.
WantBack(d, p) ==
  /\ p \in Evicted(db[d]) \ WantedPaths(db[d]) /\ Does
  /\ db' = [db EXCEPT ![d] = Want(@, p)]
  /\ UNCHANGED <<disk, cas, sources, downloads, pass, chosen, used, filed, refiled, late>>

\* Deleted into Recently deleted: with its bytes, if they are here; and if it
\* is a file of the vault, even without.
DeleteToTrash(d, p) ==
  LET f == CHOOSE g \in FolderRow(db[d], p) : TRUE
      there == disk[d][p] # NoContent
      kept == IF there \/ f.scope = d
                THEN AddTrash(db[d], p, f.scope, f.content, there) ELSE db[d]
  IN /\ FolderRow(db[d], p) # {} /\ Does
     /\ db' = [db EXCEPT ![d] = ReleaseUnbacked(TombstoneHere(kept, f), p, f.scope, cas[d])]
     /\ disk' = [disk EXCEPT ![d][p] = NoContent]
     /\ UNCHANGED <<cas, sources, downloads, pass, chosen, used, filed, refiled, late>>

\* forget_deleted: for good.  Kept for another device, the row goes too.
Forgotten(index, entries) ==
  [RemoveTrash(index, entries) EXCEPT !.files =
     {f \in @ : \A t \in entries : ~(/\ f.scope = t.scope /\ t.scope # index.me
                                     /\ f.deleted /\ f.path = t.path /\ f.content = t.content)}]

ForgetDeleted(d, t) ==
  /\ t \in db[d].trash /\ Does
  /\ db' = [db EXCEPT ![d] = Forgotten(@, {t})]
  /\ chosen' = chosen \cup {t.content}
  /\ UNCHANGED <<disk, cas, sources, downloads, pass, used, filed, refiled, late>>

\* Which computers keep a phone's vault, or of it only what is backed up.
KeepVault(d, e, how) ==
  /\ d \in Phone /\ e \in db[d].peers \cap Computer /\ Does
  /\ Careful => ~HasSent(e, d)
  /\ db' = [db EXCEPT ![d] =
       CASE how = "all" -> SetVaultFiles(@, e, TRUE)
         [] how = "backups" -> SetVaultFiles(@, e, FALSE)
         [] how = "none" -> RemoveHolder(@, e)]
  /\ db' # db
  /\ UNCHANGED <<disk, cas, sources, downloads, pass, chosen, used, filed, refiled, late>>

\* remove_device: sends it has not collected are cancelled, what is kept for
\* it stays unless the person says otherwise, and its copies stop counting.
RemoveDevice(d, e, deleteKept) ==
  LET waiting == {f \in PendingDeliveries(db[d]) : f.scope = e}
      kept == IF deleteKept THEN {f \in Live(db[d]) : f.scope = e /\ f.held} ELSE {}
      vector(f) == NextLocalVector(db[d], f.path)
  IN /\ e \in db[d].peers /\ pass[d] = Idle /\ Does /\ InTime(d, waiting)
     /\ db' = [db EXCEPT ![d] = [ForgetPeer(@, e) EXCEPT
          !.files = (@ \ (waiting \cup kept)) \cup
             {[f EXCEPT !.deleted = TRUE, !.by = d, !.vector = vector(f)] : f \in waiting \cup kept},
          !.counter = IF waiting \cup kept = {} THEN @ ELSE @ + 1]]
     /\ chosen' = chosen \cup {f.content : f \in kept}
     /\ UNCHANGED <<disk, cas, sources, downloads, pass, used, filed, refiled, late>>

\* The two are paired again.
PairAgain(d, e) ==
  /\ d # e /\ ~(e \in db[d].peers /\ d \in db[e].peers) /\ Does
  /\ db' = [db EXCEPT ![d] = TrustPeer(@, e), ![e] = TrustPeer(@, d)]
  /\ UNCHANGED <<disk, cas, sources, downloads, pass, chosen, used, filed, refiled, late>>

(***************************************************************************)
(* Recently deleted.                                                        *)
(***************************************************************************)

\* Where its bytes are in the trash.
RestoreBytes(d, t) ==
  /\ t.bytes
  /\ LET target == IF disk[d][t.path] = NoContent THEN t.path ELSE ReceivedPath[t.path]
     IN /\ disk[d][target] = NoContent /\ FolderRow(db[d], target) = {}
        /\ disk' = [disk EXCEPT ![d][target] = t.content]
        /\ db' = [db EXCEPT ![d] = NextCounter(RemoveTrash(PutManifest(@,
             [NewRow(target, d, t.content, NextLocalVector(@, target), d) EXCEPT !.here = TRUE]), {t}))]

\* restore_freed: a new version with the references the deleted row still has,
\* its bytes left where they are kept.
RestoreFreed(d, t) ==
  /\ ~t.bytes /\ t.scope = d
  /\ FolderRow(db[d], t.path) = {}
  /\ \E row \in DeletedRowIn(db[d], t.path, d, t.content) :
       db' = [db EXCEPT ![d] = NextCounter(RemoveTrash(PutManifest(@,
                [NewRow(t.path, d, t.content, NextLocalVector(@, t.path), d)
                   EXCEPT !.chunks = row.chunks]), {t}))]
  /\ UNCHANGED disk

\* restore_held: a version after the deletion, which its owner takes back.
RestoreHeld(d, t) ==
  /\ ~t.bytes /\ t.scope # d
  /\ LiveRowIn(db[d], t.path, t.scope) = {}
  /\ \E row \in DeletedRowIn(db[d], t.path, t.scope, t.content) :
       /\ row.chunks \subseteq cas[d]
       /\ db' = [db EXCEPT ![d] = RemoveTrash(PutManifest(@,
            [NewRow(t.path, t.scope, t.content, [row.vector EXCEPT ![d] = @ + 1], d)
               EXCEPT !.chunks = row.chunks, !.held = TRUE]), {t})]
  /\ UNCHANGED disk

RestoreFromTrash(d, t) ==
  /\ t \in db[d].trash /\ Does /\ (Careful => ~t.aged)
  /\ RestoreBytes(d, t) \/ RestoreFreed(d, t) \/ RestoreHeld(d, t)
  /\ UNCHANGED <<cas, sources, downloads, pass, chosen, used, filed, refiled, late>>

(***************************************************************************)
(* Housekeeping and the storage limit.                                      *)
(***************************************************************************)

\* check_sends: a send whose file has gone is called off.  tidy_sends: one
\* called off or collected lets go of its file, and of references to chunks
\* nothing here holds.
CalledOff(index, readable) ==
  {f \in SendSources(index) : ~Done(index, f) /\ f.content \notin readable}

Tidied(index, readable, stored) ==
  LET off == CalledOff(index, readable)
      over == off \cup {f \in SendSources(index) : Done(index, f)}
      Off(f) == IF f \in off
                        THEN [f EXCEPT !.deleted = TRUE, !.by = index.me,
                                       !.vector = NextLocalVector(index, f.path)] ELSE f
      LetGo(f) == [Off(f) EXCEPT !.source = "none", !.chunks = @ \cap stored]
  IN [index EXCEPT !.files = (@ \ over) \cup {LetGo(f) : f \in over},
                   !.counter = IF off = {} THEN @ ELSE @ + 1]

\* collect: deletions older than a month go, and then what nothing refers to.
Collected(index) == [index EXCEPT !.files = {f \in @ : ~(f.deleted /\ f.aged)}]

\* Mutant: a deleted file's chunks go at once.
ReferencedByLive(index) == UNION {f.chunks : f \in Live(index)}

Referenced(index) == UNION {f.chunks : f \in index.files}

\* housekeep: sends, garbage, and what has been in the trash for a month.
Housekeep(d) ==
  LET kept == Collected(Tidied(db[d], sources[d], cas[d]))
      expired == {t \in kept.trash : t.aged}
  IN /\ pass[d] = Idle /\ InTime(d, CalledOff(db[d], sources[d]))
     /\ db' = [db EXCEPT ![d] = Forgotten(kept, expired)]
     /\ cas' = [cas EXCEPT ![d] = @ \cap Referenced(kept)]
     /\ chosen' = chosen \cup {t.content : t \in expired}
     /\ UNCHANGED <<disk, sources, downloads, pass, used, filed, refiled, ops, late>>

\* enforce_limit: what was sent and collected, then what was deleted, then
\* local copies; and no more of these than it needs.
EnforceLimit(d, emptied, dropped) ==
  LET cost == {t \in db[d].trash : t.bytes}
  IN /\ pass[d] = Idle /\ Does
     /\ emptied \subseteq cost /\ (dropped # {} => emptied = cost)
     /\ dropped \subseteq MayFree(d)
     /\ db' = [db EXCEPT ![d] = [Forgotten(@, emptied) EXCEPT !.files =
          {IF f \in Own(db[d]) /\ f.path \in dropped
             THEN [f EXCEPT !.here = FALSE] ELSE f : f \in @}]]
     /\ disk' = [disk EXCEPT ![d] = [p \in Path |-> IF p \in dropped THEN NoContent ELSE @[p]]]
     /\ cas' = [cas EXCEPT ![d] = @ \ ReleasableHeldChunks(db[d])]
     /\ chosen' = chosen \cup {t.content : t \in emptied}
     /\ UNCHANGED <<sources, downloads, pass, used, filed, refiled, late>>

\* A file put back, and not yet held again where its bytes are.
Unsettled == \E d \in Device : \E f \in Own(db[d]) :
               ~f.here /\ \A e \in Device : ~HoldsFor(db[e], f.content, d)

MonthPasses ==
  /\ Does /\ (Careful => ~Unsettled /\ \A d \in Device : pass[d] = Idle)
  /\ db' = [d \in Device |->
       [db[d] EXCEPT !.files = {[f EXCEPT !.aged = f.deleted] : f \in @},
                     !.trash = {[t EXCEPT !.aged = TRUE] : t \in @}]]
  /\ pass' = [d \in Device |->
       [pass[d] EXCEPT !.todo = {[a EXCEPT !.version.aged = a.version.content = NoContent] : a \in @},
                       !.offered = {[v EXCEPT !.aged = v.content = NoContent] : v \in @}]]
  /\ UNCHANGED <<disk, cas, sources, downloads, chosen, used, filed, refiled, late>>

(***************************************************************************)
(* A sync pass.                                                             *)
(***************************************************************************)

Act(kind, v) == [kind |-> kind, version |-> v]

\* Sends not taken yet.
Deliveries(d, list) ==
  {Act("take", v) : v \in {w \in list :
     w.area = "sent" /\ w.content # NoContent /\ ~DeliveryTaken(db[d], w)}}

\* What to keep, or drop, for the owner: only on instruction.
Holding(d, e, list) ==
  LET Needed(v) ==
        LET row == LiveRowIn(db[d], v.path, e)
        IN IF v.content = NoContent
             THEN \E f \in row : Compare(f.vector, v.vector) # "after"
             ELSE row = {} \/ \E f \in row : f.content # v.content \/ ~f.held
  IN {Act("hold", v) : v \in {w \in list : w.area = "hold" /\ Needed(w)}}

OwnWanted(d, list) ==
  {Act("back", v) : v \in {w \in list :
     /\ w.area = "held" /\ w.path \in WantedPaths(db[d])
     /\ \E f \in OwnVaultRow(db[d], w.path) : f.content = w.content}}

\* One of this vault's files, deleted here and put back there since.
RestoredElsewhere(d, v) ==
  /\ v.content # NoContent /\ v.path \notin OutsidePath
  /\ OwnVaultRow(db[d], v.path) = {}
  /\ \E row \in DeletedRowIn(db[d], v.path, d, v.content) :
       Compare(v.vector, row.vector) = "after"

OwnRestored(d, list) ==
  {Act("restored", v) : v \in {w \in list :
     w.area = "held" /\ w.path \in OwnDeletedPaths(db[d]) /\ RestoredElsewhere(d, w)}}

Plan(d, e, list) ==
  Deliveries(d, list) \cup Holding(d, e, list) \cup OwnWanted(d, list) \cup OwnRestored(d, list)

\* sync_one: the list, and what kind of device it is, and the plan.
Fetch(d, e) ==
  /\ pass[d] = Idle /\ e \in db[d].peers /\ d \in db[e].peers
  /\ LET list == VersionsFor(db[e], d)
     IN pass' = [pass EXCEPT ![d] = [peer |-> e, todo |-> Plan(d, e, list), arrived |-> {},
                                     offered |-> {v \in list : v.area = "sent"}, applying |-> FALSE]]
  /\ db' = [db EXCEPT ![d] = LearnKind(@, e, Kind(e))]
  /\ UNCHANGED <<disk, cas, sources, downloads, chosen, used, filed, refiled, ops, late>>

\* Mutant: every copy told of is one to ask for.
GotOrdinary(index, d, c) == IF d \notin index.peers THEN index ELSE NoteReplica(index, c, d)

\* Got, at the device told: a copy its own vault keeps, or was sent to it and
\* is nowhere else here, is not one to ask for.
Got(index, d, c) ==
  IF d \notin index.peers THEN index
  ELSE IF HoldsFor(index, c, d) \/ DeliveryIsVaultOnly(index, c, d) \/ OfOther(index, d)
    THEN NoteReplicaInVault(index, c, d) ELSE NoteReplica(index, c, d)

\* report_holdings: what the peer made and is here, and sends taken before;
\* the answer may be lost.
Report(d, c, v, heard) ==
  LET e == pass[d].peer
      sends == {w \in pass[d].offered : w.content = c /\ Unacknowledged(db[d], w)}
      noted == NoteReported(db[d], e, c)
  IN /\ pass[d] # Idle /\ ~pass[d].applying
     /\ IF sends = {} THEN c \in UnreportedTo(db[d], e) /\ v = {} ELSE v \in {{w} : w \in sends}
     /\ db' = [db EXCEPT ![e] = Got(@, d, c),
                         ![d] = IF ~heard THEN @
                                ELSE IF v = {} THEN noted
                                ELSE Acknowledge(noted, CHOOSE w \in v : TRUE)]
     /\ UNCHANGED <<disk, cas, sources, downloads, pass, chosen, used, filed, refiled, ops, late>>

\* check_holders and confirm_kept: does the peer hold what it is said to?
Check(d, c) ==
  LET e == pass[d].peer
      asked == UnconfirmedHoldings(db[d], e)
      unsure == IF e \in db[d].holders THEN KeptUnconfirmed(db[d], e) ELSE {}
  IN /\ pass[d] # Idle /\ ~pass[d].applying
     /\ \/ /\ c \in asked
           /\ db' = [db EXCEPT ![d] = IF Serves(e, d, c) THEN NoteHeld(@, e, c) ELSE NoteNotHeld(@, e, c)]
        \/ c \in unsure /\ Serves(e, d, c) /\ db' = [db EXCEPT ![d] = NoteHeld(@, e, c)]
     /\ UNCHANGED <<disk, cas, sources, downloads, pass, chosen, used, filed, refiled, ops, late>>

Begin(d) ==
  /\ pass[d] # Idle /\ ~pass[d].applying
  /\ pass' = [pass EXCEPT ![d].applying = TRUE]
  /\ UNCHANGED <<db, disk, cas, sources, downloads, chosen, used, filed, refiled, ops, late>>

\* One action of the plan, additions before removals.
Step(d, a) ==
  /\ pass[d].applying /\ a \in pass[d].todo
  /\ a.version.content = NoContent => \A b \in pass[d].todo : b.version.content = NoContent

Proceed(d, a, arrived) ==
  pass' = [pass EXCEPT ![d].todo = @ \ {a}, ![d].arrived = @ \cup arrived]

\* bring_in: from here, or from the peer.
Bring(d, c) == CanRead(d, c) \/ Serves(pass[d].peer, d, c)

Files(v) ==
  LET send == <<v.by, v.path, v.vector, v.content>>
  IN filed' = filed \cup {send} /\ refiled' = refiled \cup (filed \cap {send})

\* take, for a send, into the folder.  The process may be killed after the
\* file is in place, and before it is recorded.
TakeSend(d, a, recorded) ==
  LET v == a.version
      p == IF LivePathAnywhere(db[d], v.path) THEN ReceivedPath[v.path] ELSE v.path
      known == NoteReplicaInVault(db[d], v.content, v.by)
      row == [NewRow(p, d, v.content, v.vector, v.by) EXCEPT !.here = TRUE]
  IN /\ Step(d, a) /\ a.kind = "take" /\ d \notin Filing
     /\ Bring(d, v.content) /\ disk[d][p] = NoContent
     /\ (Careful => recorded)
     /\ disk' = [disk EXCEPT ![d][p] = v.content] /\ Files(v)
     /\ IF recorded
          THEN /\ db' = [db EXCEPT ![d] = NoteTaken(NoteTaken(Adopt(known, row), [v EXCEPT !.path = p]), v)]
               /\ Proceed(d, a, {v.content})
          ELSE /\ db' = [db EXCEPT ![d] = NextCounter(PutManifest(known,
                     [row EXCEPT !.vector = NextLocalVector(known, p), !.by = d]))]
               /\ pass' = [pass EXCEPT ![d] = Idle]
     /\ UNCHANGED <<cas, sources, downloads, chosen, used, ops, late>>

\* take_into_downloads: a file already there with these bytes is this
\* delivery, put in place by an attempt that ended before recording it.
TakeIntoDownloads(d, a, recorded) ==
  LET v == a.version
      names == <<v.path, ReceivedPath[v.path]>>
      First(i) == \A j \in 1..(i - 1) : downloads[d][names[j]] \notin {NoContent, v.content}
  IN \E i \in 1..2 :
     /\ Step(d, a) /\ a.kind = "take" /\ d \in Filing /\ First(i)
     /\ \/ /\ downloads[d][names[i]] = v.content /\ recorded
           /\ UNCHANGED <<downloads, filed, refiled>>
        \/ /\ downloads[d][names[i]] = NoContent /\ Bring(d, v.content)
           /\ downloads' = [downloads EXCEPT ![d][names[i]] = v.content] /\ Files(v)
     /\ IF recorded
          THEN /\ db' = [db EXCEPT ![d] = NoteTaken(@, v)]
               /\ Proceed(d, a, {v.content})
          ELSE pass' = [pass EXCEPT ![d] = Idle] /\ UNCHANGED db
     /\ UNCHANGED <<disk, cas, sources, chosen, used, ops, late>>

\* take, for a file of this vault asked for back.
TakeBack(d, a) ==
  LET v == a.version
      known == IF v.by = d THEN db[d] ELSE NoteReplica(db[d], v.content, v.by)
  IN /\ Step(d, a) /\ a.kind = "back" /\ Bring(d, v.content)
     /\ disk' = [disk EXCEPT ![d][v.path] = v.content]
     /\ db' = [db EXCEPT ![d] = NoteTaken(Adopt(known,
                 [NewRow(v.path, d, v.content, v.vector, v.by) EXCEPT !.here = TRUE]), v)]
     /\ Proceed(d, a, {v.content})
     /\ UNCHANGED <<cas, sources, downloads, chosen, used, filed, refiled, ops, late>>

\* take_hold: kept in the chunk store, and its owner told once it is.  Its
\* owner has it again, so it is not in Recently deleted here.
Hold(d, a) ==
  LET v == a.version
      e == pass[d].peer
      row == [NewRow(v.path, e, v.content, v.vector, v.by) EXCEPT !.held = TRUE]
  IN /\ Step(d, a) /\ a.kind = "hold" /\ v.content # NoContent /\ Bring(d, v.content)
     /\ cas' = [cas EXCEPT ![d] = IF Unchanged(db[d], row) THEN @ ELSE @ \cup ChunksOf[v.content]]
     /\ db' = [db EXCEPT ![d] = RemoveTrash(Adopt(@, row), TrashOf(@, v.path, e, v.content))]
     /\ Proceed(d, a, {v.content})
     /\ UNCHANGED <<disk, sources, downloads, chosen, used, filed, refiled, ops, late>>

\* unhold: on the owner's deletion, and into Recently deleted here, unless it
\* was a backup or another person's.  The row is dated by the owner's deletion,
\* the entry in Recently deleted by now.
Unhold(d, a) ==
  LET v == a.version
      e == pass[d].peer
      row == LiveRowIn(db[d], v.path, e)
      gone(f) == Tombstone(db[d], f, v.vector, v.by, v.aged)
      listed == {<<d, v.path, e>>}
  IN /\ Step(d, a) /\ a.kind = "hold" /\ v.content = NoContent
     /\ db' = [db EXCEPT ![d] =
          IF row = {} THEN @
          ELSE LET f == CHOOSE g \in row : TRUE
               IN IF v.path \in OutsidePath \/ OfOther(@, e) THEN gone(f)
                  ELSE AddTrash(gone(f), v.path, e, f.content, FALSE)]
     /\ late' = IF row = {} THEN late ELSE IF v.aged THEN late \cup listed ELSE late \ listed
     /\ Proceed(d, a, {})
     /\ UNCHANGED <<disk, cas, sources, downloads, chosen, used, filed, refiled, ops>>

\* take_back_restored: from the trash if its bytes are there, or else left
\* where they are kept.
TakeRestored(d, a) ==
  LET v == a.version
      entries == TrashOf(db[d], v.path, d, v.content)
      here == \E t \in entries : t.bytes
      row == NewRow(v.path, d, v.content, v.vector, v.by)
      deleted == DeletedRowIn(db[d], v.path, d, v.content)
  IN /\ Step(d, a) /\ a.kind = "restored"
     /\ IF RestoredElsewhere(d, v) /\ (here => disk[d][v.path] = NoContent)
          THEN /\ db' = [db EXCEPT ![d] = RemoveTrash(PutManifest(@,
                     IF here THEN [row EXCEPT !.here = TRUE]
                     ELSE [row EXCEPT !.chunks = (CHOOSE f \in deleted : TRUE).chunks]), entries)]
               /\ disk' = IF here THEN [disk EXCEPT ![d][v.path] = v.content] ELSE disk
          ELSE UNCHANGED <<db, disk>>
     /\ Proceed(d, a, {})
     /\ UNCHANGED <<cas, sources, downloads, chosen, used, filed, refiled, ops, late>>

\* Mutant: told with the rest.
FailsUnnoticed(d, a) ==
  /\ Step(d, a) /\ a.version.content # NoContent /\ a.kind # "restored"
  /\ ~Bring(d, a.version.content)
  /\ Proceed(d, a, {a.version.content})
  /\ UNCHANGED <<db, disk, cas, sources, downloads, chosen, used, filed, refiled, ops, late>>

\* An action that cannot be had is left for the next pass.
Fails(d, a) ==
  /\ Step(d, a) /\ a.version.content # NoContent /\ a.kind # "restored"
  /\ ~Bring(d, a.version.content)
  /\ Proceed(d, a, {})
  /\ UNCHANGED <<db, disk, cas, sources, downloads, chosen, used, filed, refiled, ops, late>>

\* tell_arrived: what came, told together; nothing of it is kept if it is lost.
Tell(d) ==
  LET e == pass[d].peer
  IN /\ pass[d].arrived # {}
     /\ \E c \in pass[d].arrived :
          /\ db' = [db EXCEPT ![e] = Got(@, d, c)]
          /\ pass' = [pass EXCEPT ![d].arrived = @ \ {c}]
     /\ UNCHANGED <<disk, cas, sources, downloads, chosen, used, filed, refiled, ops, late>>

\* The pass is over, or is cut off.
Ends(d) ==
  /\ pass[d] # Idle
  /\ pass' = [pass EXCEPT ![d] = Idle]
  /\ UNCHANGED <<db, disk, cas, sources, downloads, chosen, used, filed, refiled, ops, late>>

People ==
  \/ \E d \in Device, p \in Path, c \in Content : AddFile(d, p, c)
  \/ \E d, e \in Device, p \in Path, c \in Content : Send(d, p, c, e)
  \/ \E d \in Device, c \in Content : SourceGone(d, c)
  \/ \E d \in Device : \E f \in db[d].files : CancelSend(d, f)
  \/ \E d \in Device, p \in Path : Evict(d, p) \/ WantBack(d, p) \/ DeleteToTrash(d, p)
  \/ \E d \in Device : \E t \in db[d].trash : RestoreFromTrash(d, t) \/ ForgetDeleted(d, t)
  \/ \E d, e \in Device : \/ \E how \in {"all", "backups", "none"} : KeepVault(d, e, how)
                          \/ \E deleteKept \in BOOLEAN : RemoveDevice(d, e, deleteKept)
                          \/ PairAgain(d, e)
  \/ MonthPasses

Upkeep ==
  \E d \in Device :
    \/ Housekeep(d)
    \/ \E emptied \in SUBSET db[d].trash, dropped \in SUBSET Path : EnforceLimit(d, emptied, dropped)

Syncing ==
  \E d \in Device :
    \/ \E e \in Device : Fetch(d, e)
    \/ \E c \in Content, heard \in BOOLEAN :
         \E v \in {{}} \cup {{w} : w \in pass[d].offered} : Report(d, c, v, heard)
    \/ \E c \in Content : Check(d, c)
    \/ Begin(d) \/ Tell(d) \/ Ends(d)
    \/ \E a \in pass[d].todo :
         \/ \E recorded \in BOOLEAN : TakeSend(d, a, recorded) \/ TakeIntoDownloads(d, a, recorded)
         \/ TakeBack(d, a) \/ Hold(d, a) \/ Unhold(d, a) \/ TakeRestored(d, a) \/ Fails(d, a)

Next == People \/ Upkeep \/ Syncing

Spec == Init /\ [][Next]_vars

(***************************************************************************)
(* Properties.                                                              *)
(***************************************************************************)

TypeOK ==
  /\ \A d \in Device :
       /\ db[d].files \subseteq File /\ db[d].replicas \subseteq Replica
       /\ db[d].confirmed \cup db[d].reported \subseteq Word
       /\ db[d].deliveries \subseteq Delivered /\ db[d].trash \subseteq Trashed
       /\ \A f, g \in db[d].files : f.path = g.path /\ f.scope = g.scope => f = g
  /\ disk \in [Device -> [Path -> Contents]] /\ downloads \in [Device -> [Path -> Contents]]
  /\ cas \in [Device -> SUBSET Chunk] /\ sources \in [Device -> SUBSET Content]

Somewhere(c) ==
  \E e \in Device : \/ ChunksOf[c] \subseteq cas[e]
                    \/ \E p \in Path : disk[e][p] = c
                    \/ \E t \in db[e].trash : t.content = c /\ t.bytes

\* A file listed in a vault, and one Recently deleted still lists, is
\* somewhere, unless a person has deleted it for good: freeing the local copy
\* on another device's word, its housekeeping, a month passing, a file
\* restored on one device or the other and a device removed never leave a
\* listing with nothing behind it.  Not so for a deletion heard of more than a
\* month after it was made, which the keeper of the vault lists for a month and
\* collects at once.
NothingLost ==
  \A d \in Device :
    /\ \A f \in Own(db[d]) : f.content \in chosen \/ Somewhere(f.content)
    /\ \A t \in db[d].trash : \/ t.aged \/ t.content \in chosen \/ Somewhere(t.content)
                             \/ <<d, t.path, t.scope>> \in late

\* Does not hold (README, Divergences).
\* What Recently deleted lists can be put back until its month is over,
\* whenever the deletion was heard of.
ListedIsThere ==
  \A d \in Device : \A t \in db[d].trash :
    t.aged \/ t.content \in chosen \/ Somewhere(t.content)

\* What is kept for another device is in the chunk store: no send of the same
\* name or bytes, and no limit, takes it away while its owner has not deleted
\* it.
HeldIsKept ==
  \A d \in Device : \A f \in Live(db[d]) : f.held => ChunksOf[f.content] \subseteq cas[d]

\* A copy that comes to count as safe -- one to ask for, on a device that is
\* not a phone -- is one that device would hand back: what lets this one free
\* its own.
RecordsAreTrue ==
  [][\A d, e \in Device, c \in Content :
       LET r == [content |-> c, device |-> e, private |-> FALSE]
       IN r \in SafeCopies(db[d], c)' \ SafeCopies(db[d], c) => Serves(e, d, c)']_vars

\* A send counted as collected has been taken, that send and not an earlier
\* one of the same bytes: its file is not let go of sooner.
CollectedIsTaken ==
  \A d \in Device : \A f \in Live(db[d]) :
    f.scope \notin {Shared, d} /\ ~f.held /\ DeviceHolds(db[d], f.content, f.scope)
      => DeliveryTaken(db[f.scope], f)

\* Does not hold (README, Divergences).
\* The device a send came from, and which has its bytes only to send, is not a
\* copy to free the one received on: it lets go of them once they are taken.
SenderIsNoFallback ==
  \A d, e \in Device : \A c \in Content :
    LET rows == {f \in db[e].files : f.content = c}
    IN rows # {} /\ (\A f \in rows : f.scope = d /\ ~f.held /\ DeliveryTaken(db[d], f))
         => \A r \in SafeCopies(db[d], c) : r.device # e

\* A send is filed once, however often it is offered, whatever is lost of the
\* answers, and wherever a process that files it is killed.
FiledOnce == refiled = {}

=============================================================================
