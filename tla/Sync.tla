-------------------------------- MODULE Sync --------------------------------
(***************************************************************************)
(* Devices keeping one shared folder the same: users change files on disk, *)
(* each device's engine notices and indexes the changes, and pulls from    *)
(* the others one plan at a time (crates/engine/src/lib.rs and peer.rs,    *)
(* crates/qurb/src/daemon.rs, and the writes of crates/storage they make). *)
(* Beside the engine, a computer serves its phones and guests, who change  *)
(* its folder through a second connection to its store (server.rs,         *)
(* shared_folder.rs), while a plan is applied too.                         *)
(*                                                                         *)
(* Every device here has a folder and is in the shared area; replicas,     *)
(* vaults, deliveries and freed files are not in this module.              *)
(***************************************************************************)
EXTENDS Reconcile, Functions

CONSTANTS
  NoDevice,     \* the peer of a device that is not pulling
  Copied,       \* contents users may write more than once, on any device
  PerSecond,    \* changes a device can index within one second
  Serving,      \* devices whose phones and guests change their folder
  MaxWrites,    \* bound: what users write and remove, all devices together
  MaxServed,    \* bound: changes phones and guests ask for
  MaxFaults,    \* bound: steps of plans that fail, and daemons killed
  MaxEvents     \* bound: all of these together, a change asked for counted twice

ASSUME SyncAssumption ==
  /\ NoDevice \notin Device
  /\ Copied \subseteq Hash
  /\ Serving \subseteq Device
  /\ PerSecond \in Nat \ {0}
  /\ {MaxWrites, MaxServed, MaxFaults, MaxEvents} \subseteq Nat

VARIABLES
  disk,         \* disk[d]: the files in d's folder
  index,        \* index[d]: d's rows of the shared area, tombstones included
  elsewhere,    \* elsewhere[d]: live rows whose bytes are not here
  trash,        \* trash[d]: contents in d's Recently deleted
  counter,      \* counter[d]: the last counter d handed out
  pull,         \* pull[d]: the plan d is applying, and how far it has got
  mode,         \* mode[d]: scanning its folder after a start, or running
  serving,      \* serving[d]: the change served at d made on disk, not yet indexed
  raced,        \* history: paths served requests stamped at d while its plan
                \* had still to take them
  fate,         \* history: what became of each content a user wrote
  spent         \* how much of the bounds is used up

vars == <<disk, index, elsewhere, trash, counter, pull, mode, serving, raced, fate,
          spent>>

-----------------------------------------------------------------------------
File == [path : Path, content : Hash]
Fates == {"unwritten", "typed", "indexed", "indexed copy", "replaced", "overtaken"}
Request == [op : {"place", "delete"}, path : Path]
PlanAction == [kind : {"Adopt", "Merge", "Conflict", "Resurrect"},
               takes : Seq(Version) \ {<<>>}]

\* What sync_one keeps between fetching a peer's list and the end of
\* apply_plan: the actions left, the versions of the current action left to
\* take, whether the first of them is on disk already, and whether the peer's
\* connection closed.
Pull == [peer : Device \cup {NoDevice}, todo : SUBSET PlanAction,
         taking : Seq(Version), placed : BOOLEAN, gone : BOOLEAN]

Idle == [peer |-> NoDevice, todo |-> {}, taking |-> <<>>,
         placed |-> FALSE, gone |-> FALSE]

\* The versions a pull has still to take.
Planned(plan) == UNION {Range(a.takes) : a \in plan}
Flight(q) == Planned(q.todo) \cup Range(q.taking)
InFlight(d) == Flight(pull[d])
Awaited(d) == {v.path : v \in InFlight(d)}

\* The pull goes on as q; a plan with nothing left is over.
Proceed(d, q) ==
  pull' = [pull EXCEPT ![d] = IF q.todo = {} /\ q.taking = <<>> THEN Idle ELSE q]

TypeOK ==
  /\ disk \in [Device -> SUBSET File]
  /\ index \in [Device -> SUBSET Version]
  /\ elsewhere \in [Device -> SUBSET Path]
  /\ trash \in [Device -> SUBSET Hash]
  /\ counter \in [Device -> Nat]
  /\ pull \in [Device -> Pull]
  /\ mode \in [Device -> {"scanning", "running"}]
  /\ serving \in [Device -> SUBSET Request]
  /\ raced \in [Device -> SUBSET Path]
  /\ fate \in [Hash -> Fates]
  /\ spent \in [writes : Nat, served : Nat, fails : Nat, crashes : Nat]

Init ==
  /\ disk = [d \in Device |-> {}]
  /\ index = [d \in Device |-> {}]
  /\ elsewhere = [d \in Device |-> {}]
  /\ trash = [d \in Device |-> {}]
  /\ counter = [d \in Device |-> 0]
  /\ pull = [d \in Device |-> Idle]
  /\ mode = [d \in Device |-> "running"]
  /\ serving = [d \in Device |-> {}]
  /\ raced = [d \in Device |-> {}]
  /\ fate = [h \in Hash |-> "unwritten"]
  /\ spent = [writes |-> 0, served |-> 0, fails |-> 0, crashes |-> 0]

-----------------------------------------------------------------------------
\* An upsert by path, on a set of files or of rows.
Put(set, x) == {y \in set : y.path # x.path} \cup {x}
Without(set, p) == {y \in set : y.path # p}

OnDisk(d, p) == AtPath(disk[d], p) # {}
Live(d, p) == \E v \in AtPath(index[d], p) : v.content # Deleted

\* Db::is_materialised = Some(true)
Here(d, p) == Live(d, p) /\ p \notin elsewhere[d]

\* The rows h can be read from: Db::locate_chunk takes one of them, whichever
\* the index finds first, and reads the file at its path.
Rows(d, h) == {v \in index[d] : v.content = h /\ v.path \notin elsewhere[d]}
Intact(d, v) == [path |-> v.path, content |-> v.content] \in disk[d]
MayRead(d, h) == \E v \in Rows(d, h) : Intact(d, v)
MustRead(d, h) == MayRead(d, h) /\ \A v \in Rows(d, h) : Intact(d, v)

\* Mutants of NextLocalVector: a counter past the one saved, and a change that
\* forgets what the path knew.
NextVectorUnsaved(d, p) ==
  [e \in Device |->
     IF e = d THEN counter[d] + 2
     ELSE IF AtPath(index[d], p) = {} THEN 0
     ELSE (CHOOSE v \in AtPath(index[d], p) : TRUE).vector[e]]
NextVectorForgets(d, p) == [e \in Device |-> IF e = d THEN counter[d] + 1 ELSE 0]

\* Db::next_local_vector and next_counter: what the path knew, advanced by a
\* counter of the whole store.
NextLocalVector(d, p) ==
  [e \in Device |->
     IF e = d THEN counter[d] + 1
     ELSE IF AtPath(index[d], p) = {} THEN 0
     ELSE (CHOOSE v \in AtPath(index[d], p) : TRUE).vector[e]]

\* A version made by a change noticed here.
LocalVersion(d, p, content) ==
  [path |-> p, content |-> content, vector |-> NextLocalVector(d, p),
   by |-> d, at |-> (counter[d] + 1) \div PerSecond]

-----------------------------------------------------------------------------
\* Whether the bounds leave room.
Events == spent.writes + 2 * spent.served + spent.fails + spent.crashes
MoreWrites == spent.writes < MaxWrites /\ Events < MaxEvents
MoreServed == spent.served < MaxServed /\ Events + 1 < MaxEvents
MoreFaults == spent.fails + spent.crashes < MaxFaults /\ Events < MaxEvents

\* What becomes of contents when h is written at p: the one there is replaced.
Typed(d, p, h) ==
  [c \in Hash |->
     IF [path |-> p, content |-> c] \in disk[d] THEN "replaced"
     ELSE IF c = h /\ fate[h] = "unwritten" THEN "typed" ELSE fate[c]]

MayWrite(h) == fate[h] = "unwritten" \/ (h \in Copied /\ fate[h] # "replaced")

\* The user writes the file at p, over whatever was there.
Write(d, p, h) ==
  /\ MoreWrites
  /\ MayWrite(h)
  /\ [path |-> p, content |-> h] \notin disk[d]
  /\ fate' = Typed(d, p, h)
  /\ disk' = [disk EXCEPT ![d] = Put(@, [path |-> p, content |-> h])]
  /\ spent' = [spent EXCEPT !.writes = @ + 1]
  /\ UNCHANGED <<index, elsewhere, trash, counter, pull, mode, serving, raced>>

\* The user removes the file at p.
Remove(d, p) ==
  /\ MoreWrites
  /\ OnDisk(d, p)
  /\ fate' = [c \in Hash |->
                IF [path |-> p, content |-> c] \in disk[d] THEN "replaced"
                ELSE fate[c]]
  /\ disk' = [disk EXCEPT ![d] = Without(@, p)]
  /\ spent' = [spent EXCEPT !.writes = @ + 1]
  /\ UNCHANGED <<index, elsewhere, trash, counter, pull, mode, serving, raced>>

-----------------------------------------------------------------------------
\* Mutant of Between: events are handled while a plan is applied.
AnyTime(d) == mode[d] \in {"scanning", "running"}

\* The daemon's loop does one thing at a time: an event, a scan or a new sync
\* only once the plan of the last one is done.
Between(d) == pull[d].peer = NoDevice

\* What a look at a file, or at a row without its file, would change.
Changed(d, f) ==
  ~ \E v \in AtPath(index[d], f.path) : v.content = f.content
Unmarked(d, f) ==
  f.path \in elsewhere[d] /\ ~Changed(d, f)
Vanished(d, p) == Here(d, p) /\ ~OnDisk(d, p)

\* What is typed is indexed with the file f.
Indexed(f) ==
  [fate EXCEPT ![f.content] =
     CASE @ = "typed" /\ Original(f.path)  -> "indexed"
       [] @ = "typed" /\ ~Original(f.path) -> "indexed copy"
       [] OTHER -> @]

\* Engine::store_if_changed and Store::put_file: a file that is not what the
\* index says is stored as a change made here.
Store(d, f) ==
  /\ Between(d)
  /\ f \in disk[d] /\ Changed(d, f)
  /\ index' = [index EXCEPT ![d] = Put(@, LocalVersion(d, f.path, f.content))]
  /\ elsewhere' = [elsewhere EXCEPT ![d] = @ \ {f.path}]
  /\ counter' = [counter EXCEPT ![d] = @ + 1]
  /\ fate' = Indexed(f)
  /\ UNCHANGED <<disk, trash, pull, mode, serving, raced, spent>>

\* The same for a file whose content the index has: no change, and no clock
\* tick, but its bytes are here again.
StoreUnchanged(d, f) ==
  /\ Between(d)
  /\ f \in disk[d] /\ Unmarked(d, f)
  /\ elsewhere' = [elsewhere EXCEPT ![d] = @ \ {f.path}]
  /\ UNCHANGED <<disk, index, trash, counter, pull, mode, serving, raced,
                 fate, spent>>

\* Engine::apply_removal, the sweep of Engine::reconcile, Store::delete_file:
\* a live row whose file is gone becomes a tombstone, unless its bytes were
\* never here to go.
DeleteFile(d, p) ==
  /\ Between(d)
  /\ Vanished(d, p)
  /\ index' = [index EXCEPT ![d] = Put(@, LocalVersion(d, p, Deleted))]
  /\ counter' = [counter EXCEPT ![d] = @ + 1]
  /\ UNCHANGED <<disk, elsewhere, trash, pull, mode, serving, raced, fate, spent>>

-----------------------------------------------------------------------------
\* One request changes a device's folder at a time: the store behind them is
\* locked for as long as it takes.  Nothing keeps it from the engine's own.
MayServe(d) ==
  /\ d \in Serving /\ mode[d] = "running" /\ serving[d] = {}
  /\ MoreServed

\* shared_folder::place: a file a phone or a guest sent is put at p, a name that
\* is free, to be indexed.  A name taken is numbered: another name.
PlaceUpload(d, p, h) ==
  /\ MayServe(d) /\ MayWrite(h)
  /\ ~Live(d, p) /\ ~OnDisk(d, p)
  /\ fate' = Typed(d, p, h)
  /\ disk' = [disk EXCEPT ![d] = Put(@, [path |-> p, content |-> h])]
  /\ serving' = [serving EXCEPT ![d] = {[op |-> "place", path |-> p]}]
  /\ spent' = [spent EXCEPT !.served = @ + 1]
  /\ UNCHANGED <<index, elsewhere, trash, counter, pull, mode, raced>>

\* shared_folder::delete_path, Store::delete_to_trash_by: the file goes to the
\* trash, if there is one, and its row is then to be deleted.  A file whose bytes
\* are elsewhere is removed as a user removes one.
TrashServed(d, p) ==
  /\ MayServe(d) /\ Live(d, p)
  /\ fate' = [c \in Hash |->
                IF p \in elsewhere[d] /\ \E v \in AtPath(index[d], p) : v.content = c
                  THEN "replaced" ELSE fate[c]]
  /\ trash' = [trash EXCEPT ![d] = @ \cup {f.content : f \in AtPath(disk[d], p)}]
  /\ disk' = [disk EXCEPT ![d] = Without(@, p)]
  /\ serving' = [serving EXCEPT ![d] = {[op |-> "delete", path |-> p]}]
  /\ spent' = [spent EXCEPT !.served = @ + 1]
  /\ UNCHANGED <<index, elsewhere, counter, pull, mode, raced>>

\* A change served is stamped at once, a plan being applied or not.
Served(d, p, content) ==
  /\ index' = [index EXCEPT ![d] = Put(@, LocalVersion(d, p, content))]
  /\ elsewhere' = [elsewhere EXCEPT ![d] = @ \ {p}]
  /\ counter' = [counter EXCEPT ![d] = @ + 1]
  /\ raced' = [raced EXCEPT ![d] = @ \cup ({p} \cap Awaited(d))]

\* Store::put_file of what is at the path by now, which a plan that had still to
\* take the path is to overtake: take looks at no row and no file again.
StoreServed(d, f) ==
  /\ [op |-> "place", path |-> f.path] \in serving[d]
  /\ f \in disk[d] /\ Changed(d, f)
  /\ Served(d, f.path, f.content)
  /\ fate' = IF f.path \in Awaited(d) /\ fate[f.content] \in {"typed", "indexed"}
               THEN [fate EXCEPT ![f.content] = "overtaken"] ELSE Indexed(f)
  /\ serving' = [serving EXCEPT ![d] = {}]
  /\ UNCHANGED <<disk, trash, pull, mode, spent>>

\* Store::delete_file of the row that is live by now, which may be of a file a
\* plan or a user put there since the other was removed.
Overtaken(d, p) ==
  {f.content : f \in AtPath(disk[d], p)}
    \cup {v.content : v \in {w \in AtPath(index[d], p) : p \in elsewhere[d]}}

DeleteServed(d, p) ==
  /\ [op |-> "delete", path |-> p] \in serving[d]
  /\ Live(d, p)
  /\ Served(d, p, Deleted)
  /\ fate' = [c \in Hash |-> IF fate[c] = "indexed" /\ c \in Overtaken(d, p)
                               THEN "overtaken" ELSE fate[c]]
  /\ serving' = [serving EXCEPT ![d] = {}]
  /\ UNCHANGED <<disk, trash, pull, mode, spent>>

\* The engine has indexed the file already, the file is gone, or no row is live:
\* no change.
ServedNothing(d, q) ==
  /\ q \in serving[d]
  /\ IF q.op = "place" THEN \A f \in AtPath(disk[d], q.path) : ~Changed(d, f)
                       ELSE ~Live(d, q.path)
  /\ elsewhere' = [elsewhere EXCEPT ![d] =
                      IF q.op = "place" /\ OnDisk(d, q.path) THEN @ \ {q.path} ELSE @]
  /\ serving' = [serving EXCEPT ![d] = {}]
  /\ UNCHANGED <<disk, index, trash, counter, pull, mode, raced, fate, spent>>

-----------------------------------------------------------------------------
\* Daemon::sync_one: fetch the peer's list, as it is now, and plan against it.
FetchTree(d, e) ==
  /\ d # e /\ Between(d)
  /\ mode[d] = "running" /\ mode[e] = "running"
  /\ LET plan == ReconcileLists(index[d], index[e])
     IN  /\ plan # {}
         /\ pull' = [pull EXCEPT ![d] = [Idle EXCEPT !.peer = e, !.todo = plan]]
  /\ raced' = [raced EXCEPT ![d] = {}]
  /\ UNCHANGED <<disk, index, elsewhere, trash, counter, mode, serving, fate, spent>>

Removal(a) == a.kind = "Adopt" /\ a.takes[1].content = Deleted

\* asks_source: merges and removals need nothing from the peer.
AsksSource(a) == a.kind # "Merge" /\ ~Removal(a)

\* apply_plan_reporting chooses its next action: additions before removals.
Next1(d, a) ==
  /\ a \in pull[d].todo /\ pull[d].taking = <<>>
  /\ Removal(a) => \A b \in pull[d].todo : Removal(b)

\* Action::Merge, Store::merge_version: the row keeps its content.
Merge(d, a) ==
  /\ Next1(d, a) /\ a.kind = "Merge"
  /\ LET m == a.takes[1]
     IN  index' = [index EXCEPT ![d] =
           {IF v.path = m.path
              THEN [v EXCEPT !.vector = m.vector, !.by = m.by, !.at = m.at]
              ELSE v : v \in @}]
  /\ Proceed(d, [pull[d] EXCEPT !.todo = @ \ {a}])
  /\ UNCHANGED <<disk, elsewhere, trash, counter, mode, serving, raced,
                 fate, spent>>

\* The peer has gone, and this action would ask it for content: left for the
\* next sync.
Leave(d, a) ==
  /\ Next1(d, a) /\ AsksSource(a) /\ pull[d].gone
  /\ Proceed(d, [pull[d] EXCEPT !.todo = @ \ {a}])
  /\ UNCHANGED <<disk, index, elsewhere, trash, counter, mode, serving, raced,
                 fate, spent>>

Begin(d, a) ==
  /\ Next1(d, a) /\ a.kind # "Merge"
  /\ ~(AsksSource(a) /\ pull[d].gone)
  /\ Proceed(d, [pull[d] EXCEPT !.todo = @ \ {a}, !.taking = a.takes])
  /\ UNCHANGED <<disk, index, elsewhere, trash, counter, mode, serving, raced,
                 fate, spent>>

-----------------------------------------------------------------------------
Taking(d) == pull[d].taking # <<>>
Taken(d) == Head(pull[d].taking)

\* Mutant of MoveToTrash: the trash is told the content of the deletion.
TrashDeletion(d) ==
  /\ Taking(d) /\ ~pull[d].placed /\ Taken(d).content = Deleted
  /\ trash' = [trash EXCEPT ![d] = @ \cup {Taken(d).content}]
  /\ disk' = [disk EXCEPT ![d] = Without(@, Taken(d).path)]
  /\ Proceed(d, [pull[d] EXCEPT !.placed = TRUE])
  /\ UNCHANGED <<index, elsewhere, counter, mode, serving, raced, fate, spent>>

\* take, of a deletion: whatever file is at the path goes to the trash.
MoveToTrash(d) ==
  /\ Taking(d) /\ ~pull[d].placed /\ Taken(d).content = Deleted
  /\ trash' = [trash EXCEPT ![d] =
                 @ \cup {f.content : f \in AtPath(disk[d], Taken(d).path)}]
  /\ disk' = [disk EXCEPT ![d] = Without(@, Taken(d).path)]
  /\ Proceed(d, [pull[d] EXCEPT !.placed = TRUE])
  /\ UNCHANGED <<index, elsewhere, counter, mode, serving, raced, fate, spent>>

\* The trash cannot take it: the file is removed all the same.
Discard(d) ==
  /\ MoreFaults
  /\ Taking(d) /\ ~pull[d].placed /\ Taken(d).content = Deleted
  /\ disk' = [disk EXCEPT ![d] = Without(@, Taken(d).path)]
  /\ Proceed(d, [pull[d] EXCEPT !.placed = TRUE])
  /\ spent' = [spent EXCEPT !.fails = @ + 1]
  /\ UNCHANGED <<index, elsewhere, trash, counter, mode, serving, raced, fate>>

\* take, of a file: bring_in from what is here or from the peer, into a
\* staging file renamed over whatever is at the path.
Place(d) ==
  /\ Taking(d) /\ ~pull[d].placed /\ Taken(d).content # Deleted
  /\ \/ MayRead(d, Taken(d).content)
     \/ /\ ~pull[d].gone /\ mode[pull[d].peer] = "running"
        /\ MayRead(pull[d].peer, Taken(d).content)
  /\ disk' = [disk EXCEPT ![d] = Put(@, [path    |-> Taken(d).path,
                                         content |-> Taken(d).content])]
  /\ Proceed(d, [pull[d] EXCEPT !.placed = TRUE])
  /\ UNCHANGED <<index, elsewhere, trash, counter, mode, serving, raced, fate,
                 spent>>

\* Store::adopt of a tombstone.
RecordDeleted(d) ==
  /\ Taking(d) /\ pull[d].placed /\ Taken(d).content = Deleted
  /\ index' = [index EXCEPT ![d] = Put(@, Taken(d))]
  /\ elsewhere' = [elsewhere EXCEPT ![d] = @ \ {Taken(d).path}]
  /\ Proceed(d, [pull[d] EXCEPT !.taking = Tail(@), !.placed = FALSE])
  /\ UNCHANGED <<disk, trash, counter, mode, serving, raced, fate, spent>>

\* Store::adopt_file reads the file at the path again and stores what it
\* finds there under the version's vector.
RecordFile(d, f) ==
  /\ Taking(d) /\ pull[d].placed /\ Taken(d).content # Deleted
  /\ f \in AtPath(disk[d], Taken(d).path)
  /\ index' = [index EXCEPT ![d] =
                 Put(@, [Taken(d) EXCEPT !.content = f.content])]
  /\ elsewhere' = [elsewhere EXCEPT ![d] = @ \ {Taken(d).path}]
  /\ Proceed(d, [pull[d] EXCEPT !.taking = Tail(@), !.placed = FALSE])
  /\ UNCHANGED <<disk, trash, counter, mode, serving, raced, fate, spent>>

\* Error::ContentUnavailable: neither this device nor the peer has the bytes.
\* A file not here is recorded as elsewhere (Store::know_elsewhere).
KnowElsewhere(d) ==
  /\ Taking(d) /\ ~pull[d].placed /\ ~pull[d].gone
  /\ mode[pull[d].peer] = "running"
  /\ Taken(d).content # Deleted
  /\ ~MustRead(d, Taken(d).content)
  /\ ~MustRead(pull[d].peer, Taken(d).content)
  /\ ~Here(d, Taken(d).path)
  /\ index' = [index EXCEPT ![d] = Put(@, Taken(d))]
  /\ elsewhere' = [elsewhere EXCEPT ![d] = @ \cup {Taken(d).path}]
  /\ Proceed(d, [pull[d] EXCEPT !.taking = Tail(@)])
  /\ UNCHANGED <<disk, trash, counter, mode, serving, raced, fate, spent>>

\* The file is here, in an older version: the action fails, and no row or
\* file is changed.
Unavailable(d) ==
  /\ Taking(d) /\ ~pull[d].placed /\ ~pull[d].gone
  /\ mode[pull[d].peer] = "running"
  /\ Taken(d).content # Deleted
  /\ ~MustRead(d, Taken(d).content)
  /\ ~MustRead(pull[d].peer, Taken(d).content)
  /\ Here(d, Taken(d).path)
  /\ Proceed(d, [pull[d] EXCEPT !.taking = <<>>])
  /\ UNCHANGED <<disk, index, elsewhere, trash, counter, mode, serving, raced,
                 fate, spent>>

\* Any other error -- the connection, the disk, the database -- ends the
\* action where it is, and the plan goes on; the connection may be closed
\* from then on.
Fail(d) ==
  /\ MoreFaults
  /\ Taking(d)
  /\ \E closed \in {pull[d].gone, TRUE} :
       Proceed(d, [pull[d] EXCEPT !.taking = <<>>, !.placed = FALSE, !.gone = closed])
  /\ spent' = [spent EXCEPT !.fails = @ + 1]
  /\ UNCHANGED <<disk, index, elsewhere, trash, counter, mode, serving, raced,
                 fate>>

\* The user took the file away between the rename and its recording: opening
\* it fails.
RecordMissing(d) ==
  /\ Taking(d) /\ pull[d].placed /\ Taken(d).content # Deleted
  /\ ~OnDisk(d, Taken(d).path)
  /\ Proceed(d, [pull[d] EXCEPT !.taking = <<>>, !.placed = FALSE])
  /\ UNCHANGED <<disk, index, elsewhere, trash, counter, mode, serving, raced,
                 fate, spent>>

\* The peer went down, and its connection with it.
PeerGone(d) ==
  /\ pull[d].peer # NoDevice /\ ~pull[d].gone
  /\ mode[pull[d].peer] # "running"
  /\ Proceed(d, [pull[d] EXCEPT !.gone = TRUE])
  /\ UNCHANGED <<disk, index, elsewhere, trash, counter, mode, serving, raced,
                 fate, spent>>

\* The content is not here and the connection is closed: the action fails.
SourceGone(d) ==
  /\ Taking(d) /\ ~pull[d].placed /\ pull[d].gone
  /\ Taken(d).content # Deleted
  /\ ~MustRead(d, Taken(d).content)
  /\ Proceed(d, [pull[d] EXCEPT !.taking = <<>>])
  /\ UNCHANGED <<disk, index, elsewhere, trash, counter, mode, serving, raced,
                 fate, spent>>

-----------------------------------------------------------------------------
\* The daemon is killed: the index and the folder are what they were.
Crash(d) ==
  /\ MoreFaults
  /\ mode[d] = "running"
  /\ mode' = [mode EXCEPT ![d] = "scanning"]
  /\ pull' = [pull EXCEPT ![d] = Idle]
  /\ serving' = [serving EXCEPT ![d] = {}]
  /\ spent' = [spent EXCEPT !.crashes = @ + 1]
  /\ UNCHANGED <<disk, index, elsewhere, trash, counter, raced, fate>>

\* Daemon::run reconciles the folder with the index before anything else.
Started(d) ==
  /\ mode[d] = "scanning"
  /\ \A f \in disk[d] : ~Changed(d, f) /\ ~Unmarked(d, f)
  /\ \A v \in index[d] : ~Vanished(d, v.path)
  /\ mode' = [mode EXCEPT ![d] = "running"]
  /\ UNCHANGED <<disk, index, elsewhere, trash, counter, pull, serving, raced,
                 fate, spent>>

-----------------------------------------------------------------------------
Originals == [base : Base, tags : {<<>>}]

User(d) ==
  \/ \E p \in Originals \cup {f.path : f \in disk[d]}, h \in Hash : Write(d, p, h)
  \/ \E f \in disk[d] : Remove(d, f.path)

Notice(d) ==
  \/ \E f \in disk[d] : Store(d, f) \/ StoreUnchanged(d, f)
  \/ \E v \in index[d] : DeleteFile(d, v.path)

Serve(d) ==
  \/ \E f \in disk[d] : StoreServed(d, f)
  \/ \E v \in index[d] : DeleteServed(d, v.path)
  \/ \E q \in serving[d] : ServedNothing(d, q)

Ask(d) ==
  \/ \E p \in Originals, h \in Hash : PlaceUpload(d, p, h)
  \/ \E v \in index[d] : TrashServed(d, v.path)

Apply(d) ==
  \/ \E a \in pull[d].todo : Merge(d, a) \/ Leave(d, a) \/ Begin(d, a)
  \/ MoveToTrash(d) \/ Place(d)
  \/ RecordDeleted(d) \/ RecordMissing(d)
  \/ \E f \in disk[d] : RecordFile(d, f)
  \/ KnowElsewhere(d) \/ Unavailable(d) \/ PeerGone(d) \/ SourceGone(d)

Next ==
  \E d \in Device :
    \/ User(d) \/ Ask(d) \/ Serve(d) \/ Notice(d) \/ Apply(d)
    \/ \E e \in Device : FetchTree(d, e)
    \/ Discard(d) \/ Fail(d) \/ Crash(d) \/ Started(d)

Spec == Init /\ [][Next]_vars

\* The daemon's loop serves every event and every sync it owes, a plan's steps
\* and a request's all end, and the sync timer comes round; users, what phones
\* and guests ask, errors and crashes are free.
Fairness ==
  \A d \in Device :
    /\ SF_vars(Notice(d)) /\ WF_vars(Apply(d)) /\ WF_vars(Started(d))
    /\ WF_vars(Serve(d))
    /\ \A e \in Device : WF_vars(FetchTree(d, e))

FairSpec == Spec /\ Fairness

-----------------------------------------------------------------------------
\* Every version there is: rows, plans and what is being taken.
Versions(d) == index[d] \cup InFlight(d)

\* No version anywhere counts a change its device has not made: a change
\* noticed next is new to everybody, and no list fetched before it can be
\* taken for one that already accounts for it (Db::next_local_vector).
StampsFresh ==
  \A d \in Device : \A v \in Versions(d) :
    \A e \in Device : v.vector[e] <= counter[e]

Somewhere(h) ==
  \E d \in Device : h \in trash[d] \/ \E f \in disk[d] : f.content = h

\* Decision 0005, for what users write under a file's own name: once indexed,
\* it is in some folder or Recently deleted until a user writes over it or
\* removes it, whatever is pulled, fails or crashes meanwhile; unless a request
\* served beside the engine stamped its path while the plan being applied had
\* still to take it, or stamped the deletion of another file over it.
OriginalEditsSurvive == \A h \in Hash : fate[h] = "indexed" => Somewhere(h)

\* Does not hold (README, Divergences).
\* The same for what phones and guests put there while a plan was applied.
ServedEditsSurvive ==
  \A h \in Hash : fate[h] \in {"indexed", "overtaken"} => Somewhere(h)

\* Does not hold (README, Divergences).
\* The same for what users write into conflict copies.
CopyEditsSurvive == \A h \in Hash : fate[h] = "indexed copy" => Somewhere(h)

\* Does not hold (README, Divergences).
\* The same for what users wrote and the engine has not noticed yet.
TypedEditsSurvive == \A h \in Hash : fate[h] = "typed" => Somewhere(h)

\* What a plan is about to write at a file's own name accounts for the row it
\* replaces, however long ago the peer's list was fetched: nothing else writes
\* the row while the plan is applied, but for a phone or a guest asking for a
\* change at that very path.
PlanCurrent ==
  \A d \in Device : \A v \in InFlight(d) :
    Original(v.path) /\ v.path \notin raced[d] =>
      \A w \in AtPath(index[d], v.path) : Dominates(v.vector, w.vector)

\* Does not hold (README, Divergences).
\* The same, whoever asks for changes meanwhile.
PlanAlwaysNewest ==
  \A d \in Device : \A v \in InFlight(d) : Original(v.path) =>
    \A w \in AtPath(index[d], v.path) : Dominates(v.vector, w.vector)

\* A device never forgets history of a file under its own name: a row is only
\* replaced by one that accounts for it (reconcile's plan is from the list,
\* apply_plan writes the vectors verbatim), but for one a served request stamped
\* while the plan was applied.
RowsAdvance ==
  \A d \in Device : \A v \in index[d] :
    Original(v.path) /\ v.path \notin raced[d] =>
      \E w \in index'[d] : w.path = v.path /\ Dominates(w.vector, v.vector)
RowsOnlyAdvance == [][RowsAdvance]_vars

\* Does not hold (README, Divergences).
\* The same of every row.
EveryRowAdvances ==
  [][\A d \in Device : \A v \in index[d] : Original(v.path) =>
       \E w \in index'[d] : w.path = v.path /\ Dominates(w.vector, v.vector)]_vars

\* The rest of what makes PlanCurrent inductive: a row per path, one history
\* per file in a plan, and no plan between syncs.
OneRowPerPath ==
  \A d \in Device : \A v, w \in index[d] : v.path = w.path => v = w
OneHistoryPerPath ==
  \A d \in Device : \A v, w \in InFlight(d) :
    Original(v.path) /\ v.path = w.path => v.vector = w.vector
IdleWithoutPeer ==
  \A d \in Device : pull[d].peer = NoDevice => InFlight(d) = {}

SyncInv ==
  /\ TypeOK /\ StampsFresh /\ PlanCurrent
  /\ OneRowPerPath /\ OneHistoryPerPath /\ IdleWithoutPeer

\* Once users stop, every device comes to the same row of every path, with the
\* same history -- through failures, daemons killed, conflicts resolved on both
\* sides at once and deletions undone -- unless the row some device has is of a
\* content no device can supply any more, which the others go on asking for
\* (Engine::apply_plan, met by the next sync, and Error::ContentUnavailable).
SameHistory(p) == \A d, e \in Device : {v.vector : v \in AtPath(index[d], p)} = {v.vector : v \in AtPath(index[e], p)}
ContentLost(p) == \E d \in Device : \E v \in AtPath(index[d], p) :
                    v.content # Deleted /\ \A e \in Device : ~MustRead(e, v.content)
HistoriesConverge ==
  <>[](\A d \in Device : \A v \in index[d] : SameHistory(v.path) \/ ContentLost(v.path))

\* Does not hold (README, Divergences).
\* "Two devices exchanging changes must end up agreeing": on the files.
FoldersConverge == <>[](\A d, e \in Device : disk[d] = disk[e])
=============================================================================
