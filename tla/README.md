# Qurb: TLA+ models and proofs

Qurb keeps a folder the same on a person's devices without a server that holds
it, lets phones have their own files kept by computers, lets people send files
and visit each other's computers, and connects all of these directly or through
a relay. This directory models the parts of it that decide whether files
survive, whether changes arrive, who is let in, and whether a device that is
there is found; checks the models with TLC; and proves most of their safety
properties, for every value of the constants, with TLAPS. Paths below are relative to
`src/`; `PROJECT.json` lists every component, every hazard at its line, and the
source lines of every definition.

## The system

| Component | State | Operations | Talks to |
|---|---|---|---|
| Version vectors (`crates/sync/src/clock.rs`) | none | merge, compare, dominates | planning |
| Resolution and planning (`crates/sync/src/{version,resolve,reconcile}.rs`) | none | `resolve`, `reconcile`, conflict names | engine |
| Sharing rules (`crates/sync/src/sharing.rs`) | rule files, the tables built from them | set, clear, take, filter a list | planning, server |
| Engine, local changes (`crates/engine/src/lib.rs`) | through the store | `apply`, `reconcile`, `housekeep`, `enforce_limit` | watcher, store |
| Engine, peers (`crates/engine/src/peer.rs`) | through the store; staging files | `plan_with`, `apply_plan_reporting`, `take`, `bring_in` | store, a peer's content |
| Daemon (`crates/qurb/src/daemon.rs`) | connections, backoff, generation | the event loop, `sync_all`, `sync_one`, watching a peer | everything |
| Watcher (`crates/watcher`) | watches, pending events, deadlines | debounce, walk, rescan | daemon |
| Store (`crates/storage/src/{store,db}.rs`) | SQLite: files, chunks, replicas, sends, trash, peers | put, adopt, tombstone, free, send, hold, restore | chunk store, folder |
| Chunk store and collection (`crates/storage/src/{cas,gc}.rs`) | a file per chunk | put, contains, remove, `collect`, `sweep_orphans` | index |
| Shared folder, live (`crates/storage/src/shared_folder.rs`) | uploads under way | list, read, upload, move, copy, delete | server, index |
| Folder backups (`crates/storage/src/chosen.rs`, `store.rs`) | choices on both sides, where files are read from | choose, merge, run, let go | phone, computer |
| Lists (`crates/peer/src/trees.rs`, `server.rs`) | a list per peer, counters, the generation | tree, tree since, long poll | daemon |
| Content (`crates/peer/src/{client,source}.rs`) | staging files, content fetched ahead | fetch, resume, confirm | engine |
| Sealed backups (`crates/storage/src/sealed.rs`, `crates/peer/src/{kept,openings}.rs`) | sealed views, what hosts keep, open folders | show, hold, free, fetch back, ask, unlock | phone, host |
| Pairing (`crates/peer/src/{pairing,short}.rs`) | the code shown, tries left | show, join, pair, visit, approve | trust list |
| Identity (`crates/peer/src/{identity,tls}.rs`, `crates/storage/src/db.rs`) | certificates, device ids, who became whom | become permanent, adopt, trust | server, phone |
| Signal (`crates/signal`) | who is where, notes, wake tokens | announce, note, introduce, push | devices |
| Relay (`crates/relay`) | registrations by name | register, forward | sockets |
| Connecting (`crates/peer/src/{connect,local,nat}.rs`) | sightings, introductions, races | reach | signal, relay |
| Mobile bindings (`crates/mobile-ffi/src/lib.rs`) | a pass, asks, identity, backup runs | sync, serve, approve, back up | all of the above |
| Keys, command line, desktop, tray, Android | - | cryptography, user interface | - |

What is hard about it, in the order of what it can cost:

* **Plans and records are stale by construction.** A plan is made from a list
  fetched from a peer and applied over minutes. A copy is freed because another
  device said it had one. Nothing is asked again at the moment it matters.
* **The folder is not transactional, and neither are payloads.** A file moves
  into place before its row is written; payload files are created and removed
  outside SQLite's transactions by several processes on one store.
* **Nobody waits.** Devices resolve conflicts independently and must come out
  the same; rules about who shares a folder travel as files of that folder.
* **Everything is asked again.** Answers are lost, phones are frozen, services
  restart, connections die on one side first; each request may be served late,
  or twice.
* **People do things meanwhile.** They edit, move, free, untick, remove devices
  and set phones up again, between any two steps.

What makes each component correct is stated by the properties of the runs
below, one paragraph per module.

## The modules

### Synchronisation

`VersionVector` and `Reconcile` are pure. A path is a user's name and the
conflict marks added to it; a hash is a number, because the code orders hashes
to choose a winner; `at` is in seconds, because conflict names are.

`Sync` composes devices that each have a folder (`disk`), an index of the
shared area (`index`, `elsewhere`), a trash, a counter and at most one plan
being applied (`pull`).

| Actions | Code |
|---|---|
| `Write`, `Remove` | the user |
| `Store`, `StoreUnchanged`, `DeleteFile` | `Engine::apply` and `Engine::reconcile` on one file: `store_if_changed`, `apply_removal`, with the write they make in the store |
| `FetchTree` | `sync_one` up to its plan: the peer's list and this device's, at one moment (`Lists` shows that this is right) |
| `Begin`, `Merge`, `Leave` | the loop of `apply_plan_reporting` |
| `MoveToTrash`, `Discard`, `Place` | `take` up to the rename or removal |
| `RecordDeleted`, `RecordFile`, `RecordMissing` | `adopt`, `adopt_file`: the second half of `take` |
| `KnowElsewhere`, `Unavailable`, `SourceGone`, `PeerGone`, `Fail` | its error paths |
| `Crash`, `Started` | the daemon killed, and its first scan |
| `PlaceUpload`, `TrashServed` | `shared_folder::place` and `delete_path` for a phone or a guest, up to the file being in its place or in the trash |
| `StoreServed`, `DeleteServed`, `ServedNothing` | the same from there on: `put_file`, `delete_file` |

`take` is two steps because the user, and a crash, can come between the rename
and the row; the daemon's loop runs one handler at a time, so no event is
handled and no other plan begins while one is applied (`Between`). This does
not hold of what a device serves: `Daemon::run` gives the tasks that answer
peers a `Store` of their own (`qurb/src/daemon.rs:570-609`), and
a phone's or guest's request stamps rows of the shared area through it at any
time, while a plan is applied too (`MayServe` has no `Between`). Such a request
is two steps as well, one at a time on a device (`serving`), as that store is
behind a lock. A path it stamps while the plan held has still to take that path
is put down in `raced`, a history variable. `fate` is another: what became of
each content a user wrote, and "overtaken" is that of a content such a request
put in a plan's way, or deleted under it.

`Watch` opens up what `Sync` takes as noticing: the platform's events and their
overflow, the debouncer's pending paths with their two deadlines, walks of new
directories, rescans, the daemon applying batches, files freed on this device,
and the daemon killed and started. `stamp` is a file's size and time, which a
second write in the same tick of the filesystem's clock need not change;
`racy` are the paths `put_file` marked as read too soon after their time, which
are read again whatever their size and time say. A store or a deletion may fail
part-way through a batch or a walk. `Mark` is `evict_because` marking a row,
in any process and at any time, and `Unlink` removing what is then at the path,
without another look. What no event or walk to come will tell of is put down in
`missed`, a history variable, at the step that misses it (see Divergences).

`Lists` opens up what `Sync` takes as fetching: the counter and marks of the
answering index, the long poll on its generation, the list kept between syncs
and patched with what changed since a counter, the digest, and the daemon's
passes. `ListRead` is the abstract specification of a reading, and `Lists`
implements it: `Read == INSTANCE ListRead WITH List <- Lists, list <- List`,
checked and proved as `ReadsAreCurrent`.

`Sharing` is one folder, its rule file and one file in it, on devices that set,
edit and clear rules, read each other's filtered lists and take from them with
the conflict rules of `Reconcile`.

### Storage

`ChunkStore` is one device's store: rows of `files` with their `file_chunks`,
rows of `chunks`, payload files and temporary files, the folder, and what each
connection is in the middle of. A device without a folder (`folder = None`) is
a replica. `put_manifest` is its two passes, chunk by chunk, the second in the
`Immediate` transaction; `Cas::put` is three steps (create, write, rename), as
another connection, or a crash, can come between them. `lock` is SQLite's write
lock: statements outside a transaction need it free and hold it for one step. A
transaction's changes to the index appear at its commit; what it does to files
appears at once and stays when it is rolled back. `reclaim` is two steps, the
reading and the removal, with no lock. A refcount is zero exactly
when no row links the chunk, as the triggers have it. Retention periods are any
choice: a collection takes any expired tombstones and any unreferenced chunks,
except chunks that this same collection releases, which seven days rule out.

`Index` is the index as a record of tables with its queries as operators: what
a device may be given, what counts as a safe copy, what may be freed, what is
offered. `Vaults` has devices with such an index each, and the actions of
people (put, send, call off, free, delete, restore, remove a device), upkeep
(housekeeping, a month passing, the storage limit) and sync passes that may be
cut off anywhere (collecting, filing, holding, releasing, confirming). Months
are `aged`, on rows, on entries of Recently deleted and on the versions lists
carry: a tombstone taken from another device is as old as the deletion there,
while its entry in Recently deleted begins a month of its own (`Unhold`); what
was over when it was heard of is put down in `late`, a history variable.

`SharedFolder` is a computer's folder as phones and guests reach it: requests
and their answers over connections that break, the rules that apply, the
person working in the folder, freed files, the scan, uploads placed when
complete, and a crash in the middle of moving a folder. A rule may be for a
folder at the top or for one inside it; `carried`, a history variable, has what
a move of a folder took along from one shared without the device that asked.

`Backup` is the folders of a phone that are backed up: choices ticked as a tree
on either side and merged by time, runs that list each folder, let go of what
is gone and read what is new, and the computer collecting from where files lie.
A run works in slices, each with a fresh look at the rows (`StartSlice`), and
in each a batch of files is read through before any is recorded (`ReadBatch`,
`Record`, `NoteSource`): the file, the choices and the computer may change in
between, and each write may fail (`RecordFails`). Of an answer about choices
each half is written, or not (`HearChoices`).

### People and devices

`Pairing` is one device showing a code and others that saw it, were given its
digits, or guess: connections served one at a time, tries, the deadline, the
person comparing numbers and approving, replies lost.

`Signal` is the rendezvous service and the connections devices hold to it: in
order, each way, until lost, which the service notices later. Notes and tokens
the code keeps in maps are sets, given out in any order (`Orders`). A device may
connect again before the service has noticed that its old connection is gone;
`displaced`, a history variable, has those an older connection of their own
then listed, or took off the list. A write of the file of tokens may fail
(`Save`).
`Relay` the relay's registry and the sockets that dial it again and again;
`Reach` (which extends `Relay`) one device reaching another by a sighting,
introduction, punched addresses and the relay, raced, while both move.

`Phone` composes what a phone does with the computers it deals with:
`Identity` (one identity through several set-ups), `Sealed` and `Openings` (a
vault kept by another person's computer, and opened there), `Pass` (a sync pass
and its deadlines), `Fetch` (content fetched, cut off and carried on) and
`Backup`. `Openings` depends on what `Sealed` keeps (`KeyFits`); the others
share no state, so a behaviour is about one of them (`world`), which keeps the
state space a sum and not a product.

`SyncProofs`, `ChunkStoreProofs`, `WatchProofs`, `ListsProofs` (also about
`Sharing`), `PairingProofs`, `SignalProofs`, `ReachProofs` (also about `Relay`)
and `PhoneProofs` (about the six parts of `Phone`) hold the theorems, and the
`MC` modules the values for TLC. `Lists` names its specification `ListsSpec`,
and so on, so that `ListsProofs` can have `Sharing` beside it.

## The runs

| Run | Instance | Shows |
|---|---|---|
| `sync` | 2 devices, 1 name, 2 contents anyone may write, 3 writes, 1 served change at one of them, 1 failure or crash, fair | `StampsFresh`, `PlanCurrent`, `OriginalEditsSurvive`, `RowsOnlyAdvance`, `HistoriesConverge` |
| `store` | 2 writers, 1 collector, 2 chunks, files `<<a>>` and `<<a, b>>`, with and without a folder, 2 operations, 2 edits, 1 crash | `NoDangling`, `NeededPayloadsStay` |
| `watch` | a directory, a file in it and an editor's scratch file, 2 changes, crashes, the folder moved away, fair | `NoChangeForgotten`, `FreedIsNotDeleted`, `EventuallyNoticed` |
| `lists` | 2 entries, 2 changes, 1 lost connection, kill or failed pass, lists longer and shorter than what is sent apart, fair | `ReadsAreCurrent` (refinement), `ToldWhileListening`, `Converges` |
| `sharing` | 3 devices, 3 sets of members, 2 changes of the rule, 1 edit | `StaysOut` |
| `vaults` | a phone and a computer that files what it is sent, 2 names, 1 content, 6 things people do | `NothingLost`, `CollectedIsTaken`, `FiledOnce`, `RecordsAreTrue` |
| `shared` | a guest and an own phone, a folder and one inside it, either with a rule, 3 requests, 2 edits, 1 break | `NothingOverwritten`, `IndexInStep`, `LeftOutIsNotGiven`, `LeftOutChangesNothing` |
| `pairing` | a phone in the person's hand and a stranger that has the code or guesses, 2 codes, 3 requests, fair | `StrangersStayOut`, `NobodyWaitsForever` |
| `signal` | a laptop and a phone, 2 connections each, overlapping or not, a move, a restart, one place for wake tokens | `NoNoteIsLost`, `AddressIsCurrent`, `TokensAreKept`, `ToldNotWoken` |
| `reach` | a phone reaching a computer, its own or one it visits, 2 networks, 1 move, relay connections lost, fair | `UpIsRegistered`, `FoundIfThere`, `EveryReachEnds` |
| `phone` | the six worlds of `Phone`, see `MCPhone` | `KnownToTheOnlyOne`, `NoCycles`, `OpenIsApproved`, `LocksWhenIdle`, `OnlyCopyStays`, `StaysForIt`, `CarriedOn`, `LastChoiceStands`, `KeptWhenGone` |
| `phone_shared` | the guest's world, with a content the host's person also shares with it | `KeptOrHere` fails |

What they say, in words:

* **Sync.** An indexed edit under a file's own name is in some folder or in
  Recently deleted until a user writes over it, whatever is pulled, fails or
  crashes; a plan being applied accounts for the row it replaces; no row loses
  history; no stamp is used twice; and once users stop, devices come to the
  same histories, unless nobody has the bytes any more. Served changes are part
  of it: the exception to the first three is a path such a change stamped while
  the plan held had still to take it, and what the change put there.
* **Store.** Every chunk a replica's rows reference has a payload; no payload
  is removed that a live file needs and the folder cannot supply.
* **Watch.** Where index and folder disagree, an event that will mend it is on
  its way, or a walk is owed; freeing a file is never taken for deleting it;
  and the index comes to agree with the folder.
* **Lists.** A pass plans against one moment of the peer's list; on a
  connection that lasts changes arrive without timers, and with timers they
  arrive whatever was lost.
* **Sharing.** A device left out by all others stays out until somebody else
  lets it in, and nothing passes between it and them. "Left out by all others"
  includes the lists they have read of each other and not yet taken: an older
  rule in one of these, which names the device, may still win by its hash.
* **Vaults.** A listed file is somewhere, unless it is one listed as deleted of
  which the deletion was heard a month late; a copy counted as safe is one that
  device would hand back; a send is let go of only once taken, and filed once.
* **SharedFolder.** No request loses what somebody put there; the index follows
  the disk; a device is given nothing it was not meant to see, and changes
  nothing where it is left out, but for moving or copying a folder around a
  folder with a rule.
* **Pairing.** Only a device in the person's hand gets trust or the key, each
  code gives the key once, every wrong guess uses up a try, and nobody waits
  for ever.
* **Signal, Relay, Reach.** A note for a device is delivered, or on its way, or
  kept; the service has a device where it is; the newest token wakes it; one
  that is connected is told and not woken; all this unless an older connection of
  the device's own displaced it, or, of tokens, a write failed before a restart.
  A relay socket that says it is up is
  registered, a device that is there is found, and every reach ends.
* **Phone.** A phone with one computer stays known to it through set-ups, under
  the id and by the certificate it has; no device became what it was before; a
  folder is open only on an approval made since it was locked, and closes when
  unused on either clock; every file of a vault whose content was of one path
  only, and nobody else's, is here or kept under its name;
  a pass stays until nobody has collected for as long as it waits
  (`clock.silent`, counted apart from the code's own instants); a fetch carried
  on ends as the content asked for; the last choice of a folder is not lost; and
  a file the computer keeps stays when it goes from the phone.

### Bounds

Every bound is a constant of its module and is used up by the actions it
bounds. One name is enough for `Sync`: planning looks at one path at a time,
and conflict copies give every run more paths; three writes make an edit, a
concurrent edit or deletion, and a further edit of what came of them. Served
changes are made at one device of the two, the computer with phones and guests
(`Serving`), and one of them is enough to come between any two steps of a plan;
`MaxEvents` bounds writes, served changes and faults together, a served change
counted twice, so that one comes with two writes, or with a write and a fault.
`PerSecond = 1` gives each change a second of its own. Two chunks, one shared
by both contents, make the reuse of a chunk about to be collected; two writers,
a collector and a crash make every pair of connections meet. `Watch` needs a
directory (events of a directory stand for what is in it), a file, and an
ignored name an editor renames from; two changes make a change during the
handling of another. In `Lists`, `DeltaSmall` and `DeltaMost` are set so that
both kinds of answer occur. Six operations in `Vaults` make: put, pair, be
collected, free, delete, restore. In `Identity`, three set-ups are the fewest
for a chain of two. `IDLE`, `PAUSED`, `LINGER`, `FROZEN` and the others of the
phone keep the order the code's durations have, and `Long` is the shortest time
allowed in which a pass can be frozen and still wait `PAUSED` after. One content
copied (`MaxCopies`) makes every overlap of a copied file with one that was not.
In `SharedFolder` the rule is for a folder at the top or for one inside another,
so that every move and copy around a rule occurs. In `Signal`, two connections
at once (`MaxConnections`) are an old one and a new one of one device, and the
laptop does one of three things it may. The bounds of `Backup`
(`MCBounds`) trade choices against runs; a guest that is asked is showing the
one of two files, which nothing tells apart. Symmetry is used only for the writers
of the store, which nothing tells apart.

No run checks for deadlock: once people stop and everything is in step, these
systems rest.

Some constants leave out circumstances in which a property is known to fail, so
that the run says something of all others; each is named where it is declared
and what it leaves out is under Divergences: `PerSecond` (Sync), `MayFail`
(Lists), `Careful` (Vaults) and `Theirs` (Sealed, of which the theorem says more
than the run). With them the other way the same configurations show the failures.
In other cases the code fails in circumstances that are in the model and in the
run. The property then excepts, by a history variable, what the failure has
touched and no more, and the property without the exception is the "Does not
hold" beside it: `raced` and "overtaken" (Sync), `withdrawn` (ChunkStore),
`missed` (Watch, and `look.missed` of Pass), `late` (Vaults), `carried`
(SharedFolder), `displaced` and `unwritten` (Signal), `copied` (Sealed).
`MAX_IDENTITIES` of `Relay` is at least 2, a device's own name and one for a
meeting; the code's is 64.

### Fairness

* `Sync`: steps of a plan are weakly fair, since `apply_plan_reporting` runs to
  its end; what a served request has begun (`Serve`) and the first scan
  likewise; fetching from a peer is weakly fair, since the daemon syncs on a
  timer (`SWEEP_INTERVAL`) whatever else happens;
  noticing is strongly fair, since events wait in the watcher's channel while a
  plan is applied and the loop's `select!` takes a ready arm at random.
* `Watch`: weak fairness of the platform, of the watcher's thread and of the
  daemon's loop: each runs while it has something to do. Freeing files is not
  fair, and does not keep the loop from taking a batch.
* `Lists`: weak fairness of what each process has begun (`Bump`, `Notify`,
  `Hear`, `Pass`, and a server's held request). The timers are not assumed
  fair: `Converges` states them as its antecedent, `ToldWhileListening` does
  without.
* `Pairing`: the code's deadline passes, and a device goes on with what it
  heard. Nobody is assumed to approve, and no connection to be answered.
* `Reach`: a reach begun takes its next step, as all it waits for has a timeout.

Users, failures, crashes and lost messages have no fairness anywhere.

## The proofs

Everything proved is for any sets of devices, names, contents, connections,
chunks, paths, folders and networks, any durations, and any bounds. The
assumptions are those of the modules, each evaluated by TLC on the run's values:
device ids and hashes are numbers, as only their order matters; durations are
ordered as the code's are; the markers `Deleted`, `NoDevice`, `None` and the
like are not among the values they stand beside. One theorem,
`NoCyclesAtTheOnlyOne`, has a hypothesis of its own. A safety property is seldom
inductive; what has to be added to it says why the code is right.

**Sync.** `PlanCurrent` says that what a plan will write under a file's own
name dominates the row there. It is not inductive: a plan may hold two
versions of one path's history, the row may change under it, and a version may
have been invented. `SyncInv` adds the three facts that rule this out.
`OneHistoryPerPath`: the versions a plan holds for a path have one vector, so
writing one keeps the others current. `IdleWithoutPeer` with the guard
`Between`: the engine stamps no change while a plan is held. A served request
does, and then its path is `raced`, of which `PlanCurrent` says nothing; what
the proof adds for it (`StampServed`) is that every other path's row and plan are
left as they were, and that its stamp is as fresh as any. `OneRowPerPath`: a
path's row is unique, so "the row it replaces" is well defined. `StampsFresh`
is kept beside them, as a local change takes a counter beyond all vectors. From
`SyncInv`, `Invariance`, `TypeCorrect`, `StampsAlwaysFresh`,
`PlanAlwaysCurrent`, and the action property `HistoryNeverLost` follow.
`BothSidesAgree` and `ResolutionDominates` are about the decision alone:
devices that resolve a conflict apart come to the same result, and the result
is concurrent with neither side.

**ChunkStore.** `NoDangling` needs to know what the holder of the write lock
has found out. `StoreInv` adds `ReferencesKnown` and, for every connection,
`Sound`: on a device without a folder, the chunks a transaction's second pass
has seen to have payloads; the chunks a collection has chosen have no
references; and a connection that is collecting has the lock. Each of these is
kept because removals need the lock (`RemovePayload`, `Sweep`) or a folder
(`ReclaimRemove`), and new references need the lock (`Commit`). `ReclaimInv`
says of a connection between `reclaim`'s reading and its removal that the folder
has the chunk, or had it then and lost it since (`withdrawn`, a history
variable). `NothingDangles` and `NeededPayloadsAlwaysStay` follow, the second
with that exception.

**Watch.** `FreedStaysAFile` rests on the order of `evict_because`. `FreedInv`
says that a file the user has left and that is not in the folder is marked and
has a live row (`AwayIsMarked`), and that no mark is on a row that is not live
(`MarkedIsLive`): so nothing that looks at the empty place, an event or a walk,
late or after a restart, takes it for a deletion.

**Lists.** `ReadingIsOfOneMoment` is the refinement `ListsSpec => Read!Spec`: initial
states map to initial states, and each step to `Change` (a row written, sent,
forgotten, shown or hidden), `Begin` (a pass starts), `Return`, `Abandon` (it
fails), `Forget` (the daemon restarts) or nothing. `ReadInv` is what makes the
return legal: a pass that asks has begun, and the list as it is now is among
those of the pass; whichever way `tree_kept` comes by a list, the fingerprint
has shown it to be the one of that moment.

**Sharing.** `LeftOutStaysOut` is the action property `StaysOut`. Its lemmas
follow each way a rule can change on a device: taken from one its own rule
names, which by `Out` has a rule, and had one in the list read, that leaves the
device out; of two such rules the planner keeps one or the other and makes none
up. It needs the lists in flight: the first statement of `Out` looked only at
the rules devices have, and the proof failed at `Take`, where a list read before
the device was left out is taken after and wins by its hash; two rules are too
few to show it.

**Pairing.** `PairingInv` follows a yes from the person's screen to the key:
`AgreedInHand` (an approved connection, and a code accepted, are of a device in
the person's hand), `KeysWereGiven` (a key on its way was given for that code
and device), `GivenOnce`, and `TriesAreCounted`, in which a try out on the
connection, to be given back when it was right, counts as left.

**Signal.** The theorems are of any connections, overlapping or not.
`TokensAreAlwaysKept` rests on `BaseInv`: the file has what the service has (`disk`), or what it had
before a write that failed (`unwritten`), a device has one token (`DevicesOnce`,
so that taking out the place of a device takes out all of it), and nobody said a
token later than it was issued (`ProperInv`, of every command left and every
message on a connection): without it a new issue could make an old token the
current one. A restart loads the file in another order, and the lemma `OrdersIs`
is that nothing is lost or doubled by that. For the
other three, `PresenceInv` says that the service holds no
connection its device has yet to open (`HeldIsOpened`), and lists a device, if
no older connection of its own displaced it, under the newest connection once
that has announced (`AnnouncedIsListed`): announcing on the newest connection
ends a displacement, announcing on an older one or its end begins one. That
gives `ToldAndNotWoken`. `NoNoteIsEverLost` also needs `NotesAreOwed`: a note is
on its way between any two devices that are there and in place (`InPlace`), and
nobody has one for itself; two devices come to be in place one after the other,
and the later announcement is told to the earlier. For `AddressIsAlwaysCurrent`,
`SaysWhere` says of every connected device that the last announcement not yet
served has its address, or that there is none and the directory has it: as
messages are served in order this is kept by each of them.

**Relay and Reach.** A socket that is up is registered because its names are on
their way or listed for its connection (`SentOrListed`), and what is listed for
a device's newest connection is registered to it (`ListedIsRegistered`): the
cleanup of an older connection removes only what is registered to itself, and a
newer registration takes the name over. With `OneConnection` and `NotYetMade`,
which say which connection of a device that is, this is `RelayInv`. For
`FoundWhileThere`, `ReachInv` adds that until something disturbs a reach both
links are ready and its way through the relay has not failed.

**Phone.** The parts share no state, so each has an invariant that every step of
the others leaves alone.
* *Openings* (`OpensOnlyOnAYes`, `LocksAfterIdle`; `OpeningInv`). A yes on its
  way was given (`OnlyYes`), an ask still waiting has not opened anything
  (`NotSpent`), and the open folder's wall clock has run as long as it was
  unused unless it was set back (`WallKept`).
* *Sealed* (`NeverTheOnlyCopy`; `SealedInv`). A copy is freed on the word that
  the computer keeps that content; the word is about a content and the fetch
  about a path. Between them is `OfOnePath`: a content was only ever of one
  path. This is false of a content that was copied within the vault (`copied`),
  and a replica's record is not of the sealed file when the computer's person
  shares the same content (`Theirs`). Both may happen, beside files of which
  neither is true; the theorem is about those (`Sole`), as is each part of the
  invariant, and `phone_shared` shows what happens to one of the others.
  `SaidIsKept` and `ListIsCurrent` say that an answer, or the rest of a list,
  that comes late is still true of a file that has not changed.
* *Pass* (`StaysAsLongAsGiven`; `PassInv`). The instants the code compares
  (`come`, `served`, `excused`, `looked`) bound the time nobody collected from
  below, in each phase (`TimeIsGiven`, `ExcusedIsShown`, `BeforeStaying`), and a
  look's answer still says so when the pass decides by it (`LookHolds`), unless
  a freeze fell between the two.
* *Fetch* (`CarriedOnIsWhole`; `FetchInv`). What is hashed is what is written
  and a beginning of the content (`WrittenIsStart`); the chunks in flight are
  the next ones, in order (`FlightIsNext`). The lemma `MatchingAgrees` is what
  `resume_point` promises: as far as it counts, the staging file and the new
  content agree.
* *Backup, choices* (`TheLastChoiceStands`; `ChoiceInv`). Whatever either side
  has, or an answer says, is the last choice or is dated no later than those
  before it (`AllDated`).
* *Backup, files* (`TheComputerKeepsTheGone`; `FileInv`). A content is of one
  file (`OfOneFile`); a row read nowhere was counted (`UnreadIsCounted`); what
  is counted, and still the row's, is kept (`CountedIsKept`) unless it strayed.
  `ReadIsNew` is what a batch read and not yet recorded must not break: it is of
  its own file, it is what the computer has heard of if that is still there, and
  if the file has gone meanwhile it is what was kept of it.
* *Identity* (`TheOnlyOneKnowsIt`; `IdentityInv`). `KnownMeanwhile` says, for
  each step of becoming permanent, under which of its two certificates and ids
  the computer has the phone; `OneRowEach` that a device is listed once.
  `NoCyclesAtTheOnlyOne` is `NoCycles` with one computer and nothing removed.
  `OnlyOneInv` follows the permanent certificate: every device the computer was
  told became another became the one that holds it (`SaidOfTheHolder`), of which
  it was told nothing; and a phone that is not what it was set up as is on the
  computer's list both ways (`AsItPassed`).

Only model-checked, and why:
* all liveness (`HistoriesConverge`, `EventuallyNoticed`, `ToldWhileListening`,
  `Converges`, `NobodyWaitsForever`, `EveryReachEnds`): out of the prover's
  reach;
* `NoCycles` (Identity) in general: not a theorem. With three computers a cycle
  can be closed; the run has two, the theorem one;
* `OriginalEditsSurvive` (Sync): holds only with `PerSecond = 1`, and a proof
  needs every copy's name to be new, which is a fact about all names ever made.
  It was also checked with nobody serving (`Serving = {}`), with three contents,
  three writes and one fault, and with four contents and four writes;
* `NoChangeForgotten` (Watch) and the properties of `SharedFolder`: their
  modules filter or fold sequences by operators (`SelectSeq`, `FoldLeft`), about
  which nothing can be proved here for every length. `NoChangeForgotten` was also
  checked without the scratch file, with three changes, and with four where
  nothing is freed: at three changes an earlier `missed` was found too small;
* the properties of `Vaults`: its steps rewrite a record of a dozen tables
  several times over, and the invariant would be about all of them; not
  attempted.

The three invariants of `SharedFolder`, those of `Vaults` and `NoChangeForgotten`
were also looked for among random behaviours with bounds two to three times
those of the runs, five minutes each, without a violation.

## Divergences

What the models show of the code that a document, a comment or the property one
would want says otherwise. The definitions named here are in the modules, marked
"Does not hold"; putting one in the module's configuration gives the trace. Only
`phone_shared` is kept as a run. The others were met while choosing bounds
and guards, and are listed so that nobody reads the passing runs as covering
them. Paths are under `src/crates`.

**Sync**
* While a plan is applied, a request of a phone or a guest is served through
  another `Store` (`qurb/src/daemon.rs:570-609`, `server.rs:787-832`), and `take`
  does not look at the row again before it puts its version in place
  (`engine/src/peer.rs:654-960`, the rename at 913). What the request put there
  is overwritten, and its row, a merge's too, is replaced by one that does not
  account for it: `ServedEditsSurvive`, `PlanAlwaysNewest` and
  `EveryRowAdvances` fail. The row a served deletion then marks can be of a
  file put at the path since it removed the other.
* A save between the rename that puts a peer's version in place and the row made
  from it (`engine/src/peer.rs:913`) is recorded as the peer's version:
  `TypedEditsSurvive` and `FoldersConverge` fail.
* A conflict copy is written over whatever is under its name
  (`engine/src/peer.rs:614`): `CopyEditsSurvive` fails.
* A copy's name has a time in seconds (`sync/src/resolve.rs:140`). Two conflicts
  of one path and device in one second share it; with `PerSecond = 2`,
  `OriginalEditsSurvive` fails.
* With three writes and a fault, a content can be overwritten on one device and
  removed on the other while a row without its bytes wins a conflict. Every
  later sync then ends in `ContentUnavailable`. `HistoriesConverge` excepts
  such a path by name (`ContentLost`).

**ChunkStore**
* `reclaim` reads a chunk in the folder and then removes its payload, with no
  transaction open and no second look (`storage/src/store.rs:3754-3758`). Its
  comment says "a chunk is only ever dropped once the bytes are known to be
  readable somewhere else" (`:3744`); when the user edits the file in between, a
  payload goes that another row still needs: `DroppedIsReadable` fails.
  `NeededPayloadsStay` excepts these removals by name (`ReadBefore`) and no
  others.
* `reclaim` (`storage/src/store.rs:3747`) removes payloads that the folder has,
  those of a file kept for another device included: `KeptReadable` fails once
  the user changes the folder's file.
* Two connections putting one chunk use one temporary name
  (`storage/src/cas.rs:49`): a crash can leave a partial payload under its final
  name, and `PayloadsWhole` fails.

**Watch**
* A change between the first walk and the start of the watcher is noticed only
  by the next walk: `EveryChangeNoticed` fails.
* A file marked as freed by an eviction killed before it removed the file, then
  deleted by the user, is taken for the freed file it is recorded as:
  `DeletionsPassedOn` fails.
* A file stored between its eviction's mark and its removal loses the mark, and
  is removed all the same (`storage/src/store.rs:3615`): the next look takes it
  for a deletion. Such a file is taken out of `kept`.
* `put_file` clears the mark of a path read too soon before it stores the file
  (`storage/src/store.rs:660`): if storing then fails, an edit within the same
  tick is no longer looked for. It is put down as missed.
* A folder moved away while the daemon looks at its files is taken for their
  deletion: `MovedIsNotDeleted` fails.
* A file that is back while its removal is on its way, with no event of its own
  or with that dropped, is walked before the removal is applied, and
  `apply_removal` does not look again (`engine/src/lib.rs:664`).
* A file deleted from a directory that is not watched yet has no event, and the
  walk of the directory (`watcher/src/watcher.rs:193`) reports what is there, not
  what is missing: a row the index has of it stays until the next full walk.
* A file that cannot be stored is logged and not tried again until it changes or
  the daemon starts. This, the two before and the first are what `missed` holds.
* A directory taken away and another put in its place within the quiet period is
  one upsert: files that are not in the new one stay in the index, and in
  `missed`. Not modelled is the desktop freeing a file on a connection of its own
  (`desktop/src/commands.rs:1341`) while the daemon stores that same file.

**Vaults**
* A deletion heard of late is listed in Recently deleted from then on, but its
  row is dated at the owner's deletion (`unhold`, `storage/src/store.rs:1722-1745`,
  `tombstone`, 1322-1341), and a collection goes by the row
  (`storage/src/gc.rs:80-84`). Heard more than a month after, it is listed with
  nothing to put back: `ListedIsThere` fails, and `NothingLost` excepts it
  (`late`).
* Two devices that each free a file on the other's word are not in the run: a
  phone's copy counts for nobody, and there is one computer.

Left out by `Careful`:
* `SenderIsNoFallback` fails: the sender's copy counts as a safe copy until it
  lets go of it. With other constants `HeldIsKept` fails too.
* A send called off while it is being collected leaves a record of a copy that
  is gone; a second send can be counted as collected by the first one's late
  answer.
* A device killed between the rename and the record of a delivery files it
  twice.
* A file restored while freed is lost if its month in Recently deleted ends
  before its bytes come; a file freed, deleted and replaced under its name by
  another cannot be restored (near `storage/src/store.rs:2033`).

**Lists.** A read that fails at the end (`MayFail`) and more than one watcher on
a list (`OneWatcher`) are left out.

**SharedFolder.** Decision 0073 says of a folder that "one with a sharing rule
in it is refused" (`docs/decisions/0073-the-phone-works-with-its-computer.md:186`).
The check (`storage/src/shared_folder.rs:186`) never refuses one.
* A device moves a folder that has in it one shared without the device. When
  there is nothing in it the device is shown, the whole is renamed (line 189):
  `LeftOutNeverChanges` fails.
* The rows of what came along are left as they were, so `RequestsLeaveNothing`
  fails. The next scan indexes the files where they are now, outside of the rule,
  and the device is given them: `LeftOutIsNeverGiven` fails.
* A folder moved or copied to a name around a folder with a rule puts files
  into that, though a phone may change only places "outside every folder shared
  without it" (line 113).
* A move of a folder is refused part-way when it meets a freed file, with the
  first files already moved.
* Finding a free name for an upload and renaming to it
  (`storage/src/shared_folder.rs:296-307`) are one step in the model: a file put
  under the name between the two is overwritten, and no property shows it.

**Sharing**
* "a device left out cannot write itself back in" (`engine/src/peer.rs:349`): it
  can through a third device that has not heard of its leaving, so
  `NotWrittenBack` fails.
* Two rules made apart are to settle "the way any conflict is settled"
  (`sync/src/sharing.rs:34`). Rules that each leave the other's author out are
  taken by neither, and `RulesSettle` fails.

**Pairing.** `trust_peer` leaves a guest's relation as it was when the same
device is paired again as one's own. A code whose reply fails after the approval
is used up.

**Signal.** Connections of one device may overlap.
* The end of an older one takes out the registration of the newer (`leave`,
  `signal/src/server.rs:316`, called at 820), and an announcement of the older
  one that is served late lists the device there again. A device that is
  connected is then woken, gets no notes, or is listed elsewhere:
  `ConnectedIsNotWoken`, `NotesReachTheConnected` and `ConnectedIsListed` fail.
  The run's properties except a device from there until it announces on its
  newest connection (`displaced`).
* A token said on the older connection may be taken after the newer one's.
* A write of the tokens' file that fails (line 291) is logged: until a later one
  succeeds, a restart brings back what the file had (`unwritten`).

**Relay.** A name taken after the socket connected is not registered on it
(`relay/src/socket.rs:392`, against "registered under every name the socket
holds" at line 110). At `MAX_PEERS` a send is pending with no waker
(`relay/src/socket.rs:335`).

**Reach.** The waiter of an introduction that timed out takes the next `Punch`
(`peer/src/connect.rs:1155`).

**Sealed, Phone.** `phone_shared` is the finding of PROJECT.json. `KeptOrHere`
fails in `phone` too, of a file copied inside the vault (`copy_in_vault`,
`storage/src/store.rs:2316`), which is why its property is `OnlyCopyStays`, of
the contents that are `Sole`. A file changed and changed back is freed on the
word of a replica of the first version.

**Identity**
* A phone that takes its old id again starts its counter anew
  (`storage/src/db.rs:4717`, against 3677).
* Of two computers, the one told first does not know the phone until the other
  is told (`mobile-ffi/src/lib.rs:2952`); an answer lost leaves a computer with
  the permanent print alone; a phone killed after the note and before the save
  never tells again; one paired again while waiting, and one newly paired when
  the switch is made at once, are not known.
* A phone can be listed twice, and `became` can have a cycle after a removal and
  two stops. A fingerprint being unique makes pairing fail in these states.
* `Identity::save` moves two files one after the other: "one identity or the
  other, never half" (`peer/src/identity.rs:142`) does not hold between the two.

**Openings.** A send that failed can write over a newer approval, and an ask
answered between two reads of the phone is shown again.

**Pass.** A phone frozen while it trades asks (`mobile-ffi/src/lib.rs:3279-3296`)
is not excused by the decision after it (3297-3304), which goes by an `excused`
taken before (3276-3278): `EveryFreezeIsExcused` fails, and `StaysForIt` excepts
such a look (`look.missed`). One frozen while it announces is not excused
either; a pass that reached
nobody does not wait `PAUSED` (`mobile-ffi/src/lib.rs:1626`); what was served
lately is told by the wall clock; a connection reached before the network
changed is kept.

**Backup**
* Killed between `forget_outside_source` and the tombstone
  (`storage/src/store.rs:1804`), a phone has a row listed that is read nowhere
  and kept by nobody, and that no later backup looks at.
* Killed between the row of a new file and `note_outside_source`
  (`storage/src/store.rs:1768`), or with the second failing, and with the file
  then removed, it has a row that is listed and read nowhere.
* A replica's record is not taken back when the computer drops the file: deleted
  from the list, counted late, added again with the same bytes and gone again,
  a file stays listed though nobody keeps it.
* "A file deleted here stays on the computer" (`mobile-ffi/src/lib.rs:2332`): one
  whose arrival the phone has not heard of is deleted there.
* "all backed up, or none of it": ticking a folder does not reach choices inside
  it made on the other side and not heard of yet. Choices are ordered by each
  device's own clock, so one made by a clock that is behind is lost to an earlier
  one; `LastChoiceStands` leaves it out.

## What is not modelled

* **Not at all**: repair, roles and pins, the chunker and the encrypted format,
  key derivation and recovery words, the command line and its configuration,
  the desktop application and tray, the Android application. They are
  sequential computations, cryptography, or presentation.
* **Messages** are records: `wire.rs` encodings, frame limits and ranged reads
  are left out.
* **Sync**: replicas, private areas, case folding, directories, tombstones
  expiring after seven days, and a move or a copy served, which is what is served
  of a deletion and an upload, under two names. Two devices; a third makes the state space too
  large for the same writes and faults.
* **ChunkStore**: damage to payloads, `verify`, `rewrite`, `discard`, and power
  loss (a crash is of the process).
* **Vaults, Backup**: sizes, quotas and times of files, except as an order; the
  computer's own folders; files too recent to back up.
* **Sealed, Phone**: the host's person removing the guest or setting a limit,
  restoring at the host, openings of an own device's holder.
* **Signal, Relay**: rate limits, the Nostr transport, IP addresses; what a
  relay connection had yet to deliver is taken to be lost with it.

## What is left

Modelling is complete along the plan, apart from the list above. What would be
proved next, most important first: `OriginalEditsSurvive`, which needs where
each indexed content is while a plan is applied (folder, trash, or the file
about to be renamed), with `SyncInv` and `PerSecond = 1`; `NoChangeForgotten`,
whose events would have to be written without filtering a sequence; and
`NothingLost` of `Vaults`.
