------------------------------- MODULE Watch -------------------------------
(***************************************************************************)
(* How a change made in the folder reaches the index: the platform's events *)
(* (notify), the watcher that debounces them (watcher/src), and the daemon  *)
(* that applies what settles (qurb/src/daemon.rs, engine/src/lib.rs).       *)
(*                                                                          *)
(* A path is a file or a directory for good.  disk[p] is 0 for nothing, and *)
(* otherwise the number of the write that left what is there; stamp is the  *)
(* size and modification time that write left, which a write in the same    *)
(* tick of the filesystem's clock need not change.  known[p] is what the    *)
(* index has of p, 0 for no live row.  Copies are freed by the daemon and   *)
(* by other processes, at any moment.  What a sync writes into the folder   *)
(* is in SharedFolder, not here.                                            *)
(***************************************************************************)
EXTENDS Naturals, Sequences, FiniteSets

LOCAL Seqs == INSTANCE SequencesExt

CONSTANTS Path,        \* what may be in the folder
          Dir,         \* the paths that are directories
          Parent,      \* the directory a path is in
          Root,        \* the folder itself
          Ignored,     \* scratch files, version control, the store
          Quiet,       \* ticks without an event before a path is released
          MaxHold,     \* ticks from its first event before it is released anyway
          MaxChanges,  \* bound: what the user does
          MaxOut       \* bound: batches waiting for the daemon

ASSUME WatchAssumption ==
  /\ Dir \subseteq Path /\ Ignored \subseteq Path
  /\ Root \notin Path
  /\ Parent \in [Path -> Dir \cup {Root}]
  /\ \A d \in Dir : Parent[d] = Root
  /\ Quiet \in Nat \ {0} /\ MaxHold \in Nat /\ MaxHold >= Quiet
  /\ MaxChanges \in Nat /\ MaxOut \in Nat \ {0}

VARIABLES
  disk,       \* what is in the folder
  stamp,      \* size and modification time, by write
  fresh,      \* files written within RACY of now
  moved,      \* whether the folder has been moved away
  watches,    \* directories the platform watches
  raw,        \* events on their way from the platform
  woken,      \* the watcher has had an event and drains the rest
  pending,    \* Debouncer.pending: the last kind seen, and the two ages
  rescan,     \* Debouncer.rescan_requested
  snapshots,  \* what each queued file looked like at its last event
  out,        \* events settled, on their way to the daemon
  phase,      \* the daemon: down, reconciled, watching or stopped
  todo,       \* changes of the batch the daemon is applying
  known,      \* the index
  freed,      \* rows marked as not held here
  racy,       \* paths too recent to trust when last opened
  evicting,   \* paths marked, and not yet unlinked
  missed,     \* history: what no event or walk to come will tell of, being
              \* changed after the first walk and before the watcher began,
              \* back unnoticed while its removal was on its way, gone from
              \* a directory before it was watched, or not stored or
              \* deleted when its turn came (README, Divergences)
  kept,       \* files the user has left in the folder, but for one stored
              \* between its mark and its removal (README, Divergences)
  changes     \* what the user has done so far

folder == <<disk, stamp, fresh, moved, watches>>
watcher == <<raw, woken, pending, rescan, snapshots, out>>
daemon == <<phase, todo, known, freed, racy, evicting>>
vars == <<folder, watcher, daemon, missed, kept, changes>>

File == Path \ Dir
Stamp == 0..(MaxChanges + 2)

\* What a write leaves, unlike any before it.
Now == changes + 2

\* The size and modification time it leaves: its own, or those of the file it
\* replaces, if that was written a moment ago.
Stamps(p) == {Now} \cup {stamp[disk[q]] : q \in {p} \cap fresh}
Children(d) == {p \in Path : Parent[p] = d}

(***************************************************************************)
(* Events.                                                                  *)
(***************************************************************************)

ChangeKind == {"upserted", "removed"}
Event(kind, p, q) == [kind |-> kind, path |-> p, to |-> q]
Overflow == Event("overflow", Root, Root)
Change(p, kind) == [path |-> p, kind |-> kind]

RawEvent == [kind: {"access", "remove", "from", "both", "other", "overflow"},
             path: Path \cup {Root}, to: Path \cup {Root}]

\* The changes a platform event implies; a rename carries two.
classify(e) ==
  CASE e.kind \in {"remove", "from"} -> {Change(e.path, "removed")}
    [] e.kind = "both" -> {Change(e.path, "removed"), Change(e.to, "upserted")}
    [] e.kind \in {"access", "overflow"} -> {}
    [] OTHER -> {Change(e.path, "upserted")}

\* What stat says of a path, now.
Stat(p) == IF moved \/ disk[p] = 0 THEN 0 ELSE stamp[disk[p]]

\* Size and modification time of a file, if it is one.
snapshot(p) == IF p \in File THEN Stat(p) ELSE 0

IsIgnored(p) == p \in Ignored \/ Parent[p] \in Ignored

\* The files the index follows.
Followed == {p \in File : ~IsIgnored(p)}

\* Files a walk of a directory finds.
Scan(d) == {p \in File : (d = Root \/ Parent[p] = d) /\ Stat(p) # 0 /\ ~IsIgnored(p)}

(***************************************************************************)
(* The debouncer.                                                           *)
(***************************************************************************)

NotPending == [kind |-> "none", first |-> 0, last |-> 0]
Pending == [kind: ChangeKind, first: 0..MaxHold, last: 0..MaxHold]

\* Mutant of Observed: the first kind seen is kept.
ObservedFirst(queue, p, kind) ==
  [queue EXCEPT ![p] = IF @ = NotPending THEN [kind |-> kind, first |-> 0, last |-> 0]
                       ELSE [@ EXCEPT !.last = 0]]

\* An event of a path now: its kind wins, and its first event is kept.
Observed(queue, p, kind) ==
  [queue EXCEPT ![p] = IF @ = NotPending THEN [kind |-> kind, first |-> 0, last |-> 0]
                       ELSE [@ EXCEPT !.kind = kind, !.last = 0]]

\* A path that turned out not to be finished.
Deferred(queue, p) ==
  [queue EXCEPT ![p] = IF @ = NotPending
                         THEN [kind |-> "upserted", first |-> 0, last |-> 0]
                         ELSE [@ EXCEPT !.last = 0]]

Settled == {p \in Path : /\ pending[p] # NotPending
                         /\ pending[p].last >= Quiet \/ pending[p].first >= MaxHold}

\* Mutant of Older: ages are not bounded.
OlderForEver(p) ==
  IF p = NotPending THEN p ELSE [p EXCEPT !.first = @ + 1, !.last = @ + 1]

Older(p) ==
  IF p = NotPending THEN p
  ELSE [p EXCEPT !.first = IF @ < MaxHold THEN @ + 1 ELSE @,
                 !.last = IF @ < MaxHold THEN @ + 1 ELSE @]

(***************************************************************************)
(* The folder, and the platform that watches it.                            *)
(***************************************************************************)

Init ==
  /\ disk \in [Path -> {0, 1}]
  /\ \A p \in Path : disk[p] # 0 /\ Parent[p] # Root => disk[Parent[p]] # 0
  /\ stamp = [n \in Stamp |-> n] /\ fresh = {}
  /\ moved = FALSE /\ watches = {} /\ raw = <<>> /\ woken = FALSE
  /\ pending = [p \in Path |-> NotPending] /\ rescan = FALSE
  /\ snapshots = [p \in Path |-> 0] /\ out = <<>>
  /\ phase = "down" /\ todo = {} /\ known = [p \in Path |-> 0]
  /\ freed = {} /\ racy = {} /\ evicting = {} /\ missed = {}
  /\ kept = {p \in Followed : disk[p] # 0} /\ changes = 0

\* A change on its way to the index, at any stage.
OnItsWay(c) ==
  \/ \E i \in DOMAIN raw : c \in classify(raw[i])
  \/ pending[c.path].kind = c.kind
  \/ \E i \in DOMAIN out : c \in out[i]
  \/ c \in todo

\* The platform reports what happens in the directories it watches, or, with
\* its queue full, that it has dropped something.
Seen(events) == SelectSeq(events, LAMBDA e : Parent[e.path] \in watches)
Report(events) == Seen(events) # <<>> /\ raw' = raw \o Seen(events)
DropEvents(events) == Seen(events) # <<>> /\ raw' = Append(raw, Overflow)
Unwatched(events) == Seen(events) = <<>> /\ UNCHANGED raw

\* Files of the index removed from a directory not watched yet: the walk of it
\* finds what is there, and says nothing of what is not.
Unreported(events) ==
  {p \in Followed : /\ phase = "watching" /\ Parent[p] \notin watches /\ known[p] # 0
                    /\ \E i \in DOMAIN events : events[i].kind \in {"remove", "from"} /\ events[i].path = p}

\* A step of the user's, changing these paths, adding files and removing some.
\* With a removal on its way, a file whose event is dropped, or that has none
\* of its own in a directory put in another's place, may be missed.
Touches(events, ps, added, removed) ==
  /\ kept' = (kept \ removed) \cup (added \cap Followed)
  /\ ~moved /\ changes < MaxChanges /\ changes' = changes + 1
  /\ LET back(qs) == {p \in qs \cap Followed : \E q \in {p, Parent[p]} \ {Root} : OnItsWay(Change(q, "removed"))}
         silent == UNION {Children(events[i].to) : i \in {j \in DOMAIN events : events[j].kind = "other"}}
         now == missed \cup Unreported(events)
                       \cup (IF phase = "reconciled" THEN ps \cap Followed ELSE {})
     IN \/ Report(events) /\ missed' = now \cup back(silent)
        \/ (DropEvents(events) \/ Unwatched(events)) /\ missed' = now \cup back(silent \cup added)
  /\ UNCHANGED <<moved, woken, pending, rescan, snapshots, out, daemon>>

There(d) == IF d = Root THEN TRUE ELSE disk[d] # 0

Write(p) ==
  /\ There(Parent[p])
  /\ disk' = [disk EXCEPT ![p] = Now]
  /\ \E t \in Stamps(p) : stamp' = [stamp EXCEPT ![Now] = t]
  /\ fresh' = fresh \cup ({p} \cap Followed)
  /\ Touches(<<Event("other", p, p)>>, {p}, {p}, {}) /\ UNCHANGED watches

Delete(p) ==
  /\ disk[p] # 0
  /\ disk' = [disk EXCEPT ![p] = 0] /\ fresh' = fresh \ {p}
  /\ Touches(<<Event("remove", p, p)>>, {p}, {}, {p}) /\ UNCHANGED <<stamp, watches>>

\* An editor's save: a scratch file, just written, renamed over the one it
\* replaces.
Rename(p, q) ==
  /\ disk[p] # 0 /\ There(Parent[q])
  /\ disk' = [disk EXCEPT ![p] = 0, ![q] = Now]
  /\ \E t \in Stamps(q) : stamp' = [stamp EXCEPT ![Now] = t]
  /\ fresh' = (fresh \ {p}) \cup ({q} \cap Followed)
  /\ \/ /\ {Parent[p], Parent[q]} \subseteq watches
        /\ Touches(<<Event("both", p, q)>>, {p, q}, {q}, {p})
     \/ Touches(<<Event("from", p, p), Event("other", q, q)>>, {p, q}, {q}, {p})
  /\ UNCHANGED watches

Read(p) ==
  /\ disk[p] # 0 /\ p \in File
  /\ Touches(<<Event("access", p, p)>>, {}, {}, {}) /\ UNCHANGED <<disk, stamp, fresh, watches>>

\* A directory made, or moved in with files in it; and one moved out.  The
\* platform's watch of a directory is of the directory, and goes with it.
BringDir(d, inside) ==
  /\ disk[d] = 0
  /\ disk' = [p \in Path |-> IF p \in {d} \cup inside THEN Now ELSE disk[p]]
  /\ Touches(<<Event("other", d, d)>>, {d} \cup inside, inside, {})
  /\ UNCHANGED <<stamp, fresh, watches>>

TakeDir(d) ==
  /\ disk[d] # 0
  /\ disk' = [p \in Path |-> IF p \in {d} \cup Children(d) THEN 0 ELSE disk[p]]
  /\ watches' = watches \ {d} /\ fresh' = fresh \ Children(d) /\ UNCHANGED stamp
  /\ Touches(<<Event("from", d, d)>>, {d} \cup Children(d), {}, {p \in Children(d) : disk[p] # 0})

\* To a watcher, the folder moved away is its files going.
MoveFolder ==
  /\ ~moved /\ phase # "down"
  /\ moved' = TRUE /\ changes < MaxChanges /\ changes' = changes + 1
  /\ LET going == Seqs!SetToSeq({Event("remove", p, p) : p \in {q \in Children(Root) : disk[q] # 0}})
     IN Report(going) \/ DropEvents(going) \/ Unwatched(going)
  /\ UNCHANGED <<disk, stamp, fresh, watches, woken, pending, rescan, snapshots, out,
                 daemon, missed, kept>>

\* A watch is installed after its directory exists.
Uninstalled == {d \in Dir : Root \in watches /\ disk[d] # 0 /\ d \notin watches}

Install(d) ==
  /\ d \in Uninstalled /\ watches' = watches \cup {d}
  /\ UNCHANGED <<disk, stamp, fresh, moved, watcher, daemon, missed, kept, changes>>

\* Seconds pass: a file now written has another modification time.
Age ==
  /\ fresh # {} /\ fresh' = {}
  /\ UNCHANGED <<disk, stamp, moved, watches, watcher, daemon, missed, kept, changes>>

\* Time passes; the platform installs a watch sooner than a tick.
Tick ==
  /\ Uninstalled = {}
  /\ \E p \in Path : pending[p] # Older(pending[p])
  /\ pending' = [p \in Path |-> Older(pending[p])]
  /\ UNCHANGED <<folder, raw, woken, rescan, snapshots, out, daemon, missed, kept, changes>>

(***************************************************************************)
(* The watcher.                                                             *)
(***************************************************************************)

\* handle: one event, with what its files look like now.
Handle ==
  LET e == Head(raw)
      seen == {c \in classify(e) : ~IsIgnored(c.path)}
  IN /\ raw # <<>> /\ phase = "watching"
     /\ raw' = Tail(raw) /\ woken' = TRUE
     /\ rescan' = (rescan \/ e.kind = "overflow")
     /\ snapshots' = [p \in Path |->
          IF Change(p, "upserted") \in seen /\ snapshot(p) # 0
            THEN snapshot(p) ELSE snapshots[p]]
     /\ pending' = [p \in Path |->
          IF \E c \in seen : c.path = p
            THEN Observed(pending, p, (CHOOSE c \in seen : c.path = p).kind)[p]
            ELSE pending[p]]
     /\ UNCHANGED <<folder, out, daemon, missed, kept, changes>>

\* Mutant of Due: no deadline, so the last change waits for another event.
DueWhenWoken == woken /\ raw = <<>>

\* The queue has been drained, or the soonest deadline has come.
Due == IF woken THEN raw = <<>> ELSE Settled # {}

\* run, once nothing more is queued or the soonest path has become due: what
\* has settled goes out, unless it is a directory, which is walked, or a file
\* that has changed since its event.  Directories sort before what is in them, and
\* a watch is installed well within the quiet period.
Release(walked) ==
  LET dirs == {p \in Settled : pending[p].kind = "upserted" /\ p \in Dir /\ Stat(p) # 0}
      found == UNION {Scan(d) : d \in dirs \cap walked}
      looks == [p \in Path |-> IF p \in found THEN snapshot(p)
                               ELSE IF p \in dirs THEN 0 ELSE snapshots[p]]
      gone == {p \in Settled : pending[p].kind = "removed" \/ Stat(p) = 0}
      files == Settled \ (dirs \cup gone)
      stable == {p \in files : looks[p] = Stat(p)}
      drained == [p \in Path |-> IF p \in Settled THEN NotPending ELSE pending[p]]
      refilled == [p \in Path |-> IF p \in found THEN Observed(drained, p, "upserted")[p]
                                  ELSE drained[p]]
      batch == {Change(p, "removed") : p \in gone} \cup {Change(p, "upserted") : p \in stable}
  IN /\ phase = "watching" /\ Len(out) < MaxOut
     /\ Due
     /\ walked \subseteq dirs /\ dirs \cap Uninstalled = {}
     /\ woken' = FALSE
     /\ rescan' = (dirs # walked)
     /\ pending' = [p \in Path |-> IF p \in files \ stable THEN Deferred(refilled, p)[p]
                                   ELSE refilled[p]]
     /\ snapshots' = [p \in Path |-> IF p \in gone \cup stable THEN 0
                                     ELSE IF p \in files THEN Stat(p) ELSE looks[p]]
     /\ out' = out \o (IF rescan THEN <<{}>> ELSE <<>>)
                   \o (IF batch = {} THEN <<>> ELSE <<batch>>)
     /\ UNCHANGED <<folder, raw, daemon, missed, kept, changes>>

(***************************************************************************)
(* The daemon.                                                              *)
(***************************************************************************)

\* Mutant of Forgotten: a freed file is taken for a deleted one.
ForgottenFreed(ps) == [p \in Path |-> IF p \in ps THEN 0 ELSE known[p]]

\* delete_file, unless the file is away because this device freed it.
Forgotten(ps) == [p \in Path |-> IF p \in ps \ freed THEN 0 ELSE known[p]]

\* What the index holds at or under a path.
FolderPathsUnder(p) == {q \in File : known[q] # 0 /\ q \in {p} \cup Children(p)}

\* By size and modification time, unless the file was too recent to go by them.
LooksUnchanged(p) == known[p] # 0 /\ stamp[known[p]] = Stat(p) /\ p \notin racy

\* set_racy, the first thing put_file does to a file it has opened.
Remarked(opened) == (racy \ opened) \cup (opened \cap fresh)

\* The whole tree against the index: what looks changed is stored, and what
\* was not found is deleted, but for what fails, which is everything if the
\* walk itself does.  A file that looks unchanged is not read, and keeps its
\* mark; one that failed after it was opened may have lost the mark that would
\* have had it read again.
Reconciled(failing) ==
  LET entries == Scan(Root)
      changed == {p \in entries : ~LooksUnchanged(p)}
      stored == changed \ failing
      gone == {p \in File \ entries : known[p] # 0}
  IN /\ known' = [p \in Path |-> IF p \in stored THEN disk[p] ELSE Forgotten(gone \ failing)[p]]
     /\ freed' = freed \ stored
     /\ \E opened \in SUBSET changed : stored \subseteq opened /\ racy' = Remarked(opened)
     /\ missed' = ((changed \cup gone) \cap failing)
                    \cup {p \in missed \cap entries : LooksUnchanged(p)}
                    \cup {p \in missed : \E q \in {p, Parent[p]} \ {Root} : OnItsWay(Change(q, "removed"))}

\* Daemon::run begins with a walk of the folder, and ends if the walk fails.
Start(failing) ==
  /\ phase = "down" /\ ~moved
  /\ Reconciled(failing)
  /\ phase' \in {"reconciled", "down"}
  /\ UNCHANGED <<folder, watcher, todo, evicting, kept, changes>>

\* The connector is started before the watcher is.
StartWatcher ==
  /\ phase = "reconciled"
  /\ IF moved THEN phase' = "stopped" /\ UNCHANGED watches
     ELSE phase' = "watching" /\ watches' = {Root} \cup {d \in Dir : disk[d] # 0}
  /\ UNCHANGED <<disk, stamp, fresh, moved, watcher, todo, known, freed, racy, evicting,
                 missed, kept, changes>>

\* The next event of the watcher: not if the folder has gone.  The platform
\* has installed its watches by then.
Take(failing) ==
  /\ phase = "watching" /\ todo = {} /\ out # <<>>
  /\ Uninstalled = {} /\ out' = Tail(out)
  /\ IF moved THEN phase' = "stopped" /\ UNCHANGED <<todo, known, freed, racy, missed>>
     ELSE /\ phase' = phase
          /\ IF Head(out) = {}
               THEN Reconciled(failing) /\ UNCHANGED todo
               ELSE todo' = Head(out) /\ UNCHANGED <<known, freed, racy, missed>>
  /\ UNCHANGED <<folder, raw, woken, pending, rescan, snapshots, evicting, kept, changes>>

\* A timer looks for the folder as well.
FolderGone ==
  /\ phase = "watching" /\ todo = {} /\ moved
  /\ phase' = "stopped"
  /\ UNCHANGED <<folder, watcher, todo, known, freed, racy, evicting, missed, kept, changes>>

\* apply_removal: whatever the index holds there, without another look, as far
\* as the first that cannot be deleted.
ApplyRemoval(p) ==
  \E failing \in SUBSET FolderPathsUnder(p) :
    /\ known' = Forgotten(FolderPathsUnder(p) \ failing)
    /\ missed' = missed \cup (failing \ freed)
    /\ UNCHANGED <<freed, racy>>

\* store_if_changed: one that could not be stored is not tried again.
StoreIfChanged(p) ==
  \/ LooksUnchanged(p) /\ UNCHANGED <<known, freed, racy, missed>>
  \/ /\ ~LooksUnchanged(p)
     /\ known' = [known EXCEPT ![p] = disk[p]] /\ freed' = freed \ {p}
     /\ racy' = Remarked({p}) /\ UNCHANGED missed
  \/ /\ ~LooksUnchanged(p)
     /\ racy' \in {racy, Remarked({p})} /\ missed' = missed \cup {p}
     /\ UNCHANGED <<known, freed>>

ApplyUpsert(p) == IF p \in File /\ Stat(p) # 0 THEN StoreIfChanged(p) ELSE ApplyRemoval(p)

\* The next change of the batch, which is in the order of the paths: that of
\* a directory comes before those of what is in it.
Apply(c) ==
  /\ c \in todo /\ ~\E e \in todo : e.path = Parent[c.path]
  /\ todo' = todo \ {c}
  /\ IF c.kind = "upserted" THEN ApplyUpsert(c.path) ELSE ApplyRemoval(c.path)
  /\ UNCHANGED <<folder, watcher, phase, evicting, kept, changes>>

\* evict_because, by the daemon, the application or the command line, and so
\* at any moment, of any row: the row is marked first, and the file removed
\* second, which the platform reports like any other removal.  One that cannot
\* be removed is unmarked.
Mark(p) ==
  /\ p \in File /\ known[p] # 0
  /\ freed' = freed \cup {p} /\ evicting' = evicting \cup {p}
  /\ UNCHANGED <<folder, watcher, phase, todo, known, racy, missed, kept, changes>>

\* The removal, without another look at the mark.
Unlink(p) ==
  /\ p \in evicting /\ evicting' = evicting \ {p}
  /\ LET going == <<Event("remove", p, p)>>
     IN IF Stat(p) = 0 THEN UNCHANGED <<disk, fresh, raw, missed, kept>>
        ELSE /\ disk' = [disk EXCEPT ![p] = 0] /\ fresh' = fresh \ {p}
             /\ Report(going) \/ DropEvents(going) \/ Unwatched(going)
             /\ missed' = missed \cup (Unreported(going) \ freed)
                                 \cup (IF phase = "reconciled" THEN {p} \ freed ELSE {})
             /\ kept' = kept \ ({p} \ freed)
  /\ UNCHANGED <<stamp, moved, watches, woken, pending, rescan, snapshots, out,
                 phase, todo, known, freed, racy, changes>>

UnlinkFails(p) ==
  /\ p \in evicting /\ evicting' = evicting \ {p} /\ Stat(p) # 0
  /\ freed' = freed \ {p}
  /\ UNCHANGED <<folder, watcher, phase, todo, known, racy, missed, kept, changes>>

\* The process that was freeing it killed first.
EvictionCut(p) ==
  /\ p \in evicting /\ evicting' = evicting \ {p}
  /\ UNCHANGED <<folder, watcher, phase, todo, known, freed, racy, missed, kept, changes>>

\* Killed: what the watcher held, and the rest of the batch, is gone.
Crash ==
  /\ phase \in {"reconciled", "watching"} /\ changes < MaxChanges
  /\ phase' = "down" /\ todo' = {}
  /\ watches' = {} /\ raw' = <<>> /\ woken' = FALSE /\ rescan' = FALSE /\ out' = <<>>
  /\ pending' = [p \in Path |-> NotPending] /\ snapshots' = [p \in Path |-> 0]
  /\ changes' = changes + 1
  /\ UNCHANGED <<disk, stamp, fresh, moved, known, freed, racy, evicting, missed, kept>>

User ==
  \/ \E p \in File : Write(p) \/ Delete(p) \/ Read(p)
  \/ \E p, q \in File : p # q /\ Rename(p, q)
  \/ \E d \in Dir : TakeDir(d) \/ \E inside \in SUBSET Children(d) : BringDir(d, inside)
  \/ MoveFolder

Platform == Tick \/ Age \/ \E d \in Dir : Install(d)

Watching == Handle \/ \E walked \in SUBSET Dir : Release(walked)

Following == \/ \E failing \in SUBSET File : Start(failing) \/ Take(failing)
             \/ StartWatcher \/ FolderGone
             \/ \E c \in todo : Apply(c)

Freeing == \/ \E p \in Path : Mark(p)
           \/ \E p \in evicting : Unlink(p) \/ UnlinkFails(p) \/ EvictionCut(p)

Next == User \/ Platform \/ Watching \/ Following \/ Freeing \/ Crash

\* Time passes, and the watcher and the daemon run, whatever is freed
\* meanwhile.  Nothing is asked of the user or of freeing, and nothing of a
\* walk but that it end.
Fairness == WF_vars(Platform) /\ WF_vars(Watching) /\ WF_vars(Following)

Spec == Init /\ [][Next]_vars /\ Fairness

(***************************************************************************)
(* Properties.                                                              *)
(***************************************************************************)

TypeOK ==
  /\ disk \in [Path -> Stamp] /\ known \in [Path -> Stamp]
  /\ stamp \in [Stamp -> Stamp]
  /\ snapshots \in [Path -> Stamp]
  /\ watches \subseteq Dir \cup {Root}
  /\ raw \in Seq(RawEvent)
  /\ pending \in [Path -> Pending \cup {NotPending}]
  /\ out \in Seq(SUBSET [path: Path, kind: ChangeKind])
  /\ todo \subseteq [path: Path, kind: ChangeKind]
  /\ freed \cup evicting \cup missed \cup kept \cup fresh \cup racy \subseteq Path
  /\ phase \in {"down", "reconciled", "watching", "stopped"}
  /\ {moved, woken, rescan} \subseteq BOOLEAN
  /\ changes \in 0..MaxChanges

WalkOwed == rescan \/ Overflow \in Seqs!ToSet(raw) \/ {} \in Seqs!ToSet(out)

\* Where the index and the folder disagree about a file, something that will
\* mend it is on its way: an event of the file, or of its directory, that has
\* been neither dropped, nor debounced away, nor released and forgotten; or a
\* walk of the whole folder.  Left out are rows marked as freed, and what is
\* known to be missed.
NoChangeForgotten ==
  phase = "watching" /\ ~moved =>
    \A p \in File : known[p] # disk[p] /\ ~IsIgnored(p) =>
      \/ p \in freed \cup missed \/ WalkOwed
      \/ \E q \in {p, Parent[p]} \ {Root} :
           \/ OnItsWay(Change(q, "upserted"))
           \/ disk[p] = 0 /\ OnItsWay(Change(q, "removed"))

\* A file the user has left in the folder is there, or the index has it as a
\* file: freeing the local copy is never taken for a deletion, whatever the
\* daemon was killed in the middle of.
FreedIsNotDeleted ==
  \A p \in kept : disk[p] # 0 \/ known[p] # 0

\* Once the user stops, the index comes to agree with the folder: what has
\* been left waiting is released when its time comes, and not when something
\* else happens.  A walk that failed to read a new directory is the exception:
\* the full one it asks for waits for the next event.
Agrees(p) == known[p] = disk[p] \/ p \in freed \cup missed \/ IsIgnored(p)

EventuallyNoticed ==
  <>[](moved \/ rescan \/ \A p \in File : Agrees(p))

\* Does not hold (README, Divergences).
\* The same of every change, with none left out as missed.
EveryChangeNoticed ==
  <>[](moved \/ rescan \/ \A p \in File :
         known[p] = disk[p] \/ p \in freed \/ IsIgnored(p))

\* Does not hold (README, Divergences).
\* A file marked as freed and still present costs a needless fetch at worst:
\* deleting it is passed on like any other deletion.
DeletionsPassedOn ==
  <>[](moved \/ rescan \/ \A p \in File \ missed : p \notin kept => known[p] = 0)

\* Does not hold (README, Divergences).
\* A folder moved away is not taken for its files being deleted.
MovedIsNotDeleted ==
  [][moved => \A p \in File : known[p] # 0 => known'[p] # 0]_vars

=============================================================================
