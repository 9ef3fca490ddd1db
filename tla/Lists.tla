-------------------------------- MODULE Lists --------------------------------
(***************************************************************************)
(* How one device comes to know another's file list: the counter the index  *)
(* keeps of changed listings (storage/src/db.rs), what the server answers   *)
(* from it (peer/src/server.rs), the list kept between syncs                *)
(* (peer/src/trees.rs), and the daemon that is told of a change by a        *)
(* request the other device holds open (qurb/src/daemon.rs).                *)
(*                                                                          *)
(* One device answers, one asks.  A key is where an entry is listed and its *)
(* path; a version is a number, 0 for no row.  A fingerprint of a list is   *)
(* the list.                                                                *)
(***************************************************************************)
EXTENDS Naturals, FiniteSets

CONSTANTS Key,         \* entries there can be in a list
          Conn,        \* connections there can be at once
          NoLink,      \* no connection
          DeltaMost,   \* the most entries sent apart from the list
          DeltaSmall,  \* as many as are sent apart however short the list is
          MaxChanges,  \* bound: changes to the index
          MaxFaults,   \* bound: connections lost, processes killed, passes failing
          MayFail      \* whether a pass may fail on a connection that is open

ASSUME ListsAssumption ==
  /\ NoLink \notin Conn
  /\ DeltaMost \in Nat /\ DeltaSmall \in Nat
  /\ MaxChanges \in Nat /\ MaxFaults \in Nat /\ MayFail \in BOOLEAN

VARIABLES
  rows,        \* the answering device's index: each entry's version and mark
  counter,     \* list_counter
  hidden,      \* entries the asking device is not shown
  sealed,      \* whether it keeps this device's vault sealed
  generation,  \* how far the device's state has got since it started
  unsaid,      \* a change applied, and the generation not moved yet
  notifying,   \* moved, and the waiting requests not woken yet
  announced,   \* news on its way through the rendezvous
  conns,       \* each connection, with the request that waits on it
  link,        \* the connection the asking daemon holds, or none
  queued,      \* a change reported to the asking daemon
  backoff,     \* it does not try yet
  pc,          \* where its pass is
  mark,        \* the counter it was told before a whole list
  kept,        \* the list kept from the last pass
  got,         \* the list of the last pass
  during,      \* the lists the other device would have sent in this pass
  quiet,       \* entries whose last change moved no generation
  changes, faults

server == <<rows, counter, hidden, sealed, generation, unsaid, notifying, announced, quiet>>
daemon == <<link, queued, backoff, pc, mark, kept, got, during>>
listsVars == <<server, daemon, conns, changes, faults>>

Version == 0..MaxChanges
None == [list |-> {}, counter |-> 0, none |-> TRUE]
Nothing == {<<"none", 0>>}

\* The entries a device is shown.
List == {<<k, rows[k].version>> : k \in {j \in Key \ hidden : rows[j].version # 0}}

\* What a list may be.
Lists == SUBSET (Key \X Version)

Ended == [open |-> FALSE, at |-> "none", seen |-> 0, woken |-> FALSE]

ListsInit ==
  /\ rows = [k \in Key |-> [version |-> 0, mark |-> 0]] /\ counter = 0
  /\ hidden = {} /\ sealed \in BOOLEAN
  /\ generation = 0 /\ unsaid = FALSE /\ notifying = FALSE /\ announced = FALSE
  /\ conns = [c \in Conn |-> Ended] /\ link = NoLink
  /\ queued = FALSE /\ backoff = FALSE /\ pc = "idle" /\ mark = 0
  /\ kept = None /\ got = Nothing /\ during = {} /\ quiet = {}
  /\ changes = 0 /\ faults = 0

Changes == changes < MaxChanges /\ changes' = changes + 1
Faults == faults < MaxFaults /\ faults' = faults + 1

Shown == during' = IF during = {} THEN {} ELSE during \cup {List'}

(***************************************************************************)
(* The device that answers.                                                 *)
(***************************************************************************)

\* Mutant: a row updated keeps its mark.
MarkedOnce(k, v) ==
  [rows EXCEPT ![k] = [version |-> v, mark |-> IF @.version = 0 THEN counter + 1 ELSE @.mark]]

\* The triggers: a row written is marked with the counter, moved; a row
\* deleted is not.
Marked(k, v) == [rows EXCEPT ![k] = [version |-> v, mark |-> counter + 1]]

\* A change to the folder, applied; the generation is moved after.
Write(k) ==
  /\ Changes /\ ~unsaid
  /\ rows' = Marked(k, changes + 1) /\ counter' = counter + 1
  /\ unsaid' = TRUE /\ quiet' = quiet \ {k}
  /\ UNCHANGED <<hidden, sealed, generation, notifying, announced, conns,
                 link, queued, backoff, pc, mark, kept, got, faults>>
  /\ Shown

\* A send, from another process: only announced, later.
Send(k) ==
  /\ Changes
  /\ rows' = Marked(k, changes + 1) /\ counter' = counter + 1
  /\ quiet' = quiet \cup {k}
  /\ UNCHANGED <<hidden, sealed, generation, unsaid, notifying, announced, conns,
                 link, queued, backoff, pc, mark, kept, got, faults>>
  /\ Shown

\* A row forgotten by housekeeping, and an entry shown or hidden by what the
\* device is entitled to now.
Forget(k) ==
  /\ Changes /\ rows[k].version # 0
  /\ rows' = [rows EXCEPT ![k] = [version |-> 0, mark |-> 0]]
  /\ quiet' = quiet \cup {k}
  /\ UNCHANGED <<counter, hidden, sealed, generation, unsaid, notifying, announced, conns,
                 link, queued, backoff, pc, mark, kept, got, faults>>
  /\ Shown

Entitle(k) ==
  /\ Changes
  /\ hidden' = IF k \in hidden THEN hidden \ {k} ELSE hidden \cup {k}
  /\ quiet' = quiet \cup {k}
  /\ UNCHANGED <<rows, counter, sealed, generation, unsaid, notifying, announced, conns,
                 link, queued, backoff, pc, mark, kept, got, faults>>
  /\ Shown

\* bump: the value, and then whoever is waiting.
Bump ==
  /\ unsaid /\ ~notifying
  /\ generation' = generation + 1 /\ unsaid' = FALSE /\ notifying' = TRUE
  /\ UNCHANGED <<rows, counter, hidden, sealed, announced, quiet, daemon, conns, changes, faults>>

Registered(c) == conns[c].at \in {"registered", "asleep"}

Notify ==
  /\ notifying /\ notifying' = FALSE
  /\ conns' = [c \in Conn |-> IF Registered(c) THEN [conns[c] EXCEPT !.woken = TRUE] ELSE conns[c]]
  /\ announced' = TRUE
  /\ UNCHANGED <<rows, counter, hidden, sealed, generation, unsaid, quiet, daemon, changes, faults>>

\* announce_deliveries: every half minute, while something waits.
AnnounceDeliveries ==
  /\ quiet # {} /\ ~announced /\ announced' = TRUE
  /\ UNCHANGED <<rows, counter, hidden, sealed, generation, unsaid, notifying, quiet,
                 daemon, conns, changes, faults>>

\* wait_past, for the request that waits on a connection.
At(c, from, to) ==
  /\ conns[c].open /\ conns[c].at = from
  /\ conns' = [conns EXCEPT ![c].at = to, ![c].woken = FALSE]

\* The watcher is told, says so to the daemon, and asks again.
Answer(c) ==
  /\ conns' = [conns EXCEPT ![c] = [open |-> TRUE, at |-> "check", seen |-> generation, woken |-> FALSE]]
  /\ queued' = TRUE
  /\ UNCHANGED <<link, backoff, pc, mark, kept, got, during>>

Look(c) ==
  /\ conns[c].open /\ conns[c].at = "check"
  /\ IF generation # conns[c].seen THEN Answer(c)
     ELSE At(c, "check", "registered") /\ UNCHANGED daemon
  /\ UNCHANGED <<server, changes, faults>>

\* Mutant: not looked at again once registered.
LookNoMore(c) ==
  /\ At(c, "registered", "asleep")
  /\ UNCHANGED <<server, daemon, changes, faults>>

LookAgain(c) ==
  /\ conns[c].open /\ conns[c].at = "registered"
  /\ IF generation # conns[c].seen THEN Answer(c)
     ELSE /\ conns' = [conns EXCEPT ![c].at = "asleep"]
          /\ UNCHANGED daemon
  /\ UNCHANGED <<server, changes, faults>>

Wake(c) ==
  /\ conns[c].woken /\ At(c, "asleep", "check")
  /\ UNCHANGED <<server, daemon, changes, faults>>

\* Ninety seconds: answered anyway.
TimesOut(c) ==
  /\ conns[c].open /\ conns[c].at = "asleep" /\ Answer(c)
  /\ UNCHANGED <<server, changes, faults>>

(***************************************************************************)
(* The device that asks.                                                    *)
(***************************************************************************)

\* watching, and a connection not known to have ended.
Listening == link # NoLink /\ conns[link].open /\ conns[link].at # "none"

\* sync_all: nothing, while it waits to try again.
StartPass ==
  /\ pc = "idle"
  /\ IF backoff THEN UNCHANGED <<pc, during>>
     ELSE pc' = (IF link = NoLink THEN "reach" ELSE "load") /\ during' = {List}

\* The watcher's report.
Hear ==
  /\ queued /\ StartPass /\ queued' = FALSE
  /\ UNCHANGED <<server, conns, link, backoff, mark, kept, got, changes, faults>>

\* The timer.
Tick ==
  /\ StartPass /\ pc' # "idle"
  /\ UNCHANGED <<server, conns, link, queued, backoff, mark, kept, got, changes, faults>>

\* Announced: not news from a device listened to.
Arrival ==
  /\ announced /\ announced' = FALSE /\ pc = "idle"
  /\ IF Listening THEN UNCHANGED <<pc, during, backoff>>
     ELSE /\ backoff' = FALSE /\ during' = {List}
          /\ pc' = IF link = NoLink THEN "reach" ELSE "load"
  /\ UNCHANGED <<rows, counter, hidden, sealed, generation, unsaid, notifying, quiet,
                 conns, link, queued, mark, kept, got, changes, faults>>

\* The wait of a device that could not be reached is over.
Elapse ==
  /\ backoff /\ backoff' = FALSE
  /\ UNCHANGED <<server, conns, link, queued, pc, mark, kept, got, during, changes, faults>>

\* Mutant: a connection that has gone is tried again, for ever.
FailedDown ==
  /\ pc' = "idle" /\ during' = {}
  /\ backoff' = TRUE
  /\ UNCHANGED <<queued, mark, kept, got, link>>

\* failed: the connection is let go of, if not ended.
Failed ==
  /\ pc' = "idle" /\ during' = {}
  /\ backoff' = TRUE /\ link' = NoLink
  /\ UNCHANGED <<queued, mark, kept, got>>

\* reach, and watch.
Reach ==
  /\ pc = "reach"
  /\ \E c \in Conn :
       /\ conns[c] = Ended
       /\ conns' = [conns EXCEPT ![c] = [open |-> TRUE, at |-> "check", seen |-> 0, woken |-> FALSE]]
       /\ link' = c
  /\ pc' = "load"
  /\ UNCHANGED <<server, queued, backoff, mark, kept, got, during, changes, faults>>

Unreachable ==
  /\ pc = "reach" /\ Faults /\ Failed
  /\ UNCHANGED <<server, conns, changes>>

\* A request on a connection that has ended.
Lost ==
  /\ pc \in {"load", "digest", "mark", "tree"} /\ ~conns[link].open
  /\ Failed
  /\ UNCHANGED <<server, conns, changes, faults>>

Asking(at) == pc = at /\ conns[link].open

Returns(list) == got' = list /\ pc' = "apply" /\ during' = {}

\* save: a file written beside and renamed.
Save(list, n) == kept' = [list |-> list, counter |-> n, none |-> FALSE]

\* The kept list with the changed entries put in place of its own.
Rebuilt(list, changed) ==
  {e \in list : \A f \in changed : f[1] # e[1]} \cup changed

\* Mutant: what is rebuilt is not checked.
TakenAsIs(list) == TRUE

\* What was rebuilt is the other device's list, by its fingerprint.
Matches(list) == list = List

\* What is sent apart, and when the list is sent whole instead.
Delta(n) == {e \in List : rows[e[1]].mark > n}
TooMuch(delta) == \/ Cardinality(delta) > DeltaMost
                  \/ Cardinality(delta) > DeltaSmall /\ 2 * Cardinality(delta) > Cardinality(List)

\* tree_kept, with a list kept: TreeSince.
AskSince ==
  LET delta == Delta(kept.counter)
      rebuilt == Rebuilt(kept.list, delta)
  IN /\ Asking("load") /\ ~kept.none
     /\ IF sealed \/ TooMuch(delta)
          THEN pc' = "digest" /\ UNCHANGED <<kept, got, during>>
        ELSE IF List = kept.list
          THEN kept' = [kept EXCEPT !.counter = counter] /\ Returns(kept.list)
        ELSE IF Matches(rebuilt)
          THEN Save(rebuilt, counter) /\ Returns(rebuilt)
        ELSE pc' = "mark" /\ UNCHANGED <<kept, got, during>>
     /\ UNCHANGED <<server, conns, link, queued, backoff, mark, changes, faults>>

\* TreeDigest.
AskDigest ==
  /\ Asking("digest")
  /\ IF List = kept.list THEN Returns(kept.list) ELSE pc' = "mark" /\ UNCHANGED <<got, during>>
  /\ UNCHANGED <<server, conns, link, queued, backoff, mark, kept, changes, faults>>

\* Mutant: the counter the next change will have.
NextMark == IF sealed THEN 0 ELSE counter + 1

\* Where the counter stands, said to a device that asks for nothing changed
\* since the end of time.
Mark == IF sealed THEN 0 ELSE counter

\* Where the counter stands, asked first, and the list whole.
AskMark ==
  /\ Asking("mark") \/ (Asking("load") /\ kept.none)
  /\ mark' = Mark
  /\ pc' = "tree"
  /\ UNCHANGED <<server, conns, link, queued, backoff, kept, got, during, changes, faults>>

AskTree ==
  /\ Asking("tree") /\ Save(List, mark) /\ Returns(List)
  /\ UNCHANGED <<server, conns, link, queued, backoff, mark, changes, faults>>

\* The list planned against and applied: or the index, or a file, fails it.
Apply(ok) ==
  /\ pc = "apply" /\ (ok \/ MayFail)
  /\ IF ok THEN pc' = "idle" /\ backoff' = FALSE /\ UNCHANGED <<link, queued, mark, kept, got, during, faults>>
     ELSE Faults /\ Failed
  /\ UNCHANGED <<server, conns, changes>>

(***************************************************************************)
(* Faults.                                                                  *)
(***************************************************************************)

\* A connection lost; its watcher returns, and a link to it is found dead by
\* the next request, or by forget_closed.
Drop(c) ==
  /\ conns[c].open /\ Faults
  /\ conns' = [conns EXCEPT ![c].open = FALSE]
  /\ UNCHANGED <<server, daemon, changes>>

WatcherReturns(c) ==
  /\ ~conns[c].open /\ conns[c].at # "none" /\ link # c
  /\ conns' = [conns EXCEPT ![c] = Ended]
  /\ UNCHANGED <<server, daemon, changes, faults>>

ForgetClosed ==
  /\ pc = "idle" /\ link # NoLink /\ ~conns[link].open
  /\ link' = NoLink
  /\ UNCHANGED <<server, conns, queued, backoff, pc, mark, kept, got, during, changes, faults>>

\* The answering process is started again: the generation begins again, and
\* what was applied and not said is found by nobody.
ServerRestarts ==
  /\ Faults
  /\ generation' = 0 /\ unsaid' = FALSE /\ notifying' = FALSE
  /\ conns' = [c \in Conn |-> [conns[c] EXCEPT !.open = FALSE]]
  /\ UNCHANGED <<rows, counter, hidden, sealed, announced, quiet, daemon, changes>>

\* The asking process is started again, with the list it kept.
DaemonRestarts ==
  /\ Faults
  /\ conns' = [c \in Conn |-> Ended] /\ link' = NoLink
  /\ queued' = FALSE /\ backoff' = FALSE /\ pc' = "idle" /\ mark' = 0
  /\ got' = Nothing /\ during' = {}
  /\ UNCHANGED <<server, kept, changes>>

(***************************************************************************)
(* The specification.                                                       *)
(***************************************************************************)

Answering ==
  \/ \E k \in Key : Write(k) \/ Send(k) \/ Forget(k) \/ Entitle(k)
  \/ Bump \/ Notify \/ AnnounceDeliveries
  \/ \E c \in Conn : Look(c) \/ LookAgain(c) \/ Wake(c) \/ TimesOut(c)

Pass == Reach \/ Lost \/ AskSince \/ AskDigest \/ AskMark \/ AskTree \/ Apply(TRUE)

Asks == Hear \/ Tick \/ Arrival \/ Elapse \/ Pass \/ (\E ok \in BOOLEAN : Apply(ok)) \/ Unreachable \/ ForgetClosed

Fault ==
  \/ \E c \in Conn : Drop(c) \/ WatcherReturns(c)
  \/ ServerRestarts \/ DaemonRestarts

ListsNext == Answering \/ Asks \/ Fault

\* Both processes go on with what they have begun; no timer need ever fire.
Fairness ==
  /\ WF_listsVars(Bump) /\ WF_listsVars(Notify) /\ WF_listsVars(Hear) /\ WF_listsVars(Pass)
  /\ \A c \in Conn : /\ WF_listsVars(Look(c)) /\ WF_listsVars(LookAgain(c)) /\ WF_listsVars(Wake(c))
                     /\ WF_listsVars(WatcherReturns(c))

ListsSpec == ListsInit /\ [][ListsNext]_listsVars /\ Fairness

(***************************************************************************)
(* Properties.                                                              *)
(***************************************************************************)

\* Everything has its type, and no counter kept is one the other device has
\* not reached.
ListsTypeOK ==
  /\ rows \in [Key -> [version: Version, mark: 0..counter]] /\ counter \in Nat
  /\ kept.list \subseteq Key \X Version /\ kept.counter \in 0..counter
  /\ hidden \subseteq Key /\ quiet \subseteq Key /\ generation \in Nat
  /\ conns \in [Conn -> [open: BOOLEAN, at: {"none", "check", "registered", "asleep"},
                         seen: Nat, woken: BOOLEAN]]
  /\ link \in Conn \cup {NoLink}
  /\ pc \in {"idle", "reach", "load", "digest", "mark", "tree", "apply"}
  /\ {unsaid, notifying, announced, queued, backoff, sealed} \subseteq BOOLEAN

Read == INSTANCE ListRead WITH List <- Lists, list <- List

\* A pass plans against a list that was the other device's at some moment of
\* the pass, whether it was sent whole, rebuilt from what changed since a
\* counter, or found unchanged: never one put together of two moments, and
\* never the one kept when something was forgotten or hidden meanwhile.
ReadsAreCurrent == Read!Spec

\* An entry of the kept list is as new as the counter kept with it says:
\* what is sent since that counter is enough to bring it up to date.
KeptIsNotBehind ==
  \A e \in kept.list :
    rows[e[1]].version # 0 /\ ~kept.none /\ rows[e[1]].mark <= kept.counter
      => e[2] = rows[e[1]].version

\* On a connection that lasts, a change to the folder reaches the other
\* device's list without any timer, wherever in the waiting, the reading or
\* the restarting it falls: only what moves no generation waits for one.
Reflected == \A k \in Key \ quiet : \A v \in Version : <<k, v>> \in got <=> <<k, v>> \in List

ToldWhileListening == <>[](Listening /\ ~backoff) => <>[]Reflected

\* And with the timers, everything does, whatever connections were lost and
\* processes started again.
Converges == (WF_listsVars(Tick) /\ WF_listsVars(Elapse)) => <>[](got = List)

\* Does not hold (README, Divergences).
\* A device has one watcher of another.
OneWatcher == Cardinality({c \in Conn : conns[c].open /\ conns[c].at # "none"}) <= 1
=============================================================================
