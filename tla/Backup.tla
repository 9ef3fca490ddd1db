------------------------------- MODULE Backup -------------------------------
(***************************************************************************)
(* The folders of a phone that are backed up (decisions 0062 and 0063).    *)
(* They are ticked and unticked as a tree, on the phone or on the computer *)
(* that keeps its vault, each hearing the other's choices when it can.  A  *)
(* run lists each folder to be walked, lets go of what is no longer there, *)
(* and reads what is new; the files stay where they lie, and the computer  *)
(* collects them from there.                                               *)
(*                                                                         *)
(* Modelled: chosen.rs and the choices and outside sources of db.rs in     *)
(* crates/storage/src, keep_outside_folder and outside_gone in store.rs of *)
(* the same crate, back_up_chosen, back_up_whatsapp and keep_folder in     *)
(* crates/mobile-ffi/src/lib.rs, Request::Folders and Chosen in            *)
(* crates/peer/src/server.rs and choose_phone_folder in                    *)
(* crates/desktop/src/commands.rs.                                         *)
(*                                                                         *)
(* Data.  A content is the number of the edit that made it, 0 for none,    *)
(* and is its size and time as well: an edit they do not show is in Watch. *)
(* The folders are those choosable allows.  The network, off which backups *)
(* are not offered, is left out: the computer may read the phone's list    *)
(* late.  A choice is dated by the clock of the device it is made on; the  *)
(* computer's may be ahead of the phone's.                                 *)
(***************************************************************************)
EXTENDS Naturals, FiniteSets

CONSTANTS
    Folder,       \* folders of the phone's storage
    Inside,       \* the folders inside each
    WhatsApp,     \* WhatsApp's folder, which is not among the ticked ones
    BackupFile,   \* files in these folders
    FolderOf,     \* the folder each is in
    Media,        \* those of WhatsApp's that are kept when gone
    Bounds        \* bounds: choices made, edits and runs, each set of them apart,
                  \* and how far the computer's clock is ahead

ASSUME BackupAssumption ==
    /\ Inside \in [Folder -> SUBSET Folder] /\ WhatsApp \notin Folder
    /\ FolderOf \in [BackupFile -> Folder \cup {WhatsApp}]
    /\ Media \subseteq {f \in BackupFile : FolderOf[f] = WhatsApp}
    /\ Bounds \subseteq [choices: Nat, edits: Nat, runs: Nat, ahead: Nat]

VARIABLES
    choices,    \* own_choices on the phone, phone_choices on the computer
    folders,    \* own_folders on the phone, known_folders on the computer
    said,       \* the answer on its way to each
    last,       \* history: the last choice made of each folder, and of those
                \* before it the latest date
    place,      \* what is in each file's place
    outside,    \* the phone's row of each file, and where it is read from
    racy,       \* files too recent to trust when last recorded
    run,        \* the backup run
    listed,     \* the phone's list as the computer read it last
    keeps,      \* what the computer keeps of each file
    counted,    \* contents the phone has recorded the computer as keeping
    wasKept,    \* history: what a file that is gone was, if counted as kept
    strayed,    \* history: files let go of or recorded by half, or counted and
                \* dropped
    spent,      \* how much of each bound is used
    bound       \* the bounds of this behaviour

backupVars == <<choices, folders, said, last, place, outside, racy, run, listed, keeps,
                counted, wasKept, strayed, spent, bound>>
choiceVars == <<choices, folders, said, last>>
fileVars == <<place, outside, racy, run, listed, keeps, counted, wasKept, strayed>>

Side == {"phone", "computer"}
OtherSide(s) == IF s = "phone" THEN "computer" ELSE "phone"

-----------------------------------------------------------------------------
(* The tree of choices.  A choice made at 0 is none.                       *)

AtOrUnder(inner, outer) == inner = outer \/ inner \in Inside[outer]

\* backed_up: the deepest choice at or above a folder decides it.
Deciding(cs, f) == {g \in Folder : cs[g].at # 0 /\ AtOrUnder(f, g)}
BackedUp(cs, f) == \E g \in Deciding(cs, f) : cs[g].chosen /\ Deciding(cs, f) \cap Inside[g] = {}

\* roots: each ticked folder not inside another.
Ticked(cs) == {f \in Folder : cs[f].chosen}
Roots(cs) == {f \in Ticked(cs) : ~\E g \in Ticked(cs) : f \in Inside[g]}

\* choose_here, choose_folder: every choice inside is set the same way.
Swept(cs, f) == {g \in Folder : g = f \/ (g \in Inside[f] /\ cs[g].at # 0)}

\* now_ms, on this device.
NowAt(s) == spent.choices + 1 + (IF s = "computer" THEN bound.ahead ELSE 0)

Choose(s, f, chosen) ==
    /\ spent.choices < bound.choices
    /\ s = "computer" /\ chosen => f \in folders[s]
    /\ LET choice == [chosen |-> chosen, at |-> NowAt(s)]
           swept == Swept(choices[s], f)
       IN /\ choices' = [choices EXCEPT ![s] = [g \in Folder |-> IF g \in swept THEN choice ELSE @[g]]]
          /\ last' = [g \in Folder |->
                        IF g \notin swept THEN last[g]
                        ELSE [choice |-> choice,
                              before |-> IF last[g].choice.at > last[g].before
                                         THEN last[g].choice.at ELSE last[g].before]]
    /\ spent' = [spent EXCEPT !.choices = @ + 1]
    /\ UNCHANGED <<folders, said, fileVars>>

\* folder_summaries: those with a file somewhere beneath.
HasFiles(f) ==
    \E b \in BackupFile : place[b] # 0 /\ FolderOf[b] # WhatsApp /\ AtOrUnder(FolderOf[b], f)

\* set_own_folders: in place of those listed before.
ListFolders ==
    /\ folders' = [folders EXCEPT !["phone"] = {f \in Folder : HasFiles(f)}]
    /\ folders' # folders
    /\ UNCHANGED <<choices, said, last, fileVars, spent>>

\* Request::Folders, asked by the computer, and Chosen, asked by the phone.  An
\* answer with nothing new would change nothing, now or later.
AskChoices(s) ==
    /\ said[s] = {}
    /\ \/ choices["phone"] # choices["computer"]
       \/ s = "computer" /\ folders["phone"] # folders["computer"]
    /\ said' = [said EXCEPT ![s] = {[choices |-> choices[OtherSide(s)],
                                     folders |-> folders[OtherSide(s)]]}]
    /\ UNCHANGED <<choices, folders, last, fileVars, spent>>

\* merge_choices_here, merge_choices_for: taken where later than what is here.
AnyOf(mine, theirs) == [f \in Folder |-> IF theirs[f].at # 0 THEN theirs[f] ELSE mine[f]]
LaterOf(mine, theirs) ==
    [f \in Folder |-> IF theirs[f].at > mine[f].at THEN theirs[f] ELSE mine[f]]

\* set_known_folders: the computer has the phone's as it just said.
HeardFolders(s, answer) ==
    IF s = "computer" THEN [folders EXCEPT ![s] = answer.folders] ELSE folders

\* The answer comes, and each half of it is written, or fails to be; with
\* neither, it came too late.
HearChoices(s) ==
    /\ \E answer \in said[s] :
         /\ choices' \in {choices, [choices EXCEPT ![s] = LaterOf(@, answer.choices)]}
         /\ folders' \in {folders, HeardFolders(s, answer)}
    /\ said' = [said EXCEPT ![s] = {}]
    /\ UNCHANGED <<last, fileVars, spent>>

-----------------------------------------------------------------------------
(* The files, and the runs.                                                *)

Edit(f) ==
    /\ spent.edits < bound.edits
    /\ place' = [place EXCEPT ![f] = spent.edits + 1]
    /\ wasKept' = [wasKept EXCEPT ![f] = 0]
    /\ spent' = [spent EXCEPT !.edits = @ + 1]
    /\ UNCHANGED <<choiceVars, outside, racy, run, listed, keeps, counted, strayed>>

Remove(f) ==
    /\ place[f] # 0
    /\ place' = [place EXCEPT ![f] = 0]
    /\ wasKept' = [wasKept EXCEPT ![f] =
                     IF outside[f].content = place[f] /\ place[f] \in counted
                        /\ (FolderOf[f] = WhatsApp => f \in Media)
                     THEN place[f] ELSE 0]
    /\ UNCHANGED <<choiceVars, outside, racy, run, listed, keeps, counted, strayed, spent>>

\* In a folder being walked, and those to be taken from it.
Within(r) == {r} \cup (IF r \in Folder THEN Inside[r] ELSE {})
Beneath(r) == {f \in BackupFile : FolderOf[f] \in Within(r)}
Taken(r, cs) == {f \in Beneath(r) : r = WhatsApp \/ BackedUp(cs, FolderOf[f])}

\* walk_files: a folder that cannot be read has nothing in it.
Hidden(f, closed) == \E g \in closed : FolderOf[f] \in Within(g)
AsTheyLie(fs) == [f \in fs |-> place[f]]
Listing(fs, closed) == AsTheyLie({f \in fs : place[f] # 0 /\ ~Hidden(f, closed)})

\* back_up_chosen begins, with the choices as they are; back_up_whatsapp, with
\* a listing the app has made.
StartRun(todo) ==
    /\ run = {} /\ spent.runs < bound.runs /\ todo # {}
    /\ run' = {[choices |-> choices["phone"], todo |-> todo, at |-> {}, listing |-> <<>>,
                slice |-> FALSE, letting |-> {}, work |-> {}, read |-> <<>>, noting |-> {},
                unreadable |-> {}]}
    /\ spent' = [spent EXCEPT !.runs = @ + 1]
    /\ UNCHANGED <<choiceVars, place, outside, racy, listed, keeps, counted, wasKept, strayed>>

ListFolder(r, closed) ==
    \E now \in run :
      /\ now.at = {} /\ r \in now.todo
      /\ run' = {[now EXCEPT !.at = {r}, !.todo = @ \ {r}, !.unreadable = {},
                             !.listing = Listing(Taken(r, now.choices), closed)]}
      /\ UNCHANGED <<choiceVars, place, outside, racy, listed, keeps, counted, wasKept, strayed, spent>>

\* keep_outside_folder: rows read from a place that is no longer listed.
NotListed(now) ==
    {f \in UNION {Beneath(r) : r \in now.at} : outside[f].source # 0 /\ f \notin DOMAIN now.listing}

\* outside_gone: it is no longer read there ...
ForgetSource(f) ==
    \E now \in run :
      /\ ~now.slice /\ now.letting = {} /\ f \in NotListed(now)
      /\ outside' = [outside EXCEPT ![f].source = 0]
      /\ run' = {[now EXCEPT !.letting = {f}]}
      /\ UNCHANGED <<choiceVars, place, racy, listed, keeps, counted, wasKept, strayed, spent>>

\* ... and stays listed if the computer is known to keep it, or is deleted.
StaysAnyway(f) == FolderOf[f] = WhatsApp => f \in Media
StaysListed(f) ==
    /\ FolderOf[f] = WhatsApp => f \in Media
    /\ outside[f].content \in counted

LetGo(f) ==
    \E now \in run :
      /\ f \in now.letting
      /\ outside' = IF StaysListed(f) THEN outside ELSE [outside EXCEPT ![f].content = 0]
      /\ run' = {[now EXCEPT !.letting = {}]}
      /\ UNCHANGED <<choiceVars, place, racy, listed, keeps, counted, wasKept, strayed, spent>>

\* Then what is new or changed, by size and time, or too recent to go by them,
\* is set down to be read, for a slice of a few seconds.
ToRead(now) ==
    {f \in DOMAIN now.listing \ now.unreadable : outside[f].source # now.listing[f] \/ f \in racy}

StartSlice ==
    \E now \in run :
      /\ now.at # {} /\ ~now.slice /\ now.letting = {} /\ NotListed(now) = {}
      /\ run' = {[now EXCEPT !.slice = TRUE, !.work = ToRead(now)]}
      /\ UNCHANGED <<choiceVars, place, outside, racy, listed, keeps, counted, wasKept, strayed, spent>>

\* The files of a batch are read through, all before any is recorded; some
\* cannot be, and are not tried again in this run.
ReadBatch(batch, failing) ==
    \E now \in run :
      /\ now.slice /\ DOMAIN now.read \cup now.noting = {}
      /\ batch # {} /\ batch \subseteq now.work
      /\ failing \subseteq batch /\ \A f \in batch \ failing : place[f] # 0
      /\ run' = {[now EXCEPT !.work = @ \ batch, !.read = AsTheyLie(batch \ failing),
                             !.unreadable = @ \cup failing]}
      /\ UNCHANGED <<choiceVars, place, outside, racy, listed, keeps, counted, wasKept, strayed, spent>>

\* record_outside: the row is written ...
Rest(now, f) == [g \in DOMAIN now.read \ {f} |-> now.read[g]]

Record(f) ==
    \E now \in run :
      /\ now.noting = {} /\ f \in DOMAIN now.read
      /\ outside' = [outside EXCEPT ![f].content = now.read[f]]
      /\ run' = {[now EXCEPT !.read = Rest(now, f), !.noting = {f}]}
      /\ UNCHANGED <<choiceVars, place, racy, listed, keeps, counted, wasKept, strayed, spent>>

\* ... and then, note_outside_source, where it is read, of what size and time;
\* and, set_racy, whether that was a moment ago.
NoteSource(f) ==
    \E now \in run :
      /\ f \in now.noting
      /\ outside' = [outside EXCEPT ![f].source = now.listing[f]]
      /\ racy' \in {racy \cup {f}, racy \ {f}}
      /\ strayed' = IF outside[f].content \in counted THEN strayed ELSE strayed \ {f}
      /\ run' = {[now EXCEPT !.noting = {}]}
      /\ UNCHANGED <<choiceVars, place, listed, keeps, counted, wasKept, spent>>

\* Either half fails.
RecordFails(f) ==
    \E now \in run :
      /\ f \in now.noting \/ (now.noting = {} /\ f \in DOMAIN now.read)
      /\ strayed' = strayed \cup now.noting
      /\ run' = {[now EXCEPT !.read = Rest(now, f), !.noting = {}, !.unreadable = @ \cup {f}]}
      /\ UNCHANGED <<choiceVars, place, outside, racy, listed, keeps, counted, wasKept, spent>>

\* The slice is over with files left, and another follows ...
NextSlice ==
    \E now \in run :
      /\ now.slice /\ DOMAIN now.read \cup now.noting = {} /\ now.work # {}
      /\ run' = {[now EXCEPT !.slice = FALSE, !.work = {}]}
      /\ UNCHANGED <<choiceVars, place, outside, racy, listed, keeps, counted, wasKept, strayed, spent>>

\* ... or keep_folder returns: none is left, or the time is up.
FolderDone(inTime) ==
    \E now \in run :
      /\ now.slice /\ DOMAIN now.read \cup now.noting = {}
      /\ inTime => now.work = {}
      /\ run' = IF inTime /\ now.todo # {}
                THEN {[now EXCEPT !.at = {}, !.listing = <<>>, !.slice = FALSE]} ELSE {}
      /\ UNCHANGED <<choiceVars, place, outside, racy, listed, keeps, counted, wasKept, strayed, spent>>

\* The app is stopped, perhaps between the two halves of outside_gone or of
\* record_outside; a half of outside_gone that fails ends the run as well.
AppStopped ==
    /\ run # {} /\ run' = {}
    /\ strayed' = strayed \cup UNION {now.letting \cup now.noting : now \in run}
    /\ UNCHANGED <<choiceVars, place, outside, racy, listed, keeps, counted, wasKept, spent>>

-----------------------------------------------------------------------------
(* The computer that keeps the vault.                                      *)

ReadsList ==
    /\ listed' = [f \in BackupFile |-> outside[f].content] /\ listed' # listed
    /\ UNCHANGED <<choiceVars, place, outside, racy, run, keeps, counted, wasKept, strayed, spent>>

\* chunk_from_outside: read where it lies, if that is still what it was.
Supplies(f, c) == outside[f].content = c /\ outside[f].source # 0 /\ place[f] = c

Collects(f) ==
    /\ listed[f] # 0 /\ keeps[f] # listed[f] /\ Supplies(f, listed[f])
    /\ keeps' = [keeps EXCEPT ![f] = listed[f]]
    /\ UNCHANGED <<choiceVars, place, outside, racy, run, listed, counted, wasKept, strayed, spent>>

Drops(f) ==
    /\ listed[f] = 0 /\ keeps[f] # 0
    /\ keeps' = [keeps EXCEPT ![f] = 0]
    /\ strayed' = IF keeps[f] \in counted THEN strayed \cup {f} ELSE strayed
    /\ UNCHANGED <<choiceVars, place, outside, racy, run, listed, counted, wasKept, spent>>

\* It says so, or is asked.
Says(f) ==
    /\ keeps[f] # 0 /\ keeps[f] \notin counted
    /\ counted' = counted \cup {keeps[f]}
    /\ UNCHANGED <<choiceVars, place, outside, racy, run, listed, keeps, wasKept, strayed, spent>>

-----------------------------------------------------------------------------

BackupInit(bounds) ==
    /\ choices = [s \in Side |-> [f \in Folder |-> [chosen |-> FALSE, at |-> 0]]]
    /\ folders = [s \in Side |-> {}] /\ said = [s \in Side |-> {}]
    /\ last = [f \in Folder |-> [choice |-> [chosen |-> FALSE, at |-> 0], before |-> 0]]
    /\ place = [f \in BackupFile |-> 0]
    /\ outside = [f \in BackupFile |-> [content |-> 0, source |-> 0]] /\ racy = {}
    /\ run = {} /\ counted = {} /\ strayed = {}
    /\ listed = [f \in BackupFile |-> 0] /\ keeps = [f \in BackupFile |-> 0]
    /\ wasKept = [f \in BackupFile |-> 0]
    /\ spent = [choices |-> 0, edits |-> 0, runs |-> 0] /\ bound \in bounds

Choosing ==
    \/ \E s \in Side : AskChoices(s) \/ HearChoices(s)
                         \/ \E f \in Folder, chosen \in BOOLEAN : Choose(s, f, chosen)
    \/ ListFolders

Running ==
    \/ StartRun(Roots(choices["phone"])) \/ StartRun({WhatsApp})
    \/ \E r \in Folder \cup {WhatsApp} : \E closed \in SUBSET Within(r) : ListFolder(r, closed)
    \/ \E f \in BackupFile : ForgetSource(f) \/ LetGo(f)
    \/ StartSlice \/ NextSlice
    \/ \E batch \in SUBSET BackupFile : \E failing \in SUBSET batch : ReadBatch(batch, failing)
    \/ \E f \in BackupFile : Record(f) \/ NoteSource(f) \/ RecordFails(f)
    \/ \E inTime \in BOOLEAN : FolderDone(inTime)
    \/ AppStopped

BackupNext ==
    /\ \/ Choosing \/ Running \/ ReadsList
       \/ \E f \in BackupFile : Edit(f) \/ Remove(f) \/ Collects(f) \/ Drops(f) \/ Says(f)
    /\ UNCHANGED bound

-----------------------------------------------------------------------------

\* The last choice made of a folder is not lost, however old the answers are
\* that the phone and the computer hear meanwhile: one of them has it.  Left
\* out is one made by a clock that was behind that of a choice before it.
LastChoiceStands ==
    \A f \in Folder :
      last[f].choice.at > last[f].before => \E s \in Side : choices[s][f] = last[f].choice

\* A file the computer keeps stays there when it goes from the phone, or its
\* folder cannot be read or is unticked; and one that is listed and no longer
\* read on the phone is kept by the computer.  Left out are files let go of
\* by half, and those counted as kept whose deletion the computer had read:
\* the record stays when it drops them (README, Divergences).
KeptWhenGone ==
    \A f \in BackupFile :
      /\ wasKept[f] # 0 => outside[f].content = wasKept[f]
      /\ outside[f].content # 0 /\ outside[f].source = 0 =>
           \/ keeps[f] = outside[f].content
           \/ f \in strayed \/ \E now \in run : f \in now.letting \cup now.noting
=============================================================================
