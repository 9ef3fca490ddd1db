------------------------------- MODULE Fetch -------------------------------
(***************************************************************************)
(* Content taken from another device, over a connection that may end at    *)
(* any moment: a large file a chunk at a time into a file beside its       *)
(* place, carried on from there by the next attempt, whatever version that *)
(* is of; small ones ahead of being asked for, several at once.            *)
(*                                                                         *)
(* Modelled: fetch_content, resume_point and fetch_rest in                 *)
(* crates/peer/src/client.rs, NetworkSource in source.rs of the same crate *)
(* and the loop of apply_plan and bring_in in crates/engine/src/peer.rs    *)
(* that drive it.                                                          *)
(*                                                                         *)
(* Data.  A content is its list of chunks, Manifest; a chunk is what it is *)
(* the hash of, Cut one of which only part was written, or the end of a    *)
(* file that ends in the middle of one.  Chunk boundaries are chosen by    *)
(* the bytes, so a file that is a prefix is the same chunks up to the last.*)
(***************************************************************************)
EXTENDS Naturals, Sequences, FiniteSets
Seqs == INSTANCE SequencesExt

CONSTANTS
    Name,          \* the paths of the files taken
    Chunk, Cut,
    Manifest,      \* the chunks of each content
    Small,         \* the contents no larger than SMALL
    IN_FLIGHT,     \* chunks asked for at once
    AHEAD,         \* small files fetched at once
    MaxChanges     \* bound: changes at the other device

ASSUME FetchAssumption ==
    /\ Cut \notin Chunk /\ \A c \in DOMAIN Manifest : Manifest[c] \in Seq(Chunk)
    /\ Small \subseteq DOMAIN Manifest /\ IsFiniteSet(Name)
    /\ IN_FLIGHT \in Nat \ {0} /\ AHEAD \in Nat \ {0} /\ MaxChanges \in Nat


Offers == [Name -> DOMAIN Manifest]
NoFile == <<>>

VARIABLES
    offers,     \* the content the other device has of each file
    changes,
    linked,     \* whether the connection lasts
    steps,      \* the actions of the plan still to be taken
    ahead,      \* small contents the plan will ask for, in order
    ready,      \* those fetched ahead
    staged,     \* what is in the file beside each place
    fetch,      \* the fetch going on: at most one
    file,       \* the chunks of the file in each place
    is          \* the content it was placed as

fetchVars == <<offers, changes, linked, steps, ahead, ready, staged, fetch, file, is>>
NoFetch == [at |-> "none"]

-----------------------------------------------------------------------------
(* The other device.                                                       *)

Serves(c) == \E n \in Name : offers[n] = c

ServesChunk(h) == \E n \in Name : \E i \in DOMAIN Manifest[offers[n]] : Manifest[offers[n]][i] = h

OtherChanges(n, c) ==
    /\ changes < MaxChanges /\ c # offers[n]
    /\ changes' = changes + 1
    /\ offers' = [offers EXCEPT ![n] = c]
    /\ UNCHANGED <<linked, steps, ahead, ready, staged, fetch, file, is>>

-----------------------------------------------------------------------------
(* The plan.                                                               *)

\* apply_plan: the source is told what will be asked for.
BeginPlan ==
    /\ steps = <<>> /\ fetch = NoFetch
    /\ LET missing == {n \in Name : is[n] # offers[n]}
       IN /\ missing # {}
          /\ \E order \in [1..Cardinality(missing) -> missing] :
               /\ \A i, j \in DOMAIN order : order[i] = order[j] => i = j
               /\ steps' = [i \in DOMAIN order |-> [name |-> order[i], content |-> offers[order[i]]]]
               /\ ahead' = SelectSeq([i \in DOMAIN order |-> offers[order[i]]],
                                     LAMBDA c : c \in Small)
    /\ linked' = TRUE /\ ready' = {}
    /\ UNCHANGED <<offers, changes, staged, fetch, file, is>>

\* The device has gone: what would come from it is left.
LeaveStep ==
    /\ fetch = NoFetch /\ steps # <<>> /\ ~linked
    /\ steps' = Tail(steps)
    /\ UNCHANGED <<offers, changes, linked, ahead, ready, staged, fetch, file, is>>

\* bring_in: content already here costs no transfer.
CanRead(c) == \E n \in Name : is[n] = c

TakeStep ==
    /\ fetch = NoFetch /\ steps # <<>> /\ linked
    /\ LET s == Head(steps)
       IN fetch' = [at |-> IF CanRead(s.content) THEN "here" ELSE "coming",
                    name |-> s.name, content |-> s.content, next |-> 0, whole |-> <<>>, flight |-> <<>>]
    /\ steps' = Tail(steps)
    /\ UNCHANGED <<offers, changes, linked, ahead, ready, staged, file, is>>

CopyHere ==
    /\ fetch.at = "here"
    /\ staged' = [staged EXCEPT ![fetch.name] = Manifest[fetch.content]]
    /\ fetch' = [fetch EXCEPT !.at = "whole"]
    /\ UNCHANGED <<offers, changes, linked, steps, ahead, ready, file, is>>

-----------------------------------------------------------------------------
(* Small files, fetched ahead.                                             *)

\* The batch: those before it were asked for already, or not needed; content
\* here is not asked for.
From(c) == SubSeq(ahead, CHOOSE i \in DOMAIN ahead : ahead[i] = c /\ \A j \in 1..(i - 1) : ahead[j] # c,
                  Len(ahead))
Batch(c) == {From(c)[i] : i \in {j \in 1..AHEAD : /\ j \in DOMAIN From(c)
                                                  /\ From(c)[j] = c \/ ~CanRead(From(c)[j])}}

\* fetched_ahead, when it is not ready: each comes whole or fails alone, and
\* one that failed is fetched on its own.
FetchAhead ==
    /\ fetch.at = "coming" /\ fetch.content \notin ready /\ fetch.content \in Seqs!ToSet(ahead)
    /\ \E came \in SUBSET {c \in Batch(fetch.content) : linked /\ Serves(c)} :
         /\ ready' = ready \cup came
         /\ fetch' = IF fetch.content \in came THEN fetch ELSE [fetch EXCEPT !.at = "alone"]
    /\ ahead' = SubSeq(From(fetch.content), AHEAD + 1, Len(From(fetch.content)))
    /\ UNCHANGED <<offers, changes, linked, steps, staged, file, is>>

\* resume_into: one that is ready is written whole.
TakeReady ==
    /\ fetch.at = "coming" /\ fetch.content \in ready
    /\ ready' = ready \ {fetch.content}
    /\ staged' = [staged EXCEPT ![fetch.name] = Manifest[fetch.content]]
    /\ fetch' = [fetch EXCEPT !.at = "whole"]
    /\ UNCHANGED <<offers, changes, linked, steps, ahead, file, is>>

\* Neither ready nor among those to fetch ahead: fetched on its own.
Alone ==
    \/ fetch.at = "alone"
    \/ fetch.at = "coming" /\ fetch.content \notin ready \cup Seqs!ToSet(ahead)

-----------------------------------------------------------------------------
(* A fetch carried on from what an earlier one left.                       *)

\* resume_point: how many chunks of what is there the content starts with.
Counted(there, wanted) == IF Len(there) < Len(wanted) THEN Len(there) ELSE Len(wanted)
Matching(there, wanted) ==
    LET agree == {k \in 0..Len(there) : k <= Len(wanted) /\ \A i \in 1..k : there[i] = wanted[i]}
    IN CHOOSE k \in agree : \A j \in agree : j <= k

\* Those are kept, hashed for the check of the whole, the rest cut off.
ResumePoint ==
    /\ Alone /\ linked /\ Serves(fetch.content)
    /\ LET there == staged[fetch.name]
           kept  == SubSeq(there, 1, Matching(there, Manifest[fetch.content]))
       IN /\ staged' = [staged EXCEPT ![fetch.name] = kept]
          /\ fetch' = [fetch EXCEPT !.at = "fetching", !.next = Len(kept), !.whole = kept]
    /\ UNCHANGED <<offers, changes, linked, steps, ahead, ready, file, is>>

\* chunk_bytes: from a file here that has it, or asked for.
HasChunk(h) == \E n \in Name : \E i \in DOMAIN file[n] : file[n][i] = h

AskChunk ==
    /\ fetch.at = "fetching" /\ Len(fetch.flight) < IN_FLIGHT /\ fetch.next < Len(Manifest[fetch.content])
    /\ LET h == Manifest[fetch.content][fetch.next + 1]
       IN fetch' = [fetch EXCEPT !.next = @ + 1,
                      !.flight = Append(@, [hash |-> h, bytes |-> IF HasChunk(h) THEN h ELSE "asked"])]
    /\ UNCHANGED <<offers, changes, linked, steps, ahead, ready, staged, file, is>>

\* The answers come in any order: the chunk, none, or damaged.
ChunkComes(i) ==
    /\ fetch.at = "fetching" /\ i \in DOMAIN fetch.flight /\ fetch.flight[i].bytes = "asked" /\ linked
    /\ \E bytes \in {"none", "damaged"} \cup {h \in {fetch.flight[i].hash} : ServesChunk(h)} :
         fetch' = [fetch EXCEPT !.flight[i].bytes = bytes]
    /\ UNCHANGED <<offers, changes, linked, steps, ahead, ready, staged, file, is>>

\* Written in order; one that is not what was asked for ends the fetch.
Checked(f) == f.bytes = f.hash
Writing == fetch.at = "fetching" /\ fetch.flight # <<>> /\ Checked(Head(fetch.flight))

WriteChunk ==
    /\ Writing
    /\ staged' = [staged EXCEPT ![fetch.name] = Append(@, Head(fetch.flight).bytes)]
    /\ fetch' = [fetch EXCEPT !.flight = Tail(@), !.whole = Append(@, Head(fetch.flight).bytes)]
    /\ UNCHANGED <<offers, changes, linked, steps, ahead, ready, file, is>>

\* The whole is what was asked for.
AllWritten ==
    /\ fetch.at = "fetching" /\ fetch.flight = <<>> /\ fetch.next = Len(Manifest[fetch.content])
    /\ fetch.whole = Manifest[fetch.content]
    /\ fetch' = [fetch EXCEPT !.at = "whole"]
    /\ UNCHANGED <<offers, changes, linked, steps, ahead, ready, staged, file, is>>

\* Gone, no chunk or a damaged one: what was written is left for the next
\* attempt.
FetchFails ==
    /\ IF fetch.at = "fetching"
       THEN ~linked \/ (fetch.flight # <<>> /\ Head(fetch.flight).bytes \in {"none", "damaged"})
       ELSE Alone /\ ~linked
    /\ fetch' = NoFetch
    /\ UNCHANGED <<offers, changes, linked, steps, ahead, ready, staged, file, is>>

\* Not held: one that is not here is recorded as elsewhere, and what was
\* written thrown away, unless somebody asked for it.
NotHeld ==
    /\ Alone /\ linked /\ ~Serves(fetch.content)
    /\ \E asked \in BOOLEAN :
         staged' = IF is[fetch.name] = "none" /\ ~asked THEN [staged EXCEPT ![fetch.name] = NoFile] ELSE staged
    /\ fetch' = NoFetch
    /\ UNCHANGED <<offers, changes, linked, steps, ahead, ready, file, is>>

\* Writing failed, within a chunk.
WriteFails ==
    /\ Writing
    /\ staged' = [staged EXCEPT ![fetch.name] = Append(@, Cut)]
    /\ fetch' = NoFetch
    /\ UNCHANGED <<offers, changes, linked, steps, ahead, ready, file, is>>

-----------------------------------------------------------------------------
(* Placed.                                                                 *)

Place ==
    /\ fetch.at = "whole"
    /\ file' = [file EXCEPT ![fetch.name] = staged[fetch.name]]
    /\ is' = [is EXCEPT ![fetch.name] = fetch.content]
    /\ staged' = [staged EXCEPT ![fetch.name] = NoFile]
    /\ fetch' = NoFetch
    /\ UNCHANGED <<offers, changes, linked, steps, ahead, ready>>

\* It cannot be put in its place: what was written is thrown away.
PlaceFails ==
    /\ fetch.at = "whole"
    /\ staged' = [staged EXCEPT ![fetch.name] = NoFile]
    /\ fetch' = NoFetch
    /\ UNCHANGED <<offers, changes, linked, steps, ahead, ready, file, is>>

PlanDone ==
    /\ steps = <<>> /\ fetch = NoFetch /\ (ready # {} \/ ahead # <<>>)
    /\ ready' = {} /\ ahead' = <<>>
    /\ UNCHANGED <<offers, changes, linked, steps, staged, fetch, file, is>>

LinkEnds ==
    /\ linked
    /\ linked' = FALSE
    /\ UNCHANGED <<offers, changes, steps, ahead, ready, staged, fetch, file, is>>

\* The process is killed, perhaps within a chunk: only files are left.
Killed ==
    /\ fetch # NoFetch
    /\ fetch' = NoFetch /\ steps' = <<>> /\ ahead' = <<>> /\ ready' = {} /\ linked' = FALSE
    /\ \E within \in BOOLEAN :
         staged' = IF within /\ Writing THEN [staged EXCEPT ![fetch.name] = Append(@, Cut)] ELSE staged
    /\ UNCHANGED <<offers, changes, file, is>>

-----------------------------------------------------------------------------

FetchInit(o) ==
    /\ offers = o /\ changes = 0 /\ linked = FALSE
    /\ steps = <<>> /\ ahead = <<>> /\ ready = {} /\ fetch = NoFetch
    /\ staged = [n \in Name |-> NoFile] /\ file = [n \in Name |-> NoFile] /\ is = [n \in Name |-> "none"]

Fetching ==
    \/ ResumePoint \/ AskChunk \/ WriteChunk \/ AllWritten \/ FetchFails \/ NotHeld \/ WriteFails
    \/ \E i \in 1..IN_FLIGHT : ChunkComes(i)

FetchNext ==
    \/ BeginPlan \/ LeaveStep \/ TakeStep \/ CopyHere \/ FetchAhead \/ TakeReady \/ Fetching
    \/ Place \/ PlaceFails \/ PlanDone \/ LinkEnds \/ Killed
    \/ \E n \in Name, c \in DOMAIN Manifest : OtherChanges(n, c)

-----------------------------------------------------------------------------

\* Whatever an attempt was cut off at, and of whatever version, what is kept
\* of it and hashed is what is in the file and what the content asked for
\* starts with: so a fetch carried on ends as the whole content, and every
\* file in place is whole, whatever it was made of.  (Peer::resume_point and
\* fetch_rest, and the placing by bring_in of what they wrote.)
CarriedOn ==
    /\ fetch.at = "fetching" =>
         /\ fetch.whole = staged[fetch.name]
         /\ Seqs!IsPrefix(fetch.whole, Manifest[fetch.content])
    /\ \A n \in Name : is[n] # "none" => file[n] = Manifest[is[n]]
=============================================================================
