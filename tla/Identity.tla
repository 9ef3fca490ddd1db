------------------------------ MODULE Identity ------------------------------
(***************************************************************************)
(* A phone keeps one identity, however often it is set up (decision 0079). *)
(* It joins under a passing certificate and a device id made at random;    *)
(* tells each of the person's computers which permanent certificate it is  *)
(* becoming; is told which device it was, if it was known before; and      *)
(* takes the permanent certificate over.                                   *)
(*                                                                         *)
(* Modelled: become_permanent and what it calls in                         *)
(* crates/mobile-ffi/src/lib.rs, Request::Become and the serving loop in   *)
(* crates/peer/src/server.rs, identity.rs and tls.rs of the same crate,    *)
(* refresh_trust in crates/qurb/src/daemon.rs, and the tables of peers,    *)
(* the local device and its counter in crates/storage/src/db.rs.           *)
(*                                                                         *)
(* Data.  The k-th time the phone is set up its device id is k and its     *)
(* passing certificate k; the permanent one is 0.  The phone is always     *)
(* called the same, so the rules by install and by name of became_among    *)
(* both fit; the person says nothing of their devices.  A time is how many *)
(* pairings had been made by then.                                         *)
(***************************************************************************)
EXTENDS Naturals, FiniteSets

CONSTANTS
    Computer,      \* the person's own computers
    MaxSetUps,     \* bound: times the phone is set up
    MaxPairings,   \* bound: pairings and pairings again, by how many computers
    MaxRemovals    \* bound: devices removed at computers

ASSUME IdentityBounds ==
    /\ MaxSetUps \in Nat \ {0} /\ MaxRemovals \in Nat
    /\ IsFiniteSet(Computer) /\ MaxPairings \in [0..Cardinality(Computer) -> Nat]

Device == 1..MaxSetUps
Permanent == 0
NoDevice == 0

VARIABLES
    home,        \* the computers there are
    setups,      \* how many times the phone was set up
    me,          \* the phone's device id
    print,       \* the certificate in its store
    made,        \* whether anything was made in its store
    told,        \* the computers it noted as having taken its identity
    own,         \* its computers
    recent,      \* those of them it has seen in the last month
    as,          \* the certificate this pass connects with
    doing,       \* where it is in become_permanent
    peers,       \* the devices each computer trusts
    same,        \* which device each computer was told an older one is
    trust,       \* the certificates each computer's listener accepts
    pairings,    \* pairings made
    removals,
    removed,     \* history: where a device was removed that had not become
                 \* another, or that another had become
    upset        \* history: where an answer was lost, the phone stopped, or
                 \* was removed, since it was last paired there

phone == <<home, setups, me, print, made, told, own, recent, as, doing>>
computers == <<peers, same, trust, pairings>>
identityVars == <<phone, computers, removals, removed, upset>>

Idle == [at |-> "idle"]

-----------------------------------------------------------------------------
(* The trust store of a computer.                                          *)

\* peer_by_fingerprint.
KnownBy(c, f) == {p \in peers[c] : p.print = f}

Row(c, d) == {p \in peers[c] : p.id = d}

Prints(rows) == {p.print : p \in rows}

\* trust_peer: one row for each device id, which keeps its paired_at.
\* Certificates are unique: another row holding it fails the pairing.
KeptAsPaired(c, d, f) ==
    peers[c] \cup IF Row(c, d) = {} THEN {[id |-> d, print |-> f, paired |-> pairings + 1, seen |-> 0]} ELSE {}
Trusted(c, d, f) ==
    (peers[c] \ Row(c, d)) \cup
    IF Row(c, d) = {} THEN {[id |-> d, print |-> f, paired |-> pairings + 1, seen |-> 0]}
    ELSE {[p EXCEPT !.print = f] : p \in Row(c, d)}

\* became_among, for a device nothing was said of: one paired after it,
\* before which it was last seen, that is itself nobody's earlier self.
PairedLater(c, old, p) ==
    p.id # old.id /\ p.paired > old.paired /\ old.seen < p.paired
Fits(c, old, p) == PairedLater(c, old, p) /\ same[c][p.id] = NoDevice

\* became: what was said, or the first paired that fits.
Became(c, old) ==
    IF same[c][old.id] # NoDevice
    THEN {p \in peers[c] : p.id = same[c][old.id]}
    ELSE {p \in peers[c] : /\ Fits(c, old, p)
                           /\ \A q \in peers[c] : Fits(c, old, q) => p.paired <= q.paired}

\* earlier_selves and the lists: devices that did not become another.
Current(c) == {p \in peers[c] : Became(c, p) = {}}

-----------------------------------------------------------------------------
(* Pairing, connecting and being removed.                                  *)

\* The phone is paired, or paired again, with one of the person's computers,
\* under the certificate in its store.
PairWith(c) ==
    /\ doing = Idle /\ pairings < MaxPairings[Cardinality(home)]
    /\ \A p \in peers[c] : p.print = print => p.id = me
    /\ peers' = [peers EXCEPT ![c] = Trusted(c, me, print)]
    /\ pairings' = pairings + 1
    /\ own' = own \cup {c}
    /\ upset' = upset \ {c}
    /\ UNCHANGED <<home, setups, me, print, made, told, recent, as, doing, same, trust, removals, removed>>

\* A pass begins: the endpoint is made with the identity in the store.
BeginPass ==
    /\ doing = Idle /\ as # print
    /\ as' = print
    /\ UNCHANGED <<home, setups, me, print, made, told, own, recent, doing, computers, removals, removed, upset>>

\* TrustList::contains: an unknown certificate has the store read again.
Admitted(c) == IF as \in trust[c] THEN trust[c] ELSE Prints(peers[c])

\* A computer is reached, which the phone notes; mark_peer_seen.
Reach(c) ==
    /\ doing = Idle /\ c \in own
    /\ as \in Admitted(c)
    /\ trust' = [trust EXCEPT ![c] = Admitted(c)]
    /\ recent' = recent \cup {c}
    /\ doing' = [at |-> "reached", c |-> c]
    /\ UNCHANGED <<home, setups, me, print, made, told, own, as, peers, same, pairings, removals, removed, upset>>

\* The computer's own daemon syncs with the phone, and notes it seen.
SyncedBy(c) ==
    /\ KnownBy(c, as) # {}
    /\ peers' = [peers EXCEPT ![c] =
                   {IF p.print = as THEN [p EXCEPT !.seen = pairings] ELSE p : p \in @}]
    /\ peers' # peers
    /\ UNCHANGED <<phone, same, trust, pairings, removals, removed, upset>>

\* refresh_trust, on a timer.
RefreshTrust(c) ==
    /\ trust[c] # Prints(peers[c])
    /\ trust' = [trust EXCEPT ![c] = Prints(peers[c])]
    /\ UNCHANGED <<phone, peers, same, pairings, removals, removed, upset>>

\* forget_peer, by the person at the computer.  What it was told of that
\* device stays.
Removed(c, d) ==
    /\ Row(c, d) # {} /\ removals < MaxRemovals
    /\ removals' = removals + 1
    /\ peers' = [peers EXCEPT ![c] = @ \ Row(c, d)]
    /\ upset' = IF \E p \in Row(c, d) : d = me \/ p.print = Permanent
                THEN upset \cup {c} ELSE upset
    /\ removed' = IF Row(c, d) \subseteq Current(c) \cup UNION {Became(c, p) : p \in peers[c]}
                  THEN removed \cup {c} ELSE removed
    /\ UNCHANGED <<phone, same, trust, pairings>>

MonthPasses ==
    /\ recent # {} /\ doing = Idle
    /\ recent' = {}
    /\ UNCHANGED <<home, setups, me, print, made, told, own, as, doing, computers, removals, removed, upset>>

\* The app's data is cleared, or it is installed again.
SetUpAgain ==
    /\ home # {} /\ setups < MaxSetUps
    /\ setups' = setups + 1 /\ me' = setups + 1 /\ print' = setups + 1 /\ as' = setups + 1
    /\ made' = FALSE /\ told' = {} /\ own' = {} /\ recent' = {} /\ doing' = Idle
    /\ UNCHANGED <<home, computers, removals, removed, upset>>

-----------------------------------------------------------------------------
(* become_permanent, in a pass that reached a computer.                    *)

\* Request::Become.  A device that is the permanent one already is told its
\* id, a known one is what the asking device was, and otherwise the asking
\* device's certificate is turned.
ServeBecome(c, asker) ==
    LET known == KnownBy(c, Permanent)
    IN IF known = {}
       THEN /\ peers' = [peers EXCEPT ![c] = (@ \ {asker}) \cup {[asker EXCEPT !.print = Permanent]}]
            /\ same' = same
       ELSE /\ peers' = peers
            /\ same' = IF asker \in known THEN same
                       ELSE [same EXCEPT ![c][asker.id] = (CHOOSE p \in known : TRUE).id]

Answered(c, asker) ==
    IF KnownBy(c, Permanent) = {} THEN asker.id ELSE (CHOOSE p \in KnownBy(c, Permanent) : TRUE).id

\* The phone tells the computer, which serves it.  The connection's listener
\* asks for trust at every request.
Tell ==
    /\ doing.at = "reached" /\ print # Permanent /\ doing.c \notin told
    /\ as \in trust[doing.c]
    /\ \E asker \in KnownBy(doing.c, as) :
         /\ ServeBecome(doing.c, asker)
         /\ doing' = [at |-> "told", c |-> doing.c, id |-> Answered(doing.c, asker)]
    /\ UNCHANGED <<home, setups, me, print, made, told, own, recent, as, trust, pairings, removals, removed, upset>>

\* The early returns: it is permanent, the computer has taken it, is no
\* longer trusting the phone, or answers that it does not know it.
NothingToTell ==
    /\ doing.at = "reached"
    /\ \/ print = Permanent \/ doing.c \in told
       \/ as \notin trust[doing.c] \/ KnownBy(doing.c, as) = {}
    /\ doing' = [at |-> "syncing", c |-> doing.c]
    /\ UNCHANGED <<home, setups, me, print, made, told, own, recent, as, computers, removals, removed, upset>>

\* The answer does not come within three seconds, or the phone is stopped
\* anywhere on the way.
Stopped ==
    /\ doing.at \in {"told", "adopted", "noted"}
    /\ doing' = Idle
    /\ upset' = upset \cup {doing.c}
    /\ UNCHANGED <<home, setups, me, print, made, told, own, recent, as, computers, removals, removed>>

\* adopt_local_device: only into a store nothing was made in.
MayAdopt == ~made

Adopt ==
    /\ doing.at = "told"
    /\ IF doing.id = me
       THEN me' = me /\ doing' = [at |-> "adopted", c |-> doing.c, once |-> FALSE]
       ELSE IF MayAdopt
       THEN me' = doing.id /\ doing' = [at |-> "adopted", c |-> doing.c, once |-> TRUE]
       ELSE me' = me /\ doing' = [at |-> "refused", c |-> doing.c]
    /\ UNCHANGED <<home, setups, print, made, told, own, recent, as, computers, removals, removed, upset>>

\* note_became_with.  Set up again with something made: it stays as it is.
Note ==
    /\ doing.at \in {"adopted", "refused"}
    /\ told' = told \cup {doing.c}
    /\ doing' = IF doing.at = "refused" THEN [at |-> "syncing", c |-> doing.c]
                ELSE [doing EXCEPT !.at = "noted"]
    /\ UNCHANGED <<home, setups, me, print, made, own, recent, as, computers, removals, removed, upset>>

\* The identity is taken, and saved, at once by a device that is again what
\* it was, and otherwise once no computer seen lately is left to be told.
Waiting == (recent \cap own) \ told # {}

Switch ==
    /\ doing.at = "noted"
    /\ print' = IF doing.once \/ ~Waiting THEN Permanent ELSE print
    /\ doing' = [at |-> "syncing", c |-> doing.c]
    /\ UNCHANGED <<home, setups, me, made, told, own, recent, as, computers, removals, removed, upset>>

\* next_local_vector and set_version: a file is made here, counted against
\* this device's id.
Make ==
    /\ home # {} /\ ~made /\ doing = Idle
    /\ made' = TRUE
    /\ UNCHANGED <<home, setups, me, print, told, own, recent, as, doing, computers, removals, removed, upset>>

\* The rest of the pass.
PassEnds ==
    /\ doing.at = "syncing"
    /\ doing' = Idle
    /\ UNCHANGED <<home, setups, me, print, made, told, own, recent, as, computers, removals, removed, upset>>

-----------------------------------------------------------------------------

IdentityInit(cs) ==
    /\ home = cs
    /\ setups = 1 /\ me = 1 /\ print = 1 /\ as = 1 /\ made = FALSE
    /\ told = {} /\ own = {} /\ recent = {} /\ doing = Idle
    /\ peers = [c \in Computer |-> {}]
    /\ same = [c \in Computer |-> [d \in Device |-> NoDevice]]
    /\ trust = [c \in Computer |-> {}]
    /\ pairings = 0
    /\ removals = 0 /\ removed = {} /\ upset = {}

AtAComputer ==
    \E c \in home :
      \/ PairWith(c) \/ Reach(c) \/ SyncedBy(c) \/ RefreshTrust(c)
      \/ \E d \in Device : Removed(c, d)

BecomePermanent ==
    Tell \/ NothingToTell \/ Stopped \/ Adopt \/ Note \/ Switch

IdentityNext ==
    AtAComputer \/ BecomePermanent \/ BeginPass \/ MonthPasses \/ SetUpAgain \/ Make \/ PassEnds

-----------------------------------------------------------------------------

\* A phone with one computer stays known to it, as the device it is and by
\* the certificate it presents, through being set up again, removed and
\* paired again: once it is paired there, only a lost answer, being stopped
\* while it takes its identity, or being removed may leave it unknown.
KnownToTheOnlyOne ==
    \A c \in own :
      (own = {c} /\ c \notin upset /\ doing.at \in {"idle", "syncing"}) =>
        \E p \in peers[c] : p.print = print /\ p.id = me

\* However often the phone was set up, and whatever answers were lost, no
\* device became, through others, what it was before: every list ends in a
\* device that is there now.  (A device that another had become, or that had
\* not become one, may have been removed by the person: those computers are
\* left out, as the word kept about a removed device stands.)
NoCycles ==
    \A c \in Computer \ removed : \A S \in (SUBSET peers[c]) \ {{}} :
      \E p \in S : Became(c, p) \cap S = {}
=============================================================================
