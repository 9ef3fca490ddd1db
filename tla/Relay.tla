------------------------------- MODULE Relay --------------------------------
(***************************************************************************)
(* The relay: a device holds a connection to it, registered under its own  *)
(* name and one for each meeting with another person's device, and dials   *)
(* again whenever the connection goes.  The relay carries a packet to the  *)
(* connection that registered the name it is for.                          *)
(*                                                                         *)
(* Modelled: crates/relay/src/server.rs, socket.rs and frame.rs, and       *)
(* crates/signal/src/tunnel.rs, over which a connection may be carried.    *)
(*                                                                         *)
(* Data.  A name is a device and a meeting, or Own.  A connection is a     *)
(* device and how many it dialled before.  What a connection had yet to    *)
(* say is lost with it; the relay notices its end later than the device.   *)
(* Packets are not kept: a handshake goes through while both ends are      *)
(* registered, and is tried again by QUIC until it times out.  The waits   *)
(* between attempts are left out.                                          *)
(***************************************************************************)
EXTENDS Naturals, Sequences, FiniteSets, Functions

CONSTANTS
    Device,
    Meeting,         \* the meetings of two devices of different people
    Own,             \* in the place of a meeting in a device's own name
    MAX_IDENTITIES,  \* names a connection may register
    MaxDialled       \* bound: connections each device makes

ASSUME RelayAssumption ==
    /\ Own \notin Meeting
    /\ MAX_IDENTITIES \in Nat /\ MAX_IDENTITIES >= 2   \* 64
    /\ MaxDialled \in [Device -> Nat]

VARIABLES
    dialled,     \* how many connections each device has made
    link,        \* "trying", "up" or "down"
    names,       \* names each device holds, in the order it took them
    sending,     \* those it is registering on the connection being made
    frames,      \* Register frames on each device's connection
    served,      \* connections the relay serves
    identities,  \* the names registered on each
    registered,  \* the relay's registry
    late         \* history: names taken while a connection was being made

relay == <<dialled, link, names, sending, frames, served, identities, registered, late>>

-----------------------------------------------------------------------------

Name == Device \X (Meeting \cup {Own})
NumberOf(d) == 0..MaxDialled[d]
Connection == UNION {{d} \X NumberOf(d) : d \in Device}
OnRelay(d) == <<d, dialled[d]>>

\* Holding a name goes before sending it; asked for again it changes nothing.
HeldNothing(d, n) == names[d]
Held(d, n) == names[d] \cup {n}

\* carry: dialled, with the names held now to be registered on it.
OnlyItsOwn(d) == {<<d, Own>>}
NamesToSend(d) == names[d]
Dial(d) ==
    /\ link[d] \in {"trying", "down"} /\ sending[d] = {}
    /\ dialled[d] < MaxDialled[d]
    /\ sending' = [sending EXCEPT ![d] = NamesToSend(d)]
    /\ dialled' = [dialled EXCEPT ![d] = @ + 1]
    /\ served' = served \cup {OnRelay(d)'}
    /\ late' = {n \in late : n[1] # d}
    /\ UNCHANGED <<link, names, frames, identities, registered>>

DialFails(d) ==
    /\ link[d] = "trying" /\ sending[d] = {}
    /\ link' = [link EXCEPT ![d] = "down"]
    /\ UNCHANGED <<dialled, names, sending, frames, served, identities, registered, late>>

\* The names sent, the socket is up.
Dialled(d) ==
    /\ sending[d] # {}
    /\ frames' = [frames EXCEPT ![d] = sending[d]]
    /\ sending' = [sending EXCEPT ![d] = {}]
    /\ link' = [link EXCEPT ![d] = "up"]
    /\ UNCHANGED <<dialled, names, served, identities, registered, late>>

\* The connection went, before or after the names were sent.
LinkLost(d) ==
    /\ sending[d] # {} \/ link[d] = "up"
    /\ link' = [link EXCEPT ![d] = "down"]
    /\ sending' = [sending EXCEPT ![d] = {}]
    /\ frames' = [frames EXCEPT ![d] = {}]
    /\ UNCHANGED <<dialled, names, served, identities, registered, late>>

\* register: its frame goes out on a connection that is up; while there is
\* none frames are dropped, as a router with no route drops them.
Register(d, n) ==
    /\ names' = [names EXCEPT ![d] = Held(d, n)]
    /\ frames' = [frames EXCEPT ![d] = IF link[d] = "up" THEN @ \cup {n} ELSE @]
    /\ late' = IF sending[d] # {} THEN late \cup {n} ELSE late
    /\ UNCHANGED <<dialled, link, sending, served, identities, registered>>

-----------------------------------------------------------------------------
(* The relay.                                                              *)

\* A Register frame: a connection's names are bounded.
ServeRegister(d) ==
    \E n \in frames[d] :
        LET c == OnRelay(d) IN
          /\ frames' = [frames EXCEPT ![d] = @ \ {n}]
          /\ IF n \notin identities[c] /\ Cardinality(identities[c]) < MAX_IDENTITIES
             THEN /\ identities' = [identities EXCEPT ![c] = @ \cup {n}]
                  /\ registered' = [m \in DOMAIN registered \cup {n} |->
                                       IF m = n THEN c ELSE registered[m]]
             ELSE UNCHANGED <<identities, registered>>
          /\ UNCHANGED <<dialled, link, names, sending, served, late>>

\* The end of a connection: its names go, those still its own.
AllItsNames(c) == identities[c]
StillIts(c) == {n \in identities[c] : n \in DOMAIN registered /\ registered[n] = c}
ServeEnd(c) ==
    /\ c \in served
    /\ c # OnRelay(c[1]) \/ (link[c[1]] = "down" /\ sending[c[1]] = {})
    /\ registered' = Restrict(registered, DOMAIN registered \ StillIts(c))
    /\ identities' = [identities EXCEPT ![c] = {}]
    /\ served' = served \ {c}
    /\ UNCHANGED <<dialled, link, names, sending, frames, late>>

\* A packet under the name n reaches the device that n names.
Arrives(n) ==
    /\ n \in DOMAIN registered
    /\ registered[n] = OnRelay(n[1]) /\ link[n[1]] = "up"

\* forward: from one of the sender's own names, to whoever registered the
\* other, and the answer the other way.
Carried(from, to) ==
    /\ from \in identities[OnRelay(from[1])]
    /\ Arrives(from) /\ Arrives(to)

RelayInit ==
    /\ dialled = [d \in Device |-> 0]
    /\ link = [d \in Device |-> "trying"]
    /\ names = [d \in Device |-> {<<d, Own>>}]
    /\ sending = [d \in Device |-> {}]
    /\ frames = [d \in Device |-> {}]
    /\ served = {}
    /\ identities = [c \in Connection |-> {}]
    /\ registered = <<>>
    /\ late = {}

RelayNext ==
    \/ \E d \in Device :
         Dial(d) \/ DialFails(d) \/ Dialled(d) \/ LinkLost(d) \/ ServeRegister(d)
    \/ \E c \in Connection : ServeEnd(c)

-----------------------------------------------------------------------------

\* A socket that says it is up is registered under every name it holds, once
\* the relay has read what it sent, and stays so when the end of an older
\* connection of the same device is noticed late (RelaySocket: Link::Up;
\* serve_one's cleanup).  A name taken while the connection was being made is
\* the exception: its frame is dropped, and the names were read before.
UpIsRegistered ==
    \A d \in Device :
        link[d] = "up" /\ frames[d] = {}
          => \A n \in names[d] \ late : Arrives(n)
=============================================================================
