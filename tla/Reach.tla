-------------------------------- MODULE Reach --------------------------------
(***************************************************************************)
(* Reaching a device.  One of the same person's heard on this network is   *)
(* tried there first; otherwise, or when that fails, the rendezvous        *)
(* service introduces the two, every address the other gave is tried at    *)
(* once, and the relay as well when none has answered for a while.         *)
(* Another person's device is known only by a meeting.                     *)
(*                                                                         *)
(* Modelled: crates/peer/src/connect.rs, local.rs and nat.rs, over Relay.  *)
(*                                                                         *)
(* Data.  An address is the network the device was on.  A dial to it       *)
(* succeeds only while the device is there, and from another network only  *)
(* if that one lets packets in once both ends have sent.  The rendezvous   *)
(* service (module Signal) answers with where the other says it is, or     *)
(* fails, or is silent until the wait runs out.                            *)
(***************************************************************************)
EXTENDS Relay

CONSTANTS
    Network,
    Open,         \* networks a device can be dialled at from elsewhere
    Nowhere,
    Reaching,     \* who reaches whom: a set of pairs
    NetAtFirst,
    MaxMoves, MaxReaches    \* bounds

ASSUME ReachAssumption ==
    /\ Open \subseteq Network /\ Nowhere \notin Network
    /\ Reaching \subseteq Device \X Device
    /\ NetAtFirst \in [Device -> Network] /\ {MaxMoves, MaxReaches} \subseteq Nat

VARIABLES
    meeting,    \* whose the devices are: one person's (Own), or another's,
                \* met in this meeting
    net,        \* the network each device is on
    here,       \* where it says it is
    seen,       \* Neighbours: where each was heard on this network
    reach,      \* what each device's reach is doing
    moves, reaches,
    disturbed   \* history: a relay link has not been up since the reach began

finding == <<meeting, net, here, seen, reach, moves, reaches>>
vars == <<relay, finding, disturbed>>

-----------------------------------------------------------------------------

Idle == [phase |-> "idle"]
\* A reach: whom, where its address race dials, and which of the two ways
\* have failed.
Begun(p) == [phase |-> "nearby", peer |-> p, at |-> Nowhere, direct |-> "no", via |-> "no"]

\* The names the two use on the relay.
NameFor(d, p) == <<d, meeting>>

\* Both relay links are up, and everything sent on them has been read.
LinkReady(d, p) ==
    /\ link[d] = "up" /\ frames[d] = {}
    /\ NameFor(d, p) \in names[d] \ late
BothReady(d, p) == LinkReady(d, p) /\ LinkReady(p, d)

Busy(d) == reach[d].phase \notin {"idle", "reached", "failed"}

Ready(d) == BothReady(d, reach[d].peer)

\* Any step may disturb a reach: the last thing a step says.
Disturbs ==
    disturbed' = {d \in Device : Busy(d)' /\ (d \in disturbed \/ ~Ready(d)')}

-----------------------------------------------------------------------------
(* Being found: beacons, and following this machine's addresses.           *)

\* The rest of what a step here leaves alone.
KeepRelay == UNCHANGED relay

Move(d) ==
    /\ moves < MaxMoves
    /\ moves' = moves + 1
    /\ \E n \in Network \ {net[d]} : net' = [net EXCEPT ![d] = n]
    /\ UNCHANGED <<meeting, here, seen, reach, reaches>> /\ KeepRelay

\* follow_addresses: looked at every five seconds; a beacon follows.
Offered(d) == net[d]
LookAgain(d) ==
    /\ here[d] # Offered(d)
    /\ here' = [here EXCEPT ![d] = Offered(d)]
    /\ UNCHANGED <<meeting, net, seen, reach, moves, reaches>> /\ KeepRelay

\* A beacon, sent on the timer, for news, or because one asked: it reaches
\* every interface of one network, is sealed to one person's key, and says
\* where its sender is.
Multicast(p, d) == net[p] = net[d]
Opens == meeting = Own
BeaconOf(p) == here[p]

\* Heard by any other device that can open it, or lost.
Hears(d, p) ==
    /\ <<d, p>> \in Reaching /\ Multicast(p, d) /\ Opens
    /\ seen' = [seen EXCEPT ![d][p] = BeaconOf(p)]
    /\ UNCHANGED <<meeting, net, here, reach, moves, reaches>> /\ KeepRelay

\* where_is: a sighting is good for a minute.
Forget(d, p) ==
    /\ seen[d][p] # Nowhere
    /\ seen' = [seen EXCEPT ![d][p] = Nowhere]
    /\ UNCHANGED <<meeting, net, here, reach, moves, reaches>> /\ KeepRelay

\* meet: the name of a meeting is registered with the relay.
Meet(d, p) ==
    /\ p # d /\ meeting # Own /\ NameFor(d, p) \notin names[d]
    /\ Register(d, NameFor(d, p))
    /\ UNCHANGED finding

-----------------------------------------------------------------------------
(* reach.                                                                  *)

Goes(d, r) ==
    /\ reach' = [reach EXCEPT ![d] = r]
    /\ UNCHANGED <<meeting, net, here, seen, moves, reaches>> /\ KeepRelay

In(d, phases) == reach[d].phase \in phases
To(d, phase) ==
    IF phase \in {"reached", "failed"} THEN [phase |-> phase] ELSE [reach[d] EXCEPT !.phase = phase]

\* One met in a meeting is not looked for on this network.
Start(d, p) ==
    /\ ~Busy(d) /\ reaches < MaxReaches
    /\ <<d, p>> \in Reaching /\ NameFor(d, p) \in names[d]
    /\ reaches' = reaches + 1
    /\ reach' = [reach EXCEPT ![d] =
           [Begun(p) EXCEPT !.phase = IF meeting = Own THEN "nearby" ELSE "asked"]]
    /\ UNCHANGED <<meeting, net, here, seen, moves>> /\ KeepRelay

\* nearby: where it was heard, at once or within a second of a probe; else
\* the rendezvous service is asked.
Nearby(d) ==
    /\ In(d, {"nearby"})
    /\ LET at == seen[d][reach[d].peer] IN
         Goes(d, IF at = Nowhere THEN To(d, "asked")
                 ELSE [reach[d] EXCEPT !.phase = "local", !.at = at])

\* Introduce: told to punch, with where the peer says it is.
Introduced(d) ==
    /\ In(d, {"asked"})
    /\ Goes(d, [reach[d] EXCEPT !.phase = "direct", !.at = here[reach[d].peer]])

\* Or refused, or nobody answers within RENDEZVOUS_TIMEOUT.
NotIntroduced(d) == In(d, {"asked"}) /\ Goes(d, To(d, "failed"))

\* race: one candidate's handshake, or every one has failed or timed out.
LetIn(at) == at \in Open
Answers(d) ==
    LET r == reach[d] IN net[r.peer] = r.at /\ (net[d] = r.at \/ LetIn(r.at))
DirectConnects(d) ==
    /\ In(d, {"local", "direct", "both"}) /\ reach[d].direct = "no"
    /\ Answers(d)
    /\ Goes(d, To(d, "reached"))

\* A sighting that does not answer is no failure: the service is asked.
LocalFails(d) == In(d, {"local"}) /\ Goes(d, To(d, "asked"))

\* direct_or_relay, in the head start: every address failed; or it is over.
GiveUpAtOnce(d) == To(d, "failed")
FallBack(d) == To(d, "relay")
AddressesFail(d) == In(d, {"direct"}) /\ Goes(d, FallBack(d))
HeadStartOver(d) == In(d, {"direct"}) /\ Goes(d, To(d, "both"))

\* The loop over both: a failure of one is kept, and of the second ends it.
DirectFailed(d) ==
    IF reach[d].via = "failed" THEN To(d, "failed")
    ELSE [reach[d] EXCEPT !.direct = "failed"]
NeverBothFailed(d) == [reach[d] EXCEPT !.via = "failed"]
ViaFailed(d) ==
    IF In(d, {"relay"}) \/ reach[d].direct = "failed" THEN To(d, "failed")
    ELSE [reach[d] EXCEPT !.via = "failed"]

DirectFails(d) ==
    /\ In(d, {"both"}) /\ reach[d].direct = "no"
    /\ Goes(d, DirectFailed(d))

\* via_relay: a handshake through the relay; or the link is down, or the
\* handshake times out, some packet not having got through.
OverRelay(d) == Carried(NameFor(d, reach[d].peer), NameFor(reach[d].peer, d))
ViaConnects(d) ==
    /\ In(d, {"both", "relay"}) /\ reach[d].via = "no"
    /\ link[d] # "down" /\ OverRelay(d)
    /\ Goes(d, To(d, "reached"))

ViaFails(d) ==
    /\ In(d, {"both", "relay"}) /\ reach[d].via = "no"
    /\ link[d] = "down" \/ ~OverRelay(d) \/ d \in disturbed
    /\ Goes(d, ViaFailed(d))

-----------------------------------------------------------------------------

Init ==
    /\ RelayInit
    /\ meeting \in Meeting \cup {Own}
    /\ net = NetAtFirst /\ here = NetAtFirst
    /\ seen = [d \in Device |-> [p \in Device |-> Nowhere]]
    /\ reach = [d \in Device |-> Idle]
    /\ moves = 0 /\ reaches = 0
    /\ disturbed = {}

ReachStep(d) ==
    \/ Nearby(d) \/ Introduced(d) \/ NotIntroduced(d)
    \/ DirectConnects(d) \/ LocalFails(d) \/ AddressesFail(d) \/ HeadStartOver(d)
    \/ DirectFails(d) \/ ViaConnects(d) \/ ViaFails(d)

Steps ==
    \/ RelayNext /\ UNCHANGED finding
    \/ \E d \in Device : Move(d) \/ LookAgain(d) \/ ReachStep(d)
    \/ \E d, p \in Device : Hears(d, p) \/ Forget(d, p) \/ Meet(d, p) \/ Start(d, p)

Next == Steps /\ Disturbs

Spec == Init /\ [][Next]_vars

\* Timers run out and tasks go on: a reach begun takes its next step.
FairSpec == Spec /\ \A d \in Device : WF_vars(ReachStep(d) /\ Disturbs)

-----------------------------------------------------------------------------
(* Properties.                                                             *)

\* The types of the variables.
TypeOK ==
    /\ dialled \in [Device -> Nat] /\ link \in [Device -> {"trying", "up", "down"}]
    /\ names \in [Device -> SUBSET Name] /\ late \subseteq Name
    /\ \A d \in Device : sending[d] \subseteq names[d] /\ frames[d] \subseteq names[d]
    /\ \A c \in Connection : Cardinality(identities[c]) <= MAX_IDENTITIES
    /\ net \in [Device -> Network] /\ here \in [Device -> Network]
    /\ seen \in [Device -> [Device -> Network \cup {Nowhere}]]
    /\ \A d \in Device : reach[d].phase \in
         {"idle", "nearby", "local", "asked", "direct", "both", "relay", "reached", "failed"}

\* A device that is there is found.  A reach that was introduced to the other
\* device does not fail while both have said all along that they are on the
\* relay: whatever addresses were stale, whoever moved, and whatever older
\* connections to the relay ended meanwhile (reach, direct_or_relay,
\* via_relay; the relay's registry).
FoundIfThere ==
    [][\A d \in Device :
         Busy(d) /\ reach'[d].phase = "failed" => reach[d].phase = "asked" \/ d \in disturbed]_vars

\* Every reach ends (direct_or_relay's loop over the two ways, and the
\* timeouts of everything it waits for).
EveryReachEnds == \A d \in Device : Busy(d) ~> ~Busy(d)
=============================================================================
