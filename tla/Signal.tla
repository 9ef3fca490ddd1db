------------------------------- MODULE Signal -------------------------------
(***************************************************************************)
(* The rendezvous service and the devices that hold a connection to it.    *)
(* A device announces where it is; the service tells the others, passes on *)
(* that somebody has something for them, keeps that for one not connected  *)
(* and wakes it by a push if it can, and introduces two that want to       *)
(* connect to each other.                                                  *)
(*                                                                         *)
(* Modelled: crates/signal/src/server.rs, client.rs, message.rs, wake.rs   *)
(* and fcm.rs, and the task of crates/peer/src/connect.rs that owns the    *)
(* connection.                                                             *)
(*                                                                         *)
(* Data.  One group: everything the service keeps is kept by group.  An    *)
(* address is how often its device has moved, a wake token how often it    *)
(* was issued.  A connection is a device and how many it opened before;    *)
(* it carries messages in order, both ways, until it is lost, which the    *)
(* service notices later than the device, after its next connection may    *)
(* have announced.  The rate limit, far above what a device sends, and the *)
(* reply to Announce, which nobody reads, are left out.                    *)
(***************************************************************************)
EXTENDS Naturals, Sequences, FiniteSets, Functions, TLC
Seqs == INSTANCE SequencesExt

CONSTANTS
    Device,
    Phone,           \* the devices a push wakes
    MaxMembers,      \* limits.max_members_per_group
    MaxTokens,       \* limits.max_wake_tokens
    MaxConnections,  \* limits.max_connections
    MaxOpened, MaxMoves, MaxCommands, MaxRestarts   \* bounds

Kind == {"waiting", "connect", "reachable"}   \* of command

ASSUME SignalAssumption ==
    /\ IsFiniteSet(Device) /\ Phone \subseteq Device
    /\ {MaxMembers, MaxTokens, MaxConnections, MaxRestarts} \subseteq Nat
    /\ MaxTokens > 0   \* 100 000
    /\ MaxOpened \in [Device -> Nat] /\ MaxMoves \in [Device -> Nat]
    /\ MaxCommands \in [Device -> [Kind \cup {"all"} -> Nat]]

VARIABLES
    opened,      \* connections each device has opened
    online,      \* the devices whose connection is up, as they see it
    at, here,    \* where each is, and where it last said it was
    issued,      \* the wake token each phone has
    commands, given, \* the connector's commands waiting to be sent; how many
    waiting,     \* the introductions each device waits on, whether or not
                 \* whoever asked is still there to hear (RENDEZVOUS_TIMEOUT)
    held,        \* the connections the service holds
    announced,   \* those it knows the identity of
    up, down,    \* the messages on each connection, to the service and back
    members,     \* directory.groups: where each device is and its connection
    notes,       \* directory.waiting
    wake, disk,  \* directory.wake, oldest first, and the file it is kept in
    pushes,      \* tokens handed to the push service
    restarts,
    unwritten,   \* whether the last write of that file failed
    owed, said,  \* history: notes nobody has heard of; the token the service
                 \* last had from each phone, unless it was put out, or lost
                 \* with a write that failed
    displaced    \* history: devices an older connection of theirs listed, or
                 \* took off the list, since they last announced

device == <<opened, online, at, here, issued, commands, given, waiting>>
service == <<held, announced, members, notes, wake, disk, pushes, restarts, unwritten>>
history == <<owed, said, displaced>>
vars == <<device, service, up, down, history>>

-----------------------------------------------------------------------------
(* Connections and messages.                                               *)

Connection == UNION {{d} \X (1..MaxOpened[d]) : d \in Device}
Latest(d) == <<d, opened[d]>>
Live(c) == c[1] \in online /\ c = Latest(c[1])

\* The messages, from a device and from the service.
Ordered == [say: {"connect", "waiting"}, to: Device] \cup [say: {"reachable"}, via: Nat]
FromClient ==
    Ordered \cup [say: {"announce"}, at: Nat] \cup [say: {"accept"}, to: Device, at: Nat]
FromServer ==
    [say: {"waiting", "appeared", "connect", "punch"}, from: Device] \cup [say: {"error"}]

\* A set, in any order.
Orders(S) == {s \in [1..Cardinality(S) -> S] : \A i, j \in DOMAIN s : s[i] = s[j] => i = j}

Announce(d) == [say |-> "announce", at |-> at[d]]
Say(c, msg) == up' = [up EXCEPT ![c] = Append(@, msg)]

\* A send into the outbox of a connection that is gone fails, or is never read.
Sent(box, c, msg) == [box EXCEPT ![c] = IF Live(c) THEN Append(@, msg) ELSE @]

Listed(d) == d \in DOMAIN members
SentTo(box, d, msg) == IF Listed(d) THEN Sent(box, members[d].conn, msg) ELSE box

-----------------------------------------------------------------------------
(* The device.                                                             *)

\* The introductions asked for: a second to a device takes the first's place.
Asked(cs) ==
    {msg.to : msg \in {m \in Range(cs) : m.say = "connect"}}

\* stay_signalled, SignalClient::connect: announces at once.  The commands
\* that waited follow.
Connect(d) ==
    /\ d \notin online /\ opened[d] < MaxOpened[d]
    /\ Cardinality(held) < MaxConnections
    /\ opened' = [opened EXCEPT ![d] = @ + 1]
    /\ online' = online \cup {d}
    /\ here' = [here EXCEPT ![d] = at[d]]
    /\ held' = held \cup {Latest(d)'}
    /\ up' = [up EXCEPT ![Latest(d)'] = <<Announce(d)>> \o commands[d]]
    /\ waiting' = [waiting EXCEPT ![d] = Asked(commands[d])]
    /\ commands' = [commands EXCEPT ![d] = <<>>]
    /\ UNCHANGED <<at, issued, given>>
    /\ UNCHANGED <<announced, members, notes, wake, disk, pushes, restarts, unwritten>>
    /\ UNCHANGED <<down, history>>

\* The connection is gone, and with it what was on its way to the device:
\* next is None, and every introduction asked for fails.
Gone(ds) ==
    /\ online' = online \ ds
    /\ down' = [c \in Connection |-> IF c[1] \in ds THEN <<>> ELSE down[c]]
    /\ waiting' = [d \in Device |-> IF d \in ds THEN {} ELSE waiting[d]]

Lose(d) ==
    /\ d \in online
    /\ Gone({d})
    /\ UNCHANGED <<opened, at, here, issued, commands, given>>
    /\ UNCHANGED <<service, up, history>>

\* follow_addresses, reannounce.
Move(d) ==
    /\ at[d] < MaxMoves[d]
    /\ at' = [at EXCEPT ![d] = @ + 1]
    /\ UNCHANGED <<opened, online, here, issued, commands, given, waiting>>
    /\ UNCHANGED <<service, up, down, history>>

NotSaid(d) ==
    /\ d \in online /\ here[d] # at[d]
    /\ here' = [here EXCEPT ![d] = at[d]]
    /\ UNCHANGED <<opened, online, at, issued, commands, given, waiting>>
    /\ UNCHANGED <<service, up, down, history>>
AnnounceAgain(d) ==
    /\ d \in online /\ here[d] # at[d]
    /\ here' = [here EXCEPT ![d] = at[d]]
    /\ Say(Latest(d), Announce(d))
    /\ UNCHANGED <<opened, online, at, issued, commands, given, waiting>>
    /\ UNCHANGED <<service, down, history>>

\* tell_waiting, reach and reachable_via leave a command, which run_signalling
\* sends; with no connection up it waits for the next.  (One that waited while
\* the connection was up is one left later.)
MoreOf(d) == Seqs!FoldSet(LAMBDA k, n : given[d][k] + n, 0, Kind) < MaxCommands[d].all

Command(d, msg) ==
    /\ given[d][msg.say] < MaxCommands[d][msg.say] /\ MoreOf(d)
    /\ given' = [given EXCEPT ![d][msg.say] = @ + 1]
    /\ IF d \in online
       THEN /\ Say(Latest(d), msg)
            /\ waiting' = [waiting EXCEPT ![d] = @ \cup Asked(<<msg>>)]
            /\ UNCHANGED commands
       ELSE /\ commands' = [commands EXCEPT ![d] = Append(@, msg)]
            /\ UNCHANGED <<up, waiting>>
    /\ UNCHANGED <<opened, online, at, here, service, down, history>>

TellWaiting(d, p) == Command(d, [say |-> "waiting", to |-> p]) /\ UNCHANGED issued
Introduce(d, p) == Command(d, [say |-> "connect", to |-> p]) /\ UNCHANGED issued

\* A phone says how to wake it, by a new token, or that it no longer can be.
Reachable(d, can) ==
    /\ d \in Phone
    /\ issued' = [issued EXCEPT ![d] = @ + 1]
    /\ Command(d, [say |-> "reachable", via |-> IF can THEN issued[d] + 1 ELSE 0])

\* run_signalling: a message.  Of an arrival, or a note, whoever listens for
\* arrivals is told: it syncs with that device.
ToldOf(d, p) ==
    /\ owed' = owed \ {<<d, p>>, <<p, d>>}
    /\ UNCHANGED <<waiting, up>>

Hear(d) ==
    /\ d \in online /\ down[Latest(d)] # <<>>
    /\ LET msg == Head(down[Latest(d)]) IN
         \/ msg.say \in {"appeared", "waiting"} /\ ToldOf(d, msg.from)
         \/ /\ msg.say = "connect"
            /\ Say(Latest(d), [say |-> "accept", to |-> msg.from, at |-> here[d]])
            /\ UNCHANGED <<waiting, owed>>
         \/ /\ msg.say = "punch"
            /\ waiting' = [waiting EXCEPT ![d] = @ \ {msg.from}]
            /\ UNCHANGED <<up, owed>>
         \/ /\ msg.say = "error"
            /\ waiting' = [waiting EXCEPT ![d] = {}]
            /\ UNCHANGED <<up, owed>>
    /\ down' = [down EXCEPT ![Latest(d)] = Tail(@)]
    /\ UNCHANGED <<opened, online, at, here, issued, commands, given>>
    /\ UNCHANGED <<service, said, displaced>>

-----------------------------------------------------------------------------
(* The service's directory.                                                *)

\* leave: with the last member of a group its notes go too; tokens stay.
\* (A name is taken off whichever connection it was last announced on.)
Leave(d) ==
    LET left == Restrict(members, DOMAIN members \ {d}) IN
      /\ members' = left
      /\ notes' = IF Listed(d) /\ DOMAIN left = {} THEN [p \in Device |-> {}] ELSE notes

\* announce: the notes kept for it, then its arrival to everyone else.
Full(d) == Cardinality(DOMAIN members) >= MaxMembers /\ ~Listed(d)
NobodyTold(d) == {}
Others(d) == DOMAIN members \ {d}
Deliver(box, c, froms) ==
    [box EXCEPT ![c] = IF Live(c) THEN @ \o [i \in DOMAIN froms |-> [say |-> "waiting", from |-> froms[i]]]
                       ELSE @]
TellArrival(box, d) ==
    [c \in Connection |->
       IF Live(c) /\ \E p \in Others(d) : members[p].conn = c
       THEN Append(box[c], [say |-> "appeared", from |-> d]) ELSE box[c]]

\* evict_wake_tokens, and what a change to a token leaves, oldest first.
TakenOut(places) ==
    IF places = {} THEN wake ELSE Seqs!RemoveAt(wake, CHOOSE i \in places : TRUE)
Without(d) == TakenOut({i \in DOMAIN wake : wake[i].device = d})
Token(d, k) == [device |-> d, issue |-> k]
NoneEvicted(ts) == ts
Evicted(ts) == IF Len(ts) > MaxTokens THEN Tail(ts) ELSE ts

-----------------------------------------------------------------------------
(* serve_one: one message of one connection.                               *)

ServeAnnounce(c, msg) ==
    /\ IF Full(c[1])
       THEN /\ down' = Sent(down, c, [say |-> "error"])
            /\ UNCHANGED <<announced, members, notes, displaced>>
       ELSE /\ \E froms \in Orders(notes[c[1]]) :
                 down' = TellArrival(Deliver(down, c, froms), c[1])
            /\ notes' = [notes EXCEPT ![c[1]] = {}]
            /\ members' = [d \in DOMAIN members \cup {c[1]} |->
                             IF d = c[1] THEN [at |-> msg.at, conn |-> c] ELSE members[d]]
            /\ announced' = announced \cup {c}
            /\ displaced' = IF c = Latest(c[1]) THEN displaced \ {c[1]}
                                                ELSE displaced \cup {c[1]}
    /\ UNCHANGED <<wake, disk, unwritten, pushes, owed, said>>

\* Every message but Announce needs one first.
ServeEarly(c) ==
    /\ down' = Sent(down, c, [say |-> "error"])
    /\ UNCHANGED <<announced, members, notes, wake, disk, unwritten, pushes, history>>

\* save_wake_tokens, of what is news: a write that fails leaves the older file.
SavedBefore(ts) == Range(wake)
Saved(ts) == Range(ts)
Save(ts) ==
    IF ts = wake THEN UNCHANGED <<disk, unwritten>>
    ELSE \/ disk' = Saved(ts) /\ unwritten' = FALSE
         \/ disk' = disk /\ unwritten' = TRUE

\* set_wake_token.
ServeReachable(c, msg) ==
    /\ wake' = IF msg.via = 0 THEN Without(c[1])
               ELSE Evicted(Append(Without(c[1]), Token(c[1], msg.via)))
    /\ Save(wake')
    /\ said' = [p \in Device |->
                 IF p = c[1] THEN msg.via
                 ELSE IF msg.via # 0 /\ Len(Without(c[1])) = MaxTokens /\ wake[1].device = p
                      THEN 0 ELSE said[p]]
    /\ UNCHANGED <<down, announced, members, notes, pushes, owed, displaced>>

\* note_waiting: told if it is there, and if not kept for it, and it is woken.
WokenAnyway(p) == {t \in Range(wake) : t.device = p}
WokenBy(p) == IF Listed(p) THEN {} ELSE {t \in Range(wake) : t.device = p}
Kept(p, f) == IF Listed(p) THEN notes[p] ELSE notes[p] \cup {f}
ServeWaiting(c, msg) ==
    /\ down' = SentTo(down, msg.to, [say |-> "waiting", from |-> c[1]])
    /\ notes' = [notes EXCEPT ![msg.to] = Kept(msg.to, c[1])]
    /\ pushes' = pushes \cup WokenBy(msg.to)
    /\ owed' = owed \cup {<<c[1], msg.to>>}
    /\ UNCHANGED <<announced, members, wake, disk, unwritten, said, displaced>>

ServeConnect(c, msg) ==
    /\ down' = IF Listed(c[1]) /\ Listed(msg.to)
               THEN SentTo(down, msg.to, [say |-> "connect", from |-> c[1]])
               ELSE Sent(down, c, [say |-> "error"])
    /\ UNCHANGED <<announced, members, notes, wake, disk, unwritten, pushes, history>>

\* Accept: both told at once.
ServeAccept(c, msg) ==
    /\ down' = IF Listed(msg.to)
               THEN Sent(SentTo(down, msg.to, [say |-> "punch", from |-> c[1]]),
                         c, [say |-> "punch", from |-> msg.to])
               ELSE Sent(down, c, [say |-> "error"])
    /\ UNCHANGED <<announced, members, notes, wake, disk, unwritten, pushes, history>>

Serve(c) ==
    /\ c \in held /\ up[c] # <<>>
    /\ LET msg == Head(up[c]) IN
         \/ msg.say = "announce" /\ ServeAnnounce(c, msg)
         \/ msg.say # "announce" /\ c \notin announced /\ ServeEarly(c)
         \/ msg.say = "reachable" /\ c \in announced /\ ServeReachable(c, msg)
         \/ msg.say = "waiting" /\ c \in announced /\ ServeWaiting(c, msg)
         \/ msg.say = "connect" /\ c \in announced /\ ServeConnect(c, msg)
         \/ msg.say = "accept" /\ c \in announced /\ ServeAccept(c, msg)
    /\ up' = [up EXCEPT ![c] = Tail(@)]
    /\ UNCHANGED <<device, held, restarts>>

\* The end of a connection, noticed now; what it had yet to say is lost.
End(c) ==
    /\ c \in held /\ ~Live(c)
    /\ held' = held \ {c}
    /\ announced' = announced \ {c}
    /\ up' = [up EXCEPT ![c] = <<>>]
    /\ IF c \in announced THEN Leave(c[1]) ELSE UNCHANGED <<members, notes>>
    /\ displaced' = IF c \in announced /\ c # Latest(c[1])
                    THEN displaced \cup {c[1]} ELSE displaced
    /\ UNCHANGED <<device, wake, disk, unwritten, pushes, restarts, down, owed, said>>

\* The push service answers: the token is one it no longer knows, for the
\* phone has another or none, and it is forgotten; or the phone is woken.
Forgotten(t) == TakenOut({i \in DOMAIN wake : wake[i] = t})
Pushed(t) ==
    /\ t \in pushes
    /\ pushes' = pushes \ {t}
    /\ \/ /\ t.issue < issued[t.device]
          /\ wake' = Forgotten(t)
          /\ Save(wake')
       \/ UNCHANGED <<wake, disk, unwritten>>
    /\ UNCHANGED <<device, held, announced, members, notes, restarts>>
    /\ UNCHANGED <<up, down, history>>

\* The service stops and starts: only the tokens on disk are left, the older ones
\* if the last write failed.
OnDisk(d) == LET ts == {t \in disk : t.device = d}
             IN  IF ts = {} THEN 0 ELSE (CHOOSE t \in ts : TRUE).issue
Restart ==
    /\ restarts < MaxRestarts
    /\ restarts' = restarts + 1
    /\ Gone(Device)
    /\ held' = {} /\ announced' = {} /\ members' = <<>> /\ pushes' = {}
    /\ notes' = [d \in Device |-> {}]
    /\ up' = [c \in Connection |-> <<>>]
    /\ wake' \in Orders(disk)
    /\ said' = IF unwritten THEN [d \in Device |-> OnDisk(d)] ELSE said
    /\ unwritten' = FALSE
    /\ displaced' = {}
    /\ UNCHANGED <<opened, at, here, issued, commands, given, disk, owed>>

-----------------------------------------------------------------------------

Init ==
    /\ opened = [d \in Device |-> 0]
    /\ online = {}
    /\ at = [d \in Device |-> 0] /\ here = at
    /\ issued = [d \in Device |-> 0]
    /\ commands = [d \in Device |-> <<>>]
    /\ given = [d \in Device |-> [k \in Kind |-> 0]]
    /\ waiting = [d \in Device |-> {}]
    /\ held = {} /\ announced = {} /\ members = <<>> /\ pushes = {}
    /\ up = [c \in Connection |-> <<>>] /\ down = up
    /\ notes = [d \in Device |-> {}]
    /\ wake = <<>> /\ disk = {}
    /\ restarts = 0 /\ unwritten = FALSE
    /\ owed = {} /\ said = [d \in Device |-> 0] /\ displaced = {}

Asks(d) ==
    \/ \E p \in Device \ {d} : TellWaiting(d, p) \/ Introduce(d, p)
    \/ \E can \in BOOLEAN : Reachable(d, can)

Next ==
    \/ \E d \in Device :
         Connect(d) \/ Lose(d) \/ Move(d) \/ AnnounceAgain(d)
           \/ Asks(d) \/ Hear(d)
    \/ \E c \in Connection : Serve(c) \/ End(c)
    \/ \E t \in pushes : Pushed(t)
    \/ Restart

Spec == Init /\ [][Next]_vars

-----------------------------------------------------------------------------
(* Properties.                                                             *)

Messages(box, c) == Range(box[c])

\* The types of the variables.
WakeToken == [device: Device, issue: Nat]
TypeOK ==
    /\ opened \in [Device -> Nat] /\ online \subseteq Device
    /\ at \in [Device -> Nat] /\ here \in [Device -> Nat] /\ issued \in [Device -> Nat]
    /\ commands \in [Device -> Seq(Ordered)]
    /\ held \subseteq Connection /\ announced \subseteq held
    /\ DOMAIN members \subseteq Device
    /\ members \in [DOMAIN members -> [at: Nat, conn: Connection]]
    /\ up \in [Connection -> Seq(FromClient)] /\ down \in [Connection -> Seq(FromServer)]
    /\ notes \in [Device -> SUBSET Device]
    /\ wake \in Seq(WakeToken) /\ said \in [Device -> Nat]
    /\ unwritten \in BOOLEAN
    /\ owed \subseteq Device \X Device /\ displaced \subseteq Device

\* A device that is connected, and whose announcement the service has had, is
\* told that somebody has something for it and is not woken by a push
\* (SignalServer: note_waiting and its caller; the rule that keeps waking from
\* draining a phone's battery); unless an older connection of its own took its
\* place since.
Present(d) == Live(Latest(d)) /\ Latest(d) \in announced
ToldNotWoken ==
    [][\A t \in pushes' \ pushes : Present(t.device) => t.device \in displaced]_vars

\* A note is never lost between two devices that are both there.  One the
\* service took and neither device has heard anything of is kept, or on its
\* way, or one of the two is away or has yet to announce itself, whereupon the
\* other hears of its arrival (note_waiting, announce, leave); or an older
\* connection of one took its place since, until it announces again.
OnItsWay(d, p) == \E msg \in Messages(down, Latest(d)) :
    msg.say \in {"appeared", "waiting"} /\ msg.from = p
NotesReach(ds) ==
    \A pair \in owed :
        LET f == pair[1]  t == pair[2] IN
          Present(f) /\ Present(t) /\ {f, t} \subseteq ds
            => OnItsWay(t, f) \/ OnItsWay(f, t)
NoNoteIsLost == NotesReach(Device \ displaced)

\* The service has a device where it is, once what the device said has been
\* heard: after any moves, lost connections and restarts (Announce,
\* follow_addresses, run_signalling); unless an older connection of its own took
\* its place since.
Heard(d) ==
    Present(d) /\ here[d] = at[d]
      /\ \A msg \in Messages(up, Latest(d)) : msg.say # "announce"
AddressIsCurrent ==
    \A d \in Device \ displaced :
        Heard(d) => Listed(d) /\ members[d] = [at |-> at[d], conn |-> Latest(d)]

\* Do not hold (README, Divergences).
\* The same of every device, whatever becomes of its older connections.
ConnectedIsNotWoken == [][\A t \in pushes' \ pushes : ~Present(t.device)]_vars
NotesReachTheConnected == NotesReach(Device)
ConnectedIsListed ==
    \A d \in Device :
        Heard(d) => Listed(d) /\ members[d] = [at |-> at[d], conn |-> Latest(d)]

\* A phone that has said how to wake it is woken by what it said last of what
\* the service had from it: through restarts of the service, unless the last
\* write of the file had failed, and through the push service forgetting an
\* older token late, unless it was the oldest of too many (set_wake_token,
\* forget_wake_token, save_wake_tokens).
TokensAreKept ==
    /\ \A t \in Range(wake) : t.issue = said[t.device]
    /\ \A d \in Device : said[d] # 0 /\ said[d] = issued[d] => Token(d, said[d]) \in Range(wake)
=============================================================================
