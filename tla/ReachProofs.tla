---------------------------- MODULE ReachProofs ----------------------------
(***************************************************************************)
(* A socket to the relay that says it is up is registered under every name *)
(* it holds, and a device that stays so is found, for any devices, any     *)
(* networks and any number of connections.  The invariant follows a name   *)
(* from the moment it is held to the relay's registry, and says why the    *)
(* end of an older connection, noticed late, takes nothing with it.        *)
(***************************************************************************)
EXTENDS Reach, FiniteSetTheorems, TLAPS

\* The types of the relay's state and of the device's end of it.
RelayOK ==
    /\ dialled \in [Device -> Nat] /\ \A d \in Device : dialled[d] <= MaxDialled[d]
    /\ link \in [Device -> {"trying", "up", "down"}]
    /\ names \in [Device -> SUBSET Name] /\ sending \in [Device -> SUBSET Name]
    /\ frames \in [Device -> SUBSET Name] /\ identities \in [Connection -> SUBSET Name]
    /\ meeting \in Meeting \cup {Own}

\* A device has its own name and one for the meeting; what it sends is those.
NamesAreIts ==
    \A d \in Device :
        /\ names[d] \subseteq {<<d, Own>>, <<d, meeting>>}
        /\ sending[d] \subseteq names[d] /\ frames[d] \subseteq names[d]

\* Frames are on a connection that is up, and names are sent on one that is not.
OneConnection ==
    \A d \in Device :
        /\ link[d] # "up" => frames[d] = {}
        /\ sending[d] # {} => link[d] # "up"

\* Nothing is registered on a connection that has not been made.
NotYetMade == \A c \in Connection : c[2] > dialled[c[1]] => identities[c] = {}

\* What a device's last connection lists is the device's, and the registry
\* has it on that connection.
ListedIsRegistered ==
    \A d \in Device : \A n \in identities[OnRelay(d)] :
        n \in names[d] /\ n \in DOMAIN registered /\ registered[n] = OnRelay(d)

\* A name that was held before the connection was made is being sent, on its
\* way, or listed.
SentOrListed ==
    \A d \in Device :
        /\ sending[d] # {} => names[d] \ late \subseteq sending[d]
        /\ link[d] = "up" => names[d] \ late \subseteq frames[d] \cup identities[OnRelay(d)]

RelayInv ==
    /\ RelayOK /\ NamesAreIts /\ OneConnection
    /\ NotYetMade /\ ListedIsRegistered /\ SentOrListed

-----------------------------------------------------------------------------

LEMMA OfConnection ==
  ASSUME NEW d, NEW k
  PROVE  <<d, k>> \in Connection <=> d \in Device /\ k \in NumberOf(d)
BY DEF Connection

LEMMA ConnectionIs ==
  ASSUME NEW c \in Connection
  PROVE  c = <<c[1], c[2]>> /\ c[1] \in Device /\ c[2] \in NumberOf(c[1])
BY DEF Connection

LEMMA LastIsAConnection ==
  ASSUME RelayAssumption, RelayOK, NEW d \in Device
  PROVE  OnRelay(d) \in Connection
<1>1. dialled[d] \in NumberOf(d)
  BY DEF RelayAssumption, RelayOK, NumberOf
<1> QED BY <1>1, OfConnection DEF OnRelay

\* A connection always has room for a device's two names.
LEMMA RoomForBoth ==
  ASSUME NEW a, NEW b, NEW n \in {a, b}, NEW S \in SUBSET {a, b}, n \notin S
  PROVE  Cardinality(S) < 2
<1>1. PICK m \in {a, b} : S \subseteq {m}
  OBVIOUS
<1>2. IsFiniteSet({m}) /\ Cardinality({m}) = 1
  BY FS_Singleton
<1>3. PICK T : T = {m}
  OBVIOUS
<1>4. IsFiniteSet(T) /\ S \in SUBSET T /\ Cardinality(T) = 1
  BY <1>1, <1>2, <1>3
<1>5. IsFiniteSet(S) /\ Cardinality(S) <= 1
  BY <1>4, FS_Subset
<1>6. Cardinality(S) \in Nat
  BY <1>5, FS_CardinalityType
<1> QED BY <1>5, <1>6

LEMMA RelayStarts ==
  ASSUME RelayAssumption, Init
  PROVE  RelayInv
<1>1. RelayOK
  BY DEF RelayAssumption, Init, RelayInit, RelayOK, Name
<1>2. NamesAreIts /\ OneConnection /\ NotYetMade
  BY DEF Init, RelayInit, NamesAreIts, OneConnection, NotYetMade
<1>3. \A d \in Device : identities[OnRelay(d)] = {}
  BY <1>1, LastIsAConnection DEF Init, RelayInit
<1>4. ListedIsRegistered /\ SentOrListed
  BY <1>3 DEF ListedIsRegistered, SentOrListed, Init, RelayInit
<1> QED BY <1>1, <1>2, <1>4 DEF RelayInv


-----------------------------------------------------------------------------

\* What a step that leaves this end of the relay alone keeps.
LEMMA RelayLeft ==
  ASSUME RelayInv, UNCHANGED <<relay, meeting>>
  PROVE  RelayInv'
BY DEF RelayInv, RelayOK, NamesAreIts, OneConnection, NotYetMade, ListedIsRegistered,
       SentOrListed, relay, OnRelay

LEMMA DialKeeps ==
  ASSUME RelayAssumption, RelayInv, NEW d \in Device, Dial(d), UNCHANGED meeting
  PROVE  RelayInv'
<1> USE DEF RelayInv
<1>0. PICK k : k = dialled[d] + 1
  OBVIOUS
<1>1. /\ k \in Nat /\ dialled[d] \in Nat /\ k > dialled[d] /\ k <= MaxDialled[d]
      /\ dialled' = [dialled EXCEPT ![d] = k] /\ sending' = [sending EXCEPT ![d] = names[d]]
      /\ late' = {n \in late : n[1] # d} /\ sending[d] = {} /\ link[d] # "up"
      /\ UNCHANGED <<link, names, frames, identities, registered>>
  BY <1>0 DEF Dial, NamesToSend, RelayOK, RelayAssumption
<1>2. \A e \in Device : e # d => dialled'[e] = dialled[e] /\ sending'[e] = sending[e]
                                 /\ OnRelay(e)' = OnRelay(e)
  BY <1>1 DEF OnRelay, RelayOK
<1>3. dialled'[d] = k /\ sending'[d] = names[d] /\ OnRelay(d)' = <<d, k>>
  BY <1>1 DEF OnRelay, RelayOK
<1>4. RelayOK'
  BY <1>1, <1>2, <1>3 DEF RelayOK
<1>5. NamesAreIts' /\ OneConnection'
  BY <1>1, <1>2, <1>3 DEF NamesAreIts, OneConnection
<1>6. identities[<<d, k>>] = {}
  <2>1. <<d, k>> \in Connection
    BY <1>1, OfConnection DEF RelayAssumption, NumberOf
  <2> QED BY <2>1, <1>1 DEF NotYetMade
<1>7. NotYetMade'
  <2> SUFFICES ASSUME NEW c \in Connection, c[2] > dialled'[c[1]]
               PROVE  identities[c] = {}
    BY <1>1 DEF NotYetMade
  <2>1. c[1] \in Device /\ c[2] \in Nat
    BY ConnectionIs DEF NumberOf, RelayAssumption
  <2>2. dialled[c[1]] \in Nat /\ dialled'[c[1]] >= dialled[c[1]] /\ dialled'[c[1]] \in Nat
    BY <2>1, <1>1, <1>2, <1>3 DEF RelayOK
  <2> QED BY <2>1, <2>2 DEF NotYetMade
<1>8. ListedIsRegistered'
  BY <1>1, <1>2, <1>3, <1>6 DEF ListedIsRegistered
<1>9. SentOrListed'
  <2> SUFFICES ASSUME NEW e \in Device
               PROVE  /\ sending'[e] # {} => names[e] \ late' \subseteq sending'[e]
                      /\ link[e] = "up" => names[e] \ late' \subseteq frames[e] \cup identities[OnRelay(e)']
    BY <1>1 DEF SentOrListed
  <2>1. CASE e = d
    BY <2>1, <1>1, <1>3
  <2>2. CASE e # d
    <3>1. \A n \in names[e] : n[1] = e
      BY DEF NamesAreIts
    <3>2. names[e] \ late' \subseteq names[e] \ late
      BY <3>1, <2>2, <1>1
    <3> QED BY <3>2, <2>2, <1>2 DEF SentOrListed
  <2> QED BY <2>1, <2>2
<1> QED BY <1>4, <1>5, <1>7, <1>8, <1>9

LEMMA LinkKeeps ==
  ASSUME RelayInv, NEW d \in Device, DialFails(d) \/ Dialled(d) \/ LinkLost(d), UNCHANGED meeting
  PROVE  RelayInv'
<1> USE DEF RelayInv
<1>1. /\ UNCHANGED <<dialled, names, identities, registered, late>>
      /\ \A e \in Device : OnRelay(e)' = OnRelay(e)
  BY DEF DialFails, Dialled, LinkLost, OnRelay
<1>2. NotYetMade' /\ ListedIsRegistered'
  BY <1>1 DEF NotYetMade, ListedIsRegistered
<1>3. CASE DialFails(d)
  BY <1>1, <1>2, <1>3 DEF DialFails, RelayOK, NamesAreIts, OneConnection, SentOrListed
<1>4. CASE Dialled(d)
  <2>1. RelayOK' /\ NamesAreIts'
    BY <1>1, <1>4 DEF Dialled, RelayOK, NamesAreIts
  <2>2. OneConnection' /\ SentOrListed'
    BY <1>1, <1>4 DEF Dialled, RelayOK, OneConnection, SentOrListed
  <2> QED BY <2>1, <2>2, <1>2
<1>5. CASE LinkLost(d)
  <2>1. RelayOK' /\ NamesAreIts'
    BY <1>1, <1>5 DEF LinkLost, RelayOK, NamesAreIts
  <2>2. OneConnection' /\ SentOrListed'
    BY <1>1, <1>5 DEF LinkLost, RelayOK, OneConnection, SentOrListed
  <2> QED BY <2>1, <2>2, <1>2
<1> QED BY <1>3, <1>4, <1>5

\* The name of the meeting, taken while a connection is up, being made or not.
LEMMA MeetKeeps ==
  ASSUME RelayInv, NEW d \in Device, NEW p, Meet(d, p)
  PROVE  RelayInv'
<1> USE DEF RelayInv
<1>0. PICK n : n = <<d, meeting>>
  OBVIOUS
<1>1. /\ names' = [names EXCEPT ![d] = names[d] \cup {n}]
      /\ frames' = [frames EXCEPT ![d] = IF link[d] = "up" THEN frames[d] \cup {n} ELSE frames[d]]
      /\ late' = IF sending[d] # {} THEN late \cup {n} ELSE late
      /\ UNCHANGED <<dialled, link, sending, identities, registered, meeting>>
      /\ \A e \in Device : OnRelay(e)' = OnRelay(e)
      /\ n \in Name
  BY <1>0 DEF Meet, Register, Held, NameFor, finding, OnRelay, Name, RelayOK
<1>2. \A e \in Device : /\ names[e] \subseteq names'[e]
                        /\ names'[e] \subseteq names[e] \cup {n}
                        /\ frames[e] \subseteq frames'[e]
                        /\ e # d => names'[e] = names[e] /\ frames'[e] = frames[e]
  BY <1>1 DEF RelayOK
<1>3. names'[d] = names[d] \cup {n} /\ frames'[d] = IF link[d] = "up" THEN frames[d] \cup {n} ELSE frames[d]
  BY <1>1 DEF RelayOK
<1>4. RelayOK'
  BY <1>1 DEF RelayOK
<1>5. NamesAreIts'
  BY <1>0, <1>1, <1>2, <1>3 DEF NamesAreIts
<1>6. OneConnection' /\ NotYetMade'
  BY <1>1, <1>2, <1>3 DEF OneConnection, NotYetMade
<1>7. ListedIsRegistered'
  BY <1>1, <1>2 DEF ListedIsRegistered
<1>8. SentOrListed'
  <2> SUFFICES ASSUME NEW e \in Device
               PROVE  /\ sending[e] # {} => names'[e] \ late' \subseteq sending[e]
                      /\ link[e] = "up" => names'[e] \ late' \subseteq frames'[e] \cup identities[OnRelay(e)]
    BY <1>1 DEF SentOrListed
  <2>0. late \subseteq late'
    BY <1>1
  <2>1. CASE e = d
    BY <2>0, <2>1, <1>1, <1>3 DEF SentOrListed
  <2>2. CASE e # d
    BY <2>0, <2>2, <1>2 DEF SentOrListed
  <2> QED BY <2>1, <2>2
<1> QED BY <1>4, <1>5, <1>6, <1>7, <1>8

LEMMA ServeRegisterKeeps ==
  ASSUME RelayAssumption, RelayInv, NEW d \in Device, ServeRegister(d), UNCHANGED meeting
  PROVE  RelayInv'
<1> USE DEF RelayInv
<1>0. PICK c : c = OnRelay(d)
  OBVIOUS
<1>1. PICK n \in frames[d] :
        /\ frames' = [frames EXCEPT ![d] = @ \ {n}]
        /\ IF n \notin identities[c] /\ Cardinality(identities[c]) < MAX_IDENTITIES
           THEN /\ identities' = [identities EXCEPT ![c] = @ \cup {n}]
                /\ registered' = [m \in DOMAIN registered \cup {n} |-> IF m = n THEN c ELSE registered[m]]
           ELSE UNCHANGED <<identities, registered>>
        /\ UNCHANGED <<dialled, link, names, sending, late>>
  BY <1>0 DEF ServeRegister
<1>2. c \in Connection /\ c[1] = d /\ c[2] = dialled[d] /\ dialled[d] \in Nat
  BY <1>0, LastIsAConnection DEF OnRelay, RelayOK
<1>3. n \in names[d] /\ n \in Name /\ n[1] = d
  BY <1>1 DEF NamesAreIts, RelayOK
<1>4. \A e \in Device : OnRelay(e)' = OnRelay(e) /\ (e # d => OnRelay(e) # c)
  BY <1>1, <1>2 DEF OnRelay
<1>5. frames'[d] = frames[d] \ {n} /\ \A e \in Device : e # d => frames'[e] = frames[e]
  BY <1>1 DEF RelayOK
<1>6. NamesAreIts' /\ OneConnection'
  BY <1>1, <1>5 DEF NamesAreIts, OneConnection
<1>7. CASE n \in identities[c]
  <2>1. UNCHANGED <<identities, registered>>
    BY <1>1, <1>7
  <2>2. RelayOK' /\ NotYetMade'
    BY <1>1, <2>1 DEF RelayOK, NotYetMade
  <2>3. ListedIsRegistered'
    BY <2>1, <1>1, <1>4 DEF ListedIsRegistered
  <2>4. SentOrListed'
    BY <2>1, <1>0, <1>1, <1>4, <1>5, <1>7 DEF SentOrListed
  <2> QED BY <1>6, <2>2, <2>3, <2>4
<1>8. CASE n \notin identities[c]
  <2>1. Cardinality(identities[c]) < MAX_IDENTITIES
    <3>1. n \in {<<d, Own>>, <<d, meeting>>} /\ identities[c] \in SUBSET {<<d, Own>>, <<d, meeting>>}
      BY <1>0, <1>3 DEF ListedIsRegistered, NamesAreIts
    <3>2. Cardinality(identities[c]) < 2
      BY <3>1, <1>8, RoomForBoth
    <3>3. identities[c] \subseteq {<<d, Own>>, <<d, meeting>>} /\ IsFiniteSet({<<d, Own>>, <<d, meeting>>})
      <4>1. IsFiniteSet({<<d, Own>>}) /\ {<<d, Own>>, <<d, meeting>>} = {<<d, Own>>} \cup {<<d, meeting>>}
        BY FS_Singleton
      <4>2. IsFiniteSet({<<d, Own>>} \cup {<<d, meeting>>})
        BY <4>1, FS_AddElement
      <4> QED BY <3>1, <4>1, <4>2
    <3>4. Cardinality(identities[c]) \in Nat
      BY <3>3, FS_Subset, FS_CardinalityType
    <3> QED BY <3>2, <3>4 DEF RelayAssumption
  <2>2. identities' = [identities EXCEPT ![c] = @ \cup {n}] /\ registered' = [m \in DOMAIN registered \cup {n} |-> IF m = n THEN c ELSE registered[m]]
    BY <1>1, <1>8, <2>1
  <2>3. n \in DOMAIN registered' /\ registered'[n] = c
    BY <2>2
  <2>4. \A m \in DOMAIN registered : m # n => m \in DOMAIN registered' /\ registered'[m] = registered[m]
    BY <2>2
  <2>5. /\ identities'[c] = identities[c] \cup {n}
        /\ \A b \in Connection : b # c => identities'[b] = identities[b]
    BY <2>2, <1>2 DEF RelayOK
  <2>6. RelayOK'
    BY <2>2, <1>1, <1>2, <1>3 DEF RelayOK
  <2>7. NotYetMade'
    <3> SUFFICES ASSUME NEW b \in Connection, b[2] > dialled[b[1]]
                 PROVE  identities'[b] = {}
      BY <1>1 DEF NotYetMade
    <3>1. b # c
      BY <1>2
    <3> QED BY <3>1, <2>5 DEF NotYetMade
  <2>8. ListedIsRegistered'
    <3> SUFFICES ASSUME NEW e \in Device, NEW m \in identities'[OnRelay(e)]
                 PROVE  m \in names[e] /\ m \in DOMAIN registered' /\ registered'[m] = OnRelay(e)
      BY <1>1, <1>4 DEF ListedIsRegistered
    <3>0. OnRelay(e) \in Connection
      BY LastIsAConnection
    <3>1. CASE e = d
      BY <3>1, <1>0, <1>3, <2>3, <2>4, <2>5 DEF ListedIsRegistered
    <3>2. CASE e # d
      <4>1. m \in identities[OnRelay(e)]
        BY <3>0, <3>2, <1>4, <2>5
      <4>2. m \in names[e] /\ m \in DOMAIN registered /\ registered[m] = OnRelay(e)
        BY <4>1 DEF ListedIsRegistered
      <4>3. m[1] = e
        BY <4>2 DEF NamesAreIts
      <4> QED BY <4>2, <4>3, <3>2, <1>3, <2>4
    <3> QED BY <3>1, <3>2
  <2>9. SentOrListed'
    <3>1. \A e \in Device : OnRelay(e) \in Connection
      BY LastIsAConnection
    <3> QED BY <3>1, <1>0, <1>1, <1>4, <1>5, <2>5 DEF SentOrListed
  <2> QED BY <1>6, <2>6, <2>7, <2>8, <2>9
<1> QED BY <1>7, <1>8

\* The end of an older connection leaves the last one's names in the
\* registry; the end of the last comes after the device knows of it.
LEMMA ServeEndKeeps ==
  ASSUME RelayAssumption, RelayInv, NEW c \in Connection, ServeEnd(c), UNCHANGED meeting
  PROVE  RelayInv'
<1> USE DEF RelayInv
<1>1. /\ registered' = Restrict(registered, DOMAIN registered \ StillIts(c))
      /\ identities' = [identities EXCEPT ![c] = {}]
      /\ UNCHANGED <<dialled, link, names, sending, frames, late>>
      /\ c # OnRelay(c[1]) \/ (link[c[1]] = "down" /\ sending[c[1]] = {})
  BY DEF ServeEnd
<1>2. identities'[c] = {} /\ \A b \in Connection : b # c => identities'[b] = identities[b]
  BY <1>1 DEF RelayOK
<1>3. RelayOK' /\ NamesAreIts' /\ OneConnection'
  BY <1>1 DEF RelayOK, NamesAreIts, OneConnection
<1>4. NotYetMade'
  BY <1>1, <1>2 DEF NotYetMade
<1>5. \A d \in Device : /\ OnRelay(d)' = OnRelay(d) /\ OnRelay(d) \in Connection
                        /\ OnRelay(d)[1] = d
  BY <1>1, LastIsAConnection DEF OnRelay
<1>6. ListedIsRegistered'
  <2> SUFFICES ASSUME NEW d \in Device, NEW n \in identities'[OnRelay(d)]
               PROVE  n \in names[d] /\ n \in DOMAIN registered' /\ registered'[n] = OnRelay(d)
    <3>1. UNCHANGED names
      BY <1>1
    <3> QED BY <3>1, <1>5 DEF ListedIsRegistered
  <2>1. OnRelay(d) # c /\ n \in identities[OnRelay(d)]
    BY <1>2, <1>5
  <2>2. n \in names[d] /\ n \in DOMAIN registered /\ registered[n] = OnRelay(d)
    BY <2>1 DEF ListedIsRegistered
  <2>3. n \notin StillIts(c)
    BY <2>1, <2>2 DEF StillIts
  <2> QED BY <2>2, <2>3, <1>1 DEF Restrict
<1>7. SentOrListed'
  <2> SUFFICES ASSUME NEW d \in Device, link[d] = "up"
               PROVE  identities'[OnRelay(d)] = identities[OnRelay(d)]
    BY <1>1, <1>5 DEF SentOrListed
  <2> QED BY <1>1, <1>2, <1>5
<1> QED BY <1>3, <1>4, <1>6, <1>7

LEMMA RelayKeeps ==
  ASSUME RelayAssumption, RelayInv, [Next]_vars
  PROVE  RelayInv'
<1>1. CASE UNCHANGED vars
  BY <1>1, RelayLeft DEF vars, finding
<1>2. CASE RelayNext /\ UNCHANGED finding
  <2>1. UNCHANGED meeting
    BY <1>2 DEF finding
  <2> QED BY <1>2, <2>1, DialKeeps, LinkKeeps, ServeRegisterKeeps, ServeEndKeeps DEF RelayNext
<1>3. ASSUME NEW d \in Device, Move(d) \/ LookAgain(d) PROVE RelayInv'
  BY <1>3, RelayLeft DEF Move, LookAgain, KeepRelay
<1>4. ASSUME NEW d \in Device, ReachStep(d) PROVE RelayInv'
  <2>1. UNCHANGED <<relay, meeting>>
    BY <1>4 DEF ReachStep, Nearby, Introduced, NotIntroduced, DirectConnects, LocalFails, AddressesFail,
       HeadStartOver, DirectFails, ViaConnects, ViaFails, Goes, KeepRelay
  <2> QED BY <2>1, RelayLeft
<1>5. ASSUME NEW d \in Device, NEW p \in Device, Hears(d, p) \/ Forget(d, p) \/ Start(d, p) PROVE RelayInv'
  BY <1>5, RelayLeft DEF Hears, Forget, Start, KeepRelay
<1>6. ASSUME NEW d \in Device, NEW p \in Device, Meet(d, p) PROVE RelayInv'
  BY <1>6, MeetKeeps
<1> QED BY <1>1, <1>2, <1>3, <1>4, <1>5, <1>6 DEF Next, Steps

\* What the invariant is for.
LEMMA ReadIsRegistered ==
  ASSUME RelayInv, NEW d \in Device, link[d] = "up", frames[d] = {}, NEW n \in names[d] \ late
  PROVE  Arrives(n) /\ n \in identities[OnRelay(d)]
<1>1. n \in identities[OnRelay(d)]
  BY DEF RelayInv, SentOrListed
<1>2. n[1] = d
  BY DEF RelayInv, NamesAreIts
<1> QED BY <1>1, <1>2 DEF RelayInv, ListedIsRegistered, Arrives

\* A socket to the relay that says it is up, with nothing of it left to read,
\* is registered under every name it held when the connection was made or
\* took since, for any number of devices and connections, and older ones of
\* its own ending whenever they are noticed (RelaySocket, serve_one).
THEOREM UpStaysRegistered == Spec => []UpIsRegistered
<1> USE RelayAssumption
<1>1. Init => RelayInv
  BY RelayStarts
<1>2. RelayInv /\ [Next]_vars => RelayInv'
  BY RelayKeeps
<1>3. RelayInv => UpIsRegistered
  BY ReadIsRegistered DEF UpIsRegistered
<1> QED BY <1>1, <1>2, <1>3, PTL DEF Spec

-----------------------------------------------------------------------------
(* A reach that is not disturbed.                                          *)

UnderWay == {"nearby", "local", "asked", "direct", "both", "relay"}
Reached ==
    [phase : {"idle", "reached", "failed"}]
      \cup [phase : UnderWay, peer : Device, at : Network \cup {Nowhere},
            direct : {"no", "failed"}, via : {"no", "failed"}]

\* The types of where devices are and of what a reach is doing.
ReachOK ==
    /\ net \in [Device -> Network] /\ here \in [Device -> Network]
    /\ seen \in [Device -> [Device -> Network \cup {Nowhere}]]
    /\ reach \in [Device -> Reached]

\* While nothing has disturbed a reach both relay links are ready, and its
\* way through the relay has not failed.
UndisturbedIsReady ==
    \A d \in Device : Busy(d) /\ d \notin disturbed => Ready(d) /\ reach[d].via = "no"

ReachInv == ReachOK /\ UndisturbedIsReady

\* Both ready is enough for a handshake through the relay.
LEMMA ReadyIsCarried ==
  ASSUME RelayInv, ReachOK, NEW d \in Device, Busy(d), Ready(d)
  PROVE  OverRelay(d) /\ link[d] = "up"
<1>1. PICK p \in Device : p = reach[d].peer
  BY DEF ReachOK, Reached, Busy
<1>2. LinkReady(d, p) /\ LinkReady(p, d)
  BY <1>1 DEF Ready, BothReady
<1>3. Arrives(NameFor(d, p)) /\ NameFor(d, p) \in identities[OnRelay(d)]
  BY <1>2, ReadIsRegistered DEF LinkReady
<1>4. Arrives(NameFor(p, d))
  BY <1>2, ReadIsRegistered DEF LinkReady
<1>5. NameFor(d, p)[1] = d
  BY DEF NameFor
<1> QED BY <1>1, <1>2, <1>3, <1>4, <1>5 DEF OverRelay, Carried, LinkReady

\* What a step of a reach leaves it as: the same reach further on, or ended;
\* its way through the relay has failed only if it was not ready, and it has
\* failed only then or because the service did not introduce the two.
Onward(d, r) ==
    /\ r \in Reached
    /\ r.phase \in UnderWay => r.via = reach[d].via \/ ~Ready(d) \/ d \in disturbed
    /\ r.phase = "failed" =>
         reach[d].phase = "asked" \/ reach[d].via = "failed" \/ ~Ready(d) \/ d \in disturbed

LEMMA StepsOnward ==
  ASSUME RelayInv, ReachOK, NEW d \in Device, ReachStep(d)
  PROVE  Busy(d) /\ \E r : Onward(d, r) /\ Goes(d, r)
<1>0. reach[d] \in Reached
  BY DEF ReachOK
<1>1. ASSUME NEW phase \in UnderWay, Busy(d) PROVE Onward(d, To(d, phase))
  BY <1>0, <1>1 DEF To, Onward, Reached, UnderWay, Busy
<1>2. ASSUME NEW phase \in {"reached", "failed"}, Busy(d),
             phase = "failed" => reach[d].phase = "asked" \/ reach[d].via = "failed" \/ ~Ready(d)
                                 \/ d \in disturbed
      PROVE  Onward(d, To(d, phase))
  BY <1>0, <1>2 DEF To, Onward, Reached, UnderWay, Busy
<1>3. CASE Nearby(d)
  <2>1. Busy(d) /\ reach[d].peer \in Device
    BY <1>0, <1>3 DEF Nearby, In, Busy, Reached
  <2>2. PICK at \in Network \cup {Nowhere} : at = seen[d][reach[d].peer]
    BY <2>1 DEF ReachOK
  <2>3. Onward(d, [reach[d] EXCEPT !.phase = "local", !.at = at])
    BY <1>0, <2>1, <2>2 DEF Onward, Reached, UnderWay, Busy
  <2>4. Goes(d, IF at = Nowhere THEN To(d, "asked") ELSE [reach[d] EXCEPT !.phase = "local", !.at = at])
    BY <1>3, <2>2 DEF Nearby
  <2>5. Onward(d, To(d, "asked"))
    BY <1>1, <2>1 DEF UnderWay
  <2>6. CASE at = Nowhere
    BY <2>1, <2>4, <2>5, <2>6
  <2>7. CASE at # Nowhere
    BY <2>1, <2>3, <2>4, <2>7
  <2> QED BY <2>6, <2>7
<1>4. CASE Introduced(d)
  <2>1. Busy(d) /\ reach[d].peer \in Device
    BY <1>0, <1>4 DEF Introduced, In, Busy, Reached
  <2>2. here[reach[d].peer] \in Network
    BY <2>1 DEF ReachOK
  <2>3. Onward(d, [reach[d] EXCEPT !.phase = "direct", !.at = here[reach[d].peer]])
    BY <1>0, <2>1, <2>2 DEF Onward, Reached, UnderWay, Busy
  <2> QED BY <1>4, <2>1, <2>3 DEF Introduced
<1>5. CASE NotIntroduced(d)
  <2>1. Busy(d) /\ reach[d].phase = "asked"
    BY <1>5 DEF NotIntroduced, In, Busy
  <2>2. Onward(d, To(d, "failed"))
    BY <1>2, <2>1
  <2> QED BY <1>5, <2>1, <2>2 DEF NotIntroduced
<1>6. CASE DirectConnects(d)
  <2>1. Busy(d)
    BY <1>6 DEF DirectConnects, In, Busy
  <2>2. Onward(d, To(d, "reached"))
    BY <1>2, <2>1
  <2> QED BY <1>6, <2>1, <2>2 DEF DirectConnects
<1>7. CASE LocalFails(d) \/ AddressesFail(d) \/ HeadStartOver(d)
  <2>1. Busy(d)
    BY <1>7 DEF LocalFails, AddressesFail, HeadStartOver, In, Busy
  <2>2. PICK phase \in {"asked", "relay", "both"} : Goes(d, To(d, phase))
    BY <1>7 DEF LocalFails, AddressesFail, HeadStartOver, FallBack
  <2>3. Onward(d, To(d, phase))
    BY <1>1, <2>1 DEF UnderWay
  <2> QED BY <2>1, <2>2, <2>3
<1>8. CASE DirectFails(d)
  <2>1. Busy(d)
    BY <1>8 DEF DirectFails, In, Busy
  <2>2. Onward(d, [reach[d] EXCEPT !.direct = "failed"])
    BY <1>0, <2>1 DEF Onward, Reached, UnderWay, Busy
  <2>3. reach[d].via = "failed" => Onward(d, To(d, "failed"))
    BY <1>2, <2>1
  <2> QED BY <1>8, <2>1, <2>2, <2>3 DEF DirectFails, DirectFailed
<1>9. CASE ViaConnects(d)
  <2>1. Busy(d)
    BY <1>9 DEF ViaConnects, In, Busy
  <2>2. Onward(d, To(d, "reached"))
    BY <1>2, <2>1
  <2> QED BY <1>9, <2>1, <2>2 DEF ViaConnects
<1>10. CASE ViaFails(d)
  <2>1. Busy(d) /\ Goes(d, ViaFailed(d))
    BY <1>10 DEF ViaFails, In, Busy
  <2>2. ~Ready(d) \/ d \in disturbed
    BY <1>10, <2>1, ReadyIsCarried DEF ViaFails
  <2>3. Onward(d, [reach[d] EXCEPT !.via = "failed"])
    BY <1>0, <2>1, <2>2 DEF Onward, Reached, UnderWay, Busy
  <2>4. Onward(d, To(d, "failed"))
    BY <1>2, <2>1, <2>2
  <2> QED BY <2>1, <2>3, <2>4 DEF ViaFailed
<1> QED BY <1>3, <1>4, <1>5, <1>6, <1>7, <1>8, <1>9, <1>10 DEF ReachStep

\* Every step moves at most one reach: onward, or one begun that was not.
LEMMA OneMoves ==
  ASSUME ReachAssumption, RelayInv, ReachOK, Steps
  PROVE  /\ ReachOK'
         /\ \A e \in Device :
              \/ reach'[e] = reach[e]
              \/ ~Busy(e) /\ reach'[e].via = "no" /\ reach'[e].phase # "failed"
              \/ Busy(e) /\ Onward(e, reach'[e])
<1>0. reach \in [Device -> Reached]
  BY DEF ReachOK
<1>1. CASE RelayNext /\ UNCHANGED finding
  BY <1>1 DEF finding, ReachOK
<1>2. ASSUME NEW d \in Device, Move(d) \/ LookAgain(d)
      PROVE  ReachOK' /\ UNCHANGED reach
  BY <1>2 DEF Move, LookAgain, Offered, ReachOK
<1>3. ASSUME NEW d \in Device, NEW p \in Device, Hears(d, p) \/ Forget(d, p)
      PROVE  ReachOK' /\ UNCHANGED reach
  <2>1. PICK w \in Network \cup {Nowhere} : seen' = [seen EXCEPT ![d][p] = w]
    BY <1>3 DEF Hears, Forget, BeaconOf, ReachOK
  <2>2. UNCHANGED <<net, here, reach>>
    BY <1>3 DEF Hears, Forget
  <2>3. seen' = [seen EXCEPT ![d] = [seen[d] EXCEPT ![p] = w]]
    BY <2>1 DEF ReachOK
  <2>4. [seen[d] EXCEPT ![p] = w] \in [Device -> Network \cup {Nowhere}]
    BY DEF ReachOK
  <2> QED BY <2>2, <2>3, <2>4 DEF ReachOK
<1>4. ASSUME NEW d \in Device, NEW p, Meet(d, p)
      PROVE  ReachOK' /\ UNCHANGED reach
  BY <1>4 DEF Meet, finding, ReachOK
<1>5. ASSUME NEW d \in Device, NEW p \in Device, Start(d, p)
      PROVE  /\ ReachOK' /\ ~Busy(d) /\ reach'[d].via = "no" /\ reach'[d].phase # "failed"
             /\ \A e \in Device : e # d => reach'[e] = reach[e]
  <2>1. PICK r : /\ r = [Begun(p) EXCEPT !.phase = IF meeting = Own THEN "nearby" ELSE "asked"]
                 /\ reach' = [reach EXCEPT ![d] = r]
    BY <1>5 DEF Start
  <2>2. r \in Reached /\ r.via = "no" /\ r.phase # "failed"
    BY <2>1 DEF Begun, Reached, UnderWay
  <2>3. ~Busy(d) /\ UNCHANGED <<net, here, seen>>
    BY <1>5 DEF Start
  <2> QED BY <1>0, <2>1, <2>2, <2>3 DEF ReachOK
<1>6. ASSUME NEW d \in Device, ReachStep(d)
      PROVE  /\ ReachOK' /\ Busy(d) /\ Onward(d, reach'[d])
             /\ \A e \in Device : e # d => reach'[e] = reach[e]
  <2>1. Busy(d)
    BY <1>6, StepsOnward
  <2>2. PICK r : Onward(d, r) /\ Goes(d, r)
    BY <1>6, StepsOnward
  <2>3. reach' = [reach EXCEPT ![d] = r] /\ UNCHANGED <<net, here, seen>> /\ r \in Reached
    BY <2>2 DEF Goes, Onward
  <2>4. reach'[d] = r
    BY <1>0, <2>3
  <2> QED BY <1>0, <2>1, <2>2, <2>3, <2>4 DEF ReachOK
<1>7. CASE \E d \in Device : ReachStep(d)
  BY <1>6, <1>7
<1>8. CASE \E d, p \in Device : Start(d, p)
  BY <1>5, <1>8
<1> QED BY <1>1, <1>2, <1>3, <1>4, <1>7, <1>8 DEF Steps

LEMMA ReachStarts ==
  ASSUME ReachAssumption, Init
  PROVE  ReachInv
BY DEF ReachAssumption, Init, Idle, ReachInv, ReachOK, Reached, UndisturbedIsReady, Busy

LEMMA ReachKeeps ==
  ASSUME ReachAssumption, RelayInv, ReachInv, [Next]_vars
  PROVE  ReachInv'
<1>1. CASE UNCHANGED vars
  BY <1>1 DEF vars, finding, relay, ReachInv, ReachOK, UndisturbedIsReady, Busy, Ready, BothReady,
     LinkReady, NameFor
<1>2. CASE Next
  <2>1. ReachOK' /\ \A e \in Device :
              \/ reach'[e] = reach[e]
              \/ ~Busy(e) /\ reach'[e].via = "no" /\ reach'[e].phase # "failed"
              \/ Busy(e) /\ Onward(e, reach'[e])
    BY <1>2, OneMoves DEF ReachInv, Next
  <2>2. ASSUME NEW d \in Device, Busy(d)', d \notin disturbed'
        PROVE  Ready(d)' /\ reach'[d].via = "no"
    <3>1. d \notin disturbed /\ Ready(d)'
      BY <1>2, <2>2 DEF Next, Disturbs
    <3>2. Busy(d) => Ready(d) /\ reach[d].via = "no"
      BY <3>1 DEF ReachInv, UndisturbedIsReady
    <3>3. reach'[d].phase \in UnderWay
      BY <2>1, <2>2 DEF ReachOK, Reached, Busy, UnderWay
    <3>4. reach'[d] = reach[d] => Busy(d)
      BY <2>2 DEF Busy
    <3> QED BY <2>1, <3>1, <3>2, <3>3, <3>4 DEF Onward
  <2>3. UndisturbedIsReady'
    BY <2>2 DEF UndisturbedIsReady
  <2> QED BY <2>1, <2>3 DEF ReachInv
<1> QED BY <1>1, <1>2

\* A reach that was introduced to the other device fails only if a relay link
\* of one of the two was not up and read at some moment since it began, for
\* any devices and networks, however they move, whatever addresses are stale
\* (reach, direct_or_relay, via_relay).
THEOREM FoundWhileThere == Spec => FoundIfThere
<1> USE RelayAssumption, ReachAssumption
<1>1. Init => RelayInv /\ ReachInv
  BY RelayStarts, ReachStarts
<1>2. RelayInv /\ ReachInv /\ [Next]_vars => (RelayInv /\ ReachInv)'
  BY RelayKeeps, ReachKeeps
<1>3. RelayInv /\ ReachInv /\ [Next]_vars =>
        [\A d \in Device : Busy(d) /\ reach'[d].phase = "failed"
                             => reach[d].phase = "asked" \/ d \in disturbed]_vars
  <2> SUFFICES ASSUME RelayInv, ReachInv, Next, NEW d \in Device, Busy(d), reach'[d].phase = "failed"
               PROVE  reach[d].phase = "asked" \/ d \in disturbed
    OBVIOUS
  <2>1. Onward(d, reach'[d])
    <3>1. reach'[d] # reach[d]
      BY DEF Busy
    <3> QED BY <3>1, OneMoves DEF Next, ReachInv
  <2>2. d \notin disturbed => Ready(d) /\ reach[d].via = "no"
    BY DEF ReachInv, UndisturbedIsReady
  <2> QED BY <2>1, <2>2 DEF Onward
<1> QED BY <1>1, <1>2, <1>3, PTL DEF Spec, FoundIfThere
=============================================================================
