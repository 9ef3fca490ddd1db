--------------------------- MODULE PairingProofs ---------------------------
(***************************************************************************)
(* What pairing promises, for any devices, codes and tries: only devices in *)
(* the hand of the person at the one showing a code come to be trusted or  *)
(* get the key.  The invariant follows a yes from the person's screen to   *)
(* the key that goes out, and a try from when it is spent until it is      *)
(* given back.                                                             *)
(***************************************************************************)
EXTENDS Pairing, TLAPS

\* The code shown, and the connection served, are as they are made; with no
\* code being shown nobody is served.
ShownOK ==
    /\ shown \in Nat /\ wrong \in Nat
    /\ \A c, e \in code : c = e
    /\ \A c \in code : /\ c \in [invite: {Invite(shown, c.invite.guest)}, keyGiven: BOOLEAN, tries: Nat]
                       /\ shown > 0
    /\ conn \in [device: Device \cup {NoDevice}, approved: BOOLEAN, digits: {"none", "right", "wrong"}]
    /\ code = {} => conn = NoConnection
    /\ trusted \in [Device -> {"none", "own", "guest"}]
    /\ key \in [Device -> {"host", "other", "none"}]
    /\ DOMAIN wire = Device /\ DOMAIN using = Device

\* A key on its way was given, and goes to a device in the person's hand.
KeyOnWire(d) == \E m \in wire[d] : "reply" \in DOMAIN m /\ m.reply = "Key"
KeysWereGiven ==
    \A d \in Device : KeyOnWire(d) => d \in Hand /\ \E x \in given : x[2] = d

\* What was agreed on a connection was agreed with a device in the hand.
AgreedInHand == conn.approved => conn.device \in Hand

\* A code whose key has not been given is in no giving; nobody is asked about
\* a second one; and no giving is of a code yet to be shown.
GivenOnce ==
    /\ \A x \in given : x[1] \in Nat /\ x[1] <= shown
    /\ \A c \in code : ~c.keyGiven => \A x \in given : x[1] # shown
    /\ \A c \in code : asking = "join" => ~c.keyGiven

\* A try that is out on the connection, to be given back, counts as left.
Out == IF conn.digits = "right" THEN 1 ELSE 0
TriesAreCounted ==
    /\ shown = 0 => wrong = 0
    /\ \A c \in code : shown = 1 => wrong + c.tries + Out <= TRIES

PairingInv ==
    ShownOK /\ KeysWereGiven /\ AgreedInHand /\ GivenOnce /\ TriesAreCounted /\ StrangersStayOut

\* The code being shown is the one there is.
LEMMA TheCode ==
  ASSUME ShownOK, code # {}
  PROVE  /\ Code \in code /\ code = {Code}
         /\ Code.invite = Invite(shown, Code.invite.guest) /\ Code.invite.n = shown
         /\ Code.keyGiven \in BOOLEAN /\ Code.tries \in Nat /\ shown > 0
         /\ Code \in [invite: {Invite(shown, Code.invite.guest)}, keyGiven: BOOLEAN, tries: Nat]
<1>1. Code \in code
  BY DEF Code
<1> HIDE DEF Code
<1>2. code = {Code}
  BY <1>1 DEF ShownOK
<1>3. Code \in [invite: {Invite(shown, Code.invite.guest)}, keyGiven: BOOLEAN, tries: Nat] /\ shown > 0
  BY <1>1 DEF ShownOK
<1>4. Code.invite = Invite(shown, Code.invite.guest) /\ Code.keyGiven \in BOOLEAN /\ Code.tries \in Nat
  BY <1>3
<1>5. Code.invite.n = shown
  BY <1>4 DEF Invite
<1> QED BY <1>1, <1>2, <1>3, <1>4, <1>5

\* The number shown is of the device as well as the code: one that matches is
\* in the hand.
LEMMA MatchesInHand ==
  ASSUME NEW d, Matches(d)
  PROVE  d \in Hand
BY DEF Matches, Number

LEMMA PairingStarts ==
  ASSUME DevicesAssumption, KeysAssumption, CountsAssumption, Init
  PROVE  PairingInv
<1>1. ShownOK
  BY DEF Init, ShownOK, NoConnection, DevicesAssumption, KeysAssumption
<1>2. KeysWereGiven /\ AgreedInHand /\ GivenOnce /\ TriesAreCounted
  BY DEF Init, KeysWereGiven, KeyOnWire, AgreedInHand, GivenOnce, TriesAreCounted, NoConnection
<1>3. StrangersStayOut
  BY DEF Init, StrangersStayOut, KeysAssumption
<1> QED BY <1>1, <1>2, <1>3 DEF PairingInv

\* Nothing the host keeps changes but who is served: what is on the wire gets
\* no key, and nothing agreed is added.
LEMMA HostStays ==
  ASSUME PairingInv, UNCHANGED <<shown, code, trusted, key, given, wrong>>,
         DOMAIN wire' = Device, DOMAIN using' = Device,
         \A d \in Device : KeyOnWire(d)' => KeyOnWire(d),
         conn' = conn \/ conn' = NoConnection \/ (code # {} /\ \E d \in Device : conn' = Accepted(d)),
         asking' = "join" => asking = "join" \/ (\A c \in code : ~c.keyGiven)
  PROVE  PairingInv'
<1>1. /\ conn' \in [device: Device \cup {NoDevice}, approved: BOOLEAN, digits: {"none", "right", "wrong"}]
      /\ conn'.approved => conn' = conn
      /\ conn'.digits = "right" => conn' = conn
      /\ code = {} => conn' = NoConnection
  <2>0. /\ conn \in [device: Device \cup {NoDevice}, approved: BOOLEAN, digits: {"none", "right", "wrong"}]
        /\ code = {} => conn = NoConnection
    BY DEF PairingInv, ShownOK
  <2>1. CASE conn' = conn
    BY <2>0, <2>1
  <2>2. CASE conn' = NoConnection
    BY <2>2 DEF NoConnection
  <2>3. ASSUME code # {}, NEW d \in Device, conn' = Accepted(d)
        PROVE  /\ conn' \in [device: Device \cup {NoDevice}, approved: BOOLEAN, digits: {"none", "right", "wrong"}]
               /\ ~conn'.approved /\ conn'.digits # "right"
    BY <2>3 DEF Accepted
  <2> QED BY <2>1, <2>2, <2>3
<1>2. ShownOK'
  BY <1>1 DEF PairingInv, ShownOK
<1>3. KeysWereGiven' /\ AgreedInHand' /\ GivenOnce'
  BY <1>1 DEF PairingInv, KeysWereGiven, AgreedInHand, GivenOnce
<1>4. TriesAreCounted'
  <2>1. Out' <= Out /\ Out \in {0, 1} /\ Out' \in {0, 1}
    BY <1>1 DEF Out
  <2>2. ASSUME NEW c \in code, shown = 1 PROVE wrong + c.tries + Out' <= TRIES
    <3>1. wrong + c.tries + Out <= TRIES /\ wrong \in Nat
      BY <2>2 DEF PairingInv, TriesAreCounted, ShownOK
    <3>2. c.tries \in Nat
      BY <2>2 DEF PairingInv, ShownOK
    <3>3. CASE Out' = Out
      BY <3>1, <3>3
    <3>4. CASE Out' = 0 /\ Out = 1
      <4>1. TRIES \in Nat
        BY CountsAssumption DEF CountsAssumption
      <4> QED BY <3>1, <3>2, <3>4, <4>1
    <3> QED BY <2>1, <3>3, <3>4
  <2> HIDE DEF Out
  <2> QED BY <2>2 DEF PairingInv, TriesAreCounted
<1>5. StrangersStayOut'
  BY DEF PairingInv, StrangersStayOut
<1> QED BY <1>2, <1>3, <1>4, <1>5 DEF PairingInv

\* A message that is no key is put on a device's wire, or what is on it is
\* taken off.
Key(m) == "reply" \in DOMAIN m /\ m.reply = "Key"
LEMMA NoKeyIsSent ==
  ASSUME DOMAIN wire = Device, NEW e, NEW ms, wire' = [wire EXCEPT ![e] = ms],
         \A m \in ms : Key(m) => e \in Device /\ KeyOnWire(e)
  PROVE  DOMAIN wire' = Device /\ \A d \in Device : KeyOnWire(d)' => KeyOnWire(d)
<1>1. DOMAIN wire' = Device
  OBVIOUS
<1>2. ASSUME NEW d \in Device, KeyOnWire(d)' PROVE KeyOnWire(d)
  <2>1. PICK m \in wire'[d] : Key(m)
    BY <1>2 DEF KeyOnWire, Key
  <2>2. CASE d = e
    BY <2>1, <2>2
  <2>3. CASE d # e
    BY <2>1, <2>3 DEF KeyOnWire, Key
  <2> QED BY <2>2, <2>3
<1> QED BY <1>1, <1>2

\* Requests, and every reply but one, are no key.
LEMMA AskIsNoKey ==
  /\ \A a, c : ~Key([ask |-> a, code |-> c]) /\ ~Key([ask |-> a, right |-> c])
  /\ \A a, c, k : ~Key([ask |-> a, code |-> c, key |-> k])
  /\ \A a : ~Key([ask |-> a])
  /\ \A r : r # "Key" => /\ ~Key([reply |-> r])
                         /\ \A x : ~Key([reply |-> r, right |-> x]) /\ ~Key([reply |-> r, code |-> x])
BY DEF Key

LEMMA UsesKeeps ==
  ASSUME PairingInv, NEW d \in Device, Uses(d)
  PROVE  PairingInv'
<1> USE AskIsNoKey
<1>1. ASSUME NEW doing, NEW c, NEW m, ~Key(m), Connect(d, doing, c, m) PROVE PairingInv'
  <2>1. /\ wire' = [wire EXCEPT ![d] = {m}] /\ using' = [using EXCEPT ![d] = {c} \ {Invite(0, FALSE)}]
        /\ UNCHANGED <<shown, code, conn, asking, trusted, key, given, wrong>>
    BY <1>1 DEF Connect, Message, host, history
  <2>2. DOMAIN wire = Device /\ DOMAIN using = Device
    BY DEF PairingInv, ShownOK
  <2>3. DOMAIN wire' = Device /\ \A e \in Device : KeyOnWire(e)' => KeyOnWire(e)
    <3>1. \A n \in {m} : Key(n) => d \in Device /\ KeyOnWire(d)
      BY <1>1
    <3> QED BY <2>1, <2>2, <3>1, NoKeyIsSent
  <2> QED BY <2>1, <2>2, <2>3, HostStays
<1>2. CASE Who(d) \/ Join(d)
  BY <1>1, <1>2 DEF Who, Join
<1>3. CASE Accept(d)
  BY <1>1, <1>3 DEF Accept, Pair
<1>4. CASE Visit(d)
  BY <1>1, <1>4 DEF Visit
<1>5. CASE \E right \in BOOLEAN : Find(d, right)
  BY <1>1, <1>5 DEF Find
<1> QED BY <1>2, <1>3, <1>4, <1>5 DEF Uses

\* The key is kept that a device in the hand was given.
LEMMA GotKeyKeeps ==
  ASSUME PairingInv, NEW d \in Device, GotKey(d)
  PROVE  PairingInv'
<1>1. /\ KeyOnWire(d) /\ UNCHANGED <<shown, code, conn, asking, trusted, using, given, wrong>>
      /\ \/ /\ key' = [key EXCEPT ![d] = "host"]
            /\ wire' = [wire EXCEPT ![d] = {[ask |-> "pair", key |-> "host", code |-> CHOOSE c \in using[d] : TRUE]}]
         \/ key' = key /\ wire' = [wire EXCEPT ![d] = {}]
  BY DEF GotKey, Replied, KeyOnWire, Message, HungUp, host, history
<1>2. ShownOK /\ DOMAIN wire = Device /\ key \in [Device -> {"host", "other", "none"}]
  BY DEF PairingInv, ShownOK
<1>3. DOMAIN wire' = Device /\ \A e \in Device : KeyOnWire(e)' => KeyOnWire(e)
  <2>1. \A c : ~Key([ask |-> "pair", key |-> "host", code |-> c])
    BY DEF Key
  <2> QED BY <1>1, <1>2, <2>1, NoKeyIsSent
<1>4. key' \in [Device -> {"host", "other", "none"}] /\ \A e \in Device : e # d => key'[e] = key[e]
  BY <1>1, <1>2
<1>5. ShownOK'
  BY <1>1, <1>2, <1>3, <1>4 DEF ShownOK
<1>6. KeysWereGiven' /\ AgreedInHand' /\ GivenOnce' /\ TriesAreCounted'
  BY <1>1, <1>3 DEF PairingInv, KeysWereGiven, AgreedInHand, GivenOnce, TriesAreCounted, Out
<1>7. d \in Hand /\ \E x \in given : x[2] = d
  BY <1>1 DEF PairingInv, KeysWereGiven
<1>8. StrangersStayOut'
  BY <1>1, <1>4, <1>7 DEF PairingInv, StrangersStayOut
<1> QED BY <1>5, <1>6, <1>8 DEF PairingInv

LEMMA HearsKeeps ==
  ASSUME PairingInv, NEW d \in Device, Hears(d) \/ Break(d)
  PROVE  PairingInv'
<1>0. DOMAIN wire = Device /\ DOMAIN using = Device
  BY DEF PairingInv, ShownOK
<1>1. ASSUME NEW ms, wire' = [wire EXCEPT ![d] = ms], \A m \in ms : Key(m) => m \in wire[d],
             UNCHANGED <<shown, code, conn, asking, trusted, using, key, given, wrong>>
      PROVE  PairingInv'
  <2>1. \A m \in ms : Key(m) => KeyOnWire(d)
    BY <1>1 DEF Key, KeyOnWire
  <2> QED BY <1>0, <1>1, <2>1, NoKeyIsSent, HostStays
<1>2. CASE Fails(d) \/ Refused(d) \/ GotSealed(d) \/ GotPaired(d)
  <2>1. wire' = [wire EXCEPT ![d] = {}] /\ UNCHANGED <<shown, code, conn, asking, trusted, using, key, given, wrong>>
    BY <1>2 DEF Fails, Refused, GotSealed, GotPaired, HungUp, host, history
  <2>2. PICK none : none = {}
    OBVIOUS
  <2>3. wire' = [wire EXCEPT ![d] = none] /\ \A m \in none : Key(m) => m \in wire[d]
    BY <2>1, <2>2
  <2> QED BY <1>1, <2>1, <2>3
<1>3. CASE GotShort(d)
  <2>1. /\ wire' = [wire EXCEPT ![d] = {}] \/ wire' = [wire EXCEPT ![d] = {[ask |-> "confirm"]}]
        /\ UNCHANGED <<shown, code, conn, asking, trusted, using, key, given, wrong>>
    BY <1>3 DEF GotShort, HungUp, Message, host, history
  <2> QED BY <1>1, <2>1, AskIsNoKey
<1>4. CASE Break(d)
  <2>1. /\ wire' = [wire EXCEPT ![d] = {m \in wire[d] : "ask" \in DOMAIN m}]
        /\ UNCHANGED <<shown, code, conn, asking, trusted, using, key, given, wrong>>
    BY <1>0, <1>4 DEF Break, host, history
  <2> QED BY <1>1, <2>1
<1> QED BY <1>2, <1>3, <1>4, GotKeyKeeps DEF Hears

\* The listener closes.
LEMMA ClosedKeeps ==
  ASSUME PairingInv, Closed, UNCHANGED <<shown, trusted, wire, using, key, given, wrong>>
  PROVE  PairingInv'
<1>1. code' = {} /\ conn' = NoConnection
  BY DEF Closed
<1>2. ShownOK'
  BY <1>1 DEF PairingInv, ShownOK, NoConnection
<1>3. KeysWereGiven'
  BY DEF PairingInv, KeysWereGiven, KeyOnWire
<1>4. AgreedInHand' /\ GivenOnce' /\ TriesAreCounted' /\ StrangersStayOut'
  BY <1>1 DEF PairingInv, AgreedInHand, GivenOnce, TriesAreCounted, StrangersStayOut, NoConnection
<1> QED BY <1>2, <1>3, <1>4 DEF PairingInv

LEMMA ShowKeeps ==
  ASSUME CountsAssumption, PairingInv, NEW guest \in BOOLEAN, Show(guest)
  PROVE  PairingInv'
<1>1. /\ code = {} /\ shown' = shown + 1 /\ code' = {NewCode(shown + 1, guest)}
      /\ UNCHANGED <<conn, asking, trusted, wire, using, key, given, wrong>>
  BY DEF Show, client, history
<1>2. shown \in Nat /\ conn = NoConnection
  BY <1>1 DEF PairingInv, ShownOK
<1> DEFINE c == NewCode(shown + 1, guest)
<1>3. c.invite = Invite(shown + 1, guest) /\ c.invite.guest = guest /\ ~c.keyGiven /\ c.tries = TRIES
  BY DEF NewCode, Invite
<1>4. c \in [invite: {Invite(shown + 1, c.invite.guest)}, keyGiven: BOOLEAN, tries: Nat]
  BY <1>3 DEF NewCode, CountsAssumption
<1>5. code' = {c}
  BY <1>1
<1> HIDE DEF c
<1>6. ShownOK'
  BY <1>1, <1>2, <1>4, <1>5 DEF PairingInv, ShownOK
<1>7. KeysWereGiven' /\ AgreedInHand'
  BY <1>1 DEF PairingInv, KeysWereGiven, KeyOnWire, AgreedInHand
<1>8. GivenOnce'
  BY <1>1, <1>2, <1>3, <1>5 DEF PairingInv, GivenOnce
<1>9. Out' = 0
  BY <1>1, <1>2 DEF Out, NoConnection
<1>10. TriesAreCounted' /\ StrangersStayOut'
  <2>1. shown + 1 = 1 => wrong = 0
    BY <1>2 DEF PairingInv, TriesAreCounted
  <2>2. TRIES \in Nat /\ shown + 1 # 0
    BY <1>2 DEF CountsAssumption
  <2>3. TriesAreCounted'
    BY <1>1, <1>3, <1>5, <1>9, <2>1, <2>2 DEF TriesAreCounted
  <2>4. StrangersStayOut'
    BY <1>1, <1>3, <1>5, <2>1, <2>2 DEF PairingInv, StrangersStayOut
  <2> QED BY <2>3, <2>4
<1> QED BY <1>6, <1>7, <1>8, <1>10 DEF PairingInv

\* The host answers and lets go, takes a connection, asks the person or is
\* told no.
LEMMA AnswersKeep ==
  ASSUME PairingInv, NEW d \in Device,
         TakeConnection(d) \/ Drop \/ ServeWho(d) \/ RefuseAsk(d) \/ AskPerson(d) \/ Decline
  PROVE  PairingInv'
<1>0. DOMAIN wire = Device /\ DOMAIN using = Device
  BY DEF PairingInv, ShownOK
<1>1. ASSUME NEW e, NEW r, r # "Key", wire' = [wire EXCEPT ![e] = {Reply(r)}], conn' = NoConnection,
             UNCHANGED <<shown, code, trusted, using, key, given, wrong>>, asking' \in {asking, "nothing"}
      PROVE  PairingInv'
  <2>1. ~Key(Reply(r))
    BY <1>1, AskIsNoKey DEF Reply
  <2>2. DOMAIN wire' = Device /\ \A f \in Device : KeyOnWire(f)' => KeyOnWire(f)
    <3>1. \A n \in {Reply(r)} : Key(n) => e \in Device /\ KeyOnWire(e)
      BY <2>1
    <3> QED BY <1>0, <1>1, <3>1, NoKeyIsSent
  <2> QED BY <1>0, <1>1, <2>2, HostStays
<1>2. CASE TakeConnection(d) \/ Drop
  <2>1. /\ (conn' = NoConnection \/ (code # {} /\ conn' = Accepted(d)))
        /\ UNCHANGED <<shown, code, asking, trusted, wire, using, key, given, wrong>>
    BY <1>2 DEF TakeConnection, Drop, client, history
  <2> QED BY <1>0, <2>1, HostStays DEF KeyOnWire
<1>3. CASE ServeWho(d) \/ RefuseAsk(d)
  <2>1. \E r \in {"Who", "NotFound", "Mismatch"} : wire' = [wire EXCEPT ![d] = {Reply(r)}]
    BY <1>3 DEF ServeWho, RefuseAsk, AnswerAndLetGo, Message
  <2>2. conn' = NoConnection /\ UNCHANGED <<shown, code, asking, trusted, using, key, given, wrong>>
    BY <1>3 DEF ServeWho, RefuseAsk, AnswerAndLetGo, history
  <2> QED BY <1>1, <2>1, <2>2
<1>4. CASE Decline
  <2>1. /\ wire' = [wire EXCEPT ![conn.device] = {Reply("Declined")}] /\ conn' = NoConnection
        /\ asking' = "nothing" /\ UNCHANGED <<shown, code, trusted, using, key, given, wrong>>
    BY <1>4 DEF Decline, AnswerAndLetGo, Message, history
  <2> QED BY <1>1, <2>1
<1>5. CASE AskPerson(d)
  <2>1. /\ ~Unfit(Asked(d)) /\ asking' = Asked(d).ask /\ code # {}
        /\ UNCHANGED <<shown, code, conn, trusted, wire, using, key, given, wrong>>
    BY <1>5 DEF AskPerson, Serving, client, history
  <2>2. asking' = "join" => ~Code.keyGiven
    BY <2>1 DEF Unfit
  <2>3. code = {Code}
    BY <2>1, TheCode DEF PairingInv
  <2>4. asking' = "join" => \A c \in code : ~c.keyGiven
    BY <2>2, <2>3
  <2> QED BY <1>0, <2>1, <2>4, HostStays DEF KeyOnWire
<1> QED BY <1>2, <1>3, <1>4, <1>5

\* A try spent is out on the connection if it was right, and gone if not;
\* given back, it is out no longer.
LEMMA DigitsKeep ==
  ASSUME CountsAssumption, PairingInv, NEW d \in Device, ServeShort(d) \/ ServeConfirm(d)
  PROVE  PairingInv'
<1>0. ShownOK /\ DOMAIN wire = Device /\ DOMAIN using = Device /\ code # {} /\ TRIES \in Nat
  BY DEF PairingInv, ShownOK, ServeShort, ServeConfirm, Serving, CountsAssumption
<1>1. UNCHANGED <<shown, asking, trusted, using, key, given>>
  BY DEF ServeShort, ServeConfirm, history
<1>2. /\ code = {Code} /\ Code.keyGiven \in BOOLEAN /\ Code.tries \in Nat /\ shown > 0 /\ Code \in code
      /\ Code \in [invite: {Invite(shown, Code.invite.guest)}, keyGiven: BOOLEAN, tries: Nat]
  BY <1>0, TheCode
<1>3. /\ conn \in [device: Device \cup {NoDevice}, approved: BOOLEAN, digits: {"none", "right", "wrong"}]
      /\ wrong \in Nat /\ shown \in Nat
  BY <1>0 DEF ShownOK
<1> DEFINE old == Code
<1>4. ASSUME NEW new, code' = {new}, new \in [invite: {old.invite}, keyGiven: {old.keyGiven}, tries: Nat],
             NEW m, ~Key(m), wire' = [wire EXCEPT ![d] = {m}], wrong' \in Nat,
             conn' \in [device: {conn.device}, approved: {conn.approved}, digits: {"none", "right", "wrong"}]
               \/ conn' = NoConnection,
             shown = 1 => wrong' + new.tries + Out' <= TRIES
      PROVE  PairingInv'
  <2>1. /\ new.invite = old.invite /\ new.keyGiven = old.keyGiven /\ new.tries \in Nat
        /\ new \in [invite: {Invite(shown, new.invite.guest)}, keyGiven: BOOLEAN, tries: Nat]
    BY <1>2, <1>4
  <2>2. conn' \in [device: Device \cup {NoDevice}, approved: BOOLEAN, digits: {"none", "right", "wrong"}]
        /\ (conn'.approved => conn.approved /\ conn'.device = conn.device)
    <3>1. CASE conn' = NoConnection
      BY <3>1 DEF NoConnection
    <3>2. CASE conn' \in [device: {conn.device}, approved: {conn.approved}, digits: {"none", "right", "wrong"}]
      BY <1>3, <3>2
    <3> QED BY <1>4, <3>1, <3>2
  <2>3. DOMAIN wire' = Device /\ \A e \in Device : KeyOnWire(e)' => KeyOnWire(e)
    <3>1. \A n \in {m} : Key(n) => d \in Device /\ KeyOnWire(d)
      BY <1>4
    <3>2. DOMAIN wire = Device /\ wire' = [wire EXCEPT ![d] = {m}]
      BY <1>0, <1>4
    <3> QED BY <3>1, <3>2, NoKeyIsSent
  <2> HIDE DEF old
  <2>4. ShownOK'
    BY <1>0, <1>1, <1>2, <1>4, <2>1, <2>2, <2>3 DEF ShownOK
  <2>5. KeysWereGiven' /\ AgreedInHand'
    BY <1>1, <2>2, <2>3 DEF PairingInv, KeysWereGiven, AgreedInHand
  <2>6. GivenOnce'
    <3>1. (~old.keyGiven => \A x \in given : x[1] # shown) /\ (asking = "join" => ~old.keyGiven)
      BY <1>2 DEF PairingInv, GivenOnce, old
    <3> QED BY <1>1, <1>4, <2>1, <3>1 DEF PairingInv, GivenOnce
  <2>7. TriesAreCounted'
    BY <1>1, <1>2, <1>3, <1>4 DEF TriesAreCounted
  <2>8. StrangersStayOut'
    <3>1. Out' \in {0, 1}
      BY DEF Out
    <3>2. shown = 1 => wrong' <= TRIES - new.tries
      <4> HIDE DEF Out
      <4> QED BY <1>0, <1>4, <2>1, <3>1
    <3> QED BY <1>1, <1>4, <3>2 DEF PairingInv, StrangersStayOut
  <2> QED BY <2>4, <2>5, <2>6, <2>7, <2>8 DEF PairingInv
<1>5. shown = 1 => wrong + Code.tries + Out <= TRIES
  BY <1>2 DEF PairingInv, TriesAreCounted
<1>6. CASE ServeConfirm(d)
  <2>1. /\ conn.digits = "right" /\ code' = {Refund(Code)} /\ conn' = NoConnection /\ wrong' = wrong
        /\ wire' = [wire EXCEPT ![d] = {[reply |-> "Sealed", code |-> Code.invite]}]
    BY <1>6 DEF ServeConfirm, AnswerAndLetGo, Message, history
  <2>2. /\ Refund(Code) \in [invite: {old.invite}, keyGiven: {old.keyGiven}, tries: Nat]
        /\ Refund(Code).tries = Code.tries + 1
    BY <1>2 DEF Refund
  <2>3. Out = 1 /\ Out' = 0
    BY <2>1 DEF Out, NoConnection
  <2>4. ~Key([reply |-> "Sealed", code |-> Code.invite])
    BY AskIsNoKey
  <2> HIDE DEF Out
  <2>5. shown = 1 => wrong' + Refund(Code).tries + Out' <= TRIES
    BY <1>0, <1>2, <1>3, <1>5, <2>1, <2>2, <2>3
  <2> QED BY <1>3, <1>4, <2>1, <2>2, <2>4, <2>5
<1>7. CASE ServeShort(d) /\ Code.tries = 0
  <2>1. /\ UNCHANGED <<code, wrong>> /\ conn' = NoConnection
        /\ wire' = [wire EXCEPT ![d] = {Reply("Withdrawn")}]
    BY <1>7 DEF ServeShort, AnswerAndLetGo, Message
  <2>2. ~Key(Reply("Withdrawn"))
    BY AskIsNoKey DEF Reply
  <2>3. DOMAIN wire' = Device /\ \A e \in Device : KeyOnWire(e)' => KeyOnWire(e)
    <3>1. \A n \in {Reply("Withdrawn")} : Key(n) => d \in Device /\ KeyOnWire(d)
      BY <2>2
    <3> QED BY <1>0, <2>1, <3>1, NoKeyIsSent
  <2> QED BY <1>0, <1>1, <2>1, <2>3, HostStays
<1>8. CASE ServeShort(d) /\ Code.tries # 0
  <2>1. PICK right : right = Asked(d).right
    OBVIOUS
  <2>2. /\ code' = {Spend(Code)} /\ conn' = [conn EXCEPT !.digits = IF right THEN "right" ELSE "wrong"]
        /\ wire' = [wire EXCEPT ![d] = {[reply |-> "Short", right |-> right]}]
        /\ wrong' = wrong + (IF right THEN 0 ELSE 1)
    BY <1>8, <2>1 DEF ServeShort, Message
  <2>3. /\ Spend(Code) \in [invite: {old.invite}, keyGiven: {old.keyGiven}, tries: Nat]
        /\ Spend(Code).tries = Code.tries - 1
    BY <1>2, <1>8 DEF Spend
  <2>4. /\ Out' = IF right THEN 1 ELSE 0
        /\ conn' \in [device: {conn.device}, approved: {conn.approved}, digits: {"none", "right", "wrong"}]
    BY <1>3, <2>2 DEF Out
  <2>5. ~Key([reply |-> "Short", right |-> right])
    BY AskIsNoKey
  <2>6. Out \in {0, 1}
    BY DEF Out
  <2> HIDE DEF Out
  <2>7. wrong' + Spend(Code).tries + Out' = wrong + Code.tries /\ wrong' \in Nat
    BY <1>2, <1>3, <2>2, <2>3, <2>4
  <2>8. shown = 1 => wrong' + Spend(Code).tries + Out' <= TRIES
    BY <1>0, <1>2, <1>3, <1>5, <2>6, <2>7
  <2> QED BY <1>4, <2>2, <2>3, <2>4, <2>5, <2>7, <2>8
<1> QED BY <1>6, <1>7, <1>8

\* The person says yes to a device in their hand: the key goes out, once.
LEMMA ApproveJoinKeeps ==
  ASSUME PairingInv, ApproveJoin
  PROVE  PairingInv'
<1>1. PICK d : d = conn.device
  OBVIOUS
<1>2. d \in Hand
  BY <1>1, MatchesInHand DEF ApproveJoin
<1>3. code # {} /\ asking = "join" /\ UNCHANGED <<shown, trusted, using, key, wrong>>
  BY DEF ApproveJoin
<1>4. CASE Closed /\ UNCHANGED <<wire, given>>
  BY <1>3, <1>4, ClosedKeeps
<1>5. CASE /\ code' = {GivesKey(Code)} /\ conn' = [conn EXCEPT !.approved = TRUE] /\ asking' = "nothing"
           /\ wire' = [wire EXCEPT ![d] = IF link[d] = "open" THEN {Reply("Key")} ELSE {}]
           /\ given' = given \cup {<<Code.invite.n, d, asks[d]>>}
  <2>0. ShownOK
    BY DEF PairingInv
  <2>1. /\ Code \in code /\ Code.invite.n = shown /\ Code.tries \in Nat /\ shown > 0
        /\ Code \in [invite: {Invite(shown, Code.invite.guest)}, keyGiven: BOOLEAN, tries: Nat]
    BY <1>3, <2>0, TheCode
  <2> DEFINE new == GivesKey(Code)
  <2>2. /\ new \in [invite: {Invite(shown, new.invite.guest)}, keyGiven: BOOLEAN, tries: Nat]
        /\ new.keyGiven = TRUE /\ new.tries = Code.tries
    BY <2>1 DEF GivesKey
  <2>3. code' = {new}
    BY <1>5
  <2> HIDE DEF new
  <2>4. conn' \in [device: Device \cup {NoDevice}, approved: BOOLEAN, digits: {"none", "right", "wrong"}]
        /\ conn'.device = d /\ conn'.digits = conn.digits
    BY <1>1, <1>5, <2>0 DEF ShownOK
  <2>5. DOMAIN wire = Device /\ DOMAIN wire' = Device
    BY <1>5, <2>0 DEF ShownOK
  <2>6. ShownOK'
    BY <1>3, <2>0, <2>1, <2>2, <2>3, <2>4, <2>5 DEF ShownOK
  <2> DEFINE x == <<Code.invite.n, d, asks[d]>>
  <2>7. x[1] = shown /\ x[2] = d /\ given' = given \cup {x}
    BY <1>5, <2>1
  <2> HIDE DEF x
  <2>8. KeysWereGiven'
    <3>1. SUFFICES ASSUME NEW e \in Device, KeyOnWire(e)' PROVE e \in Hand /\ \E y \in given' : y[2] = e
      BY DEF KeysWereGiven
    <3>2. CASE e = d
      BY <1>2, <2>7, <3>2
    <3>3. CASE e # d
      <4>1. wire'[e] = wire[e]
        BY <1>5, <2>5, <3>3
      <4>2. KeyOnWire(e)
        BY <3>1, <4>1 DEF KeyOnWire
      <4> QED BY <2>7, <4>2 DEF PairingInv, KeysWereGiven
    <3> QED BY <3>2, <3>3
  <2>9. AgreedInHand'
    BY <1>2, <2>4 DEF AgreedInHand
  <2>10. shown \in Nat /\ \A y \in given : y[1] # shown
    BY <1>3, <2>0, <2>1 DEF PairingInv, GivenOnce, ShownOK
  <2>11. GivenOnce'
    BY <1>3, <1>5, <2>2, <2>3, <2>7, <2>10 DEF PairingInv, GivenOnce
  <2>12. TriesAreCounted'
    BY <1>3, <2>1, <2>2, <2>3, <2>4 DEF PairingInv, TriesAreCounted, Out
  <2>13. StrangersStayOut'
    BY <1>3, <2>1, <2>2, <2>3, <2>7, <2>10 DEF PairingInv, StrangersStayOut
  <2> QED BY <2>6, <2>8, <2>9, <2>11, <2>12, <2>13 DEF PairingInv
<1> QED BY <1>1, <1>4, <1>5 DEF ApproveJoin

\* A device is let in that the person said yes to, now or on this connection.
LEMMA LetInKeeps ==
  ASSUME PairingInv, NEW d \in Hand, NEW visit \in BOOLEAN, LetIn(d, visit)
  PROVE  PairingInv'
<1>1. /\ trusted' = [trusted EXCEPT ![d] = Trusted(d, visit)] /\ asking' = "done"
      /\ \E r \in {"Welcome", "Paired"} : \E ms \in {{Reply(r)}, {}} : wire' = [wire EXCEPT ![d] = ms]
      /\ UNCHANGED <<shown, code, conn, using, key, given, wrong>>
  BY DEF LetIn
<1>2. ShownOK
  BY DEF PairingInv
<1>3. trusted' \in [Device -> {"none", "own", "guest"}] /\ \A e \in Device : e # d => trusted'[e] = trusted[e]
  <2>1. trusted \in [Device -> {"none", "own", "guest"}]
    BY <1>2 DEF ShownOK
  <2>2. d \in Device => Trusted(d, visit) \in {"none", "own", "guest"}
    BY <2>1 DEF Trusted
  <2> QED BY <1>1, <2>1, <2>2
<1>4. DOMAIN wire' = Device /\ \A e \in Device : KeyOnWire(e)' => KeyOnWire(e)
  <2>1. PICK r \in {"Welcome", "Paired"} : \E ms \in {{Reply(r)}, {}} : wire' = [wire EXCEPT ![d] = ms]
    BY <1>1
  <2>2. PICK ms \in {{Reply(r)}, {}} : wire' = [wire EXCEPT ![d] = ms]
    BY <2>1
  <2>3. ~Key(Reply(r))
    BY AskIsNoKey DEF Reply
  <2>4. \A m \in ms : Key(m) => d \in Device /\ KeyOnWire(d)
    BY <2>2, <2>3
  <2>5. DOMAIN wire = Device
    BY <1>2 DEF ShownOK
  <2> QED BY <2>2, <2>4, <2>5, NoKeyIsSent
<1>5. ShownOK'
  BY <1>1, <1>2, <1>3, <1>4 DEF ShownOK
<1>6. KeysWereGiven' /\ AgreedInHand' /\ GivenOnce' /\ TriesAreCounted'
  BY <1>1, <1>4 DEF PairingInv, KeysWereGiven, AgreedInHand, GivenOnce, TriesAreCounted, Out
<1>7. StrangersStayOut'
  BY <1>1, <1>3 DEF PairingInv, StrangersStayOut
<1> QED BY <1>5, <1>6, <1>7 DEF PairingInv

LEMMA PairingStep ==
  ASSUME CountsAssumption, PairingInv, [Next]_vars
  PROVE  PairingInv'
<1>1. CASE Expire \/ Done
  <2>1. Closed /\ UNCHANGED <<shown, trusted, wire, using, key, given, wrong>>
    BY <1>1 DEF Expire, Done, history
  <2> QED BY <2>1, ClosedKeeps
<1>2. CASE Drop \/ Decline
  <2>1. CASE Device = {}
    <3>1. UNCHANGED <<shown, code, trusted, using, key, given, wrong>> /\ conn' = NoConnection
          /\ (asking' = asking \/ asking' = "nothing")
          /\ (wire' = wire \/ \E m : wire' = [wire EXCEPT ![conn.device] = {m}])
      BY <1>2 DEF Drop, Decline, AnswerAndLetGo, Message, client, history
    <3>2. DOMAIN wire = Device /\ DOMAIN using = Device
      BY DEF PairingInv, ShownOK
    <3>3. DOMAIN wire' = Device
      BY <3>1, <3>2
    <3> QED BY <2>1, <3>1, <3>2, <3>3, HostStays
  <2>2. CASE Device # {}
    BY <1>2, <2>2, AnswersKeep
  <2> QED BY <2>1, <2>2
<1>3. CASE ApprovePair
  <2>1. conn.device \in Hand /\ LetIn(conn.device, asking = "visit") /\ (asking = "visit") \in BOOLEAN
    BY <1>3, MatchesInHand DEF ApprovePair
  <2> QED BY <2>1, LetInKeeps
<1>4. ASSUME NEW d \in Device, ServeJoined(d) PROVE PairingInv'
  <2>1. conn.approved /\ conn.device = d /\ LetIn(d, FALSE)
    BY <1>4 DEF ServeJoined, Approved, Serving
  <2>2. d \in Hand
    BY <2>1 DEF PairingInv, AgreedInHand
  <2> QED BY <2>1, <2>2, LetInKeeps
<1>5. CASE UNCHANGED vars
  <2>1. UNCHANGED <<shown, code, conn, asking, trusted, wire, using, key, given, wrong>>
    BY <1>5 DEF vars, host, client, history
  <2>2. DOMAIN wire' = Device /\ DOMAIN using' = Device
    BY <2>1 DEF PairingInv, ShownOK
  <2> QED BY <2>1, <2>2, HostStays DEF KeyOnWire
<1>6. ASSUME NEW d \in Device, Uses(d) \/ Hears(d) \/ Serves(d) \/ Break(d) PROVE PairingInv'
  BY <1>4, <1>6, UsesKeeps, HearsKeeps, AnswersKeep, DigitsKeep DEF Serves
<1>7. CASE \E guest \in BOOLEAN : Show(guest)
  BY <1>7, ShowKeeps
<1> QED BY <1>1, <1>2, <1>3, <1>5, <1>6, <1>7, ApproveJoinKeeps DEF Next

\* Whoever saw or guessed a code, pairing.rs trusts a device, and sends it the
\* key, only if the person matched the number with one in their hand; a code
\* sends the key once, and a wrong guess at its digits is never given back.
THEOREM StrangersAreKeptOut == Spec => []StrangersStayOut
<1>1. Init => PairingInv
  BY PairingStarts, DevicesAssumption, KeysAssumption, CountsAssumption
<1>2. PairingInv /\ [Next]_vars => PairingInv'
  BY PairingStep, CountsAssumption
<1>3. PairingInv => StrangersStayOut
  BY DEF PairingInv
<1> QED BY <1>1, <1>2, <1>3, PTL DEF Spec
=============================================================================
