------------------------------ MODULE Pairing ------------------------------
(***************************************************************************)
(* Pairing.  A device shows a code; others, which saw the code or were     *)
(* given its six digits, connect one at a time and ask to join, to pair or *)
(* to visit, and are let in once the person at the device showing the code *)
(* has compared the number on both screens.                                *)
(*                                                                         *)
(* Modelled: crates/peer/src/pairing.rs and short.rs, the trust functions  *)
(* of crates/storage/src/db.rs, and the pairing part of                    *)
(* crates/mobile-ffi/src/lib.rs.                                           *)
(*                                                                         *)
(* Data.  A code is its number, which stands for its token, and whether it *)
(* is for guests; its digits are right or wrong.  The number both screens  *)
(* show is the pair it is a hash of.  A reply is read, or lost with the    *)
(* connection.  Time is the deadline of the code, which may pass whenever. *)
(***************************************************************************)
EXTENDS Naturals, FiniteSets

CONSTANTS
    Device,      \* the devices that use codes
    Hand,        \* those in the hand of the person at the device showing one
    KeyOf,       \* the key each begins with: "host", "other" or "none"
    NoDevice,
    TRIES,       \* wrong digits allowed a code
    MaxCodes,    \* bound: codes shown
    MaxAsks      \* bound: connections each device makes

ASSUME DevicesAssumption == Hand \subseteq Device /\ NoDevice \notin Device
ASSUME KeysAssumption == KeyOf \in [Device -> {"host", "other", "none"}]
ASSUME CountsAssumption ==
    TRIES \in Nat \ {0} /\ MaxCodes \in Nat /\ MaxAsks \in [Device -> Nat]

VARIABLES
    shown,     \* how many codes were shown
    code,      \* the code being shown: a set of at most one
    conn,      \* the connection being served, with what was agreed on it
    asking,    \* what the person is being asked: "nothing", or "done"
    trusted,   \* the trust store of the device showing codes
    link,      \* each device's connection
    wire,      \* the request or reply on it: a set of at most one
    step,      \* what each device is doing
    using,     \* the code each device uses, and shows a number for
    knows,     \* the codes each device has
    key, trusts,
    asks,
    approvals, given, wrong    \* history

host == <<shown, code, conn, asking, trusted>>
client == <<link, wire, step, using, knows, key, trusts, asks>>
history == <<approvals, given, wrong>>
vars == <<host, client, history>>

-----------------------------------------------------------------------------
(* The code, its number and its digits.                                    *)

Invite(n, guest) == [n |-> n, guest |-> guest]

\* pairing_number: of both certificates and the token.
NumberOfCode(d, n) == <<n>>
Number(d, n) == <<d, n>>

\* A code being shown: once its key has gone to one device no other gets it.
NewCode(n, guest) ==
    [invite |-> Invite(n, guest), keyGiven |-> FALSE, tries |-> TRIES]

Code == CHOOSE c \in code : TRUE
RightToken(c) == code # {} /\ c.n = Code.invite.n

\* Offered::spend and refund.  Counted before anything is sent.
Unspent(c) == c
Spend(c) == [c EXCEPT !.tries = @ - 1]
RefundTwice(c) == [c EXCEPT !.tries = @ + 2]
Refund(c) == [c EXCEPT !.tries = @ + 1]

NoConnection == [device |-> NoDevice, approved |-> FALSE, digits |-> "none"]

Accepted(d) == [device |-> d, approved |-> FALSE, digits |-> "none"]

\* Whether a device is approved already: by its Join on this connection.
ApprovedOnCode == Code.keyGiven
Approved == conn.approved

-----------------------------------------------------------------------------
(* Showing a code.                                                         *)

Show(guest) ==
    /\ code = {}
    /\ shown < MaxCodes
    /\ shown' = shown + 1
    /\ code' = {NewCode(shown', guest)}
    /\ UNCHANGED <<conn, asking, trusted, client, history>>

\* The listener closes: its code is over, and everyone connected is cut off.
Closed ==
    /\ code' = {}
    /\ conn' = NoConnection
    /\ asking' = "nothing"
    /\ link' = [d \in Device |-> IF link[d] = "none" THEN "none" ELSE "cut"]

\* The deadline of wait passes, or the person gives up.
NeverExpires == FALSE /\ UNCHANGED vars
Expire ==
    /\ code # {}
    /\ Closed
    /\ UNCHANGED <<shown, trusted, wire, step, using, knows, key, trusts, asks>>
    /\ UNCHANGED history

\* The codes a device may use: those it has, and the one on the screen, which
\* it scans or is read out.
Seen(d) == knows[d] \cup {c.invite : c \in code}

-----------------------------------------------------------------------------
(* A device that uses one.                                                 *)

Message(d, m) == wire' = [wire EXCEPT ![d] = {m}]

Connect(d, doing, c, m) ==
    /\ code # {}
    /\ step[d] = "idle" /\ link[d] = "none" /\ conn.device # d
    /\ asks[d] < MaxAsks[d]
    /\ asks' = [asks EXCEPT ![d] = @ + 1]
    /\ link' = [link EXCEPT ![d] = "queued"]
    /\ step' = [step EXCEPT ![d] = doing]
    /\ using' = [using EXCEPT ![d] = {c} \ {Invite(0, FALSE)}]
    /\ knows' = [knows EXCEPT ![d] = @ \cup using'[d]]
    /\ Message(d, m)
    /\ UNCHANGED <<host, key, trusts, history>>

\* who: asked before joining, on a connection of its own.
Who(d) == \E c \in Seen(d) : Connect(d, "who", c, [ask |-> "who", code |-> c])

\* join: with no key.  accept: with one.  visit: with a guest's code.
Join(d) ==
    /\ key[d] = "none"
    /\ \E c \in Seen(d) : Connect(d, "join", c, [ask |-> "join", code |-> c])
Pair(d, c) == [ask |-> "pair", code |-> c, key |-> key[d]]
Accept(d) ==
    /\ key[d] # "none"
    /\ \E c \in Seen(d) : ~c.guest /\ Connect(d, "pair", c, Pair(d, c))
Visit(d) ==
    /\ key[d] # "none"
    /\ \E c \in Seen(d) : c.guest /\ Connect(d, "visit", c, [ask |-> "visit", code |-> c])

\* find: six digits, right or wrong, tried with the device offering them.
\* (It has no code yet, and shows no number.)
Find(d, right) ==
    Connect(d, "short", Invite(0, FALSE), [ask |-> "short", right |-> right])

\* The connection ends at this device: hang_up, or it was cut.
HungUp(d) ==
    /\ link' = [link EXCEPT ![d] = "none"]
    /\ wire' = [wire EXCEPT ![d] = {}]
    /\ step' = [step EXCEPT ![d] = "idle"]

Fails(d) ==
    /\ link[d] = "cut"
    /\ HungUp(d)
    /\ UNCHANGED <<host, using, knows, key, trusts, asks, history>>

Replied(d, reply) == \E m \in wire[d] : "reply" \in DOMAIN m /\ m.reply = reply

Refusals == {"NotFound", "Declined", "Mismatch", "Withdrawn", "Who"}
Refused(d) ==
    /\ \E r \in Refusals : Replied(d, r)
    /\ HungUp(d)
    /\ UNCHANGED <<host, using, knows, key, trusts, asks, history>>

\* exchange: the other's confirmation is checked, then one's own is sent.
GotShort(d) ==
    /\ Replied(d, "Short")
    /\ LET right == \E m \in wire[d] : m.right
       IN  IF right
           THEN /\ step' = [step EXCEPT ![d] = "confirm"]
                /\ Message(d, [ask |-> "confirm"])
                /\ UNCHANGED link
           ELSE HungUp(d)
    /\ UNCHANGED <<host, using, knows, key, trusts, asks, history>>

GotSealed(d) ==
    /\ Replied(d, "Sealed")
    /\ knows' = [knows EXCEPT ![d] = @ \cup {m.code : m \in wire[d]}]
    /\ HungUp(d)
    /\ UNCHANGED <<host, using, key, trusts, asks, history>>

\* The key arrives: this device is set up with it, and then pairs on the same
\* connection; or setting it up fails.
GotKey(d) ==
    /\ Replied(d, "Key")
    /\ \/ /\ key' = [key EXCEPT ![d] = "host"]
          /\ step' = [step EXCEPT ![d] = "pair"]
          /\ Message(d, [ask |-> "pair", key |-> "host",
                         code |-> CHOOSE c \in using[d] : TRUE])
          /\ UNCHANGED link
       \/ HungUp(d) /\ UNCHANGED key
    /\ UNCHANGED <<host, using, knows, trusts, asks, history>>

\* pair_on's end, and visit's.
GotPaired(d) ==
    /\ Replied(d, "Paired") \/ Replied(d, "Welcome")
    /\ trusts' = [trusts EXCEPT ![d] = IF step[d] = "visit" THEN "host" ELSE "own"]
    /\ HungUp(d)
    /\ UNCHANGED <<host, using, knows, key, asks, history>>

-----------------------------------------------------------------------------
(* The device showing the code: accept_one.                                *)

TakeConnection(d) ==
    /\ code # {} /\ conn.device = NoDevice
    /\ link[d] = "queued"
    /\ conn' = Accepted(d)
    /\ link' = [link EXCEPT ![d] = "open"]
    /\ UNCHANGED <<shown, code, asking, trusted, wire, step, using, knows, key,
                   trusts, asks, history>>

\* The connection served is gone: on to the next.
Drop ==
    /\ conn.device # NoDevice /\ asking = "nothing"
    /\ link[conn.device] \in {"none", "cut"}
    /\ conn' = NoConnection
    /\ UNCHANGED <<shown, code, asking, trusted, client, history>>

Serving(d, ask) ==
    /\ code # {} /\ conn.device = d /\ asking = "nothing"
    /\ \E m \in wire[d] : "ask" \in DOMAIN m /\ m.ask = ask

Asked(d) == CHOOSE m \in wire[d] : TRUE

\* answer: the reply is given two seconds to leave, and the connection is let
\* go.
AnswerAndLetGo(d, reply) ==
    /\ Message(d, reply)
    /\ conn' = NoConnection
    /\ link' = [link EXCEPT ![d] = IF @ = "none" THEN @ ELSE "cut"]

Reply(r) == [reply |-> r]

ServeWho(d) ==
    /\ Serving(d, "who")
    /\ AnswerAndLetGo(d, Reply(IF RightToken(Asked(d).code) THEN "Who" ELSE "NotFound"))
    /\ UNCHANGED <<shown, code, asking, trusted, step, using, knows, key, trusts,
                   asks, history>>

\* Exchange::answer, of the first request: one exchange a connection, and a
\* try is spent before this side's confirmation shows whether they were right.
ServeShort(d) ==
    /\ Serving(d, "short")
    /\ LET right == Asked(d).right
       IN  IF Code.tries = 0
           THEN /\ AnswerAndLetGo(d, Reply("Withdrawn"))
                /\ UNCHANGED <<code, wrong>>
           ELSE /\ code' = {Spend(Code)}
                /\ conn' = [conn EXCEPT !.digits = IF right THEN "right" ELSE "wrong"]
                /\ Message(d, [reply |-> "Short", right |-> right])
                /\ wrong' = wrong + (IF right THEN 0 ELSE 1)
                /\ UNCHANGED link
    /\ UNCHANGED <<shown, asking, trusted, step, using, knows, key, trusts, asks,
                   approvals, given>>

\* And of the second: the try is given back, and the long code sealed.
ServeConfirm(d) ==
    /\ Serving(d, "confirm")
    /\ conn.digits = "right"
    /\ code' = {Refund(Code)}
    /\ AnswerAndLetGo(d, [reply |-> "Sealed", code |-> Code.invite])
    /\ UNCHANGED <<shown, asking, trusted, step, using, knows, key, trusts, asks,
                   history>>

\* Asked to pair by the wrong code; by a guest's code as one's own, or the
\* other way round; with another key; or for the key once it has been given.
Unfit(m) ==
    \/ ~RightToken(m.code)
    \/ Code.invite.guest # (m.ask = "visit")
    \/ m.ask = "join" /\ Code.keyGiven
    \/ m.ask = "pair" /\ m.key # "host"

RefuseAsk(d) ==
    /\ \E ask \in {"join", "pair", "visit"} : Serving(d, ask)
    /\ Unfit(Asked(d))
    /\ AnswerAndLetGo(d, Reply(
          IF /\ RightToken(Asked(d).code) /\ ~Code.invite.guest
             /\ Asked(d).ask = "pair"
          THEN "Mismatch" ELSE "NotFound"))
    /\ UNCHANGED <<shown, code, asking, trusted, step, using, knows, key, trusts,
                   asks, history>>

\* approve: the person is shown who asks.  While they decide nothing else is
\* read, not even that the device has gone.
AskPerson(d) ==
    /\ \E ask \in {"join", "pair", "visit"} : Serving(d, ask)
    /\ ~Unfit(Asked(d))
    /\ Asked(d).ask = "pair" => ~Approved
    /\ asking' = Asked(d).ask
    /\ UNCHANGED <<shown, code, conn, trusted, client, history>>

\* The person compares the number with the one on the device in their hand.
Matches(d) ==
    \E h \in Hand : \E c \in using[h] : Number(h, c.n) = Number(d, Code.invite.n)

Decline ==
    /\ code # {} /\ asking \in {"join", "pair", "visit"}
    /\ asking' = "nothing"
    /\ AnswerAndLetGo(conn.device, Reply("Declined"))
    /\ UNCHANGED <<shown, code, trusted, step, using, knows, key, trusts, asks,
                   history>>

Approval == approvals' = approvals \cup {<<Code.invite.n, conn.device>>}

\* The key goes to a device with none; its Pair follows on this connection.
\* Writing to a connection that is gone may fail, which ends the wait.
GivesKeyAgain(c) == c
GivesKey(c) == [c EXCEPT !.keyGiven = TRUE]

ApproveJoin ==
    LET d == conn.device
    IN  /\ code # {} /\ asking = "join" /\ Matches(d)
        /\ Approval
        /\ \/ /\ code' = {GivesKey(Code)}
              /\ conn' = [conn EXCEPT !.approved = TRUE]
              /\ asking' = "nothing"
              /\ wire' = [wire EXCEPT ![d] = IF link[d] = "open" THEN {Reply("Key")} ELSE {}]
              /\ given' = given \cup {<<Code.invite.n, d, asks[d]>>}
              /\ UNCHANGED link
           \/ /\ link[d] # "open"
              /\ Closed
              /\ UNCHANGED <<wire, given>>
        /\ UNCHANGED <<shown, trusted, step, using, knows, key, trusts, asks, wrong>>

\* trust_peer and trust_visitor: a device already there keeps its relation,
\* unless it becomes a guest.
Trusted(d, visit) ==
    CASE visit -> "guest"
      [] ~visit /\ trusted[d] = "none" -> "own"
      [] OTHER -> trusted[d]

\* Recorded before the reply is sent.
LetIn(d, visit) ==
    /\ trusted' = [trusted EXCEPT ![d] = Trusted(d, visit)]
    /\ asking' = "done"
    /\ wire' = [wire EXCEPT ![d] =
                  IF link[d] = "open"
                  THEN {Reply(IF visit THEN "Welcome" ELSE "Paired")} ELSE {}]
    /\ UNCHANGED <<shown, code, conn, link, step, using, knows, key, trusts, asks>>
    /\ UNCHANGED <<given, wrong>>

ApprovePair ==
    /\ code # {} /\ asking \in {"pair", "visit"} /\ Matches(conn.device)
    /\ Approval
    /\ LetIn(conn.device, asking = "visit")

\* Approved already, by its Join on this connection.
ServeJoined(d) ==
    /\ Serving(d, "pair")
    /\ ~Unfit(Asked(d))
    /\ Approved
    /\ LetIn(d, FALSE)
    /\ UNCHANGED approvals

\* wait returns once the device has hung up, and the listener closes.
Done ==
    /\ asking = "done"
    /\ link[conn.device] \in {"none", "cut"}
    /\ Closed
    /\ UNCHANGED <<shown, trusted, wire, step, using, knows, key, trusts, asks, history>>

\* The network: a connection is lost, with what is on it.
Break(d) ==
    /\ link[d] \in {"queued", "open"}
    /\ link' = [link EXCEPT ![d] = "cut"]
    /\ wire' = [wire EXCEPT ![d] = {m \in @ : "ask" \in DOMAIN m}]
    /\ UNCHANGED <<host, step, using, knows, key, trusts, asks, history>>

-----------------------------------------------------------------------------
Init ==
    /\ shown = 0 /\ code = {} /\ conn = NoConnection /\ asking = "nothing"
    /\ trusted = [d \in Device |-> "none"]
    /\ link = [d \in Device |-> "none"]
    /\ wire = [d \in Device |-> {}]
    /\ step = [d \in Device |-> "idle"]
    /\ using = [d \in Device |-> {}]
    /\ knows = [d \in Device |-> {}]
    /\ key = KeyOf
    /\ trusts = [d \in Device |-> "none"]
    /\ asks = [d \in Device |-> 0]
    /\ approvals = {} /\ given = {} /\ wrong = 0

Uses(d) ==
    \/ Who(d) \/ Join(d) \/ Accept(d) \/ Visit(d)
    \/ \E right \in BOOLEAN : Find(d, right)

Hears(d) ==
    \/ Fails(d) \/ Refused(d) \/ GotShort(d) \/ GotSealed(d) \/ GotKey(d)
    \/ GotPaired(d)

Serves(d) ==
    \/ TakeConnection(d) \/ ServeWho(d) \/ ServeShort(d) \/ ServeConfirm(d)
    \/ RefuseAsk(d) \/ AskPerson(d) \/ ServeJoined(d)

Next ==
    \/ \E guest \in BOOLEAN : Show(guest)
    \/ Expire \/ Drop \/ Done
    \/ Decline \/ ApproveJoin \/ ApprovePair
    \/ \E d \in Device : Uses(d) \/ Hears(d) \/ Serves(d) \/ Break(d)

Spec == Init /\ [][Next]_vars

\* The deadline of a code passes, and a device that has heard, or was cut
\* off, goes on.
FairSpec ==
    /\ Spec
    /\ WF_vars(Expire)
    /\ \A d \in Device : WF_vars(Hears(d))

-----------------------------------------------------------------------------
(* Properties.                                                             *)

TypeOK ==
    /\ shown \in 0..MaxCodes /\ Cardinality(code) <= 1
    /\ \A c \in code : c.tries \in 0..TRIES /\ c.invite.n = shown
    /\ conn.device \in Device \cup {NoDevice}
    /\ asking \in {"nothing", "join", "pair", "visit", "done"}
    /\ asking # "nothing" => conn.device # NoDevice
    /\ \A d \in Device : Cardinality(wire[d]) <= 1

\* However many devices saw the code, or got it with the digits, only one in
\* the person's hand is ever trusted or gets the key; one code sends the key
\* once, and no device gets it otherwise; and every wrong guess at the digits
\* used up a try that never comes back.
StrangersStayOut ==
    /\ \A d \in Device \ Hand : trusted[d] = "none" /\ key[d] = KeyOf[d]
    /\ \A x, y \in given : x[1] = y[1] => x = y
    /\ \A d \in Device : key[d] # KeyOf[d] => \E x \in given : x[2] = d
    /\ \A c \in code : shown = 1 => wrong <= TRIES - c.tries

\* A device that uses a code is answered, or told that it is over.
NobodyWaitsForever == \A d \in Device : step[d] # "idle" ~> step[d] = "idle"
=============================================================================
