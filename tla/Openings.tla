------------------------------ MODULE Openings ------------------------------
(***************************************************************************)
(* A guest's folder opened at the computer that keeps it (decision 0060).  *)
(* The window there asks; the phone hears the ask at a sync, its person    *)
(* says yes or no, and a yes carries the folder's key to the computer,     *)
(* which holds it in memory until the folder is locked or left unused.     *)
(*                                                                         *)
(* Modelled: crates/peer/src/openings.rs, Request::Asks and Unlock in      *)
(* server.rs and client.rs of the same crate, and trade_asks with          *)
(* open_asks, approve_open and decline_open in                             *)
(* crates/mobile-ffi/src/lib.rs.                                           *)
(*                                                                         *)
(* Data.  A nonce is the number of its ask, 0 for none.  A moment is its   *)
(* age on the two clocks, in units of ASK_LIFETIME: the monotonic one      *)
(* stands still while the computer sleeps, the wall clock may be set.  An  *)
(* age past IDLE is kept as just past it, and below zero as just below.    *)
(* The key is the folder's own; what it is tried on is a name kept there.  *)
(***************************************************************************)
EXTENDS Naturals, Integers

CONSTANTS
    IDLE,            \* how long an open folder stays open without use
    ASK_LIFETIME,    \* how long an ask waits
    MaxAsks          \* bound: asks made

ASSUME TimesAssumption ==
    ASK_LIFETIME \in Nat \ {0} /\ IDLE \in Nat /\ IDLE >= ASK_LIFETIME /\ MaxAsks \in Nat

VARIABLES
    asks,        \* asks made
    ask,         \* the registry's ask: at most one
    open,        \* the registry's open folder: at most one
    wire,        \* yeses sent and not served yet
    shown,       \* open_asks: the ask the app shows
    approved,    \* the yes to be sent
    settled,     \* the last ask answered
    trade,       \* where trade_asks is
    yes,         \* history: asks the person approved
    openings,    \* history: how often each ask opened the folder
    locked       \* history: asks made by the time the folder was last locked

registry == <<ask, open>>
app == <<shown, approved, settled, trade>>
openingVars == <<asks, registry, wire, app, yes, openings, locked>>

None == 0
NotTrading == [at |-> "idle", n |-> None, asked |-> None, answered |-> None]

-----------------------------------------------------------------------------
(* Moments.                                                                *)

Now == [mono |-> 0, wall |-> 0]
Capped(t) == IF t > IDLE THEN IDLE + 1 ELSE IF t < 0 THEN -1 ELSE t

\* Since::elapsed: the later of the clocks; one set back is time up.
ElapsedAwake(at) == at.mono
Elapsed(at) == IF at.wall < 0 THEN IDLE + 1
               ELSE IF at.mono > at.wall THEN at.mono ELSE at.wall

\* Time passes, awake or asleep; or the clock is set.  The history beside an
\* open folder: how long it was unused, and whether the clock was set back.
Older(at, mono, wall) ==
    [at EXCEPT !.mono = Capped(@ + mono), !.wall = Capped(@ + wall)]

TimePasses(asleep) ==
    LET mono == IF asleep THEN 0 ELSE 1
    IN /\ ask # {} \/ open # {}
       /\ ask' = {[a EXCEPT !.at = Older(@, mono, 1)] : a \in ask}
       /\ open' = {[o EXCEPT !.at = Older(@, mono, 1), !.unused = Capped(@ + 1)] : o \in open}
       /\ UNCHANGED <<asks, wire, app, yes, openings, locked>>

ClockSet(by) ==
    /\ ask # {} \/ open # {}
    /\ ask' = {[a EXCEPT !.at = Older(@, 0, by)] : a \in ask}
    /\ open' = {[o EXCEPT !.at = Older(@, 0, by), !.setBack = @ \/ by < 0] : o \in open}
    /\ UNCHANGED <<asks, wire, app, yes, openings, locked>>

-----------------------------------------------------------------------------
(* The window, and the computer's server.                                  *)

\* ask: it takes the place of one waiting.
Ask ==
    /\ asks < MaxAsks
    /\ asks' = asks + 1
    /\ ask' = {[n |-> asks + 1, at |-> Now]}
    /\ UNCHANGED <<open, wire, app, yes, openings, locked>>

\* asking and unlock.
Waits(a) == Elapsed(a.at) < ASK_LIFETIME

\* unlock, when the key opens a name kept there: the ask is spent.
Unspent == ask
Spent == {}
Opened(n) == {[n |-> n, at |-> Now, unused |-> 0, setBack |-> FALSE]}

\* A yes is served: late, or again, as it may be.
ServeUnlock(n, fits) ==
    LET opens == fits /\ \E a \in ask : a.n = n /\ Waits(a)
    IN /\ n \in wire
       /\ wire' = wire \ {n}
       /\ ask' = IF opens THEN Spent ELSE ask
       /\ open' = IF opens THEN Opened(n) ELSE open
       /\ openings' = IF opens THEN [openings EXCEPT ![n] = @ + 1] ELSE openings
       /\ trade' = IF trade.at = "sent" /\ trade.n = n THEN [trade EXCEPT !.at = "served"] ELSE trade
       /\ UNCHANGED <<asks, shown, approved, settled, yes, locked>>

\* is_open.
IsOpen == \E o \in open : Elapsed(o.at) < IDLE

\* key: the folder is read from, which counts as use; one left unused is
\* closed.
Use ==
    /\ open # {}
    /\ open' = IF IsOpen THEN {[o EXCEPT !.at = Now, !.unused = 0, !.setBack = FALSE] : o \in open} ELSE {}
    /\ UNCHANGED <<asks, ask, wire, app, yes, openings, locked>>

\* lock: any ask is withdrawn too.
Lock ==
    /\ ask # {} \/ open # {}
    /\ ask' = {} /\ open' = {}
    /\ locked' = asks
    /\ UNCHANGED <<asks, wire, app, yes, openings>>

-----------------------------------------------------------------------------
(* The phone: trade_asks, in a pass that reached the computer.             *)

\* The yes, if there is one, is taken to be sent.
SendYes ==
    /\ trade.at = "idle"
    /\ IF approved = None
       THEN trade' = [NotTrading EXCEPT !.at = "asking"] /\ UNCHANGED <<approved, wire>>
       ELSE /\ trade' = [NotTrading EXCEPT !.at = "sent", !.n = approved]
            /\ wire' = wire \cup {approved}
            /\ approved' = None
    /\ UNCHANGED <<asks, registry, shown, settled, yes, openings, locked>>

\* The computer's answer is read.
YesAnswered ==
    /\ trade.at = "served"
    /\ trade' = [trade EXCEPT !.at = "asking"]
    /\ UNCHANGED <<asks, registry, wire, shown, approved, settled, yes, openings, locked>>

\* No answer in time, whether or not it was served: still approved.
YesFails ==
    /\ trade.at \in {"sent", "served"}
    /\ approved' = trade.n
    /\ trade' = [trade EXCEPT !.at = "asking"]
    /\ UNCHANGED <<asks, registry, wire, shown, settled, yes, openings, locked>>

\* Request::Asks, answered with the ask waiting, if any; asking drops one
\* that lapsed.
Hear ==
    /\ trade.at = "asking"
    /\ ask' = {a \in ask : Waits(a)}
    /\ trade' = [trade EXCEPT !.at = "heard",
                   !.asked = IF ask' = {} THEN None ELSE (CHOOSE a \in ask' : TRUE).n]
    /\ UNCHANGED <<asks, open, wire, shown, approved, settled, yes, openings, locked>>

\* The answer is lost, or the pass ends: what was noted stands.
NotHeard ==
    /\ trade.at \in {"asking", "heard"}
    /\ trade' = NotTrading
    /\ UNCHANGED <<asks, registry, wire, shown, approved, settled, yes, openings, locked>>

\* The ask answered last is read, and only then what is shown is written.
ReadSettled ==
    /\ trade.at = "heard"
    /\ trade' = [trade EXCEPT !.at = "noting", !.answered = settled]
    /\ UNCHANGED <<asks, registry, wire, shown, approved, settled, yes, openings, locked>>

Shown(n, sent, answered) == IF n \in {sent, answered} THEN None ELSE n

NoteAsk ==
    /\ trade.at = "noting"
    /\ shown' = Shown(trade.asked, trade.n, trade.answered)
    /\ trade' = NotTrading
    /\ UNCHANGED <<asks, registry, wire, approved, settled, yes, openings, locked>>

\* The person, behind the phone's screen lock.
Approve ==
    /\ shown # None
    /\ approved' = shown /\ settled' = shown /\ shown' = None
    /\ yes' = yes \cup {shown}
    /\ UNCHANGED <<asks, registry, wire, trade, openings, locked>>

Decline ==
    /\ shown # None
    /\ settled' = shown /\ shown' = None
    /\ UNCHANGED <<asks, registry, wire, approved, trade, yes, openings, locked>>

\* The app is killed: what it noted was in memory.
AppKilled ==
    /\ <<shown, approved, settled, trade>> # <<None, None, None, NotTrading>>
    /\ shown' = None /\ approved' = None /\ settled' = None /\ trade' = NotTrading
    /\ UNCHANGED <<asks, registry, wire, yes, openings, locked>>

-----------------------------------------------------------------------------

OpeningsInit ==
    /\ asks = 0 /\ ask = {} /\ open = {} /\ wire = {}
    /\ shown = None /\ approved = None /\ settled = None /\ trade = NotTrading
    /\ yes = {} /\ openings = [n \in 1..MaxAsks |-> 0] /\ locked = 0

AtTheComputer(fits) ==
    \/ Ask \/ Use \/ Lock
    \/ \E n \in wire : ServeUnlock(n, fits)
    \/ \E asleep \in BOOLEAN : TimePasses(asleep)
    \/ \E by \in {-1, 1} : ClockSet(by)

OnThePhone ==
    \/ SendYes \/ YesAnswered \/ YesFails \/ Hear \/ NotHeard \/ ReadSettled \/ NoteAsk
    \/ Approve \/ Decline \/ AppKilled

OpeningsNext(fits) == AtTheComputer(fits) \/ OnThePhone

-----------------------------------------------------------------------------

\* A folder is open only on an ask its person approved, made since it was
\* last locked; and each ask opens it at most once, however late a yes is
\* served and however often it is sent.
OpenIsApproved ==
    /\ \A o \in open : o.n \in yes /\ o.n > locked
    /\ \A n \in 1..MaxAsks : openings[n] <= 1

\* An open folder closes once it was not used for IDLE, the computer awake
\* or asleep, whatever clock was set -- unless it was set back meanwhile,
\* and then still once it was awake that long.
LocksWhenIdle ==
    IsOpen => \A o \in open : o.at.mono < IDLE /\ (~o.setBack => o.unused < IDLE)
=============================================================================
