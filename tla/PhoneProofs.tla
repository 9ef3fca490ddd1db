---------------------------- MODULE PhoneProofs ----------------------------
(***************************************************************************)
(* Proofs about Phone, for any computers, files, chunks, times and bounds. *)
(* Each part has an inductive invariant of its own: a step of another part *)
(* leaves its variables as they are.                                       *)
(***************************************************************************)
EXTENDS Phone, FiniteSetTheorems, SequenceTheorems, WellFoundedInduction, TLAPS

-----------------------------------------------------------------------------
(* Openings: a guest's folder, opened at the computer that keeps it.       *)

Age == -1..(IDLE + 1)
Moment == [mono: Age, wall: Age]

OpeningTypeOK ==
    /\ asks \in 0..MaxAsks /\ locked \in 0..asks
    /\ ask \subseteq [n: 1..asks, at: Moment]
    /\ open \subseteq [n: 1..asks, at: Moment, unused: Age, setBack: BOOLEAN]
    /\ openings \in [1..MaxAsks -> Nat]
    /\ trade \in [at: {"idle", "sent", "served", "asking", "heard", "noting"},
                  n: {None} \cup yes, asked: Nat, answered: Nat]
    /\ shown \in Nat /\ settled \in Nat /\ yes \subseteq Nat

\* A yes on its way, or still to be sent, is one the person gave.
OnlyYes ==
    /\ wire \subseteq yes /\ approved \in {None} \cup yes
    /\ trade.at \in {"sent", "served"} => trade.n \in yes

\* An ask that waits was made since the folder was last locked and has not
\* opened it; nor has one not made yet.
NotSpent ==
    /\ \A a \in ask : a.n > locked /\ openings[a.n] = 0
    /\ \A n \in 1..MaxAsks : n > asks => openings[n] = 0

\* One folder is open, and its wall clock has run as long as it was unused
\* unless it was set back.
WallKept ==
    /\ \A o, q \in open : o = q
    /\ \A o \in open : ~o.setBack => o.unused <= o.at.wall

OpeningInv ==
    OpeningTypeOK /\ OnlyYes /\ NotSpent /\ OpenIsApproved /\ WallKept

\* Openings::elapsed is below the time allowed only if both clocks are.
LEMMA WallKeptLocks ==
  ASSUME TimesAssumption, OpeningInv
  PROVE  LocksWhenIdle
<1>1. SUFFICES ASSUME IsOpen, NEW o \in open
               PROVE  o.at.mono < IDLE /\ (~o.setBack => o.unused < IDLE)
  BY DEF LocksWhenIdle
<1>2. PICK q \in open : Elapsed(q.at) < IDLE
  BY <1>1 DEF IsOpen
<1>3. q = o
  BY <1>1, <1>2 DEF OpeningInv, WallKept
<1>4. o.at.mono \in Int /\ o.at.wall \in Int /\ o.unused \in Int
  <2>1. o \in [n: 1..asks, at: Moment, unused: Age, setBack: BOOLEAN]
    BY <1>1 DEF OpeningInv, OpeningTypeOK
  <2>2. o.at.mono \in Age /\ o.at.wall \in Age /\ o.unused \in Age
    BY <2>1 DEF Moment
  <2> QED BY <2>2 DEF Age
<1>5. o.at.wall < IDLE /\ o.at.mono < IDLE
  BY <1>2, <1>3, <1>4, TimesAssumption DEF Elapsed
<1> QED BY <1>4, <1>5 DEF OpeningInv, WallKept

LEMMA OpeningsStart ==
  ASSUME TimesAssumption, OpeningsInit
  PROVE  OpeningInv
BY DEF OpeningsInit, OpeningInv, OpeningTypeOK, OnlyYes, NotSpent, OpenIsApproved, WallKept,
       NotTrading, None, TimesAssumption, Age

\* A moment that grows older keeps the order of the two ages.
LEMMA OlderType ==
  ASSUME TimesAssumption, NEW at \in Moment, NEW mono \in {0, 1}, NEW wall \in {-1, 0, 1}
  PROVE  /\ Older(at, mono, wall) \in Moment
         /\ Older(at, mono, wall).wall = Capped(at.wall + wall)
<1>1. \A t \in Int : Capped(t) \in Age
  BY DEF TimesAssumption, Capped, Age
<1>2. at.mono \in Int /\ at.wall \in Int
  BY DEF Moment, Age, TimesAssumption
<1>3. Capped(at.mono + mono) \in Age /\ Capped(at.wall + wall) \in Age
  BY <1>1, <1>2
<1> QED BY <1>3 DEF Older, Moment

LEMMA CappedOrder ==
  ASSUME TimesAssumption, NEW s \in Int, NEW t \in Int, s <= t
  PROVE  Capped(s) <= Capped(t)
BY DEF TimesAssumption, Capped

LEMMA TimePassesKeeps ==
  ASSUME TimesAssumption, OpeningInv, NEW asleep \in BOOLEAN, TimePasses(asleep)
  PROVE  OpeningInv'
<1> USE TimesAssumption DEF OpeningInv
<1> DEFINE mono == IF asleep THEN 0 ELSE 1
<1>0. mono \in {0, 1} /\ 1 \in {-1, 0, 1}
  OBVIOUS
<1>1. /\ ask' = {[a EXCEPT !.at = Older(@, mono, 1)] : a \in ask}
      /\ open' = {[o EXCEPT !.at = Older(@, mono, 1), !.unused = Capped(@ + 1)] : o \in open}
      /\ UNCHANGED <<asks, wire, shown, approved, settled, trade, yes, openings, locked>>
  BY DEF TimePasses, app
<1> HIDE DEF mono
<1>2. ASSUME NEW b \in ask'
      PROVE  \E a \in ask : b.n = a.n /\ b \in [n: 1..asks, at: Moment]
  <2>1. PICK a \in ask : b = [a EXCEPT !.at = Older(@, mono, 1)]
    BY <1>1, <1>2
  <2>2. a \in [n: 1..asks, at: Moment]
    BY DEF OpeningTypeOK
  <2>3. Older(a.at, mono, 1) \in Moment
    BY <1>0, <2>2, OlderType
  <2> QED BY <2>1, <2>2, <2>3
<1>3. ASSUME NEW p \in open'
      PROVE  \E o \in open : /\ p = [o EXCEPT !.at = Older(@, mono, 1), !.unused = Capped(@ + 1)]
                             /\ p.n = o.n
                             /\ p \in [n: 1..asks, at: Moment, unused: Age, setBack: BOOLEAN]
                             /\ ~p.setBack => p.unused <= p.at.wall
  <2>1. PICK o \in open : p = [o EXCEPT !.at = Older(@, mono, 1), !.unused = Capped(@ + 1)]
    BY <1>1, <1>3
  <2>2. o \in [n: 1..asks, at: Moment, unused: Age, setBack: BOOLEAN]
    BY DEF OpeningTypeOK
  <2>3. /\ Older(o.at, mono, 1) \in Moment
        /\ Older(o.at, mono, 1).wall = Capped(o.at.wall + 1)
    BY <1>0, <2>2, OlderType
  <2>4. Capped(o.unused + 1) \in Age
    BY <2>2 DEF Capped, TimesAssumption, Age
  <2>5. /\ p.n = o.n /\ p.at = Older(o.at, mono, 1) /\ p.unused = Capped(o.unused + 1)
        /\ p.setBack = o.setBack
        /\ p \in [n: 1..asks, at: Moment, unused: Age, setBack: BOOLEAN]
    BY <2>1, <2>2, <2>3, <2>4
  <2>6. ASSUME ~o.setBack PROVE Capped(o.unused + 1) <= Capped(o.at.wall + 1)
    <3>1. o.unused <= o.at.wall /\ o.unused \in Int /\ o.at.wall \in Int
      BY <2>2, <2>6 DEF WallKept, Moment, Age, TimesAssumption
    <3>2. o.unused + 1 \in Int /\ o.at.wall + 1 \in Int /\ o.unused + 1 <= o.at.wall + 1
      BY <3>1
    <3> QED BY <3>2, CappedOrder
  <2> QED BY <2>1, <2>3, <2>5, <2>6
<1>4. OpeningTypeOK'
  BY <1>1, <1>2, <1>3 DEF OpeningTypeOK
<1>5. OnlyYes'
  BY <1>1 DEF OnlyYes
<1>6. NotSpent'
  BY <1>1, <1>2 DEF NotSpent
<1>7. OpenIsApproved'
  BY <1>1, <1>3 DEF OpenIsApproved
<1>8. WallKept'
  BY <1>3 DEF WallKept
<1> QED BY <1>4, <1>5, <1>6, <1>7, <1>8

LEMMA ClockSetKeeps ==
  ASSUME TimesAssumption, OpeningInv, NEW by \in {-1, 1}, ClockSet(by)
  PROVE  OpeningInv'
<1> USE TimesAssumption DEF OpeningInv
<1>0. 0 \in {0, 1} /\ by \in {-1, 0, 1}
  OBVIOUS
<1>1. /\ ask' = {[a EXCEPT !.at = Older(@, 0, by)] : a \in ask}
      /\ open' = {[o EXCEPT !.at = Older(@, 0, by), !.setBack = @ \/ by < 0] : o \in open}
      /\ UNCHANGED <<asks, wire, shown, approved, settled, trade, yes, openings, locked>>
  BY DEF ClockSet, app
<1>2. ASSUME NEW b \in ask'
      PROVE  \E a \in ask : b.n = a.n /\ b \in [n: 1..asks, at: Moment]
  <2>1. PICK a \in ask : b = [a EXCEPT !.at = Older(@, 0, by)]
    BY <1>1, <1>2
  <2>2. a \in [n: 1..asks, at: Moment]
    BY DEF OpeningTypeOK
  <2>3. Older(a.at, 0, by) \in Moment
    BY <1>0, <2>2, OlderType
  <2> QED BY <2>1, <2>2, <2>3
<1>3. ASSUME NEW p \in open'
      PROVE  \E o \in open : /\ p = [o EXCEPT !.at = Older(@, 0, by), !.setBack = @ \/ by < 0]
                             /\ p.n = o.n
                             /\ p \in [n: 1..asks, at: Moment, unused: Age, setBack: BOOLEAN]
                             /\ ~p.setBack => p.unused <= p.at.wall
  <2>1. PICK o \in open : p = [o EXCEPT !.at = Older(@, 0, by), !.setBack = @ \/ by < 0]
    BY <1>1, <1>3
  <2>2. o \in [n: 1..asks, at: Moment, unused: Age, setBack: BOOLEAN]
    BY DEF OpeningTypeOK
  <2>3. /\ Older(o.at, 0, by) \in Moment
        /\ Older(o.at, 0, by).wall = Capped(o.at.wall + by)
    BY <1>0, <2>2, OlderType
  <2>5. /\ p.n = o.n /\ p.at = Older(o.at, 0, by) /\ p.unused = o.unused
        /\ p.setBack = (o.setBack \/ by < 0)
        /\ p \in [n: 1..asks, at: Moment, unused: Age, setBack: BOOLEAN]
    BY <2>1, <2>2, <2>3
  <2>6. ASSUME ~o.setBack, by = 1 PROVE o.unused <= Capped(o.at.wall + by)
    <3>1. o.unused <= o.at.wall /\ o.unused \in Int /\ o.at.wall \in Int /\ o.unused <= IDLE + 1
      BY <2>2, <2>6 DEF WallKept, Moment, Age, TimesAssumption
    <3> QED BY <2>6, <3>1 DEF Capped, TimesAssumption
  <2>7. ~p.setBack => p.unused <= p.at.wall
    <3>1. ASSUME ~p.setBack PROVE ~o.setBack /\ by = 1
      BY <2>5, <3>1
    <3> QED BY <2>3, <2>5, <2>6, <3>1
  <2> QED BY <2>1, <2>5, <2>7
<1>4. OpeningTypeOK'
  BY <1>1, <1>2, <1>3 DEF OpeningTypeOK
<1>5. OnlyYes'
  BY <1>1 DEF OnlyYes
<1>6. NotSpent'
  BY <1>1, <1>2 DEF NotSpent
<1>7. OpenIsApproved'
  BY <1>1, <1>3 DEF OpenIsApproved
<1>8. WallKept'
  <2>1. ASSUME NEW p \in open', NEW r \in open' PROVE p = r
    <3>1. PICK o \in open : p = [o EXCEPT !.at = Older(@, 0, by), !.setBack = @ \/ by < 0]
      BY <1>3
    <3>2. PICK q \in open : r = [q EXCEPT !.at = Older(@, 0, by), !.setBack = @ \/ by < 0]
      BY <1>3
    <3>3. o = q
      BY DEF WallKept
    <3> QED BY <3>1, <3>2, <3>3
  <2>2. ASSUME NEW p \in open', ~p.setBack PROVE p.unused <= p.at.wall
    BY <1>3, <2>2
  <2> QED BY <2>1, <2>2 DEF WallKept
<1> QED BY <1>4, <1>5, <1>6, <1>7, <1>8

LEMMA ServeUnlockKeeps ==
  ASSUME TimesAssumption, OpeningInv, NEW fits \in BOOLEAN, NEW n \in wire, ServeUnlock(n, fits)
  PROVE  OpeningInv'
<1> USE TimesAssumption DEF OpeningInv
<1> DEFINE opens == fits /\ \E a \in ask : a.n = n /\ Waits(a)
<1>1. /\ wire' = wire \ {n}
      /\ ask' = IF opens THEN {} ELSE ask
      /\ open' = IF opens THEN Opened(n) ELSE open
      /\ openings' = IF opens THEN [openings EXCEPT ![n] = @ + 1] ELSE openings
      /\ trade' = IF trade.at = "sent" /\ trade.n = n THEN [trade EXCEPT !.at = "served"] ELSE trade
      /\ UNCHANGED <<asks, shown, approved, settled, yes, locked>>
  BY DEF ServeUnlock, Spent
<1>2. ASSUME opens PROVE n \in 1..asks /\ n > locked /\ openings[n] = 0 /\ n \in 1..MaxAsks
  BY <1>2 DEF OpeningTypeOK, NotSpent
<1> HIDE DEF opens
<1>3. n \in yes
  BY DEF OnlyYes
<1>4. trade' \in [at: {"idle", "sent", "served", "asking", "heard", "noting"},
                  n: {None} \cup yes, asked: Nat, answered: Nat]
  BY <1>1 DEF OpeningTypeOK
<1>5. OnlyYes'
  BY <1>1, <1>3 DEF OnlyYes, OpeningTypeOK
<1>6. CASE opens
  <2>1. Opened(n) \subseteq [n: 1..asks, at: Moment, unused: Age, setBack: BOOLEAN]
    BY <1>2, <1>6 DEF Opened, Now, Moment, Age, TimesAssumption
  <2>2. openings' \in [1..MaxAsks -> Nat]
    BY <1>1, <1>2, <1>6 DEF OpeningTypeOK
  <2>3. OpeningTypeOK'
    BY <1>1, <1>4, <1>6, <2>1, <2>2 DEF OpeningTypeOK
  <2>4. NotSpent'
    BY <1>1, <1>2, <1>6 DEF NotSpent, OpeningTypeOK
  <2>5. OpenIsApproved'
    BY <1>1, <1>2, <1>3, <1>6 DEF OpenIsApproved, Opened, OpeningTypeOK
  <2>6. WallKept'
    <3>1. open' = Opened(n)
      BY <1>1, <1>6
    <3>2. ASSUME NEW o \in Opened(n) PROVE o.unused <= o.at.wall
      BY <3>2 DEF Opened, Now
    <3> QED BY <3>1, <3>2 DEF WallKept, Opened
  <2> QED BY <1>5, <2>3, <2>4, <2>5, <2>6
<1>7. CASE ~opens
  BY <1>1, <1>4, <1>5, <1>7 DEF OpeningTypeOK, NotSpent, OpenIsApproved, WallKept
<1> QED BY <1>6, <1>7

LEMMA AtTheComputerKeeps ==
  ASSUME TimesAssumption, OpeningInv, NEW fits \in BOOLEAN, AtTheComputer(fits)
  PROVE  OpeningInv'
<1> USE TimesAssumption
<1>1. CASE Ask
  <2>1. /\ asks < MaxAsks /\ asks' = asks + 1
        /\ ask' = {[n |-> asks + 1, at |-> Now]}
        /\ UNCHANGED <<open, wire, shown, approved, settled, trade, yes, openings, locked>>
    BY <1>1 DEF Ask, app
  <2>2. OpeningTypeOK'
    <3>1. asks' \in 0..MaxAsks /\ locked' \in 0..asks' /\ 1..asks \subseteq 1..asks'
      BY <2>1 DEF OpeningInv, OpeningTypeOK, TimesAssumption
    <3>2. [n |-> asks + 1, at |-> Now] \in [n: 1..asks', at: Moment]
      BY <2>1 DEF OpeningInv, OpeningTypeOK, Now, Moment, Age, TimesAssumption
    <3>3. open' \subseteq [n: 1..asks', at: Moment, unused: Age, setBack: BOOLEAN]
      BY <2>1, <3>1 DEF OpeningInv, OpeningTypeOK
    <3> QED BY <2>1, <3>1, <3>2, <3>3 DEF OpeningInv, OpeningTypeOK
  <2>3. NotSpent'
    BY <2>1 DEF OpeningInv, OpeningTypeOK, NotSpent, TimesAssumption
  <2> QED BY <2>1, <2>2, <2>3 DEF OpeningInv, OnlyYes, OpenIsApproved, WallKept
<1>2. CASE Use
  <2>1. /\ open' = IF IsOpen THEN {[o EXCEPT !.at = Now, !.unused = 0, !.setBack = FALSE] : o \in open} ELSE {}
        /\ UNCHANGED <<asks, ask, wire, shown, approved, settled, trade, yes, openings, locked>>
    BY <1>2 DEF Use, app
  <2>2. ASSUME NEW p \in open'
        PROVE  \E o \in open : /\ p = [o EXCEPT !.at = Now, !.unused = 0, !.setBack = FALSE]
                               /\ p.n = o.n
                               /\ p \in [n: 1..asks, at: Moment, unused: Age, setBack: BOOLEAN]
                               /\ p.unused <= p.at.wall
    <3>1. PICK o \in open : p = [o EXCEPT !.at = Now, !.unused = 0, !.setBack = FALSE]
      BY <2>1, <2>2
    <3>2. o \in [n: 1..asks, at: Moment, unused: Age, setBack: BOOLEAN]
      BY DEF OpeningInv, OpeningTypeOK
    <3>3. 0 \in Age /\ Now \in Moment
      BY DEF Age, Now, Moment, TimesAssumption
    <3>4. p.unused = 0 /\ p.at = Now
      BY <3>1, <3>2
    <3>5. p.unused <= p.at.wall
      BY <3>4 DEF Now
    <3> QED BY <3>1, <3>2, <3>3, <3>5
  <2>3. OpeningTypeOK'
    BY <2>1, <2>2 DEF OpeningInv, OpeningTypeOK
  <2>4. OpenIsApproved'
    BY <2>1, <2>2 DEF OpeningInv, OpenIsApproved
  <2>5. WallKept'
    BY <2>2 DEF OpeningInv, WallKept
  <2> QED BY <2>1, <2>3, <2>4, <2>5 DEF OpeningInv, OnlyYes, NotSpent
<1>3. CASE Lock
  <2>1. /\ ask' = {} /\ open' = {} /\ locked' = asks
        /\ UNCHANGED <<asks, wire, shown, approved, settled, trade, yes, openings>>
    BY <1>3 DEF Lock, app
  <2> QED BY <2>1 DEF OpeningInv, OpeningTypeOK, OnlyYes, NotSpent, OpenIsApproved, WallKept, TimesAssumption
<1>4. ASSUME NEW n \in wire, ServeUnlock(n, fits) PROVE OpeningInv'
  BY <1>4, ServeUnlockKeeps
<1>5. ASSUME NEW asleep \in BOOLEAN, TimePasses(asleep) PROVE OpeningInv'
  BY <1>5, TimePassesKeeps
<1>6. ASSUME NEW by \in {-1, 1}, ClockSet(by) PROVE OpeningInv'
  BY <1>6, ClockSetKeeps
<1> QED BY <1>1, <1>2, <1>3, <1>4, <1>5, <1>6 DEF AtTheComputer

LEMMA OnThePhoneKeeps ==
  ASSUME TimesAssumption, OpeningInv, OnThePhone
  PROVE  OpeningInv'
<1> USE TimesAssumption DEF OpeningInv
<1> DEFINE Trade == [at: {"idle", "sent", "served", "asking", "heard", "noting"},
                     n: {None} \cup yes, asked: Nat, answered: Nat]
<1>0. trade \in Trade /\ NotTrading \in Trade /\ None \in Nat
  BY DEF OpeningTypeOK, NotTrading, None
<1>1. CASE SendYes
  <2>1. trade' \in Trade /\ (trade'.at \in {"sent", "served"} => trade'.n \in yes)
    BY <1>0, <1>1 DEF SendYes, OnlyYes, NotTrading, None
  <2> QED BY <1>1, <2>1 DEF SendYes, registry, OpeningTypeOK, OnlyYes, NotSpent, OpenIsApproved, WallKept
<1>2. CASE YesAnswered
  BY <1>0, <1>2 DEF YesAnswered, registry, OpeningTypeOK, OnlyYes, NotSpent, OpenIsApproved, WallKept
<1>3. CASE YesFails
  BY <1>0, <1>3 DEF YesFails, registry, OpeningTypeOK, OnlyYes, NotSpent, OpenIsApproved, WallKept
<1>4. CASE Hear
  <2>1. /\ ask' \subseteq ask
        /\ trade' = [trade EXCEPT !.at = "heard",
                       !.asked = IF ask' = {} THEN None ELSE (CHOOSE a \in ask' : TRUE).n]
        /\ UNCHANGED <<asks, open, wire, shown, approved, settled, yes, openings, locked>>
    BY <1>4 DEF Hear
  <2>2. (IF ask' = {} THEN None ELSE (CHOOSE a \in ask' : TRUE).n) \in Nat
    <3>1. CASE ask' # {}
      <4>1. (CHOOSE a \in ask' : TRUE) \in ask
        BY <2>1, <3>1
      <4>2. (CHOOSE a \in ask' : TRUE).n \in 1..asks
        BY <4>1 DEF OpeningTypeOK
      <4> QED BY <3>1, <4>2
    <3> QED BY <1>0, <3>1
  <2>3. trade' \in Trade /\ trade'.at = "heard"
    BY <1>0, <2>1, <2>2
  <2> QED BY <2>1, <2>3 DEF OpeningTypeOK, OnlyYes, NotSpent, OpenIsApproved, WallKept
<1>5. CASE NotHeard
  BY <1>0, <1>5 DEF NotHeard, NotTrading, registry, OpeningTypeOK, OnlyYes, NotSpent, OpenIsApproved, WallKept
<1>6. CASE ReadSettled
  BY <1>0, <1>6 DEF ReadSettled, registry, OpeningTypeOK, OnlyYes, NotSpent, OpenIsApproved, WallKept
<1>7. CASE NoteAsk
  BY <1>0, <1>7 DEF NoteAsk, Shown, NotTrading, registry, OpeningTypeOK, OnlyYes, NotSpent, OpenIsApproved, WallKept
<1>8. CASE Approve
  BY <1>0, <1>8 DEF Approve, registry, OpeningTypeOK, OnlyYes, NotSpent, OpenIsApproved, WallKept
<1>9. CASE Decline
  BY <1>0, <1>9 DEF Decline, registry, OpeningTypeOK, OnlyYes, NotSpent, OpenIsApproved, WallKept
<1>10. CASE AppKilled
  BY <1>0, <1>10 DEF AppKilled, NotTrading, registry, OpeningTypeOK, OnlyYes, NotSpent, OpenIsApproved, WallKept
<1> QED BY <1>1, <1>2, <1>3, <1>4, <1>5, <1>6, <1>7, <1>8, <1>9, <1>10 DEF OnThePhone, OpeningInv

\* A step of the computer's window or server, or of the phone, or a step of
\* another part, keeps what the two theorems rest on.
LEMMA OpeningStep ==
  ASSUME TimesAssumption, OpeningInv, [Next]_vars
  PROVE  OpeningInv'
<1>1. CASE Asked /\ OpeningsNext(KeyFits)
  <2>1. KeyFits \in BOOLEAN
    BY DEF KeyFits
  <2> QED BY <1>1, <2>1, AtTheComputerKeeps, OnThePhoneKeeps DEF OpeningsNext
<1>2. CASE UNCHANGED openingVars
  BY <1>2 DEF openingVars, registry, app, OpeningInv, OpeningTypeOK, OnlyYes, NotSpent, OpenIsApproved, WallKept
<1>3. [Next]_vars => (Asked /\ OpeningsNext(KeyFits)) \/ UNCHANGED openingVars
  BY DEF Next, Own, Keeping, Asked, Passing, Fetches, Backups, vars
<1> QED BY <1>1, <1>2, <1>3

LEMMA OpeningAlways == Spec => []OpeningInv
<1>1. Init => OpeningInv
  BY TimesAssumption, OpeningsStart DEF Init
<1>2. OpeningInv /\ [Next]_vars => OpeningInv'
  BY TimesAssumption, OpeningStep
<1> QED BY <1>1, <1>2, PTL DEF Spec

\* Openings::unlock opens a folder only on an ask of its person's that was
\* approved, made since it was last locked, and each ask opens it at most once.
THEOREM OpensOnlyOnAYes == Spec => []OpenIsApproved
<1>1. OpeningInv => OpenIsApproved
  BY DEF OpeningInv
<1> QED BY <1>1, OpeningAlways, PTL

\* An open folder closes once it was unused for IDLE, whichever clock runs.
THEOREM LocksAfterIdle == Spec => []LocksWhenIdle
<1>1. OpeningInv => LocksWhenIdle
  BY TimesAssumption, WallKeptLocks
<1> QED BY <1>1, OpeningAlways, PTL

-----------------------------------------------------------------------------
(* Sealed: a guest's vault kept by a computer.  A content may come to be   *)
(* of two paths only by being copied within the vault, and to be recorded  *)
(* as kept where it is not only by being the computer's person's too:      *)
(* every other is Sole.                                                    *)

Entry == [path: Path, content: Nat]

SealedTypeOK ==
    /\ row \in [Path -> Nat] /\ kept \in [Path -> Nat] /\ view \in [Path -> Nat]
    /\ known \subseteq Path /\ here \subseteq Path
    /\ tree \subseteq Entry /\ got \subseteq Entry
    /\ replicas \subseteq Nat /\ files \in Nat

SoleFile(c) == c # NoContent /\ Sole(c)

\* What says of a content which path it is of.
Traces ==
    {Seal(p, row[p]) : p \in Path} \cup {Seal(p, kept[p]) : p \in Path} \cup tree \cup got

\* A content was made at one path, and not later than the last.
OfOnePath ==
    /\ \A x, y \in Traces : SoleFile(x.content) /\ x.content = y.content => x.path = y.path
    /\ \A x \in Traces : x.content <= files
    /\ \A c \in replicas : c <= files

\* The list the computer reads has one entry of a path, which the phone knows.
ListOfKnown ==
    /\ \A x, y \in tree : x.path = y.path => x = y
    /\ \A x \in tree : x.path \in known
    /\ \A p \in Path : Live(p) => p \in known

\* Said to be kept, or on the way to be: so it is, as it is now.
SaidIsKept ==
    \A p \in Path : SoleFile(row[p]) /\ (row[p] \in replicas \/ Seal(p, row[p]) \in got)
                     => kept[p] = row[p]

\* What is still to be acted on of a file kept as it is now says the same.
ListIsCurrent ==
    \A x \in tree : SoleFile(row[x.path]) /\ kept[x.path] = row[x.path] => x.content = row[x.path]

SealedInv ==
    SealedTypeOK /\ OfOnePath /\ ListOfKnown /\ SaidIsKept /\ ListIsCurrent /\ OnlyCopyStays

\* Where a step leaves no new trace of a content, each is still of one path.
LEMMA NoNewTrace ==
  ASSUME OfOnePath, SealedTypeOK,
         \A x \in Traces' : x \in Traces \/ x.content = NoContent,
         \A c \in replicas' : c \in replicas \/ c <= files, files' = files,
         copied \subseteq copied'
  PROVE  OfOnePath'
<1>1. ASSUME NEW x \in Traces', NEW y \in Traces', SoleFile(x.content)', x.content = y.content
      PROVE  x.path = y.path
  <2>1. x \in Traces /\ y \in Traces /\ SoleFile(x.content)
    BY <1>1 DEF SoleFile, Sole
  <2> QED BY <1>1, <2>1 DEF OfOnePath
<1>2. ASSUME NEW x \in Traces' PROVE x.content <= files
  <2>1. NoContent <= files
    BY DEF SealedTypeOK, NoContent
  <2> QED BY <1>2, <2>1 DEF OfOnePath
<1>3. ASSUME NEW c \in replicas' PROVE c <= files
  BY DEF OfOnePath
<1> QED BY <1>1, <1>2, <1>3 DEF OfOnePath

LEMMA SealedStarts ==
  ASSUME SealedInit
  PROVE  SealedInv
BY DEF SealedInit, SealedInv, SealedTypeOK, OfOnePath, Traces, ListOfKnown, SaidIsKept, ListIsCurrent,
       OnlyCopyStays, SoleFile, Sole, Live, Seal, NoContent, Entry

LEMMA ShowingStarts ==
  ASSUME Showing
  PROVE  SealedInv
<1>1. PICK p \in Path :
        /\ row = [q \in Path |-> IF q = p THEN 1 ELSE NoContent] /\ view = row
        /\ known = {p} /\ here = {p} /\ wanted = {} /\ files = 1
        /\ tree = {Seal(p, 1)} /\ kept = [q \in Path |-> NoContent]
        /\ replicas = {} /\ opened = {} /\ got = {} /\ clears = 0
  BY WorldsAssumption DEF Showing
<1>2. SealedTypeOK
  BY <1>1 DEF SealedTypeOK, Seal, NoContent, Entry
<1>3. OfOnePath
  BY <1>1 DEF OfOnePath, Traces, Seal, NoContent, SoleFile
<1>4. ListOfKnown
  BY <1>1 DEF ListOfKnown, Seal, NoContent, Live
<1>5. SaidIsKept /\ ListIsCurrent /\ OnlyCopyStays
  BY <1>1 DEF SaidIsKept, ListIsCurrent, OnlyCopyStays, Seal, NoContent, Live
<1> QED BY <1>2, <1>3, <1>4, <1>5 DEF SealedInv

LEMMA HoldKeeps ==
  ASSUME SealedInv, NEW e \in tree, Hold(e)
  PROVE  SealedInv'
<1> DEFINE p == e.path
           given == e.content # NoContent /\ view[e.path] = e.content /\ Readable(e.content)
<1>1. /\ tree' = tree \ {e}
      /\ kept' = [kept EXCEPT ![p] = IF e.content = NoContent \/ given THEN e.content ELSE @]
      /\ got' = IF given /\ kept[p] # e.content THEN got \cup {e} ELSE got
      /\ UNCHANGED <<row, known, here, wanted, files, copied, view, replicas>>
  BY DEF Hold, Given, vault
<1> HIDE DEF given
<1>2. e \in Entry /\ p \in Path /\ e.content \in Nat /\ e = Seal(p, e.content)
  BY DEF SealedInv, SealedTypeOK, Entry, Seal
<1>3. SealedTypeOK'
  BY <1>1, <1>2 DEF SealedInv, SealedTypeOK
<1>4. OfOnePath'
  <2>1. \A x \in Traces' : x \in Traces
    <3>1. ASSUME NEW q \in Path PROVE Seal(q, kept'[q]) \in Traces
      BY <1>1, <1>2 DEF SealedInv, SealedTypeOK, Traces, Seal
    <3> QED BY <1>1, <3>1 DEF Traces
  <2> QED BY <1>1, <2>1, NoNewTrace DEF SealedInv
<1>5. ListOfKnown'
  BY <1>1 DEF SealedInv, ListOfKnown, Live
<1>6. ASSUME SoleFile(row[p]), kept[p] = row[p] PROVE kept'[p] = row[p]
  BY <1>1, <1>2, <1>6 DEF SealedInv, ListIsCurrent, SoleFile, Sole, Live, SealedTypeOK
<1>7. ASSUME NEW q \in Path, q # p PROVE kept'[q] = kept[q] /\ (\A c : Seal(q, c) \in got' => Seal(q, c) \in got)
  BY <1>1, <1>2, <1>7 DEF SealedInv, SealedTypeOK, Seal
<1>8. SaidIsKept'
  <2>1. SUFFICES ASSUME NEW q \in Path, SoleFile(row[q]), row[q] \in replicas \/ Seal(q, row[q]) \in got'
                 PROVE  kept'[q] = row[q]
    BY <1>1 DEF SaidIsKept, SoleFile, Sole
  <2>2. CASE row[q] \in replicas \/ Seal(q, row[q]) \in got
    <3>1. kept[q] = row[q]
      BY <2>1, <2>2 DEF SealedInv, SaidIsKept, SoleFile, Sole, Live
    <3> QED BY <2>1, <3>1, <1>6, <1>7
  <2>3. CASE Seal(q, row[q]) \in got' /\ Seal(q, row[q]) \notin got
    <3>1. given /\ e = Seal(q, row[q])
      BY <1>1, <2>3
    <3>2. p = q /\ e.content = row[q]
      BY <3>1 DEF Seal
    <3> QED BY <1>1, <1>2, <3>1, <3>2 DEF SealedInv, SealedTypeOK
  <2> QED BY <2>1, <2>2, <2>3
<1>9. ListIsCurrent'
  <2>1. SUFFICES ASSUME NEW x \in tree', SoleFile(row[x.path]), kept'[x.path] = row[x.path]
                 PROVE  x.content = row[x.path]
    BY <1>1 DEF ListIsCurrent, SoleFile, Sole
  <2>2. x.path # p
    BY <1>1 DEF SealedInv, ListOfKnown
  <2>3. x.path \in Path
    BY <1>1 DEF SealedInv, SealedTypeOK, Entry
  <2> QED BY <1>1, <1>7, <2>1, <2>2, <2>3 DEF SealedInv, ListIsCurrent, SoleFile, Sole, Live
<1>10. OnlyCopyStays'
  BY <1>1, <1>6, <1>7 DEF SealedInv, OnlyCopyStays, SoleFile, Sole, Live
<1> QED BY <1>3, <1>4, <1>5, <1>8, <1>9, <1>10 DEF SealedInv

LEMMA PutKeeps ==
  ASSUME SealedInv, NEW p \in Path, Put(p)
  PROVE  SealedInv'
<1> DEFINE c == files + 1
<1>1. /\ row' = [row EXCEPT ![p] = c]
      /\ known' = known \cup {p} /\ here' = here \cup {p}
      /\ files' = c
      /\ UNCHANGED <<copied, view, replicas, tree, kept, got>>
  BY DEF Put
<1>2. c \in Nat /\ c # NoContent /\ c > files
  BY DEF SealedInv, SealedTypeOK, NoContent
<1> HIDE DEF c
<1>3. SealedTypeOK'
  BY <1>1, <1>2 DEF SealedInv, SealedTypeOK
<1>4. \A x \in Traces' : x \in Traces \/ x = Seal(p, c)
  BY <1>1 DEF Traces, SealedInv, SealedTypeOK
<1>5. \A x \in Traces : x.content # c
  <2>1. ASSUME NEW x \in Traces PROVE x.content \in Nat
    BY DEF Traces, SealedInv, SealedTypeOK, Seal, Entry
  <2> QED BY <1>2, <2>1 DEF SealedInv, OfOnePath, SealedTypeOK
<1>6. Seal(p, c).path = p /\ Seal(p, c).content = c
  BY DEF Seal
<1>7. OfOnePath'
  <2>1. ASSUME NEW x \in Traces', NEW y \in Traces', SoleFile(x.content)', x.content = y.content
        PROVE  x.path = y.path
    <3>1. CASE x \in Traces /\ y \in Traces
      BY <1>1, <2>1, <3>1 DEF SealedInv, OfOnePath, SoleFile, Sole
    <3>2. CASE x = Seal(p, c) /\ y = Seal(p, c)
      BY <3>2
    <3> QED BY <1>4, <1>5, <1>6, <2>1, <3>1, <3>2
  <2>2. ASSUME NEW x \in Traces' PROVE x.content <= c
    <3>1. CASE x \in Traces
      <4>1. x.content \in Nat
        BY <3>1 DEF Traces, SealedInv, SealedTypeOK, Seal, Entry
      <4> QED BY <1>2, <3>1, <4>1 DEF SealedInv, OfOnePath, SealedTypeOK
    <3> QED BY <1>2, <1>4, <1>6, <3>1
  <2>3. ASSUME NEW d \in replicas' PROVE d <= c
    BY <1>1, <1>2 DEF SealedInv, OfOnePath, SealedTypeOK
  <2> QED BY <1>1, <2>1, <2>2, <2>3 DEF OfOnePath
<1>8. ListOfKnown'
  BY <1>1 DEF SealedInv, ListOfKnown, Live, SealedTypeOK
<1>9. ASSUME NEW q \in Path PROVE IF q = p THEN row'[q] = c ELSE row'[q] = row[q]
  BY <1>1 DEF SealedInv, SealedTypeOK
<1>10. c \notin replicas /\ Seal(p, c) \notin got /\ kept[p] # c
  <2>1. c \notin replicas
    BY <1>2 DEF SealedInv, OfOnePath, SealedTypeOK
  <2>2. got \subseteq Traces /\ Seal(p, kept[p]) \in Traces
    BY DEF Traces
  <2> QED BY <1>5, <1>6, <2>1, <2>2 DEF Seal
<1>11. SaidIsKept'
  BY <1>1, <1>9, <1>10 DEF SealedInv, SaidIsKept, SoleFile, Sole, Live
<1>12. ListIsCurrent'
  <2>1. SUFFICES ASSUME NEW x \in tree, SoleFile(row'[x.path]), kept[x.path] = row'[x.path]
                 PROVE  x.content = row'[x.path]
    BY <1>1 DEF ListIsCurrent, SoleFile, Sole
  <2>2. x.path \in Path
    BY DEF SealedInv, SealedTypeOK, Entry
  <2> QED BY <1>9, <1>10, <2>1, <2>2 DEF SealedInv, ListIsCurrent, SoleFile, Sole, Live
<1>13. OnlyCopyStays'
  BY <1>1, <1>9 DEF SealedInv, OnlyCopyStays, SoleFile, Sole, Live
<1> QED BY <1>3, <1>7, <1>8, <1>11, <1>12, <1>13 DEF SealedInv

LEMMA CopyKeeps ==
  ASSUME SealedInv, NEW p \in Path, NEW o \in Path, Copy(o, p)
  PROVE  SealedInv'
<1>0. PICK c : c = row[o]
  OBVIOUS
<1>1. /\ row' = [row EXCEPT ![p] = c] /\ known' = known \cup {p}
      /\ here \subseteq here' /\ here' \subseteq here \cup {p}
      /\ copied' = copied \cup {c}
      /\ UNCHANGED <<files, view, replicas, tree, kept, got>>
  BY <1>0 DEF Copy
<1>2. c \in Nat /\ ~SoleFile(c)'
  BY <1>0, <1>1 DEF SealedInv, SealedTypeOK, SoleFile, Sole
<1>3. \A d : SoleFile(d)' => SoleFile(d)
  BY <1>1 DEF SoleFile, Sole
<1>4. ASSUME NEW q \in Path PROVE IF q = p THEN row'[q] = c ELSE row'[q] = row[q]
  BY <1>1 DEF SealedInv, SealedTypeOK
<1>5. SealedTypeOK'
  BY <1>1, <1>2 DEF SealedInv, SealedTypeOK
<1>6. c <= files /\ Seal(p, c).content = c
  <2>1. Seal(o, c) \in Traces /\ Seal(o, c).content = c
    BY <1>0 DEF Traces, Seal
  <2> QED BY <2>1 DEF SealedInv, OfOnePath, Seal
<1>7. \A x \in Traces' : x \in Traces \/ x = Seal(p, c)
  BY <1>1, <1>4 DEF Traces
<1>8. OfOnePath'
  <2>1. ASSUME NEW x \in Traces', NEW y \in Traces', SoleFile(x.content)', x.content = y.content
        PROVE  x.path = y.path
    <3>1. x.content # c /\ y.content # c
      BY <1>2, <2>1
    <3>2. x \in Traces /\ y \in Traces
      BY <1>6, <1>7, <3>1
    <3> QED BY <1>3, <2>1, <3>2 DEF SealedInv, OfOnePath
  <2>2. ASSUME NEW x \in Traces' PROVE x.content <= files
    BY <1>6, <1>7 DEF SealedInv, OfOnePath
  <2> QED BY <1>1, <2>1, <2>2 DEF SealedInv, OfOnePath
<1>9. ListOfKnown'
  BY <1>1, <1>4 DEF SealedInv, ListOfKnown, Live
<1>10. ASSUME NEW q \in Path, SoleFile(row[q])' PROVE row'[q] = row[q] /\ SoleFile(row[q])
  BY <1>2, <1>3, <1>4, <1>10
<1>11. SaidIsKept'
  BY <1>1, <1>10 DEF SealedInv, SaidIsKept
<1>12. ListIsCurrent'
  <2>1. ASSUME NEW x \in tree PROVE x.path \in Path
    BY DEF SealedInv, SealedTypeOK, Entry
  <2> QED BY <1>1, <1>10, <2>1 DEF SealedInv, ListIsCurrent
<1>13. OnlyCopyStays'
  <2>1. ASSUME NEW q \in Path, row'[q] # NoContent, q \notin here', Sole(row[q])'
        PROVE  kept[q] = row'[q]
    <3>1. row'[q] = row[q] /\ SoleFile(row[q])
      BY <1>10, <2>1 DEF SoleFile
    <3> QED BY <1>1, <2>1, <3>1 DEF SealedInv, OnlyCopyStays, SoleFile, Live
  <2> QED BY <1>1, <2>1 DEF OnlyCopyStays, Live
<1> QED BY <1>5, <1>8, <1>9, <1>11, <1>12, <1>13 DEF SealedInv

LEMMA LookKeeps ==
  ASSUME SealedInv, Look
  PROVE  SealedInv'
<1>1. PICK done \in SUBSET ToSeal :
        /\ view' = [p \in Path |-> IF p \in done THEN row[p] ELSE view[p]]
        /\ tree' = SealedTree(view')
        /\ UNCHANGED <<row, known, here, files, copied, replicas, kept, got>>
  BY DEF Look, Viewed, vault
<1>2. ASSUME NEW x \in tree' PROVE x \in Entry /\ x.path \in known /\ x = Seal(x.path, row[x.path])
  BY <1>1, <1>2 DEF SealedTree, Seal, Entry, SealedInv, SealedTypeOK
<1>3. SealedTypeOK'
  BY <1>1, <1>2 DEF SealedInv, SealedTypeOK
<1>4. OfOnePath'
  <2>1. \A x \in Traces' : x \in Traces
    BY <1>1, <1>2 DEF Traces, Entry
  <2> QED BY <1>1, <2>1, NoNewTrace DEF SealedInv
<1>5. ListOfKnown'
  BY <1>1, <1>2 DEF SealedInv, ListOfKnown, Live
<1>6. ListIsCurrent'
  BY <1>1, <1>2 DEF ListIsCurrent, SoleFile, Sole, Seal
<1>7. SaidIsKept' /\ OnlyCopyStays'
  BY <1>1 DEF SealedInv, SaidIsKept, OnlyCopyStays, SoleFile, Sole, Live
<1> QED BY <1>3, <1>4, <1>5, <1>6, <1>7 DEF SealedInv

LEMMA GotKeeps ==
  ASSUME SealedInv, NEW e \in got, Got(e) \/ GotLost(e)
  PROVE  SealedInv'
<1>1. /\ got' = got \ {e}
      /\ replicas' \subseteq replicas \cup {e.content}
      /\ UNCHANGED <<row, known, here, files, copied, view, tree, kept>>
  BY DEF Got, GotLost, Unsealed, vault
<1>2. e \in Entry /\ e.path \in Path /\ e \in Traces /\ e = Seal(e.path, e.content)
  BY DEF SealedInv, SealedTypeOK, Entry, Traces, Seal
<1>3. SealedTypeOK'
  BY <1>1, <1>2 DEF SealedInv, SealedTypeOK, Entry
<1>4. OfOnePath'
  <2>1. \A x \in Traces' : x \in Traces
    BY <1>1 DEF Traces
  <2>2. e.content <= files
    BY <1>2 DEF SealedInv, OfOnePath
  <2> QED BY <1>1, <2>1, <2>2, NoNewTrace DEF SealedInv
<1>5. ListOfKnown' /\ ListIsCurrent' /\ OnlyCopyStays'
  BY <1>1 DEF SealedInv, ListOfKnown, ListIsCurrent, OnlyCopyStays, SoleFile, Sole, Live
<1>6. SaidIsKept'
  <2>1. SUFFICES ASSUME NEW q \in Path, SoleFile(row[q]), row[q] \in replicas' \/ Seal(q, row[q]) \in got'
                 PROVE  kept[q] = row[q]
    BY <1>1 DEF SaidIsKept, SoleFile, Sole
  <2>2. CASE row[q] \in replicas \/ Seal(q, row[q]) \in got
    BY <2>1, <2>2 DEF SealedInv, SaidIsKept, SoleFile, Sole, Live
  <2>3. CASE row[q] = e.content
    <3>1. Seal(q, row[q]) \in Traces /\ Seal(q, row[q]).path = q /\ Seal(q, row[q]).content = row[q]
      BY DEF Traces, Seal
    <3>2. e.path = q
      BY <1>2, <2>1, <2>3, <3>1 DEF SealedInv, OfOnePath
    <3>3. Seal(q, row[q]) \in got
      BY <1>2, <2>3, <3>2
    <3> QED BY <2>2, <3>3
  <2> QED BY <1>1, <2>1, <2>2, <2>3
<1> QED BY <1>3, <1>4, <1>5, <1>6 DEF SealedInv

LEMMA LearnKeeps ==
  ASSUME SealedInv, NEW p \in Path, Learn(p)
  PROVE  SealedInv'
<1>1. /\ kept[p] # NoContent /\ p \notin known
      /\ row' = [row EXCEPT ![p] = kept[p]] /\ known' = known \cup {p}
      /\ replicas' = replicas \cup {kept[p]}
      /\ UNCHANGED <<here, files, copied, view, tree, kept, got>>
  BY DEF Learn
<1>2. SealedTypeOK'
  BY <1>1 DEF SealedInv, SealedTypeOK
<1>3. ASSUME NEW q \in Path PROVE IF q = p THEN row'[q] = kept[p] ELSE row'[q] = row[q]
  BY <1>1 DEF SealedInv, SealedTypeOK
<1>4. Seal(p, kept[p]) \in Traces /\ Seal(p, kept[p]).path = p /\ Seal(p, kept[p]).content = kept[p]
  BY DEF Traces, Seal
<1>5. OfOnePath'
  <2>1. \A x \in Traces' : x \in Traces
    BY <1>1, <1>3 DEF Traces
  <2>2. kept[p] <= files
    BY <1>4 DEF SealedInv, OfOnePath
  <2> QED BY <1>1, <2>1, <2>2, NoNewTrace DEF SealedInv
<1>6. ListOfKnown'
  BY <1>1, <1>3 DEF SealedInv, ListOfKnown, Live
<1>7. SaidIsKept'
  <2>1. SUFFICES ASSUME NEW q \in Path, q # p, SoleFile(row[q]),
                        row[q] \in replicas' \/ Seal(q, row[q]) \in got
                 PROVE  kept[q] = row[q]
    BY <1>1, <1>3 DEF SaidIsKept, SoleFile, Sole
  <2>2. Seal(q, row[q]) \in Traces /\ Seal(q, row[q]).path = q /\ Seal(q, row[q]).content = row[q]
    BY DEF Traces, Seal
  <2>3. row[q] # kept[p]
    BY <1>1, <1>4, <2>1, <2>2 DEF SealedInv, OfOnePath
  <2> QED BY <1>1, <2>1, <2>3 DEF SealedInv, SaidIsKept, SoleFile, Sole, Live
<1>8. ListIsCurrent'
  <2>1. ASSUME NEW x \in tree PROVE x.path # p /\ x.path \in Path
    BY <1>1, <2>1 DEF SealedInv, ListOfKnown, SealedTypeOK, Entry
  <2> QED BY <1>1, <1>3, <2>1 DEF SealedInv, ListIsCurrent, SoleFile, Sole, Live
<1>9. OnlyCopyStays'
  BY <1>1, <1>3 DEF SealedInv, OnlyCopyStays, SoleFile, Sole, Live
<1> QED BY <1>2, <1>5, <1>6, <1>7, <1>8, <1>9 DEF SealedInv

LEMMA FreeKeeps ==
  ASSUME SealedInv, NEW p \in Path, Free(p)
  PROVE  SealedInv'
<1>1. /\ Live(p) /\ row[p] \in replicas /\ here' = here \ {p}
      /\ UNCHANGED <<row, known, files, copied, view, replicas, tree, kept, got>>
  BY DEF Free, MayFree
<1>2. OnlyCopyStays'
  BY <1>1 DEF SealedInv, OnlyCopyStays, SaidIsKept, SoleFile, Sole, Live
<1>3. SealedTypeOK' /\ OfOnePath' /\ ListOfKnown' /\ SaidIsKept' /\ ListIsCurrent'
  BY <1>1 DEF SealedInv, SealedTypeOK, OfOnePath, Traces, ListOfKnown, SaidIsKept, ListIsCurrent, SoleFile, Sole, Live
<1> QED BY <1>2, <1>3 DEF SealedInv

LEMMA DeleteKeeps ==
  ASSUME SealedInv, NEW p \in Path, Delete(p)
  PROVE  SealedInv'
<1>1. /\ row' = [row EXCEPT ![p] = NoContent] /\ here' = here \ {p}
      /\ UNCHANGED <<known, files, copied, view, replicas, tree, kept, got>>
  BY DEF Delete
<1>2. SealedTypeOK'
  BY <1>1 DEF SealedInv, SealedTypeOK, NoContent
<1>3. ASSUME NEW q \in Path PROVE IF q = p THEN row'[q] = NoContent ELSE row'[q] = row[q]
  BY <1>1 DEF SealedInv, SealedTypeOK
<1>4. OfOnePath'
  <2>1. \A x \in Traces' : x \in Traces \/ x.content = NoContent
    BY <1>1, <1>3 DEF Traces, Seal
  <2> QED BY <1>1, <2>1, NoNewTrace DEF SealedInv
<1>5. ListOfKnown' /\ SaidIsKept' /\ OnlyCopyStays'
  BY <1>1, <1>3 DEF SealedInv, ListOfKnown, SaidIsKept, OnlyCopyStays, SoleFile, Sole, Live
<1>6. ListIsCurrent'
  <2>1. ASSUME NEW x \in tree PROVE x.path \in Path
    BY DEF SealedInv, SealedTypeOK, Entry
  <2> QED BY <1>1, <1>3, <2>1 DEF SealedInv, ListIsCurrent, SoleFile, Sole, Live
<1> QED BY <1>2, <1>4, <1>5, <1>6 DEF SealedInv

LEMMA ClearedKeeps ==
  ASSUME SealedInv, Cleared
  PROVE  SealedInv'
<1>1. /\ row' = [p \in Path |-> NoContent] /\ view' = [p \in Path |-> NoContent]
      /\ known' = {} /\ here' = {} /\ replicas' = {} /\ tree' = {} /\ got' = {}
      /\ UNCHANGED <<kept, files, copied>>
  BY DEF Cleared
<1>2. SealedTypeOK'
  BY <1>1 DEF SealedInv, SealedTypeOK, NoContent
<1>3. OfOnePath'
  <2>1. \A x \in Traces' : x \in Traces \/ x.content = NoContent
    BY <1>1 DEF Traces, Seal
  <2> QED BY <1>1, <2>1, NoNewTrace DEF SealedInv
<1>4. ListOfKnown' /\ SaidIsKept' /\ OnlyCopyStays' /\ ListIsCurrent'
  BY <1>1 DEF ListOfKnown, SaidIsKept, OnlyCopyStays, ListIsCurrent, SoleFile, Sole, Live
<1> QED BY <1>2, <1>3, <1>4 DEF SealedInv

LEMMA ConfirmKeeps ==
  ASSUME SealedAssumption, SealedInv, NEW p \in Path, ConfirmKept(p)
  PROVE  SealedInv'
<1>1. /\ replicas' = replicas \cup ({row[p]} \cap Theirs)
      /\ UNCHANGED <<row, known, here, files, copied, view, tree, kept, got>>
  BY DEF ConfirmKept, vault
<1>2. SealedTypeOK'
  BY <1>1, SealedAssumption DEF SealedInv, SealedTypeOK
<1>3. row[p] <= files
  <2>1. Seal(p, row[p]) \in Traces /\ Seal(p, row[p]).content = row[p]
    BY DEF Traces, Seal
  <2> QED BY <2>1 DEF SealedInv, OfOnePath
<1>4. OfOnePath'
  <2>1. \A x \in Traces' : x \in Traces
    BY <1>1 DEF Traces
  <2> QED BY <1>1, <1>3, <2>1, NoNewTrace DEF SealedInv
<1>5. ListOfKnown' /\ ListIsCurrent' /\ OnlyCopyStays'
  BY <1>1 DEF SealedInv, ListOfKnown, ListIsCurrent, OnlyCopyStays, SoleFile, Sole, Live
<1>6. SaidIsKept'
  BY <1>1 DEF SealedInv, SaidIsKept, SoleFile, Sole
<1> QED BY <1>2, <1>4, <1>5, <1>6 DEF SealedInv

LEMMA SealedStep ==
  ASSUME SealedAssumption, SealedInv, [Next]_vars
  PROVE  SealedInv'
<1>1. CASE UNCHANGED <<row, known, files, copied, view, replicas, tree, kept, got>> /\ here \subseteq here' /\ here' \subseteq Path
  BY <1>1 DEF SealedInv, SealedTypeOK, OfOnePath, Traces, ListOfKnown, SaidIsKept, ListIsCurrent, OnlyCopyStays, SoleFile, Sole, Live
<1>2. ASSUME NEW p \in Path, OfAPath(p) PROVE SealedInv'
  <2>1. CASE Want(p) \/ OpenedLapses(p)
    BY <1>1, <2>1 DEF Want, OpenedLapses, vault, SealedInv, SealedTypeOK
  <2>2. CASE FetchBack(p)
    BY <1>1, <2>2 DEF FetchBack, SealedInv, SealedTypeOK
  <2>3. CASE ConfirmKept(p)
    BY <2>3, ConfirmKeeps
  <2> QED BY <1>2, <2>1, <2>2, <2>3, PutKeeps, CopyKeeps, DeleteKeeps, FreeKeeps, LearnKeeps DEF OfAPath
<1>3. CASE SealedNext
  BY <1>2, <1>3, HoldKeeps, GotKeeps, LookKeeps, ClearedKeeps DEF SealedNext
<1>4. CASE UNCHANGED sealedVars
  BY <1>1, <1>4 DEF sealedVars, vault, SealedInv, SealedTypeOK
<1>5. [Next]_vars => SealedNext \/ UNCHANGED sealedVars
  BY DEF Next, Own, Keeping, Asked, Passing, Fetches, Backups, vars, SealedNext
<1> QED BY <1>3, <1>4, <1>5

\* Store::free_kept_by_hosts never lets go of the only copy: every file of a
\* guest's vault is here, or kept as it is under its sealed name, unless its
\* content was copied within the vault (copy_in_vault) or is one the computer's
\* person shares with the guest.
THEOREM NeverTheOnlyCopy == Spec => []OnlyCopyStays
<1>1. Init => SealedInv
  BY SealedStarts, ShowingStarts DEF Init
<1>2. SealedInv /\ [Next]_vars => SealedInv'
  BY SealedAssumption, SealedStep
<1>3. SealedInv => OnlyCopyStays
  BY DEF SealedInv
<1> QED BY <1>1, <1>2, <1>3, PTL DEF Spec

-----------------------------------------------------------------------------
(* Pass: how long a phone stays to answer.                                 *)

PassTypeOK ==
    /\ pass \in {"none", "starting", "reaching", "announcing", "staying", "looking", "deciding", "ended",
                "over"}
    /\ look \in [allowed: BOOLEAN, waits: BOOLEAN, missed: BOOLEAN]
    /\ serving \in Nat /\ (pass # "none" => serving \in {Budget, Long})
    /\ clock \in [elapsed: Nat, served: Nat, come: Nat, excused: Nat, looked: Nat, silent: Nat,
                  shown: BOOLEAN]

\* How long nobody need collect for the pass to end.
Due == IF serving > Budget \/ clock.shown THEN PAUSED ELSE LINGER

\* While it stays, what is left of the time given, with the time nobody
\* collected, comes to that: the time to come by, after a freeze, since a
\* device collected, or all the pass is allowed; or a freeze is still to be
\* noticed, by the next look if it fell after this one.
ToBeNoticed ==
    /\ clock.looked >= FROZEN
    /\ pass \in {"looking", "staying"} \/ (pass = "deciding" /\ look.missed)

TimeIsGiven ==
    pass \in {"announcing", "looking", "deciding", "staying"} =>
      \/ clock.silent + clock.come >= Due
      \/ clock.silent + clock.excused >= PAUSED
      \/ clock.silent >= UpTo(PAUSED, clock.served)
      \/ clock.elapsed + clock.come >= serving
      \/ ToBeNoticed

\* What a look has settled stays so while it is acted on.
LookHolds ==
    pass = "deciding" => /\ look.allowed \/ clock.elapsed >= serving
                         /\ look.waits \/ (clock.come = 0 /\ clock.excused = 0)

ExcusedIsShown == clock.excused > 0 => clock.shown

BeforeStaying ==
    /\ pass \in {"none", "starting"} => ~clock.shown
    /\ pass \in {"none", "starting", "reaching", "announcing"} => clock.excused = 0
    /\ pass = "reaching" /\ clock.shown => clock.silent >= UpTo(PAUSED, clock.served)

PassInv == PassTypeOK /\ TimeIsGiven /\ LookHolds /\ ExcusedIsShown /\ BeforeStaying /\ StaysForIt

LEMMA PassStarts ==
  ASSUME PassTimes, NEW l, PassInit(l)
  PROVE  PassInv
BY DEF PassTimes, PassInit, NoLook, PassInv, PassTypeOK, TimeIsGiven, LookHolds, ExcusedIsShown, BeforeStaying, StaysForIt

\* Time that passes moves from what is left to what has gone.
LEMMA LaterGives ==
  ASSUME PassTimes, PassTypeOK, NEW k \in Nat
  PROVE  /\ Later(k) \in [elapsed: Nat, served: Nat, come: Nat, excused: Nat, looked: Nat, silent: Nat,
                           shown: BOOLEAN]
         /\ Later(k).shown = clock.shown
         /\ Later(k).looked >= IF clock.looked + k > FROZEN THEN FROZEN ELSE clock.looked + k
         /\ Later(k).excused > 0 => clock.excused > 0
         /\ clock.come = 0 => Later(k).come = 0
         /\ serving <= Long /\ clock.elapsed >= serving => Later(k).elapsed >= serving
         /\ clock.silent + clock.come >= PAUSED => Later(k).silent + Later(k).come >= PAUSED
         /\ clock.silent + clock.come >= LINGER => Later(k).silent + Later(k).come >= LINGER
         /\ clock.silent + clock.excused >= PAUSED => Later(k).silent + Later(k).excused >= PAUSED
         /\ clock.silent >= UpTo(PAUSED, clock.served) => Later(k).silent >= UpTo(PAUSED, Later(k).served)
         /\ serving <= Long /\ clock.elapsed + clock.come >= serving => Later(k).elapsed + Later(k).come >= serving
<1> DEFINE c == clock
           d == Later(k)
<1>1. c.elapsed \in Nat /\ c.served \in Nat /\ c.come \in Nat /\ c.excused \in Nat /\ c.looked \in Nat
      /\ c.silent \in Nat /\ c.shown \in BOOLEAN
  BY DEF PassTypeOK
<1>2. /\ {PAUSED, LINGER, FROZEN, Long, MaxFreeze} \subseteq Nat
      /\ LINGER <= PAUSED
  BY DEF PassTimes
<1>3. /\ d.elapsed = UpTo(Long + MaxFreeze, c.elapsed + k) /\ d.served = UpTo(PAUSED + 1, c.served + k)
      /\ d.come = Left(c.come, k) /\ d.excused = Left(c.excused, k) /\ d.looked = UpTo(FROZEN, c.looked + k)
      /\ d.silent = UpTo(PAUSED, c.silent + k) /\ d.shown = c.shown
      /\ d \in [elapsed: {d.elapsed}, served: {d.served}, come: {d.come}, excused: {d.excused},
                 looked: {d.looked}, silent: {d.silent}, shown: {d.shown}]
  BY DEF PassTypeOK, Later
<1> HIDE DEF c, d
<1>4. d.elapsed \in Nat /\ d.served \in Nat /\ d.come \in Nat /\ d.excused \in Nat /\ d.looked \in Nat
      /\ d.silent \in Nat /\ d.shown \in BOOLEAN
  BY <1>1, <1>2, <1>3 DEF UpTo, Left
<1>5. d \in [elapsed: Nat, served: Nat, come: Nat, excused: Nat, looked: Nat, silent: Nat, shown: BOOLEAN]
  BY <1>3, <1>4
<1>6. /\ d.looked >= IF c.looked + k > FROZEN THEN FROZEN ELSE c.looked + k
      /\ d.excused > 0 => c.excused > 0
      /\ c.come = 0 => d.come = 0
  BY <1>1, <1>2, <1>3 DEF UpTo, Left
<1>7. /\ c.silent + c.come >= PAUSED => d.silent + d.come >= PAUSED
      /\ c.silent + c.come >= LINGER => d.silent + d.come >= LINGER
  BY <1>1, <1>2, <1>3 DEF UpTo, Left
<1>8. c.silent + c.excused >= PAUSED => d.silent + d.excused >= PAUSED
  BY <1>1, <1>2, <1>3 DEF UpTo, Left
<1>9. c.silent >= UpTo(PAUSED, c.served) => d.silent >= UpTo(PAUSED, d.served)
  BY <1>1, <1>2, <1>3 DEF UpTo, Left
<1>10. serving <= Long /\ c.elapsed + c.come >= serving => d.elapsed + d.come >= serving
  <2>1. serving \in Nat
    BY DEF PassTypeOK
  <2> QED BY <1>1, <1>2, <1>3, <2>1 DEF UpTo, Left
<1>11. serving <= Long /\ c.elapsed >= serving => d.elapsed >= serving
  <2>1. serving \in Nat
    BY DEF PassTypeOK
  <2> QED BY <1>1, <1>2, <1>3, <2>1 DEF UpTo
<1> QED BY <1>3, <1>5, <1>6, <1>7, <1>8, <1>9, <1>10, <1>11 DEF c, d

LEMMA TimeKeeps ==
  ASSUME PassTimes, PassInv, NEW k \in 1..MaxFreeze, Awake \/ AsksTake \/ Frozen(k)
  PROVE  PassInv'
<1> USE PassTimes
<1> DEFINE Loop == {"staying", "looking", "deciding"}
<1>1. PICK j \in Nat : \/ clock' = Later(j) /\ (look' = look \/ pass # "deciding")
                       \/ /\ j >= FROZEN /\ pass \in Loop
                          /\ clock' = [Later(j) EXCEPT !.silent = 0]
                          /\ pass = "deciding" => look'.missed
  <2>1. CASE Awake \/ AsksTake
    BY <2>1 DEF Awake, AsksTake
  <2>2. CASE Frozen(k)
    <3>1. k \in Nat
      OBVIOUS
    <3>2. CASE pass \in Loop /\ k >= FROZEN
      <4>1. look' = [look EXCEPT !.missed = @ \/ (pass = "deciding" /\ k >= FROZEN)]
        BY <2>2 DEF Frozen
      <4>2. pass = "deciding" => look'.missed
        BY <3>2, <4>1 DEF PassInv, PassTypeOK
      <4>3. clock' = [Later(k) EXCEPT !.silent = 0]
        BY <2>2, <3>2 DEF Frozen
      <4> QED BY <3>1, <3>2, <4>2, <4>3
    <3>3. CASE ~(pass \in Loop /\ k >= FROZEN)
      <4>1. Later(k) \in [elapsed: Nat, served: Nat, come: Nat, excused: Nat, looked: Nat, silent: Nat,
                           shown: BOOLEAN]
        BY <3>1, LaterGives DEF PassInv
      <4>2. clock' = [Later(k) EXCEPT !.silent = @]
        BY <2>2, <3>3 DEF Frozen
      <4>3. clock' = Later(k)
        BY <4>1, <4>2
      <4>4. look' = look \/ pass # "deciding"
        <5>1. ~(pass = "deciding" /\ k >= FROZEN)
          BY <3>3
        <5>2. look' = [look EXCEPT !.missed = @ \/ (pass = "deciding" /\ k >= FROZEN)]
          BY <2>2 DEF Frozen
        <5>3. look \in [allowed: BOOLEAN, waits: BOOLEAN, missed: BOOLEAN]
          BY DEF PassInv, PassTypeOK
        <5>4. look' = [look EXCEPT !.missed = look.missed]
          BY <5>1, <5>2, <5>3
        <5> QED BY <5>3, <5>4
      <4> QED BY <3>1, <4>3, <4>4
    <3> QED BY <3>2, <3>3
  <2> QED BY <2>1, <2>2
<1>2. /\ Going
      /\ pass' = IF pass = "staying" THEN "looking" ELSE pass
      /\ UNCHANGED <<serving, left, holder, offered>>
      /\ look' \in [allowed: BOOLEAN, waits: BOOLEAN, missed: BOOLEAN]
      /\ look'.allowed = look.allowed /\ look'.waits = look.waits
  <2>1. look \in [allowed: BOOLEAN, waits: BOOLEAN, missed: BOOLEAN]
    BY DEF PassInv, PassTypeOK
  <2>2. look' = look \/ \E m \in BOOLEAN : look' = [look EXCEPT !.missed = m]
    BY <2>1 DEF Awake, AsksTake, Frozen
  <2>3. /\ look' \in [allowed: BOOLEAN, waits: BOOLEAN, missed: BOOLEAN]
        /\ look'.allowed = look.allowed /\ look'.waits = look.waits
    BY <2>1, <2>2
  <2> QED BY <2>3 DEF Awake, AsksTake, Frozen, Going, PassInv, PassTypeOK
<1>3. /\ pass \in {"starting", "reaching", "announcing", "staying", "looking", "deciding"}
      /\ serving \in {Budget, Long}
      /\ pass' \in {"starting", "reaching", "announcing", "looking", "deciding"}
  BY <1>2 DEF PassInv, PassTypeOK, Going
<1>4. serving <= Long /\ serving \in Nat /\ FROZEN \in Nat
  BY <1>3 DEF PassTimes
<1> DEFINE l == Later(j)
<1>5. /\ l \in [elapsed: Nat, served: Nat, come: Nat, excused: Nat, looked: Nat, silent: Nat, shown: BOOLEAN]
      /\ l.shown = clock.shown
      /\ l.looked >= IF clock.looked + j > FROZEN THEN FROZEN ELSE clock.looked + j
      /\ l.excused > 0 => clock.excused > 0
      /\ clock.come = 0 => l.come = 0
      /\ clock.elapsed >= serving => l.elapsed >= serving
      /\ clock.silent + clock.come >= PAUSED => l.silent + l.come >= PAUSED
      /\ clock.silent + clock.come >= LINGER => l.silent + l.come >= LINGER
      /\ clock.silent + clock.excused >= PAUSED => l.silent + l.excused >= PAUSED
      /\ clock.silent >= UpTo(PAUSED, clock.served) => l.silent >= UpTo(PAUSED, l.served)
      /\ clock.elapsed + clock.come >= serving => l.elapsed + l.come >= serving
  BY <1>4, LaterGives DEF PassInv
<1> HIDE DEF l
<1>6. clock.looked \in Nat /\ clock.excused \in Nat /\ clock.come \in Nat
  BY DEF PassInv, PassTypeOK
<1>9. ASSUME clock'.come = l.come, clock'.excused = l.excused, clock'.elapsed = l.elapsed
      PROVE  LookHolds'
  <2>1. clock.excused = 0 => l.excused = 0
    BY <1>5, <1>6
  <2> QED BY <1>2, <1>5, <1>9, <2>1 DEF PassInv, LookHolds
<1>7. CASE clock' = l /\ (look' = look \/ pass # "deciding")
  <2>1. PassTypeOK' /\ ExcusedIsShown' /\ StaysForIt'
    BY <1>2, <1>3, <1>4, <1>5, <1>7 DEF PassInv, PassTypeOK, ExcusedIsShown, StaysForIt
  <2>2. BeforeStaying'
    <3>1. clock.excused = 0 => l.excused = 0
      BY <1>5, <1>6
    <3> QED BY <1>2, <1>3, <1>5, <1>7, <3>1 DEF PassInv, BeforeStaying
  <2>3. TimeIsGiven'
    <3>1. SUFFICES ASSUME pass' \in {"announcing", "looking", "deciding", "staying"} PROVE TimeIsGiven'
      BY DEF TimeIsGiven
    <3>2. Due' = Due /\ Due \in {PAUSED, LINGER}
      BY <1>2, <1>5, <1>7 DEF Due
    <3>3. pass \in {"announcing", "looking", "deciding", "staying"}
      BY <1>2, <3>1
    <3>4. CASE clock.silent + clock.come >= Due
      BY <1>5, <1>7, <3>2, <3>4 DEF TimeIsGiven
    <3>5. CASE clock.silent + clock.excused >= PAUSED
      BY <1>5, <1>7, <3>5 DEF TimeIsGiven
    <3>6. CASE clock.silent >= UpTo(PAUSED, clock.served)
      BY <1>5, <1>7, <3>6 DEF TimeIsGiven
    <3>7. CASE clock.elapsed + clock.come >= serving
      BY <1>2, <1>5, <1>7, <3>7 DEF TimeIsGiven
    <3>8. CASE ToBeNoticed
      <4>1. l.looked \in Nat
        BY <1>5
      <4>2. l.looked >= FROZEN
        BY <1>4, <1>5, <1>6, <3>8, <4>1 DEF ToBeNoticed
      <4>3. ToBeNoticed'
        BY <1>2, <1>7, <3>8, <4>2 DEF ToBeNoticed
      <4> QED BY <4>3 DEF TimeIsGiven
    <3> QED BY <3>3, <3>4, <3>5, <3>6, <3>7, <3>8 DEF PassInv, TimeIsGiven
  <2>4. LookHolds'
    BY <1>7, <1>9
  <2> QED BY <2>1, <2>2, <2>3, <2>4 DEF PassInv
<1>8. CASE /\ j >= FROZEN /\ pass \in Loop /\ clock' = [l EXCEPT !.silent = 0]
           /\ pass = "deciding" => look'.missed
  <2>1. /\ clock' \in [elapsed: Nat, served: Nat, come: Nat, excused: Nat, looked: Nat, silent: Nat, shown: BOOLEAN]
        /\ clock'.looked = l.looked /\ clock'.excused = l.excused /\ clock'.shown = l.shown
        /\ clock'.come = l.come /\ clock'.elapsed = l.elapsed
    BY <1>5, <1>8
  <2>2. pass' \in {"looking", "deciding"} /\ (pass' = "deciding" => pass = "deciding")
    BY <1>2, <1>8
  <2>3. l.looked \in Nat /\ l.looked >= FROZEN
    BY <1>4, <1>5, <1>6, <1>8
  <2>4. TimeIsGiven'
    BY <1>8, <2>1, <2>2, <2>3 DEF TimeIsGiven, ToBeNoticed
  <2>5. LookHolds'
    BY <1>9, <2>1
  <2> QED BY <1>2, <1>3, <1>4, <1>5, <2>1, <2>2, <2>4, <2>5
          DEF PassInv, PassTypeOK, ExcusedIsShown, BeforeStaying, StaysForIt
<1> QED BY <1>1, <1>7, <1>8 DEF l

\* Nothing the theorem is about changes.
LEMMA AsideKeeps ==
  ASSUME PassInv, UNCHANGED <<serving, left, holder, offered, look, clock>>,
         pass' = pass \/ (pass' = "ended" /\ pass # "none")
                     \/ (pass = "starting" /\ pass' = "reaching")
  PROVE  PassInv'
BY DEF PassInv, PassTypeOK, TimeIsGiven, ToBeNoticed, LookHolds, Due, ExcusedIsShown, BeforeStaying,
       StaysForIt, ForOthers

LEMMA CollectKeeps ==
  ASSUME PassTimes, PassInv, NEW p \in Peer, NEW k \in Kind, Collect(p, k)
  PROVE  PassInv'
<1>1. /\ pass \in {"reaching", "announcing", "staying", "looking", "deciding"} /\ pass' = pass
      /\ serving' = serving /\ look' = look
      /\ clock' = [clock EXCEPT !.served = 0, !.silent = 0, !.shown = TRUE]
  BY DEF Collect
<1>2. /\ PassTypeOK' /\ clock'.silent = 0 /\ clock'.served = 0 /\ clock'.shown
      /\ clock'.come = clock.come /\ clock'.excused = clock.excused /\ clock'.elapsed = clock.elapsed
  BY <1>1 DEF PassInv, PassTypeOK
<1>3. clock'.silent >= UpTo(PAUSED, clock'.served)
  BY <1>2 DEF UpTo, PassTimes
<1> QED BY <1>1, <1>2, <1>3 DEF PassInv, TimeIsGiven, LookHolds, ExcusedIsShown, BeforeStaying, StaysForIt

LEMMA DoneReachingKeeps ==
  ASSUME PassTimes, PassInv, DoneReaching
  PROVE  PassInv'
<1>1. CASE ~StaysToAnswer
  <2>1. pass = "reaching" /\ pass' = "ended" /\ UNCHANGED <<serving, left, holder, offered, look, clock>>
    BY <1>1 DEF DoneReaching
  <2> QED BY <2>1, AsideKeeps
<1>2. CASE StaysToAnswer
  <2> DEFINE quiet == IF serving > Budget \/ ~clock.shown THEN 0 ELSE clock.silent
  <2>1. /\ pass = "reaching" /\ pass' = "announcing" /\ serving' = serving /\ look' = look
        /\ clock' = [clock EXCEPT !.come = ComeBy, !.silent = quiet]
    BY <1>2 DEF DoneReaching
  <2>2. /\ clock.elapsed \in Nat /\ clock.served \in Nat /\ clock.silent \in Nat
        /\ serving \in {Budget, Long} /\ {Budget, Long, PAUSED, LINGER} \subseteq Nat
        /\ Budget <= Long
    BY <2>1 DEF PassInv, PassTypeOK, PassTimes
  <2>3. ComeBy \in Nat /\ quiet \in Nat
    BY <2>2 DEF ComeBy, UpTo, Left
  <2>4. /\ clock' \in [elapsed: Nat, served: Nat, come: Nat, excused: Nat, looked: Nat, silent: Nat, shown: BOOLEAN]
        /\ clock'.come = ComeBy /\ clock'.silent = quiet /\ clock'.elapsed = clock.elapsed
        /\ clock'.served = clock.served /\ clock'.excused = clock.excused /\ clock'.shown = clock.shown
    BY <2>1, <2>3 DEF PassInv, PassTypeOK
  <2>5. \/ quiet + ComeBy >= IF serving > Budget \/ clock.shown THEN PAUSED ELSE LINGER
        \/ quiet >= UpTo(PAUSED, clock.served)
        \/ clock.elapsed + ComeBy >= serving
    <3>1. CASE serving > Budget
      BY <2>2, <3>1 DEF ComeBy, UpTo, Left
    <3>2. CASE ~(serving > Budget) /\ clock.shown
      BY <2>1, <3>2 DEF PassInv, BeforeStaying
    <3>3. CASE ~(serving > Budget) /\ ~clock.shown
      <4>1. serving = Budget /\ quiet = 0
        BY <2>2, <3>3
      <4> QED BY <2>2, <3>3, <4>1 DEF ComeBy, UpTo, Left
    <3> QED BY <3>1, <3>2, <3>3
  <2> HIDE DEF quiet
  <2>6. TimeIsGiven'
    BY <2>1, <2>4, <2>5 DEF TimeIsGiven, Due
  <2>7. PassTypeOK' /\ LookHolds' /\ ExcusedIsShown' /\ BeforeStaying' /\ StaysForIt'
    BY <2>1, <2>2, <2>4 DEF PassInv, PassTypeOK, LookHolds, ExcusedIsShown, BeforeStaying, StaysForIt
  <2> QED BY <2>6, <2>7 DEF PassInv
<1> QED BY <1>1, <1>2

LEMMA AnnouncedKeeps ==
  ASSUME PassTimes, PassInv, NEW may \in SUBSET Peer, Announced(may)
  PROVE  PassInv'
<1>1. /\ pass = "announcing" /\ pass' = "looking" /\ serving' = serving /\ look' = look
      /\ clock' = [clock EXCEPT !.looked = 0, !.excused = 0]
  BY DEF Announced
<1>2. PassTypeOK' /\ clock'.excused = 0 /\ clock'.shown = clock.shown /\ clock'.silent = clock.silent
      /\ clock'.come = clock.come /\ clock'.served = clock.served /\ clock'.elapsed = clock.elapsed
  BY <1>1 DEF PassInv, PassTypeOK
<1>3. TimeIsGiven'
  <2>1. CASE clock.silent + clock.excused >= PAUSED
    BY <1>1, <1>2, <2>1 DEF PassInv, BeforeStaying, TimeIsGiven
  <2>2. ~ToBeNoticed
    BY <1>1 DEF ToBeNoticed
  <2> QED BY <1>1, <1>2, <2>1, <2>2 DEF PassInv, TimeIsGiven, Due
<1> QED BY <1>1, <1>2, <1>3 DEF PassInv, LookHolds, ExcusedIsShown, BeforeStaying, StaysForIt

LEMMA TakeLookKeeps ==
  ASSUME PassTimes, PassInv, TakeLook
  PROVE  PassInv'
<1> DEFINE excused == ExcusedUntil
<1>1. /\ pass = "looking" /\ pass' = "deciding" /\ UNCHANGED <<serving, left, holder, offered>>
      /\ clock' = [clock EXCEPT !.excused = excused, !.looked = 0, !.shown = @ \/ excused > 0]
      /\ look' = [allowed |-> clock.elapsed < serving,
                  waits |-> clock.come > 0 \/ excused > 0, missed |-> FALSE]
  BY DEF TakeLook
<1>2. /\ clock.elapsed \in Nat /\ clock.served \in Nat /\ clock.silent \in Nat /\ clock.come \in Nat
      /\ clock.excused \in Nat /\ clock.looked \in Nat /\ serving \in Nat
      /\ {PAUSED, LINGER, FROZEN} \subseteq Nat \ {0} /\ LINGER <= PAUSED
  BY DEF PassInv, PassTypeOK, PassTimes
<1>3. /\ excused \in Nat
      /\ clock.looked >= FROZEN => excused = PAUSED
      /\ clock.looked < FROZEN => excused = clock.excused
  BY <1>2 DEF ExcusedUntil, UpTo
<1> HIDE DEF excused
<1>4. /\ clock' \in [elapsed: Nat, served: Nat, come: Nat, excused: Nat, looked: Nat, silent: Nat, shown: BOOLEAN]
      /\ clock'.excused = excused /\ clock'.shown = (clock.shown \/ excused > 0)
      /\ clock'.silent = clock.silent /\ clock'.come = clock.come
      /\ clock'.served = clock.served /\ clock'.elapsed = clock.elapsed
  BY <1>1, <1>3 DEF PassInv, PassTypeOK
<1>5. TimeIsGiven'
  <2>1. CASE clock.looked >= FROZEN
    BY <1>2, <1>3, <1>4, <2>1 DEF TimeIsGiven
  <2>2. CASE clock.looked < FROZEN
    <3>1. excused = clock.excused
      BY <1>3, <2>2
    <3>2. clock'.shown = clock.shown
      <4>1. excused > 0 => clock.shown
        BY <3>1 DEF PassInv, ExcusedIsShown
      <4>2. clock.shown \in BOOLEAN
        BY DEF PassInv, PassTypeOK
      <4> QED BY <1>4, <4>1, <4>2
    <3>3. Due' = Due
      BY <1>1, <3>2 DEF Due
    <3>4. ~ToBeNoticed
      BY <1>2, <2>2 DEF ToBeNoticed
    <3> QED BY <1>1, <1>4, <3>1, <3>3, <3>4 DEF PassInv, TimeIsGiven
  <2> QED BY <1>2, <2>1, <2>2
<1>6. LookHolds'
  <2>1. /\ clock.elapsed < serving => look'.allowed
        /\ clock.come > 0 \/ excused > 0 => look'.waits
    BY <1>1
  <2>2. look'.allowed \/ clock'.elapsed >= serving'
    BY <1>1, <1>2, <1>4, <2>1
  <2>3. look'.waits \/ (clock'.come = 0 /\ clock'.excused = 0)
    BY <1>2, <1>3, <1>4, <2>1
  <2> QED BY <2>2, <2>3 DEF LookHolds
<1>7. PassTypeOK'
  <2>1. look' \in [allowed: BOOLEAN, waits: BOOLEAN, missed: BOOLEAN]
    BY <1>1
  <2> QED BY <1>1, <1>4, <2>1 DEF PassInv, PassTypeOK
<1> QED BY <1>1, <1>4, <1>5, <1>6, <1>7 DEF PassInv, ExcusedIsShown, BeforeStaying, StaysForIt

LEMMA DecideKeeps ==
  ASSUME PassTimes, PassInv, Decide
  PROVE  PassInv'
<1>1. pass = "deciding" /\ UNCHANGED <<serving, left, holder, offered, clock>>
  BY DEF Decide
<1>2. /\ clock.elapsed \in Nat /\ clock.served \in Nat /\ clock.silent \in Nat /\ clock.come \in Nat
      /\ clock.excused \in Nat /\ serving \in Nat
      /\ {PAUSED, LINGER} \subseteq Nat \ {0} /\ LINGER <= PAUSED
  BY DEF PassInv, PassTypeOK, PassTimes
<1>3. CASE KeepAnswering
  <2>1. pass' = "staying" /\ look' = NoLook
    BY <1>3 DEF Decide
  <2>2. TimeIsGiven'
    <3>1. Due' = Due
      BY <1>1 DEF Due
    <3>2. ToBeNoticed => ToBeNoticed'
      BY <1>1, <2>1 DEF ToBeNoticed
    <3> QED BY <1>1, <2>1, <3>1, <3>2 DEF PassInv, TimeIsGiven
  <2> QED BY <1>1, <2>1, <2>2
          DEF PassInv, PassTypeOK, NoLook, LookHolds, ExcusedIsShown, BeforeStaying, StaysForIt
<1>4. CASE ~KeepAnswering
  <2>1. pass' = "over" /\ look' = look
    BY <1>4 DEF Decide
  <2>2. StaysForIt'
    <3>1. SUFFICES ASSUME ForOthers # {}, ~(clock.elapsed >= serving), ~look.missed
                   PROVE  clock.silent >= Due
      BY <1>1, <2>1 DEF StaysForIt, Due, ForOthers
    <3>2. look.allowed
      BY <1>1, <3>1 DEF PassInv, LookHolds
    <3>3. ~look.waits /\ ~Recently(PAUSED)
      BY <1>4, <3>1, <3>2 DEF KeepAnswering
    <3>4. clock.come = 0 /\ clock.excused = 0
      BY <1>1, <3>3 DEF PassInv, LookHolds
    <3>5. clock.served > PAUSED
      BY <1>2, <3>3 DEF Recently
    <3>6. Due <= PAUSED /\ Due \in Nat
      BY <1>2 DEF Due
    <3>7. UpTo(PAUSED, clock.served) = PAUSED
      BY <1>2, <3>5 DEF UpTo
    <3>8. \/ clock.silent + clock.come >= Due
          \/ clock.silent + clock.excused >= PAUSED
          \/ clock.silent >= UpTo(PAUSED, clock.served)
          \/ clock.elapsed + clock.come >= serving
      BY <1>1, <3>1 DEF PassInv, TimeIsGiven, ToBeNoticed
    <3> QED BY <1>2, <3>1, <3>4, <3>6, <3>7, <3>8
  <2> QED BY <1>1, <2>1, <2>2
          DEF PassInv, PassTypeOK, TimeIsGiven, LookHolds, ExcusedIsShown, BeforeStaying
<1> QED BY <1>3, <1>4

LEMMA PassStep ==
  ASSUME PassTimes, PassInv, [Next]_vars
  PROVE  PassInv'
<1> USE PassTimes
<1>1. ASSUME NEW allowed \in {Budget, Long}, Start(allowed) PROVE PassInv'
  <2>1. pass = "none" /\ pass' = "starting" /\ serving' = allowed /\ look' = look /\ clock' = clock
    BY <1>1 DEF Start
  <2>2. allowed \in Nat
    BY DEF PassTimes
  <2> QED BY <2>1, <2>2 DEF PassInv, PassTypeOK, TimeIsGiven, LookHolds, ExcusedIsShown, BeforeStaying, StaysForIt
<1>2. ASSUME NEW p \in Peer, WithPeer(p) PROVE PassInv'
  <2>1. CASE Answer(p) \/ Unreachable(p) \/ SyncReached(p) \/ Synced(p) \/ SyncRanOut(p)
    <3>1. UNCHANGED <<pass, serving, left, holder, offered, look, clock>>
      BY <2>1 DEF Answer, Unreachable, SyncReached, Synced, SyncRanOut
    <3> QED BY <3>1, AsideKeeps
  <2> QED BY <1>2, <2>1, CollectKeeps DEF WithPeer
<1>3. CASE StartFails \/ Started
  <2>1. /\ UNCHANGED <<serving, left, holder, offered, look, clock>>
        /\ pass = "starting" /\ pass' \in {"ended", "reaching"}
    BY <1>3 DEF StartFails, Started
  <2> QED BY <2>1, AsideKeeps
<1>4. CASE NetworkChanges
  <2>1. Going /\ UNCHANGED <<pass, serving, left, holder, look, clock>>
    BY <1>4 DEF NetworkChanges
  <2> QED BY <2>1 DEF Going, PassInv, PassTypeOK, TimeIsGiven, ToBeNoticed, LookHolds, Due, ExcusedIsShown, BeforeStaying, StaysForIt
<1>5. CASE Awake \/ AsksTake
  <2>1. 1 \in 1..MaxFreeze
    BY DEF PassTimes
  <2> QED BY <1>5, <2>1, TimeKeeps
<1>6. CASE PassNext
  BY <1>1, <1>2, <1>3, <1>4, <1>5, <1>6, TimeKeeps, DoneReachingKeeps, TakeLookKeeps, DecideKeeps, AnnouncedKeeps DEF PassNext
<1>7. CASE UNCHANGED passVars
  <2>1. UNCHANGED <<pass, serving, left, holder, offered, look, clock>>
    BY <1>7 DEF passVars
  <2> QED BY <2>1, AsideKeeps
<1>8. [Next]_vars => PassNext \/ UNCHANGED passVars
  BY DEF Next, Own, Keeping, Asked, Passing, Fetches, Backups, vars
<1> QED BY <1>6, <1>7, <1>8

\* A pass with something still to be collected and time allowed ends only
\* once nobody collected for as long as come_by and keep_answering give, unless
\* it was frozen between its last look and what that look decided.
THEOREM StaysAsLongAsGiven == Spec => []StaysForIt
<1>1. Init => PassInv
  BY PassTimes, PassStarts DEF Init
<1>2. PassInv /\ [Next]_vars => PassInv'
  BY PassTimes, PassStep
<1>3. PassInv => StaysForIt
  BY DEF PassInv
<1> QED BY <1>1, <1>2, <1>3, PTL DEF Spec

-----------------------------------------------------------------------------
(* Fetch: content carried on from where an earlier attempt was cut off.    *)

Content == DOMAIN Manifest
Bytes == Seq(Chunk \cup {Cut})
Flight == [hash: Chunk, bytes: Chunk \cup {"asked", "none", "damaged"}]

FetchTypeOK ==
    /\ world = "fetch" => offers \in [Name -> Content]
    /\ steps \in Seq([name: Name, content: Content])
    /\ staged \in [Name -> Bytes] /\ file \in [Name -> Bytes]
    /\ is \in [Name -> Content \cup {"none"}]
    /\ \/ fetch = NoFetch
       \/ fetch \in [at: {"here", "coming", "alone", "fetching", "whole"}, name: Name, content: Content,
                     next: Nat, whole: Bytes, flight: Seq(Flight)]

\* What was written is what was hashed, and what the content starts with.
WrittenIsStart ==
    fetch.at = "fetching" =>
      /\ fetch.whole = staged[fetch.name]
      /\ Len(fetch.whole) <= Len(Manifest[fetch.content])
      /\ \A i \in 1..Len(fetch.whole) : fetch.whole[i] = Manifest[fetch.content][i]

\* The chunks asked for are the next ones, in order.
FlightIsNext ==
    /\ fetch.at \in {"here", "coming", "alone"} => fetch.flight = <<>>
    /\ fetch.at = "fetching" =>
      /\ fetch.next = Len(fetch.whole) + Len(fetch.flight)
      /\ fetch.next <= Len(Manifest[fetch.content])
      /\ \A i \in 1..Len(fetch.flight) :
           fetch.flight[i].hash = Manifest[fetch.content][Len(fetch.whole) + i]

WholeIsStaged == fetch.at = "whole" => staged[fetch.name] = Manifest[fetch.content]

InPlace == \A n \in Name : is[n] # "none" => file[n] = Manifest[is[n]]

FetchInv == FetchTypeOK /\ WrittenIsStart /\ FlightIsNext /\ WholeIsStaged /\ InPlace

\* A set of naturals that is not empty has a least member.
LEMMA LeastNatural ==
  ASSUME NEW T \in SUBSET Nat, T # {}
  PROVE  \E m \in T : \A n \in T : m <= n
<1> DEFINE R == OpToRel(<, Nat)
<1>1. IsWellFoundedOn(R, Nat)
  BY NatLessThanWellFounded
<1>2. R = {ss \in Nat \X Nat : ss[1] < ss[2]}
  BY DEF OpToRel
<1> HIDE DEF R
<1>3. PICK m \in T : \A n \in T : ~(<<n, m>> \in R)
  BY <1>1, WFMin
<1>4. \A n \in T : ~(n < m)
  BY <1>2, <1>3
<1> QED BY <1>4

\* resume_point counts chunks that are there and that the content starts with.
LEMMA MatchingAgrees ==
  ASSUME NEW X, NEW there \in Seq(X), NEW like \in Seq(X)
  PROVE  /\ Matching(there, like) \in 0..Len(there)
         /\ Matching(there, like) <= Len(like)
         /\ \A i \in 1..Matching(there, like) : there[i] = like[i]
<1> DEFINE agree == {k \in 0..Len(there) : k <= Len(like) /\ \A i \in 1..k : there[i] = like[i]}
           T == {Len(there) - k : k \in agree}
<1>1. Len(there) \in Nat /\ Len(like) \in Nat
  OBVIOUS
<1>2. 0 \in agree
  BY <1>1
<1>3. T \in SUBSET Nat /\ T # {}
  BY <1>1, <1>2
<1>4. PICK m \in T : \A n \in T : m <= n
  BY <1>3, LeastNatural
<1>5. PICK k \in agree : m = Len(there) - k
  BY <1>4
<1>6. ASSUME NEW j \in agree PROVE j <= k
  <2>1. Len(there) - j \in T
    OBVIOUS
  <2>2. Len(there) - k <= Len(there) - j
    BY <1>4, <1>5, <2>1
  <2>3. j \in Nat /\ k \in Nat
    BY <1>1
  <2> QED BY <1>1, <2>2, <2>3
<1>7. Matching(there, like) = CHOOSE n \in agree : \A j \in agree : j <= n
  BY DEF Matching
<1> HIDE DEF agree
<1>8. Matching(there, like) \in agree
  BY <1>6, <1>7
<1> QED BY <1>8 DEF agree

LEMMA FetchStarts ==
  ASSUME NEW o, FetchInit(o), world = "fetch" => o \in Offers
  PROVE  FetchInv
<1>1. <<>> \in Bytes /\ <<>> \in Seq([name: Name, content: Content])
  BY DEF Bytes
<1> QED BY <1>1 DEF FetchInit, FetchInv, FetchTypeOK, WrittenIsStart, FlightIsNext, WholeIsStaged, InPlace,
                    Offers, Content, NoFile, NoFetch

\* The invariant gives the property.
LEMMA StartIsPrefix ==
  ASSUME FetchAssumption, FetchInv
  PROVE  CarriedOn
<1>1. ASSUME fetch.at = "fetching"
      PROVE  Seqs!IsPrefix(fetch.whole, Manifest[fetch.content])
  <2>1. fetch.whole \in Bytes /\ fetch.content \in Content
    BY <1>1 DEF FetchInv, FetchTypeOK, NoFetch
  <2>2. Manifest[fetch.content] \in Seq(Chunk)
    BY <2>1 DEF FetchAssumption, Content
  <2> DEFINE w == fetch.whole
             M == Manifest[fetch.content]
  <2>3. Len(w) <= Len(M) /\ \A i \in 1..Len(w) : w[i] = M[i]
    BY <1>1 DEF FetchInv, WrittenIsStart
  <2>4. w \in Seq(Chunk \cup {Cut}) /\ M \in Seq(Chunk \cup {Cut})
    BY <2>1, <2>2 DEF Bytes
  <2> HIDE DEF w, M
  <2>5. SubSeq(w, 1, Len(w)) = SubSeq(M, 1, Len(w))
    BY <2>3, <2>4
  <2> QED BY <2>3, <2>5 DEF Seqs!IsPrefix, w, M
<1> QED BY <1>1 DEF FetchInv, CarriedOn, WrittenIsStart, InPlace

\* While a fetch goes on, what it is of.
LEMMA GoingOn ==
  ASSUME FetchAssumption, FetchInv, fetch # NoFetch
  PROVE  /\ fetch \in [at: {"here", "coming", "alone", "fetching", "whole"}, name: Name, content: Content,
                        next: Nat, whole: Bytes, flight: Seq(Flight)]
         /\ Manifest[fetch.content] \in Seq(Chunk) /\ Manifest[fetch.content] \in Bytes
         /\ staged[fetch.name] \in Bytes
<1>1. fetch \in [at: {"here", "coming", "alone", "fetching", "whole"}, name: Name, content: Content,
                 next: Nat, whole: Bytes, flight: Seq(Flight)]
  BY DEF FetchInv, FetchTypeOK
<1>2. Manifest[fetch.content] \in Seq(Chunk)
  BY <1>1 DEF FetchAssumption, Content
<1> QED BY <1>1, <1>2 DEF FetchInv, FetchTypeOK, Bytes

\* What a fetch writes in one go, or puts in place, is the whole content.
LEMMA WholeKeeps ==
  ASSUME FetchAssumption, FetchInv, fetch.at # "none", UNCHANGED <<world, offers, steps>>,
         \/ CopyHere \/ TakeReady \/ Place \/ PlaceFails
  PROVE  FetchInv'
<1>1. fetch # NoFetch
  BY DEF NoFetch
<1>2. /\ fetch \in [at: {"here", "coming", "alone", "fetching", "whole"}, name: Name, content: Content,
                     next: Nat, whole: Bytes, flight: Seq(Flight)]
      /\ Manifest[fetch.content] \in Bytes /\ staged[fetch.name] \in Bytes
  BY <1>1, GoingOn
<1>3. CASE CopyHere \/ TakeReady
  <2>1. /\ staged' = [staged EXCEPT ![fetch.name] = Manifest[fetch.content]]
        /\ fetch' = [fetch EXCEPT !.at = "whole"]
        /\ UNCHANGED <<file, is>>
    BY <1>3 DEF CopyHere, TakeReady
  <2>2. /\ fetch'.at = "whole" /\ fetch'.name = fetch.name /\ fetch'.content = fetch.content
        /\ fetch' \in [at: {"here", "coming", "alone", "fetching", "whole"}, name: Name, content: Content,
                     next: Nat, whole: Bytes, flight: Seq(Flight)]
    BY <1>2, <2>1
  <2>3. staged' \in [Name -> Bytes] /\ staged'[fetch.name] = Manifest[fetch.content]
    BY <1>2, <2>1 DEF FetchInv, FetchTypeOK
  <2>4. FetchTypeOK'
    BY <2>1, <2>2, <2>3 DEF FetchInv, FetchTypeOK
  <2> QED BY <2>1, <2>2, <2>3, <2>4 DEF FetchInv, WrittenIsStart, FlightIsNext, WholeIsStaged, InPlace
<1>4. CASE Place \/ PlaceFails
  <2>1. /\ staged' = [staged EXCEPT ![fetch.name] = NoFile] /\ fetch' = NoFetch
        /\ fetch.at = "whole"
    BY <1>4 DEF Place, PlaceFails
  <2>2. <<>> \in Bytes
    BY DEF Bytes
  <2>3. staged' \in [Name -> Bytes]
    BY <1>2, <2>1, <2>2 DEF FetchInv, FetchTypeOK, NoFile
  <2>4. /\ file' \in [Name -> Bytes] /\ is' \in [Name -> Content \cup {"none"}]
        /\ InPlace'
    <3>1. CASE PlaceFails
      BY <3>1 DEF PlaceFails, FetchInv, FetchTypeOK, InPlace
    <3>2. CASE Place
      <4>1. /\ file' = [file EXCEPT ![fetch.name] = staged[fetch.name]]
            /\ is' = [is EXCEPT ![fetch.name] = fetch.content]
        BY <3>2 DEF Place
      <4>2. staged[fetch.name] = Manifest[fetch.content]
        BY <2>1 DEF FetchInv, WholeIsStaged
      <4>3. file' \in [Name -> Bytes] /\ is' \in [Name -> Content \cup {"none"}]
        BY <1>2, <4>1 DEF FetchInv, FetchTypeOK
      <4>4. ASSUME NEW n \in Name, is'[n] # "none" PROVE file'[n] = Manifest[is'[n]]
        BY <1>2, <4>1, <4>2, <4>4 DEF FetchInv, FetchTypeOK, InPlace
      <4> QED BY <4>3, <4>4 DEF InPlace
    <3> QED BY <1>4, <3>1, <3>2
  <2>5. fetch'.at = "none"
    BY <2>1 DEF NoFetch
  <2> QED BY <2>1, <2>3, <2>4, <2>5 DEF FetchInv, FetchTypeOK, WrittenIsStart, FlightIsNext, WholeIsStaged
<1> QED BY <1>3, <1>4

\* What is left when a fetch ends, whatever is in the file beside its place.
LEMMA EndsKeeps ==
  ASSUME FetchAssumption, FetchInv, fetch' = NoFetch, staged' \in [Name -> Bytes],
         UNCHANGED <<world, file, is>>, offers' = offers,
         steps' = steps \/ steps' = <<>>
  PROVE  FetchInv'
<1>1. fetch'.at = "none"
  BY DEF NoFetch
<1>2. steps' \in Seq([name: Name, content: Content])
  <2>1. <<>> \in Seq([name: Name, content: Content])
    OBVIOUS
  <2> QED BY <2>1 DEF FetchInv, FetchTypeOK
<1> QED BY <1>1, <1>2 DEF FetchInv, FetchTypeOK, WrittenIsStart, FlightIsNext, WholeIsStaged, InPlace

LEMMA ResumePointKeeps ==
  ASSUME FetchAssumption, FetchInv, ResumePoint, world' = world
  PROVE  FetchInv'
<1> DEFINE M == Manifest[fetch.content]
           there == staged[fetch.name]
           k == Matching(there, M)
           kept1 == SubSeq(there, 1, k)
<1>1. /\ fetch.at \in {"coming", "alone"}
      /\ staged' = [staged EXCEPT ![fetch.name] = kept1]
      /\ fetch' = [fetch EXCEPT !.at = "fetching", !.next = Len(kept1), !.whole = kept1]
      /\ UNCHANGED <<offers, steps, file, is>>
  BY DEF ResumePoint, Alone
<1>2. fetch # NoFetch
  BY <1>1 DEF NoFetch
<1>3. /\ fetch \in [at: {"here", "coming", "alone", "fetching", "whole"}, name: Name, content: Content,
                     next: Nat, whole: Bytes, flight: Seq(Flight)]
      /\ M \in Bytes /\ there \in Bytes
  BY <1>2, GoingOn
<1> HIDE DEF M, there
<1>4. k \in 0..Len(there) /\ k \in Nat /\ k <= Len(M) /\ \A i \in 1..k : there[i] = M[i]
  BY <1>3, MatchingAgrees DEF Bytes
<1> HIDE DEF k
<1>5. kept1 \in Bytes /\ Len(kept1) = k /\ \A i \in 1..k : kept1[i] = M[i]
  BY <1>3, <1>4 DEF Bytes
<1> HIDE DEF kept1
<1>6. /\ fetch'.at = "fetching" /\ fetch'.name = fetch.name /\ fetch'.content = fetch.content
      /\ fetch'.next = k /\ fetch'.whole = kept1 /\ fetch'.flight = <<>>
      /\ fetch' \in [at: {"here", "coming", "alone", "fetching", "whole"}, name: Name, content: Content,
                     next: Nat, whole: Bytes, flight: Seq(Flight)]
  <2>1. fetch.flight = <<>>
    BY <1>1 DEF FetchInv, FlightIsNext
  <2> QED BY <1>1, <1>3, <1>4, <1>5, <2>1
<1>7. staged' \in [Name -> Bytes] /\ staged'[fetch.name] = kept1
  BY <1>1, <1>3, <1>5 DEF FetchInv, FetchTypeOK
<1>8. FetchTypeOK' /\ InPlace'
  BY <1>1, <1>6, <1>7 DEF FetchInv, FetchTypeOK, InPlace
<1>9. WrittenIsStart' /\ FlightIsNext'
  BY <1>4, <1>5, <1>6, <1>7 DEF WrittenIsStart, FlightIsNext, M
<1> QED BY <1>6, <1>8, <1>9 DEF FetchInv, WholeIsStaged

LEMMA AskChunkKeeps ==
  ASSUME FetchAssumption, FetchInv, AskChunk, world' = world
  PROVE  FetchInv'
<1> DEFINE M == Manifest[fetch.content]
           h == M[fetch.next + 1]
           f == [hash |-> h, bytes |-> IF HasChunk(h) THEN h ELSE "asked"]
<1>1. /\ fetch.at = "fetching" /\ fetch.next < Len(M)
      /\ fetch' = [fetch EXCEPT !.next = @ + 1, !.flight = Append(@, f)]
      /\ UNCHANGED <<offers, steps, staged, file, is>>
  BY DEF AskChunk
<1>2. fetch # NoFetch
  BY <1>1 DEF NoFetch
<1>3. /\ fetch \in [at: {"here", "coming", "alone", "fetching", "whole"}, name: Name, content: Content,
                     next: Nat, whole: Bytes, flight: Seq(Flight)]
      /\ M \in Seq(Chunk)
  BY <1>2, GoingOn
<1>4. /\ fetch.next = Len(fetch.whole) + Len(fetch.flight)
      /\ \A i \in 1..Len(fetch.flight) : fetch.flight[i].hash = M[Len(fetch.whole) + i]
  BY <1>1 DEF FetchInv, FlightIsNext
<1>5. fetch.flight \in Seq(Flight) /\ Len(fetch.whole) \in Nat /\ Len(fetch.flight) \in Nat /\ Len(M) \in Nat
  BY <1>3 DEF Bytes
<1> HIDE DEF M
<1>6. h \in Chunk
  BY <1>1, <1>3, <1>4, <1>5
<1>7. f \in Flight /\ f.hash = h
  BY <1>6 DEF Flight
<1> HIDE DEF f
<1>8. /\ Append(fetch.flight, f) \in Seq(Flight)
      /\ Len(Append(fetch.flight, f)) = Len(fetch.flight) + 1
      /\ \A i \in 1..Len(fetch.flight) + 1 : Append(fetch.flight, f)[i].hash = M[Len(fetch.whole) + i]
  <2>1. ASSUME NEW i \in 1..Len(fetch.flight) + 1 PROVE Append(fetch.flight, f)[i].hash = M[Len(fetch.whole) + i]
    <3>1. CASE i \in 1..Len(fetch.flight)
      <4>1. Append(fetch.flight, f)[i] = fetch.flight[i]
        BY <1>5, <1>7, <3>1
      <4> QED BY <1>4, <3>1, <4>1
    <3>2. CASE i = Len(fetch.flight) + 1
      <4>1. Append(fetch.flight, f)[i] = f
        BY <1>5, <1>7, <3>2
      <4>2. fetch.next + 1 = (Len(fetch.whole) + Len(fetch.flight)) + 1
        BY <1>4
      <4>3. ASSUME NEW a \in Nat, NEW c \in Nat PROVE a + (c + 1) = (a + c) + 1
        OBVIOUS
      <4>4. Len(fetch.whole) + i = fetch.next + 1
        BY <1>5, <3>2, <4>2, <4>3, Zenon
      <4> QED BY <1>7, <4>1, <4>4
    <3> QED BY <1>5, <2>1, <3>1, <3>2
  <2> QED BY <1>5, <1>7, <2>1
<1>9. /\ fetch' \in [at: {"here", "coming", "alone", "fetching", "whole"}, name: Name, content: Content,
                     next: Nat, whole: Bytes, flight: Seq(Flight)]
      /\ fetch'.at = "fetching" /\ fetch'.name = fetch.name /\ fetch'.content = fetch.content
      /\ fetch'.next = fetch.next + 1 /\ fetch'.whole = fetch.whole
      /\ fetch'.flight = Append(fetch.flight, f)
  <2>1. fetch.next + 1 \in Nat
    BY <1>3
  <2> DEFINE n1 == fetch.next + 1
             fl1 == Append(fetch.flight, f)
  <2>2. fetch' = [fetch EXCEPT !.next = n1, !.flight = fl1] /\ n1 \in Nat /\ fl1 \in Seq(Flight)
    BY <1>1, <1>8, <2>1
  <2> HIDE DEF n1, fl1
  <2>3. /\ fetch' \in [at: {"here", "coming", "alone", "fetching", "whole"}, name: Name, content: Content,
                      next: Nat, whole: Bytes, flight: Seq(Flight)]
        /\ fetch'.at = "fetching" /\ fetch'.name = fetch.name /\ fetch'.content = fetch.content
        /\ fetch'.next = n1 /\ fetch'.whole = fetch.whole /\ fetch'.flight = fl1
    BY <1>1, <1>3, <2>2
  <2> QED BY <2>3 DEF n1, fl1
<1>10. FetchTypeOK' /\ InPlace' /\ WholeIsStaged' /\ WrittenIsStart'
  BY <1>1, <1>9 DEF FetchInv, FetchTypeOK, InPlace, WholeIsStaged, WrittenIsStart
<1>11. fetch.next + 1 <= Len(M) /\ fetch.next + 1 = Len(fetch.whole) + (Len(fetch.flight) + 1)
  BY <1>1, <1>3, <1>4, <1>5
<1>12. FlightIsNext'
  BY <1>8, <1>9, <1>11 DEF FlightIsNext, M
<1> QED BY <1>10, <1>12 DEF FetchInv

LEMMA ChunkComesKeeps ==
  ASSUME FetchAssumption, FetchInv, NEW i \in 1..IN_FLIGHT, ChunkComes(i), world' = world
  PROVE  FetchInv'
<1>1. PICK bytes \in {"none", "damaged"} \cup {fetch.flight[i].hash} :
        /\ fetch.at = "fetching" /\ i \in DOMAIN fetch.flight
        /\ fetch' = [fetch EXCEPT !.flight[i].bytes = bytes]
        /\ UNCHANGED <<offers, steps, staged, file, is>>
  BY DEF ChunkComes
<1>2. fetch # NoFetch
  BY <1>1 DEF NoFetch
<1>3. fetch \in [at: {"here", "coming", "alone", "fetching", "whole"}, name: Name, content: Content,
                     next: Nat, whole: Bytes, flight: Seq(Flight)]
  BY <1>2, GoingOn
<1> DEFINE g == [fetch.flight EXCEPT ![i].bytes = bytes]
<1>4. /\ fetch.flight \in Seq(Flight) /\ i \in 1..Len(fetch.flight)
      /\ fetch.flight[i] \in Flight
  BY <1>1, <1>3
<1>5. [fetch.flight[i] EXCEPT !.bytes = bytes] \in Flight
  BY <1>4 DEF Flight
<1>6. g \in Seq(Flight) /\ Len(g) = Len(fetch.flight)
  BY <1>4, <1>5
<1>7. \A j \in 1..Len(fetch.flight) : g[j].hash = fetch.flight[j].hash
  <2>1. ASSUME NEW j \in 1..Len(fetch.flight) PROVE g[j].hash = fetch.flight[j].hash
    <3>1. fetch.flight[j] \in Flight
      BY <1>4
    <3>2. g[j] = IF j = i THEN [fetch.flight[i] EXCEPT !.bytes = bytes] ELSE fetch.flight[j]
      BY <1>4
    <3> QED BY <1>4, <3>1, <3>2 DEF Flight
  <2> QED BY <2>1
<1>8. fetch' = [fetch EXCEPT !.flight = g]
  BY <1>1, <1>3
<1> HIDE DEF g
<1>9. /\ fetch' \in [at: {"here", "coming", "alone", "fetching", "whole"}, name: Name, content: Content,
                     next: Nat, whole: Bytes, flight: Seq(Flight)]
      /\ fetch'.at = "fetching" /\ fetch'.name = fetch.name /\ fetch'.content = fetch.content
      /\ fetch'.next = fetch.next /\ fetch'.whole = fetch.whole /\ fetch'.flight = g
  BY <1>1, <1>3, <1>6, <1>8
<1>10. FetchTypeOK' /\ InPlace' /\ WholeIsStaged' /\ WrittenIsStart'
  BY <1>1, <1>9 DEF FetchInv, FetchTypeOK, InPlace, WholeIsStaged, WrittenIsStart
<1>11. FlightIsNext'
  BY <1>1, <1>6, <1>7, <1>9 DEF FetchInv, FlightIsNext
<1> QED BY <1>10, <1>11 DEF FetchInv

LEMMA WriteChunkKeeps ==
  ASSUME FetchAssumption, FetchInv, WriteChunk, world' = world
  PROVE  FetchInv'
<1> DEFINE M == Manifest[fetch.content]
           fl == fetch.flight
           w == fetch.whole
           b == Head(fetch.flight).bytes
<1>1. /\ fetch.at = "fetching" /\ fl # <<>> /\ b = Head(fl).hash
      /\ staged' = [staged EXCEPT ![fetch.name] = Append(@, b)]
      /\ fetch' = [fetch EXCEPT !.flight = Tail(@), !.whole = Append(@, b)]
      /\ UNCHANGED <<offers, steps, file, is>>
  BY DEF WriteChunk, Writing, Checked
<1>2. fetch # NoFetch
  BY <1>1 DEF NoFetch
<1>3. /\ fetch \in [at: {"here", "coming", "alone", "fetching", "whole"}, name: Name, content: Content,
                     next: Nat, whole: Bytes, flight: Seq(Flight)]
      /\ M \in Seq(Chunk)
  BY <1>2, GoingOn
<1>4. /\ w = staged[fetch.name] /\ Len(w) <= Len(M) /\ \A i \in 1..Len(w) : w[i] = M[i]
      /\ fetch.next = Len(w) + Len(fl) /\ fetch.next <= Len(M)
      /\ \A i \in 1..Len(fl) : fl[i].hash = M[Len(w) + i]
  BY <1>1 DEF FetchInv, WrittenIsStart, FlightIsNext
<1>5. fl \in Seq(Flight) /\ w \in Seq(Chunk \cup {Cut}) /\ Len(w) \in Nat /\ Len(fl) \in Nat /\ Len(M) \in Nat
  BY <1>3 DEF Bytes
<1> HIDE DEF M, fl, w
<1>6. Head(fl) = fl[1] /\ fl[1] \in Flight /\ 1 \in 1..Len(fl) /\ Len(fl) >= 1
  BY <1>1, <1>5
<1>7. b \in Chunk /\ b = M[Len(w) + 1]
  <2>1. b = fl[1].hash
    BY <1>1, <1>6
  <2>2. fl[1].hash \in Chunk
    BY <1>6 DEF Flight
  <2> QED BY <1>4, <1>6, <2>1, <2>2
<1> HIDE DEF b
<1>8. /\ Tail(fl) \in Seq(Flight) /\ Len(Tail(fl)) = Len(fl) - 1
      /\ \A i \in 1..Len(fl) - 1 : Tail(fl)[i] = fl[i + 1]
  BY <1>1, <1>5, <1>6
<1>9. /\ Append(w, b) \in Seq(Chunk \cup {Cut}) /\ Len(Append(w, b)) = Len(w) + 1
      /\ \A i \in 1..Len(w) : Append(w, b)[i] = w[i]
      /\ Append(w, b)[Len(w) + 1] = b
  BY <1>5, <1>7
<1>10. /\ fetch' \in [at: {"here", "coming", "alone", "fetching", "whole"}, name: Name, content: Content,
                     next: Nat, whole: Bytes, flight: Seq(Flight)]
       /\ fetch'.at = "fetching" /\ fetch'.name = fetch.name /\ fetch'.content = fetch.content
       /\ fetch'.next = fetch.next /\ fetch'.whole = Append(w, b) /\ fetch'.flight = Tail(fl)
  BY <1>1, <1>3, <1>8, <1>9 DEF Bytes, w, fl
<1>11. staged' \in [Name -> Bytes] /\ staged'[fetch.name] = Append(w, b)
  BY <1>1, <1>3, <1>4, <1>9 DEF FetchInv, FetchTypeOK, Bytes
<1>12. FetchTypeOK' /\ InPlace' /\ WholeIsStaged'
  BY <1>1, <1>10, <1>11 DEF FetchInv, FetchTypeOK, InPlace, WholeIsStaged
<1>13. Len(w) + 1 <= Len(M) /\ \A i \in 1..Len(w) + 1 : Append(w, b)[i] = M[i]
  <2>1. ASSUME NEW i \in 1..Len(w) + 1 PROVE Append(w, b)[i] = M[i]
    <3>1. i \in 1..Len(w) \/ i = Len(w) + 1
      BY <1>5
    <3> QED BY <1>4, <1>7, <1>9, <3>1
  <2>2. Len(w) + 1 <= Len(M)
    BY <1>3, <1>4, <1>5, <1>6
  <2> QED BY <2>1, <2>2
<1>14. WrittenIsStart'
  BY <1>9, <1>10, <1>11, <1>13 DEF WrittenIsStart, M
<1>15. ASSUME NEW i \in 1..Len(Tail(fl)) PROVE Tail(fl)[i].hash = M[Len(Append(w, b)) + i]
  <2>1. i \in 1..Len(fl) - 1 /\ i + 1 \in 1..Len(fl) /\ i \in Nat
    BY <1>5, <1>8, <1>15
  <2>2. Tail(fl)[i].hash = M[Len(w) + (i + 1)]
    BY <1>4, <1>8, <2>1
  <2>3. Len(w) + (i + 1) = Len(Append(w, b)) + i
    BY <1>5, <1>9, <2>1
  <2> QED BY <2>2, <2>3
<1>16. FlightIsNext'
  <2>1. fetch.next = Len(Append(w, b)) + Len(Tail(fl))
    BY <1>4, <1>5, <1>8, <1>9
  <2> QED BY <1>4, <1>10, <1>15, <2>1 DEF FlightIsNext, M
<1> QED BY <1>12, <1>14, <1>16 DEF FetchInv

\* The fetch moves on without touching the file beside its place.
LEMMA MovesKeeps ==
  ASSUME FetchAssumption, FetchInv, world' = world,
         AllWritten \/ FetchAhead
  PROVE  FetchInv'
<1>1. UNCHANGED <<offers, steps, staged, file, is>>
  BY DEF AllWritten, FetchAhead
<1>2. fetch # NoFetch
  BY DEF AllWritten, FetchAhead, NoFetch
<1>3. /\ fetch \in [at: {"here", "coming", "alone", "fetching", "whole"}, name: Name, content: Content,
                     next: Nat, whole: Bytes, flight: Seq(Flight)]
  BY <1>2, GoingOn
<1>4. CASE AllWritten
  <2>1. fetch.at = "fetching" /\ fetch.whole = Manifest[fetch.content] /\ fetch' = [fetch EXCEPT !.at = "whole"]
    BY <1>4 DEF AllWritten
  <2>2. /\ fetch' \in [at: {"here", "coming", "alone", "fetching", "whole"}, name: Name, content: Content,
                     next: Nat, whole: Bytes, flight: Seq(Flight)]
        /\ fetch'.at = "whole" /\ fetch'.name = fetch.name /\ fetch'.content = fetch.content
    BY <1>3, <2>1
  <2>3. staged[fetch.name] = Manifest[fetch.content]
    BY <2>1 DEF FetchInv, WrittenIsStart
  <2> QED BY <1>1, <2>2, <2>3 DEF FetchInv, FetchTypeOK, WrittenIsStart, FlightIsNext, WholeIsStaged, InPlace
<1>5. CASE FetchAhead
  <2>1. fetch.at = "coming" /\ (fetch' = fetch \/ fetch' = [fetch EXCEPT !.at = "alone"])
    BY <1>5 DEF FetchAhead
  <2>2. /\ fetch' \in [at: {"here", "coming", "alone", "fetching", "whole"}, name: Name, content: Content,
                     next: Nat, whole: Bytes, flight: Seq(Flight)]
        /\ fetch'.at \in {"coming", "alone"} /\ fetch'.flight = fetch.flight
    BY <1>3, <2>1
  <2> QED BY <1>1, <2>1, <2>2 DEF FetchInv, FetchTypeOK, WrittenIsStart, FlightIsNext, WholeIsStaged, InPlace
<1> QED BY <1>4, <1>5

LEMMA StopsKeeps ==
  ASSUME FetchAssumption, FetchInv, world' = world,
         FetchFails \/ NotHeld \/ WriteFails \/ Killed
  PROVE  FetchInv'
<1>1. /\ fetch' = NoFetch /\ UNCHANGED <<offers, file, is>> /\ (steps' = steps \/ steps' = <<>>)
      /\ fetch # NoFetch
  <2>1. CASE FetchFails
    BY <2>1 DEF FetchFails, Alone, NoFetch
  <2>2. CASE NotHeld
    BY <2>2 DEF NotHeld, Alone, NoFetch
  <2>3. CASE WriteFails
    BY <2>3 DEF WriteFails, Writing, NoFetch
  <2>4. CASE Killed
    BY <2>4 DEF Killed
  <2> QED BY <2>1, <2>2, <2>3, <2>4
<1>2. fetch.name \in Name /\ staged[fetch.name] \in Bytes /\ staged \in [Name -> Bytes]
  BY <1>1, GoingOn DEF FetchInv, FetchTypeOK
<1>3. Append(staged[fetch.name], Cut) \in Bytes /\ NoFile \in Bytes
  BY <1>2 DEF Bytes, NoFile
<1>4. \/ staged' = staged \/ staged' = [staged EXCEPT ![fetch.name] = NoFile]
      \/ staged' = [staged EXCEPT ![fetch.name] = Append(@, Cut)]
  BY DEF FetchFails, NotHeld, WriteFails, Killed
<1>5. staged' \in [Name -> Bytes]
  BY <1>2, <1>3, <1>4
<1> QED BY <1>1, <1>5, EndsKeeps

LEMMA BeginPlanKeeps ==
  ASSUME FetchAssumption, FetchInv, BeginPlan, world = "fetch", world' = world
  PROVE  FetchInv'
<1> DEFINE missing == {n \in Name : is[n] # offers[n]}
<1>1. PICK order \in [1..Cardinality(missing) -> missing] :
        steps' = [i \in DOMAIN order |-> [name |-> order[i], content |-> offers[order[i]]]]
  BY DEF BeginPlan
<1>2. Cardinality(missing) \in Nat
  <2>1. IsFiniteSet(missing)
    BY FS_Subset DEF FetchAssumption
  <2> QED BY <2>1, FS_CardinalityType
<1> DEFINE N == Cardinality(missing)
<1> HIDE DEF N
<1>3. order \in [1..N -> Name] /\ N \in Nat
  BY <1>1, <1>2 DEF N
<1>4. steps' \in [1..N -> [name: Name, content: Content]]
  BY <1>1, <1>3 DEF FetchInv, FetchTypeOK
<1>5. steps' \in Seq([name: Name, content: Content])
  <2>1. ASSUME NEW X, NEW f \in [1..N -> X] PROVE f \in Seq(X)
    BY <1>3
  <2> QED BY <1>4, <2>1
<1>6. UNCHANGED <<offers, staged, fetch, file, is>>
  BY DEF BeginPlan
<1> QED BY <1>5, <1>6 DEF FetchInv, FetchTypeOK, WrittenIsStart, FlightIsNext, WholeIsStaged, InPlace

LEMMA TakeStepKeeps ==
  ASSUME FetchAssumption, FetchInv, TakeStep \/ LeaveStep, world' = world
  PROVE  FetchInv'
<1>1. /\ steps # <<>> /\ steps' = Tail(steps) /\ UNCHANGED <<offers, staged, file, is>>
      /\ steps \in Seq([name: Name, content: Content])
  BY DEF TakeStep, LeaveStep, FetchInv, FetchTypeOK
<1>2. Tail(steps) \in Seq([name: Name, content: Content]) /\ Head(steps) \in [name: Name, content: Content]
  <2>1. ASSUME NEW X, NEW q \in Seq(X), q # <<>> PROVE Tail(q) \in Seq(X) /\ Head(q) \in X
    BY <2>1
  <2> QED BY <1>1, <2>1
<1>3. CASE LeaveStep
  <2>1. fetch' = fetch
    BY <1>3 DEF LeaveStep
  <2> QED BY <1>1, <1>2, <2>1 DEF FetchInv, FetchTypeOK, WrittenIsStart, FlightIsNext, WholeIsStaged, InPlace
<1>4. CASE TakeStep
  <2> DEFINE st == Head(steps)
             a == IF CanRead(st.content) THEN "here" ELSE "coming"
  <2>1. fetch' = [at |-> a, name |-> st.name, content |-> st.content, next |-> 0, whole |-> <<>>, flight |-> <<>>]
    BY <1>4 DEF TakeStep
  <2>2. <<>> \in Bytes /\ <<>> \in Seq(Flight) /\ a \in {"here", "coming"}
    BY DEF Bytes
  <2> HIDE DEF a
  <2>3. fetch' \in [at: {"here", "coming", "alone", "fetching", "whole"}, name: Name, content: Content,
                     next: Nat, whole: Bytes, flight: Seq(Flight)] /\ fetch'.at \in {"here", "coming"} /\ fetch'.flight = <<>>
    BY <1>2, <2>1, <2>2
  <2> QED BY <1>1, <1>2, <2>3 DEF FetchInv, FetchTypeOK, WrittenIsStart, FlightIsNext, WholeIsStaged, InPlace
<1> QED BY <1>3, <1>4

LEMMA FetchStep ==
  ASSUME FetchAssumption, FetchInv, [Next]_vars
  PROVE  FetchInv'
<1> USE FetchAssumption
<1>1. ASSUME UNCHANGED <<world, offers, steps, staged, fetch, file, is>> PROVE FetchInv'
  BY <1>1 DEF FetchInv, FetchTypeOK, WrittenIsStart, FlightIsNext, WholeIsStaged, InPlace
<1>2. CASE FetchNext /\ world = "fetch" /\ world' = world
  <2>1. CASE LinkEnds \/ PlanDone
    BY <1>1, <1>2, <2>1 DEF LinkEnds, PlanDone
  <2>2. ASSUME NEW n \in Name, NEW c \in DOMAIN Manifest, OtherChanges(n, c) PROVE FetchInv'
    <3>1. offers' = [offers EXCEPT ![n] = c] /\ UNCHANGED <<steps, staged, fetch, file, is>>
      BY <2>2 DEF OtherChanges
    <3>2. offers' \in [Name -> Content]
      BY <1>2, <3>1 DEF FetchInv, FetchTypeOK, Content
    <3> QED BY <1>2, <3>1, <3>2 DEF FetchInv, FetchTypeOK, WrittenIsStart, FlightIsNext, WholeIsStaged, InPlace
  <2>3. CASE CopyHere \/ TakeReady \/ Place \/ PlaceFails
    <3>1. UNCHANGED <<world, offers, steps>> /\ fetch.at # "none"
      BY <1>2, <2>3 DEF CopyHere, TakeReady, Place, PlaceFails
    <3> QED BY <2>3, <3>1, WholeKeeps
  <2>4. CASE Fetching
    BY <1>2, <2>4, ResumePointKeeps, AskChunkKeeps, WriteChunkKeeps, MovesKeeps, StopsKeeps, ChunkComesKeeps
       DEF Fetching
  <2> QED BY <1>2, <2>1, <2>2, <2>3, <2>4, BeginPlanKeeps, TakeStepKeeps, MovesKeeps, StopsKeeps DEF FetchNext
<1>3. CASE UNCHANGED <<world, fetchVars>>
  BY <1>1, <1>3 DEF fetchVars
<1>4. [Next]_vars => (FetchNext /\ world = "fetch" /\ world' = world) \/ UNCHANGED <<world, fetchVars>>
  BY DEF Next, Own, Keeping, Asked, Passing, Fetches, Backups, vars
<1> QED BY <1>2, <1>3, <1>4

\* A fetch carried on by resume_point and fetch_rest from whatever an earlier
\* one left is of the content asked for, and every file put in place is whole.
THEOREM CarriedOnIsWhole == Spec => []CarriedOn
<1>1. Init => FetchInv
  <2>1. SUFFICES ASSUME Init PROVE FetchInv
    OBVIOUS
  <2>2. PICK o \in IF world = "fetch" THEN Offers ELSE {CHOOSE o \in Offers : TRUE} : FetchInit(o)
    BY <2>1 DEF Init
  <2> QED BY <2>2, FetchStarts
<1>2. FetchInv /\ [Next]_vars => FetchInv'
  BY FetchAssumption, FetchStep
<1>3. FetchInv => CarriedOn
  BY FetchAssumption, StartIsPrefix
<1> QED BY <1>1, <1>2, <1>3, PTL DEF Spec

-----------------------------------------------------------------------------
(* Backup: the choices of folders.                                         *)

Choice == [chosen: BOOLEAN, at: Nat]
Heard == [choices: [Folder -> Choice], folders: SUBSET Folder]

ChoiceTypeOK ==
    /\ world = "backup" => bound \in Bounds
    /\ spent \in [choices: Nat, edits: Nat, runs: Nat]
    /\ choices \in [Side -> [Folder -> Choice]] /\ folders \in [Side -> SUBSET Folder]
    /\ said \in [Side -> SUBSET Heard]
    /\ last \in [Folder -> [choice: Choice, before: Nat]]

\* A choice of a folder that is about is the last one, or no later than one
\* made before that.
Dated(f, x) == x = last[f].choice \/ x.at <= last[f].before

AllDated ==
    \A f \in Folder, s \in Side :
      Dated(f, choices[s][f]) /\ \A a \in said[s] : Dated(f, a.choices[f])

ChoiceInv == ChoiceTypeOK /\ AllDated /\ LastChoiceStands

LEMMA ChoicesStart ==
  ASSUME NEW bs, BackupInit(bs), world = "backup" => bs \subseteq Bounds
  PROVE  ChoiceInv
<1>1. ChoiceTypeOK
  BY DEF BackupInit, ChoiceTypeOK, Choice
<1>2. AllDated /\ LastChoiceStands
  BY DEF BackupInit, AllDated, Dated, LastChoiceStands, Side
<1> QED BY <1>1, <1>2 DEF ChoiceInv

LEMMA ChooseKeeps ==
  ASSUME BackupAssumption, ChoiceInv, NEW s \in Side, NEW f \in Folder, NEW chosen \in BOOLEAN,
         Choose(s, f, chosen), world = "backup", UNCHANGED <<world, bound>>
  PROVE  ChoiceInv'
<1> DEFINE choice == [chosen |-> chosen, at |-> NowAt(s)]
           swept == Swept(choices[s], f)
           before(g) == IF last[g].choice.at > last[g].before THEN last[g].choice.at ELSE last[g].before
<1>1. /\ choices' = [choices EXCEPT ![s] = [g \in Folder |-> IF g \in swept THEN choice ELSE choices[s][g]]]
      /\ last' = [g \in Folder |-> IF g \notin swept THEN last[g]
                                   ELSE [choice |-> choice, before |-> before(g)]]
      /\ spent' = [spent EXCEPT !.choices = @ + 1]
      /\ UNCHANGED <<folders, said>>
  BY DEF Choose
<1>2. choice \in Choice
  <2>1. bound \in [choices: Nat, edits: Nat, runs: Nat, ahead: Nat]
    BY DEF ChoiceInv, ChoiceTypeOK, BackupAssumption
  <2>2. NowAt(s) \in Nat
    BY <2>1 DEF NowAt, ChoiceInv, ChoiceTypeOK
  <2> QED BY <2>2 DEF Choice
<1> HIDE DEF choice, swept
<1>3. ASSUME NEW g \in Folder
      PROVE  /\ last[g].choice \in Choice /\ last[g].choice.at \in Nat /\ last[g].before \in Nat
             /\ before(g) \in Nat /\ last[g].choice.at <= before(g) /\ last[g].before <= before(g)
  BY <1>3 DEF ChoiceInv, ChoiceTypeOK, Choice
<1>4. ASSUME NEW g \in Folder, NEW x \in Choice, Dated(g, x) PROVE x.at <= before(g)
  BY <1>3, <1>4 DEF Dated, Choice
<1> HIDE DEF before
<1>5. ChoiceTypeOK'
  <2>1. choices' \in [Side -> [Folder -> Choice]]
    BY <1>1, <1>2 DEF ChoiceInv, ChoiceTypeOK
  <2>2. last' \in [Folder -> [choice: Choice, before: Nat]]
    BY <1>1, <1>2, <1>3 DEF ChoiceInv, ChoiceTypeOK
  <2>3. spent' \in [choices: Nat, edits: Nat, runs: Nat]
    BY <1>1 DEF ChoiceInv, ChoiceTypeOK
  <2> QED BY <1>1, <2>1, <2>2, <2>3 DEF ChoiceInv, ChoiceTypeOK
<1>6. ASSUME NEW g \in Folder, NEW x \in Choice, Dated(g, x) PROVE Dated(g, x)'
  BY <1>1, <1>4, <1>6 DEF Dated
<1>7. ASSUME NEW g \in Folder, NEW t \in Side
      PROVE  choices[t][g] \in Choice /\ Dated(g, choices[t][g]) /\
             \A a \in said[t] : a.choices[g] \in Choice /\ Dated(g, a.choices[g])
  BY DEF ChoiceInv, ChoiceTypeOK, AllDated, Heard
<1>8. ASSUME NEW g \in Folder, NEW t \in Side
      PROVE  choices'[t][g] = IF t = s /\ g \in swept THEN choice ELSE choices[t][g]
  BY <1>1 DEF ChoiceInv, ChoiceTypeOK
<1>9. AllDated'
  <2>1. ASSUME NEW g \in Folder, NEW t \in Side PROVE Dated(g, choices[t][g])'
    <3>1. CASE t = s /\ g \in swept
      BY <1>1, <1>8, <3>1 DEF Dated
    <3>2. CASE ~(t = s /\ g \in swept)
      <4>1. choices'[t][g] = choices[t][g]
        BY <1>8, <3>2
      <4>2. \A x \in Choice : Dated(g, x) => (x = last'[g].choice \/ x.at <= last'[g].before)
        BY <1>6 DEF Dated
      <4> QED BY <1>7, <4>1, <4>2 DEF Dated
    <3> QED BY <3>1, <3>2
  <2>2. ASSUME NEW g \in Folder, NEW t \in Side, NEW a \in said[t] PROVE Dated(g, a.choices[g])'
    <3>1. a.choices[g] \in Choice /\ Dated(g, a.choices[g])
      BY <1>7
    <3>2. \A x \in Choice : Dated(g, x) => (x = last'[g].choice \/ x.at <= last'[g].before)
      BY <1>6 DEF Dated
    <3> QED BY <3>1, <3>2 DEF Dated
  <2> QED BY <1>1, <2>1, <2>2 DEF AllDated, Dated
<1>10. LastChoiceStands'
  <2>1. SUFFICES ASSUME NEW g \in Folder, last'[g].choice.at > last'[g].before
                 PROVE  \E t \in Side : choices'[t][g] = last'[g].choice
    BY DEF LastChoiceStands
  <2>2. CASE g \in swept
    BY <1>1, <1>8, <2>2
  <2>3. CASE g \notin swept
    <3>1. last'[g] = last[g]
      BY <1>1, <2>3
    <3> QED BY <1>8, <2>1, <2>3, <3>1 DEF ChoiceInv, LastChoiceStands
  <2> QED BY <2>2, <2>3
<1> QED BY <1>5, <1>9, <1>10 DEF ChoiceInv

LEMMA HearChoicesKeeps ==
  ASSUME BackupAssumption, ChoiceInv, NEW s \in Side, HearChoices(s), UNCHANGED <<world, bound>>
  PROVE  ChoiceInv'
<1>1. PICK a \in said[s] :
        /\ choices' = choices \/ choices' = [choices EXCEPT ![s] = LaterOf(@, a.choices)]
        /\ folders' = folders \/ folders' = IF s = "computer" THEN [folders EXCEPT ![s] = a.folders] ELSE folders
        /\ said' = [said EXCEPT ![s] = {}]
        /\ UNCHANGED <<last, spent>>
  BY DEF HearChoices, HeardFolders
<1>2. a \in Heard /\ choices[s] \in [Folder -> Choice] /\ a.choices \in [Folder -> Choice]
  BY DEF ChoiceInv, ChoiceTypeOK, Heard
<1>3. ChoiceTypeOK'
  <2>1. LaterOf(choices[s], a.choices) \in [Folder -> Choice]
    BY <1>2 DEF LaterOf
  <2>2. folders' \in [Side -> SUBSET Folder]
    BY <1>1, <1>2 DEF ChoiceInv, ChoiceTypeOK, Heard
  <2>3. choices' \in [Side -> [Folder -> Choice]]
    BY <1>1, <2>1 DEF ChoiceInv, ChoiceTypeOK
  <2>4. said' \in [Side -> SUBSET Heard]
    BY <1>1 DEF ChoiceInv, ChoiceTypeOK
  <2> QED BY <1>1, <2>2, <2>3, <2>4 DEF ChoiceInv, ChoiceTypeOK
<1>4. ASSUME NEW g \in Folder, NEW t \in Side
      PROVE  \/ choices'[t][g] = choices[t][g]
             \/ t = s /\ choices'[t][g] = a.choices[g] /\ a.choices[g].at > choices[t][g].at
  BY <1>1, <1>2 DEF ChoiceInv, ChoiceTypeOK, LaterOf
<1>5. AllDated'
  <2>1. ASSUME NEW g \in Folder, NEW t \in Side PROVE Dated(g, choices[t][g])'
    BY <1>1, <1>4 DEF ChoiceInv, AllDated, Dated
  <2>2. ASSUME NEW t \in Side, NEW b \in said'[t] PROVE b \in said[t]
    BY <1>1, <2>2 DEF ChoiceInv, ChoiceTypeOK
  <2> QED BY <1>1, <2>1, <2>2 DEF ChoiceInv, AllDated, Dated
<1>6. LastChoiceStands'
  <2>1. SUFFICES ASSUME NEW g \in Folder, last[g].choice.at > last[g].before
                 PROVE  \E t \in Side : choices'[t][g] = last[g].choice
    BY <1>1 DEF LastChoiceStands
  <2>2. PICK t \in Side : choices[t][g] = last[g].choice
    BY <2>1 DEF ChoiceInv, LastChoiceStands
  <2>3. CASE choices'[t][g] = choices[t][g]
    BY <2>2, <2>3
  <2>4. CASE t = s /\ choices'[t][g] = a.choices[g] /\ a.choices[g].at > choices[t][g].at
    \* Later than the last is no choice that is about.
    <3>1. Dated(g, a.choices[g])
      BY DEF ChoiceInv, AllDated
    <3>2. last[g].choice.at \in Nat /\ last[g].before \in Nat /\ a.choices[g].at \in Nat
      BY <1>2 DEF ChoiceInv, ChoiceTypeOK, Choice
    <3> QED BY <2>1, <2>2, <2>4, <3>1, <3>2 DEF Dated
  <2> QED BY <1>4, <2>3, <2>4
<1> QED BY <1>3, <1>5, <1>6 DEF ChoiceInv

\* Of the choices, a step of the files spends of the bounds at most.
LEMMA SpendingKeeps ==
  ASSUME ChoiceInv, UNCHANGED <<world, bound, choices, folders, said, last>>,
         spent' \in [choices: Nat, edits: Nat, runs: Nat]
  PROVE  ChoiceInv'
BY DEF ChoiceInv, ChoiceTypeOK, AllDated, Dated, LastChoiceStands

LEMMA ChoiceStep ==
  ASSUME BackupAssumption, ChoiceInv, [Next]_vars
  PROVE  ChoiceInv'
<1> USE BackupAssumption
<1>0. spent \in [choices: Nat, edits: Nat, runs: Nat]
  BY DEF ChoiceInv, ChoiceTypeOK
<1>1. CASE BackupNext /\ world = "backup" /\ world' = world
  <2>0. UNCHANGED <<world, bound>>
    BY <1>1 DEF BackupNext
  <2>1. ASSUME NEW s \in Side, AskChoices(s) PROVE ChoiceInv'
    <3>1. UNCHANGED <<choices, folders, last, spent>>
      BY <2>1 DEF AskChoices
    <3> DEFINE other == [choices |-> choices[OtherSide(s)], folders |-> folders[OtherSide(s)]]
    <3>2. OtherSide(s) \in Side
      BY DEF OtherSide, Side
    <3>3. other \in Heard
      BY <3>2 DEF ChoiceInv, ChoiceTypeOK, Heard
    <3>4. said' = [said EXCEPT ![s] = {other}]
      BY <2>1 DEF AskChoices
    <3>5. ChoiceTypeOK'
      <4>1. said' \in [Side -> SUBSET Heard]
        BY <3>3, <3>4 DEF ChoiceInv, ChoiceTypeOK
      <4> QED BY <2>0, <3>1, <4>1 DEF ChoiceInv, ChoiceTypeOK
    <3>6. ASSUME NEW t \in Side, NEW a \in said'[t] PROVE a \in said[t] \/ a = other
      BY <3>4, <3>6 DEF ChoiceInv, ChoiceTypeOK
    <3>7. ASSUME NEW g \in Folder PROVE Dated(g, other.choices[g])
      BY <3>2 DEF ChoiceInv, AllDated
    <3> HIDE DEF other
    <3>8. AllDated'
      BY <3>1, <3>6, <3>7 DEF ChoiceInv, AllDated, Dated
    <3>9. LastChoiceStands'
      BY <3>1 DEF ChoiceInv, LastChoiceStands
    <3> QED BY <3>5, <3>8, <3>9 DEF ChoiceInv
  <2>2. CASE ListFolders
    <3>1. UNCHANGED <<choices, said, last, spent>> /\ folders' \in [Side -> SUBSET Folder]
      BY <2>2 DEF ListFolders, ChoiceInv, ChoiceTypeOK
    <3> QED BY <2>0, <3>1 DEF ChoiceInv, ChoiceTypeOK, AllDated, Dated, LastChoiceStands
  <2>3. CASE Choosing
    BY <1>1, <2>0, <2>1, <2>2, <2>3, ChooseKeeps, HearChoicesKeeps DEF Choosing
  <2>4. CASE Running \/ ReadsList \/ \E f \in BackupFile : Edit(f) \/ Remove(f) \/ Collects(f) \/ Drops(f) \/ Says(f)
    <3>1. UNCHANGED choiceVars /\ (\/ spent' = spent
                                    \/ spent' = [spent EXCEPT !.edits = @ + 1]
                                    \/ spent' = [spent EXCEPT !.runs = @ + 1])
      BY <2>4 DEF Running, ReadsList, Edit, Remove, Collects, Drops, Says, StartRun, ListFolder, ForgetSource,
                  LetGo, StartSlice, NextSlice, ReadBatch, Record, NoteSource, RecordFails, FolderDone, AppStopped
    <3>2. spent' \in [choices: Nat, edits: Nat, runs: Nat]
      BY <1>0, <3>1
    <3> QED BY <2>0, <3>1, <3>2, SpendingKeeps DEF choiceVars
  <2> QED BY <1>1, <2>3, <2>4 DEF BackupNext
<1>2. CASE UNCHANGED <<world, backupVars>>
  <2>1. UNCHANGED <<world, bound, choices, folders, said, last, spent>>
    BY <1>2 DEF backupVars
  <2> QED BY <1>0, <2>1, SpendingKeeps
<1>3. [Next]_vars => (BackupNext /\ world = "backup" /\ world' = world) \/ UNCHANGED <<world, backupVars>>
  BY DEF Next, Own, Keeping, Asked, Passing, Fetches, Backups, vars
<1> QED BY <1>1, <1>2, <1>3

\* merge_choices_here and merge_choices_for never lose the last choice made of
\* a folder to an old answer.
THEOREM TheLastChoiceStands == Spec => []LastChoiceStands
<1>1. Init => ChoiceInv
  <2>1. Init => BackupInit(IF world = "backup" THEN Bounds ELSE {CHOOSE b \in Bounds : TRUE})
    BY DEF Init
  <2> QED BY <2>1, ChoicesStart
<1>2. ChoiceInv /\ [Next]_vars => ChoiceInv'
  BY BackupAssumption, ChoiceStep
<1>3. ChoiceInv => LastChoiceStands
  BY DEF ChoiceInv
<1> QED BY <1>1, <1>2, <1>3, PTL DEF Spec

-----------------------------------------------------------------------------
(* Backup: the files.                                                      *)

FileTypeOK ==
    /\ spent \in [choices: Nat, edits: Nat, runs: Nat]
    /\ place \in [BackupFile -> Nat] /\ listed \in [BackupFile -> Nat]
    /\ keeps \in [BackupFile -> Nat] /\ wasKept \in [BackupFile -> Nat]
    /\ outside \in [BackupFile -> [content: Nat, source: Nat]]
    /\ counted \subseteq Nat

IsRun(now) ==
    now \in [choices: {now.choices}, todo: {now.todo}, at: {now.at}, listing: {now.listing},
             slice: {now.slice}, letting: {now.letting}, work: {now.work}, read: {now.read},
             noting: {now.noting}, unreadable: {now.unreadable}]

\* A run lets go of a file, then reads some that are listed, then records
\* them, each once.
InOrder(now) ==
    /\ IsRun(now)
    /\ now.letting # {} => now.at # {} /\ ~now.slice
    /\ now.work \cup DOMAIN now.read \cup now.noting # {} => now.slice
    /\ now.slice => now.at # {}
    /\ \A f, g \in now.letting \cup now.noting : f = g
    /\ now.work \cup DOMAIN now.read \cup now.noting \subseteq DOMAIN now.listing
    /\ DOMAIN now.listing \subseteq BackupFile
    /\ \A f \in DOMAIN now.listing : now.listing[f] \in Nat \ {0}
    /\ \A f \in DOMAIN now.read : now.read[f] \in Nat \ {0} /\ f \notin now.noting
    /\ \A f \in now.noting : outside[f].content # 0

RunInOrder == (\A r, q \in run : r = q) /\ \A now \in run : InOrder(now)

\* The contents of a file that are about: of no other, and edits made.
ContentsOf(f) == {place[f], outside[f].content, listed[f], keeps[f]}
OfOneFile ==
    \A f \in BackupFile : \A c \in ContentsOf(f) :
      c <= spent.edits /\ \A g \in BackupFile : c \in ContentsOf(g) /\ c # 0 => g = f
CountedMade == \A c \in counted : c <= spent.edits

\* What is in its place and the computer has heard of is what its row is, if
\* it has one.
Heeded(f, c) == c \in {listed[f], keeps[f]} \/ c \in counted
RowIsNew ==
    \A f \in BackupFile :
      place[f] # 0 /\ Heeded(f, place[f]) => outside[f].content \in {0, place[f]}

\* Counted as kept, it is kept, or its file strayed.
CountedIsKept ==
    \A f \in BackupFile : \A c \in counted :
      c # 0 /\ c \in {place[f], outside[f].content} => keeps[f] = c \/ f \in strayed

\* What has been read of a file and not recorded is of that file alone; it is
\* what is in its place, if the computer has heard of that or the row has it;
\* it is kept, if counted; and it is what was kept, if the file has gone.
ReadIsNew ==
    \A now \in run : \A f \in DOMAIN now.read :
      /\ now.read[f] <= spent.edits
      /\ \A g \in BackupFile : now.read[f] \in ContentsOf(g) => g = f
      /\ \A g \in DOMAIN now.read : now.read[g] = now.read[f] => g = f
      /\ place[f] # 0 /\ (Heeded(f, place[f]) \/ outside[f].content = place[f]) => now.read[f] = place[f]
      /\ now.read[f] \in counted => keeps[f] = now.read[f] \/ f \in strayed
      /\ wasKept[f] # 0 => now.read[f] = wasKept[f]

\* A row that is read nowhere was counted, or its file strayed or is seen to.
UnreadIsCounted ==
    \A f \in BackupFile :
      outside[f].content # 0 /\ outside[f].source = 0 =>
        \/ outside[f].content \in counted \/ f \in strayed
        \/ \E now \in run : f \in now.letting \cup now.noting

\* What was kept when it went is counted, and gone.
GoneWasCounted ==
    \A f \in BackupFile : wasKept[f] # 0 =>
      /\ outside[f].content = wasKept[f] /\ wasKept[f] \in counted /\ place[f] = 0
      /\ FolderOf[f] = WhatsApp => f \in Media

FileInv ==
    /\ FileTypeOK /\ RunInOrder /\ OfOneFile /\ CountedMade /\ RowIsNew /\ CountedIsKept
    /\ ReadIsNew /\ UnreadIsCounted /\ GoneWasCounted

LEMMA FilesStart ==
  ASSUME NEW bs, BackupInit(bs)
  PROVE  FileInv
BY DEF BackupInit, FileInv, FileTypeOK, RunInOrder, OfOneFile, ContentsOf, CountedMade, RowIsNew, CountedIsKept,
       ReadIsNew, UnreadIsCounted, GoneWasCounted

\* The invariant gives the property.
LEMMA CountedKeepsGone ==
  ASSUME FileInv
  PROVE  KeptWhenGone
BY DEF FileInv, GoneWasCounted, UnreadIsCounted, CountedIsKept, KeptWhenGone

\* A step that changes no content, nor what is known of it.
LEMMA ContentsStay ==
  ASSUME FileInv, UNCHANGED <<place, listed, keeps, counted, wasKept>>, spent'.edits = spent.edits,
         strayed \subseteq strayed',
         \A f \in BackupFile : outside'[f].content = outside[f].content
  PROVE  OfOneFile' /\ CountedMade' /\ RowIsNew' /\ CountedIsKept' /\ GoneWasCounted'
<1>1. \A f \in BackupFile : ContentsOf(f)' = ContentsOf(f)
  BY DEF ContentsOf
<1>2. OfOneFile'
  BY <1>1 DEF FileInv, OfOneFile
<1>3. CountedMade' /\ RowIsNew' /\ CountedIsKept' /\ GoneWasCounted'
  BY DEF FileInv, CountedMade, RowIsNew, Heeded, CountedIsKept, GoneWasCounted
<1> QED BY <1>2, <1>3

\* A run that has read no more than it had.
ReadBefore == \A new \in run' : \A f \in DOMAIN new.read :
                \E now \in run : f \in DOMAIN now.read /\ new.read[f] = now.read[f]

LEMMA ReadsStay ==
  ASSUME FileInv, RunInOrder', UNCHANGED <<place, listed, keeps, counted, wasKept>>, spent'.edits = spent.edits,
         strayed \subseteq strayed', ReadBefore,
         \A f \in BackupFile : outside'[f].content = outside[f].content
  PROVE  ReadIsNew'
<1>1. \A f \in BackupFile : ContentsOf(f)' = ContentsOf(f)
  BY DEF ContentsOf
<1>2. SUFFICES ASSUME NEW new \in run', NEW f \in DOMAIN new.read
               PROVE  /\ new.read[f] <= spent.edits
                      /\ \A g \in BackupFile : new.read[f] \in ContentsOf(g) => g = f
                      /\ \A g \in DOMAIN new.read : new.read[g] = new.read[f] => g = f
                      /\ place[f] # 0 /\ (Heeded(f, place[f]) \/ outside[f].content = place[f])
                           => new.read[f] = place[f]
                      /\ new.read[f] \in counted => keeps[f] = new.read[f] \/ f \in strayed
                      /\ wasKept[f] # 0 => new.read[f] = wasKept[f]
  <2>1. \A n \in run' : \A g \in DOMAIN n.read : g \in BackupFile
    BY DEF RunInOrder, InOrder
  <2> QED BY <1>1, <2>1 DEF ReadIsNew, Heeded
<1>3. PICK now \in run : f \in DOMAIN now.read /\ new.read[f] = now.read[f]
  BY DEF ReadBefore
<1>4. \A g \in DOMAIN new.read : g \in DOMAIN now.read /\ new.read[g] = now.read[g]
  BY DEF ReadBefore, FileInv, RunInOrder
<1> QED BY <1>3, <1>4 DEF FileInv, ReadIsNew

\* Within a run, the record of the run changes and nothing else.
LEMMA RunMovesKeeps ==
  ASSUME FileInv, UNCHANGED <<place, outside, listed, keeps, counted, wasKept, spent>>,
         strayed \subseteq strayed', RunInOrder', ReadBefore,
         \A now \in run : \A f \in now.letting \cup now.noting :
           f \in strayed' \/ \E new \in run' : f \in new.letting \cup new.noting
  PROVE  FileInv'
<1>1. UnreadIsCounted'
  BY DEF FileInv, UnreadIsCounted
<1>2. FileTypeOK'
  BY DEF FileInv, FileTypeOK
<1> QED BY <1>1, <1>2, ContentsStay, ReadsStay DEF FileInv

LEMMA StartRunKeeps ==
  ASSUME FileInv, NEW todo, StartRun(todo)
  PROVE  FileInv'
<1> DEFINE new == [choices |-> choices["phone"], todo |-> todo, at |-> {}, listing |-> <<>>,
                   slice |-> FALSE, letting |-> {}, work |-> {}, read |-> <<>>, noting |-> {},
                   unreadable |-> {}]
<1>1. /\ run = {} /\ run' = {new}
      /\ spent' = [spent EXCEPT !.runs = @ + 1]
      /\ UNCHANGED <<place, outside, listed, keeps, counted, wasKept, strayed>>
  BY DEF StartRun
<1>2. spent' \in [choices: Nat, edits: Nat, runs: Nat] /\ spent'.edits = spent.edits
  <2>1. spent \in [choices: Nat, edits: Nat, runs: Nat]
    BY DEF FileInv, FileTypeOK
  <2> QED BY <1>1, <2>1
<1>3. FileTypeOK'
  BY <1>1, <1>2 DEF FileInv, FileTypeOK
<1>4. IsRun(new) /\ new.letting = {} /\ new.noting = {} /\ new.work = {} /\ DOMAIN new.read = {}
      /\ DOMAIN new.listing = {} /\ ~new.slice
  BY DEF IsRun
<1> HIDE DEF new
<1>5. RunInOrder' /\ ReadBefore
  BY <1>1, <1>4 DEF RunInOrder, InOrder, ReadBefore
<1>6. UnreadIsCounted'
  BY <1>1 DEF FileInv, UnreadIsCounted
<1> QED BY <1>1, <1>2, <1>3, <1>5, <1>6, ContentsStay, ReadsStay DEF FileInv

\* What is known of a run, and of rows read for it.
LEMMA TheRun ==
  ASSUME FileInv, NEW now \in run
  PROVE  InOrder(now) /\ \A q \in run : q = now
BY DEF FileInv, RunInOrder

LEMMA ListFolderKeeps ==
  ASSUME FileInv, NEW r, NEW closed, ListFolder(r, closed)
  PROVE  FileInv'
<1>1. PICK now \in run :
        /\ now.at = {}
        /\ run' = {[now EXCEPT !.at = {r}, !.todo = @ \ {r}, !.unreadable = {},
                               !.listing = Listing(Taken(r, now.choices), closed)]}
        /\ UNCHANGED <<place, outside, listed, keeps, counted, wasKept, strayed, spent>>
  BY DEF ListFolder
<1> DEFINE l == Listing(Taken(r, now.choices), closed)
<1>2. DOMAIN l \subseteq BackupFile /\ \A f \in DOMAIN l : l[f] \in Nat \ {0}
  <2> DEFINE fs == {f \in Taken(r, now.choices) : place[f] # 0 /\ ~Hidden(f, closed)}
  <2>1. fs \subseteq BackupFile /\ \A f \in fs : place[f] # 0
    BY DEF Taken, Beneath
  <2>2. l = AsTheyLie(fs)
    BY DEF Listing
  <2> HIDE DEF fs, l
  <2>3. DOMAIN l = fs /\ \A f \in fs : l[f] = place[f]
    BY <2>2 DEF AsTheyLie
  <2> QED BY <2>1, <2>3 DEF FileInv, FileTypeOK
<1> HIDE DEF l
<1>3. /\ now.letting = {} /\ now.noting = {} /\ now.work = {} /\ DOMAIN now.read = {} /\ ~now.slice
      /\ \A q \in run : q = now
  BY <1>1, TheRun DEF InOrder
<1> DEFINE new == [now EXCEPT !.at = {r}, !.todo = @ \ {r}, !.unreadable = {}, !.listing = l]
<1>4. run' = {new}
  BY <1>1 DEF l
<1>5. IsRun(now)
  BY TheRun DEF InOrder
<1>6. /\ IsRun(new) /\ new.listing = l /\ new.letting = {} /\ new.noting = {} /\ new.work = {}
      /\ DOMAIN new.read = {} /\ ~new.slice
  BY <1>3, <1>5 DEF IsRun
<1> HIDE DEF new
<1>7. RunInOrder' /\ ReadBefore
  BY <1>2, <1>4, <1>6 DEF RunInOrder, InOrder, ReadBefore
<1> QED BY <1>1, <1>3, <1>7, RunMovesKeeps

LEMMA FolderDoneKeeps ==
  ASSUME FileInv, NEW inTime \in BOOLEAN, FolderDone(inTime) \/ AppStopped
  PROVE  FileInv'
<1>1. CASE AppStopped
  <2>1. /\ run' = {} /\ strayed' = strayed \cup UNION {now.letting \cup now.noting : now \in run}
        /\ UNCHANGED <<place, outside, listed, keeps, counted, wasKept, spent>>
    BY <1>1 DEF AppStopped
  <2>2. RunInOrder' /\ ReadBefore
    BY <2>1 DEF RunInOrder, ReadBefore
  <2> QED BY <2>1, <2>2, RunMovesKeeps
<1>2. CASE FolderDone(inTime)
  <2>1. PICK now \in run :
          /\ now.slice /\ DOMAIN now.read \cup now.noting = {}
          /\ (now.work = {} /\ run' = {[now EXCEPT !.at = {}, !.listing = <<>>, !.slice = FALSE]}) \/ run' = {}
          /\ UNCHANGED <<place, outside, listed, keeps, counted, wasKept, strayed, spent>>
    BY <1>2 DEF FolderDone
  <2>2. IsRun(now) /\ now.letting = {} /\ \A q \in run : q = now
    BY <2>1, TheRun DEF InOrder
  <2> DEFINE new == [now EXCEPT !.at = {}, !.listing = <<>>, !.slice = FALSE]
  <2>3. /\ IsRun(new) /\ DOMAIN new.listing = {} /\ new.letting = {} /\ new.noting = {} /\ ~new.slice
        /\ DOMAIN new.read = {} /\ new.work = now.work
    <3>1. DOMAIN now.read = {} /\ now.noting = {}
      BY <2>1
    <3>2. new.read = now.read /\ new.noting = now.noting /\ new.work = now.work /\ new.letting = now.letting
          /\ new.listing = <<>> /\ new.slice = FALSE
      BY <2>2 DEF IsRun
    <3>3. IsRun(new)
      BY <2>2 DEF IsRun
    <3> QED BY <2>2, <3>1, <3>2, <3>3
  <2> HIDE DEF new
  <2>4. (now.work = {} /\ run' = {new}) \/ run' = {}
    BY <2>1 DEF new
  <2>5. RunInOrder' /\ ReadBefore
    BY <2>3, <2>4 DEF RunInOrder, InOrder, ReadBefore
  <2>6. \A q \in run : q.letting \cup q.noting = {}
    BY <2>1, <2>2
  <2> QED BY <2>1, <2>5, <2>6, RunMovesKeeps
<1> QED BY <1>1, <1>2

\* A slice begins, or ends with files left.
LEMMA SlicesKeep ==
  ASSUME FileInv, StartSlice \/ NextSlice
  PROVE  FileInv'
<1>1. PICK now \in run :
        /\ \/ /\ now.at # {} /\ ~now.slice /\ now.letting = {}
              /\ run' = {[now EXCEPT !.slice = TRUE, !.work = ToRead(now)]}
           \/ /\ now.slice /\ DOMAIN now.read \cup now.noting = {}
              /\ run' = {[now EXCEPT !.slice = FALSE, !.work = {}]}
        /\ UNCHANGED <<place, outside, listed, keeps, counted, wasKept, strayed, spent>>
  BY DEF StartSlice, NextSlice
<1>2. InOrder(now) /\ now.letting = {} /\ DOMAIN now.read = {} /\ now.noting = {} /\ \A q \in run : q = now
  BY <1>1, TheRun DEF InOrder
<1>3. ToRead(now) \subseteq DOMAIN now.listing
  BY DEF ToRead
<1>4. ASSUME NEW slice \in BOOLEAN, NEW work \in SUBSET DOMAIN now.listing, slice => now.at # {}, ~slice => work = {},
             run' = {[now EXCEPT !.slice = slice, !.work = work]}
      PROVE  RunInOrder' /\ ReadBefore
  <2> DEFINE new == [now EXCEPT !.slice = slice, !.work = work]
  <2>1. /\ IsRun(new) /\ new.at = now.at /\ new.listing = now.listing /\ new.letting = {} /\ new.noting = {}
        /\ new.slice = slice /\ new.work = work /\ DOMAIN new.read = {}
    BY <1>2 DEF IsRun, InOrder
  <2>2. run' = {new}
    BY <1>4
  <2> HIDE DEF new
  <2>3. RunInOrder'
    BY <1>2, <1>4, <2>1, <2>2 DEF RunInOrder, InOrder
  <2> QED BY <2>1, <2>2, <2>3 DEF ReadBefore
<1>5. RunInOrder' /\ ReadBefore
  <2>1. CASE now.at # {} /\ run' = {[now EXCEPT !.slice = TRUE, !.work = ToRead(now)]}
    <3>1. ToRead(now) \in SUBSET DOMAIN now.listing
      BY <1>3
    <3> QED BY <1>4, <2>1, <3>1
  <2>2. CASE run' = {[now EXCEPT !.slice = FALSE, !.work = {}]}
    BY <1>4, <2>2
  <2> QED BY <1>1, <2>1, <2>2
<1> QED BY <1>1, <1>2, <1>5, RunMovesKeeps

LEMMA ForgetSourceKeeps ==
  ASSUME FileInv, NEW f \in BackupFile, ForgetSource(f)
  PROVE  FileInv'
<1>1. PICK now \in run :
        /\ ~now.slice /\ now.letting = {} /\ f \in NotListed(now)
        /\ outside' = [outside EXCEPT ![f].source = 0]
        /\ run' = {[now EXCEPT !.letting = {f}]}
        /\ UNCHANGED <<place, listed, keeps, counted, wasKept, strayed, spent>>
  BY DEF ForgetSource
<1>2. /\ now.noting = {} /\ DOMAIN now.read = {} /\ now.work = {} /\ now.at # {} /\ InOrder(now)
      /\ \A q \in run : q = now
  <2>1. now.at # {}
    BY <1>1 DEF NotListed
  <2> QED BY <1>1, <2>1, TheRun DEF InOrder
<1> DEFINE new == [now EXCEPT !.letting = {f}]
<1>3. /\ IsRun(new) /\ new.letting = {f} /\ new.noting = {} /\ new.at = now.at /\ new.listing = now.listing
      /\ DOMAIN new.read = {} /\ new.work = {} /\ ~new.slice
  BY <1>1, <1>2 DEF InOrder, IsRun
<1>4. run' = {new}
  BY <1>1
<1> HIDE DEF new
<1>5. /\ outside' \in [BackupFile -> [content: Nat, source: Nat]]
      /\ \A g \in BackupFile : outside'[g].content = outside[g].content /\ (g # f => outside'[g] = outside[g])
  <2>1. outside \in [BackupFile -> [content: Nat, source: Nat]]
    BY DEF FileInv, FileTypeOK
  <2> QED BY <1>1, <2>1
<1>6. FileTypeOK'
  BY <1>1, <1>5 DEF FileInv, FileTypeOK
<1>7. RunInOrder' /\ ReadBefore
  BY <1>2, <1>3, <1>4 DEF RunInOrder, InOrder, ReadBefore
<1>8. UnreadIsCounted'
  <2>1. ASSUME NEW g \in BackupFile, g # f, outside[g].content # 0, outside[g].source = 0
        PROVE  outside[g].content \in counted \/ g \in strayed
    <3>1. \A q \in run : q.letting \cup q.noting = {}
      BY <1>1, <1>2
    <3> QED BY <2>1, <3>1 DEF FileInv, UnreadIsCounted
  <2> QED BY <1>1, <1>3, <1>4, <1>5, <2>1 DEF UnreadIsCounted
<1> QED BY <1>1, <1>5, <1>6, <1>7, <1>8, ContentsStay, ReadsStay DEF FileInv

LEMMA LetGoKeeps ==
  ASSUME FileInv, NEW f \in BackupFile, LetGo(f)
  PROVE  FileInv'
<1>1. PICK now \in run :
        /\ f \in now.letting
        /\ outside' = IF StaysListed(f) THEN outside ELSE [outside EXCEPT ![f].content = 0]
        /\ run' = {[now EXCEPT !.letting = {}]}
        /\ UNCHANGED <<place, listed, keeps, counted, wasKept, strayed, spent>>
  BY DEF LetGo
<1>2. /\ now.noting = {} /\ DOMAIN now.read = {} /\ now.work = {} /\ ~now.slice /\ InOrder(now)
      /\ (\A g \in now.letting : g = f) /\ \A q \in run : q = now
  BY <1>1, TheRun DEF InOrder
<1> DEFINE new == [now EXCEPT !.letting = {}]
<1>3. /\ IsRun(new) /\ new.letting = {} /\ new.noting = {} /\ new.listing = now.listing
      /\ DOMAIN new.read = {} /\ new.work = {} /\ ~new.slice
  BY <1>2 DEF InOrder, IsRun
<1>4. run' = {new}
  BY <1>1
<1> HIDE DEF new
<1>5. outside \in [BackupFile -> [content: Nat, source: Nat]]
  BY DEF FileInv, FileTypeOK
<1>6. /\ outside' \in [BackupFile -> [content: Nat, source: Nat]]
      /\ \A g \in BackupFile : outside'[g].source = outside[g].source /\ (g # f => outside'[g] = outside[g])
      /\ outside'[f].content = IF StaysListed(f) THEN outside[f].content ELSE 0
  BY <1>1, <1>5
<1>7. FileTypeOK'
  BY <1>1, <1>6 DEF FileInv, FileTypeOK
<1>8. RunInOrder' /\ ReadIsNew'
  BY <1>2, <1>3, <1>4 DEF RunInOrder, InOrder, ReadIsNew
<1>9. \A g \in BackupFile : \A c \in ContentsOf(g)' : c \in ContentsOf(g) \/ c = 0
  BY <1>1, <1>6 DEF ContentsOf
<1>10. OfOneFile' /\ CountedMade'
  <2>1. 0 <= spent.edits
    BY DEF FileInv, FileTypeOK
  <2> QED BY <1>1, <1>9, <2>1 DEF FileInv, OfOneFile, CountedMade
<1>11. RowIsNew' /\ CountedIsKept'
  BY <1>1, <1>6 DEF FileInv, RowIsNew, Heeded, CountedIsKept
<1>12. UnreadIsCounted'
  <2>1. ASSUME NEW g \in BackupFile, g # f, outside[g].content # 0, outside[g].source = 0
        PROVE  outside[g].content \in counted \/ g \in strayed
    <3>1. \A q \in run : g \notin q.letting \cup q.noting
      BY <1>2, <2>1
    <3> QED BY <2>1, <3>1 DEF FileInv, UnreadIsCounted
  <2>2. outside'[f].content # 0 => outside'[f].content \in counted
    BY <1>6 DEF StaysListed
  <2> QED BY <1>1, <1>6, <2>1, <2>2 DEF UnreadIsCounted
<1>13. GoneWasCounted'
  <2>1. ASSUME wasKept[f] # 0 PROVE StaysListed(f)
    BY <2>1 DEF FileInv, GoneWasCounted, StaysListed
  <2> QED BY <1>1, <1>6, <2>1 DEF FileInv, GoneWasCounted
<1> QED BY <1>7, <1>8, <1>10, <1>11, <1>12, <1>13 DEF FileInv

\* A batch is read: what is in the files' places is known of there already.
LEMMA ReadBatchKeeps ==
  ASSUME FileInv, NEW batch, NEW failing, ReadBatch(batch, failing)
  PROVE  FileInv'
<1>1. PICK now \in run :
        /\ now.slice /\ DOMAIN now.read \cup now.noting = {}
        /\ batch \subseteq now.work /\ \A f \in batch \ failing : place[f] # 0
        /\ run' = {[now EXCEPT !.work = @ \ batch, !.read = AsTheyLie(batch \ failing),
                               !.unreadable = @ \cup failing]}
        /\ UNCHANGED <<place, outside, listed, keeps, counted, wasKept, strayed, spent>>
  BY DEF ReadBatch
<1>2. InOrder(now) /\ now.letting = {} /\ now.noting = {} /\ \A q \in run : q = now
  BY <1>1, TheRun DEF InOrder
<1> DEFINE l == AsTheyLie(batch \ failing)
           new == [now EXCEPT !.work = @ \ batch, !.read = l, !.unreadable = @ \cup failing]
<1>3. /\ IsRun(new) /\ new.letting = {} /\ new.noting = {} /\ new.at = now.at /\ new.listing = now.listing
      /\ new.slice = now.slice /\ new.work = now.work \ batch /\ new.read = l
  BY <1>2 DEF InOrder, IsRun
<1>4. run' = {new}
  BY <1>1
<1>5. batch \subseteq BackupFile /\ batch \subseteq DOMAIN now.listing
  BY <1>1, <1>2 DEF InOrder
<1>6. DOMAIN l = batch \ failing /\ \A f \in DOMAIN l : l[f] = place[f] /\ l[f] \in Nat \ {0} /\ f \in BackupFile
  <2>1. DOMAIN l = batch \ failing /\ \A f \in DOMAIN l : l[f] = place[f]
    BY DEF AsTheyLie
  <2>2. \A f \in batch \ failing : f \in BackupFile /\ place[f] \in Nat \ {0}
    BY <1>1, <1>5 DEF FileInv, FileTypeOK
  <2> QED BY <2>1, <2>2
<1> HIDE DEF new, l
<1>7. RunInOrder'
  BY <1>1, <1>2, <1>3, <1>4, <1>5, <1>6 DEF RunInOrder, InOrder
<1>8. ReadIsNew'
  <2>1. SUFFICES ASSUME NEW f \in DOMAIN l
                 PROVE  /\ l[f] <= spent.edits
                        /\ \A g \in BackupFile : l[f] \in ContentsOf(g) => g = f
                        /\ \A g \in DOMAIN l : l[g] = l[f] => g = f
                        /\ l[f] \in counted => keeps[f] = l[f] \/ f \in strayed
                        /\ wasKept[f] = 0
    <3>1. \A g \in BackupFile : ContentsOf(g)' = ContentsOf(g)
      BY <1>1 DEF ContentsOf
    <3>2. \A f \in DOMAIN l : l[f] = place[f] /\ f \in BackupFile
      BY <1>6
    <3>3. UNCHANGED <<place, keeps, counted, wasKept, strayed, spent>>
      BY <1>1
    <3> QED BY <1>3, <1>4, <3>1, <3>2, <3>3 DEF ReadIsNew
  <2>2. l[f] = place[f] /\ place[f] # 0 /\ f \in BackupFile /\ \A g \in DOMAIN l : l[g] = place[g] /\ g \in BackupFile
    BY <1>6
  <2>3. /\ place[f] <= spent.edits /\ \A g \in BackupFile : place[f] \in ContentsOf(g) => g = f
    BY <2>2 DEF FileInv, OfOneFile, ContentsOf
  <2>4. \A g \in DOMAIN l : l[g] = l[f] => g = f
    BY <2>2, <2>3 DEF ContentsOf
  <2> QED BY <2>2, <2>3, <2>4 DEF FileInv, CountedIsKept, GoneWasCounted
<1>9. UnreadIsCounted'
  BY <1>1, <1>2 DEF FileInv, UnreadIsCounted
<1>10. FileTypeOK'
  BY <1>1 DEF FileInv, FileTypeOK
<1> QED BY <1>1, <1>7, <1>8, <1>9, <1>10, ContentsStay DEF FileInv

\* One less to record.
LEMMA TheRest ==
  ASSUME FileInv, NEW now \in run, now.letting = {}, now.slice, NEW f, NEW new, run' = {new}, IsRun(new),
         new.at = now.at, new.listing = now.listing, new.slice = now.slice, new.work = now.work,
         new.letting = {}, new.read = Rest(now, f),
         \A g \in new.noting : g = f /\ g \in DOMAIN now.listing /\ outside'[g].content # 0
  PROVE  RunInOrder' /\ ReadBefore /\ DOMAIN new.read = DOMAIN now.read \ {f}
<1>1. InOrder(now)
  BY TheRun
<1>2. DOMAIN new.read = DOMAIN now.read \ {f} /\ \A g \in DOMAIN new.read : new.read[g] = now.read[g]
  BY DEF Rest
<1>3. /\ new.work \cup DOMAIN new.read \cup new.noting \subseteq DOMAIN new.listing
      /\ \A g, h \in new.letting \cup new.noting : g = h
      /\ \A g \in DOMAIN new.read : new.read[g] \in Nat \ {0} /\ g \notin new.noting
  BY <1>1, <1>2 DEF InOrder
<1>4. RunInOrder'
  BY <1>1, <1>3 DEF RunInOrder, InOrder
<1>5. ReadBefore
  BY <1>2 DEF ReadBefore
<1> QED BY <1>2, <1>4, <1>5

LEMMA RecordKeeps ==
  ASSUME FileInv, NEW f \in BackupFile, Record(f)
  PROVE  FileInv'
<1>1. PICK now \in run :
        /\ now.noting = {} /\ f \in DOMAIN now.read
        /\ outside' = [outside EXCEPT ![f].content = now.read[f]]
        /\ run' = {[now EXCEPT !.read = Rest(now, f), !.noting = {f}]}
        /\ UNCHANGED <<place, listed, keeps, counted, wasKept, strayed, spent>>
  BY DEF Record
<1>2. InOrder(now) /\ now.letting = {} /\ now.slice /\ \A q \in run : q = now
  BY <1>1, TheRun DEF InOrder
<1>3. outside \in [BackupFile -> [content: Nat, source: Nat]] /\ now.read[f] \in Nat \ {0} /\ f \in DOMAIN now.listing
  BY <1>1, <1>2 DEF FileInv, FileTypeOK, InOrder
<1>4. /\ outside' \in [BackupFile -> [content: Nat, source: Nat]]
      /\ \A g \in BackupFile : outside'[g].source = outside[g].source /\ (g # f => outside'[g] = outside[g])
      /\ outside'[f].content = now.read[f]
  BY <1>1, <1>3
<1> DEFINE new == [now EXCEPT !.read = Rest(now, f), !.noting = {f}]
<1>5. run' = {new}
  BY <1>1
<1>6. /\ IsRun(new) /\ new.at = now.at /\ new.listing = now.listing /\ new.slice = now.slice
      /\ new.work = now.work /\ new.letting = {} /\ new.read = Rest(now, f) /\ new.noting = {f}
  BY <1>2 DEF InOrder, IsRun
<1> HIDE DEF new
<1>7. RunInOrder' /\ ReadBefore /\ DOMAIN new.read = DOMAIN now.read \ {f}
  <2>1. \A g \in new.noting : g = f /\ g \in DOMAIN now.listing /\ outside'[g].content # 0
    BY <1>3, <1>4, <1>6
  <2> QED BY <1>2, <1>5, <1>6, <2>1, TheRest
<1>8. \A g \in DOMAIN new.read : g \in DOMAIN now.read /\ new.read[g] = now.read[g] /\ g # f /\ g \in BackupFile
  <2>1. \A g \in DOMAIN now.read : g \in BackupFile
    BY <1>2 DEF InOrder
  <2> QED BY <1>2, <1>5, <1>7, <2>1 DEF ReadBefore
<1>9. FileTypeOK'
  BY <1>1, <1>4 DEF FileInv, FileTypeOK
<1>10. /\ now.read[f] <= spent.edits /\ \A g \in BackupFile : now.read[f] \in ContentsOf(g) => g = f
       /\ place[f] # 0 /\ (Heeded(f, place[f]) \/ outside[f].content = place[f]) => now.read[f] = place[f]
       /\ now.read[f] \in counted => keeps[f] = now.read[f] \/ f \in strayed
       /\ wasKept[f] # 0 => now.read[f] = wasKept[f]
  BY <1>1 DEF FileInv, ReadIsNew
<1>11. \A g \in BackupFile : \A c \in ContentsOf(g)' : c \in ContentsOf(g) \/ (g = f /\ c = now.read[f])
  BY <1>1, <1>4 DEF ContentsOf
<1>12. OfOneFile' /\ CountedMade'
  BY <1>1, <1>10, <1>11 DEF FileInv, OfOneFile, CountedMade
<1>13. RowIsNew' /\ CountedIsKept'
  BY <1>1, <1>4, <1>10 DEF FileInv, RowIsNew, Heeded, CountedIsKept
<1>14. ReadIsNew'
  <2>1. UNCHANGED <<place, listed, keeps, counted, wasKept, strayed, spent>>
    BY <1>1
  <2>2. \A h \in DOMAIN new.read : outside'[h] = outside[h]
    BY <1>4, <1>8
  <2>3. \A h \in DOMAIN new.read : Heeded(h, place[h])' <=> Heeded(h, place[h])
    BY <2>1, <2>2 DEF Heeded
  <2>4. SUFFICES ASSUME NEW h \in DOMAIN new.read
                 PROVE  /\ new.read[h] <= spent.edits
                        /\ \A g \in BackupFile : new.read[h] \in ContentsOf(g)' => g = h
                        /\ \A g \in DOMAIN new.read : new.read[g] = new.read[h] => g = h
                        /\ place[h] # 0 /\ (Heeded(h, place[h]) \/ outside[h].content = place[h])
                             => new.read[h] = place[h]
                        /\ new.read[h] \in counted => keeps[h] = new.read[h] \/ h \in strayed
                        /\ wasKept[h] # 0 => new.read[h] = wasKept[h]
    BY <1>5, <2>1, <2>2, <2>3 DEF ReadIsNew
  <2>5. h \in DOMAIN now.read /\ new.read[h] = now.read[h] /\ h # f /\ now.read[h] # now.read[f]
    BY <1>1, <1>8 DEF FileInv, ReadIsNew
  <2>6. \A g \in BackupFile : new.read[h] \in ContentsOf(g)' => new.read[h] \in ContentsOf(g)
    BY <1>11, <2>5
  <2>7. \A g \in BackupFile : new.read[h] \in ContentsOf(g) => g = h
    BY <2>5 DEF FileInv, ReadIsNew
  <2>8. \A g \in DOMAIN new.read : new.read[g] = new.read[h] => g = h
    BY <1>8, <2>5 DEF FileInv, ReadIsNew
  <2>9. /\ new.read[h] <= spent.edits
        /\ place[h] # 0 /\ (Heeded(h, place[h]) \/ outside[h].content = place[h]) => new.read[h] = place[h]
        /\ new.read[h] \in counted => keeps[h] = new.read[h] \/ h \in strayed
        /\ wasKept[h] # 0 => new.read[h] = wasKept[h]
    BY <2>5 DEF FileInv, ReadIsNew
  <2> QED BY <2>6, <2>7, <2>8, <2>9
<1>15. UnreadIsCounted'
  <2>1. ASSUME NEW g \in BackupFile, g # f, outside[g].content # 0, outside[g].source = 0
        PROVE  outside[g].content \in counted \/ g \in strayed
    <3>1. \A q \in run : q.letting \cup q.noting = {}
      BY <1>1, <1>2
    <3> QED BY <2>1, <3>1 DEF FileInv, UnreadIsCounted
  <2> QED BY <1>1, <1>4, <1>5, <1>6, <2>1 DEF UnreadIsCounted
<1>16. GoneWasCounted'
  BY <1>1, <1>4, <1>10 DEF FileInv, GoneWasCounted
<1> QED BY <1>7, <1>9, <1>12, <1>13, <1>14, <1>15, <1>16 DEF FileInv

LEMMA RecordFailsKeeps ==
  ASSUME FileInv, NEW f \in BackupFile, RecordFails(f)
  PROVE  FileInv'
<1>1. PICK now \in run :
        /\ f \in now.noting \/ (now.noting = {} /\ f \in DOMAIN now.read)
        /\ strayed' = strayed \cup now.noting
        /\ run' = {[now EXCEPT !.read = Rest(now, f), !.noting = {}, !.unreadable = @ \cup {f}]}
        /\ UNCHANGED <<place, outside, listed, keeps, counted, wasKept, spent>>
  BY DEF RecordFails
<1>2. InOrder(now) /\ now.slice /\ now.letting = {} /\ \A q \in run : q = now
  BY <1>1, TheRun DEF InOrder
<1> DEFINE new == [now EXCEPT !.read = Rest(now, f), !.noting = {}, !.unreadable = @ \cup {f}]
<1>3. /\ run' = {new}
      /\ IsRun(new) /\ new.at = now.at /\ new.listing = now.listing /\ new.slice = now.slice
      /\ new.work = now.work /\ new.letting = {} /\ new.read = Rest(now, f) /\ new.noting = {}
  <2>1. run' = {new}
    BY <1>1
  <2> QED BY <1>2, <2>1 DEF InOrder, IsRun
<1> HIDE DEF new
<1>4. RunInOrder' /\ ReadBefore
  BY <1>2, <1>3, TheRest
<1>5. \A q \in run : \A g \in q.letting \cup q.noting : g \in strayed'
  BY <1>1, <1>2
<1> QED BY <1>1, <1>4, <1>5, RunMovesKeeps

LEMMA NoteSourceKeeps ==
  ASSUME FileInv, NEW f \in BackupFile, NoteSource(f)
  PROVE  FileInv'
<1>1. PICK now \in run :
        /\ f \in now.noting
        /\ outside' = [outside EXCEPT ![f].source = now.listing[f]]
        /\ strayed' = IF outside[f].content \in counted THEN strayed ELSE strayed \ {f}
        /\ run' = {[now EXCEPT !.noting = {}]}
        /\ UNCHANGED <<place, listed, keeps, counted, wasKept, spent>>
  BY DEF NoteSource
<1>2. /\ InOrder(now) /\ now.slice /\ now.letting = {} /\ (\A g \in now.noting : g = f)
      /\ f \in DOMAIN now.listing /\ now.listing[f] \in Nat \ {0} /\ outside[f].content # 0
      /\ f \notin DOMAIN now.read /\ \A q \in run : q = now
  BY <1>1, TheRun DEF InOrder
<1> DEFINE new == [now EXCEPT !.noting = {}]
<1>3. /\ IsRun(new) /\ new.letting = {} /\ new.noting = {} /\ new.at = now.at /\ new.listing = now.listing
      /\ new.slice = now.slice /\ new.work = now.work /\ new.read = now.read
  BY <1>2 DEF IsRun, InOrder
<1>4. run' = {new}
  BY <1>1
<1> HIDE DEF new
<1>5. outside \in [BackupFile -> [content: Nat, source: Nat]]
  BY DEF FileInv, FileTypeOK
<1>6. /\ outside' \in [BackupFile -> [content: Nat, source: Nat]]
      /\ \A g \in BackupFile : outside'[g].content = outside[g].content /\ (g # f => outside'[g] = outside[g])
      /\ outside'[f].source # 0
  BY <1>1, <1>2, <1>5
<1>7. FileTypeOK'
  BY <1>1, <1>6 DEF FileInv, FileTypeOK
<1>8. RunInOrder'
  BY <1>2, <1>3, <1>4 DEF RunInOrder, InOrder
<1>9. \A g \in BackupFile : ContentsOf(g)' = ContentsOf(g)
  BY <1>1, <1>6 DEF ContentsOf
<1>10. OfOneFile' /\ CountedMade' /\ RowIsNew' /\ GoneWasCounted'
  <2>1. OfOneFile' /\ CountedMade'
    BY <1>1, <1>9 DEF FileInv, OfOneFile, CountedMade
  <2>2. RowIsNew' /\ GoneWasCounted'
    BY <1>1, <1>6 DEF FileInv, RowIsNew, Heeded, GoneWasCounted
  <2> QED BY <2>1, <2>2
<1>11. CountedIsKept'
  <2>1. SUFFICES ASSUME NEW g \in BackupFile, NEW c \in counted, c # 0, c \in {place[g], outside[g].content}
                 PROVE  keeps[g] = c \/ g \in strayed'
    BY <1>1, <1>6 DEF CountedIsKept
  <2>2. keeps[g] = c \/ g \in strayed
    BY <2>1 DEF FileInv, CountedIsKept
  <2>3. CASE g # f \/ outside[f].content \in counted
    BY <1>1, <2>2, <2>3
  <2>4. CASE g = f /\ outside[f].content \notin counted
    \* Its row is what is in its place, if that is counted.
    <3>1. c = place[f] /\ place[f] # 0 /\ place[f] \in counted
      BY <2>1, <2>4
    <3>2. outside[f].content \in {0, place[f]}
      BY <3>1 DEF FileInv, RowIsNew, Heeded
    <3> QED BY <1>2, <2>4, <3>1, <3>2
  <2> QED BY <2>3, <2>4
<1>12. UnreadIsCounted'
  <2>1. ASSUME NEW g \in BackupFile, g # f, outside[g].content # 0, outside[g].source = 0
        PROVE  outside[g].content \in counted \/ g \in strayed'
    <3>1. \A q \in run : g \notin q.letting \cup q.noting
      BY <1>2, <2>1
    <3>2. outside[g].content \in counted \/ g \in strayed
      BY <2>1, <3>1 DEF FileInv, UnreadIsCounted
    <3> QED BY <1>1, <2>1, <3>2
  <2> QED BY <1>1, <1>6, <2>1 DEF UnreadIsCounted
<1>13. ReadIsNew'
  <2>1. \A g \in DOMAIN now.read : g \in BackupFile /\ g # f
    BY <1>2 DEF InOrder
  <2>2. \A g \in BackupFile : g # f => (g \in strayed' <=> g \in strayed)
    BY <1>1
  <2> QED BY <1>1, <1>3, <1>4, <1>6, <1>9, <2>1, <2>2 DEF FileInv, ReadIsNew, Heeded
<1> QED BY <1>7, <1>8, <1>10, <1>11, <1>12, <1>13 DEF FileInv

\* A step that leaves the run and the rows alone: neither is out of order.
LEMMA RunAndRowsStay ==
  ASSUME FileInv, UNCHANGED <<run, outside>>
  PROVE  RunInOrder'
BY DEF FileInv, RunInOrder, InOrder

LEMMA EditKeeps ==
  ASSUME FileInv, NEW f \in BackupFile, Edit(f)
  PROVE  FileInv'
<1>1. /\ place' = [place EXCEPT ![f] = spent.edits + 1] /\ wasKept' = [wasKept EXCEPT ![f] = 0]
      /\ spent' = [spent EXCEPT !.edits = @ + 1]
      /\ UNCHANGED <<outside, run, listed, keeps, counted, strayed>>
  BY DEF Edit
<1>2. FileTypeOK
  BY DEF FileInv
<1>3. /\ spent' \in [choices: Nat, edits: Nat, runs: Nat] /\ spent'.edits = spent.edits + 1
      /\ spent.edits \in Nat
  BY <1>1, <1>2 DEF FileTypeOK
<1>4. /\ place' \in [BackupFile -> Nat] /\ place'[f] = spent.edits + 1
      /\ wasKept' \in [BackupFile -> Nat] /\ wasKept'[f] = 0
      /\ \A g \in BackupFile : g # f => place'[g] = place[g] /\ wasKept'[g] = wasKept[g]
  BY <1>1, <1>2, <1>3 DEF FileTypeOK
<1>5. FileTypeOK'
  BY <1>1, <1>2, <1>3, <1>4 DEF FileTypeOK
<1>6. \A g \in BackupFile : \A c \in ContentsOf(g)' : c \in ContentsOf(g) \/ (g = f /\ c = spent.edits + 1)
  BY <1>1, <1>4 DEF ContentsOf
<1>7. \A g \in BackupFile : \A c \in ContentsOf(g) : c \in Nat /\ c <= spent.edits
  BY <1>2 DEF FileTypeOK, FileInv, OfOneFile, ContentsOf
<1>8. OfOneFile'
  <2>1. \A g \in BackupFile : \A c \in ContentsOf(g)' : c <= spent'.edits
    BY <1>3, <1>6, <1>7
  <2>2. ASSUME NEW g \in BackupFile, NEW h \in BackupFile, NEW c \in ContentsOf(g)', c \in ContentsOf(h)', c # 0
        PROVE  g = h
    <3>1. CASE c = spent.edits + 1
      BY <1>3, <1>6, <1>7, <2>2, <3>1
    <3>2. CASE c # spent.edits + 1
      BY <1>6, <2>2, <3>2 DEF FileInv, OfOneFile
    <3> QED BY <3>1, <3>2
  <2> QED BY <2>1, <2>2 DEF OfOneFile
<1>9. \A c \in counted : c \in Nat /\ c <= spent.edits
  BY <1>2 DEF FileInv, CountedMade, FileTypeOK
<1>10. CountedMade'
  BY <1>1, <1>3, <1>9 DEF CountedMade
<1>11. spent.edits + 1 \notin counted /\ spent.edits + 1 \notin {listed[f], keeps[f]}
  BY <1>3, <1>7, <1>9 DEF ContentsOf
<1>12. RowIsNew' /\ CountedIsKept'
  BY <1>1, <1>4, <1>11 DEF FileInv, RowIsNew, Heeded, CountedIsKept
<1>13. UnreadIsCounted' /\ GoneWasCounted'
  BY <1>1, <1>4 DEF FileInv, UnreadIsCounted, GoneWasCounted
<1>14. ReadIsNew'
  <2>1. ASSUME NEW now \in run, NEW h \in DOMAIN now.read
        PROVE  h \in BackupFile /\ now.read[h] \in Nat /\ now.read[h] <= spent.edits
    BY <2>1, TheRun DEF FileInv, InOrder, ReadIsNew
  <2>2. ASSUME NEW now \in run, NEW h \in DOMAIN now.read
        PROVE  \A g \in BackupFile : now.read[h] \in ContentsOf(g)' => g = h
    BY <1>3, <1>6, <2>1, <2>2 DEF FileInv, ReadIsNew
  <2>3. spent.edits + 1 # outside[f].content
    BY <1>3, <1>7 DEF ContentsOf
  <2>4. ASSUME NEW now \in run, NEW h \in DOMAIN now.read PROVE now.read[h] <= spent'.edits
    BY <1>3, <2>1, <2>4
  <2> QED BY <1>1, <1>4, <1>11, <2>1, <2>2, <2>3, <2>4 DEF FileInv, ReadIsNew, Heeded
<1> QED BY <1>1, <1>5, <1>8, <1>10, <1>12, <1>13, <1>14, RunAndRowsStay DEF FileInv

LEMMA RemoveKeeps ==
  ASSUME FileInv, NEW f \in BackupFile, Remove(f)
  PROVE  FileInv'
<1>1. /\ place[f] # 0 /\ place' = [place EXCEPT ![f] = 0]
      /\ wasKept' = [wasKept EXCEPT ![f] =
                       IF outside[f].content = place[f] /\ place[f] \in counted
                          /\ (FolderOf[f] = WhatsApp => f \in Media)
                       THEN place[f] ELSE 0]
      /\ UNCHANGED <<outside, run, listed, keeps, counted, strayed, spent>>
  BY DEF Remove
<1>2. FileTypeOK
  BY DEF FileInv
<1>3. /\ place' \in [BackupFile -> Nat] /\ place'[f] = 0 /\ wasKept' \in [BackupFile -> Nat]
      /\ \A g \in BackupFile : g # f => place'[g] = place[g] /\ wasKept'[g] = wasKept[g]
      /\ wasKept'[f] # 0 => /\ wasKept'[f] = place[f] /\ outside[f].content = place[f] /\ place[f] \in counted
                            /\ FolderOf[f] = WhatsApp => f \in Media
  BY <1>1, <1>2 DEF FileTypeOK
<1>4. FileTypeOK'
  BY <1>1, <1>2, <1>3 DEF FileTypeOK
<1>5. \A g \in BackupFile : \A c \in ContentsOf(g)' : c \in ContentsOf(g) \/ c = 0
  BY <1>1, <1>3 DEF ContentsOf
<1>6. OfOneFile' /\ CountedMade'
  <2>1. 0 <= spent.edits
    BY <1>2 DEF FileTypeOK
  <2> QED BY <1>1, <1>5, <2>1 DEF FileInv, OfOneFile, CountedMade
<1>7. RowIsNew' /\ CountedIsKept'
  BY <1>1, <1>3 DEF FileInv, RowIsNew, Heeded, CountedIsKept
<1>8. UnreadIsCounted' /\ GoneWasCounted'
  BY <1>1, <1>3 DEF FileInv, UnreadIsCounted, GoneWasCounted
<1>9. ReadIsNew'
  <2>1. ASSUME NEW now \in run, NEW h \in DOMAIN now.read
        PROVE  h \in BackupFile /\ now.read[h] # 0
    BY <2>1, TheRun DEF InOrder
  <2>2. ASSUME NEW now \in run, NEW h \in DOMAIN now.read
        PROVE  \A g \in BackupFile : now.read[h] \in ContentsOf(g)' => g = h
    BY <1>5, <2>1, <2>2 DEF FileInv, ReadIsNew
  <2> QED BY <1>1, <1>3, <2>1, <2>2 DEF FileInv, ReadIsNew, Heeded
<1> QED BY <1>1, <1>4, <1>6, <1>7, <1>8, <1>9, RunAndRowsStay DEF FileInv

\* The computer reads the list, collects a file or drops it.
LEMMA ComputerKeeps ==
  ASSUME FileInv, NEW f \in BackupFile, ReadsList \/ Collects(f) \/ Drops(f)
  PROVE  FileInv'
<1>1. FileTypeOK /\ UNCHANGED <<place, outside, run, counted, wasKept, spent>>
  BY DEF FileInv, ReadsList, Collects, Drops
<1>2. \/ /\ listed' = [g \in BackupFile |-> outside[g].content] /\ UNCHANGED <<keeps, strayed>>
      \/ /\ keeps' = [keeps EXCEPT ![f] = listed[f]] /\ UNCHANGED <<listed, strayed>>
         /\ outside[f].content = listed[f] /\ place[f] = listed[f] /\ listed[f] # 0
      \/ /\ keeps' = [keeps EXCEPT ![f] = 0] /\ UNCHANGED listed
         /\ strayed' = IF keeps[f] \in counted THEN strayed \cup {f} ELSE strayed
  BY DEF ReadsList, Collects, Drops, Supplies
<1>3. FileTypeOK'
  BY <1>1, <1>2 DEF FileTypeOK
<1>4. \A g \in BackupFile : \A c \in ContentsOf(g)' : c \in ContentsOf(g) \/ c = 0
  BY <1>1, <1>2 DEF ContentsOf, FileTypeOK
<1>5. OfOneFile' /\ CountedMade'
  <2>1. 0 <= spent.edits
    BY <1>1 DEF FileTypeOK
  <2> QED BY <1>1, <1>4, <2>1 DEF FileInv, OfOneFile, CountedMade
<1>6. RowIsNew' /\ CountedIsKept'
  <2>1. RowIsNew /\ CountedIsKept
    BY DEF FileInv
  <2>2. RowIsNew'
    BY <1>1, <1>2, <2>1 DEF RowIsNew, Heeded, FileTypeOK
  <2>3. CountedIsKept'
    BY <1>1, <1>2, <2>1 DEF CountedIsKept, FileTypeOK
  <2> QED BY <2>2, <2>3
<1>7. UnreadIsCounted' /\ GoneWasCounted'
  <2>1. strayed \subseteq strayed'
    BY <1>2
  <2> QED BY <1>1, <2>1 DEF FileInv, UnreadIsCounted, GoneWasCounted
<1>8. ReadIsNew'
  <2>1. ASSUME NEW now \in run, NEW h \in DOMAIN now.read
        PROVE  h \in BackupFile /\ now.read[h] # 0
    BY <2>1, TheRun DEF InOrder
  <2>2. ASSUME NEW now \in run, NEW h \in DOMAIN now.read
        PROVE  \A g \in BackupFile : now.read[h] \in ContentsOf(g)' => g = h
    BY <1>4, <2>1, <2>2 DEF FileInv, ReadIsNew
  <2>3. ASSUME NEW now \in run, NEW h \in DOMAIN now.read,
               place[h] # 0, Heeded(h, place[h])' \/ outside[h].content = place[h]
        PROVE  Heeded(h, place[h]) \/ outside[h].content = place[h]
    BY <1>1, <1>2, <2>1, <2>3 DEF Heeded, FileTypeOK
  <2>4. ASSUME NEW now \in run, NEW h \in DOMAIN now.read, now.read[h] \in counted
        PROVE  keeps'[h] = now.read[h] \/ h \in strayed'
    <3>1. keeps[h] = now.read[h] \/ h \in strayed
      BY <2>4 DEF FileInv, ReadIsNew
    <3>2. place[h] # 0 /\ outside[h].content = place[h] => now.read[h] = place[h]
      BY <2>4 DEF FileInv, ReadIsNew
    <3> QED BY <1>1, <1>2, <2>1, <2>4, <3>1, <3>2 DEF FileTypeOK
  <2> QED BY <1>1, <2>1, <2>2, <2>3, <2>4 DEF FileInv, ReadIsNew, Heeded
<1> QED BY <1>1, <1>3, <1>5, <1>6, <1>7, <1>8, RunAndRowsStay DEF FileInv

\* It says what it keeps.  That is of one file, and kept.
LEMMA SaysKeeps ==
  ASSUME FileInv, NEW f \in BackupFile, Says(f)
  PROVE  FileInv'
<1>1. /\ keeps[f] # 0 /\ counted' = counted \cup {keeps[f]}
      /\ UNCHANGED <<place, outside, run, listed, keeps, wasKept, strayed, spent>>
  BY DEF Says
<1>2. FileTypeOK' /\ CountedMade'
  BY <1>1 DEF FileInv, FileTypeOK, CountedMade, OfOneFile, ContentsOf
<1>3. OfOneFile'
  BY <1>1 DEF FileInv, OfOneFile, ContentsOf
<1>4. ASSUME NEW g \in BackupFile, keeps[f] \in {place[g], outside[g].content} PROVE g = f
  BY <1>1, <1>4 DEF FileInv, OfOneFile, ContentsOf
<1>5. RowIsNew' /\ CountedIsKept'
  BY <1>1, <1>4 DEF FileInv, RowIsNew, Heeded, CountedIsKept
<1>6. UnreadIsCounted' /\ GoneWasCounted'
  BY <1>1 DEF FileInv, UnreadIsCounted, GoneWasCounted
<1>7. ReadIsNew'
  <2>1. ASSUME NEW now \in run, NEW h \in DOMAIN now.read
        PROVE  h \in BackupFile /\ (now.read[h] = keeps[f] => h = f)
    BY <2>1, TheRun DEF FileInv, InOrder, ReadIsNew, ContentsOf
  <2> QED BY <1>1, <1>4, <2>1 DEF FileInv, ReadIsNew, Heeded, ContentsOf
<1> QED BY <1>1, <1>2, <1>3, <1>5, <1>6, <1>7, RunAndRowsStay DEF FileInv

\* The choices spend of their bound, and touch no file.
LEMMA ChoosingKeepsFiles ==
  ASSUME FileInv, UNCHANGED fileVars, spent'.edits = spent.edits,
         spent' \in [choices: Nat, edits: Nat, runs: Nat]
  PROVE  FileInv'
<1>1. UNCHANGED <<place, outside, run, listed, keeps, counted, wasKept, strayed>>
  BY DEF fileVars
<1>2. FileTypeOK' /\ UnreadIsCounted'
  BY <1>1 DEF FileInv, FileTypeOK, UnreadIsCounted
<1>3. ReadBefore
  BY <1>1 DEF ReadBefore
<1> QED BY <1>1, <1>2, <1>3, RunAndRowsStay, ContentsStay, ReadsStay DEF FileInv

LEMMA FileStep ==
  ASSUME FileInv, [Next]_vars
  PROVE  FileInv'
<1>0. spent \in [choices: Nat, edits: Nat, runs: Nat]
  BY DEF FileInv, FileTypeOK
<1>1. CASE BackupNext
  <2>1. CASE Choosing
    <3>1. UNCHANGED fileVars /\ (spent' = spent \/ spent' = [spent EXCEPT !.choices = @ + 1])
      BY <2>1 DEF Choosing, AskChoices, HearChoices, Choose, ListFolders
    <3> QED BY <1>0, <3>1, ChoosingKeepsFiles
  <2>2. CASE Running
    BY <2>2, StartRunKeeps, ListFolderKeeps, ForgetSourceKeeps, LetGoKeeps, SlicesKeep, ReadBatchKeeps,
       RecordKeeps, NoteSourceKeeps, RecordFailsKeeps, FolderDoneKeeps DEF Running
  <2>3. CASE ReadsList
    <3>1. CASE BackupFile = {}
      <4>1. UNCHANGED <<run, outside, place, keeps, counted, wasKept, strayed, spent>>
            /\ listed' = [g \in BackupFile |-> outside[g].content]
        BY <2>3 DEF ReadsList
      <4> QED BY <3>1, <4>1, RunAndRowsStay DEF FileInv, FileTypeOK, OfOneFile, CountedMade, RowIsNew,
                 CountedIsKept, ReadIsNew, InOrder, RunInOrder, UnreadIsCounted, GoneWasCounted
    <3>2. CASE BackupFile # {}
      BY <2>3, <3>2, ComputerKeeps
    <3> QED BY <3>1, <3>2
  <2>4. ASSUME NEW f \in BackupFile, Edit(f) \/ Remove(f) \/ Collects(f) \/ Drops(f) \/ Says(f) PROVE FileInv'
    BY <2>4, EditKeeps, RemoveKeeps, ComputerKeeps, SaysKeeps
  <2> QED BY <1>1, <2>1, <2>2, <2>3, <2>4 DEF BackupNext
<1>2. CASE UNCHANGED backupVars
  <2>1. UNCHANGED fileVars /\ UNCHANGED spent
    BY <1>2 DEF backupVars, fileVars
  <2> QED BY <1>0, <2>1, ChoosingKeepsFiles
<1>3. [Next]_vars => BackupNext \/ UNCHANGED backupVars
  BY DEF Next, Own, Keeping, Asked, Passing, Fetches, Backups, vars
<1> QED BY <1>1, <1>2, <1>3

\* A file the computer is recorded to keep is still listed and kept after it
\* has gone from its place on the phone: outside_gone deletes no row of one,
\* and what is listed and read nowhere is on the computer.
THEOREM TheComputerKeepsTheGone == Spec => []KeptWhenGone
<1>1. Init => FileInv
  <2>1. Init => BackupInit(IF world = "backup" THEN Bounds ELSE {CHOOSE b \in Bounds : TRUE})
    BY DEF Init
  <2> QED BY <2>1, FilesStart
<1>2. FileInv /\ [Next]_vars => FileInv'
  BY FileStep
<1>3. FileInv => KeptWhenGone
  BY CountedKeepsGone
<1> QED BY <1>1, <1>2, <1>3, PTL DEF Spec

-----------------------------------------------------------------------------
(* Identity: the only computer knows the phone.                            *)

Certificate == 0..MaxSetUps
Trusting == [id: Device, print: Certificate, paired: Nat, seen: Nat]
Doing ==
    [at: {"idle"}] \cup [at: {"reached", "syncing", "refused"}, c: Computer]
    \cup [at: {"told"}, c: Computer, id: Device]
    \cup [at: {"adopted", "noted"}, c: Computer, once: BOOLEAN]

IdentityTypeOK ==
    /\ home \subseteq Computer /\ own \subseteq Computer
    /\ setups \in Device /\ me \in Device /\ print \in Certificate /\ as \in Certificate
    /\ doing \in Doing
    /\ peers \in [Computer -> SUBSET Trusting]
    /\ same \in [Computer -> [Device -> 0..MaxSetUps]]
    /\ pairings \in Nat

\* Of each device and of each certificate a computer has one row.
OneRowEach ==
    \A c \in Computer : \A p, q \in peers[c] : p.id = q.id \/ p.print = q.print => p = q

\* A phone with a passing certificate connects with that one, and is about a
\* computer of its own.
PassesAsItIs ==
    /\ print # Permanent => as = print
    /\ doing.at # "idle" => doing.c \in own

\* A computer has a row of this device under this certificate.
Has(c, f, d) == \E p \in peers[c] : p.print = f /\ p.id = d

\* While it becomes permanent, the row the phone will be known by is there
\* before it turns to it, and until it does the one it is known by.
KnownMeanwhile ==
    \A c \in own : own = {c} /\ c \notin upset =>
      /\ doing.at \in {"idle", "reached", "syncing", "refused"} => Has(c, print, me)
      /\ doing.at = "told" => Has(c, Permanent, doing.id) /\ (doing.id # me => Has(c, print, me))
      /\ doing.at \in {"adopted", "noted"} => Has(c, Permanent, me)
      /\ doing.at = "noted" => c \in told

IdentityInv == IdentityTypeOK /\ OneRowEach /\ PassesAsItIs /\ KnownMeanwhile

LEMMA IdentityStarts ==
  ASSUME IdentityBounds, NEW cs \in SUBSET Computer, IdentityInit(cs)
  PROVE  IdentityInv
<1>1. 1 \in Device /\ 1 \in Certificate /\ 0 \in 0..MaxSetUps
  BY DEF IdentityBounds, Device, Certificate
<1>2. Idle \in Doing
  BY DEF Idle, Doing
<1>3. IdentityTypeOK
  BY <1>1, <1>2 DEF IdentityInit, IdentityTypeOK, NoDevice
<1> QED BY <1>3 DEF IdentityInit, IdentityInv, OneRowEach, PassesAsItIs, KnownMeanwhile, Idle

\* What is being done says where; an idle phone is about no computer.
LEMMA DoingFields ==
  ASSUME doing \in Doing
  PROVE  /\ doing.at \in {"idle", "reached", "syncing", "refused", "told", "adopted", "noted"}
         /\ doing.at = "idle" => doing = Idle
         /\ doing.at # "idle" => doing.c \in Computer
         /\ doing.at = "told" => doing.id \in Device
         /\ doing.at \in {"adopted", "noted"} => doing.once \in BOOLEAN
         /\ doing.at = "adopted" => [doing EXCEPT !.at = "noted"] =
                                      [at |-> "noted", c |-> doing.c, once |-> doing.once]
BY DEF Doing, Idle

\* The phone moves on, and no computer: the types stay, and the rows.
LEMMA PhoneMovesKeeps ==
  ASSUME IdentityInv, UNCHANGED <<home, own, setups, peers, same, pairings>>,
         me' \in Device, print' \in Certificate, as' \in Certificate, doing' \in Doing, PassesAsItIs',
         KnownMeanwhile'
  PROVE  IdentityInv'
BY DEF IdentityInv, IdentityTypeOK, OneRowEach

LEMMA PairWithKeeps ==
  ASSUME IdentityInv, NEW c \in home, PairWith(c)
  PROVE  IdentityInv'
<1>1. /\ doing = Idle /\ \A p \in peers[c] : p.print = print => p.id = me
      /\ peers' = [peers EXCEPT ![c] = Trusted(c, me, print)]
      /\ pairings' = pairings + 1 /\ own' = own \cup {c} /\ upset' = upset \ {c}
      /\ UNCHANGED <<home, setups, me, print, told, as, doing, same>>
  BY DEF PairWith
<1>2. IdentityTypeOK /\ c \in Computer
  BY DEF IdentityInv, IdentityTypeOK
<1> DEFINE rows == Trusted(c, me, print)
<1> DEFINE first == [id |-> me, print |-> print, paired |-> pairings + 1, seen |-> 0]
<1>3. first \in Trusting
  BY <1>2 DEF IdentityTypeOK, Trusting
<1>4. ASSUME NEW p \in peers[c] PROVE [p EXCEPT !.print = print] \in Trusting /\ p \in Trusting
                                      /\ [p EXCEPT !.print = print].print = print
                                      /\ [p EXCEPT !.print = print].id = p.id
  BY <1>2 DEF IdentityTypeOK, Trusting
<1>5. \A p \in rows : \/ p \in peers[c] /\ p.id # me /\ p.print # print
                      \/ p = first /\ Row(c, me) = {}
                      \/ \E q \in Row(c, me) : p = [q EXCEPT !.print = print]
  BY <1>1 DEF Trusted, Row
<1>6. \A p, q \in Row(c, me) : p = q
  BY <1>2 DEF IdentityInv, OneRowEach, Row
<1>7. \A p \in rows : p \in Trusting /\ (p.id = me <=> p.print = print)
  <2>1. first.id = me /\ first.print = print
    OBVIOUS
  <2>2. ASSUME NEW p \in peers[c], p.id # me, p.print # print
        PROVE  p \in Trusting /\ (p.id = me <=> p.print = print)
    BY <1>4, <2>2
  <2>3. ASSUME NEW q \in Row(c, me), NEW p, p = [q EXCEPT !.print = print]
        PROVE  p \in Trusting /\ p.id = me /\ p.print = print
    BY <1>4, <2>3 DEF Row
  <2> HIDE DEF first, rows
  <2> QED BY <1>3, <1>5, <2>1, <2>2, <2>3
<1>8. \A p, q \in rows : p.id = q.id \/ p.print = q.print => p = q
  <2>1. \A p, q \in peers[c] : p.id = q.id \/ p.print = q.print => p = q
    BY <1>2 DEF IdentityInv, OneRowEach
  <2>2. ASSUME NEW p \in rows, NEW q \in rows, p.id = me, q.id = me PROVE p = q
    BY <1>5, <1>6, <2>2
  <2>3. ASSUME NEW p \in rows, p.id # me PROVE p \in peers[c]
    <3>1. first.id = me
      OBVIOUS
    <3>2. ASSUME NEW q \in Row(c, me), p = [q EXCEPT !.print = print] PROVE FALSE
      BY <1>4, <2>3, <3>2 DEF Row
    <3>3. p # first
      BY <2>3, <3>1
    <3> HIDE DEF first, rows
    <3> QED BY <1>5, <3>2, <3>3
  <2> QED BY <1>7, <2>1, <2>2, <2>3
<1>9. \E p \in rows : p.print = print /\ p.id = me
  <2>1. CASE Row(c, me) = {}
    <3>1. first \in rows /\ first.print = print /\ first.id = me
      BY <2>1 DEF Trusted
    <3> HIDE DEF first, rows
    <3> QED BY <3>1
  <2>2. CASE Row(c, me) # {}
    <3>1. PICK q \in Row(c, me) : TRUE
      BY <2>2
    <3>2. [q EXCEPT !.print = print] \in rows
      BY <2>2, <3>1 DEF Trusted
    <3> QED BY <1>4, <3>1, <3>2 DEF Row
  <2> QED BY <2>1, <2>2
<1> HIDE DEF rows, first
<1>10. peers' \in [Computer -> SUBSET Trusting] /\ peers'[c] = rows
       /\ \A d \in Computer : d # c => peers'[d] = peers[d]
  BY <1>1, <1>2, <1>7 DEF IdentityTypeOK, rows
<1>11. IdentityTypeOK'
  <2>1. pairings' \in Nat
    BY <1>1, <1>2 DEF IdentityTypeOK
  <2> QED BY <1>1, <1>2, <1>10, <2>1 DEF IdentityTypeOK
<1>12. OneRowEach'
  BY <1>8, <1>10 DEF IdentityInv, OneRowEach
<1>13. PassesAsItIs'
  BY <1>1 DEF IdentityInv, PassesAsItIs, Idle
<1>14. KnownMeanwhile'
  BY <1>1, <1>9, <1>10 DEF KnownMeanwhile, Has, Idle
<1> QED BY <1>11, <1>12, <1>13, <1>14 DEF IdentityInv

\* A pass begins, ends or reaches a computer; a file is made, a month goes by.
LEMMA PassKeeps ==
  ASSUME IdentityInv, BeginPass \/ PassEnds \/ (\E c \in home : Reach(c)) \/ Make \/ MonthPasses
                      \/ \E c \in home : RefreshTrust(c)
  PROVE  IdentityInv'
<1>1. UNCHANGED <<home, own, setups, peers, same, pairings, me, print, told, upset>> /\ (as' = as \/ as' = print)
  BY DEF BeginPass, PassEnds, Reach, Make, MonthPasses, RefreshTrust, computers, phone
<1>2. \/ doing' = doing
      \/ doing' = Idle /\ doing.at = "syncing"
      \/ doing = Idle /\ \E c \in home : c \in own /\ doing' = [at |-> "reached", c |-> c]
  BY DEF BeginPass, PassEnds, Reach, Make, MonthPasses, RefreshTrust, phone
<1>3. doing' \in Doing
  BY <1>2 DEF IdentityInv, IdentityTypeOK, Doing, Idle
<1>4. PassesAsItIs'
  <2>1. print' # Permanent => as' = print'
    BY <1>1 DEF IdentityInv, PassesAsItIs
  <2>2. doing'.at # "idle" => doing'.c \in own'
    BY <1>1, <1>2 DEF IdentityInv, PassesAsItIs, Idle
  <2> QED BY <2>1, <2>2 DEF PassesAsItIs
<1>5. KnownMeanwhile'
  BY <1>1, <1>2 DEF IdentityInv, KnownMeanwhile, Idle, Has
<1>6. me' \in Device /\ print' \in Certificate /\ as' \in Certificate
  BY <1>1 DEF IdentityInv, IdentityTypeOK
<1> QED BY <1>1, <1>3, <1>4, <1>5, <1>6, PhoneMovesKeeps

LEMMA SyncedByKeeps ==
  ASSUME IdentityInv, NEW c \in home, SyncedBy(c)
  PROVE  IdentityInv'
<1> DEFINE Seen(p) == IF p.print = as THEN [p EXCEPT !.seen = pairings] ELSE p
<1>1. peers' = [peers EXCEPT ![c] = {Seen(p) : p \in peers[c]}] /\ UNCHANGED <<phone, same, pairings, upset>>
  BY DEF SyncedBy, IdentityInv, IdentityTypeOK
<1>2. UNCHANGED <<home, setups, me, print, told, own, as, doing, same, pairings, upset>>
  BY <1>1 DEF phone
<1>3. IdentityTypeOK /\ c \in Computer
  BY DEF IdentityInv, IdentityTypeOK
<1>4. \A p \in peers[c] : Seen(p) \in Trusting /\ Seen(p).id = p.id /\ Seen(p).print = p.print
  <2>1. ASSUME NEW p \in Trusting
        PROVE  [p EXCEPT !.seen = pairings] \in Trusting /\ [p EXCEPT !.seen = pairings].id = p.id
               /\ [p EXCEPT !.seen = pairings].print = p.print
    BY <1>3 DEF IdentityTypeOK, Trusting
  <2> QED BY <1>3, <2>1 DEF IdentityTypeOK
<1> HIDE DEF Seen
<1>5. peers' \in [Computer -> SUBSET Trusting] /\ peers'[c] = {Seen(p) : p \in peers[c]}
      /\ \A d \in Computer : d # c => peers'[d] = peers[d]
  BY <1>1, <1>3, <1>4 DEF IdentityTypeOK
<1>6. IdentityTypeOK'
  BY <1>2, <1>3, <1>5 DEF IdentityTypeOK
<1>7. OneRowEach'
  BY <1>4, <1>5 DEF IdentityInv, OneRowEach
<1>8. PassesAsItIs'
  BY <1>2 DEF IdentityInv, PassesAsItIs
<1>9. ASSUME NEW d \in Computer, NEW f, NEW i, Has(d, f, i) PROVE Has(d, f, i)'
  BY <1>4, <1>5, <1>9 DEF Has
<1>10. KnownMeanwhile'
  BY <1>2, <1>3, <1>9 DEF IdentityInv, KnownMeanwhile, IdentityTypeOK
<1> QED BY <1>6, <1>7, <1>8, <1>10 DEF IdentityInv

\* Removed is the phone, or the device that is permanent; or neither of the
\* rows it is or will be known by.
LEMMA RemovedKeeps ==
  ASSUME IdentityInv, NEW c \in home, NEW d \in Device, Removed(c, d)
  PROVE  IdentityInv'
<1>1. /\ peers' = [peers EXCEPT ![c] = @ \ Row(c, d)]
      /\ upset' = IF \E p \in Row(c, d) : d = me \/ p.print = Permanent THEN upset \cup {c} ELSE upset
      /\ UNCHANGED <<home, setups, me, print, told, own, as, doing, same, pairings>>
  BY DEF Removed, phone
<1>2. IdentityTypeOK /\ c \in Computer
  BY DEF IdentityInv, IdentityTypeOK
<1>3. peers' \in [Computer -> SUBSET Trusting] /\ peers'[c] = peers[c] \ Row(c, d)
      /\ \A e \in Computer : e # c => peers'[e] = peers[e]
  BY <1>1, <1>2 DEF IdentityTypeOK
<1>4. IdentityTypeOK'
  BY <1>1, <1>2, <1>3 DEF IdentityTypeOK
<1>5. OneRowEach'
  BY <1>3 DEF IdentityInv, OneRowEach
<1>6. PassesAsItIs'
  BY <1>1 DEF IdentityInv, PassesAsItIs
<1>7. ASSUME NEW e \in Computer, NEW f, NEW i, e \notin upset', i = me \/ f = Permanent, Has(e, f, i)
      PROVE  Has(e, f, i)'
  <2>1. PICK p \in peers[e] : p.print = f /\ p.id = i
    BY <1>7 DEF Has
  <2>2. p \in peers'[e]
    BY <1>1, <1>3, <1>7, <2>1 DEF Row
  <2> QED BY <2>1, <2>2 DEF Has
<1>8. KnownMeanwhile'
  BY <1>1, <1>2, <1>7 DEF IdentityInv, KnownMeanwhile, IdentityTypeOK
<1> QED BY <1>4, <1>5, <1>6, <1>8 DEF IdentityInv

LEMMA SetUpAgainKeeps ==
  ASSUME IdentityBounds, IdentityInv, SetUpAgain
  PROVE  IdentityInv'
<1>1. /\ setups < MaxSetUps
      /\ setups' = setups + 1 /\ me' = setups + 1 /\ print' = setups + 1 /\ as' = setups + 1
      /\ own' = {} /\ doing' = Idle /\ UNCHANGED <<home, peers, same, pairings>>
  BY DEF SetUpAgain, computers
<1>2. setups + 1 \in Device /\ setups + 1 \in Certificate
  BY <1>1 DEF IdentityBounds, IdentityInv, IdentityTypeOK, Device, Certificate
<1>3. IdentityTypeOK'
  BY <1>1, <1>2 DEF IdentityInv, IdentityTypeOK, Doing, Idle
<1> QED BY <1>1, <1>3 DEF IdentityInv, OneRowEach, PassesAsItIs, KnownMeanwhile, Idle

\* Request::Become: of the two certificates of the phone, the computer has
\* rows after it.
LEMMA TellKeeps ==
  ASSUME IdentityBounds, IdentityInv, Tell
  PROVE  IdentityInv'
<1>0. PICK c : c = doing.c
  OBVIOUS
<1>1. PICK asker \in KnownBy(c, as) :
        /\ ServeBecome(c, asker)
        /\ doing' = [at |-> "told", c |-> c, id |-> Answered(c, asker)]
  BY <1>0 DEF Tell
<1>2. /\ doing.at = "reached" /\ print # Permanent
      /\ UNCHANGED <<home, setups, me, print, told, own, as, pairings, upset>>
  BY DEF Tell
<1>3. IdentityTypeOK /\ c \in Computer /\ c \in own /\ as = print
  BY <1>0, <1>2, DoingFields DEF IdentityInv, IdentityTypeOK, PassesAsItIs
<1>4. asker \in peers[c] /\ asker.print = print /\ asker \in Trusting
  BY <1>3 DEF KnownBy, IdentityTypeOK
<1>5. ASSUME own = {c}, c \notin upset PROVE asker.id = me
  <2>1. Has(c, print, me)
    BY <1>2, <1>5 DEF IdentityInv, KnownMeanwhile
  <2> QED BY <1>3, <1>4, <2>1 DEF IdentityInv, OneRowEach, Has
<1>6. CASE KnownBy(c, Permanent) = {}
  <2> DEFINE turned == [asker EXCEPT !.print = Permanent]
  <2>1. peers' = [peers EXCEPT ![c] = (peers[c] \ {asker}) \cup {turned}] /\ same' = same
        /\ Answered(c, asker) = asker.id
    BY <1>1, <1>6 DEF ServeBecome, Answered
  <2>2. turned \in Trusting /\ turned.print = Permanent /\ turned.id = asker.id
    <3>1. Permanent \in Certificate
      BY IdentityBounds DEF IdentityBounds, Permanent, Certificate
    <3> QED BY <1>4, <3>1 DEF Trusting
  <2> HIDE DEF turned
  <2>3. peers' \in [Computer -> SUBSET Trusting] /\ peers'[c] = (peers[c] \ {asker}) \cup {turned}
        /\ \A e \in Computer : e # c => peers'[e] = peers[e]
    BY <1>3, <2>1, <2>2 DEF IdentityTypeOK
  <2>4. IdentityTypeOK'
    <3>1. doing' \in Doing
      BY <1>1, <1>3, <1>4, <2>1 DEF Doing, Trusting
    <3> QED BY <1>2, <1>3, <2>1, <2>3, <3>1 DEF IdentityTypeOK
  <2>5. OneRowEach'
    <3>1. \A p \in peers[c] : p.print # Permanent /\ (p.id = asker.id => p = asker)
      BY <1>3, <1>4, <1>6 DEF KnownBy, IdentityInv, OneRowEach
    <3> QED BY <1>3, <2>2, <2>3, <3>1 DEF IdentityInv, OneRowEach
  <2>6. PassesAsItIs'
    BY <1>1, <1>2, <1>3 DEF PassesAsItIs
  <2>7. KnownMeanwhile'
    <3>1. Has(c, Permanent, asker.id)'
      BY <2>2, <2>3 DEF Has
    <3> QED BY <1>1, <1>2, <1>3, <1>5, <2>1, <3>1 DEF KnownMeanwhile
  <2> QED BY <2>4, <2>5, <2>6, <2>7 DEF IdentityInv
<1>7. CASE KnownBy(c, Permanent) # {}
  <2>0. PICK one : one = CHOOSE p \in KnownBy(c, Permanent) : TRUE
    OBVIOUS
  <2>1. one \in KnownBy(c, Permanent)
    BY <1>7, <2>0
  <2>2. /\ peers' = peers /\ Answered(c, asker) = one.id
        /\ same' = same \/ same' = [same EXCEPT ![c][asker.id] = one.id]
    BY <1>1, <1>7, <2>0 DEF ServeBecome, Answered
  <2>3. one \in peers[c] /\ one.print = Permanent /\ one.id \in Device
    BY <1>3, <2>1 DEF KnownBy, IdentityTypeOK, Trusting
  <2>4. IdentityTypeOK'
    <3>1. doing' \in Doing
      BY <1>1, <1>3, <2>2, <2>3 DEF Doing
    <3>2. same' \in [Computer -> [Device -> 0..MaxSetUps]]
      <4>1. one.id \in 0..MaxSetUps
        BY <2>3 DEF Device
      <4>2. same \in [Computer -> [Device -> 0..MaxSetUps]]
        BY <1>3 DEF IdentityTypeOK
      <4>3. [same[c] EXCEPT ![asker.id] = one.id] \in [Device -> 0..MaxSetUps]
        BY <1>3, <4>1, <4>2
      <4> QED BY <1>3, <2>2, <4>2, <4>3
    <3> QED BY <1>2, <1>3, <2>2, <3>1, <3>2 DEF IdentityTypeOK
  <2>5. OneRowEach'
    BY <2>2 DEF IdentityInv, OneRowEach
  <2>6. PassesAsItIs'
    BY <1>1, <1>2, <1>3 DEF PassesAsItIs
  <2>7. KnownMeanwhile'
    <3>1. Has(c, Permanent, one.id)'
      BY <2>2, <2>3 DEF Has
    <3>2. own = {c} /\ c \notin upset => Has(c, print, me)'
      BY <1>2, <2>2 DEF IdentityInv, KnownMeanwhile, Has
    <3> QED BY <1>1, <1>2, <1>3, <2>2, <3>1, <3>2 DEF KnownMeanwhile
  <2> QED BY <2>4, <2>5, <2>6, <2>7 DEF IdentityInv
<1> QED BY <1>6, <1>7

\* The rest of become_permanent, on the phone.
LEMMA BecomingKeeps ==
  ASSUME IdentityBounds, IdentityInv, NothingToTell \/ Stopped \/ Adopt \/ Note \/ Switch
  PROVE  IdentityInv'
<1>1. UNCHANGED <<home, own, setups, peers, same, pairings, as>>
  BY DEF NothingToTell, Stopped, Adopt, Note, Switch, computers
<1>2. IdentityTypeOK /\ doing \in Doing
  BY DEF IdentityInv, IdentityTypeOK
<1>3. doing.at # "idle" /\ doing.c \in own /\ doing.c \in Computer
  <2>1. doing.at # "idle"
    BY DEF NothingToTell, Stopped, Adopt, Note, Switch
  <2> QED BY <1>2, <2>1, DoingFields DEF IdentityInv, PassesAsItIs
<1>4. CASE NothingToTell
  <2>1. /\ doing.at = "reached" /\ doing' = [at |-> "syncing", c |-> doing.c]
        /\ UNCHANGED <<me, print, told, upset>>
    BY <1>4 DEF NothingToTell
  <2>2. doing' \in Doing
    BY <1>3, <2>1 DEF Doing
  <2>3. PassesAsItIs'
    BY <1>1, <1>3, <2>1 DEF IdentityInv, PassesAsItIs
  <2>4. KnownMeanwhile'
    BY <1>1, <2>1 DEF IdentityInv, KnownMeanwhile, Has
  <2> QED BY <1>1, <1>2, <2>1, <2>2, <2>3, <2>4, PhoneMovesKeeps DEF IdentityTypeOK
<1>5. CASE Stopped
  <2>1. doing' = Idle /\ upset' = upset \cup {doing.c} /\ UNCHANGED <<me, print, told>>
    BY <1>5 DEF Stopped
  <2>2. doing' \in Doing
    BY <2>1 DEF Doing, Idle
  <2>3. PassesAsItIs'
    BY <1>1, <2>1 DEF IdentityInv, PassesAsItIs, Idle
  <2>4. KnownMeanwhile'
    BY <1>1, <1>3, <2>1 DEF KnownMeanwhile
  <2> QED BY <1>1, <1>2, <2>1, <2>2, <2>3, <2>4, PhoneMovesKeeps DEF IdentityTypeOK
<1>6. CASE Adopt
  <2>1. doing.at = "told" /\ UNCHANGED <<print, told, upset>> /\ doing.id \in Device
    BY <1>2, <1>6, DoingFields DEF Adopt
  <2>2. \/ me' = doing.id /\ \E once \in BOOLEAN : doing' = [at |-> "adopted", c |-> doing.c, once |-> once]
        \/ me' = me /\ doing.id # me /\ doing' = [at |-> "refused", c |-> doing.c]
    BY <1>6 DEF Adopt
  <2>3. doing' \in Doing /\ doing'.at \in {"adopted", "refused"} /\ doing'.c = doing.c /\ me' \in Device
    BY <1>2, <1>3, <2>1, <2>2 DEF Doing, IdentityTypeOK
  <2>4. PassesAsItIs'
    BY <1>1, <1>3, <2>1, <2>3 DEF IdentityInv, PassesAsItIs
  <2>5. KnownMeanwhile'
    BY <1>1, <2>1, <2>2 DEF IdentityInv, KnownMeanwhile, Has
  <2> QED BY <1>1, <1>2, <2>1, <2>3, <2>4, <2>5, PhoneMovesKeeps DEF IdentityTypeOK
<1>7. CASE Note
  <2>1. /\ told' = told \cup {doing.c} /\ UNCHANGED <<me, print, upset>>
        /\ \/ doing.at = "refused" /\ doing' = [at |-> "syncing", c |-> doing.c]
           \/ /\ doing.at = "adopted" /\ doing.once \in BOOLEAN
              /\ doing' = [at |-> "noted", c |-> doing.c, once |-> doing.once]
    BY <1>2, <1>7, DoingFields DEF Note
  <2>2. doing' \in Doing /\ doing'.c = doing.c
    BY <1>3, <2>1 DEF Doing
  <2>3. PassesAsItIs'
    BY <1>1, <1>3, <2>1, <2>2 DEF IdentityInv, PassesAsItIs
  <2>4. KnownMeanwhile'
    BY <1>1, <1>3, <2>1 DEF IdentityInv, KnownMeanwhile, Has
  <2> QED BY <1>1, <1>2, <2>1, <2>2, <2>3, <2>4, PhoneMovesKeeps DEF IdentityTypeOK
<1>8. CASE Switch
  <2>1. /\ doing.at = "noted" /\ UNCHANGED <<me, told, upset>>
        /\ doing' = [at |-> "syncing", c |-> doing.c]
        /\ print' = IF doing.once \/ ~Waiting THEN Permanent ELSE print
    BY <1>8 DEF Switch
  <2>2. doing' \in Doing
    BY <1>3, <2>1 DEF Doing
  <2>3. print' \in Certificate
    BY <1>2, <2>1, IdentityBounds DEF IdentityTypeOK, IdentityBounds, Permanent, Certificate
  <2>4. PassesAsItIs'
    BY <1>1, <1>3, <2>1 DEF IdentityInv, PassesAsItIs
  <2>5. KnownMeanwhile'
    <3>1. ASSUME NEW c \in own, own = {c}, c \notin upset PROVE Has(c, Permanent, me) /\ ~Waiting
      BY <2>1, <3>1 DEF IdentityInv, KnownMeanwhile, Waiting
    <3> QED BY <1>1, <2>1, <3>1 DEF KnownMeanwhile, Has
  <2> QED BY <1>1, <1>2, <2>1, <2>2, <2>3, <2>4, <2>5, PhoneMovesKeeps DEF IdentityTypeOK
<1> QED BY <1>4, <1>5, <1>6, <1>7, <1>8

LEMMA IdentityStep ==
  ASSUME IdentityBounds, IdentityInv, [Next]_vars
  PROVE  IdentityInv'
<1>1. CASE IdentityNext
  BY <1>1, IdentityBounds, PairWithKeeps, PassKeeps, SyncedByKeeps, RemovedKeeps, SetUpAgainKeeps, TellKeeps,
     BecomingKeeps DEF IdentityNext, AtAComputer, BecomePermanent
<1>2. CASE UNCHANGED identityVars
  <2>1. UNCHANGED <<home, setups, me, print, told, own, as, doing, peers, same, pairings, upset>>
    BY <1>2 DEF identityVars, phone, computers
  <2> QED BY <2>1 DEF IdentityInv, IdentityTypeOK, OneRowEach, PassesAsItIs, KnownMeanwhile, Has
<1>3. [Next]_vars => IdentityNext \/ UNCHANGED identityVars
  BY DEF Next, Own, Keeping, Asked, Passing, Fetches, Backups, vars
<1> QED BY <1>1, <1>2, <1>3

\* become_permanent and Request::Become leave a phone with one computer known
\* to it, as the device it is and by the certificate it presents.
THEOREM TheOnlyOneKnowsIt == Spec => []KnownToTheOnlyOne
<1>1. Init => IdentityInv
  <2>1. Init => \E cs \in SUBSET Computer : IdentityInit(cs)
    <3>1. (IF world = "own" THEN Homes ELSE {{}}) \subseteq SUBSET Computer
      BY WorldsAssumption DEF WorldsAssumption
    <3> QED BY <3>1 DEF Init
  <2> QED BY <2>1, IdentityStarts, IdentityBounds
<1>2. IdentityInv /\ [Next]_vars => IdentityInv'
  BY IdentityStep, IdentityBounds
<1>3. IdentityInv => KnownToTheOnlyOne
  BY DEF IdentityInv, KnownMeanwhile, KnownToTheOnlyOne, Has
<1> QED BY <1>1, <1>2, <1>3, PTL DEF Spec

-----------------------------------------------------------------------------
(* Identity: no device became, through others, what it was before.         *)

\* What the only computer was told an older device is, is the one it knows by
\* the permanent certificate, of which it was told nothing; and nothing of any
\* once the phone of this set-up is that one.
SaidOfTheHolder(c) ==
    /\ \A d \in Device : same[c][d] # NoDevice => Has(c, Permanent, same[c][d])
    /\ \A p \in peers[c] : p.print = Permanent => same[c][p.id] = NoDevice
    /\ Has(c, Permanent, setups) => \A d \in Device : same[c][d] = NoDevice

\* A phone that is another device than it was set up as was told so by that
\* computer, which has both.
AsItPassed(c) ==
    /\ print \in {setups, Permanent}
    /\ print = Permanent => Has(c, Permanent, me)
    /\ me # setups => Has(c, Permanent, me) /\ Has(c, setups, setups)
    /\ doing.at = "told" => Has(c, Permanent, doing.id) /\ (doing.id # setups => Has(c, setups, setups))
    /\ doing.at \in {"adopted", "noted"} => Has(c, Permanent, me)

RowsSoFar(c) ==
    \A p \in peers[c] : p.id <= setups /\ p.print <= setups /\ p.paired <= pairings
                        /\ (p.print = setups => p.id = setups)

AtTheOnlyOne(c) ==
    /\ \A e \in Computer \ {c} : peers[e] = {}
    /\ own \subseteq {c}
    /\ SaidOfTheHolder(c) /\ AsItPassed(c) /\ RowsSoFar(c)

OnlyOneInv ==
    /\ removals \in Nat
    /\ \A c \in Computer : home = {c} /\ removals = 0 => AtTheOnlyOne(c)

LEMMA OnlyOneStarts ==
  ASSUME IdentityBounds, NEW cs \in SUBSET Computer, IdentityInit(cs)
  PROVE  OnlyOneInv
<1>1. ASSUME NEW c \in Computer PROVE AtTheOnlyOne(c)
  <2>1. peers = [e \in Computer |-> {}] /\ same[c] = [d \in Device |-> NoDevice]
        /\ setups = 1 /\ me = 1 /\ print = 1 /\ doing.at = "idle" /\ own = {}
    BY DEF IdentityInit, Idle
  <2> QED BY <2>1 DEF AtTheOnlyOne, SaidOfTheHolder, AsItPassed, RowsSoFar, Has, Permanent
<1> QED BY <1>1 DEF OnlyOneInv, IdentityInit

\* The phone moves on, and no computer.
LEMMA OnlyThePhone ==
  ASSUME NEW c \in Computer, AtTheOnlyOne(c), UNCHANGED <<own, setups, peers, same, pairings>>, AsItPassed(c)'
  PROVE  AtTheOnlyOne(c)'
BY DEF AtTheOnlyOne, SaidOfTheHolder, RowsSoFar, Has

\* A passing certificate is paired under the id it was made with: any other
\* would have been told by the computer, which has that certificate's row.
LEMMA PairsAsItPassed ==
  ASSUME IdentityBounds, IdentityInv, NEW c \in Computer, AtTheOnlyOne(c), PairWith(c)
  PROVE  AtTheOnlyOne(c)'
<1>1. /\ doing = Idle /\ \A p \in peers[c] : p.print = print => p.id = me
      /\ peers' = [peers EXCEPT ![c] = Trusted(c, me, print)]
      /\ pairings' = pairings + 1 /\ own' = own \cup {c}
      /\ UNCHANGED <<setups, me, print, doing, same>>
  BY DEF PairWith
<1>2. IdentityTypeOK /\ OneRowEach /\ setups # Permanent /\ setups \in Nat /\ pairings \in Nat
  <2>1. IdentityTypeOK /\ OneRowEach
    BY DEF IdentityInv
  <2>2. setups \in 1..MaxSetUps /\ pairings \in Nat /\ MaxSetUps \in Nat
    BY <2>1 DEF IdentityTypeOK, Device, IdentityBounds
  <2> QED BY <2>1, <2>2 DEF Permanent
<1>3. SaidOfTheHolder(c) /\ AsItPassed(c) /\ RowsSoFar(c)
  BY DEF AtTheOnlyOne
<1>4. peers'[c] = Trusted(c, me, print) /\ \A e \in Computer \ {c} : peers'[e] = {}
  BY <1>1, <1>2 DEF IdentityTypeOK, AtTheOnlyOne
<1>5. \A p \in peers[c] : p \in Trusting
  BY <1>2 DEF IdentityTypeOK
<1>6. ASSUME NEW r \in peers[c], r.id = me
      PROVE  /\ Row(c, me) = {r}
             /\ Trusted(c, me, print) = (peers[c] \ {r}) \cup {[r EXCEPT !.print = print]}
             /\ r.print = print => Trusted(c, me, print) = peers[c]
  <2>1. Row(c, me) = {r}
    BY <1>2, <1>6 DEF Row, OneRowEach
  <2>2. {[p EXCEPT !.print = print] : p \in {r}} = {[r EXCEPT !.print = print]}
    OBVIOUS
  <2>3. r.print = print => [r EXCEPT !.print = print] = r
    BY <1>5, <1>6 DEF Trusting
  <2>4. Trusted(c, me, print) = (peers[c] \ {r}) \cup {[r EXCEPT !.print = print]}
    BY <2>1, <2>2 DEF Trusted
  <2> QED BY <2>1, <2>3, <2>4
<1>7. \A p \in peers[c] : p.paired \in Nat /\ p.paired <= pairings
  BY <1>3, <1>5 DEF RowsSoFar, Trusting
<1>8. CASE peers'[c] = peers[c]
  <2>1. SaidOfTheHolder(c)'
    BY <1>1, <1>3, <1>8 DEF SaidOfTheHolder, Has
  <2>2. AsItPassed(c)'
    BY <1>1, <1>3, <1>8 DEF AsItPassed, Has
  <2>3. RowsSoFar(c)'
    BY <1>1, <1>2, <1>3, <1>7, <1>8 DEF RowsSoFar
  <2> QED BY <1>1, <1>4, <2>1, <2>2, <2>3 DEF AtTheOnlyOne
<1>9. CASE print = Permanent
  <2>1. PICK r \in peers[c] : r.print = Permanent /\ r.id = me
    BY <1>3, <1>9 DEF AsItPassed, Has
  <2> QED BY <1>4, <1>6, <1>8, <1>9, <2>1
<1>10. CASE print # Permanent /\ peers'[c] # peers[c]
  <2>1. print = setups /\ me = setups
    <3>1. print = setups
      BY <1>3, <1>10 DEF AsItPassed
    <3> QED BY <1>1, <1>3, <3>1 DEF AsItPassed, Has
  <2>2. /\ SaidOfTheHolder(c)'
        /\ RowsSoFar(c)'
    <3>1. CASE Row(c, me) = {}
      <4> DEFINE first == [id |-> me, print |-> print, paired |-> pairings + 1, seen |-> 0]
      <4>1. peers'[c] = peers[c] \cup {first}
        BY <1>4, <3>1 DEF Trusted
      <4>2. first.id = setups /\ first.print = setups /\ first.paired = pairings + 1
        BY <2>1
      <4> HIDE DEF first
      <4>3. ASSUME NEW f, NEW i PROVE /\ Has(c, f, i) => Has(c, f, i)'
                                      /\ f = Permanent /\ Has(c, f, i)' => Has(c, f, i)
        BY <1>2, <4>1, <4>2 DEF Has
      <4>4. SaidOfTheHolder(c)'
        BY <1>1, <1>2, <1>3, <4>1, <4>2, <4>3 DEF SaidOfTheHolder
      <4>5. RowsSoFar(c)'
        BY <1>1, <1>2, <1>3, <1>7, <4>1, <4>2 DEF RowsSoFar
      <4> QED BY <4>4, <4>5
    <3>2. CASE Row(c, me) # {}
      <4>1. PICK r \in peers[c] : r.id = me
        BY <3>2 DEF Row
      <4> DEFINE turned == [r EXCEPT !.print = print]
      <4>2. peers'[c] = (peers[c] \ {r}) \cup {turned}
        BY <1>4, <1>6, <4>1
      <4>3. turned.id = setups /\ turned.print = setups /\ turned.paired = r.paired
        BY <1>5, <2>1, <4>1 DEF Trusting
      <4> HIDE DEF turned
      <4>4. \A p \in peers'[c] : p.print = Permanent => p \in peers[c] /\ p # r
        BY <1>2, <4>2, <4>3
      <4>5. ~Has(c, Permanent, setups)'
        BY <1>1, <1>2, <2>1, <4>1, <4>4 DEF Has, OneRowEach
      <4>6. ASSUME NEW d \in Device, same[c][d] # NoDevice PROVE Has(c, Permanent, same[c][d])'
        <5>1. PICK p \in peers[c] : p.print = Permanent /\ p.id = same[c][d]
          BY <1>3, <4>6 DEF SaidOfTheHolder, Has
        <5>2. p # r
          BY <1>3, <2>1, <4>1, <4>6, <5>1 DEF SaidOfTheHolder, Has
        <5>3. p \in peers'[c] /\ same'[c][d] = same[c][d]
          BY <1>1, <4>2, <5>1, <5>2
        <5> QED BY <1>1, <5>1, <5>3 DEF Has
      <4>7. SaidOfTheHolder(c)'
        BY <1>1, <1>3, <4>4, <4>5, <4>6 DEF SaidOfTheHolder
      <4>8. RowsSoFar(c)'
        BY <1>1, <1>2, <1>3, <1>7, <4>1, <4>2, <4>3 DEF RowsSoFar
      <4> QED BY <4>7, <4>8
    <3> QED BY <3>1, <3>2
  <2>3. AsItPassed(c)'
    BY <1>1, <1>10, <2>1 DEF AsItPassed, Idle
  <2> QED BY <1>1, <1>4, <2>2, <2>3 DEF AtTheOnlyOne
<1> QED BY <1>8, <1>9, <1>10

LEMMA SeenAtTheOnlyOne ==
  ASSUME IdentityInv, NEW c \in Computer, AtTheOnlyOne(c), SyncedBy(c)
  PROVE  AtTheOnlyOne(c)'
<1> DEFINE Seen(p) == IF p.print = as THEN [p EXCEPT !.seen = pairings] ELSE p
<1>1. peers' = [peers EXCEPT ![c] = {Seen(p) : p \in peers[c]}] /\ UNCHANGED <<phone, same, pairings>>
  BY DEF SyncedBy, IdentityInv, IdentityTypeOK
<1>2. UNCHANGED <<setups, me, print, own, doing, same, pairings>>
  BY <1>1 DEF phone
<1>3. \A p \in peers[c] : Seen(p).id = p.id /\ Seen(p).print = p.print /\ Seen(p).paired = p.paired
  <2>1. ASSUME NEW p \in Trusting
        PROVE  /\ [p EXCEPT !.seen = pairings].id = p.id /\ [p EXCEPT !.seen = pairings].print = p.print
               /\ [p EXCEPT !.seen = pairings].paired = p.paired
    BY DEF Trusting
  <2> QED BY <2>1 DEF IdentityInv, IdentityTypeOK
<1> HIDE DEF Seen
<1>4. peers'[c] = {Seen(p) : p \in peers[c]} /\ \A e \in Computer \ {c} : peers'[e] = {}
  BY <1>1 DEF IdentityInv, IdentityTypeOK, AtTheOnlyOne
<1>5. ASSUME NEW f, NEW i PROVE Has(c, f, i) <=> Has(c, f, i)'
  BY <1>3, <1>4 DEF Has
<1>6. SaidOfTheHolder(c)'
  BY <1>2, <1>3, <1>4, <1>5 DEF AtTheOnlyOne, SaidOfTheHolder
<1>7. AsItPassed(c)'
  BY <1>2, <1>5 DEF AtTheOnlyOne, AsItPassed
<1>8. RowsSoFar(c)'
  BY <1>2, <1>3, <1>4 DEF AtTheOnlyOne, RowsSoFar
<1> QED BY <1>2, <1>4, <1>6, <1>7, <1>8 DEF AtTheOnlyOne

LEMMA SetUpBeforeTheOnlyOne ==
  ASSUME IdentityBounds, IdentityInv, NEW c \in Computer, AtTheOnlyOne(c), SetUpAgain
  PROVE  AtTheOnlyOne(c)'
<1>1. /\ setups' = setups + 1 /\ me' = setups + 1 /\ print' = setups + 1
      /\ own' = {} /\ doing' = Idle /\ UNCHANGED <<peers, same, pairings>>
  BY DEF SetUpAgain, computers
<1>2. setups \in Nat /\ \A p \in peers[c] : p.id \in Nat /\ p.print \in Nat /\ p.id <= setups /\ p.print <= setups
  BY DEF IdentityInv, IdentityTypeOK, Trusting, Device, Certificate, AtTheOnlyOne, RowsSoFar
<1>3. \A p \in peers[c] : p.id # setups' /\ p.print # setups' /\ p.id <= setups' /\ p.print <= setups'
  BY <1>1, <1>2
<1>4. SaidOfTheHolder(c)'
  BY <1>1, <1>3 DEF AtTheOnlyOne, SaidOfTheHolder, Has
<1>5. AsItPassed(c)'
  BY <1>1, <1>2 DEF AsItPassed, Idle, Permanent
<1>6. RowsSoFar(c)'
  BY <1>1, <1>3 DEF AtTheOnlyOne, RowsSoFar
<1> QED BY <1>1, <1>4, <1>5, <1>6 DEF AtTheOnlyOne

\* Request::Become: the device that asks is the one of this set-up.
LEMMA ToldByTheOnlyOne ==
  ASSUME IdentityBounds, IdentityInv, NEW c \in Computer, AtTheOnlyOne(c), Tell
  PROVE  AtTheOnlyOne(c)'
<1>1. IdentityTypeOK /\ OneRowEach /\ setups # Permanent /\ setups \in Device
  <2>1. IdentityTypeOK /\ OneRowEach
    BY DEF IdentityInv
  <2>2. setups \in Device /\ MaxSetUps \in Nat
    BY <2>1 DEF IdentityTypeOK, IdentityBounds
  <2> QED BY <2>1, <2>2 DEF Device, Permanent
<1>2. SaidOfTheHolder(c) /\ AsItPassed(c) /\ RowsSoFar(c)
  BY DEF AtTheOnlyOne
<1>3. doing.at = "reached" /\ print = setups /\ as = setups /\ UNCHANGED <<setups, me, print, own, pairings>>
  BY <1>2 DEF Tell, IdentityInv, PassesAsItIs, AsItPassed
<1>4. doing.c = c
  BY <1>3 DEF IdentityInv, PassesAsItIs, AtTheOnlyOne
<1>5. PICK asker \in KnownBy(c, as) :
        /\ ServeBecome(c, asker)
        /\ doing' = [at |-> "told", c |-> c, id |-> Answered(c, asker)]
  BY <1>4 DEF Tell
<1>6. asker \in peers[c] /\ asker.print = setups /\ asker.id = setups /\ asker \in Trusting
  BY <1>1, <1>2, <1>3 DEF KnownBy, RowsSoFar, IdentityTypeOK
<1>7. CASE KnownBy(c, Permanent) = {}
  <2> DEFINE turned == [asker EXCEPT !.print = Permanent]
  <2>1. peers' = [peers EXCEPT ![c] = (peers[c] \ {asker}) \cup {turned}] /\ same' = same
        /\ Answered(c, asker) = setups
    BY <1>5, <1>6, <1>7 DEF ServeBecome, Answered
  <2>2. turned.print = Permanent /\ turned.id = setups /\ turned.paired = asker.paired
    BY <1>6 DEF Trusting
  <2> HIDE DEF turned
  <2>3. peers'[c] = (peers[c] \ {asker}) \cup {turned} /\ \A e \in Computer \ {c} : peers'[e] = {}
    BY <1>1, <2>1 DEF IdentityTypeOK, AtTheOnlyOne
  <2>4. \A i : ~Has(c, Permanent, i)
    BY <1>7 DEF KnownBy, Has
  <2>5. \A d \in Device : same[c][d] = NoDevice
    BY <1>2, <2>4 DEF SaidOfTheHolder
  <2>6. Has(c, Permanent, setups)'
    BY <1>3, <2>2, <2>3 DEF Has
  <2>7. SaidOfTheHolder(c)'
    <3>1. \A p \in peers'[c] : p.id \in Device
      BY <1>1, <1>6, <2>2, <2>3 DEF IdentityTypeOK, Trusting
    <3> QED BY <2>1, <2>5, <3>1 DEF SaidOfTheHolder
  <2>8. AsItPassed(c)'
    <3>1. me = setups
      BY <1>2, <2>4 DEF AsItPassed
    <3> QED BY <1>1, <1>3, <1>5, <2>1, <2>6, <3>1 DEF AsItPassed
  <2>9. RowsSoFar(c)'
    <3>1. Permanent <= setups /\ setups <= setups
      BY <1>1 DEF Permanent, Device
    <3> QED BY <1>1, <1>2, <1>3, <1>6, <2>2, <2>3, <3>1 DEF RowsSoFar
  <2> QED BY <1>3, <2>3, <2>7, <2>8, <2>9 DEF AtTheOnlyOne
<1>8. CASE KnownBy(c, Permanent) # {}
  <2>0. PICK one : one = CHOOSE p \in KnownBy(c, Permanent) : TRUE
    OBVIOUS
  <2>1. one \in peers[c] /\ one.print = Permanent /\ one.id # setups
    <3>1. one \in KnownBy(c, Permanent)
      BY <1>8, <2>0
    <3> QED BY <1>1, <1>6, <3>1 DEF KnownBy, OneRowEach
  <2>2. /\ peers' = peers /\ Answered(c, asker) = one.id
        /\ same' = [same EXCEPT ![c][setups] = one.id]
    BY <1>1, <1>5, <1>6, <1>8, <2>0 DEF ServeBecome, Answered, KnownBy
  <2>3. same'[c] = [same[c] EXCEPT ![setups] = one.id] /\ same[c] \in [Device -> 0..MaxSetUps]
    BY <1>1, <2>2 DEF IdentityTypeOK
  <2>4. same'[c][setups] = one.id /\ \A d \in Device : d # setups => same'[c][d] = same[c][d]
    BY <1>1, <2>3
  <2>5. \A f, i : Has(c, f, i)' <=> \E p \in peers[c] : p.print = f /\ p.id = i
    BY <2>2 DEF Has
  <2>6. \A p \in peers[c] : p.print = Permanent => p.id # setups /\ p.id \in Device
    BY <1>1, <2>1 DEF OneRowEach, IdentityTypeOK, Trusting
  <2>7. SaidOfTheHolder(c)'
    <3>1. ASSUME NEW d \in Device, same'[c][d] # NoDevice PROVE Has(c, Permanent, same[c][d])'
      BY <1>2, <2>1, <2>2, <2>4, <3>1 DEF SaidOfTheHolder, Has
    <3>2. \A p \in peers'[c] : p.print = Permanent => same'[c][p.id] = NoDevice
      BY <1>2, <2>2, <2>4, <2>6 DEF SaidOfTheHolder
    <3>3. ~Has(c, Permanent, setups)'
      BY <1>3, <2>2, <2>6 DEF Has
    <3> QED BY <3>1, <3>2, <3>3 DEF SaidOfTheHolder
  <2>8. AsItPassed(c)'
    <3>1. Has(c, Permanent, one.id)' /\ Has(c, setups, setups)'
      BY <1>3, <1>6, <2>1, <2>2 DEF Has
    <3>2. me # setups => Has(c, Permanent, me)'
      BY <1>2, <1>3, <2>2 DEF AsItPassed, Has
    <3> QED BY <1>1, <1>3, <1>5, <2>2, <3>1, <3>2 DEF AsItPassed
  <2>9. RowsSoFar(c)'
    BY <1>2, <1>3, <2>2 DEF RowsSoFar
  <2> QED BY <1>3, <2>2, <2>7, <2>8, <2>9 DEF AtTheOnlyOne
<1> QED BY <1>7, <1>8

LEMMA BecomesAtTheOnlyOne ==
  ASSUME IdentityInv, NEW c \in Computer, AtTheOnlyOne(c), NothingToTell \/ Stopped \/ Adopt \/ Note \/ Switch
  PROVE  AtTheOnlyOne(c)'
<1>1. UNCHANGED <<own, setups, peers, same, pairings>>
  BY DEF NothingToTell, Stopped, Adopt, Note, Switch, computers
<1>2. AsItPassed(c) /\ doing \in Doing
  BY DEF AtTheOnlyOne, IdentityInv, IdentityTypeOK
<1>3. \A f, i : Has(c, f, i)' <=> \E p \in peers[c] : p.print = f /\ p.id = i
  BY <1>1 DEF Has
<1>4. CASE NothingToTell \/ Stopped
  <2>1. doing'.at \in {"syncing", "idle"} /\ UNCHANGED <<me, print>>
    <3>1. CASE NothingToTell
      BY <3>1 DEF NothingToTell
    <3>2. CASE Stopped
      BY <3>2 DEF Stopped, Idle
    <3> QED BY <1>4, <3>1, <3>2
  <2> QED BY <1>1, <1>2, <2>1, OnlyThePhone DEF AsItPassed, Has
<1>5. CASE Adopt
  <2>1. doing.at = "told" /\ print' = print
        /\ \/ me' = doing.id /\ doing'.at = "adopted"
           \/ me' = me /\ doing'.at = "refused"
    BY <1>5 DEF Adopt
  <2> QED BY <1>1, <1>2, <2>1, OnlyThePhone DEF AsItPassed, Has
<1>6. CASE Note
  <2>1. UNCHANGED <<me, print>>
        /\ \/ doing'.at = "syncing"
           \/ doing.at = "adopted" /\ doing'.at = "noted"
    BY <1>2, <1>6, DoingFields DEF Note
  <2> QED BY <1>1, <1>2, <2>1, OnlyThePhone DEF AsItPassed, Has
<1>7. CASE Switch
  <2>1. doing.at = "noted" /\ doing'.at = "syncing" /\ me' = me /\ print' \in {print, Permanent}
    BY <1>7 DEF Switch
  <2> QED BY <1>1, <1>2, <2>1, OnlyThePhone DEF AsItPassed, Has
<1> QED BY <1>4, <1>5, <1>6, <1>7

LEMMA PassesAtTheOnlyOne ==
  ASSUME NEW c \in Computer, AtTheOnlyOne(c), BeginPass \/ PassEnds \/ (\E e \in home : Reach(e)) \/ Make
         \/ MonthPasses \/ \E e \in home : RefreshTrust(e)
  PROVE  AtTheOnlyOne(c)'
<1>1. UNCHANGED <<own, setups, peers, same, pairings, me, print>>
  BY DEF BeginPass, PassEnds, Reach, Make, MonthPasses, RefreshTrust, computers, phone
<1>2. doing' = doing \/ doing'.at \in {"idle", "reached"}
  <2>1. CASE PassEnds
    BY <2>1 DEF PassEnds, Idle
  <2>2. CASE \E e \in home : Reach(e)
    BY <2>2 DEF Reach
  <2> QED BY <2>1, <2>2 DEF BeginPass, Make, MonthPasses, RefreshTrust, phone
<1>3. AsItPassed(c)'
  BY <1>1, <1>2 DEF AtTheOnlyOne, AsItPassed, Has
<1> QED BY <1>1, <1>3, OnlyThePhone

LEMMA OnlyOneStep ==
  ASSUME IdentityBounds, IdentityInv, OnlyOneInv, [Next]_vars
  PROVE  OnlyOneInv'
<1>1. [Next]_vars => IdentityNext \/ UNCHANGED identityVars
  BY DEF Next, Own, Keeping, Asked, Passing, Fetches, Backups, vars
<1>2. CASE UNCHANGED identityVars
  <2>1. UNCHANGED <<home, setups, me, print, own, doing, peers, same, pairings, removals>>
    BY <1>2 DEF identityVars, phone, computers
  <2> QED BY <2>1 DEF OnlyOneInv, AtTheOnlyOne, SaidOfTheHolder, AsItPassed, RowsSoFar, Has
<1>3. CASE \E e \in home, d \in Device : Removed(e, d)
  <2>1. removals' = removals + 1 /\ removals \in Nat
    BY <1>3 DEF Removed, OnlyOneInv
  <2> QED BY <2>1 DEF OnlyOneInv
<1>4. CASE IdentityNext /\ ~\E e \in home, d \in Device : Removed(e, d)
  <2>1. UNCHANGED <<home, removals>>
    BY <1>4 DEF IdentityNext, AtAComputer, BecomePermanent, PairWith, Reach, SyncedBy, RefreshTrust, Tell,
       NothingToTell, Stopped, Adopt, Note, Switch, BeginPass, MonthPasses, SetUpAgain, Make, PassEnds, phone
  <2>2. ASSUME NEW c \in Computer, home = {c}, AtTheOnlyOne(c) PROVE AtTheOnlyOne(c)'
    <3>1. CASE \E e \in home : PairWith(e)
      BY <2>2, <3>1, IdentityBounds, PairsAsItPassed
    <3>2. CASE \E e \in home : SyncedBy(e)
      BY <2>2, <3>2, SeenAtTheOnlyOne
    <3> QED BY <1>4, <2>2, <3>1, <3>2, IdentityBounds, SetUpBeforeTheOnlyOne, ToldByTheOnlyOne,
               BecomesAtTheOnlyOne, PassesAtTheOnlyOne DEF IdentityNext, AtAComputer, BecomePermanent
  <2> QED BY <2>1, <2>2 DEF OnlyOneInv
<1> QED BY <1>1, <1>2, <1>3, <1>4

\* Of any devices of the only computer one became none of them: if each was
\* said to be another, the one that holds the permanent certificate is not
\* among them; and otherwise the one paired last of which nothing was said.
LEMMA OneBecameNone ==
  ASSUME IdentityInv, NEW c \in Computer, AtTheOnlyOne(c), NEW S \in SUBSET peers[c], S # {}
  PROVE  \E p \in S : Became(c, p) \cap S = {}
<1>1. OneRowEach /\ pairings \in Nat /\ \A p \in peers[c] : p.paired \in Nat /\ p.id \in Device /\ p.paired <= pairings
  BY DEF IdentityInv, IdentityTypeOK, Trusting, AtTheOnlyOne, RowsSoFar
<1>2. SaidOfTheHolder(c)
  BY DEF AtTheOnlyOne
<1> DEFINE U == {p \in S : same[c][p.id] = NoDevice}
<1>3. CASE U = {}
  <2>1. PICK p \in S : TRUE
    OBVIOUS
  <2>2. same[c][p.id] # NoDevice /\ Became(c, p) = {q \in peers[c] : q.id = same[c][p.id]}
    BY <1>3, <2>1 DEF Became
  <2>3. PICK h \in peers[c] : h.print = Permanent /\ h.id = same[c][p.id]
    BY <1>1, <1>2, <2>1, <2>2 DEF SaidOfTheHolder, Has
  <2>4. h \notin S
    BY <1>2, <1>3, <2>3 DEF SaidOfTheHolder
  <2>5. Became(c, p) \subseteq {h}
    BY <1>1, <2>2, <2>3 DEF OneRowEach
  <2> QED BY <2>1, <2>4, <2>5
<1>4. CASE U # {}
  <2> DEFINE T == {pairings - p.paired : p \in U}
  <2>1. T \in SUBSET Nat /\ T # {}
    BY <1>1, <1>4
  <2>2. PICK m \in T : \A n \in T : m <= n
    <3> HIDE DEF T
    <3> QED BY <2>1, LeastNatural
  <2>3. PICK p \in U : m = pairings - p.paired
    BY <2>2
  <2>4. \A q \in U : q.paired <= p.paired
    <3>1. \A q \in U : pairings - p.paired <= pairings - q.paired
      BY <2>2, <2>3
    <3> QED BY <1>1, <2>3, <3>1
  <2>5. ASSUME NEW q \in Became(c, p), q \in S PROVE FALSE
    <3>1. q.paired > p.paired /\ same[c][q.id] = NoDevice
      BY <2>3, <2>5 DEF Became, Fits, PairedLater
    <3>2. q \in U /\ p \in peers[c] /\ q \in peers[c]
      BY <2>3, <2>5, <3>1
    <3> QED BY <1>1, <2>4, <3>1, <3>2
  <2> QED BY <2>3, <2>5
<1> QED BY <1>3, <1>4

\* A person with one computer, from which no device was removed, finds in every
\* list of became_among a device that is there now, however often the phone
\* was set up and whatever answers were lost.
THEOREM NoCyclesAtTheOnlyOne ==
  Spec => [](\A c \in Computer : home = {c} /\ removals = 0 => NoCycles)
<1>1. Init => IdentityInv /\ OnlyOneInv
  <2>1. Init => \E cs \in SUBSET Computer : IdentityInit(cs)
    <3>1. (IF world = "own" THEN Homes ELSE {{}}) \subseteq SUBSET Computer
      BY WorldsAssumption DEF WorldsAssumption
    <3> QED BY <3>1 DEF Init
  <2> QED BY <2>1, IdentityStarts, OnlyOneStarts, IdentityBounds
<1>2. (IdentityInv /\ OnlyOneInv) /\ [Next]_vars => (IdentityInv /\ OnlyOneInv)'
  BY IdentityStep, OnlyOneStep, IdentityBounds
<1>3. IdentityInv /\ OnlyOneInv => \A c \in Computer : home = {c} /\ removals = 0 => NoCycles
  <2> SUFFICES ASSUME IdentityInv, OnlyOneInv, NEW c \in Computer, home = {c}, removals = 0,
                      NEW e \in Computer, NEW S \in SUBSET peers[e], S # {}
               PROVE  \E p \in S : Became(e, p) \cap S = {}
    BY DEF NoCycles
  <2>1. AtTheOnlyOne(c)
    BY DEF OnlyOneInv
  <2>2. e = c
    BY <2>1 DEF AtTheOnlyOne
  <2> QED BY <2>1, <2>2, OneBecameNone
<1> QED BY <1>1, <1>2, <1>3, PTL DEF Spec
=============================================================================
