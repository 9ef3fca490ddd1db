-------------------------------- MODULE Pass --------------------------------
(***************************************************************************)
(* One sync pass of a phone: it reaches its devices, all at once, syncs    *)
(* with those that answer, one at a time, and stays to answer for what the *)
(* others still have to collect from it -- never past what the platform    *)
(* allows, and through being frozen by it.                                 *)
(*                                                                         *)
(* Modelled: sync_within, sync_serving, sync_inner and what they call in   *)
(* crates/mobile-ffi/src/lib.rs.                                           *)
(*                                                                         *)
(* Data.  Times are in looks, LOOK_EVERY apart; an instant is kept as the  *)
(* time since it, or until it.  What is to be collected is one file of     *)
(* each kind for_others counts, of any number of chunks.  What a sync      *)
(* itself does is in Sync, Identity, Openings and Sealed.                  *)
(***************************************************************************)
EXTENDS Naturals, FiniteSets

CONSTANTS
    Peer,          \* the devices trusted
    COLLECTING, PAUSED, LINGER, FROZEN,
    Budget,        \* the window
    Long,          \* how long a long pass may answer
    MaxFreeze,     \* bound: the longest freeze
    Lefts          \* what there is to collect, in the passes checked

ASSUME PassTimes ==
    /\ {COLLECTING, PAUSED, LINGER, FROZEN, Budget, Long, MaxFreeze} \subseteq Nat \ {0}
    /\ COLLECTING < PAUSED /\ LINGER <= PAUSED /\ FROZEN > 1 /\ Budget <= Long

Kind == {"send", "shared", "private", "backup"}

VARIABLES
    pass,       \* where sync_inner is: "ended" without staying, "over" after it
    serving,    \* how long the pass may answer, from its start
    calls,      \* where it is with each device
    timedOut,   \* outcome.timed_out
    askers,     \* devices to be asked again whether they want the folder opened
    heard,      \* asked_by: devices that asked this one something
    seen,       \* devices marked seen
    left,       \* the kinds of file still to be collected
    holder,     \* whether a device keeps this phone's files
    offered,    \* whether backups are offered: on Wi-Fi
    look,       \* what the look being taken has settled, and what it missed
    clock       \* the instants sync_inner and ServingStats keep

passVars == <<pass, serving, calls, timedOut, askers, heard, seen, left, holder, offered, look, clock>>

-----------------------------------------------------------------------------
(* Time.  clock.elapsed: since the pass started; served: since a chunk     *)
(* went; come: until come_by; excused: until then silence is; looked:      *)
(* since the last look.  History: silent, since a device last collected,   *)
(* the pass was frozen, or come_by gave one time to come: in a long pass,  *)
(* or where nobody had yet; shown, whether one collected or a freeze was   *)
(* noticed in this pass.                                                   *)

UpTo(n, t) == IF t > n THEN n ELSE t
Left(t, k) == IF t > k THEN t - k ELSE 0

Later(k) ==
    [clock EXCEPT !.elapsed = UpTo(Long + MaxFreeze, @ + k), !.served = UpTo(PAUSED + 1, @ + k),
                  !.come = Left(@, k), !.excused = Left(@, k), !.looked = UpTo(FROZEN, @ + k),
                  !.silent = UpTo(PAUSED, @ + k)]

Recently(window) == clock.served <= window

InTime == clock.elapsed < Budget

Going == pass \notin {"none", "ended", "over"}

\* look: whether, at the look, the pass was within serving, and had until
\* come_by or a freeze behind it to wait for; missed (history), frozen since.
NoLook == [allowed |-> FALSE, waits |-> FALSE, missed |-> FALSE]

\* The loop looks after every LOOK_EVERY.
Awake ==
    /\ Going /\ pass \notin {"looking", "deciding"}
    /\ clock' = Later(1)
    /\ pass' = IF pass = "staying" THEN "looking" ELSE pass
    /\ UNCHANGED <<serving, calls, timedOut, askers, heard, seen, left, holder, offered, look>>

\* trade_asks with each of askers, between a look and what it decides.
AsksTake ==
    /\ pass = "deciding" /\ askers # {} /\ clock.looked < FROZEN
    /\ clock' = Later(1)
    /\ UNCHANGED <<pass, serving, calls, timedOut, askers, heard, seen, left, holder, offered, look>>

Frozen(k) ==
    /\ Going /\ clock.elapsed < Long
    /\ clock' = [Later(k) EXCEPT
                   !.silent = IF pass \in {"staying", "looking", "deciding"} /\ k >= FROZEN THEN 0 ELSE @]
    /\ look' = [look EXCEPT !.missed = @ \/ (pass = "deciding" /\ k >= FROZEN)]
    /\ pass' = IF pass = "staying" THEN "looking" ELSE pass
    /\ UNCHANGED <<serving, calls, timedOut, askers, heard, seen, left, holder, offered>>

-----------------------------------------------------------------------------
(* Reaching the devices, and syncing with them.                            *)

\* sync_within, or sync_serving for longer than the window.
Start(allowed) ==
    /\ pass = "none"
    /\ pass' = "starting" /\ serving' = allowed
    /\ UNCHANGED <<calls, timedOut, askers, heard, seen, left, holder, offered, look, clock>>

\* Connector::start, bounded by the window: then every device at once.
StartFails ==
    /\ pass = "starting"
    /\ pass' = "ended"
    /\ UNCHANGED <<serving, calls, timedOut, askers, heard, seen, left, holder, offered, look, clock>>

Started ==
    /\ pass = "starting" /\ InTime
    /\ pass' = "reaching"
    /\ calls' = [p \in Peer |-> "reaching"]
    /\ UNCHANGED <<serving, timedOut, askers, heard, seen, left, holder, offered, look, clock>>

Answer(p) ==
    /\ calls[p] = "reaching" /\ InTime
    /\ calls' = [calls EXCEPT ![p] = "answered"]
    /\ UNCHANGED <<pass, serving, timedOut, askers, heard, seen, left, holder, offered, look, clock>>

\* Unreachable, or it went away while syncing.
Unreachable(p) ==
    /\ calls[p] \in {"reaching", "syncing"}
    /\ calls' = [calls EXCEPT ![p] = "unreachable"]
    /\ UNCHANGED <<pass, serving, timedOut, askers, heard, seen, left, holder, offered, look, clock>>

\* A device that answered is synced with if there is time left.
SyncReached(p) ==
    /\ calls[p] = "answered" /\ \A q \in Peer : calls[q] # "syncing"
    /\ calls' = [calls EXCEPT ![p] = IF InTime THEN "syncing" ELSE "left"]
    /\ timedOut' = (timedOut \/ ~InTime)
    /\ UNCHANGED <<pass, serving, askers, heard, seen, left, holder, offered, look, clock>>

\* sync_reached: it stops for time before the transfer, not during it.
Synced(p) ==
    /\ calls[p] = "syncing"
    /\ calls' = [calls EXCEPT ![p] = "synced"]
    /\ seen' = seen \cup {p} /\ askers' = askers \cup {p}
    /\ UNCHANGED <<pass, serving, timedOut, heard, left, holder, offered, look, clock>>

SyncRanOut(p) ==
    /\ calls[p] = "syncing" /\ ~InTime
    /\ calls' = [calls EXCEPT ![p] = "left"]
    /\ timedOut' = TRUE
    /\ \E answered \in BOOLEAN : seen' = IF answered THEN seen \cup {p} ELSE seen
    /\ UNCHANGED <<pass, serving, askers, heard, left, holder, offered, look, clock>>

-----------------------------------------------------------------------------
(* The others.                                                             *)

\* for_others: private files only when a device keeps them, backups only
\* while they are offered too.
ForOthers ==
    {k \in left : (k \in {"private", "backup"} => holder) /\ (k = "backup" => offered)}

\* A device dials in and takes a chunk of a file it is offered, perhaps its
\* last: ServingStats::asked_by and served.
Collect(p, k) ==
    /\ pass \in {"reaching", "announcing", "staying", "looking", "deciding"} /\ k \in ForOthers
    /\ heard' = heard \cup {p}
    /\ \E last \in BOOLEAN : left' = IF last THEN left \ {k} ELSE left
    /\ clock' = [clock EXCEPT !.served = 0, !.silent = 0, !.shown = TRUE]
    /\ UNCHANGED <<pass, serving, calls, timedOut, askers, seen, holder, offered, look>>

\* The phone's network changes from or to Wi-Fi.
NetworkChanges ==
    /\ Going /\ "backup" \in left
    /\ offered' = ~offered
    /\ UNCHANGED <<pass, serving, calls, timedOut, askers, heard, seen, left, holder, clock, look>>

-----------------------------------------------------------------------------
(* Staying to answer.                                                      *)

Reached == \E p \in Peer : calls[p] = "synced"

StaysToAnswer == Recently(COLLECTING) \/ (Reached /\ ~timedOut /\ ForOthers # {})

ComeBy ==
    IF serving > Budget THEN UpTo(Left(serving, clock.elapsed), PAUSED)
    ELSE UpTo(Left(Budget, clock.elapsed), LINGER)

\* A device that reached this one is on: seen.
MarkHeard == seen' = seen \cup heard /\ heard' = {}

\* Every call has come to something.
DoneReaching ==
    /\ pass = "reaching"
    /\ \A p \in Peer : calls[p] \in {"synced", "left", "unreachable"}
    /\ IF StaysToAnswer
       THEN /\ pass' = "announcing"
            /\ clock' = [clock EXCEPT !.come = ComeBy,
                           !.silent = IF serving > Budget \/ ~clock.shown THEN 0 ELSE @]
            /\ UNCHANGED <<heard, seen, look>>
       ELSE /\ pass' = "ended"
            /\ MarkHeard
            /\ UNCHANGED clock
    /\ UNCHANGED <<serving, calls, timedOut, askers, left, holder, offered, look>>

\* announce_news, and those that may not ask are not asked again.
Announced(may) ==
    /\ pass = "announcing"
    /\ askers' = askers \cap may
    /\ clock' = [clock EXCEPT !.looked = 0, !.excused = 0]
    /\ pass' = "looking"
    /\ UNCHANGED <<serving, calls, timedOut, heard, seen, left, holder, offered, look>>

\* excused_until.
NotExcused == clock.excused
ExcusedUntil ==
    IF clock.looked >= FROZEN THEN UpTo(PAUSED, PAUSED + clock.excused) ELSE clock.excused

\* A look: now, and until when silence is excused.
TakeLook ==
    /\ pass = "looking"
    /\ LET excused == ExcusedUntil
       IN /\ clock' = [clock EXCEPT !.excused = excused, !.looked = 0, !.shown = @ \/ excused > 0]
          /\ look' = [allowed |-> clock.elapsed < serving,
                      waits |-> clock.come > 0 \/ excused > 0, missed |-> FALSE]
    /\ pass' = "deciding"
    /\ UNCHANGED <<serving, calls, timedOut, askers, heard, seen, left, holder, offered>>

\* keep_answering, by that look, and by who has collected until now.
KeepAnswering ==
    /\ look.allowed
    /\ Recently(COLLECTING) \/ ((look.waits \/ Recently(PAUSED)) /\ ForOthers # {})

Decide ==
    /\ pass = "deciding"
    /\ IF KeepAnswering
       THEN /\ pass' = "staying" /\ look' = NoLook
            /\ UNCHANGED <<heard, seen>>
       ELSE /\ pass' = "over"
            /\ MarkHeard
            /\ UNCHANGED look
    /\ UNCHANGED <<serving, calls, timedOut, askers, left, holder, offered, clock>>

-----------------------------------------------------------------------------

PassInit(l) ==
    /\ pass = "none" /\ serving = 0 /\ calls = [p \in Peer |-> "none"] /\ timedOut = FALSE
    /\ askers = {} /\ heard = {} /\ seen = {} /\ look = NoLook
    /\ left = l /\ holder \in {FALSE, l # {}} /\ offered \in {FALSE, l # {}}
    /\ clock = [elapsed |-> 0, served |-> PAUSED + 1, come |-> 0, excused |-> 0, looked |-> 0,
                silent |-> 0, shown |-> FALSE]

WithPeer(p) ==
    \/ Answer(p) \/ Unreachable(p) \/ SyncReached(p) \/ Synced(p) \/ SyncRanOut(p)
    \/ \E k \in Kind : Collect(p, k)

PassNext ==
    \/ \E allowed \in {Budget, Long} : Start(allowed)
    \/ StartFails \/ Started \/ DoneReaching \/ TakeLook \/ Decide
    \/ \E may \in SUBSET Peer : Announced(may)
    \/ \E p \in Peer : WithPeer(p)
    \/ Awake \/ AsksTake \/ NetworkChanges
    \/ \E k \in 1..MaxFreeze : Frozen(k)

-----------------------------------------------------------------------------

\* A pass that stayed to answer, with something still to be collected and
\* time allowed, ends only after PAUSED with nobody collecting -- of the time
\* it was running since a device collected, or since it was frozen -- or, an
\* ordinary pass nobody came to, after LINGER.  Not so if it was frozen while
\* it traded asks: that look was taken before.
StaysForIt ==
    pass = "over" =>
      \/ ForOthers = {} \/ clock.elapsed >= serving \/ look.missed
      \/ clock.silent >= IF serving > Budget \/ clock.shown THEN PAUSED ELSE LINGER

\* Does not hold (README, Divergences).
\* A freeze is excused wherever in the loop it falls.
EveryFreezeIsExcused ==
    pass = "over" =>
      \/ ForOthers = {} \/ clock.elapsed >= serving
      \/ clock.silent >= IF serving > Budget \/ clock.shown THEN PAUSED ELSE LINGER
=============================================================================
