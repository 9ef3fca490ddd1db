---------------------------- MODULE ListsProofs ----------------------------
(***************************************************************************)
(* Of the lists devices read from one another.                             *)
(*                                                                         *)
(* Lists implements ListRead, for any entries, connections and bounds:     *)
(* whatever changes, is hidden, fails or is started again while a pass     *)
(* asks, the list it plans against was the other device's at one moment of *)
(* that pass.  Every step of Lists is a step of ListRead, or leaves what   *)
(* ListRead speaks of as it is.                                            *)
(*                                                                         *)
(* Sharing: a device that every other has left out stays out, for any      *)
(* devices, any sets of members and any number of rules and edits.  The    *)
(* invariant says what a list read from another device can be; the         *)
(* property itself is about the order in which lists are read, rules made  *)
(* and lists taken.                                                        *)
(***************************************************************************)
EXTENDS Lists, Sharing, TLAPS

-----------------------------------------------------------------------------
(* The list a pass plans against.                                          *)


readVars == <<List, during, got>>

\* The index has versions, so that what is shown of it is a list.
RowsOK ==
    /\ rows \in [Key -> [version: Version, mark: Nat]] /\ counter \in Nat
    /\ changes \in 0..MaxChanges

\* A pass that asks has begun, and has seen the list as it is now.
AskingHasBegun == pc \in {"reach", "load", "digest", "mark", "tree"} => during # {}
NowIsDuring == during # {} => List \in during

ReadInv == RowsOK /\ AskingHasBegun /\ NowIsDuring

\* What a step does, as ListRead sees it.
Reads == ReadInv' /\ [Read!Next]_readVars

-----------------------------------------------------------------------------

LEMMA ListIsAList ==
  ASSUME RowsOK
  PROVE  List \in Lists
BY DEF RowsOK, List, Lists

LEMMA ListStays ==
  ASSUME UNCHANGED <<rows, hidden>>
  PROVE  List' = List
BY DEF List

\* A step that shows the device no other list, and reads none.
LEMMA NothingRead ==
  ASSUME ReadInv, UNCHANGED <<rows, hidden, counter, changes, during, got>>,
         pc' \in {"reach", "load", "digest", "mark", "tree"} => during # {}
  PROVE  Reads
<1>1. List' = List
  BY ListStays
<1>2. ReadInv'
  BY <1>1 DEF ReadInv, RowsOK, AskingHasBegun, NowIsDuring
<1> QED BY <1>1, <1>2 DEF Reads, readVars

\* The device that answers changes what it shows.
LEMMA ChangesAreShown ==
  ASSUME ListsAssumption, ReadInv, NEW k \in Key,
         Write(k) \/ Send(k) \/ Forget(k) \/ Entitle(k)
  PROVE  Reads
<1>1. Shown /\ Changes /\ UNCHANGED <<pc, got>>
  BY DEF Write, Send, Forget, Entitle
<1>2. changes + 1 \in Version /\ changes + 1 \in 0..MaxChanges
  BY <1>1 DEF Changes, ReadInv, RowsOK, Version, ListsAssumption
<1>3. RowsOK'
  <2>1. rows' \in [Key -> [version: Version, mark: Nat]] /\ counter' \in Nat
    <3>1. CASE Write(k) \/ Send(k)
      BY <1>2, <3>1 DEF Write, Send, Marked, ReadInv, RowsOK
    <3>2. CASE Forget(k)
      BY <3>2, ListsAssumption DEF Forget, ReadInv, RowsOK, Version, ListsAssumption
    <3>3. CASE Entitle(k)
      BY <3>3 DEF Entitle, ReadInv, RowsOK
    <3> QED BY <3>1, <3>2, <3>3
  <2> QED BY <1>1, <1>2, <2>1 DEF Changes, RowsOK
<1>4. List' \in Lists
  BY <1>3 DEF RowsOK, List, Lists
<1>5. Read!Change
  BY <1>1, <1>4 DEF Read!Change, Shown, Lists, Version
<1>6. AskingHasBegun' /\ NowIsDuring'
  BY <1>1 DEF Shown, ReadInv, AskingHasBegun, NowIsDuring
<1> QED BY <1>3, <1>5, <1>6 DEF Reads, ReadInv, Read!Next

\* A pass begins, if none waits.
LEMMA PassBegins ==
  ASSUME ReadInv, UNCHANGED <<rows, hidden, counter, changes, got>>,
         during' = {List}
  PROVE  Reads
<1>1. List' = List
  BY ListStays
<1>2. Read!Begin
  BY <1>1 DEF Read!Begin
<1>3. ReadInv'
  BY <1>1 DEF ReadInv, RowsOK, AskingHasBegun, NowIsDuring
<1> QED BY <1>2, <1>3 DEF Reads, Read!Next

\* A pass is given up.
LEMMA PassFails ==
  ASSUME ReadInv, UNCHANGED <<rows, hidden, counter, changes>>, Failed
  PROVE  Reads
<1>1. List' = List
  BY ListStays
<1>2. Read!Abandon
  BY <1>1 DEF Read!Abandon, Failed
<1>3. ReadInv'
  BY DEF Failed, ReadInv, RowsOK, AskingHasBegun, NowIsDuring
<1> QED BY <1>2, <1>3 DEF Reads, Read!Next

\* A list is returned that is the other device's now.
LEMMA PassReturns ==
  ASSUME ReadInv, UNCHANGED <<rows, hidden, counter, changes>>,
         pc \in {"load", "digest", "tree"}, Returns(List)
  PROVE  Reads
<1>1. List' = List
  BY ListStays
<1>2. during # {} /\ List \in during
  BY DEF ReadInv, AskingHasBegun, NowIsDuring
<1>3. Read!Return
  BY <1>1, <1>2 DEF Read!Return, Returns
<1>4. ReadInv'
  BY DEF Returns, ReadInv, RowsOK, AskingHasBegun, NowIsDuring
<1> QED BY <1>3, <1>4 DEF Reads, Read!Next

-----------------------------------------------------------------------------

LEMMA AnsweringReads ==
  ASSUME ListsAssumption, ReadInv, Answering
  PROVE  Reads
<1>1. CASE \E k \in Key : Write(k) \/ Send(k) \/ Forget(k) \/ Entitle(k)
  BY <1>1, ChangesAreShown
<1>2. CASE Bump \/ Notify \/ AnnounceDeliveries
  <2>1. UNCHANGED <<rows, hidden, counter, changes, during, got, pc>>
    BY <1>2 DEF Bump, Notify, AnnounceDeliveries, daemon
  <2> QED BY <2>1, NothingRead DEF ReadInv, AskingHasBegun
<1>3. CASE \E c \in Conn : Look(c) \/ LookAgain(c) \/ Wake(c) \/ TimesOut(c)
  <2>1. UNCHANGED <<rows, hidden, counter, changes, during, got, pc>>
    BY <1>3 DEF Look, LookAgain, Wake, TimesOut, Answer, server, daemon
  <2> QED BY <2>1, NothingRead DEF ReadInv, AskingHasBegun
<1> QED BY <1>1, <1>2, <1>3 DEF Answering

LEMMA BeginningReads ==
  ASSUME ReadInv, Hear \/ Tick \/ Arrival \/ Elapse \/ ForgetClosed
  PROVE  Reads
<1>1. UNCHANGED <<rows, hidden, counter, changes, got>>
  BY DEF Hear, Tick, Arrival, Elapse, ForgetClosed, server
<1>2. CASE UNCHANGED <<during, pc>>
  BY <1>1, <1>2, NothingRead DEF ReadInv, AskingHasBegun
<1>3. CASE during' = {List}
  BY <1>1, <1>3, PassBegins
<1>4. UNCHANGED <<during, pc>> \/ during' = {List}
  BY DEF Hear, Tick, StartPass, Arrival, Elapse, ForgetClosed
<1> QED BY <1>2, <1>3, <1>4

\* TreeSince: found unchanged, or rebuilt and found to be the list by its
\* fingerprint; otherwise the pass goes on asking.
LEMMA AskSinceReads ==
  ASSUME ReadInv, AskSince
  PROVE  Reads
<1>1. UNCHANGED <<rows, hidden, counter, changes>> /\ pc = "load"
  BY DEF AskSince, Asking, server
<1>2. PICK rebuilt :
        \/ pc' \in {"digest", "mark"} /\ UNCHANGED <<got, during>>
        \/ List = kept.list /\ Returns(kept.list)
        \/ Matches(rebuilt) /\ Returns(rebuilt)
  BY DEF AskSince
<1>3. CASE UNCHANGED <<got, during>>
  BY <1>1, <1>3, NothingRead DEF ReadInv, AskingHasBegun
<1>4. CASE Returns(List)
  BY <1>1, <1>4, PassReturns
<1> QED BY <1>2, <1>3, <1>4 DEF Matches

LEMMA PassReads ==
  ASSUME ReadInv, Pass
  PROVE  Reads
<1>1. CASE Reach
  BY <1>1, NothingRead DEF Reach, server, ReadInv, AskingHasBegun
<1>2. CASE Lost
  BY <1>2, PassFails DEF Lost, server
<1>3. CASE AskSince
  BY <1>3, AskSinceReads
<1>4. CASE AskDigest
  <2>1. UNCHANGED <<rows, hidden, counter, changes>> /\ pc = "digest"
    BY <1>4 DEF AskDigest, Asking, server
  <2>2. CASE Returns(List)
    BY <2>1, <2>2, PassReturns
  <2>3. CASE UNCHANGED <<got, during>>
    BY <2>1, <2>3, NothingRead DEF ReadInv, AskingHasBegun
  <2> QED BY <1>4, <2>2, <2>3 DEF AskDigest
<1>5. CASE AskMark
  BY <1>5, NothingRead DEF AskMark, Asking, server, ReadInv, AskingHasBegun
<1>6. CASE AskTree
  BY <1>6, PassReturns DEF AskTree, Asking, server
<1>7. CASE Apply(TRUE)
  BY <1>7, NothingRead DEF Apply, server
<1> QED BY <1>1, <1>2, <1>3, <1>4, <1>5, <1>6, <1>7 DEF Pass

LEMMA AsksReads ==
  ASSUME ReadInv, Asks
  PROVE  Reads
<1>1. CASE \E ok \in BOOLEAN : Apply(ok)
  <2>1. PICK ok \in BOOLEAN : Apply(ok)
    BY <1>1
  <2>2. UNCHANGED <<rows, hidden, counter, changes>>
    BY <2>1 DEF Apply, server
  <2>3. CASE Failed
    BY <2>2, <2>3, PassFails
  <2>4. CASE pc' = "idle" /\ UNCHANGED <<got, during>>
    BY <2>2, <2>4, NothingRead
  <2> QED BY <2>1, <2>3, <2>4 DEF Apply
<1>2. CASE Unreachable
  BY <1>2, PassFails DEF Unreachable, server
<1> QED BY <1>1, <1>2, BeginningReads, PassReads DEF Asks

\* A connection lost, or either process started again, gives no list.
LEMMA FaultReads ==
  ASSUME ReadInv, Fault
  PROVE  Reads
<1>1. CASE DaemonRestarts
  <2>1. /\ UNCHANGED <<rows, hidden, counter, changes>>
        /\ pc' = "idle" /\ got' = Nothing /\ during' = {}
    BY <1>1 DEF DaemonRestarts, server
  <2>2. List' = List
    BY <2>1, ListStays
  <2>3. Read!Forget
    BY <2>1, <2>2 DEF Read!Forget
  <2>4. ReadInv'
    BY <2>1 DEF ReadInv, RowsOK, AskingHasBegun, NowIsDuring
  <2> QED BY <2>3, <2>4 DEF Reads, Read!Next
<1>2. CASE ServerRestarts \/ \E c \in Conn : Drop(c) \/ WatcherReturns(c)
  <2>1. UNCHANGED <<rows, hidden, counter, changes, during, got, pc>>
    BY <1>2 DEF ServerRestarts, Drop, WatcherReturns, server, daemon
  <2> QED BY <2>1, NothingRead DEF ReadInv, AskingHasBegun
<1> QED BY <1>1, <1>2 DEF Fault

LEMMA ReadingStarts ==
  ASSUME ListsAssumption, ListsInit
  PROVE  ReadInv /\ Read!Init
<1>1. RowsOK
  BY ListsAssumption DEF ListsInit, RowsOK, Version, ListsAssumption
<1>2. List \in Lists
  BY <1>1, ListIsAList
<1>3. AskingHasBegun /\ NowIsDuring
  BY DEF ListsInit, AskingHasBegun, NowIsDuring
<1>4. Read!Init
  BY <1>2 DEF ListsInit, Read!Init, Lists, Version
<1> QED BY <1>1, <1>3, <1>4 DEF ReadInv

LEMMA StepReads ==
  ASSUME ListsAssumption, ReadInv, [ListsNext]_listsVars
  PROVE  Reads
<1>1. CASE ListsNext
  BY <1>1, AnsweringReads, AsksReads, FaultReads DEF ListsNext
<1>2. CASE UNCHANGED listsVars
  BY <1>2, NothingRead DEF listsVars, server, daemon, ReadInv, AskingHasBegun
<1> QED BY <1>1, <1>2

\* tree_kept promises what ListRead states: the list a pass plans against,
\* sent whole, rebuilt from what changed or found unchanged, was the other
\* device's at some moment of the pass.
THEOREM ReadingIsOfOneMoment == ListsSpec => ReadsAreCurrent
<1>1. ListsInit => ReadInv /\ Read!Init
  BY ListsAssumption, ReadingStarts
<1>2. ReadInv /\ [ListsNext]_listsVars => ReadInv' /\ [Read!Next]_readVars
  BY ListsAssumption, StepReads DEF Reads
<1> QED BY <1>1, <1>2, PTL DEF ListsSpec, ReadsAreCurrent, Read!Spec, readVars

-----------------------------------------------------------------------------
(* Who is left out.                                                        *)


RuleFile == [members : Members, by : Device, crept : SUBSET Device, vector : Vector]
FileCopy == [content : Nat, by : Device, vector : Vector]
ListOf(d) == [from : Device \ {d}, rule : SUBSET RuleFile, file : SUBSET FileCopy]

\* The types: a list is of another device's rule and file.
SharingOK ==
    /\ rule \in [Device -> RuleFile] /\ file \in [Device -> FileCopy]
    /\ shares \in [Device -> Members]
    /\ DOMAIN list = Device /\ \A d \in Device : list[d] # NoList => list[d] \in ListOf(d)
    /\ edits \in Nat

-----------------------------------------------------------------------------

LEMMA ZeroIsAVector == Zero \in Vector
BY DEF Zero, Vector

\* One more change made here.
LEMMA StampedIsAVector ==
  ASSUME NEW v \in Vector, NEW d \in Device
  PROVE  Stamped(v, d) \in Vector
BY DEF Stamped, Vector

LEMMA MergedIsAVector ==
  ASSUME NEW u \in Vector, NEW v \in Vector
  PROVE  Merged(u, v) \in Vector
BY DEF Vector, Merged

\* What two versions of one file are settled to: one of them, with its own
\* vector or both.
LEMMA SettledIsOne ==
  ASSUME NEW mine, NEW theirs, NEW greater \in BOOLEAN
  PROVE  LET s == Settled(mine, theirs, greater)
             both == Merged(mine.vector, theirs.vector)
         IN  /\ s \in {mine, theirs, [mine EXCEPT !.vector = both], [theirs EXCEPT !.vector = both]}
             /\ Dominates(mine.vector, theirs.vector) => s = mine
<1>1. Compare(mine.vector, theirs.vector) \in {"Concurrent", "After", "Before", "Equal"}
  BY DEF Compare
<1> QED BY <1>1 DEF Settled, Dominates

LEMMA SettledRuleIsOne ==
  ASSUME NEW mine \in RuleFile, NEW theirs \in RuleFile
  PROVE  /\ SettledRule(mine, theirs) \in RuleFile
         /\ SettledRule(mine, theirs).members \in {mine.members, theirs.members}
<1>1. PICK greater \in BOOLEAN : SettledRule(mine, theirs) = Settled(mine, theirs, greater)
  BY DEF SettledRule, Greater
<1>2. PICK both \in Vector : both = Merged(mine.vector, theirs.vector)
  BY MergedIsAVector DEF RuleFile
<1>3. SettledRule(mine, theirs) \in {mine, theirs, [mine EXCEPT !.vector = both], [theirs EXCEPT !.vector = both]}
  BY <1>1, <1>2, SettledIsOne
<1> QED BY <1>3 DEF RuleFile

LEMMA SettledFileIsOne ==
  ASSUME NEW mine \in FileCopy, NEW theirs \in FileCopy
  PROVE  /\ SettledFile(mine, theirs) \in FileCopy
         /\ Dominates(mine.vector, theirs.vector) => SettledFile(mine, theirs) = mine
<1>1. PICK greater \in BOOLEAN : SettledFile(mine, theirs) = Settled(mine, theirs, greater)
  BY DEF SettledFile, Greater
<1>2. PICK both \in Vector : both = Merged(mine.vector, theirs.vector)
  BY MergedIsAVector DEF FileCopy
<1>3. SettledFile(mine, theirs) \in {mine, theirs, [mine EXCEPT !.vector = both], [theirs EXCEPT !.vector = both]}
  BY <1>1, <1>2, SettledIsOne
<1>4. Dominates(mine.vector, theirs.vector) => SettledFile(mine, theirs) = mine
  BY <1>1, SettledIsOne
<1> QED BY <1>3, <1>4 DEF FileCopy

\* What a device takes of a list: some of it, its own rules deciding.
LEMMA SharedWithIsSome ==
  ASSUME SharingOK, NEW d \in Device, list[d] # NoList
  PROVE  /\ SharedWith(d, list[d]).rule \subseteq list[d].rule
         /\ SharedWith(d, list[d]).file \subseteq list[d].file
         /\ ~Named(rule[d].members, list[d].from) =>
              SharedWith(d, list[d]).rule = {} /\ SharedWith(d, list[d]).file = {}
<1>1. list[d] \in ListOf(d)
  BY DEF SharingOK
<1>2. /\ SharedWith(d, list[d]).rule = {v \in list[d].rule : Named(rule[d].members, list[d].from)}
      /\ SharedWith(d, list[d]).file = {v \in list[d].file : Named(rule[d].members, d)
                                                              /\ Named(rule[d].members, list[d].from)}
  BY <1>1 DEF SharedWith, Refreshed, MayChange, Allows, ListOf
<1> QED BY <1>2

\* Taking a list: the rule is the device's own still, or settled with one of
\* the list's, of a device it may come from; the file is its own still, or
\* settled with one of the list's that it had or was given.
LEMMA TakeIs ==
  ASSUME SharingOK, NEW d \in Device, Take(d)
  PROVE  /\ list[d] # NoList /\ list[d] \in ListOf(d)
         /\ \/ rule' = rule
            \/ /\ Named(rule[d].members, list[d].from)
               /\ \E v \in list[d].rule : rule' = [rule EXCEPT ![d] = SettledRule(rule[d], v)]
         /\ \/ file' = file
            \/ /\ Named(rule[d].members, list[d].from)
               /\ \E v \in list[d].file :
                    /\ Dominates(file[d].vector, v.vector) \/ Fetched(d, v, list[d].from)
                    /\ file' = [file EXCEPT ![d] = SettledFile(file[d], v)]
         /\ shares' = [shares EXCEPT ![d] = rule[d].members]
         /\ list' = [list EXCEPT ![d] = NoList] /\ UNCHANGED <<rules, edits>>
<1>0. list[d] # NoList /\ list[d] \in ListOf(d)
  BY DEF Take, SharingOK
<1>1. PICK taken : taken = SharedWith(d, list[d])
  OBVIOUS
<1>2. PICK new : new = {v \in taken.file : Dominates(file[d].vector, v.vector) \/ Fetched(d, v, list[d].from)}
  OBVIOUS
<1>3. /\ rule' = [rule EXCEPT ![d] = IF taken.rule = {} THEN rule[d]
                                     ELSE SettledRule(rule[d], CHOOSE v \in taken.rule : TRUE)]
      /\ file' = [file EXCEPT ![d] = IF new = {} THEN file[d]
                                     ELSE SettledFile(file[d], CHOOSE v \in new : TRUE)]
  BY <1>1, <1>2 DEF Take
<1>4. /\ taken.rule \subseteq list[d].rule /\ taken.file \subseteq list[d].file
      /\ ~Named(rule[d].members, list[d].from) => taken.rule = {} /\ taken.file = {}
  BY <1>0, <1>1, SharedWithIsSome
<1>5. \/ rule' = rule
      \/ /\ Named(rule[d].members, list[d].from)
         /\ \E v \in list[d].rule : rule' = [rule EXCEPT ![d] = SettledRule(rule[d], v)]
  <2>1. CASE taken.rule = {}
    BY <2>1, <1>3 DEF SharingOK
  <2>2. CASE taken.rule # {}
    <3>1. PICK w : w = CHOOSE v \in taken.rule : TRUE
      OBVIOUS
    <3>2. w \in taken.rule
      BY <2>2, <3>1
    <3> QED BY <2>2, <3>1, <3>2, <1>3, <1>4
  <2> QED BY <2>1, <2>2
<1>6. \/ file' = file
      \/ /\ Named(rule[d].members, list[d].from)
         /\ \E v \in list[d].file :
              /\ Dominates(file[d].vector, v.vector) \/ Fetched(d, v, list[d].from)
              /\ file' = [file EXCEPT ![d] = SettledFile(file[d], v)]
  <2>1. CASE new = {}
    BY <2>1, <1>3 DEF SharingOK
  <2>2. CASE new # {}
    <3>1. PICK w : w = CHOOSE v \in new : TRUE
      OBVIOUS
    <3>2. w \in new
      BY <2>2, <3>1
    <3> QED BY <2>2, <3>1, <3>2, <1>2, <1>3, <1>4
  <2> QED BY <2>1, <2>2
<1>7. shares' = [shares EXCEPT ![d] = rule[d].members] /\ list' = [list EXCEPT ![d] = NoList]
      /\ UNCHANGED <<rules, edits>>
  BY DEF Take, RefreshShares, Refreshed
<1> QED BY <1>0, <1>5, <1>6, <1>7

-----------------------------------------------------------------------------

LEMMA SharingStarts ==
  ASSUME Init
  PROVE  SharingOK
<1>1. rule \in [Device -> RuleFile] /\ file \in [Device -> FileCopy]
  BY ZeroIsAVector DEF Init, RuleFile, FileCopy, Members
<1> QED BY <1>1 DEF Init, SharingOK, Members

\* A change of the rule by a person, here or in the file itself.
LEMMA ChangesRule ==
  ASSUME BoundsAssumption, SharingOK, NEW d \in Device, NEW ms \in Choice,
         SetSharing(d, ms) \/ EditRuleFile(d, ms)
  PROVE  /\ SharingOK' /\ UNCHANGED <<list, file, edits>>
         /\ \A e \in Device : e # d => rule'[e] = rule[e] /\ shares'[e] = shares[e]
<1>0. ms \in Members /\ {d} \in SUBSET Device /\ {} \in SUBSET Device
  BY DEF BoundsAssumption, Members
<1>1. PICK crept \in SUBSET Device :
        /\ rule' = [rule EXCEPT ![d] = [members |-> ms, by |-> d, crept |-> crept,
                                        vector |-> Stamped(rule[d].vector, d)]]
        /\ shares' = [shares EXCEPT ![d] = ms] \/ shares' = shares
        /\ UNCHANGED <<list, file, edits>>
  <2>1. CASE SetSharing(d, ms)
    BY <1>0, <2>1 DEF SetSharing, WriteRule
  <2>2. CASE EditRuleFile(d, ms)
    BY <1>0, <2>2 DEF EditRuleFile
  <2> QED BY <2>1, <2>2
<1>2. Stamped(rule[d].vector, d) \in Vector
  BY StampedIsAVector DEF SharingOK, RuleFile
<1>3. rule' \in [Device -> RuleFile]
  BY <1>0, <1>1, <1>2 DEF SharingOK, RuleFile
<1>4. shares' \in [Device -> Members]
  BY <1>0, <1>1 DEF SharingOK
<1>5. SharingOK'
  BY <1>1, <1>3, <1>4 DEF SharingOK
<1> QED BY <1>1, <1>5 DEF SharingOK

\* Clearing needs no choice of members.
LEMMA ClearsRule ==
  ASSUME SharingOK, NEW d \in Device, ClearSharing(d)
  PROVE  /\ SharingOK' /\ UNCHANGED <<list, file, edits>>
         /\ \A e \in Device : e # d => rule'[e] = rule[e] /\ shares'[e] = shares[e]
<1>1. /\ rule' = [rule EXCEPT ![d] = [members |-> Everyone, by |-> d, crept |-> {},
                                      vector |-> Stamped(rule[d].vector, d)]]
      /\ shares' = [shares EXCEPT ![d] = Everyone]
      /\ UNCHANGED <<list, file, edits>>
  BY DEF ClearSharing, WriteRule
<1>2. Stamped(rule[d].vector, d) \in Vector
  BY StampedIsAVector DEF SharingOK, RuleFile
<1>3. SharingOK'
  BY <1>1, <1>2 DEF SharingOK, RuleFile, Members
<1> QED BY <1>1, <1>3 DEF SharingOK

LEMMA EditFileKeeps ==
  ASSUME SharingOK, NEW d \in Device, EditFile(d)
  PROVE  SharingOK' /\ UNCHANGED <<rule, shares, list>>
<1>1. /\ edits' = edits + 1 /\ UNCHANGED <<rule, shares, list>>
      /\ file' = [file EXCEPT ![d] = [content |-> edits', by |-> d,
                                      vector |-> Stamped(file[d].vector, d)]]
  BY DEF EditFile
<1>2. Stamped(file[d].vector, d) \in Vector
  BY StampedIsAVector DEF SharingOK, FileCopy
<1>3. edits' \in Nat
  BY <1>1 DEF SharingOK
<1> QED BY <1>1, <1>2, <1>3 DEF SharingOK, FileCopy

LEMMA ReadListKeeps ==
  ASSUME SharingOK, NEW d \in Device, NEW p \in Device, ReadList(d, p)
  PROVE  /\ SharingOK' /\ d # p /\ UNCHANGED <<rule, file>>
         /\ shares' = [shares EXCEPT ![p] = rule[p].members]
         /\ list[d] = NoList /\ list' = [list EXCEPT ![d] = Tree(p, d)]
         /\ Tree(p, d) \in ListOf(d) /\ Tree(p, d).from = p /\ Tree(p, d).rule = {rule[p]}
<1>1. Tree(p, d) = [from |-> p, rule |-> {rule[p]}, file |-> {v \in {file[p]} : Allows(Refreshed(p), d)}]
  BY DEF Tree
<1>2. d # p /\ UNCHANGED <<rule, file, edits>> /\ shares' = [shares EXCEPT ![p] = rule[p].members]
      /\ list[d] = NoList /\ list' = [list EXCEPT ![d] = Tree(p, d)]
  BY DEF ReadList, RefreshShares, Peer, Refreshed
<1>3. rule[p] \in RuleFile /\ file[p] \in FileCopy /\ rule[p].members \in Members
  BY DEF SharingOK, RuleFile
<1>4. Tree(p, d) \in ListOf(d) /\ Tree(p, d).from = p /\ Tree(p, d).rule = {rule[p]}
  BY <1>1, <1>2, <1>3 DEF ListOf
<1>5. SharingOK'
  BY <1>2, <1>3, <1>4 DEF SharingOK
<1> QED BY <1>2, <1>4, <1>5

LEMMA TakeKeeps ==
  ASSUME SharingOK, NEW d \in Device, Take(d)
  PROVE  SharingOK'
<1>1. list[d] # NoList /\ list[d] \in ListOf(d)
  BY TakeIs
<1>2. rule' \in [Device -> RuleFile]
  <2>1. CASE rule' = rule
    BY <2>1 DEF SharingOK
  <2>2. CASE rule' # rule
    <3>1. PICK v \in list[d].rule : rule' = [rule EXCEPT ![d] = SettledRule(rule[d], v)]
      BY <2>2, TakeIs
    <3>2. v \in RuleFile /\ rule[d] \in RuleFile
      BY <1>1 DEF ListOf, SharingOK
    <3>3. SettledRule(rule[d], v) \in RuleFile
      BY <3>2, SettledRuleIsOne
    <3> QED BY <3>1, <3>3 DEF SharingOK
  <2> QED BY <2>1, <2>2
<1>3. file' \in [Device -> FileCopy]
  <2>1. CASE file' = file
    BY <2>1 DEF SharingOK
  <2>2. CASE file' # file
    <3>1. PICK v \in list[d].file : file' = [file EXCEPT ![d] = SettledFile(file[d], v)]
      BY <2>2, TakeIs
    <3>2. v \in FileCopy /\ file[d] \in FileCopy
      BY <1>1 DEF ListOf, SharingOK
    <3>3. SettledFile(file[d], v) \in FileCopy
      BY <3>2, SettledFileIsOne
    <3> QED BY <3>1, <3>3 DEF SharingOK
  <2> QED BY <2>1, <2>2
<1>4. shares' = [shares EXCEPT ![d] = rule[d].members] /\ list' = [list EXCEPT ![d] = NoList] /\ edits' = edits
  BY TakeIs
<1>5. rule[d].members \in Members
  BY DEF SharingOK, RuleFile
<1> QED BY <1>2, <1>3, <1>4, <1>5 DEF SharingOK

LEMMA SharingKeeps ==
  ASSUME BoundsAssumption, SharingOK, [Next]_vars
  PROVE  SharingOK'
<1>1. CASE UNCHANGED vars
  BY <1>1 DEF vars, SharingOK
<1>2. ASSUME NEW d \in Device, NEW ms \in Choice, SetSharing(d, ms) \/ EditRuleFile(d, ms) PROVE SharingOK'
  BY <1>2, ChangesRule
<1>3. ASSUME NEW d \in Device, ClearSharing(d) PROVE SharingOK'
  BY <1>3, ClearsRule
<1>4. ASSUME NEW d \in Device, EditFile(d) PROVE SharingOK'
  BY <1>4, EditFileKeeps
<1>5. ASSUME NEW d \in Device, NEW p \in Device, ReadList(d, p) PROVE SharingOK'
  BY <1>5, ReadListKeeps
<1>6. ASSUME NEW d \in Device, Take(d) PROVE SharingOK'
  BY <1>6, TakeKeeps
<1> QED BY <1>1, <1>2, <1>3, <1>4, <1>5, <1>6 DEF Next

-----------------------------------------------------------------------------

\* While c is out, what another takes of a list keeps c out.
LEMMA TakeKeepsOut ==
  ASSUME SharingOK, NEW c \in Device, Out(c), NEW d \in Device, Take(d)
  PROVE  Out(c)'
<1>1. list' = [list EXCEPT ![d] = NoList] /\ shares' = [shares EXCEPT ![d] = rule[d].members]
  BY TakeIs
<1>2. \A e \in Device : e # d => rule'[e] = rule[e]
  BY TakeIs DEF SharingOK
<1>3. ASSUME d # c PROVE ~Named(rule'[d].members, c)
  <2>1. ~Named(rule[d].members, c) /\ list[d] # NoList /\ list[d] \in ListOf(d)
    BY <1>3, TakeIs DEF Out
  <2>2. CASE rule' = rule
    BY <2>1, <2>2
  <2>3. CASE rule' # rule
    <3>1. PICK v \in list[d].rule : rule' = [rule EXCEPT ![d] = SettledRule(rule[d], v)]
      BY <2>3, TakeIs
    <3>2. list[d].from # c
      BY <2>1, <2>3, TakeIs
    <3>3. ~Named(v.members, c)
      BY <2>1, <3>2, <1>3 DEF Out
    <3>4. v \in RuleFile /\ rule[d] \in RuleFile
      BY <2>1 DEF ListOf, SharingOK
    <3>5. rule'[d].members \in {rule[d].members, v.members}
      BY <3>1, <3>4, SettledRuleIsOne DEF SharingOK
    <3> QED BY <2>1, <3>3, <3>5
  <2> QED BY <2>2, <2>3
<1> SUFFICES ASSUME NEW e \in Device \ {c}
             PROVE  /\ ~Named(rule'[e].members, c) /\ ~Named(shares'[e], c)
                    /\ list'[e] # NoList =>
                         list'[e].from = c \/ \A v \in list'[e].rule : ~Named(v.members, c)
  BY DEF Out
<1>4. CASE e = d
  <2>1. list'[e] = NoList /\ shares'[e] = rule[e].members
    BY <1>1, <1>4 DEF SharingOK
  <2> QED BY <1>3, <1>4, <2>1 DEF Out
<1>5. CASE e # d
  <2>1. list'[e] = list[e] /\ shares'[e] = shares[e] /\ rule'[e] = rule[e]
    BY <1>1, <1>2, <1>5 DEF SharingOK
  <2> QED BY <2>1 DEF Out
<1> QED BY <1>4, <1>5

LEMMA ReadKeepsOut ==
  ASSUME SharingOK, NEW c \in Device, Out(c), NEW d \in Device, NEW p \in Device, ReadList(d, p)
  PROVE  Out(c)'
<1>1. /\ d # p /\ UNCHANGED rule /\ shares' = [shares EXCEPT ![p] = rule[p].members]
      /\ list' = [list EXCEPT ![d] = Tree(p, d)]
      /\ Tree(p, d).from = p /\ Tree(p, d).rule = {rule[p]}
  BY ReadListKeeps
<1> SUFFICES ASSUME NEW e \in Device \ {c}
             PROVE  /\ ~Named(rule[e].members, c) /\ ~Named(shares'[e], c)
                    /\ list'[e] # NoList =>
                         list'[e].from = c \/ \A v \in list'[e].rule : ~Named(v.members, c)
  BY <1>1 DEF Out
<1>2. ~Named(rule[e].members, c) /\ ~Named(shares'[e], c)
  BY <1>1 DEF Out, SharingOK
<1>3. CASE e = d
  <2>1. list'[e] = Tree(p, d)
    BY <1>1, <1>3 DEF SharingOK
  <2>2. p = c \/ ~Named(rule[p].members, c)
    BY DEF Out
  <2> QED BY <1>1, <1>2, <2>1, <2>2
<1>4. CASE e # d
  <2>1. list'[e] = list[e]
    BY <1>1, <1>4 DEF SharingOK
  <2> QED BY <1>2, <2>1 DEF Out
<1> QED BY <1>3, <1>4

\* Any step but another device's person changing the rule.
LEMMA StepKeepsOut ==
  ASSUME BoundsAssumption, SharingOK, NEW c \in Device, Out(c), Next, ~LetIn(c)
  PROVE  Out(c)'
<1>1. ASSUME NEW d \in Device, NEW ms \in Choice, SetSharing(d, ms) \/ EditRuleFile(d, ms) PROVE Out(c)'
  <2>1. d = c
    BY <1>1 DEF LetIn
  <2> QED BY <1>1, <2>1, ChangesRule DEF Out
<1>2. ASSUME NEW d \in Device, ClearSharing(d) PROVE Out(c)'
  <2>1. d = c
    BY <1>2 DEF LetIn
  <2> QED BY <1>2, <2>1, ClearsRule DEF Out
<1>3. ASSUME NEW d \in Device, EditFile(d) PROVE Out(c)'
  BY <1>3, EditFileKeeps DEF Out
<1>4. ASSUME NEW d \in Device, NEW p \in Device, ReadList(d, p) PROVE Out(c)'
  BY <1>4, ReadKeepsOut
<1>5. ASSUME NEW d \in Device, Take(d) PROVE Out(c)'
  BY <1>5, TakeKeepsOut
<1> QED BY <1>1, <1>2, <1>3, <1>4, <1>5 DEF Next

\* The step that takes a device's list is its own Take.
LEMMA TookIsTake ==
  ASSUME BoundsAssumption, SharingOK, Next, NEW d \in Device, Took(d)
  PROVE  Take(d)
<1>0. list[d] # NoList /\ list'[d] = NoList
  BY DEF Took
<1>1. ASSUME NEW e \in Device, NEW ms \in Choice, SetSharing(e, ms) \/ EditRuleFile(e, ms) PROVE FALSE
  BY <1>0, <1>1, ChangesRule
<1>2. ASSUME NEW e \in Device, ClearSharing(e) PROVE FALSE
  BY <1>0, <1>2, ClearsRule
<1>3. ASSUME NEW e \in Device, EditFile(e) PROVE FALSE
  BY <1>0, <1>3, EditFileKeeps
<1>4. ASSUME NEW e \in Device, NEW p \in Device, ReadList(e, p) PROVE FALSE
  <2>1. list[e] = NoList /\ list' = [list EXCEPT ![e] = Tree(p, e)]
    BY <1>4, ReadListKeeps
  <2> QED BY <1>0, <2>1 DEF SharingOK
<1>5. ASSUME NEW e \in Device, Take(e) PROVE e = d
  <2>1. list' = [list EXCEPT ![e] = NoList]
    BY <1>5, TakeIs
  <2> QED BY <1>0, <2>1 DEF SharingOK
<1> QED BY <1>1, <1>2, <1>3, <1>4, <1>5 DEF Next

\* A device that all others have left out stays out until a person at one of
\* them changes the rule, and no edit passes between it and them, for any
\* devices, members and number of rules, and any order of reading and taking
\* lists (may_change and shared_with, tree_for, refresh_shares).
THEOREM LeftOutStaysOut == Spec => StaysOut
<1> USE BoundsAssumption
<1>1. Init => SharingOK
  BY SharingStarts
<1>2. SharingOK /\ [Next]_vars => SharingOK'
  BY SharingKeeps
<1>3. SharingOK /\ [Next]_vars =>
        [\A c \in Device : Out(c) =>
          /\ ~LetIn(c) => Out(c)'
          /\ \A d \in Device : Took(d) /\ list[d].from = c => file'[d] = file[d]
          /\ Took(c) => file'[c] = file[c]]_vars
  <2> SUFFICES ASSUME SharingOK, Next, NEW c \in Device, Out(c)
               PROVE  /\ ~LetIn(c) => Out(c)'
                      /\ \A d \in Device : Took(d) /\ list[d].from = c => file'[d] = file[d]
                      /\ Took(c) => file'[c] = file[c]
    OBVIOUS
  <2>1. ~LetIn(c) => Out(c)'
    BY StepKeepsOut
  <2>2. ASSUME NEW d \in Device, Took(d), list[d].from = c PROVE file'[d] = file[d]
    <3>1. Take(d)
      BY <2>2, TookIsTake
    <3>2. list[d] \in ListOf(d)
      BY <3>1, TakeIs
    <3>3. ~Named(rule[d].members, c)
      BY <2>2, <3>2 DEF ListOf, Out
    <3> QED BY <2>2, <3>1, <3>3, TakeIs
  <2>3. ASSUME Took(c) PROVE file'[c] = file[c]
    <3>1. Take(c)
      BY <2>3, TookIsTake
    <3>2. list[c] \in ListOf(c)
      BY <3>1, TakeIs
    <3>3. CASE file' = file
      BY <3>3
    <3>4. CASE file' # file
      <4>1. PICK v \in list[c].file :
              /\ Dominates(file[c].vector, v.vector) \/ Fetched(c, v, list[c].from)
              /\ file' = [file EXCEPT ![c] = SettledFile(file[c], v)]
        BY <3>1, <3>4, TakeIs
      <4>2. ~Fetched(c, v, list[c].from)
        BY <3>2 DEF ListOf, Fetched, Allows, Out
      <4>3. v \in FileCopy /\ file[c] \in FileCopy
        BY <3>2 DEF ListOf, SharingOK
      <4>4. SettledFile(file[c], v) = file[c]
        BY <4>1, <4>2, <4>3, SettledFileIsOne
      <4> QED BY <4>1, <4>4 DEF SharingOK
    <3> QED BY <3>3, <3>4
  <2> QED BY <2>1, <2>2, <2>3
<1> QED BY <1>1, <1>2, <1>3, PTL DEF Spec, StaysOut
=============================================================================
