------------------------------ MODULE Sharing ------------------------------
(***************************************************************************)
(* Sharing one folder of the shared area with chosen devices.  The rule is *)
(* a file that syncs like any other; every device builds its own tables    *)
(* from its own copy, leaves the folder out of what it lists for a device  *)
(* left out, and takes neither the folder's files nor its rule from one.   *)
(*                                                                         *)
(* Modelled: crates/sync/src/sharing.rs, the sharing part of               *)
(* crates/storage/src/store.rs and db.rs, and shared_with in               *)
(* crates/engine/src/peer.rs.                                              *)
(*                                                                         *)
(* Data.  One folder, its rule file and one file in it.  A rule file's     *)
(* content is its set of members, Everyone where there is no rule: never   *)
(* made, or deleted.  A file's content is the number of its edit.          *)
(***************************************************************************)
EXTENDS VersionVector, FiniteSets

CONSTANTS
    Everyone,   \* no rule
    Choice,     \* the sets of members people choose, or Everyone
    HashOf,     \* the hash of the rule file for each set of members
    NoList,     \* no list read
    MaxRules,   \* bound: changes of a rule
    MaxEdits    \* bound: changes of the file

ASSUME BoundsAssumption ==
    /\ MaxRules \in Nat /\ MaxEdits \in Nat
    /\ Choice \subseteq (SUBSET Device) \cup {Everyone}

ASSUME HashAssumption ==
    /\ HashOf \in [SUBSET Device -> Nat \ {0}]
    /\ \A x, y \in SUBSET Device : HashOf[x] = HashOf[y] => x = y

VARIABLES
    rule,    \* each device's copy of the rule file: members, vector, author
    file,    \* each device's copy of the file in the folder
    shares,  \* each device's tables, built from its rule file
    list,    \* the list each device last read from each other
    rules, edits

vars == <<rule, file, shares, list, rules, edits>>

Members == (SUBSET Device) \cup {Everyone}

-----------------------------------------------------------------------------
(* The rules, as tables or as a file says them.                            *)

Named(members, d) == IF members = Everyone THEN TRUE ELSE d \in members

\* Rules::allows and Rules::may_change, of the one folder.
Allows(members, d) == Named(members, d)
AnybodyMayChange(members, d) == TRUE
MayChange(members, d) == Named(members, d)

\* replace_shares: the tables, from the rule file.
Refreshed(d) == rule[d].members

\* refresh_shares: where the rule file has changed since, which is where the
\* tables are not those already.
RefreshShares(d) == shares' = [shares EXCEPT ![d] = Refreshed(d)]

\* next_local_vector: a change made on d, counted by path.
Stamped(v, d) == [v EXCEPT ![d] = @ + 1]

\* write_rule: the file is put, or deleted, as a change made here, and the
\* tables are built from it.
WriteRule(d, members) ==
    /\ rule' = [rule EXCEPT ![d] =
                  [members |-> members, by |-> d, crept |-> {},
                   vector |-> Stamped(@.vector, d)]]
    /\ shares' = [shares EXCEPT ![d] = members]

\* Refused when this device is not one the folder is shared with, and when
\* it names nobody.
SetSharing(d, members) ==
    /\ rules < MaxRules
    /\ MayChange(Refreshed(d), d)
    /\ members \notin {rule[d].members, Everyone, {}}
    /\ rules' = rules + 1
    /\ WriteRule(d, members)
    /\ UNCHANGED <<file, list, edits>>

ClearSharing(d) ==
    /\ rules < MaxRules
    /\ MayChange(Refreshed(d), d)
    /\ rule[d].members # Everyone
    /\ rules' = rules + 1
    /\ WriteRule(d, Everyone)
    /\ UNCHANGED <<file, list, edits>>

\* The rule file edited by hand, which the scan takes as any change.
EditRuleFile(d, members) ==
    /\ rules < MaxRules
    /\ ~MayChange(rule[d].members, d)
    /\ members \notin {rule[d].members, {}}
    /\ rules' = rules + 1
    /\ rule' = [rule EXCEPT ![d] =
                  [members |-> members, by |-> d, crept |-> {d},
                   vector |-> Stamped(@.vector, d)]]
    /\ UNCHANGED <<file, shares, list, edits>>

EditFile(d) ==
    /\ edits < MaxEdits
    /\ edits' = edits + 1
    /\ file' = [file EXCEPT ![d] =
                  [content |-> edits', by |-> d,
                   vector |-> Stamped(@.vector, d)]]
    /\ UNCHANGED <<rule, shares, list, rules>>

-----------------------------------------------------------------------------
(* Syncing.                                                                *)

\* tree_for: the tables brought up to date, the rule file always listed, the
\* folder's file only for a device it is shared with.
Tree(p, d) ==
    [from |-> p, rule |-> {rule[p]},
     file |-> {v \in {file[p]} : Allows(Refreshed(p), d)}]

\* A device syncs with others: its own address is not one of its peers'.
Itself(d, p) == TRUE
Peer(d, p) == d # p

ReadList(d, p) ==
    /\ Peer(d, p)
    /\ list[d] = NoList
    /\ RefreshShares(p)
    /\ list' = [list EXCEPT ![d] = Tree(p, d)]
    /\ UNCHANGED <<rule, file, rules, edits>>

\* shared_with: of the peer's list, by this device's own rules, the folder's
\* file if both are members, and its rule if the peer is one.
TakenFromAnyone(d, read) == read
SharedWith(d, read) ==
    LET mine == Refreshed(d)
    IN  [read EXCEPT
            !.rule = {v \in @ : MayChange(mine, read.from)},
            !.file = {v \in @ : Allows(mine, d) /\ Allows(mine, read.from)}]

\* The planner, of one file: what is ahead is adopted, and of two made apart
\* the greater content has the path.  The other becomes a conflict copy,
\* which is no rule.
Settled(mine, theirs, greater) ==
    LET winner == IF greater THEN mine ELSE theirs
    IN  CASE Dominates(mine.vector, theirs.vector) -> mine
          [] Compare(mine.vector, theirs.vector) = "Before" -> theirs
          [] Compare(mine.vector, theirs.vector) = "Concurrent" ->
               [winner EXCEPT !.vector = Merged(mine.vector, theirs.vector)]

RuleContent(v) == IF v.members = Everyone THEN 0 ELSE HashOf[v.members]
Greater(mine, a, theirs, b) == a > b \/ (a = b /\ mine.by <= theirs.by)

SettledRule(mine, theirs) ==
    Settled(mine, theirs, Greater(mine, RuleContent(mine), theirs, RuleContent(theirs)))
SettledFile(mine, theirs) ==
    Settled(mine, theirs, Greater(mine, mine.content, theirs, theirs.content))

\* The file's bytes are asked for after the list, and given by the peer's
\* tables as they are then.
Fetched(d, v, p) == v.vector = file[p].vector /\ Allows(shares[p], d)

Take(d) ==
    /\ list[d] # NoList
    /\ LET taken == SharedWith(d, list[d])
           new == {v \in taken.file :
                     \/ Dominates(file[d].vector, v.vector)
                     \/ Fetched(d, v, list[d].from)}
       IN  /\ rule' = [rule EXCEPT ![d] =
                         IF taken.rule = {} THEN @
                         ELSE SettledRule(@, CHOOSE v \in taken.rule : TRUE)]
           /\ file' = [file EXCEPT ![d] =
                         IF new = {} THEN @
                         ELSE SettledFile(@, CHOOSE v \in new : TRUE)]
    /\ RefreshShares(d)
    /\ list' = [list EXCEPT ![d] = NoList]
    /\ UNCHANGED <<rules, edits>>

-----------------------------------------------------------------------------
Init ==
    /\ rule = [d \in Device |-> [members |-> Everyone, by |-> d,
                                 crept |-> {}, vector |-> Zero]]
    /\ file = [d \in Device |-> [content |-> 0, by |-> d, vector |-> Zero]]
    /\ shares = [d \in Device |-> Everyone]
    /\ list = [d \in Device |-> NoList]
    /\ rules = 0 /\ edits = 0

Next ==
    \E d \in Device :
        \/ \E ms \in Choice : SetSharing(d, ms) \/ EditRuleFile(d, ms)
        \/ ClearSharing(d)
        \/ EditFile(d)
        \/ \E p \in Device : ReadList(d, p)
        \/ Take(d)

Spec == Init /\ [][Next]_vars
FairSpec ==
    /\ Spec
    /\ \A d \in Device : WF_vars(Take(d))
    /\ \A d, p \in Device : SF_vars(ReadList(d, p))

-----------------------------------------------------------------------------
(* Properties.                                                             *)

TypeOK ==
    /\ \A d \in Device :
          /\ rule[d].members \in Members /\ rule[d].vector \in Vector
          /\ file[d].content \in 0..edits /\ file[d].vector \in Vector
          /\ shares[d] \in Members
          /\ list[d] # NoList => list[d].from \in Device \ {d}
    /\ rules \in 0..MaxRules /\ edits \in 0..MaxEdits

\* Every other device's rule, in its file and in force, leaves c out, and so
\* do the rules in the lists they have read of each other and not yet taken.
Out(c) ==
    \A d \in Device \ {c} :
        /\ ~Named(rule[d].members, c) /\ ~Named(shares[d], c)
        /\ list[d] # NoList =>
             list[d].from = c \/ \A v \in list[d].rule : ~Named(v.members, c)

\* A person at another device than c changes the rule.
LetIn(c) ==
    \E d \in Device \ {c} :
        \/ ClearSharing(d)
        \/ \E ms \in Choice : SetSharing(d, ms) \/ EditRuleFile(d, ms)

\* Once every other device has a rule that leaves a device out, and none has
\* another's older one still to take, that device stays out until a person
\* elsewhere lets it in: whatever it writes in the rule file changes no other
\* device's rule, in whatever order they sync.  And while it is out, nothing
\* it changes in its old copy reaches another device from it, and nothing the
\* others change reaches it (may_change and shared_with, tree_for).
Took(d) == list[d] # NoList /\ list'[d] = NoList
StaysOut ==
    [][\A c \in Device : Out(c) =>
          /\ ~LetIn(c) => Out(c)'
          /\ \A d \in Device : Took(d) /\ list[d].from = c => file'[d] = file[d]
          /\ Took(c) => file'[c] = file[c]]_vars

\* Does not hold (README, Divergences).
\* A device left out cannot write itself back in: no device has a rule from
\* one that was not among its members when it wrote it.
NotWrittenBack == \A d \in Device : rule[d].crept \subseteq {d}

\* Does not hold (README, Divergences).
\* Rules made apart are settled as any conflict is: once nobody changes them,
\* every device comes to have the same.
RulesSettle ==
    <>[](\A d, p \in Device : rule[d].members = rule[p].members)
=============================================================================
