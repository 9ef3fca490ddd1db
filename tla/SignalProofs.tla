---------------------------- MODULE SignalProofs ----------------------------
(***************************************************************************)
(* The rendezvous service knows where the devices are that hold a          *)
(* connection to it, loses no note between two of them, wakes nobody it    *)
(* could have told, and keeps the last token of each phone, for any        *)
(* devices, any number of connections, moves, commands and restarts, and   *)
(* any limits.                                                             *)
(***************************************************************************)
EXTENDS Signal, FiniteSetTheorems, SequenceTheorems, TLAPS

OnlineIsHeld == \A d \in online : Latest(d) \in held

-----------------------------------------------------------------------------
(* Connections, messages and sequences.                                    *)

LEMMA OfConnection ==
  ASSUME NEW d, NEW k
  PROVE  <<d, k>> \in Connection <=> d \in Device /\ k \in 1..MaxOpened[d]
BY DEF Connection

LEMMA ConnectionIs ==
  ASSUME NEW c \in Connection
  PROVE  c = <<c[1], c[2]>> /\ c[1] \in Device
BY DEF Connection

LEMMA LatestIs ==
  ASSUME NEW d, NEW c, c = Latest(d)
  PROVE  c[1] = d /\ (Live(c) <=> d \in online)
BY DEF Latest, Live

LEMMA AppendIs ==
  ASSUME NEW S, NEW s \in Seq(S), NEW x \in S
  PROVE  /\ Append(s, x) \in Seq(S) /\ Range(Append(s, x)) = Range(s) \cup {x}
         /\ Len(Append(s, x)) = Len(s) + 1
         /\ \A i \in 1..Len(s) : Append(s, x)[i] = s[i]
         /\ Append(s, x)[Len(s) + 1] = x
<1>1. /\ Append(s, x) \in Seq(S) /\ Len(Append(s, x)) = Len(s) + 1
      /\ \A i \in 1..Len(s) : Append(s, x)[i] = s[i]
      /\ Append(s, x)[Len(s) + 1] = x
  BY AppendProperties
<1>2. Range(Append(s, x)) = {Append(s, x)[i] : i \in 1..Len(s) + 1} /\ Range(s) = {s[i] : i \in 1..Len(s)}
  BY <1>1, RangeEquality
<1>3. Len(s) \in Nat
  BY LenProperties
<1> QED BY <1>1, <1>2, <1>3

LEMMA TailIs ==
  ASSUME NEW S, NEW s \in Seq(S), s # <<>>
  PROVE  /\ Head(s) \in S /\ Tail(s) \in Seq(S) /\ Range(s) = {Head(s)} \cup Range(Tail(s))
         /\ Len(s) \in Nat \ {0} /\ Len(Tail(s)) = Len(s) - 1 /\ Head(s) = s[1]
         /\ \A i \in 1..Len(Tail(s)) : Tail(s)[i] = s[i + 1]
<1>1. /\ Head(s) \in S /\ Tail(s) \in Seq(S) /\ Len(s) \in Nat \ {0} /\ Len(Tail(s)) = Len(s) - 1
      /\ \A i \in 1..Len(Tail(s)) : Tail(s)[i] = s[i + 1]
  BY HeadTailProperties, EmptySeq
<1>2. Head(s) = s[1]
  OBVIOUS
<1>3. Range(s) = {s[i] : i \in 1..Len(s)} /\ Range(Tail(s)) = {Tail(s)[i] : i \in 1..Len(s) - 1}
  BY <1>1, RangeEquality
<1>4. {s[i] : i \in 1..Len(s)} = {s[1]} \cup {s[i + 1] : i \in 1..Len(s) - 1}
  <2>1. ASSUME NEW i \in 1..Len(s), i # 1 PROVE i - 1 \in 1..Len(s) - 1 /\ s[(i - 1) + 1] = s[i]
    BY <1>1, <2>1
  <2>2. ASSUME NEW i \in 1..Len(s) - 1 PROVE i + 1 \in 1..Len(s)
    BY <1>1
  <2>3. 1 \in 1..Len(s)
    BY <1>1
  <2> QED BY <2>1, <2>2, <2>3
<1> QED BY <1>1, <1>2, <1>3, <1>4

\* A message is sent to a connection that is up, or to none.
LEMMA SentIs ==
  ASSUME NEW box \in [Connection -> Seq(FromServer)], NEW c, NEW msg \in FromServer
  PROVE  /\ Sent(box, c, msg) \in [Connection -> Seq(FromServer)]
         /\ \A k \in Connection : Range(box[k]) \subseteq Range(Sent(box, c, msg)[k])
         /\ c \in Connection /\ Live(c) => msg \in Range(Sent(box, c, msg)[c])
<1>1. ASSUME NEW k \in Connection
      PROVE  /\ Append(box[k], msg) \in Seq(FromServer)
             /\ Range(Append(box[k], msg)) = Range(box[k]) \cup {msg}
  BY AppendIs
<1>2. Sent(box, c, msg) = [k \in Connection |-> IF k = c /\ Live(c) THEN Append(box[k], msg) ELSE box[k]]
  BY DEF Sent
<1>3. \A k \in Connection : Sent(box, c, msg)[k] = IF k = c /\ Live(c) THEN Append(box[k], msg) ELSE box[k]
  BY <1>2
<1>4. Sent(box, c, msg) \in [Connection -> Seq(FromServer)]
  BY <1>1, <1>2
<1> QED BY <1>1, <1>3, <1>4

LEMMA SentToIs ==
  ASSUME NEW box \in [Connection -> Seq(FromServer)], NEW d, NEW msg \in FromServer
  PROVE  /\ SentTo(box, d, msg) \in [Connection -> Seq(FromServer)]
         /\ \A k \in Connection : Range(box[k]) \subseteq Range(SentTo(box, d, msg)[k])
         /\ Listed(d) /\ members[d].conn \in Connection /\ Live(members[d].conn)
              => msg \in Range(SentTo(box, d, msg)[members[d].conn])
BY SentIs DEF SentTo

LEMMA SaidIs ==
  ASSUME TypeOK, NEW c, NEW msg \in FromClient, Say(c, msg)
  PROVE  /\ up' \in [Connection -> Seq(FromClient)]
         /\ \A k \in Connection : up'[k] = IF k = c THEN Append(up[k], msg) ELSE up[k]
<1>1. up \in [Connection -> Seq(FromClient)]
  BY DEF TypeOK
<1>2. ASSUME NEW k \in Connection PROVE Append(up[k], msg) \in Seq(FromClient)
  BY <1>1, AppendIs
<1>3. up' = [k \in Connection |-> IF k = c THEN Append(up[k], msg) ELSE up[k]]
  BY <1>1 DEF Say
<1> QED BY <1>1, <1>2, <1>3

\* announce: the notes kept for it and its arrival take nothing away.
LEMMA ArrivalIs ==
  ASSUME SignalAssumption, TypeOK, NEW c \in Connection, NEW froms \in Orders(notes[c[1]])
  PROVE  LET told == TellArrival(Deliver(down, c, froms), c[1]) IN
           /\ told \in [Connection -> Seq(FromServer)]
           /\ \A k \in Connection : Range(down[k]) \subseteq Range(told[k])
           /\ \A p \in Others(c[1]) : members[p].conn \in Connection /\ Live(members[p].conn) =>
                [say |-> "appeared", from |-> c[1]] \in Range(told[members[p].conn])
<1> DEFINE kept == [i \in DOMAIN froms |-> [say |-> "waiting", from |-> froms[i]]]
           box == Deliver(down, c, froms)
           arrival == [say |-> "appeared", from |-> c[1]]
           told == TellArrival(box, c[1])
<1>1. c[1] \in Device /\ notes[c[1]] \subseteq Device /\ down \in [Connection -> Seq(FromServer)]
  BY ConnectionIs DEF TypeOK
<1>2. IsFiniteSet(notes[c[1]]) /\ Cardinality(notes[c[1]]) \in Nat
  BY <1>1, FS_Subset, FS_CardinalityType DEF SignalAssumption
<1>3. kept \in Seq(FromServer)
  <2>1. froms \in [1..Cardinality(notes[c[1]]) -> notes[c[1]]]
    BY DEF Orders
  <2>2. \A i \in 1..Cardinality(notes[c[1]]) : [say |-> "waiting", from |-> froms[i]] \in FromServer
    BY <1>1, <2>1 DEF FromServer
  <2>3. kept = [i \in 1..Cardinality(notes[c[1]]) |-> [say |-> "waiting", from |-> froms[i]]]
    BY <2>1
  <2>4. kept \in [1..Cardinality(notes[c[1]]) -> FromServer]
    BY <2>2, <2>3
  <2> HIDE DEF kept
  <2>5. PICK n \in Nat : kept \in [1..n -> FromServer]
    BY <1>2, <2>4
  <2> QED BY <2>5, SeqDef
<1>4. box = [k \in Connection |-> IF k = c /\ Live(c) THEN down[k] \o kept ELSE down[k]]
  BY <1>1 DEF Deliver
<1> HIDE DEF kept, box
<1>5. ASSUME NEW k \in Connection PROVE box[k] \in Seq(FromServer) /\ Range(down[k]) \subseteq Range(box[k])
  <2>1. down[k] \o kept \in Seq(FromServer) /\ Range(down[k] \o kept) = Range(down[k]) \cup Range(kept)
    BY <1>1, <1>3, ConcatProperties, RangeConcatenation
  <2> QED BY <1>1, <1>4, <2>1
<1>6. arrival \in FromServer
  BY <1>1 DEF FromServer
<1>7. told = [k \in Connection |-> IF Live(k) /\ \E p \in Others(c[1]) : members[p].conn = k
                                   THEN Append(box[k], arrival) ELSE box[k]]
  BY DEF TellArrival
<1> HIDE DEF arrival, told
<1>8. ASSUME NEW k \in Connection
      PROVE  Append(box[k], arrival) \in Seq(FromServer) /\ Range(Append(box[k], arrival)) = Range(box[k]) \cup {arrival}
  BY <1>5, <1>6, AppendIs
<1>9. told \in [Connection -> Seq(FromServer)]
  BY <1>5, <1>7, <1>8
<1>10. \A k \in Connection : Range(down[k]) \subseteq Range(told[k])
  BY <1>5, <1>7, <1>8
<1>11. \A p \in Others(c[1]) : members[p].conn \in Connection /\ Live(members[p].conn) =>
                arrival \in Range(told[members[p].conn])
  BY <1>7, <1>8
<1> QED BY <1>9, <1>10, <1>11 DEF told, box, arrival

LEMMA RemoveAtIs ==
  ASSUME NEW S, NEW s \in Seq(S), NEW i \in 1..Len(s)
  PROVE  LET r == Seqs!RemoveAt(s, i) IN
         /\ r \in Seq(S) /\ Len(r) = Len(s) - 1
         /\ \A j \in 1..Len(r) : r[j] = IF j < i THEN s[j] ELSE s[j + 1]
<1> DEFINE before == SubSeq(s, 1, i - 1)
           after == SubSeq(s, i + 1, Len(s))
           r == Seqs!RemoveAt(s, i)
<1>1. r = before \o after
  BY DEF Seqs!RemoveAt
<1>2. Len(s) \in Nat /\ i \in Nat /\ \A j \in 1..Len(s) : s[j] \in S
  BY LenProperties
<1>3. before \in Seq(S) /\ Len(before) = i - 1 /\ \A j \in 1..i - 1 : before[j] = s[j]
  <2>1. \A j \in 1..i - 1 : s[j] \in S
    BY <1>2
  <2>2. 1 \in Int /\ i - 1 \in Int /\ (IF 1 <= i - 1 THEN (i - 1) - 1 + 1 ELSE 0) = i - 1
    BY <1>2
  <2>3. \A j \in 1..i - 1 : 1 + j - 1 = j
    BY <1>2
  <2> QED BY <2>1, <2>2, <2>3, SubSeqProperties
<1>4. after \in Seq(S) /\ Len(after) = Len(s) - i /\ \A j \in 1..Len(s) - i : after[j] = s[j + i]
  <2>1. \A j \in i + 1..Len(s) : s[j] \in S
    BY <1>2
  <2>2. i + 1 \in Int /\ Len(s) \in Int /\ (IF i + 1 <= Len(s) THEN Len(s) - (i + 1) + 1 ELSE 0) = Len(s) - i
    BY <1>2
  <2>3. \A j \in 1..Len(s) - i : (i + 1) + j - 1 = j + i
    BY <1>2
  <2> QED BY <2>1, <2>2, <2>3, SubSeqProperties
<1> HIDE DEF before, after, r
<1>5. r \in Seq(S) /\ Len(r) = Len(s) - 1
      /\ \A j \in 1..Len(s) - 1 : r[j] = IF j <= i - 1 THEN before[j] ELSE after[j - (i - 1)]
  <2>1. /\ r \in Seq(S) /\ Len(r) = Len(before) + Len(after)
        /\ \A j \in 1..Len(before) + Len(after) :
             r[j] = IF j <= Len(before) THEN before[j] ELSE after[j - Len(before)]
    BY <1>1, <1>3, <1>4, ConcatProperties
  <2>2. Len(before) + Len(after) = Len(s) - 1
    BY <1>2, <1>3, <1>4
  <2> QED BY <1>3, <2>1, <2>2
<1>6. ASSUME NEW j \in 1..Len(s) - 1 PROVE r[j] = IF j < i THEN s[j] ELSE s[j + 1]
  <2>1. CASE j < i
    <3>1. j \in 1..i - 1 /\ j <= i - 1
      BY <1>2, <2>1
    <3> QED BY <1>3, <1>5, <2>1, <3>1
  <2>2. CASE ~(j < i)
    <3>1. j - (i - 1) \in 1..Len(s) - i /\ (j - (i - 1)) + i = j + 1
      BY <1>2, <2>2
    <3> QED BY <1>2, <1>4, <1>5, <2>2, <3>1
  <2> QED BY <2>1, <2>2
<1> QED BY <1>5, <1>6 DEF r

\* A token is taken out, if it is there: the others stay, as they were.
DevicesOnce(ts) == \A i, j \in DOMAIN ts : ts[i].device = ts[j].device => i = j

LEMMA TakenOutIs ==
  ASSUME wake \in Seq(WakeToken), NEW places \in SUBSET DOMAIN wake, \A i, j \in places : i = j
  PROVE  /\ TakenOut(places) \in Seq(WakeToken)
         /\ Range(TakenOut(places)) = {wake[i] : i \in DOMAIN wake \ places}
         /\ places = {} => Len(TakenOut(places)) = Len(wake)
         /\ places # {} => Len(TakenOut(places)) = Len(wake) - 1
         /\ DevicesOnce(wake) => DevicesOnce(TakenOut(places))
<1>1. Len(wake) \in Nat /\ DOMAIN wake = 1..Len(wake)
  BY LenProperties
<1>2. CASE places = {}
  <2>1. TakenOut(places) = wake
    BY <1>2 DEF TakenOut
  <2> QED BY <1>1, <1>2, <2>1, RangeEquality
<1>3. CASE places # {}
  <2>1. PICK i : i = CHOOSE k \in places : TRUE
    OBVIOUS
  <2>2. i \in 1..Len(wake) /\ places = {i}
    BY <1>1, <1>3, <2>1
  <2> DEFINE r == Seqs!RemoveAt(wake, i)
  <2>3. TakenOut(places) = r
    BY <1>3, <2>1 DEF TakenOut
  <2>4. r \in Seq(WakeToken) /\ Len(r) = Len(wake) - 1
        /\ \A j \in 1..Len(r) : r[j] = IF j < i THEN wake[j] ELSE wake[j + 1]
    BY <2>2, RemoveAtIs
  <2> HIDE DEF r
  <2>5. DOMAIN r = 1..Len(wake) - 1 /\ Range(r) = {r[j] : j \in 1..Len(wake) - 1}
    BY <2>4, LenProperties, RangeEquality
  <2>6. Range(r) = {wake[j] : j \in DOMAIN wake \ places}
    <3>1. ASSUME NEW j \in 1..Len(wake) - 1 PROVE \E k \in (1..Len(wake)) \ {i} : r[j] = wake[k]
      <4>1. CASE j < i
        BY <1>1, <2>4, <4>1
      <4>2. CASE ~(j < i)
        <5>1. j + 1 \in (1..Len(wake)) \ {i}
          BY <1>1, <2>2, <4>2
        <5> QED BY <2>4, <4>2, <5>1
      <4> QED BY <4>1, <4>2
    <3>2. ASSUME NEW k \in (1..Len(wake)) \ {i} PROVE \E j \in 1..Len(wake) - 1 : r[j] = wake[k]
      <4>1. CASE k < i
        BY <1>1, <2>2, <2>4, <4>1
      <4>2. CASE ~(k < i)
        <5>1. k - 1 \in 1..Len(wake) - 1 /\ ~(k - 1 < i) /\ (k - 1) + 1 = k
          BY <1>1, <2>2, <4>2
        <5>2. r[k - 1] = wake[k]
          BY <2>4, <5>1
        <5> QED BY <5>1, <5>2
      <4> QED BY <4>1, <4>2
    <3> QED BY <1>1, <2>2, <2>5, <3>1, <3>2
  <2>7. DevicesOnce(wake) => DevicesOnce(r)
    <3> SUFFICES ASSUME DevicesOnce(wake), NEW j \in 1..Len(wake) - 1, NEW k \in 1..Len(wake) - 1,
                        r[j].device = r[k].device
                 PROVE  j = k
      BY <2>5 DEF DevicesOnce
    <3> DEFINE From(n) == IF n < i THEN n ELSE n + 1
    <3>1. From(j) \in 1..Len(wake) /\ From(k) \in 1..Len(wake) /\ r[j] = wake[From(j)] /\ r[k] = wake[From(k)]
      BY <1>1, <2>2, <2>4
    <3>2. From(j) = From(k)
      <4> HIDE DEF From
      <4> QED BY <1>1, <3>1 DEF DevicesOnce
    <3> QED BY <1>1, <2>2, <3>2
  <2> QED BY <1>3, <2>3, <2>4, <2>6, <2>7
<1> QED BY <1>2, <1>3

-----------------------------------------------------------------------------
(* The types.                                                              *)

LEMMA TypesStart ==
  ASSUME SignalAssumption, Init
  PROVE  TypeOK
<1>1. \A S : <<>> \in Seq(S)
  BY EmptySeq
<1>2. members \in [DOMAIN members -> [at: Nat, conn: Connection]] /\ DOMAIN members = {}
  BY DEF Init
<1> QED BY <1>1, <1>2 DEF Init, TypeOK

LEMMA ConnectKeepsTypes ==
  ASSUME SignalAssumption, TypeOK, NEW d \in Device, Connect(d)
  PROVE  TypeOK' /\ up'[Latest(d)'] = <<Announce(d)>> \o commands[d] /\ Latest(d)' \in Connection
         /\ \A c \in Connection : c # Latest(d)' => up'[c] = up[c]
<1>1. opened' = [opened EXCEPT ![d] = @ + 1] /\ opened' \in [Device -> Nat] /\ opened'[d] = opened[d] + 1
  BY DEF Connect, TypeOK
<1>2. Latest(d)' = <<d, opened[d] + 1>> /\ Latest(d)' \in Connection
  <2>1. opened[d] + 1 \in 1..MaxOpened[d]
    BY DEF Connect, TypeOK, SignalAssumption
  <2>2. Latest(d)' = <<d, opened[d] + 1>>
    BY <1>1 DEF Latest
  <2> QED BY <2>1, <2>2, OfConnection
<1>3. <<Announce(d)>> \o commands[d] \in Seq(FromClient)
  <2>1. Announce(d) \in FromClient
    BY DEF TypeOK, Announce, FromClient
  <2>2. commands[d] \in Seq(FromClient)
    BY SeqMonotonic DEF TypeOK, FromClient
  <2>3. <<Announce(d)>> \in Seq(FromClient)
    BY <2>1
  <2> QED BY <2>2, <2>3, ConcatProperties
<1>4. up' \in [Connection -> Seq(FromClient)] /\ up'[Latest(d)'] = <<Announce(d)>> \o commands[d]
      /\ \A c \in Connection : c # Latest(d)' => up'[c] = up[c]
  <2>1. up' = [up EXCEPT ![Latest(d)'] = <<Announce(d)>> \o commands[d]] /\ up \in [Connection -> Seq(FromClient)]
    BY DEF Connect, TypeOK
  <2> HIDE DEF Latest
  <2> QED BY <1>2, <1>3, <2>1
<1>5. commands' \in [Device -> Seq(Ordered)] /\ here' \in [Device -> Nat]
  <2>1. <<>> \in Seq(Ordered)
    BY EmptySeq
  <2> QED BY <2>1 DEF Connect, TypeOK
<1>6. held' \subseteq Connection /\ announced' \subseteq held'
  BY <1>2 DEF Connect, TypeOK
<1>7. online' \subseteq Device
  BY DEF Connect, TypeOK
<1>8. UNCHANGED <<at, issued, members, notes, wake, unwritten, down, owed, said, displaced>>
  BY DEF Connect, history
<1>9. TypeOK'
  BY <1>1, <1>4, <1>5, <1>6, <1>7, <1>8 DEF TypeOK
<1> QED BY <1>2, <1>4, <1>9

LEMMA GoneKeepsTypes ==
  ASSUME TypeOK, NEW ds, Gone(ds)
  PROVE  online' \subseteq Device /\ down' \in [Connection -> Seq(FromServer)]
<1>1. \A S : <<>> \in Seq(S)
  BY EmptySeq
<1>2. \A c \in Connection : (IF c[1] \in ds THEN <<>> ELSE down[c]) \in Seq(FromServer)
  BY <1>1 DEF TypeOK
<1> QED BY <1>2 DEF TypeOK, Gone

LEMMA CommandKeepsTypes ==
  ASSUME TypeOK, NEW d \in Device, NEW msg \in Ordered, Command(d, msg), issued' \in [Device -> Nat]
  PROVE  TypeOK'
<1>1. commands' \in [Device -> Seq(Ordered)]
  <2>1. Append(commands[d], msg) \in Seq(Ordered)
    BY AppendIs DEF TypeOK
  <2> QED BY <2>1 DEF Command, TypeOK
<1>2. up' \in [Connection -> Seq(FromClient)]
  <2>1. msg \in FromClient
    BY DEF FromClient
  <2> QED BY <2>1, SaidIs DEF Command, TypeOK
<1>3. UNCHANGED <<opened, online, at, here, held, announced, members, notes, wake, unwritten, down, owed, said, displaced>>
  BY DEF Command, service, history
<1> QED BY <1>1, <1>2, <1>3 DEF TypeOK

LEMMA HearKeepsTypes ==
  ASSUME TypeOK, OnlineIsHeld, NEW d \in Device, Hear(d)
  PROVE  TypeOK'
<1>1. /\ down' = [down EXCEPT ![Latest(d)] = Tail(@)] /\ down[Latest(d)] # <<>>
      /\ UNCHANGED <<opened, online, at, here, issued, commands, held, announced, members, notes, wake, unwritten, said, displaced>>
  BY DEF Hear, service
<1>2. Latest(d) \in Connection
  BY DEF Hear, OnlineIsHeld, TypeOK
<1>3. Head(down[Latest(d)]) \in FromServer /\ Tail(down[Latest(d)]) \in Seq(FromServer)
  BY <1>1, <1>2, TailIs DEF TypeOK
<1>4. down' \in [Connection -> Seq(FromServer)]
  BY <1>1, <1>2, <1>3 DEF TypeOK
<1>5. owed' \subseteq Device \X Device
  BY DEF Hear, TypeOK, ToldOf
<1>6. up' \in [Connection -> Seq(FromClient)]
  <2> DEFINE msg == Head(down[Latest(d)])
  <2>1. CASE msg.say = "connect" /\ Say(Latest(d), [say |-> "accept", to |-> msg.from, at |-> here[d]])
    <3>1. msg.from \in Device
      BY <1>3, <2>1 DEF FromServer
    <3>2. [say |-> "accept", to |-> msg.from, at |-> here[d]] \in FromClient
      BY <3>1 DEF FromClient, TypeOK
    <3> QED BY <2>1, <3>2, SaidIs
  <2>2. CASE up' = up
    BY <2>2 DEF TypeOK
  <2> QED BY <2>1, <2>2 DEF Hear, ToldOf
<1> QED BY <1>1, <1>4, <1>5, <1>6 DEF TypeOK

LEMMA LeaveKeepsTypes ==
  ASSUME TypeOK, NEW d \in Device, Leave(d)
  PROVE  /\ DOMAIN members' = DOMAIN members \ {d} /\ \A p \in DOMAIN members' : members'[p] = members[p]
         /\ members' \in [DOMAIN members' -> [at: Nat, conn: Connection]]
         /\ notes' \in [Device -> SUBSET Device]
<1>1. members' = [p \in DOMAIN members \ {d} |-> members[p]]
  BY DEF Leave, Restrict
<1>2. notes' \in [Device -> SUBSET Device]
  BY DEF Leave, TypeOK
<1> QED BY <1>1, <1>2 DEF TypeOK

\* Serving a message takes it off its connection.
LEMMA ServeIs ==
  ASSUME TypeOK, NEW c \in Connection, Serve(c)
  PROVE  /\ up' \in [Connection -> Seq(FromClient)] /\ up'[c] = Tail(up[c])
         /\ \A k \in Connection : k # c => up'[k] = up[k]
         /\ up[c] \in Seq(FromClient) /\ up[c] # <<>> /\ Head(up[c]) \in FromClient
         /\ UNCHANGED <<opened, online, at, here, issued, commands, held, restarts>> /\ c \in held
<1>1. up' = [up EXCEPT ![c] = Tail(@)] /\ up[c] # <<>> /\ up[c] \in Seq(FromClient)
  BY DEF Serve, TypeOK
<1>2. Head(up[c]) \in FromClient /\ Tail(up[c]) \in Seq(FromClient)
  BY <1>1, TailIs
<1> QED BY <1>1, <1>2 DEF Serve, device, TypeOK

LEMMA AnnounceKeepsTypes ==
  ASSUME SignalAssumption, TypeOK, NEW c \in Connection, Serve(c), NEW msg \in FromClient,
         msg.say = "announce", ServeAnnounce(c, msg)
  PROVE  TypeOK'
<1>1. UNCHANGED <<wake, unwritten, owed, said, opened, online, at, here, issued, commands, held>>
      /\ up' \in [Connection -> Seq(FromClient)] /\ c \in held
  BY ServeIs DEF ServeAnnounce
<1>2. msg.at \in Nat /\ c[1] \in Device
  BY ConnectionIs DEF FromClient, Ordered
<1>3. CASE Full(c[1])
  <2>1. down' \in [Connection -> Seq(FromServer)]
    <3>1. [say |-> "error"] \in FromServer
      BY DEF FromServer
    <3>2. down' = Sent(down, c, [say |-> "error"]) /\ down \in [Connection -> Seq(FromServer)]
      BY <1>3 DEF ServeAnnounce, TypeOK
    <3> QED BY <3>1, <3>2, SentIs
  <2> QED BY <1>1, <1>3, <2>1 DEF TypeOK, ServeAnnounce
<1>4. CASE ~Full(c[1])
  <2>1. down' \in [Connection -> Seq(FromServer)]
    <3>1. PICK froms \in Orders(notes[c[1]]) : down' = TellArrival(Deliver(down, c, froms), c[1])
      BY <1>4 DEF ServeAnnounce
    <3> QED BY <3>1, ArrivalIs
  <2>2. notes' \in [Device -> SUBSET Device]
    BY <1>2, <1>4 DEF ServeAnnounce, TypeOK
  <2>3. members' = [d \in DOMAIN members \cup {c[1]} |->
                      IF d = c[1] THEN [at |-> msg.at, conn |-> c] ELSE members[d]]
        /\ announced' = announced \cup {c}
    BY <1>4 DEF ServeAnnounce
  <2>4. DOMAIN members' = DOMAIN members \cup {c[1]}
        /\ members' \in [DOMAIN members \cup {c[1]} -> [at: Nat, conn: Connection]]
    BY <1>2, <2>3 DEF TypeOK
  <2>5. displaced' \subseteq Device
    BY <1>2, <1>4 DEF ServeAnnounce, TypeOK
  <2> QED BY <1>1, <1>2, <2>1, <2>2, <2>3, <2>4, <2>5 DEF TypeOK
<1> QED BY <1>3, <1>4

LEMMA ServeKeepsTypes ==
  ASSUME SignalAssumption, TypeOK, DevicesOnce(wake), NEW c \in Connection, Serve(c)
  PROVE  TypeOK'
<1> DEFINE msg == Head(up[c])
<1>1. UNCHANGED <<opened, online, at, here, issued, commands, held>>
      /\ up' \in [Connection -> Seq(FromClient)] /\ msg \in FromClient
  BY ServeIs
<1>2. c[1] \in Device /\ [say |-> "error"] \in FromServer
  BY ConnectionIs DEF FromServer
<1> HIDE DEF msg
<1>3. CASE msg.say = "announce" /\ ServeAnnounce(c, msg)
  BY <1>1, <1>3, AnnounceKeepsTypes
<1>4. CASE ServeEarly(c)
  <2>1. down' \in [Connection -> Seq(FromServer)]
    BY <1>2, <1>4, SentIs DEF TypeOK, ServeEarly
  <2> QED BY <1>1, <1>4, <2>1 DEF TypeOK, ServeEarly, history
<1>5. CASE msg.say = "reachable" /\ ServeReachable(c, msg)
  <2>1. msg.via \in Nat
    BY <1>1, <1>5 DEF FromClient, Ordered
  <2>2. said' \in [Device -> Nat]
    <3>1. ASSUME NEW p \in Device
          PROVE  (IF p = c[1] THEN msg.via
                  ELSE IF msg.via # 0 /\ Len(Without(c[1])) = MaxTokens /\ wake[1].device = p
                       THEN 0 ELSE said[p]) \in Nat
      BY <2>1 DEF TypeOK
    <3> QED BY <1>5, <3>1 DEF ServeReachable
  <2>3. wake' \in Seq(WakeToken)
    <3>1. Without(c[1]) \in Seq(WakeToken)
      <4> DEFINE places == {i \in DOMAIN wake : wake[i].device = c[1]}
      <4>1. places \in SUBSET DOMAIN wake /\ \A i, j \in places : i = j
        BY DEF DevicesOnce
      <4>2. wake \in Seq(WakeToken) /\ Without(c[1]) = TakenOut(places)
        BY DEF Without, TypeOK
      <4> HIDE DEF places
      <4> QED BY <4>1, <4>2, TakenOutIs
    <3>2. Token(c[1], msg.via) \in WakeToken
      BY <1>2, <2>1 DEF Token, WakeToken
    <3>3. Append(Without(c[1]), Token(c[1], msg.via)) \in Seq(WakeToken)
          /\ Append(Without(c[1]), Token(c[1], msg.via)) # <<>>
      BY <3>1, <3>2, AppendProperties
    <3>4. Evicted(Append(Without(c[1]), Token(c[1], msg.via))) \in Seq(WakeToken)
      BY <3>3, TailIs DEF Evicted
    <3> QED BY <1>5, <3>1, <3>4 DEF ServeReachable
  <2>4. unwritten' \in BOOLEAN
    BY <1>5 DEF TypeOK, ServeReachable, Save
  <2> QED BY <1>1, <1>5, <2>2, <2>3, <2>4 DEF TypeOK, ServeReachable
<1>6. CASE msg.say = "waiting" /\ ServeWaiting(c, msg)
  <2>1. msg.to \in Device
    BY <1>1, <1>6 DEF FromClient, Ordered
  <2>2. down' \in [Connection -> Seq(FromServer)]
    <3>1. [say |-> "waiting", from |-> c[1]] \in FromServer
      BY <1>2 DEF FromServer
    <3> QED BY <1>6, <3>1, SentToIs DEF TypeOK, ServeWaiting
  <2>3. notes' \in [Device -> SUBSET Device]
    BY <1>2, <1>6, <2>1 DEF ServeWaiting, Kept, TypeOK
  <2>4. owed' \subseteq Device \X Device
    <3>1. owed' = owed \cup {<<c[1], msg.to>>} /\ owed \subseteq Device \X Device
      BY <1>6 DEF ServeWaiting, TypeOK
    <3>2. <<c[1], msg.to>> \in Device \X Device
      BY <1>2, <2>1
    <3> QED BY <3>1, <3>2
  <2> QED BY <1>1, <1>6, <2>2, <2>3, <2>4 DEF TypeOK, ServeWaiting
<1>7. CASE ServeConnect(c, msg)
  <2>1. down' \in [Connection -> Seq(FromServer)]
    <3>1. [say |-> "connect", from |-> c[1]] \in FromServer
      BY <1>2 DEF FromServer
    <3> QED BY <1>2, <1>7, <3>1, SentToIs, SentIs DEF TypeOK, ServeConnect
  <2> QED BY <1>1, <1>7, <2>1 DEF TypeOK, ServeConnect, history
<1>8. CASE msg.say = "accept" /\ ServeAccept(c, msg)
  <2>1. msg.to \in Device
    BY <1>1, <1>8 DEF FromClient, Ordered
  <2>2. down' \in [Connection -> Seq(FromServer)]
    <3>1. [say |-> "punch", from |-> c[1]] \in FromServer /\ [say |-> "punch", from |-> msg.to] \in FromServer
      BY <1>2, <2>1 DEF FromServer
    <3>2. SentTo(down, msg.to, [say |-> "punch", from |-> c[1]]) \in [Connection -> Seq(FromServer)]
      BY <3>1, SentToIs DEF TypeOK
    <3> QED BY <1>2, <1>8, <3>1, <3>2, SentIs DEF TypeOK, ServeAccept
  <2> QED BY <1>1, <1>8, <2>2 DEF TypeOK, ServeAccept, history
<1> QED BY <1>3, <1>4, <1>5, <1>6, <1>7, <1>8 DEF Serve, msg

LEMMA EndKeepsTypes ==
  ASSUME TypeOK, NEW c \in Connection, End(c)
  PROVE  TypeOK'
<1>1. /\ UNCHANGED <<opened, online, at, here, issued, commands, wake, unwritten, down, owed, said>>
      /\ held' = held \ {c} /\ announced' = announced \ {c}
  BY DEF End, device
<1>2. up' \in [Connection -> Seq(FromClient)]
  <2>1. <<>> \in Seq(FromClient)
    BY EmptySeq
  <2> QED BY <2>1 DEF End, TypeOK
<1>3. DOMAIN members' \subseteq Device /\ members' \in [DOMAIN members' -> [at: Nat, conn: Connection]]
      /\ notes' \in [Device -> SUBSET Device]
  <2>1. CASE Leave(c[1])
    BY <2>1, ConnectionIs, LeaveKeepsTypes DEF TypeOK
  <2>2. CASE UNCHANGED <<members, notes>>
    BY <2>2 DEF TypeOK
  <2> QED BY <2>1, <2>2 DEF End
<1>4. held' \subseteq Connection /\ announced' \subseteq held'
  BY <1>1 DEF TypeOK
<1>5. displaced' \subseteq Device
  BY ConnectionIs DEF End, TypeOK
<1> QED BY <1>1, <1>2, <1>3, <1>4, <1>5 DEF TypeOK

-----------------------------------------------------------------------------
(* The tokens.                                                             *)

\* What the file may hold: it was the tokens at some time.
Savable(ts) == ts \in Seq(WakeToken) /\ DevicesOnce(ts) /\ Len(ts) <= MaxTokens

TokenInv ==
    /\ DevicesOnce(wake) /\ Len(wake) <= MaxTokens
    /\ \E ts : Savable(ts) /\ disk = Range(ts)
    /\ ~unwritten => disk = Range(wake)
    /\ \A t \in Range(wake) \cup disk : t.issue <= issued[t.device]
    /\ TokensAreKept

\* A place in a sequence, for a member of its range.
LEMMA InRange ==
  ASSUME NEW S, NEW s \in Seq(S)
  PROVE  /\ Len(s) \in Nat /\ DOMAIN s = 1..Len(s)
         /\ \A x : x \in Range(s) <=> \E i \in 1..Len(s) : x = s[i]
BY LenProperties, RangeEquality

LEMMA WithoutIs ==
  ASSUME TypeOK, TokenInv, NEW d
  PROVE  /\ Without(d) \in Seq(WakeToken) /\ DevicesOnce(Without(d)) /\ Len(Without(d)) <= Len(wake)
         /\ \A t : t \in Range(Without(d)) <=> t \in Range(wake) /\ t.device # d
         /\ Len(Without(d)) = Len(wake) => Without(d) = wake /\ \A t \in Range(wake) : t.device # d
<1> DEFINE places == {i \in DOMAIN wake : wake[i].device = d}
<1>1. places \in SUBSET DOMAIN wake /\ \A i, j \in places : i = j
  BY DEF DevicesOnce, TokenInv
<1>2. wake \in Seq(WakeToken) /\ Without(d) = TakenOut(places)
  BY DEF Without, TypeOK
<1>3. Len(wake) \in Nat /\ DOMAIN wake = 1..Len(wake) /\ \A x : x \in Range(wake) <=> \E i \in 1..Len(wake) : x = wake[i]
  BY <1>2, InRange
<1>4. \A i \in DOMAIN wake : i \in places <=> wake[i].device = d
  OBVIOUS
<1> HIDE DEF places
<1>5. /\ TakenOut(places) \in Seq(WakeToken)
      /\ Range(TakenOut(places)) = {wake[i] : i \in DOMAIN wake \ places}
      /\ places = {} => Len(TakenOut(places)) = Len(wake)
      /\ places # {} => Len(TakenOut(places)) = Len(wake) - 1
      /\ DevicesOnce(TakenOut(places))
  BY <1>1, <1>2, TakenOutIs DEF TokenInv
<1>6. ASSUME NEW t PROVE t \in Range(Without(d)) <=> t \in Range(wake) /\ t.device # d
  <2>1. t \in Range(Without(d)) <=> \E i \in DOMAIN wake \ places : t = wake[i]
    BY <1>2, <1>5
  <2>2. t \in Range(wake) <=> \E i \in DOMAIN wake : t = wake[i]
    BY <1>3
  <2> QED BY <1>4, <2>1, <2>2
<1>7. Len(Without(d)) <= Len(wake) /\ (Len(Without(d)) = Len(wake) => places = {})
  <2>1. (places = {} => Len(Without(d)) = Len(wake)) /\ (places # {} => Len(Without(d)) = Len(wake) - 1)
    BY <1>2, <1>5
  <2> DEFINE m == Len(Without(d))
             n == Len(wake)
  <2>2. n \in Nat /\ (m = n \/ m = n - 1) /\ (places # {} => m = n - 1)
    <3>1. n \in Nat
      BY <1>3
    <3>2. m = n \/ m = n - 1
      BY ONLY <2>1, Zenon
    <3>3. places # {} => m = n - 1
      BY ONLY <2>1, Zenon
    <3> QED BY <3>1, <3>2, <3>3
  <2> HIDE DEF m, n
  <2>3. m <= n /\ (m = n => places = {})
    BY <2>2
  <2> QED BY <2>3 DEF m, n
<1>8. places = {} => Without(d) = wake /\ \A t \in Range(wake) : t.device # d
  BY <1>2, <1>3, <1>4 DEF TakenOut
<1> QED BY <1>2, <1>5, <1>6, <1>7, <1>8

\* save_wake_tokens: what is in the file was the tokens once, and is if it could
\* be written.
LEMMA SaveKeepsTokens ==
  ASSUME TokenInv, wake \in Seq(WakeToken), wake' \in Seq(WakeToken), Save(wake'),
         UNCHANGED issued, DevicesOnce(wake)', Len(wake') <= MaxTokens, TokensAreKept',
         \A t \in Range(wake') : t.issue <= issued[t.device]
  PROVE  TokenInv'
<1>1. Savable(wake')
  BY DEF Savable, DevicesOnce
<1>2. CASE wake' = wake /\ disk' = disk /\ unwritten' = unwritten
  BY <1>2 DEF TokenInv, Savable, DevicesOnce
<1>3. CASE disk' = Range(wake') /\ unwritten' = FALSE
  BY <1>1, <1>3 DEF TokenInv, Savable, DevicesOnce
<1>4. CASE disk' = disk /\ unwritten' = TRUE
  BY <1>4 DEF TokenInv, Savable, DevicesOnce
<1> QED BY <1>2, <1>3, <1>4 DEF Save, Saved

\* set_wake_token: the newest replaces what was there of that device, and puts
\* out the oldest if there are too many.
LEMMA ReachableKeepsTokens ==
  ASSUME SignalAssumption, TypeOK, TokenInv, NEW c \in Connection, NEW msg, msg.via \in Nat,
         ServeReachable(c, msg), issued' = issued
  PROVE  DevicesOnce(wake)' /\ Len(wake') <= MaxTokens /\ TokensAreKept'
         /\ \A t \in Range(wake') : t \in Range(wake) \/ t = Token(c[1], msg.via)
<1> DEFINE w == Without(c[1])
           token == Token(c[1], msg.via)
           ts == Append(w, token)
<1>1. /\ w \in Seq(WakeToken) /\ DevicesOnce(w) /\ Len(w) <= Len(wake)
      /\ \A t : t \in Range(w) <=> t \in Range(wake) /\ t.device # c[1]
      /\ Len(w) = Len(wake) => w = wake /\ \A t \in Range(wake) : t.device # c[1]
  BY WithoutIs
<1>2. /\ wake' = IF msg.via = 0 THEN w ELSE Evicted(ts)
      /\ \A p \in Device : said'[p] = IF p = c[1] THEN msg.via
                                      ELSE IF msg.via # 0 /\ Len(w) = MaxTokens /\ wake[1].device = p
                                           THEN 0 ELSE said[p]
  BY DEF ServeReachable
<1>3. token \in WakeToken /\ token.device = c[1] /\ token.issue = msg.via /\ c[1] \in Device
  BY ConnectionIs DEF Token, WakeToken
<1>4. MaxTokens \in Nat /\ MaxTokens > 0 /\ Len(wake) \in Nat /\ Len(wake) <= MaxTokens /\ Len(w) \in Nat
  BY <1>1, InRange DEF SignalAssumption, TypeOK, TokenInv
<1>5. /\ \A t \in Range(wake) : t.issue = said[t.device] /\ t.device \in Device
      /\ \A d \in Device : said[d] # 0 /\ said[d] = issued[d] => Token(d, said[d]) \in Range(wake)
  <2>1. wake \in Seq(WakeToken) /\ Range(wake) \in SUBSET WakeToken
    BY RangeOfSeq DEF TypeOK
  <2>2. \A t \in Range(wake) : t.device \in Device
    BY <2>1 DEF WakeToken
  <2> QED BY <2>2 DEF TokenInv, TokensAreKept
<1>6. \A d \in Device, k \in Nat : Token(d, k).device = d
  BY DEF Token
<1> HIDE DEF w, token
<1>7. CASE msg.via = 0
  <2>1. wake' = w /\ \A p \in Device : said'[p] = IF p = c[1] THEN 0 ELSE said[p]
    BY <1>2, <1>7
  <2>2. TokensAreKept'
    <3>1. \A t \in Range(w) : t.issue = said'[t.device]
      BY <1>1, <1>5, <2>1
    <3>2. ASSUME NEW d \in Device, said'[d] # 0, said'[d] = issued'[d] PROVE Token(d, said'[d]) \in Range(w)
      <4>1. d # c[1] /\ said'[d] = said[d] /\ Token(d, said[d]) \in Range(wake)
        BY <1>5, <2>1, <3>2
      <4>2. Token(d, said[d]).device = d
        BY <1>6 DEF TypeOK
      <4> QED BY <1>1, <4>1, <4>2
    <3> QED BY <2>1, <3>1, <3>2 DEF TokensAreKept, Token
  <2>3. Len(wake') <= MaxTokens
    BY <1>1, <1>4, <2>1
  <2> QED BY <1>1, <2>1, <2>2, <2>3 DEF DevicesOnce
<1>8. ASSUME msg.via # 0 PROVE /\ ts \in Seq(WakeToken) /\ Range(ts) = Range(w) \cup {token}
                               /\ Len(ts) = Len(w) + 1 /\ DevicesOnce(ts)
  <2>1. /\ ts \in Seq(WakeToken) /\ Range(ts) = Range(w) \cup {token} /\ Len(ts) = Len(w) + 1
        /\ \A i \in 1..Len(w) : ts[i] = w[i]
        /\ ts[Len(w) + 1] = token
    BY <1>1, <1>3, AppendIs
  <2>2. DOMAIN ts = 1..Len(w) + 1 /\ DOMAIN w = 1..Len(w) /\ \A i \in 1..Len(w) : w[i] \in Range(w)
    BY <1>1, <2>1, InRange
  <2>3. \A i \in 1..Len(w) : ts[i].device # c[1] /\ ts[i] = w[i]
    BY <1>1, <2>1, <2>2
  <2>4. ASSUME NEW i \in 1..Len(w) + 1, NEW j \in 1..Len(w) + 1, ts[i].device = ts[j].device PROVE i = j
    <3>1. CASE i \in 1..Len(w) /\ j \in 1..Len(w)
      <4>1. w[i].device = w[j].device
        BY <2>3, <2>4, <3>1
      <4> QED BY <1>1, <2>2, <3>1, <4>1 DEF DevicesOnce
    <3>2. CASE i = Len(w) + 1 \/ j = Len(w) + 1
      <4>1. \A k \in 1..Len(w) + 1 : k = Len(w) + 1 \/ ts[k].device # c[1]
        BY <1>4, <2>3
      <4>2. ts[Len(w) + 1].device = c[1]
        BY <1>3, <2>1
      <4> HIDE DEF ts
      <4> QED BY <2>4, <3>2, <4>1, <4>2
    <3> QED BY <1>4, <3>1, <3>2
  <2>5. DevicesOnce(ts)
    <3> HIDE DEF ts
    <3> QED BY <2>2, <2>4 DEF DevicesOnce
  <2> QED BY <2>1, <2>5
<1>9. CASE msg.via # 0 /\ Len(w) < MaxTokens
  <2>1. wake' = ts /\ \A p \in Device : said'[p] = IF p = c[1] THEN msg.via ELSE said[p]
    BY <1>2, <1>4, <1>8, <1>9 DEF Evicted
  <2> HIDE DEF ts
  <2>2. TokensAreKept'
    <3>1. \A t \in Range(ts) : t.issue = said'[t.device]
      BY <1>1, <1>3, <1>5, <1>8, <1>9, <2>1
    <3>2. ASSUME NEW d \in Device, said'[d] # 0, said'[d] = issued'[d] PROVE Token(d, said'[d]) \in Range(ts)
      <4>1. CASE d = c[1]
        BY <1>8, <1>9, <2>1, <4>1 DEF token
      <4>2. CASE d # c[1]
        <5>1. said'[d] = said[d] /\ Token(d, said[d]) \in Range(wake)
          BY <1>5, <2>1, <3>2, <4>2
        <5>2. Token(d, said[d]).device = d
          BY <1>6 DEF TypeOK
        <5> QED BY <1>1, <1>8, <1>9, <4>2, <5>1, <5>2
      <4> QED BY <4>1, <4>2
    <3> QED BY <2>1, <3>1, <3>2 DEF TokensAreKept, Token
  <2>3. Len(wake') <= MaxTokens
    BY <1>4, <1>8, <1>9, <2>1
  <2> QED BY <1>1, <1>8, <1>9, <2>1, <2>2, <2>3 DEF DevicesOnce, token
<1>10. CASE msg.via # 0 /\ ~(Len(w) < MaxTokens)
  <2>1. Len(w) = MaxTokens /\ Len(wake) = MaxTokens /\ w = wake /\ \A t \in Range(wake) : t.device # c[1]
    BY <1>1, <1>4, <1>10
  <2>2. /\ wake' = Tail(ts) /\ Len(ts) = MaxTokens + 1
        /\ \A p \in Device : said'[p] = IF p = c[1] THEN msg.via ELSE IF wake[1].device = p THEN 0 ELSE said[p]
    BY <1>2, <1>4, <1>8, <1>10, <2>1 DEF Evicted
  <2>3. /\ ts \in Seq(WakeToken) /\ DevicesOnce(ts) /\ \A i \in 1..MaxTokens : ts[i] = wake[i]
        /\ ts[MaxTokens + 1] = token /\ ts # <<>>
    <3>1. Append(w, token) # <<>> /\ Append(w, token)[Len(w) + 1] = token
          /\ \A i \in 1..Len(w) : Append(w, token)[i] = w[i]
      BY <1>1, <1>3, AppendProperties
    <3> QED BY <1>8, <1>10, <2>1, <3>1
  <2> HIDE DEF ts
  <2>4. /\ Tail(ts) \in Seq(WakeToken) /\ Len(Tail(ts)) = MaxTokens
        /\ \A i \in 1..MaxTokens : Tail(ts)[i] = ts[i + 1]
    BY <1>4, <2>2, <2>3, TailIs
  <2>5. \A t : t \in Range(Tail(ts)) <=> \E i \in 1..MaxTokens : t = ts[i + 1]
    <3> DEFINE u == Tail(ts)
    <3>1. u \in Seq(WakeToken) /\ Len(u) = MaxTokens /\ \A i \in 1..MaxTokens : u[i] = ts[i + 1]
      BY <2>4
    <3> HIDE DEF u
    <3>2. \A t : t \in Range(u) <=> \E i \in 1..MaxTokens : t = u[i]
      BY <3>1, InRange
    <3>3. ASSUME NEW t
          PROVE  t \in Range(u) <=> \E i \in 1..MaxTokens : t = ts[i + 1]
      <4>1. t \in Range(u) <=> \E i \in 1..MaxTokens : t = u[i]
        BY <3>2
      <4>2. \A i \in 1..MaxTokens : u[i] = ts[i + 1]
        BY <3>1
      <4> QED BY <4>1, <4>2, ZenonT(30)
    <3> QED BY <3>3 DEF u
  <2>6. DOMAIN Tail(ts) = 1..MaxTokens /\ DOMAIN ts = 1..MaxTokens + 1 /\ DOMAIN wake = 1..MaxTokens
        /\ \A t : t \in Range(wake) <=> \E i \in 1..MaxTokens : t = wake[i]
    BY <2>1, <2>2, <2>3, <2>4, InRange DEF TypeOK
  <2>7. DevicesOnce(Tail(ts))
    <3> SUFFICES ASSUME NEW i \in 1..MaxTokens, NEW j \in 1..MaxTokens, Tail(ts)[i].device = Tail(ts)[j].device
                 PROVE  i = j
      BY <2>6 DEF DevicesOnce
    <3>1. i + 1 \in 1..MaxTokens + 1 /\ j + 1 \in 1..MaxTokens + 1 /\ ts[i + 1].device = ts[j + 1].device
      BY <1>4, <2>4
    <3>2. i + 1 = j + 1
      BY <2>3, <2>6, <3>1 DEF DevicesOnce
    <3> QED BY <1>4, <3>2
  <2>8. \A t : t \in Range(Tail(ts)) <=> t = token \/ (t \in Range(wake) /\ t.device # wake[1].device)
    <3>1. ASSUME NEW i \in 1..MaxTokens
          PROVE  \/ ts[i + 1] = token
                 \/ ts[i + 1] \in Range(wake) /\ ts[i + 1].device # wake[1].device
      <4>1. CASE i = MaxTokens
        BY <2>3, <4>1
      <4>2. CASE i # MaxTokens
        <5>1. i + 1 \in 1..MaxTokens /\ i + 1 # 1 /\ 1 \in 1..MaxTokens
          BY <1>4, <4>2
        <5>2. wake[i + 1].device # wake[1].device
          BY <2>6, <5>1 DEF DevicesOnce, TokenInv
        <5> QED BY <2>3, <2>6, <5>1, <5>2
      <4> QED BY <4>1, <4>2
    <3>2. token \in Range(Tail(ts))
      BY <1>4, <2>3, <2>5
    <3>3. ASSUME NEW i \in 1..MaxTokens, wake[i].device # wake[1].device PROVE wake[i] \in Range(Tail(ts))
      <4>1. i - 1 \in 1..MaxTokens /\ (i - 1) + 1 = i
        BY <1>4, <3>3
      <4> QED BY <2>3, <2>5, <4>1
    <3>4. ASSUME NEW t \in Range(Tail(ts)) PROVE t = token \/ (t \in Range(wake) /\ t.device # wake[1].device)
      <4>1. PICK i \in 1..MaxTokens : t = ts[i + 1]
        BY <2>5
      <4> QED BY <3>1, <4>1
    <3>5. ASSUME NEW t \in Range(wake), t.device # wake[1].device PROVE t \in Range(Tail(ts))
      <4>1. PICK i \in 1..MaxTokens : t = wake[i]
        BY <2>6
      <4> QED BY <3>3, <3>5, <4>1
    <3> QED BY <3>2, <3>4, <3>5, Zenon
  <2>9. TokensAreKept'
    <3>1. \A t \in Range(Tail(ts)) : t.issue = said'[t.device]
      BY <1>3, <1>5, <2>1, <2>2, <2>8
    <3>2. ASSUME NEW d \in Device, said'[d] # 0, said'[d] = issued'[d] PROVE Token(d, said'[d]) \in Range(Tail(ts))
      <4>1. CASE d = c[1]
        BY <2>2, <2>8, <4>1 DEF token
      <4>2. CASE d # c[1]
        <5>1. said'[d] = said[d] /\ Token(d, said[d]) \in Range(wake) /\ wake[1].device # d
          BY <1>5, <2>2, <3>2, <4>2
        <5>2. Token(d, said[d]).device = d
          BY <1>6 DEF TypeOK
        <5> QED BY <2>8, <5>1, <5>2
      <4> QED BY <4>1, <4>2
    <3> QED BY <2>2, <3>1, <3>2 DEF TokensAreKept, Token
  <2>10. DevicesOnce(wake)' /\ Len(wake') <= MaxTokens
    BY <1>4, <2>2, <2>4, <2>7 DEF DevicesOnce
  <2> QED BY <2>2, <2>8, <2>9, <2>10 DEF token
<1> QED BY <1>7, <1>9, <1>10

\* Every place of a set in some order, and nothing else.
LEMMA OrdersIs ==
  ASSUME NEW S, IsFiniteSet(S), NEW s \in Orders(S)
  PROVE  s \in Seq(S) /\ Len(s) = Cardinality(S) /\ Range(s) = S
<1> DEFINE n == Cardinality(S)
<1>1. n \in Nat
  BY FS_CardinalityType
<1>2. s \in [1..n -> S] /\ \A i, j \in 1..n : s[i] = s[j] => i = j
  BY DEF Orders
<1> HIDE DEF n
<1>3. IsFiniteSet(1..n) /\ Cardinality(1..n) = n
  BY <1>1, FS_Interval
<1>4. s \in Injection(1..n, S)
  BY <1>2 DEF Injection, IsInjective
<1>5. s \in Surjection(1..n, S)
  BY <1>3, <1>4, FS_Injection DEF n
<1>6. s \in Seq(S) /\ Len(s) = n
  BY <1>1, <1>2, SeqDef, LenProperties
<1>7. Range(s) = S
  BY <1>2, <1>5 DEF Surjection, Range
<1> QED BY <1>6, <1>7 DEF n

\* load_wake_tokens: what was saved is what is loaded, one token of each device.
LEMMA LoadedIs ==
  ASSUME SignalAssumption, NEW kept, Savable(kept), NEW ts \in Orders(Range(kept))
  PROVE  Savable(ts) /\ Range(ts) = Range(kept) /\ Range(kept) \subseteq WakeToken
         /\ \A t, u \in Range(kept) : t.device = u.device => t = u
<1>1. /\ kept \in Seq(WakeToken) /\ Len(kept) \in Nat /\ DOMAIN kept = 1..Len(kept)
      /\ \A x : x \in Range(kept) <=> \E i \in 1..Len(kept) : x = kept[i]
      /\ Range(kept) \subseteq WakeToken
  BY InRange, RangeOfSeq DEF Savable
<1>2. IsFiniteSet(1..Len(kept)) /\ Cardinality(1..Len(kept)) = Len(kept)
  <2>1. ASSUME NEW n \in Nat PROVE IsFiniteSet(1..n) /\ Cardinality(1..n) = n
    <3>1. 1 \in Int /\ n \in Int /\ (IF 1 > n THEN 0 ELSE n - 1 + 1) = n
      OBVIOUS
    <3> QED BY <3>1, FS_Interval
  <2>2. Len(kept) \in Nat
    BY <1>1
  <2> QED BY <2>1, <2>2, Zenon
<1>3. kept \in Surjection(1..Len(kept), Range(kept))
  <2>1. kept \in [1..Len(kept) -> Range(kept)]
    BY <1>1
  <2> QED BY <1>1, <2>1 DEF Surjection
<1>4. IsFiniteSet(Range(kept)) /\ Cardinality(Range(kept)) <= Len(kept)
  BY <1>1, <1>2, <1>3, FS_Surjection
<1>5. ts \in Seq(Range(kept)) /\ Len(ts) = Cardinality(Range(kept)) /\ Range(ts) = Range(kept)
  BY <1>4, OrdersIs
<1>6. ts \in Seq(WakeToken)
  BY <1>1, <1>5, SeqMonotonic
<1>7. DOMAIN ts = 1..Cardinality(Range(kept)) /\ \A i, j \in DOMAIN ts : ts[i] = ts[j] => i = j
  BY DEF Orders
<1>8. ASSUME NEW t \in Range(kept), NEW u \in Range(kept), t.device = u.device PROVE t = u
  <2>1. PICK i \in 1..Len(kept), j \in 1..Len(kept) : t = kept[i] /\ u = kept[j]
    BY <1>1
  <2>2. i = j
    BY <1>1, <1>8, <2>1 DEF Savable, DevicesOnce
  <2> QED BY <2>1, <2>2
<1>9. \A i \in DOMAIN ts : ts[i] \in Range(kept)
  BY <1>1, <1>7 DEF Orders
<1>10. DevicesOnce(ts)
  BY <1>7, <1>8, <1>9 DEF DevicesOnce
<1>11. Len(ts) <= MaxTokens
  <2>1. Len(kept) <= MaxTokens /\ MaxTokens \in Nat /\ Cardinality(Range(kept)) \in Nat
    BY <1>4, FS_CardinalityType DEF Savable, SignalAssumption
  <2> QED BY <1>1, <1>4, <1>5, <2>1
<1> QED BY <1>1, <1>5, <1>6, <1>8, <1>10, <1>11 DEF Savable

\* forget_wake_token takes out that token, if it is the one that is there.
LEMMA ForgottenIs ==
  ASSUME TypeOK, TokenInv, NEW t
  PROVE  /\ Forgotten(t) \in Seq(WakeToken) /\ DevicesOnce(Forgotten(t)) /\ Len(Forgotten(t)) <= Len(wake)
         /\ Range(Forgotten(t)) = Range(wake) \ {t}
<1> DEFINE places == {i \in DOMAIN wake : wake[i] = t}
<1>1. places \in SUBSET DOMAIN wake /\ \A i, j \in places : i = j
  BY DEF DevicesOnce, TokenInv
<1>2. wake \in Seq(WakeToken) /\ Forgotten(t) = TakenOut(places)
  BY DEF Forgotten, TypeOK
<1>3. Len(wake) \in Nat /\ DOMAIN wake = 1..Len(wake) /\ \A x : x \in Range(wake) <=> \E i \in 1..Len(wake) : x = wake[i]
  BY <1>2, InRange
<1>4. \A i \in DOMAIN wake : i \in places <=> wake[i] = t
  OBVIOUS
<1> HIDE DEF places
<1>5. /\ TakenOut(places) \in Seq(WakeToken)
      /\ Range(TakenOut(places)) = {wake[i] : i \in DOMAIN wake \ places}
      /\ places = {} => Len(TakenOut(places)) = Len(wake)
      /\ places # {} => Len(TakenOut(places)) = Len(wake) - 1
      /\ DevicesOnce(TakenOut(places))
  BY <1>1, <1>2, TakenOutIs DEF TokenInv
<1>6. {wake[i] : i \in DOMAIN wake \ places} = Range(wake) \ {t}
  BY <1>3, <1>4
<1>7. Len(Forgotten(t)) <= Len(wake)
  <2> DEFINE m == Len(Forgotten(t))
             n == Len(wake)
  <2>1. (places = {} => m = n) /\ (places # {} => m = n - 1)
    BY <1>2, <1>5
  <2>2. m = n \/ m = n - 1
    BY ONLY <2>1, Zenon
  <2>3. n \in Nat
    BY <1>3
  <2> HIDE DEF m, n
  <2>4. m <= n
    BY <2>2, <2>3
  <2> QED BY <2>4 DEF m, n
<1> QED BY <1>2, <1>5, <1>6, <1>7

LEMMA PushedKeepsTokens ==
  ASSUME TypeOK, TokenInv, NEW t \in pushes, Pushed(t)
  PROVE  TypeOK' /\ TokenInv'
<1>1. UNCHANGED <<opened, online, at, here, issued, commands, held, announced, members, notes, up, down, owed, said, displaced>>
  BY DEF Pushed, device, history
<1>2. CASE UNCHANGED <<wake, disk, unwritten>>
  <2>1. TypeOK'
    BY <1>1, <1>2 DEF TypeOK
  <2>2. TokenInv'
    BY <1>1, <1>2 DEF TokenInv, TokensAreKept, DevicesOnce, Token, Savable
  <2> QED BY <2>1, <2>2
<1>3. CASE t.issue < issued[t.device] /\ wake' = Forgotten(t) /\ Save(wake')
  <2>1. /\ wake' \in Seq(WakeToken) /\ DevicesOnce(wake') /\ Len(wake') <= Len(wake)
        /\ Range(wake') = Range(wake) \ {t}
    BY <1>3, ForgottenIs
  <2>2. TypeOK'
    <3>1. unwritten' \in BOOLEAN
      BY <1>3 DEF Save, TypeOK
    <3> QED BY <1>1, <2>1, <3>1 DEF TypeOK
  <2>3. TokensAreKept'
    <3>1. \A u \in Range(wake') : u.issue = said'[u.device]
      BY <1>1, <2>1 DEF TokenInv, TokensAreKept
    <3>2. ASSUME NEW d \in Device, said'[d] # 0, said'[d] = issued'[d] PROVE Token(d, said'[d]) \in Range(wake')
      <4>1. Token(d, said[d]) \in Range(wake) /\ said[d] = issued[d] /\ said[d] \in Nat /\ said' = said
        BY <1>1, <3>2 DEF TokenInv, TokensAreKept, TypeOK
      <4>2. Token(d, said[d]) # t
        <5>1. Token(d, said[d]).issue = said[d] /\ Token(d, said[d]).device = d
          BY DEF Token
        <5>2. ~(said[d] < issued[d])
          BY <4>1
        <5> QED BY <1>3, <5>1, <5>2
      <4> QED BY <2>1, <4>1, <4>2
    <3> QED BY <3>1, <3>2 DEF TokensAreKept, Token
  <2>4. Len(wake') <= MaxTokens
    <3>1. Len(wake) \in Nat /\ Len(wake') \in Nat /\ Len(wake) <= MaxTokens /\ MaxTokens \in Nat
      BY <2>1, InRange, SignalAssumption DEF TokenInv, TypeOK, SignalAssumption
    <3> QED BY <2>1, <3>1
  <2>5. \A u \in Range(wake') : u.issue <= issued[u.device]
    BY <2>1 DEF TokenInv
  <2>6. wake \in Seq(WakeToken) /\ DevicesOnce(wake)'
    BY <2>1 DEF TypeOK, DevicesOnce
  <2> QED BY <1>1, <1>3, <2>1, <2>2, <2>3, <2>4, <2>5, <2>6, SaveKeepsTokens
<1> QED BY <1>2, <1>3 DEF Pushed

\* keeping_wake_tokens_in: the service goes by what it loads.
LEMMA RestartKeepsTokens ==
  ASSUME TypeOK, TokenInv, Restart
  PROVE  TypeOK' /\ TokenInv' /\ \A d \in Device : said'[d] = said[d] \/ said'[d] <= issued[d]
<1>1. /\ UNCHANGED <<opened, at, here, issued, commands, disk, owed>>
      /\ held' = {} /\ announced' = {} /\ members' = <<>> /\ notes' = [d \in Device |-> {}]
      /\ up' = [c \in Connection |-> <<>>] /\ wake' \in Orders(disk) /\ Gone(Device)
      /\ unwritten' = FALSE /\ displaced' = {}
      /\ said' = IF unwritten THEN [d \in Device |-> OnDisk(d)] ELSE said
  BY DEF Restart
<1>2. PICK kept : Savable(kept) /\ disk = Range(kept)
  BY DEF TokenInv
<1>3. /\ Savable(wake') /\ Range(wake') = disk /\ disk \subseteq WakeToken
      /\ \A t, u \in disk : t.device = u.device => t = u
  BY <1>1, <1>2, LoadedIs, SignalAssumption
<1>4. /\ \A t \in disk : /\ t.device \in Device /\ t.issue \in Nat /\ t.issue <= issued[t.device]
                          /\ t = Token(t.device, t.issue) /\ OnDisk(t.device) = t.issue
      /\ \A d \in Device : OnDisk(d) = 0 \/ \E t \in disk : t.device = d /\ OnDisk(d) = t.issue
  <2>1. ASSUME NEW t \in disk
        PROVE  /\ t.device \in Device /\ t.issue \in Nat /\ t.issue <= issued[t.device]
               /\ t = Token(t.device, t.issue)
    <3>1. t \in WakeToken
      BY <1>3
    <3> QED BY <3>1 DEF WakeToken, Token, TokenInv
  <2>2. ASSUME NEW t \in disk PROVE OnDisk(t.device) = t.issue
    <3> DEFINE ts == {u \in disk : u.device = t.device}
    <3>1. ts = {t}
      BY <1>3
    <3>2. OnDisk(t.device) = IF ts = {} THEN 0 ELSE (CHOOSE u \in ts : TRUE).issue
      BY DEF OnDisk
    <3> HIDE DEF ts
    <3> QED BY <3>1, <3>2
  <2>3. ASSUME NEW d \in Device PROVE OnDisk(d) = 0 \/ \E t \in disk : t.device = d
    BY DEF OnDisk
  <2> QED BY <2>1, <2>2, <2>3
<1>5. \A d \in Device : said'[d] = said[d] \/ (said'[d] = OnDisk(d) /\ said'[d] \in Nat /\ said'[d] <= issued[d])
  <2>1. ASSUME NEW d \in Device PROVE OnDisk(d) \in Nat /\ OnDisk(d) <= issued[d]
    <3>1. issued[d] \in Nat
      BY DEF TypeOK
    <3> QED BY <1>4, <3>1
  <2> QED BY <1>1, <2>1
<1>6. TypeOK'
  <2>1. online' \subseteq Device /\ down' \in [Connection -> Seq(FromServer)]
    BY <1>1, GoneKeepsTypes
  <2>2. up' \in [Connection -> Seq(FromClient)]
    <3>1. <<>> \in Seq(FromClient)
      BY EmptySeq
    <3> QED BY <1>1, <3>1
  <2>3. DOMAIN members' = {} /\ members' \in [DOMAIN members' -> [at: Nat, conn: Connection]]
    BY <1>1
  <2>4. notes' \in [Device -> SUBSET Device]
    BY <1>1
  <2>5. said' \in [Device -> Nat]
    <3>1. \A d \in Device : OnDisk(d) \in Nat
      BY <1>4
    <3> QED BY <1>1, <3>1 DEF TypeOK
  <2>6. wake' \in Seq(WakeToken)
    BY <1>3 DEF Savable
  <2> QED BY <1>1, <2>1, <2>2, <2>3, <2>4, <2>5, <2>6 DEF TypeOK
<1>7. TokensAreKept'
  <2>1. CASE ~unwritten
    <3>1. said' = said /\ Range(wake') = Range(wake)
      BY <1>1, <1>3, <2>1 DEF TokenInv
    <3> QED BY <1>1, <3>1 DEF TokenInv, TokensAreKept, Token
  <2>2. CASE unwritten
    <3>1. said' = [d \in Device |-> OnDisk(d)]
      BY <1>1, <2>2
    <3>2. \A t \in disk : t.issue = said'[t.device]
      BY <1>4, <3>1
    <3>3. ASSUME NEW d \in Device, said'[d] # 0 PROVE Token(d, said'[d]) \in disk
      BY <1>4, <3>1, <3>3
    <3> QED BY <1>3, <3>2, <3>3 DEF TokensAreKept, Token
  <2> QED BY <2>1, <2>2
<1>8. TokenInv'
  <2>1. /\ DevicesOnce(wake)' /\ Len(wake') <= MaxTokens /\ Savable(wake') /\ disk' = Range(wake')
        /\ \A t \in Range(wake') \cup disk' : t.issue <= issued'[t.device]
    BY <1>1, <1>3, <1>4 DEF Savable, DevicesOnce
  <2> QED BY <1>7, <2>1 DEF TokenInv, Savable, DevicesOnce
<1> QED BY <1>5, <1>6, <1>8

-----------------------------------------------------------------------------
(* What the devices say: of a token one they were issued, and of something *)
(* waiting that it is for another.                                         *)

Proper(d, msg) == /\ msg.say = "reachable" => msg.via <= issued[d]
                  /\ msg.say = "waiting" => msg.to # d

ProperInv ==
    /\ \A d \in Device : said[d] <= issued[d]
    /\ \A d \in Device : \A msg \in Range(commands[d]) : Proper(d, msg)
    /\ \A c \in Connection : \A msg \in Range(up[c]) : Proper(c[1], msg)

BaseInv == TypeOK /\ OnlineIsHeld /\ TokenInv /\ ProperInv

\* Tokens are only issued, so that what was proper stays so.
LEMMA ProperStays ==
  ASSUME TypeOK, TypeOK', ProperInv, \A d \in Device : issued[d] <= issued'[d],
         \A d \in Device : said'[d] <= issued'[d],
         \A d \in Device : \A msg \in Range(commands'[d]) : msg \in Range(commands[d]) \/ Proper(d, msg)',
         \A c \in Connection : \A msg \in Range(up'[c]) :
             msg \in Range(up[c]) \/ msg \in Range(commands[c[1]]) \/ Proper(c[1], msg)'
  PROVE  ProperInv'
<1>1. ASSUME NEW d \in Device, NEW msg \in Ordered \cup FromClient, Proper(d, msg) PROVE Proper(d, msg)'
  <2>1. issued[d] \in Nat /\ issued'[d] \in Nat /\ issued[d] <= issued'[d]
    BY DEF TypeOK
  <2>2. ASSUME msg.say = "reachable" PROVE msg.via \in Nat
    BY <2>2 DEF Ordered, FromClient
  <2> QED BY <1>1, <2>1, <2>2 DEF Proper
<1>2. /\ \A d \in Device : Range(commands[d]) \subseteq Ordered
      /\ \A c \in Connection : Range(up[c]) \subseteq FromClient /\ c[1] \in Device
  <2>1. \A d \in Device : commands[d] \in Seq(Ordered)
    BY DEF TypeOK
  <2>2. \A c \in Connection : up[c] \in Seq(FromClient)
    BY DEF TypeOK
  <2> QED BY <2>1, <2>2, RangeOfSeq, ConnectionIs
<1>3. \A d \in Device : \A msg \in Range(commands'[d]) : Proper(d, msg)'
  BY <1>1, <1>2 DEF ProperInv
<1>4. \A c \in Connection : \A msg \in Range(up'[c]) : Proper(c[1], msg)'
  BY <1>1, <1>2 DEF ProperInv
<1> QED BY <1>3, <1>4 DEF ProperInv

LEMMA CommandIs ==
  ASSUME TypeOK, NEW d \in Device, NEW msg \in Ordered, Command(d, msg)
  PROVE  /\ \A p \in Device : \A m \in Range(commands'[p]) : m \in Range(commands[p]) \/ (p = d /\ m = msg)
         /\ \A c \in Connection : \A m \in Range(up'[c]) : m \in Range(up[c]) \/ (c = Latest(d) /\ m = msg)
<1>1. Append(commands[d], msg) \in Seq(Ordered) /\ Range(Append(commands[d], msg)) = Range(commands[d]) \cup {msg}
  BY AppendIs DEF TypeOK
<1>2. \A p \in Device : \A m \in Range(commands'[p]) : m \in Range(commands[p]) \/ (p = d /\ m = msg)
  <2>1. CASE commands' = commands
    BY <2>1
  <2>2. CASE commands' = [commands EXCEPT ![d] = Append(@, msg)]
    <3>1. \A p \in Device : commands'[p] = IF p = d THEN Append(commands[d], msg) ELSE commands[p]
      BY <2>2 DEF TypeOK
    <3> QED BY <1>1, <3>1
  <2> QED BY <2>1, <2>2 DEF Command
<1>3. \A c \in Connection : \A m \in Range(up'[c]) : m \in Range(up[c]) \/ (c = Latest(d) /\ m = msg)
  <2>1. CASE up' = up
    BY <2>1
  <2>2. CASE Say(Latest(d), msg)
    <3>1. msg \in FromClient
      BY DEF FromClient
    <3>2. \A c \in Connection : up'[c] = IF c = Latest(d) THEN Append(up[c], msg) ELSE up[c]
      BY <2>2, <3>1, SaidIs
    <3>3. \A c \in Connection : Range(Append(up[c], msg)) = Range(up[c]) \cup {msg}
      BY <3>1, AppendIs DEF TypeOK
    <3> QED BY <3>2, <3>3
  <2> QED BY <2>1, <2>2 DEF Command
<1> QED BY <1>2, <1>3

\* A command of a device keeps all of it; only Reachable issues a token.
LEMMA CommandKeepsBase ==
  ASSUME BaseInv, NEW d \in Device, NEW msg \in Ordered, Command(d, msg), issued' \in [Device -> Nat],
         \A p \in Device : issued[p] <= issued'[p], Proper(d, msg)'
  PROVE  BaseInv'
<1>1. TypeOK'
  BY CommandKeepsTypes DEF BaseInv
<1>2. UNCHANGED <<opened, online, held, wake, disk, unwritten, said>>
  BY DEF Command, service, history
<1>3. OnlineIsHeld'
  BY <1>2 DEF BaseInv, OnlineIsHeld, Latest
<1>4. TokenInv'
  <2>1. ASSUME NEW p \in Device, said[p] = issued'[p] PROVE said[p] = issued[p]
    <3>1. said[p] <= issued[p] /\ issued[p] <= issued'[p] /\ {said[p], issued[p], issued'[p]} \subseteq Nat
      BY DEF BaseInv, ProperInv, TypeOK
    <3> QED BY <2>1, <3>1
  <2>2. ASSUME NEW t \in Range(wake) \cup disk PROVE t.issue <= issued'[t.device]
    <3>1. t \in WakeToken
      <4>1. wake \in Seq(WakeToken) /\ \E ts \in Seq(WakeToken) : disk = Range(ts)
        BY DEF BaseInv, TypeOK, TokenInv, Savable
      <4> QED BY <4>1, RangeOfSeq
    <3>2. /\ t.device \in Device /\ t.issue \in Nat /\ t.issue <= issued[t.device]
          /\ issued[t.device] \in Nat /\ issued'[t.device] \in Nat /\ issued[t.device] <= issued'[t.device]
      BY <3>1 DEF WakeToken, BaseInv, TokenInv, TypeOK
    <3> QED BY <3>2
  <2> QED BY <1>2, <2>1, <2>2 DEF BaseInv, TokenInv, TokensAreKept, DevicesOnce, Token, Savable
<1>5. ProperInv'
  <2>1. \A p \in Device : said'[p] <= issued'[p]
    <3>1. ASSUME NEW p \in Device PROVE said'[p] <= issued'[p]
      <4>1. said[p] <= issued[p] /\ issued[p] <= issued'[p] /\ {said[p], issued[p], issued'[p]} \subseteq Nat
        BY DEF BaseInv, ProperInv, TypeOK
      <4> QED BY <1>2, <4>1
    <3> QED BY <3>1
  <2>2. Latest(d)[1] = d
    BY LatestIs
  <2>3. TypeOK /\ ProperInv
    BY DEF BaseInv
  <2>4. \A p \in Device : \A m \in Range(commands'[p]) : m \in Range(commands[p]) \/ Proper(p, m)'
    BY <2>3, CommandIs
  <2>5. \A c \in Connection : \A m \in Range(up'[c]) : m \in Range(up[c]) \/ Proper(c[1], m)'
    BY <2>2, <2>3, CommandIs
  <2> QED BY <1>1, <2>1, <2>3, <2>4, <2>5, ProperStays
<1> QED BY <1>1, <1>3, <1>4, <1>5 DEF BaseInv

LEMMA AsksKeepsBase ==
  ASSUME BaseInv, NEW d \in Device, Asks(d)
  PROVE  BaseInv'
<1>1. ASSUME NEW p \in Device \ {d}, NEW k \in {"waiting", "connect"}, Command(d, [say |-> k, to |-> p]), UNCHANGED issued
      PROVE  BaseInv'
  <2> DEFINE msg == [say |-> k, to |-> p]
  <2>1. msg \in Ordered /\ Proper(d, msg)'
    BY DEF Ordered, Proper
  <2>2. issued' = issued /\ Command(d, msg)
    BY <1>1
  <2> HIDE DEF msg
  <2>3. issued' \in [Device -> Nat] /\ \A q \in Device : issued[q] <= issued'[q]
    <3>1. issued \in [Device -> Nat]
      BY DEF BaseInv, TypeOK
    <3> QED BY <2>2, <3>1
  <2> QED BY <2>1, <2>2, <2>3, CommandKeepsBase
<1>2. ASSUME NEW can \in BOOLEAN, Reachable(d, can)
      PROVE  BaseInv'
  <2>1. issued' = [issued EXCEPT ![d] = @ + 1] /\ issued \in [Device -> Nat]
    BY <1>2 DEF Reachable, BaseInv, TypeOK
  <2>2. issued' \in [Device -> Nat] /\ issued'[d] = issued[d] + 1 /\ issued[d] \in Nat
        /\ \A q \in Device : issued[q] <= issued'[q]
    BY <2>1
  <2>3. PICK via \in Nat : via = IF can THEN issued[d] + 1 ELSE 0
    BY <2>2
  <2> DEFINE msg == [say |-> "reachable", via |-> via]
  <2>4. msg.say = "reachable" /\ msg.via <= issued'[d] /\ msg \in Ordered
    BY <2>2, <2>3 DEF Ordered
  <2>5. Command(d, msg)
    BY <1>2, <2>3 DEF Reachable
  <2> HIDE DEF msg
  <2>6. Proper(d, msg)'
    BY <2>4 DEF Proper
  <2> QED BY <2>2, <2>4, <2>5, <2>6, CommandKeepsBase
<1> QED BY <1>1, <1>2 DEF Asks, TellWaiting, Introduce

\* The tokens stay as they are where neither the service nor a phone changes one.
LEMMA TokensStay ==
  ASSUME TokenInv, UNCHANGED <<wake, disk, unwritten, said, issued>>
  PROVE  TokenInv'
BY DEF TokenInv, TokensAreKept, DevicesOnce, Token, Savable

\* What is proper stays so where no token is issued and all that is said is proper.
LEMMA ProperStaysSo ==
  ASSUME TypeOK, TypeOK', ProperInv, UNCHANGED <<issued, said>>,
         \A d \in Device : \A msg \in Range(commands'[d]) : msg \in Range(commands[d]),
         \A c \in Connection : \A msg \in Range(up'[c]) :
             msg \in Range(up[c]) \/ msg \in Range(commands[c[1]]) \/ msg.say \in {"announce", "accept"}
  PROVE  ProperInv'
<1>1. \A d \in Device : issued[d] <= issued'[d] /\ said'[d] <= issued'[d]
  BY DEF TypeOK, ProperInv
<1>2. ASSUME NEW d, NEW msg, msg.say \in {"announce", "accept"} PROVE Proper(d, msg)'
  BY <1>2 DEF Proper
<1> QED BY <1>1, <1>2, ProperStays

LEMMA ConnectKeepsBase ==
  ASSUME BaseInv, NEW d \in Device, Connect(d)
  PROVE  BaseInv'
<1>1. TypeOK /\ OnlineIsHeld /\ TokenInv /\ ProperInv
  BY DEF BaseInv
<1>2. /\ TypeOK' /\ up'[Latest(d)'] = <<Announce(d)>> \o commands[d] /\ Latest(d)' \in Connection
      /\ \A c \in Connection : c # Latest(d)' => up'[c] = up[c]
  BY <1>1, ConnectKeepsTypes, SignalAssumption
<1>3. /\ opened' = [opened EXCEPT ![d] = @ + 1] /\ online' = online \cup {d} /\ held' = held \cup {Latest(d)'}
      /\ commands' = [commands EXCEPT ![d] = <<>>]
      /\ UNCHANGED <<wake, disk, unwritten, said, issued>>
  BY DEF Connect, history
<1>4. OnlineIsHeld'
  <2>1. ASSUME NEW p \in online' PROVE Latest(p)' \in held'
    <3>1. CASE p = d
      BY <1>3, <3>1
    <3>2. CASE p # d
      BY <1>1, <1>3, <2>1, <3>2 DEF OnlineIsHeld, Latest, TypeOK
    <3> QED BY <3>1, <3>2
  <2> QED BY <2>1 DEF OnlineIsHeld
<1>5. ProperInv'
  <2>1. commands \in [Device -> Seq(Ordered)] /\ commands[d] \in Seq(FromClient)
    BY <1>1, SeqMonotonic DEF TypeOK, FromClient
  <2>2. \A p \in Device : \A m \in Range(commands'[p]) : m \in Range(commands[p])
    <3>1. Range(<<>>) = {}
      BY DEF Range
    <3> QED BY <1>3, <2>1, <3>1
  <2>3. ASSUME NEW c \in Connection, NEW m \in Range(up'[c])
        PROVE  m \in Range(up[c]) \/ m \in Range(commands[c[1]]) \/ m.say \in {"announce", "accept"}
    <3>1. CASE c # Latest(d)'
      BY <1>2, <2>3, <3>1
    <3>2. CASE c = Latest(d)'
      <4>1. Announce(d) \in FromClient /\ Announce(d).say = "announce"
        <5>1. at[d] \in Nat
          BY <1>1 DEF TypeOK
        <5> QED BY <5>1 DEF Announce, FromClient
      <4>2. <<Announce(d)>> \in Seq(FromClient) /\ Range(<<Announce(d)>>) = {Announce(d)}
        <5> DEFINE a == Announce(d)
        <5>1. a \in FromClient
          BY <4>1
        <5> HIDE DEF a
        <5>2. <<a>> \in Seq(FromClient) /\ Range(<<a>>) = {a}
          BY <5>1 DEF Range
        <5> QED BY <5>2 DEF a
      <4>3. Range(<<Announce(d)>> \o commands[d]) = {Announce(d)} \cup Range(commands[d])
        <5> DEFINE one == <<Announce(d)>>
        <5>1. one \in Seq(FromClient) /\ Range(one) = {Announce(d)}
          BY <4>2
        <5> HIDE DEF one
        <5>2. Range(one \o commands[d]) = Range(one) \cup Range(commands[d])
          BY <2>1, <5>1, RangeConcatenation
        <5> QED BY <5>1, <5>2 DEF one
      <4>4. c[1] = d
        BY <3>2 DEF Latest
      <4> QED BY <1>2, <2>3, <3>2, <4>1, <4>3, <4>4
    <3> QED BY <3>1, <3>2
  <2> QED BY <1>1, <1>2, <1>3, <2>2, <2>3, ProperStaysSo
<1> QED BY <1>1, <1>2, <1>3, <1>4, <1>5, TokensStay DEF BaseInv

LEMMA LoseKeepsBase ==
  ASSUME BaseInv, NEW d \in Device, Lose(d)
  PROVE  BaseInv'
<1>1. TypeOK /\ OnlineIsHeld /\ TokenInv /\ ProperInv
  BY DEF BaseInv
<1>2. /\ UNCHANGED <<opened, at, here, issued, commands, held, announced, members, notes, wake, disk, unwritten, up, owed, said, displaced>>
      /\ Gone({d})
  BY DEF Lose, service, history
<1>3. TypeOK'
  <2>1. online' \subseteq Device /\ down' \in [Connection -> Seq(FromServer)]
    BY <1>1, <1>2, GoneKeepsTypes
  <2> QED BY <1>1, <1>2, <2>1 DEF TypeOK
<1>4. OnlineIsHeld'
  BY <1>1, <1>2 DEF OnlineIsHeld, Latest, Gone
<1>5. ProperInv'
  BY <1>1, <1>2, <1>3, ProperStaysSo
<1> QED BY <1>1, <1>2, <1>3, <1>4, <1>5, TokensStay DEF BaseInv

LEMMA MoveKeepsBase ==
  ASSUME BaseInv, NEW d \in Device, Move(d)
  PROVE  BaseInv'
<1>1. TypeOK /\ OnlineIsHeld /\ TokenInv /\ ProperInv
  BY DEF BaseInv
<1>2. /\ UNCHANGED <<opened, online, here, issued, commands, held, announced, members, notes, wake, disk, unwritten, up, down, owed, said, displaced>>
      /\ at' = [at EXCEPT ![d] = @ + 1]
  BY DEF Move, service, history
<1>3. TypeOK'
  <2>1. at' \in [Device -> Nat]
    BY <1>1, <1>2 DEF TypeOK
  <2> QED BY <1>1, <1>2, <2>1 DEF TypeOK
<1>4. OnlineIsHeld'
  BY <1>1, <1>2 DEF OnlineIsHeld, Latest
<1>5. ProperInv'
  BY <1>1, <1>2, <1>3, ProperStaysSo
<1> QED BY <1>1, <1>2, <1>3, <1>4, <1>5, TokensStay DEF BaseInv

LEMMA AnnounceAgainKeepsBase ==
  ASSUME BaseInv, NEW d \in Device, AnnounceAgain(d)
  PROVE  BaseInv'
<1>1. TypeOK /\ OnlineIsHeld /\ TokenInv /\ ProperInv
  BY DEF BaseInv
<1>2. /\ UNCHANGED <<opened, online, at, issued, commands, held, announced, members, notes, wake, disk, unwritten, down, owed, said, displaced>>
      /\ here' = [here EXCEPT ![d] = at[d]] /\ Say(Latest(d), Announce(d))
  BY DEF AnnounceAgain, service, history
<1>3. Announce(d) \in FromClient /\ Announce(d).say = "announce"
  BY <1>1 DEF TypeOK, Announce, FromClient
<1>4. up' \in [Connection -> Seq(FromClient)]
      /\ \A c \in Connection : up'[c] = IF c = Latest(d) THEN Append(up[c], Announce(d)) ELSE up[c]
  BY <1>1, <1>2, <1>3, SaidIs
<1>5. TypeOK'
  <2>1. here' \in [Device -> Nat]
    BY <1>1, <1>2 DEF TypeOK
  <2> QED BY <1>1, <1>2, <1>4, <2>1 DEF TypeOK
<1>6. OnlineIsHeld'
  BY <1>1, <1>2 DEF OnlineIsHeld, Latest
<1>7. ProperInv'
  <2>1. \A c \in Connection : Range(Append(up[c], Announce(d))) = Range(up[c]) \cup {Announce(d)}
    BY <1>1, <1>3, AppendIs DEF TypeOK
  <2> QED BY <1>1, <1>2, <1>3, <1>4, <1>5, <2>1, ProperStaysSo
<1> QED BY <1>1, <1>2, <1>5, <1>6, <1>7, TokensStay DEF BaseInv

LEMMA HearKeepsBase ==
  ASSUME BaseInv, NEW d \in Device, Hear(d)
  PROVE  BaseInv'
<1>1. TypeOK /\ OnlineIsHeld /\ TokenInv /\ ProperInv
  BY DEF BaseInv
<1>2. UNCHANGED <<opened, online, issued, commands, held, wake, disk, unwritten, said>>
  BY DEF Hear, service
<1>3. TypeOK'
  BY <1>1, HearKeepsTypes
<1>4. OnlineIsHeld'
  BY <1>1, <1>2 DEF OnlineIsHeld, Latest
<1>5. \A c \in Connection : \A m \in Range(up'[c]) : m \in Range(up[c]) \/ m.say \in {"announce", "accept"}
  <2> DEFINE msg == Head(down[Latest(d)])
             answer == [say |-> "accept", to |-> msg.from, at |-> here[d]]
  <2>1. CASE up' = up
    BY <2>1
  <2>2. CASE msg.say = "connect" /\ Say(Latest(d), answer)
    <3>1. Latest(d) \in Connection /\ down[Latest(d)] # <<>>
      BY <1>1 DEF Hear, OnlineIsHeld, TypeOK
    <3>2. msg \in FromServer
      BY <1>1, <3>1, TailIs DEF TypeOK
    <3>3. answer \in FromClient /\ answer.say = "accept"
      <4>1. msg.from \in Device
        BY <2>2, <3>2 DEF FromServer
      <4> QED BY <1>1, <4>1 DEF FromClient, TypeOK
    <3> HIDE DEF answer
    <3>4. \A c \in Connection : up'[c] = IF c = Latest(d) THEN Append(up[c], answer) ELSE up[c]
      BY <1>1, <2>2, <3>3, SaidIs
    <3>5. \A c \in Connection : Range(Append(up[c], answer)) = Range(up[c]) \cup {answer}
      BY <1>1, <3>3, AppendIs DEF TypeOK
    <3> QED BY <3>3, <3>4, <3>5
  <2> QED BY <2>1, <2>2 DEF Hear, ToldOf
<1>6. ProperInv'
  BY <1>1, <1>2, <1>3, <1>5, ProperStaysSo
<1> QED BY <1>1, <1>2, <1>3, <1>4, <1>6, TokensStay DEF BaseInv

LEMMA ServeKeepsBase ==
  ASSUME BaseInv, NEW c \in Connection, Serve(c)
  PROVE  BaseInv'
<1> DEFINE msg == Head(up[c])
<1>1. TypeOK /\ OnlineIsHeld /\ TokenInv /\ ProperInv
  BY DEF BaseInv
<1>2. /\ up'[c] = Tail(up[c]) /\ \A k \in Connection : k # c => up'[k] = up[k]
      /\ up[c] \in Seq(FromClient) /\ up[c] # <<>> /\ msg \in FromClient
      /\ UNCHANGED <<opened, online, issued, commands, held>>
  BY <1>1, ServeIs
<1>3. TypeOK'
  BY <1>1, ServeKeepsTypes, SignalAssumption DEF TokenInv
<1>4. OnlineIsHeld'
  BY <1>1, <1>2 DEF OnlineIsHeld, Latest
<1>5. Range(up[c]) = {msg} \cup Range(Tail(up[c]))
  BY <1>2, TailIs
<1>6. \A k \in Connection : \A m \in Range(up'[k]) : m \in Range(up[k])
  BY <1>2, <1>5
<1>7. (msg.say = "reachable" /\ ServeReachable(c, msg)) \/ UNCHANGED <<wake, disk, unwritten, said>>
  BY DEF Serve, ServeAnnounce, ServeEarly, ServeWaiting, ServeConnect, ServeAccept, history
<1> HIDE DEF msg
<1>8. CASE UNCHANGED <<wake, disk, unwritten, said>>
  <2>1. ProperInv'
    BY <1>1, <1>2, <1>3, <1>6, <1>8, ProperStaysSo
  <2> QED BY <1>1, <1>2, <1>3, <1>4, <1>8, <2>1, TokensStay DEF BaseInv
<1>9. CASE msg.say = "reachable" /\ ServeReachable(c, msg)
  <2>1. msg.via \in Nat
    BY <1>2, <1>9 DEF FromClient, Ordered
  <2>2. c[1] \in Device /\ msg.via <= issued[c[1]]
    BY <1>1, <1>5, <1>9, ConnectionIs DEF ProperInv, Proper
  <2>3. TokenInv'
    <3>1. /\ DevicesOnce(wake)' /\ Len(wake') <= MaxTokens /\ TokensAreKept'
          /\ \A t \in Range(wake') : t \in Range(wake) \/ t = Token(c[1], msg.via)
      BY <1>1, <1>2, <1>9, <2>1, ReachableKeepsTokens, SignalAssumption
    <3>2. \A t \in Range(wake') : t.issue <= issued[t.device]
      BY <1>1, <2>2, <3>1 DEF TokenInv, Token
    <3>3. wake \in Seq(WakeToken) /\ wake' \in Seq(WakeToken) /\ Save(wake')
      BY <1>1, <1>3, <1>9 DEF TypeOK, ServeReachable
    <3> QED BY <1>1, <1>2, <3>1, <3>2, <3>3, SaveKeepsTokens
  <2>4. \A p \in Device : (said'[p] = msg.via /\ p = c[1]) \/ said'[p] = 0 \/ said'[p] = said[p]
    BY <1>9 DEF ServeReachable
  <2>5. \A p \in Device : said'[p] <= issued'[p] /\ issued[p] <= issued'[p]
    <3>1. ASSUME NEW p \in Device PROVE said'[p] <= issued[p] /\ issued[p] <= issued[p]
      <4>1. issued[p] \in Nat /\ said[p] <= issued[p]
        BY <1>1 DEF ProperInv, TypeOK
      <4>2. CASE said'[p] = msg.via /\ p = c[1]
        BY <2>2, <4>1, <4>2
      <4>3. CASE said'[p] = 0
        BY <4>1, <4>3
      <4>4. CASE said'[p] = said[p]
        BY <4>1, <4>4
      <4> QED BY <2>4, <4>2, <4>3, <4>4
    <3> QED BY <1>2, <3>1
  <2>6. ProperInv'
    BY <1>1, <1>2, <1>3, <1>6, <2>5, ProperStays
  <2> QED BY <1>3, <1>4, <2>3, <2>6 DEF BaseInv
<1> QED BY <1>7, <1>8, <1>9

LEMMA EndKeepsBase ==
  ASSUME BaseInv, NEW c \in Connection, End(c)
  PROVE  BaseInv'
<1>1. TypeOK /\ OnlineIsHeld /\ TokenInv /\ ProperInv
  BY DEF BaseInv
<1>2. /\ UNCHANGED <<opened, online, issued, commands, wake, disk, unwritten, said>> /\ held' = held \ {c}
      /\ ~Live(c) /\ up' = [up EXCEPT ![c] = <<>>]
  BY DEF End, device
<1>3. TypeOK'
  BY <1>1, EndKeepsTypes
<1>4. OnlineIsHeld'
  <2>1. \A d \in online : Latest(d) # c
    BY <1>2, LatestIs
  <2> QED BY <1>1, <1>2, <2>1 DEF OnlineIsHeld, Latest
<1>5. \A k \in Connection : \A m \in Range(up'[k]) : m \in Range(up[k])
  <2>1. Range(<<>>) = {}
    BY DEF Range
  <2> QED BY <1>1, <1>2, <2>1 DEF TypeOK
<1>6. ProperInv'
  BY <1>1, <1>2, <1>3, <1>5, ProperStaysSo
<1> QED BY <1>1, <1>2, <1>3, <1>4, <1>6, TokensStay DEF BaseInv

LEMMA BaseStep ==
  ASSUME BaseInv, [Next]_vars
  PROVE  BaseInv'
<1>1. TypeOK /\ OnlineIsHeld /\ TokenInv /\ ProperInv
  BY DEF BaseInv
<1>2. ASSUME NEW t \in pushes, Pushed(t) PROVE BaseInv'
  <2>1. UNCHANGED <<opened, online, issued, commands, held, up, said>>
    BY <1>2 DEF Pushed, device, history
  <2>2. TypeOK' /\ TokenInv'
    BY <1>1, <1>2, PushedKeepsTokens
  <2>3. ProperInv'
    BY <1>1, <2>1, <2>2, ProperStaysSo
  <2>4. OnlineIsHeld'
    BY <1>1, <2>1 DEF OnlineIsHeld, Latest
  <2> QED BY <2>2, <2>3, <2>4 DEF BaseInv
<1>3. CASE Restart
  <2>1. UNCHANGED <<issued, commands>> /\ Gone(Device) /\ up' = [c \in Connection |-> <<>>]
    BY <1>3 DEF Restart
  <2>2. TypeOK' /\ TokenInv' /\ \A d \in Device : said'[d] = said[d] \/ said'[d] <= issued[d]
    BY <1>1, <1>3, RestartKeepsTokens
  <2>3. ProperInv'
    <3>1. \A c \in Connection : Range(up'[c]) = {}
      BY <2>1 DEF Range
    <3>2. \A d \in Device : issued[d] <= issued'[d] /\ said'[d] <= issued'[d]
      BY <1>1, <2>1, <2>2 DEF ProperInv, TypeOK
    <3> QED BY <1>1, <2>1, <2>2, <3>1, <3>2, ProperStays
  <2>4. OnlineIsHeld'
    BY <1>1, <2>1 DEF OnlineIsHeld, Gone, TypeOK
  <2> QED BY <2>2, <2>3, <2>4 DEF BaseInv
<1>4. CASE UNCHANGED vars
  <2>1. UNCHANGED <<opened, online, at, here, issued, commands, held, announced, members, notes, wake, disk, unwritten, up, down, owed, said, displaced>>
    BY <1>4 DEF vars, device, service, history
  <2>2. TypeOK'
    BY <1>1, <2>1 DEF TypeOK
  <2>3. OnlineIsHeld'
    BY <1>1, <2>1 DEF OnlineIsHeld, Latest
  <2>4. ProperInv'
    BY <1>1, <2>1, <2>2, ProperStaysSo
  <2> QED BY <1>1, <2>1, <2>2, <2>3, <2>4, TokensStay DEF BaseInv
<1>5. ASSUME NEW d \in Device, Connect(d) \/ Lose(d) \/ Move(d) \/ AnnounceAgain(d) \/ Asks(d) \/ Hear(d)
      PROVE  BaseInv'
  BY <1>5, ConnectKeepsBase, LoseKeepsBase, MoveKeepsBase, AnnounceAgainKeepsBase, AsksKeepsBase, HearKeepsBase
<1>6. ASSUME NEW c \in Connection, Serve(c) \/ End(c)
      PROVE  BaseInv'
  BY <1>6, ServeKeepsBase, EndKeepsBase
<1> QED BY <1>2, <1>3, <1>4, <1>5, <1>6 DEF Next

LEMMA BaseStart ==
  ASSUME Init
  PROVE  BaseInv
<1>1. TypeOK
  BY TypesStart, SignalAssumption
<1>2. wake = <<>> /\ Range(wake) = {} /\ Len(wake) = 0 /\ disk = {}
  BY DEF Init, Range
<1>3. TokenInv
  <2>1. Savable(wake)
    BY <1>2, EmptySeq, SignalAssumption DEF Savable, DevicesOnce, SignalAssumption
  <2> QED BY <1>2, <2>1, SignalAssumption DEF TokenInv, TokensAreKept, DevicesOnce, Init, SignalAssumption
<1>4. ProperInv
  <2>1. \A c \in Connection : Range(up[c]) = {}
    BY DEF Init, Range
  <2>2. \A d \in Device : Range(commands[d]) = {} /\ said[d] = 0 /\ issued[d] = 0
    BY DEF Init, Range
  <2> QED BY <2>1, <2>2 DEF ProperInv
<1> QED BY <1>1, <1>3, <1>4 DEF BaseInv, OnlineIsHeld, Init

LEMMA BaseHolds == Spec => []BaseInv
<1>1. Init => BaseInv
  BY BaseStart
<1>2. BaseInv /\ [Next]_vars => BaseInv'
  BY BaseStep
<1> QED BY <1>1, <1>2, PTL DEF Spec

\* set_wake_token, forget_wake_token and save_wake_tokens: a phone is woken by
\* what it said last, through late answers of the push service and restarts,
\* unless the last write of the file failed, whatever the limit on tokens.
THEOREM TokensAreAlwaysKept == Spec => []TokensAreKept
<1>1. BaseInv => TokensAreKept
  BY DEF BaseInv, TokenInv
<1> QED BY <1>1, BaseHolds, PTL

-----------------------------------------------------------------------------
(* Who is there, as the service sees it.  A device that connects again     *)
(* before its old connection is known to be gone is listed by the old one, *)
(* or taken off the directory, when that one is served or its end noticed: *)
(* it is displaced until it announces again.                               *)

\* The service holds no connection that its device has yet to open.
HeldIsOpened == \A c \in held : c[2] <= opened[c[1]]

\* The directory lists a device that is not displaced by the connection it
\* announced itself on.
AnnouncedIsListed ==
    \A d \in Device \ displaced :
        Latest(d) \in announced => Listed(d) /\ members[d].conn = Latest(d)

PresenceInv == BaseInv /\ HeldIsOpened /\ AnnouncedIsListed

LEMMA PresenceStays ==
  ASSUME HeldIsOpened, AnnouncedIsListed, UNCHANGED <<opened, held, announced, members, displaced>>
  PROVE  HeldIsOpened' /\ AnnouncedIsListed'
BY DEF HeldIsOpened, AnnouncedIsListed, Latest, Listed

LEMMA ConnectIs ==
  ASSUME PresenceInv, NEW d \in Device, Connect(d)
  PROVE  /\ HeldIsOpened' /\ AnnouncedIsListed'
         /\ Latest(d)' \notin announced'
         /\ \A p \in Device : p # d => Latest(p)' = Latest(p)
<1>1. TypeOK /\ HeldIsOpened
  BY DEF PresenceInv, BaseInv
<1>2. /\ opened' = [opened EXCEPT ![d] = @ + 1] /\ held' = held \cup {Latest(d)'}
      /\ UNCHANGED <<announced, members, displaced>>
  BY DEF Connect, history
<1>3. /\ opened'[d] = opened[d] + 1 /\ \A p \in Device : opened[p] \in Nat /\ (p # d => opened'[p] = opened[p])
      /\ \A p \in Device : p # d => Latest(p)' = Latest(p)
  BY <1>1, <1>2 DEF Latest, TypeOK
<1>4. \A c \in held : c[1] \in Device /\ c[2] \in Nat /\ c[2] <= opened[c[1]]
  <2>1. \A c \in Connection : c[1] \in Device /\ c[2] \in Nat
    BY SignalAssumption DEF Connection, SignalAssumption
  <2> QED BY <1>1, <2>1 DEF HeldIsOpened, TypeOK
<1>5. Latest(d)'[1] = d /\ Latest(d)'[2] = opened[d] + 1
  BY <1>3 DEF Latest
<1>6. Latest(d)' \notin announced'
  <2>1. Latest(d)' \notin held
    <3> SUFFICES ASSUME Latest(d)' \in held PROVE FALSE
      OBVIOUS
    <3>1. opened[d] + 1 <= opened[d]
      BY <1>4, <1>5
    <3> QED BY <1>3, <3>1
  <2> QED BY <1>1, <1>2, <2>1 DEF TypeOK
<1>7. HeldIsOpened'
  <2>1. ASSUME NEW c \in held PROVE c[2] <= opened'[c[1]]
    <3>1. /\ c[1] \in Device /\ c[2] \in Nat /\ c[2] <= opened[c[1]] /\ opened[c[1]] \in Nat
          /\ opened'[c[1]] = opened[c[1]] \/ opened'[c[1]] = opened[c[1]] + 1
      BY <1>3, <1>4
    <3> QED BY <3>1
  <2>2. Latest(d)'[2] <= opened'[Latest(d)'[1]]
    BY <1>3, <1>5
  <2> QED BY <1>2, <2>1, <2>2 DEF HeldIsOpened
<1>8. AnnouncedIsListed'
  <2>1. ASSUME NEW p \in Device \ displaced', Latest(p)' \in announced'
        PROVE  Listed(p)' /\ members'[p].conn = Latest(p)'
    <3>1. p # d /\ Latest(p)' = Latest(p)
      BY <1>3, <1>6, <2>1
    <3> QED BY <1>2, <2>1, <3>1 DEF PresenceInv, AnnouncedIsListed, Listed
  <2> QED BY <2>1 DEF AnnouncedIsListed
<1> QED BY <1>3, <1>6, <1>7, <1>8

\* announce lists the device, by the connection it came on.
LEMMA AnnouncedIs ==
  ASSUME NEW c \in Connection, Serve(c), NEW msg, ServeAnnounce(c, msg), ~Full(c[1])
  PROVE  /\ c[1] \in Device
         /\ announced' = announced \cup {c} /\ DOMAIN members' = DOMAIN members \cup {c[1]}
         /\ members'[c[1]] = [at |-> msg.at, conn |-> c]
         /\ \A p \in DOMAIN members : p # c[1] => members'[p] = members[p]
         /\ \E froms \in Orders(notes[c[1]]) : down' = TellArrival(Deliver(down, c, froms), c[1])
         /\ c # Latest(c[1]) => c[1] \in displaced'
         /\ \A p : p # c[1] => (p \in displaced' <=> p \in displaced)
<1>1. /\ announced' = announced \cup {c}
      /\ members' = [d \in DOMAIN members \cup {c[1]} |-> IF d = c[1] THEN [at |-> msg.at, conn |-> c] ELSE members[d]]
      /\ \E froms \in Orders(notes[c[1]]) : down' = TellArrival(Deliver(down, c, froms), c[1])
      /\ displaced' = IF c = Latest(c[1]) THEN displaced \ {c[1]} ELSE displaced \cup {c[1]}
  BY DEF ServeAnnounce
<1> QED BY <1>1, ConnectionIs

LEMMA ServePresence ==
  ASSUME PresenceInv, NEW c \in Connection, Serve(c)
  PROVE  HeldIsOpened' /\ AnnouncedIsListed'
<1> DEFINE msg == Head(up[c])
<1>1. UNCHANGED <<opened, held>>
  BY DEF Serve, device
<1>2. (ServeAnnounce(c, msg) /\ ~Full(c[1])) \/ UNCHANGED <<announced, members, displaced>>
  BY DEF Serve, ServeAnnounce, ServeEarly, ServeReachable, ServeWaiting, ServeConnect, ServeAccept, history
<1> HIDE DEF msg
<1>3. CASE UNCHANGED <<announced, members, displaced>>
  BY <1>1, <1>3, PresenceStays DEF PresenceInv
<1>4. CASE ServeAnnounce(c, msg) /\ ~Full(c[1])
  <2>1. /\ announced' = announced \cup {c} /\ DOMAIN members' = DOMAIN members \cup {c[1]}
        /\ members'[c[1]] = [at |-> msg.at, conn |-> c]
        /\ \A p \in DOMAIN members : p # c[1] => members'[p] = members[p]
        /\ c # Latest(c[1]) => c[1] \in displaced'
        /\ \A p : p # c[1] => (p \in displaced' <=> p \in displaced)
    BY <1>4, AnnouncedIs
  <2>2. HeldIsOpened'
    BY <1>1 DEF PresenceInv, HeldIsOpened
  <2>3. \A p : Latest(p)' = Latest(p) /\ (Latest(p) = c => p = c[1])
    BY <1>1 DEF Latest
  <2>4. ASSUME NEW p \in Device \ displaced', Latest(p)' \in announced'
        PROVE  p \in DOMAIN members' /\ members'[p].conn = Latest(p)'
    <3>1. CASE p = c[1]
      BY <2>1, <2>3, <2>4, <3>1
    <3>2. CASE p # c[1]
      BY <2>1, <2>3, <2>4, <3>2 DEF PresenceInv, AnnouncedIsListed, Listed
    <3> QED BY <3>1, <3>2
  <2> QED BY <2>2, <2>4 DEF AnnouncedIsListed, Listed
<1> QED BY <1>2, <1>3, <1>4

LEMMA EndPresence ==
  ASSUME PresenceInv, NEW c \in Connection, End(c)
  PROVE  /\ HeldIsOpened' /\ AnnouncedIsListed' /\ displaced \subseteq displaced'
         /\ \A p \in DOMAIN members' : p \in DOMAIN members /\ members'[p] = members[p]
<1>1. /\ UNCHANGED opened /\ held' = held \ {c} /\ announced' = announced \ {c} /\ c \in held
      /\ IF c \in announced THEN Leave(c[1]) ELSE UNCHANGED <<members, notes>>
      /\ displaced' = IF c \in announced /\ c # Latest(c[1]) THEN displaced \cup {c[1]} ELSE displaced
  BY DEF End, device
<1>2. TypeOK /\ c[1] \in Device
  BY <1>1, ConnectionIs DEF PresenceInv, BaseInv
<1>3. HeldIsOpened'
  BY <1>1 DEF PresenceInv, HeldIsOpened
<1>4. \A p : Latest(p)' = Latest(p)
  BY <1>1 DEF Latest
<1>5. CASE c \in announced
  <2>1. DOMAIN members' = DOMAIN members \ {c[1]} /\ \A p \in DOMAIN members' : members'[p] = members[p]
    BY <1>1, <1>2, <1>5, LeaveKeepsTypes
  <2>2. ASSUME NEW p \in Device \ displaced', Latest(p)' \in announced'
        PROVE  p \in DOMAIN members' /\ members'[p].conn = Latest(p)'
    <3>1. p # c[1] /\ p \notin displaced
      BY <1>1, <1>4, <1>5, <2>2
    <3> QED BY <1>1, <1>4, <2>1, <2>2, <3>1 DEF PresenceInv, AnnouncedIsListed, Listed
  <2> QED BY <1>1, <1>3, <2>1, <2>2 DEF AnnouncedIsListed, Listed
<1>6. CASE c \notin announced
  <2>1. announced' = announced /\ members' = members /\ displaced' = displaced
    BY <1>1, <1>6
  <2>2. AnnouncedIsListed'
    BY <1>1, <2>1 DEF PresenceInv, AnnouncedIsListed, Latest, Listed
  <2> QED BY <1>3, <2>1, <2>2
<1> QED BY <1>5, <1>6

LEMMA PresenceStep ==
  ASSUME PresenceInv, [Next]_vars
  PROVE  PresenceInv'
<1>1. BaseInv'
  BY BaseStep DEF PresenceInv
<1>2. CASE UNCHANGED <<opened, held, announced, members, displaced>>
  BY <1>1, <1>2, PresenceStays DEF PresenceInv
<1>3. ASSUME NEW d \in Device, Connect(d) PROVE PresenceInv'
  BY <1>1, <1>3, ConnectIs DEF PresenceInv
<1>4. ASSUME NEW c \in Connection, Serve(c) \/ End(c) PROVE PresenceInv'
  BY <1>1, <1>4, ServePresence, EndPresence DEF PresenceInv
<1>5. CASE Restart
  <2>1. held' = {} /\ announced' = {} /\ members' = <<>>
    BY <1>5 DEF Restart
  <2>2. DOMAIN members' = {}
    BY <2>1
  <2> QED BY <1>1, <2>1, <2>2 DEF PresenceInv, HeldIsOpened, AnnouncedIsListed, Listed
<1>6. ASSUME NEW d \in Device, Lose(d) \/ Move(d) \/ AnnounceAgain(d) \/ Asks(d) \/ Hear(d)
      PROVE  UNCHANGED <<opened, held, announced, members, displaced>>
  BY <1>6 DEF Lose, Move, AnnounceAgain, Asks, TellWaiting, Introduce, Reachable, Command, Hear, service, history
<1>7. ASSUME NEW t \in pushes, Pushed(t) PROVE UNCHANGED <<opened, held, announced, members, displaced>>
  BY <1>7 DEF Pushed, device, history
<1>8. CASE UNCHANGED vars
  BY <1>2, <1>8 DEF vars, device, service, history
<1> QED BY <1>2, <1>3, <1>4, <1>5, <1>6, <1>7, <1>8 DEF Next

LEMMA PresenceStart ==
  ASSUME Init
  PROVE  PresenceInv
BY BaseStart DEF Init, PresenceInv, HeldIsOpened, AnnouncedIsListed, Listed

LEMMA PresenceHolds == Spec => []PresenceInv
<1>1. Init => PresenceInv
  BY PresenceStart
<1>2. PresenceInv /\ [Next]_vars => PresenceInv'
  BY PresenceStep
<1> QED BY <1>1, <1>2, PTL DEF Spec

\* note_waiting and its caller: nobody is woken by a push that could be told.
LEMMA WokenIsAway ==
  ASSUME PresenceInv, [Next]_vars, NEW t \in pushes' \ pushes
  PROVE  Present(t.device) => t.device \in displaced
<1>1. PICK c \in Connection : Serve(c) /\ pushes' # pushes
  <2>1. ASSUME NEW u \in pushes, Pushed(u) PROVE FALSE
    BY <2>1 DEF Pushed
  <2>2. ASSUME Restart PROVE FALSE
    BY <2>2 DEF Restart
  <2>3. ASSUME NEW d \in Device, Connect(d) \/ Lose(d) \/ Move(d) \/ AnnounceAgain(d) \/ Asks(d) \/ Hear(d) PROVE FALSE
    BY <2>3 DEF Connect, Lose, Move, AnnounceAgain, Asks, TellWaiting, Introduce, Reachable, Command, Hear, service
  <2>4. ASSUME NEW c \in Connection, End(c) PROVE FALSE
    BY <2>4 DEF End
  <2>5. ASSUME UNCHANGED vars PROVE FALSE
    BY <2>5 DEF vars, service
  <2> QED BY <2>1, <2>2, <2>3, <2>4, <2>5 DEF Next
<1> DEFINE msg == Head(up[c])
<1>2. pushes' = pushes \cup WokenBy(msg.to)
  BY <1>1 DEF Serve, ServeAnnounce, ServeEarly, ServeReachable, ServeWaiting, ServeConnect, ServeAccept
<1>3. t \in WokenBy(msg.to)
  BY <1>2
<1> HIDE DEF msg
<1>4. ~Listed(t.device) /\ t \in Range(wake)
  BY <1>3 DEF WokenBy
<1>5. t.device \in Device
  <2>1. wake \in Seq(WakeToken)
    BY DEF PresenceInv, BaseInv, TypeOK
  <2>2. t \in WakeToken
    BY <1>4, <2>1, RangeOfSeq
  <2> QED BY <2>2 DEF WakeToken
<1> QED BY <1>4, <1>5 DEF PresenceInv, AnnouncedIsListed, Present

\* A device that is connected, and whose announcement the service has had, is
\* told and not woken (SignalServer: note_waiting), for any devices and any
\* limits, but for one that an older connection of its own has displaced since.
THEOREM ToldAndNotWoken == Spec => ToldNotWoken
<1>1. PresenceInv /\ [Next]_vars =>
        [\A t \in pushes' \ pushes : Present(t.device) => t.device \in displaced]_vars
  BY WokenIsAway
<1> QED BY <1>1, PresenceHolds, PTL DEF Spec, ToldNotWoken

-----------------------------------------------------------------------------
(* Notes.                                                                  *)

\* It is there, and listed by the connection it has.
InPlace(d) == Present(d) /\ d \notin displaced
Owed(f, t) == InPlace(f) /\ InPlace(t) => OnItsWay(t, f) \/ OnItsWay(f, t)

NotesAreOwed == \A pair \in owed : pair[1] # pair[2] /\ Owed(pair[1], pair[2])

NoteInv == PresenceInv /\ NotesAreOwed

\* A note stays on its way, or its devices away, where nobody arrives and
\* nothing is taken off the connection of one that is there.
LEMMA NoteStays ==
  ASSUME NEW f, NEW t, Owed(f, t),
         \A d \in {f, t} : InPlace(d)' => /\ InPlace(d) /\ Latest(d)' = Latest(d)
                                         /\ Range(down[Latest(d)]) \subseteq Range(down'[Latest(d)])
  PROVE  Owed(f, t)'
BY DEF Owed, OnItsWay, Messages

\* Where nobody comes or goes, and nothing is heard, no note is lost.
LEMMA NotesStay ==
  ASSUME NoteInv, \A pair \in owed' : pair \in owed, UNCHANGED <<opened, announced, displaced>>,
         online' \subseteq online, \A c \in Connection : c[1] \in online' => Range(down[c]) \subseteq Range(down'[c])
  PROVE  NotesAreOwed'
<1>1. \A d : Latest(d)' = Latest(d) /\ Latest(d)[1] = d
  BY DEF Latest
<1>2. \A d : InPlace(d)' => InPlace(d) /\ d \in online' /\ Latest(d) \in announced
  BY <1>1 DEF InPlace, Present, Live
<1>3. announced \subseteq Connection
  BY DEF NoteInv, PresenceInv, BaseInv, TypeOK
<1>4. \A pair \in owed : Owed(pair[1], pair[2])
  BY DEF NoteInv, NotesAreOwed
<1>5. \A pair \in owed' : Owed(pair[1], pair[2])'
  BY <1>1, <1>2, <1>3, <1>4, NoteStays
<1> QED BY <1>5 DEF NotesAreOwed, NoteInv

LEMMA ConnectKeepsNotes ==
  ASSUME NoteInv, NEW d \in Device, Connect(d)
  PROVE  NotesAreOwed'
<1>1. UNCHANGED <<announced, down, owed, displaced>> /\ online' = online \cup {d} /\ owed \subseteq Device \X Device
  BY DEF Connect, NoteInv, PresenceInv, BaseInv, TypeOK, history
<1>2. Latest(d)' \notin announced' /\ \A p \in Device : p # d => Latest(p)' = Latest(p)
  BY ConnectIs DEF NoteInv
<1>3. ASSUME NEW p \in Device, InPlace(p)' PROVE InPlace(p) /\ Latest(p)' = Latest(p)
  <2>1. p # d
    BY <1>2, <1>3 DEF InPlace, Present
  <2>2. Latest(p)' = Latest(p) /\ Latest(p)[1] = p
    BY <1>2, <2>1 DEF Latest
  <2> QED BY <1>1, <1>3, <2>1, <2>2 DEF InPlace, Present, Live
<1>4. ASSUME NEW pair \in owed PROVE Owed(pair[1], pair[2])'
  <2>1. pair[1] \in Device /\ pair[2] \in Device /\ Owed(pair[1], pair[2])
    BY <1>1 DEF NoteInv, NotesAreOwed
  <2> QED BY <1>1, <1>3, <2>1, NoteStays
<1> QED BY <1>1, <1>4 DEF NotesAreOwed, NoteInv

\* An arrival is told to whoever is there.
LEMMA AnnounceKeepsNotes ==
  ASSUME NoteInv, NEW c \in Connection, Serve(c), NEW msg, ServeAnnounce(c, msg), ~Full(c[1])
  PROVE  NotesAreOwed'
<1>1. TypeOK /\ PresenceInv /\ AnnouncedIsListed
  BY DEF NoteInv, PresenceInv, BaseInv
<1>2. /\ c[1] \in Device /\ announced' = announced \cup {c}
      /\ \A p : p # c[1] => (p \in displaced' <=> p \in displaced)
  BY <1>1, AnnouncedIs
<1>3. PICK froms \in Orders(notes[c[1]]) : down' = TellArrival(Deliver(down, c, froms), c[1])
  BY <1>1, AnnouncedIs
<1>4. /\ \A k \in Connection : Range(down[k]) \subseteq Range(down'[k])
      /\ \A p \in Others(c[1]) : members[p].conn \in Connection /\ Live(members[p].conn) =>
           [say |-> "appeared", from |-> c[1]] \in Range(down'[members[p].conn])
  BY <1>1, <1>3, ArrivalIs, SignalAssumption
<1>5. UNCHANGED <<opened, online, owed>>
  BY DEF Serve, device, ServeAnnounce
<1>6. \A d : Latest(d)' = Latest(d) /\ Latest(d)[1] = d /\ (Live(Latest(d))' <=> Live(Latest(d)))
  BY <1>5 DEF Latest, Live
<1>7. ASSUME NEW p \in Device, p # c[1], InPlace(p)'
      PROVE  InPlace(p) /\ OnItsWay(p, c[1])'
  <2>1. InPlace(p) /\ Present(p)
    <3>1. Latest(p) # c
      BY <1>6, <1>7
    <3> QED BY <1>2, <1>6, <1>7, <3>1 DEF InPlace, Present
  <2>2. p \in Others(c[1]) /\ members[p].conn = Latest(p) /\ Latest(p) \in Connection /\ Live(Latest(p))
    BY <1>1, <1>7, <2>1 DEF InPlace, Present, AnnouncedIsListed, Others, Listed, TypeOK
  <2>3. [say |-> "appeared", from |-> c[1]] \in Range(down'[Latest(p)])
    BY <1>4, <2>2
  <2> QED BY <1>6, <2>1, <2>3 DEF OnItsWay, Messages
<1>8. ASSUME NEW pair \in owed PROVE Owed(pair[1], pair[2])'
  <2>1. pair[1] \in Device /\ pair[2] \in Device /\ Owed(pair[1], pair[2]) /\ pair[1] # pair[2]
    BY <1>1 DEF NoteInv, NotesAreOwed, TypeOK
  <2>2. CASE pair[1] = c[1]
    BY <1>7, <2>1, <2>2 DEF Owed
  <2>3. CASE pair[2] = c[1]
    BY <1>7, <2>1, <2>3 DEF Owed
  <2>4. CASE pair[1] # c[1] /\ pair[2] # c[1]
    <3>1. \A d \in {pair[1], pair[2]} : InPlace(d)' => Latest(d) \in Connection /\ InPlace(d) /\ Latest(d)' = Latest(d)
      BY <1>1, <1>6, <1>7, <2>1, <2>4 DEF InPlace, Present, TypeOK
    <3> QED BY <1>4, <2>1, <3>1, NoteStays
  <2> QED BY <2>2, <2>3, <2>4
<1> QED BY <1>5, <1>8 DEF NotesAreOwed, NoteInv

\* note_waiting tells a device that is there, and one that is not is away.
LEMMA WaitingKeepsNotes ==
  ASSUME NoteInv, NEW c \in Connection, Serve(c), NEW msg \in Range(up[c]), msg.say = "waiting", ServeWaiting(c, msg)
  PROVE  NotesAreOwed'
<1>1. TypeOK /\ PresenceInv /\ AnnouncedIsListed /\ ProperInv
  BY DEF NoteInv, PresenceInv, BaseInv
<1>2. msg \in FromClient /\ msg.to \in Device /\ msg.to # c[1] /\ c[1] \in Device
  <2>1. up[c] \in Seq(FromClient)
    BY <1>1 DEF TypeOK
  <2>2. msg \in FromClient
    BY <2>1, RangeOfSeq
  <2> QED BY <1>1, <2>2, ConnectionIs DEF FromClient, Ordered, ProperInv, Proper
<1> DEFINE note == [say |-> "waiting", from |-> c[1]]
<1>3. down' = SentTo(down, msg.to, note) /\ owed' = owed \cup {<<c[1], msg.to>>} /\ UNCHANGED <<opened, online, announced, displaced>>
  BY DEF ServeWaiting, Serve, device
<1>4. note \in FromServer /\ note.say = "waiting" /\ note.from = c[1]
  BY <1>2 DEF FromServer
<1> HIDE DEF note
<1>5. /\ \A k \in Connection : Range(down[k]) \subseteq Range(down'[k])
      /\ Listed(msg.to) /\ members[msg.to].conn \in Connection /\ Live(members[msg.to].conn)
              => note \in Range(down'[members[msg.to].conn])
  BY <1>1, <1>3, <1>4, SentToIs DEF TypeOK
<1>6. \A d : Latest(d)' = Latest(d) /\ (InPlace(d)' <=> InPlace(d))
  BY <1>3 DEF Latest, Live, Present, InPlace
<1>7. Owed(c[1], msg.to)'
  <2>1. ASSUME InPlace(msg.to) PROVE OnItsWay(msg.to, c[1])'
    <3>1. Listed(msg.to) /\ members[msg.to].conn = Latest(msg.to) /\ Latest(msg.to) \in Connection /\ Live(Latest(msg.to))
      BY <1>1, <1>2, <2>1 DEF InPlace, Present, AnnouncedIsListed, TypeOK
    <3>2. note \in Range(down'[Latest(msg.to)])
      BY <1>5, <3>1
    <3>3. \A d : Latest(d)' = Latest(d)
      BY <1>6
    <3>4. note \in Messages(down, Latest(msg.to))'
      BY <3>2, <3>3 DEF Messages
    <3>5. note' = note /\ msg' = msg
      BY DEF note
    <3> QED BY <1>4, <3>4 DEF OnItsWay
  <2> QED BY <1>6, <2>1 DEF Owed
<1>8. ASSUME NEW pair \in owed PROVE Owed(pair[1], pair[2])'
  <2>1. Owed(pair[1], pair[2])
    BY DEF NoteInv, NotesAreOwed
  <2>2. \A d : InPlace(d)' => InPlace(d) /\ Latest(d)' = Latest(d) /\ Latest(d) \in Connection
    BY <1>1, <1>6 DEF InPlace, Present, TypeOK
  <2> QED BY <1>5, <2>1, <2>2, NoteStays
<1>9. \A pair \in owed' : Owed(pair[1], pair[2])' /\ pair[1] # pair[2]
  <2>1. ASSUME NEW pair \in owed' PROVE Owed(pair[1], pair[2])' /\ pair[1] # pair[2]
    <3>1. CASE pair \in owed
      BY <1>8, <3>1 DEF NoteInv, NotesAreOwed
    <3>2. CASE pair = <<c[1], msg.to>>
      <4>1. pair[1] = c[1] /\ pair[2] = msg.to
        BY <3>2
      <4> QED BY <1>2, <1>7, <4>1
    <3> QED BY <1>3, <3>1, <3>2
  <2> QED BY <2>1
<1> QED BY <1>9 DEF NotesAreOwed

LEMMA ServeKeepsNotes ==
  ASSUME NoteInv, NEW c \in Connection, Serve(c)
  PROVE  NotesAreOwed'
<1> DEFINE msg == Head(up[c])
<1>1. TypeOK
  BY DEF NoteInv, PresenceInv, BaseInv
<1>2. up[c] \in Seq(FromClient) /\ up[c] # <<>> /\ msg \in FromClient /\ UNCHANGED <<opened, online>>
  BY <1>1, ServeIs
<1>3. msg \in Range(up[c])
  BY <1>2, TailIs
<1>4. PICK m : m = msg
  OBVIOUS
<1>5. \/ ServeAnnounce(c, m)
      \/ ServeEarly(c) \/ ServeReachable(c, m)
      \/ m.say = "waiting" /\ ServeWaiting(c, m)
      \/ m.say = "connect" /\ ServeConnect(c, m)
      \/ m.say = "accept" /\ ServeAccept(c, m)
  BY <1>4 DEF Serve
<1> DEFINE Grown == \A k \in Connection : Range(down[k]) \subseteq Range(down'[k])
<1>6. m \in FromClient /\ m \in Range(up[c]) /\ c[1] \in Device /\ [say |-> "error"] \in FromServer
  BY <1>2, <1>3, <1>4, ConnectionIs DEF FromServer
<1> HIDE DEF msg
<1>7. ASSUME Grown, UNCHANGED <<announced, owed, displaced>> PROVE NotesAreOwed'
  BY <1>2, <1>7, NotesStay
<1>8. down \in [Connection -> Seq(FromServer)]
  BY <1>1 DEF TypeOK
<1>9. CASE down' = Sent(down, c, [say |-> "error"]) /\ UNCHANGED <<announced, owed, displaced>>
  BY <1>6, <1>7, <1>8, <1>9, SentIs
<1>10. CASE ServeAnnounce(c, m)
  <2>1. CASE Full(c[1])
    BY <1>9, <1>10, <2>1 DEF ServeAnnounce
  <2>2. CASE ~Full(c[1])
    BY <1>10, <2>2, AnnounceKeepsNotes
  <2> QED BY <2>1, <2>2
<1>11. CASE ServeEarly(c)
  BY <1>9, <1>11 DEF ServeEarly, history
<1>12. CASE ServeReachable(c, m)
  BY <1>7, <1>12 DEF ServeReachable
<1>13. CASE m.say = "waiting" /\ ServeWaiting(c, m)
  BY <1>6, <1>13, WaitingKeepsNotes
<1>14. CASE m.say = "connect" /\ ServeConnect(c, m)
  <2>1. [say |-> "connect", from |-> c[1]] \in FromServer
    BY <1>6 DEF FromServer
  <2>2. CASE down' = SentTo(down, m.to, [say |-> "connect", from |-> c[1]])
    BY <1>7, <1>8, <1>14, <2>1, <2>2, SentToIs DEF ServeConnect, history
  <2> QED BY <1>9, <1>14, <2>2 DEF ServeConnect, history
<1>15. CASE m.say = "accept" /\ ServeAccept(c, m)
  <2> DEFINE one == [say |-> "punch", from |-> c[1]]
             other == [say |-> "punch", from |-> m.to]
             box == SentTo(down, m.to, one)
  <2>1. one \in FromServer /\ other \in FromServer
    <3>1. m.to \in Device
      BY <1>6, <1>15 DEF FromClient, Ordered
    <3> QED BY <1>6, <3>1 DEF FromServer
  <2>2. UNCHANGED <<announced, owed, displaced>> /\ (down' = Sent(box, c, other) \/ down' = Sent(down, c, [say |-> "error"]))
    BY <1>15 DEF ServeAccept, history
  <2> HIDE DEF one, other
  <2>3. box \in [Connection -> Seq(FromServer)] /\ \A k \in Connection : Range(down[k]) \subseteq Range(box[k])
    BY <1>8, <2>1, SentToIs
  <2> HIDE DEF box
  <2>4. CASE down' = Sent(box, c, other)
    <3>1. \A k \in Connection : Range(box[k]) \subseteq Range(down'[k])
      BY <2>1, <2>3, <2>4, SentIs
    <3>2. Grown
      BY <2>3, <3>1
    <3> QED BY <1>7, <2>2, <3>2
  <2> QED BY <1>9, <2>2, <2>4
<1> QED BY <1>5, <1>10, <1>11, <1>12, <1>13, <1>14, <1>15

\* What is heard of is no longer owed.
LEMMA HearKeepsNotes ==
  ASSUME NoteInv, NEW d \in Device, Hear(d)
  PROVE  NotesAreOwed'
<1>1. TypeOK /\ OnlineIsHeld
  BY DEF NoteInv, PresenceInv, BaseInv
<1>2. PICK msg : msg = Head(down[Latest(d)])
  OBVIOUS
<1>3. /\ d \in online /\ down[Latest(d)] # <<>> /\ down' = [down EXCEPT ![Latest(d)] = Tail(@)]
      /\ UNCHANGED <<opened, online, announced, displaced>>
      /\ owed' = owed \/ (msg.say \in {"appeared", "waiting"} /\ owed' = owed \ {<<d, msg.from>>, <<msg.from, d>>})
      /\ msg.say \in {"appeared", "waiting"} => owed' = owed \ {<<d, msg.from>>, <<msg.from, d>>}
  BY <1>2 DEF Hear, ToldOf, service
<1>4. Latest(d) \in Connection
  BY <1>1, <1>3 DEF OnlineIsHeld, TypeOK
<1>5. Range(down[Latest(d)]) = {msg} \cup Range(Tail(down[Latest(d)]))
  <2>1. down[Latest(d)] \in Seq(FromServer)
    BY <1>1, <1>4 DEF TypeOK
  <2> QED BY <1>2, <1>3, <2>1, TailIs
<1>6. \A p : Latest(p)' = Latest(p) /\ (InPlace(p)' <=> InPlace(p)) /\ Latest(p)[1] = p
  BY <1>3 DEF Latest, Live, Present, InPlace
<1>7. \A k \in Connection : down'[k] = IF k = Latest(d) THEN Tail(down[k]) ELSE down[k]
  BY <1>1, <1>3 DEF TypeOK
<1>8. ASSUME NEW x, NEW p, Latest(x) \in Connection, OnItsWay(x, p)
      PROVE  OnItsWay(x, p)' \/ (x = d /\ msg.say \in {"appeared", "waiting"} /\ msg.from = p)
  <2>1. PICK m \in Range(down[Latest(x)]) : m.say \in {"appeared", "waiting"} /\ m.from = p
    BY <1>8 DEF OnItsWay, Messages
  <2>2. CASE m \in Range(down'[Latest(x)])
    BY <1>6, <2>1, <2>2 DEF OnItsWay, Messages
  <2>3. CASE m \notin Range(down'[Latest(x)])
    <3>1. Latest(x) = Latest(d)
      BY <1>7, <1>8, <2>1, <2>3
    <3>2. x = d
      BY <1>6, <3>1
    <3>3. m = msg
      BY <1>4, <1>5, <1>7, <2>1, <2>3, <3>2
    <3> QED BY <2>1, <3>2, <3>3
  <2> QED BY <2>2, <2>3
<1>9. ASSUME NEW pair \in owed' PROVE Owed(pair[1], pair[2])' /\ pair[1] # pair[2]
  <2>1. pair \in owed /\ pair = <<pair[1], pair[2]>>
    <3>1. pair \in owed /\ owed \subseteq Device \X Device
      BY <1>1, <1>3, <1>9 DEF TypeOK
    <3> QED BY <3>1
  <2>2. pair[1] # pair[2] /\ Owed(pair[1], pair[2])
    BY <2>1 DEF NoteInv, NotesAreOwed
  <2>3. msg.say \in {"appeared", "waiting"} => pair # <<d, msg.from>> /\ pair # <<msg.from, d>>
    BY <1>3, <1>9
  <2>4. CASE ~InPlace(pair[1]) \/ ~InPlace(pair[2])
    BY <1>6, <2>2, <2>4 DEF Owed
  <2>5. CASE InPlace(pair[1]) /\ InPlace(pair[2])
    <3>1. Latest(pair[1]) \in Connection /\ Latest(pair[2]) \in Connection
      BY <1>1, <2>5 DEF InPlace, Present, TypeOK
    <3>2. CASE OnItsWay(pair[2], pair[1])
      <4>1. OnItsWay(pair[2], pair[1])'
        BY <1>8, <2>1, <2>3, <3>1, <3>2
      <4> QED BY <2>2, <4>1 DEF Owed
    <3>3. CASE OnItsWay(pair[1], pair[2])
      <4>1. OnItsWay(pair[1], pair[2])'
        BY <1>8, <2>1, <2>3, <3>1, <3>3
      <4> QED BY <2>2, <4>1 DEF Owed
    <3> QED BY <2>2, <2>5, <3>2, <3>3 DEF Owed
  <2> QED BY <2>4, <2>5
<1> QED BY <1>9 DEF NotesAreOwed

LEMMA NoteStep ==
  ASSUME NoteInv, [Next]_vars
  PROVE  NoteInv'
<1>1. PresenceInv'
  BY PresenceStep DEF NoteInv
<1>2. TypeOK
  BY DEF NoteInv, PresenceInv, BaseInv
<1>3. CASE UNCHANGED <<opened, announced, online, down, owed, displaced>>
  BY <1>1, <1>3, NotesStay DEF NoteInv
<1>4. ASSUME NEW d \in Device, Connect(d) PROVE NoteInv'
  BY <1>1, <1>4, ConnectKeepsNotes DEF NoteInv
<1>5. ASSUME NEW d \in Device, Lose(d) PROVE NoteInv'
  <2>1. /\ UNCHANGED <<opened, announced, owed, displaced>> /\ online' = online \ {d}
        /\ down' = [c \in Connection |-> IF c[1] \in {d} THEN <<>> ELSE down[c]]
    BY <1>5 DEF Lose, Gone, service, history
  <2>2. \A c \in Connection : c[1] \in online' => down'[c] = down[c]
    BY <2>1
  <2> QED BY <1>1, <2>1, <2>2, NotesStay DEF NoteInv
<1>6. ASSUME NEW d \in Device, Move(d) \/ AnnounceAgain(d) \/ Asks(d)
      PROVE  UNCHANGED <<opened, announced, online, down, owed, displaced>>
  BY <1>6 DEF Move, AnnounceAgain, Asks, TellWaiting, Introduce, Reachable, Command, service, history
<1>7. ASSUME NEW d \in Device, Hear(d) PROVE NoteInv'
  BY <1>1, <1>7, HearKeepsNotes DEF NoteInv
<1>8. ASSUME NEW c \in Connection, Serve(c) PROVE NoteInv'
  BY <1>1, <1>8, ServeKeepsNotes DEF NoteInv
<1>9. ASSUME NEW c \in Connection, End(c) PROVE NoteInv'
  <2>1. UNCHANGED <<opened, online, down, owed>> /\ announced' \subseteq announced /\ displaced \subseteq displaced'
    BY <1>9 DEF End, device
  <2>2. \A d : Latest(d)' = Latest(d) /\ (InPlace(d)' => InPlace(d))
    BY <2>1 DEF Latest, Live, Present, InPlace
  <2>3. \A pair \in owed : Owed(pair[1], pair[2])
    BY DEF NoteInv, NotesAreOwed
  <2>4. \A pair \in owed : Owed(pair[1], pair[2])'
    BY <2>1, <2>2, <2>3, NoteStays
  <2> QED BY <1>1, <2>1, <2>4 DEF NoteInv, NotesAreOwed
<1>10. ASSUME NEW t \in pushes, Pushed(t) PROVE UNCHANGED <<opened, announced, online, down, owed, displaced>>
  BY <1>10 DEF Pushed, device, history
<1>11. CASE Restart
  <2>1. announced' = {} /\ owed' = owed
    BY <1>11 DEF Restart
  <2>2. \A d : ~InPlace(d)'
    BY <2>1 DEF InPlace, Present
  <2> QED BY <1>1, <2>1, <2>2 DEF NoteInv, NotesAreOwed, Owed
<1>12. CASE UNCHANGED vars
  BY <1>3, <1>12 DEF vars, device, service, history
<1> QED BY <1>3, <1>4, <1>5, <1>6, <1>7, <1>8, <1>9, <1>10, <1>11, <1>12 DEF Next

\* note_waiting, announce and leave: no note is lost between two devices that
\* are both there, for any number of devices, connections and restarts, but
\* where an older connection of one has displaced it, until it announces again.
THEOREM NoNoteIsEverLost == Spec => []NoNoteIsLost
<1>1. Init => NoteInv
  BY PresenceStart DEF Init, NoteInv, NotesAreOwed
<1>2. NoteInv /\ [Next]_vars => NoteInv'
  BY NoteStep
<1>3. NoteInv => NoNoteIsLost
  BY DEF NoteInv, NotesAreOwed, Owed, InPlace, NoNoteIsLost, NotesReach
<1> QED BY <1>1, <1>2, <1>3, PTL DEF Spec

-----------------------------------------------------------------------------
(* Addresses.                                                              *)

\* The last announcement of those waiting to be served says this address.
LastSays(s, a) ==
    \A i \in 1..Len(s) :
        s[i].say = "announce" /\ (\A j \in i + 1..Len(s) : s[j].say # "announce") => s[i].at = a
Quiet(s) == \A i \in 1..Len(s) : s[i].say # "announce"

\* Where a device that is connected last said it was is what it will be listed
\* at, or is.
SaysWhere(d) ==
    /\ LastSays(up[Latest(d)], here[d])
    /\ Quiet(up[Latest(d)]) /\ Listed(d) /\ d \notin displaced => members[d].at = here[d]

AddressInv == PresenceInv /\ \A d \in online : SaysWhere(d)

LEMMA AppendQuiet ==
  ASSUME NEW s \in Seq(FromClient), NEW msg \in FromClient, NEW a
  PROVE  /\ msg.say # "announce" => /\ LastSays(s, a) => LastSays(Append(s, msg), a)
                                    /\ Quiet(Append(s, msg)) => Quiet(s)
         /\ msg.say = "announce" /\ msg.at = a => LastSays(Append(s, msg), a) /\ ~Quiet(Append(s, msg))
<1> DEFINE r == Append(s, msg)
<1>1. Len(s) \in Nat /\ Len(r) = Len(s) + 1 /\ r[Len(s) + 1] = msg /\ \A i \in 1..Len(s) : r[i] = s[i]
  BY AppendIs, LenProperties
<1> HIDE DEF r
<1>2. \A i \in 1..Len(r) : i \in 1..Len(s) \/ i = Len(s) + 1
  BY <1>1
<1>3. Len(s) + 1 \in 1..Len(r) /\ \A i \in 1..Len(s) : i \in 1..Len(r) /\ Len(s) + 1 \in i + 1..Len(r)
  BY <1>1
<1>4. \A i \in 1..Len(s) : \A j \in i + 1..Len(s) : j \in i + 1..Len(r) /\ r[j] = s[j]
  BY <1>1
<1>5. ASSUME msg.say # "announce" PROVE (LastSays(s, a) => LastSays(r, a)) /\ (Quiet(r) => Quiet(s))
  <2>1. ASSUME LastSays(s, a), NEW i \in 1..Len(r), r[i].say = "announce",
               \A j \in i + 1..Len(r) : r[j].say # "announce"
        PROVE  r[i].at = a
    <3>1. i \in 1..Len(s) /\ r[i] = s[i]
      BY <1>1, <1>2, <1>5, <2>1
    <3>2. \A j \in i + 1..Len(s) : s[j].say # "announce"
      BY <1>4, <2>1, <3>1
    <3> QED BY <2>1, <3>1, <3>2 DEF LastSays
  <2>2. Quiet(r) => Quiet(s)
    BY <1>1, <1>3 DEF Quiet
  <2> QED BY <2>1, <2>2 DEF LastSays
<1>6. ASSUME msg.say = "announce", msg.at = a PROVE LastSays(r, a) /\ ~Quiet(r)
  <2>1. ~Quiet(r)
    BY <1>1, <1>3, <1>6 DEF Quiet
  <2>2. ASSUME NEW i \in 1..Len(r), r[i].say = "announce", \A j \in i + 1..Len(r) : r[j].say # "announce"
        PROVE  r[i].at = a
    BY <1>1, <1>2, <1>3, <1>6, <2>2
  <2> QED BY <2>1, <2>2 DEF LastSays
<1> QED BY <1>5, <1>6 DEF r

LEMMA TailQuiet ==
  ASSUME NEW s \in Seq(FromClient), s # <<>>, NEW a, LastSays(s, a)
  PROVE  /\ LastSays(Tail(s), a)
         /\ Quiet(Tail(s)) /\ Head(s).say = "announce" => Head(s).at = a
         /\ Quiet(Tail(s)) /\ Head(s).say # "announce" => Quiet(s)
<1> DEFINE r == Tail(s)
<1>1. Len(s) \in Nat \ {0} /\ Len(r) = Len(s) - 1 /\ Head(s) = s[1] /\ \A i \in 1..Len(r) : r[i] = s[i + 1]
  BY TailIs
<1> HIDE DEF r
<1>2. \A i \in 1..Len(s) : i = 1 \/ (i - 1 \in 1..Len(r) /\ r[i - 1] = s[i])
  <2>1. ASSUME NEW i \in 1..Len(s), i # 1 PROVE i - 1 \in 1..Len(r) /\ (i - 1) + 1 = i
    BY <1>1, <2>1
  <2> QED BY <1>1, <2>1
<1>3. ASSUME NEW i \in 1..Len(r), r[i].say = "announce", \A j \in i + 1..Len(r) : r[j].say # "announce"
      PROVE  r[i].at = a
  <2>1. i + 1 \in 1..Len(s) /\ s[i + 1] = r[i]
    BY <1>1
  <2>2. ASSUME NEW j \in (i + 1) + 1..Len(s) PROVE s[j].say # "announce"
    <3>1. j - 1 \in i + 1..Len(r) /\ j \in 1..Len(s) /\ j # 1
      BY <1>1
    <3> QED BY <1>2, <1>3, <3>1
  <2> QED BY <1>3, <2>1, <2>2 DEF LastSays
<1>4. ASSUME Quiet(r), Head(s).say = "announce" PROVE Head(s).at = a
  <2>1. 1 \in 1..Len(s)
    BY <1>1
  <2>2. ASSUME NEW j \in 1 + 1..Len(s) PROVE s[j].say # "announce"
    <3>1. j \in 1..Len(s) /\ j # 1
      BY <1>1
    <3> QED BY <1>2, <1>4, <3>1 DEF Quiet
  <2> QED BY <1>1, <1>4, <2>1, <2>2 DEF LastSays
<1>5. ASSUME Quiet(r), Head(s).say # "announce" PROVE Quiet(s)
  BY <1>1, <1>2, <1>5 DEF Quiet
<1> QED BY <1>3, <1>4, <1>5 DEF r, LastSays

\* What a device says last stays so where nothing is added that says where it
\* is, and nothing of the directory changes but that it is taken off.
LEMMA WhereStays ==
  ASSUME NEW d, SaysWhere(d), UNCHANGED opened, here'[d] = here[d], up'[Latest(d)] = up[Latest(d)],
         d \notin displaced' => d \notin displaced,
         d \in DOMAIN members' => d \in DOMAIN members /\ members'[d] = members[d]
  PROVE  SaysWhere(d)'
BY DEF SaysWhere, Latest, Listed

LEMMA ConnectKeepsAddresses ==
  ASSUME AddressInv, NEW d \in Device, Connect(d), NEW p \in online'
  PROVE  SaysWhere(p)'
<1>1. TypeOK /\ PresenceInv /\ OnlineIsHeld
  BY DEF AddressInv, PresenceInv, BaseInv
<1>2. /\ up'[Latest(d)'] = <<Announce(d)>> \o commands[d] /\ Latest(d)' \in Connection
      /\ \A c \in Connection : c # Latest(d)' => up'[c] = up[c]
  BY <1>1, ConnectKeepsTypes, SignalAssumption
<1>3. online' = online \cup {d} /\ here' = [here EXCEPT ![d] = at[d]] /\ members' = members /\ displaced' = displaced
  BY DEF Connect, history
<1>4. \A q \in Device : q # d => Latest(q)' = Latest(q)
  BY <1>1, ConnectIs
<1>5. CASE p # d
  <2>1. p \in online /\ p \in Device /\ SaysWhere(p) /\ Latest(p) \in Connection
    BY <1>1, <1>3, <1>5 DEF AddressInv, OnlineIsHeld, TypeOK
  <2>2. Latest(p)' = Latest(p) /\ Latest(p) # Latest(d)'
    BY <1>4, <1>5, <2>1 DEF Latest
  <2>3. up'[Latest(p)'] = up[Latest(p)] /\ here'[p] = here[p]
    BY <1>1, <1>2, <1>3, <1>5, <2>1, <2>2 DEF TypeOK
  <2> QED BY <1>3, <2>1, <2>3 DEF SaysWhere, Listed
<1>6. CASE p = d
  <2> DEFINE one == <<Announce(d)>>
             s == one \o commands[d]
  <2>1. Announce(d) \in FromClient /\ Announce(d).say = "announce" /\ Announce(d).at = at[d] /\ here'[d] = at[d]
    <3>1. at[d] \in Nat /\ here'[d] = at[d]
      BY <1>1, <1>3 DEF TypeOK
    <3> QED BY <3>1 DEF Announce, FromClient
  <2>2. one \in Seq(FromClient) /\ Len(one) = 1 /\ one[1] = Announce(d)
    <3> DEFINE a == Announce(d)
    <3>1. a \in FromClient
      BY <2>1
    <3> HIDE DEF a
    <3>2. <<a>> \in Seq(FromClient) /\ Len(<<a>>) = 1 /\ <<a>>[1] = a
      BY <3>1
    <3> QED BY <3>2 DEF a
  <2>3. /\ commands[d] \in Seq(FromClient) /\ Len(commands[d]) \in Nat
        /\ \A i \in 1..Len(commands[d]) : commands[d][i].say # "announce"
    <3>1. commands[d] \in Seq(Ordered)
      BY <1>1 DEF TypeOK
    <3>2. \A i \in 1..Len(commands[d]) : commands[d][i] \in Ordered
      BY <3>1
    <3> QED BY <3>1, <3>2, SeqMonotonic, LenProperties DEF Ordered, FromClient
  <2> HIDE DEF one
  <2>4. /\ Len(s) = 1 + Len(commands[d]) /\ s[1] = Announce(d)
        /\ \A i \in 2..Len(s) : s[i] = commands[d][i - 1] /\ i - 1 \in 1..Len(commands[d])
    <3>1. /\ Len(s) = Len(one) + Len(commands[d])
          /\ \A i \in 1..Len(one) + Len(commands[d]) :
               s[i] = IF i <= Len(one) THEN one[i] ELSE commands[d][i - Len(one)]
      BY <2>2, <2>3, ConcatProperties
    <3> HIDE DEF s
    <3>2. Len(s) = 1 + Len(commands[d]) /\ 1 \in 1..1 + Len(commands[d]) /\ 1 <= 1
      BY <2>2, <2>3, <3>1
    <3>3. s[1] = Announce(d)
      BY <2>2, <3>1, <3>2
    <3>4. ASSUME NEW i \in 2..Len(s) PROVE s[i] = commands[d][i - 1] /\ i - 1 \in 1..Len(commands[d])
      <4>1. i \in 1..1 + Len(commands[d]) /\ ~(i <= 1) /\ i - 1 \in 1..Len(commands[d])
        BY <2>3, <3>2
      <4> QED BY <2>2, <3>1, <4>1
    <3> QED BY <3>2, <3>3, <3>4
  <2> HIDE DEF s
  <2>5. \A i \in 1..Len(s) : i = 1 \/ s[i].say # "announce"
    <3>1. \A i \in 1..Len(s) : i = 1 \/ i \in 2..Len(s)
      BY <2>3, <2>4
    <3> QED BY <2>3, <2>4, <3>1
  <2>6. LastSays(s, at[d])
    BY <2>1, <2>4, <2>5 DEF LastSays
  <2>7. ~Quiet(s)
    <3>1. 1 \in 1..Len(s)
      BY <2>3, <2>4
    <3> QED BY <2>1, <2>4, <3>1 DEF Quiet
  <2>8. up'[Latest(d)'] = s
    BY <1>2 DEF s, one
  <2> QED BY <1>6, <2>1, <2>6, <2>7, <2>8 DEF SaysWhere
<1> QED BY <1>5, <1>6

\* A device that says something says where it is, or nothing of it.
LEMMA SayKeepsAddresses ==
  ASSUME AddressInv, NEW d \in Device, NEW msg \in FromClient, Say(Latest(d), msg),
         UNCHANGED <<opened, online, members, displaced>>,
         \/ msg.say # "announce" /\ here' = here
         \/ msg.say = "announce" /\ here' = [here EXCEPT ![d] = msg.at],
         NEW p \in online'
  PROVE  SaysWhere(p)'
<1>1. TypeOK /\ OnlineIsHeld /\ p \in online /\ SaysWhere(p)
  BY DEF AddressInv, PresenceInv, BaseInv
<1>2. \A k \in Connection : up'[k] = IF k = Latest(d) THEN Append(up[k], msg) ELSE up[k]
  BY <1>1, SaidIs
<1>3. Latest(p) \in Connection /\ up[Latest(p)] \in Seq(FromClient) /\ p \in Device
  BY <1>1 DEF OnlineIsHeld, TypeOK
<1>4. CASE p # d
  <2>1. Latest(p) # Latest(d)
    BY <1>4 DEF Latest
  <2>2. here'[p] = here[p] /\ up'[Latest(p)] = up[Latest(p)]
    BY <1>1, <1>2, <1>3, <1>4, <2>1 DEF TypeOK
  <2> QED BY <1>1, <2>2, WhereStays
<1>5. CASE p = d
  <2>1. up'[Latest(d)] = Append(up[Latest(d)], msg) /\ Latest(d)' = Latest(d) /\ up[Latest(d)] \in Seq(FromClient)
    BY <1>2, <1>3, <1>5 DEF Latest
  <2>2. CASE msg.say # "announce" /\ here' = here
    <3>1. /\ LastSays(up[Latest(d)], here[d]) => LastSays(Append(up[Latest(d)], msg), here[d])
          /\ Quiet(Append(up[Latest(d)], msg)) => Quiet(up[Latest(d)])
      BY <2>1, <2>2, AppendQuiet
    <3> QED BY <1>1, <1>5, <2>1, <2>2, <3>1 DEF SaysWhere, Listed
  <2>3. CASE msg.say = "announce" /\ here' = [here EXCEPT ![d] = msg.at]
    <3>1. here'[d] = msg.at
      BY <1>1, <2>3 DEF TypeOK
    <3>2. LastSays(Append(up[Latest(d)], msg), msg.at) /\ ~Quiet(Append(up[Latest(d)], msg))
      BY <2>1, <2>3, AppendQuiet
    <3> QED BY <1>5, <2>1, <3>1, <3>2 DEF SaysWhere
  <2> QED BY <2>2, <2>3
<1> QED BY <1>4, <1>5

\* serve_one takes what is said in its order.
LEMMA ServeKeepsAddresses ==
  ASSUME AddressInv, NEW c \in Connection, Serve(c), NEW p \in online'
  PROVE  SaysWhere(p)'
<1>1. TypeOK /\ PresenceInv /\ OnlineIsHeld
  BY DEF AddressInv, PresenceInv, BaseInv
<1>2. PICK m : m = Head(up[c])
  OBVIOUS
<1>3. /\ up'[c] = Tail(up[c]) /\ \A k \in Connection : k # c => up'[k] = up[k]
      /\ up[c] \in Seq(FromClient) /\ up[c] # <<>>
      /\ UNCHANGED <<opened, online, here>> /\ c \in held
  BY <1>1, ServeIs
<1>4. p \in online /\ SaysWhere(p) /\ Latest(p) \in Connection /\ Latest(p)' = Latest(p)
  BY <1>1, <1>3 DEF AddressInv, OnlineIsHeld, TypeOK, Latest
<1>5. (m.say = "announce" /\ ServeAnnounce(c, m)) \/ (m.say # "announce" /\ UNCHANGED <<members, displaced>>)
  <2>1. ServeEarly(c) \/ ServeReachable(c, m) \/ ServeWaiting(c, m) \/ ServeConnect(c, m) \/ ServeAccept(c, m)
          => UNCHANGED <<members, displaced>>
    BY DEF ServeEarly, ServeReachable, ServeWaiting, ServeConnect, ServeAccept, history
  <2>2. \/ m.say = "announce" /\ ServeAnnounce(c, m)
        \/ m.say # "announce" /\ (ServeEarly(c) \/ ServeReachable(c, m) \/ ServeWaiting(c, m)
                                    \/ ServeConnect(c, m) \/ ServeAccept(c, m))
    BY <1>2 DEF Serve
  <2> QED BY <2>1, <2>2
<1>6. CASE p # c[1]
  <2>1. Latest(p) # c
    BY <1>4, <1>6 DEF Latest
  <2>2. /\ p \in DOMAIN members' => p \in DOMAIN members /\ members'[p] = members[p]
        /\ p \notin displaced' => p \notin displaced
    <3>1. CASE UNCHANGED <<members, displaced>>
      BY <3>1
    <3>2. CASE ServeAnnounce(c, m) /\ ~Full(c[1])
      <4>1. /\ DOMAIN members' = DOMAIN members \cup {c[1]}
            /\ \A q \in DOMAIN members : q # c[1] => members'[q] = members[q]
            /\ \A q : q # c[1] => (q \in displaced' <=> q \in displaced)
        BY <1>1, <3>2, AnnouncedIs
      <4> QED BY <1>6, <4>1
    <3> QED BY <1>5, <3>1, <3>2 DEF ServeAnnounce
  <2> QED BY <1>3, <1>4, <2>1, <2>2, WhereStays
<1>7. CASE p = c[1] /\ c = Latest(p)
  <2>1. LastSays(up[c], here[p])
    BY <1>4, <1>7 DEF SaysWhere
  <2>2. /\ LastSays(Tail(up[c]), here[p])
        /\ Quiet(Tail(up[c])) /\ m.say = "announce" => m.at = here[p]
        /\ Quiet(Tail(up[c])) /\ m.say # "announce" => Quiet(up[c])
    BY <1>2, <1>3, <2>1, TailQuiet
  <2>3. ASSUME Quiet(Tail(up[c])), p \in DOMAIN members', p \notin displaced' PROVE members'[p].at = here[p]
    <3>1. CASE m.say # "announce" /\ UNCHANGED <<members, displaced>>
      BY <1>4, <1>7, <2>1, <2>2, <2>3, <3>1 DEF SaysWhere, Listed
    <3>2. CASE m.say = "announce" /\ ServeAnnounce(c, m) /\ Full(c[1])
      <4>1. members' = members /\ ~Listed(p)
        BY <1>7, <3>2 DEF ServeAnnounce, Full
      <4> QED BY <2>3, <4>1 DEF Listed
    <3>3. CASE m.say = "announce" /\ ServeAnnounce(c, m) /\ ~Full(c[1])
      <4>1. members'[p] = [at |-> m.at, conn |-> c]
        BY <1>1, <1>7, <3>3, AnnouncedIs
      <4> QED BY <2>2, <2>3, <3>3, <4>1
    <3> QED BY <1>5, <3>1, <3>2, <3>3
  <2> QED BY <1>3, <1>4, <1>7, <2>1, <2>2, <2>3 DEF SaysWhere, Listed
<1>8. CASE p = c[1] /\ c # Latest(p)
  <2>1. up'[Latest(p)] = up[Latest(p)]
    BY <1>3, <1>4, <1>8
  <2>2. CASE p \in displaced'
    BY <1>3, <1>4, <2>1, <2>2 DEF SaysWhere
  <2>3. CASE p \notin displaced'
    <3>1. UNCHANGED <<members, displaced>>
      <4>1. CASE ServeAnnounce(c, m) /\ ~Full(c[1])
        BY <1>8, <2>3, <4>1, AnnouncedIs
      <4> QED BY <1>5, <4>1 DEF ServeAnnounce
    <3> QED BY <1>3, <1>4, <2>1, <3>1, WhereStays
  <2> QED BY <2>2, <2>3
<1> QED BY <1>6, <1>7, <1>8

LEMMA AddressStep ==
  ASSUME AddressInv, [Next]_vars
  PROVE  AddressInv'
<1> SUFFICES ASSUME NEW p \in online' PROVE SaysWhere(p)'
  BY PresenceStep DEF AddressInv
<1>1. TypeOK /\ OnlineIsHeld /\ PresenceInv
  BY DEF AddressInv, PresenceInv, BaseInv
<1>2. ASSUME UNCHANGED <<opened, here, members, up, displaced>>, online' \subseteq online PROVE SaysWhere(p)'
  BY <1>2, WhereStays DEF AddressInv
<1>3. ASSUME NEW d \in Device, Connect(d) PROVE SaysWhere(p)'
  BY <1>3, ConnectKeepsAddresses
<1>4. ASSUME NEW d \in Device, Lose(d) \/ Move(d) PROVE SaysWhere(p)'
  <2>1. UNCHANGED <<opened, here, members, up, displaced>> /\ online' \subseteq online
    BY <1>4 DEF Lose, Move, Gone, service, history
  <2> QED BY <1>2, <2>1
<1>5. ASSUME NEW d \in Device, AnnounceAgain(d) PROVE SaysWhere(p)'
  <2>1. PICK msg : msg = Announce(d)
    OBVIOUS
  <2>2. msg \in FromClient /\ msg.say = "announce" /\ msg.at = at[d]
    <3>1. at[d] \in Nat
      BY <1>1 DEF TypeOK
    <3> QED BY <2>1, <3>1 DEF Announce, FromClient
  <2>3. Say(Latest(d), msg) /\ here' = [here EXCEPT ![d] = msg.at] /\ UNCHANGED <<opened, online, members, displaced>>
    BY <1>5, <2>1, <2>2 DEF AnnounceAgain, service, history
  <2> QED BY <2>2, <2>3, SayKeepsAddresses
<1>6. ASSUME NEW d \in Device, NEW msg \in Ordered, Command(d, msg) PROVE SaysWhere(p)'
  <2>1. UNCHANGED <<opened, online, here, members, displaced>> /\ (Say(Latest(d), msg) \/ up' = up)
    BY <1>6 DEF Command, service, history
  <2>2. msg \in FromClient /\ msg.say # "announce"
    BY DEF Ordered, FromClient
  <2>3. CASE Say(Latest(d), msg)
    BY <2>1, <2>2, <2>3, SayKeepsAddresses
  <2>4. CASE up' = up
    BY <1>2, <2>1, <2>4
  <2> QED BY <2>1, <2>3, <2>4
<1>7. ASSUME NEW d \in Device, Asks(d) PROVE SaysWhere(p)'
  <2>1. PICK msg \in Ordered : Command(d, msg)
    <3>1. ASSUME NEW q \in Device, NEW k \in {"waiting", "connect"} PROVE [say |-> k, to |-> q] \in Ordered
      BY DEF Ordered
    <3>2. ASSUME NEW can \in BOOLEAN, Reachable(d, can) PROVE \E msg \in Ordered : Command(d, msg)
      <4>1. issued[d] \in Nat
        BY <1>1 DEF TypeOK
      <4>2. PICK via \in Nat : via = IF can THEN issued[d] + 1 ELSE 0
        BY <4>1
      <4>3. [say |-> "reachable", via |-> via] \in Ordered
        BY DEF Ordered
      <4>4. Command(d, [say |-> "reachable", via |-> via])
        BY <3>2, <4>2 DEF Reachable
      <4> QED BY <4>3, <4>4
    <3> QED BY <1>7, <3>1, <3>2 DEF Asks, TellWaiting, Introduce
  <2> QED BY <1>6, <2>1
<1>8. ASSUME NEW d \in Device, Hear(d) PROVE SaysWhere(p)'
  <2>1. PICK msg : msg = Head(down[Latest(d)])
    OBVIOUS
  <2>2. UNCHANGED <<opened, online, here, members, displaced>> /\ d \in online /\ down[Latest(d)] # <<>>
    BY <1>8 DEF Hear, service
  <2>3. up' = up \/ (msg.say = "connect" /\ Say(Latest(d), [say |-> "accept", to |-> msg.from, at |-> here[d]]))
    BY <1>8, <2>1 DEF Hear, ToldOf
  <2>4. CASE up' = up
    BY <1>2, <2>2, <2>4
  <2>5. CASE msg.say = "connect" /\ Say(Latest(d), [say |-> "accept", to |-> msg.from, at |-> here[d]])
    <3>1. PICK answer : answer = [say |-> "accept", to |-> msg.from, at |-> here[d]]
      OBVIOUS
    <3>2. msg \in FromServer
      BY <1>1, <2>1, <2>2, TailIs DEF OnlineIsHeld, TypeOK
    <3>3. msg.from \in Device /\ here[d] \in Nat
      BY <1>1, <2>5, <3>2 DEF FromServer, TypeOK
    <3>4. answer \in FromClient /\ answer.say # "announce"
      BY <3>1, <3>3 DEF FromClient
    <3>5. Say(Latest(d), answer)
      BY <2>5, <3>1
    <3> QED BY <2>2, <3>4, <3>5, SayKeepsAddresses
  <2> QED BY <2>3, <2>4, <2>5
<1>9. ASSUME NEW c \in Connection, Serve(c) PROVE SaysWhere(p)'
  BY <1>9, ServeKeepsAddresses
<1>10. ASSUME NEW c \in Connection, End(c) PROVE SaysWhere(p)'
  <2>1. UNCHANGED <<opened, online, here>> /\ ~Live(c) /\ up' = [up EXCEPT ![c] = <<>>]
    BY <1>10 DEF End, device
  <2>2. p \in online /\ SaysWhere(p) /\ Latest(p) # c /\ Latest(p) \in Connection
    BY <1>1, <2>1, LatestIs DEF AddressInv, OnlineIsHeld, TypeOK
  <2>3. up'[Latest(p)] = up[Latest(p)]
    BY <1>1, <2>1, <2>2 DEF TypeOK
  <2>4. /\ p \in DOMAIN members' => p \in DOMAIN members /\ members'[p] = members[p]
        /\ displaced \subseteq displaced'
    BY <1>1, <1>10, EndPresence
  <2> QED BY <2>1, <2>2, <2>3, <2>4, WhereStays
<1>11. ASSUME NEW t \in pushes, Pushed(t) PROVE SaysWhere(p)'
  <2>1. UNCHANGED <<opened, here, members, up, online, displaced>>
    BY <1>11 DEF Pushed, device, history
  <2> QED BY <1>2, <2>1
<1>12. CASE Restart
  <2>1. online' = {}
    BY <1>1, <1>12 DEF Restart, Gone, TypeOK
  <2> QED BY <2>1
<1>13. CASE UNCHANGED vars
  BY <1>2, <1>13 DEF vars, device, service, history
<1> QED BY <1>3, <1>4, <1>5, <1>7, <1>8, <1>9, <1>10, <1>11, <1>12, <1>13 DEF Next

\* Announce, follow_addresses and run_signalling: the service has a device that
\* is there where it is, once it has heard what the device said, after any
\* moves, lost connections and restarts, but where an older connection of its own
\* has displaced it, until it announces again.
THEOREM AddressIsAlwaysCurrent == Spec => []AddressIsCurrent
<1>1. Init => AddressInv
  BY PresenceStart DEF Init, AddressInv
<1>2. AddressInv /\ [Next]_vars => AddressInv'
  BY AddressStep
<1>3. AddressInv => AddressIsCurrent
  <2> SUFFICES ASSUME AddressInv, NEW d \in Device \ displaced, Present(d), here[d] = at[d],
                      \A msg \in Messages(up, Latest(d)) : msg.say # "announce"
               PROVE  Listed(d) /\ members[d] = [at |-> at[d], conn |-> Latest(d)]
    BY DEF AddressIsCurrent, Heard
  <2>1. TypeOK /\ AnnouncedIsListed
    BY DEF AddressInv, PresenceInv, BaseInv
  <2>2. d \in online /\ Latest(d) \in Connection /\ Listed(d) /\ members[d].conn = Latest(d)
    BY <2>1, LatestIs DEF Present, AnnouncedIsListed, TypeOK
  <2>3. Quiet(up[Latest(d)])
    <3>1. up[Latest(d)] \in Seq(FromClient)
      BY <2>1, <2>2 DEF TypeOK
    <3>2. \A i \in 1..Len(up[Latest(d)]) : up[Latest(d)][i] \in Range(up[Latest(d)])
      BY <3>1, InRange
    <3> QED BY <3>2 DEF Quiet, Messages
  <2>4. members[d].at = at[d]
    BY <2>2, <2>3 DEF AddressInv, SaysWhere
  <2>5. members[d] \in [at: Nat, conn: Connection]
    BY <2>1, <2>2 DEF TypeOK, Listed
  <2> QED BY <2>2, <2>4, <2>5
<1> QED BY <1>1, <1>2, <1>3, PTL DEF Spec
=============================================================================
