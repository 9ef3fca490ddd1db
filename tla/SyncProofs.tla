----------------------------- MODULE SyncProofs -----------------------------
(***************************************************************************)
(* Proofs about Sync, for any devices, names, contents and bounds.         *)
(***************************************************************************)
EXTENDS Sync, SequenceTheorems, TLAPS

\* Vectors are closed under merging.
LEMMA MergedType ==
  ASSUME NEW u \in Vector, NEW v \in Vector
  PROVE  Merged(u, v) \in Vector
BY DEF Merged, Vector

\* VersionVector::dominates is the pointwise order.
LEMMA DominatesPointwise ==
  ASSUME NEW u \in Vector, NEW v \in Vector
  PROVE  Dominates(u, v) <=> \A e \in Device : v[e] <= u[e]
<1>1. Dominates(u, v) <=> ~Ahead(v, u)
  BY DEF Dominates, Compare, Ahead
<1>2. Ahead(v, u) <=> ~ \A e \in Device : v[e] <= u[e]
  BY DEF Ahead, Vector
<1> QED BY <1>1, <1>2

\* A merged vector accounts for both of the vectors it merges
\* (VersionVector::merged).
LEMMA MergedDominates ==
  ASSUME NEW u \in Vector, NEW v \in Vector
  PROVE  /\ Dominates(Merged(u, v), u)
         /\ Dominates(Merged(u, v), v)
<1>1. \A e \in Device : u[e] <= Merged(u, v)[e] /\ v[e] <= Merged(u, v)[e]
  BY DEF Merged, Vector
<1> QED BY <1>1, MergedType, DominatesPointwise

\* What resolve::resolve asks for is an action of a plan.
LEMMA PlanType ==
  ASSUME NEW l \in Version, NEW r \in Version
  PROVE  Resolve(l, r) \subseteq PlanAction
<1>1. /\ Merged(l.vector, r.vector) \in Vector
      /\ Action("Adopt", <<r>>) \in PlanAction
  BY MergedType DEF Version, Action, PlanAction
<1>2. MergeAction(l, r) \in PlanAction
  BY <1>1 DEF MergeAction, Version, Action, PlanAction
<1>3. ResurrectAction(l, r) \in PlanAction
  BY <1>1 DEF ResurrectAction, Version, Action, PlanAction
<1>4. ASSUME NEW v \in Version PROVE ConflictPath(v) \in Path
  <2>1. Append(v.path.tags, <<v.by, v.at>>) \in Seq(Device \X Nat)
    BY AppendProperties DEF Version, Path
  <2> QED BY <2>1 DEF ConflictPath, Version, Path
<1>5. ConflictAction(l, r) \in PlanAction
  <2> DEFINE winner == IF WinsPath(l, r) THEN l ELSE r
             loser == IF WinsPath(l, r) THEN r ELSE l
             both == Merged(l.vector, r.vector)
             x == [loser EXCEPT !.path = ConflictPath(loser), !.vector = both]
             y == [winner EXCEPT !.vector = both]
  <2>1. x \in Version
    BY <1>1, <1>4 DEF Version
  <2>2. y \in Version
    BY <1>1 DEF Version
  <2>3. <<x, y>> \in Seq(Version)
    <3> HIDE DEF x, y
    <3> QED BY <2>1, <2>2
  <2> QED BY <2>3 DEF ConflictAction, Action, PlanAction
<1> QED BY <1>1, <1>2, <1>3, <1>5 DEF Resolve, ResolveConcurrent, Compare

\* The versions an action of one write takes.
LEMMA TakesOfOne ==
  ASSUME NEW kind, NEW x
  PROVE  Range(Action(kind, <<x>>).takes) = {x}
<1>1. DOMAIN <<x>> = {1}
  OBVIOUS
<1> QED BY <1>1 DEF Range, Action

\* The versions a conflict takes: the copy and the winner.
LEMMA TakesOfTwo ==
  ASSUME NEW kind, NEW x, NEW y
  PROVE  Range(Action(kind, <<x, y>>).takes) = {x, y}
<1>1. DOMAIN <<x, y>> = {1, 2}
  OBVIOUS
<1> QED BY <1>1 DEF Range, Action

\* A peer's newer version is its own merge with what it replaces: adopting it
\* verbatim loses no history.
LEMMA MergedOfBefore ==
  ASSUME NEW u \in Vector, NEW v \in Vector, Compare(u, v) = "Before"
  PROVE  v = Merged(u, v)
<1>1. ~Ahead(u, v)
  BY DEF Compare
<1>2. \A e \in Device : u[e] <= v[e]
  BY <1>1 DEF Ahead, Vector
<1> QED BY <1>2 DEF Merged, Vector

\* Whatever a resolution writes carries both histories, and all it writes
\* under another name is the conflict's copy.
LEMMA ResolveHistory ==
  ASSUME NEW l \in Version, NEW r \in Version, l.path = r.path,
         NEW a \in Resolve(l, r), NEW v \in Range(a.takes)
  PROVE  /\ v.vector = Merged(l.vector, r.vector)
         /\ Original(v.path) => v.path = l.path
<1>1. CASE Compare(l.vector, r.vector) = "Before"
  <2>1. a = Action("Adopt", <<r>>)
    BY <1>1 DEF Resolve
  <2>2. v = r
    BY <2>1, TakesOfOne
  <2> QED BY <1>1, <2>2, MergedOfBefore DEF Version
<1>2. CASE a = MergeAction(l, r)
  <2>1. \E k \in {l, r} : v = [k EXCEPT !.vector = Merged(l.vector, r.vector)]
    <3> DEFINE keeper == IF l.by <= r.by THEN l ELSE r
               x == [keeper EXCEPT !.vector = Merged(l.vector, r.vector)]
    <3>1. Range(a.takes) = {x}
      BY <1>2, TakesOfOne DEF MergeAction
    <3> QED BY <3>1
  <2> QED BY <2>1 DEF Version
<1>3. CASE a = ResurrectAction(l, r)
  <2>1. \E k \in {l, r} : v = [k EXCEPT !.vector = Merged(l.vector, r.vector)]
    <3> DEFINE survivor == IF l.content = Deleted THEN r ELSE l
               x == [survivor EXCEPT !.vector = Merged(l.vector, r.vector)]
    <3>1. Range(a.takes) = {x}
      BY <1>3, TakesOfOne DEF ResurrectAction
    <3> QED BY <3>1
  <2> QED BY <2>1 DEF Version
<1>4. CASE a = ConflictAction(l, r)
  <2>1. \E k \in {l, r} :
          \/ v = [k EXCEPT !.vector = Merged(l.vector, r.vector)]
          \/ v = [k EXCEPT !.path = ConflictPath(k),
                           !.vector = Merged(l.vector, r.vector)]
    <3> DEFINE winner == IF WinsPath(l, r) THEN l ELSE r
               loser == IF WinsPath(l, r) THEN r ELSE l
               both == Merged(l.vector, r.vector)
               x == [loser EXCEPT !.path = ConflictPath(loser), !.vector = both]
               y == [winner EXCEPT !.vector = both]
    <3>1. Range(a.takes) = {x, y}
      <4>1. a = Action("Conflict", <<x, y>>)
        BY <1>4 DEF ConflictAction
      <4> HIDE DEF x, y
      <4>2. Range(Action("Conflict", <<x, y>>).takes) = {x, y}
        BY TakesOfTwo
      <4> QED BY <4>1, <4>2
    <3> QED BY <3>1
  <2>2. ASSUME NEW k \in Version PROVE ~Original(ConflictPath(k))
    <3>1. Append(k.path.tags, <<k.by, k.at>>) # <<>>
      <4> DEFINE S == Device \X Nat
      <4>1. k.path.tags \in Seq(S) /\ <<k.by, k.at>> \in S
        BY DEF Version, Path
      <4> HIDE DEF S
      <4> QED BY <4>1, AppendProperties
    <3> QED BY <3>1 DEF ConflictPath, Original, Version, Path
  <2> QED BY <2>1, <2>2 DEF Version
<1> QED BY <1>1, <1>2, <1>3, <1>4 DEF Resolve, ResolveConcurrent, Compare

\* A version a plan writes is a peer's, or a peer's joined with the row here.
PlannedFrom(v, local, remote) ==
  \E r \in remote :
    \/ \E l \in AtPath(local, r.path) :
         /\ v.vector = Merged(l.vector, r.vector)
         /\ Original(v.path) => v.path = r.path
    \/ AtPath(local, r.path) = {} /\ v = r

\* Every version reconcile::reconcile plans is one of the peer's or carries
\* its history joined with that of the row here.
LEMMA PlanHistory ==
  ASSUME NEW local \in SUBSET Version, NEW remote \in SUBSET Version,
         NEW a \in ReconcileLists(local, remote)
  PROVE  /\ a \in PlanAction
         /\ \A v \in Range(a.takes) : PlannedFrom(v, local, remote)
<1>1. PICK r \in remote : a \in ReconcileFile(local, r)
  BY DEF ReconcileLists
<1>2. CASE AtPath(local, r.path) = {}
  <2>1. a = Action("Adopt", <<r>>)
    BY <1>1, <1>2 DEF ReconcileFile
  <2>2. Range(a.takes) = {r}
    BY <2>1, TakesOfOne
  <2>3. a \in PlanAction
    BY <2>1 DEF Action, PlanAction
  <2> QED BY <1>2, <2>2, <2>3 DEF PlannedFrom
<1>3. CASE AtPath(local, r.path) # {}
  <2>1. PICK l \in AtPath(local, r.path) : a \in Resolve(l, r)
    BY <1>1, <1>3 DEF ReconcileFile
  <2>2. l \in Version /\ l.path = r.path
    BY <2>1 DEF AtPath
  <2>3. a \in PlanAction
    BY <2>1, <2>2, PlanType
  <2>4. ASSUME NEW v \in Range(a.takes)
        PROVE  /\ v.vector = Merged(l.vector, r.vector)
               /\ Original(v.path) => v.path = r.path
    BY <2>1, <2>2, <2>4, ResolveHistory
  <2> QED BY <2>3, <2>4 DEF PlannedFrom
<1> QED BY <1>2, <1>3

-----------------------------------------------------------------------------
\* What a pull still has to write are versions.
LEMMA FlightType ==
  ASSUME NEW q \in Pull
  PROVE  Flight(q) \subseteq Version
<1>1. ASSUME NEW s \in Seq(Version) PROVE Range(s) \subseteq Version
  BY DEF Range
<1>2. \A a \in q.todo : a.takes \in Seq(Version)
  BY DEF Pull, PlanAction
<1>3. q.taking \in Seq(Version)
  BY DEF Pull
<1>4. \A a \in q.todo : Range(a.takes) \subseteq Version
  BY <1>1, <1>2
<1>5. Range(q.taking) \subseteq Version
  BY <1>1, <1>3
<1>6. Planned(q.todo) \subseteq Version
  BY <1>4, Zenon DEF Planned
<1> QED BY <1>5, <1>6 DEF Flight

\* A device that is not pulling has nothing to write.
LEMMA IdleFlight == Idle \in Pull /\ Flight(Idle) = {}
<1>1. Idle \in Pull
  BY DEF Idle, Pull
<1>2. Range(<<>>) = {}
  BY DEF Range
<1>3. Planned({}) = {}
  BY Zenon DEF Planned
<1> QED BY <1>1, <1>2, <1>3 DEF Flight, Idle

\* Applying a plan brings in no version the plan did not have.
LEMMA PlanShrinks ==
  ASSUME TypeOK, IdleWithoutPeer, NEW d \in Device, NEW q \in Pull,
         q.peer = pull[d].peer, Flight(q) \subseteq Flight(pull[d]),
         Proceed(d, q)
  PROVE  /\ pull' \in [Device -> Pull]
         /\ IdleWithoutPeer'
         /\ \A x \in Device : InFlight(x)' \subseteq InFlight(x)
<1> DEFINE r == IF q.todo = {} /\ q.taking = <<>> THEN Idle ELSE q
<1>1. r \in Pull /\ Flight(r) \subseteq Flight(q)
  BY IdleFlight
<1>2. r.peer = NoDevice => Flight(r) = {}
  <2>1. CASE r = Idle
    BY <2>1, IdleFlight
  <2>2. CASE r = q
    BY <2>2 DEF IdleWithoutPeer, InFlight
  <2> QED BY <2>1, <2>2
<1>3. pull' = [pull EXCEPT ![d] = r] /\ pull \in [Device -> Pull]
  BY DEF Proceed, TypeOK
<1> HIDE DEF r
<1>4. pull' \in [Device -> Pull]
  BY <1>1, <1>3
<1>5. \A x \in Device : InFlight(x)' = IF x = d THEN Flight(r) ELSE InFlight(x)
  BY <1>3 DEF InFlight
<1>6. IdleWithoutPeer'
  BY <1>2, <1>3, <1>5 DEF IdleWithoutPeer
<1>7. \A x \in Device : InFlight(x)' \subseteq InFlight(x)
  BY <1>1, <1>5 DEF InFlight
<1> QED BY <1>4, <1>6, <1>7

-----------------------------------------------------------------------------
\* The facts SyncInv says of versions; the rest of it is about types and pulls.
HistoryInv == StampsFresh /\ PlanCurrent /\ OneRowPerPath /\ OneHistoryPerPath

\* A step that writes no row and hands out no counter.
LEMMA NoRowWritten ==
  ASSUME SyncInv, TypeOK', UNCHANGED <<index, counter, raced>>,
         \A x \in Device : InFlight(x)' \subseteq InFlight(x)
  PROVE  HistoryInv' /\ RowsAdvance
<1>1. StampsFresh'
  BY DEF SyncInv, StampsFresh, Versions
<1>2. PlanCurrent'
  BY DEF SyncInv, PlanCurrent, AtPath
<1>3. OneRowPerPath' /\ OneHistoryPerPath'
  BY DEF SyncInv, OneRowPerPath, OneHistoryPerPath
<1>4. RowsAdvance
  <2>1. ASSUME NEW d \in Device, NEW v \in index[d]
        PROVE  Dominates(v.vector, v.vector)
    <3>1. v.vector \in Vector
      BY DEF SyncInv, TypeOK, Version
    <3> QED BY <3>1, DominatesPointwise DEF Vector
  <2> QED BY <2>1 DEF RowsAdvance
<1> QED BY <1>1, <1>2, <1>3, <1>4 DEF HistoryInv

\* A step that writes rows of one device, each with a history of its plan.
LEMMA PlannedRowWritten ==
  ASSUME SyncInv, TypeOK', UNCHANGED <<counter, raced>>, NEW d \in Device,
         \A x \in Device : InFlight(x)' \subseteq InFlight(x),
         NEW v \in InFlight(d),
         \A x \in Device : x # d => index'[x] = index[x],
         \A w \in index'[d] : \/ w \in index[d] /\ w.path # v.path
                              \/ w.path = v.path /\ w.vector = v.vector,
         \A w \in index[d] : \E u \in index'[d] : u.path = w.path,
         \A u, w \in index'[d] : u.path = w.path => u = w
  PROVE  HistoryInv' /\ RowsAdvance
<1>0. v \in Version /\ index \in [Device -> SUBSET Version]
      /\ index' \in [Device -> SUBSET Version]
  BY FlightType DEF SyncInv, TypeOK, InFlight
<1>1. StampsFresh'
  <2>1. ASSUME NEW x \in Device, NEW w \in index'[x] \cup InFlight(x)', NEW e \in Device
        PROVE  w.vector[e] <= counter[e]
    <3>1. CASE w \in Versions(x)
      BY <3>1 DEF SyncInv, StampsFresh
    <3>2. CASE x = d /\ w.vector = v.vector
      BY <3>2 DEF SyncInv, StampsFresh, Versions
    <3> QED BY <3>1, <3>2 DEF Versions
  <2> QED BY <2>1 DEF StampsFresh, Versions
<1>2. PlanCurrent'
  <2>1. ASSUME NEW x \in Device, NEW f \in InFlight(x), Original(f.path),
               f.path \notin raced[x], NEW w \in index'[x], w.path = f.path
        PROVE  Dominates(f.vector, w.vector)
    <3>1. CASE w \in index[x]
      BY <2>1, <3>1 DEF SyncInv, PlanCurrent, AtPath
    <3>2. CASE x = d /\ w.path = v.path /\ w.vector = v.vector
      <4>1. f.vector = v.vector
        <5>1. f \in InFlight(d) /\ Original(f.path) /\ f.path = v.path
          BY <2>1, <3>2
        <5>2. OneHistoryPerPath
          BY DEF SyncInv
        <5> QED BY <5>1, <5>2, ZenonT(30) DEF OneHistoryPerPath
      <4>2. v.vector \in Vector
        BY <1>0 DEF Version
      <4> QED BY <3>2, <4>1, <4>2, DominatesPointwise DEF Vector
    <3> QED BY <3>1, <3>2
  <2> QED BY <2>1 DEF PlanCurrent, AtPath
<1>3. OneRowPerPath'
  BY DEF SyncInv, OneRowPerPath
<1>4. OneHistoryPerPath'
  BY DEF SyncInv, OneHistoryPerPath
<1>5. RowsAdvance
  <2>1. ASSUME NEW x \in Device, NEW w \in index[x], Original(w.path),
               w.path \notin raced[x]
        PROVE  \E u \in index'[x] :
                 u.path = w.path /\ Dominates(u.vector, w.vector)
    <3>0. Dominates(w.vector, w.vector)
      BY <1>0, DominatesPointwise DEF Version, Vector
    <3>1. CASE x # d
      BY <3>0, <3>1
    <3>2. CASE x = d
      <4>1. PICK u \in index'[d] : u.path = w.path
        BY <3>2
      <4>2. CASE u \in index[d]
        <5>1. u = w
          BY <3>2, <4>1, <4>2 DEF SyncInv, OneRowPerPath
        <5> QED BY <3>0, <3>2, <4>1, <5>1
      <4>3. CASE u.path = v.path /\ u.vector = v.vector
        <5>1. Dominates(v.vector, w.vector)
          BY <2>1, <3>2, <4>1, <4>3 DEF SyncInv, PlanCurrent, AtPath
        <5> QED BY <3>2, <4>1, <4>3, <5>1
      <4> QED BY <4>1, <4>2, <4>3
    <3> QED BY <3>1, <3>2
  <2> QED BY <2>1 DEF RowsAdvance
<1> QED BY <1>1, <1>2, <1>3, <1>4, <1>5 DEF HistoryInv

\* A change made here: newer than the row it replaces, and than any list; no plan
\* has its path to take, or it is among those raced.
LEMMA LocalRowWritten ==
  ASSUME SyncInv, TypeOK', NEW d \in Device, pull' = pull,
         NEW p \in Path, NEW content \in Content,
         \A x \in Device : raced[x] \subseteq raced'[x],
         \A f \in InFlight(d) : f.path = p => p \in raced'[d],
         index' = [index EXCEPT ![d] = Put(@, LocalVersion(d, p, content))],
         counter' = [counter EXCEPT ![d] = @ + 1]
  PROVE  HistoryInv' /\ RowsAdvance
<1> DEFINE n == LocalVersion(d, p, content)
<1>0. /\ index \in [Device -> SUBSET Version]
      /\ counter \in [Device -> Nat]
      /\ \A x \in Device : InFlight(x)' = InFlight(x)
  BY DEF SyncInv, TypeOK, InFlight
<1>1. n.path = p /\ n.vector = NextLocalVector(d, p)
  BY DEF LocalVersion
<1>2. ASSUME NEW w \in AtPath(index[d], p)
      PROVE  w = CHOOSE v \in AtPath(index[d], p) : TRUE
  BY DEF SyncInv, OneRowPerPath, AtPath
<1>3. ASSUME NEW w \in AtPath(index[d], p)
      PROVE  NextLocalVector(d, p) =
               [e \in Device |-> IF e = d THEN counter[d] + 1 ELSE w.vector[e]]
  BY <1>2 DEF NextLocalVector
<1>4. ASSUME NEW w \in index[d], NEW e \in Device
      PROVE  w.vector \in Vector /\ w.vector[e] \in Nat /\ w.vector[e] <= counter[e]
  BY <1>0 DEF SyncInv, StampsFresh, Versions, Version, Vector
<1>5. ASSUME NEW e \in Device
      PROVE  n.vector[e] \in Nat /\ n.vector[e] <= counter'[e]
  <2>1. CASE AtPath(index[d], p) = {}
    BY <1>0, <1>1, <2>1 DEF NextLocalVector
  <2>2. CASE AtPath(index[d], p) # {}
    <3>1. PICK w \in AtPath(index[d], p) : TRUE
      BY <2>2
    <3>2. w \in index[d]
      BY <3>1 DEF AtPath
    <3> QED BY <1>0, <1>1, <1>3, <1>4, <3>1, <3>2
  <2> QED BY <2>1, <2>2
<1>6. n.vector \in Vector
  BY <1>1, <1>5 DEF NextLocalVector, Vector
<1>7. ASSUME NEW w \in AtPath(index[d], p)
      PROVE  Dominates(n.vector, w.vector)
  <2>1. w \in index[d]
    BY DEF AtPath
  <2>2. \A e \in Device : w.vector[e] <= n.vector[e]
    BY <1>0, <1>1, <1>3, <1>4, <2>1
  <2> QED BY <1>4, <1>6, <2>1, <2>2, DominatesPointwise
<1> HIDE DEF n
<1>8. /\ index'[d] = {w \in index[d] : w.path # p} \cup {n}
      /\ \A x \in Device : x # d => index'[x] = index[x]
  BY <1>0, <1>1 DEF Put, n
<1>9. StampsFresh'
  <2>1. ASSUME NEW x \in Device, NEW w \in index'[x] \cup InFlight(x),
               NEW e \in Device
        PROVE  w.vector[e] <= counter'[e]
    <3>1. CASE w \in Versions(x)
      <4>1. w \in Version
        BY <1>0, <3>1, FlightType DEF Versions, InFlight, SyncInv, TypeOK
      <4>2. w.vector[e] <= counter[e] /\ w.vector[e] \in Nat
        BY <3>1, <4>1 DEF SyncInv, StampsFresh, Version, Vector
      <4> QED BY <1>0, <4>2
    <3>2. CASE w = n
      BY <1>5, <3>2
    <3> QED BY <1>8, <3>1, <3>2 DEF Versions
  <2> QED BY <1>0, <2>1 DEF StampsFresh, Versions
<1>10. PlanCurrent'
  <2>1. ASSUME NEW x \in Device, NEW f \in InFlight(x), Original(f.path),
               f.path \notin raced'[x], NEW w \in index'[x], w.path = f.path
        PROVE  Dominates(f.vector, w.vector)
    <3>1. x # d \/ w.path # p
      BY <2>1
    <3>2. w \in index[x]
      BY <1>1, <1>8, <2>1, <3>1
    <3> QED BY <2>1, <3>2 DEF SyncInv, PlanCurrent, AtPath
  <2> QED BY <1>0, <2>1 DEF PlanCurrent, AtPath
<1>11. OneRowPerPath'
  BY <1>1, <1>8 DEF SyncInv, OneRowPerPath
<1>12. OneHistoryPerPath'
  BY <1>0 DEF SyncInv, OneHistoryPerPath
<1>13. RowsAdvance
  <2>1. ASSUME NEW x \in Device, NEW w \in index[x], Original(w.path)
        PROVE  \E u \in index'[x] :
                 u.path = w.path /\ Dominates(u.vector, w.vector)
    <3>1. CASE x = d /\ w.path = p
      BY <1>1, <1>7, <1>8, <3>1 DEF AtPath
    <3>2. CASE x # d \/ w.path # p
      <4>1. w \in index'[x]
        BY <1>8, <3>2
      <4>2. Dominates(w.vector, w.vector)
        BY <1>0, DominatesPointwise DEF Version, Vector
      <4> QED BY <4>1, <4>2
    <3> QED BY <3>1, <3>2
  <2> QED BY <2>1 DEF RowsAdvance
<1> QED BY <1>9, <1>10, <1>11, <1>12, <1>13 DEF HistoryInv

\* The same, of any version among those of a plan.
LEMMA PlanMade ==
  ASSUME NEW local \in SUBSET Version, NEW remote \in SUBSET Version,
         NEW v \in Planned(ReconcileLists(local, remote))
  PROVE  PlannedFrom(v, local, remote)
<1>1. PICK a \in ReconcileLists(local, remote) : v \in Range(a.takes)
  BY Zenon DEF Planned
<1> QED BY <1>1, PlanHistory

\* A pull begun: a plan from the rows of both devices as they are.
LEMMA PlanBegun ==
  ASSUME SyncInv, TypeOK', NEW d \in Device, NEW e \in Device,
         UNCHANGED <<index, counter>>, raced' = [raced EXCEPT ![d] = {}],
         \A x \in Device : x # d => InFlight(x)' = InFlight(x),
         InFlight(d)' = Planned(ReconcileLists(index[d], index[e]))
  PROVE  HistoryInv' /\ RowsAdvance
<1> DEFINE made == Planned(ReconcileLists(index[d], index[e]))
<1>0. /\ index \in [Device -> SUBSET Version]
      /\ counter \in [Device -> Nat]
  BY DEF SyncInv, TypeOK
<1>1. ASSUME NEW f \in made
      PROVE  \E r \in index[e] :
               \/ \E l \in AtPath(index[d], r.path) :
                    /\ f.vector = Merged(l.vector, r.vector)
                    /\ Original(f.path) => f.path = r.path
               \/ AtPath(index[d], r.path) = {} /\ f = r
  <2>1. PlannedFrom(f, index[d], index[e])
    BY <1>0, <1>1, PlanMade
  <2> QED BY <2>1, Zenon DEF PlannedFrom
<1>2. InFlight(d)' = made
  OBVIOUS
<1> HIDE DEF made
<1>3. ASSUME NEW x \in Device, NEW w \in index[x], NEW y \in Device
      PROVE  w \in Version /\ w.vector \in Vector /\ w.vector[y] <= counter[y]
  BY <1>0 DEF SyncInv, StampsFresh, Versions, Version
<1>4. ASSUME NEW f \in made, NEW y \in Device
      PROVE  f.vector[y] <= counter[y]
  <2>1. PICK r \in index[e] :
          \/ \E l \in AtPath(index[d], r.path) :
               f.vector = Merged(l.vector, r.vector)
          \/ f = r
    BY <1>1
  <2>2. CASE f = r
    BY <1>3, <2>2
  <2>3. CASE \E l \in AtPath(index[d], r.path) : f.vector = Merged(l.vector, r.vector)
    <3>1. PICK l \in index[d] : f.vector = Merged(l.vector, r.vector)
      BY <2>3 DEF AtPath
    <3>2. f.vector[y] \in {l.vector[y], r.vector[y]}
      BY <3>1 DEF Merged
    <3> QED BY <1>3, <3>2
  <2> QED BY <2>1, <2>2, <2>3
<1>5. StampsFresh'
  <2>1. ASSUME NEW x \in Device, NEW w \in index[x] \cup InFlight(x)', NEW y \in Device
        PROVE  w.vector[y] <= counter[y]
    <3>1. CASE x = d /\ w \in made
      BY <1>4, <3>1
    <3>2. CASE w \in Versions(x)
      BY <3>2 DEF SyncInv, StampsFresh
    <3> QED BY <1>2, <3>1, <3>2 DEF Versions
  <2> QED BY <2>1 DEF StampsFresh, Versions
<1>6. ASSUME NEW f \in made, Original(f.path), NEW w \in AtPath(index[d], f.path)
      PROVE  \E r \in AtPath(index[e], f.path) : f.vector = Merged(w.vector, r.vector)
  <2>1. PICK r \in index[e] :
          \/ \E l \in AtPath(index[d], r.path) :
               f.vector = Merged(l.vector, r.vector) /\ f.path = r.path
          \/ AtPath(index[d], r.path) = {} /\ f = r
    BY <1>1, <1>6
  <2>2. PICK l \in AtPath(index[d], r.path) :
          f.vector = Merged(l.vector, r.vector) /\ f.path = r.path
    BY <1>6, <2>1
  <2>3. l = w
    BY <1>6, <2>2 DEF SyncInv, OneRowPerPath, AtPath
  <2> QED BY <2>1, <2>2, <2>3 DEF AtPath
<1>7. PlanCurrent'
  <2>1. ASSUME NEW x \in Device, NEW f \in InFlight(x)', Original(f.path),
               f.path \notin raced'[x], NEW w \in AtPath(index[x], f.path)
        PROVE  Dominates(f.vector, w.vector)
    <3>1. CASE x = d
      <4>1. PICK r \in AtPath(index[e], f.path) : f.vector = Merged(w.vector, r.vector)
        BY <1>2, <1>6, <2>1, <3>1
      <4>2. w.vector \in Vector /\ r.vector \in Vector
        BY <1>3, <3>1, <4>1 DEF AtPath
      <4> QED BY <4>1, <4>2, MergedDominates
    <3>2. CASE x # d
      <4>1. f.path \notin raced[x]
        BY <2>1, <3>2 DEF SyncInv, TypeOK
      <4> QED BY <2>1, <3>2, <4>1 DEF SyncInv, PlanCurrent
    <3> QED BY <3>1, <3>2
  <2> QED BY <2>1 DEF PlanCurrent, AtPath
<1>8. OneRowPerPath'
  BY DEF SyncInv, OneRowPerPath
<1>9. ASSUME NEW f \in made, NEW g \in made, Original(f.path), f.path = g.path
      PROVE  f.vector = g.vector
  <2>1. CASE AtPath(index[d], f.path) = {}
    <3>1. ASSUME NEW h \in made, h.path = f.path PROVE h \in AtPath(index[e], f.path)
      BY <1>1, <1>9, <2>1, <3>1 DEF AtPath
    <3> QED BY <1>9, <3>1 DEF SyncInv, OneRowPerPath, AtPath
  <2>2. CASE AtPath(index[d], f.path) # {}
    <3>1. PICK w \in AtPath(index[d], f.path) : TRUE
      BY <2>2
    <3>2. PICK r \in AtPath(index[e], f.path) : f.vector = Merged(w.vector, r.vector)
      BY <1>6, <1>9, <3>1
    <3>3. PICK q \in AtPath(index[e], f.path) : g.vector = Merged(w.vector, q.vector)
      BY <1>6, <1>9, <3>1
    <3>4. r = q
      BY <3>2, <3>3 DEF SyncInv, OneRowPerPath, AtPath
    <3> QED BY <3>2, <3>3, <3>4
  <2> QED BY <2>1, <2>2
<1>10. OneHistoryPerPath'
  <2>1. ASSUME NEW x \in Device, NEW f \in InFlight(x)', NEW g \in InFlight(x)',
               Original(f.path), f.path = g.path
        PROVE  f.vector = g.vector
    <3>1. CASE x = d
      BY <1>2, <1>9, <2>1, <3>1
    <3>2. CASE x # d
      BY <2>1, <3>2 DEF SyncInv, OneHistoryPerPath
    <3> QED BY <3>1, <3>2
  <2> QED BY <2>1 DEF OneHistoryPerPath
<1>11. RowsAdvance
  <2>1. ASSUME NEW x \in Device, NEW v \in index[x]
        PROVE  Dominates(v.vector, v.vector)
    BY <1>0, DominatesPointwise DEF Version, Vector
  <2> QED BY <2>1 DEF RowsAdvance
<1> QED BY <1>5, <1>7, <1>8, <1>10, <1>11 DEF HistoryInv

-----------------------------------------------------------------------------
\* With less in flight there is less the invariant speaks of.
LEMMA LessFlight ==
  ASSUME NEW q, NEW r, r.todo \subseteq q.todo, Range(r.taking) \subseteq Flight(q)
  PROVE  Flight(r) \subseteq Flight(q)
<1>1. Planned(r.todo) \subseteq Planned(q.todo)
  BY Zenon DEF Planned
<1> QED BY <1>1 DEF Flight

\* What is left of an action after its first version is part of it.
LEMMA TailRange ==
  ASSUME NEW s \in Seq(Version), s # <<>>
  PROVE  /\ Tail(s) \in Seq(Version) /\ Range(Tail(s)) \subseteq Range(s)
         /\ Head(s) \in Version /\ Head(s) \in Range(s)
<1>1. /\ Tail(s) \in Seq(Version) /\ Head(s) \in Version /\ Head(s) = s[1]
      /\ Len(Tail(s)) = Len(s) - 1
      /\ \A i \in 1 .. Len(Tail(s)) : Tail(s)[i] = s[i + 1]
  BY HeadTailProperties
<1>2. Len(s) \in Nat /\ Len(s) # 0 /\ DOMAIN s = 1 .. Len(s)
      /\ DOMAIN Tail(s) = 1 .. Len(Tail(s))
  BY <1>1, EmptySeq, LenProperties
<1>3. 1 \in DOMAIN s /\ \A i \in DOMAIN Tail(s) : i + 1 \in DOMAIN s
  BY <1>1, <1>2
<1> QED BY <1>1, <1>2, <1>3 DEF Range

\* The ways a pull goes on to its next action: one dropped, or one begun.
LEMMA PullGoesOn ==
  ASSUME NEW q \in Pull, NEW a \in q.todo
  PROVE  /\ [q EXCEPT !.todo = @ \ {a}] \in Pull
         /\ Flight([q EXCEPT !.todo = @ \ {a}]) \subseteq Flight(q)
         /\ [q EXCEPT !.todo = @ \ {a}, !.taking = a.takes] \in Pull
         /\ Flight([q EXCEPT !.todo = @ \ {a}, !.taking = a.takes]) \subseteq Flight(q)
<1> DEFINE r == [q EXCEPT !.todo = @ \ {a}]
           t == [q EXCEPT !.todo = @ \ {a}, !.taking = a.takes]
<1>1. a.takes \in Seq(Version)
  BY DEF Pull, PlanAction
<1>2. r \in Pull /\ t \in Pull
  BY <1>1 DEF Pull
<1>3. /\ r.todo = q.todo \ {a} /\ r.taking = q.taking
      /\ t.todo = q.todo \ {a} /\ t.taking = a.takes
  BY DEF Pull
<1>4. Range(q.taking) \subseteq Flight(q) /\ Range(a.takes) \subseteq Flight(q)
  <2>1. Range(a.takes) \subseteq Planned(q.todo)
    BY Zenon DEF Planned
  <2> QED BY <2>1 DEF Flight
<1> HIDE DEF r, t
<1>5. Flight(r) \subseteq Flight(q) /\ Flight(t) \subseteq Flight(q)
  BY <1>3, <1>4, LessFlight
<1> QED BY <1>2, <1>5 DEF r, t

\* A pull that changes only what it is taking and its marks.
LEMMA TakingGoesOn ==
  ASSUME NEW q \in Pull, NEW r \in Pull, r.todo = q.todo,
         Range(r.taking) \subseteq Range(q.taking)
  PROVE  Flight(r) \subseteq Flight(q)
<1>1. Range(r.taking) \subseteq Flight(q)
  BY DEF Flight
<1> QED BY <1>1, LessFlight

\* A change noticed here makes a version.
LEMMA LocalVersionType ==
  ASSUME TypeOK, NEW d \in Device, NEW p \in Path, NEW content \in Content
  PROVE  LocalVersion(d, p, content) \in Version
<1>1. counter[d] \in Nat /\ index[d] \subseteq Version
  BY DEF TypeOK
<1>2. (counter[d] + 1) \div PerSecond \in Nat
  BY <1>1, SyncAssumption
<1>3. NextLocalVector(d, p) \in Vector
  <2>1. ASSUME NEW e \in Device, AtPath(index[d], p) # {}
        PROVE  (CHOOSE v \in AtPath(index[d], p) : TRUE).vector[e] \in Nat
    BY <1>1, <2>1 DEF AtPath, Version, Vector
  <2> QED BY <1>1, <2>1 DEF NextLocalVector, Vector
<1> QED BY <1>2, <1>3 DEF LocalVersion, Version

-----------------------------------------------------------------------------
\* The invariant holds of empty devices.
LEMMA InitInv == Init => SyncInv
<1> SUFFICES ASSUME Init PROVE SyncInv
  OBVIOUS
<1>1. \A d \in Device : pull[d] = Idle /\ InFlight(d) = {} /\ index[d] = {}
  BY IdleFlight DEF Init, InFlight
<1>2. TypeOK
  BY IdleFlight DEF Init, TypeOK, Fates
<1> QED BY <1>1, <1>2 DEF SyncInv, StampsFresh, Versions, PlanCurrent,
                          OneRowPerPath, OneHistoryPerPath, IdleWithoutPeer

\* The users' steps touch no row and no plan.
LEMMA UserStep ==
  ASSUME SyncInv, NEW d \in Device, User(d)
  PROVE  SyncInv' /\ RowsAdvance
<1>1. UNCHANGED <<index, elsewhere, trash, counter, pull, mode, serving, raced>>
  BY DEF User, Write, Remove
<1>2. TypeOK'
  <2>1. ASSUME NEW p \in Originals \cup {f.path : f \in disk[d]}, NEW h \in Hash,
               Write(d, p, h)
        PROVE  disk' \in [Device -> SUBSET File] /\ fate' \in [Hash -> Fates]
               /\ spent' \in [writes : Nat, served : Nat, fails : Nat, crashes : Nat]
    <3>1. p \in Path
      <4>1. <<>> \in Seq(Device \X Nat)
        OBVIOUS
      <4>2. Originals \subseteq Path
        BY <4>1 DEF Originals, Path
      <4>3. \A f \in disk[d] : f.path \in Path
        BY DEF SyncInv, TypeOK, File
      <4> QED BY <4>2, <4>3
    <3>2. [path |-> p, content |-> h] \in File
      BY <3>1 DEF File
    <3>3. disk' \in [Device -> SUBSET File]
      BY <2>1, <3>2 DEF Write, Put, SyncInv, TypeOK
    <3>4. fate' \in [Hash -> Fates]
      BY <2>1 DEF Write, Typed, SyncInv, TypeOK, Fates
    <3>5. spent' \in [writes : Nat, served : Nat, fails : Nat, crashes : Nat]
      BY <2>1 DEF Write, SyncInv, TypeOK
    <3> QED BY <3>3, <3>4, <3>5
  <2>2. ASSUME NEW f \in disk[d], Remove(d, f.path)
        PROVE  disk' \in [Device -> SUBSET File] /\ fate' \in [Hash -> Fates]
               /\ spent' \in [writes : Nat, served : Nat, fails : Nat, crashes : Nat]
    <3>1. disk' \in [Device -> SUBSET File]
      BY <2>2 DEF Remove, Without, SyncInv, TypeOK
    <3>2. fate' \in [Hash -> Fates]
      BY <2>2 DEF Remove, SyncInv, TypeOK, Fates
    <3>3. spent' \in [writes : Nat, served : Nat, fails : Nat, crashes : Nat]
      BY <2>2 DEF Remove, SyncInv, TypeOK
    <3> QED BY <3>1, <3>2, <3>3
  <2>3. disk' \in [Device -> SUBSET File] /\ fate' \in [Hash -> Fates]
        /\ spent' \in [writes : Nat, served : Nat, fails : Nat, crashes : Nat]
    BY <2>1, <2>2 DEF User
  <2> QED BY <1>1, <2>3 DEF SyncInv, TypeOK
<1>3. \A x \in Device : InFlight(x)' = InFlight(x)
  BY <1>1 DEF InFlight
<1>4. HistoryInv' /\ RowsAdvance
  BY <1>1, <1>2, <1>3, NoRowWritten
<1>5. IdleWithoutPeer'
  BY <1>1, <1>3 DEF SyncInv, IdleWithoutPeer
<1> QED BY <1>2, <1>4, <1>5 DEF SyncInv, HistoryInv

\* Noticing a change keeps the invariant: it happens between plans, and its
\* vector is new.
LEMMA NoticeStep ==
  ASSUME SyncInv, NEW d \in Device, Notice(d)
  PROVE  SyncInv' /\ RowsAdvance
<1> USE DEF SyncInv
<1>0. pull' = pull /\ \A x \in Device : InFlight(x)' = InFlight(x)
  BY DEF Notice, Store, StoreUnchanged, DeleteFile, InFlight
<1>a. ASSUME Between(d) PROVE InFlight(d) = {}
  BY <1>a DEF Between, IdleWithoutPeer
<1>1. IdleWithoutPeer'
  BY <1>0 DEF IdleWithoutPeer
<1>2. ASSUME NEW f \in disk[d], Store(d, f) PROVE SyncInv' /\ RowsAdvance
  <2>1. f.path \in Path /\ f.content \in Content /\ f.content \in Hash
    BY DEF TypeOK, File, Content
  <2>2. LocalVersion(d, f.path, f.content) \in Version
    BY <2>1, LocalVersionType
  <2>3. index' \in [Device -> SUBSET Version]
    BY <1>2, <2>2 DEF Store, Put, TypeOK
  <2>4. fate' \in [Hash -> Fates]
    BY <1>2, <2>1 DEF Store, Indexed, TypeOK, Fates
  <2>5. TypeOK'
    <3>1. /\ elsewhere' \in [Device -> SUBSET Path]
          /\ counter' \in [Device -> Nat]
      <4>1. /\ elsewhere' = [elsewhere EXCEPT ![d] = @ \ {f.path}]
            /\ counter' = [counter EXCEPT ![d] = @ + 1]
        BY <1>2 DEF Store
      <4>2. /\ elsewhere \in [Device -> SUBSET Path]
            /\ counter \in [Device -> Nat]
        BY DEF TypeOK
      <4> QED BY <4>1, <4>2
    <3> QED BY <1>2, <2>3, <2>4, <3>1 DEF Store, TypeOK
  <2>6. HistoryInv' /\ RowsAdvance
    BY <1>2, <1>a, <2>1, <2>5, LocalRowWritten DEF Store
  <2> QED BY <1>1, <2>5, <2>6 DEF HistoryInv
<1>3. ASSUME NEW f \in disk[d], StoreUnchanged(d, f) PROVE SyncInv' /\ RowsAdvance
  <2>1. TypeOK'
    BY <1>3 DEF StoreUnchanged, TypeOK
  <2>2. HistoryInv' /\ RowsAdvance
    BY <1>0, <1>3, <2>1, NoRowWritten DEF StoreUnchanged
  <2> QED BY <1>1, <2>1, <2>2 DEF HistoryInv
<1>4. ASSUME NEW v \in index[d], DeleteFile(d, v.path) PROVE SyncInv' /\ RowsAdvance
  <2>1. v.path \in Path /\ Deleted \in Content
    BY DEF TypeOK, Version, Content
  <2>2. LocalVersion(d, v.path, Deleted) \in Version
    BY <2>1, LocalVersionType
  <2>3. TypeOK'
    BY <1>4, <2>2 DEF DeleteFile, Put, TypeOK
  <2>4. HistoryInv' /\ RowsAdvance
    BY <1>4, <1>a, <2>1, <2>3, LocalRowWritten DEF DeleteFile
  <2> QED BY <1>1, <2>3, <2>4 DEF HistoryInv
<1> QED BY <1>2, <1>3, <1>4 DEF Notice

\* What phones and guests ask for is first made on disk: no row, no plan.
LEMMA AskStep ==
  ASSUME SyncInv, NEW d \in Device, Ask(d)
  PROVE  SyncInv' /\ RowsAdvance
<1> USE DEF SyncInv
<1>1. UNCHANGED <<index, elsewhere, counter, pull, mode, raced>>
  BY DEF Ask, PlaceUpload, TrashServed
<1>2. ASSUME NEW p \in Originals, NEW h \in Hash, PlaceUpload(d, p, h)
      PROVE  TypeOK'
  <2>1. p \in Path
    <3>1. <<>> \in Seq(Device \X Nat)
      OBVIOUS
    <3> QED BY <3>1 DEF Originals, Path
  <2>2. [path |-> p, content |-> h] \in File /\ [op |-> "place", path |-> p] \in Request
    BY <2>1 DEF File, Request
  <2>3. disk' \in [Device -> SUBSET File]
    BY <1>2, <2>2 DEF PlaceUpload, Put, TypeOK
  <2>4. serving' \in [Device -> SUBSET Request]
    BY <1>2, <2>2 DEF PlaceUpload, TypeOK
  <2>5. fate' \in [Hash -> Fates]
    BY <1>2 DEF PlaceUpload, Typed, TypeOK, Fates
  <2>6. trash' = trash /\ spent' \in [writes : Nat, served : Nat, fails : Nat, crashes : Nat]
    BY <1>2 DEF PlaceUpload, TypeOK
  <2> QED BY <1>1, <2>3, <2>4, <2>5, <2>6 DEF TypeOK
<1>3. ASSUME NEW v \in index[d], TrashServed(d, v.path)
      PROVE  TypeOK'
  <2>1. [op |-> "delete", path |-> v.path] \in Request
    BY DEF TypeOK, Version, Request
  <2>2. disk' \in [Device -> SUBSET File]
    BY <1>3 DEF TrashServed, Without, TypeOK
  <2>3. serving' \in [Device -> SUBSET Request]
    BY <1>3, <2>1 DEF TrashServed, TypeOK
  <2>4. fate' \in [Hash -> Fates]
    BY <1>3 DEF TrashServed, TypeOK, Fates
  <2>5. trash' \in [Device -> SUBSET Hash]
    <3>1. {f.content : f \in AtPath(disk[d], v.path)} \subseteq Hash
      BY DEF AtPath, File, TypeOK
    <3> QED BY <1>3, <3>1 DEF TrashServed, TypeOK
  <2>6. spent' \in [writes : Nat, served : Nat, fails : Nat, crashes : Nat]
    BY <1>3 DEF TrashServed, TypeOK
  <2> QED BY <1>1, <2>2, <2>3, <2>4, <2>5, <2>6 DEF TypeOK
<1>4. TypeOK'
  BY <1>2, <1>3 DEF Ask
<1>5. \A x \in Device : InFlight(x)' = InFlight(x)
  BY <1>1 DEF InFlight
<1>6. HistoryInv' /\ RowsAdvance
  BY <1>1, <1>4, <1>5, NoRowWritten
<1>7. IdleWithoutPeer'
  BY <1>1, <1>5 DEF IdleWithoutPeer
<1> QED BY <1>4, <1>6, <1>7 DEF HistoryInv

\* A served change stamped keeps the invariant, a plan being applied or not: a
\* path the plan had still to take is raced.
LEMMA StampServed ==
  ASSUME SyncInv, NEW d \in Device, NEW p \in Path, NEW content \in Content,
         Served(d, p, content), serving' = [serving EXCEPT ![d] = {}],
         fate' \in [Hash -> Fates], UNCHANGED <<disk, trash, pull, mode, spent>>
  PROVE  SyncInv' /\ RowsAdvance
<1> USE DEF SyncInv
<1>1. /\ index' = [index EXCEPT ![d] = Put(@, LocalVersion(d, p, content))]
      /\ elsewhere' = [elsewhere EXCEPT ![d] = @ \ {p}]
      /\ counter' = [counter EXCEPT ![d] = @ + 1]
      /\ raced' = [raced EXCEPT ![d] = @ \cup ({p} \cap Awaited(d))]
  BY DEF Served
<1>2. index' \in [Device -> SUBSET Version]
  <2>1. LocalVersion(d, p, content) \in Version
    BY LocalVersionType
  <2> QED BY <1>1, <2>1 DEF Put, TypeOK
<1>3. /\ elsewhere' \in [Device -> SUBSET Path] /\ counter' \in [Device -> Nat]
      /\ serving' \in [Device -> SUBSET Request]
  <2>1. elsewhere \in [Device -> SUBSET Path] /\ counter \in [Device -> Nat]
        /\ serving \in [Device -> SUBSET Request]
    BY DEF TypeOK
  <2> QED BY <1>1, <2>1
<1>4. /\ raced' \in [Device -> SUBSET Path]
      /\ \A x \in Device : raced[x] \subseteq raced'[x]
      /\ \A f \in InFlight(d) : f.path = p => p \in raced'[d]
  <2>1. raced \in [Device -> SUBSET Path]
    BY DEF TypeOK
  <2> QED BY <1>1, <2>1 DEF Awaited
<1>5. TypeOK'
  BY <1>2, <1>3, <1>4 DEF TypeOK
<1>6. HistoryInv' /\ RowsAdvance
  BY <1>1, <1>4, <1>5, LocalRowWritten
<1>7. IdleWithoutPeer'
  BY DEF IdleWithoutPeer, InFlight
<1> QED BY <1>5, <1>6, <1>7 DEF HistoryInv

\* The end of a request keeps the invariant.
LEMMA ServeStep ==
  ASSUME SyncInv, NEW d \in Device, Serve(d)
  PROVE  SyncInv' /\ RowsAdvance
<1> USE DEF SyncInv
<1>1. ASSUME NEW f \in disk[d], StoreServed(d, f) PROVE SyncInv' /\ RowsAdvance
  <2>1. f.path \in Path /\ f.content \in Content /\ f.content \in Hash
    BY DEF TypeOK, File, Content
  <2>2. fate' \in [Hash -> Fates]
    BY <1>1, <2>1 DEF StoreServed, Indexed, TypeOK, Fates
  <2> QED BY <1>1, <2>1, <2>2, StampServed DEF StoreServed
<1>2. ASSUME NEW v \in index[d], DeleteServed(d, v.path) PROVE SyncInv' /\ RowsAdvance
  <2>1. v.path \in Path /\ Deleted \in Content
    BY DEF TypeOK, Version, Content
  <2>2. fate' \in [Hash -> Fates]
    BY <1>2 DEF DeleteServed, TypeOK, Fates
  <2> QED BY <1>2, <2>1, <2>2, StampServed DEF DeleteServed
<1>3. ASSUME NEW q \in serving[d], ServedNothing(d, q) PROVE SyncInv' /\ RowsAdvance
  <2>1. UNCHANGED <<disk, index, trash, counter, pull, mode, raced, fate, spent>>
    BY <1>3 DEF ServedNothing
  <2>2. elsewhere' \in [Device -> SUBSET Path] /\ serving' \in [Device -> SUBSET Request]
    BY <1>3 DEF ServedNothing, TypeOK
  <2>3. TypeOK'
    BY <2>1, <2>2 DEF TypeOK
  <2>4. \A x \in Device : InFlight(x)' = InFlight(x)
    BY <2>1 DEF InFlight
  <2>5. HistoryInv' /\ RowsAdvance
    BY <2>1, <2>3, <2>4, NoRowWritten
  <2>6. IdleWithoutPeer'
    BY <2>1, <2>4 DEF IdleWithoutPeer
  <2> QED BY <2>3, <2>5, <2>6 DEF HistoryInv
<1> QED BY <1>1, <1>2, <1>3 DEF Serve

\* Fetching a peer's list and planning against it keeps the invariant.
LEMMA FetchStep ==
  ASSUME SyncInv, NEW d \in Device, NEW e \in Device, FetchTree(d, e)
  PROVE  SyncInv' /\ RowsAdvance
<1> USE DEF SyncInv
<1> DEFINE plan == ReconcileLists(index[d], index[e])
           q == [Idle EXCEPT !.peer = e, !.todo = plan]
<1>1. /\ pull' = [pull EXCEPT ![d] = q]
      /\ raced' = [raced EXCEPT ![d] = {}]
      /\ UNCHANGED <<disk, index, elsewhere, trash, counter, mode, serving, fate, spent>>
  BY DEF FetchTree
<1>2. plan \subseteq PlanAction
  BY PlanHistory DEF TypeOK
<1>3. q.peer = e /\ q.todo = plan /\ q.taking = <<>>
  BY DEF Idle
<1>4. q \in Pull
  <2>1. plan \in SUBSET PlanAction
    BY <1>2
  <2> HIDE DEF plan
  <2> QED BY <2>1, IdleFlight DEF Pull
<1>5. Flight(q) = Planned(plan)
  <2>1. Range(<<>>) = {}
    BY DEF Range
  <2> QED BY <1>3, <2>1 DEF Flight
<1> HIDE DEF q, plan
<1>6. TypeOK'
  BY <1>1, <1>4 DEF TypeOK
<1>7. \A x \in Device : InFlight(x)' = IF x = d THEN Planned(plan) ELSE InFlight(x)
  BY <1>1, <1>5 DEF InFlight, TypeOK
<1>8. HistoryInv' /\ RowsAdvance
  BY <1>1, <1>6, <1>7, PlanBegun DEF plan
<1>9. IdleWithoutPeer'
  <2>1. \A x \in Device : pull'[x].peer = NoDevice => x # d
    BY <1>1, <1>3, SyncAssumption DEF TypeOK
  <2>2. \A x \in Device : x # d => pull'[x] = pull[x]
    BY <1>1 DEF TypeOK
  <2> QED BY <1>7, <2>1, <2>2 DEF IdleWithoutPeer
<1> QED BY <1>6, <1>8, <1>9 DEF HistoryInv

\* A step of a plan that writes no row.
LEMMA PlanStep ==
  ASSUME SyncInv, NEW d \in Device, NEW q \in Pull, q.peer = pull[d].peer,
         Flight(q) \subseteq Flight(pull[d]), Proceed(d, q),
         UNCHANGED <<index, elsewhere, counter, mode, serving, raced, fate>>,
         disk' \in [Device -> SUBSET File], trash' \in [Device -> SUBSET Hash],
         spent' \in [writes : Nat, served : Nat, fails : Nat, crashes : Nat]
  PROVE  SyncInv' /\ RowsAdvance
<1> USE DEF SyncInv
<1>1. /\ pull' \in [Device -> Pull] /\ IdleWithoutPeer'
      /\ \A x \in Device : InFlight(x)' \subseteq InFlight(x)
  BY PlanShrinks
<1>2. TypeOK'
  BY <1>1 DEF TypeOK
<1>3. HistoryInv' /\ RowsAdvance
  BY <1>1, <1>2, NoRowWritten
<1> QED BY <1>1, <1>2, <1>3 DEF HistoryInv

\* A step of a plan that writes the row of a version it has.
LEMMA PlanWrites ==
  ASSUME SyncInv, NEW d \in Device, NEW q \in Pull, q.peer = pull[d].peer,
         Flight(q) \subseteq Flight(pull[d]), Proceed(d, q),
         NEW v \in InFlight(d), NEW w \in Version,
         w.path = v.path, w.vector = v.vector,
         index' = [index EXCEPT ![d] = Put(@, w)],
         elsewhere' \in [Device -> SUBSET Path],
         UNCHANGED <<disk, trash, counter, mode, serving, raced, fate, spent>>
  PROVE  SyncInv' /\ RowsAdvance
<1> USE DEF SyncInv
<1>1. /\ pull' \in [Device -> Pull] /\ IdleWithoutPeer'
      /\ \A x \in Device : InFlight(x)' \subseteq InFlight(x)
  BY PlanShrinks
<1>2. /\ index'[d] = {u \in index[d] : u.path # w.path} \cup {w}
      /\ \A x \in Device : x # d => index'[x] = index[x]
      /\ index' \in [Device -> SUBSET Version]
  BY DEF Put, TypeOK
<1>3. TypeOK'
  BY <1>1, <1>2 DEF TypeOK
<1>4. \A u \in index'[d] : \/ u \in index[d] /\ u.path # v.path
                           \/ u.path = v.path /\ u.vector = v.vector
  BY <1>2
<1>5. \A u \in index[d] : \E y \in index'[d] : y.path = u.path
  BY <1>2
<1>6. \A u, y \in index'[d] : u.path = y.path => u = y
  BY <1>2 DEF OneRowPerPath
<1>7. HistoryInv' /\ RowsAdvance
  BY <1>1, <1>2, <1>3, <1>4, <1>5, <1>6, PlannedRowWritten
<1> QED BY <1>1, <1>3, <1>7 DEF HistoryInv

\* The version being taken is one of the plan.
LEMMA TakenFacts ==
  ASSUME TypeOK, NEW d \in Device, Taking(d)
  PROVE  /\ Taken(d) \in Version /\ Taken(d) \in InFlight(d)
         /\ Tail(pull[d].taking) \in Seq(Version)
         /\ Range(Tail(pull[d].taking)) \subseteq Range(pull[d].taking)
<1>1. pull[d].taking \in Seq(Version) /\ pull[d].taking # <<>>
  BY DEF TypeOK, Pull, Taking
<1> QED BY <1>1, TailRange DEF Taken, InFlight, Flight

\* Each step of applying a plan keeps the invariant.
LEMMA ApplyStep ==
  ASSUME SyncInv, NEW d \in Device, Apply(d)
  PROVE  SyncInv' /\ RowsAdvance
<1> USE DEF SyncInv
<1> DEFINE p == pull[d]
<1>0. /\ p \in Pull /\ p.taking \in Seq(Version) /\ p.todo \subseteq PlanAction
      /\ p.placed \in BOOLEAN /\ p.gone \in BOOLEAN
      /\ <<>> \in Seq(Version) /\ Range(<<>>) \subseteq Range(p.taking)
      /\ disk \in [Device -> SUBSET File] /\ trash \in [Device -> SUBSET Hash]
      /\ elsewhere \in [Device -> SUBSET Path]
      /\ spent \in [writes : Nat, served : Nat, fails : Nat, crashes : Nat]
  BY DEF TypeOK, Pull, Range
<1>1. ASSUME NEW a \in p.todo, Leave(d, a) PROVE SyncInv' /\ RowsAdvance
  <2> DEFINE q == [p EXCEPT !.todo = @ \ {a}]
  <2>1. q \in Pull /\ Flight(q) \subseteq Flight(p) /\ q.peer = p.peer
    BY <1>0, PullGoesOn DEF Pull
  <2>2. Proceed(d, q) /\ UNCHANGED <<disk, index, elsewhere, trash, counter, mode, serving, raced,
                                 fate, spent>>
    BY <1>1 DEF Leave
  <2> HIDE DEF q
  <2> QED BY <1>0, <2>1, <2>2, PlanStep
<1>2. ASSUME NEW a \in p.todo, Begin(d, a) PROVE SyncInv' /\ RowsAdvance
  <2> DEFINE q == [p EXCEPT !.todo = @ \ {a}, !.taking = a.takes]
  <2>1. q \in Pull /\ Flight(q) \subseteq Flight(p) /\ q.peer = p.peer
    BY <1>0, PullGoesOn DEF Pull
  <2>2. Proceed(d, q) /\ UNCHANGED <<disk, index, elsewhere, trash, counter, mode, serving, raced,
                                 fate, spent>>
    BY <1>2 DEF Begin
  <2> HIDE DEF q
  <2> QED BY <1>0, <2>1, <2>2, PlanStep
<1>3. ASSUME MoveToTrash(d) PROVE SyncInv' /\ RowsAdvance
  <2> DEFINE q == [p EXCEPT !.placed = TRUE]
  <2>1. q \in Pull /\ q.peer = p.peer /\ q.todo = p.todo /\ q.taking = p.taking
    BY <1>0 DEF Pull
  <2>2. Flight(q) \subseteq Flight(p)
    <3> HIDE DEF q
    <3> QED BY <1>0, <2>1, TakingGoesOn
  <2>3. Proceed(d, q) /\ UNCHANGED <<index, elsewhere, counter, mode, serving, raced, fate, spent>>
    BY <1>3 DEF MoveToTrash
  <2>4. disk' \in [Device -> SUBSET File]
    BY <1>0, <1>3 DEF MoveToTrash, Without
  <2>5. trash' \in [Device -> SUBSET Hash]
    <3>1. {f.content : f \in AtPath(disk[d], Taken(d).path)} \subseteq Hash
      BY <1>0 DEF AtPath, File
    <3> QED BY <1>0, <1>3, <3>1 DEF MoveToTrash
  <2> HIDE DEF q
  <2> QED BY <1>0, <2>1, <2>2, <2>3, <2>4, <2>5, PlanStep
<1>4. ASSUME Place(d) PROVE SyncInv' /\ RowsAdvance
  <2> DEFINE q == [p EXCEPT !.placed = TRUE]
  <2>1. q \in Pull /\ q.peer = p.peer /\ q.todo = p.todo /\ q.taking = p.taking
    BY <1>0 DEF Pull
  <2>2. Flight(q) \subseteq Flight(p)
    <3> HIDE DEF q
    <3> QED BY <1>0, <2>1, TakingGoesOn
  <2>3. Proceed(d, q) /\ UNCHANGED <<index, elsewhere, trash, counter, mode, serving, raced, fate, spent>>
    BY <1>4 DEF Place
  <2>4. disk' \in [Device -> SUBSET File]
    <3>1. Taken(d) \in Version /\ Taken(d).content # Deleted
      BY <1>4, TakenFacts DEF Place
    <3>2. [path |-> Taken(d).path, content |-> Taken(d).content] \in File
      BY <3>1 DEF Version, Content, File
    <3> QED BY <1>0, <1>4, <3>2 DEF Place, Put
  <2> HIDE DEF q
  <2> QED BY <1>0, <2>1, <2>2, <2>3, <2>4, PlanStep
<1>5. ASSUME \/ Unavailable(d) \/ SourceGone(d)
      PROVE SyncInv' /\ RowsAdvance
  <2> DEFINE q == [p EXCEPT !.taking = <<>>]
  <2>1. q \in Pull /\ q.peer = p.peer /\ q.todo = p.todo /\ q.taking = <<>>
    BY <1>0 DEF Pull
  <2>2. Flight(q) \subseteq Flight(p)
    <3> HIDE DEF q
    <3> QED BY <1>0, <2>1, TakingGoesOn
  <2>3. Proceed(d, q) /\ UNCHANGED <<disk, index, elsewhere, trash, counter, mode, serving, raced,
                                 fate, spent>>
    BY <1>5 DEF Unavailable, SourceGone
  <2> HIDE DEF q
  <2> QED BY <1>0, <2>1, <2>2, <2>3, PlanStep
<1>6. ASSUME RecordMissing(d) PROVE SyncInv' /\ RowsAdvance
  <2> DEFINE q == [p EXCEPT !.taking = <<>>, !.placed = FALSE]
  <2>1. q \in Pull /\ q.peer = p.peer /\ q.todo = p.todo /\ q.taking = <<>>
    BY <1>0 DEF Pull
  <2>2. Flight(q) \subseteq Flight(p)
    <3> HIDE DEF q
    <3> QED BY <1>0, <2>1, TakingGoesOn
  <2>3. Proceed(d, q) /\ UNCHANGED <<disk, index, elsewhere, trash, counter, mode, serving, raced,
                                 fate, spent>>
    BY <1>6 DEF RecordMissing
  <2> HIDE DEF q
  <2> QED BY <1>0, <2>1, <2>2, <2>3, PlanStep
<1>7. ASSUME PeerGone(d) PROVE SyncInv' /\ RowsAdvance
  <2> DEFINE q == [p EXCEPT !.gone = TRUE]
  <2>1. q \in Pull /\ q.peer = p.peer /\ q.todo = p.todo /\ q.taking = p.taking
    BY <1>0 DEF Pull
  <2>2. Flight(q) \subseteq Flight(p)
    <3> HIDE DEF q
    <3> QED BY <1>0, <2>1, TakingGoesOn
  <2>3. Proceed(d, q) /\ UNCHANGED <<disk, index, elsewhere, trash, counter, mode, serving, raced,
                                 fate, spent>>
    BY <1>7 DEF PeerGone
  <2> HIDE DEF q
  <2> QED BY <1>0, <2>1, <2>2, <2>3, PlanStep
<1>8. ASSUME RecordDeleted(d) PROVE SyncInv' /\ RowsAdvance
  <2> DEFINE q == [p EXCEPT !.taking = Tail(@), !.placed = FALSE]
  <2>0. Taken(d) \in Version /\ Taken(d) \in InFlight(d)
        /\ Tail(p.taking) \in Seq(Version) /\ Range(Tail(p.taking)) \subseteq Range(p.taking)
    BY <1>8, TakenFacts DEF RecordDeleted
  <2>1. q \in Pull /\ q.peer = p.peer /\ q.todo = p.todo /\ q.taking = Tail(p.taking)
    BY <1>0, <2>0 DEF Pull
  <2>2. Flight(q) \subseteq Flight(p)
    <3> HIDE DEF q
    <3> QED BY <1>0, <2>0, <2>1, TakingGoesOn
  <2>3. /\ Proceed(d, q) /\ UNCHANGED <<disk, trash, counter, mode, serving, raced, fate, spent>>
        /\ index' = [index EXCEPT ![d] = Put(@, Taken(d))]
        /\ elsewhere' = [elsewhere EXCEPT ![d] = @ \ {Taken(d).path}]
    BY <1>8 DEF RecordDeleted
  <2>4. elsewhere' \in [Device -> SUBSET Path]
    BY <1>0, <2>3
  <2> HIDE DEF q
  <2> QED BY <2>0, <2>1, <2>2, <2>3, <2>4, PlanWrites
<1>9. ASSUME NEW f \in disk[d], RecordFile(d, f) PROVE SyncInv' /\ RowsAdvance
  <2> DEFINE q == [p EXCEPT !.taking = Tail(@), !.placed = FALSE]
             w == [Taken(d) EXCEPT !.content = f.content]
  <2>0. Taken(d) \in Version /\ Taken(d) \in InFlight(d)
        /\ Tail(p.taking) \in Seq(Version) /\ Range(Tail(p.taking)) \subseteq Range(p.taking)
    BY <1>9, TakenFacts DEF RecordFile
  <2>1. q \in Pull /\ q.peer = p.peer /\ q.todo = p.todo /\ q.taking = Tail(p.taking)
    BY <1>0, <2>0 DEF Pull
  <2>2. Flight(q) \subseteq Flight(p)
    <3> HIDE DEF q
    <3> QED BY <1>0, <2>0, <2>1, TakingGoesOn
  <2>3. /\ Proceed(d, q) /\ UNCHANGED <<disk, trash, counter, mode, serving, raced, fate, spent>>
        /\ index' = [index EXCEPT ![d] = Put(@, w)]
        /\ elsewhere' = [elsewhere EXCEPT ![d] = @ \ {Taken(d).path}]
    BY <1>9 DEF RecordFile
  <2>4. elsewhere' \in [Device -> SUBSET Path]
    BY <1>0, <2>3
  <2>5. w \in Version /\ w.path = Taken(d).path /\ w.vector = Taken(d).vector
    <3>1. f.content \in Content
      BY <1>0 DEF File, Content
    <3> QED BY <2>0, <3>1 DEF Version
  <2> HIDE DEF q, w
  <2> QED BY <2>0, <2>1, <2>2, <2>3, <2>4, <2>5, PlanWrites
<1>10. ASSUME KnowElsewhere(d) PROVE SyncInv' /\ RowsAdvance
  <2> DEFINE q == [p EXCEPT !.taking = Tail(@)]
  <2>0. Taken(d) \in Version /\ Taken(d) \in InFlight(d)
        /\ Tail(p.taking) \in Seq(Version) /\ Range(Tail(p.taking)) \subseteq Range(p.taking)
    BY <1>10, TakenFacts DEF KnowElsewhere
  <2>1. q \in Pull /\ q.peer = p.peer /\ q.todo = p.todo /\ q.taking = Tail(p.taking)
    BY <1>0, <2>0 DEF Pull
  <2>2. Flight(q) \subseteq Flight(p)
    <3> HIDE DEF q
    <3> QED BY <1>0, <2>0, <2>1, TakingGoesOn
  <2>3. /\ Proceed(d, q) /\ UNCHANGED <<disk, trash, counter, mode, serving, raced, fate, spent>>
        /\ index' = [index EXCEPT ![d] = Put(@, Taken(d))]
        /\ elsewhere' = [elsewhere EXCEPT ![d] = @ \cup {Taken(d).path}]
    BY <1>10 DEF KnowElsewhere
  <2>4. elsewhere' \in [Device -> SUBSET Path]
    BY <1>0, <2>0, <2>3 DEF Version
  <2> HIDE DEF q
  <2> QED BY <2>0, <2>1, <2>2, <2>3, <2>4, PlanWrites
<1>11. ASSUME NEW a \in p.todo, Merge(d, a) PROVE SyncInv' /\ RowsAdvance
  <2> DEFINE q == [p EXCEPT !.todo = @ \ {a}]
             m == a.takes[1]
             row(v) == IF v.path = m.path
                         THEN [v EXCEPT !.vector = m.vector, !.by = m.by, !.at = m.at]
                         ELSE v
  <2>1. q \in Pull /\ Flight(q) \subseteq Flight(p) /\ q.peer = p.peer
    BY <1>0, PullGoesOn DEF Pull
  <2>2. /\ Proceed(d, q)
        /\ UNCHANGED <<disk, elsewhere, trash, counter, mode, serving, raced, fate, spent>>
        /\ index' = [index EXCEPT ![d] = {row(v) : v \in @}]
    BY <1>11 DEF Merge
  <2>3. m \in Version /\ m \in InFlight(d)
    <3>1. a.takes \in Seq(Version) /\ a.takes # <<>>
      BY <1>0 DEF PlanAction
    <3>2. m \in Version /\ m \in Range(a.takes)
      BY <3>1, TailRange, HeadTailProperties
    <3>3. m \in Planned(p.todo)
      <4> HIDE DEF m
      <4> QED BY <3>2, Zenon DEF Planned
    <3> QED BY <3>2, <3>3 DEF InFlight, Flight
  <2> HIDE DEF q, m
  <2>4. ASSUME NEW v \in index[d]
        PROVE  /\ row(v) \in Version /\ row(v).path = v.path
               /\ v.path = m.path => row(v).vector = m.vector
               /\ v.path # m.path => row(v) = v
    <3>1. v \in Version
      BY DEF TypeOK
    <3> QED BY <2>3, <3>1 DEF Version
  <2>5. /\ pull' \in [Device -> Pull] /\ IdleWithoutPeer'
        /\ \A x \in Device : InFlight(x)' \subseteq InFlight(x)
    BY <2>1, <2>2, PlanShrinks
  <2>6. /\ index'[d] = {row(v) : v \in index[d]}
        /\ \A x \in Device : x # d => index'[x] = index[x]
    BY <2>2 DEF TypeOK
  <2>7. index' \in [Device -> SUBSET Version]
    <3> HIDE DEF row
    <3>1. {row(v) : v \in index[d]} \subseteq Version
      BY <2>4
    <3> QED BY <2>2, <3>1 DEF TypeOK
  <2>8. TypeOK'
    BY <2>2, <2>5, <2>7 DEF TypeOK
  <2> HIDE DEF row
  <2>9. \A w \in index'[d] : \/ w \in index[d] /\ w.path # m.path
                             \/ w.path = m.path /\ w.vector = m.vector
    BY <2>4, <2>6
  <2>10. \A w \in index[d] : \E u \in index'[d] : u.path = w.path
    BY <2>4, <2>6
  <2>11. \A u, w \in index'[d] : u.path = w.path => u = w
    <3>1. ASSUME NEW v1 \in index[d], NEW v2 \in index[d], row(v1).path = row(v2).path
          PROVE  v1 = v2
      BY <2>4, <3>1 DEF OneRowPerPath
    <3> QED BY <2>6, <3>1
  <2>12. HistoryInv' /\ RowsAdvance
    BY <2>2, <2>3, <2>5, <2>6, <2>8, <2>9, <2>10, <2>11, PlannedRowWritten
  <2> QED BY <2>5, <2>8, <2>12 DEF HistoryInv
<1> QED BY <1>1, <1>2, <1>3, <1>4, <1>5, <1>6, <1>7, <1>8, <1>9, <1>10, <1>11 DEF Apply

\* Errors, crashes and starts leave the rows as they are.
LEMMA FaultStep ==
  ASSUME SyncInv, NEW d \in Device,
         Discard(d) \/ Fail(d) \/ Crash(d) \/ Started(d)
  PROVE  SyncInv' /\ RowsAdvance
<1> USE DEF SyncInv
<1>0. pull[d] \in Pull /\ disk \in [Device -> SUBSET File]
      /\ trash \in [Device -> SUBSET Hash]
      /\ spent \in [writes : Nat, served : Nat, fails : Nat, crashes : Nat]
      /\ <<>> \in Seq(Version) /\ Range(<<>>) \subseteq Range(pull[d].taking)
  BY DEF TypeOK, Range
<1>1. ASSUME Fail(d) PROVE SyncInv' /\ RowsAdvance
  <2>1. PICK g \in {pull[d].gone, TRUE} :
          Proceed(d, [pull[d] EXCEPT !.taking = <<>>, !.placed = FALSE, !.gone = g])
    BY <1>1 DEF Fail
  <2> DEFINE q == [pull[d] EXCEPT !.taking = <<>>, !.placed = FALSE, !.gone = g]
  <2>2. q \in Pull /\ q.peer = pull[d].peer /\ q.todo = pull[d].todo /\ q.taking = <<>>
    BY <1>0 DEF Pull
  <2>3. Proceed(d, q)
    BY <2>1
  <2> HIDE DEF q
  <2>4. Flight(q) \subseteq Flight(pull[d])
    BY <1>0, <2>2, TakingGoesOn
  <2>5. spent' \in [writes : Nat, served : Nat, fails : Nat, crashes : Nat]
        /\ UNCHANGED <<disk, index, elsewhere, trash, counter, mode, serving, raced, fate>>
    BY <1>0, <1>1 DEF Fail
  <2> QED BY <1>0, <2>2, <2>3, <2>4, <2>5, PlanStep
<1>2. ASSUME Crash(d) PROVE SyncInv' /\ RowsAdvance
  <2>1. \A x \in Device : InFlight(x)' = IF x = d THEN {} ELSE InFlight(x)
    BY <1>2, IdleFlight DEF Crash, InFlight, TypeOK
  <2>2. TypeOK'
    <3>1. pull' \in [Device -> Pull] /\ mode' \in [Device -> {"scanning", "running"}]
          /\ serving' \in [Device -> SUBSET Request]
          /\ spent' \in [writes : Nat, served : Nat, fails : Nat, crashes : Nat]
      <4>1. pull' \in [Device -> Pull]
        BY <1>2, IdleFlight DEF Crash, TypeOK
      <4>2. mode' \in [Device -> {"scanning", "running"}]
        BY <1>2 DEF Crash, TypeOK
      <4>3. spent' \in [writes : Nat, served : Nat, fails : Nat, crashes : Nat]
        BY <1>0, <1>2 DEF Crash
      <4>4. serving' \in [Device -> SUBSET Request]
        BY <1>2 DEF Crash, TypeOK
      <4> QED BY <4>1, <4>2, <4>3, <4>4
    <3> QED BY <1>2, <3>1 DEF Crash, TypeOK
  <2>3. IdleWithoutPeer'
    BY <1>2, <2>1 DEF Crash, IdleWithoutPeer, TypeOK
  <2>4. HistoryInv' /\ RowsAdvance
    BY <1>2, <2>1, <2>2, NoRowWritten DEF Crash
  <2> QED BY <2>2, <2>3, <2>4 DEF HistoryInv
<1>3. ASSUME Started(d) PROVE SyncInv' /\ RowsAdvance
  <2>1. \A x \in Device : InFlight(x)' = InFlight(x)
    BY <1>3 DEF Started, InFlight
  <2>2. TypeOK'
    BY <1>3 DEF Started, TypeOK
  <2>3. IdleWithoutPeer'
    BY <1>3, <2>1 DEF Started, IdleWithoutPeer
  <2>4. HistoryInv' /\ RowsAdvance
    BY <1>3, <2>1, <2>2, NoRowWritten DEF Started
  <2> QED BY <2>2, <2>3, <2>4 DEF HistoryInv
<1>4. ASSUME Discard(d) PROVE SyncInv' /\ RowsAdvance
  <2> DEFINE q == [pull[d] EXCEPT !.placed = TRUE]
  <2>1. q \in Pull /\ q.peer = pull[d].peer /\ q.todo = pull[d].todo
        /\ q.taking = pull[d].taking
    BY <1>0 DEF Pull
  <2>2. Proceed(d, q) /\ UNCHANGED <<index, elsewhere, trash, counter, mode, serving, raced, fate>>
    BY <1>4 DEF Discard
  <2> HIDE DEF q
  <2>3. Flight(q) \subseteq Flight(pull[d])
    BY <1>0, <2>1, TakingGoesOn
  <2>4. disk' \in [Device -> SUBSET File]
    BY <1>0, <1>4 DEF Discard, Without
  <2>5. spent' \in [writes : Nat, served : Nat, fails : Nat, crashes : Nat]
    BY <1>0, <1>4 DEF Discard
  <2> QED BY <1>0, <2>1, <2>2, <2>3, <2>4, <2>5, PlanStep
<1> QED BY <1>1, <1>2, <1>3, <1>4

\* Every step keeps the invariant and loses no history.
LEMMA NextInv ==
  ASSUME SyncInv, [Next]_vars
  PROVE  SyncInv' /\ RowsAdvance
<1>1. CASE Next
  BY <1>1, UserStep, AskStep, ServeStep, NoticeStep, ApplyStep, FetchStep, FaultStep DEF Next
<1>2. CASE UNCHANGED vars
  <2>1. \A x \in Device : InFlight(x)' = InFlight(x)
    BY <1>2 DEF vars, InFlight
  <2>2. TypeOK' /\ IdleWithoutPeer'
    BY <1>2, <2>1 DEF SyncInv, TypeOK, IdleWithoutPeer, vars
  <2>3. HistoryInv' /\ RowsAdvance
    BY <1>2, <2>1, <2>2, NoRowWritten DEF vars
  <2> QED BY <2>2, <2>3 DEF SyncInv, HistoryInv
<1> QED BY <1>1, <1>2

-----------------------------------------------------------------------------
\* The inductive invariant holds of every behaviour, whatever users write, phones
\* and guests ask for, fails or crashes.
THEOREM Invariance == Spec => []SyncInv
<1>1. Init => SyncInv
  BY InitInv
<1>2. SyncInv /\ [Next]_vars => SyncInv'
  BY NextInv
<1> QED BY <1>1, <1>2, PTL DEF Spec

\* Every variable keeps its type (the state of the store and of sync_one).
THEOREM TypeCorrect == Spec => []TypeOK
<1>1. SyncInv => TypeOK
  BY DEF SyncInv
<1> QED BY <1>1, Invariance, PTL

\* No version on any device, indexed or in a plan, counts a change its device
\* has not made (Db::next_counter, Db::next_local_vector).
THEOREM StampsAlwaysFresh == Spec => []StampsFresh
<1>1. SyncInv => StampsFresh
  BY DEF SyncInv
<1> QED BY <1>1, Invariance, PTL

\* A plan is never stale: what it will write accounts for the row it replaces,
\* unless a served request stamped that row since (Engine::plan_against,
\* apply_plan_reporting, which looks at no row again).
THEOREM PlanAlwaysCurrent == Spec => []PlanCurrent
<1>1. SyncInv => PlanCurrent
  BY DEF SyncInv
<1> QED BY <1>1, Invariance, PTL

\* No step of any device loses history of a file under its own name, unless a
\* served request stamped it while a plan had still to take it (Db::set_version,
\* Store::adopt, Store::merge_version).
THEOREM HistoryNeverLost == Spec => RowsOnlyAdvance
<1>1. SyncInv /\ [Next]_vars => [RowsAdvance]_vars
  BY NextInv
<1> QED BY <1>1, Invariance, PTL DEF Spec, RowsOnlyAdvance

-----------------------------------------------------------------------------
\* Merging two vectors does not depend on the side.
LEMMA MergedCommutes ==
  ASSUME NEW u \in Vector, NEW v \in Vector
  PROVE  Merged(u, v) = Merged(v, u)
BY DEF Merged, Vector

\* Two devices that meet the same two concurrent versions, each from its own
\* side, resolve them alike: the same files under the same names with the same
\* vectors, unless one device made both with the same content
\* (resolve::resolve_concurrent).
THEOREM BothSidesAgree ==
  ASSUME NEW l \in Version, NEW r \in Version, l.path = r.path,
         l.content # r.content \/ l.by # r.by
  PROVE  ResolveConcurrent(l, r) = ResolveConcurrent(r, l)
<1>1. Merged(l.vector, r.vector) = Merged(r.vector, l.vector)
  BY MergedCommutes DEF Version
<1>2. CASE l.content = r.content
  <2>1. MergeAction(l, r) = MergeAction(r, l)
    <3>1. l.by \in Nat /\ r.by \in Nat /\ l.by # r.by
      BY <1>2, DeviceAssumption DEF Version
    <3> QED BY <1>1, <3>1 DEF MergeAction
  <2> QED BY <1>2, <2>1 DEF ResolveConcurrent
<1>3. CASE l.content # r.content /\ Deleted \in {l.content, r.content}
  <2>1. ResurrectAction(l, r) = ResurrectAction(r, l)
    BY <1>1, <1>3 DEF ResurrectAction
  <2> QED BY <1>3, <2>1 DEF ResolveConcurrent
<1>4. CASE l.content # r.content /\ Deleted \notin {l.content, r.content}
  <2>1. WinsPath(l, r) <=> ~WinsPath(r, l)
    <3>1. l.content \in Nat /\ r.content \in Nat
      BY <1>4, HashAssumption DEF Version, Content
    <3> QED BY <1>4, <3>1 DEF WinsPath
  <2>2. ConflictAction(l, r) = ConflictAction(r, l)
    BY <1>1, <2>1 DEF ConflictAction
  <2> QED BY <1>4, <2>2 DEF ResolveConcurrent
<1> QED BY <1>2, <1>3, <1>4

\* What a resolution writes dominates both versions it resolved, so that it is
\* not itself concurrent with either and the conflict does not recur
\* (resolve::Resolution).
THEOREM ResolutionDominates ==
  ASSUME NEW l \in Version, NEW r \in Version, l.path = r.path,
         NEW a \in Resolve(l, r), NEW v \in Range(a.takes)
  PROVE  Dominates(v.vector, l.vector) /\ Dominates(v.vector, r.vector)
<1>1. v.vector = Merged(l.vector, r.vector)
  BY ResolveHistory
<1> QED BY <1>1, MergedDominates DEF Version
=============================================================================
