---------------------------- MODULE Arrivals_proofs ----------------------------
(***************************************************************************)
(* For every timetable, every way the trains may run and be published, and *)
(* every window and limit: the board of a stop, or its next train alone,   *)
(* keeps its types, a train is not listed twice, nothing is left over of what the feed tells, delays   *)
(* are those of the trains, scheduled trains are shown, and the trains     *)
(* that are tracked are on the board.                                      *)
(***************************************************************************)
EXTENDS Arrivals, FiniteSetTheorems, SequenceTheorems, TLAPS

Maybe == Int \cup {None}

\* Where the stops of a train are in its timetable.
Places(r) == DOMAIN Stops(r)

\* Every stop of a train has a time.
LEMMA StopTimes ==
    ASSUME NEW r \in Run, NEW k \in Places(r)
    PROVE  /\ Places(r) = 1 .. Len(Stops(r)) /\ Len(Stops(r)) \in Nat
           /\ Stops(r)[k].stop \in DOMAIN Platform
           /\ Stops(r)[k].stop # None /\ Platform[Stops(r)[k].stop] # None
           /\ Stops(r)[k].pickup \in BOOLEAN
           /\ Arr(r, k) \in Maybe /\ Dep(r, k) \in Maybe
           /\ Arr(r, k) # None \/ Dep(r, k) # None
           /\ Due(r, k) \in Int /\ Until(r, k) \in Int
<1>1. Stops(r) \in Seq(StopTime) /\ DayStart[Date[r]] \in Int /\ None \notin Int
  BY TrainsAssumption, NoneAssumption
<1>2. Places(r) = 1 .. Len(Stops(r)) /\ Len(Stops(r)) \in Nat
  BY <1>1 DEF Places
<1>3. Stops(r)[k] \in StopTime
  BY <1>1, <1>2
<1>4. /\ Stops(r)[k].stop \in DOMAIN Platform /\ Stops(r)[k].pickup \in BOOLEAN
      /\ Stops(r)[k].arr \in Maybe /\ Stops(r)[k].dep \in Maybe
  BY <1>3 DEF StopTime, Maybe
<1>5. Stops(r)[k].arr # None \/ Stops(r)[k].dep # None
  BY TrainsAssumption DEF Places
<1>6. Stops(r)[k].stop # None /\ Platform[Stops(r)[k].stop] # None
  BY <1>4, TrainsAssumption
<1>7. /\ Arr(r, k) \in Maybe /\ Dep(r, k) \in Maybe
      /\ Arr(r, k) # None \/ Dep(r, k) # None
  BY <1>1, <1>4, <1>5 DEF Arr, Dep, OnDay, Maybe
<1>8. Due(r, k) \in Int /\ Until(r, k) \in Int
  BY <1>7 DEF Due, Until, Or, Maybe
<1> QED BY <1>2, <1>4, <1>6, <1>7, <1>8

\* The first of some indices.
LEMMA LeastIndex ==
    ASSUME NEW S \in SUBSET Nat, S # {}
    PROVE  \E i \in S : \A j \in S : i <= j
<1>1. IsWellFoundedOn(OpToRel(<, Nat), Nat)
  BY NatLessThanWellFounded
<1>2. PICK i \in S : \A j \in S : <<j, i>> \notin OpToRel(<, Nat)
  BY <1>1, WFMin, Zenon
<1>3. \A j \in S : ~(j < i)
  BY <1>2 DEF OpToRel
<1> QED BY <1>3

\* The last of some indices.
LEMMA GreatestIndex ==
    ASSUME NEW n \in Nat, NEW S \in SUBSET (0 .. n), S # {}
    PROVE  \E i \in S : \A j \in S : j <= i
<1> DEFINE T == {n - i : i \in S}
<1>1. T \in SUBSET Nat /\ T # {}
  <2>1. PICK i \in S : TRUE
    OBVIOUS
  <2>2. n - i \in T
    OBVIOUS
  <2>3. \A j \in S : n - j \in Nat
    OBVIOUS
  <2> QED BY <2>2, <2>3
<1>2. PICK t \in T : \A u \in T : t <= u
  BY <1>1, LeastIndex
<1>3. PICK i \in S : t = n - i
  BY <1>2
<1>4. \A j \in S : n - i <= n - j
  BY <1>2, <1>3
<1> QED BY <1>3, <1>4

\* A train comes to a stop, leaves it, and comes to the next.
LEMMA TimesInOrder ==
    ASSUME NEW r \in Run, NEW j \in Places(r), NEW k \in Places(r), j <= k
    PROVE  /\ Due(r, j) <= Until(r, j)
           /\ Until(r, j) <= Until(r, k)
           /\ Due(r, j) <= Due(r, k)
<1>1. /\ Due(r, j) \in Int /\ Until(r, j) \in Int /\ Due(r, k) \in Int /\ Until(r, k) \in Int
      /\ j \in Nat \ {0} /\ k \in Nat
  BY StopTimes
<1>2. Due(r, j) <= Until(r, j) /\ Due(r, k) <= Until(r, k)
  BY TrainsAssumption DEF Places
<1>3. CASE j = k
  BY <1>1, <1>2, <1>3
<1>4. CASE j < k
  <2>1. j \in 1 .. k - 1
    BY <1>1, <1>4
  <2>2. Until(r, j) <= Due(r, k)
    BY <2>1, TrainsAssumption DEF Places
  <2> QED BY <1>1, <1>2, <2>2
<1> QED BY <1>1, <1>3, <1>4


\* Updates that are in the order of their sequences, or have none, are kept as they are.
LEMMA ParseUpdates ==
    ASSUME NEW n \in Nat \ {0}, NEW updates,
           DOMAIN updates = 1 .. n,
           \A i \in 1 .. n : updates[i].stop # None,
           \/ \A i \in 1 .. n : updates[i].seq = None
           \/ \A i \in 1 .. n : /\ updates[i].seq \in Int
                                /\ \A j \in 1 .. n : j < i => updates[j].seq < updates[i].seq
    PROVE  parseStopTimeUpdates(updates) = [i \in 1 .. n |-> StopRealtime(updates[i])]
<1> DEFINE named        == {i \in DOMAIN updates : updates[i].seq # None \/ updates[i].stop # None}
           sorted       == \A i \in named : updates[i].seq # None
           Before(i, j) == IF sorted /\ updates[i].seq # updates[j].seq
                           THEN updates[i].seq < updates[j].seq
                           ELSE i < j
           Nth(m)       == CHOOSE i \in named : Cardinality({j \in named : Before(j, i)}) = m - 1
<1>1. named = 1 .. n
  OBVIOUS
<1>2. Cardinality(named) = n
  <2>1. Cardinality(1 .. n) = n
    BY FS_Interval
  <2> QED BY <1>1, <2>1
<1>3. ASSUME NEW i \in 1 .. n, NEW j \in 1 .. n PROVE Before(j, i) <=> j < i
  <2>1. CASE \A m \in 1 .. n : updates[m].seq = None
    <3>1. ~sorted
      BY <1>1, <2>1
    <3> HIDE DEF sorted
    <3> QED BY <3>1
  <2>2. CASE \A l \in 1 .. n : /\ updates[l].seq \in Int
                               /\ \A m \in 1 .. n : m < l => updates[m].seq < updates[l].seq
    <3>1. /\ updates[i].seq \in Int /\ updates[j].seq \in Int
          /\ j < i => updates[j].seq < updates[i].seq
          /\ i < j => updates[i].seq < updates[j].seq
      BY <2>2
    <3>2. sorted
      BY <1>1, <2>2, NoneAssumption
    <3> HIDE DEF sorted
    <3>3. CASE i = j
      BY <3>3
    <3>4. CASE i # j
      BY <3>1, <3>2, <3>4
    <3> QED BY <3>3, <3>4
  <2> QED BY <2>1, <2>2
<1> HIDE DEF Before, named
<1>4. ASSUME NEW i \in 1 .. n PROVE Cardinality({j \in named : Before(j, i)}) = i - 1
  <2>1. {j \in named : Before(j, i)} = 1 .. i - 1
    BY <1>1, <1>3
  <2>2. Cardinality(1 .. i - 1) = i - 1
    BY FS_Interval
  <2> QED BY <2>1, <2>2
<1>5. ASSUME NEW m \in 1 .. n PROVE Nth(m) = m
  <2>1. \A i \in named : Cardinality({j \in named : Before(j, i)}) = m - 1 <=> i = m
    BY <1>1, <1>4
  <2>2. m \in named
    BY <1>1
  <2> QED BY <2>1, <2>2
<1> HIDE DEF Nth
<1>6. parseStopTimeUpdates(updates) = [m \in 1 .. Cardinality(named) |-> StopRealtime(updates[Nth(m)])]
  BY DEF parseStopTimeUpdates, named, Nth, Before
<1> QED BY <1>2, <1>5, <1>6

\* A train has all the stops from the first that it has not left.
LEMMA AheadIsTail ==
    ASSUME NEW p \in [Run -> Plan], NEW r \in Run, NEW time \in Int, Ahead(p, r, time) # {}
    PROVE  \E first \in Places(r) :
              /\ Ahead(p, r, time) = first .. Len(Stops(r))
              /\ first = CHOOSE k \in Ahead(p, r, time) : \A j \in Ahead(p, r, time) : k <= j
              /\ Cardinality(Ahead(p, r, time)) = Len(Stops(r)) - first + 1
<1> DEFINE ahead == Ahead(p, r, time)
           first == CHOOSE k \in ahead : \A j \in ahead : k <= j
<1>1. ahead \subseteq Places(r) /\ p[r].delay \in Int
  BY DEF Ahead, Places, Plan
<1>2. PICK i \in Places(r) : i \in ahead
  BY <1>1
<1>3. Places(r) = 1 .. Len(Stops(r)) /\ Len(Stops(r)) \in Nat
  BY <1>2, StopTimes
<1>4. \E k \in ahead : \A j \in ahead : k <= j
  <2>1. ahead \in SUBSET Nat
    BY <1>1, <1>3
  <2> HIDE DEF ahead
  <2> QED BY <1>2, <2>1, LeastIndex
<1>5. first \in ahead /\ \A j \in ahead : first <= j
  <2> HIDE DEF ahead
  <2> QED BY <1>4
<1>6. ASSUME NEW k \in Places(r), first <= k PROVE k \in ahead
  <2>1. Until(r, first) <= Until(r, k)
    <3>1. first \in Places(r)
      BY <1>1, <1>5
    <3> HIDE DEF first
    <3> QED BY <1>6, <3>1, TimesInOrder
  <2>2. Until(r, first) \in Int /\ Until(r, k) \in Int
    BY <1>1, <1>5, StopTimes
  <2>3. Until(r, first) + p[r].delay >= time
    BY <1>5 DEF Ahead
  <2>4. Until(r, k) + p[r].delay >= time
    BY <1>1, <2>1, <2>2, <2>3
  <2> QED BY <2>4 DEF Ahead, Places
<1>7. ahead = first .. Len(Stops(r))
  <2> HIDE DEF ahead, first
  <2>1. first \in 1 .. Len(Stops(r)) /\ ahead \subseteq 1 .. Len(Stops(r))
    BY <1>1, <1>3, <1>5
  <2>2. \A k \in first .. Len(Stops(r)) : k \in 1 .. Len(Stops(r)) /\ first <= k
    BY <1>3, <2>1
  <2>3. \A k \in first .. Len(Stops(r)) : k \in ahead
    BY <1>3, <1>6, <2>2
  <2>4. \A k \in ahead : k \in first .. Len(Stops(r))
    BY <1>3, <1>5, <2>1
  <2> QED BY <2>3, <2>4
<1>8. Cardinality(ahead) = Len(Stops(r)) - first + 1
  <2>1. first \in Int /\ first <= Len(Stops(r))
    BY <1>1, <1>3, <1>5
  <2> HIDE DEF ahead, first
  <2> QED BY <1>3, <1>7, <2>1, FS_Interval
<1> QED BY <1>1, <1>5, <1>7, <1>8

\* What the feed lists of a train, as the worker keeps it: consecutive stops from the
\* first ahead, all of them unless only the delay at the next one is published.
LEMMA ListedStops ==
    ASSUME NEW p \in [Run -> Plan], NEW r \in Run, NEW time \in Int, Ahead(p, r, time) # {}
    PROVE  \E first \in Places(r), last \in Places(r) :
              /\ first <= last
              /\ Ahead(p, r, time) = first .. Len(Stops(r))
              /\ p[r].style # "delays" => last = Len(Stops(r))
              /\ parseStopTimeUpdates(Updates(p, r, time)) =
                    [i \in 1 .. last - first + 1 |-> StopRealtime(Update(p, r, first + i - 1))]
<1>1. PICK first \in Places(r) :
         /\ Ahead(p, r, time) = first .. Len(Stops(r))
         /\ first = CHOOSE k \in Ahead(p, r, time) : \A j \in Ahead(p, r, time) : k <= j
         /\ Cardinality(Ahead(p, r, time)) = Len(Stops(r)) - first + 1
  BY AheadIsTail
<1>2. Places(r) = 1 .. Len(Stops(r)) /\ Len(Stops(r)) \in Nat
  BY <1>1, StopTimes
<1> DEFINE count == IF p[r].style = "delays" THEN 1 ELSE Len(Stops(r)) - first + 1
           last  == first + count - 1
<1>3. /\ first \in Nat /\ count \in Nat \ {0} /\ last \in Places(r) /\ first <= last
      /\ p[r].style # "delays" => last = Len(Stops(r))
      /\ last - first + 1 = count
  BY <1>1, <1>2
<1>4. Updates(p, r, time) = [i \in 1 .. count |-> Update(p, r, first + i - 1)]
  <2>1. (IF p[r].style = "delays" THEN 1 ELSE Cardinality(Ahead(p, r, time))) = count
    BY <1>1
  <2> DEFINE start == CHOOSE k \in Ahead(p, r, time) : \A j \in Ahead(p, r, time) : k <= j
             number == IF p[r].style = "delays" THEN 1 ELSE Cardinality(Ahead(p, r, time))
  <2>2. Updates(p, r, time) = [i \in 1 .. number |-> Update(p, r, start + i - 1)]
    BY DEF Updates
  <2>3. start = first
    BY <1>1
  <2> HIDE DEF count, start, number
  <2> QED BY <2>1, <2>2, <2>3 DEF number
<1> HIDE DEF count, last
<1> DEFINE updates == [i \in 1 .. count |-> Update(p, r, first + i - 1)]
<1>5. ASSUME NEW i \in 1 .. count
      PROVE  /\ updates[i].stop # None
             /\ updates[i].seq = IF p[r].style = "platforms" THEN None ELSE first + i - 1
  <2>1. first + i - 1 \in Places(r)
    BY <1>2, <1>3
  <2>2. /\ Stops(r)[first + i - 1].stop # None
        /\ Platform[Stops(r)[first + i - 1].stop] # None
    BY <2>1, StopTimes
  <2> QED BY <2>2 DEF Update
<1>6. parseStopTimeUpdates(updates) = [i \in 1 .. count |-> StopRealtime(updates[i])]
  <2>1. DOMAIN updates = 1 .. count /\ \A i \in 1 .. count : updates[i].stop # None
    BY <1>5
  <2>2. \/ \A i \in 1 .. count : updates[i].seq = None
        \/ \A i \in 1 .. count : /\ updates[i].seq \in Int
                                 /\ \A j \in 1 .. count : j < i => updates[j].seq < updates[i].seq
    <3> HIDE DEF updates
    <3>1. CASE p[r].style = "platforms"
      BY <1>5, <3>1
    <3>2. CASE p[r].style # "platforms"
      <4>1. \A i \in 1 .. count : updates[i].seq = first + i - 1
        BY <1>5, <3>2
      <4>2. \A i \in 1 .. count : first + i - 1 \in Int
        BY <1>3
      <4>3. \A i, j \in 1 .. count : j < i => first + j - 1 < first + i - 1
        BY <1>3
      <4> QED BY <4>1, <4>2, <4>3
    <3> QED BY <3>1, <3>2
  <2> HIDE DEF updates
  <2> QED BY <1>3, <2>1, <2>2, ParseUpdates
<1>7. parseStopTimeUpdates(updates) = [i \in 1 .. count |-> StopRealtime(Update(p, r, first + i - 1))]
  BY <1>6
<1> QED BY <1>1, <1>3, <1>4, <1>7

\* How a train can be found in the TripUpdates under its own trip_id.
OwnStyle == Style \ {"added", "renamed", "copy", "silent"}

\* The lookup that the parser of a feed had.
Lookup(snapshot) == IF snapshot.known THEN StaticTrips ELSE None

\* What Redis holds of a train.
Kept(r, snapshot) == TripRealtime(Entity(plan, r, snapshot.at), Lookup(snapshot))

\* The entity of a train, field by field.
LEMMA EntityOf ==
    ASSUME NEW p \in [Run -> Plan], NEW r \in Run, NEW time
    PROVE  LET e == Entity(p, r, time)
               style == p[r].style
           IN  /\ style \in Style
               /\ ~e.isDeleted
               /\ e.trip = IF style \in {"added", "renamed"} THEN NewId[r] ELSE Trip[r]
               /\ e.trip \in Int /\ e.trip # None
               /\ e.line = IF style = "copy" THEN None ELSE Line[Trip[r]]
               /\ e.date = IF style = "dateless" THEN None ELSE Date[r]
               /\ e.updates = Updates(p, r, time)
               /\ e.start = r
               /\ e.rel = "DUPLICATED" <=> style = "copy"
               /\ e.rel = "ADDED" <=> style = "added"
               /\ Canceled(e) <=> style = "canceled"
<1>1. p[r].style \in Style /\ NewId[r] \in Int /\ Trip[r] \in Int /\ None \notin Int
  BY TrainsAssumption, NoneAssumption DEF Plan
<1> QED BY <1>1 DEF Entity, Canceled, Style

\* A stop of a train as the worker keeps it.
LEMMA ListedStop ==
    ASSUME NEW p \in [Run -> Plan], NEW r \in Run, NEW k \in Places(r)
    PROVE  LET s == StopRealtime(Update(p, r, k))
               style == p[r].style
               stop == Stops(r)[k].stop
           IN  /\ s \in RealtimeStop
               /\ s.seq = IF style = "platforms" THEN None ELSE k
               /\ s.stop = IF style \in {"platforms", "added"} THEN Platform[stop] ELSE stop
               /\ s.stop # None
               /\ s.skipped <=> style = "skipping" /\ stop \in BoardStops
               /\ style = "nodata" => s.arr = None /\ s.dep = None /\ s.delay = None
               /\ style # "nodata" =>
                     /\ s.arr = IF style = "delays" \/ (style = "departures" /\ Dep(r, k) # None)
                                THEN None ELSE Predict(p, r, Arr(r, k))
                     /\ s.dep = IF style = "delays" \/ (style = "arrivals" /\ Arr(r, k) # None)
                                THEN None ELSE Predict(p, r, Dep(r, k))
                     /\ s.delay = IF style = "delays" THEN p[r].delay ELSE None
<1> DEFINE u == Update(p, r, k)
           s == StopRealtime(u)
           style == p[r].style
           stop == Stops(r)[k].stop
<1>1. /\ stop \in DOMAIN Platform /\ stop # None /\ Platform[stop] # None
      /\ Arr(r, k) \in Maybe /\ Dep(r, k) \in Maybe /\ k \in Int
  BY StopTimes
<1>2. p[r].delay \in Int /\ style \in Style
  BY DEF Plan
<1>3. /\ u.seq = IF style = "platforms" THEN None ELSE k
      /\ u.stop = IF style \in {"platforms", "added"} THEN Platform[stop] ELSE stop
      /\ u.rel = Relationship(p, r, k)
      /\ u.arr = IF style = "delays" \/ (style = "departures" /\ Dep(r, k) # None)
                 THEN None ELSE Predict(p, r, Arr(r, k))
      /\ u.dep = IF style = "delays" \/ (style = "arrivals" /\ Arr(r, k) # None)
                 THEN None ELSE Predict(p, r, Dep(r, k))
      /\ u.delay = IF style = "delays" THEN p[r].delay ELSE None
  BY DEF Update
<1>4. Predict(p, r, Arr(r, k)) \in Maybe /\ Predict(p, r, Dep(r, k)) \in Maybe
  BY <1>1, <1>2 DEF Predict, Maybe
<1>5. /\ u.rel = "NO_DATA" <=> style = "nodata"
      /\ u.rel = "SKIPPED" <=> style = "skipping" /\ stop \in BoardStops
  BY <1>3 DEF Relationship
<1> HIDE DEF u
<1>6. /\ s.seq = u.seq /\ s.stop = u.stop /\ s.skipped = (u.rel = "SKIPPED")
      /\ s.arr = IF u.rel = "NO_DATA" THEN None ELSE u.arr
      /\ s.dep = IF u.rel = "NO_DATA" THEN None ELSE u.dep
      /\ s.delay = IF u.rel = "NO_DATA" THEN None ELSE u.delay
  BY DEF StopRealtime
<1>7. s \in RealtimeStop
  <2>1. u.seq \in Maybe /\ u.arr \in Maybe /\ u.dep \in Maybe /\ u.delay \in Maybe
    BY <1>1, <1>2, <1>3, <1>4 DEF Maybe
  <2>2. u.stop \in DOMAIN Platform \cup {Platform[q] : q \in DOMAIN Platform}
    BY <1>1, <1>3
  <2> QED BY <2>1, <2>2 DEF StopRealtime, RealtimeStop, Named, Maybe
<1> HIDE DEF s
<1> QED BY <1>1, <1>3, <1>5, <1>6, <1>7 DEF s, u

\* Which trains the parser adds.
LEMMA AddedRun ==
    ASSUME plan \in [Run -> Plan], NEW r \in Run, NEW snapshot \in Snapshot
    PROVE  LET e == Entity(plan, r, snapshot.at)
           IN  Added(e, Lookup(snapshot)) <=>
                  \/ plan[r].style \in {"copy", "added"}
                  \/ snapshot.known /\ e.trip \notin {Trip[q] : q \in InService}
<1> DEFINE e == Entity(plan, r, snapshot.at)
<1>1. snapshot.known \in BOOLEAN
  BY DEF Snapshot
<1>2. StaticTrips # None /\ DOMAIN StaticTrips = {Trip[q] : q \in InService}
  BY NoneAssumption DEF StaticTrips
<1>3. /\ e.rel = "DUPLICATED" <=> plan[r].style = "copy"
      /\ e.rel = "ADDED" <=> plan[r].style = "added"
  BY EntityOf
<1> HIDE DEF e
<1>4. Added(e, Lookup(snapshot)) <=>
         \/ plan[r].style \in {"copy", "added"}
         \/ snapshot.known /\ e.trip \notin {Trip[q] : q \in InService}
  <2>1. CASE snapshot.known
    BY <1>2, <1>3, <2>1 DEF Added, InStatic, Lookup
  <2>2. CASE ~snapshot.known
    BY <1>2, <1>3, <2>2 DEF Added, InStatic, Lookup
  <2> QED BY <2>1, <2>2
<1> QED BY <1>4 DEF e

\* The field of a train in its hash.
LEMMA FieldOf ==
    ASSUME plan \in [Run -> Plan], NEW r \in Run, NEW time, plan[r].style # "copy"
    PROVE  LET e == Entity(plan, r, time)
           IN  Field(e) = IF plan[r].style = "dateless" THEN <<e.trip>> ELSE <<e.trip, Date[r]>>
<1> DEFINE e == Entity(plan, r, time)
<1>1. e.date = IF plan[r].style = "dateless" THEN None ELSE Date[r]
  BY EntityOf
<1>2. e.rel # "DUPLICATED"
  BY EntityOf
<1>3. Date[r] # None
  BY TrainsAssumption
<1> HIDE DEF e
<1>4. Field(e) = IF plan[r].style = "dateless" THEN <<e.trip>> ELSE <<e.trip, Date[r]>>
  BY <1>1, <1>2, <1>3 DEF Field, tripRealtimeField
<1> QED BY <1>4 DEF e

\* A hash has a trip of its entities at each of their fields.
LEMMA HashOf ==
    ASSUME NEW entities, NEW static
    PROVE  /\ DOMAIN Hash(entities, static) = {Field(e) : e \in entities}
           /\ \A f \in DOMAIN Hash(entities, static) :
                 \E e \in entities : /\ Field(e) = f
                                     /\ Hash(entities, static)[f] = TripRealtime(e, static)
<1>1. DOMAIN Hash(entities, static) = {Field(e) : e \in entities}
  BY DEF Hash
<1>2. ASSUME NEW f \in DOMAIN Hash(entities, static)
      PROVE  \E e \in entities : /\ Field(e) = f
                                 /\ Hash(entities, static)[f] = TripRealtime(e, static)
  <2>1. \E e \in entities : Field(e) = f
    BY <1>1
  <2> DEFINE e == CHOOSE e \in entities : Field(e) = f
  <2>2. e \in entities /\ Field(e) = f
    BY <2>1
  <2>3. Hash(entities, static)[f] = TripRealtime(e, static)
    BY <1>1 DEF Hash
  <2> HIDE DEF e
  <2> QED BY <2>2, <2>3
<1> QED BY <1>1, <1>2

\* A train that the feed of a moment has an entity of.
InFeed(r, snapshot) == plan[r].style # "silent" /\ Ahead(plan, r, snapshot.at) # {}

EntityAt(r, snapshot) == Entity(plan, r, snapshot.at)

\* The trains that each of the hashes is about.
Updated(r, snapshot) ==
    /\ InFeed(r, snapshot)
    /\ plan[r].style = "canceled" \/ ~Added(EntityAt(r, snapshot), Lookup(snapshot))

IsAdded(r, snapshot) ==
    /\ InFeed(r, snapshot)
    /\ plan[r].style # "canceled"
    /\ Added(EntityAt(r, snapshot), Lookup(snapshot))
    /\ LineOf(EntityAt(r, snapshot), Lookup(snapshot)) # None

\* An entity of a train that moves lists a stop.
LEMMA Moving ==
    ASSUME plan \in [Run -> Plan], NEW r \in Run, NEW snapshot \in Snapshot, InFeed(r, snapshot)
    PROVE  parseStopTimeUpdates(EntityAt(r, snapshot).updates) # <<>>
<1>1. snapshot.at \in Int
  BY DEF Snapshot
<1>2. EntityAt(r, snapshot).updates = Updates(plan, r, snapshot.at)
  BY EntityOf DEF EntityAt
<1>3. PICK first \in Places(r), last \in Places(r) :
         /\ first <= last
         /\ parseStopTimeUpdates(Updates(plan, r, snapshot.at)) =
               [i \in 1 .. last - first + 1 |-> StopRealtime(Update(plan, r, first + i - 1))]
  <2>1. Ahead(plan, r, snapshot.at) # {}
    BY DEF InFeed
  <2>2. \E first \in Places(r), last \in Places(r) :
           /\ first <= last
           /\ Ahead(plan, r, snapshot.at) = first .. Len(Stops(r))
           /\ plan[r].style # "delays" => last = Len(Stops(r))
           /\ parseStopTimeUpdates(Updates(plan, r, snapshot.at)) =
                 [i \in 1 .. last - first + 1 |-> StopRealtime(Update(plan, r, first + i - 1))]
    BY <1>1, <2>1, ListedStops
  <2> QED BY <2>2
<1>4. first \in Int /\ last \in Int
  BY <1>3, StopTimes
<1> DEFINE stops == [i \in 1 .. last - first + 1 |-> StopRealtime(Update(plan, r, first + i - 1))]
<1>5. 1 \in DOMAIN stops
  BY <1>3, <1>4
<1> HIDE DEF stops
<1>6. stops # <<>>
  BY <1>5
<1> QED BY <1>2, <1>3, <1>6 DEF stops

\* Each of the hashes has its trains, and those only.
LEMMA HashesOf ==
    ASSUME plan \in [Run -> Plan], NEW snapshot \in Snapshot
    PROVE  LET updates == Hashes(snapshot).tripUpdates
               extra   == Hashes(snapshot).addedTrips
           IN  /\ \A f \in DOMAIN updates :
                     \E q \in Run : /\ Updated(q, snapshot)
                                    /\ f = Field(EntityAt(q, snapshot))
                                    /\ updates[f] = Kept(q, snapshot)
               /\ \A q \in Run : Updated(q, snapshot) => Field(EntityAt(q, snapshot)) \in DOMAIN updates
               /\ \A f \in DOMAIN extra :
                     \E q \in Run : /\ IsAdded(q, snapshot)
                                    /\ f = Field(EntityAt(q, snapshot))
                                    /\ extra[f] = Kept(q, snapshot)
               /\ \A q \in Run : IsAdded(q, snapshot) => Field(EntityAt(q, snapshot)) \in DOMAIN extra
<1> DEFINE feed     == Feed(plan, snapshot.at)
           static   == Lookup(snapshot)
           named    == {e \in feed : ~e.isDeleted /\ e.trip # None}
           canceled == {e \in named : Canceled(e)}
           moving   == {e \in named \ canceled : parseStopTimeUpdates(e.updates) # <<>>}
           new      == {e \in moving : Added(e, static)}
           held     == canceled \cup (moving \ new)
           lined    == {e \in new : LineOf(e, static) # None}
<1>1. snapshot # None
  BY SnapshotAssumption
<1>2. Hashes(snapshot).tripUpdates = Hash(held, static) /\ Hashes(snapshot).addedTrips = Hash(lined, static)
  BY <1>1 DEF Hashes, parseTripUpdates, Lookup
<1>3. \A e \in feed : \E q \in Run : InFeed(q, snapshot) /\ e = EntityAt(q, snapshot)
  BY DEF Feed, InFeed, EntityAt
<1>4. \A q \in Run : InFeed(q, snapshot) => EntityAt(q, snapshot) \in feed
  BY DEF Feed, InFeed, EntityAt
<1>5. ASSUME NEW q \in Run, InFeed(q, snapshot)
      PROVE  LET e == EntityAt(q, snapshot)
             IN  /\ ~e.isDeleted /\ e.trip # None
                 /\ Canceled(e) <=> plan[q].style = "canceled"
                 /\ parseStopTimeUpdates(e.updates) # <<>>
  BY <1>5, EntityOf, Moving DEF EntityAt
<1> HIDE DEF feed, static
<1>6. \A q \in Run : Updated(q, snapshot) => EntityAt(q, snapshot) \in held
  BY <1>4, <1>5 DEF Updated, static
<1>7. \A e \in held : \E q \in Run : Updated(q, snapshot) /\ e = EntityAt(q, snapshot)
  BY <1>3, <1>5 DEF Updated, static
<1>14. \A q \in Run : IsAdded(q, snapshot) => EntityAt(q, snapshot) \in lined
  BY <1>4, <1>5 DEF IsAdded, static
<1>8. \A e \in lined : \E q \in Run : IsAdded(q, snapshot) /\ e = EntityAt(q, snapshot)
  BY <1>3, <1>5 DEF IsAdded, static
<1> HIDE DEF held, lined
<1>9. \A q \in Run : TripRealtime(EntityAt(q, snapshot), static) = Kept(q, snapshot)
  BY DEF Kept, EntityAt, static
<1>13. ASSUME NEW entities
       PROVE  /\ \A e \in entities : Field(e) \in DOMAIN Hash(entities, static)
              /\ \A f \in DOMAIN Hash(entities, static) :
                    \E e \in entities : /\ Field(e) = f
                                        /\ Hash(entities, static)[f] = TripRealtime(e, static)
  <2>1. DOMAIN Hash(entities, static) = {Field(e) : e \in entities}
    BY HashOf
  <2>2. \A f \in DOMAIN Hash(entities, static) :
           \E e \in entities : /\ Field(e) = f
                               /\ Hash(entities, static)[f] = TripRealtime(e, static)
    BY HashOf
  <2> QED BY <2>1, <2>2
<1>10. \A f \in DOMAIN Hash(held, static) :
          \E q \in Run : /\ Updated(q, snapshot)
                         /\ f = Field(EntityAt(q, snapshot))
                         /\ Hash(held, static)[f] = Kept(q, snapshot)
  BY <1>7, <1>9, <1>13
<1>11. \A q \in Run : Updated(q, snapshot) => Field(EntityAt(q, snapshot)) \in DOMAIN Hash(held, static)
  BY <1>6, <1>13
<1>12. \A f \in DOMAIN Hash(lined, static) :
          \E q \in Run : /\ IsAdded(q, snapshot)
                         /\ f = Field(EntityAt(q, snapshot))
                         /\ Hash(lined, static)[f] = Kept(q, snapshot)
  BY <1>8, <1>9, <1>13
<1>15. \A q \in Run : IsAdded(q, snapshot) => Field(EntityAt(q, snapshot)) \in DOMAIN Hash(lined, static)
  BY <1>13, <1>14
<1> QED BY <1>2, <1>10, <1>11, <1>12, <1>15

\* Fields of hashes differ as their parts do.
LEMMA Fields ==
    /\ \A a, b, c : <<a>> # <<b, c>>
    /\ \A a, b : <<a>> = <<b>> => a = b
    /\ \A a, b, c, d : <<a, b>> = <<c, d>> => a = c /\ b = d
<1>1. ASSUME NEW a, NEW b, NEW c PROVE <<a>> # <<b, c>>
  <2>1. Len(<<a>>) = 1 /\ Len(<<b, c>>) = 2
    OBVIOUS
  <2> QED BY <2>1
<1> QED BY <1>1

\* The TripUpdates tell of a train under its own trip_id.
Follows(r, snapshot) ==
    /\ snapshot # None
    /\ InFeed(r, snapshot)
    /\ plan[r].style \in OwnStyle

\* What is found for a row of a train in service is its own entity, or nothing.
LEMMA RealtimeOfRow ==
    ASSUME plan \in Plans, NEW r \in InService, NEW k, NEW snapshot \in Snapshot \cup {None}
    PROVE  RealtimeOf(Row(r, k), Hashes(snapshot).tripUpdates) =
              IF Follows(r, snapshot) THEN Kept(r, snapshot) ELSE None
<1> DEFINE updates == Hashes(snapshot).tripUpdates
           dated   == <<Trip[r], Date[r]>>
           bare    == <<Trip[r]>>
<1>1. /\ plan \in [Run -> Plan] /\ r \in Run /\ Date[r] # None
      /\ \A q \in Run \ InService : plan[q].style \in {"added", "renamed", "copy", "silent"}
      /\ \A q, s \in InService : plan[q].style = "dateless" /\ Trip[s] = Trip[q] => s = q
  BY PlansAssumption, TrainsAssumption
<1>2. RealtimeOf(Row(r, k), updates) =
         LET field == IF dated \in DOMAIN updates THEN dated ELSE bare
         IN  IF field \in DOMAIN updates THEN updates[field] ELSE None
  <2>1. Row(r, k).trip = Trip[r] /\ Row(r, k).date = Date[r]
    BY DEF Row
  <2>2. tripRealtimeField(Row(r, k).trip, Row(r, k).date) = dated
    BY <1>1, <2>1 DEF tripRealtimeField
  <2> HIDE DEF updates, dated
  <2> QED BY <2>1, <2>2 DEF RealtimeOf
<1>3. CASE snapshot = None
  <2>1. DOMAIN updates = {}
    BY <1>3 DEF Hashes
  <2>2. ~Follows(r, snapshot)
    BY <1>3 DEF Follows
  <2> HIDE DEF updates, dated, bare
  <2>3. RealtimeOf(Row(r, k), updates) = None
    BY <1>2, <2>1
  <2> QED BY <2>2, <2>3 DEF updates
<1>4. CASE snapshot # None
  <2> SUFFICES ASSUME snapshot \in Snapshot
               PROVE  RealtimeOf(Row(r, k), updates) =
                         IF Follows(r, snapshot) THEN Kept(r, snapshot) ELSE None
    BY <1>4
  <2>1. ASSUME NEW q \in Run, Updated(q, snapshot)
        PROVE  /\ plan[q].style \notin {"copy", "added", "silent"}
               /\ Field(EntityAt(q, snapshot)) =
                     IF plan[q].style = "dateless" THEN <<EntityAt(q, snapshot).trip>>
                     ELSE <<EntityAt(q, snapshot).trip, Date[q]>>
               /\ EntityAt(q, snapshot).trip =
                     IF plan[q].style = "renamed" THEN NewId[q] ELSE Trip[q]
    <3>1. plan[q].style \notin {"copy", "added", "silent"}
      BY <1>1, <2>1, AddedRun DEF Updated, InFeed, EntityAt
    <3>2. EntityAt(q, snapshot).trip = IF plan[q].style = "renamed" THEN NewId[q] ELSE Trip[q]
      BY <1>1, <3>1, EntityOf DEF EntityAt
    <3> QED BY <1>1, <3>1, <3>2, FieldOf DEF EntityAt
  <2>2. ASSUME NEW f \in DOMAIN updates, f \in {dated, bare}
        PROVE  /\ Follows(r, snapshot)
               /\ f = IF plan[r].style = "dateless" THEN bare ELSE dated
               /\ updates[f] = Kept(r, snapshot)
    <3>1. PICK q \in Run : /\ Updated(q, snapshot)
                           /\ f = Field(EntityAt(q, snapshot))
                           /\ updates[f] = Kept(q, snapshot)
      BY <1>1, HashesOf
    <3> HIDE DEF updates
    <3>2. EntityAt(q, snapshot).trip = Trip[r]
      BY <2>1, <2>2, <3>1, Fields
    <3>3. plan[q].style # "renamed"
      BY <1>1, <2>1, <3>1, <3>2, TrainsAssumption
    <3>4. Trip[q] = Trip[r] /\ plan[q].style \in OwnStyle
      <4>1. plan[q].style \in Style
        BY <1>1 DEF Plan
      <4> QED BY <2>1, <3>1, <3>2, <3>3, <4>1 DEF OwnStyle
    <3>5. q \in InService
      BY <1>1, <3>4 DEF OwnStyle
    <3>6. q = r
      <4>1. CASE plan[q].style = "dateless"
        BY <1>1, <3>4, <3>5, <4>1
      <4>2. CASE plan[q].style # "dateless"
        <5>1. Date[q] = Date[r]
          BY <2>1, <2>2, <3>1, <4>2, Fields
        <5> QED BY <3>4, <3>5, <5>1, TrainsAssumption
      <4> QED BY <4>1, <4>2
    <3>7. f = IF plan[r].style = "dateless" THEN bare ELSE dated
      BY <2>1, <3>1, <3>2, <3>6
    <3> QED BY <1>4, <3>1, <3>4, <3>6, <3>7 DEF Follows, Updated
  <2>3. ASSUME Follows(r, snapshot)
        PROVE  (IF plan[r].style = "dateless" THEN bare ELSE dated) \in DOMAIN updates
    <3>1. plan[r].style \notin {"added", "renamed", "copy", "silent"}
      BY <2>3 DEF Follows, OwnStyle
    <3>2. EntityAt(r, snapshot).trip = Trip[r]
      BY <1>1, <3>1, EntityOf DEF EntityAt
    <3>3. Updated(r, snapshot)
      BY <1>1, <2>3, <3>1, <3>2, AddedRun DEF Follows, Updated, EntityAt
    <3>4. Field(EntityAt(r, snapshot)) \in DOMAIN updates
      BY <1>1, <3>3, HashesOf
    <3> HIDE DEF updates
    <3> QED BY <2>1, <3>1, <3>2, <3>3, <3>4, <1>1
  <2>4. bare # dated
    BY Fields
  <2> HIDE DEF updates, dated, bare
  <2> QED BY <1>2, <2>2, <2>3, <2>4
<1> QED BY <1>3, <1>4

\* The first of the indices that a test leaves, if it is one at most.
LEMMA OnlyMatch ==
    ASSUME NEW stops, NEW m \in Nat \ {0}, NEW I \in SUBSET {m}
    PROVE  LET i == IF I # {} THEN Min(I) ELSE 0
           IN  (IF i = 0 THEN None ELSE stops[i]) = IF m \in I THEN stops[m] ELSE None
<1>1. CASE I = {}
  BY <1>1
<1>2. CASE I # {}
  <2>1. I = {m}
    BY <1>2
  <2>2. Min(I) = m
    BY <2>1 DEF Min
  <2> QED BY <2>1, <2>2
<1> QED BY <1>1, <1>2

\* What the row of a stop finds in the entity of its train: its own update.
LEMMA FoundStop ==
    ASSUME plan \in Plans, NEW r \in InService, NEW k \in AtBoard(r),
           NEW first \in Places(r), NEW last \in Places(r), first <= last
    PROVE  LET stops == [i \in 1 .. last - first + 1 |-> StopRealtime(Update(plan, r, first + i - 1))]
           IN  findStop(stops, Row(r, k)) =
                  IF k \in first .. last THEN StopRealtime(Update(plan, r, k)) ELSE None
<1> DEFINE n == last - first + 1
           stops == [i \in 1 .. n |-> StopRealtime(Update(plan, r, first + i - 1))]
           row == Row(r, k)
           m == k - first + 1
<1>1. plan \in [Run -> Plan] /\ r \in Run /\ k \in Places(r)
  BY PlansAssumption, TrainsAssumption DEF AtBoard, Places
<1>2. Places(r) = 1 .. Len(Stops(r)) /\ Len(Stops(r)) \in Nat
  BY <1>1, StopTimes
<1>3. first \in Nat /\ last \in Nat /\ n \in Nat /\ k \in Nat /\ \A i \in 1 .. n : first + i - 1 \in Places(r)
  BY <1>1, <1>2
<1>4. /\ row.seq = k /\ row.stop = Stops(r)[k].stop /\ row.parent = Parent(Stops(r)[k].stop)
      /\ row.stop \in BoardStops
  BY DEF Row, AtBoard
<1> HIDE DEF row
<1>5. /\ stops \in Seq(RealtimeStop) /\ Len(stops) = n /\ DOMAIN stops = 1 .. n
      /\ \A i \in 1 .. n : stops[i] = StopRealtime(Update(plan, r, first + i - 1))
  <2>1. \A i \in 1 .. n : StopRealtime(Update(plan, r, first + i - 1)) \in RealtimeStop
    BY <1>1, <1>3, ListedStop
  <2> HIDE DEF n
  <2> QED BY <1>3, <2>1
<1>6. ASSUME NEW i \in 1 .. n
      PROVE  /\ stops[i].seq = IF plan[r].style = "platforms" THEN None ELSE first + i - 1
             /\ stops[i].stop = IF plan[r].style \in {"platforms", "added"}
                                THEN Platform[Stops(r)[first + i - 1].stop]
                                ELSE Stops(r)[first + i - 1].stop
             /\ stops[i].stop # None
  BY <1>1, <1>3, <1>5, ListedStop
<1> DEFINE A == {i \in 1 .. Len(stops) : stops[i].seq = row.seq}
           B == {i \in 1 .. Len(stops) : /\ stops[i].seq = None /\ stops[i].stop # None
                                         /\ stops[i].stop = row.stop}
           C == {i \in 1 .. Len(stops) : /\ stops[i].seq = None /\ stops[i].stop # None
                                         /\ row.parent # None /\ Parent(stops[i].stop) = row.parent}
           At(I) == LET i == IF I # {} THEN Min(I) ELSE 0 IN IF i = 0 THEN None ELSE stops[i]
<1> HIDE DEF stops, n
<1>7. findStop(stops, row) = Or(At(A), Or(At(B), At(C)))
  BY DEF findStop, First, SelectInSeq
<1>8. \A i \in 1 .. n : first + i - 1 = k <=> i = m
  BY <1>3
<1>9. m \in 1 .. n <=> k \in first .. last
  BY <1>3 DEF n
<1>10. \A i \in A : i = m
  BY <1>3, <1>4, <1>5, <1>6, <1>8, NoneAssumption
<1>11. ASSUME NEW i \in B \cup C PROVE i = m /\ plan[r].style = "platforms"
  <2>1. i \in 1 .. n /\ stops[i].seq = None
    BY <1>5
  <2>2. plan[r].style = "platforms"
    BY <1>3, <1>6, <2>1, NoneAssumption
  <2>3. stops[i].stop = Platform[Stops(r)[first + i - 1].stop]
    BY <1>6, <2>1, <2>2
  <2>4. \/ stops[i].stop = row.stop
        \/ row.parent # None /\ Parent(stops[i].stop) = row.parent
    OBVIOUS
  <2>5. first + i - 1 = k
    <3>1. /\ first + i - 1 \in DOMAIN Stops(r) /\ k \in DOMAIN Stops(r)
      BY <1>1, <1>3, <2>1 DEF Places
    <3> QED BY <1>4, <2>2, <2>3, <2>4, <3>1, PlansAssumption
  <2> QED BY <1>8, <2>1, <2>2, <2>5
<1> HIDE DEF A, B, C
<1>12. /\ At(A) = IF m \in A THEN stops[m] ELSE None
       /\ At(B) = IF m \in B THEN stops[m] ELSE None
       /\ At(C) = IF m \in C THEN stops[m] ELSE None
  <2>1. ASSUME NEW I, \A i \in I : i = m /\ i \in 1 .. n
        PROVE  At(I) = IF m \in I THEN stops[m] ELSE None
    <3>1. CASE I = {}
      BY <3>1
    <3>2. CASE I # {}
      <4>1. I = {m} /\ m \in Nat \ {0}
        BY <1>3, <2>1, <3>2
      <4> HIDE DEF m
      <4> QED BY <4>1, OnlyMatch
    <3> QED BY <3>1, <3>2
  <2>2. A \subseteq 1 .. n /\ B \subseteq 1 .. n /\ C \subseteq 1 .. n
    BY <1>5 DEF A, B, C
  <2> HIDE DEF At, m
  <2> QED BY <1>10, <1>11, <2>1, <2>2
<1>13. m \in A \cup B \cup C <=> k \in first .. last
  <2>1. ASSUME m \in A \cup B \cup C PROVE m \in 1 .. n
    BY <1>5, <2>1 DEF A, B, C
  <2>2. ASSUME m \in 1 .. n PROVE m \in A \cup B \cup C
    <3>1. first + m - 1 = k
      BY <1>3
    <3> HIDE DEF m
    <3>2. CASE plan[r].style # "platforms"
      BY <1>4, <1>5, <1>6, <2>2, <3>1, <3>2 DEF A
    <3>3. CASE plan[r].style = "platforms"
      <4>1. stops[m].seq = None /\ stops[m].stop = Platform[row.stop] /\ stops[m].stop # None
        BY <1>4, <1>6, <2>2, <3>1, <3>3
      <4>2. row.stop \in DOMAIN Platform
        BY <1>1, <1>4, StopTimes
      <4>3. Platform[row.stop] = row.stop
               \/ (row.parent # None /\ Parent(Platform[row.stop]) = row.parent)
        BY <1>4, <4>2, TrainsAssumption
      <4> QED BY <1>5, <2>2, <4>1, <4>3 DEF B, C
    <3> QED BY <3>2, <3>3
  <2> QED BY <1>9, <2>1, <2>2
<1>14. m \in 1 .. n => stops[m] = StopRealtime(Update(plan, r, k)) /\ stops[m] # None
  <2>1. ASSUME m \in 1 .. n PROVE stops[m] = StopRealtime(Update(plan, r, k)) /\ stops[m] # None
    <3>1. first + m - 1 = k
      BY <1>3
    <3> HIDE DEF m
    <3> QED BY <1>5, <2>1, <3>1, NoneAssumption
  <2> QED BY <2>1
<1>15. findStop(stops, row) = IF k \in first .. last THEN StopRealtime(Update(plan, r, k)) ELSE None
  <2> HIDE DEF At, m
  <2> QED BY <1>7, <1>9, <1>12, <1>13, <1>14 DEF Or
<1> QED BY <1>15 DEF stops, row, n

\* What Redis holds of a train, field by field.
LEMMA KeptTrip ==
    ASSUME plan \in [Run -> Plan], NEW r \in Run, NEW snapshot \in Snapshot, InFeed(r, snapshot)
    PROVE  LET trip == Kept(r, snapshot)
               style == plan[r].style
           IN  /\ trip.trip \in Int
               /\ trip.trip = IF style \in {"added", "renamed"} THEN NewId[r] ELSE Trip[r]
               /\ trip.line = LineOf(EntityAt(r, snapshot), Lookup(snapshot))
               /\ trip.date = IF style = "dateless" THEN None ELSE Date[r]
               /\ trip.canceled <=> style = "canceled"
               /\ trip.stops \in Seq(RealtimeStop)
               /\ \E first \in Places(r), last \in Places(r) :
                     /\ first <= last
                     /\ Ahead(plan, r, snapshot.at) = first .. Len(Stops(r))
                     /\ style # "delays" => last = Len(Stops(r))
                     /\ style # "canceled" =>
                           trip.stops = [i \in 1 .. last - first + 1 |->
                                            StopRealtime(Update(plan, r, first + i - 1))]
<1> DEFINE e == Entity(plan, r, snapshot.at)
           trip == Kept(r, snapshot)
           style == plan[r].style
<1>1. snapshot.at \in Int /\ Ahead(plan, r, snapshot.at) # {}
  BY DEF Snapshot, InFeed
<1>2. /\ e.trip \in Int /\ e.trip = (IF style \in {"added", "renamed"} THEN NewId[r] ELSE Trip[r])
      /\ e.date = IF style = "dateless" THEN None ELSE Date[r]
      /\ e.updates = Updates(plan, r, snapshot.at)
      /\ Canceled(e) <=> style = "canceled"
  BY EntityOf
<1> HIDE DEF e
<1>3. /\ trip.trip = e.trip /\ trip.line = LineOf(e, Lookup(snapshot)) /\ trip.date = e.date
      /\ trip.canceled = Canceled(e)
      /\ trip.stops = IF Canceled(e) THEN <<>> ELSE parseStopTimeUpdates(e.updates)
  BY DEF Kept, TripRealtime, e
<1>4. PICK first \in Places(r), last \in Places(r) :
         /\ first <= last
         /\ Ahead(plan, r, snapshot.at) = first .. Len(Stops(r))
         /\ style # "delays" => last = Len(Stops(r))
         /\ parseStopTimeUpdates(Updates(plan, r, snapshot.at)) =
               [i \in 1 .. last - first + 1 |-> StopRealtime(Update(plan, r, first + i - 1))]
  BY <1>1, ListedStops
<1> DEFINE stops == [i \in 1 .. last - first + 1 |-> StopRealtime(Update(plan, r, first + i - 1))]
<1>5. style # "canceled" => trip.stops = stops
  BY <1>2, <1>3, <1>4
<1>6. stops \in Seq(RealtimeStop)
  <2>1. /\ Places(r) = 1 .. Len(Stops(r)) /\ Len(Stops(r)) \in Nat
        /\ first \in Int /\ last \in Int
    BY <1>4, StopTimes
  <2>2. last - first + 1 \in Nat /\ \A i \in 1 .. last - first + 1 : first + i - 1 \in Places(r)
    BY <1>4, <2>1
  <2>3. \A i \in 1 .. last - first + 1 : StopRealtime(Update(plan, r, first + i - 1)) \in RealtimeStop
    BY <2>2, ListedStop
  <2> QED BY <2>2, <2>3
<1> HIDE DEF stops
<1>7. trip.stops \in Seq(RealtimeStop)
  <2>1. CASE style = "canceled"
    <3>1. trip.stops = <<>>
      BY <1>2, <1>3, <2>1
    <3> QED BY <3>1
  <2>2. CASE style # "canceled"
    BY <1>5, <1>6, <2>2
  <2> QED BY <2>1, <2>2
<1> HIDE DEF trip
<1>8. trip.line = LineOf(EntityAt(r, snapshot), Lookup(snapshot))
  BY <1>3 DEF EntityAt, e
<1> QED BY <1>2, <1>3, <1>4, <1>5, <1>7, <1>8 DEF stops, trip

\* What a row of the board may become.
Dates == {Date[r] : r \in Run} \cup {None}
Lines == {Line[Trip[r]] : r \in Run}

Arrival ==
    [trip : Int, date : Dates, line : Lines, pickup : BOOLEAN, sched : Maybe, time : Int,
     leaves : Int, delay : Maybe, realtime : BOOLEAN,
     status : {"scheduled", "predicted", "added", "canceled", "skipped"}, passed : BOOLEAN]

\* A row without the feed.
LEMMA ScheduledRow ==
    ASSUME NEW r \in InService, NEW k \in AtBoard(r)
    PROVE  LET a == Scheduled(Row(r, k))
           IN  /\ a \in Arrival
               /\ a.trip = Trip[r] /\ a.date = Date[r] /\ a.line = Line[Trip[r]]
               /\ a.pickup = Stops(r)[k].pickup
               /\ a.sched = Due(r, k) /\ a.time = Due(r, k) /\ a.leaves = Until(r, k)
               /\ a.sched \in Int
               /\ ~a.realtime /\ a.status = "scheduled" /\ ~a.passed
<1> DEFINE row == Row(r, k)
           a == Scheduled(row)
<1>1. r \in Run /\ k \in Places(r) /\ Trip[r] \in Int /\ None \notin Int
  BY TrainsAssumption, NoneAssumption DEF AtBoard, Places
<1>2. /\ Arr(r, k) \in Maybe /\ Dep(r, k) \in Maybe
      /\ Arr(r, k) # None \/ Dep(r, k) # None
      /\ Due(r, k) \in Int /\ Until(r, k) \in Int
      /\ Stops(r)[k].pickup \in BOOLEAN
  BY <1>1, StopTimes
<1>3. /\ row.trip = Trip[r] /\ row.date = Date[r] /\ row.line = Line[Trip[r]]
      /\ row.pickup = Stops(r)[k].pickup /\ row.arr = Arr(r, k) /\ row.dep = Dep(r, k)
  BY DEF Row
<1>4. Or(row.arr, row.dep) = Due(r, k) /\ Or(row.dep, Due(r, k)) = Until(r, k)
  BY <1>2, <1>3 DEF Due, Until, Or
<1> HIDE DEF row
<1>5. a = [trip |-> Trip[r], date |-> Date[r], line |-> Line[Trip[r]], pickup |-> Stops(r)[k].pickup,
           sched |-> Due(r, k), time |-> Due(r, k), leaves |-> Until(r, k),
           delay |-> None, realtime |-> FALSE, status |-> "scheduled", passed |-> FALSE]
  BY <1>3, <1>4 DEF Scheduled
<1>6. a \in Arrival
  BY <1>1, <1>2, <1>5 DEF Arrival, Maybe, Dates, Lines
<1> HIDE DEF a
<1> QED BY <1>2, <1>5, <1>6 DEF a, row

\* A row with a prediction is what it was,
LEMMA PredictionKeeps ==
    ASSUME NEW a \in Arrival, NEW time, NEW delay, NEW leaves
    PROVE  LET b == applyPrediction(a, time, delay, leaves)
           IN  /\ b.trip = a.trip /\ b.date = a.date /\ b.line = a.line /\ b.pickup = a.pickup
               /\ b.sched = a.sched /\ b.passed = a.passed
BY DEF applyPrediction, Arrival

\* at the time of the prediction,
LEMMA PredictionGives ==
    ASSUME NEW a \in Arrival, NEW time \in Int, NEW delay \in Maybe, NEW leaves \in Int
    PROVE  LET b == applyPrediction(a, time, delay, leaves)
           IN  b \in Arrival /\ b.time = time /\ b.delay = delay /\ b.realtime = TRUE
<1>1. Later(leaves, time) \in Int
  BY DEF Later
<1> QED BY <1>1 DEF applyPrediction, Arrival

\* and an added trip if there is nothing to compare it with.
LEMMA PredictionStatus ==
    ASSUME NEW a \in Arrival, NEW time, NEW delay, NEW leaves
    PROVE  /\ delay = None => applyPrediction(a, time, delay, leaves).status = "added"
           /\ delay # None => applyPrediction(a, time, delay, leaves).status = "predicted"
BY DEF applyPrediction, Arrival

\* The styles that tell when a train comes.
Timed == {"times", "dateless", "arrivals", "departures", "delays", "platforms"}

\* When a train comes to a stop, as far as its agency tells,
Comes(r, k) == IF plan[r].style = "departures" THEN Until(r, k) ELSE Due(r, k)

\* and its row then.
TimelyRow(r, k) ==
    applyPrediction(Scheduled(Row(r, k)), Comes(r, k) + plan[r].delay, plan[r].delay,
                    Until(r, k) + plan[r].delay)

\* The update of a stop gives the time of its train, whatever it publishes of it.
LEMMA PredictedRow ==
    ASSUME plan \in [Run -> Plan], NEW r \in InService, NEW k \in AtBoard(r)
    PROVE  LET a == Scheduled(Row(r, k))
               m == Predicted(a, StopRealtime(Update(plan, r, k)), Row(r, k))
           IN  /\ plan[r].style = "nodata" => m = a
               /\ plan[r].style \in Timed => m = TimelyRow(r, k)
<1> DEFINE row == Row(r, k)
           a == Scheduled(row)
           s == StopRealtime(Update(plan, r, k))
           style == plan[r].style
           d == plan[r].delay
<1>1. r \in Run /\ k \in Places(r) /\ d \in Int /\ None \notin Int
  BY TrainsAssumption, NoneAssumption DEF AtBoard, Places, Plan
<1>2. /\ Arr(r, k) \in Maybe /\ Dep(r, k) \in Maybe
      /\ Arr(r, k) # None \/ Dep(r, k) # None
      /\ Due(r, k) = IF Arr(r, k) # None THEN Arr(r, k) ELSE Dep(r, k)
      /\ Until(r, k) = IF Dep(r, k) # None THEN Dep(r, k) ELSE Arr(r, k)
  BY <1>1, StopTimes DEF Due, Until, Or
<1>3. row.arr = Arr(r, k) /\ row.dep = Dep(r, k)
  BY DEF Row
<1>4. a.sched = Due(r, k) /\ a.leaves = Until(r, k) /\ Due(r, k) \in Int /\ Until(r, k) \in Int
  BY <1>1, StopTimes, ScheduledRow
<1>5. /\ style = "nodata" => s.arr = None /\ s.dep = None /\ s.delay = None
      /\ style # "nodata" =>
            /\ s.arr = IF style = "delays" \/ (style = "departures" /\ Dep(r, k) # None)
                       THEN None ELSE Predict(plan, r, Arr(r, k))
            /\ s.dep = IF style = "delays" \/ (style = "arrivals" /\ Arr(r, k) # None)
                       THEN None ELSE Predict(plan, r, Dep(r, k))
            /\ s.delay = IF style = "delays" THEN d ELSE None
  BY <1>1, ListedStop
<1>6. /\ Predict(plan, r, Arr(r, k)) = IF Arr(r, k) = None THEN None ELSE Arr(r, k) + d
      /\ Predict(plan, r, Dep(r, k)) = IF Dep(r, k) = None THEN None ELSE Dep(r, k) + d
  BY DEF Predict
<1> HIDE DEF row, a, s
<1>7. style = "nodata" => Predicted(a, s, row) = a
  BY <1>5 DEF Predicted
<1>8. ASSUME style \in Timed
      PROVE  Predicted(a, s, row) = applyPrediction(a, Comes(r, k) + d, d, Until(r, k) + d)
  <2>0. style # "nodata"
    BY <1>8 DEF Timed
  <2>1. CASE s.arr # None
    <3>1. s.arr = Arr(r, k) + d /\ Arr(r, k) \in Int
      BY <1>2, <1>5, <1>6, <2>0, <2>1 DEF Maybe
    <3>2. s.arr - Or(row.arr, a.sched) = d /\ s.arr \in Int
      BY <1>1, <1>3, <3>1 DEF Or
    <3>3. s.arr = Comes(r, k) + d
      <4>1. CASE style = "departures"
        <5>1. Dep(r, k) = None
          BY <1>5, <2>0, <2>1, <4>1
        <5> QED BY <1>1, <1>2, <3>1, <4>1, <5>1 DEF Comes
      <4>2. CASE style # "departures"
        BY <1>1, <1>2, <3>1, <4>2 DEF Comes
      <4> QED BY <4>1, <4>2
    <3>4. Or(s.dep, a.leaves + d) = Until(r, k) + d
      <4>1. CASE s.dep # None
        <5>1. s.dep = Dep(r, k) + d /\ Dep(r, k) # None
          BY <1>5, <1>6, <2>0, <4>1
        <5> QED BY <1>2, <4>1, <5>1 DEF Or
      <4>2. CASE s.dep = None
        BY <1>4, <4>2 DEF Or
      <4> QED BY <4>1, <4>2
    <3>5. Predicted(a, s, row) = applyPrediction(a, s.arr, d, Or(s.dep, a.leaves + d))
      BY <2>1, <3>2 DEF Predicted
    <3> QED BY <3>3, <3>4, <3>5
  <2>2. CASE s.arr = None /\ s.dep # None
    <3>1. s.dep = Dep(r, k) + d /\ Dep(r, k) \in Int /\ Dep(r, k) # None
      BY <1>2, <1>5, <1>6, <2>0, <2>2 DEF Maybe
    <3>2. s.dep - Or(row.dep, a.sched) = d /\ s.dep \in Int
      BY <1>1, <1>3, <3>1 DEF Or
    <3>3. Predicted(a, s, row) = applyPrediction(a, s.dep, d, s.dep)
      BY <2>2, <3>2 DEF Predicted
    <3>4. s.dep = Until(r, k) + d
      BY <1>2, <3>1
    <3>5. Comes(r, k) = Until(r, k)
      <4>1. CASE style = "departures"
        BY <4>1 DEF Comes
      <4>2. CASE style # "departures"
        <5>1. Arr(r, k) = None
          <6>1. style # "delays"
            BY <1>5, <2>0, <2>2
          <6>2. Predict(plan, r, Arr(r, k)) = None
            BY <1>5, <2>0, <2>2, <4>2, <6>1
          <6>3. CASE Arr(r, k) # None
            <7>1. Arr(r, k) \in Int /\ Arr(r, k) + d = None
              BY <1>2, <1>6, <6>2, <6>3 DEF Maybe
            <7>2. Arr(r, k) + d \in Int
              BY <1>1, <7>1
            <7> QED BY <1>1, <7>1, <7>2
          <6> QED BY <6>3
        <5> QED BY <1>2, <3>1, <4>2, <5>1 DEF Comes
      <4> QED BY <4>1, <4>2
    <3> QED BY <3>3, <3>4, <3>5
  <2>3. CASE s.arr = None /\ s.dep = None
    <3>1. s.delay = d /\ s.delay # None /\ style = "delays"
      BY <1>1, <1>2, <1>5, <1>6, <2>0, <2>3 DEF Maybe
    <3>2. Predicted(a, s, row) = applyPrediction(a, a.sched + d, d, a.leaves + d)
      BY <2>3, <3>1 DEF Predicted
    <3>3. a.sched = Comes(r, k) /\ a.leaves = Until(r, k)
      BY <1>4, <3>1 DEF Comes
    <3> QED BY <3>2, <3>3
  <2> QED BY <2>1, <2>2, <2>3
<1> QED BY <1>7, <1>8 DEF row, a, s, TimelyRow

\* A stop that is not listed is behind the train, or after the one that is; a
\* platform that is not listed says nothing.
LEMMA UnlistedRow ==
    ASSUME plan \in [Run -> Plan], NEW r \in InService, NEW k \in AtBoard(r),
           NEW first \in Places(r), NEW last \in Places(r), first <= last, k \notin first .. last,
           plan[r].style # "delays" => last = Len(Stops(r))
    PROVE  LET a == Scheduled(Row(r, k))
               stops == [i \in 1 .. last - first + 1 |-> StopRealtime(Update(plan, r, first + i - 1))]
               m == Unlisted(a, stops, k)
           IN  /\ plan[r].style = "platforms" => m = a
               /\ plan[r].style # "platforms" =>
                     m = IF k < first THEN [a EXCEPT !.passed = TRUE] ELSE TimelyRow(r, k)
<1> DEFINE n == last - first + 1
           stops == [i \in 1 .. n |-> StopRealtime(Update(plan, r, first + i - 1))]
           a == Scheduled(Row(r, k))
           d == plan[r].delay
<1>1. r \in Run /\ k \in Places(r) /\ d \in Int /\ None \notin Int
  BY TrainsAssumption, NoneAssumption DEF AtBoard, Places, Plan
<1>2. Places(r) = 1 .. Len(Stops(r)) /\ Len(Stops(r)) \in Nat
  BY <1>1, StopTimes
<1>3. /\ first \in Nat /\ last \in Nat /\ k \in Nat /\ n \in Nat \ {0}
      /\ \A i \in 1 .. n : first + i - 1 \in Places(r) /\ first <= first + i - 1 /\ first + i - 1 <= last
  BY <1>1, <1>2
<1>4. a.sched = Due(r, k) /\ a.leaves = Until(r, k)
  BY ScheduledRow
<1>5. /\ stops # <<>> /\ DOMAIN stops = 1 .. n /\ Len(stops) = n
      /\ \A i \in 1 .. n : stops[i] = StopRealtime(Update(plan, r, first + i - 1))
  <2>1. 1 \in DOMAIN stops /\ DOMAIN stops = 1 .. n /\ n \in Nat
    BY <1>3
  <2>2. Len(stops) = n
    <3> HIDE DEF n
    <3> QED BY <2>1
  <2> QED BY <2>1, <2>2
<1>6. ASSUME NEW i \in 1 .. n
      PROVE  /\ stops[i].seq = IF plan[r].style = "platforms" THEN None ELSE first + i - 1
             /\ plan[r].style = "delays" => ~stops[i].skipped /\ stops[i].delay = d
  <2>1. first + i - 1 \in Places(r)
    BY <1>3
  <2>2. LET s == StopRealtime(Update(plan, r, first + i - 1))
        IN  /\ s.seq = IF plan[r].style = "platforms" THEN None ELSE first + i - 1
            /\ plan[r].style = "delays" => ~s.skipped /\ s.delay = d
    BY <1>1, <2>1, ListedStop
  <2> QED BY <1>5, <2>2
<1> HIDE DEF stops, a
<1>7. CASE plan[r].style = "platforms"
  <2>1. ~allSequenced(stops)
    BY <1>3, <1>5, <1>6, <1>7 DEF allSequenced
  <2>2. Unlisted(a, stops, k) = a
    BY <2>1 DEF Unlisted, hasPassed, propagatedDelay
  <2> QED BY <1>7, <2>2 DEF stops, a
<1>8. CASE plan[r].style # "platforms"
  <2>1. \A i \in 1 .. n : stops[i].seq = first + i - 1
    BY <1>6, <1>8
  <2>2. allSequenced(stops)
    BY <1>1, <1>3, <1>5, <2>1 DEF allSequenced
  <2>3. CASE k < first
    <3>1. \A i \in 1 .. n : k < stops[i].seq
      <4> HIDE DEF n
      <4> QED BY <1>3, <2>1, <2>3
    <3>2. hasPassed(stops, k)
      BY <1>5, <2>2, <3>1 DEF hasPassed
    <3> HIDE DEF n
    <3>3. Unlisted(a, stops, k) = [a EXCEPT !.passed = TRUE]
      BY <3>2 DEF Unlisted
    <3> QED BY <1>8, <2>3, <3>3 DEF stops, a, n
  <2>4. CASE ~(k < first)
    <3>1. last < k /\ plan[r].style = "delays"
      BY <1>1, <1>2, <1>3, <2>4
    <3>2. ~hasPassed(stops, k)
      <4>1. 1 \in 1 .. n /\ stops[1].seq = first
        BY <1>3, <2>1
      <4> HIDE DEF n
      <4> QED BY <1>5, <2>4, <4>1 DEF hasPassed
    <3> DEFINE I == {i \in 1 .. Len(stops) : stops[i].seq < k /\ ~stops[i].skipped}
    <3>3. 1 \in I
      <4>1. 1 \in 1 .. n /\ stops[1].seq = first /\ first < k
        BY <1>3, <2>1, <3>1
      <4> HIDE DEF n
      <4> QED BY <1>5, <1>6, <3>1, <4>1
    <3>4. Max(I) \in I
      <4>1. I \in SUBSET (0 .. n)
        BY <1>3, <1>5
      <4> HIDE DEF I, n
      <4>2. \E i \in I : \A j \in I : j <= i
        BY <1>3, <3>3, <4>1, GreatestIndex
      <4> QED BY <4>2 DEF Max
    <3>5. SelectLastInSeq(stops, LAMBDA s : s.seq < k /\ ~s.skipped) = Max(I)
      <4>1. SelectLastInSeq(stops, LAMBDA s : s.seq < k /\ ~s.skipped) = IF I # {} THEN Max(I) ELSE 0
        BY DEF SelectLastInSeq
      <4> HIDE DEF I
      <4> QED BY <3>3, <4>1
    <3>6. Max(I) \in 1 .. n
      BY <1>5, <3>4
    <3> HIDE DEF I, n
    <3>7. propagatedDelay(stops, k) = d
      <4>1. Max(I) # 0 /\ stops[Max(I)].delay = d
        BY <1>3, <1>6, <3>1, <3>6
      <4> QED BY <2>2, <3>5, <4>1 DEF propagatedDelay
    <3>8. Unlisted(a, stops, k) = applyPrediction(a, a.sched + d, d, a.leaves + d)
      BY <1>1, <3>2, <3>7 DEF Unlisted
    <3>9. Unlisted(a, stops, k) = TimelyRow(r, k)
      BY <1>4, <3>1, <3>8 DEF Comes, TimelyRow, a
    <3> QED BY <1>8, <2>4, <3>9 DEF stops, a, n
  <2> QED BY <2>3, <2>4
<1> QED BY <1>7, <1>8

\* A row after the merge, by what the feed tells of its train.
LEMMA MergedRow ==
    ASSUME plan \in Plans, NEW r \in InService, NEW k \in AtBoard(r),
           NEW snapshot \in Snapshot \cup {None}
    PROVE  LET a == Scheduled(Row(r, k))
               m == mergeRow(Row(r, k), Hashes(snapshot).tripUpdates)
               style == plan[r].style
           IN  /\ \/ m = a
                  \/ m = [a EXCEPT !.passed = TRUE]
                  \/ m = [a EXCEPT !.status = "canceled"]
                  \/ m = [a EXCEPT !.status = "skipped"]
                  \/ m = TimelyRow(r, k)
               /\ ~Follows(r, snapshot) => m = a
               /\ Follows(r, snapshot) =>
                     /\ style = "canceled" => m = [a EXCEPT !.status = "canceled"]
                     /\ style = "skipping" => m \in {[a EXCEPT !.status = "skipped"],
                                                     [a EXCEPT !.passed = TRUE]}
                     /\ style \in Timed /\ k \in Ahead(plan, r, snapshot.at) => m = TimelyRow(r, k)
                     /\ style = "nodata" /\ k \in Ahead(plan, r, snapshot.at) => m = a
                     /\ k \notin Ahead(plan, r, snapshot.at) =>
                           /\ style \in {"nodata"} \cup (Timed \ {"platforms"}) =>
                                 m = [a EXCEPT !.passed = TRUE]
                           /\ style = "platforms" => m = a
<1> DEFINE row == Row(r, k)
           a == Scheduled(row)
           updates == Hashes(snapshot).tripUpdates
           m == mergeRow(row, updates)
           style == plan[r].style
           trip == Kept(r, snapshot)
           s == StopRealtime(Update(plan, r, k))
           ahead == Ahead(plan, r, snapshot.at)
<1>1. plan \in [Run -> Plan] /\ r \in Run /\ k \in Places(r) /\ style \in Style
  <2>1. plan \in [Run -> Plan] /\ r \in Run /\ k \in Places(r)
    BY PlansAssumption, TrainsAssumption DEF AtBoard, Places
  <2> QED BY <2>1 DEF Plan
<1>2. RealtimeOf(row, updates) = IF Follows(r, snapshot) THEN trip ELSE None
  BY RealtimeOfRow
<1>3. row.date = Date[r] /\ row.seq = k /\ Stops(r)[k].stop \in BoardStops
  BY DEF Row, AtBoard
<1> HIDE DEF row, updates
<1>4. CASE ~Follows(r, snapshot)
  <2>1. m = a
    BY <1>2, <1>4 DEF mergeRow
  <2> HIDE DEF m, a
  <2> QED BY <1>4, <2>1 DEF m, a, row, updates
<1>5. CASE Follows(r, snapshot)
  <2>1. snapshot \in Snapshot /\ InFeed(r, snapshot) /\ style \in OwnStyle
    BY <1>5 DEF Follows
  <2>2. /\ trip.date = IF style = "dateless" THEN None ELSE Date[r]
        /\ trip.canceled <=> style = "canceled"
        /\ trip.stops \in Seq(RealtimeStop)
        /\ trip.trip \in Int /\ trip.line = LineOf(EntityAt(r, snapshot), Lookup(snapshot))
    BY <1>1, <2>1, KeptTrip
  <2>3. PICK first \in Places(r), last \in Places(r) :
           /\ first <= last
           /\ Ahead(plan, r, snapshot.at) = first .. Len(Stops(r))
           /\ style # "delays" => last = Len(Stops(r))
           /\ style # "canceled" =>
                 trip.stops = [i \in 1 .. last - first + 1 |->
                                  StopRealtime(Update(plan, r, first + i - 1))]
    BY <1>1, <2>1, KeptTrip
  <2>4. trip # None
    <3>1. trip.line = Line[Trip[r]]
      <4>1. EntityAt(r, snapshot).line = Line[Trip[r]] /\ EntityAt(r, snapshot).rel # "DUPLICATED"
        BY <1>1, <2>1, EntityOf DEF EntityAt, OwnStyle
      <4> QED BY <2>2, <4>1 DEF LineOf
    <3>2. trip \in RealtimeTrip
      <4>1. trip = [trip |-> trip.trip, line |-> trip.line, date |-> trip.date,
                    canceled |-> trip.canceled, stops |-> trip.stops]
        BY DEF Kept, TripRealtime
      <4>2. trip.canceled \in BOOLEAN
        BY DEF Kept, TripRealtime, Canceled
      <4> HIDE DEF trip
      <4>3. trip.date \in {Date[q] : q \in Run} \cup {None}
        BY <1>1, <2>2
      <4>4. trip.line \in {Line[Trip[q]] : q \in Run} \cup {None}
        BY <1>1, <3>1
      <4> QED BY <2>2, <4>1, <4>2, <4>3, <4>4 DEF RealtimeTrip
    <3> QED BY <3>2, NoneAssumption
  <2>5. Or(trip.date, row.date) = row.date
    BY <1>3, <2>2 DEF Or
  <2>6. CASE style = "canceled"
    <3>1. m = [a EXCEPT !.status = "canceled"]
      <4> HIDE DEF trip
      <4> QED BY <1>2, <1>5, <2>2, <2>4, <2>5, <2>6 DEF mergeRow
    <3> HIDE DEF m, a
    <3> QED BY <1>5, <2>6, <3>1 DEF m, a, row, updates, Timed
  <2>7. CASE style # "canceled" /\ k \notin first .. last
    <3> DEFINE stops == [i \in 1 .. last - first + 1 |-> StopRealtime(Update(plan, r, first + i - 1))]
    <3>1. findStop(stops, row) = None
      BY <2>3, <2>7, FoundStop DEF row
    <3>2. m = Unlisted(a, stops, k)
      <4> HIDE DEF trip, stops
      <4>1. trip.stops = stops
        BY <2>3, <2>7 DEF stops
      <4> QED BY <1>2, <1>3, <1>5, <2>2, <2>4, <2>5, <2>7, <3>1, <4>1 DEF mergeRow
    <3>3. /\ style = "platforms" => Unlisted(a, stops, k) = a
          /\ style # "platforms" =>
                Unlisted(a, stops, k) = IF k < first THEN [a EXCEPT !.passed = TRUE] ELSE TimelyRow(r, k)
      BY <1>1, <2>3, <2>7, UnlistedRow DEF row
    <3> HIDE DEF stops
    <3>4. /\ style = "platforms" => m = a
          /\ style # "platforms" => m = IF k < first THEN [a EXCEPT !.passed = TRUE] ELSE TimelyRow(r, k)
      <4> HIDE DEF m, a
      <4> QED BY <3>2, <3>3
    <3>5. /\ k \in ahead <=> ~(k < first)
          /\ k \in ahead => style = "delays"
      <4>1. first \in Nat /\ last \in Nat /\ k \in 1 .. Len(Stops(r)) /\ Len(Stops(r)) \in Nat
        BY <1>1, StopTimes
      <4> QED BY <2>3, <2>7, <4>1
    <3> HIDE DEF m, a
    <3>6. style \in Timed \cup {"nodata", "skipping"}
      BY <2>1, <2>7 DEF Timed, OwnStyle, Style
    <3>7. /\ ~(k \in ahead) /\ style # "platforms" => m = [a EXCEPT !.passed = TRUE]
          /\ k \in ahead => m = TimelyRow(r, k) /\ style \notin {"skipping", "nodata", "platforms"}
      BY <3>4, <3>5
    <3> HIDE DEF ahead
    <3> QED BY <1>5, <2>7, <3>4, <3>6, <3>7 DEF m, a, row, updates, Timed, ahead
  <2>8. CASE style # "canceled" /\ k \in first .. last
    <3>1. findStop(trip.stops, row) = s
      BY <2>3, <2>8, FoundStop DEF row
    <3>2. /\ s \in RealtimeStop
          /\ s.skipped <=> style = "skipping"
      BY <1>1, <1>3, ListedStop
    <3>3. m = IF s.skipped THEN [a EXCEPT !.status = "skipped"] ELSE Predicted(a, s, row)
      <4>1. s # None
        BY <3>2, NoneAssumption
      <4> HIDE DEF trip, s
      <4> QED BY <1>2, <1>5, <2>2, <2>4, <2>5, <2>8, <3>1, <4>1 DEF mergeRow
    <3>4. /\ style = "nodata" => Predicted(a, s, row) = a
          /\ style \in Timed => Predicted(a, s, row) = TimelyRow(r, k)
      BY <1>1, PredictedRow DEF row
    <3> HIDE DEF s
    <3>5. /\ style = "skipping" => m = [a EXCEPT !.status = "skipped"]
          /\ style = "nodata" => m = a
          /\ style \in Timed => m = TimelyRow(r, k)
      <4> HIDE DEF m, a
      <4> QED BY <3>2, <3>3, <3>4 DEF Timed
    <3>6. style \in Timed \cup {"nodata", "skipping"}
      BY <2>1, <2>8 DEF Timed, OwnStyle, Style
    <3>7. k \in ahead
      <4>1. first \in Nat /\ last \in 1 .. Len(Stops(r)) /\ Len(Stops(r)) \in Nat
        BY <1>1, StopTimes
      <4> QED BY <2>3, <2>8, <4>1
    <3> HIDE DEF m, a, ahead
    <3> QED BY <1>5, <2>8, <3>5, <3>6, <3>7 DEF m, a, row, updates, Timed, ahead
  <2> QED BY <2>6, <2>7, <2>8
<1> QED BY <1>4, <1>5

\* What stays of a row, whatever the feed says.
RowOf(r, b) ==
    /\ b \in Arrival
    /\ b.trip = Trip[r] /\ b.date = Date[r] /\ b.line = Line[Trip[r]]
    /\ b.sched \in Int
    /\ b.status # "added"
    /\ b.realtime <=> b.status = "predicted"

\* A prediction leaves a row what it is.
LEMMA PredictedArrival ==
    ASSUME NEW r, NEW a, RowOf(r, a), NEW time \in Int, NEW delay \in Int, NEW leaves \in Int
    PROVE  RowOf(r, applyPrediction(a, time, delay, leaves))
<1> DEFINE b == applyPrediction(a, time, delay, leaves)
<1>1. delay \in Maybe /\ delay # None /\ a \in Arrival
  BY NoneAssumption DEF Maybe, RowOf
<1>2. b.trip = a.trip /\ b.date = a.date /\ b.line = a.line /\ b.sched = a.sched
  BY <1>1, PredictionKeeps
<1>5. b \in Arrival /\ b.realtime = TRUE
  BY <1>1, PredictionGives
<1>3. b.status = "predicted"
  BY <1>1, PredictionStatus
<1> HIDE DEF b
<1>4. RowOf(r, b)
  BY <1>2, <1>3, <1>5 DEF RowOf
<1> QED BY <1>4 DEF b

\* A row whose train is on its way has the time and the delay of the train.
LEMMA TimelyFields ==
    ASSUME plan \in Plans, NEW r \in InService, NEW k \in AtBoard(r)
    PROVE  LET b == TimelyRow(r, k)
           IN  /\ RowOf(r, b) /\ b.realtime = TRUE /\ b.status = "predicted" /\ b.passed = FALSE
               /\ b.pickup = Stops(r)[k].pickup /\ b.sched = Due(r, k)
               /\ b.delay = plan[r].delay
               /\ b.time = Comes(r, k) + plan[r].delay
               /\ b.leaves = Until(r, k) + plan[r].delay
<1> DEFINE a == Scheduled(Row(r, k))
           d == plan[r].delay
           time == Comes(r, k) + d
           leaves == Until(r, k) + d
           b == applyPrediction(a, time, d, leaves)
<1>1. r \in Run /\ k \in Places(r) /\ d \in Int /\ d \in Maybe /\ d # None
  BY PlansAssumption, TrainsAssumption, NoneAssumption DEF Plan, AtBoard, Places, Maybe
<1>2. RowOf(r, a) /\ a \in Arrival /\ a.pickup = Stops(r)[k].pickup /\ a.passed = FALSE /\ a.sched = Due(r, k)
  BY ScheduledRow DEF RowOf, Arrival
<1>3. Comes(r, k) \in Int /\ Until(r, k) \in Int /\ Comes(r, k) <= Until(r, k)
  BY <1>1, StopTimes, TimesInOrder DEF Comes
<1>4. time \in Int /\ leaves \in Int /\ time <= leaves
  BY <1>1, <1>3
<1>10. TimelyRow(r, k) = b
  BY DEF TimelyRow
<1> HIDE DEF a, d, time, leaves
<1>5. RowOf(r, b)
  BY <1>1, <1>2, <1>4, PredictedArrival
<1>6. b.pickup = a.pickup /\ b.passed = a.passed /\ b.sched = a.sched
  BY <1>2, PredictionKeeps
<1>7. b.time = time /\ b.delay = d /\ b.realtime = TRUE
  BY <1>2 DEF applyPrediction, Arrival
<1>8. b.status = "predicted"
  BY <1>1, <1>2, PredictionStatus
<1>9. b.leaves = leaves
  BY <1>2, <1>4 DEF applyPrediction, Later, Arrival
<1> HIDE DEF b
<1> QED BY <1>2, <1>5, <1>6, <1>7, <1>8, <1>9, <1>10 DEF d, time, leaves

\* So does the merge.
LEMMA MergedArrival ==
    ASSUME plan \in Plans, NEW r \in InService, NEW k \in AtBoard(r),
           NEW snapshot \in Snapshot \cup {None}
    PROVE  RowOf(r, mergeRow(Row(r, k), Hashes(snapshot).tripUpdates))
<1> DEFINE a == Scheduled(Row(r, k))
           m == mergeRow(Row(r, k), Hashes(snapshot).tripUpdates)
<1>1. RowOf(r, a) /\ a \in Arrival
  BY ScheduledRow DEF RowOf
<1>2. \/ m = a
      \/ m = [a EXCEPT !.passed = TRUE]
      \/ m = [a EXCEPT !.status = "canceled"]
      \/ m = [a EXCEPT !.status = "skipped"]
      \/ m = TimelyRow(r, k)
  BY MergedRow
<1>3. RowOf(r, TimelyRow(r, k))
  BY TimelyFields
<1>4. a.status = "scheduled" /\ ~a.realtime
  BY ScheduledRow
<1> HIDE DEF a, m
<1>5. RowOf(r, [a EXCEPT !.passed = TRUE])
  BY <1>1 DEF RowOf, Arrival
<1>6. RowOf(r, [a EXCEPT !.status = "canceled"]) /\ RowOf(r, [a EXCEPT !.status = "skipped"])
  BY <1>1, <1>4 DEF RowOf, Arrival
<1>7. RowOf(r, m)
  BY <1>1, <1>2, <1>3, <1>5, <1>6
<1> QED BY <1>7 DEF m

\* The feed adds a train.
LEMMA AddedTrains ==
    ASSUME plan \in Plans, NEW q \in Run, NEW snapshot \in Snapshot, IsAdded(q, snapshot)
    PROVE  /\ plan[q].style = "added" \/ (plan[q].style \in {"renamed", "copy"} /\ snapshot.known)
           /\ Listed(q, snapshot)
           /\ Kept(q, snapshot).line = Line[Trip[q]]
           /\ Kept(q, snapshot).trip \in Int
           /\ Kept(q, snapshot).stops \in Seq(RealtimeStop)
<1> DEFINE e == Entity(plan, q, snapshot.at)
           style == plan[q].style
<1>1. plan \in [Run -> Plan] /\ InFeed(q, snapshot) /\ snapshot # None
  BY PlansAssumption, SnapshotAssumption DEF IsAdded
<1>2. /\ style \in Style
      /\ e.trip = IF style \in {"added", "renamed"} THEN NewId[q] ELSE Trip[q]
      /\ e.line = IF style = "copy" THEN None ELSE Line[Trip[q]]
      /\ e.rel = "DUPLICATED" <=> style = "copy"
  BY <1>1, EntityOf
<1>3. \/ style \in {"copy", "added"}
      \/ snapshot.known /\ e.trip \notin {Trip[p] : p \in InService}
  BY <1>1, AddedRun DEF IsAdded, EntityAt
<1>4. /\ Kept(q, snapshot).line = LineOf(e, Lookup(snapshot))
      /\ Kept(q, snapshot).trip \in Int /\ Kept(q, snapshot).stops \in Seq(RealtimeStop)
  BY <1>1, KeptTrip DEF EntityAt
<1>5. LineOf(e, Lookup(snapshot)) # None
  BY DEF IsAdded, EntityAt
<1> HIDE DEF e
<1>6. Listed(q, snapshot)
  BY <1>1 DEF Listed, InFeed
<1>7. style # "silent"
  BY <1>1 DEF InFeed
<1>8. style # "canceled"
  BY DEF IsAdded
<1>9. CASE style = "copy"
  <2>1. InStatic(e, Lookup(snapshot)) /\ LineOf(e, Lookup(snapshot)) = Lookup(snapshot)[e.trip]
    BY <1>2, <1>5, <1>9 DEF LineOf
  <2>2. snapshot.known /\ Lookup(snapshot) = StaticTrips
    BY <2>1 DEF InStatic, Lookup
  <2>3. e.trip = Trip[q] /\ e.trip \in DOMAIN StaticTrips
    BY <1>2, <1>9, <2>1, <2>2 DEF InStatic
  <2>4. StaticTrips[Trip[q]] = Line[Trip[q]]
    BY <2>3 DEF StaticTrips
  <2> QED BY <1>4, <1>6, <1>9, <2>1, <2>2, <2>3, <2>4
<1>10. CASE style # "copy"
  <2>1. LineOf(e, Lookup(snapshot)) = Line[Trip[q]]
    BY <1>2, <1>10 DEF LineOf
  <2>2. style = "added" \/ (style = "renamed" /\ snapshot.known)
    <3>1. CASE q \in InService
      BY <1>2, <1>3, <1>10, <3>1
    <3>2. CASE q \notin InService
      <4>1. style \in {"added", "renamed", "copy", "silent"}
        BY <3>2, PlansAssumption
      <4> QED BY <1>3, <1>7, <1>10, <4>1
    <3> QED BY <3>1, <3>2
  <2> QED BY <1>4, <1>6, <2>1, <2>2
<1> QED BY <1>9, <1>10

Entry == [trip : Int, line : Lines, time : Int, leaves : Int]

\* Whom an added train is on the line of.
FedOn(line, snapshot) ==
    \E q \in Run : Line[Trip[q]] = line /\ Listed(q, snapshot)
                   /\ (plan[q].style = "added"
                       \/ (plan[q].style \in {"renamed", "copy"} /\ snapshot.known))

\* The first stop an added train can be boarded at has a time.
FirstBoarded(stops, cut) == First(stops, LAMBDA s : Boards(s, cut))

LEMMA BoardedStop ==
    ASSUME NEW stops \in Seq(RealtimeStop), NEW cut,
           FirstBoarded(stops, cut) # None
    PROVE  LET s == FirstBoarded(stops, cut)
           IN  /\ Or(s.arr, s.dep) \in Int /\ Or(s.dep, s.arr) \in Int
               /\ Later(Or(s.dep, s.arr), Or(s.arr, s.dep)) \in Int
<1> DEFINE I == {i \in 1 .. Len(stops) : Boards(stops[i], cut)}
           i == SelectInSeq(stops, LAMBDA t : Boards(t, cut))
           s == FirstBoarded(stops, cut)
<1>1. i = (IF I # {} THEN Min(I) ELSE 0) /\ s = IF i = 0 THEN None ELSE stops[i]
  BY DEF SelectInSeq, First, FirstBoarded
<1>2. I \in SUBSET Nat /\ Len(stops) \in Nat
  OBVIOUS
<1> HIDE DEF i, s
<1>3. I # {} /\ i = Min(I) /\ s = stops[i]
  BY <1>1 DEF s
<1>4. \E l \in I : \A j \in I : l <= j
  <2> HIDE DEF I
  <2> QED BY <1>2, <1>3, LeastIndex
<1>5. i \in I
  <2> HIDE DEF I
  <2> QED BY <1>3, <1>4 DEF Min
<1>6. s \in RealtimeStop /\ Boards(s, cut)
  BY <1>3, <1>5
<1>7. s.arr \in Maybe /\ s.dep \in Maybe
  BY <1>6 DEF RealtimeStop, Maybe
<1>8. s.arr # None \/ s.dep # None
  BY <1>6 DEF Boards, Or
<1>9. Or(s.arr, s.dep) \in Int /\ Or(s.dep, s.arr) \in Int
  BY <1>7, <1>8 DEF Or, Maybe
<1> QED BY <1>9 DEF Later, s

\* The entries of the board that are added are trains the feed adds.
LEMMA EntriesOf ==
    ASSUME plan \in Plans, NEW snapshot \in Snapshot \cup {None}, NEW cut,
           NEW entry \in AddedEntries(Hashes(snapshot).addedTrips, cut)
    PROVE  entry \in Entry /\ FedOn(entry.line, snapshot)
<1> DEFINE extra == Hashes(snapshot).addedTrips
           At(trip) == FirstBoarded(trip.stops, cut)
<1>1. snapshot # None
  <2>1. CASE snapshot = None
    <3>1. DOMAIN extra = {}
      BY <2>1 DEF Hashes
    <3> HIDE DEF extra
    <3>2. AddedEntries(extra, cut) = {}
      BY <3>1 DEF AddedEntries
    <3> QED BY <3>2 DEF extra
  <2> QED BY <2>1
<1>2. plan \in [Run -> Plan] /\ snapshot \in Snapshot
  BY <1>1, PlansAssumption
<1>3. PICK trip \in {extra[f] : f \in DOMAIN extra} :
         /\ At(trip) # None
         /\ entry = [trip   |-> trip.trip,
                     line   |-> trip.line,
                     time   |-> Or(At(trip).arr, At(trip).dep),
                     leaves |-> Later(Or(At(trip).dep, At(trip).arr), Or(At(trip).arr, At(trip).dep))]
  <2> HIDE DEF extra
  <2> QED BY DEF AddedEntries, FirstBoarded, extra
<1>4. PICK q \in Run : IsAdded(q, snapshot) /\ trip = Kept(q, snapshot)
  <2>1. \A f \in DOMAIN extra : \E q \in Run : IsAdded(q, snapshot) /\ extra[f] = Kept(q, snapshot)
    BY <1>2, HashesOf
  <2> HIDE DEF extra
  <2> QED BY <1>3, <2>1
<1>5. /\ plan[q].style = "added" \/ (plan[q].style \in {"renamed", "copy"} /\ snapshot.known)
      /\ Listed(q, snapshot)
      /\ trip.line = Line[Trip[q]] /\ trip.trip \in Int /\ trip.stops \in Seq(RealtimeStop)
  BY <1>2, <1>4, AddedTrains
<1>6. /\ Or(At(trip).arr, At(trip).dep) \in Int
      /\ Later(Or(At(trip).dep, At(trip).arr), Or(At(trip).arr, At(trip).dep)) \in Int
  BY <1>3, <1>5, BoardedStop
<1> HIDE DEF At
<1>7. entry \in Entry
  BY <1>3, <1>5, <1>6 DEF Entry, Lines
<1>8. entry.line = Line[Trip[q]]
  BY <1>3, <1>5
<1> QED BY <1>5, <1>7, <1>8 DEF FedOn
\* The field of a copy has four parts, the last of them its start.
LEMMA JoinedPairs ==
    ASSUME NEW S, NEW s \in Seq(S), NEW t \in Seq(S), Len(s) = 2, Len(t) = 2
    PROVE  Len(s \o t) = 4 /\ (s \o t)[4] = t[2]
<1>5. Len(s \o t) = Len(s) + Len(t)
  BY ConcatProperties
<1>1. Len(s \o t) = 4
  BY <1>5
<1>6. \A i \in 1 .. Len(s) + Len(t) : (s \o t)[i] = IF i <= Len(s) THEN s[i] ELSE t[i - Len(s)]
  BY ConcatProperties, Zenon
<1>2. \A i \in 1 .. 4 : (s \o t)[i] = IF i <= 2 THEN s[i] ELSE t[i - 2]
  <2> DEFINE n == Len(s)
             m == Len(t)
             st == s \o t
  <2>1. n = 2 /\ m = 2
    OBVIOUS
  <2>2. \A i \in 1 .. n + m : st[i] = IF i <= n THEN s[i] ELSE t[i - n]
    BY <1>6
  <2> HIDE DEF n, m, st
  <2>3. n + m = 4
    BY <2>1
  <2>4. \A i \in 1 .. 4 : st[i] = IF i <= 2 THEN s[i] ELSE t[i - 2]
    BY <2>1, <2>2, <2>3, Zenon
  <2> QED BY <2>4 DEF st
<1>3. 4 \in 1 .. 4 /\ 4 - 2 = 2 /\ ~(4 <= 2)
  OBVIOUS
<1>4. (s \o t)[4] = t[4 - 2]
  BY <1>2, <1>3
<1> QED BY <1>1, <1>3, <1>4

LEMMA Joined ==
    ASSUME NEW a, NEW b, NEW c, NEW d
    PROVE  LET f == <<a, b>> \o <<c, d>> IN Len(f) = 4 /\ f[4] = d
<1> DEFINE S == {a, b, c, d}
           s == <<a, b>>
           t == <<c, d>>
<1>0. a \in S /\ b \in S /\ c \in S /\ d \in S
  OBVIOUS
<1> HIDE DEF S
<1>1. s \in Seq(S) /\ t \in Seq(S)
  BY <1>0
<1>2. Len(s) = 2 /\ Len(t) = 2 /\ t[2] = d
  OBVIOUS
<1> HIDE DEF s, t
<1>3. Len(s \o t) = 4 /\ (s \o t)[4] = t[2]
  BY <1>1, <1>2, JoinedPairs
<1> QED BY <1>2, <1>3 DEF s, t
\* Which entity a field of the hash of added trips is, and whose.
LEMMA AddedField ==
    ASSUME plan \in Plans, NEW snapshot \in Snapshot,
           NEW q \in Run, IsAdded(q, snapshot), NEW s \in Run, IsAdded(s, snapshot),
           Field(EntityAt(q, snapshot)) = Field(EntityAt(s, snapshot))
    PROVE  q = s
<1>1. plan \in [Run -> Plan]
  BY PlansAssumption
<1>2. ASSUME NEW r \in Run, IsAdded(r, snapshot)
      PROVE  LET f == Field(EntityAt(r, snapshot))
             IN  /\ plan[r].style = "copy" => Len(f) = 4 /\ f[4] = r
                 /\ plan[r].style # "copy" => Len(f) = 2 /\ f[1] = NewId[r]
  <2> DEFINE e == Entity(plan, r, snapshot.at)
             pair == <<e.trip, e.date>>
  <2>1. plan[r].style \in {"added", "renamed", "copy"}
    BY <1>2, AddedTrains
  <2>2. /\ e.trip = IF plan[r].style \in {"added", "renamed"} THEN NewId[r] ELSE Trip[r]
        /\ e.date = Date[r]
        /\ e.start = r
        /\ e.rel = "DUPLICATED" <=> plan[r].style = "copy"
    BY <1>1, <2>1, EntityOf
  <2>3. Date[r] # None
    BY TrainsAssumption
  <2> HIDE DEF e
  <2>4. tripRealtimeField(e.trip, e.date) = pair
    BY <2>2, <2>3 DEF tripRealtimeField
  <2>5. Len(pair) = 2 /\ pair[1] = e.trip
    OBVIOUS
  <2>6. LET f == pair \o <<None, e.start>> IN Len(f) = 4 /\ f[4] = e.start
    BY Joined
  <2>7. Field(e) = IF plan[r].style = "copy" THEN pair \o <<None, e.start>> ELSE pair
    BY <2>2, <2>4 DEF Field
  <2> HIDE DEF pair
  <2>8. /\ plan[r].style = "copy" => Len(Field(e)) = 4 /\ Field(e)[4] = r
        /\ plan[r].style # "copy" => Len(Field(e)) = 2 /\ Field(e)[1] = NewId[r]
    BY <2>1, <2>2, <2>5, <2>6, <2>7
  <2> QED BY <2>8 DEF e, EntityAt
<1>3. CASE plan[q].style = "copy" \/ plan[s].style = "copy"
  BY <1>2, <1>3
<1>4. CASE plan[q].style # "copy" /\ plan[s].style # "copy"
  <2>1. NewId[q] = NewId[s]
    BY <1>2, <1>4
  <2> QED BY <2>1, TrainsAssumption
<1> QED BY <1>3, <1>4

\* The added trips in Redis are those of the trains that are added.
LEMMA AddedHash ==
    ASSUME plan \in Plans, NEW snapshot \in Snapshot
    PROVE  LET extra == Hashes(snapshot).addedTrips
           IN  {extra[f] : f \in DOMAIN extra} =
                  {Kept(q, snapshot) : q \in {r \in Run : IsAdded(r, snapshot)}}
<1> DEFINE extra == Hashes(snapshot).addedTrips
<1>1. plan \in [Run -> Plan]
  BY PlansAssumption
<1>2. /\ \A f \in DOMAIN extra :
            \E q \in Run : /\ IsAdded(q, snapshot)
                           /\ f = Field(EntityAt(q, snapshot))
                           /\ extra[f] = Kept(q, snapshot)
      /\ \A q \in Run : IsAdded(q, snapshot) => Field(EntityAt(q, snapshot)) \in DOMAIN extra
  BY <1>1, HashesOf
<1> HIDE DEF extra
<1>3. ASSUME NEW q \in Run, IsAdded(q, snapshot)
      PROVE  \E f \in DOMAIN extra : extra[f] = Kept(q, snapshot)
  <2> DEFINE f == Field(EntityAt(q, snapshot))
  <2>1. f \in DOMAIN extra
    BY <1>2, <1>3
  <2>2. PICK s \in Run : /\ IsAdded(s, snapshot)
                         /\ f = Field(EntityAt(s, snapshot))
                         /\ extra[f] = Kept(s, snapshot)
    BY <1>2, <2>1
  <2>3. q = s
    BY <1>3, <2>2, AddedField
  <2> HIDE DEF f
  <2> QED BY <2>1, <2>2, <2>3
<1>4. {extra[f] : f \in DOMAIN extra} = {Kept(q, snapshot) : q \in {r \in Run : IsAdded(r, snapshot)}}
  BY <1>2, <1>3
<1> QED BY <1>4 DEF extra

\* A train is added when it is published as one that static GTFS does not have.
LEMMA AddedWhen ==
    ASSUME plan \in Plans, NEW q \in Run, NEW snapshot \in Snapshot
    PROVE  IsAdded(q, snapshot) <=>
              /\ Listed(q, snapshot)
              /\ plan[q].style = "added" \/ (plan[q].style \in {"renamed", "copy"} /\ snapshot.known)
<1> DEFINE e == Entity(plan, q, snapshot.at)
           style == plan[q].style
<1>1. plan \in [Run -> Plan] /\ snapshot # None
  BY PlansAssumption, SnapshotAssumption
<1>2. ASSUME Listed(q, snapshot), style = "added" \/ (style \in {"renamed", "copy"} /\ snapshot.known)
      PROVE  IsAdded(q, snapshot)
  <2>1. InFeed(q, snapshot) /\ style # "canceled"
    BY <1>1, <1>2 DEF Listed, InFeed
  <2>2. /\ e.trip = IF style \in {"added", "renamed"} THEN NewId[q] ELSE Trip[q]
        /\ e.line = IF style = "copy" THEN None ELSE Line[Trip[q]]
        /\ e.rel = "DUPLICATED" <=> style = "copy"
    BY <1>1, EntityOf
  <2>3. Added(e, Lookup(snapshot)) <=>
           style \in {"copy", "added"} \/ (snapshot.known /\ e.trip \notin {Trip[p] : p \in InService})
    BY <1>1, AddedRun
  <2> HIDE DEF e
  <2>4. NewId[q] \notin {Trip[p] : p \in InService} /\ Line[Trip[q]] # None
    BY TrainsAssumption
  <2>5. Added(e, Lookup(snapshot))
    BY <1>2, <2>2, <2>3, <2>4
  <2>6. LineOf(e, Lookup(snapshot)) # None
    <3>1. CASE style = "copy"
      <4>1. snapshot.known /\ e.trip \in DOMAIN StaticTrips /\ e.trip = Trip[q]
        BY <1>2, <2>2, <3>1, PlansAssumption
      <4>2. Lookup(snapshot) = StaticTrips /\ StaticTrips # None
        BY <4>1, NoneAssumption DEF Lookup
      <4>3. StaticTrips[Trip[q]] = Line[Trip[q]]
        BY <4>1 DEF StaticTrips
      <4> QED BY <2>2, <2>4, <3>1, <4>1, <4>2, <4>3 DEF LineOf, InStatic
    <3>2. CASE style # "copy"
      BY <2>2, <2>4, <3>2 DEF LineOf
    <3> QED BY <3>1, <3>2
  <2> QED BY <2>1, <2>5, <2>6 DEF IsAdded, EntityAt, e
<1> HIDE DEF style
<1>3. IsAdded(q, snapshot) =>
         /\ Listed(q, snapshot)
         /\ plan[q].style = "added" \/ (plan[q].style \in {"renamed", "copy"} /\ snapshot.known)
  BY AddedTrains
<1> QED BY <1>2, <1>3 DEF style
----------------------------------------------------------------------------
\* The invariant: what the steps of a request leave to the next ones.
Merged == mergeRealtime(rows, Hashes(trips).tripUpdates)

Entries == AddedEntries(Hashes(added).addedTrips, cutoff)

Free(a) == ~a.realtime /\ ~a.passed /\ a.status = "scheduled"

\* What an arrival comes from.
Origin(a) ==
    \/ a \in Merged
    \/ \E slot \in Merged, entry \in Entries : Free(slot) /\ a = TakeOver(slot, entry)
    \/ \E entry \in Entries : a = Extra(entry)

\* An added train was not given a slot only because none was near,
FarFromFree ==
    \A a, slot \in arrivals :
        a.status = "added" /\ a.line \in Subway /\ Free(slot) /\ slot.line = a.line
            => Distance(a.time, slot.sched) > ReconcileWindow

\* and a row is gone only because one took it.
TakenByAdded == \A m \in Merged : m \in arrivals \/ (m.line \in Subway /\ FedOn(m.line, added))

Reconciled == (\A a \in arrivals : Origin(a)) /\ FarFromFree /\ TakenByAdded

Typed ==
    /\ plan \in Plans
    /\ now \in 0 .. Horizon
    /\ {redis, trips, added} \subseteq {s \in Snapshot : s.at <= now} \cup {None}
    /\ pc \in {"idle", "trips", "added", "merge", "done"}
    /\ nearby \in BOOLEAN
    /\ cutoff \in Int
    /\ rows \subseteq Visits

InOrder ==
    /\ pc # "merge" => pending = {}
    /\ pending \subseteq Entries
    /\ pc \notin {"merge", "done"} => arrivals = {}
    /\ pc # "done" => board = {}
    /\ IsFiniteSet(arrivals)
    /\ pc \in {"merge", "done"} => Reconciled
    /\ pc = "done" => board \in selectUpcoming(arrivals, cutoff, cappedLimit)

IInv == Typed /\ InOrder
----------------------------------------------------------------------------
\* Finite sets.
LEMMA FiniteImage ==
    ASSUME NEW S, IsFiniteSet(S), NEW f, DOMAIN f = S
    PROVE  IsFiniteSet({f[x] : x \in S})
<1> DEFINE T == {f[x] : x \in S}
           g == [x \in S |-> f[x]]
<1>1. g \in Surjection(S, T)
  BY DEF Surjection
<1> HIDE DEF g, T
<1>2. IsFiniteSet(T)
  BY <1>1, FS_Surjection
<1> QED BY <1>2 DEF T

LEMMA LeastOf ==
    ASSUME NEW S \in SUBSET Int, IsFiniteSet(S), S # {}
    PROVE  \E x \in S : \A y \in S : x <= y
<1> DEFINE Below(x) == {y \in S : y < x}
           counts == {Cardinality(Below(x)) : x \in S}
<1>1. \A x \in S : IsFiniteSet(Below(x)) /\ Cardinality(Below(x)) \in Nat
  <2>1. ASSUME NEW x \in S PROVE IsFiniteSet(Below(x)) /\ Cardinality(Below(x)) \in Nat
    <3>1. Below(x) \in SUBSET S
      OBVIOUS
    <3> HIDE DEF Below
    <3>2. IsFiniteSet(Below(x))
      BY <3>1, FS_Subset
    <3> QED BY <3>2, FS_CardinalityType
  <2> QED BY <2>1
<1>2. counts \in SUBSET Nat /\ counts # {}
  <2> HIDE DEF Below
  <2> QED BY <1>1
<1>3. \E c \in counts : \A d \in counts : c <= d
  <2> HIDE DEF counts
  <2> QED BY <1>2, LeastIndex
<1>4. PICK x \in S : \A y \in S : Cardinality(Below(x)) <= Cardinality(Below(y))
  <2> HIDE DEF Below
  <2> QED BY <1>3
<1>5. ASSUME NEW y \in S, y < x PROVE FALSE
  <2>1. Below(y) \in SUBSET Below(x) /\ y \in Below(x) /\ y \notin Below(y)
    <3>1. x \in Int /\ y \in Int /\ \A z \in S : z \in Int
      BY <1>4, <1>5
    <3>2. \A z \in S : z < y => z < x
      BY <1>5, <3>1
    <3>3. ~(y < y)
      BY <3>1
    <3> QED BY <1>5, <3>2, <3>3
  <2>2. Cardinality(Below(x)) <= Cardinality(Below(y))
    BY <1>4
  <2> HIDE DEF Below
  <2>3. Cardinality(Below(y)) <= Cardinality(Below(x))
    BY <1>1, <2>1, FS_Subset
  <2>4. Cardinality(Below(y)) = Cardinality(Below(x))
    BY <1>1, <2>2, <2>3
  <2>5. Below(y) = Below(x)
    BY <1>1, <2>1, <2>4, FS_Subset
  <2> QED BY <2>1, <2>5
<1>6. \A y \in S : x <= y
  BY <1>5
<1> QED BY <1>6

\* The visits are finitely many.
LEMMA VisitsFinite == IsFiniteSet(Visits)
<1> DEFINE f == [r \in InService |-> {Row(r, k) : k \in AtBoard(r)}]
<1>1. IsFiniteSet(InService)
  BY TrainsAssumption, FS_Subset
<1>2. IsFiniteSet({f[r] : r \in InService})
  <2>1. DOMAIN f = InService
    OBVIOUS
  <2> HIDE DEF f
  <2> QED BY <1>1, <2>1, FiniteImage
<1>3. ASSUME NEW r \in InService PROVE IsFiniteSet(f[r])
  <2> DEFINE g == [k \in AtBoard(r) |-> Row(r, k)]
  <2>1. IsFiniteSet(AtBoard(r))
    <3>1. Stops(r) \in Seq(StopTime)
      BY TrainsAssumption
    <3>2. Len(Stops(r)) \in Nat /\ AtBoard(r) \in SUBSET (1 .. Len(Stops(r)))
      BY <3>1 DEF AtBoard
    <3>3. IsFiniteSet(1 .. Len(Stops(r)))
      BY <3>2, FS_Interval
    <3> QED BY <3>2, <3>3, FS_Subset
  <2>2. DOMAIN g = AtBoard(r) /\ {g[k] : k \in AtBoard(r)} = {Row(r, k) : k \in AtBoard(r)}
    OBVIOUS
  <2> HIDE DEF g
  <2>3. IsFiniteSet({g[k] : k \in AtBoard(r)})
    BY <2>1, <2>2, FiniteImage
  <2> QED BY <2>2, <2>3
<1>4. Visits = UNION {f[r] : r \in InService}
  BY DEF Visits
<1> HIDE DEF f
<1> QED BY <1>2, <1>3, <1>4, FS_UNION

\* So are the merged rows.
LEMMA MergedFinite == ASSUME rows \subseteq Visits PROVE IsFiniteSet(Merged)
<1> DEFINE updates == Hashes(trips).tripUpdates
           f == [row \in rows |-> mergeRow(row, updates)]
<1>1. IsFiniteSet(rows)
  BY VisitsFinite, FS_Subset
<1> HIDE DEF updates
<1>2. Merged = {f[row] : row \in rows} /\ DOMAIN f = rows
  BY DEF Merged, mergeRealtime, updates
<1> HIDE DEF f
<1> QED BY <1>1, <1>2, FiniteImage

\* What arrivals come from.
LEMMA MergedMember ==
    ASSUME Typed, NEW m \in Merged
    PROVE  \E r \in InService : \E k \in AtBoard(r) :
              /\ Row(r, k) \in rows
              /\ m = mergeRow(Row(r, k), Hashes(trips).tripUpdates)
              /\ RowOf(r, m)
<1>1. PICK row \in rows : m = mergeRow(row, Hashes(trips).tripUpdates)
  BY DEF Merged, mergeRealtime
<1>2. PICK r \in InService : \E k \in AtBoard(r) : row = Row(r, k)
  BY DEF Typed, Visits
<1>3. PICK k \in AtBoard(r) : row = Row(r, k)
  BY <1>2
<1>4. plan \in Plans /\ trips \in Snapshot \cup {None}
  BY DEF Typed
<1>5. RowOf(r, mergeRow(Row(r, k), Hashes(trips).tripUpdates))
  BY <1>4, MergedArrival
<1> QED BY <1>1, <1>3, <1>5

\* An entry is typed, and of a train of its line.
LEMMA EntryOf ==
    ASSUME Typed, NEW entry \in Entries
    PROVE  entry \in Entry /\ FedOn(entry.line, added)
<1>1. plan \in Plans /\ added \in Snapshot \cup {None}
  BY DEF Typed
<1> QED BY <1>1, EntriesOf DEF Entries

\* A slot that is taken over stays a row of its trip.
LEMMA TakenOver ==
    ASSUME NEW r, NEW slot, RowOf(r, slot), NEW entry \in Entry
    PROVE  LET a == TakeOver(slot, entry)
           IN  RowOf(r, a) /\ a.realtime = TRUE /\ a.status = "predicted"
<1> DEFINE delay == entry.time - slot.sched
           a == applyPrediction(slot, entry.time, delay, entry.leaves)
<1>1. slot \in Arrival /\ slot.sched \in Int /\ entry.time \in Int /\ entry.leaves \in Int
  BY DEF RowOf, Entry
<1>2. delay \in Int /\ delay # None
  BY <1>1, NoneAssumption
<1>7. delay \in Maybe
  BY <1>2 DEF Maybe
<1>3. TakeOver(slot, entry) = a
  BY DEF TakeOver
<1> HIDE DEF delay
<1>4. RowOf(r, a)
  BY <1>1, <1>2, PredictedArrival
<1>5. a.realtime = TRUE
  BY <1>1, <1>7, PredictionGives
<1>6. a.status = "predicted"
  BY <1>1, <1>2, PredictionStatus
<1> HIDE DEF a
<1> QED BY <1>3, <1>4, <1>5, <1>6

\* An extra is what its entry says.
LEMMA ExtraOf ==
    ASSUME NEW entry \in Entry
    PROVE  LET a == Extra(entry)
           IN  /\ a \in Arrival
               /\ a.trip = entry.trip /\ a.date = None /\ a.line = entry.line
               /\ a.time = entry.time /\ a.realtime = TRUE /\ a.status = "added"
<1> DEFINE bare == [trip |-> entry.trip, date |-> None, line |-> entry.line, pickup |-> TRUE,
                    sched |-> None, time |-> entry.time, leaves |-> entry.leaves,
                    delay |-> None, realtime |-> FALSE, status |-> "added", passed |-> FALSE]
           a == applyPrediction(bare, entry.time, None, entry.leaves)
<1>1. /\ entry.trip \in Int /\ entry.line \in Lines /\ entry.time \in Int /\ entry.leaves \in Int
      /\ None \in Maybe
  BY DEF Entry, Maybe
<1>2. bare \in Arrival
  BY <1>1 DEF Arrival, Dates
<1>3. bare.trip = entry.trip /\ bare.date = None /\ bare.line = entry.line
  OBVIOUS
<1>4. Extra(entry) = a
  BY DEF Extra
<1> HIDE DEF bare
<1>5. a.trip = bare.trip /\ a.date = bare.date /\ a.line = bare.line
  BY <1>2, PredictionKeeps
<1>6. a \in Arrival /\ a.time = entry.time /\ a.realtime = TRUE
  <2>1. entry.time \in Int /\ entry.leaves \in Int /\ None \in Maybe
    BY <1>1
  <2>2. a \in Arrival
    BY <1>2, <2>1, PredictionGives
  <2>3. a.time = entry.time
    BY <1>2, <2>1, PredictionGives
  <2>4. a.realtime = TRUE
    BY <1>2, <2>1, PredictionGives
  <2> QED BY <2>2, <2>3, <2>4
<1>7. a.status = "added"
  BY <1>2, PredictionStatus
<1> HIDE DEF a
<1> QED BY <1>3, <1>4, <1>5, <1>6, <1>7

\* A reader of the board need not know which of the three it is.
LEMMA OriginOf ==
    ASSUME Typed, NEW a, Origin(a)
    PROVE  /\ a \in Arrival
           /\ \/ \E r \in InService : RowOf(r, a)
              \/ \E entry \in Entries : a = Extra(entry)
           /\ a.status = "added" => \E entry \in Entries : a = Extra(entry)
<1>1. CASE a \in Merged
  <2>1. PICK r \in InService : RowOf(r, a)
    BY <1>1, MergedMember
  <2> QED BY <2>1 DEF RowOf
<1>2. CASE \E slot \in Merged, entry \in Entries : Free(slot) /\ a = TakeOver(slot, entry)
  <2>1. PICK slot \in Merged, entry \in Entries : a = TakeOver(slot, entry)
    BY <1>2
  <2>2. PICK r \in InService : RowOf(r, slot)
    BY MergedMember
  <2>3. entry \in Entry
    BY EntryOf
  <2>4. RowOf(r, a)
    BY <2>1, <2>2, <2>3, TakenOver
  <2> QED BY <2>4 DEF RowOf
<1>3. CASE \E entry \in Entries : a = Extra(entry)
  <2>1. PICK entry \in Entries : a = Extra(entry)
    BY <1>3
  <2>2. entry \in Entry
    BY EntryOf
  <2>3. a \in Arrival
    BY <2>1, <2>2, ExtraOf
  <2> QED BY <1>3, <2>3
<1> QED BY <1>1, <1>2, <1>3 DEF Origin
----------------------------------------------------------------------------
\* What a query finds are visits, however it is cut.
LEMMA BoardRows ==
    ASSUME NEW from, NEW cut, NEW found \in ScheduledRows(from, cut)
    PROVE  found \subseteq Visits
<1>1. PICK upcoming \in FirstRows(UpcomingRows(from, cut), 3 * Limit) :
         found = LateRows(from, cut) \cup upcoming
  BY DEF ScheduledRows
<1>2. upcoming \subseteq UpcomingRows(from, cut)
  BY <1>1 DEF FirstRows
<1> QED BY <1>1, <1>2 DEF LateRows, UpcomingRows

LEMMA PlatformRows ==
    ASSUME NEW from, NEW cut, NEW found \in NearbyRows(from, cut)
    PROVE  found \subseteq Visits
<1>1. found \subseteq LateRows(from, cut) \cup UpcomingRows(from, cut)
  BY DEF NearbyRows
<1> QED BY <1>1 DEF LateRows, UpcomingRows

\* The steps.
LEMMA TypedInductive == ASSUME Typed, [Next]_vars PROVE Typed'
<1> USE DEF Typed, Snapshot
<1>1. CASE UNCHANGED vars
  BY <1>1 DEF vars, request
<1>2. ASSUME NEW known \in BOOLEAN, Publish(known) PROVE Typed'
  <2>1. redis' = [at |-> now, known |-> known] /\ UNCHANGED <<plan, now, request>>
    BY <1>2 DEF Publish
  <2>2. now \in Nat /\ now <= now
    BY ArrivalsAssumption
  <2>3. [at |-> now, known |-> known] \in {s \in Snapshot : s.at <= now}
    BY <2>2
  <2> QED BY <2>1, <2>3 DEF request
<1>3. CASE Tick
  <2>1. now < Horizon /\ now' = now + 1 /\ redis' \in {redis, None} /\ UNCHANGED <<plan, request>>
    BY <1>3 DEF Tick
  <2>2. now' \in 0 .. Horizon
    BY <2>1, ArrivalsAssumption
  <2>3. \A s \in Snapshot : s.at <= now => s.at <= now'
    BY <2>1, ArrivalsAssumption
  <2>4. {redis', trips', added'} \subseteq {s \in Snapshot : s.at <= now'} \cup {None}
    <3>1. {redis', trips', added'} \subseteq {s \in Snapshot : s.at <= now} \cup {None}
      BY <2>1 DEF request
    <3> QED BY <2>3, <3>1
  <2> QED BY <2>1, <2>2, <2>4 DEF request
<1>4. ASSUME NEW after \in After, Request(after) PROVE Typed'
  <2>1. /\ cutoff' = Or(after, now - Grace) /\ pc' = "trips"
        /\ rows' \in ScheduledRows(Or(after, now - LateWindow), cutoff')
        /\ nearby' = FALSE
        /\ UNCHANGED <<plan, now, redis, trips, added>>
    BY <1>4 DEF Request
  <2>2. cutoff' \in Int
    <3>1. after \in Int \cup {None} /\ now - Grace \in Int
      BY ArrivalsAssumption
    <3> QED BY <2>1, <3>1 DEF Or
  <2>3. rows' \subseteq Visits
    BY <2>1, BoardRows
  <2>4. Visits' = Visits
    BY DEF Visits, Row, AtBoard
  <2> QED BY <2>1, <2>2, <2>3, <2>4
<1>10. CASE NearbyRequest
  <2>1. /\ cutoff' = now - Grace /\ pc' = "trips"
        /\ rows' \in NearbyRows(now - LateWindow, cutoff')
        /\ nearby' = TRUE
        /\ UNCHANGED <<plan, now, redis, trips, added>>
    BY <1>10 DEF NearbyRequest
  <2>2. cutoff' \in Int
    BY <2>1, ArrivalsAssumption
  <2>3. rows' \subseteq Visits
    BY <2>1, PlatformRows
  <2>4. Visits' = Visits
    BY DEF Visits, Row, AtBoard
  <2> QED BY <2>1, <2>2, <2>3, <2>4
<1>5. CASE ReadTrips
  BY <1>5 DEF ReadTrips
<1>6. CASE ReadAdded
  BY <1>6 DEF ReadAdded
<1>7. ASSUME NEW entry \in pending, Reconcile(entry) PROVE Typed'
  BY <1>7 DEF Reconcile
<1>8. CASE Respond
  BY <1>8 DEF Respond
<1>9. CASE End
  <2>1. nearby' \in BOOLEAN
    BY <1>9 DEF End
  <2>2. /\ UNCHANGED <<plan, now, redis>> /\ pc' = "idle" /\ cutoff' = 0 /\ rows' = {}
        /\ trips' = None /\ added' = None
    BY <1>9 DEF End
  <2>3. /\ plan' \in Plans /\ now' \in 0 .. Horizon /\ cutoff' \in Int /\ rows' \subseteq Visits'
        /\ {redis', trips', added'} \subseteq {t \in Snapshot : t.at <= now'} \cup {None}
        /\ pc' \in {"idle", "trips", "added", "merge", "done"}
    BY <2>2
  <2> QED BY <2>1, <2>3
<1> QED BY <1>1, <1>2, <1>3, <1>4, <1>5, <1>6, <1>7, <1>8, <1>9, <1>10 DEF Next

\* Until the hashes are read there is nothing.
LEMMA Nothing ==
    ASSUME pc' \notin {"merge", "done"}, pending' = {}, arrivals' = {}, board' = {}
    PROVE  InOrder'
BY FS_EmptySet DEF InOrder

\* The reads begin the merge.
LEMMA WhatIsRead ==
    ASSUME ReadAdded
    PROVE  /\ arrivals' = mergeRealtime(rows, Hashes(trips).tripUpdates)
           /\ pending' = AddedEntries(Hashes(added').addedTrips, cutoff)
           /\ plan' = plan /\ rows' = rows /\ trips' = trips /\ cutoff' = cutoff
<1>1. /\ arrivals' = mergeRealtime(rows, Hashes(trips).tripUpdates)
      /\ plan' = plan /\ rows' = rows /\ trips' = trips /\ cutoff' = cutoff
  BY DEF ReadAdded
<1>2. pending' = AddedEntries(Hashes(added').addedTrips, cutoff)
  BY DEF ReadAdded, PendingAdded, Hashes
<1> QED BY <1>1, <1>2

\* The merge has no added trips yet.
LEMMA ReadAddedStep == ASSUME Typed, Typed', InOrder, ReadAdded PROVE InOrder'
<1>1. /\ pc = "added" /\ pc' = "merge" /\ board' = {}
      /\ arrivals' = mergeRealtime(rows, Hashes(trips).tripUpdates)
      /\ pending' = AddedEntries(Hashes(added').addedTrips, cutoff)
      /\ plan' = plan /\ rows' = rows /\ trips' = trips /\ cutoff' = cutoff
  BY WhatIsRead DEF ReadAdded, InOrder
<1>2. Merged' = Merged /\ Merged = arrivals' /\ pending' = Entries'
  BY <1>1 DEF Merged, Entries, Hashes
<1>3. IsFiniteSet(arrivals')
  BY <1>2, MergedFinite DEF Typed
<1>4. \A a \in arrivals' : Origin(a)'
  BY <1>2 DEF Origin
<1>5. \A a \in arrivals' : a.status # "added"
  <2>1. ASSUME NEW a \in Merged PROVE a.status # "added"
    BY MergedMember DEF RowOf
  <2> QED BY <1>2, <2>1
<1>6. FarFromFree' /\ TakenByAdded'
  BY <1>2, <1>5 DEF FarFromFree, TakenByAdded
<1> QED BY <1>1, <1>2, <1>3, <1>4, <1>6 DEF InOrder, Reconciled

\* An added trip takes a free slot near it, and is an extra one if there is none.
LEMMA ReconcileStep ==
    ASSUME Typed, Typed', InOrder, NEW entry \in pending, Reconcile(entry)
    PROVE  InOrder'
<1> DEFINE slots == Slots(arrivals, entry)
<1>1. /\ pc = "merge" /\ pc' = "merge" /\ board' = {}
      /\ pending' \subseteq pending /\ entry \in Entries
      /\ plan' = plan /\ rows' = rows /\ trips' = trips /\ added' = added /\ cutoff' = cutoff
  BY DEF Reconcile, InOrder
<1>2. /\ Merged' = Merged /\ Entries' = Entries /\ \A line : FedOn(line, added)' = FedOn(line, added)
  BY <1>1 DEF Merged, Entries, Hashes, FedOn, Listed
<1>3. Reconciled /\ IsFiniteSet(arrivals) /\ pending \subseteq Entries
  BY <1>1 DEF InOrder
<1>4. entry \in Entry /\ FedOn(entry.line, added)
  BY <1>1, EntryOf
<1>5. \A a : Origin(a)' = Origin(a)
  BY <1>2 DEF Origin
<1>6. ReconcileWindow \in Nat
  BY ArrivalsAssumption
<1>7. CASE slots = {}
  <2>1. arrivals' = arrivals \cup {Extra(entry)}
    BY <1>7 DEF Reconcile
  <2>2. IsFiniteSet(arrivals')
    BY <1>3, <2>1, FS_AddElement
  <2>3. \A a \in arrivals' : Origin(a)'
    BY <1>1, <1>3, <1>5, <2>1 DEF Reconciled, Origin
  <2>4. /\ Extra(entry).line = entry.line /\ Extra(entry).time = entry.time
        /\ Extra(entry).status = "added"
    BY <1>4, ExtraOf
  <2>5. FarFromFree'
    <3>1. ASSUME NEW slot \in arrivals, Free(slot), slot.line = entry.line, entry.line \in Subway
          PROVE  Distance(entry.time, slot.sched) > ReconcileWindow
      <4>1. ~(Distance(entry.time, slot.sched) <= ReconcileWindow)
        BY <1>7, <3>1 DEF Slots, Free
      <4>2. slot.sched \in Int
        <5>1. Origin(slot)
          BY <1>3 DEF Reconciled
        <5>2. \A e \in Entries : Extra(e).status = "added"
          BY EntryOf, ExtraOf
        <5>3. PICK r \in InService : RowOf(r, slot)
          BY <3>1, <5>1, <5>2, OriginOf DEF Free
        <5> QED BY <5>3 DEF RowOf
      <4>3. Distance(entry.time, slot.sched) \in Int
        BY <1>4, <4>2 DEF Entry, Distance
      <4> QED BY <1>6, <4>1, <4>3
    <3>2. ASSUME NEW a \in arrivals', NEW slot \in arrivals', a.status = "added", a.line \in Subway,
                 Free(slot), slot.line = a.line
          PROVE  Distance(a.time, slot.sched) > ReconcileWindow
      <4>1. slot \in arrivals
        BY <2>1, <2>4, <3>2 DEF Free
      <4>2. CASE a \in arrivals
        BY <1>3, <3>2, <4>1, <4>2 DEF Reconciled, FarFromFree
      <4>3. CASE a = Extra(entry)
        BY <2>4, <3>1, <3>2, <4>1, <4>3
      <4> QED BY <2>1, <4>2, <4>3
    <3> QED BY <3>2 DEF FarFromFree, Free
  <2>6. TakenByAdded'
    BY <1>2, <1>3, <2>1 DEF TakenByAdded, Reconciled
  <2> QED BY <1>1, <1>2, <1>3, <2>2, <2>3, <2>5, <2>6 DEF InOrder, Reconciled
<1>8. CASE slots # {}
  <2>1. PICK slot \in slots : arrivals' = (arrivals \ {slot}) \cup {TakeOver(slot, entry)}
    BY <1>8 DEF Reconcile, Closest, Nearest
  <2>2. slot \in arrivals /\ Free(slot) /\ slot.line = entry.line /\ entry.line \in Subway
    BY <2>1 DEF Slots, Free
  <2>3. slot \in Merged
    <3>1. Origin(slot)
      BY <1>3, <2>2 DEF Reconciled
    <3>2. \A e \in Entries : Extra(e).status = "added"
      BY EntryOf, ExtraOf
    <3>3. ASSUME NEW m \in Merged, NEW e \in Entries PROVE TakeOver(m, e).status = "predicted"
      BY <3>3, MergedMember, EntryOf, TakenOver
    <3> QED BY <2>2, <3>1, <3>2, <3>3 DEF Origin, Free
  <2>4. TakeOver(slot, entry).status = "predicted"
    BY <1>4, <2>3, MergedMember, TakenOver
  <2>5. IsFiniteSet(arrivals')
    BY <1>3, <2>1, FS_AddElement, FS_RemoveElement
  <2>6. \A a \in arrivals' : Origin(a)'
    BY <1>1, <1>3, <1>5, <2>1, <2>2, <2>3 DEF Reconciled, Origin
  <2>7. FarFromFree'
    <3>1. ASSUME NEW a \in arrivals', NEW b \in arrivals', a.status = "added", a.line \in Subway,
                 Free(b), b.line = a.line
          PROVE  Distance(a.time, b.sched) > ReconcileWindow
      <4>1. a \in arrivals /\ b \in arrivals
        BY <2>1, <2>4, <3>1 DEF Free
      <4> QED BY <1>3, <3>1, <4>1 DEF Reconciled, FarFromFree
    <3> QED BY <3>1 DEF FarFromFree, Free
  <2>8. TakenByAdded'
    <3>1. ASSUME NEW m \in Merged PROVE m \in arrivals' \/ (m.line \in Subway /\ FedOn(m.line, added))
      <4>1. CASE m = slot
        BY <1>4, <2>2, <4>1
      <4>2. CASE m # slot
        BY <1>3, <2>1, <4>2 DEF Reconciled, TakenByAdded
      <4> QED BY <4>1, <4>2
    <3> QED BY <1>2, <3>1 DEF TakenByAdded
  <2> QED BY <1>1, <1>2, <1>3, <2>5, <2>6, <2>7, <2>8 DEF InOrder, Reconciled
<1> QED BY <1>7, <1>8

\* Every step keeps the order of a request.
LEMMA OrderInductive == ASSUME Typed, Typed', InOrder, [Next]_vars PROVE InOrder'
<1>1. CASE UNCHANGED vars
  <2>1. \A line : FedOn(line, added)' = FedOn(line, added)
    BY <1>1 DEF vars, request, FedOn, Listed
  <2>2. Merged' = Merged /\ Entries' = Entries
    BY <1>1 DEF vars, request, Merged, Entries, Hashes
  <2>3. /\ pc' = pc /\ cutoff' = cutoff /\ added' = added
        /\ arrivals' = arrivals /\ pending' = pending /\ board' = board
        /\ cappedLimit' = cappedLimit
    BY <1>1 DEF vars, request, cappedLimit
  <2>4. Reconciled' = Reconciled
    BY <2>1, <2>2, <2>3 DEF Reconciled, Origin, FarFromFree, TakenByAdded, Free
  <2> QED BY <2>2, <2>3, <2>4 DEF InOrder
<1>2. ASSUME NEW known \in BOOLEAN, Publish(known) PROVE InOrder'
  BY <1>2, Nothing DEF Publish, InOrder, request
<1>3. CASE Tick
  BY <1>3, Nothing DEF Tick, InOrder, request
<1>4. ASSUME NEW after \in After, Request(after) PROVE InOrder'
  BY <1>4, Nothing DEF Request, InOrder
<1>5. CASE ReadTrips
  BY <1>5, Nothing DEF ReadTrips, InOrder
<1>6. CASE ReadAdded
  BY <1>6, ReadAddedStep
<1>7. ASSUME NEW entry \in pending, Reconcile(entry) PROVE InOrder'
  BY <1>7, ReconcileStep
<1>8. CASE Respond
  <2>1. /\ pc = "merge" /\ pc' = "done" /\ pending' = {}
        /\ board' \in selectUpcoming(arrivals, cutoff, cappedLimit)
        /\ UNCHANGED <<plan, rows, trips, added, cutoff, arrivals>>
        /\ cappedLimit' = cappedLimit
    BY <1>8 DEF Respond, cappedLimit
  <2>2. \A line : FedOn(line, added)' = FedOn(line, added)
    BY <2>1 DEF FedOn, Listed
  <2>3. Merged' = Merged /\ Entries' = Entries
    BY <2>1 DEF Merged, Entries, Hashes
  <2>4. Reconciled' = Reconciled
    BY <2>1, <2>2, <2>3 DEF Reconciled, Origin, FarFromFree, TakenByAdded, Free
  <2> QED BY <2>1, <2>4 DEF InOrder
<1>9. CASE End
  BY <1>9, Nothing DEF End
<1>10. CASE NearbyRequest
  BY <1>10, Nothing DEF NearbyRequest, InOrder
<1> QED BY <1>1, <1>2, <1>3, <1>4, <1>5, <1>6, <1>7, <1>8, <1>9, <1>10 DEF Next

\* It holds at first.
LEMMA InitIInv == Init => IInv
<1> SUFFICES ASSUME Init PROVE IInv
  OBVIOUS
<1>1. Typed
  <2>1. nearby \in BOOLEAN
    BY DEF Init
  <2>2. /\ plan \in Plans /\ now \in 0 .. Horizon /\ cutoff \in Int /\ rows \subseteq Visits
        /\ {redis, trips, added} \subseteq {t \in Snapshot : t.at <= now} \cup {None}
        /\ pc \in {"idle", "trips", "added", "merge", "done"}
    BY ArrivalsAssumption DEF Init
  <2> QED BY <2>1, <2>2 DEF Typed
<1>2. InOrder
  BY FS_EmptySet DEF Init, InOrder
<1> QED BY <1>1, <1>2 DEF IInv

\* So it is an invariant.
LEMMA Invariance == Spec => []IInv
<1>1. IInv /\ [Next]_vars => IInv'
  BY TypedInductive, OrderInductive DEF IInv
<1> QED BY InitIInv, <1>1, PTL DEF Spec
----------------------------------------------------------------------------
\* A request has a limit of its own.
LEMMA LimitType == cappedLimit \in Nat
BY ArrivalsAssumption DEF cappedLimit

\* What the board shows of the arrivals.
LEMMA NextVisit ==
    ASSUME NEW S \in SUBSET Arrival, IsFiniteSet(S), NEW c \in S
    PROVE  \E v \in S : /\ v = CHOOSE a \in {b \in S : SameTrip(b, c)} :
                                  \A b \in S : SameTrip(b, c) => a.time <= b.time
                        /\ v.trip = c.trip /\ v.date = c.date /\ v.time <= c.time
                        /\ \A b \in S : SameTrip(b, c) => v.time <= b.time
<1> DEFINE same == {b \in S : SameTrip(b, c)}
           f == [b \in same |-> b.time]
           times == {f[b] : b \in same}
<1>1. c \in same /\ same \in SUBSET S
  BY DEF SameTrip
<1>2. IsFiniteSet(same)
  <2> HIDE DEF same
  <2> QED BY <1>1, FS_Subset
<1>3. \A b \in same : b.time \in Int
  BY DEF Arrival
<1> HIDE DEF same
<1>4. DOMAIN f = same /\ times \in SUBSET Int /\ f[c] \in times
  BY <1>1, <1>3
<1>5. IsFiniteSet(times)
  <2> HIDE DEF f
  <2> QED BY <1>2, <1>4, FiniteImage
<1>6. PICK x \in times : \A y \in times : x <= y
  <2> HIDE DEF times
  <2> QED BY <1>4, <1>5, LeastOf
<1>7. PICK e \in same : f[e] = x
  BY <1>6
<1>8. \A b \in same : e.time <= b.time
  BY <1>6, <1>7
<1>9. \E a \in same : \A b \in S : SameTrip(b, c) => a.time <= b.time
  BY <1>7, <1>8 DEF same
<1> DEFINE d == CHOOSE a \in same : \A b \in S : SameTrip(b, c) => a.time <= b.time
<1>10. d \in same /\ \A b \in S : SameTrip(b, c) => d.time <= b.time
  <2> HIDE DEF same
  <2> QED BY <1>9
<1>11. d \in S /\ d.trip = c.trip /\ d.date = c.date /\ d.time <= c.time
  <2> HIDE DEF d
  <2>1. d \in S /\ SameTrip(d, c)
    BY <1>10 DEF same
  <2>2. SameTrip(c, c)
    BY DEF SameTrip
  <2> QED BY <1>10, <2>1, <2>2 DEF SameTrip
<1>12. d = CHOOSE a \in {b \in S : SameTrip(b, c)} : \A b \in S : SameTrip(b, c) => a.time <= b.time
  BY DEF same
<1> HIDE DEF d
<1> QED BY <1>10, <1>11, <1>12

\* Each trip that boards is on the board at its next visit, unless that comes after
\* all of a board that is full.
LEMMA Shown ==
    ASSUME NEW S \in SUBSET Arrival, IsFiniteSet(S), NEW cut \in Int,
           NEW limit \in Nat, NEW shown \in selectUpcoming(S, cut, limit)
    PROVE  /\ shown \subseteq Boarding(S, cut)
           /\ Cardinality(shown) <= limit
           /\ \A m \in Boarding(S, cut) :
                 \E a \in S : /\ a.trip = m.trip /\ a.date = m.date /\ a.time <= m.time
                              /\ \/ a \in shown
                                 \/ Cardinality(shown) >= limit /\ \A b \in shown : b.time <= a.time
<1> DEFINE boarding == Boarding(S, cut)
           next == NextVisits(boarding)
           visit(c) == CHOOSE a \in {b \in boarding : SameTrip(b, c)} :
                          \A b \in boarding : SameTrip(b, c) => a.time <= b.time
<1>1. boarding \in SUBSET S /\ IsFiniteSet(boarding) /\ boarding \in SUBSET Arrival
  <2>1. boarding \in SUBSET S
    BY DEF Boarding
  <2> HIDE DEF boarding
  <2> QED BY <2>1, FS_Subset
<1> HIDE DEF boarding
<1>2. ASSUME NEW c \in boarding
      PROVE  /\ visit(c) \in boarding
             /\ visit(c).trip = c.trip /\ visit(c).date = c.date /\ visit(c).time <= c.time
  <2>1. \E v \in boarding : v = visit(c) /\ v.trip = c.trip /\ v.date = c.date /\ v.time <= c.time
    BY <1>1, NextVisit
  <2> HIDE DEF visit
  <2> QED BY <2>1
<1>10. next = {visit(c) : c \in boarding}
  BY DEF NextVisits
<1> HIDE DEF visit
<1>3. next \in SUBSET boarding
  BY <1>2, <1>10
<1>4. \A m \in boarding : \E a \in next : a.trip = m.trip /\ a.date = m.date /\ a.time <= m.time
  BY <1>2, <1>10
<1> HIDE DEF next
<1>5. IsFiniteSet(next) /\ Cardinality(next) \in Nat
  BY <1>1, <1>3, FS_Subset, FS_CardinalityType
<1>6. /\ shown \in SUBSET next
      /\ Cardinality(shown) = IF Cardinality(next) < limit THEN Cardinality(next) ELSE limit
      /\ \A a \in next \ shown, b \in shown : ~Sooner(a, b)
  BY DEF selectUpcoming, FirstOf, next, boarding
<1>7. Cardinality(shown) <= limit
  BY <1>5, <1>6
<1>8. ASSUME NEW a \in next, a \notin shown
      PROVE  Cardinality(shown) >= limit /\ \A b \in shown : b.time <= a.time
  <2>1. Cardinality(shown) # Cardinality(next)
    BY <1>5, <1>6, <1>8, FS_Subset
  <2>2. Cardinality(shown) >= limit
    BY <1>5, <1>6, <2>1
  <2>3. ASSUME NEW b \in shown PROVE b.time <= a.time
    <3>1. ~(a.time < b.time)
      BY <1>6, <1>8 DEF Sooner
    <3>2. a \in Arrival /\ b \in Arrival
      BY <1>1, <1>3, <1>6, <1>8
    <3>3. a.time \in Int /\ b.time \in Int
      BY <3>2 DEF Arrival
    <3> QED BY <3>1, <3>3
  <2> QED BY <2>2, <2>3
<1>9. \A m \in boarding :
         \E a \in S : /\ a.trip = m.trip /\ a.date = m.date /\ a.time <= m.time
                      /\ \/ a \in shown
                         \/ Cardinality(shown) >= limit /\ \A b \in shown : b.time <= a.time
  BY <1>1, <1>3, <1>4, <1>8
<1> QED BY <1>3, <1>6, <1>7, <1>9 DEF boarding
----------------------------------------------------------------------------
\* What the invariant says of a board.
LEMMA BoardOf ==
    ASSUME IInv, pc = "done"
    PROVE  /\ Typed /\ Reconciled
           /\ board \subseteq Boarding(arrivals, cutoff) /\ board \subseteq arrivals
           /\ Cardinality(board) <= cappedLimit
           /\ \A a \in arrivals : Origin(a) /\ a \in Arrival
           /\ \A m \in Boarding(arrivals, cutoff) :
                 \E a \in arrivals :
                    /\ a.trip = m.trip /\ a.date = m.date /\ a.time <= m.time
                    /\ \/ a \in board
                       \/ Cardinality(board) >= cappedLimit /\ \A b \in board : b.time <= a.time
<1>1. Typed /\ Reconciled /\ IsFiniteSet(arrivals) /\ board \in selectUpcoming(arrivals, cutoff, cappedLimit)
  BY DEF IInv, InOrder
<1>2. \A a \in arrivals : Origin(a) /\ a \in Arrival
  BY <1>1, OriginOf DEF Reconciled
<1>3. arrivals \in SUBSET Arrival /\ cutoff \in Int
  BY <1>1, <1>2 DEF Typed
<1>4. board \subseteq Boarding(arrivals, cutoff)
  BY <1>1, <1>3, LimitType, Shown
<1>5. Cardinality(board) <= cappedLimit
  BY <1>1, <1>3, LimitType, Shown
<1>6. \A m \in Boarding(arrivals, cutoff) :
         \E a \in arrivals :
            /\ a.trip = m.trip /\ a.date = m.date /\ a.time <= m.time
            /\ \/ a \in board
               \/ Cardinality(board) >= cappedLimit /\ \A b \in board : b.time <= a.time
  BY <1>1, <1>3, LimitType, Shown
<1>7. board \subseteq arrivals
  BY <1>4 DEF Boarding
<1> QED BY <1>1, <1>2, <1>4, <1>5, <1>6, <1>7

\* Type correctness; a response is a part of what was merged, within its limit.
THEOREM ArrivalsTypeOK == Spec => []TypeOK
<1>1. IInv => TypeOK
  <2> SUFFICES ASSUME IInv PROVE TypeOK
    OBVIOUS
  <2>1. board \subseteq arrivals /\ Cardinality(board) <= cappedLimit
    <3>1. CASE pc = "done"
      BY <3>1, BoardOf
    <3>2. CASE pc # "done"
      <4>1. board = {} /\ cappedLimit \in Nat
        BY <3>2, LimitType DEF IInv, InOrder
      <4>2. Cardinality({}) = 0
        BY FS_EmptySet
      <4> QED BY <4>1, <4>2
    <3> QED BY <3>1, <3>2
  <2> QED BY <2>1 DEF IInv, Typed, TypeOK
<1> QED BY Invariance, <1>1, PTL

\* Duplicates: a train on the subway is never listed as added beside a free slot that
\* it could be, in whatever order the added trips are reconciled.
THEOREM AddedOnce == Spec => []NotTwice
<1>1. IInv => NotTwice
  <2> SUFFICES ASSUME IInv, pc = "done", NEW a \in board, NEW slot \in board,
                      a.status = "added", a.line \in Subway,
                      slot.status = "scheduled", slot.line = a.line
               PROVE  Distance(a.time, slot.sched) > ReconcileWindow
    BY DEF NotTwice
  <2>1. a \in arrivals /\ slot \in arrivals /\ slot \in Boarding(arrivals, cutoff) /\ Reconciled /\ Typed
    BY BoardOf
  <2>2. ~slot.passed
    BY <2>1 DEF Boarding
  <2>3. ~slot.realtime
    <3>1. Origin(slot)
      BY <2>1 DEF Reconciled
    <3>2. \A e \in Entries : Extra(e).status = "added"
      BY <2>1, EntryOf, ExtraOf
    <3>3. PICK r \in InService : RowOf(r, slot)
      BY <2>1, <3>1, <3>2, OriginOf
    <3> QED BY <3>3 DEF RowOf
  <2> QED BY <2>1, <2>2, <2>3 DEF Reconciled, FarFromFree, Free
<1> QED BY Invariance, <1>1, PTL

\* What a train of static GTFS has on the board comes of a row of its own.
LEMMA OwnArrival ==
    ASSUME Typed, NEW a, Origin(a), NEW r \in InService, a.trip = Trip[r], a.date = Date[r]
    PROVE  \E k \in AtBoard(r) : \E m \in Merged :
              /\ m = mergeRow(Row(r, k), Hashes(trips).tripUpdates)
              /\ RowOf(r, m)
              /\ a = m \/ (Free(m) /\ RowOf(r, a) /\ a.realtime = TRUE)
<1>1. ASSUME NEW m \in Merged, NEW q, RowOf(q, m), q \in InService, m.trip = a.trip, m.date = a.date
      PROVE  q = r
  BY <1>1, TrainsAssumption DEF RowOf
<1>2. CASE a \in Merged
  <2>1. PICK q \in InService : \E k \in AtBoard(q) :
           a = mergeRow(Row(q, k), Hashes(trips).tripUpdates) /\ RowOf(q, a)
    BY <1>2, MergedMember
  <2>2. q = r
    BY <1>1, <1>2, <2>1
  <2> QED BY <1>2, <2>1, <2>2
<1>3. CASE \E slot \in Merged, entry \in Entries : Free(slot) /\ a = TakeOver(slot, entry)
  <2>1. PICK slot \in Merged, entry \in Entries : Free(slot) /\ a = TakeOver(slot, entry)
    BY <1>3
  <2>2. PICK q \in InService : \E k \in AtBoard(q) :
           slot = mergeRow(Row(q, k), Hashes(trips).tripUpdates) /\ RowOf(q, slot)
    BY MergedMember
  <2>3. entry \in Entry
    BY EntryOf
  <2>4. RowOf(q, a) /\ a.realtime = TRUE
    BY <2>1, <2>2, <2>3, TakenOver
  <2>5. q = r
    BY <1>1, <2>2, <2>4 DEF RowOf
  <2> QED BY <2>1, <2>2, <2>4, <2>5
<1>4. CASE \E entry \in Entries : a = Extra(entry)
  <2>1. PICK entry \in Entries : a = Extra(entry)
    BY <1>4
  <2>2. entry \in Entry
    BY EntryOf
  <2>3. a.date = None
    BY <2>1, <2>2, ExtraOf
  <2> QED BY <2>3, TrainsAssumption
<1> QED BY <1>2, <1>3, <1>4 DEF Origin

\* The feed follows the trains that it lists under their own trip_id.
LEMMA ListedFollows ==
    ASSUME plan \in Plans, NEW r \in InService, NEW snapshot,
           Listed(r, snapshot), plan[r].style \in OwnStyle
    PROVE  Follows(r, snapshot)
BY DEF Listed, Follows, InFeed, OwnStyle

\* Leftovers of the schedule: nothing that is on the board without a prediction is of a
\* train that the feed has canceled, skips the stop with, has past it or at another time.
THEOREM NoLeftovers == Spec => []NoGhosts
<1>1. IInv => NoGhosts
  <2> SUFFICES ASSUME IInv, pc = "done", NEW r \in InService, NEW a \in board,
                      a.trip = Trip[r], a.date = Date[r], ~a.realtime, Told(r)
               PROVE  FALSE
    BY DEF NoGhosts
  <2>1. Typed /\ Origin(a) /\ a \in Boarding(arrivals, cutoff) /\ a \in Arrival
    BY BoardOf
  <2>2. ~a.passed /\ a.status \notin {"canceled", "skipped"}
    BY <2>1 DEF Boarding
  <2>3. plan \in Plans /\ trips \in Snapshot \cup {None}
    BY <2>1 DEF Typed
  <2>4. PICK k \in AtBoard(r) : a = mergeRow(Row(r, k), Hashes(trips).tripUpdates)
    BY <2>1, OwnArrival
  <2>5. Follows(r, trips)
    BY <2>3, ListedFollows DEF Told, OwnStyle, Style
  <2> DEFINE s == Scheduled(Row(r, k))
             style == plan[r].style
  <2>6. /\ style = "canceled" => a = [s EXCEPT !.status = "canceled"]
        /\ style = "skipping" => a \in {[s EXCEPT !.status = "skipped"], [s EXCEPT !.passed = TRUE]}
        /\ style \in Timed \ {"platforms"} =>
              \/ a = [s EXCEPT !.passed = TRUE]
              \/ a = TimelyRow(r, k)
    BY <2>3, <2>4, <2>5, MergedRow
  <2>7. style \in {"times", "dateless", "arrivals", "departures", "delays", "skipping", "canceled"}
    BY DEF Told
  <2>8. s \in Arrival /\ plan[r].delay \in Maybe
    BY <2>3, ScheduledRow, PlansAssumption, TrainsAssumption DEF Plan, Maybe
  <2> HIDE DEF s
  <2>9. a # [s EXCEPT !.passed = TRUE]
    BY <2>2, <2>8 DEF Arrival
  <2>10. a # [s EXCEPT !.status = "canceled"] /\ a # [s EXCEPT !.status = "skipped"]
    BY <2>2, <2>8 DEF Arrival
  <2>11. a # TimelyRow(r, k)
    <3>1. TimelyRow(r, k).realtime = TRUE
      BY <2>3, TimelyFields
    <3> QED BY <3>1
  <2> QED BY <2>6, <2>7, <2>9, <2>10, <2>11 DEF Timed
<1> QED BY Invariance, <1>1, PTL

\* A row that the feed follows has its train's delay, unless it is over.
LEMMA FollowedRow ==
    ASSUME plan \in Plans, NEW snapshot \in Snapshot \cup {None},
           NEW r \in InService, NEW k \in AtBoard(r), Follows(r, snapshot), plan[r].style \in Timed,
           plan[r].style = "platforms" => k \in Ahead(plan, r, snapshot.at)
    PROVE  LET m == mergeRow(Row(r, k), Hashes(snapshot).tripUpdates)
           IN  m.passed \/ (m.realtime = TRUE /\ m.delay = plan[r].delay)
<1> DEFINE s == Scheduled(Row(r, k))
           m == mergeRow(Row(r, k), Hashes(snapshot).tripUpdates)
           style == plan[r].style
<1>1. /\ style \in Timed \ {"platforms"} => m = [s EXCEPT !.passed = TRUE] \/ m = TimelyRow(r, k)
      /\ style = "platforms" /\ k \in Ahead(plan, r, snapshot.at) => m = TimelyRow(r, k)
  BY MergedRow
<1>2. s \in Arrival
  BY ScheduledRow
<1> HIDE DEF s, m
<1>3. m = [s EXCEPT !.passed = TRUE] => m.passed
  BY <1>2 DEF Arrival
<1>4. m = TimelyRow(r, k) => m.realtime = TRUE /\ m.delay = plan[r].delay
  BY TimelyFields
<1>5. m.passed \/ (m.realtime = TRUE /\ m.delay = plan[r].delay)
  BY <1>1, <1>3, <1>4
<1> QED BY <1>5 DEF m

\* Delays: a train of the feed that can still be boarded is shown with its delay,
\* although arrivals, departures and delays are published, and slots are taken over.
THEOREM DelaysAreTrue == Spec => []TrueDelay
<1>1. IInv => TrueDelay
  <2> SUFFICES ASSUME IInv, pc = "done", NEW r \in Tracked, NEW a \in board,
                      ByTrip(r), a.trip = Trip[r], a.date = Date[r]
               PROVE  a.delay = plan[r].delay
    BY DEF TrueDelay
  <2>1. Typed /\ Origin(a) /\ a \in Boarding(arrivals, cutoff) /\ a \in Arrival
    BY BoardOf
  <2>2. ~a.passed
    BY <2>1 DEF Boarding
  <2>3. plan \in Plans /\ trips \in Snapshot \cup {None}
    BY <2>1 DEF Typed
  <2>4. r \in InService /\ Listed(r, trips) /\ plan[r].style \in Timed
    BY DEF ByTrip, Timed
  <2>5. PICK k \in AtBoard(r), m \in Merged :
           /\ m = mergeRow(Row(r, k), Hashes(trips).tripUpdates)
           /\ RowOf(r, m)
           /\ a = m \/ Free(m)
    BY <2>1, <2>4, OwnArrival
  <2>6. Follows(r, trips)
    BY <2>3, <2>4, ListedFollows DEF Timed, OwnStyle, Style
  <2>7. plan[r].style = "platforms" => k \in Ahead(plan, r, trips.at)
    <3>1. PICK j \in AtBoard(r) : j \in Ahead(plan, r, trips.at)
      BY DEF Tracked, Catchable
    <3>2. plan[r].style = "platforms" => j = k
      BY <2>3, <2>4, PlansAssumption DEF AtBoard
    <3> QED BY <3>1, <3>2
  <2>8. m.passed \/ (m.realtime = TRUE /\ m.delay = plan[r].delay)
    BY <2>3, <2>4, <2>5, <2>6, <2>7, FollowedRow
  <2> QED BY <2>2, <2>5, <2>8 DEF Free
<1> QED BY Invariance, <1>1, PTL

\* A row that the feed says nothing about is as scheduled.
LEMMA UntoldRow ==
    ASSUME Typed, NEW r \in Run, NEW k \in AtBoard(r), Untold(r, k)
    PROVE  mergeRow(Row(r, k), Hashes(trips).tripUpdates) = Scheduled(Row(r, k))
<1> DEFINE m == mergeRow(Row(r, k), Hashes(trips).tripUpdates)
           s == Scheduled(Row(r, k))
<1>1. plan \in Plans /\ trips \in Snapshot \cup {None} /\ r \in InService
  BY DEF Typed, Untold
<1>2. /\ ~Follows(r, trips) => m = s
      /\ Follows(r, trips) =>
            (plan[r].style = "nodata" /\ k \in Ahead(plan, r, trips.at) => m = s)
  BY <1>1, MergedRow
<1> HIDE DEF m, s
<1>3. ASSUME plan[r].style = "silent" PROVE m = s
  BY <1>2, <1>3 DEF Follows, InFeed
<1>4. ASSUME plan[r].style = "nodata", Listed(r, trips) => k \in Ahead(plan, r, trips.at) PROVE m = s
  <2>1. Follows(r, trips) => Listed(r, trips)
    BY DEF Follows, InFeed, Listed
  <2> QED BY <1>2, <1>4, <2>1
<1>5. m = s
  BY <1>3, <1>4 DEF Untold
<1> QED BY <1>5 DEF m, s

\* Schedule: a train that the feed says nothing about is on the board, in time order and
\* up to the limit, unless an added one of its subway line may have taken its slot.
THEOREM ScheduleIsShown == Spec => []ScheduledShown
<1>1. IInv => ScheduledShown
  <2> SUFFICES ASSUME IInv, pc = "done", NEW r \in Run, NEW k \in AtBoard(r),
                      Untold(r, k), Fetched(r, k),
                      Stops(r)[k].pickup, Until(r, k) >= cutoff, InView(Due(r, k)),
                      Line[Trip[r]] \in Subway =>
                          \A q \in Run : Line[Trip[q]] = Line[Trip[r]] => ~ByAdded(q)
               PROVE  \E a \in board : a.trip = Trip[r] /\ a.date = Date[r] /\ a.time <= Due(r, k)
    BY DEF ScheduledShown
  <2> DEFINE m == Scheduled(Row(r, k))
  <2>1. Typed /\ Reconciled /\ r \in InService
    BY BoardOf DEF Untold
  <2>2. /\ m.trip = Trip[r] /\ m.date = Date[r] /\ m.line = Line[Trip[r]]
        /\ m.pickup = Stops(r)[k].pickup /\ m.time = Due(r, k) /\ m.leaves = Until(r, k)
        /\ m.status = "scheduled" /\ ~m.passed
    BY <2>1, ScheduledRow
  <2>3. m \in Merged
    <3>1. mergeRow(Row(r, k), Hashes(trips).tripUpdates) = m
      BY <2>1, UntoldRow
    <3> HIDE DEF m
    <3> QED BY <3>1 DEF Merged, mergeRealtime, Fetched
  <2> HIDE DEF m
  <2>4. ~(m.line \in Subway /\ FedOn(m.line, added))
    BY <2>2 DEF FedOn, ByAdded
  <2>5. m \in Boarding(arrivals, cutoff)
    <3>1. m \in arrivals
      BY <2>1, <2>3, <2>4 DEF Reconciled, TakenByAdded
    <3> QED BY <2>2, <3>1 DEF Boarding
  <2>6. PICK a \in arrivals :
           /\ a.trip = m.trip /\ a.date = m.date /\ a.time <= m.time
           /\ a \in board \/ (Cardinality(board) >= cappedLimit /\ \A b \in board : b.time <= a.time)
    BY <2>5, BoardOf
  <2>7. a \in board
    <3> SUFFICES ASSUME a \notin board PROVE FALSE
      OBVIOUS
    <3>1. Cardinality(board) >= cappedLimit /\ \A b \in board : b.time <= a.time
      BY <2>6
    <3>2. Cardinality(board) \in Nat
      <4>1. IsFiniteSet(arrivals)
        BY DEF IInv, InOrder
      <4>2. board \subseteq arrivals
        BY BoardOf
      <4> QED BY <4>1, <4>2, FS_Subset, FS_CardinalityType
    <3>3. PICK b \in board : Due(r, k) < b.time
      BY <3>1, <3>2, LimitType DEF InView
    <3>4. b \in Arrival /\ a \in Arrival
      BY BoardOf
    <3>5. b.time \in Int /\ a.time \in Int /\ Due(r, k) \in Int
      <4>1. k \in Places(r)
        BY DEF AtBoard, Places
      <4> QED BY <3>4, <4>1, StopTimes DEF Arrival
    <3>6. b.time <= a.time /\ a.time <= Due(r, k)
      BY <2>2, <2>6, <3>1
    <3> QED BY <3>3, <3>5, <3>6
  <2> QED BY <2>2, <2>6, <2>7
<1> QED BY Invariance, <1>1, PTL

----------------------------------------------------------------------------
(***************************************************************************)
(* For every timetable, every way the trains may run and be published, and *)
(* every window and limit: the trains that the feeds follow are on the     *)
(* board once each, at the time when they come, and no other prediction    *)
(* is.                                                                     *)
(*                                                                         *)
(* The entries that the code makes of the added trips are those of the     *)
(* trains which the feed adds and that can still be boarded.  While they   *)
(* are reconciled, the arrivals that are not rows of the schedule are as   *)
(* many, line by line and time by time, as the entries that are done, and  *)
(* no row with a prediction is lost.  What is left is to count: the next   *)
(* visits with a prediction are those of the rows of trains that are       *)
(* followed and those arrivals.                                            *)
(***************************************************************************)

(***************************************************************************)
(* The entries.                                                            *)
(***************************************************************************)

\* The stops of a train that are of the board are so by whichever platform it names.
LEMMA StopOfBoard ==
    ASSUME NEW r \in Run, NEW k \in Places(r)
    PROVE  LET stop == Stops(r)[k].stop
           IN  /\ AtStop(stop) <=> stop \in BoardStops
               /\ AtStop(Platform[stop]) <=> stop \in BoardStops
<1> DEFINE stop == Stops(r)[k].stop
           platform == Platform[stop]
<1>1. stop \in DOMAIN Platform
  BY StopTimes
<1> HIDE DEF stop
<1>2. stop \in Named /\ platform \in Named
  BY <1>1 DEF Named
<1>3. platform = stop \/ (Parent(stop) # None /\ Parent(platform) = Parent(stop))
  BY <1>1, TrainsAssumption
<1> HIDE DEF platform
<1>4. /\ stop \notin Stations /\ platform \notin Stations /\ None \notin Stations
      /\ stop \in BoardStops => Parent(stop) \in Stations \cup {None}
      /\ platform \in BoardStops => Parent(platform) \in Stations \cup {None}
      /\ Parent(stop) \in Stations => stop \in BoardStops
  BY <1>1, <1>2, BoardAssumption
<1>5. AtStop(stop) <=> stop \in BoardStops
  BY <1>4 DEF AtStop
<1>6. AtStop(platform) <=> stop \in BoardStops
  BY <1>3, <1>4, <1>5 DEF AtStop
<1> QED BY <1>5, <1>6 DEF stop, platform

AddedStyle == {"added", "renamed", "copy"}

\* An added train can be boarded where it stops at the board and has not left.
LEMMA BoardedUpdate ==
    ASSUME plan \in Plans, NEW r \in Run, NEW k \in Places(r), plan[r].style \in AddedStyle,
           NEW cut \in Int
    PROVE  LET s == StopRealtime(Update(plan, r, k))
           IN  /\ Boards(s, cut) <=> k \in AtBoard(r) /\ Until(r, k) + plan[r].delay >= cut
               /\ Or(s.arr, s.dep) = Due(r, k) + plan[r].delay
               /\ Or(s.dep, s.arr) = Until(r, k) + plan[r].delay
<1> DEFINE s == StopRealtime(Update(plan, r, k))
           style == plan[r].style
           stop == Stops(r)[k].stop
           d == plan[r].delay
<1>1. plan \in [Run -> Plan] /\ d \in Int
  BY PlansAssumption DEF Plan
<1>2. /\ style \notin {"platforms", "skipping", "nodata", "delays", "departures", "arrivals"}
  BY DEF AddedStyle
<1>3. /\ s.stop = IF style = "added" THEN Platform[stop] ELSE stop
      /\ s.stop # None
      /\ ~s.skipped
      /\ s.arr = Predict(plan, r, Arr(r, k))
      /\ s.dep = Predict(plan, r, Dep(r, k))
  <2> HIDE DEF d
  <2>1. LET t == StopRealtime(Update(plan, r, k))
            stl == plan[r].style
            stp == Stops(r)[k].stop
        IN  /\ t.stop = IF stl \in {"platforms", "added"} THEN Platform[stp] ELSE stp
            /\ t.stop # None
            /\ t.skipped <=> stl = "skipping" /\ stp \in BoardStops
            /\ stl # "nodata" =>
                     /\ t.arr = IF stl = "delays" \/ (stl = "departures" /\ Dep(r, k) # None)
                                THEN None ELSE Predict(plan, r, Arr(r, k))
                     /\ t.dep = IF stl = "delays" \/ (stl = "arrivals" /\ Arr(r, k) # None)
                                THEN None ELSE Predict(plan, r, Dep(r, k))
    BY <1>1, ListedStop
  <2> HIDE DEF s, style, stop
  <2> QED BY <1>2, <2>1 DEF s, style, stop
<1> HIDE DEF s
<1>4. /\ Arr(r, k) \in Maybe /\ Dep(r, k) \in Maybe /\ (Arr(r, k) # None \/ Dep(r, k) # None)
      /\ Due(r, k) = Or(Arr(r, k), Dep(r, k)) /\ Until(r, k) = Or(Dep(r, k), Arr(r, k))
  BY StopTimes DEF Due, Until
<1>5. /\ Or(s.arr, s.dep) = Due(r, k) + d /\ Or(s.dep, s.arr) = Until(r, k) + d
      /\ Due(r, k) + d \in Int
  <2>1. \A x, y \in Maybe : x # None \/ y # None =>
           Or(Predict(plan, r, x), Predict(plan, r, y)) = Or(x, y) + d /\ Or(x, y) + d \in Int
    BY <1>1, NoneAssumption DEF Or, Predict, Maybe
  <2> QED BY <1>3, <1>4, <2>1
<1>6. AtStop(s.stop) <=> stop \in BoardStops
  <2>1. (AtStop(stop) <=> stop \in BoardStops) /\ (AtStop(Platform[stop]) <=> stop \in BoardStops)
    BY StopOfBoard
  <2> QED BY <1>3, <2>1
<1>7. k \in AtBoard(r) <=> stop \in BoardStops
  BY DEF AtBoard, Places
<1>8. Due(r, k) + d # None
  BY <1>5, NoneAssumption
<1>9. Boards(s, cut) <=> k \in AtBoard(r) /\ Until(r, k) + d >= cut
  BY <1>3, <1>5, <1>6, <1>7, <1>8 DEF Boards
<1> QED BY <1>5, <1>9 DEF s

\* Where an added train can be boarded, by the feed of a snapshot.
Boardable(r, snapshot, cut) ==
    {k \in AtBoard(r) : Until(r, k) + plan[r].delay >= cut /\ k \in Ahead(plan, r, snapshot.at)}

\* The entry that the code makes of an added train is about the first of these stops.
LEMMA FirstBoardedStop ==
    ASSUME plan \in Plans, NEW r \in Run, NEW snapshot \in Snapshot, IsAdded(r, snapshot),
           NEW cut \in Int
    PROVE  LET C == Boardable(r, snapshot, cut)
               s == FirstBoarded(Kept(r, snapshot).stops, cut)
           IN  /\ C = {} => s = None
               /\ \A k \in C : (\A j \in C : k <= j) => s = StopRealtime(Update(plan, r, k)) /\ s # None
<1> DEFINE C == Boardable(r, snapshot, cut)
           stops == Kept(r, snapshot).stops
           I == {i \in 1 .. Len(stops) : Boards(stops[i], cut)}
           i == SelectInSeq(stops, LAMBDA t : Boards(t, cut))
           s == FirstBoarded(stops, cut)
<1>1. plan \in [Run -> Plan] /\ InFeed(r, snapshot) /\ plan[r].style \in AddedStyle
  BY PlansAssumption, AddedTrains DEF IsAdded, AddedStyle
<1>2. PICK first \in Places(r), last \in Places(r) :
         /\ first <= last
         /\ Ahead(plan, r, snapshot.at) = first .. Len(Stops(r))
         /\ plan[r].style # "delays" => last = Len(Stops(r))
         /\ plan[r].style # "canceled" =>
               stops = [n \in 1 .. last - first + 1 |-> StopRealtime(Update(plan, r, first + n - 1))]
  BY <1>1, KeptTrip
<1>3. Places(r) = 1 .. Len(Stops(r)) /\ Len(Stops(r)) \in Nat
  BY <1>2, StopTimes
<1> DEFINE len == Len(Stops(r))
<1>4. /\ first \in 1 .. len /\ len \in Nat /\ first \in Nat
      /\ stops = [n \in 1 .. len - first + 1 |-> StopRealtime(Update(plan, r, first + n - 1))]
  <2>1. plan[r].style # "delays" /\ plan[r].style # "canceled"
    BY <1>1 DEF AddedStyle
  <2>2. last = len /\ stops = [n \in 1 .. last - first + 1 |-> StopRealtime(Update(plan, r, first + n - 1))]
    BY <1>2, <2>1
  <2>3. first \in 1 .. len /\ len \in Nat /\ first \in Nat
    BY <1>3
  <2> HIDE DEF stops, len
  <2> QED BY <2>2, <2>3
<1>5. Len(stops) = len - first + 1
  <2> HIDE DEF stops, len
  <2>1. len - first + 1 \in Nat
    BY <1>4
  <2>2. \A n \in 1 .. len - first + 1 : StopRealtime(Update(plan, r, first + n - 1)) \in RealtimeStop
    <3> TAKE n \in 1 .. len - first + 1
    <3>1. first + n - 1 \in Places(r)
      BY <1>3, <1>4 DEF len
    <3> QED BY <1>1, <3>1, ListedStop
  <2>3. stops \in Seq(RealtimeStop) /\ DOMAIN stops = 1 .. len - first + 1
    BY <1>4, <2>1, <2>2
  <2> QED BY <2>1, <2>3
<1>6. i = (IF I # {} THEN Min(I) ELSE 0) /\ s = IF i = 0 THEN None ELSE stops[i]
  BY DEF SelectInSeq, First, FirstBoarded
<1> HIDE DEF i, s, stops, len
<1>7. ASSUME NEW n \in 1 .. len - first + 1
      PROVE  /\ stops[n] = StopRealtime(Update(plan, r, first + n - 1))
             /\ Boards(stops[n], cut) <=> first + n - 1 \in C
  <2>1. stops[n] = StopRealtime(Update(plan, r, first + n - 1))
    BY <1>4
  <2>2. first + n - 1 \in Places(r) /\ first + n - 1 \in first .. Len(Stops(r))
    BY <1>3, <1>4 DEF len
  <2>3. Boards(stops[n], cut) <=>
           first + n - 1 \in AtBoard(r) /\ Until(r, first + n - 1) + plan[r].delay >= cut
    BY <1>1, <2>1, <2>2, BoardedUpdate
  <2> QED BY <1>2, <2>1, <2>2, <2>3 DEF Boardable
<1>8. C \subseteq first .. len
  BY <1>2 DEF Boardable, len
<1> HIDE DEF C
<1>9. I = {n \in 1 .. len - first + 1 : first + n - 1 \in C}
  BY <1>5, <1>7
<1> HIDE DEF I
<1>10. ASSUME C = {} PROVE s = None
  BY <1>6, <1>9, <1>10
<1>11. ASSUME NEW k \in C, \A j \in C : k <= j
       PROVE  s = StopRealtime(Update(plan, r, k)) /\ s # None
  <2> DEFINE m == k - first + 1
  <2>1. k \in first .. len /\ m \in 1 .. len - first + 1 /\ first + m - 1 = k /\ m # 0
    BY <1>4, <1>8, <1>11
  <2> HIDE DEF m
  <2>2. m \in I /\ \A n \in I : m <= n
    <3>1. m \in I
      BY <1>9, <2>1
    <3>2. ASSUME NEW n \in I PROVE m <= n
      <4>1. n \in 1 .. len - first + 1 /\ first + n - 1 \in C
        BY <1>9, <3>2
      <4>2. k <= first + n - 1
        BY <1>11, <4>1
      <4> QED BY <1>4, <2>1, <4>1, <4>2
    <3> QED BY <3>1, <3>2
  <2>3. \A n \in I : n \in Int
    BY <1>9
  <2>4. \A n \in I : (\A j \in I : n <= j) => n = m
    BY <2>2, <2>3
  <2>5. Min(I) = m
    BY <2>2, <2>4 DEF Min
  <2>6. s = stops[m] /\ stops[m] = StopRealtime(Update(plan, r, k))
    BY <1>6, <1>7, <2>1, <2>2, <2>5
  <2>7. k \in Places(r)
    BY <1>3, <1>4, <2>1 DEF len
  <2>8. StopRealtime(Update(plan, r, k)) \in RealtimeStop
    BY <1>1, <2>7, ListedStop
  <2> QED BY <2>6, <2>8, NoneAssumption
<1> QED BY <1>10, <1>11 DEF C, s, stops

\* The next stop of a train is the first at which it can be boarded.
LEMMA NextStopOf ==
    ASSUME Typed, NEW r \in Run, Catchable(r) # {}
    PROVE  /\ NextStop(r) \in Catchable(r) /\ NextStop(r) \in AtBoard(r) /\ NextStop(r) \in Places(r)
           /\ \A j \in Catchable(r) : NextStop(r) <= j
           /\ plan[r].delay \in Int /\ RealTime(r) \in Int
           /\ Due(r, NextStop(r)) \in Int /\ Until(r, NextStop(r)) \in Int
<1> DEFINE C == Catchable(r)
           n == NextStop(r)
<1>1. C \subseteq AtBoard(r) /\ AtBoard(r) \subseteq Places(r)
  BY DEF Catchable, AtBoard, Places
<1>2. C \in SUBSET Nat
  <2>1. PICK k \in C : TRUE
    OBVIOUS
  <2>2. Places(r) = 1 .. Len(Stops(r)) /\ Len(Stops(r)) \in Nat
    BY <1>1, <2>1, StopTimes
  <2> HIDE DEF C
  <2> QED BY <1>1, <2>2
<1>3. n = CHOOSE k \in C : \A j \in C : k <= j
  BY DEF NextStop
<1> HIDE DEF C, n
<1>4. n \in C /\ \A j \in C : n <= j
  <2>1. C # {}
    BY DEF C
  <2>2. \E k \in C : \A j \in C : k <= j
    BY <1>2, <2>1, LeastIndex
  <2> QED BY <1>3, <2>2
<1>5. n \in AtBoard(r) /\ n \in Places(r)
  BY <1>1, <1>4
<1>6. Due(r, n) \in Int /\ Until(r, n) \in Int
  BY <1>5, StopTimes
<1>7. plan[r].delay \in Int
  BY PlansAssumption DEF Typed, Plan
<1>8. RealTime(r) \in Int
  BY <1>6, <1>7 DEF RealTime, n
<1> QED BY <1>4, <1>5, <1>6, <1>7, <1>8 DEF C, n

\* The trains that the feed of the added trips tells of, and that can be boarded.
AddedHere == {r \in Run : ByAdded(r) /\ Catchable(r) # {}}

EntryFor(r) ==
    [trip   |-> IF plan[r].style = "copy" THEN Trip[r] ELSE NewId[r],
     line   |-> Line[Trip[r]],
     time   |-> RealTime(r),
     leaves |-> Later(Until(r, NextStop(r)) + plan[r].delay, RealTime(r))]

\* What a train that the feed adds is published as, and where it can be boarded.
LEMMA AddedCatch ==
    ASSUME Typed, NEW r \in Run, ByAdded(r)
    PROVE  /\ added \in Snapshot /\ plan[r].style \in AddedStyle /\ ~ByTrip(r)
           /\ IsAdded(r, added)
           /\ Catchable(r) = Boardable(r, added, cutoff)
           /\ RealTime(r) = plan[r].delay + Due(r, NextStop(r))
<1>1. added \in Snapshot /\ plan \in Plans
  BY DEF ByAdded, Listed, Typed
<1>2. plan[r].style \in AddedStyle
  BY DEF ByAdded, AddedStyle
<1>3. ~ByTrip(r)
  BY <1>2 DEF ByTrip, AddedStyle
<1>4. IsAdded(r, added)
  BY <1>1, AddedWhen DEF ByAdded
<1>5. Catchable(r) = Boardable(r, added, cutoff)
  BY <1>3 DEF Catchable, Boardable
<1>6. RealTime(r) = plan[r].delay + Due(r, NextStop(r))
  BY <1>2 DEF RealTime, AddedStyle
<1> QED BY <1>1, <1>2, <1>3, <1>4, <1>5, <1>6

\* The entry of an added train: none if it cannot be boarded.
LEMMA EntryAt ==
    ASSUME Typed, NEW r \in Run, ByAdded(r)
    PROVE  LET trip == Kept(r, added)
               s == FirstBoarded(trip.stops, cutoff)
           IN  /\ s # None <=> Catchable(r) # {}
               /\ s # None =>
                     EntryFor(r) =
                       [trip   |-> trip.trip, line |-> trip.line, time |-> Or(s.arr, s.dep),
                        leaves |-> Later(Or(s.dep, s.arr), Or(s.arr, s.dep))]
<1> DEFINE trip == Kept(r, added)
           s == FirstBoarded(trip.stops, cutoff)
           C == Catchable(r)
           k == NextStop(r)
<1>1. /\ plan \in Plans /\ plan \in [Run -> Plan] /\ cutoff \in Int
      /\ added \in Snapshot /\ IsAdded(r, added) /\ plan[r].style \in AddedStyle
      /\ C = Boardable(r, added, cutoff)
      /\ RealTime(r) = plan[r].delay + Due(r, k)
  BY AddedCatch, PlansAssumption DEF Typed
<1>2. /\ C = {} => s = None
      /\ \A j \in C : (\A i \in C : j <= i) => s = StopRealtime(Update(plan, r, j)) /\ s # None
  BY <1>1, FirstBoardedStop
<1>3. trip.trip = (IF plan[r].style = "copy" THEN Trip[r] ELSE NewId[r]) /\ trip.line = Line[Trip[r]]
  <2>1. InFeed(r, added)
    BY <1>1 DEF IsAdded
  <2>2. trip.trip = IF plan[r].style \in {"added", "renamed"} THEN NewId[r] ELSE Trip[r]
    BY <1>1, <2>1, KeptTrip
  <2>3. trip.line = Line[Trip[r]]
    BY <1>1, AddedTrains
  <2> HIDE DEF trip
  <2> QED BY <1>1, <2>2, <2>3 DEF AddedStyle
<1> HIDE DEF trip, s
<1>4. ASSUME C # {}
      PROVE  /\ s # None
             /\ EntryFor(r) =
                  [trip   |-> trip.trip, line |-> trip.line, time |-> Or(s.arr, s.dep),
                   leaves |-> Later(Or(s.dep, s.arr), Or(s.arr, s.dep))]
  <2>1. /\ k \in C /\ k \in Places(r) /\ (\A j \in C : k <= j) /\ plan[r].delay \in Int
        /\ Due(r, k) \in Int
    BY <1>4, NextStopOf
  <2> HIDE DEF C, k
  <2>2. s = StopRealtime(Update(plan, r, k)) /\ s # None
    BY <1>2, <2>1
  <2>3. Or(s.arr, s.dep) = Due(r, k) + plan[r].delay /\ Or(s.dep, s.arr) = Until(r, k) + plan[r].delay
    BY <1>1, <2>1, <2>2, BoardedUpdate
  <2>4. Or(s.arr, s.dep) = RealTime(r)
    BY <1>1, <2>1, <2>3
  <2> QED BY <1>3, <2>2, <2>3, <2>4 DEF EntryFor, k
<1> QED BY <1>2, <1>4 DEF trip, s

\* The entries of a request are those of the added trains that can be boarded.
LEMMA EntriesAre ==
    ASSUME Typed
    PROVE  Entries = {EntryFor(r) : r \in AddedHere}
<1> DEFINE extra == Hashes(added).addedTrips
           At(trip) == FirstBoarded(trip.stops, cutoff)
           EntryOfTrip(trip) ==
               [trip   |-> trip.trip, line |-> trip.line, time |-> Or(At(trip).arr, At(trip).dep),
                leaves |-> Later(Or(At(trip).dep, At(trip).arr), Or(At(trip).arr, At(trip).dep))]
           Here == {trip \in {extra[f] : f \in DOMAIN extra} : At(trip) # None}
<1>1. Entries = {EntryOfTrip(trip) : trip \in Here}
  BY DEF Entries, AddedEntries, FirstBoarded
<1>2. CASE added = None
  <2>1. DOMAIN extra = {}
    BY <1>2 DEF Hashes
  <2>2. Here = {}
    <3> HIDE DEF extra, At
    <3> QED BY <2>1
  <2>3. AddedHere = {}
    BY <1>2 DEF AddedHere, ByAdded, Listed
  <2> HIDE DEF Here, EntryOfTrip
  <2> QED BY <1>1, <2>2, <2>3
<1>3. CASE added # None
  <2>1. added \in Snapshot /\ plan \in Plans
    BY <1>3 DEF Typed
  <2>2. {extra[f] : f \in DOMAIN extra} = {Kept(r, added) : r \in {q \in Run : IsAdded(q, added)}}
    BY <2>1, AddedHash
  <2>3. \A r \in Run : IsAdded(r, added) <=> ByAdded(r)
    BY <2>1, AddedWhen DEF ByAdded
  <2> HIDE DEF extra, At, EntryOfTrip
  <2>4. Here = {trip \in {Kept(r, added) : r \in {q \in Run : ByAdded(q)}} : At(trip) # None}
    BY <2>2, <2>3
  <2>5. \A r \in Run : ByAdded(r) =>
           /\ At(Kept(r, added)) # None <=> Catchable(r) # {}
           /\ At(Kept(r, added)) # None => EntryFor(r) = EntryOfTrip(Kept(r, added))
    BY EntryAt DEF At, EntryOfTrip
  <2> HIDE DEF Here
  <2>6. Here = {Kept(r, added) : r \in AddedHere}
    BY <2>4, <2>5 DEF AddedHere
  <2>7. \A r \in AddedHere : EntryFor(r) = EntryOfTrip(Kept(r, added))
    BY <2>5 DEF AddedHere
  <2>8. {EntryOfTrip(trip) : trip \in Here} = {EntryFor(r) : r \in AddedHere}
    BY <2>6, <2>7
  <2> QED BY <1>1, <2>8
<1> QED BY <1>2, <1>3

\* An entry is about its train, and leaves at the cutoff or later.
LEMMA EntryFields ==
    ASSUME Typed, NEW r \in AddedHere
    PROVE  LET e == EntryFor(r)
           IN  /\ e.trip = (IF plan[r].style = "copy" THEN Trip[r] ELSE NewId[r])
               /\ e.line = Line[Trip[r]] /\ e.time = RealTime(r)
               /\ e.time \in Int /\ e.leaves \in Int /\ cutoff <= e.leaves
<1> DEFINE k == NextStop(r)
<1>1. r \in Run /\ ByAdded(r) /\ Catchable(r) # {} /\ cutoff \in Int
  BY DEF AddedHere, Typed
<1>2. /\ k \in Catchable(r) /\ plan[r].delay \in Int /\ RealTime(r) \in Int /\ Until(r, k) \in Int
  BY <1>1, NextStopOf
<1>3. cutoff <= Until(r, k) + plan[r].delay
  BY <1>2 DEF Catchable
<1> HIDE DEF k
<1>4. /\ Later(Until(r, k) + plan[r].delay, RealTime(r)) \in Int
      /\ cutoff <= Later(Until(r, k) + plan[r].delay, RealTime(r))
  BY <1>1, <1>2, <1>3 DEF Later
<1> QED BY <1>2, <1>4 DEF EntryFor, k

\* On a line of distinct trains every entry has a trip_id of its own.
LEMMA EntryOnce ==
    ASSUME Typed, NEW line, Distinct(line),
           NEW r \in AddedHere, NEW q \in AddedHere,
           EntryFor(r).line = line, EntryFor(r).trip = EntryFor(q).trip
    PROVE  r = q
<1>1. /\ EntryFor(r).trip = (IF plan[r].style = "copy" THEN Trip[r] ELSE NewId[r])
      /\ EntryFor(q).trip = (IF plan[q].style = "copy" THEN Trip[q] ELSE NewId[q])
      /\ EntryFor(r).line = Line[Trip[r]] /\ EntryFor(q).line = Line[Trip[q]]
  BY EntryFields
<1>2. r \in Run /\ q \in Run
  BY DEF AddedHere
<1>3. CASE plan[r].style = "copy" /\ plan[q].style = "copy"
  <2>1. Trip[r] = Trip[q] /\ Line[Trip[r]] = line
    BY <1>1, <1>3
  <2> QED BY <1>2, <1>3, <2>1 DEF Distinct
<1>4. CASE ~(plan[r].style = "copy" /\ plan[q].style = "copy")
  <2>1. NewId[r] # Trip[q] /\ NewId[q] # Trip[r] /\ (NewId[r] = NewId[q] => r = q)
    BY <1>2, TrainsAssumption
  <2> QED BY <1>1, <1>4, <2>1
<1> QED BY <1>3, <1>4

(***************************************************************************)
(* The trains of the feed and the arrivals on the board are equally many.  *)
(***************************************************************************)
\* What an entry may become.
Gives(entry, a) ==
    \/ a = Extra(entry)
    \/ /\ entry.line \in Subway
       /\ \E slot \in Merged : Free(slot) /\ slot.line = entry.line /\ a = TakeOver(slot, entry)

At(S, line, time) == {x \in S : x.line = line /\ x.time = time}

AloneOn(line, S) == \A a, b \in S : a.line = line /\ SameTrip(a, b) => a = b

\* Of entries that are reconciled, there is one arrival each.
Counts(done, left) ==
    /\ \A m \in Merged : Free(m) \/ m \in done
    /\ \A a \in done \ Merged : \E entry \in Entries \ left : Gives(entry, a)
    /\ \A line \in Lines : Distinct(line) =>
          /\ line \in Subway => AloneOn(line, done)
          /\ \A time \in Int : Cardinality(At(done \ Merged, line, time)) =
                               Cardinality(At(Entries \ left, line, time))

Counted == pc \in {"merge", "done"} => Counts(arrivals, pending)

\* A prediction never leaves before its time.
LEMMA PredictionLeaves ==
    ASSUME NEW a \in Arrival, NEW time, NEW delay, NEW leaves
    PROVE  applyPrediction(a, time, delay, leaves).leaves = Later(leaves, time)
BY DEF applyPrediction, Arrival

\* A row of the schedule has a date and a time, and is not an added one.
LEMMA MergedFields ==
    ASSUME Typed, NEW m \in Merged
    PROVE  m \in Arrival /\ m.sched \in Int /\ m.date # None /\ m.status # "added" /\ m.line \in Lines
<1>1. PICK r \in InService : RowOf(r, m)
  BY MergedMember
<1>2. r \in Run /\ Date[r] # None
  BY TrainsAssumption
<1> QED BY <1>1, <1>2 DEF RowOf, Lines

\* On a line of the subway whose trains are distinct, a trip has one row.
LEMMA MergedOnce ==
    ASSUME Typed, NEW line \in Subway, Distinct(line)
    PROVE  AloneOn(line, Merged)
<1> SUFFICES ASSUME NEW a \in Merged, NEW b \in Merged, a.line = line, SameTrip(a, b)
             PROVE  a = b
  BY DEF AloneOn
<1>1. PICK r \in InService : \E k \in AtBoard(r) :
         a = mergeRow(Row(r, k), Hashes(trips).tripUpdates) /\ RowOf(r, a)
  BY MergedMember
<1>2. PICK q \in InService : \E j \in AtBoard(q) :
         b = mergeRow(Row(q, j), Hashes(trips).tripUpdates) /\ RowOf(q, b)
  BY MergedMember
<1>3. r = q
  <2>1. Trip[r] = Trip[q] /\ Date[r] = Date[q]
    BY <1>1, <1>2 DEF RowOf, SameTrip
  <2> QED BY <2>1, TrainsAssumption
<1>4. Line[Trip[r]] = line
  BY <1>1 DEF RowOf
<1>5. \A j, k \in AtBoard(r) : j = k
  BY <1>4 DEF Distinct
<1> QED BY <1>1, <1>2, <1>3, <1>5

\* What a given arrival is, whichever way.
LEMMA GivenArrival ==
    ASSUME Typed, NEW entry \in Entries, NEW a, Gives(entry, a)
    PROVE  /\ a \in Arrival
           /\ a.line = entry.line /\ a.time = entry.time /\ a.realtime = TRUE
           /\ a.passed = FALSE /\ a.status \in {"predicted", "added"}
           /\ cutoff <= a.leaves
           /\ a = Extra(entry) => a.pickup = TRUE /\ a.date = None /\ a.trip = entry.trip
           /\ a # Extra(entry) =>
                 entry.line \in Subway
                 /\ \E slot \in Merged : /\ Free(slot) /\ slot.line = entry.line
                                         /\ a = TakeOver(slot, entry)
<1>1. entry \in Entry
  BY EntryOf
<1>2. entry.leaves \in Int /\ entry.time \in Int /\ cutoff <= entry.leaves /\ cutoff \in Int
  <2>1. PICK r \in AddedHere : entry = EntryFor(r)
    BY EntriesAre
  <2> QED BY <2>1, EntryFields DEF Typed
<1>3. Later(entry.leaves, entry.time) \in Int /\ cutoff <= Later(entry.leaves, entry.time)
  BY <1>2 DEF Later
<1>4. CASE a = Extra(entry)
  <2>1. /\ a \in Arrival /\ a.trip = entry.trip /\ a.date = None /\ a.line = entry.line
        /\ a.time = entry.time /\ a.realtime = TRUE /\ a.status = "added"
    BY <1>1, <1>4, ExtraOf
  <2>2. a.passed = FALSE /\ a.pickup = TRUE /\ a.leaves = Later(entry.leaves, entry.time)
    BY <1>4 DEF Extra, applyPrediction
  <2> QED BY <1>3, <1>4, <2>1, <2>2
<1>5. CASE a # Extra(entry)
  <2>1. PICK slot \in Merged : Free(slot) /\ slot.line = entry.line /\ a = TakeOver(slot, entry)
    BY <1>5 DEF Gives
  <2>2. slot \in Arrival /\ slot.sched \in Int
    BY MergedFields
  <2>3. entry.time - slot.sched \in Maybe /\ entry.time - slot.sched # None
    BY <1>2, <2>2, NoneAssumption DEF Maybe
  <2>4. a.line = slot.line /\ a.passed = slot.passed
    BY <2>1, <2>2, PredictionKeeps DEF TakeOver
  <2>5. a \in Arrival /\ a.time = entry.time /\ a.realtime = TRUE
    <3> DEFINE delay == entry.time - slot.sched
    <3>1. a = applyPrediction(slot, entry.time, delay, entry.leaves) /\ delay \in Maybe
      BY <2>1, <2>3 DEF TakeOver
    <3> HIDE DEF delay
    <3>2. a \in Arrival
      BY <1>2, <2>2, <3>1, PredictionGives
    <3>3. a.time = entry.time
      BY <2>2, <3>1 DEF applyPrediction, Arrival
    <3>4. a.realtime = TRUE
      BY <1>2, <2>2, <3>1, PredictionGives
    <3> QED BY <3>2, <3>3, <3>4
  <2>6. a.status = "predicted"
    BY <2>1, <2>2, <2>3, PredictionStatus DEF TakeOver
  <2>7. a.leaves = Later(entry.leaves, entry.time)
    BY <2>1, <2>2, PredictionLeaves DEF TakeOver
  <2>8. slot.passed = FALSE
    BY <2>1, <2>2 DEF Free, Arrival
  <2> QED BY <1>3, <1>5, <2>1, <2>4, <2>5, <2>6, <2>7, <2>8 DEF Gives
<1> QED BY <1>4, <1>5

\* There are no more entries than trains.
LEMMA EntriesFinite == ASSUME Typed PROVE IsFiniteSet(Entries)
<1> DEFINE f == [r \in AddedHere |-> EntryFor(r)]
<1>1. IsFiniteSet(AddedHere)
  BY TrainsAssumption, FS_Subset DEF AddedHere
<1>2. IsFiniteSet({f[r] : r \in AddedHere})
  <2>1. DOMAIN f = AddedHere
    OBVIOUS
  <2> HIDE DEF f
  <2> QED BY <1>1, <2>1, FiniteImage
<1>3. Entries = {f[r] : r \in AddedHere}
  BY EntriesAre
<1> QED BY <1>2, <1>3

\* An arrival and an entry of one line and time keep two counts even.
LEMMA OneMore ==
    ASSUME NEW S, IsFiniteSet(S), NEW T, IsFiniteSet(T), NEW x, x \notin S, NEW e, e \notin T,
           x.line = e.line, x.time = e.time, NEW line, NEW time,
           Cardinality(At(S, line, time)) = Cardinality(At(T, line, time))
    PROVE  Cardinality(At(S \cup {x}, line, time)) = Cardinality(At(T \cup {e}, line, time))
<1>1. IsFiniteSet(At(S, line, time)) /\ IsFiniteSet(At(T, line, time))
  BY FS_Subset DEF At
<1>2. x \notin At(S, line, time) /\ e \notin At(T, line, time)
  BY DEF At
<1>3. CASE x.line = line /\ x.time = time
  <2>1. At(S \cup {x}, line, time) = At(S, line, time) \cup {x}
    BY <1>3 DEF At
  <2>2. At(T \cup {e}, line, time) = At(T, line, time) \cup {e}
    BY <1>3 DEF At
  <2>3. Cardinality(At(S, line, time) \cup {x}) = Cardinality(At(S, line, time)) + 1
    BY <1>1, <1>2, FS_AddElement
  <2>4. Cardinality(At(T, line, time) \cup {e}) = Cardinality(At(T, line, time)) + 1
    BY <1>1, <1>2, FS_AddElement
  <2> QED BY <2>1, <2>2, <2>3, <2>4
<1>4. CASE ~(x.line = line /\ x.time = time)
  <2>1. At(S \cup {x}, line, time) = At(S, line, time) /\ At(T \cup {e}, line, time) = At(T, line, time)
    BY <1>4 DEF At
  <2> QED BY <2>1
<1> QED BY <1>3, <1>4

\* At first the rows are on the board and nothing is reconciled.
LEMMA CountsStart == ASSUME Typed PROVE Counts(Merged, Entries)
<1>1. \A line, time : At(Merged \ Merged, line, time) = {} /\ At(Entries \ Entries, line, time) = {}
  BY DEF At
<1>2. \A line : Distinct(line) => (line \in Subway => AloneOn(line, Merged))
  BY MergedOnce
<1> HIDE DEF Merged, Entries
<1> QED BY <1>1, <1>2 DEF Counts

\* No arrival is of the trip of an entry that is left.
LEMMA ExtraIsNew ==
    ASSUME Typed, NEW done, NEW left \in SUBSET Entries, Counts(done, left),
           NEW entry \in left, NEW a \in done, Distinct(a.line) \/ Distinct(entry.line)
    PROVE  ~SameTrip(a, Extra(entry)) /\ ~SameTrip(Extra(entry), a)
<1> DEFINE x == Extra(entry)
<1>1. entry \in Entry /\ entry \in Entries
  BY EntryOf
<1>2. x.trip = entry.trip /\ x.date = None
  BY <1>1, ExtraOf
<1> HIDE DEF x
<1> SUFFICES ASSUME a.trip = x.trip, a.date = x.date PROVE FALSE
  BY DEF SameTrip, x
<1>3. a \notin Merged
  BY <1>2, MergedFields
<1>4. PICK e \in Entries \ left : Gives(e, a)
  BY <1>3 DEF Counts
<1>5. a = Extra(e)
  <2>1. CASE a # Extra(e)
    <3>1. PICK slot \in Merged : a = TakeOver(slot, e)
      BY <1>4, <2>1, GivenArrival
    <3>2. a.date = slot.date /\ slot.date # None
      BY <3>1, MergedFields, PredictionKeeps DEF TakeOver
    <3> QED BY <1>2, <3>2
  <2> QED BY <2>1
<1>6. a.trip = e.trip /\ a.line = e.line
  BY <1>4, <1>5, GivenArrival
<1>7. PICK r \in AddedHere : e = EntryFor(r)
  BY <1>4, EntriesAre
<1>8. PICK q \in AddedHere : entry = EntryFor(q)
  BY <1>1, EntriesAre
<1>9. r = q
  BY <1>2, <1>6, <1>7, <1>8, EntryOnce
<1> QED BY <1>4, <1>7, <1>8, <1>9

\* An extra keeps the counts even.
LEMMA CountsExtra ==
    ASSUME Typed, NEW done, IsFiniteSet(done), NEW left \in SUBSET Entries, Counts(done, left),
           NEW entry \in left
    PROVE  Counts(done \cup {Extra(entry)}, left \ {entry})
<1> DEFINE x == Extra(entry)
           more == done \cup {x}
           less == left \ {entry}
<1>1. entry \in Entry /\ entry \in Entries
  BY EntryOf
<1>2. x.status = "added" /\ x.line = entry.line /\ x.time = entry.time
  BY <1>1, ExtraOf
<1>3. Gives(entry, x)
  BY DEF Gives
<1>4. \A a \in done : Distinct(a.line) \/ Distinct(entry.line) => ~SameTrip(a, x) /\ ~SameTrip(x, a)
  BY ExtraIsNew
<1> HIDE DEF x
<1>5. x \notin Merged
  BY <1>2, MergedFields
<1>6. more \ Merged = (done \ Merged) \cup {x} /\ Entries \ less = (Entries \ left) \cup {entry}
  <2> HIDE DEF Entries, Merged
  <2> QED BY <1>1, <1>5
<1>7. ASSUME NEW a \in more \ Merged
      PROVE  \E e \in Entries \ less : Gives(e, a)
  <2> HIDE DEF more, less
  <2>1. CASE a = x
    BY <1>3, <1>6, <2>1
  <2>2. CASE a # x
    <3>1. PICK e \in Entries \ left : Gives(e, a)
      BY <1>6, <1>7, <2>2 DEF Counts
    <3> QED BY <1>6, <3>1
  <2> QED BY <2>1, <2>2
<1>8. ASSUME NEW line \in Lines, Distinct(line), line \in Subway
      PROVE  AloneOn(line, more)
  <2>1. AloneOn(line, done)
    BY <1>8 DEF Counts
  <2>2. ASSUME NEW a \in more, NEW b \in more, a.line = line, SameTrip(a, b)
        PROVE  a = b
    <3>1. CASE a \in done /\ b \in done
      BY <2>1, <2>2, <3>1 DEF AloneOn
    <3>2. CASE a = x /\ b \in done
      BY <1>2, <1>4, <1>8, <2>2, <3>2
    <3>3. CASE a \in done /\ b = x
      BY <1>4, <1>8, <2>2, <3>3
    <3> QED BY <3>1, <3>2, <3>3, <2>2
  <2> HIDE DEF more
  <2> QED BY <2>2 DEF AloneOn
<1>9. ASSUME NEW line \in Lines, Distinct(line), NEW time \in Int
      PROVE  Cardinality(At(more \ Merged, line, time)) = Cardinality(At(Entries \ less, line, time))
  <2>1. Cardinality(At(done \ Merged, line, time)) = Cardinality(At(Entries \ left, line, time))
    BY <1>9 DEF Counts
  <2>2. CASE entry.line = line
    <3>1. x \notin done
      BY <1>2, <1>4, <1>9, <2>2 DEF SameTrip
    <3>2. IsFiniteSet(done \ Merged) /\ IsFiniteSet(Entries \ left)
      BY EntriesFinite, FS_Subset
    <3>3. x \notin done \ Merged /\ entry \notin Entries \ left
      BY <3>1
    <3>4. Cardinality(At((done \ Merged) \cup {x}, line, time)) =
             Cardinality(At((Entries \ left) \cup {entry}, line, time))
      BY <1>2, <2>1, <3>2, <3>3, OneMore
    <3> HIDE DEF more, less
    <3> QED BY <1>6, <3>4
  <2>3. CASE entry.line # line
    <3> HIDE DEF more, less
    <3>1. At(more \ Merged, line, time) = At(done \ Merged, line, time)
      BY <1>2, <1>6, <2>3 DEF At
    <3>2. At(Entries \ less, line, time) = At(Entries \ left, line, time)
      BY <1>6, <2>3 DEF At
    <3> QED BY <2>1, <3>1, <3>2
  <2> QED BY <2>2, <2>3
<1>10. \A m \in Merged : Free(m) \/ m \in more
  BY DEF Counts
<1> HIDE DEF more, less
<1>11. Counts(more, less)
  BY <1>7, <1>8, <1>9, <1>10 DEF Counts
<1> QED BY <1>11 DEF more, less, x

\* So does a slot that is taken over.
LEMMA CountsTaken ==
    ASSUME Typed, NEW done, IsFiniteSet(done), NEW left \in SUBSET Entries, Counts(done, left),
           NEW entry \in left, NEW slot \in Slots(done, entry)
    PROVE  Counts((done \ {slot}) \cup {TakeOver(slot, entry)}, left \ {entry})
<1> DEFINE x == TakeOver(slot, entry)
           more == (done \ {slot}) \cup {x}
           less == left \ {entry}
<1>1. slot \in done /\ Free(slot) /\ slot.line = entry.line /\ entry.line \in Subway /\ entry \in Entries
  BY DEF Slots, Free
<1>2. slot \in Merged
  <2> SUFFICES ASSUME slot \notin Merged PROVE FALSE
    OBVIOUS
  <2>1. PICK e \in Entries \ left : Gives(e, slot)
    BY <1>1 DEF Counts
  <2>2. slot.realtime = TRUE
    BY <2>1, GivenArrival
  <2> QED BY <1>1, <2>2 DEF Free
<1>3. Gives(entry, x)
  BY <1>1, <1>2 DEF Gives
<1>4. x.line = entry.line /\ x.time = entry.time /\ x.realtime = TRUE
  BY <1>1, <1>3, GivenArrival
<1>5. x.trip = slot.trip /\ x.date = slot.date
  BY <1>2, MergedFields, PredictionKeeps DEF TakeOver
<1> HIDE DEF x
<1>6. x # slot /\ SameTrip(slot, x)
  BY <1>1, <1>4, <1>5 DEF Free, SameTrip
<1>7. Entries \ less = (Entries \ left) \cup {entry}
  <2> HIDE DEF Entries
  <2> QED BY <1>1
<1>8. ASSUME NEW a \in more \ Merged
      PROVE  \E e \in Entries \ less : Gives(e, a)
  <2> HIDE DEF less
  <2>1. CASE a = x
    BY <1>3, <1>7, <2>1
  <2>2. CASE a # x
    <3>1. a \in done \ Merged
      BY <1>8, <2>2
    <3>2. PICK e \in Entries \ left : Gives(e, a)
      BY <3>1 DEF Counts
    <3> QED BY <1>7, <3>2
  <2> QED BY <2>1, <2>2
<1>9. ASSUME NEW line \in Lines, Distinct(line), line \in Subway
      PROVE  AloneOn(line, more)
  <2>1. AloneOn(line, done)
    BY <1>9 DEF Counts
  <2>2. ASSUME NEW a \in more, NEW b \in more, a.line = line, SameTrip(a, b)
        PROVE  a = b
    <3>1. CASE a \in done /\ b \in done
      BY <2>1, <2>2, <3>1 DEF AloneOn
    <3>2. CASE a = x /\ b \in done \ {slot}
      <4>1. SameTrip(slot, b) /\ slot.line = line
        BY <1>1, <1>4, <1>5, <2>2, <3>2 DEF SameTrip
      <4> QED BY <1>1, <2>1, <3>2, <4>1 DEF AloneOn
    <3>3. CASE a \in done \ {slot} /\ b = x
      <4>1. SameTrip(a, slot)
        BY <1>5, <2>2, <3>3 DEF SameTrip
      <4> QED BY <1>1, <2>1, <2>2, <3>3, <4>1 DEF AloneOn
    <3> QED BY <3>1, <3>2, <3>3, <2>2
  <2> HIDE DEF more
  <2> QED BY <2>2 DEF AloneOn
<1>10. ASSUME NEW line \in Lines, Distinct(line), NEW time \in Int
       PROVE  Cardinality(At(more \ Merged, line, time)) = Cardinality(At(Entries \ less, line, time))
  <2>1. Cardinality(At(done \ Merged, line, time)) = Cardinality(At(Entries \ left, line, time))
    BY <1>10 DEF Counts
  <2>2. CASE entry.line = line
    <3>1. AloneOn(line, done) /\ AloneOn(line, Merged)
      BY <1>1, <1>10, <2>2, MergedOnce DEF Counts
    <3>2. x \notin done /\ x \notin Merged
      BY <1>1, <1>2, <1>6, <2>2, <3>1 DEF AloneOn
    <3>3. IsFiniteSet(done \ Merged) /\ IsFiniteSet(Entries \ left)
      BY EntriesFinite, FS_Subset
    <3>4. x \notin done \ Merged /\ entry \notin Entries \ left
      BY <3>2
    <3>5. Cardinality(At((done \ Merged) \cup {x}, line, time)) =
             Cardinality(At((Entries \ left) \cup {entry}, line, time))
      BY <1>4, <2>1, <3>3, <3>4, OneMore
    <3>6. more \ Merged = (done \ Merged) \cup {x}
      <4> HIDE DEF Merged
      <4> QED BY <1>2, <3>2
    <3> HIDE DEF more, less
    <3> QED BY <1>7, <3>5, <3>6
  <2>3. CASE entry.line # line
    <3>1. At(more \ Merged, line, time) = At(done \ Merged, line, time)
      <4> HIDE DEF Merged
      <4> QED BY <1>2, <1>4, <2>3 DEF At
    <3> HIDE DEF more, less
    <3>2. At(Entries \ less, line, time) = At(Entries \ left, line, time)
      BY <1>7, <2>3 DEF At
    <3> QED BY <2>1, <3>1, <3>2
  <2> QED BY <2>2, <2>3
<1>11. \A m \in Merged : Free(m) \/ m \in more
  BY <1>1 DEF Counts
<1> HIDE DEF more, less
<1>12. Counts(more, less)
  BY <1>8, <1>9, <1>10, <1>11 DEF Counts
<1> QED BY <1>12 DEF more, less, x

\* The counts are about the arrivals, the entries that are left and what the request has read.
LEMMA CountsFrame ==
    ASSUME UNCHANGED <<plan, rows, trips, added, cutoff>>, Counts(arrivals', pending')
    PROVE  Counts(arrivals, pending)'
<1>1. Merged' = Merged /\ Entries' = Entries
  BY DEF Merged, Entries, Hashes
<1>2. \A entry, a : Gives(entry, a)' = Gives(entry, a)
  BY <1>1 DEF Gives, Free
<1>3. \A line : Distinct(line)' = Distinct(line)
  BY DEF Distinct, AtBoard
<1>4. Lines' = Lines /\ \A S, line, time : At(S, line, time)' = At(S, line, time)
  BY DEF Lines, At
<1>5. /\ \A m \in Merged' : Free(m)' \/ m \in arrivals'
      /\ \A a \in arrivals' \ Merged' : \E entry \in Entries' \ pending' : Gives(entry, a)'
  BY <1>1, <1>2 DEF Counts, Free
<1>6. ASSUME NEW line \in Lines', Distinct(line)'
      PROVE  /\ line \in Subway => AloneOn(line, arrivals)'
             /\ \A time \in Int : Cardinality(At(arrivals \ Merged, line, time)') =
                                  Cardinality(At(Entries \ pending, line, time)')
  <2>1. /\ line \in Subway => AloneOn(line, arrivals')
        /\ \A time \in Int : Cardinality(At(arrivals' \ Merged, line, time)) =
                             Cardinality(At(Entries \ pending', line, time))
    BY <1>3, <1>4, <1>6 DEF Counts
  <2>2. AloneOn(line, arrivals)' = AloneOn(line, arrivals')
    BY DEF AloneOn, SameTrip
  <2>3. \A time : /\ At(arrivals \ Merged, line, time)' = At(arrivals' \ Merged, line, time)
                  /\ At(Entries \ pending, line, time)' = At(Entries \ pending', line, time)
    BY <1>1 DEF At
  <2> QED BY <2>1, <2>2, <2>3
<1> QED BY <1>5, <1>6 DEF Counts

\* They are even when the last read ends.
LEMMA CountedStart == Typed /\ arrivals = Merged /\ pending = Entries => Counted
BY CountsStart DEF Counted

\* And after every step.
LEMMA CountedStep == ASSUME IInv, IInv', Counted, [Next]_vars PROVE Counted'
<1> USE DEF IInv
<1>1. CASE pc' \notin {"merge", "done"}
  BY <1>1 DEF Counted
<1>2. CASE UNCHANGED vars
  <2>1. pc' = pc /\ arrivals' = arrivals /\ pending' = pending
        /\ UNCHANGED <<plan, rows, trips, added, cutoff>>
    BY <1>2 DEF vars, request
  <2> QED BY <2>1, CountsFrame DEF Counted
<1>3. ASSUME NEW known \in BOOLEAN, Publish(known) PROVE Counted'
  BY <1>3 DEF Publish, request, Counted
<1>4. CASE Tick
  BY <1>4 DEF Tick, request, Counted
<1>5. ASSUME NEW after \in After, Request(after) PROVE Counted'
  BY <1>5 DEF Request, Counted
<1>11. CASE NearbyRequest
  BY <1>11 DEF NearbyRequest, Counted
<1>6. CASE ReadTrips
  BY <1>6 DEF ReadTrips, Counted
<1>7. CASE ReadAdded
  <2>1. /\ arrivals' = mergeRealtime(rows, Hashes(trips).tripUpdates)
        /\ pending' = AddedEntries(Hashes(added').addedTrips, cutoff)
        /\ plan' = plan /\ rows' = rows /\ trips' = trips /\ cutoff' = cutoff
    BY <1>7, WhatIsRead
  <2>3. arrivals' = Merged' /\ pending' = Entries'
    BY <2>1 DEF Merged, Entries, Hashes
  <2>2. Typed' /\ (arrivals = Merged)' /\ (pending = Entries)' => Counted'
    BY CountedStart, PTL
  <2> QED BY <2>2, <2>3
<1>8. ASSUME NEW entry \in pending, Reconcile(entry) PROVE Counted'
  <2>1. /\ pc = "merge" /\ UNCHANGED <<plan, rows, trips, added, cutoff>>
        /\ pending' = pending \ {entry}
        /\ pending \in SUBSET Entries /\ IsFiniteSet(arrivals)
    BY <1>8 DEF Reconcile, InOrder
  <2>2. Counts(arrivals, pending)
    BY <2>1 DEF Counted
  <2>3. Counts(arrivals', pending')
    <3>1. CASE Slots(arrivals, entry) = {}
      <4>1. arrivals' = arrivals \cup {Extra(entry)}
        BY <1>8, <3>1 DEF Reconcile
      <4> QED BY <2>1, <2>2, <4>1, CountsExtra
    <3>2. CASE Slots(arrivals, entry) # {}
      <4>1. PICK slot \in Slots(arrivals, entry) :
               arrivals' = (arrivals \ {slot}) \cup {TakeOver(slot, entry)}
        BY <1>8, <3>2 DEF Reconcile, Closest, Nearest
      <4> QED BY <2>1, <2>2, <4>1, CountsTaken
    <3> QED BY <3>1, <3>2
  <2> QED BY <2>1, <2>3, CountsFrame DEF Counted
<1>9. CASE Respond
  <2>1. /\ pc = "merge" /\ arrivals' = arrivals /\ pending' = pending
        /\ UNCHANGED <<plan, rows, trips, added, cutoff>>
    BY <1>9 DEF Respond
  <2> QED BY <2>1, CountsFrame DEF Counted
<1>10. CASE End
  BY <1>10 DEF End, Counted
<1> QED BY <1>2, <1>3, <1>4, <1>5, <1>6, <1>7, <1>8, <1>9, <1>10, <1>11 DEF Next

\* With IInv, this is an invariant.
LEMMA Counting == Spec => [](IInv /\ Counted)
<1>1. Init => IInv /\ Counted
  BY InitIInv DEF Init, Counted
<1>2. (IInv /\ Counted) /\ [Next]_vars => (IInv /\ Counted)'
  <2> SUFFICES ASSUME IInv, Counted, [Next]_vars PROVE IInv' /\ Counted'
    OBVIOUS
  <2>1. IInv'
    BY TypedInductive, OrderInductive DEF IInv
  <2> QED BY <2>1, CountedStep
<1> QED BY <1>1, <1>2, PTL DEF Spec
----------------------------------------------------------------------------
\* The rows of trains that the feed follows.
LEMMA MergedPickup ==
    ASSUME Typed, NEW r \in InService, NEW k \in AtBoard(r)
    PROVE  mergeRow(Row(r, k), Hashes(trips).tripUpdates).pickup = Stops(r)[k].pickup
<1> DEFINE a == Scheduled(Row(r, k))
           m == mergeRow(Row(r, k), Hashes(trips).tripUpdates)
<1>1. a \in Arrival /\ a.pickup = Stops(r)[k].pickup
  BY ScheduledRow
<1>2. TimelyRow(r, k).pickup = Stops(r)[k].pickup
  BY TimelyFields DEF Typed
<1>3. \/ m = a
      \/ m = [a EXCEPT !.passed = TRUE]
      \/ m = [a EXCEPT !.status = "canceled"]
      \/ m = [a EXCEPT !.status = "skipped"]
      \/ m = TimelyRow(r, k)
  <2>1. plan \in Plans /\ trips \in Snapshot \cup {None}
    BY DEF Typed
  <2> QED BY <2>1, MergedRow
<1> HIDE DEF a, m
<1>4. m.pickup = Stops(r)[k].pickup
  BY <1>1, <1>2, <1>3 DEF Arrival
<1> QED BY <1>4 DEF m

\* A prediction is that of a train which is followed, and has not passed the stop.
LEMMA RealtimeRow ==
    ASSUME Typed, NEW r \in InService, NEW k \in AtBoard(r),
           mergeRow(Row(r, k), Hashes(trips).tripUpdates).realtime = TRUE
    PROVE  /\ ByTrip(r) /\ k \in Ahead(plan, r, trips.at)
           /\ mergeRow(Row(r, k), Hashes(trips).tripUpdates) = TimelyRow(r, k)
<1> DEFINE a == Scheduled(Row(r, k))
           m == mergeRow(Row(r, k), Hashes(trips).tripUpdates)
           style == plan[r].style
           ahead == Ahead(plan, r, trips.at)
<1>1. plan \in Plans /\ plan \in [Run -> Plan] /\ trips \in Snapshot \cup {None} /\ r \in Run
  BY PlansAssumption, TrainsAssumption DEF Typed
<1>2. a \in Arrival /\ ~a.realtime
  BY ScheduledRow
<1>3. /\ ~Follows(r, trips) => m = a
      /\ Follows(r, trips) =>
            /\ style = "canceled" => m = [a EXCEPT !.status = "canceled"]
            /\ style = "skipping" => m \in {[a EXCEPT !.status = "skipped"], [a EXCEPT !.passed = TRUE]}
            /\ style \in Timed /\ k \in ahead => m = TimelyRow(r, k)
            /\ style = "nodata" /\ k \in ahead => m = a
            /\ k \notin ahead =>
                  /\ style \in {"nodata"} \cup (Timed \ {"platforms"}) => m = [a EXCEPT !.passed = TRUE]
                  /\ style = "platforms" => m = a
  BY <1>1, MergedRow
<1> HIDE DEF a, m, ahead
<1>4. m.realtime = TRUE
  BY DEF m
<1>5. Follows(r, trips)
  BY <1>2, <1>3, <1>4
<1>6. style \in Timed \cup {"nodata", "skipping", "canceled"}
  BY <1>5 DEF Follows, OwnStyle, Style, Timed
<1>7. style \notin {"canceled", "skipping"}
  BY <1>2, <1>3, <1>4, <1>5 DEF Arrival
<1>8. k \in ahead
  <2>1. CASE k \notin ahead
    BY <1>2, <1>3, <1>4, <1>5, <1>6, <1>7, <2>1 DEF Arrival
  <2> QED BY <2>1
<1>9. style \in Timed
  BY <1>2, <1>3, <1>4, <1>5, <1>6, <1>7, <1>8
<1>10. m = TimelyRow(r, k)
  BY <1>3, <1>5, <1>8, <1>9
<1>11. ByTrip(r)
  BY <1>5, <1>9 DEF Follows, InFeed, ByTrip, Listed, Timed
<1> QED BY <1>8, <1>10, <1>11 DEF m, ahead

Settled == IInv /\ Counted /\ pc = "done"

Coming == Boarding(arrivals, cutoff)

\* What is known when the response is made.
LEMMA WhenSettled ==
    ASSUME Settled
    PROVE  /\ Typed /\ Counts(arrivals, {}) /\ plan \in Plans /\ plan \in [Run -> Plan] /\ cutoff \in Int
           /\ arrivals \subseteq Arrival /\ IsFiniteSet(arrivals)
           /\ Coming \subseteq arrivals /\ IsFiniteSet(Coming) /\ Coming \subseteq Arrival
           /\ board \in selectUpcoming(arrivals, cutoff, cappedLimit)
<1>1. Typed /\ InOrder /\ Counted /\ pc = "done"
  BY DEF Settled, IInv
<1>2. pending = {} /\ IsFiniteSet(arrivals) /\ board \in selectUpcoming(arrivals, cutoff, cappedLimit)
  BY <1>1 DEF InOrder
<1>3. arrivals \subseteq Arrival
  BY <1>1, BoardOf DEF IInv
<1>4. Coming \subseteq arrivals
  BY DEF Coming, Boarding
<1>5. IsFiniteSet(Coming)
  BY <1>2, <1>4, FS_Subset
<1>6. Counts(arrivals, {})
  BY <1>1, <1>2 DEF Counted
<1>7. plan \in Plans /\ plan \in [Run -> Plan] /\ cutoff \in Int
  BY <1>1, PlansAssumption DEF Typed
<1> QED BY <1>1, <1>2, <1>3, <1>4, <1>5, <1>6, <1>7

\* A train that is followed is coming, wherever it can be boarded.
LEMMA CaughtRow ==
    ASSUME Settled, NEW r \in Run, ByTrip(r), NEW k \in Catchable(r)
    PROVE  /\ r \in InService /\ k \in AtBoard(r) /\ k \in Ahead(plan, r, trips.at)
           /\ TimelyRow(r, k) \in Merged /\ TimelyRow(r, k) \in Coming
<1> DEFINE m == TimelyRow(r, k)
<1>1. /\ r \in InService /\ k \in AtBoard(r) /\ k \in Ahead(plan, r, trips.at)
      /\ Until(r, k) + plan[r].delay >= cutoff /\ Stops(r)[k].pickup /\ Row(r, k) \in rows
  BY DEF ByTrip, Catchable, Fetched
<1>2. plan[r].style \in Timed /\ Follows(r, trips)
  <2>1. plan[r].style \in Timed /\ Listed(r, trips)
    BY DEF ByTrip, Timed
  <2>2. plan[r].style \in OwnStyle
    BY <2>1 DEF Timed, OwnStyle, Style
  <2> QED BY <1>1, <2>1, <2>2, WhenSettled, ListedFollows
<1>3. mergeRow(Row(r, k), Hashes(trips).tripUpdates) = m
  <2>1. plan \in Plans /\ trips \in Snapshot \cup {None}
    BY WhenSettled DEF Typed
  <2> QED BY <1>1, <1>2, <2>1, MergedRow
<1>4. m \in Merged
  BY <1>1, <1>3 DEF Merged, mergeRealtime
<1>5. /\ m.realtime = TRUE /\ m.status = "predicted" /\ m.passed = FALSE
      /\ m.pickup = Stops(r)[k].pickup /\ m.leaves = Until(r, k) + plan[r].delay
  BY <1>1, WhenSettled, TimelyFields
<1> HIDE DEF m
<1>6. m \in arrivals
  <2>1. ~Free(m)
    BY <1>5 DEF Free
  <2> QED BY <1>4, <2>1, WhenSettled DEF Counts
<1>7. m \in Coming
  BY <1>1, <1>5, <1>6 DEF Coming, Boarding
<1> QED BY <1>1, <1>4, <1>7 DEF m

\* And on a line of distinct trains nothing else is coming of its trip.
LEMMA OwnComing ==
    ASSUME Settled, NEW r \in Run, ByTrip(r), Catchable(r) # {}, Distinct(Line[Trip[r]]),
           NEW a \in Coming, a.trip = Trip[r], a.date = Date[r]
    PROVE  \E k \in Catchable(r) : a = TimelyRow(r, k)
<1> DEFINE line == Line[Trip[r]]
<1>1. PICK n \in Catchable(r) : TRUE
  OBVIOUS
<1>2. /\ r \in InService /\ n \in AtBoard(r) /\ n \in Ahead(plan, r, trips.at)
      /\ TimelyRow(r, n) \in Merged
  BY <1>1, CaughtRow
<1>3. /\ TimelyRow(r, n).realtime = TRUE /\ TimelyRow(r, n).line = line
      /\ TimelyRow(r, n).trip = Trip[r] /\ TimelyRow(r, n).date = Date[r]
  BY <1>2, WhenSettled, TimelyFields DEF RowOf
<1>4. a \in Arrival /\ a \in arrivals /\ a.pickup /\ ~a.passed /\ a.leaves >= cutoff /\ Date[r] # None
  BY WhenSettled, TrainsAssumption DEF Coming, Boarding
<1>5. a \in Merged
  <2> SUFFICES ASSUME a \notin Merged PROVE FALSE
    OBVIOUS
  <2>1. PICK e \in Entries : Gives(e, a)
    BY <1>4, WhenSettled DEF Counts
  <2>2. PICK slot \in Merged : Free(slot) /\ slot.line = e.line /\ a = TakeOver(slot, e) /\ e.line \in Subway
    <3>1. a # Extra(e)
      BY <1>4, <2>1, WhenSettled, GivenArrival
    <3> QED BY <2>1, <3>1, WhenSettled, GivenArrival
  <2>3. a.trip = slot.trip /\ a.date = slot.date
    BY <2>2, WhenSettled, MergedFields, PredictionKeeps DEF TakeOver
  <2>4. PICK q \in InService : RowOf(q, slot)
    BY WhenSettled, MergedMember
  <2>5. slot.line = line
    <3>1. Trip[q] = Trip[r]
      BY <2>3, <2>4 DEF RowOf
    <3> QED BY <2>4, <3>1 DEF RowOf
  <2>6. SameTrip(slot, TimelyRow(r, n))
    BY <1>3, <2>3 DEF SameTrip
  <2>7. slot = TimelyRow(r, n)
    BY <1>2, <2>2, <2>5, <2>6, WhenSettled, MergedOnce DEF AloneOn
  <2> QED BY <1>3, <2>2, <2>7 DEF Free
<1>6. PICK q \in InService : \E k \in AtBoard(q) :
         /\ Row(q, k) \in rows /\ a = mergeRow(Row(q, k), Hashes(trips).tripUpdates) /\ RowOf(q, a)
  BY <1>5, WhenSettled, MergedMember
<1>7. q = r
  <2>1. Trip[q] = Trip[r] /\ Date[q] = Date[r]
    BY <1>6 DEF RowOf
  <2> QED BY <1>2, <2>1, TrainsAssumption
<1>8. PICK k \in AtBoard(r) :
         Row(r, k) \in rows /\ a = mergeRow(Row(r, k), Hashes(trips).tripUpdates)
  BY <1>6, <1>7
<1>9. plan[r].style \in Timed /\ Follows(r, trips)
  <2>1. plan[r].style \in Timed /\ Listed(r, trips)
    BY DEF ByTrip, Timed
  <2>2. plan[r].style \in OwnStyle
    BY <2>1 DEF Timed, OwnStyle, Style
  <2> QED BY <1>2, <2>1, <2>2, WhenSettled, ListedFollows
<1>10. /\ k \in Ahead(plan, r, trips.at) => a = TimelyRow(r, k)
       /\ k \notin Ahead(plan, r, trips.at) /\ plan[r].style \in Timed \ {"platforms"} =>
             a = [Scheduled(Row(r, k)) EXCEPT !.passed = TRUE]
  <2>1. plan \in Plans /\ trips \in Snapshot \cup {None}
    BY WhenSettled DEF Typed
  <2> QED BY <1>2, <1>8, <1>9, <2>1, MergedRow
<1>11. k \in Ahead(plan, r, trips.at)
  <2> SUFFICES ASSUME k \notin Ahead(plan, r, trips.at) PROVE FALSE
    OBVIOUS
  <2>1. CASE plan[r].style # "platforms"
    <3>1. Scheduled(Row(r, k)) \in Arrival
      BY <1>2, ScheduledRow
    <3>2. a.passed = TRUE
      BY <1>9, <1>10, <2>1, <3>1 DEF Arrival
    <3> QED BY <1>4, <3>2
  <2>2. CASE plan[r].style = "platforms"
    <3>1. /\ k \in DOMAIN Stops(r) /\ n \in DOMAIN Stops(r)
          /\ Stops(r)[k].stop \in BoardStops /\ Stops(r)[n].stop \in BoardStops
      BY <1>2, <1>8 DEF AtBoard
    <3>2. k = n
      BY <1>2, <2>2, <3>1, WhenSettled, PlansAssumption
    <3> QED BY <1>2, <3>2
  <2> QED BY <2>1, <2>2
<1>12. a = TimelyRow(r, k)
  BY <1>10, <1>11
<1>13. a.pickup = Stops(r)[k].pickup /\ a.leaves = Until(r, k) + plan[r].delay
  BY <1>2, <1>12, WhenSettled, TimelyFields
<1>14. k \in Catchable(r)
  BY <1>4, <1>8, <1>11, <1>13 DEF Catchable, Fetched
<1> QED BY <1>12, <1>14

\* The next visit of a trip.
NextOfTrip(S, trip, date) ==
    CHOOSE a \in {b \in S : b.trip = trip /\ b.date = date} :
        \A b \in S : b.trip = trip /\ b.date = date => a.time <= b.time

\* The next visits, by trip_id and date; each is the first of its trip.
LEMMA VisitsByTrip ==
    ASSUME NEW S \in SUBSET Arrival, IsFiniteSet(S)
    PROVE  /\ NextVisits(S) = {NextOfTrip(S, c.trip, c.date) : c \in S}
           /\ \A c \in S :
                 LET v == NextOfTrip(S, c.trip, c.date)
                 IN  /\ v \in S /\ v.trip = c.trip /\ v.date = c.date
                     /\ \A b \in S : b.trip = c.trip /\ b.date = c.date => v.time <= b.time
<1>1. NextVisits(S) = {NextOfTrip(S, c.trip, c.date) : c \in S}
  BY DEF NextVisits, NextOfTrip, SameTrip
<1>2. ASSUME NEW c \in S
      PROVE  LET v == NextOfTrip(S, c.trip, c.date)
             IN  /\ v \in S /\ v.trip = c.trip /\ v.date = c.date
                 /\ \A b \in S : b.trip = c.trip /\ b.date = c.date => v.time <= b.time
  <2> DEFINE w == CHOOSE a \in {b \in S : SameTrip(b, c)} :
                      \A b \in S : SameTrip(b, c) => a.time <= b.time
  <2>1. \E v \in S : /\ v = w
                     /\ v.trip = c.trip /\ v.date = c.date /\ v.time <= c.time
                     /\ \A b \in S : SameTrip(b, c) => v.time <= b.time
    BY NextVisit
  <2>2. w = NextOfTrip(S, c.trip, c.date)
    BY DEF NextOfTrip, SameTrip
  <2> HIDE DEF w
  <2> QED BY <2>1, <2>2 DEF SameTrip
<1> QED BY <1>1, <1>2

FollowedHere == {r \in Run : ByTrip(r) /\ Catchable(r) # {}}

ShownFor(r) == NextOfTrip(Coming, Trip[r], Date[r])

\* A train that is followed and can be boarded is shown when it comes there next.
LEMMA TrackedNext ==
    ASSUME Settled, NEW r \in FollowedHere, Distinct(Line[Trip[r]])
    PROVE  /\ ShownFor(r) \in NextVisits(Coming) /\ ShownFor(r) \in Merged
           /\ ShownFor(r).realtime = TRUE /\ ShownFor(r).line = Line[Trip[r]]
           /\ ShownFor(r).time = RealTime(r)
           /\ ShownFor(r).trip = Trip[r] /\ ShownFor(r).date = Date[r]
<1> DEFINE n == NextStop(r)
           c == TimelyRow(r, n)
           v == ShownFor(r)
<1>1. r \in Run /\ ByTrip(r) /\ Catchable(r) # {} /\ Typed
  BY WhenSettled DEF FollowedHere
<1>2. /\ n \in Catchable(r) /\ n \in Places(r) /\ (\A j \in Catchable(r) : n <= j)
      /\ plan[r].delay \in Int /\ RealTime(r) \in Int
  BY <1>1, NextStopOf
<1>3. r \in InService /\ n \in AtBoard(r) /\ c \in Coming
  BY <1>1, <1>2, CaughtRow
<1>4. RealTime(r) = Comes(r, n) + plan[r].delay
  <2>1. Due(r, n) \in Int /\ Until(r, n) \in Int
    BY <1>1, <1>2, StopTimes
  <2> HIDE DEF n
  <2>2. RealTime(r) = plan[r].delay + Comes(r, n)
    BY DEF RealTime, Comes, n
  <2>3. Comes(r, n) \in Int
    BY <2>1 DEF Comes
  <2> QED BY <1>2, <2>2, <2>3
<1> HIDE DEF n
<1>5. c.trip = Trip[r] /\ c.date = Date[r] /\ c.time = RealTime(r)
  BY <1>3, <1>4, WhenSettled, TimelyFields DEF RowOf
<1> HIDE DEF c
<1>6. /\ v \in NextVisits(Coming) /\ v \in Coming /\ v.trip = Trip[r] /\ v.date = Date[r]
      /\ v.time <= c.time
  <2>1. Coming \in SUBSET Arrival /\ IsFiniteSet(Coming)
    BY WhenSettled
  <2>2. v = NextOfTrip(Coming, c.trip, c.date)
    BY <1>5 DEF ShownFor
  <2> HIDE DEF v
  <2> QED BY <1>3, <1>5, <2>1, <2>2, VisitsByTrip
<1> HIDE DEF v
<1>7. PICK k \in Catchable(r) : v = TimelyRow(r, k)
  BY <1>1, <1>6, OwnComing
<1>8. r \in InService /\ k \in AtBoard(r) /\ TimelyRow(r, k) \in Merged
  BY <1>1, <1>7, CaughtRow
<1>9. /\ v.realtime = TRUE /\ v.line = Line[Trip[r]] /\ v.time = Comes(r, k) + plan[r].delay
  BY <1>7, <1>8, WhenSettled, TimelyFields DEF RowOf
<1>10. k \in Places(r) /\ n <= k
  BY <1>2, <1>8 DEF AtBoard, Places
<1>11. Comes(r, n) <= Comes(r, k) /\ Comes(r, n) \in Int /\ Comes(r, k) \in Int
  <2>1. /\ Due(r, n) \in Int /\ Until(r, n) \in Int /\ Due(r, k) \in Int /\ Until(r, k) \in Int
    BY <1>1, <1>2, <1>10, StopTimes
  <2>2. Until(r, n) <= Until(r, k) /\ Due(r, n) <= Due(r, k)
    BY <1>1, <1>2, <1>10, TimesInOrder
  <2> QED BY <2>1, <2>2 DEF Comes
<1>12. v.time = RealTime(r)
  BY <1>2, <1>4, <1>5, <1>6, <1>9, <1>11
<1> QED BY <1>6, <1>7, <1>8, <1>9, <1>12 DEF v

\* And a prediction of a row is shown for such a train only.
LEMMA TrackedOnly ==
    ASSUME Settled, NEW v \in NextVisits(Coming), v \in Merged, v.realtime = TRUE
    PROVE  \E r \in FollowedHere : Line[Trip[r]] = v.line /\ v = ShownFor(r)
<1>1. PICK c \in Coming : v = NextOfTrip(Coming, c.trip, c.date)
  BY WhenSettled, VisitsByTrip
<1>2. v \in Coming /\ v.trip = c.trip /\ v.date = c.date
  BY <1>1, WhenSettled, VisitsByTrip
<1>3. PICK r \in InService : \E k \in AtBoard(r) :
         /\ Row(r, k) \in rows /\ v = mergeRow(Row(r, k), Hashes(trips).tripUpdates) /\ RowOf(r, v)
  BY WhenSettled, MergedMember
<1>4. PICK k \in AtBoard(r) : Row(r, k) \in rows /\ v = mergeRow(Row(r, k), Hashes(trips).tripUpdates)
  BY <1>3
<1>5. ByTrip(r) /\ k \in Ahead(plan, r, trips.at) /\ v = TimelyRow(r, k)
  BY <1>4, WhenSettled, RealtimeRow
<1>6. v.pickup /\ v.leaves >= cutoff
  BY <1>2 DEF Coming, Boarding
<1>7. v.pickup = Stops(r)[k].pickup /\ v.leaves = Until(r, k) + plan[r].delay
  BY <1>5, WhenSettled, TimelyFields
<1>8. k \in Catchable(r)
  BY <1>4, <1>5, <1>6, <1>7 DEF Catchable, Fetched
<1>9. r \in FollowedHere
  BY <1>5, <1>8, TrainsAssumption DEF FollowedHere
<1>10. v.trip = Trip[r] /\ v.date = Date[r] /\ v.line = Line[Trip[r]]
  BY <1>3 DEF RowOf
<1>11. v = ShownFor(r)
  BY <1>1, <1>2, <1>10 DEF ShownFor
<1> QED BY <1>9, <1>10, <1>11

\* An added train that is on the board is shown, and nothing else of its trip is coming.
LEMMA AddedNext ==
    ASSUME Settled, NEW a \in arrivals \ Merged, Distinct(a.line), a.line \in Lines
    PROVE  a \in NextVisits(Coming) /\ a.realtime = TRUE
<1>1. PICK e \in Entries : Gives(e, a)
  BY WhenSettled DEF Counts
<1>2. /\ a.line = e.line /\ a.realtime = TRUE /\ a.passed = FALSE /\ cutoff <= a.leaves
      /\ a.status \in {"predicted", "added"} /\ a \in Arrival
  BY <1>1, WhenSettled, GivenArrival
<1>3. ASSUME a # Extra(e)
      PROVE  /\ a.pickup
             /\ \A b \in arrivals : SameTrip(a, b) => a = b
  <2>1. PICK slot \in Merged : Free(slot) /\ slot.line = e.line /\ a = TakeOver(slot, e) /\ e.line \in Subway
    BY <1>1, <1>3, WhenSettled, GivenArrival
  <2>2. PICK r \in InService : \E k \in AtBoard(r) :
           slot = mergeRow(Row(r, k), Hashes(trips).tripUpdates) /\ RowOf(r, slot)
    BY WhenSettled, MergedMember
  <2>3. Line[Trip[r]] = a.line
    BY <1>2, <2>1, <2>2 DEF RowOf
  <2>4. \A k \in AtBoard(r) : Stops(r)[k].pickup
    BY <1>2, <2>1, <2>3 DEF Distinct
  <2>5. slot.pickup
    BY <2>2, <2>4, WhenSettled, MergedPickup
  <2>6. a.pickup = slot.pickup
    BY <2>1, WhenSettled, MergedFields, PredictionKeeps DEF TakeOver
  <2>7. AloneOn(a.line, arrivals)
    BY <1>2, <2>1, WhenSettled DEF Counts
  <2> QED BY <2>5, <2>6, <2>7 DEF AloneOn
<1>4. ASSUME a = Extra(e)
      PROVE  /\ a.pickup
             /\ \A b \in arrivals : SameTrip(a, b) => a = b
  <2>1. a.pickup = TRUE /\ a.date = None /\ a.trip = e.trip
    BY <1>1, <1>4, WhenSettled, GivenArrival
  <2>2. ASSUME NEW b \in arrivals, SameTrip(a, b) PROVE a = b
    <3>1. b.date = None /\ b.trip = e.trip
      BY <2>1, <2>2 DEF SameTrip
    <3>2. b \notin Merged
      BY <3>1, WhenSettled, MergedFields
    <3>3. PICK d \in Entries : Gives(d, b)
      BY <3>2, WhenSettled DEF Counts
    <3>4. b = Extra(d)
      <4> SUFFICES ASSUME b # Extra(d) PROVE FALSE
        OBVIOUS
      <4>1. PICK slot \in Merged : b = TakeOver(slot, d)
        BY <3>3 DEF Gives
      <4>2. b.date = slot.date /\ slot.date # None
        BY <4>1, WhenSettled, MergedFields, PredictionKeeps DEF TakeOver
      <4> QED BY <3>1, <4>2
    <3>5. b.trip = d.trip
      BY <3>3, <3>4, WhenSettled, GivenArrival
    <3>6. PICK r \in AddedHere : e = EntryFor(r)
      BY WhenSettled, EntriesAre
    <3>7. PICK q \in AddedHere : d = EntryFor(q)
      BY WhenSettled, EntriesAre
    <3>8. r = q
      BY <1>2, <3>1, <3>5, <3>6, <3>7, WhenSettled, EntryOnce
    <3> QED BY <1>4, <3>4, <3>6, <3>7, <3>8
  <2> QED BY <2>1, <2>2
<1>5. a.pickup /\ \A b \in arrivals : SameTrip(a, b) => a = b
  BY <1>3, <1>4
<1>6. a.leaves >= cutoff
  BY <1>2, WhenSettled DEF Arrival
<1>7. a \in Coming
  BY <1>2, <1>5, <1>6 DEF Coming, Boarding
<1>8. NextOfTrip(Coming, a.trip, a.date) = a
  <2> DEFINE v == NextOfTrip(Coming, a.trip, a.date)
  <2>1. v \in Coming /\ v.trip = a.trip /\ v.date = a.date
    BY <1>7, WhenSettled, VisitsByTrip
  <2>2. v \in arrivals
    BY <2>1, WhenSettled
  <2> HIDE DEF v
  <2>3. SameTrip(a, v)
    BY <2>1 DEF SameTrip
  <2>4. v = a
    BY <1>5, <2>2, <2>3
  <2> QED BY <2>4 DEF v
<1>9. a \in NextVisits(Coming)
  BY <1>7, <1>8, WhenSettled, VisitsByTrip
<1> QED BY <1>2, <1>9

\* Different images are as many as what they are images of.
LEMMA AsManyImages ==
    ASSUME NEW S, IsFiniteSet(S), NEW f, DOMAIN f = S, \A x, y \in S : f[x] = f[y] => x = y
    PROVE  /\ IsFiniteSet({f[x] : x \in S})
           /\ Cardinality({f[x] : x \in S}) = Cardinality(S)
<1> DEFINE T == {f[x] : x \in S}
           g == [x \in S |-> f[x]]
<1>1. g \in [S -> T] /\ (\A x, y \in S : g[x] = g[y] => x = y) /\ \A t \in T : \E x \in S : g[x] = t
  OBVIOUS
<1> HIDE DEF g
<1>2. g \in Bijection(S, T)
  <2> HIDE DEF T
  <2> QED BY <1>1 DEF Bijection, Injection, Surjection, IsInjective
<1>3. ExistsBijection(S, T)
  BY <1>2 DEF ExistsBijection
<1> HIDE DEF T
<1>4. IsFiniteSet(T) /\ Cardinality(T) = Cardinality(S)
  BY <1>3, FS_Bijection
<1> QED BY <1>4 DEF T

\* A set in two parts has the size of both.
LEMMA InTwoParts ==
    ASSUME NEW S, IsFiniteSet(S), NEW T, IsFiniteSet(T), S \cap T = {}
    PROVE  IsFiniteSet(S \cup T) /\ Cardinality(S \cup T) = Cardinality(S) + Cardinality(T)
BY FS_Union, FS_EmptySet, FS_CardinalityType

\* As many predictions are shown, were the board endless, as trains are tracked.
LEMMA AsManyShown ==
    ASSUME Settled, NEW line \in Lines, Distinct(line), NEW time \in Int
    PROVE  Cardinality({v \in NextVisits(Coming) : v.realtime /\ v.line = line /\ v.time = time}) =
           Cardinality({r \in Tracked : Line[Trip[r]] = line /\ RealTime(r) = time})
<1> DEFINE N == {v \in NextVisits(Coming) : v.realtime /\ v.line = line /\ v.time = time}
           T == {r \in Tracked : Line[Trip[r]] = line /\ RealTime(r) = time}
           Followed == {r \in FollowedHere : Line[Trip[r]] = line /\ RealTime(r) = time}
           Extras == {r \in AddedHere : Line[Trip[r]] = line /\ RealTime(r) = time}
           shown == [r \in Followed |-> ShownFor(r)]
           entry == [r \in Extras |-> EntryFor(r)]
           OfRows == {shown[r] : r \in Followed}
           OfExtras == At(arrivals \ Merged, line, time)
<1>1. IsFiniteSet(Followed) /\ IsFiniteSet(Extras) /\ IsFiniteSet(OfExtras)
  <2>1. Followed \subseteq Run /\ Extras \subseteq Run /\ OfExtras \subseteq arrivals
    BY DEF FollowedHere, AddedHere, At
  <2> QED BY <2>1, WhenSettled, TrainsAssumption, FS_Subset
<1>2. T = Followed \cup Extras /\ Followed \cap Extras = {}
  <2>1. T = Followed \cup Extras
    BY DEF Tracked, FollowedHere, AddedHere
  <2>2. \A r \in Run : ByAdded(r) => ~ByTrip(r)
    BY WhenSettled, AddedCatch
  <2> QED BY <2>1, <2>2 DEF FollowedHere, AddedHere
<1>3. Cardinality(T) = Cardinality(Followed) + Cardinality(Extras)
  <2> HIDE DEF T, Followed, Extras
  <2> QED BY <1>1, <1>2, InTwoParts
<1>4. IsFiniteSet(OfRows) /\ Cardinality(OfRows) = Cardinality(Followed)
  <2>1. DOMAIN shown = Followed
    OBVIOUS
  <2>2. ASSUME NEW r \in Followed, NEW q \in Followed, shown[r] = shown[q] PROVE r = q
    <3>1. r \in FollowedHere /\ q \in FollowedHere /\ Line[Trip[r]] = line /\ Line[Trip[q]] = line
      OBVIOUS
    <3>2. ShownFor(r) = ShownFor(q)
      BY <2>2
    <3>3. Trip[r] = Trip[q] /\ Date[r] = Date[q]
      BY <3>1, <3>2, TrackedNext
    <3> QED BY <3>1, <3>3, TrainsAssumption DEF FollowedHere, ByTrip
  <2> HIDE DEF shown, Followed
  <2> QED BY <1>1, <2>1, <2>2, AsManyImages
<1>5. Cardinality(OfExtras) = Cardinality(Extras)
  <2>1. Cardinality(OfExtras) = Cardinality(At(Entries \ {}, line, time))
    BY WhenSettled DEF Counts
  <2>2. At(Entries \ {}, line, time) = {entry[r] : r \in Extras}
    <3>1. \A r \in AddedHere : EntryFor(r).line = Line[Trip[r]] /\ EntryFor(r).time = RealTime(r)
      BY WhenSettled, EntryFields
    <3>2. Entries = {EntryFor(r) : r \in AddedHere}
      BY WhenSettled, EntriesAre
    <3>3. At(Entries \ {}, line, time) = {EntryFor(r) : r \in Extras}
      <4> HIDE DEF Entries, EntryFor, AddedHere
      <4> QED BY <3>1, <3>2 DEF At
    <3>4. {entry[r] : r \in Extras} = {EntryFor(r) : r \in Extras}
      <4> HIDE DEF Extras
      <4> QED OBVIOUS
    <3> QED BY <3>3, <3>4
  <2>3. DOMAIN entry = Extras
    OBVIOUS
  <2>4. ASSUME NEW r \in Extras, NEW q \in Extras, entry[r] = entry[q] PROVE r = q
    <3>1. r \in AddedHere /\ q \in AddedHere /\ Line[Trip[r]] = line
      OBVIOUS
    <3>2. EntryFor(r) = EntryFor(q)
      BY <2>4
    <3>3. EntryFor(r).line = line
      BY <3>1, WhenSettled, EntryFields
    <3> QED BY <3>1, <3>2, <3>3, WhenSettled, EntryOnce
  <2>5. Cardinality({entry[r] : r \in Extras}) = Cardinality(Extras)
    <3> HIDE DEF entry, Extras
    <3> QED BY <1>1, <2>3, <2>4, AsManyImages
  <2> QED BY <2>1, <2>2, <2>5
<1>6. N = OfRows \cup OfExtras
  <2>1. ASSUME NEW v \in N PROVE v \in OfRows \cup OfExtras
    <3>1. v \in NextVisits(Coming) /\ v.realtime /\ v.line = line /\ v.time = time
      OBVIOUS
    <3>2. v \in Coming /\ v \in arrivals /\ v \in Arrival
      <4>1. PICK c \in Coming : v = NextOfTrip(Coming, c.trip, c.date)
        BY <3>1, WhenSettled, VisitsByTrip
      <4>2. v \in Coming
        BY <4>1, WhenSettled, VisitsByTrip
      <4> QED BY <4>2, WhenSettled
    <3>3. CASE v \in Merged
      <4>1. v.realtime = TRUE
        BY <3>1, <3>2 DEF Arrival
      <4>2. PICK r \in FollowedHere : Line[Trip[r]] = v.line /\ v = ShownFor(r)
        BY <3>1, <3>3, <4>1, TrackedOnly
      <4>3. RealTime(r) = time
        BY <3>1, <4>2, TrackedNext
      <4>4. r \in Followed
        BY <3>1, <4>2, <4>3
      <4> QED BY <4>2, <4>4
    <3>4. CASE v \notin Merged
      BY <3>1, <3>2, <3>4 DEF At
    <3> QED BY <3>3, <3>4
  <2>2. ASSUME NEW r \in Followed PROVE ShownFor(r) \in N
    BY TrackedNext
  <2>3. ASSUME NEW a \in OfExtras PROVE a \in N
    <3>1. a \in arrivals \ Merged /\ a.line = line /\ a.time = time
      BY DEF At
    <3> QED BY <3>1, AddedNext
  <2> HIDE DEF N, OfExtras
  <2> QED BY <2>1, <2>2, <2>3
<1>7. OfRows \cap OfExtras = {}
  <2>1. \A r \in Followed : ShownFor(r) \in Merged
    BY TrackedNext
  <2> QED BY <2>1 DEF At
<1>8. Cardinality(N) = Cardinality(OfRows) + Cardinality(OfExtras)
  <2> HIDE DEF N, OfRows, OfExtras
  <2> QED BY <1>1, <1>4, <1>6, <1>7, InTwoParts
<1> HIDE DEF N, T, Followed, Extras, OfRows, OfExtras
<1>9. Cardinality(N) = Cardinality(T)
  BY <1>3, <1>4, <1>5, <1>8
<1> QED BY <1>9 DEF N, T

\* Every train that the feeds follow is on the board once, at the time when it really
\* comes, and no prediction is on it that is not one of such a train.
THEOREM TrainsAreTracked == Spec => []TrackedTrains
<1>1. IInv /\ Counted => TrackedTrains
  <2> SUFFICES ASSUME Settled,
                      NEW line \in Lines, Distinct(line),
                      NEW time \in {RealTime(r) : r \in Tracked} \cup {a.time : a \in board}
               PROVE  LET trains == {r \in Tracked : Line[Trip[r]] = line /\ RealTime(r) = time}
                          shown  == {a \in board : a.realtime /\ a.line = line /\ a.time = time}
                      IN  /\ Cardinality(shown) <= Cardinality(trains)
                          /\ InView(time) => Cardinality(shown) = Cardinality(trains)
    BY DEF Settled, TrackedTrains, Lines
  <2> DEFINE trains == {r \in Tracked : Line[Trip[r]] = line /\ RealTime(r) = time}
             shown  == {a \in board : a.realtime /\ a.line = line /\ a.time = time}
             next == NextVisits(Coming)
             N == {v \in next : v.realtime /\ v.line = line /\ v.time = time}
  <2>1. next \subseteq Coming /\ IsFiniteSet(next)
    <3>1. next \subseteq Coming
      BY WhenSettled, VisitsByTrip
    <3> QED BY <3>1, WhenSettled, FS_Subset
  <2>2. /\ board \subseteq next
        /\ Cardinality(board) = IF Cardinality(next) < cappedLimit THEN Cardinality(next) ELSE cappedLimit
        /\ \A a \in next \ board, b \in board : ~Sooner(a, b)
    BY WhenSettled DEF selectUpcoming, FirstOf, Coming
  <2>3. time \in Int
    <3>1. \A r \in Tracked : RealTime(r) \in Int
      BY WhenSettled, NextStopOf DEF Tracked
    <3>2. \A a \in board : a.time \in Int
      BY <2>1, <2>2, WhenSettled DEF Arrival
    <3> QED BY <3>1, <3>2
  <2>4. Cardinality(N) = Cardinality(trains)
    BY <2>3, AsManyShown
  <2> HIDE DEF next, trains
  <2>5. shown \subseteq N /\ IsFiniteSet(N) /\ Cardinality(N) \in Nat
    BY <2>1, <2>2, FS_Subset, FS_CardinalityType
  <2>6. Cardinality(shown) <= Cardinality(N)
    <3> HIDE DEF shown, N
    <3> QED BY <2>5, FS_Subset
  <2>7. ASSUME InView(time) PROVE shown = N
    <3>1. CASE Cardinality(board) < cappedLimit
      <4>1. Cardinality(board) = Cardinality(next)
        BY <2>2, <3>1, LimitType
      <4>2. board = next
        BY <2>1, <2>2, <4>1, FS_Subset
      <4> QED BY <4>2
    <3>2. CASE \E b \in board : time < b.time
      <4>1. PICK b \in board : time < b.time
        BY <3>2
      <4>2. \A v \in N : v \in board
        BY <2>2, <4>1 DEF Sooner
      <4> QED BY <2>2, <4>2
    <3> QED BY <2>7, <3>1, <3>2 DEF InView
  <2> HIDE DEF shown, N
  <2>8. Cardinality(shown) <= Cardinality(trains)
        /\ (InView(time) => Cardinality(shown) = Cardinality(trains))
    BY <2>4, <2>6, <2>7
  <2> QED BY <2>8 DEF shown, trains
<1> QED BY <1>1, Counting, PTL
=============================================================================
