---------------------------- MODULE Rules_proofs ----------------------------
(***************************************************************************)
(* What Rules promises of searches, boards, stops nearby, routes, alerts   *)
(* and service days, for all cases that are sound in its sense: any files, *)
(* calendars and feeds, any constants.                                     *)
(*                                                                         *)
(* Inv says that the tables are what a load makes of the files.  Nothing   *)
(* else is kept, so a property is proved of what the operators compute     *)
(* from such tables.  What they compute element by element (Filter,        *)
(* colocatedGroups, Midnight) is a function on 0 .. n; Iteration says that *)
(* it exists, and Climb what holds of all its values.                      *)
(***************************************************************************)
EXTENDS Rules, FiniteSetTheorems, SequenceTheorems, TLAPS

----------------------------------------------------------------------------
(***************************************************************************)
(* Sequences, and what is defined step by step.                            *)
(***************************************************************************)
\* The first of some indices.
LEMMA LeastIndex ==
    ASSUME NEW S \in SUBSET Nat, S # {}
    PROVE  \E i \in S : \A j \in S : i <= j
<1>1. IsWellFoundedOn(OpToRel(<, Nat), Nat)
  BY NatLessThanWellFounded
<1>2. PICK i \in S : \A j \in S : <<j, i>> \notin OpToRel(<, Nat)
  BY <1>1, WFMin, Zenon
<1>3. \A j \in S : ~(j < i)
  BY <1>2 DEF OpToRel
<1> QED BY <1>3

\* Induction along a range, over a set.
LEMMA Climb ==
    ASSUME NEW n \in Nat, NEW T, 0 \in T, \A i \in 1 .. n : i - 1 \in T => i \in T
    PROVE  \A i \in 0 .. n : i \in T
<1> DEFINE bad == {i \in 0 .. n : i \notin T}
<1>1. SUFFICES ASSUME bad # {} PROVE FALSE
  OBVIOUS
<1>2. PICK i \in bad : \A j \in bad : i <= j
  <2>1. bad \in SUBSET Nat
    OBVIOUS
  <2> HIDE DEF bad
  <2> QED BY <1>1, <2>1, LeastIndex
<1>3. i \in 1 .. n /\ i - 1 \in 0 .. n /\ ~(i <= i - 1)
  OBVIOUS
<1>4. i - 1 \in T
  BY <1>2, <1>3
<1> QED BY <1>3, <1>4

\* f starts at b, and its step to i is what G says.
Iterates(f, b, n, G) == f[0] = b /\ \A i \in 1 .. n : f[i] = G[<<f[i - 1], i>>]

\* A function that is defined step by step exists.
LEMMA Iteration ==
    ASSUME NEW V, NEW b \in V, NEW n \in Nat, NEW G \in [V \X (1 .. n) -> V]
    PROVE  \E f \in [0 .. n -> V] : Iterates(f, b, n, G)
<1> DEFINE Upto(m, f) == f \in [0 .. m -> V] /\ f[0] = b /\ \A i \in 1 .. m : f[i] = G[<<f[i - 1], i>>]
           bad == {m \in 0 .. n : \A f \in [0 .. m -> V] : ~Upto(m, f)}
<1>1. SUFFICES ASSUME bad # {} PROVE FALSE
  <2>1. n \notin bad => \E f \in [0 .. n -> V] : Upto(n, f)
    OBVIOUS
  <2> QED BY <1>1, <2>1 DEF Iterates
<1>2. PICK m \in bad : \A k \in bad : m <= k
  <2>1. bad \in SUBSET Nat
    OBVIOUS
  <2> HIDE DEF bad
  <2> QED BY <1>1, <2>1, LeastIndex
<1>3. m # 0
  <2>1. Upto(0, [i \in 0 .. 0 |-> b])
    OBVIOUS
  <2>2. [i \in 0 .. 0 |-> b] \in [0 .. 0 -> V]
    OBVIOUS
  <2> HIDE DEF Upto
  <2> QED BY <2>1, <2>2
<1>4. PICK f \in [0 .. m - 1 -> V] : Upto(m - 1, f)
  <2>1. m \in 1 .. n
    BY <1>3
  <2>2. m - 1 \in 0 .. n /\ ~(m <= m - 1)
    BY <2>1
  <2>3. m - 1 \notin bad
    BY <1>2, <2>2
  <2> HIDE DEF Upto
  <2> QED BY <2>2, <2>3
<1> DEFINE g == [i \in 0 .. m |-> IF i = m THEN G[<<f[m - 1], m>>] ELSE f[i]]
<1>5. m \in 1 .. n
  BY <1>3
<1>6. f[m - 1] \in V
  BY <1>4, <1>5
<1>7. G[<<f[m - 1], m>>] \in V
  BY <1>5, <1>6
<1>8. g \in [0 .. m -> V]
  BY <1>4, <1>5, <1>7
<1>9. g[0] = b
  BY <1>4, <1>5
<1>10. ASSUME NEW i \in 1 .. m PROVE g[i] = G[<<g[i - 1], i>>]
  <2>1. i - 1 \in 0 .. m /\ i - 1 # m /\ g[i - 1] = f[i - 1]
    BY <1>5
  <2>2. CASE i = m
    BY <2>1, <2>2
  <2>3. CASE i # m
    <3>1. i \in 1 .. m - 1
      BY <1>5, <2>3
    <3>2. f[i] = G[<<f[i - 1], i>>]
      BY <1>4, <3>1
    <3> QED BY <2>1, <2>3, <3>2
  <2> QED BY <2>2, <2>3
<1>11. Upto(m, g)
  BY <1>8, <1>9, <1>10
<1> HIDE DEF Upto, g
<1> QED BY <1>2, <1>8, <1>11

\* What the filter has kept after each element.
Keeps(kept, seq, S) ==
    /\ kept[0] = <<>>
    /\ \A i \in 1 .. Len(seq) : kept[i] = IF seq[i] \in S THEN Append(kept[i - 1], seq[i]) ELSE kept[i - 1]
    /\ Filter(seq, S) = kept[Len(seq)]

\* The elements of a sequence that are in a set: as many as there are places of them, in any case
\* those that the sequence has.
LEMMA FilterIsFold ==
    ASSUME NEW X, NEW seq \in Seq(X), NEW S
    PROVE  \E kept \in [0 .. Len(seq) -> Seq(X)] : Keeps(kept, seq, S)
<1> DEFINE n == Len(seq)
           V == Seq(X)
           b == <<>>
           kept[i \in 0 .. n] ==
              IF i = 0 THEN <<>>
              ELSE IF seq[i] \in S THEN Append(kept[i - 1], seq[i]) ELSE kept[i - 1]
           G == [p \in V \X (1 .. n) |-> IF seq[p[2]] \in S THEN Append(p[1], seq[p[2]]) ELSE p[1]]
<1>1. n \in Nat /\ DOMAIN seq = 1 .. n /\ (\A i \in 1 .. n : seq[i] \in X) /\ b \in V
  OBVIOUS
<1>2. G \in [V \X (1 .. n) -> V]
  BY <1>1
<1>3. PICK f \in [0 .. n -> V] : Iterates(f, b, n, G)
  <2> HIDE DEF G, n, V, b, kept
  <2> QED BY <1>1, <1>2, Iteration
<1>4. ASSUME NEW i \in 1 .. n
      PROVE  f[i] = IF seq[i] \in S THEN Append(f[i - 1], seq[i]) ELSE f[i - 1]
  <2>1. i - 1 \in 0 .. n /\ f[i - 1] \in V
    BY <1>1
  <2>2. G[<<f[i - 1], i>>] = IF seq[i] \in S THEN Append(f[i - 1], seq[i]) ELSE f[i - 1]
    BY <2>1
  <2>3. f[i] = G[<<f[i - 1], i>>]
    BY <1>3 DEF Iterates
  <2> QED BY <2>2, <2>3
<1>5. f = [i \in 0 .. n |-> IF i = 0 THEN <<>>
                           ELSE IF seq[i] \in S THEN Append(f[i - 1], seq[i]) ELSE f[i - 1]]
  <2>1. ASSUME NEW i \in 0 .. n
        PROVE  f[i] = IF i = 0 THEN <<>>
                      ELSE IF seq[i] \in S THEN Append(f[i - 1], seq[i]) ELSE f[i - 1]
    <3>1. CASE i = 0
      BY <1>3, <3>1 DEF Iterates
    <3>2. CASE i # 0
      <4>1. i \in 1 .. n
        BY <1>1, <3>2
      <4> HIDE DEF n, G
      <4> QED BY <1>4, <4>1, <3>2
    <3> QED BY <3>1, <3>2
  <2> HIDE DEF n, V, G, b
  <2> QED BY <2>1
<1>6. kept = [i \in 0 .. n |-> IF i = 0 THEN <<>>
                              ELSE IF seq[i] \in S THEN Append(kept[i - 1], seq[i]) ELSE kept[i - 1]]
  BY <1>5
<1>7. Filter(seq, S) = kept[n]
  BY DEF Filter
<1>8. \A i \in 0 .. n : kept[i] = IF i = 0 THEN <<>>
                              ELSE IF seq[i] \in S THEN Append(kept[i - 1], seq[i]) ELSE kept[i - 1]
  <2> HIDE DEF kept
  <2> QED BY <1>6
<1>9. kept[0] = <<>> /\ \A i \in 1 .. n : kept[i] = IF seq[i] \in S THEN Append(kept[i - 1], seq[i]) ELSE kept[i - 1]
  <2> HIDE DEF kept, n
  <2>1. 0 \in 0 .. n /\ \A i \in 1 .. n : i \in 0 .. n /\ i # 0
    BY <1>1
  <2> QED BY <1>8, <2>1
<1>10. kept \in [0 .. n -> V]
  <2> DEFINE good == {i \in 0 .. n : kept[i] \in V}
  <2>1. kept = [i \in 0 .. n |-> kept[i]]
    <3> HIDE DEF kept, n
    <3> QED BY <1>6
  <2> HIDE DEF kept
  <2>2. 0 \in good
    <3>1. 0 \in 0 .. n
      BY <1>1
    <3> QED BY <1>1, <1>9, <3>1
  <2>3. ASSUME NEW i \in 1 .. n, i - 1 \in good PROVE i \in good
    <3>1. seq[i] \in X /\ kept[i - 1] \in V /\ i \in 0 .. n
      BY <1>1, <2>3
    <3>2. Append(kept[i - 1], seq[i]) \in V
      BY <3>1
    <3> QED BY <1>9, <3>1, <3>2
  <2>4. \A i \in 0 .. n : i \in good
    <3> HIDE DEF good, n
    <3> QED BY <1>1, <2>2, <2>3, Climb
  <2> HIDE DEF n, V
  <2> QED BY <2>1, <2>4
<1>11. Keeps(kept, seq, S)
  <2> HIDE DEF kept
  <2> QED BY <1>7, <1>9 DEF Keeps
<1> HIDE DEF kept
<1> QED BY <1>10, <1>11

\* An element more at the end.
LEMMA AppendSet ==
    ASSUME NEW X, NEW s \in Seq(X), NEW e \in X
    PROVE  ToSet(Append(s, e)) = ToSet(s) \cup {e} /\ Len(Append(s, e)) = Len(s) + 1
<1>1. Len(s) \in Nat /\ DOMAIN s = 1 .. Len(s)
  OBVIOUS
<1>2. /\ DOMAIN Append(s, e) = 1 .. Len(s) + 1
      /\ \A j \in 1 .. Len(s) : Append(s, e)[j] = s[j]
      /\ Append(s, e)[Len(s) + 1] = e
      /\ Len(Append(s, e)) = Len(s) + 1
  OBVIOUS
<1>3. ToSet(Append(s, e)) = {Append(s, e)[j] : j \in 1 .. Len(s) + 1}
  BY <1>2 DEF ToSet
<1>4. ToSet(s) = {s[j] : j \in 1 .. Len(s)}
  BY <1>1 DEF ToSet
<1>5. \A j \in 1 .. Len(s) + 1 : j \in 1 .. Len(s) \/ j = Len(s) + 1
  BY <1>1
<1>6. ToSet(Append(s, e)) \subseteq ToSet(s) \cup {e}
  BY <1>2, <1>3, <1>4, <1>5
<1>7. \A j \in 1 .. Len(s) : j \in 1 .. Len(s) + 1
  BY <1>1
<1>8. Len(s) + 1 \in 1 .. Len(s) + 1
  BY <1>1
<1>9. ToSet(s) \cup {e} \subseteq ToSet(Append(s, e))
  BY <1>2, <1>3, <1>4, <1>7, <1>8
<1> QED BY <1>2, <1>6, <1>9

\* The filter keeps the elements that are in the set, each as often as it is there.
LEMMA FilterKeeps ==
    ASSUME NEW X, NEW seq \in Seq(X), NEW S
    PROVE  /\ Filter(seq, S) \in Seq(X)
           /\ ToSet(Filter(seq, S)) = ToSet(seq) \cap S
           /\ Len(Filter(seq, S)) = Cardinality({i \in DOMAIN seq : seq[i] \in S})
<1> DEFINE n == Len(seq)
<1>1. n \in Nat /\ DOMAIN seq = 1 .. n /\ \A i \in 1 .. n : seq[i] \in X
  OBVIOUS
<1>2. PICK kept \in [0 .. n -> Seq(X)] : Keeps(kept, seq, S)
  BY FilterIsFold
<1>3. /\ kept[0] = <<>>
      /\ \A i \in 1 .. n : kept[i] = IF seq[i] \in S THEN Append(kept[i - 1], seq[i]) ELSE kept[i - 1]
      /\ Filter(seq, S) = kept[n]
  BY <1>2 DEF Keeps
<1> HIDE DEF n
<1> DEFINE At(i) == {j \in 1 .. i : seq[j] \in S}
           good == {i \in 0 .. n : /\ ToSet(kept[i]) = {seq[j] : j \in At(i)}
                                   /\ Len(kept[i]) = Cardinality(At(i))}
<1>4. 0 \in good
  <2>1. At(0) = {} /\ ToSet(<<>>) = {} /\ Len(<<>>) = 0
    BY DEF ToSet
  <2>2. Cardinality(At(0)) = 0
    BY <2>1, FS_EmptySet
  <2> HIDE DEF At
  <2> QED BY <1>1, <1>3, <2>1, <2>2
<1>5. ASSUME NEW i \in 1 .. n, i - 1 \in good PROVE i \in good
  <2>1. i \in 0 .. n /\ i - 1 \in 0 .. n /\ i - 1 \in Nat /\ kept[i - 1] \in Seq(X) /\ seq[i] \in X
    BY <1>1, <1>2
  <2>2. CASE seq[i] \in S
    <3>1. At(i) = At(i - 1) \cup {i} /\ i \notin At(i - 1)
      BY <2>2, <1>1
    <3>2. kept[i] = Append(kept[i - 1], seq[i])
      BY <1>3, <2>2
    <3>3. ToSet(kept[i]) = ToSet(kept[i - 1]) \cup {seq[i]} /\ Len(kept[i]) = Len(kept[i - 1]) + 1
      BY <2>1, <3>2, AppendSet
    <3>4. IsFiniteSet(At(i - 1))
      <4>1. At(i - 1) \subseteq 1 .. (i - 1)
        OBVIOUS
      <4> HIDE DEF At
      <4> QED BY <2>1, <4>1, i - 1 \in Int, 1 \in Int, FS_Interval, FS_Subset
    <3>5. Cardinality(At(i)) = Cardinality(At(i - 1)) + 1
      <4> HIDE DEF At
      <4> QED BY <3>1, <3>4, FS_AddElement
    <3>6. {seq[j] : j \in At(i)} = {seq[j] : j \in At(i - 1)} \cup {seq[i]}
      <4> HIDE DEF At
      <4> QED BY <3>1
    <3> HIDE DEF At
    <3> QED BY <2>1, <1>5, <3>3, <3>5, <3>6
  <2>3. CASE seq[i] \notin S
    <3>1. At(i) = At(i - 1)
      BY <2>3, <1>1
    <3>2. kept[i] = kept[i - 1]
      <4> HIDE DEF At, good
      <4> QED BY <1>3, <2>3
    <3> HIDE DEF At
    <3> QED BY <2>1, <1>5, <3>1, <3>2
  <2> QED BY <2>2, <2>3
<1>6. n \in good
  <2> HIDE DEF good
  <2>1. \A i \in 0 .. n : i \in good
    BY <1>1, <1>4, <1>5, Climb
  <2> QED BY <1>1, <2>1
<1>7. At(n) = {i \in DOMAIN seq : seq[i] \in S}
  BY <1>1
<1>8. {seq[j] : j \in At(n)} = ToSet(seq) \cap S
  BY <1>1 DEF ToSet
<1> HIDE DEF At
<1>9. kept[n] \in Seq(X)
  BY <1>1, <1>2
<1> QED BY <1>3, <1>6, <1>7, <1>8, <1>9

----------------------------------------------------------------------------
(***************************************************************************)
(* The groups of stops at one place.                                       *)
(***************************************************************************)
\* Groups of some stops, each named after one of its members.
Groupings(Ids) ==
    {g \in UNION {[D -> Ids] : D \in SUBSET Ids} : \A x \in DOMAIN g : g[x] \in DOMAIN g /\ g[g[x]] = g[x]}

\* Before the first stop there is no group.
LEMMA EmptyGrouping ==
    ASSUME NEW Ids
    PROVE  <<>> \in Groupings(Ids)
<1>1. <<>> \in [{} -> Ids] /\ DOMAIN <<>> = {}
  OBVIOUS
<1>2. <<>> \in UNION {[D -> Ids] : D \in SUBSET Ids}
  BY <1>1
<1> QED BY <1>1, <1>2 DEF Groupings

\* A group that is begun has its first stop, and takes none from another group.
LEMMA BeginGroups ==
    ASSUME NEW stops, NEW routesOf, NEW Ids, Ids = {o.id : o \in stops},
           NEW s \in stops, NEW g \in Groupings(Ids)
    PROVE  Begin(stops, routesOf, g, s) \in Groupings(Ids)
<1>1. CASE s.id \in DOMAIN g
  BY <1>1 DEF Begin
<1>2. CASE s.id \notin DOMAIN g
  <2> DEFINE ids == {s.id} \cup Joins(stops, routesOf, g, s)
             h == [x \in DOMAIN g \cup ids |-> IF x \in ids THEN s.id ELSE g[x]]
  <2>1. Begin(stops, routesOf, g, s) = h
    BY <1>2 DEF Begin
  <2>2. ids \subseteq Ids /\ s.id \in ids /\ s.id \in Ids
    BY DEF Joins
  <2>3. ids \cap DOMAIN g = {}
    BY <1>2 DEF Joins
  <2> HIDE DEF ids
  <2>4. /\ DOMAIN g \subseteq Ids
        /\ \A x \in DOMAIN g : g[x] \in Ids /\ g[x] \in DOMAIN g /\ g[g[x]] = g[x]
    BY DEF Groupings
  <2>5. DOMAIN h \in SUBSET Ids /\ h \in [DOMAIN h -> Ids]
    BY <2>2, <2>4
  <2>6. ASSUME NEW x \in DOMAIN h PROVE h[x] \in DOMAIN h /\ h[h[x]] = h[x]
    <3>1. CASE x \in ids
      BY <3>1, <2>2
    <3>2. CASE x \notin ids
      <4>1. x \in DOMAIN g /\ h[x] = g[x]
        BY <3>2
      <4>2. g[x] \in DOMAIN g /\ g[x] \notin ids
        BY <4>1, <2>3, <2>4
      <4> QED BY <4>1, <4>2, <2>4
    <3> QED BY <3>1, <3>2
  <2> HIDE DEF h
  <2>7. h \in UNION {[D -> Ids] : D \in SUBSET Ids}
    BY <2>5
  <2> QED BY <2>1, <2>6, <2>7 DEF Groupings
<1> QED BY <1>1, <1>2

\* Whatever the order of the stops: a stop in a group is in one with another stop, and the group is
\* of one of its stops.
IsGroups(g, Ids) ==
    /\ DOMAIN g \subseteq Ids
    /\ \A x \in DOMAIN g : g[x] \in DOMAIN g /\ g[g[x]] = g[x]

\* What colocatedGroups makes are groups, whatever the scan order.
LEMMA GroupsAreGroups ==
    ASSUME NEW X, NEW order \in Seq(X), NEW routesOf
    PROVE  IsGroups(colocatedGroups(order, routesOf), {o.id : o \in ToSet(order)})
<1> DEFINE n == Len(order)
           stops == ToSet(order)
           Ids == {o.id : o \in stops}
           V == Groupings(Ids)
           b == <<>>
           groups[i \in 0 .. n] == IF i = 0 THEN <<>> ELSE Begin(stops, routesOf, groups[i - 1], order[i])
           G == [p \in V \X (1 .. n) |-> Begin(stops, routesOf, p[1], order[p[2]])]
           first == groups[n]
           Alone(x) == \A y \in DOMAIN first : first[y] = first[x] => y = x
<1>1. n \in Nat /\ (\A i \in 1 .. n : order[i] \in stops) /\ b \in V
  BY EmptyGrouping DEF ToSet
<1>2. G \in [V \X (1 .. n) -> V]
  <2>1. ASSUME NEW p \in V \X (1 .. n) PROVE Begin(stops, routesOf, p[1], order[p[2]]) \in V
    <3>1. p[1] \in V /\ order[p[2]] \in stops
      BY <1>1
    <3> HIDE DEF stops, n
    <3> QED BY <3>1, BeginGroups
  <2> HIDE DEF stops, n, V
  <2> QED BY <2>1
<1>3. PICK f \in [0 .. n -> V] : Iterates(f, b, n, G)
  <2> HIDE DEF G, n, V, b, groups, stops
  <2> QED BY <1>1, <1>2, Iteration
<1>4. ASSUME NEW i \in 1 .. n
      PROVE  f[i] = Begin(stops, routesOf, f[i - 1], order[i])
  <2>1. i - 1 \in 0 .. n
    BY <1>1
  <2> HIDE DEF n, V, stops, b
  <2>2. <<f[i - 1], i>> \in V \X (1 .. n)
    BY <2>1
  <2>3. G[<<f[i - 1], i>>] = Begin(stops, routesOf, f[i - 1], order[i])
    BY <2>2
  <2>4. f[i] = G[<<f[i - 1], i>>]
    BY <1>3 DEF Iterates
  <2> QED BY <2>3, <2>4
<1>5. f = [i \in 0 .. n |-> IF i = 0 THEN <<>> ELSE Begin(stops, routesOf, f[i - 1], order[i])]
  <2>1. ASSUME NEW i \in 0 .. n
        PROVE  f[i] = IF i = 0 THEN <<>> ELSE Begin(stops, routesOf, f[i - 1], order[i])
    <3>1. CASE i = 0
      BY <1>3, <3>1 DEF Iterates
    <3>2. CASE i # 0
      <4>1. i \in 1 .. n
        BY <1>1, <3>2
      <4> HIDE DEF n, stops
      <4> QED BY <1>4, <4>1, <3>2
    <3> QED BY <3>1, <3>2
  <2> HIDE DEF n, V, stops
  <2> QED BY <2>1
<1>6. groups = [i \in 0 .. n |-> IF i = 0 THEN <<>> ELSE Begin(stops, routesOf, groups[i - 1], order[i])]
  <2> HIDE DEF n, stops
  <2> QED BY <1>5
<1>7. groups \in [0 .. n -> V]
  <2> DEFINE good == {i \in 0 .. n : groups[i] \in V}
  <2> HIDE DEF groups, stops, V
  <2>1. groups = [i \in 0 .. n |-> groups[i]]
    <3> HIDE DEF n
    <3> QED BY <1>6
  <2>2. 0 \in good
    <3>1. 0 \in 0 .. n
      BY <1>1
    <3> HIDE DEF n
    <3>2. groups[0] = <<>>
      BY <1>6, <3>1
    <3> QED BY <1>1, <3>1, <3>2
  <2>3. ASSUME NEW i \in 1 .. n, i - 1 \in good PROVE i \in good
    <3>1. i \in 0 .. n /\ i # 0
      BY <1>1
    <3>2. groups[i] = Begin(stops, routesOf, groups[i - 1], order[i])
      <4> HIDE DEF n
      <4> QED BY <1>6, <3>1
    <3>3. groups[i - 1] \in Groupings(Ids) /\ order[i] \in stops
      BY <1>1, <2>3 DEF V
    <3>4. groups[i] \in V
      BY <3>2, <3>3, BeginGroups DEF V
    <3> QED BY <3>1, <3>4
  <2>4. \A i \in 0 .. n : i \in good
    <3> HIDE DEF good, n
    <3> QED BY <1>1, <2>2, <2>3, Climb
  <2> HIDE DEF n
  <2> QED BY <2>1, <2>4
<1>8. colocatedGroups(order, routesOf) = Restrict(first, {x \in DOMAIN first : ~Alone(x)})
  BY DEF colocatedGroups
<1>9. first \in V
  <2>1. n \in 0 .. n
    BY <1>1
  <2> HIDE DEF groups, n, V
  <2> QED BY <1>7, <2>1
<1> DEFINE kept == {x \in DOMAIN first : ~Alone(x)}
           g == Restrict(first, kept)
<1> HIDE DEF groups, first
<1>10. /\ DOMAIN first \subseteq Ids
       /\ \A x \in DOMAIN first : first[x] \in DOMAIN first /\ first[first[x]] = first[x]
  BY <1>9 DEF Groupings
<1>11. DOMAIN g = kept /\ \A x \in kept : g[x] = first[x]
  BY DEF Restrict
<1>12. ASSUME NEW x \in kept PROVE first[x] \in kept
  <2>1. PICK y \in DOMAIN first : first[y] = first[x] /\ y # x
    OBVIOUS
  <2>2. PICK z \in {x, y} : z # first[x]
    BY <2>1
  <2>3. z \in DOMAIN first /\ first[z] = first[first[x]] /\ first[x] \in DOMAIN first
    BY <2>1, <1>10
  <2> QED BY <2>2, <2>3
<1> HIDE DEF g
<1>13. IsGroups(g, Ids)
  BY <1>10, <1>11, <1>12 DEF IsGroups
<1> QED BY <1>8, <1>13 DEF g

\* The order that the database returns rows in has every one of them once.
LEMMA OrderOfRows ==
    ASSUME NEW S, IsFiniteSet(S), NEW order \in SetToSeqs(S)
    PROVE  /\ order \in Seq(S)
           /\ ToSet(order) = S
           /\ Len(order) = Cardinality(S)
           /\ \A i, j \in DOMAIN order : order[i] = order[j] => i = j
<1> DEFINE D == 1 .. Cardinality(S)
<1>1. Cardinality(S) \in Nat
  BY FS_CardinalityType
<1>2. order \in [D -> S] /\ \A i, j \in D : i # j => order[i] # order[j]
  BY DEF SetToSeqs
<1>3. order \in Seq(S) /\ Len(order) = Cardinality(S) /\ DOMAIN order = D
  BY <1>1, <1>2
<1>4. IsFiniteSet(D) /\ Cardinality(D) = Cardinality(S)
  BY <1>1, 1 \in Int, FS_Interval
<1>5. order \in Injection(D, S)
  BY <1>2 DEF Injection, IsInjective
<1>6. order \in Surjection(D, S)
  <2> HIDE DEF D
  <2> QED BY <1>4, <1>5, FS_Injection
<1>7. ToSet(order) = S
  BY <1>2, <1>3, <1>6 DEF Surjection, ToSet
<1> QED BY <1>2, <1>3, <1>7

\* The elements at some places in a row.
Part(seq, m, n) == {seq[i] : i \in m .. n}

\* A page has the elements of its places.
LEMMA SubSeqKeeps ==
    ASSUME NEW X, NEW seq \in Seq(X), NEW m \in Nat \ {0}, NEW n \in Nat, n <= Len(seq)
    PROVE  /\ SubSeq(seq, m, n) \in Seq(X)
           /\ ToSet(SubSeq(seq, m, n)) = Part(seq, m, n)
<1>1. /\ SubSeq(seq, m, n) \in Seq(X)
      /\ Len(SubSeq(seq, m, n)) = IF m <= n THEN n - m + 1 ELSE 0
      /\ \A i \in 1 .. n - m + 1 : SubSeq(seq, m, n)[i] = seq[m + i - 1]
  <2>1. \A i \in m .. n : seq[i] \in X
    OBVIOUS
  <2> QED BY <2>1, SubSeqProperties
<1>2. DOMAIN SubSeq(seq, m, n) = 1 .. n - m + 1
  BY <1>1
<1>3. ToSet(SubSeq(seq, m, n)) = {seq[m + i - 1] : i \in 1 .. n - m + 1}
  BY <1>1, <1>2 DEF ToSet
<1>4. \A i \in m .. n : i - m + 1 \in 1 .. n - m + 1 /\ m + (i - m + 1) - 1 = i
  OBVIOUS
<1>5. \A i \in 1 .. n - m + 1 : m + i - 1 \in m .. n
  OBVIOUS
<1>6. {seq[m + i - 1] : i \in 1 .. n - m + 1} = {seq[i] : i \in m .. n}
  BY <1>4, <1>5
<1> QED BY <1>1, <1>3, <1>6 DEF Part

\* Two sequences, one after the other, have the elements of both.
LEMMA ConcatKeeps ==
    ASSUME NEW X, NEW s \in Seq(X), NEW t \in Seq(X)
    PROVE  s \o t \in Seq(X) /\ ToSet(s \o t) = ToSet(s) \cup ToSet(t)
<1>1. s \o t \in Seq(X) /\ Range(s \o t) = Range(s) \cup Range(t)
  BY RangeConcatenation, ConcatProperties
<1> QED BY <1>1 DEF Range, ToSet

\* A sequence is on its pages.
LEMMA PageOf ==
    ASSUME NEW size \in Nat \ {0}, NEW i \in Nat, 0 < i
    PROVE  \E p \in Nat : size * p < i /\ i <= size * p + size
<1> DEFINE over == {p \in Nat : i <= size * p + size}
<1>1. i \in over
  <2>1. i <= size * i
    OBVIOUS
  <2> QED BY <2>1
<1>2. over \in SUBSET Nat /\ over # {}
  BY <1>1
<1>3. PICK p \in over : \A q \in over : p <= q
  <2> HIDE DEF over
  <2> QED BY <1>2, LeastIndex
<1>4. p \in Nat /\ i <= size * p + size
  BY <1>3
<1>5. size * p < i
  <2>1. CASE p = 0
    BY <2>1
  <2>2. CASE p # 0
    <3>1. p - 1 \in Nat /\ p - 1 \notin over
      BY <1>3, <2>2
    <3>2. ~(i <= size * (p - 1) + size)
      BY <3>1
    <3>3. size * (p - 1) + size = size * p
      BY <1>4
    <3>4. size * p \in Nat
      BY <1>4
    <3> QED BY <3>2, <3>3, <3>4
  <2> QED BY <2>1, <2>2
<1> QED BY <1>4, <1>5

----------------------------------------------------------------------------
(***************************************************************************)
(* The invariant: the tables are those of the files of the case.           *)
(***************************************************************************)
\* What the tables are after the load of some files, whatever the order the stops were scanned in.
TablesOf(files) ==
    {buildDerivedTables(STAGED_TABLES(files), scan) :
        scan \in SetToSeqs({s \in STOPS(files.stops) : s.parent = Null})}

CalendarOf(c) ==
    [stops |-> {}, calendars |-> CALENDARS(c.calendar), calendar_dates |-> CALENDAR_DATES(c.calendar_dates)]

\* The case does not change, and the tables are those of its files.
Inv ==
    /\ case \in StopCases \cup RouteCases \cup DayCases \cup AlertCases
    /\ \/ db = NotLoaded
       \/ case.kind # "day" /\ db \in TablesOf(case.files)
       \/ case.kind = "day" /\ db = CalendarOf(case)

\* Nothing is loaded at first.
LEMMA InitInv == Init => Inv
BY DEF Init, Inv

\* A load makes the tables of the files of the case; nothing else changes them.
LEMMA NextInv == Inv /\ [Next]_vars => Inv'
<1> SUFFICES ASSUME Inv, [Next]_vars PROVE Inv'
  OBVIOUS
<1>1. CASE Load
  <2>1. PICK scan \in SetToSeqs({s \in STAGED_TABLES(case.files).stops : s.parent = Null}) :
          db' = buildDerivedTables(STAGED_TABLES(case.files), scan)
    BY <1>1 DEF Load
  <2>2. STAGED_TABLES(case.files).stops = STOPS(case.files.stops)
    BY DEF STAGED_TABLES
  <2>3. db' \in TablesOf(case.files)
    BY <2>1, <2>2 DEF TablesOf
  <2>4. case' = case /\ case.kind # "day"
    BY <1>1 DEF Load
  <2> QED BY <2>3, <2>4 DEF Inv
<1>2. CASE LoadCalendar
  <2>1. case' = case /\ case.kind = "day" /\ db' = CalendarOf(case)
    BY <1>2 DEF LoadCalendar, CalendarOf
  <2> QED BY <2>1 DEF Inv
<1>3. CASE UNCHANGED vars
  BY <1>3 DEF vars, Inv
<1> QED BY <1>1, <1>2, <1>3 DEF Next

\* The tables are always those of the files of the case.
LEMMA Invariant == Spec => []Inv
<1> QED BY InitInv, NextInv, PTL DEF Spec

\* Stops and their stations, as the tables have them.
StationsKnown(t) ==
    /\ \A s, o \in t.stops : s.id = o.id => s = o
    /\ \A s, o \in t.stops : s.parent = o.id => o.parent = Null
    /\ \A s \in t.stops : s.id # Null
    /\ \A s \in t.stops, x \in Served(t) : s.parent # Null => x.stop # s.parent
    /\ t.route_stops = RouteStops(t)

\* s is the table's row of the row r of the file.
IsStopOf(s, r) ==
    /\ Given({r.stop_id, r.stop_lat_lon})
    /\ s = [id |-> r.stop_id, name |-> text(r.stop_name), at |-> r.stop_lat_lon, parent |-> text(r.parent_station)]

\* A stop of the table has its row in stops.txt.
LEMMA RowsOfStops ==
    ASSUME NEW file, NEW s \in STOPS(file)
    PROVE  \E r \in file : IsStopOf(s, r)
BY DEF STOPS, IsStopOf

\* The tables of files with sound stations: a stop is there once, no station has a station or
\* a train of its own, and what is derived is derived from them.
LEMMA TablesKnown ==
    ASSUME NEW files, StationsAreSound(files), NEW t \in TablesOf(files)
    PROVE  /\ StationsKnown(t)
           /\ t.stops = STOPS(files.stops)
           /\ t.routes = ROUTES(files.routes)
           /\ t.trips = TRIPS(files.trips)
           /\ t.stop_times = STOP_TIMES(files.stop_times)
           /\ t.shapes = SHAPES(files.shapes)
           /\ t.route_branches = RouteBranches(t)
           /\ t.has_stop_times = HasStopTimes(t)
<1> DEFINE stage == STAGED_TABLES(files)
<1>1. PICK scan \in SetToSeqs({s \in STOPS(files.stops) : s.parent = Null}) : t = buildDerivedTables(stage, scan)
  BY DEF TablesOf
<1>2. /\ t.stops = stage.stops /\ t.routes = stage.routes /\ t.trips = stage.trips
      /\ t.stop_times = stage.stop_times /\ t.shapes = stage.shapes
      /\ t.route_stops = RouteStops(stage)
      /\ t.route_branches = RouteBranches(stage)
      /\ t.has_stop_times = HasStopTimes(stage)
  BY <1>1 DEF buildDerivedTables
<1>3. /\ stage.stops = STOPS(files.stops) /\ stage.routes = ROUTES(files.routes)
      /\ stage.trips = TRIPS(files.trips) /\ stage.stop_times = STOP_TIMES(files.stop_times)
      /\ stage.shapes = SHAPES(files.shapes)
  BY DEF STAGED_TABLES
<1> HIDE DEF stage
<1>4. Served(t) = Served(stage)
  BY <1>2 DEF Served
<1>5. RouteStops(t) = RouteStops(stage)
  BY <1>2, <1>4 DEF RouteStops
<1>6. RouteBranches(t) = RouteBranches(stage) /\ HasStopTimes(t) = HasStopTimes(stage)
  BY <1>2 DEF RouteBranches, HasStopTimes, StopCount
<1>7. \A s, o \in files.stops : /\ s.stop_id = o.stop_id => s = o
                                /\ s.parent_station = o.stop_id => o.parent_station = Blank
  BY DEF StationsAreSound
<1>8. \A s \in files.stops : s.stop_id # Null /\ s.parent_station # Null
  BY DEF StationsAreSound
<1>9. \A s \in files.stops, st \in files.stop_times : st.stop_id # s.parent_station
  BY DEF StationsAreSound
<1>10. ASSUME NEW s \in t.stops, NEW o \in t.stops PROVE (s.id = o.id => s = o) /\ (s.parent = o.id => o.parent = Null)
  <2>1. PICK r \in files.stops : IsStopOf(s, r)
    BY <1>2, <1>3, RowsOfStops
  <2>2. PICK q \in files.stops : IsStopOf(o, q)
    BY <1>2, <1>3, RowsOfStops
  <2>3. s.id = o.id => s = o
    BY <1>7, <2>1, <2>2 DEF IsStopOf
  <2>4. s.parent = o.id => r.parent_station = q.stop_id
    BY <1>8, <2>1, <2>2 DEF text, IsStopOf
  <2>5. s.parent = o.id => o.parent = Null
    BY <1>7, <2>1, <2>2, <2>4 DEF text, IsStopOf
  <2> QED BY <2>3, <2>5
<1>11. ASSUME NEW s \in t.stops PROVE s.id # Null /\ \A x \in Served(t) : s.parent # Null => x.stop # s.parent
  <2>1. PICK r \in files.stops : IsStopOf(s, r)
    BY <1>2, <1>3, RowsOfStops
  <2>2. ASSUME NEW x \in Served(t), s.parent # Null PROVE x.stop # s.parent
    <3>1. PICK st \in STOP_TIMES(files.stop_times) : x.stop = st.stop
      BY <1>2, <1>3 DEF Served
    <3>2. PICK row \in files.stop_times :
             st = [trip |-> row.trip_id, stop |-> row.stop_id, seq |-> row.stop_sequence,
                   arrival |-> text(row.arrival_time), departure |-> text(row.departure_time)]
      BY DEF STOP_TIMES
    <3> QED BY <1>9, <2>1, <2>2, <3>1, <3>2 DEF text, IsStopOf
  <2> QED BY <1>8, <2>1, <2>2 DEF IsStopOf
<1>12. StationsKnown(t)
  BY <1>2, <1>5, <1>10, <1>11 DEF StationsKnown
<1> QED BY <1>2, <1>3, <1>6, <1>12

\* A group is of stops without a station.
LEMMA GroupsKnown ==
    ASSUME NEW files, IsFiniteSet(files.stops), NEW t \in TablesOf(files)
    PROVE  IsFiniteSet(t.stops) /\ IsGroups(t.group, {s.id : s \in {x \in t.stops : x.parent = Null}})
<1> DEFINE stage == STAGED_TABLES(files)
           top   == {s \in STOPS(files.stops) : s.parent = Null}
           routesOf == [s \in {x.id : x \in stage.stops} |-> {x.route : x \in {y \in RouteStops(stage) : y.stop = s}}]
<1>1. PICK scan \in SetToSeqs(top) : t = buildDerivedTables(stage, scan)
  BY DEF TablesOf
<1>2. t.stops = STOPS(files.stops) /\ t.group = colocatedGroups(scan, routesOf)
  BY <1>1 DEF buildDerivedTables, STAGED_TABLES
<1>3. IsFiniteSet(STOPS(files.stops))
  <2> DEFINE kept == {x \in files.stops : Given({x.stop_id, x.stop_lat_lon})}
             Row(s) == [id |-> s.stop_id, name |-> text(s.stop_name), at |-> s.stop_lat_lon,
                        parent |-> text(s.parent_station)]
             f == [s \in kept |-> Row(s)]
  <2>1. IsFiniteSet(kept)
    BY FS_Subset
  <2>2. STOPS(files.stops) = {Row(s) : s \in kept}
    BY DEF STOPS
  <2> HIDE DEF Row, kept
  <2>3. f \in Surjection(kept, {Row(s) : s \in kept})
    BY DEF Surjection
  <2> HIDE DEF f
  <2> QED BY <2>1, <2>2, <2>3, FS_Surjection
<1>4. IsFiniteSet(top)
  BY <1>3, FS_Subset
<1>5. scan \in Seq(top) /\ ToSet(scan) = top
  <2> HIDE DEF top
  <2> QED BY <1>4, OrderOfRows
<1>6. IsGroups(t.group, {o.id : o \in ToSet(scan)})
  <2> HIDE DEF routesOf, top
  <2> QED BY <1>2, <1>5, GroupsAreGroups
<1> QED BY <1>2, <1>3, <1>5, <1>6

----------------------------------------------------------------------------
(***************************************************************************)
(* Boards.                                                                 *)
(***************************************************************************)
\* What is known of the tables where stops are asked for.
StopsKnown ==
    /\ IsFiniteSet(db.stops)
    /\ StationsKnown(db)
    /\ IsGroups(db.group, {s.id : s \in {x \in db.stops : x.parent = Null}})

\* Where stops are asked for, StopsKnown holds of the tables.
LEMMA StopsAreKnown ==
    ASSUME Inv, Of("stops")
    PROVE  StopsKnown /\ case \in StopCases /\ db.stops = STOPS(case.files.stops)
<1>1. case \in StopCases
  BY StopCasesAssumption, RouteCasesAssumption, DayCasesAssumption, AlertCasesAssumption DEF Inv, Of
<1>2. db \in TablesOf(case.files)
  BY DEF Inv, Of
<1>3. StationsAreSound(case.files) /\ IsFiniteSet(case.files.stops)
  BY <1>1, StopCasesAssumption
<1>4. StationsKnown(db) /\ db.stops = STOPS(case.files.stops)
  BY <1>2, <1>3, TablesKnown
<1>5. IsFiniteSet(db.stops) /\ IsGroups(db.group, {s.id : s \in {x \in db.stops : x.parent = Null}})
  BY <1>2, <1>3, GroupsKnown
<1> QED BY <1>1, <1>4, <1>5 DEF StopsKnown

\* A stop has one row, which names its station.
LEMMA ParentOfRow ==
    ASSUME StationsKnown(db), NEW s \in db.stops
    PROVE  StopRow(db, s.id) = {s} /\ ParentOf(db, s.id) = s.parent
<1>1. StopRow(db, s.id) = {s}
  BY DEF StationsKnown, StopRow
<1> QED BY <1>1 DEF ParentOf

\* Platforms are stops of the table.
LEMMA PlatformsOf ==
    ASSUME NEW station, NEW p \in Platforms(db, station)
    PROVE  \E s \in db.stops : s.id = p /\ s.parent = station
BY DEF Platforms

\* The stops of a group but those that have platforms.
GroupBoard(stop) == {stop} \cup {s \in DOMAIN db.group : GroupOf(db, s) = GroupOf(db, stop)}

\* The four cases of effectiveStopIds.
LEMMA BoardOf ==
    ASSUME StationsKnown(db), NEW s \in db.stops
    PROVE  /\ s.parent # Null /\ Platforms(db, s.parent) # {} => effectiveStopIds(db, s.id) = Platforms(db, s.parent)
           /\ s.parent # Null /\ Platforms(db, s.parent) = {} => effectiveStopIds(db, s.id) = {s.id}
           /\ s.parent = Null /\ Platforms(db, s.id) # {} => effectiveStopIds(db, s.id) = Platforms(db, s.id)
           /\ s.parent = Null /\ Platforms(db, s.id) = {} => effectiveStopIds(db, s.id) = GroupBoard(s.id)
<1>1. ParentOf(db, s.id) = s.parent
  BY ParentOfRow
<1>2. CASE s.parent # Null /\ Platforms(db, s.parent) # {}
  BY <1>1, <1>2 DEF effectiveStopIds
<1>3. CASE s.parent # Null /\ Platforms(db, s.parent) = {}
  BY <1>1, <1>3 DEF effectiveStopIds
<1>4. CASE s.parent = Null /\ Platforms(db, s.id) # {}
  BY <1>1, <1>4 DEF effectiveStopIds
<1>5. CASE s.parent = Null /\ Platforms(db, s.id) = {}
  BY <1>1, <1>5 DEF effectiveStopIds, GroupBoard
<1> QED BY <1>2, <1>3, <1>4, <1>5

\* A platform has its station's board.
LEMMA BoardOfPlatform ==
    ASSUME StationsKnown(db), NEW station, station # Null, NEW p \in Platforms(db, station)
    PROVE  effectiveStopIds(db, p) = Platforms(db, station)
<1>1. PICK s \in db.stops : s.id = p /\ s.parent = station
  BY PlatformsOf
<1> QED BY <1>1, BoardOf

\* A group has the stop that it is named after, and is the same whichever of its stops is asked.
LEMMA BoardOfGroup ==
    ASSUME StopsKnown, NEW s, NEW o \in GroupBoard(s)
    PROVE  GroupBoard(o) = GroupBoard(s) /\ GroupOf(db, o) = GroupOf(db, s) /\ (o # s => o \in DOMAIN db.group)
<1>1. CASE o = s
  BY <1>1
<1>2. CASE o # s
  <2>1. o \in DOMAIN db.group /\ GroupOf(db, o) = GroupOf(db, s)
    BY <1>2 DEF GroupBoard
  <2>2. db.group[o] \in DOMAIN db.group /\ db.group[o] = GroupOf(db, s)
    BY <2>1 DEF StopsKnown, IsGroups, GroupOf
  <2>3. s \in DOMAIN db.group
    BY <2>2 DEF GroupOf
  <2> QED BY <2>1, <2>3 DEF GroupBoard
<1> QED BY <1>1, <1>2

\* The stops of a group have no station, and unless it is mixed no platforms.
LEMMA MembersOfGroup ==
    ASSUME StopsKnown, NEW x \in DOMAIN db.group
    PROVE  \E s \in db.stops : s.id = x /\ s.parent = Null
<1>1. x \in {s.id : s \in {y \in db.stops : y.parent = Null}}
  BY DEF StopsKnown, IsGroups
<1> QED BY <1>1

\* Whoever is on a board has the same one: platforms that of their station, the stops of a group
\* that of the group.
LEMMA InvBoardsAgree == Inv => BoardsAgree
<1> SUFFICES ASSUME Inv, Of("stops") PROVE BoardsAgree
  BY DEF BoardsAgree
<1>1. StopsKnown
  BY StopsAreKnown
<1>2. StationsKnown(db)
  BY <1>1 DEF StopsKnown
<1> DEFINE Ids == {x.id : x \in db.stops}
           Board == [s \in Ids |-> effectiveStopIds(db, s)]
<1>3. SUFFICES ASSUME NEW s \in Ids, NEW o \in Board[s] \cap Ids, ~Mixed(s)
               PROVE  Board[o] = Board[s]
  <2>1. DOMAIN Board = Ids
    OBVIOUS
  <2>2. Board \in {[s \in {x.id : x \in db.stops} |-> effectiveStopIds(db, s)]}
    OBVIOUS
  <2> HIDE DEF Board, Ids
  <2>3. \A s \in DOMAIN Board : \A o \in Board[s] \cap DOMAIN Board : ~Mixed(s) /\ ~Mixed(o) => Board[o] = Board[s]
    BY <1>3, <2>1
  <2> QED BY <2>2, <2>3 DEF BoardsAgree
<1>4. PICK r \in db.stops : r.id = s
  OBVIOUS
<1>5. PICK q \in db.stops : q.id = o
  OBVIOUS
<1>6. Board[s] = effectiveStopIds(db, s) /\ Board[o] = effectiveStopIds(db, o)
  OBVIOUS
<1> HIDE DEF Board, Ids
<1>7. CASE r.parent # Null /\ Platforms(db, r.parent) # {}
  <2>1. Board[s] = Platforms(db, r.parent)
    BY <1>2, <1>4, <1>6, <1>7, BoardOf
  <2> QED BY <1>2, <1>6, <1>7, <2>1, BoardOfPlatform
<1>8. CASE r.parent # Null /\ Platforms(db, r.parent) = {}
  <2>1. Board[s] = {s}
    BY <1>2, <1>4, <1>6, <1>8, BoardOf
  <2> QED BY <2>1
<1>9. CASE r.parent = Null /\ Platforms(db, r.id) # {}
  <2>1. Board[s] = Platforms(db, s) /\ s # Null
    BY <1>2, <1>4, <1>6, <1>9, BoardOf DEF StationsKnown
  <2> QED BY <1>2, <1>6, <2>1, BoardOfPlatform
<1>10. CASE r.parent = Null /\ Platforms(db, r.id) = {}
  <2>1. Board[s] = GroupBoard(s)
    BY <1>2, <1>4, <1>6, <1>10, BoardOf
  <2>2. CASE o = s
    BY <2>2
  <2>3. CASE o # s
    <3>1. /\ GroupBoard(o) = GroupBoard(s)
          /\ GroupOf(db, o) = GroupOf(db, s)
          /\ o \in DOMAIN db.group
      BY <1>1, <2>1, <2>3, BoardOfGroup
    <3>2. q.parent = Null
      BY <1>1, <1>2, <1>5, <3>1, MembersOfGroup DEF StationsKnown
    <3>3. Platforms(db, q.id) = {}
      BY <1>3, <1>5, <3>1 DEF Mixed
    <3>4. Board[o] = GroupBoard(o)
      BY <1>2, <1>5, <1>6, <3>2, <3>3, BoardOf
    <3> QED BY <2>1, <3>1, <3>4
  <2> QED BY <2>2, <2>3
<1> QED BY <1>7, <1>8, <1>9, <1>10

\* effectiveStopIds: every stop that a board merges has the same board, whether it is a station, its
\* platform or a stop at the same place, and whatever the feed; but for a station with platforms that
\* was merged with another stop.
THEOREM BoardsAreAgreed == Spec => []BoardsAgree
BY Invariant, InvBoardsAgree, PTL

----------------------------------------------------------------------------
(***************************************************************************)
(* What a search finds.                                                    *)
(***************************************************************************)
\* Only stops of a group share one.
LEMMA SameGroup ==
    ASSUME StopsKnown, NEW s, NEW o, s # o, GroupOf(db, s) = GroupOf(db, o)
    PROVE  s \in DOMAIN db.group /\ o \in DOMAIN db.group
BY DEF StopsKnown, IsGroups, GroupOf

\* A trip's stop has its route, and so has the station of the stop.
LEMMA RoutesServed ==
    ASSUME StationsKnown(db), NEW x \in Served(db), \E r \in db.routes : r.id = x.route
    PROVE  /\ x.route \in RoutesOf(db, x.stop)
           /\ \A s \in db.stops : s.id = x.stop /\ s.parent # Null => x.route \in RoutesOf(db, s.parent)
<1> DEFINE above == UNION {{[stop |-> s.parent, route |-> y.route] : y \in {z \in Served(db) : z.stop = s.id}} :
                           s \in {z \in db.stops : z.parent # Null}}
<1>1. db.route_stops = {y \in Served(db) \cup above : \E r \in db.routes : r.id = y.route}
  BY DEF StationsKnown, RouteStops
<1>2. x \in db.route_stops
  <2> HIDE DEF above
  <2> QED BY <1>1
<1>3. ASSUME NEW s \in db.stops, s.id = x.stop, s.parent # Null PROVE x.route \in RoutesOf(db, s.parent)
  <2> DEFINE y == [stop |-> s.parent, route |-> x.route]
  <2>1. y \in above
    BY <1>3
  <2>2. y.stop = s.parent /\ y.route = x.route
    OBVIOUS
  <2> HIDE DEF y, above
  <2>3. y \in db.route_stops
    BY <1>1, <2>1, <2>2
  <2> QED BY <2>2, <2>3 DEF RoutesOf
<1>4. x.route \in RoutesOf(db, x.stop)
  BY <1>2 DEF RoutesOf
<1> QED BY <1>3, <1>4

\* A stop has the routes of the trips that call there, and of its platforms.
LEMMA RoutesOfStop ==
    ASSUME StationsKnown(db), NEW s, NEW z \in RoutesOf(db, s)
    PROVE  \/ \E x \in Served(db) : x.stop = s
           \/ \E w \in Platforms(db, s) : s # Null /\ z \in RoutesOf(db, w)
<1> DEFINE above == UNION {{[stop |-> o.parent, route |-> y.route] : y \in {v \in Served(db) : v.stop = o.id}} :
                           o \in {v \in db.stops : v.parent # Null}}
<1>1. db.route_stops = {y \in Served(db) \cup above : \E r \in db.routes : r.id = y.route}
  BY DEF StationsKnown, RouteStops
<1>2. PICK x \in db.route_stops : x.stop = s /\ x.route = z
  BY DEF RoutesOf
<1>3. CASE x \in Served(db)
  BY <1>2, <1>3
<1>4. CASE x \in above
  <2>1. PICK o \in db.stops :
          o.parent # Null /\ \E y \in Served(db) : y.stop = o.id /\ x = [stop |-> o.parent, route |-> y.route]
    BY <1>4
  <2>2. PICK y \in Served(db) : y.stop = o.id /\ x = [stop |-> o.parent, route |-> y.route]
    BY <2>1
  <2>3. \E r \in db.routes : r.id = y.route
    <3> HIDE DEF above
    <3> QED BY <1>1, <2>2
  <2>4. z \in RoutesOf(db, o.id)
    BY <1>2, <2>2, <2>3, RoutesServed
  <2>5. o.id \in Platforms(db, s) /\ s # Null
    BY <1>2, <2>1, <2>2, <2>4 DEF Platforms
  <2> QED BY <2>4, <2>5
<1>5. x \in Served(db) \cup above
  <2> HIDE DEF above
  <2> QED BY <1>1
<1> QED BY <1>3, <1>4, <1>5

\* No train stops at a station.
LEMMA StationIsNotServed ==
    ASSUME StationsKnown(db), NEW s, s # Null, Platforms(db, s) # {}
    PROVE  \A x \in Served(db) : x.stop # s
<1>1. PICK w \in db.stops : w.parent = s
  BY DEF Platforms
<1> QED BY <1>1 DEF StationsKnown

\* A call that the files say is in the tables.
LEMMA CallsServed ==
    ASSUME Inv, Of("stops"), NEW x \in Calls
    PROVE  x \in Served(db) /\ \E r \in db.routes : r.id = x.route
<1>1. case \in StopCases /\ db \in TablesOf(case.files)
  BY StopsAreKnown DEF Inv, Of
<1>2. StationsAreSound(case.files)
  BY <1>1, StopCasesAssumption
<1>3. /\ db.routes = ROUTES(case.files.routes)
      /\ db.trips = TRIPS(case.files.trips)
      /\ db.stop_times = STOP_TIMES(case.files.stop_times)
  BY <1>1, <1>2, TablesKnown
<1>4. PICK st \in case.files.stop_times :
         /\ Readable({st.trip_id, st.stop_id, st.stop_sequence}, {st.arrival_time, st.departure_time})
         /\ \E t \in case.files.trips :
               /\ Readable({t.trip_id, t.route_id, t.service_id}, {t.direction_id})
               /\ t.trip_id = st.trip_id
               /\ \E r \in case.files.routes : r.route_id = t.route_id /\ Readable({r.route_id, r.route_type}, {})
               /\ x = [stop |-> st.stop_id, route |-> t.route_id]
  BY DEF Calls
<1>5. PICK t \in case.files.trips :
               /\ Readable({t.trip_id, t.route_id, t.service_id}, {t.direction_id})
               /\ t.trip_id = st.trip_id
               /\ \E r \in case.files.routes : r.route_id = t.route_id /\ Readable({r.route_id, r.route_type}, {})
               /\ x = [stop |-> st.stop_id, route |-> t.route_id]
  BY <1>4
<1>6. PICK r \in case.files.routes : r.route_id = t.route_id /\ Readable({r.route_id, r.route_type}, {})
  BY <1>5
<1> DEFINE Rt == [id |-> r.route_id, name |-> text(r.route_short_name), type |-> r.route_type]
           Tt == [id |-> t.trip_id, route |-> t.route_id, service |-> t.service_id,
                  headsign |-> text(t.trip_headsign), direction |-> text(t.direction_id), shape |-> text(t.shape_id)]
           Sts == [trip |-> st.trip_id, stop |-> st.stop_id, seq |-> st.stop_sequence,
                   arrival |-> text(st.arrival_time), departure |-> text(st.departure_time)]
<1>7. Rt \in db.routes
  <2>1. Given({r.route_id, r.route_type})
    BY <1>6 DEF Given, Readable
  <2> QED BY <1>3, <2>1 DEF ROUTES
<1>8. Tt \in db.trips
  <2>1. Given({t.trip_id, t.route_id, t.service_id}) /\ Sound({t.direction_id})
    BY <1>5 DEF Given, Sound, Readable
  <2> QED BY <1>3, <2>1 DEF TRIPS
<1>9. Sts \in db.stop_times
  <2>1. Given({st.trip_id, st.stop_id, st.stop_sequence}) /\ Sound({st.arrival_time, st.departure_time})
    BY <1>4 DEF Given, Sound, Readable
  <2> QED BY <1>3, <2>1 DEF STOP_TIMES
<1>10. /\ Rt.id = r.route_id /\ Tt.id = t.trip_id /\ Tt.route = t.route_id
       /\ Sts.trip = st.trip_id /\ Sts.stop = st.stop_id
  OBVIOUS
<1> HIDE DEF Rt, Tt, Sts
<1>11. [stop |-> Sts.stop, route |-> Tt.route] \in Served(db)
  BY <1>5, <1>8, <1>9, <1>10 DEF Served
<1>12. x.route = t.route_id
  BY <1>5
<1> QED BY <1>5, <1>6, <1>7, <1>10, <1>11, <1>12

\* An entry stands for the rows of a page that are in its group.
IsEntryOf(e, rows) ==
    /\ \E r \in rows : e.stop = r.id
    /\ e.members = {r.id : r \in {x \in rows : GroupOf(db, x.id) = GroupOf(db, e.stop)}}
    /\ e.routes = UNION {RoutesOf(db, m) : m \in e.members}

AreEntries(es, rows) ==
    /\ es \in Seq(ToSet(es))
    /\ \A e \in ToSet(es) : IsEntryOf(e, rows)
    /\ \A r \in rows : \E e \in ToSet(es) : GroupOf(db, e.stop) = GroupOf(db, r.id)

\* A sequence is a sequence of its own elements.
LEMMA SeqOfSet ==
    ASSUME NEW X, NEW s \in Seq(X)
    PROVE  s \in Seq(ToSet(s))
<1>1. s \in Seq(Range(s))
  BY SeqOfRange
<1> QED BY <1>1 DEF Range, ToSet

\* Merging loses no row: each is in the entry of its group, and an entry has rows of one group.
LEMMA MergedRows ==
    ASSUME NEW X, NEW rows \in Seq(X)
    PROVE  AreEntries(Merged(db, rows), ToSet(rows))
<1> DEFINE Id(i)      == GroupOf(db, rows[i].id)
           IsFirst(i) == \A j \in 1 .. i - 1 : Id(j) # Id(i)
           Entry(i)   ==
             [stop    |-> rows[i].id,
              members |-> {rows[j].id : j \in {k \in DOMAIN rows : Id(k) = Id(i)}},
              routes  |-> UNION {RoutesOf(db, rows[j].id) : j \in {k \in DOMAIN rows : Id(k) = Id(i)}}]
           places == [i \in DOMAIN rows |-> i]
           those  == {i \in DOMAIN rows : IsFirst(i)}
           firsts == Filter(places, those)
           es == [k \in DOMAIN firsts |-> Entry(firsts[k])]
<1>1. Merged(db, rows) = es
  BY DEF Merged
<1>2. Len(rows) \in Nat /\ DOMAIN rows = 1 .. Len(rows)
  OBVIOUS
<1>3. places \in Seq(Nat) /\ ToSet(places) = DOMAIN rows
  BY <1>2 DEF ToSet
<1> HIDE DEF places
<1>4. firsts \in Seq(Nat) /\ ToSet(firsts) = those
  <2>1. those \subseteq DOMAIN rows
    OBVIOUS
  <2> HIDE DEF those
  <2>2. firsts \in Seq(Nat) /\ ToSet(firsts) = ToSet(places) \cap those
    BY <1>3, FilterKeeps
  <2> QED BY <1>3, <2>1, <2>2
<1> HIDE DEF firsts
<1>5. ToSet(es) = {Entry(i) : i \in those}
  <2> HIDE DEF Entry, those
  <2> QED BY <1>4 DEF ToSet
<1>6. es \in Seq(ToSet(es))
  <2> HIDE DEF Entry, those
  <2>1. Len(firsts) \in Nat /\ DOMAIN firsts = 1 .. Len(firsts)
    BY <1>4
  <2> DEFINE E == {Entry(i) : i \in those}
  <2>2. \A k \in DOMAIN firsts : firsts[k] \in those
    BY <1>4 DEF ToSet
  <2>3. \A k \in 1 .. Len(firsts) : Entry(firsts[k]) \in E
    BY <2>1, <2>2
  <2>4. es \in Seq(E)
    <3> HIDE DEF E
    <3> QED BY <2>1, <2>3
  <2> QED BY <1>5, <2>4
<1>7. ASSUME NEW i \in those PROVE IsEntryOf(Entry(i), ToSet(rows))
  <2> DEFINE alike == {k \in DOMAIN rows : Id(k) = Id(i)}
             others == {x \in ToSet(rows) : GroupOf(db, x.id) = Id(i)}
  <2>1. Entry(i).stop = rows[i].id /\ rows[i] \in ToSet(rows)
    BY DEF ToSet
  <2>2. others = {rows[k] : k \in alike}
    BY DEF ToSet
  <2>3. Entry(i).members = {rows[j].id : j \in alike}
    OBVIOUS
  <2>4. Entry(i).routes = UNION {RoutesOf(db, rows[j].id) : j \in alike}
    OBVIOUS
  <2>5. Id(i) = GroupOf(db, Entry(i).stop)
    BY <2>1
  <2> HIDE DEF Entry, alike
  <2>6. Entry(i).members = {r.id : r \in others}
    <3> HIDE DEF others
    <3> QED BY <2>2, <2>3
  <2>7. Entry(i).routes = UNION {RoutesOf(db, m) : m \in Entry(i).members}
    BY <2>3, <2>4
  <2> QED BY <2>1, <2>5, <2>6, <2>7 DEF IsEntryOf
<1>8. ASSUME NEW r \in ToSet(rows) PROVE \E i \in those : Id(i) = GroupOf(db, r.id)
  <2> DEFINE alike == {k \in DOMAIN rows : Id(k) = GroupOf(db, r.id)}
  <2>1. alike # {} /\ alike \in SUBSET Nat
    BY <1>2 DEF ToSet
  <2>2. PICK i \in alike : \A k \in alike : i <= k
    <3> HIDE DEF alike
    <3> QED BY <2>1, LeastIndex
  <2>3. ASSUME NEW j \in 1 .. i - 1 PROVE Id(j) # Id(i)
    <3>1. j \in DOMAIN rows /\ ~(i <= j)
      BY <1>2
    <3>2. j \notin alike
      BY <2>2, <3>1
    <3> QED BY <3>1, <3>2
  <2> QED BY <2>3
<1>9. \A i \in those : Entry(i).stop = rows[i].id
  OBVIOUS
<1> HIDE DEF those, Entry, es
<1>10. \A r \in ToSet(rows) : \E e \in ToSet(es) : GroupOf(db, e.stop) = GroupOf(db, r.id)
  BY <1>5, <1>8, <1>9
<1>11. \A e \in ToSet(es) : IsEntryOf(e, ToSet(rows))
  BY <1>5, <1>7
<1> QED BY <1>1, <1>6, <1>10, <1>11 DEF AreEntries

\* The sort loses no entry.
LEMMA SortKeeps ==
    ASSUME NEW es, es \in Seq(ToSet(es))
    PROVE  ToSet(ByPriority(db, es)) = ToSet(es)
<1> DEFINE X == ToSet(es)
           P(p) == {e \in X : searchResultPriority(TypesOf(db, e)) = p}
           F(p) == Filter(es, P(p))
<1>1. \A T : searchResultPriority(T) \in {0, 1, 2, 3, 4}
  BY DEF searchResultPriority
<1>2. ByPriority(db, es) = F(0) \o F(1) \o F(2) \o F(3) \o F(4)
  BY DEF ByPriority
<1>3. X = P(0) \cup P(1) \cup P(2) \cup P(3) \cup P(4)
  <2> HIDE DEF X
  <2> QED BY <1>1
<1> HIDE DEF X
<1>4. ASSUME NEW p PROVE F(p) \in Seq(X) /\ ToSet(F(p)) = P(p)
  <2>1. P(p) \subseteq X
    OBVIOUS
  <2> HIDE DEF P
  <2>2. es \in Seq(X) /\ ToSet(es) = X
    BY DEF X
  <2>3. F(p) \in Seq(X) /\ ToSet(F(p)) = ToSet(es) \cap P(p)
    BY <2>2, FilterKeeps
  <2> QED BY <2>1, <2>2, <2>3
<1> HIDE DEF P, F
<1> DEFINE G1 == F(0) \o F(1)
           G2 == G1 \o F(2)
           G3 == G2 \o F(3)
           G4 == G3 \o F(4)
<1>5. G1 \in Seq(X) /\ ToSet(G1) = P(0) \cup P(1)
  BY <1>4, ConcatKeeps
<1> HIDE DEF G1
<1>6. G2 \in Seq(X) /\ ToSet(G2) = P(0) \cup P(1) \cup P(2)
  BY <1>4, <1>5, ConcatKeeps
<1> HIDE DEF G2
<1>7. G3 \in Seq(X) /\ ToSet(G3) = P(0) \cup P(1) \cup P(2) \cup P(3)
  BY <1>4, <1>6, ConcatKeeps
<1> HIDE DEF G3
<1>8. ToSet(G4) = P(0) \cup P(1) \cup P(2) \cup P(3) \cup P(4)
  BY <1>4, <1>7, ConcatKeeps
<1>9. ByPriority(db, es) = G4
  BY <1>2 DEF G3, G2, G1
<1> HIDE DEF G4
<1> QED BY <1>3, <1>8, <1>9 DEF X

\* The rows that a search finds, and those of them on a page.
Hits(order, names) == Filter(order, {s \in ToSet(order) : s.parent = Null /\ s.name \in names})

RowsOnPage(hits, limit, offset) ==
    SubSeq(hits, offset + 1, IF offset + limit < Len(hits) THEN offset + limit ELSE Len(hits))

TopNamed(names) == {s \in db.stops : s.parent = Null /\ s.name \in names}

\* The sorted entries of some rows.
Shows(data, rows) ==
    /\ \A e \in ToSet(data) : IsEntryOf(e, rows)
    /\ \A r \in rows : \E e \in ToSet(data) : GroupOf(db, e.stop) = GroupOf(db, r.id)

\* A search finds all stops of the names that have no station.
LEMMA HitsAreTop ==
    ASSUME IsFiniteSet(db.stops), NEW order \in SetToSeqs(db.stops), NEW names
    PROVE  /\ Hits(order, names) \in Seq(db.stops)
           /\ ToSet(Hits(order, names)) = TopNamed(names)
           /\ Len(Hits(order, names)) <= Cardinality(db.stops)
<1> DEFINE those == {s \in ToSet(order) : s.parent = Null /\ s.name \in names}
           at == {i \in DOMAIN order : order[i] \in those}
<1>1. /\ order \in Seq(db.stops)
      /\ ToSet(order) = db.stops
      /\ Len(order) = Cardinality(db.stops)
  BY OrderOfRows
<1>2. Hits(order, names) = Filter(order, those)
  BY DEF Hits
<1>3. those = TopNamed(names)
  BY <1>1 DEF TopNamed
<1> HIDE DEF those
<1>4. /\ Filter(order, those) \in Seq(db.stops)
      /\ ToSet(Filter(order, those)) = ToSet(order) \cap those
      /\ Len(Filter(order, those)) = Cardinality(at)
  BY <1>1, FilterKeeps
<1>5. Cardinality(at) <= Len(order)
  <2>1. Len(order) \in Nat /\ at \in SUBSET (1 .. Len(order))
    BY <1>1
  <2>2. IsFiniteSet(1 .. Len(order)) /\ Cardinality(1 .. Len(order)) = Len(order)
    <3> DEFINE n == Len(order)
    <3>1. n \in Nat
      BY <2>1
    <3> HIDE DEF n
    <3>2. n \in Int /\ 1 \in Int /\ (1 > n => n = 0)
      BY <3>1
    <3>3. IsFiniteSet(1 .. n) /\ Cardinality(1 .. n) = IF 1 > n THEN 0 ELSE n - 1 + 1
      BY <3>2, FS_Interval
    <3>4. Cardinality(1 .. n) = n
      BY <3>1, <3>3
    <3> QED BY <3>3, <3>4 DEF n
  <2> HIDE DEF at
  <2>3. Cardinality(at) <= Cardinality(1 .. Len(order))
    BY <2>1, <2>2, FS_Subset
  <2> QED BY <2>2, <2>3
<1>6. ToSet(Filter(order, those)) = TopNamed(names)
  <2>1. TopNamed(names) \subseteq db.stops
    BY DEF TopNamed
  <2> QED BY <1>1, <1>3, <1>4, <2>1
<1> HIDE DEF at
<1> QED BY <1>1, <1>2, <1>4, <1>5, <1>6

\* A page of a search shows the merged rows of the page, sorted.
LEMMA SearchShows ==
    ASSUME IsFiniteSet(db.stops), NEW order \in SetToSeqs(db.stops), NEW names, NEW limit \in Nat, NEW offset \in Nat
    PROVE  LET rows == RowsOnPage(Hits(order, names), limit, offset)
           IN  /\ Shows(search(db, order, names, limit, offset).data, ToSet(rows))
               /\ ToSet(rows) \subseteq TopNamed(names)
<1> DEFINE hits == Hits(order, names)
           rows == RowsOnPage(hits, limit, offset)
           n == IF offset + limit < Len(hits) THEN offset + limit ELSE Len(hits)
<1>1. hits \in Seq(db.stops) /\ ToSet(hits) = TopNamed(names)
  BY HitsAreTop
<1>2. search(db, order, names, limit, offset).data = ByPriority(db, Merged(db, rows))
  BY DEF search, RowsOnPage, Hits
<1> HIDE DEF hits
<1>3. n \in Nat /\ n <= Len(hits) /\ Len(hits) \in Nat /\ DOMAIN hits = 1 .. Len(hits)
  BY <1>1
<1>4. rows = SubSeq(hits, offset + 1, n)
  BY DEF RowsOnPage
<1> HIDE DEF n
<1>5. rows \in Seq(db.stops) /\ ToSet(rows) = {hits[i] : i \in offset + 1 .. n}
  <2> DEFINE m == offset + 1
  <2>1. m \in Nat \ {0}
    OBVIOUS
  <2> HIDE DEF rows, m
  <2>2. SubSeq(hits, m, n) \in Seq(db.stops)
    BY <1>1, <1>3, <2>1, SubSeqKeeps
  <2>3. ToSet(SubSeq(hits, m, n)) = Part(hits, m, n)
    BY <1>1, <1>3, <2>1, SubSeqKeeps
  <2> QED BY <1>4, <2>2, <2>3 DEF m, Part
<1>6. ToSet(rows) \subseteq ToSet(hits)
  <2>1. \A i \in offset + 1 .. n : i \in DOMAIN hits
    BY <1>3
  <2> HIDE DEF rows
  <2> QED BY <1>5, <2>1 DEF ToSet
<1> HIDE DEF rows
<1> DEFINE es == Merged(db, rows)
<1>7. AreEntries(es, ToSet(rows))
  BY <1>5, MergedRows
<1>8. ToSet(ByPriority(db, es)) = ToSet(es)
  <2> HIDE DEF es
  <2>1. es \in Seq(ToSet(es))
    BY <1>7 DEF AreEntries
  <2> QED BY <2>1, SortKeeps
<1>9. Shows(ByPriority(db, es), ToSet(rows))
  <2> HIDE DEF es
  <2> QED BY <1>7, <1>8 DEF AreEntries, Shows
<1>10. ToSet(rows) \subseteq TopNamed(names)
  BY <1>1, <1>6
<1> HIDE DEF es
<1>11. Shows(search(db, order, names, limit, offset).data, ToSet(rows))
  BY <1>2, <1>9 DEF es
<1> QED BY <1>10, <1>11 DEF rows, hits

\* Every row that is found is on a page.
LEMMA PagesHave ==
    ASSUME IsFiniteSet(db.stops), NEW order \in SetToSeqs(db.stops), NEW names, NEW s \in TopNamed(names),
           PageSize \in Nat \ {0}
    PROVE  \E page \in Pages : s \in ToSet(RowsOnPage(Hits(order, names), PageSize, PageSize * page))
<1> DEFINE hits == Hits(order, names)
<1>1. hits \in Seq(db.stops) /\ ToSet(hits) = TopNamed(names) /\ Len(hits) <= Cardinality(db.stops)
  BY HitsAreTop
<1>2. Cardinality(db.stops) \in Nat
  BY FS_CardinalityType
<1> HIDE DEF hits
<1>3. PICK i \in 1 .. Len(hits) : hits[i] = s
  BY <1>1 DEF ToSet
<1>4. PICK page \in Nat : PageSize * page < i /\ i <= PageSize * page + PageSize
  <2>1. i \in Nat /\ 0 < i
    BY <1>1
  <2> QED BY <2>1, PageOf
<1> DEFINE offset == PageSize * page
           n == IF offset + PageSize < Len(hits) THEN offset + PageSize ELSE Len(hits)
<1>5. offset \in Nat /\ page <= offset
  <2>1. page <= PageSize * page
    OBVIOUS
  <2>2. PageSize * page \in Nat
    OBVIOUS
  <2> QED BY <2>1, <2>2
<1>6. offset < i /\ i <= offset + PageSize
  BY <1>4
<1>7. page \in Pages
  <2>1. offset < Cardinality(db.stops)
    <3> HIDE DEF offset
    <3> QED BY <1>1, <1>2, <1>5, <1>6
  <2>2. page \in 0 .. Cardinality(db.stops)
    <3> HIDE DEF offset
    <3> QED BY <1>2, <1>5, <2>1
  <2> QED BY <2>1, <2>2 DEF Pages
<1> HIDE DEF offset
<1>8. n \in Nat /\ n <= Len(hits) /\ i \in offset + 1 .. n /\ offset + 1 \in Nat \ {0}
  BY <1>1, <1>5, <1>6
<1> HIDE DEF n
<1>9. ToSet(SubSeq(hits, offset + 1, n)) = Part(hits, offset + 1, n)
  BY <1>1, <1>8, SubSeqKeeps
<1>10. s \in ToSet(SubSeq(hits, offset + 1, n))
  BY <1>3, <1>8, <1>9 DEF Part
<1>11. s \in ToSet(RowsOnPage(hits, PageSize, offset))
  BY <1>10 DEF RowsOnPage, n
<1> QED BY <1>7, <1>11 DEF hits, offset

\* A stop is on the board of its group.
LEMMA BoardHasItself ==
    ASSUME NEW s
    PROVE  s \in GroupBoard(s)
BY DEF GroupBoard

\* In a group that is not mixed no stop has platforms.
LEMMA MixedHas ==
    ASSUME NEW s, NEW x \in DOMAIN db.group, GroupOf(db, x) = GroupOf(db, s), ~Mixed(s)
    PROVE  Platforms(db, x) = {}
BY DEF Mixed

\* The entry that a search has for the group of a stop without platforms.
LEMMA EntryOfStop ==
    ASSUME StopsKnown, NEW s \in db.stops, s.parent = Null, Platforms(db, s.id) = {}, ~Mixed(s.id),
           NEW o \in db.stops, o.parent = Null, GroupOf(db, o.id) = GroupOf(db, s.id)
    PROVE  s.id \in effectiveStopIds(db, o.id)
<1>1. StationsKnown(db)
  BY DEF StopsKnown
<1>2. CASE o.id = s.id
  <2>1. effectiveStopIds(db, o.id) = GroupBoard(o.id)
    BY <1>1, <1>2, BoardOf
  <2> QED BY <1>2, <2>1, BoardHasItself
<1>3. CASE o.id # s.id
  <2>1. o.id \in DOMAIN db.group /\ s.id \in DOMAIN db.group
    BY <1>3, SameGroup
  <2>2. Platforms(db, o.id) = {}
    BY <2>1, MixedHas
  <2>3. effectiveStopIds(db, o.id) = GroupBoard(o.id)
    BY <1>1, <2>2, BoardOf
  <2> QED BY <2>1, <2>3 DEF GroupBoard
<1> QED BY <1>2, <1>3

\* A station with platforms is an entry of its own.
LEMMA EntryOfStation ==
    ASSUME StopsKnown, NEW s, Platforms(db, s) # {}, ~Mixed(s), NEW o, GroupOf(db, o) = GroupOf(db, s)
    PROVE  o = s
<1> SUFFICES ASSUME o # s PROVE FALSE
  OBVIOUS
<1>1. s \in DOMAIN db.group
  BY SameGroup
<1> QED BY <1>1, MixedHas

\* A call leads to the trains.
LEMMA CallFound ==
    ASSUME Inv, Of("stops"), NEW x \in Calls, NEW q \in db.stops, q.id = x.stop,
           NEW s \in db.stops, s.id = (IF q.parent = Null THEN x.stop ELSE q.parent), ~Mixed(s.id),
           NEW rows \in SUBSET TopNamed(Names), s \in rows, NEW e, IsEntryOf(e, rows),
           GroupOf(db, e.stop) = GroupOf(db, s.id)
    PROVE  x.route \in e.routes /\ x.stop \in effectiveStopIds(db, e.stop)
<1>1. StopsKnown /\ StationsKnown(db)
  BY StopsAreKnown DEF StopsKnown
<1>2. x \in Served(db) /\ \E r \in db.routes : r.id = x.route
  BY CallsServed
<1>3. s.id \in e.members
  BY DEF IsEntryOf
<1>4. PICK o \in rows : e.stop = o.id
  BY DEF IsEntryOf
<1>5. o \in db.stops /\ o.parent = Null /\ s.parent = Null
  BY DEF TopNamed
<1>6. x.route \in RoutesOf(db, s.id)
  BY <1>1, <1>2, RoutesServed
<1>7. x.route \in e.routes
  BY <1>3, <1>6 DEF IsEntryOf
<1>8. CASE q.parent = Null
  <2>1. s = q
    BY <1>1, <1>8 DEF StationsKnown
  <2>2. Platforms(db, s.id) = {}
    BY <1>1, <1>2, <2>1, StationIsNotServed DEF StationsKnown
  <2>3. s.id \in effectiveStopIds(db, o.id)
    BY <1>1, <1>4, <1>5, <2>2, EntryOfStop
  <2> QED BY <1>4, <1>7, <1>8, <2>3
<1>9. CASE q.parent # Null
  <2>1. x.stop \in Platforms(db, s.id)
    <3>1. x.route \in RoutesOf(db, x.stop)
      BY <1>1, <1>2, RoutesServed
    <3> QED BY <1>9, <3>1 DEF Platforms
  <2>2. e.stop = s.id
    BY <1>1, <2>1, EntryOfStation
  <2>3. effectiveStopIds(db, s.id) = Platforms(db, s.id)
    BY <1>1, <1>5, <2>1, BoardOf
  <2> QED BY <1>7, <2>1, <2>2, <2>3
<1> QED BY <1>8, <1>9

\* An entry names only routes of its board.
LEMMA RoutesOnBoard ==
    ASSUME Inv, Of("stops"), NEW rows \in SUBSET TopNamed(Names), NEW e, IsEntryOf(e, rows), ~Mixed(e.stop),
           NEW z \in e.routes
    PROVE  \E y \in effectiveStopIds(db, e.stop) : z \in RoutesOf(db, y)
<1>1. StopsKnown /\ StationsKnown(db)
  BY StopsAreKnown DEF StopsKnown
<1>2. PICK o \in rows : e.stop = o.id
  BY DEF IsEntryOf
<1>3. o \in db.stops /\ o.parent = Null /\ o.id # Null
  BY <1>1 DEF TopNamed, StationsKnown
<1>4. PICK m \in e.members : z \in RoutesOf(db, m)
  BY DEF IsEntryOf
<1>5. GroupOf(db, m) = GroupOf(db, e.stop)
  BY DEF IsEntryOf
<1>6. CASE Platforms(db, e.stop) # {}
  <2>1. m = e.stop
    BY <1>1, <1>5, <1>6, EntryOfStation
  <2>2. effectiveStopIds(db, e.stop) = Platforms(db, e.stop)
    BY <1>1, <1>2, <1>3, <1>6, BoardOf
  <2>3. \A x \in Served(db) : x.stop # e.stop
    BY <1>1, <1>2, <1>3, <1>6, StationIsNotServed
  <2>4. \E w \in Platforms(db, e.stop) : z \in RoutesOf(db, w)
    BY <1>1, <1>4, <2>1, <2>3, RoutesOfStop
  <2> QED BY <2>2, <2>4
<1>7. CASE Platforms(db, e.stop) = {}
  <2>1. effectiveStopIds(db, e.stop) = GroupBoard(e.stop)
    BY <1>1, <1>2, <1>3, <1>7, BoardOf
  <2>2. CASE m = e.stop
    BY <1>4, <2>1, <2>2, BoardHasItself
  <2>3. CASE m # e.stop
    <3>1. m \in DOMAIN db.group
      BY <1>1, <1>5, <2>3, SameGroup
    <3> QED BY <1>4, <1>5, <2>1, <3>1 DEF GroupBoard
  <2> QED BY <2>2, <2>3
<1> QED BY <1>6, <1>7

\* A call is found: its stop or station is a row, the row is on a page, the page has its entry,
\* and the board of the entry has the stop.
LEMMA InvSearchLeadsToTrains == Inv => SearchLeadsToTrains
<1> SUFFICES ASSUME Inv, Of("stops") PROVE SearchLeadsToTrains
  BY DEF SearchLeadsToTrains
<1>1. StopsKnown /\ StationsKnown(db) /\ IsFiniteSet(db.stops)
  BY StopsAreKnown DEF StopsKnown
<1>2. PageSize \in Nat \ {0}
  BY StopCasesAssumption
<1> DEFINE board == [s \in {x.id : x \in db.stops} |-> effectiveStopIds(db, s)]
           Page(order, p) == search(db, order, Names, PageSize, PageSize * p).data
           Rows(order, p) == ToSet(RowsOnPage(Hits(order, Names), PageSize, PageSize * p))
           Found(order) == UNION {ToSet(Page(order, p)) : p \in Pages}
<1>3. ASSUME NEW order \in ByName, NEW p \in Pages
      PROVE  Shows(Page(order, p), Rows(order, p)) /\ Rows(order, p) \subseteq TopNamed(Names)
  <2>1. PageSize \in Nat /\ PageSize * p \in Nat /\ order \in SetToSeqs(db.stops)
    BY <1>2 DEF Pages, ByName
  <2> QED BY <1>1, <2>1, SearchShows
<1>4. ASSUME NEW order \in ByName, NEW x \in Calls, StopRow(db, x.stop) # {}
      PROVE  LET parent == ParentOf(db, x.stop)
                 top    == IF parent = Null THEN x.stop ELSE parent
             IN  \A s \in StopRow(db, top) : s.name \in Names /\ ~Mixed(top) =>
                     \E e \in Found(order) : x.route \in e.routes /\ x.stop \in board[e.stop]
  <2> DEFINE parent == ParentOf(db, x.stop)
             top    == IF parent = Null THEN x.stop ELSE parent
  <2>1. SUFFICES ASSUME NEW s \in StopRow(db, top), s.name \in Names, ~Mixed(top)
                 PROVE  \E e \in Found(order) : x.route \in e.routes /\ x.stop \in board[e.stop]
    OBVIOUS
  <2>2. PICK q \in db.stops : q.id = x.stop
    BY <1>4 DEF StopRow
  <2>3. parent = q.parent
    BY <1>1, <2>2, ParentOfRow
  <2>4. s \in db.stops /\ s.id = (IF q.parent = Null THEN x.stop ELSE q.parent) /\ s.id = top
    BY <2>3 DEF StopRow
  <2>5. s \in TopNamed(Names)
    BY <1>1, <2>1, <2>2, <2>4 DEF TopNamed, StationsKnown
  <2> HIDE DEF top, parent, board
  <2>6. PICK p \in Pages : s \in Rows(order, p)
    <3>1. order \in SetToSeqs(db.stops)
      BY DEF ByName
    <3> QED BY <1>1, <1>2, <2>5, <3>1, PagesHave
  <2>7. PICK e \in ToSet(Page(order, p)) : IsEntryOf(e, Rows(order, p)) /\ GroupOf(db, e.stop) = GroupOf(db, s.id)
    <3> HIDE DEF Page, Rows
    <3> QED BY <1>3, <2>6 DEF Shows
  <2>8. e \in Found(order)
    OBVIOUS
  <2>9. Rows(order, p) \in SUBSET TopNamed(Names)
    BY <1>3
  <2> HIDE DEF Page, Rows, Found
  <2>10. x.route \in e.routes /\ x.stop \in effectiveStopIds(db, e.stop)
    BY <2>1, <2>2, <2>4, <2>6, <2>7, <2>9, CallFound
  <2>11. \E o \in db.stops : e.stop = o.id
    BY <2>7, <2>9 DEF IsEntryOf, TopNamed
  <2>12. board[e.stop] = effectiveStopIds(db, e.stop)
    BY <2>11 DEF board
  <2> QED BY <2>8, <2>10, <2>12
<1>5. ASSUME NEW order \in ByName, NEW e \in Found(order), ~Mixed(e.stop)
      PROVE  e.routes \subseteq UNION {RoutesOf(db, s) : s \in board[e.stop]}
  <2>1. PICK p \in Pages : e \in ToSet(Page(order, p))
    OBVIOUS
  <2> HIDE DEF Page, Rows, Found
  <2>2. IsEntryOf(e, Rows(order, p)) /\ Rows(order, p) \in SUBSET TopNamed(Names)
    BY <1>3, <2>1 DEF Shows
  <2>3. \E o \in db.stops : e.stop = o.id
    BY <2>2 DEF IsEntryOf, TopNamed
  <2>4. board[e.stop] = effectiveStopIds(db, e.stop)
    BY <2>3
  <2>5. \A z \in e.routes : \E y \in effectiveStopIds(db, e.stop) : z \in RoutesOf(db, y)
    BY <1>5, <2>2, RoutesOnBoard
  <2> QED BY <2>4, <2>5
<1>6. board \in {[s \in {x.id : x \in db.stops} |-> effectiveStopIds(db, s)]}
  OBVIOUS
<1>7. \A order \in ByName :
         Found(order) \in {UNION {ToSet(search(db, order, Names, PageSize, PageSize * page).data) : page \in Pages}}
  OBVIOUS
<1> HIDE DEF board, Found
<1> QED BY <1>4, <1>5, <1>6, <1>7, Zenon DEF SearchLeadsToTrains

\* search and effectiveStopIds: whatever trip of the files serves a stop, an entry on one of the pages
\* of a search for the stop or its station names the route and has the stop on its board, and no entry
\* names a route that its board does not show.
THEOREM SearchesLead == Spec => []SearchLeadsToTrains
BY Invariant, InvSearchLeadsToTrains, PTL

----------------------------------------------------------------------------
(***************************************************************************)
(* Stops around a place.                                                   *)
(***************************************************************************)
\* The stops of an entry and their children.
StopsOf(members) == UNION {expanded_stops(db, m) : m \in members}

\* A stop where trains stop is a platform of its station.
LEMMA TrainAtPlatform ==
    ASSUME StationsKnown(db), NEW s \in db.stops, s.id \in TrainStops
    PROVE  /\ s.id \in Platforms(db, s.parent)
           /\ \E x \in Served(db) : x.stop = s.id
<1>1. PICK x \in Served(db) : x.stop = s.id /\ \E r \in db.routes : r.id = x.route
  BY DEF TrainStops
<1>2. x.route \in RoutesOf(db, s.id)
  BY <1>1, RoutesServed
<1> QED BY <1>1, <1>2 DEF Platforms

\* Who is expanded is a stop of the table, itself or its child.
LEMMA WhoIsExpanded ==
    ASSUME NEW m, NEW t \in expanded_stops(db, m)
    PROVE  \E y \in db.stops : y.id = t /\ (y.id = m \/ y.parent = m)
BY DEF expanded_stops

\* The trains of an entry are on its board, and all of those if the entry is whole.
LEMMA TrainsOfEntry ==
    ASSUME StopsKnown, NEW rows \in SUBSET db.stops, NEW e, IsEntryOf(e, rows), ~Mixed(e.stop)
    PROVE  /\ StopsOf(e.members) \cap TrainStops \subseteq effectiveStopIds(db, e.stop)
           /\ ParentOf(db, e.stop) = Null
              /\ {s \in DOMAIN db.group : GroupOf(db, s) = GroupOf(db, e.stop)} \subseteq e.members
              => effectiveStopIds(db, e.stop) \cap TrainStops \subseteq StopsOf(e.members)
<1> DEFINE whole == {s \in DOMAIN db.group : GroupOf(db, s) = GroupOf(db, e.stop)} \subseteq e.members
<1>1. StationsKnown(db)
  BY DEF StopsKnown
<1>2. PICK o \in rows : e.stop = o.id
  BY DEF IsEntryOf
<1>3. o \in db.stops /\ o.id # Null /\ ParentOf(db, e.stop) = o.parent
  BY <1>1, <1>2, ParentOfRow DEF StationsKnown
<1>4. e.stop \in e.members /\ \A m \in e.members : GroupOf(db, m) = GroupOf(db, e.stop) /\ \E q \in db.stops : q.id = m
  BY <1>2 DEF IsEntryOf
<1>5. ASSUME NEW t \in StopsOf(e.members) \cap TrainStops
      PROVE  \E m \in e.members, y \in db.stops :
                /\ y.id = t /\ (t = m \/ y.parent = m) /\ t \in Platforms(db, y.parent)
                /\ \E x \in Served(db) : x.stop = t
  <2>1. PICK m \in e.members : t \in expanded_stops(db, m)
    BY DEF StopsOf
  <2>2. PICK y \in db.stops : y.id = t /\ (y.id = m \/ y.parent = m)
    BY <2>1, WhoIsExpanded
  <2> QED BY <1>1, <2>2, TrainAtPlatform
<1>6. CASE o.parent = Null /\ Platforms(db, e.stop) # {}
  <2>1. e.members = {e.stop}
    BY <1>4, <1>6, EntryOfStation
  <2>2. effectiveStopIds(db, e.stop) = Platforms(db, e.stop)
    BY <1>1, <1>2, <1>3, <1>6, BoardOf
  <2>3. ASSUME NEW t \in StopsOf(e.members) \cap TrainStops PROVE t \in Platforms(db, e.stop)
    <3>1. PICK y \in db.stops : /\ t = e.stop \/ y.parent = e.stop
                                /\ t \in Platforms(db, y.parent)
                                /\ \E x \in Served(db) : x.stop = t
      BY <1>5, <2>1
    <3>2. t # e.stop
      BY <1>1, <1>2, <1>3, <1>6, <3>1, StationIsNotServed
    <3> QED BY <3>1, <3>2
  <2>4. Platforms(db, e.stop) \subseteq StopsOf(e.members)
    <3>1. \A p \in Platforms(db, e.stop) : p \in expanded_stops(db, e.stop)
      BY DEF Platforms, expanded_stops
    <3> QED BY <2>1, <3>1 DEF StopsOf
  <2> QED BY <2>2, <2>3, <2>4
<1>7. CASE o.parent = Null /\ Platforms(db, e.stop) = {}
  <2>1. effectiveStopIds(db, e.stop) = GroupBoard(e.stop)
    BY <1>1, <1>2, <1>3, <1>7, BoardOf
  <2>2. ASSUME NEW m \in e.members PROVE m \in GroupBoard(e.stop)
    <3>1. m # e.stop => m \in DOMAIN db.group
      BY <1>4, SameGroup
    <3> QED BY <1>4, <3>1 DEF GroupBoard
  <2>3. ASSUME NEW t \in StopsOf(e.members) \cap TrainStops PROVE t \in e.members
    <3>1. PICK m \in e.members, y \in db.stops : (t = m \/ y.parent = m) /\ t \in Platforms(db, y.parent)
      BY <1>5
    <3>2. Platforms(db, m) = {}
      BY <1>7, <2>2, MixedHas DEF GroupBoard
    <3> QED BY <3>1, <3>2
  <2>4. whole => GroupBoard(e.stop) \subseteq e.members
    BY <1>4 DEF GroupBoard
  <2>5. ASSUME NEW m \in e.members PROVE m \in StopsOf(e.members)
    <3>1. PICK q \in db.stops : q.id = m
      BY <1>4
    <3>2. m \in expanded_stops(db, m)
      BY <3>1 DEF expanded_stops
    <3> QED BY <3>2 DEF StopsOf
  <2> QED BY <2>1, <2>2, <2>3, <2>4, <2>5
<1>8. CASE o.parent # Null
  <2>1. e.stop \notin DOMAIN db.group
    BY <1>1, <1>2, <1>3, <1>8, MembersOfGroup DEF StationsKnown
  <2>2. e.members = {e.stop}
    BY <1>4, <2>1, SameGroup
  <2>3. ASSUME NEW t \in StopsOf(e.members) \cap TrainStops PROVE t \in effectiveStopIds(db, e.stop)
    <3>1. PICK y \in db.stops : y.id = t /\ (t = e.stop \/ y.parent = e.stop) /\ t \in Platforms(db, y.parent)
      BY <1>5, <2>2
    <3>2. t = e.stop
      BY <1>1, <1>2, <1>3, <1>8, <3>1 DEF StationsKnown
    <3>3. y = o
      BY <1>1, <1>2, <1>3, <3>1, <3>2 DEF StationsKnown
    <3>4. effectiveStopIds(db, e.stop) = Platforms(db, o.parent)
      BY <1>1, <1>2, <1>3, <1>8, <3>1, <3>3, BoardOf
    <3> QED BY <3>1, <3>3, <3>4
  <2> QED BY <1>3, <1>8, <2>3
<1> QED BY <1>6, <1>7, <1>8

WithinRadius == {s \in db.stops : s.at - Centre \in -Radius .. Radius}

NearbyHits(order) == Filter(order, {s \in ToSet(order) : s.at - Centre \in -Radius .. Radius})

RowsNearby(hits) == SubSeq(hits, 1, IF Around < Len(hits) THEN Around ELSE Len(hits))

\* The rows nearby are within the radius; all that are, if they are not too many.
LEMMA NearbyRows ==
    ASSUME IsFiniteSet(db.stops), NEW order \in SetToSeqs(db.stops), Around \in Nat
    PROVE  LET rows == RowsNearby(NearbyHits(order))
           IN  /\ rows \in Seq(db.stops)
               /\ ToSet(rows) \subseteq WithinRadius
               /\ Cardinality(WithinRadius) <= Around => ToSet(rows) = WithinRadius
<1> DEFINE those == {s \in ToSet(order) : s.at - Centre \in -Radius .. Radius}
           at == {i \in DOMAIN order : order[i] \in those}
           hits == NearbyHits(order)
           n == IF Around < Len(hits) THEN Around ELSE Len(hits)
           rows == RowsNearby(hits)
<1>1. /\ order \in Seq(db.stops)
      /\ ToSet(order) = db.stops
      /\ Len(order) = Cardinality(db.stops)
      /\ \A i, j \in DOMAIN order : order[i] = order[j] => i = j
  BY OrderOfRows
<1>2. those = WithinRadius /\ WithinRadius \subseteq db.stops
  BY <1>1 DEF WithinRadius
<1>3. hits = Filter(order, those)
  BY DEF NearbyHits
<1> HIDE DEF those, hits
<1>4. /\ hits \in Seq(db.stops)
      /\ ToSet(hits) = ToSet(order) \cap those
      /\ Len(hits) = Cardinality(at)
  BY <1>1, <1>3, FilterKeeps
<1>5. ToSet(hits) = WithinRadius
  BY <1>1, <1>2, <1>4
<1>6. Len(hits) <= Cardinality(WithinRadius)
  <2> DEFINE f == [i \in at |-> order[i]]
  <2>1. f \in [at -> those]
    OBVIOUS
  <2>2. \A i, j \in at : f[i] = f[j] => i = j
    BY <1>1
  <2>3. f \in Injection(at, those)
    BY <2>1, <2>2 DEF Injection, IsInjective
  <2>4. IsFiniteSet(those)
    BY <1>2, FS_Subset
  <2> HIDE DEF f, at
  <2>5. Cardinality(at) <= Cardinality(those)
    BY <2>3, <2>4, FS_Injection
  <2> QED BY <1>2, <1>4, <2>5
<1>7. n \in Nat /\ n <= Len(hits) /\ Len(hits) \in Nat /\ DOMAIN hits = 1 .. Len(hits)
  BY <1>4
<1>8. rows = SubSeq(hits, 1, n)
  BY DEF RowsNearby
<1>9. Cardinality(WithinRadius) <= Around => n = Len(hits)
  <2>1. IsFiniteSet(WithinRadius)
    BY <1>2, FS_Subset
  <2> DEFINE c == Cardinality(WithinRadius)
             h == Len(hits)
  <2>2. c \in Nat /\ h \in Nat /\ h <= c
    BY <1>6, <1>7, <2>1, FS_CardinalityType
  <2> HIDE DEF c, h
  <2>3. c <= Around => (IF Around < h THEN Around ELSE h) = h
    BY <2>2
  <2> QED BY <2>3 DEF c, h
<1> DEFINE one == 1
<1> HIDE DEF n, rows
<1>10. SubSeq(hits, 1, n) \in Seq(db.stops)
  <2>1. one \in Nat \ {0}
    OBVIOUS
  <2> HIDE DEF one
  <2>2. SubSeq(hits, one, n) \in Seq(db.stops)
    BY <1>4, <1>7, <2>1, SubSeqKeeps
  <2> QED BY <2>2 DEF one
<1>11. ToSet(SubSeq(hits, 1, n)) = {hits[i] : i \in 1 .. n}
  <2>1. one \in Nat \ {0}
    OBVIOUS
  <2> HIDE DEF one
  <2>2. ToSet(SubSeq(hits, one, n)) = Part(hits, one, n)
    BY <1>4, <1>7, <2>1, SubSeqKeeps
  <2> QED BY <2>2 DEF one, Part
<1>12. {hits[i] : i \in 1 .. n} \subseteq ToSet(hits)
  BY <1>7 DEF ToSet
<1>13. n = Len(hits) => {hits[i] : i \in 1 .. n} = ToSet(hits)
  BY <1>7 DEF ToSet
<1> QED BY <1>5, <1>8, <1>9, <1>10, <1>11, <1>12, <1>13 DEF rows, hits

\* What getNearbyStops shows of the rows nearby.
LEMMA NearbyShows ==
    ASSUME Inv, Of("stops"), NEW order \in ByDistance
    PROVE  LET entries == ToSet(getNearbyStops(db, order, Centre, Radius, Around))
               rows == ToSet(RowsNearby(NearbyHits(order)))
           IN  /\ \A e \in entries : IsEntryOf(e.entry, rows) /\ e.trainsOf = StopsOf(e.entry.members)
               /\ \A r \in rows : \E e \in entries : r.id \in e.entry.members
<1> DEFINE rows == RowsNearby(NearbyHits(order))
           es == Merged(db, rows)
           result == [k \in DOMAIN es |-> [entry |-> es[k], trainsOf |-> StopsOf(es[k].members)]]
<1>1. getNearbyStops(db, order, Centre, Radius, Around) = result
  BY DEF getNearbyStops, RowsNearby, NearbyHits, StopsOf
<1>2. rows \in Seq(db.stops)
  <2>1. IsFiniteSet(db.stops) /\ order \in SetToSeqs(db.stops) /\ Around \in Nat
    BY StopsAreKnown, StopCasesAssumption DEF StopsKnown, ByDistance
  <2> QED BY <2>1, NearbyRows
<1> HIDE DEF rows
<1>3. AreEntries(es, ToSet(rows))
  BY <1>2, MergedRows
<1>4. \A e \in ToSet(es) : IsEntryOf(e, ToSet(rows))
  BY <1>3 DEF AreEntries
<1>5. ASSUME NEW r \in ToSet(rows) PROVE \E e \in ToSet(es) : r.id \in e.members
  <2>1. PICK e \in ToSet(es) : GroupOf(db, e.stop) = GroupOf(db, r.id)
    BY <1>3 DEF AreEntries
  <2> QED BY <1>4, <2>1 DEF IsEntryOf
<1> HIDE DEF es
<1>6. ASSUME NEW e \in ToSet(result)
      PROVE  IsEntryOf(e.entry, ToSet(rows)) /\ e.trainsOf = StopsOf(e.entry.members)
  <2>1. PICK k \in DOMAIN es : e = [entry |-> es[k], trainsOf |-> StopsOf(es[k].members)]
    BY DEF ToSet
  <2>2. es[k] \in ToSet(es)
    BY DEF ToSet
  <2> QED BY <1>4, <2>1, <2>2
<1>7. ASSUME NEW r \in ToSet(rows) PROVE \E e \in ToSet(result) : r.id \in e.entry.members
  <2>1. PICK k \in DOMAIN es : r.id \in es[k].members
    BY <1>5 DEF ToSet
  <2>2. result[k] \in ToSet(result) /\ result[k].entry = es[k]
    BY DEF ToSet
  <2> HIDE DEF result
  <2> QED BY <2>1, <2>2
<1> HIDE DEF result
<1> QED BY <1>1, <1>6, <1>7 DEF rows

\* Every stop nearby has its entry, and the trains of an entry are those of its board.
LEMMA InvNearbyIsOfTheBoard == Inv => NearbyIsOfTheBoard
<1> SUFFICES ASSUME Inv, Of("stops") PROVE NearbyIsOfTheBoard
  BY DEF NearbyIsOfTheBoard
<1> SUFFICES ASSUME NEW order \in ByDistance
             PROVE  LET entries == ToSet(getNearbyStops(db, order, Centre, Radius, Around))
                        within == {s \in db.stops : s.at - Centre \in -Radius .. Radius}
                    IN  /\ Cardinality(within) <= Around =>
                             \A s \in within : \E e \in entries : s.id \in e.entry.members
                        /\ \A e \in entries :
                             LET stop  == e.entry.stop
                                 board == effectiveStopIds(db, stop) \cap TrainStops
                                 whole == {s \in DOMAIN db.group : GroupOf(db, s) = GroupOf(db, stop)} \subseteq e.entry.members
                             IN  ~Mixed(stop) =>
                                    /\ e.trainsOf \cap TrainStops \subseteq board
                                    /\ ParentOf(db, stop) = Null /\ whole => board \subseteq e.trainsOf
  BY Zenon DEF NearbyIsOfTheBoard
<1> DEFINE entries == ToSet(getNearbyStops(db, order, Centre, Radius, Around))
           rows == ToSet(RowsNearby(NearbyHits(order)))
<1>1. /\ \A e \in entries : IsEntryOf(e.entry, rows) /\ e.trainsOf = StopsOf(e.entry.members)
      /\ \A r \in rows : \E e \in entries : r.id \in e.entry.members
  BY NearbyShows
<1>2. rows \subseteq WithinRadius /\ (Cardinality(WithinRadius) <= Around => rows = WithinRadius)
  <2>1. IsFiniteSet(db.stops) /\ order \in SetToSeqs(db.stops) /\ Around \in Nat
    BY StopsAreKnown, StopCasesAssumption DEF StopsKnown, ByDistance
  <2> QED BY <2>1, NearbyRows
<1> HIDE DEF entries, rows
<1>3. ASSUME NEW e \in entries, ~Mixed(e.entry.stop)
      PROVE  /\ e.trainsOf \cap TrainStops \subseteq effectiveStopIds(db, e.entry.stop) \cap TrainStops
             /\ ParentOf(db, e.entry.stop) = Null
                /\ {s \in DOMAIN db.group : GroupOf(db, s) = GroupOf(db, e.entry.stop)} \subseteq e.entry.members
                => effectiveStopIds(db, e.entry.stop) \cap TrainStops \subseteq e.trainsOf
  <2> DEFINE x == e.entry
  <2>1. IsEntryOf(x, rows) /\ e.trainsOf = StopsOf(x.members) /\ ~Mixed(x.stop)
    BY <1>1, <1>3
  <2>2. rows \in SUBSET db.stops /\ StopsKnown
    BY <1>2, StopsAreKnown DEF WithinRadius
  <2> HIDE DEF x
  <2>3. /\ StopsOf(x.members) \cap TrainStops \subseteq effectiveStopIds(db, x.stop)
        /\ ParentOf(db, x.stop) = Null
           /\ {s \in DOMAIN db.group : GroupOf(db, s) = GroupOf(db, x.stop)} \subseteq x.members
           => effectiveStopIds(db, x.stop) \cap TrainStops \subseteq StopsOf(x.members)
    BY <2>1, <2>2, TrainsOfEntry
  <2>4. e.trainsOf \cap TrainStops \subseteq effectiveStopIds(db, x.stop) \cap TrainStops
    BY <2>1, <2>3
  <2> QED BY <2>1, <2>3, <2>4 DEF x
<1>4. WithinRadius = {s \in db.stops : s.at - Centre \in -Radius .. Radius}
  BY DEF WithinRadius
<1>5. Cardinality(WithinRadius) <= Around => \A s \in WithinRadius : \E e \in entries : s.id \in e.entry.members
  BY <1>1, <1>2
<1> QED BY <1>3, <1>4, <1>5, Zenon DEF entries

\* getNearbyStops: no stop within the radius is without its entry, if they are not too many; the next
\* train of an entry is looked for at stops of the board that opens from it, and at all where trains
\* stop if it is the entry of a station, a stop or a whole group; but for a station with platforms
\* that was merged with another stop.
THEOREM NearbyTrainsOnBoard == Spec => []NearbyIsOfTheBoard
BY Invariant, InvNearbyIsOfTheBoard, PTL

----------------------------------------------------------------------------
(***************************************************************************)
(* Alerts.                                                                 *)
(***************************************************************************)
\* englishText finds the text in English, if there is one.
LEMMA EnglishIsEnglish ==
    ASSUME NEW translations, DOMAIN translations \subseteq Nat
    PROVE  IsEnglish(englishText(translations), translations)
<1> DEFINE In(language) == {k \in DOMAIN translations : translations[k].language = language}
           best == CASE In("en") # {} -> In("en")
                     [] In("en") = {} /\ In("en-US") # {} -> In("en-US")
                     [] OTHER -> In(Null)
           English == {k \in DOMAIN translations : translations[k].language \in {"en", "en-US", Null}}
           least == CHOOSE k \in best : \A j \in best : k <= j
<1>1. englishText(translations) = IF best = {} THEN Null ELSE translations[least].text
  BY DEF englishText
<1>2. best \subseteq English
  OBVIOUS
<1>3. best = {} => English = {}
  OBVIOUS
<1>4. \A k \in best : translations[k].language = "en" \/ \A j \in English : translations[j].language # "en"
  OBVIOUS
<1> HIDE DEF best, English
<1>5. CASE best = {}
  BY <1>1, <1>3, <1>5 DEF IsEnglish, English
<1>6. CASE best # {}
  <2>1. best \in SUBSET Nat
    BY <1>2 DEF English
  <2>2. \E k \in best : \A j \in best : k <= j
    BY <1>6, <2>1, LeastIndex
  <2>3. least \in best
    BY <2>2
  <2> HIDE DEF least
  <2>4. /\ least \in English
        /\ translations[least].language = "en" \/ \A j \in English : translations[j].language # "en"
    BY <1>2, <1>4, <2>3
  <2> QED BY <1>1, <1>6, <2>4 DEF IsEnglish, English
<1> QED BY <1>5, <1>6

\* The detail of an entity: its own text, unless the feed cannot be walked.
LEMMA DetailOf ==
    ASSUME NEW feed, DOMAIN feed \subseteq Nat,
           \A i, j \in DOMAIN feed : feed[i].id # Null /\ (feed[i].id = feed[j].id => i = j),
           NEW i \in DOMAIN feed
    PROVE  LET details == readAlertEffectDetails(feed)
           IN  (IF feed[i].id \in DOMAIN details THEN details[feed[i].id] ELSE Null)
               = IF \E j \in DOMAIN feed : feed[j].torn THEN Null ELSE englishText(feed[i].detail)
<1> DEFINE details == readAlertEffectDetails(feed)
           torn == \E j \in DOMAIN feed : feed[j].torn
           named == {j \in DOMAIN feed : feed[j].id # Null /\ englishText(feed[j].detail) # Null}
           last(id) == CHOOSE k \in named : feed[k].id = id /\ \A j \in named : feed[j].id = id => j <= k
           walked == [id \in {feed[k].id : k \in named} |-> englishText(feed[last(id)].detail)]
<1>1. details = IF torn THEN [id \in {} |-> Null] ELSE walked
  BY DEF readAlertEffectDetails
<1> SUFFICES (IF feed[i].id \in DOMAIN details THEN details[feed[i].id] ELSE Null)
             = IF torn THEN Null ELSE englishText(feed[i].detail)
  OBVIOUS
<1> HIDE DEF details
<1>2. CASE torn
  BY <1>1, <1>2
<1>3. CASE ~torn
  <2>1. details = walked
    BY <1>1, <1>3
  <2>2. CASE i \in named
    <3>1. last(feed[i].id) = i
      <4>1. i <= i
        OBVIOUS
      <4>2. \A k \in named : feed[k].id = feed[i].id => k = i
        OBVIOUS
      <4> HIDE DEF named
      <4>3. \E k \in named : feed[k].id = feed[i].id /\ \A j \in named : feed[j].id = feed[i].id => j <= k
        BY <2>2, <4>1, <4>2
      <4> QED BY <4>2, <4>3
    <3>2. feed[i].id \in {feed[k].id : k \in named}
      BY <2>2
    <3> HIDE DEF named, last
    <3>3. feed[i].id \in DOMAIN walked /\ walked[feed[i].id] = englishText(feed[i].detail)
      BY <3>1, <3>2
    <3> HIDE DEF walked
    <3> QED BY <1>3, <2>1, <3>3
  <2>3. CASE i \notin named
    <3>1. englishText(feed[i].detail) = Null
      BY <2>3
    <3>2. \A k \in named : feed[k].id # feed[i].id
      BY <2>3
    <3> HIDE DEF named, last
    <3>3. feed[i].id \notin DOMAIN walked
      BY <3>2
    <3> HIDE DEF walked
    <3> QED BY <1>3, <2>1, <3>1, <3>3
  <2> QED BY <2>2, <2>3
<1> QED BY <1>2, <1>3

\* What the worker makes of an entity.
ParsedOf(e, lookup, details) ==
    [alertId      |-> e.id,
     header       |-> englishText(e.header),
     effect       |-> e.effect,
     effectDetail |-> IF e.id \in DOMAIN details THEN details[e.id] ELSE Null,
     severity     |-> e.severity,
     periods      |-> e.periods,
     informed     |-> e.entities,
     routeIds     |-> {ie.routeId : ie \in e.entities} \ {Null},
     stopIds      |-> UNION {Widened(ie.stopId, lookup) : ie \in {x \in e.entities : x.stopId # Null}}]

Lookup == IF case.lookup THEN db.stops ELSE NoLookup

\* The table of stops where alerts are asked for.
LEMMA AlertsKnown ==
    ASSUME Inv, Of("alert")
    PROVE  /\ case \in AlertCases /\ db.stops = STOPS(case.files.stops)
           /\ NoLookup # db.stops
           /\ \A x \in case.files.stops : x.stop_id # Null
<1>1. case \in AlertCases
  BY StopCasesAssumption, RouteCasesAssumption, DayCasesAssumption, AlertCasesAssumption DEF Inv, Of
<1>2. db \in TablesOf(case.files)
  BY DEF Inv, Of
<1>3. StationsAreSound(case.files) /\ NoLookup # STOPS(case.files.stops)
  BY <1>1, AlertCasesAssumption
<1>4. db.stops = STOPS(case.files.stops)
  BY <1>2, <1>3, TablesKnown
<1> QED BY <1>1, <1>3, <1>4 DEF StationsAreSound

\* Looking up a stop adds its station and its platforms, if there is a lookup.
LEMMA WidenedIsAkin ==
    ASSUME NoLookup # db.stops, NEW s, s # Null, NEW o, o # Null
    PROVE  s \in Widened(o, Lookup) <=> Akin(s, o)
<1> DEFINE stops == IF Lookup = NoLookup THEN {} ELSE Lookup
<1>1. stops = IF case.lookup THEN db.stops ELSE {}
  BY DEF Lookup
<1>2. Widened(o, Lookup) = ({o} \cup {x.parent : x \in {y \in stops : y.id = o}}
                              \cup {x.id : x \in {y \in stops : y.parent = o}}) \ {Null}
  BY DEF Widened
<1>3. \A y : {y.id, y.parent} = {s, o} <=> (y.id = s /\ y.parent = o) \/ (y.id = o /\ y.parent = s)
  OBVIOUS
<1> HIDE DEF stops
<1>4. s \in Widened(o, Lookup) <=> s = o \/ \E y \in stops : (y.id = s /\ y.parent = o) \/ (y.id = o /\ y.parent = s)
  BY <1>2
<1>5. Akin(s, o) <=>
         s = o \/ (case.lookup /\ \E y \in db.stops : (y.id = s /\ y.parent = o) \/ (y.id = o /\ y.parent = s))
  BY <1>3 DEF Akin
<1>6. CASE case.lookup
  BY <1>1, <1>4, <1>5, <1>6
<1>7. CASE ~case.lookup
  BY <1>1, <1>4, <1>5, <1>7
<1> QED BY <1>6, <1>7

\* An alert is active in one of its periods, or always if it has none.
LEMMA ActiveIsInForce ==
    ASSUME Null \notin Int, NEW e, NEW a, a.periods = e.periods,
           \A p \in e.periods : {p.start, p.end} \subseteq Int \cup {Null}, NEW now \in Int
    PROVE  isAlertActive(a, now) <=> InForce(e, now)
<1>1. \A p \in e.periods :
        /\ (p.start = Null \/ p.start <= now) <=> ~(p.start # Null /\ now < p.start)
        /\ (p.end = Null \/ p.end >= now) <=> ~(p.end # Null /\ p.end < now)
  OBVIOUS
<1> QED BY <1>1 DEF isAlertActive, InForce

\* The parsed alert of an entity, and whether it is shown.
LEMMA AlertShown ==
    ASSUME Inv, Of("alert"), NEW s, s # Null, NEW failed \in BOOLEAN, NEW now \in Int,
           NEW i \in DOMAIN case.feed, NEW details
    PROVE  LET e == case.feed[i]
               a == ParsedOf(e, Lookup, details)
           IN  (isAlertActive(a, now) /\ (s \in a.stopIds \/ isRouteWideAlert(a, RoutesForPage(db, s, failed))))
               <=> About(e, s, failed) /\ InForce(e, now)
<1> DEFINE e == case.feed[i]
           a == ParsedOf(e, Lookup, details)
<1>1. NoLookup # db.stops /\ case \in AlertCases
  BY AlertsKnown
<1>2. a.periods = e.periods /\ a.informed = e.entities
      /\ a.stopIds = UNION {Widened(ie.stopId, Lookup) : ie \in {x \in e.entities : x.stopId # Null}}
  BY DEF ParsedOf
<1>3. Null \notin Int /\ \A p \in e.periods : {p.start, p.end} \subseteq Int \cup {Null}
  BY <1>1, AlertCasesAssumption
<1> HIDE DEF a, e
<1>4. isAlertActive(a, now) <=> InForce(e, now)
  BY <1>2, <1>3, ActiveIsInForce
<1>5. s \in a.stopIds <=> \E ie \in e.entities : ie.stopId # Null /\ Akin(s, ie.stopId)
  <2>1. \A ie \in e.entities : ie.stopId # Null => (s \in Widened(ie.stopId, Lookup) <=> Akin(s, ie.stopId))
    BY <1>1, WidenedIsAkin
  <2> QED BY <1>2, <2>1
<1>6. isRouteWideAlert(a, RoutesForPage(db, s, failed))
      <=> \E ie \in e.entities : ~failed /\ ie.routeId \in RoutesOf(db, s) /\ ie.stopId = Null /\ ie.tripId = Null
  BY <1>2 DEF isRouteWideAlert, RoutesForPage
<1>7. About(e, s, failed) <=> s \in a.stopIds \/ isRouteWideAlert(a, RoutesForPage(db, s, failed))
  BY <1>5, <1>6 DEF About
<1> QED BY <1>4, <1>7 DEF a, e

\* A parsed alert is urgent for its severity, its effect, or its detail if it has one.
LEMMA UrgentAsSaid ==
    ASSUME Inv, Of("alert"), NEW i \in DOMAIN case.feed
    PROVE  LET e == case.feed[i]
               torn == \E j \in DOMAIN case.feed : case.feed[j].torn
           IN  isUrgentAlert(ParsedOf(e, Lookup, readAlertEffectDetails(case.feed)))
               = (\/ e.severity = "SEVERE"
                  \/ e.effect \in URGENT_EFFECTS
                  \/ ~torn /\ englishText(e.detail) \in URGENT_EFFECT_DETAILS)
<1> DEFINE e == case.feed[i]
           torn == \E j \in DOMAIN case.feed : case.feed[j].torn
           details == readAlertEffectDetails(case.feed)
           a == ParsedOf(e, Lookup, details)
<1>1. case \in AlertCases
  BY AlertsKnown
<1>2. /\ DOMAIN case.feed \subseteq Nat
      /\ \A k, j \in DOMAIN case.feed : case.feed[k].id # Null /\ (case.feed[k].id = case.feed[j].id => k = j)
      /\ Null \notin URGENT_EFFECT_DETAILS
  BY <1>1, AlertCasesAssumption
<1>3. (IF e.id \in DOMAIN details THEN details[e.id] ELSE Null) = IF torn THEN Null ELSE englishText(e.detail)
  BY <1>2, DetailOf
<1>4. a.severity = e.severity /\ a.effect = e.effect
      /\ a.effectDetail = IF e.id \in DOMAIN details THEN details[e.id] ELSE Null
  BY DEF ParsedOf
<1> HIDE DEF a, details, torn, e
<1>5. isUrgentAlert(a) <=> (\/ e.severity = "SEVERE"
                            \/ e.effect \in URGENT_EFFECTS
                            \/ ~torn /\ englishText(e.detail) \in URGENT_EFFECT_DETAILS)
  BY <1>2, <1>3, <1>4 DEF isUrgentAlert
<1>6. isUrgentAlert(a) = (\/ e.severity = "SEVERE"
                          \/ e.effect \in URGENT_EFFECTS
                          \/ ~torn /\ englishText(e.detail) \in URGENT_EFFECT_DETAILS)
  BY <1>5 DEF isUrgentAlert
<1> QED BY <1>6 DEF a, details, torn, e

\* The page of a stop shows the entities that are about it, each once.
LEMMA InvAlertReaches == Inv => AlertReaches
<1> SUFFICES ASSUME Inv, Of("alert") PROVE AlertReaches
  BY DEF AlertReaches
<1> DEFINE feed == case.feed
           details == readAlertEffectDetails(feed)
           alerts == parseAlerts(feed, Lookup, details)
           torn == \E i \in DOMAIN feed : feed[i].torn
           A(i) == ParsedOf(feed[i], Lookup, details)
           Urgent(e) == \/ e.severity = "SEVERE"
                        \/ e.effect \in URGENT_EFFECTS
                        \/ ~torn /\ englishText(e.detail) \in URGENT_EFFECT_DETAILS
<1>1. case \in AlertCases
  BY AlertsKnown
<1>2. /\ \A i, j \in DOMAIN feed : feed[i].id # Null /\ (feed[i].id = feed[j].id => i = j)
      /\ \A i \in DOMAIN feed : DOMAIN feed[i].header \subseteq Nat
      /\ Moments \subseteq Int
  BY <1>1, AlertCasesAssumption
<1>3. alerts = {A(i) : i \in {j \in DOMAIN feed : ~feed[j].deleted}}
  BY DEF parseAlerts, ParsedOf
<1>4. \A i \in DOMAIN feed : A(i).alertId = feed[i].id /\ A(i).header = englishText(feed[i].header)
  BY DEF ParsedOf
<1>5. ASSUME NEW i \in DOMAIN feed PROVE isUrgentAlert(A(i)) = Urgent(feed[i])
  BY UrgentAsSaid
<1>6. ASSUME NEW s, s # Null, NEW failed \in BOOLEAN, NEW now \in Moments, NEW i \in DOMAIN feed
      PROVE  (isAlertActive(A(i), now) /\ (s \in A(i).stopIds \/ isRouteWideAlert(A(i), RoutesForPage(db, s, failed))))
             <=> About(feed[i], s, failed) /\ InForce(feed[i], now)
  BY <1>2, <1>6, AlertShown
<1> HIDE DEF A, Urgent, alerts, torn, details
<1>7. ASSUME NEW s \in {x.stop_id : x \in case.files.stops}, NEW failed \in BOOLEAN, NEW now \in Moments,
             NEW i \in DOMAIN feed
      PROVE  LET shown == StopPageAlerts(db, alerts, s, failed, now)
             IN  /\ (\E x \in shown : x.alert.alertId = feed[i].id)
                        <=> About(feed[i], s, failed) /\ ~feed[i].deleted /\ InForce(feed[i], now)
                 /\ \A x \in shown : x.alert.alertId = feed[i].id =>
                        IsEnglish(x.alert.header, feed[i].header) /\ x.urgent = Urgent(feed[i])
  <2> DEFINE shown == StopPageAlerts(db, alerts, s, failed, now)
             Fits(a) == isAlertActive(a, now) /\ (s \in a.stopIds \/ isRouteWideAlert(a, RoutesForPage(db, s, failed)))
  <2>1. s # Null
    BY AlertsKnown
  <2>2. shown = {[alert |-> a, urgent |-> isUrgentAlert(a)] : a \in {b \in alerts : Fits(b)}}
    BY <2>1 DEF StopPageAlerts, getAlerts
  <2>3. Fits(A(i)) <=> About(feed[i], s, failed) /\ InForce(feed[i], now)
    BY <1>6, <2>1
  <2> HIDE DEF Fits, shown
  <2>4. ASSUME NEW x \in shown, x.alert.alertId = feed[i].id
        PROVE  /\ ~feed[i].deleted /\ Fits(A(i))
               /\ x.alert = A(i) /\ x.urgent = isUrgentAlert(A(i))
    <3>1. PICK b \in alerts : Fits(b) /\ x = [alert |-> b, urgent |-> isUrgentAlert(b)]
      BY <2>2
    <3>2. x.alert = b /\ x.urgent = isUrgentAlert(b)
      BY <3>1
    <3>3. PICK j \in DOMAIN feed : ~feed[j].deleted /\ b = A(j)
      BY <1>3
    <3>4. j = i
      BY <1>2, <1>4, <2>4, <3>2, <3>3
    <3> QED BY <3>1, <3>2, <3>3, <3>4
  <2>5. ASSUME ~feed[i].deleted, Fits(A(i)) PROVE \E x \in shown : x.alert.alertId = feed[i].id
    <3> DEFINE y == [alert |-> A(i), urgent |-> isUrgentAlert(A(i))]
    <3>1. A(i) \in alerts
      BY <1>3, <2>5
    <3>2. y \in shown
      BY <2>2, <2>5, <3>1
    <3>3. y.alert = A(i)
      OBVIOUS
    <3> HIDE DEF y
    <3> QED BY <1>4, <3>2, <3>3
  <2>6. \A x \in shown : x.alert.alertId = feed[i].id =>
                        IsEnglish(x.alert.header, feed[i].header) /\ x.urgent = Urgent(feed[i])
    BY <1>2, <1>4, <1>5, <2>4, EnglishIsEnglish
  <2>7. (\E x \in shown : x.alert.alertId = feed[i].id)
           <=> About(feed[i], s, failed) /\ ~feed[i].deleted /\ InForce(feed[i], now)
    BY <2>3, <2>4, <2>5
  <2> QED BY <2>6, <2>7 DEF shown
<1>8. ASSUME NEW s \in {x.stop_id : x \in case.files.stops}, NEW failed \in BOOLEAN, NEW now \in Moments
      PROVE  \E shown \in {StopPageAlerts(db, alerts, s, failed, now)} :
                \A i \in DOMAIN feed :
                    /\ (\E x \in shown : x.alert.alertId = feed[i].id)
                            <=> About(feed[i], s, failed) /\ ~feed[i].deleted /\ InForce(feed[i], now)
                    /\ \A x \in shown : x.alert.alertId = feed[i].id =>
                            IsEnglish(x.alert.header, feed[i].header) /\ x.urgent = Urgent(feed[i])
  BY <1>7
<1> QED BY <1>8, Zenon DEF AlertReaches, alerts, details, torn, Urgent, Lookup

\* parseAlerts and the page of a stop: an alert in force is on the pages of the stops it is about and on
\* no other, in English if it can be, and urgent for its severity, effect or detail.
THEOREM AlertsReach == Spec => []AlertReaches
BY Invariant, InvAlertReaches, PTL

----------------------------------------------------------------------------
(***************************************************************************)
(* Service days.                                                           *)
(***************************************************************************)
\* When the days begin.
AreMidnights(midnight, length) ==
    /\ \A d \in 1 .. LastDate + 1 : midnight[d] \in Int
    /\ \A d \in Date : midnight[d + 1] = midnight[d] + length[d]

\* A day begins when the one before is over.
LEMMA MidnightsKnown ==
    ASSUME NEW length \in [Date -> Nat]
    PROVE  AreMidnights(Midnight(length), length)
<1> DEFINE n == LastDate
           b == 0
           since[d \in 0 .. n] == IF d = 0 THEN 0 ELSE since[d - 1] + length[d]
           G == [p \in Nat \X (1 .. n) |-> p[1] + length[p[2]]]
<1>1. n \in Nat /\ Date = 1 .. n /\ b \in Nat
  BY LastDateAssumption DEF Date
<1>2. G \in [Nat \X (1 .. n) -> Nat]
  BY <1>1
<1>3. PICK f \in [0 .. n -> Nat] : Iterates(f, b, n, G)
  <2> HIDE DEF G, n, b, since
  <2> QED BY <1>1, <1>2, Iteration
<1>4. ASSUME NEW i \in 1 .. n PROVE f[i] = f[i - 1] + length[i]
  <2>1. i - 1 \in 0 .. n
    BY <1>1
  <2> HIDE DEF n, b
  <2>2. <<f[i - 1], i>> \in Nat \X (1 .. n)
    BY <2>1
  <2>3. G[<<f[i - 1], i>>] = f[i - 1] + length[i]
    BY <2>2
  <2>4. f[i] = G[<<f[i - 1], i>>]
    BY <1>3 DEF Iterates
  <2> QED BY <2>3, <2>4
<1>5. f = [d \in 0 .. n |-> IF d = 0 THEN 0 ELSE f[d - 1] + length[d]]
  <2>1. ASSUME NEW i \in 0 .. n PROVE f[i] = IF i = 0 THEN 0 ELSE f[i - 1] + length[i]
    <3>1. CASE i = 0
      BY <1>3, <3>1 DEF Iterates
    <3>2. CASE i # 0
      <4>1. i \in 1 .. n
        BY <1>1, <3>2
      <4> HIDE DEF n
      <4> QED BY <1>4, <4>1, <3>2
    <3> QED BY <3>1, <3>2
  <2> HIDE DEF n
  <2> QED BY <2>1
<1>6. since = [d \in 0 .. n |-> IF d = 0 THEN 0 ELSE since[d - 1] + length[d]]
  <2> HIDE DEF n
  <2> QED BY <1>5
<1> DEFINE midnight == [d \in 1 .. n + 1 |-> since[d - 1]]
<1>7. Midnight(length) = midnight
  BY DEF Midnight
<1> HIDE DEF since
<1>8. \A d \in 0 .. n : since[d] = IF d = 0 THEN 0 ELSE since[d - 1] + length[d]
  <2> HIDE DEF n
  <2> QED BY <1>6
<1>9. \A d \in 0 .. n : since[d] \in Nat
  <2> DEFINE good == {d \in 0 .. n : since[d] \in Nat}
  <2>1. 0 \in good
    BY <1>1, <1>8
  <2>2. ASSUME NEW d \in 1 .. n, d - 1 \in good PROVE d \in good
    <3>1. d \in 0 .. n /\ d # 0
      BY <1>1
    <3>2. length[d] \in Nat
      BY <1>1
    <3>3. since[d] = since[d - 1] + length[d]
      <4> HIDE DEF n
      <4> QED BY <1>8, <3>1
    <3> QED BY <2>2, <3>1, <3>2, <3>3
  <2>3. \A d \in 0 .. n : d \in good
    <3> HIDE DEF good, n
    <3> QED BY <1>1, <2>1, <2>2, Climb
  <2> QED BY <2>3
<1> HIDE DEF n
<1>10. \A d \in 1 .. n + 1 : midnight[d] = since[d - 1] /\ d - 1 \in 0 .. n
  BY <1>1
<1>11. \A d \in 1 .. n + 1 : midnight[d] \in Int
  BY <1>9, <1>10
<1>12. ASSUME NEW d \in 1 .. n PROVE midnight[d + 1] = midnight[d] + length[d]
  <2>1. d + 1 \in 1 .. n + 1 /\ d \in 1 .. n + 1 /\ d \in 0 .. n /\ d # 0 /\ (d + 1) - 1 = d
    BY <1>1
  <2>2. midnight[d + 1] = since[d] /\ midnight[d] = since[d - 1]
    BY <2>1
  <2> HIDE DEF midnight
  <2> QED BY <1>8, <2>1, <2>2
<1> HIDE DEF midnight
<1>13. AreMidnights(midnight, length)
  BY <1>1, <1>11, <1>12 DEF AreMidnights, n
<1> QED BY <1>7, <1>13

\* Later days begin later.
LEMMA Later ==
    ASSUME NEW length \in [Date -> Nat], NEW midnight, AreMidnights(midnight, length),
           NEW d \in 1 .. LastDate + 1, NEW e \in 1 .. LastDate + 1, d <= e
    PROVE  midnight[d] <= midnight[e]
<1> DEFINE n == e - d
           good == {k \in 0 .. n : midnight[d] <= midnight[d + k]}
<1>1. n \in Nat /\ LastDate \in Nat /\ Date = 1 .. LastDate
  BY LastDateAssumption DEF Date
<1>2. 0 \in good
  <2>1. d + 0 = d /\ midnight[d] \in Int
    BY <1>1 DEF AreMidnights
  <2>2. midnight[d] <= midnight[d + 0]
    BY <2>1
  <2> QED BY <1>1, <2>2
<1>3. ASSUME NEW k \in 1 .. n, k - 1 \in good PROVE k \in good
  <2> DEFINE c == d + (k - 1)
  <2>1. c \in Date /\ c + 1 = d + k /\ k \in 0 .. n
    BY <1>1
  <2>2. midnight[c + 1] = midnight[c] + length[c] /\ length[c] \in Nat
    BY <2>1 DEF AreMidnights
  <2>3. c \in 1 .. LastDate + 1
    BY <1>1, <2>1
  <2>4. midnight[c] \in Int /\ midnight[d] \in Int
    BY <2>3 DEF AreMidnights
  <2>5. midnight[d] <= midnight[c]
    BY <1>3
  <2> HIDE DEF c
  <2>6. midnight[d] <= midnight[c + 1]
    BY <2>2, <2>4, <2>5
  <2> QED BY <2>1, <2>6
<1>4. n \in good
  <2> HIDE DEF good, n
  <2>1. \A k \in 0 .. n : k \in good
    BY <1>1, <1>2, <1>3, Climb
  <2> QED BY <1>1, <2>1
<1>5. d + n = e
  OBVIOUS
<1> QED BY <1>4, <1>5

\* A moment has one date.
LEMMA LocalDateIs ==
    ASSUME NEW length \in [Date -> Nat], NEW midnight, AreMidnights(midnight, length),
           NEW now \in Int, NEW d \in Date, midnight[d] <= now, now < midnight[d + 1]
    PROVE  LocalDate(midnight, now) = d
<1>1. LastDate \in Nat /\ Date = 1 .. LastDate
  BY LastDateAssumption DEF Date
<1>2. ASSUME NEW e \in Date, midnight[e] <= now, now < midnight[e + 1], e # d PROVE FALSE
  <2>1. /\ d \in 1 .. LastDate + 1 /\ d + 1 \in 1 .. LastDate + 1
        /\ e \in 1 .. LastDate + 1 /\ e + 1 \in 1 .. LastDate + 1
    BY <1>1
  <2>2. /\ midnight[d] \in Int /\ midnight[d + 1] \in Int
        /\ midnight[e] \in Int /\ midnight[e + 1] \in Int
    BY <2>1 DEF AreMidnights
  <2>3. CASE d + 1 <= e
    <3>1. midnight[d + 1] <= midnight[e]
      BY <2>1, <2>3, Later
    <3> QED BY <1>2, <2>2, <3>1
  <2>4. CASE e + 1 <= d
    <3>1. midnight[e + 1] <= midnight[d]
      BY <2>1, <2>4, Later
    <3> QED BY <1>2, <2>2, <3>1
  <2> QED BY <1>1, <1>2, <2>3, <2>4
<1> QED BY <1>2 DEF LocalDate

\* The tables of a calendar.
LEMMA DaysKnown ==
    ASSUME Inv, Of("day")
    PROVE  /\ case \in DayCases
           /\ db.calendars = CALENDARS(case.calendar)
           /\ db.calendar_dates = CALENDAR_DATES(case.calendar_dates)
<1>1. case \in DayCases
  BY StopCasesAssumption, RouteCasesAssumption, DayCasesAssumption, AlertCasesAssumption DEF Inv, Of
<1>2. db = CalendarOf(case)
  BY DEF Inv, Of
<1> QED BY <1>1, <1>2 DEF CalendarOf

\* What the files say is what the service finds.
LEMMA InServiceIsActive ==
    ASSUME Inv, Of("day"), NEW service \in Services, NEW date \in Nat, InService(service, date)
    PROVE  service \in ActiveServices(db.calendars, db.calendar_dates, date)
<1>1. {Blank, Malformed} \cap Int = {}
  BY DayCasesAssumption
<1>2. service # Blank /\ service # Malformed /\ date # Blank /\ date # Malformed
  BY <1>1 DEF Services
<1>3. CASE \E e \in case.calendar_dates : e.service_id = service /\ e.date = date /\ e.exception_type = 1
  <2>1. PICK e \in case.calendar_dates : e.service_id = service /\ e.date = date /\ e.exception_type = 1
    BY <1>3
  <2> DEFINE row == [service |-> e.service_id, date |-> e.date, type |-> e.exception_type]
  <2>2. Given({e.service_id, e.date})
    BY <1>2, <2>1 DEF Given
  <2>3. row \in db.calendar_dates
    BY <2>1, <2>2, DaysKnown DEF CALENDAR_DATES
  <2>4. row.service = service /\ row.date = date /\ row.type = 1
    BY <2>1
  <2> HIDE DEF row
  <2> QED BY <2>3, <2>4 DEF ActiveServices
<1>4. CASE /\ \E x \in case.calendar :
                 /\ x.service_id = service /\ Readable({x.start_date, x.end_date}, {})
                 /\ x.start_date <= date /\ date <= x.end_date
                 /\ x.days[((date + 6) % 7) + 1] = 1
           /\ ~\E e \in case.calendar_dates : e.service_id = service /\ e.date = date /\ e.exception_type = 2
  <2>1. PICK x \in case.calendar :
                 /\ x.service_id = service /\ Readable({x.start_date, x.end_date}, {})
                 /\ x.start_date <= date /\ date <= x.end_date
                 /\ x.days[((date + 6) % 7) + 1] = 1
    BY <1>4
  <2> DEFINE row == [service |-> x.service_id, days |-> {d \in Day : x.days[d] = 1},
                     start |-> x.start_date, end |-> x.end_date]
  <2>2. Given({x.service_id, x.start_date, x.end_date})
    BY <1>2, <2>1 DEF Given, Readable
  <2>3. row \in db.calendars
    BY <2>2, DaysKnown DEF CALENDARS
  <2>4. row.service = service /\ row.start <= date /\ date <= row.end
    BY <2>1
  <2>5. WeekdayOf(date) \in row.days
    <3>1. WeekdayOf(date) = ((date + 6) % 7) + 1 /\ WeekdayOf(date) \in Day
      BY DEF WeekdayOf, Day
    <3> QED BY <2>1, <3>1
  <2>6. \A e \in db.calendar_dates : ~(e.service = service /\ e.date = date /\ e.type = 2)
    <3>1. ASSUME NEW e \in db.calendar_dates
          PROVE  \E r \in case.calendar_dates :
                    e = [service |-> r.service_id, date |-> r.date, type |-> r.exception_type]
      BY DaysKnown DEF CALENDAR_DATES
    <3> QED BY <1>4, <3>1
  <2> HIDE DEF row
  <2> QED BY <2>3, <2>4, <2>5, <2>6 DEF ActiveServices
<1> QED BY <1>3, <1>4 DEF InService

\* Noon is twelve hours before midnight: the clocks change at two.
LEMMA NoonIs ==
    ASSUME NEW length \in [Date -> 46 .. 50], case.length = length, NEW midnight, AreMidnights(midnight, length),
           NEW date \in Date
    PROVE  Noon(midnight, date) = midnight[date + 1] - 24
<1>1. LastDate \in Nat /\ Date = 1 .. LastDate /\ date \in 1 .. LastDate + 1
  BY LastDateAssumption DEF Date
<1>2. midnight[date] \in Int /\ midnight[date + 1] = midnight[date] + length[date] /\ length[date] \in 46 .. 50
  BY <1>1 DEF AreMidnights
<1> DEFINE IsNoon(now) == LET passed == now - midnight[date]
                          IN  (IF passed < 4 THEN passed ELSE passed + 48 - length[date]) = 24
           m == midnight[date]
           l == length[date]
<1>3. \A now \in m .. m + l : IsNoon(now) <=> now = m + l - 24
  <2> HIDE DEF m, l
  <2>1. m \in Int /\ l \in 46 .. 50
    BY <1>2 DEF m, l
  <2>2. \A now \in m .. m + l : (IF now - m < 4 THEN now - m ELSE now - m + 48 - l) = 24 <=> now = m + l - 24
    BY <2>1
  <2> QED BY <2>2 DEF m, l
<1>4. m + l - 24 \in m .. m + l
  BY <1>2
<1>5. Noon(midnight, date) = CHOOSE now \in m .. m + l : IsNoon(now)
  BY <1>2 DEF Noon
<1> HIDE DEF IsNoon, m, l
<1>6. Noon(midnight, date) = m + l - 24
  BY <1>3, <1>4, <1>5
<1> QED BY <1>2, <1>6 DEF m, l

\* When the trip of a date is under way.
UnderWay(midnight, date, first, long, now) ==
    /\ now \in Int
    /\ midnight[date + 1] - 48 + first <= now
    /\ now <= midnight[date + 1] - 48 + first + long
    /\ midnight[date] <= now

FindsDay(midnight, calendars, dates, service, date, last, now) ==
    currentServiceDate(midnight, calendars, dates, [service |-> service, last |-> last], now) = date

\* The service finds the day of the trip that is under way.
LEMMA DayIsFound ==
    ASSUME NEW length \in [Date -> 46 .. 50], NEW midnight, AreMidnights(midnight, length),
           NEW calendars, NEW dates, NEW service, NEW date \in 2 .. LastDate - 2,
           service \in ActiveServices(calendars, dates, date),
           NEW first \in Nat, NEW long \in 0 .. 42, first + long <= 93,
           NEW now, UnderWay(midnight, date, first, long, now)
    PROVE  FindsDay(midnight, calendars, dates, service, date, first + long, now)
<1>1. LastDate \in Nat /\ Date = 1 .. LastDate
  BY LastDateAssumption DEF Date
<1>2. /\ date \in Date /\ date + 1 \in Date /\ date - 1 \in Date /\ (date + 1) + 1 \in 1 .. LastDate + 1
      /\ date # date - 1 /\ date + 1 # date
  BY <1>1
<1>3. /\ midnight[date] \in Int /\ midnight[date + 1] \in Int
      /\ midnight[date + 1] = midnight[date] + length[date]
  BY <1>1, <1>2 DEF AreMidnights
<1>4. midnight[(date + 1) + 1] \in Int /\ midnight[(date + 1) + 1] = midnight[date + 1] + length[date + 1]
  BY <1>1, <1>2 DEF AreMidnights
<1>5. length[date] \in 46 .. 50 /\ length[date + 1] \in 46 .. 50
  BY <1>2
<1>6. /\ midnight[date] \in Int /\ midnight[date + 1] \in Int /\ midnight[(date + 1) + 1] \in Int
      /\ length[date] \in 46 .. 50 /\ length[date + 1] \in 46 .. 50
      /\ midnight[date + 1] = midnight[date] + length[date]
      /\ midnight[(date + 1) + 1] = midnight[date + 1] + length[date + 1]
      /\ (date - 1) + 1 = date
  BY <1>2, <1>3, <1>4, <1>5
<1> SUFFICES currentServiceDate(midnight, calendars, dates, [service |-> service, last |-> first + long], now) = date
  BY DEF FindsDay
<1>7. /\ now \in Int
      /\ midnight[date + 1] - 48 + first <= now
      /\ now <= midnight[date + 1] - 48 + first + long
      /\ midnight[date] <= now
  BY DEF UnderWay
<1> DEFINE last == first + long
           today == LocalDate(midnight, now)
           yesterday == LocalDate(midnight, now) - 1
           days == {d \in {today, yesterday} : service \in ActiveServices(calendars, dates, d)}
           runs == [d \in days |-> GtfsTimestamp(midnight, d, last)]
<1>8. currentServiceDate(midnight, calendars, dates, [service |-> service, last |-> last], now)
      = pickServiceDate(runs, today, yesterday, now)
  BY DEF currentServiceDate, candidateServiceDates
<1>9. length \in [Date -> Nat]
  BY DEF Date
<1>10. CASE now < midnight[date + 1]
  <2>1. today = date /\ yesterday = date - 1
    BY <1>2, <1>9, <1>10, <1>7, LocalDateIs
  <2>2. date \in DOMAIN runs
    BY <2>1
  <2>3. ASSUME date - 1 \in DOMAIN runs PROVE ~(runs[date - 1] >= now - LateWindow)
    <3>1. runs[date - 1] = midnight[date] - 48 + last
      BY <1>6, <2>3 DEF GtfsTimestamp
    <3> QED BY <1>6, <1>7, <3>1 DEF LateWindow
  <2> HIDE DEF runs, today, yesterday
  <2>4. pickServiceDate(runs, date, date - 1, now) = date
    BY <2>2, <2>3 DEF pickServiceDate
  <2> QED BY <1>8, <2>1, <2>4
<1>11. CASE midnight[date + 1] <= now
  <2>1. now < midnight[(date + 1) + 1]
    BY <1>6, <1>7
  <2>2. today = date + 1
    BY <1>2, <1>9, <1>11, <1>7, <2>1, LocalDateIs
  <2>3. yesterday = date
    BY <1>2, <2>2
  <2>4. date \in DOMAIN runs
    BY <2>3
  <2>5. runs[date] = midnight[date + 1] - 48 + last
    BY <2>4 DEF GtfsTimestamp
  <2>6. runs[date] >= now - LateWindow
    BY <1>6, <1>7, <2>5 DEF LateWindow
  <2> HIDE DEF runs, today, yesterday
  <2>7. pickServiceDate(runs, date + 1, date, now) = date
    BY <2>4, <2>6 DEF pickServiceDate
  <2> QED BY <1>8, <2>2, <2>3, <2>7
<1> QED BY <1>6, <1>7, <1>10, <1>11

\* The moments at which a trip of a service is under way are those of UnderWay, on the dates that
\* the files say.
LEMMA InvDayFound == Inv => DayFound
<1> SUFFICES ASSUME Inv, Of("day") PROVE DayFound
  BY DEF DayFound
<1> DEFINE midnight == Midnight(case.length)
<1>1. case \in DayCases
  BY DaysKnown
<1>2. /\ case.length \in [Date -> 46 .. 50]
      /\ Starts \subseteq Nat /\ Durations \subseteq 0 .. 42
      /\ \A first \in Starts, long \in Durations : first + long <= 93
  BY <1>1, DayCasesAssumption
<1>3. AreMidnights(midnight, case.length)
  <2>1. case.length \in [Date -> Nat]
    BY <1>2
  <2> QED BY <2>1, MidnightsKnown
<1> HIDE DEF midnight
<1>4. ASSUME NEW service \in Services, NEW date \in {d \in 2 .. LastDate - 2 : InService(service, d)},
             NEW first \in Starts, NEW long \in Durations
      PROVE  LET start == Noon(midnight, date) - 24
             IN  /\ GtfsTimestamp(midnight, date, first) = start + first
                 /\ \A now \in start + first .. start + first + long :
                      now >= midnight[date] =>
                        currentServiceDate(midnight, db.calendars, db.calendar_dates,
                                           [service |-> service, last |-> first + long], now) = date
  <2> DEFINE start == Noon(midnight, date) - 24
             m == midnight[date + 1]
  <2>1. LastDate \in Nat /\ Date = 1 .. LastDate /\ date \in 2 .. LastDate - 2 /\ date \in Date /\ date \in Nat
    BY LastDateAssumption DEF Date
  <2>2. m \in Int /\ midnight[date] \in Int /\ first \in Nat /\ long \in 0 .. 42 /\ first + long <= 93
    BY <1>2, <1>3, <2>1 DEF AreMidnights
  <2>3. Noon(midnight, date) = m - 24
    BY <1>2, <1>3, <2>1, NoonIs
  <2>4. start = m - 48
    BY <2>2, <2>3
  <2>5. GtfsTimestamp(midnight, date, first) = start + first
    BY <2>2, <2>4 DEF GtfsTimestamp
  <2>6. service \in ActiveServices(db.calendars, db.calendar_dates, date)
    BY <2>1, InServiceIsActive
  <2> HIDE DEF start
  <2>7. ASSUME NEW now \in start + first .. start + first + long, now >= midnight[date]
        PROVE  currentServiceDate(midnight, db.calendars, db.calendar_dates,
                                  [service |-> service, last |-> first + long], now) = date
    <3>1. now \in Int /\ m - 48 + first <= now /\ now <= m - 48 + first + long /\ midnight[date] <= now
      BY <2>2, <2>4, <2>7
    <3>2. date \in 2 .. LastDate - 2 /\ first \in Nat /\ long \in 0 .. 42 /\ first + long <= 93
      BY <2>1, <2>2
    <3>3. case.length \in [Date -> 46 .. 50]
      BY <1>2
    <3>4. UnderWay(midnight, date, first, long, now)
      BY <3>1 DEF UnderWay
    <3>5. FindsDay(midnight, db.calendars, db.calendar_dates, service, date, first + long, now)
      BY <1>3, <2>6, <3>2, <3>3, <3>4, DayIsFound
    <3> QED BY <3>5 DEF FindsDay
  <2> QED BY <2>5, <2>7 DEF start
<1> QED BY <1>4, Zenon DEF DayFound, midnight

\* currentServiceDate: whatever the calendar, and whenever the clocks change, the service day of a trip
\* under way is the one that is found, on whichever side of midnight it is.
THEOREM DaysAreFound == Spec => []DayFound
BY Invariant, InvDayFound, PTL

----------------------------------------------------------------------------
(***************************************************************************)
(* Routes.                                                                 *)
(***************************************************************************)
\* What is known of the trips where routes are asked for.
TripsKnown ==
    /\ StationsKnown(db)
    /\ IsFiniteSet(db.trips) /\ IsFiniteSet(db.stop_times)
    /\ \A t, o \in db.trips : t.id \in Nat /\ (t.id = o.id => t = o)
    /\ \A st \in db.stop_times : st.seq \in Nat
    /\ db.route_branches = RouteBranches(db)
    /\ db.has_stop_times = HasStopTimes(db)

\* The image of a finite set, under a function.
LEMMA FiniteImage ==
    ASSUME NEW S, IsFiniteSet(S), NEW f
    PROVE  IsFiniteSet({f[x] : x \in S}) /\ Cardinality({f[x] : x \in S}) <= Cardinality(S)
<1> DEFINE T == {f[x] : x \in S}
           g == [x \in S |-> f[x]]
<1>1. g \in Surjection(S, T)
  BY DEF Surjection
<1> HIDE DEF g, T
<1>2. IsFiniteSet(T) /\ Cardinality(T) <= Cardinality(S)
  BY <1>1, FS_Surjection
<1> QED BY <1>2 DEF T

TripRow(t) ==
    [id |-> t.trip_id, route |-> t.route_id, service |-> t.service_id, headsign |-> text(t.trip_headsign),
     direction |-> text(t.direction_id), shape |-> text(t.shape_id)]

TimeRow(s) ==
    [trip |-> s.trip_id, stop |-> s.stop_id, seq |-> s.stop_sequence,
     arrival |-> text(s.arrival_time), departure |-> text(s.departure_time)]

\* Where routes are asked for, TripsKnown holds of the tables.
LEMMA TripsAreKnown ==
    ASSUME Inv, Of("route")
    PROVE  TripsKnown
<1>1. case \in RouteCases
  BY StopCasesAssumption, RouteCasesAssumption, DayCasesAssumption, AlertCasesAssumption DEF Inv, Of
<1>2. db \in TablesOf(case.files)
  BY DEF Inv, Of
<1>3. StationsAreSound(case.files) /\ TripsAreSound(case.files)
  BY <1>1, RouteCasesAssumption
<1>4. /\ StationsKnown(db) /\ db.trips = TRIPS(case.files.trips) /\ db.stop_times = STOP_TIMES(case.files.stop_times)
      /\ db.route_branches = RouteBranches(db) /\ db.has_stop_times = HasStopTimes(db)
  BY <1>2, <1>3, TablesKnown
<1> DEFINE trips == {x \in case.files.trips : Given({x.trip_id, x.route_id, x.service_id}) /\ Sound({x.direction_id})}
           times == {x \in case.files.stop_times : /\ Given({x.trip_id, x.stop_id, x.stop_sequence})
                                                   /\ Sound({x.arrival_time, x.departure_time})}
           f == [x \in trips |-> TripRow(x)]
           g == [x \in times |-> TimeRow(x)]
<1>5. db.trips = {f[x] : x \in trips}
  <2>1. db.trips = {TripRow(x) : x \in trips}
    BY <1>4 DEF TRIPS, TripRow
  <2> HIDE DEF trips
  <2> QED BY <2>1
<1>6. db.stop_times = {g[x] : x \in times}
  <2>1. db.stop_times = {TimeRow(x) : x \in times}
    BY <1>4 DEF STOP_TIMES, TimeRow
  <2> HIDE DEF times
  <2> QED BY <2>1
<1>7. trips \subseteq case.files.trips /\ times \subseteq case.files.stop_times
  OBVIOUS
<1>8. IsFiniteSet(trips) /\ IsFiniteSet(times)
  <2> HIDE DEF trips, times
  <2> QED BY <1>3, <1>7, FS_Subset DEF TripsAreSound
<1>9. \A x \in times : g[x].seq = x.stop_sequence /\ g[x].seq \in Nat
  BY <1>3 DEF TripsAreSound, TimeRow, Given
<1>10. \A x \in trips : f[x].id = x.trip_id
  BY DEF TripRow
<1> HIDE DEF trips, times, f, g
<1>11. IsFiniteSet(db.trips) /\ IsFiniteSet(db.stop_times)
  BY <1>5, <1>6, <1>8, FiniteImage
<1>12. \A st \in db.stop_times : st.seq \in Nat
  BY <1>6, <1>9
<1>13. \A t, o \in db.trips : t.id \in Nat /\ (t.id = o.id => t = o)
  <2>1. \A x, y \in trips : x.trip_id \in Nat /\ (x.trip_id = y.trip_id => x = y)
    BY <1>3, <1>7 DEF TripsAreSound
  <2> QED BY <1>5, <1>10, <2>1
<1> QED BY <1>4, <1>11, <1>12, <1>13 DEF TripsKnown

\* How many numbers of a set come before each of them.
LEMMA Ranks ==
    ASSUME NEW Q \in SUBSET Nat, IsFiniteSet(Q), NEW k \in 1 .. Cardinality(Q)
    PROVE  \E q \in Q : Cardinality({o \in Q : o < q}) = k - 1
<1> DEFINE n == Cardinality(Q)
           Below(q) == {o \in Q : o < q}
           ranked == {i \in 0 .. n - 1 : \E q \in Q : Cardinality(Below(q)) = i}
<1>1. n \in Nat /\ k \in 1 .. n
  BY FS_CardinalityType
<1>2. \A q : Below(q) \subseteq Q /\ IsFiniteSet(Below(q))
  BY FS_Subset
<1> HIDE DEF n
<1>3. 0 \in ranked
  <2>1. Q # {}
    <3> SUFFICES ASSUME Q = {} PROVE FALSE
      OBVIOUS
    <3>1. n = 0
      BY FS_EmptySet DEF n
    <3> QED BY <1>1, <3>1
  <2>2. PICK q \in Q : \A o \in Q : q <= o
    BY <2>1, LeastIndex
  <2>3. Below(q) = {}
    <3>1. \A o \in Q : o \in Nat /\ q \in Nat /\ q <= o
      BY <2>2
    <3>2. \A o \in Q : ~(o < q)
      BY <3>1
    <3> QED BY <3>2
  <2>4. Cardinality(Below(q)) = 0
    BY <2>3, FS_EmptySet
  <2> HIDE DEF Below
  <2> QED BY <1>1, <2>4
<1>4. ASSUME NEW i \in 1 .. n - 1, i - 1 \in ranked PROVE i \in ranked
  <2>1. PICK q \in Q : Cardinality(Below(q)) = i - 1
    BY <1>4
  <2> DEFINE upto == Below(q) \cup {q}
             above == {o \in Q : q < o}
  <2>2. q \notin Below(q)
    OBVIOUS
  <2>3. IsFiniteSet(upto) /\ Cardinality(upto) = i
    <3> HIDE DEF Below
    <3>1. Cardinality(upto) = (i - 1) + 1
      BY <1>2, <2>1, <2>2, FS_AddElement
    <3> QED BY <1>1, <1>2, <3>1, FS_AddElement
  <2>4. above # {}
    <3> SUFFICES ASSUME above = {} PROVE FALSE
      OBVIOUS
    <3>1. \A o \in Q : o \in Nat /\ q \in Nat /\ ~(q < o)
      OBVIOUS
    <3>2. \A o \in Q : o < q \/ o = q
      BY <3>1
    <3>3. upto = Q
      BY <3>2
    <3> HIDE DEF upto, above
    <3> QED BY <1>1, <2>3, <3>3 DEF n
  <2>5. PICK p \in above : \A o \in above : p <= o
    <3>1. above \in SUBSET Nat
      OBVIOUS
    <3> HIDE DEF above
    <3> QED BY <2>4, <3>1, LeastIndex
  <2>6. p \in Q /\ q < p /\ p \in Nat /\ q \in Nat
    BY <2>5
  <2>7. \A o \in Q : o \in Nat /\ (q < o => p <= o)
    BY <2>5
  <2>8. \A o \in Q : o < p <=> o < q \/ o = q
    BY <2>6, <2>7
  <2>9. Below(p) = upto
    BY <2>8
  <2> HIDE DEF Below, upto, above
  <2> QED BY <1>1, <2>3, <2>6, <2>9
<1>5. \A i \in 0 .. n - 1 : i \in ranked
  <2>1. n - 1 \in Nat
    BY <1>1
  <2> DEFINE m == n - 1
  <2> HIDE DEF ranked, m
  <2> QED BY <1>3, <1>4, <2>1, Climb DEF m
<1>6. k - 1 \in 0 .. n - 1
  BY <1>1
<1> QED BY <1>5, <1>6

\* The stops of a trip are stops of the table.
LEMMA StopsOfTripKnown ==
    ASSUME TripsKnown, NEW trip
    PROVE  /\ StopsOfTrip(db, trip) \in Seq({s.id : s \in db.stops})
           /\ Len(StopsOfTrip(db, trip)) \in 0 .. Cardinality(db.stop_times)
<1> DEFINE rows == {st \in db.stop_times : st.trip = trip /\ StopRow(db, st.stop) # {}}
           Before(st) == {o.seq : o \in {x \in rows : x.seq < st.seq}}
           Nth(k) == CHOOSE st \in rows : Cardinality(Before(st)) = k - 1
           Q == {st.seq : st \in rows}
           n == Cardinality(Q)
           Ids == {s.id : s \in db.stops}
           stops == [k \in 1 .. n |-> Nth(k).stop]
<1>1. StopsOfTrip(db, trip) = stops
  BY DEF StopsOfTrip
<1>2. IsFiniteSet(rows) /\ Cardinality(rows) <= Cardinality(db.stop_times)
  <2>1. rows \subseteq db.stop_times
    OBVIOUS
  <2> HIDE DEF rows
  <2> QED BY <2>1, FS_Subset DEF TripsKnown
<1>3. Q \in SUBSET Nat
  BY DEF TripsKnown
<1>4. IsFiniteSet(Q) /\ n <= Cardinality(rows)
  <2> DEFINE f == [st \in rows |-> st.seq]
  <2>1. Q = {f[st] : st \in rows}
    OBVIOUS
  <2> HIDE DEF f, Q, rows
  <2> QED BY <1>2, <2>1, FiniteImage
<1>5. n \in Nat /\ n <= Cardinality(db.stop_times)
  <2> HIDE DEF Q, rows
  <2>1. Cardinality(Q) \in Nat /\ Cardinality(rows) \in Nat /\ Cardinality(db.stop_times) \in Nat
    BY <1>2, <1>4, FS_CardinalityType DEF TripsKnown
  <2> QED BY <1>2, <1>4, <2>1
<1>6. \A st \in rows : st.stop \in Ids
  BY DEF StopRow
<1>7. \A st \in rows : Before(st) = {o \in Q : o < st.seq}
  OBVIOUS
<1>8. ASSUME NEW k \in 1 .. n PROVE Nth(k) \in rows
  <2>1. PICK q \in Q : Cardinality({o \in Q : o < q}) = k - 1
    <3> HIDE DEF Q
    <3> QED BY <1>3, <1>4, Ranks
  <2>2. PICK st \in rows : st.seq = q
    OBVIOUS
  <2> HIDE DEF Q, rows
  <2>3. Cardinality(Before(st)) = k - 1
    BY <1>7, <2>1, <2>2
  <2> HIDE DEF Before
  <2> QED BY <2>2, <2>3
<1> HIDE DEF Nth, rows, n, Ids
<1>9. \A k \in 1 .. n : Nth(k).stop \in Ids
  BY <1>6, <1>8
<1>10. stops \in Seq(Ids) /\ Len(stops) = n
  BY <1>5, <1>9
<1>11. Cardinality(db.stop_times) \in Nat
  BY FS_CardinalityType DEF TripsKnown
<1> QED BY <1>1, <1>5, <1>10, <1>11 DEF Ids

\* x has the highest c and then the lowest d.
IsHighest(x, S, c, d) == \A y \in S : c[x] > c[y] \/ (c[x] = c[y] /\ d[x] <= d[y])

\* Of some, one of the highest c and then of the lowest d.
LEMMA HighestOf ==
    ASSUME NEW S, S # {}, NEW N \in Nat, NEW c \in [S -> 0 .. N], NEW d \in [S -> Nat]
    PROVE  \E x \in S : IsHighest(x, S, c, d)
<1> DEFINE below == {N - c[x] : x \in S}
           tops  == {x \in S : \A y \in S : c[x] >= c[y]}
           lows  == {d[x] : x \in tops}
<1>1. \A x \in S : c[x] \in Nat /\ c[x] <= N /\ d[x] \in Nat
  OBVIOUS
<1>2. below \in SUBSET Nat /\ below # {}
  BY <1>1
<1>3. PICK l \in below : \A j \in below : l <= j
  <2> HIDE DEF below
  <2> QED BY <1>2, LeastIndex
<1>4. PICK top \in S : l = N - c[top]
  BY <1>3
<1>5. top \in tops
  <2>1. ASSUME NEW y \in S PROVE c[top] >= c[y]
    <3>1. N - c[y] \in below
      OBVIOUS
    <3>2. l <= N - c[y]
      BY <1>3, <3>1
    <3> QED BY <1>1, <1>4, <3>2
  <2> QED BY <2>1
<1>6. lows \in SUBSET Nat /\ lows # {}
  BY <1>1, <1>5
<1>7. PICK m \in lows : \A j \in lows : m <= j
  <2> HIDE DEF lows
  <2> QED BY <1>6, LeastIndex
<1>8. PICK x \in tops : m = d[x]
  BY <1>7
<1>9. ASSUME NEW y \in S PROVE c[x] > c[y] \/ (c[x] = c[y] /\ d[x] <= d[y])
  <2>1. c[x] >= c[y] /\ c[x] \in Nat /\ c[y] \in Nat
    BY <1>1, <1>8
  <2>2. CASE c[x] = c[y]
    <3>1. \A z \in S : c[y] >= c[z]
      BY <1>8, <2>2
    <3>2. d[y] \in lows
      BY <3>1
    <3> QED BY <1>7, <1>8, <2>2, <3>2
  <2>3. CASE c[x] # c[y]
    BY <2>1, <2>3
  <2> QED BY <2>2, <2>3
<1> QED BY <1>8, <1>9 DEF IsHighest

\* A trip of at least half the stops of the route's longest has a branch.
LEMMA BranchOfTrip ==
    ASSUME TripsKnown, NEW route, NEW t \in TripsOf(route),
           \A o \in TripsOf(route) : 2 * StopCount(db, t) >= StopCount(db, o)
    PROVE  \E b \in db.route_branches : b.route = route /\ b.direction = t.direction /\ b.headsign = t.headsign
<1> DEFINE count == [x \in db.trips |-> StopCount(db, x)]
           run   == {x \in db.trips : count[x] > 0}
           full  == {x \in run : \A o \in run : o.route = x.route => 2 * count[x] >= count[o]}
           Alike(x, o)  == <<x.route, x.direction, x.headsign>> = <<o.route, o.direction, o.headsign>>
           Before(x, o) == count[x] > count[o] \/ (count[x] = count[o] /\ x.id <= o.id)
           Branch(x) == [trip |-> x.id, route |-> x.route, direction |-> x.direction,
                         headsign |-> x.headsign, shape |-> x.shape, stop_count |-> count[x]]
           firsts == {x \in full : \A o \in full : Alike(x, o) => Before(x, o)}
           A == {x \in full : Alike(t, x)}
           N == Cardinality(db.stop_times)
<1>1. db.route_branches = {Branch(x) : x \in firsts}
  BY DEF TripsKnown, RouteBranches
<1>2. N \in Nat
  BY FS_CardinalityType DEF TripsKnown
<1>3. \A x \in db.trips : count[x] = StopCount(db, x) /\ count[x] \in 0 .. N
  <2>1. ASSUME NEW x \in db.trips PROVE StopCount(db, x) \in 0 .. N
    <3> DEFINE at == {st \in db.stop_times : st.trip = x.id}
    <3>1. at \subseteq db.stop_times
      OBVIOUS
    <3>2. StopCount(db, x) = Cardinality(at)
      BY DEF StopCount
    <3> HIDE DEF at
    <3>3. IsFiniteSet(at) /\ Cardinality(at) <= N
      BY <3>1, FS_Subset DEF TripsKnown
    <3>4. Cardinality(at) \in Nat
      BY <3>3, FS_CardinalityType
    <3> HIDE DEF N
    <3> QED BY <1>2, <3>2, <3>3, <3>4
  <2> QED BY <2>1
<1>4. t \in db.trips /\ t.route = route /\ StopCount(db, t) > 0
  BY DEF TripsOf
<1> HIDE DEF count, N
<1>5. t \in A
  <2>1. t \in run
    BY <1>3, <1>4
  <2>2. ASSUME NEW o \in run, o.route = t.route PROVE 2 * count[t] >= count[o]
    <3>1. o \in TripsOf(route)
      BY <1>3, <1>4, <2>2 DEF TripsOf
    <3> QED BY <1>3, <1>4, <3>1
  <2> HIDE DEF run
  <2> QED BY <2>1, <2>2
<1>6. A \subseteq db.trips
  OBVIOUS
<1>7. PICK b \in A : \A o \in A : Before(b, o)
  <2> DEFINE c == [x \in A |-> count[x]]
             d == [x \in A |-> x.id]
  <2> HIDE DEF A
  <2>1. c \in [A -> 0 .. N]
    BY <1>3, <1>6
  <2>2. d \in [A -> Nat]
    BY <1>6 DEF TripsKnown
  <2>3. \A x \in A : c[x] = count[x] /\ d[x] = x.id
    OBVIOUS
  <2> HIDE DEF c, d
  <2>4. PICK x \in A : IsHighest(x, A, c, d)
    <3>1. A # {}
      BY <1>5
    <3> HIDE DEF Alike, Before, Branch, run, full, firsts
    <3> QED BY <1>2, <2>1, <2>2, <3>1, HighestOf
  <2> QED BY <2>3, <2>4 DEF IsHighest
<1>8. b \in full /\ b.route = t.route /\ b.direction = t.direction /\ b.headsign = t.headsign
  <2> HIDE DEF full
  <2> QED OBVIOUS
<1>9. \A o \in full : Alike(b, o) => Before(b, o)
  <2> HIDE DEF full, Before
  <2>1. \A o \in full : Alike(b, o) => o \in A
    BY <1>8
  <2> HIDE DEF A
  <2> QED BY <1>7, <2>1
<1>10. b \in firsts
  <2> HIDE DEF full, Before, A
  <2> QED BY <1>8, <1>9
<1>11. Branch(b) \in db.route_branches
  <2> HIDE DEF Branch, firsts
  <2> QED BY <1>1, <1>10
<1>12. Branch(b).route = b.route /\ Branch(b).direction = b.direction /\ Branch(b).headsign = b.headsign
  OBVIOUS
<1> HIDE DEF Branch, A
<1> QED BY <1>4, <1>8, <1>11, <1>12

\* A branch is of a trip that has stops.
LEMMA TripOfBranch ==
    ASSUME TripsKnown, NEW b \in db.route_branches
    PROVE  \E t \in TripsOf(b.route) : b.shape = t.shape
<1> DEFINE count == [x \in db.trips |-> StopCount(db, x)]
           run   == {x \in db.trips : count[x] > 0}
           full  == {x \in run : \A o \in run : o.route = x.route => 2 * count[x] >= count[o]}
           Alike(x, o)  == <<x.route, x.direction, x.headsign>> = <<o.route, o.direction, o.headsign>>
           Before(x, o) == count[x] > count[o] \/ (count[x] = count[o] /\ x.id <= o.id)
           Branch(x) == [trip |-> x.id, route |-> x.route, direction |-> x.direction,
                         headsign |-> x.headsign, shape |-> x.shape, stop_count |-> count[x]]
           firsts == {x \in full : \A o \in full : Alike(x, o) => Before(x, o)}
<1>1. db.route_branches = {Branch(x) : x \in firsts}
  BY DEF TripsKnown, RouteBranches
<1>2. firsts \subseteq run
  <2> HIDE DEF run, Before, Alike
  <2> QED OBVIOUS
<1>3. PICK t \in run : b = Branch(t)
  <2> HIDE DEF run, firsts, Branch
  <2> QED BY <1>1, <1>2
<1>4. t \in db.trips /\ StopCount(db, t) > 0 /\ b.route = t.route /\ b.shape = t.shape
  BY <1>3
<1> QED BY <1>4 DEF TripsOf

\* There are no more branches than trips.
LEMMA FewBranches ==
    ASSUME TripsKnown
    PROVE  IsFiniteSet(db.route_branches)
<1> DEFINE count == [x \in db.trips |-> StopCount(db, x)]
           run   == {x \in db.trips : count[x] > 0}
           full  == {x \in run : \A o \in run : o.route = x.route => 2 * count[x] >= count[o]}
           Alike(x, o)  == <<x.route, x.direction, x.headsign>> = <<o.route, o.direction, o.headsign>>
           Before(x, o) == count[x] > count[o] \/ (count[x] = count[o] /\ x.id <= o.id)
           Branch(x) == [trip |-> x.id, route |-> x.route, direction |-> x.direction,
                         headsign |-> x.headsign, shape |-> x.shape, stop_count |-> count[x]]
           firsts == {x \in full : \A o \in full : Alike(x, o) => Before(x, o)}
           f == [x \in firsts |-> Branch(x)]
<1>1. db.route_branches = {Branch(x) : x \in firsts}
  BY DEF TripsKnown, RouteBranches
<1>2. firsts \subseteq db.trips
  <2> HIDE DEF Before, Alike, count
  <2> QED OBVIOUS
<1> HIDE DEF firsts, Branch
<1>3. db.route_branches = {f[x] : x \in firsts}
  BY <1>1
<1> HIDE DEF f
<1>4. IsFiniteSet(firsts)
  BY <1>2, FS_Subset DEF TripsKnown
<1> QED BY <1>3, <1>4, FiniteImage

\* The branches of a route are all there.
LEMMA BranchesInARow ==
    ASSUME TripsKnown, NEW route, NEW sorted \in BranchReps(db, route)
    PROVE  /\ sorted \in Seq(db.route_branches)
           /\ ToSet(sorted) = {b \in db.route_branches : b.route = route}
<1> DEFINE own == {b \in db.route_branches : b.route = route}
<1>1. sorted \in SetToSeqs(own)
  BY DEF BranchReps
<1>2. own \subseteq db.route_branches
  OBVIOUS
<1> HIDE DEF own
<1>3. IsFiniteSet(own)
  BY <1>2, FewBranches, FS_Subset
<1>4. sorted \in Seq(own) /\ ToSet(sorted) = own
  BY <1>1, <1>3, OrderOfRows
<1>5. sorted \in Seq(db.route_branches)
  BY <1>2, <1>4
<1> QED BY <1>4, <1>5 DEF own

StopIds == {s.id : s \in db.stops}

NameOf(s) == (CHOOSE x \in StopRow(db, s) : TRUE).name

NamesIn(stops) == {x.name : x \in {y \in db.stops : y.id \in ToSet(stops)}}

NamesOn(page) == NamesIn(page.shared) \cup UNION {NamesIn(page.sections[i]) : i \in DOMAIN page.sections}

\* Branches of stops that the table has, none longer than N.
AreBranches(branches, m, N) ==
    /\ m \in Nat /\ N \in Nat /\ DOMAIN branches = 1 .. m
    /\ \A i \in 1 .. m : branches[i].stops \in Seq(StopIds) /\ Len(branches[i].stops) \in 0 .. N

\* The names of stops are those of their rows.
LEMMA NamesAre ==
    ASSUME StationsKnown(db), NEW stops \in Seq(StopIds)
    PROVE  NamesIn(stops) = {NameOf(s) : s \in ToSet(stops)}
<1>1. \A s \in db.stops : NameOf(s.id) = s.name
  <2>1. ASSUME NEW s \in db.stops PROVE NameOf(s.id) = s.name
    <3>1. StopRow(db, s.id) = {s}
      BY ParentOfRow
    <3>2. (CHOOSE x \in {s} : TRUE) = s
      OBVIOUS
    <3> QED BY <3>1, <3>2 DEF NameOf
  <2> QED BY <2>1
<1>2. ToSet(stops) \subseteq StopIds
  BY DEF ToSet
<1>3. ASSUME NEW n \in NamesIn(stops) PROVE n \in {NameOf(s) : s \in ToSet(stops)}
  BY <1>1 DEF NamesIn
<1>4. ASSUME NEW s \in ToSet(stops) PROVE NameOf(s) \in NamesIn(stops)
  <2>1. PICK x \in db.stops : x.id = s
    BY <1>2 DEF StopIds
  <2> QED BY <1>1, <2>1 DEF NamesIn
<1> QED BY <1>3, <1>4

\* The stops that are left of some have the names that are left.
LEMMA NamesLeft ==
    ASSUME StationsKnown(db), NEW stops \in Seq(StopIds), NEW S, NEW s \in ToSet(stops) \cap S
    PROVE  NameOf(s) \in NamesIn(Filter(stops, S))
<1>1. Filter(stops, S) \in Seq(StopIds) /\ s \in ToSet(Filter(stops, S))
  BY FilterKeeps
<1> QED BY <1>1, NamesAre

\* An outbound branch is on the page with all its stops.
LEMMA PageHas ==
    ASSUME StationsKnown(db), NEW branches, NEW m, NEW N, AreBranches(branches, m, N),
           NEW i \in 1 .. m, branches[i].directionId = 0, NEW n \in NamesIn(branches[i].stops)
    PROVE  n \in NamesOn(RoutePage(db, branches))
<1> DEFINE NamesAt(b)   == {NameOf(s) : s \in ToSet(b.stops)}
           outbound   == {j \in DOMAIN branches : branches[j].directionId = 0}
           Len_(j)    == Len(branches[j].stops)
           full       == {j \in outbound : \A k \in outbound : 4 * Len_(j) >= 3 * Len_(k)}
           trunkOf    == IF Cardinality(full) >= 2 THEN full ELSE outbound
           trunk      == {x \in UNION {NamesAt(branches[j]) : j \in outbound} :
                             \A j \in trunkOf : x \in NamesAt(branches[j])}
           IsLongest(j) == \A k \in trunkOf : Len_(j) > Len_(k) \/ (Len_(j) = Len_(k) /\ j <= k)
           longest    == CHOOSE j \in trunkOf : IsLongest(j)
           first      == CHOOSE j \in DOMAIN branches : \A k \in DOMAIN branches :
                             Len_(j) > Len_(k) \/ (Len_(j) = Len_(k) /\ j <= k)
           only       == IF outbound = {} THEN first ELSE CHOOSE j \in outbound : TRUE
           Shared(j)  == Filter(branches[j].stops, {s \in ToSet(branches[j].stops) : NameOf(s) \in trunk})
           Rest(j)    == Filter(branches[j].stops, {s \in ToSet(branches[j].stops) : NameOf(s) \notin trunk})
           forked     == [shared |-> Shared(longest), sections |-> [j \in outbound |-> Rest(j)]]
           straight   == [shared   |-> IF branches = <<>> THEN <<>> ELSE branches[only].stops,
                          sections |-> [j \in {} |-> <<>>]]
<1>1. RoutePage(db, branches) = IF Cardinality(outbound) >= 2 THEN forked ELSE straight
  BY DEF RoutePage, SectionsOf, NameOf
<1>2. /\ DOMAIN branches = 1 .. m /\ m \in Nat /\ N \in Nat
      /\ \A j \in 1 .. m : branches[j].stops \in Seq(StopIds) /\ Len_(j) \in 0 .. N
  BY DEF AreBranches
<1>3. i \in outbound /\ outbound \subseteq 1 .. m
  BY <1>2
<1>4. IsFiniteSet(outbound)
  <2> HIDE DEF outbound
  <2>1. IsFiniteSet(1 .. m)
    BY <1>2, m \in Int, 1 \in Int, FS_Interval
  <2> QED BY <1>3, <2>1, FS_Subset
<1>5. n \in NamesAt(branches[i]) /\ \A j \in 1 .. m : NamesIn(branches[j].stops) = NamesAt(branches[j])
  BY <1>2, NamesAre
<1> HIDE DEF outbound, Len_
<1>6. CASE Cardinality(outbound) >= 2 /\ n \notin trunk
  <2>1. PICK s \in ToSet(branches[i].stops) : n = NameOf(s)
    BY <1>5
  <2>2. n \in NamesIn(Rest(i))
    <3> HIDE DEF trunk
    <3> QED BY <1>2, <1>6, <2>1, NamesLeft
  <2> HIDE DEF Shared, Rest, longest
  <2>3. forked.sections = [j \in outbound |-> Rest(j)]
    OBVIOUS
  <2>4. RoutePage(db, branches) = forked
    BY <1>1, <1>6
  <2> HIDE DEF forked
  <2> QED BY <1>3, <2>2, <2>3, <2>4 DEF NamesOn
<1>7. CASE Cardinality(outbound) >= 2 /\ n \in trunk
  <2>1. trunkOf \subseteq outbound /\ trunkOf # {}
    <3>1. full \subseteq outbound
      OBVIOUS
    <3>2. full = {} => Cardinality(full) = 0
      BY FS_EmptySet
    <3> HIDE DEF full
    <3> QED BY <1>3, <3>1, <3>2
  <2> HIDE DEF trunkOf
  <2>2. \E j \in trunkOf : IsLongest(j)
    <3> DEFINE c == [j \in trunkOf |-> Len_(j)]
               d == [j \in trunkOf |-> j]
    <3>1. c \in [trunkOf -> 0 .. N] /\ d \in [trunkOf -> Nat]
      BY <1>2, <1>3, <2>1
    <3>2. \A j \in trunkOf : c[j] = Len_(j) /\ d[j] = j
      OBVIOUS
    <3> HIDE DEF c, d, NamesAt, trunk, first, only, Shared, Rest, forked, straight, longest, full
    <3>3. PICK j \in trunkOf : IsHighest(j, trunkOf, c, d)
      BY <1>2, <2>1, <3>1, HighestOf
    <3> QED BY <3>2, <3>3 DEF IsHighest
  <2> HIDE DEF IsLongest
  <2>3. longest \in trunkOf
    BY <2>2
  <2> HIDE DEF longest
  <2>4. n \in NamesAt(branches[longest]) /\ longest \in 1 .. m
    BY <1>3, <1>7, <2>1, <2>3
  <2>5. PICK s \in ToSet(branches[longest].stops) : n = NameOf(s)
    BY <2>4
  <2>6. n \in NamesIn(Shared(longest))
    <3> HIDE DEF trunk
    <3> QED BY <1>2, <1>7, <2>4, <2>5, NamesLeft
  <2> HIDE DEF Shared, Rest
  <2>7. forked.shared = Shared(longest)
    OBVIOUS
  <2>8. RoutePage(db, branches) = forked
    BY <1>1, <1>7
  <2> HIDE DEF forked
  <2> QED BY <2>6, <2>7, <2>8 DEF NamesOn
<1>8. CASE ~(Cardinality(outbound) >= 2)
  <2>1. outbound = {i}
    <3>1. Cardinality(outbound) \in Nat
      BY <1>4, FS_CardinalityType
    <3>2. Cardinality(outbound) # 0
      BY <1>3, <1>4, FS_EmptySet
    <3>3. Cardinality(outbound) = 1
      BY <1>8, <3>1, <3>2
    <3>4. \E x : outbound = {x}
      BY <1>4, <3>3, FS_Singleton
    <3> QED BY <1>3, <3>4
  <2>2. only = i
    BY <2>1
  <2>3. branches # <<>>
    <3>1. DOMAIN <<>> = {}
      OBVIOUS
    <3> QED BY <1>2, <3>1
  <2> HIDE DEF only
  <2>4. straight.shared = branches[i].stops
    BY <2>2, <2>3
  <2>5. RoutePage(db, branches) = straight
    BY <1>1, <1>8
  <2> HIDE DEF straight
  <2> QED BY <2>4, <2>5 DEF NamesOn
<1> QED BY <1>6, <1>7, <1>8

\* What findOne makes of the branches of a route that is in the table.
LEMMA BranchesFound ==
    ASSUME TripsKnown, NEW r \in db.routes, NEW sorted \in BranchReps(db, r.id)
    PROVE  /\ AreBranches(findOne(db, r.id, sorted), Len(sorted), Cardinality(db.stop_times))
           /\ \A i \in 1 .. Len(sorted) : /\ findOne(db, r.id, sorted)[i].label = sorted[i].headsign
                                          /\ findOne(db, r.id, sorted)[i].directionId = sorted[i].direction
<1> DEFINE N == Cardinality(db.stop_times)
           m == Len(sorted)
           Branch(k) == [label |-> sorted[k].headsign, directionId |-> sorted[k].direction,
                         stops |-> StopsOfTrip(db, sorted[k].trip)]
           branches == [k \in DOMAIN sorted |-> Branch(k)]
<1>1. findOne(db, r.id, sorted) = branches
  BY DEF findOne
<1>2. N \in Nat
  BY FS_CardinalityType DEF TripsKnown
<1>3. m \in Nat /\ DOMAIN sorted = 1 .. m
  BY BranchesInARow
<1>4. \A i \in 1 .. m : branches[i] = Branch(i)
  <2> HIDE DEF Branch, m
  <2> QED BY <1>3
<1>5. \A i \in 1 .. m : branches[i].stops = StopsOfTrip(db, sorted[i].trip)
  BY <1>4
<1>6. ASSUME NEW i \in 1 .. m PROVE branches[i].stops \in Seq(StopIds) /\ Len(branches[i].stops) \in 0 .. N
  <2> HIDE DEF branches, m, N
  <2>1. StopsOfTrip(db, sorted[i].trip) \in Seq({s.id : s \in db.stops})
    BY StopsOfTripKnown
  <2>2. Len(StopsOfTrip(db, sorted[i].trip)) \in 0 .. N
    BY StopsOfTripKnown DEF N
  <2> QED BY <1>5, <2>1, <2>2 DEF StopIds
<1>7. DOMAIN branches = 1 .. m
  <2> HIDE DEF Branch, m
  <2> QED BY <1>3
<1>8. \A i \in 1 .. m : branches[i].label = sorted[i].headsign /\ branches[i].directionId = sorted[i].direction
  BY <1>4
<1> HIDE DEF branches
<1> QED BY <1>1, <1>2, <1>3, <1>6, <1>7, <1>8 DEF AreBranches

\* The shape of a route is that of a trip of its.
LEMMA ShapeOfTrip ==
    ASSUME TripsKnown, NEW route, NEW points \in getShape(db, route)
    PROVE  \E t \in TripsOf(route) : t.shape # Null /\ points = {p \in db.shapes : p.shape = t.shape}
<1>1. PICK b \in db.route_branches :
         b.route = route /\ b.shape # Null /\ points = {p \in db.shapes : p.shape = b.shape}
  BY DEF getShape
<1>2. PICK t \in TripsOf(route) : b.shape = t.shape
  BY <1>1, TripOfBranch
<1> QED BY <1>1, <1>2

\* A route that trips run on is listed.
LEMMA RouteIsListed ==
    ASSUME TripsKnown, NEW r \in db.routes, TripsOf(r.id) # {}
    PROVE  r \in Listed(db)
<1>1. PICK t \in db.trips : t.route = r.id /\ StopCount(db, t) > 0
  BY DEF TripsOf
<1>2. r.id \in db.has_stop_times
  BY <1>1 DEF TripsKnown, HasStopTimes
<1> QED BY <1>2 DEF Listed

\* What RouteOpens says of a route, its branches and their page.
Opens(r, branches, page) ==
    /\ r \in Listed(db)
    /\ \A t \in TripsOf(r.id) : (\A o \in TripsOf(r.id) : 2 * StopCount(db, t) >= StopCount(db, o)) =>
         \E b \in ToSet(branches) : <<b.label, b.directionId>> = <<t.headsign, t.direction>>
    /\ \A b \in ToSet(branches) : b.directionId = 0 => NamesIn(b.stops) \subseteq NamesOn(page)
    /\ \A points \in getShape(db, r.id) :
         \E t \in TripsOf(r.id) : t.shape # Null /\ points = {p \in db.shapes : p.shape = t.shape}

\* The route opens, whatever the order of its branches.
LEMMA RouteDoesOpen ==
    ASSUME TripsKnown, NEW r \in db.routes, TripsOf(r.id) # {}, NEW sorted \in BranchReps(db, r.id)
    PROVE  Opens(r, findOne(db, r.id, sorted), RoutePage(db, findOne(db, r.id, sorted)))
<1> DEFINE branches == findOne(db, r.id, sorted)
           page == RoutePage(db, branches)
           m == Len(sorted)
           N == Cardinality(db.stop_times)
<1>1. SUFFICES Opens(r, branches, page)
  OBVIOUS
<1>2. AreBranches(branches, m, N)
  BY BranchesFound
<1>3. \A i \in 1 .. m : branches[i].label = sorted[i].headsign /\ branches[i].directionId = sorted[i].direction
  BY BranchesFound
<1>4. DOMAIN branches = 1 .. m /\ ToSet(branches) = {branches[i] : i \in 1 .. m}
  BY <1>2 DEF AreBranches, ToSet
<1>5. DOMAIN sorted = 1 .. m /\ ToSet(sorted) = {b \in db.route_branches : b.route = r.id}
  BY BranchesInARow
<1> HIDE DEF branches, m, N
<1>6. r \in Listed(db)
  BY RouteIsListed
<1>7. ASSUME NEW t \in TripsOf(r.id), \A o \in TripsOf(r.id) : 2 * StopCount(db, t) >= StopCount(db, o)
      PROVE  \E b \in ToSet(branches) : <<b.label, b.directionId>> = <<t.headsign, t.direction>>
  <2>1. PICK b \in db.route_branches : b.route = r.id /\ b.direction = t.direction /\ b.headsign = t.headsign
    BY <1>7, BranchOfTrip
  <2>2. b \in ToSet(sorted)
    BY <1>5, <2>1
  <2>3. PICK k \in 1 .. m : b = sorted[k]
    BY <1>5, <2>2 DEF ToSet
  <2>4. branches[k] \in ToSet(branches)
    BY <1>4
  <2> QED BY <1>3, <2>1, <2>3, <2>4
<1>8. ASSUME NEW b \in ToSet(branches), b.directionId = 0 PROVE NamesIn(b.stops) \subseteq NamesOn(page)
  <2>1. PICK i \in 1 .. m : b = branches[i]
    BY <1>4
  <2>2. StationsKnown(db)
    BY DEF TripsKnown
  <2> QED BY <1>2, <1>8, <2>1, <2>2, PageHas
<1>9. \A points \in getShape(db, r.id) :
         \E t \in TripsOf(r.id) : t.shape # Null /\ points = {p \in db.shapes : p.shape = t.shape}
  BY ShapeOfTrip
<1> HIDE DEF page
<1> QED BY <1>6, <1>7, <1>8, <1>9 DEF Opens

\* The routes of the table open, by what the files of their trips became.
LEMMA InvRouteOpens == Inv => RouteOpens
<1> SUFFICES ASSUME Inv, Of("route") PROVE RouteOpens
  BY DEF RouteOpens
<1>1. TripsKnown
  BY TripsAreKnown
<1>2. \A r \in {x \in db.routes : TripsOf(x.id) # {}} : \A sorted \in BranchReps(db, r.id) :
         \E branches \in {findOne(db, r.id, sorted)} : \E page \in {RoutePage(db, branches)} : Opens(r, branches, page)
  BY <1>1, RouteDoesOpen
<1> QED BY <1>2 DEF RouteOpens, Opens, NamesOn, NamesIn

\* findOne, getShape and the page of a route: a route with trips is listed, every direction and headsign
\* that runs at least half its length is a branch, and every stop of an outbound branch is on the page,
\* whatever the branches and in whatever order the database returns those of one length.
THEOREM RoutesOpen == Spec => []RouteOpens
BY Invariant, InvRouteOpens, PTL
==============================================================================
